# Verification of the gamepad firmware

TLA+ models of the firmware of a Bluetooth LE HID gamepad (EFR32BG13, Gecko SDK
3.0): the button path from pin edge to report, the Bluetooth application with its
advertising, connection and bonding state, and the services the loop sleeps on: power
manager, UART stream and sleep timer. The modules are model-checked with TLC on small
instances; the safety properties of every part, and each refinement, are proved with
TLAPS for every size.

## The system

The application is about 1100 lines of C over a vendored SDK. It has no operating
system: `main.c` runs a super loop, each turn of which pops at most one Bluetooth
event and handles it to its end; interrupts cut in anywhere.

| Component | State | Operations | Talks to |
| --- | --- | --- | --- |
| super loop: `main.c`, `app.c`, `autogen/sl_bluetooth.c` | none | pop an event, give it to the OTA handler, then to the application | every handler |
| buttons: `src/hal/button.c` | `btn_evt` (cache, num), `stick`, `value` | `btn_init`, `button_interrupt`/`btn_push_evt` (interrupt), `btn_update_handler` (loop) | rings the loop with `sl_bt_external_signal`; calls `start_adv`, `gamepad.stick_update` |
| GPIO dispatcher: SDK `gpiointerrupt.c` | edge flags (hardware), callbacks | clear the flags, call the callbacks | `button_interrupt` |
| Bluetooth application: `src/bt.c` | `bt`: `bonding_info`, `adv_conn` (handle, union of `adv` and `conn`) | one handler per event, `start_adv` | BGAPI calls; read by buttons and gamepad through `get_bt_ptr()` |
| HID gamepad: `src/hid/hid_gamepad.c` | `gamepad` (report buffer, callbacks) | `gamepad_init` (with factory reset), report sending | `bt`, BGAPI notification |
| OTA DFU: SDK `sl_ota_dfu.c` | `boot_to_dfu` | write of the control point, closed event | BGAPI, reset |
| Bluetooth stack (binary) and flash | event queue, radio, bonding list, NVM keys | everything the radio and the central do | raises the events |
| power manager: SDK `sl_power_manager.c`, `autogen/sl_power_manager_handler.c` | requirement counter, mode, saved clocks, early timer | `sl_power_manager_sleep` (loop), add and remove a requirement (anywhere) | asks the stack, the UART and the sleep timer whether to sleep on |
| UART stream: SDK `sl_iostream_uart.c`, `sl_iostream_usart.c` | receive ring, `tx_idle`, `sleep` | write, read (loop), receive and transmit-complete (interrupt) | holds requirements on EM1 |
| sleep timer: SDK `sl_sleeptimer.c`, `sl_sleeptimer_hal_rtcc.c` | delta list, comparator, overflow count | start, stop, read (anywhere), RTCC interrupt with callbacks | power manager, radio scheduler |
| joystick: `src/hal/joystick.c` | state bitmap, ADC buffer | nobody initialises it | see "Not modelled" |
| byte packing `inc/utils.h`, logging, tables, board setup | none | | see "Not modelled" |

What is hard here:

- **Interrupt against loop.** `btn_evt` is shared with no lock. The handler reads
  the newest event, reports, and only then clears the whole cache.
- **Events in flight.** The radio moves while events wait. `bt.c` believes what the
  last popped event said, checks no identity of later ones, and asserts that every
  BGAPI call succeeds.
- **Shared bytes.** `adv` and `conn` are a union, so a connection interval lies on
  `adv.enabled` and `adv.handle`.
- **Two flash writes.** The bonding list is the stack's, `BONDING_INFO_PSKEY` the
  application's, and power may be lost between them.
- **Wake-up.** A press while quiet must reach `start_adv`, whatever the duplicate
  filter dropped and wherever the interrupt landed.
- **Falling asleep.** Interrupts are masked while the loop decides, and every wake-up is
  followed by a vote on whether the program runs at all.
- **A clock that does not wait.** The sleep timer computes with a counter that ticks,
  wraps and matches between any two of its instructions.

What makes each component correct:

- *buttons*: the cache never outgrows its array, holds what the filter promises, no
  pin level and no cached event goes without an interrupt or a signal, and every edge
  leads to a handler run;
- *Bluetooth application*: its view differs from the radio only by what is queued, so
  that `start_adv` and the handlers never meet an illegal state; advertising comes
  back after every connection; its bonding flag agrees with the bonding list; a
  report goes only to a central that subscribed on this connection;
- *power manager and UART*: the requirement counter is the number of its holders, no
  byte is cut off by EM2, clocks run whenever code does, no signal is slept through,
  the ring loses nothing and flow control lets go again;
- *sleep timer*: every timer keeps its own deadline whatever happens to the others, the
  comparator is always set for the next one, the 64-bit count is a true one;
- *whole firmware*: the two parts meet each other's assumptions, nothing is handled
  before boot, and an edge on a pin wakes a quiet gamepad.

## Modules

| Module | Models | State and actions in terms of the code |
| --- | --- | --- |
| `Firmware` | what the sources share | `pc` is where the loop stands ("idle" between events, or inside a handler that can be cut), `sig` the pending `PB_UPDATE_EVT`, `link` the truth about the connection, `conn_handle` and `report_ccc` the fields of `bt` others read; `mcu` leaves "running" when an assertion fails or the bootloader takes over |
| `Button` | `button.c` over the dispatcher | `IsrEnter` clears the flag, `IsrPush`/`IsrOverflow` are the callback, `HandlerEnter`, `HandlerRead`, `HandlerReport`, `HandlerClear` the steps of `btn_update_handler` an interrupt may fall between; `Boot`, `BtHandler`, `BtStops`, `LinkChanges` are what the rest of the firmware may do to the shared state |
| `ButtonProps` | its properties | |
| `ButtonProofs` | theorems about `Button` | |
| `Stack` | the stack's interface | one FIFO of events (`evq`), the advertiser, the pairing procedure, the flash (`bonds`, `nvm`); one action per thing a central or the radio does |
| `Bt` | `bt.c`, `sl_ota_dfu.c` | one action per handler; `byte0` and `byte1` are the first two bytes of the union; a handler that writes flash is cut where a power loss would show (`SaveBondingInfo`) |
| `Presence` | abstract specification | what a host may rely on: what is on the air, and what the firmware believes, with no queue |
| `BtProps` | properties of `Bt`, refinement of `Presence` | |
| `BtProofs`, `BtBondProofs` | theorems about `Bt`: queue and view; bonding and subscription | |
| `Gamepad` | the composition | each step of the loop is the conjunction of what `Bt` and `Button` say of it; the interrupt and the radio step alone |
| `GamepadProps` | properties of the whole, refinement of both parts | |
| `GamepadProofs` | theorems about the composition | |
| `PowerManager` | `sl_power_manager.c` and its HAL | `ApplyMode` is a pass of the sleep loop up to the sleep itself, `LeaveSleep` what follows the loop, `AddRequirement` and `RemoveRequirement` the calls; the sleep timer is two countdowns |
| `Uart` | `sl_iostream_uart.c`, `sl_iostream_usart.c` | one action between two instructions an interrupt can part: `TakeIdle`, `ReleaseLast`, `UsartTx`, `EnableTxc`, `HoldRequirement`, `MarkBusy` for the write, `PopByte`, `PopCounted`, `EnableRx` for the read |
| `Sleep` | the loop with both, and the interrupts | `pc` says where the program is; `FallAsleep`, `Wake`, `AfterWake` are `sl_power_manager_sleep`; one `...Isr` per source; `owed` is a ghost: a handler has left the program something to do |
| `SleepProps`, `SleepProofs` | properties and theorems of `Sleep` | |
| `RingProofs` | theorem about the ring of `Uart`, within `Sleep` | |
| `SleepTimer` | `sl_sleeptimer.c` over the RTCC | `list` and `delta` are the delta list; a step ends wherever the code reads the counter again, and `Tick` may fall there |
| `Deadlines` | abstract specification | what `sl_sleeptimer.h` promises: one deadline per running timer |
| `SleepTimerProps` | properties of `SleepTimer`, refinement of `Deadlines` | |
| `DeltaListProofs` | lemmas about the delta list: sums, insertion, removal | |
| `SleepTimerProofs` | theorems about `SleepTimer` | |
| `MCButton`, `MCBt`, `MCGamepad`, `MCSleep`, `MCSleepTimer` | instances | |

Definitions marked "Slip" are plausible mistakes in the code (a dropped guard, a
swapped order). Nothing uses them in the models; putting one in the place of the
definition beside it makes the property it is paired with in `PROJECT.json` fail,
which is how the properties were tested.

### Abstractions

- **Stack.** The library is binary; `Stack` is its documented interface. There is one
  connection (`SL_BT_CONFIG_MAX_CONNECTIONS` is 1), so one connection handle, 1, and
  one advertising set, handle 0. That the handle is 0 matters: the `memset` before
  `start_adv` zeroes `adv.handle`. A BGAPI call fails only when its connection is
  gone, or when advertising is started on an unknown handle or an open connection.
  The external signal may be popped before or after any queued event. One bonding
  request waits at a time. `PIN_OR_KEY_MISSING` is raised only outside a pairing
  procedure, another failure only inside one.
- **Assertions.** The `logging` submodule that defines `ASSERT` is not in the
  repository; a failing assertion stops the program, as `sl_app_assert` does.
- **Interrupts.** The even and odd GPIO handlers have one priority and are modelled as
  one dispatcher that serves one pin at a time. `memset` of `btn_evt` is one step:
  `num` is its last byte.
- **Data.** Stick values are positions 0, 1, 2 in the cycle 50, 0, -50; the report's
  bytes, rewritten on every report, are not kept. `cache[-1]` reads a byte of unknown
  value: `PB1_RELEASE_EM` or something else. Parameters other than the interval, and
  union bytes nobody reads back, are left out.
- **No state.** The passkey handler (never called with no input and no output), the
  attribute log, the soft timer (never armed) and dumps change nothing.
- **Boot.** The loop of `bonding_info_load` that pops events until the bonding list
  is complete is one step. A factory reset erases the flash keys, the bonding list
  among them.
- **Sleep.** EM2 is the lowest mode of this build, so only the requirement on EM1
  counts. The signal of `Sleep` is any the stack waits for; the buttons' is one. The
  stack answers that it may sleep when it has no signal, and asks for a wake-up when it
  has. The two timers of `PowerManager` are what is left of them, so the composition does
  not repeat `SleepTimer`. The configuration's receive restriction holds a requirement
  from the start. `uart_write` and `uart_read` are called by the program only, for any
  number of bytes. Nobody subscribes to transitions or asks for the high accuracy clock.
- **Sleep timer.** The channel matches at once when it is switched on with the counter at
  its value. A timeout of 0 starts nothing, and the initial timeout is the periodic one.
  A timeout that a late interrupt carries past 2^32 is lost for a turn of the counter
  (`CounterAssumption` keeps away from it). Calls come from the program, from interrupts
  that cut into it, and from the timers' callbacks; none comes from an interrupt that cuts
  into `process_timer_irq` outside a callback (its unmasked stretches at 985-996).
- **Starting a timer** takes two atomic sections: the check that it does not run
  (sl_sleeptimer.c:197 and 254, in 345-354) and the insertion (1208-1217). `Check` and
  `FinishStart` are those two; `starting` holds the starts in between, where any other call,
  the interrupt and its callbacks may fall. A restart goes from its stop to the insertion
  with no check (`Restarts`). The unmasked writes to the handle (1189-1194) belong to
  the insertion: nobody reads the fields of a timer that is not in the list.
- **One starter at a time.** The code cannot tell that two callers are starting the same
  timer: both pass the check and both insert it, or a restart inserts what an interrupt
  has just started. The second insertion first clears the handle's `next` (1191), which
  loses the timers behind it. Its walk then either passes the handle's old place, where
  the handle stays with a delta of 0, or links it in front of that place, and the list
  becomes a ring. Keeping such starts apart is the callers' duty, which sl_sleeptimer.h
  does not mention ("All API functions can be called from within interrupt handlers",
  911). `OneStarter` states it and the constant `Contended` names the timers it is not
  kept for: none in the runs, and `Contended = {}` is a hypothesis of the theorems. It
  restricts neither starts of different timers nor stops and reads of the same one. Of the
  callers in the sources, the power manager keeps it: it restarts
  (sl_power_manager.c:671) and stops (247) its timer inside critical sections. The
  others are in binary libraries.

## Runs

| Run | Instance | What it shows |
| --- | --- | --- |
| `button` | 2 buttons, cache 3 | type, `SpacedRepeats`, `LevelTracked`, `SignalCoversPush` |
| `bt` | queue 3, 1 power loss, intervals 24 and 400 | the eight invariants of `BtProps` and the refinement of `Presence` |
| `gamepad` | 1 button, cache 2, queue 2, 1 power loss | the composition implements `Bt` and `Button`; `HandledOnlyAfterBoot` |
| `gamepad_live` | 1 button, cache 2, queue 1 | `EdgeWakes`, `AdvertisesAgain`, `EdgeReachesHandler`, `CacheDrains`, on the whole firmware |
| `timers` | 2 timers, one periodic, timeouts 1 and 2, counter of 8 values, 2 overflow counts, no contended timer | type, `ComparatorCovers`, `Tick64IsTrue`, the refinement of `Deadlines` |
| `sleep` | ring of 2, timeouts 2 and 4, delay 2 | the seven invariants of `SleepProps`, `TimerFindsClocks`, `SignalHandled` |

`SpacedRepeats` is what the duplicate filter guarantees, `LevelTracked` that no pin level
is missed, `SignalCoversPush` that no doorbell is. `QueueTellsOneStory` and
`ViewLagsByQueue` say how far `bt.c`'s view may lag the radio, `AssertsHold` that its own
assertions on `conn_handle` hold, `BondingFlagAgrees`, `TimingFollowsBonds` and
`BondedHasKeys` that what it remembers of bonding is true, `SubscriptionIsCurrent` that a
report follows this connection's subscription.

`DeadlinesKept` is the refinement: a call moves the deadline of its own timer and of no
other, an expiry is never early, a periodic timer goes on from its deadline, through any
number of wraps; only calls made while a timer is overdue are free to move others, as
the code does (sl_sleeptimer.c:1155). `ComparatorCovers` says that the interrupt for the
first timer is pending or comes no later than its time, plus the hardware margin of two
ticks and the one that the remainder by the mask costs (sl_sleeptimer_hal_rtcc.c:109).
`RequirementsAddUp` counts the holders at every instruction, the window between lines
422 and 423 of `sl_iostream_uart.c` included: a transmission that completes there leaves
its requirement held until the next write, which costs energy and breaks nothing.
`TimerFindsClocks` covers the early timer and the requirement that replaces it. Its
theorem covers a start-up time measured anew as well, in which case the comment at
sl_power_manager.c:694-699 ("it protects us from going back to sleep lower than EM1") is
not true and the property still is.

The instances are small but reach the cases that matter. Two buttons are the board's
own number, and a cache of three fills, overflows, and holds an event, the one the
filter stops at, and a repeat. The longest story one connection tells the queue is
"opened", one event about it, "closed": three entries. One interval is below 256 and
one above, so that each byte of the union is zero and nonzero. One power loss in every
position shows every flash content boot can meet. The composition needs one button:
what two of them do to the cache is `button`'s question. A counter of 8 wraps within four
timeouts, two overflow counts tell a stale one from a true one, one tick may fall within
the handling of an interrupt and one before it (`Ticks`, `Latency`). Timeouts 2 and 4
with a delay of 2 take both branches of `evaluate_wakeup`; a ring of two fills, empties
and wraps. `sleep` fixes one start-up time because of `SignalHandled`; the theorems of
`SleepProofs` and `RingProofs` hold for start-up times measured anew. Three bounds of the sleep timer
are the model's and not the code's: a pending interrupt is served within `Latency` ticks,
at most `Ticks` pass within a call or the interrupt, and masked code reads the counter
again before a second tick (`ticked`), which is what the comparator's margin of two
ticks is for. `QueueMax` bounds only what the radio adds; `MaxResets` bounds power losses,
never factory resets.

`ButtonSpec` is checked for deadlock except by the program's end (a stopped program
still sees its pins move). `Bt` and `Gamepad` may stop: an assertion failed or the
bootloader runs, and no power loss is left. In the timer and sleep models time or an
interrupt source always can go on, and where the bound on ticks stops it, that is the
bound and not the program.

Runs that end in a counterexample state what a comment, an assertion or the product
description says, and show what the code does:

| Run | The source says | The code |
| --- | --- | --- |
| `button_full` | `ASSERT(num != BTN_EVT_CACHE_SIZE)` (button.c:55) | nothing empties the cache while disconnected, nor within one handler run: it fills, in the interrupt |
| `button_stray` | a state change is signalled and then handled (button.c:91-95) | the signal of a wiped event finds an empty cache, and `cache[-1]` is read (169) |
| `bt_ota` | OTA DFU is allowed (gamepad.slcp:10) | the write is handled by `sl_ota_dfu.c` and asserted against by bt.c:454 in the same event, so the reset of the closed event (`ResetToDfu`) is never reached |
| `bt_bonding` | `bonding_info`: any bonded devices (bt.h:106) | power lost between the stack's write and bt.c's own leaves it wrong, and boot trusts it |
| `timers_priority` | the priority is useful "in case multiple timer expire at the same time" (sl_sleeptimer.h:141) | a periodic timer of higher priority served before the head is put back relative to an origin the head was not charged against (979-996): it is due again at once, for ever, and the other timer never expires |
| `sleep_owed` | a module that asks for a wake-up "MUST NOT go back to sleep" (sl_power_manager.h:254) | a byte is received in the wake-up that the power manager's early timer ended: the UART notes WAKEUP (sl_iostream_uart.c:342) but never returns it (204-215), the early timer votes for sleep, and the loop sleeps on with the byte unread |

Some disagreements have no run of their own:

- `exp_pre_evt` (button.c:62) is an event of the other button, or 0, where the comment
  (56-59) wants the opposite one: press, release, press loses the second press. The
  filter is modelled as it is, and `SpacedRepeats` is what it does guarantee.
- The `memset` (button.c:190) wipes events cached after the read (169); `button_stray`
  ends in the consequence.
- `SE_CALL3` (bt.h:27-33) asserts that every call succeeds, but calls are made on a
  connection whose closed event is still queued (bt.c:103, hid_gamepad.c:32): the
  program stops, as the models do (`BtStops`).
- A call made while a sleep timer is overdue moves the other timers' deadlines
  (sl_sleeptimer.c:1155).
- The comment at button.c:112-113 calls the rising edge "button released", and
  `button_interrupt` (101-105) pushes the *press* event when the pin reads high.

The models follow the code.

## Fairness

- The super loop goes round (`main.c` loops and the handlers have no unbounded wait),
  so a pending event or signal is taken. Interrupts may cut each turn, but finitely
  often for each step, hence strong fairness on the loop's steps in `Button` and
  `Gamepad`: they are disabled while an interrupt runs. Strong fairness on taking the
  signal and on taking events says that neither starves the other.
- A pending GPIO interrupt is taken, and its callback returns.
- `SleepLive`: every pending handler runs, and the interrupts leave the program some time
  again and again ([]<>~IrqPending): interrupt sources that never pause would starve any
  program. A started write or read goes on, a wake-up is followed by the vote, and the
  loop comes back to `sl_bt_step` (strong, because interrupts may cut in).
- `TimersLive`: the counter runs, a pending interrupt is taken between two calls, and the
  masked code goes on. `Irq` is strongly fair: a callback makes finitely many calls.
- No button is held for ever while booting, else the factory reset repeats for ever.
- Nothing is assumed of the radio, the central, the user's fingers or the power.

## Proofs

`ButtonProofs` proves, with no bound on the number of buttons, cache size (up to the
254 that `num` can count), stick range or value cycle:

- `ButtonTypeCorrect`: `ButtonSpec => []ButtonTypeOK`. `Len(cache) <= CacheSize` is
  inductive because the assertion of `btn_push_evt` comes before its store;
- `SpacedRepeatsHolds`: the lemma `PushEvtSpaced` shows that a push keeps equal events
  apart: the pushed event was not `Dropped`, so after any earlier copy lies the event
  the search stops at. Every other step keeps or empties the cache;
- `LevelTrackedHolds`: inductive over the types. The one step that lowers a flag raises
  `isr`, and the one that lowers `isr` reads the pin;
- `SignalCoversPushHolds`: inductive by itself. The push rings after it stores, and the
  handler takes the signal before it looks.

`BtProofs` proves, with no bound on the queue, on power losses or on the 16-bit
connection intervals, for any handle the stack gives its advertising set:

- `IInvHolds`: the inductive invariant `IInv`, which is `BtTypeOK`, `View` and
  `AssertsHold`. `View`, the conjunction of `QueueTellsOneStory` and `ViewLagsByQueue`,
  had to be strengthened to be inductive: before boot only the boot event waits and
  `adv.enabled` is 0, and a belief in a link that is gone comes with its closed event
  in the *last* place. No part stands alone. A handler may pop its event because the
  story says where that event can lie; the radio may add one because a link that is up
  leaves no closed event in the queue; and the assertions hold because an event of a
  connection is in front only while `bt.c` knows that connection. There is one lemma
  per radio step and per handler that disturbs the view (`ConnectsKeepsView`,
  `OpenedKeepsView`, ...), and `ConnEventKeepsView` for the handlers that only pop;
- `BtTypeCorrect`, `QueueStoryHolds`, `ViewHolds` and `AssertsNeverFail` from it. The
  types need `IntervalsAssumption`: an interval is 16 bits, so each half is a byte;
- `BtImplementsPresence`: each step maps to a step of `Presence` or to a stutter, by
  `IInv`. It holds provided `AdvHandle = 0`, and only `ClosedMapped` needs that: the
  `memset` of `adv_conn` clears `adv.handle` before `start_adv` uses it (bt.c:225),
  so with another handle the gamepad would not advertise after a connection.

`BtBondProofs` goes on from `IInv`, with the same generality:

- `BondInv` joins `BondingFlagAgrees`, `TimingFollowsBonds` and `BondedHasKeys` with what
  makes them inductive, `BondStory`: a queued event that speaks of a bond is true, and no
  event ahead of it deletes the bond. The first two hold up to the first power loss:
  `bt_bonding` shows why;
- `SubInv` gives `SubscriptionIsCurrent`: the last queued event about the client
  configuration, if there is one, holds what the central wrote last.

`GamepadProofs` proves of the composition, for every size:

- `GamepadImplementsBt`: every step of the firmware is a step of `Bt` or a stutter. The
  two parts need each other: `Bt` lets a button ring only after boot, which `ArmInv`
  provides;
- `GamepadImplementsButton`: every step is a step of `Button` or a stutter. `Button` takes
  for granted that `start_adv` returns in its hands, which `View` gives (believing the air
  silent, `bt.c` is right) together with `SharedState` (while disconnected, the union holds
  a handle `start_adv` may use); and that only a connection has a client configuration.
  It holds provided `AdvHandle = 0`, for the reason given at `BtImplementsPresence`, and
  `bt.c` stops in no way but four: a failed `ASSERT` on `conn_handle` is not among them;
- `FirmwareKeepsBt` and `FirmwareKeepsButtons`: the invariants of both parts hold in the
  whole firmware, since they follow from the steps without any fairness (`BtSteps`,
  `ButtonSteps`);
- `HandledOnlyAfterBootHolds`: nothing of the button path runs before boot.

`SleepProofs` proves, for every timeout, start-up time, overhead and ring size, the types
and `RequirementsAddUp`, `NoByteCut`, `ClocksFollowMode`, `NoSignalSlept`,
`ReceiverLetsGo` and `TimerFindsClocks`. Its inductive invariant adds what
the code relies on without saying it: a write marks the stream idle from its first
instruction (`WriteInv`), bytes are on their way only inside a write or before its last
one is out (`SendInv`), a completion seen with bytes still to go belongs to the write under
way and is served before that write ends (`TxcInv`), and with the clocks off the early
timer is no later than the application's (`OrderInv`), which `TimerFindsClocks` needs.

`RingProofs` proves `RingSoundHolds` for every ring size: between any two instructions the
two indices and the counter agree about which slots hold bytes. It adds to the invariant of
`SleepProofs` a description of the content without remainders, how far a slot is after the
one to be read next (`HeldSlots`); by it every step pushes a byte behind the held ones, pops
the first of them, or moves nothing, while the counter lags inside a read.

`DeltaListProofs` and `SleepTimerProofs` prove, for any number of timers, any counter width
and overflow period, and any starts that satisfy `CounterAssumption`:

- `TimersTypeOKHolds`: a timer is in the delta list once and no delta wraps below 0. The
  first needs `Starts`: a timer whose start has passed its check stays out of the list until
  that start inserts it, whatever comes between, because stops, expiries and the starts of
  other timers do not put it in. With two callers starting one timer at once this is false,
  hence the hypothesis `Contended = {}`, which the next three theorems inherit. The
  second is inductive only with a bound on the sum along the list, what the counter can
  tell from an overdue timer (`DeltaList`);
- `Tick64IsTrueHolds`, from `Tick64Inv`: the overflows counted and the one the flag owes are
  the true ones, and an overflow is served before the counter has got far, so that a flag
  seen by `sl_sleeptimer_get_tick_count64` belongs to this turn of the counter;
- `ComparatorCoversHolds`, from `CoverInv`. The property speaks of the moments when the
  masked code is left. Between them, `CompareCovers` and `WriteCovers` say what the two
  halves of setting the comparator rely on, with one tick yet to come or none, `InTime`
  that the interrupt is served before the counter has gone once round, and `InterruptOn`
  that it is enabled exactly while a timer runs;
- `DeadlinesKeptHolds`: every step maps to a step of `Deadlines` or to a stutter, one lemma
  per action. A call first charges the head with the time since the last update, and the
  lemmas `InsertMoves`, `RemoveMoves` and `LowerMoves` say what each change of the list does
  to the sum up to each timer. `CallInv` is needed for calls made by callbacks: no time has
  passed for the list unless the counter has ticked. It holds provided all timers
  have one priority (`OnePriority`), as `timers` has them: otherwise a periodic timer may
  be served before the head, and `timers_priority` shows what becomes of its deadline.

The sums along the list are recursive, and the provers take no induction scheme; each
induction is done by the least number that would violate the claim (`LeastNat`), which
exists because the naturals are well founded. That `Latency + Ticks + 3` stays
below the counter's width is assumed: with 2^32 values at 32768 Hz, it says that no
interrupt waits for a day and a half. A timeout must leave the same room.

The assumptions are those on the constants (`BtnNumAssumption` and the others), which
TLC evaluates in the runs, and the hypotheses named above. Only model-checked: all
liveness, which is beyond the prover (`EdgeWakes`, `AdvertisesAgain`, `EdgeReachesHandler`,
`CacheDrains`, `SignalHandled`), and the runs that end in a counterexample.

## Not modelled

- `joystick.c`: nothing calls `jstk_init`, so its timer, ADC and transfer never start and
  no state of the running program depends on it. Its bit macros and the packing in
  `utils.h` serve it and `btn_update`, which has no caller either.
- The bytes of the HID report: each report rewrites them.
- Of the sleep timer: unit and date conversions, the delay helper, the wall clock. Of the
  power manager: EM3, transition subscribers, the preserved clock, its debug log. Of the
  stream: CR/LF expansion and the branches for an RTOS. These are not compiled, not
  called, or change no state another part reads.
- Tables (`hid_desc.c`, `gatt_db.c`), clock and board setup, logging: constants, output
  and one-shot writes.
- The rest of the SDK: register-level drivers, device headers, the BGAPI and RAIL
  headers, DSP and cryptography headers. They are nine tenths of the repository's lines
  and hold declarations and single register accesses, so the share of the lines the
  modules stand for stays small whatever is modelled; the binary libraries behind the
  headers are not in the repository.
