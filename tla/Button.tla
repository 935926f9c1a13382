------------------------------- MODULE Button -------------------------------
(***************************************************************************)
(* src/hal/button.c on top of the SDK's GPIO interrupt dispatcher          *)
(* (gpiointerrupt.c).  Two contexts share btn_evt with no lock: the        *)
(* interrupt pushes events and rings the super loop with an external       *)
(* signal; the super loop runs btn_update_handler, which the interrupt may *)
(* cut between any two of its steps.                                       *)
(***************************************************************************)
EXTENDS Firmware, Sequences

CONSTANTS
    BtnNum,     \* entries of btns[]: 2 in the code
    CacheSize,  \* BTN_EVT_CACHE_SIZE: 8 in the code
    ValueNum,   \* positions a stick cycles through: 50, 0, -50 in the code
    StickNum,   \* range of WRAP_INCREMENT(stick, 4): 4 in the code
    BtStopCauses  \* the ways the handlers of bt.c may stop the program

ASSUME BtnNumAssumption == BtnNum \in Nat \ {0}
ASSUME CacheSizeAssumption == CacheSize \in 1 .. 254
ASSUME StickNumAssumption == StickNum \in Nat \ {0}
ASSUME ValueNumAssumption == ValueNum \in Nat \ {0}
ASSUME BtStopCausesAssumption == BtStopCauses \subseteq Stopped

VARIABLES
    high,     \* level of each button's pin (the pull-up makes TRUE the released level)
    armed,    \* btn_init has enabled the interrupts
    irq,      \* edge flag of each pin in the GPIO interrupt register
    isr,      \* button whose callback is running, 0 when no interrupt is
    cache,    \* btn_evt.cache[0 .. num-1]
    seen,     \* the byte btn_update_handler compared, NotRead before it did
    stick,    \* static stick: the axis the next report moves
    value,    \* static value: where the next report is in 50, 0, -50
    last,     \* history: level each button's callback read last
    unheard   \* history: an event was cached since the handler last looked

cacheVars == <<isr, cache, seen, unheard>>
pinVars == <<high, armed, irq, last>>
stickVars == <<stick, value>>
btnVars == <<cacheVars, pinVars, stickVars>>

Buttons == 1 .. BtnNum

\* The enum of button.h: press events are odd, the release follows its press.
PressEvt(b) == 2 * b - 1
ReleaseEvt(b) == 2 * b
Events == 1 .. 2 * BtnNum
PB1_RELEASE_EM == 4

NotRead == 0
\* A byte outside the cache that is not PB1_RELEASE_EM.
StrayByte == 255

ButtonTypeOK ==
    /\ FirmwareTypeOK
    /\ high \in [Buttons -> BOOLEAN]
    /\ armed \in BOOLEAN
    /\ irq \in [Buttons -> BOOLEAN]
    /\ isr \in Buttons \union {0}
    /\ cache \in Seq(Events)
    /\ Len(cache) <= CacheSize
    /\ seen \in Events \union {NotRead, PB1_RELEASE_EM, StrayByte}
    /\ stick \in 0 .. StickNum - 1
    /\ value \in 0 .. ValueNum - 1
    /\ last \in [Buttons -> BOOLEAN]
    /\ unheard \in BOOLEAN

-----------------------------------------------------------------------------
(* btn_push_evt *)

\* exp_pre_evt, the event the backward search stops at.
ExpPreEvt(evt) == IF evt % 2 = 1 THEN evt - 1 ELSE evt + 1

\* Slip: only the newest entry is compared.
DroppedByNewest(c, evt) == c # <<>> /\ c[Len(c)] = evt

\* The backward search meets evt before it meets ExpPreEvt(evt).
Dropped(c, evt) ==
    \E i \in DOMAIN c :
        /\ c[i] = evt
        /\ \A j \in i + 1 .. Len(c) : c[j] # ExpPreEvt(evt)

PushEvt(c, evt) == IF Dropped(c, evt) THEN c ELSE Append(c, evt)

\* button_interrupt pushes the press event when the pin reads high.
EvtOfPin(b) == IF high[b] THEN PressEvt(b) ELSE ReleaseEvt(b)

-----------------------------------------------------------------------------
(* The pins and the interrupt *)

\* Slip: only the rising edge is configured.
RisingRaisesFlag(b) == armed /\ ~high[b]

\* GPIO_ExtIntConfig: both edges raise the flag once btn_init has run.
EdgeRaisesFlag(b) == armed

\* A button goes down or up.
Edge(b) ==
    /\ high' = [high EXCEPT ![b] = ~@]
    /\ irq' = [irq EXCEPT ![b] = @ \/ EdgeRaisesFlag(b)]
    /\ last' = IF armed THEN last ELSE [last EXCEPT ![b] = ~high[b]]
    /\ UNCHANGED <<firmwareVars, armed, cacheVars, stickVars>>

\* GPIO_EVEN_IRQHandler / GPIO_ODD_IRQHandler: the flag is cleared first, then
\* the dispatcher calls the callback.  Neither handler preempts the other.
IsrEnter(b) ==
    /\ Running
    /\ isr = 0
    /\ irq[b]
    /\ irq' = [irq EXCEPT ![b] = FALSE]
    /\ isr' = b
    /\ UNCHANGED <<firmwareVars, high, armed, last, cache, seen, unheard, stickVars>>

\* Slip: the assertion lets one event too many in.
CacheOverfull == Len(cache) = CacheSize + 1

CacheFull == Len(cache) = CacheSize

\* Slip: only the first event of an empty cache rings.
RingsWhenEmpty == cache = <<>>

\* sl_bt_external_signal is called whatever btn_push_evt did.
Rings == TRUE

\* button_interrupt: read the pin, push the event, raise the signal.
IsrPush ==
    /\ Running
    /\ isr # 0
    /\ ~CacheFull
    /\ cache' = PushEvt(cache, EvtOfPin(isr))
    /\ unheard' = (unheard \/ cache' # cache)
    /\ last' = [last EXCEPT ![isr] = high[isr]]
    /\ sig' = (sig \/ Rings)
    /\ isr' = 0
    /\ UNCHANGED <<mcu, pc, link, conn_handle, report_ccc, high, armed, irq, seen, stickVars>>

\* The ASSERT at the top of btn_push_evt.
IsrOverflow ==
    /\ Running
    /\ isr # 0
    /\ CacheFull
    /\ mcu' = "cache_full"
    /\ UNCHANGED <<pc, sig, link, conn_handle, report_ccc, btnVars>>

-----------------------------------------------------------------------------
(* btn_update_handler *)

HandlerEnter ==
    /\ isr = 0
    /\ EnterButtonHandler
    /\ UNCHANGED btnVars

\* No connection: start_adv is called (Bt says what it does), and the cache is
\* left as it is.
HandlerDisconnected ==
    /\ Running
    /\ isr = 0
    /\ pc = "btn_handler"
    /\ ~Connected
    /\ pc' = "idle"
    /\ unheard' = FALSE
    /\ UNCHANGED <<sig, link, conn_handle, report_ccc, isr, cache, seen, pinVars, stickVars>>

\* cache[num - 1]: with num = 0 this reads the byte in front of the array.
HandlerRead ==
    /\ Running
    /\ isr = 0
    /\ pc = "btn_handler"
    /\ Connected
    /\ seen = NotRead
    /\ seen' \in IF cache = <<>> THEN {PB1_RELEASE_EM, StrayByte}
                                 ELSE {cache[Len(cache)]}
    /\ unheard' = FALSE
    /\ UNCHANGED <<firmwareVars, isr, cache, pinVars, stickVars>>

\* A release of PB1 selects the next stick, at 50; anything else reports the
\* value on the selected one and moves on.
HandlerReport ==
    /\ Running
    /\ isr = 0
    /\ pc = "btn_handler"
    /\ seen # NotRead
    /\ \/ /\ seen = PB1_RELEASE_EM
          /\ stick' = (stick + 1) % StickNum
          /\ value' = 0
          /\ UNCHANGED mcu
       \/ /\ seen # PB1_RELEASE_EM
          /\ SendReport
          /\ value' = (value + 1) % ValueNum
          /\ UNCHANGED stick
    /\ pc' = "btn_clear"
    /\ UNCHANGED <<sig, link, conn_handle, report_ccc, cacheVars, pinVars>>

\* Slip: num is left as it is.
StaleCache == cache

ClearedCache == <<>>

\* memset of btn_evt.  An interrupt that lands inside it is the same as one
\* just before it: num is the last byte written.
HandlerClear ==
    /\ Running
    /\ isr = 0
    /\ pc = "btn_clear"
    /\ pc' = "idle"
    /\ cache' = ClearedCache
    /\ seen' = NotRead
    /\ unheard' = FALSE
    /\ UNCHANGED <<mcu, sig, link, conn_handle, report_ccc, isr, pinVars, stickVars>>

-----------------------------------------------------------------------------
(* What the rest of the firmware does to the shared state *)

\* btn_init, called by the boot handler through gamepad_init, which goes on
\* only when both pins read high.
ArmButtons ==
    /\ \A b \in Buttons : high[b]
    /\ armed' = TRUE
    /\ UNCHANGED <<high, irq, last, cacheVars, stickVars>>

Boot ==
    /\ Running
    /\ ~armed
    /\ ArmButtons
    /\ conn_handle' = INVALID_HANDLE
    /\ UNCHANGED <<mcu, pc, sig, link, report_ccc>>

\* The radio may open or lose the connection at any time.
LinkChanges ==
    /\ Running
    /\ link' \in BOOLEAN
    /\ UNCHANGED <<mcu, pc, sig, conn_handle, report_ccc, btnVars>>

\* A handler of bt.c runs: connection opened or closed, CCC written, bonding.
BtHandler ==
    /\ Running
    /\ armed
    /\ isr = 0
    /\ IF pc = "idle" THEN pc' \in Elsewhere ELSE pc \in Elsewhere /\ pc' = "idle"
    /\ conn_handle' \in {Handle, INVALID_HANDLE}
    /\ report_ccc' \in IF conn_handle' = Handle THEN 0 .. 1 ELSE {0}
    /\ link' \in BOOLEAN
    /\ UNCHANGED <<mcu, sig, btnVars>>

\* A handler of bt.c meets one of its own assertions, or leaves for the bootloader.
BtStops ==
    /\ Running
    /\ isr = 0
    /\ mcu' \in BtStopCauses
    /\ link' \in BOOLEAN
    /\ UNCHANGED <<pc, sig, conn_handle, report_ccc, btnVars>>

\* Slip: btn_init is called at power-on, before the boot event.
ArmedEarly == TRUE

ArmedAtPowerOn == FALSE

\* Power is lost and comes back: .bss and .data start over, the pins are where
\* the user's fingers hold them.
ButtonPowerOn ==
    /\ high' \in [Buttons -> BOOLEAN]
    /\ armed' = ArmedAtPowerOn
    /\ irq' = [b \in Buttons |-> FALSE]
    /\ isr' = 0
    /\ cache' = <<>>
    /\ seen' = NotRead
    /\ stick' = 0
    /\ value' = 0
    /\ unheard' = FALSE
    /\ last' = high'

ButtonReset == ButtonPowerOn /\ FirmwarePowerOn

-----------------------------------------------------------------------------
ButtonInit ==
    /\ FirmwareInit
    /\ high \in [Buttons -> BOOLEAN]
    /\ armed = FALSE
    /\ irq = [b \in Buttons |-> FALSE]
    /\ isr = 0
    /\ cache = <<>>
    /\ seen = NotRead
    /\ stick = 0
    /\ value = 0
    /\ last = high
    /\ unheard = FALSE

\* start_adv returns: bt.c never lets it fail here.
DisconnectedUpdate == HandlerDisconnected /\ UNCHANGED mcu

Interrupt == IsrPush \/ IsrOverflow \/ \E b \in Buttons : IsrEnter(b)

ButtonUpdate ==
    HandlerEnter \/ DisconnectedUpdate \/ HandlerRead \/ HandlerReport \/ HandlerClear

ButtonNext ==
    \/ \E b \in Buttons : Edge(b)
    \/ Interrupt
    \/ ButtonUpdate
    \/ Boot
    \/ LinkChanges
    \/ BtHandler
    \/ BtStops
    \/ ButtonReset

buttonVars == <<firmwareVars, btnVars>>

\* A step inside a handler; the super loop takes no other event before its end.
HandlerStep ==
    \/ DisconnectedUpdate
    \/ HandlerRead
    \/ HandlerReport
    \/ HandlerClear
    \/ BtHandler /\ pc # "idle"

\* Interrupts are taken and return, and between them the super loop goes on.
ButtonFairness ==
    /\ WF_buttonVars(IsrPush \/ IsrOverflow)
    /\ \A b \in Buttons : SF_buttonVars(IsrEnter(b))
    /\ SF_buttonVars(HandlerEnter)
    /\ SF_buttonVars(HandlerStep)

ButtonSpec == ButtonInit /\ [][ButtonNext]_buttonVars /\ ButtonFairness

=============================================================================
