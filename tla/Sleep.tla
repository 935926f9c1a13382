------------------------------- MODULE Sleep --------------------------------
(***************************************************************************)
(* main.c's loop with sl_power_manager_sleep, and the interrupts that wake *)
(* it: the UART, the sleep timer, and any source whose handler sends a     *)
(* signal to the Bluetooth stack, as the buttons' does.                    *)
(*                                                                         *)
(* An interrupt that is pending and not masked is taken before the next    *)
(* step of the program.                                                    *)
(***************************************************************************)
EXTENDS Uart

VARIABLES
    pc,         \* where the program is
    signal_irq, \* an interrupt whose handler will send a signal is pending
    signal,     \* a signal waits for the Bluetooth stack
    app_req,    \* the application holds a requirement on EM1
    owed        \* ghost: since the program fell asleep, a handler has left it
                \* something to do

vars == <<powerVars, uartVars, pc, signal_irq, signal, app_req, owed>>

Masked == pc \in {"asleep", "again"}

TimerIrq == Due(app_timer) \/ Due(clock_wakeup_timer)

IrqPending == UartIrq \/ TimerIrq \/ signal_irq

-----------------------------------------------------------------------------
(* The program *)

\* Between two interrupts it is at one place and goes to another.
Step(from, to) ==
    /\ ~IrqPending
    /\ pc = from /\ pc' = to
    /\ UNCHANGED <<signal_irq, owed>>

\* sl_bt_step hands the signal to the application.
HandleSignal ==
    /\ Step("app", "app")
    /\ signal /\ signal' = FALSE
    /\ UNCHANGED <<powerVars, uartVars, app_req>>

\* The application starts its timer, or holds or drops a requirement.
AppTimer ==
    /\ Step("app", "app")
    /\ app_timer' \in Timeouts
    /\ UNCHANGED <<modeVars, clock_wakeup_timer, early_latest, uartVars, signal, app_req>>

AppRequirement ==
    /\ Step("app", "app")
    /\ app_req' = ~app_req
    /\ IF app_req THEN RemoveRequirement ELSE AddRequirement
    /\ UNCHANGED <<timerVars, uartVars, signal>>

RxRestriction ==
    /\ Step("app", "app")
    /\ \E on \in BOOLEAN : SetRxRestriction(on)
    /\ UNCHANGED <<signal, app_req>>

\* uart_write of any number of bytes.
WriteStep ==
    /\ \/ Step("app", "release") /\ TakeIdle
       \/ Step("release", "tx") /\ ReleaseLast
       \/ Step("tx", "enable_txc") /\ UsartTx
       \/ Step("enable_txc", "tx") /\ EnableTxc
       \/ Step("busy", "app") /\ MarkBusy
    /\ UNCHANGED <<signal, app_req>>

EndWrite ==
    /\ Step("tx", "busy")
    /\ HoldRequirement
    /\ UNCHANGED <<signal, app_req>>

\* uart_read, byte by byte.
ReadStep ==
    /\ \/ Step("app", "popped") /\ PopByte
       \/ Step("popped", "enable_rx") /\ PopCounted
       \/ Step("enable_rx", "app") /\ EnableRx
    /\ UNCHANGED <<signal, app_req>>

Program ==
    \/ HandleSignal
    \/ AppTimer \/ AppRequirement \/ RxRestriction
    \/ WriteStep \/ EndWrite \/ ReadStep

-----------------------------------------------------------------------------
(* sl_power_manager_sleep *)

\* The slip: the last-chance check is left out.
SleepAlways == TRUE

\* sl_power_manager_is_ok_to_sleep: the stack has nothing to do, and the
\* application's hook is the default one.
IsOkToSleep == ~signal

\* The first pass, after the check, and the later ones.
FallAsleep ==
    /\ \/ ~IrqPending /\ pc = "app" /\ IsOkToSleep
       \/ pc = "again"
    /\ pc' = "asleep"
    /\ owed' = FALSE
    /\ ApplyMode
    /\ UNCHANGED <<uartVars, signal_irq, signal, app_req>>

\* Any interrupt ends the mode; its handler runs when they are unmasked.
Wake ==
    /\ pc = "asleep"
    /\ IrqPending
    /\ pc' = "woken"
    /\ UNCHANGED <<powerVars, uartVars, signal_irq, signal, app_req, owed>>

\* The slip: a module that asks for a wake-up is not heard.
NotForced == early_latest \/ UartSleeps

\* sl_power_manager_sleep_on_isr_exit: the stack asks for a wake-up when it has
\* a signal.
SleepOnIsrExit == (early_latest \/ UartSleeps) /\ ~signal

\* Every handler has run.
AfterWake ==
    /\ ~IrqPending
    /\ pc = "woken"
    /\ uart_sleep' = IF UartSleeps THEN "IGNORE" ELSE uart_sleep
    /\ StopEarlyTimer
    /\ IF SleepOnIsrExit
       THEN pc' = "again" /\ UNCHANGED modeVars
       ELSE pc' = "app" /\ LeaveSleep
    /\ owed' = (SleepOnIsrExit /\ owed)
    /\ UNCHANGED <<rxVars, txVars, em_req_added, signal_irq, signal, app_req>>

-----------------------------------------------------------------------------
(* The interrupts *)

Taken(owes) ==
    /\ ~Masked
    /\ owed' = (owed \/ (pc = "woken" /\ owes))
    /\ UNCHANGED pc

UartIsr ==
    /\ Taken(rx_valid /\ SpaceAvail)
    /\ UsartIrqHandler
    /\ UNCHANGED <<signal_irq, signal, app_req>>

SignalIsr ==
    /\ signal_irq
    /\ Taken(TRUE)
    /\ signal_irq' = FALSE /\ signal' = TRUE
    /\ UNCHANGED <<powerVars, uartVars, app_req>>

\* The early timer's callback.
EarlyTimerIsr ==
    /\ Due(clock_wakeup_timer)
    /\ Taken(FALSE)
    /\ clock_wakeup_timer' = Stopped
    /\ early_latest' = ~Due(app_timer)
    /\ OnClockWakeupTimeout
    /\ UNCHANGED <<app_timer, uartVars, signal_irq, signal, app_req>>

\* The application's callback, after the early timer's: it leaves something for
\* the program to do, may start the timer again, and may hold a requirement.
AppTimerIsr ==
    /\ Due(app_timer) /\ ~Due(clock_wakeup_timer)
    /\ Taken(TRUE)
    /\ app_timer' \in Timeouts \union {Stopped}
    /\ early_latest' = FALSE
    /\ \/ ~app_req /\ app_req' = TRUE /\ AddRequirement
       \/ UNCHANGED <<app_req, modeVars>>
    /\ UNCHANGED <<clock_wakeup_timer, uartVars, signal_irq, signal>>

Isr == UartIsr \/ SignalIsr \/ EarlyTimerIsr \/ AppTimerIsr

-----------------------------------------------------------------------------
(* The world outside.  The USART has no clock in EM2. *)

UsartClocked == ~(pc = "asleep" /\ current_em = EM2)

Line ==
    /\ UsartClocked
    /\ ByteSent \/ ByteReceived
    /\ UNCHANGED <<pc, signal_irq, signal, app_req, owed>>

RaiseSignal ==
    /\ signal_irq' = TRUE
    /\ UNCHANGED <<powerVars, uartVars, pc, signal, app_req, owed>>

\* A timer that is due is served before the next tick.
Tick ==
    /\ ~TimerIrq
    /\ app_timer' = Countdown(app_timer)
    /\ clock_wakeup_timer' = Countdown(clock_wakeup_timer)
    /\ UNCHANGED <<modeVars, early_latest, uartVars, pc, signal_irq, signal, app_req, owed>>

SleepInit ==
    /\ UartInit
    /\ PowerInit(OneIf(em_req_added))
    /\ pc = "app"
    /\ signal_irq = FALSE /\ signal = FALSE
    /\ app_req = FALSE
    /\ owed = FALSE

SleepNext == Program \/ FallAsleep \/ Wake \/ AfterWake \/ Isr \/ Line \/ RaiseSignal \/ Tick

SleepSpec == SleepInit /\ [][SleepNext]_vars

\* Every handler gets its turn, sleep ends, the interrupts always leave the
\* program some time again, and it comes back to sl_bt_step from what it does.
SleepLive ==
    /\ SleepSpec
    /\ []<>~IrqPending
    /\ WF_vars(UartIsr) /\ WF_vars(SignalIsr) /\ WF_vars(EarlyTimerIsr) /\ WF_vars(AppTimerIsr)
    /\ WF_vars(Wake) /\ SF_vars(AfterWake) /\ WF_vars(pc = "again" /\ FallAsleep)
    /\ SF_vars(pc # "app" /\ (WriteStep \/ ReadStep)) /\ SF_vars(EndWrite)
    /\ SF_vars(HandleSignal)

=============================================================================
