----------------------------- MODULE SleepProps -----------------------------
(***************************************************************************)
(* Properties of the sleep loop and the UART.                              *)
(***************************************************************************)
EXTENDS Sleep, FiniteSets

Slots == 0 .. rx_buffer_length - 1

\* Type invariant.
SleepTypeOK ==
    /\ requirement \in 0 .. 4
    /\ current_em \in {EM0, EM1, EM2}
    /\ hfxo_wakeup_time_tick \in WakeupTimes
    /\ app_timer \in Nat \union {Stopped} /\ clock_wakeup_timer \in Nat \union {Stopped}
    /\ {requirement_on_em1_added, is_states_saved, early_latest, em_req_added,
        tx_idle, rx_valid, rx_ien, txc_ien, txc_if, idle, signal_irq, signal,
        app_req, owed} \subseteq BOOLEAN
    /\ rx_buffer \subseteq Slots /\ {rx_read_index, rx_write_index} \subseteq Slots
    /\ rx_count \in Nat /\ sending \in 0 .. 2
    /\ uart_sleep \in {"IGNORE", "SLEEP", "WAKEUP"}
    /\ pc \in {"app", "release", "tx", "enable_txc", "busy", "popped", "enable_rx",
               "asleep", "again", "woken"}

-----------------------------------------------------------------------------

\* A write's requirement, from its end to its last byte or to the next write.
TxHolds == ~tx_idle \/ pc = "busy" \/ (pc = "release" /\ ~idle)

\* The counter of requirements is the number of those who hold one, at every
\* instruction an interrupt can part: it never underflows, which the code
\* asserts, and nobody's requirement is dropped by another.
RequirementsAddUp ==
    requirement = OneIf(em_req_added) + OneIf(TxHolds) + OneIf(app_req)
                    + OneIf(requirement_on_em1_added)

\* EM2 takes the USART's clock: no byte is on its way out when it is entered,
\* and an interrupt that adds a requirement ends it at once.
NoByteCut == current_em = EM2 => sending = 0 /\ requirement = 0

\* The clock states are saved exactly while the mode is EM2, and the program
\* runs with them restored, in EM0.
ClocksFollowMode ==
    /\ is_states_saved <=> current_em = EM2
    /\ (pc \notin {"asleep", "again", "woken"}) => current_em = EM0 /\ ~requirement_on_em1_added

\* The application's timer callback finds the clocks restored: the early timer,
\* or the requirement that replaces it, came first.
TimerFindsClocks == [][AppTimerIsr => ~is_states_saved]_vars

\* The program does not fall asleep on a signal: the handler that sends it
\* either comes before the last-chance check or wakes it up again.
NoSignalSlept == pc = "asleep" => ~signal

\* The ring holds what was received and not read, and loses none of it to an
\* interrupt in the middle of a read.
RingSound ==
    LET underway == IF pc = "popped" THEN 1 ELSE 0
    IN /\ rx_count <= rx_buffer_length
       /\ Cardinality(rx_buffer) = rx_count - underway
       /\ rx_buffer = {(rx_read_index + k) % rx_buffer_length : k \in 0 .. rx_count - underway - 1}
       /\ rx_write_index = (rx_read_index + rx_count - underway) % rx_buffer_length

\* A received byte waits in the USART only while its interrupt is on, the ring
\* is full, or a read is about to turn it on again: flow control lets go.
ReceiverLetsGo == rx_ien \/ rx_count = rx_buffer_length \/ pc \in {"popped", "enable_rx"}

\* Every signal is handled, however it falls with going to sleep.
SignalHandled == (signal_irq ~> signal) /\ (signal ~> ~signal)

-----------------------------------------------------------------------------
\* "The module was the one that caused the system wakeup and the system MUST
\* NOT go back to sleep": whatever interrupt leaves the program something to do
\* wakes it.  Violated: the UART keeps a received byte's WAKEUP to itself, and the
\* early timer of the same wake-up votes for sleep.
OwedWakes == pc = "again" => ~owed

=============================================================================
