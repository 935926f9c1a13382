---------------------------- MODULE SleepProofs -----------------------------
(***************************************************************************)
(* Proofs, for every ring length, every set of timeouts and start-up times *)
(* of the crystal and every overhead.                                      *)
(*                                                                         *)
(* The inductive invariant is IInv: types, and for each hazard what the    *)
(* code relies on without saying it.  A write's bytes are on their way     *)
(* only while it is under way or tx_idle is false, a completed             *)
(* transmission that is not the last byte's is seen before the write ends, *)
(* and the early timer is never later than the timer it comes before.      *)
(***************************************************************************)
EXTENDS SleepProps, TLAPS

Writing == pc \in {"release", "tx", "enable_txc", "busy"}

InSleep == pc \in {"asleep", "again", "woken"}

TimerValues == Nat \union {Stopped}

PcValues == {"app", "release", "tx", "enable_txc", "busy", "popped", "enable_rx",
             "asleep", "again", "woken"}

PowerFlags ==
    /\ requirement_on_em1_added \in BOOLEAN
    /\ is_states_saved \in BOOLEAN
    /\ early_latest \in BOOLEAN

PowerType ==
    /\ requirement \in Int
    /\ current_em \in {EM0, EM1, EM2}
    /\ hfxo_wakeup_time_tick \in WakeupTimes
    /\ app_timer \in TimerValues
    /\ clock_wakeup_timer \in TimerValues

RingFlags == rx_valid \in BOOLEAN /\ rx_ien \in BOOLEAN

RingType ==
    /\ rx_buffer \subseteq Slots
    /\ rx_read_index \in Slots
    /\ rx_write_index \in Slots
    /\ rx_count \in Nat

TxFlags ==
    /\ em_req_added \in BOOLEAN
    /\ tx_idle \in BOOLEAN
    /\ txc_ien \in BOOLEAN
    /\ txc_if \in BOOLEAN
    /\ idle \in BOOLEAN

TxType ==
    /\ uart_sleep \in {"IGNORE", "SLEEP", "WAKEUP"}
    /\ sending \in 0 .. 2

LoopFlags ==
    /\ signal_irq \in BOOLEAN
    /\ signal \in BOOLEAN
    /\ app_req \in BOOLEAN
    /\ owed \in BOOLEAN

LoopType == pc \in PcValues

\* A read is under way only of a byte that is there; the ring is never overrun.
RingInv ==
    /\ rx_count <= rx_buffer_length
    /\ pc = "popped" => rx_count > 0

\* A write marks the stream idle from its first instruction, so that its own
\* completed bytes release nothing.
WriteInv == Writing => tx_idle

\* Bytes are on their way only inside a write or before its last one is out.
SendInv == sending > 0 => Writing \/ ~tx_idle

\* A completion seen with bytes still to go belongs to the write under way, and
\* its interrupt comes before the write ends.
TxcInv ==
    txc_if /\ sending > 0 => pc = "enable_txc" \/ (pc = "tx" /\ txc_ien)

\* The early timer does not run outside the sleep.
EarlyInv == ~InSleep => clock_wakeup_timer = Stopped

\* With the clocks off, the early timer comes before the application's.
OrderInv ==
    is_states_saved /\ pc # "again" /\ app_timer # Stopped =>
        clock_wakeup_timer \in 0 .. app_timer

\* Going to sleep again is decided with no signal, and none is sent before it.
AgainInv == pc = "again" => ~signal

IInv ==
    /\ PowerFlags /\ PowerType /\ RingFlags /\ RingType /\ TxFlags /\ TxType /\ LoopFlags /\ LoopType
    /\ RingInv /\ WriteInv /\ SendInv /\ TxcInv /\ EarlyInv /\ OrderInv /\ AgainInv
    /\ RequirementsAddUp /\ NoByteCut /\ ClocksFollowMode /\ NoSignalSlept /\ ReceiverLetsGo

-----------------------------------------------------------------------------
\* An early timer is set before the application's, by at least a tick.
LEMMA DelayPositive ==
    ASSUME PowerType PROVE WakeupDelay \in Nat /\ WakeupDelay > 0
BY PowerAssumption DEF PowerType, WakeupDelay

\* The initial states satisfy the invariant.
LEMMA InitInv == SleepInit => IInv
<1> SUFFICES ASSUME SleepInit PROVE IInv
    OBVIOUS
<1> USE DEF SleepInit, UartInit, PowerInit
<1>1. PowerFlags /\ RingFlags
    BY DEF PowerFlags, RingFlags
<1>2. PowerType /\ RingType
    BY PowerAssumption, RingAssumption
       DEF PowerType, RingType, TimerValues, Slots, Stopped, EM0, EM1, EM2, OneIf
<1>3. TxFlags /\ LoopFlags /\ TxType /\ LoopType
    <2>1. TxFlags /\ LoopFlags
        BY DEF TxFlags, LoopFlags
    <2>2. TxType /\ LoopType
        BY DEF TxType, LoopType, PcValues
    <2> QED
        BY <2>1, <2>2
<1>4. RingInv /\ WriteInv /\ SendInv /\ TxcInv /\ EarlyInv /\ OrderInv /\ AgainInv
    BY RingAssumption DEF RingInv, WriteInv, Writing, SendInv, TxcInv, EarlyInv, OrderInv, AgainInv
<1>5. RequirementsAddUp /\ NoSignalSlept /\ ReceiverLetsGo
    BY DEF RequirementsAddUp, TxHolds, OneIf, NoSignalSlept, ReceiverLetsGo
<1>6. NoByteCut /\ ClocksFollowMode
    <2>1. current_em = 0
        BY DEF EM0
    <2> QED
        BY <2>1 DEF NoByteCut, ClocksFollowMode, EM0, EM2
<1> QED
    BY <1>1, <1>2, <1>3, <1>4, <1>5, <1>6 DEF IInv

\* Every step keeps it.
LEMMA StepInv == IInv /\ [SleepNext]_vars => IInv'
<1> SUFFICES ASSUME IInv, [SleepNext]_vars PROVE IInv'
    OBVIOUS
<1> USE DEF IInv, PowerFlags, PowerType, RingFlags, RingType, TxFlags, TxType, LoopFlags, LoopType, RingInv, WriteInv, SendInv, TxcInv,
        EarlyInv, OrderInv, AgainInv, RequirementsAddUp, NoByteCut,
        ClocksFollowMode, NoSignalSlept, ReceiverLetsGo, TxHolds, Writing, InSleep,
        OneIf, IrqPending, UartIrq, Stopped, EM0, EM1, EM2, PcValues, TimerValues,
        Slots, modeVars, timerVars, powerVars, ringVars, rxVars, txVars, uartVars
<1>1. CASE HandleSignal
    <2> USE DEF HandleSignal, Step
    <2>1. PowerFlags' /\ RingFlags'
        BY <1>1
    <2>2. PowerType' /\ RingType'
        BY <1>1
    <2>3. TxFlags' /\ LoopFlags'
        BY <1>1
    <2>4. TxType' /\ LoopType'
        BY <1>1
    <2>5. RingInv' /\ WriteInv' /\ SendInv' /\ TxcInv' /\ AgainInv'
        BY <1>1
    <2>6. NoSignalSlept' /\ ReceiverLetsGo'
        BY <1>1
    <2>7. RequirementsAddUp'
        BY <1>1
    <2>8. NoByteCut' /\ EarlyInv' /\ OrderInv'
        BY <1>1
    <2>9. ClocksFollowMode'
        BY <1>1
    <2> QED
        BY <2>1, <2>2, <2>3, <2>4, <2>5, <2>6, <2>7, <2>8, <2>9
<1>2. CASE AppTimer
    <2> USE DEF AppTimer, Step
    <2>1. PowerFlags' /\ RingFlags'
        BY <1>2
    <2>2. PowerType' /\ RingType'
        BY <1>2, PowerAssumption
    <2>3. TxFlags' /\ LoopFlags'
        BY <1>2
    <2>4. TxType' /\ LoopType'
        BY <1>2
    <2>5. RingInv' /\ WriteInv' /\ SendInv' /\ TxcInv' /\ AgainInv'
        BY <1>2
    <2>6. NoSignalSlept' /\ ReceiverLetsGo'
        BY <1>2
    <2>7. RequirementsAddUp'
        BY <1>2
    <2>8. NoByteCut' /\ EarlyInv' /\ OrderInv'
        BY <1>2, PowerAssumption
    <2>9. ClocksFollowMode'
        BY <1>2
    <2> QED
        BY <2>1, <2>2, <2>3, <2>4, <2>5, <2>6, <2>7, <2>8, <2>9
<1>3. CASE AppRequirement
    <2> USE DEF AppRequirement, Step, AddRequirement, RemoveRequirement,
            RestoreStates, KeepStates
    <2>1. PowerFlags' /\ RingFlags'
        BY <1>3
    <2>2. PowerType' /\ RingType'
        BY <1>3, PowerAssumption
    <2>3. TxFlags' /\ LoopFlags'
        BY <1>3
    <2>4. TxType' /\ LoopType'
        BY <1>3
    <2>5. RingInv' /\ WriteInv' /\ SendInv' /\ TxcInv' /\ AgainInv'
        BY <1>3
    <2>6. NoSignalSlept' /\ ReceiverLetsGo'
        BY <1>3
    <2>7. RequirementsAddUp'
        <3>1. CASE app_req
            BY <1>3, <3>1
        <3>2. CASE ~app_req
            <4>1. app_req' = TRUE
                BY <1>3, <3>2
            <4>2. /\ requirement' = requirement + 1
                  /\ UNCHANGED <<em_req_added, tx_idle, idle, requirement_on_em1_added, pc>>
                BY <1>3, <3>2
            <4> QED
                BY <3>2, <4>1, <4>2
        <3> QED
            BY <3>1, <3>2
    <2>8. NoByteCut' /\ EarlyInv' /\ OrderInv'
        BY <1>3, PowerAssumption
    <2>9. ClocksFollowMode'
        BY <1>3
    <2> QED
        BY <2>1, <2>2, <2>3, <2>4, <2>5, <2>6, <2>7, <2>8, <2>9
<1>4. CASE RxRestriction
    <2> USE DEF RxRestriction, Step, SetRxRestriction, AddRequirement,
            RemoveRequirement, RestoreStates, KeepStates
    <2>1. PowerFlags' /\ RingFlags'
        BY <1>4
    <2>2. PowerType' /\ RingType'
        BY <1>4, PowerAssumption
    <2>3. TxFlags' /\ LoopFlags'
        BY <1>4
    <2>4. TxType' /\ LoopType'
        BY <1>4
    <2>5. RingInv' /\ WriteInv' /\ SendInv' /\ TxcInv' /\ AgainInv'
        BY <1>4
    <2>6. NoSignalSlept' /\ ReceiverLetsGo'
        BY <1>4
    <2>7. RequirementsAddUp'
        BY <1>4
    <2>8. NoByteCut' /\ EarlyInv' /\ OrderInv'
        BY <1>4, PowerAssumption
    <2>9. ClocksFollowMode'
        BY <1>4
    <2> QED
        BY <2>1, <2>2, <2>3, <2>4, <2>5, <2>6, <2>7, <2>8, <2>9
<1>5. CASE Step("app", "release") /\ TakeIdle /\ UNCHANGED <<signal, app_req>>
    <2> USE DEF Step, TakeIdle
    <2>1. PowerFlags' /\ RingFlags'
        BY <1>5
    <2>2. PowerType' /\ RingType'
        BY <1>5
    <2>3. TxFlags' /\ LoopFlags'
        BY <1>5
    <2>4. TxType' /\ LoopType'
        BY <1>5
    <2>5. RingInv' /\ WriteInv' /\ SendInv' /\ TxcInv' /\ AgainInv'
        BY <1>5
    <2>6. NoSignalSlept' /\ ReceiverLetsGo'
        BY <1>5
    <2>7. RequirementsAddUp'
        BY <1>5
    <2>8. NoByteCut' /\ EarlyInv' /\ OrderInv'
        BY <1>5
    <2>9. ClocksFollowMode'
        BY <1>5
    <2> QED
        BY <2>1, <2>2, <2>3, <2>4, <2>5, <2>6, <2>7, <2>8, <2>9
<1>6. CASE Step("release", "tx") /\ ReleaseLast /\ UNCHANGED <<signal, app_req>>
    <2> USE DEF Step, ReleaseLast, RemoveRequirement, KeepStates
    <2>1. PowerFlags' /\ RingFlags'
        BY <1>6
    <2>2. PowerType' /\ RingType'
        BY <1>6, PowerAssumption
    <2>3. TxFlags' /\ LoopFlags'
        BY <1>6
    <2>4. TxType' /\ LoopType'
        BY <1>6
    <2>5. RingInv' /\ WriteInv' /\ SendInv' /\ TxcInv' /\ AgainInv'
        BY <1>6
    <2>6. NoSignalSlept' /\ ReceiverLetsGo'
        BY <1>6
    <2>7. RequirementsAddUp'
        BY <1>6
    <2>8. NoByteCut' /\ EarlyInv' /\ OrderInv'
        BY <1>6, PowerAssumption
    <2>9. ClocksFollowMode'
        BY <1>6
    <2> QED
        BY <2>1, <2>2, <2>3, <2>4, <2>5, <2>6, <2>7, <2>8, <2>9
<1>7. CASE Step("tx", "enable_txc") /\ UsartTx /\ UNCHANGED <<signal, app_req>>
    <2> USE DEF Step, UsartTx
    <2>1. PowerFlags' /\ RingFlags'
        BY <1>7
    <2>2. PowerType' /\ RingType'
        BY <1>7
    <2>3. TxFlags' /\ LoopFlags'
        BY <1>7
    <2>4. TxType' /\ LoopType'
        BY <1>7
    <2>5. RingInv' /\ WriteInv' /\ SendInv' /\ TxcInv' /\ AgainInv'
        BY <1>7
    <2>6. NoSignalSlept' /\ ReceiverLetsGo'
        BY <1>7
    <2>7. RequirementsAddUp'
        BY <1>7
    <2>8. NoByteCut' /\ EarlyInv' /\ OrderInv'
        BY <1>7
    <2>9. ClocksFollowMode'
        BY <1>7
    <2> QED
        BY <2>1, <2>2, <2>3, <2>4, <2>5, <2>6, <2>7, <2>8, <2>9
<1>8. CASE Step("enable_txc", "tx") /\ EnableTxc /\ UNCHANGED <<signal, app_req>>
    <2> USE DEF Step, EnableTxc
    <2>1. PowerFlags' /\ RingFlags'
        BY <1>8
    <2>2. PowerType' /\ RingType'
        BY <1>8
    <2>3. TxFlags' /\ LoopFlags'
        BY <1>8
    <2>4. TxType' /\ LoopType'
        BY <1>8
    <2>5. RingInv' /\ WriteInv' /\ SendInv' /\ TxcInv' /\ AgainInv'
        BY <1>8
    <2>6. NoSignalSlept' /\ ReceiverLetsGo'
        BY <1>8
    <2>7. RequirementsAddUp'
        BY <1>8
    <2>8. NoByteCut' /\ EarlyInv' /\ OrderInv'
        BY <1>8
    <2>9. ClocksFollowMode'
        BY <1>8
    <2> QED
        BY <2>1, <2>2, <2>3, <2>4, <2>5, <2>6, <2>7, <2>8, <2>9
<1>9. CASE Step("busy", "app") /\ MarkBusy /\ UNCHANGED <<signal, app_req>>
    <2> USE DEF Step, MarkBusy
    <2>1. PowerFlags' /\ RingFlags'
        BY <1>9
    <2>2. PowerType' /\ RingType'
        BY <1>9
    <2>3. TxFlags' /\ LoopFlags'
        BY <1>9
    <2>4. TxType' /\ LoopType'
        BY <1>9
    <2>5. RingInv' /\ WriteInv' /\ SendInv' /\ TxcInv' /\ AgainInv'
        BY <1>9
    <2>6. NoSignalSlept' /\ ReceiverLetsGo'
        BY <1>9
    <2>7. RequirementsAddUp'
        BY <1>9
    <2>8. NoByteCut' /\ EarlyInv' /\ OrderInv'
        BY <1>9
    <2>9. ClocksFollowMode'
        BY <1>9
    <2> QED
        BY <2>1, <2>2, <2>3, <2>4, <2>5, <2>6, <2>7, <2>8, <2>9
<1>10. CASE EndWrite
    <2> USE DEF EndWrite, Step, HoldRequirement, AddRequirement, RestoreStates,
            KeepStates
    <2>1. PowerFlags' /\ RingFlags'
        BY <1>10
    <2>2. PowerType' /\ RingType'
        BY <1>10, PowerAssumption
    <2>3. TxFlags' /\ LoopFlags'
        BY <1>10
    <2>4. TxType' /\ LoopType'
        BY <1>10
    <2>5. RingInv' /\ WriteInv' /\ SendInv' /\ TxcInv' /\ AgainInv'
        BY <1>10
    <2>6. NoSignalSlept' /\ ReceiverLetsGo'
        BY <1>10
    <2>7. RequirementsAddUp'
        BY <1>10
    <2>8. NoByteCut' /\ EarlyInv' /\ OrderInv'
        BY <1>10, PowerAssumption
    <2>9. ClocksFollowMode'
        BY <1>10
    <2> QED
        BY <2>1, <2>2, <2>3, <2>4, <2>5, <2>6, <2>7, <2>8, <2>9
<1>11. CASE Step("app", "popped") /\ PopByte /\ UNCHANGED <<signal, app_req>>
    <2> USE DEF Step, PopByte, Next1
    <2>1. PowerFlags' /\ RingFlags'
        BY <1>11
    <2>2. PowerType' /\ RingType'
        BY <1>11, RingAssumption
    <2>3. TxFlags' /\ LoopFlags'
        BY <1>11
    <2>4. TxType' /\ LoopType'
        BY <1>11
    <2>5. RingInv' /\ WriteInv' /\ SendInv' /\ TxcInv' /\ AgainInv'
        BY <1>11, RingAssumption
    <2>6. NoSignalSlept' /\ ReceiverLetsGo'
        BY <1>11, RingAssumption
    <2>7. RequirementsAddUp'
        BY <1>11
    <2>8. NoByteCut' /\ EarlyInv' /\ OrderInv'
        BY <1>11
    <2>9. ClocksFollowMode'
        BY <1>11
    <2> QED
        BY <2>1, <2>2, <2>3, <2>4, <2>5, <2>6, <2>7, <2>8, <2>9
<1>12. CASE Step("popped", "enable_rx") /\ PopCounted /\ UNCHANGED <<signal, app_req>>
    <2> USE DEF Step, PopCounted
    <2>1. PowerFlags' /\ RingFlags'
        BY <1>12
    <2>2. PowerType' /\ RingType'
        BY <1>12
    <2>3. TxFlags' /\ LoopFlags'
        BY <1>12
    <2>4. TxType' /\ LoopType'
        BY <1>12
    <2>5. RingInv' /\ WriteInv' /\ SendInv' /\ TxcInv' /\ AgainInv'
        <3>1. RingInv'
            BY <1>12, RingAssumption
        <3>2. WriteInv'
            BY <1>12, RingAssumption
        <3>3. SendInv'
            BY <1>12, RingAssumption
        <3>4. TxcInv'
            BY <1>12, RingAssumption
        <3>5. AgainInv'
            BY <1>12, RingAssumption
        <3> QED
            BY <3>1, <3>2, <3>3, <3>4, <3>5
    <2>6. NoSignalSlept' /\ ReceiverLetsGo'
        BY <1>12
    <2>7. RequirementsAddUp'
        BY <1>12
    <2>8. NoByteCut' /\ EarlyInv' /\ OrderInv'
        BY <1>12
    <2>9. ClocksFollowMode'
        BY <1>12
    <2> QED
        BY <2>1, <2>2, <2>3, <2>4, <2>5, <2>6, <2>7, <2>8, <2>9
<1>13. CASE Step("enable_rx", "app") /\ EnableRx /\ UNCHANGED <<signal, app_req>>
    <2> USE DEF Step, EnableRx
    <2>1. PowerFlags' /\ RingFlags'
        BY <1>13
    <2>2. PowerType' /\ RingType'
        BY <1>13
    <2>3. TxFlags' /\ LoopFlags'
        BY <1>13
    <2>4. TxType' /\ LoopType'
        BY <1>13
    <2>5. RingInv' /\ WriteInv' /\ SendInv' /\ TxcInv' /\ AgainInv'
        BY <1>13
    <2>6. NoSignalSlept' /\ ReceiverLetsGo'
        BY <1>13
    <2>7. RequirementsAddUp'
        BY <1>13
    <2>8. NoByteCut' /\ EarlyInv' /\ OrderInv'
        BY <1>13
    <2>9. ClocksFollowMode'
        BY <1>13
    <2> QED
        BY <2>1, <2>2, <2>3, <2>4, <2>5, <2>6, <2>7, <2>8, <2>9
<1>14. CASE FallAsleep
    <2> USE DEF FallAsleep, IsOkToSleep, ApplyMode, LowestEm, TooSoonToStop,
            EarlyTimer, RestoreStates, KeepStates
    <2>1. PowerFlags' /\ RingFlags'
        BY <1>14
    <2>2. PowerType' /\ RingType'
        BY <1>14, PowerAssumption, DelayPositive
    <2>3. TxFlags' /\ LoopFlags'
        BY <1>14
    <2>4. TxType' /\ LoopType'
        BY <1>14
    <2>5. RingInv' /\ WriteInv' /\ SendInv' /\ TxcInv' /\ AgainInv'
        BY <1>14
    <2>6. NoSignalSlept' /\ ReceiverLetsGo'
        BY <1>14
    <2>7. RequirementsAddUp'
        BY <1>14
    <2>8. NoByteCut' /\ EarlyInv' /\ OrderInv'
        <3>1. CASE requirement - OneIf(requirement_on_em1_added) > 0
            BY <1>14, <3>1, PowerAssumption
        <3>2. CASE requirement - OneIf(requirement_on_em1_added) = 0 /\ TooSoonToStop
            BY <1>14, <3>2, PowerAssumption
        <3>3. CASE requirement - OneIf(requirement_on_em1_added) = 0 /\ ~TooSoonToStop
            <4>1. clock_wakeup_timer' = EarlyTimer
                BY <1>14, <3>3
            <4>2. app_timer # Stopped => EarlyTimer \in 0 .. app_timer
                BY <3>3, DelayPositive, PowerAssumption
            <4>3. UNCHANGED app_timer /\ requirement' = 0 /\ InSleep'
                BY <1>14, <3>3
            <4>4. sending' = 0
                BY <1>14, <3>3
            <4>5. NoByteCut' /\ EarlyInv'
                BY <4>3, <4>4
            <4>6. OrderInv'
                BY <4>1, <4>2, <4>3
            <4> QED
                BY <4>5, <4>6
        <3> QED
            BY <3>1, <3>2, <3>3
    <2>9. ClocksFollowMode'
        <3>1. CASE requirement - OneIf(requirement_on_em1_added) > 0
            <4>1. /\ current_em # EM2 /\ current_em' = EM1 /\ InSleep'
                  /\ UNCHANGED is_states_saved
                BY <1>14, <3>1
            <4> QED
                BY <4>1
        <3>2. CASE requirement - OneIf(requirement_on_em1_added) = 0 /\ TooSoonToStop
            <4>1. current_em' = EM1 /\ InSleep'
                BY <1>14, <3>2
            <4>2. is_states_saved' = FALSE
                BY <1>14, <3>2
            <4> QED
                BY <4>1, <4>2
        <3>3. CASE requirement - OneIf(requirement_on_em1_added) = 0 /\ ~TooSoonToStop
            <4>1. current_em' = EM2 /\ is_states_saved' = TRUE /\ InSleep'
                BY <1>14, <3>3
            <4> QED
                BY <4>1
        <3> QED
            BY <3>1, <3>2, <3>3
    <2> QED
        BY <2>1, <2>2, <2>3, <2>4, <2>5, <2>6, <2>7, <2>8, <2>9
<1>15. CASE Wake
    <2> USE DEF Wake
    <2>1. PowerFlags' /\ RingFlags'
        BY <1>15
    <2>2. PowerType' /\ RingType'
        BY <1>15
    <2>3. TxFlags' /\ LoopFlags'
        BY <1>15
    <2>4. TxType' /\ LoopType'
        BY <1>15
    <2>5. RingInv' /\ WriteInv' /\ SendInv' /\ TxcInv' /\ AgainInv'
        BY <1>15
    <2>6. NoSignalSlept' /\ ReceiverLetsGo'
        BY <1>15
    <2>7. RequirementsAddUp'
        BY <1>15
    <2>8. NoByteCut' /\ EarlyInv' /\ OrderInv'
        BY <1>15
    <2>9. ClocksFollowMode'
        BY <1>15
    <2> QED
        BY <2>1, <2>2, <2>3, <2>4, <2>5, <2>6, <2>7, <2>8, <2>9
<1>16. CASE AfterWake
    <2> USE DEF AfterWake, StopEarlyTimer, SleepOnIsrExit, LeaveSleep,
            RestoreStates, KeepStates
    <2>1. PowerFlags' /\ RingFlags'
        BY <1>16
    <2>2. PowerType' /\ RingType'
        BY <1>16, PowerAssumption
    <2>3. TxFlags' /\ LoopFlags'
        BY <1>16
    <2>4. TxType' /\ LoopType'
        BY <1>16
    <2>5. RingInv' /\ WriteInv' /\ SendInv' /\ TxcInv' /\ AgainInv'
        BY <1>16
    <2>6. NoSignalSlept' /\ ReceiverLetsGo'
        BY <1>16
    <2>7. RequirementsAddUp'
        BY <1>16
    <2>8. NoByteCut' /\ EarlyInv' /\ OrderInv'
        BY <1>16, PowerAssumption
    <2>9. ClocksFollowMode'
        <3>1. CASE SleepOnIsrExit
            <4>1. InSleep' /\ UNCHANGED <<current_em, is_states_saved>>
                BY <1>16, <3>1
            <4> QED
                BY <4>1
        <3>2. CASE ~SleepOnIsrExit
            <4>1. current_em' = EM0 /\ is_states_saved' = FALSE
                BY <1>16, <3>2
            <4>2. requirement_on_em1_added' = FALSE
                BY <1>16, <3>2
            <4> QED
                BY <4>1, <4>2
        <3> QED
            BY <3>1, <3>2
    <2> QED
        BY <2>1, <2>2, <2>3, <2>4, <2>5, <2>6, <2>7, <2>8, <2>9
<1>17. CASE UartIsr
    <2> USE DEF UartIsr, Taken, Masked, UsartIrqHandler, UartIrq, RxData,
            SpaceAvail, Next1, TransmitComplete, RemoveRequirement,
            KeepStates
    <2>1. PowerFlags' /\ RingFlags'
        BY <1>17
    <2>2. PowerType' /\ RingType'
        <3>1. PowerType'
            BY <1>17
        <3>2. CASE rx_valid /\ SpaceAvail
            <4>1. /\ rx_buffer' = rx_buffer \union {rx_write_index}
                  /\ rx_write_index' = Next1(rx_write_index)
                  /\ rx_count' = rx_count + 1
                  /\ UNCHANGED rx_read_index
                BY <1>17, <3>2
            <4> QED
                BY <3>1, <4>1, RingAssumption
        <3>3. CASE ~(rx_valid /\ SpaceAvail)
            <4>1. UNCHANGED ringVars
                BY <1>17, <3>3
            <4> QED
                BY <3>1, <4>1
        <3> QED
            BY <3>2, <3>3
    <2>3. TxFlags' /\ LoopFlags'
        BY <1>17
    <2>4. TxType' /\ LoopType'
        BY <1>17
    <2>5. RingInv' /\ WriteInv' /\ SendInv' /\ TxcInv' /\ AgainInv'
        <3>1. RingInv'
            BY <1>17, RingAssumption
        <3>2. WriteInv'
            BY <1>17, RingAssumption
        <3>3. SendInv'
            BY <1>17, RingAssumption
        <3>4. TxcInv'
            BY <1>17, RingAssumption
        <3>5. AgainInv'
            BY <1>17, RingAssumption
        <3> QED
            BY <3>1, <3>2, <3>3, <3>4, <3>5
    <2>6. NoSignalSlept' /\ ReceiverLetsGo'
        BY <1>17, RingAssumption
    <2>7. RequirementsAddUp'
        BY <1>17
    <2>8. NoByteCut' /\ EarlyInv' /\ OrderInv'
        BY <1>17, PowerAssumption
    <2>9. ClocksFollowMode'
        BY <1>17
    <2> QED
        BY <2>1, <2>2, <2>3, <2>4, <2>5, <2>6, <2>7, <2>8, <2>9
<1>18. CASE SignalIsr
    <2> USE DEF SignalIsr, Taken, Masked
    <2>1. PowerFlags' /\ RingFlags'
        BY <1>18
    <2>2. PowerType' /\ RingType'
        BY <1>18
    <2>3. TxFlags' /\ LoopFlags'
        BY <1>18
    <2>4. TxType' /\ LoopType'
        BY <1>18
    <2>5. RingInv' /\ WriteInv' /\ SendInv' /\ TxcInv' /\ AgainInv'
        BY <1>18
    <2>6. NoSignalSlept' /\ ReceiverLetsGo'
        BY <1>18
    <2>7. RequirementsAddUp'
        BY <1>18
    <2>8. NoByteCut' /\ EarlyInv' /\ OrderInv'
        BY <1>18
    <2>9. ClocksFollowMode'
        BY <1>18
    <2> QED
        BY <2>1, <2>2, <2>3, <2>4, <2>5, <2>6, <2>7, <2>8, <2>9
<1>19. CASE EarlyTimerIsr
    <2> USE DEF EarlyTimerIsr, Taken, Masked, Due, OnClockWakeupTimeout,
            RestoreStates, KeepStates
    <2>1. PowerFlags' /\ RingFlags'
        BY <1>19
    <2>2. PowerType' /\ RingType'
        BY <1>19, PowerAssumption
    <2>3. TxFlags' /\ LoopFlags'
        BY <1>19
    <2>4. TxType' /\ LoopType'
        BY <1>19
    <2>5. RingInv' /\ WriteInv' /\ SendInv' /\ TxcInv' /\ AgainInv'
        BY <1>19
    <2>6. NoSignalSlept' /\ ReceiverLetsGo'
        BY <1>19
    <2>7. RequirementsAddUp'
        BY <1>19
    <2>8. NoByteCut' /\ EarlyInv' /\ OrderInv'
        BY <1>19, PowerAssumption
    <2>9. ClocksFollowMode'
        <3>1. current_em' = EM1 /\ InSleep'
            BY <1>19
        <3>2. is_states_saved' = FALSE
            BY <1>19
        <3> QED
            BY <3>1, <3>2
    <2> QED
        BY <2>1, <2>2, <2>3, <2>4, <2>5, <2>6, <2>7, <2>8, <2>9
<1>20. CASE AppTimerIsr
    <2> USE DEF AppTimerIsr, Taken, Masked, Due, AddRequirement, RestoreStates,
            KeepStates
    <2>1. PowerFlags' /\ RingFlags'
        <3>1. PowerFlags'
            BY <1>20
        <3>2. RingFlags'
            BY <1>20
        <3> QED
            BY <3>1, <3>2
    <2>2. PowerType' /\ RingType'
        BY <1>20, PowerAssumption
    <2>3. TxFlags' /\ LoopFlags'
        <3>1. TxFlags'
            BY <1>20
        <3>2. LoopFlags'
            BY <1>20
        <3> QED
            BY <3>1, <3>2
    <2>4. TxType' /\ LoopType'
        BY <1>20
    <2>5. RingInv' /\ WriteInv' /\ SendInv' /\ TxcInv' /\ AgainInv'
        BY <1>20
    <2>6. NoSignalSlept' /\ ReceiverLetsGo'
        BY <1>20
    <2>7. RequirementsAddUp'
        BY <1>20
    <2>8. NoByteCut' /\ EarlyInv' /\ OrderInv'
        BY <1>20, PowerAssumption
    <2>9. ClocksFollowMode'
        BY <1>20
    <2> QED
        BY <2>1, <2>2, <2>3, <2>4, <2>5, <2>6, <2>7, <2>8, <2>9
<1>21. CASE ByteSent /\ UNCHANGED <<pc, signal_irq, signal, app_req, owed>>
    <2> USE DEF ByteSent
    <2>1. PowerFlags' /\ RingFlags'
        BY <1>21
    <2>2. PowerType' /\ RingType'
        BY <1>21
    <2>3. TxFlags' /\ LoopFlags'
        BY <1>21
    <2>4. TxType' /\ LoopType'
        BY <1>21
    <2>5. RingInv' /\ WriteInv' /\ SendInv' /\ TxcInv' /\ AgainInv'
        BY <1>21
    <2>6. NoSignalSlept' /\ ReceiverLetsGo'
        BY <1>21
    <2>7. RequirementsAddUp'
        BY <1>21
    <2>8. NoByteCut' /\ EarlyInv' /\ OrderInv'
        BY <1>21
    <2>9. ClocksFollowMode'
        BY <1>21
    <2> QED
        BY <2>1, <2>2, <2>3, <2>4, <2>5, <2>6, <2>7, <2>8, <2>9
<1>22. CASE ByteReceived /\ UNCHANGED <<pc, signal_irq, signal, app_req, owed>>
    <2> USE DEF ByteReceived
    <2>1. PowerFlags' /\ RingFlags'
        BY <1>22
    <2>2. PowerType' /\ RingType'
        BY <1>22
    <2>3. TxFlags' /\ LoopFlags'
        BY <1>22
    <2>4. TxType' /\ LoopType'
        BY <1>22
    <2>5. RingInv' /\ WriteInv' /\ SendInv' /\ TxcInv' /\ AgainInv'
        BY <1>22
    <2>6. NoSignalSlept' /\ ReceiverLetsGo'
        BY <1>22
    <2>7. RequirementsAddUp'
        BY <1>22
    <2>8. NoByteCut' /\ EarlyInv' /\ OrderInv'
        BY <1>22
    <2>9. ClocksFollowMode'
        BY <1>22
    <2> QED
        BY <2>1, <2>2, <2>3, <2>4, <2>5, <2>6, <2>7, <2>8, <2>9
<1>23. CASE RaiseSignal
    <2> USE DEF RaiseSignal
    <2>1. PowerFlags' /\ RingFlags'
        BY <1>23
    <2>2. PowerType' /\ RingType'
        BY <1>23
    <2>3. TxFlags' /\ LoopFlags'
        BY <1>23
    <2>4. TxType' /\ LoopType'
        BY <1>23
    <2>5. RingInv' /\ WriteInv' /\ SendInv' /\ TxcInv' /\ AgainInv'
        BY <1>23
    <2>6. NoSignalSlept' /\ ReceiverLetsGo'
        BY <1>23
    <2>7. RequirementsAddUp'
        BY <1>23
    <2>8. NoByteCut' /\ EarlyInv' /\ OrderInv'
        BY <1>23
    <2>9. ClocksFollowMode'
        BY <1>23
    <2> QED
        BY <2>1, <2>2, <2>3, <2>4, <2>5, <2>6, <2>7, <2>8, <2>9
<1>24. CASE Tick
    <2> USE DEF Tick, Countdown, TimerIrq, Due
    <2>1. PowerFlags' /\ RingFlags'
        BY <1>24
    <2>2. PowerType' /\ RingType'
        BY <1>24
    <2>3. TxFlags' /\ LoopFlags'
        BY <1>24
    <2>4. TxType' /\ LoopType'
        BY <1>24
    <2>5. RingInv' /\ WriteInv' /\ SendInv' /\ TxcInv' /\ AgainInv'
        BY <1>24
    <2>6. NoSignalSlept' /\ ReceiverLetsGo'
        BY <1>24
    <2>7. RequirementsAddUp'
        BY <1>24
    <2>8. NoByteCut' /\ EarlyInv' /\ OrderInv'
        BY <1>24
    <2>9. ClocksFollowMode'
        BY <1>24
    <2> QED
        BY <2>1, <2>2, <2>3, <2>4, <2>5, <2>6, <2>7, <2>8, <2>9
<1>25. CASE UNCHANGED vars
    <2> USE DEF vars
    <2> QED
        BY <1>25
<1> QED
    BY <1>1, <1>2, <1>3, <1>4, <1>5, <1>6, <1>7, <1>8, <1>9, <1>10, <1>11,
       <1>12, <1>13, <1>14, <1>15, <1>16, <1>17, <1>18, <1>19, <1>20, <1>21,
       <1>22, <1>23, <1>24, <1>25
       DEF SleepNext, Program, WriteStep, ReadStep, Isr, Line

-----------------------------------------------------------------------------
\* sl_power_manager_sleep, sl_iostream_uart.c and their interrupts keep the
\* invariant.
LEMMA Invariance == SleepSpec => []IInv
<1> QED
    BY InitInv, StepInv, PTL DEF SleepSpec

\* Every variable of the power manager, the UART and the loop keeps its range;
\* at most four requirements on EM1 are held at once.
THEOREM SleepTypeCorrect == SleepSpec => []SleepTypeOK
<1>1. IInv => SleepTypeOK
    <2> SUFFICES ASSUME IInv PROVE SleepTypeOK
        OBVIOUS
    <2>1. requirement \in 0 .. 4
        BY DEF IInv, RequirementsAddUp, OneIf
    <2>2. {requirement_on_em1_added, is_states_saved, early_latest, em_req_added,
           tx_idle, rx_valid, rx_ien, txc_ien, txc_if, idle, signal_irq, signal,
           app_req, owed} \subseteq BOOLEAN
        BY DEF IInv, PowerFlags, RingFlags, TxFlags, LoopFlags
    <2>3. /\ rx_buffer \subseteq Slots /\ {rx_read_index, rx_write_index} \subseteq Slots
          /\ rx_count \in Nat
        BY DEF IInv, RingType
    <2> QED
        BY <2>1, <2>2, <2>3
           DEF IInv, SleepTypeOK, PowerType, TimerValues, TxType, LoopType, PcValues
<1> QED
    BY <1>1, Invariance, PTL

\* No requirement on EM1 is dropped twice or forgotten by the four that hold
\* one, whatever interrupt parts two of their instructions.
THEOREM RequirementsAddUpHolds == SleepSpec => []RequirementsAddUp
<1>1. IInv => RequirementsAddUp
    BY DEF IInv
<1> QED
    BY <1>1, Invariance, PTL

\* EM2 takes the USART's clock from no byte on its way out.
THEOREM NoByteCutHolds == SleepSpec => []NoByteCut
<1>1. IInv => NoByteCut
    BY DEF IInv
<1> QED
    BY <1>1, Invariance, PTL

\* The program runs in EM0 with its clocks restored.
THEOREM ClocksFollowModeHolds == SleepSpec => []ClocksFollowMode
<1>1. IInv => ClocksFollowMode
    BY DEF IInv
<1> QED
    BY <1>1, Invariance, PTL

\* is_ok_to_sleep and sleep_on_isr_exit together let no signal be slept on.
THEOREM NoSignalSleptHolds == SleepSpec => []NoSignalSlept
<1>1. IInv => NoSignalSlept
    BY DEF IInv
<1> QED
    BY <1>1, Invariance, PTL

\* The flow control of a full ring is lifted by the read that makes room.
THEOREM ReceiverLetsGoHolds == SleepSpec => []ReceiverLetsGo
<1>1. IInv => ReceiverLetsGo
    BY DEF IInv
<1> QED
    BY <1>1, Invariance, PTL

\* The early timer, or the requirement that replaces it, restores the clocks
\* before the application's timer expires, for every start-up time measured.
THEOREM TimerFindsClocksHolds == SleepSpec => TimerFindsClocks
<1>1. IInv /\ [SleepNext]_vars => [AppTimerIsr => ~is_states_saved]_vars
    <2> SUFFICES ASSUME IInv, AppTimerIsr PROVE ~is_states_saved
        OBVIOUS
    <2>1. app_timer = 0 /\ clock_wakeup_timer # 0 /\ pc # "again"
        BY DEF AppTimerIsr, Due, Taken, Masked
    <2> QED
        BY <2>1 DEF IInv, OrderInv, Stopped
<1> QED
    BY <1>1, Invariance, PTL DEF SleepSpec, TimerFindsClocks

=============================================================================
