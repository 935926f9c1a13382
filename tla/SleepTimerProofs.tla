-------------------------- MODULE SleepTimerProofs --------------------------
(***************************************************************************)
(* Theorems about the sleep timer: the 64-bit count is a true one, a timer *)
(* is in the list once with a delta the counter can reach, the comparator  *)
(* covers the first timer, and every timer keeps its own deadline.         *)
(***************************************************************************)
EXTENDS DeltaListProofs

-----------------------------------------------------------------------------
(* The counter's arithmetic *)

\* A remainder, for a number at most one turn outside the range.
LEMMA ModTurn ==
    ASSUME NEW L \in Nat \ {0}, NEW i \in Int, -L <= i, i < 2 * L
    PROVE  i % L = IF i < 0 THEN i + L ELSE IF i < L THEN i ELSE i - L
<1>1. CASE i < 0
    <2>1. i = (-1) * L + (i + L) /\ i + L \in 0 .. L - 1
        BY <1>1
    <2> QED
        BY <1>1, <2>1
<1>2. CASE i >= 0 /\ i < L
    BY <1>2
<1>3. CASE i >= L
    <2>1. i = 1 * L + (i - L) /\ i - L \in 0 .. L - 1
        BY <1>3
    <2> QED
        BY <1>3, <2>1
<1> QED
    BY <1>1, <1>2, <1>3

\* The time from b to a, the counter's wrap included.
LEMMA MinusIs ==
    ASSUME NEW a \in Values, NEW b \in Values
    PROVE  /\ Minus(a, b) = IF a >= b THEN a - b ELSE a - b + Width
           /\ Minus(a, b) \in Values
<1>1. Width \in Nat \ {0}
    BY ReachIs
<1>2. a - b \in Int /\ -Width <= a - b /\ a - b < 2 * Width
    BY <1>1 DEF Values
<1>3. (a - b) % Width = IF a - b < 0 THEN a - b + Width
                        ELSE IF a - b < Width THEN a - b ELSE a - b - Width
    BY <1>1, <1>2, ModTurn
<1> QED
    BY <1>1, <1>3 DEF Minus, Values

\* The counter k ticks later.
LEMMA PlusIs ==
    ASSUME NEW a \in Values, NEW k \in Values
    PROVE  /\ (a + k) % Width = IF a + k < Width THEN a + k ELSE a + k - Width
           /\ (a + k) % Width \in Values
<1> DEFINE i == a + k
<1>1. Width \in Nat \ {0}
    BY ReachIs
<1>2. i \in Int /\ -Width <= i /\ i < 2 * Width
    BY <1>1 DEF Values
<1>3. 0 <= i
    BY <1>1 DEF Values
<1> HIDE DEF i
<1>4. i % Width = IF i < 0 THEN i + Width ELSE IF i < Width THEN i ELSE i - Width
    BY <1>1, <1>2, ModTurn
<1>5. i % Width = (IF i < Width THEN i ELSE i - Width) /\ i % Width \in Values
    BY <1>1, <1>2, <1>3, <1>4 DEF Values
<1>6. i = a + k
    BY DEF i
<1> QED
    BY <1>1, <1>2, <1>5, <1>6 DEF Values

\* The margins fit into the counter.
LEMMA SmallValues == {0, 1, 2, 3} \subseteq Values /\ Reach \in Values
BY ReachIs DEF Values

\* A tick moves the counter away from what it has passed, and towards what it
\* has not.
LEMMA TickMoves ==
    ASSUME NEW a \in Values, NEW b \in Values
    PROVE  LET n == (a + 1) % Width
           IN /\ n \in Values
              /\ n = 0 \/ n = a + 1
              /\ Minus(a, b) < Width - 1 => Minus(n, b) = Minus(a, b) + 1
              /\ Minus(b, a) >= 1 => Minus(b, n) = Minus(b, a) - 1
              /\ Minus(b, a) = 1 <=> n = b
<1> DEFINE n == (a + 1) % Width
<1>1. n \in Values /\ n = IF a + 1 < Width THEN a + 1 ELSE a + 1 - Width
    BY PlusIs, SmallValues
<1>2. Width \in Nat /\ Width > 3
    BY ReachIs
<1> HIDE DEF n
<1>3. n = 0 \/ n = a + 1
    BY <1>1, <1>2 DEF Values
<1>4. Minus(a, b) = IF a >= b THEN a - b ELSE a - b + Width
    BY MinusIs
<1>5. Minus(b, a) = IF b >= a THEN b - a ELSE b - a + Width
    BY MinusIs
<1>6. Minus(n, b) = IF n >= b THEN n - b ELSE n - b + Width
    BY <1>1, MinusIs
<1>7. Minus(b, n) = IF b >= n THEN b - n ELSE b - n + Width
    BY <1>1, MinusIs
<1>8. Minus(a, b) < Width - 1 => Minus(n, b) = Minus(a, b) + 1
    BY <1>1, <1>2, <1>4, <1>6 DEF Values
<1>9. Minus(b, a) >= 1 => Minus(b, n) = Minus(b, a) - 1
    BY <1>1, <1>2, <1>5, <1>7 DEF Values
<1>10. Minus(b, a) = 1 <=> n = b
    BY <1>1, <1>2, <1>5 DEF Values
<1> QED
    BY <1>1, <1>3, <1>8, <1>9, <1>10 DEF n

\* No time has passed since now.
LEMMA MinusSelf ==
    ASSUME NEW a \in Values
    PROVE  Minus(a, a) = 0
<1>1. Minus(a, a) = IF a >= a THEN a - a ELSE a - a + Width
    BY MinusIs
<1> QED
    BY <1>1, ReachIs DEF Values

\* A moment d before now is d before now.
LEMMA MinusMinus ==
    ASSUME NEW a \in Values, NEW d \in Values
    PROVE  Minus(a, d) \in Values /\ Minus(a, Minus(a, d)) = d
<1> DEFINE m == Minus(a, d)
<1>1. m = (IF a >= d THEN a - d ELSE a - d + Width) /\ m \in Values
    BY MinusIs
<1> HIDE DEF m
<1>2. Minus(a, m) = IF a >= m THEN a - m ELSE a - m + Width
    BY <1>1, MinusIs
<1>3. Minus(a, m) = d
    BY <1>1, <1>2, ReachIs DEF Values
<1> QED
    BY <1>1, <1>3 DEF m

-----------------------------------------------------------------------------
(* Types *)

ListTypes ==
    /\ DeltaList(list, delta)
    /\ timeout_periodic \in [Timers -> Timeouts \union {0}]
    /\ pc \in {"compare", "write"} => list # <<>>

CounterTypes ==
    /\ last_delta_update_count \in Values /\ cnt \in Values
    /\ ccv \in Values /\ tick_cnt \in Values
    /\ overflow_counter \in 0 .. Epochs - 1 /\ epoch \in 0 .. Epochs - 1
    /\ late \in 0 .. Latency /\ busy \in 0 .. Ticks

FlagTypes ==
    /\ next_timer_to_expire_is_power_manager \in BOOLEAN
    /\ sleep_on_isr_exit \in BOOLEAN
    /\ cc_on \in BOOLEAN /\ ien_comp \in BOOLEAN
    /\ if_of \in BOOLEAN /\ if_comp \in BOOLEAN /\ ticked \in BOOLEAN

\* Where the masked code is, and where it may go on to.
ModeTypes ==
    /\ pc \in {"idle", "compare", "write", "tick64", "comp", "expire", "callback"}
    /\ then \in {"idle", "comp", "callback"}
    /\ pc \in {"idle", "comp", "expire", "callback"} => then = "idle"
    /\ pc = "tick64" => then # "comp"

IrqTypes ==
    irq \in [cnt : Values, tot : Nat, fired : 0 .. 2, current : Timers \union {NoTimer},
             write : Values]

\* A timer whose start has passed its check is not in the list, and nobody else
\* is starting it: for callers that keep their duty.
Starts ==
    /\ Contended = {}
    /\ \A u \in starting : u \in Uses /\ ~Running(u.timer)
    /\ \A u, v \in starting : u.timer = v.timer => u = v

Types == ListTypes /\ CounterTypes /\ FlagTypes /\ ModeTypes /\ IrqTypes /\ Starts

\* Nothing runs at first.
LEMMA InitTypes == Contended = {} /\ SleepTimerInit => Types
<1> SUFFICES ASSUME Contended = {}, SleepTimerInit
             PROVE  Types
    OBVIOUS
<1>1. ListTypes
    <2>1. list = <<>> /\ delta = [h \in Timers |-> 0] /\ timeout_periodic = [h \in Timers |-> 0]
        BY DEF SleepTimerInit
    <2>2. Reach \in Nat
        BY ReachIs
    <2>3. list \in Seq(Timers) /\ Len(list) = 0 /\ IsInjective(list)
        BY <2>1 DEF IsInjective
    <2>4. delta \in [Timers -> 0 .. Reach]
        BY <2>1, <2>2
    <2>5. list \in Lists /\ delta \in Deltas
        BY <2>1, <2>3 DEF Lists, Deltas
    <2>6. Elapsed(list, delta, 0) = 0
        BY <2>5, ElapsedEquations
    <2>7. DeltaList(list, delta)
        BY <2>2, <2>3, <2>4, <2>6 DEF DeltaList
    <2>8. pc = "idle"
        BY DEF SleepTimerInit
    <2> QED
        BY <2>1, <2>7, <2>8 DEF ListTypes
<1>2. CounterTypes
    BY SmallValues, ReachIs DEF SleepTimerInit, CounterTypes
<1>3. FlagTypes
    BY DEF SleepTimerInit, FlagTypes
<1>4. ModeTypes
    BY DEF SleepTimerInit, ModeTypes
<1>5. IrqTypes
    BY SmallValues DEF SleepTimerInit, IrqTypes, NoIrq
<1>6. Starts
    BY DEF SleepTimerInit, Starts
<1> QED
    BY <1>1, <1>2, <1>3, <1>4, <1>5, <1>6 DEF Types

\* The actions, one by one; a timer that is inserted was not running.
LEMMA NextIs ==
    ASSUME Types, [SleepTimerNext]_vars
    PROVE  \/ \E h \in Timers, t \in Timeouts, q \in Timeouts \union {0} :
                  MayStart(h) /\ Create(h, t, q)
           \/ \E h \in Timers : Stop(h)
           \/ Update \/ ReadTick64 \/ ReturnTick64
           \/ SetCompareReads \/ SetCompareWrites
           \/ IrqEnter \/ IrqComp \/ Expire \/ Called \/ IrqDone
           \/ Tick
           \/ UNCHANGED timerVars
<1>1. ASSUME NEW u \in Uses, FinishStart(u)
      PROVE  \E h \in Timers, t \in Timeouts, q \in Timeouts \union {0} :
                 MayStart(h) /\ Create(h, t, q)
    <2>1. u.timer \in Timers /\ u.timeout \in Timeouts
        BY TimersAssumption DEF Timeouts
    <2>2. MayStart(u.timer)
        BY <1>1 DEF FinishStart, Types, Starts, MayStart
    <2>3. Create(u.timer, u.timeout, IF u.periodic THEN u.timeout ELSE 0)
        BY <1>1 DEF FinishStart
    <2> QED
        BY <2>1, <2>2, <2>3
<1>2. ASSUME NEW u \in Uses, Check(u)
      PROVE  UNCHANGED timerVars
    BY <1>2 DEF Check
<1>3. UNCHANGED vars => UNCHANGED timerVars
    BY DEF vars
<1> QED
    BY <1>1, <1>2, <1>3 DEF SleepTimerNext, Call, SetCompare, Irq

\* The list's new origin is a value of the counter.
LEMMA UpdatedLast ==
    ASSUME Types
    PROVE  Updated.last \in Values
<1>1. cnt \in Values
    BY DEF Types, CounterTypes
<1>2. CASE list = <<>>
    BY <1>1, <1>2 DEF Updated
<1>3. CASE list # <<>>
    <2>1. Head(list) \in Timers
        BY <1>3 DEF Types, ListTypes, DeltaList
    <2>2. delta[Head(list)] \in Values
        <3>1. delta[Head(list)] \in 0 .. Reach
            BY <2>1 DEF Types, ListTypes, DeltaList
        <3> QED
            BY <3>1, ReachIs DEF Values
    <2>3. Minus(cnt, delta[Head(list)]) \in Values
        BY <1>1, <2>2, MinusMinus
    <2> QED
        BY <1>1, <1>3, <2>3 DEF Updated
<1> QED
    BY <1>2, <1>3

\* The masked code goes where it may.
LEMMA ModeStep ==
    ASSUME Types, [SleepTimerNext]_vars
    PROVE  ModeTypes'
<1>1. ASSUME NEW h \in Timers, NEW t \in Timeouts, NEW q \in Timeouts \union {0}, Create(h, t, q)
      PROVE  ModeTypes'
    BY <1>1 DEF Types, Create, ModeTypes, CompareNext, CompareKept, CanCall
<1>2. ASSUME NEW h \in Timers, Stop(h)
      PROVE  ModeTypes'
    BY <1>2 DEF Types, Stop, ModeTypes, CompareNext, CompareOff, CompareKept, CanCall
<1>3. CASE Update
    BY <1>3 DEF Types, Update, ModeTypes, CanCall
<1>4. CASE ReadTick64
    BY <1>4 DEF Types, ReadTick64, ModeTypes, CanCall
<1>5. CASE ReturnTick64
    BY <1>5 DEF Types, ReturnTick64, ModeTypes
<1>6. CASE SetCompareReads
    BY <1>6 DEF Types, SetCompareReads, ModeTypes
<1>7. CASE SetCompareWrites
    BY <1>7 DEF Types, SetCompareWrites, ModeTypes
<1>8. CASE IrqEnter
    BY <1>8 DEF Types, IrqEnter, ModeTypes, CompareNext, CompareKept, Idle
<1>9. CASE IrqComp
    BY <1>9 DEF Types, IrqComp, ModeTypes
<1>10. CASE Expire
    BY <1>10 DEF Types, Expire, ModeTypes
<1>11. CASE Called
    BY <1>11 DEF Types, Called, ModeTypes
<1>12. CASE IrqDone
    BY <1>12 DEF Types, IrqDone, ModeTypes, CompareNext, CompareOff
<1>13. CASE Tick
    BY <1>13 DEF Types, Tick, ModeTypes, CanCall, Idle
<1>14. CASE UNCHANGED timerVars
    BY <1>14 DEF Types, timerVars, ModeTypes
<1> QED
    BY <1>1, <1>2, <1>3, <1>4, <1>5, <1>6, <1>7, <1>8,
       <1>9, <1>10, <1>11, <1>12, <1>13, <1>14, NextIs

\* Flags stay flags.
LEMMA FlagStep ==
    ASSUME Types, [SleepTimerNext]_vars
    PROVE  FlagTypes'
<1>1. ASSUME NEW h \in Timers, NEW t \in Timeouts, NEW q \in Timeouts \union {0}, Create(h, t, q)
      PROVE  FlagTypes'
    BY <1>1 DEF Types, Create, FlagTypes, CompareNext, CompareKept, flagVars, rtccVars, timeVars
<1>2. ASSUME NEW h \in Timers, Stop(h)
      PROVE  FlagTypes'
    BY <1>2 DEF Types, Stop, FlagTypes, CompareNext, CompareOff, CompareKept, flagVars, rtccVars, timeVars
<1>3. CASE Update
    BY <1>3 DEF Types, Update, FlagTypes, flagVars, rtccVars, timeVars
<1>4. CASE ReadTick64
    BY <1>4 DEF Types, ReadTick64, FlagTypes, flagVars, rtccVars, timeVars
<1>5. CASE ReturnTick64
    BY <1>5 DEF Types, ReturnTick64, FlagTypes, flagVars, rtccVars, timeVars
<1>6. CASE SetCompareReads
    BY <1>6 DEF Types, SetCompareReads, FlagTypes, flagVars, rtccVars, timeVars
<1>7. CASE SetCompareWrites
    <2>1. PmTimerIsNext \in BOOLEAN
        BY DEF PmTimerIsNext
    <2>2. (cnt = irq.write) \in BOOLEAN
        OBVIOUS
    <2> QED
        BY <1>7, <2>1, <2>2 DEF Types, FlagTypes, SetCompareWrites, timeVars
<1>8. CASE IrqEnter
    BY <1>8 DEF Types, IrqEnter, FlagTypes, CompareNext, CompareKept, flagVars, rtccVars
<1>9. CASE IrqComp
    BY <1>9 DEF Types, IrqComp, FlagTypes, flagVars, rtccVars, timeVars
<1>10. CASE Expire
    BY <1>10 DEF Types, Expire, FlagTypes, flagVars, rtccVars, timeVars
<1>11. CASE Called
    BY <1>11 DEF Types, Called, FlagTypes, flagVars, rtccVars, timeVars
<1>12. CASE IrqDone
    <2>1. (irq.fired = 1 /\ irq.current = PmTimer) \in BOOLEAN
        OBVIOUS
    <2> QED
        BY <1>12, <2>1 DEF Types, FlagTypes, IrqDone, CompareNext, CompareOff, timeVars
<1>13. CASE Tick
    <2>1. (cnt' = 0) \in BOOLEAN /\ (cc_on /\ cnt' = ccv) \in BOOLEAN /\ (~CanCall) \in BOOLEAN
        BY DEF CanCall
    <2> QED
        BY <1>13, <2>1 DEF Types, FlagTypes, Tick, rtccVars, flagVars
<1>14. CASE UNCHANGED timerVars
    BY <1>14 DEF Types, timerVars, FlagTypes, flagVars, rtccVars, timeVars
<1> QED
    BY <1>1, <1>2, <1>3, <1>4, <1>5, <1>6, <1>7, <1>8,
       <1>9, <1>10, <1>11, <1>12, <1>13, <1>14, NextIs

\* update_first_timer_delta leaves a delta list.  The head, unless it is
\* overdue, is as far from now as before.
LEMMA UpdatedIs ==
    ASSUME Types
    PROVE  /\ DeltaList(list, Updated.delta)
           /\ list = <<>> => Updated.delta = delta /\ Updated.last = cnt
           /\ list # <<>> =>
                 LET head == delta[Head(list)]
                 IN /\ head \in 0 .. Reach
                    /\ Updated.delta[Head(list)]
                         = IF head >= SinceUpdate THEN head - SinceUpdate ELSE 0
                    /\ Minus(cnt, Updated.last) = IF head >= SinceUpdate THEN 0 ELSE head
<1>1. cnt \in Values /\ last_delta_update_count \in Values /\ DeltaList(list, delta)
    BY DEF Types, CounterTypes, ListTypes
<1>2. SinceUpdate \in Values
    BY <1>1, MinusIs DEF SinceUpdate
<1>3. CASE list = <<>>
    BY <1>1, <1>3 DEF Updated
<1>4. CASE list # <<>>
    <2> DEFINE h == Head(list)
               c == IF delta[h] >= SinceUpdate THEN SinceUpdate ELSE delta[h]
    <2>1. /\ list \in Seq(Timers) /\ 1 \in 1 .. Len(list) /\ h = list[1] /\ h \in Timers
          /\ delta \in [Timers -> 0 .. Reach]
        BY <1>1, <1>4 DEF DeltaList
    <2>2. delta[h] \in 0 .. Reach /\ delta[h] \in Values
        BY <2>1, ReachIs DEF Values
    <2> HIDE DEF h
    <2>3. c \in 0 .. delta[list[1]] /\ c \in Nat
        BY <1>2, <2>1, <2>2, ReachIs DEF Values
    <2>4. Updated.delta = [delta EXCEPT ![list[1]] = @ - c]
        <3>1. CASE delta[h] >= SinceUpdate
            BY <1>4, <2>1, <3>1 DEF Updated, h
        <3>2. CASE ~ (delta[h] >= SinceUpdate)
            <4>1. Updated.delta = [delta EXCEPT ![h] = 0]
                BY <1>4, <3>2 DEF Updated, h
            <4>2. delta[h] - c = 0
                BY <2>2, <3>2, ReachIs
            <4> QED
                BY <2>1, <4>1, <4>2
        <3> QED
            BY <3>1, <3>2
    <2> HIDE DEF c
    <2>5. DeltaList(list, Updated.delta)
        <3>1. Lowers(list, delta, 1, c, [delta EXCEPT ![list[1]] = @ - c])
            BY <1>1, <2>1, <2>3, LowerTimes
        <3> QED
            BY <2>4, <3>1 DEF Lowers
    <2>6. Updated.delta[h] = delta[h] - c
        BY <2>1, <2>4
    <2>7. Updated.delta[h] = IF delta[h] >= SinceUpdate THEN delta[h] - SinceUpdate ELSE 0
        BY <2>2, <2>6, ReachIs DEF c
    <2>8. Minus(cnt, Updated.last) = IF delta[h] >= SinceUpdate THEN 0 ELSE delta[h]
        <3>1. CASE delta[h] >= SinceUpdate
            <4>1. Updated.last = cnt
                BY <1>4, <3>1 DEF Updated, h
            <4> QED
                BY <1>1, <3>1, <4>1, MinusSelf
        <3>2. CASE ~ (delta[h] >= SinceUpdate)
            <4>1. Updated.last = Minus(cnt, delta[h])
                BY <1>4, <3>2 DEF Updated, h
            <4>2. Minus(cnt, Minus(cnt, delta[h])) = delta[h]
                BY <1>1, <2>2, MinusMinus
            <4> QED
                BY <3>2, <4>1, <4>2
        <3> QED
            BY <3>1, <3>2
    <2> QED
        BY <1>4, <2>2, <2>5, <2>7, <2>8 DEF h
<1> QED
    BY <1>3, <1>4

\* The interrupt's loop finds a timer if one is due.
LEMMA ChosenIs ==
    ASSUME Types, Due # {}
    PROVE  \E i \in Due : Chosen = list[i]
<1> DEFINE Best(i) == \A j \in Due : \/ priority[list[i]] < priority[list[j]]
                                     \/ (priority[list[i]] = priority[list[j]] /\ i <= j)
           Ranks == {priority[list[i]] : i \in Due}
<1>1. Due \subseteq 1 .. Len(list) /\ list \in Seq(Timers) /\ Due \subseteq Nat
    BY DEF Due, Types, ListTypes, DeltaList
<1>2. \A i \in Due : priority[list[i]] \in Nat
    BY <1>1, TimersAssumption
<1>3. PICK x \in Ranks : \A y \in Ranks : x <= y
    <2>1. Ranks \in SUBSET Nat /\ Ranks # {}
        BY <1>2
    <2> HIDE DEF Ranks
    <2> QED
        BY <2>1, LeastNat
<1> DEFINE Firsts == {i \in Due : priority[list[i]] = x}
<1>4. PICK i \in Firsts : \A j \in Firsts : i <= j
    <2>1. Firsts \in SUBSET Nat /\ Firsts # {}
        BY <1>1
    <2> HIDE DEF Firsts
    <2> QED
        BY <2>1, LeastNat
<1>5. i \in Due /\ Best(i)
    <2>1. i \in Due /\ priority[list[i]] = x
        BY <1>4
    <2>2. ASSUME NEW j \in Due
          PROVE  x < priority[list[j]] \/ (x = priority[list[j]] /\ i <= j)
        <3>1. x <= priority[list[j]] /\ priority[list[j]] \in Nat /\ x \in Nat
            BY <1>2, <1>3
        <3>2. x = priority[list[j]] => i <= j
            BY <1>4
        <3> QED
            BY <3>1, <3>2
    <2> QED
        BY <2>1, <2>2
<1>6. Chosen = list[CHOOSE k \in Due : Best(k)]
    BY DEF Chosen
<1> HIDE DEF Best
<1>7. (CHOOSE k \in Due : Best(k)) \in Due
    BY <1>5
<1> QED
    BY <1>6, <1>7

\* What Chosen has left of irq.tot when it leaves the list.
LEMMA ChosenPays ==
    ASSUME Types, Due # {}
    PROVE  Chosen \in Range(list) /\ Chosen \in Timers /\ delta[Chosen] \in 0 .. irq.tot
<1>1. PICK i \in Due : Chosen = list[i]
    BY ChosenIs
<1>2. DeltaList(list, delta) /\ irq.tot \in Nat
    BY DEF Types, ListTypes, IrqTypes
<1>3. /\ i \in 1 .. Len(list) /\ list \in Seq(Timers)
      /\ delta \in [Timers -> 0 .. Reach]
      /\ Elapsed(list, delta, i) <= irq.tot
    BY <1>2 DEF Due, DeltaList
<1>4. list[i] \in Timers /\ list[i] \in Range(list) /\ delta[list[i]] \in 0 .. Reach
    BY <1>3 DEF Range
<1>5. Elapsed(list, delta, i) = Elapsed(list, delta, i - 1) + delta[list[i]]
    BY <1>2, <1>3, DeltaListTypes, ElapsedEquations
<1>6. Elapsed(list, delta, i - 1) \in 0 .. Reach
    <2>1. i - 1 \in 0 .. Len(list)
        BY <1>3
    <2> QED
        BY <1>2, <2>1, DeltaListTypes
<1> QED
    BY <1>1, <1>2, <1>3, <1>4, <1>5, <1>6, ReachIs

\* The counter, its readings and the bounds on them.
LEMMA CounterStep ==
    ASSUME Types, [SleepTimerNext]_vars
    PROVE  CounterTypes'
<1>1. ASSUME NEW h \in Timers, NEW t \in Timeouts, NEW q \in Timeouts \union {0}, Create(h, t, q)
      PROVE  CounterTypes'
    <2>1. ccv' = ccv
        BY <1>1 DEF Create, CompareNext, CompareKept, rtccVars
    <2> QED
        BY <1>1, <2>1, UpdatedLast DEF Types, Create, CounterTypes, timeVars
<1>2. ASSUME NEW h \in Timers, Stop(h)
      PROVE  CounterTypes'
    <2>1. ccv' = ccv
        BY <1>2 DEF Stop, CompareNext, CompareOff, CompareKept, rtccVars
    <2> QED
        BY <1>2, <2>1, UpdatedLast DEF Types, Stop, CounterTypes, timeVars
<1>3. CASE Update
    BY <1>3, UpdatedLast DEF Types, Update, CounterTypes, rtccVars, timeVars
<1>4. CASE ReadTick64
    BY <1>4 DEF Types, ReadTick64, CounterTypes, listVars, rtccVars, flagVars, timeVars
<1>5. CASE ReturnTick64
    <2>1. 0 \in Values /\ 0 \in 0 .. Ticks
        BY SmallValues, ReachIs
    <2> QED
        BY <1>5, <2>1 DEF Types, ReturnTick64, CounterTypes, listVars, rtccVars, timeVars
<1>6. CASE SetCompareReads
    BY <1>6 DEF Types, SetCompareReads, CounterTypes, listVars, rtccVars, flagVars, timeVars
<1>7. CASE SetCompareWrites
    <2>1. 0 \in 0 .. Ticks /\ irq.write \in Values
        BY ReachIs DEF Types, IrqTypes
    <2> QED
        BY <1>7, <2>1 DEF Types, SetCompareWrites, CounterTypes, listVars, rtccVars, timeVars
<1>8. CASE IrqEnter
    <2>1. 0 \in 0 .. Latency
        BY ReachIs
    <2>2. (overflow_counter + 1) % Epochs \in 0 .. Epochs - 1
        BY ReachIs DEF Types, CounterTypes
    <2> QED
        BY <1>8, <2>1, <2>2, UpdatedLast DEF Types, IrqEnter, CounterTypes, CompareNext, CompareKept, rtccVars
<1>9. CASE IrqComp
    BY <1>9 DEF Types, IrqComp, CounterTypes, listVars, rtccVars, flagVars, timeVars
<1>10. CASE Expire
    <2>1. irq.cnt \in Values
        BY DEF Types, IrqTypes
    <2> QED
        BY <1>10, <2>1 DEF Types, Expire, CounterTypes, rtccVars, timeVars
<1>11. CASE Called
    BY <1>11 DEF Types, Called, CounterTypes, listVars, rtccVars, flagVars, timeVars
<1>12. CASE IrqDone
    <2>1. irq.cnt \in Values /\ 0 \in 0 .. Ticks
        BY ReachIs DEF Types, IrqTypes
    <2> QED
        BY <1>12, <2>1 DEF Types, IrqDone, CounterTypes, CompareNext, CompareOff, timeVars
<1>13. CASE Tick
    <2>1. cnt' \in Values
        BY <1>13, PlusIs, SmallValues DEF Tick, Types, CounterTypes
    <2>2. epoch' \in 0 .. Epochs - 1
        <3>1. epoch \in 0 .. Epochs - 1 /\ (epoch + 1) % Epochs \in 0 .. Epochs - 1
            BY ReachIs DEF Types, CounterTypes
        <3> QED
            BY <1>13, <3>1 DEF Tick
    <2>3. late' \in 0 .. Latency
        <3>1. late \in 0 .. Latency /\ 0 \in 0 .. Latency
            BY ReachIs DEF Types, CounterTypes
        <3>2. late < Latency => late + 1 \in 0 .. Latency
            BY <3>1, ReachIs
        <3>3. Pending => late < Latency
            BY <1>13 DEF Tick
        <3>4. late' = IF Pending THEN late + 1 ELSE 0
            BY <1>13 DEF Tick
        <3> QED
            BY <3>1, <3>2, <3>3, <3>4
    <2>4. busy' \in 0 .. Ticks
        <3>1. busy \in 0 .. Ticks /\ 0 \in 0 .. Ticks
            BY ReachIs DEF Types, CounterTypes
        <3>2. busy < Ticks => busy + 1 \in 0 .. Ticks
            BY <3>1, ReachIs
        <3>3. ~Idle => busy < Ticks
            BY <1>13 DEF Tick
        <3>4. busy' = IF Idle THEN 0 ELSE busy + 1
            BY <1>13 DEF Tick
        <3> QED
            BY <3>1, <3>2, <3>3, <3>4
    <2> QED
        BY <1>13, <2>1, <2>2, <2>3, <2>4 DEF Types, Tick, CounterTypes, listVars, rtccVars
<1>14. CASE UNCHANGED timerVars
    BY <1>14 DEF Types, timerVars, CounterTypes, listVars, rtccVars, flagVars, timeVars
<1> QED
    BY <1>1, <1>2, <1>3, <1>4, <1>5, <1>6, <1>7, <1>8,
       <1>9, <1>10, <1>11, <1>12, <1>13, <1>14, NextIs

\* The interrupt's locals: irq.tot never runs below the deltas it has paid for.
LEMMA IrqStep ==
    ASSUME Types, [SleepTimerNext]_vars
    PROVE  IrqTypes'
<1>1. ASSUME NEW h \in Timers, NEW t \in Timeouts, NEW q \in Timeouts \union {0}, Create(h, t, q)
      PROVE  IrqTypes'
    BY <1>1 DEF Types, Create, IrqTypes
<1>2. ASSUME NEW h \in Timers, Stop(h)
      PROVE  IrqTypes'
    BY <1>2 DEF Types, Stop, IrqTypes
<1>3. CASE Update
    BY <1>3 DEF Types, Update, IrqTypes
<1>4. CASE ReadTick64
    BY <1>4 DEF Types, ReadTick64, IrqTypes
<1>5. CASE ReturnTick64
    BY <1>5 DEF Types, ReturnTick64, IrqTypes
<1>6. CASE SetCompareReads
    <2>1. (IF MatchIsNear THEN ccv ELSE CompareValue) \in Values
        <3>1. ccv \in Values
            BY DEF Types, CounterTypes
        <3>2. CompareValue \in Values
            <4>1. Width - 1 \in Nat \ {0} /\ 0 .. (Width - 1) - 1 \subseteq Values
                BY ReachIs DEF Values
            <4> DEFINE value == (last_delta_update_count + delta[Head(list)]) % Width
                       x == IF Minus(value, cnt) < MIN_DIFF THEN (cnt + MIN_DIFF) % Width ELSE value
            <4>2. CompareValue = x % (Width - 1)
                BY DEF CompareValue
            <4>3. x \in Int
                <5>1. (cnt + MIN_DIFF) % Width \in Int
                    BY ReachIs DEF Types, CounterTypes, Values, MIN_DIFF
                <5>2. value \in Int
                    <6>1. Head(list) \in Timers
                        BY <1>6 DEF SetCompareReads, Types, ListTypes, DeltaList
                    <6>2. delta[Head(list)] \in Int
                        BY <6>1, ReachIs DEF Types, ListTypes, DeltaList
                    <6> QED
                        BY <6>2, ReachIs DEF Types, CounterTypes, Values
                <5> QED
                    BY <5>1, <5>2
            <4> HIDE DEF x
            <4>4. x % (Width - 1) \in 0 .. (Width - 1) - 1
                <5>1. \A k \in Nat \ {0}, i \in Int : i % k \in 0 .. k - 1
                    OBVIOUS
                <5> QED
                    BY <4>1, <4>3, <5>1, Zenon
            <4> QED
                BY <4>1, <4>2, <4>4
        <3> QED
            BY <3>1, <3>2
    <2> QED
        BY <1>6, <2>1 DEF Types, SetCompareReads, IrqTypes
<1>7. CASE SetCompareWrites
    BY <1>7, SmallValues DEF Types, SetCompareWrites, IrqTypes
<1>8. CASE IrqEnter
    BY <1>8 DEF Types, IrqEnter, IrqTypes
<1>9. CASE IrqComp
    <2>1. cnt \in Values /\ SinceUpdate \in Nat /\ 0 \in Values
        BY MinusIs, SmallValues DEF Types, CounterTypes, SinceUpdate, Values
    <2>2. irq' = [cnt |-> cnt, tot |-> SinceUpdate, fired |-> 0, current |-> NoTimer, write |-> 0]
        BY <1>9 DEF IrqComp, NoIrq
    <2> QED
        BY <2>1, <2>2 DEF IrqTypes
<1>10. CASE Expire
    <2>1. delta[Chosen] \in 0 .. irq.tot /\ Chosen \in Timers /\ irq.tot \in Nat
        BY <1>10, ChosenPays DEF Expire, Types, IrqTypes
    <2>2. irq.tot - delta[Chosen] \in Nat
        BY <2>1
    <2>3. irq' = [irq EXCEPT !.tot = @ - delta[Chosen], !.current = Chosen]
        BY <1>10 DEF Expire
    <2> QED
        BY <2>1, <2>2, <2>3 DEF Types, IrqTypes
<1>11. CASE Called
    <2>1. /\ cnt \in Values /\ irq.cnt \in Values /\ irq.tot \in Nat /\ irq.fired \in 0 .. 2
        BY DEF Types, CounterTypes, IrqTypes
    <2>2. irq.tot + Minus(cnt, irq.cnt) \in Nat
        <3>1. Minus(cnt, irq.cnt) \in Nat
            BY <2>1, MinusIs DEF Values
        <3> QED
            BY <2>1, <3>1
    <2>3. (IF irq.fired = 2 THEN 2 ELSE irq.fired + 1) \in 0 .. 2
        BY <2>1
    <2> QED
        BY <1>11, <2>1, <2>2, <2>3 DEF Called, Types, IrqTypes
<1>12. CASE IrqDone
    BY <1>12, SmallValues DEF Types, IrqDone, IrqTypes, NoIrq
<1>13. CASE Tick
    BY <1>13 DEF Types, Tick, IrqTypes
<1>14. CASE UNCHANGED timerVars
    BY <1>14 DEF Types, timerVars, IrqTypes
<1> QED
    BY <1>1, <1>2, <1>3, <1>4, <1>5, <1>6, <1>7, <1>8,
       <1>9, <1>10, <1>11, <1>12, <1>13, <1>14, NextIs

\* The interrupt's loop ends when the head's delta is not used up.
LEMMA DoneIs ==
    ASSUME Types, Due = {}, list # <<>>
    PROVE  /\ irq.tot < delta[Head(list)] /\ delta[Head(list)] \in 0 .. Reach
           /\ DeltaList(list, Charged(delta))
           /\ Charged(delta)[Head(list)] = delta[Head(list)] - irq.tot
<1>1. DeltaList(list, delta) /\ irq.tot \in Nat
    BY DEF Types, ListTypes, IrqTypes
<1>2. /\ 1 \in 1 .. Len(list) /\ Head(list) = list[1] /\ Head(list) \in Timers
      /\ delta \in [Timers -> 0 .. Reach]
    BY <1>1 DEF DeltaList
<1>3. Elapsed(list, delta, 1) = delta[Head(list)]
    BY <1>1, DeltaListTypes, FirstElapsed
<1>4. delta[Head(list)] \in 0 .. Reach
    BY <1>2
<1>5. ~ (Elapsed(list, delta, 1) <= irq.tot)
    <2>1. DOMAIN list = 1 .. Len(list)
        BY <1>1 DEF DeltaList
    <2> QED
        BY <1>2, <2>1 DEF Due
<1>6. irq.tot < delta[Head(list)]
    BY <1>1, <1>3, <1>4, <1>5, ReachIs
<1>7. irq.tot \in 0 .. delta[list[1]]
    BY <1>1, <1>2, <1>4, <1>6, ReachIs
<1>8. Lowers(list, delta, 1, irq.tot, Charged(delta))
    <2>1. Charged(delta) = [delta EXCEPT ![list[1]] = @ - irq.tot]
        BY <1>2 DEF Charged
    <2>2. Lowers(list, delta, 1, irq.tot, [delta EXCEPT ![list[1]] = @ - irq.tot])
        BY <1>1, <1>2, <1>7, LowerTimes
    <2> QED
        BY <2>1, <2>2
<1>9. Charged(delta)[Head(list)] = delta[Head(list)] - irq.tot
    BY <1>2 DEF Charged
<1> QED
    BY <1>4, <1>6, <1>8, <1>9 DEF Lowers

\* An expiry takes a timer out of a delta list, or puts it back into one.
LEMMA ExpireKeeps ==
    ASSUME Types, Expire
    PROVE  DeltaList(list', delta') /\ Range(list') \subseteq Range(list)
<1> DEFINE h == Chosen
           paid == [delta EXCEPT ![h] = 0]
           left == Removed(list, paid, h)
           again == IF timeout_periodic[h] # 0
                    THEN Insert(left.list, left.delta, h, timeout_periodic[h])
                    ELSE left
<1>1. /\ h \in Range(list) /\ h \in Timers /\ DeltaList(list, delta)
      /\ delta[h] \in 0 .. Reach
    BY ChosenPays DEF Expire, Types, ListTypes, DeltaList
<1>2. list' = again.list /\ delta' = again.delta
    BY DEF Expire
<1> HIDE DEF h
<1>3. timeout_periodic[h] # 0 => timeout_periodic[h] \in 0 .. Reach
    <2>1. timeout_periodic[h] \in Timeouts \union {0}
        BY <1>1 DEF Types, ListTypes
    <2>2. timeout_periodic[h] = 0 \/ timeout_periodic[h] \in 1 .. Reach
        BY <2>1, ReachIs, Zenon
    <2>3. \A x \in 1 .. Reach : x \in 0 .. Reach
        BY ReachIs
    <2> QED
        BY <2>2, <2>3, Zenon
<1>4. DeltaList(list, paid)
    <2>1. PICK i \in 1 .. Len(list) : list[i] = h
        BY <1>1 DEF Range, DeltaList
    <2>2. delta[h] \in 0 .. delta[list[i]] /\ delta[h] - delta[h] = 0
        BY <1>1, <2>1, ReachIs
    <2>3. [delta EXCEPT ![list[i]] = @ - delta[h]] = [delta EXCEPT ![h] = 0]
        BY <2>1, <2>2
    <2>4. Lowers(list, delta, i, delta[h], [delta EXCEPT ![list[i]] = @ - delta[h]])
        BY <1>1, <2>1, <2>2, LowerTimes
    <2> QED
        BY <2>3, <2>4 DEF Lowers
<1> HIDE DEF paid
<1>5. DeltaList(left.list, left.delta) /\ Range(left.list) = Range(list) \ {h}
    BY <1>1, <1>4, RemoveKeeps
<1> HIDE DEF left
<1>6. timeout_periodic[h] # 0
        => LET n == Insert(left.list, left.delta, h, timeout_periodic[h])
           IN DeltaList(n.list, n.delta) /\ Range(n.list) = Range(left.list) \union {h}
    <2>1. SUFFICES ASSUME timeout_periodic[h] # 0
                   PROVE  LET n == Insert(left.list, left.delta, h, timeout_periodic[h])
                          IN DeltaList(n.list, n.delta) /\ Range(n.list) = Range(left.list) \union {h}
        OBVIOUS
    <2>2. h \notin Range(left.list) /\ timeout_periodic[h] \in 0 .. Reach
        BY <1>3, <1>5, <2>1
    <2> QED
        BY <1>1, <1>5, <2>2, InsertKeeps
<1>7. Range(left.list) \union {h} = Range(list)
    BY <1>1, <1>5
<1>8. CASE timeout_periodic[h] # 0
    BY <1>2, <1>6, <1>7, <1>8
<1>9. CASE timeout_periodic[h] = 0
    BY <1>2, <1>5, <1>9
<1> QED
    BY <1>8, <1>9

\* Every operation leaves a delta list.
LEMMA DeltaListStep ==
    ASSUME Types, [SleepTimerNext]_vars
    PROVE  DeltaList(list', delta')
<1>1. ASSUME NEW h \in Timers, NEW t \in Timeouts, NEW q \in Timeouts \union {0},
             MayStart(h), Create(h, t, q)
      PROVE  DeltaList(list', delta')
    <2>1. DeltaList(list, Updated.delta)
        BY UpdatedIs
    <2>2. h \notin Range(list)
        BY <1>1 DEF MayStart, Running, Range
    <2>3. t \in 0 .. Reach
        BY ReachIs
    <2>4. /\ list' = Insert(list, Updated.delta, h, t).list
          /\ delta' = Insert(list, Updated.delta, h, t).delta
        BY <1>1 DEF Create
    <2> QED
        BY <2>1, <2>2, <2>3, <2>4, InsertKeeps
<1>2. ASSUME NEW h \in Timers, Stop(h)
      PROVE  DeltaList(list', delta')
    <2> DEFINE left == Removed(list, Updated.delta, h)
    <2>1. DeltaList(list, Updated.delta)
        BY UpdatedIs
    <2>2. h \in Range(list)
        BY <1>2 DEF Stop, Running, Range
    <2>3. DeltaList(left.list, left.delta) /\ Range(left.list) = Range(list) \ {h}
        BY <2>1, <2>2, RemoveKeeps
    <2>4. list' = left.list /\ delta' = [left.delta EXCEPT ![h] = 0]
        BY <1>2 DEF Stop
    <2> HIDE DEF left
    <2>5. delta' \in [Timers -> 0 .. Reach] /\ \A k \in Range(left.list) : delta'[k] = left.delta[k]
        BY <2>3, <2>4, ReachIs DEF DeltaList
    <2> QED
        BY <2>3, <2>4, <2>5, OffList
<1>3. CASE Update
    BY <1>3, UpdatedIs DEF Update
<1>4. CASE ReadTick64
    BY <1>4 DEF Types, ListTypes, ReadTick64, listVars
<1>5. CASE ReturnTick64
    BY <1>5 DEF Types, ListTypes, ReturnTick64, listVars
<1>6. CASE SetCompareReads
    BY <1>6 DEF Types, ListTypes, SetCompareReads, listVars
<1>7. CASE SetCompareWrites
    BY <1>7 DEF Types, ListTypes, SetCompareWrites, listVars
<1>8. CASE IrqEnter
    BY <1>8, UpdatedIs DEF IrqEnter, Types, ListTypes
<1>9. CASE IrqComp
    BY <1>9 DEF Types, ListTypes, IrqComp, listVars
<1>10. CASE Expire
    BY <1>10, ExpireKeeps
<1>11. CASE Called
    BY <1>11 DEF Types, ListTypes, Called, listVars
<1>12. CASE IrqDone
    BY <1>12, DoneIs DEF IrqDone, Types, ListTypes
<1>13. CASE Tick
    BY <1>13 DEF Types, ListTypes, Tick, listVars
<1>14. CASE UNCHANGED timerVars
    BY <1>14 DEF Types, ListTypes, timerVars, listVars
<1> QED
    BY <1>1, <1>2, <1>3, <1>4, <1>5, <1>6, <1>7, <1>8,
       <1>9, <1>10, <1>11, <1>12, <1>13, <1>14, NextIs

\* The list, the periods, and a timer to set the comparator for.
LEMMA ListStep ==
    ASSUME Types, [SleepTimerNext]_vars
    PROVE  ListTypes'
<1>1. DeltaList(list', delta')
    BY DeltaListStep
<1>2. timeout_periodic' \in [Timers -> Timeouts \union {0}]
    <2>1. ASSUME NEW h \in Timers, NEW t \in Timeouts, NEW q \in Timeouts \union {0}, Create(h, t, q)
          PROVE  timeout_periodic' \in [Timers -> Timeouts \union {0}]
        BY <2>1 DEF Create, Types, ListTypes
    <2>2. ASSUME NEW h \in Timers, Stop(h)
          PROVE  timeout_periodic' \in [Timers -> Timeouts \union {0}]
        BY <2>2 DEF Stop, Types, ListTypes
    <2>3. ASSUME \/ Update \/ ReadTick64 \/ ReturnTick64 \/ SetCompareReads \/ SetCompareWrites
                 \/ IrqEnter \/ IrqComp \/ Expire \/ Called \/ IrqDone \/ Tick \/ UNCHANGED timerVars
          PROVE  timeout_periodic' = timeout_periodic
        BY <2>3 DEF Update, ReadTick64, ReturnTick64, SetCompareReads, SetCompareWrites,
                    IrqEnter, IrqComp, Expire, Called, IrqDone, Tick, timerVars, listVars
    <2> QED
        BY <2>1, <2>2, <2>3, NextIs DEF Types, ListTypes
<1>3. (pc \in {"compare", "write"} => list # <<>>)'
    <2>1. ASSUME NEW h \in Timers, NEW t \in Timeouts, NEW q \in Timeouts \union {0},
                 MayStart(h), Create(h, t, q)
          PROVE  list' # <<>>
        <3>1. DeltaList(list, Updated.delta) /\ h \notin Range(list) /\ t \in 0 .. Reach
            BY <2>1, UpdatedIs, ReachIs DEF MayStart, Running, Range
        <3>2. list' = Insert(list, Updated.delta, h, t).list
            BY <2>1 DEF Create
        <3> QED
            BY <3>1, <3>2, InsertKeeps
    <2>2. ASSUME NEW h \in Timers, Stop(h)
          PROVE  pc' \in {"compare", "write"} => list' # <<>>
        BY <2>2 DEF Stop, CompareOff, CompareNext, CompareKept, CanCall
    <2>3. ASSUME Update \/ ReadTick64 \/ ReturnTick64
          PROVE  pc' \notin {"compare", "write"}
        BY <2>3 DEF Update, ReadTick64, ReturnTick64, CanCall, Types, ModeTypes
    <2>4. ASSUME SetCompareReads \/ SetCompareWrites \/ Tick \/ UNCHANGED timerVars
          PROVE  (pc \in {"compare", "write"} => list # <<>>)'
        BY <2>4 DEF SetCompareReads, SetCompareWrites, Tick, timerVars, listVars,
                    Types, ListTypes, ModeTypes
    <2>5. ASSUME IrqComp \/ Expire \/ Called
          PROVE  pc' \notin {"compare", "write"}
        BY <2>5 DEF IrqComp, Expire, Called
    <2>6. ASSUME IrqEnter
          PROVE  (pc \in {"compare", "write"} => list # <<>>)'
        BY <2>6 DEF IrqEnter, CompareNext, CompareKept
    <2>7. ASSUME IrqDone
          PROVE  (pc \in {"compare", "write"} => list # <<>>)'
        BY <2>7 DEF IrqDone, CompareNext, CompareOff
    <2> QED
        BY <2>1, <2>2, <2>3, <2>4, <2>5, <2>6, <2>7, NextIs
<1> QED
    BY <1>1, <1>2, <1>3 DEF ListTypes

\* A timer enters the list only by the end of its own start: a stop and an
\* expiry put none in, and a restart begins where the timer is out of it.
LEMMA StartStep ==
    ASSUME Types, [SleepTimerNext]_vars
    PROVE  Starts'
<1>1. /\ Contended = {}
      /\ \A u \in starting : u \in Uses /\ u.timer \notin Range(list)
      /\ \A u, v \in starting : u.timer = v.timer => u = v
    BY DEF Types, Starts, Running, Range
<1>2. ASSUME starting' = starting, Range(list') \subseteq Range(list)
      PROVE  Starts'
    <2>1. \A u \in starting' : u \in Uses /\ u.timer \notin Range(list')
        BY <1>1, <1>2
    <2> QED
        BY <1>1, <1>2, <2>1 DEF Starts, Running, Range
<1>3. ASSUME NEW w \in Uses, w.timer \notin Range(list'), Range(list') \subseteq Range(list),
             \A v \in starting : v.timer # w.timer, starting' = starting \union {w}
      PROVE  Starts'
    <2>1. \A u \in starting' : u \in Uses /\ u.timer \notin Range(list')
        BY <1>1, <1>3
    <2>2. \A u, v \in starting' : u.timer = v.timer => u = v
        BY <1>1, <1>3
    <2> QED
        BY <1>1, <2>1, <2>2 DEF Starts, Running, Range
<1>4. ASSUME NEW h, Restarts(h), h \notin Range(list'), Range(list') \subseteq Range(list)
      PROVE  Starts'
    <2>1. PICK w \in Uses : w.timer = h /\ starting' = starting \union {w}
        BY <1>4 DEF Restarts
    <2>2. \A v \in starting : v.timer # w.timer
        BY <1>1, <1>4, <2>1 DEF Restarts, OneStarter
    <2> QED
        BY <1>3, <1>4, <2>1, <2>2
<1>5. ASSUME NEW u \in Uses, Check(u)
      PROVE  Starts'
    <2>1. /\ list' = list /\ u.timer \notin Range(list)
          /\ starting' = starting \union {u}
        BY <1>5 DEF Check, MayStart, Running, Range, timerVars, listVars
    <2>2. \A v \in starting : v.timer # u.timer
        BY <1>1, <1>5 DEF Check, OneStarter
    <2> QED
        BY <1>3, <2>1, <2>2
<1>6. ASSUME NEW u \in Uses, FinishStart(u)
      PROVE  Starts'
    <2>1. /\ u \in starting /\ starting' = starting \ {u}
          /\ list' = Insert(list, Updated.delta, u.timer, u.timeout).list
        BY <1>6 DEF FinishStart, Create
    <2>2. DeltaList(list, Updated.delta) /\ u.timer \in Timers /\ u.timeout \in 0 .. Reach
        <3>1. u.timeout \in 1 .. Reach
            BY ReachIs DEF Timeouts
        <3> QED
            BY <3>1, UpdatedIs, TimersAssumption, ReachIs
    <2>3. u.timer \notin Range(list)
        BY <1>1, <2>1
    <2>4. Range(list') = Range(list) \union {u.timer}
        BY <2>1, <2>2, <2>3, InsertKeeps
    <2>5. \A v \in starting' : v \in Uses /\ v.timer \notin Range(list')
        BY <1>1, <2>1, <2>4
    <2> QED
        BY <1>1, <2>1, <2>5 DEF Starts, Running, Range
<1>7. ASSUME NEW h \in Timers, Stop(h)
      PROVE  Range(list') = Range(list) \ {h}
    <2>1. DeltaList(list, Updated.delta) /\ h \in Range(list)
        BY <1>7, UpdatedIs DEF Stop, Running, Range
    <2>2. list' = Removed(list, Updated.delta, h).list
        BY <1>7 DEF Stop
    <2> QED
        BY <2>1, <2>2, RemoveKeeps
<1>8. ASSUME NEW h \in Timers, Stop(h), Restarts(h) \/ UNCHANGED starting
      PROVE  Starts'
    BY <1>2, <1>4, <1>7, <1>8
<1>9. ASSUME Update, (\E h \in Timers : ~Running(h) /\ Restarts(h)) \/ UNCHANGED starting
      PROVE  Starts'
    <2>1. list' = list
        BY <1>9 DEF Update
    <2>2. CASE UNCHANGED starting
        BY <1>2, <2>1, <2>2
    <2>3. ASSUME NEW h \in Timers, ~Running(h), Restarts(h)
          PROVE  Starts'
        <3>1. h \notin Range(list)
            BY <2>3 DEF Running, Range
        <3> QED
            BY <1>4, <2>1, <2>3, <3>1
    <2> QED
        BY <1>9, <2>2, <2>3
<1>10. CASE Expire /\ UNCHANGED starting
    BY <1>2, <1>10, ExpireKeeps
<1>11. ASSUME \/ ReadTick64 \/ ReturnTick64 \/ SetCompareReads \/ SetCompareWrites
              \/ IrqEnter \/ IrqComp \/ Called \/ IrqDone \/ Tick \/ UNCHANGED vars,
              UNCHANGED starting
       PROVE  Starts'
    <2>1. list' = list
        BY <1>11 DEF ReadTick64, ReturnTick64, SetCompareReads, SetCompareWrites,
                     IrqEnter, IrqComp, Called, IrqDone, Tick, vars, timerVars, listVars
    <2> QED
        BY <1>2, <1>11, <2>1
<1>12. Tick => UNCHANGED starting
    BY DEF Tick
<1>13. UNCHANGED vars => UNCHANGED starting
    BY DEF vars
<1> QED
    BY <1>5, <1>6, <1>8, <1>9, <1>10, <1>11, <1>12, <1>13
       DEF SleepTimerNext, Call, SetCompare, Irq

\* So every step keeps the types,
LEMMA TypesStep ==
    ASSUME Types, [SleepTimerNext]_vars
    PROVE  Types'
BY ListStep, CounterStep, FlagStep, ModeStep, IrqStep, StartStep DEF Types

\* and they hold throughout.
LEMMA TypesHold == Contended = {} /\ SleepTimerSpec => []Types
<1>1. Contended = {} /\ SleepTimerInit => Types
    BY InitTypes
<1>2. Types /\ [SleepTimerNext]_vars => Types'
    BY TypesStep
<1> QED
    BY <1>1, <1>2, PTL DEF SleepTimerSpec

-----------------------------------------------------------------------------
(* The 64-bit count *)

\* The overflows the program has counted and the one it may owe are the true
\* ones; an overflow is served long before the next; and the reading of a call
\* is of this turn of the counter unless an overflow has come since.
Tick64Inv ==
    /\ epoch = IF if_of THEN (overflow_counter + 1) % Epochs ELSE overflow_counter
    /\ if_of => cnt <= late
    /\ (pc = "tick64" /\ ~if_of) => tick_cnt <= cnt /\ cnt - tick_cnt <= busy

\* At first there is no overflow.
LEMMA Tick64Init == SleepTimerInit => Tick64Inv
BY DEF SleepTimerInit, Tick64Inv


\* Every step keeps it: the one that matters is the tick that wraps the counter.
LEMMA Tick64Step ==
    ASSUME Types, Tick64Inv, [SleepTimerNext]_vars
    PROVE  Tick64Inv'
<1>1. ASSUME NEW h \in Timers, NEW t \in Timeouts, NEW q \in Timeouts \union {0}, Create(h, t, q)
      PROVE  Tick64Inv'
    <2>1. pc' # "tick64" /\ UNCHANGED <<epoch, cnt, if_of, overflow_counter, late>>
        BY <1>1 DEF Create, CanCall, CompareNext, CompareKept, timeVars
    <2> QED
        BY <2>1 DEF Tick64Inv
<1>2. ASSUME NEW h \in Timers, Stop(h)
      PROVE  Tick64Inv'
    <2>1. pc' # "tick64" /\ UNCHANGED <<epoch, cnt, if_of, overflow_counter, late>>
        BY <1>2 DEF Stop, CanCall, CompareNext, CompareOff, CompareKept, timeVars
    <2> QED
        BY <2>1 DEF Tick64Inv
<1>3. CASE Update
    BY <1>3 DEF Update, Types, ModeTypes, Tick64Inv, timeVars, CanCall
<1>4. CASE ReadTick64
    <2>1. cnt \in Nat /\ cnt <= cnt /\ cnt - cnt <= busy
        BY ReachIs DEF Types, CounterTypes, Values
    <2> QED
        BY <1>4, <2>1 DEF ReadTick64, Tick64Inv, timeVars
<1>5. CASE ReturnTick64
    BY <1>5 DEF ReturnTick64, Types, ModeTypes, Tick64Inv, timeVars
<1>6. CASE SetCompareReads
    BY <1>6 DEF SetCompareReads, Types, ModeTypes, Tick64Inv, timeVars
<1>7. CASE SetCompareWrites
    BY <1>7 DEF SetCompareWrites, Types, ModeTypes, Tick64Inv, timeVars
<1>8. CASE IrqEnter
    <2>1. /\ epoch' = epoch /\ if_of' = FALSE
          /\ overflow_counter' = IF if_of THEN (overflow_counter + 1) % Epochs ELSE overflow_counter
        BY <1>8 DEF IrqEnter
    <2>2. pc' # "tick64"
        BY <1>8 DEF IrqEnter, CompareNext, CompareKept
    <2> QED
        BY <2>1, <2>2 DEF Tick64Inv, Types, FlagTypes
<1>9. CASE IrqComp
    BY <1>9 DEF IrqComp, Types, ModeTypes, Tick64Inv, timeVars
<1>10. CASE Expire
    BY <1>10 DEF Expire, Types, ModeTypes, Tick64Inv, timeVars
<1>11. CASE Called
    BY <1>11 DEF Called, Types, ModeTypes, Tick64Inv, timeVars
<1>12. CASE IrqDone
    <2>1. pc' # "tick64" /\ UNCHANGED <<epoch, cnt, if_of, overflow_counter, late>>
        BY <1>12 DEF IrqDone, CompareNext, CompareOff, timeVars
    <2> QED
        BY <2>1 DEF Tick64Inv
<1>13. CASE Tick
    <2>1. /\ cnt \in 0 .. Width - 1 /\ late \in 0 .. Latency /\ busy \in 0 .. Ticks
          /\ tick_cnt \in Int /\ if_of \in BOOLEAN /\ Latency < Width - 1
          /\ Width \in Nat /\ Latency \in Nat /\ Ticks \in Nat
        BY ReachIs DEF Types, CounterTypes, FlagTypes, Values
    <2>2. /\ cnt' = (cnt + 1) % Width /\ if_of' = (if_of \/ cnt' = 0)
          /\ epoch' = IF cnt' = 0 THEN (epoch + 1) % Epochs ELSE epoch
          /\ overflow_counter' = overflow_counter /\ pc' = pc /\ tick_cnt' = tick_cnt
          /\ late' = IF Pending THEN late + 1 ELSE 0
          /\ busy' = IF Idle THEN 0 ELSE busy + 1
        BY <1>13 DEF Tick
    <2>3. CASE cnt + 1 = Width
        <3>1. cnt' = 0
            <4>1. (cnt + 1) % Width = IF cnt + 1 < Width THEN cnt + 1 ELSE cnt + 1 - Width
                BY PlusIs, SmallValues DEF Types, CounterTypes
            <4> QED
                BY <2>1, <2>2, <2>3, <4>1
        <3>2. ~if_of
            BY <2>1, <2>3 DEF Tick64Inv
        <3>3. if_of' /\ epoch' = (overflow_counter' + 1) % Epochs
            BY <2>2, <3>1, <3>2 DEF Tick64Inv
        <3>4. 0 <= late'
            BY <1>13, CounterStep, ReachIs DEF CounterTypes
        <3> QED
            BY <3>1, <3>3, <3>4 DEF Tick64Inv
    <2>4. CASE cnt + 1 # Width
        <3>1. cnt' = cnt + 1 /\ cnt' # 0
            BY <2>1, <2>2, <2>4, PlusIs, SmallValues DEF Types, CounterTypes, Values
        <3>2. (if_of' <=> if_of) /\ epoch' = epoch
            BY <2>2, <3>1
        <3>3. if_of => late' = late + 1
            BY <2>2 DEF Pending
        <3>4. if_of' => cnt' <= late'
            BY <2>1, <3>1, <3>2, <3>3 DEF Tick64Inv
        <3>5. pc = "tick64" => busy' = busy + 1
            BY <2>2 DEF Idle
        <3>6. (pc' = "tick64" /\ ~if_of') => tick_cnt' <= cnt' /\ cnt' - tick_cnt' <= busy'
            <4>1. SUFFICES ASSUME pc = "tick64", ~if_of
                           PROVE  tick_cnt <= cnt + 1 /\ (cnt + 1) - tick_cnt <= busy + 1
                BY <2>2, <3>1, <3>2, <3>5
            <4>2. tick_cnt <= cnt /\ cnt - tick_cnt <= busy
                BY <4>1 DEF Tick64Inv
            <4> QED
                BY <2>1, <4>2
        <3>7. epoch' = IF if_of' THEN (overflow_counter' + 1) % Epochs ELSE overflow_counter'
            BY <2>2, <3>2 DEF Tick64Inv
        <3> QED
            BY <3>4, <3>6, <3>7 DEF Tick64Inv
    <2> QED
        BY <2>3, <2>4
<1>14. CASE UNCHANGED timerVars
    BY <1>14 DEF timerVars, Types, ModeTypes, Tick64Inv, timeVars
<1> QED
    BY <1>1, <1>2, <1>3, <1>4, <1>5, <1>6, <1>7, <1>8,
       <1>9, <1>10, <1>11, <1>12, <1>13, <1>14, NextIs

\* So it holds throughout.
LEMMA Tick64Holds == Contended = {} /\ SleepTimerSpec => []Tick64Inv
<1>1. SleepTimerInit => Tick64Inv
    BY Tick64Init
<1>2. Types /\ Tick64Inv /\ [SleepTimerNext]_vars => Tick64Inv'
    BY Tick64Step
<1> QED
    BY <1>1, <1>2, TypesHold, PTL DEF SleepTimerSpec

\* What sl_sleeptimer_get_tick_count64 returns is the true count of a moment of
\* the call, the counter's wrap during it included.
THEOREM Tick64IsTrueHolds ==
    ASSUME Contended = {}
    PROVE  SleepTimerSpec => Tick64IsTrue
<1> DEFINE now == epoch * Width + cnt
           read == TickCount64[1] * Width + TickCount64[2]
           True == (now - read) % (Epochs * Width) <= busy
<1>1. ASSUME Types, Tick64Inv, pc = "tick64"
      PROVE  True
    <2> DEFINE turn == epoch * Width
               all == Epochs * Width
    <2>1. /\ epoch \in Nat /\ cnt \in 0 .. Width - 1 /\ tick_cnt \in 0 .. Width - 1
          /\ busy \in Nat /\ Width \in Nat /\ Epochs \in Nat \ {0} /\ Width > 0
        BY <1>1, ReachIs DEF Types, CounterTypes, Values
    <2>2. turn \in Int
        BY <2>1
    <2>3. all \in Nat /\ all >= Width
        <3>1. Epochs - 1 \in Nat /\ (Epochs - 1) * Width \in Nat
            BY <2>1
        <3>2. Epochs * Width = (Epochs - 1) * Width + Width
            BY <2>1
        <3> QED
            BY <2>1, <3>1, <3>2
    <2>4. CASE if_of
        <3>1. /\ TickCount64[1] = overflow_counter + 1 /\ TickCount64[2] = cnt
              /\ epoch = (overflow_counter + 1) % Epochs
              /\ overflow_counter \in 0 .. Epochs - 1
            BY <1>1, <2>4 DEF TickCount64, Tick64Inv, Types, CounterTypes
        <3>2. epoch = IF overflow_counter + 1 < Epochs THEN overflow_counter + 1 ELSE 0
            <4> DEFINE o == overflow_counter + 1
            <4>1. o \in Int /\ -Epochs <= o /\ o < 2 * Epochs /\ 0 <= o /\ o <= Epochs
                BY <2>1, <3>1
            <4> HIDE DEF o
            <4>2. o % Epochs = IF o < 0 THEN o + Epochs ELSE IF o < Epochs THEN o ELSE o - Epochs
                BY <2>1, <4>1, ModTurn
            <4>3. o % Epochs = IF o < Epochs THEN o ELSE 0
                BY <2>1, <4>1, <4>2
            <4> QED
                BY <3>1, <4>3 DEF o
        <3>3. now - read = turn - (overflow_counter + 1) * Width
            BY <2>1, <3>1
        <3>4. now - read = 0 \/ now - read = -all
            <4>1. CASE overflow_counter + 1 < Epochs
                BY <2>1, <2>2, <3>2, <3>3, <4>1
            <4>2. CASE overflow_counter + 1 = Epochs
                BY <2>1, <2>2, <3>2, <3>3, <4>2
            <4> QED
                BY <2>1, <3>1, <4>1, <4>2
        <3> HIDE DEF turn, all
        <3>5. 0 % all = 0
            BY <2>1, <2>3, ModTurn
        <3>6. (-all) % all = 0
            BY <2>1, <2>3, ModTurn
        <3> QED
            BY <2>1, <3>4, <3>5, <3>6 DEF all
    <2>5. CASE ~if_of
        <3>1. TickCount64 = <<epoch, tick_cnt>>
            BY <1>1, <2>5 DEF TickCount64, Tick64Inv
        <3>2. tick_cnt <= cnt /\ cnt - tick_cnt <= busy
            BY <1>1, <2>5 DEF Tick64Inv
        <3> HIDE DEF turn, all
        <3>3. now - read = cnt - tick_cnt
            <4>1. now = turn + cnt /\ read = turn + tick_cnt
                BY <3>1 DEF turn
            <4> HIDE DEF now, read
            <4> QED
                BY <2>1, <2>2, <4>1
        <3> DEFINE x == cnt - tick_cnt
        <3>4. x \in Int /\ -all <= x /\ x < 2 * all /\ 0 <= x /\ x < all
            BY <2>1, <2>3, <3>2
        <3>5. all \in Nat \ {0}
            BY <2>1, <2>3
        <3> HIDE DEF x
        <3>6. x % all = x
            BY <3>4, <3>5, ModTurn
        <3> QED
            BY <2>1, <3>2, <3>3, <3>6 DEF x, all
    <2> QED
        BY <2>4, <2>5
<1>2. Types /\ Tick64Inv => [(pc = "tick64" /\ pc' # "tick64") => True]_vars
    BY <1>1
<1>3. Tick64IsTrue <=> [][(pc = "tick64" /\ pc' # "tick64") => True]_vars
    BY DEF Tick64IsTrue
<1> QED
    BY <1>2, <1>3, TypesHold, Tick64Holds, PTL

-----------------------------------------------------------------------------
(* The comparator *)

\* The longest the counter can be from what the interrupt measures from.
Longest == Reach + 3 + Latency + busy

\* Ticks until the head's time, and until the comparator matches.
HeadIn == delta[Head(list)] - SinceUpdate

Wait == Minus(ccv, cnt)

\* A match w ticks from now, s after the list's origin, serves a head that is
\* due in r.
Covered(s, r, w) ==
    /\ w >= 1 /\ s + w <= Reach + 3
    /\ w <= 3 \/ w <= r + 1
    /\ r < 0 => w <= 2

Near(s, w, k) == w \in 1 .. k /\ s + w <= Reach + 3

\* Outside the compare interrupt, which sets the comparator when it is done.
Outside == pc \notin {"comp", "expire", "callback"} /\ then = "idle"

Awaits == Outside /\ list # <<>> /\ ~if_comp

\* The interrupt is on while a timer runs.
InterruptOn == ~InLoop => (ien_comp <=> list # <<>>)

\* It is served before the counter is once around, and its loop ends in the
\* tick after the counter's last reading.
InTime ==
    /\ "comp" \in {pc, then} => SinceUpdate <= Longest
    /\ InLoop => irq.tot + Minus(cnt, irq.cnt) <= Longest
    /\ pc = "expire" => Minus(cnt, irq.cnt) <= IF ticked THEN 1 ELSE 0
    /\ (Outside /\ list # <<>> /\ if_comp) => SinceUpdate <= Reach + 3 + late

IdleCovers ==
    Awaits /\ pc \in {"idle", "tick64"} => cc_on /\ Covered(SinceUpdate, HeadIn, Wait)

\* Before the compare value is computed the head is not overdue, and not even
\* due unless the counter may not tick again; or the old match is near.
CompareCovers ==
    Awaits /\ pc = "compare" =>
        /\ HeadIn >= 0 \/ (cc_on /\ Near(SinceUpdate, Wait, 2))
        /\ ticked \/ HeadIn >= 1 \/ (cc_on /\ Near(SinceUpdate, Wait, 3))

\* The value computed is not passed before it is written, or is the one the
\* channel has already, or the channel is off and matches when it is turned on.
WriteCovers ==
    Awaits /\ pc = "write" =>
        LET v == Minus(irq.write, cnt)
        IN /\ Covered(SinceUpdate, HeadIn, v) \/ (~cc_on /\ v = 0 /\ SinceUpdate <= Reach + 3)
           /\ ticked \/ (v >= 1 /\ (v >= 2 \/ ~cc_on \/ ccv = irq.write))

CoverInv == InterruptOn /\ InTime /\ IdleCovers /\ CompareCovers /\ WriteCovers

\* At first no timer runs.
LEMMA CoverInit == SleepTimerInit => CoverInv
BY DEF SleepTimerInit, CoverInv, InterruptOn, InTime, IdleCovers, CompareCovers, WriteCovers,
       InLoop, Awaits, Outside

\* The times are integers.
LEMMA TimesAre ==
    ASSUME Types
    PROVE  /\ SinceUpdate \in Values /\ Wait \in Values /\ Minus(irq.write, cnt) \in Values
           /\ Minus(cnt, irq.cnt) \in Values
           /\ list # <<>> => delta[Head(list)] \in 0 .. Reach
<1>1. /\ cnt \in Values /\ last_delta_update_count \in Values /\ ccv \in Values
      /\ irq.write \in Values /\ irq.cnt \in Values
    BY DEF Types, CounterTypes, IrqTypes
<1>2. list # <<>> => delta[Head(list)] \in 0 .. Reach
    BY DEF Types, ListTypes, DeltaList
<1> QED
    BY <1>1, <1>2, MinusIs DEF SinceUpdate, Wait

\* Inside the interrupt only its own measure counts.
LEMMA LoopKeeps ==
    ASSUME Types', "callback" \in {pc', then'}, pc' \notin {"comp", "expire"}, then' # "comp",
           irq'.tot + Minus(cnt', irq'.cnt) <= Longest'
    PROVE  CoverInv'
<1>1. InLoop' /\ ~Outside'
    BY DEF InLoop, Outside
<1>2. "comp" \notin {pc', then'} /\ pc' # "expire"
    OBVIOUS
<1> QED
    BY <1>1, <1>2 DEF CoverInv, InterruptOn, InTime, IdleCovers, CompareCovers, WriteCovers, Awaits

\* update_first_timer_delta does not bring the head nearer than the match.
LEMMA UpdateCovers ==
    ASSUME Types, list # <<>>
    PROVE  LET s == Minus(cnt, Updated.last)
               r == Updated.delta[Head(list)] - s
           IN /\ s \in 0 .. Reach /\ r \in Int
              /\ Updated.delta[Head(list)] \in 0 .. Reach
              /\ Updated.delta[Head(list)] > 0 => s = 0
              /\ Covered(SinceUpdate, HeadIn, Wait) =>
                    /\ Covered(s, r, Wait)
                    /\ r >= 0 \/ Near(s, Wait, 2)
                    /\ r >= 1 \/ Near(s, Wait, 3)
<1> DEFINE d == delta[Head(list)]
           S == SinceUpdate
           s == Minus(cnt, Updated.last)
           u == Updated.delta[Head(list)]
<1>1. /\ S \in Nat /\ Wait \in Nat /\ d \in 0 .. Reach /\ Reach \in Nat
    BY TimesAre, ReachIs DEF Values
<1>2. /\ u = IF d >= S THEN d - S ELSE 0
      /\ s = IF d >= S THEN 0 ELSE d
    BY UpdatedIs
<1>3. HeadIn = d - S
    BY DEF HeadIn
<1> HIDE DEF d, S, s, u
<1>4. s \in 0 .. Reach /\ u - s \in Int /\ u \in 0 .. Reach /\ (u > 0 => s = 0)
    BY <1>1, <1>2
<1>5. ASSUME Covered(S, d - S, Wait)
      PROVE  /\ Covered(s, u - s, Wait)
             /\ u - s >= 0 \/ Near(s, Wait, 2)
             /\ u - s >= 1 \/ Near(s, Wait, 3)
    BY <1>1, <1>2, <1>5 DEF Covered, Near
<1> QED
    BY <1>3, <1>4, <1>5 DEF d, S, s, u

\* A call that leaves the comparator alone, and the head where it was.
LEMMA UpdateKeeps ==
    ASSUME Types, CoverInv, list # <<>>, pc = "idle",
           cnt' = cnt, last_delta_update_count' = Updated.last, Types',
           list' # <<>>, delta'[Head(list')] = Updated.delta[Head(list)],
           pc' = "idle", then' = "idle", UNCHANGED <<rtccVars, if_comp, late>>
    PROVE  CoverInv'
<1> DEFINE s == Minus(cnt, Updated.last)
           r == Updated.delta[Head(list)] - s
<1>1. SinceUpdate' = s /\ HeadIn' = r /\ Wait' = Wait
    BY DEF SinceUpdate, HeadIn, Wait, rtccVars
<1>2. s \in 0 .. Reach /\ (Covered(SinceUpdate, HeadIn, Wait) => Covered(s, r, Wait))
    BY UpdateCovers
<1> HIDE DEF s, r
<1>3. then = "idle" /\ ~InLoop /\ ~InLoop' /\ Outside /\ Outside'
    BY DEF Types, ModeTypes, InLoop, Outside
<1>4. InterruptOn'
    BY <1>3 DEF CoverInv, InterruptOn, rtccVars
<1>5. InTime'
    <2>1. late \in Nat /\ s <= Reach + 3 + late
        BY <1>2, ReachIs DEF Types, CounterTypes
    <2>2. SinceUpdate' <= Reach + 3 + late'
        BY <1>1, <2>1
    <2>3. "comp" \notin {pc', then'} /\ pc' # "expire"
        OBVIOUS
    <2> QED
        BY <1>3, <2>2, <2>3 DEF InTime
<1>6. IdleCovers'
    <2>1. ~if_comp => cc_on /\ Covered(SinceUpdate, HeadIn, Wait)
        BY <1>3 DEF CoverInv, IdleCovers, Awaits
    <2>2. ~if_comp' => cc_on' /\ Covered(SinceUpdate', HeadIn', Wait')
        BY <1>1, <1>2, <2>1 DEF rtccVars
    <2> QED
        BY <2>2 DEF IdleCovers, Awaits
<1>7. CompareCovers' /\ WriteCovers'
    BY DEF CompareCovers, WriteCovers
<1> QED
    BY <1>4, <1>5, <1>6, <1>7 DEF CoverInv

\* One that sets the comparator because the head goes, or an overflow.
LEMMA UpdateSets ==
    ASSUME Types, CoverInv, list # <<>>, pc = "idle",
           cnt' = cnt, last_delta_update_count' = Updated.last, Types',
           list' # <<>>, delta'[Head(list')] >= Updated.delta[Head(list)],
           pc' = "compare", then' = "idle", ien_comp' = TRUE, late' \in Nat,
           UNCHANGED <<ccv, cc_on, if_comp>>
    PROVE  CoverInv'
<1> DEFINE s == Minus(cnt, Updated.last)
           u == Updated.delta[Head(list)]
           n == delta'[Head(list')]
           r == u - s
<1>1. SinceUpdate' = s /\ HeadIn' = n - s /\ Wait' = Wait
    BY DEF SinceUpdate, HeadIn, Wait
<1>2. /\ s \in 0 .. Reach /\ u \in 0 .. Reach
      /\ Covered(SinceUpdate, HeadIn, Wait) =>
            /\ r >= 0 \/ Near(s, Wait, 2)
            /\ r >= 1 \/ Near(s, Wait, 3)
    BY UpdateCovers
<1>3. n \in Int /\ n >= u /\ Reach \in Nat
    BY ReachIs DEF Types, ListTypes, DeltaList
<1> HIDE DEF s, n, u
<1>4. then = "idle" /\ ~InLoop /\ ~InLoop' /\ Outside /\ Outside'
    BY DEF Types, ModeTypes, InLoop, Outside
<1>5. InterruptOn'
    BY <1>4 DEF InterruptOn
<1>6. InTime'
    <2>1. s <= Reach + 3 + late'
        BY <1>2, <1>3
    <2>2. "comp" \notin {pc', then'} /\ pc' # "expire"
        OBVIOUS
    <2> QED
        BY <1>1, <1>4, <2>1, <2>2 DEF InTime
<1>7. CompareCovers'
    <2>1. ~if_comp => cc_on /\ Covered(SinceUpdate, HeadIn, Wait)
        BY <1>4 DEF CoverInv, IdleCovers, Awaits
    <2>2. (r >= 0 => n - s >= 0) /\ (r >= 1 => n - s >= 1)
        BY <1>2, <1>3
    <2>3. ~if_comp' => /\ HeadIn' >= 0 \/ (cc_on' /\ Near(SinceUpdate', Wait', 2))
                       /\ HeadIn' >= 1 \/ (cc_on' /\ Near(SinceUpdate', Wait', 3))
        BY <1>1, <1>2, <2>1, <2>2
    <2> QED
        BY <2>3 DEF CompareCovers, Awaits
<1>8. IdleCovers' /\ WriteCovers'
    BY DEF IdleCovers, WriteCovers
<1> QED
    BY <1>5, <1>6, <1>7, <1>8 DEF CoverInv

\* In the interrupt's loop no call changes what it measures.
LEMMA CallbackCovers ==
    ASSUME Types, CoverInv, Types', InLoop, "callback" \in {pc', then'},
           pc' \notin {"comp", "expire"}, then' # "comp",
           irq'.tot = irq.tot, irq'.cnt = irq.cnt, cnt' = cnt, busy' = busy
    PROVE  CoverInv'
<1>1. irq.tot + Minus(cnt, irq.cnt) <= Longest
    BY DEF CoverInv, InTime
<1>2. irq'.tot + Minus(cnt', irq'.cnt) <= Longest'
    BY <1>1 DEF Longest
<1> QED
    BY <1>2, LoopKeeps

\* create_timer: a new head is due after now, any other timer leaves the head alone.
LEMMA CreateCovers ==
    ASSUME Types, CoverInv, Types',
           NEW h \in Timers, NEW t \in Timeouts, NEW q \in Timeouts \union {0},
           MayStart(h), Create(h, t, q)
    PROVE  CoverInv'
<1> DEFINE new == Insert(list, Updated.delta, h, t)
<1>1. /\ list' = new.list /\ delta' = new.delta
      /\ last_delta_update_count' = Updated.last
      /\ UNCHANGED <<cnt, irq, busy, late, if_comp>> /\ ticked' = FALSE
      /\ IF Head(new.list) = h THEN CompareNext(pc) ELSE CompareKept(pc)
      /\ pc \in {"idle", "callback"}
    BY DEF Create, timeVars, CanCall
<1>2. DeltaList(list, Updated.delta) /\ h \notin Range(list) /\ t \in 0 .. Reach /\ t >= 1
    <2>1. h \notin Range(list)
        BY DEF MayStart, Running, Range
    <2>2. t \in 1 .. Reach
        BY ReachIs
    <2> QED
        BY <2>1, <2>2, UpdatedIs, ReachIs
<1>3. /\ new.list # <<>>
      /\ \/ /\ Head(new.list) = h /\ new.delta[h] = t
            /\ list # <<>> => t < Updated.delta[Head(list)]
         \/ /\ list # <<>> /\ Head(new.list) = Head(list) /\ Head(list) # h
            /\ new.delta[Head(list)] = Updated.delta[Head(list)]
    BY <1>2, InsertKeeps
<1> HIDE DEF new
<1>4. CASE pc = "callback"
    <2>1. InLoop /\ "callback" \in {pc', then'} /\ pc' \in {"callback", "compare"} /\ then' # "comp"
        BY <1>1, <1>4 DEF InLoop, CompareNext, CompareKept
    <2> QED
        BY <1>1, <2>1, CallbackCovers
<1>5. CASE pc = "idle" /\ Head(new.list) = h
    <2>1. /\ pc' = "compare" /\ then' = "idle" /\ ien_comp' = TRUE
          /\ delta'[Head(list')] = t /\ list' # <<>>
        BY <1>1, <1>3, <1>5 DEF CompareNext
    <2>2. SinceUpdate' = 0
        <3>1. SinceUpdate' = Minus(cnt, Updated.last)
            BY <1>1 DEF SinceUpdate
        <3>2. CASE list = <<>>
            <4>1. cnt \in Values
                BY DEF Types, CounterTypes
            <4> QED
                BY <3>1, <3>2, <4>1, UpdatedIs, MinusSelf
        <3>3. CASE list # <<>>
            <4>1. t < Updated.delta[Head(list)]
                BY <1>3, <1>5, <3>3
            <4>2. /\ Updated.delta[Head(list)] \in 0 .. Reach
                  /\ Updated.delta[Head(list)] > 0 => Minus(cnt, Updated.last) = 0
                BY <3>3, UpdateCovers
            <4> QED
                BY <1>2, <3>1, <4>1, <4>2, ReachIs
        <3> QED
            BY <3>2, <3>3
    <2>3. HeadIn' = t - 0 /\ t - 0 >= 1 /\ t - 0 >= 0
        BY <1>2, <2>1, <2>2, ReachIs DEF HeadIn
    <2>4. InterruptOn'
        BY <2>1 DEF InterruptOn
    <2>5. InTime'
        <3>1. "comp" \notin {pc', then'} /\ pc' # "expire" /\ ~InLoop'
            BY <2>1 DEF InLoop
        <3>2. 0 <= Reach + 3 + late'
            BY <1>1, ReachIs DEF Types, CounterTypes
        <3> QED
            BY <2>2, <3>1, <3>2 DEF InTime
    <2>6. CompareCovers'
        BY <2>3 DEF CompareCovers
    <2>7. IdleCovers' /\ WriteCovers'
        BY <2>1 DEF IdleCovers, WriteCovers
    <2> QED
        BY <2>4, <2>5, <2>6, <2>7 DEF CoverInv
<1>6. CASE pc = "idle" /\ Head(new.list) # h
    <2>1. /\ list # <<>> /\ list' # <<>> /\ delta'[Head(list')] = Updated.delta[Head(list)]
          /\ pc' = "idle" /\ then' = "idle" /\ UNCHANGED rtccVars
        BY <1>1, <1>3, <1>6 DEF CompareKept
    <2> QED
        BY <1>1, <1>6, <2>1, UpdateKeeps
<1> QED
    BY <1>1, <1>4, <1>5, <1>6

\* sl_sleeptimer_stop_timer: the head's delta passes to the next timer.
LEMMA StopCovers ==
    ASSUME Types, CoverInv, Types', NEW h \in Timers, Stop(h)
    PROVE  CoverInv'
<1> DEFINE left == Removed(list, Updated.delta, h)
<1>1. /\ list' = left.list /\ delta' = [left.delta EXCEPT ![h] = 0]
      /\ last_delta_update_count' = Updated.last
      /\ UNCHANGED <<cnt, irq, busy, late, if_comp>> /\ ticked' = FALSE
      /\ IF left.list = <<>> THEN CompareOff(pc)
         ELSE IF Head(list) = h THEN CompareNext(pc)
         ELSE CompareKept(pc)
      /\ pc \in {"idle", "callback"}
    BY DEF Stop, timeVars, CanCall
<1>2. DeltaList(list, Updated.delta) /\ h \in Range(list)
    BY UpdatedIs DEF Stop, Running, Range
<1>3. /\ DeltaList(left.list, left.delta)
      /\ Range(left.list) = Range(list) \ {h}
      /\ left.delta[h] = Updated.delta[h]
      /\ (h = Head(list) /\ left.list # <<>>) => left.delta[Head(left.list)] >= Updated.delta[h]
      /\ h # Head(list) => /\ left.list # <<>> /\ Head(left.list) = Head(list)
                           /\ left.delta[Head(list)] = Updated.delta[Head(list)]
    BY <1>2, RemoveKeeps
<1> HIDE DEF left
<1>4. left.list # <<>> => delta'[Head(left.list)] = left.delta[Head(left.list)]
    <2>1. SUFFICES ASSUME left.list # <<>>
                   PROVE  delta'[Head(left.list)] = left.delta[Head(left.list)]
        OBVIOUS
    <2>2. Head(left.list) \in Range(left.list) /\ Head(left.list) \in Timers
        BY <1>3, <2>1 DEF DeltaList, Range
    <2>3. left.delta \in [Timers -> 0 .. Reach] /\ Head(left.list) # h
        BY <1>3, <2>2 DEF DeltaList
    <2> QED
        BY <1>1, <2>2, <2>3
<1>5. list # <<>>
    BY <1>2 DEF Range
<1>6. CASE pc = "callback"
    <2>1. InLoop /\ "callback" \in {pc', then'} /\ pc' \in {"callback", "compare"} /\ then' # "comp"
        BY <1>1, <1>6 DEF InLoop, CompareNext, CompareOff, CompareKept
    <2> QED
        BY <1>1, <2>1, CallbackCovers
<1>7. CASE pc = "idle" /\ left.list = <<>>
    <2>1. /\ list' = <<>> /\ ien_comp' = FALSE
          /\ "comp" \notin {pc', then'} /\ pc' # "expire" /\ ~InLoop'
        BY <1>1, <1>7 DEF CompareOff, InLoop
    <2> QED
        BY <2>1 DEF CoverInv, InterruptOn, InTime, IdleCovers, CompareCovers, WriteCovers, Awaits
<1>8. CASE pc = "idle" /\ left.list # <<>> /\ Head(list) = h
    <2>1. /\ pc' = "compare" /\ then' = "idle" /\ ien_comp' = TRUE
          /\ UNCHANGED <<ccv, cc_on>>
        BY <1>1, <1>8 DEF CompareNext
    <2>2. delta'[Head(list')] >= Updated.delta[Head(list)] /\ list' # <<>>
        BY <1>1, <1>3, <1>4, <1>8
    <2>3. late' \in Nat
        BY <1>1, ReachIs DEF Types, CounterTypes
    <2> QED
        BY <1>1, <1>5, <1>8, <2>1, <2>2, <2>3, UpdateSets
<1>9. CASE pc = "idle" /\ left.list # <<>> /\ Head(list) # h
    <2>1. pc' = "idle" /\ then' = "idle" /\ UNCHANGED rtccVars
        BY <1>1, <1>9 DEF CompareKept
    <2>2. delta'[Head(list')] = Updated.delta[Head(list)] /\ list' # <<>>
        BY <1>1, <1>3, <1>4, <1>9
    <2> QED
        BY <1>1, <1>5, <1>9, <2>1, <2>2, UpdateKeeps
<1> QED
    BY <1>1, <1>6, <1>7, <1>8, <1>9

\* A call that only moves the list's origin.
LEMMA UpdateCallCovers ==
    ASSUME Types, CoverInv, Types', Update
    PROVE  CoverInv'
<1>1. /\ list' = list /\ delta' = Updated.delta /\ last_delta_update_count' = Updated.last
      /\ UNCHANGED <<cnt, irq, busy, late, if_comp, pc, then>> /\ UNCHANGED rtccVars
      /\ pc \in {"idle", "callback"}
    BY DEF Update, timeVars, CanCall
<1>2. then = "idle"
    BY <1>1 DEF Types, ModeTypes
<1>3. CASE pc = "callback"
    BY <1>1, <1>2, <1>3, CallbackCovers DEF InLoop
<1>4. CASE pc = "idle" /\ list = <<>>
    <2>1. "comp" \notin {pc', then'} /\ pc' # "expire" /\ ~InLoop' /\ list' = <<>>
        BY <1>1, <1>2, <1>4 DEF InLoop
    <2>2. ~ien_comp
        BY <1>2, <1>4 DEF CoverInv, InterruptOn, InLoop
    <2>3. ~ien_comp'
        BY <1>1, <2>2 DEF rtccVars
    <2> QED
        BY <2>1, <2>3
        DEF CoverInv, InterruptOn, InTime, IdleCovers, CompareCovers, WriteCovers, Awaits
<1>5. CASE pc = "idle" /\ list # <<>>
    BY <1>1, <1>2, <1>5, UpdateKeeps
<1> QED
    BY <1>1, <1>3, <1>4, <1>5

\* A call that only reads.
LEMMA Tick64Covers ==
    ASSUME Types, CoverInv, Types', ReadTick64 \/ ReturnTick64
    PROVE  CoverInv'
<1>1. UNCHANGED listVars /\ UNCHANGED <<rtccVars, cnt, irq, late, if_comp>>
    BY DEF ReadTick64, ReturnTick64, timeVars
<1>2. CASE InLoop
    <2>1. "callback" \in {pc', then'} /\ pc' \in {"callback", "tick64"} /\ then' # "comp"
        BY <1>2 DEF ReadTick64, ReturnTick64, CanCall, InLoop, Types, ModeTypes
    <2>2. busy' = busy
        BY <1>2 DEF ReadTick64, ReturnTick64, CanCall, InLoop, Types, ModeTypes
    <2> QED
        BY <1>1, <1>2, <2>1, <2>2, CallbackCovers
<1>3. CASE ~InLoop
    <2>1. /\ pc \in {"idle", "tick64"} /\ then = "idle" /\ pc' \in {"idle", "tick64"} /\ then' = "idle"
        BY <1>3 DEF ReadTick64, ReturnTick64, CanCall, InLoop, Types, ModeTypes
    <2>2. SinceUpdate' = SinceUpdate /\ HeadIn' = HeadIn /\ Wait' = Wait
        BY <1>1 DEF SinceUpdate, HeadIn, Wait, listVars, rtccVars
    <2>3. (Awaits' <=> Awaits) /\ Outside /\ Outside' /\ ~InLoop'
        BY <1>1, <2>1 DEF Awaits, Outside, InLoop, listVars
    <2>4. InterruptOn'
        BY <1>1, <1>3 DEF CoverInv, InterruptOn, listVars, rtccVars
    <2>5. InTime'
        BY <1>1, <2>1, <2>2, <2>3 DEF CoverInv, InTime, listVars
    <2>6. IdleCovers'
        BY <1>1, <2>1, <2>2, <2>3 DEF CoverInv, IdleCovers, rtccVars
    <2>7. CompareCovers' /\ WriteCovers'
        BY <2>1 DEF CompareCovers, WriteCovers
    <2> QED
        BY <2>4, <2>5, <2>6, <2>7 DEF CoverInv
<1> QED
    BY <1>2, <1>3

\* The compare value is in time for a head that is not overdue: the margin and
\* the remainder cost it three ticks at most.
LEMMA CompareValueIs ==
    ASSUME Types, list # <<>>, HeadIn >= 0
    PROVE  LET v == Minus(CompareValue, cnt)
           IN v >= 2 /\ Covered(SinceUpdate, HeadIn, v)
<1> DEFINE last == last_delta_update_count
           d == delta[Head(list)]
           S == SinceUpdate
           value == (last + d) % Width
           x == IF Minus(value, cnt) < MIN_DIFF THEN (cnt + MIN_DIFF) % Width ELSE value
           y == x % (Width - 1)
           m == IF HeadIn < 2 THEN 2 ELSE HeadIn
<1>1. CompareValue = y
    BY DEF CompareValue
<1>2. /\ Width \in Nat /\ Width > 3 /\ Reach \in Nat /\ Reach + 3 <= Width - 1
      /\ cnt \in 0 .. Width - 1 /\ last \in 0 .. Width - 1 /\ d \in 0 .. Reach
      /\ d \in Values /\ cnt \in Values /\ last \in Values /\ MIN_DIFF = 2 /\ 2 \in Values
    BY TimesAre, ReachIs, SmallValues DEF Types, CounterTypes, Values, MIN_DIFF
<1>3. /\ S = IF cnt >= last THEN cnt - last ELSE cnt - last + Width
      /\ S \in 0 .. Width - 1
    BY <1>2, MinusIs DEF SinceUpdate, Values
<1>4. HeadIn = d - S
    BY DEF HeadIn
<1>5. /\ value = IF last + d < Width THEN last + d ELSE last + d - Width
      /\ value \in Values
    BY <1>2, PlusIs
<1> HIDE DEF last, d, S, value
<1>6. Minus(value, cnt) = HeadIn
    <2>1. Minus(value, cnt) = IF value >= cnt THEN value - cnt ELSE value - cnt + Width
        BY <1>2, <1>5, MinusIs
    <2>2. value \in 0 .. Width - 1
        BY <1>5 DEF Values
    <2>3. d - S >= 0
        BY <1>4
    <2> QED
        BY <1>2, <1>3, <1>4, <1>5, <2>1, <2>2, <2>3
<1>7. HeadIn \in Nat /\ m \in Nat /\ m >= 2 /\ m < Width - 1 /\ S + HeadIn <= Reach
    BY <1>2, <1>3, <1>4
<1>8. x \in Values /\ Minus(x, cnt) = m
    <2>1. CASE HeadIn < 2
        <3>1. x = (cnt + 2) % Width
            BY <1>2, <1>6, <2>1
        <3>2. /\ x = IF cnt + 2 < Width THEN cnt + 2 ELSE cnt + 2 - Width
              /\ x \in Values
            BY <1>2, <3>1, PlusIs
        <3> HIDE DEF x
        <3>3. Minus(x, cnt) = IF x >= cnt THEN x - cnt ELSE x - cnt + Width
            BY <1>2, <3>2, MinusIs
        <3>4. x \in 0 .. Width - 1
            BY <3>2 DEF Values
        <3> QED
            BY <1>2, <2>1, <3>2, <3>3, <3>4
    <2>2. CASE ~ (HeadIn < 2)
        BY <1>2, <1>5, <1>6, <2>2
    <2> QED
        BY <2>1, <2>2
<1> HIDE DEF x, m
<1>9. y = IF x = Width - 1 THEN 0 ELSE x
    <2> DEFINE k == Width - 1
    <2>1. k \in Nat \ {0} /\ x \in Int /\ -k <= x /\ x < 2 * k /\ x \in 0 .. k
        BY <1>2, <1>8 DEF Values
    <2> HIDE DEF k
    <2>2. x % k = IF x < 0 THEN x + k ELSE IF x < k THEN x ELSE x - k
        BY <2>1, ModTurn
    <2>3. x % k = IF x = k THEN 0 ELSE x
        BY <2>1, <2>2
    <2> QED
        BY <2>3 DEF k
<1> HIDE DEF y
<1>10. Minus(y, cnt) \in m .. m + 1
    <2>1. x \in 0 .. Width - 1 /\ y \in Values
        BY <1>2, <1>8, <1>9, SmallValues DEF Values
    <2>2. Minus(y, cnt) = IF y >= cnt THEN y - cnt ELSE y - cnt + Width
        BY <1>2, <2>1, MinusIs
    <2>3. Minus(x, cnt) = IF x >= cnt THEN x - cnt ELSE x - cnt + Width
        BY <1>2, <1>8, MinusIs
    <2> QED
        BY <1>2, <1>7, <1>8, <1>9, <2>1, <2>2, <2>3
<1>11. S + m + 1 <= Reach + 3 /\ S \in Nat
    BY <1>2, <1>3, <1>4, <1>7 DEF m
<1>12. Covered(S, HeadIn, Minus(y, cnt)) /\ Minus(y, cnt) >= 2
    <2> DEFINE w == Minus(y, cnt)
    <2>1. w \in m .. m + 1
        BY <1>10
    <2> HIDE DEF w
    <2>2. w \in Nat /\ w >= 2 /\ S + w <= Reach + 3
        BY <1>2, <1>7, <1>11, <2>1
    <2>3. w <= 3 \/ w <= HeadIn + 1
        BY <1>7, <2>1, <2>2 DEF m
    <2>4. Covered(S, HeadIn, w)
        BY <1>7, <2>2, <2>3 DEF Covered
    <2> QED
        BY <2>2, <2>4 DEF w
<1> QED
    BY <1>1, <1>12 DEF S

\* sleeptimer_hal_set_compare, up to its reading of the counter.
LEMMA ReadsCovers ==
    ASSUME Types, CoverInv, Types', SetCompareReads
    PROVE  CoverInv'
<1>1. /\ pc = "compare" /\ pc' = "write" /\ ticked' = FALSE
      /\ UNCHANGED listVars /\ UNCHANGED <<rtccVars, cnt, late, if_comp, then, busy>>
      /\ irq'.tot = irq.tot /\ irq'.cnt = irq.cnt
      /\ irq'.write = IF MatchIsNear THEN ccv ELSE CompareValue
    BY DEF SetCompareReads, timeVars, Types, IrqTypes
<1>2. CASE then = "callback"
    BY <1>1, <1>2, CallbackCovers DEF InLoop
<1>3. CASE then # "callback"
    <2>1. SinceUpdate' = SinceUpdate /\ HeadIn' = HeadIn /\ Wait' = Wait
        BY <1>1 DEF SinceUpdate, HeadIn, Wait, listVars, rtccVars
    <2>2. (Awaits' <=> Awaits) /\ (Outside' <=> Outside) /\ ~InLoop /\ ~InLoop'
        BY <1>1, <1>3 DEF Awaits, Outside, InLoop, listVars
    <2>3. InterruptOn'
        BY <1>1, <2>2 DEF CoverInv, InterruptOn, listVars, rtccVars
    <2>4. InTime'
        BY <1>1, <2>1, <2>2 DEF CoverInv, InTime, Longest, listVars
    <2>5. IdleCovers' /\ CompareCovers'
        BY <1>1 DEF IdleCovers, CompareCovers
    <2>6. ASSUME Awaits
          PROVE  LET v == Minus(irq'.write, cnt)
                 IN Covered(SinceUpdate, HeadIn, v) /\ (v >= 2 \/ (v >= 1 /\ irq'.write = ccv))
        <3>1. HeadIn >= 0 \/ (cc_on /\ Near(SinceUpdate, Wait, 2))
            BY <1>1, <2>6 DEF CoverInv, CompareCovers
        <3>2. MatchIsNear <=> Wait \in 1 .. 2
            BY <2>6 DEF MatchIsNear, Awaits, Wait, MIN_DIFF
        <3>3. list # <<>>
            BY <2>6 DEF Awaits
        <3>4. CASE MatchIsNear
            <4>1. Minus(irq'.write, cnt) = Wait /\ irq'.write = ccv
                BY <1>1, <3>4 DEF Wait
            <4>2. /\ Wait \in 1 .. 2 /\ SinceUpdate \in Nat /\ delta[Head(list)] \in 0 .. Reach
                  /\ Reach \in Nat /\ HeadIn = delta[Head(list)] - SinceUpdate
                BY <3>2, <3>3, <3>4, TimesAre, ReachIs DEF Values, HeadIn
            <4>3. SinceUpdate + Wait <= Reach + 3
                BY <3>1, <4>2 DEF Near
            <4>4. Covered(SinceUpdate, HeadIn, Wait)
                BY <4>2, <4>3 DEF Covered
            <4> QED
                BY <4>1, <4>2, <4>4
        <3>5. CASE ~MatchIsNear
            <4>1. HeadIn >= 0
                BY <3>1, <3>2, <3>5 DEF Near
            <4> QED
                BY <1>1, <3>3, <3>5, <4>1, CompareValueIs
        <3> QED
            BY <3>4, <3>5
    <2>7. WriteCovers'
        <3>1. cnt' = cnt /\ ccv' = ccv
            BY <1>1 DEF rtccVars
        <3>2. SUFFICES ASSUME Awaits
                       PROVE  LET v == Minus(irq'.write, cnt)
                              IN /\ Covered(SinceUpdate, HeadIn, v)
                                 /\ v >= 1 /\ (v >= 2 \/ ccv = irq'.write)
            BY <2>1, <2>2, <3>1 DEF WriteCovers
        <3> DEFINE v == Minus(irq'.write, cnt)
        <3>3. Covered(SinceUpdate, HeadIn, v) /\ (v >= 2 \/ (v >= 1 /\ irq'.write = ccv))
            BY <2>6, <3>2
        <3>4. v \in Nat
            <4>1. irq'.write \in Values /\ cnt \in Values
                BY DEF Types, CounterTypes, IrqTypes
            <4> QED
                BY <4>1, MinusIs DEF Values
        <3> HIDE DEF v
        <3>5. v >= 1 /\ (v >= 2 \/ ccv = irq'.write)
            BY <3>3, <3>4
        <3> QED
            BY <3>3, <3>5 DEF v
    <2> QED
        BY <2>3, <2>4, <2>5, <2>7 DEF CoverInv
<1> QED
    BY <1>2, <1>3

\* The comparator is at the counter when nothing is between them.
LEMMA MinusZero ==
    ASSUME NEW a \in Values, NEW b \in Values
    PROVE  Minus(a, b) = 0 <=> a = b
<1>1. Minus(a, b) = IF a >= b THEN a - b ELSE a - b + Width
    BY MinusIs
<1> QED
    BY <1>1, ReachIs DEF Values

\* Its write of the compare value.
LEMMA WritesCovers ==
    ASSUME Types, CoverInv, Types', SetCompareWrites
    PROVE  CoverInv'
<1> DEFINE v == Minus(irq.write, cnt)
<1>1. /\ pc = "write" /\ pc' = then /\ then' = "idle"
      /\ UNCHANGED listVars /\ UNCHANGED <<cnt, late, ien_comp>>
      /\ irq'.tot = irq.tot /\ irq'.cnt = irq.cnt
      /\ ccv' = irq.write /\ cc_on' = TRUE
      /\ if_comp' = (if_comp \/ (~cc_on /\ cnt = irq.write))
      /\ busy' = IF then = "idle" THEN 0 ELSE busy
      /\ then \in {"idle", "comp", "callback"}
    BY DEF SetCompareWrites, timeVars, Types, IrqTypes, ModeTypes
<1>2. CASE then = "callback"
    BY <1>1, <1>2, CallbackCovers DEF InLoop
<1>3. SinceUpdate' = SinceUpdate /\ HeadIn' = HeadIn /\ Wait' = v
    BY <1>1 DEF SinceUpdate, HeadIn, Wait, listVars
<1>4. CASE then = "comp"
    <2>1. ~InLoop /\ ~InLoop' /\ ~Outside' /\ pc' = "comp"
        BY <1>1, <1>4 DEF InLoop, Outside
    <2>2. SinceUpdate' <= Longest'
        <3>1. SinceUpdate <= Longest /\ busy' = busy
            BY <1>1, <1>4 DEF CoverInv, InTime
        <3> QED
            BY <1>3, <3>1 DEF Longest
    <2>3. InterruptOn'
        BY <1>1, <2>1 DEF CoverInv, InterruptOn, listVars
    <2> QED
        BY <2>1, <2>2, <2>3
        DEF CoverInv, InTime, IdleCovers, CompareCovers, WriteCovers, Awaits
<1>5. CASE then = "idle"
    <2>1. ~InLoop /\ ~InLoop' /\ Outside /\ Outside' /\ pc' = "idle"
        BY <1>1, <1>5 DEF InLoop, Outside
    <2>2. InterruptOn'
        BY <1>1, <2>1 DEF CoverInv, InterruptOn, listVars
    <2>3. ASSUME list # <<>>, ~if_comp
          PROVE  Covered(SinceUpdate, HeadIn, v) \/ (~cc_on /\ v = 0 /\ SinceUpdate <= Reach + 3)
        BY <1>1, <2>1, <2>3 DEF CoverInv, WriteCovers, Awaits
    <2>4. v = 0 <=> irq.write = cnt
        BY MinusZero DEF Types, CounterTypes, IrqTypes
    <2>5. ASSUME list # <<>>, if_comp'
          PROVE  SinceUpdate <= Reach + 3 + late
        <3>1. CASE if_comp
            BY <2>1, <2>5, <3>1 DEF CoverInv, InTime
        <3>2. CASE ~if_comp
            <4>1. v = 0
                BY <1>1, <2>4, <2>5, <3>2
            <4>2. SinceUpdate <= Reach + 3
                BY <2>3, <2>5, <3>2, <4>1 DEF Covered
            <4>3. SinceUpdate \in Nat /\ late \in Nat /\ Reach \in Nat
                BY TimesAre, ReachIs DEF Values, Types, CounterTypes
            <4> QED
                BY <4>2, <4>3
        <3> QED
            BY <3>1, <3>2
    <2>6. InTime'
        <3>1. "comp" \notin {pc', then'} /\ pc' # "expire" /\ list' = list /\ late' = late
            BY <1>1, <1>5 DEF listVars
        <3> QED
            BY <1>3, <2>1, <2>5, <3>1 DEF InTime
    <2>7. IdleCovers'
        <3>1. ASSUME list # <<>>, ~if_comp'
              PROVE  Covered(SinceUpdate, HeadIn, v)
            BY <1>1, <2>3, <2>4, <3>1
        <3> QED
            BY <1>1, <1>3, <3>1 DEF IdleCovers, Awaits, listVars
    <2>8. CompareCovers' /\ WriteCovers'
        BY <2>1 DEF CompareCovers, WriteCovers
    <2> QED
        BY <2>2, <2>6, <2>7, <2>8 DEF CoverInv
<1> QED
    BY <1>1, <1>2, <1>4, <1>5

\* The interrupt handler, with either flag or both.
LEMMA EnterCovers ==
    ASSUME Types, CoverInv, Types', IrqEnter
    PROVE  CoverInv'
<1>1. /\ pc = "idle" /\ then = "idle" /\ list' = list /\ late' = 0 /\ if_comp' = FALSE
      /\ UNCHANGED <<cnt, irq, busy>> /\ (if_of \/ (if_comp /\ ien_comp))
      /\ IF if_of THEN delta' = Updated.delta /\ last_delta_update_count' = Updated.last
         ELSE UNCHANGED <<delta, last_delta_update_count>>
      /\ LET to == IF if_comp THEN "comp" ELSE "idle"
         IN IF if_of /\ list # <<>> THEN CompareNext(to) ELSE CompareKept(to)
    BY DEF IrqEnter, Idle, Pending, Types, ModeTypes
<1>2. ~InLoop /\ Outside
    BY <1>1 DEF InLoop, Outside
<1>3. ien_comp <=> list # <<>>
    BY <1>2 DEF CoverInv, InterruptOn
<1>4. /\ Reach \in Nat /\ Latency \in Nat /\ late \in 0 .. Latency /\ busy \in Nat
    BY ReachIs DEF Types, CounterTypes
<1>5. CASE if_comp
    <2>1. /\ "comp" \in {pc', then'} /\ pc' \in {"comp", "compare"} /\ then' \in {"idle", "comp"}
          /\ ien_comp' = ien_comp \/ (ien_comp' = TRUE /\ list # <<>>)
        BY <1>1, <1>5 DEF CompareNext, CompareKept, rtccVars
    <2>2. ~InLoop' /\ ~Outside' /\ pc' # "expire"
        BY <2>1 DEF InLoop, Outside
    <2>3. SinceUpdate' <= Longest'
        <3>1. Longest' = Reach + 3 + Latency + busy
            BY <1>1 DEF Longest
        <3>2. CASE if_of
            <4>1. SinceUpdate' = Minus(cnt, Updated.last)
                BY <1>1, <3>2 DEF SinceUpdate
            <4>2. SinceUpdate' \in 0 .. Reach
                <5>1. CASE list = <<>>
                    <6>1. cnt \in Values /\ Updated.last = cnt
                        BY <5>1, UpdatedIs DEF Types, CounterTypes
                    <6> QED
                        BY <1>4, <4>1, <6>1, MinusSelf
                <5>2. CASE list # <<>>
                    BY <4>1, <5>2, UpdateCovers
                <5> QED
                    BY <5>1, <5>2
            <4> QED
                BY <1>4, <3>1, <4>2
        <3>3. CASE ~if_of
            <4>1. SinceUpdate' = SinceUpdate
                BY <1>1, <3>3 DEF SinceUpdate
            <4>2. SinceUpdate <= Reach + 3 + late
                BY <1>1, <1>2, <1>3, <1>5, <3>3 DEF CoverInv, InTime
            <4>3. SinceUpdate \in Nat
                BY TimesAre DEF Values
            <4> QED
                BY <1>4, <3>1, <4>1, <4>2, <4>3
        <3> QED
            BY <3>2, <3>3
    <2>4. InterruptOn'
        BY <1>1, <1>3, <2>1 DEF InterruptOn
    <2> QED
        BY <2>2, <2>3, <2>4
        DEF CoverInv, InTime, IdleCovers, CompareCovers, WriteCovers, Awaits
<1>6. CASE ~if_comp /\ list = <<>>
    <2>1. "comp" \notin {pc', then'} /\ pc' # "expire" /\ ~InLoop' /\ list' = <<>> /\ ien_comp' = ien_comp
        BY <1>1, <1>6 DEF InLoop, CompareKept, rtccVars
    <2> QED
        BY <1>3, <1>6, <2>1
        DEF CoverInv, InterruptOn, InTime, IdleCovers, CompareCovers, WriteCovers, Awaits
<1>7. CASE ~if_comp /\ list # <<>>
    <2>1. /\ pc' = "compare" /\ then' = "idle" /\ ien_comp' = TRUE /\ UNCHANGED <<ccv, cc_on>>
          /\ delta' = Updated.delta /\ last_delta_update_count' = Updated.last
        BY <1>1, <1>7 DEF CompareNext
    <2>2. Updated.delta[Head(list)] \in Int /\ late' \in Nat
        BY <1>1, <1>7, UpdateCovers, <1>4
    <2>3. delta'[Head(list')] >= Updated.delta[Head(list)]
        BY <1>1, <2>1, <2>2
    <2>4. (if_comp' <=> if_comp) /\ if_comp' \in BOOLEAN /\ if_comp \in BOOLEAN
        BY <1>1, <1>7 DEF Types, FlagTypes
    <2> QED
        BY <1>1, <1>7, <2>1, <2>2, <2>3, <2>4, UpdateSets
<1> QED
    BY <1>5, <1>6, <1>7

\* The interrupt measures from here.
LEMMA CompCovers ==
    ASSUME Types, CoverInv, IrqComp
    PROVE  CoverInv'
<1>1. /\ pc = "comp" /\ pc' = "expire" /\ UNCHANGED <<cnt, then, busy>> /\ ticked' = FALSE
      /\ irq'.cnt = cnt /\ irq'.tot = SinceUpdate
    BY DEF IrqComp, NoIrq, timeVars
<1>2. then = "idle"
    BY <1>1 DEF Types, ModeTypes
<1>3. Minus(cnt', irq'.cnt) = 0
    BY <1>1, MinusSelf DEF Types, CounterTypes
<1>4. SinceUpdate <= Longest /\ SinceUpdate \in Nat
    BY <1>1, TimesAre DEF CoverInv, InTime, Values
<1>5. irq'.tot + Minus(cnt', irq'.cnt) <= Longest'
    BY <1>1, <1>3, <1>4 DEF Longest
<1>6. InLoop' /\ ~Outside' /\ "comp" \notin {pc', then'}
    BY <1>1, <1>2 DEF InLoop, Outside
<1> QED
    BY <1>3, <1>5, <1>6
    DEF CoverInv, InterruptOn, InTime, IdleCovers, CompareCovers, WriteCovers, Awaits

\* A timer that leaves the list is paid for out of what has elapsed.
LEMMA ExpireCovers ==
    ASSUME Types, CoverInv, Types', Expire
    PROVE  CoverInv'
<1>1. /\ pc = "expire" /\ pc' = "callback" /\ UNCHANGED <<cnt, then, busy>> /\ Due # {}
      /\ irq' = [irq EXCEPT !.tot = @ - delta[Chosen], !.current = Chosen]
    BY DEF Expire, timeVars
<1>2. irq'.cnt = irq.cnt /\ irq'.tot = irq.tot - delta[Chosen]
    BY <1>1 DEF Types, IrqTypes
<1>3. then = "idle"
    BY <1>1 DEF Types, ModeTypes
<1>4. irq.tot + Minus(cnt, irq.cnt) <= Longest
    BY <1>1 DEF CoverInv, InTime, InLoop
<1>5. irq.tot \in Nat /\ Minus(cnt, irq.cnt) \in Nat /\ delta[Chosen] \in 0 .. irq.tot
      /\ Longest \in Nat
    <2>1. delta[Chosen] \in 0 .. irq.tot
        BY <1>1, ChosenPays
    <2>2. Minus(cnt, irq.cnt) \in Nat
        BY TimesAre DEF Values
    <2>3. Longest \in Nat
        BY ReachIs DEF Types, CounterTypes, Longest
    <2> QED
        BY <2>1, <2>2, <2>3 DEF Types, IrqTypes
<1>6. irq'.tot + Minus(cnt', irq'.cnt) <= Longest'
    <2>1. (irq.tot - delta[Chosen]) + Minus(cnt, irq.cnt) <= Longest
        BY <1>4, <1>5
    <2>2. Longest' = Longest
        BY <1>1 DEF Longest
    <2> QED
        BY <1>1, <1>2, <2>1, <2>2
<1> QED
    BY <1>1, <1>3, <1>6, LoopKeeps

\* The callback's time is added to it.
LEMMA CalledCovers ==
    ASSUME Types, CoverInv, Called
    PROVE  CoverInv'
<1>1. /\ pc = "callback" /\ pc' = "expire" /\ UNCHANGED <<cnt, then, busy>>
      /\ irq'.tot = irq.tot + Minus(cnt, irq.cnt) /\ irq'.cnt = cnt /\ ticked' = FALSE
    BY DEF Called, timeVars, Types, IrqTypes
<1>2. then = "idle" /\ InLoop
    BY <1>1 DEF Types, ModeTypes, InLoop
<1>3. Minus(cnt', irq'.cnt) = 0
    BY <1>1, MinusSelf DEF Types, CounterTypes
<1>4. irq.tot + Minus(cnt, irq.cnt) <= Longest /\ irq.tot + Minus(cnt, irq.cnt) \in Nat
    BY <1>2, TimesAre DEF CoverInv, InTime, Values, Types, IrqTypes
<1>5. irq'.tot + Minus(cnt', irq'.cnt) <= Longest'
    BY <1>1, <1>3, <1>4 DEF Longest
<1>6. InLoop' /\ ~Outside' /\ "comp" \notin {pc', then'}
    BY <1>1, <1>2 DEF InLoop, Outside
<1> QED
    BY <1>3, <1>5, <1>6
    DEF CoverInv, InterruptOn, InTime, IdleCovers, CompareCovers, WriteCovers, Awaits

\* The loop is left with the head not due at its last reading of the counter,
\* which is one tick old at most.
LEMMA DoneCovers ==
    ASSUME Types, CoverInv, Types', IrqDone
    PROVE  CoverInv'
<1>1. /\ pc = "expire" /\ then = "idle" /\ list' = list /\ Due = {}
      /\ UNCHANGED <<cnt, late, if_comp>>
    BY DEF IrqDone, timeVars, Types, ModeTypes
<1>2. CASE list = <<>>
    <2>1. /\ list' = <<>> /\ ien_comp' = FALSE
          /\ "comp" \notin {pc', then'} /\ pc' # "expire" /\ ~InLoop'
        BY <1>1, <1>2 DEF IrqDone, CompareOff, InLoop
    <2> QED
        BY <2>1 DEF CoverInv, InterruptOn, InTime, IdleCovers, CompareCovers, WriteCovers, Awaits
<1>3. CASE list # <<>>
    <2>1. /\ delta' = Charged(delta) /\ last_delta_update_count' = irq.cnt
          /\ pc' = "compare" /\ then' = "idle" /\ ien_comp' = TRUE /\ ticked' = ticked
        BY <1>3 DEF IrqDone, CompareNext
    <2>2. ~InLoop' /\ Outside' /\ "comp" \notin {pc', then'} /\ pc' # "expire"
        BY <2>1 DEF InLoop, Outside
    <2> DEFINE s == Minus(cnt, irq.cnt)
               r == (delta[Head(list)] - irq.tot) - s
    <2>3. SinceUpdate' = s /\ HeadIn' = r
        BY <1>1, <1>3, <2>1, DoneIs DEF SinceUpdate, HeadIn
    <2>4. s \in Nat /\ s <= (IF ticked THEN 1 ELSE 0)
        BY <1>1, TimesAre DEF CoverInv, InTime, Values
    <2>5. delta[Head(list)] \in Int /\ irq.tot \in Int /\ irq.tot < delta[Head(list)]
        BY <1>1, <1>3, DoneIs, ReachIs DEF Types, IrqTypes
    <2>6. Reach \in Nat /\ late \in Nat
        BY ReachIs DEF Types, CounterTypes
    <2>7. r >= 0 /\ (ticked \/ r >= 1) /\ s <= Reach + 3 + late
        <3> HIDE DEF s
        <3>1. CASE ticked
            BY <2>4, <2>5, <2>6, <3>1
        <3>2. CASE ~ticked
            BY <2>4, <2>5, <2>6, <3>2
        <3> QED
            BY <3>1, <3>2
    <2> HIDE DEF s, r
    <2>8. InterruptOn'
        BY <1>1, <1>3, <2>1 DEF InterruptOn
    <2>9. InTime'
        BY <1>1, <2>2, <2>3, <2>7 DEF InTime
    <2>10. CompareCovers'
        BY <2>1, <2>3, <2>7 DEF CompareCovers
    <2>11. IdleCovers' /\ WriteCovers'
        BY <2>1 DEF IdleCovers, WriteCovers
    <2> QED
        BY <2>8, <2>9, <2>10, <2>11 DEF CoverInv
<1> QED
    BY <1>2, <1>3

\* What a tick does to the times.
LEMMA TickTimes ==
    ASSUME Types, Tick
    PROVE  /\ SinceUpdate < Width - 1 => SinceUpdate' = SinceUpdate + 1
           /\ Minus(cnt, irq.cnt) < Width - 1 => Minus(cnt', irq'.cnt) = Minus(cnt, irq.cnt) + 1
           /\ Wait >= 1 => Wait' = Wait - 1
           /\ Wait = 1 <=> cnt' = ccv
           /\ Minus(irq.write, cnt) >= 1 => Minus(irq'.write, cnt') = Minus(irq.write, cnt) - 1
<1>1. /\ cnt \in Values /\ last_delta_update_count \in Values /\ ccv \in Values
      /\ irq.cnt \in Values /\ irq.write \in Values
    BY DEF Types, CounterTypes, IrqTypes
<1>2. /\ cnt' = (cnt + 1) % Width /\ ccv' = ccv /\ irq' = irq
      /\ last_delta_update_count' = last_delta_update_count
    BY DEF Tick, listVars, rtccVars
<1>3. /\ SinceUpdate' = Minus((cnt + 1) % Width, last_delta_update_count)
      /\ Wait' = Minus(ccv, (cnt + 1) % Width)
    BY <1>2 DEF SinceUpdate, Wait
<1>4. SinceUpdate < Width - 1 => SinceUpdate' = SinceUpdate + 1
    BY <1>1, <1>3, TickMoves DEF SinceUpdate
<1>5. Minus(cnt, irq.cnt) < Width - 1 => Minus(cnt', irq'.cnt) = Minus(cnt, irq.cnt) + 1
    BY <1>1, <1>2, TickMoves
<1>6. /\ Wait >= 1 => Wait' = Wait - 1
      /\ Wait = 1 <=> cnt' = ccv
    BY <1>1, <1>2, <1>3, TickMoves DEF Wait
<1>7. Minus(irq.write, cnt) >= 1 => Minus(irq'.write, cnt') = Minus(irq.write, cnt) - 1
    BY <1>1, <1>2, TickMoves
<1> QED
    BY <1>4, <1>5, <1>6, <1>7

\* A tick brings the match nearer with the head, and sets the flag when it is
\* there.
LEMMA TickCovers ==
    ASSUME Types, CoverInv, Types', Tick
    PROVE  CoverInv'
<1> DEFINE S == SinceUpdate
           d == delta[Head(list)]
           W == Wait
           v == Minus(irq.write, cnt)
           m == Minus(cnt, irq.cnt)
<1>1. /\ UNCHANGED listVars /\ UNCHANGED rtccVars /\ UNCHANGED <<pc, then, irq>>
      /\ ~CanCall => ~ticked
      /\ Pending => late < Latency
      /\ ~Idle => busy < Ticks
      /\ busy' = IF Idle THEN 0 ELSE busy + 1
      /\ late' = IF Pending THEN late + 1 ELSE 0
      /\ if_comp' = (if_comp \/ (cc_on /\ cnt' = ccv))
      /\ ticked' = ~CanCall
    BY DEF Tick
<1>2. /\ list' = list /\ delta' = delta /\ cc_on' = cc_on /\ ien_comp' = ien_comp
      /\ ccv' = ccv /\ irq' = irq /\ pc' = pc /\ then' = then
    BY <1>1 DEF listVars, rtccVars
<1>3. /\ S < Width - 1 => S' = S + 1
      /\ m < Width - 1 => Minus(cnt', irq'.cnt) = m + 1
      /\ W >= 1 => W' = W - 1
      /\ W = 1 <=> cnt' = ccv
      /\ v >= 1 => Minus(irq'.write, cnt') = v - 1
    BY TickTimes
<1>4. /\ S \in Nat /\ W \in Nat /\ v \in Nat /\ m \in Nat /\ irq.tot \in Nat
      /\ list # <<>> => d \in 0 .. Reach
    BY TimesAre DEF Values, Types, IrqTypes
<1>5. /\ Reach \in Nat /\ Latency \in Nat /\ Ticks \in Nat /\ Width \in Nat
      /\ Reach + 3 + Latency + Ticks = Width - 1
      /\ late \in 0 .. Latency /\ busy \in 0 .. Ticks /\ late' \in Nat
    BY ReachIs DEF Types, CounterTypes
<1>6. (InLoop' <=> InLoop) /\ (Outside' <=> Outside)
    BY <1>2 DEF InLoop, Outside
<1>7. HeadIn = d - S /\ HeadIn' = d - S'
    BY <1>2 DEF HeadIn
<1>8. pc = "idle" => then = "idle"
    BY DEF Types, ModeTypes
<1> HIDE DEF S, d, W, v, m
<1>9. InterruptOn'
    BY <1>2, <1>6 DEF CoverInv, InterruptOn
<1>10. "comp" \in {pc', then'} => S' <= Longest'
    <2> SUFFICES ASSUME "comp" \in {pc, then}
                 PROVE  S' <= Longest'
        BY <1>2
    <2>1. pc # "idle"
        BY <1>8
    <2>2. busy < Ticks /\ busy' = busy + 1
        BY <1>1, <2>1 DEF Idle
    <2>3. S <= Reach + 3 + Latency + busy
        BY DEF CoverInv, InTime, Longest, S
    <2>4. S' = S + 1
        BY <1>3, <1>4, <1>5, <2>2, <2>3
    <2>5. Longest' = Reach + 3 + Latency + (busy + 1)
        BY <2>2 DEF Longest
    <2> QED
        BY <1>4, <1>5, <2>3, <2>4, <2>5
<1>11. InLoop' => irq'.tot + Minus(cnt', irq'.cnt) <= Longest'
    <2> SUFFICES ASSUME InLoop
                 PROVE  irq'.tot + Minus(cnt', irq'.cnt) <= Longest'
        BY <1>6
    <2>1. pc # "idle"
        BY <1>8 DEF InLoop
    <2>2. busy < Ticks /\ busy' = busy + 1
        BY <1>1, <2>1 DEF Idle
    <2>3. irq.tot + m <= Reach + 3 + Latency + busy
        BY DEF CoverInv, InTime, Longest, m
    <2>4. Minus(cnt', irq'.cnt) = m + 1
        BY <1>3, <1>4, <1>5, <2>2, <2>3
    <2>5. Longest' = Reach + 3 + Latency + (busy + 1)
        BY <2>2 DEF Longest
    <2>6. irq.tot + (m + 1) <= Reach + 3 + Latency + (busy + 1)
        BY <1>4, <1>5, <2>3
    <2> QED
        BY <1>2, <2>4, <2>5, <2>6
<1>12. pc' = "expire" => Minus(cnt', irq'.cnt) <= IF ticked' THEN 1 ELSE 0
    <2> SUFFICES ASSUME pc = "expire"
                 PROVE  Minus(cnt', irq'.cnt) <= IF ticked' THEN 1 ELSE 0
        BY <1>2
    <2>1. ~ticked /\ ticked'
        BY <1>1 DEF CanCall
    <2>2. m <= 0
        BY <2>1 DEF CoverInv, InTime, m
    <2>3. Minus(cnt', irq'.cnt) = 1
        BY <1>3, <1>4, <1>5, <2>2
    <2> QED
        BY <2>1, <2>3
<1>13. ASSUME Outside, list # <<>>, ~if_comp
       PROVE  S <= Reach + 2 /\ S' = S + 1 /\ HeadIn' = HeadIn - 1
    <2>1. Awaits
        BY <1>13 DEF Awaits
    <2>2. pc \in {"idle", "tick64", "compare", "write"}
        BY <1>13 DEF Outside, Types, ModeTypes
    <2>3. S <= Reach + 2
        <3>1. CASE pc \in {"idle", "tick64"}
            <4>1. Covered(S, HeadIn, W)
                BY <2>1, <3>1 DEF CoverInv, IdleCovers, S, W
            <4> QED
                BY <1>4, <1>5, <4>1 DEF Covered
        <3>2. CASE pc = "compare"
            <4>1. HeadIn >= 0 \/ Near(S, W, 2)
                BY <2>1, <3>2 DEF CoverInv, CompareCovers, S, W
            <4> QED
                BY <1>4, <1>5, <1>7, <1>13, <4>1 DEF Near
        <3>3. CASE pc = "write"
            <4>1. /\ Covered(S, HeadIn, v) \/ v = 0
                  /\ ticked \/ v >= 1
                BY <2>1, <3>3 DEF CoverInv, WriteCovers, S, v
            <4>2. ~ticked
                BY <1>1, <3>3 DEF CanCall
            <4>3. Covered(S, HeadIn, v)
                BY <4>1, <4>2
            <4> QED
                BY <1>4, <1>5, <4>3 DEF Covered
        <3> QED
            BY <2>2, <3>1, <3>2, <3>3
    <2>4. S' = S + 1
        BY <1>3, <1>4, <1>5, <2>3
    <2>5. HeadIn' = HeadIn - 1
        <3>1. HeadIn' = d - (S + 1)
            BY <1>7, <2>4
        <3> QED
            BY <1>4, <1>7, <1>13, <3>1
    <2> QED
        BY <2>3, <2>4, <2>5
<1>14. (Outside' /\ list' # <<>> /\ if_comp') => S' <= Reach + 3 + late'
    <2> SUFFICES ASSUME Outside, list # <<>>, if_comp'
                 PROVE  S' <= Reach + 3 + late'
        BY <1>2, <1>6
    <2>1. CASE if_comp
        <3>1. ~InLoop
            BY DEF Outside, InLoop
        <3>2. Pending
            BY <2>1, <3>1 DEF CoverInv, InterruptOn, Pending
        <3>3. late < Latency /\ late' = late + 1
            BY <1>1, <3>2
        <3>4. S <= Reach + 3 + late
            BY <2>1 DEF CoverInv, InTime, S
        <3>5. S' = S + 1
            BY <1>3, <1>4, <1>5, <3>3, <3>4
        <3>6. S + 1 <= Reach + 3 + (late + 1)
            BY <1>4, <1>5, <3>4
        <3> QED
            BY <3>3, <3>5, <3>6
    <2>2. CASE ~if_comp
        <3>1. S <= Reach + 2 /\ S' = S + 1
            BY <1>13, <2>2
        <3>2. \A n \in Nat : S + 1 <= Reach + 3 + n
            BY <1>4, <1>5, <3>1
        <3> QED
            BY <1>5, <3>1, <3>2
    <2> QED
        BY <2>1, <2>2
<1>15. InTime'
    BY <1>10, <1>11, <1>12, <1>14 DEF InTime, S
\* No match has come: a channel that is on has not been at its value.
<1>16. ASSUME Awaits'
       PROVE  /\ Awaits /\ S <= Reach + 2 /\ S' = S + 1 /\ HeadIn' = HeadIn - 1
              /\ HeadIn \in Int /\ (cc_on => W # 1)
    <2>1. Awaits /\ ~ (cc_on /\ cnt' = ccv)
        BY <1>1, <1>2, <1>6, <1>16 DEF Awaits
    <2>2. HeadIn \in Int
        BY <1>4, <1>7, <2>1 DEF Awaits
    <2> QED
        BY <1>3, <1>13, <2>1, <2>2 DEF Awaits
<1>17. IdleCovers'
    <2> SUFFICES ASSUME Awaits', pc \in {"idle", "tick64"}
                 PROVE  cc_on /\ Covered(S', HeadIn', W')
        BY <1>2 DEF IdleCovers, S, W
    <2>1. cc_on /\ Covered(S, HeadIn, W)
        BY <1>16 DEF CoverInv, IdleCovers, S, W
    <2>2. W # 1 /\ W >= 1
        BY <1>16, <2>1 DEF Covered
    <2>3. W' = W - 1 /\ S' = S + 1 /\ HeadIn' = HeadIn - 1
        BY <1>3, <1>16, <2>2
    <2>4. Covered(S + 1, HeadIn - 1, W - 1)
        BY <1>4, <1>5, <1>16, <2>1, <2>2 DEF Covered
    <2> QED
        BY <2>1, <2>3, <2>4
<1>18. CompareCovers'
    <2> SUFFICES ASSUME Awaits', pc = "compare"
                 PROVE  /\ HeadIn' >= 0 \/ (cc_on /\ Near(S', W', 2))
                        /\ ticked'
        BY <1>2 DEF CompareCovers, S, W
    <2>1. ~ticked /\ ticked'
        BY <1>1 DEF CanCall
    <2>2. HeadIn >= 1 \/ (cc_on /\ Near(S, W, 3))
        BY <1>16, <2>1 DEF CoverInv, CompareCovers, S, W
    <2>3. S' = S + 1 /\ HeadIn' = HeadIn - 1 /\ HeadIn \in Int
        BY <1>16
    <2>4. CASE HeadIn >= 1
        <3>1. HeadIn - 1 >= 0
            BY <2>3, <2>4
        <3> QED
            BY <2>1, <2>3, <3>1
    <2>5. CASE cc_on /\ Near(S, W, 3)
        <3>1. W >= 1 /\ W # 1
            BY <1>16, <2>5 DEF Near
        <3>2. W' = W - 1
            BY <1>3, <3>1
        <3>3. Near(S + 1, W - 1, 2)
            BY <1>4, <1>5, <2>5, <3>1 DEF Near
        <3> QED
            BY <2>1, <2>3, <2>5, <3>2, <3>3
    <2> QED
        BY <2>2, <2>4, <2>5
<1>19. WriteCovers'
    <2> DEFINE n == Minus(irq'.write, cnt')
    <2> SUFFICES ASSUME Awaits', pc = "write"
                 PROVE  /\ Covered(S', HeadIn', n) \/ (~cc_on /\ n = 0 /\ S' <= Reach + 3)
                        /\ ticked'
        BY <1>2 DEF WriteCovers, S
    <2>1. ~ticked /\ ticked'
        BY <1>1 DEF CanCall
    <2>2. /\ Covered(S, HeadIn, v) \/ v = 0
          /\ v >= 1 /\ (v >= 2 \/ ~cc_on \/ ccv = irq.write)
        BY <1>16, <2>1 DEF CoverInv, WriteCovers, S, v
    <2>3. Covered(S, HeadIn, v) /\ v >= 1
        BY <2>2
    <2>4. /\ S' = S + 1 /\ HeadIn' = HeadIn - 1 /\ HeadIn \in Int /\ S <= Reach + 2
          /\ n = v - 1
        BY <1>3, <1>16, <2>3
    <2> HIDE DEF n
    <2>5. CASE v >= 2
        <3>1. Covered(S + 1, HeadIn - 1, v - 1)
            BY <1>4, <1>5, <2>3, <2>4, <2>5 DEF Covered
        <3> QED
            BY <2>1, <2>4, <3>1
    <2>6. CASE ~ (v >= 2)
        <3>1. v = 1
            BY <1>4, <2>3, <2>6
        <3>2. ccv = irq.write => W = v
            BY DEF W, v, Wait
        <3>3. ~cc_on
            BY <1>16, <2>2, <2>6, <3>1, <3>2
        <3>4. v - 1 = 0 /\ S + 1 <= Reach + 3
            BY <1>4, <1>5, <2>4, <3>1
        <3> QED
            BY <2>1, <2>4, <3>3, <3>4
    <2> QED
        BY <2>5, <2>6
<1> QED
    BY <1>9, <1>15, <1>17, <1>18, <1>19 DEF CoverInv

\* So every step keeps the cover,
LEMMA CoverStep ==
    ASSUME Types, CoverInv, [SleepTimerNext]_vars
    PROVE  CoverInv'
<1>1. Types'
    BY TypesStep
<1>2. ASSUME NEW h \in Timers, NEW t \in Timeouts, NEW q \in Timeouts \union {0},
             MayStart(h), Create(h, t, q)
      PROVE  CoverInv'
    BY <1>1, <1>2, CreateCovers
<1>3. ASSUME NEW h \in Timers, Stop(h)
      PROVE  CoverInv'
    BY <1>1, <1>3, StopCovers
<1>4. CASE Update
    BY <1>1, <1>4, UpdateCallCovers
<1>5. CASE ReadTick64 \/ ReturnTick64
    BY <1>1, <1>5, Tick64Covers
<1>6. CASE SetCompareReads
    BY <1>1, <1>6, ReadsCovers
<1>7. CASE SetCompareWrites
    BY <1>1, <1>7, WritesCovers
<1>8. CASE IrqEnter
    BY <1>1, <1>8, EnterCovers
<1>9. CASE IrqComp
    BY <1>9, CompCovers
<1>10. CASE Expire
    BY <1>1, <1>10, ExpireCovers
<1>11. CASE Called
    BY <1>11, CalledCovers
<1>12. CASE IrqDone
    BY <1>1, <1>12, DoneCovers
<1>13. CASE Tick
    BY <1>1, <1>13, TickCovers
<1>14. CASE UNCHANGED timerVars
    BY <1>14 DEF timerVars, listVars, rtccVars, flagVars, timeVars, CoverInv, InterruptOn, InTime,
       IdleCovers, CompareCovers, WriteCovers, Awaits, Outside, InLoop, Longest, SinceUpdate,
       HeadIn, Wait
<1> QED
    BY <1>2, <1>3, <1>4, <1>5, <1>6, <1>7, <1>8,
       <1>9, <1>10, <1>11, <1>12, <1>13, <1>14, NextIs

\* and it holds throughout.
LEMMA CoverHolds == Contended = {} /\ SleepTimerSpec => []CoverInv
<1>1. SleepTimerInit => CoverInv
    BY CoverInit
<1>2. Types /\ CoverInv /\ [SleepTimerNext]_vars => CoverInv'
    BY CoverStep
<1> QED
    BY <1>1, <1>2, TypesHold, PTL DEF SleepTimerSpec

\* The comparator covers the first timer whenever the masked code is left, for
\* every set of timers and width of the counter.
THEOREM ComparatorCoversHolds ==
    ASSUME Contended = {}
    PROVE  SleepTimerSpec => []ComparatorCovers
<1>1. ASSUME Types, CoverInv
      PROVE  ComparatorCovers
    <2>1. SUFFICES ASSUME pc = "idle", list # <<>>
                   PROVE  /\ ien_comp
                          /\ \/ if_comp
                             \/ /\ cc_on
                                /\ Wait \in 1 .. 1 + Max({MIN_DIFF, remaining[Head(list)]})
        BY DEF ComparatorCovers, Idle, Wait
    <2>2. then = "idle" /\ ~InLoop /\ Outside
        BY <1>1, <2>1 DEF Types, ModeTypes, InLoop, Outside
    <2>3. ien_comp
        BY <1>1, <2>1, <2>2 DEF CoverInv, InterruptOn
    <2>4. CASE if_comp
        BY <2>3, <2>4
    <2>5. CASE ~if_comp
        <3>1. cc_on /\ Covered(SinceUpdate, HeadIn, Wait)
            BY <1>1, <2>1, <2>2, <2>5 DEF CoverInv, IdleCovers, Awaits
        <3>2. remaining[Head(list)] = HeadIn
            <4>1. DeltaList(list, delta)
                BY <1>1 DEF Types, ListTypes
            <4>2. /\ 1 \in 1 .. Len(list) /\ Head(list) = list[1]
                  /\ Elapsed(list, delta, 1) = delta[Head(list)]
                BY <2>1, <4>1, DeltaListTypes, FirstElapsed
            <4>3. Position(list, Head(list)) = 1
                <5>1. list \in Lists /\ IsInjective(list)
                    BY <4>1, DeltaListTypes DEF DeltaList
                <5> QED
                    BY <4>2, <5>1, PositionIs
            <4>4. Head(list) \in Range(list)
                BY <4>1, <4>2 DEF Range, DeltaList
            <4> QED
                BY <2>2, <4>2, <4>3, <4>4 DEF remaining, Since, HeadIn
        <3>3. HeadIn \in Int /\ Wait \in Nat /\ SinceUpdate \in Nat /\ MIN_DIFF = 2
            BY <1>1, <2>1, TimesAre DEF Values, HeadIn, MIN_DIFF
        <3> DEFINE M == Max({MIN_DIFF, HeadIn})
        <3>4. M \in {2, HeadIn} /\ M >= 2 /\ M >= HeadIn
            <4>1. \E x \in {2, HeadIn} : \A y \in {2, HeadIn} : x >= y
                <5>1. CASE HeadIn >= 2
                    BY <3>3, <5>1
                <5>2. CASE ~ (HeadIn >= 2)
                    BY <3>3, <5>2
                <5> QED
                    BY <5>1, <5>2
            <4>2. M = CHOOSE x \in {2, HeadIn} : \A y \in {2, HeadIn} : x >= y
                BY <3>3 DEF Max
            <4> QED
                BY <4>1, <4>2
        <3>5. Wait >= 1 /\ (Wait <= 3 \/ Wait <= HeadIn + 1)
            BY <3>1 DEF Covered
        <3> HIDE DEF M
        <3>6. Wait \in 1 .. 1 + M
            BY <3>3, <3>4, <3>5
        <3> QED
            BY <2>3, <3>1, <3>2, <3>6 DEF M
    <2> QED
        BY <2>4, <2>5
<1> QED
    BY <1>1, TypesHold, CoverHolds, PTL

\* What has elapsed belongs to the interrupt's loop.
AtRest == InLoop \/ irq.tot = 0

\* The loop starts with a sum of its own and clears it at its end.
LEMMA AtRestStep ==
    ASSUME Types, AtRest, [SleepTimerNext]_vars
    PROVE  AtRest'
<1>1. ASSUME NEW h \in Timers, NEW t \in Timeouts, NEW q \in Timeouts \union {0}, Create(h, t, q)
      PROVE  AtRest'
    <2>1. irq' = irq /\ (pc = "callback" => InLoop') /\ pc \in {"idle", "callback"}
        BY <1>1 DEF Create, CompareNext, CompareKept, CanCall, InLoop
    <2> QED
        BY <2>1 DEF AtRest, InLoop, Types, ModeTypes
<1>2. ASSUME NEW h \in Timers, Stop(h)
      PROVE  AtRest'
    <2>1. irq' = irq /\ (pc = "callback" => InLoop') /\ pc \in {"idle", "callback"}
        BY <1>2 DEF Stop, CompareNext, CompareOff, CompareKept, CanCall, InLoop
    <2> QED
        BY <2>1 DEF AtRest, InLoop, Types, ModeTypes
<1>3. CASE Update
    BY <1>3 DEF Update, AtRest, InLoop, CanCall, Types, ModeTypes
<1>4. CASE ReadTick64
    BY <1>4 DEF ReadTick64, AtRest, InLoop, CanCall, Types, ModeTypes
<1>5. CASE ReturnTick64
    BY <1>5 DEF ReturnTick64, AtRest, InLoop, Types, ModeTypes
<1>6. CASE SetCompareReads
    <2>1. irq'.tot = irq.tot /\ then' = then /\ pc = "compare" /\ pc' = "write"
        BY <1>6 DEF SetCompareReads, Types, IrqTypes
    <2> QED
        BY <2>1 DEF AtRest, InLoop
<1>7. CASE SetCompareWrites
    <2>1. irq'.tot = irq.tot /\ pc' = then /\ pc = "write"
        BY <1>7 DEF SetCompareWrites, Types, IrqTypes
    <2> QED
        BY <2>1 DEF AtRest, InLoop
<1>8. CASE IrqEnter
    <2>1. irq' = irq /\ pc = "idle"
        BY <1>8 DEF IrqEnter, Idle
    <2> QED
        BY <2>1 DEF AtRest, InLoop, Types, ModeTypes
<1>9. CASE IrqComp
    BY <1>9 DEF IrqComp, AtRest, InLoop, Types, ModeTypes
<1>10. CASE Expire
    BY <1>10 DEF Expire, AtRest, InLoop, Types, ModeTypes
<1>11. CASE Called
    BY <1>11 DEF Called, AtRest, InLoop, Types, ModeTypes
<1>12. CASE IrqDone
    <2>1. irq'.tot = 0
        BY <1>12 DEF IrqDone, NoIrq
    <2> QED
        BY <2>1 DEF AtRest
<1>13. CASE Tick
    BY <1>13 DEF Tick, AtRest, InLoop, CanCall, Types, ModeTypes
<1>14. CASE UNCHANGED timerVars
    BY <1>14 DEF timerVars, AtRest, InLoop, Types, ModeTypes
<1> QED
    BY <1>1, <1>2, <1>3, <1>4, <1>5, <1>6, <1>7, <1>8,
       <1>9, <1>10, <1>11, <1>12, <1>13, <1>14, NextIs

\* So it holds throughout.
LEMMA AtRestHolds == Contended = {} /\ SleepTimerSpec => []AtRest
<1>1. SleepTimerInit => AtRest
    BY DEF SleepTimerInit, AtRest, NoIrq
<1>2. Types /\ AtRest /\ [SleepTimerNext]_vars => AtRest'
    BY AtRestStep
<1> QED
    BY <1>1, <1>2, TypesHold, PTL DEF SleepTimerSpec

\* A timer is in the list once, whatever comes between the check of its start
\* and its insertion, for callers that start no timer twice at once; its delta
\* is one the counter can reach, and the interrupt's sum of what has elapsed
\* never reaches the counter's width.
THEOREM TimersTypeOKHolds ==
    ASSUME Contended = {}
    PROVE  SleepTimerSpec => []TimersTypeOK
<1>1. ASSUME Types, CoverInv, AtRest
      PROVE  TimersTypeOK
    <2>1. IsInjective(list) /\ Range(list) \subseteq Timers
        BY <1>1 DEF Types, ListTypes, DeltaList, Range
    <2>2. delta \in [Timers -> Values]
        <3>1. delta \in [Timers -> 0 .. Reach] /\ 0 .. Reach \subseteq Values
            BY <1>1, ReachIs DEF Types, ListTypes, DeltaList, Values
        <3> QED
            BY <3>1
    <2>3. irq.tot \in Values
        <3>1. irq.tot \in Nat /\ Minus(cnt, irq.cnt) \in Nat /\ busy \in 0 .. Ticks
            BY <1>1, TimesAre DEF Types, IrqTypes, CounterTypes, Values
        <3>2. CASE InLoop
            <4>1. irq.tot + Minus(cnt, irq.cnt) <= Reach + 3 + Latency + busy
                BY <1>1, <3>2 DEF CoverInv, InTime, Longest
            <4> QED
                BY <3>1, <4>1, ReachIs DEF Values
        <3>3. CASE ~InLoop
            BY <1>1, <3>3, SmallValues DEF AtRest
        <3> QED
            BY <3>2, <3>3
    <2>4. /\ irq.current \in Timers \union {NoTimer} /\ irq.cnt \in Values
          /\ irq.write \in Values /\ irq.fired \in 0 .. 2
        BY <1>1 DEF Types, IrqTypes
    <2>5. /\ {last_delta_update_count, cnt, ccv, tick_cnt} \subseteq Values
          /\ {overflow_counter, epoch} \subseteq 0 .. Epochs - 1
          /\ late \in 0 .. Latency /\ busy \in 0 .. Ticks
        BY <1>1 DEF Types, CounterTypes
    <2>6. /\ {next_timer_to_expire_is_power_manager, sleep_on_isr_exit, cc_on,
              ien_comp, if_of, if_comp, ticked} \subseteq BOOLEAN
        BY <1>1 DEF Types, FlagTypes
    <2>7. /\ pc \in {"idle", "compare", "write", "tick64", "comp", "expire", "callback"}
          /\ then \in {"idle", "comp", "callback"}
          /\ timeout_periodic \in [Timers -> Timeouts \union {0}]
        BY <1>1 DEF Types, ModeTypes, ListTypes
    <2>8. starting \subseteq Uses
        BY <1>1 DEF Types, Starts
    <2> QED
        BY <2>1, <2>2, <2>3, <2>4, <2>5, <2>6, <2>7, <2>8 DEF TimersTypeOK
<1> QED
    BY <1>1, TypesHold, CoverHolds, AtRestHolds, PTL

-----------------------------------------------------------------------------
(* Deadlines *)

\* A tick does not take the counter once around what the code measures from.
LEMMA LoopRoom ==
    ASSUME Types, CoverInv, Tick, InLoop
    PROVE  Minus(cnt, irq.cnt) < Width - 1
<1>1. pc # "idle"
    BY DEF InLoop, Types, ModeTypes
<1>2. busy < Ticks
    BY <1>1 DEF Tick, Idle
<1>3. irq.tot + Minus(cnt, irq.cnt) <= Reach + 3 + Latency + busy
    BY DEF CoverInv, InTime, Longest
<1>4. irq.tot \in Nat /\ Minus(cnt, irq.cnt) \in Nat /\ busy \in Nat
    BY TimesAre DEF Types, IrqTypes, CounterTypes, Values
<1> QED
    BY <1>2, <1>3, <1>4, ReachIs

\* Nor around the list's origin.
LEMMA ListRoom ==
    ASSUME Types, CoverInv, Tick, ~InLoop, list # <<>>
    PROVE  SinceUpdate < Width - 1
<1>1. /\ SinceUpdate \in Nat /\ Wait \in Nat /\ Minus(irq.write, cnt) \in Nat
      /\ delta[Head(list)] \in 0 .. Reach
      /\ late \in Nat /\ busy \in Nat
    BY TimesAre DEF Types, CounterTypes, Values
<1>2. /\ Reach \in Nat /\ Latency \in Nat /\ Ticks \in Nat /\ Width \in Nat
      /\ Reach + 3 + Latency + Ticks = Width - 1
    BY ReachIs
<1>3. Pending => late < Latency
    BY DEF Tick
<1>4. pc # "idle" => busy < Ticks
    BY DEF Tick, Idle
<1>5. CASE "comp" \in {pc, then}
    <2>1. pc # "idle"
        BY <1>5 DEF Types, ModeTypes
    <2>2. SinceUpdate <= Reach + 3 + Latency + busy
        BY <1>5 DEF CoverInv, InTime, Longest
    <2> QED
        BY <1>1, <1>2, <1>4, <2>1, <2>2
<1>6. CASE "comp" \notin {pc, then}
    <2>1. Outside /\ pc \in {"idle", "tick64", "compare", "write"}
        BY <1>6 DEF InLoop, Outside, Types, ModeTypes
    <2>2. CASE if_comp
        <3>1. SinceUpdate <= Reach + 3 + late
            BY <2>1, <2>2 DEF CoverInv, InTime
        <3>2. Pending
            BY <2>2 DEF Pending, CoverInv, InterruptOn
        <3> QED
            BY <1>1, <1>2, <1>3, <3>1, <3>2
    <2>3. CASE ~if_comp
        <3>1. Awaits
            BY <2>1, <2>3 DEF Awaits
        <3>2. CASE pc \in {"idle", "tick64"}
            <4>1. Wait >= 1 /\ SinceUpdate + Wait <= Reach + 3
                BY <3>1, <3>2 DEF CoverInv, IdleCovers, Covered
            <4> QED
                BY <1>1, <1>2, <4>1
        <3>3. CASE pc = "compare"
            <4>1. HeadIn >= 0 \/ Near(SinceUpdate, Wait, 2)
                BY <3>1, <3>3 DEF CoverInv, CompareCovers
            <4>2. CASE HeadIn >= 0
                BY <1>1, <1>2, <4>2 DEF HeadIn
            <4>3. CASE Near(SinceUpdate, Wait, 2)
                <5>1. Wait >= 1 /\ SinceUpdate + Wait <= Reach + 3
                    BY <1>1, <4>3 DEF Near
                <5> QED
                    BY <1>1, <1>2, <5>1
            <4> QED
                BY <4>1, <4>2, <4>3
        <3>4. CASE pc = "write"
            <4> DEFINE v == Minus(irq.write, cnt)
            <4>1. Covered(SinceUpdate, HeadIn, v) \/ SinceUpdate <= Reach + 3
                BY <3>1, <3>4 DEF CoverInv, WriteCovers
            <4>2. Covered(SinceUpdate, HeadIn, v) => v >= 1 /\ SinceUpdate + v <= Reach + 3
                BY DEF Covered
            <4>3. busy < Ticks
                BY <1>4, <3>4
            <4> HIDE DEF v
            <4>4. v \in Nat
                BY <1>1 DEF v
            <4> QED
                BY <1>1, <1>2, <4>1, <4>2, <4>3, <4>4
        <3> QED
            BY <2>1, <3>2, <3>3, <3>4
    <2> QED
        BY <2>2, <2>3
<1> QED
    BY <1>5, <1>6

\* What the deadlines are measured from.
LEMMA SinceIs ==
    ASSUME Types
    PROVE  Since \in Nat
BY TimesAre DEF Since, Values, Types, IrqTypes

\* A tick adds one to it.
LEMMA SinceTicks ==
    ASSUME Types, CoverInv, Tick, InLoop \/ list # <<>>
    PROVE  Since' = Since + 1
<1>1. pc' = pc /\ then' = then /\ irq' = irq
    BY DEF Tick
<1>2. InLoop' <=> InLoop
    BY <1>1 DEF InLoop
<1>3. CASE InLoop
    <2>1. Minus(cnt', irq'.cnt) = Minus(cnt, irq.cnt) + 1
        BY <1>3, LoopRoom, TickTimes
    <2>2. Since' = irq.tot + Minus(cnt', irq'.cnt) /\ Since = irq.tot + Minus(cnt, irq.cnt)
        BY <1>1, <1>2, <1>3 DEF Since
    <2>3. irq.tot \in Nat /\ Minus(cnt, irq.cnt) \in Nat
        BY TimesAre DEF Types, IrqTypes, Values
    <2> QED
        BY <2>1, <2>2, <2>3
<1>4. CASE ~InLoop
    <2>1. SinceUpdate' = SinceUpdate + 1
        BY <1>4, ListRoom, TickTimes
    <2> QED
        BY <1>2, <1>4, <2>1 DEF Since
<1> QED
    BY <1>3, <1>4

\* While a callback runs and the counter has not ticked, no time has passed for
\* the list either, so that a call of the callback's moves nothing.
CallInv ==
    ("callback" \in {pc, then} /\ cnt = irq.cnt) => last_delta_update_count = cnt

\* update_first_timer_delta when no time has passed.
LEMMA UpdatedNow ==
    ASSUME Types, last_delta_update_count = cnt
    PROVE  Updated.last = cnt /\ SinceUpdate = 0
<1>1. SinceUpdate = 0
    BY MinusSelf DEF SinceUpdate, Types, CounterTypes
<1>2. list # <<>> => delta[Head(list)] >= SinceUpdate
    BY <1>1, TimesAre, ReachIs
<1> QED
    BY <1>1, <1>2 DEF Updated

\* Only the counter's tick ends that.
LEMMA CallStep ==
    ASSUME Types, CoverInv, CallInv, [SleepTimerNext]_vars
    PROVE  CallInv'
<1>1. ASSUME NEW h \in Timers, NEW t \in Timeouts, NEW q \in Timeouts \union {0}, Create(h, t, q)
      PROVE  CallInv'
    <2>1. /\ last_delta_update_count' = Updated.last /\ cnt' = cnt /\ irq' = irq
          /\ "callback" \in {pc', then'} => pc = "callback"
        BY <1>1 DEF Create, CanCall, CompareNext, CompareKept, timeVars
    <2>2. CallInv' \/ last_delta_update_count = cnt
        BY <2>1 DEF CallInv
    <2>3. last_delta_update_count = cnt => Updated.last = cnt
        BY UpdatedNow
    <2> QED
        BY <2>1, <2>2, <2>3 DEF CallInv
<1>2. ASSUME NEW h \in Timers, Stop(h)
      PROVE  CallInv'
    <2>1. /\ last_delta_update_count' = Updated.last /\ cnt' = cnt /\ irq' = irq
          /\ "callback" \in {pc', then'} => pc = "callback"
        BY <1>2 DEF Stop, CanCall, CompareNext, CompareOff, CompareKept, timeVars
    <2>2. CallInv' \/ last_delta_update_count = cnt
        BY <2>1 DEF CallInv
    <2>3. last_delta_update_count = cnt => Updated.last = cnt
        BY UpdatedNow
    <2> QED
        BY <2>1, <2>2, <2>3 DEF CallInv
<1>3. CASE Update
    BY <1>3, UpdatedNow DEF Update, CallInv, timeVars
<1>4. CASE ReadTick64
    BY <1>4 DEF ReadTick64, CallInv, timeVars, listVars, CanCall
<1>5. CASE ReturnTick64
    BY <1>5 DEF ReturnTick64, CallInv, timeVars, listVars
<1>6. CASE SetCompareReads
    BY <1>6 DEF SetCompareReads, CallInv, timeVars, listVars, Types, IrqTypes
<1>7. CASE SetCompareWrites
    BY <1>7 DEF SetCompareWrites, CallInv, timeVars, listVars, Types, IrqTypes
<1>8. CASE IrqEnter
    <2>1. pc = "idle" /\ "callback" \notin {pc', then'}
        BY <1>8 DEF IrqEnter, Idle, CompareNext, CompareKept
    <2> QED
        BY <2>1 DEF CallInv
<1>9. CASE IrqComp
    BY <1>9 DEF IrqComp, CallInv, Types, ModeTypes
<1>10. CASE Expire
    <2>1. irq'.cnt = irq.cnt /\ last_delta_update_count' = irq.cnt /\ cnt' = cnt
        BY <1>10 DEF Expire, timeVars, Types, IrqTypes
    <2> QED
        BY <2>1 DEF CallInv
<1>11. CASE Called
    BY <1>11 DEF Called, CallInv, Types, ModeTypes
<1>12. CASE IrqDone
    <2>1. "callback" \notin {pc', then'}
        BY <1>12 DEF IrqDone, CompareNext, CompareOff
    <2> QED
        BY <2>1 DEF CallInv
<1>13. CASE Tick
    <2> SUFFICES ASSUME "callback" \in {pc', then'}
                 PROVE  cnt' # irq'.cnt
        BY DEF CallInv
    <2>1. InLoop
        BY <1>13 DEF Tick, InLoop
    <2>2. Minus(cnt', irq'.cnt) = Minus(cnt, irq.cnt) + 1
        BY <1>13, <2>1, LoopRoom, TickTimes
    <2>3. Minus(cnt, irq.cnt) \in Nat /\ irq'.cnt \in Values
        BY <1>13, TimesAre DEF Tick, Values, Types, IrqTypes
    <2>4. Minus(cnt', irq'.cnt) # 0
        BY <2>2, <2>3
    <2>5. Minus(irq'.cnt, irq'.cnt) = 0
        BY <2>3, MinusSelf
    <2> QED
        BY <2>4, <2>5
<1>14. CASE UNCHANGED timerVars
    BY <1>14 DEF timerVars, CallInv, timeVars, listVars
<1> QED
    BY <1>1, <1>2, <1>3, <1>4, <1>5, <1>6, <1>7, <1>8,
       <1>9, <1>10, <1>11, <1>12, <1>13, <1>14, NextIs

\* It holds throughout.
LEMMA CallHolds == Contended = {} /\ SleepTimerSpec => []CallInv
<1>1. SleepTimerInit => CallInv
    BY DEF SleepTimerInit, CallInv
<1>2. Types /\ CoverInv /\ CallInv /\ [SleepTimerNext]_vars => CallInv'
    BY CallStep
<1> QED
    BY <1>1, <1>2, TypesHold, CoverHolds, PTL DEF SleepTimerSpec

\* What the deadlines are measured from after update_first_timer_delta.
UpdatedSince == IF InLoop THEN Since ELSE Minus(cnt, Updated.last)

\* update_first_timer_delta keeps them, if no timer is overdue.
LEMMA UpdatedMoves ==
    ASSUME Types, CallInv, CanCall, ~behind
    PROVE  /\ UpdatedSince = 0
           /\ \A h \in Range(list) : TimeOf(list, Updated.delta, h) = TimeOf(list, delta, h) - Since
<1>1. /\ DeltaList(list, delta) /\ cnt \in Values /\ irq.cnt \in Values
      /\ irq.tot \in Nat /\ Minus(cnt, irq.cnt) \in Nat /\ SinceUpdate \in Nat
    BY TimesAre DEF Types, ListTypes, CounterTypes, IrqTypes, Values
<1>2. CASE list = <<>>
    <2>1. Updated.delta = delta /\ Updated.last = cnt /\ Range(list) = {}
        BY <1>2 DEF Updated, Range
    <2>2. Minus(cnt, Updated.last) = 0
        BY <1>1, <2>1, MinusSelf
    <2>3. InLoop => Since = 0
        BY SinceIs DEF behind
    <2> QED
        BY <2>1, <2>2, <2>3 DEF UpdatedSince
<1>3. CASE list # <<>>
    <2> DEFINE d == delta[Head(list)]
    <2>1. d \in 0 .. Reach /\ d \in Nat
        BY <1>3, TimesAre, ReachIs
    <2>2. Since \in Nat /\ d >= Since /\ (InLoop => Since = 0)
        BY <1>3, <2>1, SinceIs DEF behind
    <2>3. SinceUpdate = Since
        <3>1. CASE InLoop
            <4>1. pc = "callback"
                BY <3>1 DEF CanCall, InLoop, Types, ModeTypes
            <4>2. Since = irq.tot + Minus(cnt, irq.cnt) /\ Since = 0
                BY <2>2, <3>1 DEF Since
            <4>3. Minus(cnt, irq.cnt) = 0
                BY <1>1, <4>2
            <4>4. cnt = irq.cnt
                BY <1>1, <4>3, MinusZero
            <4>5. last_delta_update_count = cnt
                BY <4>1, <4>4 DEF CallInv
            <4> QED
                BY <4>2, <4>5, UpdatedNow
        <3>2. CASE ~InLoop
            BY <3>2 DEF Since
        <3> QED
            BY <3>1, <3>2
    <2>4. Updated.last = cnt /\ Updated.delta = [delta EXCEPT ![Head(list)] = @ - Since]
        BY <1>3, <2>2, <2>3 DEF Updated
    <2>5. Minus(cnt, Updated.last) = 0
        BY <1>1, <2>4, MinusSelf
    <2>6. Since \in 0 .. d
        BY <2>1, <2>2
    <2>7. \A h \in Range(list) :
              TimeOf(list, [delta EXCEPT ![Head(list)] = @ - Since], h) = TimeOf(list, delta, h) - Since
        BY <1>1, <1>3, <2>6, LowerMoves
    <2> QED
        BY <2>2, <2>4, <2>5, <2>7 DEF UpdatedSince
<1> QED
    BY <1>2, <1>3

\* What maps to the variable of Deadlines, before and after a step.
LEMMA RemainingIs ==
    /\ DOMAIN remaining = Range(list)
    /\ \A h \in Range(list) : remaining[h] = TimeOf(list, delta, h) - Since
    /\ DOMAIN remaining' = Range(list')
    /\ \A h \in Range(list') : remaining'[h] = TimeOf(list', delta', h) - Since'
<1>1. remaining = [h \in Range(list) |-> TimeOf(list, delta, h) - Since]
    BY DEF remaining, TimeOf
<1>2. remaining' = [h \in Range(list') |-> TimeOf(list', delta', h) - Since']
    BY DEF remaining, TimeOf
<1> QED
    BY <1>1, <1>2

\* The times are integers.
LEMMA RemainingInt ==
    ASSUME Types
    PROVE  \A h \in Range(list) : TimeOf(list, delta, h) \in Nat /\ remaining[h] \in Int
<1> TAKE h \in Range(list)
<1>1. DeltaList(list, delta)
    BY DEF Types, ListTypes
<1>2. PICK i \in 1 .. Len(list) : list[i] = h
    BY <1>1, PlaceOf
<1>3. TimeOf(list, delta, h) \in 0 .. Reach
    BY <1>1, <1>2, TimeAt
<1> QED
    BY <1>3, ReachIs, SinceIs, RemainingIs

\* No deadline moves.
LEMMA RefreshMapped ==
    ASSUME Types, Range(list') = Range(list),
           ~behind => \A h \in Range(list) : remaining'[h] = remaining[h]
    PROVE  Kept!Refresh
<1>1. DOMAIN remaining = Range(list) /\ DOMAIN remaining' = Range(list)
    BY RemainingIs
<1>2. \A h \in Range(list) : remaining[h] \in Int
    BY RemainingInt
<1> HIDE DEF remaining, behind
<1>3. ASSUME ~behind, NEW h \in Range(list)
      PROVE  IF remaining[h] > 0 THEN remaining'[h] = remaining[h] ELSE remaining'[h] <= 0
    <2>1. remaining'[h] = remaining[h] /\ remaining[h] \in Int
        BY <1>2, <1>3
    <2> QED
        BY <2>1
<1> QED
    BY <1>1, <1>3 DEF Kept!Refresh, Kept!Untouched, Kept!Running

\* After a call the deadlines are measured from there.
LEMMA CallSince ==
    ASSUME Types, CanCall, irq' = irq, cnt' = cnt, last_delta_update_count' = Updated.last,
           InLoop' <=> InLoop
    PROVE  Since' = UpdatedSince
BY DEF Since, UpdatedSince, SinceUpdate

\* create_timer starts a deadline, of the timeout it is given.
LEMMA CreateMapped ==
    ASSUME Types, CallInv,
           NEW h \in Timers, NEW t \in Timeouts, NEW q \in Timeouts \union {0},
           MayStart(h), Create(h, t, q)
    PROVE  Kept!Start(h)
<1> DEFINE n == Insert(list, Updated.delta, h, t)
<1>1. CanCall /\ list' = n.list /\ delta' = n.delta /\ h \notin Range(list)
    BY DEF Create, MayStart, Running, Range
<1>2. Since' = UpdatedSince
    <2>1. irq' = irq /\ cnt' = cnt /\ last_delta_update_count' = Updated.last
        BY DEF Create, timeVars
    <2>2. InLoop' <=> InLoop
        BY DEF Create, CanCall, CompareNext, CompareKept, InLoop, Types, ModeTypes
    <2> QED
        BY <1>1, <2>1, <2>2, CallSince
<1>3. DeltaList(list, Updated.delta) /\ t \in 0 .. Reach /\ t \in Nat
    BY UpdatedIs, ReachIs
<1>4. /\ Range(n.list) = Range(list) \union {h}
      /\ TimeOf(n.list, n.delta, h) = t
      /\ \A k \in Range(list) : TimeOf(n.list, n.delta, k) = TimeOf(list, Updated.delta, k)
    BY <1>1, <1>3, InsertKeeps, InsertMoves
<1> HIDE DEF n
<1>5. DOMAIN remaining = Range(list) /\ DOMAIN remaining' = Range(list) \union {h}
    BY <1>1, <1>4, RemainingIs
<1>6. ASSUME ~behind
      PROVE  remaining'[h] = t
    <2>1. Since' = 0
        BY <1>1, <1>2, <1>6, UpdatedMoves
    <2>2. remaining'[h] = TimeOf(list', delta', h) - Since'
        BY <1>1, <1>4, RemainingIs
    <2> QED
        BY <1>1, <1>3, <1>4, <2>1, <2>2
<1>7. ASSUME ~behind, NEW k \in Range(list)
      PROVE  remaining'[k] = remaining[k] /\ remaining[k] \in Int
    <2>1. /\ Since' = 0
          /\ TimeOf(list, Updated.delta, k) = TimeOf(list, delta, k) - Since
        BY <1>1, <1>2, <1>7, UpdatedMoves
    <2>2. /\ remaining'[k] = TimeOf(list', delta', k) - Since'
          /\ remaining[k] = TimeOf(list, delta, k) - Since
        BY <1>1, <1>4, <1>7, RemainingIs
    <2>3. TimeOf(list', delta', k) = TimeOf(list, delta, k) - Since
        BY <1>1, <1>4, <1>7, <2>1
    <2>4. remaining[k] \in Int
        BY <1>7, RemainingInt
    <2> QED
        BY <2>1, <2>2, <2>3, <2>4
<1> HIDE DEF remaining, behind
<1>8. ~behind => remaining'[h] \in Timeouts
    BY <1>6
<1>9. Kept!Untouched(Range(list))
    BY <1>7 DEF Kept!Untouched
<1> QED
    BY <1>1, <1>5, <1>8, <1>9 DEF Kept!Start, Kept!Running

\* sl_sleeptimer_stop_timer ends one.
LEMMA StopMapped ==
    ASSUME Types, CallInv, Types', NEW h \in Timers, Stop(h)
    PROVE  Kept!Stop(h)
<1> DEFINE n == Removed(list, Updated.delta, h)
<1>1. /\ CanCall /\ list' = n.list /\ delta' = [n.delta EXCEPT ![h] = 0]
      /\ h \in Range(list)
    BY DEF Stop, Running, Range
<1>2. Since' = UpdatedSince
    <2>1. irq' = irq /\ cnt' = cnt /\ last_delta_update_count' = Updated.last
        BY DEF Stop, timeVars
    <2>2. InLoop' <=> InLoop
        BY DEF Stop, CanCall, CompareNext, CompareOff, CompareKept, InLoop, Types, ModeTypes
    <2> QED
        BY <1>1, <2>1, <2>2, CallSince
<1>3. DeltaList(list, Updated.delta)
    BY UpdatedIs
<1>4. /\ DeltaList(n.list, n.delta) /\ Range(n.list) = Range(list) \ {h}
      /\ \A k \in Range(list) \ {h} : TimeOf(n.list, n.delta, k) = TimeOf(list, Updated.delta, k)
    BY <1>1, <1>3, RemoveKeeps, RemoveMoves
<1> HIDE DEF n
<1>5. \A k \in Range(list) \ {h} : TimeOf(list', delta', k) = TimeOf(n.list, n.delta, k)
    <2>1. delta' \in [Timers -> 0 .. Reach] /\ \A k \in Range(n.list) : delta'[k] = n.delta[k]
        BY <1>1, <1>4, ReachIs DEF DeltaList
    <2>2. \A k \in Range(n.list) : TimeOf(n.list, delta', k) = TimeOf(n.list, n.delta, k)
        BY <1>4, <2>1, OffListMoves
    <2> QED
        BY <1>1, <1>4, <2>2
<1>6. DOMAIN remaining = Range(list) /\ DOMAIN remaining' = Range(list) \ {h}
    BY <1>1, <1>4, RemainingIs
<1>7. ASSUME ~behind, NEW k \in Range(list) \ {h}
      PROVE  remaining'[k] = remaining[k] /\ remaining[k] \in Int
    <2>1. /\ Since' = 0
          /\ TimeOf(list, Updated.delta, k) = TimeOf(list, delta, k) - Since
        BY <1>1, <1>2, <1>7, UpdatedMoves
    <2>2. /\ remaining'[k] = TimeOf(list', delta', k) - Since'
          /\ remaining[k] = TimeOf(list, delta, k) - Since
        BY <1>1, <1>4, <1>7, RemainingIs
    <2>3. TimeOf(list', delta', k) = TimeOf(list, delta, k) - Since
        BY <1>4, <1>5, <1>7, <2>1
    <2>4. remaining[k] \in Int
        BY <1>7, RemainingInt
    <2> QED
        BY <2>1, <2>2, <2>3, <2>4
<1> HIDE DEF remaining, behind
<1>8. Kept!Untouched(Range(list) \ {h})
    BY <1>7 DEF Kept!Untouched
<1> QED
    BY <1>1, <1>6, <1>8 DEF Kept!Stop, Kept!Running

\* A call, or the overflow interrupt, that only moves the list's origin.
LEMMA UpdateMapped ==
    ASSUME Types, CallInv, CanCall, list' = list, delta' = Updated.delta, irq' = irq, cnt' = cnt,
           last_delta_update_count' = Updated.last, InLoop' <=> InLoop
    PROVE  Kept!Refresh
<1>1. Since' = UpdatedSince
    BY CallSince
<1>2. ASSUME ~behind, NEW k \in Range(list)
      PROVE  remaining'[k] = remaining[k]
    <2>1. /\ Since' = 0
          /\ TimeOf(list, Updated.delta, k) = TimeOf(list, delta, k) - Since
        BY <1>1, <1>2, UpdatedMoves
    <2>2. /\ remaining'[k] = TimeOf(list', delta', k) - Since'
          /\ remaining[k] = TimeOf(list, delta, k) - Since
        BY <1>2, RemainingIs
    <2>3. remaining[k] \in Int
        BY <1>2, RemainingInt
    <2> QED
        BY <2>1, <2>2, <2>3
<1> QED
    BY <1>2, RefreshMapped

\* A step that moves nothing.
LEMMA StillMapped ==
    ASSUME Types, list' = list, delta' = delta, Since' = Since
    PROVE  Kept!Refresh
<1>1. \A k \in Range(list) : remaining'[k] = remaining[k]
    BY RemainingIs
<1> QED
    BY <1>1, RefreshMapped

\* One priority for all timers.
OnePriority == \A h, k \in Timers : priority[h] = priority[k]

\* With it the interrupt's loop takes the head.
LEMMA HeadChosen ==
    ASSUME Types, Due # {}, OnePriority
    PROVE  /\ list # <<>> /\ Chosen = Head(list)
           /\ delta[Head(list)] \in 0 .. irq.tot
<1> DEFINE Best(i) == \A j \in Due : \/ priority[list[i]] < priority[list[j]]
                                     \/ (priority[list[i]] = priority[list[j]] /\ i <= j)
<1>1. /\ DeltaList(list, delta) /\ list \in Lists /\ Len(list) \in Nat
      /\ delta \in [Timers -> Nat] /\ delta \in Deltas /\ irq.tot \in Nat
    BY DeltaListTypes DEF Types, ListTypes, IrqTypes
<1>2. Due \subseteq 1 .. Len(list) /\ list \in Seq(Timers)
    BY <1>1 DEF Due, DeltaList
<1>3. \A i \in Due : list[i] \in Timers
    BY <1>2
<1>4. 1 \in Due
    <2>1. PICK i \in Due : TRUE
        OBVIOUS
    <2>2. i \in 1 .. Len(list) /\ i \in 0 .. Len(list) /\ 1 \in 0 .. Len(list) /\ 1 <= i
          /\ 1 \in 1 .. Len(list) /\ Elapsed(list, delta, i) <= irq.tot
        BY <1>1, <1>2 DEF Due
    <2>3. Elapsed(list, delta, 1) <= Elapsed(list, delta, i)
        BY <1>1, <2>2, ElapsedGrows
    <2>4. Elapsed(list, delta, 1) \in Int /\ Elapsed(list, delta, i) \in Int
        BY <1>1, <2>2, ElapsedInt
    <2>5. Elapsed(list, delta, 1) <= irq.tot
        BY <1>1, <2>2, <2>3, <2>4
    <2> QED
        BY <1>2, <2>2, <2>5 DEF Due
<1>5. Best(1)
    <2> TAKE j \in Due
    <2>1. priority[list[1]] = priority[list[j]]
        BY <1>3, <1>4 DEF OnePriority
    <2>2. 1 <= j
        BY <1>1, <1>2
    <2> QED
        BY <2>1, <2>2
<1>6. ASSUME NEW i \in Due, Best(i)
      PROVE  i = 1
    <2>1. priority[list[i]] = priority[list[1]] /\ priority[list[1]] \in Nat
        BY <1>3, <1>4, TimersAssumption DEF OnePriority
    <2>2. i <= 1
        BY <1>4, <1>6, <2>1
    <2> QED
        BY <1>1, <1>2, <2>2
<1>7. Chosen = list[CHOOSE k \in Due : Best(k)]
    BY DEF Chosen
<1> HIDE DEF Best
<1>8. (CHOOSE k \in Due : Best(k)) = 1
    BY <1>4, <1>5, <1>6
<1>9. list # <<>> /\ Chosen = Head(list)
    <2>1. Chosen = list[1]
        BY <1>7, <1>8
    <2>2. 1 \in 1 .. Len(list)
        BY <1>2, <1>4
    <2>3. list # <<>> /\ Head(list) = list[1]
        BY <1>2, <2>2
    <2> QED
        BY <2>1, <2>3
<1> QED
    BY <1>9, ChosenPays

\* A timer is late when it expires; the others keep their deadlines, and a
\* periodic one goes on from its own.
LEMMA ExpireMapped ==
    ASSUME Types, Expire, OnePriority
    PROVE  Kept!Expire(Chosen) /\ Chosen \in Timers
<1> DEFINE h == Chosen
           paid == [delta EXCEPT ![h] = 0]
           left == Removed(list, paid, h)
           n == Insert(left.list, left.delta, h, timeout_periodic[h])
<1>1. /\ list # <<>> /\ h = Head(list) /\ h \in Range(list) /\ h \in Timers
      /\ delta[h] \in 0 .. irq.tot /\ delta[h] \in 0 .. delta[Head(list)]
      /\ DeltaList(list, delta) /\ irq.tot \in Nat
    <2>1. Due # {} /\ irq.tot \in Nat
        BY DEF Expire, Types, IrqTypes
    <2>2. list # <<>> /\ h = Head(list) /\ delta[h] \in 0 .. irq.tot
        BY <2>1, HeadChosen
    <2>3. h \in Range(list) /\ h \in Timers
        BY <2>1, ChosenPays
    <2>4. delta[h] \in 0 .. delta[Head(list)]
        BY <2>1, <2>2
    <2> QED
        BY <2>1, <2>2, <2>3, <2>4 DEF Types, ListTypes
<1>2. /\ timeout_periodic[h] # 0 => list' = n.list /\ delta' = n.delta
      /\ timeout_periodic[h] = 0 => list' = left.list /\ delta' = left.delta
    BY DEF Expire
<1>3. /\ irq'.cnt = irq.cnt /\ irq'.tot = irq.tot - delta[h] /\ cnt' = cnt
      /\ InLoop /\ InLoop'
    BY DEF Expire, timeVars, InLoop, Types, IrqTypes
<1> HIDE DEF h
<1>4. DeltaList(list, paid) /\ \A k \in Range(list) : TimeOf(list, paid, k) = TimeOf(list, delta, k) - delta[h]
    <2> DEFINE e == [delta EXCEPT ![Head(list)] = @ - delta[h]]
    <2>1. DeltaList(list, e) /\ \A k \in Range(list) : TimeOf(list, e, k) = TimeOf(list, delta, k) - delta[h]
        BY <1>1, LowerMoves
    <2>2. delta[h] - delta[h] = 0
        BY <1>1
    <2>3. e = paid
        BY <1>1, <2>2
    <2> HIDE DEF e, paid
    <2> QED
        BY <2>1, <2>3
<1> HIDE DEF paid
<1>5. /\ DeltaList(left.list, left.delta) /\ Range(left.list) = Range(list) \ {h}
      /\ \A k \in Range(list) \ {h} : TimeOf(left.list, left.delta, k) = TimeOf(list, paid, k)
    BY <1>1, <1>4, RemoveKeeps, RemoveMoves
<1> HIDE DEF left
<1>6. timeout_periodic[h] \in Timeouts \union {0}
    BY <1>1 DEF Types, ListTypes
<1>7. timeout_periodic[h] # 0 =>
          /\ timeout_periodic[h] \in Timeouts /\ timeout_periodic[h] \in Nat
          /\ Range(n.list) = (Range(list) \ {h}) \union {h}
          /\ TimeOf(n.list, n.delta, h) = timeout_periodic[h]
          /\ \A k \in Range(list) \ {h} :
                 TimeOf(n.list, n.delta, k) = TimeOf(left.list, left.delta, k)
    <2> SUFFICES ASSUME timeout_periodic[h] # 0
                 PROVE  /\ timeout_periodic[h] \in Timeouts /\ timeout_periodic[h] \in Nat
                        /\ Range(n.list) = (Range(list) \ {h}) \union {h}
                        /\ TimeOf(n.list, n.delta, h) = timeout_periodic[h]
                        /\ \A k \in Range(list) \ {h} :
                               TimeOf(n.list, n.delta, k) = TimeOf(left.list, left.delta, k)
        OBVIOUS
    <2> DEFINE t == timeout_periodic[h]
    <2>1. t \in Timeouts
        BY <1>6
    <2> HIDE DEF t
    <2>2. t \in 0 .. Reach /\ t \in Nat
        <3>1. t \in 1 .. Reach
            BY <2>1, ReachIs
        <3> QED
            BY <3>1, ReachIs
    <2>3. h \notin Range(left.list) /\ h \in Timers
        BY <1>1, <1>5
    <2>4. /\ Range(Insert(left.list, left.delta, h, t).list) = Range(left.list) \union {h}
          /\ TimeOf(Insert(left.list, left.delta, h, t).list, Insert(left.list, left.delta, h, t).delta, h) = t
          /\ \A k \in Range(left.list) :
                 TimeOf(Insert(left.list, left.delta, h, t).list, Insert(left.list, left.delta, h, t).delta, k)
                   = TimeOf(left.list, left.delta, k)
        BY <1>5, <2>2, <2>3, InsertKeeps, InsertMoves
    <2> QED
        BY <1>5, <2>1, <2>2, <2>4 DEF t
<1> HIDE DEF n
<1>8. /\ DOMAIN remaining = Range(list) /\ DOMAIN remaining' \in {Range(list), Range(list) \ {h}}
      /\ h \in DOMAIN remaining' => timeout_periodic[h] # 0
    <2>1. DOMAIN remaining = Range(list) /\ DOMAIN remaining' = Range(list')
        BY RemainingIs
    <2>2. CASE timeout_periodic[h] # 0
        <3>1. Range(list') = Range(list)
            BY <1>1, <1>2, <1>7, <2>2
        <3> QED
            BY <2>1, <2>2, <3>1
    <2>3. CASE timeout_periodic[h] = 0
        <3>1. Range(list') = Range(list) \ {h}
            BY <1>2, <1>5, <2>3
        <3> QED
            BY <2>1, <3>1
    <2> QED
        BY <2>2, <2>3
<1>9. Since' = Since - delta[h] /\ Since \in Nat /\ delta[h] \in Nat /\ delta[h] <= Since
    <2>1. Since = irq.tot + Minus(cnt, irq.cnt) /\ Since' = irq'.tot + Minus(cnt', irq'.cnt)
        BY <1>3 DEF Since
    <2>2. Minus(cnt, irq.cnt) \in Nat
        BY TimesAre DEF Values
    <2> QED
        BY <1>1, <1>3, <2>1, <2>2
<1>10. ASSUME NEW k \in Range(list) \ {h}
       PROVE  remaining'[k] = remaining[k]
    <2>1. TimeOf(list', delta', k) = TimeOf(list, delta, k) - delta[h]
        BY <1>2, <1>4, <1>5, <1>7
    <2>2. k \in Range(list')
        BY <1>2, <1>5, <1>7
    <2>3. /\ remaining'[k] = TimeOf(list', delta', k) - Since'
          /\ remaining[k] = TimeOf(list, delta, k) - Since
        BY <2>2, RemainingIs
    <2>4. TimeOf(list, delta, k) \in Nat
        BY RemainingInt
    <2> QED
        BY <1>9, <2>1, <2>3, <2>4
<1>11. remaining[h] = delta[h] - Since
    BY <1>1, HeadFirst, RemainingIs
<1>12. remaining[h] <= 0
    BY <1>9, <1>11
<1>13. ASSUME timeout_periodic[h] # 0
       PROVE  remaining'[h] - remaining[h] \in Timeouts
    <2>1. TimeOf(list', delta', h) = timeout_periodic[h] /\ h \in Range(list')
        BY <1>2, <1>7, <1>13
    <2>2. remaining'[h] = timeout_periodic[h] - (Since - delta[h])
        BY <1>9, <2>1, RemainingIs
    <2>3. remaining'[h] - remaining[h] = timeout_periodic[h]
        BY <1>7, <1>9, <1>11, <1>13, <2>2
    <2> QED
        BY <1>7, <1>13, <2>3
<1> HIDE DEF remaining, behind
<1>14. Kept!Expire(h)
    BY <1>1, <1>8, <1>10, <1>12, <1>13 DEF Kept!Expire, Kept!Running
<1> QED
    BY <1>1, <1>14 DEF h

\* Nor does any other step of the masked code.
LEMMA SinceKept ==
    ASSUME irq'.tot = irq.tot, irq'.cnt = irq.cnt, cnt' = cnt,
           last_delta_update_count' = last_delta_update_count, InLoop' <=> InLoop
    PROVE  Since' = Since
BY DEF Since, SinceUpdate

\* The overflow interrupt moves the list's origin.
LEMMA EnterMapped ==
    ASSUME Types, CallInv, IrqEnter
    PROVE  Kept!Refresh
<1>1. /\ CanCall /\ irq' = irq /\ cnt' = cnt /\ list' = list
      /\ InLoop' <=> InLoop
    BY DEF IrqEnter, Idle, CanCall, CompareNext, CompareKept, InLoop, Types, ModeTypes
<1>2. CASE if_of
    <2>1. delta' = Updated.delta /\ last_delta_update_count' = Updated.last
        BY <1>2 DEF IrqEnter
    <2> QED
        BY <1>1, <2>1, UpdateMapped
<1>3. CASE ~if_of
    <2>1. delta' = delta /\ last_delta_update_count' = last_delta_update_count
        BY <1>3 DEF IrqEnter
    <2>2. Since' = Since
        BY <1>1, <2>1, SinceKept
    <2> QED
        BY <1>1, <2>1, <2>2, StillMapped
<1> QED
    BY <1>2, <1>3

\* The interrupt begins to measure from its own reading of the counter.
LEMMA CompMapped ==
    ASSUME Types, IrqComp
    PROVE  Kept!Refresh
<1>1. /\ list' = list /\ delta' = delta /\ cnt' = cnt
      /\ irq'.tot = SinceUpdate /\ irq'.cnt = cnt /\ ~InLoop /\ InLoop'
    BY DEF IrqComp, listVars, timeVars, NoIrq, InLoop, Types, ModeTypes
<1>2. Minus(cnt', irq'.cnt) = 0 /\ SinceUpdate \in Nat
    BY <1>1, MinusSelf, TimesAre DEF Types, CounterTypes, Values
<1>3. Since' = irq'.tot + Minus(cnt', irq'.cnt) /\ Since = SinceUpdate
    BY <1>1 DEF Since
<1>4. Since' = Since
    BY <1>1, <1>2, <1>3
<1> QED
    BY <1>1, <1>4, StillMapped

\* It adds the callback's time to what it has measured.
LEMMA CalledMapped ==
    ASSUME Types, Called
    PROVE  Kept!Refresh
<1>1. /\ list' = list /\ delta' = delta /\ cnt' = cnt
      /\ irq'.tot = irq.tot + Minus(cnt, irq.cnt) /\ irq'.cnt = cnt /\ InLoop /\ InLoop'
    BY DEF Called, listVars, timeVars, InLoop, Types, IrqTypes
<1>2. Minus(cnt', irq'.cnt) = 0 /\ Minus(cnt, irq.cnt) \in Nat /\ irq.tot \in Nat
    BY <1>1, MinusSelf, TimesAre DEF Types, CounterTypes, IrqTypes, Values
<1>3. Since' = irq'.tot + Minus(cnt', irq'.cnt) /\ Since = irq.tot + Minus(cnt, irq.cnt)
    BY <1>1 DEF Since
<1>4. Since' = Since
    BY <1>1, <1>2, <1>3
<1> QED
    BY <1>1, <1>4, StillMapped

\* At its end the head's delta is charged with it.
LEMMA DoneMapped ==
    ASSUME Types, IrqDone
    PROVE  Kept!Refresh
<1>1. pc = "expire" /\ list' = list /\ cnt' = cnt /\ Due = {} /\ InLoop /\ ~InLoop'
    BY DEF IrqDone, timeVars, InLoop, CompareNext, CompareOff
<1>2. CASE list = <<>>
    <2>1. Range(list) = {}
        BY <1>2 DEF Range
    <2> QED
        BY <1>1, <2>1, RefreshMapped
<1>3. CASE list # <<>>
    <2>1. delta' = Charged(delta) /\ last_delta_update_count' = irq.cnt
        BY <1>3 DEF IrqDone
    <2>2. /\ irq.tot \in Nat /\ Minus(cnt, irq.cnt) \in Nat
          /\ DeltaList(list, delta) /\ irq.tot \in 0 .. delta[Head(list)]
        <3>1. irq.tot < delta[Head(list)] /\ delta[Head(list)] \in 0 .. Reach
            BY <1>1, <1>3, DoneIs
        <3> QED
            BY <3>1, TimesAre, ReachIs DEF Types, ListTypes, IrqTypes, Values
    <2>3. \A k \in Range(list) : TimeOf(list, Charged(delta), k) = TimeOf(list, delta, k) - irq.tot
        BY <1>3, <2>2, LowerMoves DEF Charged
    <2>4. Since = irq.tot + Minus(cnt, irq.cnt) /\ Since' = Minus(cnt, irq.cnt)
        BY <1>1, <2>1 DEF Since, SinceUpdate
    <2>5. ASSUME NEW k \in Range(list)
          PROVE  remaining'[k] = remaining[k]
        <3>1. /\ remaining'[k] = TimeOf(list, Charged(delta), k) - Since'
              /\ remaining[k] = TimeOf(list, delta, k) - Since
            BY <1>1, <2>1, RemainingIs
        <3>2. TimeOf(list, delta, k) \in Nat
            BY RemainingInt
        <3> QED
            BY <2>2, <2>3, <2>4, <3>1, <3>2
    <2> QED
        BY <1>1, <2>5, RefreshMapped
<1> QED
    BY <1>2, <1>3

\* A tick brings every deadline nearer, wherever the code is.
LEMMA TickMapped ==
    ASSUME Types, CoverInv, Tick
    PROVE  Kept!Pass
<1>1. list' = list /\ delta' = delta
    BY DEF Tick, listVars
<1>2. ASSUME NEW k \in Range(list)
      PROVE  TimeOf(list, delta, k) - Since' = remaining[k] - 1
    <2>1. list # <<>>
        BY <1>2 DEF Range
    <2>2. Since' = Since + 1 /\ Since \in Nat
        BY <2>1, SinceTicks, SinceIs
    <2>3. remaining[k] = TimeOf(list, delta, k) - Since /\ TimeOf(list, delta, k) \in Nat
        BY <1>2, RemainingIs, RemainingInt
    <2> QED
        BY <2>2, <2>3
<1>3. remaining' = [k \in Range(list) |-> TimeOf(list, delta, k) - Since']
    BY <1>1 DEF remaining, TimeOf
<1>4. DOMAIN remaining = Range(list)
    BY RemainingIs
<1> HIDE DEF remaining
<1>5. remaining' = [k \in Range(list) |-> remaining[k] - 1]
    BY <1>2, <1>3
<1> QED
    BY <1>4, <1>5 DEF Kept!Pass, Kept!Running

\* Every step of the sleep timer is one of Deadlines.
LEMMA DeadlinesStep ==
    ASSUME Types, CoverInv, CallInv, Types', OnePriority, [SleepTimerNext]_vars
    PROVE  Kept!Next
<1>0. ASSUME Kept!Refresh
      PROVE  Kept!Next
    BY <1>0 DEF Kept!Next
<1>1. ASSUME NEW h \in Timers, NEW t \in Timeouts, NEW q \in Timeouts \union {0},
             MayStart(h), Create(h, t, q)
      PROVE  Kept!Next
    BY <1>1, CreateMapped DEF Kept!Next
<1>2. ASSUME NEW h \in Timers, Stop(h)
      PROVE  Kept!Next
    BY <1>2, StopMapped DEF Kept!Next
<1>3. CASE Update
    <2>1. /\ CanCall /\ list' = list /\ delta' = Updated.delta /\ irq' = irq /\ cnt' = cnt
          /\ last_delta_update_count' = Updated.last
          /\ InLoop' <=> InLoop
        BY <1>3 DEF Update, timeVars, InLoop
    <2>2. Kept!Refresh
        BY <2>1, UpdateMapped
    <2> QED
        BY <1>0, <2>2
<1>4. CASE ReadTick64
    <2>1. /\ UNCHANGED <<list, delta, irq, cnt, last_delta_update_count>>
          /\ InLoop' <=> InLoop
        BY <1>4 DEF ReadTick64, listVars, timeVars, InLoop, CanCall, Types, ModeTypes
    <2>2. Since' = Since
        BY <2>1, SinceKept
    <2>3. Kept!Refresh
        BY <2>1, <2>2, StillMapped
    <2> QED
        BY <1>0, <2>3
<1>5. CASE ReturnTick64
    <2>1. /\ UNCHANGED <<list, delta, irq, cnt, last_delta_update_count>>
          /\ InLoop' <=> InLoop
        BY <1>5 DEF ReturnTick64, listVars, timeVars, InLoop, Types, ModeTypes
    <2>2. Since' = Since
        BY <2>1, SinceKept
    <2>3. Kept!Refresh
        BY <2>1, <2>2, StillMapped
    <2> QED
        BY <1>0, <2>3
<1>6. CASE SetCompareReads
    <2>1. /\ UNCHANGED <<list, delta, cnt, last_delta_update_count>>
          /\ irq'.tot = irq.tot /\ irq'.cnt = irq.cnt
          /\ InLoop' <=> InLoop
        BY <1>6 DEF SetCompareReads, listVars, timeVars, InLoop, Types, IrqTypes
    <2>2. Since' = Since
        BY <2>1, SinceKept
    <2>3. Kept!Refresh
        BY <2>1, <2>2, StillMapped
    <2> QED
        BY <1>0, <2>3
<1>7. CASE SetCompareWrites
    <2>1. /\ UNCHANGED <<list, delta, cnt, last_delta_update_count>>
          /\ irq'.tot = irq.tot /\ irq'.cnt = irq.cnt
          /\ InLoop' <=> InLoop
        BY <1>7 DEF SetCompareWrites, listVars, timeVars, InLoop, Types, IrqTypes, ModeTypes
    <2>2. Since' = Since
        BY <2>1, SinceKept
    <2>3. Kept!Refresh
        BY <2>1, <2>2, StillMapped
    <2> QED
        BY <1>0, <2>3
<1>8. CASE IrqEnter
    BY <1>0, <1>8, EnterMapped
<1>9. CASE IrqComp
    BY <1>0, <1>9, CompMapped
<1>10. CASE Expire
    BY <1>10, ExpireMapped DEF Kept!Next
<1>11. CASE Called
    BY <1>0, <1>11, CalledMapped
<1>12. CASE IrqDone
    BY <1>0, <1>12, DoneMapped
<1>13. CASE Tick
    BY <1>13, TickMapped DEF Kept!Next
<1>14. CASE UNCHANGED timerVars
    <2>1. /\ UNCHANGED <<list, delta, irq, cnt, last_delta_update_count>>
          /\ InLoop' <=> InLoop
        BY <1>14 DEF timerVars, listVars, timeVars, InLoop
    <2>2. Since' = Since
        BY <2>1, SinceKept
    <2>3. Kept!Refresh
        BY <2>1, <2>2, StillMapped
    <2> QED
        BY <1>0, <2>3
<1> QED
    BY <1>1, <1>2, <1>3, <1>4, <1>5, <1>6, <1>7, <1>8,
       <1>9, <1>10, <1>11, <1>12, <1>13, <1>14, NextIs

\* The sleep timer keeps every timer's deadline, for any number of timers of
\* one priority; with several, sl_sleeptimer.c moves the deadline of a periodic
\* timer that is served before the head.
THEOREM DeadlinesKeptHolds ==
    ASSUME Contended = {}, OnePriority
    PROVE  SleepTimerSpec => DeadlinesKept
<1>1. SleepTimerInit => Kept!Init
    <2> SUFFICES ASSUME SleepTimerInit
                 PROVE  Kept!Init
        OBVIOUS
    <2>1. list = <<>> /\ ~InLoop
        BY DEF SleepTimerInit, InLoop
    <2>2. behind = FALSE
        BY <2>1 DEF behind
    <2>3. remaining = <<>>
        <3>1. Range(list) = {}
            BY <2>1 DEF Range
        <3> QED
            BY <3>1 DEF remaining
    <2> QED
        BY <2>2, <2>3 DEF Kept!Init
<1>2. Types /\ CoverInv /\ CallInv /\ Types' /\ [SleepTimerNext]_vars => [Kept!Next]_(Kept!vars)
    BY DeadlinesStep
<1> QED
    BY <1>1, <1>2, TypesHold, CoverHolds, CallHolds, PTL DEF SleepTimerSpec, DeadlinesKept, Kept!Spec
=============================================================================
