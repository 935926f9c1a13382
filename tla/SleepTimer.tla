----------------------------- MODULE SleepTimer -----------------------------
(***************************************************************************)
(* sl_sleeptimer.c over sl_sleeptimer_hal_rtcc.c: any number of timers on  *)
(* one free-running counter and one comparator.  The running timers form a *)
(* delta list: delta[h] is the time from the timer before h to h, the      *)
(* first one's from last_delta_update_count.                               *)
(*                                                                         *)
(* The code runs with interrupts masked but the counter does not stop, so  *)
(* a step ends wherever the counter is read again.  Bounds the code does   *)
(* not state: a pending interrupt is served within Latency ticks, Ticks    *)
(* ticks pass while it is served or while a call is, and masked code reads *)
(* the counter again before a second tick: the comparator's margin of two  *)
(* ticks is for that one.                                                  *)
(***************************************************************************)
EXTENDS Integers, SequencesExt, FiniteSetsExt

CONSTANTS
    Timers,     \* the timer handles
    PmTimer,    \* the one with the power manager's early wake-up flag
    Width,      \* values of the counter: 2^32 in the code
    Epochs,     \* values of overflow_counter: 2^16 in the code
    Uses,       \* the starts the callers make: a timer, a timeout, periodic or not
    Contended,  \* the timers that two callers may be starting at once
    priority,   \* each timer's priority, 0 the highest
    Latency, Ticks,
    NoTimer

ASSUME TimersAssumption ==
    /\ PmTimer \in Timers /\ NoTimer \notin Timers
    /\ priority \in [Timers -> Nat]
    /\ Uses \subseteq [timer : Timers, timeout : Nat, periodic : BOOLEAN]

\* A timeout of 0 calls the callback at once and starts nothing.  One so long
\* that a late interrupt takes it past the counter's width is lost for a whole
\* turn of the counter: delta_tot cannot tell the two apart.
ASSUME CounterAssumption ==
    /\ {Latency, Ticks, Width} \subseteq Nat /\ Epochs \in Nat \ {0}
    /\ Latency + Ticks + 3 < Width
    /\ \A t \in {u.timeout : u \in Uses} : t \in Nat \ {0} /\ t + Latency + Ticks + 3 < Width

VARIABLES
    list,       \* timer_head and the next pointers
    delta,
    timeout_periodic,
    starting,   \* the starts between their check and their insertion
    last_delta_update_count,
    overflow_counter,
    next_timer_to_expire_is_power_manager,
    sleep_on_isr_exit,
    cnt, ccv,       \* RTCC: counter, compare value of channel 1
    cc_on,          \* RTCC: the channel's output compare mode is on
    ien_comp,       \* RTCC: the compare interrupt is enabled
    if_of, if_comp, \* RTCC: overflow and compare flags
    pc,             \* what the masked code does next
    then,           \* where it goes after set_comparator_for_next_timer
    irq,            \* process_timer_irq's locals
    tick_cnt,       \* sl_sleeptimer_get_tick_count64's local
    late,       \* ticks a pending interrupt has waited
    busy,       \* ticks since the masked code began
    ticked,     \* the counter has ticked since the masked code last read it
    epoch           \* true number of overflows

listVars == <<list, delta, timeout_periodic, last_delta_update_count>>
rtccVars == <<ccv, cc_on, ien_comp>>
flagVars == <<next_timer_to_expire_is_power_manager, sleep_on_isr_exit>>
timeVars == <<cnt, epoch, if_of>>
timerVars == <<listVars, rtccVars, flagVars, timeVars, overflow_counter, if_comp,
               pc, then, irq, tick_cnt, late, busy, ticked>>
vars == <<timerVars, starting>>

-----------------------------------------------------------------------------
(* The delta list *)

Minus(a, b) == (a - b) % Width     \* uint32_t subtraction

SinceUpdate == Minus(cnt, last_delta_update_count)

\* Time from the list's origin to the i-th timer.
Elapsed(l, d, i) ==
    LET sum[j \in 0 .. Len(l)] == IF j = 0 THEN 0 ELSE sum[j - 1] + d[l[j]]
    IN sum[i]

\* delta_list_insert_timer walks past every timer that expires no later.  The
\* priority test never decides: an equal delta has already been passed.
Passed(l, d, timeout) ==
    CHOOSE i \in 0 .. Len(l) :
        /\ \A j \in 1 .. i : Elapsed(l, d, j) <= timeout
        /\ i < Len(l) => Elapsed(l, d, i + 1) > timeout

\* The slip: the timer after the new one keeps its delta.
InsertUnpaid(l, d, h, timeout) ==
    LET p == Passed(l, d, timeout)
    IN [list |-> InsertAt(l, p + 1, h),
        delta |-> [d EXCEPT ![h] = timeout - Elapsed(l, d, p)]]

Insert(l, d, h, timeout) ==
    LET p == Passed(l, d, timeout)
        rest == timeout - Elapsed(l, d, p)
    IN [list |-> InsertAt(l, p + 1, h),
        delta |-> [k \in Timers |->
                      IF k = h THEN rest
                      ELSE IF p < Len(l) /\ k = l[p + 1] THEN d[k] - rest
                      ELSE d[k]]]

Position(l, h) == CHOOSE i \in DOMAIN l : l[i] = h

\* delta_list_remove_timer.
Removed(l, d, h) ==
    LET p == Position(l, h)
    IN [list |-> RemoveAt(l, p),
        delta |-> [k \in Timers |->
                      IF p < Len(l) /\ k = l[p + 1] THEN d[k] + d[h] ELSE d[k]]]

\* update_first_timer_delta: the head's delta counts from now.  A head that is
\* overdue gets delta 0, and the list an origin one delta before now, though
\* the head expired SinceUpdate - delta before now.
Updated ==
    IF list = <<>>
    THEN [delta |-> delta, last |-> cnt]
    ELSE LET d == delta[Head(list)]
         IN IF d >= SinceUpdate
            THEN [delta |-> [delta EXCEPT ![Head(list)] = @ - SinceUpdate], last |-> cnt]
            ELSE [delta |-> [delta EXCEPT ![Head(list)] = 0], last |-> Minus(cnt, d)]

-----------------------------------------------------------------------------
(* The comparator *)

Idle == pc = "idle"

Pending == if_of \/ (if_comp /\ ien_comp)

\* set_comparator_for_next_timer, up to reading the counter for the compare
\* value.
CompareNext(after) ==
    /\ pc' = "compare" /\ then' = after
    /\ ien_comp' = TRUE
    /\ UNCHANGED <<ccv, cc_on>>

\* sleeptimer_hal_disable_int(SLEEPTIMER_EVENT_COMP).
CompareOff(after) ==
    /\ pc' = after /\ then' = "idle"
    /\ ien_comp' = FALSE /\ cc_on' = FALSE
    /\ UNCHANGED ccv

CompareKept(after) ==
    /\ pc' = after /\ then' = "idle"
    /\ UNCHANGED rtccVars

\* The slip: no margin.
NO_DIFF == 0

MIN_DIFF == 2      \* SLEEPTIMER_COMPARE_MIN_DIFF

\* sleeptimer_hal_set_compare leaves a match alone that is about to happen:
\* its interrupt sets the comparator again.
MatchIsNear ==
    /\ ~if_comp
    /\ Minus(ccv, cnt) \in 1 .. MIN_DIFF

\* Otherwise the value gets a margin, and a remainder by the counter's mask,
\* which is one less than its width.
CompareValue ==
    LET value == (last_delta_update_count + delta[Head(list)]) % Width
    IN (IF Minus(value, cnt) < MIN_DIFF THEN (cnt + MIN_DIFF) % Width ELSE value)
           % (Width - 1)

\* update_next_timer_to_expire_is_power_manager: the walk goes on while the
\* timers are at most one tick behind the head.
PmTimerIsNext ==
    \E i \in DOMAIN list :
        /\ list[i] = PmTimer
        /\ \A j \in 2 .. i : Elapsed(list, delta, j - 1) <= Elapsed(list, delta, 1) + 1

SetCompareReads ==
    /\ pc = "compare"
    /\ irq' = [irq EXCEPT !.write = IF MatchIsNear THEN ccv ELSE CompareValue]
    /\ pc' = "write"
    /\ ticked' = FALSE
    /\ UNCHANGED <<listVars, rtccVars, flagVars, timeVars, overflow_counter,
                   if_comp, then, tick_cnt, late, busy>>

\* The write turns the channel on; it matches at once if the counter is there.
SetCompareWrites ==
    /\ pc = "write"
    /\ ccv' = irq.write
    /\ cc_on' = TRUE
    /\ if_comp' = (if_comp \/ (~cc_on /\ cnt = irq.write))
    /\ next_timer_to_expire_is_power_manager' = PmTimerIsNext
    /\ irq' = [irq EXCEPT !.write = 0]
    /\ pc' = then /\ then' = "idle"
    /\ busy' = IF then = "idle" THEN 0 ELSE busy
    /\ ticked' = FALSE
    /\ UNCHANGED <<listVars, ien_comp, sleep_on_isr_exit, timeVars,
                   overflow_counter, tick_cnt, late>>

-----------------------------------------------------------------------------
(* The calls, from the program or from a callback *)

CanCall == pc \in {"idle", "callback"}

Running(h) == \E i \in DOMAIN list : list[i] = h

\* The slip: the caller does not look whether the timer runs.
StartsAnyway(h) == TRUE

\* sl_sleeptimer_is_timer_running, as the starting calls use it.
MayStart(h) == ~Running(h)

\* The callers' duty, which the code cannot check: the start of a timer is over
\* before another one begins.
OneStarter(h) == h \in Contended \/ \A v \in starting : v.timer # h

\* sl_sleeptimer_start_timer and sl_sleeptimer_start_periodic_timer find that
\* the timer is not running.  Anything may happen before they insert it.
Check(u) ==
    /\ CanCall
    /\ MayStart(u.timer)
    /\ OneStarter(u.timer)
    /\ starting' = starting \union {u}
    /\ UNCHANGED timerVars

\* create_timer, which does not look again: a timer that another caller has
\* started since is inserted twice.  (For such a timer, which is Contended, the
\* list stands for what the code makes a ring, or cuts short behind it.)
Create(h, timeout, periodic) ==
    LET new == Insert(list, Updated.delta, h, timeout)
    IN /\ CanCall
       /\ list' = new.list /\ delta' = new.delta
       /\ last_delta_update_count' = Updated.last
       /\ timeout_periodic' = [timeout_periodic EXCEPT ![h] = periodic]
       /\ IF Head(new.list) = h THEN CompareNext(pc) ELSE CompareKept(pc)
       /\ ticked' = FALSE
       /\ UNCHANGED <<flagVars, timeVars, overflow_counter, if_comp, irq, tick_cnt, late, busy>>

FinishStart(u) ==
    /\ u \in starting
    /\ Create(u.timer, u.timeout, IF u.periodic THEN u.timeout ELSE 0)
    /\ starting' = starting \ {u}

\* sl_sleeptimer_stop_timer.
Stop(h) ==
    LET left == Removed(list, Updated.delta, h)
    IN /\ CanCall
       /\ Running(h)
       /\ list' = left.list
       /\ delta' = [left.delta EXCEPT ![h] = 0]
       /\ last_delta_update_count' = Updated.last
       /\ timeout_periodic' = [timeout_periodic EXCEPT ![h] = 0]
       /\ IF left.list = <<>> THEN CompareOff(pc)
          ELSE IF Head(list) = h THEN CompareNext(pc)
          ELSE CompareKept(pc)
       /\ ticked' = FALSE
       /\ UNCHANGED <<flagVars, timeVars, overflow_counter, if_comp, irq, tick_cnt, late, busy>>

\* sl_sleeptimer_get_timer_time_remaining, and a stop of a timer that is not
\* running: they move the list's origin too.
Update ==
    /\ CanCall
    /\ delta' = Updated.delta /\ last_delta_update_count' = Updated.last
    /\ ticked' = FALSE
    /\ UNCHANGED <<list, timeout_periodic, rtccVars, flagVars, timeVars,
                   overflow_counter, if_comp, pc, then, irq, tick_cnt, late, busy>>

\* sl_sleeptimer_get_tick_count64: the counter, then the overflow flag.
ReadTick64 ==
    /\ CanCall
    /\ tick_cnt' = cnt
    /\ pc' = "tick64" /\ then' = pc
    /\ ticked' = FALSE
    /\ UNCHANGED <<listVars, rtccVars, flagVars, timeVars, overflow_counter,
                   if_comp, irq, late, busy>>

\* The slip: the first reading is kept.
TickCount64Once ==
    IF if_of THEN <<overflow_counter + 1, tick_cnt>>
    ELSE <<overflow_counter, tick_cnt>>

\* An overflow nobody has served yet makes it read the counter again; it is
\* added to a copy wider than overflow_counter.
TickCount64 ==
    IF if_of THEN <<overflow_counter + 1, cnt>>
    ELSE <<overflow_counter, tick_cnt>>

ReturnTick64 ==
    /\ pc = "tick64"
    /\ pc' = then /\ then' = "idle"
    /\ tick_cnt' = 0
    /\ busy' = IF then = "idle" THEN 0 ELSE busy
    /\ ticked' = FALSE
    /\ UNCHANGED <<listVars, rtccVars, flagVars, timeVars, overflow_counter,
                   if_comp, irq, late>>

\* sl_sleeptimer_restart_timer and its periodic twin go on from the stop to
\* create_timer and check nothing.
Restarts(h) ==
    /\ OneStarter(h)
    /\ \E u \in Uses : u.timer = h /\ starting' = starting \union {u}

Call ==
    \/ \E u \in Uses : Check(u) \/ FinishStart(u)
    \/ \E h \in Timers : Stop(h) /\ (Restarts(h) \/ UNCHANGED starting)
    \/ Update /\ ((\E h \in Timers : ~Running(h) /\ Restarts(h)) \/ UNCHANGED starting)
    \/ (ReadTick64 \/ ReturnTick64) /\ UNCHANGED starting

-----------------------------------------------------------------------------
(* RTCC_IRQHandler and process_timer_irq *)

NoIrq == [cnt |-> 0, tot |-> 0, fired |-> 0, current |-> NoTimer, write |-> 0]

\* The flags are read and cleared, the overflow is served.
IrqEnter ==
    /\ Idle /\ Pending
    /\ if_of' = FALSE /\ if_comp' = FALSE
    /\ IF if_of
       THEN /\ overflow_counter' = (overflow_counter + 1) % Epochs
            /\ delta' = Updated.delta /\ last_delta_update_count' = Updated.last
       ELSE UNCHANGED <<overflow_counter, delta, last_delta_update_count>>
    /\ LET to == IF if_comp THEN "comp" ELSE "idle"
       IN IF if_of /\ list # <<>> THEN CompareNext(to) ELSE CompareKept(to)
    /\ late' = 0
    /\ ticked' = FALSE
    /\ UNCHANGED <<list, timeout_periodic, flagVars, cnt, epoch, irq, tick_cnt, busy>>

IrqComp ==
    /\ pc = "comp"
    /\ irq' = [NoIrq EXCEPT !.cnt = cnt, !.tot = SinceUpdate]
    /\ pc' = "expire"
    /\ ticked' = FALSE
    /\ UNCHANGED <<listVars, rtccVars, flagVars, timeVars, overflow_counter,
                   if_comp, then, tick_cnt, late, busy>>

\* The timers at the front of the list whose time has come.
Due == {i \in DOMAIN list : Elapsed(list, delta, i) <= irq.tot}

\* The first of the due timers with the highest priority.
Chosen ==
    list[CHOOSE i \in Due : \A j \in Due :
             \/ priority[list[i]] < priority[list[j]]
             \/ (priority[list[i]] = priority[list[j]] /\ i <= j)]

\* It leaves the list with its delta; a periodic one goes back in.
Expire ==
    /\ pc = "expire"
    /\ Due # {}
    /\ LET h == Chosen
           left == Removed(list, [delta EXCEPT ![h] = 0], h)
           again == IF timeout_periodic[h] # 0
                    THEN Insert(left.list, left.delta, h, timeout_periodic[h])
                    ELSE left
       IN /\ list' = again.list /\ delta' = again.delta
          /\ last_delta_update_count' = irq.cnt
          /\ irq' = [irq EXCEPT !.tot = @ - delta[h], !.current = h]
    /\ pc' = "callback"
    /\ ticked' = FALSE
    /\ UNCHANGED <<timeout_periodic, rtccVars, flagVars, timeVars, overflow_counter,
                   if_comp, then, tick_cnt, late, busy>>

\* The callback returns: the time it took is added to what has elapsed.
Called ==
    /\ pc = "callback"
    /\ irq' = [irq EXCEPT !.tot = @ + Minus(cnt, irq.cnt), !.cnt = cnt,
                          !.fired = IF @ = 2 THEN 2 ELSE @ + 1]
    /\ pc' = "expire"
    /\ ticked' = FALSE
    /\ UNCHANGED <<listVars, rtccVars, flagVars, timeVars, overflow_counter,
                   if_comp, then, tick_cnt, late, busy>>

\* No timer is due any more: the head's delta counts from now.
Charged(d) == [d EXCEPT ![Head(list)] = @ - irq.tot]

IrqDone ==
    /\ pc = "expire"
    /\ Due = {}
    /\ sleep_on_isr_exit' = (irq.fired = 1 /\ irq.current = PmTimer)
    /\ IF list # <<>>
       THEN /\ delta' = Charged(delta)
            /\ last_delta_update_count' = irq.cnt
            /\ CompareNext("idle")
            /\ UNCHANGED <<busy, ticked>>
       ELSE /\ UNCHANGED <<delta, last_delta_update_count>>
            /\ CompareOff("idle")
            /\ busy' = 0 /\ ticked' = FALSE
    /\ irq' = NoIrq
    /\ UNCHANGED <<list, timeout_periodic, next_timer_to_expire_is_power_manager,
                   timeVars, overflow_counter, if_comp, tick_cnt, late>>

Irq == (IrqEnter \/ IrqComp \/ Expire \/ Called \/ IrqDone) /\ UNCHANGED starting

SetCompare == (SetCompareReads \/ SetCompareWrites) /\ UNCHANGED starting

-----------------------------------------------------------------------------
(* Time *)

\* The counter ticks, wraps, and matches.
Tick ==
    /\ ~Idle => busy < Ticks
    /\ ~CanCall => ~ticked
    /\ Pending => late < Latency
    /\ busy' = IF Idle THEN 0 ELSE busy + 1
    /\ late' = IF Pending THEN late + 1 ELSE 0
    /\ cnt' = (cnt + 1) % Width
    /\ if_of' = (if_of \/ cnt' = 0)
    /\ epoch' = IF cnt' = 0 THEN (epoch + 1) % Epochs ELSE epoch
    /\ if_comp' = (if_comp \/ (cc_on /\ cnt' = ccv))
    /\ ticked' = ~CanCall
    /\ UNCHANGED <<listVars, rtccVars, flagVars, overflow_counter, pc, then, irq, tick_cnt,
                   starting>>

SleepTimerInit ==
    /\ list = <<>> /\ starting = {}
    /\ delta = [h \in Timers |-> 0]
    /\ timeout_periodic = [h \in Timers |-> 0]
    /\ last_delta_update_count = 0
    /\ overflow_counter = 0 /\ epoch = 0
    /\ next_timer_to_expire_is_power_manager = FALSE
    /\ sleep_on_isr_exit = FALSE
    /\ cnt = 0 /\ ccv = 0 /\ cc_on = FALSE /\ ien_comp = FALSE
    /\ if_of = FALSE /\ if_comp = FALSE
    /\ pc = "idle" /\ then = "idle" /\ irq = NoIrq
    /\ tick_cnt = 0 /\ late = 0 /\ busy = 0 /\ ticked = FALSE

SleepTimerNext == Call \/ SetCompare \/ Irq \/ Tick

SleepTimerSpec == SleepTimerInit /\ [][SleepTimerNext]_vars

=============================================================================
