-------------------------- MODULE SleepTimerProps --------------------------
(***************************************************************************)
(* Properties of the sleep timer.                                          *)
(***************************************************************************)
EXTENDS SleepTimer

Values == 0 .. Width - 1

Timeouts == {u.timeout : u \in Uses}

\* Type invariant: a timer is in the list once, whatever happens between the
\* check of its start and its insertion, with a delta the counter can reach.
\* Two callers that start one timer at once would break it (Contended).
TimersTypeOK ==
    /\ IsInjective(list) /\ Range(list) \subseteq Timers /\ starting \subseteq Uses
    /\ delta \in [Timers -> Values]
    /\ timeout_periodic \in [Timers -> Timeouts \union {0}]
    /\ {last_delta_update_count, cnt, ccv, tick_cnt} \subseteq Values
    /\ {overflow_counter, epoch} \subseteq 0 .. Epochs - 1
    /\ {next_timer_to_expire_is_power_manager, sleep_on_isr_exit, cc_on,
        ien_comp, if_of, if_comp, ticked} \subseteq BOOLEAN
    /\ pc \in {"idle", "compare", "write", "tick64", "comp", "expire", "callback"}
    /\ then \in {"idle", "comp", "callback"}
    /\ irq.current \in Timers \union {NoTimer}
    /\ {irq.cnt, irq.tot, irq.write} \subseteq Values /\ irq.fired \in 0 .. 2
    /\ late \in 0 .. Latency /\ busy \in 0 .. Ticks

-----------------------------------------------------------------------------
(* The deadlines *)

\* The interrupt's loop measures from the time it last read the counter.
InLoop == "callback" \in {pc, then} \/ pc = "expire"

Since == IF InLoop THEN irq.tot + Minus(cnt, irq.cnt) ELSE SinceUpdate

remaining ==
    [h \in Range(list) |-> Elapsed(list, delta, Position(list, h)) - Since]

behind == (list # <<>> /\ delta[Head(list)] < Since) \/ (InLoop /\ Since > 0)

Kept == INSTANCE Deadlines

\* A call moves the deadline of the timer it is about and of no other, an
\* expiry only that of the timer that expires, which is due, and a tick brings
\* each one tick closer, through the counter's wrap too; except that a call
\* made while a timer is overdue may move the others.
DeadlinesKept == Kept!Spec

\* Whenever the masked code is left, the first timer's interrupt is pending or
\* the comparator will match no later than that timer's time, the margin of
\* two ticks and the tick its remainder costs.
ComparatorCovers ==
    (Idle /\ list # <<>>) =>
        /\ ien_comp
        /\ \/ if_comp
           \/ /\ cc_on
              /\ Minus(ccv, cnt) \in 1 .. 1 + Max({MIN_DIFF, remaining[Head(list)]})

\* sl_sleeptimer_get_tick_count64 never returns a time of another turn of the
\* counter: its result is the true count, or that of a moment of the call.
Tick64IsTrue ==
    [][(pc = "tick64" /\ pc' # "tick64") =>
          LET now == epoch * Width + cnt
              read == TickCount64[1] * Width + TickCount64[2]
          IN (now - read) % (Epochs * Width) <= busy]_vars

-----------------------------------------------------------------------------
(* Every timer's turn comes *)

\* The clock does not stop, whatever the program does; a pending interrupt is
\* taken between two calls, and a callback makes finitely many.
TimersLive ==
    SleepTimerSpec /\ SF_vars(Tick) /\ SF_vars(Irq) /\ WF_vars(SetCompare \/ (ReturnTick64 /\ UNCHANGED starting))

\* A running timer expires or is stopped, whatever calls the others get.
EveryTimerExpires ==
    \A h \in Timers : Running(h) ~> (~Running(h) \/ (pc = "callback" /\ irq.current = h))

=============================================================================
