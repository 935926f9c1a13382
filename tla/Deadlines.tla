----------------------------- MODULE Deadlines -----------------------------
(***************************************************************************)
(* What sl_sleeptimer.h promises: each running timer has its own deadline, *)
(* and nothing but time, an expiry or a call about that timer moves it.    *)
(* remaining[h] is how far away the deadline is; an overdue one is below 0.*)
(***************************************************************************)
EXTENDS Integers

CONSTANTS Timers, Timeouts

VARIABLES
    remaining,  \* of the running timers
    behind      \* a timer is overdue, or the interrupt is serving one that was

vars == <<remaining, behind>>

Running == DOMAIN remaining

Init == remaining = <<>> /\ behind = FALSE

\* The timers a call is not about keep their deadlines; how long an overdue one
\* has been overdue does not matter.  A call made while one is may move them all.
Untouched(others) ==
    ~behind =>
        \A h \in others :
            IF remaining[h] > 0 THEN remaining'[h] = remaining[h] ELSE remaining'[h] <= 0

Start(h) ==
    /\ h \notin Running
    /\ DOMAIN remaining' = Running \union {h}
    /\ ~behind => remaining'[h] \in Timeouts
    /\ Untouched(Running)

Stop(h) ==
    /\ h \in Running
    /\ DOMAIN remaining' = Running \ {h}
    /\ Untouched(Running \ {h})

\* Reading a timer, or an overflow of the counter.
Refresh ==
    /\ DOMAIN remaining' = Running
    /\ Untouched(Running)

Pass == remaining' = [h \in Running |-> remaining[h] - 1]

\* A timer expires at its deadline or later; a periodic one goes on from its
\* deadline.
Expire(h) ==
    /\ h \in Running
    /\ remaining[h] <= 0
    /\ DOMAIN remaining' \in {Running, Running \ {h}}
    /\ h \in DOMAIN remaining' => remaining'[h] - remaining[h] \in Timeouts
    /\ \A k \in Running \ {h} : remaining'[k] = remaining[k]

Next ==
    \/ \E h \in Timers : Start(h) \/ Stop(h) \/ Expire(h)
    \/ Refresh
    \/ Pass

Spec == Init /\ [][Next]_vars

=============================================================================
