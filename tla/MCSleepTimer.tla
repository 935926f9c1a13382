---------------------------- MODULE MCSleepTimer ----------------------------
(***************************************************************************)
(* The instances TLC checks: two timers on a counter that wraps after a    *)
(* few of their timeouts, one of them periodic.                            *)
(***************************************************************************)
EXTENDS SleepTimerProps

CONSTANTS pm, app

MCTimers == {pm, app}
MCUses == {[timer |-> pm, timeout |-> 1, periodic |-> FALSE],
           [timer |-> app, timeout |-> 2, periodic |-> TRUE]}
MCEqualUses == {[timer |-> pm, timeout |-> 3, periodic |-> FALSE],
                [timer |-> app, timeout |-> 3, periodic |-> TRUE]}

MCAlike == [h \in MCTimers |-> 0]
MCAppFirst == [h \in MCTimers |-> IF h = app THEN 0 ELSE 1]
=============================================================================
