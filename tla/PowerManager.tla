---------------------------- MODULE PowerManager ----------------------------
(***************************************************************************)
(* sl_power_manager.c over its series 1 HAL, as generated for this board:  *)
(* EM2 is the lowest mode allowed, so only the requirement on EM1 decides. *)
(* Two timers of the sleep timer matter here, as what is left of them: the *)
(* first application timer that needs the crystal, and the power manager's *)
(* own, which wakes it early enough to have the crystal running by then.   *)
(* Nobody asks for a preserved high accuracy clock, so the oscillator is   *)
(* off exactly while the clock states are saved.                           *)
(***************************************************************************)
EXTENDS Integers

CONSTANTS
    high_frequency_min_offtime_tick,
    Overhead,     \* process_wakeup_overhead_tick and the configured overhead
    WakeupTimes,  \* start-up times of the crystal, as restore_states measures
    Timeouts      \* timeouts the application uses

ASSUME PowerAssumption ==
    /\ {high_frequency_min_offtime_tick, Overhead} \subseteq Nat
    /\ WakeupTimes \subseteq Nat \ {0} /\ WakeupTimes # {}
    /\ Timeouts \subseteq Nat \ {0}

Stopped == -1

EM0 == 0
EM1 == 1
EM2 == 2

VARIABLES
    requirement,               \* requirement_em_table, on EM1
    requirement_on_em1_added,
    current_em,
    is_states_saved,
    hfxo_wakeup_time_tick,
    app_timer,                 \* ticks left, or Stopped
    clock_wakeup_timer,        \* ticks left, or Stopped
    early_latest               \* the sleep timer's sleep_on_isr_exit flag

modeVars == <<requirement, requirement_on_em1_added, current_em,
              is_states_saved, hfxo_wakeup_time_tick>>
timerVars == <<app_timer, clock_wakeup_timer, early_latest>>
powerVars == <<modeVars, timerVars>>

-----------------------------------------------------------------------------

OneIf(b) == IF b THEN 1 ELSE 0

\* get_lowest_em
LowestEm(count) == IF count > 0 THEN EM1 ELSE EM2

\* sli_power_manager_restore_states measures the start-up time again.
RestoreStates ==
    /\ is_states_saved' = FALSE
    /\ hfxo_wakeup_time_tick' \in WakeupTimes

KeepStates == UNCHANGED <<is_states_saved, hfxo_wakeup_time_tick>>

\* sl_power_manager_add_em_requirement(EM1): an interrupt that adds it while
\* the mode is EM2 gets the clocks back at once.
AddRequirement ==
    /\ requirement' = requirement + 1
    /\ IF current_em = EM2
       THEN /\ current_em' = EM1
            /\ IF is_states_saved THEN RestoreStates ELSE KeepStates
       ELSE UNCHANGED current_em /\ KeepStates
    /\ UNCHANGED requirement_on_em1_added

\* sl_power_manager_remove_em_requirement(EM1).
RemoveRequirement ==
    /\ requirement' = requirement - 1
    /\ UNCHANGED <<requirement_on_em1_added, current_em>>
    /\ KeepStates

\* evaluate_wakeup: the start-up time gets an eighth on top.
WakeupDelay == Overhead + hfxo_wakeup_time_tick + hfxo_wakeup_time_tick \div 8

TooSoonToStop ==
    /\ app_timer # Stopped
    /\ app_timer <= high_frequency_min_offtime_tick \/ app_timer <= WakeupDelay

\* The slip: nothing wakes the system early.
NoEarlyTimer == clock_wakeup_timer

EarlyTimer ==
    IF app_timer = Stopped THEN clock_wakeup_timer ELSE app_timer - WakeupDelay

\* The loop's body up to applying the mode: the requirement of the last pass
\* goes, and one is added when the next timer is too close for EM2.
ApplyMode ==
    LET others == requirement - OneIf(requirement_on_em1_added)
        tooSoon == LowestEm(others) = EM2 /\ TooSoonToStop
        lowest_em == IF tooSoon THEN EM1 ELSE LowestEm(others)
    IN /\ requirement' = others + OneIf(tooSoon)
       /\ requirement_on_em1_added' = tooSoon
       /\ current_em' = lowest_em
       /\ clock_wakeup_timer' = IF lowest_em = EM2 THEN EarlyTimer ELSE clock_wakeup_timer
       /\ IF lowest_em = EM2
          THEN is_states_saved' = TRUE /\ UNCHANGED hfxo_wakeup_time_tick
          ELSE IF tooSoon /\ current_em = EM2 /\ is_states_saved THEN RestoreStates
          ELSE KeepStates
       /\ UNCHANGED <<app_timer, early_latest>>

\* The slip: an interrupt is taken to have restored the clocks.
LeaveSleepUnrestored ==
    /\ KeepStates
    /\ requirement' = requirement - OneIf(requirement_on_em1_added)
    /\ requirement_on_em1_added' = FALSE
    /\ current_em' = EM0

\* After the loop: clocks, the power manager's own requirement, EM0.
LeaveSleep ==
    /\ IF is_states_saved THEN RestoreStates ELSE KeepStates
    /\ requirement' = requirement - OneIf(requirement_on_em1_added)
    /\ requirement_on_em1_added' = FALSE
    /\ current_em' = EM0

\* on_clock_wakeup_timeout: the application's timer is to find the clocks.
OnClockWakeupTimeout ==
    /\ IF is_states_saved THEN RestoreStates ELSE KeepStates
    /\ current_em' = EM1
    /\ UNCHANGED <<requirement, requirement_on_em1_added>>

\* The loop stops the early timer after every wake-up, and asks once whether it
\* was the only one to expire.
StopEarlyTimer ==
    /\ clock_wakeup_timer' = Stopped
    /\ early_latest' = FALSE
    /\ UNCHANGED app_timer

Due(timer) == timer = 0

Countdown(timer) == IF timer > 0 THEN timer - 1 ELSE timer

PowerInit(held) ==
    /\ requirement = held /\ requirement_on_em1_added = FALSE
    /\ current_em = EM0 /\ is_states_saved = FALSE
    /\ hfxo_wakeup_time_tick \in WakeupTimes
    /\ app_timer = Stopped /\ clock_wakeup_timer = Stopped
    /\ early_latest = FALSE

=============================================================================
