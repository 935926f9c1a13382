------------------------------ MODULE MCSleep -------------------------------
(***************************************************************************)
(* The instance TLC checks: a ring of two bytes, a timer that is due       *)
(* before the crystal could start or well after.                           *)
(***************************************************************************)
EXTENDS SleepProps
=============================================================================
