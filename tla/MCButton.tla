------------------------------ MODULE MCButton ------------------------------
(***************************************************************************)
(* The instance TLC checks: the two buttons of the board, a cache short    *)
(* enough to fill often, two sticks to switch between.                     *)
(***************************************************************************)
EXTENDS ButtonProps
=============================================================================
