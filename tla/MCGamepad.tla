----------------------------- MODULE MCGamepad -----------------------------
(***************************************************************************)
(* The instance TLC checks: one button, whose edges are enough to ring,    *)
(* fill the cache and meet a cache the handler has just cleared.           *)
(***************************************************************************)
EXTENDS GamepadProps

MCIntervals == {}
=============================================================================
