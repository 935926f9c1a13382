-------------------------------- MODULE MCBt --------------------------------
(***************************************************************************)
(* The instance TLC checks: one connection interval below 256 and one      *)
(* above, so that both bytes of the union that interval shares with the    *)
(* advertising fields take a value.                                        *)
(***************************************************************************)
EXTENDS BtProps

MCIntervals == {24, 400}
=============================================================================
