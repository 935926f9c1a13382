------------------------------ MODULE Presence ------------------------------
(***************************************************************************)
(* What the firmware promises a host, with no event queue: the gamepad is  *)
(* advertising after boot and again after every connection (gamepad.slcp), *)
(* falls quiet when advertising times out, and leaves that state by a      *)
(* button.  air is the truth on the radio, mode what the firmware believes.*)
(* The belief may lag, but each of its moves is one the air allows, and    *)
(* advertising is put on the air in the very step that believes it is.     *)
(***************************************************************************)
VARIABLES air, mode

vars == <<air, mode>>

TypeOK ==
    /\ air \in {"silent", "advertising", "linked"}
    /\ mode \in {"booting", "advertising", "connected", "quiet"}

Init == air = "silent" /\ mode = "booting"

-----------------------------------------------------------------------------
(* The air moves on its own. *)

HostConnects == air = "advertising" /\ air' = "linked" /\ UNCHANGED mode

\* The advertising times out, or the connection is lost.
FallsSilent == air # "silent" /\ air' = "silent" /\ UNCHANGED mode

-----------------------------------------------------------------------------
(* The firmware follows. *)

\* Booted, disconnected, or woken by a button: nothing is on the air, and
\* advertising begins.
Advertise ==
    /\ mode \in {"booting", "connected", "quiet"}
    /\ air = "silent"
    /\ mode' = "advertising"
    /\ air' = "advertising"

\* It learns of a connection that is open, or was.
LearnConnected ==
    /\ mode = "advertising"
    /\ air # "advertising"
    /\ mode' = "connected"
    /\ UNCHANGED air

LearnTimeout ==
    /\ mode = "advertising"
    /\ air = "silent"
    /\ mode' = "quiet"
    /\ UNCHANGED air

\* Power is lost, or the firmware resets itself.
Restart == air' = "silent" /\ mode' = "booting"

Next ==
    \/ HostConnects
    \/ FallsSilent
    \/ Advertise
    \/ LearnConnected
    \/ LearnTimeout
    \/ Restart

Spec == Init /\ [][Next]_vars

=============================================================================
