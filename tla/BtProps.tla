------------------------------ MODULE BtProps ------------------------------
(***************************************************************************)
(* What bt.c promises, and what its comments and assertions say of it.     *)
(***************************************************************************)
EXTENDS Bt

Booted == conn_handle # 0

EventAt(i) == evq[i].id

FirstIs(id) == evq # <<>> /\ EventAt(1) = id

LastIs(id) == evq # <<>> /\ EventAt(Len(evq)) = id

\* The queue tells the story of one connection in order.  bt.c keeps no
\* handle of its own to match events with, so each handler relies on it: an
\* opened or a timeout event is first and meets a disconnected bt.c that
\* believes it advertises, a closed event is last and the link is down.
QueueTellsOneStory ==
    \A i \in DOMAIN evq :
        /\ EventAt(i) \in {"opened", "adv_timeout"} =>
               i = 1 /\ conn_handle = INVALID_HANDLE /\ byte0 = 1 /\ ~adv
        /\ EventAt(i) = "adv_timeout" => Len(evq) = 1 /\ ~link
        /\ EventAt(i) = "closed" => i = Len(evq) /\ ~link /\ ~adv
        /\ EventAt(i) = "boot" => Len(evq) = 1 /\ ~Booted /\ ~link /\ ~adv

\* bt.c's view and the radio differ only by what the queue still holds:
\* believing itself disconnected and silent, it is right and start_adv is legal;
\* believing itself advertising, it is, or the event that says otherwise waits;
\* a link it does not know of is announced, and a link it wrongly believes in
\* has its closed event waiting.  Before boot, only the boot event waits.
ViewLagsByQueue ==
    Running =>
        /\ ~Booted => byte0 = 0 /\ FirstIs("boot")
        /\ conn_handle = INVALID_HANDLE /\ byte0 = 0 => evq = <<>> /\ ~adv /\ ~link
        /\ conn_handle = INVALID_HANDLE /\ byte0 # 0 =>
               (adv /\ evq = <<>>) \/ FirstIs("opened") \/ FirstIs("adv_timeout")
        /\ adv => conn_handle = INVALID_HANDLE /\ byte0 = 1 /\ evq = <<>> /\ ~link
        /\ link => conn_handle = Handle \/ FirstIs("opened")
        /\ conn_handle = Handle \/ FirstIs("opened") => link \/ LastIs("closed")

\* The ASSERTs on conn_handle in start_adv and in the security manager's
\* handlers never fail, whatever the order of radio and buttons.
AssertsHold == mcu # "assert"

\* Until a power loss, bonding_info is right about the bonding list, but for a
\* bond whose event is still queued, and its copy in flash is right between
\* two handlers.
BondQueued == \E i \in DOMAIN evq : evq[i] = Event("bonded", 0)

BondingFlagAgrees ==
    resets = 0 /\ Booted =>
        /\ bonding_info = 1 => bonds
        /\ bonds => bonding_info = 1 \/ BondQueued
        /\ pc \notin {"save_bonded", "save_deleted"} => nvm = bonding_info

\* Until a power loss, advertising is timed by HOGP table 5.2 exactly when the
\* bonding list has an entry, though start_adv decides from its own copy.
TimingFollowsBonds ==
    resets = 0 /\ adv => (timing = "fast" <=> bonds)

\* A connection marked bonded has an entry in the bonding list behind it, except
\* inside the handler that deletes the list.
BondedHasKeys == bonded => bonds \/ pc = "save_deleted"

\* While a connection is up and bt.c knows it, its copy of the client
\* configuration is the one this central wrote on this connection, unless an
\* event about it is still queued: a report never goes to a central on the
\* strength of what another one wrote.
SubscriptionIsCurrent ==
    Running /\ link /\ conn_handle = Handle
        /\ (\A i \in DOMAIN evq : EventAt(i) # "char_status")
            => report_ccc = subscribed

\* After a lost connection the gamepad advertises again (gamepad.slcp), unless
\* the program stops or restarts.
AdvertisesAgain ==
    Running /\ Booted /\ ~link /\ conn_handle = Handle ~> adv \/ ~Running \/ ~Booted

\* bt.c implements the promise of Presence.
AirOf == IF link THEN "linked" ELSE IF adv THEN "advertising" ELSE "silent"

ModeOf ==
    IF ~Booted THEN "booting"
    ELSE IF Connected THEN "connected"
    ELSE IF byte0 # 0 THEN "advertising" ELSE "quiet"

P == INSTANCE Presence WITH air <- AirOf, mode <- ModeOf

KeepsPresence == P!Spec

-----------------------------------------------------------------------------
(* What the source says and the code does not do *)

\* gamepad.slcp: the application allows OTA DFU, so a write of the OTA control
\* point ends in the bootloader unless power is lost.
OtaReachesDfu == boot_to_dfu ~> mcu = "dfu" \/ ~boot_to_dfu

\* bt.h: bonding_info says whether any bonded device is in the bonding list.
\* Power losses included, when no bond waits in the queue.
BondingInfoIsTrue ==
    Booted /\ Running /\ pc = "idle" /\ ~BondQueued => (bonding_info = 1 <=> bonds)

=============================================================================
