------------------------------- MODULE Stack -------------------------------
(***************************************************************************)
(* The Bluetooth stack and its flash as src/bt.c uses them.  The stack     *)
(* library is delivered in binary form: this module is its interface       *)
(* (sl_bt_api.h), not its code.  Events are appended to one queue in the   *)
(* order they happen and popped one at a time by sl_bt_step; a step of the *)
(* radio may come between any two steps of the program.                    *)
(***************************************************************************)
EXTENDS Firmware, Sequences

CONSTANTS
    QueueMax,   \* bound: the radio adds no event to a queue this long
    Intervals   \* connection intervals a central may ask for

ASSUME QueueMaxAssumption == QueueMax \in Nat
ASSUME IntervalsAssumption == Intervals \subseteq 0 .. 256 * 256 - 1  \* a uint16_t

VARIABLES
    evq,      \* events raised and not yet popped
    adv,      \* TRUE iff the advertising set is on the air
    timing,   \* timing last given to sl_bt_advertiser_set_timing
    subscribed, \* client configuration the central last wrote on this connection
    pairing,  \* progress of the pairing procedure on the open connection
    bonds,    \* flash: the bonding list has an entry
    nvm       \* flash: BONDING_INFO_PSKEY, NoKey when the key is missing

stackVars == <<evq, adv, timing, subscribed, pairing>>
flashVars == <<bonds, nvm>>

NoKey == 2

PIN_OR_KEY_MISSING == 4102  \* SL_STATUS_BT_CTRL_PIN_OR_KEY_MISSING, 0x1006
OTHER_REASON == 4101

LinkEvents == {"opened", "closed", "adv_timeout"}
SmEvents == {"confirm_bonding", "bonded", "bonding_failed"}
ConnEvents == SmEvents \union {"parameters", "char_status", "user_write"}
EventIds == {"boot"} \union LinkEvents \union ConnEvents

Event(id, arg) == [id |-> id, arg |-> arg]

\* The argument is a connection interval, client configuration flags, a bonding
\* handle or a reason.
EventSet ==
    [id : {"parameters"}, arg : Intervals]
        \union [id : {"char_status"}, arg : 0 .. 1]
        \union [id : EventIds \ {"parameters", "char_status"}, arg : Nat]

StackTypeOK ==
    /\ evq \in Seq(EventSet)
    /\ adv \in BOOLEAN
    /\ timing \in {"unset", "fast", "normal"}
    /\ subscribed \in 0 .. 1
    /\ pairing \in {"none", "asked", "confirmed"}
    /\ bonds \in BOOLEAN
    /\ nvm \in {0, 1, NoKey}

Raise(id, arg) ==
    /\ Len(evq) < QueueMax
    /\ evq' = Append(evq, Event(id, arg))

-----------------------------------------------------------------------------
(* The radio and the central.  radioFrame is what none of them touches. *)

radioFrame == <<mcu, pc, sig, conn_handle, report_ccc, timing, nvm>>

\* A central connects: the stack stops advertising.  A central found in the
\* bonding list comes with its bonding handle.
CentralConnects ==
    /\ Running
    /\ adv
    /\ adv' = FALSE
    /\ link' = TRUE
    /\ \E bonding \in IF bonds THEN {0, INVALID_HANDLE} ELSE {INVALID_HANDLE} :
           Raise("opened", bonding)
    /\ UNCHANGED <<radioFrame, subscribed, pairing, bonds>>

\* The duration given to sl_bt_advertiser_set_timing runs out.
AdvertisingTimesOut ==
    /\ Running
    /\ adv
    /\ adv' = FALSE
    /\ Raise("adv_timeout", 0)
    /\ UNCHANGED <<radioFrame, subscribed, link, pairing, bonds>>

\* The central disconnects, or is out of range for the supervision timeout.
LinkLost ==
    /\ Running
    /\ link
    /\ link' = FALSE
    /\ pairing' = "none"
    /\ subscribed' = 0
    /\ Raise("closed", 0)
    /\ UNCHANGED <<radioFrame, adv, bonds>>

CentralUpdatesParameters ==
    /\ Running
    /\ link
    /\ \E interval \in Intervals : Raise("parameters", interval)
    /\ UNCHANGED <<radioFrame, subscribed, link, adv, pairing, bonds>>

\* The central writes the client configuration of the report characteristic.
CentralWritesCcc ==
    /\ Running
    /\ link
    /\ \E flags \in 0 .. 1 :
           subscribed' = flags /\ Raise("char_status", flags)
    /\ UNCHANGED <<radioFrame, link, adv, pairing, bonds>>

\* The central writes the OTA control characteristic.
CentralWritesOta ==
    /\ Running
    /\ link
    /\ Raise("user_write", 0)
    /\ UNCHANGED <<radioFrame, subscribed, link, adv, pairing, bonds>>

\* Bit 3 of sl_bt_sm_configure: a bonding request waits for
\* sl_bt_sm_bonding_confirm, and only one at a time waits.
CentralAsksToBond ==
    /\ Running
    /\ link
    /\ pairing = "none"
    /\ \A i \in DOMAIN evq : evq[i].id # "confirm_bonding"
    /\ pairing' = "asked"
    /\ Raise("confirm_bonding", 0)
    /\ UNCHANGED <<radioFrame, subscribed, link, adv, bonds>>

\* The keys are in the bonding list before the event is popped.
BondStored ==
    /\ Running
    /\ link
    /\ pairing = "confirmed"
    /\ pairing' = "none"
    /\ bonds' = TRUE
    /\ Raise("bonded", 0)
    /\ UNCHANGED <<radioFrame, subscribed, link, adv>>

\* Pairing without bonding needs no confirmation and stores nothing.
PairedOnly ==
    /\ Running
    /\ link
    /\ pairing = "none"
    /\ Raise("bonded", INVALID_HANDLE)
    /\ UNCHANGED <<radioFrame, subscribed, link, adv, pairing, bonds>>

\* The procedure ends without a bond; or, outside one, a central the bonding
\* list knows has lost its key.
PairingFails ==
    /\ Running
    /\ link
    /\ \/ pairing # "none" /\ Raise("bonding_failed", OTHER_REASON)
       \/ pairing = "none" /\ bonds /\ Raise("bonding_failed", PIN_OR_KEY_MISSING)
    /\ pairing' = "none"
    /\ UNCHANGED <<radioFrame, subscribed, link, adv, bonds>>

Radio ==
    \/ CentralConnects
    \/ AdvertisingTimesOut
    \/ LinkLost
    \/ CentralUpdatesParameters
    \/ CentralWritesCcc
    \/ CentralWritesOta
    \/ CentralAsksToBond
    \/ BondStored
    \/ PairedOnly
    \/ PairingFails

=============================================================================
