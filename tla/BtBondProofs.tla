---------------------------- MODULE BtBondProofs ----------------------------
(***************************************************************************)
(* Proofs about what bt.c knows of bonds and subscriptions.  The stack     *)
(* changes its bonding list and its record of the central's client         *)
(* configuration before bt.c pops the event that says so, and the central  *)
(* may do more in between; what the queue holds, and in which order, is    *)
(* the invariant.                                                          *)
(***************************************************************************)
EXTENDS BtProofs

\* The event that makes bt.c delete the bonding list.
KeyMissing(e) == e.id = "bonding_failed" /\ e.arg = PIN_OR_KEY_MISSING

Confirm(e) == e.id = "confirm_bonding"

\* With keys saying whether the bonding list has an entry: a queued event that
\* speaks of a bond is true, and no event ahead of it deletes the bond.  A bond
\* that will be made is asked for behind every such event.
BondStory(q, keys, pair) ==
    /\ \A i \in DOMAIN q :
           /\ q[i].id = "opened" =>
                  q[i].arg \in {0, INVALID_HANDLE} /\ (q[i].arg = 0 => keys)
           /\ q[i].id = "bonded" =>
                  /\ q[i].arg \in {0, INVALID_HANDLE}
                  /\ q[i].arg = 0 => keys /\ \A j \in DOMAIN q : KeyMissing(q[j]) => j > i
           /\ Confirm(q[i]) => \A j \in DOMAIN q : Confirm(q[j]) => j = i
    /\ pair = "confirmed" => \A j \in DOMAIN q : ~KeyMissing(q[j])
    /\ pair = "asked" =>
           \E i \in DOMAIN q : Confirm(q[i]) /\ \A j \in DOMAIN q : KeyMissing(q[j]) => j < i

Saving == pc \in {"save_bonded", "save_deleted"}

\* Before boot and without a power loss the flash is as the factory left it.
FlagInv ==
    /\ resets = 0 /\ ~Booted => ~bonds /\ nvm = NoKey
    /\ Saving => Booted
    /\ BondingFlagAgrees
    /\ TimingFollowsBonds

BondInv == BondStory(evq, bonds, pairing) /\ BondedHasKeys /\ FlagInv

-----------------------------------------------------------------------------
\* The last client configuration in the queue is the one the central wrote; with
\* none in it, bt.c has that one, or will clear its own when it learns of the
\* connection.
NoStatus(q) == \A i \in DOMAIN q : q[i].id # "char_status"

LastStatus(q, i) ==
    q[i].id = "char_status" /\ \A j \in DOMAIN q : j > i => q[j].id # "char_status"

SubInv ==
    /\ ~link => subscribed = 0
    /\ Running /\ link =>
           /\ \A i \in DOMAIN evq : LastStatus(evq, i) => evq[i].arg = subscribed
           /\ NoStatus(evq) =>
                  subscribed = IF conn_handle = Handle THEN report_ccc ELSE 0

-----------------------------------------------------------------------------
(* The queue and the bonds *)

\* An event is raised behind the others.
LEMMA StoryPush ==
    ASSUME NEW q \in Seq(EventSet), NEW e \in EventSet,
           NEW keys \in BOOLEAN, NEW pair, NEW keysNow \in BOOLEAN, NEW pairNow,
           BondStory(q, keys, pair),
           keys => keysNow,
           e.id = "opened" => e.arg \in {0, INVALID_HANDLE} /\ (e.arg = 0 => keysNow),
           e.id = "bonded" =>
               e.arg \in {0, INVALID_HANDLE} /\ (e.arg = 0 => keysNow /\ pair = "confirmed"),
           Confirm(e) => \A j \in DOMAIN q : ~Confirm(q[j]),
           KeyMissing(e) => pairNow = "none",
           \/ pairNow = "none"
           \/ pairNow = pair
           \/ pairNow = "asked" /\ Confirm(e)
    PROVE  BondStory(Append(q, e), keysNow, pairNow)
<1> DEFINE r == Append(q, e)
<1>1. /\ DOMAIN r = 1 .. Len(q) + 1 /\ DOMAIN q = 1 .. Len(q) /\ Len(q) \in Nat
      /\ r[Len(q) + 1] = e
      /\ \A i \in DOMAIN q : r[i] = q[i] /\ i \in DOMAIN r /\ i < Len(q) + 1
      /\ Len(q) + 1 \in DOMAIN r
      /\ \A i \in DOMAIN r : i \in DOMAIN q \/ i = Len(q) + 1
  BY PushFacts
<1> HIDE DEF r
<1>2. ASSUME NEW i \in DOMAIN r
      PROVE  /\ r[i].id = "opened" =>
                    r[i].arg \in {0, INVALID_HANDLE} /\ (r[i].arg = 0 => keysNow)
             /\ r[i].id = "bonded" => r[i].arg \in {0, INVALID_HANDLE}
             /\ r[i].id = "bonded" /\ r[i].arg = 0 => keysNow
  BY <1>1 DEF BondStory
<1>3. ASSUME NEW i \in DOMAIN r, r[i].id = "bonded", r[i].arg = 0,
             NEW j \in DOMAIN r, KeyMissing(r[j])
      PROVE  j > i
  <2>1. CASE i \in DOMAIN q /\ j \in DOMAIN q
    BY <1>1, <1>3, <2>1 DEF BondStory
  <2>2. CASE i \in DOMAIN q /\ j = Len(q) + 1
    BY <1>1, <2>2
  <2>3. CASE i = Len(q) + 1
    <3>1. pair = "confirmed" /\ ~KeyMissing(e)
      BY <1>1, <1>3, <2>3 DEF KeyMissing
    <3>2. j \in DOMAIN q => ~KeyMissing(r[j])
      BY <1>1, <3>1 DEF BondStory
    <3> QED BY <1>1, <1>3, <3>1, <3>2
  <2> QED BY <1>1, <2>1, <2>2, <2>3
<1>4. ASSUME NEW i \in DOMAIN r, Confirm(r[i]), NEW j \in DOMAIN r, Confirm(r[j])
      PROVE  j = i
  BY <1>1, <1>4 DEF BondStory
<1>5. pairNow = "confirmed" => \A j \in DOMAIN r : ~KeyMissing(r[j])
  BY <1>1 DEF BondStory
<1>6. ASSUME pairNow = "asked"
      PROVE  \E i \in DOMAIN r : Confirm(r[i]) /\ \A j \in DOMAIN r : KeyMissing(r[j]) => j < i
  <2>1. ~KeyMissing(e)
    BY <1>6
  <2>2. CASE Confirm(e)
    BY <1>1, <2>1, <2>2
  <2>3. CASE ~Confirm(e)
    <3>1. pair = "asked"
      BY <1>6, <2>3
    <3>2. PICK i \in DOMAIN q : Confirm(q[i]) /\ \A j \in DOMAIN q : KeyMissing(q[j]) => j < i
      BY <3>1 DEF BondStory
    <3> QED BY <1>1, <2>1, <3>2
  <2> QED BY <2>2, <2>3
<1>7. BondStory(r, keysNow, pairNow)
  BY <1>2, <1>3, <1>4, <1>5, <1>6 DEF BondStory
<1> QED BY <1>7 DEF r

\* An event is popped: a request to bond may be confirmed, and the bonding list
\* deleted when its event says so.
LEMMA StoryPop ==
    ASSUME NEW q \in Seq(EventSet), q # <<>>,
           NEW keys \in BOOLEAN, NEW pair, NEW keysNow \in BOOLEAN, NEW pairNow,
           BondStory(q, keys, pair),
           \/ keysNow = keys
           \/ KeyMissing(Head(q)) /\ \A i \in DOMAIN q : i # 1 => q[i].id # "opened",
           pairNow \in {"none", pair} \/ (pair = "asked" /\ pairNow = "confirmed" /\ Confirm(Head(q))),
           Confirm(Head(q)) => pairNow # "asked"
    PROVE  BondStory(Tail(q), keysNow, pairNow)
<1> DEFINE r == Tail(q)
<1>1. /\ DOMAIN r = 1 .. Len(q) - 1 /\ Len(q) \in Nat \ {0} /\ DOMAIN q = 1 .. Len(q)
      /\ Head(q) = q[1] /\ 1 \in DOMAIN q
      /\ \A i \in DOMAIN r : r[i] = q[i + 1] /\ i \in Nat /\ i + 1 \in DOMAIN q /\ i + 1 # 1
      /\ \A i \in DOMAIN q : i \in Nat /\ i >= 1 /\ (i # 1 => i - 1 \in DOMAIN r /\ r[i - 1] = q[i])
  BY PopFacts
<1> HIDE DEF r
<1>2. ASSUME NEW i \in DOMAIN r, r[i].id = "bonded", r[i].arg = 0
      PROVE  keysNow /\ ~KeyMissing(Head(q))
  <2>1. ~KeyMissing(q[1])
    <3>1. KeyMissing(q[1]) => 1 > i + 1
      BY <1>1, <1>2 DEF BondStory
    <3>2. i >= 1
      BY <1>1
    <3> QED BY <3>1, <3>2, <1>1
  <2>2. keys
    BY <1>1, <1>2 DEF BondStory
  <2> QED BY <1>1, <2>1, <2>2
<1>3. ASSUME NEW i \in DOMAIN r
      PROVE  /\ r[i].id = "opened" =>
                    r[i].arg \in {0, INVALID_HANDLE} /\ (r[i].arg = 0 => keysNow)
             /\ r[i].id = "bonded" => r[i].arg \in {0, INVALID_HANDLE}
  BY <1>1 DEF BondStory
<1>4. ASSUME NEW i \in DOMAIN r, r[i].id = "bonded", r[i].arg = 0,
             NEW j \in DOMAIN r, KeyMissing(r[j])
      PROVE  j > i
  <2>1. j + 1 > i + 1
    BY <1>1, <1>4 DEF BondStory
  <2> QED BY <1>1, <2>1
<1>5. ASSUME NEW i \in DOMAIN r, Confirm(r[i]), NEW j \in DOMAIN r, Confirm(r[j])
      PROVE  j = i
  <2>1. j + 1 = i + 1
    BY <1>1, <1>5 DEF BondStory
  <2> QED BY <1>1, <2>1
<1>6. ASSUME pairNow = "confirmed", NEW j \in DOMAIN r
      PROVE  ~KeyMissing(r[j])
  <2>1. CASE pair = "confirmed"
    BY <1>1, <2>1 DEF BondStory
  <2>2. CASE pair = "asked" /\ Confirm(Head(q))
    <3>1. PICK i \in DOMAIN q : Confirm(q[i]) /\ \A k \in DOMAIN q : KeyMissing(q[k]) => k < i
      BY <2>2 DEF BondStory
    <3>2. i = 1
      BY <1>1, <2>2, <3>1 DEF BondStory
    <3>3. KeyMissing(q[j + 1]) => j + 1 < 1
      BY <1>1, <3>1, <3>2
    <3>4. j >= 1
      BY <1>1
    <3> QED BY <1>1, <3>3, <3>4
  <2> QED BY <1>6, <2>1, <2>2
<1>7. ASSUME pairNow = "asked"
      PROVE  \E i \in DOMAIN r : Confirm(r[i]) /\ \A j \in DOMAIN r : KeyMissing(r[j]) => j < i
  <2>1. pair = "asked" /\ ~Confirm(q[1])
    BY <1>1, <1>7
  <2>2. PICK i \in DOMAIN q : Confirm(q[i]) /\ \A j \in DOMAIN q : KeyMissing(q[j]) => j < i
    BY <2>1 DEF BondStory
  <2>3. i # 1 /\ i - 1 \in DOMAIN r /\ Confirm(r[i - 1])
    BY <1>1, <2>1, <2>2
  <2>4. ASSUME NEW j \in DOMAIN r, KeyMissing(r[j])
        PROVE  j < i - 1
    <3>1. j + 1 < i
      BY <1>1, <2>2, <2>4
    <3> QED BY <1>1, <3>1
  <2> QED BY <2>3, <2>4
<1>8. BondStory(r, keysNow, pairNow)
  BY <1>2, <1>3, <1>4, <1>5, <1>6, <1>7 DEF BondStory
<1> QED BY <1>8 DEF r

Queued(q) == \E i \in DOMAIN q : q[i] = Event("bonded", 0)

\* A bond waits in the queue until its event is popped.
LEMMA QueuedPush ==
    ASSUME NEW q \in Seq(EventSet), NEW e \in EventSet, Queued(q) \/ e = Event("bonded", 0)
    PROVE  Queued(Append(q, e))
<1> DEFINE r == Append(q, e)
<1>1. /\ Len(q) + 1 \in DOMAIN r /\ r[Len(q) + 1] = e
      /\ \A i \in DOMAIN q : i \in DOMAIN r /\ r[i] = q[i]
  BY PushFacts
<1> HIDE DEF r
<1>2. Queued(r)
  BY <1>1 DEF Queued
<1> QED BY <1>2 DEF r

LEMMA QueuedPop ==
    ASSUME NEW q \in Seq(EventSet), q # <<>>, Queued(q), Head(q) # Event("bonded", 0)
    PROVE  Queued(Tail(q))
<1> DEFINE r == Tail(q)
<1>1. /\ Head(q) = q[1]
      /\ \A i \in DOMAIN q : i # 1 => i - 1 \in DOMAIN r /\ r[i - 1] = q[i]
  BY PopFacts
<1> HIDE DEF r
<1>2. Queued(r)
  BY <1>1 DEF Queued
<1> QED BY <1>2 DEF r

\* A link is known or announced, so bt.c has booted.
LEMMA LinkBooted ==
    ASSUME StackTypeOK, View, Running, link
    PROVE  Booted /\ ~adv
<1>1. FirstIs("boot") => 1 \in DOMAIN evq
  BY DEF FirstIs, StackTypeOK
<1> QED BY <1>1, LinkUp DEF View, ViewLagsByQueue, FirstIs

-----------------------------------------------------------------------------
(* The radio *)

\* An event that makes no bond and deletes none.
LEMMA RaiseKeepsBonds ==
    ASSUME StackTypeOK, BtTypeOK, BondInv,
           NEW e \in EventSet, evq' = Append(evq, e),
           e.id = "opened" => e.arg \in {0, INVALID_HANDLE} /\ (e.arg = 0 => bonds),
           e.id = "bonded" => e.arg = INVALID_HANDLE,
           Confirm(e) => \A j \in DOMAIN evq : ~Confirm(evq[j]),
           KeyMissing(e) => pairing' = "none",
           \/ pairing' = "none"
           \/ pairing' = pairing
           \/ pairing' = "asked" /\ Confirm(e),
           adv' => adv,
           UNCHANGED <<pc, conn_handle, timing, bonds, nvm, bonded, bonding_info, resets>>
    PROVE  BondInv'
<1>1. BondStory(evq', bonds', pairing')
  <2>1. evq \in Seq(EventSet) /\ bonds \in BOOLEAN /\ BondStory(evq, bonds, pairing)
    BY DEF StackTypeOK, BondInv
  <2>2. e.id = "bonded" => e.arg \in {0, INVALID_HANDLE} /\ (e.arg = 0 => bonds /\ pairing = "confirmed")
    BY DEF INVALID_HANDLE
  <2> QED BY <2>1, <2>2, StoryPush
<1>2. BondedHasKeys'
  BY DEF BondInv, BondedHasKeys
<1>3. BondQueued => BondQueued'
  BY QueuedPush DEF BondQueued, Queued, StackTypeOK
<1>4. FlagInv'
  BY <1>3 DEF BondInv, FlagInv, Saving, BondingFlagAgrees, TimingFollowsBonds, Booted
<1> QED BY <1>1, <1>2, <1>4 DEF BondInv

\* A bond is stored and its event raised in one step.
LEMMA StoredKeepsBonds ==
    ASSUME IInv, BondInv, BondStored, UNCHANGED <<appVars, resets>>
    PROVE  BondInv'
<1> DEFINE e == Event("bonded", 0)
<1>1. /\ StackTypeOK /\ evq \in Seq(EventSet) /\ bonds \in BOOLEAN /\ View /\ Running /\ link
      /\ BondStory(evq, bonds, pairing)
  BY DEF IInv, BtTypeOK, StackTypeOK, BondInv, BondStored
<1>2. e \in EventSet /\ e.id = "bonded" /\ e.arg = 0
  <2>1. "bonded" \in EventIds
    BY DEF EventIds, ConnEvents, SmEvents
  <2> QED BY <2>1, EventTypes DEF Event
<1>3. evq' = Append(evq, e) /\ bonds' = TRUE /\ pairing = "confirmed" /\ pairing' = "none"
  BY DEF BondStored, Raise
<1>4. BondStory(evq', bonds', pairing')
  BY <1>1, <1>2, <1>3, StoryPush DEF Confirm, KeyMissing
<1>5. BondQueued'
  BY <1>1, <1>2, <1>3, QueuedPush DEF BondQueued, Queued
<1>6. BondedHasKeys'
  BY <1>3 DEF BondedHasKeys
<1>7. Booted /\ ~adv
  BY <1>1, LinkBooted
<1>8. FlagInv'
  BY <1>3, <1>5, <1>7
     DEF BondInv, FlagInv, Saving, BondingFlagAgrees, TimingFollowsBonds, Booted, BondStored, radioFrame,
         appVars
<1> QED BY <1>4, <1>6, <1>8 DEF BondInv

LEMMA RadioKeepsBonds ==
    ASSUME IInv, BondInv, Radio, UNCHANGED <<appVars, resets>>
    PROVE  BondInv'
<1>1. StackTypeOK /\ BtTypeOK /\ View /\ bonds \in BOOLEAN
  BY DEF IInv, BtTypeOK, StackTypeOK
<1> USE DEF radioFrame, appVars
<1>2. CASE CentralConnects
  <2>1. PICK bonding \in {0, INVALID_HANDLE} :
            (bonding = 0 => bonds) /\ Raise("opened", bonding)
    BY <1>2 DEF CentralConnects, INVALID_HANDLE
  <2> DEFINE e == Event("opened", bonding)
  <2>2. "opened" \in EventIds /\ bonding \in Nat
    BY DEF EventIds, LinkEvents, INVALID_HANDLE
  <2>3. e \in EventSet /\ e.id = "opened" /\ e.arg = bonding /\ evq' = Append(evq, e)
    BY <2>1, <2>2, EventTypes DEF Raise, Event
  <2>4. ~adv' /\ UNCHANGED <<pc, conn_handle, timing, pairing, bonds, nvm, bonded, bonding_info, resets>>
    BY <1>2 DEF CentralConnects
  <2> HIDE DEF e
  <2> QED BY <1>1, <2>1, <2>3, <2>4, RaiseKeepsBonds DEF Confirm, KeyMissing
<1>3. ASSUME NEW id \in EventIds \ {"opened", "bonded", "bonding_failed", "confirm_bonding"},
             NEW arg, Event(id, arg) \in EventSet, Raise(id, arg),
             pairing' \in {"none", pairing}, adv' => adv,
             UNCHANGED <<pc, conn_handle, timing, bonds, nvm>>
      PROVE  BondInv'
  <2> DEFINE e == Event(id, arg)
  <2>1. e \in EventSet /\ e.id = id /\ evq' = Append(evq, e)
    BY <1>3 DEF Raise, Event
  <2> HIDE DEF e
  <2> QED BY <1>1, <1>3, <2>1, RaiseKeepsBonds DEF Confirm, KeyMissing
<1>4. /\ {"adv_timeout", "closed", "user_write", "parameters", "char_status"} \subseteq
             EventIds \ {"opened", "bonded", "bonding_failed", "confirm_bonding"}
      /\ {"confirm_bonding", "bonded", "bonding_failed"} \subseteq EventIds
  BY DEF EventIds, LinkEvents, ConnEvents, SmEvents
<1>5. CASE AdvertisingTimesOut
  <2>1. Event("adv_timeout", 0) \in EventSet
    BY <1>4, EventTypes
  <2> QED BY <1>3, <1>4, <1>5, <2>1 DEF AdvertisingTimesOut
<1>6. CASE LinkLost
  <2>1. Event("closed", 0) \in EventSet
    BY <1>4, EventTypes
  <2> QED BY <1>3, <1>4, <1>6, <2>1 DEF LinkLost
<1>7. CASE CentralWritesOta
  <2>1. Event("user_write", 0) \in EventSet
    BY <1>4, EventTypes
  <2> QED BY <1>3, <1>4, <1>7, <2>1 DEF CentralWritesOta
<1>8. CASE CentralUpdatesParameters
  <2>1. PICK interval \in Intervals : Raise("parameters", interval)
    BY <1>8 DEF CentralUpdatesParameters
  <2>2. Event("parameters", interval) \in EventSet
    BY DEF Event, EventSet
  <2> QED BY <1>3, <1>4, <1>8, <2>1, <2>2 DEF CentralUpdatesParameters
<1>9. CASE CentralWritesCcc
  <2>1. PICK flags \in 0 .. 1 : Raise("char_status", flags)
    BY <1>9 DEF CentralWritesCcc
  <2>2. Event("char_status", flags) \in EventSet
    BY DEF Event, EventSet
  <2> QED BY <1>3, <1>4, <1>9, <2>1, <2>2 DEF CentralWritesCcc
<1>10. CASE CentralAsksToBond
  <2> DEFINE e == Event("confirm_bonding", 0)
  <2>1. e \in EventSet /\ e.id = "confirm_bonding" /\ evq' = Append(evq, e)
    BY <1>4, <1>10, EventTypes DEF CentralAsksToBond, Raise, Event
  <2>2. /\ \A j \in DOMAIN evq : ~Confirm(evq[j])
        /\ pairing' = "asked" /\ UNCHANGED adv
        /\ UNCHANGED <<pc, conn_handle, timing, bonds, nvm, bonded, bonding_info, resets>>
    BY <1>10 DEF CentralAsksToBond, Confirm
  <2> HIDE DEF e
  <2> QED BY <1>1, <2>1, <2>2, RaiseKeepsBonds DEF Confirm, KeyMissing
<1>11. CASE BondStored
  BY <1>11, StoredKeepsBonds
<1>12. CASE PairedOnly
  <2> DEFINE e == Event("bonded", INVALID_HANDLE)
  <2>1. e \in EventSet
    <3>1. INVALID_HANDLE \in Nat
      BY DEF INVALID_HANDLE
    <3> QED BY <1>4, <3>1, EventTypes
  <2>2. evq' = Append(evq, e)
    BY <1>12 DEF PairedOnly, Raise
  <2>3. e.id = "bonded" /\ e.arg = INVALID_HANDLE
    BY DEF Event
  <2>4. UNCHANGED <<adv, pairing, pc, conn_handle, timing, bonds, nvm, bonded, bonding_info, resets>>
    BY <1>12 DEF PairedOnly
  <2> HIDE DEF e
  <2> QED BY <1>1, <2>1, <2>2, <2>3, <2>4, RaiseKeepsBonds DEF Confirm, KeyMissing
<1>13. CASE PairingFails
  <2>1. PICK reason \in {OTHER_REASON, PIN_OR_KEY_MISSING} : Raise("bonding_failed", reason)
    BY <1>13 DEF PairingFails
  <2> DEFINE e == Event("bonding_failed", reason)
  <2>2. e \in EventSet /\ e.id = "bonding_failed" /\ evq' = Append(evq, e)
    <3>1. reason \in Nat
      BY DEF OTHER_REASON, PIN_OR_KEY_MISSING
    <3>2. e \in EventSet
      BY <1>4, <3>1, EventTypes
    <3> QED BY <2>1, <3>2 DEF Raise, Event
  <2>3. /\ pairing' = "none"
        /\ UNCHANGED <<adv, pc, conn_handle, timing, bonds, nvm, bonded, bonding_info, resets>>
    BY <1>13 DEF PairingFails
  <2> HIDE DEF e
  <2> QED BY <1>1, <2>2, <2>3, RaiseKeepsBonds DEF Confirm
<1> QED BY <1>2, <1>5, <1>6, <1>7, <1>8, <1>9, <1>10, <1>11, <1>12, <1>13 DEF Radio

-----------------------------------------------------------------------------
(* The handlers *)

\* A step that concerns no bond.
LEMMA StillKeepsBonds ==
    ASSUME BondInv,
           UNCHANGED <<evq, pairing, bonds, nvm, bonded, bonding_info, conn_handle, resets>>,
           adv' => adv /\ timing' = timing,
           pc' = pc \/ {pc, pc'} \cap {"save_bonded", "save_deleted"} = {}
    PROVE  BondInv'
<1>1. BondStory(evq', bonds', pairing') /\ BondedHasKeys'
  BY DEF BondInv, BondedHasKeys
<1>2. FlagInv'
  BY DEF BondInv, FlagInv, Saving, BondingFlagAgrees, TimingFollowsBonds, BondQueued, Booted
<1> QED BY <1>1, <1>2 DEF BondInv

\* An event about no bond is popped; handling it may raise another.
LEMMA PopKeepsBonds ==
    ASSUME StackTypeOK, BondInv, Booted, Booted', evq # <<>>,
           Head(evq) # Event("bonded", 0),
           \/ evq' = Tail(evq)
           \/ evq' = Append(Tail(evq), Event("closed", 0)),
           \/ pairing' = "none"
           \/ pairing' = pairing /\ ~Confirm(Head(evq))
           \/ pairing = "asked" /\ pairing' = "confirmed" /\ Confirm(Head(evq))
           \/ pairing' = pairing /\ pairing # "asked",
           bonded' => bonded \/ bonds,
           adv' => timing' = timing /\ adv,
           UNCHANGED <<pc, bonds, nvm, bonding_info, resets>>
    PROVE  BondInv'
<1> DEFINE q == Tail(evq)
           e == Event("closed", 0)
<1>1. /\ evq \in Seq(EventSet) /\ q \in Seq(EventSet) /\ bonds \in BOOLEAN
      /\ BondStory(evq, bonds, pairing)
  BY PopFacts DEF StackTypeOK, BondInv
<1>2. e \in EventSet /\ e.id = "closed" /\ e # Event("bonded", 0)
  <2>1. "closed" \in EventIds
    BY DEF EventIds, LinkEvents
  <2> QED BY <2>1, EventTypes DEF Event
<1>3. BondStory(q, bonds, pairing')
  BY <1>1, StoryPop
<1>4. Queued(evq) => Queued(q)
  BY <1>1, QueuedPop
<1> HIDE DEF q, e
<1>5. BondStory(evq', bonds', pairing')
  <2>1. BondStory(Append(q, e), bonds, pairing')
    BY <1>1, <1>2, <1>3, StoryPush DEF Confirm, KeyMissing
  <2> QED BY <1>3, <2>1 DEF q, e
<1>6. BondQueued => BondQueued'
  <2>1. Queued(q) => Queued(Append(q, e))
    BY <1>1, <1>2, QueuedPush
  <2> QED BY <1>4, <2>1 DEF q, e, BondQueued, Queued
<1>7. BondedHasKeys'
  BY DEF BondInv, BondedHasKeys
<1>8. FlagInv'
  BY <1>6 DEF BondInv, FlagInv, Saving, BondingFlagAgrees, TimingFollowsBonds
<1> QED BY <1>5, <1>7, <1>8 DEF BondInv

\* Power comes back, with the flash as it was or erased.
LEMMA PowerOnKeepsBonds ==
    ASSUME BtPowerOn, bonds' \in BOOLEAN,
           \/ resets' # 0
           \/ bonds' = FALSE /\ nvm' = NoKey
    PROVE  BondInv'
<1>1. /\ evq' = <<Event("boot", 0)>> /\ pairing' = "none" /\ bonded' = FALSE /\ adv' = FALSE
      /\ conn_handle' = 0 /\ pc' = "idle"
  BY DEF BtPowerOn, FirmwarePowerOn
<1>2. DOMAIN evq' = {1} /\ evq'[1].id = "boot"
  BY <1>1 DEF Event
<1>3. BondStory(evq', bonds', pairing')
  BY <1>1, <1>2 DEF BondStory, Confirm, KeyMissing
<1>4. BondedHasKeys' /\ FlagInv'
  BY <1>1 DEF BondedHasKeys, FlagInv, Saving, BondingFlagAgrees, TimingFollowsBonds, Booted
<1> QED BY <1>3, <1>4 DEF BondInv

\* Advertising begins with no event queued: its timing is that of the list.
LEMMA StartKeepsTiming ==
    ASSUME NEW handle, NEW enabled, NEW advHandle,
           StartAdv(handle, enabled, advHandle, bonding_info), ~adv,
           bonds <=> bonding_info = 1, UNCHANGED bonds
    PROVE  TimingFollowsBonds'
  BY DEF StartAdv, Start, NoStart, TimingFollowsBonds

\* Where a handler starts from.
LEMMA HandlerStarts ==
    ASSUME IInv, BondInv, NEW id \in EventIds, Handling(id)
    PROVE  /\ FirmwareTypeOK /\ StackTypeOK /\ View /\ Running /\ pc = "idle"
           /\ evq \in Seq(EventSet) /\ evq # <<>> /\ Head(evq).id = id /\ Head(evq) = evq[1]
           /\ 1 \in DOMAIN evq /\ EventAt(1) = id /\ ~adv
           /\ bonds \in BOOLEAN
           /\ id # "boot" => Booted
<1>1. /\ FirmwareTypeOK /\ StackTypeOK /\ View /\ Running /\ pc = "idle"
      /\ evq \in Seq(EventSet) /\ evq # <<>> /\ Head(evq).id = id /\ bonds \in BOOLEAN
  BY DEF IInv, BtTypeOK, StackTypeOK, Handling
<1>2. Head(evq) = evq[1] /\ 1 \in DOMAIN evq /\ EventAt(1) = id
  BY <1>1, PopFacts DEF EventAt
<1>3. ~adv /\ (id # "boot" => Booted)
  BY <1>1, <1>2 DEF View, ViewLagsByQueue, FirstIs
<1> QED BY <1>1, <1>2, <1>3

\* The handlers whose events are about no bond.
LEMMA OtherKeepsBonds ==
    ASSUME IInv, BondInv,
           ConnectionOpened \/ ConnParamUpdated \/ CharStatus \/ UserWriteRequest \/ AdvTimeout
    PROVE  BondInv'
<1>1. {"opened", "parameters", "char_status", "user_write", "adv_timeout"} \subseteq EventIds
  BY DEF EventIds, LinkEvents, ConnEvents, SmEvents
<1>2. CASE ConnectionOpened
  <2>1. /\ StackTypeOK /\ Booted /\ evq # <<>> /\ Head(evq).id = "opened" /\ ~adv
        /\ Head(evq) = evq[1] /\ 1 \in DOMAIN evq
    BY <1>1, <1>2, HandlerStarts DEF ConnectionOpened
  <2>2. bonded' => bonds
    BY <1>2, <2>1 DEF ConnectionOpened, IsBond, Arg, BondInv, BondStory
  <2>3. Booted' /\ evq' = Tail(evq) /\ UNCHANGED <<pairing, adv, pc, bonds, nvm, bonding_info, resets>>
    BY <1>2 DEF ConnectionOpened, Booted, Handle, Popped, flashVars
  <2> QED BY <2>1, <2>2, <2>3, PopKeepsBonds DEF Confirm, Event
<1>3. CASE ConnParamUpdated
  <2>1. StackTypeOK /\ Booted /\ evq # <<>> /\ Head(evq).id = "parameters" /\ ~adv
    BY <1>1, <1>3, HandlerStarts DEF ConnParamUpdated
  <2>2. /\ evq' = Tail(evq)
        /\ UNCHANGED <<conn_handle, pairing, adv, pc, bonds, nvm, bonded, bonding_info, resets>>
    BY <1>3 DEF ConnParamUpdated, Popped, flashVars, firmwareVars
  <2> QED BY <2>1, <2>2, PopKeepsBonds DEF Confirm, Event, Booted
<1>4. CASE CharStatus
  <2>1. StackTypeOK /\ Booted /\ evq # <<>> /\ Head(evq).id = "char_status" /\ ~adv
    BY <1>1, <1>4, HandlerStarts DEF CharStatus
  <2>2. /\ evq' = Tail(evq)
        /\ UNCHANGED <<conn_handle, pairing, adv, pc, bonds, nvm, bonded, bonding_info, resets>>
    BY <1>4 DEF CharStatus, Popped, flashVars, appVars
  <2> QED BY <2>1, <2>2, PopKeepsBonds DEF Confirm, Event, Booted
<1>5. CASE UserWriteRequest
  <2>1. StackTypeOK /\ Booted /\ evq # <<>> /\ Head(evq).id = "user_write" /\ ~adv
    BY <1>1, <1>5, HandlerStarts DEF UserWriteRequest
  <2>2. /\ evq' = Tail(evq) \/ evq' = Append(Tail(evq), Event("closed", 0))
        /\ pairing' = "none"
        /\ UNCHANGED <<conn_handle, adv, pc, bonds, nvm, bonded, bonding_info, resets>>
    BY <1>5 DEF UserWriteRequest, flashVars
  <2> QED BY <2>1, <2>2, PopKeepsBonds DEF Confirm, Event, Booted
<1>6. CASE AdvTimeout
  <2>1. StackTypeOK /\ Booted /\ evq # <<>> /\ Head(evq).id = "adv_timeout" /\ ~adv
    BY <1>1, <1>6, HandlerStarts DEF AdvTimeout
  <2>2. /\ evq' = Tail(evq)
        /\ UNCHANGED <<conn_handle, pairing, adv, pc, bonds, nvm, bonded, bonding_info, resets>>
    BY <1>6 DEF AdvTimeout, Popped, flashVars, firmwareVars
  <2> QED BY <2>1, <2>2, PopKeepsBonds DEF Confirm, Event, Booted
<1> QED BY <1>2, <1>3, <1>4, <1>5, <1>6

\* The end of a connection: with nothing queued bonding_info is right.
LEMMA ClosedKeepsBonds ==
    ASSUME IInv, BondInv, ConnectionClosed
    PROVE  BondInv'
<1>1. "closed" \in EventIds
  BY DEF EventIds, LinkEvents
<1>2. /\ FirmwareTypeOK /\ StackTypeOK /\ View /\ Booted /\ evq # <<>> /\ evq \in Seq(EventSet)
      /\ Head(evq).id = "closed" /\ EventAt(1) = "closed" /\ 1 \in DOMAIN evq /\ ~adv
      /\ bonds \in BOOLEAN /\ evq[1].id = "closed" /\ pc = "idle"
  BY <1>1, HandlerStarts DEF ConnectionClosed, EventAt
<1>3. Len(evq) = 1 /\ evq' = Tail(evq) /\ UNCHANGED <<pairing, pc, bonds, nvm, bonding_info, resets>>
  BY <1>2 DEF View, QueueTellsOneStory, ConnectionClosed, Popped, flashVars
<1>4. BondStory(evq', bonds', pairing')
  <2>1. BondStory(evq, bonds, pairing) /\ ~Confirm(Head(evq))
    BY <1>2 DEF BondInv, Confirm
  <2> QED BY <1>2, <1>3, <2>1, StoryPop
<1>5. BondedHasKeys'
  BY <1>3 DEF BondInv, BondedHasKeys, ConnectionClosed, ResetToDfu, RestartAdv, ClearAdvConn
<1>6. ~BondQueued
  <2>1. DOMAIN evq = {1}
    BY <1>2, <1>3
  <2> QED BY <1>2, <2>1 DEF BondQueued, Event
<1>7. resets = 0 => (bonds <=> bonding_info = 1) /\ nvm = bonding_info
  BY <1>2, <1>6 DEF BondInv, FlagInv, Saving, BondingFlagAgrees
<1>8. resets' = 0 => TimingFollowsBonds'
  <2>1. CASE boot_to_dfu
    BY <1>2, <2>1 DEF ConnectionClosed, ResetToDfu, TimingFollowsBonds
  <2>2. CASE ~boot_to_dfu
    <3>1. StartAdv(INVALID_HANDLE, 0, 0, bonding_info)
      BY <2>2 DEF ConnectionClosed, RestartAdv
    <3> QED BY <1>2, <1>3, <1>7, <3>1, StartKeepsTiming
  <2> QED BY <2>1, <2>2
<1>9. Booted'
  BY <1>2 DEF ConnectionClosed, ResetToDfu, RestartAdv, Booted, INVALID_HANDLE
<1>10. FlagInv'
  BY <1>3, <1>7, <1>8, <1>9 DEF FlagInv, Saving, BondingFlagAgrees, TimingFollowsBonds
<1> QED BY <1>4, <1>5, <1>10 DEF BondInv

\* The boot finds the flash as the factory left it, or after a power loss.
LEMMA BootKeepsBonds ==
    ASSUME IInv, BondInv, SystemBoot
    PROVE  BondInv'
<1>1. "boot" \in EventIds
  BY DEF EventIds
<1>2. /\ StackTypeOK /\ View /\ evq # <<>> /\ evq \in Seq(EventSet)
      /\ Head(evq).id = "boot" /\ EventAt(1) = "boot" /\ 1 \in DOMAIN evq /\ ~adv
      /\ bonds \in BOOLEAN /\ pc = "idle"
  BY <1>1, HandlerStarts DEF SystemBoot
<1>3. ~Booted
  BY <1>2 DEF View, QueueTellsOneStory
<1>4. BondStory(evq', bonds', pairing')
  <2>1. BondStory(evq, bonds, pairing) /\ ~Confirm(Head(evq))
    BY <1>2 DEF BondInv, Confirm
  <2>2. evq' = Tail(evq) /\ UNCHANGED <<bonds, pairing>>
    BY DEF SystemBoot, Popped
  <2> QED BY <1>2, <2>1, <2>2, StoryPop
<1>5. BondedHasKeys'
  BY DEF BondInv, BondedHasKeys, SystemBoot
<1>6. FlagInv'
  <2>1. CASE resets # 0
    BY <1>2, <2>1 DEF SystemBoot, FlagInv, Saving, BondingFlagAgrees, TimingFollowsBonds
  <2>2. CASE resets = 0
    <3>1. ~bonds /\ nvm = NoKey
      BY <1>3, <2>2 DEF BondInv, FlagInv
    <3>2. bonds' = FALSE /\ bonding_info' = 0 /\ nvm' = 0 /\ conn_handle' = INVALID_HANDLE
      BY <3>1 DEF SystemBoot, LoadedInfo
    <3>3. LoadedInfo = 0 /\ LoadedInfo # 1
      BY <3>1 DEF LoadedInfo
    <3>4. adv' => timing' = "normal"
      BY <1>2, <3>3 DEF SystemBoot, StartAdv, Start, NoStart
    <3> QED BY <1>2, <3>2, <3>4 DEF FlagInv, Saving, BondingFlagAgrees, TimingFollowsBonds, Booted, INVALID_HANDLE
  <2> QED BY <2>1, <2>2
<1> QED BY <1>4, <1>5, <1>6 DEF BondInv

\* The security manager's handlers run for the connection bt.c knows.
LEMMA SmStarts ==
    ASSUME IInv, BondInv, NEW id \in SmEvents, Handling(id), Popped,
           UNCHANGED <<link, conn_handle, adv>>
    PROVE  Connected /\ Booted' /\ id \in EventIds
<1>1. id \in ConnEvents /\ id \in EventIds
  BY DEF ConnEvents, EventIds
<1>2. conn_handle = Handle
  BY <1>1, ConnEventKeepsView DEF IInv, BtTypeOK, Handling, Popped
<1> QED BY <1>1, <1>2 DEF Connected, Booted, Handle, INVALID_HANDLE

LEMMA ConfirmKeepsBonds ==
    ASSUME IInv, BondInv, BondingConfirm
    PROVE  BondInv'
<1>1. "confirm_bonding" \in SmEvents
  BY DEF SmEvents
<1>2. Handling("confirm_bonding") /\ Popped /\ UNCHANGED <<link, conn_handle, adv>>
  BY DEF BondingConfirm
<1>3. Connected /\ Booted' /\ "confirm_bonding" \in EventIds
  BY <1>1, <1>2, SmStarts
<1>4. /\ StackTypeOK /\ Booted /\ evq # <<>> /\ Head(evq).id = "confirm_bonding" /\ ~adv
  BY <1>2, <1>3, HandlerStarts
<1>5. /\ evq' = Tail(evq) /\ pairing' = IF pairing = "asked" THEN "confirmed" ELSE pairing
      /\ UNCHANGED <<adv, pc, bonds, nvm, bonded, bonding_info, resets>>
  BY <1>3 DEF BondingConfirm, Asserting, Popped, flashVars
<1> QED BY <1>3, <1>4, <1>5, PopKeepsBonds DEF Confirm, Event

\* A bond comes with bonding handle 0, a pairing without bond with none.
LEMMA BondedKeepsBonds ==
    ASSUME IInv, BondInv, Bonded
    PROVE  BondInv'
<1>1. "bonded" \in SmEvents
  BY DEF SmEvents
<1>2. Handling("bonded") /\ Popped /\ UNCHANGED <<link, conn_handle, adv>>
  BY DEF Bonded
<1>3. Connected /\ Booted' /\ "bonded" \in EventIds
  BY <1>1, <1>2, SmStarts
<1>4. /\ StackTypeOK /\ Booted /\ evq # <<>> /\ Head(evq).id = "bonded" /\ ~adv
      /\ Head(evq) = evq[1] /\ 1 \in DOMAIN evq /\ evq \in Seq(EventSet) /\ bonds \in BOOLEAN
  BY <1>2, <1>3, HandlerStarts
<1>5. Arg \in {0, INVALID_HANDLE} /\ (Arg = 0 => bonds)
  BY <1>4 DEF BondInv, BondStory, Arg
<1>6. /\ evq' = Tail(evq) /\ UNCHANGED <<adv, timing, pairing, bonds, nvm, resets>>
      /\ bonded' = IsBond(Arg)
      /\ IF IsBond(Arg) THEN bonding_info' = 1 /\ pc' = "save_bonded"
                        ELSE UNCHANGED <<bonding_info, pc>>
  BY <1>3 DEF Bonded, Asserting, Popped, flashVars
<1>7. CASE Arg = INVALID_HANDLE
  <2>1. ~bonded' /\ UNCHANGED <<bonding_info, pc>>
    BY <1>6, <1>7 DEF IsBond
  <2>2. Head(evq) # Event("bonded", 0)
    BY <1>7 DEF Arg, Event, INVALID_HANDLE
  <2> QED BY <1>3, <1>4, <1>6, <2>1, <2>2, PopKeepsBonds DEF Confirm
<1>8. CASE Arg = 0
  <2>1. bonding_info' = 1 /\ pc' = "save_bonded" /\ bonds
    BY <1>5, <1>6, <1>8 DEF IsBond, INVALID_HANDLE
  <2>2. BondStory(evq', bonds', pairing')
    <3>1. BondStory(evq, bonds, pairing) /\ ~Confirm(Head(evq))
      BY <1>4 DEF BondInv, Confirm
    <3> QED BY <1>4, <1>6, <3>1, StoryPop
  <2>3. BondedHasKeys' /\ FlagInv'
    BY <1>3, <1>4, <1>6, <2>1
       DEF BondedHasKeys, FlagInv, Saving, BondingFlagAgrees, TimingFollowsBonds
  <2> QED BY <2>2, <2>3 DEF BondInv
<1> QED BY <1>5, <1>7, <1>8

\* A missing key deletes the bonding list; an opened event waits behind no other.
LEMMA FailedKeepsBonds ==
    ASSUME IInv, BondInv, BondFailed
    PROVE  BondInv'
<1>1. "bonding_failed" \in SmEvents
  BY DEF SmEvents
<1>2. Handling("bonding_failed") /\ Popped /\ UNCHANGED <<link, conn_handle, adv>>
  BY DEF BondFailed
<1>3. Connected /\ Booted' /\ "bonding_failed" \in EventIds
  BY <1>1, <1>2, SmStarts
<1>4. /\ StackTypeOK /\ View /\ Booted /\ evq # <<>> /\ Head(evq).id = "bonding_failed" /\ ~adv
      /\ evq \in Seq(EventSet) /\ bonds \in BOOLEAN
  BY <1>2, <1>3, HandlerStarts
<1>5. /\ evq' = Tail(evq) /\ UNCHANGED <<adv, timing, pairing, nvm, resets>>
      /\ IF Arg = PIN_OR_KEY_MISSING
           THEN bonds' = FALSE /\ pc' = "save_deleted" /\ bonding_info' = 0 /\ UNCHANGED bonded
           ELSE bonded' = FALSE /\ UNCHANGED <<bonds, bonding_info, pc>>
  BY <1>3 DEF BondFailed, Asserting, Popped, DeleteBonding
<1>6. CASE Arg # PIN_OR_KEY_MISSING
  BY <1>3, <1>4, <1>5, <1>6, PopKeepsBonds DEF Confirm, Event
<1>7. CASE Arg = PIN_OR_KEY_MISSING
  <2>1. bonds' = FALSE /\ pc' = "save_deleted" /\ bonding_info' = 0
    BY <1>5, <1>7
  <2>2. BondStory(evq', bonds', pairing')
    <3>1. BondStory(evq, bonds, pairing) /\ ~Confirm(Head(evq)) /\ KeyMissing(Head(evq))
      BY <1>4, <1>7 DEF BondInv, Confirm, KeyMissing, Arg
    <3>2. \A i \in DOMAIN evq : i # 1 => evq[i].id # "opened"
      BY <1>4 DEF View, QueueTellsOneStory, EventAt
    <3>3. bonds' \in BOOLEAN
      BY <2>1
    <3> QED BY <1>4, <1>5, <3>1, <3>2, <3>3, StoryPop
  <2>3. BondedHasKeys' /\ FlagInv'
    BY <1>3, <1>4, <1>5, <2>1
       DEF BondedHasKeys, FlagInv, Saving, BondingFlagAgrees, TimingFollowsBonds
  <2> QED BY <2>2, <2>3 DEF BondInv
<1> QED BY <1>6, <1>7

\* The copy in flash.
LEMMA SaveKeepsBonds ==
    ASSUME BondInv, SaveBondingInfo
    PROVE  BondInv'
<1>1. /\ Saving /\ pc' = "idle" /\ nvm' = bonding_info
      /\ bonded' = (bonded /\ pc = "save_bonded")
      /\ UNCHANGED <<evq, adv, timing, pairing, bonds, bonding_info, conn_handle, resets>>
  BY DEF SaveBondingInfo, Saving, stackVars
<1>2. BondStory(evq', bonds', pairing')
  BY <1>1 DEF BondInv
<1>3. BondedHasKeys'
  BY <1>1 DEF BondInv, BondedHasKeys
<1>4. FlagInv'
  BY <1>1 DEF BondInv, FlagInv, Saving, BondingFlagAgrees, TimingFollowsBonds, BondQueued, Booted
<1> QED BY <1>2, <1>3, <1>4 DEF BondInv

\* A button starts advertising only when bt.c rightly believes that nothing is
\* queued.
LEMMA ButtonStartKeepsBonds ==
    ASSUME IInv, BondInv, ButtonStartsAdv
    PROVE  BondInv'
<1>1. /\ View /\ FirmwareTypeOK /\ StackTypeOK /\ Running /\ conn_handle = INVALID_HANDLE /\ ~Saving
      /\ bonds \in BOOLEAN
  BY DEF IInv, BtTypeOK, StackTypeOK, ButtonStartsAdv, Connected, Saving
<1>2. /\ StartAdv(conn_handle, byte0, byte1, bonding_info) /\ pc' = "idle"
      /\ UNCHANGED <<evq, pairing, bonds, nvm, bonded, bonding_info, conn_handle, resets>>
  BY DEF ButtonStartsAdv, flashVars
<1>3. BondStory(evq', bonds', pairing') /\ BondedHasKeys'
  BY <1>1, <1>2 DEF BondInv, BondedHasKeys, Saving
<1>4. resets' = 0 => TimingFollowsBonds'
  <2>1. CASE byte0 # 0
    <3>1. UNCHANGED <<adv, timing>>
      BY <1>2, <2>1 DEF StartAdv, NoStart
    <3> QED BY <1>2, <3>1 DEF BondInv, FlagInv, TimingFollowsBonds
  <2>2. CASE byte0 = 0
    <3>1. evq = <<>> /\ ~adv /\ Booted
      BY <1>1, <2>2 DEF View, ViewLagsByQueue, Booted, INVALID_HANDLE
    <3>2. ~BondQueued
      BY <3>1 DEF BondQueued
    <3>3. resets = 0 => (bonds <=> bonding_info = 1)
      BY <3>1, <3>2 DEF BondInv, FlagInv, BondingFlagAgrees
    <3> QED BY <1>2, <3>1, <3>3, StartKeepsTiming
  <2> QED BY <2>1, <2>2
<1>5. FlagInv'
  <2>1. TimingFollowsBonds'
    BY <1>4 DEF TimingFollowsBonds
  <2>2. BondingFlagAgrees'
    BY <1>1, <1>2 DEF BondInv, FlagInv, BondingFlagAgrees, BondQueued, Booted, Saving
  <2> QED BY <1>2, <2>1, <2>2 DEF BondInv, FlagInv, Saving, Booted
<1> QED BY <1>3, <1>5 DEF BondInv

-----------------------------------------------------------------------------
(* The invariant *)

LEMMA StepKeepsBonds ==
    ASSUME IInv, BondInv, BtNext
    PROVE  BondInv'
<1>1. CASE Radio /\ UNCHANGED <<appVars, resets>>
  BY <1>1, RadioKeepsBonds
<1>2. CASE SystemBoot \/ ConnectionClosed
  BY <1>2, BootKeepsBonds, ClosedKeepsBonds
<1>3. CASE ConnectionOpened \/ ConnParamUpdated \/ CharStatus \/ UserWriteRequest \/ AdvTimeout
  BY <1>3, OtherKeepsBonds
<1>4. CASE BondingConfirm \/ Bonded \/ BondFailed
  BY <1>4, ConfirmKeepsBonds, BondedKeepsBonds, FailedKeepsBonds
<1>5. CASE SaveBondingInfo \/ ButtonStartsAdv
  BY <1>5, SaveKeepsBonds, ButtonStartKeepsBonds
<1>6. CASE FactoryReset
  <2>1. BtPowerOn /\ bonds' = FALSE /\ nvm' = NoKey
    BY <1>6 DEF FactoryReset
  <2> QED BY <2>1, PowerOnKeepsBonds
<1>7. CASE PowerLoss
  <2>1. BtPowerOn /\ bonds' = bonds /\ bonds \in BOOLEAN
    BY <1>7 DEF PowerLoss, flashVars, IInv, BtTypeOK, StackTypeOK
  <2>2. resets' # 0
    BY <1>7 DEF PowerLoss, IInv, BtTypeOK
  <2> QED BY <2>1, <2>2, PowerOnKeepsBonds
<1>8. CASE ButtonRings \/ ButtonStops
  BY <1>8, StillKeepsBonds DEF ButtonRings, ButtonStops, stackVars, flashVars, appVars
<1>9. CASE ButtonSignal \/ ButtonReports \/ ButtonDone
  BY <1>9, StillKeepsBonds
     DEF ButtonSignal, EnterButtonHandler, ButtonReports, ButtonDone, stackVars, flashVars, appVars
<1> QED BY <1>1, <1>2, <1>3, <1>4, <1>5, <1>6, <1>7, <1>8, <1>9
        DEF BtNext, EventHandler, OtherEvent, ButtonPath

\* The invariant on bonds is inductive, given the one on the queue.
LEMMA BondInvKept == BtSteps => []BondInv
<1>1. BtInit => BondInv
  <2> SUFFICES ASSUME BtInit PROVE BondInv
    OBVIOUS
  <2>1. /\ evq = <<Event("boot", 0)>> /\ pairing = "none" /\ bonded = FALSE /\ adv = FALSE
        /\ conn_handle = 0 /\ bonds = FALSE /\ nvm = NoKey /\ pc = "idle"
    BY DEF BtInit, FirmwareInit
  <2>2. DOMAIN evq = {1} /\ evq[1].id = "boot"
    BY <2>1 DEF Event
  <2>3. BondStory(evq, bonds, pairing)
    BY <2>1, <2>2 DEF BondStory, Confirm, KeyMissing
  <2>4. BondedHasKeys /\ FlagInv
    BY <2>1 DEF BondedHasKeys, FlagInv, Saving, BondingFlagAgrees, TimingFollowsBonds, Booted
  <2> QED BY <2>3, <2>4 DEF BondInv
<1>2. IInv /\ BondInv /\ [BtNext]_btVars => BondInv'
  <2> SUFFICES ASSUME IInv, BondInv, [BtNext]_btVars PROVE BondInv'
    OBVIOUS
  <2>1. CASE UNCHANGED btVars
    BY <2>1, StillKeepsBonds DEF btVars, firmwareVars, stackVars, flashVars, appVars
  <2> QED BY <2>1, StepKeepsBonds
<1> QED BY <1>1, <1>2, IInvKept, PTL DEF BtSteps

\* What bt.c and its queue say of bonds is true in every behaviour of bt.c.
THEOREM BondInvHolds == BtSpec => []BondInv
  BY BondInvKept, PTL DEF BtSpec, BtSteps

\* Until a power loss, bonding_info and its copy in flash are right about the
\* bonding list, whatever the central does while bt.c's handlers lag behind it.
THEOREM BondingFlagAgreesHolds == BtSpec => []BondingFlagAgrees
<1>1. BondInv => BondingFlagAgrees
  BY DEF BondInv, FlagInv
<1> QED BY <1>1, BondInvHolds, PTL

\* Until a power loss, start_adv chooses the timing of the bonded gamepad
\* exactly when the bonding list has an entry.
THEOREM TimingFollowsBondsHolds == BtSpec => []TimingFollowsBonds
<1>1. BondInv => TimingFollowsBonds
  BY DEF BondInv, FlagInv
<1> QED BY <1>1, BondInvHolds, PTL

\* A connection marked bonded has keys behind it, power losses included.
THEOREM BondedHasKeysHolds == BtSpec => []BondedHasKeys
<1>1. BondInv => BondedHasKeys
  BY DEF BondInv
<1> QED BY <1>1, BondInvHolds, PTL

-----------------------------------------------------------------------------
(* The client configuration *)

\* A queue that follows the other: the last client configuration is the same, or
\* there is none in either.
SameStatus(q, r) ==
    /\ NoStatus(r) => NoStatus(q)
    /\ \A i \in DOMAIN r : LastStatus(r, i) => \E j \in DOMAIN q : LastStatus(q, j) /\ q[j] = r[i]

\* An event about something else is raised, or popped.
LEMMA StatusPush ==
    ASSUME NEW q \in Seq(EventSet), NEW e \in EventSet, e.id # "char_status"
    PROVE  SameStatus(q, Append(q, e))
<1> DEFINE r == Append(q, e)
<1>1. /\ DOMAIN r = 1 .. Len(q) + 1 /\ DOMAIN q = 1 .. Len(q)
      /\ r[Len(q) + 1] = e
      /\ \A i \in DOMAIN q : r[i] = q[i] /\ i \in DOMAIN r
      /\ \A i \in DOMAIN r : i \in DOMAIN q \/ i = Len(q) + 1
  BY PushFacts
<1> HIDE DEF r
<1>2. NoStatus(r) => NoStatus(q)
  BY <1>1 DEF NoStatus
<1>3. ASSUME NEW i \in DOMAIN r, LastStatus(r, i)
      PROVE  \E j \in DOMAIN q : LastStatus(q, j) /\ q[j] = r[i]
  <2>1. i \in DOMAIN q
    BY <1>1, <1>3 DEF LastStatus
  <2>2. LastStatus(q, i) /\ q[i] = r[i]
    BY <1>1, <1>3, <2>1 DEF LastStatus
  <2> QED BY <2>1, <2>2
<1>4. SameStatus(q, r)
  BY <1>2, <1>3 DEF SameStatus
<1> QED BY <1>4 DEF r

LEMMA StatusPop ==
    ASSUME NEW q \in Seq(EventSet), q # <<>>
    PROVE  /\ Head(q).id # "char_status" => SameStatus(q, Tail(q))
           /\ \A i \in DOMAIN Tail(q) :
                  LastStatus(Tail(q), i) => \E j \in DOMAIN q : LastStatus(q, j) /\ q[j] = Tail(q)[i]
           /\ NoStatus(Tail(q)) /\ Head(q).id = "char_status" => LastStatus(q, 1)
<1> DEFINE r == Tail(q)
<1>1. /\ Head(q) = q[1] /\ 1 \in DOMAIN q
      /\ \A i \in DOMAIN r : r[i] = q[i + 1] /\ i \in Nat /\ i + 1 \in DOMAIN q
      /\ \A i \in DOMAIN q : i \in Nat /\ i >= 1 /\ (i # 1 => i - 1 \in DOMAIN r /\ r[i - 1] = q[i])
  BY PopFacts
<1> HIDE DEF r
<1>2. q[1].id # "char_status" /\ NoStatus(r) => NoStatus(q)
  BY <1>1, ZenonT(60) DEF NoStatus
<1>3. ASSUME NEW i \in DOMAIN r, LastStatus(r, i)
      PROVE  \E j \in DOMAIN q : LastStatus(q, j) /\ q[j] = r[i]
  <2>1. i + 1 \in DOMAIN q /\ q[i + 1] = r[i] /\ i \in Nat
    BY <1>1
  <2>2. ASSUME NEW j \in DOMAIN q, j > i + 1
        PROVE  q[j].id # "char_status"
    <3>1. j \in Nat /\ j - 1 > i /\ j # 1
      BY <1>1, <2>1, <2>2
    <3>2. j - 1 \in DOMAIN r /\ r[j - 1] = q[j]
      BY <1>1, <3>1
    <3> QED BY <1>3, <3>1, <3>2 DEF LastStatus
  <2> QED BY <1>3, <2>1, <2>2 DEF LastStatus
<1>4. NoStatus(r) /\ q[1].id = "char_status" => LastStatus(q, 1)
  <2>1. \A j \in DOMAIN q : j > 1 => j - 1 \in DOMAIN r /\ r[j - 1] = q[j]
    BY <1>1
  <2> QED BY <2>1 DEF NoStatus, LastStatus
<1>5. /\ q[1].id # "char_status" => SameStatus(q, r)
  BY <1>2, <1>3 DEF SameStatus
<1> QED BY <1>1, <1>3, <1>4, <1>5 DEF r

\* A step about something else.
LEMMA SameKeepsSub ==
    ASSUME SubInv, SameStatus(evq, evq'), Running' => Running,
           \/ UNCHANGED <<link, subscribed, conn_handle, report_ccc>>
           \/ ~link' /\ subscribed' = 0
           \/ ~link /\ UNCHANGED <<link, subscribed>>
    PROVE  SubInv'
<1>1. CASE ~link' /\ subscribed' = 0
  BY <1>1 DEF SubInv
<1>2. CASE ~link /\ UNCHANGED <<link, subscribed>>
  BY <1>2 DEF SubInv
<1>3. CASE UNCHANGED <<link, subscribed, conn_handle, report_ccc>>
  <2>1. ~link' => subscribed' = 0
    BY <1>3 DEF SubInv
  <2> SUFFICES ASSUME Running', link'
               PROVE  /\ \A i \in DOMAIN evq' : LastStatus(evq', i) => evq'[i].arg = subscribed'
                      /\ NoStatus(evq') =>
                             subscribed' = IF conn_handle' = Handle THEN report_ccc' ELSE 0
    BY <2>1 DEF SubInv
  <2>2. Running /\ link
    BY <1>3
  <2>3. ASSUME NEW i \in DOMAIN evq', LastStatus(evq', i)
        PROVE  evq'[i].arg = subscribed'
    <3>1. PICK j \in DOMAIN evq : LastStatus(evq, j) /\ evq[j] = evq'[i]
      BY <2>3 DEF SameStatus
    <3>2. evq[j].arg = subscribed
      BY <2>2, <3>1 DEF SubInv
    <3> QED BY <1>3, <3>1, <3>2
  <2>4. NoStatus(evq') => NoStatus(evq)
    BY DEF SameStatus
  <2>5. NoStatus(evq') => subscribed = IF conn_handle = Handle THEN report_ccc ELSE 0
    BY <2>2, <2>4 DEF SubInv
  <2> QED BY <1>3, <2>3, <2>5
<1> QED BY <1>1, <1>2, <1>3

LEMMA SameQueue == SameStatus(evq, evq)
  BY DEF SameStatus

\* The central writes its client configuration: the write is the last of the queue.
LEMMA WriteKeepsSub ==
    ASSUME StackTypeOK, CentralWritesCcc
    PROVE  SubInv'
<1>1. PICK flags \in 0 .. 1 : subscribed' = flags /\ Raise("char_status", flags)
  BY DEF CentralWritesCcc
<1> DEFINE e == Event("char_status", flags)
<1>2. e \in EventSet /\ e.id = "char_status" /\ e.arg = flags
  BY DEF Event, EventSet
<1>3. evq \in Seq(EventSet) /\ evq' = Append(evq, e) /\ link'
  BY <1>1 DEF StackTypeOK, Raise, CentralWritesCcc
<1> HIDE DEF e
<1>4. /\ DOMAIN evq' = 1 .. Len(evq) + 1 /\ Len(evq) \in Nat
      /\ evq'[Len(evq) + 1] = e /\ Len(evq) + 1 \in DOMAIN evq'
  BY <1>2, <1>3, PushFacts
<1>5. ~NoStatus(evq')
  BY <1>2, <1>4 DEF NoStatus
<1>6. ASSUME NEW i \in DOMAIN evq', LastStatus(evq', i)
      PROVE  evq'[i].arg = subscribed'
  <2>1. ~(Len(evq) + 1 > i)
    BY <1>2, <1>4, <1>6 DEF LastStatus
  <2>2. i = Len(evq) + 1
    BY <1>4, <2>1
  <2> QED BY <1>1, <1>2, <1>4, <2>2
<1> QED BY <1>3, <1>5, <1>6 DEF SubInv

LEMMA RadioKeepsSub ==
    ASSUME IInv, SubInv, Radio, UNCHANGED <<appVars, resets>>
    PROVE  SubInv'
<1>1. StackTypeOK /\ View
  BY DEF IInv, BtTypeOK
<1>2. ASSUME NEW id \in EventIds \ {"parameters", "char_status"}, NEW arg \in Nat, Raise(id, arg)
      PROVE  SameStatus(evq, evq')
  <2> DEFINE e == Event(id, arg)
  <2>1. e \in EventSet /\ e.id # "char_status"
    BY EventTypes DEF Event
  <2>2. evq \in Seq(EventSet) /\ evq' = Append(evq, e)
    BY <1>1, <1>2 DEF StackTypeOK, Raise
  <2> HIDE DEF e
  <2> QED BY <2>1, <2>2, StatusPush
<1>3. {"opened", "adv_timeout", "closed", "user_write", "confirm_bonding", "bonded",
       "bonding_failed"} \subseteq EventIds \ {"parameters", "char_status"}
  BY DEF EventIds, LinkEvents, ConnEvents, SmEvents
<1> USE DEF radioFrame
<1>4. CASE CentralWritesCcc
  BY <1>1, <1>4, WriteKeepsSub
<1>5. CASE CentralConnects
  <2>1. Running /\ adv /\ conn_handle = INVALID_HANDLE /\ evq = <<>> /\ ~link
    BY <1>1, <1>5 DEF CentralConnects, View, ViewLagsByQueue
  <2>2. PICK bonding : evq' = Append(evq, Event("opened", bonding))
    BY <1>5 DEF CentralConnects, Raise
  <2>3. DOMAIN evq' = {1} /\ evq'[1].id = "opened"
    BY <2>1, <2>2 DEF Event
  <2>4. subscribed' = 0 /\ link' /\ conn_handle' = INVALID_HANDLE
    BY <1>5, <2>1 DEF CentralConnects, SubInv
  <2> QED BY <2>3, <2>4 DEF SubInv, LastStatus, Handle, INVALID_HANDLE
<1>6. CASE CentralUpdatesParameters
  <2>1. PICK interval \in Intervals : Raise("parameters", interval)
    BY <1>6 DEF CentralUpdatesParameters
  <2> DEFINE e == Event("parameters", interval)
  <2>2. e \in EventSet /\ e.id # "char_status"
    BY DEF Event, EventSet
  <2>3. evq \in Seq(EventSet) /\ evq' = Append(evq, e)
    BY <1>1, <2>1 DEF StackTypeOK, Raise
  <2> HIDE DEF e
  <2>4. SameStatus(evq, evq')
    BY <2>2, <2>3, StatusPush
  <2>5. Running /\ UNCHANGED <<link, subscribed, conn_handle, report_ccc>>
    BY <1>6 DEF CentralUpdatesParameters
  <2> QED BY <2>4, <2>5, SameKeepsSub
<1>7. CASE AdvertisingTimesOut
  <2>1. SameStatus(evq, evq')
    BY <1>2, <1>3, <1>7 DEF AdvertisingTimesOut
  <2>2. Running /\ UNCHANGED <<link, subscribed, conn_handle, report_ccc>>
    BY <1>7 DEF AdvertisingTimesOut
  <2> QED BY <2>1, <2>2, SameKeepsSub
<1>8. CASE LinkLost
  <2>1. SameStatus(evq, evq')
    BY <1>2, <1>3, <1>8 DEF LinkLost
  <2>2. Running /\ ~link' /\ subscribed' = 0
    BY <1>8 DEF LinkLost
  <2> QED BY <2>1, <2>2, SameKeepsSub
<1>9. CASE CentralWritesOta \/ CentralAsksToBond
  <2>1. SameStatus(evq, evq')
    BY <1>2, <1>3, <1>9 DEF CentralWritesOta, CentralAsksToBond
  <2>2. Running /\ UNCHANGED <<link, subscribed, conn_handle, report_ccc>>
    BY <1>9 DEF CentralWritesOta, CentralAsksToBond
  <2> QED BY <2>1, <2>2, SameKeepsSub
<1>10. CASE BondStored \/ PairedOnly \/ PairingFails
  <2>1. SameStatus(evq, evq')
    BY <1>2, <1>3, <1>10
       DEF BondStored, PairedOnly, PairingFails, INVALID_HANDLE, OTHER_REASON, PIN_OR_KEY_MISSING
  <2>2. Running /\ UNCHANGED <<link, subscribed, conn_handle, report_ccc>>
    BY <1>10 DEF BondStored, PairedOnly, PairingFails
  <2> QED BY <2>1, <2>2, SameKeepsSub
<1> QED BY <1>4, <1>5, <1>6, <1>7, <1>8, <1>9, <1>10 DEF Radio

LEMMA HandlersKeepSub ==
    ASSUME IInv, SubInv, OtherEvent \/ SystemBoot
    PROVE  SubInv'
<1>1. StackTypeOK /\ View /\ FirmwareTypeOK
  BY DEF IInv, BtTypeOK
<1>2. ASSUME NEW id, Handling(id), Popped
      PROVE  /\ Running /\ evq \in Seq(EventSet) /\ evq # <<>> /\ Head(evq).id = id
             /\ evq' = Tail(evq)
             /\ id # "char_status" => SameStatus(evq, evq')
  BY <1>1, <1>2, StatusPop DEF Handling, Popped, StackTypeOK
<1>3. CASE CharStatus
  <2>1. /\ Running /\ evq \in Seq(EventSet) /\ evq # <<>> /\ Head(evq).id = "char_status"
        /\ evq' = Tail(evq)
    BY <1>2, <1>3 DEF CharStatus
  <2>2. UNCHANGED <<link, conn_handle, adv, subscribed>> /\ report_ccc' = Head(evq).arg
    BY <1>3 DEF CharStatus, Arg
  <2>3. conn_handle = Handle
    <3>1. "char_status" \in ConnEvents
      BY DEF ConnEvents
    <3> QED BY <1>1, <2>1, <2>2, <3>1, ConnEventKeepsView
  <2>4. Head(evq) = evq[1] /\ 1 \in DOMAIN evq
    BY <2>1, PopFacts
  <2>5. ASSUME link, NEW i \in DOMAIN evq', LastStatus(evq', i)
        PROVE  evq'[i].arg = subscribed
    <3>1. PICK j \in DOMAIN evq : LastStatus(evq, j) /\ evq[j] = evq'[i]
      BY <2>1, <2>5, StatusPop
    <3> QED BY <2>1, <2>5, <3>1 DEF SubInv
  <2>6. link /\ NoStatus(evq') => report_ccc' = subscribed
    <3>1. NoStatus(evq') => LastStatus(evq, 1)
      BY <2>1, StatusPop
    <3> QED BY <2>1, <2>2, <2>4, <3>1 DEF SubInv
  <2>7. ~link' => subscribed' = 0
    BY <2>2 DEF SubInv
  <2> QED BY <2>2, <2>3, <2>5, <2>6, <2>7 DEF SubInv
<1>4. CASE ConnectionOpened
  <2>1. Running /\ SameStatus(evq, evq') /\ evq # <<>> /\ EventAt(1) = "opened" /\ 1 \in DOMAIN evq
    BY <1>2, <1>4, PopFacts DEF ConnectionOpened, EventAt
  <2>2. conn_handle = INVALID_HANDLE
    BY <1>1, <2>1 DEF View, QueueTellsOneStory
  <2>3. conn_handle' = Handle /\ report_ccc' = 0 /\ UNCHANGED <<link, subscribed>>
    BY <1>4 DEF ConnectionOpened
  <2>4. ASSUME link, NEW i \in DOMAIN evq', LastStatus(evq', i)
        PROVE  evq'[i].arg = subscribed
    <3>1. PICK j \in DOMAIN evq : LastStatus(evq, j) /\ evq[j] = evq'[i]
      BY <2>1, <2>4 DEF SameStatus
    <3> QED BY <2>1, <2>4, <3>1 DEF SubInv
  <2>5. link /\ NoStatus(evq') => subscribed = 0
    BY <2>1, <2>2 DEF SubInv, SameStatus, Handle, INVALID_HANDLE
  <2>6. ~link' => subscribed' = 0
    BY <2>3 DEF SubInv
  <2> QED BY <2>3, <2>4, <2>5, <2>6 DEF SubInv
<1>5. CASE ConnectionClosed
  <2>1. Running /\ SameStatus(evq, evq') /\ ~link /\ UNCHANGED <<link, subscribed>>
    BY <1>1, <1>2, <1>5, ClosedWhenConnected DEF ConnectionClosed
  <2> QED BY <2>1, SameKeepsSub
<1>6. CASE SystemBoot
  <2>1. Running /\ SameStatus(evq, evq') /\ evq # <<>> /\ EventAt(1) = "boot" /\ 1 \in DOMAIN evq
    BY <1>2, <1>6, PopFacts DEF SystemBoot, EventAt
  <2>2. ~link
    BY <1>1, <2>1 DEF View, QueueTellsOneStory
  <2>3. UNCHANGED <<link, subscribed>>
    BY <1>6 DEF SystemBoot
  <2> QED BY <2>1, <2>2, <2>3, SameKeepsSub
<1>7. CASE UserWriteRequest
  BY <1>7 DEF UserWriteRequest, SubInv
<1>8. CASE ConnParamUpdated \/ AdvTimeout
  <2>1. Running /\ SameStatus(evq, evq')
    BY <1>2, <1>8 DEF ConnParamUpdated, AdvTimeout
  <2>2. UNCHANGED <<link, subscribed, conn_handle, report_ccc>>
    BY <1>8 DEF ConnParamUpdated, AdvTimeout, firmwareVars
  <2> QED BY <2>1, <2>2, SameKeepsSub
<1>9. CASE BondingConfirm \/ Bonded \/ BondFailed
  <2>1. Running /\ SameStatus(evq, evq')
    <3>1. CASE BondingConfirm
      BY <1>2, <3>1 DEF BondingConfirm
    <3>2. CASE Bonded
      BY <1>2, <3>2 DEF Bonded
    <3>3. CASE BondFailed
      BY <1>2, <3>3 DEF BondFailed
    <3> QED BY <1>9, <3>1, <3>2, <3>3
  <2>2. UNCHANGED <<link, subscribed, conn_handle, report_ccc>>
    BY <1>9 DEF BondingConfirm, Bonded, BondFailed
  <2> QED BY <2>1, <2>2, SameKeepsSub
<1> QED BY <1>3, <1>4, <1>5, <1>6, <1>7, <1>8, <1>9 DEF OtherEvent

LEMMA StepKeepsSub ==
    ASSUME IInv, SubInv, BtNext
    PROVE  SubInv'
<1>1. CASE Radio /\ UNCHANGED <<appVars, resets>>
  BY <1>1, RadioKeepsSub
<1>2. CASE OtherEvent \/ SystemBoot
  BY <1>2, HandlersKeepSub
<1>3. CASE FactoryReset \/ PowerLoss
  <2>1. ~link' /\ subscribed' = 0
    BY <1>3 DEF FactoryReset, PowerLoss, BtPowerOn, FirmwarePowerOn
  <2> QED BY <2>1 DEF SubInv
<1>4. ASSUME Running, UNCHANGED <<evq, link, subscribed, conn_handle, report_ccc>>
      PROVE  SubInv'
  BY <1>4, SameKeepsSub, SameQueue
<1>5. CASE SaveBondingInfo \/ ButtonRings \/ ButtonStops
  BY <1>4, <1>5 DEF SaveBondingInfo, ButtonRings, ButtonStops, stackVars
<1>6. CASE ButtonSignal \/ ButtonStartsAdv \/ ButtonReports \/ ButtonDone
  BY <1>4, <1>6 DEF ButtonSignal, EnterButtonHandler, ButtonStartsAdv, ButtonReports, ButtonDone,
                    stackVars
<1> QED BY <1>1, <1>2, <1>3, <1>5, <1>6 DEF BtNext, EventHandler, ButtonPath

\* The invariant on subscriptions is inductive, given the one on the queue.
LEMMA SubInvKept == BtSteps => []SubInv
<1>1. BtInit => SubInv
  BY DEF BtInit, FirmwareInit, SubInv
<1>2. IInv /\ SubInv /\ [BtNext]_btVars => SubInv'
  <2> SUFFICES ASSUME IInv, SubInv, [BtNext]_btVars PROVE SubInv'
    OBVIOUS
  <2>1. CASE UNCHANGED btVars
    BY <2>1, SameKeepsSub, SameQueue DEF btVars, firmwareVars, stackVars, Running
  <2> QED BY <2>1, StepKeepsSub
<1> QED BY <1>1, <1>2, IInvKept, PTL DEF BtSteps

\* What bt.c and its queue say of the subscription is true in every behaviour.
THEOREM SubInvHolds == BtSpec => []SubInv
  BY SubInvKept, PTL DEF BtSpec, BtSteps

\* Reports are sent on the strength of what this central wrote on this
\* connection, or of an event still queued: never of what another one wrote.
THEOREM SubscriptionIsCurrentHolds == BtSpec => []SubscriptionIsCurrent
<1>1. SubInv => SubscriptionIsCurrent
  BY DEF SubInv, SubscriptionIsCurrent, NoStatus, EventAt
<1> QED BY <1>1, SubInvHolds, PTL

=============================================================================
