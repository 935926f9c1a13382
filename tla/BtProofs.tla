------------------------------ MODULE BtProofs ------------------------------
(***************************************************************************)
(* Proofs about bt.c for every set of connection intervals, every bound on *)
(* the queue and on power losses, and whatever advertising handle the      *)
(* stack gives out.                                                        *)
(***************************************************************************)
EXTENDS BtProps, TLAPS

-----------------------------------------------------------------------------
(* The event queue *)

\* What popping an event leaves.
LEMMA PopFacts ==
    ASSUME NEW S, NEW q \in Seq(S), q # <<>>
    PROVE  /\ Head(q) = q[1] /\ Head(q) \in S
           /\ Tail(q) \in Seq(S)
           /\ Len(q) \in Nat \ {0}
           /\ Len(Tail(q)) = Len(q) - 1
           /\ \A i \in 1 .. Len(q) - 1 : Tail(q)[i] = q[i + 1]
  OBVIOUS

\* The places behind the head of a queue of n events.
LEMMA BehindTheHead ==
    ASSUME NEW n \in Nat, NEW i \in 1 .. n - 1
    PROVE  i + 1 \in 1 .. n /\ i + 1 # 1 /\ n # 1 /\ (i + 1 = n => i = n - 1)
  OBVIOUS

\* What raising an event leaves.
LEMMA PushFacts ==
    ASSUME NEW S, NEW q \in Seq(S), NEW e \in S
    PROVE  /\ Append(q, e) \in Seq(S)
           /\ Len(Append(q, e)) = Len(q) + 1
           /\ Append(q, e)[Len(q) + 1] = e
           /\ \A i \in 1 .. Len(q) : Append(q, e)[i] = q[i]
  OBVIOUS

\* The events the radio raises are well typed.
LEMMA EventTypes ==
    ASSUME NEW id \in EventIds, NEW arg \in Nat
    PROVE  /\ id \notin {"parameters", "char_status"} => Event(id, arg) \in EventSet
           /\ arg \in Intervals => Event("parameters", arg) \in EventSet
           /\ arg \in 0 .. 1 => Event("char_status", arg) \in EventSet
  BY DEF Event, EventSet

\* The queue after a step of the radio.
LEMMA RadioQueue ==
    ASSUME StackTypeOK, Radio
    PROVE  evq' \in Seq(EventSet)
<1> USE DEF StackTypeOK
<1>1. ASSUME NEW id \in EventIds \ {"parameters", "char_status"}, NEW arg \in Nat, Raise(id, arg)
      PROVE  evq' \in Seq(EventSet)
  BY <1>1, EventTypes, PushFacts DEF Raise
<1>2. {"opened", "adv_timeout", "closed", "user_write", "confirm_bonding", "bonded",
       "bonding_failed"} \subseteq EventIds \ {"parameters", "char_status"}
  BY DEF EventIds, LinkEvents, ConnEvents, SmEvents
<1>3. CASE CentralUpdatesParameters
  <2>1. PICK interval \in Intervals : Raise("parameters", interval)
    BY <1>3 DEF CentralUpdatesParameters
  <2>2. Event("parameters", interval) \in EventSet
    BY DEF Event, EventSet
  <2> QED BY <2>1, <2>2, PushFacts DEF Raise
<1>4. CASE CentralWritesCcc
  <2>1. PICK flags \in 0 .. 1 : Raise("char_status", flags)
    BY <1>4 DEF CentralWritesCcc
  <2>2. Event("char_status", flags) \in EventSet
    BY DEF Event, EventSet
  <2> QED BY <2>1, <2>2, PushFacts DEF Raise
<1>5. CASE CentralConnects
  BY <1>1, <1>2, <1>5 DEF CentralConnects, INVALID_HANDLE
<1>6. CASE AdvertisingTimesOut \/ LinkLost \/ CentralWritesOta \/ CentralAsksToBond
  BY <1>1, <1>2, <1>6
     DEF AdvertisingTimesOut, LinkLost, CentralWritesOta, CentralAsksToBond
<1>7. CASE BondStored \/ PairedOnly \/ PairingFails
  BY <1>1, <1>2, <1>7
     DEF BondStored, PairedOnly, PairingFails, INVALID_HANDLE, OTHER_REASON, PIN_OR_KEY_MISSING
<1> QED BY <1>3, <1>4, <1>5, <1>6, <1>7 DEF Radio

-----------------------------------------------------------------------------
(* One step at a time: bt.c's view and the queue *)

View == QueueTellsOneStory /\ ViewLagsByQueue

\* The ids the two invariants tell apart are none of ConnEvents.
LEMMA OrdinaryIds ==
    ASSUME NEW id \in ConnEvents
    PROVE  id \in EventIds /\ id \notin {"boot", "opened", "closed", "adv_timeout"}
  BY DEF ConnEvents, SmEvents, EventIds

\* While a link is up, the queue holds no closed, boot or timeout event, and an
\* opened event only in front.
LEMMA LinkUp ==
    ASSUME StackTypeOK, View, Running, link
    PROVE  /\ ~adv
           /\ conn_handle = Handle \/ FirstIs("opened")
           /\ \A i \in DOMAIN evq :
                  /\ EventAt(i) \notin {"closed", "boot", "adv_timeout"}
                  /\ EventAt(i) = "opened" =>
                         i = 1 /\ conn_handle = INVALID_HANDLE /\ byte0 = 1
  BY DEF View, QueueTellsOneStory, ViewLagsByQueue

\* The central does something on an open connection.
LEMMA RaisedOnLink ==
    ASSUME StackTypeOK, View, Running, link,
           NEW id \in ConnEvents, NEW arg, Event(id, arg) \in EventSet, Raise(id, arg),
           UNCHANGED <<mcu, link, conn_handle, adv, byte0>>
    PROVE  View'
<1>1. /\ evq \in Seq(EventSet)
      /\ Len(evq') = Len(evq) + 1
      /\ evq' \in Seq(EventSet)
      /\ evq'[Len(evq) + 1].id = id
      /\ \A i \in 1 .. Len(evq) : evq'[i] = evq[i]
  BY PushFacts DEF StackTypeOK, Raise, Event
<1>2. FirstIs("opened") => FirstIs("opened")'
  BY <1>1 DEF FirstIs, EventAt
<1>3. id \notin {"boot", "opened", "closed", "adv_timeout"}
  BY OrdinaryIds
<1>4. QueueTellsOneStory'
  <2> SUFFICES ASSUME NEW i \in DOMAIN evq'
               PROVE  /\ evq'[i].id \notin {"closed", "boot", "adv_timeout"}
                      /\ evq'[i].id = "opened" =>
                             i = 1 /\ conn_handle' = INVALID_HANDLE /\ byte0' = 1 /\ ~adv'
    BY DEF QueueTellsOneStory, EventAt
  <2>1. CASE i = Len(evq) + 1
    BY <1>1, <1>3, <2>1
  <2>2. CASE i # Len(evq) + 1
    <3>1. i \in DOMAIN evq /\ evq'[i].id = EventAt(i)
      BY <1>1, <2>2 DEF EventAt
    <3> QED BY <3>1, LinkUp
  <2> QED BY <2>1, <2>2
<1>5. ViewLagsByQueue'
  <2>1. FirstIs("boot") => 1 \in DOMAIN evq
    BY <1>1 DEF FirstIs
  <2>2. Booted
    BY <2>1, LinkUp DEF View, ViewLagsByQueue, FirstIs
  <2> QED BY <1>2, <2>2, LinkUp DEF View, ViewLagsByQueue, Booted, Running, Handle,
          INVALID_HANDLE
<1> QED BY <1>4, <1>5 DEF View


\* A central found the advertising.
LEMMA ConnectsKeepsView ==
    ASSUME StackTypeOK, View, CentralConnects, UNCHANGED byte0
    PROVE  View'
<1>1. /\ Running /\ adv /\ evq = <<>> /\ conn_handle = INVALID_HANDLE /\ byte0 = 1
      /\ ~adv' /\ link' /\ conn_handle' = conn_handle /\ byte0' = byte0 /\ mcu' = mcu
  BY DEF CentralConnects, radioFrame, View, ViewLagsByQueue
<1>2. PICK bonding : evq' = Append(evq, Event("opened", bonding))
  BY DEF CentralConnects, Raise
<1>3. Len(evq') = 1 /\ evq'[1].id = "opened" /\ DOMAIN evq' = {1} /\ evq' # <<>>
  BY <1>1, <1>2 DEF Event
<1>4. QueueTellsOneStory'
  BY <1>1, <1>3 DEF QueueTellsOneStory, EventAt
<1>5. ViewLagsByQueue'
  BY <1>1, <1>3 DEF ViewLagsByQueue, FirstIs, EventAt, Booted, INVALID_HANDLE, Handle
<1> QED BY <1>4, <1>5 DEF View

\* Nobody found it in time.
LEMMA TimeoutKeepsView ==
    ASSUME StackTypeOK, View, AdvertisingTimesOut, UNCHANGED byte0
    PROVE  View'
<1>1. /\ Running /\ adv /\ evq = <<>> /\ conn_handle = INVALID_HANDLE /\ byte0 = 1 /\ ~link
      /\ ~adv' /\ ~link' /\ conn_handle' = conn_handle /\ byte0' = byte0 /\ mcu' = mcu
  BY DEF AdvertisingTimesOut, radioFrame, View, ViewLagsByQueue
<1>2. evq' = Append(evq, Event("adv_timeout", 0))
  BY DEF AdvertisingTimesOut, Raise
<1>3. Len(evq') = 1 /\ evq'[1].id = "adv_timeout" /\ DOMAIN evq' = {1} /\ evq' # <<>>
  BY <1>1, <1>2 DEF Event
<1>4. QueueTellsOneStory'
  BY <1>1, <1>3 DEF QueueTellsOneStory, EventAt
<1>5. ViewLagsByQueue'
  BY <1>1, <1>3 DEF ViewLagsByQueue, FirstIs, EventAt, Booted, INVALID_HANDLE, Handle
<1> QED BY <1>4, <1>5 DEF View

\* The connection goes away: its closed event is the last of the queue.
LEMMA LostKeepsView ==
    ASSUME StackTypeOK, View, LinkLost, UNCHANGED byte0
    PROVE  View'
<1>1. /\ Running /\ link /\ ~link' /\ evq' = Append(evq, Event("closed", 0))
      /\ UNCHANGED <<mcu, conn_handle, adv, byte0>>
  BY DEF LinkLost, Raise, radioFrame
<1>2. /\ evq \in Seq(EventSet) /\ evq' # <<>>
      /\ Len(evq') = Len(evq) + 1
      /\ DOMAIN evq' = 1 .. Len(evq) + 1
      /\ evq'[Len(evq) + 1].id = "closed"
      /\ \A i \in 1 .. Len(evq) : evq'[i] = evq[i]
  BY <1>1 DEF StackTypeOK, Event
<1>3. FirstIs("opened") => FirstIs("opened")'
  BY <1>2 DEF FirstIs, EventAt
<1>4. LastIs("closed")'
  BY <1>2 DEF LastIs, EventAt
<1>5. QueueTellsOneStory'
  <2> SUFFICES ASSUME NEW i \in DOMAIN evq'
               PROVE  /\ evq'[i].id \notin {"boot", "adv_timeout"}
                      /\ evq'[i].id = "opened" =>
                             i = 1 /\ conn_handle' = INVALID_HANDLE /\ byte0' = 1 /\ ~adv'
                      /\ evq'[i].id = "closed" => i = Len(evq') /\ ~link' /\ ~adv'
    BY DEF QueueTellsOneStory, EventAt
  <2>1. CASE i = Len(evq) + 1
    BY <1>1, <1>2, <2>1, LinkUp
  <2>2. CASE i # Len(evq) + 1
    <3>1. i \in DOMAIN evq /\ evq'[i].id = EventAt(i)
      BY <1>2, <2>2 DEF EventAt
    <3> QED BY <1>1, <3>1, LinkUp
  <2> QED BY <2>1, <2>2
<1>6. ViewLagsByQueue'
  <2>1. FirstIs("boot") => 1 \in DOMAIN evq
    BY <1>2 DEF FirstIs
  <2>2. Booted
    BY <1>1, <2>1, LinkUp DEF View, ViewLagsByQueue, FirstIs
  <2> QED BY <1>1, <1>3, <1>4, <2>2, LinkUp
      DEF View, ViewLagsByQueue, Booted, Running, Handle, INVALID_HANDLE
<1> QED BY <1>5, <1>6 DEF View

\* Every step of the radio.
LEMMA RadioKeepsView ==
    ASSUME StackTypeOK, View, Radio, UNCHANGED appVars
    PROVE  View'
<1> USE DEF radioFrame, appVars
<1>1. CASE CentralConnects
  BY <1>1, ConnectsKeepsView
<1>2. CASE AdvertisingTimesOut
  BY <1>2, TimeoutKeepsView
<1>3. CASE LinkLost
  BY <1>3, LostKeepsView
<1>4. {"parameters", "char_status", "user_write", "confirm_bonding", "bonded", "bonding_failed"}
          \subseteq ConnEvents
  BY DEF ConnEvents, SmEvents
<1>5. CASE CentralUpdatesParameters
  <2>1. PICK interval \in Intervals : Raise("parameters", interval)
    BY <1>5 DEF CentralUpdatesParameters
  <2>2. Event("parameters", interval) \in EventSet
    BY DEF Event, EventSet
  <2> QED BY <1>4, <1>5, <2>1, <2>2, RaisedOnLink DEF CentralUpdatesParameters
<1>6. CASE CentralWritesCcc
  <2>1. PICK flags \in 0 .. 1 : Raise("char_status", flags)
    BY <1>6 DEF CentralWritesCcc
  <2>2. Event("char_status", flags) \in EventSet
    BY DEF Event, EventSet
  <2> QED BY <1>4, <1>6, <2>1, <2>2, RaisedOnLink DEF CentralWritesCcc
<1>7. ASSUME NEW id \in ConnEvents \ {"parameters", "char_status"}, NEW arg \in Nat,
             Raise(id, arg), Running, link, UNCHANGED <<mcu, link, conn_handle, adv, byte0>>
      PROVE  View'
  <2>1. Event(id, arg) \in EventSet
    BY OrdinaryIds, EventTypes
  <2> QED BY <1>7, <2>1, RaisedOnLink
<1>8. CASE CentralWritesOta \/ CentralAsksToBond
  BY <1>4, <1>7, <1>8 DEF CentralWritesOta, CentralAsksToBond
<1>9. CASE BondStored \/ PairedOnly
  BY <1>4, <1>7, <1>9 DEF BondStored, PairedOnly, INVALID_HANDLE
<1>10. CASE PairingFails
  BY <1>4, <1>7, <1>10 DEF PairingFails, OTHER_REASON, PIN_OR_KEY_MISSING
<1> QED BY <1>1, <1>2, <1>3, <1>5, <1>6, <1>8, <1>9, <1>10 DEF Radio

\* A handler of the security manager, of the GATT server or of the connection
\* parameters runs for a connection bt.c knows of, whatever else it changes.
LEMMA ConnEventKeepsView ==
    ASSUME FirmwareTypeOK, StackTypeOK, View, Running, evq # <<>>, Head(evq).id \in ConnEvents,
           evq' = Tail(evq), UNCHANGED <<link, conn_handle, adv>>
    PROVE  conn_handle = Handle /\ View'
<1>1. /\ evq \in Seq(EventSet) /\ evq' \in Seq(EventSet)
      /\ Len(evq) \in Nat \ {0} /\ Len(evq') = Len(evq) - 1
      /\ EventAt(1) \in ConnEvents
      /\ \A i \in 1 .. Len(evq) - 1 : evq'[i] = evq[i + 1]
  BY PopFacts DEF StackTypeOK, EventAt
<1>2. EventAt(1) \notin {"boot", "opened", "closed", "adv_timeout"}
  BY <1>1, OrdinaryIds
<1>3. ~FirstIs("boot") /\ ~FirstIs("opened") /\ ~FirstIs("adv_timeout")
  BY <1>2 DEF FirstIs
<1>4. conn_handle = Handle /\ ~adv /\ (link \/ LastIs("closed"))
  <2>1. Booted
    BY <1>3 DEF View, ViewLagsByQueue
  <2>2. conn_handle # INVALID_HANDLE
    BY <1>3 DEF View, ViewLagsByQueue
  <2>3. conn_handle = Handle
    BY <2>1, <2>2 DEF FirmwareTypeOK, Booted
  <2> QED BY <2>3 DEF View, ViewLagsByQueue
<1>5. QueueTellsOneStory'
  <2> SUFFICES ASSUME NEW i \in DOMAIN evq'
               PROVE  /\ evq'[i].id \notin {"boot", "opened", "adv_timeout"}
                      /\ evq'[i].id = "closed" => i = Len(evq') /\ ~link' /\ ~adv'
    BY DEF QueueTellsOneStory, EventAt
  <2>1. i + 1 \in DOMAIN evq /\ i + 1 # 1 /\ evq'[i].id = EventAt(i + 1)
        /\ (i + 1 = Len(evq) => i = Len(evq'))
    BY <1>1 DEF EventAt
  <2>2. EventAt(i + 1) \notin {"boot", "opened", "adv_timeout"}
    BY <1>1, <2>1 DEF View, QueueTellsOneStory
  <2>3. EventAt(i + 1) = "closed" => i + 1 = Len(evq) /\ ~link
    BY <2>1 DEF View, QueueTellsOneStory
  <2> QED BY <1>4, <2>1, <2>2, <2>3
<1>6. ViewLagsByQueue'
  <2>1. LastIs("closed") => LastIs("closed")'
    <3> SUFFICES ASSUME LastIs("closed") PROVE evq' # <<>> /\ evq'[Len(evq')].id = "closed"
      BY DEF LastIs, EventAt
    <3>1. Len(evq) # 1
      BY <1>2 DEF LastIs
    <3> QED BY <1>1, <3>1, SMTT(40) DEF LastIs, EventAt
  <2> QED BY <1>4, <2>1 DEF ViewLagsByQueue, Booted, Handle, INVALID_HANDLE
<1> QED BY <1>4, <1>5, <1>6 DEF View

\* A step that leaves the queue, the air and bt.c's view alone, and may stop
\* the program.
LEMMA IdleKeepsView ==
    ASSUME View, Running, UNCHANGED <<link, conn_handle, evq, adv, byte0>>
    PROVE  View'
  BY DEF View, QueueTellsOneStory, ViewLagsByQueue, Running, FirstIs, LastIs, EventAt, Booted

\* Power comes back.
LEMMA PowerOnMakesView ==
    ASSUME BtPowerOn
    PROVE  View'
<1>1. /\ evq' = <<Event("boot", 0)>> /\ conn_handle' = 0 /\ ~link' /\ ~adv' /\ byte0' = 0
  BY DEF BtPowerOn, FirmwarePowerOn
<1>2. Len(evq') = 1 /\ evq'[1].id = "boot" /\ DOMAIN evq' = {1} /\ evq' # <<>>
  BY <1>1 DEF Event
<1>3. QueueTellsOneStory'
  BY <1>1, <1>2 DEF QueueTellsOneStory, EventAt, Booted
<1>4. ViewLagsByQueue'
  BY <1>1, <1>2 DEF ViewLagsByQueue, FirstIs, EventAt, Booted, INVALID_HANDLE, Handle
<1> QED BY <1>3, <1>4 DEF View

\* What start_adv leaves when bt.c rightly believes that nothing is on the air:
\* advertising, or a stack call that failed.
LEMMA StartsInSilence ==
    ASSUME NEW enabled, NEW advHandle, NEW info, ~adv,
           StartAdv(INVALID_HANDLE, enabled, advHandle, info), enabled = 0
    PROVE  \/ mcu' = mcu /\ adv' = TRUE /\ byte0' = 1 /\ ~link
           \/ mcu' = "call_failed" /\ ~adv'
  BY DEF StartAdv, Start, NoStart

\* An empty queue and a bt.c that believes what is true.
LEMMA SettledView ==
    ASSUME evq' = <<>>, conn_handle' = INVALID_HANDLE, ~link',
           mcu' # "running" \/ (byte0' = 1 /\ adv') \/ (byte0' = 0 /\ ~adv')
    PROVE  View'
<1>1. QueueTellsOneStory'
  BY DEF QueueTellsOneStory
<1>2. ViewLagsByQueue'
  BY DEF ViewLagsByQueue, Running, FirstIs, LastIs, Booted, INVALID_HANDLE, Handle
<1> QED BY <1>1, <1>2 DEF View

\* __on_system_boot.
LEMMA BootKeepsView ==
    ASSUME StackTypeOK, View, SystemBoot
    PROVE  View'
<1>1. /\ evq \in Seq(EventSet) /\ evq # <<>> /\ EventAt(1) = "boot"
      /\ evq' = Tail(evq) /\ conn_handle' = INVALID_HANDLE /\ link' = link /\ Running
  BY PopFacts DEF StackTypeOK, SystemBoot, Handling, Popped, EventAt
<1>2. Len(evq) = 1 /\ ~Booted /\ ~link /\ ~adv
  BY <1>1 DEF View, QueueTellsOneStory
<1>3. byte0 = 0
  BY <1>1, <1>2 DEF View, ViewLagsByQueue
<1>4. evq' = <<>>
  BY <1>1, <1>2
<1>5. StartAdv(INVALID_HANDLE, byte0, AdvHandle, LoadedInfo)
  BY DEF SystemBoot
<1>6. mcu' # "running" \/ (byte0' = 1 /\ adv')
  BY <1>2, <1>3, <1>5, StartsInSilence
<1> QED BY <1>1, <1>2, <1>4, <1>6, SettledView

\* __on_connection_opened: whatever has happened to the connection since is
\* still in the queue.
LEMMA OpenedKeepsView ==
    ASSUME StackTypeOK, View, ConnectionOpened
    PROVE  View'
<1>1. /\ evq \in Seq(EventSet) /\ evq' \in Seq(EventSet) /\ evq # <<>>
      /\ Len(evq) \in Nat \ {0} /\ Len(evq') = Len(evq) - 1
      /\ EventAt(1) = "opened" /\ Running
      /\ conn_handle' = Handle /\ UNCHANGED <<link, adv>>
      /\ \A i \in 1 .. Len(evq) - 1 : evq'[i] = evq[i + 1]
  BY PopFacts DEF StackTypeOK, ConnectionOpened, Handling, Popped, EventAt
<1>2. ~adv /\ (link \/ LastIs("closed"))
  BY <1>1 DEF View, QueueTellsOneStory, ViewLagsByQueue, FirstIs
<1>3. QueueTellsOneStory'
  <2> SUFFICES ASSUME NEW i \in DOMAIN evq'
               PROVE  /\ evq'[i].id \notin {"boot", "opened", "adv_timeout"}
                      /\ evq'[i].id = "closed" => i = Len(evq') /\ ~link' /\ ~adv'
    BY DEF QueueTellsOneStory, EventAt
  <2>1. i + 1 \in DOMAIN evq /\ i + 1 # 1 /\ evq'[i].id = EventAt(i + 1) /\ Len(evq) # 1
        /\ (i + 1 = Len(evq) => i = Len(evq'))
    BY <1>1 DEF EventAt
  <2>2. EventAt(i + 1) \notin {"boot", "opened", "adv_timeout"}
    BY <1>1, <2>1 DEF View, QueueTellsOneStory
  <2>3. EventAt(i + 1) = "closed" => i + 1 = Len(evq) /\ ~link
    BY <2>1 DEF View, QueueTellsOneStory
  <2> QED BY <1>1, <1>2, <2>1, <2>2, <2>3
<1>4. LastIs("closed") => LastIs("closed")'
  <2> SUFFICES ASSUME LastIs("closed") PROVE evq' # <<>> /\ evq'[Len(evq')].id = "closed"
    BY DEF LastIs, EventAt
  <2>1. Len(evq) # 1
    BY <1>1 DEF LastIs
  <2> QED BY <1>1, <2>1 DEF LastIs, EventAt
<1>5. ViewLagsByQueue'
  BY <1>1, <1>2, <1>4 DEF ViewLagsByQueue, Booted, Handle, INVALID_HANDLE
<1> QED BY <1>3, <1>5 DEF View

\* The handlers of a closed event: the queue is empty behind it.
LEMMA ClosedKeepsView ==
    ASSUME StackTypeOK, View, ConnectionClosed
    PROVE  View'
<1>1. /\ evq \in Seq(EventSet) /\ evq # <<>> /\ EventAt(1) = "closed"
      /\ evq' = Tail(evq) /\ link' = link
  BY PopFacts DEF StackTypeOK, ConnectionClosed, Handling, Popped, EventAt
<1>2. Len(evq) = 1 /\ ~link /\ ~adv
  <2>1. 1 \in DOMAIN evq
    BY <1>1
  <2> QED BY <1>1, <2>1 DEF View, QueueTellsOneStory
<1>3. evq' = <<>>
  BY <1>1, <1>2
<1>4. CASE boot_to_dfu
  <2>1. mcu' = "dfu"
    BY <1>4 DEF ConnectionClosed, ResetToDfu
  <2>2. QueueTellsOneStory'
    BY <1>3 DEF QueueTellsOneStory
  <2>3. ViewLagsByQueue'
    BY <2>1 DEF ViewLagsByQueue, Running
  <2> QED BY <2>2, <2>3 DEF View
<1>5. CASE ~boot_to_dfu
  <2>1. conn_handle' = INVALID_HANDLE /\ StartAdv(INVALID_HANDLE, 0, 0, bonding_info)
    BY <1>5 DEF ConnectionClosed, RestartAdv
  <2>2. mcu' # "running" \/ (byte0' = 1 /\ adv')
    BY <1>2, <2>1, StartsInSilence
  <2> QED BY <1>1, <1>2, <1>3, <2>1, <2>2, SettledView
<1> QED BY <1>4, <1>5

\* __on_adv_timeout.
LEMMA AdvTimeoutKeepsView ==
    ASSUME StackTypeOK, View, AdvTimeout
    PROVE  View'
<1>1. /\ evq \in Seq(EventSet) /\ evq # <<>> /\ EventAt(1) = "adv_timeout"
      /\ evq' = Tail(evq) /\ byte0' = 0 /\ UNCHANGED <<link, conn_handle, adv>>
  BY PopFacts DEF StackTypeOK, AdvTimeout, Handling, Popped, EventAt, firmwareVars
<1>2. Len(evq) = 1 /\ conn_handle = INVALID_HANDLE /\ ~link /\ ~adv
  <2>1. 1 \in DOMAIN evq
    BY <1>1
  <2> QED BY <1>1, <2>1 DEF View, QueueTellsOneStory
<1>3. evq' = <<>>
  BY <1>1, <1>2
<1> QED BY <1>1, <1>2, <1>3, SettledView

\* A button without a connection.
LEMMA ButtonStartKeepsView ==
    ASSUME FirmwareTypeOK, View, ButtonStartsAdv
    PROVE  View'
<1>1. /\ Running /\ conn_handle = INVALID_HANDLE
      /\ StartAdv(INVALID_HANDLE, byte0, byte1, bonding_info)
      /\ UNCHANGED <<link, conn_handle, evq>>
  BY DEF ButtonStartsAdv, Connected
<1>2. CASE byte0 = 0
  <2>1. evq = <<>> /\ ~adv /\ ~link
    BY <1>1, <1>2 DEF View, ViewLagsByQueue
  <2>2. mcu' # "running" \/ (byte0' = 1 /\ adv')
    BY <1>1, <1>2, <2>1, StartsInSilence
  <2> QED BY <1>1, <2>1, <2>2, SettledView
<1>3. CASE byte0 # 0
  <2>1. UNCHANGED <<link, conn_handle, evq, adv, byte0>>
    BY <1>1, <1>3 DEF StartAdv, NoStart
  <2> QED BY <1>1, <2>1, IdleKeepsView
<1> QED BY <1>2, <1>3

\* A write of the OTA control point stops the program, and the queue it leaves
\* still tells one story.
LEMMA OtaKeepsView ==
    ASSUME FirmwareTypeOK, StackTypeOK, View, UserWriteRequest
    PROVE  View'
<1>1. /\ evq \in Seq(EventSet) /\ evq # <<>> /\ Tail(evq) \in Seq(EventSet)
      /\ Len(evq) \in Nat \ {0} /\ Len(Tail(evq)) = Len(evq) - 1
      /\ DOMAIN evq = 1 .. Len(evq) /\ DOMAIN Tail(evq) = 1 .. Len(evq) - 1
      /\ EventAt(1) = "user_write" /\ Running
      /\ \A i \in 1 .. Len(evq) - 1 : Tail(evq)[i] = evq[i + 1]
  BY PopFacts DEF StackTypeOK, UserWriteRequest, Handling, EventAt
<1>2. /\ mcu' # "running" /\ ~link' /\ UNCHANGED <<conn_handle, adv, byte0>>
      /\ link => evq' = Append(Tail(evq), Event("closed", 0))
      /\ ~link => evq' = Tail(evq)
  BY DEF UserWriteRequest
<1>3. ~FirstIs("boot") /\ ~FirstIs("opened") /\ ~FirstIs("adv_timeout")
  BY <1>1 DEF FirstIs
<1>4. ~adv
  BY <1>1 DEF View, ViewLagsByQueue
<1>5. ASSUME NEW i \in 1 .. Len(evq) - 1
      PROVE  /\ Tail(evq)[i].id \notin {"boot", "opened", "adv_timeout"}
             /\ Tail(evq)[i].id = "closed" => ~link /\ i = Len(evq) - 1
  <2>1. i + 1 \in DOMAIN evq /\ i + 1 # 1 /\ Len(evq) # 1
        /\ (i + 1 = Len(evq) => i = Len(evq) - 1)
    BY <1>1, BehindTheHead
  <2>2. Tail(evq)[i].id = EventAt(i + 1)
    BY <1>1 DEF EventAt
  <2>3. EventAt(i + 1) \notin {"boot", "opened", "adv_timeout"}
    BY <1>1, <2>1 DEF View, QueueTellsOneStory
  <2>4. EventAt(i + 1) = "closed" => i + 1 = Len(evq) /\ ~link
    BY <2>1 DEF View, QueueTellsOneStory
  <2> QED BY <2>1, <2>2, <2>3, <2>4
<1>6. QueueTellsOneStory'
  <2> SUFFICES ASSUME NEW i \in DOMAIN evq'
               PROVE  /\ evq'[i].id \notin {"boot", "opened", "adv_timeout"}
                      /\ evq'[i].id = "closed" => i = Len(evq')
    BY <1>2, <1>4 DEF QueueTellsOneStory, EventAt
  <2>1. CASE ~link
    <3>1. evq' = Tail(evq)
      BY <1>2, <2>1
    <3> QED BY <1>1, <1>5, <3>1
  <2>2. CASE link
    <3>1. /\ DOMAIN evq' = 1 .. Len(evq) /\ Len(evq') = Len(evq)
          /\ evq'[Len(evq)].id = "closed"
          /\ \A j \in 1 .. Len(evq) - 1 : evq'[j] = Tail(evq)[j]
      <4>1. evq' = Append(Tail(evq), Event("closed", 0))
        BY <1>2, <2>2
      <4> QED BY <1>1, <4>1 DEF Event
    <3>2. CASE i = Len(evq)
      BY <3>1, <3>2
    <3>3. CASE i # Len(evq)
      <4>1. i \in 1 .. Len(evq) - 1
        BY <1>1, <3>1, <3>3
      <4> QED BY <1>5, <2>2, <3>1, <4>1
    <3> QED BY <3>2, <3>3
  <2> QED BY <2>1, <2>2
<1>7. ViewLagsByQueue'
  BY <1>2 DEF ViewLagsByQueue, Running
<1> QED BY <1>6, <1>7 DEF View

-----------------------------------------------------------------------------
(* Every step keeps the view. *)

LEMMA EventHandlersKeepView ==
    ASSUME FirmwareTypeOK, StackTypeOK, View, EventHandler
    PROVE  View'
<1>1. CASE SystemBoot \/ ConnectionOpened \/ ConnectionClosed \/ AdvTimeout \/ UserWriteRequest
  BY <1>1, BootKeepsView, OpenedKeepsView, ClosedKeepsView, AdvTimeoutKeepsView, OtaKeepsView
<1>2. CASE FactoryReset
  BY <1>2, PowerOnMakesView DEF FactoryReset
<1> USE DEF Handling, Popped, ConnEvents, SmEvents
<1>3. CASE ConnParamUpdated
  BY <1>3, ConnEventKeepsView DEF ConnParamUpdated, firmwareVars
<1>4. CASE CharStatus
  BY <1>4, ConnEventKeepsView DEF CharStatus
<1>5. CASE BondingConfirm \/ Bonded \/ BondFailed
  BY <1>5, ConnEventKeepsView DEF BondingConfirm, Bonded, BondFailed
<1> QED BY <1>1, <1>2, <1>3, <1>4, <1>5 DEF EventHandler, OtherEvent

\* The queue and bt.c's view of the radio survive every step of the system.
LEMMA StepKeepsView ==
    ASSUME FirmwareTypeOK, StackTypeOK, View, BtNext
    PROVE  View'
<1>1. CASE Radio /\ UNCHANGED <<appVars, resets>>
  BY <1>1, RadioKeepsView
<1>2. CASE EventHandler
  BY <1>2, EventHandlersKeepView
<1>3. CASE PowerLoss
  BY <1>3, PowerOnMakesView DEF PowerLoss
<1>4. CASE ButtonStartsAdv
  BY <1>4, ButtonStartKeepsView
<1> USE DEF stackVars, appVars
<1>5. CASE SaveBondingInfo \/ ButtonRings \/ ButtonStops
  BY <1>5, IdleKeepsView DEF SaveBondingInfo, ButtonRings, ButtonStops
<1>6. CASE ButtonSignal \/ ButtonReports \/ ButtonDone
  BY <1>6, IdleKeepsView DEF ButtonSignal, EnterButtonHandler, ButtonReports, ButtonDone
<1> QED BY <1>1, <1>2, <1>3, <1>4, <1>5, <1>6 DEF BtNext, ButtonPath

-----------------------------------------------------------------------------
(* No step fails an ASSERT on conn_handle. *)

\* start_adv called when bt.c believes itself disconnected.
LEMMA StartAsserts ==
    ASSUME NEW enabled, NEW advHandle, NEW info, AssertsHold,
           StartAdv(INVALID_HANDLE, enabled, advHandle, info)
    PROVE  AssertsHold'
  BY DEF StartAdv, Start, NoStart, AssertsHold

LEMMA StepKeepsAsserts ==
    ASSUME FirmwareTypeOK, StackTypeOK, View, AssertsHold, BtNext
    PROVE  AssertsHold'
<1> USE DEF AssertsHold
<1>1. CASE Radio /\ UNCHANGED <<appVars, resets>>
  BY <1>1 DEF Radio, radioFrame, CentralConnects, AdvertisingTimesOut, LinkLost,
              CentralUpdatesParameters, CentralWritesCcc, CentralWritesOta,
              CentralAsksToBond, BondStored, PairedOnly, PairingFails
<1>2. CASE BondingConfirm \/ Bonded \/ BondFailed
  <2>1. conn_handle = Handle
    BY <1>2, ConnEventKeepsView
       DEF BondingConfirm, Bonded, BondFailed, Handling, Popped, ConnEvents, SmEvents
  <2>2. Connected
    BY <2>1 DEF Connected, Handle, INVALID_HANDLE
  <2>3. mcu' = mcu \/ mcu' = "call_failed"
    BY <1>2, <2>2 DEF BondingConfirm, Bonded, BondFailed, Asserting
  <2> QED BY <2>3
<1>3. CASE SystemBoot \/ ConnectionClosed
  <2>1. CASE SystemBoot
    BY <2>1, StartAsserts DEF SystemBoot
  <2>2. CASE ConnectionClosed
    BY <2>2, StartAsserts DEF ConnectionClosed, ResetToDfu, RestartAdv
  <2> QED BY <1>3, <2>1, <2>2
<1>4. CASE ButtonStartsAdv
  BY <1>4, StartAsserts DEF ButtonStartsAdv, Connected
<1>5. CASE FactoryReset \/ PowerLoss
  BY <1>5 DEF FactoryReset, PowerLoss, BtPowerOn, FirmwarePowerOn
<1>6. CASE ConnectionOpened \/ ConnParamUpdated \/ CharStatus \/ UserWriteRequest \/ AdvTimeout
  BY <1>6 DEF ConnectionOpened, ConnParamUpdated, CharStatus, UserWriteRequest, AdvTimeout,
              firmwareVars
<1>7. CASE SaveBondingInfo \/ ButtonRings \/ ButtonStops
  BY <1>7 DEF SaveBondingInfo, ButtonRings, ButtonStops
<1>8. CASE ButtonSignal \/ ButtonReports \/ ButtonDone
  BY <1>8 DEF ButtonSignal, EnterButtonHandler, ButtonReports, SendReport, ButtonDone
<1> QED BY <1>1, <1>2, <1>3, <1>4, <1>5, <1>6, <1>7, <1>8
        DEF BtNext, EventHandler, OtherEvent, ButtonPath

-----------------------------------------------------------------------------
(* Types *)

\* What a handler finds at the head of the queue.
LEMMA HeadTypes ==
    ASSUME StackTypeOK, NEW id, Handling(id)
    PROVE  /\ Tail(evq) \in Seq(EventSet)
           /\ id = "parameters" => Arg \in Intervals
           /\ id = "char_status" => Arg \in 0 .. 1
<1>1. Head(evq) \in EventSet /\ Tail(evq) \in Seq(EventSet) /\ Head(evq).id = id
  BY PopFacts DEF StackTypeOK, Handling
<1> QED BY <1>1 DEF EventSet, Arg

\* Each half of a 16-bit number is a byte.
LEMMA HalvesAreBytes ==
    ASSUME NEW n \in Nat, n <= 256 * 256 - 1
    PROVE  n % 256 \in 0 .. 255 /\ n \div 256 \in 0 .. 255
<1>1. n % 256 \in 0 .. 255
  BY SMT
<1>2. n \div 256 \in 0 .. 255
  BY SMT
<1> QED BY <1>1, <1>2

LEMMA RangeBounds ==
    ASSUME NEW k \in Nat, NEW n \in 0 .. k
    PROVE  n \in Nat /\ n <= k
  BY SMT

\* The two bytes of a connection interval are bytes.
LEMMA IntervalBytes ==
    ASSUME NEW n \in Intervals
    PROVE  n % 256 \in 0 .. 255 /\ HighByte(n) \in 0 .. 255
<1>1. n \in 0 .. 256 * 256 - 1
  BY IntervalsAssumption, ZenonT(60)
<1>2. 256 * 256 - 1 \in Nat
  BY SMT
<1>3. n \in Nat /\ n <= 256 * 256 - 1
  BY <1>1, <1>2, RangeBounds, ZenonT(60)
<1> QED BY <1>3, HalvesAreBytes, ZenonT(60) DEF HighByte

\* What start_adv writes is well typed.
LEMMA StartTypes ==
    ASSUME FirmwareTypeOK, StackTypeOK, NEW handle, NEW enabled \in 0 .. 255, NEW advHandle,
           NEW info, StartAdv(handle, enabled, advHandle, info)
    PROVE  /\ mcu' \in {"running"} \union Stopped
           /\ adv' \in BOOLEAN
           /\ timing' \in {"unset", "fast", "normal"}
           /\ byte0' \in 0 .. 255
<1>1. /\ mcu' \in {"running"} \union Stopped
      /\ adv' \in BOOLEAN
      /\ timing' \in {"unset", "fast", "normal"}
  BY DEF FirmwareTypeOK, StackTypeOK, StartAdv, Start, NoStart, Stopped
<1>2. byte0' = enabled \/ byte0' = 1
  BY DEF StartAdv, Start, NoStart
<1> QED BY <1>1, <1>2

\* The variables of Firmware.
LEMMA FirmwareTypes ==
    ASSUME BtTypeOK, BtNext
    PROVE  FirmwareTypeOK'
<1> USE DEF BtTypeOK, FirmwareTypeOK, Stopped, ButtonHandler, Elsewhere
<1>1. CASE Radio /\ UNCHANGED <<appVars, resets>>
  BY <1>1, ZenonT(60) DEF Radio, radioFrame, CentralConnects, AdvertisingTimesOut, LinkLost,
              CentralUpdatesParameters, CentralWritesCcc, CentralWritesOta,
              CentralAsksToBond, BondStored, PairedOnly, PairingFails
<1>2. CASE BondingConfirm \/ Bonded \/ BondFailed
  BY <1>2 DEF BondingConfirm, Bonded, BondFailed, Asserting, DeleteBonding
<1>3. CASE SystemBoot \/ ConnectionClosed \/ ButtonStartsAdv
  <2>1. mcu' \in {mcu, "assert", "call_failed", "dfu"}
    BY <1>3 DEF SystemBoot, ConnectionClosed, ResetToDfu, RestartAdv,
                ButtonStartsAdv, StartAdv, Start, NoStart
  <2> QED BY <1>3, <2>1 DEF SystemBoot, ConnectionClosed, ResetToDfu, RestartAdv, ClearAdvConn,
                            ButtonStartsAdv
<1>4. CASE FactoryReset \/ PowerLoss
  <2>1. /\ mcu' = "running" /\ pc' = "idle" /\ sig' = FALSE /\ link' = FALSE
        /\ conn_handle' = 0 /\ report_ccc' = 0
    BY <1>4 DEF FactoryReset, PowerLoss, BtPowerOn, FirmwarePowerOn
  <2>2. report_ccc' \in 0 .. 3
    BY <2>1
  <2> QED BY <2>1, <2>2
<1>5. CASE CharStatus
  <2>1. report_ccc' \in 0 .. 1
    BY <1>5, HeadTypes DEF CharStatus
  <2> QED BY <1>5, <2>1 DEF CharStatus
<1>6. CASE ConnectionOpened \/ ConnParamUpdated \/ UserWriteRequest \/ AdvTimeout
  <2>1. report_ccc' = report_ccc \/ report_ccc' = 0
    BY <1>6 DEF ConnectionOpened, ConnParamUpdated, UserWriteRequest, AdvTimeout, firmwareVars
  <2>2. report_ccc' \in 0 .. 3
    BY <2>1
  <2>3. conn_handle' \in {conn_handle, Handle} /\ pc' = pc /\ sig' = sig
    BY <1>6 DEF ConnectionOpened, ConnParamUpdated, UserWriteRequest, AdvTimeout, firmwareVars
  <2>4. link' \in {link, FALSE} /\ mcu' \in {mcu, "app_assert", "not_handled"}
    BY <1>6 DEF ConnectionOpened, ConnParamUpdated, UserWriteRequest, AdvTimeout, firmwareVars
  <2> QED BY <2>2, <2>3, <2>4
<1>7. CASE SaveBondingInfo \/ ButtonRings \/ ButtonStops
  BY <1>7 DEF SaveBondingInfo, ButtonRings, ButtonStops
<1>8. CASE ButtonSignal \/ ButtonReports \/ ButtonDone
  BY <1>8 DEF ButtonSignal, EnterButtonHandler, ButtonReports, SendReport, ButtonDone
<1> QED BY <1>1, <1>2, <1>3, <1>4, <1>5, <1>6, <1>7, <1>8
        DEF BtNext, EventHandler, OtherEvent, ButtonPath

\* The queue.
LEMMA QueueTypes ==
    ASSUME StackTypeOK, BtNext
    PROVE  evq' \in Seq(EventSet)
<1> USE DEF StackTypeOK
<1>1. CASE Radio
  BY <1>1, RadioQueue
<1>2. ASSUME NEW id, Handling(id), Popped
      PROVE  evq' \in Seq(EventSet)
  BY <1>2, HeadTypes DEF Popped
<1>3. CASE SystemBoot \/ ConnectionOpened \/ ConnectionClosed
  BY <1>2, <1>3 DEF SystemBoot, ConnectionOpened, ConnectionClosed
<1>4. CASE ConnParamUpdated \/ CharStatus \/ AdvTimeout
  BY <1>2, <1>4 DEF ConnParamUpdated, CharStatus, AdvTimeout
<1>5. CASE BondingConfirm \/ Bonded \/ BondFailed
  BY <1>2, <1>5 DEF BondingConfirm, Bonded, BondFailed
<1>6. "boot" \in EventIds \ {"parameters", "char_status"}
      /\ "closed" \in EventIds \ {"parameters", "char_status"}
  BY DEF EventIds, LinkEvents
<1>7. Event("boot", 0) \in EventSet /\ Event("closed", 0) \in EventSet
  BY <1>6, EventTypes
<1>8. CASE UserWriteRequest
  <2>1. Tail(evq) \in Seq(EventSet)
    BY <1>8, HeadTypes DEF UserWriteRequest
  <2> QED BY <1>7, <1>8, <2>1, PushFacts DEF UserWriteRequest
<1>9. CASE FactoryReset \/ PowerLoss
  <2>1. evq' = <<Event("boot", 0)>>
    BY <1>9 DEF FactoryReset, PowerLoss, BtPowerOn
  <2> QED BY <1>7, <2>1
<1> USE DEF stackVars
<1>10. CASE SaveBondingInfo \/ ButtonRings \/ ButtonStops \/ ButtonPath
  BY <1>10 DEF SaveBondingInfo, ButtonRings, ButtonStops, ButtonPath, ButtonSignal,
               ButtonStartsAdv, ButtonReports, ButtonDone
<1> QED BY <1>1, <1>3, <1>4, <1>5, <1>8, <1>9, <1>10 DEF BtNext, EventHandler, OtherEvent

\* What the stack and the flash keep beside the queue.
StackRest ==
    /\ adv \in BOOLEAN
    /\ timing \in {"unset", "fast", "normal"}
    /\ subscribed \in 0 .. 1
    /\ pairing \in {"none", "asked", "confirmed"}
    /\ bonds \in BOOLEAN
    /\ nvm \in {0, 1, NoKey}

LEMMA StackRestTypes ==
    ASSUME BtTypeOK, BtNext
    PROVE  StackRest'
<1> USE DEF BtTypeOK, StackTypeOK, StackRest
<1>1. CASE Radio /\ UNCHANGED <<appVars, resets>>
  <2>1. CASE CentralWritesCcc
    BY <2>1 DEF CentralWritesCcc, radioFrame
  <2>2. CASE LinkLost
    <3>1. subscribed' = 0 /\ pairing' = "none" /\ UNCHANGED <<adv, timing, bonds, nvm>>
      BY <2>2 DEF LinkLost, radioFrame
    <3>2. subscribed' \in 0 .. 1
      BY <3>1
    <3> QED BY <3>1, <3>2
  <2> QED BY <1>1, <2>1, <2>2
          DEF Radio, radioFrame, CentralConnects, AdvertisingTimesOut, CentralUpdatesParameters,
              CentralWritesOta, CentralAsksToBond, BondStored, PairedOnly, PairingFails
<1>2. CASE BondingConfirm \/ Bonded \/ BondFailed
  BY <1>2 DEF BondingConfirm, Bonded, BondFailed, Asserting, DeleteBonding, flashVars
<1>3. CASE SystemBoot \/ ConnectionClosed \/ ButtonStartsAdv
  <2>1. adv' \in {adv, TRUE} /\ timing' \in {timing, "fast", "normal"}
    BY <1>3 DEF SystemBoot, ConnectionClosed, ResetToDfu, RestartAdv,
                ButtonStartsAdv, StartAdv, Start, NoStart
  <2>2. nvm' \in {nvm, 0, 1} /\ UNCHANGED <<subscribed, pairing, bonds>>
    BY <1>3 DEF SystemBoot, LoadedInfo, ConnectionClosed, ButtonStartsAdv, flashVars
  <2> QED BY <2>1, <2>2
<1>4. CASE FactoryReset \/ PowerLoss
  <2>1. /\ adv' = FALSE /\ timing' = "unset" /\ subscribed' = 0 /\ pairing' = "none"
        /\ bonds' \in {bonds, FALSE} /\ nvm' \in {nvm, NoKey}
    BY <1>4 DEF FactoryReset, PowerLoss, BtPowerOn, flashVars
  <2>2. subscribed' \in 0 .. 1
    BY <2>1
  <2> QED BY <2>1, <2>2
<1>5. CASE UserWriteRequest
  <2>1. subscribed' = 0 /\ pairing' = "none" /\ UNCHANGED <<adv, timing, bonds, nvm>>
    BY <1>5 DEF UserWriteRequest, flashVars
  <2>2. subscribed' \in 0 .. 1
    BY <2>1
  <2> QED BY <2>1, <2>2
<1>6. CASE ConnectionOpened \/ ConnParamUpdated \/ CharStatus \/ AdvTimeout
  BY <1>6 DEF ConnectionOpened, ConnParamUpdated, CharStatus, AdvTimeout, flashVars
<1>7. CASE SaveBondingInfo
  <2>1. nvm' \in {0, 1}
    BY <1>7 DEF SaveBondingInfo
  <2> QED BY <1>7, <2>1 DEF SaveBondingInfo, stackVars
<1>8. CASE ButtonRings \/ ButtonStops \/ ButtonSignal \/ ButtonReports \/ ButtonDone
  BY <1>8 DEF ButtonRings, ButtonStops, ButtonSignal, ButtonReports, ButtonDone, stackVars,
              flashVars
<1> QED BY <1>1, <1>2, <1>3, <1>4, <1>5, <1>6, <1>7, <1>8
        DEF BtNext, EventHandler, OtherEvent, ButtonPath

\* The union's two bytes: an enabled flag and a handle, or an interval.
LEMMA ByteTypes ==
    ASSUME BtTypeOK, BtNext
    PROVE  byte0' \in 0 .. 255 /\ byte1' \in 0 .. 255
<1> USE DEF BtTypeOK
<1>1. 0 \in 0 .. 255 /\ AdvHandle \in 0 .. 255
  BY AdvHandleAssumption
<1>2. CASE SystemBoot
  BY <1>1, <1>2, StartTypes DEF SystemBoot
<1>3. CASE ConnectionClosed
  <2>1. CASE boot_to_dfu
    BY <1>3, <2>1 DEF ConnectionClosed, ResetToDfu
  <2>2. CASE ~boot_to_dfu
    BY <1>1, <1>3, <2>2, StartTypes DEF ConnectionClosed, RestartAdv, ClearAdvConn
  <2> QED BY <2>1, <2>2
<1>4. CASE ButtonStartsAdv
  BY <1>4, StartTypes DEF ButtonStartsAdv
<1>5. CASE ConnParamUpdated
  BY <1>5, HeadTypes, IntervalBytes, ZenonT(60) DEF ConnParamUpdated
<1>6. CASE FactoryReset \/ PowerLoss \/ ConnectionOpened
  <2>1. byte0' = 0 /\ byte1' = 0
    BY <1>6 DEF FactoryReset, PowerLoss, BtPowerOn, ConnectionOpened
  <2> QED BY <1>1, <2>1
<1>7. CASE AdvTimeout
  BY <1>1, <1>7 DEF AdvTimeout
<1> USE DEF appVars
<1>8. CASE \/ UNCHANGED appVars
           \/ CharStatus \/ UserWriteRequest \/ BondingConfirm \/ Bonded \/ BondFailed
           \/ SaveBondingInfo \/ ButtonRings \/ ButtonStops
           \/ ButtonSignal \/ ButtonReports \/ ButtonDone
  BY <1>8 DEF CharStatus, UserWriteRequest, BondingConfirm, Bonded, BondFailed,
              SaveBondingInfo, ButtonRings, ButtonStops, ButtonSignal, ButtonReports, ButtonDone
<1> QED BY <1>2, <1>3, <1>4, <1>5, <1>6, <1>7, <1>8
        DEF BtNext, EventHandler, OtherEvent, ButtonPath

\* The flags.
FlagTypes ==
    /\ bonded \in BOOLEAN
    /\ bonding_info \in {0, 1}
    /\ boot_to_dfu \in BOOLEAN

LEMMA FlagsTyped ==
    ASSUME BtTypeOK, BtNext
    PROVE  FlagTypes'
<1>1. FlagTypes /\ nvm \in {0, 1, NoKey}
  BY DEF BtTypeOK, StackTypeOK, FlagTypes
<1> USE <1>1 DEF FlagTypes
<1>2. CASE Radio /\ UNCHANGED <<appVars, resets>>
  BY <1>2 DEF appVars
<1>3. CASE SystemBoot
  BY <1>3 DEF SystemBoot, LoadedInfo
<1>4. CASE FactoryReset \/ PowerLoss
  BY <1>4 DEF FactoryReset, PowerLoss, BtPowerOn
<1>5. CASE ConnectionOpened \/ ConnectionClosed
  BY <1>5 DEF ConnectionOpened, ConnectionClosed, ResetToDfu, RestartAdv, ClearAdvConn, IsBond
<1>6. CASE ConnParamUpdated \/ CharStatus \/ UserWriteRequest \/ AdvTimeout
  BY <1>6 DEF ConnParamUpdated, CharStatus, UserWriteRequest, AdvTimeout, appVars
<1>7. CASE BondingConfirm \/ Bonded \/ BondFailed
  BY <1>7 DEF BondingConfirm, Bonded, BondFailed, Asserting, IsBond, DeleteBonding
<1>8. CASE SaveBondingInfo
  BY <1>8 DEF SaveBondingInfo
<1>9. CASE ButtonRings \/ ButtonStops \/ ButtonPath
  BY <1>9 DEF ButtonRings, ButtonStops, ButtonPath, ButtonSignal, ButtonStartsAdv,
              ButtonReports, ButtonDone, appVars
<1> QED BY <1>2, <1>3, <1>4, <1>5, <1>6, <1>7, <1>8, <1>9 DEF BtNext, EventHandler, OtherEvent

LEMMA ResetsBounded ==
    ASSUME BtTypeOK, BtNext
    PROVE  resets' \in 0 .. MaxResets
<1>1. CASE PowerLoss
  BY <1>1, MaxResetsAssumption DEF BtTypeOK, PowerLoss
<1>2. CASE UNCHANGED resets
  BY <1>2 DEF BtTypeOK
<1> QED BY <1>1, <1>2
        DEF BtNext, EventHandler, OtherEvent, ButtonPath, SystemBoot, FactoryReset,
            ConnectionOpened, ConnectionClosed, ConnParamUpdated, CharStatus, UserWriteRequest,
            BondingConfirm, Bonded, BondFailed, AdvTimeout, SaveBondingInfo, ButtonRings,
            ButtonStops, ButtonSignal, ButtonStartsAdv, ButtonReports, ButtonDone

LEMMA StepKeepsTypes ==
    ASSUME BtTypeOK, BtNext
    PROVE  BtTypeOK'
<1>1. FirmwareTypeOK'
  BY FirmwareTypes
<1>2. StackTypeOK'
  BY QueueTypes, StackRestTypes DEF BtTypeOK, StackTypeOK, StackRest
<1>3. bonding_info' \in 0 .. 1 /\ bonded' \in BOOLEAN /\ boot_to_dfu' \in BOOLEAN
  <2>1. bonding_info' \in {0, 1} /\ bonded' \in BOOLEAN /\ boot_to_dfu' \in BOOLEAN
    BY FlagsTyped DEF FlagTypes
  <2>2. bonding_info' \in 0 .. 1
    BY <2>1
  <2> QED BY <2>1, <2>2
<1> QED BY <1>1, <1>2, <1>3, ByteTypes, ResetsBounded DEF BtTypeOK

-----------------------------------------------------------------------------
(* The inductive invariant *)

IInv ==
    /\ BtTypeOK
    /\ View
    /\ AssertsHold

LEMMA InitIInv == BtInit => IInv
<1> SUFFICES ASSUME BtInit PROVE IInv
  OBVIOUS
<1>1. /\ mcu = "running" /\ pc = "idle" /\ sig = FALSE /\ link = FALSE
      /\ conn_handle = 0 /\ report_ccc = 0
      /\ evq = <<Event("boot", 0)>> /\ adv = FALSE /\ timing = "unset"
      /\ subscribed = 0 /\ pairing = "none" /\ byte0 = 0 /\ byte1 = 0 /\ bonded = FALSE
      /\ bonding_info = 0 /\ boot_to_dfu = FALSE /\ bonds = FALSE /\ nvm = NoKey /\ resets = 0
  BY DEF BtInit, FirmwareInit
<1>2. 0 \in 0 .. 3 /\ 0 \in 0 .. 255 /\ 0 \in 0 .. 1 /\ 0 \in 0 .. MaxResets
  BY MaxResetsAssumption
<1>3. evq \in Seq(EventSet)
  <2>1. "boot" \in EventIds /\ Event("boot", 0) \in EventSet
    BY EventTypes DEF EventIds
  <2> QED BY <1>1, <2>1
<1>4. FirmwareTypeOK
  BY <1>1, <1>2 DEF FirmwareTypeOK, Elsewhere
<1>5. StackTypeOK
  BY <1>1, <1>2, <1>3 DEF StackTypeOK
<1>6. BtTypeOK
  BY <1>1, <1>2, <1>4, <1>5 DEF BtTypeOK
<1>7. Len(evq) = 1 /\ evq[1].id = "boot" /\ DOMAIN evq = {1} /\ evq # <<>>
  BY <1>1 DEF Event
<1>8. QueueTellsOneStory
  BY <1>1, <1>7 DEF QueueTellsOneStory, EventAt, Booted
<1>9. ViewLagsByQueue
  BY <1>1, <1>7 DEF ViewLagsByQueue, FirstIs, EventAt, Booted, INVALID_HANDLE, Handle
<1>10. AssertsHold
  BY <1>1 DEF AssertsHold
<1> QED BY <1>6, <1>8, <1>9, <1>10 DEF IInv, View

LEMMA StepIInv == IInv /\ [BtNext]_btVars => IInv'
<1> SUFFICES ASSUME IInv, [BtNext]_btVars PROVE IInv'
  OBVIOUS
<1>1. CASE BtNext
  BY <1>1, StepKeepsTypes, StepKeepsView, StepKeepsAsserts DEF IInv, BtTypeOK
<1>2. CASE UNCHANGED btVars
  <2> USE <1>2 DEF btVars, firmwareVars, stackVars, flashVars, appVars
  <2>1. FirmwareTypeOK' /\ StackTypeOK'
    BY DEF IInv, BtTypeOK, FirmwareTypeOK, StackTypeOK
  <2>2. BtTypeOK'
    BY <2>1 DEF IInv, BtTypeOK
  <2>3. View'
    BY DEF IInv, View, QueueTellsOneStory, ViewLagsByQueue, Running, FirstIs, LastIs, EventAt,
           Booted
  <2> QED BY <2>2, <2>3 DEF IInv, AssertsHold
<1> QED BY <1>1, <1>2

\* The behaviours of bt.c with or without fairness: what a program that contains
\* it has to implement for its invariants to hold there.
BtSteps == BtInit /\ [][BtNext]_btVars

\* The invariant is inductive.
LEMMA IInvKept == BtSteps => []IInv
<1>1. BtInit => IInv
  BY InitIInv
<1>2. IInv /\ [BtNext]_btVars => IInv'
  BY StepIInv
<1> QED BY <1>1, <1>2, PTL DEF BtSteps

\* Every behaviour of bt.c keeps the inductive invariant.
THEOREM IInvHolds == BtSpec => []IInv
  BY IInvKept, PTL DEF BtSpec, BtSteps

\* bt.c, the stack and the flash hold well-typed values: both bytes of the
\* adv/conn union stay bytes under every connection interval.
THEOREM BtTypeCorrect == BtSpec => []BtTypeOK
<1>1. IInv => BtTypeOK
  BY DEF IInv
<1> QED BY <1>1, IInvHolds, PTL

\* The event queue tells the story of one connection in order, however long the
\* queue and whatever the order of radio, buttons and power losses.
THEOREM QueueStoryHolds == BtSpec => []QueueTellsOneStory
<1>1. IInv => QueueTellsOneStory
  BY DEF IInv, View
<1> QED BY <1>1, IInvHolds, PTL

\* bt.c's view of the radio lags behind it by the queued events only.
THEOREM ViewHolds == BtSpec => []ViewLagsByQueue
<1>1. IInv => ViewLagsByQueue
  BY DEF IInv, View
<1> QED BY <1>1, IInvHolds, PTL

\* No ASSERT on conn_handle ever fails, in start_adv or in the handlers of the
\* security manager.
THEOREM AssertsNeverFail == BtSpec => []AssertsHold
<1>1. IInv => AssertsHold
  BY DEF IInv
<1> QED BY <1>1, IInvHolds, PTL

-----------------------------------------------------------------------------
(* bt.c implements Presence. *)

\* A step that changes neither the air nor what bt.c believes of it.
LEMMA SameAirSameMode ==
    ASSUME UNCHANGED <<link, adv, conn_handle>>, byte0' = byte0 \/ conn_handle = Handle
    PROVE  UNCHANGED P!vars
<1>1. AirOf' = AirOf
  BY DEF AirOf
<1>2. ModeOf' = ModeOf
  BY DEF ModeOf, Booted, Connected, Handle, INVALID_HANDLE
<1> QED BY <1>1, <1>2 DEF P!vars

\* A closed event in front is about the connection bt.c knows.
LEMMA ClosedWhenConnected ==
    ASSUME FirmwareTypeOK, StackTypeOK, View, Handling("closed")
    PROVE  conn_handle = Handle /\ ~link /\ ~adv
<1>1. evq \in Seq(EventSet) /\ evq # <<>> /\ EventAt(1) = "closed" /\ Running
  BY PopFacts DEF StackTypeOK, Handling, EventAt
<1>2. ~link /\ ~adv
  <2>1. 1 \in DOMAIN evq
    BY <1>1
  <2> QED BY <1>1, <2>1 DEF View, QueueTellsOneStory
<1>3. Booted /\ conn_handle # INVALID_HANDLE
  BY <1>1, <1>2 DEF View, ViewLagsByQueue, FirstIs
<1> QED BY <1>2, <1>3 DEF FirmwareTypeOK, Booted

\* The radio's steps are the air's, and bt.c has not heard of them yet.
LEMMA RadioMapped ==
    ASSUME StackTypeOK, View, Radio, UNCHANGED <<appVars, resets>>
    PROVE  P!Next \/ UNCHANGED P!vars
<1> USE DEF appVars, radioFrame
<1>1. CASE CentralConnects
  <2>1. Running /\ adv /\ ~link /\ link' /\ UNCHANGED <<conn_handle, byte0>>
    BY <1>1 DEF CentralConnects, View, ViewLagsByQueue
  <2>2. P!HostConnects
    BY <2>1 DEF P!HostConnects, AirOf, ModeOf, Booted, Connected
  <2> QED BY <2>2 DEF P!Next
<1>2. CASE AdvertisingTimesOut
  <2>1. Running /\ adv /\ ~link /\ ~link' /\ ~adv' /\ UNCHANGED <<conn_handle, byte0>>
    BY <1>2 DEF AdvertisingTimesOut, View, ViewLagsByQueue
  <2>2. P!FallsSilent
    BY <2>1 DEF P!FallsSilent, AirOf, ModeOf, Booted, Connected
  <2> QED BY <2>2 DEF P!Next
<1>3. CASE LinkLost
  <2>1. link /\ ~link' /\ ~adv' /\ UNCHANGED <<conn_handle, byte0>>
    BY <1>3, LinkUp DEF LinkLost
  <2>2. P!FallsSilent
    BY <2>1 DEF P!FallsSilent, AirOf, ModeOf, Booted, Connected
  <2> QED BY <2>2 DEF P!Next
<1>4. CASE CentralUpdatesParameters \/ CentralWritesCcc \/ CentralWritesOta \/ CentralAsksToBond
  BY <1>4, SameAirSameMode
     DEF CentralUpdatesParameters, CentralWritesCcc, CentralWritesOta, CentralAsksToBond
<1>5. CASE BondStored \/ PairedOnly \/ PairingFails
  BY <1>5, SameAirSameMode DEF BondStored, PairedOnly, PairingFails
<1> QED BY <1>1, <1>2, <1>3, <1>4, <1>5 DEF Radio

\* Whenever bt.c comes to believe that it advertises, it begins to in that step.
LEMMA AdvertiseMapped ==
    ASSUME ModeOf \in {"booting", "connected", "quiet"}, ~link, ~adv,
           conn_handle' = INVALID_HANDLE, byte0' = 1, adv' = TRUE, link' = link
    PROVE  P!Next
<1>1. AirOf = "silent" /\ AirOf' = "advertising" /\ ModeOf' = "advertising"
  BY DEF AirOf, ModeOf, Booted, Connected, INVALID_HANDLE
<1> QED BY <1>1 DEF P!Next, P!Advertise

\* Booting.
LEMMA BootMapped ==
    ASSUME StackTypeOK, View, SystemBoot
    PROVE  P!Next
<1>1. evq \in Seq(EventSet) /\ evq # <<>> /\ EventAt(1) = "boot" /\ Running
  BY PopFacts DEF StackTypeOK, SystemBoot, Handling, EventAt
<1>2. ~Booted /\ ~link /\ ~adv
  <2>1. 1 \in DOMAIN evq
    BY <1>1
  <2> QED BY <1>1, <2>1 DEF View, QueueTellsOneStory
<1>3. byte0 = 0
  BY <1>1, <1>2 DEF View, ViewLagsByQueue
<1>4. byte0' = 1 /\ adv' = TRUE
  BY <1>2, <1>3 DEF SystemBoot, StartAdv, Start
<1>5. ModeOf = "booting"
  BY <1>2 DEF ModeOf
<1> QED BY <1>2, <1>4, <1>5, AdvertiseMapped DEF SystemBoot

\* Learning of a connection, and of a timeout.
LEMMA LearningMapped ==
    ASSUME StackTypeOK, View, ConnectionOpened \/ AdvTimeout
    PROVE  P!Next
<1>1. CASE ConnectionOpened
  <2>1. evq \in Seq(EventSet) /\ evq # <<>> /\ EventAt(1) = "opened"
    BY <1>1, PopFacts DEF StackTypeOK, ConnectionOpened, Handling, EventAt
  <2>2. conn_handle = INVALID_HANDLE /\ byte0 = 1 /\ ~adv
    BY <2>1 DEF View, QueueTellsOneStory
  <2>3. P!LearnConnected
    BY <1>1, <2>2 DEF ConnectionOpened, P!LearnConnected, AirOf, ModeOf, Booted, Connected,
                      Handle, INVALID_HANDLE
  <2> QED BY <2>3 DEF P!Next
<1>2. CASE AdvTimeout
  <2>1. evq \in Seq(EventSet) /\ evq # <<>> /\ EventAt(1) = "adv_timeout"
    BY <1>2, PopFacts DEF StackTypeOK, AdvTimeout, Handling, EventAt
  <2>2. conn_handle = INVALID_HANDLE /\ byte0 = 1 /\ ~adv /\ ~link
    BY <2>1 DEF View, QueueTellsOneStory
  <2>3. P!LearnTimeout
    BY <1>2, <2>2 DEF AdvTimeout, P!LearnTimeout, AirOf, ModeOf, Booted, Connected,
                      firmwareVars, INVALID_HANDLE
  <2> QED BY <2>3 DEF P!Next
<1> QED BY <1>1, <1>2

\* The end of a connection: adv.handle was cleared with the rest of the union,
\* and advertising begins again because the stack's handle is 0 as well.
LEMMA ClosedMapped ==
    ASSUME FirmwareTypeOK, StackTypeOK, View, ConnectionClosed, AdvHandle = 0
    PROVE  P!Next \/ UNCHANGED P!vars
<1>1. conn_handle = Handle /\ ~link /\ ~adv
  BY ClosedWhenConnected DEF ConnectionClosed
<1>2. CASE boot_to_dfu
  BY <1>2, SameAirSameMode DEF ConnectionClosed, ResetToDfu
<1>3. CASE ~boot_to_dfu
  <2>1. conn_handle' = INVALID_HANDLE /\ byte0' = 1 /\ adv' = TRUE /\ link' = link
    BY <1>1, <1>3 DEF ConnectionClosed, RestartAdv, StartAdv, Start
  <2>2. ModeOf = "connected"
    BY <1>1 DEF ModeOf, Booted, Connected, Handle, INVALID_HANDLE
  <2> QED BY <1>1, <2>1, <2>2, AdvertiseMapped
<1> QED BY <1>2, <1>3

\* A button wakes a quiet gamepad.
LEMMA ButtonMapped ==
    ASSUME FirmwareTypeOK, View, ButtonStartsAdv
    PROVE  P!Next \/ UNCHANGED P!vars
<1>1. /\ Running /\ conn_handle = INVALID_HANDLE
      /\ StartAdv(INVALID_HANDLE, byte0, byte1, bonding_info)
      /\ UNCHANGED <<link, conn_handle>>
  BY DEF ButtonStartsAdv, Connected
<1>2. CASE UNCHANGED <<adv, byte0>>
  BY <1>1, <1>2, SameAirSameMode
<1>3. CASE byte0 = 0 /\ byte0' = 1 /\ adv' = TRUE
  <2>1. ~adv /\ ~link
    BY <1>1, <1>3 DEF View, ViewLagsByQueue
  <2>2. ModeOf = "quiet"
    BY <1>1, <1>3 DEF ModeOf, Booted, Connected, INVALID_HANDLE
  <2> QED BY <1>1, <1>3, <2>1, <2>2, AdvertiseMapped
<1> QED BY <1>1, <1>2, <1>3 DEF StartAdv, Start, NoStart

\* A write of the OTA control point ends the connection.
LEMMA OtaMapped ==
    ASSUME StackTypeOK, View, UserWriteRequest
    PROVE  P!Next \/ UNCHANGED P!vars
<1>1. ~link' /\ UNCHANGED <<conn_handle, adv, byte0>> /\ Running
  BY DEF UserWriteRequest, Handling
<1>2. CASE link
  <2>1. ~adv
    BY <1>1, <1>2, LinkUp
  <2>2. P!FallsSilent
    BY <1>1, <1>2, <2>1 DEF P!FallsSilent, AirOf, ModeOf, Booted, Connected
  <2> QED BY <2>2 DEF P!Next
<1>3. CASE ~link
  <2>1. AirOf' = AirOf /\ ModeOf' = ModeOf
    BY <1>1, <1>3 DEF AirOf, ModeOf, Booted, Connected
  <2> QED BY <2>1 DEF P!vars
<1> QED BY <1>2, <1>3

\* Every step of bt.c is a step of Presence or changes nothing there.
LEMMA StepMapped ==
    ASSUME IInv, BtNext, AdvHandle = 0
    PROVE  P!Next \/ UNCHANGED P!vars
<1> USE DEF IInv, BtTypeOK
<1>1. CASE Radio /\ UNCHANGED <<appVars, resets>>
  BY <1>1, RadioMapped
<1>2. CASE SystemBoot \/ ConnectionOpened \/ AdvTimeout
  BY <1>2, BootMapped, LearningMapped
<1>3. CASE ConnectionClosed \/ ButtonStartsAdv \/ UserWriteRequest
  BY <1>3, ClosedMapped, ButtonMapped, OtaMapped
<1>4. CASE FactoryReset \/ PowerLoss
  <2>1. ~link' /\ ~adv' /\ conn_handle' = 0
    BY <1>4 DEF FactoryReset, PowerLoss, BtPowerOn, FirmwarePowerOn
  <2>2. P!Restart
    BY <2>1 DEF P!Restart, AirOf, ModeOf, Booted
  <2> QED BY <2>2 DEF P!Next
<1>5. CASE ConnParamUpdated
  <2>1. conn_handle = Handle
    BY <1>5, ConnEventKeepsView
       DEF ConnParamUpdated, Handling, Popped, ConnEvents, firmwareVars
  <2> QED BY <1>5, <2>1, SameAirSameMode DEF ConnParamUpdated, firmwareVars
<1> USE DEF appVars, stackVars
<1>6. CASE CharStatus \/ BondingConfirm \/ Bonded \/ BondFailed
  BY <1>6, SameAirSameMode DEF CharStatus, BondingConfirm, Bonded, BondFailed
<1>7. CASE SaveBondingInfo \/ ButtonRings \/ ButtonStops
  BY <1>7, SameAirSameMode DEF SaveBondingInfo, ButtonRings, ButtonStops
<1>8. CASE ButtonSignal \/ ButtonReports \/ ButtonDone
  BY <1>8, SameAirSameMode DEF ButtonSignal, EnterButtonHandler, ButtonReports, ButtonDone
<1> QED BY <1>1, <1>2, <1>3, <1>4, <1>5, <1>6, <1>7, <1>8
        DEF BtNext, EventHandler, OtherEvent, ButtonPath

\* bt.c implements Presence, provided the stack numbers its first advertising
\* set 0, the value a cleared union holds.
THEOREM BtImplementsPresence ==
    ASSUME AdvHandle = 0
    PROVE  BtSpec => KeepsPresence
<1>1. BtInit => P!Init
  BY DEF BtInit, FirmwareInit, P!Init, AirOf, ModeOf, Booted
<1>2. IInv /\ [BtNext]_btVars => [P!Next]_(P!vars)
  <2> SUFFICES ASSUME IInv, [BtNext]_btVars PROVE P!Next \/ UNCHANGED P!vars
    BY DEF P!vars
  <2>1. CASE BtNext
    BY <2>1, StepMapped
  <2>2. CASE UNCHANGED btVars
    BY <2>2, SameAirSameMode DEF btVars, firmwareVars, stackVars, appVars
  <2> QED BY <2>1, <2>2
<1> QED BY <1>1, <1>2, IInvHolds, PTL DEF BtSpec, KeepsPresence, P!Spec

=============================================================================
