--------------------------- MODULE GamepadProofs ---------------------------
(***************************************************************************)
(* Proofs about the whole firmware: what is proved of bt.c on its own      *)
(* holds in it, and no button is handled before boot.  The two need each   *)
(* other: bt.c's model lets a button ring only after boot.                 *)
(***************************************************************************)
EXTENDS GamepadProps, BtBondProofs, ButtonProofs

\* The buttons are armed by the boot handler, which also makes conn_handle
\* invalid; every trace of a button comes from an armed one.
ArmInv ==
    /\ irq \in [Buttons -> BOOLEAN]
    /\ armed <=> Booted
    /\ \A b \in Buttons : irq[b] => armed
    /\ isr # 0 => armed
    /\ sig => armed
    /\ pc \in ButtonHandler => armed

\* The super loop's part of the step, as bt.c's own model has it.
LEMMA LoopIsBt ==
    ASSUME SuperLoop
    PROVE  BtNext \/ UNCHANGED btVars
<1>1. CASE BootReleased \/ BootHeld
  BY <1>1 DEF BootReleased, BootHeld, BtNext, EventHandler
<1>2. CASE OtherHandler
  BY <1>2 DEF OtherHandler, BtNext, EventHandler
<1>3. CASE SignalPopped \/ UpdateDisconnected \/ UpdateReports \/ UpdateClears
  BY <1>3 DEF SignalPopped, UpdateDisconnected, UpdateReports, UpdateClears, BtNext, ButtonPath
<1>4. CASE UpdateReads
  BY <1>4 DEF UpdateReads, HandlerRead, btOnlyVars, btVars
<1> QED BY <1>1, <1>2, <1>3, <1>4 DEF SuperLoop

\* The interrupt rings, or stops at the full cache, only after boot.
LEMMA InterruptIsBt ==
    ASSUME ArmInv, PinOrInterrupt
    PROVE  BtNext \/ UNCHANGED btVars
<1>1. UNCHANGED <<stackVars, flashVars, appVars, resets>>
  BY DEF PinOrInterrupt, btOnlyVars
<1>2. CASE IsrPush
  <2>1. Booted
    BY <1>2 DEF ArmInv, IsrPush
  <2>2. sig' = TRUE
    BY <1>2 DEF IsrPush, Rings
  <2>3. ButtonRings
    BY <1>1, <1>2, <2>1, <2>2 DEF ButtonRings, IsrPush, Booted
  <2> QED BY <2>3 DEF BtNext
<1>3. CASE IsrOverflow
  <2>1. Booted
    BY <1>3 DEF ArmInv, IsrOverflow
  <2>2. ButtonStops
    BY <1>1, <1>3, <2>1 DEF ButtonStops, IsrOverflow, Booted
  <2> QED BY <2>2 DEF BtNext
<1>4. ASSUME NEW b \in Buttons, IsrEnter(b) \/ Edge(b)
      PROVE  UNCHANGED btVars
  BY <1>1, <1>4 DEF IsrEnter, Edge, btVars
<1> QED BY <1>2, <1>3, <1>4 DEF PinOrInterrupt, Interrupt

\* Every step of the firmware is one of bt.c's model, or leaves it alone.
LEMMA StepIsBt ==
    ASSUME ArmInv, [GamepadNext]_gamepadVars
    PROVE  [BtNext]_btVars
<1>1. CASE SuperLoop
  BY <1>1, LoopIsBt
<1>2. CASE RadioStep \/ PowerCycle
  BY <1>2 DEF RadioStep, PowerCycle, BtNext
<1>3. CASE PinOrInterrupt
  BY <1>3, InterruptIsBt
<1>4. CASE UNCHANGED gamepadVars
  BY <1>4 DEF gamepadVars
<1> QED BY <1>1, <1>2, <1>3, <1>4 DEF GamepadNext

-----------------------------------------------------------------------------
(* Buttons before boot *)

\* Once booted, bt.c's handlers never make conn_handle 0 again, and it is not
\* their events that are popped before.
LEMMA OtherKeepsBooted ==
    ASSUME IInv, OtherEvent \/ SaveBondingInfo
    PROVE  /\ Booted' <=> Booted
           /\ pc' \in ButtonHandler => pc \in ButtonHandler
           /\ sig' = sig
<1>1. FirmwareTypeOK /\ StackTypeOK /\ View
  BY DEF IInv, BtTypeOK
<1> USE DEF ButtonHandler
<1>2. CASE ConnectionOpened
  <2>1. evq # <<>> /\ EventAt(1) = "opened" /\ 1 \in DOMAIN evq
    BY <1>1, <1>2, PopFacts DEF StackTypeOK, ConnectionOpened, Handling, EventAt
  <2>2. conn_handle = INVALID_HANDLE
    BY <1>1, <2>1 DEF View, QueueTellsOneStory
  <2> QED BY <1>2, <2>2 DEF ConnectionOpened, Booted, Handle, INVALID_HANDLE
<1>3. CASE ConnectionClosed
  <2>1. conn_handle = Handle
    BY <1>1, <1>3, ClosedWhenConnected DEF ConnectionClosed
  <2>2. conn_handle' \in {conn_handle, INVALID_HANDLE} /\ UNCHANGED <<pc, sig>>
    BY <1>3 DEF ConnectionClosed, ResetToDfu, RestartAdv
  <2> QED BY <2>1, <2>2 DEF Booted, Handle, INVALID_HANDLE
<1>4. CASE ConnParamUpdated \/ CharStatus \/ UserWriteRequest \/ AdvTimeout
  BY <1>4 DEF ConnParamUpdated, CharStatus, UserWriteRequest, AdvTimeout, firmwareVars, Booted
<1>5. CASE BondingConfirm
  BY <1>5 DEF BondingConfirm, Asserting, Booted
<1>6. CASE Bonded
  BY <1>6 DEF Bonded, Asserting, Booted
<1>7. CASE BondFailed
  BY <1>7 DEF BondFailed, Asserting, DeleteBonding, Booted
<1>8. CASE SaveBondingInfo
  BY <1>8 DEF SaveBondingInfo, Booted
<1> QED BY <1>2, <1>3, <1>4, <1>5, <1>6, <1>7, <1>8 DEF OtherEvent

\* A step after which the buttons are as armed as before, and rings nothing new.
LEMMA SameArms ==
    ASSUME ArmInv, UNCHANGED <<irq, armed, isr>>, Booted' <=> Booted, sig' => sig,
           pc' \in ButtonHandler => pc \in ButtonHandler \/ sig
    PROVE  ArmInv'
  BY DEF ArmInv

LEMMA PowerOnDisarms ==
    ASSUME ButtonPowerOn, BtPowerOn
    PROVE  ArmInv'
<1>1. /\ irq' = [b \in Buttons |-> FALSE] /\ armed' = FALSE /\ isr' = 0 /\ sig' = FALSE
      /\ pc' = "idle" /\ conn_handle' = 0
  BY DEF ButtonPowerOn, ArmedAtPowerOn, BtPowerOn, FirmwarePowerOn
<1> QED BY <1>1 DEF ArmInv, Booted, ButtonHandler

LEMMA LoopKeepsArms ==
    ASSUME IInv, ArmInv, SuperLoop
    PROVE  ArmInv'
<1>1. CASE BootReleased
  <2>1. /\ armed' = TRUE /\ UNCHANGED <<irq, isr, sig, pc>> /\ conn_handle' = INVALID_HANDLE
    BY <1>1 DEF BootReleased, ArmButtons, cacheVars, SystemBoot
  <2> QED BY <2>1 DEF ArmInv, Booted, INVALID_HANDLE
<1>2. CASE BootHeld
  BY <1>2, PowerOnDisarms DEF BootHeld, FactoryReset
<1>3. CASE OtherHandler
  <2>1. UNCHANGED <<irq, armed, isr>> /\ (OtherEvent \/ SaveBondingInfo)
    BY <1>3 DEF OtherHandler, btnVars, pinVars, cacheVars
  <2> QED BY <2>1, OtherKeepsBooted, SameArms
<1>4. CASE SignalPopped
  BY <1>4, SameArms
     DEF SignalPopped, HandlerEnter, EnterButtonHandler, btnVars, pinVars, cacheVars, Booted
<1>5. CASE UpdateDisconnected
  BY <1>5, SameArms DEF UpdateDisconnected, HandlerDisconnected, pinVars, Booted, ButtonHandler
<1>6. CASE UpdateReads \/ UpdateReports \/ UpdateClears
  BY <1>6, SameArms
     DEF UpdateReads, HandlerRead, UpdateReports, HandlerReport, UpdateClears, HandlerClear,
         firmwareVars, pinVars, cacheVars, Booted, ButtonHandler
<1> QED BY <1>1, <1>2, <1>3, <1>4, <1>5, <1>6 DEF SuperLoop

LEMMA PinsKeepArms ==
    ASSUME ArmInv, PinOrInterrupt
    PROVE  ArmInv'
<1>1. ASSUME NEW b \in Buttons, Edge(b)
      PROVE  ArmInv'
  <2>1. UNCHANGED <<armed, isr, sig, pc, conn_handle>>
    BY <1>1 DEF Edge, cacheVars, firmwareVars
  <2>2. irq' = [irq EXCEPT ![b] = irq[b] \/ armed]
    BY <1>1 DEF Edge, EdgeRaisesFlag
  <2>3. irq' \in [Buttons -> BOOLEAN]
    <3>1. (irq[b] \/ armed) \in BOOLEAN
      OBVIOUS
    <3> QED BY <2>2, <3>1 DEF ArmInv
  <2>4. \A c \in Buttons : irq'[c] => armed'
    BY <2>1, <2>2 DEF ArmInv
  <2> QED BY <2>1, <2>3, <2>4 DEF ArmInv, Booted
<1>2. ASSUME NEW b \in Buttons, IsrEnter(b)
      PROVE  ArmInv'
  <2>1. UNCHANGED <<armed, sig, pc, conn_handle>> /\ irq[b]
    BY <1>2 DEF IsrEnter, firmwareVars
  <2>2. irq' = [irq EXCEPT ![b] = FALSE]
    BY <1>2 DEF IsrEnter
  <2> QED BY <2>1, <2>2 DEF ArmInv, Booted
<1>3. CASE IsrPush
  <2>1. UNCHANGED <<armed, irq, pc, conn_handle>> /\ isr # 0 /\ isr' = 0
    BY <1>3 DEF IsrPush
  <2> QED BY <2>1 DEF ArmInv, Booted
<1>4. CASE IsrOverflow
  BY <1>4, SameArms DEF IsrOverflow, btnVars, pinVars, cacheVars, Booted
<1> QED BY <1>1, <1>2, <1>3, <1>4 DEF PinOrInterrupt, Interrupt

LEMMA StepKeepsArms ==
    ASSUME IInv, ArmInv, [GamepadNext]_gamepadVars
    PROVE  ArmInv'
<1>1. CASE SuperLoop
  BY <1>1, LoopKeepsArms
<1>2. CASE RadioStep
  <2>1. UNCHANGED <<irq, armed, isr>> /\ Radio
    BY <1>2 DEF RadioStep, btnVars, pinVars, cacheVars
  <2>2. UNCHANGED <<pc, sig, conn_handle>>
    BY <2>1 DEF Radio, radioFrame, CentralConnects, AdvertisingTimesOut, LinkLost,
                CentralUpdatesParameters, CentralWritesCcc, CentralWritesOta,
                CentralAsksToBond, BondStored, PairedOnly, PairingFails
  <2> QED BY <2>1, <2>2, SameArms DEF Booted
<1>3. CASE PinOrInterrupt
  BY <1>3, PinsKeepArms
<1>4. CASE PowerCycle
  BY <1>4, PowerOnDisarms DEF PowerCycle, PowerLoss
<1>5. CASE UNCHANGED gamepadVars
  BY <1>5, SameArms
     DEF gamepadVars, btVars, firmwareVars, btnVars, pinVars, cacheVars, Booted
<1> QED BY <1>1, <1>2, <1>3, <1>4, <1>5 DEF GamepadNext

\* The two invariants hold together.
THEOREM GamepadInvHolds == GamepadSpec => [](IInv /\ ArmInv)
<1>1. GamepadInit => IInv /\ ArmInv
  <2> SUFFICES ASSUME GamepadInit PROVE IInv /\ ArmInv
    OBVIOUS
  <2>1. IInv
    BY InitIInv DEF GamepadInit
  <2>2. /\ irq = [b \in Buttons |-> FALSE] /\ armed = FALSE /\ isr = 0 /\ sig = FALSE
        /\ pc = "idle" /\ conn_handle = 0
    BY DEF GamepadInit, ButtonInit, FirmwareInit
  <2>3. ArmInv
    BY <2>2 DEF ArmInv, Booted, ButtonHandler
  <2> QED BY <2>1, <2>3
<1>2. IInv /\ ArmInv /\ [GamepadNext]_gamepadVars => IInv' /\ ArmInv'
  BY StepIsBt, StepKeepsArms, StepIInv
<1> QED BY <1>1, <1>2, PTL DEF GamepadSpec

\* bt.c meets, in the whole firmware, only the buttons its own model allows for;
\* so what is proved of bt.c alone holds in the firmware.
THEOREM GamepadImplementsBt == GamepadSpec => ImplementsBt
<1>1. GamepadInit => BtInit
  BY DEF GamepadInit
<1>2. ArmInv /\ [GamepadNext]_gamepadVars => [BtNext]_btVars
  BY StepIsBt
<1> QED BY <1>1, <1>2, GamepadInvHolds, PTL DEF GamepadSpec, ImplementsBt

\* No button is handled, nor its interrupt run or its signal raised, before the
\* boot handler has set up gamepad's callbacks and bt's connection handle.
THEOREM HandledOnlyAfterBootHolds == GamepadSpec => []HandledOnlyAfterBoot
<1>1. ArmInv => HandledOnlyAfterBoot
  BY DEF ArmInv, HandledOnlyAfterBoot, Booted
<1> QED BY <1>1, GamepadInvHolds, PTL

-----------------------------------------------------------------------------
(* button.c in the whole firmware *)

\* What button.c's model takes for granted of the shared state: while bt.c
\* believes itself disconnected, the union holds a handle start_adv may use, 0
\* after ClearAdvConn and the stack's after boot; only a connection has a client
\* configuration; and a bond is saved only after boot.
SharedState ==
    /\ conn_handle = INVALID_HANDLE => byte1 \in {0, AdvHandle}
    /\ report_ccc \in 0 .. 1
    /\ conn_handle # Handle => report_ccc = 0
    /\ pc \in {"save_bonded", "save_deleted"} => Booted

SharedVars == <<pc, conn_handle, report_ccc, byte1>>

LEMMA SameSharedState ==
    ASSUME SharedState, UNCHANGED <<conn_handle, report_ccc, byte1>>,
           pc' \in {"save_bonded", "save_deleted"} => Booted
    PROVE  SharedState'
  BY DEF SharedState, Booted

\* A handler of an event about the connection runs while bt.c knows of one.
LEMMA KnownConnection ==
    ASSUME IInv, NEW id \in ConnEvents, Handling(id), Popped, UNCHANGED <<link, conn_handle, adv>>
    PROVE  conn_handle = Handle
  BY ConnEventKeepsView DEF IInv, BtTypeOK, Handling, Popped

\* The handlers of bt.c.
LEMMA EventsKeepSharedState ==
    ASSUME IInv, SharedState, OtherEvent \/ SaveBondingInfo
    PROVE  SharedState'
<1>1. {"parameters", "char_status", "confirm_bonding", "bonded", "bonding_failed"}
          \subseteq ConnEvents
  BY DEF ConnEvents, SmEvents
<1>2. CASE ConnectionOpened
  <2>1. conn_handle' = Handle /\ report_ccc' = 0 /\ pc' = pc /\ pc = "idle"
    BY <1>2 DEF ConnectionOpened, Handling
  <2> QED BY <2>1 DEF SharedState, Handle, INVALID_HANDLE
<1>3. CASE ConnectionClosed
  <2>1. pc' = pc /\ pc = "idle"
    BY <1>3 DEF ConnectionClosed, Handling
  <2>2. CASE boot_to_dfu
    BY <1>3, <2>1, <2>2, SameSharedState DEF ConnectionClosed, ResetToDfu
  <2>3. CASE ~boot_to_dfu
    <3>1. byte1' = 0 /\ report_ccc' = 0
      BY <1>3, <2>3 DEF ConnectionClosed, RestartAdv, ClearAdvConn
    <3> QED BY <2>1, <3>1 DEF SharedState
  <2> QED BY <2>2, <2>3
<1>4. CASE ConnParamUpdated
  <2>1. conn_handle = Handle
    BY <1>1, <1>4, KnownConnection DEF ConnParamUpdated, firmwareVars
  <2>2. UNCHANGED <<pc, conn_handle, report_ccc>> /\ pc = "idle"
    BY <1>4 DEF ConnParamUpdated, firmwareVars, Handling
  <2> QED BY <2>1, <2>2 DEF SharedState, Handle, INVALID_HANDLE
<1>5. CASE CharStatus
  <2>1. conn_handle = Handle
    BY <1>1, <1>5, KnownConnection DEF CharStatus
  <2>2. report_ccc' \in 0 .. 1
    BY <1>5, HeadTypes DEF CharStatus, IInv, BtTypeOK
  <2>3. UNCHANGED <<pc, conn_handle, byte1>> /\ pc = "idle"
    BY <1>5 DEF CharStatus, appVars, Handling
  <2> QED BY <2>1, <2>2, <2>3 DEF SharedState, Handle, INVALID_HANDLE
<1>6. CASE UserWriteRequest \/ AdvTimeout \/ BondingConfirm
  <2>1. UNCHANGED SharedVars /\ pc = "idle"
    BY <1>6 DEF SharedVars, UserWriteRequest, AdvTimeout, BondingConfirm, Asserting, firmwareVars,
                Handling
  <2> QED BY <2>1, SameSharedState DEF SharedVars
<1>7. CASE Bonded \/ BondFailed
  <2>1. conn_handle = Handle
    BY <1>1, <1>7, KnownConnection DEF Bonded, BondFailed
  <2>2. UNCHANGED <<conn_handle, report_ccc, byte1>>
    BY <1>7 DEF Bonded, BondFailed
  <2> QED BY <2>1, <2>2, SameSharedState DEF Booted, Handle
<1>8. CASE SaveBondingInfo
  <2>1. UNCHANGED <<conn_handle, report_ccc, byte1>> /\ pc' = "idle"
    BY <1>8 DEF SaveBondingInfo
  <2> QED BY <2>1, SameSharedState
<1> QED BY <1>2, <1>3, <1>4, <1>5, <1>6, <1>7, <1>8 DEF OtherEvent

\* The boot event is popped before boot, when nothing is on the air.
LEMMA BootInSilence ==
    ASSUME IInv, SystemBoot
    PROVE  conn_handle = 0 /\ ~link /\ byte0 = 0
<1>1. evq # <<>> /\ EventAt(1) = "boot" /\ 1 \in DOMAIN evq
  BY PopFacts DEF IInv, BtTypeOK, StackTypeOK, SystemBoot, Handling, EventAt
<1>2. ~Booted /\ ~link
  BY <1>1 DEF IInv, View, QueueTellsOneStory
<1> QED BY <1>2 DEF IInv, View, ViewLagsByQueue, SystemBoot, Handling, Booted

LEMMA PowerOnSharedState ==
    ASSUME BtPowerOn
    PROVE  SharedState'
<1>1. conn_handle' = 0 /\ report_ccc' = 0 /\ pc' = "idle"
  BY DEF BtPowerOn, FirmwarePowerOn
<1> QED BY <1>1 DEF SharedState, INVALID_HANDLE

LEMMA StepKeepsSharedState ==
    ASSUME IInv, SharedState, [BtNext]_btVars
    PROVE  SharedState'
<1>1. CASE Radio /\ UNCHANGED <<appVars, resets>>
  <2>1. UNCHANGED SharedVars
    BY <1>1 DEF SharedVars, appVars, Radio, radioFrame, CentralConnects, AdvertisingTimesOut,
                LinkLost, CentralUpdatesParameters, CentralWritesCcc, CentralWritesOta,
                CentralAsksToBond, BondStored, PairedOnly, PairingFails
  <2> QED BY <2>1, SameSharedState DEF SharedVars, SharedState
<1>2. CASE SystemBoot
  <2>1. conn_handle' = INVALID_HANDLE /\ byte1' = AdvHandle /\ UNCHANGED <<pc, report_ccc>>
    BY <1>2 DEF SystemBoot
  <2>2. report_ccc = 0
    BY <1>2, BootInSilence DEF SharedState, Handle
  <2> QED BY <2>1, <2>2 DEF SharedState, Booted, INVALID_HANDLE
<1>3. CASE FactoryReset \/ PowerLoss
  BY <1>3, PowerOnSharedState DEF FactoryReset, PowerLoss
<1>4. CASE OtherEvent \/ SaveBondingInfo
  BY <1>4, EventsKeepSharedState
<1>5. CASE ButtonRings \/ ButtonStops
  <2>1. UNCHANGED SharedVars
    BY <1>5 DEF ButtonRings, ButtonStops, appVars, SharedVars
  <2> QED BY <2>1, SameSharedState DEF SharedVars, SharedState
<1>6. CASE ButtonPath
  <2>1. UNCHANGED <<conn_handle, report_ccc, byte1>> /\ pc' \in {"idle", "btn_handler", "btn_clear"}
    BY <1>6 DEF ButtonPath, ButtonSignal, EnterButtonHandler, ButtonStartsAdv, ButtonReports,
                ButtonDone, appVars
  <2> QED BY <2>1, SameSharedState
<1>7. CASE UNCHANGED btVars
  <2>1. UNCHANGED SharedVars
    BY <1>7 DEF btVars, firmwareVars, appVars, SharedVars
  <2> QED BY <2>1, SameSharedState DEF SharedVars, SharedState
<1> QED BY <1>1, <1>2, <1>3, <1>4, <1>5, <1>6, <1>7 DEF BtNext, EventHandler

\* start_adv returns: the handle is the one the stack gave out, and when bt.c
\* believes that nothing is on the air, nothing is.
LEMMA StartAdvReturns ==
    ASSUME AdvHandle = 0, NEW enabled, NEW advHandle, NEW info,
           advHandle \in {0, AdvHandle}, enabled = 0 => ~link,
           StartAdv(INVALID_HANDLE, enabled, advHandle, info)
    PROVE  mcu' = mcu
  BY DEF StartAdv, Start, NoStart

\* The boot handler arms the buttons.
LEMMA BootMapsToBoot ==
    ASSUME AdvHandle = 0, IInv, ArmInv, BootReleased
    PROVE  Boot
<1>1. conn_handle = 0 /\ ~link
  BY BootInSilence DEF BootReleased
<1>2. ~armed
  BY <1>1 DEF ArmInv, Booted
<1>3. StartAdv(INVALID_HANDLE, byte0, AdvHandle, LoadedInfo)
  BY DEF BootReleased, SystemBoot
<1>4. mcu' = mcu
  BY <1>1, <1>3, StartAdvReturns
<1> QED BY <1>2, <1>4 DEF Boot, BootReleased, SystemBoot, Handling

\* btn_update_handler without a connection.
LEMMA UpdateMapsToUpdate ==
    ASSUME AdvHandle = 0, IInv, SharedState, UpdateDisconnected
    PROVE  DisconnectedUpdate
<1>1. HandlerDisconnected /\ conn_handle = INVALID_HANDLE /\ Running
  BY DEF UpdateDisconnected, HandlerDisconnected, Connected
<1>2. StartAdv(INVALID_HANDLE, byte0, byte1, bonding_info)
  BY <1>1 DEF UpdateDisconnected, ButtonStartsAdv
<1>3. byte1 \in {0, AdvHandle} /\ (byte0 = 0 => ~link)
  BY <1>1 DEF SharedState, IInv, View, ViewLagsByQueue
<1>4. mcu' = mcu
  BY <1>2, <1>3, StartAdvReturns
<1> QED BY <1>1, <1>4 DEF DisconnectedUpdate

\* The ways the handlers of bt.c stop the program: none of them is an ASSERT on
\* conn_handle.
BtStopsThisWay == {"call_failed", "app_assert", "not_handled", "dfu"}

\* The handlers of bt.c run after boot, from the super loop.
LEMMA HandlersRunBooted ==
    ASSUME IInv, SharedState, OtherEvent \/ SaveBondingInfo
    PROVE  /\ Running /\ Booted
           /\ OtherEvent => pc = "idle"
           /\ SaveBondingInfo => pc \in {"save_bonded", "save_deleted"} /\ pc' = "idle"
<1>1. CASE SaveBondingInfo
  <2>1. Running /\ pc \in {"save_bonded", "save_deleted"} /\ pc' = "idle"
    BY <1>1 DEF SaveBondingInfo
  <2>2. Booted
    BY <2>1 DEF SharedState
  <2>3. ~OtherEvent
    BY <2>1 DEF OtherEvent, Handling, ConnectionOpened, ConnectionClosed, ConnParamUpdated,
                CharStatus, UserWriteRequest, BondingConfirm, Bonded, BondFailed, AdvTimeout
  <2> QED BY <2>1, <2>2, <2>3
<1>2. CASE OtherEvent
  <2>1. Running /\ pc = "idle" /\ evq # <<>> /\ Head(evq).id # "boot"
    BY <1>2 DEF OtherEvent, Handling, ConnectionOpened, ConnectionClosed, ConnParamUpdated,
                CharStatus, UserWriteRequest, BondingConfirm, Bonded, BondFailed, AdvTimeout
  <2>2. ~FirstIs("boot")
    BY <2>1, PopFacts DEF IInv, BtTypeOK, StackTypeOK, FirstIs, EventAt
  <2>3. Booted
    BY <2>1, <2>2 DEF IInv, View, ViewLagsByQueue
  <2>4. ~SaveBondingInfo
    BY <2>1 DEF SaveBondingInfo
  <2> QED BY <2>1, <2>3, <2>4
<1> QED BY <1>1, <1>2

\* A handler that returns does what button.c's model allows for.
LEMMA HandlerReturns ==
    ASSUME IInv, ArmInv, SharedState, IInv', SharedState', OtherHandler, mcu' = mcu
    PROVE  BtHandler
<1>1. isr = 0 /\ UNCHANGED btnVars /\ (OtherEvent \/ SaveBondingInfo)
  BY DEF OtherHandler
<1>2. Running /\ Booted /\ Booted' /\ sig' = sig
  BY <1>1, HandlersRunBooted, OtherKeepsBooted
<1>3. IF pc = "idle" THEN pc' \in Elsewhere ELSE pc \in Elsewhere /\ pc' = "idle"
  <2>1. CASE SaveBondingInfo
    BY <2>1, HandlersRunBooted DEF Elsewhere
  <2>2. CASE OtherEvent
    <3>1. pc = "idle" /\ (pc' \in ButtonHandler => pc \in ButtonHandler)
      BY <2>2, HandlersRunBooted, OtherKeepsBooted
    <3> QED BY <3>1 DEF IInv, BtTypeOK, FirmwareTypeOK, Elsewhere, ButtonHandler
  <2> QED BY <1>1, <2>1, <2>2
<1>4. conn_handle' \in {Handle, INVALID_HANDLE} /\ link' \in BOOLEAN
  BY <1>2 DEF IInv, BtTypeOK, FirmwareTypeOK, Booted
<1>5. report_ccc' \in IF conn_handle' = Handle THEN 0 .. 1 ELSE {0}
  BY DEF SharedState
<1> QED BY <1>1, <1>2, <1>3, <1>4, <1>5 DEF BtHandler, ArmInv

\* A handler that does not return leaves the shared state as it found it: only
\* the write of the OTA control point has closed the link by then.
LEMMA HandlerStops ==
    ASSUME AdvHandle = 0, BtStopsThisWay \subseteq BtStopCauses,
           IInv, SharedState, IInv', OtherHandler, mcu' # mcu
    PROVE  BtStops
<1>1. isr = 0 /\ UNCHANGED btnVars /\ (OtherEvent \/ SaveBondingInfo) /\ link' \in BOOLEAN
  BY DEF OtherHandler, IInv, BtTypeOK, FirmwareTypeOK
<1>2. Running
  BY <1>1, HandlersRunBooted
<1>3. CASE UserWriteRequest
  <2>1. mcu' \in BtStopsThisWay /\ UNCHANGED <<pc, sig, conn_handle, report_ccc>>
    BY <1>3 DEF UserWriteRequest, BtStopsThisWay
  <2> QED BY <1>1, <1>2, <2>1 DEF BtStops
<1>4. CASE ConnectionClosed
  <2>1. boot_to_dfu
    <3> SUFFICES ASSUME ~boot_to_dfu PROVE FALSE
      OBVIOUS
    <3>1. StartAdv(INVALID_HANDLE, 0, 0, bonding_info) /\ ~link
      BY <1>4, ClosedWhenConnected DEF ConnectionClosed, RestartAdv, IInv, BtTypeOK
    <3>2. mcu' = mcu
      BY <3>1, StartAdvReturns
    <3> QED BY <3>2
  <2>2. mcu' = "dfu" /\ UNCHANGED <<pc, sig, conn_handle, report_ccc>>
    BY <1>4, <2>1 DEF ConnectionClosed, ResetToDfu
  <2> QED BY <1>1, <1>2, <2>2 DEF BtStops, BtStopsThisWay
<1>5. CASE BondingConfirm \/ Bonded \/ BondFailed
  <2>1. CASE Connected
    <3>1. mcu' = "call_failed" /\ BondingConfirm
      BY <1>5, <2>1 DEF BondingConfirm, Bonded, BondFailed, Asserting
    <3>2. UNCHANGED <<pc, sig, conn_handle, report_ccc>>
      BY <2>1, <3>1 DEF BondingConfirm, Asserting
    <3> QED BY <1>1, <1>2, <3>1, <3>2 DEF BtStops, BtStopsThisWay
  <2>2. CASE ~Connected
    <3>1. mcu' = "assert"
      BY <1>5, <2>2 DEF BondingConfirm, Bonded, BondFailed, Asserting
    <3> QED BY <3>1 DEF IInv, AssertsHold
  <2> QED BY <2>1, <2>2
<1>6. CASE ConnectionOpened \/ ConnParamUpdated \/ CharStatus \/ AdvTimeout \/ SaveBondingInfo
  BY <1>6 DEF ConnectionOpened, ConnParamUpdated, CharStatus, AdvTimeout, SaveBondingInfo,
              firmwareVars
<1> QED BY <1>1, <1>3, <1>4, <1>5, <1>6 DEF OtherEvent

\* The super loop.
LEMMA LoopIsButton ==
    ASSUME AdvHandle = 0, BtStopsThisWay \subseteq BtStopCauses,
           IInv, ArmInv, SharedState, IInv', SharedState', SuperLoop
    PROVE  ButtonNext
<1>1. CASE BootReleased
  BY <1>1, BootMapsToBoot DEF ButtonNext
<1>2. CASE BootHeld
  BY <1>2 DEF BootHeld, FactoryReset, BtPowerOn, ButtonReset, ButtonNext
<1>3. CASE OtherHandler
  BY <1>3, HandlerReturns, HandlerStops DEF ButtonNext
<1>4. CASE UpdateDisconnected
  BY <1>4, UpdateMapsToUpdate DEF ButtonUpdate, ButtonNext
<1>5. CASE SignalPopped \/ UpdateReads \/ UpdateReports \/ UpdateClears
  BY <1>5 DEF SignalPopped, UpdateReads, UpdateReports, UpdateClears, ButtonUpdate, ButtonNext
<1> QED BY <1>1, <1>2, <1>3, <1>4, <1>5 DEF SuperLoop

\* The radio changes only the link.
LEMMA RadioIsButton ==
    ASSUME IInv', RadioStep
    PROVE  ButtonNext
<1>1. Running /\ UNCHANGED <<mcu, pc, sig, conn_handle, report_ccc>>
  BY DEF RadioStep, Radio, radioFrame, CentralConnects, AdvertisingTimesOut, LinkLost,
         CentralUpdatesParameters, CentralWritesCcc, CentralWritesOta, CentralAsksToBond,
         BondStored, PairedOnly, PairingFails
<1>2. link' \in BOOLEAN /\ UNCHANGED btnVars
  BY DEF IInv, BtTypeOK, FirmwareTypeOK, RadioStep
<1> QED BY <1>1, <1>2 DEF LinkChanges, ButtonNext

LEMMA StepIsButton ==
    ASSUME AdvHandle = 0, BtStopsThisWay \subseteq BtStopCauses,
           IInv, ArmInv, SharedState, IInv', SharedState', [GamepadNext]_gamepadVars
    PROVE  [ButtonNext]_buttonVars
<1>1. CASE SuperLoop
  BY <1>1, LoopIsButton
<1>2. CASE RadioStep
  BY <1>2, RadioIsButton
<1>3. CASE PinOrInterrupt
  BY <1>3 DEF PinOrInterrupt, ButtonNext
<1>4. CASE PowerCycle
  BY <1>4 DEF PowerCycle, PowerLoss, BtPowerOn, ButtonReset, ButtonNext
<1>5. CASE UNCHANGED gamepadVars
  BY <1>5 DEF gamepadVars, btVars, buttonVars
<1> QED BY <1>1, <1>2, <1>3, <1>4, <1>5 DEF GamepadNext

\* button.c meets, in the whole firmware, only the bt.c its own model allows
\* for: while it handles a button start_adv returns, a handler of bt.c touches
\* the shared state as that model says, and one that stops the program touches
\* nothing.  The stack must have given out advertising handle 0, which is what
\* ClearAdvConn leaves in the union, and bt.c must be allowed its four ways to
\* stop; that it may fail an ASSERT on conn_handle need not be.
THEOREM GamepadImplementsButton ==
    ASSUME AdvHandle = 0, BtStopsThisWay \subseteq BtStopCauses
    PROVE  GamepadSpec => ImplementsButton
<1>1. GamepadInit => ButtonInit /\ SharedState
  BY DEF GamepadInit, ButtonInit, FirmwareInit, SharedState, INVALID_HANDLE
<1>2. IInv /\ ArmInv /\ SharedState /\ [GamepadNext]_gamepadVars => SharedState'
  BY StepIsBt, StepKeepsSharedState
<1>3. IInv /\ ArmInv /\ SharedState /\ IInv' /\ SharedState' /\ [GamepadNext]_gamepadVars
          => [ButtonNext]_buttonVars
  BY StepIsButton
<1> QED BY <1>1, <1>2, <1>3, GamepadInvHolds, PTL DEF GamepadSpec, ImplementsButton

-----------------------------------------------------------------------------
(* The invariants of the parts, in the whole *)

\* Whatever the fingers do, bt.c's view of the radio lags by the queued events
\* only, its assertions on conn_handle hold, and what it remembers of bonds and
\* subscriptions is true.
THEOREM FirmwareKeepsBt ==
    GamepadSpec =>
        [](/\ BtTypeOK /\ QueueTellsOneStory /\ ViewLagsByQueue /\ AssertsHold
           /\ BondingFlagAgrees /\ TimingFollowsBonds /\ BondedHasKeys
           /\ SubscriptionIsCurrent)
<1>1. GamepadSpec => BtSteps
  BY GamepadImplementsBt DEF ImplementsBt, BtSteps
<1>2. IInv => BtTypeOK /\ QueueTellsOneStory /\ ViewLagsByQueue /\ AssertsHold
  BY DEF IInv, View
<1>3. BondInv => BondingFlagAgrees /\ TimingFollowsBonds /\ BondedHasKeys
  BY DEF BondInv, FlagInv
<1>4. SubInv => SubscriptionIsCurrent
  BY DEF SubInv, SubscriptionIsCurrent, NoStatus, EventAt
<1> QED BY <1>1, <1>2, <1>3, <1>4, IInvKept, BondInvKept, SubInvKept, PTL

\* Whatever the radio and bt.c do, no pin level goes unread without an interrupt,
\* no cached event unheard without a signal, and the filter keeps equal events
\* apart.
THEOREM FirmwareKeepsButtons ==
    ASSUME AdvHandle = 0, BtStopsThisWay \subseteq BtStopCauses
    PROVE  GamepadSpec =>
               [](ButtonTypeOK /\ SpacedRepeats /\ LevelTracked /\ SignalCoversPush)
<1>1. GamepadSpec => ButtonSteps
  BY GamepadImplementsButton DEF ImplementsButton, ButtonSteps
<1> QED BY <1>1, ButtonTypesKept, SpacedRepeatsKept, LevelTrackedKept, SignalCoversPushKept, PTL

=============================================================================
