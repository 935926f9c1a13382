---------------------------- MODULE ButtonProofs ----------------------------
(***************************************************************************)
(* Proofs, for every number of buttons, cache size and stick range, of the *)
(* invariants the runs of MCButton check.                                  *)
(***************************************************************************)
EXTENDS ButtonProps, SequenceTheorems, TLAPS

-----------------------------------------------------------------------------
(* btn_push_evt *)

\* The event a callback pushes is one of the enumeration in button.h.
LEMMA EvtOfPinType ==
    ASSUME BtnNum \in Nat \ {0}, NEW b \in Buttons
    PROVE  EvtOfPin(b) \in Events
  BY DEF EvtOfPin, Events, Buttons, PressEvt, ReleaseEvt

\* btn_push_evt keeps the cache a sequence of events, one longer at most.
LEMMA PushEvtType ==
    ASSUME NEW c \in Seq(Events), NEW evt \in Events
    PROVE  /\ PushEvt(c, evt) \in Seq(Events)
           /\ Len(PushEvt(c, evt)) \in {Len(c), Len(c) + 1}
  BY DEF PushEvt

\* btn_push_evt keeps equal events apart.
LEMMA PushEvtSpaced ==
    ASSUME NEW c \in Seq(Events), NEW evt \in Events, Spaced(c)
    PROVE  Spaced(PushEvt(c, evt))
<1> DEFINE d == Append(c, evt)
<1>1. CASE Dropped(c, evt)
  BY <1>1 DEF PushEvt
<1>2. CASE ~Dropped(c, evt)
  <2>1. /\ d \in Seq(Events)
        /\ Len(d) = Len(c) + 1
        /\ DOMAIN c = 1 .. Len(c)
        /\ DOMAIN d = 1 .. Len(c) + 1
        /\ d[Len(c) + 1] = evt
        /\ \A k \in 1 .. Len(c) : d[k] = c[k]
    OBVIOUS
  <2>2. ASSUME NEW i \in DOMAIN d, NEW j \in DOMAIN d, i < j, d[i] = d[j]
        PROVE  \E k \in i + 1 .. j - 1 : d[k] = ExpPreEvt(d[i])
    <3>1. CASE j = Len(c) + 1
      <4>1. i \in DOMAIN c /\ c[i] = evt
        BY <2>1, <2>2, <3>1
      <4>2. PICK k \in i + 1 .. Len(c) : c[k] = ExpPreEvt(evt)
        BY <1>2, <4>1 DEF Dropped
      <4>3. k \in i + 1 .. j - 1 /\ d[k] = ExpPreEvt(d[i])
        BY <2>1, <3>1, <4>1, <4>2
      <4> QED BY <4>3
    <3>2. CASE j # Len(c) + 1
      <4>1. i \in DOMAIN c /\ j \in DOMAIN c /\ c[i] = c[j]
        BY <2>1, <2>2, <3>2
      <4>2. PICK k \in i + 1 .. j - 1 : c[k] = ExpPreEvt(c[i])
        BY <2>2, <4>1 DEF Spaced
      <4>3. k \in 1 .. Len(c) /\ d[k] = ExpPreEvt(d[i])
        BY <2>1, <4>1, <4>2
      <4> QED BY <4>2, <4>3
    <3> QED BY <3>1, <3>2
  <2>3. Spaced(d)
    BY <2>2 DEF Spaced
  <2> QED BY <1>2, <2>3 DEF PushEvt
<1> QED BY <1>1, <1>2

-----------------------------------------------------------------------------
(* Type correctness *)

\* What the radio and the rest of bt.c do keeps the shared state well typed.
LEMMA SharedStepType ==
    ASSUME FirmwareTypeOK, Boot \/ LinkChanges \/ BtHandler \/ BtStops
    PROVE  FirmwareTypeOK'
<1> USE DEF FirmwareTypeOK, ButtonHandler, Elsewhere, Stopped, Handle, INVALID_HANDLE
<1>1. CASE Boot
  BY <1>1 DEF Boot
<1>2. CASE LinkChanges
  BY <1>2 DEF LinkChanges
<1>3. CASE BtHandler
  BY <1>3 DEF BtHandler
<1>4. CASE BtStops
  BY <1>4, BtStopCausesAssumption DEF BtStops
<1> QED BY <1>1, <1>2, <1>3, <1>4

\* The behaviours of button.c with or without fairness: what a program that
\* contains it has to implement for its invariants to hold there.
ButtonSteps == ButtonInit /\ [][ButtonNext]_buttonVars

\* The types are inductive.
LEMMA ButtonTypesKept == ButtonSteps => []ButtonTypeOK
<1> USE BtnNumAssumption, CacheSizeAssumption, StickNumAssumption, ValueNumAssumption
<1>1. ButtonInit => ButtonTypeOK
  <2> SUFFICES ASSUME ButtonInit PROVE ButtonTypeOK
    OBVIOUS
  <2> USE DEF ButtonInit, FirmwareInit
  <2>1. sig \in BOOLEAN /\ link \in BOOLEAN /\ armed \in BOOLEAN /\ unheard \in BOOLEAN
    OBVIOUS
  <2>2. FirmwareTypeOK
    <3>1. mcu \in {"running"} \union Stopped /\ pc \in ButtonHandler \union Elsewhere
      BY DEF Elsewhere
    <3>2. conn_handle \in {0, Handle, INVALID_HANDLE} /\ report_ccc \in 0 .. 3
      OBVIOUS
    <3> QED BY <2>1, <3>1, <3>2 DEF FirmwareTypeOK
  <2>3. /\ high \in [Buttons -> BOOLEAN]
        /\ irq \in [Buttons -> BOOLEAN]
        /\ last \in [Buttons -> BOOLEAN]
    OBVIOUS
  <2>4. /\ isr \in Buttons \union {0}
        /\ cache \in Seq(Events) /\ Len(cache) <= CacheSize
        /\ seen \in Events \union {NotRead, PB1_RELEASE_EM, StrayByte}
        /\ stick \in 0 .. StickNum - 1
        /\ value \in 0 .. ValueNum - 1
    OBVIOUS
  <2> QED BY <2>1, <2>2, <2>3, <2>4 DEF ButtonTypeOK
<1>2. ButtonTypeOK /\ [ButtonNext]_buttonVars => ButtonTypeOK'
  <2> SUFFICES ASSUME ButtonTypeOK, [ButtonNext]_buttonVars
               PROVE  ButtonTypeOK'
    OBVIOUS
  <2> USE DEF ButtonTypeOK
  <2>1. ASSUME NEW b \in Buttons, Edge(b) PROVE ButtonTypeOK'
    BY <2>1 DEF Edge, EdgeRaisesFlag, FirmwareTypeOK, firmwareVars, cacheVars, stickVars
  <2>2. ASSUME NEW b \in Buttons, IsrEnter(b) PROVE ButtonTypeOK'
    BY <2>2 DEF IsrEnter, FirmwareTypeOK, firmwareVars, stickVars
  <2>3. CASE IsrPush
    <3>1. cache' \in Seq(Events) /\ Len(cache') <= CacheSize
      BY <2>3, EvtOfPinType, PushEvtType DEF IsrPush, CacheFull
    <3>2. FirmwareTypeOK'
      BY <2>3 DEF IsrPush, FirmwareTypeOK, Rings
    <3>3. last' \in [Buttons -> BOOLEAN] /\ isr' = 0 /\ unheard' \in BOOLEAN
      BY <2>3 DEF IsrPush
    <3> QED BY <2>3, <3>1, <3>2, <3>3 DEF IsrPush, stickVars
  <2>4. CASE IsrOverflow
    BY <2>4 DEF IsrOverflow, FirmwareTypeOK, Stopped, btnVars, cacheVars, pinVars, stickVars
  <2>5. CASE HandlerEnter
    BY <2>5 DEF HandlerEnter, EnterButtonHandler, FirmwareTypeOK, ButtonHandler, btnVars,
                cacheVars, pinVars, stickVars
  <2>6. CASE DisconnectedUpdate
    BY <2>6 DEF DisconnectedUpdate, HandlerDisconnected, FirmwareTypeOK, Elsewhere, pinVars,
                stickVars
  <2>7. CASE HandlerRead
    <3>1. seen' \in Events \union {NotRead, PB1_RELEASE_EM, StrayByte}
      <4>1. CASE cache = <<>>
        BY <2>7, <4>1 DEF HandlerRead
      <4>2. CASE cache # <<>>
        BY <2>7, <4>2 DEF HandlerRead
      <4> QED BY <4>1, <4>2
    <3> QED BY <2>7, <3>1 DEF HandlerRead, FirmwareTypeOK, firmwareVars, pinVars, stickVars
  <2>8. CASE HandlerReport
    <3>1. FirmwareTypeOK'
      BY <2>8 DEF HandlerReport, SendReport, FirmwareTypeOK, ButtonHandler, Stopped
    <3>2. stick' \in 0 .. StickNum - 1 /\ value' \in 0 .. ValueNum - 1
      BY <2>8 DEF HandlerReport
    <3> QED BY <2>8, <3>1, <3>2 DEF HandlerReport, cacheVars, pinVars
  <2>9. CASE HandlerClear
    <3>1. FirmwareTypeOK'
      BY <2>9 DEF HandlerClear, FirmwareTypeOK, Elsewhere
    <3>2. unheard' \in BOOLEAN
      BY <2>9 DEF HandlerClear
    <3>3. /\ cache' \in Seq(Events) /\ Len(cache') <= CacheSize
          /\ seen' \in Events \union {NotRead, PB1_RELEASE_EM, StrayByte}
      BY <2>9 DEF HandlerClear, ClearedCache
    <3> QED BY <2>9, <3>1, <3>2, <3>3 DEF HandlerClear, pinVars, stickVars
  <2>10. CASE Boot \/ LinkChanges \/ BtHandler \/ BtStops
    <3>1. FirmwareTypeOK'
      BY <2>10, SharedStepType
    <3>2. UNCHANGED btnVars \/ ArmButtons
      BY <2>10 DEF Boot, LinkChanges, BtHandler, BtStops
    <3>3. CASE UNCHANGED btnVars
      BY <3>1, <3>3 DEF btnVars, cacheVars, pinVars, stickVars
    <3>4. CASE ArmButtons
      BY <3>1, <3>4 DEF ArmButtons, cacheVars, stickVars
    <3> QED BY <3>2, <3>3, <3>4
  <2>11. CASE ButtonReset
    <3> USE <2>11 DEF ButtonReset, ButtonPowerOn, FirmwarePowerOn
    <3>1. sig' \in BOOLEAN /\ link' \in BOOLEAN /\ armed' \in BOOLEAN /\ unheard' \in BOOLEAN
      BY DEF ArmedAtPowerOn
    <3>2. FirmwareTypeOK'
      <4>1. mcu' \in {"running"} \union Stopped /\ pc' \in ButtonHandler \union Elsewhere
        BY DEF Elsewhere
      <4>2. conn_handle' \in {0, Handle, INVALID_HANDLE} /\ report_ccc' \in 0 .. 3
        OBVIOUS
      <4> QED BY <3>1, <4>1, <4>2 DEF FirmwareTypeOK
    <3>3. /\ high' \in [Buttons -> BOOLEAN]
          /\ irq' \in [Buttons -> BOOLEAN]
          /\ last' \in [Buttons -> BOOLEAN]
      OBVIOUS
    <3>4. /\ isr' \in Buttons \union {0}
          /\ cache' \in Seq(Events) /\ Len(cache') <= CacheSize
          /\ seen' \in Events \union {NotRead, PB1_RELEASE_EM, StrayByte}
          /\ stick' \in 0 .. StickNum - 1
          /\ value' \in 0 .. ValueNum - 1
      OBVIOUS
    <3> QED BY <3>1, <3>2, <3>3, <3>4
  <2>12. CASE UNCHANGED buttonVars
    BY <2>12 DEF buttonVars, firmwareVars, btnVars, cacheVars, pinVars, stickVars, FirmwareTypeOK
  <2> QED BY <2>1, <2>2, <2>3, <2>4, <2>5, <2>6, <2>7, <2>8, <2>9, <2>10, <2>11, <2>12
          DEF ButtonNext, Interrupt, ButtonUpdate
<1> QED BY <1>1, <1>2, PTL DEF ButtonSteps

-----------------------------------------------------------------------------
(* The invariants *)

\* Steps that are neither an edge, nor an interrupt, nor the button handler, nor a
\* reset leave the pins and the cache alone.
LEMMA OtherSteps ==
    ASSUME Boot \/ LinkChanges \/ BtHandler \/ BtStops \/ UNCHANGED buttonVars
    PROVE  /\ UNCHANGED <<high, irq, isr, last, cache, unheard, sig>>
           /\ pc \in ButtonHandler => pc' = pc
  BY DEF Boot, ArmButtons, LinkChanges, BtHandler, BtStops, buttonVars, firmwareVars, btnVars,
         cacheVars, pinVars, stickVars, Elsewhere, ButtonHandler

\* Only a push adds to the cache, and it keeps equal events apart.
LEMMA SpacedRepeatsKept == ButtonSteps => []SpacedRepeats
<1>1. ButtonInit => SpacedRepeats
  BY DEF ButtonInit, SpacedRepeats, Spaced
<1>2. ButtonTypeOK /\ SpacedRepeats /\ [ButtonNext]_buttonVars => SpacedRepeats'
  <2> SUFFICES ASSUME ButtonTypeOK, SpacedRepeats, [ButtonNext]_buttonVars
               PROVE  SpacedRepeats'
    OBVIOUS
  <2>1. CASE IsrPush
    <3>1. EvtOfPin(isr) \in Events /\ cache \in Seq(Events)
      BY <2>1, EvtOfPinType, BtnNumAssumption DEF IsrPush, ButtonTypeOK
    <3> QED BY <2>1, <3>1, PushEvtSpaced DEF IsrPush, SpacedRepeats
  <2>2. CASE cache' = <<>>
    BY <2>2 DEF SpacedRepeats, Spaced
  <2>3. CASE UNCHANGED cache
    BY <2>3 DEF SpacedRepeats
  <2>4. HandlerClear \/ ButtonReset => cache' = <<>>
    BY DEF HandlerClear, ClearedCache, ButtonReset, ButtonPowerOn
  <2>5. (\E b \in Buttons : Edge(b) \/ IsrEnter(b)) \/ IsrOverflow => UNCHANGED cache
    BY DEF Edge, IsrEnter, IsrOverflow, btnVars, cacheVars
  <2>6. HandlerEnter \/ DisconnectedUpdate \/ HandlerRead \/ HandlerReport => UNCHANGED cache
    BY DEF HandlerEnter, DisconnectedUpdate, HandlerDisconnected, HandlerRead, HandlerReport,
           btnVars, cacheVars
  <2> QED BY <2>1, <2>2, <2>3, <2>4, <2>5, <2>6, OtherSteps
          DEF ButtonNext, Interrupt, ButtonUpdate
<1> QED BY <1>1, <1>2, ButtonTypesKept, PTL DEF ButtonSteps

\* A flag is lowered by the interrupt that then reads the pin.
LEMMA LevelTrackedKept == ButtonSteps => []LevelTracked
<1>1. ButtonInit => LevelTracked
  BY DEF ButtonInit, LevelTracked
<1>2. ButtonTypeOK /\ LevelTracked /\ [ButtonNext]_buttonVars => LevelTracked'
  <2> SUFFICES ASSUME ButtonTypeOK, LevelTracked, [ButtonNext]_buttonVars,
                      NEW c \in Buttons, high'[c] # last'[c]
               PROVE  irq'[c] \/ isr' = c
    BY DEF LevelTracked
  <2> USE DEF ButtonTypeOK, LevelTracked
  <2>1. ASSUME NEW b \in Buttons, Edge(b) PROVE irq'[c] \/ isr' = c
    <3>1. CASE ~armed
      <4>1. CASE b = c
        BY <2>1, <3>1, <4>1 DEF Edge
      <4>2. CASE b # c
        BY <2>1, <3>1, <4>2 DEF Edge, EdgeRaisesFlag, cacheVars
      <4> QED BY <4>1, <4>2
    <3>2. CASE armed
      <4>1. CASE b = c
        BY <2>1, <3>2, <4>1 DEF Edge, EdgeRaisesFlag
      <4>2. CASE b # c
        BY <2>1, <3>2, <4>2 DEF Edge, EdgeRaisesFlag, cacheVars
      <4> QED BY <4>1, <4>2
    <3> QED BY <3>1, <3>2
  <2>2. ASSUME NEW b \in Buttons, IsrEnter(b) PROVE irq'[c] \/ isr' = c
    BY <2>2 DEF IsrEnter, Buttons
  <2>3. CASE IsrPush
    BY <2>3 DEF IsrPush
  <2>4. CASE ButtonReset
    BY <2>4 DEF ButtonReset, ButtonPowerOn
  <2>5. CASE UNCHANGED <<high, irq, isr, last>>
    BY <2>5
  <2>6. IsrOverflow \/ ButtonUpdate => UNCHANGED <<high, irq, isr, last>>
    BY DEF IsrOverflow, ButtonUpdate, HandlerEnter, DisconnectedUpdate, HandlerDisconnected,
           HandlerRead, HandlerReport, HandlerClear, btnVars, cacheVars, pinVars
  <2> QED BY <2>1, <2>2, <2>3, <2>4, <2>5, <2>6, OtherSteps DEF ButtonNext, Interrupt
<1> QED BY <1>1, <1>2, ButtonTypesKept, PTL DEF ButtonSteps

\* The push rings after it stores; the handler takes the signal before it looks.
LEMMA SignalCoversPushKept == ButtonSteps => []SignalCoversPush
<1>1. ButtonInit => SignalCoversPush
  BY DEF ButtonInit, SignalCoversPush
<1>2. SignalCoversPush /\ [ButtonNext]_buttonVars => SignalCoversPush'
  <2> SUFFICES ASSUME SignalCoversPush, [ButtonNext]_buttonVars
               PROVE  SignalCoversPush'
    OBVIOUS
  <2> USE DEF SignalCoversPush
  <2>1. (\E b \in Buttons : Edge(b) \/ IsrEnter(b)) \/ IsrOverflow => UNCHANGED <<unheard, sig, pc>>
    BY DEF Edge, IsrEnter, IsrOverflow, firmwareVars, btnVars, cacheVars
  <2>2. IsrPush => sig'
    BY DEF IsrPush, Rings
  <2>3. HandlerEnter \/ HandlerReport => pc' \in ButtonHandler
    BY DEF HandlerEnter, EnterButtonHandler, HandlerReport, ButtonHandler
  <2>4. DisconnectedUpdate \/ HandlerRead \/ HandlerClear \/ ButtonReset => ~unheard'
    BY DEF DisconnectedUpdate, HandlerDisconnected, HandlerRead, HandlerClear, ButtonReset,
           ButtonPowerOn
  <2> QED BY <2>1, <2>2, <2>3, <2>4, OtherSteps DEF ButtonNext, Interrupt, ButtonUpdate
<1> QED BY <1>1, <1>2, PTL DEF ButtonSteps

-----------------------------------------------------------------------------
(* What MCButton checks *)

\* Whatever order interrupts, handler steps, radio and resets come in, the state
\* stays well typed, and the cache never outgrows its array.
THEOREM ButtonTypeCorrect == ButtonSpec => []ButtonTypeOK
  BY ButtonTypesKept, PTL DEF ButtonSpec, ButtonSteps

\* Two equal events never sit in the cache without the event the duplicate filter
\* stops at between them, whatever the handler clears and the interrupt pushes.
THEOREM SpacedRepeatsHolds == ButtonSpec => []SpacedRepeats
  BY SpacedRepeatsKept, PTL DEF ButtonSpec, ButtonSteps

\* A pin whose level its callback has not read has an interrupt pending or running,
\* through edges that land between the clearing of a flag and the reading of the pin.
THEOREM LevelTrackedHolds == ButtonSpec => []LevelTracked
  BY LevelTrackedKept, PTL DEF ButtonSpec, ButtonSteps

\* A cached event the handler has not looked at keeps a signal pending or the
\* handler running, wherever the interrupt cuts the handler.
THEOREM SignalCoversPushHolds == ButtonSpec => []SignalCoversPush
  BY SignalCoversPushKept, PTL DEF ButtonSpec, ButtonSteps

=============================================================================
