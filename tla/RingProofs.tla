----------------------------- MODULE RingProofs -----------------------------
(***************************************************************************)
(* The receive ring, for every length.  The ring's content is described by *)
(* how far a slot is after the one to be read next, which turns the        *)
(* indices modulo the length into differences; every step then pushes a    *)
(* byte behind the held ones, pops the first of them, or moves nothing.    *)
(***************************************************************************)
EXTENDS SleepProofs, FiniteSetTheorems

\* The slots of the n bytes from r on.
HeldFrom(r, n) == {(r + k) % rx_buffer_length : k \in 0 .. n - 1}

\* How far slot s is after slot r.
After(r, s) == IF s >= r THEN s - r ELSE s + rx_buffer_length - r

\* Indices within two turns of the ring.
LEMMA ModSlot ==
    ASSUME NEW L \in Nat \ {0}, NEW i \in 0 .. 2 * L - 1
    PROVE  i % L = IF i < L THEN i ELSE i - L
<1>1. CASE i < L
    BY <1>1
<1>2. CASE i >= L
    <2>1. i = 1 * L + (i - L) /\ i - L \in 0 .. L - 1
        BY <1>2
    <2> QED
        BY <1>2
<1> QED
    BY <1>1, <1>2

\* The held slots are those less than n after the first.
LEMMA HeldSlots ==
    ASSUME NEW r \in Slots, NEW n \in 0 .. rx_buffer_length, NEW s
    PROVE  s \in HeldFrom(r, n) <=> s \in Slots /\ After(r, s) < n
<1> DEFINE L == rx_buffer_length
<1>1. L \in Nat \ {0} /\ r \in 0 .. L - 1
    BY RingAssumption DEF Slots
<1> HIDE DEF L
<1>2. \A k \in 0 .. n - 1 : (r + k) % L = IF r + k < L THEN r + k ELSE r + k - L
    <2> SUFFICES ASSUME NEW k \in 0 .. n - 1
                 PROVE (r + k) % L = IF r + k < L THEN r + k ELSE r + k - L
        OBVIOUS
    <2>1. r + k \in 0 .. 2 * L - 1
        BY <1>1 DEF L
    <2>2. \A i \in 0 .. 2 * L - 1 : i % L = IF i < L THEN i ELSE i - L
        BY <1>1, ModSlot
    <2> QED
        BY <1>1, <2>1, <2>2 DEF L
<1>3. ASSUME s \in HeldFrom(r, n) PROVE s \in Slots /\ After(r, s) < n
    <2>1. PICK k \in 0 .. n - 1 : s = (r + k) % L
        BY <1>3 DEF HeldFrom, L
    <2>2. s = IF r + k < L THEN r + k ELSE r + k - L
        BY <2>1, <1>2
    <2> QED
        BY <1>1, <2>2 DEF Slots, After, L
<1>4. ASSUME s \in Slots, After(r, s) < n PROVE s \in HeldFrom(r, n)
    <2>1. After(r, s) \in 0 .. n - 1
        BY <1>1, <1>4 DEF Slots, After, L
    <2>2. s = IF r + After(r, s) < L THEN r + After(r, s) ELSE r + After(r, s) - L
        BY <1>1, <1>4 DEF Slots, After, L
    <2>3. s = (r + After(r, s)) % L
        BY <1>2, <2>1, <2>2
    <2> QED
        BY <2>1, <2>3 DEF HeldFrom, L
<1> QED
    BY <1>3, <1>4

\* A slot is after itself last, and the slots after the next one of r are those
\* after r but r itself.
LEMMA NextSlot ==
    ASSUME NEW r \in Slots
    PROVE  /\ Next1(r) \in Slots
           /\ After(r, r) = 0
           /\ \A s \in Slots \ {r} : After(Next1(r), s) = After(r, s) - 1
           /\ After(Next1(r), r) = rx_buffer_length - 1
BY RingAssumption DEF Slots, Next1, After

\* The slot n after r.
LEMMA SlotAfter ==
    ASSUME NEW r \in Slots, NEW n \in 0 .. rx_buffer_length
    PROVE  LET w == (r + n) % rx_buffer_length
           IN /\ w \in Slots
              /\ n < rx_buffer_length => /\ After(r, w) = n
                                        /\ \A s \in Slots : After(r, s) = n => s = w
                                        /\ Next1(w) = (r + n + 1) % rx_buffer_length
<1> DEFINE L == rx_buffer_length
           w == (r + n) % L
<1>1. L \in Nat \ {0} /\ r \in 0 .. L - 1 /\ n \in 0 .. L
    BY RingAssumption DEF Slots
<1>2. \A i \in 0 .. 2 * L - 1 : i % L = IF i < L THEN i ELSE i - L
    BY <1>1, ModSlot DEF L
<1>3. r + n \in 0 .. 2 * L - 1
    BY <1>1
<1>4. w = IF r + n < L THEN r + n ELSE r + n - L
    BY <1>1, <1>2, <1>3
<1>5. w \in Slots
    BY <1>1, <1>4 DEF Slots
<1>6. ASSUME n < L
      PROVE  /\ After(r, w) = n
             /\ \A s \in Slots : After(r, s) = n => s = w
             /\ Next1(w) = (r + n + 1) % L
    <2>1. After(r, w) = n /\ \A s \in Slots : After(r, s) = n => s = w
        BY <1>1, <1>4, <1>6 DEF After, Slots
    <2>2. r + n + 1 \in 0 .. 2 * L - 1
        BY <1>1, <1>6
    <2>3. (r + n + 1) % L = IF r + n + 1 < L THEN r + n + 1 ELSE r + n + 1 - L
        BY <1>1, <1>2, <2>2
    <2>4. Next1(w) = (r + n + 1) % L
        BY <1>1, <1>4, <1>6, <2>3 DEF Next1
    <2> QED
        BY <2>1, <2>4
<1> QED
    BY <1>5, <1>6

\* A byte pushed behind the n held ones.
LEMMA PushHeld ==
    ASSUME NEW r \in Slots, NEW n \in 0 .. rx_buffer_length - 1,
           NEW w, w = (r + n) % rx_buffer_length
    PROVE  /\ w \notin HeldFrom(r, n)
           /\ HeldFrom(r, n + 1) = HeldFrom(r, n) \union {w}
           /\ Next1(w) = (r + n + 1) % rx_buffer_length
<1>1. n \in 0 .. rx_buffer_length /\ n + 1 \in 0 .. rx_buffer_length /\ n < rx_buffer_length
    BY RingAssumption
<1>2. /\ w \in Slots /\ After(r, w) = n
      /\ \A s \in Slots : After(r, s) = n => s = w
      /\ Next1(w) = (r + n + 1) % rx_buffer_length
    BY <1>1, SlotAfter
<1>3. \A s \in Slots : After(r, s) \in Int
    BY RingAssumption DEF Slots, After
<1>4. \A s : s \in HeldFrom(r, n) <=> s \in Slots /\ After(r, s) < n
    BY <1>1, HeldSlots
<1>5. \A s : s \in HeldFrom(r, n + 1) <=> s \in Slots /\ After(r, s) < n + 1
    BY <1>1, HeldSlots
<1>6. \A s \in Slots : After(r, s) < n + 1 <=> After(r, s) < n \/ After(r, s) = n
    BY <1>1, <1>3
<1>7. w \notin HeldFrom(r, n)
    BY <1>1, <1>2, <1>4
<1>8. HeldFrom(r, n + 1) = HeldFrom(r, n) \union {w}
    BY <1>2, <1>4, <1>5, <1>6
<1> QED
    BY <1>2, <1>7, <1>8

\* The first of the n held bytes popped.
LEMMA PopHeld ==
    ASSUME NEW r \in Slots, NEW n \in 1 .. rx_buffer_length
    PROVE  /\ r \in HeldFrom(r, n)
           /\ HeldFrom(Next1(r), n - 1) = HeldFrom(r, n) \ {r}
           /\ (r + n) % rx_buffer_length = (Next1(r) + (n - 1)) % rx_buffer_length
<1>1. n \in 0 .. rx_buffer_length /\ n - 1 \in 0 .. rx_buffer_length
    BY RingAssumption
<1>2. /\ Next1(r) \in Slots /\ After(r, r) = 0
      /\ \A s \in Slots \ {r} : After(Next1(r), s) = After(r, s) - 1
      /\ After(Next1(r), r) = rx_buffer_length - 1
    BY NextSlot
<1>3. \A s \in Slots : After(r, s) \in Int
    BY RingAssumption DEF Slots, After
<1>4. \A s : s \in HeldFrom(r, n) <=> s \in Slots /\ After(r, s) < n
    BY <1>1, HeldSlots
<1>5. \A s : s \in HeldFrom(Next1(r), n - 1) <=> s \in Slots /\ After(Next1(r), s) < n - 1
    BY <1>1, <1>2, HeldSlots
<1>6. r \in HeldFrom(r, n)
    BY <1>2, <1>4
<1>7. \A s \in Slots : After(Next1(r), s) < n - 1 <=> s # r /\ After(r, s) < n
    BY <1>2, <1>3, RingAssumption
<1>8. HeldFrom(Next1(r), n - 1) = HeldFrom(r, n) \ {r}
    BY <1>4, <1>5, <1>7
<1>9. (r + n) % rx_buffer_length = (Next1(r) + (n - 1)) % rx_buffer_length
    <2> DEFINE L == rx_buffer_length
    <2>1. L \in Nat \ {0} /\ r \in 0 .. L - 1 /\ n \in 1 .. L
        BY RingAssumption DEF Slots
    <2>2. \A i \in 0 .. 2 * L - 1 : i % L = IF i < L THEN i ELSE i - L
        BY <2>1, ModSlot DEF L
    <2>3. CASE r + 1 = L
        <3>1. Next1(r) + (n - 1) = n - 1 /\ r + n = L + (n - 1)
            BY <2>1, <2>3 DEF Next1
        <3>2. n - 1 \in 0 .. 2 * L - 1 /\ L + (n - 1) \in 0 .. 2 * L - 1 /\ n - 1 < L
            BY <2>1
        <3>3. (n - 1) % L = n - 1 /\ (L + (n - 1)) % L = n - 1
            BY <2>1, <2>2, <3>2
        <3> QED
            BY <3>1, <3>3
    <2>4. CASE r + 1 # L
        <3>1. Next1(r) + (n - 1) = r + n
            BY <2>1, <2>4 DEF Next1
        <3> QED
            BY <3>1
    <2> QED
        BY <2>3, <2>4
<1> QED
    BY <1>6, <1>8, <1>9

-----------------------------------------------------------------------------
\* The bytes in the ring: a read has taken its byte before it counts it.
Held == rx_count - (IF pc = "popped" THEN 1 ELSE 0)

\* What a step does to the ring: an interrupt pushes a byte where there is room,
\* a read pops one, and no other step moves it.
Pushes ==
    /\ Held < rx_buffer_length /\ Held' = Held + 1
    /\ rx_buffer' = rx_buffer \union {rx_write_index}
    /\ rx_write_index' = Next1(rx_write_index)
    /\ UNCHANGED rx_read_index

Pops ==
    /\ Held > 0 /\ Held' = Held - 1
    /\ rx_buffer' = rx_buffer \ {rx_read_index}
    /\ rx_read_index' = Next1(rx_read_index)
    /\ UNCHANGED rx_write_index

RingKept == UNCHANGED <<rx_buffer, rx_read_index, rx_write_index, Held>>

\* Every step is one of the three.
LEMMA RingSteps == IInv /\ [SleepNext]_vars => Pushes \/ Pops \/ RingKept
<1> SUFFICES ASSUME IInv, [SleepNext]_vars PROVE Pushes \/ Pops \/ RingKept
    OBVIOUS
<1>1. rx_count \in Nat /\ rx_count <= rx_buffer_length /\ (pc = "popped" => rx_count > 0)
    BY DEF IInv, RingType, RingInv
<1> USE DEF ringVars, rxVars, txVars, uartVars, powerVars
<1>2. CASE Step("app", "popped") /\ PopByte
    BY <1>1, <1>2 DEF Step, PopByte, Pops, Held
<1>3. CASE Step("popped", "enable_rx") /\ PopCounted
    BY <1>1, <1>3 DEF Step, PopCounted, RingKept, Held
<1>4. CASE UartIsr
    <2>1. UNCHANGED pc
        BY <1>4 DEF UartIsr, Taken
    <2>2. CASE rx_valid /\ SpaceAvail
        <3>1. RxData /\ rx_count < rx_buffer_length
            BY <1>4, <2>2 DEF UartIsr, UsartIrqHandler, SpaceAvail
        <3> QED
            BY <1>1, <2>1, <2>2, <3>1, RingAssumption DEF RxData, Pushes, Held
    <2>3. CASE ~(rx_valid /\ SpaceAvail)
        <3>1. UNCHANGED ringVars
            BY <1>4, <2>3 DEF UartIsr, UsartIrqHandler, RxData
        <3> QED
            BY <2>1, <3>1 DEF RingKept, Held
    <2> QED
        BY <2>2, <2>3
<1>5. ASSUME UNCHANGED ringVars, (pc = "popped") <=> (pc' = "popped") PROVE RingKept
    BY <1>5 DEF RingKept, Held
<1>6. CASE HandleSignal \/ AppTimer \/ AppRequirement \/ RxRestriction \/ EndWrite
    BY <1>5, <1>6 DEF HandleSignal, AppTimer, AppRequirement, RxRestriction, EndWrite, Step,
        SetRxRestriction, HoldRequirement
<1>7. CASE WriteStep
    BY <1>5, <1>7 DEF WriteStep, Step, TakeIdle, ReleaseLast, UsartTx, EnableTxc, MarkBusy
<1>8. CASE Step("enable_rx", "app") /\ EnableRx
    BY <1>5, <1>8 DEF Step, EnableRx
<1>9. CASE FallAsleep \/ Wake \/ AfterWake
    BY <1>5, <1>9 DEF FallAsleep, Wake, AfterWake
<1>10. CASE SignalIsr \/ EarlyTimerIsr \/ AppTimerIsr
    BY <1>5, <1>10 DEF SignalIsr, EarlyTimerIsr, AppTimerIsr, Taken
<1>11. CASE Line \/ RaiseSignal \/ Tick
    BY <1>5, <1>11 DEF Line, ByteSent, ByteReceived, RaiseSignal, Tick
<1>12. CASE UNCHANGED vars
    BY <1>5, <1>12 DEF vars
<1> QED
    BY <1>2, <1>3, <1>4, <1>6, <1>7, <1>8, <1>9, <1>10, <1>11, <1>12
       DEF SleepNext, Program, ReadStep, Isr

\* A step keeps the ring whole.
LEMMA RingStep == IInv /\ IInv' /\ RingSound /\ [SleepNext]_vars => RingSound'
<1> SUFFICES ASSUME IInv, IInv', RingSound, [SleepNext]_vars PROVE RingSound'
    OBVIOUS
<1> DEFINE r == rx_read_index
           L == rx_buffer_length
<1>1. /\ Cardinality(rx_buffer) = Held
      /\ rx_buffer = HeldFrom(r, Held)
      /\ rx_write_index = (r + Held) % L
    <2>1. r \in Nat /\ rx_count \in Nat
        BY RingAssumption DEF IInv, RingType, Slots
    <2>2. r + rx_count - (IF pc = "popped" THEN 1 ELSE 0) = r + Held
        BY <2>1 DEF Held
    <2> QED
        BY <2>2 DEF RingSound, Held, HeldFrom
<1>2. r \in Slots /\ Held \in 0 .. L
    BY RingAssumption DEF IInv, RingType, RingInv, Held
<1>3. IsFiniteSet(rx_buffer)
    <2>1. IsFiniteSet(Slots)
        BY RingAssumption, FS_Interval DEF Slots
    <2> QED
        BY <2>1, FS_Subset DEF IInv, RingType
<1>4. SUFFICES /\ Cardinality(rx_buffer') = Held'
               /\ rx_buffer' = HeldFrom(r', Held')
               /\ rx_write_index' = (r' + Held') % L
    <2>1. rx_count' <= rx_buffer_length
        BY DEF IInv, RingInv
    <2>2. r' \in Nat /\ rx_count' \in Nat
        BY RingAssumption DEF IInv, RingType, Slots
    <2>3. r' + rx_count' - (IF pc' = "popped" THEN 1 ELSE 0) = r' + Held'
        BY <2>2 DEF Held
    <2> QED
        BY <1>4, <2>1, <2>3 DEF RingSound, Held, HeldFrom
<1>5. CASE Pushes
    <2>1. Held \in 0 .. L - 1
        BY <1>2, <1>5, RingAssumption DEF Pushes
    <2>2. /\ rx_write_index \notin rx_buffer
          /\ HeldFrom(r, Held + 1) = rx_buffer \union {rx_write_index}
          /\ Next1(rx_write_index) = (r + Held + 1) % L
        BY <1>1, <1>2, <2>1, PushHeld
    <2>3. Cardinality(rx_buffer \union {rx_write_index}) = Cardinality(rx_buffer) + 1
        BY <1>3, <2>2, FS_AddElement
    <2>4. r + Held + 1 = r + (Held + 1)
        BY <1>2, RingAssumption DEF Slots
    <2> QED
        BY <1>1, <1>5, <2>2, <2>3, <2>4 DEF Pushes
<1>6. CASE Pops
    <2>1. Held \in 1 .. L
        BY <1>2, <1>6, RingAssumption DEF Pops
    <2>2. /\ r \in rx_buffer
          /\ HeldFrom(Next1(r), Held - 1) = rx_buffer \ {r}
          /\ (r + Held) % L = (Next1(r) + (Held - 1)) % L
        BY <1>1, <1>2, <2>1, PopHeld
    <2>3. Cardinality(rx_buffer \ {r}) = Cardinality(rx_buffer) - 1
        BY <1>3, <2>2, FS_RemoveElement
    <2> QED
        BY <1>1, <1>6, <2>2, <2>3 DEF Pops
<1>7. CASE RingKept
    BY <1>1, <1>7 DEF RingKept
<1> QED
    BY <1>5, <1>6, <1>7, RingSteps

\* The ring holds, in order, what was received and not read, and no interrupt in
\* the middle of a read loses or doubles a byte, for every length of the ring.
THEOREM RingSoundHolds == SleepSpec => []RingSound
<1>1. SleepInit => RingSound
    <2> SUFFICES ASSUME SleepInit PROVE RingSound
        OBVIOUS
    <2>1. /\ rx_buffer = {} /\ rx_read_index = 0 /\ rx_write_index = 0 /\ rx_count = 0
          /\ pc = "app"
        BY DEF SleepInit, UartInit
    <2>2. 0 % rx_buffer_length = 0
        BY RingAssumption
    <2>3. Cardinality({}) = 0
        BY FS_EmptySet
    <2>4. {(0 + k) % rx_buffer_length : k \in 0 .. 0 - 0 - 1} = {}
        OBVIOUS
    <2> QED
        BY <2>1, <2>2, <2>3, <2>4, RingAssumption DEF RingSound
<1> QED
    BY <1>1, RingStep, Invariance, PTL DEF SleepSpec

=============================================================================
