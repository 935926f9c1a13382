-------------------------- MODULE DeltaListProofs --------------------------
(***************************************************************************)
(* Lemmas about the sleep timer's delta list: the times its deltas add up  *)
(* to, and what delta_list_insert_timer, delta_list_remove_timer and       *)
(* update_first_timer_delta do to them.                                    *)
(***************************************************************************)
EXTENDS SleepTimerProps, WellFoundedInduction, TLAPS

-----------------------------------------------------------------------------
(* Induction *)

\* A nonempty set of naturals has a least element.
LEMMA LeastNat ==
    ASSUME NEW T \in SUBSET Nat, T # {}
    PROVE  \E x \in T : \A y \in T : x <= y
<1> DEFINE R == OpToRel(<, Nat)
<1>1. IsWellFoundedOn(R, Nat)
    BY NatLessThanWellFounded
<1>2. \A x, y \in Nat : x < y => <<x, y>> \in R
    BY DEF OpToRel
<1> HIDE DEF R
<1>3. \E x \in T : \A y \in T : ~ (<<y, x>> \in R)
    BY <1>1, WFMin
<1>4. PICK x \in T : \A y \in T : ~ (<<y, x>> \in R)
    BY <1>3
<1>5. \A y \in T : x <= y
    <2> TAKE y \in T
    <2>1. x \in Nat /\ y \in Nat
        OBVIOUS
    <2>2. ~ (y < x)
        BY <1>2, <1>4, <2>1
    <2> QED
        BY <2>1, <2>2
<1> QED
    BY <1>5

\* A set that holds 0 and, with a number, the next one holds all up to N.
LEMMA UpTo ==
    ASSUME NEW N \in Nat, NEW T, 0 \in T,
           \A n \in 0 .. N - 1 : n \in T => n + 1 \in T
    PROVE  0 .. N \subseteq T
<1> DEFINE B == {n \in 0 .. N : n \notin T}
<1>1. SUFFICES ASSUME B # {}
               PROVE  FALSE
    OBVIOUS
<1>2. B \in SUBSET Nat
    OBVIOUS
<1>3. PICK x \in B : \A y \in B : x <= y
    <2> HIDE DEF B
    <2> QED
        BY <1>1, <1>2, LeastNat
<1>4. x # 0 /\ x - 1 \in 0 .. N - 1
    BY <1>3
<1>5. x - 1 \in T
    <2>1. x - 1 \notin B
        BY <1>3, <1>4
    <2> QED
        BY <1>4, <2>1
<1> QED
    BY <1>3, <1>4, <1>5

-----------------------------------------------------------------------------
(* The times the deltas add up to *)

\* Names the provers do not look into when they apply a lemma.
Lists == Seq(Timers)

Deltas == [Timers -> Int]

\* The definition of Elapsed is a recursion along the list, and has a solution.
LEMMA SumExists ==
    ASSUME NEW l \in Lists, NEW d \in Deltas
    PROVE  \E f : f = [j \in 0 .. Len(l) |-> IF j = 0 THEN 0 ELSE f[j - 1] + d[l[j]]]
<1> USE DEF Lists, Deltas
<1> DEFINE Solves(f, n) == f = [j \in 0 .. n |-> IF j = 0 THEN 0 ELSE f[j - 1] + d[l[j]]]
           T == {n \in Nat : \E f : Solves(f, n)}
<1>1. 0 \in T
    <2> DEFINE f == [j \in 0 .. 0 |-> 0]
    <2>1. Solves(f, 0)
        OBVIOUS
    <2> QED
        BY <2>1
<1>2. ASSUME NEW n \in 0 .. Len(l) - 1, n \in T
      PROVE  n + 1 \in T
    <2>1. PICK f : Solves(f, n)
        BY <1>2
    <2> DEFINE g == [j \in 0 .. n + 1 |-> IF j = n + 1 THEN f[n] + d[l[n + 1]] ELSE f[j]]
    <2>2. \A j \in 0 .. n + 1 : g[j] = IF j = 0 THEN 0 ELSE g[j - 1] + d[l[j]]
        <3> TAKE j \in 0 .. n + 1
        <3>1. n \in Nat
            OBVIOUS
        <3>2. CASE j = n + 1
            BY <3>1, <3>2
        <3>3. CASE j # n + 1
            <4>1. j \in 0 .. n
                BY <3>1, <3>3
            <4>2. f[j] = IF j = 0 THEN 0 ELSE f[j - 1] + d[l[j]]
                BY <2>1, <4>1
            <4> QED
                BY <3>1, <3>3, <4>1, <4>2
        <3> QED
            BY <3>2, <3>3
    <2>3. Solves(g, n + 1)
        BY <2>2
    <2>4. n + 1 \in Nat
        OBVIOUS
    <2> HIDE DEF g
    <2> QED
        BY <2>3, <2>4
<1>3. Len(l) \in Nat
    OBVIOUS
<1> HIDE DEF T
<1>4. 0 .. Len(l) \subseteq T
    BY <1>1, <1>2, <1>3, UpTo
<1>5. Len(l) \in T
    BY <1>3, <1>4
<1> QED
    BY <1>5 DEF T

\* Its two equations.
LEMMA ElapsedEquations ==
    ASSUME NEW l \in Lists, NEW d \in Deltas
    PROVE  /\ Elapsed(l, d, 0) = 0
           /\ \A i \in 1 .. Len(l) : Elapsed(l, d, i) = Elapsed(l, d, i - 1) + d[l[i]]
<1> USE DEF Lists, Deltas
<1> DEFINE Solves(f) == f = [j \in 0 .. Len(l) |-> IF j = 0 THEN 0 ELSE f[j - 1] + d[l[j]]]
           sum == CHOOSE f : Solves(f)
<1>1. \E f : Solves(f)
    BY SumExists
<1>2. Solves(sum)
    BY <1>1
<1>3. \A i : Elapsed(l, d, i) = sum[i]
    BY DEF Elapsed
<1> HIDE DEF sum
<1>4. Len(l) \in Nat
    OBVIOUS
<1>5. \A j \in 0 .. Len(l) : sum[j] = IF j = 0 THEN 0 ELSE sum[j - 1] + d[l[j]]
    BY <1>2
<1>6. sum[0] = 0
    BY <1>4, <1>5
<1>7. \A i \in 1 .. Len(l) : sum[i] = sum[i - 1] + d[l[i]]
    BY <1>4, <1>5
<1> QED
    BY <1>3, <1>6, <1>7, Zenon

\* The times are integers.
LEMMA ElapsedInt ==
    ASSUME NEW l \in Lists, NEW d \in Deltas
    PROVE  \A i \in 0 .. Len(l) : Elapsed(l, d, i) \in Int
<1> USE DEF Lists, Deltas
<1> DEFINE T == {i \in 0 .. Len(l) : Elapsed(l, d, i) \in Int}
<1>1. 0 \in T
    BY ElapsedEquations
<1>2. ASSUME NEW n \in 0 .. Len(l) - 1, n \in T
      PROVE  n + 1 \in T
    <2>1. n + 1 \in 1 .. Len(l) /\ (n + 1) - 1 = n /\ n + 1 \in 0 .. Len(l)
        OBVIOUS
    <2>2. Elapsed(l, d, n + 1) = Elapsed(l, d, n) + d[l[n + 1]]
        BY <2>1, ElapsedEquations
    <2>3. d[l[n + 1]] \in Int /\ Elapsed(l, d, n) \in Int
        BY <1>2, <2>1
    <2> QED
        BY <2>1, <2>2, <2>3
<1>3. Len(l) \in Nat
    OBVIOUS
<1> HIDE DEF T
<1>4. 0 .. Len(l) \subseteq T
    BY <1>1, <1>2, <1>3, UpTo
<1> QED
    BY <1>4 DEF T

\* A time is the one before it and the timer's delta.
LEMMA ElapsedNext ==
    ASSUME NEW l \in Lists, NEW d \in Deltas, NEW x \in 0 .. Len(l) - 1
    PROVE  /\ Elapsed(l, d, x) \in Int /\ d[l[x + 1]] \in Int
           /\ Elapsed(l, d, x + 1) = Elapsed(l, d, x) + d[l[x + 1]]
<1> USE DEF Lists, Deltas
<1>1. x + 1 \in 1 .. Len(l) /\ (x + 1) - 1 = x /\ x \in 0 .. Len(l)
    OBVIOUS
<1>2. Elapsed(l, d, x + 1) = Elapsed(l, d, x) + d[l[x + 1]]
    BY <1>1, ElapsedEquations
<1>3. Elapsed(l, d, x) \in Int
    BY <1>1, ElapsedInt
<1>4. d[l[x + 1]] \in Int
    BY <1>1
<1> QED
    BY <1>2, <1>3, <1>4

\* After the a-th timer of the one list the deltas are those of the other, s
\* places on.
SameFrom(l, d, m, e, a, s) ==
    \A i \in a + 1 .. Len(l) : i + s \in 1 .. Len(m) /\ e[m[i + s]] = d[l[i]]

\* So the times differ by a constant.
LEMMA ElapsedShift ==
    ASSUME NEW l \in Lists, NEW d \in Deltas,
           NEW m \in Lists, NEW e \in Deltas,
           NEW a \in 0 .. Len(l), NEW s \in Int, a + s \in 0 .. Len(m),
           SameFrom(l, d, m, e, a, s)
    PROVE  \A i \in a .. Len(l) :
               Elapsed(m, e, i + s) = Elapsed(l, d, i) + (Elapsed(m, e, a + s) - Elapsed(l, d, a))
<1> USE DEF Lists, Deltas
<1> DEFINE c == Elapsed(m, e, a + s) - Elapsed(l, d, a)
           P(i) == Elapsed(m, e, i + s) = Elapsed(l, d, i) + c
           T == {k \in 0 .. Len(l) - a : P(a + k)}
<1>1. c \in Int
    <2>1. Elapsed(m, e, a + s) \in Int
        BY ElapsedInt
    <2>2. Elapsed(l, d, a) \in Int
        BY ElapsedInt
    <2> QED
        BY <2>1, <2>2
<1>2. 0 \in T
    <2>1. Elapsed(m, e, a + s) \in Int /\ Elapsed(l, d, a) \in Int
        BY ElapsedInt
    <2>2. P(a)
        BY <2>1
    <2> QED
        BY <2>2
<1> HIDE DEF c
<1>3. ASSUME NEW k \in 0 .. (Len(l) - a) - 1, k \in T
      PROVE  k + 1 \in T
    <2> DEFINE x == a + k
               y == x + s
    <2>1. /\ x \in 0 .. Len(l) - 1 /\ a + (k + 1) = x + 1 /\ x + 1 \in a + 1 .. Len(l)
          /\ (x + 1) + s = y + 1 /\ k + 1 \in 0 .. Len(l) - a
          /\ y \in Int /\ Len(m) \in Nat
        OBVIOUS
    <2>2. Elapsed(m, e, y) = Elapsed(l, d, x) + c
        BY <1>3
    <2> HIDE DEF x
    <2>3. (x + 1) + s \in 1 .. Len(m) /\ e[m[(x + 1) + s]] = d[l[x + 1]]
        BY <2>1 DEF SameFrom
    <2>4. y + 1 \in 1 .. Len(m) /\ e[m[y + 1]] = d[l[x + 1]]
        BY <2>1, <2>3
    <2> HIDE DEF y
    <2>5. y \in 0 .. Len(m) - 1
        <3>1. \A u, v \in Int : u + 1 \in 1 .. v => u \in 0 .. v - 1
            OBVIOUS
        <3>2. y \in Int /\ Len(m) \in Int
            BY <2>1
        <3> QED
            BY <2>4, <3>1, <3>2, Zenon
    <2>6. Elapsed(m, e, y + 1) = Elapsed(m, e, y) + e[m[y + 1]]
        BY <2>5, ElapsedNext
    <2>7. /\ Elapsed(l, d, x + 1) = Elapsed(l, d, x) + d[l[x + 1]]
          /\ Elapsed(l, d, x) \in Int /\ d[l[x + 1]] \in Int
        BY <2>1, ElapsedNext
    <2>8. Elapsed(m, e, y + 1) = Elapsed(l, d, x + 1) + c
        <3>1. Elapsed(m, e, y + 1) = (Elapsed(l, d, x) + c) + d[l[x + 1]]
            BY <2>2, <2>4, <2>6
        <3> QED
            BY <1>1, <2>7, <3>1, SMTT(20)
    <2> QED
        BY <2>1, <2>8
<1>4. Len(l) - a \in Nat
    OBVIOUS
<1> HIDE DEF T
<1>5. 0 .. Len(l) - a \subseteq T
    BY <1>2, <1>3, <1>4, UpTo
<1>6. \A i \in a .. Len(l) : P(i)
    <2> TAKE i \in a .. Len(l)
    <2>1. i - a \in 0 .. Len(l) - a /\ a + (i - a) = i
        OBVIOUS
    <2>2. i - a \in T
        BY <1>5, <2>1
    <2>3. P(a + (i - a))
        BY <2>2 DEF T
    <2> QED
        BY <2>1, <2>3
<1> QED
    BY <1>6 DEF c

\* Where the deltas agree up to a timer, the times agree.
SameTo(l, d, m, e, n) == \A i \in 1 .. n : e[m[i]] = d[l[i]]

\* So the times up to there agree.
LEMMA ElapsedSame ==
    ASSUME NEW l \in Lists, NEW d \in Deltas,
           NEW m \in Lists, NEW e \in Deltas,
           NEW n \in Nat, n <= Len(l), n <= Len(m), SameTo(l, d, m, e, n)
    PROVE  \A i \in 0 .. n : Elapsed(m, e, i) = Elapsed(l, d, i)
<1> USE DEF Lists, Deltas
<1> DEFINE T == {k \in 0 .. n : Elapsed(m, e, k) = Elapsed(l, d, k)}
<1>1. 0 \in T
    <2>1. Elapsed(l, d, 0) = 0
        BY ElapsedEquations
    <2>2. Elapsed(m, e, 0) = 0
        BY ElapsedEquations
    <2> QED
        BY <2>1, <2>2
<1>2. ASSUME NEW k \in 0 .. n - 1, k \in T
      PROVE  k + 1 \in T
    <2>1. k \in 0 .. Len(l) - 1 /\ k \in 0 .. Len(m) - 1 /\ k + 1 \in 0 .. n /\ k + 1 \in 1 .. n
        OBVIOUS
    <2>2. Elapsed(l, d, k + 1) = Elapsed(l, d, k) + d[l[k + 1]]
        BY <2>1, ElapsedNext
    <2>3. Elapsed(m, e, k + 1) = Elapsed(m, e, k) + e[m[k + 1]]
        BY <2>1, ElapsedNext
    <2>4. e[m[k + 1]] = d[l[k + 1]]
        BY <2>1 DEF SameTo
    <2>5. Elapsed(m, e, k) = Elapsed(l, d, k)
        BY <1>2
    <2> QED
        BY <2>1, <2>2, <2>3, <2>4, <2>5
<1> HIDE DEF T
<1>3. 0 .. n \subseteq T
    BY <1>1, <1>2, UpTo
<1> QED
    BY <1>3 DEF T

\* With no negative delta they grow along the list.
LEMMA ElapsedGrows ==
    ASSUME NEW l \in Lists, NEW d \in [Timers -> Nat],
           NEW i \in 0 .. Len(l), NEW j \in 0 .. Len(l), i <= j
    PROVE  Elapsed(l, d, i) <= Elapsed(l, d, j)
<1> USE DEF Lists, Deltas
<1> DEFINE T == {k \in 0 .. Len(l) - i : Elapsed(l, d, i) <= Elapsed(l, d, i + k)}
<1>0. d \in [Timers -> Int]
    OBVIOUS
<1>1. 0 \in T
    <2>1. Elapsed(l, d, i) \in Int /\ i + 0 = i /\ 0 \in 0 .. Len(l) - i
        BY <1>0, ElapsedInt
    <2> QED
        BY <2>1
<1>2. ASSUME NEW k \in 0 .. (Len(l) - i) - 1, k \in T
      PROVE  k + 1 \in T
    <2>1. /\ i + (k + 1) \in 1 .. Len(l) /\ (i + (k + 1)) - 1 = i + k
          /\ i + k \in 0 .. Len(l) /\ k + 1 \in 0 .. Len(l) - i
        OBVIOUS
    <2>2. Elapsed(l, d, i + (k + 1)) = Elapsed(l, d, i + k) + d[l[i + (k + 1)]]
        BY <1>0, <2>1, ElapsedEquations
    <2>3. Elapsed(l, d, i) \in Int /\ Elapsed(l, d, i + k) \in Int /\ d[l[i + (k + 1)]] \in Nat
        BY <1>0, <2>1, ElapsedInt
    <2>4. Elapsed(l, d, i) <= Elapsed(l, d, i + k)
        BY <1>2
    <2>5. Elapsed(l, d, i) <= Elapsed(l, d, i + (k + 1))
        BY <2>2, <2>3, <2>4
    <2> QED
        BY <2>1, <2>5
<1>3. Len(l) - i \in Nat /\ j - i \in 0 .. Len(l) - i /\ i + (j - i) = j
    OBVIOUS
<1> HIDE DEF T
<1>4. 0 .. Len(l) - i \subseteq T
    BY <1>1, <1>2, <1>3, UpTo
<1>5. j - i \in T
    BY <1>3, <1>4
<1> QED
    BY <1>3, <1>5 DEF T

\* The first time is the head's delta, and all are at least that.
LEMMA FirstElapsed ==
    ASSUME NEW l \in Lists, NEW d \in Deltas, l # <<>>
    PROVE  /\ 1 \in 1 .. Len(l) /\ Head(l) = l[1]
           /\ Elapsed(l, d, 1) = d[Head(l)]
<1> USE DEF Lists, Deltas
<1>1. 1 \in 1 .. Len(l) /\ Head(l) = l[1] /\ d[l[1]] \in Int
    OBVIOUS
<1>2. Elapsed(l, d, 1) = Elapsed(l, d, 1 - 1) + d[l[1]]
    BY <1>1, ElapsedEquations
<1>3. Elapsed(l, d, 0) = 0
    BY ElapsedEquations
<1> QED
    BY <1>1, <1>2, <1>3

-----------------------------------------------------------------------------
(* Sequences *)

\* What the community modules' InsertAt returns.
LEMMA InsertedAt ==
    ASSUME NEW l \in Seq(Timers), NEW p \in 0 .. Len(l), NEW h \in Timers
    PROVE  LET m == InsertAt(l, p + 1, h)
           IN /\ m \in Seq(Timers)
              /\ Len(m) = Len(l) + 1
              /\ \A i \in 1 .. p : m[i] = l[i]
              /\ m[p + 1] = h
              /\ \A i \in p + 1 .. Len(l) : m[i + 1] = l[i]
<1> DEFINE left == SubSeq(l, 1, (p + 1) - 1)
           front == left \o <<h>>
           right == SubSeq(l, p + 1, Len(l))
           m == front \o right
<1>1. m = InsertAt(l, p + 1, h)
    BY DEF InsertAt
<1>2. left \in Seq(Timers) /\ Len(left) = p /\ \A i \in 1 .. p : left[i] = l[i]
    <2>1. (p + 1) - 1 = p
        OBVIOUS
    <2> QED
        BY <2>1
<1>3. /\ right \in Seq(Timers) /\ Len(right) = Len(l) - p
      /\ \A i \in 1 .. Len(l) - p : right[i] = l[p + i]
    OBVIOUS
<1> HIDE DEF left, right
<1>4. /\ front \in Seq(Timers) /\ Len(front) = p + 1 /\ front[p + 1] = h
      /\ \A i \in 1 .. p : front[i] = l[i]
    BY <1>2
<1> HIDE DEF front
<1>5. m \in Seq(Timers) /\ Len(m) = Len(l) + 1
    <2>1. front \in Seq(Timers) /\ right \in Seq(Timers)
        BY <1>3, <1>4
    <2>2. m \in Seq(Timers) /\ Len(m) = Len(front) + Len(right)
        BY <2>1
    <2>3. Len(front) + Len(right) = Len(l) + 1
        BY <1>3, <1>4
    <2> QED
        BY <2>2, <2>3
<1>6. \A i \in 1 .. p + 1 : m[i] = front[i]
    <2>1. front \in Seq(Timers) /\ right \in Seq(Timers)
        BY <1>3, <1>4
    <2>2. \A i \in 1 .. Len(front) : m[i] = front[i]
        BY <2>1
    <2> QED
        BY <1>4, <2>2
<1>7. \A i \in p + 1 .. Len(l) : m[i + 1] = l[i]
    <2> TAKE i \in p + 1 .. Len(l)
    <2>1. i - p \in 1 .. Len(l) - p /\ p + (i - p) = i /\ (i + 1) - (p + 1) = i - p
          /\ i + 1 \in (p + 1) + 1 .. (p + 1) + (Len(l) - p)
        OBVIOUS
    <2>2. m[i + 1] = right[(i + 1) - (p + 1)]
        BY <1>3, <1>4, <2>1
    <2>3. right[i - p] = l[p + (i - p)]
        BY <1>3, <2>1
    <2> QED
        BY <2>1, <2>2, <2>3
<1> HIDE DEF m
<1>8. \A i \in 1 .. p : m[i] = l[i]
    BY <1>4, <1>6
<1>9. m[p + 1] = h
    BY <1>4, <1>6
<1> QED
    BY <1>1, <1>5, <1>7, <1>8, <1>9

\* What their RemoveAt returns.
LEMMA RemovedAt ==
    ASSUME NEW l \in Seq(Timers), NEW p \in 1 .. Len(l)
    PROVE  LET m == RemoveAt(l, p)
           IN /\ m \in Seq(Timers)
              /\ Len(m) = Len(l) - 1
              /\ \A i \in 1 .. p - 1 : m[i] = l[i]
              /\ \A i \in p .. Len(l) - 1 : m[i] = l[i + 1]
<1> DEFINE left == SubSeq(l, 1, p - 1)
           right == SubSeq(l, p + 1, Len(l))
           m == left \o right
<1>1. m = RemoveAt(l, p)
    BY DEF RemoveAt
<1>2. left \in Seq(Timers) /\ Len(left) = p - 1 /\ \A i \in 1 .. p - 1 : left[i] = l[i]
    OBVIOUS
<1>3. /\ right \in Seq(Timers) /\ Len(right) = Len(l) - p
      /\ \A i \in 1 .. Len(l) - p : right[i] = l[p + i]
    OBVIOUS
<1> HIDE DEF left, right
<1>4. m \in Seq(Timers) /\ Len(m) = Len(l) - 1
    BY <1>2, <1>3
<1>5. \A i \in 1 .. p - 1 : m[i] = l[i]
    BY <1>2, <1>3
<1>6. \A i \in p .. Len(l) - 1 : m[i] = l[i + 1]
    <2> TAKE i \in p .. Len(l) - 1
    <2>1. i - (p - 1) \in 1 .. Len(l) - p /\ p + (i - (p - 1)) = i + 1
          /\ i \in (p - 1) + 1 .. (p - 1) + (Len(l) - p)
        OBVIOUS
    <2>2. m[i] = right[i - (p - 1)]
        BY <1>2, <1>3, <2>1
    <2>3. right[i - (p - 1)] = l[p + (i - (p - 1))]
        BY <1>3, <2>1
    <2> QED
        BY <2>1, <2>2, <2>3
<1> QED
    BY <1>1, <1>4, <1>5, <1>6

\* What an insertion and a removal do to the set of the timers in a list.
LEMMA InsertedOnce ==
    ASSUME NEW l \in Seq(Timers), IsInjective(l), NEW p \in 0 .. Len(l),
           NEW h \in Timers, h \notin Range(l)
    PROVE  LET m == InsertAt(l, p + 1, h)
           IN IsInjective(m) /\ Range(m) = Range(l) \union {h}
<1> DEFINE m == InsertAt(l, p + 1, h)
<1>1. /\ m \in Seq(Timers) /\ Len(m) = Len(l) + 1
      /\ \A i \in 1 .. p : m[i] = l[i]
      /\ m[p + 1] = h
      /\ \A i \in p + 1 .. Len(l) : m[i + 1] = l[i]
    BY InsertedAt, ZenonT(40)
<1> HIDE DEF m
<1>2. Len(l) \in Nat /\ DOMAIN l = 1 .. Len(l) /\ DOMAIN m = 1 .. Len(l) + 1
    BY <1>1
<1>3. \A i \in 1 .. Len(l) : l[i] # h
    BY <1>2 DEF Range
<1>4. \A i, j \in 1 .. Len(l) : l[i] = l[j] => i = j
    BY <1>2 DEF IsInjective
<1>5. \A x \in 1 .. Len(l) + 1 : \/ x \in 1 .. p /\ x \in 1 .. Len(l) /\ m[x] = l[x]
                                 \/ x = p + 1 /\ m[x] = h
                                 \/ x > p + 1 /\ x - 1 \in 1 .. Len(l) /\ m[x] = l[x - 1]
    <2> TAKE x \in 1 .. Len(l) + 1
    <2>1. x \in 1 .. p => x \in 1 .. Len(l)
        BY <1>2
    <2>2. x > p + 1 => x - 1 \in p + 1 .. Len(l) /\ x - 1 \in 1 .. Len(l) /\ (x - 1) + 1 = x
        BY <1>2
    <2>3. x \in 1 .. p \/ x = p + 1 \/ x > p + 1
        BY <1>2
    <2> QED
        BY <1>1, <2>1, <2>2, <2>3
<1>6. ASSUME NEW x \in 1 .. Len(l) + 1, NEW y \in 1 .. Len(l) + 1, m[x] = m[y]
      PROVE  x = y
    <2>1. CASE x = p + 1 \/ y = p + 1
        BY <1>3, <1>5, <1>6, <2>1
    <2>2. CASE x # p + 1 /\ y # p + 1
        <3>1. \/ x \in 1 .. p /\ x \in 1 .. Len(l) /\ m[x] = l[x]
              \/ x > p + 1 /\ x - 1 \in 1 .. Len(l) /\ m[x] = l[x - 1]
            BY <1>5, <2>2
        <3>2. \/ y \in 1 .. p /\ y \in 1 .. Len(l) /\ m[y] = l[y]
              \/ y > p + 1 /\ y - 1 \in 1 .. Len(l) /\ m[y] = l[y - 1]
            BY <1>5, <2>2
        <3>3. CASE x \in 1 .. p /\ y \in 1 .. p
            BY <1>4, <1>6, <3>1, <3>2, <3>3
        <3>4. CASE x \in 1 .. p /\ y > p + 1
            <4>1. l[x] = l[y - 1] /\ x \in 1 .. Len(l) /\ y - 1 \in 1 .. Len(l)
                BY <1>6, <3>1, <3>2, <3>4
            <4>2. x = y - 1
                BY <1>4, <4>1
            <4> QED
                BY <3>4, <4>2
        <3>5. CASE x > p + 1 /\ y \in 1 .. p
            <4>1. l[x - 1] = l[y] /\ x - 1 \in 1 .. Len(l) /\ y \in 1 .. Len(l)
                BY <1>6, <3>1, <3>2, <3>5
            <4>2. x - 1 = y
                BY <1>4, <4>1
            <4> QED
                BY <3>5, <4>2
        <3>6. CASE x > p + 1 /\ y > p + 1
            <4>1. l[x - 1] = l[y - 1] /\ x - 1 \in 1 .. Len(l) /\ y - 1 \in 1 .. Len(l)
                BY <1>6, <3>1, <3>2, <3>6
            <4>2. x - 1 = y - 1
                BY <1>4, <4>1
            <4> QED
                BY <4>2
        <3> QED
            BY <3>1, <3>2, <3>3, <3>4, <3>5, <3>6
    <2> QED
        BY <2>1, <2>2
<1>7. IsInjective(m)
    BY <1>2, <1>6 DEF IsInjective
<1>8. Range(m) \subseteq Range(l) \union {h}
    <2> SUFFICES ASSUME NEW x \in 1 .. Len(l) + 1
                 PROVE  m[x] \in Range(l) \union {h}
        BY <1>2 DEF Range
    <2>1. \A i \in 1 .. Len(l) : l[i] \in Range(l)
        BY <1>2 DEF Range
    <2> QED
        BY <1>5, <2>1
<1>9. Range(l) \union {h} \subseteq Range(m)
    <2>1. \A x \in 1 .. Len(l) + 1 : m[x] \in Range(m)
        BY <1>2 DEF Range
    <2>2. h \in Range(m)
        BY <1>1, <1>2, <2>1
    <2>3. ASSUME NEW i \in 1 .. Len(l)
          PROVE  l[i] \in Range(m)
        <3>1. CASE i <= p
            <4>1. i \in 1 .. p /\ i \in 1 .. Len(l) + 1
                BY <1>2, <3>1
            <4> QED
                BY <1>1, <2>1, <4>1
        <3>2. CASE i > p
            <4>1. i \in p + 1 .. Len(l) /\ i + 1 \in 1 .. Len(l) + 1
                BY <1>2, <3>2
            <4> QED
                BY <1>1, <2>1, <4>1
        <3> QED
            BY <1>2, <3>1, <3>2
    <2>4. Range(l) \subseteq Range(m)
        BY <1>2, <2>3 DEF Range
    <2> QED
        BY <2>2, <2>4
<1> QED
    BY <1>7, <1>8, <1>9 DEF m

\* A list without repetitions stays one, without the timer.
LEMMA RemovedOnce ==
    ASSUME NEW l \in Seq(Timers), IsInjective(l), NEW p \in 1 .. Len(l)
    PROVE  LET m == RemoveAt(l, p)
           IN IsInjective(m) /\ Range(m) = Range(l) \ {l[p]}
<1> DEFINE m == RemoveAt(l, p)
<1>1. /\ m \in Seq(Timers) /\ Len(m) = Len(l) - 1
      /\ \A i \in 1 .. p - 1 : m[i] = l[i]
      /\ \A i \in p .. Len(l) - 1 : m[i] = l[i + 1]
    BY RemovedAt
<1> HIDE DEF m
<1>2. Len(l) \in Nat /\ DOMAIN l = 1 .. Len(l) /\ DOMAIN m = 1 .. Len(l) - 1
    BY <1>1
<1>4. \A i, j \in 1 .. Len(l) : l[i] = l[j] => i = j
    BY <1>2 DEF IsInjective
<1>5. \A x \in 1 .. Len(l) - 1 : \/ x < p /\ x \in 1 .. Len(l) /\ m[x] = l[x]
                                 \/ x >= p /\ x + 1 \in 1 .. Len(l) /\ m[x] = l[x + 1]
    <2> TAKE x \in 1 .. Len(l) - 1
    <2>1. x < p => x \in 1 .. p - 1 /\ x \in 1 .. Len(l)
        BY <1>2
    <2>2. x >= p => x \in p .. Len(l) - 1 /\ x + 1 \in 1 .. Len(l)
        BY <1>2
    <2>3. x < p \/ x >= p
        BY <1>2
    <2> QED
        BY <1>1, <2>1, <2>2, <2>3
<1>6. ASSUME NEW x \in 1 .. Len(l) - 1, NEW y \in 1 .. Len(l) - 1, m[x] = m[y]
      PROVE  x = y
    <2>1. \/ x < p /\ x \in 1 .. Len(l) /\ m[x] = l[x]
          \/ x >= p /\ x + 1 \in 1 .. Len(l) /\ m[x] = l[x + 1]
        BY <1>5
    <2>2. \/ y < p /\ y \in 1 .. Len(l) /\ m[y] = l[y]
          \/ y >= p /\ y + 1 \in 1 .. Len(l) /\ m[y] = l[y + 1]
        BY <1>5
    <2>3. CASE x < p /\ y < p
        BY <1>4, <1>6, <2>1, <2>2, <2>3
    <2>4. CASE x < p /\ y >= p
        <3>1. l[x] = l[y + 1] /\ x \in 1 .. Len(l) /\ y + 1 \in 1 .. Len(l)
            BY <1>6, <2>1, <2>2, <2>4
        <3>2. x = y + 1
            BY <1>4, <3>1
        <3> QED
            BY <2>4, <3>2
    <2>5. CASE x >= p /\ y < p
        <3>1. l[x + 1] = l[y] /\ x + 1 \in 1 .. Len(l) /\ y \in 1 .. Len(l)
            BY <1>6, <2>1, <2>2, <2>5
        <3>2. x + 1 = y
            BY <1>4, <3>1
        <3> QED
            BY <2>5, <3>2
    <2>6. CASE x >= p /\ y >= p
        <3>1. l[x + 1] = l[y + 1] /\ x + 1 \in 1 .. Len(l) /\ y + 1 \in 1 .. Len(l)
            BY <1>6, <2>1, <2>2, <2>6
        <3>2. x + 1 = y + 1
            BY <1>4, <3>1
        <3> QED
            BY <3>2
    <2> QED
        BY <2>1, <2>2, <2>3, <2>4, <2>5, <2>6
<1>7. IsInjective(m)
    BY <1>2, <1>6 DEF IsInjective
<1>8. Range(m) \subseteq Range(l) \ {l[p]}
    <2> SUFFICES ASSUME NEW x \in 1 .. Len(l) - 1
                 PROVE  m[x] \in Range(l) \ {l[p]}
        BY <1>2 DEF Range
    <2>1. \A i \in 1 .. Len(l) : i # p => l[i] \in Range(l) \ {l[p]}
        BY <1>2, <1>4 DEF Range
    <2>2. x >= p => x + 1 # p
        OBVIOUS
    <2> QED
        BY <1>5, <2>1, <2>2
<1>9. Range(l) \ {l[p]} \subseteq Range(m)
    <2>1. \A x \in 1 .. Len(l) - 1 : m[x] \in Range(m)
        BY <1>2 DEF Range
    <2>2. ASSUME NEW i \in 1 .. Len(l), i # p
          PROVE  l[i] \in Range(m)
        <3>1. CASE i < p
            <4>1. i \in 1 .. p - 1 /\ i \in 1 .. Len(l) - 1
                BY <1>2, <3>1
            <4> QED
                BY <1>1, <2>1, <4>1
        <3>2. CASE i > p
            <4>1. i - 1 \in p .. Len(l) - 1 /\ i - 1 \in 1 .. Len(l) - 1 /\ (i - 1) + 1 = i
                BY <1>2, <3>2
            <4> QED
                BY <1>1, <2>1, <4>1
        <3> QED
            BY <1>2, <2>2, <3>1, <3>2
    <2> QED
        BY <1>2, <2>2 DEF Range
<1> QED
    BY <1>7, <1>8, <1>9 DEF m

\* A timer is where it is, once.
LEMMA PositionIs ==
    ASSUME NEW l \in Lists, IsInjective(l), NEW i \in 1 .. Len(l)
    PROVE  Position(l, l[i]) = i
<1> USE DEF Lists, Deltas
<1>1. i \in DOMAIN l /\ \A j \in DOMAIN l : l[j] = l[i] => j = i
    BY DEF IsInjective
<1> QED
    BY <1>1 DEF Position

\* A running timer is somewhere.
LEMMA PositionOf ==
    ASSUME NEW l \in Lists, NEW h \in Range(l)
    PROVE  Position(l, h) \in 1 .. Len(l) /\ l[Position(l, h)] = h
<1> USE DEF Lists, Deltas
<1>1. \E i \in DOMAIN l : l[i] = h
    BY DEF Range
<1>2. DOMAIN l = 1 .. Len(l)
    OBVIOUS
<1> QED
    BY <1>1, <1>2 DEF Position

-----------------------------------------------------------------------------
(* The list's operations *)

\* The farthest time a list reaches: past it, the latest interrupt and the
\* longest call would take the counter once around.
Reach == Width - 1 - (Latency + Ticks + 3)

\* What the assumption on the counter's width says: a timeout is within reach.
LEMMA ReachIs ==
    /\ Width \in Nat /\ Latency \in Nat /\ Ticks \in Nat /\ Epochs \in Nat \ {0}
    /\ Reach \in Nat /\ Reach + 3 + Latency + Ticks = Width - 1
    /\ Width > 3
    /\ Timeouts \subseteq 1 .. Reach
<1>1. Width \in Nat /\ Latency \in Nat /\ Ticks \in Nat /\ Epochs \in Nat \ {0}
    BY CounterAssumption
<1>2. Latency + Ticks + 3 < Width
    BY CounterAssumption
<1>3. Reach \in Nat /\ Reach + 3 + Latency + Ticks = Width - 1 /\ Width > 3
    BY <1>1, <1>2 DEF Reach
<1>4. \A t \in Timeouts : t \in Nat \ {0} /\ t + Latency + Ticks + 3 < Width
    BY CounterAssumption DEF Timeouts
<1>5. Timeouts \subseteq 1 .. Reach
    BY <1>1, <1>4 DEF Reach
<1> QED
    BY <1>1, <1>3, <1>5

DeltaList(l, d) ==
    /\ l \in Seq(Timers) /\ IsInjective(l)
    /\ d \in [Timers -> 0 .. Reach]
    /\ \A i \in 0 .. Len(l) : Elapsed(l, d, i) <= Reach

\* A delta list's times lie between 0 and the reach.
LEMMA DeltaListTypes ==
    ASSUME NEW l, NEW d, DeltaList(l, d)
    PROVE  /\ l \in Lists /\ Len(l) \in Nat
           /\ d \in [Timers -> Nat] /\ d \in Deltas
           /\ \A i \in 0 .. Len(l) : Elapsed(l, d, i) \in 0 .. Reach
           /\ Elapsed(l, d, 0) = 0
<1>1. l \in Lists /\ Len(l) \in Nat
    BY DEF DeltaList, Lists
<1>2. d \in [Timers -> Nat] /\ d \in Deltas
    BY ReachIs DEF DeltaList, Deltas
<1>3. Elapsed(l, d, 0) = 0
    BY <1>1, <1>2, ElapsedEquations
<1>4. \A i \in 0 .. Len(l) : Elapsed(l, d, i) \in 0 .. Reach
    <2> TAKE i \in 0 .. Len(l)
    <2>1. Elapsed(l, d, i) \in Int
        BY <1>1, <1>2, ElapsedInt
    <2>2. 0 \in 0 .. Len(l) /\ 0 <= i
        BY <1>1
    <2>3. Elapsed(l, d, 0) <= Elapsed(l, d, i)
        BY <1>1, <1>2, <2>2, ElapsedGrows
    <2>4. Elapsed(l, d, i) <= Reach
        BY DEF DeltaList
    <2> QED
        BY <1>3, <2>1, <2>3, <2>4, ReachIs
<1> QED
    BY <1>1, <1>2, <1>3, <1>4

\* The walk of an insertion ends somewhere, and says what it promises.
LEMMA WalkEnds ==
    ASSUME NEW l \in Lists, NEW d \in Deltas, NEW timeout \in Nat
    PROVE  LET p == Passed(l, d, timeout)
           IN /\ p \in 0 .. Len(l)
              /\ \A j \in 1 .. p : Elapsed(l, d, j) <= timeout
              /\ p < Len(l) => Elapsed(l, d, p + 1) > timeout
<1> USE DEF Lists, Deltas
<1> DEFINE Ends(i) == /\ \A j \in 1 .. i : Elapsed(l, d, j) <= timeout
                      /\ i < Len(l) => Elapsed(l, d, i + 1) > timeout
           B == {j \in 1 .. Len(l) : Elapsed(l, d, j) > timeout}
<1>1. \A j \in 0 .. Len(l) : Elapsed(l, d, j) \in Int
    BY ElapsedInt
<1>2. \E i \in 0 .. Len(l) : Ends(i)
    <2>1. CASE B = {}
        <3>1. Len(l) \in 0 .. Len(l)
            OBVIOUS
        <3>2. \A j \in 1 .. Len(l) : Elapsed(l, d, j) <= timeout
            BY <1>1, <2>1, SMTT(20)
        <3> QED
            BY <3>1, <3>2
    <2>2. CASE B # {}
        <3>1. B \in SUBSET Nat
            OBVIOUS
        <3>2. PICK x \in B : \A y \in B : x <= y
            <4> HIDE DEF B
            <4> QED
                BY <2>2, <3>1, LeastNat
        <3>3. x - 1 \in 0 .. Len(l) /\ (x - 1) + 1 = x /\ Elapsed(l, d, x) > timeout
            BY <3>2
        <3>4. \A j \in 1 .. x - 1 : Elapsed(l, d, j) <= timeout
            <4> TAKE j \in 1 .. x - 1
            <4>1. j \in 1 .. Len(l) /\ j \in 0 .. Len(l) /\ ~ (x <= j)
                BY <3>2
            <4>2. j \notin B
                BY <3>2, <4>1
            <4> QED
                BY <1>1, <4>1, <4>2
        <3> QED
            BY <3>3, <3>4
    <2> QED
        BY <2>1, <2>2
<1>3. Passed(l, d, timeout) = CHOOSE i \in 0 .. Len(l) : Ends(i)
    BY DEF Passed
<1> HIDE DEF B
<1>4. Passed(l, d, timeout) \in 0 .. Len(l) /\ Ends(Passed(l, d, timeout))
    BY <1>2, <1>3
<1> QED
    BY <1>4

\* An insertion puts the timer at its time and moves no other.
Inserts(l, d, h, timeout, n, p) ==
    /\ p \in 0 .. Len(l)
    /\ n.list \in Seq(Timers) /\ Len(n.list) = Len(l) + 1
    /\ n.delta \in [Timers -> 0 .. Reach]
    /\ \A i \in 1 .. p : n.list[i] = l[i]
    /\ n.list[p + 1] = h
    /\ \A i \in p + 1 .. Len(l) : n.list[i + 1] = l[i]
    /\ \A i \in 0 .. p : Elapsed(n.list, n.delta, i) = Elapsed(l, d, i)
    /\ Elapsed(n.list, n.delta, p + 1) = timeout
    /\ \A i \in p + 1 .. Len(l) : Elapsed(n.list, n.delta, i + 1) = Elapsed(l, d, i)

\* delta_list_insert_timer.
LEMMA InsertTimes ==
    ASSUME NEW l, NEW d, DeltaList(l, d), NEW h \in Timers, h \notin Range(l),
           NEW timeout \in 0 .. Reach
    PROVE  Inserts(l, d, h, timeout, Insert(l, d, h, timeout), Passed(l, d, timeout))
<1> DEFINE p == Passed(l, d, timeout)
           rest == timeout - Elapsed(l, d, p)
           m == InsertAt(l, p + 1, h)
           e == [k \in Timers |-> IF k = h THEN rest
                                  ELSE IF p < Len(l) /\ k = l[p + 1] THEN d[k] - rest
                                  ELSE d[k]]
<1>0. Insert(l, d, h, timeout) = [list |-> m, delta |-> e]
    BY DEF Insert
<1>a. l \in Lists /\ d \in Deltas
    BY DeltaListTypes
<1>1. /\ l \in Seq(Timers) /\ Len(l) \in Nat
      /\ \A i \in 0 .. Len(l) : Elapsed(l, d, i) \in 0 .. Reach
      /\ Elapsed(l, d, 0) = 0
    BY DeltaListTypes DEF Lists
<1>2. timeout \in Nat /\ Reach \in Nat
    BY ReachIs
<1>3. /\ p \in 0 .. Len(l)
      /\ \A j \in 1 .. p : Elapsed(l, d, j) <= timeout
      /\ p < Len(l) => Elapsed(l, d, p + 1) > timeout
    BY <1>a, <1>2, WalkEnds
<1> HIDE DEF p
<1>4. /\ m \in Seq(Timers) /\ Len(m) = Len(l) + 1
      /\ \A i \in 1 .. p : m[i] = l[i]
      /\ m[p + 1] = h
      /\ \A i \in p + 1 .. Len(l) : m[i + 1] = l[i]
    BY <1>1, <1>3, InsertedAt, ZenonT(40)
<1> HIDE DEF m
<1>5. rest \in 0 .. timeout /\ Elapsed(l, d, p) \in 0 .. Reach
    <2>1. Elapsed(l, d, p) \in 0 .. Reach
        BY <1>1, <1>3
    <2>2. Elapsed(l, d, p) <= timeout
        BY <1>1, <1>2, <1>3
    <2> QED
        BY <1>2, <2>1, <2>2
<1>6. p < Len(l) => /\ p + 1 \in 1 .. Len(l) /\ l[p + 1] \in Timers
                    /\ d[l[p + 1]] \in 0 .. Reach
                    /\ Elapsed(l, d, p + 1) = Elapsed(l, d, p) + d[l[p + 1]]
                    /\ d[l[p + 1]] - rest \in 1 .. Reach
    <2>1. SUFFICES ASSUME p < Len(l)
                   PROVE  /\ p + 1 \in 1 .. Len(l) /\ l[p + 1] \in Timers
                          /\ d[l[p + 1]] \in 0 .. Reach
                          /\ Elapsed(l, d, p + 1) = Elapsed(l, d, p) + d[l[p + 1]]
                          /\ d[l[p + 1]] - rest \in 1 .. Reach
        OBVIOUS
    <2>2. p + 1 \in 1 .. Len(l) /\ (p + 1) - 1 = p
        BY <1>1, <1>3, <2>1
    <2>3. l[p + 1] \in Timers
        BY <1>1, <2>2
    <2>4. d[l[p + 1]] \in 0 .. Reach
        BY <2>3 DEF DeltaList
    <2>5. Elapsed(l, d, p + 1) = Elapsed(l, d, p) + d[l[p + 1]]
        BY <1>a, <2>2, ElapsedEquations
    <2>6. Elapsed(l, d, p + 1) > timeout
        BY <1>3, <2>1
    <2> QED
        BY <1>2, <1>5, <2>2, <2>3, <2>4, <2>5, <2>6
<1>7. e \in [Timers -> 0 .. Reach]
    <2> SUFFICES ASSUME NEW k \in Timers
                 PROVE  e[k] \in 0 .. Reach
        OBVIOUS
    <2>1. d[k] \in 0 .. Reach
        BY DEF DeltaList
    <2>2. rest \in 0 .. Reach
        BY <1>2, <1>5
    <2> HIDE DEF rest
    <2>3. p < Len(l) /\ k = l[p + 1] => d[k] - rest \in 0 .. Reach
        BY <1>2, <1>6
    <2> QED
        BY <2>1, <2>2, <2>3
<1>8. e \in Deltas
    BY <1>2, <1>7 DEF Deltas
<1>b. m \in Lists
    BY <1>4 DEF Lists
<1>9. e[h] = rest /\ (p < Len(l) => e[l[p + 1]] = d[l[p + 1]] - rest)
    <2>1. \A i \in 1 .. Len(l) : l[i] # h
        BY <1>1 DEF Range
    <2> QED
        BY <1>6, <2>1
<1>10. \A i \in 1 .. Len(l) : i # p + 1 => e[l[i]] = d[l[i]]
    <2> TAKE i \in 1 .. Len(l)
    <2>1. l[i] # h /\ l[i] \in Timers
        BY <1>1 DEF Range
    <2>2. i # p + 1 /\ p < Len(l) => l[i] # l[p + 1]
        BY <1>1, <1>6 DEF DeltaList, IsInjective
    <2> QED
        BY <2>1, <2>2
<1> HIDE DEF e, rest
<1>11. \A i \in 0 .. p : Elapsed(m, e, i) = Elapsed(l, d, i)
    <2>1. SameTo(l, d, m, e, p)
        <3> SUFFICES ASSUME NEW i \in 1 .. p
                     PROVE  e[m[i]] = d[l[i]]
            BY DEF SameTo
        <3>1. i \in 1 .. Len(l) /\ i # p + 1
            BY <1>1, <1>3
        <3> QED
            BY <1>4, <1>10, <3>1
    <2>2. p <= Len(l) /\ p <= Len(m) /\ p \in Nat
        BY <1>1, <1>3, <1>4
    <2> QED
        BY <1>a, <1>b, <1>8, <2>1, <2>2, ElapsedSame
<1>12. Elapsed(m, e, p + 1) = timeout
    <2>1. p + 1 \in 1 .. Len(m) /\ (p + 1) - 1 = p /\ p \in 0 .. p
        BY <1>1, <1>3, <1>4
    <2>2. Elapsed(m, e, p + 1) = Elapsed(m, e, p) + e[m[p + 1]]
        BY <1>b, <1>8, <2>1, ElapsedEquations
    <2>3. e[m[p + 1]] = rest /\ Elapsed(m, e, p) = Elapsed(l, d, p)
        BY <1>4, <1>9, <1>11, <2>1
    <2> QED
        BY <1>2, <1>5, <2>2, <2>3 DEF rest
<1>13. \A i \in p + 1 .. Len(l) : Elapsed(m, e, i + 1) = Elapsed(l, d, i)
    <2>1. SUFFICES ASSUME p < Len(l)
                   PROVE  \A i \in p + 1 .. Len(l) : Elapsed(m, e, i + 1) = Elapsed(l, d, i)
        BY <1>1, <1>3
    <2>2. /\ p + 2 \in 1 .. Len(m) /\ (p + 2) - 1 = p + 1 /\ (p + 1) + 1 = p + 2
          /\ p + 1 \in p + 1 .. Len(l) /\ p + 1 \in 0 .. Len(l) /\ (p + 1) + 1 \in 0 .. Len(m)
          /\ 1 \in Int
        <3>1. Len(l) \in Nat /\ Len(m) = Len(l) + 1 /\ p \in 0 .. Len(l)
            BY <1>1, <1>3, <1>4
        <3> QED
            BY <2>1, <3>1
    <2>3. Elapsed(m, e, p + 2) = Elapsed(l, d, p + 1)
        <3>1. Elapsed(m, e, p + 2) = Elapsed(m, e, p + 1) + e[m[p + 2]]
            BY <1>b, <1>8, <2>2, ElapsedEquations
        <3>2. e[m[p + 2]] = d[l[p + 1]] - rest
            BY <1>4, <1>9, <2>1, <2>2
        <3> QED
            BY <1>2, <1>5, <1>6, <1>12, <2>1, <3>1, <3>2 DEF rest
    <2>4. SameFrom(l, d, m, e, p + 1, 1)
        <3> SUFFICES ASSUME NEW i \in (p + 1) + 1 .. Len(l)
                     PROVE  i + 1 \in 1 .. Len(m) /\ e[m[i + 1]] = d[l[i]]
            BY DEF SameFrom
        <3>1. i \in p + 1 .. Len(l) /\ i \in 1 .. Len(l) /\ i # p + 1 /\ i + 1 \in 1 .. Len(m)
            BY <1>1, <1>3, <1>4
        <3> QED
            BY <1>4, <1>10, <3>1
    <2>6. \A i \in p + 1 .. Len(l) :
              Elapsed(m, e, i + 1) = Elapsed(l, d, i) + (Elapsed(m, e, (p + 1) + 1) - Elapsed(l, d, p + 1))
        BY <1>a, <1>b, <1>8, <2>2, <2>4, ElapsedShift
    <2> TAKE i \in p + 1 .. Len(l)
    <2>7. Elapsed(l, d, i) \in Int /\ Elapsed(l, d, p + 1) \in Int
        BY <1>1, <1>3, <2>2
    <2>8. Elapsed(m, e, i + 1) = Elapsed(l, d, i) + (Elapsed(m, e, (p + 1) + 1) - Elapsed(l, d, p + 1))
        BY <2>6
    <2> QED
        BY <2>2, <2>3, <2>7, <2>8
<1> QED
    BY <1>0, <1>3, <1>4, <1>7, <1>11, <1>12, <1>13 DEF p, Inserts

\* So the delta list stays one, and has the timer at its head only if that is
\* the first to expire.
LEMMA InsertKeeps ==
    ASSUME NEW l, NEW d, DeltaList(l, d), NEW h \in Timers, h \notin Range(l),
           NEW timeout \in 0 .. Reach
    PROVE  LET n == Insert(l, d, h, timeout)
           IN /\ DeltaList(n.list, n.delta)
              /\ Range(n.list) = Range(l) \union {h}
              /\ n.list # <<>>
              /\ \/ /\ Head(n.list) = h /\ n.delta[h] = timeout
                    /\ l # <<>> => timeout < d[Head(l)]
                 \/ /\ l # <<>> /\ Head(n.list) = Head(l) /\ Head(l) # h
                    /\ n.delta[Head(l)] = d[Head(l)]
<1> DEFINE n == Insert(l, d, h, timeout)
           m == n.list
           e == n.delta
           p == Passed(l, d, timeout)
<1>1. /\ p \in 0 .. Len(l)
      /\ m \in Seq(Timers) /\ Len(m) = Len(l) + 1
      /\ e \in [Timers -> 0 .. Reach]
      /\ \A i \in 1 .. p : m[i] = l[i]
      /\ m[p + 1] = h
      /\ \A i \in p + 1 .. Len(l) : m[i + 1] = l[i]
      /\ \A i \in 0 .. p : Elapsed(m, e, i) = Elapsed(l, d, i)
      /\ Elapsed(m, e, p + 1) = timeout
      /\ \A i \in p + 1 .. Len(l) : Elapsed(m, e, i + 1) = Elapsed(l, d, i)
    <2>1. Inserts(l, d, h, timeout, n, p)
        BY InsertTimes
    <2> QED
        BY <2>1 DEF Inserts
<1>2. m = InsertAt(l, p + 1, h)
    BY DEF Insert
<1>3. /\ l \in Lists /\ d \in Deltas /\ l \in Seq(Timers) /\ Len(l) \in Nat
      /\ \A i \in 0 .. Len(l) : Elapsed(l, d, i) \in 0 .. Reach
    BY DeltaListTypes DEF Lists
<1>4. timeout \in Nat /\ Reach \in Nat
    BY ReachIs
<1>5. p < Len(l) => Elapsed(l, d, p + 1) > timeout
    BY <1>3, <1>4, WalkEnds
<1> HIDE DEF m, e, p
<1>6. IsInjective(m) /\ Range(m) = Range(l) \union {h}
    <2>1. IsInjective(l)
        BY DEF DeltaList
    <2> QED
        BY <1>1, <1>2, <1>3, <2>1, InsertedOnce
<1>7. m \in Lists /\ e \in Deltas
    BY <1>1, <1>4 DEF Lists, Deltas
<1>8. \A i \in 0 .. Len(m) : Elapsed(m, e, i) <= Reach
    <2> TAKE i \in 0 .. Len(m)
    <2>1. CASE i \in 0 .. p
        <3>1. i \in 0 .. Len(l)
            BY <1>1, <1>3, <2>1
        <3>2. Elapsed(m, e, i) = Elapsed(l, d, i)
            BY <1>1, <2>1
        <3> QED
            BY <1>3, <1>4, <3>1, <3>2
    <2>2. CASE i = p + 1
        BY <1>1, <1>4, <2>2
    <2>3. CASE i > p + 1
        <3>1. i - 1 \in p + 1 .. Len(l) /\ (i - 1) + 1 = i /\ i - 1 \in 0 .. Len(l)
            BY <1>1, <1>3, <2>3
        <3>2. Elapsed(m, e, (i - 1) + 1) = Elapsed(l, d, i - 1)
            BY <1>1, <3>1
        <3> QED
            BY <1>3, <1>4, <3>1, <3>2
    <2> QED
        BY <1>1, <1>3, <2>1, <2>2, <2>3
<1>9. DeltaList(m, e)
    BY <1>1, <1>6, <1>8 DEF DeltaList
<1>10. 1 \in 1 .. Len(m) /\ m # <<>> /\ Head(m) = m[1]
    BY <1>1, <1>3
<1>11. Elapsed(m, e, 1) = e[Head(m)]
    BY <1>7, <1>10, FirstElapsed
<1>12. l # <<>> => Elapsed(l, d, 1) = d[Head(l)] /\ 1 \in 1 .. Len(l) /\ Head(l) = l[1]
    BY <1>3, FirstElapsed
<1>13. CASE p = 0
    <2>1. Head(m) = h
        BY <1>1, <1>10, <1>13
    <2>2. e[h] = timeout
        BY <1>1, <1>11, <1>13, <2>1
    <2>3. l # <<>> => timeout < d[Head(l)]
        <3>1. SUFFICES ASSUME l # <<>>
                       PROVE  timeout < d[Head(l)]
            OBVIOUS
        <3>2. p < Len(l) /\ p + 1 = 1
            BY <1>3, <1>12, <1>13, <3>1
        <3>3. Elapsed(l, d, 1) > timeout
            BY <1>5, <3>2
        <3>4. Elapsed(l, d, 1) \in Nat
            BY <1>3, <1>4, <1>12, <3>1
        <3> QED
            BY <1>4, <1>12, <3>1, <3>3, <3>4
    <2> QED
        BY <1>6, <1>9, <1>10, <2>1, <2>2, <2>3 DEF m, e
<1>14. CASE p # 0
    <2>1. 1 \in 1 .. p /\ 1 \in 0 .. p /\ 1 \in 1 .. Len(l) /\ l # <<>>
        BY <1>1, <1>3, <1>14
    <2>2. m[1] = l[1]
        BY <1>1, <2>1
    <2>3. Head(m) = Head(l)
        BY <1>10, <1>12, <2>1, <2>2
    <2>4. e[Head(m)] = d[Head(l)]
        BY <1>1, <1>11, <1>12, <2>1
    <2>5. Head(l) # h
        BY <1>3, <1>12, <2>1 DEF Range
    <2> QED
        BY <1>6, <1>9, <1>10, <2>1, <2>3, <2>4, <2>5 DEF m, e
<1> QED
    BY <1>13, <1>14

\* A removal takes the timer out and moves no other.
Removes(l, d, h, n, p) ==
    /\ p \in 1 .. Len(l) /\ l[p] = h
    /\ n.list \in Seq(Timers) /\ Len(n.list) = Len(l) - 1
    /\ n.delta \in [Timers -> 0 .. Reach]
    /\ \A i \in 1 .. p - 1 : n.list[i] = l[i]
    /\ \A i \in p .. Len(l) - 1 : n.list[i] = l[i + 1]
    /\ \A i \in 0 .. p - 1 : Elapsed(n.list, n.delta, i) = Elapsed(l, d, i)
    /\ \A i \in p .. Len(l) - 1 : Elapsed(n.list, n.delta, i) = Elapsed(l, d, i + 1)
    /\ n.delta[h] = d[h]
    /\ p < Len(l) => n.delta[l[p + 1]] = d[l[p + 1]] + d[h]
    /\ \A i \in 1 .. Len(l) : i # p + 1 => n.delta[l[i]] = d[l[i]]

\* delta_list_remove_timer.
LEMMA RemoveTimes ==
    ASSUME NEW l, NEW d, DeltaList(l, d), NEW h \in Range(l)
    PROVE  Removes(l, d, h, Removed(l, d, h), Position(l, h))
<1> DEFINE p == Position(l, h)
           m == RemoveAt(l, p)
           e == [k \in Timers |-> IF p < Len(l) /\ k = l[p + 1] THEN d[k] + d[h] ELSE d[k]]
<1>0. Removed(l, d, h) = [list |-> m, delta |-> e]
    BY DEF Removed
<1>1. l \in Lists /\ d \in Deltas
    BY DeltaListTypes
<1>2. /\ l \in Seq(Timers) /\ Len(l) \in Nat /\ IsInjective(l)
      /\ d \in [Timers -> 0 .. Reach]
      /\ \A i \in 0 .. Len(l) : Elapsed(l, d, i) \in 0 .. Reach
    BY DeltaListTypes DEF DeltaList
<1>3. Reach \in Nat
    BY ReachIs
<1>4. p \in 1 .. Len(l) /\ l[p] = h
    BY <1>1, PositionOf
<1> HIDE DEF p
<1>5. /\ m \in Seq(Timers) /\ Len(m) = Len(l) - 1
      /\ \A i \in 1 .. p - 1 : m[i] = l[i]
      /\ \A i \in p .. Len(l) - 1 : m[i] = l[i + 1]
    BY <1>2, <1>4, RemovedAt
<1> HIDE DEF m
<1>6. h \in Timers
    BY <1>2, <1>4
<1>7. /\ p - 1 \in 0 .. Len(l) - 1 /\ (p - 1) + 1 = p
      /\ Elapsed(l, d, p) = Elapsed(l, d, p - 1) + d[h]
      /\ Elapsed(l, d, p - 1) \in 0 .. Reach /\ d[h] \in 0 .. Reach
    <2>1. p - 1 \in 0 .. Len(l) - 1 /\ (p - 1) + 1 = p /\ p - 1 \in 0 .. Len(l)
        BY <1>2, <1>4
    <2>2. Elapsed(l, d, p) = Elapsed(l, d, p - 1) + d[h]
        BY <1>1, <1>4, ElapsedEquations
    <2> QED
        BY <1>2, <1>6, <2>1, <2>2
<1>8. p < Len(l) => /\ p + 1 \in 1 .. Len(l) /\ l[p + 1] \in Timers /\ l[p + 1] # h
                    /\ d[l[p + 1]] \in 0 .. Reach
                    /\ Elapsed(l, d, p + 1) = Elapsed(l, d, p) + d[l[p + 1]]
                    /\ d[l[p + 1]] + d[h] \in 0 .. Reach
    <2>1. SUFFICES ASSUME p < Len(l)
                   PROVE  /\ p + 1 \in 1 .. Len(l) /\ l[p + 1] \in Timers /\ l[p + 1] # h
                          /\ d[l[p + 1]] \in 0 .. Reach
                          /\ Elapsed(l, d, p + 1) = Elapsed(l, d, p) + d[l[p + 1]]
                          /\ d[l[p + 1]] + d[h] \in 0 .. Reach
        OBVIOUS
    <2>2. p + 1 \in 1 .. Len(l) /\ (p + 1) - 1 = p /\ p + 1 \in 0 .. Len(l) /\ p + 1 # p
        BY <1>2, <1>4, <2>1
    <2>3. l[p + 1] \in Timers /\ l[p + 1] # h
        BY <1>2, <1>4, <2>2 DEF IsInjective
    <2>4. d[l[p + 1]] \in 0 .. Reach
        BY <1>2, <2>3
    <2>5. Elapsed(l, d, p + 1) = Elapsed(l, d, p) + d[l[p + 1]]
        BY <1>1, <2>2, ElapsedEquations
    <2>6. Elapsed(l, d, p + 1) \in 0 .. Reach
        BY <1>2, <2>2
    <2> QED
        BY <1>3, <1>7, <2>2, <2>3, <2>4, <2>5, <2>6, SMTT(20)
<1>9. e \in [Timers -> 0 .. Reach]
    <2> SUFFICES ASSUME NEW k \in Timers
                 PROVE  e[k] \in 0 .. Reach
        OBVIOUS
    <2>1. d[k] \in 0 .. Reach
        BY <1>2
    <2>2. p < Len(l) /\ k = l[p + 1] => d[k] + d[h] \in 0 .. Reach
        BY <1>8
    <2> QED
        BY <2>1, <2>2
<1>10. e \in Deltas /\ m \in Lists
    BY <1>3, <1>5, <1>9 DEF Deltas, Lists
<1>11. e[h] = d[h] /\ (p < Len(l) => e[l[p + 1]] = d[l[p + 1]] + d[h])
    BY <1>6, <1>8
<1>12. \A i \in 1 .. Len(l) : i # p + 1 => e[l[i]] = d[l[i]]
    <2> TAKE i \in 1 .. Len(l)
    <2>1. l[i] \in Timers
        BY <1>2
    <2>2. i # p + 1 /\ p < Len(l) => l[i] # l[p + 1]
        BY <1>2, <1>8 DEF IsInjective
    <2> QED
        BY <2>1, <2>2
<1> HIDE DEF e
<1>13. \A i \in 0 .. p - 1 : Elapsed(m, e, i) = Elapsed(l, d, i)
    <2>1. SameTo(l, d, m, e, p - 1)
        <3> SUFFICES ASSUME NEW i \in 1 .. p - 1
                     PROVE  e[m[i]] = d[l[i]]
            BY DEF SameTo
        <3>1. i \in 1 .. Len(l) /\ i # p + 1
            BY <1>2, <1>4
        <3> QED
            BY <1>5, <1>12, <3>1
    <2>2. p - 1 \in Nat /\ p - 1 <= Len(l) /\ p - 1 <= Len(m)
        BY <1>2, <1>4, <1>5
    <2> QED
        BY <1>1, <1>10, <2>1, <2>2, ElapsedSame
<1>14. \A i \in p .. Len(l) - 1 : Elapsed(m, e, i) = Elapsed(l, d, i + 1)
    <2>1. SUFFICES ASSUME p < Len(l)
                   PROVE  \A i \in p .. Len(l) - 1 : Elapsed(m, e, i) = Elapsed(l, d, i + 1)
        BY <1>2, <1>4
    <2> DEFINE s == -1
    <2>2. /\ p \in 1 .. Len(m) /\ p - 1 \in 0 .. p - 1 /\ p \in p .. Len(l) - 1
          /\ p + 1 \in 0 .. Len(l) /\ s \in Int /\ (p + 1) + s = p
          /\ (p + 1) + s \in 0 .. Len(m)
        <3>1. Len(l) \in Nat /\ Len(m) = Len(l) - 1 /\ p \in 1 .. Len(l)
            BY <1>2, <1>4, <1>5
        <3> QED
            BY <2>1, <3>1
    <2>3. Elapsed(m, e, p) = Elapsed(l, d, p + 1)
        <3>1. Elapsed(m, e, p) = Elapsed(m, e, p - 1) + e[m[p]]
            BY <1>10, <2>2, ElapsedEquations
        <3>2. e[m[p]] = d[l[p + 1]] + d[h]
            BY <1>5, <1>11, <2>1, <2>2
        <3>3. Elapsed(m, e, p - 1) = Elapsed(l, d, p - 1)
            BY <1>13, <2>2
        <3> QED
            BY <1>3, <1>7, <1>8, <2>1, <3>1, <3>2, <3>3
    <2>4. \A i \in (p + 1) + 1 .. Len(l) :
              /\ i - 1 \in p .. Len(l) - 1 /\ i \in 1 .. Len(l) /\ i # p + 1
              /\ (i - 1) + 1 = i /\ i + s = i - 1
        BY <1>2, <1>4
    <2>5. \A i \in p .. Len(l) - 1 :
              i + 1 \in p + 1 .. Len(l) /\ (i + 1) + s = i /\ i + 1 \in 0 .. Len(l)
        BY <1>2, <1>4
    <2> HIDE DEF s
    <2>6. SameFrom(l, d, m, e, p + 1, s)
        <3> SUFFICES ASSUME NEW i \in (p + 1) + 1 .. Len(l)
                     PROVE  i + s \in 1 .. Len(m) /\ e[m[i + s]] = d[l[i]]
            BY DEF SameFrom
        <3>1. /\ i - 1 \in p .. Len(l) - 1 /\ i \in 1 .. Len(l) /\ i # p + 1
              /\ (i - 1) + 1 = i /\ i + s = i - 1
            BY <2>4
        <3>2. m[i - 1] = l[i]
            BY <1>5, <3>1
        <3>3. i - 1 \in 1 .. Len(m)
            BY <1>4, <1>5, <3>1
        <3>4. e[l[i]] = d[l[i]]
            BY <1>12, <3>1
        <3> QED
            BY <3>1, <3>2, <3>3, <3>4
    <2>7. \A i \in p + 1 .. Len(l) :
              Elapsed(m, e, i + s)
                = Elapsed(l, d, i) + (Elapsed(m, e, (p + 1) + s) - Elapsed(l, d, p + 1))
        <3> DEFINE a == p + 1
        <3>1. a \in 0 .. Len(l) /\ s \in Int /\ a + s \in 0 .. Len(m) /\ SameFrom(l, d, m, e, a, s)
            BY <2>2, <2>6
        <3> HIDE DEF a
        <3>2. \A i \in a .. Len(l) :
                  Elapsed(m, e, i + s) = Elapsed(l, d, i) + (Elapsed(m, e, a + s) - Elapsed(l, d, a))
            BY <1>1, <1>10, <3>1, ElapsedShift
        <3> QED
            BY <3>2 DEF a
    <2> TAKE i \in p .. Len(l) - 1
    <2>8. Elapsed(l, d, i + 1) \in Int /\ Elapsed(l, d, p + 1) \in Int
        BY <1>2, <2>2, <2>5
    <2>9. Elapsed(m, e, (i + 1) + s)
            = Elapsed(l, d, i + 1) + (Elapsed(m, e, (p + 1) + s) - Elapsed(l, d, p + 1))
        BY <2>5, <2>7
    <2> QED
        BY <2>2, <2>3, <2>5, <2>8, <2>9
<1> QED
    BY <1>0, <1>4, <1>5, <1>9, <1>11, <1>12, <1>13, <1>14 DEF p, Removes

\* So the delta list stays one; a head that is removed passes its delta on.
LEMMA RemoveKeeps ==
    ASSUME NEW l, NEW d, DeltaList(l, d), NEW h \in Range(l)
    PROVE  LET n == Removed(l, d, h)
           IN /\ DeltaList(n.list, n.delta)
              /\ Range(n.list) = Range(l) \ {h}
              /\ n.delta[h] = d[h]
              /\ (h = Head(l) /\ n.list # <<>>) => n.delta[Head(n.list)] >= d[h]
              /\ h # Head(l) => /\ n.list # <<>> /\ Head(n.list) = Head(l)
                                /\ n.delta[Head(l)] = d[Head(l)]
<1> DEFINE n == Removed(l, d, h)
           m == n.list
           e == n.delta
           p == Position(l, h)
<1>1. /\ p \in 1 .. Len(l) /\ l[p] = h
      /\ m \in Seq(Timers) /\ Len(m) = Len(l) - 1
      /\ e \in [Timers -> 0 .. Reach]
      /\ \A i \in 1 .. p - 1 : m[i] = l[i]
      /\ \A i \in p .. Len(l) - 1 : m[i] = l[i + 1]
      /\ \A i \in 0 .. p - 1 : Elapsed(m, e, i) = Elapsed(l, d, i)
      /\ \A i \in p .. Len(l) - 1 : Elapsed(m, e, i) = Elapsed(l, d, i + 1)
      /\ e[h] = d[h]
      /\ p < Len(l) => e[l[p + 1]] = d[l[p + 1]] + d[h]
      /\ \A i \in 1 .. Len(l) : i # p + 1 => e[l[i]] = d[l[i]]
    <2>1. Removes(l, d, h, n, p)
        BY RemoveTimes
    <2> QED
        BY <2>1 DEF Removes
<1>2. m = RemoveAt(l, p)
    BY DEF Removed
<1>3. /\ l \in Lists /\ d \in Deltas /\ l \in Seq(Timers) /\ Len(l) \in Nat
      /\ \A i \in 0 .. Len(l) : Elapsed(l, d, i) \in 0 .. Reach
      /\ IsInjective(l) /\ d \in [Timers -> 0 .. Reach]
    BY DeltaListTypes DEF Lists, DeltaList
<1>4. Reach \in Nat
    BY ReachIs
<1> HIDE DEF m, e, p
<1>5. IsInjective(m) /\ Range(m) = Range(l) \ {h}
    BY <1>1, <1>2, <1>3, RemovedOnce
<1>6. m \in Lists /\ e \in Deltas
    BY <1>1, <1>4 DEF Lists, Deltas
<1>7. \A i \in 0 .. Len(m) : Elapsed(m, e, i) <= Reach
    <2> TAKE i \in 0 .. Len(m)
    <2>1. CASE i < p
        <3>1. i \in 0 .. p - 1 /\ i \in 0 .. Len(l)
            BY <1>1, <1>3, <2>1
        <3>2. Elapsed(m, e, i) = Elapsed(l, d, i)
            BY <1>1, <3>1
        <3> QED
            BY <1>3, <1>4, <3>1, <3>2
    <2>2. CASE i >= p
        <3>1. i \in p .. Len(l) - 1 /\ i + 1 \in 0 .. Len(l)
            BY <1>1, <1>3, <2>2
        <3>2. Elapsed(m, e, i) = Elapsed(l, d, i + 1)
            BY <1>1, <3>1
        <3> QED
            BY <1>3, <1>4, <3>1, <3>2
    <2> QED
        BY <1>1, <1>3, <2>1, <2>2
<1>8. DeltaList(m, e)
    BY <1>1, <1>5, <1>7 DEF DeltaList
<1>9. l # <<>> /\ Head(l) = l[1] /\ 1 \in 1 .. Len(l)
    BY <1>1, <1>3
<1>10. (h = Head(l) /\ m # <<>>) => e[Head(m)] >= d[h]
    <2>1. SUFFICES ASSUME h = Head(l), m # <<>>
                   PROVE  e[Head(m)] >= d[h]
        OBVIOUS
    <2>2. p = 1
        <3>1. \A i, j \in 1 .. Len(l) : l[i] = l[j] => i = j
            BY <1>3 DEF IsInjective
        <3>2. p \in 1 .. Len(l) /\ l[p] = l[1]
            BY <1>1, <1>9, <2>1
        <3> QED
            BY <1>9, <3>1, <3>2
    <2>3. /\ Head(m) = m[1] /\ p < Len(l) /\ 1 \in p .. Len(l) - 1 /\ 1 + 1 = p + 1
          /\ p + 1 \in 1 .. Len(l)
        BY <1>1, <1>3, <2>1, <2>2
    <2>4. e[Head(m)] = d[l[p + 1]] + d[h]
        BY <1>1, <2>3
    <2>5. d[l[p + 1]] \in 0 .. Reach /\ d[h] \in 0 .. Reach
        BY <1>1, <1>3, <2>3
    <2> QED
        BY <1>4, <2>4, <2>5
<1>11. h # Head(l) => /\ m # <<>> /\ Head(m) = Head(l)
                      /\ e[Head(l)] = d[Head(l)]
    <2>1. SUFFICES ASSUME h # Head(l)
                   PROVE  /\ m # <<>> /\ Head(m) = Head(l)
                          /\ e[Head(l)] = d[Head(l)]
        OBVIOUS
    <2>2. p # 1
        BY <1>1, <1>9, <2>1
    <2>3. 1 \in 1 .. p - 1 /\ 1 # p + 1 /\ Len(m) > 0
        <3>1. p \in 1 .. Len(l) /\ Len(l) \in Nat /\ Len(m) = Len(l) - 1
            BY <1>1, <1>3
        <3> QED
            BY <2>2, <3>1
    <2>4. m # <<>> /\ Head(m) = m[1]
        BY <1>1, <2>3
    <2> QED
        BY <1>1, <1>9, <2>3, <2>4
<1> QED
    BY <1>1, <1>5, <1>8, <1>10, <1>11 DEF m, e

\* A delta that shrinks brings its timer and the later ones nearer.
Lowers(l, d, p, c, e) ==
    /\ DeltaList(l, e)
    /\ \A i \in 0 .. p - 1 : Elapsed(l, e, i) = Elapsed(l, d, i)
    /\ \A i \in p .. Len(l) : Elapsed(l, e, i) = Elapsed(l, d, i) - c

\* Any part of a delta may be taken off.
LEMMA LowerTimes ==
    ASSUME NEW l, NEW d, DeltaList(l, d), NEW p \in 1 .. Len(l), NEW c \in 0 .. d[l[p]]
    PROVE  Lowers(l, d, p, c, [d EXCEPT ![l[p]] = @ - c])
<1> DEFINE e == [d EXCEPT ![l[p]] = @ - c]
<1>1. l \in Lists /\ d \in Deltas
    BY DeltaListTypes
<1>2. /\ l \in Seq(Timers) /\ Len(l) \in Nat /\ IsInjective(l)
      /\ d \in [Timers -> 0 .. Reach]
      /\ \A i \in 0 .. Len(l) : Elapsed(l, d, i) \in 0 .. Reach
    BY DeltaListTypes DEF DeltaList
<1>3. Reach \in Nat
    BY ReachIs
<1>4. l[p] \in Timers /\ d[l[p]] \in 0 .. Reach
    BY <1>2
<1>5. c \in Nat /\ d[l[p]] - c \in 0 .. Reach
    BY <1>3, <1>4
<1>6. e \in [Timers -> 0 .. Reach]
    BY <1>2, <1>4, <1>5
<1>7. e[l[p]] = d[l[p]] - c
    BY <1>2, <1>4
<1>8. \A i \in 1 .. Len(l) : i # p => e[l[i]] = d[l[i]]
    <2> TAKE i \in 1 .. Len(l)
    <2>1. l[i] \in Timers /\ (i # p => l[i] # l[p])
        BY <1>2 DEF IsInjective
    <2> QED
        BY <1>2, <2>1
<1> HIDE DEF e
<1>9. e \in Deltas
    BY <1>3, <1>6 DEF Deltas
<1>10. \A i \in 0 .. p - 1 : Elapsed(l, e, i) = Elapsed(l, d, i)
    <2>1. SameTo(l, d, l, e, p - 1)
        <3> SUFFICES ASSUME NEW i \in 1 .. p - 1
                     PROVE  e[l[i]] = d[l[i]]
            BY DEF SameTo
        <3>1. i \in 1 .. Len(l) /\ i # p
            BY <1>2
        <3> QED
            BY <1>8, <3>1
    <2>2. p - 1 \in Nat /\ p - 1 <= Len(l)
        BY <1>2
    <2> QED
        BY <1>1, <1>9, <2>1, <2>2, ElapsedSame
<1>11. \A i \in p .. Len(l) : Elapsed(l, e, i) = Elapsed(l, d, i) - c
    <2>1. Elapsed(l, e, p) = Elapsed(l, e, p - 1) + e[l[p]]
        BY <1>1, <1>9, ElapsedEquations
    <2>2. Elapsed(l, d, p) = Elapsed(l, d, p - 1) + d[l[p]]
        BY <1>1, ElapsedEquations
    <2>3. p - 1 \in 0 .. p - 1 /\ p - 1 \in 0 .. Len(l) /\ p \in 0 .. Len(l)
        BY <1>2
    <2>4. Elapsed(l, e, p - 1) = Elapsed(l, d, p - 1)
        BY <1>10, <2>3
    <2>5. Elapsed(l, d, p - 1) \in Int /\ Elapsed(l, d, p) \in Int /\ d[l[p]] \in Int /\ c \in Int
        BY <1>2, <1>3, <1>4, <1>5, <2>3
    <2>6. Elapsed(l, e, p) = Elapsed(l, d, p) - c
        BY <1>7, <2>1, <2>2, <2>4, <2>5
    <2> DEFINE s == 0
    <2>7. s \in Int /\ p + s \in 0 .. Len(l)
        BY <1>2, <2>3
    <2>a. \A i \in p .. Len(l) : i + s = i
        BY <1>2
    <2> HIDE DEF s
    <2>8. SameFrom(l, d, l, e, p, s)
        <3> SUFFICES ASSUME NEW i \in p + 1 .. Len(l)
                     PROVE  i + s \in 1 .. Len(l) /\ e[l[i + s]] = d[l[i]]
            BY DEF SameFrom
        <3>1. i \in 1 .. Len(l) /\ i # p /\ i \in p .. Len(l)
            BY <1>2
        <3> QED
            BY <1>8, <2>a, <3>1
    <2>9. \A i \in p .. Len(l) :
              Elapsed(l, e, i + s) = Elapsed(l, d, i) + (Elapsed(l, e, p + s) - Elapsed(l, d, p))
        <3>1. p \in 0 .. Len(l)
            BY <2>3
        <3> QED
            BY <1>1, <1>9, <2>7, <2>8, <3>1, ElapsedShift
    <2> TAKE i \in p .. Len(l)
    <2>10. Elapsed(l, d, i) \in Int /\ p \in p .. Len(l)
        <3>1. i \in 0 .. Len(l) /\ p \in p .. Len(l)
            BY <1>2
        <3> QED
            BY <1>2, <3>1
    <2>11. i + s = i /\ p + s = p
        BY <2>a, <2>10
    <2>12. Elapsed(l, e, i) = Elapsed(l, d, i) + (Elapsed(l, e, p) - Elapsed(l, d, p))
        BY <2>9, <2>11
    <2> QED
        BY <2>5, <2>6, <2>10, <2>12
<1>12. \A i \in 0 .. Len(l) : Elapsed(l, e, i) <= Reach
    <2> TAKE i \in 0 .. Len(l)
    <2>1. Elapsed(l, d, i) \in 0 .. Reach
        BY <1>2
    <2>2. CASE i < p
        <3>1. i \in 0 .. p - 1
            BY <1>2, <2>2
        <3> QED
            BY <1>3, <1>10, <2>1, <3>1
    <2>3. CASE i >= p
        <3>1. i \in p .. Len(l)
            BY <1>2, <2>3
        <3>2. Elapsed(l, e, i) = Elapsed(l, d, i) - c
            BY <1>11, <3>1
        <3> QED
            BY <1>3, <1>5, <2>1, <3>2
    <2> QED
        BY <1>2, <2>2, <2>3
<1>13. DeltaList(l, e)
    BY <1>2, <1>6, <1>12 DEF DeltaList
<1> QED
    BY <1>10, <1>11, <1>13 DEF Lowers, e

\* The deltas of timers that do not run do not matter.
LEMMA OffList ==
    ASSUME NEW l, NEW d, DeltaList(l, d), NEW e \in [Timers -> 0 .. Reach],
           \A k \in Range(l) : e[k] = d[k]
    PROVE  /\ DeltaList(l, e)
           /\ \A i \in 0 .. Len(l) : Elapsed(l, e, i) = Elapsed(l, d, i)
<1>1. l \in Lists /\ d \in Deltas
    BY DeltaListTypes
<1>2. /\ l \in Seq(Timers) /\ Len(l) \in Nat /\ IsInjective(l)
      /\ \A i \in 0 .. Len(l) : Elapsed(l, d, i) <= Reach
    BY DEF DeltaList
<1>3. e \in Deltas
    BY ReachIs DEF Deltas
<1>4. SameTo(l, d, l, e, Len(l))
    BY <1>2 DEF SameTo, Range
<1>5. \A i \in 0 .. Len(l) : Elapsed(l, e, i) = Elapsed(l, d, i)
    BY <1>1, <1>2, <1>3, <1>4, ElapsedSame
<1> QED
    BY <1>2, <1>5 DEF DeltaList

-----------------------------------------------------------------------------
(* Each timer's time *)

\* The time from the list's origin to a running timer.
TimeOf(l, d, h) == Elapsed(l, d, Position(l, h))

\* It is the timer's place that tells it.
LEMMA TimeAt ==
    ASSUME NEW l, NEW d, DeltaList(l, d), NEW i \in 1 .. Len(l)
    PROVE  /\ l[i] \in Range(l) /\ TimeOf(l, d, l[i]) = Elapsed(l, d, i)
           /\ TimeOf(l, d, l[i]) \in 0 .. Reach
<1>1. l \in Lists /\ IsInjective(l) /\ l[i] \in Range(l)
    BY DeltaListTypes DEF DeltaList, Range
<1>2. Position(l, l[i]) = i
    BY <1>1, PositionIs
<1>3. i \in 0 .. Len(l)
    BY DeltaListTypes
<1> QED
    BY <1>1, <1>2, <1>3, DeltaListTypes DEF TimeOf

\* A running timer has a place.
LEMMA PlaceOf ==
    ASSUME NEW l, NEW d, DeltaList(l, d), NEW h \in Range(l)
    PROVE  \E i \in 1 .. Len(l) : l[i] = h
BY DEF DeltaList, Range

\* The head's time is its delta, and no other's is less.
LEMMA HeadFirst ==
    ASSUME NEW l, NEW d, DeltaList(l, d), l # <<>>
    PROVE  /\ Head(l) \in Range(l) /\ TimeOf(l, d, Head(l)) = d[Head(l)]
           /\ \A h \in Range(l) : TimeOf(l, d, h) >= d[Head(l)]
<1>1. /\ l \in Lists /\ d \in Deltas /\ d \in [Timers -> Nat] /\ Len(l) \in Nat
    BY DeltaListTypes
<1>2. 1 \in 1 .. Len(l) /\ Head(l) = l[1] /\ Elapsed(l, d, 1) = d[Head(l)]
    BY <1>1, FirstElapsed
<1>3. ASSUME NEW h \in Range(l)
      PROVE  TimeOf(l, d, h) >= d[Head(l)]
    <2>1. PICK i \in 1 .. Len(l) : l[i] = h
        BY PlaceOf
    <2>2. TimeOf(l, d, h) = Elapsed(l, d, i)
        BY <2>1, TimeAt
    <2>3. 1 \in 0 .. Len(l) /\ i \in 0 .. Len(l) /\ 1 <= i
        BY <1>1, <1>2
    <2>4. Elapsed(l, d, 1) <= Elapsed(l, d, i)
        BY <1>1, <2>3, ElapsedGrows
    <2>5. Elapsed(l, d, 1) \in Int /\ Elapsed(l, d, i) \in Int
        BY <1>1, <2>3, ElapsedInt
    <2> QED
        BY <1>2, <2>2, <2>4, <2>5
<1> QED
    BY <1>2, <1>3, TimeAt

\* delta_list_insert_timer gives the timer its time and moves no other.
LEMMA InsertMoves ==
    ASSUME NEW l, NEW d, DeltaList(l, d), NEW h \in Timers, h \notin Range(l),
           NEW timeout \in 0 .. Reach
    PROVE  LET n == Insert(l, d, h, timeout)
           IN /\ TimeOf(n.list, n.delta, h) = timeout
              /\ \A k \in Range(l) : TimeOf(n.list, n.delta, k) = TimeOf(l, d, k)
<1> DEFINE n == Insert(l, d, h, timeout)
           p == Passed(l, d, timeout)
<1>1. Inserts(l, d, h, timeout, n, p)
    BY InsertTimes
<1>2. DeltaList(n.list, n.delta)
    BY InsertKeeps
<1>3. Len(l) \in Nat
    BY DeltaListTypes
<1> HIDE DEF n, p
<1>4. p \in 0 .. Len(l) /\ Len(n.list) = Len(l) + 1
    BY <1>1 DEF Inserts
<1>5. TimeOf(n.list, n.delta, h) = timeout
    <2>1. p + 1 \in 1 .. Len(n.list)
        BY <1>3, <1>4
    <2>2. n.list[p + 1] = h /\ Elapsed(n.list, n.delta, p + 1) = timeout
        BY <1>1 DEF Inserts
    <2> QED
        BY <1>2, <2>1, <2>2, TimeAt
<1>6. ASSUME NEW k \in Range(l)
      PROVE  TimeOf(n.list, n.delta, k) = TimeOf(l, d, k)
    <2>1. PICK i \in 1 .. Len(l) : l[i] = k
        BY PlaceOf
    <2>2. TimeOf(l, d, k) = Elapsed(l, d, i)
        BY <2>1, TimeAt
    <2>3. CASE i <= p
        <3>1. i \in 1 .. p /\ i \in 0 .. p /\ i \in 1 .. Len(n.list)
            BY <1>3, <1>4, <2>3
        <3>2. n.list[i] = k /\ Elapsed(n.list, n.delta, i) = Elapsed(l, d, i)
            BY <1>1, <2>1, <3>1 DEF Inserts
        <3> QED
            BY <1>2, <2>2, <3>1, <3>2, TimeAt
    <2>4. CASE i > p
        <3>1. i \in p + 1 .. Len(l) /\ i + 1 \in 1 .. Len(n.list)
            BY <1>3, <1>4, <2>4
        <3>2. n.list[i + 1] = k /\ Elapsed(n.list, n.delta, i + 1) = Elapsed(l, d, i)
            BY <1>1, <2>1, <3>1 DEF Inserts
        <3> QED
            BY <1>2, <2>2, <3>1, <3>2, TimeAt
    <2> QED
        BY <1>4, <2>3, <2>4
<1> QED
    BY <1>5, <1>6 DEF n

\* delta_list_remove_timer moves no timer that stays.
LEMMA RemoveMoves ==
    ASSUME NEW l, NEW d, DeltaList(l, d), NEW h \in Range(l)
    PROVE  LET n == Removed(l, d, h)
           IN \A k \in Range(l) \ {h} : TimeOf(n.list, n.delta, k) = TimeOf(l, d, k)
<1> DEFINE n == Removed(l, d, h)
           p == Position(l, h)
<1>1. Removes(l, d, h, n, p)
    BY RemoveTimes
<1>2. DeltaList(n.list, n.delta)
    BY RemoveKeeps
<1>3. Len(l) \in Nat
    BY DeltaListTypes
<1> HIDE DEF n, p
<1>4. p \in 1 .. Len(l) /\ l[p] = h /\ Len(n.list) = Len(l) - 1
    BY <1>1 DEF Removes
<1>5. ASSUME NEW k \in Range(l) \ {h}
      PROVE  TimeOf(n.list, n.delta, k) = TimeOf(l, d, k)
    <2>1. PICK i \in 1 .. Len(l) : l[i] = k
        BY PlaceOf
    <2>2. TimeOf(l, d, k) = Elapsed(l, d, i) /\ i # p
        BY <1>4, <2>1, TimeAt
    <2>3. CASE i < p
        <3>1. i \in 1 .. p - 1 /\ i \in 0 .. p - 1 /\ i \in 1 .. Len(n.list)
            BY <1>3, <1>4, <2>3
        <3>2. n.list[i] = k /\ Elapsed(n.list, n.delta, i) = Elapsed(l, d, i)
            BY <1>1, <2>1, <3>1 DEF Removes
        <3> QED
            BY <1>2, <2>2, <3>1, <3>2, TimeAt
    <2>4. CASE i > p
        <3> DEFINE j == i - 1
        <3>1. j \in p .. Len(l) - 1 /\ j + 1 = i /\ j \in 1 .. Len(n.list)
            BY <1>3, <1>4, <2>4
        <3> HIDE DEF j
        <3>2. n.list[j] = k /\ Elapsed(n.list, n.delta, j) = Elapsed(l, d, i)
            BY <1>1, <2>1, <3>1 DEF Removes
        <3> QED
            BY <1>2, <2>2, <3>1, <3>2, TimeAt
    <2> QED
        BY <1>4, <2>2, <2>3, <2>4
<1> QED
    BY <1>5 DEF n

\* What the head's delta loses every timer is nearer by.
LEMMA LowerMoves ==
    ASSUME NEW l, NEW d, DeltaList(l, d), l # <<>>, NEW c \in 0 .. d[Head(l)]
    PROVE  LET e == [d EXCEPT ![Head(l)] = @ - c]
           IN /\ DeltaList(l, e)
              /\ \A k \in Range(l) : TimeOf(l, e, k) = TimeOf(l, d, k) - c
<1> DEFINE e == [d EXCEPT ![l[1]] = @ - c]
<1>1. 1 \in 1 .. Len(l) /\ Head(l) = l[1]
    BY DEF DeltaList
<1>2. c \in 0 .. d[l[1]]
    BY <1>1
<1>3. Lowers(l, d, 1, c, e)
    BY <1>1, <1>2, LowerTimes
<1> HIDE DEF e
<1>4. DeltaList(l, e)
    BY <1>3 DEF Lowers
<1>5. ASSUME NEW k \in Range(l)
      PROVE  TimeOf(l, e, k) = TimeOf(l, d, k) - c
    <2>1. PICK i \in 1 .. Len(l) : l[i] = k
        BY PlaceOf
    <2>2. TimeOf(l, d, k) = Elapsed(l, d, i)
        BY <2>1, TimeAt
    <2>3. TimeOf(l, e, k) = Elapsed(l, e, i)
        BY <1>4, <2>1, TimeAt
    <2> QED
        BY <1>3, <2>2, <2>3 DEF Lowers
<1>6. e = [d EXCEPT ![Head(l)] = @ - c]
    BY <1>1 DEF e
<1> QED
    BY <1>4, <1>5, <1>6

\* The deltas of timers that do not run move none.
LEMMA OffListMoves ==
    ASSUME NEW l, NEW d, DeltaList(l, d), NEW e \in [Timers -> 0 .. Reach],
           \A k \in Range(l) : e[k] = d[k]
    PROVE  \A k \in Range(l) : TimeOf(l, e, k) = TimeOf(l, d, k)
<1>1. DeltaList(l, e) /\ \A i \in 0 .. Len(l) : Elapsed(l, e, i) = Elapsed(l, d, i)
    BY OffList
<1> TAKE k \in Range(l)
<1>2. PICK i \in 1 .. Len(l) : l[i] = k
    BY PlaceOf
<1>3. TimeOf(l, d, k) = Elapsed(l, d, i)
    BY <1>2, TimeAt
<1>4. TimeOf(l, e, k) = Elapsed(l, e, i)
    BY <1>1, <1>2, TimeAt
<1>5. i \in 0 .. Len(l)
    BY DeltaListTypes
<1> QED
    BY <1>1, <1>3, <1>4, <1>5
=============================================================================
