------------------------ MODULE EventSchedulerProofs ------------------------
(***************************************************************************)
(* Proofs about the event scheduler, for a pool of any size and any notes, *)
(* velocities and delays.  The inductive invariant names the list: there   *)
(* is a sequence of slots that the links follow, it holds exactly the      *)
(* occupied entries, and it is sorted.  Every operation is shown to turn   *)
(* such a sequence into another.                                           *)
(***************************************************************************)
EXTENDS EventScheduler, FiniteSetsExt, FiniteSetTheorems, WellFoundedInduction, TLAPS

-----------------------------------------------------------------------------
(* The least of the slots, and what putting an element in a sequence makes *)
(* of it.                                                                  *)

\* The order of the naturals is well founded, in a form that needs no operator argument.
LEMMA NatOrder ==
    \E R : IsWellFoundedOn(R, Nat) /\ \A x, y \in Nat : x < y => <<x, y>> \in R
<1>1. \A x, y \in Nat : x < y => <<x, y>> \in OpToRel(<, Nat)
  BY DEF OpToRel
<1>2. QED
  BY <1>1, NatLessThanWellFounded

\* A non-empty set of naturals has a least element.
LEMMA LeastNat ==
    ASSUME NEW S, S \subseteq Nat, S # {}
    PROVE  \E m \in S : \A n \in S : m <= n
<1>1. PICK R : IsWellFoundedOn(R, Nat) /\ \A x, y \in Nat : x < y => <<x, y>> \in R
  BY NatOrder
<1>2. IsWellFoundedOn(R, Nat)
  BY <1>1
<1>3. \A x, y \in Nat : x < y => <<x, y>> \in R
  BY <1>1
<1>4. \E x \in S : \A y \in S : ~ (<<y, x>> \in R)
  BY <1>2, WFMin, Zenon
<1>5. SUFFICES ASSUME NEW x \in S, \A y \in S : ~ (<<y, x>> \in R), NEW n \in S
               PROVE  x <= n
  BY <1>4
<1>6. x \in Nat /\ n \in Nat /\ ~ (<<n, x>> \in R)
  BY <1>5
<1>7. ~ (n < x)
  BY <1>3, <1>6
<1>8. QED
  BY <1>6, <1>7

\* Min returns the least element.
LEMMA MinIn ==
    ASSUME NEW S, S \subseteq Nat, S # {}
    PROVE  Min(S) \in S /\ \A n \in S : Min(S) <= n
  BY LeastNat DEF Min

\* The least element of a set is its Min.
LEMMA MinIs ==
    ASSUME NEW S, S \subseteq Nat, NEW m \in S, \A n \in S : m <= n
    PROVE  Min(S) = m
<1>1. Min(S) \in S /\ \A n \in S : Min(S) <= n
  BY MinIn
<1>2. Min(S) <= m /\ m <= Min(S) /\ m \in Nat /\ Min(S) \in Nat
  BY <1>1
<1>3. QED
  BY <1>2

\* No element comes twice.
Distinct(s) == \A i, j \in 1 .. Len(s) : s[i] = s[j] => i = j

\* A sequence of distinct positions is no longer than there are positions, and as long only
\* if none is left over.
LEMMA DistinctFits ==
    ASSUME NEW N \in Nat, N >= 1, NEW s \in Seq(1 .. N), Distinct(s)
    PROVE  /\ Len(s) <= N
           /\ Len(s) = N <=> \A x \in 1 .. N : \E i \in 1 .. Len(s) : s[i] = x
<1> DEFINE k == Len(s)
<1>1. k \in Nat /\ s \in [1 .. k -> 1 .. N]
  OBVIOUS
<1>2. s \in Injection(1 .. k, 1 .. N)
  BY <1>1 DEF Distinct, Injection, IsInjective
<1>3. \A n \in Nat : IsFiniteSet(1 .. n) /\ Cardinality(1 .. n) = n
  <2>1. SUFFICES ASSUME NEW n \in Nat PROVE IsFiniteSet(1 .. n) /\ Cardinality(1 .. n) = n
    OBVIOUS
  <2>2. 1 \in Int /\ n \in Int
    OBVIOUS
  <2>3. IsFiniteSet(1 .. n) /\ Cardinality(1 .. n) = IF 1 > n THEN 0 ELSE n - 1 + 1
    BY <2>2, FS_Interval, Zenon
  <2>4. (IF 1 > n THEN 0 ELSE n - 1 + 1) = n
    OBVIOUS
  <2>5. QED
    BY <2>3, <2>4
<1>4. /\ Cardinality(1 .. k) <= Cardinality(1 .. N)
      /\ Cardinality(1 .. k) = Cardinality(1 .. N) <=> s \in Surjection(1 .. k, 1 .. N)
  BY <1>2, <1>3, FS_Injection
<1>5. k <= N /\ (k = N <=> s \in Surjection(1 .. k, 1 .. N))
  BY <1>1, <1>3, <1>4, Zenon
<1>6. s \in Surjection(1 .. k, 1 .. N) <=> \A x \in 1 .. N : \E i \in 1 .. k : s[i] = x
  BY <1>1 DEF Surjection
<1>7. QED
  BY <1>5, <1>6

\* A sequence is the function of its positions.
LEMMA SequenceIs ==
    ASSUME NEW S, NEW s \in Seq(S)
    PROVE  s = [i \in 1 .. Len(s) |-> s[i]]
  OBVIOUS

\* The elements of a concatenation.
LEMMA ConcatIs ==
    ASSUME NEW S, NEW a \in Seq(S), NEW b \in Seq(S)
    PROVE  a \o b = [i \in 1 .. Len(a) + Len(b) |->
                       IF i <= Len(a) THEN a[i] ELSE b[i - Len(a)]]
<1>1. a \o b \in Seq(S)
  OBVIOUS
<1>2. a \o b = [i \in 1 .. Len(a \o b) |-> (a \o b)[i]]
  BY <1>1, SequenceIs, Zenon
<1>3. Len(a \o b) = Len(a) + Len(b)
  OBVIOUS
<1>4. \A i \in 1 .. Len(a) + Len(b) : (a \o b)[i] = IF i <= Len(a) THEN a[i] ELSE b[i - Len(a)]
  OBVIOUS
<1>5. QED
  BY <1>2, <1>3, <1>4

\* The sequence s with e at position p: InsertAt of SequencesExt, whose Remove is not the
\* scheduler's.
PutIn(s, p, e) == SubSeq(s, 1, p - 1) \o <<e>> \o SubSeq(s, p, Len(s))

LEMMA PutInIs ==
    ASSUME NEW S, NEW s \in Seq(S), NEW e \in S, NEW p \in 1 .. Len(s) + 1
    PROVE  PutIn(s, p, e)
             = [i \in 1 .. Len(s) + 1 |->
                  IF i < p THEN s[i] ELSE IF i = p THEN e ELSE s[i - 1]]
<1>1. PICK a, b : a = SubSeq(s, 1, p - 1) /\ b = SubSeq(s, p, Len(s))
  OBVIOUS
<1>2. a \in Seq(S) /\ Len(a) = p - 1 /\ \A i \in 1 .. p - 1 : a[i] = s[i]
  BY <1>1
<1>3. /\ b \in Seq(S) /\ Len(b) = Len(s) - p + 1
      /\ \A i \in 1 .. Len(s) - p + 1 : b[i] = s[p + i - 1]
  BY <1>1
<1>4. PICK c : c = a \o <<e>>
  OBVIOUS
<1>5. c \in Seq(S) /\ Len(c) = p /\ \A i \in 1 .. p : c[i] = IF i < p THEN s[i] ELSE e
  BY <1>2, <1>4
<1>6. PutIn(s, p, e) = c \o b
  BY <1>1, <1>4 DEF PutIn
<1>7. c \o b = [i \in 1 .. Len(c) + Len(b) |-> IF i <= Len(c) THEN c[i] ELSE b[i - Len(c)]]
  BY <1>3, <1>5, ConcatIs, Zenon
<1>8. Len(c) + Len(b) = Len(s) + 1
  BY <1>3, <1>5
<1>9. \A i \in 1 .. Len(s) + 1 :
         (IF i <= Len(c) THEN c[i] ELSE b[i - Len(c)])
           = IF i < p THEN s[i] ELSE IF i = p THEN e ELSE s[i - 1]
  BY <1>3, <1>5
<1>10. QED
  BY <1>6, <1>7, <1>8, <1>9, Zenon

LEMMA SlotFacts == /\ Slot \subseteq 1 .. 254 /\ Slot \subseteq Nat
                   /\ kEventSchedulerSize \in 2 .. 255
                   /\ 0 \notin Slot /\ 1 \in Slot
  BY SizeAssumption DEF Slot

-----------------------------------------------------------------------------
(* The linked list.                                                        *)

\* A chain is a sequence of distinct slots; it is never longer than the pool.
LEMMA ChainIs ==
    ASSUME NEW s
    PROVE  s \in Chains <=> s \in Seq(Slot) /\ Distinct(s)
<1>1. ASSUME s \in Chains PROVE s \in Seq(Slot) /\ Distinct(s)
  <2>1. PICK k \in 0 .. kEventSchedulerSize - 1, f \in [Slot -> Slot] :
               s = [i \in 1 .. k |-> f[i]]
    BY <1>1 DEF Chains, Walks
  <2>2. \A i \in 1 .. k : i \in Slot
    BY <2>1, SlotFacts DEF Slot
  <2>3. s \in Seq(Slot)
    BY <2>1, <2>2, SlotFacts
  <2>4. QED
    BY <1>1, <2>3 DEF Chains, Distinct
<1>2. ASSUME s \in Seq(Slot), Distinct(s) PROVE s \in Chains
  <2> DEFINE k == Len(s)
             f == [i \in Slot |-> IF i <= k THEN s[i] ELSE 1]
  <2>1. k \in Nat /\ s \in [1 .. k -> Slot]
    BY <1>2
  <2>5. k <= kEventSchedulerSize - 1
    BY <1>2, DistinctFits, SlotFacts DEF Slot
  <2>6. f \in [Slot -> Slot]
    BY <2>1, SlotFacts
  <2>7. s = [i \in 1 .. k |-> f[i]]
    <3>1. \A i \in 1 .. k : i \in Slot /\ i <= k
      BY <2>1, <2>5, SlotFacts DEF Slot
    <3>2. \A i \in 1 .. k : f[i] = s[i]
      BY <3>1
    <3> HIDE DEF f
    <3>3. QED
      BY <2>1, <3>2
  <2> HIDE DEF f
  <2>8. s \in Walks
    <3>1. k \in 0 .. kEventSchedulerSize - 1
      BY <2>1, <2>5, SlotFacts
    <3> HIDE DEF k
    <3>2. QED
      BY <2>6, <2>7, <3>1 DEF Walks
  <2>9. QED
    BY <1>2, <2>8 DEF Chains, Distinct
<1>3. QED
  BY <1>1, <1>2

\* The links lead along one sequence only.
LEMMA ListIsUnique ==
    ASSUME NEW q, NEW s \in Chains, NEW t \in Chains, IsList(q, s), IsList(q, t)
    PROVE  s = t
<1>1. /\ s \in Seq(Slot) /\ Len(s) \in Nat /\ s \in [1 .. Len(s) -> Slot]
      /\ t \in Seq(Slot) /\ Len(t) \in Nat /\ t \in [1 .. Len(t) -> Slot]
  BY ChainIs
<1> DEFINE Differ == { i \in Nat : NextOf(s, i) # NextOf(t, i) }
<1>2. Differ = {}
  <2>1. SUFFICES ASSUME Differ # {} PROVE FALSE
    OBVIOUS
  <2>2. PICK m \in Differ : \A n \in Differ : m <= n
    BY <2>1, LeastNat
  <2>3. m # 0
    BY <2>2 DEF IsList
  <2>4. m - 1 \in Nat /\ m \in Nat /\ m - 1 \notin Differ
    BY <2>2, <2>3
  <2>5. NextOf(s, m - 1) = NextOf(t, m - 1)
    BY <2>4
  <2>6. CASE m <= Len(s) /\ m <= Len(t)
    <3>1. s[m] = t[m]
      BY <2>3, <2>4, <2>5, <2>6, <1>1 DEF NextOf
    <3>2. NextOf(s, m) = q.entries[s[m]].next /\ NextOf(t, m) = q.entries[t[m]].next
      BY <2>3, <2>4, <2>6, <1>1 DEF IsList
    <3>3. QED
      BY <2>2, <3>1, <3>2
  <2>7. CASE m > Len(s) /\ m > Len(t)
    BY <1>1, <2>2, <2>4, <2>7 DEF NextOf
  <2>8. CASE m <= Len(s) /\ m > Len(t)
    BY <1>1, <2>3, <2>4, <2>5, <2>8, SlotFacts DEF NextOf
  <2>9. CASE m > Len(s) /\ m <= Len(t)
    BY <1>1, <2>3, <2>4, <2>5, <2>9, SlotFacts DEF NextOf
  <2>10. QED
    BY <1>1, <2>4, <2>6, <2>7, <2>8, <2>9
<1>3. Len(s) = Len(t)
  <2>1. NextOf(s, Len(s)) = NextOf(t, Len(s)) /\ NextOf(s, Len(t)) = NextOf(t, Len(t))
    BY <1>1, <1>2
  <2>2. ASSUME Len(s) < Len(t) PROVE FALSE
    <3>1. Len(s) + 1 \in 1 .. Len(t)
      BY <1>1, <2>2
    <3>2. t[Len(s) + 1] \in Slot
      BY <1>1, <3>1
    <3>3. NextOf(s, Len(s)) = 0 /\ NextOf(t, Len(s)) = t[Len(s) + 1]
      BY <1>1, <2>2 DEF NextOf
    <3>4. QED
      BY <2>1, <3>2, <3>3, SlotFacts
  <2>3. ASSUME Len(t) < Len(s) PROVE FALSE
    <3>1. Len(t) + 1 \in 1 .. Len(s)
      BY <1>1, <2>3
    <3>2. s[Len(t) + 1] \in Slot
      BY <1>1, <3>1
    <3>3. NextOf(t, Len(t)) = 0 /\ NextOf(s, Len(t)) = s[Len(t) + 1]
      BY <1>1, <2>3 DEF NextOf
    <3>4. QED
      BY <2>1, <3>2, <3>3, SlotFacts
  <2>4. Len(s) \in Int /\ Len(t) \in Int /\ ~ (Len(s) < Len(t)) /\ ~ (Len(t) < Len(s))
    BY <1>1, <2>2, <2>3
  <2>5. \A a, b \in Int : ~ (a < b) /\ ~ (b < a) => a = b
    OBVIOUS
  <2>6. QED
    BY <2>4, <2>5, Zenon
<1>4. \A i \in 1 .. Len(s) : s[i] = t[i]
  <2>1. SUFFICES ASSUME NEW i \in 1 .. Len(s) PROVE s[i] = t[i]
    OBVIOUS
  <2>2. i - 1 \in Nat /\ i \in Nat /\ i - 1 + 1 = i
    BY <1>1
  <2>3. NextOf(s, i - 1) = NextOf(t, i - 1)
    BY <1>2, <2>2
  <2>4. QED
    BY <1>1, <1>3, <2>2, <2>3 DEF NextOf
<1>5. QED
  BY <1>1, <1>3, <1>4

LEMMA ListIs ==
    ASSUME NEW q, NEW s \in Chains, IsList(q, s)
    PROVE  List(q) = s
<1>1. List(q) \in Chains /\ IsList(q, List(q))
  BY DEF List
<1>2. QED
  BY <1>1, ListIsUnique

-----------------------------------------------------------------------------
(* The parts of the inductive invariant.                                   *)

Sorted(q, s) ==
    \A i, j \in 1 .. Len(s) : i <= j => q.entries[s[i]].when <= q.entries[s[j]].when

Orderly(q, s) ==
    /\ s \in Chains /\ IsList(q, s)
    /\ Slots(s) = Occupied(q)
    /\ q.size = Len(s)
    /\ Sorted(q, s)

Fields(q) ==
    /\ q \in Queue
    /\ \A i \in Occupied(q) :
         /\ q.entries[i].note \in Note \cup {kZombieSlot}
         /\ q.entries[i].velocity \in Velocity
         /\ q.entries[i].when \in Delay

LEMMA ChainFacts ==
    ASSUME NEW s \in Chains
    PROVE  /\ Len(s) \in 0 .. kEventSchedulerSize - 1 /\ Len(s) \in Nat
           /\ s \in [1 .. Len(s) -> Slot] /\ Distinct(s)
           /\ \A i \in Nat : NextOf(s, i) \in 0 .. kEventSchedulerSize - 1
<1>1. s \in Seq(Slot) /\ Distinct(s) /\ Len(s) \in Nat /\ s \in [1 .. Len(s) -> Slot]
  BY ChainIs
<1>2. PICK k \in 0 .. kEventSchedulerSize - 1, f \in [Slot -> Slot] : s = [i \in 1 .. k |-> f[i]]
  BY DEF Chains, Walks
<1>3. Len(s) = k
  BY <1>2, SlotFacts
<1>4. \A i \in Nat : NextOf(s, i) \in 0 .. kEventSchedulerSize - 1
  BY <1>1, SlotFacts DEF NextOf, Slot
<1>5. QED
  BY <1>1, <1>3, <1>4

\* The delays: bytes, with 0 and the predecessor of every other.
LEMMA DelayFacts ==
    /\ Delay \subseteq 0 .. 255 /\ Delay \subseteq Nat
    /\ \A d \in Delay : d # 0 => d - 1 \in Delay
  BY DataAssumption

LEMMA ListedIs ==
    ASSUME NEW q, NEW s \in Chains, IsList(q, s)
    PROVE  /\ Listed(q) = [i \in 1 .. Len(s) |-> q.entries[s[i]]]
           /\ Len(Listed(q)) = Len(s)
<1>1. List(q) = s
  BY ListIs
<1>2. Listed(q) = [i \in 1 .. Len(s) |-> q.entries[s[i]]]
  BY <1>1 DEF Listed
<1>3. Len(s) \in Nat
  BY ChainFacts
<1>4. QED
  BY <1>2, <1>3

LEMMA WhenFacts ==
    ASSUME NEW q, NEW s, Fields(q), Orderly(q, s)
    PROVE  LET w == [i \in 1 .. Len(s) |-> q.entries[s[i]].when]
           IN  /\ w \in [1 .. Len(s) -> Nat]
               /\ \A i, j \in 1 .. Len(s) : i <= j => w[i] <= w[j]
               /\ \A i \in 1 .. Len(s) : w[i] \in Delay
               /\ Len(s) \in Nat /\ Len(Listed(q)) = Len(s)
               /\ \A i \in 1 .. Len(s) : Listed(q)[i].when = w[i]
<1> DEFINE w == [i \in 1 .. Len(s) |-> q.entries[s[i]].when]
<1>1. Len(s) \in Nat /\ Listed(q) = [i \in 1 .. Len(s) |-> q.entries[s[i]]]
      /\ Len(Listed(q)) = Len(s)
  BY ListedIs, ChainFacts DEF Orderly
<1>2. \A i \in 1 .. Len(s) : Listed(q)[i].when = w[i]
  BY <1>1
<1>3. \A i \in 1 .. Len(s) : q.entries[s[i]].when \in Delay
  BY DEF Orderly, Slots, Fields
<1>4. \A i \in 1 .. Len(s) : w[i] \in Delay
  BY <1>3
<1>5. w \in [1 .. Len(s) -> Nat]
  <2>1. \A i \in 1 .. Len(s) : w[i] \in Nat
    BY <1>4, DelayFacts
  <2>2. QED
    BY <2>1
<1>6. \A i, j \in 1 .. Len(s) : i <= j => w[i] <= w[j]
  BY DEF Orderly, Sorted
<1> HIDE DEF w
<1>7. QED
  BY <1>1, <1>2, <1>4, <1>5, <1>6 DEF w

\* The events on the slots of s, as a timed queue sees them.
Events(q, s) ==
    [i \in 1 .. Len(s) |-> [note     |-> q.entries[s[i]].note,
                            velocity |-> q.entries[s[i]].velocity,
                            wait     |-> q.entries[s[i]].when]]

Waiter == [note : Note \cup {kZombieSlot}, velocity : Velocity, wait : Delay]

LEMMA EventsAre ==
    ASSUME NEW q, NEW s, Fields(q), Orderly(q, s)
    PROVE  /\ Events(q, s) \in Seq(Waiter) /\ Len(Events(q, s)) = Len(s) /\ Len(s) \in Nat
           /\ \A i \in 1 .. Len(s) :
                Events(q, s)[i] = [note     |-> q.entries[s[i]].note,
                                   velocity |-> q.entries[s[i]].velocity,
                                   wait     |-> q.entries[s[i]].when]
           /\ \A i \in 1 .. Len(s) : /\ Events(q, s)[i].note = q.entries[s[i]].note
                                      /\ Events(q, s)[i].velocity = q.entries[s[i]].velocity
                                      /\ Events(q, s)[i].wait = q.entries[s[i]].when
<1> DEFINE event(i) == [note     |-> q.entries[s[i]].note,
                        velocity |-> q.entries[s[i]].velocity,
                        wait     |-> q.entries[s[i]].when]
<1>1. Len(s) \in Nat
  BY ChainFacts DEF Orderly
<1>2. \A i \in 1 .. Len(s) : event(i) \in Waiter
  BY DEF Orderly, Slots, Fields, Waiter
<1>3. Events(q, s) = [i \in 1 .. Len(s) |-> event(i)]
  BY Zenon DEF Events
<1> HIDE DEF event
<1>4. Events(q, s) \in Seq(Waiter) /\ Len(Events(q, s)) = Len(s)
      /\ \A i \in 1 .. Len(s) : Events(q, s)[i] = event(i)
  BY <1>1, <1>2, <1>3
<1>5. \A i \in 1 .. Len(s) : /\ event(i).note = q.entries[s[i]].note
                             /\ event(i).velocity = q.entries[s[i]].velocity
                             /\ event(i).wait = q.entries[s[i]].when
  BY DEF event
<1>6. \A i \in 1 .. Len(s) : /\ Events(q, s)[i].note = q.entries[s[i]].note
                             /\ Events(q, s)[i].velocity = q.entries[s[i]].velocity
                             /\ Events(q, s)[i].wait = q.entries[s[i]].when
  BY <1>4, <1>5
<1>7. QED
  BY <1>1, <1>4, <1>6 DEF event

\* Schedule (event_scheduler.cc:73) finds the place behind all that is due no later.
LEMMA InsertPositionIs ==
    ASSUME NEW q, NEW s, Fields(q), Orderly(q, s), NEW when \in Delay
    PROVE  LET p == InsertPosition(q, when)
           IN  /\ p \in 0 .. Len(s)
               /\ \A i \in 1 .. Len(s) : /\ i <= p => q.entries[s[i]].when <= when
                                         /\ i > p => when < q.entries[s[i]].when
<1> DEFINE w == [i \in 1 .. Len(s) |-> q.entries[s[i]].when]
           P == { p \in 0 .. Len(s) : p = Len(s) \/ when < w[p + 1] }
           p == Min(P)
<1>1. \A i \in 1 .. Len(s) : q.entries[s[i]].when = w[i]
  OBVIOUS
<1> HIDE DEF w
<1>2. /\ w \in [1 .. Len(s) -> Nat] /\ Len(s) \in Nat /\ when \in Nat
      /\ \A i, j \in 1 .. Len(s) : i <= j => w[i] <= w[j]
  BY WhenFacts, DelayFacts DEF w
<1>3. InsertPosition(q, when) = p
  <2>1. Len(Listed(q)) = Len(s) /\ \A i \in 1 .. Len(s) : Listed(q)[i].when = w[i]
    BY WhenFacts DEF w
  <2>2. ASSUME NEW k \in 0 .. Len(s)
        PROVE  k = Len(Listed(q)) \/ when < Listed(q)[k + 1].when
                 <=> k = Len(s) \/ when < w[k + 1]
    <3>1. k # Len(s) => k + 1 \in 1 .. Len(s)
      BY <1>2
    <3>2. QED
      BY <2>1, <3>1, Zenon
  <2>3. { k \in 0 .. Len(Listed(q)) : k = Len(Listed(q)) \/ when < Listed(q)[k + 1].when } = P
    BY <2>1, <2>2, Zenon
  <2>4. QED
    BY <2>3, Zenon DEF InsertPosition
<1>4. P \subseteq Nat /\ Len(s) \in P
  BY <1>2
<1>5. p \in P /\ \A n \in P : p <= n
  BY <1>4, MinIn
<1>6. p \in 0 .. Len(s) /\ (p # Len(s) => when < w[p + 1])
  BY <1>5
<1>7. \A n \in 0 .. Len(s) : n < p => ~ (when < w[n + 1])
  BY <1>2, <1>5
<1> HIDE DEF p, P
<1>8. ASSUME NEW i \in 1 .. Len(s), i <= p PROVE w[i] <= when
  <2>1. i - 1 \in 0 .. Len(s) /\ i - 1 < p /\ i - 1 + 1 = i
    BY <1>2, <1>6, <1>8
  <2>2. ~ (when < w[i])
    BY <1>7, <2>1
  <2>3. w[i] \in Nat /\ when \in Nat
    BY <1>2
  <2>4. QED
    BY <2>2, <2>3
<1>9. ASSUME NEW i \in 1 .. Len(s), i > p PROVE when < w[i]
  <2>1. p + 1 \in 1 .. Len(s) /\ p # Len(s) /\ p + 1 <= i
    BY <1>2, <1>6, <1>9
  <2>2. when < w[p + 1] /\ w[p + 1] <= w[i]
    BY <1>2, <1>6, <2>1
  <2>3. w[i] \in Nat /\ w[p + 1] \in Nat
    BY <1>2, <2>1
  <2>4. QED
    BY <1>2, <2>2, <2>3
<1>10. QED
  BY <1>1, <1>3, <1>6, <1>8, <1>9

\* Tick (event_scheduler.cc:43) and SendScheduledNotes stop at the first event that is not due.
LEMMA DueCountIs ==
    ASSUME NEW q, NEW s, Fields(q), Orderly(q, s)
    PROVE  LET k == DueCount(q)
           IN  /\ k \in 0 .. Len(s)
               /\ \A i \in 1 .. Len(s) : /\ i <= k => q.entries[s[i]].when = 0
                                         /\ i > k => q.entries[s[i]].when > 0
<1> DEFINE w == [i \in 1 .. Len(s) |-> q.entries[s[i]].when]
           P == { k \in 0 .. Len(s) : k = Len(s) \/ w[k + 1] # 0 }
           k == Min(P)
<1>1. \A i \in 1 .. Len(s) : q.entries[s[i]].when = w[i]
  OBVIOUS
<1> HIDE DEF w
<1>2. /\ w \in [1 .. Len(s) -> Nat] /\ Len(s) \in Nat
      /\ \A i, j \in 1 .. Len(s) : i <= j => w[i] <= w[j]
  BY WhenFacts DEF w
<1>3. DueCount(q) = k
  <2>1. Len(Listed(q)) = Len(s) /\ \A i \in 1 .. Len(s) : Listed(q)[i].when = w[i]
    BY WhenFacts DEF w
  <2>2. ASSUME NEW n \in 0 .. Len(s)
        PROVE  n = Len(Listed(q)) \/ Listed(q)[n + 1].when # 0
                 <=> n = Len(s) \/ w[n + 1] # 0
    <3>1. n # Len(s) => n + 1 \in 1 .. Len(s)
      BY <1>2
    <3>2. QED
      BY <2>1, <3>1, Zenon
  <2>3. { n \in 0 .. Len(Listed(q)) : n = Len(Listed(q)) \/ Listed(q)[n + 1].when # 0 } = P
    BY <2>1, <2>2, Zenon
  <2>4. QED
    BY <2>3, Zenon DEF DueCount
<1>4. P \subseteq Nat /\ Len(s) \in P
  BY <1>2
<1>5. k \in P /\ \A n \in P : k <= n
  BY <1>4, MinIn
<1>6. k \in 0 .. Len(s) /\ (k # Len(s) => w[k + 1] # 0)
  BY <1>5
<1>7. \A n \in 0 .. Len(s) : n < k => w[n + 1] = 0
  BY <1>2, <1>5
<1> HIDE DEF k, P
<1>8. ASSUME NEW i \in 1 .. Len(s), i <= k PROVE w[i] = 0
  <2>1. i - 1 \in 0 .. Len(s) /\ i - 1 < k /\ i - 1 + 1 = i
    BY <1>2, <1>6, <1>8
  <2>2. QED
    BY <1>7, <2>1
<1>9. ASSUME NEW i \in 1 .. Len(s), i > k PROVE w[i] > 0
  <2>1. k + 1 \in 1 .. Len(s) /\ k # Len(s) /\ k + 1 <= i
    BY <1>2, <1>6, <1>9
  <2>2. w[k + 1] # 0 /\ w[k + 1] <= w[i]
    BY <1>2, <1>6, <2>1
  <2>3. w[i] \in Nat /\ w[k + 1] \in Nat
    BY <1>2, <2>1
  <2>4. QED
    BY <1>2, <2>2, <2>3
<1>10. QED
  BY <1>1, <1>3, <1>6, <1>8, <1>9

\* Arithmetic on bytes.
LEMMA ByteArithmetic ==
    /\ \A x \in Nat : x < 256 => x % 256 = x
    /\ \A x \in Int : x % 256 \in 0 .. 255
  OBVIOUS

-----------------------------------------------------------------------------
(* Schedule.                                                               *)

\* Linking a free slot behind the first p entries inserts it into the sequence.
LEMMA LinkInserts ==
    ASSUME NEW q, NEW s, Fields(q), Orderly(q, s),
           NEW slot \in FreeSlots(q), NEW p \in 0 .. Len(s),
           NEW note \in Note, NEW velocity \in Velocity, NEW when \in Delay,
           \A i \in 1 .. Len(s) : /\ i <= p => q.entries[s[i]].when <= when
                                  /\ i > p => when < q.entries[s[i]].when
    PROVE  LET r == Link(q, slot, p, note, velocity, when, 0)
           IN  /\ Fields(r)
               /\ \E t \in Chains :
                    /\ Orderly(r, t)
                    /\ Events(r, t) = PutIn(Events(q, s), p + 1,
                                            Timed!Event(note, velocity, when))
<1> DEFINE k   == Len(s)
           new == [note |-> note, velocity |-> velocity, when |-> when,
                   next |-> NextOf(s, p), tag |-> 0]
           r   == Link(q, slot, p, note, velocity, when, 0)
           t   == [i \in 1 .. k + 1 |-> IF i <= p THEN s[i] ELSE IF i = p + 1 THEN slot ELSE s[i - 1]]
<1>1. /\ k \in 0 .. kEventSchedulerSize - 1 /\ k \in Nat /\ s \in [1 .. k -> Slot] /\ Distinct(s)
      /\ \A i \in Nat : NextOf(s, i) \in 0 .. kEventSchedulerSize - 1
      /\ s \in Chains /\ IsList(q, s) /\ List(q) = s
  BY ChainFacts, ListIs DEF Orderly
<1>2. /\ q.entries \in [Slot -> Entry] /\ q.root \in Byte /\ q.size = k
      /\ slot \in Slot /\ slot \notin Occupied(q) /\ slot \notin Slots(s)
      /\ Slots(s) = Occupied(q) /\ p \in Nat /\ p <= k
  BY <1>1 DEF Fields, Queue, Orderly, FreeSlots
<1>3. \A i \in 1 .. k : s[i] # slot /\ s[i] \in Slot
  BY <1>1, <1>2 DEF Slots
<1>4. r = [entries |-> [i \in Slot |->
                          IF i = slot THEN new
                          ELSE IF p > 0 /\ i = s[p] THEN [q.entries[i] EXCEPT !.next = slot]
                          ELSE q.entries[i]],
           root |-> IF p = 0 THEN slot ELSE q.root,
           size |-> (k + 1) % 256]
  BY <1>1, <1>2 DEF Link
<1> HIDE DEF k, r
<1>5. /\ r.entries[slot] = new
      /\ p > 0 => r.entries[s[p]] = [q.entries[s[p]] EXCEPT !.next = slot]
      /\ \A i \in Slot : i # slot /\ (p > 0 => i # s[p]) => r.entries[i] = q.entries[i]
      /\ r.root = IF p = 0 THEN slot ELSE q.root
      /\ r.size = (k + 1) % 256
  <2>1. p > 0 => s[p] \in Slot /\ s[p] # slot
    BY <1>2, <1>3 DEF k
  <2>2. QED
    BY <1>2, <1>4, <2>1
<1>6. new \in Entry
  <2>1. note \in 0 .. 255 /\ velocity \in 0 .. 255 /\ when \in 0 .. 255
    BY DataAssumption, DelayFacts
  <2>2. NextOf(s, p) \in 0 .. 255
    <3>1. NextOf(s, p) \in 0 .. kEventSchedulerSize - 1
      BY <1>1, <1>2
    <3>2. 0 .. kEventSchedulerSize - 1 \subseteq 0 .. 255
      BY SlotFacts
    <3>3. QED
      BY <3>1, <3>2, Zenon
  <2>3. QED
    BY <2>1, <2>2 DEF Entry, Byte
<1> HIDE DEF new
<1>7. \A i \in Slot : /\ r.entries[i] \in Entry
                      /\ i # slot => /\ r.entries[i].note = q.entries[i].note
                                     /\ r.entries[i].velocity = q.entries[i].velocity
                                     /\ r.entries[i].when = q.entries[i].when
  <2>1. SUFFICES ASSUME NEW i \in Slot
                 PROVE  /\ r.entries[i] \in Entry
                        /\ i # slot => /\ r.entries[i].note = q.entries[i].note
                                       /\ r.entries[i].velocity = q.entries[i].velocity
                                       /\ r.entries[i].when = q.entries[i].when
    OBVIOUS
  <2>2. CASE i = slot
    BY <1>5, <1>6, <2>2
  <2>3. CASE i # slot /\ (p > 0 => i # s[p])
    BY <1>2, <1>5, <2>3
  <2>4. CASE p > 0 /\ i = s[p] /\ i # slot
    <3>1. slot \in Byte
      BY <1>2, SlotFacts DEF Byte
    <3>2. q.entries[i] \in Entry /\ r.entries[i] = [q.entries[i] EXCEPT !.next = slot]
      BY <1>2, <1>5, <2>4
    <3>3. r.entries[i] = [note |-> q.entries[i].note, velocity |-> q.entries[i].velocity,
                          when |-> q.entries[i].when, next |-> slot, tag |-> q.entries[i].tag]
      BY <3>2 DEF Entry
    <3>4. QED
      BY <3>1, <3>2, <3>3 DEF Entry
  <2>5. QED
    BY <2>2, <2>3, <2>4
<1>8. Occupied(r) = Occupied(q) \cup {slot}
  <2>1. r.entries[slot].note = note /\ note # kFreeSlot
    <3>1. note # kFreeSlot
      BY DataAssumption DEF kFreeSlot
    <3>2. r.entries[slot].note = note
      BY <1>5 DEF new
    <3>3. QED
      BY <3>1, <3>2
  <2>2. QED
    BY <1>2, <1>7, <2>1 DEF Occupied
<1>9. Fields(r)
  <2>1. r.entries \in [Slot -> Entry] /\ r.root \in Byte /\ r.size \in Byte
    <3>1. r.entries \in [Slot -> Entry]
      <4>1. DOMAIN r.entries = Slot /\ r.entries = [i \in Slot |-> r.entries[i]]
        BY <1>4
      <4>2. QED
        BY <1>7, <4>1
    <3>2. r.root \in Byte
      BY <1>2, <1>5, SlotFacts DEF Byte
    <3>3. r.size \in Byte
      <4>1. k + 1 \in Int
        BY <1>1
      <4>2. (k + 1) % 256 \in 0 .. 255
        BY <4>1, ByteArithmetic, Zenon
      <4>3. r.size = (k + 1) % 256
        BY <1>5
      <4>4. QED
        BY <4>2, <4>3, Zenon DEF Byte
    <3>4. QED
      BY <3>1, <3>2, <3>3
  <2>2. r \in Queue
    BY <1>4, <2>1 DEF Queue
  <2>3. ASSUME NEW i \in Occupied(r)
        PROVE  /\ r.entries[i].note \in Note \cup {kZombieSlot}
               /\ r.entries[i].velocity \in Velocity
               /\ r.entries[i].when \in Delay
    <3>1. CASE i = slot
      BY <1>5, <3>1 DEF new
    <3>2. CASE i # slot
      BY <1>7, <1>8, <3>2 DEF Fields, Occupied
    <3>3. QED
      BY <3>1, <3>2
  <2>4. QED
    BY <2>2, <2>3 DEF Fields
<1>10. /\ Len(t) = k + 1 /\ t \in Seq(Slot)
       /\ \A i \in 1 .. k + 1 : /\ i <= p => t[i] = s[i]
                                /\ i = p + 1 => t[i] = slot
                                /\ i > p + 1 => t[i] = s[i - 1] /\ i - 1 \in 1 .. k
  <2>1. \A i \in 1 .. k + 1 : /\ i <= p => i \in 1 .. k
                              /\ i > p + 1 => i - 1 \in 1 .. k
                              /\ i \in Int
    BY <1>1, <1>2, SMTT(60)
  <2>2. \A i \in 1 .. k + 1 : /\ i <= p => t[i] = s[i]
                              /\ i = p + 1 => t[i] = slot
                              /\ i > p + 1 => t[i] = s[i - 1]
    BY <1>2, <2>1
  <2>3. \A i \in 1 .. k + 1 : t[i] \in Slot
    BY <1>2, <1>3, <2>1, <2>2 DEF k
  <2>4. k + 1 \in Nat
    BY <1>1
  <2>5. t = [i \in 1 .. k + 1 |-> t[i]]
    OBVIOUS
  <2> HIDE DEF t
  <2>6. t \in Seq(Slot) /\ Len(t) = k + 1
    BY <2>3, <2>4, <2>5
  <2>7. QED
    BY <2>1, <2>2, <2>6
<1> HIDE DEF t
<1>11. t \in Chains
  <2>1. ASSUME NEW i \in 1 .. k + 1, NEW j \in 1 .. k + 1, t[i] = t[j], i < j PROVE FALSE
    <3>1. CASE j <= p
      BY <1>1, <1>2, <1>10, <2>1, <3>1 DEF Distinct, k
    <3>2. CASE j = p + 1
      BY <1>1, <1>2, <1>3, <1>10, <2>1, <3>2 DEF k
    <3>3. CASE j > p + 1 /\ i <= p
      <4>1. s[i] = s[j - 1] /\ i \in 1 .. k /\ j - 1 \in 1 .. k /\ i # j - 1
        BY <1>1, <1>2, <1>10, <2>1, <3>3
      <4>2. QED
        BY <1>1, <4>1 DEF Distinct, k
    <3>4. CASE j > p + 1 /\ i = p + 1
      BY <1>1, <1>3, <1>10, <2>1, <3>4 DEF k
    <3>5. CASE j > p + 1 /\ i > p + 1
      <4>1. s[i - 1] = s[j - 1] /\ i - 1 \in 1 .. k /\ j - 1 \in 1 .. k /\ i - 1 # j - 1
        <5>1. i \in Int /\ j \in Int
          OBVIOUS
        <5>2. t[i] = s[i - 1] /\ i - 1 \in 1 .. k /\ t[j] = s[j - 1] /\ j - 1 \in 1 .. k
          BY <1>10, <3>5
        <5>3. i - 1 # j - 1
          BY <2>1, <5>1
        <5>4. QED
          BY <2>1, <5>2, <5>3
      <4>2. QED
        BY <1>1, <4>1 DEF Distinct, k
    <3>6. i \in Int /\ j \in Int /\ p \in Int
      BY <1>2
    <3>7. QED
      BY <2>1, <3>1, <3>2, <3>3, <3>4, <3>5, <3>6
  <2>2. Distinct(t)
    <3>1. SUFFICES ASSUME NEW i \in 1 .. k + 1, NEW j \in 1 .. k + 1, t[i] = t[j] PROVE i = j
      BY <1>10 DEF Distinct
    <3>2. ~ (i < j) /\ ~ (j < i)
      BY <2>1, <3>1
    <3>3. QED
      BY <1>1, <3>2
  <2>3. QED
    BY <1>10, <2>2, ChainIs
<1>12. IsList(r, t)
  <2>1. r.root = NextOf(t, 0)
    <3>1. NextOf(t, 0) = t[1] /\ 1 \in 1 .. k + 1
      BY <1>1, <1>10 DEF NextOf
    <3>2. CASE p = 0
      BY <1>5, <1>10, <3>1, <3>2
    <3>3. CASE p # 0
      <4>1. q.root = s[1]
        BY <1>1, <1>2, <3>3 DEF IsList, NextOf, k
      <4>2. t[1] = s[1]
        BY <1>2, <1>10, <3>1, <3>3
      <4>3. QED
        BY <1>5, <3>1, <3>3, <4>1, <4>2
    <3>4. QED
      BY <3>2, <3>3
  <2>2. ASSUME NEW i \in 1 .. k + 1 PROVE r.entries[t[i]].next = NextOf(t, i)
    <3>1. i \in Int /\ p \in Int /\ k \in Int
      BY <1>1, <1>2
    <3>2. i < k + 1 => NextOf(t, i) = t[i + 1] /\ i + 1 \in 1 .. k + 1
      BY <1>1, <1>10 DEF NextOf
    <3>3. i = k + 1 => NextOf(t, i) = 0
      BY <1>1, <1>10 DEF NextOf
    <3>4. CASE i = p + 1
      <4>1. r.entries[t[i]].next = NextOf(s, p)
        BY <1>5, <1>10, <3>4 DEF new
      <4>2. CASE p < k
        <5>1. NextOf(s, p) = s[p + 1]
          BY <4>2 DEF NextOf, k
        <5>2. t[i + 1] = s[i + 1 - 1] /\ i + 1 - 1 = p + 1
          BY <1>10, <3>1, <3>2, <3>4, <4>2
        <5>3. QED
          BY <3>1, <3>2, <3>4, <4>1, <4>2, <5>1, <5>2
      <4>3. CASE p = k
        BY <1>1, <3>3, <3>4, <4>1, <4>3 DEF NextOf, k
      <4>4. QED
        BY <1>2, <3>1, <4>2, <4>3
    <3>5. CASE i = p
      <4>1. t[i] = s[p] /\ r.entries[s[p]] = [q.entries[s[p]] EXCEPT !.next = slot]
        BY <1>2, <1>5, <1>10, <3>5
      <4>2. q.entries[s[p]] \in Entry
        BY <1>2, <1>3, <3>1, <3>5 DEF k
      <4>3. r.entries[s[p]].next = slot
        BY <4>1, <4>2 DEF Entry
      <4>4. t[i + 1] = slot /\ i < k + 1
        BY <1>2, <1>10, <3>1, <3>2, <3>5
      <4>5. QED
        BY <3>2, <4>1, <4>3, <4>4
    <3>6. CASE i < p
      <4>1. i \in 1 .. k /\ i + 1 <= p /\ i < k + 1 /\ i < k
        BY <1>1, <1>2, <3>1, <3>6
      <4>2. t[i] = s[i] /\ t[i + 1] = s[i + 1]
        BY <1>10, <3>1, <3>2, <3>6, <4>1
      <4>3. s[i] # slot /\ s[i] # s[p] /\ s[i] \in Slot
        BY <1>1, <1>2, <1>3, <3>1, <3>6, <4>1 DEF Distinct, k
      <4>4. r.entries[s[i]] = q.entries[s[i]]
        BY <1>5, <4>3
      <4>5. q.entries[s[i]].next = s[i + 1]
        BY <1>1, <4>1 DEF IsList, NextOf, k
      <4>6. QED
        BY <3>2, <4>1, <4>2, <4>4, <4>5
    <3>7. CASE i > p + 1
      <4>1. t[i] = s[i - 1] /\ i - 1 \in 1 .. k /\ i - 1 # p
        BY <1>10, <3>1, <3>7
      <4>2. s[i - 1] # slot /\ s[i - 1] \in Slot /\ (p > 0 => s[i - 1] # s[p])
        <5>1. p > 0 => p \in 1 .. k
          BY <1>2
        <5>2. s[i - 1] # slot /\ s[i - 1] \in Slot
          BY <1>3, <4>1
        <5>3. QED
          BY <1>1, <4>1, <5>1, <5>2 DEF Distinct, k
      <4>3. r.entries[s[i - 1]] = q.entries[s[i - 1]]
        BY <1>5, <4>2
      <4>4. q.entries[s[i - 1]].next = NextOf(s, i - 1)
        BY <1>1, <4>1 DEF IsList, k
      <4>5. CASE i < k + 1
        <5>1. NextOf(s, i - 1) = s[i]
          BY <3>1, <4>5 DEF NextOf, k
        <5>2. t[i + 1] = s[i + 1 - 1] /\ i + 1 - 1 = i
          BY <1>10, <3>1, <3>2, <3>7, <4>5
        <5>3. QED
          BY <3>2, <4>1, <4>3, <4>4, <4>5, <5>1, <5>2
      <4>6. CASE i = k + 1
        <5>1. NextOf(s, i - 1) = 0
          BY <3>1, <4>6 DEF NextOf, k
        <5>2. QED
          BY <3>3, <4>1, <4>3, <4>4, <4>6, <5>1
      <4>7. QED
        BY <3>1, <4>5, <4>6
    <3>8. QED
      BY <3>1, <3>4, <3>5, <3>6, <3>7
  <2>3. QED
    BY <1>10, <2>1, <2>2 DEF IsList
<1>13. Slots(t) = Occupied(r)
  <2>1. ASSUME NEW i \in 1 .. k PROVE s[i] \in Slots(t)
    <3>1. CASE i <= p
      <4>1. i \in 1 .. k + 1 /\ t[i] = s[i]
        BY <1>1, <1>10, <3>1
      <4>2. QED
        BY <1>10, <4>1 DEF Slots
    <3>2. CASE i > p
      <4>1. i + 1 \in 1 .. k + 1 /\ i + 1 > p + 1 /\ i + 1 - 1 = i
        BY <1>1, <1>2, <3>2
      <4>2. t[i + 1] = s[i]
        BY <1>10, <4>1
      <4>3. QED
        BY <1>10, <4>1, <4>2 DEF Slots
    <3>3. QED
      BY <1>1, <1>2, <3>1, <3>2
  <2>2. slot \in Slots(t)
    <3>1. p + 1 \in 1 .. k + 1 /\ t[p + 1] = slot
      BY <1>1, <1>2, <1>10
    <3>2. QED
      BY <1>10, <3>1 DEF Slots
  <2>3. ASSUME NEW i \in 1 .. k + 1 PROVE t[i] \in Slots(s) \cup {slot}
    <3>1. CASE i <= p
      <4>1. i \in 1 .. k /\ t[i] = s[i]
        BY <1>1, <1>2, <1>10, <3>1
      <4>2. QED
        BY <4>1 DEF Slots, k
    <3>2. CASE i = p + 1
      BY <1>10, <3>2
    <3>3. CASE i > p + 1
      <4>1. i - 1 \in 1 .. k /\ t[i] = s[i - 1]
        BY <1>10, <3>3
      <4>2. QED
        BY <4>1 DEF Slots, k
    <3>4. i \in Int /\ p \in Int
      BY <1>2
    <3>5. QED
      BY <3>1, <3>2, <3>3, <3>4
  <2>4. Slots(t) = Slots(s) \cup {slot}
    BY <1>10, <2>1, <2>2, <2>3 DEF Slots, k
  <2>5. QED
    BY <1>2, <1>8, <2>4
<1>14. r.size = Len(t)
  <2>1. Len(t) <= kEventSchedulerSize - 1
    BY <1>11, ChainFacts
  <2>2. k + 1 \in Nat /\ k + 1 < 256
    BY <1>1, <1>10, <2>1, SlotFacts
  <2>3. (k + 1) % 256 = k + 1
    BY <2>2, ByteArithmetic, Zenon
  <2>4. QED
    BY <1>5, <1>10, <2>3
<1>15. Sorted(r, t)
  <2> DEFINE w == [i \in 1 .. k |-> q.entries[s[i]].when]
             x == [i \in 1 .. k + 1 |-> r.entries[t[i]].when]
  <2>1. /\ w \in [1 .. k -> Nat] /\ when \in Nat
        /\ \A i, j \in 1 .. k : i <= j => w[i] <= w[j]
        /\ \A i \in 1 .. k : (i <= p => w[i] <= when) /\ (i > p => when < w[i])
    BY WhenFacts, DelayFacts DEF k
  <2>2. \A i \in 1 .. k : r.entries[s[i]].when = w[i]
    BY <1>3, <1>7 DEF k
  <2>3. \A i \in 1 .. k + 1 : /\ i <= p => x[i] = w[i] /\ i \in 1 .. k
                              /\ i = p + 1 => x[i] = when
                              /\ i > p + 1 => x[i] = w[i - 1] /\ i - 1 \in 1 .. k
    <3>1. \A i \in 1 .. k + 1 : i <= p => i \in 1 .. k
      BY <1>1, <1>2
    <3>2. r.entries[slot].when = when
      BY <1>5 DEF new
    <3> HIDE DEF w
    <3>3. QED
      BY <1>10, <2>2, <3>1, <3>2
  <2> HIDE DEF w, x
  <2>4. ASSUME NEW i \in 1 .. k + 1, NEW j \in 1 .. k + 1, i <= j PROVE x[i] <= x[j]
    <3>1. i \in Int /\ j \in Int /\ p \in Int /\ i \in Nat
      BY <1>2
    <3>2. CASE j <= p
      BY <2>1, <2>3, <2>4, <3>1, <3>2
    <3>3. CASE j = p + 1 /\ i <= p
      BY <2>1, <2>3, <3>1, <3>3
    <3>4. CASE j = p + 1 /\ i = p + 1
      BY <2>1, <2>3, <3>1, <3>4
    <3>5. CASE j > p + 1 /\ i <= p
      <4>1. w[i] <= w[j - 1]
        <5>1. i \in 1 .. k /\ j - 1 \in 1 .. k /\ i <= j - 1
          BY <2>3, <3>1, <3>5
        <5>2. QED
          BY <2>1, <5>1
      <4>2. QED
        BY <2>3, <3>1, <3>5, <4>1
    <3>6. CASE j > p + 1 /\ i = p + 1
      <4>1. j - 1 \in 1 .. k /\ j - 1 > p
        BY <2>3, <3>1, <3>6
      <4>2. w[j - 1] \in Nat /\ when < w[j - 1]
        BY <2>1, <4>1
      <4>3. x[i] = when /\ x[j] = w[j - 1]
        BY <2>3, <3>1, <3>6
      <4>4. QED
        BY <2>1, <4>2, <4>3
    <3>7. CASE j > p + 1 /\ i > p + 1
      <4>1. i - 1 \in 1 .. k /\ j - 1 \in 1 .. k /\ i - 1 <= j - 1
        BY <2>3, <2>4, <3>1, <3>7
      <4>2. w[i - 1] <= w[j - 1]
        BY <2>1, <4>1
      <4>3. QED
        BY <2>3, <3>1, <3>7, <4>2
    <3>8. QED
      BY <2>4, <3>1, <3>2, <3>3, <3>4, <3>5, <3>6, <3>7
  <2>5. QED
    BY <1>10, <2>4 DEF Sorted, x
<1>16. Events(r, t) = PutIn(Events(q, s), p + 1, Timed!Event(note, velocity, when))
  <2> DEFINE e    == Timed!Event(note, velocity, when)
             E(i) == [note     |-> r.entries[t[i]].note,
                      velocity |-> r.entries[t[i]].velocity,
                      wait     |-> r.entries[t[i]].when]
  <2>1. PICK line : line = Events(q, s)
    OBVIOUS
  <2>2. /\ line \in Seq(Waiter) /\ Len(line) = k
        /\ \A i \in 1 .. k : line[i] = [note     |-> q.entries[s[i]].note,
                                        velocity |-> q.entries[s[i]].velocity,
                                        wait     |-> q.entries[s[i]].when]
    BY <2>1, EventsAre DEF k
  <2>3. e \in Waiter /\ e = [note |-> note, velocity |-> velocity, wait |-> when]
    BY DEF Timed!Event, Waiter
  <2> HIDE DEF e
  <2>4. p + 1 \in 1 .. Len(line) + 1
    BY <1>1, <1>2, <2>2
  <2>5. PutIn(line, p + 1, e)
          = [i \in 1 .. k + 1 |->
               IF i < p + 1 THEN line[i] ELSE IF i = p + 1 THEN e ELSE line[i - 1]]
    <3>1. PutIn(line, p + 1, e)
            = [i \in 1 .. Len(line) + 1 |->
                 IF i < p + 1 THEN line[i] ELSE IF i = p + 1 THEN e ELSE line[i - 1]]
      <4>1. PICK m \in 1 .. Len(line) + 1 : m = p + 1
        BY <2>4
      <4>2. line \in Seq(Waiter) /\ e \in Waiter
        BY <2>2, <2>3
      <4>3. PutIn(line, m, e)
              = [i \in 1 .. Len(line) + 1 |->
                   IF i < m THEN line[i] ELSE IF i = m THEN e ELSE line[i - 1]]
        BY <4>2, PutInIs
      <4>4. QED
        BY <4>1, <4>3, Zenon
    <3>2. QED
      BY <2>2, <3>1, Zenon
  <2>6. Events(r, t) = [i \in 1 .. k + 1 |-> E(i)]
    BY <1>10, Zenon DEF Events
  <2>7. ASSUME NEW i \in 1 .. k + 1
        PROVE  E(i) = IF i < p + 1 THEN line[i] ELSE IF i = p + 1 THEN e ELSE line[i - 1]
    <3>1. i \in Int /\ p \in Int
      BY <1>2
    <3>2. \A j \in 1 .. k : /\ r.entries[s[j]].note = q.entries[s[j]].note
                            /\ r.entries[s[j]].velocity = q.entries[s[j]].velocity
                            /\ r.entries[s[j]].when = q.entries[s[j]].when
      BY <1>3, <1>7
    <3>3. CASE i < p + 1
      <4>1. i \in 1 .. k /\ i <= p /\ t[i] = s[i]
        BY <1>1, <1>2, <1>10, <3>1, <3>3
      <4>2. E(i) = line[i]
        BY <2>2, <3>2, <4>1
      <4>3. QED
        BY <3>3, <4>2
    <3>4. CASE i = p + 1
      <4>1. t[i] = slot /\ r.entries[slot] = new
        BY <1>5, <1>10, <3>4
      <4>2. E(i) = e
        BY <2>3, <4>1 DEF new
      <4>3. QED
        BY <3>1, <3>4, <4>2
    <3>5. CASE i > p + 1
      <4>1. i - 1 \in 1 .. k /\ t[i] = s[i - 1]
        BY <1>10, <3>5
      <4>2. E(i) = line[i - 1]
        <5>1. PICK j \in 1 .. k : j = i - 1 /\ t[i] = s[j]
          BY <4>1
        <5>2. line[j] = [note     |-> q.entries[s[j]].note,
                         velocity |-> q.entries[s[j]].velocity,
                         wait     |-> q.entries[s[j]].when]
          BY <2>2, Zenon
        <5>3. /\ r.entries[t[i]].note = q.entries[s[j]].note
              /\ r.entries[t[i]].velocity = q.entries[s[j]].velocity
              /\ r.entries[t[i]].when = q.entries[s[j]].when
          BY <3>2, <5>1
        <5>4. QED
          BY <5>1, <5>2, <5>3
      <4>3. ~ (i < p + 1) /\ i # p + 1
        BY <3>1, <3>5
      <4>4. QED
        BY <4>2, <4>3
    <3>6. QED
      BY <3>1, <3>3, <3>4, <3>5
  <2> HIDE DEF E
  <2>8. Events(r, t) = PutIn(line, p + 1, e)
    BY <2>5, <2>6, <2>7, Zenon
  <2>9. QED
    BY <2>1, <2>8 DEF e
<1>17. QED
  BY <1>9, <1>11, <1>12, <1>13, <1>14, <1>15, <1>16 DEF Orderly, r

\* The place of a new event in the line is the one Schedule finds in the list.
LEMMA InsertedIs ==
    ASSUME NEW q, NEW s, Fields(q), Orderly(q, s),
           NEW note \in Note, NEW velocity \in Velocity, NEW when \in Delay
    PROVE  LET e == Timed!Event(note, velocity, when)
           IN  Timed!Inserted(Events(q, s), e)
                 = PutIn(Events(q, s), InsertPosition(q, when) + 1, e)
<1> DEFINE e      == Timed!Event(note, velocity, when)
           places(line) == { p \in 1 .. Len(line) + 1 :
                               p = Len(line) + 1 \/ e.wait < line[p].wait }
<1>1. PICK line : line = Events(q, s)
  OBVIOUS
<1>2. /\ Len(line) = Len(s) /\ Len(s) \in Nat
      /\ \A i \in 1 .. Len(s) : line[i].wait = q.entries[s[i]].when
  <2>1. /\ Len(Events(q, s)) = Len(s) /\ Len(s) \in Nat
        /\ \A i \in 1 .. Len(s) : Events(q, s)[i].wait = q.entries[s[i]].when
    BY EventsAre
  <2>2. QED
    BY <1>1, <2>1
<1>3. PICK p \in 0 .. Len(s) :
        /\ p = InsertPosition(q, when)
        /\ \A i \in 1 .. Len(s) : /\ i <= p => q.entries[s[i]].when <= when
                                  /\ i > p => when < q.entries[s[i]].when
  BY InsertPositionIs
<1>4. \A i \in 1 .. Len(s) : q.entries[s[i]].when \in Nat
  <2>1. \A i \in 1 .. Len(s) : q.entries[s[i]].when \in Delay
    BY DEF Orderly, Slots, Fields
  <2>2. QED
    BY <2>1, DelayFacts
<1>5. e.wait = when /\ when \in Nat
  BY DelayFacts DEF Timed!Event
<1> HIDE DEF e
<1>6. p + 1 \in places(line)
  <2>1. p + 1 \in 1 .. Len(s) + 1 /\ (p + 1 = Len(s) + 1 \/ p + 1 \in 1 .. Len(s))
    BY <1>2
  <2>2. p + 1 \in 1 .. Len(s) => when < line[p + 1].wait
    BY <1>2, <1>3
  <2>3. QED
    BY <1>2, <1>5, <2>1, <2>2
<1>7. ASSUME NEW m \in places(line) PROVE p + 1 <= m
  <2>1. m \in 1 .. Len(s) + 1 /\ (m = Len(s) + 1 \/ when < line[m].wait)
    BY <1>2, <1>5
  <2>2. CASE m = Len(s) + 1
    BY <1>2, <2>2
  <2>3. CASE m \in 1 .. Len(s)
    <3>1. when < line[m].wait
      BY <1>2, <2>1, <2>3
    <3>2. ~ (m <= p)
      BY <1>2, <1>3, <1>4, <1>5, <2>3, <3>1
    <3>3. QED
      BY <1>2, <2>3, <3>2
  <2>4. m = Len(s) + 1 \/ m \in 1 .. Len(s)
    BY <1>2, <2>1
  <2>5. QED
    BY <2>2, <2>3, <2>4
<1>8. places(line) \subseteq Nat
  BY <1>2
<1>9. Min(places(line)) = p + 1
  <2> HIDE DEF places
  <2>1. QED
    BY <1>6, <1>7, <1>8, MinIs
<1>10. Timed!Inserted(line, e) = PutIn(line, Min(places(line)), e)
  BY Zenon DEF Timed!Inserted, Timed!InsertAt, Timed!Min, Min, PutIn
<1>11. QED
  BY <1>1, <1>3, <1>9, <1>10 DEF e

\* Every slot of the pool is on a list of that length.
LEMMA FullIs ==
    ASSUME NEW s \in Chains
    PROVE  Len(s) = kEventSchedulerSize - 1 <=> Slots(s) = Slot
<1>1. kEventSchedulerSize - 1 \in Nat /\ kEventSchedulerSize - 1 >= 1
      /\ Slot = 1 .. kEventSchedulerSize - 1
  BY SlotFacts DEF Slot
<1>2. s \in Seq(Slot) /\ Distinct(s)
  BY ChainIs
<1>3. PICK N \in Nat : N >= 1 /\ N = kEventSchedulerSize - 1 /\ Slot = 1 .. N
  BY <1>1
<1>4. s \in Seq(1 .. N)
  BY <1>2, <1>3
<1>5. Len(s) = N <=> \A x \in 1 .. N : \E i \in 1 .. Len(s) : s[i] = x
  BY <1>2, <1>3, <1>4, DistinctFits, Zenon
<1>6. Slots(s) \subseteq Slot /\ \A x : x \in Slots(s) <=> \E i \in 1 .. Len(s) : s[i] = x
  BY <1>2 DEF Slots
<1>7. Slots(s) = Slot <=> \A x \in Slot : \E i \in 1 .. Len(s) : s[i] = x
  BY <1>6, Zenon
<1>8. QED
  BY <1>3, <1>5, <1>7, Zenon

\* Schedule keeps the list sorted and complete and puts the event in its place; a full pool
\* it leaves alone.
LEMMA ScheduleKeeps ==
    ASSUME NEW q, NEW s, Fields(q), Orderly(q, s),
           NEW note \in Note, NEW velocity \in Velocity, NEW when \in Delay
    PROVE  LET r == Schedule(q, note, velocity, when, 0)
           IN  /\ Fields(r)
               /\ \E t \in Chains :
                    /\ Orderly(r, t)
                    /\ \/ Len(s) = kEventSchedulerSize - 1 /\ r = q
                       \/ /\ Len(s) < kEventSchedulerSize - 1
                          /\ Events(r, t) = Timed!Inserted(Events(q, s),
                                                          Timed!Event(note, velocity, when))
<1>1. s \in Chains /\ Slots(s) = Occupied(q) /\ Len(s) \in 0 .. kEventSchedulerSize - 1
  BY ChainFacts DEF Orderly
<1>2. FreeSlots(q) = {} <=> Len(s) = kEventSchedulerSize - 1
  <2>1. FreeSlots(q) = {} <=> Occupied(q) = Slot
    BY DEF FreeSlots, Occupied
  <2>2. QED
    BY <1>1, <2>1, FullIs
<1>3. CASE FreeSlots(q) = {}
  <2>1. Schedule(q, note, velocity, when, 0) = q
    BY <1>3 DEF Schedule
  <2>2. QED
    BY <1>1, <1>2, <1>3, <2>1
<1>4. CASE FreeSlots(q) # {}
  <2> DEFINE slot == Min(FreeSlots(q))
             p    == InsertPosition(q, when)
             e    == Timed!Event(note, velocity, when)
  <2>1. slot \in FreeSlots(q)
    BY <1>4, MinIn, SlotFacts DEF FreeSlots
  <2>2. /\ p \in 0 .. Len(s)
        /\ \A i \in 1 .. Len(s) : /\ i <= p => q.entries[s[i]].when <= when
                                  /\ i > p => when < q.entries[s[i]].when
    BY InsertPositionIs
  <2>3. Schedule(q, note, velocity, when, 0) = Link(q, slot, p, note, velocity, when, 0)
    BY <1>4 DEF Schedule
  <2>4. Timed!Inserted(Events(q, s), e) = PutIn(Events(q, s), p + 1, e)
    BY InsertedIs
  <2> HIDE DEF slot, p
  <2>5. PICK r : r = Link(q, slot, p, note, velocity, when, 0)
    OBVIOUS
  <2>6. /\ Fields(r)
        /\ \E t \in Chains : /\ Orderly(r, t)
                             /\ Events(r, t) = PutIn(Events(q, s), p + 1, e)
    BY <2>1, <2>2, <2>5, LinkInserts
  <2>7. Len(s) < kEventSchedulerSize - 1
    BY <1>1, <1>2, <1>4, SlotFacts
  <2>8. QED
    BY <2>3, <2>4, <2>5, <2>6, <2>7
<1>5. QED
  BY <1>3, <1>4

-----------------------------------------------------------------------------
(* Remove and Tick.                                                        *)

\* Remove (event_scheduler.cc:58) leaves links and times as they are.
LEMMA RemoveKeeps ==
    ASSUME NEW q, NEW s, Fields(q), Orderly(q, s), NEW note \in Note, NEW velocity \in Velocity
    PROVE  LET r == Remove(q, note, velocity)
           IN  /\ Fields(r) /\ Orderly(r, s)
               /\ Events(r, s) = Timed!Struck(Events(q, s), note, velocity, kZombieSlot)
<1> DEFINE r    == Remove(q, note, velocity)
           hits == Matching(q, note, velocity)
<1>1. r = [q EXCEPT !.entries = [i \in Slot |->
             IF i \in hits THEN [q.entries[i] EXCEPT !.note = kZombieSlot] ELSE q.entries[i]]]
  BY DEF Remove, Mark
<1>2. q.entries \in [Slot -> Entry] /\ q.root \in Byte /\ q.size \in Byte
      /\ q = [entries |-> q.entries, root |-> q.root, size |-> q.size]
  BY DEF Fields, Queue
<1>3. s \in Chains /\ IsList(q, s) /\ List(q) = s /\ s \in [1 .. Len(s) -> Slot]
  BY ListIs, ChainFacts DEF Orderly
<1>4. hits \subseteq Occupied(q)
  BY <1>3 DEF Matching, Orderly
<1> HIDE DEF hits, r
<1>5. r = [entries |-> [i \in Slot |->
             IF i \in hits THEN [q.entries[i] EXCEPT !.note = kZombieSlot] ELSE q.entries[i]],
           root |-> q.root, size |-> q.size]
  BY <1>1, <1>2
<1>6. ASSUME NEW i \in Slot
      PROVE  /\ r.entries[i] \in Entry
             /\ r.entries[i].note = IF i \in hits THEN kZombieSlot ELSE q.entries[i].note
             /\ r.entries[i].velocity = q.entries[i].velocity
             /\ r.entries[i].when = q.entries[i].when
             /\ r.entries[i].next = q.entries[i].next
  <2>1. CASE i \in hits
    <3>1. q.entries[i] \in Entry /\ r.entries[i] = [q.entries[i] EXCEPT !.note = kZombieSlot]
      BY <1>2, <1>5, <2>1
    <3>2. r.entries[i] = [note |-> kZombieSlot, velocity |-> q.entries[i].velocity,
                          when |-> q.entries[i].when, next |-> q.entries[i].next,
                          tag |-> q.entries[i].tag]
      BY <3>1 DEF Entry
    <3>3. kZombieSlot \in Byte
      BY DEF kZombieSlot, Byte
    <3>4. QED
      BY <2>1, <3>1, <3>2, <3>3 DEF Entry
  <2>2. CASE i \notin hits
    BY <1>2, <1>5, <2>2
  <2>3. QED
    BY <2>1, <2>2
<1>7. r.root = q.root /\ r.size = q.size
  BY <1>5
<1>8. Occupied(r) = Occupied(q)
  BY <1>4, <1>6 DEF Occupied, kZombieSlot, kFreeSlot
<1>9. r \in Queue
  <2>1. r.entries = [i \in Slot |-> r.entries[i]]
    BY <1>5
  <2>2. r.entries \in [Slot -> Entry]
    BY <1>6, <2>1
  <2>3. r = [entries |-> r.entries, root |-> q.root, size |-> q.size]
    BY <1>5
  <2>4. QED
    BY <1>2, <2>2, <2>3 DEF Queue
<1>10. Fields(r)
  BY <1>6, <1>8, <1>9 DEF Fields, Occupied
<1>11. IsList(r, s) /\ Sorted(r, s)
  BY <1>3, <1>6, <1>7 DEF IsList, Sorted, Orderly
<1>12. Events(r, s) = Timed!Struck(Events(q, s), note, velocity, kZombieSlot)
  <2> DEFINE Strike(e) == IF e.note = note /\ e.velocity = velocity
                            THEN [e EXCEPT !.note = kZombieSlot] ELSE e
             E(i) == [note     |-> r.entries[s[i]].note,
                      velocity |-> r.entries[s[i]].velocity,
                      wait     |-> r.entries[s[i]].when]
  <2>1. PICK line : line = Events(q, s)
    OBVIOUS
  <2>2. Len(line) = Len(s)
        /\ \A i \in 1 .. Len(s) : line[i] = [note     |-> q.entries[s[i]].note,
                                             velocity |-> q.entries[s[i]].velocity,
                                             wait     |-> q.entries[s[i]].when]
    <3>1. Len(Events(q, s)) = Len(s)
          /\ \A i \in 1 .. Len(s) :
               Events(q, s)[i] = [note     |-> q.entries[s[i]].note,
                                  velocity |-> q.entries[s[i]].velocity,
                                  wait     |-> q.entries[s[i]].when]
      BY EventsAre
    <3>2. QED
      BY <2>1, <3>1
  <2>3. ASSUME NEW i \in 1 .. Len(s) PROVE E(i) = Strike(line[i])
    <3>1. s[i] \in Slot /\ s[i] \in Slots(s)
      BY <1>3 DEF Slots
    <3>2. s[i] \in hits <=> q.entries[s[i]].note = note /\ q.entries[s[i]].velocity = velocity
      BY <1>3, <3>1 DEF hits, Matching
    <3>3. E(i) = [note     |-> IF s[i] \in hits THEN kZombieSlot ELSE q.entries[s[i]].note,
                  velocity |-> q.entries[s[i]].velocity,
                  wait     |-> q.entries[s[i]].when]
      BY <1>6, <3>1
    <3>4. line[i] = [note     |-> q.entries[s[i]].note,
                     velocity |-> q.entries[s[i]].velocity,
                     wait     |-> q.entries[s[i]].when]
      BY <2>2, Zenon
    <3>5. CASE s[i] \in hits
      BY <3>2, <3>3, <3>4, <3>5
    <3>6. CASE s[i] \notin hits
      BY <3>2, <3>3, <3>4, <3>6
    <3>7. QED
      BY <3>5, <3>6
  <2>4. Events(r, s) = [i \in 1 .. Len(s) |-> E(i)]
    BY Zenon DEF Events
  <2>5. Timed!Struck(line, note, velocity, kZombieSlot) = [i \in 1 .. Len(s) |-> Strike(line[i])]
    BY <2>2 DEF Timed!Struck
  <2> HIDE DEF E, Strike
  <2>6. Events(r, s) = Timed!Struck(line, note, velocity, kZombieSlot)
    BY <2>3, <2>4, <2>5, Zenon
  <2>7. QED
    BY <2>1, <2>6
<1>13. QED
  BY <1>3, <1>7, <1>8, <1>10, <1>11, <1>12 DEF Orderly, r

\* The events that are due are the first ones of the line.
LEMMA DueIs ==
    ASSUME NEW q, NEW s, Fields(q), Orderly(q, s)
    PROVE  Timed!Due(Events(q, s)) = DueCount(q)
<1> DEFINE line == Events(q, s)
           list == Listed(q)
<1>1. Len(list) = Len(s) /\ list = [i \in 1 .. Len(s) |-> q.entries[s[i]]] /\ Len(s) \in Nat
  BY ListedIs, ChainFacts DEF Orderly
<1>2. Len(line) = Len(s) /\ \A i \in 1 .. Len(s) : line[i].wait = q.entries[s[i]].when
  BY EventsAre
<1> HIDE DEF line, list
<1>3. \A i \in 1 .. Len(s) : list[i].when = line[i].wait
  BY <1>1, <1>2
<1>4. \A k \in 0 .. Len(s) : k = Len(s) \/ k + 1 \in 1 .. Len(s)
  <2>1. Len(s) \in Nat
    BY <1>1
  <2>2. QED
    BY <2>1
<1>5. { k \in 0 .. Len(line) : k = Len(line) \/ line[k + 1].wait # 0 }
        = { k \in 0 .. Len(list) : k = Len(list) \/ list[k + 1].when # 0 }
  BY <1>1, <1>2, <1>3, <1>4, Zenon
<1>6. Timed!Due(line) = Min({ k \in 0 .. Len(line) : k = Len(line) \/ line[k + 1].wait # 0 })
  BY Zenon DEF Timed!Due, Timed!Min, Min
<1>7. DueCount(q) = Min({ k \in 0 .. Len(list) : k = Len(list) \/ list[k + 1].when # 0 })
  BY Zenon DEF DueCount, list
<1>8. QED
  BY <1>5, <1>6, <1>7 DEF line

\* SendScheduledNotes (app.cc:206) writes the notes that leave the line.
LEMMA DueNotesAre ==
    ASSUME NEW q, NEW s, Fields(q), Orderly(q, s)
    PROVE  DueNotes(q) = Timed!Leaving(Events(q, s), kZombieSlot)
<1> DEFINE line   == Events(q, s)
           list   == Listed(q)
           due    == DueCount(q)
           out(i) == [note |-> list[i].note, velocity |-> list[i].velocity]
           in(i)  == [note |-> line[i].note, velocity |-> line[i].velocity]
<1>1. due \in 0 .. Len(s) /\ Timed!Due(line) = due /\ Len(s) \in Nat
  BY DueCountIs, DueIs, EventsAre
<1>2. list = [i \in 1 .. Len(s) |-> q.entries[s[i]]]
  BY ListedIs DEF Orderly
<1>3. \A i \in 1 .. Len(s) : /\ line[i].note = q.entries[s[i]].note
                             /\ line[i].velocity = q.entries[s[i]].velocity
  BY EventsAre
<1> HIDE DEF line, list, due
<1>4. \A i \in 1 .. due : i \in 1 .. Len(s)
  BY <1>1
<1>5. \A i \in 1 .. due : out(i) = in(i)
  BY <1>2, <1>3, <1>4
<1>6. DueNotes(q) = Timed!Alive([i \in 1 .. due |-> out(i)], kZombieSlot)
  BY Zenon DEF DueNotes, Timed!Alive, list, due
<1>7. Timed!Leaving(line, kZombieSlot) = Timed!Alive([i \in 1 .. due |-> in(i)], kZombieSlot)
  BY <1>1, Zenon DEF Timed!Leaving
<1> HIDE DEF out, in
<1>8. [i \in 1 .. due |-> out(i)] = [i \in 1 .. due |-> in(i)]
  BY <1>5, Zenon
<1>9. QED
  BY <1>6, <1>7, <1>8 DEF line

\* Tick (event_scheduler.cc:43) cuts the due events off the head; no "when" goes below zero.
LEMMA TickKeeps ==
    ASSUME NEW q, NEW s, Fields(q), Orderly(q, s)
    PROVE  /\ Fields(Tick(q))
           /\ \E t \in Chains : /\ Orderly(Tick(q), t)
                               /\ Events(Tick(q), t) = Timed!Staying(Events(q, s))
<1> DEFINE k       == Len(s)
           due     == DueCount(q)
           leaving == { s[i] : i \in 1 .. due }
           staying == Slots(s) \ leaving
           r       == Tick(q)
           t       == [i \in 1 .. k - due |-> s[i + due]]
<1>1. /\ k \in 0 .. kEventSchedulerSize - 1 /\ k \in Nat /\ s \in [1 .. k -> Slot] /\ Distinct(s)
      /\ \A i \in Nat : NextOf(s, i) \in 0 .. kEventSchedulerSize - 1
      /\ s \in Chains /\ IsList(q, s) /\ List(q) = s
  BY ChainFacts, ListIs DEF Orderly
<1>2. /\ q.entries \in [Slot -> Entry] /\ q.root \in Byte /\ q.size = k
      /\ Slots(s) = Occupied(q)
  BY DEF Fields, Queue, Orderly
<1>3. /\ due \in 0 .. k /\ due \in Nat
      /\ \A i \in 1 .. k : /\ i <= due => q.entries[s[i]].when = 0
                           /\ i > due => q.entries[s[i]].when > 0
  BY DueCountIs
<1>4. r = [entries |-> [i \in Slot |->
                          IF i \in leaving THEN [q.entries[i] EXCEPT !.note = kFreeSlot]
                          ELSE IF i \in staying
                            THEN [q.entries[i] EXCEPT !.when = (@ - 1) % 256]
                          ELSE q.entries[i]],
           root |-> NextOf(s, due),
           size |-> (k - due) % 256]
  BY <1>1, <1>2 DEF Tick
<1> HIDE DEF due, r
<1>5. ASSUME NEW i \in 1 .. k
      PROVE  /\ s[i] \in Slot /\ s[i] \in Slots(s)
             /\ s[i] \in leaving <=> i <= due
             /\ s[i] \in staying <=> i > due
  <2>1. s[i] \in Slot /\ s[i] \in Slots(s)
    BY <1>1 DEF Slots
  <2>2. ASSUME s[i] \in leaving PROVE i <= due
    <3>1. PICK j \in 1 .. due : s[i] = s[j]
      BY <2>2
    <3>2. j \in 1 .. k /\ j <= due
      BY <1>3, <3>1
    <3>3. i = j
      BY <1>1, <3>1, <3>2 DEF Distinct
    <3>4. QED
      BY <3>2, <3>3
  <2>3. ASSUME i <= due PROVE s[i] \in leaving
    <3>1. i \in 1 .. due
      BY <1>3, <2>3
    <3>2. QED
      BY <3>1
  <2> HIDE DEF leaving
  <2>4. s[i] \in staying <=> i > due
    <3>1. i > due <=> ~ (i <= due)
      BY <1>3
    <3>2. QED
      BY <2>1, <2>2, <2>3, <3>1
  <2>5. QED
    BY <2>1, <2>2, <2>3, <2>4
<1>6. leaving \subseteq Slots(s) /\ leaving \cap staying = {}
  <2>1. \A i \in 1 .. due : i \in 1 .. k
    BY <1>3
  <2>2. QED
    BY <2>1 DEF Slots
<1> HIDE DEF leaving, staying
<1>7. ASSUME NEW i \in Slot, i \in leaving
      PROVE  r.entries[i] \in Entry /\ r.entries[i].note = kFreeSlot
  <2>1. q.entries[i] \in Entry /\ r.entries[i] = [q.entries[i] EXCEPT !.note = kFreeSlot]
    BY <1>2, <1>4, <1>7
  <2>2. r.entries[i] = [note |-> kFreeSlot, velocity |-> q.entries[i].velocity,
                        when |-> q.entries[i].when, next |-> q.entries[i].next,
                        tag |-> q.entries[i].tag]
    BY <2>1 DEF Entry
  <2>3. kFreeSlot \in Byte
    BY DEF kFreeSlot, Byte
  <2>4. QED
    BY <2>1, <2>2, <2>3 DEF Entry
<1>8. ASSUME NEW i \in 1 .. k, i > due
      PROVE  /\ q.entries[s[i]].when - 1 \in Delay
             /\ (q.entries[s[i]].when - 1) % 256 = q.entries[s[i]].when - 1
  <2> DEFINE w == q.entries[s[i]].when
  <2>1. w \in Delay /\ w > 0
    BY <1>2, <1>3, <1>5, <1>8 DEF Fields
  <2> HIDE DEF w
  <2>2. w \in Nat /\ w # 0
    BY <2>1, DelayFacts
  <2>3. w - 1 \in Delay
    BY <2>1, <2>2, DelayFacts
  <2>4. w - 1 \in 0 .. 255
    BY <2>3, DelayFacts
  <2>5. w - 1 \in Nat /\ w - 1 < 256
    BY <2>2, <2>4
  <2>6. (w - 1) % 256 = w - 1
    BY <2>5, ByteArithmetic, Zenon
  <2>7. QED
    BY <2>3, <2>6 DEF w
<1>9. ASSUME NEW i \in 1 .. k, i > due
      PROVE  /\ r.entries[s[i]] \in Entry
             /\ r.entries[s[i]].note = q.entries[s[i]].note
             /\ r.entries[s[i]].velocity = q.entries[s[i]].velocity
             /\ r.entries[s[i]].next = q.entries[s[i]].next
             /\ r.entries[s[i]].when = q.entries[s[i]].when - 1
  <2> DEFINE e == q.entries[s[i]]
  <2>1. s[i] \in Slot /\ s[i] \in staying /\ s[i] \notin leaving
    BY <1>5, <1>6, <1>9
  <2>2. e \in Entry
    BY <1>2, <2>1
  <2>3. r.entries[s[i]] = [e EXCEPT !.when = (@ - 1) % 256]
    BY <1>4, <2>1
  <2>4. e.when - 1 \in Delay /\ (e.when - 1) % 256 = e.when - 1
    BY <1>8, <1>9
  <2> HIDE DEF e
  <2>5. r.entries[s[i]] = [note |-> e.note, velocity |-> e.velocity, when |-> e.when - 1,
                           next |-> e.next, tag |-> e.tag]
    BY <2>2, <2>3, <2>4 DEF Entry
  <2>6. e.when - 1 \in Byte
    BY <2>4, DelayFacts DEF Byte
  <2>7. r.entries[s[i]] \in Entry
    BY <2>2, <2>5, <2>6 DEF Entry
  <2>8. QED
    BY <2>5, <2>7 DEF e
<1>10. ASSUME NEW i \in Slot, i \notin Slots(s)
       PROVE  r.entries[i] = q.entries[i]
  BY <1>4, <1>6, <1>10 DEF staying
<1>11. Occupied(r) = { s[i] : i \in { i \in 1 .. k : i > due } }
  <2>1. ASSUME NEW i \in 1 .. k, i > due PROVE s[i] \in Occupied(r)
    BY <1>2, <1>5, <1>9, <2>1 DEF Occupied
  <2>2. ASSUME NEW j \in Occupied(r) PROVE \E i \in 1 .. k : i > due /\ j = s[i]
    <3>1. j \in Slot /\ r.entries[j].note # kFreeSlot
      BY DEF Occupied
    <3>2. j \in Slots(s)
      BY <1>2, <1>10, <3>1 DEF Occupied
    <3>3. PICK i \in 1 .. k : j = s[i]
      BY <3>2 DEF Slots
    <3>4. ~ (i <= due)
      BY <1>5, <1>7, <3>1, <3>3
    <3>5. i > due
      BY <1>3, <3>4
    <3>6. QED
      BY <3>3, <3>5
  <2>3. QED
    BY <2>1, <2>2
<1>12. /\ Len(t) = k - due /\ t \in Seq(Slot) /\ k - due \in Nat
       /\ \A i \in 1 .. k - due : t[i] = s[i + due] /\ i + due \in 1 .. k /\ i + due > due
  <2>1. k - due \in Nat /\ \A i \in 1 .. k - due : i + due \in 1 .. k /\ i + due > due
    BY <1>1, <1>3
  <2>2. \A i \in 1 .. k - due : t[i] = s[i + due] /\ t[i] \in Slot
    BY <1>1, <2>1
  <2>3. t = [i \in 1 .. k - due |-> t[i]]
    OBVIOUS
  <2> HIDE DEF t
  <2>4. t \in Seq(Slot) /\ Len(t) = k - due
    BY <2>1, <2>2, <2>3
  <2>5. QED
    BY <2>1, <2>2, <2>4
<1> HIDE DEF t, k
<1>13. t \in Chains
  <2>1. SUFFICES ASSUME NEW i \in 1 .. k - due, NEW j \in 1 .. k - due, t[i] = t[j] PROVE i = j
    BY <1>12, ChainIs DEF Distinct
  <2>2. s[i + due] = s[j + due] /\ i + due \in 1 .. k /\ j + due \in 1 .. k
    BY <1>12, <2>1
  <2>3. i + due = j + due
    BY <1>1, <2>2 DEF Distinct, k
  <2>4. QED
    BY <1>3, <2>3
<1>14. \A i \in 0 .. k - due : NextOf(t, i) = NextOf(s, i + due)
  <2>1. SUFFICES ASSUME NEW i \in 0 .. k - due PROVE NextOf(t, i) = NextOf(s, i + due)
    OBVIOUS
  <2>2. CASE i = k - due
    <3>1. i + due = k
      BY <1>1, <1>3, <2>2
    <3>2. QED
      BY <1>1, <1>12, <2>2, <3>1 DEF NextOf, k
  <2>3. CASE i < k - due
    <3>1. i + 1 \in 1 .. k - due /\ i + due < k /\ i + 1 + due = i + due + 1
      BY <1>1, <1>3, <2>3
    <3>2. t[i + 1] = s[i + due + 1]
      BY <1>12, <3>1
    <3>3. QED
      BY <1>12, <2>3, <3>1, <3>2 DEF NextOf, k
  <2>4. QED
    BY <1>12, <2>2, <2>3
<1>15. IsList(r, t)
  <2>1. r.root = NextOf(t, 0)
    <3>1. 0 \in 0 .. k - due /\ 0 + due = due
      BY <1>3, <1>12
    <3>2. QED
      BY <1>4, <1>14, <3>1
  <2>2. ASSUME NEW i \in 1 .. k - due PROVE r.entries[t[i]].next = NextOf(t, i)
    <3>1. t[i] = s[i + due] /\ i + due \in 1 .. k /\ i + due > due
      BY <1>12
    <3>2. r.entries[s[i + due]].next = q.entries[s[i + due]].next
      BY <1>9, <3>1
    <3>3. q.entries[s[i + due]].next = NextOf(s, i + due)
      BY <1>1, <3>1 DEF IsList, k
    <3>4. NextOf(t, i) = NextOf(s, i + due)
      <4>1. i \in 0 .. k - due
        OBVIOUS
      <4>2. QED
        BY <1>14, <4>1
    <3>5. QED
      BY <3>1, <3>2, <3>3, <3>4
  <2>3. QED
    BY <1>12, <2>1, <2>2 DEF IsList
<1>16. Slots(t) = Occupied(r)
  <2>1. ASSUME NEW i \in 1 .. k, i > due PROVE s[i] \in Slots(t)
    <3>1. i - due \in 1 .. k - due /\ i - due + due = i
      BY <1>1, <1>3, <2>1
    <3>2. t[i - due] = s[i]
      BY <1>12, <3>1
    <3>3. QED
      BY <1>12, <3>1, <3>2 DEF Slots
  <2>2. ASSUME NEW i \in 1 .. k - due PROVE t[i] \in Occupied(r)
    BY <1>11, <1>12
  <2>3. QED
    BY <1>11, <1>12, <2>1, <2>2 DEF Slots
<1>17. r.size = Len(t)
  <2>1. k - due \in Nat /\ k - due < 256
    BY <1>1, <1>3, SlotFacts
  <2>2. (k - due) % 256 = k - due
    BY <2>1, ByteArithmetic, Zenon
  <2>3. QED
    BY <1>4, <1>12, <2>2
<1>18. Sorted(r, t)
  <2>1. SUFFICES ASSUME NEW i \in 1 .. k - due, NEW j \in 1 .. k - due, i <= j
                 PROVE  r.entries[t[i]].when <= r.entries[t[j]].when
    BY <1>12 DEF Sorted
  <2> DEFINE w == [m \in 1 .. k |-> q.entries[s[m]].when]
  <2>2. w \in [1 .. k -> Nat] /\ \A m, n \in 1 .. k : m <= n => w[m] <= w[n]
    BY WhenFacts DEF k
  <2>3. /\ t[i] = s[i + due] /\ i + due \in 1 .. k /\ i + due > due
        /\ t[j] = s[j + due] /\ j + due \in 1 .. k /\ j + due > due
        /\ i + due <= j + due
    <3>1. i + due <= j + due
      BY <1>3, <2>1
    <3>2. QED
      BY <1>12, <3>1
  <2>4. r.entries[t[i]].when = w[i + due] - 1 /\ r.entries[t[j]].when = w[j + due] - 1
    BY <1>9, <2>3
  <2> HIDE DEF w
  <2>5. w[i + due] <= w[j + due] /\ w[i + due] \in Nat /\ w[j + due] \in Nat
    BY <2>2, <2>3
  <2>6. QED
    BY <2>4, <2>5
<1>19. Fields(r)
  <2>1. r.entries \in [Slot -> Entry]
    <3>1. r.entries = [i \in Slot |-> r.entries[i]]
      BY <1>4
    <3>2. ASSUME NEW i \in Slot PROVE r.entries[i] \in Entry
      <4>1. CASE i \notin Slots(s)
        BY <1>2, <1>10, <4>1
      <4>2. CASE i \in Slots(s)
        <5>1. PICK j \in 1 .. k : i = s[j]
          BY <4>2 DEF Slots, k
        <5>2. j <= due \/ j > due
          BY <1>3
        <5>3. QED
          BY <1>5, <1>7, <1>9, <5>1, <5>2
      <4>3. QED
        BY <4>1, <4>2
    <3>3. QED
      BY <3>1, <3>2
  <2>2. r.root \in Byte
    <3>1. r.root \in 0 .. kEventSchedulerSize - 1
      BY <1>1, <1>3, <1>4
    <3>2. 0 .. kEventSchedulerSize - 1 \subseteq Byte
      BY SlotFacts DEF Byte
    <3>3. QED
      BY <3>1, <3>2, Zenon
  <2>3. r.size \in Byte
    <3>1. k - due \in Int
      BY <1>12
    <3>2. (k - due) % 256 \in 0 .. 255
      BY <3>1, ByteArithmetic, Zenon
    <3>3. r.size = (k - due) % 256
      BY <1>4
    <3>4. QED
      BY <3>2, <3>3, Zenon DEF Byte
  <2>4. r \in Queue
    <3>1. r = [entries |-> r.entries, root |-> r.root, size |-> r.size]
      BY <1>4
    <3>2. QED
      BY <2>1, <2>2, <2>3, <3>1 DEF Queue
  <2>5. ASSUME NEW j \in Occupied(r)
        PROVE  /\ r.entries[j].note \in Note \cup {kZombieSlot}
               /\ r.entries[j].velocity \in Velocity
               /\ r.entries[j].when \in Delay
    <3>1. PICK i \in 1 .. k : i > due /\ j = s[i]
      BY <1>11
    <3>2. s[i] \in Occupied(q)
      BY <1>2, <1>5
    <3>3. QED
      BY <1>8, <1>9, <3>1, <3>2 DEF Fields
  <2>6. QED
    BY <2>4, <2>5 DEF Fields
<1>20. Events(r, t) = Timed!Staying(Events(q, s))
  <2> DEFINE E(i) == [note     |-> r.entries[t[i]].note,
                      velocity |-> r.entries[t[i]].velocity,
                      wait     |-> r.entries[t[i]].when]
  <2>1. PICK line : line = Events(q, s)
    OBVIOUS
  <2>2. Len(line) = k /\ Timed!Due(line) = due
        /\ \A i \in 1 .. k : line[i] = [note     |-> q.entries[s[i]].note,
                                        velocity |-> q.entries[s[i]].velocity,
                                        wait     |-> q.entries[s[i]].when]
    <3>1. Len(Events(q, s)) = k /\ Timed!Due(Events(q, s)) = due
          /\ \A i \in 1 .. k :
               Events(q, s)[i] = [note     |-> q.entries[s[i]].note,
                                  velocity |-> q.entries[s[i]].velocity,
                                  wait     |-> q.entries[s[i]].when]
      BY EventsAre, DueIs DEF k, due
    <3>2. QED
      BY <2>1, <3>1
  <2>3. ASSUME NEW i \in 1 .. k - due
        PROVE  E(i) = [line[i + due] EXCEPT !.wait = @ - 1]
    <3>1. PICK j \in 1 .. k : j = i + due /\ j > due /\ t[i] = s[j]
      BY <1>12
    <3>2. line[j] = [note     |-> q.entries[s[j]].note,
                     velocity |-> q.entries[s[j]].velocity,
                     wait     |-> q.entries[s[j]].when]
      BY <2>2, Zenon
    <3>3. /\ r.entries[t[i]].note = q.entries[s[j]].note
          /\ r.entries[t[i]].velocity = q.entries[s[j]].velocity
          /\ r.entries[t[i]].when = q.entries[s[j]].when - 1
      BY <1>9, <3>1
    <3>4. [line[j] EXCEPT !.wait = @ - 1] = [note     |-> q.entries[s[j]].note,
                                             velocity |-> q.entries[s[j]].velocity,
                                             wait     |-> q.entries[s[j]].when - 1]
      BY <3>2
    <3>5. QED
      BY <3>1, <3>3, <3>4
  <2>4. Events(r, t) = [i \in 1 .. k - due |-> E(i)]
    BY <1>12, Zenon DEF Events
  <2>5. Timed!Staying(line)
          = [i \in 1 .. k - due |-> [line[i + due] EXCEPT !.wait = @ - 1]]
    BY <2>2, Zenon DEF Timed!Staying
  <2> HIDE DEF E
  <2>6. Events(r, t) = Timed!Staying(line)
    BY <2>3, <2>4, <2>5, Zenon
  <2>7. QED
    BY <2>1, <2>6
<1>21. QED
  BY <1>13, <1>15, <1>16, <1>17, <1>18, <1>19, <1>20 DEF Orderly, r

-----------------------------------------------------------------------------
(* The inductive invariant, and what follows from it.                      *)

Inv == /\ Fields(queue)
       /\ \E s \in Chains : Orderly(queue, s)
       /\ flushing \in BOOLEAN

LEMMA InvInit == Init => Inv
<1> SUFFICES ASSUME Init PROVE Inv
  OBVIOUS
<1>1. queue = [entries |-> [i \in Slot |-> FreshEntry], root |-> 0, size |-> 0]
  BY DEF Init, Fresh
<1>2. FreshEntry \in Entry /\ FreshEntry.note = kFreeSlot
  BY DEF FreshEntry, Entry, Byte, kFreeSlot
<1>3. Occupied(queue) = {}
  BY <1>1, <1>2 DEF Occupied
<1>4. Fields(queue)
  <2>1. queue \in Queue
    BY <1>1, <1>2 DEF Queue, Byte
  <2>2. QED
    BY <1>3, <2>1 DEF Fields
<1>5. <<>> \in Chains
  <2>1. <<>> \in Seq(Slot) /\ Distinct(<<>>)
    BY DEF Distinct
  <2>2. QED
    BY <2>1, ChainIs
<1>6. Orderly(queue, <<>>)
  BY <1>1, <1>3, <1>5 DEF Orderly, IsList, NextOf, Slots, Sorted
<1>7. QED
  BY <1>4, <1>5, <1>6 DEF Init, Inv

LEMMA InvLetOut ==
    ASSUME Inv, LetOut
    PROVE  Fields(queue') /\ \E s \in Chains : Orderly(queue', s)
<1>1. PICK s \in Chains : Orderly(queue, s)
  BY DEF Inv
<1>2. queue' = Tick(queue) /\ Fields(queue)
  BY DEF LetOut, Inv
<1>3. QED
  BY <1>1, <1>2, TickKeeps

LEMMA InvNext == Inv /\ [Next]_vars => Inv'
<1> SUFFICES ASSUME Inv, [Next]_vars PROVE Inv'
  OBVIOUS
<1>1. PICK s \in Chains : Orderly(queue, s)
  BY DEF Inv
<1>2. CASE \E n \in Note, v \in Velocity, d \in Delay : SendLater(n, v, d)
  <2>1. PICK n \in Note, v \in Velocity, d \in Delay : SendLater(n, v, d)
    BY <1>2
  <2>2. queue' = Schedule(queue, n, v, d, 0) /\ flushing' = flushing /\ Fields(queue)
    BY <2>1 DEF SendLater, Inv
  <2>3. Fields(queue') /\ \E t \in Chains : Orderly(queue', t)
    BY <1>1, <2>2, ScheduleKeeps
  <2>4. QED
    BY <2>2, <2>3 DEF Inv
<1>3. CASE \E n \in Note, v \in Velocity : Withdraw(n, v)
  <2>1. PICK n \in Note, v \in Velocity : Withdraw(n, v)
    BY <1>3
  <2>2. queue' = Remove(queue, n, v) /\ flushing' = flushing /\ Fields(queue)
    BY <2>1 DEF Withdraw, Inv
  <2>3. Fields(queue') /\ Orderly(queue', s)
    BY <1>1, <2>2, RemoveKeeps
  <2>4. QED
    BY <2>2, <2>3 DEF Inv
<1>4. CASE SendScheduledNotes
  BY <1>4, InvLetOut DEF SendScheduledNotes, Inv
<1>5. CASE FlushQueue
  BY <1>5 DEF FlushQueue, Inv
<1>6. CASE FlushTurn
  BY <1>6, InvLetOut DEF FlushTurn, Inv
<1>7. CASE FlushReturn
  BY <1>7 DEF FlushReturn, Inv
<1>8. CASE UNCHANGED vars
  BY <1>8 DEF vars, Inv
<1>9. QED
  BY <1>2, <1>3, <1>4, <1>5, <1>6, <1>7, <1>8 DEF Next

LEMMA Invariance == Spec => []Inv
  BY InvInit, InvNext, PTL DEF Spec

\* No call takes a field of the scheduler out of its width or a link out of the pool.
THEOREM TypeCorrect == Spec => []TypeOK
<1>1. ASSUME Inv PROVE TypeOK
  <2>1. PICK s \in Chains : Orderly(queue, s)
    BY <1>1 DEF Inv
  <2>2. /\ Len(s) \in 0 .. kEventSchedulerSize - 1 /\ Len(s) \in Nat
        /\ \A i \in Nat : NextOf(s, i) \in 0 .. kEventSchedulerSize - 1
    BY ChainFacts
  <2>3. queue.root \in 0 .. kEventSchedulerSize - 1
    <3>1. 0 \in Nat
      OBVIOUS
    <3>2. queue.root = NextOf(s, 0)
      BY <2>1 DEF Orderly, IsList
    <3>3. QED
      BY <2>2, <3>1, <3>2, Zenon
  <2>4. queue.size \in 0 .. kEventSchedulerSize - 1
    BY <2>1, <2>2 DEF Orderly
  <2>5. ASSUME NEW j \in Occupied(queue)
        PROVE  queue.entries[j].next \in 0 .. kEventSchedulerSize - 1
    <3>1. PICK i \in 1 .. Len(s) : j = s[i]
      BY <2>1 DEF Orderly, Slots
    <3>2. i \in Nat
      OBVIOUS
    <3>3. queue.entries[j].next = NextOf(s, i)
      BY <2>1, <3>1 DEF Orderly, IsList
    <3>4. QED
      BY <2>2, <3>2, <3>3, Zenon
  <2>6. QED
    BY <1>1, <2>3, <2>4, <2>5 DEF TypeOK, Inv, Fields
<1>2. QED
  BY <1>1, Invariance, PTL

\* Whatever is scheduled, removed and let out, in whatever order: every entry that is not free
\* is on the list, once, and size_ counts it, for a pool of any size.
THEOREM NoEntryLeaks == Spec => []ListHoldsOccupied
<1>1. Inv => ListHoldsOccupied
  BY DEF Inv, Orderly, ListHoldsOccupied
<1>2. QED
  BY <1>1, Invariance, PTL

\* The list stays in the order of "when", so that Tick never takes a "when" below zero.
THEOREM StaysSorted == Spec => []SortedByWhen
<1>1. Inv => SortedByWhen
  BY ListIsUnique DEF Inv, Orderly, Sorted, SortedByWhen
<1>2. QED
  BY <1>1, Invariance, PTL

-----------------------------------------------------------------------------
(* The scheduler implements a timed queue.                                 *)

LEMMA WaitingIs ==
    ASSUME NEW s, Orderly(queue, s)
    PROVE  Waiting = Events(queue, s)
<1>1. Listed(queue) = [i \in 1 .. Len(s) |-> queue.entries[s[i]]] /\ Len(Listed(queue)) = Len(s)
  BY ListedIs DEF Orderly
<1>2. \A i \in 1 .. Len(s) : Listed(queue)[i] = queue.entries[s[i]]
  BY <1>1
<1>3. Waiting = [i \in 1 .. Len(s) |-> [note     |-> Listed(queue)[i].note,
                                        velocity |-> Listed(queue)[i].velocity,
                                        wait     |-> Listed(queue)[i].when]]
  BY <1>1, Zenon DEF Waiting
<1>4. QED
  BY <1>2, <1>3, Zenon DEF Events

\* The same, of the next state.
LEMMA WaitingNextIs ==
    ASSUME NEW s, Orderly(queue', s)
    PROVE  Waiting' = Events(queue', s)
<1>1. Listed(queue') = [i \in 1 .. Len(s) |-> queue'.entries[s[i]]]
      /\ Len(Listed(queue')) = Len(s)
  BY ListedIs DEF Orderly
<1>2. \A i \in 1 .. Len(s) : Listed(queue')[i] = queue'.entries[s[i]]
  BY <1>1
<1>3. Waiting' = [i \in 1 .. Len(s) |-> [note     |-> Listed(queue')[i].note,
                                         velocity |-> Listed(queue')[i].velocity,
                                         wait     |-> Listed(queue')[i].when]]
  BY <1>1, Zenon DEF Waiting
<1>4. QED
  BY <1>2, <1>3, Zenon DEF Events

\* A tick of the scheduler is a tick of the line.
LEMMA DeliversLetOut ==
    ASSUME Inv, LetOut
    PROVE  Timed!Deliver
<1>1. PICK s \in Chains : Orderly(queue, s)
  BY DEF Inv
<1>2. queue' = Tick(queue) /\ sent' = DueNotes(queue) /\ Fields(queue)
  BY DEF LetOut, Inv
<1>3. PICK t \in Chains : /\ Orderly(Tick(queue), t)
                          /\ Events(Tick(queue), t) = Timed!Staying(Events(queue, s))
  BY <1>1, <1>2, TickKeeps
<1>4. Waiting = Events(queue, s) /\ Waiting' = Events(Tick(queue), t)
  BY <1>1, <1>2, <1>3, WaitingIs, WaitingNextIs
<1>5. sent' = Timed!Leaving(Waiting, kZombieSlot)
  BY <1>1, <1>2, <1>4, DueNotesAre
<1>6. QED
  BY <1>3, <1>4, <1>5 DEF Timed!Deliver

\* event_scheduler.cc seen through App::SendLater, SendScheduledNotes and FlushQueue is a timed
\* queue, for a pool of any size: an event leaves at its tick, in its place, unless it was
\* removed, and is refused only by a full pool.
THEOREM ImplementsTimed == Spec => ImplementsTimedQueue
<1>1. Init => Timed!Init
  <2>1. SUFFICES ASSUME Init PROVE Timed!Init
    OBVIOUS
  <2>2. PICK s \in Chains : Orderly(queue, s)
    BY <2>1, InvInit DEF Inv
  <2>3. queue.size = 0 /\ sent = <<>>
    BY <2>1 DEF Init, Fresh
  <2>4. Len(s) = 0
    BY <2>2, <2>3 DEF Orderly
  <2>5. Events(queue, s) = <<>>
    BY <2>4 DEF Events
  <2>6. QED
    BY <2>2, <2>3, <2>5, WaitingIs DEF Timed!Init
<1>2. Inv /\ [Next]_vars => [Timed!Next]_(Timed!vars)
  <2>1. SUFFICES ASSUME Inv, [Next]_vars PROVE Timed!Next \/ UNCHANGED <<Waiting, sent>>
    BY DEF Timed!vars
  <2>2. PICK s \in Chains : Orderly(queue, s)
    BY <2>1 DEF Inv
  <2>3. Fields(queue) /\ Waiting = Events(queue, s) /\ Len(Waiting) = Len(s)
    BY <2>1, <2>2, WaitingIs, EventsAre DEF Inv
  <2>4. CASE \E n \in Note, v \in Velocity, d \in Delay : SendLater(n, v, d)
    <3>1. PICK n \in Note, v \in Velocity, d \in Delay :
            queue' = Schedule(queue, n, v, d, 0) /\ sent' = <<>>
      BY <2>4 DEF SendLater
    <3>2. PICK t \in Chains :
            /\ Orderly(queue', t)
            /\ \/ Len(s) = kEventSchedulerSize - 1 /\ queue' = queue
               \/ /\ Len(s) < kEventSchedulerSize - 1
                  /\ Events(queue', t) = Timed!Inserted(Events(queue, s), Timed!Event(n, v, d))
      BY <2>2, <2>3, <3>1, ScheduleKeeps
    <3>3. CASE Len(s) = kEventSchedulerSize - 1 /\ queue' = queue
      <4>1. Waiting' = Waiting
        BY <2>2, <2>3, <3>3, WaitingNextIs
      <4>2. QED
        BY <2>3, <3>1, <3>3, <4>1 DEF Timed!Next, Timed!Refuse
    <3>4. CASE /\ Len(s) < kEventSchedulerSize - 1
               /\ Events(queue', t) = Timed!Inserted(Events(queue, s), Timed!Event(n, v, d))
      <4>1. Waiting' = Timed!Inserted(Waiting, Timed!Event(n, v, d))
        BY <2>3, <3>2, <3>4, WaitingNextIs
      <4>2. Timed!Accept(n, v, d)
        BY <2>3, <3>1, <3>4, <4>1 DEF Timed!Accept
      <4>3. QED
        BY <4>2 DEF Timed!Next
    <3>5. QED
      BY <3>2, <3>3, <3>4
  <2>5. CASE \E n \in Note, v \in Velocity : Withdraw(n, v)
    <3>1. PICK n \in Note, v \in Velocity : queue' = Remove(queue, n, v) /\ sent' = <<>>
      BY <2>5 DEF Withdraw
    <3>2. /\ Orderly(queue', s)
          /\ Events(queue', s) = Timed!Struck(Events(queue, s), n, v, kZombieSlot)
      BY <2>2, <2>3, <3>1, RemoveKeeps
    <3>3. Waiting' = Timed!Struck(Waiting, n, v, kZombieSlot)
      BY <2>3, <3>2, WaitingNextIs
    <3>4. Timed!Cancel(n, v)
      BY <3>1, <3>3 DEF Timed!Cancel
    <3>5. QED
      BY <3>4 DEF Timed!Next
  <2>6. CASE SendScheduledNotes \/ FlushTurn
    <3>1. LetOut
      BY <2>6 DEF SendScheduledNotes, FlushTurn
    <3>2. QED
      BY <2>1, <3>1, DeliversLetOut DEF Timed!Next
  <2>7. CASE FlushQueue \/ FlushReturn \/ UNCHANGED vars
    <3>1. queue' = queue /\ sent' = sent
      BY <2>7 DEF FlushQueue, FlushReturn, vars
    <3>2. Waiting' = Waiting
      BY <2>2, <2>3, <3>1, WaitingNextIs
    <3>3. QED
      BY <3>1, <3>2
  <2>8. QED
    BY <2>1, <2>4, <2>5, <2>6, <2>7 DEF Next
<1>3. QED
  BY <1>1, <1>2, Invariance, PTL DEF Spec, ImplementsTimedQueue, Timed!Spec

=============================================================================
