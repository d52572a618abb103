-------------------------- MODULE NoteStackProofs ---------------------------
(***************************************************************************)
(* Proofs about the note stack, for a pool of any size and any notes and   *)
(* velocities.  The inductive invariant names the list: there is a         *)
(* sequence of nodes that the links follow; it holds exactly the nodes     *)
(* that are not free, and so does the array, in strictly ascending order   *)
(* of pitch.  NoteOff takes one node out of both, NoteOn puts one in; on   *)
(* the keys that the sequence holds they act as HeldNotes says.            *)
(***************************************************************************)
EXTENDS NoteStack, FiniteSetsExt, FiniteSetTheorems, WellFoundedInduction, TLAPS

-----------------------------------------------------------------------------
(* The least and the greatest of the slots, and what taking an element out *)
(* of a sequence, or putting one in, makes of it.                          *)

\* The order of the naturals is well founded, in a form that needs no operator argument.
LEMMA NatOrder ==
    \E R : IsWellFoundedOn(R, Nat) /\ \A x, y \in Nat : x < y => <<x, y>> \in R
<1>1. \A x, y \in Nat : x < y => <<x, y>> \in OpToRel(<, Nat)
  BY DEF OpToRel
<1>2. QED
  BY <1>1, NatLessThanWellFounded

\* A non-empty set of naturals has a least element.
LEMMA LeastNat ==
    ASSUME NEW S, S \subseteq Nat, S # {}
    PROVE  \E m \in S : \A n \in S : m <= n
<1>1. PICK R : IsWellFoundedOn(R, Nat) /\ \A x, y \in Nat : x < y => <<x, y>> \in R
  BY NatOrder
<1>2. IsWellFoundedOn(R, Nat)
  BY <1>1
<1>3. \A x, y \in Nat : x < y => <<x, y>> \in R
  BY <1>1
<1>4. \E x \in S : \A y \in S : ~ (<<y, x>> \in R)
  BY <1>2, WFMin, Zenon
<1>5. SUFFICES ASSUME NEW x \in S, \A y \in S : ~ (<<y, x>> \in R), NEW n \in S
               PROVE  x <= n
  BY <1>4
<1>6. x \in Nat /\ n \in Nat /\ ~ (<<n, x>> \in R)
  BY <1>5
<1>7. ~ (n < x)
  BY <1>3, <1>6
<1>8. QED
  BY <1>6, <1>7

\* Min returns the least element.
LEMMA MinIn ==
    ASSUME NEW S, S \subseteq Nat, S # {}
    PROVE  Min(S) \in S /\ \A n \in S : Min(S) <= n
  BY LeastNat DEF Min

LEMMA MinOfOne ==
    ASSUME NEW x \in Nat
    PROVE  Min({x}) = x
<1>1. {x} \subseteq Nat /\ {x} # {}
  OBVIOUS
<1>2. Min({x}) \in {x}
  BY <1>1, MinIn
<1>3. QED
  BY <1>2

\* Max returns the greatest element of a bounded set.
LEMMA MaxIn ==
    ASSUME NEW N \in Nat, NEW S, S \subseteq 0 .. N, S # {}
    PROVE  Max(S) \in S /\ \A n \in S : Max(S) >= n
<1> DEFINE T == { x \in 0 .. N : N - x \in S }
<1>1. T # {} /\ T \subseteq Nat
  <2>1. PICK s \in S : TRUE
    OBVIOUS
  <2>2. s \in 0 .. N
    OBVIOUS
  <2>3. N - s \in T
    BY <2>2
  <2>4. QED
    BY <2>3
<1>2. PICK m \in T : \A n \in T : m <= n
  BY <1>1, LeastNat
<1>3. N - m \in S /\ \A n \in S : N - m >= n
  <2>1. SUFFICES ASSUME NEW n \in S PROVE N - m >= n
    BY <1>2
  <2>2. N - n \in T /\ n \in 0 .. N
    OBVIOUS
  <2>3. QED
    BY <1>2, <2>2
<1>4. QED
  BY <1>3 DEF Max

\* No element comes twice.
Distinct(s) == \A i, j \in 1 .. Len(s) : s[i] = s[j] => i = j

\* A sequence of distinct positions is no longer than there are positions, and as long only
\* if none is left over.
LEMMA DistinctFits ==
    ASSUME NEW N \in Nat, N >= 1, NEW s \in Seq(1 .. N), Distinct(s)
    PROVE  /\ Len(s) <= N
           /\ Len(s) = N <=> \A x \in 1 .. N : \E i \in 1 .. Len(s) : s[i] = x
<1> DEFINE k == Len(s)
<1>1. k \in Nat /\ s \in [1 .. k -> 1 .. N]
  OBVIOUS
<1>2. s \in Injection(1 .. k, 1 .. N)
  BY <1>1 DEF Distinct, Injection, IsInjective
<1>3. \A n \in Nat : IsFiniteSet(1 .. n) /\ Cardinality(1 .. n) = n
  <2>1. SUFFICES ASSUME NEW n \in Nat PROVE IsFiniteSet(1 .. n) /\ Cardinality(1 .. n) = n
    OBVIOUS
  <2>2. 1 \in Int /\ n \in Int
    OBVIOUS
  <2>3. IsFiniteSet(1 .. n) /\ Cardinality(1 .. n) = IF 1 > n THEN 0 ELSE n - 1 + 1
    BY <2>2, FS_Interval, Zenon
  <2>4. (IF 1 > n THEN 0 ELSE n - 1 + 1) = n
    OBVIOUS
  <2>5. QED
    BY <2>3, <2>4
<1>4. /\ Cardinality(1 .. k) <= Cardinality(1 .. N)
      /\ Cardinality(1 .. k) = Cardinality(1 .. N) <=> s \in Surjection(1 .. k, 1 .. N)
  BY <1>2, <1>3, FS_Injection
<1>5. k <= N /\ (k = N <=> s \in Surjection(1 .. k, 1 .. N))
  BY <1>1, <1>3, <1>4, Zenon
<1>6. s \in Surjection(1 .. k, 1 .. N) <=> \A x \in 1 .. N : \E i \in 1 .. k : s[i] = x
  BY <1>1 DEF Surjection
<1>7. QED
  BY <1>5, <1>6

\* A sequence is the function of its positions.
LEMMA SequenceIs ==
    ASSUME NEW S, NEW s \in Seq(S)
    PROVE  s = [i \in 1 .. Len(s) |-> s[i]]
  OBVIOUS

\* The elements of a concatenation.
LEMMA ConcatIs ==
    ASSUME NEW S, NEW a \in Seq(S), NEW b \in Seq(S)
    PROVE  a \o b = [i \in 1 .. Len(a) + Len(b) |->
                       IF i <= Len(a) THEN a[i] ELSE b[i - Len(a)]]
<1>1. a \o b \in Seq(S)
  OBVIOUS
<1>2. a \o b = [i \in 1 .. Len(a \o b) |-> (a \o b)[i]]
  BY <1>1, SequenceIs, Zenon
<1>3. Len(a \o b) = Len(a) + Len(b)
  OBVIOUS
<1>4. \A i \in 1 .. Len(a) + Len(b) : (a \o b)[i] = IF i <= Len(a) THEN a[i] ELSE b[i - Len(a)]
  OBVIOUS
<1>5. QED
  BY <1>2, <1>3, <1>4

\* The sequence s without the element at position p: RemoveAt of SequencesExt.
CutOut(s, p) == SubSeq(s, 1, p - 1) \o SubSeq(s, p + 1, Len(s))

\* The sequence s with e at position p: InsertAt of SequencesExt, whose Remove is not the
\* scheduler's.
PutIn(s, p, e) == SubSeq(s, 1, p - 1) \o <<e>> \o SubSeq(s, p, Len(s))

LEMMA CutOutIs ==
    ASSUME NEW S, NEW s \in Seq(S), NEW p \in 1 .. Len(s)
    PROVE  CutOut(s, p) = [i \in 1 .. Len(s) - 1 |-> IF i < p THEN s[i] ELSE s[i + 1]]
<1>1. /\ SubSeq(s, 1, p - 1) = [i \in 1 .. p - 1 |-> s[i]]
      /\ SubSeq(s, p + 1, Len(s)) = [i \in 1 .. Len(s) - p |-> s[p + i]]
  OBVIOUS
<1>2. /\ SubSeq(s, 1, p - 1) \in Seq(S) /\ Len(SubSeq(s, 1, p - 1)) = p - 1
      /\ SubSeq(s, p + 1, Len(s)) \in Seq(S) /\ Len(SubSeq(s, p + 1, Len(s))) = Len(s) - p
  OBVIOUS
<1>3. PICK a, b : a = SubSeq(s, 1, p - 1) /\ b = SubSeq(s, p + 1, Len(s))
  OBVIOUS
<1>4. a \in Seq(S) /\ b \in Seq(S) /\ Len(a) = p - 1 /\ Len(b) = Len(s) - p
  BY <1>2, <1>3
<1>5. CutOut(s, p) = a \o b
  BY <1>3 DEF CutOut
<1>6. a \o b = [i \in 1 .. Len(a) + Len(b) |-> IF i <= Len(a) THEN a[i] ELSE b[i - Len(a)]]
  BY <1>4, ConcatIs, Zenon
<1>7. Len(a) + Len(b) = Len(s) - 1
  BY <1>4
<1>8. \A i \in 1 .. Len(s) - 1 :
         (IF i <= Len(a) THEN a[i] ELSE b[i - Len(a)]) = IF i < p THEN s[i] ELSE s[i + 1]
  BY <1>1, <1>3, <1>4
<1>9. QED
  BY <1>5, <1>6, <1>7, <1>8, Zenon

LEMMA PutInIs ==
    ASSUME NEW S, NEW s \in Seq(S), NEW e \in S, NEW p \in 1 .. Len(s) + 1
    PROVE  PutIn(s, p, e)
             = [i \in 1 .. Len(s) + 1 |->
                  IF i < p THEN s[i] ELSE IF i = p THEN e ELSE s[i - 1]]
<1>1. PICK a, b : a = SubSeq(s, 1, p - 1) /\ b = SubSeq(s, p, Len(s))
  OBVIOUS
<1>2. a \in Seq(S) /\ Len(a) = p - 1 /\ \A i \in 1 .. p - 1 : a[i] = s[i]
  BY <1>1
<1>3. /\ b \in Seq(S) /\ Len(b) = Len(s) - p + 1
      /\ \A i \in 1 .. Len(s) - p + 1 : b[i] = s[p + i - 1]
  BY <1>1
<1>4. PICK c : c = a \o <<e>>
  OBVIOUS
<1>5. c \in Seq(S) /\ Len(c) = p /\ \A i \in 1 .. p : c[i] = IF i < p THEN s[i] ELSE e
  BY <1>2, <1>4
<1>6. PutIn(s, p, e) = c \o b
  BY <1>1, <1>4 DEF PutIn
<1>7. c \o b = [i \in 1 .. Len(c) + Len(b) |-> IF i <= Len(c) THEN c[i] ELSE b[i - Len(c)]]
  BY <1>3, <1>5, ConcatIs, Zenon
<1>8. Len(c) + Len(b) = Len(s) + 1
  BY <1>3, <1>5
<1>9. \A i \in 1 .. Len(s) + 1 :
         (IF i <= Len(c) THEN c[i] ELSE b[i - Len(c)])
           = IF i < p THEN s[i] ELSE IF i = p THEN e ELSE s[i - 1]
  BY <1>3, <1>5
<1>10. QED
  BY <1>6, <1>7, <1>8, <1>9, Zenon

Nodes(s) == { s[i] : i \in 1 .. Len(s) }

LEMMA NodeFacts == /\ Node \subseteq 1 .. 254 /\ Node \subseteq Nat
                   /\ kNoteStackSize \in 1 .. 254
                   /\ 0 \notin Node /\ 1 \in Node
                   /\ \A n \in Note : n \in 0 .. 127 /\ n # kFree /\ n \in Int
                   /\ \A v \in Velocity : v \in 0 .. 127
  BY StackAssumption, KeyAssumption DEF Node, kFree

\* Taking an element out of a sequence, and putting one in.
LEMMA RemoveAtIs ==
    ASSUME NEW S, NEW s \in Seq(S), NEW p \in 1 .. Len(s)
    PROVE  RemoveAt(s, p) = [i \in 1 .. Len(s) - 1 |-> IF i < p THEN s[i] ELSE s[i + 1]]
<1>1. RemoveAt(s, p) = CutOut(s, p)
  BY Zenon DEF RemoveAt, CutOut
<1>2. QED
  BY <1>1, CutOutIs

LEMMA InsertAtIs ==
    ASSUME NEW S, NEW s \in Seq(S), NEW e \in S, NEW p \in 1 .. Len(s) + 1
    PROVE  InsertAt(s, p, e)
             = [i \in 1 .. Len(s) + 1 |->
                  IF i < p THEN s[i] ELSE IF i = p THEN e ELSE s[i - 1]]
<1>1. InsertAt(s, p, e) = PutIn(s, p, e)
  BY Zenon DEF InsertAt, PutIn
<1>2. QED
  BY <1>1, PutInIs

\* RemoveFirst of an element that is in the sequence.
LEMMA RemoveFirstIs ==
    ASSUME NEW S, NEW s \in Seq(S), NEW e, \E i \in 1 .. Len(s) : s[i] = e
    PROVE  \E p \in 1 .. Len(s) :
             /\ s[p] = e
             /\ RemoveFirst(s, e)
                  = [i \in 1 .. Len(s) - 1 |-> IF i < p THEN s[i] ELSE s[i + 1]]
<1> DEFINE I == { i \in 1 .. Len(s) : s[i] = e }
<1>1. I \subseteq Nat /\ I # {}
  OBVIOUS
<1>2. Min(I) \in I
  BY <1>1, MinIn
<1>3. RemoveFirst(s, e) = RemoveAt(s, Min(I))
  BY <1>1 DEF RemoveFirst, SelectInSeq
<1> HIDE DEF I
<1>4. Min(I) \in 1 .. Len(s) /\ s[Min(I)] = e
  BY <1>2 DEF I
<1>5. QED
  BY <1>3, <1>4, RemoveAtIs

-----------------------------------------------------------------------------
(* The linked list.                                                        *)

LEMMA RangeIs ==
    ASSUME NEW S, NEW s \in Seq(S)
    PROVE  Range(s) = Nodes(s) /\ (IsInjective(s) <=> Distinct(s))
<1>1. DOMAIN s = 1 .. Len(s)
  OBVIOUS
<1>2. QED
  BY <1>1, Zenon DEF Range, Nodes, IsInjective, Distinct

\* A sequence of distinct nodes is never longer than the pool.
LEMMA LinksAre ==
    ASSUME NEW s
    PROVE  s \in Links <=> s \in Seq(Node) /\ Distinct(s)
<1>1. ASSUME s \in Links PROVE s \in Seq(Node) /\ Distinct(s)
  <2>1. PICK k \in 0 .. kNoteStackSize, f \in [Node -> Node] : s = [i \in 1 .. k |-> f[i]]
    BY <1>1 DEF Links, Paths
  <2>2. \A i \in 1 .. k : i \in Node
    BY <2>1, NodeFacts DEF Node
  <2>3. s \in Seq(Node)
    BY <2>1, <2>2, NodeFacts
  <2>4. IsInjective(s)
    BY <1>1 DEF Links
  <2>5. QED
    BY <2>3, <2>4, RangeIs
<1>2. ASSUME s \in Seq(Node), Distinct(s) PROVE s \in Links
  <2> DEFINE k == Len(s)
             f == [i \in Node |-> IF i <= k THEN s[i] ELSE 1]
  <2>1. k \in Nat /\ s \in [1 .. k -> Node]
    BY <1>2
  <2>5. k <= kNoteStackSize
    BY <1>2, DistinctFits, NodeFacts DEF Node
  <2>6. f \in [Node -> Node]
    BY <2>1, NodeFacts
  <2>7. s = [i \in 1 .. k |-> f[i]]
    <3>1. \A i \in 1 .. k : i \in Node /\ i <= k
      BY <2>1, <2>5, NodeFacts DEF Node
    <3>2. \A i \in 1 .. k : f[i] = s[i]
      BY <3>1
    <3> HIDE DEF f
    <3>3. QED
      BY <2>1, <3>2
  <2> HIDE DEF f
  <2>8. s \in Paths
    <3>1. k \in 0 .. kNoteStackSize
      BY <2>1, <2>5, NodeFacts
    <3> HIDE DEF k
    <3>2. QED
      BY <2>6, <2>7, <3>1 DEF Paths
  <2>9. QED
    BY <1>2, <2>8, RangeIs DEF Links
<1>3. QED
  BY <1>1, <1>2

LEMMA LinkFacts ==
    ASSUME NEW s \in Links
    PROVE  /\ s \in Seq(Node) /\ Len(s) \in 0 .. kNoteStackSize /\ Len(s) \in Nat
           /\ s \in [1 .. Len(s) -> Node] /\ Distinct(s)
           /\ \A i \in Nat : After(s, i) \in 0 .. kNoteStackSize
           /\ \A i \in 0 .. Len(s) : After(s, i) = 0 <=> i = Len(s)
<1>1. s \in Seq(Node) /\ Distinct(s) /\ Len(s) \in Nat /\ s \in [1 .. Len(s) -> Node]
  BY LinksAre
<1>2. PICK k \in 0 .. kNoteStackSize, f \in [Node -> Node] : s = [i \in 1 .. k |-> f[i]]
  BY DEF Links, Paths
<1>3. Len(s) = k
  BY <1>2, NodeFacts
<1>4. \A i \in Nat : i < Len(s) => s[i + 1] \in Node /\ s[i + 1] # 0 /\ After(s, i) = s[i + 1]
  BY <1>1, NodeFacts DEF After
<1>5. /\ \A i \in Nat : After(s, i) \in 0 .. kNoteStackSize
      /\ \A i \in 0 .. Len(s) : After(s, i) = 0 <=> i = Len(s)
  <2>1. \A i \in Nat : ~ (i < Len(s)) => After(s, i) = 0
    BY DEF After
  <2>2. 0 \in 0 .. kNoteStackSize /\ \A n \in Node : n \in 0 .. kNoteStackSize
    BY NodeFacts DEF Node
  <2>3. \A i \in Nat : After(s, i) \in 0 .. kNoteStackSize
    BY <1>4, <2>1, <2>2, Zenon
  <2>4. \A i \in 0 .. Len(s) : i \in Nat /\ (i < Len(s) <=> i # Len(s))
    <3>1. \A n \in Nat : \A i \in 0 .. n : i \in Nat /\ (i < n <=> i # n)
      OBVIOUS
    <3>2. QED
      BY <1>1, <3>1, Zenon
  <2>5. \A i \in 0 .. Len(s) : After(s, i) = 0 <=> i = Len(s)
    BY <1>4, <2>1, <2>4, Zenon
  <2>6. QED
    BY <2>3, <2>5
<1>6. QED
  BY <1>1, <1>3, <1>5

\* The list is full exactly when no node is left over.
LEMMA FullIs ==
    ASSUME NEW s \in Seq(Node), Distinct(s)
    PROVE  Len(s) = kNoteStackSize <=> Nodes(s) = Node
<1>1. Len(s) = kNoteStackSize <=> \A x \in Node : \E i \in 1 .. Len(s) : s[i] = x
  <2>1. kNoteStackSize \in Nat /\ kNoteStackSize >= 1 /\ Node = 1 .. kNoteStackSize
    BY NodeFacts DEF Node
  <2>2. s \in Seq(1 .. kNoteStackSize)
    BY <2>1
  <2>3. QED
    BY <2>1, <2>2, DistinctFits, Zenon
<1>2. Nodes(s) \subseteq Node /\ \A x : x \in Nodes(s) <=> \E i \in 1 .. Len(s) : s[i] = x
  BY DEF Nodes
<1>3. QED
  BY <1>1, <1>2, Zenon

\* The links lead along one sequence only.
LEMMA PathIs ==
    ASSUME NEW h, NEW s \in Links, IsPath(h, s)
    PROVE  Path(h) = s
<1> DEFINE t == Path(h)
<1>1. t \in Links /\ IsPath(h, t)
  BY DEF Path
<1> HIDE DEF t
<1>2. /\ Len(s) \in Nat /\ s \in [1 .. Len(s) -> Node] /\ s \in Seq(Node)
      /\ Len(t) \in Nat /\ t \in [1 .. Len(t) -> Node] /\ t \in Seq(Node)
  BY <1>1, LinkFacts
<1> DEFINE Differ == { i \in Nat : After(s, i) # After(t, i) }
<1>3. Differ = {}
  <2>1. SUFFICES ASSUME Differ # {} PROVE FALSE
    OBVIOUS
  <2>2. PICK m \in Differ : \A n \in Differ : m <= n
    BY <2>1, LeastNat
  <2>3. m # 0
    BY <1>1, <2>2 DEF IsPath
  <2>4. m - 1 \in Nat /\ m \in Nat /\ m - 1 \notin Differ
    BY <2>2, <2>3
  <2>5. After(s, m - 1) = After(t, m - 1)
    BY <2>4
  <2>6. CASE m <= Len(s) /\ m <= Len(t)
    <3>1. s[m] = t[m]
      BY <1>2, <2>3, <2>4, <2>5, <2>6 DEF After
    <3>2. After(s, m) = h.pool[s[m]].next /\ After(t, m) = h.pool[t[m]].next
      BY <1>1, <1>2, <2>3, <2>4, <2>6 DEF IsPath
    <3>3. QED
      BY <2>2, <3>1, <3>2
  <2>7. CASE m > Len(s) /\ m > Len(t)
    BY <1>2, <2>2, <2>4, <2>7 DEF After
  <2>8. CASE m <= Len(s) /\ m > Len(t)
    BY <1>2, <2>3, <2>4, <2>5, <2>8, NodeFacts DEF After
  <2>9. CASE m > Len(s) /\ m <= Len(t)
    BY <1>2, <2>3, <2>4, <2>5, <2>9, NodeFacts DEF After
  <2>10. QED
    BY <1>2, <2>4, <2>6, <2>7, <2>8, <2>9
<1>4. Len(s) = Len(t)
  <2>1. After(s, Len(s)) = After(t, Len(s)) /\ After(s, Len(t)) = After(t, Len(t))
    BY <1>2, <1>3
  <2>2. ~ (Len(s) < Len(t))
    BY <1>2, <2>1, NodeFacts DEF After
  <2>3. ~ (Len(t) < Len(s))
    BY <1>2, <2>1, NodeFacts DEF After
  <2>4. Len(s) \in Int /\ Len(t) \in Int
    BY <1>2
  <2>5. \A a, b \in Int : ~ (a < b) /\ ~ (b < a) => a = b
    OBVIOUS
  <2>6. QED
    BY <2>2, <2>3, <2>4, <2>5, Zenon
<1>5. \A i \in 1 .. Len(s) : s[i] = t[i]
  <2>1. SUFFICES ASSUME NEW i \in 1 .. Len(s) PROVE s[i] = t[i]
    OBVIOUS
  <2>2. i - 1 \in Nat /\ i \in Nat /\ i - 1 + 1 = i
    BY <1>2
  <2>3. After(s, i - 1) = After(t, i - 1)
    BY <1>3, <2>2
  <2>4. QED
    BY <1>2, <1>4, <2>2, <2>3 DEF After
<1>6. s = t
  BY <1>2, <1>4, <1>5
<1>7. QED
  BY <1>6 DEF t

-----------------------------------------------------------------------------
(* The parts of the inductive invariant.                                   *)

\* The fields of the pool, and the notes that it holds.
Fields(h) ==
    /\ h.pool \in [Node -> Cell]
    /\ \A i \in Taken(h) : h.pool[i].note \in Note

\* s is the linked list.
Linked(h, s) == s \in Links /\ IsPath(h, s) /\ Nodes(s) = Taken(h)

\* The array holds the nodes of the list, in the order of their notes.
Arrayed(h, s) ==
    /\ h.sorted \in Seq(Node) /\ Len(h.sorted) = Len(s)
    /\ Nodes(h.sorted) = Taken(h)
    /\ \A i, j \in 1 .. Len(h.sorted) :
         i < j => h.pool[h.sorted[i]].note < h.pool[h.sorted[j]].note

Orderly(h, s) == Fields(h) /\ Linked(h, s) /\ Arrayed(h, s)

IInv == \E s \in Links : Orderly(stack, s)

LEMMA OrderlyFacts ==
    ASSUME NEW h, NEW s, Orderly(h, s)
    PROVE  /\ s \in Links /\ Path(h) = s /\ Size(h) = Len(s)
           /\ Len(s) \in Nat /\ Len(s) \in 0 .. kNoteStackSize
           /\ s \in [1 .. Len(s) -> Node] /\ s \in Seq(Node)
           /\ \A i \in 1 .. Len(s) : s[i] \in Node /\ s[i] \in Taken(h)
           /\ \A i \in 1 .. Len(s) : h.pool[s[i]].note \in Note /\ h.pool[s[i]] \in Cell
           /\ Distinct(s)
           /\ \A i, j \in 1 .. Len(s) : h.pool[s[i]].note = h.pool[s[j]].note => i = j
           /\ Distinct(h.sorted)
<1>1. s \in Links /\ Path(h) = s
  BY PathIs DEF Orderly, Linked
<1>2. /\ s \in Seq(Node) /\ Len(s) \in 0 .. kNoteStackSize /\ Len(s) \in Nat
      /\ s \in [1 .. Len(s) -> Node] /\ Distinct(s)
  BY <1>1, LinkFacts
<1>3. Nodes(s) = Taken(h) /\ Size(h) = Len(s)
  BY DEF Orderly, Linked, Arrayed, Size
<1>4. \A i \in 1 .. Len(s) : s[i] \in Node /\ s[i] \in Taken(h)
  BY <1>2, <1>3 DEF Nodes
<1>5. \A i \in 1 .. Len(s) : h.pool[s[i]].note \in Note /\ h.pool[s[i]] \in Cell
  BY <1>4 DEF Orderly, Fields
<1>6. ASSUME NEW i \in 1 .. Len(s), NEW j \in 1 .. Len(s), h.pool[s[i]].note = h.pool[s[j]].note
      PROVE  i = j
  <2> DEFINE q == h.sorted
  <2>1. s[i] \in Nodes(q) /\ s[j] \in Nodes(q)
    BY <1>4 DEF Orderly, Arrayed
  <2>2. PICK a \in 1 .. Len(q), b \in 1 .. Len(q) : s[i] = q[a] /\ s[j] = q[b]
    BY <2>1 DEF Nodes
  <2>3. a < b => h.pool[q[a]].note < h.pool[q[b]].note
    BY DEF Orderly, Arrayed
  <2>4. b < a => h.pool[q[b]].note < h.pool[q[a]].note
    BY DEF Orderly, Arrayed
  <2>5. h.pool[q[a]].note = h.pool[q[b]].note /\ h.pool[q[a]].note \in Int
    <3>1. h.pool[s[i]].note \in Note /\ \A n \in Note : n \in Int
      BY <1>5, NodeFacts, Zenon
    <3>2. h.pool[q[a]].note = h.pool[s[i]].note /\ h.pool[q[b]].note = h.pool[s[j]].note
      BY <2>2, Zenon
    <3>3. QED
      BY <1>6, <3>1, <3>2, Zenon
  <2>6. ~ (a < b) /\ ~ (b < a)
    BY <2>3, <2>4, <2>5
  <2>7. a \in Int /\ b \in Int
    OBVIOUS
  <2>8. a = b
    BY <2>6, <2>7
  <2>9. s[i] = s[j]
    BY <2>2, <2>8
  <2>10. QED
    BY <1>2, <2>9 DEF Distinct
<1>7. Distinct(h.sorted)
  <2> DEFINE q == h.sorted
  <2>1. SUFFICES ASSUME NEW a \in 1 .. Len(q), NEW b \in 1 .. Len(q), q[a] = q[b]
                 PROVE  a = b
    BY DEF Distinct
  <2>2. q[a] \in Nodes(s) /\ h.pool[q[a]].note = h.pool[q[b]].note
    <3>1. q[a] \in Nodes(q) /\ Nodes(q) = Nodes(s)
      BY <1>3 DEF Orderly, Arrayed, Nodes
    <3>2. QED
      BY <2>1, <3>1, Zenon
  <2>3. h.pool[q[a]].note \in Note
    BY <1>3, <2>2 DEF Orderly, Fields
  <2>4. h.pool[q[a]].note \in Int
    BY <2>3, NodeFacts, Zenon
  <2>5. a < b => h.pool[q[a]].note < h.pool[q[b]].note
    BY DEF Orderly, Arrayed
  <2>6. b < a => h.pool[q[b]].note < h.pool[q[a]].note
    BY DEF Orderly, Arrayed
  <2>7. ~ (a < b) /\ ~ (b < a)
    BY <2>2, <2>4, <2>5, <2>6
  <2>8. a \in Int /\ b \in Int
    OBVIOUS
  <2>9. QED
    BY <2>7, <2>8
<1>8. QED
  BY <1>1, <1>2, <1>3, <1>4, <1>5, <1>6, <1>7

-----------------------------------------------------------------------------
(* NoteOff.                                                                *)

\* A sequence without its element at p, and what that element was.
Cut(s, p) == [i \in 1 .. Len(s) - 1 |-> IF i < p THEN s[i] ELSE s[i + 1]]

LEMMA CutIs ==
    ASSUME NEW s \in Seq(Node), Distinct(s), NEW p \in 1 .. Len(s)
    PROVE  LET t == Cut(s, p)
           IN  /\ t \in Seq(Node) /\ Len(t) = Len(s) - 1 /\ Len(t) \in Nat
               /\ Distinct(t) /\ Nodes(t) = Nodes(s) \ {s[p]}
               /\ \A i \in 1 .. Len(t) : t[i] = IF i < p THEN s[i] ELSE s[i + 1]
<1> DEFINE t == Cut(s, p)
<1>1. Len(s) \in Nat /\ s \in [1 .. Len(s) -> Node] /\ p \in Nat /\ Len(s) - 1 \in Nat
  OBVIOUS
<1>2. \A i \in 1 .. Len(s) - 1 : i \in 1 .. Len(s) /\ i + 1 \in 1 .. Len(s)
  BY <1>1
<1>3. \A i \in 1 .. Len(s) - 1 : (IF i < p THEN s[i] ELSE s[i + 1]) \in Node
  BY <1>1, <1>2
<1>4. t \in Seq(Node) /\ Len(t) = Len(s) - 1
      /\ \A i \in 1 .. Len(s) - 1 : t[i] = IF i < p THEN s[i] ELSE s[i + 1]
  BY <1>1, <1>3 DEF Cut
<1> HIDE DEF t
<1>5. Distinct(t)
  <2>1. SUFFICES ASSUME NEW i \in 1 .. Len(s) - 1, NEW j \in 1 .. Len(s) - 1, t[i] = t[j]
                 PROVE  i = j
    BY <1>4 DEF Distinct
  <2> DEFINE a == IF i < p THEN i ELSE i + 1
             b == IF j < p THEN j ELSE j + 1
  <2>2. a \in 1 .. Len(s) /\ b \in 1 .. Len(s) /\ t[i] = s[a] /\ t[j] = s[b]
    BY <1>2, <1>4
  <2>3. a = b
    BY <2>1, <2>2 DEF Distinct
  <2>4. QED
    BY <1>1, <2>3
<1>6. Nodes(t) \subseteq Nodes(s) \ {s[p]}
  <2>1. SUFFICES ASSUME NEW i \in 1 .. Len(s) - 1 PROVE t[i] \in Nodes(s) /\ t[i] # s[p]
    BY <1>4 DEF Nodes
  <2>2. CASE i < p
    BY <1>1, <1>2, <1>4, <2>2 DEF Nodes, Distinct
  <2>3. CASE ~ (i < p)
    <3>1. t[i] = s[i + 1] /\ i + 1 \in 1 .. Len(s) /\ i + 1 # p
      BY <1>1, <1>2, <1>4, <2>3
    <3>2. QED
      BY <3>1 DEF Nodes, Distinct
  <2>4. QED
    BY <2>2, <2>3
<1>7. Nodes(s) \ {s[p]} \subseteq Nodes(t)
  <2>1. SUFFICES ASSUME NEW i \in 1 .. Len(s), s[i] # s[p] PROVE s[i] \in Nodes(t)
    BY DEF Nodes
  <2>2. CASE i < p
    <3>1. i \in 1 .. Len(s) - 1 /\ t[i] = s[i]
      BY <1>1, <1>4, <2>2
    <3>2. QED
      BY <1>4, <3>1 DEF Nodes
  <2>3. CASE i > p
    <3>1. i - 1 \in 1 .. Len(s) - 1 /\ ~ (i - 1 < p) /\ i - 1 + 1 = i
      BY <1>1, <2>3
    <3>2. t[i - 1] = s[i]
      BY <1>4, <3>1
    <3>3. QED
      BY <1>4, <3>1, <3>2 DEF Nodes
  <2>4. i # p /\ i \in Int /\ p \in Int
    BY <1>1, <2>1
  <2>5. QED
    BY <2>2, <2>3, <2>4
<1>8. QED
  BY <1>1, <1>4, <1>5, <1>6, <1>7 DEF t

\* The keys on the nodes of s.
Keys(h, s) ==
    [i \in 1 .. Len(s) |-> [note     |-> h.pool[s[i]].note,
                            velocity |-> h.pool[s[i]].velocity]]

Key == [note : Note, velocity : 0 .. 255]

LEMMA KeysAre ==
    ASSUME NEW h, NEW s, Orderly(h, s)
    PROVE  /\ Keys(h, s) \in Seq(Key) /\ Len(Keys(h, s)) = Len(s)
           /\ \A i \in 1 .. Len(s) : /\ Keys(h, s)[i].note = h.pool[s[i]].note
                                      /\ Keys(h, s)[i].velocity = h.pool[s[i]].velocity
           /\ \A n : Held!Places(Keys(h, s), n) = { i \in 1 .. Len(s) : h.pool[s[i]].note = n }
<1>1. Len(s) \in Nat
      /\ \A i \in 1 .. Len(s) : h.pool[s[i]].note \in Note /\ h.pool[s[i]] \in Cell
  BY OrderlyFacts
<1>2. \A i \in 1 .. Len(s) : h.pool[s[i]].velocity \in 0 .. 255
  BY <1>1 DEF Cell
<1>3. /\ Keys(h, s) \in Seq(Key) /\ Len(Keys(h, s)) = Len(s)
      /\ \A i \in 1 .. Len(s) : /\ Keys(h, s)[i].note = h.pool[s[i]].note
                                 /\ Keys(h, s)[i].velocity = h.pool[s[i]].velocity
  <2> DEFINE key(i) == [note |-> h.pool[s[i]].note, velocity |-> h.pool[s[i]].velocity]
  <2>1. \A i \in 1 .. Len(s) : /\ key(i) \in Key /\ key(i).note = h.pool[s[i]].note
                               /\ key(i).velocity = h.pool[s[i]].velocity
    BY <1>1, <1>2 DEF Key
  <2>2. Keys(h, s) = [i \in 1 .. Len(s) |-> key(i)]
    BY Zenon DEF Keys
  <2> HIDE DEF key
  <2>3. Keys(h, s) \in Seq(Key) /\ Len(Keys(h, s)) = Len(s)
        /\ \A i \in 1 .. Len(s) : Keys(h, s)[i] = key(i)
    BY <1>1, <2>1, <2>2
  <2>4. QED
    BY <2>1, <2>3
<1>4. ASSUME NEW n
      PROVE  Held!Places(Keys(h, s), n) = { i \in 1 .. Len(s) : h.pool[s[i]].note = n }
  BY <1>3 DEF Held!Places
<1>5. QED
  BY <1>3, <1>4

\* Unlink (note_stack.cc:96) takes the node at k out of the list and of the array.
LEMMA UnlinkIs ==
    ASSUME NEW h, NEW s, Orderly(h, s), NEW k \in 1 .. Len(s)
    PROVE  LET r == Unlink(h, k)
           IN  /\ Orderly(r, Cut(s, k))
               /\ Taken(r) = Taken(h) \ {s[k]}
               /\ \A i \in Node : i # s[k] => /\ r.pool[i].note = h.pool[i].note
                                             /\ r.pool[i].velocity = h.pool[i].velocity
<1> DEFINE r == Unlink(h, k)
           t == Cut(s, k)
           n == Len(s)
           after == After(s, k)
<1>1. /\ s \in Links /\ Path(h) = s /\ n \in Nat /\ n \in 0 .. kNoteStackSize
      /\ s \in [1 .. n -> Node] /\ s \in Seq(Node) /\ Distinct(s) /\ Distinct(h.sorted)
      /\ \A i \in 1 .. n : s[i] \in Node /\ s[i] \in Taken(h)
  BY OrderlyFacts
<1>2. /\ h.pool \in [Node -> Cell] /\ \A i \in Taken(h) : h.pool[i].note \in Note
      /\ h.root = After(s, 0) /\ \A i \in 1 .. n : h.pool[s[i]].next = After(s, i)
      /\ Nodes(s) = Taken(h)
  BY DEF Orderly, Fields, Linked, IsPath
<1>3. /\ t \in Seq(Node) /\ Len(t) = n - 1 /\ Len(t) \in Nat /\ Distinct(t)
      /\ Nodes(t) = Nodes(s) \ {s[k]}
      /\ \A i \in 1 .. n - 1 : t[i] = IF i < k THEN s[i] ELSE s[i + 1]
  BY <1>1, CutIs
<1>4. /\ r.pool = [i \in Node |->
                     IF i = s[k] THEN EmptyCell
                     ELSE IF k > 1 /\ i = s[k - 1] THEN [h.pool[i] EXCEPT !.next = after]
                     ELSE h.pool[i]]
      /\ r.root = IF k = 1 THEN after ELSE h.root
      /\ r.sorted = DropPointer(h.sorted, s[k])
  BY <1>1, <1>2 DEF Unlink
<1> HIDE DEF r, t, n
<1>5. after \in 0 .. kNoteStackSize
  BY <1>1, LinkFacts
<1>6. \A i \in Node :
         /\ i = s[k] => r.pool[i] = EmptyCell
         /\ i # s[k] /\ k > 1 /\ i = s[k - 1] => r.pool[i] = [h.pool[i] EXCEPT !.next = after]
         /\ i # s[k] /\ ~ (k > 1 /\ i = s[k - 1]) => r.pool[i] = h.pool[i]
  BY <1>4
<1> HIDE DEF after
<1>7. ASSUME NEW i \in Node
      PROVE  /\ r.pool[i] \in Cell
             /\ i # s[k] => /\ r.pool[i].note = h.pool[i].note
                            /\ r.pool[i].velocity = h.pool[i].velocity
             /\ i = s[k] => r.pool[i].note = kFree
  <2>1. h.pool[i] \in Cell
    BY <1>2
  <2>2. EmptyCell \in Cell /\ EmptyCell.note = kFree
    BY NodeFacts DEF EmptyCell, Cell, kFree
  <2>3. [h.pool[i] EXCEPT !.next = after] \in Cell
        /\ [h.pool[i] EXCEPT !.next = after].note = h.pool[i].note
        /\ [h.pool[i] EXCEPT !.next = after].velocity = h.pool[i].velocity
    BY <1>5, <2>1 DEF Cell
  <2>4. QED
    BY <1>6, <2>1, <2>2, <2>3
<1>8. Taken(r) = Taken(h) \ {s[k]}
  BY <1>7 DEF Taken
<1>9. Fields(r)
  <2>1. r.pool \in [Node -> Cell]
    BY <1>4, <1>7
  <2>2. \A i \in Taken(r) : r.pool[i].note \in Note
    BY <1>2, <1>7, <1>8 DEF Taken
  <2>3. QED
    BY <2>1, <2>2 DEF Fields
<1>10. IsPath(r, t)
  <2>0. k \in Nat /\ k >= 1 /\ k <= n
    BY <1>1 DEF n
  <2>1. r.root = After(t, 0)
    <3>1. CASE k = 1
      <4>1. r.root = After(s, 1)
        BY <1>4, <3>1 DEF after
      <4>2. n > 1 => 1 \in 1 .. n - 1 /\ t[1] = s[2]
        BY <1>1, <1>3, <3>1
      <4>3. QED
        BY <1>1, <1>3, <4>1, <4>2 DEF After, n
    <3>2. CASE k > 1
      <4>1. r.root = After(s, 0)
        BY <1>2, <1>4, <3>2
      <4>2. 1 \in 1 .. n - 1 /\ t[1] = s[1] /\ 0 < n - 1 /\ 0 < n
        BY <1>1, <1>3, <2>0, <3>2
      <4>3. QED
        BY <1>1, <1>3, <4>1, <4>2 DEF After, n
    <3>3. QED
      BY <2>0, <3>1, <3>2
  <2>2. ASSUME NEW i \in 1 .. n - 1 PROVE r.pool[t[i]].next = After(t, i)
    <3>0. i \in Nat /\ i \in 1 .. n /\ i + 1 \in 1 .. n /\ i + 1 - 1 = i
      BY <1>1
    <3>1. CASE i < k - 1
      <4>1. t[i] = s[i] /\ s[i] # s[k] /\ s[i] # s[k - 1] /\ s[i] \in Node
        <5>1. i < k /\ i # k /\ i # k - 1 /\ k - 1 \in 1 .. n /\ k \in 1 .. n
          BY <1>1, <2>0, <3>0, <3>1
        <5>2. QED
          BY <1>1, <1>3, <3>0, <5>1 DEF Distinct, n
      <4>2. r.pool[t[i]].next = After(s, i)
        <5>1. r.pool[s[i]] = h.pool[s[i]]
          BY <1>6, <4>1
        <5>2. QED
          BY <1>2, <3>0, <4>1, <5>1, Zenon DEF n
      <4>3. i < n /\ i < n - 1 /\ i + 1 \in 1 .. n - 1 /\ t[i + 1] = s[i + 1]
        BY <1>1, <1>3, <2>0, <3>0, <3>1
      <4>4. QED
        BY <1>1, <1>3, <4>2, <4>3 DEF After, n
    <3>2. CASE i = k - 1
      <4>1. t[i] = s[k - 1] /\ s[k - 1] # s[k] /\ s[k - 1] \in Node /\ k > 1
        <5>1. i < k /\ k - 1 # k /\ k - 1 \in 1 .. n /\ k \in 1 .. n /\ k > 1
          BY <1>1, <2>0, <3>0, <3>2
        <5>2. QED
          BY <1>1, <1>3, <3>0, <3>2, <5>1 DEF Distinct, n
      <4>2. r.pool[t[i]].next = after
        <5>1. r.pool[t[i]] = [h.pool[t[i]] EXCEPT !.next = after]
          BY <1>6, <4>1
        <5>2. h.pool[t[i]] \in Cell
          BY <1>2, <4>1
        <5>3. QED
          BY <5>1, <5>2 DEF Cell
      <4>3. k < n <=> i < n - 1
        BY <1>1, <2>0, <3>2
      <4>4. k < n => k \in 1 .. n - 1 /\ t[k] = s[k + 1] /\ i + 1 = k
        BY <1>1, <1>3, <2>0, <3>2
      <4>5. QED
        BY <1>1, <1>3, <4>2, <4>3, <4>4 DEF After, after, n
    <3>3. CASE i >= k
      <4>1. t[i] = s[i + 1] /\ s[i + 1] # s[k] /\ (k > 1 => s[i + 1] # s[k - 1])
            /\ s[i + 1] \in Node
        <5>1. ~ (i < k) /\ i + 1 # k /\ i + 1 # k - 1 /\ (k > 1 => k - 1 \in 1 .. n) /\ k \in 1 .. n
          BY <1>1, <2>0, <3>0, <3>3
        <5>2. QED
          BY <1>1, <1>3, <3>0, <5>1 DEF Distinct, n
      <4>2. r.pool[t[i]].next = After(s, i + 1)
        BY <1>2, <1>6, <3>0, <4>1
      <4>3. i + 1 < n <=> i < n - 1
        BY <1>1, <3>0
      <4>4. i + 1 < n => i + 1 \in 1 .. n - 1 /\ t[i + 1] = s[i + 1 + 1]
        BY <1>1, <1>3, <2>0, <3>0, <3>3
      <4>5. QED
        BY <1>1, <1>3, <4>2, <4>3, <4>4 DEF After, n
    <3>4. QED
      BY <2>0, <3>0, <3>1, <3>2, <3>3
  <2>3. QED
    BY <1>3, <2>1, <2>2 DEF IsPath
<1>11. Linked(r, t)
  BY <1>2, <1>3, <1>8, <1>10, LinksAre DEF Linked
<1>12. Arrayed(r, t)
  <2> DEFINE q == h.sorted
  <2>1. /\ q \in Seq(Node) /\ Len(q) = n /\ Nodes(q) = Taken(h)
        /\ \A i, j \in 1 .. n : i < j => h.pool[q[i]].note < h.pool[q[j]].note
    BY DEF Orderly, Arrayed, n
  <2>2. s[k] \in Nodes(q)
    BY <1>1, <2>1 DEF n
  <2>3. r.sorted = RemoveFirst(q, s[k])
    BY <1>4, <2>1, <2>2, RangeIs DEF DropPointer
  <2>4. PICK p \in 1 .. Len(q) : q[p] = s[k] /\ RemoveFirst(q, s[k]) = Cut(q, p)
    <3>1. \E i \in 1 .. Len(q) : q[i] = s[k]
      BY <2>2 DEF Nodes
    <3> HIDE DEF q
    <3>2. QED
      BY <2>1, <3>1, RemoveFirstIs, Zenon DEF Cut
  <2>5. /\ r.sorted \in Seq(Node) /\ Len(r.sorted) = n - 1
        /\ Nodes(r.sorted) = Nodes(q) \ {s[k]}
        /\ \A i \in 1 .. n - 1 : r.sorted[i] = IF i < p THEN q[i] ELSE q[i + 1]
    <3>1. q \in Seq(Node) /\ Distinct(q) /\ p \in 1 .. Len(q)
      BY <1>1, <2>1
    <3> HIDE DEF q
    <3>2. LET u == Cut(q, p)
          IN  /\ u \in Seq(Node) /\ Len(u) = Len(q) - 1 /\ Len(u) \in Nat
              /\ Distinct(u) /\ Nodes(u) = Nodes(q) \ {q[p]}
              /\ \A i \in 1 .. Len(u) : u[i] = IF i < p THEN q[i] ELSE q[i + 1]
      BY <3>1, CutIs, Zenon
    <3>3. r.sorted = Cut(q, p) /\ Len(q) = n /\ q[p] = s[k]
      BY <2>1, <2>3, <2>4
    <3>4. QED
      BY <3>2, <3>3, Zenon
  <2> HIDE DEF q
  <2>6. ASSUME NEW i \in 1 .. n - 1, NEW j \in 1 .. n - 1, i < j
        PROVE  r.pool[r.sorted[i]].note < r.pool[r.sorted[j]].note
    <3> DEFINE a == IF i < p THEN i ELSE i + 1
               b == IF j < p THEN j ELSE j + 1
    <3>1. a \in 1 .. n /\ b \in 1 .. n /\ a < b /\ a # p /\ b # p /\ p \in 1 .. n
      BY <1>1, <2>1, <2>6
    <3>2. r.sorted[i] = q[a] /\ r.sorted[j] = q[b]
      BY <2>5
    <3> HIDE DEF a, b
    <3>3. q[a] # s[k] /\ q[b] # s[k] /\ q[a] \in Node /\ q[b] \in Node
      BY <1>1, <2>1, <2>4, <3>1 DEF Distinct, q
    <3>4. h.pool[q[a]].note < h.pool[q[b]].note
      BY <2>1, <3>1
    <3>5. QED
      BY <1>7, <3>2, <3>3, <3>4
  <2>7. QED
    BY <1>2, <1>3, <1>8, <2>1, <2>5, <2>6 DEF Arrayed
<1>13. QED
  BY <1>7, <1>8, <1>9, <1>11, <1>12 DEF Orderly, r, t

LEMMA UnlinkKeys ==
    ASSUME NEW h, NEW s, Orderly(h, s), NEW k \in 1 .. Len(s)
    PROVE  Keys(Unlink(h, k), Cut(s, k)) = RemoveAt(Keys(h, s), k)
<1>1. PICK r, t, q : r = Unlink(h, k) /\ t = Cut(s, k) /\ q = Keys(h, s)
  OBVIOUS
<1>2. /\ Orderly(r, t)
      /\ \A i \in Node : i # s[k] => /\ r.pool[i].note = h.pool[i].note
                                    /\ r.pool[i].velocity = h.pool[i].velocity
  BY <1>1, UnlinkIs
<1>3. /\ Len(s) \in Nat /\ s \in Seq(Node) /\ Distinct(s)
      /\ \A i \in 1 .. Len(s) : s[i] \in Node
  BY OrderlyFacts
<1>4. /\ Len(t) = Len(s) - 1
      /\ \A i \in 1 .. Len(s) - 1 : t[i] = IF i < k THEN s[i] ELSE s[i + 1]
  BY <1>1, <1>3, CutIs
<1>5. /\ q \in Seq(Key) /\ Len(q) = Len(s)
      /\ \A i \in 1 .. Len(s) :
           q[i] = [note |-> h.pool[s[i]].note, velocity |-> h.pool[s[i]].velocity]
  <2>1. q \in Seq(Key) /\ Len(q) = Len(s)
    BY <1>1, KeysAre
  <2>2. QED
    BY <1>1, <2>1, Zenon DEF Keys
<1>6. RemoveAt(q, k) = [i \in 1 .. Len(s) - 1 |-> IF i < k THEN q[i] ELSE q[i + 1]]
  <2>1. k \in 1 .. Len(q)
    BY <1>5
  <2>2. RemoveAt(q, k) = [i \in 1 .. Len(q) - 1 |-> IF i < k THEN q[i] ELSE q[i + 1]]
    BY <1>5, <2>1, RemoveAtIs, Zenon
  <2>3. QED
    BY <1>5, <2>2
<1>7. ASSUME NEW i \in 1 .. Len(s) - 1
      PROVE  [note |-> r.pool[t[i]].note, velocity |-> r.pool[t[i]].velocity]
               = IF i < k THEN q[i] ELSE q[i + 1]
  <2> DEFINE j == IF i < k THEN i ELSE i + 1
  <2>1. j \in 1 .. Len(s) /\ j # k
    BY <1>3
  <2>2. t[i] = s[j] /\ (IF i < k THEN q[i] ELSE q[i + 1]) = q[j]
    BY <1>4
  <2> HIDE DEF j
  <2>3. s[j] \in Node /\ s[j] # s[k]
    BY <1>3, <2>1 DEF Distinct
  <2>4. q[j] = [note |-> h.pool[s[j]].note, velocity |-> h.pool[s[j]].velocity]
    BY <1>5, <2>1, Zenon
  <2>5. r.pool[t[i]].note = h.pool[s[j]].note /\ r.pool[t[i]].velocity = h.pool[s[j]].velocity
    BY <1>2, <2>2, <2>3
  <2>6. QED
    BY <2>2, <2>4, <2>5
<1>8. Keys(r, t) = [i \in 1 .. Len(s) - 1 |->
                      [note |-> r.pool[t[i]].note, velocity |-> r.pool[t[i]].velocity]]
  BY <1>4, Zenon DEF Keys
<1>9. Keys(r, t) = RemoveAt(q, k)
  BY <1>6, <1>7, <1>8, Zenon
<1>10. QED
  BY <1>1, <1>9

\* No node of the list holds the note.
Lacks(h, s, n) == \A i \in 1 .. Len(s) : h.pool[s[i]].note # n

\* NoteOff (note_stack.cc:81) releases the key, if it is down.
LEMMA NoteOffIs ==
    ASSUME NEW h, NEW s, Orderly(h, s), NEW n
    PROVE  \E t : /\ Orderly(NoteOff(h, n), t)
                  /\ Keys(NoteOff(h, n), t) = Held!Without(Keys(h, s), n)
                  /\ Lacks(NoteOff(h, n), t, n)
<1> DEFINE found == { k \in 1 .. Len(s) : h.pool[s[k]].note = n }
<1>1. /\ Path(h) = s /\ Len(s) \in Nat /\ s \in Seq(Node) /\ Distinct(s)
      /\ \A i \in 1 .. Len(s) : s[i] \in Node
      /\ \A i, j \in 1 .. Len(s) : h.pool[s[i]].note = h.pool[s[j]].note => i = j
  BY OrderlyFacts
<1>2. Held!Places(Keys(h, s), n) = found
  BY KeysAre
<1>3. NoteOff(h, n) = IF found = {} THEN h ELSE Unlink(h, Min(found))
  BY <1>1 DEF NoteOff
<1>4. Held!Without(Keys(h, s), n)
        = IF found = {} THEN Keys(h, s) ELSE RemoveAt(Keys(h, s), Min(found))
  BY <1>2 DEF Held!Without, Held!RemoveAt, RemoveAt, Held!Min, Min
<1>5. CASE found = {}
  <2>1. \A i \in 1 .. Len(s) : h.pool[s[i]].note # n
    BY <1>5
  <2>2. QED
    BY <1>3, <1>4, <1>5, <2>1 DEF Lacks
<1>6. CASE found # {}
  <2>1. found \subseteq Nat
    BY <1>1
  <2>2. Min(found) \in found
    BY <1>6, <2>1, MinIn
  <2>3. PICK k \in found : k = Min(found)
    BY <2>2
  <2>4. k \in 1 .. Len(s) /\ h.pool[s[k]].note = n
    BY <2>3
  <2>5. NoteOff(h, n) = Unlink(h, k) /\ Held!Without(Keys(h, s), n) = RemoveAt(Keys(h, s), k)
    BY <1>3, <1>4, <1>6, <2>3
  <2> HIDE DEF found
  <2>6. PICK r, t : r = Unlink(h, k) /\ t = Cut(s, k)
    OBVIOUS
  <2>7. /\ Orderly(r, t)
        /\ \A i \in Node : i # s[k] => r.pool[i].note = h.pool[i].note
    BY <2>4, <2>6, UnlinkIs
  <2>8. Keys(r, t) = RemoveAt(Keys(h, s), k)
    BY <2>4, <2>6, UnlinkKeys
  <2>9. ASSUME NEW i \in 1 .. Len(t) PROVE r.pool[t[i]].note # n
    <3> DEFINE j == IF i < k THEN i ELSE i + 1
    <3>1. Len(t) = Len(s) - 1 /\ \A a \in 1 .. Len(t) : t[a] = IF a < k THEN s[a] ELSE s[a + 1]
      <4>1. s \in Seq(Node) /\ Distinct(s) /\ k \in 1 .. Len(s) /\ t = Cut(s, k)
        BY <1>1, <2>4, <2>6
      <4>2. QED
        BY <4>1, CutIs
    <3>2. j \in 1 .. Len(s) /\ j # k /\ t[i] = s[j]
      BY <1>1, <2>4, <3>1
    <3> HIDE DEF j
    <3>3. s[j] \in Node /\ s[j] # s[k] /\ h.pool[s[j]].note # h.pool[s[k]].note
      BY <1>1, <2>4, <3>2 DEF Distinct
    <3>4. QED
      BY <2>4, <2>7, <3>2, <3>3, Zenon
  <2>10. Lacks(r, t, n)
    BY <2>9 DEF Lacks
  <2>11. NoteOff(h, n) = r /\ Keys(r, t) = Held!Without(Keys(h, s), n)
    BY <2>5, <2>6, <2>8
  <2>12. QED
    BY <2>7, <2>10, <2>11
<1>7. QED
  BY <1>5, <1>6

-----------------------------------------------------------------------------
(* NoteOn.                                                                 *)

\* With every node taken, the one node without a link is the last of the list.
LEMMA LastIs ==
    ASSUME NEW h, NEW s, Orderly(h, s), Len(s) = kNoteStackSize
    PROVE  { i \in Node : h.pool[i].next = 0 } = {s[kNoteStackSize]}
<1>1. /\ s \in Links /\ Len(s) \in Nat /\ s \in Seq(Node) /\ Distinct(s)
      /\ \A i \in 1 .. Len(s) : s[i] \in Node
  BY OrderlyFacts
<1>2. \A i \in 1 .. Len(s) : h.pool[s[i]].next = 0 <=> i = Len(s)
  <2>1. \A i \in 1 .. Len(s) : h.pool[s[i]].next = After(s, i)
    BY DEF Orderly, Linked, IsPath
  <2>2. \A i \in 0 .. Len(s) : After(s, i) = 0 <=> i = Len(s)
    BY <1>1, LinkFacts
  <2>3. \A i \in 1 .. Len(s) : i \in 0 .. Len(s)
    BY <1>1
  <2>4. QED
    BY <2>1, <2>2, <2>3, Zenon
<1>3. \A x \in Node : \E i \in 1 .. Len(s) : x = s[i]
  <2>1. Nodes(s) = Node
    BY <1>1, FullIs
  <2>2. QED
    BY <2>1 DEF Nodes
<1>4. Len(s) \in 1 .. Len(s)
  BY <1>1, NodeFacts
<1>5. ASSUME NEW x \in Node, h.pool[x].next = 0 PROVE x = s[Len(s)]
  <2>1. PICK i \in 1 .. Len(s) : x = s[i]
    BY <1>3
  <2>2. QED
    BY <1>2, <1>5, <2>1
<1>6. s[Len(s)] \in Node /\ h.pool[s[Len(s)]].next = 0
  BY <1>1, <1>2, <1>4
<1>7. QED
  BY <1>5, <1>6

\* The keys that stay when one more goes down.
Kept(held) ==
    SubSeq(held, 1, IF Len(held) = kNoteStackSize THEN kNoteStackSize - 1 ELSE Len(held))

\* The key pressed longest ago makes room (note_stack.cc:51).
LEMMA MakeRoomIs ==
    ASSUME NEW h, NEW s, Orderly(h, s), NEW n,
           Lacks(h, s, n)
    PROVE  \E t : /\ Orderly(MakeRoom(h), t) /\ Len(t) < kNoteStackSize
                  /\ Keys(MakeRoom(h), t) = Kept(Keys(h, s))
                  /\ Lacks(MakeRoom(h), t, n)
<1> DEFINE N == kNoteStackSize
<1>1. /\ Size(h) = Len(s) /\ Len(s) \in Nat /\ Len(s) <= N /\ N \in Nat /\ N \in 1 .. N
      /\ \A i \in 1 .. Len(s) : s[i] \in Node
      /\ \A i, j \in 1 .. Len(s) : h.pool[s[i]].note = h.pool[s[j]].note => i = j
  BY OrderlyFacts, NodeFacts
<1>2. PICK q : q = Keys(h, s)
  OBVIOUS
<1>3. /\ q \in Seq(Key) /\ Len(q) = Len(s)
      /\ \A i \in 1 .. Len(s) : q[i].note = h.pool[s[i]].note
      /\ \A e : Held!Places(q, e) = { i \in 1 .. Len(s) : h.pool[s[i]].note = e }
  BY <1>2, KeysAre
<1>4. CASE Len(s) = N
  <2>1. { i \in Node : h.pool[i].next = 0 } = {s[N]}
    BY <1>4, LastIs
  <2>2. s[N] \in Node /\ Node \subseteq Nat
    BY <1>1, <1>4, NodeFacts
  <2>3. Min({s[N]}) = s[N]
    <3>1. s[N] \in Nat
      BY <2>2
    <3>2. QED
      BY <3>1, MinOfOne
  <2>4. MakeRoom(h) = NoteOff(h, h.pool[s[N]].note)
    BY <1>1, <1>4, <2>1, <2>3 DEF MakeRoom
  <2>5. PICK r, e : r = MakeRoom(h) /\ e = h.pool[s[N]].note
    OBVIOUS
  <2>6. PICK t : Orderly(r, t) /\ Keys(r, t) = Held!Without(q, e)
    BY <1>2, <2>4, <2>5, NoteOffIs
  <2>7. Held!Places(q, e) = {N}
    BY <1>1, <1>3, <1>4, <2>5
  <2>8. Held!Without(q, e) = RemoveAt(q, N)
    <3>1. Min({N}) = N
      BY <1>1, MinIn
    <3>2. QED
      BY <2>7, <3>1 DEF Held!Without, Held!RemoveAt, RemoveAt, Held!Min, Min
  <2>9. RemoveAt(q, N) = [i \in 1 .. Len(q) - 1 |-> IF i < N THEN q[i] ELSE q[i + 1]]
    BY <1>1, <1>3, <1>4, RemoveAtIs
  <2>10. RemoveAt(q, N) = [i \in 1 .. N - 1 |-> q[i]]
    BY <1>1, <1>3, <1>4, <2>9
  <2>11. Kept(q) = [i \in 1 .. N - 1 |-> q[i]]
    BY <1>1, <1>3, <1>4 DEF Kept
  <2>12. /\ Len(Keys(r, t)) = Len(t) /\ Len(t) \in Nat
         /\ \A i \in 1 .. Len(t) : Keys(r, t)[i].note = r.pool[t[i]].note
    BY <2>6, KeysAre, OrderlyFacts
  <2>13. Len(t) = N - 1 /\ \A i \in 1 .. N - 1 : Keys(r, t)[i] = q[i]
    BY <1>1, <2>6, <2>8, <2>10, <2>12
  <2>14. \A i \in 1 .. Len(t) : i \in 1 .. Len(s)
    BY <1>1, <1>4, <2>13
  <2>15. \A i \in 1 .. Len(t) : r.pool[t[i]].note # n
    <3>1. SUFFICES ASSUME NEW i \in 1 .. Len(t) PROVE r.pool[t[i]].note # n
      OBVIOUS
    <3>2. i \in 1 .. Len(s) /\ i \in 1 .. N - 1
      BY <2>13, <2>14
    <3>3. r.pool[t[i]].note = q[i].note
      BY <2>12, <2>13, <3>2
    <3>4. q[i].note # n
      BY <1>3, <3>2 DEF Lacks
    <3>5. QED
      BY <3>3, <3>4
  <2>16. Len(t) < N
    BY <1>1, <2>13
  <2>17. QED
    <3>1. Keys(r, t) = Kept(q)
      BY <2>6, <2>8, <2>10, <2>11, Zenon
    <3>2. /\ Orderly(MakeRoom(h), t) /\ Len(t) < kNoteStackSize
          /\ Keys(MakeRoom(h), t) = Kept(Keys(h, s))
          /\ Lacks(MakeRoom(h), t, n)
      BY <1>2, <2>5, <2>6, <2>15, <2>16, <3>1 DEF Lacks
    <3>3. QED
      BY <3>2
<1>5. CASE Len(s) # N
  <2>1. MakeRoom(h) = h /\ Len(s) < N
    BY <1>1, <1>5 DEF MakeRoom
  <2>2. Kept(q) = q
    BY <1>3, <1>5 DEF Kept
  <2>3. QED
    BY <1>2, <2>1, <2>2
<1>6. QED
  BY <1>4, <1>5

\* The new pointer goes between the lower notes and the higher ones (note_stack.cc:68).
LEMMA RankIs ==
    ASSUME NEW h, NEW s, Orderly(h, s), NEW n \in Note,
           Lacks(h, s, n)
    PROVE  /\ Rank(h, n) \in 1 .. Len(s) + 1
           /\ \A i \in 1 .. Len(s) :
                /\ i < Rank(h, n) => h.pool[h.sorted[i]].note < n
                /\ i >= Rank(h, n) => h.pool[h.sorted[i]].note > n
<1> DEFINE q == h.sorted
           I == { i \in 1 .. Size(h) + 1 : i = Size(h) + 1 \/ h.pool[q[i]].note > n }
<1>1. Size(h) = Len(s) /\ Len(s) \in Nat /\ n \in Int
  BY OrderlyFacts, NodeFacts
<1>2. /\ Len(q) = Len(s) /\ Nodes(q) = Taken(h) /\ Nodes(s) = Taken(h)
      /\ \A i, j \in 1 .. Len(s) : i < j => h.pool[q[i]].note < h.pool[q[j]].note
  BY DEF Orderly, Arrayed, Linked
<1>3. ASSUME NEW i \in 1 .. Len(s)
      PROVE  h.pool[q[i]].note \in Int /\ h.pool[q[i]].note # n
  <2>1. q[i] \in Nodes(s)
    BY <1>2 DEF Nodes
  <2>2. PICK j \in 1 .. Len(s) : q[i] = s[j]
    BY <2>1 DEF Nodes
  <2>3. h.pool[s[j]].note \in Note /\ h.pool[s[j]].note # n
    BY OrderlyFacts DEF Lacks
  <2>4. QED
    BY <2>2, <2>3, NodeFacts, Zenon
<1>4. I \subseteq Nat /\ I # {}
  <2>1. Size(h) + 1 \in I
    BY <1>1
  <2>2. I \subseteq Nat
    BY <1>1
  <2>3. QED
    BY <2>1, <2>2
<1>5. Min(I) \in I /\ \A x \in I : Min(I) <= x
  BY <1>4, MinIn
<1>6. PICK p \in I : p = Rank(h, n) /\ \A x \in I : p <= x
  BY <1>5 DEF Rank
<1>7. p \in 1 .. Len(s) + 1 /\ (p = Len(s) + 1 \/ h.pool[q[p]].note > n)
  BY <1>1
<1>8. ASSUME NEW i \in 1 .. Len(s), i < p PROVE h.pool[q[i]].note < n
  <2>1. i \notin I
    BY <1>1, <1>6, <1>7, <1>8
  <2>2. ~ (h.pool[q[i]].note > n)
    BY <1>1, <2>1
  <2>3. QED
    BY <1>1, <1>3, <2>2
<1>9. ASSUME NEW i \in 1 .. Len(s), i >= p PROVE h.pool[q[i]].note > n
  <2>1. p \in 1 .. Len(s) /\ (p = i \/ p < i)
    BY <1>1, <1>7, <1>9
  <2>2. h.pool[q[p]].note > n
    BY <1>1, <1>7, <2>1
  <2>3. p < i => h.pool[q[p]].note < h.pool[q[i]].note
    BY <1>2, <2>1
  <2>4. h.pool[q[p]].note \in Int /\ h.pool[q[i]].note \in Int /\ n \in Int
    BY <1>1, <1>3, <2>1
  <2>5. CASE p = i
    BY <2>2, <2>5
  <2>6. CASE p < i
    BY <2>2, <2>3, <2>4, <2>6
  <2>7. QED
    BY <2>1, <2>5, <2>6
<1>10. QED
  BY <1>6, <1>7, <1>8, <1>9

LEMMA PushIs ==
    ASSUME NEW h, NEW s, Orderly(h, s), Len(s) < kNoteStackSize,
           NEW n \in Note, NEW v \in 0 .. 255,
           Lacks(h, s, n)
    PROVE  \E t : /\ Orderly(Push(h, n, v), t)
                  /\ Keys(Push(h, n, v), t)
                       = <<[note |-> n, velocity |-> v]>> \o Keys(h, s)
<1> DEFINE slot == Max(Node \ Taken(h))
           cell == [note |-> n, velocity |-> v, next |-> h.root]
           L == Len(s)
<1>1. /\ s \in Links /\ Size(h) = L /\ L \in Nat /\ s \in Seq(Node) /\ Distinct(s)
      /\ \A i \in 1 .. L : s[i] \in Node /\ s[i] \in Taken(h)
      /\ Distinct(h.sorted)
  BY OrderlyFacts
<1>2. /\ h.pool \in [Node -> Cell] /\ \A i \in Taken(h) : h.pool[i].note \in Note
      /\ h.root = After(s, 0) /\ \A i \in 1 .. L : h.pool[s[i]].next = After(s, i)
      /\ Nodes(s) = Taken(h)
  BY DEF Orderly, Fields, Linked, IsPath
<1>3. slot \in Node /\ slot \notin Taken(h)
  <2>1. Taken(h) # Node
    BY <1>1, <1>2, FullIs, NodeFacts
  <2>2. Node \ Taken(h) # {} /\ Node \ Taken(h) \subseteq 0 .. kNoteStackSize
    BY <2>1, NodeFacts DEF Taken, Node
  <2>3. kNoteStackSize \in Nat
    BY NodeFacts
  <2>4. slot \in Node \ Taken(h)
    BY <2>2, <2>3, MaxIn
  <2>5. QED
    BY <2>4
<1>4. PICK r : r = Push(h, n, v)
  OBVIOUS
<1>5. PICK t : t = <<slot>> \o s
  OBVIOUS
<1>6. /\ r.pool = [h.pool EXCEPT ![slot] = cell] /\ r.root = slot
      /\ r.sorted = InsertAt(h.sorted, Rank(h, n), slot)
  BY <1>4 DEF Push
<1> HIDE DEF slot
<1>7. /\ t \in Seq(Node) /\ Len(t) = L + 1 /\ t[1] = slot
      /\ \A i \in 1 .. L : t[i + 1] = s[i]
      /\ \A i \in 1 .. L + 1 : i # 1 => i - 1 \in 1 .. L /\ t[i] = s[i - 1]
  BY <1>1, <1>3, <1>5
<1>8. /\ r.pool[slot] = cell
      /\ \A i \in Node : i # slot => r.pool[i] = h.pool[i]
      /\ DOMAIN r.pool = Node
  BY <1>2, <1>3, <1>6
<1>9. cell \in Cell /\ cell.note = n /\ cell.velocity = v /\ cell.next = h.root
      /\ n # kFree /\ n \in Int
  <2>1. h.root \in 0 .. kNoteStackSize
    BY <1>1, <1>2, LinkFacts
  <2>2. n \in 0 .. 255
    BY NodeFacts
  <2>3. QED
    BY <2>1, <2>2, NodeFacts DEF Cell
<1> HIDE DEF cell
<1>10. Taken(r) = Taken(h) \cup {slot}
  BY <1>3, <1>8, <1>9 DEF Taken
<1>11. Fields(r)
  <2>1. r.pool \in [Node -> Cell]
    BY <1>2, <1>3, <1>6, <1>9
  <2>2. \A i \in Taken(r) : r.pool[i].note \in Note
    BY <1>2, <1>3, <1>8, <1>9, <1>10 DEF Taken
  <2>3. QED
    BY <2>1, <2>2 DEF Fields
<1>12. Distinct(t)
  <2>1. SUFFICES ASSUME NEW i \in 1 .. L + 1, NEW j \in 1 .. L + 1, t[i] = t[j]
                 PROVE  i = j
    BY <1>7 DEF Distinct
  <2>2. i # 1 => t[i] # slot
    BY <1>1, <1>3, <1>7
  <2>3. j # 1 => t[j] # slot
    BY <1>1, <1>3, <1>7
  <2>4. CASE i = 1 \/ j = 1
    BY <1>7, <2>1, <2>2, <2>3, <2>4
  <2>5. CASE i # 1 /\ j # 1
    <3>1. i - 1 \in 1 .. L /\ j - 1 \in 1 .. L /\ s[i - 1] = s[j - 1]
      BY <1>7, <2>1, <2>5
    <3>2. i - 1 = j - 1
      BY <1>1, <3>1 DEF Distinct
    <3>3. QED
      BY <1>1, <3>2
  <2>6. QED
    BY <2>4, <2>5
<1>13. Nodes(t) = Taken(r)
  <2>1. \A x : x \in Nodes(t) <=> x = slot \/ x \in Nodes(s)
    <3>1. ASSUME NEW x \in Nodes(t) PROVE x = slot \/ x \in Nodes(s)
      <4>1. PICK i \in 1 .. L + 1 : x = t[i]
        BY <1>7 DEF Nodes
      <4>2. CASE i = 1
        BY <1>7, <4>1, <4>2
      <4>3. CASE i # 1
        <5>1. i - 1 \in 1 .. L /\ x = s[i - 1]
          BY <1>7, <4>1, <4>3
        <5>2. QED
          BY <5>1 DEF Nodes
      <4>4. QED
        BY <4>2, <4>3
    <3>2. 1 \in 1 .. L + 1 /\ \A i \in 1 .. L : i + 1 \in 1 .. L + 1
      BY <1>1
    <3>3. slot \in Nodes(t) /\ \A x \in Nodes(s) : x \in Nodes(t)
      BY <1>7, <3>2 DEF Nodes
    <3>4. QED
      BY <3>1, <3>3
  <2>2. QED
    BY <1>2, <1>10, <2>1
<1>14. IsPath(r, t)
  <2>1. r.root = After(t, 0)
    BY <1>1, <1>6, <1>7 DEF After
  <2>2. ASSUME NEW i \in 1 .. L + 1 PROVE r.pool[t[i]].next = After(t, i)
    <3>1. i - 1 \in 0 .. L /\ i \in Nat /\ After(t, i) = After(s, i - 1)
      BY <1>1, <1>7 DEF After
    <3>2. CASE i = 1
      BY <1>2, <1>7, <1>8, <1>9, <3>1, <3>2
    <3>3. CASE i # 1
      <4>1. i - 1 \in 1 .. L /\ t[i] = s[i - 1]
        BY <1>7, <3>3
      <4>2. r.pool[t[i]] = h.pool[s[i - 1]]
        BY <1>1, <1>3, <1>8, <4>1
      <4>3. QED
        BY <1>2, <3>1, <4>1, <4>2, Zenon
    <3>4. QED
      BY <3>2, <3>3
  <2>3. QED
    BY <1>7, <2>1, <2>2 DEF IsPath
<1>15. Linked(r, t)
  BY <1>7, <1>12, <1>13, <1>14, LinksAre DEF Linked
<1>16. Arrayed(r, t)
  <2> DEFINE q == h.sorted
  <2>1. /\ q \in Seq(Node) /\ Len(q) = L /\ Nodes(q) = Taken(h)
        /\ \A i, j \in 1 .. L : i < j => h.pool[q[i]].note < h.pool[q[j]].note
    BY DEF Orderly, Arrayed
  <2>2. PICK p \in 1 .. L + 1 :
          /\ p = Rank(h, n)
          /\ \A i \in 1 .. L : /\ i < p => h.pool[q[i]].note < n
                               /\ i >= p => h.pool[q[i]].note > n
    BY RankIs
  <2>3. PICK u : u = r.sorted
    OBVIOUS
  <2> HIDE DEF q
  <2>4. u = [i \in 1 .. L + 1 |-> IF i < p THEN q[i] ELSE IF i = p THEN slot ELSE q[i - 1]]
    <3>1. p \in 1 .. Len(q) + 1
      BY <2>1
    <3>2. InsertAt(q, p, slot)
            = [i \in 1 .. Len(q) + 1 |->
                 IF i < p THEN q[i] ELSE IF i = p THEN slot ELSE q[i - 1]]
      <4>1. slot \in Node /\ q \in Seq(Node)
        BY <1>3, <2>1
      <4>2. QED
        BY <3>1, <4>1, InsertAtIs
    <3>3. u = InsertAt(q, p, slot) /\ Len(q) = L
      BY <1>6, <2>1, <2>2, <2>3 DEF q
    <3>4. QED
      BY <3>2, <3>3, Zenon
  <2>5. \A i \in 1 .. L : q[i] \in Node /\ q[i] # slot
    BY <1>1, <1>3, <2>1 DEF Nodes
  <2>6. \A i \in 1 .. L + 1 : /\ i < p => i \in 1 .. L
                              /\ i > p => i - 1 \in 1 .. L /\ i - 1 >= p
    BY <1>1
  <2>7. \A i \in 1 .. L + 1 : /\ i < p => u[i] = q[i]
                              /\ i = p => u[i] = slot
                              /\ i > p => u[i] = q[i - 1]
    BY <1>1, <2>4
  <2>8. u \in Seq(Node) /\ Len(u) = L + 1
    <3>1. \A i \in 1 .. L + 1 :
             (IF i < p THEN q[i] ELSE IF i = p THEN slot ELSE q[i - 1]) \in Node
      BY <1>1, <1>3, <2>5, <2>6
    <3>2. QED
      BY <1>1, <2>4, <3>1
  <2>9. Nodes(u) = Taken(r)
    <3>1. ASSUME NEW x \in Nodes(u) PROVE x = slot \/ x \in Nodes(q)
      <4>1. PICK i \in 1 .. L + 1 : x = u[i]
        BY <2>8 DEF Nodes
      <4>2. i < p => x \in Nodes(q)
        BY <2>1, <2>6, <2>7, <4>1 DEF Nodes
      <4>3. i > p => x \in Nodes(q)
        BY <2>1, <2>6, <2>7, <4>1 DEF Nodes
      <4>4. i < p \/ i = p \/ i > p
        BY <1>1
      <4>5. QED
        BY <2>7, <4>1, <4>2, <4>3, <4>4
    <3>2. slot \in Nodes(u)
      BY <2>7, <2>8 DEF Nodes
    <3>3. ASSUME NEW x \in Nodes(q) PROVE x \in Nodes(u)
      <4>1. PICK i \in 1 .. L : x = q[i]
        BY <2>1 DEF Nodes
      <4>2. CASE i < p
        <5>1. i \in 1 .. L + 1 /\ u[i] = x
          BY <1>1, <2>7, <4>1, <4>2
        <5>2. QED
          BY <2>8, <5>1 DEF Nodes
      <4>3. CASE ~ (i < p)
        <5>1. i + 1 \in 1 .. L + 1 /\ i + 1 > p /\ i + 1 - 1 = i
          BY <1>1, <4>3
        <5>2. u[i + 1] = x
          BY <2>7, <4>1, <5>1
        <5>3. QED
          BY <2>8, <5>1, <5>2 DEF Nodes
      <4>4. QED
        BY <4>2, <4>3
    <3>4. QED
      BY <1>10, <2>1, <3>1, <3>2, <3>3
  <2>10. ASSUME NEW i \in 1 .. L + 1, NEW j \in 1 .. L + 1, i < j
         PROVE  r.pool[u[i]].note < r.pool[u[j]].note
    <3> DEFINE Lower(a) == h.pool[q[a]].note
    <3>1. \A a \in 1 .. L : r.pool[q[a]].note = Lower(a) /\ Lower(a) \in Int
      <4>1. \A a \in 1 .. L : q[a] \in Taken(h)
        BY <2>1 DEF Nodes
      <4>2. \A a \in 1 .. L : Lower(a) \in Int
        BY <1>2, <4>1, NodeFacts
      <4>3. QED
        BY <1>8, <2>5, <4>2, Zenon
    <3>2. r.pool[slot].note = n
      BY <1>8, <1>9
    <3>3. /\ \A a, b \in 1 .. L : a < b => Lower(a) < Lower(b)
          /\ \A a \in 1 .. L : (a < p => Lower(a) < n) /\ (a >= p => Lower(a) > n)
      BY <2>1, <2>2
    <3> HIDE DEF Lower
    <3>4. CASE j < p
      <4>1. i < p /\ i \in 1 .. L /\ j \in 1 .. L
        BY <1>1, <2>10, <3>4
      <4>2. QED
        BY <2>7, <2>10, <3>1, <3>3, <3>4, <4>1
    <3>5. CASE i < p /\ j = p
      BY <2>6, <2>7, <3>1, <3>2, <3>3, <3>5
    <3>6. CASE i < p /\ j > p
      <4>1. i \in 1 .. L /\ j - 1 \in 1 .. L /\ i < j - 1
        BY <1>1, <2>6, <3>6
      <4>2. QED
        BY <2>7, <3>1, <3>3, <3>6, <4>1
    <3>7. CASE i = p /\ j > p
      <4>1. j - 1 \in 1 .. L /\ j - 1 >= p /\ r.pool[u[j]].note = Lower(j - 1)
        BY <2>6, <2>7, <3>1, <3>7
      <4>2. r.pool[u[i]].note = n
        BY <2>7, <3>2, <3>7
      <4>3. n < Lower(j - 1)
        BY <1>9, <3>1, <3>3, <4>1
      <4>4. QED
        BY <4>1, <4>2, <4>3
    <3>8. CASE i > p
      <4>1. j > p /\ i - 1 \in 1 .. L /\ j - 1 \in 1 .. L /\ i - 1 < j - 1
        BY <1>1, <2>6, <2>10, <3>8
      <4>2. QED
        BY <2>7, <3>1, <3>3, <3>8, <4>1
    <3>9. QED
      BY <1>1, <2>10, <3>4, <3>5, <3>6, <3>7, <3>8
  <2>11. QED
    BY <1>7, <2>3, <2>8, <2>9, <2>10 DEF Arrayed
<1>17. Keys(r, t) = <<[note |-> n, velocity |-> v]>> \o Keys(h, s)
  <2> DEFINE key == [note |-> n, velocity |-> v]
  <2>1. PICK q : q = Keys(h, s)
    OBVIOUS
  <2>2. /\ q \in Seq(Key) /\ Len(q) = L
        /\ q = [i \in 1 .. L |-> [note |-> h.pool[s[i]].note, velocity |-> h.pool[s[i]].velocity]]
    <3>1. q \in Seq(Key) /\ Len(q) = L
      BY <2>1, KeysAre
    <3>2. QED
      BY <2>1, <3>1, Zenon DEF Keys
  <2>3. key \in Key
    BY DEF Key
  <2> HIDE DEF key
  <2>4. <<key>> \o q = [i \in 1 .. 1 + L |-> IF i <= 1 THEN <<key>>[i] ELSE q[i - 1]]
    <3>1. <<key>> \in Seq(Key) /\ Len(<<key>>) = 1
      BY <2>3
    <3>2. PICK a : a = <<key>>
      OBVIOUS
    <3>3. a \in Seq(Key) /\ Len(a) = 1 /\ q \in Seq(Key)
      BY <2>2, <3>1, <3>2
    <3>4. a \o q = [i \in 1 .. Len(a) + Len(q) |-> IF i <= Len(a) THEN a[i] ELSE q[i - Len(a)]]
      BY <3>3, ConcatIs, Zenon
    <3>5. Len(q) = L
      BY <2>2
    <3>6. a \o q = [i \in 1 .. 1 + L |-> IF i <= 1 THEN a[i] ELSE q[i - 1]]
      BY <3>3, <3>4, <3>5, Zenon
    <3>7. QED
      BY <3>2, <3>6, Zenon
  <2>5. Keys(r, t)
          = [i \in 1 .. L + 1 |-> [note |-> r.pool[t[i]].note, velocity |-> r.pool[t[i]].velocity]]
    BY <1>7, Zenon DEF Keys
  <2>6. ASSUME NEW i \in 1 .. L + 1
        PROVE  [note |-> r.pool[t[i]].note, velocity |-> r.pool[t[i]].velocity]
                 = IF i <= 1 THEN <<key>>[i] ELSE q[i - 1]
    <3>1. CASE i = 1
      <4>1. t[i] = slot /\ (IF i <= 1 THEN <<key>>[i] ELSE q[i - 1]) = key
        BY <1>7, <3>1
      <4>2. r.pool[slot].note = n /\ r.pool[slot].velocity = v
        BY <1>8, <1>9
      <4>3. QED
        BY <4>1, <4>2 DEF key
    <3>2. CASE i # 1
      <4>1. i - 1 \in 1 .. L /\ t[i] = s[i - 1] /\ ~ (i <= 1)
        BY <1>1, <1>7, <3>2
      <4>2. r.pool[t[i]] = h.pool[s[i - 1]]
        BY <1>1, <1>3, <1>8, <4>1
      <4>3. QED
        BY <2>2, <4>1, <4>2
    <3>3. QED
      BY <3>1, <3>2
  <2>7. 1 + L = L + 1
    BY <1>1
  <2>8. Keys(r, t) = <<key>> \o q
    BY <2>4, <2>5, <2>6, <2>7, Zenon
  <2>9. QED
    BY <2>1, <2>8 DEF key
<1>18. QED
  BY <1>4, <1>11, <1>15, <1>16, <1>17 DEF Orderly

\* NoteOn (note_stack.cc:40) presses the key.
LEMMA NoteOnIs ==
    ASSUME NEW h, NEW s, Orderly(h, s), NEW n \in Note, NEW v \in 0 .. 255
    PROVE  \E t : /\ Orderly(NoteOn(h, n, v), t)
                  /\ Keys(NoteOn(h, n, v), t) = Held!Pressed(Keys(h, s), kNoteStackSize, n, v)
<1>1. PICK a, b : a = NoteOff(h, n) /\ b = MakeRoom(a)
  OBVIOUS
<1>2. PICK t : /\ Orderly(a, t) /\ Keys(a, t) = Held!Without(Keys(h, s), n)
               /\ Lacks(a, t, n)
  BY <1>1, NoteOffIs
<1>3. PICK u : /\ Orderly(b, u) /\ Len(u) < kNoteStackSize /\ Keys(b, u) = Kept(Keys(a, t))
               /\ Lacks(b, u, n)
  <2>1. Orderly(a, t) /\ Lacks(a, t, n)
    BY <1>2
  <2>2. \E u : /\ Orderly(MakeRoom(a), u) /\ Len(u) < kNoteStackSize
               /\ Keys(MakeRoom(a), u) = Kept(Keys(a, t))
               /\ Lacks(MakeRoom(a), u, n)
    BY <2>1, MakeRoomIs, Zenon
  <2>3. QED
    BY <1>1, <2>2
<1>4. NoteOn(h, n, v) = Push(b, n, v)
  BY <1>1 DEF NoteOn
<1>5. PICK w : /\ Orderly(Push(b, n, v), w)
               /\ Keys(Push(b, n, v), w) = <<[note |-> n, velocity |-> v]>> \o Keys(b, u)
  BY <1>3, PushIs
<1>6. Held!Pressed(Keys(h, s), kNoteStackSize, n, v)
        = <<[note |-> n, velocity |-> v]>> \o Kept(Held!Without(Keys(h, s), n))
  BY Zenon DEF Held!Pressed, Kept
<1>7. QED
  BY <1>2, <1>3, <1>4, <1>5, <1>6

-----------------------------------------------------------------------------
(* The invariant.                                                          *)

LEMMA ClearedIs == Orderly(Cleared, <<>>) /\ Keys(Cleared, <<>>) = <<>>
<1>1. EmptyCell \in Cell /\ EmptyCell.note = kFree
  BY NodeFacts DEF EmptyCell, Cell, kFree
<1>2. Cleared.pool = [i \in Node |-> EmptyCell] /\ Cleared.root = 0 /\ Cleared.sorted = <<>>
  BY DEF Cleared
<1>3. Cleared.pool \in [Node -> Cell] /\ \A i \in Node : Cleared.pool[i].note = kFree
  BY <1>1, <1>2
<1>4. Taken(Cleared) = {}
  BY <1>3 DEF Taken
<1>5. <<>> \in Seq(Node) /\ Distinct(<<>>) /\ Nodes(<<>>) = {} /\ Len(<<>>) = 0
  BY DEF Distinct, Nodes
<1>6. <<>> \in Links
  BY <1>5, LinksAre
<1>7. IsPath(Cleared, <<>>)
  BY <1>2, <1>5 DEF IsPath, After
<1>8. Fields(Cleared) /\ Linked(Cleared, <<>>) /\ Arrayed(Cleared, <<>>)
  BY <1>2, <1>3, <1>4, <1>5, <1>6, <1>7 DEF Fields, Linked, Arrayed
<1>9. Keys(Cleared, <<>>) = <<>>
  BY <1>5 DEF Keys
<1>10. QED
  BY <1>8, <1>9 DEF Orderly

LEMMA KeysHeld ==
    ASSUME NEW s, Orderly(stack, s)
    PROVE  HeldKeys = Keys(stack, s)
<1>1. Path(stack) = s
  BY OrderlyFacts
<1>2. QED
  BY <1>1 DEF HeldKeys, Keys

\* The stack starts empty, as the keys held do.
LEMMA StartsEmpty == Init => IInv /\ HeldKeys = <<>>
<1>1. SUFFICES ASSUME Init PROVE IInv /\ HeldKeys = <<>>
  OBVIOUS
<1>2. Orderly(stack, <<>>) /\ Keys(stack, <<>>) = <<>>
  BY <1>1, ClearedIs DEF Init
<1>3. <<>> \in Links
  BY <1>2, OrderlyFacts
<1>4. QED
  BY <1>2, <1>3, KeysHeld DEF IInv

\* What a step does to the list that the invariant names.
LEMMA StepIs ==
    ASSUME NEW s, Orderly(stack, s), Next
    PROVE  \E t : /\ Orderly(stack', t)
                  /\ \/ \E n \in Note, v \in Velocity :
                          Keys(stack', t) = Held!Pressed(Keys(stack, s), kNoteStackSize, n, v)
                     \/ \E n \in Note : Keys(stack', t) = Held!Without(Keys(stack, s), n)
                     \/ Keys(stack', t) = <<>>
<1>1. CASE \E n \in Note, v \in Velocity : Press(n, v)
  <2>1. PICK n \in Note, v \in Velocity : stack' = NoteOn(stack, n, v)
    BY <1>1 DEF Press
  <2>2. v \in 0 .. 255
    BY NodeFacts
  <2>3. PICK t : /\ Orderly(NoteOn(stack, n, v), t)
                 /\ Keys(NoteOn(stack, n, v), t)
                      = Held!Pressed(Keys(stack, s), kNoteStackSize, n, v)
    BY <2>2, NoteOnIs, ZenonT(30)
  <2>4. QED
    BY <2>1, <2>3
<1>2. CASE \E n \in Note : Release(n)
  <2>1. PICK n \in Note : stack' = NoteOff(stack, n)
    BY <1>2 DEF Release
  <2>2. PICK t : /\ Orderly(NoteOff(stack, n), t)
                 /\ Keys(NoteOff(stack, n), t) = Held!Without(Keys(stack, s), n)
    BY NoteOffIs
  <2>3. QED
    BY <2>1, <2>2
<1>3. CASE Clear
  BY <1>3, ClearedIs DEF Clear
<1>4. QED
  BY <1>1, <1>2, <1>3 DEF Next

LEMMA StaysOrderly == IInv /\ [Next]_stack => IInv'
<1>1. SUFFICES ASSUME IInv, [Next]_stack PROVE IInv'
  OBVIOUS
<1>2. PICK s \in Links : Orderly(stack, s)
  BY <1>1 DEF IInv
<1>3. CASE Next
  <2>1. PICK t : Orderly(stack', t)
    BY <1>2, <1>3, StepIs
  <2>2. t \in Links
    BY <2>1, OrderlyFacts
  <2>3. QED
    BY <2>1, <2>2 DEF IInv
<1>4. CASE stack' = stack
  BY <1>1, <1>4 DEF IInv
<1>5. QED
  BY <1>1, <1>3, <1>4

LEMMA Invariance == Spec => []IInv
  BY StartsEmpty, StaysOrderly, PTL DEF Spec

\* Nodes hold MIDI notes; links, root_ptr_ and size_ stay in the pool.
THEOREM TypeCorrect == Spec => []TypeOK
<1>1. ASSUME IInv PROVE TypeOK
  <2>1. PICK s \in Links : Orderly(stack, s)
    BY <1>1 DEF IInv
  <2>2. Len(s) \in 0 .. kNoteStackSize /\ Size(stack) = Len(s)
    BY <2>1, OrderlyFacts
  <2>3. stack.root \in 0 .. kNoteStackSize
    BY <2>1, LinkFacts DEF Orderly, Linked, IsPath
  <2>4. QED
    BY <2>1, <2>2, <2>3, NodeFacts DEF TypeOK, Orderly, Fields, Arrayed
<1>2. QED
  BY <1>1, Invariance, PTL

\* The list, the array and the pool name the same nodes, each once, so that
\* NoteOn always finds a free one (note_stack.cc:54).
THEOREM ViewsStayAgreed == Spec => []ViewsAgree
<1>1. ASSUME IInv PROVE ViewsAgree
  <2>1. PICK s \in Links : Orderly(stack, s)
    BY <1>1 DEF IInv
  <2>2. s \in Seq(Node) /\ Size(stack) = Len(s)
    BY <2>1, OrderlyFacts
  <2>3. Range(s) = Nodes(s) /\ Range(stack.sorted) = Nodes(stack.sorted)
    BY <2>1, <2>2, RangeIs DEF Orderly, Arrayed
  <2>4. QED
    BY <2>1, <2>2, <2>3 DEF ViewsAgree, Orderly, Linked, Arrayed
<1>2. QED
  BY <1>1, Invariance, PTL

\* sorted_ptr_ ascends strictly in pitch (note_stack.cc:64).
THEOREM StaysAscending == Spec => []Ascending
<1>1. ASSUME IInv PROVE Ascending
  BY <1>1 DEF IInv, Orderly, Arrayed, Ascending, Size
<1>2. QED
  BY <1>1, Invariance, PTL

\* The stack acts on the keys of its list as HeldNotes promises.
THEOREM ImplementsHeld == Spec => ImplementsHeldNotes
<1>1. ASSUME Init PROVE Held!Init
  BY <1>1, StartsEmpty DEF Held!Init
<1>2. ASSUME IInv, [Next]_stack PROVE [Held!Next]_HeldKeys
  <2>1. PICK s \in Links : Orderly(stack, s)
    BY <1>2 DEF IInv
  <2>2. HeldKeys = Keys(stack, s)
    BY <2>1, KeysHeld
  <2>3. CASE Next
    <3>1. PICK t : /\ Orderly(stack', t)
                   /\ \/ \E n \in Note, v \in Velocity :
                           Keys(stack', t) = Held!Pressed(HeldKeys, kNoteStackSize, n, v)
                      \/ \E n \in Note : Keys(stack', t) = Held!Without(HeldKeys, n)
                      \/ Keys(stack', t) = <<>>
      BY <2>1, <2>2, <2>3, StepIs
    <3>2. HeldKeys' = Keys(stack', t)
      <4>1. Path(stack') = t
        BY <3>1, OrderlyFacts
      <4>2. QED
        BY <4>1 DEF HeldKeys, Keys
    <3>3. QED
      BY <3>1, <3>2 DEF Held!Next, Held!Press, Held!Release, Held!Forget
  <2>4. CASE stack' = stack
    BY <2>4 DEF HeldKeys
  <2>5. QED
    BY <1>2, <2>3, <2>4
<1>3. QED
  BY <1>1, <1>2, Invariance, PTL DEF Spec, ImplementsHeldNotes, Held!Spec

=============================================================================
