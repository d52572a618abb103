----------------------------- MODULE SoundingProofs -----------------------------
(***************************************************************************)
(* The applications of System that owe note offs, for any values of their  *)
(* constants that the firmware allows: those with a list of waiting notes  *)
(* (the step sequencer, the tanpura, the delay), those with a map of notes *)
(* (the scale processor, the randomizer) and the SH sequencer.  Each has   *)
(* an inductive invariant of its own, kept by all its steps.               *)
(***************************************************************************)
EXTENDS System, WellFoundedInduction, TLAPS

-----------------------------------------------------------------------------
(* Records and remainders.                                                 *)

\* t is a record with the members of s: what EXCEPT makes of it.  That the members
\* have their types is then said for each of them.
Shaped(t, s) == DOMAIN t = DOMAIN s /\ t = [f \in DOMAIN t |-> t[f]]

\* The provers do not find an instance of these by themselves where a remainder is
\* among other terms: each use has a step of its own.
LEMMA RemainderIn ==
    ASSUME NEW n \in Int, NEW d \in Nat \ {0}
    PROVE  n % d \in 0 .. d - 1
  OBVIOUS

LEMMA RemainderIs ==
    ASSUME NEW d \in Nat \ {0}, NEW n \in 0 .. d - 1
    PROVE  n % d = n
  OBVIOUS

LEMMA RemainderUp ==
    ASSUME NEW d \in Nat \ {0}, NEW n \in 0 .. d - 1
    PROVE  (n + 1) % d = IF n + 1 = d THEN 0 ELSE n + 1
  OBVIOUS

LEMMA RemainderDown ==
    ASSUME NEW d \in Nat \ {0}, NEW n \in 0 .. d - 1
    PROVE  (n - 1) % d = IF n = 0 THEN d - 1 ELSE n - 1
  OBVIOUS

LEMMA RemainderOver ==
    ASSUME NEW d \in Nat \ {0}, NEW n \in Nat, d <= n, n < d + d
    PROVE  n % d = n - d
  OBVIOUS

LEMMA RemainderOfOne ==
    ASSUME NEW d \in Nat \ {0}
    PROVE  1 % d = IF d = 1 THEN 0 ELSE 1
<1>1. CASE d = 1
  BY <1>1
<1>2. CASE d # 1
  <2>1. 1 \in 0 .. d - 1
    BY <1>2
  <2> QED
    BY <1>2, <2>1, RemainderIs, Zenon
<1> QED
  BY <1>1, <1>2

LEMMA NatOrder ==
    \E R : IsWellFoundedOn(R, Nat) /\ \A x, y \in Nat : x < y => <<x, y>> \in R
<1>1. \A x, y \in Nat : x < y => <<x, y>> \in OpToRel(<, Nat)
  BY DEF OpToRel
<1>2. QED
  BY <1>1, NatLessThanWellFounded

\* A non-empty set of naturals has a least element.
LEMMA LeastNat ==
    ASSUME NEW S, S \subseteq Nat, S # {}
    PROVE  \E m \in S : \A n \in S : m <= n
<1>1. PICK R : IsWellFoundedOn(R, Nat) /\ \A x, y \in Nat : x < y => <<x, y>> \in R
  BY NatOrder
<1>2. IsWellFoundedOn(R, Nat)
  BY <1>1
<1>3. \A x, y \in Nat : x < y => <<x, y>> \in R
  BY <1>1
<1>4. \E x \in S : \A y \in S : ~ (<<y, x>> \in R)
  BY <1>2, WFMin, Zenon
<1>5. SUFFICES ASSUME NEW x \in S, \A y \in S : ~ (<<y, x>> \in R), NEW n \in S
               PROVE  x <= n
  BY <1>4
<1>6. x \in Nat /\ n \in Nat /\ ~ (<<n, x>> \in R)
  BY <1>5
<1>7. ~ (n < x)
  BY <1>3, <1>6
<1>8. QED
  BY <1>6, <1>7

-----------------------------------------------------------------------------
(* The note map, of any size: its entries are numbered by the set I.       *)

Indices(I) == I \subseteq Nat /\ 0 \in I

MapOf(I) == [I -> [note : Int, value : Int]]

MapHolding(I, map, note) == { i \in I : map[i].note = note }

MapLeast(S) == CHOOSE x \in S : \A y \in S : x <= y

MapFind(I, map, note) ==
    IF MapHolding(I, map, note) = {} THEN {} ELSE { MapLeast(MapHolding(I, map, note)) }

MapPutIndex(I, map, note) ==
    IF MapHolding(I, map, note) # {} THEN MapLeast(MapHolding(I, map, note))
    ELSE IF MapHolding(I, map, 255) # {} THEN MapLeast(MapHolding(I, map, 255))
    ELSE 0

MapPut(I, map, note, value) ==
    [map EXCEPT ![MapPutIndex(I, map, note)] = [note |-> note, value |-> value]]

MapDrop(map, i) == [map EXCEPT ![i].note = 255]

\* What the map gives for a note.
MapValues(I, map, note) == { map[i].value : i \in MapFind(I, map, note) }

LEMMA MapLeastIs ==
    ASSUME NEW I, Indices(I), NEW map, NEW note, MapHolding(I, map, note) # {}
    PROVE  MapLeast(MapHolding(I, map, note)) \in MapHolding(I, map, note)
<1>1. MapHolding(I, map, note) \subseteq Nat
  BY DEF MapHolding, Indices
<1> QED
  BY <1>1, LeastNat DEF MapLeast

LEMMA MapFindIs ==
    ASSUME NEW I, Indices(I), NEW map, NEW note
    PROVE  \A i \in MapFind(I, map, note) : i \in I /\ map[i].note = note
<1>1. \A i \in MapHolding(I, map, note) : i \in I /\ map[i].note = note
  BY DEF MapHolding
<1>2. \A i \in MapFind(I, map, note) : i \in MapHolding(I, map, note)
  <2>1. CASE MapHolding(I, map, note) = {}
    BY <2>1 DEF MapFind
  <2>2. CASE MapHolding(I, map, note) # {}
    <3>1. MapFind(I, map, note) = {MapLeast(MapHolding(I, map, note))}
      BY <2>2 DEF MapFind
    <3>2. MapLeast(MapHolding(I, map, note)) \in MapHolding(I, map, note)
      BY <2>2, MapLeastIs
    <3> QED
      BY <3>1, <3>2
  <2> QED
    BY <2>1, <2>2
<1> QED
  BY <1>1, <1>2

\* Entries that hold the same of a note give the same for it.
LEMMA MapSameValues ==
    ASSUME NEW I, Indices(I), NEW map, NEW other, NEW note,
           \A i \in I : map[i].note = note \/ other[i].note = note => other[i] = map[i]
    PROVE  MapValues(I, other, note) = MapValues(I, map, note)
<1>1. MapHolding(I, other, note) = MapHolding(I, map, note)
  BY DEF MapHolding
<1>2. MapFind(I, other, note) = MapFind(I, map, note)
  BY <1>1 DEF MapFind
<1>3. \A i \in MapFind(I, map, note) : other[i].value = map[i].value
  BY MapFindIs
<1> QED
  BY <1>2, <1>3 DEF MapValues

\* Put gives the note its value, and takes it from no note but the one it overwrites.
LEMMA MapPutIs ==
    ASSUME NEW I, Indices(I), NEW map \in MapOf(I), NEW note \in Int, NEW value \in Int
    PROVE  LET other == MapPut(I, map, note, value)
               taken == map[MapPutIndex(I, map, note)].note
           IN  /\ other \in MapOf(I)
               /\ MapValues(I, other, note) = {value}
               /\ \A n : n # taken => MapValues(I, map, n) \subseteq MapValues(I, other, n)
               /\ taken # note => MapValues(I, map, note) = {}
<1> DEFINE p     == MapPutIndex(I, map, note)
           other == MapPut(I, map, note, value)
           entry == [note |-> note, value |-> value]
<1>1. p \in I /\ (MapHolding(I, map, note) # {} => p = MapLeast(MapHolding(I, map, note)))
  <2>1. 0 \in I
    BY DEF Indices
  <2>2. \A n : MapHolding(I, map, n) # {} =>
                 MapLeast(MapHolding(I, map, n)) \in I
    BY MapLeastIs DEF MapHolding
  <2> QED
    BY <2>1, <2>2 DEF MapPutIndex
<1>2. other = [map EXCEPT ![p] = entry]
  BY DEF MapPut
<1> HIDE DEF p, other
<1>3. other \in MapOf(I) /\ other[p].note = note /\ other[p].value = value
      /\ \A i \in I : i # p => other[i] = map[i]
  BY <1>1, <1>2 DEF MapOf
<1>4. MapFind(I, other, note) = {p}
  <2>1. CASE MapHolding(I, map, note) = {}
    <3>1. MapHolding(I, other, note) = {p}
      BY <1>1, <1>3, <2>1 DEF MapHolding
    <3>2. MapLeast(MapHolding(I, other, note)) \in {p}
      BY <3>1, MapLeastIs
    <3> QED
      BY <3>1, <3>2 DEF MapFind
  <2>2. CASE MapHolding(I, map, note) # {}
    <3>1. p \in MapHolding(I, map, note)
      BY <1>1, <2>2, MapLeastIs
    <3>2. MapHolding(I, other, note) = MapHolding(I, map, note)
      BY <1>3, <3>1 DEF MapHolding
    <3> QED
      BY <1>1, <2>2, <3>2 DEF MapFind
  <2> QED
    BY <2>1, <2>2
<1>5. MapValues(I, other, note) = {value}
  BY <1>3, <1>4 DEF MapValues
<1>6. map[p].note # note => MapHolding(I, map, note) = {}
  <2>1. SUFFICES ASSUME MapHolding(I, map, note) # {} PROVE map[p].note = note
    OBVIOUS
  <2>2. p \in MapHolding(I, map, note)
    BY <1>1, <2>1, MapLeastIs
  <2> QED
    BY <2>2 DEF MapHolding
<1>7. map[p].note # note => MapValues(I, map, note) = {}
  BY <1>6 DEF MapValues, MapFind
<1>8. ASSUME NEW n, n # map[p].note
      PROVE  MapValues(I, map, n) \subseteq MapValues(I, other, n)
  <2>1. CASE n = note
    BY <1>7, <1>8, <2>1
  <2>2. CASE n # note
    <3>1. \A i \in I : map[i].note = n \/ other[i].note = n => other[i] = map[i]
      BY <1>3, <1>8, <2>2
    <3> QED
      BY <3>1, MapSameValues
  <2> QED
    BY <2>1, <2>2
<1> QED
  BY <1>3, <1>5, <1>7, <1>8 DEF p, other

\* Drop takes it from the note of that entry alone.
LEMMA MapDropIs ==
    ASSUME NEW I, Indices(I), NEW map \in MapOf(I), NEW i \in I
    PROVE  LET other == MapDrop(map, i)
           IN  /\ other \in MapOf(I)
               /\ \A n : n # map[i].note /\ n # 255 =>
                           MapValues(I, other, n) = MapValues(I, map, n)
<1> DEFINE other == MapDrop(map, i)
<1>1. other = [map EXCEPT ![i].note = 255]
  BY DEF MapDrop
<1> HIDE DEF other
<1>2. other \in MapOf(I) /\ other[i].note = 255
      /\ \A j \in I : j # i => other[j] = map[j]
  BY <1>1 DEF MapOf
<1>3. ASSUME NEW n, n # map[i].note, n # 255
      PROVE  MapValues(I, other, n) = MapValues(I, map, n)
  <2>1. \A j \in I : map[j].note = n \/ other[j].note = n => other[j] = map[j]
    BY <1>2, <1>3
  <2> QED
    BY <2>1, MapSameValues
<1> QED
  BY <1>2, <1>3 DEF other

-----------------------------------------------------------------------------
(* The line of waiting events, for the applications that keep one.         *)

Queue == INSTANCE TimedQueueOps

\* A line of events of a set S, and that the first to leave are the first in it.
Ticks(S) ==
    \A e \in S : /\ "wait" \in DOMAIN e /\ e.wait \in Nat
                 /\ e.wait # 0 => [e EXCEPT !.wait = @ - 1] \in S

Lined(line) == \A i, j \in 1 .. Len(line) : i <= j => line[i].wait <= line[j].wait

LEMMA QueueDue ==
    ASSUME NEW S, Ticks(S), NEW line \in Seq(S), Lined(line)
    PROVE  /\ Queue!Due(line) \in 0 .. Len(line)
           /\ \A i \in 1 .. Len(line) : /\ i <= Queue!Due(line) => line[i].wait = 0
                                        /\ i > Queue!Due(line) => line[i].wait > 0
<1> DEFINE w == [i \in 1 .. Len(line) |-> line[i].wait]
           P == { k \in 0 .. Len(line) : k = Len(line) \/ line[k + 1].wait # 0 }
           k == Queue!Due(line)
<1>1. Len(line) \in Nat /\ \A i \in 1 .. Len(line) : line[i] \in S
  OBVIOUS
<1>2. \A i \in 1 .. Len(line) : line[i].wait \in Nat /\ w[i] = line[i].wait
  BY <1>1 DEF Ticks
<1>3. \A i, j \in 1 .. Len(line) : i <= j => w[i] <= w[j]
  BY <1>2 DEF Lined
<1>4. P \subseteq Nat /\ Len(line) \in P
  BY <1>1
<1>5. k \in P /\ \A n \in P : k <= n
  <2>1. k = CHOOSE x \in P : \A y \in P : x <= y
    BY Zenon DEF Queue!Due, Queue!Min
  <2> HIDE DEF P, k
  <2> QED
    BY <1>4, <2>1, LeastNat
<1>6. k \in 0 .. Len(line) /\ (k # Len(line) => line[k + 1].wait # 0)
  BY <1>5
<1>7. \A n \in 0 .. Len(line) : n < k => line[n + 1].wait = 0
  <2>1. ASSUME NEW n \in 0 .. Len(line), n < k PROVE line[n + 1].wait = 0
    <3>1. n \notin P
      BY <1>1, <1>5, <1>6, <2>1
    <3> QED
      BY <3>1
  <2> QED
    BY <2>1
<1> HIDE DEF k, P
<1>8. ASSUME NEW i \in 1 .. Len(line), i <= k PROVE line[i].wait = 0
  <2>1. i - 1 \in 0 .. Len(line) /\ i - 1 < k /\ i - 1 + 1 = i
    BY <1>1, <1>6, <1>8
  <2> QED
    BY <1>7, <2>1
<1>9. ASSUME NEW i \in 1 .. Len(line), i > k PROVE line[i].wait > 0
  <2>1. k + 1 \in 1 .. Len(line) /\ k # Len(line) /\ k + 1 <= i
    BY <1>1, <1>6, <1>9
  <2>2. w[k + 1] # 0 /\ w[k + 1] <= w[i]
    BY <1>2, <1>3, <1>6, <2>1
  <2>3. w[i] \in Nat /\ w[k + 1] \in Nat
    BY <1>2, <2>1
  <2> HIDE DEF w
  <2>4. w[i] > 0
    BY <2>2, <2>3
  <2> QED
    BY <1>2, <2>4
<1> QED
  BY <1>6, <1>8, <1>9 DEF k

LEMMA QueueStaying ==
    ASSUME NEW S, Ticks(S), NEW line \in Seq(S), Lined(line)
    PROVE  LET left == Queue!Staying(line)
               due  == Queue!Due(line)
           IN  /\ left \in Seq(S) /\ Lined(left) /\ Len(left) = Len(line) - due
               /\ \A i \in 1 .. Len(left) : /\ i + due \in 1 .. Len(line)
                                            /\ left[i] = [line[i + due] EXCEPT !.wait = @ - 1]
                                            /\ left[i].wait = line[i + due].wait - 1
                                            /\ line[i + due].wait > 0
<1> DEFINE due    == Queue!Due(line)
           size   == Len(line) - due
           one(i) == [line[i + due] EXCEPT !.wait = @ - 1]
           left   == Queue!Staying(line)
<1>1. /\ due \in 0 .. Len(line) /\ Len(line) \in Nat
      /\ \A i \in 1 .. Len(line) : (i > due => line[i].wait > 0) /\ line[i] \in S
  BY QueueDue
<1>2. left = [i \in 1 .. size |-> one(i)]
  BY DEF Queue!Staying
<1> HIDE DEF due, left
<1>3. size \in Nat /\ \A i \in 1 .. size : i + due \in 1 .. Len(line) /\ i + due > due
  BY <1>1
<1>4. \A i \in 1 .. size : line[i + due] \in S /\ line[i + due].wait > 0
  BY <1>1, <1>3
<1>5. \A i \in 1 .. size : one(i) \in S /\ one(i).wait = line[i + due].wait - 1
  <2>1. ASSUME NEW i \in 1 .. size
        PROVE  one(i) \in S /\ one(i).wait = line[i + due].wait - 1
    <3> DEFINE e == line[i + due]
    <3>1. e \in S /\ e.wait > 0
      BY <1>4
    <3> HIDE DEF e
    <3>2. e.wait \in Nat /\ "wait" \in DOMAIN e /\ [e EXCEPT !.wait = @ - 1] \in S
      BY <3>1 DEF Ticks
    <3> QED
      BY <3>2 DEF e
  <2> QED
    BY <2>1
<1> HIDE DEF one, size
<1>6. /\ left \in Seq(S) /\ Len(left) = size
      /\ \A i \in 1 .. size : left[i] = one(i)
  BY <1>2, <1>3, <1>5
<1>7. Lined(left)
  <2>1. SUFFICES ASSUME NEW i \in 1 .. size, NEW j \in 1 .. size, i <= j
                 PROVE  one(i).wait <= one(j).wait
    BY <1>6 DEF Lined
  <2>2. i + due <= j + due /\ i + due \in 1 .. Len(line) /\ j + due \in 1 .. Len(line)
    BY <1>1, <1>3, <2>1
  <2>3. line[i + due].wait <= line[j + due].wait
    BY <2>2 DEF Lined
  <2>4. line[i + due].wait \in Nat /\ line[j + due].wait \in Nat
    BY <1>4 DEF Ticks
  <2> QED
    BY <1>5, <2>3, <2>4, SMTT(30)
<1> QED
  BY <1>3, <1>4, <1>5, <1>6, <1>7 DEF due, left, one, size

\* Where a new event goes: before it are those that wait no longer, behind it those
\* that wait longer.
LEMMA QueueInserted ==
    ASSUME NEW S, Ticks(S), NEW line \in Seq(S), Lined(line), NEW event \in S
    PROVE  LET more == Queue!Inserted(line, event)
           IN  /\ more \in Seq(S) /\ Lined(more) /\ Len(more) = Len(line) + 1
               /\ \E q \in 1 .. Len(line) + 1 :
                    /\ more[q] = event
                    /\ \A i \in 1 .. Len(line) :
                         /\ i < q => more[i] = line[i] /\ line[i].wait <= event.wait
                         /\ i >= q => more[i + 1] = line[i] /\ event.wait < line[i].wait
<1> DEFINE P    == { p \in 1 .. Len(line) + 1 : p = Len(line) + 1 \/ event.wait < line[p].wait }
           q    == Queue!Min(P)
           more == Queue!Inserted(line, event)
           size == Len(line)
<1>1. size \in Nat /\ \A i \in 1 .. size : line[i] \in S
  OBVIOUS
<1>2. event.wait \in Nat /\ \A i \in 1 .. size : line[i].wait \in Nat
  BY <1>1 DEF Ticks
<1>3. q \in P /\ \A n \in P : q <= n
  <2>1. P \subseteq Nat /\ size + 1 \in P
    BY <1>1
  <2>2. q = CHOOSE x \in P : \A y \in P : x <= y
    BY Zenon DEF Queue!Min
  <2> HIDE DEF P, q, size
  <2> QED
    BY <2>1, <2>2, LeastNat
<1>4. q \in 1 .. size + 1 /\ (q # size + 1 => event.wait < line[q].wait)
  BY <1>3
<1>5. \A i \in 1 .. size : i < q => line[i].wait <= event.wait
  <2>1. SUFFICES ASSUME NEW i \in 1 .. size, i < q PROVE line[i].wait <= event.wait
    OBVIOUS
  <2>2. i \notin P
    BY <1>1, <1>3, <1>4, <2>1
  <2>3. ~(event.wait < line[i].wait)
    BY <1>1, <2>2
  <2> QED
    BY <1>2, <2>3
<1>6. more = SubSeq(line, 1, q - 1) \o <<event>> \o SubSeq(line, q, size)
  BY Zenon DEF Queue!Inserted, Queue!InsertAt
<1> HIDE DEF P, q, more
<1>7. \A i \in 1 .. size : i >= q => event.wait < line[i].wait
  <2>1. SUFFICES ASSUME NEW i \in 1 .. size, i >= q PROVE event.wait < line[i].wait
    OBVIOUS
  <2>2. q \in 1 .. size /\ q # size + 1
    BY <1>1, <1>4, <2>1
  <2>3. line[q].wait <= line[i].wait /\ event.wait < line[q].wait
    BY <1>4, <2>1, <2>2 DEF Lined
  <2>4. line[q].wait \in Nat /\ line[i].wait \in Nat
    BY <1>2, <2>2
  <2> QED
    BY <1>2, <2>3, <2>4
<1>8. /\ more \in Seq(S) /\ Len(more) = size + 1 /\ more[q] = event
      /\ \A i \in 1 .. size : /\ i < q => more[i] = line[i]
                              /\ i >= q => more[i + 1] = line[i]
  <2> DEFINE a == SubSeq(line, 1, q - 1)
             c == SubSeq(line, q, size)
             b == a \o <<event>>
  <2>1. q - 1 \in 0 .. size
    BY <1>1, <1>4
  <2>2. a \in Seq(S) /\ Len(a) = q - 1 /\ \A i \in 1 .. q - 1 : a[i] = line[i]
    BY <1>1, <1>4, <2>1
  <2>3. /\ c \in Seq(S) /\ Len(c) = size + 1 - q
        /\ \A i \in 1 .. size + 1 - q : c[i] = line[q + i - 1]
    BY <1>1, <1>4
  <2> HIDE DEF a, c
  <2>4. /\ b \in Seq(S) /\ Len(b) = q /\ b[q] = event
        /\ \A i \in 1 .. q - 1 : b[i] = line[i]
    BY <1>1, <1>4, <2>2, SMTT(30)
  <2>5. more = b \o c
    BY <1>6 DEF a, c
  <2> HIDE DEF b
  <2>6. more \in Seq(S) /\ Len(more) = size + 1
    <3>1. more \in Seq(S) /\ Len(more) = Len(b) + Len(c)
      BY <2>3, <2>4, <2>5
    <3>2. q + (size + 1 - q) = size + 1
      BY <1>1, <1>4
    <3> HIDE DEF size
    <3>3. Len(more) = q + (size + 1 - q)
      BY <2>3, <2>4, <3>1
    <3> QED
      BY <3>1, <3>2, <3>3, Zenon
  <2>7. /\ \A i \in 1 .. q : more[i] = b[i]
        /\ \A i \in q + 1 .. size + 1 : more[i] = c[i - q]
    BY <1>1, <1>4, <2>3, <2>4, <2>5
  <2>8. \A i \in 1 .. size : i >= q =>
          i + 1 \in q + 1 .. size + 1 /\ i + 1 - q \in 1 .. size + 1 - q /\ q + (i + 1 - q) - 1 = i
    BY <1>1, <1>4
  <2>9. \A i \in 1 .. size : i >= q => more[i + 1] = line[i]
    <3>1. SUFFICES ASSUME NEW i \in 1 .. size, i >= q PROVE more[i + 1] = line[i]
      OBVIOUS
    <3>2. more[i + 1] = c[i + 1 - q]
      <4> DEFINE j == i + 1
      <4>1. j \in q + 1 .. size + 1
        BY <2>8, <3>1
      <4> HIDE DEF j
      <4>2. more[j] = c[j - q]
        BY <2>7, <4>1
      <4>3. j - q = i + 1 - q
        BY <1>1, <1>4, <3>1 DEF j
      <4> QED
        BY <4>2, <4>3 DEF j
    <3>3. c[i + 1 - q] = line[q + (i + 1 - q) - 1]
      BY <2>3, <2>8, <3>1
    <3> QED
      BY <2>8, <3>1, <3>2, <3>3
  <2>10. \A i \in 1 .. size : i < q => more[i] = line[i]
    BY <1>1, <1>4, <2>4, <2>7
  <2>11. more[q] = event
    BY <1>1, <1>4, <2>4, <2>7
  <2> QED
    BY <2>6, <2>9, <2>10, <2>11
<1>9. Lined(more)
  <2>1. SUFFICES ASSUME NEW i \in 1 .. size + 1, NEW j \in 1 .. size + 1, i <= j
                 PROVE  more[i].wait <= more[j].wait
    BY <1>8 DEF Lined
  <2>2. \A k \in 1 .. size + 1 :
          \/ k < q /\ k \in 1 .. size
          \/ k = q
          \/ k > q /\ k - 1 \in 1 .. size /\ k - 1 >= q /\ k - 1 + 1 = k
    BY <1>1, <1>4
  <2>3. \A k \in 1 .. size + 1 : k < q =>
          more[k].wait = line[k].wait /\ line[k].wait <= event.wait /\ line[k].wait \in Nat
    <3>1. SUFFICES ASSUME NEW k \in 1 .. size + 1, k < q
                   PROVE  /\ more[k].wait = line[k].wait /\ line[k].wait <= event.wait
                          /\ line[k].wait \in Nat
      OBVIOUS
    <3>2. k \in 1 .. size
      BY <1>1, <1>4, <3>1
    <3> QED
      BY <1>2, <1>5, <1>8, <3>1, <3>2
  <2>4. \A k \in 1 .. size + 1 : k > q =>
          /\ more[k].wait = line[k - 1].wait /\ event.wait < line[k - 1].wait
          /\ line[k - 1].wait \in Nat
    <3>1. SUFFICES ASSUME NEW k \in 1 .. size + 1, k > q
                   PROVE  /\ more[k].wait = line[k - 1].wait /\ event.wait < line[k - 1].wait
                          /\ line[k - 1].wait \in Nat
      OBVIOUS
    <3>2. k - 1 \in 1 .. size /\ k - 1 >= q /\ k - 1 + 1 = k
      BY <1>1, <1>4, <2>2, <3>1
    <3>3. more[k - 1 + 1] = line[k - 1]
      BY <1>8, <3>2
    <3> QED
      BY <1>2, <1>7, <3>2, <3>3
  <2>5. CASE i < q /\ j < q
    <3>1. i \in 1 .. size /\ j \in 1 .. size
      BY <1>1, <1>4, <2>5
    <3>2. line[i].wait <= line[j].wait
      BY <2>1, <3>1 DEF Lined
    <3> QED
      BY <2>3, <2>5, <3>2
  <2>6. CASE i > q /\ j > q
    <3>1. i - 1 <= j - 1 /\ i - 1 \in 1 .. size /\ j - 1 \in 1 .. size
      BY <1>1, <1>4, <2>1, <2>6
    <3>2. line[i - 1].wait <= line[j - 1].wait
      BY <3>1 DEF Lined
    <3> QED
      BY <2>4, <2>6, <3>2
  <2>7. CASE i <= q /\ j >= q
    <3>1. more[i].wait \in Nat /\ more[i].wait <= event.wait
      BY <1>2, <1>4, <1>8, <2>3, <2>7, SMTT(30)
    <3>2. more[j].wait \in Nat /\ event.wait <= more[j].wait
      BY <1>2, <1>4, <1>8, <2>4, <2>7
    <3> QED
      BY <1>2, <3>1, <3>2
  <2> QED
    BY <1>1, <1>4, <2>1, <2>5, <2>6, <2>7
<1> QED
  BY <1>4, <1>5, <1>7, <1>8, <1>9 DEF more

\* The notes that wait: a tick takes those it ends, a new event adds its own.
LineNotes(line) == { line[i].note : i \in DOMAIN line }

LEMMA QueueKeepsNotes ==
    ASSUME NEW S, Ticks(S), NEW line \in Seq(S), Lined(line),
           \A e \in S : "note" \in DOMAIN e /\ e.note # 255
    PROVE  LineNotes(line) \subseteq Queue!Ended(line, 255) \cup LineNotes(Queue!Staying(line))
<1> DEFINE due  == Queue!Due(line)
           left == Queue!Staying(line)
<1>1. SUFFICES ASSUME NEW i \in 1 .. Len(line)
               PROVE  line[i].note \in Queue!Ended(line, 255) \cup LineNotes(left)
  BY DEF LineNotes
<1>2. due \in 0 .. Len(line) /\ Len(line) \in Nat /\ line[i] \in S
  BY QueueDue
<1>3. /\ left \in Seq(S) /\ Len(left) = Len(line) - due
      /\ \A j \in 1 .. Len(left) : left[j] = [line[j + due] EXCEPT !.wait = @ - 1]
  BY QueueStaying
<1>4. CASE i <= due
  <2>1. i \in 1 .. due
    BY <1>2, <1>4
  <2> QED
    BY <1>2, <2>1 DEF Queue!Ended
<1>5. CASE i > due
  <2> HIDE DEF due, left
  <2> DEFINE j == i - due
  <2>1. j \in 1 .. Len(left) /\ j + due = i
    BY <1>2, <1>3, <1>5
  <2> HIDE DEF j
  <2>2. left[j] = [line[i] EXCEPT !.wait = @ - 1]
    BY <1>3, <2>1
  <2>3. left[j].note = line[i].note
    BY <1>2, <2>2
  <2>4. j \in DOMAIN left
    BY <1>3, <2>1
  <2> QED
    BY <2>3, <2>4 DEF LineNotes
<1> QED
  BY <1>2, <1>4, <1>5

LEMMA QueueAddsNote ==
    ASSUME NEW S, Ticks(S), NEW line \in Seq(S), Lined(line), NEW event \in S
    PROVE  LineNotes(line) \cup {event.note} \subseteq LineNotes(Queue!Inserted(line, event))
<1> DEFINE more == Queue!Inserted(line, event)
<1>1. PICK q \in 1 .. Len(line) + 1 :
             /\ more[q] = event
             /\ \A i \in 1 .. Len(line) :
                  /\ i < q => more[i] = line[i] /\ line[i].wait <= event.wait
                  /\ i >= q => more[i + 1] = line[i] /\ event.wait < line[i].wait
  BY QueueInserted, Zenon
<1>2. more \in Seq(S) /\ Len(more) = Len(line) + 1 /\ Len(line) \in Nat
  BY QueueInserted
<1> HIDE DEF more
<1>3. DOMAIN more = 1 .. Len(line) + 1
  BY <1>2
<1>4. ASSUME NEW i \in 1 .. Len(line) PROVE line[i].note \in LineNotes(more)
  <2>1. i \in DOMAIN more /\ i + 1 \in DOMAIN more
    BY <1>2, <1>3
  <2>2. i < q \/ i >= q
    BY <1>2
  <2> QED
    BY <1>1, <2>1, <2>2 DEF LineNotes
<1>5. event.note \in LineNotes(more)
  BY <1>1, <1>3 DEF LineNotes
<1> QED
  BY <1>4, <1>5 DEF LineNotes, more

\* A line of note offs.
NoteOff == [note : 0 .. 127, velocity : {0}, wait : Nat]

LinedOffs(line) == line \in Seq(NoteOff) /\ Lined(line)

LEMMA NoteOffTicks ==
    Ticks(NoteOff) /\ \A e \in NoteOff : "note" \in DOMAIN e /\ e.note # 255
  BY DEF Ticks, NoteOff

LEMMA LinedWaits ==
    ASSUME NEW line, LinedOffs(line)
    PROVE  Len(line) \in Nat /\ \A i \in 1 .. Len(line) : line[i].wait \in Nat
<1>1. Len(line) \in Nat /\ \A i \in 1 .. Len(line) : line[i] \in NoteOff
  BY DEF LinedOffs
<1>2. \A e \in NoteOff : e.wait \in Nat
  BY DEF NoteOff
<1> QED
  BY <1>1, <1>2

-----------------------------------------------------------------------------
(* The step sequencer: its transport.                                      *)

StepFields ==
    {"running", "mode", "prescaler", "note_track", "duration_track", "velocity_track",
     "num_steps", "data", "tick", "step", "root", "last", "line", "editing", "edit", "main",
     "sounding", "thru", "hung", "told", "switched", "raced", "dropped"}

\* What the instruments were told at each line of the main loop: unless clk_mode_
\* changed on the way, or an interrupt started or stopped the sequence in the middle.
StepTransport(s) ==
    /\ DOMAIN s = StepFields
    /\ s.running \in BOOLEAN /\ s.told \in BOOLEAN /\ s.switched \in BOOLEAN /\ s.raced \in BOOLEAN
    /\ ~s.raced /\ ~s.switched =>
         (s.told <=> /\ s.mode = "INTERNAL"
                     /\ IF s.main = "idle" THEN s.running ELSE s.main # "stopped")

\* t is s but for members that the transport does not depend on.
StepAside(t, s) ==
    /\ DOMAIN t = StepFields
    /\ t.running = s.running /\ t.told = s.told /\ t.switched = s.switched /\ t.mode = s.mode
    /\ t.main = s.main /\ t.raced = s.raced

LEMMA StepAsideKeeps ==
    ASSUME NEW s, NEW t, StepTransport(s), StepAside(t, s)
    PROVE  StepTransport(t)
  BY DEF StepTransport, StepAside

\* 0xfa and 0xfc.
LEMMA StepSentIs ==
    ASSUME NEW s, DOMAIN s = StepFields, NEW value \in BOOLEAN
    PROVE  LET t == StepSeq!Sent(s, value)
               u == StepSeq!Told(s, value)
           IN  /\ DOMAIN t = StepFields /\ t.running = s.running /\ t.mode = s.mode
               /\ t.main = s.main /\ t.raced = s.raced
               /\ s.mode = "INTERNAL" => t.told = value /\ t.switched = FALSE
               /\ s.mode # "INTERNAL" => t.told = s.told /\ t.switched = s.switched
               /\ DOMAIN u = StepFields /\ u.running = s.running /\ u.mode = s.mode
               /\ u.main = s.main /\ u.raced = (s.raced \/ s.main # "idle")
               /\ s.mode = "INTERNAL" => u.told = value /\ u.switched = FALSE
               /\ s.mode # "INTERNAL" => u.told = s.told /\ u.switched = s.switched
  BY DEF StepFields, StepSeq!Sent, StepSeq!Told

LEMMA StepStopTransport ==
    ASSUME NEW s, StepTransport(s)
    PROVE  StepTransport(StepSeq!Stop(s))
<1>1. CASE ~s.running
  BY <1>1 DEF StepSeq!Stop
<1>2. CASE s.running
  <2> DEFINE a == StepSeq!AllNotesOff(StepSeq!FlushQueue(s))
             u == StepSeq!Told(a, FALSE)
             t == StepSeq!Stop(s)
  <2>1. StepAside(a, s)
    BY DEF StepTransport, StepAside, StepFields, StepSeq!AllNotesOff, StepSeq!FlushQueue, StepSeq!Ends
  <2>2. t = StepSeq!Reset(StepSeq!Halted(u))
    BY <1>2 DEF StepSeq!Stop
  <2> HIDE DEF a
  <2>3. /\ DOMAIN u = StepFields /\ u.mode = a.mode /\ u.main = a.main
        /\ u.raced = (a.raced \/ a.main # "idle")
        /\ a.mode = "INTERNAL" => u.told = FALSE /\ u.switched = FALSE
        /\ a.mode # "INTERNAL" => u.told = a.told /\ u.switched = a.switched
    BY <2>1, StepSentIs DEF StepAside
  <2> HIDE DEF u
  <2>4. /\ DOMAIN t = StepFields /\ t.running = FALSE /\ t.mode = u.mode /\ t.main = u.main
        /\ t.raced = u.raced /\ t.told = u.told /\ t.switched = u.switched
    BY <2>2, <2>3 DEF StepFields, StepSeq!Reset, StepSeq!Halted
  <2> HIDE DEF t
  <2>5. StepTransport(t)
    BY <2>1, <2>3, <2>4 DEF StepTransport, StepAside
  <2> QED
    BY <2>5 DEF t
<1> QED
  BY <1>1, <1>2

LEMMA StepStartTransport ==
    ASSUME NEW s, StepTransport(s)
    PROVE  StepTransport(StepSeq!Start(s))
<1>1. CASE s.running
  BY <1>1 DEF StepSeq!Start
<1>2. CASE ~s.running
  <2> DEFINE u == StepSeq!Told(s, TRUE)
             t == StepSeq!Start(s)
  <2>1. t = [StepSeq!Armed(u) EXCEPT !.step = 0]
    BY <1>2 DEF StepSeq!Start
  <2>2. /\ DOMAIN u = StepFields /\ u.mode = s.mode /\ u.main = s.main
        /\ u.raced = (s.raced \/ s.main # "idle")
        /\ s.mode = "INTERNAL" => u.told = TRUE /\ u.switched = FALSE
        /\ s.mode # "INTERNAL" => u.told = s.told /\ u.switched = s.switched
    BY StepSentIs DEF StepTransport
  <2> HIDE DEF u
  <2>3. /\ DOMAIN t = StepFields /\ t.running = TRUE /\ t.mode = u.mode /\ t.main = u.main
        /\ t.raced = u.raced /\ t.told = u.told /\ t.switched = u.switched
    BY <2>1, <2>2 DEF StepFields, StepSeq!Armed
  <2> HIDE DEF t
  <2>4. StepTransport(t)
    BY <2>2, <2>3 DEF StepTransport
  <2> QED
    BY <2>4 DEF t
<1> QED
  BY <1>1, <1>2

LEMMA StepTickAside ==
    ASSUME NEW s, DOMAIN s = StepFields
    PROVE  StepAside(StepSeq!Tick(s), s)
<1> DEFINE sent == StepSeq!SendScheduledNotes(s)
           play == StepSeq!Play(sent)
<1>1. StepAside(sent, s)
  BY DEF StepAside, StepFields, StepSeq!SendScheduledNotes, StepSeq!Ends
<1> HIDE DEF sent
<1>2. StepAside(play, s)
  <2>1. \A u : DOMAIN u = StepFields => StepAside(StepSeq!Play(u), u)
    BY DEF StepAside, StepFields, StepSeq!Play
  <2> QED
    BY <1>1, <2>1 DEF StepAside
<1> HIDE DEF play
<1>3. StepSeq!Tick(s) = IF s.tick + 1 < s.prescaler THEN [sent EXCEPT !.tick = @ + 1]
                        ELSE [play EXCEPT !.tick = 0,
                                          !.step = IF @ + 1 >= s.num_steps THEN 0 ELSE @ + 1]
  BY DEF StepSeq!Tick, sent, play
<1> QED
  BY <1>1, <1>2, <1>3 DEF StepAside, StepFields

LEMMA StepTransportInit == StepSeq!Init => StepTransport(state)
  BY DEF StepSeq!Init, StepTransport, StepFields

LEMMA StepTransportNext == StepTransport(state) /\ StepSeq!Next => StepTransport(state')
<1> SUFFICES ASSUME StepTransport(state), StepSeq!Next PROVE StepTransport(state')
  OBVIOUS
<1>1. DOMAIN state = StepFields
  BY DEF StepTransport
<1>2. ASSUME NEW note \in StepParams.Note, NEW soft \in BOOLEAN, StepSeq!Record(note, soft)
      PROVE  StepAside(state', state)
  BY <1>1, <1>2 DEF StepAside, StepFields, StepSeq!Record
<1>3. ASSUME NEW note \in StepParams.Note, StepSeq!KeyDown(note)
      PROVE  StepTransport(state')
  <2> DEFINE s == IF state.note_track THEN state
                  ELSE [state EXCEPT !.sounding = @ \cup {note}, !.thru = @ \cup {note}]
             stops  == s.running /\ s.mode = "INTERNAL" /\ note = s.last /\ s.note_track
             starts == ~s.running /\ s.mode = "INTERNAL"
             begun == StepSeq!Start(s)
             ended == StepSeq!Stop(s)
             k == CASE stops -> ended
                    [] starts -> [begun EXCEPT !.root = note]
                    [] OTHER -> s
  <2>1. StepAside(s, state)
    BY <1>1 DEF StepAside, StepFields
  <2>2. state' = [k EXCEPT !.last = note]
    BY <1>3 DEF StepSeq!KeyDown
  <2> HIDE DEF s
  <2>3. StepTransport(s) /\ StepTransport(begun) /\ StepTransport(ended)
    BY <2>1, StepAsideKeeps, StepStartTransport, StepStopTransport
  <2> HIDE DEF begun, ended
  <2>4. StepTransport([begun EXCEPT !.root = note])
    BY <2>3 DEF StepTransport, StepFields
  <2>5. StepTransport(k)
    BY <2>3, <2>4
  <2> HIDE DEF k
  <2> QED
    BY <2>2, <2>5 DEF StepTransport, StepFields
<1>4. ASSUME NEW note \in StepParams.Note, StepSeq!KeyUp(note)
      PROVE  StepAside(state', state)
  BY <1>1, <1>4 DEF StepAside, StepFields, StepSeq!KeyUp, StepSeq!Ends
<1>5. ASSUME NEW mode \in StepSeq!Modes, StepSeq!Clock(mode)
      PROVE  StepAside(state', state)
  BY <1>1, <1>5, StepTickAside DEF StepSeq!Clock
<1>6. CASE StepSeq!StartMessage
  BY <1>6, StepStartTransport DEF StepSeq!StartMessage
<1>7. CASE StepSeq!StopMessage
  BY <1>7, StepStopTransport DEF StepSeq!StopMessage
<1>8. CASE StepSeq!ContinueMessage
  BY <1>8 DEF StepSeq!ContinueMessage, StepTransport, StepFields
<1>9. ASSUME NEW on \in BOOLEAN, StepSeq!SetRunning(on)
      PROVE  StepTransport(state')
  BY <1>9, StepStartTransport, StepStopTransport DEF StepSeq!SetRunning
<1>10. ASSUME NEW mode \in StepSeq!Modes, StepSeq!SetMode(mode)
       PROVE  StepTransport(state')
  BY <1>10 DEF StepSeq!SetMode, StepTransport, StepFields
\* The encoder.
<1>11. ASSUME \/ StepSeq!StopBegins \/ StepSeq!StopSilences \/ StepSeq!StopEnds
              \/ StepSeq!StartBegins \/ StepSeq!StartArms \/ StepSeq!StartEnds
              \/ StepSeq!WriteRunning
       PROVE  StepTransport(state')
  <2> USE DEF StepFields
  <2>1. CASE StepSeq!StopBegins
    <3>1. CASE state.running /\ StepSeq!At("idle", StepSeq!FlushQueue(state), "flushed")
      BY <1>1, <3>1 DEF StepSeq!At, StepSeq!FlushQueue, StepSeq!Ends, StepTransport
    <3>2. CASE ~state.running /\ StepSeq!At("idle", state, "stopped")
      BY <1>1, <3>2 DEF StepSeq!At, StepTransport
    <3> QED
      BY <2>1, <3>1, <3>2 DEF StepSeq!StopBegins
  <2>2. CASE StepSeq!StopSilences
    BY <1>1, <2>2 DEF StepSeq!StopSilences, StepSeq!At, StepSeq!AllNotesOff, StepTransport
  <2>3. CASE StepSeq!StopEnds
    <3> DEFINE u == StepSeq!Sent(state, FALSE)
    <3>1. /\ DOMAIN u = StepFields /\ u.mode = state.mode /\ u.raced = state.raced
          /\ u.running = state.running
          /\ state.mode = "INTERNAL" => u.told = FALSE /\ u.switched = FALSE
          /\ state.mode # "INTERNAL" => u.told = state.told /\ u.switched = state.switched
      BY <1>1, StepSentIs
    <3>2. state' = [StepSeq!Reset(StepSeq!Halted(u)) EXCEPT !.main = "stopped"]
          /\ state.main = "silenced"
      BY <2>3 DEF StepSeq!StopEnds, StepSeq!At
    <3> HIDE DEF u
    <3>3. /\ DOMAIN state' = StepFields /\ state'.running = FALSE /\ state'.mode = u.mode
          /\ state'.main = "stopped"
          /\ state'.raced = u.raced /\ state'.told = u.told /\ state'.switched = u.switched
      BY <3>1, <3>2 DEF StepSeq!Reset, StepSeq!Halted
    <3> QED
      BY <3>1, <3>2, <3>3 DEF StepTransport
  <2>4. CASE StepSeq!StartBegins
    <3> DEFINE u == StepSeq!Sent(state, TRUE)
    <3>1. /\ DOMAIN u = DOMAIN state /\ u.mode = state.mode /\ u.raced = state.raced
          /\ u.running = state.running
          /\ state.mode = "INTERNAL" => u.told = TRUE /\ u.switched = FALSE
          /\ state.mode # "INTERNAL" => u.told = state.told /\ u.switched = state.switched
      BY <1>1, StepSentIs
    <3>2. CASE state.running /\ StepSeq!At("idle", state, "kept")
      BY <1>1, <3>2 DEF StepSeq!At, StepTransport
    <3>3. CASE ~state.running /\ StepSeq!At("idle", u, "starting")
      <4> HIDE DEF u
      <4> QED
        BY <1>1, <3>1, <3>3 DEF StepSeq!At, StepTransport
    <3> QED
      BY <2>4, <3>2, <3>3 DEF StepSeq!StartBegins
  <2>5. CASE StepSeq!StartArms
    BY <1>1, <2>5 DEF StepSeq!StartArms, StepSeq!At, StepSeq!Armed, StepTransport
  <2>6. CASE StepSeq!StartEnds
    BY <1>1, <2>6 DEF StepSeq!StartEnds, StepSeq!At, StepTransport
  <2>7. CASE StepSeq!WriteRunning
    <3>1. CASE StepSeq!At("kept", [state EXCEPT !.running = TRUE], "idle")
      BY <1>1, <3>1 DEF StepSeq!At, StepTransport
    <3>2. CASE StepSeq!At("stopped", StepSeq!Halted(state), "idle")
      BY <1>1, <3>2 DEF StepSeq!At, StepSeq!Halted, StepTransport
    <3> QED
      BY <2>7, <3>1, <3>2 DEF StepSeq!WriteRunning
  <2> QED
    BY <1>11, <2>1, <2>2, <2>3, <2>4, <2>5, <2>6, <2>7
\* The rest leaves the transport alone.
<1>12. ASSUME \/ \E on \in BOOLEAN : StepSeq!SetNoteTrack(on)
              \/ \E prescaler \in StepParams.Prescalers : StepSeq!SetDivision(prescaler)
              \/ \E num_steps \in 1 .. StepParams.kNumSteps : StepSeq!SetNumSteps(num_steps)
              \/ \E edit \in StepSeq!Step : StepSeq!Edit(edit)
              \/ StepSeq!EditingEnds
       PROVE  StepAside(state', state)
  BY <1>1, <1>12 DEF StepAside, StepFields, StepSeq!SetNoteTrack, StepSeq!SetDivision,
     StepSeq!SetNumSteps, StepSeq!Edit, StepSeq!EditingEnds
<1> QED
  BY <1>2, <1>3, <1>4, <1>5, <1>6, <1>7, <1>8, <1>9, <1>10, <1>11, <1>12, StepAsideKeeps DEF StepSeq!Next

-----------------------------------------------------------------------------
(* The step sequencer: its note offs.                                      *)

StepTyped(s) ==
    /\ DOMAIN s = StepFields
    /\ s.prescaler \in Nat \ {0} /\ s.num_steps \in 1 .. StepParams.kNumSteps
    /\ s.step \in StepSeq!Step /\ s.root \in Int /\ s.last \in Int
    /\ DOMAIN s.data = StepSeq!Step /\ \A i \in StepSeq!Step : s.data[i].note \in Int
    /\ LinedOffs(s.line)
    /\ s.running \in BOOLEAN /\ s.dropped \in BOOLEAN

\* A note that sounds waits for its note off, or a key was forwarded, or it hangs.
StepOwes(s) ==
    s.sounding \subseteq s.thru \cup s.hung \cup IF s.running THEN LineNotes(s.line) ELSE {}

StepOk(s) == StepTransport(s) /\ StepTyped(s) /\ (~s.dropped => StepOwes(s))

LEMMA StepLineIs ==
    /\ \A line, event : StepSeq!Inserted(line, event) = Queue!Inserted(line, event)
    /\ \A line : /\ StepSeq!Staying(line) = Queue!Staying(line)
                 /\ StepSeq!Ended(line, 255) = Queue!Ended(line, 255)
<1>1. \A S : StepSeq!Min(S) = Queue!Min(S)
  BY Zenon DEF StepSeq!Min, Queue!Min
<1>2. \A line : StepSeq!Due(line) = Queue!Due(line)
  BY <1>1, Zenon DEF StepSeq!Due, Queue!Due
<1>3. \A line, event : StepSeq!Inserted(line, event) = Queue!Inserted(line, event)
  BY <1>1, Zenon DEF StepSeq!Inserted, Queue!Inserted, StepSeq!InsertAt, Queue!InsertAt
<1>4. \A line : StepSeq!Staying(line) = Queue!Staying(line)
  BY <1>2, Zenon DEF StepSeq!Staying, Queue!Staying
<1>5. \A line : StepSeq!Ended(line, 255) = Queue!Ended(line, 255)
  BY <1>2, Zenon DEF StepSeq!Ended, Queue!Ended
<1> QED
  BY <1>3, <1>4, <1>5

\* The note offs that are due are sent.
LEMMA StepSends ==
    ASSUME NEW s, StepTyped(s), ~s.dropped => StepOwes(s), s.running
    PROVE  LET t == StepSeq!SendScheduledNotes(s)
           IN  /\ StepTyped(t) /\ (~t.dropped => StepOwes(t)) /\ t.running
               /\ t.num_steps = s.num_steps /\ t.step = s.step
<1> DEFINE t == StepSeq!SendScheduledNotes(s)
<1>1. t = [[s EXCEPT !.sounding = @ \ Queue!Ended(s.line, 255), !.hung = @ \ Queue!Ended(s.line, 255)]
            EXCEPT !.line = Queue!Staying(@)]
  BY StepLineIs DEF StepSeq!SendScheduledNotes, StepSeq!Ends
<1> HIDE DEF t
<1>2. /\ DOMAIN t = StepFields /\ t.prescaler = s.prescaler /\ t.num_steps = s.num_steps
      /\ t.step = s.step /\ t.root = s.root /\ t.last = s.last /\ t.data = s.data
      /\ t.running = s.running /\ t.dropped = s.dropped /\ t.thru = s.thru
      /\ t.line = Queue!Staying(s.line) /\ t.sounding = s.sounding \ Queue!Ended(s.line, 255)
      /\ t.hung = s.hung \ Queue!Ended(s.line, 255)
  BY <1>1, ZenonT(30) DEF StepTyped, StepFields
<1>3. s.line \in Seq(NoteOff) /\ Lined(s.line)
  BY DEF StepTyped, LinedOffs
<1>4. LinedOffs(Queue!Staying(s.line))
  BY <1>3, NoteOffTicks, QueueStaying DEF LinedOffs
<1>5. LineNotes(s.line) \subseteq Queue!Ended(s.line, 255) \cup LineNotes(Queue!Staying(s.line))
  BY <1>3, NoteOffTicks, QueueKeepsNotes
<1>6. StepTyped(t)
  BY <1>2, <1>4 DEF StepTyped
<1>7. StepOwes(s) => StepOwes(t)
  BY <1>2, <1>5 DEF StepOwes
<1> QED
  BY <1>2, <1>6, <1>7 DEF t

LEMMA StepClipped == \A n \in Int : StepSeq!Clipped(n) \in 0 .. 127
  BY DEF StepSeq!Clipped

LEMMA StepPlays ==
    ASSUME NEW s, StepTyped(s), ~s.dropped => StepOwes(s), s.running
    PROVE  LET t == StepSeq!Play(s)
           IN  /\ StepTyped(t) /\ (~t.dropped => StepOwes(t))
               /\ t.num_steps = s.num_steps /\ t.step = s.step
<1> DEFINE cell     == s.data[s.step]
           note     == StepSeq!Clipped(cell.note + s.last - s.root)
           duration == IF s.duration_track THEN StepParams.Duration[s.step % 2] ELSE s.prescaler
           plays    == s.note_track /\ ~(s.velocity_track /\ cell.soft)
           event    == StepSeq!Event(note, 0, duration - 1)
           fits     == Len(s.line) < StepParams.MaxQueue
           line     == IF fits THEN Queue!Inserted(s.line, event) ELSE s.line
           t        == StepSeq!Play(s)
<1>1. t = IF ~plays THEN s
          ELSE [s EXCEPT !.sounding = @ \cup {note}, !.line = line,
                         !.dropped = @ \/ Len(s.line) >= StepParams.MaxQueue]
  BY StepLineIs DEF StepSeq!Play
<1>2. note \in 0 .. 127
  <2>1. cell.note \in Int /\ s.last \in Int /\ s.root \in Int
    BY DEF StepTyped
  <2> HIDE DEF cell
  <2>2. cell.note + s.last - s.root \in Int
    BY <2>1
  <2> QED
    BY <2>2, StepClipped
<1>3. duration - 1 \in Nat
  <2>1. s.step \in Nat
    BY StepAssumption DEF StepTyped, StepSeq!Step
  <2>2. s.step % 2 \in 0 .. 1
    BY <2>1
  <2>3. StepParams.Duration[s.step % 2] \in Nat \ {0}
    BY <2>2, StepAssumption
  <2>4. duration \in Nat \ {0}
    BY <2>3 DEF StepTyped
  <2> HIDE DEF duration
  <2> QED
    BY <2>4
<1> HIDE DEF note, duration, plays, line, t
<1>4. event \in NoteOff /\ event.note = note
  BY <1>2, <1>3 DEF NoteOff, StepSeq!Event
<1> HIDE DEF event
<1>5. s.line \in Seq(NoteOff) /\ Lined(s.line) /\ Len(s.line) \in Nat
  BY LinedWaits DEF StepTyped, LinedOffs
<1>6. /\ LinedOffs(line)
      /\ fits => LineNotes(s.line) \cup {note} \subseteq LineNotes(line)
  <2>1. CASE fits
    <3>1. line = Queue!Inserted(s.line, event)
      BY <2>1 DEF line
    <3>2. LinedOffs(line)
      BY <1>4, <1>5, <3>1, NoteOffTicks, QueueInserted DEF LinedOffs
    <3>3. LineNotes(s.line) \cup {event.note} \subseteq LineNotes(line)
      BY <1>4, <1>5, <3>1, NoteOffTicks, QueueAddsNote
    <3> QED
      BY <1>4, <3>2, <3>3
  <2>2. CASE ~fits
    BY <1>5, <2>2 DEF line, LinedOffs
  <2> QED
    BY <2>1, <2>2
<1>7. CASE ~plays
  BY <1>1, <1>7 DEF t
<1>8. CASE plays
  <2>1. /\ DOMAIN t = StepFields /\ t.prescaler = s.prescaler /\ t.num_steps = s.num_steps
        /\ t.step = s.step /\ t.root = s.root /\ t.last = s.last /\ t.data = s.data
        /\ t.running = s.running /\ t.thru = s.thru /\ t.hung = s.hung /\ t.line = line
        /\ t.sounding = s.sounding \cup {note}
        /\ t.dropped = (s.dropped \/ Len(s.line) >= StepParams.MaxQueue)
    BY <1>1, <1>8 DEF StepTyped, StepFields
  <2>2. t.dropped \in BOOLEAN /\ (~t.dropped => ~s.dropped /\ ~(Len(s.line) >= StepParams.MaxQueue))
    BY <2>1, Zenon DEF StepTyped
  <2>3. ~(Len(s.line) >= StepParams.MaxQueue) => fits
    BY <1>5, StepAssumption
  <2>4. StepTyped(t)
    BY <1>6, <2>1, <2>2 DEF StepTyped
  <2> HIDE DEF fits
  <2>5. ~t.dropped => StepOwes(t)
    BY <1>6, <2>1, <2>2, <2>3 DEF StepOwes
  <2> QED
    BY <2>1, <2>4, <2>5 DEF t
<1> QED
  BY <1>7, <1>8

LEMMA StepTicks ==
    ASSUME NEW s, StepTyped(s), ~s.dropped => StepOwes(s), s.running
    PROVE  LET t == StepSeq!Tick(s) IN StepTyped(t) /\ (~t.dropped => StepOwes(t))
<1> DEFINE sent == StepSeq!SendScheduledNotes(s)
           play == StepSeq!Play(sent)
           step == IF play.step + 1 >= s.num_steps THEN 0 ELSE play.step + 1
           t    == StepSeq!Tick(s)
<1>1. /\ StepTyped(sent) /\ (~sent.dropped => StepOwes(sent)) /\ sent.running
      /\ sent.num_steps = s.num_steps /\ sent.step = s.step
  BY StepSends
<1> HIDE DEF sent
<1>2. /\ StepTyped(play) /\ (~play.dropped => StepOwes(play))
      /\ play.num_steps = s.num_steps /\ play.step = s.step
  BY <1>1, StepPlays
<1>3. t = IF s.tick + 1 < s.prescaler THEN [sent EXCEPT !.tick = @ + 1]
          ELSE [play EXCEPT !.tick = 0, !.step = step]
  BY DEF StepSeq!Tick, sent, play
<1>4. step \in StepSeq!Step
  <2>1. play.step \in Nat /\ s.num_steps \in 1 .. StepParams.kNumSteps
        /\ StepParams.kNumSteps \in Nat \ {0}
    BY <1>2, StepAssumption DEF StepTyped, StepSeq!Step
  <2> QED
    BY <2>1 DEF StepSeq!Step
<1> HIDE DEF play, step, t
<1>5. \/ /\ DOMAIN t = StepFields /\ t.prescaler = sent.prescaler /\ t.num_steps = sent.num_steps
         /\ t.step = sent.step /\ t.root = sent.root /\ t.last = sent.last /\ t.data = sent.data
         /\ t.running = sent.running /\ t.dropped = sent.dropped /\ t.thru = sent.thru
         /\ t.line = sent.line /\ t.sounding = sent.sounding /\ t.hung = sent.hung
      \/ /\ DOMAIN t = StepFields /\ t.prescaler = play.prescaler /\ t.num_steps = play.num_steps
         /\ t.step = step /\ t.root = play.root /\ t.last = play.last /\ t.data = play.data
         /\ t.running = play.running /\ t.dropped = play.dropped /\ t.thru = play.thru
         /\ t.line = play.line /\ t.sounding = play.sounding /\ t.hung = play.hung
  BY <1>1, <1>2, <1>3 DEF StepTyped, StepFields
<1>6. StepTyped(t)
  BY <1>1, <1>2, <1>4, <1>5 DEF StepTyped
<1>7. ~t.dropped => StepOwes(t)
  BY <1>1, <1>2, <1>5 DEF StepOwes
<1> QED
  BY <1>6, <1>7 DEF t

\* t is s but for members that the notes do not depend on.
StepKeeps(t, s) ==
    /\ DOMAIN t = StepFields /\ t.prescaler = s.prescaler /\ t.num_steps = s.num_steps
    /\ t.step = s.step /\ t.data = s.data /\ t.line = s.line /\ t.running = s.running
    /\ t.dropped = s.dropped /\ t.sounding = s.sounding /\ t.thru = s.thru /\ t.hung = s.hung
    /\ t.root \in {s.root, 0, 60} /\ t.last \in {s.last, 0, 60}

LEMMA StepKeepsTyped == ASSUME NEW s, StepTyped(s), NEW t, StepKeeps(t, s) PROVE StepTyped(t)
<1>1. t.root \in Int /\ t.last \in Int
  BY DEF StepKeeps, StepTyped
<1> QED
  BY <1>1, Zenon DEF StepKeeps, StepTyped

LEMMA StepKeepsOwes ==
    ASSUME NEW s, ~s.dropped => StepOwes(s), NEW t, StepKeeps(t, s)
    PROVE  ~t.dropped => StepOwes(t)
  BY DEF StepKeeps, StepOwes

LEMMA StepSentKeeps ==
    ASSUME NEW s, DOMAIN s = StepFields, NEW value
    PROVE  StepKeeps(StepSeq!Sent(s, value), s) /\ StepKeeps(StepSeq!Told(s, value), s)
  BY DEF StepKeeps, StepFields, StepSeq!Sent, StepSeq!Told

\* running_ is set, or cleared: what waits is then forgotten.
LEMMA StepRuns ==
    ASSUME NEW s, StepTyped(s), ~s.dropped => StepOwes(s)
    PROVE  LET t == [s EXCEPT !.running = TRUE]
               u == StepSeq!Halted(s)
           IN  /\ StepTyped(t) /\ (~t.dropped => StepOwes(t))
               /\ StepTyped(u) /\ (~u.dropped => StepOwes(u))
<1> DEFINE t == [s EXCEPT !.running = TRUE]
           u == StepSeq!Halted(s)
<1>1. /\ DOMAIN t = StepFields /\ t.prescaler = s.prescaler /\ t.num_steps = s.num_steps
      /\ t.step = s.step /\ t.root = s.root /\ t.last = s.last /\ t.data = s.data
      /\ t.running = TRUE /\ t.dropped = s.dropped /\ t.thru = s.thru /\ t.hung = s.hung
      /\ t.line = s.line /\ t.sounding = s.sounding
  BY DEF StepTyped, StepFields
<1>2. /\ DOMAIN u = StepFields /\ u.prescaler = s.prescaler /\ u.num_steps = s.num_steps
      /\ u.step = s.step /\ u.root = s.root /\ u.last = s.last /\ u.data = s.data
      /\ u.running = FALSE /\ u.dropped = s.dropped /\ u.thru = s.thru
      /\ u.hung = (IF s.running THEN s.hung \cup (s.sounding \cap LineNotes(s.line)) ELSE s.hung)
      /\ u.line = s.line /\ u.sounding = s.sounding
  BY DEF StepTyped, StepFields, StepSeq!Halted, StepSeq!Waiting, LineNotes
<1> HIDE DEF t, u
<1>3. StepTyped(t) /\ StepTyped(u)
  <2>1. t.running \in BOOLEAN /\ u.running \in BOOLEAN
    BY <1>1, <1>2
  <2> QED
    BY <1>1, <1>2, <2>1, Zenon DEF StepTyped
<1>4. (StepOwes(s) => StepOwes(t)) /\ (StepOwes(s) => StepOwes(u))
  BY <1>1, <1>2 DEF StepOwes
<1> QED
  BY <1>1, <1>2, <1>3, <1>4 DEF t, u

LEMMA StepArms ==
    ASSUME NEW s, StepTyped(s), ~s.dropped => StepOwes(s)
    PROVE  LET t == StepSeq!Armed(s) IN StepTyped(t) /\ (~t.dropped => StepOwes(t))
<1> DEFINE r == [s EXCEPT !.running = TRUE]
           t == StepSeq!Armed(s)
<1>1. StepTyped(r) /\ (~r.dropped => StepOwes(r))
  BY StepRuns
<1>2. StepKeeps(t, r)
  BY DEF StepTyped, StepKeeps, StepFields, StepSeq!Armed
<1> QED
  BY <1>1, <1>2, StepKeepsTyped, StepKeepsOwes

\* step_ is reset.
LEMMA StepResets ==
    ASSUME NEW s, StepTyped(s), ~s.dropped => StepOwes(s)
    PROVE  LET t == [s EXCEPT !.step = 0] IN StepTyped(t) /\ (~t.dropped => StepOwes(t))
<1> DEFINE t == [s EXCEPT !.step = 0]
<1>1. /\ DOMAIN t = StepFields /\ t.prescaler = s.prescaler /\ t.num_steps = s.num_steps
      /\ t.step = 0 /\ t.root = s.root /\ t.last = s.last /\ t.data = s.data
      /\ t.running = s.running /\ t.dropped = s.dropped /\ t.thru = s.thru /\ t.hung = s.hung
      /\ t.line = s.line /\ t.sounding = s.sounding
  BY DEF StepTyped, StepFields
<1> HIDE DEF t
<1>2. 0 \in StepSeq!Step
  BY StepAssumption DEF StepSeq!Step
<1>3. StepTyped(t)
  BY <1>1, <1>2, Zenon DEF StepTyped
<1>4. StepOwes(s) => StepOwes(t)
  BY <1>1 DEF StepOwes
<1> QED
  BY <1>1, <1>3, <1>4 DEF t

LEMMA StepStarts ==
    ASSUME NEW s, StepTyped(s), ~s.dropped => StepOwes(s)
    PROVE  LET t == StepSeq!Start(s) IN StepTyped(t) /\ (~t.dropped => StepOwes(t))
<1> DEFINE u == StepSeq!Told(s, TRUE)
           a == StepSeq!Armed(u)
<1>1. StepTyped(u) /\ (~u.dropped => StepOwes(u))
  BY StepSentKeeps, StepKeepsTyped, StepKeepsOwes DEF StepTyped
<1> HIDE DEF u
<1>2. StepTyped(a) /\ (~a.dropped => StepOwes(a))
  BY <1>1, StepArms
<1> HIDE DEF a
<1>3. StepSeq!Start(s) = IF s.running THEN s ELSE [a EXCEPT !.step = 0]
  BY DEF StepSeq!Start, a, u
<1> QED
  BY <1>2, <1>3, StepResets

\* The notes that wait are ended, and the queue is empty; then all notes are.
LEMMA StepFlushes ==
    ASSUME NEW s, StepTyped(s), ~s.dropped => StepOwes(s)
    PROVE  LET t == StepSeq!FlushQueue(s)
               u == StepSeq!AllNotesOff(s)
           IN  /\ StepTyped(t) /\ (~t.dropped => StepOwes(t))
               /\ StepTyped(u) /\ StepOwes(u) /\ u.sounding = {}
<1> DEFINE t == StepSeq!FlushQueue(s)
           u == StepSeq!AllNotesOff(s)
<1>1. /\ DOMAIN t = StepFields /\ t.prescaler = s.prescaler /\ t.num_steps = s.num_steps
      /\ t.step = s.step /\ t.root = s.root /\ t.last = s.last /\ t.data = s.data
      /\ t.running = s.running /\ t.dropped = s.dropped /\ t.thru = s.thru
      /\ t.line = <<>> /\ t.sounding = s.sounding \ LineNotes(s.line)
      /\ t.hung = s.hung \ LineNotes(s.line)
  BY DEF StepTyped, StepFields, StepSeq!FlushQueue, StepSeq!Ends, StepSeq!Waiting, LineNotes
<1>2. /\ DOMAIN u = StepFields /\ u.prescaler = s.prescaler /\ u.num_steps = s.num_steps
      /\ u.step = s.step /\ u.root = s.root /\ u.last = s.last /\ u.data = s.data
      /\ u.running = s.running /\ u.dropped = s.dropped
      /\ u.line = s.line /\ u.sounding = {}
  BY DEF StepTyped, StepFields, StepSeq!AllNotesOff
<1> HIDE DEF t, u
<1>3. LinedOffs(<<>>)
  BY DEF LinedOffs, Lined
<1>4. StepTyped(t) /\ StepTyped(u)
  BY <1>1, <1>2, <1>3, Zenon DEF StepTyped
<1>5. StepOwes(s) => StepOwes(t)
  BY <1>1 DEF StepOwes
<1>6. StepOwes(u)
  BY <1>2 DEF StepOwes
<1> QED
  BY <1>1, <1>2, <1>4, <1>5, <1>6 DEF t, u

LEMMA StepStops ==
    ASSUME NEW s, StepTyped(s), ~s.dropped => StepOwes(s)
    PROVE  LET t == StepSeq!Stop(s) IN StepTyped(t) /\ (~t.dropped => StepOwes(t))
<1> DEFINE f == StepSeq!FlushQueue(s)
           a == StepSeq!AllNotesOff(f)
           u == StepSeq!Told(a, FALSE)
           h == StepSeq!Halted(u)
<1>1. StepTyped(f) /\ (~f.dropped => StepOwes(f))
  BY StepFlushes
<1> HIDE DEF f
<1>2. StepTyped(a) /\ (~a.dropped => StepOwes(a))
  BY <1>1, StepFlushes
<1> HIDE DEF a
<1>3. StepTyped(u) /\ (~u.dropped => StepOwes(u))
  BY <1>2, StepSentKeeps, StepKeepsTyped, StepKeepsOwes DEF StepTyped
<1> HIDE DEF u
<1>4. StepTyped(h) /\ (~h.dropped => StepOwes(h))
  BY <1>3, StepRuns
<1> HIDE DEF h
<1>5. StepKeeps(StepSeq!Reset(h), h)
  BY <1>4 DEF StepTyped, StepKeeps, StepFields, StepSeq!Reset
<1>6. StepSeq!Stop(s) = IF ~s.running THEN s ELSE StepSeq!Reset(h)
  BY DEF StepSeq!Stop, h, u, a, f
<1> QED
  BY <1>4, <1>5, <1>6, StepKeepsTyped, StepKeepsOwes

LEMMA StepInit == StepSeq!Init => StepOk(state)
<1> SUFFICES ASSUME StepSeq!Init PROVE StepOk(state)
  OBVIOUS
<1>1. PICK prescaler \in StepParams.Prescalers, note \in StepParams.Note :
        /\ DOMAIN state = StepFields /\ state.prescaler = prescaler
        /\ state.num_steps = StepParams.kNumSteps /\ state.step = 0
        /\ state.root = 0 /\ state.last = 0
        /\ state.data = [i \in StepSeq!Step |-> [note |-> note, soft |-> i = 1]]
        /\ state.line = <<>> /\ state.running = FALSE /\ state.dropped = FALSE
        /\ state.sounding = {}
  BY DEF StepSeq!Init, StepFields
<1>2. LinedOffs(<<>>)
  BY DEF LinedOffs, Lined
<1>3. note \in Int /\ prescaler \in Nat \ {0}
  BY StepAssumption
<1>4. /\ StepParams.kNumSteps \in 1 .. StepParams.kNumSteps /\ 0 \in StepSeq!Step
  BY StepAssumption DEF StepSeq!Step
<1>5. DOMAIN state.data = StepSeq!Step /\ \A i \in StepSeq!Step : state.data[i].note \in Int
  BY <1>1, <1>3
<1>6. LinedOffs(state.line) /\ state.running \in BOOLEAN /\ state.dropped \in BOOLEAN
  BY <1>1, <1>2, Zenon
<1>7. state.root \in Int /\ state.last \in Int
  BY <1>1
<1>8. StepTyped(state)
  BY <1>1, <1>3, <1>4, <1>5, <1>6, <1>7, Zenon DEF StepTyped
<1>9. StepOwes(state)
  BY <1>1 DEF StepOwes
<1> QED
  BY <1>8, <1>9, StepTransportInit DEF StepOk

LEMMA StepNext == StepOk(state) /\ StepSeq!Next => StepOk(state')
<1> SUFFICES ASSUME StepOk(state), StepSeq!Next PROVE StepOk(state')
  OBVIOUS
<1>1. StepTransport(state')
  BY StepTransportNext DEF StepOk
<1>2. StepTyped(state) /\ (~state.dropped => StepOwes(state)) /\ DOMAIN state = StepFields
  BY DEF StepOk, StepTyped
<1>3. SUFFICES StepTyped(state') /\ (~state'.dropped => StepOwes(state'))
  BY <1>1 DEF StepOk
<1>4. ASSUME NEW note \in StepParams.Note, NEW soft \in BOOLEAN, StepSeq!Record(note, soft)
      PROVE  StepTyped(state') /\ (~state'.dropped => StepOwes(state'))
  <2> DEFINE hears == ~state.note_track \/ ~state.running
             cell  == [note |-> note, soft |-> IF state.velocity_track THEN soft
                                               ELSE state.data[state.edit].soft]
             data  == [state.data EXCEPT ![state.edit] = cell]
  <2>1. /\ DOMAIN state' = StepFields /\ state'.prescaler = state.prescaler
        /\ state'.num_steps = state.num_steps /\ state'.step = state.step
        /\ state'.root = state.root /\ state'.last = state.last /\ state'.data = data
        /\ state'.running = state.running /\ state'.dropped = state.dropped
        /\ state'.line = state.line /\ state'.hung = state.hung
        /\ state'.thru = (IF hears THEN state.thru \cup {note} ELSE state.thru)
        /\ state'.sounding = (IF hears THEN state.sounding \cup {note} ELSE state.sounding)
    BY <1>2, <1>4 DEF StepSeq!Record, StepFields
  <2>2. note \in Int /\ cell.note = note
    BY StepAssumption
  <2>3. DOMAIN state.data = StepSeq!Step /\ \A i \in StepSeq!Step : state.data[i].note \in Int
    BY <1>2 DEF StepTyped
  <2> HIDE DEF hears, cell
  <2>4. DOMAIN data = StepSeq!Step /\ \A i \in StepSeq!Step : data[i].note \in Int
    BY <2>2, <2>3
  <2> HIDE DEF data
  <2>5. StepTyped(state')
    BY <1>2, <2>1, <2>4 DEF StepTyped
  <2> QED
    BY <1>2, <2>1, <2>5 DEF StepOwes
<1>5. ASSUME NEW note \in StepParams.Note, StepSeq!KeyDown(note)
      PROVE  StepTyped(state') /\ (~state'.dropped => StepOwes(state'))
  <2> DEFINE s == IF state.note_track THEN state
                  ELSE [state EXCEPT !.sounding = @ \cup {note}, !.thru = @ \cup {note}]
             stops  == s.running /\ s.mode = "INTERNAL" /\ note = s.last /\ s.note_track
             starts == ~s.running /\ s.mode = "INTERNAL"
             begun == StepSeq!Start(s)
             ended == StepSeq!Stop(s)
             k == CASE stops -> ended
                    [] starts -> [begun EXCEPT !.root = note]
                    [] OTHER -> s
  <2>1. state' = [k EXCEPT !.last = note]
    BY <1>5 DEF StepSeq!KeyDown
  <2>2. note \in Int
    BY StepAssumption
  <2>3. StepTyped(s) /\ (~s.dropped => StepOwes(s))
    <3>1. CASE state.note_track
      BY <1>2, <3>1
    <3>2. CASE ~state.note_track
      <4>1. /\ DOMAIN s = StepFields /\ s.prescaler = state.prescaler
            /\ s.num_steps = state.num_steps /\ s.step = state.step
            /\ s.root = state.root /\ s.last = state.last /\ s.data = state.data
            /\ s.running = state.running /\ s.dropped = state.dropped
            /\ s.line = state.line /\ s.thru = state.thru \cup {note} /\ s.hung = state.hung
            /\ s.sounding = state.sounding \cup {note}
        BY <1>2, <3>2 DEF StepFields
      <4> HIDE DEF s
      <4>2. StepTyped(s)
        BY <1>2, <4>1 DEF StepTyped
      <4> QED
        BY <1>2, <4>1, <4>2 DEF StepOwes
    <3> QED
      BY <3>1, <3>2
  <2> HIDE DEF s
  <2>4. /\ StepTyped(begun) /\ (~begun.dropped => StepOwes(begun))
        /\ StepTyped(ended) /\ (~ended.dropped => StepOwes(ended))
    BY <2>3, StepStarts, StepStops
  <2> HIDE DEF begun, ended
  <2>5. \A t : StepTyped(t) /\ (~t.dropped => StepOwes(t)) =>
          LET a == [t EXCEPT !.root = note]
              b == [t EXCEPT !.last = note]
          IN  StepTyped(a) /\ (~a.dropped => StepOwes(a)) /\ StepTyped(b) /\ (~b.dropped => StepOwes(b))
    BY <2>2 DEF StepTyped, StepOwes, StepFields
  <2>6. StepTyped(k) /\ (~k.dropped => StepOwes(k))
    BY <2>3, <2>4, <2>5
  <2> HIDE DEF k
  <2> QED
    BY <2>1, <2>5, <2>6
<1>6. ASSUME NEW note \in StepParams.Note, StepSeq!KeyUp(note)
      PROVE  StepTyped(state') /\ (~state'.dropped => StepOwes(state'))
  <2>1. /\ DOMAIN state' = StepFields /\ state'.prescaler = state.prescaler
        /\ state'.num_steps = state.num_steps /\ state'.step = state.step
        /\ state'.root = state.root /\ state'.last = state.last /\ state'.data = state.data
        /\ state'.running = state.running /\ state'.dropped = state.dropped
        /\ state'.line = state.line /\ state'.thru = state.thru \ {note}
        /\ \/ /\ state'.sounding = state.sounding \ {note} /\ state'.hung = state.hung \ {note}
           \/ /\ state'.sounding = state.sounding
              /\ state'.hung = state.hung \cup (state.thru \cap {note})
    BY <1>2, <1>6 DEF StepSeq!KeyUp, StepSeq!Ends, StepFields
  <2>2. StepTyped(state')
    BY <1>2, <2>1, Zenon DEF StepTyped
  <2>3. StepOwes(state) => StepOwes(state')
    BY <2>1 DEF StepOwes
  <2> QED
    BY <1>2, <2>1, <2>2, <2>3
<1>7. ASSUME NEW mode \in StepSeq!Modes, StepSeq!Clock(mode)
      PROVE  StepTyped(state') /\ (~state'.dropped => StepOwes(state'))
  BY <1>2, <1>7, StepTicks DEF StepSeq!Clock
<1>8. ASSUME StepSeq!StartMessage \/ StepSeq!StopMessage \/ \E on \in BOOLEAN : StepSeq!SetRunning(on)
      PROVE  StepTyped(state') /\ (~state'.dropped => StepOwes(state'))
  <2>1. state' = StepSeq!Start(state) \/ state' = StepSeq!Stop(state)
    BY <1>8 DEF StepSeq!StartMessage, StepSeq!StopMessage, StepSeq!SetRunning
  <2> QED
    BY <1>2, <2>1, StepStarts, StepStops
<1>9. CASE StepSeq!ContinueMessage
  BY <1>2, <1>9, StepRuns DEF StepSeq!ContinueMessage
\* The encoder.
<1>10. ASSUME NEW place, NEW s, NEW next, StepSeq!At(place, s, next),
              StepTyped(s), ~s.dropped => StepOwes(s)
       PROVE  StepTyped(state') /\ (~state'.dropped => StepOwes(state'))
  <2>1. StepKeeps(state', s)
    BY <1>10 DEF StepSeq!At, StepTyped, StepKeeps, StepFields
  <2> QED
    BY <1>10, <2>1, StepKeepsTyped, StepKeepsOwes
<1>11. ASSUME \/ StepSeq!StopBegins \/ StepSeq!StopSilences \/ StepSeq!StopEnds
              \/ StepSeq!StartBegins \/ StepSeq!StartArms \/ StepSeq!StartEnds
              \/ StepSeq!WriteRunning
       PROVE  StepTyped(state') /\ (~state'.dropped => StepOwes(state'))
  <2>1. CASE StepSeq!StopBegins
    BY <1>2, <1>10, <2>1, StepFlushes DEF StepSeq!StopBegins
  <2>2. CASE StepSeq!StopSilences
    BY <1>2, <1>10, <2>2, StepFlushes DEF StepSeq!StopSilences
  <2>3. CASE StepSeq!StopEnds
    <3> DEFINE u == StepSeq!Sent(state, FALSE)
               h == StepSeq!Halted(u)
               r == StepSeq!Reset(h)
    <3>1. StepTyped(u) /\ (~u.dropped => StepOwes(u))
      BY <1>2, StepSentKeeps, StepKeepsTyped, StepKeepsOwes
    <3> HIDE DEF u
    <3>2. StepTyped(h) /\ (~h.dropped => StepOwes(h))
      BY <3>1, StepRuns
    <3> HIDE DEF h
    <3>3. StepKeeps(r, h)
      BY <3>2 DEF StepTyped, StepKeeps, StepFields, StepSeq!Reset
    <3> HIDE DEF r
    <3>4. StepTyped(r) /\ (~r.dropped => StepOwes(r))
      BY <3>2, <3>3, StepKeepsTyped, StepKeepsOwes
    <3>5. StepSeq!At("silenced", r, "stopped")
      BY <2>3 DEF StepSeq!StopEnds, r, h, u
    <3> QED
      BY <1>10, <3>4, <3>5
  <2>4. CASE StepSeq!StartBegins
    <3> DEFINE u == StepSeq!Sent(state, TRUE)
    <3>1. StepTyped(u) /\ (~u.dropped => StepOwes(u))
      BY <1>2, StepSentKeeps, StepKeepsTyped, StepKeepsOwes
    <3>2. StepSeq!At("idle", state, "kept") \/ StepSeq!At("idle", u, "starting")
      BY <2>4 DEF StepSeq!StartBegins
    <3> HIDE DEF u
    <3> QED
      BY <1>2, <1>10, <3>1, <3>2
  <2>5. CASE StepSeq!StartArms
    BY <1>2, <1>10, <2>5, StepArms DEF StepSeq!StartArms
  <2>6. CASE StepSeq!StartEnds
    <3> DEFINE z == [state EXCEPT !.step = 0]
               r == [z EXCEPT !.running = TRUE]
    <3>1. StepTyped(z) /\ (~z.dropped => StepOwes(z))
      BY <1>2, StepResets
    <3>2. r = [state EXCEPT !.step = 0, !.running = TRUE]
      OBVIOUS
    <3> HIDE DEF z
    <3>3. StepTyped(r) /\ (~r.dropped => StepOwes(r))
      BY <3>1, StepRuns
    <3>4. StepSeq!At("started", r, "idle")
      BY <2>6, <3>2 DEF StepSeq!StartEnds
    <3> HIDE DEF r
    <3> QED
      BY <1>10, <3>3, <3>4
  <2>7. CASE StepSeq!WriteRunning
    BY <1>2, <1>10, <2>7, StepRuns DEF StepSeq!WriteRunning
  <2> QED
    BY <1>11, <2>1, <2>2, <2>3, <2>4, <2>5, <2>6, <2>7
\* The rest leaves alone what sounds and what waits.
<1>12. ASSUME \/ \E mode \in StepSeq!Modes : StepSeq!SetMode(mode)
              \/ \E on \in BOOLEAN : StepSeq!SetNoteTrack(on)
              \/ \E prescaler \in StepParams.Prescalers : StepSeq!SetDivision(prescaler)
              \/ \E num_steps \in 1 .. StepParams.kNumSteps : StepSeq!SetNumSteps(num_steps)
              \/ \E edit \in StepSeq!Step : StepSeq!Edit(edit)
              \/ StepSeq!EditingEnds
       PROVE  StepTyped(state') /\ (~state'.dropped => StepOwes(state'))
  <2>1. /\ DOMAIN state' = StepFields
        /\ \/ state'.prescaler = state.prescaler
           \/ state'.prescaler \in StepParams.Prescalers
        /\ \/ state'.num_steps = state.num_steps
           \/ state'.num_steps \in 1 .. StepParams.kNumSteps
        /\ state'.step = state.step /\ state'.root = state.root /\ state'.last = state.last
        /\ state'.data = state.data /\ state'.line = state.line
        /\ state'.running = state.running /\ state'.dropped = state.dropped
        /\ state'.sounding = state.sounding /\ state'.thru = state.thru
        /\ state'.hung = state.hung
    BY <1>2, <1>12, ZenonT(30) DEF StepFields, StepSeq!SetMode, StepSeq!SetNoteTrack, StepSeq!SetDivision,
       StepSeq!SetNumSteps, StepSeq!Edit, StepSeq!EditingEnds
  <2>2. StepTyped(state')
    BY <1>2, <2>1, StepAssumption DEF StepTyped
  <2> QED
    BY <1>2, <2>1, <2>2 DEF StepOwes
<1> QED
  BY <1>4, <1>5, <1>6, <1>7, <1>8, <1>9, <1>11, <1>12 DEF StepSeq!Next

LEMMA StepOwed == StepOk(state) => StepSeq!SoundingIsOwed
  BY DEF StepOk, StepOwes, LineNotes, StepSeq!SoundingIsOwed, StepSeq!Owed, StepSeq!Waiting

-----------------------------------------------------------------------------
(* The tanpura: its transport.                                             *)

DroneFields ==
    {"running", "clk_mode", "prescaler", "root", "pattern", "shift", "tick", "step", "line",
     "main", "sounding", "hung", "told", "switched", "raced"}

\* What the instruments were told at each line of the main loop: unless clk_mode_
\* changed on the way, or the remote control ran into the main loop.
DroneTransport(s) ==
    /\ DOMAIN s = DroneFields
    /\ s.running \in BOOLEAN /\ s.told \in BOOLEAN /\ s.switched \in BOOLEAN /\ s.raced \in BOOLEAN
    /\ ~s.raced /\ ~s.switched =>
         (s.told <=> /\ s.clk_mode = "INTERNAL"
                     /\ IF s.main = "idle" THEN s.running ELSE s.main # "stopped")

\* t is s but for members that the transport does not depend on.
DroneAside(t, s) ==
    /\ DOMAIN t = DroneFields
    /\ t.running = s.running /\ t.told = s.told /\ t.switched = s.switched
    /\ t.clk_mode = s.clk_mode /\ t.main = s.main /\ t.raced = s.raced

LEMMA DroneAsideKeeps ==
    ASSUME NEW s, NEW t, DroneTransport(s), DroneAside(t, s)
    PROVE  DroneTransport(t)
  BY DEF DroneTransport, DroneAside

\* 0xfa and 0xfc.
LEMMA DroneToldIs ==
    ASSUME NEW s, DOMAIN s = DroneFields, NEW value \in BOOLEAN
    PROVE  LET t == Drone!Told(s, value)
           IN  /\ DOMAIN t = DroneFields /\ t.running = s.running /\ t.clk_mode = s.clk_mode
               /\ t.main = s.main /\ t.raced = s.raced
               /\ s.clk_mode = "INTERNAL" => t.told = value /\ t.switched = FALSE
               /\ s.clk_mode # "INTERNAL" => t.told = s.told /\ t.switched = s.switched
  BY DEF DroneFields, Drone!Told

\* Stop and Start of an interrupt: those of the remote control race the main loop's.
LEMMA DroneStopTransport ==
    ASSUME NEW s, DroneTransport(s), NEW raced \in BOOLEAN, s.raced => raced,
           s.clk_mode # "INTERNAL" \/ s.main = "idle" \/ raced
    PROVE  DroneTransport([Drone!Stop(s) EXCEPT !.raced = raced])
<1> DEFINE t == [Drone!Stop(s) EXCEPT !.raced = raced]
<1>1. CASE ~s.running
  BY <1>1 DEF Drone!Stop, DroneTransport, DroneFields
<1>2. CASE s.running
  <2> DEFINE a == Drone!AllNotesOff(Drone!FlushQueue(s))
             u == Drone!Told(a, FALSE)
  <2>1. DroneAside(a, s)
    BY DEF DroneTransport, DroneAside, DroneFields, Drone!AllNotesOff, Drone!FlushQueue, Drone!Ends
  <2>2. t = [Drone!Halted(u) EXCEPT !.raced = raced]
    BY <1>2 DEF Drone!Stop
  <2> HIDE DEF a
  <2>3. /\ DOMAIN u = DroneFields /\ u.clk_mode = a.clk_mode /\ u.main = a.main
        /\ a.clk_mode = "INTERNAL" => u.told = FALSE /\ u.switched = FALSE
        /\ a.clk_mode # "INTERNAL" => u.told = a.told /\ u.switched = a.switched
    BY <2>1, DroneToldIs DEF DroneAside
  <2> HIDE DEF u
  <2>4. /\ DOMAIN t = DroneFields /\ t.running = FALSE /\ t.clk_mode = u.clk_mode /\ t.main = u.main
        /\ t.raced = raced /\ t.told = u.told /\ t.switched = u.switched
    BY <2>2, <2>3 DEF DroneFields, Drone!Halted
  <2> HIDE DEF t
  <2>5. DroneTransport(t)
    BY <2>1, <2>3, <2>4 DEF DroneTransport, DroneAside
  <2> QED
    BY <2>5 DEF t
<1> QED
  BY <1>1, <1>2

LEMMA DroneStartTransport ==
    ASSUME NEW s, DroneTransport(s), NEW raced \in BOOLEAN, s.raced => raced,
           s.clk_mode # "INTERNAL" \/ s.main = "idle" \/ raced
    PROVE  DroneTransport([Drone!Start(s) EXCEPT !.raced = raced])
<1> DEFINE t == [Drone!Start(s) EXCEPT !.raced = raced]
<1>1. CASE s.running
  BY <1>1 DEF Drone!Start, DroneTransport, DroneFields
<1>2. CASE ~s.running
  <2> DEFINE u == Drone!Told(s, TRUE)
  <2>1. t = [[Drone!Armed(u) EXCEPT !.step = 0] EXCEPT !.raced = raced]
    BY <1>2 DEF Drone!Start
  <2>2. /\ DOMAIN u = DroneFields /\ u.clk_mode = s.clk_mode /\ u.main = s.main
        /\ s.clk_mode = "INTERNAL" => u.told = TRUE /\ u.switched = FALSE
        /\ s.clk_mode # "INTERNAL" => u.told = s.told /\ u.switched = s.switched
    BY DroneToldIs DEF DroneTransport
  <2> HIDE DEF u
  <2>3. /\ DOMAIN t = DroneFields /\ t.running = TRUE /\ t.clk_mode = u.clk_mode /\ t.main = u.main
        /\ t.raced = raced /\ t.told = u.told /\ t.switched = u.switched
    BY <2>1, <2>2 DEF DroneFields, Drone!Armed
  <2> HIDE DEF t
  <2>4. DroneTransport(t)
    BY <2>2, <2>3 DEF DroneTransport
  <2> QED
    BY <2>4 DEF t
<1> QED
  BY <1>1, <1>2

\* Stop and Start leave raced as it is.
LEMMA DroneMessageTransport ==
    ASSUME NEW s, DroneTransport(s), s.clk_mode # "INTERNAL"
    PROVE  DroneTransport(Drone!Stop(s)) /\ DroneTransport(Drone!Start(s))
<1> DEFINE u == Drone!Stop(s)
           v == Drone!Start(s)
<1>1. DroneTransport([u EXCEPT !.raced = s.raced]) /\ DroneTransport([v EXCEPT !.raced = s.raced])
  BY DroneStopTransport, DroneStartTransport DEF DroneTransport
<1>2. u.raced = s.raced /\ v.raced = s.raced /\ DOMAIN u = DroneFields /\ DOMAIN v = DroneFields
  BY DEF DroneTransport, DroneFields, Drone!Stop, Drone!Start, Drone!Told, Drone!Halted, Drone!Armed,
         Drone!AllNotesOff, Drone!FlushQueue, Drone!Ends
<1> HIDE DEF u, v
<1>3. DroneTransport(u) /\ DroneTransport(v)
  BY <1>1, <1>2 DEF DroneTransport, DroneFields
<1> QED
  BY <1>3 DEF u, v

LEMMA DroneTickAside ==
    ASSUME NEW s, DOMAIN s = DroneFields
    PROVE  DroneAside(Drone!Tick(s), s)
<1> DEFINE sent  == Drone!SendScheduledNotes(s)
           pluck == Drone!Pluck(sent)
<1>1. DroneAside(sent, s)
  BY DEF DroneAside, DroneFields, Drone!SendScheduledNotes, Drone!Ends
<1> HIDE DEF sent
<1>2. DroneAside(pluck, s)
  <2>1. \A u : DOMAIN u = DroneFields => DroneAside(Drone!Pluck(u), u)
    BY DEF DroneAside, DroneFields, Drone!Pluck
  <2> QED
    BY <1>1, <2>1 DEF DroneAside
<1> HIDE DEF pluck
<1>3. Drone!Tick(s) = IF s.tick + 1 < s.prescaler THEN [s EXCEPT !.tick = @ + 1]
                      ELSE [pluck EXCEPT !.tick = 0]
  BY DEF Drone!Tick, sent, pluck
<1> QED
  BY <1>1, <1>2, <1>3 DEF DroneAside, DroneFields

LEMMA DroneTransportInit == Drone!Init => DroneTransport(state)
  BY DEF Drone!Init, DroneTransport, DroneFields

LEMMA DroneTransportNext == DroneTransport(state) /\ Drone!Next => DroneTransport(state')
<1> SUFFICES ASSUME DroneTransport(state), Drone!Next PROVE DroneTransport(state')
  OBVIOUS
<1>1. DOMAIN state = DroneFields
  BY DEF DroneTransport
<1>2. ASSUME NEW clk_mode, Drone!Clock(clk_mode) PROVE DroneAside(state', state)
  BY <1>1, <1>2, DroneTickAside DEF Drone!Clock
<1>3. CASE Drone!StartMessage
  BY <1>3, DroneMessageTransport DEF Drone!StartMessage
<1>4. CASE Drone!StopMessage
  BY <1>4, DroneMessageTransport DEF Drone!StopMessage
<1>5. CASE Drone!ContinueMessage
  BY <1>5 DEF Drone!ContinueMessage, DroneTransport, DroneFields
<1>6. ASSUME NEW on \in BOOLEAN, Drone!SetRunning(on) PROVE DroneTransport(state')
  <2> DEFINE u     == IF on THEN Drone!Start(state) ELSE Drone!Stop(state)
             raced == state.raced \/ state.main # "idle"
  <2>1. state' = [u EXCEPT !.raced = @ \/ state.main # "idle"]
    BY <1>6 DEF Drone!SetRunning
  <2>2. u.raced = state.raced
    BY <1>1 DEF DroneFields, Drone!Stop, Drone!Start, Drone!Told, Drone!Halted, Drone!Armed,
                Drone!AllNotesOff, Drone!FlushQueue, Drone!Ends
  <2>3. raced \in BOOLEAN
    BY DEF DroneTransport
  <2>4. state' = [u EXCEPT !.raced = raced]
    BY <2>1, <2>2
  <2>5. DroneTransport([u EXCEPT !.raced = raced])
    <3> HIDE DEF raced
    <3>1. (state.raced => raced) /\ (state.main = "idle" \/ raced)
      BY DEF raced
    <3> QED
      BY <2>3, <3>1, DroneStartTransport, DroneStopTransport
  <2> QED
    BY <2>4, <2>5
<1>7. ASSUME NEW clk_mode \in Drone!ClockModes, Drone!SetClockMode(clk_mode)
      PROVE  DroneTransport(state')
  BY <1>7 DEF Drone!SetClockMode, DroneTransport, DroneFields
\* The encoder.
<1>8. ASSUME \/ Drone!StopBegins \/ Drone!StopSilences \/ Drone!StopEnds
             \/ Drone!StartBegins \/ Drone!StartArms \/ Drone!StartEnds
             \/ Drone!WriteRunning
      PROVE  DroneTransport(state')
  <2> USE DEF DroneFields
  <2>1. CASE Drone!StopBegins
    <3>1. CASE state.running /\ Drone!At("idle", Drone!FlushQueue(state), "flushed")
      BY <1>1, <3>1 DEF Drone!At, Drone!FlushQueue, Drone!Ends, DroneTransport
    <3>2. CASE ~state.running /\ Drone!At("idle", state, "stopped")
      BY <1>1, <3>2 DEF Drone!At, DroneTransport
    <3> QED
      BY <2>1, <3>1, <3>2 DEF Drone!StopBegins
  <2>2. CASE Drone!StopSilences
    BY <1>1, <2>2 DEF Drone!StopSilences, Drone!At, Drone!AllNotesOff, DroneTransport
  <2>3. CASE Drone!StopEnds
    <3> DEFINE u == Drone!Told(state, FALSE)
    <3>1. /\ DOMAIN u = DroneFields /\ u.clk_mode = state.clk_mode /\ u.raced = state.raced
          /\ u.running = state.running
          /\ state.clk_mode = "INTERNAL" => u.told = FALSE /\ u.switched = FALSE
          /\ state.clk_mode # "INTERNAL" => u.told = state.told /\ u.switched = state.switched
      BY <1>1, DroneToldIs
    <3>2. state' = [Drone!Halted(u) EXCEPT !.main = "stopped"] /\ state.main = "silenced"
      BY <2>3 DEF Drone!StopEnds, Drone!At
    <3> HIDE DEF u
    <3>3. /\ DOMAIN state' = DroneFields /\ state'.running = FALSE /\ state'.clk_mode = u.clk_mode
          /\ state'.main = "stopped"
          /\ state'.raced = u.raced /\ state'.told = u.told /\ state'.switched = u.switched
      BY <3>1, <3>2 DEF Drone!Halted
    <3> QED
      BY <3>1, <3>2, <3>3 DEF DroneTransport
  <2>4. CASE Drone!StartBegins
    <3> DEFINE u == Drone!Told(state, TRUE)
    <3>1. /\ DOMAIN u = DOMAIN state /\ u.clk_mode = state.clk_mode /\ u.raced = state.raced
          /\ u.running = state.running
          /\ state.clk_mode = "INTERNAL" => u.told = TRUE /\ u.switched = FALSE
          /\ state.clk_mode # "INTERNAL" => u.told = state.told /\ u.switched = state.switched
      BY <1>1, DroneToldIs
    <3>2. CASE state.running /\ Drone!At("idle", state, "kept")
      BY <1>1, <3>2 DEF Drone!At, DroneTransport
    <3>3. CASE ~state.running /\ Drone!At("idle", u, "starting")
      <4> HIDE DEF u
      <4> QED
        BY <1>1, <3>1, <3>3 DEF Drone!At, DroneTransport
    <3> QED
      BY <2>4, <3>2, <3>3 DEF Drone!StartBegins
  <2>5. CASE Drone!StartArms
    BY <1>1, <2>5 DEF Drone!StartArms, Drone!At, Drone!Armed, DroneTransport
  <2>6. CASE Drone!StartEnds
    BY <1>1, <2>6 DEF Drone!StartEnds, Drone!At, DroneTransport
  <2>7. CASE Drone!WriteRunning
    <3>1. CASE Drone!At("kept", [state EXCEPT !.running = TRUE], "idle")
      BY <1>1, <3>1 DEF Drone!At, DroneTransport
    <3>2. CASE Drone!At("stopped", Drone!Halted(state), "idle")
      BY <1>1, <3>2 DEF Drone!At, Drone!Halted, DroneTransport
    <3> QED
      BY <2>7, <3>1, <3>2 DEF Drone!WriteRunning
  <2> QED
    BY <1>8, <2>1, <2>2, <2>3, <2>4, <2>5, <2>6, <2>7
\* The rest leaves the transport alone.
<1>9. ASSUME \/ \E root \in DroneParams.Root : Drone!SetRoot(root)
             \/ \E prescaler \in DroneParams.Prescalers : Drone!SetDivision(prescaler)
             \/ \E pattern \in DOMAIN Drone!shifts : Drone!SetPattern(pattern)
             \/ \E shift \in DroneParams.Shifts : Drone!SetShift(shift)
      PROVE  DroneAside(state', state)
  BY <1>1, <1>9 DEF DroneAside, DroneFields, Drone!SetRoot, Drone!SetDivision,
     Drone!SetPattern, Drone!SetShift
<1> QED
  BY <1>2, <1>3, <1>4, <1>5, <1>6, <1>7, <1>8, <1>9, DroneAsideKeeps DEF Drone!Next

-----------------------------------------------------------------------------
(* The tanpura: its note offs.                                             *)

\* The events behind one wait at least as long, and each step brings one: so the
\* line is short, and the event scheduler never full.
Backlog(line, n) == \A p \in 1 .. Len(line) : line[p].wait + (Len(line) - p) <= n

DroneQueue(s) ==
    /\ DOMAIN s = DroneFields
    /\ s.root \in DroneParams.Root /\ s.pattern \in 0 .. 3 /\ s.shift \in DroneParams.Shifts
    /\ s.step \in 0 .. 7
    /\ LinedOffs(s.line)
    /\ s.running \in BOOLEAN
    /\ s.sounding \subseteq s.hung \cup IF s.running THEN LineNotes(s.line) ELSE {}

DroneOk(s) == DroneTransport(s) /\ DroneQueue(s) /\ Backlog(s.line, 4)

LEMMA DroneLineIs ==
    /\ \A line, event : Drone!Inserted(line, event) = Queue!Inserted(line, event)
    /\ \A line : /\ Drone!Staying(line) = Queue!Staying(line)
                 /\ Drone!Ended(line, 255) = Queue!Ended(line, 255)
<1>1. \A S : Drone!Min(S) = Queue!Min(S)
  BY Zenon DEF Drone!Min, Queue!Min
<1>2. \A line : Drone!Due(line) = Queue!Due(line)
  BY <1>1, Zenon DEF Drone!Due, Queue!Due
<1>3. \A line, event : Drone!Inserted(line, event) = Queue!Inserted(line, event)
  BY <1>1, Zenon DEF Drone!Inserted, Queue!Inserted, Drone!InsertAt, Queue!InsertAt
<1>4. \A line : Drone!Staying(line) = Queue!Staying(line)
  BY <1>2, Zenon DEF Drone!Staying, Queue!Staying
<1>5. \A line : Drone!Ended(line, 255) = Queue!Ended(line, 255)
  BY <1>2, Zenon DEF Drone!Ended, Queue!Ended
<1> QED
  BY <1>3, <1>4, <1>5

LEMMA BacklogStays ==
    ASSUME NEW line, LinedOffs(line), Backlog(line, 4)
    PROVE  Backlog(Queue!Staying(line), 3)
<1> DEFINE left == Queue!Staying(line)
           due  == Queue!Due(line)
<1>1. /\ Len(left) = Len(line) - due /\ due \in 0 .. Len(line) /\ Len(line) \in Nat
      /\ \A i \in 1 .. Len(left) : /\ i + due \in 1 .. Len(line)
                                   /\ left[i].wait = line[i + due].wait - 1
  <2>1. Ticks(NoteOff) /\ line \in Seq(NoteOff) /\ Lined(line)
    BY NoteOffTicks DEF LinedOffs
  <2>2. due \in 0 .. Len(line)
    BY <2>1, QueueDue
  <2>3. /\ Len(left) = Len(line) - due
        /\ \A i \in 1 .. Len(left) : /\ i + due \in 1 .. Len(line)
                                     /\ left[i] = [line[i + due] EXCEPT !.wait = @ - 1]
                                     /\ left[i].wait = line[i + due].wait - 1
                                     /\ line[i + due].wait > 0
    BY <2>1, QueueStaying, Zenon
  <2> QED
    BY <2>2, <2>3, LinedWaits
<1> HIDE DEF left, due
<1>2. SUFFICES ASSUME NEW p \in 1 .. Len(left) PROVE left[p].wait + (Len(left) - p) <= 3
  BY DEF Backlog, left
<1> DEFINE w == line[p + due].wait
<1>3. p + due \in 1 .. Len(line) /\ left[p].wait = w - 1
  BY <1>1, <1>2
<1>4. w \in Nat /\ w + (Len(line) - (p + due)) <= 4
  BY <1>3, LinedWaits DEF Backlog
<1> HIDE DEF w
<1> QED
  BY <1>1, <1>2, <1>3, <1>4

LEMMA BacklogGrows ==
    ASSUME NEW line, LinedOffs(line), Backlog(line, 3), NEW event \in NoteOff, event.wait <= 4
    PROVE  Backlog(Queue!Inserted(line, event), 4)
<1> DEFINE more == Queue!Inserted(line, event)
           size == Len(line)
<1>1. PICK q \in 1 .. size + 1 :
             /\ more[q] = event
             /\ \A i \in 1 .. size : /\ i < q => more[i] = line[i]
                                     /\ i >= q => more[i + 1] = line[i] /\ event.wait < line[i].wait
  BY NoteOffTicks, QueueInserted DEF LinedOffs
<1>2. Len(more) = size + 1 /\ size \in Nat /\ line \in Seq(NoteOff)
  BY NoteOffTicks, QueueInserted DEF LinedOffs
<1>3. event.wait \in Nat /\ \A i \in 1 .. size : line[i].wait \in Nat
  BY LinedWaits DEF NoteOff
<1>4. \A i \in 1 .. size : line[i].wait + (size - i) <= 3
  BY DEF Backlog
<1> HIDE DEF more, size
<1>5. ASSUME NEW p \in 1 .. size + 1 PROVE more[p].wait + (size + 1 - p) <= 4
  <2>1. CASE p < q
    <3>1. p \in 1 .. size
      BY <1>2, <2>1
    <3>2. more[p] = line[p] /\ line[p].wait + (size - p) <= 3 /\ line[p].wait \in Nat
      BY <1>1, <1>3, <1>4, <2>1, <3>1
    <3> QED
      BY <1>2, <3>1, <3>2
  <2>2. CASE p = q
    <3>1. CASE q = size + 1
      BY <1>1, <1>2, <1>3, <2>2, <3>1
    <3>2. CASE q # size + 1
      <4>1. q \in 1 .. size /\ q >= q
        BY <1>2, <3>2
      <4>2. event.wait < line[q].wait /\ line[q].wait + (size - q) <= 3 /\ line[q].wait \in Nat
        BY <1>1, <1>3, <1>4, <4>1
      <4> QED
        BY <1>1, <1>2, <1>3, <2>2, <4>1, <4>2
    <3> QED
      BY <3>1, <3>2
  <2>3. CASE p > q
    <3> DEFINE i == p - 1
    <3>1. i \in 1 .. size /\ i >= q /\ p = i + 1
      BY <1>2, <2>3
    <3> HIDE DEF i
    <3>2. more[p] = line[i] /\ line[i].wait + (size - i) <= 3 /\ line[i].wait \in Nat
      BY <1>1, <1>3, <1>4, <3>1
    <3> QED
      BY <1>2, <3>1, <3>2
  <2> QED
    BY <1>2, <2>1, <2>2, <2>3
<1>6. \A p \in 1 .. Len(more) : more[p].wait + (Len(more) - p) <= 4
  BY <1>2, <1>5
<1> QED
  BY <1>6 DEF Backlog, more

LEMMA BacklogShort ==
    ASSUME NEW line, LinedOffs(line), Backlog(line, 3)
    PROVE  Len(line) <= 4
<1>1. Len(line) \in Nat
  BY LinedWaits
<1>2. CASE Len(line) = 0
  BY <1>2
<1>3. CASE Len(line) # 0
  <2>1. 1 \in 1 .. Len(line)
    BY <1>1, <1>3
  <2>2. line[1].wait \in Nat /\ line[1].wait + (Len(line) - 1) <= 3
    BY <2>1, LinedWaits DEF Backlog
  <2> QED
    BY <1>1, <2>2
<1> QED
  BY <1>2, <1>3

\* The note offs that are due are sent.
LEMMA DroneSends ==
    ASSUME NEW s, DroneQueue(s), Backlog(s.line, 4), s.running
    PROVE  LET t == Drone!SendScheduledNotes(s)
           IN  DroneQueue(t) /\ Backlog(t.line, 3) /\ t.running
<1> DEFINE t == Drone!SendScheduledNotes(s)
<1> DEFINE u == [s EXCEPT !.sounding = @ \ Queue!Ended(s.line, 255),
                         !.hung = @ \ Queue!Ended(s.line, 255)]
<1>0. t = [u EXCEPT !.line = Queue!Staying(s.line)] /\ u.line = s.line
  BY DroneLineIs DEF Drone!SendScheduledNotes, Drone!Ends, DroneQueue, DroneFields
<1>1. /\ DOMAIN u = DroneFields /\ u.root = s.root /\ u.pattern = s.pattern /\ u.shift = s.shift
      /\ u.step = s.step /\ u.running = s.running
      /\ u.sounding = s.sounding \ Queue!Ended(s.line, 255)
      /\ u.hung = s.hung \ Queue!Ended(s.line, 255)
  BY DEF DroneQueue, DroneFields
<1> HIDE DEF t, u
<1>2. /\ DOMAIN t = DroneFields /\ t.root = s.root /\ t.pattern = s.pattern /\ t.shift = s.shift
      /\ t.step = s.step /\ t.running = s.running /\ t.line = Queue!Staying(s.line)
      /\ t.sounding = s.sounding \ Queue!Ended(s.line, 255)
      /\ t.hung = s.hung \ Queue!Ended(s.line, 255)
  BY <1>0, <1>1 DEF DroneFields
<1>3. s.line \in Seq(NoteOff) /\ Lined(s.line)
  BY DEF DroneQueue, LinedOffs
<1>4. LinedOffs(Queue!Staying(s.line))
  BY <1>3, NoteOffTicks, QueueStaying DEF LinedOffs
<1>5. LineNotes(s.line) \subseteq Queue!Ended(s.line, 255) \cup LineNotes(Queue!Staying(s.line))
  BY <1>3, NoteOffTicks, QueueKeepsNotes
<1>6. Backlog(Queue!Staying(s.line), 3)
  BY <1>3, BacklogStays DEF LinedOffs
<1> QED
  BY <1>2, <1>4, <1>5, <1>6 DEF DroneQueue, t

\* The string of a step, and the wait of its note off.
LEMMA DronePlucked ==
    ASSUME NEW s, DroneQueue(s), NEW step \in 0 .. 7
    PROVE  \/ Drone!Plucked(s, step) = {}
           \/ \E note \in 0 .. 127 :
                /\ Drone!Plucked(s, step) = {note}
                /\ Drone!durations[step] \in 1 .. 5
<1>1. s.root \in 36 .. 84
  BY DroneAssumption DEF DroneQueue
<1>2. Drone!shifts[s.pattern] \in -7 .. 0
  BY DEF DroneQueue, Drone!shifts
<1> DEFINE by == Drone!shifts[s.pattern]
<1> HIDE DEF by
<1>3. s.root - 12 \in 0 .. 127 /\ s.root + by \in 0 .. 127 /\ s.root \in 0 .. 127
  BY <1>1, <1>2 DEF by
<1>4. CASE step = 0
  <2>1. Drone!Plucked(s, step) = {s.root - 12} /\ Drone!durations[step] = 5
    BY <1>4 DEF Drone!Plucked, Drone!durations
  <2> QED
    BY <1>3, <2>1
<1>5. CASE step = 5
  <2>1. Drone!durations[step] = 1
    BY <1>5 DEF Drone!durations
  <2>2. Drone!Plucked(s, step) = IF by # 0 THEN {s.root + by} ELSE {}
    BY <1>5 DEF Drone!Plucked, by
  <2> QED
    BY <1>3, <2>1, <2>2
<1>6. CASE step \in {6, 7}
  <2>1. Drone!Plucked(s, step) = {s.root} /\ Drone!durations[step] \in 1 .. 5
    BY <1>6 DEF Drone!Plucked, Drone!durations
  <2> QED
    BY <1>3, <2>1
<1>7. CASE step \in 1 .. 4
  <2>1. Drone!Plucked(s, step) = {}
    BY <1>7 DEF Drone!Plucked
  <2> QED
    BY <2>1
<1> QED
  BY <1>4, <1>5, <1>6, <1>7

LEMMA DronePlucks ==
    ASSUME NEW s, DroneQueue(s), Backlog(s.line, 3), s.running
    PROVE  LET t == Drone!Pluck(s) IN DroneQueue(t) /\ Backlog(t.line, 4) /\ t.running
<1> DEFINE step  == (s.step + s.shift) % 8
           notes == Drone!Plucked(s, step)
           note  == CHOOSE n \in notes : TRUE
           event == Drone!Event(note, 0, Drone!durations[step] - 1)
           line  == IF notes = {} THEN s.line ELSE Queue!Inserted(s.line, event)
           t     == Drone!Pluck(s)
<1>1. ~(Len(s.line) >= DroneParams.MaxQueue)
  <2>1. Len(s.line) <= 4 /\ Len(s.line) \in Nat
    BY BacklogShort DEF DroneQueue, LinedOffs
  <2> QED
    BY <2>1, DroneAssumption
<1>2. t = [s EXCEPT !.sounding = @ \cup notes, !.line = line, !.step = (@ + 1) % 8]
  BY <1>1, DroneLineIs DEF Drone!Pluck
<1>3. step \in 0 .. 7 /\ (s.step + 1) % 8 \in 0 .. 7
  <2>1. s.step + s.shift \in Int /\ s.step + 1 \in Int
    BY DroneAssumption DEF DroneQueue
  <2>2. \A n \in Int : n % 8 \in 0 .. 7
    BY RemainderIn
  <2> QED
    BY <2>1, <2>2
<1> HIDE DEF step
<1>4. notes = {} \/ (notes = {note} /\ event \in NoteOff /\ event.wait <= 4)
  <2>1. CASE notes # {}
    <3>1. PICK n \in 0 .. 127 : notes = {n} /\ Drone!durations[step] \in 1 .. 5
      BY <1>3, <2>1, DronePlucked
    <3>2. note = n
      BY <3>1
    <3> DEFINE d == Drone!durations[step]
    <3>3. d - 1 \in 0 .. 4
      BY <3>1
    <3> HIDE DEF d, note
    <3> QED
      BY <3>1, <3>2, <3>3 DEF Drone!Event, NoteOff, d
  <2> QED
    BY <2>1
<1> HIDE DEF notes, note, event, line, t
<1>5. /\ DOMAIN t = DroneFields /\ t.root = s.root /\ t.pattern = s.pattern /\ t.shift = s.shift
      /\ t.step = (s.step + 1) % 8 /\ t.running = s.running /\ t.line = line
      /\ t.sounding = s.sounding \cup notes /\ t.hung = s.hung
  BY <1>2 DEF DroneQueue, DroneFields
<1>6. s.line \in Seq(NoteOff) /\ Lined(s.line)
  BY DEF DroneQueue, LinedOffs
<1>7. LinedOffs(line) /\ Backlog(line, 4) /\ LineNotes(s.line) \cup notes \subseteq LineNotes(line)
  <2>1. CASE notes = {}
    <3>1. Backlog(s.line, 4)
      <4> DEFINE behind == s.line
      <4>1. Len(behind) \in Nat /\ \A p \in 1 .. Len(behind) : behind[p].wait \in Nat
        BY <1>6, LinedWaits DEF LinedOffs
      <4>2. \A p \in 1 .. Len(behind) : behind[p].wait + (Len(behind) - p) <= 3
        BY DEF Backlog
      <4> HIDE DEF behind
      <4>3. \A p \in 1 .. Len(behind) : behind[p].wait + (Len(behind) - p) <= 4
        BY <4>1, <4>2
      <4> QED
        BY <4>3 DEF Backlog, behind
    <3> QED
      BY <1>6, <2>1, <3>1 DEF line, LinedOffs
  <2>2. CASE notes # {}
    <3>1. line = Queue!Inserted(s.line, event) /\ event \in NoteOff /\ event.wait <= 4
          /\ notes = {note}
      BY <1>4, <2>2 DEF line
    <3>2. event.note = note
      BY DEF event, Drone!Event
    <3>3. LinedOffs(line)
      BY <1>6, <3>1, NoteOffTicks, QueueInserted DEF LinedOffs
    <3>4. LineNotes(s.line) \cup {event.note} \subseteq LineNotes(line)
      BY <1>6, <3>1, NoteOffTicks, QueueAddsNote
    <3>5. Backlog(line, 4)
      BY <1>6, <3>1, BacklogGrows DEF LinedOffs
    <3> QED
      BY <3>1, <3>2, <3>3, <3>4, <3>5
  <2> QED
    BY <2>1, <2>2
<1> QED
  BY <1>3, <1>5, <1>7 DEF DroneQueue, t

LEMMA DroneInit == Drone!Init => DroneOk(state)
<1> SUFFICES ASSUME Drone!Init PROVE DroneOk(state)
  OBVIOUS
<1>1. /\ DOMAIN state = DroneFields /\ state.root \in DroneParams.Root /\ state.pattern = 0
      /\ state.shift \in DroneParams.Shifts /\ state.step = 0 /\ state.line = <<>>
      /\ state.running = FALSE /\ state.sounding = {}
  BY DEF Drone!Init, DroneFields
<1>2. LinedOffs(<<>>) /\ Backlog(<<>>, 4)
  BY DEF LinedOffs, Lined, Backlog
<1>3. DroneQueue(state)
  <2>1. state.running \in BOOLEAN /\ ~state.running
    BY <1>1, Zenon
  <2>2. state.pattern \in 0 .. 3 /\ state.step \in 0 .. 7
    BY <1>1
  <2>3. LinedOffs(state.line)
    BY <1>1, <1>2, Zenon
  <2> QED
    BY <1>1, <2>1, <2>2, <2>3, Zenon DEF DroneQueue
<1> QED
  BY <1>1, <1>2, <1>3, DroneTransportInit DEF DroneOk

DroneHolds(s) == DroneQueue(s) /\ Backlog(s.line, 4)

\* t is s but for what neither the queue nor what sounds depends on.
DroneKeeps(t, s) ==
    /\ DOMAIN t = DroneFields
    /\ t.root \in DroneParams.Root /\ t.pattern \in 0 .. 3 /\ t.shift \in DroneParams.Shifts
    /\ t.step \in 0 .. 7 /\ t.line = s.line /\ t.sounding = s.sounding /\ t.hung = s.hung
    /\ t.running = s.running

LEMMA DroneKeepsHolds ==
    ASSUME NEW s, DroneHolds(s), NEW t, DroneKeeps(t, s)
    PROVE  DroneHolds(t)
<1>1. DroneQueue(t)
  BY Zenon DEF DroneHolds, DroneQueue, DroneKeeps
<1> QED
  BY <1>1 DEF DroneHolds, DroneKeeps

\* What is told and where the main loop is; the tick and the step.
LEMMA DroneTellsKeeps ==
    ASSUME NEW s, DroneQueue(s), NEW value
    PROVE  /\ DroneKeeps(Drone!Told(s, value), s)
           /\ DroneKeeps([s EXCEPT !.raced = value], s)
           /\ DroneKeeps([s EXCEPT !.main = value], s)
           /\ DroneKeeps([s EXCEPT !.tick = value], s)
           /\ DroneKeeps([s EXCEPT !.step = 0], s)
<1> USE DEF DroneKeeps, DroneQueue, DroneFields
<1>1. DroneKeeps(Drone!Told(s, value), s)
  BY DEF Drone!Told
<1>2. DroneKeeps([s EXCEPT !.raced = value], s) /\ DroneKeeps([s EXCEPT !.main = value], s)
  OBVIOUS
<1>3. DroneKeeps([s EXCEPT !.tick = value], s) /\ DroneKeeps([s EXCEPT !.step = 0], s)
  OBVIOUS
<1> QED
  BY <1>1, <1>2, <1>3

\* running_ is set, or cleared: what waits is then forgotten.
LEMMA DroneRuns ==
    ASSUME NEW s, DroneHolds(s)
    PROVE  DroneHolds([s EXCEPT !.running = TRUE]) /\ DroneHolds(Drone!Halted(s))
<1> DEFINE t == [s EXCEPT !.running = TRUE]
           u == Drone!Halted(s)
<1>1. /\ DOMAIN t = DroneFields /\ t.root = s.root /\ t.pattern = s.pattern /\ t.shift = s.shift
      /\ t.step = s.step /\ t.line = s.line /\ t.sounding = s.sounding /\ t.hung = s.hung
      /\ t.running = TRUE
  BY DEF DroneHolds, DroneQueue, DroneFields
<1>2. /\ DOMAIN u = DroneFields /\ u.root = s.root /\ u.pattern = s.pattern /\ u.shift = s.shift
      /\ u.step = s.step /\ u.line = s.line /\ u.sounding = s.sounding /\ u.running = FALSE
      /\ u.hung = IF s.running THEN s.hung \cup (s.sounding \cap LineNotes(s.line)) ELSE s.hung
  BY DEF DroneHolds, DroneQueue, DroneFields, Drone!Halted, Drone!Waiting, LineNotes
<1> HIDE DEF t, u
<1>3. DroneQueue(t)
  <2>1. t.running \in BOOLEAN /\ t.sounding \subseteq t.hung \cup LineNotes(t.line)
    BY <1>1 DEF DroneHolds, DroneQueue
  <2> QED
    BY <1>1, <2>1, Zenon DEF DroneHolds, DroneQueue
<1>4. DroneQueue(u)
  <2>1. u.running \in BOOLEAN /\ u.sounding \subseteq u.hung
    BY <1>2 DEF DroneHolds, DroneQueue
  <2> QED
    BY <1>2, <2>1, Zenon DEF DroneHolds, DroneQueue
<1> QED
  BY <1>1, <1>2, <1>3, <1>4 DEF DroneHolds, t, u

\* The notes that wait are ended, and the queue is empty; then all notes are.
LEMMA DroneFlushes ==
    ASSUME NEW s, DroneHolds(s)
    PROVE  DroneHolds(Drone!FlushQueue(s)) /\ DroneHolds(Drone!AllNotesOff(s))
<1> DEFINE t == Drone!FlushQueue(s)
           u == Drone!AllNotesOff(s)
<1>1. /\ DOMAIN t = DroneFields /\ t.root = s.root /\ t.pattern = s.pattern /\ t.shift = s.shift
      /\ t.step = s.step /\ t.line = <<>> /\ t.sounding = s.sounding \ LineNotes(s.line)
      /\ t.hung = s.hung \ LineNotes(s.line) /\ t.running = s.running
  BY DEF DroneHolds, DroneQueue, DroneFields, Drone!FlushQueue, Drone!Ends, Drone!Waiting, LineNotes
<1>2. /\ DOMAIN u = DroneFields /\ u.root = s.root /\ u.pattern = s.pattern /\ u.shift = s.shift
      /\ u.step = s.step /\ u.line = s.line /\ u.sounding = {} /\ u.running = s.running
  BY DEF DroneHolds, DroneQueue, DroneFields, Drone!AllNotesOff
<1> HIDE DEF t, u
<1>3. LinedOffs(<<>>) /\ Backlog(<<>>, 4)
  BY DEF LinedOffs, Lined, Backlog
<1>4. DroneQueue(t)
  <2>1. t.sounding \subseteq t.hung
    BY <1>1 DEF DroneHolds, DroneQueue
  <2> QED
    BY <1>1, <1>3, <2>1, Zenon DEF DroneHolds, DroneQueue
<1>5. DroneQueue(u)
  BY <1>2, Zenon DEF DroneHolds, DroneQueue
<1> QED
  BY <1>1, <1>2, <1>3, <1>4, <1>5 DEF DroneHolds, t, u

LEMMA DroneArms ==
    ASSUME NEW s, DroneHolds(s)
    PROVE  DroneHolds(Drone!Armed(s))
<1> DEFINE r == [s EXCEPT !.running = TRUE]
<1>1. DroneHolds(r)
  BY DroneRuns
<1>2. Drone!Armed(s) = [r EXCEPT !.tick = s.prescaler - 1]
  BY DEF Drone!Armed
<1> HIDE DEF r
<1> QED
  BY <1>1, <1>2, DroneTellsKeeps, DroneKeepsHolds DEF DroneHolds

LEMMA DroneStarts ==
    ASSUME NEW s, DroneHolds(s)
    PROVE  DroneHolds(Drone!Start(s))
<1> DEFINE u == Drone!Told(s, TRUE)
           a == Drone!Armed(u)
<1>1. DroneHolds(u)
  BY DroneTellsKeeps, DroneKeepsHolds DEF DroneHolds
<1> HIDE DEF u
<1>2. DroneHolds(a)
  BY <1>1, DroneArms
<1> HIDE DEF a
<1>3. Drone!Start(s) = IF s.running THEN s ELSE [a EXCEPT !.step = 0]
  BY DEF Drone!Start, a, u
<1> QED
  BY <1>2, <1>3, DroneTellsKeeps, DroneKeepsHolds DEF DroneHolds

LEMMA DroneStops ==
    ASSUME NEW s, DroneHolds(s)
    PROVE  DroneHolds(Drone!Stop(s))
<1> DEFINE f == Drone!FlushQueue(s)
           a == Drone!AllNotesOff(f)
           u == Drone!Told(a, FALSE)
<1>1. DroneHolds(f)
  BY DroneFlushes
<1> HIDE DEF f
<1>2. DroneHolds(a)
  BY <1>1, DroneFlushes
<1> HIDE DEF a
<1>3. DroneHolds(u)
  BY <1>2, DroneTellsKeeps, DroneKeepsHolds DEF DroneHolds
<1> HIDE DEF u
<1>4. Drone!Stop(s) = IF ~s.running THEN s ELSE Drone!Halted(u)
  BY DEF Drone!Stop, u, a, f
<1> QED
  BY <1>3, <1>4, DroneRuns

LEMMA DroneTicks ==
    ASSUME NEW s, DroneHolds(s), s.running
    PROVE  DroneHolds(Drone!Tick(s))
<1> DEFINE sent  == Drone!SendScheduledNotes(s)
           pluck == Drone!Pluck(sent)
<1>1. DroneQueue(sent) /\ Backlog(sent.line, 3) /\ sent.running
  BY DroneSends DEF DroneHolds
<1> HIDE DEF sent
<1>2. DroneHolds(pluck)
  BY <1>1, DronePlucks DEF DroneHolds
<1> HIDE DEF pluck
<1>3. Drone!Tick(s) = IF s.tick + 1 < s.prescaler THEN [s EXCEPT !.tick = @ + 1]
                      ELSE [pluck EXCEPT !.tick = 0]
  BY DEF Drone!Tick, sent, pluck
<1> QED
  BY <1>2, <1>3, DroneTellsKeeps, DroneKeepsHolds DEF DroneHolds

LEMMA DroneNext == DroneOk(state) /\ Drone!Next => DroneOk(state')
<1> SUFFICES ASSUME DroneOk(state), Drone!Next PROVE DroneOk(state')
  OBVIOUS
<1>1. DroneTransport(state')
  BY DroneTransportNext DEF DroneOk
<1>2. DroneHolds(state) /\ DroneQueue(state)
  BY DEF DroneOk, DroneHolds
<1>3. SUFFICES DroneHolds(state')
  BY <1>1 DEF DroneOk, DroneHolds
<1>4. ASSUME NEW clk_mode, Drone!Clock(clk_mode) PROVE DroneHolds(state')
  BY <1>2, <1>4, DroneTicks DEF Drone!Clock
<1>5. CASE Drone!StartMessage \/ Drone!StopMessage
  BY <1>2, <1>5, DroneStarts, DroneStops DEF Drone!StartMessage, Drone!StopMessage
<1>6. CASE Drone!ContinueMessage
  BY <1>2, <1>6, DroneRuns DEF Drone!ContinueMessage
<1>7. ASSUME NEW on \in BOOLEAN, Drone!SetRunning(on) PROVE DroneHolds(state')
  <2> DEFINE s == IF on THEN Drone!Start(state) ELSE Drone!Stop(state)
  <2>1. DroneHolds(s)
    BY <1>2, DroneStarts, DroneStops
  <2>2. PICK raced : state' = [s EXCEPT !.raced = raced]
    BY <1>7 DEF Drone!SetRunning
  <2> HIDE DEF s
  <2> QED
    BY <2>1, <2>2, DroneTellsKeeps, DroneKeepsHolds DEF DroneHolds
\* The encoder.
<1>8. ASSUME NEW place, NEW s, NEW next, Drone!At(place, s, next), DroneHolds(s)
      PROVE  DroneHolds(state')
  BY <1>8, DroneTellsKeeps, DroneKeepsHolds DEF Drone!At, DroneHolds
<1>9. CASE Drone!StopBegins \/ Drone!StopSilences
  BY <1>2, <1>8, <1>9, DroneFlushes DEF Drone!StopBegins, Drone!StopSilences
<1>10. CASE Drone!StopEnds
  <2> DEFINE u == Drone!Told(state, FALSE)
  <2>1. DroneHolds(u)
    BY <1>2, DroneTellsKeeps, DroneKeepsHolds
  <2>2. Drone!At("silenced", Drone!Halted(u), "stopped")
    BY <1>10 DEF Drone!StopEnds
  <2> HIDE DEF u
  <2> QED
    BY <1>8, <2>1, <2>2, DroneRuns
<1>11. CASE Drone!StartBegins
  <2> DEFINE u == Drone!Told(state, TRUE)
  <2>1. DroneHolds(u)
    BY <1>2, DroneTellsKeeps, DroneKeepsHolds
  <2>2. Drone!At("idle", state, "kept") \/ Drone!At("idle", u, "starting")
    BY <1>11 DEF Drone!StartBegins
  <2> HIDE DEF u
  <2> QED
    BY <1>2, <1>8, <2>1, <2>2
<1>12. CASE Drone!StartArms
  BY <1>2, <1>8, <1>12, DroneArms DEF Drone!StartArms
<1>13. CASE Drone!StartEnds
  <2> DEFINE z == [state EXCEPT !.step = 0]
             r == [z EXCEPT !.running = TRUE]
  <2>1. DroneHolds(z)
    BY <1>2, DroneTellsKeeps, DroneKeepsHolds
  <2>2. r = [state EXCEPT !.step = 0, !.running = TRUE]
    OBVIOUS
  <2> HIDE DEF z
  <2>3. DroneHolds(r)
    BY <2>1, DroneRuns
  <2>4. Drone!At("started", r, "idle")
    BY <1>13, <2>2 DEF Drone!StartEnds
  <2> HIDE DEF r
  <2> QED
    BY <1>8, <2>3, <2>4
<1>14. CASE Drone!WriteRunning
  BY <1>2, <1>8, <1>14, DroneRuns DEF Drone!WriteRunning
\* The rest leaves the queue and what sounds alone.
<1>15. ASSUME \/ \E root \in DroneParams.Root : Drone!SetRoot(root)
              \/ \E prescaler \in DroneParams.Prescalers : Drone!SetDivision(prescaler)
              \/ \E pattern \in DOMAIN Drone!shifts : Drone!SetPattern(pattern)
              \/ \E shift \in DroneParams.Shifts : Drone!SetShift(shift)
              \/ \E clk_mode \in Drone!ClockModes : Drone!SetClockMode(clk_mode)
       PROVE  DroneHolds(state')
  <2>1. DOMAIN Drone!shifts = 0 .. 3
    BY DEF Drone!shifts
  <2>2. DroneKeeps(state', state)
    BY <1>2, <1>15, <2>1 DEF DroneKeeps, DroneQueue, DroneFields, Drone!SetRoot, Drone!SetDivision,
       Drone!SetPattern, Drone!SetShift, Drone!SetClockMode
  <2> QED
    BY <1>2, <2>2, DroneKeepsHolds
<1> QED
  BY <1>4, <1>5, <1>6, <1>7, <1>9, <1>10, <1>11, <1>12, <1>13, <1>14, <1>15 DEF Drone!Next

LEMMA DroneOwed == DroneOk(state) => Drone!SoundingIsOwed
  BY DEF DroneOk, DroneQueue, LineNotes, Drone!SoundingIsOwed, Drone!Owed, Drone!Waiting

-----------------------------------------------------------------------------
(* The delay: the notes that a chain of echoes goes through.               *)

\* The kth echo of x is y.
Leads(by, x, k, y) ==
    \E f \in [0 .. k -> Int] :
      f[0] = x /\ f[k] = y /\ \A i \in 1 .. k : f[i] = Echo!Transposed(f[i - 1], by)

LEMMA TransposedInt ==
    ASSUME NEW note \in Int, NEW by \in Int
    PROVE  Echo!Transposed(note, by) \in Int
  BY DEF Echo!Transposed

LEMMA LeadsNowhere ==
    ASSUME NEW by \in Int, NEW x \in Int
    PROVE  Leads(by, x, 0, x) /\ \A y : Leads(by, x, 0, y) => y = x
<1> DEFINE f == [i \in 0 .. 0 |-> x]
<1>1. /\ f \in [0 .. 0 -> Int] /\ f[0] = x
      /\ \A i \in 1 .. 0 : f[i] = Echo!Transposed(f[i - 1], by)
  OBVIOUS
<1> HIDE DEF f
<1> QED
  BY <1>1 DEF Leads

LEMMA LeadsOn ==
    ASSUME NEW by \in Int, NEW x \in Int, NEW y \in Int, NEW k \in Nat, Leads(by, x, k, y)
    PROVE  Leads(by, x, k + 1, Echo!Transposed(y, by))
<1> DEFINE z == Echo!Transposed(y, by)
<1>1. PICK f \in [0 .. k -> Int] :
        f[0] = x /\ f[k] = y /\ \A i \in 1 .. k : f[i] = Echo!Transposed(f[i - 1], by)
  BY DEF Leads
<1>2. z \in Int
  BY TransposedInt
<1> DEFINE g == [i \in 0 .. k + 1 |-> IF i = k + 1 THEN z ELSE f[i]]
<1>3. g \in [0 .. k + 1 -> Int] /\ g[0] = x /\ g[k + 1] = z
  BY <1>1, <1>2
<1>4. ASSUME NEW i \in 1 .. k + 1 PROVE g[i] = Echo!Transposed(g[i - 1], by)
  <2>1. CASE i = k + 1
    <3>1. i - 1 \in 0 .. k + 1 /\ i - 1 # k + 1 /\ i - 1 = k
      BY <2>1
    <3>2. g[i - 1] = y /\ g[i] = z
      BY <1>1, <1>3, <2>1, <3>1
    <3> QED
      BY <3>2
  <2>2. CASE i # k + 1
    <3>1. i \in 1 .. k /\ i - 1 \in 0 .. k + 1 /\ i - 1 # k + 1
      BY <2>2
    <3>2. g[i] = f[i] /\ g[i - 1] = f[i - 1]
      BY <2>2, <3>1
    <3> HIDE DEF g
    <3> QED
      BY <1>1, <3>1, <3>2
  <2> QED
    BY <2>1, <2>2
<1> HIDE DEF g
<1>5. \E h \in [0 .. k + 1 -> Int] :
        h[0] = x /\ h[k + 1] = z /\ \A i \in 1 .. k + 1 : h[i] = Echo!Transposed(h[i - 1], by)
  BY <1>3, <1>4
<1> QED
  BY <1>5 DEF Leads

LEMMA LeadsFromNext ==
    ASSUME NEW by \in Int, NEW x \in Int, NEW y, NEW k \in Nat, Leads(by, x, k + 1, y)
    PROVE  Leads(by, Echo!Transposed(x, by), k, y)
<1>1. PICK f \in [0 .. k + 1 -> Int] :
        f[0] = x /\ f[k + 1] = y /\ \A i \in 1 .. k + 1 : f[i] = Echo!Transposed(f[i - 1], by)
  BY DEF Leads
<1> DEFINE g == [i \in 0 .. k |-> f[i + 1]]
<1>2. g \in [0 .. k -> Int] /\ g[k] = y
  BY <1>1
<1>3. g[0] = Echo!Transposed(x, by)
  <2>1. 1 \in 1 .. k + 1 /\ g[0] = f[1] /\ 1 - 1 = 0
    OBVIOUS
  <2>2. f[1] = Echo!Transposed(f[1 - 1], by)
    BY <1>1, <2>1
  <2> QED
    BY <1>1, <2>1, <2>2
<1>4. ASSUME NEW i \in 1 .. k PROVE g[i] = Echo!Transposed(g[i - 1], by)
  <2>1. i + 1 \in 1 .. k + 1 /\ i - 1 \in 0 .. k /\ i + 1 - 1 = i /\ i - 1 + 1 = i /\ i \in 0 .. k
    OBVIOUS
  <2>2. g[i] = f[i + 1] /\ g[i - 1] = f[i]
    BY <2>1
  <2>3. f[i + 1] = Echo!Transposed(f[i + 1 - 1], by)
    BY <1>1, <2>1
  <2> QED
    BY <2>1, <2>2, <2>3
<1> HIDE DEF g
<1> QED
  BY <1>2, <1>3, <1>4 DEF Leads

\* The function that Echoes computes: it exists, and follows the chain.
EchoImages(by, note, taps, f) ==
    f = [i \in 0 .. taps |-> IF i = 0 THEN note ELSE Echo!Transposed(f[i - 1], by)]

LEMMA EchoImagesExist ==
    ASSUME NEW by, NEW note, NEW taps \in Nat
    PROVE  \E f : EchoImages(by, note, taps, f)
<1> DEFINE Bad == { n \in Nat : ~ \E f : EchoImages(by, note, n, f) }
<1>1. SUFFICES ASSUME Bad # {} PROVE FALSE
  OBVIOUS
<1>2. PICK m \in Bad : \A n \in Bad : m <= n
  <2>1. Bad \subseteq Nat
    OBVIOUS
  <2> HIDE DEF Bad
  <2> QED
    BY <1>1, <2>1, LeastNat
<1>3. m \in Nat
  OBVIOUS
<1>4. CASE m = 0
  <2> DEFINE f == [i \in 0 .. 0 |-> note]
  <2>1. f = [i \in 0 .. 0 |-> IF i = 0 THEN note ELSE Echo!Transposed(f[i - 1], by)]
    OBVIOUS
  <2> HIDE DEF f
  <2>2. EchoImages(by, note, 0, f)
    BY <2>1 DEF EchoImages
  <2> QED
    BY <1>4, <2>2
<1>5. CASE m # 0
  <2> DEFINE n == m - 1
  <2>1. n \in Nat /\ ~ (m <= n) /\ n + 1 = m
    BY <1>3, <1>5
  <2>2. n \notin Bad
    BY <1>2, <2>1
  <2>3. PICK f : EchoImages(by, note, n, f)
    BY <2>1, <2>2
  <2> HIDE DEF n
  <2> DEFINE g == [i \in 0 .. m |-> IF i = m THEN Echo!Transposed(f[n], by) ELSE f[i]]
             h == [i \in 0 .. m |-> IF i = 0 THEN note ELSE Echo!Transposed(g[i - 1], by)]
  <2>4. \A i \in 0 .. n : f[i] = IF i = 0 THEN note ELSE Echo!Transposed(f[i - 1], by)
    BY <2>3, Zenon DEF EchoImages
  <2>5. ASSUME NEW i \in 0 .. m PROVE g[i] = h[i]
    <3>1. CASE i = m
      <4>1. i # 0 /\ i - 1 = n /\ n \in 0 .. m /\ n # m
        BY <1>3, <1>5, <2>1, <3>1
      <4>2. g[i] = Echo!Transposed(f[n], by) /\ g[n] = f[n]
        BY <3>1, <4>1
      <4>3. h[i] = Echo!Transposed(g[n], by)
        BY <4>1
      <4> QED
        BY <4>2, <4>3
    <3>2. CASE i # m
      <4>1. i \in 0 .. n /\ (i # 0 => i - 1 \in 0 .. m /\ i - 1 # m)
        BY <1>3, <2>1, <3>2
      <4>2. g[i] = f[i] /\ (i # 0 => g[i - 1] = f[i - 1])
        BY <3>2, <4>1
      <4>3. h[i] = IF i = 0 THEN note ELSE Echo!Transposed(g[i - 1], by)
        OBVIOUS
      <4>4. f[i] = IF i = 0 THEN note ELSE Echo!Transposed(f[i - 1], by)
        BY <2>4, <4>1
      <4> HIDE DEF g, h
      <4> QED
        BY <4>2, <4>3, <4>4
    <3> QED
      BY <3>1, <3>2
  <2>6. g = h
    BY <2>5
  <2> HIDE DEF g
  <2>7. EchoImages(by, note, m, g)
    BY <2>6, Zenon DEF EchoImages
  <2> QED
    BY <2>7
<1> QED
  BY <1>4, <1>5

LEMMA EchoesFollow ==
    ASSUME NEW s, NEW x \in Int, NEW taps \in Nat, s.transposition \in Int,
           NEW k \in 1 .. taps, NEW y, Leads(s.transposition, x, k, y)
    PROVE  y \in Echo!Echoes(s, x, taps)
<1> DEFINE by    == s.transposition
           Image == CHOOSE f : EchoImages(by, x, taps, f)
<1>1. EchoImages(by, x, taps, Image)
  BY EchoImagesExist
<1>2. Echo!Echoes(s, x, taps) = { Image[i] : i \in 1 .. taps }
  BY Zenon DEF Echo!Echoes, EchoImages
<1> HIDE DEF Image
<1>3. \A i \in 0 .. taps : Image[i] = IF i = 0 THEN x ELSE Echo!Transposed(Image[i - 1], by)
  BY <1>1, Zenon DEF EchoImages
<1>4. PICK f \in [0 .. k -> Int] :
        f[0] = x /\ f[k] = y /\ \A i \in 1 .. k : f[i] = Echo!Transposed(f[i - 1], by)
  BY DEF Leads
<1> DEFINE Bad == { i \in 0 .. k : Image[i] # f[i] }
<1>5. ASSUME Bad # {} PROVE FALSE
  <2>1. PICK m \in Bad : \A n \in Bad : m <= n
    <3>1. Bad \subseteq Nat
      OBVIOUS
    <3> HIDE DEF Bad
    <3> QED
      BY <1>5, <3>1, LeastNat
  <2>2. m \in 0 .. k /\ m \in 0 .. taps /\ Image[m] # f[m]
    OBVIOUS
  <2>3. m # 0
    BY <1>3, <1>4, <2>2
  <2>4. m - 1 \in 0 .. k /\ ~ (m <= m - 1) /\ m \in 1 .. k
    BY <2>2, <2>3
  <2>5. m - 1 \notin Bad
    BY <2>1, <2>4
  <2>6. Image[m - 1] = f[m - 1]
    BY <2>4, <2>5
  <2> QED
    BY <1>3, <1>4, <2>2, <2>3, <2>4, <2>6
<1>6. Image[k] = y
  BY <1>4, <1>5
<1> QED
  BY <1>2, <1>6

-----------------------------------------------------------------------------
(* The delay: its echoes in the line.                                      *)

EchoFields == {"running", "clk_mode", "num_taps", "transposition", "delay", "line", "held",
               "sounding", "changed", "dropped"}

EchoEvent == [note : Int, velocity : {0, 1}, wait : Nat, tag : Nat]

EchoTyped(s) ==
    /\ DOMAIN s = EchoFields
    /\ s.num_taps \in EchoParams.Taps /\ s.transposition \in EchoParams.Transpositions
    /\ s.delay \in EchoParams.EchoDelays
    /\ s.line \in Seq(EchoEvent) /\ Lined(s.line)
    /\ s.held \subseteq Int

\* Nothing but the line and dropped.
EchoKeeps(s, t) ==
    /\ t.num_taps = s.num_taps /\ t.transposition = s.transposition /\ t.delay = s.delay
    /\ t.held = s.held /\ t.sounding = s.sounding /\ t.changed = s.changed

LEMMA EchoTypes ==
    ASSUME NEW s, EchoTyped(s)
    PROVE  /\ s.num_taps \in Nat /\ s.transposition \in Int /\ Len(s.line) \in Nat
           /\ \A i \in 0 .. s.num_taps : s.delay[i] \in Nat \ {0}
           /\ \A p \in 1 .. Len(s.line) :
                /\ s.line[p] \in EchoEvent /\ s.line[p].note \in Int
                /\ s.line[p].velocity \in {0, 1} /\ s.line[p].wait \in Nat /\ s.line[p].tag \in Nat
<1>1. s.num_taps \in Nat /\ s.transposition \in Int
  BY EchoAssumption DEF EchoTyped
<1>2. \A i \in 0 .. s.num_taps : s.delay[i] \in Nat \ {0}
  BY EchoAssumption, Zenon DEF EchoTyped
<1>3. Len(s.line) \in Nat /\ \A p \in 1 .. Len(s.line) : s.line[p] \in EchoEvent
  BY DEF EchoTyped
<1>4. \A e \in EchoEvent : /\ e.note \in Int /\ e.velocity \in {0, 1}
                           /\ e.wait \in Nat /\ e.tag \in Nat
  BY DEF EchoEvent
<1> QED
  BY <1>1, <1>2, <1>3, <1>4

LEMMA EchoTicks == Ticks(EchoEvent)
  BY DEF Ticks, EchoEvent

LEMMA EchoInsertedIs ==
    \A line, event : Echo!Inserted(line, event) = Queue!Inserted(line, event)
<1>1. \A S : Echo!Min(S) = Queue!Min(S)
  BY Zenon DEF Echo!Min, Queue!Min
<1> QED
  BY <1>1, Zenon DEF Echo!Inserted, Queue!Inserted, Echo!InsertAt, Queue!InsertAt

\* What ScheduleEchoes makes of s.
EchoScheduled(s, t, note, velocity, taps) ==
    \/ taps = 0 /\ t = s
    \/ t.dropped = TRUE /\ t.line = s.line
    \/ \E event \in EchoEvent :
         /\ taps # 0 /\ t.line = Queue!Inserted(s.line, event) /\ t.dropped = s.dropped
         /\ event.note = Echo!Transposed(note, s.transposition)
         /\ event.velocity = velocity /\ event.tag = taps - 1 /\ event.wait > 0
         /\ taps <= s.num_taps => event.wait = s.delay[s.num_taps - taps]

LEMMA EchoSchedules ==
    ASSUME NEW s, EchoTyped(s), NEW note \in Int, NEW velocity \in {0, 1}, NEW taps \in Nat
    PROVE  LET t == Echo!ScheduleEchoes(s, note, velocity, taps)
           IN  EchoTyped(t) /\ EchoKeeps(s, t) /\ EchoScheduled(s, t, note, velocity, taps)
<1> DEFINE nth   == IF taps > s.num_taps THEN 0 ELSE s.num_taps - taps
           event == [note |-> Echo!Transposed(note, s.transposition), velocity |-> velocity,
                     wait |-> s.delay[nth], tag |-> taps - 1]
           t     == Echo!ScheduleEchoes(s, note, velocity, taps)
<1>1. CASE taps = 0
  BY <1>1 DEF Echo!ScheduleEchoes, EchoKeeps, EchoScheduled
<1>2. CASE taps # 0
  <2>1. nth \in 0 .. s.num_taps /\ taps - 1 \in Nat
    BY <1>2, EchoTypes
  <2>2. s.delay[nth] \in Nat \ {0} /\ Echo!Transposed(note, s.transposition) \in Int
    BY <2>1, EchoTypes, TransposedInt
  <2>3. event \in EchoEvent /\ event.wait > 0
    BY <2>1, <2>2 DEF EchoEvent
  <2>4. /\ event.note = Echo!Transposed(note, s.transposition)
        /\ event.velocity = velocity /\ event.tag = taps - 1 /\ event.wait = s.delay[nth]
        /\ taps <= s.num_taps => nth = s.num_taps - taps
    BY EchoTypes
  <2>5. t = IF Len(s.line) >= EchoParams.MaxQueue THEN [s EXCEPT !.dropped = TRUE]
            ELSE [s EXCEPT !.line = Queue!Inserted(@, event)]
    <3>1. t = IF Len(s.line) >= EchoParams.MaxQueue THEN [s EXCEPT !.dropped = TRUE]
              ELSE [s EXCEPT !.line = Echo!Inserted(@, event)]
      BY <1>2 DEF Echo!ScheduleEchoes
    <3> HIDE DEF t, event
    <3> QED
      BY <3>1, EchoInsertedIs
  <2> HIDE DEF event, t, nth
  <2>6. CASE Len(s.line) >= EchoParams.MaxQueue
    <3>1. /\ DOMAIN t = EchoFields /\ EchoKeeps(s, t) /\ t.line = s.line /\ t.dropped = TRUE
      BY <2>5, <2>6 DEF EchoTyped, EchoFields, EchoKeeps
    <3>2. EchoTyped(t)
      BY <3>1 DEF EchoTyped, EchoKeeps
    <3> QED
      BY <3>1, <3>2 DEF t, EchoScheduled
  <2>7. CASE ~(Len(s.line) >= EchoParams.MaxQueue)
    <3>1. /\ DOMAIN t = EchoFields /\ EchoKeeps(s, t)
          /\ t.line = Queue!Inserted(s.line, event) /\ t.dropped = s.dropped
      BY <2>5, <2>7 DEF EchoTyped, EchoFields, EchoKeeps
    <3>2. s.line \in Seq(EchoEvent) /\ Lined(s.line)
      BY DEF EchoTyped
    <3>3. t.line \in Seq(EchoEvent) /\ Lined(t.line)
      BY <2>3, <3>1, <3>2, EchoTicks, QueueInserted
    <3>4. EchoTyped(t)
      BY <3>1, <3>3 DEF EchoTyped, EchoKeeps
    <3>5. taps <= s.num_taps => event.wait = s.delay[s.num_taps - taps]
      BY <2>4, Zenon
    <3> QED
      BY <1>2, <2>3, <2>4, <3>1, <3>4, <3>5, Zenon DEF t, EchoScheduled
  <2> QED
    BY <2>6, <2>7
<1> QED
  BY <1>1, <1>2

\* Where an event is after one was put at q.
Moved(q, p) == IF p < q THEN p ELSE p + 1

LEMMA MovedIs ==
    ASSUME NEW n \in Nat, NEW q \in 1 .. n + 1
    PROVE  /\ \A p \in 1 .. n : /\ Moved(q, p) \in 1 .. n + 1 /\ Moved(q, p) # q
                                /\ p < q => Moved(q, p) < q
                                /\ \A i \in Nat : i < p /\ i < q => i < Moved(q, p)
           /\ \A o, p \in 1 .. n : o < p => Moved(q, o) < Moved(q, p)
           /\ \A r \in 1 .. n + 1 : r # q =>
                \E p \in 1 .. n : /\ r = Moved(q, p)
                                  /\ \A i \in Nat : i < r /\ i < q => i < p
<1>1. ASSUME NEW r \in 1 .. n + 1, r # q
      PROVE  \E p \in 1 .. n : r = Moved(q, p) /\ \A i \in Nat : i < r /\ i < q => i < p
  <2>1. CASE r < q
    <3>1. r \in 1 .. n /\ r = Moved(q, r)
      BY <2>1 DEF Moved
    <3> QED
      BY <3>1
  <2>2. CASE r > q
    <3> DEFINE p == r - 1
    <3>1. p \in 1 .. n /\ r = Moved(q, p) /\ \A i \in Nat : i < q => i < p
      BY <2>2 DEF Moved
    <3> HIDE DEF p
    <3> QED
      BY <3>1
  <2> QED
    BY <1>1, <2>1, <2>2
<1>2. ASSUME NEW p \in 1 .. n
      PROVE  /\ Moved(q, p) \in 1 .. n + 1 /\ Moved(q, p) # q
             /\ p < q => Moved(q, p) < q
             /\ \A i \in Nat : i < p /\ i < q => i < Moved(q, p)
  BY DEF Moved
<1>3. \A o, p \in 1 .. n : o < p => Moved(q, o) < Moved(q, p)
  BY DEF Moved
<1>4. \A p \in 1 .. n : /\ Moved(q, p) \in 1 .. n + 1 /\ Moved(q, p) # q
                        /\ p < q => Moved(q, p) < q
                        /\ \A i \in Nat : i < p /\ i < q => i < Moved(q, p)
  BY <1>2
<1>5. \A r \in 1 .. n + 1 : r # q =>
        \E p \in 1 .. n : r = Moved(q, p) /\ \A i \in Nat : i < r /\ i < q => i < p
  BY <1>1
<1> QED
  BY <1>3, <1>4, <1>5, Zenon

\* The event is at q, behind those that wait no longer and behind the first i.
EchoPlaced(s, t, i, q, event) ==
    /\ q \in 1 .. Len(s.line) + 1 /\ i < q
    /\ Len(t.line) = Len(s.line) + 1 /\ t.line[q] = event
    /\ \A p \in 1 .. Len(s.line) : /\ t.line[Moved(q, p)] = s.line[p]
                                   /\ s.line[p].wait <= event.wait => p < q

LEMMA EchoPlaces ==
    ASSUME NEW s, EchoTyped(s), NEW t, NEW event \in EchoEvent, event.wait > 0,
           t.line = Queue!Inserted(s.line, event),
           NEW i \in 0 .. Len(s.line), \A p \in 1 .. i : s.line[p].wait = 0
    PROVE  /\ \E q : EchoPlaced(s, t, i, q, event)
           /\ \A p \in 1 .. i : t.line[p] = s.line[p]
<1>1. s.line \in Seq(EchoEvent) /\ Lined(s.line) /\ Len(s.line) \in Nat
  BY DEF EchoTyped
<1> DEFINE more == Queue!Inserted(s.line, event)
<1>2. t.line = more
  OBVIOUS
<1>3. PICK q \in 1 .. Len(s.line) + 1 :
             /\ more[q] = event
             /\ \A p \in 1 .. Len(s.line) :
                  /\ p < q => more[p] = s.line[p] /\ s.line[p].wait <= event.wait
                  /\ p >= q => more[p + 1] = s.line[p] /\ event.wait < s.line[p].wait
  BY <1>1, EchoTicks, QueueInserted, Zenon
<1> HIDE DEF more
<1>4. Len(t.line) = Len(s.line) + 1
  BY <1>1, EchoTicks, QueueInserted
<1>5. i < q
  <2>1. SUFFICES ASSUME q <= i PROVE FALSE
    BY <1>1
  <2>2. q \in 1 .. i /\ q \in 1 .. Len(s.line) /\ q >= q
    BY <1>1, <2>1
  <2>3. s.line[q].wait = 0 /\ event.wait < s.line[q].wait
    BY <1>2, <1>3, <2>2
  <2>4. event.wait \in Nat
    BY DEF EchoEvent
  <2> QED
    BY <2>3, <2>4
<1>6. ASSUME NEW p \in 1 .. Len(s.line)
      PROVE  /\ t.line[Moved(q, p)] = s.line[p]
             /\ s.line[p].wait <= event.wait => p < q
  <2>1. p < q \/ p >= q
    BY <1>1
  <2>2. s.line[p].wait \in Nat /\ event.wait \in Nat
    BY EchoTypes DEF EchoEvent
  <2> QED
    BY <1>2, <1>3, <2>1, <2>2 DEF Moved
<1>7. \A p \in 1 .. i : t.line[p] = s.line[p]
  <2>1. \A p \in 1 .. i : p \in 1 .. Len(s.line) /\ p < q
    BY <1>1, <1>5
  <2> QED
    BY <1>2, <1>3, <2>1
<1> QED
  BY <1>2, <1>3, <1>4, <1>5, <1>6, <1>7 DEF EchoPlaced

-----------------------------------------------------------------------------
(* The delay: what covers its note ons.                                    *)

\* A note off of y is to come with b echoes of its own: from its key, or from the
\* line behind the first i, which were sent.
EchoOff(s, i, y, b) ==
    \/ y \in s.held /\ b = s.num_taps
    \/ \E r \in 1 .. Len(s.line) :
         i < r /\ s.line[r].velocity = 0 /\ s.line[r].note = y /\ s.line[r].tag = b

\* A note off of y with b echoes will be echoed as x, with a echoes left.
EchoVia(s, y, b, x, a) == a < b /\ Leads(s.transposition, y, b - a, x)

EchoFar(s, i, x, a) == \E y \in Int, b \in Nat : EchoOff(s, i, y, b) /\ EchoVia(s, y, b, x, a)

\* The note off of the event at p is behind it in the line.
EchoNear(s, p) ==
    \E r \in 1 .. Len(s.line) :
      /\ p < r /\ s.line[r].velocity = 0
      /\ s.line[r].note = s.line[p].note /\ s.line[r].tag = s.line[p].tag

EchoRests(s, i, x) ==
    \E r \in 1 .. Len(s.line) : i < r /\ s.line[r].velocity = 0 /\ s.line[r].note = x

\* No echo waits longer than it was scheduled for.
EchoTags(s, i) ==
    \A p \in 1 .. Len(s.line) : i < p =>
      s.line[p].tag < s.num_taps /\ s.line[p].wait <= s.delay[s.num_taps - s.line[p].tag - 1]

\* Every note on that waits, and every note that sounds, has its note off to come: at
\* a moment when the note off of y with b echoes is being handled.
EchoRings(s, i, y, b) ==
    \A p \in 1 .. Len(s.line) : i < p /\ s.line[p].velocity = 1 =>
      \/ EchoFar(s, i, s.line[p].note, s.line[p].tag)
      \/ EchoNear(s, p)
      \/ EchoVia(s, y, b, s.line[p].note, s.line[p].tag)

EchoSounds(s, i, y, b) ==
    \A x \in s.sounding :
      \/ EchoRests(s, i, x)
      \/ \E a \in Nat : EchoFar(s, i, x, a) \/ EchoVia(s, y, b, x, a)

EchoSteady(s, i, y, b) == EchoTags(s, i) /\ EchoRings(s, i, y, b) /\ EchoSounds(s, i, y, b)

\* What an event put at q leaves as it was.
EchoMoved(s, t, i, q) ==
    /\ \A x, a : EchoFar(s, i, x, a) => EchoFar(t, i, x, a)
    /\ \A p \in 1 .. Len(s.line) : EchoNear(s, p) => EchoNear(t, Moved(q, p))
    /\ \A x : EchoRests(s, i, x) => EchoRests(t, i, x)
    /\ \A r \in 1 .. Len(t.line) : i < r => r = q \/
         \E p \in 1 .. Len(s.line) : i < p /\ r = Moved(q, p) /\ t.line[r] = s.line[p]

LEMMA EchoMoves ==
    ASSUME NEW s, NEW t, EchoTyped(s), EchoKeeps(s, t), NEW i \in Nat, NEW q, NEW event,
           EchoPlaced(s, t, i, q, event)
    PROVE  /\ EchoMoved(s, t, i, q)
           /\ event.velocity = 0 => EchoOff(t, i, event.note, event.tag)
                                    /\ EchoRests(t, i, event.note)
<1> DEFINE n == Len(s.line)
<1>1. /\ n \in Nat /\ q \in 1 .. n + 1 /\ i < q /\ Len(t.line) = n + 1 /\ t.line[q] = event
      /\ \A p \in 1 .. n : t.line[Moved(q, p)] = s.line[p]
  BY EchoTypes DEF EchoPlaced
<1> HIDE DEF n
<1>2. \A p \in 1 .. n : /\ Moved(q, p) \in 1 .. n + 1
                        /\ i < p => i < Moved(q, p)
  BY <1>1, MovedIs
<1>3. \A y, b : EchoOff(s, i, y, b) => EchoOff(t, i, y, b)
  <2>1. SUFFICES ASSUME NEW y, NEW b, EchoOff(s, i, y, b) PROVE EchoOff(t, i, y, b)
    OBVIOUS
  <2>2. CASE y \in s.held /\ b = s.num_taps
    BY <2>2 DEF EchoOff, EchoKeeps
  <2>3. CASE \E r \in 1 .. n :
               i < r /\ s.line[r].velocity = 0 /\ s.line[r].note = y /\ s.line[r].tag = b
    BY <1>1, <1>2, <2>3 DEF EchoOff
  <2> QED
    BY <2>1, <2>2, <2>3 DEF EchoOff, n
<1>4. \A y, b, x, a : EchoVia(s, y, b, x, a) => EchoVia(t, y, b, x, a)
  BY DEF EchoVia, EchoKeeps
<1>5. \A x, a : EchoFar(s, i, x, a) => EchoFar(t, i, x, a)
  BY <1>3, <1>4, Zenon DEF EchoFar
<1>6. ASSUME NEW p \in 1 .. n, EchoNear(s, p) PROVE EchoNear(t, Moved(q, p))
  <2>1. PICK r \in 1 .. n :
          /\ p < r /\ s.line[r].velocity = 0
          /\ s.line[r].note = s.line[p].note /\ s.line[r].tag = s.line[p].tag
    BY <1>6 DEF EchoNear, n
  <2>2. Moved(q, p) < Moved(q, r)
    BY <1>1, <2>1, MovedIs
  <2> QED
    BY <1>1, <1>2, <2>1, <2>2 DEF EchoNear
<1>7. \A x : EchoRests(s, i, x) => EchoRests(t, i, x)
  BY <1>1, <1>2 DEF EchoRests, n
<1>8. event.velocity = 0 => EchoOff(t, i, event.note, event.tag) /\ EchoRests(t, i, event.note)
  BY <1>1 DEF EchoOff, EchoRests
<1>9. ASSUME NEW r \in 1 .. Len(t.line), i < r, r # q
      PROVE  \E p \in 1 .. n : i < p /\ r = Moved(q, p) /\ t.line[r] = s.line[p]
  <2>1. PICK p \in 1 .. n : r = Moved(q, p) /\ \A j \in Nat : j < r /\ j < q => j < p
    <3>1. \A o \in 1 .. n + 1 : o # q =>
            \E p \in 1 .. n : o = Moved(q, p) /\ \A j \in Nat : j < o /\ j < q => j < p
      BY <1>1, MovedIs, Zenon
    <3> QED
      BY <1>1, <1>9, <3>1
  <2> QED
    BY <1>1, <1>9, <2>1
<1>10. EchoMoved(s, t, i, q)
  BY <1>5, <1>6, <1>7, <1>9, Zenon DEF EchoMoved, n
<1> QED
  BY <1>8, <1>10

\* A note off of y comes with b echoes: the first of them takes its place.
LEMMA EchoesOff ==
    ASSUME NEW s, NEW t, EchoTyped(s), EchoTyped(t), EchoKeeps(s, t), NEW i \in Nat,
           NEW y \in Int, NEW b \in 1 .. s.num_taps, EchoSteady(s, i, y, b),
           NEW event \in EchoEvent, event.velocity = 0, event.tag = b - 1,
           event.note = Echo!Transposed(y, s.transposition),
           event.wait = s.delay[s.num_taps - b], NEW q, EchoPlaced(s, t, i, q, event)
    PROVE  EchoSteady(t, i, 0, 0)
<1> DEFINE z == Echo!Transposed(y, s.transposition)
<1>1. /\ EchoMoved(s, t, i, q)
      /\ event.velocity = 0 => EchoOff(t, i, event.note, event.tag)
                               /\ EchoRests(t, i, event.note)
  BY EchoMoves
<1>2. /\ \A x, a : EchoFar(s, i, x, a) => EchoFar(t, i, x, a)
      /\ \A p \in 1 .. Len(s.line) : EchoNear(s, p) => EchoNear(t, Moved(q, p))
      /\ \A x : EchoRests(s, i, x) => EchoRests(t, i, x)
      /\ EchoOff(t, i, z, b - 1) /\ EchoRests(t, i, z)
      /\ \A r \in 1 .. Len(t.line) : i < r => r = q \/
           \E p \in 1 .. Len(s.line) : i < p /\ r = Moved(q, p) /\ t.line[r] = s.line[p]
  BY <1>1, Zenon DEF EchoMoved
<1>3. /\ s.num_taps \in Nat /\ b \in Nat /\ b - 1 \in Nat /\ s.transposition \in Int /\ z \in Int
      /\ t.line[q] = event /\ event.wait \in Nat /\ event.velocity = 0
      /\ q \in 1 .. Len(s.line) + 1 /\ Len(t.line) = Len(s.line) + 1 /\ Len(s.line) \in Nat
  <2>1. s.num_taps \in Nat /\ s.transposition \in Int /\ Len(s.line) \in Nat
    BY EchoTypes
  <2>2. z \in Int
    BY <2>1, TransposedInt
  <2>3. event.wait \in Nat
    BY DEF EchoEvent
  <2>4. t.line[q] = event /\ q \in 1 .. Len(s.line) + 1 /\ Len(t.line) = Len(s.line) + 1
    BY DEF EchoPlaced
  <2> QED
    BY <2>1, <2>2, <2>3, <2>4
<1> HIDE DEF z
<1>4. ASSUME NEW x, NEW a \in Nat, EchoVia(s, y, b, x, a)
      PROVE  EchoFar(t, i, x, a) \/ (a = b - 1 /\ x = z)
  <2>1. a < b /\ Leads(s.transposition, y, b - a, x)
    BY <1>4 DEF EchoVia
  <2>2. b - 1 - a \in Nat /\ b - 1 - a + 1 = b - a
    BY <1>3, <2>1
  <2>3. Leads(s.transposition, z, b - 1 - a, x)
    <3> DEFINE k == b - 1 - a
    <3>1. k \in Nat /\ Leads(s.transposition, y, k + 1, x)
      BY <2>1, <2>2
    <3> HIDE DEF k
    <3>2. Leads(s.transposition, z, k, x)
      BY <1>3, <3>1, LeadsFromNext DEF z
    <3> QED
      BY <3>2 DEF k
  <2>4. CASE a = b - 1
    <3>1. b - 1 - a = 0
      BY <1>3, <2>4
    <3>2. Leads(s.transposition, z, 0, x)
      BY <2>3, <3>1
    <3> QED
      BY <1>3, <2>4, <3>2, LeadsNowhere
  <2>5. CASE a # b - 1
    <3>1. a < b - 1
      BY <1>3, <2>1, <2>5
    <3>2. EchoVia(t, z, b - 1, x, a)
      BY <2>3, <3>1 DEF EchoVia, EchoKeeps
    <3> QED
      BY <1>2, <1>3, <3>2 DEF EchoFar
  <2> QED
    BY <2>4, <2>5
<1>5. EchoTags(t, i)
  <2>1. SUFFICES ASSUME NEW r \in 1 .. Len(t.line), i < r
                 PROVE  /\ t.line[r].tag < t.num_taps
                        /\ t.line[r].wait <= t.delay[t.num_taps - t.line[r].tag - 1]
    BY DEF EchoTags
  <2>2. CASE r = q
    <3>1. s.num_taps - (b - 1) - 1 = s.num_taps - b /\ b - 1 < s.num_taps
      BY <1>3
    <3>2. t.line[r].tag = b - 1 /\ t.line[r].wait = s.delay[s.num_taps - b]
          /\ t.line[r].wait \in Nat /\ t.num_taps = s.num_taps /\ t.delay = s.delay
      BY <1>3, <2>2 DEF EchoKeeps
    <3> QED
      BY <3>1, <3>2
  <2>3. CASE r # q
    <3>1. PICK p \in 1 .. Len(s.line) : i < p /\ t.line[r] = s.line[p]
      BY <1>2, <2>1, <2>3
    <3> QED
      BY <3>1, Zenon DEF EchoSteady, EchoTags, EchoKeeps
  <2> QED
    BY <2>2, <2>3
<1>6. EchoRings(t, i, 0, 0)
  <2>1. SUFFICES ASSUME NEW r \in 1 .. Len(t.line), i < r, t.line[r].velocity = 1
                 PROVE  EchoFar(t, i, t.line[r].note, t.line[r].tag) \/ EchoNear(t, r)
    BY DEF EchoRings
  <2>2. r # q
    BY <1>3, <2>1
  <2>3. PICK p \in 1 .. Len(s.line) : i < p /\ r = Moved(q, p) /\ t.line[r] = s.line[p]
    BY <1>2, <2>1, <2>2
  <2>4. \/ EchoFar(s, i, s.line[p].note, s.line[p].tag)
        \/ EchoNear(s, p)
        \/ EchoVia(s, y, b, s.line[p].note, s.line[p].tag)
    BY <2>1, <2>3, Zenon DEF EchoSteady, EchoRings
  <2>5. CASE EchoFar(s, i, s.line[p].note, s.line[p].tag) \/ EchoNear(s, p)
    BY <1>2, <2>3, <2>5
  <2>6. CASE EchoVia(s, y, b, s.line[p].note, s.line[p].tag)
    <3>1. /\ s.line[p].tag \in Nat /\ s.line[p].wait \in Nat
          /\ s.line[p].wait <= s.delay[s.num_taps - s.line[p].tag - 1]
      BY <2>3, EchoTypes DEF EchoSteady, EchoTags
    <3>2. CASE EchoFar(t, i, s.line[p].note, s.line[p].tag)
      BY <2>3, <3>2
    <3>3. CASE s.line[p].tag = b - 1 /\ s.line[p].note = z
      <4>1. s.num_taps - s.line[p].tag - 1 = s.num_taps - b
        BY <1>3, <3>3
      <4>2. s.line[p].wait <= event.wait
        BY <3>1, <4>1
      <4>3. p < q
        BY <4>2 DEF EchoPlaced
      <4>4. r < q /\ q \in 1 .. Len(t.line)
        BY <1>3, <2>3, <4>3 DEF Moved
      <4>5. t.line[q].velocity = 0 /\ t.line[q].note = t.line[r].note
            /\ t.line[q].tag = t.line[r].tag
        BY <1>3, <2>3, <3>3 DEF z
      <4> QED
        BY <4>4, <4>5 DEF EchoNear
    <3> QED
      BY <1>4, <2>6, <3>1, <3>2, <3>3
  <2> QED
    BY <2>4, <2>5, <2>6
<1>7. EchoSounds(t, i, 0, 0)
  <2>1. SUFFICES ASSUME NEW x \in t.sounding
                 PROVE  EchoRests(t, i, x) \/ \E a \in Nat : EchoFar(t, i, x, a)
    BY DEF EchoSounds
  <2>2. x \in s.sounding
    BY DEF EchoKeeps
  <2>3. CASE EchoRests(s, i, x)
    BY <1>2, <2>3
  <2>4. ASSUME NEW a \in Nat, EchoFar(s, i, x, a)
        PROVE  EchoFar(t, i, x, a)
    BY <1>2, <2>4
  <2>5. ASSUME NEW a \in Nat, EchoVia(s, y, b, x, a)
        PROVE  EchoRests(t, i, x) \/ EchoFar(t, i, x, a)
    BY <1>2, <1>4, <2>5
  <2> QED
    BY <2>2, <2>3, <2>4, <2>5, Zenon DEF EchoSteady, EchoSounds
<1> QED
  BY <1>5, <1>6, <1>7 DEF EchoSteady

\* Without echoes a note off comes for nothing.
LEMMA EchoesNone ==
    ASSUME NEW s, EchoTyped(s), NEW i, NEW y, NEW z
    PROVE  /\ \A x, a \in Nat : ~ EchoVia(s, y, 0, x, a)
           /\ EchoSteady(s, i, y, 0) => EchoSteady(s, i, z, 0)
<1>1. \A w, x : \A a \in Nat : ~ EchoVia(s, w, 0, x, a)
  BY DEF EchoVia
<1>2. \A p \in 1 .. Len(s.line) : s.line[p].tag \in Nat
  BY EchoTypes
<1>3. EchoRings(s, i, y, 0) => EchoRings(s, i, z, 0)
  BY <1>1, <1>2, Zenon DEF EchoRings
<1>4. EchoSounds(s, i, y, 0) => EchoSounds(s, i, z, 0)
  BY <1>1, Zenon DEF EchoSounds
<1> QED
  BY <1>1, <1>3, <1>4 DEF EchoSteady

\* A note on of y with b echoes is covered: so is the first of them.
LEMMA EchoesOn ==
    ASSUME NEW s, NEW t, EchoTyped(s), EchoTyped(t), EchoKeeps(s, t), NEW i \in Nat,
           NEW y \in Int, NEW b \in 1 .. s.num_taps, EchoSteady(s, i, 0, 0),
           EchoFar(s, i, y, b) \/ EchoOff(s, i, y, b),
           NEW event \in EchoEvent, event.velocity = 1, event.tag = b - 1,
           event.note = Echo!Transposed(y, s.transposition),
           event.wait = s.delay[s.num_taps - b], NEW q, EchoPlaced(s, t, i, q, event)
    PROVE  EchoSteady(t, i, 0, 0)
<1> DEFINE z == Echo!Transposed(y, s.transposition)
<1>1. EchoMoved(s, t, i, q)
  BY EchoMoves
<1>2. /\ \A x, a : EchoFar(s, i, x, a) => EchoFar(t, i, x, a)
      /\ \A p \in 1 .. Len(s.line) : EchoNear(s, p) => EchoNear(t, Moved(q, p))
      /\ \A x : EchoRests(s, i, x) => EchoRests(t, i, x)
      /\ \A r \in 1 .. Len(t.line) : i < r => r = q \/
           \E p \in 1 .. Len(s.line) : i < p /\ r = Moved(q, p) /\ t.line[r] = s.line[p]
  BY <1>1, Zenon DEF EchoMoved
<1>3. /\ s.num_taps \in Nat /\ b \in Nat /\ b - 1 \in Nat /\ s.transposition \in Int
      /\ t.line[q] = event /\ event.wait \in Nat
  <2>1. s.num_taps \in Nat /\ s.transposition \in Int
    BY EchoTypes
  <2>2. event.wait \in Nat
    BY DEF EchoEvent
  <2> QED
    BY <2>1, <2>2 DEF EchoPlaced
<1>4. \A x : \A a \in Nat : ~ EchoVia(s, 0, 0, x, a)
  BY DEF EchoVia
<1>5. EchoFar(s, i, z, b - 1)
  <2>1. CASE EchoFar(s, i, y, b)
    <3>1. PICK o \in Int, c \in Nat : EchoOff(s, i, o, c) /\ EchoVia(s, o, c, y, b)
      BY <2>1 DEF EchoFar
    <3> DEFINE k == c - b
    <3>2. b < c /\ Leads(s.transposition, o, k, y)
      BY <3>1 DEF EchoVia
    <3>3. k \in Nat /\ k + 1 = c - (b - 1) /\ b - 1 < c
      BY <1>3, <3>2
    <3> HIDE DEF k
    <3>4. Leads(s.transposition, o, k + 1, z)
      BY <1>3, <3>2, <3>3, LeadsOn
    <3>5. EchoVia(s, o, c, z, b - 1)
      BY <3>3, <3>4 DEF EchoVia
    <3> QED
      BY <3>1, <3>5 DEF EchoFar
  <2>2. CASE EchoOff(s, i, y, b)
    <3>1. Leads(s.transposition, y, 0 + 1, z)
      BY <1>3, LeadsNowhere, LeadsOn
    <3>2. b - (b - 1) = 0 + 1 /\ b - 1 < b
      BY <1>3
    <3>3. EchoVia(s, y, b, z, b - 1)
      BY <3>1, <3>2 DEF EchoVia
    <3> QED
      BY <1>3, <2>2, <3>3 DEF EchoFar
  <2> QED
    BY <2>1, <2>2
<1>6. EchoTags(t, i)
  <2>1. SUFFICES ASSUME NEW r \in 1 .. Len(t.line), i < r
                 PROVE  /\ t.line[r].tag < t.num_taps
                        /\ t.line[r].wait <= t.delay[t.num_taps - t.line[r].tag - 1]
    BY DEF EchoTags
  <2>2. CASE r = q
    <3>1. s.num_taps - (b - 1) - 1 = s.num_taps - b /\ b - 1 < s.num_taps
      BY <1>3
    <3>2. t.line[r].tag = b - 1 /\ t.line[r].wait = s.delay[s.num_taps - b]
          /\ t.line[r].wait \in Nat /\ t.num_taps = s.num_taps /\ t.delay = s.delay
      BY <1>3, <2>2 DEF EchoKeeps
    <3> QED
      BY <3>1, <3>2
  <2>3. CASE r # q
    <3>1. PICK p \in 1 .. Len(s.line) : i < p /\ t.line[r] = s.line[p]
      BY <1>2, <2>1, <2>3
    <3> QED
      BY <3>1, Zenon DEF EchoSteady, EchoTags, EchoKeeps
  <2> QED
    BY <2>2, <2>3
<1>7. EchoRings(t, i, 0, 0)
  <2>1. SUFFICES ASSUME NEW r \in 1 .. Len(t.line), i < r, t.line[r].velocity = 1
                 PROVE  EchoFar(t, i, t.line[r].note, t.line[r].tag) \/ EchoNear(t, r)
    BY DEF EchoRings
  <2>2. CASE r = q
    BY <1>2, <1>3, <1>5, <2>2
  <2>3. CASE r # q
    <3>1. PICK p \in 1 .. Len(s.line) : i < p /\ r = Moved(q, p) /\ t.line[r] = s.line[p]
      BY <1>2, <2>1, <2>3
    <3>2. s.line[p].tag \in Nat
      BY EchoTypes
    <3>3. EchoFar(s, i, s.line[p].note, s.line[p].tag) \/ EchoNear(s, p)
      BY <1>4, <2>1, <3>1, <3>2, Zenon DEF EchoSteady, EchoRings
    <3> QED
      BY <1>2, <3>1, <3>3
  <2> QED
    BY <2>2, <2>3
<1>8. EchoSounds(t, i, 0, 0)
  <2>1. SUFFICES ASSUME NEW x \in t.sounding
                 PROVE  EchoRests(t, i, x) \/ \E a \in Nat : EchoFar(t, i, x, a)
    BY DEF EchoSounds
  <2>2. x \in s.sounding
    BY DEF EchoKeeps
  <2>3. EchoRests(s, i, x) \/ \E a \in Nat : EchoFar(s, i, x, a)
    BY <1>4, <2>2, Zenon DEF EchoSteady, EchoSounds
  <2> QED
    BY <1>2, <2>3
<1> QED
  BY <1>6, <1>7, <1>8 DEF EchoSteady

\* What ScheduleEchoes does to the cover, as long as it finds a slot.
LEMMA EchoHandles ==
    ASSUME NEW s, EchoTyped(s), NEW y \in Int, NEW velocity \in {0, 1}, NEW b \in 0 .. s.num_taps,
           NEW i \in 0 .. Len(s.line), \A p \in 1 .. i : s.line[p].wait = 0,
           Echo!ScheduleEchoes(s, y, velocity, b).dropped # TRUE,
           velocity = 0 => EchoSteady(s, i, y, b),
           velocity = 1 => /\ EchoSteady(s, i, 0, 0)
                           /\ EchoFar(s, i, y, b) \/ EchoOff(s, i, y, b)
    PROVE  EchoSteady(Echo!ScheduleEchoes(s, y, velocity, b), i, 0, 0)
<1> DEFINE t == Echo!ScheduleEchoes(s, y, velocity, b)
<1>1. s.num_taps \in Nat /\ b \in Nat /\ Len(s.line) \in Nat /\ i \in Nat
  BY EchoTypes
<1>2. EchoTyped(t) /\ EchoKeeps(s, t) /\ EchoScheduled(s, t, y, velocity, b)
  BY <1>1, EchoSchedules
<1> HIDE DEF t
<1>3. CASE b = 0 /\ t = s
  <2>1. velocity = 0 => EchoSteady(s, i, y, 0)
    BY <1>3
  <2> QED
    BY <1>3, <2>1, EchoesNone DEF t
<1>4. ASSUME NEW event \in EchoEvent, b # 0, t.line = Queue!Inserted(s.line, event),
             event.note = Echo!Transposed(y, s.transposition),
             event.velocity = velocity, event.tag = b - 1, event.wait > 0,
             b <= s.num_taps => event.wait = s.delay[s.num_taps - b]
      PROVE  EchoSteady(t, i, 0, 0)
  <2>1. PICK q : EchoPlaced(s, t, i, q, event)
    BY <1>4, EchoPlaces
  <2>2. b \in 1 .. s.num_taps /\ event.wait = s.delay[s.num_taps - b]
    BY <1>1, <1>4
  <2>3. CASE velocity = 0
    BY <1>1, <1>2, <1>4, <2>1, <2>2, <2>3, EchoesOff
  <2>4. CASE velocity = 1
    BY <1>1, <1>2, <1>4, <2>1, <2>2, <2>4, EchoesOn
  <2> QED
    BY <2>3, <2>4
<1> QED
  BY <1>2, <1>3, <1>4 DEF t, EchoScheduled

-----------------------------------------------------------------------------
(* The delay: the loop that sends the echoes that are due.                 *)

EchoOk(s) ==
    EchoTyped(s) /\ (s.changed = TRUE \/ s.dropped = TRUE \/ EchoSteady(s, 0, 0, 0))

\* An event is sent.
EchoHeard(s, e) ==
    [s EXCEPT !.sounding = IF e.velocity = 0 THEN @ \ {e.note} ELSE @ \cup {e.note}]

EchoSent(s, e) == Echo!ScheduleEchoes(EchoHeard(s, e), e.note, e.velocity, e.tag)

\* The function that SendEchoes computes.
EchoAfter(s, due, f) ==
    f = [i \in 0 .. due |-> IF i = 0 THEN s ELSE EchoSent(f[i - 1], s.line[i])]

LEMMA EchoAfterExists ==
    ASSUME NEW s, NEW due \in Nat
    PROVE  \E f : EchoAfter(s, due, f)
<1> DEFINE Bad == { n \in Nat : ~ \E f : EchoAfter(s, n, f) }
<1>1. SUFFICES ASSUME Bad # {} PROVE FALSE
  OBVIOUS
<1>2. PICK m \in Bad : \A n \in Bad : m <= n
  <2>1. Bad \subseteq Nat
    OBVIOUS
  <2> HIDE DEF Bad
  <2> QED
    BY <1>1, <2>1, LeastNat
<1>3. m \in Nat
  OBVIOUS
<1>4. CASE m = 0
  <2> DEFINE f == [i \in 0 .. 0 |-> s]
  <2>1. f = [i \in 0 .. 0 |-> IF i = 0 THEN s ELSE EchoSent(f[i - 1], s.line[i])]
    OBVIOUS
  <2> HIDE DEF f
  <2>2. EchoAfter(s, 0, f)
    BY <2>1 DEF EchoAfter
  <2> QED
    BY <1>4, <2>2
<1>5. CASE m # 0
  <2> DEFINE n == m - 1
  <2>1. n \in Nat /\ ~ (m <= n) /\ n + 1 = m
    BY <1>3, <1>5
  <2>2. n \notin Bad
    BY <1>2, <2>1
  <2>3. PICK f : EchoAfter(s, n, f)
    BY <2>1, <2>2
  <2> HIDE DEF n
  <2> DEFINE g == [i \in 0 .. m |-> IF i = m THEN EchoSent(f[n], s.line[m]) ELSE f[i]]
             h == [i \in 0 .. m |-> IF i = 0 THEN s ELSE EchoSent(g[i - 1], s.line[i])]
  <2>4. \A i \in 0 .. n : f[i] = IF i = 0 THEN s ELSE EchoSent(f[i - 1], s.line[i])
    BY <2>3, Zenon DEF EchoAfter
  <2>5. ASSUME NEW i \in 0 .. m PROVE g[i] = h[i]
    <3>1. CASE i = m
      <4>1. i # 0 /\ i - 1 = n /\ n \in 0 .. m /\ n # m
        BY <1>3, <1>5, <2>1, <3>1
      <4>2. g[i] = EchoSent(f[n], s.line[m]) /\ g[n] = f[n]
        BY <3>1, <4>1
      <4>3. h[i] = EchoSent(g[n], s.line[i])
        BY <4>1
      <4> QED
        BY <3>1, <4>2, <4>3
    <3>2. CASE i # m
      <4>1. i \in 0 .. n /\ (i # 0 => i - 1 \in 0 .. m /\ i - 1 # m)
        BY <1>3, <2>1, <3>2
      <4>2. g[i] = f[i] /\ (i # 0 => g[i - 1] = f[i - 1])
        BY <3>2, <4>1
      <4>3. h[i] = IF i = 0 THEN s ELSE EchoSent(g[i - 1], s.line[i])
        OBVIOUS
      <4>4. f[i] = IF i = 0 THEN s ELSE EchoSent(f[i - 1], s.line[i])
        BY <2>4, <4>1
      <4> HIDE DEF g, h
      <4> QED
        BY <4>2, <4>3, <4>4
    <3> QED
      BY <3>1, <3>2
  <2>6. g = h
    BY <2>5
  <2> HIDE DEF g
  <2>7. EchoAfter(s, m, g)
    BY <2>6, Zenon DEF EchoAfter
  <2> QED
    BY <2>7
<1> QED
  BY <1>4, <1>5

LEMMA EchoSendIs ==
    ASSUME NEW s
    PROVE  Echo!SendEchoes(s) =
             [(CHOOSE f : EchoAfter(s, Queue!Due(s.line), f))[Queue!Due(s.line)]
                EXCEPT !.line = Queue!Staying(@)]
<1>1. \A S : Echo!Min(S) = Queue!Min(S)
  BY Zenon DEF Echo!Min, Queue!Min
<1>2. \A line : Echo!Due(line) = Queue!Due(line)
  BY <1>1, Zenon DEF Echo!Due, Queue!Due
<1>3. \A line : Echo!Staying(line) = Queue!Staying(line)
  BY <1>2, Zenon DEF Echo!Staying, Queue!Staying
<1>4. Echo!SendEchoes(s) =
        [(CHOOSE f : EchoAfter(s, Echo!Due(s.line), f))[Echo!Due(s.line)]
           EXCEPT !.line = Echo!Staying(@)]
  BY Zenon DEF Echo!SendEchoes, EchoAfter, EchoSent, EchoHeard
<1> QED
  BY <1>2, <1>3, <1>4, Zenon

\* The ith of the events that are due is sent: a note off leaves those that it
\* covered to its first echo, a note on sounds as its note off is to come.
LEMMA EchoHears ==
    ASSUME NEW s, EchoTyped(s), NEW i \in 1 .. Len(s.line), EchoSteady(s, i - 1, 0, 0),
           NEW e, e = s.line[i]
    PROVE  LET t == EchoHeard(s, e)
           IN  /\ e.velocity = 0 => EchoSteady(t, i, e.note, e.tag)
               /\ e.velocity = 1 => /\ EchoSteady(t, i, 0, 0)
                                    /\ EchoFar(t, i, e.note, e.tag) \/ EchoOff(t, i, e.note, e.tag)
<1> DEFINE t == EchoHeard(s, e)
<1>1. /\ t.num_taps = s.num_taps /\ t.transposition = s.transposition /\ t.delay = s.delay
      /\ t.held = s.held /\ t.line = s.line
      /\ t.sounding = IF e.velocity = 0 THEN s.sounding \ {e.note} ELSE s.sounding \cup {e.note}
  BY DEF EchoHeard, EchoTyped, EchoFields
<1> HIDE DEF t
<1>2. /\ Len(s.line) \in Nat /\ i \in Nat /\ i - 1 \in Nat /\ i - 1 < i
      /\ e.note \in Int /\ e.tag \in Nat
      /\ \A p \in 1 .. Len(s.line) : /\ i < p => i - 1 < p
                                     /\ i - 1 < p => i < p \/ p = i
                                     /\ s.line[p].tag \in Nat
  <2>1. Len(s.line) \in Nat /\ \A p \in 1 .. Len(s.line) : s.line[p].tag \in Nat
    BY EchoTypes
  <2>2. e.note \in Int /\ e.tag \in Nat
    BY EchoTypes
  <2> QED
    BY <2>1, <2>2
<1>3. EchoTags(t, i)
  BY <1>1, <1>2 DEF EchoSteady, EchoTags
<1>4. \A p : EchoNear(s, p) => EchoNear(t, p)
  BY <1>1, Zenon DEF EchoNear
<1>5. \A y, b, x, a : EchoVia(s, y, b, x, a) => EchoVia(t, y, b, x, a)
  BY <1>1, Zenon DEF EchoVia
<1>6. \A y : \A a \in Nat : ~ EchoVia(s, 0, 0, y, a)
  BY DEF EchoVia
<1>7. \A p \in 1 .. Len(s.line) : i - 1 < p /\ s.line[p].velocity = 1 =>
        EchoFar(s, i - 1, s.line[p].note, s.line[p].tag) \/ EchoNear(s, p)
  BY <1>2, <1>6, Zenon DEF EchoSteady, EchoRings
<1>8. \A x \in s.sounding :
        EchoRests(s, i - 1, x) \/ \E a \in Nat : EchoFar(s, i - 1, x, a)
  BY <1>6, Zenon DEF EchoSteady, EchoSounds
<1>9. CASE e.velocity = 0
  <2>1. \A y, b : EchoOff(s, i - 1, y, b) => EchoOff(t, i, y, b) \/ (y = e.note /\ b = e.tag)
    BY <1>1, <1>2, Zenon DEF EchoOff
  <2>2. \A x, a : EchoFar(s, i - 1, x, a) =>
          EchoFar(t, i, x, a) \/ EchoVia(t, e.note, e.tag, x, a)
    BY <1>5, <2>1, Zenon DEF EchoFar
  <2>3. \A x : EchoRests(s, i - 1, x) => EchoRests(t, i, x) \/ x = e.note
    BY <1>1, <1>2, Zenon DEF EchoRests
  <2>4. EchoRings(t, i, e.note, e.tag)
    BY <1>1, <1>2, <1>4, <1>7, <2>2, Zenon DEF EchoRings
  <2>5. \A x \in t.sounding : x \in s.sounding /\ x # e.note
    BY <1>1, <1>9
  <2>6. EchoSounds(t, i, e.note, e.tag)
    BY <1>8, <2>2, <2>3, <2>5, Zenon DEF EchoSounds
  <2> QED
    BY <1>3, <1>9, <2>4, <2>6 DEF EchoSteady, t
<1>10. CASE e.velocity = 1
  <2>9. e.velocity # 0
    BY <1>10
  <2>1. \A y, b : EchoOff(s, i - 1, y, b) => EchoOff(t, i, y, b)
    BY <1>1, <1>2, <2>9, Zenon DEF EchoOff
  <2>2. \A x, a : EchoFar(s, i - 1, x, a) => EchoFar(t, i, x, a)
    BY <1>5, <2>1, Zenon DEF EchoFar
  <2>3. \A x : EchoRests(s, i - 1, x) => EchoRests(t, i, x)
    BY <1>1, <1>2, <2>9, Zenon DEF EchoRests
  <2>4. EchoRings(t, i, 0, 0)
    BY <1>1, <1>2, <1>4, <1>7, <2>2, Zenon DEF EchoRings
  <2>5. EchoFar(s, i - 1, e.note, e.tag) \/ EchoNear(s, i)
    BY <1>2, <1>7, <1>10
  <2>6. EchoNear(s, i) => EchoOff(t, i, e.note, e.tag) /\ EchoRests(t, i, e.note)
    BY <1>1, Zenon DEF EchoNear, EchoOff, EchoRests
  <2>7. EchoFar(t, i, e.note, e.tag) \/ EchoOff(t, i, e.note, e.tag)
    BY <2>2, <2>5, <2>6
  <2>8. EchoSounds(t, i, 0, 0)
    <3>1. SUFFICES ASSUME NEW x \in t.sounding
                   PROVE  EchoRests(t, i, x) \/ \E a \in Nat : EchoFar(t, i, x, a)
      BY DEF EchoSounds
    <3>2. CASE x \in s.sounding
      BY <1>8, <2>2, <2>3, <3>2
    <3>3. CASE x = e.note
      BY <1>2, <2>2, <2>5, <2>6, <3>3
    <3> QED
      BY <1>1, <2>9, <3>2, <3>3
  <2> QED
    BY <1>3, <1>10, <2>4, <2>7, <2>8 DEF EchoSteady, t
<1> QED
  <2>1. e.velocity \in {0, 1}
    BY EchoTypes
  <2> QED
    BY <1>9, <1>10, <2>1 DEF t

\* After the first i of the due events were sent: they are still in the line, and
\* nothing was put before or among them.
EchoSending(s, t, i, due) ==
    /\ EchoTyped(t)
    /\ t.num_taps = s.num_taps /\ t.transposition = s.transposition /\ t.delay = s.delay
    /\ t.held = s.held /\ t.changed = s.changed
    /\ due <= Len(t.line)
    /\ \A p \in 1 .. due : t.line[p] = s.line[p]
    /\ \A p \in 1 .. Len(t.line) : due < p => t.line[p].wait > 0
    /\ s.changed = TRUE \/ t.dropped = TRUE \/ EchoSteady(t, i, 0, 0)

LEMMA EchoSendsOne ==
    ASSUME NEW s, EchoTyped(s), NEW due \in Nat, due <= Len(s.line),
           \A p \in 1 .. due : s.line[p].wait = 0,
           NEW i \in 1 .. due, NEW t, EchoSending(s, t, i - 1, due)
    PROVE  EchoSending(s, EchoSent(t, s.line[i]), i, due)
<1> DEFINE e == s.line[i]
           v == EchoHeard(t, e)
           u == EchoSent(t, e)
<1>1. /\ EchoTyped(t) /\ Len(t.line) \in Nat /\ due <= Len(t.line)
      /\ \A p \in 1 .. due : t.line[p] = s.line[p] /\ t.line[p].wait = 0
      /\ \A p \in 1 .. Len(t.line) : due < p => t.line[p].wait > 0
  BY EchoTypes DEF EchoSending
<1>2. i \in 1 .. Len(t.line) /\ e = t.line[i]
  BY <1>1
<1>3. e.note \in Int /\ e.velocity \in {0, 1} /\ e.tag \in Nat
  BY <1>1, <1>2, EchoTypes
<1>4. /\ DOMAIN v = EchoFields /\ v.num_taps = t.num_taps /\ v.transposition = t.transposition
      /\ v.delay = t.delay /\ v.held = t.held /\ v.line = t.line /\ v.changed = t.changed
      /\ v.dropped = t.dropped
  BY <1>1 DEF EchoHeard, EchoTyped, EchoFields
<1>5. u = Echo!ScheduleEchoes(v, e.note, e.velocity, e.tag)
  BY DEF EchoSent
<1>6. /\ t.changed = s.changed
      /\ s.changed = TRUE \/ t.dropped = TRUE \/ EchoSteady(t, i - 1, 0, 0)
  BY DEF EchoSending
<1>7. EchoSteady(t, i - 1, 0, 0) =>
        /\ e.velocity = 0 => EchoSteady(v, i, e.note, e.tag)
        /\ e.velocity = 1 => /\ EchoSteady(v, i, 0, 0)
                             /\ EchoFar(v, i, e.note, e.tag) \/ EchoOff(v, i, e.note, e.tag)
  BY <1>1, <1>2, EchoHears
<1>8. EchoSteady(t, i - 1, 0, 0) => e.tag < t.num_taps
  BY <1>1, <1>2 DEF EchoSteady, EchoTags
<1> HIDE DEF e, v
<1>9. EchoTyped(v)
  BY <1>1, <1>4 DEF EchoTyped
<1>10. EchoTyped(u) /\ EchoKeeps(v, u) /\ EchoScheduled(v, u, e.note, e.velocity, e.tag)
  BY <1>3, <1>5, <1>9, EchoSchedules
<1>11. EchoSteady(t, i - 1, 0, 0) /\ u.dropped # TRUE => EchoSteady(u, i, 0, 0)
  <2>1. SUFFICES ASSUME EchoSteady(t, i - 1, 0, 0), u.dropped # TRUE
                 PROVE  EchoSteady(u, i, 0, 0)
    OBVIOUS
  <2>2. i \in 0 .. Len(v.line) /\ \A p \in 1 .. i : v.line[p].wait = 0
    BY <1>1, <1>2, <1>4
  <2>3. e.tag \in 0 .. v.num_taps
    BY <1>1, <1>3, <1>4, <1>8, <2>1, EchoTypes
  <2>4. /\ e.velocity = 0 => EchoSteady(v, i, e.note, e.tag)
        /\ e.velocity = 1 => /\ EchoSteady(v, i, 0, 0)
                             /\ EchoFar(v, i, e.note, e.tag) \/ EchoOff(v, i, e.note, e.tag)
    BY <1>7, <2>1
  <2>5. Echo!ScheduleEchoes(v, e.note, e.velocity, e.tag).dropped # TRUE
    BY <1>5, <2>1
  <2>6. EchoSteady(Echo!ScheduleEchoes(v, e.note, e.velocity, e.tag), i, 0, 0)
    BY <1>3, <1>9, <2>2, <2>3, <2>4, <2>5, EchoHandles
  <2> QED
    BY <1>5, <2>6
<1> HIDE DEF u
<1>12. \/ u = v
       \/ u.dropped = TRUE /\ u.line = t.line
       \/ \E event \in EchoEvent :
            event.wait > 0 /\ u.line = Queue!Inserted(t.line, event) /\ u.dropped = t.dropped
  BY <1>4, <1>10 DEF EchoScheduled
<1>13. /\ due <= Len(u.line)
       /\ \A p \in 1 .. due : u.line[p] = s.line[p]
       /\ \A p \in 1 .. Len(u.line) : due < p => u.line[p].wait > 0
  <2>1. CASE u.line = t.line
    BY <1>1, <2>1
  <2>2. ASSUME NEW event \in EchoEvent, event.wait > 0, u.line = Queue!Inserted(t.line, event)
        PROVE  /\ due <= Len(u.line)
               /\ \A p \in 1 .. due : u.line[p] = s.line[p]
               /\ \A p \in 1 .. Len(u.line) : due < p => u.line[p].wait > 0
    <3>1. due \in 0 .. Len(v.line) /\ \A p \in 1 .. due : v.line[p].wait = 0
      BY <1>1, <1>4
    <3>2. u.line = Queue!Inserted(v.line, event)
      BY <1>4, <2>2
    <3>3. /\ \E q : EchoPlaced(v, u, due, q, event)
          /\ \A p \in 1 .. due : u.line[p] = v.line[p]
      BY <1>9, <2>2, <3>1, <3>2, EchoPlaces
    <3>4. PICK q : EchoPlaced(v, u, due, q, event)
      BY <3>3
    <3>5. EchoMoved(v, u, due, q)
      BY <1>9, <1>10, <3>4, EchoMoves
    <3>6. \A r \in 1 .. Len(u.line) : due < r => r = q \/
            \E p \in 1 .. Len(t.line) : due < p /\ u.line[r] = t.line[p]
      BY <1>4, <3>5, Zenon DEF EchoMoved
    <3>7. Len(u.line) = Len(t.line) + 1 /\ u.line[q] = event
      BY <1>4, <3>4 DEF EchoPlaced
    <3>8. ASSUME NEW r \in 1 .. Len(u.line), due < r PROVE u.line[r].wait > 0
      BY <1>1, <2>2, <3>6, <3>7, <3>8
    <3>9. \A p \in 1 .. due : u.line[p] = s.line[p]
      BY <1>1, <1>4, <3>3
    <3>10. due <= Len(u.line)
      BY <1>1, <3>7
    <3> QED
      BY <3>8, <3>9, <3>10
  <2> QED
    BY <1>4, <1>12, <2>1, <2>2
<1>14. u.dropped # TRUE => t.dropped # TRUE
  BY <1>4, <1>12
<1>15. /\ u.num_taps = s.num_taps /\ u.transposition = s.transposition /\ u.delay = s.delay
       /\ u.held = s.held /\ u.changed = s.changed
  BY <1>4, <1>10 DEF EchoKeeps, EchoSending
<1>16. s.changed = TRUE \/ u.dropped = TRUE \/ EchoSteady(u, i, 0, 0)
  BY <1>6, <1>11, <1>14
<1>17. EchoSending(s, u, i, due)
  BY <1>10, <1>13, <1>15, <1>16 DEF EchoSending
<1> QED
  BY <1>17 DEF u, e

LEMMA EchoSendsAll ==
    ASSUME NEW s, EchoOk(s), NEW due \in Nat, due <= Len(s.line),
           \A p \in 1 .. due : s.line[p].wait = 0,
           \A p \in 1 .. Len(s.line) : due < p => s.line[p].wait > 0,
           NEW f, EchoAfter(s, due, f)
    PROVE  EchoSending(s, f[due], due, due)
<1> DEFINE Bad == { i \in 0 .. due : ~ EchoSending(s, f[i], i, due) }
<1>1. \A i \in 0 .. due : f[i] = IF i = 0 THEN s ELSE EchoSent(f[i - 1], s.line[i])
  BY Zenon DEF EchoAfter
<1>2. ASSUME Bad # {} PROVE FALSE
  <2>1. PICK m \in Bad : \A n \in Bad : m <= n
    <3>1. Bad \subseteq Nat
      OBVIOUS
    <3> HIDE DEF Bad
    <3> QED
      BY <1>2, <3>1, LeastNat
  <2>2. m \in 0 .. due /\ ~ EchoSending(s, f[m], m, due)
    OBVIOUS
  <2>3. CASE m = 0
    <3>1. f[0] = s
      BY <1>1
    <3>2. EchoSending(s, s, 0, due)
      BY DEF EchoOk, EchoSending
    <3> QED
      BY <2>2, <2>3, <3>1, <3>2
  <2>4. CASE m # 0
    <3>1. m - 1 \in 0 .. due /\ ~ (m <= m - 1) /\ m \in 1 .. due
      BY <2>2, <2>4
    <3>2. m - 1 \notin Bad
      BY <2>1, <3>1
    <3>3. EchoSending(s, f[m - 1], m - 1, due)
      BY <3>1, <3>2
    <3>4. EchoTyped(s)
      BY DEF EchoOk
    <3>5. EchoSending(s, EchoSent(f[m - 1], s.line[m]), m, due)
      BY <3>1, <3>3, <3>4, EchoSendsOne
    <3> QED
      BY <1>1, <2>2, <2>4, <3>5
  <2> QED
    BY <2>3, <2>4
<1>3. due \notin Bad /\ due \in 0 .. due
  BY <1>2
<1> QED
  BY <1>3

\* The tick takes the events that were sent.
LEMMA EchoTicksAway ==
    ASSUME NEW s, EchoTyped(s), NEW due \in Nat, due <= Len(s.line), due = Queue!Due(s.line)
    PROVE  LET t == [s EXCEPT !.line = Queue!Staying(@)]
           IN  EchoTyped(t) /\ (EchoSteady(s, due, 0, 0) => EchoSteady(t, 0, 0, 0))
<1> DEFINE t == [s EXCEPT !.line = Queue!Staying(@)]
<1>1. /\ DOMAIN t = EchoFields /\ t.num_taps = s.num_taps /\ t.transposition = s.transposition
      /\ t.delay = s.delay /\ t.held = s.held /\ t.sounding = s.sounding
      /\ t.line = Queue!Staying(s.line)
  BY DEF EchoTyped, EchoFields
<1> HIDE DEF t
<1>2. /\ t.line \in Seq(EchoEvent) /\ Lined(t.line) /\ Len(t.line) = Len(s.line) - due
      /\ \A p \in 1 .. Len(t.line) : /\ p + due \in 1 .. Len(s.line)
                                     /\ t.line[p] = [s.line[p + due] EXCEPT !.wait = @ - 1]
  <2>1. s.line \in Seq(EchoEvent) /\ Lined(s.line)
    BY DEF EchoTyped
  <2>2. LET left == Queue!Staying(s.line)
        IN  /\ left \in Seq(EchoEvent) /\ Lined(left)
            /\ Len(left) = Len(s.line) - Queue!Due(s.line)
            /\ \A p \in 1 .. Len(left) :
                 /\ p + Queue!Due(s.line) \in 1 .. Len(s.line)
                 /\ left[p] = [s.line[p + Queue!Due(s.line)] EXCEPT !.wait = @ - 1]
    BY <2>1, EchoTicks, QueueStaying
  <2> QED
    BY <1>1, <2>2, Zenon
<1>3. EchoTyped(t)
  BY <1>1, <1>2 DEF EchoTyped
<1>4. Len(s.line) \in Nat /\ Len(t.line) \in Nat
  BY <1>3, EchoTypes
<1>5. ASSUME NEW p \in 1 .. Len(t.line)
      PROVE  /\ p + due \in 1 .. Len(s.line) /\ due < p + due
             /\ t.line[p].note = s.line[p + due].note
             /\ t.line[p].velocity = s.line[p + due].velocity
             /\ t.line[p].tag = s.line[p + due].tag /\ t.line[p].tag \in Nat
             /\ t.line[p].wait \in Nat /\ s.line[p + due].wait \in Nat
             /\ t.line[p].wait <= s.line[p + due].wait
  <2> DEFINE e == s.line[p + due]
  <2>1. p + due \in 1 .. Len(s.line) /\ due < p + due /\ t.line[p] = [e EXCEPT !.wait = @ - 1]
    BY <1>2, <1>4, SMTT(30)
  <2>2. e \in EchoEvent
    BY <2>1, EchoTypes
  <2>3. t.line[p].tag \in Nat /\ t.line[p].wait \in Nat
    BY <1>3, EchoTypes
  <2> HIDE DEF e
  <2>4. /\ t.line[p].note = e.note /\ t.line[p].velocity = e.velocity /\ t.line[p].tag = e.tag
        /\ t.line[p].wait = e.wait - 1 /\ e.wait \in Nat
    BY <2>1, <2>2 DEF EchoEvent
  <2>5. t.line[p].wait <= e.wait
    BY <2>4
  <2> QED
    BY <2>1, <2>3, <2>4, <2>5 DEF e
<1>6. \A r \in 1 .. Len(s.line) : due < r => \E p \in 1 .. Len(t.line) : r = p + due
  <2>1. ASSUME NEW r \in 1 .. Len(s.line), due < r PROVE \E p \in 1 .. Len(t.line) : r = p + due
    <3>1. r - due \in 1 .. Len(t.line) /\ r = (r - due) + due
      BY <1>2, <1>4, <2>1
    <3> QED
      BY <3>1
  <2> QED
    BY <2>1
<1>7. ASSUME NEW y, NEW b, EchoOff(s, due, y, b) PROVE EchoOff(t, 0, y, b)
  <2>1. CASE y \in s.held /\ b = s.num_taps
    BY <1>1, <2>1 DEF EchoOff
  <2>2. ASSUME NEW r \in 1 .. Len(s.line), due < r, s.line[r].velocity = 0,
               s.line[r].note = y, s.line[r].tag = b
        PROVE  EchoOff(t, 0, y, b)
    <3>1. PICK p \in 1 .. Len(t.line) : r = p + due
      BY <1>6, <2>2
    <3>2. 0 < p
      BY <1>4
    <3>3. /\ t.line[p].note = s.line[r].note /\ t.line[p].velocity = s.line[r].velocity
          /\ t.line[p].tag = s.line[r].tag
      BY <1>5, <3>1
    <3>4. t.line[p].velocity = 0 /\ t.line[p].note = y /\ t.line[p].tag = b
      BY <2>2, <3>3, Zenon
    <3> QED
      BY <3>2, <3>4, Zenon DEF EchoOff
  <2> QED
    BY <1>7, <2>1, <2>2 DEF EchoOff
<1>8. \A x, a : EchoFar(s, due, x, a) => EchoFar(t, 0, x, a)
  <2>1. \A y, b, x, a : EchoVia(s, y, b, x, a) => EchoVia(t, y, b, x, a)
    BY <1>1, Zenon DEF EchoVia
  <2> QED
    BY <1>7, <2>1, Zenon DEF EchoFar
<1>9. ASSUME NEW p \in 1 .. Len(t.line), EchoNear(s, p + due) PROVE EchoNear(t, p)
  <2>1. PICK r \in 1 .. Len(s.line) :
          /\ p + due < r /\ s.line[r].velocity = 0
          /\ s.line[r].note = s.line[p + due].note /\ s.line[r].tag = s.line[p + due].tag
    BY <1>9 DEF EchoNear
  <2>2. PICK o \in 1 .. Len(t.line) : r = o + due
    BY <1>4, <1>6, <2>1
  <2>3. p < o
    BY <1>4, <2>1, <2>2
  <2> QED
    BY <1>5, <2>1, <2>2, <2>3, SMTT(30) DEF EchoNear
<1>10. ASSUME NEW x, EchoRests(s, due, x) PROVE EchoRests(t, 0, x)
  <2>1. PICK r \in 1 .. Len(s.line) : due < r /\ s.line[r].velocity = 0 /\ s.line[r].note = x
    BY <1>10 DEF EchoRests
  <2>2. PICK p \in 1 .. Len(t.line) : r = p + due
    BY <1>6, <2>1
  <2>3. 0 < p /\ t.line[p].velocity = 0 /\ t.line[p].note = x
    BY <1>4, <1>5, <2>1, <2>2, SMTT(30)
  <2> QED
    BY <2>3 DEF EchoRests
<1>11. ASSUME EchoSteady(s, due, 0, 0) PROVE EchoSteady(t, 0, 0, 0)
  <2>1. EchoTags(t, 0)
    <3>1. SUFFICES ASSUME NEW p \in 1 .. Len(t.line)
                   PROVE  /\ t.line[p].tag < t.num_taps
                          /\ t.line[p].wait <= t.delay[t.num_taps - t.line[p].tag - 1]
      BY DEF EchoTags
    <3> DEFINE d == s.delay[s.num_taps - s.line[p + due].tag - 1]
    <3>2. s.line[p + due].tag < s.num_taps /\ s.line[p + due].wait <= d
      BY <1>5, <1>11 DEF EchoSteady, EchoTags
    <3>3. d \in Nat
      <4>1. s.num_taps - s.line[p + due].tag - 1 \in 0 .. s.num_taps
        BY <1>5, <3>2, EchoTypes
      <4> QED
        BY <4>1, EchoTypes
    <3>4. t.delay[t.num_taps - t.line[p].tag - 1] = d
      BY <1>1, <1>5
    <3> HIDE DEF d
    <3> QED
      BY <1>1, <1>5, <3>2, <3>3, <3>4, SMTT(30)
  <2>2. \A x : \A a \in Nat : ~ EchoVia(s, 0, 0, x, a)
    BY DEF EchoVia
  <2>3. EchoRings(t, 0, 0, 0)
    <3>1. SUFFICES ASSUME NEW p \in 1 .. Len(t.line), t.line[p].velocity = 1
                   PROVE  EchoFar(t, 0, t.line[p].note, t.line[p].tag) \/ EchoNear(t, p)
      BY DEF EchoRings
    <3>2. EchoFar(s, due, s.line[p + due].note, s.line[p + due].tag) \/ EchoNear(s, p + due)
      <4> DEFINE r == p + due
      <4>1. r \in 1 .. Len(s.line) /\ due < r /\ s.line[r].velocity = 1 /\ s.line[r].tag \in Nat
        BY <1>5, <3>1
      <4> HIDE DEF r
      <4>2. EchoFar(s, due, s.line[r].note, s.line[r].tag) \/ EchoNear(s, r)
        BY <1>11, <2>2, <4>1, Zenon DEF EchoSteady, EchoRings
      <4> QED
        BY <4>2 DEF r
    <3> QED
      BY <1>5, <1>8, <1>9, <3>2
  <2>4. EchoSounds(t, 0, 0, 0)
    <3>1. SUFFICES ASSUME NEW x \in t.sounding
                   PROVE  EchoRests(t, 0, x) \/ \E a \in Nat : EchoFar(t, 0, x, a)
      BY DEF EchoSounds
    <3>2. EchoRests(s, due, x) \/ \E a \in Nat : EchoFar(s, due, x, a)
      BY <1>1, <1>11, <2>2, <3>1, Zenon DEF EchoSteady, EchoSounds
    <3> QED
      BY <1>8, <1>10, <3>2
  <2> QED
    BY <2>1, <2>3, <2>4 DEF EchoSteady
<1> QED
  BY <1>3, <1>11 DEF t

LEMMA EchoSends ==
    ASSUME NEW s, EchoOk(s)
    PROVE  EchoOk(Echo!SendEchoes(s))
<1> DEFINE due == Queue!Due(s.line)
           f   == CHOOSE g : EchoAfter(s, due, g)
           u   == f[due]
           t   == [u EXCEPT !.line = Queue!Staying(@)]
<1>1. /\ due \in Nat /\ due <= Len(s.line)
      /\ \A p \in 1 .. due : s.line[p].wait = 0
      /\ \A p \in 1 .. Len(s.line) : due < p => s.line[p].wait > 0
  <2>1. s.line \in Seq(EchoEvent) /\ Lined(s.line) /\ Len(s.line) \in Nat
    BY DEF EchoOk, EchoTyped
  <2>2. /\ due \in 0 .. Len(s.line)
        /\ \A p \in 1 .. Len(s.line) : /\ p <= due => s.line[p].wait = 0
                                       /\ p > due => s.line[p].wait > 0
    BY <2>1, EchoTicks, QueueDue
  <2> HIDE DEF due
  <2> QED
    BY <2>1, <2>2
<1>2. Echo!SendEchoes(s) = t
  BY EchoSendIs
<1> HIDE DEF due
<1>3. EchoAfter(s, due, f)
  BY <1>1, EchoAfterExists
<1> HIDE DEF f
<1>4. EchoSending(s, u, due, due)
  BY <1>1, <1>3, EchoSendsAll
<1> HIDE DEF u
<1>5. EchoTyped(u) /\ due <= Len(u.line) /\ Len(u.line) \in Nat
  BY <1>4, EchoTypes DEF EchoSending
<1>6. due = Queue!Due(u.line)
  <2> DEFINE d == Queue!Due(u.line)
  <2>1. \A p \in 1 .. due : u.line[p].wait = 0
    BY <1>1, <1>4 DEF EchoSending
  <2>2. u.line \in Seq(EchoEvent) /\ Lined(u.line)
    BY <1>5 DEF EchoTyped
  <2>3. /\ d \in 0 .. Len(u.line)
        /\ \A p \in 1 .. Len(u.line) : /\ p <= d => u.line[p].wait = 0
                                       /\ p > d => u.line[p].wait > 0
    BY <2>2, EchoTicks, QueueDue
  <2>4. \A p \in 1 .. Len(u.line) : due < p => u.line[p].wait > 0
    BY <1>4 DEF EchoSending
  <2> HIDE DEF d
  <2>5. ASSUME d < due PROVE FALSE
    <3>1. d + 1 \in 1 .. due /\ d + 1 \in 1 .. Len(u.line) /\ d + 1 > d
      BY <1>1, <1>5, <2>3, <2>5
    <3> QED
      BY <2>1, <2>3, <3>1
  <2>6. ASSUME due < d PROVE FALSE
    <3>1. due + 1 \in 1 .. Len(u.line) /\ due + 1 <= d /\ due < due + 1
      BY <1>1, <1>5, <2>3, <2>6
    <3> QED
      BY <2>3, <2>4, <3>1
  <2>7. d = due
    BY <1>1, <1>5, <2>3, <2>5, <2>6
  <2> QED
    BY <2>7 DEF d
<1>7. EchoTyped(t) /\ (EchoSteady(u, due, 0, 0) => EchoSteady(t, 0, 0, 0))
  BY <1>1, <1>5, <1>6, EchoTicksAway
<1>8. t.changed = u.changed /\ t.dropped = u.dropped /\ u.changed = s.changed
  BY <1>4, <1>5 DEF EchoTyped, EchoFields, EchoSending
<1> HIDE DEF t
<1>9. EchoOk(t)
  BY <1>4, <1>7, <1>8 DEF EchoOk, EchoSending
<1> QED
  BY <1>2, <1>9

-----------------------------------------------------------------------------
(* The delay: its handlers.                                                *)

\* With no key down and nothing in the line, no note sounds.
LEMMA EchoIdle ==
    ASSUME NEW s, EchoTyped(s), s.held = {}, s.line = <<>>
    PROVE  /\ s.sounding = {} => EchoSteady(s, 0, 0, 0)
           /\ EchoSteady(s, 0, 0, 0) => s.sounding = {}
<1>1. \A p : p \notin 1 .. Len(s.line)
  OBVIOUS
<1>2. \A x : \A a \in Nat : ~ EchoVia(s, 0, 0, x, a)
  BY DEF EchoVia
<1>3. \A y, b : ~ EchoOff(s, 0, y, b)
  BY <1>1, Zenon DEF EchoOff
<1>4. \A x, a : ~ EchoFar(s, 0, x, a)
  BY <1>3, Zenon DEF EchoFar
<1>5. \A x : ~ EchoRests(s, 0, x)
  BY <1>1, Zenon DEF EchoRests
<1>6. EchoTags(s, 0) /\ EchoRings(s, 0, 0, 0)
  BY <1>1, Zenon DEF EchoTags, EchoRings
<1>7. EchoSounds(s, 0, 0, 0) => s.sounding = {}
  BY <1>2, <1>4, <1>5, Zenon DEF EchoSounds
<1>8. s.sounding = {} => EchoSounds(s, 0, 0, 0)
  BY Zenon DEF EchoSounds
<1> QED
  BY <1>6, <1>7, <1>8 DEF EchoSteady

LEMMA EchoInit == Echo!Init => EchoOk(state)
<1> SUFFICES ASSUME Echo!Init PROVE EchoOk(state)
  OBVIOUS
<1>1. /\ DOMAIN state = EchoFields /\ state.num_taps \in EchoParams.Taps
      /\ state.transposition \in EchoParams.Transpositions /\ state.delay \in EchoParams.EchoDelays
      /\ state.line = <<>> /\ state.held = {} /\ state.sounding = {}
  BY DEF Echo!Init, EchoFields
<1>2. state.line \in Seq(EchoEvent) /\ Lined(state.line)
  BY <1>1 DEF Lined
<1>3. EchoTyped(state)
  BY <1>1, <1>2 DEF EchoTyped
<1> QED
  BY <1>1, <1>3, EchoIdle DEF EchoOk

LEMMA EchoKeyDown ==
    ASSUME EchoOk(state), NEW note \in EchoParams.Note, Echo!KeyDown(note)
    PROVE  EchoOk(state')
<1> DEFINE s == [state EXCEPT !.held = @ \cup {note}]
           u == Echo!ScheduleEchoes(state, note, 1, state.num_taps)
           w == Echo!ScheduleEchoes(s, note, 1, state.num_taps)
<1>1. EchoTyped(state) /\ note \in Int /\ state.num_taps \in Nat
  BY EchoTypes, EchoAssumption DEF EchoOk
<1>2. /\ DOMAIN s = EchoFields /\ s.num_taps = state.num_taps /\ s.line = state.line
      /\ s.transposition = state.transposition /\ s.delay = state.delay
      /\ s.held = state.held \cup {note} /\ s.sounding = state.sounding
      /\ s.changed = state.changed /\ s.dropped = state.dropped
  BY <1>1 DEF EchoTyped, EchoFields
<1>3. EchoTyped(s)
  BY <1>1, <1>2 DEF EchoTyped
<1>4. state' = w
  <2>1. state' = [u EXCEPT !.held = @ \cup {note}]
    BY DEF Echo!KeyDown
  <2> QED
    BY <1>1, <1>2, <2>1 DEF Echo!ScheduleEchoes, EchoTyped, EchoFields
<1> HIDE DEF s, u
<1>5. EchoTyped(w) /\ EchoKeeps(s, w) /\ EchoScheduled(s, w, note, 1, state.num_taps)
  BY <1>1, <1>3, EchoSchedules
<1>6. w.dropped # TRUE => s.dropped # TRUE
  BY <1>5 DEF EchoScheduled
<1>7. ASSUME EchoSteady(state, 0, 0, 0), w.dropped # TRUE PROVE EchoSteady(w, 0, 0, 0)
  <2>1. EchoSteady(s, 0, 0, 0)
    <3>1. \A y, b : EchoOff(state, 0, y, b) => EchoOff(s, 0, y, b)
      BY <1>2, Zenon DEF EchoOff
    <3>2. \A x, a : EchoFar(state, 0, x, a) => EchoFar(s, 0, x, a)
      BY <1>2, <3>1, Zenon DEF EchoFar, EchoVia
    <3>3. EchoTags(s, 0)
      BY <1>2, <1>7, Zenon DEF EchoSteady, EchoTags
    <3>4. EchoRings(s, 0, 0, 0)
      BY <1>2, <1>7, <3>2, Zenon DEF EchoSteady, EchoRings, EchoNear, EchoVia
    <3>5. EchoSounds(s, 0, 0, 0)
      BY <1>2, <1>7, <3>2, Zenon DEF EchoSteady, EchoSounds, EchoRests, EchoVia
    <3> QED
      BY <3>3, <3>4, <3>5 DEF EchoSteady
  <2>2. EchoOff(s, 0, note, state.num_taps)
    BY <1>2 DEF EchoOff
  <2>3. state.num_taps \in 0 .. s.num_taps /\ 0 \in 0 .. Len(s.line)
    BY <1>1, <1>2, <1>3, EchoTypes
  <2>4. \A p \in 1 .. 0 : s.line[p].wait = 0
    OBVIOUS
  <2>5. /\ 1 = 0 => EchoSteady(s, 0, note, state.num_taps)
        /\ 1 = 1 => /\ EchoSteady(s, 0, 0, 0)
                    /\ EchoFar(s, 0, note, state.num_taps) \/ EchoOff(s, 0, note, state.num_taps)
    BY <2>1, <2>2
  <2> QED
    BY <1>1, <1>3, <1>7, <2>3, <2>4, <2>5, EchoHandles
<1> HIDE DEF w
<1>8. w.changed = state.changed
  BY <1>2, <1>5 DEF EchoKeeps
<1> QED
  BY <1>2, <1>4, <1>5, <1>6, <1>7, <1>8 DEF EchoOk

LEMMA EchoKeyUp ==
    ASSUME EchoOk(state), NEW note \in EchoParams.Note, Echo!KeyUp(note)
    PROVE  EchoOk(state')
<1> DEFINE s == [state EXCEPT !.held = @ \ {note}]
           u == Echo!ScheduleEchoes(state, note, 0, state.num_taps)
           w == Echo!ScheduleEchoes(s, note, 0, state.num_taps)
<1>1. EchoTyped(state) /\ note \in Int /\ state.num_taps \in Nat
  BY EchoTypes, EchoAssumption DEF EchoOk
<1>2. /\ DOMAIN s = EchoFields /\ s.num_taps = state.num_taps /\ s.line = state.line
      /\ s.transposition = state.transposition /\ s.delay = state.delay
      /\ s.held = state.held \ {note} /\ s.sounding = state.sounding
      /\ s.changed = state.changed /\ s.dropped = state.dropped
  BY <1>1 DEF EchoTyped, EchoFields
<1>3. EchoTyped(s)
  BY <1>1, <1>2 DEF EchoTyped
<1>4. state' = w
  <2>1. state' = [u EXCEPT !.held = @ \ {note}]
    BY DEF Echo!KeyUp
  <2> QED
    BY <1>1, <1>2, <2>1 DEF Echo!ScheduleEchoes, EchoTyped, EchoFields
<1> HIDE DEF s, u
<1>5. EchoTyped(w) /\ EchoKeeps(s, w) /\ EchoScheduled(s, w, note, 0, state.num_taps)
  BY <1>1, <1>3, EchoSchedules
<1>6. w.dropped # TRUE => s.dropped # TRUE
  BY <1>5 DEF EchoScheduled
<1>7. ASSUME EchoSteady(state, 0, 0, 0), w.dropped # TRUE PROVE EchoSteady(w, 0, 0, 0)
  <2> DEFINE n == state.num_taps
  <2>1. EchoSteady(s, 0, note, n)
    <3>1. \A y, b : EchoOff(state, 0, y, b) => EchoOff(s, 0, y, b) \/ (y = note /\ b = n)
      BY <1>2, Zenon DEF EchoOff
    <3>2. \A x, a : EchoFar(state, 0, x, a) => EchoFar(s, 0, x, a) \/ EchoVia(s, note, n, x, a)
      BY <1>2, <3>1, Zenon DEF EchoFar, EchoVia
    <3>3. EchoTags(s, 0)
      BY <1>2, <1>7, Zenon DEF EchoSteady, EchoTags
    <3>4. \A y : \A a \in Nat : ~ EchoVia(state, 0, 0, y, a)
      BY DEF EchoVia
    <3>5. \A p \in 1 .. Len(state.line) : state.line[p].tag \in Nat
      BY <1>1, EchoTypes
    <3>6. EchoRings(s, 0, note, n)
      BY <1>2, <1>7, <3>2, <3>4, <3>5, ZenonT(40) DEF EchoSteady, EchoRings, EchoNear
    <3>7. EchoSounds(s, 0, note, n)
      BY <1>2, <1>7, <3>2, <3>4, Zenon DEF EchoSteady, EchoSounds, EchoRests
    <3> QED
      BY <3>3, <3>6, <3>7 DEF EchoSteady
  <2>2. n \in 0 .. s.num_taps /\ 0 \in 0 .. Len(s.line)
    BY <1>1, <1>2, <1>3, EchoTypes
  <2>3. \A p \in 1 .. 0 : s.line[p].wait = 0
    OBVIOUS
  <2>4. /\ 0 = 0 => EchoSteady(s, 0, note, n)
        /\ 0 = 1 => EchoSteady(s, 0, 0, 0) /\ (EchoFar(s, 0, note, n) \/ EchoOff(s, 0, note, n))
    BY <2>1
  <2> HIDE DEF n
  <2>5. w.dropped # TRUE /\ w = Echo!ScheduleEchoes(s, note, 0, n)
    BY <1>7 DEF n
  <2> QED
    BY <1>1, <1>3, <2>2, <2>3, <2>4, <2>5, EchoHandles
<1> HIDE DEF w
<1>8. w.changed = state.changed
  BY <1>2, <1>5 DEF EchoKeeps
<1> QED
  BY <1>2, <1>4, <1>5, <1>6, <1>7, <1>8 DEF EchoOk

LEMMA EchoNext == EchoOk(state) /\ Echo!Next => EchoOk(state')
<1> SUFFICES ASSUME EchoOk(state), Echo!Next PROVE EchoOk(state')
  OBVIOUS
<1>1. EchoTyped(state) /\ DOMAIN state = EchoFields
  BY DEF EchoOk, EchoTyped
<1>2. ASSUME NEW note \in EchoParams.Note, Echo!KeyDown(note) \/ Echo!KeyUp(note)
      PROVE  EchoOk(state')
  BY <1>2, EchoKeyDown, EchoKeyUp
<1>3. ASSUME NEW clk_mode, Echo!Clock(clk_mode) PROVE EchoOk(state')
  <2>1. state' = Echo!SendEchoes(state)
    BY <1>3 DEF Echo!Clock
  <2> QED
    BY <2>1, EchoSends
<1>4. ASSUME \/ Echo!StartMessage \/ Echo!StopMessage \/ \E clk_mode : Echo!SetClockMode(clk_mode)
      PROVE  EchoOk(state')
  <2>1. /\ DOMAIN state' = EchoFields /\ state'.num_taps = state.num_taps
        /\ state'.line = state.line /\ state'.transposition = state.transposition
        /\ state'.delay = state.delay /\ state'.held = state.held
        /\ state'.sounding = state.sounding /\ state'.changed = state.changed
        /\ state'.dropped = state.dropped
    BY <1>1, <1>4 DEF Echo!StartMessage, Echo!StopMessage, Echo!SetClockMode, EchoFields
  <2>2. EchoTyped(state')
    BY <1>1, <2>1 DEF EchoTyped
  <2>3. EchoSteady(state, 0, 0, 0) => EchoSteady(state', 0, 0, 0)
    <3>1. EchoTags(state, 0) => EchoTags(state', 0)
      BY <2>1, Zenon DEF EchoTags
    <3>2. EchoRings(state, 0, 0, 0) => EchoRings(state', 0, 0, 0)
      <4>1. /\ \A x, a : EchoFar(state, 0, x, a) => EchoFar(state', 0, x, a)
            /\ \A y, b, x, a : EchoVia(state, y, b, x, a) => EchoVia(state', y, b, x, a)
        BY <2>1, Zenon DEF EchoFar, EchoOff, EchoVia
      <4>2. \A p : EchoNear(state, p) => EchoNear(state', p)
        BY <2>1, Zenon DEF EchoNear
      <4> QED
        BY <2>1, <4>1, <4>2, ZenonT(30) DEF EchoRings
    <3>3. EchoSounds(state, 0, 0, 0) => EchoSounds(state', 0, 0, 0)
      BY <2>1, Zenon DEF EchoSounds, EchoFar, EchoOff, EchoVia, EchoRests
    <3> QED
      BY <3>1, <3>2, <3>3 DEF EchoSteady
  <2> QED
    BY <2>1, <2>2, <2>3 DEF EchoOk
<1>5. ASSUME NEW num_taps \in EchoParams.Taps, NEW transposition \in EchoParams.Transpositions,
             NEW delay \in EchoParams.EchoDelays,
             Echo!SetEchoes(num_taps, transposition, delay)
      PROVE  EchoOk(state')
  <2> DEFINE idle == state.held = {} /\ state.line = <<>>
  <2>1. /\ DOMAIN state' = EchoFields /\ state'.num_taps = num_taps
        /\ state'.transposition = transposition /\ state'.delay = delay
        /\ state'.line = state.line /\ state'.held = state.held
        /\ state'.sounding = state.sounding /\ state'.dropped = state.dropped
        /\ state'.changed = (state.changed \/ ~ idle)
    BY <1>1, <1>5 DEF Echo!SetEchoes, EchoFields
  <2>2. EchoTyped(state')
    BY <1>1, <2>1 DEF EchoTyped
  <2>3. CASE ~ idle
    BY <2>1, <2>2, <2>3 DEF EchoOk
  <2>4. CASE idle
    <3>1. EchoSteady(state, 0, 0, 0) => EchoSteady(state', 0, 0, 0)
      BY <1>1, <2>1, <2>2, <2>4, EchoIdle
    <3>2. state.changed = TRUE => state'.changed = TRUE
      BY <2>1
    <3> QED
      BY <2>1, <2>2, <3>1, <3>2 DEF EchoOk
  <2> QED
    BY <2>3, <2>4
<1> QED
  BY <1>2, <1>3, <1>4, <1>5 DEF Echo!Next

LEMMA EchoOwed == EchoOk(state) => Echo!SoundingIsOwed
<1> SUFFICES ASSUME EchoTyped(state), EchoSteady(state, 0, 0, 0), NEW x \in state.sounding
             PROVE  x \in Echo!Owed(state)
  BY DEF EchoOk, Echo!SoundingIsOwed
<1> DEFINE line == state.line
           W    == { line[i] : i \in DOMAIN line }
           keys == UNION { Echo!Echoes(state, note, state.num_taps) : note \in state.held }
           offs == UNION { {e.note} \cup Echo!Echoes(state, e.note, e.tag) :
                             e \in { w \in W : w.velocity = 0 } }
<1>1. Echo!Owed(state) = keys \cup offs
  BY Zenon DEF Echo!Owed
<1>2. /\ state.num_taps \in Nat /\ state.transposition \in Int
      /\ \A r \in 1 .. Len(line) : r \in DOMAIN line /\ line[r].note \in Int /\ line[r].tag \in Nat
  <2>1. line \in Seq(EchoEvent)
    BY DEF EchoTyped
  <2> QED
    BY <2>1, EchoTypes
<1>3. \A r \in 1 .. Len(line) : line[r].velocity = 0 => line[r] \in { w \in W : w.velocity = 0 }
  BY <1>2
<1> HIDE DEF W
<1>4. ASSUME EchoRests(state, 0, x) PROVE x \in offs
  <2>1. PICK r \in 1 .. Len(line) : line[r].velocity = 0 /\ line[r].note = x
    BY <1>4 DEF EchoRests
  <2>2. line[r] \in { w \in W : w.velocity = 0 }
    BY <1>3, <2>1
  <2> QED
    BY <2>1, <2>2
<1>5. ASSUME NEW a \in Nat, EchoFar(state, 0, x, a) PROVE x \in keys \cup offs
  <2>1. PICK y \in Int, b \in Nat : EchoOff(state, 0, y, b) /\ EchoVia(state, y, b, x, a)
    BY <1>5 DEF EchoFar
  <2>2. b - a \in 1 .. b /\ Leads(state.transposition, y, b - a, x)
    BY <2>1 DEF EchoVia
  <2>3. x \in Echo!Echoes(state, y, b)
    BY <1>2, <2>2, EchoesFollow
  <2>4. CASE y \in state.held /\ b = state.num_taps
    BY <2>3, <2>4
  <2>5. ASSUME NEW r \in 1 .. Len(line), line[r].velocity = 0, line[r].note = y, line[r].tag = b
        PROVE  x \in offs
    <3>1. line[r] \in { w \in W : w.velocity = 0 }
      BY <1>3, <2>5
    <3>2. x \in Echo!Echoes(state, line[r].note, line[r].tag)
      BY <2>3, <2>5
    <3> QED
      BY <3>1, <3>2
  <2> QED
    BY <2>1, <2>4, <2>5 DEF EchoOff
<1>6. EchoRests(state, 0, x) \/ \E a \in Nat : EchoFar(state, 0, x, a)
  <2>1. \A a \in Nat : ~ EchoVia(state, 0, 0, x, a)
    BY DEF EchoVia
  <2> QED
    BY <2>1, Zenon DEF EchoSteady, EchoSounds
<1> QED
  BY <1>1, <1>4, <1>5, <1>6

-----------------------------------------------------------------------------
(* The scale processor.                                                    *)

ScaleFields ==
    {"root", "original", "voice_1", "voice_2", "scale", "lowest_note", "map", "held", "sounding",
     "forgotten", "changed"}

\* Its note map.
ScaleMap == [Scale!MapIndex -> [note : Int, value : Int]]

\* What the map gives for a note.
ScaleValues(map, note) == { map[i].value : i \in Scale!Find(map, note) }

LEMMA ScaleMapIs ==
    /\ Indices(Scale!MapIndex) /\ ScaleMap = MapOf(Scale!MapIndex)
    /\ \A map, note : /\ Scale!Find(map, note) = MapFind(Scale!MapIndex, map, note)
                      /\ ScaleValues(map, note) = MapValues(Scale!MapIndex, map, note)
                      /\ Scale!PutIndex(map, note) = MapPutIndex(Scale!MapIndex, map, note)
    /\ \A map, i : Scale!Drop(map, i) = MapDrop(map, i)
<1>1. Indices(Scale!MapIndex)
  BY ScaleAssumption DEF Indices, Scale!MapIndex
<1>2. \A map, note : Scale!Holding(map, note) = MapHolding(Scale!MapIndex, map, note)
  BY DEF Scale!Holding, MapHolding
<1>3. \A S : Scale!Min(S) = MapLeast(S)
  BY Zenon DEF Scale!Min, MapLeast
<1>4. \A map, note : /\ Scale!Find(map, note) = MapFind(Scale!MapIndex, map, note)
                     /\ Scale!PutIndex(map, note) = MapPutIndex(Scale!MapIndex, map, note)
  BY <1>2, <1>3, ZenonT(30) DEF Scale!Find, MapFind, Scale!PutIndex, MapPutIndex, Scale!kNoNote
<1>5. \A map, note : ScaleValues(map, note) = MapValues(Scale!MapIndex, map, note)
  BY <1>4, Zenon DEF ScaleValues, MapValues
<1> QED
  BY <1>1, <1>4, <1>5, Zenon DEF ScaleMap, MapOf, Scale!Drop, MapDrop, Scale!kNoNote

LEMMA ScaleFind ==
    ASSUME NEW map, NEW note
    PROVE  \A i \in Scale!Find(map, note) : i \in Scale!MapIndex /\ map[i].note = note
  BY ScaleMapIs, MapFindIs

LEMMA ScalePut ==
    ASSUME NEW map \in ScaleMap, NEW note \in Int, NEW value \in Int
    PROVE  LET other == Scale!Put(map, note, value)
               taken == map[Scale!PutIndex(map, note)].note
           IN  /\ other \in ScaleMap
               /\ ScaleValues(other, note) = {value}
               /\ \A n : n # taken => ScaleValues(map, n) \subseteq ScaleValues(other, n)
<1>1. Scale!Put(map, note, value) = MapPut(Scale!MapIndex, map, note, value)
  BY ScaleMapIs, Zenon DEF Scale!Put, MapPut
<1> QED
  BY <1>1, ScaleMapIs, MapPutIs

LEMMA ScaleDrop ==
    ASSUME NEW map \in ScaleMap, NEW i \in Scale!MapIndex
    PROVE  LET other == Scale!Drop(map, i)
           IN  /\ other \in ScaleMap
               /\ \A n : n # map[i].note /\ n # Scale!kNoNote =>
                           ScaleValues(other, n) = ScaleValues(map, n)
  BY ScaleMapIs, MapDropIs DEF Scale!kNoNote

-----------------------------------------------------------------------------

LEMMA ScaleTransposed ==
    ASSUME NEW note \in 0 .. 127, NEW by \in Int
    PROVE  Scale!Transposed(note, by) \in 0 .. 127
  BY DEF Scale!Transposed

InScaleOf(s, note) == \E i \in 0 .. 11 : (note - s.root - s.scale[i]) % 12 = 0

LEMMA ScaleConstraint ==
    ASSUME NEW s, s.scale \in [0 .. 11 -> Nat], NEW note \in Int, NEW root \in Nat
    PROVE  /\ Scale!Constraint(s, note, root) \in Int
           /\ root = s.root => InScaleOf(s, Scale!Constraint(s, note, root))
<1> DEFINE r     == root % 12
           above == IF note < r THEN note - r + 12 ELSE note - r
           turn  == above \div 12
           i     == above % 12
           d     == s.scale[i]
           n     == 12 * turn + d + r
           c     == Scale!Constraint(s, note, root)
<1>1. root = 12 * (root \div 12) + r /\ root \div 12 \in Int /\ r \in Int
  OBVIOUS
<1>2. above \in Int
  OBVIOUS
<1>3. turn \in Int /\ i \in 0 .. 11
  BY <1>2
<1>4. c = IF n > 127 THEN n - 12 ELSE n
  BY DEF Scale!Constraint
<1>5. d \in Nat
  BY <1>3
<1> HIDE DEF turn, i, r, d, c
<1>6. c \in Int
  BY <1>1, <1>3, <1>4, <1>5
<1>7. (c - root - d) % 12 = 0
  <2> DEFINE q == root \div 12
             k == IF n > 127 THEN turn - q - 1 ELSE turn - q
  <2>1. q \in Int /\ root = 12 * q + r
    BY <1>1
  <2> HIDE DEF q
  <2>2. k \in Int /\ c - root - d = 12 * k
    BY <2>1, <1>1, <1>3, <1>4, <1>5
  <2> HIDE DEF k
  <2>3. (12 * k) % 12 = 0
    BY <2>2
  <2> QED
    BY <2>2, <2>3
<1> QED
  BY <1>3, <1>6, <1>7 DEF InScaleOf, c, d

-----------------------------------------------------------------------------

ScaleVoices(s, note) == Scale!Voices(s, note) \cup Scale!SecondVoice(s, note)

ScaleTyped(s) ==
    /\ DOMAIN s = ScaleFields
    /\ s.root \in ScaleParams.Roots /\ s.original \in ScaleParams.Shifts
    /\ s.voice_1 \in ScaleParams.Shifts /\ s.voice_2 \in BOOLEAN
    /\ s.scale \in ScaleParams.Scales /\ s.map \in ScaleMap
    /\ s.held \in SUBSET ScaleParams.Note
    /\ s.forgotten \in BOOLEAN /\ s.changed \in BOOLEAN

\* While no key was forgotten or changed: what sounds belongs to a key that is down,
\* and with a fixed root to the scale.
ScaleSteady(s) ==
    /\ \A v \in s.sounding : \E key \in s.held : v \in ScaleVoices(s, key)
    /\ s.root # 24 => \A v \in s.sounding : InScaleOf(s, v)

ScaleOk(s) == ScaleTyped(s) /\ (~s.forgotten /\ ~s.changed => ScaleSteady(s))

LEMMA ScaleFacts ==
    ASSUME NEW s, ScaleTyped(s)
    PROVE  /\ s.root \in Nat /\ s.original \in Int /\ s.voice_1 \in Int
           /\ s.scale \in [0 .. 11 -> Nat]
           /\ \A note \in ScaleParams.Note :
                note \in 0 .. 127 /\ Scale!Original(s, note) \in 0 .. 127
<1>1. /\ s.root \in Nat /\ s.original \in Int /\ s.voice_1 \in Int
      /\ s.scale \in [0 .. 11 -> Nat] /\ \A note \in ScaleParams.Note : note \in 0 .. 127
  BY ScaleAssumption DEF ScaleTyped
<1> QED
  BY <1>1, ScaleTransposed DEF Scale!Original

\* The voices of a key depend on what the map has for its transposed note.
LEMMA ScaleVoicesOf ==
    ASSUME NEW s, NEW t, NEW note, NEW n, t.root = s.root, t.original = s.original,
           t.voice_1 = s.voice_1, t.voice_2 = s.voice_2, t.scale = s.scale,
           Scale!Original(t, n) = Scale!Original(s, note),
           ScaleValues(s.map, Scale!Original(s, note)) \subseteq
             ScaleValues(t.map, Scale!Original(s, note))
    PROVE  ScaleVoices(s, note) \subseteq ScaleVoices(t, n)
<1> DEFINE own == Scale!Original(s, note)
           a == ScaleValues(s.map, own)
           b == ScaleValues(t.map, own)
<1>1. /\ Scale!Voices(s, note) =
           IF s.root = 24 THEN a \cup { Scale!Transposed(v, s.voice_1) : v \in a }
           ELSE { Scale!Constraint(s, m, s.root) : m \in {own, Scale!Transposed(own, s.voice_1)} }
      /\ Scale!SecondVoice(s, note) = IF s.root = 24 \/ ~s.voice_2 THEN {} ELSE a
  BY DEF Scale!Voices, Scale!SecondVoice, ScaleValues
<1>2. /\ Scale!Voices(t, n) =
           IF s.root = 24 THEN b \cup { Scale!Transposed(v, s.voice_1) : v \in b }
           ELSE { Scale!Constraint(t, m, s.root) : m \in {own, Scale!Transposed(own, s.voice_1)} }
      /\ Scale!SecondVoice(t, n) = IF s.root = 24 \/ ~s.voice_2 THEN {} ELSE b
  BY DEF Scale!Voices, Scale!SecondVoice, ScaleValues
<1>3. \A m : Scale!Constraint(t, m, s.root) = Scale!Constraint(s, m, s.root)
  BY DEF Scale!Constraint
<1>4. a \subseteq b
  OBVIOUS
<1> HIDE DEF own, a, b
<1> QED
  BY <1>1, <1>2, <1>3, <1>4 DEF ScaleVoices

LEMMA ScaleInit == Scale!Init => ScaleOk(state)
<1> SUFFICES ASSUME Scale!Init PROVE ScaleOk(state)
  OBVIOUS
<1>1. PICK root \in ScaleParams.Roots, original \in ScaleParams.Shifts,
           voice_1 \in ScaleParams.Shifts, voice_2 \in BOOLEAN, scale \in ScaleParams.Scales :
        state = [root |-> root, original |-> original, voice_1 |-> voice_1, voice_2 |-> voice_2,
                 scale |-> scale, lowest_note |-> 0, map |-> Scale!EmptyMap,
                 held |-> {}, sounding |-> {}, forgotten |-> FALSE, changed |-> FALSE]
  BY DEF Scale!Init
<1>2. Scale!EmptyMap \in ScaleMap
  BY DEF Scale!EmptyMap, ScaleMap, Scale!kNoNote
<1>3. /\ DOMAIN state = ScaleFields /\ state.root = root /\ state.original = original
      /\ state.voice_1 = voice_1 /\ state.voice_2 = voice_2 /\ state.scale = scale
      /\ state.map = Scale!EmptyMap /\ state.held = {} /\ state.sounding = {}
      /\ state.forgotten = FALSE /\ state.changed = FALSE
  BY <1>1 DEF ScaleFields
<1> QED
  BY <1>2, <1>3 DEF ScaleOk, ScaleTyped, ScaleSteady

LEMMA ScaleNext == ScaleOk(state) /\ Scale!Next => ScaleOk(state')
<1> SUFFICES ASSUME ScaleOk(state), Scale!Next PROVE ScaleOk(state')
  OBVIOUS
<1>1. ScaleTyped(state) /\ DOMAIN state = ScaleFields
  BY DEF ScaleOk, ScaleTyped
<1>2. ASSUME NEW note \in ScaleParams.Note, NEW harmony \in ScaleParams.Harmonies,
             Scale!KeyDown(note, harmony)
      PROVE  ScaleOk(state')
  <2> DEFINE own    == Scale!Original(state, note)
             lowest == Scale!Min(state.held \cup {note}) % 12
             bent   == Scale!Max({0, Scale!Min({127, own + harmony})})
             first  == Scale!Constraint(state, own, lowest)
             voice  == Scale!Constraint(state, bent, state.root)
             value  == IF state.root = 24 THEN first ELSE voice
             keeps  == state.root = 24 \/ state.voice_2
             kept   == Scale!Kept(state, own, value)
             s      == IF keeps THEN kept ELSE state
             taken  == state.map[Scale!PutIndex(state.map, own)].note
  <2>1. state' = [s EXCEPT !.held = @ \cup {note}, !.lowest_note = lowest,
                           !.sounding = @ \cup Scale!Voices(s, note) \cup Scale!SecondVoice(s, note)]
    BY <1>2 DEF Scale!KeyDown
  <2>2. own \in 0 .. 127 /\ own \in Int
    BY <1>1, ScaleFacts
  <2>3. value \in Int /\ (state.root # 24 => InScaleOf(state, value))
    <3>1. lowest \in Nat
      <4>1. state.held \cup {note} \subseteq Nat /\ state.held \cup {note} # {}
        BY <1>1, ScaleAssumption DEF ScaleTyped
      <4>2. Scale!Min(state.held \cup {note}) \in Nat
        BY <4>1, LeastNat DEF Scale!Min
      <4> QED
        BY <4>2
    <3>2. bent \in Int
      <4>1. harmony \in Int
        BY ScaleAssumption
      <4>2. Scale!Min({127, own + harmony}) \in {127, own + harmony}
        <5>1. \E m \in {127, own + harmony} : \A n \in {127, own + harmony} : m <= n
          BY <2>2, <4>1
        <5> QED
          BY <5>1 DEF Scale!Min
      <4> DEFINE low == Scale!Min({127, own + harmony})
      <4>3. low \in Int
        BY <2>2, <4>1, <4>2
      <4> HIDE DEF low
      <4>4. Scale!Max({0, low}) \in {0, low}
        <5>1. \E m \in {0, low} : \A n \in {0, low} : m >= n
          BY <4>3
        <5> QED
          BY <5>1 DEF Scale!Max
      <4> QED
        BY <4>3, <4>4 DEF low
    <3>3. state.scale \in [0 .. 11 -> Nat] /\ state.root \in Nat
      BY <1>1, ScaleFacts
    <3> HIDE DEF lowest, bent, own
    <3> QED
      BY <2>2, <3>1, <3>2, <3>3, ScaleConstraint
  <2> HIDE DEF own, value, lowest
  <2>4. /\ DOMAIN s = ScaleFields /\ s.root = state.root /\ s.original = state.original
        /\ s.voice_1 = state.voice_1 /\ s.voice_2 = state.voice_2 /\ s.scale = state.scale
        /\ s.held = state.held /\ s.sounding = state.sounding /\ s.changed = state.changed
        /\ s.map \in ScaleMap /\ s.forgotten \in BOOLEAN /\ (~s.forgotten => ~state.forgotten)
        /\ keeps => ScaleValues(s.map, own) = {value}
        /\ ~s.forgotten => \A key \in state.held :
             ScaleValues(state.map, Scale!Original(state, key)) \subseteq
               ScaleValues(s.map, Scale!Original(state, key))
    <3>1. CASE ~keeps
      <4>1. s = state
        BY <3>1
      <4> HIDE DEF s, keeps
      <4> QED
        BY <1>1, <3>1, <4>1 DEF ScaleTyped
    <3>2. CASE keeps
      <4> DEFINE m == Scale!Put(state.map, own, value)
      <4>1. kept = [state EXCEPT !.map = m,
                      !.forgotten = @ \/ taken \in { Scale!Original(state, key) : key \in state.held }]
        BY DEF Scale!Kept
      <4>2. s = kept
        BY <3>2
      <4>3. /\ m \in ScaleMap /\ ScaleValues(m, own) = {value}
            /\ \A n : n # taken => ScaleValues(state.map, n) \subseteq ScaleValues(m, n)
        BY <1>1, <2>2, <2>3, ScalePut DEF ScaleTyped
      <4> HIDE DEF s, kept, m, taken
      <4>4. /\ DOMAIN s = ScaleFields /\ s.root = state.root /\ s.original = state.original
            /\ s.voice_1 = state.voice_1 /\ s.voice_2 = state.voice_2 /\ s.scale = state.scale
            /\ s.held = state.held /\ s.sounding = state.sounding /\ s.changed = state.changed
            /\ s.map = m
            /\ s.forgotten = (state.forgotten \/
                              taken \in { Scale!Original(state, key) : key \in state.held })
        BY <1>1, <4>1, <4>2 DEF ScaleFields
      <4>5. s.forgotten \in BOOLEAN /\ (~s.forgotten => ~state.forgotten)
        BY <4>4
      <4>6. ASSUME ~s.forgotten, NEW key \in state.held
            PROVE  Scale!Original(state, key) # taken
        BY <4>4, <4>6
      <4> QED
        BY <4>3, <4>4, <4>5, <4>6
    <3> QED
      BY <3>1, <3>2
  <2>5. state.root # 24 => (keeps <=> state.voice_2)
    OBVIOUS
  <2> HIDE DEF s, kept, keeps
  <2>6. /\ DOMAIN state' = ScaleFields /\ state'.root = s.root /\ state'.original = s.original
        /\ state'.voice_1 = s.voice_1 /\ state'.voice_2 = s.voice_2 /\ state'.scale = s.scale
        /\ state'.map = s.map /\ state'.forgotten = s.forgotten /\ state'.changed = s.changed
        /\ state'.held = state.held \cup {note}
        /\ state'.sounding = state.sounding \cup ScaleVoices(s, note)
    BY <2>1, <2>4 DEF ScaleFields, ScaleVoices
  <2>7. ScaleTyped(state')
    BY <1>1, <2>4, <2>6 DEF ScaleTyped
  <2>8. ASSUME ~state'.forgotten, ~state'.changed
        PROVE  ScaleSteady(state')
    <3>1. ScaleSteady(state)
      BY <2>4, <2>6, <2>8 DEF ScaleOk
    <3>2. \A key : Scale!Original(state', key) = Scale!Original(state, key)
                   /\ Scale!Original(s, key) = Scale!Original(state, key)
      BY <2>4, <2>6 DEF Scale!Original
    <3>3. ASSUME NEW key \in state.held
          PROVE  ScaleVoices(state, key) \subseteq ScaleVoices(state', key)
      <4>1. ScaleValues(state.map, Scale!Original(state, key)) \subseteq
              ScaleValues(state'.map, Scale!Original(state, key))
        BY <2>4, <2>6, <2>8
      <4> QED
        BY <2>4, <2>6, <3>2, <4>1, ScaleVoicesOf
    <3>4. ScaleVoices(s, note) \subseteq ScaleVoices(state', note)
      BY <2>6, <3>2, ScaleVoicesOf
    <3>5. \A v \in state'.sounding : \E key \in state'.held : v \in ScaleVoices(state', key)
      BY <2>6, <3>1, <3>3, <3>4 DEF ScaleSteady
    <3>6. ASSUME state'.root # 24
          PROVE  \A v \in state'.sounding : InScaleOf(state', v)
      <4>1. \A v : InScaleOf(state, v) => InScaleOf(state', v)
        BY <2>4, <2>6 DEF InScaleOf
      <4>2. \A v \in state.sounding : InScaleOf(state, v)
        BY <2>4, <2>6, <3>1, <3>6 DEF ScaleSteady
      <4>3. ASSUME NEW v \in Scale!Voices(s, note) PROVE InScaleOf(state, v)
        <5>1. s.root # 24 /\ s.root = state.root
          BY <2>4, <2>6, <3>6
        <5>2. PICK n \in {own, Scale!Transposed(own, s.voice_1)} : v = Scale!Constraint(s, n, s.root)
          BY <3>2, <4>3, <5>1 DEF Scale!Voices, own
        <5>3. n \in Int
          <6> DEFINE by    == s.voice_1
                     moved == Scale!Transposed(own, by)
          <6>1. by \in Int
            BY <1>1, <2>4, ScaleFacts
          <6> HIDE DEF by
          <6>2. moved \in 0 .. 127
            BY <2>2, <6>1, ScaleTransposed
          <6>3. n \in {own, moved}
            BY <5>2 DEF by
          <6> HIDE DEF moved
          <6> QED
            BY <2>2, <6>2, <6>3
        <5>4. s.scale \in [0 .. 11 -> Nat] /\ s.root \in Nat
          BY <1>1, <2>4, ScaleFacts
        <5>5. InScaleOf(s, v)
          BY <5>2, <5>3, <5>4, ScaleConstraint
        <5> QED
          BY <2>4, <5>5 DEF InScaleOf
      <4>4. ASSUME NEW v \in Scale!SecondVoice(s, note) PROVE InScaleOf(state, v)
        <5>1. s.root # 24 /\ state.root # 24 /\ s.voice_2 /\ v \in ScaleValues(s.map, own)
          BY <2>4, <2>6, <3>2, <3>6, <4>4 DEF Scale!SecondVoice, ScaleValues, own
        <5>2. v = value
          BY <2>4, <2>5, <5>1
        <5> QED
          BY <2>3, <5>1, <5>2
      <4> QED
        BY <2>6, <4>1, <4>2, <4>3, <4>4 DEF ScaleVoices
    <3> QED
      BY <3>5, <3>6 DEF ScaleSteady
  <2> QED
    BY <2>7, <2>8 DEF ScaleOk
<1>3. ASSUME NEW note \in ScaleParams.Note, Scale!KeyUp(note)
      PROVE  ScaleOk(state')
  <2> DEFINE own   == Scale!Original(state, note)
             entry == Scale!Find(state.map, own)
             free  == state.root # 24 /\ state.voice_2 /\ entry # {}
             i     == CHOOSE j \in entry : TRUE
             map   == IF free THEN Scale!Drop(state.map, i) ELSE state.map
  <2>1. state' = [state EXCEPT !.held = @ \ {note}, !.sounding = @ \ ScaleVoices(state, note),
                               !.map = map]
    BY <1>3 DEF Scale!KeyUp, ScaleVoices
  <2>2. /\ map \in ScaleMap
        /\ \A n : n # own /\ n # Scale!kNoNote => ScaleValues(map, n) = ScaleValues(state.map, n)
    <3>1. CASE ~free
      BY <1>1, <3>1 DEF ScaleTyped
    <3>2. CASE free
      <4>1. i \in entry
        BY <3>2
      <4>2. i \in Scale!MapIndex /\ state.map[i].note = own
        BY <4>1, ScaleFind
      <4>3. state.map \in ScaleMap
        BY <1>1 DEF ScaleTyped
      <4>4. map = Scale!Drop(state.map, i)
        BY <3>2
      <4> HIDE DEF i, own, entry, map
      <4> QED
        BY <4>2, <4>3, <4>4, ScaleDrop
    <3> QED
      BY <3>1, <3>2
  <2> HIDE DEF map
  <2>3. /\ DOMAIN state' = ScaleFields /\ state'.root = state.root
        /\ state'.original = state.original /\ state'.voice_1 = state.voice_1
        /\ state'.voice_2 = state.voice_2 /\ state'.scale = state.scale /\ state'.map = map
        /\ state'.forgotten = state.forgotten /\ state'.changed = state.changed
        /\ state'.held = state.held \ {note}
        /\ state'.sounding = state.sounding \ ScaleVoices(state, note)
    BY <1>1, <2>1 DEF ScaleFields
  <2>4. ScaleTyped(state')
    BY <1>1, <2>2, <2>3 DEF ScaleTyped
  <2>5. ASSUME ~state'.forgotten, ~state'.changed
        PROVE  ScaleSteady(state')
    <3>1. ScaleSteady(state)
      BY <2>3, <2>5 DEF ScaleOk
    <3>2. \A key : Scale!Original(state', key) = Scale!Original(state, key)
      BY <2>3 DEF Scale!Original
    <3>3. ASSUME NEW v \in state'.sounding
          PROVE  \E key \in state'.held : v \in ScaleVoices(state', key)
      <4>1. PICK key \in state.held : v \in ScaleVoices(state, key)
        BY <2>3, <3>1 DEF ScaleSteady
      <4>2. v \notin ScaleVoices(state, note)
        BY <2>3
      <4>3. Scale!Original(state, key) # own
        <5>1. Scale!Original(state, key) = Scale!Original(state, note) =>
                ScaleVoices(state, key) \subseteq ScaleVoices(state, note)
          BY ScaleVoicesOf
        <5> QED
          BY <4>1, <4>2, <5>1
      <4>4. Scale!Original(state, key) # Scale!kNoNote
        <5>1. key \in ScaleParams.Note
          BY <1>1 DEF ScaleTyped
        <5>2. Scale!Original(state, key) \in 0 .. 127
          BY <1>1, <5>1, ScaleFacts
        <5> QED
          BY <5>2 DEF Scale!kNoNote
      <4>5. ScaleValues(state.map, Scale!Original(state, key)) \subseteq
              ScaleValues(state'.map, Scale!Original(state, key))
        BY <2>2, <2>3, <4>3, <4>4
      <4>6. ScaleVoices(state, key) \subseteq ScaleVoices(state', key)
        BY <2>3, <3>2, <4>5, ScaleVoicesOf
      <4>7. key # note
        BY <4>1, <4>2
      <4> QED
        BY <2>3, <4>1, <4>6, <4>7
    <3>4. state'.root # 24 => \A v \in state'.sounding : InScaleOf(state', v)
      BY <2>3, <3>1 DEF ScaleSteady, InScaleOf
    <3> QED
      BY <3>3, <3>4 DEF ScaleSteady
  <2> QED
    BY <2>4, <2>5 DEF ScaleOk
<1>4. ASSUME NEW root \in ScaleParams.Roots, NEW original \in ScaleParams.Shifts,
             NEW voice_1 \in ScaleParams.Shifts, NEW voice_2 \in BOOLEAN,
             NEW scale \in ScaleParams.Scales,
             Scale!SetScale(root, original, voice_1, voice_2, scale)
      PROVE  ScaleOk(state')
  <2>1. /\ DOMAIN state' = ScaleFields /\ state'.root = root /\ state'.original = original
        /\ state'.voice_1 = voice_1 /\ state'.voice_2 = voice_2 /\ state'.scale = scale
        /\ state'.map = state.map /\ state'.held = state.held
        /\ state'.sounding = state.sounding /\ state'.forgotten = state.forgotten
        /\ state'.changed = (state.changed \/ state.held # {})
    BY <1>1, <1>4 DEF Scale!SetScale, ScaleFields
  <2>2. state'.changed \in BOOLEAN
    BY <1>1, <2>1 DEF ScaleTyped
  <2>3. ScaleTyped(state')
    BY <1>1, <2>1, <2>2 DEF ScaleTyped
  <2>4. ASSUME ~state'.forgotten, ~state'.changed
        PROVE  ScaleSteady(state')
    BY <2>1, <2>4 DEF ScaleOk, ScaleSteady
  <2> QED
    BY <2>3, <2>4 DEF ScaleOk
<1> QED
  BY <1>2, <1>3, <1>4 DEF Scale!Next

-----------------------------------------------------------------------------
(* The randomizer.                                                         *)

RandomFields ==
    {"channel", "randomizes", "map", "held", "sounding", "overwritten", "reassigned"}

\* What its note map gives for a note.
RandomValues(map, note) == MapValues(Random!MapIndex, map, note)

RandomSelects(s, channel) == s.channel = 0 \/ s.channel = channel + 1

\* The release of a key that is down will end the note x.
RandomEnds(s, key, x) ==
    \/ ~RandomSelects(s, key[1]) /\ x = key
    \/ RandomSelects(s, key[1]) /\ \E v \in RandomValues(s.map, key[2]) : x = <<key[1], v>>

\* Two keys of the same note would share its entry: without that each key has its own.
RandomSteady(s) ==
    /\ \A x \in s.sounding : \E key \in s.held : RandomEnds(s, key, x)
    /\ \A key \in s.held : RandomSelects(s, key[1]) => RandomValues(s.map, key[2]) # {}
    /\ \A key, other \in s.held :
         RandomSelects(s, key[1]) /\ RandomSelects(s, other[1]) /\ key[2] = other[2] => key = other

RandomTyped(s) ==
    /\ DOMAIN s = RandomFields /\ s.map \in MapOf(Random!MapIndex)
    /\ s.held \subseteq RandomParams.Channel \X RandomParams.Note
    /\ s.overwritten \in BOOLEAN /\ s.reassigned \in BOOLEAN

RandomOk(s) == RandomTyped(s) /\ (s.overwritten \/ s.reassigned \/ RandomSteady(s))

LEMMA RandomMapIs ==
    /\ Indices(Random!MapIndex)
    /\ \A map, note : /\ Random!Find(map, note) = MapFind(Random!MapIndex, map, note)
                      /\ Random!PutIndex(map, note) = MapPutIndex(Random!MapIndex, map, note)
    /\ \A map, note, value :
         Random!Put(map, note, value) = MapPut(Random!MapIndex, map, note, value)
    /\ \A map, i : Random!Drop(map, i) = MapDrop(map, i)
<1>1. Indices(Random!MapIndex)
  BY RandomAssumption DEF Indices, Random!MapIndex
<1>2. \A map, note : Random!Holding(map, note) = MapHolding(Random!MapIndex, map, note)
  BY DEF Random!Holding, MapHolding
<1>3. \A S : Random!Min(S) = MapLeast(S)
  BY Zenon DEF Random!Min, MapLeast
<1>4. \A map, note : /\ Random!Find(map, note) = MapFind(Random!MapIndex, map, note)
                     /\ Random!PutIndex(map, note) = MapPutIndex(Random!MapIndex, map, note)
  BY <1>2, <1>3, ZenonT(30) DEF Random!Find, MapFind, Random!PutIndex, MapPutIndex, Random!kNoNote
<1>5. \A map, note, value :
        Random!Put(map, note, value) = MapPut(Random!MapIndex, map, note, value)
  BY <1>4, Zenon DEF Random!Put, MapPut
<1> QED
  BY <1>1, <1>4, <1>5, Zenon DEF Random!Drop, MapDrop, Random!kNoNote

LEMMA RandomInit == Random!Init => RandomOk(state)
<1> SUFFICES ASSUME Random!Init PROVE RandomOk(state)
  OBVIOUS
<1>1. /\ DOMAIN state = RandomFields /\ state.map = Random!EmptyMap /\ state.held = {}
      /\ state.sounding = {} /\ state.overwritten = FALSE /\ state.reassigned = FALSE
  BY DEF Random!Init, RandomFields
<1>2. state.map \in MapOf(Random!MapIndex)
  BY <1>1 DEF Random!EmptyMap, Random!kNoNote, MapOf
<1> QED
  BY <1>1, <1>2 DEF RandomOk, RandomTyped, RandomSteady

\* A key that is passed on as it is.
LEMMA RandomPassedDown ==
    ASSUME RandomOk(state), NEW key \in RandomParams.Channel \X RandomParams.Note,
           ~RandomSelects(state, key[1]), NEW t, DOMAIN t = RandomFields,
           t.channel = state.channel, t.map = state.map,
           t.overwritten = state.overwritten, t.reassigned = state.reassigned,
           \/ t.held = state.held \cup {key} /\ t.sounding = state.sounding \cup {key}
           \/ t.held = state.held \ {key} /\ t.sounding = state.sounding \ {key}
    PROVE  RandomOk(t)
<1>1. RandomTyped(t)
  BY DEF RandomOk, RandomTyped
<1>2. \A k, x : RandomEnds(t, k, x) <=> RandomEnds(state, k, x)
  BY DEF RandomEnds, RandomSelects
<1>3. \A x : RandomEnds(state, key, x) => x = key
  BY DEF RandomEnds
<1>4. \A channel : RandomSelects(t, channel) <=> RandomSelects(state, channel)
  BY DEF RandomSelects
<1>5. ASSUME RandomSteady(state) PROVE RandomSteady(t)
  <2>1. ASSUME NEW x \in t.sounding PROVE \E k \in t.held : RandomEnds(t, k, x)
    <3>1. CASE x = key
      <4>1. key \in t.held
        BY <2>1, <3>1
      <4> QED
        BY <3>1, <4>1, <1>2 DEF RandomEnds
    <3>2. CASE x # key
      <4>1. PICK k \in state.held : RandomEnds(state, k, x)
        BY <1>5, <2>1, <3>2 DEF RandomSteady
      <4>2. k # key
        BY <1>3, <3>2, <4>1
      <4> QED
        BY <1>2, <4>1, <4>2
    <3> QED
      BY <3>1, <3>2
  <2>2. \A k \in t.held : RandomSelects(t, k[1]) => k \in state.held /\ RandomSelects(state, k[1])
    BY <1>4
  <2> QED
    BY <1>5, <2>1, <2>2 DEF RandomSteady
<1> QED
  BY <1>1, <1>5 DEF RandomOk

LEMMA RandomDown ==
    ASSUME RandomOk(state), NEW channel \in RandomParams.Channel, NEW note \in RandomParams.Note,
           NEW drawn \in RandomParams.Drawn, Random!KeyDown(channel, note, drawn)
    PROVE  RandomOk(state')
<1> DEFINE key   == <<channel, note>>
           value == IF state.randomizes THEN drawn ELSE note
           taken == state.map[Random!PutIndex(state.map, note)].note
           I     == Random!MapIndex
<1>1. /\ DOMAIN state = RandomFields /\ RandomTyped(state)
      /\ key \in RandomParams.Channel \X RandomParams.Note /\ key[1] = channel /\ key[2] = note
      /\ note \in 0 .. 127 /\ value \in 0 .. 127
  BY RandomAssumption DEF RandomOk, RandomTyped
<1>2. RandomSelects(state, channel) <=> Random!Selected(channel)
  BY DEF RandomSelects, Random!Selected
<1>3. CASE ~Random!Selected(channel)
  <2>1. state' = [state EXCEPT !.held = @ \cup {key}, !.sounding = @ \cup {key}]
    BY <1>3 DEF Random!KeyDown
  <2>2. /\ DOMAIN state' = RandomFields /\ state'.channel = state.channel
        /\ state'.map = state.map /\ state'.overwritten = state.overwritten
        /\ state'.reassigned = state.reassigned
        /\ state'.held = state.held \cup {key} /\ state'.sounding = state.sounding \cup {key}
    BY <1>1, <2>1 DEF RandomFields
  <2> HIDE DEF key
  <2> QED
    BY <1>1, <1>2, <1>3, <2>2, RandomPassedDown
<1>4. CASE Random!Selected(channel)
  <2> DEFINE map == Random!Put(state.map, note, value)
  <2>1. state' = [state EXCEPT !.map = map, !.overwritten = @ \/ taken # Random!kNoNote,
                               !.held = @ \cup {key}, !.sounding = @ \cup {<<channel, value>>}]
    BY <1>4 DEF Random!KeyDown
  <2>2. /\ map \in MapOf(I) /\ RandomValues(map, note) = {value}
        /\ \A n : n # taken => RandomValues(state.map, n) \subseteq RandomValues(map, n)
        /\ taken # note => RandomValues(state.map, note) = {}
    <3>1. state.map \in MapOf(I) /\ note \in Int /\ value \in Int
      BY <1>1 DEF RandomTyped
    <3> QED
      BY <3>1, RandomMapIs, MapPutIs DEF RandomValues
  <2> HIDE DEF key, value, taken, map
  <2>3. /\ DOMAIN state' = RandomFields /\ state'.channel = state.channel
        /\ state'.map = map /\ state'.reassigned = state.reassigned
        /\ state'.overwritten = (state.overwritten \/ taken # Random!kNoNote)
        /\ state'.held = state.held \cup {key}
        /\ state'.sounding = state.sounding \cup {<<channel, value>>}
    BY <1>1, <2>1 DEF RandomFields
  <2>4. state'.overwritten \in BOOLEAN
    BY <1>1, <2>3, Zenon DEF RandomTyped
  <2>5. RandomTyped(state')
    BY <1>1, <2>2, <2>3, <2>4 DEF RandomTyped
  <2>6. \A c : RandomSelects(state', c) <=> RandomSelects(state, c)
    BY <2>3 DEF RandomSelects
  <2>7. ASSUME RandomSteady(state), taken = Random!kNoNote PROVE RandomSteady(state')
    <3>1. RandomValues(state.map, note) = {}
      BY <1>1, <2>2, <2>7 DEF Random!kNoNote
    <3>2. \A k \in state.held : RandomSelects(state, k[1]) => k[2] # note
      BY <2>7, <3>1 DEF RandomSteady
    <3>3. \A k \in state.held : k[2] # taken
      BY <1>1, <2>7, RandomAssumption DEF Random!kNoNote, RandomTyped
    <3>4. \A k \in state.held : RandomValues(state.map, k[2]) \subseteq RandomValues(map, k[2])
      BY <2>2, <3>3
    <3>5. \A k \in state.held : \A x : RandomEnds(state, k, x) => RandomEnds(state', k, x)
      BY <2>3, <2>6, <3>4 DEF RandomEnds
    <3>6. RandomEnds(state', key, <<channel, value>>)
      BY <1>1, <1>2, <1>4, <2>2, <2>3, <2>6 DEF RandomEnds
    <3>7. \A x \in state'.sounding : \E k \in state'.held : RandomEnds(state', k, x)
      BY <2>3, <2>7, <3>5, <3>6 DEF RandomSteady
    <3>8. \A k \in state'.held :
            RandomSelects(state', k[1]) => RandomValues(state'.map, k[2]) # {}
      BY <1>1, <2>2, <2>3, <2>6, <2>7, <3>4 DEF RandomSteady
    <3>9. \A k, other \in state'.held :
            RandomSelects(state', k[1]) /\ RandomSelects(state', other[1]) /\ k[2] = other[2]
              => k = other
      BY <1>1, <2>3, <2>6, <2>7, <3>2 DEF RandomSteady
    <3> QED
      BY <3>7, <3>8, <3>9 DEF RandomSteady
  <2> QED
    BY <2>3, <2>5, <2>7 DEF RandomOk
<1> QED
  BY <1>3, <1>4

LEMMA RandomUp ==
    ASSUME RandomOk(state), NEW channel \in RandomParams.Channel, NEW note \in RandomParams.Note,
           Random!KeyUp(channel, note)
    PROVE  RandomOk(state')
<1> DEFINE key   == <<channel, note>>
           entry == Random!Find(state.map, note)
           off   == { <<channel, state.map[i].value>> : i \in entry }
           i     == CHOOSE i \in entry : TRUE
           map   == IF entry = {} THEN state.map ELSE Random!Drop(state.map, i)
           I     == Random!MapIndex
<1>1. /\ DOMAIN state = RandomFields /\ RandomTyped(state) /\ key \in state.held
      /\ key \in RandomParams.Channel \X RandomParams.Note /\ key[1] = channel /\ key[2] = note
      /\ note \in 0 .. 127
  BY RandomAssumption DEF RandomOk, RandomTyped, Random!KeyUp
<1>2. RandomSelects(state, channel) <=> Random!Selected(channel)
  BY DEF RandomSelects, Random!Selected
<1>3. CASE ~Random!Selected(channel)
  <2>1. state' = [state EXCEPT !.held = @ \ {key}, !.sounding = @ \ {key}, !.map = @]
    BY <1>3 DEF Random!KeyUp
  <2>2. /\ DOMAIN state' = RandomFields /\ state'.channel = state.channel
        /\ state'.map = state.map /\ state'.overwritten = state.overwritten
        /\ state'.reassigned = state.reassigned
        /\ state'.held = state.held \ {key} /\ state'.sounding = state.sounding \ {key}
    BY <1>1, <2>1 DEF RandomFields
  <2> HIDE DEF key
  <2> QED
    BY <1>1, <1>2, <1>3, <2>2, RandomPassedDown
<1>4. CASE Random!Selected(channel)
  <2>1. state' = [state EXCEPT !.held = @ \ {key}, !.sounding = @ \ off, !.map = map]
    BY <1>4 DEF Random!KeyUp
  <2>2. state.map \in MapOf(I)
    BY <1>1 DEF RandomTyped
  <2>3. entry = MapFind(I, state.map, note)
    BY RandomMapIs
  <2>4. entry # {} => i \in I /\ state.map[i].note = note
    <3>1. entry # {} => i \in entry
      OBVIOUS
    <3> HIDE DEF i, entry
    <3> QED
      BY <2>3, <3>1, RandomMapIs, MapFindIs
  <2>5. map \in MapOf(I) /\ \A n : n # note /\ n # 255 =>
                               RandomValues(map, n) = RandomValues(state.map, n)
    <3> HIDE DEF i, entry
    <3>1. CASE entry = {}
      BY <2>2, <3>1
    <3>2. CASE entry # {}
      <4>1. map = MapDrop(state.map, i)
        BY <3>2, RandomMapIs
      <4> HIDE DEF map
      <4> QED
        BY <2>2, <2>4, <3>2, <4>1, MapDropIs, RandomMapIs DEF RandomValues
    <3> QED
      BY <3>1, <3>2
  <2>6. off = { <<channel, v>> : v \in RandomValues(state.map, note) }
    BY <2>3 DEF RandomValues, MapValues
  <2> HIDE DEF key, entry, off, i, map
  <2>7. /\ DOMAIN state' = RandomFields /\ state'.channel = state.channel
        /\ state'.map = map /\ state'.reassigned = state.reassigned
        /\ state'.overwritten = state.overwritten
        /\ state'.held = state.held \ {key} /\ state'.sounding = state.sounding \ off
    BY <1>1, <2>1 DEF RandomFields
  <2>8. RandomTyped(state')
    BY <1>1, <2>5, <2>7 DEF RandomTyped
  <2>9. \A c : RandomSelects(state', c) <=> RandomSelects(state, c)
    BY <2>7 DEF RandomSelects
  <2>10. ASSUME RandomSteady(state) PROVE RandomSteady(state')
    <3>1. \A k \in state'.held : k \in state.held /\ k # key
      BY <2>7
    <3>2. \A k \in state'.held : RandomSelects(state, k[1]) => k[2] # note
      BY <1>1, <1>2, <1>4, <2>10, <3>1 DEF RandomSteady
    <3>3. \A k \in state'.held : k[2] # 255
      BY <1>1, <3>1, RandomAssumption DEF RandomTyped
    <3>4. \A k \in state'.held :
            RandomSelects(state, k[1]) => RandomValues(map, k[2]) = RandomValues(state.map, k[2])
      BY <2>5, <3>2, <3>3
    <3>5. \A k \in state'.held : \A x : RandomEnds(state, k, x) => RandomEnds(state', k, x)
      BY <2>7, <2>9, <3>4 DEF RandomEnds
    <3>6. \A x : RandomEnds(state, key, x) => x \in off
      BY <1>1, <1>2, <1>4, <2>6 DEF RandomEnds
    <3>7. \A x \in state'.sounding : \E k \in state'.held : RandomEnds(state', k, x)
      BY <2>7, <2>10, <3>5, <3>6 DEF RandomSteady
    <3>8. \A k \in state'.held :
            RandomSelects(state', k[1]) => RandomValues(state'.map, k[2]) # {}
      BY <2>7, <2>9, <2>10, <3>1, <3>4 DEF RandomSteady
    <3>9. \A k, other \in state'.held :
            RandomSelects(state', k[1]) /\ RandomSelects(state', other[1]) /\ k[2] = other[2]
              => k = other
      BY <2>9, <2>10, <3>1 DEF RandomSteady
    <3> QED
      BY <3>7, <3>8, <3>9 DEF RandomSteady
  <2> QED
    BY <2>7, <2>8, <2>10 DEF RandomOk
<1> QED
  BY <1>3, <1>4

LEMMA RandomNext == RandomOk(state) /\ Random!Next => RandomOk(state')
<1> SUFFICES ASSUME RandomOk(state), Random!Next PROVE RandomOk(state')
  OBVIOUS
<1>1. RandomTyped(state)
  BY DEF RandomOk
<1>2. ASSUME NEW channel, Random!SetChannel(channel)
      PROVE  RandomOk(state')
  <2>1. /\ DOMAIN state' = RandomFields /\ state'.map = state.map /\ state'.held = state.held
        /\ state'.sounding = state.sounding /\ state'.overwritten = state.overwritten
        /\ state'.reassigned = (state.reassigned \/ state.held # {})
    BY <1>1, <1>2 DEF Random!SetChannel, RandomTyped, RandomFields
  <2>2. state'.reassigned \in BOOLEAN
    BY <1>1, <2>1, Zenon DEF RandomTyped
  <2>3. RandomTyped(state')
    BY <1>1, <2>1, <2>2 DEF RandomTyped
  <2>4. RandomSteady(state) /\ state.held = {} => RandomSteady(state')
    BY <2>1 DEF RandomSteady
  <2> QED
    BY <2>1, <2>3, <2>4 DEF RandomOk
<1>3. ASSUME NEW randomizes \in BOOLEAN, Random!SetAmount(randomizes)
      PROVE  RandomOk(state')
  <2>1. /\ DOMAIN state' = RandomFields /\ state'.map = state.map /\ state'.held = state.held
        /\ state'.sounding = state.sounding /\ state'.overwritten = state.overwritten
        /\ state'.reassigned = state.reassigned /\ state'.channel = state.channel
    BY <1>1, <1>3 DEF Random!SetAmount, RandomTyped, RandomFields
  <2>2. RandomTyped(state')
    BY <1>1, <2>1 DEF RandomTyped
  <2>3. RandomSteady(state) => RandomSteady(state')
    BY <2>1 DEF RandomSteady, RandomEnds, RandomSelects
  <2> QED
    BY <2>1, <2>2, <2>3 DEF RandomOk
<1> QED
  BY <1>2, <1>3, RandomDown, RandomUp DEF Random!Next

LEMMA RandomProperties == RandomOk(state) => Random!SoundingIsOwed
<1> SUFFICES ASSUME RandomOk(state), RandomSteady(state), NEW x \in state.sounding
             PROVE  x \in Random!Owed
  BY DEF RandomOk, Random!SoundingIsOwed
<1>1. PICK key \in state.held : RandomEnds(state, key, x)
  BY DEF RandomSteady
<1>2. RandomSelects(state, key[1]) <=> Random!Selected(key[1])
  BY DEF RandomSelects, Random!Selected
<1>3. \A v \in RandomValues(state.map, key[2]) :
        \E i \in Random!Find(state.map, key[2]) : v = state.map[i].value
  BY RandomMapIs DEF RandomValues, MapValues
<1> QED
  BY <1>1, <1>2, <1>3 DEF RandomEnds, Random!Owed

-----------------------------------------------------------------------------
(* The SH sequencer: its transport, whatever interrupts what.              *)

ShFields ==
    {"running", "recording", "mode", "prescaler", "num_steps", "data", "slide", "tick", "step",
     "root", "last", "pending", "main", "recorders", "sounding", "thru", "hung", "told",
     "switched", "raced", "nested"}

\* What the instruments were told at each line of the main loop.  That the main loop
\* left the sequencer stopped or running does not depend on clk_mode_.
ShTransport(s) ==
    /\ DOMAIN s = ShFields
    /\ s.running \in BOOLEAN /\ s.told \in BOOLEAN /\ s.switched \in BOOLEAN /\ s.raced \in BOOLEAN
    /\ ~s.raced /\ s.main \in {"stopping", "ended", "stopped", "erasing"} => ~s.running
    /\ ~s.raced /\ s.main \in {"armed", "reset", "kept"} => s.running
    /\ ~s.raced /\ ~s.switched =>
         (s.told <=> /\ s.mode = "INTERNAL"
                     /\ IF s.main = "idle" THEN s.running ELSE s.main \notin {"stopped", "erasing"})

\* t is s but for members that the transport does not depend on.
ShAside(t, s) ==
    /\ DOMAIN t = ShFields
    /\ t.running = s.running /\ t.told = s.told /\ t.switched = s.switched /\ t.mode = s.mode
    /\ t.main = s.main /\ t.raced = s.raced

LEMMA ShAsideKeeps ==
    ASSUME NEW s, NEW t, ShTransport(s), ShAside(t, s)
    PROVE  ShTransport(t)
  BY DEF ShTransport, ShAside

LEMMA ShAsideOnward ==
    ASSUME NEW s, NEW t, NEW u, ShAside(t, s), ShAside(u, t)
    PROVE  ShAside(u, s)
  BY DEF ShAside

\* Nor does the recording depend on what differs.
ShBeside(t, s) ==
    /\ ShAside(t, s)
    /\ t.recording = s.recording /\ t.num_steps = s.num_steps /\ t.recorders = s.recorders
    /\ t.nested = s.nested

\* What the functions of the class leave aside.
LEMMA ShPartsAside ==
    ASSUME NEW s, DOMAIN s = ShFields
    PROVE  /\ \A notes : ShBeside(Sh!Ends(s, notes), s)
           /\ ShBeside(Sh!Forgotten(s), s)
           /\ ShBeside(Sh!Advanced(s), s)
           /\ ShBeside(Sh!Erased(s), s)
           /\ ShAside(Sh!Tested(s), s)
<1> USE DEF ShAside, ShBeside, ShFields
<1>1. \A notes : ShBeside(Sh!Ends(s, notes), s)
  BY DEF Sh!Ends
<1>2. ShBeside(Sh!Forgotten(s), s)
  BY DEF Sh!Forgotten
<1>3. ShBeside(Sh!Advanced(s), s)
  BY DEF Sh!Advanced
<1>4. ShBeside(Sh!Erased(s), s)
  BY DEF Sh!Erased
<1>5. ShAside(Sh!Tested(s), s)
  BY DEF Sh!Tested
<1> QED
  BY <1>1, <1>2, <1>3, <1>4, <1>5

LEMMA ShBesideOnward ==
    ASSUME NEW s, NEW t, NEW u, ShBeside(t, s), ShBeside(u, t)
    PROVE  ShBeside(u, s)
  BY DEF ShAside, ShBeside

LEMMA ShRestAside ==
    ASSUME NEW s, DOMAIN s = ShFields
    PROVE  ShBeside(Sh!Rest(s), s)
<1> DEFINE e == Sh!Ends(s, Sh!Pending(s))
           a == Sh!Advanced(e)
<1>1. ShBeside(e, s)
  BY ShPartsAside
<1>2. ShBeside(a, e)
  BY <1>1, ShPartsAside DEF ShAside, ShBeside
<1>3. Sh!Rest(s) = [a EXCEPT !.pending = Sh!kNone]
  BY DEF Sh!Rest
<1> HIDE DEF e, a
<1>4. ShBeside(Sh!Rest(s), a)
  BY <1>2, <1>3 DEF ShAside, ShBeside, ShFields
<1> QED
  BY <1>1, <1>2, <1>4, ShBesideOnward

LEMMA ShPlayAside ==
    ASSUME NEW s, DOMAIN s = ShFields
    PROVE  ShBeside(Sh!Play(s), s)
<1> DEFINE note    == Sh!Clipped(s.data[s.step] + s.last - s.root)
           On(t)   == [t EXCEPT !.sounding = @ \cup {note}]
           e       == Sh!Ends(s, Sh!Pending(s))
           changed == IF s.slide[s.step] THEN Sh!Ends(On(s), Sh!Pending(s)) ELSE On(e)
           a       == Sh!Advanced(changed)
<1>1. Sh!Play(s) = [a EXCEPT !.pending = note]
  BY DEF Sh!Play
<1>2. \A t : DOMAIN t = ShFields => ShBeside(On(t), t)
  BY DEF ShAside, ShBeside, ShFields
<1>3. ShBeside(On(s), s) /\ ShBeside(e, s)
  BY <1>2, ShPartsAside
<1>4. ShBeside(Sh!Ends(On(s), Sh!Pending(s)), On(s)) /\ ShBeside(On(e), e)
  <2> DEFINE o == On(s)
  <2>1. DOMAIN o = ShFields /\ DOMAIN e = ShFields
    BY <1>3 DEF ShAside, ShBeside
  <2> HIDE DEF o, e
  <2>2. ShBeside(Sh!Ends(o, Sh!Pending(s)), o)
    BY <2>1, ShPartsAside
  <2>3. ShBeside(On(e), e)
    BY <1>2, <2>1
  <2> QED
    BY <2>2, <2>3 DEF o
<1>5. ShBeside(changed, s)
  <2>1. CASE s.slide[s.step]
    BY <1>3, <1>4, <2>1, ShBesideOnward
  <2>2. CASE ~s.slide[s.step]
    BY <1>3, <1>4, <2>2, ShBesideOnward
  <2> QED
    BY <2>1, <2>2
<1> HIDE DEF changed
<1>6. ShBeside(a, changed)
  BY <1>5, ShPartsAside DEF ShAside, ShBeside
<1> HIDE DEF a, note
<1>7. ShBeside(Sh!Play(s), a)
  BY <1>1, <1>6 DEF ShAside, ShBeside, ShFields
<1> QED
  BY <1>5, <1>6, <1>7, ShBesideOnward

LEMMA ShTickAside ==
    ASSUME NEW s, DOMAIN s = ShFields
    PROVE  ShBeside(Sh!Tick(s), s)
<1> DEFINE t == [s EXCEPT !.tick = 0]
<1>1. ShBeside(t, s)
  BY DEF ShAside, ShBeside, ShFields
<1>2. DOMAIN t = ShFields
  BY <1>1 DEF ShAside, ShBeside
<1> HIDE DEF t
<1>3. ShBeside(Sh!Advanced(t), t) /\ ShBeside(Sh!Rest(t), t) /\ ShBeside(Sh!Play(t), t)
  BY <1>2, ShPartsAside, ShRestAside, ShPlayAside
<1>4. CASE s.tick + 1 < s.prescaler
  BY <1>4 DEF Sh!Tick, ShAside, ShBeside, ShFields
<1>5. CASE ~(s.tick + 1 < s.prescaler)
  <2>1. \/ Sh!Tick(s) = Sh!Rest(t)
        \/ Sh!Tick(s) = Sh!Advanced(t)
        \/ Sh!Tick(s) = Sh!Play(t)
    BY <1>5 DEF Sh!Tick, t
  <2> QED
    BY <1>1, <1>3, <2>1, ShBesideOnward
<1> QED
  BY <1>4, <1>5

\* 0xfa and 0xfc.
LEMMA ShSentIs ==
    ASSUME NEW s, DOMAIN s = ShFields, NEW value \in BOOLEAN
    PROVE  LET t == Sh!Sent(s, value)
               u == Sh!Told(s, value)
           IN  /\ DOMAIN t = ShFields /\ t.running = s.running /\ t.mode = s.mode /\ t.main = s.main
               /\ t.raced = s.raced
               /\ s.mode = "INTERNAL" => t.told = value /\ t.switched = FALSE
               /\ s.mode # "INTERNAL" => t.told = s.told /\ t.switched = s.switched
               /\ DOMAIN u = ShFields /\ u.running = s.running /\ u.mode = s.mode /\ u.main = s.main
               /\ u.raced = (s.raced \/ s.main # "idle")
               /\ s.mode = "INTERNAL" => u.told = value /\ u.switched = FALSE
               /\ s.mode # "INTERNAL" => u.told = s.told /\ u.switched = s.switched
  BY DEF ShFields, Sh!Sent, Sh!Told

LEMMA ShStopTransport ==
    ASSUME NEW s, ShTransport(s)
    PROVE  ShTransport(Sh!Stop(s))
<1>1. CASE ~s.running
  BY <1>1 DEF Sh!Stop
<1>2. CASE s.running
  <2> DEFINE e == Sh!Ends(s, Sh!Pending(s))
             u == Sh!Told(e, FALSE)
  <2>1. DOMAIN s = ShFields
    BY DEF ShTransport
  <2>2. ShAside(e, s)
    BY <2>1, ShPartsAside DEF ShBeside
  <2> HIDE DEF e
  <2>3. /\ DOMAIN u = ShFields /\ u.mode = e.mode /\ u.main = e.main
        /\ u.raced = (e.raced \/ e.main # "idle")
        /\ e.mode = "INTERNAL" => u.told = FALSE /\ u.switched = FALSE
        /\ e.mode # "INTERNAL" => u.told = e.told /\ u.switched = e.switched
    BY <2>2, ShSentIs DEF ShAside
  <2> HIDE DEF u
  <2>4. Sh!Stop(s) = [u EXCEPT !.running = FALSE, !.pending = Sh!kNone]
    BY <1>2 DEF Sh!Stop, u, e
  <2>5. /\ Sh!Stop(s).running = FALSE /\ Sh!Stop(s).mode = u.mode /\ Sh!Stop(s).main = u.main
        /\ Sh!Stop(s).raced = u.raced /\ Sh!Stop(s).told = u.told
        /\ Sh!Stop(s).switched = u.switched /\ DOMAIN Sh!Stop(s) = ShFields
    BY <2>3, <2>4 DEF ShFields
  <2> QED
    BY <2>2, <2>3, <2>5 DEF ShTransport, ShAside
<1> QED
  BY <1>1, <1>2

LEMMA ShArmedTransport ==
    ASSUME NEW s, ShTransport(s), ~s.running
    PROVE  ShTransport(Sh!Armed(Sh!Told(s, TRUE)))
<1> DEFINE u == Sh!Told(s, TRUE)
           a == Sh!Armed(u)
<1>1. /\ DOMAIN u = ShFields /\ u.mode = s.mode /\ u.main = s.main
      /\ u.raced = (s.raced \/ s.main # "idle")
      /\ s.mode = "INTERNAL" => u.told = TRUE /\ u.switched = FALSE
      /\ s.mode # "INTERNAL" => u.told = s.told /\ u.switched = s.switched
  BY ShSentIs DEF ShTransport
<1> HIDE DEF u
<1>2. /\ a.running = TRUE /\ a.mode = u.mode /\ a.main = u.main
      /\ a.raced = u.raced /\ a.told = u.told /\ a.switched = u.switched /\ DOMAIN a = ShFields
  BY <1>1 DEF ShFields, Sh!Armed
<1> HIDE DEF a
<1>3. ShTransport(a)
  BY <1>1, <1>2 DEF ShTransport
<1> QED
  BY <1>3 DEF a, u

LEMMA ShStartedTransport ==
    ASSUME NEW s, ShTransport(s), NEW t \in Sh!Started(s)
    PROVE  ShTransport(t)
<1>1. CASE s.running
  BY <1>1 DEF Sh!Started
<1>2. CASE ~s.running
  <2> DEFINE a        == Sh!Armed(Sh!Told(s, TRUE))
             Reset(u) == [u EXCEPT !.step = 0]
  <2>1. ShTransport(a) /\ DOMAIN a = ShFields
    BY <1>2, ShArmedTransport DEF ShTransport
  <2>2. \/ t = Sh!Forgotten(Reset(a))
        \/ t = Sh!Forgotten(Reset(Sh!Tick(a)))
        \/ t = Sh!Forgotten(Sh!Tick(Reset(a)))
    BY <1>2 DEF Sh!Started
  <2> HIDE DEF a
  <2>3. \A u : DOMAIN u = ShFields => /\ ShAside(Reset(u), u) /\ ShAside(Sh!Tick(u), u)
                                      /\ ShAside(Sh!Forgotten(u), u)
    <3>1. \A u : DOMAIN u = ShFields => ShAside(Reset(u), u)
      BY DEF ShAside, ShFields
    <3>2. \A u : DOMAIN u = ShFields => ShAside(Sh!Tick(u), u)
      BY ShTickAside DEF ShBeside
    <3>3. \A u : DOMAIN u = ShFields => ShAside(Sh!Forgotten(u), u)
      BY ShPartsAside DEF ShBeside
    <3> QED
      BY <3>1, <3>2, <3>3
  <2>4. \A u, v : ShAside(u, v) => DOMAIN u = ShFields
    BY DEF ShAside
  <2> HIDE DEF Reset
  <2>5. \E u, v : ShAside(u, a) /\ ShAside(v, u) /\ ShAside(t, v)
    <3>1. ShAside(a, a)
      BY <2>1 DEF ShAside
    <3> QED
      BY <2>1, <2>2, <2>3, <2>4, <3>1
  <2> QED
    BY <2>1, <2>5, ShAsideOnward, ShAsideKeeps
<1> QED
  BY <1>1, <1>2

LEMMA ShTransportInit == Sh!Init => ShTransport(state)
  BY DEF Sh!Init, ShTransport, ShFields

\* The steps of the main loop.
LEMMA ShMainTransport ==
    ASSUME ShTransport(state),
           \/ Sh!StopBegins \/ Sh!StopEndsNote \/ Sh!StopSends
           \/ Sh!StartBegins \/ Sh!StartArms \/ Sh!StartResets \/ Sh!StartEnds
           \/ Sh!WriteRunning \/ Sh!Erase \/ Sh!SwitchPlays
           \/ \E on \in BOOLEAN : Sh!WriteRecording(on)
    PROVE  ShTransport(state')
<1> USE DEF ShFields
<1>1. DOMAIN state = ShFields
  BY DEF ShTransport
<1>2. CASE Sh!StopBegins
  BY <1>1, <1>2 DEF Sh!StopBegins, Sh!At, ShTransport
<1>3. CASE Sh!StopEndsNote
  BY <1>1, <1>3 DEF Sh!StopEndsNote, Sh!At, Sh!Ends, ShTransport
<1>4. CASE Sh!StopSends
  BY <1>1, <1>4 DEF Sh!StopSends, Sh!At, Sh!Sent, Sh!Forgotten, ShTransport
<1>5. CASE Sh!StartBegins
  <2> DEFINE u == Sh!Sent(state, TRUE)
  <2>1. /\ DOMAIN u = DOMAIN state /\ u.running = state.running /\ u.mode = state.mode
        /\ u.raced = state.raced
        /\ state.mode = "INTERNAL" => u.told = TRUE /\ u.switched = FALSE
        /\ state.mode # "INTERNAL" => u.told = state.told /\ u.switched = state.switched
    BY <1>1, ShSentIs
  <2>2. CASE state.running /\ Sh!At("idle", state, "kept")
    BY <1>1, <2>2 DEF Sh!At, ShTransport
  <2>3. CASE ~state.running /\ Sh!At("idle", u, "starting")
    <3> HIDE DEF u
    <3> QED
      BY <1>1, <2>1, <2>3 DEF Sh!At, ShTransport
  <2> QED
    BY <1>5, <2>2, <2>3 DEF Sh!StartBegins
<1>6. CASE Sh!StartArms
  BY <1>1, <1>6 DEF Sh!StartArms, Sh!At, Sh!Armed, ShTransport
<1>7. CASE Sh!StartResets
  BY <1>1, <1>7 DEF Sh!StartResets, Sh!At, ShTransport
<1>8. CASE Sh!StartEnds
  BY <1>1, <1>8 DEF Sh!StartEnds, Sh!At, Sh!Forgotten, ShTransport
<1>9. CASE Sh!WriteRunning
  <2>1. CASE Sh!At("kept", [state EXCEPT !.running = TRUE], "idle")
    BY <1>1, <2>1 DEF Sh!At, ShTransport
  <2>2. CASE Sh!At("stopped", Sh!Halted(state), "idle")
    BY <1>1, <2>2 DEF Sh!At, Sh!Halted, ShTransport
  <2> QED
    BY <1>9, <2>1, <2>2 DEF Sh!WriteRunning
<1>10. CASE Sh!Erase
  BY <1>1, <1>10 DEF Sh!Erase, Sh!At, Sh!Erased, ShTransport
<1>11. CASE Sh!SwitchPlays
  <2> DEFINE s == [state EXCEPT !.recording = FALSE]
             u == Sh!Sent(s, TRUE)
  <2>1. ShAside(s, state)
    BY <1>1 DEF ShAside
  <2>2. (state.running /\ Sh!At("idle", s, "idle")) \/ (~state.running /\ Sh!At("idle", u, "starting"))
    BY <1>11 DEF Sh!SwitchPlays
  <2> HIDE DEF s
  <2>3. /\ DOMAIN u = DOMAIN s /\ u.running = s.running /\ u.mode = s.mode /\ u.raced = s.raced
        /\ s.mode = "INTERNAL" => u.told = TRUE /\ u.switched = FALSE
        /\ s.mode # "INTERNAL" => u.told = s.told /\ u.switched = s.switched
    BY <2>1, ShSentIs DEF ShAside
  <2>4. CASE state.running /\ Sh!At("idle", s, "idle")
    BY <2>1, <2>4 DEF Sh!At, ShTransport, ShAside
  <2>5. CASE ~state.running /\ Sh!At("idle", u, "starting")
    <3> HIDE DEF u
    <3> QED
      BY <2>1, <2>3, <2>5 DEF Sh!At, ShTransport, ShAside
  <2> QED
    BY <2>2, <2>4, <2>5
<1>12. ASSUME NEW on \in BOOLEAN, Sh!WriteRecording(on) PROVE ShTransport(state')
  BY <1>1, <1>12 DEF Sh!WriteRecording, Sh!At, ShTransport
<1> QED
  BY <1>2, <1>3, <1>4, <1>5, <1>6, <1>7, <1>8, <1>9, <1>10, <1>11, <1>12

LEMMA ShTransportNext == ShTransport(state) /\ Sh!Next => ShTransport(state')
<1> SUFFICES ASSUME ShTransport(state), Sh!Next PROVE ShTransport(state')
  OBVIOUS
<1> USE DEF ShFields
<1>1. DOMAIN state = ShFields
  BY DEF ShTransport
<1>2. ASSUME NEW cell, NEW forwards, Sh!Write(cell, forwards) PROVE ShAside(state', state)
  BY <1>1, <1>2 DEF Sh!Write, ShAside
<1>3. ASSUME NEW note \in ShParams.Note, Sh!KeyDown(note) PROVE ShTransport(state')
  <2>1. CASE Sh!Write(note, ~state.running)
    BY <1>2, <2>1, ShAsideKeeps
  <2>2. CASE state' = Sh!Stop(state)
    BY <2>2, ShStopTransport
  <2>3. CASE state' = [state EXCEPT !.last = note]
    <3>1. ShAside(state', state)
      BY <1>1, <2>3 DEF ShAside
    <3> QED
      BY <3>1, ShAsideKeeps
  <2>4. CASE \E s \in Sh!Started(state) : state' = [s EXCEPT !.root = note, !.last = note]
    <3>1. PICK s \in Sh!Started(state) : state' = [s EXCEPT !.root = note, !.last = note]
      BY <2>4
    <3>2. ShTransport(s)
      BY ShStartedTransport
    <3>3. ShAside(state', s)
      BY <3>1, <3>2 DEF ShAside, ShTransport
    <3> QED
      BY <3>2, <3>3, ShAsideKeeps
  <2>5. CASE state' = [state EXCEPT !.sounding = @ \cup {note}, !.thru = @ \cup {note}]
    <3>1. ShAside(state', state)
      BY <1>1, <2>5 DEF ShAside
    <3> QED
      BY <3>1, ShAsideKeeps
  <2> QED
    BY <1>3, <2>1, <2>2, <2>3, <2>4, <2>5 DEF Sh!KeyDown
<1>4. ASSUME NEW note \in ShParams.Note, Sh!KeyUp(note) PROVE ShAside(state', state)
  BY <1>1, <1>4 DEF ShAside, Sh!KeyUp, Sh!Ends
<1>5. CASE Sh!Bend
  BY <1>1, <1>5, ShAsideKeeps DEF ShAside, Sh!Bend
<1>6. ASSUME NEW mode \in Sh!Modes, Sh!Clock(mode) PROVE ShAside(state', state)
  BY <1>1, <1>6, ShTickAside DEF Sh!Clock, ShBeside
<1>7. CASE Sh!StartMessage
  BY <1>7, ShStartedTransport DEF Sh!StartMessage
<1>8. CASE Sh!StopMessage
  BY <1>8, ShStopTransport DEF Sh!StopMessage
<1>9. CASE Sh!ContinueMessage
  BY <1>9, ShStartedTransport DEF Sh!ContinueMessage
<1>10. ASSUME NEW on \in BOOLEAN, Sh!SetRunning(on) PROVE ShTransport(state')
  BY <1>10, ShStartedTransport, ShStopTransport DEF Sh!SetRunning
<1>11. ASSUME NEW on \in BOOLEAN, Sh!SetRecording(on) PROVE ShTransport(state')
  <2> DEFINE s == Sh!Stop(state)
             e == Sh!Erased(s)
  <2>1. ShTransport(s) /\ DOMAIN s = ShFields
    BY ShStopTransport DEF ShTransport
  <2> HIDE DEF s
  <2>2. ShAside(e, s)
    BY <2>1, ShPartsAside DEF ShBeside
  <2>3. state' = [e EXCEPT !.num_steps = 0, !.recording = on,
                           !.nested = @ \/ state.recorders # <<>>]
    BY <1>11 DEF Sh!SetRecording, s
  <2> HIDE DEF e
  <2>4. ShAside(state', e)
    BY <2>2, <2>3 DEF ShAside
  <2> QED
    BY <2>1, <2>2, <2>4, ShAsideOnward, ShAsideKeeps
<1>12. ASSUME NEW mode \in Sh!Modes, Sh!SetMode(mode) PROVE ShTransport(state')
  BY <1>12 DEF Sh!SetMode, ShTransport
<1>13. ASSUME NEW prescaler, Sh!SetDivision(prescaler) PROVE ShAside(state', state)
  BY <1>1, <1>13 DEF Sh!SetDivision, ShAside
<1>14. ASSUME NEW cell, Sh!Click(cell) PROVE ShAside(state', state)
  BY <1>2, <1>14 DEF Sh!Click
<1>15. CASE Sh!Count
  <2>1. state' = [[state EXCEPT !.num_steps = (@ + 1) % 256] EXCEPT !.recorders[1].at = "counted"]
    BY <1>15 DEF Sh!Count
  <2>2. ShAside(state', state)
    BY <1>1, <2>1 DEF ShAside
  <2> QED
    BY <2>2, ShAsideKeeps
<1>16. CASE Sh!RecordingEnds
  <2> DEFINE t == [Sh!Tested(state) EXCEPT !.recorders = Tail(@)]
             h == Sh!Heard(t, Head(state.recorders))
  <2>1. ShAside(t, state) /\ DOMAIN t = ShFields
    BY <1>1 DEF Sh!Tested, ShAside
  <2>2. state' = h \/ state' = t
    BY <1>16 DEF Sh!RecordingEnds
  <2> HIDE DEF t
  <2>3. ShAside(h, t)
    BY <2>1 DEF Sh!Heard, ShAside
  <2> QED
    BY <2>1, <2>2, <2>3, ShAsideOnward, ShAsideKeeps
<1>17. CASE Sh!ClickEnds
  BY <1>1, <1>17, ShAsideKeeps DEF Sh!ClickEnds, Sh!At, ShAside
<1> QED
  BY <1>3, <1>4, <1>5, <1>6, <1>7, <1>8, <1>9, <1>10, <1>11, <1>12, <1>13, <1>14, <1>15, <1>16,
     <1>17, ShAsideKeeps, ShMainTransport DEF Sh!Next

-----------------------------------------------------------------------------
(* The SH sequencer: what sounds.                                          *)

ShSound(s) == DOMAIN s = ShFields /\ s.sounding \subseteq Sh!Owed(s) \cup s.thru \cup s.hung

\* The sequencer itself plays nothing.
ShQuiet(s) == DOMAIN s = ShFields /\ s.sounding \subseteq s.thru \cup s.hung

LEMMA ShQuietSounds == ASSUME NEW s, ShQuiet(s) PROVE ShSound(s)
  BY DEF ShQuiet, ShSound

\* t plays what s plays, and still runs if s does.
ShSame(t, s) ==
    /\ DOMAIN t = ShFields /\ t.sounding = s.sounding /\ t.pending = s.pending
    /\ s.thru \subseteq t.thru /\ s.hung \subseteq t.hung
    /\ s.running => t.running
    /\ t.main = s.main \/ s.main # "stopping"

LEMMA ShSameSounds == ASSUME NEW s, NEW t, ShSound(s), ShSame(t, s) PROVE ShSound(t)
  BY DEF ShSound, ShSame, Sh!Owed, Sh!Pending

LEMMA ShSameQuiet == ASSUME NEW s, NEW t, ShQuiet(s), ShSame(t, s) PROVE ShQuiet(t)
  BY DEF ShQuiet, ShSame

LEMMA ShEndsSounds ==
    ASSUME NEW s, ShSound(s), NEW notes
    PROVE  /\ ShSound(Sh!Ends(s, notes))
           /\ ShQuiet(Sh!Ends(s, Sh!Pending(s)))
           /\ ShQuiet(Sh!Forgotten(s))
           /\ ShSound(Sh!Halted(s))
<1> USE DEF ShFields
<1>1. DOMAIN s = ShFields
  BY DEF ShSound
<1>2. ShSound(Sh!Ends(s, notes))
  BY <1>1 DEF ShSound, Sh!Ends, Sh!Owed, Sh!Pending
<1>3. ShQuiet(Sh!Ends(s, Sh!Pending(s)))
  BY <1>1 DEF ShSound, ShQuiet, Sh!Ends, Sh!Owed
<1>4. ShQuiet(Sh!Forgotten(s))
  BY <1>1 DEF ShSound, ShQuiet, Sh!Forgotten, Sh!Owed
<1>5. ShSound(Sh!Halted(s))
  BY <1>1 DEF ShSound, Sh!Halted, Sh!Owed, Sh!Pending
<1> QED
  BY <1>2, <1>3, <1>4, <1>5

LEMMA ShAdvancedSame ==
    ASSUME NEW s, DOMAIN s = ShFields
    PROVE  ShSame(Sh!Advanced(s), s) /\ Sh!Advanced(s).running = s.running
  BY DEF ShSame, ShFields, Sh!Advanced

LEMMA ShRestSounds ==
    ASSUME NEW s, ShSound(s)
    PROVE  ShSound(Sh!Rest(s))
<1> DEFINE e == Sh!Ends(s, Sh!Pending(s))
           a == Sh!Advanced(e)
<1>1. ShQuiet(e)
  BY ShEndsSounds
<1> HIDE DEF e
<1>2. ShQuiet(a)
  BY <1>1, ShAdvancedSame, ShSameQuiet DEF ShQuiet
<1> HIDE DEF a
<1>3. Sh!Rest(s) = [a EXCEPT !.pending = Sh!kNone]
  BY DEF Sh!Rest, a, e
<1>4. ShQuiet(Sh!Rest(s))
  BY <1>2, <1>3 DEF ShQuiet, ShFields
<1> QED
  BY <1>4, ShQuietSounds

\* The note that plays replaces the one that is pending.
LEMMA ShPlaySounds ==
    ASSUME NEW s, ShSound(s), s.running
    PROVE  ShSound(Sh!Play(s))
<1> DEFINE note    == Sh!Clipped(s.data[s.step] + s.last - s.root)
           On(t)   == [t EXCEPT !.sounding = @ \cup {note}]
           changed == IF s.slide[s.step] THEN Sh!Ends(On(s), Sh!Pending(s))
                      ELSE On(Sh!Ends(s, Sh!Pending(s)))
           a       == Sh!Advanced(changed)
<1> USE DEF ShFields
<1>1. DOMAIN s = ShFields
  BY DEF ShSound
<1>2. Sh!Play(s) = [a EXCEPT !.pending = note]
  BY DEF Sh!Play
<1>3. note # Sh!kNone
  BY DEF Sh!Clipped, Sh!kNone
<1> HIDE DEF note
<1>4. /\ DOMAIN changed = ShFields /\ changed.running = s.running
      /\ changed.sounding \subseteq {note} \cup changed.thru \cup changed.hung
  BY <1>1 DEF ShSound, Sh!Ends, Sh!Owed
<1> HIDE DEF changed
<1>5. /\ DOMAIN a = ShFields /\ a.running = s.running
      /\ a.sounding \subseteq {note} \cup a.thru \cup a.hung
  BY <1>4, ShAdvancedSame DEF ShSame
<1> HIDE DEF a
<1> QED
  BY <1>2, <1>3, <1>5 DEF ShSound, Sh!Owed, Sh!Pending

LEMMA ShTickSounds ==
    ASSUME NEW s, ShSound(s), s.running
    PROVE  ShSound(Sh!Tick(s))
<1> DEFINE t == [s EXCEPT !.tick = 0]
<1> USE DEF ShFields
<1>1. ShSame(t, s) /\ t.running
  BY DEF ShSame, ShSound
<1> HIDE DEF t
<1>2. ShSound(t) /\ DOMAIN t = ShFields
  BY <1>1, ShSameSounds DEF ShSame
<1>3. ShSound(Sh!Advanced(t)) /\ ShSound(Sh!Rest(t)) /\ ShSound(Sh!Play(t))
  BY <1>1, <1>2, ShAdvancedSame, ShSameSounds, ShRestSounds, ShPlaySounds
<1>4. CASE s.tick + 1 < s.prescaler
  <2>1. ShSame(Sh!Tick(s), s)
    BY <1>4 DEF Sh!Tick, ShSame, ShSound
  <2> QED
    BY <2>1, ShSameSounds
<1>5. CASE ~(s.tick + 1 < s.prescaler)
  <2>1. \/ Sh!Tick(s) = Sh!Rest(t)
        \/ Sh!Tick(s) = Sh!Advanced(t)
        \/ Sh!Tick(s) = Sh!Play(t)
    BY <1>5 DEF Sh!Tick, t
  <2> QED
    BY <1>3, <2>1
<1> QED
  BY <1>4, <1>5

LEMMA ShToldSame ==
    ASSUME NEW s, DOMAIN s = ShFields, NEW value
    PROVE  ShSame(Sh!Sent(s, value), s) /\ ShSame(Sh!Told(s, value), s)
  BY DEF ShSame, ShFields, Sh!Sent, Sh!Told

LEMMA ShStopSounds ==
    ASSUME NEW s, ShSound(s)
    PROVE  ShSound(Sh!Stop(s))
<1>1. CASE ~s.running
  BY <1>1 DEF Sh!Stop
<1>2. CASE s.running
  <2> DEFINE e == Sh!Ends(s, Sh!Pending(s))
             u == Sh!Told(e, FALSE)
  <2>1. ShQuiet(e)
    BY ShEndsSounds
  <2> HIDE DEF e
  <2>2. ShQuiet(u)
    BY <2>1, ShToldSame, ShSameQuiet DEF ShQuiet
  <2> HIDE DEF u
  <2>3. Sh!Stop(s) = [u EXCEPT !.running = FALSE, !.pending = Sh!kNone]
    BY <1>2 DEF Sh!Stop, u, e
  <2>4. ShQuiet(Sh!Stop(s))
    BY <2>2, <2>3 DEF ShQuiet, ShFields
  <2> QED
    BY <2>4, ShQuietSounds
<1> QED
  BY <1>1, <1>2

LEMMA ShArmedSounds ==
    ASSUME NEW s, ShSound(s)
    PROVE  ShSound(Sh!Armed(s)) /\ Sh!Armed(s).running
<1>1. ShSame(Sh!Armed(s), s) /\ Sh!Armed(s).running
  BY DEF ShSame, ShSound, ShFields, Sh!Armed
<1> QED
  BY <1>1, ShSameSounds

LEMMA ShStartedSounds ==
    ASSUME NEW s, ShSound(s), NEW t \in Sh!Started(s)
    PROVE  ShSound(t)
<1>1. CASE s.running
  BY <1>1 DEF Sh!Started
<1>2. CASE ~s.running
  <2> DEFINE a        == Sh!Armed(Sh!Told(s, TRUE))
             Reset(u) == [u EXCEPT !.step = 0]
  <2>1. ShSound(a) /\ a.running
    BY ShToldSame, ShSameSounds, ShArmedSounds DEF ShSound
  <2>2. \/ t = Sh!Forgotten(Reset(a))
        \/ t = Sh!Forgotten(Reset(Sh!Tick(a)))
        \/ t = Sh!Forgotten(Sh!Tick(Reset(a)))
    BY <1>2 DEF Sh!Started
  <2> HIDE DEF a
  <2>3. ASSUME NEW u, ShSound(u) PROVE ShSound(Reset(u)) /\ (u.running => Reset(u).running)
    <3>1. ShSame(Reset(u), u) /\ Reset(u).running = u.running
      BY <2>3 DEF ShSame, ShSound, ShFields
    <3> QED
      BY <2>3, <3>1, ShSameSounds
  <2> HIDE DEF Reset
  <2>4. ShSound(Reset(a)) /\ ShSound(Reset(Sh!Tick(a))) /\ ShSound(Sh!Tick(Reset(a)))
    BY <2>1, <2>3, ShTickSounds
  <2> QED
    BY <2>2, <2>4, ShEndsSounds, ShQuietSounds
<1> QED
  BY <1>1, <1>2

LEMMA ShMainSounds ==
    ASSUME ShSound(state),
           \/ Sh!StopBegins \/ Sh!StopEndsNote \/ Sh!StopSends
           \/ Sh!StartBegins \/ Sh!StartArms \/ Sh!StartResets \/ Sh!StartEnds
           \/ Sh!WriteRunning \/ Sh!Erase \/ Sh!SwitchPlays
           \/ \E on \in BOOLEAN : Sh!WriteRecording(on)
    PROVE  ShSound(state')
<1> USE DEF ShFields
<1>1. DOMAIN state = ShFields
  BY DEF ShSound
<1>2. CASE Sh!StopBegins
  BY <1>1, <1>2 DEF Sh!StopBegins, Sh!At, ShSound, Sh!Owed, Sh!Pending
<1>3. CASE Sh!StopEndsNote
  <2> DEFINE e == Sh!Ends(state, Sh!Pending(state))
  <2>1. ShQuiet(e)
    BY ShEndsSounds
  <2>2. state' = [e EXCEPT !.main = "ended"]
    BY <1>3 DEF Sh!StopEndsNote, Sh!At
  <2> HIDE DEF e
  <2>3. ShQuiet(state')
    BY <2>1, <2>2 DEF ShQuiet
  <2> QED
    BY <2>3, ShQuietSounds
<1>4. CASE Sh!StopSends
  <2> DEFINE f == Sh!Forgotten(state)
             u == Sh!Sent(f, FALSE)
  <2>1. ShQuiet(f)
    BY ShEndsSounds
  <2>2. state' = [u EXCEPT !.main = "stopped"]
    BY <1>4 DEF Sh!StopSends, Sh!At
  <2> HIDE DEF f
  <2>3. ShQuiet(u)
    BY <2>1, ShToldSame, ShSameQuiet DEF ShQuiet
  <2> HIDE DEF u
  <2>4. ShQuiet(state')
    BY <2>2, <2>3 DEF ShQuiet
  <2> QED
    BY <2>4, ShQuietSounds
<1>5. CASE Sh!StartEnds
  <2> DEFINE f == Sh!Forgotten(state)
  <2>1. ShQuiet(f)
    BY ShEndsSounds
  <2>2. PICK running : state' = [[f EXCEPT !.running = running] EXCEPT !.main = "idle"]
    BY <1>5 DEF Sh!StartEnds, Sh!At
  <2> HIDE DEF f
  <2>3. ShQuiet(state')
    BY <2>1, <2>2 DEF ShQuiet
  <2> QED
    BY <2>3, ShQuietSounds
<1>6. CASE Sh!WriteRunning
  <2>1. CASE Sh!At("kept", [state EXCEPT !.running = TRUE], "idle")
    <3>1. ShSame(state', state)
      BY <1>1, <2>1 DEF Sh!At, ShSame
    <3> QED
      BY <3>1, ShSameSounds
  <2>2. CASE Sh!At("stopped", Sh!Halted(state), "idle")
    <3> DEFINE h == Sh!Halted(state)
    <3>1. ShSound(h) /\ h.main = "stopped" /\ state' = [h EXCEPT !.main = "idle"]
      BY <1>1, <2>2, ShEndsSounds DEF Sh!At, Sh!Halted
    <3> HIDE DEF h
    <3>2. ShSame(state', h)
      BY <3>1 DEF ShSame, ShSound
    <3> QED
      BY <3>1, <3>2, ShSameSounds
  <2> QED
    BY <1>6, <2>1, <2>2 DEF Sh!WriteRunning
\* These leave alone what plays.
<1>7. ASSUME Sh!StartArms \/ Sh!StartResets \/ Sh!Erase \/ \E on \in BOOLEAN : Sh!WriteRecording(on)
      PROVE  ShSound(state')
  <2>1. CASE Sh!StartArms
    BY <1>1, <2>1, ShSameSounds DEF ShSame, Sh!At, Sh!StartArms, Sh!Armed
  <2>2. CASE Sh!StartResets
    BY <1>1, <2>2, ShSameSounds DEF ShSame, Sh!At, Sh!StartResets
  <2>3. CASE Sh!Erase
    BY <1>1, <2>3, ShSameSounds DEF ShSame, Sh!At, Sh!Erase, Sh!Erased
  <2>4. ASSUME NEW on \in BOOLEAN, Sh!WriteRecording(on) PROVE ShSound(state')
    BY <1>1, <2>4, ShSameSounds DEF ShSame, Sh!At, Sh!WriteRecording
  <2> QED
    BY <1>7, <2>1, <2>2, <2>3, <2>4
<1>8. ASSUME Sh!StartBegins \/ Sh!SwitchPlays
      PROVE  ShSound(state')
  <2> DEFINE s        == [state EXCEPT !.recording = FALSE]
             Moves(u) == \E next : Sh!At("idle", u, next)
  <2>1. ShSame(s, state) /\ ShSame(state, state) /\ s.main = state.main
    BY <1>1 DEF ShSame
  <2>2. PICK u \in {state, s, Sh!Sent(state, TRUE), Sh!Sent(s, TRUE)} : Moves(u)
    <3>1. CASE Sh!StartBegins
      BY <3>1 DEF Sh!StartBegins
    <3>2. CASE Sh!SwitchPlays
      BY <3>2 DEF Sh!SwitchPlays
    <3> QED
      BY <1>8, <3>1, <3>2
  <2>3. PICK next : Sh!At("idle", u, next)
    BY <2>2
  <2> HIDE DEF s, Moves
  <2>4. ShSound(s)
    BY <2>1, ShSameSounds
  <2>5. ShSound(u) /\ u.main = state.main
    <3>1. Sh!Sent(state, TRUE).main = state.main /\ Sh!Sent(s, TRUE).main = s.main
      BY <1>1, <2>4 DEF Sh!Sent, ShSound
    <3> QED
      BY <1>1, <2>1, <2>2, <2>4, <3>1, ShToldSame, ShSameSounds DEF ShSound
  <2>6. ShSame(state', u)
    BY <2>3, <2>5 DEF Sh!At, ShSame, ShSound
  <2> QED
    BY <2>5, <2>6, ShSameSounds
<1> QED
  BY <1>2, <1>3, <1>4, <1>5, <1>6, <1>7, <1>8

LEMMA ShSoundNext == ShSound(state) /\ Sh!Next => ShSound(state')
<1> SUFFICES ASSUME ShSound(state), Sh!Next PROVE ShSound(state')
  OBVIOUS
<1> USE DEF ShFields
<1>1. DOMAIN state = ShFields
  BY DEF ShSound
<1>2. ASSUME NEW cell, NEW forwards, Sh!Write(cell, forwards) PROVE ShSound(state')
  <2>1. ShSame(state', state)
    BY <1>1, <1>2 DEF Sh!Write, ShSame
  <2> QED
    BY <2>1, ShSameSounds
<1>3. ASSUME NEW note \in ShParams.Note, Sh!KeyDown(note) PROVE ShSound(state')
  <2>1. CASE Sh!Write(note, ~state.running)
    BY <1>2, <2>1
  <2>2. CASE state' = Sh!Stop(state)
    BY <2>2, ShStopSounds
  <2>3. CASE state' = [state EXCEPT !.last = note]
    <3>1. ShSame(state', state)
      BY <1>1, <2>3 DEF ShSame
    <3> QED
      BY <3>1, ShSameSounds
  <2>4. CASE \E s \in Sh!Started(state) : state' = [s EXCEPT !.root = note, !.last = note]
    <3>1. PICK s \in Sh!Started(state) : state' = [s EXCEPT !.root = note, !.last = note]
      BY <2>4
    <3>2. ShSound(s)
      BY ShStartedSounds
    <3>3. ShSame(state', s)
      BY <3>1, <3>2 DEF ShSame, ShSound
    <3> QED
      BY <3>2, <3>3, ShSameSounds
  <2>5. CASE state' = [state EXCEPT !.sounding = @ \cup {note}, !.thru = @ \cup {note}]
    BY <1>1, <2>5 DEF ShSound, Sh!Owed, Sh!Pending
  <2> QED
    BY <1>3, <2>1, <2>2, <2>3, <2>4, <2>5 DEF Sh!KeyDown
<1>4. ASSUME NEW note \in ShParams.Note, Sh!KeyUp(note) PROVE ShSound(state')
  BY <1>1, <1>4 DEF ShSound, Sh!KeyUp, Sh!Ends, Sh!Owed, Sh!Pending
<1>5. ASSUME NEW mode \in Sh!Modes, Sh!Clock(mode) PROVE ShSound(state')
  BY <1>5, ShTickSounds DEF Sh!Clock
<1>6. CASE Sh!StartMessage \/ Sh!ContinueMessage
  BY <1>6, ShStartedSounds DEF Sh!StartMessage, Sh!ContinueMessage
<1>7. CASE Sh!StopMessage
  BY <1>7, ShStopSounds DEF Sh!StopMessage
<1>8. ASSUME NEW on \in BOOLEAN, Sh!SetRunning(on) PROVE ShSound(state')
  BY <1>8, ShStartedSounds, ShStopSounds DEF Sh!SetRunning
<1>9. ASSUME NEW on \in BOOLEAN, Sh!SetRecording(on) PROVE ShSound(state')
  <2> DEFINE s == Sh!Stop(state)
  <2>1. ShSound(s)
    BY ShStopSounds
  <2>2. state' = [Sh!Erased(s) EXCEPT !.num_steps = 0, !.recording = on,
                                      !.nested = @ \/ state.recorders # <<>>]
    BY <1>9 DEF Sh!SetRecording
  <2> HIDE DEF s
  <2>3. ShSame(state', s)
    BY <2>1, <2>2 DEF ShSame, ShSound, Sh!Erased
  <2> QED
    BY <2>1, <2>3, ShSameSounds
\* These leave alone what plays.
<1>10. ASSUME \/ Sh!Bend
              \/ \E mode \in Sh!Modes : Sh!SetMode(mode)
              \/ \E prescaler \in ShParams.Prescalers : Sh!SetDivision(prescaler)
              \/ Sh!ClickEnds
       PROVE  ShSound(state')
  <2>1. ShSame(state', state)
    BY <1>1, <1>10 DEF ShSame, Sh!Bend, Sh!SetMode, Sh!SetDivision, Sh!ClickEnds, Sh!At
  <2> QED
    BY <2>1, ShSameSounds
<1>11. CASE Sh!Count
  <2>1. state' = [[state EXCEPT !.num_steps = (@ + 1) % 256] EXCEPT !.recorders[1].at = "counted"]
    BY <1>11 DEF Sh!Count
  <2>2. ShSame(state', state)
    BY <1>1, <2>1 DEF ShSame
  <2> QED
    BY <2>2, ShSameSounds
<1>12. ASSUME NEW cell, Sh!Click(cell) PROVE ShSound(state')
  BY <1>2, <1>12 DEF Sh!Click
<1>13. CASE Sh!RecordingEnds
  <2> DEFINE t == [Sh!Tested(state) EXCEPT !.recorders = Tail(@)]
             h == Sh!Heard(t, Head(state.recorders))
  <2>1. ShSame(t, state)
    BY <1>1 DEF Sh!Tested, ShSame
  <2>2. state' = h \/ state' = t
    BY <1>13 DEF Sh!RecordingEnds
  <2> HIDE DEF t
  <2>3. ShSound(t)
    BY <2>1, ShSameSounds
  <2>4. ShSound(h)
    <3> DEFINE note == Head(state.recorders).cell
               f == IF Head(state.recorders).forwards
                      THEN [t EXCEPT !.sounding = @ \cup {note}, !.hung = @ \cup ({note} \ t.thru)]
                      ELSE t
    <3>1. ShSound(f)
      BY <2>3 DEF ShSound, Sh!Owed, Sh!Pending
    <3>2. h = f \/ h = [f EXCEPT !.last = note]
      BY DEF Sh!Heard
    <3> HIDE DEF f
    <3>3. ShSame([f EXCEPT !.last = note], f)
      BY <3>1 DEF ShSame, ShSound
    <3> QED
      BY <3>1, <3>2, <3>3, ShSameSounds
  <2> QED
    BY <2>2, <2>3, <2>4
<1> QED
  BY <1>3, <1>4, <1>5, <1>6, <1>7, <1>8, <1>9, <1>10, <1>11, <1>12, <1>13, ShMainSounds DEF Sh!Next

-----------------------------------------------------------------------------
(* The SH sequencer: what is recorded.                                     *)

ShLast == ShParams.kShSequencerNumSteps

\* Until a recording interrupts another: at most one step is being recorded, and it
\* has a step to be counted in.
ShRecords(s) ==
    /\ s.num_steps \in 0 .. ShLast
    /\ \/ s.recorders = <<>>
       \/ \E f : s.recorders = <<f>> /\ "at" \in DOMAIN f /\ (f.at = "counted" \/ s.num_steps < ShLast)
    /\ s.recorders # <<>> => s.main # "erasing"
    /\ s.recorders = <<>> /\ s.recording /\ s.main # "erasing" => s.num_steps < ShLast

ShBounds(s) ==
    /\ DOMAIN s = ShFields /\ s.recording \in BOOLEAN /\ s.nested \in BOOLEAN
    /\ ~s.nested => ShRecords(s)

\* t is s but for members that a recording does not depend on.
ShKeeps(t, s) ==
    /\ DOMAIN t = ShFields /\ t.recording = s.recording /\ t.num_steps = s.num_steps
    /\ t.recorders = s.recorders /\ t.nested = s.nested /\ t.main = s.main

LEMMA ShKeepsBounds == ASSUME NEW s, NEW t, ShBounds(s), ShKeeps(t, s) PROVE ShBounds(t)
  BY DEF ShBounds, ShRecords, ShKeeps

LEMMA ShKeepsOnward ==
    ASSUME NEW s, NEW t, NEW u, ShKeeps(t, s), ShKeeps(u, t)
    PROVE  ShKeeps(u, s)
  BY DEF ShKeeps

LEMMA ShBesideKeeps == ASSUME NEW s, NEW t, ShBeside(t, s) PROVE ShKeeps(t, s)
  BY DEF ShBeside, ShAside, ShKeeps

LEMMA ShSentKeeps ==
    ASSUME NEW s, DOMAIN s = ShFields, NEW value
    PROVE  ShKeeps(Sh!Sent(s, value), s) /\ ShKeeps(Sh!Told(s, value), s)
  BY DEF ShKeeps, ShFields, Sh!Sent, Sh!Told

LEMMA ShStopKeeps ==
    ASSUME NEW s, DOMAIN s = ShFields
    PROVE  ShKeeps(Sh!Stop(s), s)
<1>1. CASE ~s.running
  BY <1>1 DEF Sh!Stop, ShKeeps
<1>2. CASE s.running
  <2> DEFINE e == Sh!Ends(s, Sh!Pending(s))
             u == Sh!Told(e, FALSE)
  <2>1. ShKeeps(e, s)
    BY ShPartsAside, ShBesideKeeps
  <2> HIDE DEF e
  <2>2. ShKeeps(u, e)
    BY <2>1, ShSentKeeps DEF ShKeeps
  <2> HIDE DEF u
  <2>3. Sh!Stop(s) = [u EXCEPT !.running = FALSE, !.pending = Sh!kNone]
    BY <1>2 DEF Sh!Stop, u, e
  <2>4. ShKeeps(Sh!Stop(s), u)
    BY <2>2, <2>3 DEF ShKeeps, ShFields
  <2> QED
    BY <2>1, <2>2, <2>4, ShKeepsOnward
<1> QED
  BY <1>1, <1>2

LEMMA ShStartedKeeps ==
    ASSUME NEW s, DOMAIN s = ShFields, NEW t \in Sh!Started(s)
    PROVE  ShKeeps(t, s)
<1>1. CASE s.running
  BY <1>1 DEF Sh!Started, ShKeeps
<1>2. CASE ~s.running
  <2> DEFINE u        == Sh!Told(s, TRUE)
             a        == Sh!Armed(u)
             Reset(v) == [v EXCEPT !.step = 0]
  <2>1. ShKeeps(u, s)
    BY ShSentKeeps
  <2> HIDE DEF u
  <2>2. ShKeeps(a, u)
    BY <2>1 DEF ShKeeps, ShFields, Sh!Armed
  <2>3. \/ t = Sh!Forgotten(Reset(a))
        \/ t = Sh!Forgotten(Reset(Sh!Tick(a)))
        \/ t = Sh!Forgotten(Sh!Tick(Reset(a)))
    BY <1>2 DEF Sh!Started, u
  <2> HIDE DEF a
  <2>4. ASSUME NEW v, ShKeeps(v, s)
        PROVE  ShKeeps(Reset(v), s) /\ ShKeeps(Sh!Tick(v), s) /\ ShKeeps(Sh!Forgotten(v), s)
    <3>1. DOMAIN v = ShFields
      BY <2>4 DEF ShKeeps
    <3>2. ShKeeps(Reset(v), v)
      BY <3>1 DEF ShKeeps, ShFields
    <3>3. ShKeeps(Sh!Tick(v), v) /\ ShKeeps(Sh!Forgotten(v), v)
      BY <3>1, ShTickAside, ShPartsAside, ShBesideKeeps
    <3> QED
      BY <2>4, <3>2, <3>3, ShKeepsOnward
  <2> HIDE DEF Reset
  <2>5. ShKeeps(a, s)
    BY <2>1, <2>2, ShKeepsOnward
  <2> QED
    BY <2>3, <2>4, <2>5
<1> QED
  BY <1>1, <1>2

LEMMA ShOneRecorder ==
    ASSUME NEW f, NEW g
    PROVE  /\ <<f>> \o <<>> = <<f>> /\ <<f>> # <<>> /\ Tail(<<f>>) = <<>> /\ Head(<<f>>) = f
           /\ [<<f>> EXCEPT ![1] = g] = <<g>> /\ <<f>>[1] = f
  OBVIOUS

LEMMA ShWriteBounds ==
    ASSUME ShBounds(state), state.recording, NEW cell, NEW forwards, Sh!Write(cell, forwards)
    PROVE  ShBounds(state')
<1> USE DEF ShFields
<1> DEFINE f == [cell |-> cell, at |-> "written", forwards |-> forwards]
<1>1. /\ DOMAIN state' = ShFields /\ state'.recording = state.recording
      /\ state'.num_steps = state.num_steps /\ state'.main = state.main
      /\ state'.recorders = <<f>> \o state.recorders
      /\ state'.nested = (state.nested \/ state.recorders # <<>> \/ state.main = "erasing")
  BY DEF ShBounds, Sh!Write
<1>2. ASSUME ~state'.nested PROVE ShRecords(state')
  <2>1. state.recorders = <<>> /\ state.main # "erasing" /\ ~state.nested
    BY <1>1, <1>2
  <2>2. state.num_steps \in 0 .. ShLast /\ state.num_steps < ShLast
    BY <2>1 DEF ShBounds, ShRecords
  <2>3. state'.recorders = <<f>> /\ state'.recorders # <<>>
    BY <1>1, <2>1, ShOneRecorder
  <2> QED
    BY <1>1, <2>1, <2>2, <2>3 DEF ShRecords
<1> QED
  BY <1>1, <1>2 DEF ShBounds

LEMMA ShCountBounds ==
    ASSUME ShBounds(state), Sh!Count
    PROVE  ShBounds(state')
<1> USE DEF ShFields
<1>1. DOMAIN state = ShFields
  BY DEF ShBounds
<1>2. state' = [[state EXCEPT !.num_steps = (@ + 1) % 256] EXCEPT !.recorders[1].at = "counted"]
  BY DEF Sh!Count
<1>3. /\ DOMAIN state' = ShFields /\ state'.recording = state.recording /\ state'.main = state.main
      /\ state'.nested = state.nested /\ state'.num_steps = (state.num_steps + 1) % 256
      /\ state'.recorders = [state.recorders EXCEPT ![1] = [@ EXCEPT !.at = "counted"]]
  BY <1>1, <1>2
<1>4. ASSUME ~state.nested PROVE ShRecords(state')
  <2>1. ShRecords(state) /\ state.recorders # <<>> /\ Head(state.recorders).at = "written"
    BY <1>4 DEF ShBounds, Sh!Count
  <2>2. PICK f : state.recorders = <<f>> /\ "at" \in DOMAIN f /\ (f.at = "counted" \/ state.num_steps < ShLast)
    BY <2>1 DEF ShRecords
  <2>3. state.num_steps < ShLast
    BY <2>1, <2>2, ShOneRecorder
  <2>4. state'.num_steps \in 0 .. ShLast
    <3> DEFINE n == state.num_steps + 1
               m == n % 256
    <3>1. n \in 1 .. ShLast
      BY <2>1, <2>3, ShAssumption DEF ShRecords, ShLast
    <3>2. CASE n <= 255
      <4>1. m = n
        <5>1. n \in 0 .. 256 - 1 /\ 256 \in Nat \ {0}
          BY <3>1, <3>2, ShAssumption DEF ShLast
        <5> QED
          BY <5>1, RemainderIs, Zenon
      <4> QED
        BY <1>3, <3>1, <4>1
    <3>3. CASE n > 255
      <4>1. m \in 0 .. 256 - 1
        <5>1. n \in Int /\ 256 \in Nat \ {0}
          BY <3>1
        <5> QED
          BY <5>1, RemainderIn, Zenon
      <4> HIDE DEF n, m
      <4>2. m \in 0 .. ShLast
        BY <3>1, <3>3, <4>1, ShAssumption DEF ShLast
      <4> QED
        BY <1>3, <4>2 DEF n, m
    <3> QED
      BY <3>1, <3>2, <3>3, ShAssumption
  <2>5. state'.recorders = <<[f EXCEPT !.at = "counted"]>> /\ state'.recorders # <<>>
    BY <1>3, <2>2, ShOneRecorder
  <2>6. "at" \in DOMAIN [f EXCEPT !.at = "counted"] /\ [f EXCEPT !.at = "counted"].at = "counted"
    BY <2>2
  <2> QED
    BY <1>3, <2>1, <2>4, <2>5, <2>6 DEF ShRecords
<1> QED
  BY <1>3, <1>4 DEF ShBounds

LEMMA ShRecordingEndsBounds ==
    ASSUME ShBounds(state), Sh!RecordingEnds
    PROVE  ShBounds(state')
<1> USE DEF ShFields
<1> DEFINE u == Sh!Tested(state)
           t == [u EXCEPT !.recorders = Tail(@)]
           h == Sh!Heard(t, Head(state.recorders))
<1>1. /\ DOMAIN u = ShFields /\ u.num_steps = state.num_steps /\ u.main = state.main
      /\ u.nested = state.nested /\ u.recorders = state.recorders
      /\ u.recording = (state.recording /\ state.num_steps # ShLast)
  BY DEF ShBounds, Sh!Tested, ShLast
<1>2. (state' = h \/ state' = t) /\ state.recorders # <<>>
  BY DEF Sh!RecordingEnds
<1> HIDE DEF u
<1>3. /\ DOMAIN t = ShFields /\ t.num_steps = u.num_steps /\ t.main = u.main
      /\ t.nested = u.nested /\ t.recorders = Tail(u.recorders) /\ t.recording = u.recording
  BY <1>1
<1> HIDE DEF t
<1>4. ShKeeps(h, t)
  BY <1>3 DEF Sh!Heard, ShKeeps
<1>5. ASSUME ~state.nested PROVE ShRecords(t)
  <2>1. ShRecords(state)
    BY <1>5 DEF ShBounds
  <2>2. PICK f : state.recorders = <<f>>
    BY <1>2, <2>1 DEF ShRecords
  <2>3. t.recorders = <<>>
    BY <1>1, <1>3, <2>2, ShOneRecorder
  <2>4. t.recording => t.num_steps < ShLast
    <3> SUFFICES ASSUME t.recording PROVE t.num_steps < ShLast
      OBVIOUS
    <3>1. t.num_steps = state.num_steps /\ state.num_steps # ShLast
      BY <1>1, <1>3
    <3>2. state.num_steps \in 0 .. ShLast
      BY <2>1 DEF ShRecords
    <3> QED
      BY <3>1, <3>2, ShAssumption DEF ShLast
  <2> QED
    BY <1>1, <1>3, <2>1, <2>3, <2>4 DEF ShRecords
<1>6. ShBounds(t)
  BY <1>1, <1>3, <1>5 DEF ShBounds
<1> QED
  BY <1>2, <1>4, <1>6, ShKeepsBounds

\* The main loop, which waits until no step is being recorded.
LEMMA ShMainBounds ==
    ASSUME ShBounds(state),
           \/ Sh!StopBegins \/ Sh!StopEndsNote \/ Sh!StopSends
           \/ Sh!StartBegins \/ Sh!StartArms \/ Sh!StartResets \/ Sh!StartEnds
           \/ Sh!WriteRunning \/ Sh!Erase \/ Sh!SwitchPlays
           \/ \E on \in BOOLEAN : Sh!WriteRecording(on)
    PROVE  ShBounds(state')
<1> USE DEF ShFields
<1>1. DOMAIN state = ShFields
  BY DEF ShBounds
<1>2. ASSUME NEW s, ShKeeps(s, state), NEW place, NEW next, Sh!At(place, s, next),
             place # "erasing"
      PROVE  ShBounds(state')
  <2>1. /\ state' = [s EXCEPT !.main = next] /\ state.main = place /\ state.recorders = <<>>
    BY <1>2 DEF Sh!At
  <2>2. /\ DOMAIN state' = ShFields /\ state'.num_steps = s.num_steps
        /\ state'.recording = s.recording /\ state'.recorders = s.recorders
        /\ state'.nested = s.nested
    BY <1>2, <2>1 DEF ShKeeps
  <2> QED
    BY <1>2, <2>1, <2>2 DEF ShBounds, ShRecords, ShKeeps
<1>3. ShKeeps(state, state)
  BY <1>1 DEF ShKeeps
<1>4. CASE Sh!StopBegins
  <2>1. ShKeeps([state EXCEPT !.running = FALSE], state)
    BY <1>1 DEF ShKeeps
  <2> QED
    BY <1>2, <1>3, <1>4, <2>1 DEF Sh!StopBegins
<1>5. CASE Sh!StopEndsNote
  <2>1. ShKeeps(Sh!Ends(state, Sh!Pending(state)), state)
    BY <1>1, ShPartsAside, ShBesideKeeps
  <2> QED
    BY <1>2, <1>5, <2>1 DEF Sh!StopEndsNote
<1>6. CASE Sh!StopSends
  <2> DEFINE f == Sh!Forgotten(state)
  <2>1. ShKeeps(f, state)
    BY <1>1, ShPartsAside, ShBesideKeeps
  <2> HIDE DEF f
  <2>2. ShKeeps(Sh!Sent(f, FALSE), f)
    BY <2>1, ShSentKeeps DEF ShKeeps
  <2>3. ShKeeps(Sh!Sent(f, FALSE), state)
    BY <2>1, <2>2, ShKeepsOnward
  <2> QED
    BY <1>2, <1>6, <2>3 DEF Sh!StopSends, f
<1>7. CASE Sh!StartBegins
  <2>1. ShKeeps(Sh!Sent(state, TRUE), state)
    BY <1>1, ShSentKeeps
  <2> QED
    BY <1>2, <1>3, <1>7, <2>1 DEF Sh!StartBegins
<1>8. CASE Sh!StartArms
  <2>1. ShKeeps(Sh!Armed(state), state)
    BY <1>1 DEF ShKeeps, Sh!Armed
  <2> QED
    BY <1>2, <1>8, <2>1 DEF Sh!StartArms
<1>9. CASE Sh!StartResets
  <2>1. ShKeeps([state EXCEPT !.step = 0], state)
    BY <1>1 DEF ShKeeps
  <2> QED
    BY <1>2, <1>9, <2>1 DEF Sh!StartResets
<1>10. CASE Sh!StartEnds
  <2> DEFINE f == Sh!Forgotten(state)
  <2>1. ShKeeps(f, state)
    BY <1>1, ShPartsAside, ShBesideKeeps
  <2>2. PICK running : Sh!At("reset", [f EXCEPT !.running = running], "idle")
    BY <1>10 DEF Sh!StartEnds
  <2> HIDE DEF f
  <2>3. ShKeeps([f EXCEPT !.running = running], state)
    BY <2>1 DEF ShKeeps
  <2> QED
    BY <1>2, <2>2, <2>3
<1>11. CASE Sh!WriteRunning
  <2>1. ShKeeps([state EXCEPT !.running = TRUE], state) /\ ShKeeps(Sh!Halted(state), state)
    BY <1>1 DEF ShKeeps, Sh!Halted
  <2> QED
    BY <1>2, <1>11, <2>1 DEF Sh!WriteRunning
<1>12. CASE Sh!Erase
  <2> DEFINE e == Sh!Erased(state)
  <2>1. ShKeeps(e, state)
    BY <1>1, ShPartsAside, ShBesideKeeps
  <2>2. /\ state' = [[e EXCEPT !.recording = TRUE] EXCEPT !.main = "erasing"]
        /\ state.recorders = <<>> /\ state.main = "stopped"
    BY <1>12 DEF Sh!Erase, Sh!At
  <2> HIDE DEF e
  <2>3. /\ DOMAIN state' = ShFields /\ state'.num_steps = e.num_steps /\ state'.recording = TRUE
        /\ state'.recorders = e.recorders /\ state'.nested = e.nested /\ state'.main = "erasing"
    BY <2>1, <2>2 DEF ShKeeps
  <2> QED
    BY <2>1, <2>2, <2>3 DEF ShBounds, ShRecords, ShKeeps
<1>13. CASE Sh!SwitchPlays
  <2> DEFINE s        == [state EXCEPT !.recording = FALSE]
             Moves(u) == \E next : Sh!At("idle", u, next)
  <2>1. /\ DOMAIN s = ShFields /\ s.num_steps = state.num_steps /\ s.recording = FALSE
        /\ s.recorders = state.recorders /\ s.nested = state.nested /\ s.main = state.main
    BY <1>1
  <2>2. PICK u \in {s, Sh!Sent(s, TRUE)} : Moves(u)
    BY <1>13 DEF Sh!SwitchPlays
  <2>3. PICK next : Sh!At("idle", u, next)
    BY <2>2
  <2> HIDE DEF s, Moves
  <2>4. ShKeeps(u, s)
    <3>1. ShKeeps(s, s) /\ ShKeeps(Sh!Sent(s, TRUE), s)
      BY <2>1, ShSentKeeps DEF ShKeeps
    <3> QED
      BY <2>2, <3>1
  <2>5. state' = [u EXCEPT !.main = next] /\ state.recorders = <<>> /\ state.main = "idle"
    BY <2>3 DEF Sh!At
  <2>6. /\ DOMAIN state' = ShFields /\ state'.num_steps = u.num_steps
        /\ state'.recording = u.recording /\ state'.recorders = u.recorders
        /\ state'.nested = u.nested
    BY <2>4, <2>5 DEF ShKeeps
  <2> QED
    BY <2>1, <2>4, <2>5, <2>6 DEF ShBounds, ShRecords, ShKeeps
<1>14. ASSUME NEW on \in BOOLEAN, Sh!WriteRecording(on) PROVE ShBounds(state')
  <2>1. /\ DOMAIN state' = ShFields /\ state'.num_steps = 0 /\ state'.recording = on
        /\ state'.recorders = <<>> /\ state'.nested = state.nested /\ state'.main = "idle"
    BY <1>1, <1>14 DEF Sh!WriteRecording, Sh!At
  <2> QED
    BY <1>14, <2>1, ShAssumption DEF ShBounds, ShRecords, ShLast
<1> QED
  BY <1>4, <1>5, <1>6, <1>7, <1>8, <1>9, <1>10, <1>11, <1>12, <1>13, <1>14

LEMMA ShBoundsNext == ShBounds(state) /\ Sh!Next => ShBounds(state')
<1> SUFFICES ASSUME ShBounds(state), Sh!Next PROVE ShBounds(state')
  OBVIOUS
<1> USE DEF ShFields
<1>1. DOMAIN state = ShFields
  BY DEF ShBounds
<1>2. ASSUME NEW note \in ShParams.Note, Sh!KeyDown(note) PROVE ShBounds(state')
  <2>1. CASE state.recording /\ Sh!Write(note, ~state.running)
    BY <2>1, ShWriteBounds
  <2>2. CASE state' = Sh!Stop(state)
    BY <1>1, <2>2, ShStopKeeps, ShKeepsBounds
  <2>3. CASE \/ state' = [state EXCEPT !.last = note]
             \/ state' = [state EXCEPT !.sounding = @ \cup {note}, !.thru = @ \cup {note}]
    <3>1. ShKeeps(state', state)
      BY <1>1, <2>3 DEF ShKeeps
    <3> QED
      BY <3>1, ShKeepsBounds
  <2>4. CASE \E s \in Sh!Started(state) : state' = [s EXCEPT !.root = note, !.last = note]
    <3>1. PICK s \in Sh!Started(state) : state' = [s EXCEPT !.root = note, !.last = note]
      BY <2>4
    <3>2. ShKeeps(s, state)
      BY <1>1, ShStartedKeeps
    <3>3. ShKeeps(state', s)
      BY <3>1, <3>2 DEF ShKeeps
    <3> QED
      BY <3>2, <3>3, ShKeepsOnward, ShKeepsBounds
  <2> QED
    BY <1>2, <2>1, <2>2, <2>3, <2>4 DEF Sh!KeyDown
<1>3. ASSUME NEW mode \in Sh!Modes, Sh!Clock(mode) PROVE ShBounds(state')
  BY <1>1, <1>3, ShTickAside, ShBesideKeeps, ShKeepsBounds DEF Sh!Clock
<1>4. CASE Sh!StartMessage \/ Sh!ContinueMessage
  BY <1>1, <1>4, ShStartedKeeps, ShKeepsBounds DEF Sh!StartMessage, Sh!ContinueMessage
<1>5. CASE Sh!StopMessage
  BY <1>1, <1>5, ShStopKeeps, ShKeepsBounds DEF Sh!StopMessage
<1>6. ASSUME NEW on \in BOOLEAN, Sh!SetRunning(on) PROVE ShBounds(state')
  BY <1>1, <1>6, ShStartedKeeps, ShStopKeeps, ShKeepsBounds DEF Sh!SetRunning
<1>7. ASSUME NEW on \in BOOLEAN, Sh!SetRecording(on) PROVE ShBounds(state')
  <2> DEFINE s == Sh!Stop(state)
             e == Sh!Erased(s)
  <2>1. ShKeeps(s, state)
    BY <1>1, ShStopKeeps
  <2> HIDE DEF s
  <2>2. ShKeeps(e, s)
    BY <2>1, ShPartsAside, ShBesideKeeps DEF ShKeeps
  <2>3. state' = [e EXCEPT !.num_steps = 0, !.recording = on, !.nested = @ \/ state.recorders # <<>>]
    BY <1>7 DEF Sh!SetRecording, s
  <2> HIDE DEF e
  <2>4. ShKeeps(e, state)
    BY <2>1, <2>2, ShKeepsOnward
  <2>5. /\ DOMAIN state' = ShFields /\ state'.num_steps = 0 /\ state'.recording = on
        /\ state'.recorders = state.recorders /\ state'.main = state.main
        /\ state'.nested = (state.nested \/ state.recorders # <<>>)
    BY <2>3, <2>4 DEF ShKeeps
  <2> QED
    BY <1>7, <2>5, ShAssumption DEF ShBounds, ShRecords, ShLast
\* These leave the recording alone.
<1>8. ASSUME \/ Sh!Bend
             \/ \E note \in ShParams.Note : Sh!KeyUp(note)
             \/ \E mode \in Sh!Modes : Sh!SetMode(mode)
             \/ \E prescaler \in ShParams.Prescalers : Sh!SetDivision(prescaler)
      PROVE  ShBounds(state')
  <2>1. ShKeeps(state', state)
    BY <1>1, <1>8 DEF ShKeeps, Sh!Bend, Sh!KeyUp, Sh!Ends, Sh!SetMode, Sh!SetDivision
  <2> QED
    BY <2>1, ShKeepsBounds
<1>9. ASSUME NEW cell, Sh!Click(cell) PROVE ShBounds(state')
  BY <1>9, ShWriteBounds DEF Sh!Click
<1>10. CASE Sh!ClickEnds
  BY <1>1, <1>10 DEF ShBounds, ShRecords, Sh!ClickEnds, Sh!At
<1> QED
  BY <1>2, <1>3, <1>4, <1>5, <1>6, <1>7, <1>8, <1>9, <1>10, ShCountBounds, ShRecordingEndsBounds,
     ShMainBounds DEF Sh!Next

-----------------------------------------------------------------------------
(* The SH sequencer: all of it.                                            *)

ShOk(s) == ShTransport(s) /\ ShSound(s) /\ ShBounds(s)

LEMMA ShInit == Sh!Init => ShOk(state)
<1> SUFFICES ASSUME Sh!Init PROVE ShOk(state)
  OBVIOUS
<1>1. ShTransport(state)
  BY ShTransportInit
<1>2. /\ state.sounding = {} /\ state.recording = FALSE /\ state.nested = FALSE
      /\ state.num_steps = ShLast /\ state.recorders = <<>>
  BY DEF Sh!Init, ShLast
<1>3. ShSound(state)
  BY <1>1, <1>2 DEF ShSound, ShTransport
<1>4. ShLast \in 0 .. ShLast
  BY ShAssumption DEF ShLast
<1>5. ShBounds(state)
  BY <1>1, <1>2, <1>4 DEF ShBounds, ShRecords, ShTransport
<1> QED
  BY <1>1, <1>3, <1>5 DEF ShOk

LEMMA ShNext == ShOk(state) /\ Sh!Next => ShOk(state')
  BY ShTransportNext, ShSoundNext, ShBoundsNext DEF ShOk
===============================================================================
