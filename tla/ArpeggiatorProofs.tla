------------------------- MODULE ArpeggiatorProofs -------------------------
(***************************************************************************)
(* Proofs about the arpeggiator, for any keys and any settings.  What a    *)
(* handler does to the messages, the queue and the keys is a lemma about   *)
(* one record, Good before and Good after; the chord and the burst of the  *)
(* note clock are loops, whose lemmas are proved with the least turn that  *)
(* would break them.                                                       *)
(***************************************************************************)
EXTENDS Arpeggiator, FiniteSetsExt, FiniteSetTheorems, WellFoundedInduction, TLAPS

-----------------------------------------------------------------------------
(* The least of the positions, what taking an element out of a sequence,   *)
(* or putting one in, makes of it, and the states of a loop.               *)

\* The order of the naturals is well founded, in a form that needs no operator argument.
LEMMA NatOrder ==
    \E R : IsWellFoundedOn(R, Nat) /\ \A x, y \in Nat : x < y => <<x, y>> \in R
<1>1. \A x, y \in Nat : x < y => <<x, y>> \in OpToRel(<, Nat)
  BY DEF OpToRel
<1>2. QED
  BY <1>1, NatLessThanWellFounded

\* A non-empty set of naturals has a least element.
LEMMA LeastNat ==
    ASSUME NEW S, S \subseteq Nat, S # {}
    PROVE  \E m \in S : \A n \in S : m <= n
<1>1. PICK R : IsWellFoundedOn(R, Nat) /\ \A x, y \in Nat : x < y => <<x, y>> \in R
  BY NatOrder
<1>2. IsWellFoundedOn(R, Nat)
  BY <1>1
<1>3. \A x, y \in Nat : x < y => <<x, y>> \in R
  BY <1>1
<1>4. \E x \in S : \A y \in S : ~ (<<y, x>> \in R)
  BY <1>2, WFMin, Zenon
<1>5. SUFFICES ASSUME NEW x \in S, \A y \in S : ~ (<<y, x>> \in R), NEW n \in S
               PROVE  x <= n
  BY <1>4
<1>6. x \in Nat /\ n \in Nat /\ ~ (<<n, x>> \in R)
  BY <1>5
<1>7. ~ (n < x)
  BY <1>3, <1>6
<1>8. QED
  BY <1>6, <1>7

\* Min returns the least element.
LEMMA MinIn ==
    ASSUME NEW S, S \subseteq Nat, S # {}
    PROVE  Min(S) \in S /\ \A n \in S : Min(S) <= n
  BY LeastNat DEF Min

\* A sequence is the function of its positions.
LEMMA SequenceIs ==
    ASSUME NEW S, NEW s \in Seq(S)
    PROVE  s = [i \in 1 .. Len(s) |-> s[i]]
  OBVIOUS

\* The elements of a concatenation.
LEMMA ConcatIs ==
    ASSUME NEW S, NEW a \in Seq(S), NEW b \in Seq(S)
    PROVE  a \o b = [i \in 1 .. Len(a) + Len(b) |->
                       IF i <= Len(a) THEN a[i] ELSE b[i - Len(a)]]
<1>1. a \o b \in Seq(S)
  OBVIOUS
<1>2. a \o b = [i \in 1 .. Len(a \o b) |-> (a \o b)[i]]
  BY <1>1, SequenceIs, Zenon
<1>3. Len(a \o b) = Len(a) + Len(b)
  OBVIOUS
<1>4. \A i \in 1 .. Len(a) + Len(b) : (a \o b)[i] = IF i <= Len(a) THEN a[i] ELSE b[i - Len(a)]
  OBVIOUS
<1>5. QED
  BY <1>2, <1>3, <1>4

\* The sequence s without the element at position p: RemoveAt of SequencesExt.
CutOut(s, p) == SubSeq(s, 1, p - 1) \o SubSeq(s, p + 1, Len(s))

\* The sequence s with e at position p: InsertAt of SequencesExt, whose Remove is not the
\* scheduler's.
PutIn(s, p, e) == SubSeq(s, 1, p - 1) \o <<e>> \o SubSeq(s, p, Len(s))

LEMMA CutOutIs ==
    ASSUME NEW S, NEW s \in Seq(S), NEW p \in 1 .. Len(s)
    PROVE  CutOut(s, p) = [i \in 1 .. Len(s) - 1 |-> IF i < p THEN s[i] ELSE s[i + 1]]
<1>1. /\ SubSeq(s, 1, p - 1) = [i \in 1 .. p - 1 |-> s[i]]
      /\ SubSeq(s, p + 1, Len(s)) = [i \in 1 .. Len(s) - p |-> s[p + i]]
  OBVIOUS
<1>2. /\ SubSeq(s, 1, p - 1) \in Seq(S) /\ Len(SubSeq(s, 1, p - 1)) = p - 1
      /\ SubSeq(s, p + 1, Len(s)) \in Seq(S) /\ Len(SubSeq(s, p + 1, Len(s))) = Len(s) - p
  OBVIOUS
<1>3. PICK a, b : a = SubSeq(s, 1, p - 1) /\ b = SubSeq(s, p + 1, Len(s))
  OBVIOUS
<1>4. a \in Seq(S) /\ b \in Seq(S) /\ Len(a) = p - 1 /\ Len(b) = Len(s) - p
  BY <1>2, <1>3
<1>5. CutOut(s, p) = a \o b
  BY <1>3 DEF CutOut
<1>6. a \o b = [i \in 1 .. Len(a) + Len(b) |-> IF i <= Len(a) THEN a[i] ELSE b[i - Len(a)]]
  BY <1>4, ConcatIs, Zenon
<1>7. Len(a) + Len(b) = Len(s) - 1
  BY <1>4
<1>8. \A i \in 1 .. Len(s) - 1 :
         (IF i <= Len(a) THEN a[i] ELSE b[i - Len(a)]) = IF i < p THEN s[i] ELSE s[i + 1]
  BY <1>1, <1>3, <1>4
<1>9. QED
  BY <1>5, <1>6, <1>7, <1>8, Zenon

LEMMA PutInIs ==
    ASSUME NEW S, NEW s \in Seq(S), NEW e \in S, NEW p \in 1 .. Len(s) + 1
    PROVE  PutIn(s, p, e)
             = [i \in 1 .. Len(s) + 1 |->
                  IF i < p THEN s[i] ELSE IF i = p THEN e ELSE s[i - 1]]
<1>1. PICK a, b : a = SubSeq(s, 1, p - 1) /\ b = SubSeq(s, p, Len(s))
  OBVIOUS
<1>2. a \in Seq(S) /\ Len(a) = p - 1 /\ \A i \in 1 .. p - 1 : a[i] = s[i]
  BY <1>1
<1>3. /\ b \in Seq(S) /\ Len(b) = Len(s) - p + 1
      /\ \A i \in 1 .. Len(s) - p + 1 : b[i] = s[p + i - 1]
  BY <1>1
<1>4. PICK c : c = a \o <<e>>
  OBVIOUS
<1>5. c \in Seq(S) /\ Len(c) = p /\ \A i \in 1 .. p : c[i] = IF i < p THEN s[i] ELSE e
  BY <1>2, <1>4
<1>6. PutIn(s, p, e) = c \o b
  BY <1>1, <1>4 DEF PutIn
<1>7. c \o b = [i \in 1 .. Len(c) + Len(b) |-> IF i <= Len(c) THEN c[i] ELSE b[i - Len(c)]]
  BY <1>3, <1>5, ConcatIs, Zenon
<1>8. Len(c) + Len(b) = Len(s) + 1
  BY <1>3, <1>5
<1>9. \A i \in 1 .. Len(s) + 1 :
         (IF i <= Len(c) THEN c[i] ELSE b[i - Len(c)])
           = IF i < p THEN s[i] ELSE IF i = p THEN e ELSE s[i - 1]
  BY <1>3, <1>5
<1>10. QED
  BY <1>6, <1>7, <1>8, <1>9, Zenon

\* F has n turns, each from a state of S to a state of S.
Loop(F, n, S) == F \in [1 .. n -> [S -> S]]

\* f is the states of that loop, from s.
Runs(f, F, n, S, s) ==
    f \in [0 .. n -> S] /\ f[0] = s /\ \A k \in 1 .. n : f[k] = F[k][f[k - 1]]

\* A loop has its states.
LEMMA LoopExists ==
    ASSUME NEW n \in Nat, NEW S, NEW s \in S, NEW F, Loop(F, n, S)
    PROVE  \E f : Runs(f, F, n, S, s)
<1>0. F \in [1 .. n -> [S -> S]]
  BY DEF Loop
<1> DEFINE Run(m, f) == /\ f \in [0 .. m -> S] /\ f[0] = s
                        /\ \A k \in 1 .. m : f[k] = F[k][f[k - 1]]
           Bad == { m \in 0 .. n : ~ \E f : Run(m, f) }
<1>1. SUFFICES Bad = {}
  <2>1. n \in 0 .. n
    OBVIOUS
  <2>2. QED
    BY <1>1, <2>1 DEF Runs
<1>2. SUFFICES ASSUME Bad # {} PROVE FALSE
  OBVIOUS
<1>3. PICK m \in Bad : \A x \in Bad : m <= x
  <2>1. Bad \subseteq Nat
    OBVIOUS
  <2>2. QED
    BY <1>2, <2>1, LeastNat
<1>4. CASE m = 0
  <2>1. Run(0, [i \in 0 .. 0 |-> s])
    OBVIOUS
  <2>2. QED
    BY <1>3, <1>4, <2>1
<1>5. CASE m # 0
  <2>1. m \in 1 .. n /\ m - 1 \in 0 .. n /\ m - 1 \notin Bad
    <3>1. m \in 0 .. n /\ \A x \in Bad : m <= x
      BY <1>3
    <3> HIDE DEF Bad
    <3>2. QED
      BY <1>5, <3>1
  <2>2. PICK f : Run(m - 1, f)
    BY <2>1
  <2> DEFINE g == [i \in 0 .. m |-> IF i = m THEN F[m][f[m - 1]] ELSE f[i]]
  <2>3. f[m - 1] \in S /\ F[m][f[m - 1]] \in S
    <3>1. m - 1 \in 0 .. m - 1
      BY <2>1
    <3>2. QED
      BY <1>0, <2>1, <2>2, <3>1
  <2>4. \A i \in 0 .. m : g[i] \in S
    BY <2>1, <2>2, <2>3
  <2>5. g[0] = s
    BY <2>1, <2>2
  <2>6. ASSUME NEW k \in 1 .. m PROVE g[k] = F[k][g[k - 1]]
    <3>1. k - 1 \in 0 .. m /\ k - 1 # m /\ g[k - 1] = f[k - 1]
      BY <2>1
    <3>2. CASE k = m
      BY <2>1, <3>1, <3>2
    <3>3. CASE k # m
      <4>1. k \in 1 .. m - 1 /\ k \in 0 .. m
        BY <2>1, <3>3
      <4>2. f[k] = F[k][f[k - 1]]
        BY <2>2, <4>1
      <4>3. QED
        BY <3>1, <3>3, <4>1, <4>2
    <3>4. QED
      BY <3>2, <3>3
  <2>7. Run(m, g)
    BY <2>4, <2>5, <2>6
  <2>8. QED
    BY <1>3, <2>7
<1>6. QED
  BY <1>4, <1>5

\* What each turn of a loop keeps holds after the last.
LEMMA LoopKeeps ==
    ASSUME NEW n \in Nat, NEW S, NEW f, f[0] \in S,
           \A k \in 1 .. n : f[k - 1] \in S => f[k] \in S
    PROVE  f[n] \in S
<1> DEFINE Bad == { m \in 0 .. n : f[m] \notin S }
<1>1. SUFFICES ASSUME Bad # {} PROVE FALSE
  <2>1. n \in 0 .. n
    OBVIOUS
  <2>2. QED
    BY <1>1, <2>1
<1>2. PICK m \in Bad : \A x \in Bad : m <= x
  <2>1. Bad \subseteq Nat
    OBVIOUS
  <2>2. QED
    BY <1>1, <2>1, LeastNat
<1>3. m # 0
  BY <1>2
<1>4. m \in 1 .. n /\ m - 1 \in 0 .. n /\ ~ (m <= m - 1)
  BY <1>2, <1>3
<1>5. f[m - 1] \in S
  BY <1>2, <1>4
<1>6. QED
  BY <1>2, <1>4, <1>5

Midi == 0 .. 127

HeldKey == [note : Note, velocity : {1}]
Entry   == [note : Midi \cup {kZombie}, velocity : {0}, wait : Int]
Message == [type : {"on", "off", "system", "none"}, note : 0 .. 255]

LEMMA SizeFacts ==
    /\ \A n \in Note : n \in Midi
    /\ \A n \in Midi : n \in Int
    /\ kNoteStackSize \in Nat \ {0} /\ kIdleTicks \in Nat /\ kIdleTicks >= 2
    /\ kEventSchedulerSize - 1 \in Nat /\ kNoteClockTicks \in Nat
  BY SizesAssumption DEF Midi

\* The notes that a line ends.
EndsOf(line) == { line[i].note : i \in 1 .. Len(line) } \ {kZombie}

EndOnce(line) ==
    \A i, j \in 1 .. Len(line) :
      line[i].note = line[j].note /\ line[i].note # kZombie => i = j

-----------------------------------------------------------------------------
(* The messages, and what is heard of them.                                *)

LEMMA MessageFacts ==
    /\ \A n \in Midi : On(n) \in Message /\ Off(n) \in Message
    /\ \A n \in Midi \cup {kZombie} : End(n) \in Message
    /\ \A b \in {0, 248, 250, 252} : System(b) \in Message
  BY DEF Message, On, Off, End, System, Midi, kZombie

LEMMA MessageKinds ==
    \A x, y : /\ On(x) # Off(y) /\ On(x).type = "on" /\ On(x).note = x
              /\ (Off(x) = Off(y) <=> x = y) /\ Off(x).type # "on"
              /\ System(x) # Off(y) /\ System(x).type # "on"
  BY DEF On, Off, System

LEMMA HeardOn ==
    ASSUME NEW notes, NEW n
    PROVE  /\ Heard(notes, <<On(n)>>) = notes \cup {n}
           /\ Heard(notes, <<Off(n), On(n)>>) = notes \cup {n}
<1>1. ASSUME NEW m, Len(m) = 1, m[1] = On(n)
      PROVE  Heard(notes, m) = notes \cup {n}
  <2>1. 1 .. Len(m) = {1} /\ 1 .. 1 = {1}
    BY <1>1
  <2>2. { x \in notes : \A i \in 1 .. Len(m) : m[i] # Off(x) } = notes
    BY <1>1, <2>1, MessageKinds
  <2>3. 1 \in 1 .. Len(m) /\ \A j \in 1 .. Len(m) : m[j] # Off(m[1].note)
    BY <1>1, <2>1, MessageKinds
  <2>4. { i \in 1 .. Len(m) : /\ m[i].type = "on"
                              /\ \A j \in i .. Len(m) : m[j] # Off(m[i].note) } = {1}
    BY <1>1, <2>1, <2>3, MessageKinds
  <2>5. Heard(notes, m) = notes \cup { m[i].note : i \in {1} }
    BY <2>2, <2>4 DEF Heard
  <2>6. QED
    BY <1>1, <2>5, MessageKinds
<1>2. ASSUME NEW m, Len(m) = 2, m[1] = Off(n), m[2] = On(n)
      PROVE  Heard(notes, m) = notes \cup {n}
  <2>1. 1 .. Len(m) = {1, 2} /\ 2 .. Len(m) = {2}
    BY <1>2
  <2>2. { x \in notes : \A i \in 1 .. Len(m) : m[i] # Off(x) } = notes \ {n}
    BY <1>2, <2>1, MessageKinds
  <2>3. 2 \in 1 .. Len(m) /\ \A j \in 2 .. Len(m) : m[j] # Off(m[2].note)
    BY <1>2, <2>1, MessageKinds
  <2>4. { i \in 1 .. Len(m) : /\ m[i].type = "on"
                              /\ \A j \in i .. Len(m) : m[j] # Off(m[i].note) } = {2}
    BY <1>2, <2>1, <2>3, MessageKinds
  <2>5. Heard(notes, m) = (notes \ {n}) \cup { m[i].note : i \in {2} }
    BY <2>2, <2>4 DEF Heard
  <2>6. QED
    BY <1>2, <2>5, MessageKinds
<1>3. /\ Len(<<On(n)>>) = 1 /\ <<On(n)>>[1] = On(n)
      /\ Len(<<Off(n), On(n)>>) = 2 /\ <<Off(n), On(n)>>[1] = Off(n)
      /\ <<Off(n), On(n)>>[2] = On(n)
  OBVIOUS
<1>4. QED
  BY <1>1, <1>2, <1>3, Zenon

LEMMA HeardSystem ==
    ASSUME NEW notes, NEW b
    PROVE  Heard(notes, <<System(b)>>) = notes
<1>1. ASSUME NEW m, Len(m) = 1, m[1] = System(b)
      PROVE  Heard(notes, m) = notes
  <2>1. 1 .. Len(m) = {1}
    BY <1>1
  <2>2. { x \in notes : \A i \in 1 .. Len(m) : m[i] # Off(x) } = notes
    BY <1>1, <2>1, MessageKinds
  <2>3. { i \in 1 .. Len(m) : /\ m[i].type = "on"
                              /\ \A j \in i .. Len(m) : m[j] # Off(m[i].note) } = {}
    BY <1>1, <2>1, MessageKinds
  <2>4. Heard(notes, m) = notes \cup { m[i].note : i \in {} }
    BY <2>2, <2>3 DEF Heard
  <2>5. QED
    BY <2>4
<1>2. Len(<<System(b)>>) = 1 /\ <<System(b)>>[1] = System(b)
  OBVIOUS
<1>3. QED
  BY <1>1, <1>2, Zenon

LEMMA HeardEnds ==
    ASSUME NEW notes, NEW line \in Seq(Entry)
    PROVE  /\ Ends(line) \in Seq(Message)
           /\ \A i \in 1 .. Len(Ends(line)) : Ends(line)[i].type # "on"
           /\ Heard(notes, Ends(line)) = notes \ EndsOf(line)
<1> DEFINE m == Ends(line)
<1>1. /\ Len(m) = Len(line) /\ Len(line) \in Nat
      /\ m = [i \in 1 .. Len(line) |-> End(line[i].note)]
  BY DEF Ends
<1>2. \A i \in 1 .. Len(line) : line[i].note \in Midi \cup {kZombie} /\ m[i] = End(line[i].note)
  <2>1. \A i \in 1 .. Len(line) : line[i] \in Entry
    OBVIOUS
  <2>2. \A e \in Entry : e.note \in Midi \cup {kZombie}
    BY DEF Entry
  <2> HIDE DEF m
  <2>3. QED
    BY <1>1, <2>1, <2>2
<1> HIDE DEF m
<1>3. m \in Seq(Message)
  BY <1>1, <1>2, MessageFacts
<1>4. \A i \in 1 .. Len(m) : m[i].type # "on"
  BY <1>1, <1>2 DEF End, Off
<1>5. Heard(notes, m) = { n \in notes : \A i \in 1 .. Len(m) : m[i] # Off(n) }
  BY <1>4, Zenon DEF Heard
<1>6. \A n, x : End(x) = Off(n) <=> x = n /\ x # kZombie
  BY DEF End, Off
<1>7. \A n \in notes : (\A i \in 1 .. Len(m) : m[i] # Off(n)) <=> n \notin EndsOf(line)
  BY <1>1, <1>2, <1>6 DEF EndsOf
<1>8. QED
  BY <1>3, <1>4, <1>5, <1>7 DEF m

-----------------------------------------------------------------------------
(* The line.                                                               *)

LEMMA StruckIs ==
    ASSUME NEW line \in Seq(Entry), EndOnce(line), NEW n \in Midi
    PROVE  LET struck == Struck(line, n, 0, kZombie)
           IN  /\ struck \in Seq(Entry) /\ Len(struck) = Len(line) /\ EndOnce(struck)
               /\ EndsOf(struck) = EndsOf(line) \ {n}
<1> DEFINE struck == Struck(line, n, 0, kZombie)
<1>1. Len(line) \in Nat /\ \A i \in 1 .. Len(line) : line[i] \in Entry
  OBVIOUS
<1>2. struck = [i \in 1 .. Len(line) |-> IF line[i].note = n
                                          THEN [line[i] EXCEPT !.note = kZombie] ELSE line[i]]
  BY <1>1 DEF Struck, Entry
<1>3. Len(struck) = Len(line)
  BY <1>1, <1>2
<1>4. \A i \in 1 .. Len(line) :
        /\ struck[i] \in Entry
        /\ struck[i].note = IF line[i].note = n THEN kZombie ELSE line[i].note
  BY <1>1, <1>2 DEF Entry
<1>5. n # kZombie
  BY DEF Midi, kZombie
<1> HIDE DEF struck
<1>6. struck \in Seq(Entry)
  BY <1>1, <1>2, <1>4
<1>7. EndOnce(struck)
  BY <1>3, <1>4 DEF EndOnce
<1>8. EndsOf(struck) = EndsOf(line) \ {n}
  BY <1>3, <1>4, <1>5 DEF EndsOf
<1>9. QED
  BY <1>3, <1>6, <1>7, <1>8 DEF struck

LEMMA InsertedIs ==
    ASSUME NEW line \in Seq(Entry), EndOnce(line), NEW n \in Midi, n \notin EndsOf(line),
           NEW wait \in Int
    PROVE  LET longer == Inserted(line, Event(n, 0, wait))
           IN  /\ longer \in Seq(Entry) /\ Len(longer) = Len(line) + 1 /\ EndOnce(longer)
               /\ EndsOf(longer) = EndsOf(line) \cup {n}
<1> DEFINE e      == Event(n, 0, wait)
           longer == Inserted(line, e)
           places == { p \in 1 .. Len(line) + 1 : p = Len(line) + 1 \/ e.wait < line[p].wait }
           k      == Len(line)
<1>1. k \in Nat /\ line \in [1 .. k -> Entry]
  OBVIOUS
<1>2. e \in Entry /\ e.note = n /\ n # kZombie
  BY DEF Event, Entry, Midi, kZombie
<1> HIDE DEF e
<1>3. PICK p \in 1 .. k + 1 : longer = InsertAt(line, p, e)
  <2>1. places \subseteq Nat /\ k + 1 \in places
    BY <1>1
  <2>2. Min(places) \in places
    BY <2>1, MinIn
  <2>3. Min(places) \in 1 .. k + 1
    BY <2>2
  <2>4. QED
    BY <2>3 DEF Inserted
<1>4. longer = [i \in 1 .. k + 1 |-> IF i < p THEN line[i] ELSE IF i = p THEN e ELSE line[i - 1]]
  <2>1. longer = PutIn(line, p, e)
    BY <1>3, Zenon DEF InsertAt, PutIn
  <2>2. QED
    BY <1>2, <2>1, PutInIs
<1> HIDE DEF longer
<1>5. \A i \in 1 .. k : i < p => i \in 1 .. k + 1
  BY <1>1
<1>6. \A i \in 1 .. k + 1 : /\ i < p => i \in 1 .. k /\ longer[i] = line[i]
                            /\ i = p => longer[i] = e
                            /\ i > p => i - 1 \in 1 .. k /\ longer[i] = line[i - 1]
  BY <1>1, <1>3, <1>4
<1>7. longer \in Seq(Entry) /\ Len(longer) = k + 1
  <2>1. \A i \in 1 .. k + 1 : longer[i] \in Entry
    BY <1>1, <1>2, <1>3, <1>6
  <2>2. QED
    BY <1>1, <1>4, <2>1
<1>8. \A i \in 1 .. k : line[i].note # n
  BY <1>2 DEF EndsOf
<1>9. EndOnce(longer)
  <2> SUFFICES ASSUME NEW i \in 1 .. k + 1, NEW j \in 1 .. k + 1,
                      longer[i].note = longer[j].note, longer[i].note # kZombie
               PROVE  i = j
    BY <1>7 DEF EndOnce
  <2>0. ASSUME NEW x \in 1 .. k + 1, x # p PROVE longer[x].note # n
    <3>1. x < p \/ x > p
      BY <1>3, <2>0
    <3>2. CASE x < p
      BY <1>6, <1>8, <3>2
    <3>3. CASE x > p
      BY <1>6, <1>8, <3>3
    <3>4. QED
      BY <3>1, <3>2, <3>3
  <2>1. CASE i = p \/ j = p
    <3>1. longer[p].note = n
      BY <1>2, <1>3, <1>6
    <3>2. QED
      BY <2>0, <2>1, <3>1, Zenon
  <2>2. CASE i < p /\ j < p
    BY <1>6, <2>2 DEF EndOnce
  <2>3. CASE i > p /\ j > p
    BY <1>6, <2>3 DEF EndOnce
  <2>4. ASSUME NEW x \in 1 .. k + 1, NEW y \in 1 .. k + 1, x < p, y > p,
               longer[x].note = longer[y].note, longer[x].note # kZombie
        PROVE  FALSE
    <3>1. x = y - 1
      <4>1. x \in 1 .. k /\ longer[x] = line[x]
        BY <1>6, <2>4
      <4>2. y - 1 \in 1 .. k /\ longer[y] = line[y - 1]
        BY <1>6, <2>4
      <4>3. line[x].note = line[y - 1].note /\ line[x].note # kZombie
        BY <2>4, <4>1, <4>2
      <4>4. QED
        BY <4>1, <4>2, <4>3, Zenon DEF EndOnce
    <3>2. QED
      BY <1>3, <2>4, <3>1
  <2>5. QED
    BY <1>3, <2>1, <2>2, <2>3, <2>4
<1>10. EndsOf(longer) = EndsOf(line) \cup {n}
  <2>1. ASSUME NEW x \in EndsOf(line) PROVE x \in EndsOf(longer)
    <3>1. PICK i \in 1 .. k : line[i].note = x
      BY DEF EndsOf
    <3>2. \E j \in 1 .. k + 1 : longer[j] = line[i]
      <4>1. CASE i < p
        <5>1. i \in 1 .. k + 1
          BY <1>5, <4>1
        <5>2. QED
          BY <1>6, <4>1, <5>1
      <4>2. CASE i >= p
        <5>1. i + 1 \in 1 .. k + 1 /\ i + 1 > p /\ i + 1 - 1 = i
          BY <1>1, <1>3, <4>2
        <5>2. longer[i + 1] = line[i + 1 - 1]
          BY <1>6, <5>1
        <5>3. QED
          BY <5>1, <5>2
      <4>3. QED
        BY <1>1, <1>3, <4>1, <4>2
    <3>3. QED
      BY <1>7, <3>1, <3>2 DEF EndsOf
  <2>2. n \in EndsOf(longer)
    BY <1>2, <1>3, <1>6, <1>7 DEF EndsOf
  <2>3. ASSUME NEW x \in EndsOf(longer) PROVE x \in EndsOf(line) \cup {n}
    <3>1. PICK i \in 1 .. k + 1 : longer[i].note = x /\ x # kZombie
      BY <1>7 DEF EndsOf
    <3>2. QED
      BY <1>2, <1>3, <1>6, <3>1 DEF EndsOf
  <2>4. QED
    BY <2>1, <2>2, <2>3
<1>11. QED
  BY <1>7, <1>9, <1>10 DEF e, longer

LEMMA DueIn ==
    ASSUME NEW line \in Seq(Entry)
    PROVE  Due(line) \in 0 .. Len(line)
<1> DEFINE P == { k \in 0 .. Len(line) : k = Len(line) \/ line[k + 1].wait # 0 }
<1>1. P \subseteq Nat /\ Len(line) \in P
  OBVIOUS
<1>2. Min(P) \in P
  BY <1>1, MinIn
<1>3. QED
  BY <1>2 DEF Due

\* A tick takes from the line what is due, and the rest stays.
LEMMA StayingIs ==
    ASSUME NEW line \in Seq(Entry), EndOnce(line)
    PROVE  LET due  == SubSeq(line, 1, Due(line))
               rest == Staying(line)
           IN  /\ due \in Seq(Entry)
               /\ rest \in Seq(Entry) /\ Len(rest) <= Len(line) /\ EndOnce(rest)
               /\ EndsOf(rest) = EndsOf(line) \ EndsOf(due)
<1> DEFINE due  == SubSeq(line, 1, Due(line))
           rest == Staying(line)
           k    == Len(line)
           d    == Due(line)
<1>1. k \in Nat /\ d \in 0 .. k /\ \A i \in 1 .. k : line[i] \in Entry
  BY DueIn
<1>2. rest = [i \in 1 .. k - d |-> [line[i + d] EXCEPT !.wait = @ - 1]]
  BY DEF Staying
<1> HIDE DEF d, rest
<1>3. due \in Seq(Entry) /\ Len(due) = d /\ \A i \in 1 .. d : due[i] = line[i]
  BY <1>1 DEF d
<1> HIDE DEF due
<1>4. \A i \in 1 .. k - d : i + d \in 1 .. k /\ i + d > d
  BY <1>1
<1>5. \A i \in 1 .. k : i <= d => i \in 1 .. d
  BY <1>1
<1>6. \A i \in 1 .. k : i > d => i - d \in 1 .. k - d /\ i - d + d = i
  BY <1>1
<1>7. \A i \in 1 .. k - d : rest[i] \in Entry /\ rest[i].note = line[i + d].note
  <2> TAKE i \in 1 .. k - d
  <2>1. rest[i] = [line[i + d] EXCEPT !.wait = @ - 1]
    BY <1>2
  <2>2. line[i + d] \in Entry
    BY <1>1, <1>4
  <2>3. ASSUME NEW e \in Entry
        PROVE  [e EXCEPT !.wait = @ - 1] \in Entry /\ [e EXCEPT !.wait = @ - 1].note = e.note
    BY DEF Entry
  <2>4. QED
    BY <2>1, <2>2, <2>3
<1>8. k - d \in Nat /\ k - d <= k
  BY <1>1
<1>9. rest \in Seq(Entry) /\ Len(rest) = k - d
  BY <1>2, <1>7, <1>8
<1>10. EndOnce(rest)
  <2> SUFFICES ASSUME NEW i \in 1 .. k - d, NEW j \in 1 .. k - d,
                      rest[i].note = rest[j].note, rest[i].note # kZombie
               PROVE  i = j
    BY <1>9 DEF EndOnce
  <2>1. i + d = j + d
    BY <1>4, <1>7 DEF EndOnce
  <2>2. QED
    BY <1>1, <1>8, <2>1
<1>11. EndsOf(rest) = EndsOf(line) \ EndsOf(due)
  <2>1. ASSUME NEW x \in EndsOf(rest) PROVE x \in EndsOf(line) \ EndsOf(due)
    <3>1. PICK i \in 1 .. k - d : rest[i].note = x /\ x # kZombie
      BY <1>9 DEF EndsOf
    <3>2. x \in EndsOf(line) /\ line[i + d].note = x
      BY <1>4, <1>7, <3>1 DEF EndsOf
    <3>3. ASSUME NEW j \in 1 .. d, due[j].note = x PROVE FALSE
      <4>1. line[j].note = x /\ j \in 1 .. k /\ j <= d
        BY <1>1, <1>3, <3>3
      <4>2. j = i + d
        BY <1>4, <3>1, <3>2, <4>1 DEF EndOnce
      <4>3. QED
        BY <1>1, <1>4, <4>1, <4>2
    <3>4. QED
      BY <1>3, <3>2, <3>3 DEF EndsOf
  <2>2. ASSUME NEW x \in EndsOf(line), x \notin EndsOf(due) PROVE x \in EndsOf(rest)
    <3>1. PICK i \in 1 .. k : line[i].note = x /\ x # kZombie
      BY DEF EndsOf
    <3>2. i > d
      BY <1>1, <1>3, <1>5, <2>2, <3>1 DEF EndsOf
    <3>3. i - d \in 1 .. k - d /\ rest[i - d].note = x
      BY <1>6, <1>7, <3>1, <3>2
    <3>4. QED
      BY <1>9, <3>1, <3>3 DEF EndsOf
  <2>3. QED
    BY <2>1, <2>2
<1>12. QED
  BY <1>3, <1>8, <1>9, <1>10, <1>11 DEF rest, due, d

-----------------------------------------------------------------------------
(* The keys.                                                               *)

Keyed(held) ==
    /\ held \in Seq(HeldKey) /\ Len(held) <= kNoteStackSize
    /\ \A i, j \in 1 .. Len(held) : held[i].note = held[j].note => i = j

LEMMA NoKeys == Keyed(<<>>)
  BY SizeFacts DEF Keyed

LEMMA WithoutIs ==
    ASSUME NEW held, Keyed(held), NEW n
    PROVE  /\ Keyed(Without(held, n)) /\ Len(Without(held, n)) <= Len(held)
           /\ \A i \in 1 .. Len(Without(held, n)) : Without(held, n)[i].note # n
<1> DEFINE k   == Len(held)
           out == Without(held, n)
           I   == Places(held, n)
<1>1. k \in Nat /\ held \in [1 .. k -> HeldKey] /\ held \in Seq(HeldKey) /\ k <= kNoteStackSize
      /\ \A i, j \in 1 .. k : held[i].note = held[j].note => i = j
  BY DEF Keyed
<1>2. \A i \in 1 .. k : i \in I <=> held[i].note = n
  BY DEF Places
<1>3. I \subseteq 1 .. k
  BY DEF Places
<1> HIDE DEF I
<1>4. CASE I = {}
  <2>1. out = held
    BY <1>4 DEF Without, I
  <2>2. QED
    BY <1>1, <1>2, <1>4, <2>1 DEF Keyed
<1>5. CASE I # {}
  <2>1. I \subseteq Nat
    BY <1>3
  <2>2. Min(I) \in I
    BY <1>5, <2>1, MinIn
  <2>3. PICK p \in 1 .. k : p = Min(I) /\ held[p].note = n
    BY <1>2, <1>3, <2>2
  <2>4. out = CutOut(held, p)
    BY <1>5, <2>3, Zenon DEF Without, RemoveAt, CutOut, I
  <2>5. out = [i \in 1 .. k - 1 |-> IF i < p THEN held[i] ELSE held[i + 1]]
    BY <1>1, <2>3, <2>4, CutOutIs
  <2> HIDE DEF out
  <2>6. \A i \in 1 .. k - 1 : /\ i \in 1 .. k /\ i + 1 \in 1 .. k
                              /\ i \in Int
                              /\ i < p => out[i] = held[i]
                              /\ i >= p => out[i] = held[i + 1]
    BY <1>1, <2>3, <2>5
  <2>7. k - 1 \in Nat /\ k - 1 <= k /\ p \in Int
    BY <1>1, <2>3
  <2>8. \A i \in 1 .. k - 1 : out[i] \in HeldKey
    BY <1>1, <2>6, <2>7
  <2>9. out \in Seq(HeldKey) /\ Len(out) = k - 1
    BY <2>5, <2>7, <2>8
  <2>10. ASSUME NEW i \in 1 .. k - 1, NEW j \in 1 .. k - 1, out[i].note = out[j].note
         PROVE  i = j
    <3> DEFINE from(x) == IF x < p THEN x ELSE x + 1
    <3>1. \A x \in 1 .. k - 1 : from(x) \in 1 .. k /\ out[x] = held[from(x)]
      BY <2>6, <2>7
    <3>2. from(i) = from(j)
      BY <1>1, <2>10, <3>1
    <3>3. QED
      BY <2>6, <2>7, <3>2
  <2>11. ASSUME NEW i \in 1 .. k - 1, out[i].note = n PROVE FALSE
    <3>1. CASE i < p
      BY <1>1, <2>3, <2>6, <2>7, <2>11, <3>1
    <3>2. CASE i >= p
      <4>1. i + 1 = p
        BY <1>1, <2>3, <2>6, <2>11, <3>2
      <4>2. QED
        BY <2>6, <2>7, <3>2, <4>1
    <3>3. QED
      BY <2>6, <2>7, <3>1, <3>2
  <2>12. k - 1 <= kNoteStackSize
    BY <1>1, SizeFacts
  <2>13. QED
    BY <2>7, <2>9, <2>10, <2>11, <2>12 DEF Keyed, out
<1>6. QED
  BY <1>4, <1>5

LEMMA PressedIs ==
    ASSUME NEW held, Keyed(held), NEW n \in Note
    PROVE  Keyed(Pressed(held, kNoteStackSize, n, 1))
<1> DEFINE others == Without(held, n)
           k      == Len(others)
           m      == IF k = kNoteStackSize THEN kNoteStackSize - 1 ELSE k
           key    == [note |-> n, velocity |-> 1]
           rest   == SubSeq(others, 1, m)
           new    == <<key>> \o rest
<1>1. /\ others \in Seq(HeldKey) /\ k <= kNoteStackSize
      /\ \A i, j \in 1 .. k : others[i].note = others[j].note => i = j
      /\ \A i \in 1 .. k : others[i].note # n
  <2>1. Keyed(others) /\ \A i \in 1 .. k : others[i].note # n
    BY WithoutIs
  <2> HIDE DEF others
  <2>2. QED
    BY <2>1 DEF Keyed
<1>2. Pressed(held, kNoteStackSize, n, 1) = new
  BY DEF Pressed
<1> HIDE DEF others
<1>3. k \in Nat
  BY <1>1
<1>4. m \in Nat /\ m <= k /\ m + 1 <= kNoteStackSize
  BY <1>1, <1>3, SizeFacts
<1> HIDE DEF m
<1>5. rest \in Seq(HeldKey) /\ Len(rest) = m /\ \A i \in 1 .. m : rest[i] = others[i]
  BY <1>1, <1>4
<1>6. \A i \in 1 .. m : i \in 1 .. k
  BY <1>3, <1>4
<1>7. key \in HeldKey /\ key.note = n
  BY DEF HeldKey
<1> HIDE DEF key, rest, k
<1>8. /\ new \in Seq(HeldKey) /\ Len(new) = m + 1 /\ new[1] = key
      /\ \A i \in 1 .. m + 1 : i # 1 => i - 1 \in 1 .. m /\ new[i] = rest[i - 1]
  BY <1>4, <1>5, <1>7
<1> HIDE DEF new
<1>9. ASSUME NEW i \in 1 .. m + 1, NEW j \in 1 .. m + 1, new[i].note = new[j].note
      PROVE  i = j
  <2>1. \A x \in 1 .. m + 1 : x # 1 => /\ x - 1 \in 1 .. k /\ new[x].note = others[x - 1].note
                                       /\ new[x].note # n
    BY <1>1, <1>5, <1>6, <1>8
  <2>2. new[1].note = n
    BY <1>7, <1>8
  <2>3. CASE i = 1 \/ j = 1
    BY <1>9, <2>1, <2>2, <2>3
  <2>4. CASE i # 1 /\ j # 1
    <3>1. i - 1 = j - 1
      BY <1>1, <1>9, <2>1, <2>4
    <3>2. QED
      BY <1>4, <3>1
  <2>5. QED
    BY <2>3, <2>4
<1>10. QED
  BY <1>2, <1>4, <1>8, <1>9 DEF Keyed

\* Every rank by pitch is that of one key.
LEMMA SortedIn ==
    ASSUME NEW held, Keyed(held), NEW index \in 0 .. Len(held) - 1
    PROVE  \E i \in 1 .. Len(held) : Sorted(held, index) = held[i]
<1> DEFINE k        == Len(held)
           Below(i) == { j \in 1 .. k : held[j].note < held[i].note }
           rank     == [i \in 1 .. k |-> Cardinality(Below(i))]
<1>1. /\ k \in Nat /\ \A i \in 1 .. k : held[i].note \in Int
      /\ \A i, j \in 1 .. k : held[i].note = held[j].note => i = j
  <2>1. /\ k \in Nat /\ held \in [1 .. k -> HeldKey]
        /\ \A i, j \in 1 .. k : held[i].note = held[j].note => i = j
    BY DEF Keyed
  <2>2. \A i \in 1 .. k : held[i].note \in Note
    BY <2>1 DEF HeldKey
  <2>3. \A n \in Note : n \in Int
    BY SizeFacts, Zenon
  <2>4. QED
    BY <2>1, <2>2, <2>3, Zenon
<1>2. \A n \in Nat : IsFiniteSet(1 .. n) /\ Cardinality(1 .. n) = n
  <2>1. SUFFICES ASSUME NEW n \in Nat PROVE IsFiniteSet(1 .. n) /\ Cardinality(1 .. n) = n
    OBVIOUS
  <2>2. 1 \in Int /\ n \in Int
    OBVIOUS
  <2>3. IsFiniteSet(1 .. n) /\ Cardinality(1 .. n) = IF 1 > n THEN 0 ELSE n - 1 + 1
    BY <2>2, FS_Interval, Zenon
  <2>4. (IF 1 > n THEN 0 ELSE n - 1 + 1) = n
    OBVIOUS
  <2>5. QED
    BY <2>3, <2>4
<1>3. \A i \in 1 .. k : /\ IsFiniteSet(Below(i)) /\ rank[i] \in 0 .. k - 1
                        /\ rank[i] = Cardinality(Below(i))
  <2> TAKE i \in 1 .. k
  <2>1. IsFiniteSet((1 .. k) \ {i}) /\ Cardinality((1 .. k) \ {i}) = k - 1
    <3>1. IsFiniteSet(1 .. k) /\ Cardinality(1 .. k) = k
      BY <1>1, <1>2
    <3>2. QED
      BY <3>1, FS_RemoveElement
  <2>2. Below(i) \in SUBSET ((1 .. k) \ {i})
    BY <1>1
  <2>3. IsFiniteSet(Below(i)) /\ Cardinality(Below(i)) <= k - 1
    BY <2>1, <2>2, FS_Subset
  <2>4. Cardinality(Below(i)) \in Nat
    BY <2>3, FS_CardinalityType
  <2>5. QED
    BY <1>1, <2>3, <2>4
<1>4. ASSUME NEW i \in 1 .. k, NEW j \in 1 .. k, held[i].note < held[j].note
      PROVE  rank[i] < rank[j]
  <2>1. Below(i) \in SUBSET Below(j) /\ i \in Below(j) /\ i \notin Below(i)
    BY <1>1, <1>4
  <2>2. /\ Cardinality(Below(i)) <= Cardinality(Below(j))
        /\ Cardinality(Below(j)) = Cardinality(Below(i)) => Below(j) = Below(i)
    BY <1>3, <2>1, FS_Subset
  <2> HIDE DEF Below, rank
  <2>3. rank[i] \in Int /\ rank[j] \in Int
    BY <1>1, <1>3
  <2>4. QED
    BY <1>3, <2>1, <2>2, <2>3
<1> HIDE DEF rank, Below
<1>5. \A i, j \in 1 .. k : rank[i] = rank[j] => i = j
  <2> SUFFICES ASSUME NEW i \in 1 .. k, NEW j \in 1 .. k, i # j PROVE rank[i] # rank[j]
    OBVIOUS
  <2>1. held[i].note < held[j].note \/ held[j].note < held[i].note
    BY <1>1
  <2>2. rank[i] \in Int /\ rank[j] \in Int
    BY <1>3
  <2>3. QED
    BY <1>4, <2>1, <2>2
<1>6. \E i \in 1 .. k : rank[i] = index
  <2> SUFFICES ASSUME \A i \in 1 .. k : rank[i] # index PROVE FALSE
    OBVIOUS
  <2> DEFINE T == (0 .. k - 1) \ {index}
  <2>1. IsFiniteSet(0 .. k - 1) /\ Cardinality(0 .. k - 1) = k
    <3>1. 0 \in Int /\ k - 1 \in Int
      BY <1>1
    <3>2. /\ IsFiniteSet(0 .. k - 1)
          /\ Cardinality(0 .. k - 1) = IF 0 > k - 1 THEN 0 ELSE k - 1 - 0 + 1
      BY <3>1, FS_Interval, Zenon
    <3>3. (IF 0 > k - 1 THEN 0 ELSE k - 1 - 0 + 1) = k
      BY <1>1
    <3>4. QED
      BY <3>2, <3>3
  <2>2. IsFiniteSet(T) /\ Cardinality(T) = k - 1
    BY <2>1, FS_RemoveElement
  <2>3. IsFiniteSet(1 .. k) /\ Cardinality(T) < Cardinality(1 .. k)
    BY <1>1, <1>2, <2>2
  <2>4. \A i \in 1 .. k : rank[i] \in T
    BY <1>3
  <2>5. rank \in [1 .. k -> T]
    BY <2>4 DEF rank
  <2> HIDE DEF T, k
  <2>6. \E x, y \in 1 .. k : x # y /\ rank[x] = rank[y]
    BY <2>2, <2>3, <2>5, FS_PigeonHole
  <2>7. QED
    BY <1>5, <2>6
<1>7. \E i \in 1 .. k : Cardinality({ j \in 1 .. k : held[j].note < held[i].note }) = index
  BY <1>3, <1>6 DEF Below
<1>8. QED
  BY <1>7, Zenon DEF Sorted

-----------------------------------------------------------------------------
(* The record.                                                             *)

Arp ==
    [running : BOOLEAN, tick : Int, idle_ticks : Int, position : Int,
     current_direction : Int, current_octave : Int, current_step : Int,
     ignore_note_off : BOOLEAN, recording : BOOLEAN,
     held : Seq(HeldKey), line : Seq(Entry), out : Seq(Message),
     sounding : SUBSET Midi, lost : SUBSET Midi]

\* Two records that differ only in what is sent and queued.
Same(a, b) ==
    /\ b.running = a.running /\ b.tick = a.tick /\ b.idle_ticks = a.idle_ticks
    /\ b.position = a.position /\ b.current_direction = a.current_direction
    /\ b.current_octave = a.current_octave /\ b.current_step = a.current_step
    /\ b.ignore_note_off = a.ignore_note_off /\ b.recording = a.recording
    /\ b.held = a.held

\* Two that agree on it.
Quiet(a, b) ==
    /\ b.line = a.line /\ b.out = a.out /\ b.sounding = a.sounding /\ b.lost = a.lost

\* A key, some octaves up.
Arises(held, n) ==
    \E k \in 1 .. Len(held), octave \in 0 .. 3 : n = Folded(held[k].note + 12 * octave)

\* The messages play only keys that are held.
FromKeys(held, out) ==
    \A i \in 1 .. Len(out) : out[i].type = "on" => Arises(held, out[i].note)

\* Each note that sounds has one end in the line, unless it was refused.
Queued(a) ==
    /\ Len(a.line) <= kEventSchedulerSize - 1
    /\ EndOnce(a.line) /\ EndsOf(a.line) = a.sounding \ a.lost

Good(a) == a \in Arp /\ Keyed(a.held) /\ Queued(a)

LEMMA PutLine ==
    ASSUME NEW a \in Arp, NEW line \in Seq(Entry)
    PROVE  LET b == [a EXCEPT !.line = line]
           IN  /\ b \in Arp /\ Same(a, b) /\ b.out = a.out /\ b.sounding = a.sounding
               /\ b.line = line /\ b.lost = a.lost
  BY DEF Arp, Same

-----------------------------------------------------------------------------
(* What is sent.                                                           *)

LEMMA SendsIs ==
    ASSUME NEW a \in Arp, NEW messages \in Seq(Message),
           Heard(a.sounding, messages) \in SUBSET Midi
    PROVE  LET b == Sends(a, messages)
           IN  /\ b \in Arp /\ Same(a, b) /\ b.line = a.line /\ b.lost = a.lost
               /\ b.out = a.out \o messages
               /\ b.sounding = Heard(a.sounding, messages)
<1>1. a.out \in Seq(Message)
  BY DEF Arp
<1>2. a.out \o messages \in Seq(Message)
  BY <1>1
<1>3. Sends(a, messages) = [a EXCEPT !.out = a.out \o messages,
                                     !.sounding = Heard(a.sounding, messages)]
  BY DEF Sends
<1> DEFINE out      == a.out \o messages
           sounding == Heard(a.sounding, messages)
           b        == [a EXCEPT !.out = out, !.sounding = sounding]
<1>4. out \in Seq(Message) /\ sounding \in SUBSET Midi /\ Sends(a, messages) = b
  BY <1>2, <1>3
<1> HIDE DEF out, sounding
<1>5. /\ b \in Arp /\ Same(a, b) /\ b.line = a.line /\ b.lost = a.lost
      /\ b.out = out /\ b.sounding = sounding
  BY <1>4 DEF Arp, Same
<1>6. QED
  BY <1>4, <1>5 DEF out, sounding

\* What is sent plays keys if all that was and all that is does.
LEMMA PlaysBoth ==
    ASSUME NEW held, NEW out \in Seq(Message), NEW messages \in Seq(Message),
           FromKeys(held, out), FromKeys(held, messages)
    PROVE  FromKeys(held, out \o messages)
<1>1. /\ Len(out) \in Nat /\ Len(messages) \in Nat
      /\ Len(out \o messages) = Len(out) + Len(messages)
  OBVIOUS
<1>2. ASSUME NEW i \in 1 .. Len(out) + Len(messages)
      PROVE  \/ i \in 1 .. Len(out) /\ (out \o messages)[i] = out[i]
             \/ /\ i - Len(out) \in 1 .. Len(messages)
                /\ (out \o messages)[i] = messages[i - Len(out)]
  OBVIOUS
<1>3. QED
  BY <1>1, <1>2, Zenon DEF FromKeys

LEMMA PlaysEnds ==
    ASSUME NEW held, NEW messages, \A i \in 1 .. Len(messages) : messages[i].type # "on"
    PROVE  FromKeys(held, messages)
  BY DEF FromKeys

\* A byte that the instrument ignores.
LEMMA SystemIs ==
    ASSUME NEW a \in Arp, NEW byte \in {0, 248, 250, 252}
    PROVE  LET b == Sends(a, <<System(byte)>>)
           IN  /\ b \in Arp /\ Same(a, b) /\ b.line = a.line /\ b.lost = a.lost
               /\ b.sounding = a.sounding
               /\ \A held : FromKeys(held, a.out) => FromKeys(held, b.out)
<1> DEFINE messages == <<System(byte)>>
<1>1. messages \in Seq(Message) /\ Len(messages) = 1 /\ messages[1] = System(byte)
  BY MessageFacts
<1>2. Heard(a.sounding, messages) = a.sounding /\ a.sounding \in SUBSET Midi
  BY HeardSystem DEF Arp
<1>3. \A i \in 1 .. Len(messages) : messages[i].type # "on"
  BY <1>1 DEF System
<1> HIDE DEF messages
<1>4. \A held : FromKeys(held, messages)
  BY <1>3, PlaysEnds
<1>5. a.out \in Seq(Message)
  BY DEF Arp
<1>6. /\ Sends(a, messages) \in Arp /\ Same(a, Sends(a, messages))
      /\ Sends(a, messages).line = a.line /\ Sends(a, messages).lost = a.lost
      /\ Sends(a, messages).out = a.out \o messages
      /\ Sends(a, messages).sounding = a.sounding
  BY <1>1, <1>2, SendsIs
<1>7. \A held : FromKeys(held, a.out) => FromKeys(held, a.out \o messages)
  BY <1>1, <1>4, <1>5, PlaysBoth
<1>8. QED
  BY <1>6, <1>7 DEF messages

\* The ends of a line are sent.
LEMMA SendsEnds ==
    ASSUME NEW a \in Arp, NEW line \in Seq(Entry)
    PROVE  LET b == Sends(a, Ends(line))
           IN  /\ b \in Arp /\ Same(a, b) /\ b.line = a.line /\ b.lost = a.lost
               /\ b.sounding = a.sounding \ EndsOf(line)
               /\ \A held : FromKeys(held, a.out) => FromKeys(held, b.out)
<1> DEFINE messages == Ends(line)
<1>1. /\ messages \in Seq(Message)
      /\ Heard(a.sounding, messages) = a.sounding \ EndsOf(line)
      /\ \A i \in 1 .. Len(messages) : messages[i].type # "on"
  BY HeardEnds
<1> HIDE DEF messages
<1>2. a.out \in Seq(Message) /\ a.sounding \in SUBSET Midi
  BY DEF Arp
<1>3. a.sounding \ EndsOf(line) \in SUBSET Midi
  BY <1>2
<1>4. \A held : FromKeys(held, messages)
  BY <1>1, PlaysEnds
<1>5. /\ Sends(a, messages) \in Arp /\ Same(a, Sends(a, messages))
      /\ Sends(a, messages).line = a.line /\ Sends(a, messages).lost = a.lost
      /\ Sends(a, messages).out = a.out \o messages
      /\ Sends(a, messages).sounding = a.sounding \ EndsOf(line)
  BY <1>1, <1>3, SendsIs
<1>6. \A held : FromKeys(held, a.out) => FromKeys(held, a.out \o messages)
  BY <1>1, <1>2, <1>4, PlaysBoth
<1>7. QED
  BY <1>5, <1>6 DEF messages

\* SendScheduledNotes ends what it takes from the line.
LEMMA ScheduledIs ==
    ASSUME NEW a, Good(a)
    PROVE  LET b == SendScheduledNotes(a)
           IN  /\ Good(b) /\ Same(a, b) /\ (a.line = <<>> => b.line = <<>>)
               /\ \A held : FromKeys(held, a.out) => FromKeys(held, b.out)
<1> DEFINE due  == SubSeq(a.line, 1, Due(a.line))
           rest == Staying(a.line)
           c    == Sends(a, Ends(due))
           b    == [c EXCEPT !.line = rest]
<1>1. /\ a \in Arp /\ Keyed(a.held) /\ a.line \in Seq(Entry) /\ EndOnce(a.line)
      /\ Len(a.line) <= kEventSchedulerSize - 1 /\ EndsOf(a.line) = a.sounding \ a.lost
  BY DEF Good, Queued, Arp
<1>2. /\ due \in Seq(Entry)
      /\ rest \in Seq(Entry) /\ Len(rest) <= Len(a.line) /\ EndOnce(rest)
      /\ EndsOf(rest) = EndsOf(a.line) \ EndsOf(due)
  BY <1>1, StayingIs
<1>3. SendScheduledNotes(a) = [c EXCEPT !.line = Staying(c.line)]
  BY DEF SendScheduledNotes
<1>4. a.line = <<>> => rest = <<>>
  BY <1>2
<1> HIDE DEF due, c
<1>5. /\ c \in Arp /\ Same(a, c) /\ c.line = a.line /\ c.lost = a.lost
      /\ c.sounding = a.sounding \ EndsOf(due)
      /\ \A held : FromKeys(held, a.out) => FromKeys(held, c.out)
  BY <1>1, <1>2, SendsEnds DEF c
<1>6. SendScheduledNotes(a) = b
  BY <1>3, <1>5
<1> HIDE DEF rest
<1>7. /\ b \in Arp /\ Same(c, b) /\ b.out = c.out /\ b.sounding = c.sounding
      /\ b.line = rest /\ b.lost = c.lost
  BY <1>2, <1>5, PutLine
<1> HIDE DEF b
<1>8. Same(a, b) /\ b.held = a.held
  BY <1>5, <1>7 DEF Same
<1>9. Len(rest) <= kEventSchedulerSize - 1
  BY <1>1, <1>2, SizeFacts
<1>10. EndsOf(b.line) = b.sounding \ b.lost
  BY <1>1, <1>2, <1>5, <1>7
<1>11. Good(b)
  BY <1>1, <1>2, <1>7, <1>8, <1>9, <1>10 DEF Good, Queued
<1>12. QED
  BY <1>4, <1>5, <1>6, <1>7, <1>8, <1>11

\* FlushQueue ends everything in the line.
LEMMA FlushIs ==
    ASSUME NEW a, Good(a)
    PROVE  LET b == FlushQueue(a)
           IN  /\ Good(b) /\ Same(a, b) /\ b.line = <<>>
               /\ \A held : FromKeys(held, a.out) => FromKeys(held, b.out)
<1> DEFINE c == Sends(a, Ends(a.line))
           b == [c EXCEPT !.line = <<>>]
<1>1. /\ a \in Arp /\ Keyed(a.held) /\ a.line \in Seq(Entry)
      /\ EndsOf(a.line) = a.sounding \ a.lost
  BY DEF Good, Queued, Arp
<1>2. FlushQueue(a) = b
  BY DEF FlushQueue
<1> HIDE DEF c
<1>3. /\ c \in Arp /\ Same(a, c) /\ c.line = a.line /\ c.lost = a.lost
      /\ c.sounding = a.sounding \ EndsOf(a.line)
      /\ \A held : FromKeys(held, a.out) => FromKeys(held, c.out)
  BY <1>1, SendsEnds DEF c
<1>4. /\ <<>> \in Seq(Entry) /\ Len(<<>>) = 0 /\ EndOnce(<<>>) /\ EndsOf(<<>>) = {}
      /\ 0 <= kEventSchedulerSize - 1
  BY SizeFacts DEF EndOnce, EndsOf
<1>5. /\ b \in Arp /\ Same(c, b) /\ b.out = c.out /\ b.sounding = c.sounding
      /\ b.line = <<>> /\ b.lost = c.lost
  BY <1>3, <1>4, PutLine
<1> HIDE DEF b
<1>6. Same(a, b) /\ b.held = a.held
  BY <1>3, <1>5 DEF Same
<1>7. b.sounding \ b.lost = {}
  BY <1>1, <1>3, <1>5
<1>8. Good(b)
  BY <1>1, <1>4, <1>5, <1>6, <1>7 DEF Good, Queued
<1>9. QED
  BY <1>2, <1>3, <1>5, <1>6, <1>8

\* SendNote keeps one end for each note: it takes back the one that waits, and
\* either schedules one or counts the note as lost.
LEMMA SendNoteIs ==
    ASSUME NEW a, Good(a), NEW n \in Midi, set.duration \in Int
    PROVE  LET b == SendNote(a, n)
           IN  /\ Good(b) /\ Same(a, b)
               /\ \A held : FromKeys(held, a.out) /\ Arises(held, n) => FromKeys(held, b.out)
<1> DEFINE sounds   == \E i \in 1 .. Len(a.line) : a.line[i].note = n
           messages == IF sounds THEN <<Off(n), On(n)>> ELSE <<On(n)>>
           struck   == Struck(a.line, n, 0, kZombie)
           full     == Len(struck) = kEventSchedulerSize - 1
           longer   == Inserted(struck, Event(n, 0, set.duration - 1))
           line     == IF full THEN struck ELSE longer
           lost     == IF full THEN a.lost \cup {n} ELSE a.lost \ {n}
           c        == Sends(a, messages)
           b        == [c EXCEPT !.line = line, !.lost = lost]
<1>1. /\ a \in Arp /\ Keyed(a.held) /\ a.line \in Seq(Entry) /\ EndOnce(a.line)
      /\ Len(a.line) <= kEventSchedulerSize - 1 /\ EndsOf(a.line) = a.sounding \ a.lost
      /\ a.out \in Seq(Message) /\ a.sounding \in SUBSET Midi /\ a.lost \in SUBSET Midi
  BY DEF Good, Queued, Arp
<1>2. /\ messages \in Seq(Message)
      /\ \A i \in 1 .. Len(messages) : messages[i] \in {On(n), Off(n)}
  <2>1. On(n) \in Message /\ Off(n) \in Message
    BY MessageFacts
  <2>2. QED
    BY <2>1
<1>3. Heard(a.sounding, messages) = a.sounding \cup {n}
  BY HeardOn
<1>4. /\ struck \in Seq(Entry) /\ Len(struck) = Len(a.line) /\ EndOnce(struck)
      /\ EndsOf(struck) = EndsOf(a.line) \ {n}
  BY <1>1, StruckIs
<1> HIDE DEF messages, struck
<1>5. /\ longer \in Seq(Entry) /\ Len(longer) = Len(struck) + 1 /\ EndOnce(longer)
      /\ EndsOf(longer) = EndsOf(struck) \cup {n}
  <2>1. n \notin EndsOf(struck) /\ set.duration - 1 \in Int
    BY <1>4
  <2>2. QED
    BY <1>4, <2>1, InsertedIs
<1> HIDE DEF longer
<1>6. /\ line \in Seq(Entry) /\ Len(line) <= kEventSchedulerSize - 1 /\ EndOnce(line)
      /\ lost \in SUBSET Midi /\ EndsOf(line) = (a.sounding \cup {n}) \ lost
  <2>1. Len(struck) \in Nat
    BY <1>4
  <2>2. CASE full
    BY <1>1, <1>4, <2>1, <2>2
  <2>3. CASE ~full
    <3>1. Len(longer) <= kEventSchedulerSize - 1
      BY <1>1, <1>4, <1>5, <2>1, <2>3, SizeFacts
    <3>2. (((a.sounding \ a.lost) \ {n}) \cup {n}) = (a.sounding \cup {n}) \ (a.lost \ {n})
      OBVIOUS
    <3>3. QED
      BY <1>1, <1>4, <1>5, <2>3, <3>1, <3>2
  <2>4. QED
    BY <2>2, <2>3
<1>7. SendNote(a, n) = [c EXCEPT !.line = line, !.lost = IF full THEN c.lost \cup {n}
                                                               ELSE c.lost \ {n}]
  BY DEF SendNote, messages, struck, longer
<1> HIDE DEF c
<1>8. /\ c \in Arp /\ Same(a, c) /\ c.line = a.line /\ c.lost = a.lost
      /\ c.out = a.out \o messages /\ c.sounding = a.sounding \cup {n}
  <2>1. Heard(a.sounding, messages) \in SUBSET Midi
    BY <1>1, <1>3
  <2>2. QED
    BY <1>1, <1>2, <1>3, <2>1, SendsIs DEF c
<1>9. SendNote(a, n) = b
  BY <1>7, <1>8
<1> HIDE DEF line, lost
<1>10. /\ b \in Arp /\ Same(c, b) /\ b.out = c.out /\ b.sounding = c.sounding
       /\ b.line = line /\ b.lost = lost
  BY <1>6, <1>8 DEF Arp, Same
<1> HIDE DEF b
<1>11. Same(a, b) /\ b.held = a.held
  BY <1>8, <1>10 DEF Same
<1>12. Good(b)
  BY <1>1, <1>6, <1>8, <1>10, <1>11 DEF Good, Queued
<1>13. ASSUME NEW held, FromKeys(held, a.out), Arises(held, n)
       PROVE  FromKeys(held, b.out)
  <2>1. FromKeys(held, messages)
    BY <1>2, <1>13 DEF FromKeys, On, Off
  <2>2. FromKeys(held, a.out \o messages)
    BY <1>1, <1>2, <1>13, <2>1, PlaysBoth
  <2>3. QED
    BY <1>8, <1>10, <2>2
<1>14. QED
  BY <1>9, <1>11, <1>12, <1>13

-----------------------------------------------------------------------------
(* What is played.                                                         *)

\* What SendNote, and the loop of a chord, may do to a record that plays its keys.
Plays(a, b) ==
    /\ Good(b) /\ Same(a, b)
    /\ FromKeys(a.held, a.out) => FromKeys(a.held, b.out)

LEMMA FoldedIs ==
    ASSUME NEW x \in Midi
    PROVE  /\ Folded(x + 12 * 0) = x
           /\ \A octave \in 0 .. 3 : Folded(x + 12 * octave) \in Midi
<1>1. x \in Int /\ 0 <= x /\ x <= 127 /\ x + 12 * 0 = x
  BY DEF Midi
<1>2. Folded(x + 12 * 0) = x
  BY <1>1 DEF Folded
<1>3. ASSUME NEW octave \in 0 .. 3 PROVE Folded(x + 12 * octave) \in Midi
  <2> DEFINE y == x + 12 * octave
  <2>1. y \in Int /\ 0 <= y /\ y <= 163
    BY <1>1
  <2> HIDE DEF y
  <2>2. CASE y <= 127
    BY <2>1, <2>2 DEF Folded, Midi
  <2>3. CASE y > 127
    <3>1. y - 12 * ((y - 116) \div 12) \in 116 .. 127
      BY <2>1, <2>3
    <3>2. QED
      BY <2>1, <2>3, <3>1 DEF Folded, Midi
  <2>4. QED
    BY <2>1, <2>2, <2>3 DEF y
<1>4. QED
  BY <1>2, <1>3

LEMMA KeyArises ==
    ASSUME NEW held, Keyed(held), NEW i \in 1 .. Len(held)
    PROVE  held[i].note \in Midi /\ Arises(held, held[i].note)
<1>1. held[i].note \in Midi
  <2>1. held[i] \in HeldKey
    BY DEF Keyed
  <2>2. QED
    BY <2>1, SizeFacts DEF HeldKey
<1>2. held[i].note = Folded(held[i].note + 12 * 0)
  BY <1>1, FoldedIs
<1>3. 0 \in 0 .. 3
  OBVIOUS
<1>4. QED
  BY <1>1, <1>2, <1>3, Zenon DEF Arises

LEMMA ChordIs ==
    ASSUME NEW a, Good(a), set.duration \in Int
    PROVE  Plays(a, Chord(a))
<1> DEFINE n       == Len(a.held)
           S       == { x \in Arp : Plays(a, x) }
           note(k) == Sorted(a.held, k - 1).note
           F       == [k \in 1 .. n |-> [x \in S |-> SendNote(x, note(k))]]
           Turns_(f) == f = [k \in 0 .. n |-> IF k = 0 THEN a ELSE SendNote(f[k - 1], note(k))]
           played  == CHOOSE f : Turns_(f)
<1>1. n \in Nat /\ Keyed(a.held)
  BY DEF Good, Keyed
<1>2. ASSUME NEW k \in 1 .. n PROVE note(k) \in Midi /\ Arises(a.held, note(k))
  <2>1. k - 1 \in 0 .. n - 1
    BY <1>1
  <2>2. PICK i \in 1 .. n : Sorted(a.held, k - 1) = a.held[i]
    BY <1>1, <2>1, SortedIn
  <2>3. QED
    BY <1>1, <2>2, KeyArises
<1>3. ASSUME NEW k \in 1 .. n, NEW x \in S PROVE SendNote(x, note(k)) \in S
  <2> DEFINE y == SendNote(x, note(k))
  <2>1. Good(x) /\ Same(a, x) /\ (FromKeys(a.held, a.out) => FromKeys(a.held, x.out))
    BY DEF Plays
  <2>2. note(k) \in Midi /\ Arises(a.held, note(k))
    BY <1>2
  <2> HIDE DEF note, S
  <2>3. /\ Good(y) /\ Same(x, y)
        /\ \A held : FromKeys(held, x.out) /\ Arises(held, note(k)) => FromKeys(held, y.out)
    BY <2>1, <2>2, SendNoteIs
  <2> HIDE DEF y
  <2>4. Same(a, y)
    BY <2>1, <2>3 DEF Same
  <2>5. Plays(a, y)
    BY <2>1, <2>2, <2>3, <2>4 DEF Plays
  <2>6. QED
    BY <2>3, <2>5 DEF y, S, Good
<1>4. a \in S
  BY DEF Plays, Same, Good
<1> HIDE DEF n, S, note
<1>5. Loop(F, n, S)
  BY <1>3 DEF Loop
<1>6. PICK f \in [0 .. n -> S] : f[0] = a /\ \A k \in 1 .. n : f[k] = F[k][f[k - 1]]
  <2>1. n \in Nat
    BY <1>1 DEF n
  <2> HIDE DEF F
  <2>2. \E f : Runs(f, F, n, S, a)
    BY <1>4, <1>5, <2>1, LoopExists
  <2>3. QED
    BY <2>2, Zenon DEF Runs
<1>7. ASSUME NEW k \in 1 .. n PROVE f[k] = SendNote(f[k - 1], note(k))
  <2>1. k - 1 \in 0 .. n
    BY <1>1 DEF n
  <2>2. f[k - 1] \in S
    BY <1>6, <2>1
  <2>3. QED
    BY <1>6, <2>2
<1>8. Turns_(f)
  <2>1. \A k \in 0 .. n : k = 0 \/ k \in 1 .. n
    BY <1>1 DEF n
  <2>2. \A k \in 0 .. n : f[k] = IF k = 0 THEN a ELSE SendNote(f[k - 1], note(k))
    BY <1>6, <1>7, <2>1
  <2>3. QED
    BY <1>6, <2>2
<1>9. Turns_(played)
  BY <1>8
<1> HIDE DEF played
<1>10. played[0] = a /\ \A k \in 1 .. n : played[k] = SendNote(played[k - 1], note(k))
  <2>1. 0 \in 0 .. n /\ \A k \in 1 .. n : k \in 0 .. n /\ k # 0
    BY <1>1 DEF n
  <2>2. \A k \in 0 .. n : played[k] = IF k = 0 THEN a ELSE SendNote(played[k - 1], note(k))
    BY <1>9, Zenon
  <2>3. QED
    BY <2>1, <2>2
<1>11. \A k \in 1 .. n : played[k - 1] \in S => played[k] \in S
  BY <1>3, <1>10
<1>12. played[n] \in S
  BY <1>1, <1>4, <1>10, <1>11, LoopKeeps DEF n
<1>13. Chord(a) = played[n]
  BY Zenon DEF Chord, played, n, note
<1>14. QED
  BY <1>12, <1>13 DEF S

-----------------------------------------------------------------------------
(* The arpeggio.                                                           *)

\* The counters, as TypeOK has them, but for the tick.
Placed(a) ==
    /\ a.idle_ticks \in 0 .. kIdleTicks /\ a.position \in 0 .. 16
    /\ a.current_direction \in {-1, 0, 1} /\ a.current_octave \in {0, 1, 2, 3, 127}
    /\ a.current_step \in -1 .. kNoteStackSize - 1

\* The step designates a key that is held.
OnKey(a) == a.current_octave \in 0 .. 3 /\ a.current_step \in 0 .. Len(a.held) - 1

\* Two records that differ only in the step of the arpeggio.
Stepped(a, b) ==
    /\ Quiet(a, b) /\ b.held = a.held /\ b.running = a.running /\ b.tick = a.tick
    /\ b.idle_ticks = a.idle_ticks /\ b.position = a.position
    /\ b.current_direction \in {-1, 0, 1}

LEMMA StillGood ==
    ASSUME NEW a, Good(a), NEW b \in Arp, Quiet(a, b), Keyed(b.held)
    PROVE  Good(b)
  BY DEF Good, Quiet, Queued

LEMMA SettingFacts ==
    ASSUME set \in SettingsType
    PROVE  /\ set.num_octaves \in 1 .. 4 /\ set.pattern_length \in 1 .. 16
           /\ set.prescaler \in 1 .. 192 /\ set.duration \in Int
  BY DEF SettingsType

PutAt(a, octave, step, b) == b = [a EXCEPT !.current_octave = octave, !.current_step = step]

LEMMA PutStep ==
    ASSUME NEW a \in Arp, Placed(a), NEW octave \in {0, 1, 2, 3, 127},
           NEW step \in -1 .. kNoteStackSize - 1,
           NEW b, PutAt(a, octave, step, b)
    PROVE  /\ b \in Arp /\ Stepped(a, b) /\ Placed(b)
           /\ b.current_octave = octave /\ b.current_step = step
<1>1. octave \in Int /\ step \in Int
  BY SizeFacts
<1>2. /\ b \in Arp /\ Quiet(a, b) /\ b.held = a.held /\ b.running = a.running
      /\ b.tick = a.tick /\ b.idle_ticks = a.idle_ticks /\ b.position = a.position
      /\ b.current_direction = a.current_direction
      /\ b.current_octave = octave /\ b.current_step = step
  BY <1>1 DEF Arp, Quiet, PutAt
<1>3. Stepped(a, b) /\ Placed(b)
  BY <1>2 DEF Stepped, Placed
<1>4. QED
  BY <1>2, <1>3

LEMMA StartArpeggioIs ==
    ASSUME set \in SettingsType, NEW a \in Arp, Placed(a), Keyed(a.held)
    PROVE  LET b == StartArpeggio(a)
           IN  /\ b \in Arp /\ Stepped(a, b) /\ Placed(b)
               /\ a.held # <<>> => OnKey(b)
<1> DEFINE k    == Len(a.held)
           up   == [a EXCEPT !.current_octave = 0, !.current_step = 0]
           down == [a EXCEPT !.current_octave = set.num_octaves - 1, !.current_step = k - 1]
<1>1. k \in Nat /\ k <= kNoteStackSize /\ (a.held # <<>> => k >= 1) /\ kNoteStackSize \in Nat \ {0}
  <2>1. a.held \in Seq(HeldKey) /\ k <= kNoteStackSize
    BY DEF Keyed
  <2>2. QED
    BY <2>1, SizeFacts
<1>2. set.num_octaves - 1 \in 0 .. 3
  BY SettingFacts
<1>3. StartArpeggio(a) = IF a.current_direction = 1 THEN up ELSE down
  BY DEF StartArpeggio
<1>4. up \in Arp /\ Stepped(a, up) /\ Placed(up) /\ (a.held # <<>> => OnKey(up))
  <2>1. 0 \in -1 .. kNoteStackSize - 1 /\ 0 \in {0, 1, 2, 3, 127}
    BY <1>1
  <2>2. PutAt(a, 0, 0, up)
    BY DEF PutAt
  <2> HIDE DEF up
  <2>3. /\ up \in Arp /\ Stepped(a, up) /\ Placed(up)
        /\ up.current_octave = 0 /\ up.current_step = 0
    BY <2>1, <2>2, PutStep
  <2>4. a.held # <<>> => OnKey(up)
    BY <1>1, <2>3 DEF OnKey, Stepped
  <2>5. QED
    BY <2>3, <2>4
<1>5. down \in Arp /\ Stepped(a, down) /\ Placed(down) /\ (a.held # <<>> => OnKey(down))
  <2> DEFINE o == set.num_octaves - 1
             s == k - 1
  <2>1. s \in -1 .. kNoteStackSize - 1 /\ (a.held # <<>> => s \in 0 .. k - 1)
    BY <1>1
  <2>2. o \in 0 .. 3 /\ o \in {0, 1, 2, 3, 127}
    BY <1>2
  <2>0. PutAt(a, o, s, down)
    BY DEF PutAt
  <2> HIDE DEF s, o, down
  <2>3. /\ down \in Arp /\ Stepped(a, down) /\ Placed(down)
        /\ down.current_octave = o /\ down.current_step = s
    BY <2>0, <2>1, <2>2, PutStep
  <2>4. a.held # <<>> => OnKey(down)
    BY <2>1, <2>2, <2>3 DEF OnKey, Stepped
  <2>5. QED
    BY <2>3, <2>4
<1>6. QED
  BY <1>3, <1>4, <1>5

LEMMA MoveIs ==
    ASSUME set \in SettingsType, NEW a \in Arp, Placed(a), Keyed(a.held), a.held # <<>>,
           a.current_octave # 127
    PROVE  LET b == Move(a)
           IN  b \in Arp /\ Stepped(a, b) /\ Placed(b) /\ OnKey(b)
<1> DEFINE k == Len(a.held)
           s == NextStep(a)
           o == NextOctave(a)
           b == [a EXCEPT !.current_octave = o, !.current_step = s]
<1>1. CASE PastEnd(a)
  BY <1>1, StartArpeggioIs DEF Move
<1>2. CASE ~PastEnd(a)
  <2>1. k \in Nat /\ k >= 1 /\ k <= kNoteStackSize /\ kNoteStackSize \in Nat
    <3>1. a.held \in Seq(HeldKey) /\ k <= kNoteStackSize
      BY DEF Keyed
    <3>2. QED
      BY <3>1, SizeFacts
  <2>2. a.current_step \in Int /\ a.current_direction \in Int
    BY DEF Placed
  <2>3. s \in 0 .. k - 1
    <3> DEFINE step == a.current_step + a.current_direction
    <3>1. s = IF step >= k THEN 0 ELSE IF step < 0 THEN k - 1 ELSE step
      BY DEF NextStep
    <3>2. step \in Int
      BY <2>2
    <3> HIDE DEF s, step, k
    <3>3. QED
      BY <2>1, <3>1, <3>2
  <2>4. o \in 0 .. 3
    <3>1. CASE Turns(a)
      <4>1. o \in 0 .. set.num_octaves - 1
        BY <1>2, <3>1 DEF PastEnd
      <4>2. QED
        BY <4>1, SettingFacts
    <3>2. CASE ~Turns(a)
      <4>1. o = a.current_octave
        BY <3>2 DEF NextOctave
      <4>2. QED
        BY <4>1 DEF Placed
    <3>3. QED
      BY <3>1, <3>2
  <2>5. Move(a) = b
    BY <1>2 DEF Move
  <2>6. s \in -1 .. kNoteStackSize - 1 /\ o \in {0, 1, 2, 3, 127}
    BY <2>1, <2>3, <2>4
  <2>0. PutAt(a, o, s, b)
    BY DEF PutAt
  <2> HIDE DEF s, o, b
  <2>7. /\ b \in Arp /\ Stepped(a, b) /\ Placed(b)
        /\ b.current_octave = o /\ b.current_step = s
    BY <2>0, <2>6, PutStep
  <2>8. OnKey(b)
    BY <2>3, <2>4, <2>7 DEF OnKey, Stepped
  <2>9. QED
    BY <2>5, <2>7, <2>8
<1>3. QED
  BY <1>1, <1>2

LEMMA SteppedTwice ==
    ASSUME NEW a, NEW b, NEW c, Stepped(a, b), Stepped(b, c)
    PROVE  Stepped(a, c)
  BY DEF Stepped, Quiet

\* Whatever became of the keys and the settings, a step ends on a key that is held.
LEMMA StepArpeggioIs ==
    ASSUME set \in SettingsType, NEW a \in Arp, Placed(a), Keyed(a.held), a.held # <<>>,
           NEW random \in RandomByte
    PROVE  LET b == StepArpeggio(a, random)
           IN  b \in Arp /\ Stepped(a, b) /\ Placed(b) /\ OnKey(b)
<1> DEFINE b       == StepArpeggio(a, random)
           Fits(x) == x \in Arp /\ Stepped(a, x) /\ Placed(x) /\ OnKey(x)
           back    == [a EXCEPT !.current_direction = -a.current_direction]
           again   == StartArpeggio(back)
           k       == Len(a.held)
<1>1. CASE a.current_octave = 127
  BY <1>1, StartArpeggioIs DEF StepArpeggio
<1>2. CASE a.current_octave # 127 /\ set.direction = "RANDOM"
  <2> DEFINE o == (random % 16) % set.num_octaves
             s == (random \div 16) % k
             x == [a EXCEPT !.current_octave = o, !.current_step = s]
  <2>1. k \in Nat /\ k >= 1 /\ k <= kNoteStackSize /\ kNoteStackSize \in Nat
    <3>1. a.held \in Seq(HeldKey) /\ k <= kNoteStackSize
      BY DEF Keyed
    <3>2. QED
      BY <3>1, SizeFacts
  <2>2. random \in 0 .. 255 /\ set.num_octaves \in 1 .. 4
    BY SettingFacts, SizesAssumption
  <2>3. s \in 0 .. k - 1
    <3>1. random \div 16 \in Int
      BY <2>2
    <3>2. QED
      BY <2>1, <3>1
  <2>4. o \in 0 .. 3
    <3>1. random % 16 \in Int
      BY <2>2
    <3> DEFINE r == random % 16
    <3> HIDE DEF r
    <3>2. r % set.num_octaves \in 0 .. set.num_octaves - 1
      BY <2>2, <3>1 DEF r
    <3>3. QED
      BY <2>2, <3>2 DEF r
  <2>5. b = x
    BY <1>2 DEF StepArpeggio
  <2>6. s \in -1 .. kNoteStackSize - 1 /\ o \in {0, 1, 2, 3, 127}
    BY <2>1, <2>3, <2>4
  <2>0. PutAt(a, o, s, x)
    BY DEF PutAt
  <2> HIDE DEF s, o, x
  <2>7. /\ x \in Arp /\ Stepped(a, x) /\ Placed(x)
        /\ x.current_octave = o /\ x.current_step = s
    BY <2>0, <2>6, PutStep
  <2>8. OnKey(x)
    BY <2>3, <2>4, <2>7 DEF OnKey, Stepped
  <2>9. QED
    BY <2>5, <2>7, <2>8
<1>3. CASE a.current_octave # 127 /\ set.direction = "UP_DOWN" /\ PastEnd(a)
  <2>1. -a.current_direction \in {-1, 0, 1} /\ -a.current_direction \in Int
    BY DEF Placed
  <2>2. back \in Arp /\ Stepped(a, back) /\ Placed(back)
    BY <2>1 DEF Arp, Placed, Stepped, Quiet
  <2>3. Keyed(back.held) /\ back.held # <<>>
    BY <2>2 DEF Stepped
  <2> HIDE DEF back
  <2>4. again \in Arp /\ Stepped(back, again) /\ Placed(again) /\ OnKey(again)
    BY <2>2, <2>3, StartArpeggioIs
  <2> HIDE DEF again
  <2>5. Fits(again)
    BY <2>2, <2>4, SteppedTwice
  <2>6. Fits(Move(again))
    <3>1. Keyed(again.held) /\ again.held # <<>> /\ again.current_octave # 127
      BY <2>3, <2>4 DEF Stepped, OnKey
    <3>2. /\ Move(again) \in Arp /\ Stepped(again, Move(again))
          /\ Placed(Move(again)) /\ OnKey(Move(again))
      BY <2>4, <3>1, MoveIs
    <3>3. QED
      BY <2>5, <3>2, SteppedTwice
  <2>7. b = IF Len(a.held) > 1 \/ set.num_octaves > 1 THEN Move(again) ELSE again
    BY <1>3 DEF StepArpeggio, back, again
  <2>8. QED
    BY <2>5, <2>6, <2>7
<1>4. CASE /\ a.current_octave # 127 /\ set.direction # "RANDOM"
           /\ ~(set.direction = "UP_DOWN" /\ PastEnd(a))
  <2>1. b = Move(a)
    BY <1>4 DEF StepArpeggio
  <2>2. QED
    BY <1>4, <2>1, MoveIs
<1>5. QED
  BY <1>1, <1>2, <1>3, <1>4

\* The invariant of a handler, but for what it says of the settings.
Fine(a) == Good(a) /\ Placed(a) /\ FromKeys(a.held, a.out)

\* Two records of the same transport.
Steady(a, b) ==
    b.running = a.running /\ b.idle_ticks = a.idle_ticks /\ b.held = a.held

LEMMA SamePlaced ==
    ASSUME NEW a, NEW b, Same(a, b), Placed(a)
    PROVE  Placed(b) /\ Steady(a, b)
  BY DEF Same, Placed, Steady

LEMMA NoteOnKey ==
    ASSUME NEW a \in Arp, Keyed(a.held), OnKey(a)
    PROVE  ArpeggioNote(a) \in Midi /\ Arises(a.held, ArpeggioNote(a))
<1> DEFINE k   == Len(a.held)
           key == IF set.direction = "AS_PLAYED" THEN Played(a.held, a.current_step)
                                                 ELSE Sorted(a.held, a.current_step)
<1>1. k \in Nat /\ a.current_step \in 0 .. k - 1 /\ a.current_octave \in 0 .. 3
  BY DEF Keyed, OnKey
<1>2. PICK i \in 1 .. k : key = a.held[i]
  <2>1. k - a.current_step \in 1 .. k
    BY <1>1
  <2>2. \E i \in 1 .. k : Sorted(a.held, a.current_step) = a.held[i]
    BY <1>1, SortedIn
  <2>3. QED
    BY <2>1, <2>2 DEF Played
<1>3. ArpeggioNote(a) = Folded(a.held[i].note + 12 * a.current_octave)
  BY <1>2 DEF ArpeggioNote
<1>4. a.held[i].note \in Midi
  BY KeyArises
<1>5. QED
  <2>1. ArpeggioNote(a) \in Midi
    BY <1>1, <1>3, <1>4, FoldedIs
  <2>2. Arises(a.held, ArpeggioNote(a))
    BY <1>1, <1>3, Zenon DEF Arises
  <2>3. QED
    BY <2>1, <2>2

LEMMA PlayIs ==
    ASSUME set \in SettingsType, NEW a, Fine(a), a.held # <<>>, NEW random \in RandomByte
    PROVE  LET b == Play(a, random) IN Fine(b) /\ Steady(a, b)
<1> DEFINE b == StepArpeggio(a, random)
           c == SendNote(b, ArpeggioNote(b))
           d == Chord(a)
<1>1. a \in Arp /\ Good(a) /\ Placed(a) /\ Keyed(a.held) /\ FromKeys(a.held, a.out)
      /\ set.duration \in Int
  BY SettingFacts DEF Fine, Good
<1>2. CASE set.direction = "CHORD"
  <2>1. Good(d) /\ Same(a, d) /\ FromKeys(a.held, d.out)
    BY <1>1, ChordIs DEF Plays
  <2>2. Play(a, random) = d
    BY <1>2 DEF Play
  <2> HIDE DEF d
  <2>3. Placed(d) /\ Steady(a, d) /\ d.held = a.held
    BY <1>1, <2>1, SamePlaced DEF Steady
  <2>4. QED
    BY <2>1, <2>2, <2>3 DEF Fine
<1>3. CASE set.direction # "CHORD"
  <2>1. b \in Arp /\ Stepped(a, b) /\ Placed(b) /\ OnKey(b)
    BY <1>1, StepArpeggioIs
  <2>2. Play(a, random) = c
    BY <1>3 DEF Play
  <2> HIDE DEF b
  <2>3. /\ Quiet(a, b) /\ b.held = a.held /\ b.out = a.out /\ Steady(a, b)
    BY <2>1 DEF Stepped, Quiet, Steady
  <2>4. Good(b) /\ Keyed(b.held)
    BY <1>1, <2>1, <2>3, StillGood
  <2>5. ArpeggioNote(b) \in Midi /\ Arises(b.held, ArpeggioNote(b))
    BY <2>1, <2>4, NoteOnKey
  <2> DEFINE n == ArpeggioNote(b)
  <2> HIDE DEF n
  <2>6. /\ Good(c) /\ Same(b, c)
        /\ FromKeys(b.held, b.out) /\ Arises(b.held, n) => FromKeys(b.held, c.out)
    BY <1>1, <2>4, <2>5, SendNoteIs DEF n
  <2> HIDE DEF c
  <2>7. Placed(c) /\ Steady(b, c)
    BY <2>1, <2>6, SamePlaced
  <2>8. Steady(a, c) /\ c.held = b.held
    BY <2>3, <2>7 DEF Steady
  <2>9. FromKeys(c.held, c.out)
    BY <1>1, <2>3, <2>5, <2>6, <2>8 DEF n
  <2>10. QED
    BY <2>2, <2>6, <2>7, <2>8, <2>9 DEF Fine
<1>4. QED
  BY <1>2, <1>3

-----------------------------------------------------------------------------
(* The clock.                                                              *)

\* Nothing waits in a record that does not run.
Rests(a) == ~a.running => a.line = <<>>

\* With the internal clock a key will start one that does not.
Wakes(a) == set.clk_mode = "INTERNAL" /\ ~a.running => a.idle_ticks = kIdleTicks

Whole(a) == Fine(a) /\ a.tick \in 0 .. 191 /\ Rests(a) /\ Wakes(a)

LEMMA SystemGood ==
    ASSUME NEW a, Good(a), NEW byte \in {0, 248, 250, 252}
    PROVE  LET b == Sends(a, <<System(byte)>>)
           IN  /\ Good(b) /\ Same(a, b) /\ b.line = a.line
               /\ \A held : FromKeys(held, a.out) => FromKeys(held, b.out)
<1> DEFINE b == Sends(a, <<System(byte)>>)
<1>1. a \in Arp
  BY DEF Good
<1>2. /\ b \in Arp /\ Same(a, b) /\ b.line = a.line /\ b.lost = a.lost
      /\ b.sounding = a.sounding
      /\ \A held : FromKeys(held, a.out) => FromKeys(held, b.out)
  BY <1>1, SystemIs
<1> HIDE DEF b
<1>3. Good(b)
  BY <1>2 DEF Good, Queued, Same
<1>4. QED
  BY <1>2, <1>3 DEF b

\* Two records that differ in what is queued and in the idle counter.
Alike(a, b) ==
    /\ b.tick = a.tick /\ b.position = a.position
    /\ b.current_direction = a.current_direction
    /\ b.current_octave = a.current_octave /\ b.current_step = a.current_step
    /\ b.held = a.held

\* The idle counter stops the arpeggiator only when no key is held, and then leaves
\* nothing in the line.
Idled(a, b) ==
    /\ Good(b) /\ Alike(a, b) /\ b.idle_ticks \in 0 .. kIdleTicks
    /\ Rests(b) /\ Wakes(b) /\ (~b.running => a.held = <<>>)
    /\ \A held : FromKeys(held, a.out) => FromKeys(held, b.out)

LEMMA PutIdle ==
    ASSUME NEW a \in Arp, NEW ticks \in Int
    PROVE  LET b == [a EXCEPT !.idle_ticks = ticks]
           IN  /\ b \in Arp /\ Quiet(a, b) /\ Alike(a, b)
               /\ b.idle_ticks = ticks /\ b.running = a.running
  BY DEF Arp, Quiet, Alike

LEMMA IdleIs ==
    ASSUME NEW a, Good(a), a.running, a.idle_ticks \in 0 .. kIdleTicks
    PROVE  Idled(a, Idle(a))
<1> DEFINE ticks == IF a.held = <<>> THEN a.idle_ticks + 1 ELSE 1
           f     == FlushQueue(a)
           s     == Sends(f, <<System(252)>>)
           x     == [a EXCEPT !.idle_ticks = ticks]
           y     == [s EXCEPT !.idle_ticks = kIdleTicks, !.running = FALSE]
           z     == [a EXCEPT !.idle_ticks = kIdleTicks]
<1>1. /\ ticks \in Nat /\ kIdleTicks \in Nat /\ kIdleTicks >= 2
      /\ ticks >= kIdleTicks => a.held = <<>>
  BY SizeFacts
<1>2. a \in Arp /\ Keyed(a.held)
  BY DEF Good
<1>3. CASE ticks < kIdleTicks
  <2>1. Idle(a) = x
    <3>1. ~(ticks >= kIdleTicks)
      BY <1>1, <1>3
    <3>2. QED
      BY <1>3, <3>1 DEF Idle
  <2>2. ticks \in 0 .. kIdleTicks
    BY <1>1, <1>3
  <2> HIDE DEF ticks
  <2>3. /\ x \in Arp /\ Quiet(a, x) /\ Alike(a, x) /\ x.idle_ticks = ticks
        /\ x.running = a.running
    <3>1. ticks \in Int
      BY <1>1
    <3>2. QED
      BY <1>2, <3>1, PutIdle
  <2> HIDE DEF x
  <2>4. Good(x)
    BY <1>2, <2>3, StillGood DEF Alike
  <2>5. Rests(x) /\ Wakes(x) /\ x.out = a.out
    BY <2>3 DEF Rests, Wakes, Quiet
  <2>6. QED
    BY <2>1, <2>2, <2>3, <2>4, <2>5 DEF Idled
<1>4. CASE ticks >= kIdleTicks /\ set.clk_mode = "INTERNAL"
  <2>1. Idle(a) = y
    <3>1. ~(ticks < kIdleTicks)
      BY <1>1, <1>4
    <3>2. QED
      BY <1>4, <3>1 DEF Idle
  <2>2. /\ Good(f) /\ Same(a, f) /\ f.line = <<>>
        /\ \A held : FromKeys(held, a.out) => FromKeys(held, f.out)
    BY FlushIs
  <2> HIDE DEF f
  <2>3. /\ Good(s) /\ Same(f, s) /\ s.line = f.line
        /\ \A held : FromKeys(held, f.out) => FromKeys(held, s.out)
    BY <2>2, SystemGood
  <2> HIDE DEF s
  <2>4. s \in Arp /\ Keyed(s.held) /\ Alike(a, s)
    BY <2>2, <2>3 DEF Good, Same, Alike
  <2>5. /\ y \in Arp /\ Quiet(s, y) /\ Alike(s, y) /\ y.idle_ticks = kIdleTicks
        /\ y.running = FALSE
    <3> DEFINE i == [s EXCEPT !.idle_ticks = kIdleTicks]
    <3>1. kIdleTicks \in Int
      BY <1>1
    <3>2. i \in Arp /\ Quiet(s, i) /\ Alike(s, i) /\ i.idle_ticks = kIdleTicks
      BY <2>4, <3>1, PutIdle
    <3>3. y = [i EXCEPT !.running = FALSE]
      OBVIOUS
    <3> HIDE DEF i, y
    <3>4. y \in Arp /\ Quiet(i, y) /\ Alike(i, y) /\ y.idle_ticks = i.idle_ticks /\ y.running = FALSE
      BY <3>2, <3>3 DEF Arp, Quiet, Alike
    <3>5. QED
      BY <3>2, <3>4 DEF Quiet, Alike
  <2> HIDE DEF y
  <2>6. Good(y) /\ Alike(a, y)
    BY <2>3, <2>4, <2>5, StillGood DEF Alike
  <2>7. Rests(y) /\ Wakes(y) /\ y.out = s.out
    BY <2>2, <2>3, <2>5 DEF Rests, Wakes, Quiet
  <2>8. kIdleTicks \in 0 .. kIdleTicks /\ a.held = <<>>
    BY <1>1, <1>4
  <2>9. QED
    BY <2>1, <2>2, <2>3, <2>5, <2>6, <2>7, <2>8 DEF Idled
<1>5. CASE ticks >= kIdleTicks /\ set.clk_mode # "INTERNAL"
  <2>1. Idle(a) = z
    <3>1. ~(ticks < kIdleTicks)
      BY <1>1, <1>5
    <3>2. QED
      BY <1>5, <3>1 DEF Idle
  <2>2. /\ z \in Arp /\ Quiet(a, z) /\ Alike(a, z) /\ z.idle_ticks = kIdleTicks
        /\ z.running = a.running
    <3>1. kIdleTicks \in Int
      BY <1>1
    <3>2. QED
      BY <1>2, <3>1, PutIdle
  <2> HIDE DEF z
  <2>3. Good(z)
    BY <1>2, <2>2, StillGood DEF Alike
  <2>4. Rests(z) /\ Wakes(z) /\ z.out = a.out /\ kIdleTicks \in 0 .. kIdleTicks
    BY <1>1, <2>2 DEF Rests, Wakes, Quiet
  <2>5. QED
    BY <2>1, <2>2, <2>3, <2>4 DEF Idled
<1>6. QED
  BY <1>1, <1>3, <1>4, <1>5

LEMMA AlikePlaced ==
    ASSUME NEW a, NEW b, Placed(a), Alike(a, b), b.idle_ticks \in 0 .. kIdleTicks
    PROVE  Placed(b) /\ b.held = a.held /\ b.tick = a.tick
  BY DEF Placed, Alike

LEMMA NextPositionIs ==
    ASSUME set \in SettingsType, NEW p \in 0 .. 16
    PROVE  NextPosition(p) \in 0 .. 16
  BY SettingFacts DEF NextPosition

LEMMA PutTick ==
    ASSUME NEW a \in Arp, NEW tick \in Int
    PROVE  LET b == [a EXCEPT !.tick = tick]
           IN  /\ b \in Arp /\ Quiet(a, b) /\ b.held = a.held /\ b.running = a.running
               /\ b.tick = tick /\ b.idle_ticks = a.idle_ticks /\ b.position = a.position
               /\ b.current_direction = a.current_direction
               /\ b.current_octave = a.current_octave /\ b.current_step = a.current_step
  BY DEF Arp, Quiet

\* A tick, while the arpeggiator runs.
LEMMA TickIs ==
    ASSUME set \in SettingsType, NEW a, Whole(a), a.running, NEW random \in RandomByte
    PROVE  Whole(Tick(a, random))
<1> DEFINE t      == [a EXCEPT !.tick = a.tick + 1]
           i      == Idle(t)
           b      == SendScheduledNotes(i)
           played == IF b.held # <<>> /\ b.position \in set.pattern THEN Play(b, random) ELSE b
           d      == [played EXCEPT !.tick = 0, !.position = NextPosition(played.position)]
<1>1. /\ a \in Arp /\ Good(a) /\ Keyed(a.held) /\ Placed(a) /\ FromKeys(a.held, a.out)
      /\ a.tick \in 0 .. 191 /\ a.idle_ticks \in 0 .. kIdleTicks
  BY DEF Whole, Fine, Good, Placed
<1>2. /\ t \in Arp /\ Quiet(a, t) /\ t.held = a.held /\ t.running = a.running
      /\ t.tick = a.tick + 1 /\ t.idle_ticks = a.idle_ticks /\ t.position = a.position
      /\ t.current_direction = a.current_direction
      /\ t.current_octave = a.current_octave /\ t.current_step = a.current_step
  <2>1. a.tick + 1 \in Int
    BY <1>1
  <2>2. QED
    BY <1>1, <2>1, PutTick
<1>3. Tick(a, random) = IF b.tick < set.prescaler THEN b ELSE d
  BY DEF Tick
<1> HIDE DEF t
<1>4. Good(t) /\ Placed(t) /\ FromKeys(t.held, t.out) /\ t.running
  <2>1. Good(t)
    BY <1>1, <1>2, StillGood
  <2>2. Placed(t)
    BY <1>1, <1>2 DEF Placed
  <2>3. t.out = a.out
    BY <1>2 DEF Quiet
  <2>4. QED
    BY <1>1, <1>2, <2>1, <2>2, <2>3
<1>5. Idled(t, i)
  BY <1>1, <1>2, <1>4, IdleIs
<1> HIDE DEF i
<1>6. /\ Good(i) /\ Placed(i) /\ FromKeys(i.held, i.out) /\ Rests(i) /\ Wakes(i)
      /\ i.tick = a.tick + 1 /\ (~i.running => i.held = <<>>)
  <2>1. Placed(i) /\ i.held = t.held /\ i.tick = t.tick
    BY <1>4, <1>5, AlikePlaced DEF Idled
  <2>2. QED
    BY <1>2, <1>4, <1>5, <2>1 DEF Idled
<1>7. /\ Good(b) /\ Same(i, b) /\ (i.line = <<>> => b.line = <<>>)
      /\ \A held : FromKeys(held, i.out) => FromKeys(held, b.out)
  BY <1>6, ScheduledIs
<1> HIDE DEF b
<1>8. Placed(b) /\ Steady(i, b) /\ b.tick = i.tick
  BY <1>6, <1>7, SamePlaced DEF Same
<1>9. /\ Fine(b) /\ Rests(b) /\ Wakes(b) /\ b.tick = a.tick + 1
      /\ (~b.running => b.held = <<>>)
  <2>1. b.running = i.running /\ b.held = i.held /\ b.idle_ticks = i.idle_ticks
    BY <1>8 DEF Steady
  <2>2. Rests(b)
    BY <1>6, <1>7, <2>1 DEF Rests
  <2>3. Wakes(b)
    BY <1>6, <2>1 DEF Wakes
  <2>4. QED
    BY <1>6, <1>7, <1>8, <2>1, <2>2, <2>3 DEF Fine
<1>10. CASE b.tick < set.prescaler
  <2>1. b.tick \in 0 .. 191
    <3>1. set.prescaler \in 1 .. 192 /\ a.tick \in 0 .. 191 /\ b.tick = a.tick + 1
      BY <1>1, <1>9, SettingFacts
    <3>2. QED
      BY <1>10, <3>1
  <2>2. QED
    BY <1>3, <1>9, <1>10, <2>1 DEF Whole
<1>11. CASE ~(b.tick < set.prescaler)
  <2>1. Fine(played) /\ Steady(b, played) /\ Rests(played) /\ Wakes(played)
    <3>1. CASE b.held # <<>> /\ b.position \in set.pattern
      <4>1. played = Play(b, random) /\ b.running
        BY <1>9, <3>1
      <4> HIDE DEF played
      <4>2. Fine(played) /\ Steady(b, played)
        BY <1>9, <3>1, <4>1, PlayIs
      <4>3. played.running
        BY <4>1, <4>2 DEF Steady
      <4>4. QED
        BY <4>2, <4>3 DEF Rests, Wakes
    <3>2. CASE ~(b.held # <<>> /\ b.position \in set.pattern)
      <4>1. played = b
        BY <3>2
      <4> HIDE DEF played
      <4>2. QED
        BY <1>9, <4>1 DEF Steady
    <3>3. QED
      BY <3>1, <3>2
  <2> HIDE DEF played
  <2>2. played \in Arp /\ Good(played) /\ Placed(played) /\ Keyed(played.held)
        /\ FromKeys(played.held, played.out)
    BY <2>1 DEF Fine, Good
  <2> DEFINE p == NextPosition(played.position)
  <2>3. p \in 0 .. 16
    BY <2>2, NextPositionIs DEF Placed
  <2>4. d = [played EXCEPT !.tick = 0, !.position = p]
    OBVIOUS
  <2> HIDE DEF p, d
  <2>5. p \in Int
    BY <2>3
  <2>6. /\ d \in Arp /\ Quiet(played, d) /\ d.held = played.held /\ d.tick = 0 /\ d.position = p
        /\ d.idle_ticks = played.idle_ticks
        /\ d.current_direction = played.current_direction
        /\ d.current_octave = played.current_octave /\ d.current_step = played.current_step
        /\ d.running = played.running
    <3> DEFINE e == [played EXCEPT !.tick = 0]
    <3>1. /\ e \in Arp /\ Quiet(played, e) /\ e.held = played.held /\ e.tick = 0
          /\ e.idle_ticks = played.idle_ticks
          /\ e.current_direction = played.current_direction
          /\ e.current_octave = played.current_octave /\ e.current_step = played.current_step
          /\ e.running = played.running
      <4>1. 0 \in Int
        OBVIOUS
      <4>2. QED
        BY <2>2, <4>1, PutTick
    <3>2. d = [e EXCEPT !.position = p]
      BY <2>4
    <3> HIDE DEF e
    <3>3. /\ d \in Arp /\ Quiet(e, d) /\ d.held = e.held /\ d.tick = e.tick /\ d.position = p
          /\ d.idle_ticks = e.idle_ticks /\ d.current_direction = e.current_direction
          /\ d.current_octave = e.current_octave /\ d.current_step = e.current_step
          /\ d.running = e.running
      BY <2>5, <3>1, <3>2 DEF Arp, Quiet
    <3>4. QED
      BY <3>1, <3>3 DEF Quiet
  <2>7. Good(d)
    BY <2>2, <2>6, StillGood
  <2>8. Placed(d)
    BY <2>2, <2>3, <2>6 DEF Placed
  <2>9. FromKeys(d.held, d.out) /\ Rests(d) /\ Wakes(d)
    BY <2>1, <2>2, <2>6 DEF Quiet, Rests, Wakes
  <2>10. d.tick \in 0 .. 191
    BY <2>6
  <2>11. Tick(a, random) = d
    BY <1>3, <1>11
  <2>12. QED
    BY <2>7, <2>8, <2>9, <2>10, <2>11 DEF Whole, Fine
<1>12. QED
  BY <1>10, <1>11

-----------------------------------------------------------------------------
(* The handlers.                                                           *)

LEMMA SystemWhole ==
    ASSUME NEW a, Whole(a), NEW byte \in {0, 248, 250, 252}
    PROVE  LET b == Sends(a, <<System(byte)>>)
           IN  /\ Whole(b) /\ b.running = a.running
               /\ \A held : FromKeys(held, a.out) => FromKeys(held, b.out)
<1> DEFINE b == Sends(a, <<System(byte)>>)
<1>1. Good(a) /\ Placed(a) /\ FromKeys(a.held, a.out)
  BY DEF Whole, Fine
<1>2. /\ Good(b) /\ Same(a, b) /\ b.line = a.line
      /\ \A held : FromKeys(held, a.out) => FromKeys(held, b.out)
  BY <1>1, SystemGood
<1> HIDE DEF b
<1>3. Placed(b) /\ b.held = a.held /\ b.tick = a.tick
  BY <1>1, <1>2, SamePlaced DEF Same
<1>4. b.running = a.running /\ Rests(b) /\ Wakes(b)
  BY <1>2 DEF Whole, Same, Rests, Wakes
<1>5. Whole(b)
  BY <1>1, <1>2, <1>3, <1>4 DEF Whole, Fine
<1>6. QED
  BY <1>2, <1>4, <1>5 DEF b

LEMMA OnClockIs ==
    ASSUME set \in SettingsType, NEW a, Whole(a), NEW mode, NEW random \in RandomByte
    PROVE  Whole(OnClock(a, mode, random))
<1> DEFINE s == IF mode = "INTERNAL" THEN Sends(a, <<System(248)>>) ELSE a
<1>1. CASE set.clk_mode # mode \/ ~a.running
  BY <1>1 DEF OnClock
<1>2. CASE ~(set.clk_mode # mode \/ ~a.running)
  <2>1. Whole(s) /\ s.running
    BY <1>2, SystemWhole
  <2>2. OnClock(a, mode, random) = Tick(s, random)
    BY <1>2 DEF OnClock
  <2> HIDE DEF s
  <2>3. QED
    BY <2>1, <2>2, TickIs
<1>3. QED
  BY <1>1, <1>2

LEMMA StartIs ==
    ASSUME set \in SettingsType, NEW a, Fine(a)
    PROVE  LET b == Start(a)
           IN  /\ Fine(b) /\ b.running = TRUE /\ b.tick \in 0 .. 191
               /\ b.held = a.held /\ b.out = a.out
<1> DEFINE b == Start(a)
           d == IF set.direction = "DOWN" THEN -1 ELSE 1
<1>1. set.prescaler - 1 \in 0 .. 191 /\ set.prescaler - 1 \in Int
  BY SettingFacts
<1>2. d \in {-1, 0, 1} /\ d \in Int
  OBVIOUS
<1>3. a \in Arp /\ Good(a) /\ Placed(a) /\ FromKeys(a.held, a.out) /\ Keyed(a.held)
  BY DEF Fine, Good
<1> DEFINE t == set.prescaler - 1
<1>4. b = [a EXCEPT !.running = TRUE, !.position = 0, !.tick = t,
                    !.current_direction = d, !.current_octave = 127, !.recording = FALSE]
  BY DEF Start
<1> HIDE DEF b, d, t
<1>5. t \in 0 .. 191 /\ t \in Int
  BY <1>1 DEF t
<1>6. b.running = TRUE /\ b.tick = t /\ b.held = a.held
  BY <1>3, <1>4 DEF Arp
<1>7. Quiet(a, b)
  BY <1>3, <1>4 DEF Arp, Quiet
<1>8. /\ b.idle_ticks = a.idle_ticks /\ b.position = 0 /\ b.current_direction = d
      /\ b.current_octave = 127 /\ b.current_step = a.current_step
  BY <1>3, <1>4 DEF Arp
<1>9. b \in Arp
  <2> DEFINE first  == 0
             marked == 127
             b1 == [a EXCEPT !.running = TRUE]
             b2 == [b1 EXCEPT !.position = first]
             b3 == [b2 EXCEPT !.tick = t]
             b4 == [b3 EXCEPT !.current_direction = d]
             b5 == [b4 EXCEPT !.current_octave = marked]
             b6 == [b5 EXCEPT !.recording = FALSE]
  <2>1. b = b6 /\ first \in Int /\ marked \in Int
    BY <1>4
  <2> HIDE DEF first, marked
  <2>2. b1 \in Arp
    BY <1>3 DEF Arp
  <2> HIDE DEF b1
  <2>3. b2 \in Arp
    BY <2>1, <2>2 DEF Arp
  <2> HIDE DEF b2
  <2>4. b3 \in Arp
    BY <1>5, <2>3 DEF Arp
  <2> HIDE DEF b3
  <2>5. b4 \in Arp
    BY <1>2, <2>4 DEF Arp
  <2> HIDE DEF b4
  <2>6. b5 \in Arp
    BY <2>1, <2>5 DEF Arp
  <2> HIDE DEF b5
  <2>7. b6 \in Arp
    BY <2>6 DEF Arp
  <2>8. QED
    BY <2>1, <2>7
<1>10. Good(b)
  BY <1>3, <1>6, <1>7, <1>9, StillGood
<1>11. Placed(b)
  BY <1>2, <1>3, <1>8 DEF Placed
<1>12. b.out = a.out
  BY <1>7 DEF Quiet
<1>13. QED
  BY <1>3, <1>5, <1>6, <1>10, <1>11, <1>12 DEF Fine, b

LEMMA OnStartIs ==
    ASSUME set \in SettingsType, NEW a, Whole(a)
    PROVE  Whole(OnStart(a))
<1>1. Fine(a)
  BY DEF Whole
<1>2. Whole(Start(a))
  BY <1>1, StartIs DEF Whole, Rests, Wakes
<1>3. QED
  BY <1>2 DEF OnStart

LEMMA PutIdleFine ==
    ASSUME NEW a, Fine(a), NEW ticks \in 0 .. kIdleTicks
    PROVE  LET b == [a EXCEPT !.idle_ticks = ticks]
           IN  /\ Fine(b) /\ b.running = a.running /\ b.tick = a.tick
               /\ b.line = a.line /\ b.out = a.out /\ b.held = a.held
<1> DEFINE b == [a EXCEPT !.idle_ticks = ticks]
<1>1. a \in Arp /\ Good(a) /\ Placed(a) /\ FromKeys(a.held, a.out) /\ Keyed(a.held)
  BY DEF Fine, Good
<1>2. ticks \in Int
  BY SizeFacts
<1>3. /\ b \in Arp /\ Quiet(a, b) /\ Alike(a, b) /\ b.idle_ticks = ticks
      /\ b.running = a.running
  BY <1>1, <1>2, PutIdle
<1> HIDE DEF b
<1>4. Placed(b) /\ b.held = a.held /\ b.tick = a.tick
  BY <1>1, <1>3, AlikePlaced
<1>5. Good(b)
  BY <1>1, <1>3, <1>4, StillGood
<1>6. b.line = a.line /\ b.out = a.out
  BY <1>3 DEF Quiet
<1>7. QED
  BY <1>1, <1>3, <1>4, <1>5, <1>6 DEF Fine, b

\* A key starts the arpeggiator, or finds it running.
LEMMA AwakeIs ==
    ASSUME set \in SettingsType, NEW a, Whole(a)
    PROVE  LET b == Awake(a)
           IN  /\ Whole(b)
               /\ \A held : FromKeys(held, a.out) => FromKeys(held, b.out)
<1> DEFINE i == [a EXCEPT !.idle_ticks = 0]
           s == Start(a)
           m == Sends(s, <<System(250)>>)
           w == [m EXCEPT !.idle_ticks = 0]
<1>1. Fine(a) /\ a.tick \in 0 .. 191 /\ Rests(a) /\ Wakes(a)
  BY DEF Whole
<1>2. kIdleTicks \in Nat /\ 0 \in 0 .. kIdleTicks /\ a.idle_ticks \in 0 .. kIdleTicks
  BY <1>1, SizeFacts DEF Fine, Placed
<1>3. CASE set.clk_mode = "EXTERNAL"
  BY <1>3 DEF Awake
<1>4. CASE set.clk_mode # "EXTERNAL" /\ a.idle_ticks < kIdleTicks
  <2>1. Awake(a) = i
    BY <1>4 DEF Awake
  <2>2. /\ Fine(i) /\ i.running = a.running /\ i.tick = a.tick
        /\ i.line = a.line /\ i.out = a.out /\ i.held = a.held
    BY <1>1, <1>2, PutIdleFine
  <2> HIDE DEF i
  <2>3. Rests(i)
    BY <1>1, <2>2 DEF Rests
  <2>4. Wakes(i)
    <3>1. a.idle_ticks # kIdleTicks
      BY <1>2, <1>4
    <3>2. QED
      BY <1>1, <2>2, <3>1 DEF Wakes
  <2>5. QED
    BY <1>1, <2>1, <2>2, <2>3, <2>4 DEF Whole
<1>5. CASE set.clk_mode # "EXTERNAL" /\ ~(a.idle_ticks < kIdleTicks)
  <2>1. Awake(a) = w
    BY <1>5 DEF Awake
  <2>2. /\ Fine(s) /\ s.running = TRUE /\ s.tick \in 0 .. 191
        /\ s.held = a.held /\ s.out = a.out
    BY <1>1, StartIs
  <2> HIDE DEF s
  <2>3. Whole(s)
    BY <2>2 DEF Whole, Rests, Wakes
  <2>4. /\ Whole(m) /\ m.running = s.running
        /\ \A held : FromKeys(held, s.out) => FromKeys(held, m.out)
    BY <2>3, SystemWhole
  <2> HIDE DEF m
  <2>5. /\ Fine(w) /\ w.running = m.running /\ w.tick = m.tick
        /\ w.line = m.line /\ w.out = m.out /\ w.held = m.held
    BY <1>2, <2>4, PutIdleFine DEF Whole
  <2> HIDE DEF w
  <2>6. Whole(w)
    BY <2>2, <2>4, <2>5 DEF Whole, Rests, Wakes
  <2>7. QED
    BY <2>1, <2>2, <2>4, <2>5, <2>6
<1>6. QED
  BY <1>3, <1>4, <1>5

LEMMA BurstIs ==
    ASSUME set \in SettingsType, NEW a, Whole(a),
           NEW random \in [1 .. kNoteClockTicks -> RandomByte]
    PROVE  Whole(Burst(a, random))
<1> DEFINE n        == kNoteClockTicks
           S        == { x \in Arp : Whole(x) }
           turn(k, x) == OnClock(x, "NOTE", random[k])
           F        == [k \in 1 .. n |-> [x \in S |-> turn(k, x)]]
           Turns_(f) == f = [k \in 0 .. n |-> IF k = 0 THEN a ELSE turn(k, f[k - 1])]
           burst    == CHOOSE f : Turns_(f)
<1>1. n \in Nat
  BY SizeFacts
<1>2. ASSUME NEW k \in 1 .. n, NEW x \in S PROVE turn(k, x) \in S
  <2>1. Whole(x) /\ random[k] \in RandomByte
    OBVIOUS
  <2>2. Whole(turn(k, x))
    BY <2>1, OnClockIs
  <2> HIDE DEF turn
  <2>3. QED
    BY <2>2 DEF Whole, Fine, Good
<1>3. a \in S
  BY DEF Whole, Fine, Good
<1> HIDE DEF n, S, turn
<1>4. Loop(F, n, S)
  BY <1>2 DEF Loop
<1>5. PICK f \in [0 .. n -> S] : f[0] = a /\ \A k \in 1 .. n : f[k] = F[k][f[k - 1]]
  <2> HIDE DEF F
  <2>1. \E f : Runs(f, F, n, S, a)
    BY <1>1, <1>3, <1>4, LoopExists
  <2>2. QED
    BY <2>1, Zenon DEF Runs
<1>6. ASSUME NEW k \in 1 .. n PROVE f[k] = turn(k, f[k - 1])
  <2>1. k - 1 \in 0 .. n
    BY <1>1
  <2>2. f[k - 1] \in S
    BY <1>5, <2>1
  <2>3. QED
    BY <1>5, <2>2
<1>7. Turns_(f)
  <2>1. \A k \in 0 .. n : k = 0 \/ k \in 1 .. n
    BY <1>1
  <2>2. \A k \in 0 .. n : f[k] = IF k = 0 THEN a ELSE turn(k, f[k - 1])
    BY <1>5, <1>6, <2>1
  <2>3. QED
    BY <1>5, <2>2
<1>8. Turns_(burst)
  BY <1>7
<1> HIDE DEF burst
<1>9. burst[0] = a /\ \A k \in 1 .. n : burst[k] = turn(k, burst[k - 1])
  <2>1. 0 \in 0 .. n /\ \A k \in 1 .. n : k \in 0 .. n /\ k # 0
    BY <1>1
  <2>2. \A k \in 0 .. n : burst[k] = IF k = 0 THEN a ELSE turn(k, burst[k - 1])
    BY <1>8, Zenon
  <2>3. QED
    BY <2>1, <2>2
<1>10. \A k \in 1 .. n : burst[k - 1] \in S => burst[k] \in S
  BY <1>2, <1>9
<1>11. burst[n] \in S
  BY <1>1, <1>3, <1>9, <1>10, LoopKeeps
<1>12. Burst(a, random) = burst[n]
  BY Zenon DEF Burst, burst, n, turn
<1>13. QED
  BY <1>11, <1>12 DEF S

-----------------------------------------------------------------------------
(* The fields that the keys, the pedal and the transport set.              *)

\* A handler that has played nothing.
Mute(a) == Whole(a) /\ \A held : FromKeys(held, a.out)

\* Two records that agree on all but the keys and the two flags of the latch.
Kept(a, b) ==
    /\ Quiet(a, b) /\ b.running = a.running /\ b.tick = a.tick
    /\ b.idle_ticks = a.idle_ticks /\ b.position = a.position
    /\ b.current_direction = a.current_direction
    /\ b.current_octave = a.current_octave /\ b.current_step = a.current_step

LEMMA KeptMute ==
    ASSUME NEW a, Mute(a), NEW b \in Arp, Kept(a, b), Keyed(b.held)
    PROVE  Mute(b)
<1>1. Good(a) /\ Placed(a) /\ a.tick \in 0 .. 191 /\ Rests(a) /\ Wakes(a)
  BY DEF Mute, Whole, Fine
<1>2. Good(b)
  BY <1>1, StillGood DEF Kept
<1>3. Placed(b) /\ b.tick \in 0 .. 191
  BY <1>1 DEF Kept, Placed
<1>4. Rests(b) /\ Wakes(b) /\ b.out = a.out
  BY <1>1 DEF Kept, Quiet, Rests, Wakes
<1>5. \A held : FromKeys(held, b.out)
  BY <1>4 DEF Mute
<1>6. QED
  BY <1>2, <1>3, <1>4, <1>5 DEF Mute, Whole, Fine

LEMMA PutKeys ==
    ASSUME NEW a, Mute(a), NEW keys, Keyed(keys)
    PROVE  Mute([a EXCEPT !.held = keys])
<1> DEFINE b == [a EXCEPT !.held = keys]
<1>1. a \in Arp /\ keys \in Seq(HeldKey)
  BY DEF Mute, Whole, Fine, Good, Keyed
<1>2. b \in Arp /\ Kept(a, b) /\ b.held = keys
  BY <1>1 DEF Arp, Kept, Quiet
<1> HIDE DEF b
<1>3. Mute(b)
  BY <1>2, KeptMute
<1>4. QED
  BY <1>3 DEF b

LEMMA PutFlags ==
    ASSUME NEW a, Mute(a), NEW flag \in BOOLEAN
    PROVE  /\ Mute([a EXCEPT !.recording = flag])
           /\ Mute([a EXCEPT !.ignore_note_off = flag])
<1> DEFINE b == [a EXCEPT !.recording = flag]
           c == [a EXCEPT !.ignore_note_off = flag]
<1>1. a \in Arp /\ Keyed(a.held)
  BY DEF Mute, Whole, Fine, Good
<1>2. b \in Arp /\ Kept(a, b) /\ b.held = a.held
  BY <1>1 DEF Arp, Kept, Quiet
<1>3. c \in Arp /\ Kept(a, c) /\ c.held = a.held
  BY <1>1 DEF Arp, Kept, Quiet
<1> HIDE DEF b, c
<1>4. Mute(b)
  BY <1>1, <1>2, KeptMute
<1>5. Mute(c)
  BY <1>1, <1>3, KeptMute
<1>6. QED
  BY <1>4, <1>5 DEF b, c

LEMMA PutDirection ==
    ASSUME NEW a \in Arp, Placed(a), NEW direction \in {-1, 1}
    PROVE  LET b == [a EXCEPT !.current_direction = direction]
           IN  b \in Arp /\ Stepped(a, b) /\ Placed(b)
<1> DEFINE b == [a EXCEPT !.current_direction = direction]
<1>1. direction \in Int /\ direction \in {-1, 0, 1}
  OBVIOUS
<1>2. /\ b \in Arp /\ Quiet(a, b) /\ b.held = a.held /\ b.running = a.running
      /\ b.tick = a.tick /\ b.idle_ticks = a.idle_ticks /\ b.position = a.position
      /\ b.current_direction = direction
      /\ b.current_octave = a.current_octave /\ b.current_step = a.current_step
  BY <1>1 DEF Arp, Quiet
<1> HIDE DEF b
<1>3. Stepped(a, b) /\ Placed(b)
  BY <1>1, <1>2 DEF Stepped, Placed
<1>4. QED
  BY <1>2, <1>3 DEF b

-----------------------------------------------------------------------------
(* The invariant.                                                          *)

IInv == set \in SettingsType /\ Whole(arp)

\* The messages of the last handler are gone when the next one starts.
LEMMA EnteredIs ==
    ASSUME Whole(arp)
    PROVE  Mute(Entered) /\ Entered.held = arp.held
<1> DEFINE e == Entered
<1>1. arp \in Arp /\ Good(arp) /\ Placed(arp) /\ arp.tick \in 0 .. 191 /\ Rests(arp) /\ Wakes(arp)
  BY DEF Whole, Fine, Good
<1>2. /\ e \in Arp /\ Same(arp, e) /\ e.line = arp.line /\ e.lost = arp.lost
      /\ e.sounding = arp.sounding /\ e.out = <<>>
  <2> DEFINE none == <<>>
  <2>1. none \in Seq(Message) /\ e = [arp EXCEPT !.out = none]
    BY DEF Entered
  <2> HIDE DEF none, e
  <2>2. /\ e \in Arp /\ Same(arp, e) /\ e.line = arp.line /\ e.lost = arp.lost
        /\ e.sounding = arp.sounding /\ e.out = none
    BY <1>1, <2>1 DEF Arp, Same
  <2>3. QED
    BY <2>2 DEF none
<1> HIDE DEF e
<1>3. Good(e)
  BY <1>1, <1>2 DEF Good, Queued, Same
<1>4. Placed(e) /\ e.held = arp.held /\ e.tick \in 0 .. 191
  BY <1>1, <1>2, SamePlaced DEF Same
<1>5. Rests(e) /\ Wakes(e)
  BY <1>1, <1>2 DEF Same, Rests, Wakes
<1>6. \A held : FromKeys(held, e.out)
  BY <1>2 DEF FromKeys
<1>7. QED
  BY <1>3, <1>4, <1>5, <1>6 DEF Mute, Whole, Fine, e

LEMMA InitHolds == Init => IInv
<1> SUFFICES ASSUME Init PROVE IInv
  OBVIOUS
<1>1. set \in SettingsType
  BY SettingsAssumption DEF Init
<1>2. arp \in Arp
  BY SizeFacts DEF Init, Arp
<1>3. /\ arp.running = FALSE /\ arp.tick = 0 /\ arp.idle_ticks = kIdleTicks
      /\ arp.position = 16 /\ arp.current_direction = 0 /\ arp.current_octave = 0
      /\ arp.current_step = 0 /\ arp.held = <<>> /\ arp.line = <<>> /\ arp.out = <<>>
      /\ arp.sounding = {} /\ arp.lost = {}
  BY DEF Init
<1>4. Good(arp)
  <2>1. Keyed(arp.held)
    BY <1>3, NoKeys
  <2>2. Queued(arp)
    BY <1>3, SizeFacts DEF Queued, EndOnce, EndsOf
  <2>3. QED
    BY <1>2, <2>1, <2>2 DEF Good
<1>5. Placed(arp)
  BY <1>3, SizeFacts DEF Placed
<1>6. FromKeys(arp.held, arp.out) /\ Rests(arp) /\ Wakes(arp) /\ arp.tick \in 0 .. 191
  BY <1>3 DEF FromKeys, Rests, Wakes
<1>7. QED
  BY <1>1, <1>4, <1>5, <1>6 DEF IInv, Whole, Fine

\* A handler that leaves the settings leaves the invariant.
LEMMA SetStays ==
    ASSUME set \in SettingsType, Whole(arp'), set' = set
    PROVE  IInv'
  BY DEF IInv, Whole, Fine, Rests, Wakes

LEMMA KeyDownKeeps ==
    ASSUME IInv, NEW note \in Note, KeyDown(note)
    PROVE  IInv'
<1> DEFINE a == Awake(Entered)
           b == IF set.latch /\ ~a.recording
                THEN [a EXCEPT !.held = <<>>, !.recording = TRUE] ELSE a
           keys == Pressed(b.held, kNoteStackSize, note, 1)
<1>1. set \in SettingsType /\ Whole(arp)
  BY DEF IInv
<1>2. Mute(a)
  BY <1>1, EnteredIs, AwakeIs DEF Mute
<1>3. arp' = [b EXCEPT !.held = keys] /\ set' = set
  BY DEF KeyDown
<1> HIDE DEF a
<1>4. Mute(b)
  <2>1. Mute([a EXCEPT !.held = <<>>])
    BY <1>2, NoKeys, PutKeys
  <2>2. Mute([[a EXCEPT !.held = <<>>] EXCEPT !.recording = TRUE])
    BY <2>1, PutFlags
  <2>3. QED
    BY <1>2, <2>2
<1> HIDE DEF b
<1>5. Keyed(keys)
  BY <1>4, PressedIs DEF Mute, Whole, Fine, Good
<1> HIDE DEF keys
<1>6. Mute([b EXCEPT !.held = keys])
  BY <1>4, <1>5, PutKeys
<1>7. Whole(arp')
  BY <1>3, <1>6 DEF Mute
<1>8. QED
  BY <1>1, <1>3, <1>7, SetStays

LEMMA KeyUpKeeps ==
    ASSUME IInv, NEW note \in Note, KeyUp(note)
    PROVE  IInv'
<1> DEFINE a    == Entered
           last == a.held # <<>> /\ Head(a.held).note = note
           keys == Without(a.held, note)
           flag == a.recording /\ ~last
<1>1. set \in SettingsType /\ Whole(arp) /\ Mute(a)
  BY EnteredIs DEF IInv
<1>2. set' = set /\ \/ arp' = a
                    \/ arp' = [a EXCEPT !.held = keys]
                    \/ arp' = [a EXCEPT !.recording = flag]
  BY DEF KeyUp
<1>3. Keyed(keys)
  BY <1>1, WithoutIs DEF Mute, Whole, Fine, Good
<1>4. flag \in BOOLEAN
  OBVIOUS
<1> HIDE DEF a, keys, flag
<1>5. Mute([a EXCEPT !.held = keys]) /\ Mute([a EXCEPT !.recording = flag])
  BY <1>1, <1>3, <1>4, PutKeys, PutFlags
<1>6. Whole(arp')
  BY <1>1, <1>2, <1>5 DEF Mute
<1>7. QED
  BY <1>1, <1>2, <1>6, SetStays

LEMMA PedalKeeps ==
    ASSUME IInv, NEW down \in BOOLEAN, Pedal(down)
    PROVE  IInv'
<1> DEFINE a    == Entered
           keys == IF arp.ignore_note_off /\ ~down THEN <<>> ELSE a.held
           b    == [a EXCEPT !.held = keys]
<1>1. set \in SettingsType /\ Whole(arp) /\ Mute(a)
  BY EnteredIs DEF IInv
<1>2. set' = set /\ arp' = [b EXCEPT !.ignore_note_off = down]
  BY DEF Pedal
<1>3. Keyed(keys)
  BY <1>1, NoKeys DEF Mute, Whole, Fine, Good
<1> HIDE DEF a, keys
<1>4. Mute(b)
  BY <1>1, <1>3, PutKeys
<1> HIDE DEF b
<1>5. Mute([b EXCEPT !.ignore_note_off = down])
  BY <1>4, PutFlags
<1>6. Whole(arp')
  BY <1>2, <1>5 DEF Mute
<1>7. QED
  BY <1>1, <1>2, <1>6, SetStays

LEMMA StopKeeps ==
    ASSUME IInv, StopMessage
    PROVE  IInv'
<1> DEFINE a == Entered
           b == [a EXCEPT !.running = FALSE]
           c == FlushQueue(b)
<1>1. set \in SettingsType /\ Whole(arp) /\ Mute(a)
  BY EnteredIs DEF IInv
<1>2. set' = set /\ arp' = c /\ set.clk_mode # "INTERNAL"
  BY DEF StopMessage
<1>3. /\ a \in Arp /\ Good(a) /\ Placed(a) /\ Keyed(a.held) /\ a.tick \in 0 .. 191
      /\ \A held : FromKeys(held, a.out)
  BY <1>1 DEF Mute, Whole, Fine, Good
<1> HIDE DEF a
<1>4. /\ b \in Arp /\ Quiet(a, b) /\ Alike(a, b) /\ b.idle_ticks = a.idle_ticks
      /\ b.running = FALSE
  BY <1>3 DEF Arp, Quiet, Alike
<1> HIDE DEF b
<1>5. Good(b)
  BY <1>3, <1>4, StillGood DEF Alike
<1>6. Placed(b) /\ b.tick \in 0 .. 191 /\ b.out = a.out
  <2>1. b.idle_ticks \in 0 .. kIdleTicks
    BY <1>3, <1>4 DEF Placed
  <2>2. QED
    BY <1>3, <1>4, <2>1, AlikePlaced DEF Quiet
<1>7. /\ Good(c) /\ Same(b, c) /\ c.line = <<>>
      /\ \A held : FromKeys(held, b.out) => FromKeys(held, c.out)
  BY <1>5, FlushIs
<1> HIDE DEF c
<1>8. Placed(c) /\ c.tick \in 0 .. 191
  BY <1>6, <1>7, SamePlaced DEF Same
<1>9. Whole(c)
  BY <1>2, <1>3, <1>6, <1>7, <1>8 DEF Whole, Fine, Rests, Wakes
<1>10. QED
  BY <1>1, <1>2, <1>9, SetStays

LEMMA ContinueKeeps ==
    ASSUME IInv, ContinueMessage
    PROVE  IInv'
<1> DEFINE a == Entered
           b == [a EXCEPT !.running = TRUE]
<1>1. set \in SettingsType /\ Whole(arp) /\ Mute(a)
  BY EnteredIs DEF IInv
<1>2. set' = set /\ arp' = b
  BY DEF ContinueMessage
<1>3. /\ a \in Arp /\ Good(a) /\ Placed(a) /\ Keyed(a.held) /\ a.tick \in 0 .. 191
      /\ \A held : FromKeys(held, a.out)
  BY <1>1 DEF Mute, Whole, Fine, Good
<1> HIDE DEF a
<1>4. /\ b \in Arp /\ Quiet(a, b) /\ Alike(a, b) /\ b.idle_ticks = a.idle_ticks
      /\ b.running = TRUE
  BY <1>3 DEF Arp, Quiet, Alike
<1> HIDE DEF b
<1>5. Good(b)
  BY <1>3, <1>4, StillGood DEF Alike
<1>6. Placed(b) /\ b.tick \in 0 .. 191 /\ b.out = a.out
  <2>1. b.idle_ticks \in 0 .. kIdleTicks
    BY <1>3, <1>4 DEF Placed
  <2>2. QED
    BY <1>3, <1>4, <2>1, AlikePlaced DEF Quiet
<1>7. Whole(b)
  BY <1>3, <1>4, <1>5, <1>6 DEF Whole, Fine, Rests, Wakes
<1>8. QED
  BY <1>1, <1>2, <1>7, SetStays

\* A knob: the settings stay settings, and only the direction moves the arpeggio.
LEMMA SetParameterKeeps ==
    ASSUME IInv, NEW change \in Changes, SetParameter(change.key, change.value)
    PROVE  IInv'
<1> DEFINE key    == change.key
           value  == change.value
           a      == Entered
           sign   == IF value = "DOWN" THEN -1 ELSE 1
           turned == [a EXCEPT !.current_direction = sign]
           b      == StartArpeggio(turned)
           clear  == [a EXCEPT !.held = <<>>]
<1>1. set \in SettingsType /\ Whole(arp) /\ Mute(a)
  BY EnteredIs DEF IInv
<1>2. set' = [set EXCEPT ![key] = value]
  BY DEF SetParameter
<1>3. \/ arp' = b
      \/ arp' = [clear EXCEPT !.recording = FALSE]
      \/ arp' = a
  BY DEF SetParameter
<1>4. set' \in SettingsType /\ set'.clk_mode = set.clk_mode
  <2>1. CASE key = "direction" /\ value \in Directions
    BY <1>1, <1>2, <2>1 DEF SettingsType
  <2>2. CASE key = "num_octaves" /\ value \in 1 .. 4
    BY <1>1, <1>2, <2>2 DEF SettingsType
  <2>3. CASE key = "pattern" /\ value \in SUBSET (0 .. 15)
    BY <1>1, <1>2, <2>3 DEF SettingsType
  <2>4. CASE key = "pattern_length" /\ value \in 1 .. 16
    BY <1>1, <1>2, <2>4 DEF SettingsType
  <2>5. CASE key = "prescaler" /\ value \in 1 .. 192
    BY <1>1, <1>2, <2>5 DEF SettingsType
  <2>6. CASE key = "duration" /\ value \in 1 .. 192
    BY <1>1, <1>2, <2>6 DEF SettingsType
  <2>7. CASE key = "latch" /\ value \in BOOLEAN
    BY <1>1, <1>2, <2>7 DEF SettingsType
  <2>8. QED
    BY <2>1, <2>2, <2>3, <2>4, <2>5, <2>6, <2>7, ChangesAssumption
<1> HIDE DEF a
<1>5. Mute([clear EXCEPT !.recording = FALSE])
  <2>1. Mute(clear)
    BY <1>1, NoKeys, PutKeys
  <2> HIDE DEF clear
  <2>2. QED
    BY <2>1, PutFlags
<1>6. Whole(b)
  <2>1. /\ a \in Arp /\ Good(a) /\ Placed(a) /\ Keyed(a.held) /\ a.tick \in 0 .. 191
        /\ FromKeys(a.held, a.out) /\ Rests(a) /\ Wakes(a)
    BY <1>1 DEF Mute, Whole, Fine, Good
  <2>2. sign \in {-1, 1}
    OBVIOUS
  <2> HIDE DEF sign
  <2>3. turned \in Arp /\ Stepped(a, turned) /\ Placed(turned)
    BY <2>1, <2>2, PutDirection
  <2> HIDE DEF turned
  <2>4. Keyed(turned.held)
    BY <2>1, <2>3 DEF Stepped
  <2>5. b \in Arp /\ Stepped(turned, b) /\ Placed(b)
    BY <1>1, <2>3, <2>4, StartArpeggioIs
  <2> HIDE DEF b
  <2>6. Stepped(a, b)
    BY <2>3, <2>5, SteppedTwice
  <2>7. Good(b)
    BY <2>1, <2>5, <2>6, StillGood DEF Stepped
  <2>8. FromKeys(b.held, b.out) /\ b.tick \in 0 .. 191 /\ Rests(b) /\ Wakes(b)
    BY <2>1, <2>6 DEF Stepped, Quiet, Rests, Wakes
  <2>9. QED
    BY <2>5, <2>7, <2>8 DEF Whole, Fine
<1> HIDE DEF b, clear
<1>7. Whole(arp')
  BY <1>1, <1>3, <1>5, <1>6 DEF Mute
<1>8. QED
  BY <1>4, <1>7 DEF IInv, Whole, Fine, Rests, Wakes

LEMMA NextKeeps == IInv /\ [Next]_vars => IInv'
<1> SUFFICES ASSUME IInv, [Next]_vars PROVE IInv'
  OBVIOUS
<1>1. set \in SettingsType /\ Whole(arp) /\ Mute(Entered) /\ Whole(Entered)
  BY EnteredIs DEF IInv, Mute
<1>2. ASSUME NEW note \in Note, KeyDown(note) \/ KeyUp(note) PROVE IInv'
  BY <1>2, KeyDownKeeps, KeyUpKeeps
<1>3. ASSUME NEW random \in [1 .. kNoteClockTicks -> RandomByte], ClockKeyDown(random)
      PROVE  IInv'
  <2>1. Whole(Burst(OnStart(Entered), random))
    BY <1>1, OnStartIs, BurstIs
  <2>2. QED
    BY <1>1, <1>3, <2>1, SetStays DEF ClockKeyDown
<1>4. ASSUME NEW down \in BOOLEAN, Pedal(down) PROVE IInv'
  BY <1>4, PedalKeeps
<1>5. ASSUME NEW mode \in {"INTERNAL", "EXTERNAL"}, NEW random \in RandomByte,
             Clock(mode, random)
      PROVE  IInv'
  <2>1. Whole(OnClock(Entered, mode, random))
    BY <1>1, OnClockIs
  <2>2. QED
    BY <1>1, <1>5, <2>1, SetStays DEF Clock
<1>6. CASE StartMessage
  <2>1. Whole(OnStart(Entered))
    BY <1>1, OnStartIs
  <2>2. QED
    BY <1>1, <1>6, <2>1, SetStays DEF StartMessage
<1>7. CASE StopMessage
  BY <1>7, StopKeeps
<1>8. CASE ContinueMessage
  BY <1>8, ContinueKeeps
<1>9. CASE OnRawMidiData
  <2>1. Whole(Sends(Entered, <<System(0)>>))
    BY <1>1, SystemWhole
  <2>2. QED
    BY <1>1, <1>9, <2>1, SetStays DEF OnRawMidiData
<1>10. ASSUME NEW change \in Changes, SetParameter(change.key, change.value) PROVE IInv'
  BY <1>10, SetParameterKeeps
<1>11. CASE UNCHANGED vars
  BY <1>11 DEF vars, IInv, Whole, Fine, Rests, Wakes
<1>12. QED
  BY <1>2, <1>3, <1>4, <1>5, <1>6, <1>7, <1>8, <1>9, <1>10, <1>11 DEF Next

\* What the invariant says of the state.
LEMMA IInvSays ==
    ASSUME IInv
    PROVE  TypeOK /\ EachNoteEndsOnce /\ NothingWaitsStopped /\ KeyCanStart
<1>1. /\ set \in SettingsType /\ arp \in Arp /\ Keyed(arp.held) /\ Queued(arp)
      /\ Placed(arp) /\ arp.tick \in 0 .. 191 /\ Rests(arp) /\ Wakes(arp)
  BY DEF IInv, Whole, Fine, Good
<1>2. TypeOK
  <2>1. /\ arp.running \in BOOLEAN /\ arp.ignore_note_off \in BOOLEAN
        /\ arp.recording \in BOOLEAN /\ arp.sounding \subseteq 0 .. 127
    BY <1>1 DEF Arp, Midi
  <2>2. QED
    BY <1>1, <2>1 DEF TypeOK, Keyed, Queued, Placed
<1>3. EachNoteEndsOnce
  <2>1. arp.line \in Seq(Entry)
    BY <1>1 DEF Arp
  <2>2. DOMAIN arp.line = 1 .. Len(arp.line)
    BY <2>1
  <2>3. QED
    BY <1>1, <2>2 DEF EachNoteEndsOnce, Ending, Queued, EndsOf, EndOnce
<1>4. NothingWaitsStopped /\ KeyCanStart
  BY <1>1 DEF NothingWaitsStopped, KeyCanStart, Rests, Wakes
<1>5. QED
  BY <1>2, <1>3, <1>4

\* Every state of the arpeggiator satisfies the invariant.
THEOREM Invariant == Spec => []IInv
<1>1. Init => IInv
  BY InitHolds
<1>2. IInv /\ [Next]_vars => IInv'
  BY NextKeeps
<1>3. QED
  BY <1>1, <1>2, PTL DEF Spec

\* Every variable keeps its type: the step of the arpeggio designates a slot of the
\* stack, the octave and the position of the pattern stay in range, and the queue and
\* the stack keep to their sizes, whatever the keys, the clocks and the knobs do.
THEOREM TypeCorrect == Spec => []TypeOK
<1>1. IInv => TypeOK
  BY IInvSays
<1>2. QED
  BY <1>1, Invariant, PTL

\* A note that sounds has exactly one end in the scheduler, unless the scheduler
\* refused it, and a note that does not sound has none: SendNote takes back the end
\* of a note it plays again, and a tick or a flush sends every end it takes out.
THEOREM NotesEndOnce == Spec => []EachNoteEndsOnce
<1>1. IInv => EachNoteEndsOnce
  BY IInvSays
<1>2. QED
  BY <1>1, Invariant, PTL

\* While the arpeggiator does not run nothing waits in the scheduler, for no tick
\* would send it.
THEOREM StopsEmpty == Spec => []NothingWaitsStopped
<1>1. IInv => NothingWaitsStopped
  BY IInvSays
<1>2. QED
  BY <1>1, Invariant, PTL

\* An arpeggiator stopped under the internal clock is one that the next key starts.
THEOREM KeyStarts == Spec => []KeyCanStart
<1>1. IInv => KeyCanStart
  BY IInvSays
<1>2. QED
  BY <1>1, Invariant, PTL

\* Whatever keys were released and whatever knobs were turned since the last step, a
\* note that a handler plays is a key that is held, some octaves up.
THEOREM HeldKeysOnly == Spec => PlaysHeldKeys
<1> DEFINE FromHeld(a) ==
        \A i \in DOMAIN a.out : a.out[i].type = "on" =>
          \E k \in DOMAIN a.held, octave \in 0 .. 3 :
             a.out[i].note = Folded(a.held[k].note + 12 * octave)
<1>1. ASSUME NEW a, a \in Arp, FromKeys(a.held, a.out) PROVE FromHeld(a)
  <2>1. a.out \in Seq(Message) /\ a.held \in Seq(HeldKey)
    BY <1>1 DEF Arp
  <2>2. DOMAIN a.out = 1 .. Len(a.out) /\ DOMAIN a.held = 1 .. Len(a.held)
    BY <2>1
  <2>3. QED
    BY <1>1, <2>2, Zenon DEF FromKeys, Arises
<1>2. IInv /\ [Next]_vars => [FromHeld(arp')]_vars
  <2> SUFFICES ASSUME IInv, [Next]_vars PROVE FromHeld(arp')
    OBVIOUS
  <2>1. IInv'
    BY NextKeeps
  <2>2. arp' \in Arp /\ FromKeys(arp'.held, arp'.out)
    BY <2>1 DEF IInv, Whole, Fine, Good
  <2> HIDE DEF FromHeld
  <2>3. QED
    BY <1>1, <2>2
<1>3. QED
  BY <1>2, Invariant, PTL DEF PlaysHeldKeys, Spec

=============================================================================
