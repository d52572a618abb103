-------------------------- MODULE DispatcherProofs --------------------------
(***************************************************************************)
(* Proofs about the dispatcher and its voice allocator, for any polyphony, *)
(* any size of the note map, and any keys and settings within what the     *)
(* code accepts.                                                           *)
(***************************************************************************)
EXTENDS Dispatcher, FiniteSetsExt, FiniteSetTheorems, WellFoundedInduction, TLAPS

-----------------------------------------------------------------------------
(* The least and the greatest of the voices and slots to choose from.      *)

\* The order of the naturals is well founded, in a form that needs no operator argument.
LEMMA NatOrder ==
    \E R : IsWellFoundedOn(R, Nat) /\ \A x, y \in Nat : x < y => <<x, y>> \in R
<1>1. \A x, y \in Nat : x < y => <<x, y>> \in OpToRel(<, Nat)
  BY DEF OpToRel
<1>2. QED
  BY <1>1, NatLessThanWellFounded

\* A non-empty set of naturals has a least element.
LEMMA LeastNat ==
    ASSUME NEW S, S \subseteq Nat, S # {}
    PROVE  \E m \in S : \A n \in S : m <= n
<1>1. PICK R : IsWellFoundedOn(R, Nat) /\ \A x, y \in Nat : x < y => <<x, y>> \in R
  BY NatOrder
<1>2. IsWellFoundedOn(R, Nat)
  BY <1>1
<1>3. \A x, y \in Nat : x < y => <<x, y>> \in R
  BY <1>1
<1>4. \E x \in S : \A y \in S : ~ (<<y, x>> \in R)
  BY <1>2, WFMin, Zenon
<1>5. SUFFICES ASSUME NEW x \in S, \A y \in S : ~ (<<y, x>> \in R), NEW n \in S
               PROVE  x <= n
  BY <1>4
<1>6. x \in Nat /\ n \in Nat /\ ~ (<<n, x>> \in R)
  BY <1>5
<1>7. ~ (n < x)
  BY <1>3, <1>6
<1>8. QED
  BY <1>6, <1>7

\* Min returns the least element.
LEMMA MinIn ==
    ASSUME NEW S, S \subseteq Nat, S # {}
    PROVE  Min(S) \in S /\ \A n \in S : Min(S) <= n
  BY LeastNat DEF Min

\* Max returns the greatest element of a bounded set.
LEMMA MaxIn ==
    ASSUME NEW N \in Nat, NEW S, S \subseteq 0 .. N, S # {}
    PROVE  Max(S) \in S /\ \A n \in S : Max(S) >= n
<1> DEFINE T == { x \in 0 .. N : N - x \in S }
<1>1. T # {} /\ T \subseteq Nat
  <2>1. PICK s \in S : TRUE
    OBVIOUS
  <2>2. s \in 0 .. N
    OBVIOUS
  <2>3. N - s \in T
    BY <2>2
  <2>4. QED
    BY <2>3
<1>2. PICK m \in T : \A n \in T : m <= n
  BY <1>1, LeastNat
<1>3. N - m \in S /\ \A n \in S : N - m >= n
  <2>1. SUFFICES ASSUME NEW n \in S PROVE N - m >= n
    BY <1>2
  <2>2. N - n \in T /\ n \in 0 .. N
    OBVIOUS
  <2>3. QED
    BY <1>2, <2>2
<1>4. QED
  BY <1>3 DEF Max

\* LruIsPermutation, of an array.
Permutes(lru) ==
    /\ \A i, j \in Voice : lru[i] = lru[j] => i = j
    /\ \A v \in Voice : \E i \in Voice : lru[i] = v

-----------------------------------------------------------------------------
(* The voice allocator.                                                    *)

\* Touch (voice_allocator.cc:99) moves a voice to the front of a permutation and loses none.
LEMMA TouchPermutes ==
    ASSUME NEW lru \in [Voice -> Voice], Permutes(lru), NEW voice \in Voice
    PROVE  Touch(lru, voice) \in [Voice -> Voice] /\ Permutes(Touch(lru, voice))
<1> DEFINE place == CHOOSE p \in Voice : lru[p] = voice
           new   == Touch(lru, voice)
<1>1. place \in Voice /\ lru[place] = voice
  BY DEF Permutes
<1>2. 0 \in Voice /\ \A i \in Voice : i # 0 => i - 1 \in Voice
  BY PolyphonyAssumption DEF Voice
<1>3. \A i \in Voice : i <= place /\ i + 1 <= place => i + 1 \in Voice
  BY <1>1, PolyphonyAssumption DEF Voice
<1>4. new = [i \in Voice |-> IF i = 0 THEN voice ELSE IF i <= place THEN lru[i - 1] ELSE lru[i]]
  BY DEF Touch
<1> HIDE DEF place, new
<1>5. new \in [Voice -> Voice]
  BY <1>2, <1>4
<1>6. ASSUME NEW i \in Voice, NEW j \in Voice, new[i] = new[j], i < j
      PROVE  FALSE
  <2>1. j # 0 /\ j - 1 \in Voice /\ i \in Int /\ j \in Int /\ place \in Int
    BY <1>1, <1>2, <1>6 DEF Voice
  <2>2. CASE i = 0
    <3>1. CASE j <= place
      BY <1>1, <1>4, <1>6, <2>1, <2>2, <3>1 DEF Permutes
    <3>2. CASE j > place
      BY <1>1, <1>4, <1>6, <2>1, <2>2, <3>2 DEF Permutes
    <3>3. QED
      BY <2>1, <3>1, <3>2
  <2>3. CASE i # 0
    <3>1. i - 1 \in Voice
      BY <1>2, <2>3
    <3>2. new[i] = lru[i - 1] \/ (new[i] = lru[i] /\ i > place)
      BY <1>4, <2>1, <2>3
    <3>3. (new[j] = lru[j - 1] /\ j <= place) \/ new[j] = lru[j]
      BY <1>4, <2>1
    <3>4. CASE j <= place
      <4>1. new[i] = lru[i - 1] /\ new[j] = lru[j - 1]
        BY <1>4, <1>6, <2>1, <2>3, <3>4
      <4>2. i - 1 = j - 1
        BY <1>6, <2>1, <3>1, <4>1 DEF Permutes
      <4>3. QED
        BY <1>6, <2>1, <4>2
    <3>5. CASE j > place
      <4>1. new[j] = lru[j]
        BY <1>4, <2>1, <3>5
      <4>2. i - 1 = j \/ i = j
        BY <1>6, <3>1, <3>2, <4>1 DEF Permutes
      <4>3. QED
        BY <1>6, <2>1, <4>2
    <3>6. QED
      BY <2>1, <3>4, <3>5
  <2>4. QED
    BY <2>2, <2>3
<1>7. ASSUME NEW i \in Voice, NEW j \in Voice, new[i] = new[j]
      PROVE  i = j
  <2>1. i \in Int /\ j \in Int
    BY DEF Voice
  <2>2. ~ (i < j) /\ ~ (j < i)
    BY <1>6, <1>7
  <2>3. QED
    BY <2>1, <2>2
<1>8. ASSUME NEW v \in Voice
      PROVE  \E i \in Voice : new[i] = v
  <2>1. PICK p \in Voice : lru[p] = v
    BY DEF Permutes
  <2>2. p \in Int /\ place \in Int /\ p >= 0
    BY <1>1 DEF Voice
  <2>3. CASE p = place
    BY <1>1, <1>2, <1>4, <2>1, <2>3
  <2>4. CASE p < place
    <3>1. p + 1 \in Voice /\ p + 1 # 0 /\ p + 1 <= place
      BY <1>3, <2>2, <2>4
    <3>2. new[p + 1] = lru[p]
      BY <1>4, <2>2, <3>1
    <3>3. QED
      BY <2>1, <3>1, <3>2
  <2>5. CASE p > place
    <3>1. p # 0
      BY <1>1, <2>5 DEF Voice
    <3>2. new[p] = lru[p]
      BY <1>4, <2>2, <2>5, <3>1
    <3>3. QED
      BY <2>1, <3>2
  <2>6. QED
    BY <2>2, <2>3, <2>4, <2>5
<1>9. QED
  BY <1>5, <1>7, <1>8 DEF Permutes, new

\* The voice NoteOn picks (voice_allocator.cc:54-76) is in use: the search never falls through.
LEMMA AllocatedInUse ==
    ASSUME NEW a \in Allocator, Permutes(a.lru), a.size # 0, NEW note
    PROVE  /\ Allocated(a, note) \in Voice
           /\ Allocated(a, note) < a.size
           /\ Given(a, note) # {} => a.pool[Allocated(a, note)].note = note
           /\ Given(a, note) = {} /\ Inactive(a) # {}
                => ~ a.pool[Allocated(a, note)].active
<1>1. a.lru \in [Voice -> Voice] /\ a.size \in 1 .. kMaxPolyphony
  BY PolyphonyAssumption DEF Allocator
<1>2. Given(a, note) \subseteq Voice /\ InUse(a) \subseteq Voice /\ Inactive(a) \subseteq InUse(a)
  BY DEF Given, InUse, Inactive
<1>3. Voice \subseteq Nat /\ Voice = 0 .. kMaxPolyphony - 1 /\ kMaxPolyphony - 1 \in Nat
  BY PolyphonyAssumption DEF Voice
<1>4. InUse(a) # {}
  <2>1. 0 \in Voice
    BY <1>3
  <2>2. PICK i \in Voice : a.lru[i] = 0
    BY <2>1 DEF Permutes
  <2>3. i \in InUse(a)
    BY <1>1, <2>2 DEF InUse
  <2>4. QED
    BY <2>3
<1>5. CASE Given(a, note) # {}
  <2>1. Min(Given(a, note)) \in Given(a, note)
    BY <1>2, <1>3, <1>5, MinIn
  <2>2. QED
    BY <1>5, <2>1 DEF Allocated, Given
<1>6. CASE Given(a, note) = {} /\ Inactive(a) # {}
  <2>1. Max(Inactive(a)) \in Inactive(a)
    BY <1>2, <1>3, <1>6, MaxIn
  <2>2. a.lru[Max(Inactive(a))] \in Voice
    BY <1>1, <1>2, <2>1
  <2>3. Allocated(a, note) = a.lru[Max(Inactive(a))]
    BY <1>6 DEF Allocated
  <2>4. QED
    BY <1>6, <2>1, <2>2, <2>3 DEF Inactive, InUse
<1>7. CASE Given(a, note) = {} /\ Inactive(a) = {}
  <2>1. Max(InUse(a)) \in InUse(a)
    BY <1>2, <1>3, <1>4, MaxIn
  <2>2. a.lru[Max(InUse(a))] \in Voice
    BY <1>1, <1>2, <2>1
  <2>3. QED
    BY <1>7, <2>1, <2>2 DEF Allocated, InUse
<1>8. QED
  BY <1>5, <1>6, <1>7

\* NoteOn keeps the allocator well formed and gives the note to the voice it returns.
LEMMA VoiceNoteOnType ==
    ASSUME NEW a \in Allocator, Permutes(a.lru), NEW note \in 0 .. 255, a.size # 0
    PROVE  LET b == VoiceNoteOn(a, note)  voice == Allocated(a, note)
           IN  /\ b \in Allocator /\ Permutes(b.lru) /\ b.size = a.size
               /\ voice \in Voice /\ voice < a.size
               /\ b.pool = [a.pool EXCEPT ![voice] = [note |-> note, active |-> TRUE]]
               /\ b.lru = Touch(a.lru, voice)
<1> DEFINE voice == Allocated(a, note)
<1>1. voice \in Voice /\ voice < a.size
  BY AllocatedInUse
<1>2. a.lru \in [Voice -> Voice] /\ a.pool \in [Voice -> [note : 0 .. 255, active : BOOLEAN]]
  BY DEF Allocator
<1>3. Touch(a.lru, voice) \in [Voice -> Voice] /\ Permutes(Touch(a.lru, voice))
  BY <1>1, <1>2, TouchPermutes
<1>4. VoiceNoteOn(a, note) =
        [a EXCEPT !.pool[voice] = [note |-> note, active |-> TRUE], !.lru = Touch(a.lru, voice)]
  BY DEF VoiceNoteOn
<1>5. a = [pool |-> a.pool, lru |-> a.lru, size |-> a.size] /\ a.size \in 0 .. kMaxPolyphony
  BY DEF Allocator
<1> HIDE DEF voice
<1>6. VoiceNoteOn(a, note) = [pool |-> [a.pool EXCEPT ![voice] = [note |-> note, active |-> TRUE]],
                              lru  |-> Touch(a.lru, voice),
                              size |-> a.size]
  BY <1>4, <1>5
<1>7. VoiceNoteOn(a, note) \in Allocator
  BY <1>1, <1>2, <1>3, <1>5, <1>6 DEF Allocator
<1>8. QED
  BY <1>1, <1>3, <1>6, <1>7 DEF voice

\* NoteOff keeps the allocator well formed; the voice it releases is one given the note.
LEMMA VoiceNoteOffType ==
    ASSUME NEW a \in Allocator, Permutes(a.lru), NEW note
    PROVE  LET b == VoiceNoteOff(a, note)  voice == Max(Given(a, note))
           IN  /\ b \in Allocator /\ Permutes(b.lru) /\ b.size = a.size
               /\ IF Given(a, note) = {} THEN b = a
                  ELSE /\ voice \in Given(a, note)
                       /\ b.pool = [a.pool EXCEPT ![voice].active = FALSE]
                       /\ b.lru = Touch(a.lru, voice)
<1> DEFINE voice == Max(Given(a, note))
<1>1. CASE Given(a, note) = {}
  BY <1>1 DEF VoiceNoteOff
<1>2. CASE Given(a, note) # {}
  <2>1. Given(a, note) \subseteq 0 .. kMaxPolyphony - 1 /\ kMaxPolyphony - 1 \in Nat
    BY PolyphonyAssumption DEF Given, Voice
  <2>2. voice \in Given(a, note)
    BY <1>2, <2>1, MaxIn
  <2>3. voice \in Voice
    BY <2>2 DEF Given
  <2>4. a.lru \in [Voice -> Voice] /\ a.pool \in [Voice -> [note : 0 .. 255, active : BOOLEAN]]
    BY DEF Allocator
  <2>5. Touch(a.lru, voice) \in [Voice -> Voice] /\ Permutes(Touch(a.lru, voice))
    BY <2>3, <2>4, TouchPermutes
  <2>6. VoiceNoteOff(a, note) =
          [a EXCEPT !.pool[voice].active = FALSE, !.lru = Touch(a.lru, voice)]
    BY <1>2 DEF VoiceNoteOff
  <2>7. a = [pool |-> a.pool, lru |-> a.lru, size |-> a.size] /\ a.size \in 0 .. kMaxPolyphony
    BY DEF Allocator
  <2>8. a.pool[voice] \in [note : 0 .. 255, active : BOOLEAN]
    BY <2>3, <2>4
  <2> DEFINE pool == [a.pool EXCEPT ![voice].active = FALSE]
  <2>9. pool \in [Voice -> [note : 0 .. 255, active : BOOLEAN]]
    BY <2>3, <2>4, <2>8
  <2>10. VoiceNoteOff(a, note) = [pool |-> pool, lru |-> Touch(a.lru, voice), size |-> a.size]
    BY <2>6, <2>7
  <2> HIDE DEF voice, pool
  <2>11. VoiceNoteOff(a, note) \in Allocator
    BY <2>5, <2>7, <2>9, <2>10 DEF Allocator
  <2>12. /\ VoiceNoteOff(a, note).pool = pool
         /\ VoiceNoteOff(a, note).lru = Touch(a.lru, voice)
         /\ VoiceNoteOff(a, note).size = a.size
    BY <2>10
  <2>13. QED
    BY <1>2, <2>2, <2>5, <2>11, <2>12 DEF voice, pool
<1>3. QED
  BY <1>1, <1>2

-----------------------------------------------------------------------------
(* The note map.                                                           *)

MapOf(S) == [MapIndex -> [note : Note \cup {kNoNote}, value : S]]

\* Put writes at an index of the table, over the entry of the note if there is one.
LEMMA PutIndexType ==
    ASSUME NEW m, NEW n
    PROVE  /\ PutIndex(m, n) \in MapIndex
           /\ Holding(m, n) # {} => PutIndex(m, n) \in Holding(m, n)
           /\ Holding(m, n) = {} /\ Holding(m, kNoNote) # {}
                => PutIndex(m, n) \in Holding(m, kNoNote)
<1>1. Holding(m, n) \subseteq MapIndex /\ Holding(m, kNoNote) \subseteq MapIndex
  BY DEF Holding
<1>2. MapIndex \subseteq Nat /\ 0 \in MapIndex
  BY MapAssumption DEF MapIndex
<1>3. Holding(m, n) # {} => Min(Holding(m, n)) \in Holding(m, n)
  BY <1>1, <1>2, MinIn
<1>4. Holding(m, kNoNote) # {} => Min(Holding(m, kNoNote)) \in Holding(m, kNoNote)
  BY <1>1, <1>2, MinIn
<1>5. QED
  BY <1>1, <1>2, <1>3, <1>4 DEF PutIndex

LEMMA PutType ==
    ASSUME NEW S, NEW m \in MapOf(S), NEW n \in Note, NEW value \in S
    PROVE  Put(m, n, value) \in MapOf(S)
  BY PutIndexType DEF Put, MapOf

\* Find yields the entry of the note, if there is one.
LEMMA FindHolds ==
    ASSUME NEW m, NEW n
    PROVE  /\ Find(m, n) \subseteq Holding(m, n)
           /\ Find(m, n) = {} <=> Holding(m, n) = {}
           /\ Find(m, n) # {} => (CHOOSE i \in Find(m, n) : TRUE) \in Holding(m, n)
<1>1. Holding(m, n) \subseteq Nat
  BY MapAssumption DEF Holding, MapIndex
<1>2. Holding(m, n) # {} => Min(Holding(m, n)) \in Holding(m, n)
  BY <1>1, MinIn
<1>3. Find(m, n) \subseteq Holding(m, n) /\ (Find(m, n) = {} <=> Holding(m, n) = {})
  BY <1>2 DEF Find
<1>4. QED
  BY <1>3

LEMMA DropType ==
    ASSUME NEW S, NEW m \in MapOf(S), NEW i \in MapIndex
    PROVE  Drop(m, i) \in MapOf(S)
  BY DEF Drop, MapOf

-----------------------------------------------------------------------------
(* Types, and the permutation the voice allocator needs to answer at all.  *)

TypeInv == TypeOK /\ LruIsPermutation

MapValues == (0 .. num_voices - 1) \cup {255}

LEMMA TypeFacts ==
    ASSUME TypeInv
    PROVE  /\ num_voices \in 1 .. kMaxPolyphony
           /\ polyphony_voices \in 1 .. 8
           /\ base_channel \in 0 .. 15
           /\ voices \in Allocator /\ Permutes(voices.lru)
           /\ Sized \in Allocator /\ Permutes(Sized.lru) /\ Sized.size = num_voices
           /\ Sized.pool = voices.pool /\ Sized.lru = voices.lru
           /\ map \in MapOf(MapValues)
<1>1. num_voices \in 1 .. kMaxPolyphony /\ polyphony_voices \in 1 .. 8 /\ base_channel \in 0 .. 15
  BY SettingsAssumption DEF TypeInv, TypeOK
<1>2. voices \in Allocator /\ Permutes(voices.lru) /\ map \in MapOf(MapValues)
  BY DEF TypeInv, TypeOK, LruIsPermutation, Permutes, MapOf, MapValues
<1>3. Sized = [pool |-> voices.pool, lru |-> voices.lru, size |-> num_voices]
  BY <1>2 DEF Sized, set_size, Allocator
<1>4. Sized \in Allocator
  BY <1>1, <1>2, <1>3, PolyphonyAssumption DEF Allocator
<1>5. QED
  BY <1>1, <1>2, <1>3, <1>4

\* What OnNoteOn maps a note to is a voice in use, or all: by velocity too, at any resolution.
LEMMA ValuesInRange ==
    ASSUME TypeInv, NEW note \in Note, NEW velocity \in Velocity
    PROVE  Values(note, velocity) \subseteq MapValues
<1>1. num_voices \in 1 .. 254 /\ velocity \in 1 .. 127 /\ counter \in 0 .. num_voices - 1
  BY TypeFacts, PolyphonyAssumption, SettingsAssumption DEF TypeInv, TypeOK
<1>2. mode \in Modes
  BY DEF TypeInv, TypeOK
<1>3. CASE mode = "CYCLIC"
  BY <1>1, <1>3 DEF Values, ByCounter, MapValues
<1>4. CASE mode = "POLYPHONIC_ALLOCATOR"
  <2>1. Sized.size # 0
    BY <1>1, TypeFacts
  <2>2. Allocated(Sized, note) \in Voice /\ Allocated(Sized, note) < num_voices
    BY <2>1, TypeFacts, AllocatedInUse
  <2>3. Values(note, velocity) = {Allocated(Sized, note)}
    BY <1>4, <2>1 DEF Values, VoiceOfNoteOn
  <2>4. QED
    BY <1>1, <2>2, <2>3 DEF MapValues, Voice
<1>5. CASE mode = "RANDOM"
  BY <1>1, <1>5 DEF Values, MapValues
<1>6. CASE mode = "STACK"
  BY <1>6 DEF Values, MapValues
<1>7. CASE mode = "VELOCITY"
  <2> DEFINE product == 2 * velocity * num_voices
  <2>1. product \in Nat /\ product < 256 * num_voices
    BY <1>1
  <2>2. Values(note, velocity) = {product \div 256}
    BY <1>7 DEF Values
  <2> HIDE DEF product
  <2>3. product \div 256 \in 0 .. num_voices - 1
    BY <1>1, <2>1
  <2>4. QED
    BY <2>2, <2>3 DEF MapValues
<1>8. QED
  BY <1>2, <1>3, <1>4, <1>5, <1>6, <1>7 DEF Modes

LEMMA TypeInit == Init => TypeInv
<1> SUFFICES ASSUME Init PROVE TypeInv
  OBVIOUS
<1>1. voices \in Allocator
  BY PolyphonyAssumption DEF Init, InitialVoices, Allocator, Voice
<1>2. LruIsPermutation
  <2>1. voices.lru = [i \in Voice |-> kMaxPolyphony - i - 1]
    BY DEF Init, InitialVoices
  <2>2. \A v \in Voice : kMaxPolyphony - v - 1 \in Voice
    BY PolyphonyAssumption DEF Voice
  <2>3. ASSUME NEW v \in Voice PROVE \E i \in Voice : voices.lru[i] = v
    <3>1. kMaxPolyphony - (kMaxPolyphony - v - 1) - 1 = v
      BY PolyphonyAssumption DEF Voice
    <3>2. QED
      BY <2>1, <2>2, <3>1
  <2>4. ASSUME NEW i \in Voice, NEW j \in Voice, voices.lru[i] = voices.lru[j] PROVE i = j
    BY <2>1, <2>4, PolyphonyAssumption DEF Voice
  <2>5. QED
    BY <2>3, <2>4 DEF LruIsPermutation
<1>3. num_voices \in Nat \ {0}
  BY SettingsAssumption, PolyphonyAssumption DEF Init
<1>4. QED
  BY <1>1, <1>2, <1>3 DEF Init, TypeInv, TypeOK, EmptyMap

\* A note on, whatever the mode.
LEMMA TypePress ==
    ASSUME TypeInv, NEW n \in Note, NEW v \in Velocity, Press(n, v)
    PROVE  TypeInv'
<1>1. /\ num_voices \in 1 .. kMaxPolyphony /\ kMaxPolyphony \in 1 .. 254
      /\ counter \in 0 .. num_voices - 1
  BY TypeFacts, PolyphonyAssumption DEF TypeInv, TypeOK
<1>2. UNCHANGED <<mode, num_voices, base_channel, polyphony_voices>> /\ held' = held \cup {n}
  BY DEF Press, settings
<1>3. counter' \in 0 .. num_voices - 1
  BY <1>1 DEF Press, OnNoteOn, NextCounter, ByCounter
<1>4. voices' \in Allocator /\ Permutes(voices'.lru)
  <2>1. CASE mode = "POLYPHONIC_ALLOCATOR"
    <3>1. n \in 0 .. 255 /\ Sized.size # 0
      BY <1>1, TypeFacts, SettingsAssumption
    <3>2. voices' = VoiceNoteOn(Sized, n)
      BY <2>1 DEF Press, OnNoteOn
    <3>3. QED
      BY <3>1, <3>2, TypeFacts, VoiceNoteOnType
  <2>2. CASE mode # "POLYPHONIC_ALLOCATOR"
    BY <2>2, TypeFacts DEF Press, OnNoteOn
  <2>3. QED
    BY <2>1, <2>2
<1>5. map' \in MapOf(MapValues)
  <2>1. PICK value \in Values(n, v) : map' = Put(map, n, value)
    BY DEF Press, OnNoteOn
  <2>2. value \in MapValues
    BY <2>1, ValuesInRange
  <2>3. QED
    BY <2>1, <2>2, TypeFacts, PutType
<1>6. QED
  BY <1>2, <1>3, <1>4, <1>5
  DEF TypeInv, TypeOK, LruIsPermutation, Permutes, MapOf, MapValues

\* A note off.
LEMMA TypeRelease ==
    ASSUME TypeInv, NEW n \in Note, Release(n)
    PROVE  TypeInv'
<1>1. UNCHANGED <<mode, num_voices, base_channel, polyphony_voices, counter>>
      /\ held' = held \ {n}
  BY DEF Release, OnNoteOff, settings
<1>2. voices' \in Allocator /\ Permutes(voices'.lru)
  <2>1. voices' = VoiceNoteOff(voices, n)
    BY DEF Release, OnNoteOff
  <2>2. QED
    BY <2>1, TypeFacts, VoiceNoteOffType
<1>3. map' \in MapOf(MapValues)
  <2>1. map' = Released(n)
    BY DEF Release, OnNoteOff
  <2>2. Holding(map, n) \subseteq MapIndex
    BY DEF Holding
  <2>3. QED
    BY <2>1, <2>2, TypeFacts, FindHolds, DropType DEF Released
<1>4. QED
  BY <1>1, <1>2, <1>3
  DEF TypeInv, TypeOK, LruIsPermutation, Permutes, MapOf, MapValues

LEMMA TypeNext == TypeInv /\ [Next]_vars => TypeInv'
<1> SUFFICES ASSUME TypeInv, [Next]_vars PROVE TypeInv'
  OBVIOUS
<1>1. CASE \E n \in Note, v \in Velocity : Press(n, v)
  BY <1>1, TypePress
<1>2. CASE \E n \in Note : Release(n)
  BY <1>2, TypeRelease
<1>3. CASE \E n \in Note : Aftertouch(n)
  BY <1>3 DEF Aftertouch, settings, TypeInv, TypeOK, LruIsPermutation
<1>4. CASE PassOn
  BY <1>4 DEF PassOn, settings, TypeInv, TypeOK, LruIsPermutation
<1>5. CASE Forward
  BY <1>5 DEF Forward, settings, TypeInv, TypeOK, LruIsPermutation
<1>6. CASE SetParameter
  BY <1>6 DEF SetParameter, TypeInv, TypeOK, LruIsPermutation
<1>7. CASE UNCHANGED vars
  BY <1>7 DEF vars, settings, TypeInv, TypeOK, LruIsPermutation
<1>8. QED
  BY <1>1, <1>2, <1>3, <1>4, <1>5, <1>6, <1>7 DEF Next

\* The inductive core of the two theorems that follow.
LEMMA TypeInvariance == Spec => []TypeInv
  BY TypeInit, TypeNext, PTL DEF Spec

\* No handler of the dispatcher takes a setting, the counter, a voice or a map entry out of
\* its range, for every polyphony and every number of voices.
THEOREM TypeCorrect == Spec => []TypeOK
  BY TypeInvariance, PTL DEF TypeInv

\* VoiceAllocator::Touch never loses a voice, so NoteOn and NoteOff always find one in lru_.
THEOREM LruStaysPermutation == Spec => []LruIsPermutation
  BY TypeInvariance, PTL DEF TypeInv

-----------------------------------------------------------------------------
(* What the allocator does to the keys that are down.                      *)

\* NoteOn (voice_allocator.cc:44) takes the voice of a key that is down only when every voice
\* in use plays one.
THEOREM StealsOnlyAtFullPolyphony == Spec => StealsOnlyWhenAllActive
<1> DEFINE Steal ==
      \A v \in Voice :
        voices.pool[v].active /\ voices'.pool[v].active
          /\ voices.pool[v].note # voices'.pool[v].note
        => \A w \in Voice : w < voices'.size => voices.pool[w].active
<1>1. ASSUME TypeInv, NEW n \in Note, NEW v \in Velocity, Press(n, v)
      PROVE  Steal
  <2>1. CASE mode = "POLYPHONIC_ALLOCATOR"
    <3> DEFINE voice == Allocated(Sized, n)
    <3>1. /\ n \in 0 .. 255 /\ Sized.size = num_voices /\ num_voices # 0
          /\ Sized \in Allocator /\ Permutes(Sized.lru) /\ Sized.pool = voices.pool
      BY <1>1, TypeFacts, SettingsAssumption, PolyphonyAssumption
    <3>2. voices' = VoiceNoteOn(Sized, n)
      BY <1>1, <2>1 DEF Press, OnNoteOn
    <3>3. /\ voices'.size = num_voices /\ voice \in Voice
          /\ voices'.pool = [voices.pool EXCEPT ![voice] = [note |-> n, active |-> TRUE]]
      BY <3>1, <3>2, VoiceNoteOnType, ZenonT(60)
    <3>4. /\ Given(Sized, n) # {} => voices.pool[voice].note = n
          /\ Given(Sized, n) = {} /\ Inactive(Sized) # {} => ~ voices.pool[voice].active
      BY <3>1, AllocatedInUse
    <3>5. voices.pool \in [Voice -> [note : 0 .. 255, active : BOOLEAN]]
      BY <1>1, TypeFacts DEF Allocator
    <3> HIDE DEF voice
    <3>6. SUFFICES ASSUME NEW u \in Voice, voices.pool[u].active,
                          voices.pool[u].note # voices'.pool[u].note,
                          NEW w \in Voice, w < voices'.size
                   PROVE  voices.pool[w].active
      OBVIOUS
    <3>7. u = voice /\ voices.pool[u].note # n
      BY <3>3, <3>5, <3>6
    <3>8. Inactive(Sized) = {}
      BY <3>4, <3>6, <3>7
    <3>9. PICK i \in Voice : Sized.lru[i] = w
      BY <3>1 DEF Permutes
    <3>10. QED
      BY <3>1, <3>3, <3>6, <3>8, <3>9 DEF Inactive, InUse
  <2>2. CASE mode # "POLYPHONIC_ALLOCATOR"
    BY <1>1, <2>2 DEF Press, OnNoteOn
  <2>3. QED
    BY <2>1, <2>2
<1>2. ASSUME TypeInv, NEW n \in Note, Release(n)
      PROVE  Steal
  <2> DEFINE voice == Max(Given(voices, n))
  <2>1. voices' = VoiceNoteOff(voices, n) /\ voices \in Allocator /\ Permutes(voices.lru)
    BY <1>2, TypeFacts DEF Release, OnNoteOff
  <2>2. IF Given(voices, n) = {} THEN voices' = voices
        ELSE voices'.pool = [voices.pool EXCEPT ![voice].active = FALSE]
    BY <2>1, VoiceNoteOffType
  <2>3. voices.pool \in [Voice -> [note : 0 .. 255, active : BOOLEAN]]
    BY <2>1 DEF Allocator
  <2> HIDE DEF voice
  <2>4. \A u \in Voice : voices'.pool[u].note = voices.pool[u].note
    BY <2>2, <2>3
  <2>5. QED
    BY <2>4
<1>3. ASSUME voices' = voices
      PROVE  Steal
  BY <1>3
<1>4. TypeInv /\ [Next]_vars => [Steal]_vars
  BY <1>1, <1>2, <1>3 DEF Next, Aftertouch, PassOn, Forward, SetParameter
<1>5. QED
  BY <1>4, TypeInvariance, PTL DEF Spec, StealsOnlyWhenAllActive

(* ActiveVoicesAreHeld is not inductive: a note off frees one voice only,  *)
(* so no two voices may have been given the same note, and a voice beyond  *)
(* size_ must never have been given any.                                   *)
VoiceInv ==
    /\ voices.size \in {0, num_voices}
    /\ \A v \in Voice :
         /\ voices.pool[v].note \in Note \cup {0}
         /\ voices.pool[v].note # 0 => v < voices.size
         /\ voices.pool[v].active => voices.pool[v].note \in held
         /\ \A w \in Voice : voices.pool[v].note = voices.pool[w].note
                               => v = w \/ voices.pool[v].note = 0

LEMMA VoicePress ==
    ASSUME 0 \notin Note, TypeInv, VoiceInv, NEW n \in Note, NEW v \in Velocity, Press(n, v)
    PROVE  VoiceInv'
<1>1. num_voices' = num_voices /\ held' = held \cup {n}
  BY DEF Press, settings
<1>2. CASE mode = "POLYPHONIC_ALLOCATOR"
  <2> DEFINE voice == Allocated(Sized, n)
  <2>1. /\ n \in 0 .. 255 /\ n # 0 /\ Sized.size = num_voices /\ num_voices \in 1 .. 254
        /\ Sized \in Allocator /\ Permutes(Sized.lru) /\ Sized.pool = voices.pool
    BY TypeFacts, SettingsAssumption, PolyphonyAssumption
  <2>2. voices' = VoiceNoteOn(Sized, n)
    BY <1>2 DEF Press, OnNoteOn
  <2>3. /\ voices'.size = num_voices /\ voice \in Voice /\ voice < num_voices
        /\ voices'.pool = [voices.pool EXCEPT ![voice] = [note |-> n, active |-> TRUE]]
    <3>1. Sized.size # 0
      BY <2>1
    <3>2. QED
      BY <2>1, <2>2, <3>1, VoiceNoteOnType, ZenonT(60)
  <2>4. Given(Sized, n) # {} => voices.pool[voice].note = n
    BY <2>1, AllocatedInUse
  <2>5. voices.pool \in [Voice -> [note : 0 .. 255, active : BOOLEAN]]
    BY TypeFacts DEF Allocator
  <2> HIDE DEF voice
  <2>6. \A u \in Voice : voices.pool[u].note = n => u = voice
    <3>1. SUFFICES ASSUME NEW u \in Voice, voices.pool[u].note = n PROVE u = voice
      OBVIOUS
    <3>2. u \in Int /\ u < voices.size /\ voices.size \in {0, num_voices}
      BY <2>1, <3>1 DEF VoiceInv, Voice
    <3>3. u \in Given(Sized, n)
      BY <2>1, <3>1, <3>2 DEF Given, Voice
    <3>4. QED
      BY <2>1, <2>3, <2>4, <3>1, <3>3 DEF VoiceInv
  <2>7. voices'.pool[voice] = [note |-> n, active |-> TRUE]
        /\ \A u \in Voice : u # voice => voices'.pool[u] = voices.pool[u]
    BY <2>3, <2>5
  <2>8. \A u \in Voice : voices.pool[u].note # 0 => u < num_voices
    BY <2>1 DEF VoiceInv, Voice
  <2>9. ASSUME NEW u \in Voice
        PROVE  /\ voices'.pool[u].note \in Note \cup {0}
               /\ voices'.pool[u].note # 0 => u < voices'.size
               /\ voices'.pool[u].active => voices'.pool[u].note \in held'
    BY <1>1, <2>3, <2>7, <2>8 DEF VoiceInv
  <2>10. ASSUME NEW u \in Voice, NEW w \in Voice, voices'.pool[u].note = voices'.pool[w].note
         PROVE  u = w \/ voices'.pool[u].note = 0
    BY <2>6, <2>7, <2>10 DEF VoiceInv
  <2>11. QED
    BY <1>1, <2>3, <2>9, <2>10 DEF VoiceInv
<1>3. CASE mode # "POLYPHONIC_ALLOCATOR"
  <2>1. voices' = voices
    BY <1>3 DEF Press, OnNoteOn
  <2>2. QED
    BY <1>1, <2>1 DEF VoiceInv
<1>4. QED
  BY <1>2, <1>3

LEMMA VoiceRelease ==
    ASSUME 0 \notin Note, TypeInv, VoiceInv, NEW n \in Note, Release(n)
    PROVE  VoiceInv'
<1> DEFINE voice == Max(Given(voices, n))
<1>1. num_voices' = num_voices /\ held' = held \ {n}
  BY DEF Release, settings
<1>2. voices' = VoiceNoteOff(voices, n) /\ voices \in Allocator /\ Permutes(voices.lru)
  BY TypeFacts DEF Release, OnNoteOff
<1>3. /\ voices'.size = voices.size
      /\ IF Given(voices, n) = {} THEN voices' = voices
         ELSE /\ voice \in Given(voices, n)
              /\ voices'.pool = [voices.pool EXCEPT ![voice].active = FALSE]
  BY <1>2, VoiceNoteOffType
<1>4. voices.pool \in [Voice -> [note : 0 .. 255, active : BOOLEAN]]
  BY <1>2 DEF Allocator
<1> HIDE DEF voice
<1>5. \A u \in Voice : voices.pool[u].note = n => u \in Given(voices, n)
  BY DEF VoiceInv, Given
<1>6. ASSUME NEW u \in Voice
      PROVE  /\ voices'.pool[u].note = voices.pool[u].note
             /\ voices'.pool[u].active => voices.pool[u].active /\ voices.pool[u].note # n
  <2>1. CASE Given(voices, n) = {}
    BY <1>3, <1>5, <2>1
  <2>2. CASE Given(voices, n) # {}
    <3>1. voice \in Voice /\ voices.pool[voice].note = n
      BY <1>3, <2>2 DEF Given
    <3>2. voices'.pool[voice].active = FALSE /\ voices'.pool[voice].note = n
      BY <1>3, <1>4, <2>2, <3>1
    <3>3. \A x \in Voice : x # voice => voices'.pool[x] = voices.pool[x]
      BY <1>3, <1>4, <2>2, <3>1
    <3>4. voices.pool[u].note = n => u = voice
      BY <3>1 DEF VoiceInv
    <3>5. QED
      BY <3>1, <3>2, <3>3, <3>4
  <2>3. QED
    BY <2>1, <2>2
<1>7. QED
  BY <1>1, <1>3, <1>6 DEF VoiceInv

\* Keys being other than note 0 (the value every voice starts with), a voice that counts as
\* active was given a key that is still down: NoteOff (voice_allocator.cc:84) misses none.
THEOREM ActiveVoicesStayHeld ==
    ASSUME 0 \notin Note PROVE Spec => []ActiveVoicesAreHeld
<1>1. Init => VoiceInv
  BY DEF Init, InitialVoices, VoiceInv
<1>2. TypeInv /\ VoiceInv /\ [Next]_vars => VoiceInv'
  <2> SUFFICES ASSUME TypeInv, VoiceInv, [Next]_vars PROVE VoiceInv'
    OBVIOUS
  <2>1. CASE \E n \in Note, v \in Velocity : Press(n, v)
    BY <2>1, VoicePress
  <2>2. CASE \E n \in Note : Release(n)
    BY <2>2, VoiceRelease
  <2>3. CASE UNCHANGED <<voices, num_voices, held>>
    BY <2>3 DEF VoiceInv
  <2>4. QED
    BY <2>1, <2>2, <2>3
    DEF Next, Aftertouch, PassOn, Forward, SetParameter, settings, vars
<1>3. VoiceInv => ActiveVoicesAreHeld
  BY DEF VoiceInv, ActiveVoicesAreHeld
<1>4. QED
  BY <1>1, <1>2, <1>3, TypeInvariance, PTL DEF Spec

-----------------------------------------------------------------------------
(* The order of lru_ is the order of the touches.                          *)

\* LruIsRecency, of an array.
LatestFirst(lru) == \A i, j \in Voice : i < j => <<lru[j], lru[i]>> \in older

\* Touch and the history agree: the voice becomes the youngest, the others keep their order.
LEMMA TouchKeepsOrder ==
    ASSUME NEW lru \in [Voice -> Voice], Permutes(lru), LatestFirst(lru),
           NEW voice \in Voice, NEW i \in Voice, NEW j \in Voice, i < j
    PROVE  <<Touch(lru, voice)[j], Touch(lru, voice)[i]>> \in Aged(voice)
<1> DEFINE place == CHOOSE p \in Voice : lru[p] = voice
           new   == Touch(lru, voice)
<1>1. place \in Voice /\ lru[place] = voice
  BY DEF Permutes
<1>2. new \in [Voice -> Voice] /\ Permutes(new)
  BY TouchPermutes
<1>3. new = [k \in Voice |-> IF k = 0 THEN voice ELSE IF k <= place THEN lru[k - 1] ELSE lru[k]]
  BY DEF Touch
<1> HIDE DEF place, new
<1>4. 0 \in Voice /\ i \in Nat /\ j \in Nat /\ j # 0 /\ j - 1 \in Voice /\ place \in Nat
  BY <1>1, PolyphonyAssumption DEF Voice
<1>5. new[0] = voice /\ new[j] # voice /\ new[j] \in Voice
  <2>1. new[0] = voice
    BY <1>3, <1>4
  <2>2. new[j] = new[0] => j = 0
    BY <1>2, <1>4 DEF Permutes
  <2>3. QED
    BY <1>2, <1>4, <2>1, <2>2
<1>6. CASE i = 0
  <2>1. <<new[j], voice>> \in Aged(voice)
    BY <1>5 DEF Aged
  <2>2. QED
    BY <1>5, <1>6, <2>1 DEF new
<1>7. CASE i # 0
  <2>1. new[i] # voice
    <3>1. new[i] = new[0] => i = 0
      BY <1>2, <1>4 DEF Permutes
    <3>2. QED
      BY <1>5, <1>7, <3>1
  <2>2. i - 1 \in Voice
    BY <1>7, PolyphonyAssumption DEF Voice
  <2>3. \E a, b \in Voice : a < b /\ new[i] = lru[a] /\ new[j] = lru[b]
    <3>1. new[i] = (IF i <= place THEN lru[i - 1] ELSE lru[i])
      BY <1>3, <1>7
    <3>2. new[j] = (IF j <= place THEN lru[j - 1] ELSE lru[j])
      BY <1>3, <1>4
    <3>3. CASE i > place
      BY <1>4, <3>1, <3>2, <3>3
    <3>4. CASE i <= place /\ j > place
      <4>1. i - 1 < j /\ new[i] = lru[i - 1] /\ new[j] = lru[j]
        BY <1>4, <3>1, <3>2, <3>4
      <4>2. QED
        BY <2>2, <4>1
    <3>5. CASE i <= place /\ j <= place
      <4>1. i - 1 < j - 1 /\ new[i] = lru[i - 1] /\ new[j] = lru[j - 1]
        BY <1>4, <3>1, <3>2, <3>5
      <4>2. QED
        BY <1>4, <2>2, <4>1
    <3>6. QED
      BY <1>4, <3>3, <3>4, <3>5
  <2>4. <<new[j], new[i]>> \in older
    BY <2>3 DEF LatestFirst
  <2>5. <<new[j], new[i]>>[1] = new[j] /\ <<new[j], new[i]>>[2] = new[i]
    OBVIOUS
  <2>6. <<new[j], new[i]>> \in { p \in older : voice \notin {p[1], p[2]} }
    BY <1>5, <2>1, <2>4, <2>5
  <2>7. QED
    BY <2>6 DEF Aged, new
<1>8. QED
  BY <1>6, <1>7

\* The same of a step that touches one voice, or none.
LEMMA OrderKept ==
    ASSUME TypeInv, LruIsRecency,
           \/ voices'.lru = voices.lru /\ older' = older
           \/ \E v \in Voice : voices'.lru = Touch(voices.lru, v) /\ older' = Aged(v)
    PROVE  LruIsRecency'
<1>1. voices.lru \in [Voice -> Voice] /\ Permutes(voices.lru) /\ LatestFirst(voices.lru)
  BY TypeFacts DEF Allocator, LruIsRecency, LatestFirst
<1>2. CASE voices'.lru = voices.lru /\ older' = older
  BY <1>2 DEF LruIsRecency
<1>3. CASE \E v \in Voice : voices'.lru = Touch(voices.lru, v) /\ older' = Aged(v)
  <2>1. PICK v \in Voice : voices'.lru = Touch(voices.lru, v) /\ older' = Aged(v)
    BY <1>3
  <2>2. \A i, j \in Voice : i < j => <<voices'.lru[j], voices'.lru[i]>> \in older'
    BY <1>1, <2>1, TouchKeepsOrder
  <2>3. QED
    BY <2>2 DEF LruIsRecency
<1>4. QED
  BY <1>2, <1>3

\* Whatever keys are played, the voices are kept from the latest touched to the least recently
\* touched: the search of NoteOn (voice_allocator.cc:61) meets them in the order it claims.
THEOREM LruStaysRecency == Spec => []LruIsRecency
<1>1. Init => LruIsRecency
  <2> SUFFICES ASSUME Init, NEW i \in Voice, NEW j \in Voice, i < j
               PROVE  <<voices.lru[j], voices.lru[i]>> \in older
    BY DEF LruIsRecency
  <2>1. voices.lru = [k \in Voice |-> kMaxPolyphony - k - 1]
    BY DEF Init, InitialVoices
  <2>2. voices.lru[j] \in Voice /\ voices.lru[i] \in Voice /\ voices.lru[j] < voices.lru[i]
    BY <2>1, PolyphonyAssumption DEF Voice
  <2>3. QED
    BY <2>2 DEF Init
<1>2. TypeInv /\ LruIsRecency /\ [Next]_vars => LruIsRecency'
  <2> SUFFICES ASSUME TypeInv, LruIsRecency, [Next]_vars PROVE LruIsRecency'
    OBVIOUS
  <2>1. ASSUME NEW n \in Note, NEW v \in Velocity, Press(n, v)
        PROVE  LruIsRecency'
    <3>1. CASE mode = "POLYPHONIC_ALLOCATOR"
      <4> DEFINE voice == Allocated(Sized, n)
      <4>1. Sized.size # 0 /\ n \in 0 .. 255
        BY TypeFacts, SettingsAssumption
      <4>2. voices' = VoiceNoteOn(Sized, n) /\ older' = Aged(voice)
        BY <2>1, <3>1, <4>1 DEF Press, OnNoteOn, VoiceOfNoteOn
      <4>3. voice \in Voice /\ VoiceNoteOn(Sized, n).lru = Touch(Sized.lru, voice)
        BY <4>1, TypeFacts, VoiceNoteOnType
      <4>4. voices'.lru = Touch(voices.lru, voice)
        BY <4>2, <4>3, TypeFacts
      <4>5. QED
        BY <4>2, <4>3, <4>4, OrderKept
    <3>2. CASE mode # "POLYPHONIC_ALLOCATOR"
      BY <2>1, <3>2, OrderKept DEF Press, OnNoteOn
    <3>3. QED
      BY <3>1, <3>2
  <2>2. ASSUME NEW n \in Note, Release(n)
        PROVE  LruIsRecency'
    <3> DEFINE voice == Max(Given(voices, n))
    <3>1. voices' = VoiceNoteOff(voices, n)
      BY <2>2 DEF Release, OnNoteOff
    <3>2. CASE Given(voices, n) = {}
      <4>1. voices' = voices /\ older' = older
        BY <2>2, <3>1, <3>2 DEF Release, OnNoteOff, VoiceNoteOff
      <4>2. QED
        BY <4>1, OrderKept
    <3>3. CASE Given(voices, n) # {}
      <4>1. older' = Aged(voice)
        BY <2>2, <3>3 DEF Release, OnNoteOff
      <4>2. voice \in Given(voices, n) /\ voices'.lru = Touch(voices.lru, voice)
        BY <3>1, <3>3, TypeFacts, VoiceNoteOffType
      <4>3. voice \in Voice
        BY <4>2 DEF Given
      <4>4. QED
        BY <4>1, <4>2, <4>3, OrderKept
    <3>4. QED
      BY <3>2, <3>3
  <2>3. CASE UNCHANGED <<voices, older>>
    BY <2>3, OrderKept
  <2>4. QED
    BY <2>1, <2>2, <2>3 DEF Next, Aftertouch, PassOn, Forward, SetParameter, vars
<1>3. QED
  BY <1>1, <1>2, TypeInvariance, PTL DEF Spec

-----------------------------------------------------------------------------
(* Note offs find the way of their note ons.                               *)

\* Where a mapped value sends, and what the entry of a note makes sound, as sets.
ChannelsFor(value) ==
    IF value = 255 THEN { AllChannels[k] : k \in 1 .. Len(AllChannels) } ELSE {ChannelOf(value)}

EntryOf(m, n) == m[CHOOSE i \in Find(m, n) : TRUE].value

Pairs(m, n) == IF Holding(m, n) = {} THEN {} ELSE { <<c, n>> : c \in ChannelsFor(EntryOf(m, n)) }

\* SendMessage (dispatcher.cc:195) reaches exactly the channels of the note's entry.
LEMMA RoutedReaches ==
    ASSUME TypeInv, NEW m, NEW type, NEW n
    PROVE  LET r == Routed(m, type, n)
           IN  /\ { <<r[k].channel, r[k].note>> : k \in 1 .. Len(r) } = Pairs(m, n)
               /\ \A k \in 1 .. Len(r) : r[k].type = type
<1>1. CASE Holding(m, n) = {}
  <2>1. Routed(m, type, n) = <<>>
    BY <1>1, FindHolds DEF Routed
  <2>2. QED
    BY <1>1, <2>1 DEF Pairs
<1>2. CASE Holding(m, n) # {}
  <2> DEFINE channels == IF EntryOf(m, n) = 255 THEN AllChannels ELSE <<ChannelOf(EntryOf(m, n))>>
             r        == Routed(m, type, n)
  <2>1. Find(m, n) # {}
    BY <1>2, FindHolds
  <2>2. r = [k \in 1 .. Len(channels) |-> Message(type, channels[k], n)]
    BY <2>1 DEF Routed, EntryOf
  <2>3. Len(channels) \in Nat
    <3>1. (num_voices + polyphony_voices - 1) \div polyphony_voices \in Nat
      BY TypeFacts, PolyphonyAssumption
    <3>2. Len(AllChannels) \in Nat
      BY <3>1 DEF AllChannels
    <3>3. QED
      BY <3>2
  <2>4. ChannelsFor(EntryOf(m, n)) = { channels[k] : k \in 1 .. Len(channels) }
    BY DEF ChannelsFor
  <2> HIDE DEF channels, r
  <2>5. Len(r) = Len(channels)
    BY <2>2, <2>3
  <2>6. \A k \in 1 .. Len(r) : r[k].type = type /\ r[k].channel = channels[k] /\ r[k].note = n
    BY <2>2, <2>5 DEF Message
  <2>7. Pairs(m, n) = { <<channels[k], n>> : k \in 1 .. Len(r) }
    BY <1>2, <2>4, <2>5 DEF Pairs
  <2>8. QED
    BY <2>6, <2>7 DEF r
<1>3. QED
  BY <1>1, <1>2

\* Each key that is down has one entry, no other key has any, and what sounds is what the
\* entries say.
MapInv ==
    /\ \A i, j \in MapIndex : map[i].note = map[j].note /\ map[i].note # kNoNote => i = j
    /\ \A i \in MapIndex : map[i].note # kNoNote => map[i].note \in held
    /\ \A n \in held : Holding(map, n) # {}
    /\ sounding = UNION { Pairs(map, n) : n \in held }

\* As long as fewer keys are down than the map has entries, one is free.
LEMMA FreeEntry ==
    ASSUME TypeInv, MapInv, Cardinality(held) < kNoteMapSize
    PROVE  Holding(map, kNoNote) # {}
<1>1. SUFFICES ASSUME Holding(map, kNoNote) = {} PROVE FALSE
  OBVIOUS
<1> DEFINE f == [i \in MapIndex |-> map[i].note]
<1>2. f \in Injection(MapIndex, held)
  BY <1>1 DEF MapInv, Holding, Injection, IsInjective
<1>3. IsFiniteSet(held)
  <2>1. held \in SUBSET (0 .. 127)
    BY SettingsAssumption DEF TypeInv, TypeOK
  <2>2. IsFiniteSet(0 .. 127)
    <3>1. 0 \in Int /\ 127 \in Int
      OBVIOUS
    <3>2. QED
      BY <3>1, FS_Interval, Zenon
  <2>3. QED
    BY <2>1, <2>2, FS_Subset
<1>4. Cardinality(MapIndex) <= Cardinality(held) /\ Cardinality(held) \in Nat
  BY <1>2, <1>3, FS_Injection, FS_CardinalityType
<1>5. Cardinality(MapIndex) = kNoteMapSize
  BY MapAssumption, FS_Interval DEF MapIndex
<1>6. QED
  BY <1>4, <1>5, MapAssumption

\* The entries of the other notes and what they make sound survive a change of one entry.
LEMMA OthersKeepPairs ==
    ASSUME NEW m, NEW q, NEW n,
           \A i \in MapIndex : (m[i].note = n <=> q[i].note = n) /\ (m[i].note = n => q[i] = m[i])
    PROVE  Pairs(q, n) = Pairs(m, n)
<1>1. Holding(q, n) = Holding(m, n)
  BY DEF Holding
<1>2. Find(q, n) = Find(m, n)
  BY <1>1 DEF Find
<1>3. ASSUME Holding(m, n) # {} PROVE EntryOf(q, n) = EntryOf(m, n)
  <2>1. (CHOOSE i \in Find(m, n) : TRUE) \in Holding(m, n)
    BY <1>3, FindHolds
  <2>2. QED
    BY <1>2, <2>1 DEF EntryOf, Holding
<1>4. QED
  BY <1>1, <1>3 DEF Pairs

\* The channels depend on the settings only, which no key changes.
LEMMA SamePairs ==
    ASSUME NEW CONSTANT n, UNCHANGED <<num_voices, base_channel, polyphony_voices>>
    PROVE  Pairs(map, n)' = Pairs(map', n)
  BY DEF Pairs, EntryOf, ChannelsFor, AllChannels, ChannelOf

\* The pairs that Listen adds or takes away are those of the one note out' is about.
LEMMA HeardIs ==
    ASSUME TypeInv, NEW m, NEW type, NEW n, out' = Routed(m, type, n)
    PROVE  /\ Heard(type) = Pairs(m, n)
           /\ \A other : other # type => Heard(other) = {}
<1>1. /\ { <<out'[k].channel, out'[k].note>> : k \in 1 .. Len(out') } = Pairs(m, n)
      /\ \A k \in 1 .. Len(out') : out'[k].type = type
  BY RoutedReaches
<1>2. QED
  BY <1>1 DEF Heard

LEMMA MapPress ==
    ASSUME TypeInv, MapInv, NEW n \in Note, NEW v \in Velocity, Press(n, v)
    PROVE  MapInv'
<1>1. /\ UNCHANGED <<num_voices, base_channel, polyphony_voices>>
      /\ held' = held \cup {n} /\ n \notin held /\ n # kNoNote
      /\ out' = Routed(map', "on", n)
  BY SettingsAssumption DEF Press, OnNoteOn, settings, kNoNote
<1>2. PICK value \in Values(n, v) : map' = Put(map, n, value)
  BY DEF Press, OnNoteOn
<1> DEFINE i == PutIndex(map, n)
<1>3. i \in MapIndex /\ map[i].note = kNoNote
  <2>1. Holding(map, n) = {}
    BY <1>1 DEF MapInv, Holding
  <2>2. Holding(map, kNoNote) # {}
    BY FreeEntry DEF Press
  <2>3. QED
    BY <2>1, <2>2, PutIndexType DEF Holding
<1>4. /\ map'[i] = [note |-> n, value |-> value]
      /\ \A j \in MapIndex : j # i => map'[j] = map[j]
  BY <1>2, <1>3, TypeFacts DEF Put, MapOf
<1> HIDE DEF i
<1>5. \A p \in held : Pairs(map', p) = Pairs(map, p)
  <2>1. SUFFICES ASSUME NEW p \in held PROVE Pairs(map', p) = Pairs(map, p)
    OBVIOUS
  <2>2. p # n /\ p # kNoNote
    BY <1>1, SettingsAssumption DEF TypeInv, TypeOK, kNoNote
  <2>3. \A j \in MapIndex : /\ map[j].note = p <=> map'[j].note = p
                            /\ map[j].note = p => map'[j] = map[j]
    BY <1>3, <1>4, <2>2
  <2>4. QED
    BY <2>3, OthersKeepPairs
<1>6. sounding' = sounding \cup Pairs(map', n)
  BY <1>1, HeardIs DEF Press, Listen
<1>7. sounding' = UNION { Pairs(map', p) : p \in held' }
  BY <1>1, <1>5, <1>6 DEF MapInv
<1>8. sounding' = UNION { Pairs(map, p)' : p \in held' }
  <2>1. ASSUME NEW CONSTANT p PROVE Pairs(map, p)' = Pairs(map', p)
    BY <1>1, SamePairs
  <2>2. QED
    BY <1>7, <2>1
<1>9. /\ \A j, k \in MapIndex : map'[j].note = map'[k].note /\ map'[j].note # kNoNote => j = k
      /\ \A j \in MapIndex : map'[j].note # kNoNote => map'[j].note \in held'
  BY <1>1, <1>3, <1>4 DEF MapInv
<1>10. \A p \in held' : Holding(map', p) # {}
  <2>1. i \in Holding(map', n)
    BY <1>3, <1>4 DEF Holding
  <2>2. ASSUME NEW p \in held PROVE Holding(map', p) # {}
    <3>1. PICK j \in MapIndex : map[j].note = p
      BY DEF MapInv, Holding
    <3>2. p # kNoNote
      BY SettingsAssumption DEF TypeInv, TypeOK, kNoNote
    <3>3. j \in Holding(map', p)
      BY <1>3, <1>4, <3>1, <3>2 DEF Holding
    <3>4. QED
      BY <3>3
  <2>3. QED
    BY <1>1, <2>1, <2>2
<1>11. QED
  BY <1>8, <1>9, <1>10 DEF MapInv, Holding

LEMMA MapRelease ==
    ASSUME TypeInv, MapInv, NEW n \in Note, Release(n)
    PROVE  MapInv'
<1>1. /\ UNCHANGED <<num_voices, base_channel, polyphony_voices>>
      /\ held' = held \ {n} /\ n \in held /\ n # kNoNote
      /\ out' = Routed(map, "off", n) /\ map' = Released(n)
  BY SettingsAssumption DEF Release, OnNoteOff, settings, kNoNote
<1> DEFINE i == CHOOSE i \in Find(map, n) : TRUE
<1>2. i \in MapIndex /\ map[i].note = n /\ map' = Drop(map, i)
  <2>1. Holding(map, n) # {}
    BY <1>1 DEF MapInv
  <2>2. i \in Holding(map, n) /\ map' = Drop(map, i)
    BY <1>1, <2>1, FindHolds DEF Released
  <2>3. QED
    BY <2>2 DEF Holding
<1>3. /\ map'[i].note = kNoNote
      /\ \A j \in MapIndex : j # i => map'[j] = map[j]
  BY <1>2, TypeFacts DEF Drop, MapOf
<1> HIDE DEF i
<1>4. \A j \in MapIndex : map[j].note = n => j = i
  BY <1>1, <1>2 DEF MapInv
<1>5. \A p \in held' : Pairs(map', p) = Pairs(map, p)
  <2>1. SUFFICES ASSUME NEW p \in held' PROVE Pairs(map', p) = Pairs(map, p)
    OBVIOUS
  <2>2. p # n /\ p # kNoNote
    BY <1>1, SettingsAssumption DEF TypeInv, TypeOK, kNoNote
  <2>3. \A j \in MapIndex : /\ map[j].note = p <=> map'[j].note = p
                            /\ map[j].note = p => map'[j] = map[j]
    BY <1>2, <1>3, <2>2
  <2>4. QED
    BY <2>3, OthersKeepPairs
<1>6. sounding' = sounding \ Pairs(map, n)
  <2>1. Heard("off") = Pairs(map, n) /\ Heard("on") = {}
    BY <1>1, HeardIs
  <2>2. QED
    BY <2>1 DEF Release, Listen
<1>7. sounding' = UNION { Pairs(map', p) : p \in held' }
  <2>1. \A p, q : p # q => Pairs(map, p) \cap Pairs(map, q) = {}
    BY DEF Pairs
  <2>2. sounding' = UNION { Pairs(map, p) : p \in held' }
    BY <1>1, <1>6, <2>1 DEF MapInv
  <2>3. QED
    BY <1>5, <2>2
<1>8. sounding' = UNION { Pairs(map, p)' : p \in held' }
  <2>1. ASSUME NEW CONSTANT p PROVE Pairs(map, p)' = Pairs(map', p)
    BY <1>1, SamePairs
  <2>2. QED
    BY <1>7, <2>1
<1>9. /\ \A j, k \in MapIndex : map'[j].note = map'[k].note /\ map'[j].note # kNoNote => j = k
      /\ \A j \in MapIndex : map'[j].note # kNoNote => map'[j].note \in held'
  BY <1>1, <1>2, <1>3, <1>4 DEF MapInv
<1>10. \A p \in held' : Holding(map', p) # {}
  <2>1. SUFFICES ASSUME NEW p \in held' PROVE Holding(map', p) # {}
    OBVIOUS
  <2>2. PICK j \in MapIndex : map[j].note = p
    BY <1>1 DEF MapInv, Holding
  <2>3. j # i
    BY <1>1, <1>2, <2>2
  <2>4. j \in Holding(map', p)
    BY <1>3, <2>2, <2>3 DEF Holding
  <2>5. QED
    BY <2>4
<1>11. QED
  BY <1>8, <1>9, <1>10 DEF MapInv, Holding

\* Whatever the mode maps a note to and however voices are taken, the receivers play exactly
\* what the keys that are down were sent to, and nothing once all keys are up.
THEOREM NoNoteIsStuck == Spec => []NoStuckNotes
<1>1. Init => MapInv
  BY DEF Init, EmptyMap, MapInv
<1>2. TypeInv /\ MapInv /\ [Next]_vars => MapInv'
  <2> SUFFICES ASSUME TypeInv, MapInv, [Next]_vars PROVE MapInv'
    OBVIOUS
  <2>1. CASE \E n \in Note, v \in Velocity : Press(n, v)
    BY <2>1, MapPress
  <2>2. CASE \E n \in Note : Release(n)
    BY <2>2, MapRelease
  <2>3. CASE UNCHANGED <<settings, map, sounding, held>>
    BY <2>3 DEF settings, MapInv, Holding, Pairs, EntryOf, Find, ChannelsFor, AllChannels,
                ChannelOf
  <2>4. CASE SetParameter
    BY <2>4 DEF SetParameter, MapInv, Holding
  <2>5. QED
    BY <2>1, <2>2, <2>3, <2>4 DEF Next, Aftertouch, PassOn, Forward, vars
<1>3. TypeInv /\ MapInv => NoStuckNotes
  <2> SUFFICES ASSUME TypeInv, MapInv PROVE NoStuckNotes
    OBVIOUS
  <2> DEFINE Reached(n) ==
        LET r == Routed(map, "on", n) IN { <<r[k].channel, r[k].note>> : k \in 1 .. Len(r) }
  <2>1. \A n : Reached(n) = Pairs(map, n)
    BY RoutedReaches
  <2> HIDE DEF Reached
  <2>2. sounding = UNION { Reached(n) : n \in held }
    BY <2>1 DEF MapInv
  <2>3. QED
    BY <2>2 DEF NoStuckNotes, Reached
<1>4. QED
  BY <1>1, <1>2, <1>3, TypeInvariance, PTL DEF Spec

=============================================================================
