------------------------ MODULE PolySequencerProofs -------------------------
(***************************************************************************)
(* NotesRemembered for every number of tracks and steps and every set of   *)
(* keys.  The handlers that play no tick have one property in common,      *)
(* Quiet; ticks have a lemma of their own.  Then the type, in full.        *)
(***************************************************************************)
EXTENDS PolySequencer, TLAPS

\* As much of the type as the other facts rest on.
SeqType ==
    [running : BOOLEAN, recording : BOOLEAN, overdubbing : BOOLEAN,
     mode : Modes, prescaler : Int, num_steps : Step, data : [Track -> [Step -> Int]],
     tick : Int, step : Step, edit_step : Step, root : Int, last : Int, previous_rec : Int,
     pending : [Track -> Int], transposed : [Track -> Int],
     sounding : SUBSET Int, cut : SUBSET Int, thru : SUBSET Int]

\* Notes that may sound although no pending note stands for them.
Excused(s) == s.cut \cup s.thru

\* What a handler that plays no tick does: it adds no note but a forwarded one
\* and forgets no excuse; a stop ends all that is owed.
Quiet(s, t) ==
    /\ t \in SeqType
    /\ \A x \in t.sounding \ t.thru :
         /\ x \in s.sounding
         /\ x \notin s.thru
         /\ x \in s.cut => x \in t.cut
    /\ s.running = t.running => t.pending = s.pending /\ t.transposed = s.transposed
    /\ s.running /\ ~t.running => t.sounding \cap Owed(s) = {}

\* The inductive invariant.  A note off is owed while the transport runs, or
\* while the main loop is in the middle of Stop.
OwedFrom(s, k) == { s.transposed[i] : i \in { j \in Pending(s) : j >= k } }

Remembered(s, m) ==
    /\ m = Idle /\ s.running => s.sounding \subseteq Owed(s) \cup Excused(s)
    /\ m = Idle /\ ~s.running => s.sounding \subseteq Excused(s)
    /\ m = Starting => s.sounding \subseteq Excused(s)
    /\ m.at = "stopping" => ~s.running /\ s.sounding \subseteq OwedFrom(s, m.track) \cup Excused(s)

IInv ==
    /\ seq \in SeqType
    /\ main \in {Idle, Starting} \cup { Stopping(i) : i \in 0 .. kPSNumTracks }
    /\ raced \in BOOLEAN
    /\ ~raced => Remembered(seq, main)

-----------------------------------------------------------------------------
(* The functions of the class.                                             *)

LEMMA SilenceType == Silence \in [Track -> Int]
  BY DEF Silence, kRest

\* One member is changed and keeps its type.
LEMMA PutInt ==
  ASSUME NEW s \in SeqType, NEW i \in Int
  PROVE  /\ [s EXCEPT !.tick = i] \in SeqType
         /\ [s EXCEPT !.root = i] \in SeqType
         /\ [s EXCEPT !.last = i] \in SeqType
         /\ [s EXCEPT !.previous_rec = i] \in SeqType
         /\ [s EXCEPT !.prescaler = i] \in SeqType
  BY DEF SeqType

LEMMA PutStep ==
  ASSUME NEW s \in SeqType, NEW k \in Step
  PROVE  /\ [s EXCEPT !.step = k] \in SeqType
         /\ [s EXCEPT !.edit_step = k] \in SeqType
         /\ [s EXCEPT !.num_steps = k] \in SeqType
  BY DEF SeqType

LEMMA PutNotes ==
  ASSUME NEW s \in SeqType, NEW N \in SUBSET Int
  PROVE  /\ [s EXCEPT !.sounding = N] \in SeqType
         /\ [s EXCEPT !.cut = N] \in SeqType
         /\ [s EXCEPT !.thru = N] \in SeqType
  BY DEF SeqType

LEMMA PutTracks ==
  ASSUME NEW s \in SeqType, NEW f \in [Track -> Int]
  PROVE  /\ [s EXCEPT !.pending = f] \in SeqType
         /\ [s EXCEPT !.transposed = f] \in SeqType
  BY DEF SeqType

LEMMA PutData ==
  ASSUME NEW s \in SeqType, NEW f \in [Track -> [Step -> Int]]
  PROVE  [s EXCEPT !.data = f] \in SeqType
  BY DEF SeqType

LEMMA PutFlag ==
  ASSUME NEW s \in SeqType, NEW b \in BOOLEAN
  PROVE  /\ [s EXCEPT !.running = b] \in SeqType
         /\ [s EXCEPT !.recording = b] \in SeqType
         /\ [s EXCEPT !.overdubbing = b] \in SeqType
  BY DEF SeqType

\* Start forgets what is pending and leaves the notes alone.
LEMMA StartIs ==
  ASSUME NEW s \in SeqType
  PROVE  /\ Start(s) \in SeqType
         /\ Start(s).running
         /\ Start(s).sounding = s.sounding /\ Start(s).cut = s.cut /\ Start(s).thru = s.thru
         /\ s.running => Start(s) = s
         /\ Armed(s) \in SeqType
         /\ Armed(s).running
         /\ Armed(s).sounding = s.sounding /\ Armed(s).cut = s.cut /\ Armed(s).thru = s.thru
         /\ Armed(s).pending = s.pending /\ Armed(s).transposed = s.transposed
  <1>1. /\ Armed(s) \in SeqType
        /\ Armed(s).running
        /\ Armed(s).sounding = s.sounding /\ Armed(s).cut = s.cut /\ Armed(s).thru = s.thru
        /\ Armed(s).pending = s.pending /\ Armed(s).transposed = s.transposed
    <2>9. Armed(s) = [[[[[s EXCEPT !.tick = s.prescaler - 1] EXCEPT !.root = 60]
                        EXCEPT !.last = 60] EXCEPT !.running = TRUE] EXCEPT !.step = 0]
      BY DEF Armed, SeqType
    <2>2. s.prescaler - 1 \in Int
      BY DEF SeqType
    <2>3. Armed(s) \in SeqType /\ Armed(s).running
      <3> DEFINE a == [s EXCEPT !.tick = s.prescaler - 1]
                 b == [a EXCEPT !.root = 60]
                 c == [b EXCEPT !.last = 60]
                 d == [c EXCEPT !.running = TRUE]
      <3>0. 60 \in Int /\ 0 \in Step /\ TRUE \in BOOLEAN
        BY SizeAssumption DEF Step
      <3>2. a \in SeqType
        BY <2>2, PutInt
      <3>3. b \in SeqType
        BY <3>0, <3>2, PutInt
      <3>4. c \in SeqType
        BY <3>0, <3>3, PutInt
      <3>5. d \in SeqType
        BY <3>0, <3>4, PutFlag
      <3>6. Armed(s) = [d EXCEPT !.step = 0]
        BY <2>9
      <3> HIDE DEF a, b, c, d
      <3>1. Armed(s) \in SeqType
        BY <3>0, <3>5, <3>6, PutStep
      <3> QED BY <3>1 DEF Armed, SeqType
    <2>4. /\ Armed(s).sounding = s.sounding /\ Armed(s).cut = s.cut /\ Armed(s).thru = s.thru
          /\ Armed(s).pending = s.pending /\ Armed(s).transposed = s.transposed
      BY DEF SeqType, Armed
    <2> QED BY <2>3, <2>4
  <1>2. ASSUME NEW a \in SeqType
        PROVE  /\ [a EXCEPT !.pending = Silence] \in SeqType
               /\ [a EXCEPT !.pending = Silence].running = a.running
               /\ [a EXCEPT !.pending = Silence].sounding = a.sounding
               /\ [a EXCEPT !.pending = Silence].cut = a.cut
               /\ [a EXCEPT !.pending = Silence].thru = a.thru
    BY SilenceType DEF SeqType
  <1> QED BY <1>1, <1>2 DEF Start

\* The notes that Ended takes out are neither sounding nor excused by cut.
LEMMA EndedIs ==
  ASSUME NEW s \in SeqType, NEW N
  PROVE  /\ Ended(s, N) \in SeqType
         /\ Ended(s, N).sounding = s.sounding \ N
         /\ Ended(s, N).cut = s.cut \ N
         /\ Ended(s, N).thru = s.thru
         /\ Ended(s, N).pending = s.pending /\ Ended(s, N).transposed = s.transposed
         /\ Ended(s, N).running = s.running
         /\ Ended(s, N).data = s.data /\ Ended(s, N).step = s.step
         /\ Ended(s, N).last = s.last /\ Ended(s, N).root = s.root
         /\ Ended(s, N).num_steps = s.num_steps
  BY DEF SeqType, Ended

\* Stop ends the notes that are owed.
LEMMA StopIs ==
  ASSUME NEW s \in SeqType
  PROVE  /\ Stop(s) \in SeqType
         /\ ~Stop(s).running
         /\ ~s.running => Stop(s) = s
         /\ s.running => Stop(s).sounding = s.sounding \ Owed(s) /\ Stop(s).cut = s.cut \ Owed(s)
         /\ Stop(s).thru = s.thru
  <1>1. ASSUME NEW e \in SeqType
        PROVE  /\ [e EXCEPT !.running = FALSE] \in SeqType
               /\ ~[e EXCEPT !.running = FALSE].running
               /\ [e EXCEPT !.running = FALSE].sounding = e.sounding
               /\ [e EXCEPT !.running = FALSE].cut = e.cut
               /\ [e EXCEPT !.running = FALSE].thru = e.thru
    BY DEF SeqType
  <1>2. CASE s.running
    <2>1. Stop(s) = [Ended(s, Owed(s)) EXCEPT !.running = FALSE]
      BY <1>2 DEF Stop
    <2> QED BY <1>1, <1>2, <2>1, EndedIs
  <1>3. CASE ~s.running
    BY <1>3 DEF Stop
  <1> QED BY <1>2, <1>3

LEMMA StartIsQuiet ==
  ASSUME NEW s \in SeqType
  PROVE  Quiet(s, Start(s)) /\ Quiet(s, Stop(s)) /\ Quiet(s, s) /\ Quiet(s, OnStart(s))
  <1>1. Quiet(s, s)
    BY DEF Quiet, SeqType
  <1>2. Quiet(s, Start(s))
    BY StartIs DEF Quiet, SeqType
  <1>3. Quiet(s, Stop(s))
    BY StopIs DEF Quiet, SeqType
  <1> QED BY <1>1, <1>2, <1>3 DEF OnStart

-----------------------------------------------------------------------------
(* The tick.                                                               *)

LEMMA StepsType ==
  ASSUME NEW s \in SeqType
  PROVE  /\ NextStep(s) \in Step
         /\ \A i \in Track : s.data[i][s.step] \in Int /\ Transposed(s, i) \in Int
         /\ \A i \in Track : s.pending[i] \in Int /\ s.transposed[i] \in Int
  <1>1. s.step \in Step /\ s.num_steps \in Step /\ s.last \in Int /\ s.root \in Int
    BY DEF SeqType
  <1>2. s.data \in [Track -> [Step -> Int]] /\ s.pending \in [Track -> Int] /\ s.transposed \in [Track -> Int]
    BY DEF SeqType
  <1>3. NextStep(s) \in Step
    BY <1>1, SizeAssumption DEF NextStep, Step
  <1>4. \A i \in Track : s.data[i][s.step] \in Int
    BY <1>1, <1>2
  <1>5. \A i \in Track : Transposed(s, i) \in Int
    BY <1>1, <1>4 DEF Transposed
  <1> QED BY <1>2, <1>3, <1>4, <1>5

LEMMA NoteOnsType ==
  ASSUME NEW s \in SeqType
  PROVE  NoteOns(s) \in SeqType
  <1> DEFINE N == s.sounding \cup { Transposed(s, i) : i \in Plays(s) }
             C == s.cut \cup { s.transposed[i] : i \in (Pending(s) \ Ends(s)) \cap Plays(s) }
             p == [i \in Track |-> IF i \in Plays(s) THEN s.data[i][s.step]
                                   ELSE IF i \in Ends(s) THEN kRest ELSE s.pending[i]]
             r == [i \in Track |-> IF i \in Plays(s) THEN Transposed(s, i) ELSE s.transposed[i]]
             a == [s EXCEPT !.sounding = N]
             b == [a EXCEPT !.cut = C]
             c == [b EXCEPT !.pending = p]
             d == [c EXCEPT !.transposed = r]
  <1>1. N \in SUBSET Int /\ C \in SUBSET Int
    BY StepsType DEF SeqType, Plays
  <1>2. p \in [Track -> Int] /\ r \in [Track -> Int]
    BY StepsType DEF kRest
  <1>3. NoteOns(s) = [d EXCEPT !.step = NextStep(s)]
    BY DEF NoteOns, SeqType
  <1> HIDE DEF N, C, p, r
  <1>4. a \in SeqType
    BY <1>1, PutNotes
  <1>5. b \in SeqType
    BY <1>1, <1>4, PutNotes
  <1>6. c \in SeqType
    BY <1>2, <1>5, PutTracks
  <1>7. d \in SeqType
    BY <1>2, <1>6, PutTracks
  <1> HIDE DEF a, b, c, d
  <1> QED BY <1>3, <1>7, PutStep, StepsType

\* What a step leaves sounding is pending, cut or forwarded.
LEMMA StepRemembers ==
  ASSUME NEW s \in SeqType, s.sounding \subseteq Owed(s) \cup Excused(s)
  PROVE  NoteOns(NoteOffs(s)).sounding
           \subseteq Owed(NoteOns(NoteOffs(s))) \cup Excused(NoteOns(NoteOffs(s)))
  <1> DEFINE e == NoteOffs(s)
             t == NoteOns(e)
  <1>1. /\ e \in SeqType
        /\ e.sounding = s.sounding \ { s.transposed[i] : i \in Ends(s) }
        /\ e.cut = s.cut \ { s.transposed[i] : i \in Ends(s) }
        /\ e.thru = s.thru
        /\ e.pending = s.pending /\ e.transposed = s.transposed
        /\ e.data = s.data /\ e.step = s.step
    BY EndedIs DEF NoteOffs
  <1>2. Ends(e) = Ends(s) /\ Pending(e) = Pending(s)
    BY <1>1 DEF Ends, Pending
  <1>3. /\ t.sounding = e.sounding \cup { Transposed(e, i) : i \in Plays(e) }
        /\ t.cut = e.cut \cup { e.transposed[i] : i \in (Pending(e) \ Ends(e)) \cap Plays(e) }
        /\ t.pending = [i \in Track |-> IF i \in Plays(e) THEN e.data[i][e.step]
                                        ELSE IF i \in Ends(e) THEN kRest ELSE e.pending[i]]
        /\ t.transposed = [i \in Track |-> IF i \in Plays(e) THEN Transposed(e, i)
                                           ELSE e.transposed[i]]
        /\ t.thru = e.thru
    BY <1>1 DEF NoteOns, SeqType
  <1> HIDE DEF e, t
  <1> SUFFICES ASSUME NEW x \in t.sounding
               PROVE  x \in Owed(t) \cup Excused(t)
    BY DEF e, t
  <1>4. ASSUME NEW i \in Plays(e), x = Transposed(e, i)
        PROVE  x \in Owed(t)
    <2>1. i \in Track /\ t.pending[i] = e.data[i][e.step] /\ t.transposed[i] = x
      BY <1>3, <1>4 DEF Plays
    <2>2. e.data[i][e.step] # kRest
      BY <1>1, StepsType DEF Plays, kRest
    <2> QED BY <2>1, <2>2 DEF Owed, Pending
  <1>5. CASE x \in e.sounding /\ x \notin Excused(t)
    <2>1. x \in s.sounding /\ x \notin { s.transposed[i] : i \in Ends(s) }
      BY <1>1, <1>5
    <2>2. x \notin s.cut /\ x \notin s.thru
      BY <1>1, <1>3, <1>5, <2>1 DEF Excused
    <2>3. PICK i \in Pending(s) : x = s.transposed[i]
      BY <2>1, <2>2 DEF Owed, Excused
    <2>4. i \notin Ends(s) /\ i \in Track /\ s.pending[i] # kRest
      BY <2>1, <2>3 DEF Pending
    <2>5. i \notin Plays(e)
      <3>1. SUFFICES ASSUME i \in Plays(e)
                     PROVE  x \in t.cut
        BY <1>5 DEF Excused
      <3> QED BY <1>1, <1>2, <1>3, <2>3, <2>4, <3>1
    <2>6. t.pending[i] = s.pending[i] /\ t.transposed[i] = x
      BY <1>1, <1>2, <1>3, <2>3, <2>4, <2>5
    <2> QED BY <2>4, <2>6 DEF Owed, Pending
  <1> QED BY <1>3, <1>4, <1>5

\* A tick keeps the type and the transport, and remembers what sounds.
LEMMA TickIs ==
  ASSUME NEW s \in SeqType
  PROVE  /\ Tick(s) \in SeqType
         /\ Tick(s).running = s.running
         /\ s.sounding \subseteq Owed(s) \cup Excused(s) =>
              Tick(s).sounding \subseteq Owed(Tick(s)) \cup Excused(Tick(s))
  <1>1. ASSUME NEW a \in SeqType, NEW k \in Int
        PROVE  LET b == [a EXCEPT !.tick = k]
               IN  /\ b \in SeqType
                   /\ b.running = a.running
                   /\ b.sounding = a.sounding
                   /\ Owed(b) = Owed(a) /\ Excused(b) = Excused(a)
    <2> DEFINE b == [a EXCEPT !.tick = k]
    <2>1. /\ b \in SeqType /\ b.running = a.running /\ b.sounding = a.sounding
          /\ b.cut = a.cut /\ b.thru = a.thru
          /\ b.pending = a.pending /\ b.transposed = a.transposed
      BY PutInt DEF SeqType
    <2> HIDE DEF b
    <2>2. Owed(b) = Owed(a) /\ Excused(b) = Excused(a)
      BY <2>1 DEF Owed, Pending, Excused
    <2>3. /\ b \in SeqType
          /\ b.running = a.running
          /\ b.sounding = a.sounding
          /\ Owed(b) = Owed(a) /\ Excused(b) = Excused(a)
      BY <2>1, <2>2
    <2> QED BY <2>3 DEF b
  <1>2. NoteOffs(s) \in SeqType /\ NoteOffs(s).running = s.running
    BY EndedIs DEF NoteOffs
  <1>3. NoteOns(NoteOffs(s)) \in SeqType
    BY <1>2, NoteOnsType
  <1>4. NoteOns(NoteOffs(s)).running = s.running
    BY <1>2 DEF NoteOns, SeqType
  <1>5. s.tick + 1 \in Int /\ 0 \in Int
    BY DEF SeqType
  <1>6. CASE s.tick + 1 < s.prescaler
    <2>1. Tick(s) = [s EXCEPT !.tick = s.tick + 1]
      BY <1>6 DEF Tick
    <2> QED BY <1>1, <1>5, <2>1
  <1>7. CASE ~(s.tick + 1 < s.prescaler)
    <2>1. Tick(s) = [NoteOns(NoteOffs(s)) EXCEPT !.tick = 0]
      BY <1>7 DEF Tick
    <2> QED BY <1>1, <1>3, <1>4, <1>5, <2>1, StepRemembers
  <1> QED BY <1>6, <1>7

LEMMA OnClockIs ==
  ASSUME NEW s \in SeqType, NEW mode
  PROVE  /\ OnClock(s, mode) \in SeqType
         /\ OnClock(s, mode).running = s.running
         /\ ~s.running => OnClock(s, mode) = s
         /\ s.sounding \subseteq Owed(s) \cup Excused(s) =>
              OnClock(s, mode).sounding
                \subseteq Owed(OnClock(s, mode)) \cup Excused(OnClock(s, mode))
  BY TickIs DEF OnClock

-----------------------------------------------------------------------------
(* Keys and recording.                                                     *)

LEMMA RecordType ==
  ASSUME NEW s \in SeqType, NEW note \in Int
  PROVE  Record(s, note) \in SeqType
  <1> DEFINE w == Written(s, Recorded(s, note))
             q == IF note = kRest \/ (note = kTie /\ s.previous_rec # kRest)
                    THEN s.previous_rec ELSE note
             n == IF s.recording THEN NextEditStep(s) ELSE s.num_steps
             a == [s EXCEPT !.data = w]
             b == [a EXCEPT !.previous_rec = q]
             c == [b EXCEPT !.edit_step = NextEditStep(s)]
  <1>1. NextEditStep(s) \in Step
    BY SizeAssumption DEF NextEditStep, Step, SeqType
  <1>2. q \in Int /\ n \in Step
    BY <1>1 DEF SeqType
  <1>3. Recorded(s, note) \in Int
    BY DEF Recorded, TieOf, SeqType
  <1>4. w \in [Track -> [Step -> Int]]
    <2>1. ASSUME NEW row \in [Step -> Int], NEW k \in Int
          PROVE  [row EXCEPT ![s.edit_step] = k] \in [Step -> Int]
      OBVIOUS
    <2>2. kRest \in Int /\ \A i \in Track : s.data[i] \in [Step -> Int]
      BY DEF SeqType, kRest
    <2>3. ASSUME NEW cell \in Int
          PROVE  Written(s, cell) \in [Track -> [Step -> Int]]
      <3> DEFINE R(i) == CASE i = SlotFor(s) /\ cell # kRest -> [s.data[i] EXCEPT ![s.edit_step] = cell]
                           [] s.recording /\ ~(i = SlotFor(s) /\ cell # kRest) ->
                                [s.data[i] EXCEPT ![s.edit_step] = kRest]
                           [] OTHER -> s.data[i]
      <3>1. \A i \in Track : R(i) \in [Step -> Int]
        BY <2>1, <2>2
      <3>2. Written(s, cell) = [i \in Track |-> R(i)]
        BY DEF Written
      <3> HIDE DEF R
      <3> QED BY <3>1, <3>2
    <2> QED BY <1>3, <2>3
  <1>5. Record(s, note) = [c EXCEPT !.num_steps = n]
    BY DEF Record, SeqType
  <1> HIDE DEF w, q, n
  <1>6. a \in SeqType
    BY <1>4, PutData
  <1>7. b \in SeqType
    BY <1>2, <1>6, PutInt
  <1>8. c \in SeqType
    BY <1>1, <1>7, PutStep
  <1> HIDE DEF a, b, c
  <1> QED BY <1>2, <1>5, <1>8, PutStep

\* Recording touches nothing that sounds.
LEMMA RecordIsQuiet ==
  ASSUME NEW s \in SeqType, NEW note \in Int
  PROVE  Quiet(s, Record(s, note)) /\ Record(s, note).running = s.running
  BY RecordType, ZenonT(60) DEF Quiet, Record, SeqType

LEMMA KeyedIsQuiet ==
  ASSUME NEW s \in SeqType, NEW note \in Note
  PROVE  Quiet(s, Keyed(s, note))
  <1>1. note \in Int
    BY NoteAssumption
  <1>2. ASSUME NEW t \in SeqType, Quiet(s, t), ~s.running, t.running
        PROVE  Quiet(s, [t EXCEPT !.root = note])
    BY <1>1, <1>2, PutInt DEF Quiet, SeqType
  <1>3. CASE s.recording \/ s.overdubbing
    BY <1>1, <1>3, RecordIsQuiet DEF Keyed
  <1>4. CASE ~(s.recording \/ s.overdubbing) /\ s.mode = "INTERNAL" /\ s.running
    BY <1>4, StartIsQuiet DEF Keyed
  <1>5. CASE ~(s.recording \/ s.overdubbing) /\ s.mode = "INTERNAL" /\ ~s.running
    <2>1. Keyed(s, note) = [Start(s) EXCEPT !.root = note]
      BY <1>5 DEF Keyed
    <2> QED BY <1>2, <1>5, <2>1, StartIsQuiet, StartIs
  <1>6. CASE ~(s.recording \/ s.overdubbing) /\ s.mode # "INTERNAL"
    BY <1>6, StartIsQuiet DEF Keyed
  <1> QED BY <1>3, <1>4, <1>5, <1>6

LEMMA KeysAreQuiet ==
  ASSUME NEW s \in SeqType, NEW note \in Note
  PROVE  Quiet(s, OnNoteOn(s, note)) /\ Quiet(s, OnNoteOff(s, note))
  <1> DEFINE k == Keyed(s, note)
             f == [k EXCEPT !.sounding = @ \cup {note}, !.thru = @ \cup {note}]
             g == IF Forwards(s, note) THEN f ELSE k
  <1>1. note \in Int
    BY NoteAssumption
  <1>2. Quiet(s, k) /\ k \in SeqType
    BY KeyedIsQuiet DEF Quiet
  <1>3. ASSUME Forwards(s, note)
        PROVE  Quiet(s, f)
    <2> HIDE DEF k
    <2>1. k.sounding \cup {note} \in SUBSET Int /\ k.thru \cup {note} \in SUBSET Int
      BY <1>1, <1>2 DEF SeqType
    <2>2. f = [[k EXCEPT !.sounding = k.sounding \cup {note}] EXCEPT !.thru = k.thru \cup {note}]
      BY <1>2 DEF SeqType
    <2>3. f \in SeqType
      BY <1>2, <2>1, <2>2, PutNotes
    <2>4. /\ f.sounding = k.sounding \cup {note} /\ f.thru = k.thru \cup {note}
          /\ f.cut = k.cut /\ f.running = k.running
          /\ f.pending = k.pending /\ f.transposed = k.transposed
      BY <1>2 DEF SeqType
    <2>5. ~s.running /\ ~k.running
      BY <1>3 DEF Forwards, k
    <2> HIDE DEF f
    <2> QED BY <1>2, <2>3, <2>4, <2>5 DEF Quiet
  <1>4. Quiet(s, g) /\ g \in SeqType
    BY <1>2, <1>3 DEF Quiet
  <1>5. ASSUME NEW t \in SeqType, Quiet(s, t)
        PROVE  Quiet(s, [t EXCEPT !.last = note])
    BY <1>1, <1>5, PutInt DEF Quiet, SeqType
  <1>6. OnNoteOn(s, note) = IF g.running /\ ~g.recording /\ ~g.overdubbing
                            THEN [g EXCEPT !.last = note] ELSE g
    BY DEF OnNoteOn
  <1> HIDE DEF k, f, g
  <1>7. Quiet(s, OnNoteOn(s, note))
    BY <1>4, <1>5, <1>6
  <1>8. Quiet(s, OnNoteOff(s, note))
    <2>1. CASE s.running
      BY <2>1, StartIsQuiet DEF OnNoteOff
    <2>2. CASE ~s.running
      <3> DEFINE e == Ended(s, {note})
      <3>1. /\ e \in SeqType
            /\ e.sounding = s.sounding \ {note} /\ e.cut = s.cut \ {note} /\ e.thru = s.thru
            /\ e.pending = s.pending /\ e.transposed = s.transposed /\ e.running = s.running
        BY EndedIs
      <3>2. OnNoteOff(s, note) = [e EXCEPT !.thru = e.thru \ {note}]
        BY <2>2 DEF OnNoteOff
      <3> HIDE DEF e
      <3>3. [e EXCEPT !.thru = e.thru \ {note}] \in SeqType
        <4>1. e.thru \ {note} \in SUBSET Int
          BY <3>1 DEF SeqType
        <4> QED BY <3>1, <4>1, PutNotes
      <3> QED BY <2>2, <3>1, <3>2, <3>3 DEF Quiet, SeqType
    <2> QED BY <2>1, <2>2
  <1> QED BY <1>7, <1>8

\* The settings, on or off.
LEMMA SettingsAreQuiet ==
  ASSUME NEW s \in SeqType, NEW on \in BOOLEAN
  PROVE  /\ Quiet(s, [(IF on THEN Start(s) ELSE Stop(s)) EXCEPT !.running = on])
         /\ Quiet(s, [s EXCEPT !.edit_step = 0, !.recording = on, !.overdubbing = FALSE,
                               !.num_steps = 0, !.previous_rec = kRest])
         /\ Quiet(s, [s EXCEPT !.edit_step = 0, !.recording = FALSE, !.overdubbing = on,
                               !.previous_rec = kRest])
         /\ Quiet(s, [s EXCEPT !.recording = FALSE, !.overdubbing = FALSE])
         /\ \A mode \in Modes : Quiet(s, [s EXCEPT !.mode = mode])
         /\ \A ticks \in Prescalers : Quiet(s, [s EXCEPT !.prescaler = ticks])
  <1> DEFINE a == [s EXCEPT !.edit_step = 0]
             b == [a EXCEPT !.recording = on]
             c == [b EXCEPT !.overdubbing = FALSE]
             d == [c EXCEPT !.num_steps = 0]
             e == [a EXCEPT !.recording = FALSE]
             f == [e EXCEPT !.overdubbing = on]
             g == [s EXCEPT !.recording = FALSE]
  <1>1. 0 \in Step /\ FALSE \in BOOLEAN /\ kRest \in Int
    BY SizeAssumption DEF Step, kRest
  <1>2. ASSUME NEW t \in SeqType, t.sounding = s.sounding, t.cut = s.cut, t.thru = s.thru,
               t.pending = s.pending, t.transposed = s.transposed, t.running = s.running
        PROVE  Quiet(s, t)
    BY <1>2 DEF Quiet, SeqType
  <1>3. Quiet(s, [(IF on THEN Start(s) ELSE Stop(s)) EXCEPT !.running = on])
    <2> DEFINE r == IF on THEN Start(s) ELSE Stop(s)
    <2>1. r \in SeqType /\ Quiet(s, r) /\ r.running = on
      BY StartIs, StopIs, StartIsQuiet, ZenonT(60) DEF SeqType
    <2> HIDE DEF r
    <2>2. [r EXCEPT !.running = on] = r
      BY <2>1 DEF SeqType
    <2> QED BY <2>1, <2>2 DEF r
  <1>4. a \in SeqType
    BY <1>1, PutStep
  <1>5. b \in SeqType /\ e \in SeqType /\ g \in SeqType
    BY <1>1, <1>4, PutFlag
  <1>6. c \in SeqType /\ f \in SeqType
    BY <1>1, <1>5, PutFlag
  <1>7. d \in SeqType
    BY <1>1, <1>6, PutStep
  <1>8. Quiet(s, [s EXCEPT !.edit_step = 0, !.recording = on, !.overdubbing = FALSE,
                           !.num_steps = 0, !.previous_rec = kRest])
    <2> DEFINE t == [d EXCEPT !.previous_rec = kRest]
    <2>1. t \in SeqType
      BY <1>1, <1>7, PutInt
    <2>2. /\ t.sounding = s.sounding /\ t.cut = s.cut /\ t.thru = s.thru
          /\ t.pending = s.pending /\ t.transposed = s.transposed /\ t.running = s.running
      BY DEF SeqType
    <2>3. [s EXCEPT !.edit_step = 0, !.recording = on, !.overdubbing = FALSE,
                    !.num_steps = 0, !.previous_rec = kRest] = t
      BY DEF SeqType
    <2> HIDE DEF t
    <2> QED BY <1>2, <2>1, <2>2, <2>3
  <1>9. Quiet(s, [s EXCEPT !.edit_step = 0, !.recording = FALSE, !.overdubbing = on,
                           !.previous_rec = kRest])
    <2> DEFINE t == [f EXCEPT !.previous_rec = kRest]
    <2>1. t \in SeqType
      BY <1>1, <1>6, PutInt
    <2>2. /\ t.sounding = s.sounding /\ t.cut = s.cut /\ t.thru = s.thru
          /\ t.pending = s.pending /\ t.transposed = s.transposed /\ t.running = s.running
      BY DEF SeqType
    <2>3. [s EXCEPT !.edit_step = 0, !.recording = FALSE, !.overdubbing = on,
                    !.previous_rec = kRest] = t
      BY DEF SeqType
    <2> HIDE DEF t
    <2> QED BY <1>2, <2>1, <2>2, <2>3
  <1>10. Quiet(s, [s EXCEPT !.recording = FALSE, !.overdubbing = FALSE])
    <2> DEFINE t == [g EXCEPT !.overdubbing = FALSE]
    <2>1. t \in SeqType
      BY <1>1, <1>5, PutFlag
    <2>2. /\ t.sounding = s.sounding /\ t.cut = s.cut /\ t.thru = s.thru
          /\ t.pending = s.pending /\ t.transposed = s.transposed /\ t.running = s.running
      BY DEF SeqType
    <2>3. [s EXCEPT !.recording = FALSE, !.overdubbing = FALSE] = t
      BY DEF SeqType
    <2> HIDE DEF t
    <2> QED BY <1>2, <2>1, <2>2, <2>3
  <1>11. ASSUME NEW mode \in Modes
         PROVE  Quiet(s, [s EXCEPT !.mode = mode])
    <2> DEFINE t == [s EXCEPT !.mode = mode]
    <2>1. t \in SeqType
      BY DEF SeqType
    <2>2. /\ t.sounding = s.sounding /\ t.cut = s.cut /\ t.thru = s.thru
          /\ t.pending = s.pending /\ t.transposed = s.transposed /\ t.running = s.running
      BY DEF SeqType
    <2> HIDE DEF t
    <2>3. Quiet(s, t)
      BY <1>2, <2>1, <2>2
    <2> QED BY <2>3 DEF t
  <1>12. ASSUME NEW ticks \in Prescalers
         PROVE  Quiet(s, [s EXCEPT !.prescaler = ticks])
    <2> DEFINE t == [s EXCEPT !.prescaler = ticks]
    <2>1. ticks \in Int
      BY ClockAssumption
    <2>2. t \in SeqType
      BY <2>1, PutInt
    <2>3. /\ t.sounding = s.sounding /\ t.cut = s.cut /\ t.thru = s.thru
          /\ t.pending = s.pending /\ t.transposed = s.transposed /\ t.running = s.running
      BY DEF SeqType
    <2> HIDE DEF t
    <2>4. Quiet(s, t)
      BY <1>2, <2>2, <2>3
    <2> QED BY <2>4 DEF t
  <1> QED BY <1>3, <1>8, <1>9, <1>10, <1>11, <1>12

-----------------------------------------------------------------------------
(* The invariant is inductive.                                             *)

LEMMA Places ==
  /\ Idle.at = "idle" /\ Starting.at = "starting" /\ Idle # Starting
  /\ \A i \in 0 .. kPSNumTracks :
       Stopping(i).at = "stopping" /\ Stopping(i) # Idle /\ Stopping(i) # Starting
  BY DEF Idle, Starting, Stopping

LEMMA QuietRemembers ==
  ASSUME NEW s \in SeqType, NEW t \in SeqType, Quiet(s, t),
         NEW m \in {Idle, Starting} \cup { Stopping(i) : i \in 0 .. kPSNumTracks },
         Remembered(s, m), ~(m.at = "stopping" /\ t.running)
  PROVE  Remembered(t, m)
  <1>1. \A x \in t.sounding : x \notin Excused(t) => x \in s.sounding /\ x \notin Excused(s)
    BY DEF Quiet, Excused
  <1>2. ASSUME s.sounding \subseteq Excused(s)
        PROVE  t.sounding \subseteq Excused(t)
    BY <1>1, <1>2
  <1>3. CASE m = Starting
    BY Places, <1>2, <1>3 DEF Remembered
  <1>4. CASE m = Idle /\ ~s.running
    BY Places, <1>2, <1>4 DEF Remembered
  <1>5. CASE m = Idle /\ s.running /\ t.running
    <2>1. Owed(t) = Owed(s)
      BY <1>5 DEF Quiet, Owed, Pending
    <2> QED BY Places, <1>1, <1>5, <2>1 DEF Remembered
  <1>6. CASE m = Idle /\ s.running /\ ~t.running
    <2>1. t.sounding \cap Owed(s) = {}
      BY <1>6 DEF Quiet
    <2> QED BY Places, <1>1, <1>6, <2>1 DEF Remembered
  <1>7. CASE m.at = "stopping"
    <2>1. ~s.running /\ ~t.running
      BY <1>7 DEF Remembered
    <2>2. OwedFrom(t, m.track) = OwedFrom(s, m.track)
      <3>1. s.running \in BOOLEAN /\ t.running \in BOOLEAN
        BY DEF SeqType
      <3>2. s.running = t.running
        BY <2>1, <3>1
      <3>3. t.pending = s.pending /\ t.transposed = s.transposed
        BY <3>2 DEF Quiet
      <3> QED BY <3>3 DEF OwedFrom, Pending
    <2> QED BY Places, <1>1, <1>7, <2>1, <2>2 DEF Remembered
  <1> QED BY Places, <1>3, <1>4, <1>5, <1>6, <1>7

\* A handler that plays no tick.
LEMMA BecomesKeeps ==
  ASSUME IInv, NEW t, Quiet(seq, t), Becomes(t)
  PROVE  IInv'
  <1>1. t \in SeqType
    BY DEF Quiet
  <1>2. seq' = t /\ main' = main /\ raced' = (raced \/ (main.at = "stopping" /\ t.running))
    BY DEF Becomes
  <1>3. ASSUME ~raced'
        PROVE  Remembered(t, main)
    BY <1>1, <1>2, <1>3, QuietRemembers DEF IInv
  <1>4. Remembered(t, main) => Remembered(seq', main')
    BY <1>2
  <1> QED BY <1>1, <1>2, <1>3, <1>4 DEF IInv

LEMMA TicksKeep ==
  ASSUME IInv, NEW mode, Ticks(mode)
  PROVE  IInv'
  <1> DEFINE t == OnClock(seq, mode)
  <1>1. /\ seq' = t /\ main' = main /\ raced' = (raced \/ (main.at # "idle" /\ seq.running))
        /\ seq \in SeqType
    BY DEF Ticks, IInv
  <1>2. /\ t \in SeqType /\ t.running = seq.running
        /\ ~seq.running => t = seq
        /\ seq.sounding \subseteq Owed(seq) \cup Excused(seq) =>
             t.sounding \subseteq Owed(t) \cup Excused(t)
    BY <1>1, OnClockIs
  <1> HIDE DEF t
  <1>3. ASSUME ~raced'
        PROVE  Remembered(t, main)
    <2>1. CASE ~seq.running
      BY <1>1, <1>2, <1>3, <2>1 DEF IInv
    <2>2. CASE seq.running
      <3>1. ~raced /\ main.at = "idle"
        BY <1>1, <1>3, <2>2
      <3>2. main = Idle
        BY <3>1, Places DEF IInv
      <3> QED BY <1>1, <1>2, <2>2, <3>1, <3>2, Places DEF IInv, Remembered
    <2> QED BY <2>1, <2>2
  <1>4. Remembered(t, main) => Remembered(seq', main')
    BY <1>1
  <1> QED BY <1>1, <1>2, <1>3, <1>4 DEF IInv

LEMMA MainStartKeeps ==
  ASSUME IInv, MainStart
  PROVE  IInv'
  <1>1. /\ seq \in SeqType /\ main = Idle /\ ~seq.running
        /\ seq' = Armed(seq) /\ main' = Starting /\ raced' = raced
    BY DEF IInv, MainStart
  <1>2. /\ seq' \in SeqType
        /\ seq'.sounding = seq.sounding /\ seq'.cut = seq.cut /\ seq'.thru = seq.thru
    BY <1>1, StartIs
  <1>3. ~raced' => seq'.sounding \subseteq Excused(seq')
    BY <1>1, <1>2 DEF IInv, Remembered, Excused
  <1>4. ~raced' => Remembered(seq', main')
    BY <1>1, <1>3, Places DEF Remembered
  <1> QED BY <1>1, <1>2, <1>4 DEF IInv

LEMMA MainStartForgetsKeeps ==
  ASSUME IInv, MainStartForgets
  PROVE  IInv'
  <1>1. /\ seq \in SeqType /\ main.at = "starting"
        /\ main' = Idle /\ raced' = raced
        /\ seq' = [[seq EXCEPT !.pending = Silence] EXCEPT !.running = TRUE]
    BY DEF IInv, MainStartForgets, SeqType
  <1>2. main = Starting
    BY <1>1, Places DEF IInv
  <1>3. seq' \in SeqType
    <2>1. [seq EXCEPT !.pending = Silence] \in SeqType
      BY <1>1, SilenceType, PutTracks
    <2> QED BY <1>1, <2>1, PutFlag
  <1>4. seq'.sounding = seq.sounding /\ seq'.cut = seq.cut /\ seq'.thru = seq.thru
    BY <1>1 DEF SeqType
  <1>5. ~raced' => seq'.sounding \subseteq Excused(seq')
    BY <1>1, <1>2, <1>4 DEF IInv, Remembered, Excused
  <1>6. ~raced' => Remembered(seq', main')
    BY <1>1, <1>5, Places DEF Remembered
  <1> QED BY <1>1, <1>3, <1>6 DEF IInv

LEMMA MainStopKeeps ==
  ASSUME IInv, MainStop
  PROVE  IInv'
  <1>1. /\ seq \in SeqType /\ main = Idle /\ seq.running
        /\ seq' = [seq EXCEPT !.running = FALSE]
        /\ main' = Stopping(0) /\ raced' = raced
    BY DEF IInv, MainStop
  <1>2. /\ seq' \in SeqType /\ ~seq'.running
        /\ seq'.sounding = seq.sounding /\ seq'.cut = seq.cut /\ seq'.thru = seq.thru
        /\ seq'.pending = seq.pending /\ seq'.transposed = seq.transposed
    BY <1>1, PutFlag, ZenonT(60) DEF SeqType
  <1>3. OwedFrom(seq', 0) = Owed(seq)
    BY <1>2 DEF OwedFrom, Owed, Pending, Track
  <1>4. ~raced' => seq'.sounding \subseteq OwedFrom(seq', 0) \cup Excused(seq')
    BY <1>1, <1>2, <1>3 DEF IInv, Remembered, Excused
  <1>5. 0 \in 0 .. kPSNumTracks /\ Stopping(0).track = 0
    BY SizeAssumption DEF Stopping
  <1>6. ~raced' => Remembered(seq', main')
    BY <1>1, <1>2, <1>4, <1>5, Places DEF Remembered
  <1> QED BY <1>1, <1>2, <1>5, <1>6 DEF IInv

LEMMA MainStopEndsKeeps ==
  ASSUME IInv, MainStopEnds
  PROVE  IInv'
  <1> DEFINE i == main.track
             E == IF i \in Pending(seq) THEN {seq.transposed[i]} ELSE {}
  <1>1. /\ seq \in SeqType /\ main.at = "stopping" /\ i \in Track
        /\ main' = Stopping(i + 1) /\ raced' = raced
        /\ seq' = IF i \in Pending(seq) THEN Ended(seq, {seq.transposed[i]}) ELSE seq
    BY DEF IInv, MainStopEnds
  <1>2. /\ seq' \in SeqType /\ seq'.running = seq.running
        /\ seq'.sounding = seq.sounding \ E /\ seq'.cut = seq.cut \ E /\ seq'.thru = seq.thru
        /\ seq'.pending = seq.pending /\ seq'.transposed = seq.transposed
    BY <1>1, EndedIs
  <1>3. OwedFrom(seq, i) \subseteq OwedFrom(seq', i + 1) \cup E
    <2> SUFFICES ASSUME NEW x \in OwedFrom(seq, i), x \notin E
                 PROVE  x \in OwedFrom(seq', i + 1)
      OBVIOUS
    <2>1. PICK j \in Pending(seq) : j >= i /\ x = seq.transposed[j]
      BY DEF OwedFrom
    <2>2. j # i
      BY <2>1
    <2>3. j >= i + 1
      BY <1>1, <2>1, <2>2, SizeAssumption DEF Pending, Track
    <2> QED BY <1>2, <2>1, <2>3 DEF OwedFrom, Pending
  <1>4. i + 1 \in 0 .. kPSNumTracks /\ Stopping(i + 1).track = i + 1
    BY <1>1, SizeAssumption DEF Track, Stopping
  <1> HIDE DEF E
  <1>5. ~raced' => ~seq'.running /\ seq'.sounding \subseteq OwedFrom(seq', i + 1) \cup Excused(seq')
    BY <1>1, <1>2, <1>3 DEF IInv, Remembered, Excused
  <1>6. ~raced' => Remembered(seq', main')
    BY <1>1, <1>4, <1>5, Places DEF Remembered
  <1> QED BY <1>1, <1>2, <1>4, <1>6 DEF IInv

LEMMA MainStopReturnsKeeps ==
  ASSUME IInv, MainStopReturns
  PROVE  IInv'
  <1>1. /\ seq \in SeqType /\ main = Stopping(kPSNumTracks)
        /\ seq' = [seq EXCEPT !.running = FALSE]
        /\ main' = Idle /\ raced' = raced
    BY DEF IInv, MainStopReturns
  <1>2. /\ seq' \in SeqType /\ ~seq'.running
        /\ seq'.sounding = seq.sounding /\ seq'.cut = seq.cut /\ seq'.thru = seq.thru
    BY <1>1, PutFlag DEF SeqType
  <1>3. OwedFrom(seq, kPSNumTracks) = {}
    BY SizeAssumption DEF OwedFrom, Pending, Track
  <1>4. main.at = "stopping" /\ main.track = kPSNumTracks
    BY <1>1 DEF Stopping
  <1>5. ~raced' => seq'.sounding \subseteq Excused(seq')
    BY <1>1, <1>2, <1>3, <1>4 DEF IInv, Remembered, Excused
  <1>6. ~raced' => Remembered(seq', main')
    BY <1>1, <1>2, <1>5, Places DEF Remembered
  <1> QED BY <1>1, <1>2, <1>6 DEF IInv

LEMMA InterruptKeeps ==
  ASSUME IInv, Interrupt
  PROVE  IInv'
  <1>0. seq \in SeqType
    BY DEF IInv
  <1>1. ASSUME NEW note \in Note, KeyDown(note)
        PROVE  IInv'
    BY <1>0, <1>1, KeysAreQuiet, BecomesKeeps DEF KeyDown
  <1>2. ASSUME NEW note \in Note, KeyUp(note)
        PROVE  IInv'
    BY <1>0, <1>2, KeysAreQuiet, BecomesKeeps DEF KeyUp
  <1>3. CASE ClockKeyDown
    BY <1>0, <1>3, StartIsQuiet, BecomesKeeps DEF ClockKeyDown
  <1>4. ASSUME NEW mode, Clock(mode)
        PROVE  IInv'
    BY <1>4, TicksKeep DEF Clock
  <1>5. CASE StartMessage
    BY <1>0, <1>5, StartIsQuiet, BecomesKeeps DEF StartMessage
  <1>6. CASE StopMessage
    BY <1>0, <1>6, StartIsQuiet, BecomesKeeps DEF StopMessage
  <1>7. CASE ContinueMessage
    BY <1>0, <1>7, StartIsQuiet, BecomesKeeps DEF ContinueMessage
  <1>8. ASSUME NEW on \in BOOLEAN, Run(on)
        PROVE  IInv'
    <2> DEFINE t == [(IF on THEN Start(seq) ELSE Stop(seq)) EXCEPT !.running = on]
    <2>1. Quiet(seq, t)
      BY <1>0, SettingsAreQuiet
    <2>2. Becomes(t)
      BY <1>8 DEF Run
    <2> HIDE DEF t
    <2> QED BY <2>1, <2>2, BecomesKeeps
  <1>9. ASSUME NEW on \in BOOLEAN, Rec(on)
        PROVE  IInv'
    <2> DEFINE t == [seq EXCEPT !.edit_step = 0, !.recording = on, !.overdubbing = FALSE,
                                !.num_steps = 0, !.previous_rec = kRest]
    <2>1. Quiet(seq, t)
      BY <1>0, SettingsAreQuiet
    <2>2. Becomes(t)
      BY <1>9 DEF Rec
    <2> HIDE DEF t
    <2> QED BY <2>1, <2>2, BecomesKeeps
  <1>10. ASSUME NEW on \in BOOLEAN, Dub(on)
         PROVE  IInv'
    <2> DEFINE t == [seq EXCEPT !.edit_step = 0, !.recording = FALSE, !.overdubbing = on,
                                !.previous_rec = kRest]
    <2>1. Quiet(seq, t)
      BY <1>0, SettingsAreQuiet
    <2>2. Becomes(t)
      BY <1>10 DEF Dub
    <2> HIDE DEF t
    <2> QED BY <2>1, <2>2, BecomesKeeps
  <1>11. ASSUME NEW mode \in Modes, ClockMode(mode)
         PROVE  IInv'
    <2>1. Quiet(seq, [seq EXCEPT !.mode = mode])
      BY <1>0, SettingsAreQuiet
    <2> QED BY <1>11, <2>1, BecomesKeeps DEF ClockMode
  <1>12. ASSUME NEW ticks \in Prescalers, Division(ticks)
         PROVE  IInv'
    <2>1. Quiet(seq, [seq EXCEPT !.prescaler = ticks])
      BY <1>0, SettingsAreQuiet
    <2> QED BY <1>12, <2>1, BecomesKeeps DEF Division
  <1> QED BY <1>1, <1>2, <1>3, <1>4, <1>5, <1>6, <1>7, <1>8, <1>9, <1>10, <1>11, <1>12
          DEF Interrupt

LEMMA ClickKeeps ==
  ASSUME IInv, NEW entry, Click(entry)
  PROVE  IInv'
  <1>0. seq \in SeqType /\ kRest \in Int /\ kTie \in Int
    BY DEF IInv, kRest, kTie
  <1> DEFINE n == IF entry = "REST" THEN kRest ELSE kTie
             t == [seq EXCEPT !.recording = FALSE, !.overdubbing = FALSE]
  <1>1. Becomes(Record(seq, n)) \/ Becomes(t)
    BY DEF Click
  <1>2. Quiet(seq, Record(seq, n))
    BY <1>0, RecordIsQuiet
  <1>3. Quiet(seq, t)
    BY <1>0, SettingsAreQuiet
  <1> HIDE DEF n, t
  <1> QED BY <1>1, <1>2, <1>3, BecomesKeeps

LEMMA InvInit == Init => IInv
  <1> SUFFICES ASSUME Init PROVE IInv
    OBVIOUS
  <1>1. PICK saved \in Saved, mode \in Modes, prescaler \in Prescalers :
         seq = [running |-> FALSE, recording |-> FALSE, overdubbing |-> FALSE,
                mode |-> mode, prescaler |-> prescaler,
                num_steps |-> saved.num_steps, data |-> saved.data,
                tick |-> 0, step |-> 0, edit_step |-> 0, root |-> 0, last |-> 0,
                previous_rec |-> 0,
                pending |-> [i \in Track |-> 0], transposed |-> [i \in Track |-> 0],
                sounding |-> {}, cut |-> {}, thru |-> {}]
    BY DEF Init
  <1>2. main = Idle /\ raced = FALSE
    BY DEF Init
  <1>3. saved.num_steps \in Step /\ saved.data \in [Track -> [Step -> Int]]
    <2>1. Cell \subseteq Int
      <3>1. Note \subseteq Int
        BY NoteAssumption
      <3>2. \A note \in Note : TieOf(note) \in Int
        BY <3>1 DEF TieOf
      <3>3. { TieOf(note) : note \in Note } \subseteq Int
        BY <3>2
      <3>4. {kRest, kTie} \subseteq Int
        BY DEF kRest, kTie
      <3> QED BY <3>1, <3>3, <3>4 DEF Cell
    <2>2. saved.num_steps \in Step /\ saved.data \in [Track -> [Step -> Cell]]
      BY SavedAssumption
    <2>3. \A i \in Track, k \in Step : saved.data[i][k] \in Int
      BY <2>1, <2>2
    <2> QED BY <2>2, <2>3
  <1>4. prescaler \in Int /\ 0 \in Step
    BY ClockAssumption, SizeAssumption DEF Step
  <1>5. seq \in SeqType
    BY <1>1, <1>3, <1>4 DEF SeqType
  <1>6. Remembered(seq, main)
    BY <1>1, <1>2, Places DEF Remembered
  <1> QED BY <1>2, <1>5, <1>6 DEF IInv

LEMMA InvNext == IInv /\ [Next]_vars => IInv'
  <1> SUFFICES ASSUME IInv, [Next]_vars PROVE IInv'
    OBVIOUS
  <1>1. CASE Interrupt
    BY <1>1, InterruptKeeps
  <1>2. CASE Main
    BY <1>2, ClickKeeps, MainStartKeeps, MainStartForgetsKeeps, MainStopKeeps,
       MainStopEndsKeeps, MainStopReturnsKeeps DEF Main
  <1>3. CASE NoteClockTurn
    BY <1>3, TicksKeep DEF NoteClockTurn
  <1>4. CASE UNCHANGED vars
    <2>1. seq' = seq /\ main' = main /\ raced' = raced
      BY <1>4 DEF vars
    <2> QED BY <2>1 DEF IInv
  <1> QED BY <1>1, <1>2, <1>3, <1>4 DEF Next

LEMMA InvRemembers == IInv => NotesRemembered
  <1> SUFFICES ASSUME IInv, ~raced
               PROVE  seq.sounding \subseteq Owed(seq) \cup Excused(seq)
    BY DEF NotesRemembered, Excused
  <1>1. CASE main.at = "stopping"
    BY <1>1 DEF IInv, Remembered, OwedFrom, Owed
  <1>2. CASE main = Starting
    BY <1>2, Places DEF IInv, Remembered
  <1>3. CASE main = Idle
    BY <1>3, Places DEF IInv, Remembered, SeqType
  <1> QED BY <1>1, <1>2, <1>3, Places DEF IInv

\* Whatever is recorded, played, started and stopped, from the cable, the
\* remote control and the encoder, a note that sounds is one that
\* pending_notes_ and pending_notes_transposed_ still hold, unless it was cut
\* or forwarded, or an interrupt came in the middle of Start or Stop.
THEOREM NotesStayRemembered == Spec => []NotesRemembered
  <1>1. Init => IInv
    BY InvInit
  <1>2. IInv /\ [Next]_vars => IInv'
    BY InvNext
  <1>3. IInv => NotesRemembered
    BY InvRemembers
  <1> QED BY <1>1, <1>2, <1>3, PTL DEF Spec

-----------------------------------------------------------------------------
(* The type in full.                                                       *)

\* While steps are recorded, the note before them is one that a tie can hold on.
Within(s) ==
    /\ s.prescaler \in Prescalers
    /\ s.tick \in Nat /\ \E ticks \in Prescalers : s.tick < ticks
    /\ s.data \in [Track -> [Step -> Cell]]
    /\ s.pending \in [Track -> 0 .. 255] /\ s.transposed \in [Track -> 0 .. 255]
    /\ s.sounding \subseteq 0 .. 255
    /\ s.recording \/ s.overdubbing => s.previous_rec \in Note \cup {kRest, kTie}

Typed == IInv /\ Within(seq) /\ burst \in 0 .. kNoteClockTicks

\* t differs from s in nothing that Within speaks of, but for notes that ended.
Alike(s, t) ==
    /\ t.prescaler = s.prescaler /\ t.tick = s.tick /\ t.data = s.data
    /\ t.pending = s.pending /\ t.transposed = s.transposed
    /\ t.sounding \subseteq s.sounding
    /\ t.recording = s.recording /\ t.overdubbing = s.overdubbing
    /\ t.previous_rec = s.previous_rec

LEMMA AlikeWithin ==
  ASSUME NEW s, NEW t, Within(s), Alike(s, t)
  PROVE  Within(t)
  BY DEF Within, Alike

LEMMA Cells ==
  /\ Cell \subseteq 0 .. 255 /\ kRest \in Cell /\ Note \subseteq Cell
  /\ \A note \in Note \cup {kTie} : TieOf(note) \in Cell
  /\ Silence \in [Track -> 0 .. 255]
  <1>1. \A note \in Note : note \in 0 .. 127 /\ TieOf(note) \in 0 .. 255
    BY NoteAssumption DEF TieOf
  <1>2. kRest \in 0 .. 255 /\ kTie \in 0 .. 255 /\ TieOf(kTie) = kTie
    BY DEF kRest, kTie, TieOf
  <1>3. Cell \subseteq 0 .. 255
    BY <1>1, <1>2 DEF Cell
  <1>4. Silence \in [Track -> 0 .. 255]
    BY <1>2 DEF Silence
  <1> QED BY <1>2, <1>3, <1>4 DEF Cell

LEMMA EndedWithin ==
  ASSUME NEW s \in SeqType, Within(s), NEW N
  PROVE  Within(Ended(s, N))
  <1>1. Alike(s, Ended(s, N))
    BY DEF SeqType, Ended, Alike
  <1> QED BY <1>1, AlikeWithin

LEMMA ForgetWithin ==
  ASSUME NEW s \in SeqType, Within(s)
  PROVE  Within([s EXCEPT !.pending = Silence])
  <1> DEFINE t == [s EXCEPT !.pending = Silence]
  <1>1. /\ t.prescaler = s.prescaler /\ t.tick = s.tick /\ t.data = s.data
        /\ t.pending = Silence /\ t.transposed = s.transposed /\ t.sounding = s.sounding
        /\ t.recording = s.recording /\ t.overdubbing = s.overdubbing
        /\ t.previous_rec = s.previous_rec
    BY DEF SeqType
  <1> HIDE DEF t
  <1>2. Within(t)
    BY <1>1, Cells DEF Within
  <1> QED BY <1>2 DEF t

LEMMA RunningWithin ==
  ASSUME NEW s \in SeqType, Within(s), NEW b
  PROVE  Within([s EXCEPT !.running = b])
  <1>1. Alike(s, [s EXCEPT !.running = b])
    BY DEF SeqType, Alike
  <1> QED BY <1>1, AlikeWithin

LEMMA TickWithin ==
  ASSUME NEW s \in SeqType, Within(s), NEW k \in Nat, \E ticks \in Prescalers : k < ticks
  PROVE  Within([s EXCEPT !.tick = k])
  <1> DEFINE t == [s EXCEPT !.tick = k]
  <1>1. /\ t.prescaler = s.prescaler /\ t.tick = k /\ t.data = s.data
        /\ t.pending = s.pending /\ t.transposed = s.transposed /\ t.sounding = s.sounding
        /\ t.recording = s.recording /\ t.overdubbing = s.overdubbing
        /\ t.previous_rec = s.previous_rec
    BY DEF SeqType
  <1> HIDE DEF t
  <1>2. Within(t)
    BY <1>1 DEF Within
  <1> QED BY <1>2 DEF t

LEMMA TransportWithin ==
  ASSUME NEW s \in SeqType, Within(s)
  PROVE  Within(Armed(s)) /\ Within(Start(s)) /\ Within(Stop(s)) /\ Within(OnStart(s))
  <1> DEFINE t == [s EXCEPT !.tick = s.prescaler - 1]
  <1>0. s.prescaler \in Prescalers
    BY DEF Within
  <1>1. s.prescaler - 1 \in Nat /\ s.prescaler - 1 < s.prescaler /\ s.prescaler - 1 \in Int
    <2>1. s.prescaler \in 1 .. 192
      BY <1>0, ClockAssumption
    <2> QED BY <2>1
  <1>2. Within(t)
    BY <1>0, <1>1, TickWithin
  <1>3. t \in SeqType
    BY <1>1, PutInt
  <1>4. Alike(t, Armed(s))
    BY DEF Armed, SeqType, Alike
  <1>5. Within(Armed(s))
    BY <1>2, <1>4, AlikeWithin
  <1>6. Within(Start(s))
    BY <1>5, StartIs, ForgetWithin DEF Start
  <1>7. Within(Stop(s))
    BY EndedIs, EndedWithin, RunningWithin DEF Stop
  <1> QED BY <1>5, <1>6, <1>7 DEF OnStart

LEMMA NoteOnsWithin ==
  ASSUME NEW s \in SeqType, Within(s)
  PROVE  Within(NoteOns(s))
  <1> DEFINE t == NoteOns(s)
             p == [i \in Track |-> IF i \in Plays(s) THEN s.data[i][s.step]
                                   ELSE IF i \in Ends(s) THEN kRest ELSE s.pending[i]]
             r == [i \in Track |-> IF i \in Plays(s) THEN Transposed(s, i) ELSE s.transposed[i]]
             N == { Transposed(s, i) : i \in Plays(s) }
  <1>1. /\ t.prescaler = s.prescaler /\ t.tick = s.tick /\ t.data = s.data
        /\ t.pending = p /\ t.transposed = r /\ t.sounding = s.sounding \cup N
        /\ t.recording = s.recording /\ t.overdubbing = s.overdubbing
        /\ t.previous_rec = s.previous_rec
    BY DEF NoteOns, SeqType
  <1>2. \A i \in Track : s.data[i][s.step] \in 0 .. 255
    <2>1. s.step \in Step /\ s.data \in [Track -> [Step -> Cell]]
      BY DEF Within, SeqType
    <2>2. \A i \in Track : s.data[i][s.step] \in Cell
      BY <2>1
    <2> QED BY <2>2, Cells
  <1>3. \A i \in Track : Transposed(s, i) \in 0 .. 255
    <2>1. s.last \in Int /\ s.root \in Int
      BY DEF SeqType
    <2>2. \A x \in Int : x % 256 \in 0 .. 255
      OBVIOUS
    <2>3. ASSUME NEW i \in Track
          PROVE  s.data[i][s.step] + s.last - s.root \in Int
      <3> DEFINE d == s.data[i][s.step]
      <3>1. d \in 0 .. 255
        BY <1>2
      <3> HIDE DEF d
      <3>2. d + s.last - s.root \in Int
        BY <2>1, <3>1
      <3> QED BY <3>2 DEF d
    <2> QED BY <2>2, <2>3 DEF Transposed
  <1>4. p \in [Track -> 0 .. 255] /\ r \in [Track -> 0 .. 255]
    <2>1. kRest \in 0 .. 255 /\ \A i \in Track : s.pending[i] \in 0 .. 255 /\ s.transposed[i] \in 0 .. 255
      BY DEF Within, kRest
    <2>2. p \in [Track -> 0 .. 255]
      BY <1>2, <2>1
    <2>3. r \in [Track -> 0 .. 255]
      BY <1>3, <2>1
    <2> QED BY <2>2, <2>3
  <1>5. N \subseteq 0 .. 255
    BY <1>3 DEF Plays
  <1> HIDE DEF t, p, r, N
  <1>6. t.sounding \subseteq 0 .. 255
    BY <1>1, <1>5 DEF Within
  <1>7. t.pending \in [Track -> 0 .. 255] /\ t.transposed \in [Track -> 0 .. 255]
    BY <1>1, <1>4
  <1>8. Within(t)
    BY <1>1, <1>6, <1>7, Zenon DEF Within
  <1> QED BY <1>8 DEF t

LEMMA OnClockWithin ==
  ASSUME NEW s \in SeqType, Within(s), NEW mode
  PROVE  Within(OnClock(s, mode))
  <1> DEFINE t == NoteOns(NoteOffs(s))
  <1>1. t \in SeqType /\ Within(t)
    BY EndedIs, EndedWithin, NoteOnsType, NoteOnsWithin DEF NoteOffs
  <1>2. \E ticks \in Prescalers : 0 < ticks
    BY ClockAssumption DEF Within
  <1>3. Within([t EXCEPT !.tick = 0])
    <2> HIDE DEF t
    <2> DEFINE zero == 0
    <2>1. zero \in Nat /\ \E ticks \in Prescalers : zero < ticks
      BY <1>2
    <2> HIDE DEF zero
    <2>2. Within([t EXCEPT !.tick = zero])
      BY <1>1, <2>1, TickWithin
    <2> QED BY <2>2 DEF zero
  <1>4. ASSUME s.tick + 1 < s.prescaler
        PROVE  Within([s EXCEPT !.tick = s.tick + 1])
    <2>1. s.tick + 1 \in Nat /\ s.prescaler \in Prescalers
      BY DEF Within
    <2> QED BY <1>4, <2>1, TickWithin
  <1>5. Within(Tick(s))
    BY <1>3, <1>4 DEF Tick
  <1> QED BY <1>5 DEF OnClock

LEMMA RecordWithin ==
  ASSUME NEW s \in SeqType, Within(s), s.recording \/ s.overdubbing,
         NEW note \in Note \cup {kRest, kTie}
  PROVE  Within(Record(s, note))
  <1> DEFINE t == Record(s, note)
             cell == Recorded(s, note)
             q == IF note = kRest \/ (note = kTie /\ s.previous_rec # kRest)
                    THEN s.previous_rec ELSE note
             R(i) == CASE i = SlotFor(s) /\ cell # kRest -> [s.data[i] EXCEPT ![s.edit_step] = cell]
                       [] s.recording /\ ~(i = SlotFor(s) /\ cell # kRest) ->
                            [s.data[i] EXCEPT ![s.edit_step] = kRest]
                       [] OTHER -> s.data[i]
  <1>1. /\ t.prescaler = s.prescaler /\ t.tick = s.tick /\ t.data = Written(s, cell)
        /\ t.pending = s.pending /\ t.transposed = s.transposed /\ t.sounding = s.sounding
        /\ t.previous_rec = q
    BY DEF Record, SeqType
  <1>2. s.previous_rec \in Note \cup {kRest, kTie}
    BY DEF Within
  <1>3. cell \in Cell
    BY <1>2, Cells DEF Recorded, Cell
  <1>4. Written(s, cell) \in [Track -> [Step -> Cell]]
    <2>1. Written(s, cell) = [i \in Track |-> R(i)]
      BY DEF Written
    <2> HIDE DEF cell
    <2>2. \A i \in Track : s.data[i] \in [Step -> Cell]
      BY DEF Within
    <2>3. ASSUME NEW row \in [Step -> Cell], NEW k \in Cell
          PROVE  [row EXCEPT ![s.edit_step] = k] \in [Step -> Cell]
      OBVIOUS
    <2>4. \A i \in Track : R(i) \in [Step -> Cell]
      BY <1>3, <2>2, <2>3, Cells
    <2> HIDE DEF R
    <2> QED BY <2>1, <2>4
  <1>5. q \in Note \cup {kRest, kTie}
    BY <1>2
  <1> HIDE DEF t, cell, q
  <1>6. Within(t)
    BY <1>1, <1>4, <1>5 DEF Within
  <1> QED BY <1>6 DEF t

LEMMA KeyWithin ==
  ASSUME NEW s \in SeqType, Within(s), NEW note \in Note
  PROVE  Within(OnNoteOn(s, note)) /\ Within(OnNoteOff(s, note))
  <1> DEFINE k == Keyed(s, note)
             f == [k EXCEPT !.sounding = @ \cup {note}, !.thru = @ \cup {note}]
             g == IF Forwards(s, note) THEN f ELSE k
  <1>1. k \in SeqType
    BY KeyedIsQuiet DEF Quiet
  <1>2. Within(k)
    <2>1. CASE s.recording \/ s.overdubbing
      BY <2>1, RecordWithin DEF Keyed
    <2>2. CASE ~(s.recording \/ s.overdubbing) /\ s.mode = "INTERNAL" /\ ~s.running
      <3>1. k = [Start(s) EXCEPT !.root = note]
        BY <2>2 DEF Keyed
      <3>2. Alike(Start(s), k)
        BY <3>1, StartIs DEF Alike, SeqType
      <3> QED BY <3>2, AlikeWithin, TransportWithin
    <2>3. CASE ~(s.recording \/ s.overdubbing) /\ ~(s.mode = "INTERNAL" /\ ~s.running)
      BY <2>3, TransportWithin DEF Keyed
    <2> QED BY <2>1, <2>2, <2>3
  <1> HIDE DEF k
  <1>3. g \in SeqType /\ Within(g)
    <2>1. /\ f.prescaler = k.prescaler /\ f.tick = k.tick /\ f.data = k.data
          /\ f.pending = k.pending /\ f.transposed = k.transposed
          /\ f.sounding = k.sounding \cup {note}
          /\ f.recording = k.recording /\ f.overdubbing = k.overdubbing
          /\ f.previous_rec = k.previous_rec
      BY <1>1 DEF SeqType
    <2>2. note \in 0 .. 255 /\ note \in Int
      BY NoteAssumption
    <2>3. f \in SeqType
      <3>1. k.sounding \cup {note} \in SUBSET Int /\ k.thru \cup {note} \in SUBSET Int
        BY <1>1, <2>2 DEF SeqType
      <3>2. f = [[k EXCEPT !.sounding = k.sounding \cup {note}] EXCEPT !.thru = k.thru \cup {note}]
        BY <1>1 DEF SeqType
      <3> QED BY <1>1, <3>1, <3>2, PutNotes
    <2> HIDE DEF f
    <2>4. Within(f)
      BY <1>2, <2>1, <2>2 DEF Within
    <2> QED BY <1>1, <1>2, <2>3, <2>4
  <1>4. OnNoteOn(s, note) = IF g.running /\ ~g.recording /\ ~g.overdubbing
                            THEN [g EXCEPT !.last = note] ELSE g
    BY DEF OnNoteOn, k
  <1> HIDE DEF f, g
  <1>5. Alike(g, [g EXCEPT !.last = note])
    BY <1>3 DEF Alike, SeqType
  <1>6. Within(OnNoteOn(s, note))
    BY <1>3, <1>4, <1>5, AlikeWithin
  <1>7. Within(OnNoteOff(s, note))
    <2> DEFINE e == Ended(s, {note})
    <2>1. e \in SeqType /\ Within(e)
      BY EndedIs, EndedWithin
    <2>2. OnNoteOff(s, note) = IF s.running THEN s ELSE [e EXCEPT !.thru = e.thru \ {note}]
      BY DEF OnNoteOff
    <2> HIDE DEF e
    <2>3. Alike(e, [e EXCEPT !.thru = e.thru \ {note}])
      BY <2>1 DEF Alike, SeqType
    <2> QED BY <2>1, <2>2, <2>3, AlikeWithin
  <1> QED BY <1>6, <1>7

\* The settings that start, stop or end a recording, and the others.
LEMMA SettingsWithin ==
  ASSUME NEW s \in SeqType, Within(s), NEW on \in BOOLEAN
  PROVE  /\ Within([(IF on THEN Start(s) ELSE Stop(s)) EXCEPT !.running = on])
         /\ Within([s EXCEPT !.edit_step = 0, !.recording = on, !.overdubbing = FALSE,
                             !.num_steps = 0, !.previous_rec = kRest])
         /\ Within([s EXCEPT !.edit_step = 0, !.recording = FALSE, !.overdubbing = on,
                             !.previous_rec = kRest])
         /\ Within([s EXCEPT !.recording = FALSE, !.overdubbing = FALSE])
         /\ \A mode \in Modes : Within([s EXCEPT !.mode = mode])
         /\ \A ticks \in Prescalers : Within([s EXCEPT !.prescaler = ticks])
  <1>1. Within([(IF on THEN Start(s) ELSE Stop(s)) EXCEPT !.running = on])
    BY StartIs, StopIs, TransportWithin, RunningWithin
  <1>2. ASSUME NEW t, t.prescaler = s.prescaler, t.tick = s.tick, t.data = s.data,
               t.pending = s.pending, t.transposed = s.transposed, t.sounding = s.sounding,
               t.previous_rec = kRest \/ ~(t.recording \/ t.overdubbing)
        PROVE  Within(t)
    BY <1>2 DEF Within
  <1>3. Within([s EXCEPT !.edit_step = 0, !.recording = on, !.overdubbing = FALSE,
                         !.num_steps = 0, !.previous_rec = kRest])
    <2> DEFINE t == [s EXCEPT !.edit_step = 0, !.recording = on, !.overdubbing = FALSE,
                              !.num_steps = 0, !.previous_rec = kRest]
    <2>1. /\ t.prescaler = s.prescaler /\ t.tick = s.tick /\ t.data = s.data
          /\ t.pending = s.pending /\ t.transposed = s.transposed /\ t.sounding = s.sounding
          /\ t.previous_rec = kRest
      BY DEF SeqType
    <2> HIDE DEF t
    <2>2. Within(t)
      BY <1>2, <2>1
    <2> QED BY <2>2 DEF t
  <1>4. Within([s EXCEPT !.edit_step = 0, !.recording = FALSE, !.overdubbing = on,
                         !.previous_rec = kRest])
    <2> DEFINE t == [s EXCEPT !.edit_step = 0, !.recording = FALSE, !.overdubbing = on,
                              !.previous_rec = kRest]
    <2>1. /\ t.prescaler = s.prescaler /\ t.tick = s.tick /\ t.data = s.data
          /\ t.pending = s.pending /\ t.transposed = s.transposed /\ t.sounding = s.sounding
          /\ t.previous_rec = kRest
      BY DEF SeqType
    <2> HIDE DEF t
    <2>2. Within(t)
      BY <1>2, <2>1
    <2> QED BY <2>2 DEF t
  <1>5. Within([s EXCEPT !.recording = FALSE, !.overdubbing = FALSE])
    <2> DEFINE t == [s EXCEPT !.recording = FALSE, !.overdubbing = FALSE]
    <2>1. /\ t.prescaler = s.prescaler /\ t.tick = s.tick /\ t.data = s.data
          /\ t.pending = s.pending /\ t.transposed = s.transposed /\ t.sounding = s.sounding
          /\ t.recording = FALSE /\ t.overdubbing = FALSE
      BY DEF SeqType
    <2> HIDE DEF t
    <2>2. Within(t)
      BY <1>2, <2>1
    <2> QED BY <2>2 DEF t
  <1>6. ASSUME NEW mode \in Modes
        PROVE  Within([s EXCEPT !.mode = mode])
    <2>1. Alike(s, [s EXCEPT !.mode = mode])
      BY DEF SeqType, Alike
    <2> QED BY <2>1, AlikeWithin
  <1>7. ASSUME NEW ticks \in Prescalers
        PROVE  Within([s EXCEPT !.prescaler = ticks])
    <2> DEFINE t == [s EXCEPT !.prescaler = ticks]
    <2>1. /\ t.prescaler = ticks /\ t.tick = s.tick /\ t.data = s.data
          /\ t.pending = s.pending /\ t.transposed = s.transposed /\ t.sounding = s.sounding
          /\ t.recording = s.recording /\ t.overdubbing = s.overdubbing
          /\ t.previous_rec = s.previous_rec
      BY DEF SeqType
    <2> HIDE DEF t
    <2>2. Within(t)
      BY <2>1 DEF Within
    <2> QED BY <2>2 DEF t
  <1> QED BY <1>1, <1>3, <1>4, <1>5, <1>6, <1>7

LEMMA TypedInit == Init => Typed
  <1> SUFFICES ASSUME Init PROVE Within(seq) /\ burst \in 0 .. kNoteClockTicks
    BY InvInit DEF Typed
  <1>1. PICK saved \in Saved, mode \in Modes, prescaler \in Prescalers :
          /\ seq.prescaler = prescaler /\ seq.tick = 0 /\ seq.data = saved.data
          /\ seq.pending = [i \in Track |-> 0] /\ seq.transposed = [i \in Track |-> 0]
          /\ seq.sounding = {} /\ seq.recording = FALSE /\ seq.overdubbing = FALSE
    BY DEF Init
  <1>2. saved.data \in [Track -> [Step -> Cell]]
    BY SavedAssumption
  <1>3. 0 < prescaler
    BY ClockAssumption
  <1>4. Within(seq)
    BY <1>1, <1>2, <1>3 DEF Within
  <1> QED BY <1>4, ClockAssumption DEF Init

LEMMA InterruptWithin ==
  ASSUME Typed, Interrupt
  PROVE  Within(seq') /\ burst' \in 0 .. kNoteClockTicks
  <1>0. /\ seq \in SeqType /\ Within(seq) /\ burst \in 0 .. kNoteClockTicks
        /\ kNoteClockTicks \in 0 .. kNoteClockTicks
    BY ClockAssumption DEF Typed, IInv
  <1>1. ASSUME NEW note \in Note, KeyDown(note) \/ KeyUp(note)
        PROVE  Within(seq') /\ burst' = burst
    BY <1>0, <1>1, KeyWithin DEF KeyDown, KeyUp, Becomes
  <1>2. CASE ClockKeyDown
    BY <1>0, <1>2, TransportWithin DEF ClockKeyDown, Becomes
  <1>3. ASSUME NEW mode, Clock(mode)
        PROVE  Within(seq') /\ burst' = burst
    BY <1>0, <1>3, OnClockWithin DEF Clock, Ticks
  <1>4. CASE StartMessage \/ StopMessage \/ ContinueMessage
    BY <1>0, <1>4, TransportWithin DEF StartMessage, StopMessage, ContinueMessage, Becomes
  <1>5. ASSUME NEW on \in BOOLEAN, Run(on) \/ Rec(on) \/ Dub(on)
        PROVE  Within(seq') /\ burst' = burst
    BY <1>0, <1>5, SettingsWithin DEF Run, Rec, Dub, Becomes
  <1>6. ASSUME NEW mode \in Modes, ClockMode(mode)
        PROVE  Within(seq') /\ burst' = burst
    BY <1>0, <1>6, SettingsWithin DEF ClockMode, Becomes
  <1>7. ASSUME NEW ticks \in Prescalers, Division(ticks)
        PROVE  Within(seq') /\ burst' = burst
    BY <1>0, <1>7, SettingsWithin DEF Division, Becomes
  <1> QED BY <1>0, <1>1, <1>2, <1>3, <1>4, <1>5, <1>6, <1>7 DEF Interrupt

LEMMA MainWithin ==
  ASSUME Typed, Main
  PROVE  Within(seq') /\ burst' \in 0 .. kNoteClockTicks
  <1>0. seq \in SeqType /\ Within(seq) /\ burst \in 0 .. kNoteClockTicks
    BY DEF Typed, IInv
  <1>1. ASSUME NEW entry, Click(entry)
        PROVE  Within(seq') /\ burst' = burst
    <2> DEFINE n == IF entry = "REST" THEN kRest ELSE kTie
    <2>1. /\ seq' = Record(seq, n) \/ seq' = [seq EXCEPT !.recording = FALSE, !.overdubbing = FALSE]
          /\ seq.recording \/ seq.overdubbing
          /\ burst' = burst
      BY <1>1 DEF Click, Becomes
    <2>2. n \in Note \cup {kRest, kTie}
      OBVIOUS
    <2> HIDE DEF n
    <2> QED BY <1>0, <2>1, <2>2, RecordWithin, SettingsWithin
  <1>2. CASE MainStart
    BY <1>0, <1>2, TransportWithin DEF MainStart
  <1>3. CASE MainStartForgets
    <2>1. seq' = [[seq EXCEPT !.pending = Silence] EXCEPT !.running = TRUE] /\ burst' = burst
      BY <1>0, <1>3 DEF MainStartForgets, SeqType
    <2>2. [seq EXCEPT !.pending = Silence] \in SeqType
      BY <1>0, SilenceType, PutTracks
    <2> QED BY <1>0, <2>1, <2>2, ForgetWithin, RunningWithin
  <1>4. CASE MainStop \/ MainStopReturns
    BY <1>0, <1>4, RunningWithin DEF MainStop, MainStopReturns
  <1>5. CASE MainStopEnds
    BY <1>0, <1>5, EndedWithin DEF MainStopEnds
  <1> QED BY <1>0, <1>1, <1>2, <1>3, <1>4, <1>5 DEF Main

LEMMA TypedNext == Typed /\ [Next]_vars => Typed'
  <1> SUFFICES ASSUME Typed, [Next]_vars
               PROVE  Within(seq') /\ burst' \in 0 .. kNoteClockTicks
    BY InvNext DEF Typed
  <1>1. CASE Interrupt \/ Main
    BY <1>1, InterruptWithin, MainWithin
  <1>2. CASE NoteClockTurn
    <2>1. seq \in SeqType /\ Within(seq) /\ burst \in 0 .. kNoteClockTicks
      BY DEF Typed, IInv
    <2>2. Within(seq') /\ burst > 0 /\ burst' = burst - 1
      BY <1>2, <2>1, OnClockWithin DEF NoteClockTurn, Ticks
    <2> QED BY <2>1, <2>2, ClockAssumption
  <1>3. CASE UNCHANGED vars
    BY <1>3 DEF vars, Typed
  <1> QED BY <1>1, <1>2, <1>3 DEF Next

\* Every variable keeps its type, whatever is recorded and played: the count of a
\* step ends below the longest step although the division is changed meanwhile, the
\* steps played and edited are steps of the sequence, a cell holds a note, a tie or
\* a rest, and what is sent is a byte, though the transposition may make no MIDI
\* note of it.
THEOREM TypeCorrect == Spec => []TypeOK
  <1>1. Init => Typed
    BY TypedInit
  <1>2. Typed /\ [Next]_vars => Typed'
    BY TypedNext
  <1>3. Typed => TypeOK
    BY DEF Typed, Within, TypeOK, IInv, SeqType
  <1> QED BY <1>1, <1>2, <1>3, PTL DEF Spec
=============================================================================
