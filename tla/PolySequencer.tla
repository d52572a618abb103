--------------------------- MODULE PolySequencer ----------------------------
(***************************************************************************)
(* The polyphonic sequencer (midipal/apps/poly_sequencer.cc): notes, rests *)
(* and ties recorded step by step on a few tracks, played at clock ticks.  *)
(*                                                                         *)
(* MIDI messages and clocks are served by the timer interrupt, one after   *)
(* the other.  The encoder is served by the main loop, which the interrupt *)
(* may stop anywhere: Start and Stop called from there take several steps. *)
(*                                                                         *)
(* The record seq holds the static members of the class, and three sets    *)
(* that follow the messages sent: the notes that sound, those forwarded    *)
(* for a key whose release was not (thru), and those tied in a track that  *)
(* went on to another note (cut), whose note off is never sent.            *)
(***************************************************************************)
EXTENDS Integers, FiniteSets

CONSTANTS
    Note,               \* the keys of the channel
    kPSNumTracks,       \* 6
    kPSNumSteps,        \* 128
    Prescalers,         \* ticks per step: midi_clock_tick_per_step of the division
    kNoteClockTicks,    \* ticks played for a note of the note clock
    Saved,              \* what the EEPROM may hold: [data, num_steps]
    MaxRecords          \* bound on the steps recorded

\* In a cell of the sequence, and in pending_notes_: nothing.
kRest == 255
kTie  == 254

Modes == {"INTERNAL", "EXTERNAL", "NOTE"}
Track == 0 .. kPSNumTracks - 1
Step  == 0 .. kPSNumSteps - 1

\* Bit 7 set: the note of the previous step is held on.
TieOf(note) == IF note < 128 THEN note + 128 ELSE note

Cell == Note \cup { TieOf(note) : note \in Note } \cup {kRest, kTie}

ASSUME NoteAssumption   == Note \subseteq 0 .. 127
ASSUME SizeAssumption   == kPSNumTracks \in 1 .. 6 /\ kPSNumSteps \in 1 .. 128
ASSUME ClockAssumption  == Prescalers \subseteq 1 .. 192 /\ kNoteClockTicks \in 1 .. 192
ASSUME SavedAssumption  == Saved \subseteq [data : [Track -> [Step -> Cell]], num_steps : Step]
ASSUME RecordAssumption == MaxRecords \in Nat

VARIABLES
    seq,        \* the sequencer, and what it made sound
    main,       \* where the main loop stands in SetParameter(0, _)
    raced,      \* it was interrupted where Start and Stop do not bear it
    burst,      \* the ticks that the note clock's key has still to play
    records     \* the steps recorded so far

vars == <<seq, main, raced, burst, records>>

Idle        == [at |-> "idle", track |-> 0]
Starting    == [at |-> "starting", track |-> 0]
Stopping(i) == [at |-> "stopping", track |-> i]

Silence == [i \in Track |-> kRest]

\* The notes whose note off is still owed, as they were sent.
Pending(s) == { i \in Track : s.pending[i] # kRest }
Owed(s)    == { s.transposed[i] : i \in Pending(s) }

Ended(s, notes) == [s EXCEPT !.sounding = @ \ notes, !.cut = @ \ notes]

-----------------------------------------------------------------------------
(* The functions of the class, on the record s.                            *)

\* Start, but for the last line, which forgets the pending notes.
Armed(s) ==
    [s EXCEPT !.tick = s.prescaler - 1, !.root = 60, !.last = 60, !.running = TRUE, !.step = 0]

\* A faulty variant: a transport that runs starts again.
Start_Anyway(s) == [Armed(s) EXCEPT !.pending = Silence]

Start(s) == IF s.running THEN s ELSE [Armed(s) EXCEPT !.pending = Silence]

\* A faulty variant: the last track is left out.
Stop_AllButOne(s) ==
    LET ends == { s.transposed[i] : i \in Pending(s) \ {kPSNumTracks - 1} }
    IN  IF s.running THEN [Ended(s, ends) EXCEPT !.running = FALSE] ELSE s

Stop(s) == IF s.running THEN [Ended(s, Owed(s)) EXCEPT !.running = FALSE] ELSE s

\* The tracks whose pending note no cell of the step holds on, and those that
\* have a note to play.
Ends(s)  == { i \in Pending(s) : \A j \in Track : s.data[j][s.step] # TieOf(s.pending[i]) }
Plays(s) == { i \in Track : s.data[i][s.step] < 128 }

\* uint8_t: the sum wraps, and may be no MIDI note any more.
Transposed(s, i) == (s.data[i][s.step] + s.last - s.root) % 256

NextStep(s) == IF s.step + 1 >= s.num_steps THEN 0 ELSE s.step + 1

\* The end of the notes, in the transposition of the moment or of their start.
\* A faulty variant: the note off is transposed when it is sent.
NoteOffs_Now(s) ==
    Ended(s, { (s.pending[i] + s.last - s.root) % 256 : i \in Ends(s) })

NoteOffs(s) == Ended(s, { s.transposed[i] : i \in Ends(s) })

NoteOns(s) ==
    [s EXCEPT
       !.sounding   = @ \cup { Transposed(s, i) : i \in Plays(s) },
       !.cut        = @ \cup { s.transposed[i] : i \in (Pending(s) \ Ends(s)) \cap Plays(s) },
       !.pending    = [i \in Track |->
                         IF i \in Plays(s) THEN s.data[i][s.step]
                         ELSE IF i \in Ends(s) THEN kRest ELSE @[i]],
       !.transposed = [i \in Track |-> IF i \in Plays(s) THEN Transposed(s, i) ELSE @[i]],
       !.step       = NextStep(s)]

\* A faulty variant: the count goes on after a step.
Tick_Counts(s) ==
    IF s.tick + 1 < s.prescaler THEN [s EXCEPT !.tick = @ + 1]
    ELSE [NoteOns(NoteOffs(s)) EXCEPT !.tick = s.tick + 1]

Tick(s) ==
    IF s.tick + 1 < s.prescaler THEN [s EXCEPT !.tick = @ + 1]
    ELSE [NoteOns(NoteOffs(s)) EXCEPT !.tick = 0]

OnClock(s, mode) == IF s.mode = mode /\ s.running THEN Tick(s) ELSE s

OnStart(s) == IF s.mode # "INTERNAL" THEN Start(s) ELSE s

\* What Record writes for a key, a tie or a rest; 0xfe with no note before it.
Recorded(s, note) == IF note = kTie /\ s.previous_rec # kRest THEN TieOf(s.previous_rec) ELSE note

\* The first free track of the step, or the first track when none is free.
SlotFor(s) ==
    LET free == { i \in Track : s.recording \/ s.data[i][s.edit_step] = kRest }
    IN  CHOOSE i \in Track :
          IF free = {} THEN i = 0 ELSE i \in free /\ \A j \in free : i <= j

\* Recording replaces the step; overdubbing adds to it.
Written(s, cell) ==
    LET slot == SlotFor(s)
    IN  [i \in Track |->
          CASE i = slot /\ cell # kRest -> [s.data[i] EXCEPT ![s.edit_step] = cell]
            [] s.recording /\ ~(i = slot /\ cell # kRest) ->
                 [s.data[i] EXCEPT ![s.edit_step] = kRest]
            [] OTHER -> s.data[i]]

NextEditStep(s) ==
    IF \/ s.edit_step + 1 >= kPSNumSteps
       \/ s.overdubbing /\ s.edit_step + 1 >= s.num_steps
    THEN 0 ELSE s.edit_step + 1

Record(s, note) ==
    LET next == NextEditStep(s)
    IN  [s EXCEPT
           !.data = Written(s, Recorded(s, note)),
           !.previous_rec = IF note = kRest \/ (note = kTie /\ @ # kRest) THEN @ ELSE note,
           !.edit_step = next,
           !.num_steps = IF s.recording THEN next ELSE @]

\* OnNoteOn for a key of the channel that is not the key of the note clock.
Keyed(s, note) ==
    CASE s.recording \/ s.overdubbing -> Record(s, note)
      [] ~(s.recording \/ s.overdubbing) /\ s.mode = "INTERNAL" /\ s.running ->
           IF note = s.last THEN Stop(s) ELSE s
      [] ~(s.recording \/ s.overdubbing) /\ s.mode = "INTERNAL" /\ ~s.running ->
           [Start(s) EXCEPT !.root = note]
      [] OTHER -> s

Forwards(s, note) == ~s.running /\ ~Keyed(s, note).running

OnNoteOn(s, note) ==
    LET k == Keyed(s, note)
        f == IF ~Forwards(s, note) THEN k
             ELSE [k EXCEPT !.sounding = @ \cup {note}, !.thru = @ \cup {note}]
    IN  IF f.running /\ ~f.recording /\ ~f.overdubbing THEN [f EXCEPT !.last = note] ELSE f

OnNoteOff(s, note) ==
    IF s.running THEN s ELSE [Ended(s, {note}) EXCEPT !.thru = @ \ {note}]

-----------------------------------------------------------------------------

Init ==
    /\ \E saved \in Saved, mode \in Modes, prescaler \in Prescalers :
         seq = [running |-> FALSE, recording |-> FALSE, overdubbing |-> FALSE,
                mode |-> mode, prescaler |-> prescaler,
                num_steps |-> saved.num_steps, data |-> saved.data,
                tick |-> 0, step |-> 0, edit_step |-> 0, root |-> 0, last |-> 0,
                previous_rec |-> 0,
                pending |-> [i \in Track |-> 0], transposed |-> [i \in Track |-> 0],
                sounding |-> {}, cut |-> {}, thru |-> {}]
    /\ main = Idle
    /\ raced = FALSE
    /\ burst = 0
    /\ records = 0

\* A handler of the interrupt makes s of the state it found.  The main loop
\* does not bear a start in the middle of its Stop, or a tick in its Start.
Becomes(s) ==
    /\ seq' = s
    /\ raced' = (raced \/ (main.at = "stopping" /\ s.running))
    /\ UNCHANGED main

Ticks(mode) ==
    /\ seq' = OnClock(seq, mode)
    /\ raced' = (raced \/ (main.at # "idle" /\ seq.running))
    /\ UNCHANGED main

KeyDown(note) ==
    LET writes == seq.recording \/ seq.overdubbing
    IN  /\ writes => records < MaxRecords
        /\ UNCHANGED burst
        /\ records' = IF writes THEN records + 1 ELSE records
        /\ Becomes(OnNoteOn(seq, note))

KeyUp(note) == Becomes(OnNoteOff(seq, note)) /\ UNCHANGED <<burst, records>>

\* The note clock's key: a start and, in the same interrupt, a burst of ticks.
ClockKeyDown ==
    /\ seq.mode = "NOTE"
    /\ Becomes(OnStart(seq))
    /\ burst' = kNoteClockTicks
    /\ UNCHANGED records

NoteClockTurn ==
    /\ burst > 0
    /\ Ticks("NOTE")
    /\ burst' = burst - 1
    /\ UNCHANGED records

Clock(mode) == Ticks(mode) /\ UNCHANGED <<burst, records>>

StartMessage    == Becomes(OnStart(seq)) /\ UNCHANGED <<burst, records>>
StopMessage     == seq.mode # "INTERNAL" /\ Becomes(Stop(seq)) /\ UNCHANGED <<burst, records>>
ContinueMessage == Becomes(Start(seq)) /\ UNCHANGED <<burst, records>>

\* SetParameter from the remote control, and from the encoder but for the
\* transport: running_, recording_, overdubbing_, clk_mode_ or the division.
Run(on) ==
    /\ Becomes([(IF on THEN Start(seq) ELSE Stop(seq)) EXCEPT !.running = on])
    /\ UNCHANGED <<burst, records>>

Rec(on) ==
    /\ Becomes([seq EXCEPT !.edit_step = 0, !.recording = on, !.overdubbing = FALSE,
                           !.num_steps = 0, !.previous_rec = kRest])
    /\ UNCHANGED <<burst, records>>

Dub(on) ==
    /\ Becomes([seq EXCEPT !.edit_step = 0, !.recording = FALSE, !.overdubbing = on,
                           !.previous_rec = kRest])
    /\ UNCHANGED <<burst, records>>

ClockMode(mode) == Becomes([seq EXCEPT !.mode = mode]) /\ UNCHANGED <<burst, records>>

Division(ticks) == Becomes([seq EXCEPT !.prescaler = ticks]) /\ UNCHANGED <<burst, records>>

\* OnClick while recording, with the menu that OnIncrement turns on an entry:
\* a rest, a tie, or the end of the recording.
Click(entry) ==
    /\ main = Idle
    /\ seq.recording \/ seq.overdubbing
    /\ UNCHANGED burst
    /\ \/ /\ entry # "END"
          /\ records < MaxRecords
          /\ records' = records + 1
          /\ Becomes(Record(seq, IF entry = "REST" THEN kRest ELSE kTie))
       \/ /\ entry = "END"
          /\ UNCHANGED records
          /\ Becomes([seq EXCEPT !.recording = FALSE, !.overdubbing = FALSE])

\* The main loop in SetParameter(0, 1).
MainStart ==
    /\ main = Idle
    /\ ~seq.running
    /\ seq' = Armed(seq)
    /\ main' = Starting
    /\ UNCHANGED <<raced, burst, records>>

MainStartForgets ==
    /\ main.at = "starting"
    /\ seq' = [seq EXCEPT !.pending = Silence, !.running = TRUE]
    /\ main' = Idle
    /\ UNCHANGED <<raced, burst, records>>

\* The main loop in SetParameter(0, 0): a note off for each track, one by one.
MainStop ==
    /\ main = Idle
    /\ seq.running
    /\ seq' = [seq EXCEPT !.running = FALSE]
    /\ main' = Stopping(0)
    /\ UNCHANGED <<raced, burst, records>>

MainStopEnds ==
    LET i == main.track
    IN  /\ main.at = "stopping"
        /\ i \in Track
        /\ seq' = IF i \in Pending(seq) THEN Ended(seq, {seq.transposed[i]}) ELSE seq
        /\ main' = Stopping(i + 1)
        /\ UNCHANGED <<raced, burst, records>>

MainStopReturns ==
    /\ main = Stopping(kPSNumTracks)
    /\ seq' = [seq EXCEPT !.running = FALSE]
    /\ main' = Idle
    /\ UNCHANGED <<raced, burst, records>>

\* What an interrupt that is not in a burst does, and what the main loop does.
Interrupt ==
    \/ \E note \in Note : KeyDown(note) \/ KeyUp(note)
    \/ ClockKeyDown
    \/ \E mode \in {"INTERNAL", "EXTERNAL"} : Clock(mode)
    \/ StartMessage
    \/ StopMessage
    \/ ContinueMessage
    \/ \E on \in BOOLEAN : Run(on) \/ Rec(on) \/ Dub(on)
    \/ \E mode \in Modes : ClockMode(mode)
    \/ \E ticks \in Prescalers : Division(ticks)

Main ==
    \/ \E entry \in {"REST", "TIE", "END"} : Click(entry)
    \/ MainStart
    \/ MainStartForgets
    \/ MainStop
    \/ MainStopEnds
    \/ MainStopReturns

Next ==
    \/ burst = 0 /\ (Interrupt \/ Main)
    \/ NoteClockTurn

Spec == Init /\ [][Next]_vars

-----------------------------------------------------------------------------

TypeOK ==
    /\ seq.running \in BOOLEAN /\ seq.recording \in BOOLEAN /\ seq.overdubbing \in BOOLEAN
    /\ seq.mode \in Modes /\ seq.prescaler \in Prescalers
    /\ seq.tick \in Nat /\ \E ticks \in Prescalers : seq.tick < ticks
    /\ seq.num_steps \in Step /\ seq.step \in Step /\ seq.edit_step \in Step
    /\ seq.data \in [Track -> [Step -> Cell]]
    /\ seq.pending \in [Track -> 0 .. 255] /\ seq.transposed \in [Track -> 0 .. 255]
    /\ seq.sounding \subseteq 0 .. 255
    /\ burst \in 0 .. kNoteClockTicks
    /\ main \in {Idle, Starting} \cup { Stopping(i) : i \in 0 .. kPSNumTracks }

\* Whatever is recorded, transposed, started and stopped meanwhile, the code
\* remembers every note it made sound under the number it was sent with, but
\* for a note that is tied where its own track plays another one, for one
\* forwarded for a key, whose release it may not forward, and unless an interrupt
\* came in the middle of Start or Stop.
NotesRemembered ==
    ~raced => seq.sounding \subseteq Owed(seq) \cup seq.cut \cup seq.thru

\* "Stop pending notes.": when the transport stops, in one handler of the
\* interrupt, no note of the sequence plays on.
StopEndsNotes ==
    [][ ~raced /\ seq.running /\ ~seq'.running /\ main = Idle /\ main' = Idle =>
          seq'.sounding \subseteq seq.thru ]_vars

\* "Auto-overdub if max number of steps is reached.": the key recorded in the
\* last step makes the recording an overdub.
FullSequenceOverdubs ==
    [][ \A note \in Note :
          KeyDown(note) /\ seq.recording /\ seq.edit_step = kPSNumSteps - 1 =>
             seq'.overdubbing ]_vars
=============================================================================
