---------------------------- MODULE StepSequencer ----------------------------
(***************************************************************************)
(* The step sequencer (class Sequencer, midipal/apps/sequencer.cc): tracks *)
(* of notes, durations and velocities, whose note offs wait in the event   *)
(* scheduler, and which a key transposes, starts or records step by step.  *)
(*                                                                         *)
(* The user interface starts and stops it from the main loop, which clocks *)
(* and messages interrupt: there Start, Stop and the write of SetParameter *)
(* are taken line by line.  An interrupt is one step.  The external clock  *)
(* stands for the note clock too.  The track of controllers sends messages *)
(* that no property looks at, and is left out.                             *)
(***************************************************************************)
EXTENDS TimedQueueOps

CONSTANTS
    Note,               \* the keys of the channel
    kNumSteps,          \* 32
    Prescalers,         \* midi_clock_tick_per_step of the division
    Duration,           \* ticks of the duration of the even and odd steps
    MaxQueue            \* free slots of the event scheduler: 89

VARIABLE app

Modes == {"INTERNAL", "EXTERNAL"}
Step  == 0 .. kNumSteps - 1
Cell  == [note : Note, soft : BOOLEAN]      \* soft: of velocity 0

\* The line that the main loop is about to execute.
Places == {"idle", "flushed", "silenced", "stopped", "starting", "started", "kept"}

\* line is the event scheduler; edit the step that the user interface edits.
\* sounding holds the notes the instrument plays, thru those forwarded for a key
\* that is down, hung those left on: of a key released while the sequence ran, or
\* played in the middle of a stop.  told is what the instruments were last sent;
\* switched a change of clk_mode_ on the way; raced a start or a stop by an
\* interrupt in the middle of one by the main loop; dropped a note off lost in a
\* full scheduler.
Members ==
    [running : BOOLEAN, mode : Modes, prescaler : Prescalers,
     note_track : BOOLEAN, duration_track : BOOLEAN, velocity_track : BOOLEAN,
     num_steps : 1 .. kNumSteps, data : [Step -> Cell], tick : 0 .. 255, step : Step,
     root : Note \cup {0, 60}, last : Note \cup {0, 60},
     line : Seq([note : 0 .. 127, velocity : {0}, wait : 0 .. 255]),
     editing : BOOLEAN, edit : Step, main : Places,
     sounding : SUBSET (0 .. 127), thru : SUBSET Note, hung : SUBSET (0 .. 127),
     told : BOOLEAN, switched : BOOLEAN, raced : BOOLEAN, dropped : BOOLEAN]

\* OnInit.  The tracks are those of the EEPROM.
Init ==
    \E mode \in Modes, prescaler \in Prescalers, duration_track \in BOOLEAN, note \in Note :
      app = [running |-> FALSE, mode |-> mode, prescaler |-> prescaler,
             note_track |-> TRUE, duration_track |-> duration_track, velocity_track |-> TRUE,
             num_steps |-> kNumSteps,
             data |-> [i \in Step |-> [note |-> note, soft |-> i = 1]],
             tick |-> 0, step |-> 0, root |-> 0, last |-> 0, line |-> <<>>,
             editing |-> FALSE, edit |-> 0, main |-> "idle",
             sounding |-> {}, thru |-> {}, hung |-> {},
             told |-> FALSE, switched |-> FALSE, raced |-> FALSE, dropped |-> FALSE]

-----------------------------------------------------------------------------
(* The functions of the class, on the record s.                            *)

Clipped(n) == IF n < 0 THEN 0 ELSE IF n > 127 THEN 127 ELSE n

Waiting(s) == { s.line[i].note : i \in DOMAIN s.line }

\* The notes whose note off the sequencer will send.
Owed(s) == IF s.running THEN Waiting(s) ELSE {}

Ends(s, notes) == [s EXCEPT !.sounding = @ \ notes, !.hung = @ \ notes]

\* App::SendScheduledNotes
SendScheduledNotes(s) == [Ends(s, Ended(s.line, 255)) EXCEPT !.line = Staying(@)]

\* App::FlushQueue
FlushQueue(s) == [Ends(s, Waiting(s)) EXCEPT !.line = <<>>]

AllNotesOff(s) == [s EXCEPT !.sounding = {}, !.thru = {}, !.hung = {}]

\* running_ = 0: what was played after the flush waits for the next start.
Halted(s) ==
    [s EXCEPT !.running = FALSE,
              !.hung = IF s.running THEN @ \cup (s.sounding \cap Waiting(s)) ELSE @]

Reset(s) == [s EXCEPT !.root = 0, !.last = 0]

\* 0xfa and 0xfc are sent when the clock is the internal one.
Sent(s, value) ==
    IF s.mode = "INTERNAL" THEN [s EXCEPT !.told = value, !.switched = FALSE] ELSE s

\* By an interrupt, perhaps in the middle of the main loop's.
Told(s, value) ==
    [Sent(s, value) EXCEPT !.raced = @ \/ s.main # "idle"]

\* A faulty variant: the queue is left for the next start.
Stop_Keeps(s) ==
    IF ~s.running THEN s ELSE Reset([Told(s, FALSE) EXCEPT !.running = FALSE])

Stop(s) ==
    IF ~s.running THEN s ELSE Reset(Halted(Told(AllNotesOff(FlushQueue(s)), FALSE)))

\* Start after its 0xfa.
Armed(s) ==
    LET unset == s.root = 0 \/ s.last = 0
    IN  [s EXCEPT !.root = IF unset THEN 60 ELSE @, !.last = IF unset THEN 60 ELSE @,
                  !.tick = s.prescaler - 1, !.running = TRUE]

Start(s) == IF s.running THEN s ELSE [Armed(Told(s, TRUE)) EXCEPT !.step = 0]

\* A step plays its note, transposed, and schedules the note off.
\* A faulty variant: the note off is scheduled for the note of the track.
Play_Untransposed(s) ==
    LET cell     == s.data[s.step]
        note     == Clipped(cell.note + s.last - s.root)
        duration == IF s.duration_track THEN Duration[s.step % 2] ELSE s.prescaler
        plays    == s.note_track /\ ~(s.velocity_track /\ cell.soft)
    IN  IF ~plays THEN s
        ELSE [s EXCEPT !.sounding = @ \cup {note},
                       !.line = IF Len(@) < MaxQueue
                                  THEN Inserted(@, Event(cell.note, 0, duration - 1)) ELSE @,
                       !.dropped = @ \/ Len(s.line) >= MaxQueue]

Play(s) ==
    LET cell     == s.data[s.step]
        note     == Clipped(cell.note + s.last - s.root)
        duration == IF s.duration_track THEN Duration[s.step % 2] ELSE s.prescaler
        plays    == s.note_track /\ ~(s.velocity_track /\ cell.soft)
    IN  IF ~plays THEN s
        ELSE [s EXCEPT !.sounding = @ \cup {note},
                       !.line = IF Len(@) < MaxQueue
                                  THEN Inserted(@, Event(note, 0, duration - 1)) ELSE @,
                       !.dropped = @ \/ Len(s.line) >= MaxQueue]

Tick(s) ==
    LET sent == SendScheduledNotes(s)
    IN  IF s.tick + 1 < s.prescaler THEN [sent EXCEPT !.tick = @ + 1]
        ELSE [Play(sent) EXCEPT !.tick = 0,
                                !.step = IF @ + 1 >= s.num_steps THEN 0 ELSE @ + 1]

\* CheckPageStatus of the page of the next note: step_index is not initialized,
\* so that the test against num_steps_ may come out either way.  The choice
\* that leaves the array is not followed (see the README).
NextEdit(s) ==
    {s.edit} \cup IF s.note_track /\ s.edit + 1 \in Step THEN {s.edit + 1} ELSE {}

-----------------------------------------------------------------------------
(* The interrupts.                                                         *)

\* OnNoteOn while a step is edited: it is recorded, and heard if nothing plays.
Record(note, soft) ==
    /\ app.editing
    /\ \E edit \in NextEdit(app) :
         LET hears == ~app.note_track \/ ~app.running
         IN  app' = [app EXCEPT
                       !.data[app.edit] = [note |-> note,
                                           soft |-> IF app.velocity_track THEN soft ELSE @.soft],
                       !.edit = edit,
                       !.sounding = IF hears THEN @ \cup {note} ELSE @,
                       !.thru     = IF hears THEN @ \cup {note} ELSE @]

\* OnNoteOn otherwise: it transposes, and on the internal clock starts and stops.
KeyDown(note) ==
    LET s == IF app.note_track THEN app
             ELSE [app EXCEPT !.sounding = @ \cup {note}, !.thru = @ \cup {note}]
        stops  == s.running /\ s.mode = "INTERNAL" /\ note = s.last /\ s.note_track
        starts == ~s.running /\ s.mode = "INTERNAL"
        k == CASE stops  -> Stop(s)
               [] starts -> [Start(s) EXCEPT !.root = note]
               [] OTHER  -> s
    IN  /\ ~app.editing
        /\ app' = [k EXCEPT !.last = note]

\* OnNoteOff.  On the note track nothing is sent while the sequence runs, not
\* even for a key that was forwarded before it started.
KeyUp(note) ==
    app' = IF ~app.note_track \/ ~app.running
             THEN [Ends(app, {note}) EXCEPT !.thru = @ \ {note}]
             ELSE [app EXCEPT !.hung = @ \cup (app.thru \cap {note}), !.thru = @ \ {note}]

\* OnClock
Clock(mode) ==
    /\ app.mode = mode /\ app.running
    /\ app' = Tick(app)

\* OnStart, OnStop, OnContinue
StartMessage    == app.mode # "INTERNAL" /\ app' = Start(app)
StopMessage     == app.mode # "INTERNAL" /\ app' = Stop(app)
ContinueMessage == app.mode # "INTERNAL" /\ app' = [app EXCEPT !.running = TRUE]

-----------------------------------------------------------------------------
(* SetParameter, from the remote control (all of it in an interrupt) or    *)
(* from the encoder.                                                       *)

\* running_, from the remote control.
SetRunning(on) == app' = IF on THEN Start(app) ELSE Stop(app)

SetMode(mode) ==
    /\ mode # app.mode
    /\ app' = [app EXCEPT !.mode = mode, !.switched = @ \/ app.running \/ app.main # "idle"]

SetNoteTrack(on)         == app' = [app EXCEPT !.note_track = on]
SetDivision(prescaler)   == app' = [app EXCEPT !.prescaler = prescaler]
SetNumSteps(num_steps)   == app' = [app EXCEPT !.num_steps = num_steps]

\* running_, from the encoder, on a page of its own: a place of the main loop, and
\* what it makes of the state on its way to the next.
At(place, s, next) == app.main = place /\ app' = [s EXCEPT !.main = next]

StopBegins ==
    /\ ~app.editing
    /\ IF app.running THEN At("idle", FlushQueue(app), "flushed") ELSE At("idle", app, "stopped")

StopSilences == At("flushed", AllNotesOff(app), "silenced")
StopEnds     == At("silenced", Reset(Halted(Sent(app, FALSE))), "stopped")

StartBegins ==
    /\ ~app.editing
    /\ IF app.running THEN At("idle", app, "kept") ELSE At("idle", Sent(app, TRUE), "starting")

StartArms == At("starting", Armed(app), "started")

\* The value is written once more by SetParameter itself.
StartEnds    == At("started", [app EXCEPT !.step = 0, !.running = TRUE], "idle")
WriteRunning ==
    \/ At("kept", [app EXCEPT !.running = TRUE], "idle")
    \/ At("stopped", Halted(app), "idle")

\* The user enters or leaves the editing of a step.
Edit(edit) ==
    /\ ~app.editing /\ app.main = "idle"
    /\ app' = [app EXCEPT !.editing = TRUE, !.edit = edit]

EditingEnds ==
    /\ app.editing /\ app.main = "idle"
    /\ app' = [app EXCEPT !.editing = FALSE, !.edit = 0]

Next ==
    \/ \E note \in Note, soft \in BOOLEAN : Record(note, soft)
    \/ \E note \in Note : KeyDown(note) \/ KeyUp(note)
    \/ \E mode \in Modes : Clock(mode)
    \/ StartMessage
    \/ StopMessage
    \/ ContinueMessage
    \/ \E on \in BOOLEAN : SetRunning(on) \/ SetNoteTrack(on)
    \/ \E mode \in Modes : SetMode(mode)
    \/ \E prescaler \in Prescalers : SetDivision(prescaler)
    \/ \E num_steps \in 1 .. kNumSteps : SetNumSteps(num_steps)
    \/ StopBegins
    \/ StopSilences
    \/ StopEnds
    \/ StartBegins
    \/ StartArms
    \/ StartEnds
    \/ WriteRunning
    \/ \E edit \in Step : Edit(edit)
    \/ EditingEnds

-----------------------------------------------------------------------------

TypeOK == app \in Members

\* Whatever the durations, and however keys transpose, record, start and stop
\* the sequence, every note that sounds has its note off in the queue or was
\* forwarded for a key that is down, and none is left when the sequence has
\* stopped: unless the queue was full when the note off was due to be scheduled.
\* Two kinds of note hang until their next note off: one forwarded for a key that
\* is released while the sequence runs, and one played by a clock in the middle of
\* a stop.
SoundingIsOwed ==
    ~app.dropped => app.sounding \subseteq Owed(app) \cup app.thru \cup app.hung

\* On the internal clock, when the main loop is not in the middle of a start or a
\* stop, the instruments were told what the sequencer does: unless clk_mode_ was
\* changed on the way, or an interrupt started or stopped it in the middle.
TransportAgrees ==
    app.mode = "INTERNAL" /\ app.main = "idle" /\ ~app.switched /\ ~app.raced =>
      (app.told <=> app.running)
=============================================================================
