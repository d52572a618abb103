----------------------------- MODULE ShSequencer -----------------------------
(***************************************************************************)
(* The monophonic SH-style sequencer (midipal/apps/sh_sequencer.cc): steps *)
(* recorded from the keyboard and from a menu, played with slides.         *)
(*                                                                         *)
(* Messages and the external clock are handled in TIMER2, keys as well;    *)
(* the internal clock in TIMER1, which interrupts all else; the user       *)
(* interface starts, stops and records from the main loop, which both      *)
(* interrupt. There Start, Stop and the statements of SetParameter are     *)
(* taken line by line, and so is SaveAndAdvanceStep, whose EEPROM writes   *)
(* let other interrupts in for milliseconds even when a key is recorded.   *)
(* The rest of a handler is one step, apart from the Start of a key or a   *)
(* message, which a tick of TIMER1 may interrupt.                          *)
(*                                                                         *)
(* The external clock stands for the note clock too: the class asks only   *)
(* whether clk_mode_ is CLOCK_MODE_INTERNAL. Accents set a velocity that   *)
(* no property looks at, and are left out.                                 *)
(***************************************************************************)
EXTENDS Integers, Sequences

CONSTANTS
    Note,                       \* the keys of the channel
    kShSequencerNumSteps,       \* 100
    Prescalers,                 \* midi_clock_tick_per_step of the division
    MaxRecorders                \* a bound: steps that are being recorded at a time

VARIABLE app

kNone == 255                    \* in pending_note_: nothing; in a cell: a rest
kTie  == 254

Modes == {"INTERNAL", "EXTERNAL"}
Step  == 0 .. kShSequencerNumSteps - 1
Cell  == Note \cup {60, kNone, kTie}

\* The line that the main loop is about to execute, of Stop, Start or SetParameter.
Places == {"idle", "stopping", "ended", "stopped", "starting", "armed", "reset", "kept",
           "erasing"}

\* A step that is being recorded: a note by OnNoteOn, a rest or a tie by OnClick;
\* the line of SaveAndAdvanceStep; whether OnNoteOn will forward the note.
Recorder == [cell : Note \cup {kNone, kTie}, at : {"written", "counted"}, forwards : BOOLEAN]

\* recorders are the steps that are being recorded, the one that runs first.
\* sounding holds the notes the instrument plays, thru those forwarded for a key
\* that is down, hung those left on: of a key released while the sequencer runs, or
\* played in the middle of a start or a stop, which forget them.  told is what the
\* instruments were last sent; switched a change of clk_mode_ on the way; raced a
\* start or a stop by an interrupt in the middle of one by the main loop; nested a
\* step recorded, or recording begun, in the middle of a recording.
Members ==
    [running : BOOLEAN, recording : BOOLEAN, mode : Modes, prescaler : Prescalers,
     num_steps : 0 .. 255, data : [Step -> Cell], slide : [Step -> BOOLEAN],
     tick : 0 .. 255, step : Step, root : Note \cup {0, 60}, last : Note \cup {0, 60},
     pending : 0 .. 127 \cup {kNone}, main : Places, recorders : Seq(Recorder),
     sounding : SUBSET (0 .. 127), thru : SUBSET Note, hung : SUBSET (0 .. 127),
     told : BOOLEAN, switched : BOOLEAN, raced : BOOLEAN, nested : BOOLEAN]

\* OnInit.  The notes and the slides are those of the EEPROM.
Init ==
    \E mode \in Modes, prescaler \in Prescalers, note \in Note, slid \in BOOLEAN :
      app = [running |-> FALSE, recording |-> FALSE, mode |-> mode,
             prescaler |-> prescaler, num_steps |-> kShSequencerNumSteps,
             data |-> [i \in Step |-> IF i = 0 THEN 60 ELSE note],
             slide |-> [i \in Step |-> slid],
             tick |-> 0, step |-> 0, root |-> 0, last |-> 0, pending |-> 0, main |-> "idle",
             recorders |-> <<>>, sounding |-> {}, thru |-> {}, hung |-> {},
             told |-> FALSE, switched |-> FALSE, raced |-> FALSE, nested |-> FALSE]

-----------------------------------------------------------------------------
(* The functions of the class, on the record s.                            *)

Pending(s) == IF s.pending = kNone THEN {} ELSE {s.pending}

\* The notes whose note off the sequencer will send.
Owed(s) == IF s.running \/ s.main = "stopping" THEN Pending(s) ELSE {}

Ends(s, notes) == [s EXCEPT !.sounding = @ \ notes, !.hung = @ \ notes]

\* pending_note_ = 0xff: a note that still sounds is forgotten.
Forgotten(s) ==
    [s EXCEPT !.pending = kNone, !.hung = @ \cup (Pending(s) \cap s.sounding)]

\* running_ = 0 by SetParameter, after the stop.
Halted(s) ==
    [s EXCEPT !.running = FALSE,
              !.hung = IF s.running THEN @ \cup (Pending(s) \cap s.sounding) ELSE @]

Clipped(n) == IF n < 0 THEN 0 ELSE IF n > 127 THEN 127 ELSE n

Advanced(s) == [s EXCEPT !.step = IF @ + 1 >= s.num_steps THEN 0 ELSE @ + 1]

\* A rest ends the note, a tie holds it, and a note replaces it: before it
\* sounds, or after it when it slides.
Rest(s) == [Advanced(Ends(s, Pending(s))) EXCEPT !.pending = kNone]

\* A faulty variant: the note that slides is not ended.
Play_Slide(s) ==
    LET note  == Clipped(s.data[s.step] + s.last - s.root)
        ended == IF s.slide[s.step] THEN s ELSE Ends(s, Pending(s))
    IN  [Advanced(ended) EXCEPT !.sounding = @ \cup {note}, !.pending = note]

Play(s) ==
    LET note  == Clipped(s.data[s.step] + s.last - s.root)
        On(t) == [t EXCEPT !.sounding = @ \cup {note}]
        changed == IF s.slide[s.step] THEN Ends(On(s), Pending(s)) ELSE On(Ends(s, Pending(s)))
    IN  [Advanced(changed) EXCEPT !.pending = note]

Tick(s) ==
    IF s.tick + 1 < s.prescaler THEN [s EXCEPT !.tick = @ + 1]
    ELSE LET t == [s EXCEPT !.tick = 0]
         IN  CASE s.data[s.step] = kNone -> Rest(t)
               [] s.data[s.step] = kTie  -> Advanced(t)
               [] OTHER                  -> Play(t)

\* 0xfa and 0xfc are sent when the clock is the internal one.
Sent(s, value) ==
    IF s.mode = "INTERNAL" THEN [s EXCEPT !.told = value, !.switched = FALSE] ELSE s

\* By an interrupt, perhaps in the middle of the main loop's.
Told(s, value) ==
    [Sent(s, value) EXCEPT !.raced = @ \/ s.main # "idle"]

Stop(s) ==
    IF ~s.running THEN s
    ELSE [Told(Ends(s, Pending(s)), FALSE) EXCEPT !.running = FALSE, !.pending = kNone]

\* Start after its 0xfa, up to the line that sets running_.
Armed(s) ==
    [s EXCEPT !.tick = s.prescaler - 1, !.root = 60, !.last = 60, !.running = TRUE]

\* What Start makes of s: a tick of TIMER1 may come before step_ is reset, or
\* before pending_note_ is.
Started(s) ==
    LET armed == Armed(Told(s, TRUE))
        Reset(t) == [t EXCEPT !.step = 0]
    IN  IF s.running THEN {s}
        ELSE {Forgotten(Reset(armed))} \cup
             IF s.mode = "EXTERNAL" THEN {}
             ELSE {Forgotten(Reset(Tick(armed))), Forgotten(Tick(Reset(armed)))}

-----------------------------------------------------------------------------
(* Recording a step, by a key or by a click.                               *)

\* The cell is written, and SaveAndAdvanceStep begins.
Write(cell, forwards) ==
    /\ Len(app.recorders) < MaxRecorders
    /\ app' = [app EXCEPT
                 !.data[app.num_steps] = cell,
                 !.recorders =
                   <<[cell |-> cell, at |-> "written", forwards |-> forwards]>> \o @,
                 !.thru   = IF forwards THEN @ \cup {cell} ELSE @,
                 !.nested = @ \/ app.recorders # <<>> \/ app.main = "erasing"]

\* ++num_steps_
Count ==
    /\ app.recorders # <<>> /\ Head(app.recorders).at = "written"
    /\ app' = [app EXCEPT !.num_steps = (@ + 1) % 256, !.recorders[1].at = "counted"]

\* The test for the last step.
\* A faulty variant: the sequence is full one step too late.
Tested_Late(s) == [s EXCEPT !.recording = @ /\ s.num_steps <= kShSequencerNumSteps]

Tested(s) == [s EXCEPT !.recording = @ /\ s.num_steps # kShSequencerNumSteps]

\* The rest of OnNoteOn: a note is forwarded when the sequencer did not run, even
\* if its key has been released meanwhile.
Heard(s, recorder) ==
    LET note == recorder.cell
        f == IF recorder.forwards
               THEN [s EXCEPT !.sounding = @ \cup {note}, !.hung = @ \cup ({note} \ s.thru)]
               ELSE s
    IN  IF f.running /\ ~f.recording THEN [f EXCEPT !.last = note] ELSE f

RecordingEnds ==
    LET recorder == Head(app.recorders)
        tested   == [Tested(app) EXCEPT !.recorders = Tail(@)]
    IN  /\ app.recorders # <<>> /\ recorder.at = "counted"
        /\ app' = IF recorder.cell \in Note THEN Heard(tested, recorder) ELSE tested

-----------------------------------------------------------------------------
(* The interrupts.                                                         *)

\* OnNoteOn: it records, stops, starts, or is forwarded.
KeyDown(note) ==
    \/ /\ app.recording
       /\ Write(note, ~app.running)
    \/ /\ ~app.recording /\ app.running
       /\ app' = IF app.mode = "INTERNAL" /\ note = app.last THEN Stop(app)
                 ELSE [app EXCEPT !.last = note]
    \/ /\ ~app.recording /\ ~app.running /\ app.mode = "INTERNAL"
       /\ \E s \in Started(app) : app' = [s EXCEPT !.root = note, !.last = note]
    \/ /\ ~app.recording /\ ~app.running /\ app.mode = "EXTERNAL"
       /\ app' = [app EXCEPT !.sounding = @ \cup {note}, !.thru = @ \cup {note}]

\* OnNoteOff.  Nothing is sent while the sequencer runs, not even for a key that
\* was forwarded before it started.
KeyUp(note) ==
    app' = IF app.running
             THEN [app EXCEPT !.hung = @ \cup (app.sounding \cap app.thru \cap {note}),
                              !.thru = @ \ {note}]
             ELSE [Ends(app, {note}) EXCEPT !.thru = @ \ {note}]

\* OnPitchBend, bent by more than 2048.
Bend ==
    /\ app.recording
    /\ app' = [app EXCEPT !.slide[app.num_steps] = TRUE]

\* OnClock
Clock(mode) ==
    /\ app.mode = mode /\ app.running
    /\ app' = Tick(app)

\* OnStart, OnStop, OnContinue
StartMessage    == app.mode # "INTERNAL" /\ app' \in Started(app)
StopMessage     == app.mode # "INTERNAL" /\ app' = Stop(app)
ContinueMessage == app' \in Started(app)

\* SetParameter from the remote control: of running_, recording_ ...
SetRunning(on) == IF on THEN app' \in Started(app) ELSE app' = Stop(app)

Erased(s) == [s EXCEPT !.data = [i \in Step |-> 60], !.slide = [i \in Step |-> FALSE]]

SetRecording(on) ==
    app' = [Erased(Stop(app)) EXCEPT !.num_steps = 0, !.recording = on,
                                     !.nested = @ \/ app.recorders # <<>>]

\* ... clk_mode_ and clock_division_, or from the encoder too.
SetMode(mode) ==
    /\ mode # app.mode
    /\ app' = [app EXCEPT !.mode = mode, !.switched = @ \/ app.running \/ app.main # "idle"]

SetDivision(prescaler) == app' = [app EXCEPT !.prescaler = prescaler]

-----------------------------------------------------------------------------
(* The main loop: SetParameter of running_ and recording_, OnClick with the *)
(* menu that OnIncrement turns, and OnSwitch.  It waits for the handlers.   *)

\* A place of the main loop, and what it makes of the state on its way to the next.
At(place, s, next) ==
    app.main = place /\ app.recorders = <<>> /\ app' = [s EXCEPT !.main = next]

\* Stop, of either parameter: running_ = 0, the note off, pending_note_ = 0xff.
StopBegins ==
    IF app.running THEN At("idle", [app EXCEPT !.running = FALSE], "stopping")
    ELSE At("idle", app, "stopped")

StopEndsNote == At("stopping", Ends(app, Pending(app)), "ended")
StopSends    == At("ended", Sent(Forgotten(app), FALSE), "stopped")

StartBegins ==
    IF app.running THEN At("idle", app, "kept") ELSE At("idle", Sent(app, TRUE), "starting")

StartArms   == At("starting", Armed(app), "armed")
StartResets == At("armed", [app EXCEPT !.step = 0], "reset")

\* SetParameter writes the value once more, OnSwitch does not.
StartEnds ==
    \E running \in {TRUE, app.running} :
      At("reset", [Forgotten(app) EXCEPT !.running = running], "idle")

WriteRunning ==
    \/ At("kept", [app EXCEPT !.running = TRUE], "idle")
    \/ At("stopped", Halted(app), "idle")

\* The memory is erased and recording_ set; then num_steps_ is cleared and the
\* value written.
Erase == At("stopped", [Erased(app) EXCEPT !.recording = TRUE], "erasing")

WriteRecording(on) ==
    At("erasing", [app EXCEPT !.num_steps = 0, !.recording = on], "idle")

\* OnClick
Click(cell) ==
    /\ app.main = "idle" /\ app.recorders = <<>> /\ app.recording
    /\ Write(cell, FALSE)

ClickEnds ==
    /\ app.recording
    /\ At("idle", [app EXCEPT !.recording = FALSE], "idle")

\* OnSwitch: the first three buttons are those items, the last ones also start.
SwitchPlays ==
    LET s == [app EXCEPT !.recording = FALSE]
    IN  /\ app.recording
        /\ IF app.running THEN At("idle", s, "idle") ELSE At("idle", Sent(s, TRUE), "starting")

Next ==
    \/ \E note \in Note : KeyDown(note) \/ KeyUp(note)
    \/ Bend
    \/ \E mode \in Modes : Clock(mode)
    \/ StartMessage
    \/ StopMessage
    \/ ContinueMessage
    \/ \E on \in BOOLEAN : SetRunning(on) \/ SetRecording(on)
    \/ \E mode \in Modes : SetMode(mode)
    \/ \E prescaler \in Prescalers : SetDivision(prescaler)
    \/ StopBegins
    \/ StopEndsNote
    \/ StopSends
    \/ StartBegins
    \/ StartArms
    \/ StartResets
    \/ StartEnds
    \/ WriteRunning
    \/ Erase
    \/ \E on \in BOOLEAN : WriteRecording(on)
    \/ \E cell \in {kNone, kTie} : Click(cell)
    \/ Count
    \/ RecordingEnds
    \/ ClickEnds
    \/ SwitchPlays

-----------------------------------------------------------------------------

TypeOK == app \in Members

\* Whatever is recorded, tied, slid, transposed, started or stopped, every note
\* that sounds is the one the sequencer remembers to end, or one that it forwarded
\* for a key that is down.  Two kinds of note hang until their next note off: one
\* whose key is released while the sequencer runs or records it, and one played in
\* the middle of a start or a stop, which then clear pending_note_.
SoundingIsOwed == app.sounding \subseteq Owed(app) \cup app.thru \cup app.hung

\* On the internal clock, when the main loop is not in the middle of a start or a
\* stop, the instruments were told what the sequencer does: unless clk_mode_ was
\* changed on the way, or an interrupt started or stopped it in the middle.
TransportAgrees ==
    app.mode = "INTERNAL" /\ app.main = "idle" /\ ~app.switched /\ ~app.raced =>
      (app.told <=> app.running)

\* The count of steps stays in the arrays, and what records has a step left, or is
\* about to count or to erase it: unless a key was recorded in the middle of the
\* recording of a step, or between the lines that set recording_ and clear
\* num_steps_.
RecordsInBounds ==
    ~app.nested =>
      /\ app.num_steps <= kShSequencerNumSteps
      /\ app.recording /\ app.recorders = <<>> /\ app.main # "erasing" =>
           app.num_steps < kShSequencerNumSteps
=============================================================================
