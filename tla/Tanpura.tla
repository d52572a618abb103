------------------------------- MODULE Tanpura -------------------------------
(***************************************************************************)
(* The tanpura (midipal/apps/tanpura.cc): a drone of eight steps, whose    *)
(* note offs wait in the event scheduler, counted in steps and not in      *)
(* ticks.                                                                  *)
(*                                                                         *)
(* The user interface starts and stops it from the main loop, which clocks *)
(* and messages interrupt: there Start, Stop and the write of SetParameter *)
(* are taken line by line.  On CLOCK_MODE_NOTE, which its page offers, it  *)
(* starts at START but never ticks: it does not ask App::NoteClock about   *)
(* the keys.                                                               *)
(***************************************************************************)
EXTENDS TimedQueueOps

CONSTANTS
    Root,               \* notes that root_ takes, folded to 36 .. 84
    Prescalers,         \* midi_clock_tick_per_step of clock_division_
    Shifts,             \* values of the page of shift_
    MaxQueue            \* free slots of the event scheduler: 89

VARIABLE app

ClockModes == {"INTERNAL", "EXTERNAL", "NOTE"}

\* By pattern_: the interval of the string plucked at the sixth step.
shifts == [pattern \in 0 .. 3 |->
             CASE pattern = 0 -> -5 [] pattern = 1 -> -7 [] pattern = 2 -> -1 [] OTHER -> 0]

\* By the step of the cycle.
durations == [step \in 0 .. 7 |->
                CASE step = 0 -> 5 [] step \in {5, 6} -> 1 [] step = 7 -> 2 [] OTHER -> 0]

\* The line that the main loop is about to execute.
Places == {"idle", "flushed", "silenced", "stopped", "starting", "started", "kept"}

\* line is the event scheduler.
\* sounding holds the notes the instrument plays, hung those that a clock plucked
\* in the middle of a stop, too late for its flush; told what the instruments
\* were last sent; switched a change of clk_mode_ on the way; raced a start or a
\* stop by a message in the middle of one by the main loop.
Members ==
    [running : BOOLEAN, clk_mode : ClockModes, prescaler : Prescalers, root : Root,
     pattern : 0 .. 3, shift : Shifts, tick : 0 .. 255, step : 0 .. 7,
     line : Seq([note : 0 .. 127, velocity : {0}, wait : 0 .. 255]),
     main : Places, sounding : SUBSET (0 .. 127), hung : SUBSET (0 .. 127),
     told : BOOLEAN, switched : BOOLEAN, raced : BOOLEAN]

\* OnInit
Init ==
    \E clk_mode \in ClockModes, prescaler \in Prescalers, root \in Root, shift \in Shifts :
      app = [running |-> FALSE, clk_mode |-> clk_mode, prescaler |-> prescaler,
             root |-> root, pattern |-> 0, shift |-> shift, tick |-> 0, step |-> 0,
             line |-> <<>>, main |-> "idle", sounding |-> {}, hung |-> {},
             told |-> FALSE, switched |-> FALSE, raced |-> FALSE]

-----------------------------------------------------------------------------
(* The functions of the class, on the record s.                            *)

Waiting(s) == { s.line[i].note : i \in DOMAIN s.line }

\* The notes whose note off the tanpura will send.
Owed(s) == IF s.running THEN Waiting(s) ELSE {}

Ends(s, notes) == [s EXCEPT !.sounding = @ \ notes, !.hung = @ \ notes]

\* App::SendScheduledNotes
SendScheduledNotes(s) == [Ends(s, Ended(s.line, 255)) EXCEPT !.line = Staying(@)]

\* App::FlushQueue
FlushQueue(s) == [Ends(s, Waiting(s)) EXCEPT !.line = <<>>]

AllNotesOff(s) == [s EXCEPT !.sounding = {}, !.hung = {}]

\* running_ = 0: what was plucked after the flush waits for the next start.
Halted(s) ==
    [s EXCEPT !.running = FALSE,
              !.hung = IF s.running THEN @ \cup (s.sounding \cap Waiting(s)) ELSE @]

\* 0xfa and 0xfc are sent when the clock is the internal one.
Told(s, value) ==
    IF s.clk_mode = "INTERNAL" THEN [s EXCEPT !.told = value, !.switched = FALSE] ELSE s

\* A faulty variant: STOP is not sent.
Stop_Silent(s) ==
    IF ~s.running THEN s ELSE Halted(AllNotesOff(FlushQueue(s)))

Stop(s) ==
    IF ~s.running THEN s ELSE Halted(Told(AllNotesOff(FlushQueue(s)), FALSE))

\* Start after its 0xfa.
Armed(s) == [s EXCEPT !.tick = s.prescaler - 1, !.running = TRUE]

Start(s) == IF s.running THEN s ELSE [Armed(Told(s, TRUE)) EXCEPT !.step = 0]

\* The string of a step: the octave below, the interval of the pattern, the root.
Plucked(s, step) ==
    CASE step = 0 -> {s.root - 12}
      [] step = 5 /\ shifts[s.pattern] # 0 -> {s.root + shifts[s.pattern]}
      [] step >= 6 -> {s.root}
      [] OTHER -> {}

Pluck(s) ==
    LET step  == (s.step + s.shift) % 8
        notes == Plucked(s, step)
        full  == Len(s.line) >= MaxQueue
        Off(note) == Event(note, 0, durations[step] - 1)
    IN  [s EXCEPT !.sounding = @ \cup notes,
                  !.line = IF notes = {} \/ full THEN @
                           ELSE Inserted(@, Off(CHOOSE note \in notes : TRUE)),
                  !.step = (@ + 1) % 8]

Tick(s) ==
    IF s.tick + 1 < s.prescaler THEN [s EXCEPT !.tick = @ + 1]
    ELSE [Pluck(SendScheduledNotes(s)) EXCEPT !.tick = 0]

-----------------------------------------------------------------------------

\* OnNoteOn while the page of the root is edited; or that page itself.
SetRoot(root) == app' = [app EXCEPT !.root = root]

\* OnClock.  Nothing ticks on CLOCK_MODE_NOTE.
Clock(clk_mode) ==
    /\ app.clk_mode = clk_mode /\ app.running
    /\ app' = Tick(app)

\* OnStart, OnStop, OnContinue
StartMessage    == app.clk_mode # "INTERNAL" /\ app' = Start(app)
StopMessage     == app.clk_mode # "INTERNAL" /\ app' = Stop(app)
ContinueMessage == app.clk_mode # "INTERNAL" /\ app' = [app EXCEPT !.running = TRUE]

\* SetParameter of running_ from the remote control, all of it in an interrupt.
SetRunning(on) ==
    LET s == IF on THEN Start(app) ELSE Stop(app)
    IN  app' = [s EXCEPT !.raced = @ \/ app.main # "idle"]

\* SetParameter of clk_mode_, clock_division_, pattern_ and shift_.
SetClockMode(clk_mode) ==
    /\ clk_mode # app.clk_mode
    /\ app' = [app EXCEPT !.clk_mode = clk_mode, !.switched = @ \/ app.running \/ app.main # "idle"]

SetDivision(prescaler) == app' = [app EXCEPT !.prescaler = prescaler]
SetPattern(pattern)    == app' = [app EXCEPT !.pattern = pattern]
SetShift(shift)        == app' = [app EXCEPT !.shift = shift]

-----------------------------------------------------------------------------
(* SetParameter of running_ from the main loop.                            *)

\* A place of the main loop, and what it makes of the state on its way to the next.
At(place, s, next) == app.main = place /\ app' = [s EXCEPT !.main = next]

StopBegins ==
    IF app.running THEN At("idle", FlushQueue(app), "flushed") ELSE At("idle", app, "stopped")

StopSilences == At("flushed", AllNotesOff(app), "silenced")
StopEnds     == At("silenced", Halted(Told(app, FALSE)), "stopped")

StartBegins ==
    IF app.running THEN At("idle", app, "kept") ELSE At("idle", Told(app, TRUE), "starting")

StartArms == At("starting", Armed(app), "started")

\* The value is written once more by SetParameter itself.
StartEnds    == At("started", [app EXCEPT !.step = 0, !.running = TRUE], "idle")
WriteRunning ==
    \/ At("kept", [app EXCEPT !.running = TRUE], "idle")
    \/ At("stopped", Halted(app), "idle")

Next ==
    \/ \E root \in Root : SetRoot(root)
    \/ \E clk_mode \in {"INTERNAL", "EXTERNAL"} : Clock(clk_mode)
    \/ StartMessage
    \/ StopMessage
    \/ ContinueMessage
    \/ \E on \in BOOLEAN : SetRunning(on)
    \/ \E clk_mode \in ClockModes : SetClockMode(clk_mode)
    \/ \E prescaler \in Prescalers : SetDivision(prescaler)
    \/ \E pattern \in DOMAIN shifts : SetPattern(pattern)
    \/ \E shift \in Shifts : SetShift(shift)
    \/ StopBegins
    \/ StopSilences
    \/ StopEnds
    \/ StartBegins
    \/ StartArms
    \/ StartEnds
    \/ WriteRunning

-----------------------------------------------------------------------------

TypeOK == app \in Members

\* Whatever the root, the pattern and the shift become, every note that sounds
\* has its note off in the queue, which is never full when a string is plucked,
\* and none is left when the drone has stopped: but the notes plucked by a clock
\* between the All Notes Off of a stop and the line that clears running_, which
\* hang until the next start.
SoundingIsOwed == app.sounding \subseteq Owed(app) \cup app.hung

\* On the internal clock, when the main loop is not in the middle of a start or a
\* stop, the instruments were told what the tanpura does: unless clk_mode_ was
\* changed on the way or the remote control ran into the main loop.
TransportAgrees ==
    app.clk_mode = "INTERNAL" /\ app.main = "idle" /\ ~app.switched /\ ~app.raced =>
      (app.told <=> app.running)
=============================================================================
