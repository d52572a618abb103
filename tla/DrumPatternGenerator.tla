------------------------ MODULE DrumPatternGenerator ------------------------
(***************************************************************************)
(* The drum pattern generator (midipal/apps/drum_pattern_generator.cc):    *)
(* keys choose a pattern for each part, a drum is struck at the sixth tick *)
(* and released at the third one after it, and on the internal clock the   *)
(* generator stops itself when it has had nothing to play for a bar.       *)
(*                                                                         *)
(* The application asks for the internal clock in TIMER1, whose tick may   *)
(* come in the middle of a key or of a stop: where it makes a difference,  *)
(* the interrupted handler is an action of its own.  The external clock    *)
(* stands for the note clock too.  Which pattern a key selects is          *)
(* abstracted: a key leaves any set of parts unmuted, an unmuted part may  *)
(* strike or not at each step, and a muted one does not: the first pattern *)
(* of each part in lut_res_drum_patterns is empty.                         *)
(***************************************************************************)
EXTENDS Integers

CONSTANTS
    Part,               \* the drum parts: 4
    Instrument,         \* notes of the pages of part_instrument_
    IdleTicks           \* ticks of a bar: 96

VARIABLE app

kTicksPerStep == 6
kTickOff      == 3

ClockModes   == {"INTERNAL", "EXTERNAL"}
PatternModes == {"PRESET", "EUCLIDIAN"}

\* unmuted has the parts that each mode_ plays.  sounding holds the drums that
\* play, cut those whose part was given another instrument or forgotten
\* meanwhile; told what the instruments were last sent; switched a mode_ or a
\* clk_mode_ chosen since the generator last started; raced that a tick stopped
\* it in the middle of a key.
Members ==
    [running : BOOLEAN, mode : PatternModes, clk_mode : ClockModes,
     instrument : [Part -> Instrument], tick : 0 .. kTicksPerStep - 1,
     idle_ticks : 0 .. IdleTicks, active : SUBSET Part,
     unmuted : [PatternModes -> SUBSET Part], sounding : SUBSET Instrument,
     cut : SUBSET Instrument, told : BOOLEAN, switched : BOOLEAN, raced : BOOLEAN]

\* OnInit
Init ==
    \E clk_mode \in ClockModes, mode \in PatternModes, instrument \in [Part -> Instrument] :
      app = [running |-> FALSE, mode |-> mode, clk_mode |-> clk_mode,
             instrument |-> instrument, tick |-> 0, idle_ticks |-> IdleTicks, active |-> {},
             unmuted |-> [m \in PatternModes |-> {}], sounding |-> {}, cut |-> {},
             told |-> FALSE, switched |-> FALSE, raced |-> FALSE]

-----------------------------------------------------------------------------
(* The functions of the class, on the record s.                            *)

Drums(s, parts) == { s.instrument[part] : part \in parts }
Active(s)       == Drums(s, s.active)

\* The drums whose note off the generator will send.
Owed(s) == IF s.running THEN Active(s) ELSE {}

\* AllNotesOff as far as these parts: the note off goes to the instrument that
\* the part has now.
PartsOff(s, parts) ==
    LET drums == Drums(s, s.active \cap parts)
    IN  [s EXCEPT !.sounding = @ \ drums, !.cut = @ \ drums, !.active = @ \ parts]

AllNotesOff(s) == PartsOff(s, Part)

\* TriggerNote, for the parts that strike.
Triggered(s, parts) ==
    [s EXCEPT !.sounding = @ \cup Drums(s, parts), !.active = @ \cup parts]

\* The generator stops itself.
\* A faulty variant: the bar is counted from the start.
Idled_Recounts(s) ==
    IF s.idle_ticks + 1 < IdleTicks THEN [s EXCEPT !.idle_ticks = @ + 1]
    ELSE IF s.clk_mode = "INTERNAL"
      THEN [AllNotesOff(s) EXCEPT !.running = FALSE, !.told = FALSE, !.idle_ticks = 0]
      ELSE [s EXCEPT !.idle_ticks = IdleTicks]

Idled(s) ==
    IF s.idle_ticks + 1 < IdleTicks THEN [s EXCEPT !.idle_ticks = @ + 1]
    ELSE IF s.clk_mode = "INTERNAL"
      THEN [AllNotesOff(s) EXCEPT !.running = FALSE, !.told = FALSE, !.idle_ticks = IdleTicks]
      ELSE [s EXCEPT !.idle_ticks = IdleTicks]

\* The step comes after the stop, and an unmuted part restarts the count.
Tick(s, strikes) ==
    LET idled   == Idled(s)
        unmuted == s.unmuted[s.mode]
    IN  CASE s.tick + 1 = kTicksPerStep ->
               [Triggered(idled, strikes \cap unmuted) EXCEPT
                  !.tick = 0, !.idle_ticks = IF unmuted # {} THEN 0 ELSE @]
          [] s.tick + 1 = kTickOff -> [AllNotesOff(idled) EXCEPT !.tick = @ + 1]
          [] OTHER -> [idled EXCEPT !.tick = @ + 1]

\* A key on the internal clock: it starts a generator that was idle for a bar ...
Idle(s) == s.idle_ticks >= IdleTicks

Begun(s) ==
    IF ~Idle(s) THEN s
    ELSE [s EXCEPT !.running = TRUE, !.tick = 0, !.told = TRUE, !.switched = FALSE]

\* ... and counts from there.
Keyed(s) == IF s.clk_mode = "INTERNAL" THEN [Begun(s) EXCEPT !.idle_ticks = 0] ELSE s

-----------------------------------------------------------------------------

\* OnNoteOn.  A release (OnNoteOff) changes the note stack alone.
KeyDown(unmuted) ==
    app' = [Keyed(app) EXCEPT !.unmuted[app.mode] = unmuted]

\* A tick of TIMER1 comes after the test of idle_ticks_ and before it is cleared,
\* and still finds the bar to be over.  It may pass the 0xfa that waits to be
\* sent.
KeyDownStopped(unmuted, strikes, told) ==
    LET ticked == Tick(Begun(app), strikes)
    IN  /\ app.clk_mode = "INTERNAL" /\ Begun(app).running /\ ~ticked.running
        /\ told => Idle(app)
        /\ app' = [ticked EXCEPT !.idle_ticks = 0, !.told = told, !.raced = TRUE,
                                 !.unmuted[app.mode] = unmuted]

\* OnClock
Clock(clk_mode, strikes) ==
    /\ app.clk_mode = clk_mode /\ app.running
    /\ app' = Tick(app, strikes)

\* OnStart, OnContinue, OnStop
StartMessage ==
    /\ app.clk_mode # "INTERNAL" /\ ~app.running
    /\ app' = [app EXCEPT !.running = TRUE, !.tick = 0]

ContinueMessage ==
    /\ app.clk_mode # "INTERNAL"
    /\ app' = [app EXCEPT !.running = TRUE]

\* A faulty variant: the drums are left on.
StopMessage_Keeps == app' = [app EXCEPT !.running = @ /\ app.clk_mode = "INTERNAL"]

StopMessage ==
    app' = [AllNotesOff(app) EXCEPT !.running = @ /\ app.clk_mode = "INTERNAL"]

\* A tick of TIMER1 comes between the note off of a part and the reset of its
\* active_note_: when it strikes the part, the drum is forgotten.
StopMessageTicked(part, strikes) ==
    LET earlier == PartsOff(app, { p \in Part : p <= part })
        ticked  == Tick([earlier EXCEPT !.active = @ \cup {part}], strikes)
        later   == PartsOff(ticked, { p \in Part : p > part })
    IN  /\ app.clk_mode = "INTERNAL" /\ app.running /\ part \in app.active
        /\ app' = [later EXCEPT !.active = @ \ {part},
                                !.cut = IF part \in later.active
                                        THEN @ \cup {app.instrument[part]} ELSE @]

\* SetParameter of mode_, clk_mode_ and part_instrument_.
SetMode(mode) ==
    app' = [app EXCEPT !.mode = mode, !.switched = @ \/ mode # app.mode]

SetClockMode(clk_mode) ==
    app' = [app EXCEPT !.clk_mode = clk_mode, !.switched = @ \/ clk_mode # app.clk_mode]

SetInstrument(part, instrument) ==
    app' = [app EXCEPT !.instrument[part] = instrument,
                       !.cut = IF part \in app.active THEN @ \cup {app.instrument[part]} ELSE @]

Next ==
    \/ \E unmuted \in SUBSET Part : KeyDown(unmuted)
    \/ \E unmuted, strikes \in SUBSET Part, told \in BOOLEAN :
         KeyDownStopped(unmuted, strikes, told)
    \/ \E clk_mode \in ClockModes, strikes \in SUBSET Part : Clock(clk_mode, strikes)
    \/ StartMessage
    \/ ContinueMessage
    \/ StopMessage
    \/ \E part \in Part, strikes \in SUBSET Part : StopMessageTicked(part, strikes)
    \/ \E mode \in PatternModes : SetMode(mode)
    \/ \E clk_mode \in ClockModes : SetClockMode(clk_mode)
    \/ \E part \in Part, instrument \in Instrument : SetInstrument(part, instrument)

-----------------------------------------------------------------------------

TypeOK == app \in Members

\* Every drum that plays will be released, and none plays when the generator
\* has stopped itself or was stopped: unless its part was given another
\* instrument meanwhile, or struck by a tick in the middle of a stop, or a mode_
\* or clk_mode_ chosen on the way made the generator stop and strike in the same
\* tick.
SoundingIsOwed == ~app.switched => app.sounding \subseteq Owed(app) \cup app.cut

\* On the internal clock the instruments were told what the generator does,
\* unless a tick stopped it in the middle of the key that it started for.
TransportAgrees ==
    app.clk_mode = "INTERNAL" /\ ~app.switched /\ ~app.raced => (app.told <=> app.running)

\* A generator that does not run on the internal clock can be started by a key:
\* unless a tick stopped it in the middle of a key, which then clears the count of
\* a bar that is over, so that the keys after it start nothing.
KeyCanStart ==
    app.clk_mode = "INTERNAL" /\ ~app.switched /\ ~app.raced /\ ~app.running =>
      app.idle_ticks >= IdleTicks
=============================================================================
