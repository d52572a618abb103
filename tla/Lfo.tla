--------------------------------- MODULE Lfo ---------------------------------
(***************************************************************************)
(* The LFOs (midipal/apps/lfo.cc): phases that advance at steps of the     *)
(* clock, that the start and the keys reset, and from which a waveform is  *)
(* read; the random one takes a new value when the phase has just begun a  *)
(* cycle, and sends nothing otherwise.                                     *)
(*                                                                         *)
(* The user interface starts and stops them from the main loop, which      *)
(* clocks and messages interrupt: there Start, Stop and the write of       *)
(* SetParameter are taken line by line.  An interrupt is one step, and so  *)
(* is the reset of the phases.  The external clock stands for the note     *)
(* clock too.  The controllers that the waveforms send are left out, but   *)
(* for the step at which the random one sends.                             *)
(***************************************************************************)
EXTENDS Integers, FiniteSets

CONSTANTS
    Note,               \* the keys of the channel
    LfoIndex,           \* 0 .. kNumLfos - 1
    Prescalers,         \* midi_clock_tick_per_step of clock_division_
    Rates,              \* lut_res_increments of cycle_duration
    PhaseRange          \* 65536

VARIABLE app

ClockModes == {"INTERNAL", "EXTERNAL"}
SyncModes  == {"FREE_RUNNING", "NOTE_ON", "START"}

\* The line that the main loop is about to execute.
Places == {"idle", "stopping", "stopped", "starting", "armed", "kept"}

\* held is the note stack.  begun says of an LFO that its phase was reset or
\* has wrapped since its last step, detuned that its increment was changed since
\* that step; told what the instruments were last sent; switched a change of
\* clk_mode_ on the way; raced a start or a stop by an interrupt in the middle of
\* one by the main loop.
Members ==
    [running : BOOLEAN, clk_mode : ClockModes, prescaler : Prescalers, tick : 0 .. 255,
     rate : [LfoIndex -> Rates], sync : [LfoIndex -> SyncModes],
     phase : [LfoIndex -> 0 .. PhaseRange - 1],
     phase_increment : [LfoIndex -> 0 .. PhaseRange - 1], held : SUBSET Note,
     begun : [LfoIndex -> BOOLEAN], detuned : SUBSET LfoIndex,
     main : Places, told : BOOLEAN, switched : BOOLEAN, raced : BOOLEAN]

\* The increment per step, of a rate per tick: uint16_t.
Increment(rate, prescaler) == (rate * prescaler) % PhaseRange

\* OnInit
Init ==
    \E clk_mode \in ClockModes, prescaler \in Prescalers, rate \in [LfoIndex -> Rates],
       sync \in [LfoIndex -> SyncModes] :
      app = [running |-> FALSE, clk_mode |-> clk_mode, prescaler |-> prescaler, tick |-> 0,
             rate |-> rate, sync |-> sync, phase |-> [i \in LfoIndex |-> 0],
             phase_increment |-> [i \in LfoIndex |-> Increment(rate[i], prescaler)],
             held |-> {}, begun |-> [i \in LfoIndex |-> TRUE], detuned |-> {},
             main |-> "idle", told |-> FALSE, switched |-> FALSE, raced |-> FALSE]

-----------------------------------------------------------------------------
(* The functions of the class, on the record s.                            *)

Reset(s, lfos) ==
    [s EXCEPT !.phase   = [i \in LfoIndex |-> IF i \in lfos THEN 0 ELSE @[i]],
              !.begun   = [i \in LfoIndex |-> i \in lfos \/ @[i]],
              !.detuned = @ \ lfos]

\* 0xfa and 0xfc are sent when the clock is the internal one.
Sent(s, value) ==
    IF s.clk_mode = "INTERNAL" THEN [s EXCEPT !.told = value, !.switched = FALSE] ELSE s

\* By an interrupt, perhaps in the middle of the main loop's.
Told(s, value) == [Sent(s, value) EXCEPT !.raced = @ \/ s.main # "idle"]

Stop(s) == IF s.running THEN [Told(s, FALSE) EXCEPT !.running = FALSE] ELSE s

\* Start after its 0xfa.
Armed(s) == [s EXCEPT !.tick = s.prescaler - 1, !.running = TRUE]

Start(s) == IF s.running THEN s ELSE Reset(Armed(Told(s, TRUE)), LfoIndex)

\* The random waveform has a new value to send.
Draws(s, i) == s.phase[i] < s.phase_increment[i]

\* A step: the phases advance, and wrap in 16 bits.
\* A faulty variant: they saturate.
Advanced_Saturates(s) ==
    LET Sum(i) == s.phase[i] + s.phase_increment[i]
    IN  [s EXCEPT !.phase = [i \in LfoIndex |-> IF Sum(i) < PhaseRange THEN Sum(i) ELSE PhaseRange - 1],
                  !.begun = [i \in LfoIndex |-> Sum(i) >= PhaseRange],
                  !.detuned = {}]

Advanced(s) ==
    LET Sum(i) == s.phase[i] + s.phase_increment[i]
    IN  [s EXCEPT !.phase = [i \in LfoIndex |-> Sum(i) % PhaseRange],
                  !.begun = [i \in LfoIndex |-> Sum(i) >= PhaseRange],
                  !.detuned = {}]

Tick(s) ==
    IF s.tick + 1 < s.prescaler THEN [s EXCEPT !.tick = @ + 1]
    ELSE [Advanced(s) EXCEPT !.tick = 0]

\* SetParameter computes every increment again.
Retuned(s, rate, prescaler) ==
    LET increment == [i \in LfoIndex |-> Increment(rate[i], prescaler)]
    IN  [s EXCEPT !.rate = rate, !.prescaler = prescaler, !.phase_increment = increment,
                  !.detuned = @ \cup { i \in LfoIndex : increment[i] # s.phase_increment[i] }]

-----------------------------------------------------------------------------

\* OnNoteOn, OnNoteOff
KeyDown(note) ==
    LET synced == { i \in LfoIndex : \/ app.sync[i] = "NOTE_ON"
                                     \/ app.sync[i] = "START" /\ app.held = {} }
    IN  app' = [Reset(app, synced) EXCEPT !.held = @ \cup {note}]

KeyUp(note) == app' = [app EXCEPT !.held = @ \ {note}]

\* OnClock
Clock(clk_mode) ==
    /\ app.clk_mode = clk_mode /\ app.running
    /\ app' = Tick(app)

\* OnStart, OnStop, OnContinue
StartMessage    == app.clk_mode # "INTERNAL" /\ app' = Start(app)
StopMessage     == app.clk_mode # "INTERNAL" /\ app' = Stop(app)
ContinueMessage == app.clk_mode # "INTERNAL" /\ app' = [app EXCEPT !.running = TRUE]

\* SetParameter of running_ from the remote control, all of it in an interrupt; of
\* clk_mode_, clock_division_, cycle_duration, sync_mode.
SetRunning(on) == app' = IF on THEN Start(app) ELSE Stop(app)

SetClockMode(clk_mode) ==
    /\ clk_mode # app.clk_mode
    /\ app' = [app EXCEPT !.clk_mode = clk_mode, !.switched = @ \/ app.running \/ app.main # "idle"]

SetDivision(prescaler) == app' = Retuned(app, app.rate, prescaler)
SetRate(i, rate)       == app' = Retuned(app, [app.rate EXCEPT ![i] = rate], app.prescaler)
SetSync(i, sync)       == app' = [app EXCEPT !.sync[i] = sync]

-----------------------------------------------------------------------------
(* SetParameter of running_ from the main loop.                            *)

\* A place of the main loop, and what it makes of the state on its way to the next.
At(place, s, next) == app.main = place /\ app' = [s EXCEPT !.main = next]

StopBegins ==
    IF app.running THEN At("idle", Sent(app, FALSE), "stopping") ELSE At("idle", app, "stopped")

StopEnds == At("stopping", [app EXCEPT !.running = FALSE], "stopped")

StartBegins ==
    IF app.running THEN At("idle", app, "kept") ELSE At("idle", Sent(app, TRUE), "starting")

StartArms == At("starting", Armed(app), "armed")

\* The value is written once more by SetParameter itself.
StartEnds    == At("armed", [Reset(app, LfoIndex) EXCEPT !.running = TRUE], "idle")
WriteRunning ==
    \/ At("kept", [app EXCEPT !.running = TRUE], "idle")
    \/ At("stopped", [app EXCEPT !.running = FALSE], "idle")

Next ==
    \/ \E note \in Note : KeyDown(note) \/ KeyUp(note)
    \/ \E clk_mode \in ClockModes : Clock(clk_mode)
    \/ StartMessage
    \/ StopMessage
    \/ ContinueMessage
    \/ \E on \in BOOLEAN : SetRunning(on)
    \/ \E clk_mode \in ClockModes : SetClockMode(clk_mode)
    \/ \E prescaler \in Prescalers : SetDivision(prescaler)
    \/ \E i \in LfoIndex :
         \/ \E rate \in Rates : SetRate(i, rate)
         \/ \E sync \in SyncModes : SetSync(i, sync)
    \/ StopBegins
    \/ StopEnds
    \/ StartBegins
    \/ StartArms
    \/ StartEnds
    \/ WriteRunning

-----------------------------------------------------------------------------

TypeOK == app \in Members

\* On the internal clock, when the main loop is not in the middle of a start or a
\* stop, the instruments were told what the LFOs do: unless clk_mode_ was changed
\* on the way, or an interrupt started or stopped them in the middle.
TransportAgrees ==
    app.clk_mode = "INTERNAL" /\ app.main = "idle" /\ ~app.switched /\ ~app.raced =>
      (app.told <=> app.running)

\* The test of the random waveform finds each cycle once, the one that a key or
\* the start begins and the one in which the phase wraps: unless the increment
\* was changed since the last step or has overflowed to zero.
DrawsOncePerCycle ==
    \A i \in LfoIndex \ app.detuned :
      app.phase_increment[i] > 0 => (Draws(app, i) <=> app.begun[i])
=============================================================================
