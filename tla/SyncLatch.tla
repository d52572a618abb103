------------------------------ MODULE SyncLatch ------------------------------
(***************************************************************************)
(* The sync latch (midipal/apps/sync_latch.cc): it passes every byte, and  *)
(* inserts the START or the STOP that the user has armed at the next       *)
(* boundary of num_beats_ beats.                                           *)
(*                                                                         *)
(* Bytes are handled by the timer interrupt.  A click is handled by the    *)
(* main loop: its two writes of counters, and its reading and writing      *)
(* of state_, are steps that interrupts may separate.                      *)
(***************************************************************************)
EXTENDS Integers

CONSTANTS
    NumBeats,           \* values of the page of num_beats_
    BeatTicks,          \* ticks of a beat: midi_clock_tick_per_step[beat_division_]
    MaxTurns            \* bound on resets and on changes of the settings

VARIABLE app

\* told is what the instruments were last sent, continued a CONTINUE that the
\* latch does not heed, raced a state_ changed between its reading and writing.
Members ==
    [num_beats : NumBeats, ticks : BeatTicks, step_counter : 0 .. 255,
     beat_counter : 0 .. 255, armed : BOOLEAN, running : BOOLEAN,
     main : {"idle", "resetting", "arming_stopped", "arming_running"},
     told : BOOLEAN, continued : BOOLEAN, raced : BOOLEAN, turns : 0 .. MaxTurns]

\* OnInit
Init ==
    \E num_beats \in NumBeats, ticks \in BeatTicks :
      app = [num_beats |-> num_beats, ticks |-> ticks, step_counter |-> 0,
             beat_counter |-> 0, armed |-> FALSE, running |-> FALSE, main |-> "idle",
             told |-> FALSE, continued |-> FALSE, raced |-> FALSE, turns |-> 0]

Arming == app.main \in {"arming_stopped", "arming_running"}

-----------------------------------------------------------------------------
(* The interrupt.                                                          *)

\* OnClock, at external clocks alone.
\* A faulty variant: the tick that ends a beat does not end the cycle.
Clock_Late ==
    LET ends == app.step_counter + 1 >= app.ticks
        step == IF ends THEN 0 ELSE app.step_counter + 1
        beat == IF app.beat_counter >= app.num_beats THEN 0
                ELSE IF ends THEN app.beat_counter + 1 ELSE app.beat_counter
        acts == app.armed /\ step = 0 /\ beat = 0
    IN  app' = [app EXCEPT !.step_counter = step, !.beat_counter = beat,
                           !.armed   = @ /\ ~acts,
                           !.running = IF acts THEN ~@ ELSE @,
                           !.told    = IF acts THEN ~app.running ELSE @,
                           !.raced   = @ \/ (acts /\ Arming)]

Clock ==
    LET ends   == app.step_counter + 1 >= app.ticks
        step   == IF ends THEN 0 ELSE app.step_counter + 1
        beats  == IF ends THEN app.beat_counter + 1 ELSE app.beat_counter
        beat   == IF beats >= app.num_beats THEN 0 ELSE beats
        acts   == app.armed /\ step = 0 /\ beat = 0
    IN  app' = [app EXCEPT !.step_counter = step, !.beat_counter = beat,
                           !.armed     = @ /\ ~acts,
                           !.running   = IF acts THEN ~@ ELSE @,
                           !.told      = IF acts THEN ~app.running ELSE @,
                           !.continued = @ /\ ~acts,
                           !.raced     = @ \/ (acts /\ Arming)]

\* 0xfa and 0xfc are passed on by OnRawByte, then handled.
Start ==
    app' = [app EXCEPT !.step_counter = 0, !.beat_counter = 0,
                       !.armed = FALSE, !.running = TRUE, !.told = TRUE,
                       !.continued = FALSE, !.raced = @ \/ Arming]

Stop ==
    app' = [app EXCEPT !.armed = FALSE, !.running = FALSE, !.told = FALSE,
                       !.continued = FALSE, !.raced = @ \/ Arming]

\* 0xfb is passed on, and has no handler.
Continue == app' = [app EXCEPT !.told = TRUE, !.continued = @ \/ ~app.running]

-----------------------------------------------------------------------------
(* The main loop.                                                          *)

\* OnClick on page 3, from one write to the other.
Reset ==
    /\ app.main = "idle" /\ app.turns < MaxTurns
    /\ app' = [app EXCEPT !.beat_counter = 0, !.main = "resetting", !.turns = @ + 1]

ResetEnds ==
    /\ app.main = "resetting"
    /\ app' = [app EXCEPT !.step_counter = 0, !.main = "idle"]

\* OnClick on page 2: state_ |= STATE_ARMED, a reading and a writing.
Arm ==
    /\ app.main = "idle"
    /\ app' = [app EXCEPT !.main = IF app.running THEN "arming_running" ELSE "arming_stopped"]

ArmEnds ==
    /\ Arming
    /\ app' = [app EXCEPT !.armed = TRUE, !.running = app.main = "arming_running",
                          !.main = "idle"]

\* The encoder on pages 0 and 1.
Set(num_beats, ticks) ==
    /\ app.main = "idle" /\ app.turns < MaxTurns
    /\ app' = [app EXCEPT !.num_beats = num_beats, !.ticks = ticks, !.turns = @ + 1]

Next ==
    \/ Clock
    \/ Start
    \/ Stop
    \/ Continue
    \/ Reset
    \/ ResetEnds
    \/ Arm
    \/ ArmEnds
    \/ \E num_beats \in NumBeats, ticks \in BeatTicks : Set(num_beats, ticks)

-----------------------------------------------------------------------------

TypeOK == app \in Members

\* The latch takes for running what the instruments were last told, with the
\* STARTs and STOPs of the input and its own in any order: unless a CONTINUE
\* was passed, or state_ changed while a click was arming it.
TransportAgrees == ~app.continued /\ ~app.raced => (app.told <=> app.running)

\* While the external clock runs, an armed latch acts, wherever the counters
\* stand when the user arms it, resets them or shortens the cycle.
LatchActs == app.armed ~> ~app.armed
=============================================================================
