----------------------------- MODULE ClockSource -----------------------------
(***************************************************************************)
(* The clock sources (midipal/apps/clock_source.cc, clock_source_hd.cc and *)
(* clock_source_live.cc): START, STOP and clocks of its own at a tempo     *)
(* that the encoder sets, in tenths for the HD one; the live one follows   *)
(* the clock of the input over a loop and takes ratios from the keys.      *)
(*                                                                         *)
(* The user interface starts and stops them from the main loop, which      *)
(* messages interrupt: there Start, Stop and the write of SetParameter are *)
(* taken line by line.  An interrupt is one step.  The real-time bytes of  *)
(* the input are not passed (OnRawByte), the other bytes are no part of    *)
(* the state.  A measured tempo is any that Clip lets through: that of a   *)
(* loop is held between 10 and 255, the others between 40 and 240.         *)
(***************************************************************************)
EXTENDS Integers

CONSTANTS
    Variant,            \* the classes: "STANDARD", "HD", "LIVE"
    Tempos,             \* values of the page of bpm_, from 40 to 240
    LoopTempos,         \* values that a loop gives it, from 10 to 255
    LoopTicks           \* clocks of the loop that the live one measures: 192

VARIABLE app

\* The line that the main loop is about to execute.
Places == {"idle", "stopping", "stopped", "starting", "kept"}

\* clock_running is the flag of the clock, multiplier and divider the ratio of
\* the live one.  told is what the instruments were last sent, restarted that
\* the live one sent them a START by a key; raced a start or a stop by an interrupt
\* in the middle of one by the main loop; since counts the clocks of the input
\* from the last reset of the clock, modulo the loop, and shifted says that a tap
\* or a START reset the clock and not the count, or the other way round.
Members ==
    [variant : Variant, running : BOOLEAN, bpm : 0 .. 255, tenth : 0 .. 255,
     send_start : BOOLEAN, num_taps : {0, 1}, num_ticks : 0 .. 255, clock_running : BOOLEAN,
     main : Places, told : BOOLEAN, restarted : BOOLEAN, raced : BOOLEAN,
     since : 0 .. LoopTicks - 1, shifted : BOOLEAN]

\* OnInit
Init ==
    \E variant \in Variant, bpm \in Tempos, send_start \in BOOLEAN :
      app = [variant |-> variant, running |-> FALSE, bpm |-> bpm, tenth |-> 0,
             send_start |-> variant = "LIVE" /\ send_start, num_taps |-> 0, num_ticks |-> 0,
             clock_running |-> FALSE, main |-> "idle", told |-> FALSE, restarted |-> FALSE,
             raced |-> FALSE, since |-> 0, shifted |-> FALSE]

-----------------------------------------------------------------------------
(* The functions of the classes, on the record s.                          *)

\* Clock::Reset, from which a tempo is measured.
Reset(s) == [s EXCEPT !.since = 0, !.shifted = s.num_ticks # 0]

\* The clock and the instruments start or stop, and then running_ is written.
Starting(s) == [Reset(s) EXCEPT !.clock_running = TRUE, !.told = TRUE]

Stopping(s) == [s EXCEPT !.clock_running = FALSE, !.told = FALSE, !.restarted = FALSE]

\* By an interrupt, perhaps in the middle of the main loop's.
Raced(s) == s.raced \/ s.main # "idle"

Start(s) ==
    IF s.running THEN s ELSE [Starting(s) EXCEPT !.running = TRUE, !.raced = Raced(s)]

\* A faulty variant: the clock goes on.
Stop_ClockRuns(s) ==
    IF ~s.running THEN s
    ELSE [s EXCEPT !.told = FALSE, !.restarted = FALSE, !.running = FALSE, !.raced = Raced(s)]

Stop(s) ==
    IF ~s.running THEN s ELSE [Stopping(s) EXCEPT !.running = FALSE, !.raced = Raced(s)]

\* The HD one turns tenths, and holds them between 40.0 and 240.0.
\* A faulty variant: the tenths above 240 stay.
Turned_NoTop(s, increment) ==
    LET tempo == 10 * s.bpm + s.tenth + increment
    IN  [s EXCEPT !.bpm   = IF tempo < 400 THEN 40 ELSE tempo \div 10,
                  !.tenth = IF tempo < 400 THEN 0 ELSE tempo % 10]

Turned(s, increment) ==
    LET tempo == 10 * s.bpm + s.tenth + increment
        held  == IF tempo < 400 THEN 400 ELSE IF tempo \div 10 = 240 THEN 2400 ELSE tempo
    IN  [s EXCEPT !.bpm = held \div 10, !.tenth = held % 10]

-----------------------------------------------------------------------------

\* OnStart and OnContinue: both start.  The live one sees 0xfa also as a raw byte.
StartMessage ==
    LET s == Start(app)
    IN  app' = IF s.variant = "LIVE"
                 THEN [s EXCEPT !.num_ticks = 0, !.shifted = s.since # 0] ELSE s

ContinueMessage == app' = Start(app)

StopMessage == app' = Stop(app)

\* SetParameter of running_, here by the remote control, and of bpm_: by the encoder, whose OnIncrement ends
\* the taps, or by the remote control, whose scaling ends below the last value
\* of the page, 240.  The HD one sees only the latter.
SetRunning(on) == app' = IF on THEN Start(app) ELSE Stop(app)

SetTempo(bpm, turned) ==
    /\ turned => app.variant # "HD"
    /\ turned \/ bpm < 240
    /\ app' = [app EXCEPT !.bpm = bpm, !.num_taps = IF turned THEN 0 ELSE @]

\* OnIncrement of the HD one, on the page of the tempo.
Turn(increment) ==
    /\ app.variant = "HD"
    /\ app' = [Turned(app, increment) EXCEPT !.num_taps = 0]

\* RemoteControl reaches the tenth of the HD one, which has no page: the
\* range of an undeclared page is that of 0 alone.
ClearTenth ==
    /\ app.variant = "HD"
    /\ app' = [app EXCEPT !.tenth = 0]

\* OnClick on the page of the taps: the tempo from the second on, if it is
\* not too long after the first.
Tap(bpm, in_time) ==
    /\ app.variant # "HD"
    /\ app' = [Reset(app) EXCEPT !.bpm = IF app.num_taps > 0 /\ in_time THEN bpm ELSE @,
                                 !.num_taps = 1]

\* OnRawByte of the live one: the tempo of the loop.
ClockByte(bpm) ==
    LET loops == app.num_ticks + 1 = LoopTicks
    IN  /\ app.variant = "LIVE"
        /\ app' = [app EXCEPT !.num_ticks = IF loops THEN 0 ELSE @ + 1,
                              !.since     = IF loops THEN 0 ELSE (@ + 1) % LoopTicks,
                              !.shifted   = @ /\ ~loops,
                              !.bpm       = IF loops THEN bpm ELSE @]

\* OnNoteOn of the live one: a key of a ratio, which may send a START.
RatioKey ==
    /\ app.variant = "LIVE"
    /\ app' = [app EXCEPT !.told = @ \/ app.send_start,
                          !.restarted = @ \/ (app.send_start /\ ~(app.running /\ app.main = "idle"))]

-----------------------------------------------------------------------------
(* SetParameter of running_ from the main loop.                            *)

\* A place of the main loop, and what it makes of the state on its way to the next.
At(place, s, next) == app.main = place /\ app' = [s EXCEPT !.main = next]

StopBegins ==
    IF app.running THEN At("idle", Stopping(app), "stopping") ELSE At("idle", app, "stopped")

StartBegins ==
    IF app.running THEN At("idle", app, "kept") ELSE At("idle", Starting(app), "starting")

StopEnds  == At("stopping", [app EXCEPT !.running = FALSE], "stopped")
StartEnds == At("starting", [app EXCEPT !.running = TRUE], "kept")

\* The value is written once more by SetParameter itself.
WriteRunning ==
    \/ At("kept", [app EXCEPT !.running = TRUE], "idle")
    \/ At("stopped", [app EXCEPT !.running = FALSE], "idle")

Next ==
    \/ StartMessage
    \/ ContinueMessage
    \/ StopMessage
    \/ \E on \in BOOLEAN : SetRunning(on)
    \/ \E bpm \in Tempos, turned \in BOOLEAN : SetTempo(bpm, turned)
    \/ \E increment \in {-1, 1} : Turn(increment)
    \/ ClearTenth
    \/ \E bpm \in Tempos, in_time \in BOOLEAN : Tap(bpm, in_time)
    \/ \E bpm \in LoopTempos : ClockByte(bpm)
    \/ RatioKey
    \/ StopBegins
    \/ StartBegins
    \/ StopEnds
    \/ StartEnds
    \/ WriteRunning

-----------------------------------------------------------------------------

TypeOK == app \in Members

\* When the main loop is not in the middle of a start or a stop, the instruments
\* are told to run when clocks are sent to them and at no other time: unless the
\* live one sent them a START by a key while it was stopped, or an interrupt
\* started or stopped it in the middle.
TransportAgrees ==
    app.main = "idle" /\ ~app.raced =>
      /\ app.clock_running <=> app.running
      /\ ~app.restarted => (app.told <=> app.running)

\* The tempo the clock divides by stays between 40.0 and 240.0, however the
\* encoder is turned, and that of a loop between 10 and 255.
TempoInRange ==
    10 * app.bpm + app.tenth \in IF app.variant = "LIVE" THEN 100 .. 2550 ELSE 400 .. 2400

\* The loop of the live one is measured over LoopTicks clocks, unless its clock
\* was reset on the way.
LoopIsWhole == app.variant = "LIVE" /\ ~app.shifted => app.num_ticks = app.since
=============================================================================
