------------------------------ MODULE BpmMeter ------------------------------
(***************************************************************************)
(* The BPM meter (midipal/apps/bpm_meter.cc): it counts the clocks of the  *)
(* input and keeps the time of the last one, counted from the first.       *)
(*                                                                         *)
(* The interrupts count (OnClock), and the main loop reads and resets      *)
(* (OnRedraw, PrintBpm, OnClick): its statements are steps of their own,   *)
(* with the interrupts between them.  A read of 32 bits is one step here.  *)
(***************************************************************************)
EXTENDS Integers

CONSTANTS
    MaxTime,            \* bound: of the time and of the clocks counted
    RefreshTime         \* time and clocks after which page 0 is measured anew

VARIABLE app

\* value is the time since Clock::Reset, which the timer moves.  step is the next
\* statement of the main loop, num what PrintBpm has read of num_ticks_.
\* elapsed is the time since the first clock, span what it was at the last one,
\* and shown the span of num clocks on the screen; moved says that a clock came
\* between the statements of a reset, torn between those of PrintBpm.
Time == 0 .. MaxTime

Members ==
    [num_ticks : Time, clock : Time, value : Time, active_page : 0 .. 2, refresh_bpm : BOOLEAN,
     step : {"idle", "den", "clock", "value", "redrawn"}, num : Time, elapsed : Time, span : Time,
     moved : BOOLEAN, torn : BOOLEAN]

\* OnInit.  The counts start from zero at power on.
Init ==
    app = [num_ticks |-> 0, clock |-> 0, value |-> 0, active_page |-> 0, refresh_bpm |-> TRUE,
           step |-> "idle", num |-> 0, elapsed |-> 0, span |-> 0, moved |-> FALSE, torn |-> FALSE]

-----------------------------------------------------------------------------
(* The interrupts.                                                         *)

Timer ==
    /\ app.value < MaxTime /\ app.elapsed < MaxTime
    /\ app' = [app EXCEPT !.value = @ + 1, !.elapsed = @ + 1]

\* OnClock: the first clock resets the time.
\* A faulty variant: it does not.
Clock_NoReset ==
    LET elapsed == IF app.num_ticks = 0 THEN 0 ELSE app.elapsed
    IN  /\ app.num_ticks < MaxTime
        /\ app' = [app EXCEPT !.clock = app.value, !.num_ticks = @ + 1,
                              !.elapsed = elapsed, !.span = elapsed,
                              !.moved = @ \/ app.step \in {"clock", "value"},
                              !.torn  = @ \/ app.step = "den"]

Clock ==
    LET value   == IF app.num_ticks = 0 THEN 0 ELSE app.value
        elapsed == IF app.num_ticks = 0 THEN 0 ELSE app.elapsed
    IN  /\ app.num_ticks < MaxTime
        /\ app' = [app EXCEPT !.value = value, !.clock = value, !.num_ticks = @ + 1,
                              !.elapsed = elapsed, !.span = elapsed,
                              !.moved = @ \/ app.step \in {"clock", "value"},
                              !.torn  = @ \/ app.step = "den"]

\* OnStart, OnStop, OnContinue, and the byte 0xff: the whole of Reset.
Message ==
    app' = [app EXCEPT !.num_ticks = 0, !.clock = 0, !.value = 0, !.elapsed = 0, !.span = 0,
                       !.moved = FALSE, !.torn = @ \/ app.step = "den"]

-----------------------------------------------------------------------------
(* The main loop.                                                          *)

\* OnRedraw: PrintBpm reads the count, on page 0 if a measure is due.
Redraw ==
    /\ app.step = "idle" /\ app.active_page < 2
    /\ app' = IF app.refresh_bpm \/ app.active_page = 1
                THEN [app EXCEPT !.step = "den", !.num = app.num_ticks, !.torn = FALSE]
                ELSE [app EXCEPT !.step = "redrawn"]

\* PrintBpm has read the time too.  Page 0 resets: num_ticks_ first.
Printed ==
    /\ app.step = "den"
    /\ app' = IF app.active_page = 0
                THEN [app EXCEPT !.step = "clock", !.num_ticks = 0, !.moved = FALSE]
                ELSE [app EXCEPT !.step = "redrawn"]

Redrawn ==
    /\ app.step = "redrawn"
    /\ app' = [app EXCEPT !.step = "idle",
                          !.refresh_bpm = /\ app.active_page = 0
                                          /\ app.value > RefreshTime
                                          /\ app.num_ticks > RefreshTime]

\* OnClick: Reset, of num_ticks_, then of clock_, then of the clock.
Click ==
    /\ app.step = "idle"
    /\ app' = [app EXCEPT !.num_ticks = 0, !.step = "clock", !.moved = FALSE]

ResetClock == app.step = "clock" /\ app' = [app EXCEPT !.clock = 0, !.step = "value"]

ResetValue == app.step = "value" /\ app' = [app EXCEPT !.value = 0, !.step = "redrawn"]

\* OnIncrement
Turn(page) ==
    /\ app.step = "idle" /\ page \in app.active_page - 1 .. app.active_page + 1
    /\ app' = [app EXCEPT !.active_page = page, !.refresh_bpm = TRUE]

Next ==
    \/ Timer
    \/ Clock
    \/ Message
    \/ Redraw
    \/ Printed
    \/ Redrawn
    \/ Click
    \/ ResetClock
    \/ ResetValue
    \/ \E page \in 0 .. 2 : Turn(page)

-----------------------------------------------------------------------------

TypeOK == app \in Members

\* The tempo is that of the clocks counted: the time kept is the one from the
\* first of them to the last, and the count that is shown is the one of the time
\* that is shown: unless a clock came between two statements of the main loop.
SpansItsClocks ==
    /\ app.num_ticks > 0 /\ ~app.moved => app.clock = app.span
    /\ app.step = "den" /\ ~app.torn => app.num = app.num_ticks
=============================================================================
