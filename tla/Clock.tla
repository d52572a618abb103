-------------------------------- MODULE Clock --------------------------------
(***************************************************************************)
(* The internal clock (midipal/clock.h, clock.cc): a table of intervals,   *)
(* one for each step of a groove, computed from the tempo; TIMER1 calls    *)
(* Tick and takes what it returns for its next period.                     *)
(*                                                                         *)
(* clock holds the static members of the class.  clock_, a time of 32      *)
(* bits, is represented by span, its part since the pattern began; updated *)
(* says that the intervals were computed anew since then.                  *)
(***************************************************************************)
EXTENDS Integers, Sequences

CONSTANTS
    Tempos,             \* in tenths of a beat per minute, from 400 to 2409 (the BPM meter has its own)
    LiveBpms,           \* tempos of the live clock source, whose loop gives 10 to 255
    Ratios,             \* <<multiplier, divider>> of the live clock source
    Grooves,            \* the templates, 0 .. 5
    Amounts,            \* values of groove_amount, 0 .. 127
    kNumTicksPerStep    \* 6

VARIABLE clock

kNumStepsInGroovePattern == 16
GrooveStep == 0 .. kNumStepsInGroovePattern - 1

Members ==
    [intervals : [GrooveStep -> 0 .. 65535], interval : 0 .. 65535, running : BOOLEAN,
     tick_count : 0 .. kNumTicksPerStep - 1, step_count : GrooveStep,
     base : Int, span : Nat, updated : BOOLEAN]

-----------------------------------------------------------------------------
(* The tables LUT_RES_GROOVE_SWING and after it.                           *)

Groove ==
    << <<127, 127, -127, -127, 127, 127, -127, -127, 127, 127, -127, -127, 127, 127, -127, -127>>,
       <<127, -127, 127, -127, 127, -127, 127, -127, 127, -127, 127, -127, 127, -127, 127, -127>>,
       <<-63, -63, 127, 0, -127, 0, 0, 88, 0, 0, 88, -50, -88, 0, 88, 0>>,
       <<19, 44, 93, -4, 32, -53, -90, -127, 117, 32, -102, -53, 105, -53, 93, -53>>,
       <<88, -101, 107, -95, 88, -88, 50, -38, 65, -88, 101, -95, 101, -127, 63, -31>>,
       <<70, -84, 84, -112, 84, -98, 112, -98, 54, -70, 127, -84, 127, -112, 84, -84>> >>

\* The intervals of Update and of UpdateFractional: the shift rounds down, and
\* each is stored in 16 bits.
Intervals(base, groove, amount) ==
    [i \in GrooveStep |->
       (base + (Groove[groove + 1][i + 1] * base * amount) \div 65536) % 65536]

\* base_tick_duration of the two.
BaseDuration(tempo) == 7812500 \div tempo - 1
FractionalDuration(bpm, ratio) == (781250 * ratio[2]) \div (bpm * ratio[1]) - 1

-----------------------------------------------------------------------------

\* Init, at 120 beats per minute without a groove.
Init ==
    LET base      == BaseDuration(1200)
        intervals == Intervals(base, 0, 0)
    IN  clock = [intervals |-> intervals, interval |-> intervals[0], running |-> FALSE,
                 tick_count |-> 0, step_count |-> 0, base |-> base, span |-> 0,
                 updated |-> TRUE]

Updated(base, groove, amount) ==
    clock' = [clock EXCEPT !.intervals = Intervals(base, groove, amount), !.base = base,
                           !.span = 0, !.updated = TRUE]

Update(tempo, groove, amount) == Updated(BaseDuration(tempo), groove, amount)

\* The live clock source has no groove.
UpdateFractional(bpm, ratio) == Updated(FractionalDuration(bpm, ratio), 0, 0)

\* A faulty variant: the first step has the interval of the last.
Start_Stale ==
    clock' = [clock EXCEPT !.running = TRUE, !.tick_count = 0, !.step_count = 0,
                           !.span = 0, !.updated = FALSE]

Start ==
    clock' = [clock EXCEPT !.running = TRUE, !.tick_count = 0, !.step_count = 0,
                           !.interval = clock.intervals[0], !.span = 0, !.updated = FALSE]

Stop == clock' = [clock EXCEPT !.running = FALSE]

\* The tick ends the interval, and the last one of a step loads the next step's.
Tick ==
    LET ends   == clock.tick_count + 1 = kNumTicksPerStep
        step   == IF ends THEN (clock.step_count + 1) % kNumStepsInGroovePattern
                  ELSE clock.step_count
        begins == ends /\ step = 0
    IN  clock' = [clock EXCEPT
                    !.tick_count = IF ends THEN 0 ELSE @ + 1,
                    !.step_count = step,
                    !.interval   = IF ends THEN clock.intervals[step] ELSE @,
                    !.span       = IF begins \/ clock.updated THEN 0
                                   ELSE @ + clock.interval + 1,
                    !.updated    = @ /\ ~begins]

Next ==
    \/ \E groove \in Grooves, amount \in Amounts, tempo \in Tempos :
         Update(tempo, groove, amount)
    \/ \E bpm \in LiveBpms, ratio \in Ratios : UpdateFractional(bpm, ratio)
    \/ Start
    \/ Stop
    \/ Tick

-----------------------------------------------------------------------------

TypeOK == clock \in Members

\* A base duration that an interval, of 16 bits, can hold.
InWord(base) == base < 65536

\* Whatever the groove and its amount, sixteen steps take the time of sixteen
\* straight ones, but for the rounding of each interval: a groove moves the steps
\* and keeps the tempo.  An interval above 16 bits, which the slowest ratios make,
\* does not.
GrooveKeepsTempo ==
    LET lastTick == /\ clock.step_count = kNumStepsInGroovePattern - 1
                    /\ clock.tick_count = kNumTicksPerStep - 1
        length   == clock.span + clock.interval + 1
        ticks    == kNumStepsInGroovePattern * kNumTicksPerStep
    IN  lastTick /\ ~clock.updated /\ InWord(clock.base) =>
          length \in ticks * clock.base .. ticks * (clock.base + 1)
=============================================================================
