--------------------------- MODULE MCArpeggiator ----------------------------
(* Model values for TLC: two keys an octave apart, so that octaves meet;   *)
(* notes longer than a step and a scheduler small enough to fill, or slow  *)
(* steps and a pattern with a rest.                                        *)
EXTENDS Arpeggiator

MCNote       == {60, 72}
MCRandomByte == {0, 17}

Dense == [clk_mode : Modes, direction : Directions, num_octaves : {2},
          pattern : {{0}}, pattern_length : {1}, prescaler : {1}, duration : {3},
          latch : {FALSE}]
Slow  == [clk_mode : {"INTERNAL"}, direction : {"UP_DOWN"}, num_octaves : {1},
          pattern : {{1}}, pattern_length : {2}, prescaler : {2}, duration : {1},
          latch : {TRUE}]

MCSettings == Dense \cup Slow
MCChanges  == { [key |-> "direction", value |-> "DOWN"], [key |-> "latch", value |-> FALSE] }
=============================================================================
