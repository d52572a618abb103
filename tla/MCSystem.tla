------------------------------ MODULE MCSystem ------------------------------
(***************************************************************************)
(* The parts of System, each on a small instance.                          *)
(***************************************************************************)
EXTENDS System

MCDivider == [Dividers |-> {1, 2, 3}, Delays |-> {0, 1, 2}]

MCLatch == [NumBeats |-> {1, 2}, BeatTicks |-> {1, 3}, MaxTurns |-> 2]

MCSource == [Variant |-> {"STANDARD", "HD", "LIVE"}, Tempos |-> {40, 239, 240},
             LoopTempos |-> {10, 255}, LoopTicks |-> 3]

MCMeter == [MaxTime |-> 2, RefreshTime |-> 1]

\* Two steps, of a tick each.
MCSh == [Note |-> {62}, kShSequencerNumSteps |-> 2, Prescalers |-> {1}, MaxRecorders |-> 2]

\* The even step holds its note for two ticks, into the odd one.
MCStep == [Note |-> {62}, kNumSteps |-> 2, Prescalers |-> {1},
           Duration |-> [i \in 0 .. 1 |-> IF i = 0 THEN 2 ELSE 1], MaxQueue |-> 2]

\* A bar of two steps.
MCDrum == [Part |-> {0}, Instrument |-> {36, 40}, IdleTicks |-> 12]

\* The phase wraps at 8 after three or after two ticks of the faster rate.
MCLfo == [Note |-> {60, 62}, LfoIndex |-> {0}, Prescalers |-> {1, 2}, Rates |-> {3, 4},
          PhaseRange |-> 8]

MCDrone == [Root |-> {48, 60}, Prescalers |-> {1}, Shifts |-> {6}, MaxQueue |-> 5]

\* The second echo waits a tick longer than the first.
MCEcho == [Note |-> {60, 62}, Taps |-> {0, 2}, Transpositions |-> {0, 2},
           EchoDelays |-> { [i \in 0 .. 2 |-> i + 1] }, MaxQueue |-> 4]

MCRandom == [kNoteMapSize |-> 2, Channel |-> {0, 1}, Note |-> {60, 62, 64}, Drawn |-> {60, 61}]

\* lut_res_scale_8, which rounds some notes up: on the root 5, 127 leaves the range.
Scale8 == [i \in 0 .. 11 |-> <<0, 0, 3, 3, 4, 4, 7, 7, 7, 9, 10, 10>>[i + 1]]

MCScale == [kNoteMapSize |-> 2, Note |-> {3, 127}, Roots |-> {17, 24}, Shifts |-> {0, -12},
            Scales |-> {Scale8}, Harmonies |-> {-7, 24}]

MCChord == [Note |-> {4, 60, 120}, kMaxChordNotes |-> 4]

MCKnob == [Values |-> {0, 64, 127, 200}]

MCChannel == [Channel |-> {0, 15}, Note |-> {60}, Splits |-> {60, 64}, Counts |-> {2, 16},
              Transpositions |-> {-12}]

\* The slowest tempo and a fast one; two ticks in a step, for the six of the firmware.
MCClock == [Tempos |-> {400, 2400}, LiveBpms |-> {40, 240},
            Ratios |-> {<<1, 3>>, <<1, 16>>}, Grooves |-> 0 .. 5, Amounts |-> {127}, kNumTicksPerStep |-> 2]

\* Two blocks of two bytes, whose sums differ; of the foreign messages one is of a
\* single byte.
MCSysEx == [Kinds |-> {"handler", "loader"}, Header |-> <<240, 0, 3>>,
            Image |-> << <<18, 1>>, <<35, 4>> >>,
            Foreign |-> {<<240, 65, 247>>, <<240, 65, 16, 247>>}, MaxErrors |-> 2]

\* Two tracks of two steps, of which one is in use at first.
MCLoop == [Tracks |-> 2, kNumSteps |-> 2, FactorySteps |-> 1, MaxValue |-> 0, Garbage |-> {0, 1}]

-----------------------------------------------------------------------------
(* What the properties except is not explored further, nor, of the         *)
(* sequencers, a shorter sequence and a second note that hangs.            *)

\* A start or a stop in the middle of another is followed to its end.
Followed == state.raced => state.main # "idle"

OneHangs == \A n, m \in state.hung : n = m

Explored ==
    CASE which = "sh"         -> Followed /\ OneHangs /\ ~state.nested /\ ~state.switched
      [] which = "sequencer"  -> /\ Followed /\ OneHangs /\ ~state.dropped /\ ~state.switched
                                 /\ state.num_steps = 2
      [] which = "drum"       -> ~state.raced
      [] which = "tanpura"    -> Followed /\ ~state.switched
      [] which = "lfo"        -> Followed /\ ~state.switched
      [] which = "source"     -> Followed
      [] which = "delay"      -> ~state.changed /\ ~state.dropped
      [] which = "randomizer" -> ~state.overwritten /\ ~state.reassigned
      [] which = "scale"      -> ~state.forgotten /\ ~state.changed
      [] which = "chord"      -> state.edited = {}
      [] which = "channels"   -> ~state.changed
      [] which = "sysex"      -> ~state.overrun /\ ~state.reran
      [] which = "loop"       -> state.mishap = "none"
      [] OTHER                -> TRUE
=============================================================================
