------------------------------- MODULE System -------------------------------
(***************************************************************************)
(* The parts of the firmware that have no run of their own.  which names   *)
(* the part, and state is its state: either an application (the firmware   *)
(* runs one at a time, the one launched at boot, until the next reset) or  *)
(* one of the parts below and around them.  A property states for each     *)
(* part what its module states.                                            *)
(***************************************************************************)
EXTENDS Integers, Sequences

\* For each part the values of its module's constants, in a record.
CONSTANTS
    DividerParams, LatchParams, SourceParams, MeterParams, ShParams, StepParams, DrumParams,
    LfoParams, DroneParams, EchoParams, RandomParams, ScaleParams, ChordParams, KnobParams,
    ChannelParams, ClockParams, SysExParams, LoopParams

(***************************************************************************)
(* What the firmware makes of them: a byte, a MIDI note or a channel, a    *)
(* setting in the range its editor allows, a size that is not 0.           *)
(***************************************************************************)
ASSUME DividerAssumption ==
    /\ DividerParams.Dividers \subseteq 1 .. 255
    /\ DividerParams.Delays \subseteq 0 .. 255

ASSUME LatchAssumption ==
    /\ LatchParams.BeatTicks \subseteq 1 .. 255
    /\ LatchParams.NumBeats \subseteq 1 .. 255
    /\ LatchParams.MaxTurns \in Nat

ASSUME SourceAssumption ==
    /\ SourceParams.Tempos \subseteq 40 .. 240
    /\ SourceParams.LoopTempos \subseteq 10 .. 255
    /\ SourceParams.LoopTicks \in 1 .. 255

ASSUME ShAssumption ==
    /\ ShParams.Note \subseteq 0 .. 127
    /\ ShParams.kShSequencerNumSteps \in Nat \ {0}

\* The ticks until the drums are idle are more than those of a step.
ASSUME DrumAssumption == DrumParams.IdleTicks \in Nat /\ DrumParams.IdleTicks > 6

ASSUME LfoAssumption ==
    /\ LfoParams.Prescalers \subseteq Nat
    /\ LfoParams.Rates \subseteq Nat
    /\ LfoParams.PhaseRange \in Nat \ {0}

ASSUME ChordAssumption ==
    /\ ChordParams.kMaxChordNotes \in Nat \ {0}
    /\ ChordParams.Note \subseteq 0 .. 127

ASSUME KnobAssumption == KnobParams.Values \subseteq 0 .. 255

ASSUME ChannelAssumption ==
    /\ ChannelParams.Channel \subseteq 0 .. 15
    /\ ChannelParams.Counts \subseteq 1 .. 16

ASSUME ScaleAssumption ==
    /\ ScaleParams.kNoteMapSize \in Nat \ {0}
    /\ ScaleParams.Note \subseteq 0 .. 127
    /\ ScaleParams.Roots \subseteq Nat
    /\ ScaleParams.Shifts \subseteq Int
    /\ ScaleParams.Harmonies \subseteq Int
    /\ \A scale \in ScaleParams.Scales : scale \in [0 .. 11 -> Nat]

ASSUME RandomAssumption ==
    /\ RandomParams.kNoteMapSize \in Nat \ {0}
    /\ RandomParams.Note \subseteq 0 .. 127
    /\ RandomParams.Drawn \subseteq 0 .. 127

ASSUME StepAssumption ==
    /\ StepParams.Note \subseteq 0 .. 127
    /\ StepParams.kNumSteps \in Nat \ {0}
    /\ StepParams.Prescalers \subseteq Nat \ {0}
    /\ StepParams.Duration \in [0 .. 1 -> Nat \ {0}]
    /\ StepParams.MaxQueue \in Nat

\* The note offs of four notes fit in the queue.
ASSUME DroneAssumption ==
    /\ DroneParams.Root \subseteq 36 .. 84
    /\ DroneParams.Shifts \subseteq Int
    /\ DroneParams.MaxQueue \in Nat /\ DroneParams.MaxQueue > 4

\* An echo waits a tick or more: Clip(delay, 1, 255).
ASSUME EchoAssumption ==
    /\ EchoParams.Note \subseteq Int
    /\ EchoParams.Taps \subseteq Nat
    /\ EchoParams.Transpositions \subseteq Int
    /\ EchoParams.MaxQueue \in Nat
    /\ \A delay \in EchoParams.EchoDelays, taps \in EchoParams.Taps :
         \A i \in 0 .. taps : delay[i] \in Nat \ {0}

ASSUME ClockAssumption ==
    /\ ClockParams.Tempos \subseteq 400 .. 2409
    /\ ClockParams.LiveBpms \subseteq 10 .. 255
    /\ ClockParams.Ratios \subseteq (1 .. 16) \X (1 .. 16)
    /\ ClockParams.Grooves \subseteq 0 .. 5
    /\ ClockParams.Amounts \subseteq 0 .. 127
    /\ ClockParams.kNumTicksPerStep \in Nat \ {0}

ASSUME LoopAssumption ==
    /\ LoopParams.Tracks \in Nat \ {0}
    /\ LoopParams.kNumSteps \in Nat

VARIABLES which, state

vars == <<which, state>>

-----------------------------------------------------------------------------
(* The parts: first the applications.                                      *)

Divider == INSTANCE ClockDivider WITH
    app <- state, Dividers <- DividerParams.Dividers, Delays <- DividerParams.Delays

Latch == INSTANCE SyncLatch WITH
    app <- state, NumBeats <- LatchParams.NumBeats, BeatTicks <- LatchParams.BeatTicks,
    MaxTurns <- LatchParams.MaxTurns

Source == INSTANCE ClockSource WITH
    app <- state, Variant <- SourceParams.Variant, Tempos <- SourceParams.Tempos,
    LoopTempos <- SourceParams.LoopTempos, LoopTicks <- SourceParams.LoopTicks

Meter == INSTANCE BpmMeter WITH
    app <- state, MaxTime <- MeterParams.MaxTime, RefreshTime <- MeterParams.RefreshTime

Sh == INSTANCE ShSequencer WITH
    app <- state, Note <- ShParams.Note, kShSequencerNumSteps <- ShParams.kShSequencerNumSteps,
    Prescalers <- ShParams.Prescalers, MaxRecorders <- ShParams.MaxRecorders

StepSeq == INSTANCE StepSequencer WITH
    app <- state, Note <- StepParams.Note, kNumSteps <- StepParams.kNumSteps,
    Prescalers <- StepParams.Prescalers, Duration <- StepParams.Duration,
    MaxQueue <- StepParams.MaxQueue

Drum == INSTANCE DrumPatternGenerator WITH
    app <- state, Part <- DrumParams.Part, Instrument <- DrumParams.Instrument,
    IdleTicks <- DrumParams.IdleTicks

Lfos == INSTANCE Lfo WITH
    app <- state, Note <- LfoParams.Note, LfoIndex <- LfoParams.LfoIndex,
    Prescalers <- LfoParams.Prescalers, Rates <- LfoParams.Rates,
    PhaseRange <- LfoParams.PhaseRange

Drone == INSTANCE Tanpura WITH
    app <- state, Root <- DroneParams.Root, Prescalers <- DroneParams.Prescalers,
    Shifts <- DroneParams.Shifts, MaxQueue <- DroneParams.MaxQueue

Echo == INSTANCE Delay WITH
    app <- state, Note <- EchoParams.Note, Taps <- EchoParams.Taps,
    Transpositions <- EchoParams.Transpositions, EchoDelays <- EchoParams.EchoDelays,
    MaxQueue <- EchoParams.MaxQueue

Random == INSTANCE Randomizer WITH
    app <- state, kNoteMapSize <- RandomParams.kNoteMapSize,
    Channel <- RandomParams.Channel, Note <- RandomParams.Note, Drawn <- RandomParams.Drawn

Scale == INSTANCE ScaleProcessor WITH
    app <- state, kNoteMapSize <- ScaleParams.kNoteMapSize, Note <- ScaleParams.Note,
    Roots <- ScaleParams.Roots, Shifts <- ScaleParams.Shifts, Scales <- ScaleParams.Scales,
    Harmonies <- ScaleParams.Harmonies

Chords == INSTANCE ChordMemory WITH
    app <- state, Note <- ChordParams.Note, kMaxChordNotes <- ChordParams.kMaxChordNotes

Knob == INSTANCE CcKnob WITH
    app <- state, Values <- KnobParams.Values

Channels == INSTANCE ChannelApps WITH
    app <- state, Channel <- ChannelParams.Channel, Note <- ChannelParams.Note,
    Splits <- ChannelParams.Splits, Counts <- ChannelParams.Counts,
    Transpositions <- ChannelParams.Transpositions

\* Now the parts below and around them.
Tempo == INSTANCE Clock WITH
    clock <- state, Tempos <- ClockParams.Tempos, LiveBpms <- ClockParams.LiveBpms,
    Ratios <- ClockParams.Ratios,
    Grooves <- ClockParams.Grooves, Amounts <- ClockParams.Amounts,
    kNumTicksPerStep <- ClockParams.kNumTicksPerStep

Transfer == INSTANCE SysEx WITH
    link <- state, Kinds <- SysExParams.Kinds, Header <- SysExParams.Header,
    Image <- SysExParams.Image, Foreign <- SysExParams.Foreign,
    MaxErrors <- SysExParams.MaxErrors

Loop == INSTANCE MainLoop WITH
    main <- state, Tracks <- LoopParams.Tracks, kNumSteps <- LoopParams.kNumSteps,
    FactorySteps <- LoopParams.FactorySteps, MaxValue <- LoopParams.MaxValue,
    Garbage <- LoopParams.Garbage

-----------------------------------------------------------------------------

Init ==
    \/ which = "divider"    /\ Divider!Init
    \/ which = "latch"      /\ Latch!Init
    \/ which = "source"     /\ Source!Init
    \/ which = "meter"      /\ Meter!Init
    \/ which = "sh"         /\ Sh!Init
    \/ which = "sequencer"  /\ StepSeq!Init
    \/ which = "drum"       /\ Drum!Init
    \/ which = "lfo"        /\ Lfos!Init
    \/ which = "tanpura"    /\ Drone!Init
    \/ which = "delay"      /\ Echo!Init
    \/ which = "randomizer" /\ Random!Init
    \/ which = "scale"      /\ Scale!Init
    \/ which = "chord"      /\ Chords!Init
    \/ which = "knob"       /\ Knob!Init
    \/ which = "channels"   /\ Channels!Init
    \/ which = "clock"      /\ Tempo!Init
    \/ which = "sysex"      /\ Transfer!Init
    \/ which = "loop"       /\ Loop!Init

Next ==
    /\ UNCHANGED which
    /\ \/ which = "divider"    /\ Divider!Next
       \/ which = "latch"      /\ Latch!Next
       \/ which = "source"     /\ Source!Next
       \/ which = "meter"      /\ Meter!Next
       \/ which = "sh"         /\ Sh!Next
       \/ which = "sequencer"  /\ StepSeq!Next
       \/ which = "drum"       /\ Drum!Next
       \/ which = "lfo"        /\ Lfos!Next
       \/ which = "tanpura"    /\ Drone!Next
       \/ which = "delay"      /\ Echo!Next
       \/ which = "randomizer" /\ Random!Next
       \/ which = "scale"      /\ Scale!Next
       \/ which = "chord"      /\ Chords!Next
       \/ which = "knob"       /\ Knob!Next
       \/ which = "channels"   /\ Channels!Next
       \/ which = "clock"      /\ Tempo!Next
       \/ which = "sysex"      /\ Transfer!Next
       \/ which = "loop"       /\ Loop!Next

\* The external clock of the latch keeps ticking, and the main loop goes on looking
\* for a page: nothing else needs fairness.
Spec ==
    /\ Init /\ [][Next]_vars
    /\ WF_vars(UNCHANGED which /\ which = "latch" /\ Latch!Clock)
    /\ WF_vars(UNCHANGED which /\ which = "loop" /\ Loop!Scroll)

-----------------------------------------------------------------------------

\* The state of the part that runs has the type its module gives it.
TypeOK ==
    CASE which = "divider"    -> Divider!TypeOK
      [] which = "latch"      -> Latch!TypeOK
      [] which = "source"     -> Source!TypeOK
      [] which = "meter"      -> Meter!TypeOK
      [] which = "sh"         -> Sh!TypeOK
      [] which = "sequencer"  -> StepSeq!TypeOK
      [] which = "drum"       -> Drum!TypeOK
      [] which = "lfo"        -> Lfos!TypeOK
      [] which = "tanpura"    -> Drone!TypeOK
      [] which = "delay"      -> Echo!TypeOK
      [] which = "randomizer" -> Random!TypeOK
      [] which = "scale"      -> Scale!TypeOK
      [] which = "chord"      -> Chords!TypeOK
      [] which = "knob"       -> Knob!TypeOK
      [] which = "channels"   -> Channels!TypeOK
      [] which = "clock"      -> Tempo!TypeOK
      [] which = "sysex"      -> Transfer!TypeOK
      [] which = "loop"       -> Loop!TypeOK

\* Every note that sounds has a note off still to come, from the application or
\* from a key that is down, whatever is played, transposed, echoed or stopped in
\* between.  Each module names the notes that its application leaves on: those of a
\* key released while a sequencer runs, and those that an interrupt plays in the
\* middle of a start or a stop.
SoundingIsOwed ==
    /\ which = "sh"         => Sh!SoundingIsOwed
    /\ which = "sequencer"  => StepSeq!SoundingIsOwed
    /\ which = "drum"       => Drum!SoundingIsOwed
    /\ which = "tanpura"    => Drone!SoundingIsOwed
    /\ which = "delay"      => Echo!SoundingIsOwed
    /\ which = "randomizer" => Random!SoundingIsOwed
    /\ which = "scale"      => Scale!SoundingIsOwed
    /\ which = "chord"      => Chords!SoundingIsOwed
    /\ which = "channels"   => Channels!SoundingIsOwed

\* The instruments were last told to start or to stop as the application now
\* runs or not: unless the one was done in the middle of the other, or the mode of
\* the clock was changed on the way.
TransportAgrees ==
    /\ which = "divider"   => Divider!TransportAgrees
    /\ which = "latch"     => Latch!TransportAgrees
    /\ which = "source"    => Source!TransportAgrees
    /\ which = "sh"        => Sh!TransportAgrees
    /\ which = "sequencer" => StepSeq!TransportAgrees
    /\ which = "drum"      => Drum!TransportAgrees
    /\ which = "lfo"       => Lfos!TransportAgrees
    /\ which = "tanpura"   => Drone!TransportAgrees

\* What is counted in clocks covers the clocks that came: the divider keeps the
\* phase of its START, an LFO draws once in its cycle, the live clock source
\* measures its loop and the meter its interval, with no clock lost or counted
\* twice.
CountsItsClocks ==
    /\ which = "divider" => Divider!DividesEvenly
    /\ which = "lfo"     => Lfos!DrawsOncePerCycle
    /\ which = "source"  => Source!LoopIsWhole
    /\ which = "meter"   => Meter!SpansItsClocks

\* What is written stays within what holds it: steps in their arrays, unless one is
\* recorded in the middle of another, a chord in its own, notes and channels in the
\* ranges that are set, the tempo between its bounds.
StaysInBounds ==
    /\ which = "sh"       => Sh!RecordsInBounds
    /\ which = "chord"    => Chords!ChordFits
    /\ which = "knob"     => Knob!KnobAgrees
    /\ which = "source"   => Source!TempoInRange
    /\ which = "scale"    => Scale!InScale
    /\ which = "channels" => Channels!MergesARow

\* The drum generator can be started by a key again, unless a tick stopped it in
\* the middle of one.
KeyCanStart == which = "drum" => Drum!KeyCanStart

\* While the external clock ticks, the armed latch acts.
LatchActs == (which = "latch" /\ state.armed) ~> (which = "latch" /\ ~state.armed)

\* A groove moves the steps of the internal clock and keeps its tempo.
GrooveKeepsTempo == which = "clock" => Tempo!GrooveKeepsTempo

\* Whatever the cable loses, whichever low bits it damages and whenever the power
\* fails: the SysEx handler stores at an address what was sent for it or nothing, and
\* the boot loader flashes whole blocks, in their order; it counts the pages, so that
\* the block after a damaged one takes its page.
BlocksArriveWhole == which = "sysex" => Transfer!BlocksArriveWhole

\* What was saved, selected or reset is what the next boot finds.
SettingsRestored == which = "loop" => Loop!SettingsRestored

\* The encoder finds a page to show, unless every step is in use and the last page
\* hidden: then the main loop hangs.
ScrollEnds ==
    (which = "loop" /\ state.pc = "scroll")
      ~> (which = "loop" /\ (state.pc # "scroll" \/ Loop!Stuck))
=============================================================================
