SPECIFICATION Spec
CONSTANTS
    DividerParams <- MCDivider
    LatchParams <- MCLatch
    SourceParams <- MCSource
    MeterParams <- MCMeter
    ShParams <- MCSh
    StepParams <- MCStep
    DrumParams <- MCDrum
    LfoParams <- MCLfo
    DroneParams <- MCDrone
    EchoParams <- MCEcho
    RandomParams <- MCRandom
    ScaleParams <- MCScale
    ChordParams <- MCChord
    KnobParams <- MCKnob
    ChannelParams <- MCChannel
    ClockParams <- MCClock
    SysExParams <- MCSysEx
    LoopParams <- MCLoop
CONSTRAINT Explored
INVARIANT TypeOK
INVARIANT SoundingIsOwed
INVARIANT TransportAgrees
INVARIANT CountsItsClocks
INVARIANT StaysInBounds
INVARIANT KeyCanStart
INVARIANT GrooveKeepsTempo
INVARIANT BlocksArriveWhole
INVARIANT SettingsRestored
PROPERTY LatchActs
PROPERTY ScrollEnds
