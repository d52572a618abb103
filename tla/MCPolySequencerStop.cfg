SPECIFICATION Spec
CONSTANTS
  Note <- MCNote
  kPSNumTracks = 2
  kPSNumSteps = 3
  Prescalers <- MCPrescalers
  kNoteClockTicks = 2
  Saved <- MCSaved
  MaxRecords = 2
CONSTRAINT Unraced
PROPERTY StopEndsNotes
