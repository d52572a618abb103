SPECIFICATION Spec
CONSTANTS
  Note <- MCNote
  kPSNumTracks = 2
  kPSNumSteps = 3
  Prescalers <- MCPrescalers
  kNoteClockTicks = 2
  Saved <- MCSaved
  MaxRecords = 1
INVARIANT TypeOK
INVARIANT NotesRemembered
CONSTRAINT Unraced
VIEW Live
