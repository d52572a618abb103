SPECIFICATION Spec
CONSTANTS
  Note <- MCNote
  kNoteStackSize = 2
  kEventSchedulerSize = 4
  kIdleTicks = 3
  kNoteClockTicks = 2
  RandomByte <- MCRandomByte
  Settings <- MCSettings
  Changes <- MCChanges
INVARIANT NoteOffIsScheduled
