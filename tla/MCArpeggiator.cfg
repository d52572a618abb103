SPECIFICATION FairSpec
CONSTANTS
  Note <- MCNote
  kNoteStackSize = 2
  kEventSchedulerSize = 4
  kIdleTicks = 3
  kNoteClockTicks = 2
  RandomByte <- MCRandomByte
  Settings <- MCSettings
  Changes <- MCChanges
INVARIANT TypeOK
INVARIANT EachNoteEndsOnce
INVARIANT NothingWaitsStopped
INVARIANT KeyCanStart
PROPERTY PlaysHeldKeys
PROPERTY NotesEnd
