\* A pool of three usable entries, so that it fills.
SPECIFICATION FairSpec
CONSTANTS
  kEventSchedulerSize = 4
  Note = {60}
  Velocity = {0, 100}
  Delay = {0, 1, 2}
INVARIANT TypeOK
INVARIANT ListHoldsOccupied
INVARIANT SortedByWhen
PROPERTY ImplementsTimedQueue
PROPERTY FlushTerminates
