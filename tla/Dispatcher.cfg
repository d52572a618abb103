\* More keys than voices, so that voices are stolen, and a base channel from which the
\* channels wrap around.
SPECIFICATION Spec
CONSTANTS
  kMaxPolyphony = 3
  kNoteMapSize = 3
  Note = {60, 61, 62}
  Velocity = {20, 127}
  NumVoices = {1, 2}
  BaseChannel = {15}
  PolyVoices = {1, 2}
INVARIANT TypeOK
INVARIANT LruIsPermutation
INVARIANT LruIsRecency
INVARIANT NoStuckNotes
INVARIANT ActiveVoicesAreHeld
PROPERTY StealsOnlyWhenAllActive
