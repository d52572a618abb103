\* One key more than there are nodes.
SPECIFICATION Spec
CONSTANTS
  kNoteStackSize = 3
  Note = {58, 60, 62, 64}
  Velocity = {1, 100}
INVARIANT TypeOK
INVARIANT ViewsAgree
INVARIANT Ascending
PROPERTY ImplementsHeldNotes
