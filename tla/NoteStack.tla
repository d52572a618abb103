----------------------------- MODULE NoteStack ------------------------------
(***************************************************************************)
(* The note stack (midipal/note_stack.cc) under any sequence of key        *)
(* presses, releases and resets, whether or not they match each other.     *)
(***************************************************************************)
EXTENDS NoteStackOps

CONSTANTS
    Note,       \* the MIDI notes
    Velocity    \* the velocities of note on

ASSUME StackAssumption == kNoteStackSize \in 1 .. 254
ASSUME KeyAssumption   == Note \subseteq 0 .. 127 /\ Velocity \subseteq 0 .. 127

VARIABLES stack     \* pool_, root_ptr_, sorted_ptr_ and size_

Init == stack = Cleared

Press(n, v) == stack' = NoteOn(stack, n, v)
Release(n)  == stack' = NoteOff(stack, n)
Clear       == stack' = Cleared

Next == \/ \E n \in Note, v \in Velocity : Press(n, v)
        \/ \E n \in Note : Release(n)
        \/ Clear

Spec == Init /\ [][Next]_stack

-----------------------------------------------------------------------------
(* Nodes hold MIDI notes, links and pointers stay in the pool.             *)
TypeOK ==
    /\ stack.pool \in [Node -> Cell]
    /\ stack.root \in 0 .. kNoteStackSize
    /\ stack.sorted \in Seq(Node) /\ Size(stack) <= kNoteStackSize
    /\ \A i \in Taken(stack) : stack.pool[i].note \in Note

(* The three views of the pool agree: the nodes on the list, the nodes the *)
(* array points at and the nodes that are not free are the same, each      *)
(* once.  NoteOn writes through an uninitialised free_slot if size_ says   *)
(* there is room and no node is free.                                      *)
ViewsAgree ==
    \E s \in Links :
      /\ IsPath(stack, s)
      /\ Range(s) = Taken(stack)
      /\ Range(stack.sorted) = Taken(stack)
      /\ Len(s) = Size(stack)

(* The array is strictly ascending in pitch, however notes are repeated,   *)
(* released out of order or dropped for want of room: the arpeggiator      *)
(* walks it by index.                                                      *)
Ascending ==
    \A i, j \in 1 .. Size(stack) :
      i < j => stack.pool[stack.sorted[i]].note < stack.pool[stack.sorted[j]].note

(* The linked list is the sequence of keys held, most recent first.        *)
HeldKeys ==
    LET path == Path(stack)
    IN  [i \in 1 .. Len(path) |-> [note     |-> stack.pool[path[i]].note,
                                   velocity |-> stack.pool[path[i]].velocity]]

Held == INSTANCE HeldNotes WITH Capacity <- kNoteStackSize, held <- HeldKeys

(* NoteOn, NoteOff and Clear of note_stack.cc act on the list as pressing, *)
(* releasing and forgetting keys do.                                       *)
ImplementsHeldNotes == Held!Spec

=============================================================================
