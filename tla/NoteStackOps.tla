---------------------------- MODULE NoteStackOps ----------------------------
(***************************************************************************)
(* The operations of midipal/note_stack.{h,cc}: the pressed keys, kept     *)
(* twice over one pool of nodes, as a linked list from the most to the     *)
(* least recent and as an array of pointers in ascending order of pitch.   *)
(*                                                                         *)
(* A stack h is a record [pool, root, sorted]: pool_, root_ptr_, and the   *)
(* first size_ elements of sorted_ptr_ (so that size_ is Len(h.sorted);    *)
(* what lies behind them is never read).                                   *)
(***************************************************************************)
EXTENDS Integers, Sequences, FiniteSetsExt, SequencesExt

CONSTANTS kNoteStackSize        \* 16

kFree == 255                    \* kFreeSlot of note_stack.cc

Node  == 1 .. kNoteStackSize    \* node 0 is the dummy, and the null link

Cell  == [note : 0 .. 255, velocity : 0 .. 255, next : 0 .. kNoteStackSize]

\* A faulty variant: memset to 0 with no loop after it to mark the nodes free.
EmptyCell_Zeroed == [note |-> 0, velocity |-> 0, next |-> 0]

EmptyCell == [note |-> kFree, velocity |-> 0, next |-> 0]

\* Clear, which is also Init.
Cleared == [pool |-> [i \in Node |-> EmptyCell], root |-> 0, sorted |-> <<>>]

Size(h) == Len(h.sorted)

-----------------------------------------------------------------------------
(* The linked list, as the sequence of the nodes on it.                    *)

Paths == { [i \in 1 .. k |-> f[i]] : k \in 0 .. kNoteStackSize, f \in [Node -> Node] }
Links == { s \in Paths : IsInjective(s) }

After(s, i) == IF i < Len(s) THEN s[i + 1] ELSE 0

IsPath(h, s) == /\ h.root = After(s, 0)
                /\ \A i \in 1 .. Len(s) : h.pool[s[i]].next = After(s, i)

Path(h) == CHOOSE s \in Links : IsPath(h, s)

Taken(h) == { i \in Node : h.pool[i].note # kFree }

\* played_note(index) and sorted_note(index).
PlayedNote(h, index) == h.pool[Path(h)[Size(h) - index]]
SortedNote(h, index) == h.pool[h.sorted[index + 1]]

-----------------------------------------------------------------------------
(* NoteOff: unlink the first node of the list that holds the note, close   *)
(* the gap in the sorted array, and free the node.                         *)

\* A faulty variant: the array is shortened and not compacted.
DropPointer_Last(pointers, node) == Front(pointers)

DropPointer(pointers, node) ==
    IF node \in Range(pointers) THEN RemoveFirst(pointers, node) ELSE Front(pointers)

Unlink(h, k) ==
    LET path    == Path(h)
        current == path[k]
        after   == h.pool[current].next
    IN  [pool |-> [i \in Node |->
                     IF i = current THEN EmptyCell
                     ELSE IF k > 1 /\ i = path[k - 1]
                       THEN [h.pool[i] EXCEPT !.next = after]
                     ELSE h.pool[i]],
         root |-> IF k = 1 THEN after ELSE h.root,
         sorted |-> DropPointer(h.sorted, current)]

NoteOff(h, note) ==
    LET path  == Path(h)
        found == { k \in 1 .. Len(path) : h.pool[path[k]].note = note }
    IN  IF found = {} THEN h ELSE Unlink(h, Min(found))

(* NoteOn: the note leaves its old place, the least recent note makes room *)
(* if every node is taken, and the last free node becomes the root and     *)
(* takes its place in the array before the first higher note.              *)

\* A faulty variant: the most recent note makes room.
MakeRoom_AtRoot(h) ==
    IF Size(h) = kNoteStackSize THEN NoteOff(h, h.pool[h.root].note) ELSE h

\* The search for a node that ends the list runs over the pool, not the list.
MakeRoom(h) ==
    IF Size(h) = kNoteStackSize
      THEN NoteOff(h, h.pool[Min({ i \in Node : h.pool[i].next = 0 })].note)
      ELSE h

\* A faulty variant: the new note goes before the first lower one.
Rank_Descending(h, note) ==
    Min({ i \in 1 .. Size(h) + 1 : i = Size(h) + 1 \/ h.pool[h.sorted[i]].note < note })

Rank(h, note) ==
    Min({ i \in 1 .. Size(h) + 1 : i = Size(h) + 1 \/ h.pool[h.sorted[i]].note > note })

Push(h, note, velocity) ==
    LET slot == Max(Node \ Taken(h))
    IN  [pool   |-> [h.pool EXCEPT ![slot] =
                       [note |-> note, velocity |-> velocity, next |-> h.root]],
         root   |-> slot,
         sorted |-> InsertAt(h.sorted, Rank(h, note), slot)]

NoteOn(h, note, velocity) == Push(MakeRoom(NoteOff(h, note)), note, velocity)

=============================================================================
