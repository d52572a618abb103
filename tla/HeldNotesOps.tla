---------------------------- MODULE HeldNotesOps ----------------------------
(***************************************************************************)
(* The keys that are down, the most recent first, each once: the note      *)
(* stack with no node and no pointer.  NoteStack implements these          *)
(* operations (run "note_stack"); the applications are modelled with them. *)
(***************************************************************************)
EXTENDS Integers, Sequences, SequencesExt

Places(held, n) == { i \in 1 .. Len(held) : held[i].note = n }

Without(held, n) ==
    IF Places(held, n) = {} THEN held ELSE RemoveAt(held, Min(Places(held, n)))

\* With capacity keys down, the one pressed longest ago is forgotten.
Pressed(held, capacity, n, v) ==
    LET others == Without(held, n)
    IN  <<[note |-> n, velocity |-> v]>>
          \o SubSeq(others, 1, IF Len(others) = capacity THEN capacity - 1 ELSE Len(others))

\* The keys by rank, from 0: in the order they were pressed, or by pitch.
Played(held, index) == held[Len(held) - index]

Sorted(held, index) ==
    LET Lower(key) == Cardinality({ i \in 1 .. Len(held) : held[i].note < key.note })
    IN  held[CHOOSE i \in 1 .. Len(held) : Lower(held[i]) = index]

=============================================================================
