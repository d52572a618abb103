----------------------------- MODULE NoteMapOps -----------------------------
(***************************************************************************)
(* midipal/note_map.h: a small table from the note that was played to what *)
(* was made of it, kept until the note is released.                        *)
(***************************************************************************)
EXTENDS Integers, FiniteSetsExt

CONSTANTS kNoteMapSize          \* 32 (2 for the polyphonic sequencer)

MapIndex == 0 .. kNoteMapSize - 1

kNoNote == 255

EmptyMap == [i \in MapIndex |-> [note |-> kNoNote, value |-> 255]]

Holding(map, note) == { i \in MapIndex : map[i].note = note }

\* The entry Put overwrites: that of the note, else a free one, else the first.
\* A faulty variant: the search for a free entry is missing.
PutIndex_NeverFree(map, note) ==
    IF Holding(map, note) # {} THEN Min(Holding(map, note)) ELSE 0

PutIndex(map, note) ==
    IF Holding(map, note) # {} THEN Min(Holding(map, note))
    ELSE IF Holding(map, kNoNote) # {} THEN Min(Holding(map, kNoNote))
    ELSE 0

Put(map, note, value) ==
    [map EXCEPT ![PutIndex(map, note)] = [note |-> note, value |-> value]]

\* Find: the index of the entry, in a set that is empty if there is none.
Find(map, note) ==
    IF Holding(map, note) = {} THEN {} ELSE { Min(Holding(map, note)) }

\* What the applications do with an entry once its note was released.
Drop(map, i) == [map EXCEPT ![i].note = kNoNote]

=============================================================================
