---------------------------- MODULE SchedulerOps ----------------------------
(***************************************************************************)
(* The operations of midipal/event_scheduler.{h,cc}, as operators on the   *)
(* value of the static members entries_, root_ptr_ and size_, so that the  *)
(* applications that keep note-offs in the queue can apply several of them *)
(* in one handler.                                                         *)
(*                                                                         *)
(* A queue q is a record [entries, root, size].  The occupied entries form *)
(* a singly linked list through "next"; List(q) is the sequence of slots   *)
(* met when following it from the root, and every loop of the code that    *)
(* walks the list is written as a statement about that sequence.           *)
(***************************************************************************)
EXTENDS Integers, Sequences, FiniteSetsExt

CONSTANTS kEventSchedulerSize   \* 90 (4 for the polyphonic sequencer)

kFreeSlot   == 255
kZombieSlot == 254

\* Slot 0 is never allocated: 0 is the null link.
Slot == 1 .. kEventSchedulerSize - 1

\* The width of every field of the code's structures.
Byte  == 0 .. 255
Entry == [note : Byte, velocity : Byte, when : Byte, next : Byte, tag : Byte]
Queue == [entries : [Slot -> Entry], root : Byte, size : Byte]

\* memset(entries_, kFreeSlot, ...): every byte of every entry is 0xff.
FreshEntry == [note |-> kFreeSlot, velocity |-> kFreeSlot, when |-> kFreeSlot,
               next |-> kFreeSlot, tag |-> kFreeSlot]

Fresh == [entries |-> [i \in Slot |-> FreshEntry], root |-> 0, size |-> 0]

-----------------------------------------------------------------------------
(* The linked list.  It cannot be longer than the pool, so it is one of    *)
(* finitely many sequences of distinct slots.  If the links ever closed a  *)
(* cycle or left the pool no sequence would satisfy IsList.                *)

Walks  == { [i \in 1 .. k |-> f[i]] : k \in 0 .. kEventSchedulerSize - 1, f \in [Slot -> Slot] }
Chains == { s \in Walks : \A i, j \in 1 .. Len(s) : s[i] = s[j] => i = j }

NextOf(s, i) == IF i < Len(s) THEN s[i + 1] ELSE 0

IsList(q, s) == /\ q.root = NextOf(s, 0)
                /\ \A i \in 1 .. Len(s) : q.entries[s[i]].next = NextOf(s, i)

List(q) == CHOOSE s \in Chains : IsList(q, s)

Slots(s) == { s[i] : i \in 1 .. Len(s) }

Occupied(q) == { i \in Slot : q.entries[i].note # kFreeSlot }

\* The entries of the list, from the one that leaves first.
Listed(q) == LET list == List(q) IN [i \in 1 .. Len(list) |-> q.entries[list[i]]]

-----------------------------------------------------------------------------
(* Schedule: the first free slot receives the event; it is linked before   *)
(* the first entry of the list that is due strictly later.                 *)

\* Faulty variants have an underscore in their name: each is a slip the code could have
\* made, and some property must notice it.
InsertPosition_BeforeEquals(q, when) ==
    LET line == Listed(q)
    IN  Min({ p \in 0 .. Len(line) : p = Len(line) \/ when <= line[p + 1].when })

InsertPosition_NeverFirst(q, when) ==
    LET line == Listed(q)
    IN  Min({ p \in 0 .. Len(line) : p = Len(line) \/ (p > 0 /\ when < line[p + 1].when) })

InsertPosition(q, when) ==
    LET line == Listed(q)
    IN  Min({ p \in 0 .. Len(line) : p = Len(line) \/ when < line[p + 1].when })

\* Write the event into a slot and link it behind the first p entries.
Link(q, slot, p, note, velocity, when, tag) ==
    LET list == List(q)
        new  == [note |-> note, velocity |-> velocity, when |-> when,
                 next |-> NextOf(list, p), tag |-> tag]
    IN  [entries |-> [i \in Slot |->
                        IF i = slot THEN new
                        ELSE IF p > 0 /\ i = list[p]
                          THEN [q.entries[i] EXCEPT !.next = slot]
                        ELSE q.entries[i]],
         root |-> IF p = 0 THEN slot ELSE q.root,
         size |-> (q.size + 1) % 256]

FreeSlots(q) == Slot \ Occupied(q)

Schedule_CountsRefused(q, note, velocity, when, tag) ==
    IF FreeSlots(q) = {}
      THEN [q EXCEPT !.size = (@ + 1) % 256]
      ELSE Link(q, Min(FreeSlots(q)), InsertPosition(q, when), note, velocity, when, tag)

Schedule(q, note, velocity, when, tag) ==
    IF FreeSlots(q) = {}
      THEN q                                       \* "Queue is full!"
      ELSE Link(q, Min(FreeSlots(q)), InsertPosition(q, when), note, velocity, when, tag)

\* Remove: the matching entries stay in the list, as zombies, until they are due.
Matching(q, note, velocity) ==
    { i \in Slots(List(q)) : q.entries[i].note = note /\ q.entries[i].velocity = velocity }

Mark(q, slots, note) ==
    [q EXCEPT !.entries = [i \in Slot |->
        IF i \in slots THEN [q.entries[i] EXCEPT !.note = note] ELSE q.entries[i]]]

Remove_Frees(q, note, velocity) == Mark(q, Matching(q, note, velocity), kFreeSlot)

Remove(q, note, velocity) == Mark(q, Matching(q, note, velocity), kZombieSlot)

\* The number of entries at the head of the list that are due now.
DueCount_AtMostOne(q) ==
    LET line == Listed(q)
    IN  IF line # <<>> /\ line[1].when = 0 THEN 1 ELSE 0

DueCount(q) ==
    LET line == Listed(q)
    IN  Min({ k \in 0 .. Len(line) : k = Len(line) \/ line[k + 1].when # 0 })

\* Tick: the due entries at the head are freed, the others come one tick closer.
Tick(q) ==
    LET list    == List(q)
        due     == DueCount(q)
        leaving == { list[k] : k \in 1 .. due }
        staying == Slots(list) \ leaving
    IN  [entries |-> [i \in Slot |->
                        IF i \in leaving
                          THEN [q.entries[i] EXCEPT !.note = kFreeSlot]
                        ELSE IF i \in staying
                          THEN [q.entries[i] EXCEPT !.when = (@ - 1) % 256]
                        ELSE q.entries[i]],
         root |-> NextOf(list, due),
         size |-> (q.size - due) % 256]

\* The note messages SendScheduledNotes writes before it calls Tick, in order.
DueNotes(q) ==
    LET line == Listed(q)
        note(i) == [note |-> line[i].note, velocity |-> line[i].velocity]
        IsAlive(m) == m.note # kZombieSlot
    IN  SelectSeq([i \in 1 .. DueCount(q) |-> note(i)], IsAlive)

=============================================================================
