----------------------------- MODULE HeldNotes ------------------------------
(***************************************************************************)
(* What the note stack promises: the keys that are down, the most recent   *)
(* first, each once; when one more goes down than can be remembered, the   *)
(* one pressed longest ago is forgotten.                                   *)
(***************************************************************************)
EXTENDS HeldNotesOps

CONSTANTS Capacity, Note, Velocity

VARIABLES held      \* a sequence of [note, velocity]

Init == held = <<>>

Press(n, v) == held' = Pressed(held, Capacity, n, v)

Release(n) == held' = Without(held, n)

Forget == held' = <<>>

Next == \/ \E n \in Note, v \in Velocity : Press(n, v)
        \/ \E n \in Note : Release(n)
        \/ Forget

Spec == Init /\ [][Next]_held

=============================================================================
