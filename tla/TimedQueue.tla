----------------------------- MODULE TimedQueue -----------------------------
(***************************************************************************)
(* What the event scheduler promises to an application, with no slot and   *)
(* no link: a bounded line of events, each with the number of ticks it     *)
(* still has to wait.  An event leaves exactly at the tick its delay       *)
(* announced, events of a same tick leave in the order in which they were  *)
(* scheduled, an event that was removed never leaves but keeps its place   *)
(* until then, and an event is refused only if Capacity events wait.       *)
(***************************************************************************)
EXTENDS TimedQueueOps

CONSTANTS
    Capacity,
    Note, Velocity, Delay,
    Cancelled   \* stands for the note of an event that was removed

VARIABLES
    line,   \* the waiting events, in the order in which they will leave
    sent    \* the notes that left at the last tick

vars == <<line, sent>>

Init == line = <<>> /\ sent = <<>>

Accept(n, v, d) ==
    LET before == line
    IN  /\ sent' = <<>>
        /\ Len(before) < Capacity
        /\ line' = Inserted(before, Event(n, v, d))

Refuse == /\ sent' = <<>>
          /\ Len(line) = Capacity
          /\ line' = line

Cancel(n, v) ==
    LET before == line
    IN  /\ sent' = <<>>
        /\ line' = Struck(before, n, v, Cancelled)

\* The events whose time has come leave together; the others wait one tick less.
Deliver ==
    LET before == line
    IN  /\ sent' = Leaving(before, Cancelled)
        /\ line' = Staying(before)

Next == \/ \E n \in Note, v \in Velocity, d \in Delay : Accept(n, v, d)
        \/ Refuse
        \/ \E n \in Note, v \in Velocity : Cancel(n, v)
        \/ Deliver

Spec == Init /\ [][Next]_vars

=============================================================================
