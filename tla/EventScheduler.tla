--------------------------- MODULE EventScheduler ---------------------------
(***************************************************************************)
(* The event scheduler (midipal/event_scheduler.cc) driven the way App     *)
(* drives it (midipal/app.cc): an application schedules notes with         *)
(* SendLater, withdraws them with Remove, lets the due ones out with       *)
(* SendScheduledNotes at every clock tick, and empties the queue with      *)
(* FlushQueue when it stops.  Each call runs to its end before the next    *)
(* one; FlushQueue is a loop, and each of its turns is a step.             *)
(***************************************************************************)
EXTENDS SchedulerOps

CONSTANTS
    Note,       \* the MIDI notes applications schedule
    Velocity,   \* 0 is a note off
    Delay       \* the delays, in ticks, and hence all values "when" can take

ASSUME SizeAssumption == kEventSchedulerSize \in 2 .. 255
ASSUME DataAssumption ==
    /\ Note \subseteq 0 .. 127
    /\ Velocity \subseteq 0 .. 127
    /\ \E d \in 0 .. 255 : Delay = 0 .. d

VARIABLES
    queue,      \* entries_, root_ptr_ and size_
    sent,       \* the notes written to the output by the last call
    flushing    \* FlushQueue is in its loop

vars == <<queue, sent, flushing>>

Init == queue = Fresh /\ sent = <<>> /\ flushing = FALSE

-----------------------------------------------------------------------------

SendLater(note, velocity, when) ==
    /\ ~flushing
    /\ queue' = Schedule(queue, note, velocity, when, 0)
    /\ sent' = <<>>
    /\ UNCHANGED flushing

Withdraw(note, velocity) ==
    /\ ~flushing
    /\ queue' = Remove(queue, note, velocity)
    /\ sent' = <<>>
    /\ UNCHANGED flushing

\* Write the due notes, then Tick.
LetOut == queue' = Tick(queue) /\ sent' = DueNotes(queue)

SendScheduledNotes == ~flushing /\ LetOut /\ UNCHANGED flushing

FlushQueue == ~flushing /\ flushing' = TRUE /\ UNCHANGED <<queue, sent>>

\* while (event_scheduler.size()) { SendScheduledNotes(channel); }
FlushTurn   == flushing /\ queue.size # 0 /\ LetOut /\ UNCHANGED flushing
FlushReturn == /\ flushing /\ queue.size = 0
               /\ flushing' = FALSE
               /\ UNCHANGED <<queue, sent>>

Next == \/ \E n \in Note, v \in Velocity, d \in Delay : SendLater(n, v, d)
        \/ \E n \in Note, v \in Velocity : Withdraw(n, v)
        \/ SendScheduledNotes
        \/ FlushQueue
        \/ FlushTurn
        \/ FlushReturn

Spec == Init /\ [][Next]_vars

(* The processor runs the loop of FlushQueue once it is entered; nothing    *)
(* is assumed of the applications or of the clock.                         *)
FairSpec == Spec /\ WF_vars(FlushTurn \/ FlushReturn)

-----------------------------------------------------------------------------
(* The fields hold bytes; what is linked lies in the pool.                 *)
TypeOK ==
    /\ queue \in Queue
    /\ queue.root \in 0 .. kEventSchedulerSize - 1
    /\ queue.size \in 0 .. kEventSchedulerSize - 1
    /\ \A i \in Occupied(queue) :
         /\ queue.entries[i].next \in 0 .. kEventSchedulerSize - 1
         /\ queue.entries[i].note \in Note \cup {kZombieSlot}
         /\ queue.entries[i].velocity \in Velocity
         /\ queue.entries[i].when \in Delay
    /\ flushing \in BOOLEAN

(* The list reached from root_ptr_ is finite, holds every entry that is    *)
(* not free, each once, and size_ is its length: no entry leaks out of the *)
(* list and stays taken for ever, whatever the order of insertions,        *)
(* removals and ticks.                                                     *)
ListHoldsOccupied ==
    \E s \in Chains :
      /\ IsList(queue, s)
      /\ Slots(s) = Occupied(queue)
      /\ queue.size = Len(s)

(* The list is in the order of "when": Tick stops at the first entry that  *)
(* is not due and decrements all behind it, so an entry out of order would *)
(* wrap from 0 to 255 and leave 255 ticks late.                            *)
SortedByWhen ==
    \A s \in Chains : IsList(queue, s) =>
      \A i, j \in 1 .. Len(s) :
        i <= j => queue.entries[s[i]].when <= queue.entries[s[j]].when

(* The waiting events, as a timed queue sees them: those of the list, a     *)
(* zombie being one that was cancelled.                                    *)
Waiting ==
    LET line == Listed(queue)
    IN  [i \in 1 .. Len(line) |->
           [note |-> line[i].note, velocity |-> line[i].velocity, wait |-> line[i].when]]

Timed == INSTANCE TimedQueue WITH Capacity  <- kEventSchedulerSize - 1,
                                  Cancelled <- kZombieSlot,
                                  line      <- Waiting

(* The scheduler implements a timed queue (event_scheduler.cc seen through *)
(* App::SendLater, SendScheduledNotes and FlushQueue): an event leaves at  *)
(* its tick, in the order of scheduling among those of a tick, unless it   *)
(* was removed, and is refused only by a full pool.                        *)
ImplementsTimedQueue == Timed!Spec

(* FlushQueue returns: its loop tests size_, not the list, and would spin  *)
(* for ever if size_ could exceed what Tick frees.                         *)
FlushTerminates == flushing ~> ~flushing

=============================================================================
