--------------------------- MODULE TimedQueueOps ---------------------------
(***************************************************************************)
(* A line of waiting events, in the order in which they will leave, each   *)
(* with the number of ticks it still has to wait: the event scheduler with *)
(* no slot and no link.  EventScheduler implements these operations (run   *)
(* "scheduler"); the applications are modelled with them.                  *)
(***************************************************************************)
EXTENDS Integers, Sequences, SequencesExt

Event(note, velocity, wait) == [note |-> note, velocity |-> velocity, wait |-> wait]

\* A new event goes behind all those that do not wait longer than itself.
Inserted(line, event) ==
    LET places == { p \in 1 .. Len(line) + 1 :
                      p = Len(line) + 1 \/ event.wait < line[p].wait }
    IN  InsertAt(line, Min(places), event)

\* The events of this note and velocity keep their place but will not sound.
Struck(line, note, velocity, cancelled) ==
    LET Strike(e) == IF e.note = note /\ e.velocity = velocity
                       THEN [e EXCEPT !.note = cancelled] ELSE e
    IN  [i \in 1 .. Len(line) |-> Strike(line[i])]

\* The events whose time has come are the first ones.
Due(line) == Min({ k \in 0 .. Len(line) : k = Len(line) \/ line[k + 1].wait # 0 })

\* Of some notes, those that were not cancelled.
Alive(notes, cancelled) ==
    LET IsAlive(m) == m.note # cancelled IN SelectSeq(notes, IsAlive)

\* The notes whose time has come.
Leaving(line, cancelled) ==
    Alive([i \in 1 .. Due(line) |-> [note |-> line[i].note, velocity |-> line[i].velocity]],
          cancelled)

\* What those notes are, where neither order nor velocity matters.
Ended(line, cancelled) == { line[i].note : i \in 1 .. Due(line) } \ {cancelled}

\* What a tick leaves in the line.
Staying(line) ==
    [i \in 1 .. Len(line) - Due(line) |-> [line[i + Due(line)] EXCEPT !.wait = @ - 1]]

=============================================================================
