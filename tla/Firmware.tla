------------------------------ MODULE Firmware ------------------------------
(***************************************************************************)
(* The interrupts and the output buffer (midipal/midipal.cc, the sending   *)
(* functions of midipal/app.cc).                                           *)
(*                                                                         *)
(* The main loop is interrupted by TIMER2, which lets itself be            *)
(* interrupted, and both by TIMER1, which does not.  stack has the main    *)
(* loop and the TIMER2 handlers above it; only the last one runs.  A frame *)
(* does one access to what it shares with the others in a step: at says    *)
(* which one is next, then where it goes on after a Send, byte what was    *)
(* read of the buffer and not yet written to the port, loaded what was     *)
(* read of num_clock_ticks.  An access of the ring buffer is one step: the *)
(* store or the load with its pointer, and the wait that precedes it.      *)
(*                                                                         *)
(* A message is two bytes, <<sender, 1>> and <<sender, 2>>; the sender is  *)
(* the height of the frame, 0 for TIMER1.                                  *)
(***************************************************************************)
EXTENDS Integers, Sequences

CONSTANTS
    BufferSize,         \* bytes that fit in the output buffer: 127
    MaxDepth,           \* bound: frames of the stack
    MaxTicks            \* bound: clock ticks not handled yet

ASSUME BufferAssumption == BufferSize \in Nat /\ BufferSize >= 2
ASSUME DepthAssumption  == MaxDepth \in Nat \ {0}
ASSUME TickAssumption   == MaxTicks \in 0 .. 255

VARIABLE firmware

Sender == 0 .. MaxDepth
Byte   == Sender \X {1, 2}
NoByte == <<>>

Frame ==
    [at : {"code", "read", "room", "oldest", "flush", "first", "second",
           "drain", "take", "put", "ticks", "load", "store", "clock"},
     then : {"code", "drain", "ticks"}, byte : Byte \cup {NoByte}, loaded : 0 .. 255]

\* What an interrupt may find half done.
Races == {"nested", "overtaken", "stale", "lost", "tick"}

\* busy says that the data register of the port is full, open which sender's first
\* byte was the last to leave, torn that a message was cut; due counts the ticks
\* of TIMER1 less the calls of OnClock, races what happened.
Members ==
    [stack : Seq(Frame), buffer : Seq(Byte), busy : BOOLEAN, realtime : BOOLEAN,
     num_clock_ticks : 0 .. 255, due : Int, open : Sender \cup {-1}, torn : BOOLEAN,
     races : SUBSET Races]

Entered(at) == [at |-> at, then |-> at, byte |-> NoByte, loaded |-> 0]
MainLoop    == Entered("code")
Timer2      == [Entered("read") EXCEPT !.then = "drain"]

Init ==
    \E realtime \in BOOLEAN :
      firmware = [stack |-> <<MainLoop>>, buffer |-> <<>>, busy |-> FALSE,
                  realtime |-> realtime, num_clock_ticks |-> 0, due |-> 0, open |-> -1,
                  torn |-> FALSE, races |-> {}]

-----------------------------------------------------------------------------
(* Functions on the record s.                                              *)

Height(s) == Len(s.stack)
Top(s)    == s.stack[Len(s.stack)]

\* The frames that the running one interrupted, at the given place; every frame,
\* for TIMER1.
Below(s, at)   == \E i \in 1 .. Height(s) - 1 : s.stack[i].at = at
Stopped(s, at) == \E i \in 1 .. Height(s) : s.stack[i].at = at

\* The frames with a byte in hand, and whether a byte that leaves overtakes one.
Hands(s)     == { i \in 1 .. Height(s) : s.stack[i].byte # NoByte }
Overtakes(s) == Hands(s) \ {Height(s)} # {}

\* The running frame becomes another, or only goes on.
Becomes(s, frame) == [s EXCEPT !.stack[Height(s)] = frame]
Goes(s, at)       == Becomes(s, [Top(s) EXCEPT !.at = at])

Raced(s, race, happens) == IF happens THEN [s EXCEPT !.races = @ \cup {race}] ELSE s

Room(s)     == BufferSize - Len(s.buffer)
Popped(s)   == [s EXCEPT !.buffer = Tail(@)]
Wrote(s, n) == [s EXCEPT !.buffer = Append(@, <<Height(s), n>>)]

\* A byte leaves.
Put(s, byte) ==
    LET opens  == byte[2] = 1 /\ s.open = -1
        closes == byte[2] = 2 /\ s.open = byte[1]
    IN  [s EXCEPT !.busy = TRUE, !.open = IF opens THEN byte[1] ELSE -1,
                  !.torn = @ \/ ~(opens \/ closes)]

-----------------------------------------------------------------------------
(* Send3, by the main loop or by a handler.                                *)

\* An application sends a message, at most one in a handler.
Send ==
    /\ Top(firmware).at \in {"code", "read", "clock"}
    /\ firmware' = Goes(firmware, "room")

\* FlushOutputBuffer(2): the loop ends, or goes on ...
TestRoom ==
    /\ Top(firmware).at = "room"
    /\ firmware' = Goes(firmware, IF Room(firmware) < 2 THEN "oldest" ELSE "first")

\* ... takes a byte from the buffer, which waits for one ...
TakeOldest ==
    /\ Top(firmware).at = "oldest" /\ firmware.buffer # <<>>
    /\ firmware' = Becomes(Popped(firmware),
                           [Top(firmware) EXCEPT !.at = "flush", !.byte = Head(firmware.buffer)])

\* ... and writes it, which waits for the port.
WriteOldest ==
    /\ Top(firmware).at = "flush" /\ ~firmware.busy
    /\ firmware' =
         Becomes(Raced(Put(firmware, Top(firmware).byte), "overtaken", Overtakes(firmware)),
                 [Top(firmware) EXCEPT !.at = "room", !.byte = NoByte])

\* The two writes, each of which waits for a place.
WriteFirst ==
    /\ Top(firmware).at = "first" /\ Room(firmware) > 0
    /\ firmware' =
         Goes(Raced(Wrote(firmware, 1), "nested", Below(firmware, "second")), "second")

\* A faulty variant: the second write does not wait.
WriteSecond_Overwrites ==
    /\ Top(firmware).at = "second"
    /\ firmware' = Goes(Wrote(firmware, 2), Top(firmware).then)

WriteSecond ==
    /\ Top(firmware).at = "second" /\ Room(firmware) > 0
    /\ firmware' = Goes(Wrote(firmware, 2), Top(firmware).then)

-----------------------------------------------------------------------------
(* TIMER2_OVF_vect.                                                        *)

Interrupt ==
    /\ Height(firmware) < MaxDepth
    /\ firmware' = [firmware EXCEPT !.stack = Append(@, Timer2)]

\* No byte was received, or its handler sends nothing.
Read ==
    /\ Top(firmware).at = "read"
    /\ firmware' = Goes(firmware, "drain")

Ticking == [Top(firmware) EXCEPT !.at = "ticks", !.then = "ticks", !.byte = NoByte]

\* The test of the buffer and of the port, then the access to the one ...
Drain ==
    /\ Top(firmware).at = "drain"
    /\ firmware' = IF firmware.buffer # <<>> /\ ~firmware.busy THEN Goes(firmware, "take")
                   ELSE Becomes(firmware, Ticking)

InHand == [Top(firmware) EXCEPT !.at = "put", !.byte = Head(firmware.buffer)]

\* A faulty variant: the byte stays in the buffer.
Take_Keeps ==
    /\ Top(firmware).at = "take"
    /\ firmware' = IF firmware.buffer = <<>>
                   THEN Becomes(Raced(firmware, "stale", TRUE), Ticking)
                   ELSE Becomes(firmware, InHand)

\* ... which does not wait: what is read of an empty buffer is stale ...
Take ==
    /\ Top(firmware).at = "take"
    /\ firmware' = IF firmware.buffer = <<>>
                   THEN Becomes(Raced(firmware, "stale", TRUE), Ticking)
                   ELSE Becomes(Popped(firmware), InHand)

\* ... and to the other: on a full register the byte is lost.
Overwrite ==
    /\ Top(firmware).at = "put"
    /\ firmware' =
         Becomes(IF firmware.busy THEN Raced(firmware, "lost", TRUE)
                 ELSE Raced(Put(firmware, Top(firmware).byte), "overtaken", Overtakes(firmware)),
                 Ticking)

\* while (num_clock_ticks): the handler returns, or ...
Return ==
    /\ Top(firmware).at = "ticks" /\ firmware.num_clock_ticks = 0
    /\ firmware' = [firmware EXCEPT !.stack = SubSeq(@, 1, Height(firmware) - 1)]

HasTicks ==
    /\ Top(firmware).at = "ticks" /\ firmware.num_clock_ticks > 0
    /\ firmware' = Goes(firmware, "load")

\* ... --num_clock_ticks, a read and a write, and OnClock.
Load ==
    /\ Top(firmware).at = "load"
    /\ firmware' = Becomes(firmware, [Top(firmware) EXCEPT !.at = "store",
                                                       !.loaded = firmware.num_clock_ticks])

\* A faulty variant: the ticks are answered by one OnClock.
Store_Clears ==
    /\ Top(firmware).at = "store"
    /\ firmware' =
         Becomes([Raced(firmware, "tick", Below(firmware, "load") \/ Below(firmware, "store"))
                    EXCEPT !.num_clock_ticks = 0, !.due = @ - 1],
                 [Top(firmware) EXCEPT !.at = "clock", !.loaded = 0])

Store ==
    /\ Top(firmware).at = "store"
    /\ firmware' =
         Becomes([Raced(firmware, "tick", Below(firmware, "load") \/ Below(firmware, "store"))
                    EXCEPT !.num_clock_ticks = (Top(firmware).loaded - 1) % 256, !.due = @ - 1],
                 [Top(firmware) EXCEPT !.at = "clock", !.loaded = 0])

\* OnClock sends nothing.
Clock ==
    /\ Top(firmware).at = "clock"
    /\ firmware' = Goes(firmware, "ticks")

-----------------------------------------------------------------------------
(* TIMER1_COMPA_vect, in one step.                                         *)

\* An application that does not handle the clock in real time.
CountTick ==
    /\ ~firmware.realtime /\ firmware.due < MaxTicks
    /\ firmware' = [Raced(firmware, "tick", Stopped(firmware, "store"))
                      EXCEPT !.num_clock_ticks = (@ + 1) % 256, !.due = @ + 1]

\* A turn of FlushOutputBuffer(2), of which there are never more than two.
Flushed(s) == IF Room(s) < 2 THEN Popped(Put(s, Head(s.buffer))) ELSE s

\* One that does and sends a message, with its own FlushOutputBuffer ...
SendFromTimer1 ==
    LET s == Raced(Flushed(Flushed(firmware)), "overtaken",
                   Room(firmware) < 2 /\ Hands(firmware) # {})
    IN  /\ firmware.realtime
        /\ firmware' = [Raced(s, "nested", Stopped(firmware, "second"))
                          EXCEPT !.buffer = @ \o << <<0, 1>>, <<0, 2>> >>]

\* ... or a clock byte, by SendNow, as the code below it does where it may send.
\* It may pass between two bytes of a message.
SendNow ==
    /\ firmware.realtime \/ Top(firmware).at \in {"code", "read", "clock"}
    /\ firmware' = [firmware EXCEPT !.busy = TRUE]

\* The port has sent its byte.
Shift == firmware.busy /\ firmware' = [firmware EXCEPT !.busy = FALSE]

Next ==
    \/ Send
    \/ TestRoom
    \/ TakeOldest
    \/ WriteOldest
    \/ WriteFirst
    \/ WriteSecond
    \/ Interrupt
    \/ Read
    \/ Drain
    \/ Take
    \/ Overwrite
    \/ Return
    \/ HasTicks
    \/ Load
    \/ Store
    \/ Clock
    \/ CountTick
    \/ SendFromTimer1
    \/ SendNow
    \/ Shift

Spec == Init /\ [][Next]_firmware

\* The invariants say nothing of what follows a race.
Unraced == firmware.races = {}

-----------------------------------------------------------------------------

\* The main loop is never left, handlers nest as deep as they may, and the buffer
\* holds no more than fits: what each sender writes waits for a place, also when the
\* place it found was taken meanwhile.
TypeOK ==
    /\ firmware \in Members
    /\ Height(firmware) \in 1 .. MaxDepth
    /\ Len(firmware.buffer) <= BufferSize

\* Every tick that TIMER1 counts is answered by one OnClock, also when a handler
\* that answers one is interrupted by another that answers the next: unless an
\* interrupt came between the test, the reading and the writing of the count.
TicksKept == "tick" \notin firmware.races => firmware.num_clock_ticks = firmware.due

\* Each message leaves whole, although the main loop, TIMER2 handlers within each
\* other and TIMER1 all send, and all empty the full buffer: unless a Send was
\* interrupted by another between its two writes, a byte that was read and not yet
\* written to the port was overtaken by the next, or the byte that a handler found
\* was gone when it took it or the port full again when it wrote it.
WholeMessages == firmware.races \subseteq {"tick"} => ~firmware.torn
=============================================================================
