--------------------------- MODULE FirmwareProofs ---------------------------
(***************************************************************************)
(* Proofs about the two ends of the serial port.  The interrupts and the   *)
(* output buffer, for a buffer of any size and handlers nested to any      *)
(* depth; then the MIDI parser, for any bytes on the cable.                *)
(***************************************************************************)
EXTENDS Firmware, MidiParser, TLAPS

-----------------------------------------------------------------------------
(* The functions on the record, member by member.                          *)

Places ==
    {"code", "read", "room", "oldest", "flush", "first", "second",
     "drain", "take", "put", "ticks", "load", "store", "clock"}

\* What only the clock touches.
SameClock(s, t) ==
    /\ t.realtime = s.realtime /\ t.num_clock_ticks = s.num_clock_ticks /\ t.due = s.due

\* The frame that runs becomes f.
Moved(stack, f) == [stack EXCEPT ![Len(stack)] = f]

LEMMA MovedIs ==
    ASSUME NEW stack \in Seq(Frame), stack # <<>>, NEW f \in Frame
    PROVE  /\ Moved(stack, f) \in Seq(Frame) /\ Len(Moved(stack, f)) = Len(stack)
           /\ Len(stack) \in Nat \ {0} /\ stack[Len(stack)] \in Frame
           /\ Moved(stack, f)[Len(stack)] = f
           /\ \A i \in 1 .. Len(stack) - 1 : Moved(stack, f)[i] = stack[i]
  BY DEF Moved

\* What a message is made of, as far as it was sent.
SameStream(s, t) == t.buffer = s.buffer /\ t.open = s.open /\ t.torn = s.torn

LEMMA BecomesIs ==
    ASSUME NEW s \in Members, NEW f \in Frame, s.stack # <<>>
    PROVE  LET t == Becomes(s, f)
           IN  /\ t \in Members /\ t.stack = Moved(s.stack, f)
               /\ SameStream(s, t) /\ SameClock(s, t) /\ t.races = s.races
<1> DEFINE stack == Moved(s.stack, f)
           t     == Becomes(s, f)
<1>1. stack \in Seq(Frame)
  BY MovedIs DEF Members
<1>2. t = [s EXCEPT !.stack = stack]
  BY DEF Becomes, Moved, Height
<1> HIDE DEF stack, t
<1>3. t \in Members
  BY <1>1, <1>2 DEF Members
<1>4. t.stack = stack
  BY <1>2 DEF Members
<1>5. SameStream(s, t) /\ SameClock(s, t) /\ t.races = s.races
  BY <1>2 DEF Members, SameStream, SameClock
<1>6. QED
  BY <1>3, <1>4, <1>5 DEF stack, t

LEMMA PoppedIs ==
    ASSUME NEW s \in Members, s.buffer # <<>>
    PROVE  LET t == Popped(s)
           IN  /\ t \in Members
               /\ t.buffer = Tail(s.buffer)
               /\ t.stack = s.stack /\ t.busy = s.busy /\ t.open = s.open /\ t.torn = s.torn
               /\ t.races = s.races /\ SameClock(s, t)
<1>1. Tail(s.buffer) \in Seq(Byte)
  BY DEF Members
<1>2. QED
  BY <1>1 DEF Popped, Members, SameClock

LEMMA PutIs ==
    ASSUME NEW s \in Members, NEW byte \in Byte
    PROVE  LET t == Put(s, byte)
           IN  /\ t \in Members
               /\ t.busy = TRUE
               /\ t.open = IF byte[2] = 1 /\ s.open = -1 THEN byte[1] ELSE -1
               /\ t.torn = (s.torn \/ ~(\/ byte[2] = 1 /\ s.open = -1
                                        \/ byte[2] = 2 /\ s.open = byte[1]))
               /\ t.stack = s.stack /\ t.buffer = s.buffer
               /\ t.races = s.races /\ SameClock(s, t)
<1> DEFINE open == IF byte[2] = 1 /\ s.open = -1 THEN byte[1] ELSE -1
           torn == s.torn \/ ~(\/ byte[2] = 1 /\ s.open = -1
                               \/ byte[2] = 2 /\ s.open = byte[1])
           t    == Put(s, byte)
<1>1. open \in Sender \cup {-1} /\ torn \in BOOLEAN
  BY DEF Byte, Members
<1>2. t = [s EXCEPT !.busy = TRUE, !.open = open, !.torn = torn]
  BY DEF Put
<1> HIDE DEF open, torn, t
<1>3. t \in Members
  BY <1>1, <1>2 DEF Members
<1>4. /\ t.busy = TRUE /\ t.open = open /\ t.torn = torn
      /\ t.stack = s.stack /\ t.buffer = s.buffer
      /\ t.races = s.races /\ SameClock(s, t)
  BY <1>1, <1>2 DEF Members, SameClock
<1>5. QED
  BY <1>3, <1>4 DEF open, torn, t

LEMMA RacedIs ==
    ASSUME NEW s \in Members, NEW race \in Races, NEW happens \in BOOLEAN
    PROVE  LET t == Raced(s, race, happens)
           IN  /\ t \in Members
               /\ t.races = IF happens THEN s.races \cup {race} ELSE s.races
               /\ t.stack = s.stack /\ t.buffer = s.buffer /\ t.busy = s.busy
               /\ t.open = s.open /\ t.torn = s.torn /\ SameClock(s, t)
  BY DEF Raced, Members, SameClock

-----------------------------------------------------------------------------
(* The frames.                                                             *)

\* The places of a handler, which the main loop never reaches.
Handled == {"read", "drain", "take", "put", "ticks", "load", "store", "clock"}

\* The places between a byte's reading and its writing.
Holds == {"flush", "put"}

\* The main loop, and only it, goes back to the code after a Send; a byte is in
\* hand exactly where one is held.
Proper(i, f) ==
    /\ f.then = "code" <=> i = 1
    /\ f.at \in Handled => i # 1
    /\ f.at \in Holds <=> f.byte # NoByte

TypeInv == TypeOK /\ \A i \in 1 .. Height(firmware) : Proper(i, firmware.stack[i])

LEMMA TypeFacts ==
    ASSUME TypeInv
    PROVE  /\ firmware \in Members
           /\ firmware.stack \in Seq(Frame) /\ firmware.stack # <<>>
           /\ Height(firmware) \in Nat \ {0} /\ Height(firmware) = Len(firmware.stack)
           /\ Height(firmware) <= MaxDepth
           /\ Top(firmware) = firmware.stack[Height(firmware)]
           /\ Top(firmware) \in Frame /\ Proper(Height(firmware), Top(firmware))
           /\ firmware.buffer \in Seq(Byte) /\ Len(firmware.buffer) \in 0 .. BufferSize
           /\ Room(firmware) \in Nat /\ Room(firmware) = BufferSize - Len(firmware.buffer)
           /\ Room(firmware) < 2 => firmware.buffer # <<>>
<1>1. /\ firmware \in Members /\ firmware.stack \in Seq(Frame) /\ firmware.buffer \in Seq(Byte)
      /\ Height(firmware) = Len(firmware.stack) /\ Height(firmware) \in 1 .. MaxDepth
  BY DEF TypeInv, TypeOK, Members, Height
<1>2. /\ firmware.stack # <<>> /\ Height(firmware) \in Nat \ {0} /\ Height(firmware) <= MaxDepth
      /\ Top(firmware) = firmware.stack[Height(firmware)] /\ Top(firmware) \in Frame
  BY <1>1, DepthAssumption DEF Top
<1>3. Proper(Height(firmware), Top(firmware))
  BY <1>1, <1>2, DepthAssumption DEF TypeInv
<1>4. Len(firmware.buffer) \in 0 .. BufferSize
  BY <1>1, BufferAssumption DEF TypeInv, TypeOK
<1>5. Room(firmware) \in Nat /\ Room(firmware) = BufferSize - Len(firmware.buffer)
  BY <1>4, BufferAssumption DEF Room
<1>6. Room(firmware) < 2 => firmware.buffer # <<>>
  BY <1>1, <1>5, BufferAssumption
<1>7. QED
  BY <1>1, <1>2, <1>3, <1>4, <1>5, <1>6

\* The frame that runs becomes f; what else changes is said beside it.
Runs(f) ==
    /\ f \in Frame /\ Proper(Height(firmware), f)
    /\ firmware' \in Members /\ firmware'.stack = Moved(firmware.stack, f)
    /\ Len(firmware'.buffer) <= BufferSize

\* A step of the frame that runs.
LEMMA MoveKeepsType ==
    ASSUME TypeInv, NEW f, Runs(f)
    PROVE  TypeInv'
<1>1. /\ Len(firmware'.stack) = Len(firmware.stack)
      /\ firmware'.stack[Height(firmware)] = f
      /\ \A i \in 1 .. Height(firmware) - 1 : firmware'.stack[i] = firmware.stack[i]
  <2>1. /\ firmware.stack \in Seq(Frame) /\ firmware.stack # <<>>
        /\ Height(firmware) = Len(firmware.stack)
    BY TypeFacts
  <2>2. LET stack == Moved(firmware.stack, f)
        IN  /\ Len(stack) = Len(firmware.stack) /\ stack[Len(firmware.stack)] = f
            /\ \A i \in 1 .. Len(firmware.stack) - 1 : stack[i] = firmware.stack[i]
    BY <2>1, MovedIs DEF Runs
  <2>3. QED
    BY <2>1, <2>2 DEF Runs
<1>2. Height(firmware)' = Height(firmware) /\ Height(firmware) \in Nat \ {0}
  BY <1>1, TypeFacts DEF Height
<1>3. \A i \in 1 .. Height(firmware) : Proper(i, firmware'.stack[i])
  <2>1. SUFFICES ASSUME NEW i \in 1 .. Height(firmware) PROVE Proper(i, firmware'.stack[i])
    OBVIOUS
  <2>2. CASE i = Height(firmware)
    BY <1>1, <2>2 DEF Runs
  <2>3. CASE i # Height(firmware)
    BY <1>1, <1>2, <2>3 DEF TypeInv
  <2>4. QED
    BY <2>2, <2>3
<1>4. TypeOK'
  BY <1>2 DEF TypeInv, TypeOK, Runs
<1>5. QED
  BY <1>2, <1>3, <1>4 DEF TypeInv

\* A step that moves no frame.
LEMMA StillKeepsType ==
    ASSUME TypeInv, firmware' \in Members, firmware'.stack = firmware.stack,
           Len(firmware'.buffer) <= BufferSize
    PROVE  TypeInv'
<1>1. Height(firmware)' = Height(firmware)
  BY DEF Height
<1>2. QED
  BY <1>1 DEF TypeInv, TypeOK

LEMMA TypeInit == Init => TypeInv
<1> SUFFICES ASSUME Init PROVE TypeInv
  OBVIOUS
<1>1. PICK realtime \in BOOLEAN :
        firmware = [stack |-> <<MainLoop>>, buffer |-> <<>>, busy |-> FALSE,
                    realtime |-> realtime, num_clock_ticks |-> 0, due |-> 0, open |-> -1,
                    torn |-> FALSE, races |-> {}]
  BY DEF Init
<1>2. MainLoop = [at |-> "code", then |-> "code", byte |-> NoByte, loaded |-> 0]
  BY DEF MainLoop, Entered
<1>3. MainLoop \in Frame /\ Proper(1, MainLoop)
  BY <1>2 DEF Frame, Proper, Handled, Holds
<1> HIDE DEF MainLoop
<1>4. firmware \in Members
  BY <1>1, <1>3 DEF Members
<1>5. Height(firmware) = 1 /\ firmware.stack[1] = MainLoop /\ Len(firmware.buffer) = 0
  BY <1>1 DEF Height
<1>6. QED
  BY <1>3, <1>4, <1>5, BufferAssumption, DepthAssumption DEF TypeInv, TypeOK

-----------------------------------------------------------------------------
(* The actions, member by member.                                          *)

LEMMA FrameAt ==
    ASSUME NEW f \in Frame, NEW at \in Places
    PROVE  LET g == [f EXCEPT !.at = at]
           IN  /\ g \in Frame
               /\ g.at = at /\ g.then = f.then /\ g.byte = f.byte /\ g.loaded = f.loaded
  BY DEF Frame, Places

\* Something is done to the record, which leaves the frames alone, and the frame that
\* runs becomes f.
LEMMA RunsTo ==
    ASSUME TypeInv, NEW s \in Members, s.stack = firmware.stack, Len(s.buffer) <= BufferSize,
           NEW f \in Frame, Proper(Height(firmware), f), firmware' = Becomes(s, f)
    PROVE  /\ Runs(f)
           /\ SameStream(s, firmware') /\ SameClock(s, firmware') /\ firmware'.races = s.races
<1>1. s.stack # <<>>
  BY TypeFacts
<1>2. LET t == Becomes(s, f)
      IN  /\ t \in Members /\ t.stack = Moved(s.stack, f)
          /\ SameStream(s, t) /\ SameClock(s, t) /\ t.races = s.races
  BY <1>1, BecomesIs
<1>3. QED
  BY <1>2 DEF Runs, SameStream

\* The same of a frame that only goes on.
LEMMA GoesOn ==
    ASSUME TypeInv, NEW s \in Members, s.stack = firmware.stack, Len(s.buffer) <= BufferSize,
           NEW at \in Places, firmware' = Goes(s, at),
           at \notin Holds, Top(firmware).at \notin Holds,
           at \in Handled => Top(firmware).then # "code"
    PROVE  /\ \E f : Runs(f) /\ f.at = at
           /\ SameStream(s, firmware') /\ SameClock(s, firmware') /\ firmware'.races = s.races
<1> DEFINE f == [Top(firmware) EXCEPT !.at = at]
<1>1. Top(firmware) \in Frame /\ Proper(Height(firmware), Top(firmware))
  BY TypeFacts
<1>2. /\ f \in Frame /\ f.at = at
      /\ f.then = Top(firmware).then /\ f.byte = Top(firmware).byte
  BY <1>1, FrameAt
<1>3. firmware' = Becomes(s, f)
  BY DEF Goes, Top
<1> HIDE DEF f
<1>4. Proper(Height(firmware), f)
  BY <1>1, <1>2 DEF Proper
<1>5. QED
  BY <1>2, <1>3, <1>4, RunsTo

LEMMA BytesAreFull == \A byte \in Byte : byte # NoByte
  BY DEF Byte, NoByte

LEMMA TakeOldestIs ==
    ASSUME TypeInv, TakeOldest
    PROVE  /\ \E f : Runs(f) /\ f.at = "flush" /\ f.byte = Head(firmware.buffer)
           /\ firmware.buffer # <<>> /\ firmware'.buffer = Tail(firmware.buffer)
           /\ firmware'.open = firmware.open /\ firmware'.torn = firmware.torn
           /\ SameClock(firmware, firmware') /\ firmware'.races = firmware.races
<1> DEFINE s == Popped(firmware)
           f == [Top(firmware) EXCEPT !.at = "flush", !.byte = Head(firmware.buffer)]
<1>1. firmware.buffer # <<>> /\ Head(firmware.buffer) \in Byte
  BY TypeFacts DEF TakeOldest
<1>2. /\ s \in Members /\ s.buffer = Tail(firmware.buffer) /\ s.stack = firmware.stack
      /\ s.open = firmware.open /\ s.torn = firmware.torn /\ s.races = firmware.races
      /\ SameClock(firmware, s)
  BY <1>1, TypeFacts, PoppedIs
<1>3. Top(firmware) \in Frame /\ Proper(Height(firmware), Top(firmware))
  BY TypeFacts
<1>4. /\ f \in Frame /\ f.at = "flush" /\ f.byte = Head(firmware.buffer)
      /\ f.then = Top(firmware).then
  BY <1>1, <1>3 DEF Frame
<1>5. firmware' = Becomes(s, f)
  BY DEF TakeOldest
<1> HIDE DEF s, f
<1>6. Proper(Height(firmware), f)
  <2>1. Head(firmware.buffer) # NoByte
    BY <1>1, BytesAreFull
  <2>2. QED
    BY <1>3, <1>4, <2>1 DEF Proper, Handled, Holds
<1>7. Len(s.buffer) <= BufferSize
  BY <1>1, <1>2, TypeFacts, BufferAssumption
<1>8. /\ Runs(f)
      /\ SameStream(s, firmware') /\ SameClock(s, firmware') /\ firmware'.races = s.races
  BY <1>2, <1>4, <1>5, <1>6, <1>7, RunsTo
<1>9. QED
  BY <1>1, <1>2, <1>4, <1>8 DEF SameStream, SameClock

LEMMA WriteOldestIs ==
    ASSUME TypeInv, WriteOldest
    PROVE  LET byte == Top(firmware).byte
               s    == Put(firmware, byte)
           IN  /\ \E f : Runs(f) /\ f.at = "room"
               /\ byte \in Byte
               /\ firmware'.buffer = firmware.buffer
               /\ firmware'.open = s.open /\ firmware'.torn = s.torn
               /\ SameClock(firmware, firmware')
               /\ firmware'.races = IF Overtakes(firmware)
                                    THEN firmware.races \cup {"overtaken"} ELSE firmware.races
<1> DEFINE byte == Top(firmware).byte
           s    == Put(firmware, byte)
           r    == Raced(s, "overtaken", Overtakes(firmware))
           f    == [Top(firmware) EXCEPT !.at = "room", !.byte = NoByte]
<1>1. Top(firmware) \in Frame /\ Proper(Height(firmware), Top(firmware)) /\ firmware \in Members
  BY TypeFacts
<1>2. byte \in Byte
  BY <1>1 DEF WriteOldest, Proper, Frame, Holds
<1>3. /\ s \in Members /\ s.stack = firmware.stack /\ s.buffer = firmware.buffer
      /\ s.races = firmware.races /\ SameClock(firmware, s)
  BY <1>1, <1>2, PutIs, ZenonT(60)
<1>4. Overtakes(firmware) \in BOOLEAN /\ "overtaken" \in Races
  BY DEF Overtakes, Races
<1>5. /\ f \in Frame /\ f.at = "room" /\ f.byte = NoByte /\ f.then = Top(firmware).then
  BY <1>1 DEF Frame
<1>6. firmware' = Becomes(r, f)
  BY DEF WriteOldest
<1> HIDE DEF s, f, byte
<1>7. /\ r \in Members /\ r.stack = s.stack /\ r.buffer = s.buffer
      /\ r.open = s.open /\ r.torn = s.torn /\ SameClock(s, r)
      /\ r.races = IF Overtakes(firmware) THEN s.races \cup {"overtaken"} ELSE s.races
  BY <1>3, <1>4, RacedIs
<1> HIDE DEF r
<1>8. Proper(Height(firmware), f)
  BY <1>1, <1>5 DEF Proper, Handled, Holds
<1>9. Len(r.buffer) <= BufferSize
  BY <1>3, <1>7, TypeFacts, BufferAssumption
<1>10. r.stack = firmware.stack
  BY <1>3, <1>7
<1>11. /\ Runs(f)
       /\ SameStream(r, firmware') /\ SameClock(r, firmware') /\ firmware'.races = r.races
  BY <1>5, <1>6, <1>7, <1>8, <1>9, <1>10, RunsTo
<1>12. QED
  BY <1>2, <1>3, <1>5, <1>7, <1>11 DEF SameStream, SameClock, s, byte

LEMMA WroteIs ==
    ASSUME TypeInv, Room(firmware) > 0, NEW n \in {1, 2}
    PROVE  LET s == Wrote(firmware, n)
           IN  /\ s \in Members /\ s.stack = firmware.stack
               /\ s.buffer = Append(firmware.buffer, <<Height(firmware), n>>)
               /\ Len(s.buffer) <= BufferSize
               /\ s.open = firmware.open /\ s.torn = firmware.torn
               /\ s.races = firmware.races /\ SameClock(firmware, s)
               /\ <<Height(firmware), n>> \in Byte
<1> DEFINE buffer == Append(firmware.buffer, <<Height(firmware), n>>)
           s      == Wrote(firmware, n)
<1>1. <<Height(firmware), n>> \in Byte
  BY TypeFacts, DepthAssumption DEF Byte, Sender
<1>2. /\ firmware \in Members /\ firmware.buffer \in Seq(Byte)
      /\ Len(firmware.buffer) < BufferSize
  BY TypeFacts, BufferAssumption
<1>3. buffer \in Seq(Byte) /\ Len(buffer) <= BufferSize
  BY <1>1, <1>2, BufferAssumption
<1>4. s = [firmware EXCEPT !.buffer = buffer]
  BY DEF Wrote
<1> HIDE DEF buffer, s
<1>5. s \in Members /\ s.buffer = buffer
  BY <1>2, <1>3, <1>4 DEF Members
<1>6. /\ s.stack = firmware.stack /\ s.open = firmware.open /\ s.torn = firmware.torn
      /\ s.races = firmware.races /\ SameClock(firmware, s)
  BY <1>2, <1>4 DEF Members, SameClock
<1>7. QED
  BY <1>1, <1>3, <1>5, <1>6 DEF buffer, s

LEMMA WriteFirstIs ==
    ASSUME TypeInv, WriteFirst
    PROVE  /\ \E f : Runs(f) /\ f.at = "second"
           /\ firmware'.buffer = Append(firmware.buffer, <<Height(firmware), 1>>)
           /\ <<Height(firmware), 1>> \in Byte
           /\ firmware'.open = firmware.open /\ firmware'.torn = firmware.torn
           /\ SameClock(firmware, firmware')
           /\ firmware'.races = IF Below(firmware, "second")
                                THEN firmware.races \cup {"nested"} ELSE firmware.races
<1> DEFINE s == Wrote(firmware, 1)
           r == Raced(s, "nested", Below(firmware, "second"))
<1>1. firmware' = Goes(r, "second") /\ Room(firmware) > 0 /\ Top(firmware).at = "first"
  BY DEF WriteFirst
<1>2. /\ s \in Members /\ s.stack = firmware.stack
      /\ s.buffer = Append(firmware.buffer, <<Height(firmware), 1>>)
      /\ Len(s.buffer) <= BufferSize
      /\ s.open = firmware.open /\ s.torn = firmware.torn
      /\ s.races = firmware.races /\ SameClock(firmware, s)
      /\ <<Height(firmware), 1>> \in Byte
  BY <1>1, WroteIs
<1>3. Below(firmware, "second") \in BOOLEAN /\ "nested" \in Races
  BY DEF Below, Races
<1> HIDE DEF s
<1>4. /\ r \in Members /\ r.stack = s.stack /\ r.buffer = s.buffer
      /\ r.open = s.open /\ r.torn = s.torn /\ SameClock(s, r)
      /\ r.races = IF Below(firmware, "second") THEN s.races \cup {"nested"} ELSE s.races
  BY <1>2, <1>3, RacedIs
<1> HIDE DEF r
<1>5. "second" \in Places /\ "second" \notin Handled
  BY DEF Places, Handled
<1>6. r.stack = firmware.stack /\ Len(r.buffer) <= BufferSize /\ {"first", "second"} \cap Holds = {}
  BY <1>2, <1>4 DEF Holds
<1>7. /\ \E f : Runs(f) /\ f.at = "second"
      /\ SameStream(r, firmware') /\ SameClock(r, firmware') /\ firmware'.races = r.races
  BY <1>1, <1>4, <1>5, <1>6, GoesOn
<1>8. QED
  BY <1>2, <1>4, <1>7 DEF SameStream, SameClock

LEMMA WriteSecondIs ==
    ASSUME TypeInv, WriteSecond
    PROVE  /\ \E f : Runs(f) /\ f.at \in {"code", "drain", "ticks"}
           /\ firmware'.buffer = Append(firmware.buffer, <<Height(firmware), 2>>)
           /\ <<Height(firmware), 2>> \in Byte
           /\ firmware'.open = firmware.open /\ firmware'.torn = firmware.torn
           /\ SameClock(firmware, firmware') /\ firmware'.races = firmware.races
<1> DEFINE s  == Wrote(firmware, 2)
           at == Top(firmware).then
<1>1. firmware' = Goes(s, at) /\ Room(firmware) > 0 /\ Top(firmware).at = "second"
  BY DEF WriteSecond
<1>2. /\ s \in Members /\ s.stack = firmware.stack
      /\ s.buffer = Append(firmware.buffer, <<Height(firmware), 2>>)
      /\ Len(s.buffer) <= BufferSize
      /\ s.open = firmware.open /\ s.torn = firmware.torn
      /\ s.races = firmware.races /\ SameClock(firmware, s)
      /\ <<Height(firmware), 2>> \in Byte
  BY <1>1, WroteIs
<1>3. Top(firmware) \in Frame
  BY TypeFacts
<1>4. /\ at \in {"code", "drain", "ticks"} /\ at \in Places
      /\ at \notin Holds /\ "second" \notin Holds
      /\ at \in Handled => Top(firmware).then # "code"
  BY <1>3 DEF Frame, Places, Handled, Holds
<1> HIDE DEF s, at
<1>5. /\ \E f : Runs(f) /\ f.at = at
      /\ SameStream(s, firmware') /\ SameClock(s, firmware') /\ firmware'.races = s.races
  BY <1>1, <1>2, <1>4, GoesOn
<1>6. QED
  BY <1>2, <1>4, <1>5 DEF SameStream, SameClock

\* A handler goes on to the ticks.
LEMMA TickingIs ==
    ASSUME TypeInv, Top(firmware).at \in {"drain", "take", "put"}
    PROVE  /\ Ticking \in Frame /\ Ticking.at = "ticks" /\ Proper(Height(firmware), Ticking)
<1>1. Top(firmware) \in Frame /\ Proper(Height(firmware), Top(firmware))
  BY TypeFacts
<1>2. /\ Ticking \in Frame /\ Ticking.at = "ticks" /\ Ticking.then = "ticks"
      /\ Ticking.byte = NoByte
  BY <1>1 DEF Ticking, Frame
<1>3. QED
  BY <1>1, <1>2 DEF Proper, Handled, Holds

LEMMA DrainIs ==
    ASSUME TypeInv, Drain
    PROVE  /\ \E f : Runs(f) /\ f.at \in {"take", "ticks"}
           /\ SameStream(firmware, firmware') /\ SameClock(firmware, firmware')
           /\ firmware'.races = firmware.races
<1>1. /\ firmware \in Members /\ Len(firmware.buffer) <= BufferSize
      /\ Top(firmware) \in Frame /\ Proper(Height(firmware), Top(firmware))
      /\ Top(firmware).at = "drain"
  BY TypeFacts, BufferAssumption DEF Drain
<1>2. CASE firmware' = Goes(firmware, "take")
  <2>1. /\ "take" \in Places /\ "take" \notin Holds /\ "drain" \notin Holds
        /\ "take" \in Handled => Top(firmware).then # "code"
    BY <1>1 DEF Places, Proper, Handled, Holds
  <2>2. QED
    BY <1>1, <1>2, <2>1, GoesOn
<1>3. CASE firmware' = Becomes(firmware, Ticking)
  BY <1>1, <1>3, TickingIs, RunsTo
<1>4. QED
  BY <1>2, <1>3 DEF Drain

\* The frame that OnClock runs in.
LEMMA FrameClocks ==
    ASSUME NEW f \in Frame, NEW g, g = [f EXCEPT !.at = "clock", !.loaded = 0]
    PROVE  g \in Frame /\ g.at = "clock" /\ g.then = f.then /\ g.byte = f.byte
<1> DEFINE e == [f EXCEPT !.at = "clock"]
<1>1. "clock" \in Places
  BY DEF Places
<1>2. e \in Frame /\ e.at = "clock" /\ e.then = f.then /\ e.byte = f.byte
  BY <1>1, FrameAt
<1>3. g = [e EXCEPT !.loaded = 0]
  OBVIOUS
<1> HIDE DEF e
<1>4. QED
  BY <1>2, <1>3 DEF Frame

LEMMA LoadIs ==
    ASSUME TypeInv, Load
    PROVE  /\ \E f : Runs(f) /\ f.at = "store" /\ f.loaded = firmware.num_clock_ticks
           /\ SameStream(firmware, firmware') /\ SameClock(firmware, firmware')
           /\ firmware'.races = firmware.races
<1> DEFINE f == [Top(firmware) EXCEPT !.at = "store", !.loaded = firmware.num_clock_ticks]
<1>1. /\ firmware \in Members /\ Len(firmware.buffer) <= BufferSize
      /\ Top(firmware) \in Frame /\ Proper(Height(firmware), Top(firmware))
  BY TypeFacts, BufferAssumption
<1>2. firmware.num_clock_ticks \in 0 .. 255
  BY <1>1 DEF Members
<1>3. /\ f \in Frame /\ f.at = "store" /\ f.loaded = firmware.num_clock_ticks
      /\ f.then = Top(firmware).then /\ f.byte = Top(firmware).byte
  BY <1>1, <1>2 DEF Frame
<1>4. firmware' = Becomes(firmware, f) /\ Top(firmware).at = "load"
  BY DEF Load
<1> HIDE DEF f
<1>5. Proper(Height(firmware), f)
  BY <1>1, <1>3, <1>4 DEF Proper, Handled, Holds
<1>6. QED
  BY <1>1, <1>3, <1>4, <1>5, RunsTo

LEMMA StoreIs ==
    ASSUME TypeInv, Store
    PROVE  /\ \E f : Runs(f) /\ f.at = "clock"
           /\ SameStream(firmware, firmware')
           /\ firmware'.num_clock_ticks = (Top(firmware).loaded - 1) % 256
           /\ firmware'.due = firmware.due - 1
           /\ firmware'.races = IF Below(firmware, "load") \/ Below(firmware, "store")
                                THEN firmware.races \cup {"tick"} ELSE firmware.races
<1> DEFINE beaten == Below(firmware, "load") \/ Below(firmware, "store")
           r      == Raced(firmware, "tick", beaten)
           count  == (Top(firmware).loaded - 1) % 256
           s      == [r EXCEPT !.num_clock_ticks = count, !.due = r.due - 1]
           f      == [Top(firmware) EXCEPT !.at = "clock", !.loaded = 0]
<1>1. /\ firmware \in Members /\ Len(firmware.buffer) <= BufferSize
      /\ Top(firmware) \in Frame /\ Proper(Height(firmware), Top(firmware))
  BY TypeFacts, BufferAssumption
<1>2. count \in 0 .. 255
  <2>1. Top(firmware).loaded \in 0 .. 255
    BY <1>1 DEF Frame
  <2>2. QED
    BY <2>1
<1>3. /\ f \in Frame /\ f.at = "clock"
      /\ f.then = Top(firmware).then /\ f.byte = Top(firmware).byte
  <2>1. f = [Top(firmware) EXCEPT !.at = "clock", !.loaded = 0]
    OBVIOUS
  <2> HIDE DEF f
  <2>2. QED
    BY <1>1, <2>1, FrameClocks
<1>4. firmware' = Becomes(s, f) /\ Top(firmware).at = "store"
  BY DEF Store
<1>5. beaten \in BOOLEAN /\ "tick" \in Races
  BY DEF Below, Races
<1> HIDE DEF f, count, beaten
<1>6. /\ r \in Members /\ r.stack = firmware.stack /\ SameStream(firmware, r)
      /\ SameClock(firmware, r)
      /\ r.races = IF beaten THEN firmware.races \cup {"tick"} ELSE firmware.races
  BY <1>1, <1>5, RacedIs DEF SameStream
<1> HIDE DEF r
<1>7. /\ s \in Members /\ s.stack = r.stack /\ SameStream(r, s) /\ s.races = r.races
      /\ s.num_clock_ticks = count /\ s.due = r.due - 1
  <2> DEFINE due == r.due - 1
  <2>1. due \in Int /\ r \in Members /\ count \in 0 .. 255
    BY <1>2, <1>6 DEF Members
  <2> HIDE DEF due
  <2>2. s = [r EXCEPT !.num_clock_ticks = count, !.due = due]
    BY DEF due
  <2> HIDE DEF s
  <2>3. /\ s \in Members /\ s.stack = r.stack /\ SameStream(r, s) /\ s.races = r.races
        /\ s.num_clock_ticks = count /\ s.due = due
    BY <2>1, <2>2 DEF Members, SameStream
  <2>4. QED
    BY <2>3 DEF due
<1> HIDE DEF s
<1>8. Proper(Height(firmware), f)
  BY <1>1, <1>3, <1>4 DEF Proper, Handled, Holds
<1>9. s.stack = firmware.stack /\ Len(s.buffer) <= BufferSize
  BY <1>1, <1>6, <1>7 DEF SameStream
<1>10. /\ Runs(f)
       /\ SameStream(s, firmware') /\ SameClock(s, firmware') /\ firmware'.races = s.races
  BY <1>3, <1>4, <1>7, <1>8, <1>9, RunsTo
<1>11. QED
  BY <1>3, <1>6, <1>7, <1>10 DEF SameStream, SameClock, count, beaten

\* A handler takes the oldest byte, unless it is gone.
LEMMA TakeIs ==
    ASSUME TypeInv, Take
    PROVE  /\ \E f : /\ Runs(f) /\ f.at \in {"put", "ticks"}
                     /\ \/ "stale" \in firmware'.races
                        \/ f.at = "put" /\ f.byte = Head(firmware.buffer)
           /\ \/ "stale" \in firmware'.races
              \/ /\ firmware.buffer # <<>> /\ firmware'.buffer = Tail(firmware.buffer)
                 /\ firmware'.open = firmware.open /\ firmware'.torn = firmware.torn
           /\ SameClock(firmware, firmware')
           /\ firmware.races \subseteq firmware'.races
           /\ "tick" \in firmware'.races => "tick" \in firmware.races
<1>1. /\ firmware \in Members /\ Len(firmware.buffer) <= BufferSize
      /\ Top(firmware) \in Frame /\ Proper(Height(firmware), Top(firmware))
      /\ Top(firmware).at = "take"
      /\ firmware.buffer \in Seq(Byte) /\ Len(firmware.buffer) \in Nat
  BY TypeFacts, BufferAssumption DEF Take
<1>2. CASE firmware.buffer = <<>>
  <2> DEFINE s == Raced(firmware, "stale", TRUE)
             f == Ticking
  <2>1. f \in Frame /\ f.at = "ticks" /\ Proper(Height(firmware), f)
    BY <1>1, TickingIs
  <2>2. /\ s \in Members /\ s.races = firmware.races \cup {"stale"}
        /\ s.stack = firmware.stack /\ s.buffer = firmware.buffer
        /\ SameClock(firmware, s)
    BY <1>1, RacedIs DEF Races
  <2>3. firmware' = Becomes(s, f)
    BY <1>2 DEF Take
  <2> HIDE DEF s, f
  <2>4. /\ Runs(f)
        /\ SameClock(s, firmware') /\ firmware'.races = s.races
    BY <1>1, <2>1, <2>2, <2>3, RunsTo
  <2>5. SameClock(firmware, firmware')
    BY <2>2, <2>4 DEF SameClock
  <2>6. QED
    BY <2>1, <2>2, <2>4, <2>5
<1>3. CASE firmware.buffer # <<>>
  <2> DEFINE s == Popped(firmware)
             f == InHand
  <2>1. Head(firmware.buffer) \in Byte
    BY <1>1, <1>3
  <2>2. /\ f \in Frame /\ f.at = "put" /\ f.byte = Head(firmware.buffer)
        /\ f.then = Top(firmware).then
    BY <1>1, <2>1 DEF InHand, Frame
  <2>3. /\ s \in Members /\ s.buffer = Tail(firmware.buffer) /\ s.stack = firmware.stack
        /\ s.open = firmware.open /\ s.torn = firmware.torn /\ s.races = firmware.races
        /\ SameClock(firmware, s)
    BY <1>1, <1>3, PoppedIs
  <2>4. firmware' = Becomes(s, f)
    BY <1>3 DEF Take
  <2> HIDE DEF s, f
  <2>5. Proper(Height(firmware), f)
    <3>1. Head(firmware.buffer) # NoByte
      BY <2>1, BytesAreFull
    <3>2. QED
      BY <1>1, <2>2, <3>1 DEF Proper, Handled, Holds
  <2>6. Len(s.buffer) <= BufferSize
    BY <1>1, <1>3, <2>3, BufferAssumption
  <2>7. /\ Runs(f)
        /\ SameStream(s, firmware') /\ SameClock(s, firmware') /\ firmware'.races = s.races
    BY <2>2, <2>3, <2>4, <2>5, <2>6, RunsTo
  <2>8. QED
    BY <1>3, <2>2, <2>3, <2>7 DEF SameStream, SameClock
<1>4. QED
  BY <1>2, <1>3

\* What it writes is the byte in its hand, unless it raced.
LEMMA OverwriteIs ==
    ASSUME TypeInv, Overwrite
    PROVE  LET byte == Top(firmware).byte
               s    == Put(firmware, byte)
           IN  /\ \E f : Runs(f) /\ f.at = "ticks"
               /\ byte \in Byte
               /\ firmware'.buffer = firmware.buffer
               /\ \/ "lost" \in firmware'.races
                  \/ /\ firmware'.open = s.open /\ firmware'.torn = s.torn
                     /\ Overtakes(firmware) => "overtaken" \in firmware'.races
               /\ SameClock(firmware, firmware')
               /\ firmware.races \subseteq firmware'.races
               /\ "tick" \in firmware'.races => "tick" \in firmware.races
<1> DEFINE byte == Top(firmware).byte
           q    == Put(firmware, byte)
           s    == IF firmware.busy THEN firmware ELSE q
           race == IF firmware.busy THEN "lost" ELSE "overtaken"
           when == IF firmware.busy THEN TRUE ELSE Overtakes(firmware)
           r    == Raced(s, race, when)
           f    == Ticking
<1>1. /\ firmware \in Members /\ Len(firmware.buffer) <= BufferSize
      /\ Top(firmware) \in Frame /\ Proper(Height(firmware), Top(firmware))
      /\ Top(firmware).at = "put"
  BY TypeFacts, BufferAssumption DEF Overwrite
<1>2. byte \in Byte
  BY <1>1 DEF Proper, Frame, Holds
<1>3. f \in Frame /\ f.at = "ticks" /\ Proper(Height(firmware), f)
  BY <1>1, TickingIs
<1>4. firmware' = Becomes(r, f)
  <2>1. CASE firmware.busy
    BY <2>1 DEF Overwrite
  <2>2. CASE ~firmware.busy
    BY <2>2 DEF Overwrite
  <2>3. QED
    BY <2>1, <2>2
<1>5. /\ q \in Members /\ q.stack = firmware.stack /\ q.buffer = firmware.buffer
      /\ q.races = firmware.races /\ SameClock(firmware, q)
  BY <1>1, <1>2, PutIs, ZenonT(60)
<1> HIDE DEF f, q, byte
<1>6. /\ s \in Members /\ s.stack = firmware.stack /\ s.buffer = firmware.buffer
      /\ s.races = firmware.races /\ SameClock(firmware, s)
      /\ ~firmware.busy => s = q
  BY <1>1, <1>5 DEF SameClock
<1>7. race \in Races /\ race # "tick" /\ when \in BOOLEAN
  BY DEF Races, Overtakes
<1>8. firmware.busy => race = "lost" /\ when
  OBVIOUS
<1>9. ~firmware.busy => race = "overtaken" /\ when = Overtakes(firmware)
  OBVIOUS
<1> HIDE DEF s, race, when
<1>10. /\ r \in Members /\ r.stack = s.stack /\ r.buffer = s.buffer
       /\ r.open = s.open /\ r.torn = s.torn /\ SameClock(s, r)
       /\ r.races = IF when THEN s.races \cup {race} ELSE s.races
  BY <1>6, <1>7, RacedIs
<1> HIDE DEF r
<1>11. r.stack = firmware.stack /\ Len(r.buffer) <= BufferSize
  BY <1>1, <1>6, <1>10
<1>12. /\ Runs(f)
       /\ SameStream(r, firmware') /\ SameClock(r, firmware') /\ firmware'.races = r.races
  BY <1>3, <1>4, <1>10, <1>11, RunsTo
<1>13. /\ firmware'.buffer = firmware.buffer /\ SameClock(firmware, firmware')
       /\ firmware'.races = IF when THEN firmware.races \cup {race} ELSE firmware.races
       /\ firmware'.open = s.open /\ firmware'.torn = s.torn
  BY <1>6, <1>10, <1>12 DEF SameStream, SameClock
<1>14. \/ "lost" \in firmware'.races
       \/ /\ firmware'.open = q.open /\ firmware'.torn = q.torn
          /\ Overtakes(firmware) => "overtaken" \in firmware'.races
  <2>1. CASE firmware.busy
    BY <1>8, <1>13, <2>1
  <2>2. CASE ~firmware.busy
    BY <1>6, <1>9, <1>13, <2>2
  <2>3. QED
    BY <2>1, <2>2
<1>15. QED
  BY <1>2, <1>3, <1>7, <1>12, <1>13, <1>14 DEF q, byte

\* The steps that touch the frame that runs, and nothing that is sent or counted.
Plain == Send \/ TestRoom \/ Read \/ Drain \/ HasTicks \/ Load \/ Clock

LEMMA PlainIs ==
    ASSUME TypeInv, Plain
    PROVE  /\ Top(firmware).at \notin ({"second"} \cup Holds)
           /\ \E f : /\ Runs(f) /\ f.at \notin ({"second"} \cup Holds)
                     /\ f.at = "load" => firmware.num_clock_ticks > 0
                     /\ f.at = "store" => /\ Top(firmware).at = "load"
                                          /\ f.loaded = firmware.num_clock_ticks
           /\ SameStream(firmware, firmware') /\ SameClock(firmware, firmware')
           /\ firmware'.races = firmware.races
<1>1. /\ firmware \in Members /\ Len(firmware.buffer) <= BufferSize
      /\ Top(firmware) \in Frame /\ Proper(Height(firmware), Top(firmware))
  BY TypeFacts, BufferAssumption
<1>2. ASSUME NEW at \in Places \ ({"second", "store"} \cup Holds), firmware' = Goes(firmware, at),
             at = "load" => firmware.num_clock_ticks > 0,
             Top(firmware).at \notin ({"second"} \cup Holds),
             at \in Handled => Top(firmware).then # "code"
      PROVE  /\ \E f : /\ Runs(f) /\ f.at \notin ({"second", "store"} \cup Holds)
                       /\ f.at = "load" => firmware.num_clock_ticks > 0
             /\ SameStream(firmware, firmware') /\ SameClock(firmware, firmware')
             /\ firmware'.races = firmware.races
  <2>1. /\ \E f : Runs(f) /\ f.at = at
        /\ SameStream(firmware, firmware') /\ SameClock(firmware, firmware')
        /\ firmware'.races = firmware.races
    BY <1>1, <1>2, GoesOn
  <2>2. QED
    BY <1>2, <2>1
<1>3. /\ {"room", "first", "oldest", "drain", "load", "ticks"} \subseteq Places \ ({"second", "store"} \cup Holds)
      /\ {"room", "first", "oldest"} \cap Handled = {}
      /\ {"code", "room", "read", "drain", "ticks", "load", "clock"} \cap ({"second"} \cup Holds) = {}
      /\ {"read", "ticks", "clock"} \subseteq Handled
  BY DEF Places, Handled, Holds
<1>4. Top(firmware).at \in Handled => Top(firmware).then # "code"
  BY <1>1 DEF Proper
<1>5. CASE Send
  <2>1. firmware' = Goes(firmware, "room") /\ Top(firmware).at \in {"code", "read", "clock"}
    BY <1>5 DEF Send
  <2>2. QED
    BY <1>2, <1>3, <2>1
<1>6. CASE TestRoom
  <2>1. \/ firmware' = Goes(firmware, "first") /\ Top(firmware).at = "room"
        \/ firmware' = Goes(firmware, "oldest") /\ Top(firmware).at = "room"
    BY <1>6 DEF TestRoom
  <2>2. QED
    BY <1>2, <1>3, <2>1
<1>7. CASE Read
  <2>1. firmware' = Goes(firmware, "drain") /\ Top(firmware).at = "read"
    BY <1>7 DEF Read
  <2>2. QED
    BY <1>2, <1>3, <1>4, <2>1
<1>8. CASE Drain
  <2>1. Top(firmware).at = "drain"
    BY <1>8 DEF Drain
  <2>2. QED
    BY <1>8, <2>1, DrainIs DEF Holds
<1>9. CASE HasTicks
  <2>1. /\ firmware' = Goes(firmware, "load") /\ Top(firmware).at = "ticks"
        /\ firmware.num_clock_ticks > 0
    BY <1>9 DEF HasTicks
  <2>2. QED
    BY <1>2, <1>3, <1>4, <2>1
<1>10. CASE Load
  <2>1. Top(firmware).at = "load"
    BY <1>10 DEF Load
  <2>2. QED
    BY <1>10, <2>1, LoadIs DEF Holds
<1>11. CASE Clock
  <2>1. firmware' = Goes(firmware, "ticks") /\ Top(firmware).at = "clock"
    BY <1>11 DEF Clock
  <2>2. QED
    BY <1>2, <1>3, <1>4, <2>1
<1>12. QED
  BY <1>5, <1>6, <1>7, <1>8, <1>9, <1>10, <1>11 DEF Plain

\* A handler begins above the frame that runs ...
LEMMA InterruptIs ==
    ASSUME TypeInv, Interrupt
    PROVE  /\ TypeInv'
           /\ Height(firmware)' = Height(firmware) + 1
           /\ firmware'.stack[Height(firmware) + 1].at = "read"
           /\ \A i \in 1 .. Height(firmware) : firmware'.stack[i] = firmware.stack[i]
           /\ SameStream(firmware, firmware') /\ SameClock(firmware, firmware')
           /\ firmware'.races = firmware.races
<1> DEFINE stack == Append(firmware.stack, Timer2)
<1>1. Timer2 = [at |-> "read", then |-> "drain", byte |-> NoByte, loaded |-> 0]
  BY DEF Timer2, Entered
<1>2. Timer2 \in Frame /\ Timer2.at = "read" /\ Timer2.then # "code" /\ Timer2.byte = NoByte
  BY <1>1 DEF Frame
<1> HIDE DEF Timer2
<1>3. /\ firmware \in Members /\ firmware.stack \in Seq(Frame)
      /\ Height(firmware) \in Nat \ {0} /\ Height(firmware) = Len(firmware.stack)
      /\ Len(firmware.buffer) <= BufferSize
  BY TypeFacts, BufferAssumption
<1>4. Height(firmware) < MaxDepth /\ firmware' = [firmware EXCEPT !.stack = stack]
  BY DEF Interrupt
<1>5. /\ stack \in Seq(Frame) /\ Len(stack) = Height(firmware) + 1
      /\ stack[Height(firmware) + 1] = Timer2
      /\ \A i \in 1 .. Height(firmware) : stack[i] = firmware.stack[i]
  BY <1>2, <1>3
<1> HIDE DEF stack
<1>6. /\ firmware' \in Members /\ firmware'.stack = stack
      /\ SameStream(firmware, firmware') /\ SameClock(firmware, firmware')
      /\ firmware'.races = firmware.races
  BY <1>3, <1>4, <1>5 DEF Members, SameStream, SameClock
<1>7. Height(firmware)' = Height(firmware) + 1
  BY <1>5, <1>6 DEF Height
<1>8. TypeOK'
  BY <1>3, <1>4, <1>6, <1>7, DepthAssumption DEF TypeOK, SameStream
<1>9. \A i \in 1 .. Height(firmware) + 1 : Proper(i, stack[i])
  <2>1. SUFFICES ASSUME NEW i \in 1 .. Height(firmware) + 1 PROVE Proper(i, stack[i])
    OBVIOUS
  <2>2. CASE i \in 1 .. Height(firmware)
    BY <1>5, <2>2 DEF TypeInv
  <2>3. CASE i = Height(firmware) + 1
    BY <1>2, <1>3, <1>5, <2>3 DEF Proper, Holds
  <2>4. QED
    BY <1>3, <2>2, <2>3
<1>10. QED
  BY <1>2, <1>5, <1>6, <1>7, <1>8, <1>9 DEF TypeInv

\* ... and returns, which the main loop does not.
LEMMA ReturnIs ==
    ASSUME TypeInv, Return
    PROVE  /\ TypeInv'
           /\ Height(firmware) >= 2 /\ Height(firmware)' = Height(firmware) - 1
           /\ Top(firmware).at = "ticks"
           /\ \A i \in 1 .. Height(firmware) - 1 : firmware'.stack[i] = firmware.stack[i]
           /\ SameStream(firmware, firmware') /\ SameClock(firmware, firmware')
           /\ firmware'.races = firmware.races
<1> DEFINE stack == SubSeq(firmware.stack, 1, Height(firmware) - 1)
<1>1. /\ firmware \in Members /\ firmware.stack \in Seq(Frame)
      /\ Height(firmware) \in Nat \ {0} /\ Height(firmware) = Len(firmware.stack)
      /\ Len(firmware.buffer) <= BufferSize /\ Height(firmware) <= MaxDepth
      /\ Proper(Height(firmware), Top(firmware))
  BY TypeFacts, BufferAssumption
<1>2. Top(firmware).at = "ticks" /\ firmware' = [firmware EXCEPT !.stack = stack]
  BY DEF Return
<1>3. Height(firmware) >= 2
  <2>1. Height(firmware) # 1
    BY <1>1, <1>2 DEF Proper, Handled
  <2>2. Height(firmware) \in Nat /\ Height(firmware) # 0
    BY <1>1
  <2>3. QED
    BY <2>1, <2>2
<1>4. /\ stack \in Seq(Frame) /\ Len(stack) = Height(firmware) - 1
      /\ \A i \in 1 .. Height(firmware) - 1 : stack[i] = firmware.stack[i]
  BY <1>1, <1>3
<1> HIDE DEF stack
<1>5. /\ firmware' \in Members /\ firmware'.stack = stack
      /\ SameStream(firmware, firmware') /\ SameClock(firmware, firmware')
      /\ firmware'.races = firmware.races
  BY <1>1, <1>2, <1>4 DEF Members, SameStream, SameClock
<1>6. Height(firmware)' = Height(firmware) - 1
  BY <1>4, <1>5 DEF Height
<1>7. TypeOK'
  BY <1>1, <1>3, <1>5, <1>6, DepthAssumption DEF TypeOK, SameStream
<1>8. \A i \in 1 .. Height(firmware) - 1 : Proper(i, stack[i])
  BY <1>1, <1>4 DEF TypeInv
<1>9. QED
  BY <1>2, <1>3, <1>4, <1>5, <1>6, <1>7, <1>8 DEF TypeInv

\* TIMER1, which leaves the frames alone.
LEMMA CountTickIs ==
    ASSUME TypeInv, CountTick
    PROVE  /\ firmware' \in Members /\ firmware'.stack = firmware.stack
           /\ SameStream(firmware, firmware') /\ firmware.due < MaxTicks
           /\ firmware'.num_clock_ticks = (firmware.num_clock_ticks + 1) % 256
           /\ firmware'.due = firmware.due + 1
           /\ firmware'.races = IF Stopped(firmware, "store")
                                THEN firmware.races \cup {"tick"} ELSE firmware.races
<1> DEFINE beaten == Stopped(firmware, "store")
           r      == Raced(firmware, "tick", beaten)
           count  == (r.num_clock_ticks + 1) % 256
           due    == r.due + 1
<1>1. firmware \in Members
  BY TypeFacts
<1>2. beaten \in BOOLEAN /\ "tick" \in Races
  BY DEF Stopped, Races
<1>3. firmware.due < MaxTicks /\ firmware' = [r EXCEPT !.num_clock_ticks = count, !.due = due]
  BY DEF CountTick
<1> HIDE DEF beaten
<1>4. /\ r \in Members /\ r.stack = firmware.stack /\ SameStream(firmware, r)
      /\ SameClock(firmware, r)
      /\ r.races = IF beaten THEN firmware.races \cup {"tick"} ELSE firmware.races
  BY <1>1, <1>2, RacedIs DEF SameStream
<1> HIDE DEF r
<1>5. count \in 0 .. 255 /\ due \in Int
  <2>1. r.num_clock_ticks \in 0 .. 255 /\ r.due \in Int
    BY <1>4 DEF Members
  <2>2. QED
    BY <2>1
<1> HIDE DEF count, due
<1>6. /\ firmware' \in Members /\ firmware'.stack = r.stack /\ SameStream(r, firmware')
      /\ firmware'.races = r.races /\ firmware'.num_clock_ticks = count /\ firmware'.due = due
  BY <1>3, <1>4, <1>5 DEF Members, SameStream
<1>7. QED
  BY <1>3, <1>4, <1>6 DEF SameStream, SameClock, count, due, beaten

\* The port: a byte that is not of a message, or the end of one.
LEMMA PortIs ==
    ASSUME TypeInv, SendNow \/ Shift
    PROVE  /\ firmware' \in Members /\ firmware'.stack = firmware.stack
           /\ SameStream(firmware, firmware') /\ SameClock(firmware, firmware')
           /\ firmware'.races = firmware.races
<1>1. PICK busy \in BOOLEAN : firmware' = [firmware EXCEPT !.busy = busy]
  BY DEF SendNow, Shift
<1>2. firmware \in Members
  BY TypeFacts
<1>3. QED
  BY <1>1, <1>2 DEF Members, SameStream, SameClock

\* A turn of FlushOutputBuffer in TIMER1: nothing, or the oldest byte leaves.
LEMMA FlushedIs ==
    ASSUME NEW s \in Members, Len(s.buffer) <= BufferSize
    PROVE  LET t == Flushed(s)
           IN  /\ t \in Members /\ t.stack = s.stack /\ t.races = s.races /\ SameClock(s, t)
               /\ \/ Room(s) >= 2 /\ t = s
                  \/ /\ Room(s) < 2 /\ s.buffer # <<>> /\ Head(s.buffer) \in Byte
                     /\ t.buffer = Tail(s.buffer)
                     /\ t.open = Put(s, Head(s.buffer)).open
                     /\ t.torn = Put(s, Head(s.buffer)).torn
<1>1. s.buffer \in Seq(Byte) /\ Len(s.buffer) \in Nat
  BY DEF Members
<1>2. CASE Room(s) >= 2
  BY <1>1, <1>2, BufferAssumption DEF Flushed, Room, SameClock
<1>3. CASE Room(s) < 2
  <2> DEFINE q == Put(s, Head(s.buffer))
             t == Popped(q)
  <2>1. s.buffer # <<>> /\ Head(s.buffer) \in Byte
    BY <1>1, <1>3, BufferAssumption DEF Room
  <2>2. Flushed(s) = t
    BY <1>3 DEF Flushed
  <2>3. /\ q \in Members /\ q.stack = s.stack /\ q.buffer = s.buffer
        /\ q.races = s.races /\ SameClock(s, q)
    BY <2>1, PutIs
  <2> HIDE DEF q
  <2>4. /\ t \in Members /\ t.buffer = Tail(q.buffer)
        /\ t.stack = q.stack /\ t.open = q.open /\ t.torn = q.torn
        /\ t.races = q.races /\ SameClock(q, t)
    BY <2>1, <2>3, PoppedIs
  <2> HIDE DEF t
  <2>5. SameClock(s, t)
    BY <2>3, <2>4 DEF SameClock
  <2>6. QED
    BY <1>3, <2>1, <2>2, <2>3, <2>4, <2>5 DEF q
<1>4. QED
  BY <1>1, <1>2, <1>3, BufferAssumption DEF Room

\* Each turn makes one more place, until there are two.
LEMMA Shortened ==
    ASSUME NEW q \in Seq(Byte), NEW p, NEW room \in 0 .. 1, Len(q) + room <= BufferSize,
           \/ BufferSize - Len(q) >= 2 /\ p = q
           \/ BufferSize - Len(q) < 2 /\ q # <<>> /\ p = Tail(q)
    PROVE  p \in Seq(Byte) /\ Len(p) \in Nat /\ Len(p) + room + 1 <= BufferSize
<1>1. CASE BufferSize - Len(q) >= 2 /\ p = q
  BY <1>1, BufferAssumption
<1>2. CASE BufferSize - Len(q) < 2 /\ q # <<>> /\ p = Tail(q)
  <2>1. p \in Seq(Byte) /\ Len(p) = Len(q) - 1 /\ Len(q) \in Nat \ {0}
    BY <1>2
  <2>2. QED
    BY <2>1, BufferAssumption
<1>3. QED
  BY <1>1, <1>2

LEMMA SendFromTimer1Is ==
    ASSUME TypeInv, SendFromTimer1
    PROVE  LET t == Flushed(Flushed(firmware))
           IN  /\ firmware' \in Members /\ firmware'.stack = firmware.stack
               /\ Len(firmware'.buffer) <= BufferSize
               /\ t \in Members /\ <<0, 1>> \in Byte /\ <<0, 2>> \in Byte
               /\ firmware'.buffer = Append(Append(t.buffer, <<0, 1>>), <<0, 2>>)
               /\ firmware'.open = t.open /\ firmware'.torn = t.torn
               /\ SameClock(firmware, firmware')
               /\ firmware.races \subseteq firmware'.races
               /\ "tick" \in firmware'.races => "tick" \in firmware.races
               /\ Stopped(firmware, "second") => "nested" \in firmware'.races
               /\ Room(firmware) < 2 /\ Hands(firmware) # {}
                    => "overtaken" \in firmware'.races
<1> DEFINE a      == Flushed(firmware)
           t      == Flushed(a)
           passes == Room(firmware) < 2 /\ Hands(firmware) # {}
           nests  == Stopped(firmware, "second")
           s      == Raced(t, "overtaken", passes)
           r      == Raced(s, "nested", nests)
           bytes  == << <<0, 1>>, <<0, 2>> >>
<1>1. /\ firmware \in Members /\ firmware.buffer \in Seq(Byte)
      /\ Len(firmware.buffer) \in Nat /\ Len(firmware.buffer) <= BufferSize
  BY TypeFacts, BufferAssumption
<1>2. firmware' = [r EXCEPT !.buffer = r.buffer \o bytes]
  BY DEF SendFromTimer1
<1>3. /\ a \in Members /\ a.stack = firmware.stack /\ a.races = firmware.races
      /\ SameClock(firmware, a)
      /\ \/ Room(firmware) >= 2 /\ a.buffer = firmware.buffer
         \/ /\ Room(firmware) < 2 /\ firmware.buffer # <<>>
            /\ a.buffer = Tail(firmware.buffer)
  BY <1>1, FlushedIs
<1> HIDE DEF a
<1>4. /\ a.buffer \in Seq(Byte) /\ Len(a.buffer) \in Nat
      /\ Len(a.buffer) + 1 <= BufferSize /\ Len(a.buffer) <= BufferSize
  <2> DEFINE q == firmware.buffer
             p == a.buffer
             n == 0
  <2>1. /\ q \in Seq(Byte) /\ n \in 0 .. 1 /\ Len(q) + n <= BufferSize
        /\ \/ BufferSize - Len(q) >= 2 /\ p = q
           \/ BufferSize - Len(q) < 2 /\ q # <<>> /\ p = Tail(q)
    BY <1>1, <1>3 DEF Room
  <2> HIDE DEF q, p
  <2>2. p \in Seq(Byte) /\ Len(p) \in Nat /\ Len(p) + n + 1 <= BufferSize
    BY <2>1, Shortened
  <2>3. QED
    BY <2>2, BufferAssumption DEF p
<1>5. /\ t \in Members /\ t.stack = a.stack /\ t.races = a.races
      /\ SameClock(a, t)
      /\ \/ Room(a) >= 2 /\ t.buffer = a.buffer
         \/ Room(a) < 2 /\ a.buffer # <<>> /\ t.buffer = Tail(a.buffer)
  BY <1>3, <1>4, FlushedIs
<1> HIDE DEF t
<1>6. t.buffer \in Seq(Byte) /\ Len(t.buffer) \in Nat /\ Len(t.buffer) + 2 <= BufferSize
  <2> DEFINE q == a.buffer
             p == t.buffer
             n == 1
  <2>1. /\ q \in Seq(Byte) /\ n \in 0 .. 1 /\ Len(q) + n <= BufferSize
        /\ \/ BufferSize - Len(q) >= 2 /\ p = q
           \/ BufferSize - Len(q) < 2 /\ q # <<>> /\ p = Tail(q)
    BY <1>4, <1>5 DEF Room
  <2> HIDE DEF q, p
  <2>2. p \in Seq(Byte) /\ Len(p) \in Nat /\ Len(p) + n + 1 <= BufferSize
    BY <2>1, Shortened
  <2>3. QED
    BY <2>2, BufferAssumption DEF p
<1>7. passes \in BOOLEAN /\ nests \in BOOLEAN /\ {"overtaken", "nested"} \subseteq Races
  BY DEF Stopped, Races
<1> HIDE DEF passes, nests
<1>8. /\ s \in Members /\ s.stack = t.stack /\ s.buffer = t.buffer
      /\ s.open = t.open /\ s.torn = t.torn /\ SameClock(t, s)
      /\ s.races = IF passes THEN t.races \cup {"overtaken"} ELSE t.races
  BY <1>5, <1>7, RacedIs
<1> HIDE DEF s
<1>9. /\ r \in Members /\ r.stack = s.stack /\ r.buffer = s.buffer
      /\ r.open = s.open /\ r.torn = s.torn /\ SameClock(s, r)
      /\ r.races = IF nests THEN s.races \cup {"nested"} ELSE s.races
  BY <1>7, <1>8, RacedIs, ZenonT(60)
<1> HIDE DEF r
<1>10. <<0, 1>> \in Byte /\ <<0, 2>> \in Byte
  BY DepthAssumption DEF Byte, Sender
<1> DEFINE buffer == r.buffer \o bytes
<1>11. /\ buffer = Append(Append(t.buffer, <<0, 1>>), <<0, 2>>)
       /\ buffer \in Seq(Byte) /\ Len(buffer) = Len(t.buffer) + 2
  BY <1>6, <1>8, <1>9, <1>10
<1> HIDE DEF buffer
<1>12. firmware' = [r EXCEPT !.buffer = buffer]
  BY <1>2 DEF buffer
<1>13. /\ firmware' \in Members /\ firmware'.buffer = buffer /\ firmware'.stack = r.stack
       /\ firmware'.open = r.open /\ firmware'.torn = r.torn
       /\ firmware'.races = r.races /\ SameClock(r, firmware')
  BY <1>9, <1>11, <1>12 DEF Members, SameClock
<1>14. SameClock(firmware, firmware')
  BY <1>3, <1>5, <1>8, <1>9, <1>13 DEF SameClock
<1>15. QED
  BY <1>3, <1>5, <1>6, <1>8, <1>9, <1>10, <1>11, <1>13, <1>14, BufferAssumption
     DEF passes, nests, t, a

-----------------------------------------------------------------------------
(* The types.                                                              *)

\* The steps of the frame that runs, with what each leaves behind; of the others, what
\* they do.
LEMMA StepsKeepType == TypeInv /\ [Next]_firmware => TypeInv'
<1> SUFFICES ASSUME TypeInv, [Next]_firmware PROVE TypeInv'
  OBVIOUS
<1>1. ASSUME \E f : Runs(f) PROVE TypeInv'
  BY <1>1, MoveKeepsType
<1>2. CASE Plain
  BY <1>1, <1>2, PlainIs
<1>3. CASE TakeOldest
  BY <1>1, <1>3, TakeOldestIs
<1>4. CASE WriteOldest
  BY <1>1, <1>4, WriteOldestIs
<1>5. CASE WriteFirst
  BY <1>1, <1>5, WriteFirstIs
<1>6. CASE WriteSecond
  BY <1>1, <1>6, WriteSecondIs
<1>7. CASE Take \/ Overwrite
  BY <1>1, <1>7, TakeIs, OverwriteIs
<1>8. CASE Store
  BY <1>1, <1>8, StoreIs
<1>9. CASE Interrupt
  BY <1>9, InterruptIs
<1>10. CASE Return
  BY <1>10, ReturnIs
<1>11. Len(firmware.buffer) <= BufferSize
  BY TypeFacts, BufferAssumption
<1>12. CASE CountTick
  BY <1>11, <1>12, CountTickIs, StillKeepsType DEF SameStream
<1>13. CASE SendFromTimer1
  BY <1>13, SendFromTimer1Is, StillKeepsType
<1>14. CASE SendNow \/ Shift
  BY <1>11, <1>14, PortIs, StillKeepsType DEF SameStream
<1>15. CASE UNCHANGED firmware
  BY <1>15, StillKeepsType DEF TypeInv, TypeOK
<1>16. QED
  BY <1>2, <1>3, <1>4, <1>5, <1>6, <1>7, <1>8, <1>9, <1>10, <1>12, <1>13, <1>14, <1>15
     DEF Next, Plain

LEMMA TypeInvariant == Spec => []TypeInv
<1>1. Init => TypeInv
  BY TypeInit
<1>2. TypeInv /\ [Next]_firmware => TypeInv'
  BY StepsKeepType
<1>3. QED
  BY <1>1, <1>2, PTL DEF Spec

\* The main loop is never left, the handlers nest no deeper than they may, and the
\* buffer never holds more than fits: whatever sends, interrupts and races.
THEOREM TypeCorrect == Spec => []TypeOK
<1>1. TypeInv => TypeOK
  BY DEF TypeInv
<1>2. QED
  BY <1>1, TypeInvariant, PTL

-----------------------------------------------------------------------------
(* The ticks.                                                              *)

\* A frame that answers a tick has found one, and has in hand what the count still is.
Counts(f, due) ==
    /\ f.at \in {"load", "store"} => due > 0
    /\ f.at = "store" => f.loaded = due

TicksInv ==
    "tick" \notin firmware.races =>
        /\ firmware.num_clock_ticks = firmware.due /\ firmware.due <= MaxTicks
        /\ \A i \in 1 .. Height(firmware) : Counts(firmware.stack[i], firmware.due)

\* A step that moves the frame that runs.
LEMMA MoveKeepsTicks ==
    ASSUME TypeInv, NEW f, Runs(f), "tick" \notin firmware'.races,
           firmware'.num_clock_ticks = firmware'.due, firmware'.due <= MaxTicks,
           Counts(f, firmware'.due),
           \A i \in 1 .. Height(firmware) - 1 : Counts(firmware.stack[i], firmware'.due)
    PROVE  TicksInv'
<1>1. /\ firmware.stack \in Seq(Frame) /\ firmware.stack # <<>>
      /\ Height(firmware) = Len(firmware.stack) /\ Height(firmware) \in Nat \ {0}
  BY TypeFacts
<1>2. LET stack == Moved(firmware.stack, f)
      IN  /\ Len(stack) = Len(firmware.stack) /\ stack[Len(firmware.stack)] = f
          /\ \A i \in 1 .. Len(firmware.stack) - 1 : stack[i] = firmware.stack[i]
  BY <1>1, MovedIs DEF Runs
<1>3. /\ Height(firmware)' = Height(firmware)
      /\ firmware'.stack[Height(firmware)] = f
      /\ \A i \in 1 .. Height(firmware) - 1 : firmware'.stack[i] = firmware.stack[i]
  BY <1>1, <1>2 DEF Runs, Height
<1>4. \A i \in 1 .. Height(firmware) : Counts(firmware'.stack[i], firmware'.due)
  <2>1. SUFFICES ASSUME NEW i \in 1 .. Height(firmware)
                 PROVE  Counts(firmware'.stack[i], firmware'.due)
    OBVIOUS
  <2>2. CASE i = Height(firmware)
    BY <1>3, <2>2
  <2>3. CASE i # Height(firmware)
    <3>1. i \in 1 .. Height(firmware) - 1
      BY <1>1, <2>3
    <3>2. QED
      BY <1>3, <3>1
  <2>4. QED
    BY <2>2, <2>3
<1>5. QED
  BY <1>3, <1>4 DEF TicksInv

\* One that moves none.
LEMMA StillKeepsTicks ==
    ASSUME firmware'.stack = firmware.stack, "tick" \notin firmware'.races,
           firmware'.num_clock_ticks = firmware'.due, firmware'.due <= MaxTicks,
           \A i \in 1 .. Height(firmware) : Counts(firmware.stack[i], firmware'.due)
    PROVE  TicksInv'
  BY DEF TicksInv, Height

\* An answer: no other frame is at its own, so that the count is what is due, less one.
LEMMA StoreKeepsTicks == TypeInv /\ TicksInv /\ Store => TicksInv'
<1> SUFFICES ASSUME TypeInv, TicksInv, Store, "tick" \notin firmware'.races
             PROVE  TicksInv'
  BY DEF TicksInv
<1> DEFINE due == firmware.due
<1>1. PICK f : Runs(f) /\ f.at = "clock"
  BY StoreIs
<1>2. /\ firmware'.num_clock_ticks = (Top(firmware).loaded - 1) % 256
      /\ firmware'.due = due - 1
      /\ ~Below(firmware, "load") /\ ~Below(firmware, "store")
      /\ "tick" \notin firmware.races
  BY StoreIs
<1>3. /\ firmware.num_clock_ticks = due /\ due <= MaxTicks
      /\ \A i \in 1 .. Height(firmware) : Counts(firmware.stack[i], due)
  BY <1>2 DEF TicksInv
<1>4. /\ firmware \in Members /\ Height(firmware) \in Nat \ {0}
      /\ Top(firmware) = firmware.stack[Height(firmware)] /\ Top(firmware).at = "store"
  BY TypeFacts DEF Store
<1>5. due > 0 /\ Top(firmware).loaded = due /\ due \in 1 .. 255
  <2>1. Counts(Top(firmware), due)
    BY <1>3, <1>4
  <2>2. due > 0 /\ Top(firmware).loaded = due
    BY <1>4, <2>1 DEF Counts
  <2>3. due \in Int
    BY <1>4 DEF Members
  <2>4. QED
    BY <1>3, <2>2, <2>3, TickAssumption, SMTT(60)
<1>6. firmware'.num_clock_ticks = due - 1 /\ due - 1 <= MaxTicks
  <2>1. (due - 1) % 256 = due - 1
    BY <1>5
  <2>2. QED
    BY <1>2, <1>3, <1>5, <2>1, TickAssumption
<1>7. Counts(f, due - 1)
  BY <1>1 DEF Counts
<1>8. \A i \in 1 .. Height(firmware) - 1 : Counts(firmware.stack[i], due - 1)
  BY <1>2 DEF Below, Counts
<1>9. QED
  BY <1>1, <1>2, <1>6, <1>7, <1>8, MoveKeepsTicks

\* A tick: no frame is between its reading and its writing.
LEMMA CountKeepsTicks == TypeInv /\ TicksInv /\ CountTick => TicksInv'
<1> SUFFICES ASSUME TypeInv, TicksInv, CountTick, "tick" \notin firmware'.races
             PROVE  TicksInv'
  BY DEF TicksInv
<1> DEFINE due == firmware.due
<1>1. /\ firmware'.stack = firmware.stack /\ due < MaxTicks
      /\ firmware'.num_clock_ticks = (firmware.num_clock_ticks + 1) % 256
      /\ firmware'.due = due + 1
      /\ ~Stopped(firmware, "store") /\ "tick" \notin firmware.races
  BY CountTickIs
<1>2. /\ firmware.num_clock_ticks = due
      /\ \A i \in 1 .. Height(firmware) : Counts(firmware.stack[i], due)
  BY <1>1 DEF TicksInv
<1>3. firmware.num_clock_ticks \in 0 .. 255
  BY TypeFacts DEF Members
<1>4. firmware'.num_clock_ticks = due + 1 /\ due + 1 <= MaxTicks
  BY <1>1, <1>2, <1>3, TickAssumption
<1>5. \A i \in 1 .. Height(firmware) : Counts(firmware.stack[i], due + 1)
  BY <1>1, <1>2, <1>3 DEF Stopped, Counts
<1>6. QED
  BY <1>1, <1>4, <1>5, StillKeepsTicks

LEMMA StepsKeepTicks == TypeInv /\ TicksInv /\ [Next]_firmware => TicksInv'
<1> SUFFICES ASSUME TypeInv, TicksInv, [Next]_firmware, "tick" \notin firmware'.races
             PROVE  TicksInv'
  BY DEF TicksInv
<1> DEFINE due == firmware.due
           Held == /\ firmware.num_clock_ticks = due /\ due <= MaxTicks
                   /\ \A i \in 1 .. Height(firmware) : Counts(firmware.stack[i], due)
<1>1. "tick" \notin firmware.races => Held
  BY DEF TicksInv
<1>2. Height(firmware) \in Nat \ {0}
  BY TypeFacts
<1>3. ASSUME NEW f, Runs(f), SameClock(firmware, firmware'),
             "tick" \notin firmware.races, Counts(f, due)
      PROVE  TicksInv'
  <2>1. \A i \in 1 .. Height(firmware) - 1 : Counts(firmware.stack[i], due)
    BY <1>1, <1>2, <1>3
  <2>2. /\ firmware'.num_clock_ticks = firmware'.due /\ firmware'.due <= MaxTicks
        /\ firmware'.due = due
    BY <1>1, <1>3 DEF SameClock
  <2>3. QED
    BY <1>3, <2>1, <2>2, MoveKeepsTicks
<1>4. \A f : f.at \notin {"load", "store"} => Counts(f, due)
  BY DEF Counts
<1>5. ASSUME firmware'.stack = firmware.stack, SameClock(firmware, firmware'),
             "tick" \notin firmware.races
      PROVE  TicksInv'
  <2>1. /\ firmware'.num_clock_ticks = firmware'.due /\ firmware'.due <= MaxTicks
        /\ firmware'.due = due
    BY <1>1, <1>5 DEF SameClock
  <2>2. QED
    BY <1>1, <1>5, <2>1, StillKeepsTicks
<1>6. CASE Plain
  <2>1. PICK f : /\ Runs(f)
                 /\ f.at = "load" => firmware.num_clock_ticks > 0
                 /\ f.at = "store" => /\ Top(firmware).at = "load"
                                      /\ f.loaded = firmware.num_clock_ticks
    BY <1>6, PlainIs
  <2>2. SameClock(firmware, firmware') /\ "tick" \notin firmware.races
    BY <1>6, PlainIs
  <2>3. Held
    BY <1>1, <2>2
  <2>4. Counts(Top(firmware), due)
    BY <1>2, <2>3, TypeFacts
  <2>5. Counts(f, due)
    BY <2>1, <2>3, <2>4 DEF Counts
  <2>6. QED
    BY <1>3, <2>1, <2>2, <2>5
<1>7. CASE TakeOldest
  <2>1. PICK f : Runs(f) /\ f.at = "flush"
    BY <1>7, TakeOldestIs
  <2>2. SameClock(firmware, firmware') /\ "tick" \notin firmware.races
    BY <1>7, TakeOldestIs
  <2>3. QED
    BY <1>3, <1>4, <2>1, <2>2
<1>8. CASE WriteOldest
  <2>1. PICK f : Runs(f) /\ f.at = "room"
    BY <1>8, WriteOldestIs
  <2>2. SameClock(firmware, firmware') /\ "tick" \notin firmware.races
    BY <1>8, WriteOldestIs
  <2>3. QED
    BY <1>3, <1>4, <2>1, <2>2
<1>9. CASE WriteFirst
  <2>1. PICK f : Runs(f) /\ f.at = "second"
    BY <1>9, WriteFirstIs
  <2>2. SameClock(firmware, firmware') /\ "tick" \notin firmware.races
    BY <1>9, WriteFirstIs
  <2>3. QED
    BY <1>3, <1>4, <2>1, <2>2
<1>10. CASE WriteSecond
  <2>1. PICK f : Runs(f) /\ f.at \in {"code", "drain", "ticks"}
    BY <1>10, WriteSecondIs
  <2>2. SameClock(firmware, firmware') /\ "tick" \notin firmware.races
    BY <1>10, WriteSecondIs
  <2>3. QED
    BY <1>3, <1>4, <2>1, <2>2
<1>11. CASE Take \/ Overwrite
  <2>1. PICK f : Runs(f) /\ f.at \in {"put", "ticks"}
    BY <1>11, TakeIs, OverwriteIs
  <2>2. SameClock(firmware, firmware') /\ "tick" \notin firmware.races
    BY <1>11, TakeIs, OverwriteIs
  <2>3. QED
    BY <1>3, <1>4, <2>1, <2>2
<1>12. CASE Interrupt
  <2>1. /\ Height(firmware)' = Height(firmware) + 1
        /\ firmware'.stack[Height(firmware) + 1].at = "read"
        /\ \A i \in 1 .. Height(firmware) : firmware'.stack[i] = firmware.stack[i]
        /\ SameClock(firmware, firmware') /\ firmware'.races = firmware.races
    BY <1>12, InterruptIs
  <2>2. Held /\ firmware'.due = due /\ firmware'.num_clock_ticks = due
    BY <1>1, <2>1 DEF SameClock
  <2>3. Counts(firmware'.stack[Height(firmware) + 1], due)
    BY <1>4, <2>1
  <2>4. \A i \in 1 .. Height(firmware) + 1 : Counts(firmware'.stack[i], due)
    BY <1>2, <2>1, <2>2, <2>3
  <2>5. QED
    BY <2>1, <2>2, <2>4 DEF TicksInv
<1>13. CASE Return
  <2>1. /\ Height(firmware)' = Height(firmware) - 1
        /\ \A i \in 1 .. Height(firmware) - 1 : firmware'.stack[i] = firmware.stack[i]
        /\ SameClock(firmware, firmware') /\ firmware'.races = firmware.races
    BY <1>13, ReturnIs
  <2>2. Held /\ firmware'.due = due /\ firmware'.num_clock_ticks = due
    BY <1>1, <2>1 DEF SameClock
  <2>3. \A i \in 1 .. Height(firmware) - 1 : Counts(firmware'.stack[i], due)
    BY <1>2, <2>1, <2>2
  <2>4. QED
    BY <2>1, <2>2, <2>3 DEF TicksInv
<1>14. CASE SendFromTimer1
  BY <1>5, <1>14, SendFromTimer1Is
<1>15. CASE SendNow \/ Shift
  BY <1>5, <1>15, PortIs
<1>16. CASE UNCHANGED firmware
  BY <1>16 DEF TicksInv, Height
<1>17. QED
  BY <1>6, <1>7, <1>8, <1>9, <1>10, <1>11, <1>12, <1>13, <1>14, <1>15, <1>16,
     StoreKeepsTicks, CountKeepsTicks
     DEF Next, Plain

\* Every tick that TIMER1 counts is answered by one OnClock, however many handlers are
\* nested: unless an interrupt came between the test, the reading and the writing of
\* the count, as it may.
THEOREM EveryTickKept == Spec => []TicksKept
<1>1. Init => TicksInv
  <2> SUFFICES ASSUME Init PROVE TicksInv
    OBVIOUS
  <2>1. PICK realtime \in BOOLEAN :
          firmware = [stack |-> <<MainLoop>>, buffer |-> <<>>, busy |-> FALSE,
                      realtime |-> realtime, num_clock_ticks |-> 0, due |-> 0, open |-> -1,
                      torn |-> FALSE, races |-> {}]
    BY DEF Init
  <2>2. MainLoop.at = "code"
    BY DEF MainLoop, Entered
  <2> HIDE DEF MainLoop
  <2>3. /\ Height(firmware) = 1 /\ firmware.stack[1] = MainLoop
        /\ firmware.num_clock_ticks = 0 /\ firmware.due = 0
    BY <2>1 DEF Height
  <2>4. QED
    BY <2>2, <2>3, TickAssumption DEF TicksInv, Counts
<1>2. TypeInv /\ TicksInv /\ [Next]_firmware => TicksInv'
  BY StepsKeepTicks
<1>3. TicksInv => TicksKept
  BY DEF TicksInv, TicksKept
<1>4. QED
  BY <1>1, <1>2, <1>3, TypeInvariant, PTL DEF Spec

-----------------------------------------------------------------------------
(* The messages.                                                           *)

Senders == Sender \cup {-1}

\* After a byte, the sender whose message is open; a byte that does not cut one.
After(byte)      == IF byte[2] = 1 THEN byte[1] ELSE -1
Fits(open, byte) == \/ byte[2] = 1 /\ open = -1
                    \/ byte[2] = 2 /\ open = byte[1]

\* The bytes of q cut no message, of which open is begun before them and last after.
Before(open, q, i) == IF i = 1 THEN open ELSE After(q[i - 1])
Chain(open, q, last) ==
    /\ \A i \in 1 .. Len(q) : Fits(Before(open, q, i), q[i])
    /\ last = Before(open, q, Len(q) + 1)

LEMMA ChainAppend ==
    ASSUME NEW q \in Seq(Byte), NEW byte \in Byte, NEW open \in Senders, NEW last \in Senders,
           Chain(open, q, last), Fits(last, byte)
    PROVE  Chain(open, Append(q, byte), After(byte)) /\ After(byte) \in Senders
<1> DEFINE p == Append(q, byte)
           n == Len(q)
<1>1. /\ n \in Nat /\ Len(p) = n + 1 /\ p[n + 1] = byte
      /\ \A i \in 1 .. n : p[i] = q[i]
  OBVIOUS
<1> HIDE DEF p
<1>2. \A i \in 1 .. n + 1 : Before(open, p, i) = Before(open, q, i)
  BY <1>1 DEF Before
<1>3. \A i \in 1 .. n + 1 : Fits(Before(open, p, i), p[i])
  <2>1. SUFFICES ASSUME NEW i \in 1 .. n + 1 PROVE Fits(Before(open, p, i), p[i])
    OBVIOUS
  <2>2. CASE i \in 1 .. n
    BY <1>1, <1>2, <2>2 DEF Chain
  <2>3. CASE i = n + 1
    BY <1>1, <1>2, <2>3 DEF Chain
  <2>4. QED
    BY <1>1, <2>2, <2>3
<1>4. After(byte) = Before(open, p, n + 2)
  BY <1>1 DEF Before
<1>5. After(byte) \in Senders
  BY DEF After, Senders, Byte
<1>6. QED
  BY <1>1, <1>3, <1>4, <1>5 DEF Chain, p

LEMMA ChainTail ==
    ASSUME NEW q \in Seq(Byte), q # <<>>, NEW open \in Senders, NEW last \in Senders,
           Chain(open, q, last)
    PROVE  Fits(open, Head(q)) /\ Chain(After(Head(q)), Tail(q), last)
<1> DEFINE p == Tail(q)
           n == Len(q) - 1
           b == After(Head(q))
<1>1. /\ n \in Nat /\ Len(q) = n + 1 /\ Len(p) = n /\ Head(q) = q[1]
      /\ \A i \in 1 .. n : p[i] = q[i + 1]
  OBVIOUS
<1> HIDE DEF p, n
<1>2. Fits(open, Head(q))
  BY <1>1 DEF Chain, Before
<1>3. \A i \in 1 .. n + 1 : Before(b, p, i) = Before(open, q, i + 1)
  <2>1. SUFFICES ASSUME NEW i \in 1 .. n + 1
                 PROVE  Before(b, p, i) = Before(open, q, i + 1)
    OBVIOUS
  <2>2. CASE i = 1
    BY <1>1, <2>2 DEF Before
  <2>3. CASE i # 1
    <3>1. i - 1 \in 1 .. n /\ p[i - 1] = q[i] /\ i + 1 - 1 = i /\ i + 1 # 1
      BY <1>1, <2>3
    <3>2. QED
      BY <2>3, <3>1 DEF Before
  <2>4. QED
    BY <2>2, <2>3
<1>4. \A i \in 1 .. n : Fits(Before(b, p, i), p[i])
  <2>1. SUFFICES ASSUME NEW i \in 1 .. n PROVE Fits(Before(b, p, i), p[i])
    OBVIOUS
  <2>2. i + 1 \in 1 .. Len(q) /\ i \in 1 .. n + 1
    BY <1>1
  <2>3. Fits(Before(open, q, i + 1), q[i + 1])
    BY <2>2 DEF Chain
  <2>4. QED
    BY <1>1, <1>3, <2>2, <2>3
<1>5. last = Before(b, p, n + 1)
  BY <1>1, <1>3 DEF Chain
<1>6. QED
  BY <1>1, <1>2, <1>4, <1>5 DEF Chain, p

\* A byte that leaves where it fits.
LEMMA PutFits ==
    ASSUME NEW s \in Members, NEW byte \in Byte, Fits(s.open, byte), ~s.torn
    PROVE  ~Put(s, byte).torn /\ Put(s, byte).open = After(byte)
<1>1. /\ Put(s, byte).open = IF byte[2] = 1 /\ s.open = -1 THEN byte[1] ELSE -1
      /\ Put(s, byte).torn = (s.torn \/ ~(\/ byte[2] = 1 /\ s.open = -1
                                          \/ byte[2] = 2 /\ s.open = byte[1]))
  BY PutIs
<1>2. \/ byte[2] = 1 /\ s.open = -1
      \/ byte[2] = 2 /\ s.open = byte[1]
  BY DEF Fits
<1>3. ~Put(s, byte).torn
  BY <1>1, <1>2, Zenon
<1>4. Put(s, byte).open = After(byte)
  <2>1. Put(s, byte).open = IF byte[2] = 1 /\ s.open = -1 THEN byte[1] ELSE -1
    BY <1>1
  <2>2. CASE byte[2] = 1 /\ s.open = -1
    BY <2>1, <2>2 DEF After
  <2>3. CASE byte[2] = 2 /\ s.open = byte[1]
    BY <2>1, <2>3 DEF After
  <2>4. QED
    BY <1>2, <2>2, <2>3
<1>5. QED
  BY <1>3, <1>4

\* The frames at a place.
At(s, place) == {i \in 1 .. Height(s) : s.stack[i].at = place}

\* The bytes that are not sent, those of q and before them the one that was read and
\* not yet written to the port, cut no message; last is the sender of the one they leave open.
\* When two frames have a byte in hand nothing is said: the one that is interrupted will
\* be overtaken.
Flows(s, q, last) ==
    /\ Hands(s) = {} => Chain(s.open, q, last)
    /\ \A i \in 1 .. Height(s) :
         Hands(s) = {i} => /\ Fits(s.open, s.stack[i].byte)
                                 /\ Chain(After(s.stack[i].byte), q, last)

\* At most one Send is between its two writes, and the newest byte is its first.
Streams(s) ==
    /\ ~s.torn
    /\ \E last \in Senders :
         /\ IF At(s, "second") = {} THEN last = -1 ELSE At(s, "second") = {last}
         /\ Flows(s, s.buffer, last)

WholeInv == firmware.races \subseteq {"tick"} => Streams(firmware)

LEMMA StreamFacts ==
    ASSUME TypeInv
    PROVE  /\ firmware \in Members /\ firmware.buffer \in Seq(Byte)
           /\ firmware.open \in Senders
           /\ Height(firmware) \in Nat \ {0} /\ Height(firmware) \in Senders
           /\ Top(firmware) = firmware.stack[Height(firmware)]
           /\ \A place : Height(firmware) \in At(firmware, place) <=> Top(firmware).at = place
           /\ \A place : Below(firmware, place) <=> At(firmware, place) \ {Height(firmware)} # {}
           /\ \A place : Stopped(firmware, place) <=> At(firmware, place) # {}
           /\ Height(firmware) \in Hands(firmware) <=> Top(firmware).at \in Holds
           /\ \A i \in Hands(firmware) : firmware.stack[i].byte \in Byte
<1>1. /\ firmware \in Members /\ firmware.buffer \in Seq(Byte)
      /\ Height(firmware) \in Nat \ {0} /\ Height(firmware) <= MaxDepth
      /\ Height(firmware) = Len(firmware.stack) /\ firmware.stack \in Seq(Frame)
      /\ Top(firmware) = firmware.stack[Height(firmware)]
  BY TypeFacts
<1>2. firmware.open \in Senders /\ Height(firmware) \in Senders
  BY <1>1, DepthAssumption DEF Members, Senders, Sender
<1>3. \A place : Height(firmware) \in At(firmware, place) <=> Top(firmware).at = place
  BY <1>1 DEF At
<1>4. \A place : Below(firmware, place) <=> At(firmware, place) \ {Height(firmware)} # {}
  <2>1. 1 .. Height(firmware) - 1 = (1 .. Height(firmware)) \ {Height(firmware)}
    BY <1>1
  <2>2. QED
    BY <2>1 DEF Below, At
<1>5. \A place : Stopped(firmware, place) <=> At(firmware, place) # {}
  BY DEF Stopped, At
<1>6. \A i \in Hands(firmware) : firmware.stack[i].byte \in Byte
  <2>1. SUFFICES ASSUME NEW i \in Hands(firmware) PROVE firmware.stack[i].byte \in Byte
    OBVIOUS
  <2>2. firmware.stack[i] \in Frame /\ firmware.stack[i].byte # NoByte
    BY <1>1 DEF Hands
  <2>3. QED
    BY <2>2 DEF Frame
<1>7. Height(firmware) \in Hands(firmware) <=> Top(firmware).at \in Holds
  BY <1>1, TypeFacts DEF Hands, Proper
<1>8. QED
  BY <1>1, <1>2, <1>3, <1>4, <1>5, <1>6, <1>7

\* When the frame that runs becomes f, it is at the place of f and nowhere else.
LEMMA MovesTo ==
    ASSUME TypeInv, NEW f, Runs(f)
    PROVE  /\ Height(firmware') = Height(firmware)
           /\ firmware'.stack[Height(firmware)] = f
           /\ \A i \in 1 .. Height(firmware) - 1 : firmware'.stack[i] = firmware.stack[i]
           /\ \A place : At(firmware', place)
                = IF f.at = place THEN At(firmware, place) \cup {Height(firmware)}
                                  ELSE At(firmware, place) \ {Height(firmware)}
           /\ f.at \in Holds => Hands(firmware') = Hands(firmware) \cup {Height(firmware)}
           /\ f.at \notin Holds => Hands(firmware') = Hands(firmware) \ {Height(firmware)}
<1>1. /\ firmware.stack \in Seq(Frame) /\ firmware.stack # <<>>
      /\ Height(firmware) = Len(firmware.stack) /\ Height(firmware) \in Nat \ {0}
  BY TypeFacts
<1>2. LET stack == Moved(firmware.stack, f)
      IN  /\ Len(stack) = Len(firmware.stack) /\ stack[Len(firmware.stack)] = f
          /\ \A i \in 1 .. Len(firmware.stack) - 1 : stack[i] = firmware.stack[i]
  BY <1>1, MovedIs DEF Runs
<1>3. /\ Height(firmware') = Height(firmware)
      /\ firmware'.stack[Height(firmware)] = f
      /\ \A i \in 1 .. Height(firmware) - 1 : firmware'.stack[i] = firmware.stack[i]
  BY <1>1, <1>2 DEF Runs, Height
<1>4. ASSUME NEW place
      PROVE  At(firmware', place)
               = IF f.at = place THEN At(firmware, place) \cup {Height(firmware)}
                                 ELSE At(firmware, place) \ {Height(firmware)}
  <2> DEFINE n == Height(firmware)
  <2>1. \A i : i \in At(firmware', place) <=> i \in 1 .. n /\ firmware'.stack[i].at = place
    BY <1>3 DEF At
  <2>2. \A i : i \in At(firmware, place) <=> i \in 1 .. n /\ firmware.stack[i].at = place
    BY DEF At
  <2>3. \A i \in 1 .. n : i # n => firmware'.stack[i] = firmware.stack[i]
    BY <1>1, <1>3
  <2>4. n \in 1 .. n /\ firmware'.stack[n] = f
    BY <1>1, <1>3
  <2> HIDE DEF n
  <2>5. CASE f.at = place
    <3>1. At(firmware', place) = At(firmware, place) \cup {n}
      BY <2>1, <2>2, <2>3, <2>4, <2>5
    <3>2. QED
      BY <2>5, <3>1 DEF n
  <2>6. CASE f.at # place
    <3>1. At(firmware', place) = At(firmware, place) \ {n}
      BY <2>1, <2>2, <2>3, <2>4, <2>6
    <3>2. QED
      BY <2>6, <3>1 DEF n
  <2>7. QED
    BY <2>5, <2>6
<1>5. /\ f.at \in Holds => Hands(firmware') = Hands(firmware) \cup {Height(firmware)}
      /\ f.at \notin Holds => Hands(firmware') = Hands(firmware) \ {Height(firmware)}
  <2> DEFINE n == Height(firmware)
  <2>1. \A i : i \in Hands(firmware') <=> i \in 1 .. n /\ firmware'.stack[i].byte # NoByte
    BY <1>3 DEF Hands
  <2>2. \A i : i \in Hands(firmware) <=> i \in 1 .. n /\ firmware.stack[i].byte # NoByte
    BY DEF Hands
  <2>3. \A i \in 1 .. n : i # n => firmware'.stack[i] = firmware.stack[i]
    BY <1>1, <1>3
  <2>4. /\ n \in 1 .. n /\ firmware'.stack[n] = f
        /\ f.at \in Holds <=> f.byte # NoByte
    BY <1>1, <1>3 DEF Runs, Proper
  <2> HIDE DEF n
  <2>5. f.at \in Holds => Hands(firmware') = Hands(firmware) \cup {n}
    BY <2>1, <2>2, <2>3, <2>4
  <2>6. f.at \notin Holds => Hands(firmware') = Hands(firmware) \ {n}
    BY <2>1, <2>2, <2>3, <2>4
  <2>7. QED
    BY <2>5, <2>6 DEF n
<1>6. QED
  BY <1>3, <1>4, <1>5

\* Bytes that no step touches.
LEMMA SameFlows ==
    ASSUME NEW q, NEW last, Flows(firmware, q, last), firmware'.open = firmware.open,
           Hands(firmware') = Hands(firmware),
           \A i \in Hands(firmware) : firmware'.stack[i] = firmware.stack[i]
    PROVE  Flows(firmware', q, last)
<1>1. \A i : Hands(firmware) = {i} => i \in 1 .. Height(firmware)
  BY DEF Hands
<1>2. ASSUME NEW i, Hands(firmware') = {i}
      PROVE  /\ Fits(firmware'.open, firmware'.stack[i].byte)
             /\ Chain(After(firmware'.stack[i].byte), q, last)
  <2>1. /\ Hands(firmware) = {i} /\ i \in 1 .. Height(firmware)
        /\ firmware'.stack[i] = firmware.stack[i]
    BY <1>1, <1>2
  <2>2. QED
    BY <2>1 DEF Flows
<1>3. QED
  BY <1>2 DEF Flows

\* A step that changes nothing of a message.
LEMMA SameStreams ==
    ASSUME Streams(firmware), SameStream(firmware, firmware'),
           At(firmware', "second") = At(firmware, "second"),
           Hands(firmware') = Hands(firmware),
           \A i \in Hands(firmware) : firmware'.stack[i] = firmware.stack[i]
    PROVE  Streams(firmware')
<1>1. PICK last \in Senders :
         /\ IF At(firmware, "second") = {} THEN last = -1 ELSE At(firmware, "second") = {last}
         /\ Flows(firmware, firmware.buffer, last)
  BY DEF Streams
<1>2. /\ firmware'.buffer = firmware.buffer /\ firmware'.open = firmware.open
      /\ ~firmware'.torn
  BY DEF SameStream, Streams
<1>3. Flows(firmware', firmware.buffer, last)
  BY <1>1, <1>2, SameFlows
<1>4. QED
  BY <1>1, <1>2, <1>3 DEF Streams

\* A place that the frame that runs neither leaves nor reaches.
LEMMA PlaceStays ==
    ASSUME TypeInv, NEW f, Runs(f), NEW place, f.at # place, Top(firmware).at # place
    PROVE  /\ At(firmware', place) = At(firmware, place)
           /\ \A i \in At(firmware, place) : firmware'.stack[i] = firmware.stack[i]
<1>1. Height(firmware) \notin At(firmware, place) /\ Height(firmware) \in Nat \ {0}
  BY StreamFacts
<1>2. At(firmware', place) = At(firmware, place) \ {Height(firmware)}
  BY MovesTo
<1>3. At(firmware, place) \ {Height(firmware)} = At(firmware, place)
  BY <1>1
<1>4. \A i \in At(firmware, place) : i \in 1 .. Height(firmware) - 1
  BY <1>1 DEF At
<1>5. \A i \in At(firmware, place) : firmware'.stack[i] = firmware.stack[i]
  BY <1>4, MovesTo
<1>6. QED
  BY <1>2, <1>3, <1>5

\* A hand that is neither filled nor emptied.
LEMMA HandsStay ==
    ASSUME TypeInv, NEW f, Runs(f), f.at \notin Holds, Top(firmware).at \notin Holds
    PROVE  /\ Hands(firmware') = Hands(firmware)
           /\ \A i \in Hands(firmware) : firmware'.stack[i] = firmware.stack[i]
<1>1. Height(firmware) \notin Hands(firmware) /\ Height(firmware) \in Nat \ {0}
  BY StreamFacts
<1>2. Hands(firmware') = Hands(firmware) \ {Height(firmware)}
  BY MovesTo
<1>3. Hands(firmware) \ {Height(firmware)} = Hands(firmware)
  BY <1>1
<1>4. \A i \in Hands(firmware) : i \in 1 .. Height(firmware) - 1
  BY <1>1 DEF Hands
<1>5. \A i \in Hands(firmware) : firmware'.stack[i] = firmware.stack[i]
  BY <1>4, MovesTo
<1>6. QED
  BY <1>2, <1>3, <1>5

LEMMA PlainKeepsStreams ==
    ASSUME TypeInv, Streams(firmware), NEW f, Runs(f), SameStream(firmware, firmware'),
           f.at \notin ({"second"} \cup Holds), Top(firmware).at \notin ({"second"} \cup Holds)
    PROVE  Streams(firmware')
<1>1. At(firmware', "second") = At(firmware, "second")
  BY PlaceStays
<1>2. /\ Hands(firmware') = Hands(firmware)
      /\ \A i \in Hands(firmware) : firmware'.stack[i] = firmware.stack[i]
  BY HandsStay
<1>3. QED
  BY <1>1, <1>2, SameStreams

\* A frame takes the oldest byte: the first that is not sent yet.
LEMMA TakingKeepsStreams ==
    ASSUME TypeInv, Streams(firmware), NEW f, Runs(f), f.at \in Holds,
           Top(firmware).at \notin ({"second"} \cup Holds),
           firmware.buffer # <<>>, f.byte = Head(firmware.buffer),
           firmware'.buffer = Tail(firmware.buffer),
           firmware'.open = firmware.open, firmware'.torn = firmware.torn
    PROVE  Streams(firmware')
<1> DEFINE n == Height(firmware)
           q == firmware.buffer
<1>1. f.at # "second" /\ Top(firmware).at # "second" /\ Top(firmware).at \notin Holds
  BY DEF Holds
<1>2. PICK last \in Senders :
         /\ IF At(firmware, "second") = {} THEN last = -1 ELSE At(firmware, "second") = {last}
         /\ Hands(firmware) = {} => Chain(firmware.open, q, last)
  BY DEF Streams, Flows
<1>3. At(firmware', "second") = At(firmware, "second")
  BY <1>1, PlaceStays
<1>4. Hands(firmware') = Hands(firmware) \cup {n} /\ firmware'.stack[n] = f
  BY MovesTo
<1>5. n \notin Hands(firmware) /\ q \in Seq(Byte) /\ firmware.open \in Senders
  BY <1>1, StreamFacts
<1>6. ASSUME NEW i, Hands(firmware') = {i}
      PROVE  /\ Fits(firmware'.open, firmware'.stack[i].byte)
             /\ Chain(After(firmware'.stack[i].byte), firmware'.buffer, last)
  <2>1. i = n /\ Hands(firmware) = {}
    BY <1>4, <1>5, <1>6
  <2>2. Fits(firmware.open, Head(q)) /\ Chain(After(Head(q)), Tail(q), last)
    BY <1>2, <1>5, <2>1, ChainTail
  <2>3. QED
    BY <1>4, <2>1, <2>2
<1>7. ~firmware'.torn
  BY DEF Streams
<1>8. Hands(firmware') # {}
  BY <1>4
<1>9. QED
  BY <1>2, <1>3, <1>6, <1>7, <1>8 DEF Streams, Flows

\* It writes it: no other frame has one in hand, or it was overtaken.
LEMMA WritingKeepsStreams ==
    ASSUME TypeInv, Streams(firmware), NEW f, Runs(f), f.at \notin ({"second"} \cup Holds),
           Top(firmware).at \in Holds, Top(firmware).byte \in Byte,
           firmware'.buffer = firmware.buffer,
           firmware'.open = Put(firmware, Top(firmware).byte).open,
           firmware'.torn = Put(firmware, Top(firmware).byte).torn,
           ~Overtakes(firmware)
    PROVE  Streams(firmware')
<1> DEFINE n    == Height(firmware)
           byte == Top(firmware).byte
<1>1. f.at # "second" /\ Top(firmware).at # "second" /\ f.at \notin Holds
  BY DEF Holds
<1>2. PICK last \in Senders :
         /\ IF At(firmware, "second") = {} THEN last = -1 ELSE At(firmware, "second") = {last}
         /\ \A i \in 1 .. n :
              Hands(firmware) = {i} => /\ Fits(firmware.open, firmware.stack[i].byte)
                                      /\ Chain(After(firmware.stack[i].byte),
                                               firmware.buffer, last)
  BY DEF Streams, Flows
<1>3. At(firmware', "second") = At(firmware, "second")
  BY <1>1, PlaceStays
<1>4. Hands(firmware') = Hands(firmware) \ {n}
  BY <1>1, MovesTo
<1>5. Hands(firmware) = {n}
  <2>1. n \in Hands(firmware) /\ Hands(firmware) \ {n} = {}
    BY StreamFacts DEF Overtakes
  <2>2. QED
    BY <2>1
<1>6. Fits(firmware.open, byte) /\ Chain(After(byte), firmware.buffer, last)
  <2>1. n \in 1 .. n /\ byte = firmware.stack[n].byte
    BY StreamFacts
  <2>2. QED
    BY <1>2, <1>5, <2>1
<1>7. ~firmware'.torn /\ firmware'.open = After(byte)
  <2>1. ~Put(firmware, byte).torn /\ Put(firmware, byte).open = After(byte)
    BY <1>6, PutFits, TypeFacts DEF Streams
  <2>2. QED
    BY <2>1
<1>8. Hands(firmware') = {}
  BY <1>4, <1>5
<1>9. Chain(firmware'.open, firmware'.buffer, last)
  BY <1>6, <1>7
<1>10. QED
  BY <1>2, <1>3, <1>7, <1>8, <1>9 DEF Streams, Flows

\* A byte is written where it fits.
LEMMA AppendFlows ==
    ASSUME TypeInv, NEW last \in Senders, NEW q \in Seq(Byte), Flows(firmware, q, last),
           NEW byte \in Byte, Fits(last, byte)
    PROVE  Flows(firmware, Append(q, byte), After(byte))
<1>1. /\ firmware.open \in Senders
      /\ \A i \in Hands(firmware) : firmware.stack[i].byte \in Byte
  BY StreamFacts
<1>2. Hands(firmware) = {} => Chain(firmware.open, Append(q, byte), After(byte))
  BY <1>1, ChainAppend DEF Flows
<1>3. ASSUME NEW i \in 1 .. Height(firmware), Hands(firmware) = {i}
      PROVE  /\ Fits(firmware.open, firmware.stack[i].byte)
             /\ Chain(After(firmware.stack[i].byte), Append(q, byte), After(byte))
  <2> DEFINE b == firmware.stack[i].byte
  <2>1. Fits(firmware.open, b) /\ Chain(After(b), q, last)
    BY <1>3 DEF Flows
  <2>2. b \in Byte
    BY <1>1, <1>3
  <2>3. After(b) \in Senders
    BY <2>2 DEF After, Senders, Byte
  <2> HIDE DEF b
  <2>4. Chain(After(b), Append(q, byte), After(byte))
    BY <2>1, <2>3, ChainAppend
  <2>5. QED
    BY <2>1, <2>4 DEF b
<1>4. QED
  BY <1>2, <1>3 DEF Flows

\* The first byte of a message: no other Send is between its two writes.
LEMMA WriteFirstKeepsStreams ==
    ASSUME TypeInv, Streams(firmware), WriteFirst, "nested" \notin firmware'.races
    PROVE  Streams(firmware')
<1> DEFINE n    == Height(firmware)
           q    == firmware.buffer
           byte == <<n, 1>>
<1>1. PICK f : Runs(f) /\ f.at = "second"
  BY WriteFirstIs
<1>2. /\ firmware'.buffer = Append(q, byte) /\ byte \in Byte
      /\ firmware'.open = firmware.open /\ firmware'.torn = firmware.torn
      /\ ~Below(firmware, "second")
  BY WriteFirstIs
<1>3. Top(firmware).at = "first"
  BY DEF WriteFirst
<1>4. At(firmware, "second") = {} /\ n \in Senders
  <2>1. n \notin At(firmware, "second") /\ At(firmware, "second") \ {n} = {} /\ n \in Senders
    BY <1>2, <1>3, StreamFacts
  <2>2. QED
    BY <2>1
<1>5. Flows(firmware, q, -1) /\ -1 \in Senders /\ q \in Seq(Byte)
  BY <1>4, StreamFacts DEF Streams, Senders
<1>6. /\ Hands(firmware') = Hands(firmware)
      /\ \A i \in Hands(firmware) : firmware'.stack[i] = firmware.stack[i]
  BY <1>1, <1>3, HandsStay DEF Holds
<1>7. Fits(-1, byte) /\ After(byte) = n
  BY DEF Fits, After
<1> HIDE DEF byte
<1>8. Flows(firmware', firmware'.buffer, n)
  <2>1. Flows(firmware, Append(q, byte), After(byte))
    BY <1>2, <1>5, <1>7, AppendFlows
  <2>2. QED
    BY <1>2, <1>6, <1>7, <2>1, SameFlows
<1>9. At(firmware', "second") = {n}
  <2>1. At(firmware', "second") = At(firmware, "second") \cup {n}
    BY <1>1, MovesTo
  <2>2. QED
    BY <1>4, <2>1
<1>10. ~firmware'.torn
  BY <1>2 DEF Streams
<1>11. QED
  BY <1>4, <1>8, <1>9, <1>10 DEF Streams

\* The second byte: the newest in the buffer is the first one.
LEMMA WriteSecondKeepsStreams ==
    ASSUME TypeInv, Streams(firmware), WriteSecond
    PROVE  Streams(firmware')
<1> DEFINE n    == Height(firmware)
           q    == firmware.buffer
           byte == <<n, 2>>
<1>1. PICK f : Runs(f) /\ f.at \in {"code", "drain", "ticks"}
  BY WriteSecondIs
<1>2. /\ firmware'.buffer = Append(q, byte) /\ byte \in Byte
      /\ firmware'.open = firmware.open /\ firmware'.torn = firmware.torn
  BY WriteSecondIs
<1>3. Top(firmware).at = "second"
  BY DEF WriteSecond
<1>4. n \in At(firmware, "second") /\ n \in Senders
  BY <1>3, StreamFacts
<1>5. Flows(firmware, q, n) /\ At(firmware, "second") = {n} /\ q \in Seq(Byte)
  <2>1. PICK last \in Senders :
           /\ IF At(firmware, "second") = {} THEN last = -1
                                             ELSE At(firmware, "second") = {last}
           /\ Flows(firmware, q, last)
    BY DEF Streams
  <2>2. last = n /\ At(firmware, "second") = {n}
    BY <1>4, <2>1
  <2>3. QED
    BY <2>1, <2>2, StreamFacts
<1>6. /\ Hands(firmware') = Hands(firmware)
      /\ \A i \in Hands(firmware) : firmware'.stack[i] = firmware.stack[i]
  BY <1>1, <1>3, HandsStay DEF Holds
<1>7. Fits(n, byte) /\ After(byte) = -1
  BY DEF Fits, After
<1> HIDE DEF byte
<1>8. Flows(firmware', firmware'.buffer, -1)
  <2>1. Flows(firmware, Append(q, byte), After(byte))
    BY <1>2, <1>4, <1>5, <1>7, AppendFlows
  <2>2. QED
    BY <1>2, <1>6, <1>7, <2>1, SameFlows
<1>9. At(firmware', "second") = {}
  <2>1. At(firmware', "second") = At(firmware, "second") \ {n}
    BY <1>1, MovesTo
  <2>2. QED
    BY <1>5, <2>1
<1>10. ~firmware'.torn /\ -1 \in Senders
  BY <1>2 DEF Streams, Senders
<1>11. QED
  BY <1>8, <1>9, <1>10 DEF Streams

\* The oldest byte leaves, and no frame has one in hand.
LEMMA OldestLeaves ==
    ASSUME NEW s \in Members, s.buffer # <<>>, ~s.torn, NEW last \in Senders,
           Chain(s.open, s.buffer, last)
    PROVE  LET t == Put(s, Head(s.buffer)) IN ~t.torn /\ Chain(t.open, Tail(s.buffer), last)
<1>1. s.buffer \in Seq(Byte) /\ Head(s.buffer) \in Byte /\ s.open \in Senders
  BY DEF Members, Senders
<1>2. Fits(s.open, Head(s.buffer)) /\ Chain(After(Head(s.buffer)), Tail(s.buffer), last)
  BY <1>1, ChainTail
<1>3. ~Put(s, Head(s.buffer)).torn /\ Put(s, Head(s.buffer)).open = After(Head(s.buffer))
  BY <1>1, <1>2, PutFits
<1>4. QED
  BY <1>2, <1>3

LEMMA FlushedFlows ==
    ASSUME NEW s \in Members, Len(s.buffer) <= BufferSize, ~s.torn, NEW last \in Senders,
           Chain(s.open, s.buffer, last)
    PROVE  LET t == Flushed(s)
           IN  /\ t \in Members /\ Len(t.buffer) <= BufferSize
               /\ ~t.torn /\ Chain(t.open, t.buffer, last)
<1> DEFINE t == Flushed(s)
<1>1. /\ t \in Members
      /\ \/ t = s
         \/ /\ s.buffer # <<>> /\ t.buffer = Tail(s.buffer)
            /\ t.open = Put(s, Head(s.buffer)).open
            /\ t.torn = Put(s, Head(s.buffer)).torn
  BY FlushedIs
<1> HIDE DEF t
<1>2. CASE t = s
  BY <1>1, <1>2 DEF t
<1>3. CASE t # s
  <2>1. /\ ~Put(s, Head(s.buffer)).torn
        /\ Chain(Put(s, Head(s.buffer)).open, Tail(s.buffer), last)
    BY <1>1, <1>3, OldestLeaves
  <2>2. Len(t.buffer) <= BufferSize
    <3>1. s.buffer \in Seq(Byte) /\ s.buffer # <<>> /\ t.buffer = Tail(s.buffer)
      BY <1>1, <1>3 DEF Members
    <3>2. Len(t.buffer) = Len(s.buffer) - 1 /\ Len(s.buffer) \in Nat
      BY <3>1
    <3>3. QED
      BY <3>2, BufferAssumption
  <2>3. QED
    BY <1>1, <1>3, <2>1, <2>2 DEF t
<1>4. QED
  BY <1>2, <1>3

\* TIMER1 sends a message: no Send is between its two writes, and no frame has a byte in
\* hand if it empties the buffer for it.
LEMMA SendFromTimer1KeepsStreams ==
    ASSUME TypeInv, Streams(firmware), SendFromTimer1, firmware'.races \subseteq {"tick"}
    PROVE  Streams(firmware')
<1> DEFINE t == Flushed(Flushed(firmware))
           a == <<0, 1>>
           b == <<0, 2>>
<1>1. /\ firmware'.stack = firmware.stack /\ t \in Members /\ a \in Byte /\ b \in Byte
      /\ firmware'.buffer = Append(Append(t.buffer, a), b)
      /\ firmware'.open = t.open /\ firmware'.torn = t.torn
      /\ ~Stopped(firmware, "second")
      /\ Room(firmware) >= 2 \/ Hands(firmware) = {}
  <2>1. Room(firmware) \in Nat
    BY TypeFacts
  <2>2. QED
    BY <2>1, SendFromTimer1Is
<1>2. /\ \A place : At(firmware', place) = At(firmware, place)
      /\ Hands(firmware') = Hands(firmware)
  BY <1>1 DEF At, Hands, Height
<1>3. At(firmware, "second") = {} /\ firmware \in Members /\ firmware.buffer \in Seq(Byte)
  BY <1>1, StreamFacts
<1>4. /\ Flows(firmware, firmware.buffer, -1) /\ ~firmware.torn
      /\ -1 \in Senders /\ 0 \in Senders
  BY <1>3, DepthAssumption DEF Streams, Senders, Sender
<1>5. Fits(-1, a) /\ After(a) = 0 /\ Fits(0, b) /\ After(b) = -1
  BY DEF Fits, After
<1>6. Len(firmware.buffer) <= BufferSize
  BY TypeFacts, BufferAssumption
<1> HIDE DEF a, b, t
<1>7. CASE Room(firmware) >= 2
  <2>1. t = firmware
    BY <1>3, <1>7, BufferAssumption DEF t, Flushed, Room
  <2>2. Flows(firmware, Append(firmware.buffer, a), 0)
    BY <1>1, <1>3, <1>4, <1>5, AppendFlows
  <2>3. Append(firmware.buffer, a) \in Seq(Byte)
    BY <1>1, <1>3
  <2>4. Flows(firmware, Append(Append(firmware.buffer, a), b), -1)
    BY <1>1, <1>4, <1>5, <2>2, <2>3, AppendFlows
  <2>5. Flows(firmware', firmware'.buffer, -1)
    BY <1>1, <1>2, <2>1, <2>4, SameFlows
  <2>6. QED
    BY <1>1, <1>2, <1>3, <1>4, <2>1, <2>5 DEF Streams
<1>8. CASE Hands(firmware) = {}
  <2>1. Hands(firmware) = {}
    BY <1>8
  <2>2. Chain(firmware.open, firmware.buffer, -1)
    BY <1>4, <2>1 DEF Flows
  <2> DEFINE s == Flushed(firmware)
  <2>3. /\ s \in Members /\ Len(s.buffer) <= BufferSize
        /\ ~s.torn /\ Chain(s.open, s.buffer, -1)
    BY <1>3, <1>4, <1>6, <2>2, FlushedFlows
  <2> HIDE DEF s
  <2>4. ~t.torn /\ Chain(t.open, t.buffer, -1)
    <3>1. t = Flushed(s)
      BY DEF t, s
    <3>2. QED
      BY <1>4, <2>3, <3>1, FlushedFlows
  <2>5. t.buffer \in Seq(Byte) /\ t.open \in Senders
    BY <1>1 DEF Members, Senders
  <2>6. Chain(t.open, Append(t.buffer, a), 0)
    BY <1>1, <1>4, <1>5, <2>4, <2>5, ChainAppend
  <2>7. Append(t.buffer, a) \in Seq(Byte)
    BY <1>1, <2>5
  <2>8. Chain(t.open, Append(Append(t.buffer, a), b), -1)
    BY <1>1, <1>4, <1>5, <2>5, <2>6, <2>7, ChainAppend
  <2>9. Flows(firmware', firmware'.buffer, -1)
    BY <1>1, <1>2, <2>1, <2>8 DEF Flows
  <2>10. QED
    BY <1>1, <1>2, <1>3, <1>4, <2>4, <2>9 DEF Streams
<1>9. QED
  BY <1>1, <1>7, <1>8

\* A handler that begins or returns has no part in a message.
LEMMA InterruptKeepsStreams ==
    ASSUME TypeInv, Streams(firmware), Interrupt
    PROVE  Streams(firmware')
<1> DEFINE n == Height(firmware)
<1>1. /\ Height(firmware') = n + 1 /\ firmware'.stack[n + 1].at = "read"
      /\ \A i \in 1 .. n : firmware'.stack[i] = firmware.stack[i]
      /\ SameStream(firmware, firmware')
  BY InterruptIs
<1>2. n \in Nat /\ firmware'.stack[n + 1].byte = NoByte
  <2>1. TypeInv' /\ Height(firmware)' = n + 1 /\ n \in Nat
    BY InterruptIs, StreamFacts
  <2>2. Proper(n + 1, firmware'.stack[n + 1])
    BY <2>1 DEF TypeInv
  <2>3. QED
    BY <1>1, <2>1, <2>2 DEF Proper, Holds
<1> HIDE DEF n
<1>3. ASSUME NEW place, place # "read"
      PROVE  At(firmware', place) = At(firmware, place)
  <2>1. \A i : i \in At(firmware', place) <=> i \in 1 .. n + 1 /\ firmware'.stack[i].at = place
    BY <1>1 DEF At
  <2>2. \A i : i \in At(firmware, place) <=> i \in 1 .. n /\ firmware.stack[i].at = place
    BY DEF At, n
  <2>3. \A i \in 1 .. n + 1 : i \in 1 .. n \/ i = n + 1
    BY <1>2
  <2>4. \A i : i \in At(firmware', place) <=> i \in At(firmware, place)
    BY <1>1, <1>2, <1>3, <2>1, <2>2, <2>3
  <2>5. QED
    BY <2>4
<1>4. /\ Hands(firmware') = Hands(firmware)
      /\ \A i \in Hands(firmware) : firmware'.stack[i] = firmware.stack[i]
  <2>1. \A i : i \in Hands(firmware') <=> i \in 1 .. n + 1 /\ firmware'.stack[i].byte # NoByte
    BY <1>1 DEF Hands
  <2>2. \A i : i \in Hands(firmware) <=> i \in 1 .. n /\ firmware.stack[i].byte # NoByte
    BY DEF Hands, n
  <2>3. \A i \in 1 .. n + 1 : i \in 1 .. n \/ i = n + 1
    BY <1>2
  <2>4. \A i : i \in Hands(firmware') <=> i \in Hands(firmware)
    BY <1>1, <1>2, <2>1, <2>2, <2>3
  <2>5. QED
    BY <1>1, <2>2, <2>4
<1>5. QED
  BY <1>1, <1>3, <1>4, SameStreams

LEMMA ReturnKeepsStreams ==
    ASSUME TypeInv, Streams(firmware), Return
    PROVE  Streams(firmware')
<1> DEFINE n == Height(firmware)
<1>1. /\ Height(firmware') = n - 1 /\ Top(firmware).at = "ticks"
      /\ \A i \in 1 .. n - 1 : firmware'.stack[i] = firmware.stack[i]
      /\ SameStream(firmware, firmware')
  BY ReturnIs
<1>2. n \in Nat /\ Top(firmware) = firmware.stack[n] /\ n \notin Hands(firmware)
  BY <1>1, StreamFacts DEF Holds
<1> HIDE DEF n
<1>3. ASSUME NEW place, place # "ticks"
      PROVE  /\ At(firmware', place) = At(firmware, place)
             /\ \A i \in At(firmware, place) : i \in 1 .. n - 1
  <2>1. \A i : i \in At(firmware', place) <=> i \in 1 .. n - 1 /\ firmware'.stack[i].at = place
    BY <1>1 DEF At
  <2>2. \A i : i \in At(firmware, place) <=> i \in 1 .. n /\ firmware.stack[i].at = place
    BY DEF At, n
  <2>3. \A i : i \in 1 .. n <=> i \in 1 .. n - 1 \/ (i = n /\ n # 0)
    BY <1>2
  <2>4. \A i : i \in At(firmware', place) <=> i \in At(firmware, place)
    BY <1>1, <1>2, <1>3, <2>1, <2>2, <2>3
  <2>5. QED
    BY <2>1, <2>4
<1>4. /\ Hands(firmware') = Hands(firmware)
      /\ \A i \in Hands(firmware) : firmware'.stack[i] = firmware.stack[i]
  <2>1. \A i : i \in Hands(firmware') <=> i \in 1 .. n - 1 /\ firmware'.stack[i].byte # NoByte
    BY <1>1 DEF Hands
  <2>2. \A i : i \in Hands(firmware) <=> i \in 1 .. n /\ firmware.stack[i].byte # NoByte
    BY DEF Hands, n
  <2>3. \A i : i \in 1 .. n <=> i \in 1 .. n - 1 \/ (i = n /\ n # 0)
    BY <1>2
  <2>4. \A i : i \in Hands(firmware') <=> i \in Hands(firmware)
    BY <1>1, <1>2, <2>1, <2>2, <2>3
  <2>5. QED
    BY <1>1, <2>1, <2>4
<1>5. QED
  BY <1>1, <1>3, <1>4, SameStreams

LEMMA StillKeepsStreams ==
    ASSUME Streams(firmware), firmware'.stack = firmware.stack, SameStream(firmware, firmware')
    PROVE  Streams(firmware')
<1>1. /\ \A place : At(firmware', place) = At(firmware, place)
      /\ Hands(firmware') = Hands(firmware)
  BY DEF At, Hands, Height
<1>2. QED
  BY <1>1, SameStreams

LEMMA StepsKeepStreams == TypeInv /\ WholeInv /\ [Next]_firmware => WholeInv'
<1> SUFFICES ASSUME TypeInv, WholeInv, [Next]_firmware, firmware'.races \subseteq {"tick"}
             PROVE  Streams(firmware')
  BY DEF WholeInv
<1>1. firmware.races \subseteq {"tick"} => Streams(firmware)
  BY DEF WholeInv
<1>2. CASE Plain
  <2>1. PICK f : Runs(f) /\ f.at \notin ({"second"} \cup Holds)
    BY <1>2, PlainIs
  <2>2. /\ SameStream(firmware, firmware') /\ firmware.races \subseteq {"tick"}
        /\ Top(firmware).at \notin ({"second"} \cup Holds)
    BY <1>2, PlainIs
  <2>3. QED
    BY <1>1, <2>1, <2>2, PlainKeepsStreams
<1>3. CASE TakeOldest
  <2>1. PICK f : Runs(f) /\ f.at = "flush" /\ f.byte = Head(firmware.buffer)
    BY <1>3, TakeOldestIs
  <2>2. /\ firmware.buffer # <<>> /\ firmware'.buffer = Tail(firmware.buffer)
        /\ firmware'.open = firmware.open /\ firmware'.torn = firmware.torn
        /\ Streams(firmware)
    BY <1>1, <1>3, TakeOldestIs
  <2>3. f.at \in Holds /\ Top(firmware).at \notin ({"second"} \cup Holds)
    BY <1>3, <2>1 DEF TakeOldest, Holds
  <2>4. QED
    BY <2>1, <2>2, <2>3, TakingKeepsStreams
<1>4. CASE WriteOldest
  <2> DEFINE byte == Top(firmware).byte
  <2>1. PICK f : Runs(f) /\ f.at = "room"
    BY <1>4, WriteOldestIs
  <2>2. /\ byte \in Byte /\ firmware'.buffer = firmware.buffer
        /\ firmware'.open = Put(firmware, byte).open
        /\ firmware'.torn = Put(firmware, byte).torn
        /\ ~Overtakes(firmware) /\ firmware.races \subseteq {"tick"}
    BY <1>4, WriteOldestIs
  <2>3. f.at \notin ({"second"} \cup Holds) /\ Top(firmware).at \in Holds
    BY <1>4, <2>1 DEF WriteOldest, Holds
  <2>4. QED
    BY <1>1, <2>1, <2>2, <2>3, WritingKeepsStreams
<1>5. CASE WriteFirst
  <2>1. firmware.races \subseteq {"tick"} /\ "nested" \notin firmware'.races
    BY <1>5, WriteFirstIs
  <2>2. QED
    BY <1>1, <1>5, <2>1, WriteFirstKeepsStreams
<1>6. CASE WriteSecond
  BY <1>1, <1>6, WriteSecondIs, WriteSecondKeepsStreams
<1>7. CASE Take \/ Overwrite
  <2>1. CASE Take
    <3>1. PICK f : /\ Runs(f) /\ f.at \in {"put", "ticks"}
                   /\ \/ "stale" \in firmware'.races
                      \/ f.at = "put" /\ f.byte = Head(firmware.buffer)
      BY <2>1, TakeIs
    <3>2. /\ firmware.buffer # <<>> /\ firmware'.buffer = Tail(firmware.buffer)
          /\ firmware'.open = firmware.open /\ firmware'.torn = firmware.torn
          /\ firmware.races \subseteq {"tick"}
      BY <2>1, TakeIs
    <3>3. /\ f.at \in Holds /\ f.byte = Head(firmware.buffer)
          /\ Top(firmware).at \notin ({"second"} \cup Holds)
      BY <2>1, <3>1 DEF Take, Holds
    <3>4. QED
      BY <1>1, <3>1, <3>2, <3>3, TakingKeepsStreams
  <2>2. CASE Overwrite
    <3> DEFINE byte == Top(firmware).byte
    <3>1. PICK f : Runs(f) /\ f.at = "ticks"
      BY <2>2, OverwriteIs
    <3>2. /\ byte \in Byte /\ firmware'.buffer = firmware.buffer
          /\ firmware'.open = Put(firmware, byte).open
          /\ firmware'.torn = Put(firmware, byte).torn
          /\ ~Overtakes(firmware) /\ firmware.races \subseteq {"tick"}
      BY <2>2, OverwriteIs
    <3>3. f.at \notin ({"second"} \cup Holds) /\ Top(firmware).at \in Holds
      BY <2>2, <3>1 DEF Overwrite, Holds
    <3>4. QED
      BY <1>1, <3>1, <3>2, <3>3, WritingKeepsStreams
  <2>3. QED
    BY <1>7, <2>1, <2>2
<1>8. CASE Store
  <2>1. PICK f : Runs(f) /\ f.at = "clock"
    BY <1>8, StoreIs
  <2>2. SameStream(firmware, firmware') /\ firmware.races \subseteq {"tick"}
    BY <1>8, StoreIs
  <2>3. Top(firmware).at = "store"
    BY <1>8 DEF Store
  <2>4. QED
    BY <1>1, <2>1, <2>2, <2>3, PlainKeepsStreams DEF Holds
<1>9. CASE Interrupt
  BY <1>1, <1>9, InterruptIs, InterruptKeepsStreams
<1>10. CASE Return
  BY <1>1, <1>10, ReturnIs, ReturnKeepsStreams
<1>11. CASE CountTick
  <2>1. /\ firmware'.stack = firmware.stack /\ SameStream(firmware, firmware')
        /\ firmware.races \subseteq {"tick"}
    BY <1>11, CountTickIs
  <2>2. QED
    BY <1>1, <2>1, StillKeepsStreams
<1>12. CASE SendFromTimer1
  <2>1. firmware.races \subseteq {"tick"}
    BY <1>12, SendFromTimer1Is
  <2>2. QED
    BY <1>1, <1>12, <2>1, SendFromTimer1KeepsStreams
<1>13. CASE SendNow \/ Shift
  BY <1>1, <1>13, PortIs, StillKeepsStreams
<1>14. CASE UNCHANGED firmware
  BY <1>1, <1>14
<1>15. QED
  BY <1>2, <1>3, <1>4, <1>5, <1>6, <1>7, <1>8, <1>9, <1>10, <1>11, <1>12, <1>13, <1>14
     DEF Next, Plain

\* Each message leaves whole and in the order it was written, whatever sends and
\* interrupts: unless a Send was interrupted by another between its two writes, a byte
\* that was read and not yet written was overtaken by the next, or the byte that a handler
\* found was gone when it took it or the port full again when it wrote it, each of which
\* may happen.
THEOREM MessagesStayWhole == Spec => []WholeMessages
<1>1. Init => WholeInv
  <2> SUFFICES ASSUME Init PROVE Streams(firmware)
    BY DEF WholeInv
  <2>1. PICK realtime \in BOOLEAN :
          firmware = [stack |-> <<MainLoop>>, buffer |-> <<>>, busy |-> FALSE,
                      realtime |-> realtime, num_clock_ticks |-> 0, due |-> 0, open |-> -1,
                      torn |-> FALSE, races |-> {}]
    BY DEF Init
  <2>2. MainLoop.at = "code" /\ MainLoop.byte = NoByte
    BY DEF MainLoop, Entered
  <2> HIDE DEF MainLoop
  <2>3. /\ Height(firmware) = 1 /\ firmware.stack[1] = MainLoop
        /\ firmware.open = -1 /\ ~firmware.torn /\ firmware.buffer = <<>>
    BY <2>1 DEF Height
  <2>4. At(firmware, "second") = {} /\ Hands(firmware) = {}
    BY <2>2, <2>3 DEF At, Hands
  <2>5. Chain(-1, <<>>, -1) /\ -1 \in Senders
    BY DEF Chain, Before, Senders
  <2>6. Flows(firmware, firmware.buffer, -1)
    BY <2>3, <2>4, <2>5 DEF Flows
  <2>7. QED
    BY <2>3, <2>4, <2>5, <2>6 DEF Streams
<1>2. TypeInv /\ WholeInv /\ [Next]_firmware => WholeInv'
  BY StepsKeepStreams
<1>3. WholeInv => WholeMessages
  BY DEF WholeInv, WholeMessages, Streams
<1>4. QED
  BY <1>1, <1>2, <1>3, TypeInvariant, PTL DEF Spec

-----------------------------------------------------------------------------
(* The MIDI parser, for any bytes on the cable: any data, any status bytes *)
(* but 0xf1, any channels the application listens to.                      *)

\* What ParserTypeOK and InStep need: the number of data bytes awaited is always the
\* one that the running status calls for.
Expects ==
    /\ expected_data_size = IF running_status = 0 THEN 0 ELSE ExpectedSize(running_status)
    /\ data_size < expected_data_size \/ data_size = 0

ParserInv == ParserTypeOK /\ Expects /\ InStep

-----------------------------------------------------------------------------
(* The parser: lemmas.                                                     *)

\* The data bytes handed to a callback, when there are none and when there is one.
LEMMA BytesOf ==
    ASSUME NEW d \in [0 .. 2 -> 0 .. 127]
    PROVE  /\ Bytes(d, 0) = <<>>
           /\ Bytes(d, 1) = <<d[0]>>
<1>1. Bytes(d, 0) = <<>>
  BY DEF Bytes
<1>2. Bytes(d, 1) = <<d[0]>>
  BY DEF Bytes
<1>3. QED
  BY <1>1, <1>2

\* The switch of PushByte agrees with the standard, 0xf1 excepted.
LEMMA SizesAgree ==
    ASSUME NEW status \in (128 .. 243) \ {240, 241}
    PROVE  ExpectedSize(status) = DataBytes(status)
BY DEF ExpectedSize, DataBytes

LEMMA SizesAreSmall ==
    ASSUME NEW status \in 128 .. 247
    PROVE  /\ ExpectedSize(status) \in 0 .. 2
           /\ ExpectedSize(status) = 0 <=> status \in 244 .. 247
           /\ status = 240 => ExpectedSize(status) = 1
BY DEF ExpectedSize

\* What the end of PushByte leaves in the fields of the parser.
LEMMA CollectSets ==
    ASSUME NEW status, NEW d, NEW size, NEW expected, NEW before,
           Collect(status, d, size, expected, before)
    PROVE  /\ running_status' = IF size >= expected /\ status > 240 THEN 0 ELSE status
           /\ data' = d
           /\ data_size' = IF size >= expected THEN 0 ELSE size
           /\ expected_data_size' = IF size >= expected /\ status > 240 THEN 0 ELSE expected
BY DEF Collect

\* One more byte of a message on the cable.
LEMMA ContinuedType ==
    ASSUME sent \in [status : {0} \cup (128 .. 243), data : Seq(0 .. 127)], NEW byte \in Data
    PROVE  Continued(byte) \in [status : {0} \cup (128 .. 243), data : Seq(0 .. 127)]
<1>1. byte \in 0 .. 127
  BY BytesAssumption
<1>2. [sent EXCEPT !.data = Append(@, byte)] \in [status : {0} \cup (128 .. 243), data : Seq(0 .. 127)]
  <2>1. Append(sent.data, byte) \in Seq(0 .. 127)
    BY <1>1
  <2>2. QED
    BY <2>1
<1>3. /\ [sent EXCEPT !.data = <<>>] \in [status : {0} \cup (128 .. 243), data : Seq(0 .. 127)]
      /\ NoMessage \in [status : {0} \cup (128 .. 243), data : Seq(0 .. 127)]
  <2>1. <<>> \in Seq(0 .. 127)
    OBVIOUS
  <2>2. [status |-> 0, data |-> <<>>] \in [status : {0} \cup (128 .. 243), data : Seq(0 .. 127)]
    BY <2>1
  <2>3. QED
    BY <2>1, <2>2 DEF NoMessage
<1>4. QED
  BY <1>2, <1>3 DEF Continued

-----------------------------------------------------------------------------
(* The parser starts in step with a silent cable.                          *)

LEMMA ParserInvInit == ParserInit => ParserInv
<1> SUFFICES ASSUME ParserInit PROVE ParserInv
  OBVIOUS
<1>1. data \in [0 .. 2 -> 0 .. 127] /\ data_size = 0 /\ running_status = 0
  BY DEF ParserInit
<1>2. ParserTypeOK
  BY <1>1 DEF ParserInit, ParserTypeOK, NoMessage
<1>3. Expects
  BY <1>1 DEF ParserInit, Expects
<1>4. InStep
  BY <1>1, BytesOf DEF ParserInit, InStep, NoMessage
<1>5. QED
  BY <1>2, <1>3, <1>4 DEF ParserInv

\* A status byte (midi.h:120) leaves no data byte waiting and awaits those of its message.
LEMMA StatusKeepsParserInv ==
    ASSUME ParserInv, NEW byte \in Status, PushStatus(byte), sent' = Begun(byte), synced' = TRUE
    PROVE  ParserInv'
<1>1. byte \in 128 .. 247 /\ byte # 241
  BY BytesAssumption
<1>2. /\ running_status' = IF byte \in 244 .. 247 THEN 0 ELSE byte
      /\ data' = data
      /\ data_size' = 0
      /\ expected_data_size' = IF byte \in 244 .. 247 THEN 0 ELSE ExpectedSize(byte)
  <2> DEFINE status == IF byte = 247 THEN 0 ELSE byte
             expected == ExpectedSize(byte)
  <2>1. expected \in 0 .. 2 /\ (expected = 0 <=> byte \in 244 .. 247)
    BY <1>1, SizesAreSmall
  <2>2. status \in Nat /\ (status > 240 <=> byte \in 241 .. 246)
    BY <1>1
  <2>3. /\ running_status' = IF 0 >= expected /\ status > 240 THEN 0 ELSE status
        /\ data' = data
        /\ data_size' = IF 0 >= expected THEN 0 ELSE 0
        /\ expected_data_size' = IF 0 >= expected /\ status > 240 THEN 0 ELSE expected
    BY CollectSets DEF PushStatus
  <2> HIDE DEF expected
  <2>4. 0 >= expected <=> byte \in 244 .. 247
    BY <2>1
  <2>5. QED
    BY <1>1, <2>1, <2>2, <2>3, <2>4 DEF expected
<1>3. sent' = IF byte \in 244 .. 247 THEN [status |-> 0, data |-> <<>>]
              ELSE [status |-> byte, data |-> <<>>]
  BY <1>1 DEF Begun, NoMessage
<1>4. ParserTypeOK'
  <2>1. running_status' \in {0} \cup (128 .. 240) \cup {242, 243}
    BY <1>1, <1>2
  <2>2. data' \in [0 .. 2 -> 0 .. 127] /\ data_size' \in 0 .. 1
    BY <1>2 DEF ParserInv, ParserTypeOK
  <2>3. expected_data_size' \in 0 .. 2
    BY <1>1, <1>2, SizesAreSmall
  <2>4. sent' \in [status : {0} \cup (128 .. 243), data : Seq(0 .. 127)]
    BY <1>1, <1>3
  <2>5. QED
    BY <1>2, <2>1, <2>2, <2>3, <2>4 DEF ParserTypeOK
<1>5. Expects'
  BY <1>1, <1>2 DEF Expects
<1>6. InStep'
  <2>1. Bytes(data', data_size') = <<>>
    BY <1>2, BytesOf DEF ParserInv, ParserTypeOK
  <2>2. sent'.status = running_status' /\ sent'.data = <<>>
    BY <1>2, <1>3
  <2>3. QED
    BY <2>1, <2>2 DEF InStep
<1>7. QED
  BY <1>4, <1>5, <1>6 DEF ParserInv

\* A data byte (midi.h:158) is stored inside data_, and completes the message exactly when
\* it is the last one the standard gives it.
LEMMA DataKeepsParserInv ==
    ASSUME ParserInv, NEW byte \in Data, PushData(byte), sent' = Continued(byte), synced' = synced
    PROVE  ParserInv'
<1> DEFINE size == data_size + 1
           complete == size >= expected_data_size
<1>1. byte \in 0 .. 127
  BY BytesAssumption
<1>2. /\ data \in [0 .. 2 -> 0 .. 127]
      /\ data_size \in 0 .. 1
      /\ expected_data_size \in 0 .. 2
      /\ running_status \in {0} \cup (128 .. 240) \cup {242, 243}
      /\ sent \in [status : {0} \cup (128 .. 243), data : Seq(0 .. 127)]
  BY DEF ParserInv, ParserTypeOK
<1>3. /\ running_status' = IF complete /\ running_status > 240 THEN 0 ELSE running_status
      /\ data' = [data EXCEPT ![data_size] = byte]
      /\ data_size' = IF complete THEN 0 ELSE size
      /\ expected_data_size' = IF complete /\ running_status > 240 THEN 0 ELSE expected_data_size
  BY CollectSets DEF PushData
<1>4. ~complete => data_size = 0
  BY <1>2
<1>5. data' \in [0 .. 2 -> 0 .. 127]
  BY <1>1, <1>2, <1>3
<1>6. ParserTypeOK'
  <2>1. running_status' \in {0} \cup (128 .. 240) \cup {242, 243}
    BY <1>2, <1>3
  <2>2. data_size' \in 0 .. 1 /\ expected_data_size' \in 0 .. 2
    BY <1>2, <1>3, <1>4
  <2>3. data_size' < expected_data_size' \/ data_size' = 0
    BY <1>2, <1>3, <1>4
  <2>4. sent' \in [status : {0} \cup (128 .. 243), data : Seq(0 .. 127)]
    BY <1>2, ContinuedType
  <2>5. QED
    BY <1>5, <2>1, <2>2, <2>3, <2>4 DEF ParserTypeOK, ParserInv
<1>7. Expects'
  BY <1>2, <1>3, <1>4 DEF ParserInv, Expects
<1>8. InStep'
  <2> SUFFICES ASSUME synced PROVE running_status' = sent'.status /\ Bytes(data', data_size') = sent'.data
    BY DEF InStep
  <2>1. running_status = sent.status /\ Bytes(data, data_size) = sent.data
    BY DEF ParserInv, InStep
  <2>2. CASE running_status \in {0, 240}
    <3>1. complete /\ data_size = 0
      <4>1. ExpectedSize(240) = 1
        BY DEF ExpectedSize
      <4>2. expected_data_size \in {0, 1}
        BY <2>2, <4>1 DEF ParserInv, Expects
      <4>3. QED
        BY <1>2, <4>2 DEF ParserInv, Expects
    <3>2. sent' = sent
      BY <2>1, <2>2 DEF Continued
    <3>3. running_status' = running_status /\ data_size' = 0
      BY <1>3, <2>2, <3>1
    <3>4. Bytes(data', 0) = <<>> /\ Bytes(data, 0) = <<>>
      BY <1>2, <1>5, BytesOf
    <3>5. QED
      BY <2>1, <3>1, <3>2, <3>3, <3>4
  <2>3. CASE running_status \notin {0, 240}
    <3>1. running_status \in (128 .. 243) \ {240, 241}
      BY <1>2, <2>3
    <3>2. expected_data_size = DataBytes(sent.status)
      BY <2>1, <3>1, SizesAgree DEF ParserInv, Expects
    <3>3. Len(sent.data) = data_size
      <4>1. CASE data_size = 0
        BY <1>2, <2>1, <4>1, BytesOf
      <4>2. CASE data_size = 1
        <5>1. sent.data = <<data[0]>>
          BY <1>2, <2>1, <4>2, BytesOf
        <5>2. Len(<<data[0]>>) = 1
          OBVIOUS
        <5>3. QED
          BY <4>2, <5>1, <5>2
      <4>3. QED
        BY <1>2, <4>1, <4>2
    <3>4. complete <=> Completes
      <4>1. Completes <=> data_size + 1 = expected_data_size
        BY <2>1, <2>3, <3>2, <3>3 DEF Completes
      <4>2. expected_data_size \in 1 .. 2 /\ data_size < expected_data_size
        <5>1. sent.status \in 128 .. 243
          BY <2>1, <3>1
        <5>2. sent.status \notin 244 .. 246
          BY <5>1
        <5>3. DataBytes(sent.status) \in 1 .. 2
          BY <5>2 DEF DataBytes
        <5>4. QED
          BY <1>2, <3>2, <5>3 DEF ParserInv, Expects
      <4>3. QED
        BY <1>2, <4>1, <4>2
    <3>5. CASE complete
      <4>1. data_size' = 0 /\ Bytes(data', 0) = <<>>
        BY <1>3, <1>5, <3>5, BytesOf
      <4>2. running_status' = IF running_status > 240 THEN 0 ELSE running_status
        BY <1>3, <3>5
      <4>3. sent' = IF sent.status > 240 THEN NoMessage ELSE [sent EXCEPT !.data = <<>>]
        BY <2>1, <2>3, <3>4, <3>5 DEF Continued
      <4>4. /\ NoMessage.status = 0 /\ NoMessage.data = <<>>
            /\ [sent EXCEPT !.data = <<>>].status = sent.status
            /\ [sent EXCEPT !.data = <<>>].data = <<>>
        BY <1>2 DEF NoMessage
      <4>5. QED
        BY <2>1, <4>1, <4>2, <4>3, <4>4
    <3>6. CASE ~complete
      <4>1. data_size = 0 /\ data_size' = 1 /\ data'[0] = byte /\ sent.data = <<>>
        BY <1>1, <1>2, <1>3, <1>4, <2>1, <3>6, BytesOf
      <4>2. sent'.status = sent.status /\ sent'.data = Append(sent.data, byte)
        BY <1>2, <2>1, <2>3, <3>4, <3>6 DEF Continued
      <4>3. Bytes(data', 1) = <<byte>>
        BY <1>5, <4>1, BytesOf
      <4>4. QED
        BY <1>3, <2>1, <3>6, <4>1, <4>2, <4>3
    <3>7. QED
      BY <3>5, <3>6
  <2>4. QED
    BY <2>2, <2>3
<1>9. QED
  BY <1>6, <1>7, <1>8 DEF ParserInv

\* Bytes that are lost leave the parser as it is.
LEMMA LoseKeepsParserInv == ParserInv /\ Lose => ParserInv'
<1> SUFFICES ASSUME ParserInv, Lose PROVE ParserInv'
  OBVIOUS
<1>1. UNCHANGED parser /\ synced' = FALSE
  BY DEF Lose
<1>2. sent' \in [status : {0} \cup (128 .. 243), data : Seq(0 .. 127)]
  <2>1. CASE \E byte \in Status : sent' = Begun(byte)
    <3>1. PICK byte \in Status : sent' = Begun(byte)
      BY <2>1
    <3>2. byte \in 128 .. 247
      BY BytesAssumption
    <3>3. QED
      BY <3>1, <3>2 DEF Begun, NoMessage
  <2>2. CASE \E byte \in Data : sent' = Continued(byte)
    BY <2>2, ContinuedType DEF ParserInv, ParserTypeOK
  <2>3. QED
    BY <2>1, <2>2 DEF Lose
<1>3. QED
  BY <1>1, <1>2 DEF ParserInv, ParserTypeOK, Expects, InStep, parser

-----------------------------------------------------------------------------

LEMMA ParserInvNext == ParserInv /\ [ParserNext]_vars => ParserInv'
<1> SUFFICES ASSUME ParserInv, [ParserNext]_vars PROVE ParserInv'
  OBVIOUS
<1>1. CASE ReceiveRealtime
  <2>1. UNCHANGED <<parser, sent, synced>>
    BY <1>1 DEF ReceiveRealtime, PushRealtime
  <2>2. QED
    BY <2>1 DEF ParserInv, ParserTypeOK, Expects, InStep, parser
<1>2. CASE ReceiveStatus
  BY <1>2, StatusKeepsParserInv DEF ReceiveStatus
<1>3. CASE ReceiveData
  BY <1>3, DataKeepsParserInv DEF ReceiveData
<1>4. CASE Lose
  BY <1>4, LoseKeepsParserInv
<1>5. CASE UNCHANGED vars
  BY <1>5 DEF ParserInv, ParserTypeOK, Expects, InStep, parser, vars
<1>6. QED
  BY <1>1, <1>2, <1>3, <1>4, <1>5 DEF ParserNext

\* The fields of the parser keep their ranges and data_ (midi.h:98) is never overrun,
\* whatever bytes the cable carries or loses.
THEOREM NeverOverrun == ParserSpec => []ParserTypeOK
<1>1. ParserSpec => []ParserInv
  BY ParserInvInit, ParserInvNext, PTL DEF ParserSpec
<1>2. ParserInv => ParserTypeOK
  BY DEF ParserInv
<1>3. QED
  BY <1>1, <1>2, PTL

\* After a status byte the parser (midi.h:113) is in step with the cable until a byte is
\* lost again, with running status, abandoned messages and realtime bytes in between.
THEOREM KeepsInStep == ParserSpec => []InStep
<1>1. ParserSpec => []ParserInv
  BY ParserInvInit, ParserInvNext, PTL DEF ParserSpec
<1>2. ParserInv => InStep
  BY DEF ParserInv
<1>3. QED
  BY <1>1, <1>2, PTL

=============================================================================
