-------------------------------- MODULE SysEx --------------------------------
(***************************************************************************)
(* The two receivers of system exclusive blocks: the handler of the        *)
(* firmware (midipal/sysex_handler.cc), which stores a block in the EEPROM *)
(* at the address that it carries, and the boot loader                     *)
(* (bootloader/bootloader.cc), which writes one page of the flash memory   *)
(* after the other.                                                        *)
(*                                                                         *)
(* A sender transfers the blocks of an image, as SendBlock formats them,   *)
(* over a cable that may lose a byte, damage one or cut the message short, *)
(* once in a message: two errors may cancel each other in a checksum.  It  *)
(* waits 150 ms after a block, in which the handler writes its own.  The   *)
(* parser keeps realtime bytes from the handler; the loader skips them.    *)
(***************************************************************************)
EXTENDS Integers, Sequences

CONSTANTS
    Kinds,              \* the receivers: "handler", "loader"
    Header,             \* 0xf0, the manufacturer and the product
    Image,              \* the blocks, all of the same length and different
    Foreign,            \* messages to other devices
    MaxErrors           \* bound: errors of the cable between two power ups

VARIABLE link

Block     == DOMAIN Image
BlockSize == Len(Image[1])
Address   == 0 .. Len(Image) * BlockSize - 1
Blank     == 255

\* buffer_ of the handler has BlockSize + 4 bytes.
LoaderBufferSize == 2 * (BlockSize + 1)
BufferIndex      == 0 .. LoaderBufferSize + 1

States == {"HEADER", "COMMAND", "DATA", "FOOTER", "ERROR"}

\* out is what is left of the message that is on the cable, intact says that it
\* had no error, errors counts them since the last power up; todo is what is still
\* to be written of an accepted block.  reran says that a foreign message repeated a
\* command, overrun that rx_buffer was left.
Members ==
    [kind : Kinds, block : Block, out : Seq(0 .. 255), intact : BOOLEAN, errors : 0 .. MaxErrors,
     state : States, bytes_received : Nat, expected_size : Nat, checksum : 0 .. 255,
     command : [1 .. 2 -> 0 .. 127], buffer : [BufferIndex -> 0 .. 255],
     todo : Seq(Nat \X (0 .. 255)), memory : [Address -> 0 .. 255], page : Nat,
     reran : BOOLEAN, overrun : BOOLEAN]

-----------------------------------------------------------------------------
(* The messages.                                                           *)

SumOf(bytes) ==
    LET Sum[i \in 0 .. Len(bytes)] == IF i = 0 THEN 0 ELSE (Sum[i - 1] + bytes[i]) % 256
    IN  Sum[Len(bytes)]

Nibbles(bytes) ==
    [i \in 1 .. 2 * Len(bytes) |->
       IF i % 2 = 1 THEN bytes[(i + 1) \div 2] \div 16 ELSE bytes[i \div 2] % 16]

Framed(command, bytes) ==
    Header \o command \o Nibbles(Append(bytes, SumOf(bytes))) \o <<247>>

\* SendBlock, and the pages that the loader is sent.
Message(kind, block) ==
    IF kind = "handler"
      THEN Framed(<<1, BlockSize>>, <<(block - 1) * BlockSize, 0>> \o Image[block])
      ELSE Framed(<<126, 0>>, Image[block])

-----------------------------------------------------------------------------
(* The handler, on the record s.                                           *)

Reset(s) == [s EXCEPT !.checksum = 0, !.bytes_received = 0, !.state = "HEADER"]

Matched(s, byte) ==
    IF Header[s.bytes_received + 1] # byte THEN [s EXCEPT !.state = "FOOTER"]
    ELSE IF s.bytes_received + 1 < Len(Header) THEN [s EXCEPT !.bytes_received = @ + 1]
    ELSE [s EXCEPT !.state = "COMMAND", !.bytes_received = 0]

\* ParseCommand: the sizes of a transfer and of a request.
Commanded(s, byte) ==
    LET c == [s EXCEPT !.command[s.bytes_received + 1] = byte]
    IN  IF s.bytes_received = 0 THEN [c EXCEPT !.bytes_received = 1]
        ELSE [c EXCEPT
                !.bytes_received = 0,
                !.state = IF c.command[1] \in {1, 2, 17, 115} THEN "DATA" ELSE "FOOTER",
                !.expected_size = CASE c.command[1] = 1 -> byte + 2
                                    [] c.command[1] \in {2, 115} -> 0
                                    [] c.command[1] = 17 -> 2
                                    [] OTHER -> @]

\* The high half of a byte is kept, the low one completes it.
Collected(s, byte) ==
    LET i    == s.bytes_received \div 2
        low  == s.bytes_received % 2 = 1
        cell == IF low THEN s.buffer[i] + (byte % 16) ELSE (byte * 16) % 256
    IN  [s EXCEPT !.buffer[i] = cell,
                  !.checksum = IF low /\ i < s.expected_size THEN ((@ + cell) % 256) ELSE @,
                  !.bytes_received = @ + 1,
                  !.state = IF s.bytes_received + 1 >= 2 * (s.expected_size + 1)
                            THEN "FOOTER" ELSE @]

\* AcceptCommand of a transfer: eeprom_write_block, then LoadSettings.
Accepted(s) ==
    IF s.command[1] = 1
      THEN [s EXCEPT !.todo = [i \in 1 .. s.command[2] |->
                                 <<s.buffer[0] + i - 1, s.buffer[1 + i]>>]]
      ELSE s

\* A faulty variant: the checksum is not compared.
Footed_Unchecked(s, byte) ==
    IF byte = 247 THEN Accepted([s EXCEPT !.reran = @ \/ s.bytes_received < Len(Header)])
    ELSE [s EXCEPT !.state = "ERROR"]

\* After a header of another device the sum is zero, and the buffer that of the
\* last command.
Footed(s, byte) ==
    IF byte = 247 /\ s.checksum = s.buffer[s.expected_size]
      THEN Accepted([s EXCEPT !.reran = @ \/ s.bytes_received < Len(Header)])
      ELSE [s EXCEPT !.state = "ERROR"]

Receive(s, byte) ==
    LET t == IF byte = 240 THEN Reset(s) ELSE s
    IN  CASE t.state = "HEADER"  -> Matched(t, byte)
          [] t.state = "COMMAND" -> Commanded(t, byte)
          [] t.state = "DATA"    -> Collected(t, byte)
          [] t.state = "FOOTER"  -> Footed(t, byte)
          [] t.state = "ERROR"   -> t

-----------------------------------------------------------------------------
(* The loader, on the record s.  bytes_received is bytes_read, and         *)
(* expected_size the rx_buffer_index.                                      *)

\* A byte of the header that does not match is not the first of another.
LoaderMatched(s, byte) ==
    IF Header[s.bytes_received + 1] # byte THEN [s EXCEPT !.bytes_received = 0]
    ELSE IF s.bytes_received + 1 < Len(Header) THEN [s EXCEPT !.bytes_received = @ + 1]
    ELSE [s EXCEPT !.state = "COMMAND", !.bytes_received = 0]

LoaderCommanded(s, byte) ==
    CASE byte >= 128 -> [s EXCEPT !.state = "HEADER", !.bytes_received = 0]
      [] byte < 128 /\ s.bytes_received = 0 ->
           [s EXCEPT !.command[1] = byte, !.bytes_received = 1]
      [] byte < 128 /\ s.bytes_received = 1 ->
           [s EXCEPT !.command[2] = byte, !.bytes_received = 0, !.expected_size = 0,
                     !.checksum = 0, !.state = "DATA"]

LoaderCollected(s, byte) ==
    LET i    == s.expected_size
        low  == s.bytes_received % 2 = 1
        cell == IF low THEN s.buffer[i] + (byte % 16) ELSE (byte * 16) % 256
    IN  IF i >= LoaderBufferSize THEN [s EXCEPT !.overrun = TRUE]
        ELSE [s EXCEPT !.buffer[i] = cell,
                       !.checksum = IF low /\ i < BlockSize THEN ((@ + cell) % 256) ELSE @,
                       !.expected_size = IF low THEN @ + 1 ELSE @,
                       !.bytes_received = @ + 1]

\* WriteBufferToFlash, and the next page.
\* A faulty variant: the checksum is not compared.
LoaderEnded_Unchecked(s) ==
    LET t == [s EXCEPT !.state = "HEADER", !.bytes_received = 0]
    IN  IF s.expected_size # BlockSize + 1 \/ s.command # <<126, 0>> THEN t
        ELSE [t EXCEPT !.page = @ + BlockSize,
                       !.memory = [a \in Address |->
                                     IF a \in s.page .. s.page + BlockSize - 1
                                       THEN s.buffer[a - s.page] ELSE @[a]]]

LoaderEnded(s) ==
    LET whole == /\ s.expected_size = BlockSize + 1 /\ s.command = <<126, 0>>
                 /\ s.buffer[s.expected_size - 1] = s.checksum
        t     == [s EXCEPT !.state = "HEADER", !.bytes_received = 0]
    IN  IF ~whole THEN t
        ELSE [t EXCEPT !.page = @ + BlockSize,
                       !.memory = [a \in Address |->
                                     IF a \in s.page .. s.page + BlockSize - 1
                                       THEN s.buffer[a - s.page] ELSE @[a]]]

\* A byte above 0xf0 is skipped; in the data, 0xf0 too.
LoaderReceive(s, byte) ==
    CASE byte > 240 /\ byte # 247 -> s
      [] s.state = "HEADER"  -> LoaderMatched(s, byte)
      [] s.state = "COMMAND" -> LoaderCommanded(s, byte)
      [] s.state = "DATA" /\ byte < 128 -> LoaderCollected(s, byte)
      [] s.state = "DATA" /\ byte = 247 -> LoaderEnded(s)
      [] OTHER -> s

Received(byte) ==
    IF link.kind = "handler" THEN Receive(link, byte) ELSE LoaderReceive(link, byte)

-----------------------------------------------------------------------------

\* What a power up leaves to the receiver: the memory is kept.
Powered(kind, memory) ==
    [kind |-> kind, block |-> 1, out |-> Message(kind, 1), intact |-> TRUE,
     errors |-> 0, state |-> "HEADER", bytes_received |-> 0, expected_size |-> 0,
     checksum |-> 0, command |-> <<0, 0>>,
     buffer |-> [i \in BufferIndex |-> 0],
     todo |-> <<>>, memory |-> memory, page |-> 0, reran |-> FALSE, overrun |-> FALSE]

Init == \E kind \in Kinds : link = Powered(kind, [a \in Address |-> Blank])

\* The next byte arrives, arrives damaged, or does not.
Deliver ==
    /\ link.out # <<>> /\ link.todo = <<>>
    /\ link' = [Received(Head(link.out)) EXCEPT !.out = Tail(@)]

CanFail   == link.out # <<>> /\ link.intact /\ link.errors < MaxErrors
Failed(s) == [s EXCEPT !.intact = FALSE, !.errors = @ + 1]

Damage ==
    /\ CanFail /\ link.todo = <<>> /\ Head(link.out) < 128
    /\ LET byte == IF Head(link.out) % 2 = 0 THEN Head(link.out) + 1 ELSE Head(link.out) - 1
       IN  link' = Failed([Received(byte) EXCEPT !.out = Tail(@)])

Lose ==
    /\ CanFail
    /\ link' = Failed([link EXCEPT !.out = Tail(@)])

Cut ==
    /\ CanFail
    /\ link' = Failed([link EXCEPT !.out = <<>>])

\* The sender goes on with the next block, or with all of them again; the loader
\* takes the image once.
Continue ==
    /\ link.out = <<>> /\ link.todo = <<>>
    /\ link.kind = "handler" \/ link.block < Len(Image)
    /\ LET block == (link.block % Len(Image)) + 1
       IN  link' = [link EXCEPT !.block = block, !.out = Message(link.kind, block),
                                !.intact = TRUE]

\* A message to another device, between two blocks.
Elsewhere(message) ==
    /\ link.kind = "handler" /\ link.out = <<>> /\ link.todo = <<>>
    /\ link' = [link EXCEPT !.out = message, !.intact = FALSE]

\* One byte of eeprom_write_block.
Write ==
    /\ link.todo # <<>>
    /\ link' = [link EXCEPT !.memory = [a \in Address |-> IF a = Head(link.todo)[1]
                                                            THEN Head(link.todo)[2] ELSE @[a]],
                            !.todo = Tail(@)]

\* The power fails at any time, and the transfer is begun again.
PowerUp == link' = Powered(link.kind, link.memory)

Next ==
    \/ Deliver
    \/ Damage
    \/ Lose
    \/ Cut
    \/ Continue
    \/ \E message \in Foreign : Elsewhere(message)
    \/ Write
    \/ PowerUp

-----------------------------------------------------------------------------

TypeOK == link \in Members

Sent(address) == Image[(address \div BlockSize) + 1][(address % BlockSize) + 1]

\* Of the flash memory, page by page: the blocks that were written since the power
\* up, in the order of the image.
FlashedInOrder ==
    LET At(p) == [i \in 1 .. BlockSize |-> link.memory[(p - 1) * BlockSize + i - 1]]
        pages == 1 .. link.page \div BlockSize
    IN  /\ \A p \in pages : \E b \in Block : At(p) = Image[b]
        /\ \A p, q \in pages, b, c \in Block :
             p < q /\ At(p) = Image[b] /\ At(q) = Image[c] => b < c
        /\ link.errors = 0 => \A p \in pages : At(p) = Image[p]

\* What the cable loses or damages is never stored, whatever was received before
\* and whenever the power fails.  The EEPROM has at each address what it had or what
\* the sender has there: unless a foreign message of one byte repeats the last
\* command.  The flash memory has whole blocks in their order, without a gap when
\* no message was damaged: unless two merged messages leave the buffer.
BlocksArriveWhole ==
    CASE link.kind = "handler" ->
           ~link.reran => \A a \in Address : link.memory[a] \in {Blank, Sent(a)}
      [] link.kind = "loader"  -> ~link.overrun => FlashedInOrder
=============================================================================
