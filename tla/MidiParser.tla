----------------------------- MODULE MidiParser -----------------------------
(***************************************************************************)
(* MidiStreamParser (midi/midi.h) with the callbacks of MidiHandler        *)
(* (midipal/midi_handler.h), driven by a cable on which any bytes may come *)
(* and on which bytes may be lost.                                         *)
(*                                                                         *)
(* The cable's side follows the MIDI standard: sent is the message the     *)
(* stream is in the middle of, for a receiver that missed nothing.  The    *)
(* parser's side is the code.                                              *)
(***************************************************************************)
EXTENDS Naturals, Sequences, SequencesExt

CONSTANTS
    Data,           \* data bytes on the cable
    Status,         \* status bytes on the cable, realtime ones excepted
    Realtime,       \* realtime bytes on the cable
    Accepted        \* the channels app.CheckChannel answers 1 for

\* 0xf1 is left out: the standard gives it one data byte, the parser two.
ASSUME BytesAssumption ==
    /\ Data \subseteq 0 .. 127
    /\ Status \subseteq (128 .. 247) \ {241}
    /\ Realtime \subseteq 248 .. 255
    /\ Accepted \subseteq 0 .. 15

VARIABLES
    running_status, data, data_size, expected_data_size,    \* the parser
    calls,      \* the callbacks made for the last byte, in order
    sent,       \* the message in progress on the cable
    synced      \* history: nothing of that message was lost

parser == <<running_status, data, data_size, expected_data_size>>
vars   == <<parser, calls, sent, synced>>

-----------------------------------------------------------------------------
(* The parser.                                                             *)

\* A faulty variant: pitch bend falls through to the default.
ExpectedSize_Bend(byte) ==
    IF byte \in (128 .. 191) \cup {242} THEN 2 ELSE IF byte \in 244 .. 247 THEN 0 ELSE 1

\* The switch of PushByte: how many data bytes a status byte announces.
ExpectedSize(byte) ==
    IF byte \in (128 .. 191) \cup (224 .. 239) \cup {241, 242} THEN 2
    ELSE IF byte \in 244 .. 247 THEN 0
    ELSE 1

\* One callback of the device, with its arguments.
Call(to, args) == [to |-> to, args |-> args]

\* The two bytes, or as many as there are, that a callback is handed.
Bytes(d, size) == [i \in 1 .. size |-> d[i - 1]]

\* The second switch of MessageReceived, through MidiHandler.
Dispatched(status, d) ==
    LET channel == status % 16
    IN  CASE status \in 128 .. 143 -> <<Call("OnNoteOff", <<channel, d[0], d[1]>>)>>
          [] status \in 144 .. 159 /\ d[1] # 0 -> <<Call("OnNoteOn", <<channel, d[0], d[1]>>)>>
          [] status \in 144 .. 159 /\ d[1] = 0 -> <<Call("OnNoteOff", <<channel, d[0], 0>>)>>
          [] status \in 160 .. 175 -> <<Call("OnNoteAftertouch", <<channel, d[0], d[1]>>)>>
          [] status \in 176 .. 191 -> <<Call("OnControlChange", <<channel, d[0], d[1]>>)>>
          [] status \in 192 .. 207 -> <<Call("OnProgramChange", <<channel, d[0]>>)>>
          [] status \in 208 .. 223 -> <<Call("OnAftertouch", <<channel, d[0]>>)>>
          [] status \in 224 .. 239 -> <<Call("OnPitchBend", <<channel, d[1] * 128 + d[0]>>)>>
          [] status = 240 -> <<Call("OnSysExByte", <<d[0]>>)>>
          [] status = 248 -> <<Call("OnClock", <<>>)>>
          [] status = 250 -> <<Call("OnStart", <<>>)>>
          [] status = 251 -> <<Call("OnContinue", <<>>)>>
          [] status = 252 -> <<Call("OnStop", <<>>)>>
          [] OTHER -> <<>>

\* RawMidiData(status, data, size, accepted)
Raw(status, d, size, accepted) ==
    Call("OnRawMidiData", <<status, accepted>> \o Bytes(d, size))

MessageReceived(status, d, size) ==
    IF status < 240 /\ status % 16 \notin Accepted THEN <<Raw(status, d, size, 0)>>
    ELSE (IF status = 240 THEN <<>> ELSE <<Raw(status, d, size, 1)>>) \o Dispatched(status, d)

\* A faulty variant: a system common message stays the running status.
Collect_KeepsCommon(status, d, size, expected, before) ==
    LET complete == size >= expected
    IN  /\ running_status' = status
        /\ data' = d
        /\ data_size' = IF complete THEN 0 ELSE size
        /\ expected_data_size' = expected
        /\ calls' = before \o IF complete THEN MessageReceived(status, d, size) ELSE <<>>

\* A faulty variant: a message is reported one data byte too late.
Collect_Late(status, d, size, expected, before) ==
    LET complete == size > expected
        common   == complete /\ status > 240
    IN  /\ running_status' = IF common THEN 0 ELSE status
        /\ data' = d
        /\ data_size' = IF complete THEN 0 ELSE size
        /\ expected_data_size' = IF common THEN 0 ELSE expected
        /\ calls' = before \o IF complete THEN MessageReceived(status, d, size) ELSE <<>>

\* The end of PushByte: report the message if all its bytes are there.
Collect(status, d, size, expected, before) ==
    LET complete == size >= expected
        common   == complete /\ status > 240
    IN  /\ running_status' = IF common THEN 0 ELSE status
        /\ data' = d
        /\ data_size' = IF complete THEN 0 ELSE size
        /\ expected_data_size' = IF common THEN 0 ELSE expected
        /\ calls' = before \o IF complete THEN MessageReceived(status, d, size) ELSE <<>>

\* SysExStart and SysExEnd.
Bracket(byte) ==
    IF byte = 240 \/ (byte = 247 /\ running_status = 240)
    THEN <<Call("OnSysExByte", <<byte>>)>> ELSE <<>>

RawByte(byte) == <<Call("OnRawByte", <<byte>>)>>

\* PushByte, by kind of byte.
PushRealtime(byte) ==
    /\ calls' = RawByte(byte) \o MessageReceived(byte, data, data_size)
    /\ UNCHANGED parser

PushStatus(byte) ==
    Collect(IF byte = 247 THEN 0 ELSE byte, data, 0, ExpectedSize(byte),
            RawByte(byte) \o Bracket(byte))

PushData(byte) ==
    Collect(running_status, [data EXCEPT ![data_size] = byte], data_size + 1,
            expected_data_size, RawByte(byte))

-----------------------------------------------------------------------------
(* The cable: an external component, after the MIDI standard.              *)

DataBytes(status) ==
    IF status \in (192 .. 223) \cup {243} THEN 1
    ELSE IF status \in 244 .. 246 THEN 0
    ELSE 2

NoMessage == [status |-> 0, data |-> <<>>]

\* What a status byte begins, and what a data byte makes of a message: all of
\* a system exclusive message is one message, of any length.
Begun(byte) ==
    IF byte = 247 \/ byte \in 244 .. 246 THEN NoMessage ELSE [status |-> byte, data |-> <<>>]

Completes ==
    /\ sent.status # 0
    /\ sent.status # 240
    /\ Len(sent.data) + 1 = DataBytes(sent.status)

Continued(byte) ==
    IF sent.status \in {0, 240} THEN sent
    ELSE IF ~Completes THEN [sent EXCEPT !.data = Append(@, byte)]
    ELSE IF sent.status > 240 THEN NoMessage
    ELSE [sent EXCEPT !.data = <<>>]

-----------------------------------------------------------------------------

ParserInit ==
    /\ running_status = 0
    /\ data = [i \in 0 .. 2 |-> 0]
    /\ data_size = 0
    /\ expected_data_size = 0
    /\ calls = <<>>
    /\ sent = NoMessage
    /\ synced = TRUE

ReceiveRealtime ==
    /\ \E byte \in Realtime : PushRealtime(byte)
    /\ UNCHANGED <<sent, synced>>

ReceiveStatus ==
    \E byte \in Status :
        /\ PushStatus(byte)
        /\ sent' = Begun(byte)
        /\ synced' = TRUE

ReceiveData ==
    \E byte \in Data :
        /\ PushData(byte)
        /\ sent' = Continued(byte)
        /\ UNCHANGED synced

\* A byte the cable carries and the parser does not get.
Lose ==
    /\ \/ \E byte \in Status : sent' = Begun(byte)
       \/ \E byte \in Data : sent' = Continued(byte)
    /\ synced' = FALSE
    /\ calls' = <<>>
    /\ UNCHANGED parser

ParserNext == ReceiveRealtime \/ ReceiveStatus \/ ReceiveData \/ Lose

ParserSpec == ParserInit /\ [][ParserNext]_vars

-----------------------------------------------------------------------------

\* Every field keeps its range and data_, an array of three, is never written
\* past its end: fewer bytes are stored than are expected, or none.
ParserTypeOK ==
    /\ running_status \in {0} \cup (128 .. 240) \cup {242, 243}
    /\ data \in [0 .. 2 -> 0 .. 127]
    /\ data_size \in 0 .. 1
    /\ expected_data_size \in 0 .. 2
    /\ data_size < expected_data_size \/ data_size = 0
    /\ sent \in [status : {0} \cup (128 .. 243), data : Seq(0 .. 127)]
    /\ synced \in BOOLEAN

\* A status byte puts the parser in step with the cable whatever was lost
\* before it, running status, abandoned messages and realtime bytes included:
\* it then holds exactly the bytes of the message in progress.
InStep ==
    synced =>
        /\ running_status = sent.status
        /\ Bytes(data, data_size) = sent.data

\* In step, the parser reports each channel or system common message of the
\* stream once, at its last byte and with its own bytes, and none at any other.
LastByte == Head(calls).args[1]

CompletedMessage ==
    IF LastByte' \in 244 .. 246 THEN <<<<LastByte'>>>>
    ELSE IF LastByte' < 128 /\ Completes THEN <<<<sent.status>> \o Append(sent.data, LastByte')>>
    ELSE <<>>

\* Without the flag that says whether the app listens to the channel.
Reported ==
    LET messages == SelectSeq(calls, LAMBDA c : c.to = "OnRawMidiData" /\ c.args[1] \in 128 .. 247)
    IN  [i \in 1 .. Len(messages) |-> RemoveAt(messages[i].args, 2)]

Delivers == [][synced' => Reported' = CompletedMessage]_vars

\* "Realtime messages are immediately passed-through, and do not modify the
\* state of the parser": what is passed through is the realtime byte alone.
RealtimePassesAlone ==
    \A i \in DOMAIN calls :
        calls[i].to = "OnRawMidiData" /\ calls[i].args[1] >= 248 => Len(calls[i].args) = 2

=============================================================================
