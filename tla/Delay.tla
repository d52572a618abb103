-------------------------------- MODULE Delay --------------------------------
(***************************************************************************)
(* The delay (midipal/apps/delay.cc): every note on and note off of the    *)
(* channel is repeated num_taps_ times from the event scheduler, each time *)
(* transposed once more; an echo schedules the next one as it is sent.     *)
(*                                                                         *)
(* One handler runs after the other.  The notes themselves are passed on   *)
(* by OnRawMidiData and are not counted among those that sound.  The       *)
(* external clock stands for the note clock too; channel_ is fixed.        *)
(***************************************************************************)
EXTENDS TimedQueueOps

CONSTANTS
    Note,               \* the keys of the channel
    Taps,               \* values of num_taps_
    Transpositions,     \* values of transposition_
    EchoDelays,         \* by delay_ and doppler_: the wait of each echo, from 0
    MaxQueue            \* free slots of the event scheduler: 89

VARIABLE app

ClockModes == {"INTERNAL", "EXTERNAL"}

\* line is the event scheduler, held the keys that are down.
\* sounding holds the echoes the instrument plays; changed says that a parameter
\* was changed between a note on and the last echo of its note off, dropped that
\* the queue was full.
Members ==
    [running : BOOLEAN, clk_mode : ClockModes, num_taps : Taps,
     transposition : Transpositions, delay : EchoDelays,
     line : Seq([note : 0 .. 127, velocity : {0, 1}, wait : 0 .. 255, tag : 0 .. 31]),
     held : SUBSET Note, sounding : SUBSET (0 .. 127), changed : BOOLEAN, dropped : BOOLEAN]

\* OnInit.  The internal clock starts here and never stops.
Init ==
    \E clk_mode \in ClockModes, num_taps \in Taps, transposition \in Transpositions,
       delay \in EchoDelays :
      app = [running |-> FALSE, clk_mode |-> clk_mode, num_taps |-> num_taps,
             transposition |-> transposition, delay |-> delay, line |-> <<>>,
             held |-> {}, sounding |-> {}, changed |-> FALSE, dropped |-> FALSE]

-----------------------------------------------------------------------------
(* The functions of the class, on the record s.                            *)

\* Transpose: a note that would leave the range stays where it is.
Transposed(note, by) ==
    IF by < 0 THEN IF note >= -by THEN note + by ELSE note
    ELSE IF note < 127 - by THEN note + by ELSE note

\* The notes that the next taps echoes of this one will have.
Echoes(s, note, taps) ==
    LET Image[i \in 0 .. taps] ==
          IF i = 0 THEN note ELSE Transposed(Image[i - 1], s.transposition)
    IN  { Image[i] : i \in 1 .. taps }

\* The notes whose note off will come: its key is down, or it waits to be
\* echoed.
Owed(s) ==
    LET waiting == { s.line[i] : i \in DOMAIN s.line }
        offs    == { w \in waiting : w.velocity = 0 }
    IN  (UNION { Echoes(s, note, s.num_taps) : note \in s.held })
          \cup (UNION { {e.note} \cup Echoes(s, e.note, e.tag) : e \in offs })

\* A faulty variant: the echoes of a note off are not transposed.
ScheduleEchoes_OffKey(s, note, velocity, num_taps) ==
    LET echo == [note |-> IF velocity = 0 THEN note ELSE Transposed(note, s.transposition),
                 velocity |-> velocity, wait |-> s.delay[s.num_taps - num_taps],
                 tag |-> num_taps - 1]
    IN  IF num_taps = 0 THEN s
        ELSE IF Len(s.line) >= MaxQueue THEN [s EXCEPT !.dropped = TRUE]
        ELSE [s EXCEPT !.line = Inserted(@, echo)]

\* num_taps counts those that are left; the wait is that of the next of them.
ScheduleEchoes(s, note, velocity, num_taps) ==
    LET nth  == IF num_taps > s.num_taps THEN 0 ELSE s.num_taps - num_taps
        echo == [note |-> Transposed(note, s.transposition), velocity |-> velocity,
                 wait |-> s.delay[nth], tag |-> num_taps - 1]
    IN  IF num_taps = 0 THEN s
        ELSE IF Len(s.line) >= MaxQueue THEN [s EXCEPT !.dropped = TRUE]
        ELSE [s EXCEPT !.line = Inserted(@, echo)]

\* The echoes that are due are sent in order, and the next ones scheduled while
\* they still hold their slots; then the line moves.
SendEchoes(s) ==
    LET due == Due(s.line)
        Sent(t, e) ==
          ScheduleEchoes([t EXCEPT !.sounding = IF e.velocity = 0 THEN @ \ {e.note}
                                                ELSE @ \cup {e.note}],
                         e.note, e.velocity, e.tag)
        After[i \in 0 .. due] == IF i = 0 THEN s ELSE Sent(After[i - 1], s.line[i])
    IN  [After[due] EXCEPT !.line = Staying(@)]

-----------------------------------------------------------------------------

\* OnNoteOn, OnNoteOff
KeyDown(note) ==
    /\ note \notin app.held
    /\ app' = [ScheduleEchoes(app, note, 1, app.num_taps) EXCEPT !.held = @ \cup {note}]

KeyUp(note) ==
    /\ note \in app.held
    /\ app' = [ScheduleEchoes(app, note, 0, app.num_taps) EXCEPT !.held = @ \ {note}]

\* OnClock: the internal clock moves the line whether running_ or not.
Clock(clk_mode) ==
    /\ app.clk_mode = clk_mode
    /\ app.running \/ clk_mode = "INTERNAL"
    /\ app' = SendEchoes(app)

\* OnStart and OnContinue; OnStop, which leaves the line as it is.
StartMessage == app.clk_mode # "INTERNAL" /\ app' = [app EXCEPT !.running = TRUE]
StopMessage  == app.clk_mode # "INTERNAL" /\ app' = [app EXCEPT !.running = FALSE]

\* SetParameter of clk_mode_; of num_taps_, transposition_, delay_ and doppler_.
SetClockMode(clk_mode) == app' = [app EXCEPT !.clk_mode = clk_mode]

SetEchoes(num_taps, transposition, delay) ==
    LET idle == app.held = {} /\ app.line = <<>>
    IN  app' = [app EXCEPT !.num_taps = num_taps, !.transposition = transposition,
                           !.delay = delay, !.changed = @ \/ ~idle]

Next ==
    \/ \E note \in Note : KeyDown(note) \/ KeyUp(note)
    \/ \E clk_mode \in ClockModes : Clock(clk_mode)
    \/ StartMessage
    \/ StopMessage
    \/ \E clk_mode \in ClockModes : SetClockMode(clk_mode)
    \/ \E num_taps \in Taps, transposition \in Transpositions, delay \in EchoDelays :
         SetEchoes(num_taps, transposition, delay)

-----------------------------------------------------------------------------

TypeOK == app \in Members

\* However the echoes of several keys cross, an echo that sounds has the note off
\* of its key still to come, unless a parameter was changed under it or the
\* queue was full.
SoundingIsOwed == app.changed \/ app.dropped \/ app.sounding \subseteq Owed(app)
=============================================================================
