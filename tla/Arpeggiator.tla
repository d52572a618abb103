---------------------------- MODULE Arpeggiator -----------------------------
(***************************************************************************)
(* The arpeggiator (midipal/apps/arpeggiator.cc): keys held on one channel *)
(* are played one after the other, or together, at clock ticks; the note   *)
(* off of each note played is left to the event scheduler.                 *)
(*                                                                         *)
(* The state is one record, so that a handler is a composition of the      *)
(* functions it calls: the static members of the class, note_stack (held), *)
(* event_scheduler (line), the messages the handler has sent (out), the    *)
(* notes the instrument plays after them (sounding), and those whose note  *)
(* off a full scheduler refused (lost).                                    *)
(***************************************************************************)
EXTENDS TimedQueueOps, HeldNotesOps, SequencesExt

CONSTANTS
    Note,                   \* the keys of the channel
    kNoteStackSize,         \* 16
    kEventSchedulerSize,    \* 90
    kIdleTicks,             \* 96: silence after which the internal clock stops
    kNoteClockTicks,        \* ticks played for a note of the note clock
    RandomByte,             \* values of Random::GetByte, in 0 .. 255
    Settings,               \* the values of the settings, as records
    Changes                 \* the settings the knobs may turn: [key, value]

kZombie == 254

Modes      == {"INTERNAL", "EXTERNAL", "NOTE"}
Directions == {"UP", "DOWN", "UP_DOWN", "RANDOM", "AS_PLAYED", "CHORD"}

ASSUME SizesAssumption ==
    /\ Note \subseteq 0 .. 127
    /\ kNoteStackSize \in 1 .. 16
    /\ kEventSchedulerSize \in 2 .. 90
    /\ kIdleTicks \in 2 .. 96
    /\ kNoteClockTicks \in 1 .. 192
    /\ RandomByte \subseteq 0 .. 255

\* prescaler and duration are ticks: midi_clock_tick_per_step of the setting.
SettingsType ==
    [clk_mode : Modes, direction : Directions, num_octaves : 1 .. 4,
     pattern : SUBSET (0 .. 15), pattern_length : 1 .. 16,
     prescaler : 1 .. 192, duration : 1 .. 192, latch : BOOLEAN]

ASSUME SettingsAssumption == Settings \subseteq SettingsType

\* The clock mode stays: with another one the source of the clock would change.
ASSUME ChangesAssumption ==
    \A change \in Changes :
      \/ change.key = "direction"      /\ change.value \in Directions
      \/ change.key = "num_octaves"    /\ change.value \in 1 .. 4
      \/ change.key = "pattern"        /\ change.value \in SUBSET (0 .. 15)
      \/ change.key = "pattern_length" /\ change.value \in 1 .. 16
      \/ change.key \in {"prescaler", "duration"} /\ change.value \in 1 .. 192
      \/ change.key = "latch"          /\ change.value \in BOOLEAN

VARIABLES
    set,        \* the settings
    arp,        \* the state of the application
    beat        \* flips at each clock of the source that is selected

vars == <<set, arp, beat>>

On(note)  == [type |-> "on", note |-> note]
Off(note) == [type |-> "off", note |-> note]
System(b) == [type |-> "system", note |-> b]    \* 0xf8, 0xfa and 0xfc, in decimal

\* What the end of an entry of the scheduler sends: nothing, when it was struck.
End(note) == IF note = kZombie THEN [type |-> "none", note |-> note] ELSE Off(note)
Ends(line) == [i \in 1 .. Len(line) |-> End(line[i].note)]

\* The notes an instrument plays after the messages: those it played and was not
\* told to end, and those it was told to play and then not to end.
Heard(notes, messages) ==
    { n \in notes : \A i \in 1 .. Len(messages) : messages[i] # Off(n) }
      \cup { messages[i].note : i \in { i \in 1 .. Len(messages) :
              /\ messages[i].type = "on"
              /\ \A j \in i .. Len(messages) : messages[j] # Off(messages[i].note) } }

-----------------------------------------------------------------------------
(* The functions, on the record a.                                         *)

Sends(a, messages) == [a EXCEPT !.out = @ \o messages, !.sounding = Heard(@, messages)]

\* Start.  A bitmask of 1 << n is the position n, and 16 a bitmask of 0.
Start(a) ==
    [a EXCEPT !.running = TRUE, !.position = 0, !.tick = set.prescaler - 1,
              !.current_direction = IF set.direction = "DOWN" THEN -1 ELSE 1,
              !.current_octave = 127, !.recording = FALSE]

StartArpeggio(a) ==
    IF a.current_direction = 1
      THEN [a EXCEPT !.current_octave = 0, !.current_step = 0]
      ELSE [a EXCEPT !.current_octave = set.num_octaves - 1, !.current_step = Len(a.held) - 1]

\* One step in the direction, and to the next octave past the last key.
NextStep(a) ==
    LET step == a.current_step + a.current_direction
    IN  IF step >= Len(a.held) THEN 0 ELSE IF step < 0 THEN Len(a.held) - 1 ELSE step

Turns(a) == a.current_step + a.current_direction \notin 0 .. Len(a.held) - 1

NextOctave(a) == IF Turns(a) THEN a.current_octave + a.current_direction ELSE a.current_octave

PastEnd(a) == Turns(a) /\ NextOctave(a) \notin 0 .. set.num_octaves - 1

\* StepArpeggio without its own call of itself, which can only be this part of it.
Move(a) ==
    IF PastEnd(a) THEN StartArpeggio(a)
    ELSE [a EXCEPT !.current_octave = NextOctave(a), !.current_step = NextStep(a)]

\* A faulty variant: the mark that Start left in the octave is not noticed.
StepArpeggio_Unmarked(a, random) == Move(a)

StepArpeggio(a, random) ==
    CASE a.current_octave = 127 -> StartArpeggio(a)
      [] a.current_octave # 127 /\ set.direction = "RANDOM" ->
           [a EXCEPT !.current_octave = (random % 16) % set.num_octaves,
                     !.current_step = (random \div 16) % Len(a.held)]
      [] a.current_octave # 127 /\ set.direction = "UP_DOWN" /\ PastEnd(a) ->
           LET b == StartArpeggio([a EXCEPT !.current_direction = -@])
           IN  IF Len(a.held) > 1 \/ set.num_octaves > 1 THEN Move(b) ELSE b
      [] OTHER -> Move(a)

\* SendNote: silence the note if it still sounds, play it, and schedule its end.
\* A faulty variant: the end scheduled for a note that still sounds is left there.
SendNote_KeepsEnd(a, note) ==
    LET full == Len(a.line) = kEventSchedulerSize - 1
        end  == Event(note, 0, set.duration - 1)
    IN  [Sends(a, <<On(note)>>) EXCEPT !.line = IF full THEN @ ELSE Inserted(@, end),
                                       !.lost = IF full THEN @ \cup {note} ELSE @ \ {note}]

SendNote(a, note) ==
    LET sounds == \E i \in 1 .. Len(a.line) : a.line[i].note = note
        line   == Struck(a.line, note, 0, kZombie)
        full   == Len(line) = kEventSchedulerSize - 1
        end    == Event(note, 0, set.duration - 1)
    IN  [Sends(a, IF sounds THEN <<Off(note), On(note)>> ELSE <<On(note)>>)
           EXCEPT !.line = IF full THEN line ELSE Inserted(line, end),
                  !.lost = IF full THEN @ \cup {note} ELSE @ \ {note}]

SendScheduledNotes(a) ==
    [Sends(a, Ends(SubSeq(a.line, 1, Due(a.line)))) EXCEPT !.line = Staying(@)]

\* A faulty variant: one round of SendScheduledNotes, not all of them.
FlushQueue_Once(a) == SendScheduledNotes(a)

\* A faulty variant: the events are dropped and not sent.
FlushQueue_Drops(a) == [a EXCEPT !.line = <<>>]

\* FlushQueue: the loop of EventScheduler, which sends what is left in its order.
FlushQueue(a) == [Sends(a, Ends(a.line)) EXCEPT !.line = <<>>]

\* Tick, in its three parts: the idle counter, the due notes, the arpeggio.
\* A faulty variant: the counter is not held at its limit.
Idle_Unbounded(a) ==
    LET ticks == IF a.held = <<>> THEN (a.idle_ticks + 1) % 256 ELSE 1
        b     == Sends(FlushQueue(a), <<System(252)>>)
    IN  IF ticks >= kIdleTicks /\ set.clk_mode = "INTERNAL"
        THEN [b EXCEPT !.idle_ticks = ticks, !.running = FALSE]
        ELSE [a EXCEPT !.idle_ticks = ticks]

\* A faulty variant: the counter starts again when the arpeggiator stops.
Idle_Resets(a) ==
    LET ticks == IF a.held = <<>> THEN a.idle_ticks + 1 ELSE 1
        b     == Sends(FlushQueue(a), <<System(252)>>)
    IN  IF ticks < kIdleTicks \/ set.clk_mode # "INTERNAL"
        THEN [a EXCEPT !.idle_ticks = IF ticks < kIdleTicks THEN ticks ELSE kIdleTicks]
        ELSE [b EXCEPT !.idle_ticks = 0, !.running = FALSE]

Idle(a) ==
    LET ticks == IF a.held = <<>> THEN a.idle_ticks + 1 ELSE 1
        b     == Sends(FlushQueue(a), <<System(252)>>)
    IN  CASE ticks < kIdleTicks -> [a EXCEPT !.idle_ticks = ticks]
          [] ticks >= kIdleTicks /\ set.clk_mode = "INTERNAL" ->
               [b EXCEPT !.idle_ticks = kIdleTicks, !.running = FALSE]
          [] OTHER -> [a EXCEPT !.idle_ticks = kIdleTicks]

\* Notes above 127 come down by octaves.
Folded(note) == IF note <= 127 THEN note ELSE note - 12 * ((note - 116) \div 12)

ArpeggioNote(a) ==
    LET key == IF set.direction = "AS_PLAYED" THEN Played(a.held, a.current_step)
                                              ELSE Sorted(a.held, a.current_step)
    IN  Folded(key.note + 12 * a.current_octave)

\* The keys of a chord, from the lowest.
Chord(a) ==
    LET played[k \in 0 .. Len(a.held)] ==
          IF k = 0 THEN a ELSE SendNote(played[k - 1], Sorted(a.held, k - 1).note)
    IN  played[Len(a.held)]

Play(a, random) ==
    IF set.direction = "CHORD" THEN Chord(a)
    ELSE LET b == StepArpeggio(a, random) IN SendNote(b, ArpeggioNote(b))

NextPosition(p) == IF p + 1 = set.pattern_length \/ p + 1 >= 16 THEN 0 ELSE p + 1

Tick(a, random) ==
    LET b      == SendScheduledNotes(Idle([a EXCEPT !.tick = @ + 1]))
        played == IF b.held # <<>> /\ b.position \in set.pattern THEN Play(b, random) ELSE b
    IN  IF b.tick < set.prescaler THEN b
        ELSE [played EXCEPT !.tick = 0, !.position = NextPosition(@)]

OnClock(a, clock_mode, random) ==
    IF set.clk_mode # clock_mode \/ ~a.running THEN a
    ELSE Tick(IF clock_mode = "INTERNAL" THEN Sends(a, <<System(248)>>) ELSE a, random)

OnStart(a) == IF set.clk_mode # "INTERNAL" /\ ~a.running THEN Start(a) ELSE a

\* A key wakes the arpeggiator up, unless an external clock drives it.
Awake(a) ==
    CASE set.clk_mode = "EXTERNAL" -> a
      [] set.clk_mode # "EXTERNAL" /\ a.idle_ticks < kIdleTicks -> [a EXCEPT !.idle_ticks = 0]
      [] OTHER -> [Sends(Start(a), <<System(250)>>) EXCEPT !.idle_ticks = 0]

-----------------------------------------------------------------------------

Init ==
    /\ set \in Settings
    /\ arp = [running |-> FALSE, tick |-> 0, idle_ticks |-> kIdleTicks, position |-> 16,
              current_direction |-> 0, current_octave |-> 0, current_step |-> 0,
              ignore_note_off |-> FALSE, recording |-> FALSE,
              held |-> <<>>, line |-> <<>>, out |-> <<>>, sounding |-> {}, lost |-> {}]
    /\ beat = FALSE

Entered == [arp EXCEPT !.out = <<>>]

\* With the latch, the first key that follows a release of the last one starts anew.
KeyDown(note) ==
    LET a == Awake(Entered)
        b == IF set.latch /\ ~a.recording THEN [a EXCEPT !.held = <<>>, !.recording = TRUE] ELSE a
    IN  /\ arp' = [b EXCEPT !.held = Pressed(@, kNoteStackSize, note, 1)]
        /\ UNCHANGED <<set, beat>>

\* The note clock's key: a start and a burst of ticks, in the note clock mode.
Burst(a, random) ==
    LET burst[i \in 0 .. kNoteClockTicks] ==
          IF i = 0 THEN a ELSE OnClock(burst[i - 1], "NOTE", random[i])
    IN  burst[kNoteClockTicks]

ClockKeyDown(random) ==
    /\ set.clk_mode = "NOTE"
    /\ arp' = Burst(OnStart(Entered), random)
    /\ beat' = ~beat
    /\ UNCHANGED set

KeyUp(note) ==
    LET a    == Entered
        last == a.held # <<>> /\ Head(a.held).note = note
    IN  /\ arp' = CASE a.ignore_note_off -> a
                    [] ~a.ignore_note_off /\ ~set.latch -> [a EXCEPT !.held = Without(@, note)]
                    [] OTHER -> [a EXCEPT !.recording = @ /\ ~last]
        /\ UNCHANGED <<set, beat>>

\* OnControlChange for the hold pedal.
Pedal(down) ==
    LET released == arp.ignore_note_off /\ ~down
    IN  /\ arp' = [Entered EXCEPT !.held = IF released THEN <<>> ELSE @,
                                  !.ignore_note_off = down]
        /\ UNCHANGED <<set, beat>>

Clock(clock_mode, random) ==
    /\ arp' = OnClock(Entered, clock_mode, random)
    /\ beat' = IF clock_mode = set.clk_mode THEN ~beat ELSE beat
    /\ UNCHANGED set

StartMessage == arp' = OnStart(Entered) /\ UNCHANGED <<set, beat>>

StopMessage ==
    /\ set.clk_mode # "INTERNAL"
    /\ arp' = FlushQueue([Entered EXCEPT !.running = FALSE])
    /\ UNCHANGED <<set, beat>>

ContinueMessage ==
    /\ set.clk_mode # "INTERNAL"
    /\ arp' = [Entered EXCEPT !.running = TRUE]
    /\ UNCHANGED <<set, beat>>

\* Every message but the notes and the pedal of the channel is forwarded, before
\* its own handler runs; the byte 0 stands for it.
OnRawMidiData == arp' = Sends(Entered, <<System(0)>>) /\ UNCHANGED <<set, beat>>

SetParameter(key, value) ==
    LET a == Entered
        turned == [a EXCEPT !.current_direction = IF value = "DOWN" THEN -1 ELSE 1]
    IN  /\ set' = [set EXCEPT ![key] = value]
        /\ arp' = CASE key = "direction" -> StartArpeggio(turned)
                    [] key = "latch" /\ value = FALSE -> [a EXCEPT !.held = <<>>, !.recording = FALSE]
                    [] OTHER -> a
        /\ UNCHANGED beat

Next ==
    \/ \E note \in Note : KeyDown(note) \/ KeyUp(note)
    \/ \E random \in [1 .. kNoteClockTicks -> RandomByte] : ClockKeyDown(random)
    \/ \E down \in BOOLEAN : Pedal(down)
    \/ \E mode \in {"INTERNAL", "EXTERNAL"}, random \in RandomByte : Clock(mode, random)
    \/ StartMessage
    \/ StopMessage
    \/ ContinueMessage
    \/ OnRawMidiData
    \/ \E change \in Changes : SetParameter(change.key, change.value)

Spec == Init /\ [][Next]_vars

(* The internal clock is a timer and never stops; of an external one, and  *)
(* of the keys of the note clock, the properties under this formula say    *)
(* what happens as long as they come.                                      *)
ClocksComeOn == []<><<beat' # beat>>_vars

FairSpec == Spec /\ ClocksComeOn

-----------------------------------------------------------------------------

TypeOK ==
    /\ set \in SettingsType
    /\ arp.running \in BOOLEAN
    /\ arp.tick \in 0 .. 191
    /\ arp.idle_ticks \in 0 .. kIdleTicks
    /\ arp.position \in 0 .. 16
    /\ arp.current_direction \in {-1, 0, 1}
    /\ arp.current_octave \in {0, 1, 2, 3, 127}
    /\ arp.current_step \in -1 .. kNoteStackSize - 1
    /\ arp.ignore_note_off \in BOOLEAN
    /\ arp.recording \in BOOLEAN
    /\ Len(arp.held) <= kNoteStackSize
    /\ Len(arp.line) <= kEventSchedulerSize - 1
    /\ arp.sounding \subseteq 0 .. 127

\* The notes whose end waits in the scheduler.
Ending == { arp.line[i].note : i \in DOMAIN arp.line } \ {kZombie}

\* SendNote and the scheduler keep one end for each note that sounds, and none
\* for a note that does not: no note is cut short by the end of its previous
\* playing, and none sounds on unless the scheduler refused its end.
EachNoteEndsOnce ==
    /\ Ending = arp.sounding \ arp.lost
    /\ \A i, j \in DOMAIN arp.line :
         arp.line[i].note = arp.line[j].note /\ arp.line[i].note # kZombie => i = j

\* Whatever keys were released, and whatever settings changed, since the last
\* step, a note that is played is a held key, some octaves up.
PlaysHeldKeys ==
    [][ \A i \in DOMAIN arp'.out : arp'.out[i].type = "on" =>
          \E k \in DOMAIN arp'.held, octave \in 0 .. 3 :
             arp'.out[i].note = Folded(arp'.held[k].note + 12 * octave) ]_vars

\* OnStop and the idle counter leave no note behind: while the arpeggiator does
\* not run nothing waits to be sent, for no tick would send it.
NothingWaitsStopped == ~arp.running => arp.line = <<>>

\* With the internal clock a stopped arpeggiator is one a key will start.
KeyCanStart == set.clk_mode = "INTERNAL" /\ ~arp.running => arp.idle_ticks = kIdleTicks

\* A note that sounds gets its note off, when its time comes or when it is
\* played again, as long as clocks come and unless its end was refused.
Octaves  == UNION { 0 .. s.num_octaves - 1 : s \in Settings }
Playable == { Folded(note + 12 * octave) : note \in Note, octave \in Octaves }

NotesEnd ==
    \A note \in Playable :
        note \in arp.sounding \ arp.lost ~> Off(note) \in Range(arp.out)

\* "Send a note on and schedule a note off later."
NoteOffIsScheduled == arp.lost = {}

=============================================================================
