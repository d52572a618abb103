----------------------------- MODULE Dispatcher -----------------------------
(***************************************************************************)
(* The dispatcher (midipal/apps/dispatcher.cc): notes received on one      *)
(* channel are spread over several, by turns, by the voice allocator, at   *)
(* random, to all, or by velocity.  What a note on was mapped to is kept   *)
(* in the note map so that its note off goes the same way.                 *)
(*                                                                         *)
(* The keyboard is modelled too: it does not press a key that is down, and *)
(* holds at most as many keys as the note map has entries.  The knobs are  *)
(* turned between notes; num_voices_ is a parameter of the behaviour.      *)
(***************************************************************************)
EXTENDS VoiceOps, NoteMapOps, Sequences, FiniteSets

CONSTANTS
    Note,           \* the keys; see README.md on note 0
    Velocity,       \* the velocities of note on, 1 .. 127
    NumVoices,      \* values of the setting num_voices_
    BaseChannel,    \* values of base_channel_
    PolyVoices      \* values of polyphony_voices_

Modes == {"CYCLIC", "POLYPHONIC_ALLOCATOR", "RANDOM", "STACK", "VELOCITY"}

ASSUME PolyphonyAssumption == kMaxPolyphony \in 1 .. 254
ASSUME MapAssumption       == kNoteMapSize \in 1 .. 254
ASSUME SettingsAssumption  ==
    /\ Note \subseteq 0 .. 127
    /\ Velocity \subseteq 1 .. 127
    /\ NumVoices \subseteq 1 .. kMaxPolyphony
    /\ BaseChannel \subseteq 0 .. 15
    /\ PolyVoices \subseteq 1 .. 8

VARIABLES
    mode, num_voices, base_channel, polyphony_voices,   \* settings
    counter,        \* counter_
    voices,         \* voice_allocator
    map,            \* note_map
    out,            \* the messages sent by the last handler
    held,           \* the keys that are down
    sounding,       \* the notes, with their channel, the receivers still play
    older           \* history: <<v, w>> if voice v was touched before voice w

settings == <<mode, num_voices, base_channel, polyphony_voices>>
vars     == <<settings, counter, voices, map, out, held, sounding, older>>

-----------------------------------------------------------------------------
\* map_channel
ChannelOf(index) == (base_channel + index \div polyphony_voices) % 16

\* The channels of "for (i = 0; i < num_voices_; i += polyphony_voices_)".
AllChannels ==
    [k \in 1 .. (num_voices + polyphony_voices - 1) \div polyphony_voices |->
       ChannelOf((k - 1) * polyphony_voices)]

\* SendMessage: to the channel the note is mapped to in table m, or to all.
Message(type, channel, note) == [type |-> type, channel |-> channel, note |-> note]

Routed(m, type, note) ==
    IF Find(m, note) = {} THEN <<>>
    ELSE LET value    == m[CHOOSE i \in Find(m, note) : TRUE].value
             channels == IF value = 255 THEN AllChannels ELSE <<ChannelOf(value)>>
         IN  [k \in 1 .. Len(channels) |-> Message(type, channels[k], note)]

\* What the receivers play once they got these messages.
Heard(type) == { <<out'[k].channel, out'[k].note>> : k \in { k \in 1 .. Len(out') : out'[k].type = type } }
Listen == sounding' = (sounding \ Heard("off")) \cup Heard("on")

\* The voice an allocator call touched becomes the youngest.
Aged(voice) == { p \in older : voice \notin {p[1], p[2]} }
                 \cup { <<v, voice>> : v \in Voice \ {voice} }

-----------------------------------------------------------------------------

Init ==
    /\ mode \in Modes
    /\ num_voices \in NumVoices
    /\ base_channel \in BaseChannel
    /\ polyphony_voices \in PolyVoices
    /\ counter = 0
    /\ voices = InitialVoices
    /\ map = EmptyMap
    /\ out = <<>> /\ held = {} /\ sounding = {}
    /\ older = { p \in Voice \X Voice : p[1] < p[2] }

\* The value OnNoteOn puts in the map, by mode.
\* A faulty variant: wraps one step late.
ByCounter_Late == IF counter + 1 > num_voices THEN 0 ELSE counter + 1

ByCounter == IF counter + 1 >= num_voices THEN 0 ELSE counter + 1

NextCounter == IF mode = "CYCLIC" THEN ByCounter ELSE counter

Sized == set_size(voices, num_voices)

Values(note, velocity) ==
    CASE mode = "CYCLIC"               -> {ByCounter}
      [] mode = "POLYPHONIC_ALLOCATOR" -> {VoiceOfNoteOn(Sized, note)}
      [] mode = "RANDOM"               -> 0 .. num_voices - 1
      [] mode = "STACK"                -> {255}
      [] mode = "VELOCITY"             -> {(2 * velocity * num_voices) \div 256}

OnNoteOn(note, velocity) ==
    /\ counter' = NextCounter
    /\ IF mode = "POLYPHONIC_ALLOCATOR"
         THEN /\ voices' = VoiceNoteOn(Sized, note)
              /\ older' = Aged(VoiceOfNoteOn(Sized, note))
         ELSE UNCHANGED <<voices, older>>
    /\ \E value \in Values(note, velocity) : map' = Put(map, note, value)
    /\ out' = Routed(map', "on", note)

Released(note) ==
    IF Find(map, note) = {} THEN map ELSE Drop(map, CHOOSE i \in Find(map, note) : TRUE)

OnNoteOff(note) ==
    /\ voices' = VoiceNoteOff(voices, note)
    /\ older' = IF Given(voices, note) = {} THEN older ELSE Aged(Max(Given(voices, note)))
    /\ out' = Routed(map, "off", note)
    /\ map' = Released(note)
    /\ UNCHANGED counter

-----------------------------------------------------------------------------

Press(note, velocity) ==
    /\ note \notin held /\ Cardinality(held) < kNoteMapSize
    /\ held' = held \cup {note}
    /\ OnNoteOn(note, velocity)
    /\ Listen
    /\ UNCHANGED settings

Release(note) ==
    /\ note \in held
    /\ held' = held \ {note}
    /\ OnNoteOff(note)
    /\ Listen
    /\ UNCHANGED settings

\* OnNoteAftertouch
Aftertouch(note) ==
    /\ out' = Routed(map, "touch", note)
    /\ UNCHANGED <<settings, counter, voices, map, held, sounding, older>>

\* OnRawMidiData: what came on another channel is passed on as it is, and a
\* message on the input channel that is not about a note goes to all channels.
PassOn ==
    /\ out' = <<Message("other", base_channel, kNoNote)>>
    /\ UNCHANGED <<settings, counter, voices, map, held, sounding, older>>

Forward ==
    /\ out' = [k \in 1 .. Len(AllChannels) |-> Message("global", AllChannels[k], kNoNote)]
    /\ UNCHANGED <<settings, counter, voices, map, held, sounding, older>>

\* App::SetParameter, with the hands off the keys.
SetParameter ==
    /\ held = {}
    /\ mode' \in Modes
    /\ base_channel' \in BaseChannel
    /\ polyphony_voices' \in PolyVoices
    /\ out' = <<>>
    /\ UNCHANGED <<num_voices, counter, voices, map, held, sounding, older>>

Next ==
    \/ \E n \in Note, v \in Velocity : Press(n, v)
    \/ \E n \in Note : Release(n)
    \/ \E n \in Note : Aftertouch(n)
    \/ PassOn
    \/ Forward
    \/ SetParameter

Spec == Init /\ [][Next]_vars

-----------------------------------------------------------------------------
(* Settings, counter, voices and map entries stay in their ranges; a       *)
(* mapped value denotes a voice in use, or all of them.                    *)
TypeOK ==
    /\ mode \in Modes
    /\ num_voices \in NumVoices
    /\ base_channel \in BaseChannel
    /\ polyphony_voices \in PolyVoices
    /\ counter \in 0 .. num_voices - 1
    /\ voices \in Allocator
    /\ map \in [MapIndex -> [note : Note \cup {kNoNote},
                             value : (0 .. num_voices - 1) \cup {255}]]
    /\ held \subseteq Note

(* lru_ holds every voice exactly once: a voice that dropped out could     *)
(* never be allocated again, and NoteOn would run off the end of its       *)
(* search with voice 0xff, outside pool_.                                  *)
LruIsPermutation ==
    /\ \A i, j \in Voice : voices.lru[i] = voices.lru[j] => i = j
    /\ \A v \in Voice : \E i \in Voice : voices.lru[i] = v

(* lru_ is in the order in which the voices were last touched by a note on *)
(* or a note off, the latest first.                                        *)
LruIsRecency ==
    \A i, j \in Voice : i < j => <<voices.lru[j], voices.lru[i]>> \in older

(* Every note that sounds belongs to a key that is down, on the channels   *)
(* its note on was sent to, and nothing sounds when all keys are up:       *)
(* whatever the mode does, and however voices are stolen, the note off     *)
(* finds the way of the note on.                                           *)
NoStuckNotes ==
    sounding = UNION { LET r == Routed(map, "on", n)
                       IN  { <<r[k].channel, r[k].note>> : k \in 1 .. Len(r) } : n \in held }

(* A voice in use that counts as active was last given a key that is still *)
(* down, so that once all keys are up no voice keeps being avoided.        *)
ActiveVoicesAreHeld ==
    \A v \in Voice : v < voices.size /\ voices.pool[v].active
                       => voices.pool[v].note \in held

(* "Then, try to find the least recently touched, currently inactive       *)
(* voice" (voice_allocator.cc:61): a note on takes a voice from a key that *)
(* is down only if no voice in use is inactive.                            *)
StealsOnlyWhenAllActive ==
    [][ \A v \in Voice :
          voices.pool[v].active /\ voices'.pool[v].active
            /\ voices.pool[v].note # voices'.pool[v].note
          => \A w \in Voice : w < voices'.size => voices.pool[w].active ]_vars

=============================================================================
