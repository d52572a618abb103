----------------------------- MODULE ChannelApps -----------------------------
(***************************************************************************)
(* The applications that keep nothing but their settings: the splitter,    *)
(* the channel merger, the channel filter and the transposer               *)
(* (midipal/apps/splitter.cc, combiner.cc, filter.cc, transposer.cc).  A   *)
(* note on goes where the settings of that moment send it, and its note    *)
(* off where those of a later moment do.                                   *)
(*                                                                         *)
(* One handler runs after the other.  The messages that are no notes go    *)
(* the way of a note; the splitter doubles them.                           *)
(***************************************************************************)
EXTENDS Integers

CONSTANTS
    Channel,            \* 0 .. 15
    Note,               \* the keys
    Splits,             \* values of split_point_
    Counts,             \* values of num_channels_, from 1 to 16
    Transpositions      \* values of transposition_

VARIABLE app

Kinds == {"SPLITTER", "COMBINER", "FILTER", "TRANSPOSER"}

\* in, low and high are the channels of the settings, all a channel_ of the
\* transposer that stands for all of them, split the split point, count the
\* number of channels merged, by the transposition, enabled the channels the
\* filter passes.
Settings ==
    [in : Channel, all : BOOLEAN, low : Channel, high : Channel, split : Splits,
     count : Counts, by : Transpositions, enabled : SUBSET Channel]

\* held holds the keys that are down, sounding the notes the instruments play;
\* changed says that a setting was changed under a key.
Members ==
    [kind : Kinds, settings : Settings, held : SUBSET (Channel \X Note),
     sounding : SUBSET (Channel \X (0 .. 127)), changed : BOOLEAN]

\* OnInit
Init ==
    \E kind \in Kinds, settings \in Settings :
      app = [kind |-> kind, settings |-> settings, held |-> {}, sounding |-> {},
             changed |-> FALSE]

-----------------------------------------------------------------------------
(* Where the settings s send a note of a channel.                          *)

\* The channels from input_channel_ on, num_channels_ of them, around the end.
\* A faulty variant: not around the end.
Merges_NoWrap(s, channel) == channel >= s.in /\ channel < s.in + s.count

Merges(s, channel) ==
    \/ channel >= s.in /\ channel < s.in + s.count
    \/ channel + 16 >= s.in /\ channel + 16 < s.in + s.count

Split(s, channel, note) ==
    IF channel # s.in THEN channel ELSE IF note < s.split THEN s.low ELSE s.high

Merged(s, channel) == IF Merges(s, channel) THEN s.low ELSE channel

Passes(s, channel) == channel \in s.enabled

\* Transpose: a note that would leave the range stays where it is.
Transposed(note, by) ==
    IF by < 0 THEN IF note >= -by THEN note + by ELSE note
    ELSE IF note < 127 - by THEN note + by ELSE note

Shifted(s, channel, note) ==
    IF s.all \/ channel = s.in THEN Transposed(note, s.by) ELSE note

Sent(kind, s, channel, note) ==
    CASE kind = "SPLITTER"   -> {<<Split(s, channel, note), note>>}
      [] kind = "COMBINER"   -> {<<Merged(s, channel), note>>}
      [] kind = "FILTER"     -> IF Passes(s, channel) THEN {<<channel, note>>} ELSE {}
      [] kind = "TRANSPOSER" -> {<<channel, Shifted(s, channel, note)>>}

-----------------------------------------------------------------------------

\* OnRawMidiData of a note on, or OnNoteOn; and of a note off.
KeyDown(channel, note) ==
    /\ <<channel, note>> \notin app.held
    /\ app' = [app EXCEPT !.held = @ \cup {<<channel, note>>},
                          !.sounding = @ \cup Sent(app.kind, app.settings, channel, note)]

\* A faulty variant: a note off is passed on as it is.
KeyUp_Passed(channel, note) ==
    /\ <<channel, note>> \in app.held
    /\ app' = [app EXCEPT !.held = @ \ {<<channel, note>>}, !.sounding = @ \ {<<channel, note>>}]

KeyUp(channel, note) ==
    /\ <<channel, note>> \in app.held
    /\ app' = [app EXCEPT !.held = @ \ {<<channel, note>>},
                          !.sounding = @ \ Sent(app.kind, app.settings, channel, note)]

\* The encoder writes one setting: the classes have no SetParameter.
Set(settings) ==
    app' = [app EXCEPT !.settings = settings, !.changed = @ \/ app.held # {}]

SetChannel(channel) ==
    \/ Set([app.settings EXCEPT !.in = channel, !.all = FALSE])
    \/ Set([app.settings EXCEPT !.low = channel])
    \/ Set([app.settings EXCEPT !.high = channel])
    \/ Set([app.settings EXCEPT !.enabled = @ \cup {channel}])
    \/ Set([app.settings EXCEPT !.enabled = @ \ {channel}])

Next ==
    \/ \E channel \in Channel, note \in Note : KeyDown(channel, note) \/ KeyUp(channel, note)
    \/ \E channel \in Channel : SetChannel(channel)
    \/ \E split \in Splits : Set([app.settings EXCEPT !.split = split])
    \/ \E count \in Counts : Set([app.settings EXCEPT !.count = count])
    \/ \E by \in Transpositions : Set([app.settings EXCEPT !.by = by])
    \/ Set([app.settings EXCEPT !.all = TRUE])

-----------------------------------------------------------------------------

TypeOK == app \in Members

\* Every note that sounds has its key down, and the release of the key will end
\* it: unless a setting was changed under a key.
SoundingIsOwed ==
    app.changed \/
    app.sounding \subseteq UNION { Sent(app.kind, app.settings, key[1], key[2]) : key \in app.held }

\* The channels that are merged are num_channels_ in a row, modulo 16.
MergesARow ==
    \A channel \in Channel :
      Merges(app.settings, channel) <=> (channel - app.settings.in) % 16 < app.settings.count
=============================================================================
