----------------------------- MODULE Randomizer -----------------------------
(***************************************************************************)
(* The randomizer (midipal/apps/randomizer.cc): each note on of the        *)
(* channel, or of all, becomes another note, which the note map remembers  *)
(* until the note off.                                                     *)
(*                                                                         *)
(* One handler runs after the other.  The random controllers and           *)
(* velocities are left out.  A note is a pair of a channel and a key.      *)
(***************************************************************************)
EXTENDS NoteMapOps

CONSTANTS
    Channel,            \* 0 .. 15
    Note,               \* the keys
    Drawn               \* what U8Mix makes of a key: any note

VARIABLE app

Keys == Channel \X Note

\* channel is channel_, of which 0 stands for all.
\* held holds the keys that are down, sounding the notes the instruments play.
\* overwritten says that a key took the entry of one that was down: it is the
\* same on another channel, or the map was full; reassigned that channel_ or
\* the key of it was changed under a key.
Members ==
    [channel : {0} \cup { c + 1 : c \in Channel }, randomizes : BOOLEAN,
     map : [MapIndex -> [note : Note \cup {kNoNote}, value : 0 .. 255]],
     held : SUBSET Keys, sounding : SUBSET (Channel \X (0 .. 127)),
     overwritten : BOOLEAN, reassigned : BOOLEAN]

\* OnInit
Init ==
    \E channel \in {0} \cup { c + 1 : c \in Channel }, randomizes \in BOOLEAN :
      app = [channel |-> channel, randomizes |-> randomizes, map |-> EmptyMap,
             held |-> {}, sounding |-> {}, overwritten |-> FALSE, reassigned |-> FALSE]

-----------------------------------------------------------------------------

Selected(channel) == app.channel = 0 \/ app.channel = channel + 1

\* The notes whose note off a held key will bring: its entry's, or its own if
\* the channel is passed on as it is.
Owed ==
    { key \in app.held : ~Selected(key[1]) }
      \cup UNION { { <<key[1], app.map[i].value>> : i \in Find(app.map, key[2]) } :
                     key \in { k \in app.held : Selected(k[1]) } }

\* OnNoteOn
KeyDown(channel, note, drawn) ==
    LET new_note == IF app.randomizes THEN drawn ELSE note
        taken    == app.map[PutIndex(app.map, note)].note
    IN  /\ <<channel, note>> \notin app.held
        /\ app' = IF ~Selected(channel)
                    THEN [app EXCEPT !.held     = @ \cup {<<channel, note>>},
                                     !.sounding = @ \cup {<<channel, note>>}]
                    ELSE [app EXCEPT !.map         = Put(@, note, new_note),
                                     !.overwritten = @ \/ taken # kNoNote,
                                     !.held        = @ \cup {<<channel, note>>},
                                     !.sounding    = @ \cup {<<channel, new_note>>}]

\* OnNoteOff: SendMessage, which frees the entry.
KeyUp(channel, note) ==
    LET entry == Find(app.map, note)
        off   == IF Selected(channel) THEN { <<channel, app.map[i].value>> : i \in entry }
                 ELSE {<<channel, note>>}
    IN  /\ <<channel, note>> \in app.held
        /\ app' = [app EXCEPT
                     !.held     = @ \ {<<channel, note>>},
                     !.sounding = @ \ off,
                     !.map      = IF ~Selected(channel) \/ entry = {} THEN @
                                  ELSE Drop(@, CHOOSE i \in entry : TRUE)]

\* The encoder: the class has no SetParameter.
SetChannel(channel) ==
    app' = [app EXCEPT !.channel = channel, !.reassigned = @ \/ app.held # {}]

SetAmount(randomizes) == app' = [app EXCEPT !.randomizes = randomizes]

Next ==
    \/ \E channel \in Channel, note \in Note :
         \/ \E drawn \in Drawn : KeyDown(channel, note, drawn)
         \/ KeyUp(channel, note)
    \/ \E channel \in {0} \cup { c + 1 : c \in Channel } : SetChannel(channel)
    \/ \E randomizes \in BOOLEAN : SetAmount(randomizes)

-----------------------------------------------------------------------------

TypeOK == app \in Members

\* Every note that sounds has a key down whose release will end it, however the
\* keys interleave: unless a key took the entry of another, or the channel was
\* changed under a key.
SoundingIsOwed == app.overwritten \/ app.reassigned \/ app.sounding \subseteq Owed
=============================================================================
