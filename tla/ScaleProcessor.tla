--------------------------- MODULE ScaleProcessor ---------------------------
(***************************************************************************)
(* The scale processor (midipal/apps/scale_processor.cc): a key of the     *)
(* channel is brought into a scale and given up to two more voices.  With  *)
(* a fixed root its notes are computed again for the note off, but those   *)
(* of the second voice; with the root of the lowest key they are kept in   *)
(* the note map, and never freed.                                          *)
(*                                                                         *)
(* One handler runs after the other; channel_ is fixed; fewer keys are     *)
(* down than the note stack holds.                                         *)
(***************************************************************************)
EXTENDS NoteMapOps

CONSTANTS
    Note,               \* the keys of the channel
    Roots,              \* values of root_, of which 24 is the lowest key
    Shifts,             \* values of original_ and of voice_1_
    Scales,             \* LUT_RES_SCALE_0 .. : by the note of an octave
    Harmonies           \* distances of the second voice, within two octaves

VARIABLE app

\* held holds the keys that are down, sounding the notes the instrument plays.
\* forgotten says that a key took the map entry of one that was down, changed
\* that a parameter was changed under a key.
Members ==
    [root : Roots, original : Shifts, voice_1 : Shifts, voice_2 : BOOLEAN, scale : Scales,
     lowest_note : 0 .. 11, map : [MapIndex -> [note : (0 .. 127) \cup {kNoNote}, value : 0 .. 255]],
     held : SUBSET Note, sounding : SUBSET (0 .. 127), forgotten : BOOLEAN, changed : BOOLEAN]

\* OnInit
Init ==
    \E root \in Roots, original \in Shifts, voice_1 \in Shifts, voice_2 \in BOOLEAN,
       scale \in Scales :
      app = [root |-> root, original |-> original, voice_1 |-> voice_1, voice_2 |-> voice_2,
             scale |-> scale, lowest_note |-> 0, map |-> EmptyMap,
             held |-> {}, sounding |-> {}, forgotten |-> FALSE, changed |-> FALSE]

-----------------------------------------------------------------------------
(* The functions of the class, on the record s.                            *)

\* Transpose: a note that would leave the range stays where it is.
Transposed(note, by) ==
    IF by < 0 THEN IF note >= -by THEN note + by ELSE note
    ELSE IF note < 127 - by THEN note + by ELSE note

\* Constraint: the roots from 12 are those below, with another name.
\* A faulty variant: the root is not added again.
Constraint_Unrooted(s, note, root) ==
    LET r     == root % 12
        above == IF note < r THEN note - r + 12 ELSE note - r
    IN  12 * (above \div 12) + s.scale[above % 12]

Constraint(s, note, root) ==
    LET r     == root % 12
        above == IF note < r THEN note - r + 12 ELSE note - r
        n     == 12 * (above \div 12) + s.scale[above % 12] + r
    IN  IF n > 127 THEN n - 12 ELSE n

Original(s, note) == Transposed(note, s.original)

\* The first two voices of a note: of the map entries with the root of the lowest
\* key.
Voices(s, note) ==
    LET own == Original(s, note)
        values == { s.map[i].value : i \in Find(s.map, own) }
    IN  IF s.root = 24
          THEN values \cup { Transposed(v, s.voice_1) : v \in values }
          ELSE { Constraint(s, n, s.root) : n \in {own, Transposed(own, s.voice_1)} }

\* The second harmony, which only the map knows.
SecondVoice(s, note) ==
    IF s.root = 24 \/ ~s.voice_2 THEN {}
    ELSE { s.map[i].value : i \in Find(s.map, Original(s, note)) }

\* note_map.Put, of a transposed key.
Kept(s, note, value) ==
    LET taken == s.map[PutIndex(s.map, note)].note
    IN  [s EXCEPT !.map = Put(@, note, value),
                  !.forgotten = @ \/ taken \in { Original(s, key) : key \in s.held }]

-----------------------------------------------------------------------------

\* OnNoteOn
KeyDown(note, harmony) ==
    LET own    == Original(app, note)
        lowest == Min(app.held \cup {note}) % 12
        voice  == Constraint(app, Max({0, Min({127, own + harmony})}), app.root)
        s      == CASE app.root = 24 -> Kept(app, own, Constraint(app, own, lowest))
                    [] app.root # 24 /\ app.voice_2 -> Kept(app, own, voice)
                    [] OTHER -> app
    IN  /\ note \notin app.held
        /\ app' = [s EXCEPT !.held = @ \cup {note}, !.lowest_note = lowest,
                            !.sounding = @ \cup Voices(s, note) \cup SecondVoice(s, note)]

\* OnNoteOff: the entry of the second voice is freed.
\* A faulty variant: it is freed before it is sent.
KeyUp_Early(note) ==
    LET entry == Find(app.map, Original(app, note))
        free  == app.root # 24 /\ app.voice_2 /\ entry # {}
    IN  /\ note \in app.held
        /\ app' = [app EXCEPT !.held = @ \ {note}, !.sounding = @ \ Voices(app, note),
                              !.map = IF free THEN Drop(@, CHOOSE i \in entry : TRUE) ELSE @]

KeyUp(note) ==
    LET entry == Find(app.map, Original(app, note))
        free  == app.root # 24 /\ app.voice_2 /\ entry # {}
    IN  /\ note \in app.held
        /\ app' = [app EXCEPT !.held = @ \ {note},
                              !.sounding = @ \ (Voices(app, note) \cup SecondVoice(app, note)),
                              !.map = IF free THEN Drop(@, CHOOSE i \in entry : TRUE) ELSE @]

\* The encoder: the class has no SetParameter.
SetScale(root, original, voice_1, voice_2, scale) ==
    app' = [app EXCEPT !.root = root, !.original = original, !.voice_1 = voice_1,
                       !.voice_2 = voice_2, !.scale = scale, !.changed = @ \/ app.held # {}]

Next ==
    \/ \E note \in Note :
         \/ \E harmony \in Harmonies : KeyDown(note, harmony)
         \/ KeyUp(note)
    \/ \E root \in Roots, original \in Shifts, voice_1 \in Shifts, voice_2 \in BOOLEAN,
          scale \in Scales : SetScale(root, original, voice_1, voice_2, scale)

-----------------------------------------------------------------------------

TypeOK == app \in Members

\* Every note that sounds is a voice of a key that is down, and so will end,
\* although the lowest key, and with it the root, was another one since: unless
\* the map has lost a key or a parameter was changed under one.
SoundingIsOwed ==
    app.forgotten \/ app.changed \/
    app.sounding \subseteq UNION { Voices(app, note) \cup SecondVoice(app, note) : note \in app.held }

\* With a fixed root every note that sounds is a note of the scale, at the ends of
\* the range too: with the same exceptions, after which a note of another scale may
\* sound with no key down.
InScale ==
    app.root # 24 /\ ~app.forgotten /\ ~app.changed =>
      \A note \in app.sounding : \E i \in 0 .. 11 : (note - app.root - app.scale[i]) % 12 = 0
=============================================================================
