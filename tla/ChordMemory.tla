---------------------------- MODULE ChordMemory ----------------------------
(***************************************************************************)
(* The chord memory (midipal/apps/chord_memory.cc): a key plays the chord  *)
(* that was recorded on the page of the channel, transposed from its first *)
(* note.                                                                   *)
(*                                                                         *)
(* One handler runs after the other.  channel_ is fixed: the notes are     *)
(* those of the channel, the others are passed on.                         *)
(***************************************************************************)
EXTENDS Integers, Sequences

CONSTANTS
    Note,               \* the keys
    kMaxChordNotes      \* size of chord_: 10

VARIABLE app

\* held holds the keys that are down, sounding the notes the instruments play,
\* edited the keys that played the chord before it was recorded anew.
Members ==
    [editing : BOOLEAN, num_notes : 0 .. kMaxChordNotes, chord : [1 .. kMaxChordNotes -> Note],
     held : SUBSET Note, sounding : SUBSET (0 .. 127), edited : SUBSET Note]

\* OnInit, with the chord of the settings.
Init ==
    \E num_notes \in 0 .. kMaxChordNotes - 1, note \in Note, root \in Note :
      app = [editing |-> FALSE, num_notes |-> num_notes,
             chord |-> [i \in 1 .. kMaxChordNotes |-> IF i = 1 THEN root ELSE note],
             held |-> {}, sounding |-> {}, edited |-> {}]

-----------------------------------------------------------------------------

\* PlayChord: the notes of a key, brought into range by octaves.
\* A faulty variant: from below alone.
Folded_Up(n) == IF n < 0 THEN n % 12 ELSE n

Folded(n) == IF n < 0 THEN n % 12 ELSE IF n > 127 THEN 116 + ((n - 116) % 12) ELSE n

Chord(note) ==
    IF app.num_notes = 0 THEN {note}
    ELSE { Folded(note + app.chord[i] - app.chord[1]) : i \in 1 .. app.num_notes }

\* OnNoteOn while the page is edited: the note is recorded; the buffer of the
\* later notes turns when it is full.
\* A faulty variant: it never is.
Recorded_NoTurn(note) ==
    [app EXCEPT !.chord = [@ EXCEPT ![app.num_notes + 1] = note], !.num_notes = @ + 1]

Recorded(note) ==
    LET chord == [app.chord EXCEPT ![app.num_notes + 1] = note]
        full  == app.num_notes + 1 = kMaxChordNotes
    IN  [app EXCEPT
           !.chord     = IF ~full THEN chord
                         ELSE [i \in 1 .. kMaxChordNotes |->
                                 IF i \in 2 .. kMaxChordNotes - 1 THEN chord[i + 1] ELSE chord[i]],
           !.num_notes = IF full THEN kMaxChordNotes - 1 ELSE @ + 1]

KeyDown(note) ==
    /\ note \notin app.held
    /\ app' = IF app.editing
                THEN [Recorded(note) EXCEPT !.held = @ \cup {note}, !.sounding = @ \cup {note}]
                ELSE [app EXCEPT !.held = @ \cup {note}, !.sounding = @ \cup Chord(note)]

\* OnNoteOff
\* A faulty variant: the note alone, once the chord is recorded.
KeyUp_Alone(note) ==
    /\ note \in app.held
    /\ app' = [app EXCEPT !.held = @ \ {note}, !.sounding = @ \ {note}]

KeyUp(note) ==
    /\ note \in app.held
    /\ app' = [app EXCEPT !.held = @ \ {note},
                          !.sounding = @ \ IF app.editing THEN {note} ELSE Chord(note)]

\* OnClick, then the user interface enters or leaves the page.
Click ==
    app' = [app EXCEPT !.editing   = ~@,
                       !.num_notes = IF app.editing THEN @ ELSE 0,
                       !.edited    = IF app.editing THEN @ ELSE @ \cup app.held]

Next ==
    \/ \E note \in Note : KeyDown(note) \/ KeyUp(note)
    \/ Click

-----------------------------------------------------------------------------

TypeOK == app \in Members

\* The note of a key ends with it and so does its chord, also if the key was
\* recorded and is released when the chord is played: unless a chord was recorded
\* under a key.
SoundingIsOwed ==
    app.edited = {} =>
      app.sounding \subseteq UNION { {note} \cup Chord(note) : note \in app.held }

\* A recorded note always has a place in the buffer, which keeps the first one.
ChordFits == app.num_notes < kMaxChordNotes
=============================================================================
