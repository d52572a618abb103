------------------------------ MODULE VoiceOps ------------------------------
(***************************************************************************)
(* The operations of midipal/voice_allocator.{h,cc}.  An allocator a is a  *)
(* record [pool, lru, size]: which note each voice was last given and      *)
(* whether it is still down, the voices from the most to the least         *)
(* recently touched, and how many voices are in use.                       *)
(***************************************************************************)
EXTENDS Integers, FiniteSetsExt

CONSTANTS kMaxPolyphony         \* 20

Voice == 0 .. kMaxPolyphony - 1

kNoVoice == 255

Allocator == [pool : [Voice -> [note : 0 .. 255, active : BOOLEAN]],
              lru  : [Voice -> Voice],
              size : 0 .. kMaxPolyphony]

\* Init: size_ = 0 and Clear.
InitialVoices == [pool |-> [v \in Voice |-> [note |-> 0, active |-> FALSE]],
                  lru  |-> [i \in Voice |-> kMaxPolyphony - i - 1],
                  size |-> 0]

set_size(a, n) == [a EXCEPT !.size = n]

\* Touch: the voice moves to the front, those that were before it move back by one.
\* A faulty variant: it trades places with the voice at the front.
Touch_Swaps(lru, voice) ==
    [i \in Voice |-> IF i = 0 THEN voice ELSE IF lru[i] = voice THEN lru[0] ELSE lru[i]]

\* A faulty variant: the voices behind it are shifted too.
Touch_Rotates(lru, voice) == [i \in Voice |-> IF i = 0 THEN voice ELSE lru[i - 1]]

Touch(lru, voice) ==
    LET place == CHOOSE p \in Voice : lru[p] = voice
    IN  [i \in Voice |-> IF i = 0 THEN voice ELSE IF i <= place THEN lru[i - 1] ELSE lru[i]]

\* The voices in use that were last given the note, down or not.
Given(a, note) == { v \in Voice : v < a.size /\ a.pool[v].note = note }

\* Indices of lru_ at which a voice in use, respectively an inactive one, stands.
InUse(a)    == { i \in Voice : a.lru[i] < a.size }
Inactive(a) == { i \in InUse(a) : ~a.pool[a.lru[i]].active }

\* The voice NoteOn gives to a note.
\* A faulty variant: the test for an inactive voice is dropped.
Allocated_Oldest(a, note) ==
    IF Given(a, note) # {} THEN Min(Given(a, note)) ELSE a.lru[Max(InUse(a))]

\* A faulty variant: no search for the note first.
Allocated_NoRetrigger(a, note) ==
    IF Inactive(a) # {} THEN a.lru[Max(Inactive(a))] ELSE a.lru[Max(InUse(a))]

Allocated(a, note) ==
    IF Given(a, note) # {} THEN Min(Given(a, note))
    ELSE IF Inactive(a) # {} THEN a.lru[Max(Inactive(a))]
    ELSE a.lru[Max(InUse(a))]

VoiceNoteOn(a, note) ==
    LET voice == Allocated(a, note)
    IN  IF a.size = 0 THEN a
        ELSE [a EXCEPT !.pool[voice] = [note |-> note, active |-> TRUE],
                       !.lru = Touch(a.lru, voice)]

\* The value NoteOn returns.
VoiceOfNoteOn(a, note) == IF a.size = 0 THEN kNoVoice ELSE Allocated(a, note)

VoiceNoteOff(a, note) ==
    LET voice == Max(Given(a, note))
    IN  IF Given(a, note) = {} THEN a
        ELSE [a EXCEPT !.pool[voice].active = FALSE,
                       !.lru = Touch(a.lru, voice)]

=============================================================================
