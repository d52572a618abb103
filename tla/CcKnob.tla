------------------------------- MODULE CcKnob -------------------------------
(***************************************************************************)
(* The CC knob (midipal/apps/cc_knob.cc): the encoder sends a controller,  *)
(* or a parameter number of the extended range, between two limits.        *)
(*                                                                         *)
(* SetParameter writes one of the members, limits the others, and sends    *)
(* the value if it is another one than before.                             *)
(***************************************************************************)
EXTENDS Integers

CONSTANTS
    Values              \* values of the pages, from 0 to 255

VARIABLE app

\* sent is the value the instrument has of this controller, -1 for none.
Members ==
    [value : 0 .. 255, type : {"CC", "NRPN"}, number : 0 .. 255, min : 0 .. 255,
     max : 0 .. 255, sent : -1 .. 255]

Clip(value, min, max) == IF value < min THEN min ELSE IF value > max THEN max ELSE value

\* OnInit, with the settings that SetParameter leaves.
Init ==
    \E value \in Values, max \in { v \in Values : v <= 127 } :
      /\ value <= max
      /\ app = [value |-> value, type |-> "CC", number |-> 7, min |-> 0, max |-> max,
                sent |-> -1]

-----------------------------------------------------------------------------

\* The rest of SetParameter once a member of s was written.
\* A faulty variant: it compares with the value that was just written.
Limited_LateRead(s) ==
    LET top     == IF s.type = "CC" THEN 127 ELSE 255
        Held(v) == IF v > top THEN top ELSE v
        value   == Clip(s.value, Held(s.min), Held(s.max))
    IN  [s EXCEPT !.min = Held(@), !.max = Held(@), !.number = Held(@), !.value = value,
                  !.sent = IF value # s.value THEN value ELSE @]

Limited(s) ==
    LET top     == IF s.type = "CC" THEN 127 ELSE 255
        Held(v) == IF v > top THEN top ELSE v
        value   == Clip(s.value, Held(s.min), Held(s.max))
    IN  [s EXCEPT !.min = Held(@), !.max = Held(@), !.number = Held(@), !.value = value,
                  !.sent = IF value # app.value THEN value ELSE @]

\* The keys of SetParameter.  Another number or type is another controller.
SetValue(value)   == value <= 127 /\ app' = Limited([app EXCEPT !.value = value])
SetType(type)     == app' = Limited([app EXCEPT !.type = type, !.sent = -1])
SetNumber(number) == app' = Limited([app EXCEPT !.number = number, !.sent = -1])
SetMin(min)       == app' = Limited([app EXCEPT !.min = min])
SetMax(max)       == app' = Limited([app EXCEPT !.max = max])

Next ==
    \/ \E v \in Values : SetValue(v) \/ SetNumber(v) \/ SetMin(v) \/ SetMax(v)
    \/ \E type \in {"CC", "NRPN"} : SetType(type)

-----------------------------------------------------------------------------

TypeOK == app \in Members

\* The value on the page lies between the limits, if they are in order, is the
\* one that was sent last, if any was sent since the controller was chosen, and
\* has seven bits for a controller, whatever its limits were before.
KnobAgrees ==
    /\ app.min <= app.max => app.value \in app.min .. app.max
    /\ app.sent # -1 => app.sent = app.value
    /\ app.type = "CC" => app.value <= 127 /\ app.number <= 127
=============================================================================
