-------------------------- MODULE MCPolySequencer ---------------------------
(* Model values for TLC: two keys, two tracks and three steps, and a        *)
(* sequence recorded in two passes: a rest and 62, then 60 and a            *)
(* tie overdubbed, so that 60 is held in the step where its track plays 62. *)
EXTENDS PolySequencer

MCNote       == {60, 62}
MCPrescalers == {2}

Cells(a, b, c) == [i \in 0 .. 2 |-> CASE i = 0 -> a [] i = 1 -> b [] i = 2 -> c]

Tied == [data |-> [i \in 0 .. 1 |->
                     IF i = 0 THEN Cells(60, 62, kRest) ELSE Cells(kRest, TieOf(60), kRest)],
         num_steps |-> 2]

MCSaved == {Tied}

Unraced == ~raced

\* What the future depends on: members that are set before they are next read
\* do not tell states apart.
Live ==
    LET writes == seq.recording \/ seq.overdubbing
        plays  == seq.running \/ main.at = "starting"
    IN  <<[seq EXCEPT
             !.transposed   = [i \in Track |-> IF i \in Pending(seq) THEN @[i] ELSE 0],
             !.edit_step    = IF writes THEN @ ELSE 0,
             !.previous_rec = IF writes THEN @ ELSE 0,
             !.tick = IF plays THEN @ ELSE 0,
             !.step = IF plays THEN @ ELSE 0,
             !.root = IF plays THEN @ ELSE 0,
             !.last = IF plays THEN @ ELSE 0],
          main, raced, burst, records>>
=============================================================================
