---------------------------- MODULE ClockDivider ----------------------------
(***************************************************************************)
(* The clock divider (midipal/apps/clock_divider.cc): it reads the raw     *)
(* bytes of the input, lets one clock of divider_ through and holds START  *)
(* back for start_delay_ clocks.                                           *)
(*                                                                         *)
(* The record app holds the static members of the class, and a history of  *)
(* what was sent: told, whether the instruments downstream were started;   *)
(* since, the clocks they could have had from that START, modulo divider_; *)
(* continued and shifted, the two cases the code does not bear.            *)
(***************************************************************************)
EXTENDS Integers

CONSTANTS
    Dividers,           \* values of the page of divider_
    Delays              \* values of the page of start_delay_

VARIABLE app

Members ==
    [divider : Dividers, start_delay : Delays, counter : 0 .. 255, start_delay_counter : 0 .. 255,
     running : BOOLEAN, told : BOOLEAN, since : 0 .. 255, continued : BOOLEAN, shifted : BOOLEAN]

\* OnInit
Init ==
    \E divider \in Dividers, start_delay \in Delays :
      app = [divider |-> divider, start_delay |-> start_delay, counter |-> 0,
             start_delay_counter |-> 0, running |-> FALSE,
             told |-> FALSE, since |-> 0, continued |-> FALSE, shifted |-> FALSE]

-----------------------------------------------------------------------------
(* OnRawByte, by the byte.                                                 *)

\* A faulty variant: the clock that sends the delayed START is not divided.
Clock_AfterStart ==
    LET begins == app.start_delay_counter = 1
        passes == app.running /\ app.counter + 1 >= app.divider
    IN  app' = [app EXCEPT
                  !.start_delay_counter = IF @ > 0 THEN @ - 1 ELSE 0,
                  !.running = @ \/ begins,
                  !.told      = @ \/ begins,
                  !.continued = @ /\ ~begins,
                  !.counter = IF passes THEN 0 ELSE IF app.running THEN @ + 1 ELSE @,
                  !.since   = IF begins THEN 1 % app.divider
                              ELSE IF app.running THEN (@ + 1) % app.divider ELSE @]

\* 0xf8: the delayed START may be due, then the clock is divided.
Clock ==
    LET begins == app.start_delay_counter = 1
        runs   == app.running \/ begins
        passes == runs /\ app.counter + 1 >= app.divider
    IN  app' = [app EXCEPT
                  !.start_delay_counter = IF @ > 0 THEN @ - 1 ELSE 0,
                  !.running = runs,
                  !.told      = @ \/ begins,
                  !.continued = @ /\ ~begins,
                  !.counter   = IF passes THEN 0 ELSE IF runs THEN @ + 1 ELSE @,
                  !.since     = IF begins THEN 1 % app.divider
                                ELSE IF runs THEN (@ + 1) % app.divider ELSE @]

\* 0xfa: sent now, or after start_delay_ clocks; while those pass, a divider
\* that runs goes on from the counter set here.
Start ==
    LET now == app.start_delay = 0
    IN  app' = [app EXCEPT
                  !.counter = app.divider - 1,
                  !.start_delay_counter = app.start_delay,
                  !.running   = @ \/ now,
                  !.told      = @ \/ now,
                  !.since     = IF now THEN 0 ELSE @,
                  !.continued = @ /\ app.told /\ ~now,
                  !.shifted   = app.running /\ ~now]

\* 0xfc, passed on.  A delayed START stays due.
Stop == app' = [app EXCEPT !.running = FALSE, !.told = FALSE, !.continued = FALSE]

\* 0xfb is passed on as any other byte.
Continue == app' = [app EXCEPT !.told = TRUE, !.continued = @ \/ ~app.running]

\* The encoder: the class has no SetParameter, the member is written at once.
SetDivider(divider) ==
    app' = [app EXCEPT !.divider = divider, !.since = @ % divider,
                       !.shifted = @ \/ divider # app.divider]

SetStartDelay(start_delay) == app' = [app EXCEPT !.start_delay = start_delay]

Next ==
    \/ Clock
    \/ Start
    \/ Stop
    \/ Continue
    \/ \E divider \in Dividers : SetDivider(divider)
    \/ \E start_delay \in Delays : SetStartDelay(start_delay)

-----------------------------------------------------------------------------

TypeOK == app \in Members

\* The instruments are told to run when the divider runs and at no other time,
\* whatever START waits, but after a CONTINUE that it passes and does not heed.
TransportAgrees == ~app.continued => (app.told <=> app.running)

\* After a START that was passed, delayed or not, the first clock is passed and
\* then one of divider_: unless the START waited while the divider ran or
\* divider_ was changed since, the counter is in phase with what was sent.
DividesEvenly ==
    app.running /\ ~app.shifted => app.counter = (app.since - 1) % app.divider
=============================================================================
