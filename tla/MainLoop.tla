------------------------------ MODULE MainLoop ------------------------------
(***************************************************************************)
(* The main loop (midipal/midipal.cc, ui.cc), what it keeps in the EEPROM  *)
(* (app.cc) and the application that selects the others                    *)
(* (apps/app_selector.cc), with the step sequencer and the settings for    *)
(* these; the power may fail at any time, and the SysEx and control change *)
(* messages of the interrupts arrive at any time.                          *)
(*                                                                         *)
(* The sequencer has Tracks bytes in a step: its settings are whether each *)
(* is shown, the number of steps, then the steps.  Of the settings app the *)
(* remote control is modelled.  A block is written byte by byte: todo has  *)
(* what is left, each byte with the value that the user meant.             *)
(***************************************************************************)
EXTENDS Integers, Sequences

CONSTANTS
    Tracks,             \* kNumBytesPerStep: 4
    kNumSteps,          \* 32
    FactorySteps,       \* the number of steps in sequencer_factory_data: 8
    MaxValue,           \* bound: the largest value in a step
    Garbage             \* what step_index holds before it is counted up

VARIABLE main

Selector  == 0
Sequencer == 1
Settings  == 2

num_apps == 3
App      == 0 .. num_apps - 1

settings_size(app) == IF app = Sequencer THEN Tracks + 1 + Tracks * kNumSteps ELSE 1

\* The selector is at 1008 and the settings at 1012, closer than an application
\* has pages.
settings_offset(app) == CASE app = Sequencer -> 0
                          [] app = Selector  -> settings_size(Sequencer)
                          [] app = Settings  -> settings_size(Sequencer) + 2

Cell    == { c \in App \X (0 .. settings_size(Sequencer) - 1) : c[2] < settings_size(c[1]) }
At(cell) == settings_offset(cell[1]) + cell[2]
Address == 0 .. settings_offset(Selector) + settings_size(Sequencer)
Active  == <<Selector, 0>>
Remotes == <<Settings, 0>>
Value   == 0 .. 255
Blank   == 255

Toggles == 0 .. Tracks - 1

\* The values that the page of a setting allows; a page that is not declared has
\* the minimum and the maximum 0.
PageRange(app, page) ==
    CASE app = Selector \/ page >= settings_size(app)    -> {0}
      [] app = Sequencer /\ page = Tracks                -> 1 .. kNumSteps
      [] app = Sequencer /\ page \in Tracks + 1 .. settings_size(app) - 1 -> 0 .. MaxValue
      [] OTHER                                           -> 0 .. 1

NumPages(app) == IF app = Selector THEN 0 ELSE settings_size(app)

Factory(cell) ==
    CASE cell[1] = Sequencer /\ cell[2] \in Toggles -> 1
      [] cell[1] = Sequencer /\ cell[2] = Tracks    -> FactorySteps
      [] OTHER                                      -> 0

\* declared is the application that declared the pages, kept what the user may find
\* in each cell: what was saved last, or either value when the power failed.
\* spun alternates while a page is looked for, so that each turn is a step.
\* mishap is what the properties except: a control change for a setting that is being
\* saved, or a page of another application saved by the selector.
Members ==
    [pc : {"events", "scroll", "redraw", "reset", "off"},
     eeprom : [Address -> Value], ram : [Cell -> Value],
     launched : App, declared : App, selected : Value, editing : BOOLEAN,
     page : Value, from : Value, turn : {-1, 1}, spun : BOOLEAN, index : 0 .. num_apps,
     todo : Seq(Cell \X Value), kept : [Cell -> SUBSET Value],
     mishap : {"none", "meddled", "strayed"}]

-----------------------------------------------------------------------------
(* The boot.                                                               *)

\* A faulty variant: the first index after the registry passes.
Launchable_OffByOne(active) == IF active > num_apps THEN Selector ELSE active

Launchable(active) == IF active >= num_apps THEN Selector ELSE active

\* The selector is initialized last when it is launched, and then loads what the
\* guard has corrected; its OnInit takes the item as it is.  What the user finds is
\* kept from then on.
Booted(eeprom) ==
    LET active   == eeprom[At(Active)]
        launched == Launchable(active)
    IN  [pc |-> "events", eeprom |-> eeprom,
         kept |-> [c \in Cell |-> {eeprom[At(c)]}],
         ram |-> [c \in Cell |-> IF c[1] \in {Selector, Settings, launched}
                                   THEN eeprom[At(c)] ELSE 0],
         launched |-> launched, declared |-> launched,
         selected |-> IF active = 0 THEN 1 ELSE active,
         editing |-> FALSE, page |-> 0, from |-> 0, turn |-> 1, spun |-> FALSE, index |-> 0,
         todo |-> <<>>, mishap |-> "none"]

\* The EEPROM as it is programmed at the factory.
Init ==
    LET Holding(a) == {c \in Cell : At(c) = a}
        eeprom     == [a \in Address |-> IF Holding(a) = {} THEN Blank
                                         ELSE Factory(CHOOSE c \in Holding(a) : TRUE)]
    IN  main = [Booted(eeprom) EXCEPT !.kept = [c \in Cell |-> {Factory(c)}]]

PowerCycle == main' = Booted(main.eeprom)

-----------------------------------------------------------------------------
(* Saving.                                                                 *)

Saving(s, cells, meant) ==
    [s EXCEPT !.todo = [i \in DOMAIN cells |-> <<cells[i], meant[i]>>],
              !.kept = [c \in Cell |-> @[c] \cup {meant[i] : i \in {j \in DOMAIN cells : cells[j] = c}}]]

\* SaveSetting, of the page that is shown.
\* A faulty variant: the address is not that of the page.
SavePage_First(s) ==
    [Saving(s, <<<<s.launched, s.page>>>>, <<s.ram[<<s.launched, s.page>>]>>)
       EXCEPT !.todo[1][1] = <<s.launched, 0>>]

SavePage(s) == Saving(s, <<<<s.launched, s.page>>>>, <<s.ram[<<s.launched, s.page>>]>>)

\* A byte of eeprom_write_block.
Write ==
    /\ main.todo # <<>>
    /\ LET cell  == Head(main.todo)[1]
           meant == Head(main.todo)[2]
       IN  main' = [main EXCEPT !.eeprom[At(cell)] = main.ram[cell], !.kept[cell] = {meant},
                                !.todo = Tail(@)]

Events == main.pc = "events" /\ main.todo = <<>>

-----------------------------------------------------------------------------
(* The encoder in an application.                                          *)

TurnValue(turn) ==
    /\ Events /\ main.launched # Selector /\ main.editing
    /\ LET range == PageRange(main.declared, main.page)
           v     == main.ram[<<main.launched, main.page>>] + turn
           low   == CHOOSE n \in range : \A k \in range : n <= k
           high  == CHOOSE n \in range : \A k \in range : n >= k
       IN  main' = [main EXCEPT !.ram[<<main.launched, main.page>>] =
                                  IF v < low THEN low ELSE IF v > high THEN high ELSE v]

TurnPage(turn) ==
    /\ Events /\ main.launched # Selector /\ ~main.editing
    /\ main' = [main EXCEPT !.pc = "scroll", !.from = main.page, !.turn = turn]

Hidden(s, page) ==
    s.launched = Sequencer /\ page > Tracks /\ s.ram[<<Sequencer, (page - Tracks - 1) % Tracks>>] = 0

Beyond(s, page, garbage) ==
    /\ s.launched = Sequencer /\ page > Tracks
    /\ ((page - Tracks - 1) \div Tracks + garbage) % 256 >= s.ram[<<Sequencer, Tracks>>]

\* CheckPageStatus.
\* A faulty variant: the tracks are looked at first.
PageStatus_Hidden(s, page, garbage) ==
    IF Hidden(s, page) THEN "BAD" ELSE IF Beyond(s, page, garbage) THEN "LAST" ELSE "GOOD"

PageStatus(s, page, garbage) ==
    IF Beyond(s, page, garbage) THEN "LAST" ELSE IF Hidden(s, page) THEN "BAD" ELSE "GOOD"

Clamped(page, pages) == IF page >= pages THEN (pages - 1) % 256 ELSE page

\* One turn of the loop that looks for a page.
Scroll ==
    /\ main.pc = "scroll"
    /\ LET moved == (main.page + main.turn) % 256
           page  == IF moved = 255 THEN 0 ELSE Clamped(moved, NumPages(main.declared))
       IN  \E garbage \in Garbage :
             LET status == PageStatus(main, page, garbage)
             IN  main' = [main EXCEPT !.page = IF status = "LAST" THEN main.from ELSE page,
                                      !.pc = IF status = "BAD" THEN "scroll" ELSE "events",
                                      !.from = IF status = "BAD" THEN @ ELSE 0,
                                      !.spun = status = "BAD" /\ ~@]

ClickToggle ==
    /\ Events /\ main.launched = Sequencer /\ main.page \in Toggles
    /\ main' = SavePage([main EXCEPT !.ram[<<Sequencer, main.page>>] = IF @ = 0 THEN 1 ELSE 0])

ClickEdits ==
    /\ Events /\ main.launched # Selector
    /\ ~(main.launched = Sequencer /\ main.page \in Toggles)
    /\ LET s == [main EXCEPT !.editing = ~@]
       IN  main' = IF main.editing THEN SavePage(s) ELSE s

\* A long press: Launch only; the pages, and whether one is edited, stay.
Hold == Events /\ main' = [main EXCEPT !.launched = Selector]

\* SetPage, with a button: the selector has one setting only, and what is saved for
\* the page comes from the memory after it.
Switch(n) ==
    /\ Events
    /\ LET stray == main.launched = Selector /\ main.page > 0
           page  == Clamped(n, NumPages(main.declared))
           saved == IF main.editing /\ ~stray THEN SavePage(main) ELSE main
       IN  \E garbage \in Garbage, byte \in {0, 1} :
             main' = [saved EXCEPT
                        !.eeprom = IF main.editing /\ stray
                                     THEN [@ EXCEPT ![At(Active) + main.page] = byte] ELSE @,
                        !.mishap = IF main.editing /\ stray THEN "strayed" ELSE @,
                        !.editing = FALSE,
                        !.page = IF PageStatus(main, page, garbage) = "LAST" THEN @ ELSE page]

-----------------------------------------------------------------------------
(* The selector: the applications, then note nuke, backup, factory reset   *)
(* and the version.                                                        *)

TurnItem(turn) ==
    /\ Events /\ main.launched = Selector
    /\ LET item == (main.selected + turn) % 256
       IN  main' = [main EXCEPT !.selected = IF item < 1 THEN 1
                                             ELSE IF item > num_apps + 3 THEN num_apps + 3
                                             ELSE item]

\* active_app_ is saved, and the reset follows.
Leave(s, active) == [Saving([s EXCEPT !.ram[Active] = active], <<Active>>, <<active>>)
                       EXCEPT !.pc = "off"]

ClickBackup ==
    /\ Events /\ main.launched = Selector /\ main.selected = num_apps + 1
    /\ main' = Leave(main, main.ram[Active])

ClickApp ==
    /\ Events /\ main.launched = Selector /\ main.selected \notin num_apps .. num_apps + 2
    /\ main' = Leave(main, main.selected)

ClickReset ==
    /\ Events /\ main.launched = Selector /\ main.selected = num_apps + 2
    /\ main' = [main EXCEPT !.pc = "reset", !.index = 1,
                            !.kept = [c \in Cell |-> IF c = Active THEN @[c]
                                                     ELSE @[c] \cup {Factory(c)}]]

\* A faulty variant: the last application is left out.
Remaining_AllButLast(index) == index < num_apps - 1

Remaining(index) == index < num_apps

\* ResetToFactorySettings of the next application.
ResetApp ==
    /\ main.pc = "reset" /\ main.todo = <<>> /\ Remaining(main.index)
    /\ LET app   == main.index
           cells == [i \in 1 .. settings_size(app) |-> <<app, i - 1>>]
       IN  main' = Saving([main EXCEPT !.launched = app, !.index = @ + 1,
                                       !.ram = [c \in Cell |-> IF c[1] = app THEN Factory(c) ELSE @[c]]],
                          cells, [i \in DOMAIN cells |-> Factory(cells[i])])

ResetEnds ==
    /\ main.pc = "reset" /\ main.todo = <<>> /\ ~Remaining(main.index)
    /\ main' = Leave([main EXCEPT !.launched = Selector,
                                  !.kept = [c \in Cell |-> IF c = Active THEN @[c]
                                                           ELSE {Factory(c)}]], 0)

\* OnRedraw launches the application for its name.
Redraw ==
    /\ Events /\ main.launched = Selector
    /\ main' = [main EXCEPT !.pc = "redraw",
                            !.launched = IF main.selected < num_apps THEN main.selected ELSE @]

Redrawn ==
    /\ main.pc = "redraw"
    /\ main' = [main EXCEPT !.pc = "events", !.launched = Selector]

-----------------------------------------------------------------------------
(* The interrupts.                                                         *)

\* A control change for a setting of what is launched, scaled to a page.
RemoteControl(i) ==
    /\ main.ram[Remotes] # 0
    /\ i < settings_size(main.launched)
    /\ LET cell   == <<main.launched, i>>
           saving == main.pc = "reset" \/ \E k \in DOMAIN main.todo : main.todo[k][1] = cell
       IN  \E value \in PageRange(main.declared, i) :
             main' = [main EXCEPT !.ram[cell] = value,
                                  !.mishap = IF main.launched = Selector \/ saving
                                               THEN "meddled" ELSE @]

\* The SysEx message that launches an application: the byte is saved, then a reset.
RemoteLaunch(app) ==
    main' = Booted([main.eeprom EXCEPT ![At(Active)] = app])

Next ==
    \/ PowerCycle
    \/ Write
    \/ \E turn \in {-1, 1} : TurnValue(turn) \/ TurnPage(turn) \/ TurnItem(turn)
    \/ Scroll
    \/ ClickToggle
    \/ ClickEdits
    \/ Hold
    \/ \E n \in 0 .. 4 : Switch(n)
    \/ ClickBackup
    \/ ClickApp
    \/ ClickReset
    \/ ResetApp
    \/ ResetEnds
    \/ Redraw
    \/ Redrawn
    \/ \E i \in 0 .. settings_size(Sequencer) - 1 : RemoteControl(i)
    \/ \E app \in {Sequencer, num_apps} : RemoteLaunch(app)

-----------------------------------------------------------------------------

TypeOK == main \in Members

\* What the user saved, selected or reset is what the next boot finds, whenever the
\* power fails and whatever the remote control does: a byte that was being written
\* is the old or the new one, a reset that ended has reset every application.  Unless
\* a control change meets the saving of its own setting, or a page that was edited
\* before a long press is saved by the selector.
SettingsRestored ==
    main.mishap = "none" => \A c \in Cell : main.eeprom[At(c)] \in main.kept[c]

\* With every step in use, a hidden last page is looked for for ever.
Stuck ==
    /\ main.page = NumPages(Sequencer) - 1 /\ Hidden(main, main.page)
    /\ main.ram[<<Sequencer, Tracks>>] >= kNumSteps
=============================================================================
