# MIDIpal firmware: models, checks and proofs

MIDIpal is a small MIDI processor: bytes come in on a MIDI cable, one of some
twenty-five "apps" transforms them, bytes go out. This directory holds TLA+ models of
its firmware, TLC configurations that check them on small instances, and proofs
that TLAPS checks for every value of the constants. Paths below are relative to
`src/`.

## 1. Inventory

| Component | State | Operations | Works with |
|---|---|---|---|
| MIDI parser `midi/midi.h` | running status, `data_[3]`, two counters | `PushByte`, `MessageReceived` | calls the MIDI handler |
| MIDI handler `midipal/midi_handler.h`, output in `app.cc`/`app.h` | 128-byte output ring | callbacks; `Send`, `Send3`, `SendNow`, `FlushOutputBuffer` | the active app, the SysEx handler, the serial port |
| Event scheduler `midipal/event_scheduler.*` | 90 linked entries, `root_ptr_`, `size_` | `Schedule`, `Remove`, `Tick`; through `App`: `SendLater`, `SendScheduledNotes`, `FlushQueue` | arpeggiator, delay, sequencer, tanpura |
| Note stack `midipal/note_stack.*` | 16 linked nodes, sorted array, `size_` | `NoteOn`, `NoteOff`, `Clear` | arpeggiator, drum pattern generator, LFO, scale processor |
| Voice allocator `midipal/voice_allocator.*` | `pool_`, `lru_`, `size_` | `set_size`, `NoteOn`, `NoteOff`, `Touch` | dispatcher |
| Note map `midipal/note_map.h` | 32 pairs note/value | `Put`, `Find` | dispatcher, randomizer, scale processor |
| The other apps, `midipal/apps/*` | static members of a class | the callbacks of `AppInfo` | all of the above, shared and never reset between apps |
| Polyphonic sequencer `midipal/apps/poly_sequencer.*` | 6 tracks of 128 cells, position, transposition, `pending_notes_` and what they were sent as | `Record`, `Start`, `Stop`, `Tick` behind the handlers | MIDI and clock interrupts, encoder, note clock |
| App registry and settings `midipal/app.*` | active app, EEPROM | `Launch`, `LoadSettings`, `SaveSetting`, `ResetToFactorySettings`, `RemoteControl`, `NoteClock` | UI, apps, EEPROM |
| Interrupts `midipal/midipal.cc` | `num_clock_ticks`, timers | TIMER1 (clock), TIMER2 (MIDI in and out, encoder), main loop | everything |
| Clock `midipal/clock.*` | tempo, groove intervals | `Update`, `Tick`, `Start` | TIMER1 |
| UI and display `midipal/ui.*`, `display.*` | declared pages, page, edit mode, event queue | `DoEvents`, `SetPage`, `Poll` | registry, the app that was launched |
| App selector and settings apps `midipal/apps/app_selector.*`, `settings.*` | `active_app_`, item of the menu; remote control channel | launch, backup, factory reset | registry, EEPROM, reset |
| SysEx handler `midipal/sysex_handler.*` | frame parser state, block buffer | `Receive`, `SendBlock`, `AcceptCommand` | EEPROM |
| Bootloader `bootloader/bootloader.cc` | page buffer, flash | block reception, page write | flash |

How they interact. TIMER2 feeds each received byte to the parser, which calls
the handler, which calls the active app through a table of function pointers,
all within the interrupt. The app writes to the output ring (emptied by the same
interrupt) or leaves notes with the scheduler. TIMER1 counts clock ticks that
TIMER2 hands to the app's `OnClock`. The main loop runs the UI, which changes the
settings and launches apps. There is no operating system and no lock.

What is hard. Data structures with silent limits (90 entries, 16 nodes, 32 map
entries) in which note offs are lost or go the wrong way if two structures
disagree; note offs that must find the way their note on went, long after;
transports that stop with notes queued; a byte stream that may lose bytes or be
joined at any point; realtime bytes inside messages; nested interrupts and a
main loop that share bytes without protection; EEPROM written byte by byte.

What makes each part right:

- scheduler: the list, the occupied entries and `size_` agree; an event leaves
  exactly at its tick, in order, unless removed; `FlushQueue` ends;
- note stack: list, sorted array and pool agree; it is the bounded list of held
  keys, the most recent first;
- allocator, map, dispatcher: a voice is stolen only when all play, and the
  receivers play exactly what the held keys were sent to;
- parser: after a status byte it is in step again; each message is reported
  once, at its last byte;
- arpeggiator: it plays held keys only, each note ends once and in time,
  stopping leaves nothing queued, a stopped one can be started;
- polyphonic sequencer: every note it plays stays on record under the number it was
  sent with until its note off is sent, whatever is recorded, transposed or stopped;
- the other apps: every note that sounds has its note off still to come; the
  instruments are told to run exactly when the app runs; what counts clocks counts
  each once; recordings, chords, tempos and limits stay in their place;
- clock: a groove moves steps and keeps the tempo;
- interrupts and output: each tick is answered once, a message leaves whole;
- SysEx handler and bootloader: nothing is stored that was not sent;
- registry, selector, UI: the next boot finds what was saved, selected or reset,
  whenever the power fails; the main loop does not hang.

## 2. Plan

Done, in this order: scheduler, note stack, allocator + map + dispatcher, parser,
arpeggiator, polyphonic sequencer; then the other apps, each in a module of its own,
then the firmware around them (`Clock`, `Firmware`, `SysEx`, `MainLoop`). `MCSystem` composes those
that have no run of their own. Proofs: scheduler, allocator + map + dispatcher, parser,
polyphonic sequencer, note stack, interrupts, the two refinements, the arpeggiator, and the
parts of `System`.

Abstract specifications: `TimedQueue` and `HeldNotes`. The step sequencer, the tanpura,
the delay and the arpeggiator use the first in place of the linked list. (The delay
schedules while it walks the list: what it adds waits at least a tick,
`delay.cc:226`, so it lies behind the due prefix that `Tick` frees.)

Left, most important first:

1. A change of the channel, and `OnInit` on a relaunch, in the apps where they are fixed.
2. `Ui::Poll` with its queue of 32 events.
3. A proof of `BlocksArriveWhole` for headers and images whose sums tell them apart.

## 3. Modules

    SchedulerOps <- EventScheduler --refines--> TimedQueue -> TimedQueueOps
    NoteStackOps <- NoteStack      --refines--> HeldNotes  -> HeldNotesOps
    VoiceOps, NoteMapOps <- Dispatcher
    TimedQueueOps, HeldNotesOps <- Arpeggiator
    TimedQueueOps <- StepSequencer, Tanpura, Delay
    NoteMapOps    <- Randomizer, ScaleProcessor
    MidiParser
    PolySequencer
    Firmware
    System   = one of ClockDivider, SyncLatch, ClockSource, BpmMeter, ShSequencer,
               StepSequencer, DrumPatternGenerator, Lfo, Tanpura, Delay, Randomizer,
               ScaleProcessor, ChordMemory, CcKnob, ChannelApps, Clock, SysEx, MainLoop
    MCArpeggiator, MCPolySequencer, MCSystem extend the module they are named after
    xProofs extends x; FirmwareProofs also MidiParser
    System <- SoundingProofs <- SystemProofs

A module whose constants a configuration can write down is run directly.

**`SchedulerOps`, `EventScheduler`.** A queue is a record of `entries`, `root` and
`size`; `Schedule`, `Remove` and `Tick` are functions of a queue, with `InsertPosition`
and `DueCount` for the two loops. An entry whose note is 0xff is free, 0xfe is a
zombie (removed, still linked). `EventScheduler` gives each call of `App` an action;
`FlushQueue` is a loop, and each turn of it is a step.

**`TimedQueue`, `TimedQueueOps`.** The scheduler without slots: a line of events,
each with the ticks it still has to wait. `EventScheduler` is checked to implement
it, and `Arpeggiator` is written with its operators, so that what is checked of the
arpeggiator rests on that refinement.

**`NoteStackOps`, `NoteStack`, `HeldNotes`, `HeldNotesOps`.** The same arrangement for
the note stack. The code's searches and shifts become `Push` and `Unlink`; a free node is
chosen as the code does (the last one, `note_stack.cc:58`).

**`VoiceOps`, `NoteMapOps`, `Dispatcher`.** `OnNoteOn` computes a value by mode, puts it in
the map and sends to the channel of that value; `OnNoteOff` finds the value again. The
model adds a keyboard (`held`), the receivers (`sounding`) and a history of which
voice was touched before which (`older`).

**`MidiParser`.** The parser's four fields, the callbacks made for the last byte, and a cable
after the MIDI standard (external): `sent` is the message the stream is in the middle of,
`synced` whether nothing of it was lost. One action per kind of byte; `Collect`
is the common end of `PushByte`. The parser is given `0xf1` by no one: it
expects two data bytes after it where the standard has one, and would be out of
step by the first property (hazard at `midi/midi.h:139`).

**`Arpeggiator`.** The class's statics, the queue, the keys and the output of the last handler
in one record, so that a handler is a composition of the functions it calls. `bitmask_`
is the position of its bit (16 for none); prescaler and duration are the ticks that
`midi_clock_tick_per_step` gives. Velocities are not kept. `sounding` is what an instrument
plays after the messages it was sent (`Heard`, external). `lost` is a history: the notes whose
end a full scheduler refused.

**`PolySequencer`.** The class's statics in one record. A MIDI message, a clock or a remote
control change is one step, since the interrupt serves one after the other (that
TIMER2 may interrupt itself, `midipal.cc:43`, is the subject of `Firmware`); the burst of ticks of
the note clock is a step for each tick, with nothing in between. The encoder's `SetParameter(0, _)` runs in the main
loop and is interrupted: `Start` in two steps, before and after its `memset`, and
`Stop` in one for each track. `raced` records that an interrupt came where these do not bear
it: a tick or another start meanwhile. `sounding`, `thru` and `cut` are histories of
the messages sent: what sounds, what was forwarded and not released, and what was
tied in a step where its own track plays another note, of which the code keeps
nothing. Velocities and messages forwarded unread are left out, and so is the
rest of `OnIncrement`'s menu: `Click` may find it at any entry.

**The apps of `MCSystem`.** The firmware launches one app at boot and runs it until the next
reset, so an instance has one of them: `which` names it, `state` (the `app` of its module) is the
record of its static members. A handler is one step, written as a function of that record where it calls others.
Where the main loop and an interrupt share members without protection, its statements are
steps, and `main` says which is next: `Start`, `Stop` and the write after them in `SetParameter`, in each of the
applications that the page "run" starts; the click of the latch (`SyncLatch`); the redraw and the reset of the meter
(`BpmMeter`). So are the places where a handler lets the next interrupt in to bad effect: a tick of
TIMER1 in a key or a stop of the drums, the EEPROM writes of a key that the `ShSequencer` records. Histories say what was sent:
`sounding` (the notes the instruments play), `thru` (forwarded for a key that is down), `hung` (left on), `told` (START or STOP
last). What is passed through unread is left out.

- `ClockDivider`, `SyncLatch`: transport state machines over raw bytes.
- `ClockSource`: the three classes; a measured tempo is any value that `Clip` lets through.
  The live class is not in the registry of any build, but is kept in the repository.
- `BpmMeter`: time is a count of timer ticks since the last reset; a read of 32 bits is one step.
- `ShSequencer`, `StepSequencer`: both sequencers of the repository (the makefile's default builds
  with the first); recording, ties and slides, transposition, note offs in the scheduler. A forwarded key that is
  released while either runs sends no note off (`sh_sequencer.cc:319`, `sequencer.cc:261`): its note moves from `thru` to
  `hung`. `recorders` are the steps that the `ShSequencer` is recording, for one may begin in the EEPROM writes of another.
- `DrumPatternGenerator`: a key leaves any set of parts unmuted, an unmuted part may strike
  or not at each step; what the patterns are is data. `KeyDownStopped` is a tick between `running_ = 1` and
  `idle_ticks_ = 0`, which stops it for good.
- `Lfo`: phases, resets and the draw of the random waveform; values of waveforms are left out.
- `Tanpura`, `Delay`: note offs and echoes in the event scheduler. A clock in the middle of `Tanpura::Stop` leaves a
  note off in a queue that no tick empties.
- `Randomizer`, `ScaleProcessor`, `ChordMemory`: what a note off ends is what its note on began.
- `CcKnob`: every setting, with what `SetParameter` limits and sends.
- `ChannelApps`: splitter, merger, filter and transposer, which keep only settings.

**`Clock`.** The arithmetic of `Update` and `UpdateFractional`, with the truncation to 16 bits,
the groove tables, and `Tick`. `span` adds up the time since the pattern began.

**`Firmware`.** `stack` has the main loop and the TIMER2 handlers that interrupted it and each
other; a step is one access of the topmost to what they share: the test of the buffer and of the
port, the taking of a byte and the write of it to the port (`FlushOutputBuffer` waits in between,
`Overwrite(ImmediateRead())` of `midipal.cc:57` does not), the read and the write of `num_clock_ticks`.
TIMER1 runs with interrupts off and is one step. A message has two bytes, named by
who sent them, so that a torn one shows. `races` collects the orders the code does not bear: a message begun between the
two writes of another (`nested`), a byte in hand passed by the next (`overtaken`), a byte that is gone when it is taken
(`stale`) or finds the port full again (`lost`), a count of ticks changed between its test and its write (`tick`). `due` is
what TIMER1 counted less what was answered, an integer: after a race it may go below zero, as
`OnClock` is then called once too often. `num_clock_ticks` is a byte, and `MaxTicks` may be anything up to 255.

**`SysEx`.** A cable that carries the messages of `SendBlock`, and may lose a byte, change one
or lose the rest; the receiver is the firmware's handler (with its EEPROM write byte by byte) or
the bootloader; the power may fail at each byte. Errors are one a message, for two may
cancel each other in a sum of bytes, and `MaxErrors` between two power ups.

**`MainLoop`.** The EEPROM, the settings in RAM, and what the user does: turn, click, long press,
buttons of the MIDIbud (`SetPage`, compiled in by the makefile's default), with the step sequencer, whose pages are
the ones that can be hidden, and the selector. A write of several bytes is a step for each.
`kept` has the values the user may find in a cell: what was last saved, or either of the two
when the power failed on the way. `step_index` of `CheckPageStatus`, which the code does not
initialise, starts from any value of `Garbage`.

## 4. Runs

| Run | Instance | What it shows |
|---|---|---|
| `scheduler` | 3 usable entries, 1 note on/off, delays 0..2 | `TypeOK`; `ListHoldsOccupied` (nothing leaks out of the list, `size_` counts it); `SortedByWhen`; `ImplementsTimedQueue`; `FlushTerminates` |
| `note_stack` | 3 nodes, 4 keys, 2 velocities | `ViewsAgree`, `Ascending`, `ImplementsHeldNotes` |
| `dispatcher` | 3 voices of which 1 or 2 are used, 3 keys, 3 map entries, 5 modes, base channel 15 | `LruIsPermutation`, `LruIsRecency`, `NoStuckNotes`, `ActiveVoicesAreHeld`, `StealsOnlyWhenAllActive` |
| `midi_parser` | 2 data bytes, a status byte of each length and kind, 5 realtime bytes | `InStep`, `Delivers` |
| `midi_parser_realtime` | same | a violation, see below |
| `arpeggiator` | keys 60 and 72, 2 nodes, 3 usable entries, 3 idle ticks; notes of 3 ticks at 1 tick a step in 6 directions, 3 clock modes, 2 octaves; or slow latched steps with a rest | `EachNoteEndsOnce`, `PlaysHeldKeys`, `NothingWaitsStopped`, `KeyCanStart`, `NotesEnd` |
| `arpeggiator_full` | same | a violation, see below |
| `poly_sequencer` | keys 60 and 62, 2 tracks, 3 steps, a tick every second clock, 2 ticks of the note clock, 1 step recorded over 60 62 with a tie of 60 under 62 | `NotesRemembered` |
| `poly_sequencer_stop` | same, 2 steps recorded, with the constraint `Unraced` | a violation, see below |
| `poly_sequencer_full` | same, 3 steps recorded | a violation, see below |
| `interrupts` | a buffer of 3 bytes, 3 frames, 2 ticks waiting, up to the first race | `TicksKept`, `WholeMessages` |
| `system` | eighteen small instances, given with their reasons in `MCSystem` | of the applications `SoundingIsOwed`, `TransportAgrees`, `CountsItsClocks`, `StaysInBounds`, `KeyCanStart`, `LatchActs`; of the rest `GrooveKeepsTempo`, `BlocksArriveWhole`, `SettingsRestored`, `ScrollEnds` |

Every one of the passing runs also checks the module's `TypeOK`.

Bounds. The pools are as small as lets every case occur: a list of three entries has a
first, a middle and a last one and can be full; four keys for three nodes drop one; three
keys for two voices steal. Keys an octave apart make the octaves of the arpeggio meet
(72 is 60 an octave up). Base channel 15 makes channels wrap. Numeric limits of the code
(bytes, 128 notes) are kept by the modules' assumptions and are the subject of
the proofs rather than of the runs. `kIdleTicks` is 96 in the code.
`MaxRecords` bounds the steps recorded in `poly_sequencer`: the contents of the cells multiply the
states, and the sequence loaded from EEPROM already has a note, a rest and a tie that
meet; any further cell is a value the proof covers. That run stops at states that have
`raced` (the constraint `Unraced`: the property says nothing of them, nor of what
follows) and compares states by `Live`, which drops members that are set again
before they are read: while nothing is recorded, the editing position; while nothing
plays, the playing position. `poly_sequencer_stop` has the same constraint and its property excepts `raced`, so
that its trace is the overwritten note and not a tick in the middle of `Start`.

In `system` a property is the conjunction of what the modules state, and a constraint
(`Explored`; `Unraced` in `interrupts`) ends the exploration where a property no longer says anything: a start or stop
that was raced is followed to its end. It also leaves it at one hanging note at a time and, in the step sequencer, at
sequences of two steps. The sequencers have a tick in a step and one key (62, which is two above the root 60, so that it
transposes what it plays); two steps that are being recorded are enough to be nested. The run has 1,070,628 distinct
states and takes about three minutes. Queues hold one
playing of everything the instance can play; two keys share a note after transposition, cross each other or
are an octave apart; counters are two or three where the code has 6, 96, 100 or 192, which only
stretches the time between the cases. The groove is checked with its real
tables and the largest amount, at the slowest and at a fast tempo. `BufferSize` 3 is a buffer with room for one message
and not for two; `MaxDepth` 3 nests a handler in a handler in the main loop.

Fairness. `FlushTerminates` assumes that the processor goes on executing the loop of
`FlushQueue` (weak fairness of its turns), nothing of the apps or the clock.
`NotesEnd` assumes that clocks of the selected source keep coming
(`ClocksComeOn`): the internal one is a hardware timer; for the external
ones it is a condition on the equipment, and a note does sound on for as long as an
external clock is silent and sends no stop. It is stated through `beat`, which flips
at each such clock. `LatchActs` assumes the same of the external clock, and nothing of the user;
`ScrollEnds` that the processor executes the loop of `DoEvents` (`spun` makes each turn a step,
also when the page stays). Nothing else is assumed to happen.

What the properties except, each a real limit of the code rather than of the model:

- `ShSequencer`, `StepSequencer`: a forwarded key is released while the sequence runs; `ShSequencer`, `StepSequencer`,
  `Tanpura`: a note is played in the middle of a start or a stop that then forgets it. These notes are left on until
  a later note off happens to end them, and are counted apart (`hung`). `PolySequencer`: the same release, after which the note stays in `thru`.
- `ShSequencer`, `StepSequencer`, `Tanpura`, `Lfo`, `ClockSource`: an interrupt starts or stops it in the
  middle of a start or a stop of the main loop (`raced`), or `clk_mode_` is changed on the way (`switched`):
  the instruments may then have been told otherwise than it runs.
- `ShSequencer`: a step is recorded, or recording begun, in the middle of a recording (`nested`); the count of
  steps may then leave the arrays.
- `StepSequencer`, `Delay`: the scheduler is full when a note off or an echo is due to be put in
  (`dropped`); `Delay`, `Randomizer`, `ChannelApps`, `ScaleProcessor`: a setting is changed under a key
  (`changed`, `reassigned`), for the note off is then computed from another setting.
- `Randomizer`: the map is asked by key, not by channel and key, so that a key can take another's
  entry (`overwritten`). `ScaleProcessor`: the map has lost a key (`forgotten`); a note it should have ended
  then sounds on, in another scale than the one chosen since.
- `ChordMemory`: a chord is recorded while a key is held (`edited`).
- `DrumPatternGenerator`: a part got another instrument while it sounded, or was struck by a tick in the middle of
  a stop (`cut`); a mode was chosen on the way (`switched`), or a tick stopped it in the middle of the key that
  started it (`raced`), after which it may stand without the bar of idle ticks that lets a key start it again.
- `ClockDivider`, `SyncLatch`: a CONTINUE is passed on and not heeded (`continued`). `ClockDivider`: a START
  waits while the divider runs, or the divider was changed (`shifted`).
- `ClockSource`: the live one sends a START for a key while it is stopped (`restarted`); a tap resets
  the clock of its loop (`shifted`).
- `Lfo`: a rate was changed since the last step (`detuned`). `BpmMeter`: a clock comes between two
  statements of the main loop (`moved`, `torn`).
- `Clock`: intervals above 16 bits. `Firmware`: the orders in `races`.
- `SysEx`: a foreign message of one byte finds the last command's sum still matching and runs it
  again (`reran`); merged messages leave the loader's buffer (`overrun`).
- `MainLoop`: a control change meets the saving of its own setting (`meddled`); after an edit that a
  long press left, a button saves a page of another app (`strayed`); with every step in use and the
  last track hidden, the search for a page never ends (`Stuck`).

Environment assumptions worth knowing:

- The dispatcher's knobs turn while no key is down and `num_voices` is fixed. Shrinking and
  growing it with keys down can leave a voice active for good (hazard at `voice_allocator.h:38`).
- No key 0 in the dispatcher: a fresh `pool_` holds note 0, so a release of key 0 finds a voice
  it never had.
- The map is at least as large as the number of held keys (32 in the full firmware).
- The arpeggiator's channel and clock mode are fixed, and it starts from a boot: relaunching it
  keeps queue and keys, and a change of channel sends queued note offs to the new one.

### Disagreements found

- `midi_parser_realtime`, `midi/midi.h:118`. Realtime bytes inside a message are passed through
  with the data bytes received so far; an app that forwards raw messages writes
  stray data bytes.
- `arpeggiator_full`, `arpeggiator.cc:233`. With the queue full the note off is dropped after
  the note on was sent. Removed entries keep their slot until they are due, so a
  long duration with short steps fills 89 entries with a single key.
- `poly_sequencer_stop`, `poly_sequencer.cc:405`. A note held by a tie in a step where its own
  track plays another note is overwritten in `pending_notes_`; neither the next steps
  nor `Stop` ("Stop pending notes") end it.
- `poly_sequencer_full`, `poly_sequencer.cc:290`. "Auto-overdub if max number of steps is reached",
  but the recording goes on at step 0 and the length becomes 0.

## 5. Proofs

All for arbitrary constants that satisfy the named assumptions.

**`EventSchedulerProofs`** (pools of 2 to 255 entries; any notes and velocities below 128; any delays of a
byte). The invariant is `TypeOK` + `ListHoldsOccupied` + `SortedByWhen` stated with one chain as witness:
`TypeOK` alone is not inductive, for `Tick` decrements every entry behind the due ones, and
only the order of the list says that none of them is zero. `LinkInserts` (insertion keeps
a chain and its order), `RemoveKeeps` and `TickKeeps` do the work; results:
`TypeCorrect`, `NoEntryLeaks`, `StaysSorted`. `ImplementsTimed` is the refinement of `TimedQueue`: the chain
is the line of events, `LinkInserts` puts an event where the line has it, a removed one keeps its place, and
the due prefix of the chain is that of the line (`DueIs`).

**`NoteStackProofs`** (pools of 1 to 254 nodes; any notes and velocities below 128). The invariant names the list: a
sequence of distinct nodes that the links follow from `root_ptr_` (`Orderly`), which are the nodes that are not free and the ones in
the array, in ascending order. `ViewsAgree` alone does not say that the last node of the list, which a full
stack gives up, is the one whose link is 0. Results: `TypeCorrect`, `ViewsStayAgreed`, `StaysAscending`, and `ImplementsHeld`, the
refinement of `HeldNotes`.

**`DispatcherProofs`** (any polyphony, map size up to 254, any keys). `TypeInv` carries the ranges and that `lru_` is a
permutation (without it the allocator's searches may find nothing); `LruStaysPermutation`,
`TypeCorrect`, and the action property `StealsOnlyAtFullPolyphony` follow. `ActiveVoicesStayHeld`
adds that no two voices hold the same note, and needs keys other than 0 (an
assumption of that theorem). `NoNoteIsStuck` rests on the map: every held key has exactly one entry,
which is why a free entry is always found. `LruStaysRecency`: `Touch` keeps `lru_` in the order in
which the voices were last touched. Minima and maxima of sets of numbers, with which "first" and "last" in the
code's loops are modelled, are shown to exist; so they are, with what it is to put an element into a
sequence or take one out, in the modules of the other proofs that need it.

**`PolySequencerProofs`** (any tracks and steps up to the firmware's, any keys, any contents of the
EEPROM, any number of steps recorded). `NotesStayRemembered` is `NotesRemembered` for them. It is not inductive: it says
nothing of *when* a note may be owed. `Remembered` does: while the transport runs, what sounds is owed or
excused (`cut`, `thru`); while it is stopped, excused; in the middle of `Stop`, owed by a track not yet
visited. Every handler that plays no tick satisfies `Quiet` (it adds no note but a forwarded one, and
a stop ends all that is owed), and `QuietRemembers` needs only that of them; `Tick` has its own lemmas for
its two loops. `TypeCorrect` adds `Within`: the count of a step is below *some* prescaler (the division may be turned
in the middle of a step), and while steps are recorded the note before is one that a tie can hold on, so that what
`Record` writes is a note, a tie or a rest.

**`FirmwareProofs`** (a buffer of 2 bytes or more, any depth of nesting, up to 255 ticks waiting). `TypeInv` adds to
`TypeOK` what a frame may be (`Proper`): only the first is the main loop's, and a byte is in the hand of a frame
exactly while it is in `FlushOutputBuffer`. `EveryTickKept`: unless "tick" raced, every frame between the test and
the write of `num_clock_ticks` has a tick left to answer, and one about to write has in hand what the count still
is (`Counts`). `MessagesStayWhole`: unless a race cut one, the bytes not yet sent, the one in hand and then the buffer,
follow on what was sent as messages do (`Chain`), and only the last may be half written, by the one frame that is
between its two writes (`Streams`). The byte in hand is that of one frame only (`Hands`), a loop of `FlushOutputBuffer` or a
handler between its read of the buffer and its write of the port: a second one would be `overtaken`. The other end of the port is in the same module, for any bytes but 0xf1:
`ParserTypeOK` and `InStep` are inductive with `Expects`, what is awaited is what the running status calls for.
`NeverOverrun` says that `data_[data_size_++]` stays inside its array, `KeepsInStep` that the parser
holds the message in progress.

**`ArpeggiatorProofs`** (any keys, any settings the pages allow, any turn of a knob, sizes up to the firmware's). The
class is one record, so most lemmas are about a record that is `Good` before a function of the code and `Good` after it.
`IInv` adds to the four invariants what they rest on:

- the notes in the scheduler (`EndsOf`) are the notes that sound less the `lost` ones, each there once (`EndOnce`);
  `Heard` says what becomes of them when a handler plays a note, takes back its end, ticks or flushes;
- each note played comes from a key that is held (`FromKeys`), although the step of the arpeggio was left where it is
  when keys were released and `octaves`, `direction` or `pattern` were turned (`Placed`);
- a stopped arpeggiator has nothing in the scheduler (`Rests`), and under the internal clock it counts as idle
  (`Wakes`). A tick that stops in the middle of its handler has found no key, so it schedules
  nothing after the flush.

The chord and the burst of the note clock are loops. What a turn keeps, all keep: were there a turn that
breaks it, there would be a least one (`LoopExists`, `LoopKeeps`). Results: `Invariant`, `TypeCorrect`, `NotesEndOnce`,
`StopsEmpty`, `KeyStarts`, and the action property `HeldKeysOnly`.

**`SoundingProofs`, `SystemProofs`** (the parts of `System`; for each the assumption named after it: MIDI notes
and channels, settings in the range of their editor, sizes that are not 0, four places in the tanpura's queue, echoes that
wait a tick or more). `Inv` gives each part its own inductive invariant; `InvHolds` is their conjunction, and the
seven theorems on the properties of the run `system` follow from it. `SoundingProofs` has the parts that keep notes
in a queue or a map and the SH sequencer, `SystemProofs` the others. What the properties needed to become inductive:

- The queue of the apps. A line is in the order of its waits (`Lined`), and an event put into it displaces nothing
  but the places behind it (`QueueInserted`); what is due is a prefix.
- Step sequencer (`StepOk`): a sounding note is the one playing or has its note off in the line, unless one was dropped.
- Tanpura (`DroneOk`): why its note off is never dropped. A pluck comes no more often than each tick and its note off waits
  at most four, so the event at place `p` of `n` waits at most `4 - (n - p)` ticks (`Backlog`), and there are never more
  than four.
- Delay (`EchoOk`): every waiting note on is *covered*, by a held key or by a note off in the line with enough echoes to
  come to reach its pitch, or by its own note off behind it. The loop over the due events keeps this although each
  event is echoed while the others are still in the line (`EchoSending`). `Echoes` and `SendEchoes` are recursive functions; that they
  are total, and what a turn keeps, is shown by a least counterexample (`WellFoundedInduction` has the order).
- Randomizer and scale processor (`RandomOk`, `ScaleOk`): each key that is down and selected has an entry of the map
  of its own, the one that is found for it; what sounds is a voice of such a key and, with a fixed root, in the scale.
- Chord memory (`ChordOk`): while a chord is recorded keys sound themselves; afterwards the chord of a key has
  the note of the key in it, so that the keys held across the end are still ended.
- SH sequencer (`ShOk`): what sounds is the note the sequencer remembers, one forwarded for a key that is down, or one of the
  `hung`; each line of `Start` and `Stop` says whether the sequencer runs there and what the instruments were told
  (`ShTransport`); while steps are recorded, each place says how far `num_steps_` may be (`ShRecords`).
  The step sequencer, the tanpura, the LFOs and the sources have the same invariant of their transport.
- Sources (`SourceOk`): the clock runs when the source runs or is at a place that is about to make it so (`SourceGoes`); the
  live source counts the clocks since its loop began.
- Drums (`DrumOk`): what sounds is the instrument of an active part; until a tick has raced, while the generator runs with
  a part that may strike, it has been idle for no longer than the step lasts, and once it stands it has been for a
  bar (`DrumCounts`).
- Divider (`DividerPhase`): the counter is one behind the clocks since START, and a START that waits finds it set to pass the
  first clock. LFO (`LfoOk`): the phase is below its increment exactly when the cycle has just begun. Meter (`MeterOk`): while it
  counts, its clocks and its timer are those of the interval, but for a clock in the middle of a reset.
- Clock (`ClockOk`): the groove template's displacements cancel, so the intervals so far are within 15 of the
  straight ones and after sixteen steps at no more than a rounding each; `span` is the sum of what passed. It holds for every
  tempo from 40.0 to 240.9 BPM and, for the ratios of the live source, every BPM from 10.
- Main loop (`LoopOk`): what is in the queue of writes are the values in memory, the page shown is one of the
  launched app, a reset that is under way has for each cell the factory value written or still to be written, and
  no two settings share an address.

Only model-checked:

- all liveness, which is beyond the prover: `FlushTerminates`, `NotesEnd`, `LatchActs`, `ScrollEnds`;
- `Delivers`: it filters sequences of callbacks, and no installed backend reasons about `SelectSeq`;
- `BlocksArriveWhole`: it depends on the instance, for it is false of blocks that an error changes into one another
  under the same sum, and the sum is a fold over the data;
- `TypeOK` of `System`. The invariants above hold those parts of it that the properties rest on.

## 6. Not modelled

Listed in `PROJECT.json` with the reason.

- The generic filter, the monitor and the controller keep nothing between messages: they
  translate one message by arithmetic or into text. The display, the generated resources (but for
  the groove tables) and the web editor are output layout, data, and a different program.
- `Ui::Poll` and its event queue, the drawing of pages, the LEDs.
- `SendBlock` by request (0x11) and `CopyScratchArea`: the one stores nothing, the other belongs to
  the generic filter.
- A `Launch` that an interrupt finds half copied: what happens then is not a state of the program.
- Handlers interrupting handlers inside an app: an app's handler is one step, except in the
  interleavings named in section 3. `Firmware` has the nesting, over what the
  interrupts themselves share. So a TIMER2 nested in the `SendNow` of a handler of the same application is left out
  (a clock between `arpeggiator.cc:196` and the line that clears `idle_ticks_` would lock the arpeggiator as the tick of
  `KeyDownStopped` does the drums), and so is the remote control that interrupts the encoder in the applications
  whose settings take one step.
- Single steps that are more than one access: the calls of the scheduler, an access of a ring buffer with its pointer, a
  16-bit phase, the reset of the phases of the LFOs.
- The `PolySequencer` keeps a forwarded key in `thru` also when its release came while the sequencer ran and was not
  forwarded (`poly_sequencer.cc:338`): that note hangs, and the properties say nothing of it.
- The EEPROM starts as programmed at the factory; a blank one (all 255) is not guarded against by
  the code but in the index of the app.
