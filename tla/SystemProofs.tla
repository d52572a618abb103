----------------------------- MODULE SystemProofs -----------------------------
(***************************************************************************)
(* Proofs about the parts of System, for any values of their constants     *)
(* that the firmware allows.  Each part has an inductive invariant of its  *)
(* own, and the properties of System follow from all of them.              *)
(***************************************************************************)
EXTENDS SoundingProofs

-----------------------------------------------------------------------------
(* The clock divider.                                                      *)

DividerTyped(s) ==
    /\ s.divider \in DividerParams.Dividers /\ s.start_delay \in DividerParams.Delays
    /\ s.counter \in 0 .. 255 /\ s.start_delay_counter \in 0 .. 255
    /\ s.running \in BOOLEAN /\ s.told \in BOOLEAN /\ s.since \in 0 .. 255
    /\ s.continued \in BOOLEAN /\ s.shifted \in BOOLEAN

\* A START that waits finds a divider that does not run, set to pass the first clock.
DividerPhase ==
  /\ state.continued => state.told
  /\ ~state.shifted =>
      /\ state.running => /\ state.since \in 0 .. state.divider - 1
                          /\ state.counter = IF state.since = 0 THEN state.divider - 1
                                             ELSE state.since - 1
      /\ state.start_delay_counter > 0 => ~state.running /\ state.counter = state.divider - 1

DividerInv == Divider!TypeOK /\ Divider!TransportAgrees /\ DividerPhase

LEMMA DividerType ==
    ASSUME NEW s \in Divider!Members
    PROVE  /\ DividerTyped(s)
           /\ \A t : Shaped(t, s) /\ DividerTyped(t) => t \in Divider!Members
BY DEF Divider!Members, Shaped, DividerTyped

LEMMA DividerInit == Divider!Init => DividerInv
BY DividerAssumption DEF DividerInv, Divider!Init, Divider!TypeOK, Divider!Members,
   Divider!TransportAgrees, DividerPhase

LEMMA DividerNext == DividerInv /\ Divider!Next => DividerInv'
<1> SUFFICES ASSUME DividerInv, Divider!Next PROVE DividerInv'
  OBVIOUS
<1>1. state \in Divider!Members /\ DividerTyped(state)
  BY DividerType DEF DividerInv, Divider!TypeOK
<1>2. /\ state.divider \in 1 .. 255 /\ state.divider \in Nat \ {0} /\ state.start_delay \in 0 .. 255
      /\ state.since \in 0 .. 255
  BY <1>1, DividerAssumption DEF DividerTyped
<1> SUFFICES Shaped(state', state) /\ DividerTyped(state')
             /\ Divider!TransportAgrees' /\ DividerPhase'
  BY <1>1, DividerType DEF DividerInv, Divider!TypeOK
<1>3. CASE Divider!Clock
  <2> DEFINE begins == state.start_delay_counter = 1
             runs   == state.running \/ begins
             after  == (state.since + 1) % state.divider
             first  == 1 % state.divider
  <2>1. Shaped(state', state)
    BY <1>1, <1>3 DEF Divider!Members, Divider!Clock, Shaped
  <2>2. /\ state'.divider = state.divider /\ state'.start_delay = state.start_delay
        /\ state'.start_delay_counter =
             IF state.start_delay_counter > 0 THEN state.start_delay_counter - 1 ELSE 0
        /\ state'.running = runs /\ state'.told = (state.told \/ begins)
        /\ state'.continued = (state.continued /\ ~begins)
        /\ state'.counter = IF runs /\ state.counter + 1 >= state.divider THEN 0
                            ELSE IF runs THEN state.counter + 1 ELSE state.counter
        /\ state'.since = IF begins THEN first ELSE IF runs THEN after ELSE state.since
        /\ state'.shifted = state.shifted
    BY <1>1, <1>3 DEF Divider!Members, Divider!Clock
  <2>3. state.since + 1 \in Int
    BY <1>2
  <2>4. after \in 0 .. state.divider - 1
    BY <1>2, <2>3, RemainderIn, Zenon
  <2>5. first = IF state.divider = 1 THEN 0 ELSE 1
    BY <1>2, RemainderOfOne, Zenon
  <2>6. ASSUME state.since \in 0 .. state.divider - 1
        PROVE  after = IF state.since + 1 = state.divider THEN 0 ELSE state.since + 1
    BY <1>2, <2>6, RemainderUp, Zenon
  <2> HIDE DEF after, first
  <2>7. DividerTyped(state')
    <3>1. state'.counter \in 0 .. 255 /\ state'.since \in 0 .. 255
      BY <1>1, <1>2, <2>2, <2>4, <2>5, SMTT(30) DEF DividerTyped
    <3> QED
      BY <1>1, <2>2, <3>1 DEF DividerTyped
  <2>8. Divider!TransportAgrees'
    BY <1>1, <2>2 DEF Divider!TransportAgrees, DividerPhase, DividerInv, DividerTyped
  <2>9. DividerPhase'
    BY <1>1, <1>2, <2>2, <2>4, <2>5, <2>6 DEF DividerPhase, DividerInv, DividerTyped
  <2> QED
    BY <2>1, <2>7, <2>8, <2>9
<1>4. CASE Divider!Start
  <2>1. Shaped(state', state)
    BY <1>1, <1>4 DEF Divider!Members, Divider!Start, Shaped
  <2>2. /\ state'.divider = state.divider /\ state'.counter = state.divider - 1
        /\ state'.start_delay = state.start_delay
        /\ state'.start_delay_counter = state.start_delay
        /\ state'.running = (state.running \/ state.start_delay = 0)
        /\ state'.told = (state.told \/ state.start_delay = 0)
        /\ state'.continued = (state.continued /\ state.told /\ state.start_delay # 0)
        /\ state'.since = IF state.start_delay = 0 THEN 0 ELSE state.since
        /\ state'.shifted = (state.running /\ state.start_delay # 0)
    BY <1>1, <1>4 DEF Divider!Members, Divider!Start
  <2>3. Divider!TransportAgrees'
    BY <1>1, <2>2 DEF Divider!TransportAgrees, DividerPhase, DividerInv, DividerTyped
  <2>4. DividerPhase'
    BY <1>1, <1>2, <2>2 DEF DividerPhase, DividerTyped
  <2>5. DividerTyped(state')
    BY <1>1, <1>2, <2>2 DEF DividerTyped
  <2> QED
    BY <2>1, <2>3, <2>4, <2>5
<1>5. CASE Divider!Stop
  <2>1. Shaped(state', state) /\ DividerTyped(state')
    BY <1>1, <1>5 DEF Divider!Members, Divider!Stop, Shaped, DividerTyped
  <2>2. Divider!TransportAgrees' /\ DividerPhase'
    BY <1>1, <1>5 DEF Divider!Members, Divider!Stop, Divider!TransportAgrees, DividerPhase, DividerInv
  <2> QED
    BY <2>1, <2>2
<1>6. CASE Divider!Continue
  <2>1. Shaped(state', state) /\ DividerTyped(state')
    BY <1>1, <1>6 DEF Divider!Members, Divider!Continue, Shaped, DividerTyped
  <2>2. Divider!TransportAgrees' /\ DividerPhase'
    BY <1>1, <1>6 DEF Divider!Members, Divider!Continue, Divider!TransportAgrees, DividerPhase, DividerInv
  <2> QED
    BY <2>1, <2>2
<1>7. ASSUME NEW divider \in DividerParams.Dividers, Divider!SetDivider(divider)
      PROVE  Shaped(state', state) /\ DividerTyped(state')
             /\ Divider!TransportAgrees' /\ DividerPhase'
  <2> DEFINE since == state.since % divider
  <2>1. divider \in 1 .. 255 /\ divider \in Nat \ {0} /\ state.since \in Int
    BY <1>2, DividerAssumption
  <2>2. /\ Shaped(state', state)
        /\ state' = [state EXCEPT !.divider = divider, !.since = since,
                                  !.shifted = @ \/ divider # state.divider]
    BY <1>1, <1>7 DEF Divider!Members, Divider!SetDivider, Shaped
  <2>3. since \in 0 .. divider - 1
    BY <1>2, <2>1, RemainderIn, Zenon
  <2>4. divider = state.divider /\ state.since \in 0 .. divider - 1 => since = state.since
    BY <1>2, <2>1, RemainderIs, Zenon
  <2> HIDE DEF since
  <2>5. DividerTyped(state')
    BY <1>1, <2>1, <2>2, <2>3 DEF Divider!Members, DividerTyped
  <2>6. Divider!TransportAgrees'
    BY <1>1, <2>2 DEF Divider!Members, Divider!TransportAgrees, DividerInv
  <2>7. ASSUME ~state'.shifted
        PROVE  ~state.shifted /\ state'.divider = state.divider /\ divider = state.divider
               /\ (state.since \in 0 .. divider - 1 => state'.since = state.since)
    BY <1>1, <2>2, <2>4, <2>7 DEF Divider!Members
  <2>8. /\ state'.counter = state.counter /\ state'.running = state.running
        /\ state'.start_delay_counter = state.start_delay_counter
        /\ state'.continued = state.continued /\ state'.told = state.told
    BY <1>1, <2>2 DEF Divider!Members
  <2>9. DividerPhase'
    BY <2>7, <2>8 DEF DividerPhase, DividerInv
  <2> QED
    BY <2>2, <2>5, <2>6, <2>9
<1>8. ASSUME NEW start_delay \in DividerParams.Delays, Divider!SetStartDelay(start_delay)
      PROVE  Shaped(state', state) /\ DividerTyped(state')
             /\ Divider!TransportAgrees' /\ DividerPhase'
  <2>1. Shaped(state', state) /\ DividerTyped(state')
    BY <1>1, <1>2, <1>8 DEF Divider!Members, Divider!SetStartDelay, Shaped, DividerTyped
  <2>2. Divider!TransportAgrees' /\ DividerPhase'
    BY <1>1, <1>2, <1>8 DEF Divider!Members, Divider!SetStartDelay, Divider!TransportAgrees, DividerPhase, DividerInv
  <2> QED
    BY <2>1, <2>2
<1> QED
  BY <1>3, <1>4, <1>5, <1>6, <1>7, <1>8 DEF Divider!Next

-----------------------------------------------------------------------------
(* The sync latch.                                                         *)

LatchTyped(s) ==
    /\ s.num_beats \in LatchParams.NumBeats /\ s.ticks \in LatchParams.BeatTicks
    /\ s.step_counter \in 0 .. 255 /\ s.beat_counter \in 0 .. 255
    /\ s.armed \in BOOLEAN /\ s.running \in BOOLEAN
    /\ s.main \in {"idle", "resetting", "arming_stopped", "arming_running"}
    /\ s.told \in BOOLEAN /\ s.continued \in BOOLEAN /\ s.raced \in BOOLEAN
    /\ s.turns \in 0 .. LatchParams.MaxTurns

\* A click that is arming has read state_ as it still is.
ArmsAsRead ==
    ~state.raced => /\ state.main = "arming_running" => state.running
                    /\ state.main = "arming_stopped" => ~state.running

LatchInv == Latch!TypeOK /\ Latch!TransportAgrees /\ ArmsAsRead

LEMMA LatchType ==
    ASSUME NEW s \in Latch!Members
    PROVE  /\ LatchTyped(s)
           /\ \A t : Shaped(t, s) /\ LatchTyped(t) => t \in Latch!Members
BY DEF Latch!Members, Shaped, LatchTyped

LEMMA LatchInit == Latch!Init => LatchInv
BY LatchAssumption DEF LatchInv, Latch!Init, Latch!TypeOK, Latch!Members,
   Latch!TransportAgrees, ArmsAsRead

LEMMA LatchNext == LatchInv /\ Latch!Next => LatchInv'
<1> SUFFICES ASSUME LatchInv, Latch!Next PROVE LatchInv'
  OBVIOUS
<1>1. state \in Latch!Members /\ LatchTyped(state)
  BY LatchType DEF LatchInv, Latch!TypeOK
<1>2. /\ state.ticks \in 1 .. 255 /\ state.num_beats \in 1 .. 255 /\ LatchParams.MaxTurns \in Nat
      /\ state.step_counter \in 0 .. 255 /\ state.beat_counter \in 0 .. 255
  BY <1>1, LatchAssumption DEF LatchTyped
<1> SUFFICES /\ Shaped(state', state) /\ LatchTyped(state')
             /\ Latch!TransportAgrees' /\ ArmsAsRead'
  BY <1>1, LatchType DEF LatchInv, Latch!TypeOK
<1> USE DEF Latch!Arming
<1>3. CASE Latch!Clock
  <2> DEFINE ends == state.step_counter + 1 >= state.ticks
             step == IF ends THEN 0 ELSE state.step_counter + 1
             beats == IF ends THEN state.beat_counter + 1 ELSE state.beat_counter
             beat == IF beats >= state.num_beats THEN 0 ELSE beats
             acts == state.armed /\ step = 0 /\ beat = 0
  <2>1. Shaped(state', state)
    BY <1>1, <1>3, ZenonT(30) DEF Latch!Members, Latch!Clock, Shaped
  <2>2. step \in 0 .. 255 /\ beat \in 0 .. 255 /\ acts \in BOOLEAN
    BY <1>2, SMTT(30)
  <2>3. state' = [state EXCEPT !.step_counter = step, !.beat_counter = beat,
                           !.armed     = @ /\ ~acts,
                           !.running   = IF acts THEN ~@ ELSE @,
                           !.told      = IF acts THEN ~state.running ELSE @,
                           !.continued = @ /\ ~acts,
                           !.raced     = @ \/ (acts /\ Latch!Arming)]
    BY <1>3 DEF Latch!Clock
  <2> HIDE DEF step, beat, acts
  <2>4. LatchTyped(state')
    BY <1>1, <2>2, <2>3, ZenonT(30) DEF Latch!Members, LatchTyped
  <2>5. Latch!TransportAgrees' /\ ArmsAsRead'
    BY <1>1, <2>2, <2>3 DEF Latch!Members, Latch!TransportAgrees, ArmsAsRead, LatchInv
  <2> QED
    BY <2>1, <2>4, <2>5
<1>4. CASE Latch!Start
  <2> USE DEF Latch!Start, Latch!Members
  <2>1. Shaped(state', state)
    BY <1>1, <1>4 DEF Shaped
  <2>2. LatchTyped(state')
    BY <1>1, <1>2, <1>4 DEF LatchTyped
  <2>3. Latch!TransportAgrees' /\ ArmsAsRead'
    BY <1>1, <1>2, <1>4 DEF Latch!TransportAgrees, ArmsAsRead, LatchInv
  <2> QED
    BY <2>1, <2>2, <2>3
<1>5. CASE Latch!Stop
  <2> USE DEF Latch!Stop, Latch!Members
  <2>1. Shaped(state', state)
    BY <1>1, <1>5 DEF Shaped
  <2>2. LatchTyped(state')
    BY <1>1, <1>2, <1>5 DEF LatchTyped
  <2>3. Latch!TransportAgrees' /\ ArmsAsRead'
    BY <1>1, <1>2, <1>5 DEF Latch!TransportAgrees, ArmsAsRead, LatchInv
  <2> QED
    BY <2>1, <2>2, <2>3
<1>6. CASE Latch!Continue
  <2> USE DEF Latch!Continue, Latch!Members
  <2>1. Shaped(state', state)
    BY <1>1, <1>6 DEF Shaped
  <2>2. LatchTyped(state')
    BY <1>1, <1>2, <1>6 DEF LatchTyped
  <2>3. Latch!TransportAgrees' /\ ArmsAsRead'
    BY <1>1, <1>2, <1>6 DEF Latch!TransportAgrees, ArmsAsRead, LatchInv
  <2> QED
    BY <2>1, <2>2, <2>3
<1>7. CASE Latch!Reset
  <2> USE DEF Latch!Reset, Latch!Members
  <2>1. Shaped(state', state)
    BY <1>1, <1>7 DEF Shaped
  <2>2. LatchTyped(state')
    BY <1>1, <1>2, <1>7 DEF LatchTyped
  <2>3. Latch!TransportAgrees' /\ ArmsAsRead'
    BY <1>1, <1>2, <1>7 DEF Latch!TransportAgrees, ArmsAsRead, LatchInv
  <2> QED
    BY <2>1, <2>2, <2>3
<1>8. CASE Latch!ResetEnds
  <2> USE DEF Latch!ResetEnds, Latch!Members
  <2>1. Shaped(state', state)
    BY <1>1, <1>8 DEF Shaped
  <2>2. LatchTyped(state')
    BY <1>1, <1>2, <1>8 DEF LatchTyped
  <2>3. Latch!TransportAgrees' /\ ArmsAsRead'
    BY <1>1, <1>2, <1>8 DEF Latch!TransportAgrees, ArmsAsRead, LatchInv
  <2> QED
    BY <2>1, <2>2, <2>3
<1>9. CASE Latch!Arm
  <2> USE DEF Latch!Arm, Latch!Members
  <2>1. Shaped(state', state)
    BY <1>1, <1>9 DEF Shaped
  <2>2. LatchTyped(state')
    BY <1>1, <1>2, <1>9 DEF LatchTyped
  <2>3. Latch!TransportAgrees' /\ ArmsAsRead'
    BY <1>1, <1>2, <1>9 DEF Latch!TransportAgrees, ArmsAsRead, LatchInv
  <2> QED
    BY <2>1, <2>2, <2>3
<1>10. CASE Latch!ArmEnds
  <2> USE DEF Latch!ArmEnds, Latch!Members
  <2>1. Shaped(state', state)
    BY <1>1, <1>10 DEF Shaped
  <2>2. LatchTyped(state')
    BY <1>1, <1>2, <1>10 DEF LatchTyped
  <2>3. Latch!TransportAgrees' /\ ArmsAsRead'
    BY <1>1, <1>2, <1>10 DEF Latch!TransportAgrees, ArmsAsRead, LatchInv
  <2> QED
    BY <2>1, <2>2, <2>3
<1>11. ASSUME NEW num_beats \in LatchParams.NumBeats, NEW ticks \in LatchParams.BeatTicks,
             Latch!Set(num_beats, ticks)
      PROVE  Shaped(state', state) /\ LatchTyped(state') /\ Latch!TransportAgrees' /\ ArmsAsRead'
  <2> USE DEF Latch!Set, Latch!Members
  <2>1. Shaped(state', state)
    BY <1>1, <1>11 DEF Shaped
  <2>2. LatchTyped(state')
    BY <1>1, <1>2, <1>11 DEF LatchTyped
  <2>3. Latch!TransportAgrees' /\ ArmsAsRead'
    BY <1>1, <1>2, <1>11 DEF Latch!TransportAgrees, ArmsAsRead, LatchInv
  <2> QED
    BY <2>1, <2>2, <2>3
<1> QED
  BY <1>3, <1>4, <1>5, <1>6, <1>7, <1>8, <1>9, <1>10, <1>11 DEF Latch!Next

-----------------------------------------------------------------------------
(* The clock sources.                                                      *)

SourceTyped(s) ==
    /\ s.variant \in SourceParams.Variant /\ s.running \in BOOLEAN
    /\ s.bpm \in 0 .. 255 /\ s.tenth \in 0 .. 255 /\ s.send_start \in BOOLEAN
    /\ s.num_taps \in {0, 1} /\ s.num_ticks \in 0 .. 255 /\ s.clock_running \in BOOLEAN
    /\ s.main \in Source!Places /\ s.told \in BOOLEAN /\ s.restarted \in BOOLEAN
    /\ s.raced \in BOOLEAN
    /\ s.since \in 0 .. SourceParams.LoopTicks - 1 /\ s.shifted \in BOOLEAN

\* What the clock and the instruments were told at each line of the main loop.
SourceGoes(s) == IF s.main = "idle" THEN s.running ELSE s.main \notin {"stopping", "stopped"}

SourceAgrees(s) ==
    ~s.raced => /\ s.clock_running <=> SourceGoes(s)
                /\ ~s.restarted => (s.told <=> SourceGoes(s))

\* The tenths are those of the HD one, which has none at the top.
TempoHeld(s) ==
    /\ s.tenth \in 0 .. 9
    /\ s.variant # "HD" \/ s.bpm >= 240 => s.tenth = 0
    /\ s.bpm \in IF s.variant = "LIVE" THEN 10 .. 255 ELSE 40 .. 240

LoopCounted(s) ==
    /\ s.num_ticks < SourceParams.LoopTicks
    /\ s.variant = "LIVE" /\ ~s.shifted => s.num_ticks = s.since

SourceOk(s) == s \in Source!Members /\ SourceAgrees(s) /\ TempoHeld(s) /\ LoopCounted(s)

LEMMA SourceType ==
    ASSUME NEW s \in Source!Members
    PROVE  /\ SourceTyped(s)
           /\ \A t : Shaped(t, s) /\ SourceTyped(t) => t \in Source!Members
BY DEF Source!Members, Shaped, SourceTyped

LEMMA SourceInit == Source!Init => SourceOk(state)
<1> SUFFICES ASSUME Source!Init PROVE SourceOk(state)
  OBVIOUS
<1>1. state \in Source!Members
  BY SourceAssumption DEF Source!Init, Source!Members, Source!Places
<1>2. SourceAgrees(state) /\ TempoHeld(state) /\ LoopCounted(state)
  BY SourceAssumption DEF Source!Init, SourceAgrees, SourceGoes, TempoHeld, LoopCounted
<1> QED
  BY <1>1, <1>2 DEF SourceOk

\* The clock and the instruments start and stop.
LEMMA SourceStarting ==
    ASSUME NEW s, SourceOk(s), NEW running \in BOOLEAN, NEW raced \in BOOLEAN,
           NEW main \in Source!Places,
           ~raced => (IF main = "idle" THEN running ELSE main \notin {"stopping", "stopped"})
    PROVE  SourceOk([Source!Starting(s) EXCEPT !.running = running, !.raced = raced, !.main = main])
<1> DEFINE r == Source!Starting(s)
           t == [r EXCEPT !.running = running, !.raced = raced, !.main = main]
<1>1. s \in Source!Members /\ SourceTyped(s) /\ TempoHeld(s) /\ LoopCounted(s)
  BY SourceType DEF SourceOk
<1>2. /\ Shaped(r, s) /\ r.variant = s.variant /\ r.bpm = s.bpm /\ r.tenth = s.tenth
      /\ r.send_start = s.send_start /\ r.num_taps = s.num_taps /\ r.num_ticks = s.num_ticks
      /\ r.clock_running = TRUE /\ r.told = TRUE /\ r.restarted = s.restarted
      /\ r.since = 0 /\ r.shifted = (s.num_ticks # 0)
  BY <1>1 DEF Shaped, Source!Members, Source!Starting, Source!Reset
<1> HIDE DEF r
<1>3. /\ Shaped(t, s) /\ t.variant = s.variant /\ t.bpm = s.bpm /\ t.tenth = s.tenth
      /\ t.send_start = s.send_start /\ t.num_taps = s.num_taps /\ t.num_ticks = s.num_ticks
      /\ t.clock_running = TRUE /\ t.told = TRUE /\ t.restarted = s.restarted
      /\ t.since = 0 /\ t.shifted = (s.num_ticks # 0)
      /\ t.running = running /\ t.raced = raced /\ t.main = main
  <2>1. DOMAIN r = {"variant", "running", "bpm", "tenth", "send_start", "num_taps", "num_ticks",
                    "clock_running", "main", "told", "restarted", "raced", "since", "shifted"}
    BY <1>1, <1>2 DEF Shaped, Source!Members
  <2>2. /\ t.variant = r.variant /\ t.bpm = r.bpm /\ t.tenth = r.tenth
        /\ t.send_start = r.send_start /\ t.num_taps = r.num_taps /\ t.num_ticks = r.num_ticks
        /\ t.clock_running = r.clock_running /\ t.told = r.told /\ t.restarted = r.restarted
        /\ t.since = r.since /\ t.shifted = r.shifted
        /\ t.running = running /\ t.raced = raced /\ t.main = main
    BY <2>1
  <2>3. Shaped(t, s)
    BY <1>2, <2>1 DEF Shaped
  <2> HIDE DEF t
  <2> QED
    BY <1>2, <2>2, <2>3
<1> HIDE DEF t
<1>4. SourceTyped(t)
  <2>1. t.since \in 0 .. SourceParams.LoopTicks - 1
    BY <1>3, SourceAssumption
  <2>2. /\ t.clock_running \in BOOLEAN /\ t.told \in BOOLEAN /\ t.shifted \in BOOLEAN
        /\ t.running \in BOOLEAN /\ t.raced \in BOOLEAN
    BY <1>3, Zenon
  <2> QED
    BY <1>1, <1>3, <2>1, <2>2 DEF SourceTyped
<1>5. SourceAgrees(t) /\ TempoHeld(t)
  BY <1>1, <1>3 DEF SourceAgrees, SourceGoes, TempoHeld
<1>6. LoopCounted(t)
  BY <1>1, <1>3 DEF LoopCounted
<1>7. t \in Source!Members
  BY <1>1, <1>3, <1>4, SourceType
<1> QED
  BY <1>5, <1>6, <1>7 DEF SourceOk, t, r

LEMMA SourceStopping ==
    ASSUME NEW s, SourceOk(s), NEW running \in BOOLEAN, NEW raced \in BOOLEAN,
           NEW main \in Source!Places,
           ~raced => IF main = "idle" THEN ~running ELSE main \in {"stopping", "stopped"}
    PROVE  SourceOk([Source!Stopping(s) EXCEPT !.running = running, !.raced = raced, !.main = main])
<1> DEFINE r == Source!Stopping(s)
           t == [r EXCEPT !.running = running, !.raced = raced, !.main = main]
<1>1. s \in Source!Members /\ SourceTyped(s) /\ TempoHeld(s) /\ LoopCounted(s)
  BY SourceType DEF SourceOk
<1>2. /\ Shaped(r, s) /\ r.variant = s.variant /\ r.bpm = s.bpm /\ r.tenth = s.tenth
      /\ r.send_start = s.send_start /\ r.num_taps = s.num_taps /\ r.num_ticks = s.num_ticks
      /\ r.clock_running = FALSE /\ r.told = FALSE /\ r.restarted = FALSE
      /\ r.since = s.since /\ r.shifted = s.shifted
  BY <1>1 DEF Shaped, Source!Members, Source!Stopping
<1> HIDE DEF r
<1>3. /\ Shaped(t, s) /\ t.variant = s.variant /\ t.bpm = s.bpm /\ t.tenth = s.tenth
      /\ t.send_start = s.send_start /\ t.num_taps = s.num_taps /\ t.num_ticks = s.num_ticks
      /\ t.clock_running = FALSE /\ t.told = FALSE /\ t.restarted = FALSE
      /\ t.since = s.since /\ t.shifted = s.shifted
      /\ t.running = running /\ t.raced = raced /\ t.main = main
  BY <1>1, <1>2 DEF Shaped, Source!Members
<1> HIDE DEF t
<1>4. SourceTyped(t)
  <2>2. /\ t.clock_running \in BOOLEAN /\ t.told \in BOOLEAN /\ t.restarted \in BOOLEAN
        /\ t.running \in BOOLEAN /\ t.raced \in BOOLEAN
    BY <1>3, Zenon
  <2> QED
    BY <1>1, <1>3, <2>2 DEF SourceTyped
<1>5. SourceAgrees(t) /\ TempoHeld(t)
  BY <1>1, <1>3 DEF SourceAgrees, SourceGoes, TempoHeld
<1>6. LoopCounted(t)
  BY <1>1, <1>3 DEF LoopCounted
<1>7. t \in Source!Members
  BY <1>1, <1>3, <1>4, SourceType
<1> QED
  BY <1>5, <1>6, <1>7 DEF SourceOk, t, r

\* Start and Stop of an interrupt.
LEMMA SourceStart ==
    ASSUME NEW s, SourceOk(s)
    PROVE  SourceOk(Source!Start(s))
<1> DEFINE raced == Source!Raced(s)
           r     == Source!Starting(s)
<1>1. s \in Source!Members /\ SourceTyped(s)
  BY SourceType DEF SourceOk
<1>2. s.main \in Source!Places /\ raced \in BOOLEAN /\ (~raced => s.main = "idle")
  BY <1>1 DEF SourceTyped, Source!Raced
<1>3. r.main = s.main /\ DOMAIN r = DOMAIN s
  BY <1>1 DEF Source!Members, Source!Starting, Source!Reset
<1> HIDE DEF raced, r
<1>4. [r EXCEPT !.running = TRUE, !.raced = raced] =
        [r EXCEPT !.running = TRUE, !.raced = raced, !.main = s.main]
  BY <1>1, <1>3 DEF Source!Members
<1>5. SourceOk([r EXCEPT !.running = TRUE, !.raced = raced, !.main = s.main])
  BY <1>2, SourceStarting DEF r
<1> QED
  BY <1>4, <1>5 DEF Source!Start, r, raced

LEMMA SourceStop ==
    ASSUME NEW s, SourceOk(s)
    PROVE  SourceOk(Source!Stop(s))
<1> DEFINE raced == Source!Raced(s)
           r     == Source!Stopping(s)
<1>1. s \in Source!Members /\ SourceTyped(s)
  BY SourceType DEF SourceOk
<1>2. s.main \in Source!Places /\ raced \in BOOLEAN /\ (~raced => s.main = "idle")
  BY <1>1 DEF SourceTyped, Source!Raced
<1>3. r.main = s.main /\ DOMAIN r = DOMAIN s
  BY <1>1 DEF Source!Members, Source!Stopping
<1> HIDE DEF raced, r
<1>4. [r EXCEPT !.running = FALSE, !.raced = raced] =
        [r EXCEPT !.running = FALSE, !.raced = raced, !.main = s.main]
  BY <1>1, <1>3 DEF Source!Members
<1>5. SourceOk([r EXCEPT !.running = FALSE, !.raced = raced, !.main = s.main])
  BY <1>2, SourceStopping DEF r
<1> QED
  BY <1>4, <1>5 DEF Source!Stop, r, raced

\* The main loop's lines.
LEMMA SourceMain ==
    ASSUME SourceOk(state),
           \/ Source!StopBegins \/ Source!StartBegins \/ Source!StopEnds
           \/ Source!StartEnds \/ Source!WriteRunning
    PROVE  SourceOk(state')
<1>1. /\ state \in Source!Members /\ SourceTyped(state)
      /\ SourceAgrees(state) /\ TempoHeld(state) /\ LoopCounted(state)
  BY SourceType DEF SourceOk
<1>2. state.running \in BOOLEAN /\ state.raced \in BOOLEAN /\ state.main \in Source!Places
  BY <1>1 DEF SourceTyped
\* A line that only writes running_, or nothing.
<1>3. ASSUME NEW running \in BOOLEAN, NEW place, NEW next \in Source!Places,
             Source!At(place, [state EXCEPT !.running = running], next),
             \/ place = "idle" /\ next = "kept" /\ state.running /\ running = TRUE
             \/ place = "idle" /\ next = "stopped" /\ ~state.running /\ running = FALSE
             \/ place = "stopping" /\ next = "stopped"
             \/ place = "starting" /\ next = "kept"
             \/ place = "kept" /\ next = "idle" /\ running = TRUE
             \/ place = "stopped" /\ next = "idle" /\ running = FALSE
      PROVE  SourceOk(state')
  <2>1. state' = [[state EXCEPT !.running = running] EXCEPT !.main = next] /\ state.main = place
    BY <1>3 DEF Source!At
  <2>2. /\ Shaped(state', state) /\ state'.variant = state.variant /\ state'.bpm = state.bpm
        /\ state'.tenth = state.tenth
        /\ state'.send_start = state.send_start /\ state'.num_taps = state.num_taps
        /\ state'.num_ticks = state.num_ticks /\ state'.clock_running = state.clock_running
        /\ state'.told = state.told /\ state'.restarted = state.restarted
        /\ state'.since = state.since /\ state'.shifted = state.shifted
        /\ state'.running = running /\ state'.raced = state.raced /\ state'.main = next
    BY <1>1, <2>1 DEF Shaped, Source!Members
  <2>3. SourceTyped(state')
    BY <1>1, <2>2 DEF SourceTyped
  <2>4. SourceAgrees(state')
    BY <1>1, <1>3, <2>1, <2>2 DEF SourceAgrees, SourceGoes
  <2>5. TempoHeld(state') /\ LoopCounted(state')
    BY <1>1, <2>2 DEF TempoHeld, LoopCounted
  <2>6. state' \in Source!Members
    BY <1>1, <2>2, <2>3, SourceType
  <2> QED
    BY <2>4, <2>5, <2>6 DEF SourceOk
<1>4. ASSUME NEW place, NEW next, Source!At(place, state, next)
      PROVE  Source!At(place, [state EXCEPT !.running = state.running], next)
  <2>1. [state EXCEPT !.running = state.running] = state
    BY <1>1 DEF Source!Members
  <2> QED
    BY <1>4, <2>1
<1>5. {"idle", "stopping", "stopped", "starting", "kept"} = Source!Places
  BY DEF Source!Places
<1>6. CASE Source!StopBegins
  <2>1. CASE state.running
    <3> DEFINE r == Source!Stopping(state)
    <3>1. state' = [r EXCEPT !.main = "stopping"]
      BY <1>6, <2>1 DEF Source!StopBegins, Source!At
    <3>2. r.running = state.running /\ r.raced = state.raced /\ DOMAIN r = DOMAIN state
      BY <1>1 DEF Source!Members, Source!Stopping
    <3>3. SourceOk([r EXCEPT !.running = state.running, !.raced = state.raced, !.main = "stopping"])
      BY <1>2, <1>5, SourceStopping
    <3> HIDE DEF r
    <3>4. state' = [r EXCEPT !.running = state.running, !.raced = state.raced, !.main = "stopping"]
      BY <1>1, <3>1, <3>2 DEF Source!Members
    <3> QED
      BY <3>3, <3>4
  <2>2. CASE ~state.running
    <3>1. Source!At("idle", state, "stopped")
      BY <1>6, <2>2 DEF Source!StopBegins
    <3>2. state.running = FALSE
      BY <1>2, <2>2
    <3> QED
      BY <1>2, <1>3, <1>4, <1>5, <2>2, <3>1, <3>2
  <2> QED
    BY <2>1, <2>2
<1>7. CASE Source!StartBegins
  <2>1. CASE ~state.running
    <3> DEFINE r == Source!Starting(state)
    <3>1. state' = [r EXCEPT !.main = "starting"]
      BY <1>7, <2>1 DEF Source!StartBegins, Source!At
    <3>2. r.running = state.running /\ r.raced = state.raced /\ DOMAIN r = DOMAIN state
      BY <1>1 DEF Source!Members, Source!Starting, Source!Reset
    <3>3. SourceOk([r EXCEPT !.running = state.running, !.raced = state.raced, !.main = "starting"])
      BY <1>2, <1>5, SourceStarting
    <3> HIDE DEF r
    <3>4. state' = [r EXCEPT !.running = state.running, !.raced = state.raced, !.main = "starting"]
      BY <1>1, <3>1, <3>2 DEF Source!Members
    <3> QED
      BY <3>3, <3>4
  <2>2. CASE state.running
    <3>1. Source!At("idle", state, "kept")
      BY <1>7, <2>2 DEF Source!StartBegins
    <3>2. state.running = TRUE
      BY <1>2, <2>2
    <3> QED
      BY <1>2, <1>3, <1>4, <1>5, <2>2, <3>1, <3>2
  <2> QED
    BY <2>1, <2>2
<1>8. CASE Source!StopEnds
  BY <1>3, <1>5, <1>8 DEF Source!StopEnds
<1>9. CASE Source!StartEnds
  BY <1>3, <1>5, <1>9 DEF Source!StartEnds
<1>10. CASE Source!WriteRunning
  BY <1>3, <1>5, <1>10 DEF Source!WriteRunning
<1> QED
  BY <1>6, <1>7, <1>8, <1>9, <1>10

LEMMA SourceNext == SourceOk(state) /\ Source!Next => SourceOk(state')
<1> SUFFICES ASSUME SourceOk(state), Source!Next PROVE SourceOk(state')
  OBVIOUS
<1>1. state \in Source!Members /\ SourceTyped(state)
      /\ SourceAgrees(state) /\ TempoHeld(state) /\ LoopCounted(state)
  BY SourceType DEF SourceOk
<1>2. SourceParams.LoopTicks \in 1 .. 255 /\ SourceParams.LoopTicks \in Nat
  BY SourceAssumption
<1>3. CASE Source!StartMessage
  <2> DEFINE s == Source!Start(state)
  <2>1. SourceOk(s) /\ s \in Source!Members /\ SourceTyped(s)
    BY SourceStart, SourceType DEF SourceOk
  <2>2. CASE s.variant = "LIVE"
    <3>1. state' = [s EXCEPT !.num_ticks = 0, !.shifted = s.since # 0]
      BY <1>3, <2>2 DEF Source!StartMessage
    <3> HIDE DEF s
    <3>2. Shaped(state', s)
      BY <2>1, <3>1 DEF Source!Members, Shaped
    <3>3. SourceTyped(state')
      BY <2>1, <3>1 DEF Source!Members, SourceTyped
    <3>4. SourceAgrees(state') /\ TempoHeld(state')
      BY <2>1, <3>1 DEF Source!Members, SourceOk, SourceAgrees, SourceGoes, TempoHeld
    <3>5. LoopCounted(state')
      <4>1. state'.num_ticks = 0 /\ state'.since = s.since /\ (~state'.shifted => s.since = 0)
        BY <2>1, <3>1 DEF Source!Members
      <4> QED
        BY <1>2, <4>1 DEF LoopCounted
    <3> QED
      BY <2>1, <3>2, <3>3, <3>4, <3>5, SourceType DEF SourceOk
  <2>3. CASE s.variant # "LIVE"
    BY <1>3, <2>1, <2>3 DEF Source!StartMessage
  <2> QED
    BY <2>2, <2>3
<1>4. CASE Source!ContinueMessage
  BY <1>4, SourceStart DEF Source!ContinueMessage
<1>5. CASE Source!StopMessage
  BY <1>5, SourceStop DEF Source!StopMessage
<1>6. ASSUME NEW on \in BOOLEAN, Source!SetRunning(on)
      PROVE  SourceOk(state')
  BY <1>6, SourceStart, SourceStop DEF Source!SetRunning
<1>7. ASSUME NEW bpm \in SourceParams.Tempos, NEW turned \in BOOLEAN,
             Source!SetTempo(bpm, turned)
      PROVE  SourceOk(state')
  <2> USE DEF Source!SetTempo, Source!Members
  <2>1. Shaped(state', state)
    BY <1>1, <1>7 DEF Shaped
  <2>2. SourceTyped(state')
    BY <1>1, <1>2, SourceAssumption, <1>7 DEF SourceTyped
  <2>3. SourceAgrees(state')
    BY <1>1, <1>2, SourceAssumption, <1>7 DEF SourceAgrees, SourceGoes, SourceTyped
  <2>4. TempoHeld(state')
    BY <1>1, <1>2, SourceAssumption, <1>7 DEF TempoHeld, SourceTyped
  <2>5. LoopCounted(state')
    BY <1>1, <1>2, SourceAssumption, <1>7 DEF LoopCounted, SourceTyped
  <2> QED
    BY <2>1, <2>2, <2>3, <2>4, <2>5, <1>1, SourceType DEF SourceOk
<1>8. ASSUME NEW increment \in {-1, 1}, Source!Turn(increment)
      PROVE  SourceOk(state')
  <2> DEFINE tempo == 10 * state.bpm + state.tenth + increment
             held  == IF tempo < 400 THEN 400 ELSE IF tempo \div 10 = 240 THEN 2400 ELSE tempo
             bpm   == held \div 10
             tenth == held % 10
  <2>0. state.variant = "HD" /\ TempoHeld(state)
    BY <1>1, <1>8 DEF Source!Turn
  <2>1. state' = [state EXCEPT !.bpm = bpm, !.tenth = tenth, !.num_taps = 0]
    BY <1>1, <1>8 DEF Source!Turn, Source!Turned, Source!Members
  <2>2. state.bpm \in 40 .. 240 /\ state.tenth \in 0 .. 9 /\ (state.bpm >= 240 => state.tenth = 0)
    BY <2>0 DEF TempoHeld
  <2>3. tempo \in 399 .. 2401
    <3> DEFINE b == state.bpm
               t == state.tenth
    <3>1. increment = -1 \/ increment = 1
      OBVIOUS
    <3>2. b \in 40 .. 240 /\ t \in 0 .. 9 /\ (b >= 240 => t = 0)
      BY <2>2
    <3>4. tempo = 10 * b + t + increment
      OBVIOUS
    <3> HIDE DEF b, t, tempo
    <3>3. 10 * b + t + increment \in 399 .. 2401
      <4> DEFINE u == 10 * b + t
      <4>1. u \in 400 .. 2400
        BY <3>2
      <4> HIDE DEF u
      <4>2. u + increment \in 399 .. 2401
        BY <3>1, <4>1
      <4> QED
        BY <4>2 DEF u
    <3> QED
      BY <3>3, <3>4
  <2> HIDE DEF tempo
  <2>4. held \in 400 .. 2400
    BY <2>3
  <2> HIDE DEF held
  <2>5. bpm \in 40 .. 240 /\ tenth \in 0 .. 9 /\ (bpm >= 240 => tenth = 0)
    BY <2>4
  <2> HIDE DEF bpm, tenth
  <2>6. Shaped(state', state)
    BY <1>1, <2>1 DEF Source!Members, Shaped
  <2>7. SourceTyped(state')
    BY <1>1, <2>1, <2>5 DEF Source!Members, SourceTyped
  <2>8. SourceAgrees(state')
    BY <1>1, <2>1 DEF Source!Members, SourceAgrees, SourceGoes
  <2>9. TempoHeld(state')
    BY <1>1, <2>0, <2>1, <2>5 DEF Source!Members, TempoHeld
  <2>10. LoopCounted(state')
    BY <1>1, <2>1 DEF Source!Members, LoopCounted
  <2> QED
    BY <1>1, <2>6, <2>7, <2>8, <2>9, <2>10, SourceType DEF SourceOk
<1>9. CASE Source!ClearTenth
  <2> USE DEF Source!ClearTenth, Source!Members
  <2>1. Shaped(state', state)
    BY <1>1, <1>9 DEF Shaped
  <2>2. SourceTyped(state')
    BY <1>1, <1>2, SourceAssumption, <1>9 DEF SourceTyped
  <2>3. SourceAgrees(state')
    BY <1>1, <1>2, SourceAssumption, <1>9 DEF SourceAgrees, SourceGoes, SourceTyped
  <2>4. TempoHeld(state')
    BY <1>1, <1>2, SourceAssumption, <1>9 DEF TempoHeld, SourceTyped
  <2>5. LoopCounted(state')
    BY <1>1, <1>2, SourceAssumption, <1>9 DEF LoopCounted, SourceTyped
  <2> QED
    BY <2>1, <2>2, <2>3, <2>4, <2>5, <1>1, SourceType DEF SourceOk
<1>10. ASSUME NEW bpm \in SourceParams.Tempos, NEW in_time \in BOOLEAN,
             Source!Tap(bpm, in_time)
      PROVE  SourceOk(state')
  <2> USE DEF Source!Reset, Source!Tap, Source!Members
  <2>1. Shaped(state', state)
    BY <1>1, <1>10 DEF Shaped
  <2>2. SourceTyped(state')
    BY <1>1, <1>2, SourceAssumption, <1>10 DEF SourceTyped
  <2>3. SourceAgrees(state')
    BY <1>1, <1>2, SourceAssumption, <1>10 DEF SourceAgrees, SourceGoes, SourceTyped
  <2>4. TempoHeld(state')
    BY <1>1, <1>2, SourceAssumption, <1>10 DEF TempoHeld, SourceTyped
  <2>5. LoopCounted(state')
    BY <1>1, <1>2, SourceAssumption, <1>10 DEF LoopCounted, SourceTyped
  <2> QED
    BY <2>1, <2>2, <2>3, <2>4, <2>5, <1>1, SourceType DEF SourceOk
<1>11. ASSUME NEW bpm \in SourceParams.LoopTempos, Source!ClockByte(bpm)
       PROVE  SourceOk(state')
  <2> DEFINE loops == state.num_ticks + 1 = SourceParams.LoopTicks
             after == (state.since + 1) % SourceParams.LoopTicks
  <2>1. SourceParams.LoopTicks \in Nat \ {0} /\ state.since \in 0 .. SourceParams.LoopTicks - 1
        /\ bpm \in 10 .. 255
    BY <1>1, <1>2, SourceAssumption DEF SourceTyped
  <2>2. after = IF state.since + 1 = SourceParams.LoopTicks THEN 0 ELSE state.since + 1
    BY <2>1, RemainderUp, Zenon
  <2>3. /\ state.variant = "LIVE"
        /\ state' = [state EXCEPT !.num_ticks = IF loops THEN 0 ELSE @ + 1,
                                  !.since     = IF loops THEN 0 ELSE after,
                                  !.shifted   = @ /\ ~loops,
                                  !.bpm       = IF loops THEN bpm ELSE @]
    BY <1>11 DEF Source!ClockByte
  <2> HIDE DEF after
  <2>4. Shaped(state', state)
    BY <1>1, <2>3 DEF Source!Members, Shaped
  <2>5. SourceTyped(state')
    BY <1>1, <1>2, <2>1, <2>2, <2>3 DEF Source!Members, SourceTyped, LoopCounted
  <2>6. SourceAgrees(state')
    BY <1>1, <2>3 DEF Source!Members, SourceAgrees, SourceGoes
  <2>7. TempoHeld(state')
    BY <1>1, <2>1, <2>3 DEF Source!Members, TempoHeld
  <2>8. LoopCounted(state')
    <3>1. /\ state'.num_ticks = (IF loops THEN 0 ELSE state.num_ticks + 1)
          /\ state'.since = (IF loops THEN 0 ELSE after)
          /\ ~state'.shifted /\ ~loops => ~state.shifted
      BY <1>1, <2>3 DEF Source!Members
    <3>2. state.num_ticks \in 0 .. SourceParams.LoopTicks - 1 /\ (~state.shifted => state.num_ticks = state.since)
      <4>1. state.variant = "LIVE"
        BY <2>3
      <4>2. state.num_ticks \in Nat /\ LoopCounted(state)
        BY <1>1 DEF SourceTyped
      <4> QED
        BY <1>2, <4>1, <4>2 DEF LoopCounted
    <3>3. CASE loops
      <4>1. state'.num_ticks = 0 /\ state'.since = 0
        BY <3>1, <3>3
      <4> QED
        BY <1>2, <4>1 DEF LoopCounted
    <3>4. CASE ~loops
      <4>1. state.num_ticks + 1 < SourceParams.LoopTicks
        BY <1>2, <3>2, <3>4
      <4>2. ~state'.shifted => after = state.num_ticks + 1
        BY <1>2, <2>2, <3>1, <3>2, <3>4, <4>1
      <4> QED
        BY <3>1, <3>4, <4>1, <4>2 DEF LoopCounted
    <3> QED
      BY <3>3, <3>4
  <2> QED
    BY <1>1, <2>4, <2>5, <2>6, <2>7, <2>8, SourceType DEF SourceOk
<1>12. CASE Source!RatioKey
  <2> USE DEF Source!RatioKey, Source!Members
  <2>1. Shaped(state', state)
    BY <1>1, <1>12 DEF Shaped
  <2>2. SourceTyped(state')
    BY <1>1, <1>2, SourceAssumption, <1>12 DEF SourceTyped
  <2>3. SourceAgrees(state')
    BY <1>1, <1>2, SourceAssumption, <1>12 DEF SourceAgrees, SourceGoes, SourceTyped
  <2>4. TempoHeld(state')
    BY <1>1, <1>2, SourceAssumption, <1>12 DEF TempoHeld, SourceTyped
  <2>5. LoopCounted(state')
    BY <1>1, <1>2, SourceAssumption, <1>12 DEF LoopCounted, SourceTyped
  <2> QED
    BY <2>1, <2>2, <2>3, <2>4, <2>5, <1>1, SourceType DEF SourceOk
<1>13. CASE \/ Source!StopBegins \/ Source!StartBegins \/ Source!StopEnds
            \/ Source!StartEnds \/ Source!WriteRunning
  BY <1>13, SourceMain
<1> QED
  BY <1>3, <1>4, <1>5, <1>6, <1>7, <1>8, <1>9, <1>10, <1>11, <1>12, <1>13 DEF Source!Next

-----------------------------------------------------------------------------
(* The BPM meter.                                                          *)

MeterFields ==
    {"num_ticks", "clock", "value", "active_page", "refresh_bpm", "step", "num", "elapsed",
     "span", "moved", "torn"}

\* The time since the reset is that since the first clock: a clock that comes in the
\* middle of a reset is the one that parts them.
MeterOk(s) ==
    /\ DOMAIN s = MeterFields
    /\ s.num_ticks \in Nat /\ s.moved \in BOOLEAN /\ s.torn \in BOOLEAN
    /\ s.num_ticks > 0 /\ ~s.moved =>
         s.clock = s.span /\ s.value = s.elapsed /\ s.step \notin {"clock", "value"}
    /\ s.step = "den" /\ ~s.torn => s.num = s.num_ticks

LEMMA MeterInit == Meter!Init => MeterOk(state)
  BY DEF Meter!Init, MeterOk, MeterFields

LEMMA MeterNext == MeterOk(state) /\ Meter!Next => MeterOk(state')
<1> SUFFICES ASSUME MeterOk(state), Meter!Next PROVE MeterOk(state')
  OBVIOUS
<1> USE DEF MeterFields
<1>1. CASE Meter!Timer
  BY <1>1 DEF Meter!Timer, MeterOk
<1>2. CASE Meter!Clock
  <2>1. /\ DOMAIN state' = MeterFields
        /\ state'.value = IF state.num_ticks = 0 THEN 0 ELSE state.value
        /\ state'.clock = state'.value
        /\ state'.elapsed = IF state.num_ticks = 0 THEN 0 ELSE state.elapsed
        /\ state'.span = state'.elapsed
        /\ state'.num_ticks = state.num_ticks + 1
        /\ state'.moved = (state.moved \/ state.step \in {"clock", "value"})
        /\ state'.torn = (state.torn \/ state.step = "den") /\ state'.step = state.step
    BY <1>2 DEF Meter!Clock, MeterOk
  <2>2. state'.num_ticks \in Nat /\ (state.num_ticks # 0 => state.num_ticks > 0)
    BY <2>1 DEF MeterOk
  <2> QED
    BY <2>1, <2>2 DEF MeterOk
<1>3. CASE Meter!Message
  <2>1. /\ DOMAIN state' = MeterFields /\ state'.num_ticks = 0 /\ state'.moved = FALSE
        /\ state'.torn = (state.torn \/ state.step = "den") /\ state'.step = state.step
    BY <1>3 DEF Meter!Message, MeterOk
  <2>2. state'.num_ticks \in Nat /\ ~(state'.num_ticks > 0)
    BY <2>1
  <2>3. state'.moved \in BOOLEAN /\ state'.torn \in BOOLEAN
    BY <2>1, Zenon
  <2> QED
    BY <2>1, <2>2, <2>3 DEF MeterOk
<1>4. CASE Meter!Redraw
  BY <1>4 DEF Meter!Redraw, MeterOk
<1>5. CASE Meter!Printed
  <2>1. CASE state.active_page # 0
    BY <1>5, <2>1 DEF Meter!Printed, MeterOk
  <2>2. CASE state.active_page = 0
    <3>1. /\ DOMAIN state' = MeterFields /\ state'.num_ticks = 0 /\ state'.moved = FALSE
          /\ state'.torn = state.torn /\ state'.step = "clock"
      BY <1>5, <2>2 DEF Meter!Printed, MeterOk
    <3>2. state'.num_ticks \in Nat /\ ~(state'.num_ticks > 0)
      BY <3>1
    <3>3. state'.moved \in BOOLEAN /\ state'.torn \in BOOLEAN
      BY <3>1, Zenon DEF MeterOk
    <3> QED
      BY <3>1, <3>2, <3>3 DEF MeterOk
  <2> QED
    BY <2>1, <2>2
<1>6. CASE Meter!Redrawn
  BY <1>6 DEF Meter!Redrawn, MeterOk
<1>7. CASE Meter!Click
  BY <1>7 DEF Meter!Click, MeterOk
<1>8. CASE Meter!ResetClock
  BY <1>8 DEF Meter!ResetClock, MeterOk
<1>9. CASE Meter!ResetValue
  BY <1>9 DEF Meter!ResetValue, MeterOk
<1>10. ASSUME NEW page, Meter!Turn(page) PROVE MeterOk(state')
  BY <1>10 DEF Meter!Turn, MeterOk
<1> QED
  BY <1>1, <1>2, <1>3, <1>4, <1>5, <1>6, <1>7, <1>8, <1>9, <1>10 DEF Meter!Next

-----------------------------------------------------------------------------
(* The drum pattern generator.                                             *)

DrumFields ==
    {"running", "mode", "clk_mode", "instrument", "tick", "idle_ticks", "active", "unmuted",
     "sounding", "cut", "told", "switched", "raced"}

\* While a part that is not muted plays, the bar of silence is counted from the last
\* step or key: it cannot end at a step that strikes.
DrumCounts(s) ==
    s.clk_mode = "INTERNAL" =>
      /\ ~s.raced => (s.told <=> s.running)
      /\ ~s.raced /\ ~s.running => s.idle_ticks >= DrumParams.IdleTicks
      /\ s.running /\ s.unmuted[s.mode] # {} => s.idle_ticks <= s.tick

\* A drum that sounds is that of an active part, also where the generator stops, or its
\* part was given another.
DrumOk(s) ==
    /\ DOMAIN s = DrumFields /\ s.tick \in 0 .. 5 /\ s.tick \in Nat /\ s.idle_ticks \in Nat
    /\ s.running \in BOOLEAN /\ s.told \in BOOLEAN /\ s.switched \in BOOLEAN
    /\ s.active \subseteq DrumParams.Part
    /\ s.sounding \subseteq Drum!Active(s) \cup s.cut
    /\ ~s.switched => DrumCounts(s) /\ (~s.running => s.sounding \subseteq s.cut)

\* t has the parts and what sounds as s has them.
DrumSounds(t, s) ==
    /\ t.instrument = s.instrument /\ t.active = s.active /\ t.sounding = s.sounding
    /\ t.cut = s.cut

LEMMA DrumSoundsActive ==
    ASSUME NEW s, NEW t, DrumSounds(t, s)
    PROVE  Drum!Active(t) = Drum!Active(s)
  BY DEF DrumSounds, Drum!Active, Drum!Drums

\* The drums of some parts are released.
LEMMA DrumPartsOff ==
    ASSUME NEW s, DOMAIN s = DrumFields, s.sounding \subseteq Drum!Active(s) \cup s.cut, NEW parts
    PROVE  LET t == Drum!PartsOff(s, parts)
           IN  /\ DOMAIN t = DrumFields
               /\ t.running = s.running /\ t.mode = s.mode /\ t.clk_mode = s.clk_mode
               /\ t.tick = s.tick /\ t.idle_ticks = s.idle_ticks /\ t.unmuted = s.unmuted
               /\ t.told = s.told /\ t.switched = s.switched /\ t.raced = s.raced
               /\ t.instrument = s.instrument /\ t.active = s.active \ parts
               /\ t.sounding \subseteq Drum!Active(t) \cup t.cut
               /\ s.sounding \subseteq s.cut => t.sounding \subseteq t.cut
<1> DEFINE t == Drum!PartsOff(s, parts)
           drums == Drum!Drums(s, s.active \cap parts)
<1>1. /\ DOMAIN t = DrumFields
      /\ t.running = s.running /\ t.mode = s.mode /\ t.clk_mode = s.clk_mode
      /\ t.tick = s.tick /\ t.idle_ticks = s.idle_ticks /\ t.unmuted = s.unmuted
      /\ t.told = s.told /\ t.switched = s.switched /\ t.raced = s.raced
      /\ t.instrument = s.instrument /\ t.active = s.active \ parts
      /\ t.sounding = s.sounding \ drums /\ t.cut = s.cut \ drums
  BY DEF Drum!PartsOff, DrumFields
<1> HIDE DEF t
<1>2. Drum!Active(s) \subseteq drums \cup Drum!Active(t)
  BY <1>1 DEF Drum!Active, Drum!Drums
<1> HIDE DEF drums
<1>3. t.sounding \subseteq Drum!Active(t) \cup t.cut
  BY <1>1, <1>2
<1>4. s.sounding \subseteq s.cut => t.sounding \subseteq t.cut
  BY <1>1
<1> QED
  BY <1>1, <1>3, <1>4 DEF t

LEMMA DrumOff ==
    ASSUME NEW s, DOMAIN s = DrumFields, s.sounding \subseteq Drum!Active(s) \cup s.cut,
           s.active \subseteq DrumParams.Part
    PROVE  LET t == Drum!AllNotesOff(s)
           IN  /\ DOMAIN t = DrumFields
               /\ t.running = s.running /\ t.mode = s.mode /\ t.clk_mode = s.clk_mode
               /\ t.tick = s.tick /\ t.idle_ticks = s.idle_ticks /\ t.unmuted = s.unmuted
               /\ t.told = s.told /\ t.switched = s.switched /\ t.raced = s.raced
               /\ t.instrument = s.instrument
               /\ t.sounding \subseteq t.cut /\ t.active = {}
<1> DEFINE t == Drum!AllNotesOff(s)
<1>1. t = Drum!PartsOff(s, DrumParams.Part)
  BY DEF Drum!AllNotesOff
<1> HIDE DEF t
<1>2. /\ DOMAIN t = DrumFields
      /\ t.running = s.running /\ t.mode = s.mode /\ t.clk_mode = s.clk_mode
      /\ t.tick = s.tick /\ t.idle_ticks = s.idle_ticks /\ t.unmuted = s.unmuted
      /\ t.told = s.told /\ t.switched = s.switched /\ t.raced = s.raced
      /\ t.instrument = s.instrument /\ t.active = s.active \ DrumParams.Part
      /\ t.sounding \subseteq Drum!Active(t) \cup t.cut
  BY <1>1, DrumPartsOff
<1>3. t.active = {}
  BY <1>2
<1>4. Drum!Active(t) = {}
  BY <1>3 DEF Drum!Active, Drum!Drums
<1>5. t.sounding \subseteq t.cut
  BY <1>2, <1>4
<1> QED
  BY <1>2, <1>3, <1>5 DEF t

LEMMA DrumInit == Drum!Init => DrumOk(state)
  BY DrumAssumption DEF Drum!Init, DrumOk, DrumFields, DrumCounts, Drum!Active, Drum!Drums

\* The tick before its step: the bar of silence may end.
LEMMA DrumIdled ==
    ASSUME NEW s, DrumOk(s), s.running
    PROVE  LET t == Drum!Idled(s)
           IN  /\ DOMAIN t = DrumFields /\ t.idle_ticks \in Nat
               /\ t.running \in BOOLEAN /\ t.told \in BOOLEAN
               /\ t.mode = s.mode /\ t.clk_mode = s.clk_mode /\ t.tick = s.tick
               /\ t.unmuted = s.unmuted /\ t.switched = s.switched /\ t.raced = s.raced
               /\ t.active \subseteq DrumParams.Part /\ t.instrument = s.instrument
               /\ t.sounding \subseteq Drum!Active(t) \cup t.cut
               /\ ~t.running => t.sounding \subseteq t.cut
               /\ ~s.switched /\ s.clk_mode = "INTERNAL" =>
                    /\ ~s.raced => (t.told <=> t.running)
                    /\ ~t.running => t.idle_ticks >= DrumParams.IdleTicks
                    /\ s.unmuted[s.mode] # {} => t.running /\ t.idle_ticks <= s.tick + 1
<1> DEFINE t == Drum!Idled(s)
           off == Drum!AllNotesOff(s)
<1> USE DrumAssumption
<1>1. DOMAIN s = DrumFields /\ s.sounding \subseteq Drum!Active(s) \cup s.cut
      /\ s.idle_ticks \in Nat /\ s.tick \in 0 .. 5 /\ s.tick \in Nat /\ s.told \in BOOLEAN
      /\ s.active \subseteq DrumParams.Part
  BY DEF DrumOk
<1>2. CASE s.idle_ticks + 1 < DrumParams.IdleTicks
  <2>1. t = [s EXCEPT !.idle_ticks = @ + 1]
    BY <1>2 DEF Drum!Idled
  <2> HIDE DEF t
  <2>2. /\ DOMAIN t = DrumFields /\ t.idle_ticks = s.idle_ticks + 1 /\ t.running = TRUE
        /\ t.told = s.told /\ t.mode = s.mode /\ t.clk_mode = s.clk_mode /\ t.tick = s.tick
        /\ t.unmuted = s.unmuted /\ t.switched = s.switched /\ t.raced = s.raced
        /\ DrumSounds(t, s)
    BY <1>1, <2>1 DEF DrumOk, DrumFields, DrumSounds
  <2>3. t.sounding \subseteq Drum!Active(t) \cup t.cut
    BY <1>1, <2>2, DrumSoundsActive DEF DrumSounds
  <2>4. t.running
    BY <2>2
  <2> QED
    BY <1>1, <2>2, <2>3, <2>4 DEF DrumOk, DrumCounts, DrumSounds, t
<1>3. CASE ~(s.idle_ticks + 1 < DrumParams.IdleTicks) /\ s.clk_mode = "INTERNAL"
  <2>1. t = [off EXCEPT !.running = FALSE, !.told = FALSE, !.idle_ticks = DrumParams.IdleTicks]
    BY <1>3 DEF Drum!Idled
  <2>2. /\ DOMAIN off = DrumFields /\ off.mode = s.mode /\ off.clk_mode = s.clk_mode
        /\ off.tick = s.tick /\ off.unmuted = s.unmuted /\ off.switched = s.switched
        /\ off.raced = s.raced /\ off.instrument = s.instrument
        /\ off.sounding \subseteq off.cut /\ off.active = {}
    BY <1>1, DrumOff
  <2> HIDE DEF t, off
  <2>3. /\ DOMAIN t = DrumFields /\ t.idle_ticks = DrumParams.IdleTicks /\ t.running = FALSE
        /\ t.told = FALSE /\ t.mode = s.mode /\ t.clk_mode = s.clk_mode /\ t.tick = s.tick
        /\ t.unmuted = s.unmuted /\ t.switched = s.switched /\ t.raced = s.raced
        /\ t.instrument = s.instrument
        /\ t.sounding \subseteq t.cut /\ t.active \subseteq DrumParams.Part
    BY <2>1, <2>2 DEF DrumFields
  <2>4. ~s.switched => s.unmuted[s.mode] = {}
    BY <1>1, <1>3 DEF DrumOk, DrumCounts
  <2>5. t.idle_ticks \in Nat /\ t.idle_ticks >= DrumParams.IdleTicks
    <3>1. t.idle_ticks = DrumParams.IdleTicks
      BY <2>3
    <3> HIDE DEF t
    <3> QED
      BY <3>1
  <2>7. t.running \in BOOLEAN /\ t.told \in BOOLEAN /\ (t.told <=> t.running)
    BY <2>3, Zenon
  <2>6. t.sounding \subseteq Drum!Active(t) \cup t.cut
    BY <2>3
  <2> QED
    BY <2>3, <2>4, <2>5, <2>6, <2>7 DEF t
<1>4. CASE ~(s.idle_ticks + 1 < DrumParams.IdleTicks) /\ s.clk_mode # "INTERNAL"
  <2>1. t = [s EXCEPT !.idle_ticks = DrumParams.IdleTicks]
    BY <1>4 DEF Drum!Idled
  <2> HIDE DEF t
  <2>2. /\ DOMAIN t = DrumFields /\ t.idle_ticks = DrumParams.IdleTicks /\ t.running = TRUE
        /\ t.told = s.told /\ t.mode = s.mode /\ t.clk_mode = s.clk_mode /\ t.tick = s.tick
        /\ t.unmuted = s.unmuted /\ t.switched = s.switched /\ t.raced = s.raced
        /\ DrumSounds(t, s)
    BY <1>1, <2>1 DEF DrumOk, DrumFields, DrumSounds
  <2>3. t.sounding \subseteq Drum!Active(t) \cup t.cut
    BY <1>1, <2>2, DrumSoundsActive DEF DrumSounds
  <2>4. t.running
    BY <2>2
  <2> QED
    BY <1>1, <1>4, <2>2, <2>3, <2>4 DEF DrumSounds, t
<1> QED
  BY <1>2, <1>3, <1>4

LEMMA DrumTick ==
    ASSUME NEW s, DrumOk(s), s.running, NEW strikes \in SUBSET DrumParams.Part
    PROVE  DrumOk(Drum!Tick(s, strikes))
<1> DEFINE idled   == Drum!Idled(s)
           unmuted == s.unmuted[s.mode]
           drums   == Drum!Drums(idled, strikes \cap unmuted)
           struck  == Drum!Triggered(idled, strikes \cap unmuted)
           step    == [struck EXCEPT !.tick = 0, !.idle_ticks = IF unmuted # {} THEN 0 ELSE @]
           off     == Drum!AllNotesOff(idled)
           release == [off EXCEPT !.tick = @ + 1]
           pass    == [idled EXCEPT !.tick = @ + 1]
<1>1. /\ DOMAIN idled = DrumFields /\ idled.idle_ticks \in Nat
      /\ idled.running \in BOOLEAN /\ idled.told \in BOOLEAN
      /\ idled.mode = s.mode /\ idled.clk_mode = s.clk_mode /\ idled.tick = s.tick
      /\ idled.unmuted = s.unmuted /\ idled.switched = s.switched /\ idled.raced = s.raced
      /\ idled.active \subseteq DrumParams.Part
      /\ idled.sounding \subseteq Drum!Active(idled) \cup idled.cut
      /\ ~idled.running => idled.sounding \subseteq idled.cut
      /\ ~s.switched /\ s.clk_mode = "INTERNAL" =>
           /\ ~s.raced => (idled.told <=> idled.running)
           /\ ~idled.running => idled.idle_ticks >= DrumParams.IdleTicks
           /\ s.unmuted[s.mode] # {} => idled.running /\ idled.idle_ticks <= s.tick + 1
  BY DrumIdled
<1>2. s.tick \in 0 .. 5 /\ s.tick \in Nat /\ s.switched \in BOOLEAN
  BY DEF DrumOk
<1> HIDE DEF idled
<1>3. CASE s.tick + 1 = 6
  <2>1. /\ DOMAIN struck = DrumFields
        /\ struck.running = idled.running /\ struck.told = idled.told
        /\ struck.mode = s.mode /\ struck.clk_mode = s.clk_mode
        /\ struck.idle_ticks = idled.idle_ticks
        /\ struck.unmuted = s.unmuted /\ struck.switched = s.switched
        /\ struck.raced = s.raced
        /\ struck.cut = idled.cut /\ struck.instrument = idled.instrument
        /\ struck.active = idled.active \cup (strikes \cap unmuted)
        /\ struck.sounding = idled.sounding \cup drums
    BY <1>1 DEF Drum!Triggered, DrumFields
  <2> HIDE DEF struck
  <2>2. /\ DOMAIN step = DrumFields /\ step.tick = 0
        /\ step.idle_ticks = IF unmuted # {} THEN 0 ELSE idled.idle_ticks
        /\ step.running = idled.running /\ step.told = idled.told
        /\ step.mode = s.mode /\ step.clk_mode = s.clk_mode
        /\ step.unmuted = s.unmuted /\ step.switched = s.switched
        /\ step.raced = s.raced
        /\ step.cut = idled.cut /\ step.instrument = idled.instrument
        /\ step.active = idled.active \cup (strikes \cap unmuted)
        /\ step.sounding = idled.sounding \cup drums
    BY <2>1 DEF DrumFields
  <2>3. Drum!Tick(s, strikes) = step
    BY <1>2, <1>3 DEF Drum!Tick, Drum!kTicksPerStep, Drum!kTickOff, idled, struck
  <2> HIDE DEF step
  <2>4. Drum!Active(step) = Drum!Active(idled) \cup drums
    BY <2>2 DEF Drum!Active, Drum!Drums
  <2>5. unmuted = {} => drums = {}
    BY DEF Drum!Drums
  <2>9. step.active \subseteq DrumParams.Part
    BY <1>1, <2>2
  <2> HIDE DEF drums
  <2>6. step.sounding \subseteq Drum!Active(step) \cup step.cut
    BY <1>1, <2>2, <2>4
  <2>7. ASSUME ~step.switched PROVE ~step.running => step.sounding \subseteq step.cut
    <3>1. CASE step.clk_mode = "INTERNAL"
      BY <1>1, <2>2, <2>5, <2>7, <3>1
    <3>2. CASE step.clk_mode # "INTERNAL"
      <4>1. step.running
        BY <2>2, <3>2 DEF Drum!Idled, idled, DrumOk, DrumFields
      <4> QED
        BY <4>1
    <3> QED
      BY <3>1, <3>2
  <2>8. ~step.switched => DrumCounts(step)
    BY <1>1, <2>2 DEF DrumCounts
  <2> QED
    BY <1>1, <1>2, <2>2, <2>3, <2>6, <2>7, <2>8, <2>9 DEF DrumOk
<1>4. CASE s.tick + 1 = 3
  <2>1. /\ DOMAIN off = DrumFields
        /\ off.running = idled.running /\ off.mode = s.mode /\ off.clk_mode = s.clk_mode
        /\ off.tick = s.tick /\ off.idle_ticks = idled.idle_ticks /\ off.unmuted = s.unmuted
        /\ off.told = idled.told /\ off.switched = s.switched /\ off.raced = s.raced
        /\ off.sounding \subseteq off.cut /\ off.active = {}
    BY <1>1, DrumOff
  <2> HIDE DEF off
  <2>2. /\ DOMAIN release = DrumFields /\ release.tick = s.tick + 1
        /\ release.running = idled.running /\ release.mode = s.mode
        /\ release.clk_mode = s.clk_mode
        /\ release.idle_ticks = idled.idle_ticks /\ release.unmuted = s.unmuted
        /\ release.told = idled.told /\ release.switched = s.switched /\ release.raced = s.raced
        /\ release.sounding \subseteq release.cut /\ release.active = {}
    BY <2>1 DEF DrumFields
  <2>3. Drum!Tick(s, strikes) = release
    BY <1>2, <1>4 DEF Drum!Tick, Drum!kTicksPerStep, Drum!kTickOff, idled, off
  <2> HIDE DEF release
  <2>4. ~release.switched => DrumCounts(release)
    BY <1>1, <2>2 DEF DrumCounts
  <2> QED
    BY <1>1, <1>2, <1>4, <2>2, <2>3, <2>4 DEF DrumOk
<1>5. CASE s.tick + 1 # 6 /\ s.tick + 1 # 3
  <2>2. /\ DOMAIN pass = DrumFields /\ pass.tick = s.tick + 1
        /\ pass.running = idled.running /\ pass.mode = s.mode /\ pass.clk_mode = s.clk_mode
        /\ pass.idle_ticks = idled.idle_ticks /\ pass.unmuted = s.unmuted
        /\ pass.told = idled.told /\ pass.switched = s.switched /\ pass.raced = s.raced
        /\ DrumSounds(pass, idled)
    BY <1>1 DEF DrumFields, DrumSounds
  <2>3. Drum!Tick(s, strikes) = pass
    BY <1>2, <1>5 DEF Drum!Tick, Drum!kTicksPerStep, Drum!kTickOff, idled
  <2> HIDE DEF pass
  <2>4. ~pass.switched => DrumCounts(pass)
    BY <1>1, <2>2 DEF DrumCounts
  <2>5. pass.sounding \subseteq Drum!Active(pass) \cup pass.cut
        /\ (~pass.running => pass.sounding \subseteq pass.cut)
    BY <1>1, <2>2, DrumSoundsActive DEF DrumSounds
  <2> QED
    BY <1>1, <1>2, <1>5, <2>2, <2>3, <2>4, <2>5 DEF DrumOk, DrumSounds
<1> QED
  BY <1>3, <1>4, <1>5

\* A key on the internal clock starts what was idle, and counts from there.
LEMMA DrumKeyed ==
    ASSUME NEW s, DrumOk(s)
    PROVE  LET k == Drum!Keyed(s)
           IN  /\ DOMAIN k = DrumFields /\ DrumSounds(k, s) /\ k.mode = s.mode
               /\ k.clk_mode = s.clk_mode /\ k.unmuted = s.unmuted /\ k.raced = s.raced
               /\ \/ /\ k.clk_mode = "INTERNAL" /\ k.running = TRUE /\ k.told = TRUE
                     /\ k.tick = 0 /\ k.idle_ticks = 0 /\ k.switched = FALSE
                  \/ /\ k.clk_mode = "INTERNAL" /\ s.idle_ticks < DrumParams.IdleTicks
                     /\ k.running = s.running /\ k.told = s.told
                     /\ k.tick = s.tick /\ k.idle_ticks = 0 /\ k.switched = s.switched
                  \/ k = s /\ k.clk_mode # "INTERNAL"
<1> DEFINE k == Drum!Keyed(s)
<1>1. DOMAIN s = DrumFields /\ s.idle_ticks \in Nat
  BY DEF DrumOk
<1>2. CASE s.clk_mode = "INTERNAL" /\ s.idle_ticks >= DrumParams.IdleTicks
  <2>1. k = [[s EXCEPT !.running = TRUE, !.tick = 0, !.told = TRUE, !.switched = FALSE]
               EXCEPT !.idle_ticks = 0]
    BY <1>2 DEF Drum!Keyed, Drum!Begun, Drum!Idle
  <2> HIDE DEF k
  <2>2. /\ DOMAIN k = DrumFields /\ DrumSounds(k, s) /\ k.mode = s.mode
        /\ k.clk_mode = s.clk_mode /\ k.unmuted = s.unmuted /\ k.raced = s.raced
        /\ k.running = TRUE /\ k.told = TRUE
        /\ k.tick = 0 /\ k.idle_ticks = 0 /\ k.switched = FALSE
    BY <1>1, <2>1 DEF DrumFields, DrumSounds
  <2> QED
    BY <1>2, <2>2, Zenon DEF k
<1>3. CASE s.clk_mode = "INTERNAL" /\ ~(s.idle_ticks >= DrumParams.IdleTicks)
  <2>1. k = [s EXCEPT !.idle_ticks = 0]
    BY <1>3 DEF Drum!Keyed, Drum!Begun, Drum!Idle
  <2>2. s.idle_ticks < DrumParams.IdleTicks
    BY <1>1, <1>3, DrumAssumption
  <2> HIDE DEF k
  <2>3. /\ DOMAIN k = DrumFields /\ DrumSounds(k, s) /\ k.mode = s.mode
        /\ k.clk_mode = s.clk_mode /\ k.unmuted = s.unmuted /\ k.raced = s.raced
        /\ k.running = s.running /\ k.told = s.told
        /\ k.tick = s.tick /\ k.idle_ticks = 0 /\ k.switched = s.switched
    BY <1>1, <2>1 DEF DrumFields, DrumSounds
  <2> QED
    BY <1>3, <2>2, <2>3, Zenon DEF k
<1>4. CASE s.clk_mode # "INTERNAL"
  <2>1. k = s
    BY <1>4 DEF Drum!Keyed
  <2> HIDE DEF k
  <2>2. DrumSounds(k, s)
    BY <2>1 DEF DrumSounds
  <2> QED
    BY <1>1, <1>4, <2>1, <2>2, Zenon DEF k
<1> QED
  BY <1>2, <1>3, <1>4

\* A tick in the middle of the key that starts a generator finds its bar over.
LEMMA DrumBegunTick ==
    ASSUME NEW s, DrumOk(s), s.clk_mode = "INTERNAL", Drum!Idle(s),
           NEW strikes \in SUBSET DrumParams.Part
    PROVE  LET t == Drum!Tick(Drum!Begun(s), strikes)
           IN  /\ DOMAIN t = DrumFields /\ t.tick = 1 /\ t.clk_mode = "INTERNAL"
               /\ t.switched = FALSE /\ t.running = FALSE /\ t.active = {}
               /\ t.mode = s.mode /\ t.sounding \subseteq t.cut
<1> DEFINE b     == Drum!Begun(s)
           off   == Drum!AllNotesOff(b)
           idled == Drum!Idled(b)
           t     == Drum!Tick(b, strikes)
<1>1. /\ DOMAIN s = DrumFields /\ s.idle_ticks \in Nat /\ s.active \subseteq DrumParams.Part
      /\ s.sounding \subseteq Drum!Active(s) \cup s.cut
  BY DEF DrumOk
<1>2. b = [s EXCEPT !.running = TRUE, !.tick = 0, !.told = TRUE, !.switched = FALSE]
  BY DEF Drum!Begun
<1> HIDE DEF b
<1>3. /\ DOMAIN b = DrumFields /\ b.tick = 0 /\ b.clk_mode = "INTERNAL" /\ b.mode = s.mode
      /\ b.idle_ticks = s.idle_ticks /\ b.switched = FALSE /\ DrumSounds(b, s)
  BY <1>1, <1>2 DEF DrumFields, DrumSounds
<1>4. b.active \subseteq DrumParams.Part /\ b.sounding \subseteq Drum!Active(b) \cup b.cut
  BY <1>1, <1>3, DrumSoundsActive DEF DrumSounds
<1>5. /\ DOMAIN off = DrumFields /\ off.tick = 0 /\ off.clk_mode = "INTERNAL"
      /\ off.mode = s.mode /\ off.switched = FALSE
      /\ off.sounding \subseteq off.cut /\ off.active = {}
  BY <1>3, <1>4, DrumOff
<1>6. ~(b.idle_ticks + 1 < DrumParams.IdleTicks)
  BY <1>1, <1>3, DrumAssumption DEF Drum!Idle
<1>7. idled = [off EXCEPT !.running = FALSE, !.told = FALSE, !.idle_ticks = DrumParams.IdleTicks]
  BY <1>3, <1>6 DEF Drum!Idled
<1> HIDE DEF off
<1>8. t = [idled EXCEPT !.tick = @ + 1]
  BY <1>3 DEF Drum!Tick, Drum!kTicksPerStep, Drum!kTickOff
<1> HIDE DEF idled
<1>9. /\ DOMAIN idled = DrumFields /\ idled.tick = 0 /\ idled.clk_mode = "INTERNAL"
      /\ idled.mode = s.mode /\ idled.switched = FALSE /\ idled.running = FALSE
      /\ idled.sounding \subseteq idled.cut /\ idled.active = {}
  BY <1>5, <1>7 DEF DrumFields
<1> HIDE DEF t
<1>10. /\ DOMAIN t = DrumFields /\ t.tick = 1 /\ t.clk_mode = "INTERNAL"
       /\ t.switched = FALSE /\ t.running = FALSE /\ t.active = {}
       /\ t.mode = s.mode /\ t.sounding \subseteq t.cut
  BY <1>8, <1>9 DEF DrumFields
<1> QED
  BY <1>10, Zenon DEF t, b

\* A tick stops the generator in the middle of a key.
LEMMA DrumKeyStopped ==
    ASSUME DrumOk(state), NEW unmuted, NEW strikes \in SUBSET DrumParams.Part, NEW told \in BOOLEAN,
           Drum!KeyDownStopped(unmuted, strikes, told)
    PROVE  DrumOk(state')
<1> DEFINE ticked == Drum!Tick(Drum!Begun(state), strikes)
<1>1. /\ state.clk_mode = "INTERNAL" /\ Drum!Begun(state).running /\ ~ticked.running
      /\ state' = [ticked EXCEPT !.idle_ticks = 0, !.told = told, !.raced = TRUE,
                                 !.unmuted[state.mode] = unmuted]
  BY DEF Drum!KeyDownStopped
<1>2. /\ DOMAIN ticked = DrumFields /\ ticked.tick \in 0 .. 5 /\ ticked.tick \in Nat
      /\ ticked.running \in BOOLEAN /\ ticked.switched \in BOOLEAN
      /\ ticked.active \subseteq DrumParams.Part
      /\ ticked.sounding \subseteq Drum!Active(ticked) \cup ticked.cut
      /\ ~ticked.switched => ticked.sounding \subseteq ticked.cut
  <2>1. CASE Drum!Idle(state)
    <3>1. /\ DOMAIN ticked = DrumFields /\ ticked.tick = 1
          /\ ticked.switched = FALSE /\ ticked.running = FALSE /\ ticked.active = {}
          /\ ticked.sounding \subseteq ticked.cut
      BY <1>1, <2>1, DrumBegunTick
    <3> HIDE DEF ticked
    <3>2. ticked.tick \in 0 .. 5 /\ ticked.tick \in Nat
      BY <3>1
    <3>3. ticked.running \in BOOLEAN /\ ticked.switched \in BOOLEAN
      BY <3>1, Zenon
    <3> QED
      BY <3>1, <3>2, <3>3
  <2>2. CASE ~Drum!Idle(state)
    <3>1. Drum!Begun(state) = state /\ state.running
      BY <1>1, <2>2 DEF Drum!Begun
    <3>2. DrumOk(ticked)
      BY <3>1, DrumTick
    <3> HIDE DEF ticked
    <3> QED
      BY <1>1, <3>2 DEF DrumOk
  <2> QED
    BY <2>1, <2>2
<1> HIDE DEF ticked
<1>3. /\ DOMAIN state' = DrumFields /\ DrumSounds(state', ticked)
      /\ state'.running = ticked.running /\ state'.told = told /\ state'.raced = TRUE
      /\ state'.switched = ticked.switched /\ state'.tick = ticked.tick /\ state'.idle_ticks = 0
  BY <1>1, <1>2 DEF DrumFields, DrumSounds
<1>4. state'.sounding \subseteq Drum!Active(state') \cup state'.cut
  BY <1>2, <1>3, DrumSoundsActive DEF DrumSounds
<1>5. DrumCounts(state')
  <2>1. ~state'.running
    BY <1>1, <1>3
  <2>2. state'.raced
    BY <1>3
  <2> QED
    BY <2>1, <2>2 DEF DrumCounts
<1>6. state'.told \in BOOLEAN /\ state'.idle_ticks \in Nat
  BY <1>3
<1> QED
  BY <1>2, <1>3, <1>4, <1>5, <1>6 DEF DrumOk, DrumSounds

\* A tick comes in the middle of a stop, and may strike the part just released.
LEMMA DrumStopTicked ==
    ASSUME DrumOk(state), NEW part \in DrumParams.Part, NEW strikes \in SUBSET DrumParams.Part,
           Drum!StopMessageTicked(part, strikes)
    PROVE  DrumOk(state')
<1> DEFINE earlier == Drum!PartsOff(state, { p \in DrumParams.Part : p <= part })
           u       == [earlier EXCEPT !.active = @ \cup {part}]
           ticked  == Drum!Tick(u, strikes)
           later   == Drum!PartsOff(ticked, { p \in DrumParams.Part : p > part })
<1>1. /\ state.running
      /\ state' = [later EXCEPT !.active = @ \ {part},
                                !.cut = IF part \in later.active
                                        THEN @ \cup {state.instrument[part]} ELSE @]
  BY DEF Drum!StopMessageTicked
<1>2. /\ DOMAIN state = DrumFields /\ state.active \subseteq DrumParams.Part
      /\ state.sounding \subseteq Drum!Active(state) \cup state.cut
  BY DEF DrumOk
<1>3. /\ DOMAIN earlier = DrumFields /\ earlier.active \subseteq DrumParams.Part
      /\ earlier.running = state.running /\ earlier.mode = state.mode
      /\ earlier.clk_mode = state.clk_mode
      /\ earlier.tick = state.tick /\ earlier.idle_ticks = state.idle_ticks
      /\ earlier.unmuted = state.unmuted
      /\ earlier.told = state.told /\ earlier.switched = state.switched
      /\ earlier.raced = state.raced /\ earlier.instrument = state.instrument
      /\ earlier.sounding \subseteq Drum!Active(earlier) \cup earlier.cut
  BY <1>2, DrumPartsOff
<1> HIDE DEF earlier
<1>4. /\ DOMAIN u = DrumFields /\ u.active = earlier.active \cup {part}
      /\ u.running = state.running /\ u.mode = state.mode /\ u.clk_mode = state.clk_mode
      /\ u.tick = state.tick /\ u.idle_ticks = state.idle_ticks /\ u.unmuted = state.unmuted
      /\ u.told = state.told /\ u.switched = state.switched /\ u.raced = state.raced
      /\ u.instrument = earlier.instrument /\ u.sounding = earlier.sounding
      /\ u.cut = earlier.cut
  BY <1>3 DEF DrumFields
<1> HIDE DEF u
<1>5. DrumOk(u) /\ u.running
  <2>1. Drum!Active(earlier) \subseteq Drum!Active(u)
    BY <1>4 DEF Drum!Active, Drum!Drums
  <2>2. u.sounding \subseteq Drum!Active(u) \cup u.cut /\ u.active \subseteq DrumParams.Part
    BY <1>3, <1>4, <2>1
  <2> QED
    BY <1>1, <1>4, <2>2 DEF DrumOk, DrumCounts
<1>6. DrumOk(ticked)
  BY <1>5, DrumTick
<1>7. ticked.instrument = state.instrument
  <2>1. Drum!Idled(u).instrument = u.instrument
    BY <1>5, DrumIdled
  <2>2. /\ DOMAIN Drum!Idled(u) = DrumFields
        /\ Drum!Idled(u).sounding \subseteq Drum!Active(Drum!Idled(u)) \cup Drum!Idled(u).cut
        /\ Drum!Idled(u).active \subseteq DrumParams.Part
    BY <1>5, DrumIdled
  <2> DEFINE idled  == Drum!Idled(u)
             unmut  == u.unmuted[u.mode]
             struck == Drum!Triggered(idled, strikes \cap unmut)
             off    == Drum!AllNotesOff(idled)
  <2> HIDE DEF idled, unmut
  <2>3. \/ ticked = [struck EXCEPT !.tick = 0, !.idle_ticks = IF unmut # {} THEN 0 ELSE @]
        \/ ticked = [off EXCEPT !.tick = @ + 1]
        \/ ticked = [idled EXCEPT !.tick = @ + 1]
    BY DEF Drum!Tick, Drum!kTicksPerStep, Drum!kTickOff, idled, unmut
  <2>4. off.instrument = idled.instrument /\ DOMAIN off = DrumFields
    BY <2>2, DrumOff DEF idled
  <2>5. struck.instrument = idled.instrument /\ DOMAIN struck = DrumFields
    BY <2>2 DEF Drum!Triggered, idled, DrumFields
  <2> HIDE DEF off, struck, ticked
  <2>6. ticked.instrument = idled.instrument
    BY <2>2, <2>3, <2>4, <2>5 DEF DrumFields, idled
  <2> QED
    BY <1>3, <1>4, <2>1, <2>6 DEF idled
<1>8. /\ DOMAIN ticked = DrumFields /\ ticked.active \subseteq DrumParams.Part
      /\ ticked.tick \in 0 .. 5 /\ ticked.tick \in Nat /\ ticked.idle_ticks \in Nat
      /\ ticked.running \in BOOLEAN /\ ticked.told \in BOOLEAN /\ ticked.switched \in BOOLEAN
      /\ ticked.sounding \subseteq Drum!Active(ticked) \cup ticked.cut
      /\ ~ticked.switched => /\ DrumCounts(ticked)
                             /\ ~ticked.running => ticked.sounding \subseteq ticked.cut
  BY <1>6 DEF DrumOk
<1> HIDE DEF ticked
<1>9. /\ DOMAIN later = DrumFields
      /\ later.running = ticked.running /\ later.mode = ticked.mode
      /\ later.clk_mode = ticked.clk_mode
      /\ later.tick = ticked.tick /\ later.idle_ticks = ticked.idle_ticks
      /\ later.unmuted = ticked.unmuted
      /\ later.told = ticked.told /\ later.switched = ticked.switched
      /\ later.raced = ticked.raced /\ later.instrument = ticked.instrument
      /\ later.active \subseteq ticked.active
      /\ later.sounding \subseteq Drum!Active(later) \cup later.cut
      /\ ticked.sounding \subseteq ticked.cut => later.sounding \subseteq later.cut
  BY <1>8, DrumPartsOff
<1> HIDE DEF later
<1>10. /\ DOMAIN state' = DrumFields /\ state'.active = later.active \ {part}
       /\ state'.running = later.running /\ state'.mode = later.mode
       /\ state'.clk_mode = later.clk_mode
       /\ state'.tick = later.tick /\ state'.idle_ticks = later.idle_ticks
       /\ state'.unmuted = later.unmuted
       /\ state'.told = later.told /\ state'.switched = later.switched
       /\ state'.raced = later.raced /\ state'.instrument = later.instrument
       /\ state'.sounding = later.sounding /\ later.cut \subseteq state'.cut
       /\ part \in later.active => later.instrument[part] \in state'.cut
  BY <1>1, <1>7, <1>9 DEF DrumFields
<1>11. \A drum \in Drum!Active(later) : drum \in Drum!Active(state') \cup state'.cut
  <2>1. SUFFICES ASSUME NEW p \in later.active
                 PROVE  later.instrument[p] \in Drum!Active(state') \cup state'.cut
    BY DEF Drum!Active, Drum!Drums
  <2>2. CASE p = part
    BY <1>10, <2>2
  <2>3. CASE p # part
    BY <1>10, <2>3 DEF Drum!Active, Drum!Drums
  <2> QED
    BY <2>2, <2>3
<1>12. state'.sounding \subseteq Drum!Active(state') \cup state'.cut
  BY <1>9, <1>10, <1>11
<1>13. ~state'.switched => DrumCounts(state') /\ (~state'.running => state'.sounding \subseteq state'.cut)
  BY <1>8, <1>9, <1>10 DEF DrumCounts
<1>14. state'.active \subseteq DrumParams.Part
  BY <1>8, <1>9, <1>10
<1> QED
  BY <1>8, <1>9, <1>10, <1>12, <1>13, <1>14 DEF DrumOk

LEMMA DrumNext == DrumOk(state) /\ Drum!Next => DrumOk(state')
<1> SUFFICES ASSUME DrumOk(state), Drum!Next PROVE DrumOk(state')
  OBVIOUS
<1>1. /\ DOMAIN state = DrumFields /\ state.tick \in 0 .. 5 /\ state.tick \in Nat
      /\ state.idle_ticks \in Nat /\ state.running \in BOOLEAN /\ state.told \in BOOLEAN
      /\ state.switched \in BOOLEAN /\ state.active \subseteq DrumParams.Part
      /\ state.sounding \subseteq Drum!Active(state) \cup state.cut
  BY DEF DrumOk
<1>2. ASSUME NEW unmuted \in SUBSET DrumParams.Part, Drum!KeyDown(unmuted)
      PROVE  DrumOk(state')
  <2> DEFINE k == Drum!Keyed(state)
         starts == /\ k.clk_mode = "INTERNAL" /\ k.running = TRUE /\ k.told = TRUE
                   /\ k.tick = 0 /\ k.idle_ticks = 0 /\ k.switched = FALSE
         restarts == /\ k.clk_mode = "INTERNAL" /\ state.idle_ticks < DrumParams.IdleTicks
                     /\ k.running = state.running /\ k.told = state.told
                     /\ k.tick = state.tick /\ k.idle_ticks = 0 /\ k.switched = state.switched
  <2>1. /\ DOMAIN k = DrumFields /\ DrumSounds(k, state) /\ k.mode = state.mode
        /\ k.clk_mode = state.clk_mode /\ k.unmuted = state.unmuted /\ k.raced = state.raced
        /\ starts \/ restarts \/ (k = state /\ k.clk_mode # "INTERNAL")
    BY DrumKeyed
  <2>2. state' = [k EXCEPT !.unmuted[state.mode] = unmuted]
    BY <1>2 DEF Drum!KeyDown
  <2> HIDE DEF k
  <2>3. /\ DOMAIN state' = DrumFields /\ DrumSounds(state', k) /\ state'.running = k.running
        /\ state'.told = k.told /\ state'.tick = k.tick /\ state'.idle_ticks = k.idle_ticks
        /\ state'.switched = k.switched /\ state'.clk_mode = k.clk_mode
        /\ state'.raced = k.raced
    BY <2>1, <2>2 DEF DrumFields, DrumSounds
  <2>4. DrumSounds(state', state) /\ Drum!Active(state') = Drum!Active(state)
    BY <2>1, <2>3, DrumSoundsActive DEF DrumSounds
  <2>5. /\ state'.tick \in 0 .. 5 /\ state'.tick \in Nat /\ state'.idle_ticks \in Nat
        /\ state'.running \in BOOLEAN /\ state'.told \in BOOLEAN /\ state'.switched \in BOOLEAN
    <3>1. CASE starts
      <4>1. /\ state'.running = TRUE /\ state'.told = TRUE /\ state'.switched = FALSE
            /\ state'.tick = 0 /\ state'.idle_ticks = 0
        BY <2>3, <3>1, Zenon
      <4>2. state'.running \in BOOLEAN /\ state'.told \in BOOLEAN /\ state'.switched \in BOOLEAN
        BY <4>1, Zenon
      <4>3. state'.tick = 0 /\ state'.idle_ticks = 0
        BY <4>1, Zenon
      <4> QED
        BY <4>2, <4>3
    <3>2. CASE restarts \/ k = state
      BY <1>1, <2>3, <3>2
    <3> QED
      BY <2>1, <3>1, <3>2
  <2>6. ASSUME ~state'.switched
        PROVE  DrumCounts(state') /\ (~state'.running => state'.sounding \subseteq state'.cut)
    <3>1. CASE starts
      BY <2>3, <2>5, <3>1 DEF DrumCounts
    <3>2. CASE restarts
      <4>1. state.clk_mode = "INTERNAL" /\ ~state.switched
        BY <2>1, <2>3, <2>6, <3>2
      <4>2. DrumCounts(state) /\ (~state.running => state.sounding \subseteq state.cut)
        BY <4>1 DEF DrumOk
      <4>3. ~state.raced => state.running /\ state.told
        BY <1>1, <3>2, <4>1, <4>2, DrumAssumption DEF DrumCounts
      <4>4. /\ state'.running = state.running /\ state'.told = state.told
            /\ state'.idle_ticks = 0 /\ state'.raced = state.raced
        BY <2>1, <2>3, <3>2
      <4>5. DrumCounts(state')
        BY <2>5, <4>3, <4>4 DEF DrumCounts
      <4> QED
        BY <2>4, <4>2, <4>4, <4>5 DEF DrumSounds
    <3>3. CASE k = state /\ k.clk_mode # "INTERNAL"
      <4>1. ~state.running => state.sounding \subseteq state.cut
        BY <2>3, <2>6, <3>3 DEF DrumOk
      <4> QED
        BY <2>3, <2>4, <3>3, <4>1 DEF DrumCounts, DrumSounds
    <3> QED
      BY <2>1, <3>1, <3>2, <3>3
  <2>7. state'.sounding \subseteq Drum!Active(state') \cup state'.cut
    BY <1>1, <2>4 DEF DrumSounds
  <2> QED
    BY <1>1, <2>3, <2>4, <2>5, <2>6, <2>7 DEF DrumOk, DrumSounds
<1>3. ASSUME NEW clk_mode, NEW strikes \in SUBSET DrumParams.Part, Drum!Clock(clk_mode, strikes)
      PROVE  DrumOk(state')
  BY <1>3, DrumTick DEF Drum!Clock
<1>4. CASE Drum!StartMessage \/ Drum!ContinueMessage
  <2>1. /\ DOMAIN state' = DrumFields /\ DrumSounds(state', state)
        /\ state'.running = TRUE /\ state'.told = state.told /\ state'.switched = state.switched
        /\ state'.idle_ticks = state.idle_ticks /\ state'.tick \in {0, state.tick}
        /\ state'.clk_mode = state.clk_mode /\ state.clk_mode # "INTERNAL"
    BY <1>1, <1>4 DEF Drum!StartMessage, Drum!ContinueMessage, DrumFields, DrumSounds
  <2>2. state'.sounding \subseteq Drum!Active(state') \cup state'.cut
    <3>1. Drum!Active(state') = Drum!Active(state)
      BY <2>1, DrumSoundsActive
    <3> QED
      BY <1>1, <2>1, <3>1 DEF DrumSounds
  <2>3. DrumCounts(state')
    BY <2>1 DEF DrumCounts
  <2>4. state'.running /\ state'.running \in BOOLEAN
    BY <2>1, Zenon
  <2>5. /\ DOMAIN state' = DrumFields /\ state'.told \in BOOLEAN /\ state'.switched \in BOOLEAN
        /\ state'.idle_ticks \in Nat
    BY <1>1, <2>1, Zenon
  <2>6. state'.tick \in 0 .. 5 /\ state'.tick \in Nat
    BY <1>1, <2>1
  <2> QED
    BY <1>1, <2>1, <2>2, <2>3, <2>4, <2>5, <2>6 DEF DrumOk, DrumSounds
<1>5. CASE Drum!StopMessage
  <2> DEFINE off == Drum!AllNotesOff(state)
  <2>1. /\ DOMAIN off = DrumFields
        /\ off.running = state.running /\ off.mode = state.mode /\ off.clk_mode = state.clk_mode
        /\ off.tick = state.tick /\ off.idle_ticks = state.idle_ticks
        /\ off.unmuted = state.unmuted /\ off.told = state.told /\ off.switched = state.switched
        /\ off.raced = state.raced /\ off.sounding \subseteq off.cut /\ off.active = {}
    BY <1>1, DrumOff
  <2>2. state' = [off EXCEPT !.running = @ /\ state.clk_mode = "INTERNAL"]
    BY <1>5 DEF Drum!StopMessage
  <2> HIDE DEF off
  <2>3. /\ DOMAIN state' = DrumFields
        /\ state'.running = (state.running /\ state.clk_mode = "INTERNAL")
        /\ state'.mode = state.mode /\ state'.clk_mode = state.clk_mode
        /\ state'.tick = state.tick /\ state'.idle_ticks = state.idle_ticks
        /\ state'.unmuted = state.unmuted /\ state'.told = state.told
        /\ state'.switched = state.switched /\ state'.sounding \subseteq state'.cut
        /\ state'.raced = state.raced /\ state'.active = {}
    BY <2>1, <2>2 DEF DrumFields
  <2>4. ~state'.switched => DrumCounts(state')
    BY <1>1, <2>3 DEF DrumOk, DrumCounts
  <2> QED
    BY <1>1, <2>3, <2>4 DEF DrumOk
<1>6. ASSUME \/ \E mode \in Drum!PatternModes : Drum!SetMode(mode)
             \/ \E clk_mode \in Drum!ClockModes : Drum!SetClockMode(clk_mode)
      PROVE  DrumOk(state')
  <2>1. /\ DOMAIN state' = DrumFields /\ DrumSounds(state', state)
        /\ state'.running = state.running /\ state'.told = state.told
        /\ state'.tick = state.tick /\ state'.idle_ticks = state.idle_ticks
        /\ state'.unmuted = state.unmuted /\ state'.switched \in BOOLEAN
        /\ state'.raced = state.raced
        /\ ~state'.switched => /\ ~state.switched /\ state'.mode = state.mode
                               /\ state'.clk_mode = state.clk_mode
    BY <1>1, <1>6 DEF Drum!SetMode, Drum!SetClockMode, DrumFields, DrumSounds
  <2>2. Drum!Active(state') = Drum!Active(state)
    BY <2>1, DrumSoundsActive
  <2>3. ~state'.switched => DrumCounts(state') /\ (~state'.running => state'.sounding \subseteq state'.cut)
    BY <1>1, <2>1 DEF DrumOk, DrumCounts, DrumSounds
  <2> QED
    BY <1>1, <2>1, <2>2, <2>3 DEF DrumOk, DrumSounds
<1>7. ASSUME NEW part \in DrumParams.Part, NEW instrument \in DrumParams.Instrument,
             Drum!SetInstrument(part, instrument)
      PROVE  DrumOk(state')
  <2>1. /\ DOMAIN state' = DrumFields /\ state'.active = state.active
        /\ state'.instrument = [state.instrument EXCEPT ![part] = instrument]
        /\ state'.sounding = state.sounding
        /\ state'.cut = IF part \in state.active THEN state.cut \cup {state.instrument[part]}
                        ELSE state.cut
        /\ state'.running = state.running /\ state'.told = state.told
        /\ state'.tick = state.tick /\ state'.idle_ticks = state.idle_ticks
        /\ state'.unmuted = state.unmuted /\ state'.switched = state.switched
        /\ state'.raced = state.raced
        /\ state'.mode = state.mode /\ state'.clk_mode = state.clk_mode
    BY <1>1, <1>7 DEF Drum!SetInstrument, DrumFields
  <2>2. state.cut \subseteq state'.cut
    BY <2>1
  <2>3. \A drum \in Drum!Active(state) : drum \in Drum!Active(state') \cup state'.cut
    <3>1. SUFFICES ASSUME NEW p \in state.active
                   PROVE  state.instrument[p] \in Drum!Active(state') \cup state'.cut
      BY DEF Drum!Active, Drum!Drums
    <3>2. CASE p = part
      BY <2>1, <3>2
    <3>3. CASE p # part
      <4>1. state'.instrument[p] = state.instrument[p]
        BY <2>1, <3>3
      <4> QED
        BY <2>1, <4>1 DEF Drum!Active, Drum!Drums
    <3> QED
      BY <3>2, <3>3
  <2>4. state'.sounding \subseteq Drum!Active(state') \cup state'.cut
    BY <1>1, <2>1, <2>2, <2>3
  <2>5. ~state'.switched => DrumCounts(state') /\ (~state'.running => state'.sounding \subseteq state'.cut)
    BY <1>1, <2>1, <2>2 DEF DrumOk, DrumCounts
  <2> QED
    BY <1>1, <2>1, <2>4, <2>5 DEF DrumOk
<1>8. ASSUME NEW unmuted, NEW strikes \in SUBSET DrumParams.Part, NEW told \in BOOLEAN,
             Drum!KeyDownStopped(unmuted, strikes, told)
      PROVE  DrumOk(state')
  BY <1>8, DrumKeyStopped
<1>9. ASSUME NEW part \in DrumParams.Part, NEW strikes \in SUBSET DrumParams.Part,
             Drum!StopMessageTicked(part, strikes)
      PROVE  DrumOk(state')
  BY <1>9, DrumStopTicked
<1> QED
  BY <1>2, <1>3, <1>4, <1>5, <1>6, <1>7, <1>8, <1>9 DEF Drum!Next

-----------------------------------------------------------------------------
(* The LFOs.                                                               *)

LfoFields ==
    {"running", "clk_mode", "prescaler", "tick", "rate", "sync", "phase", "phase_increment",
     "held", "begun", "detuned", "main", "told", "switched", "raced"}

\* What the instruments were told at each line of the main loop: unless clk_mode_
\* changed on the way, or an interrupt ran into the main loop.
LfoTransport(s) ==
    /\ s.running \in BOOLEAN /\ s.told \in BOOLEAN /\ s.switched \in BOOLEAN /\ s.raced \in BOOLEAN
    /\ ~s.raced /\ ~s.switched =>
         (s.told <=> /\ s.clk_mode = "INTERNAL"
                     /\ IF s.main = "idle" THEN s.running
                        ELSE s.main \notin {"stopping", "stopped"})

Phases == [LfoParams.LfoIndex -> 0 .. LfoParams.PhaseRange - 1]

LfoPhases(s) ==
    /\ s.phase \in Phases /\ s.phase_increment \in Phases
    /\ s.begun \in [LfoParams.LfoIndex -> BOOLEAN]
    /\ \A i \in LfoParams.LfoIndex \ s.detuned :
         s.phase_increment[i] > 0 => (s.phase[i] < s.phase_increment[i] <=> s.begun[i])

LfoRates(s) == s.rate \in [LfoParams.LfoIndex -> LfoParams.Rates] /\ s.prescaler \in LfoParams.Prescalers

LfoOk(s) == DOMAIN s = LfoFields /\ LfoTransport(s) /\ LfoPhases(s) /\ LfoRates(s)

\* What each of the parts of LfoOk depends on.
LfoSameTransport(t, s) ==
    /\ t.running = s.running /\ t.told = s.told /\ t.switched = s.switched
    /\ t.clk_mode = s.clk_mode /\ t.main = s.main /\ t.raced = s.raced

LfoSamePhases(t, s) ==
    /\ t.phase = s.phase /\ t.phase_increment = s.phase_increment
    /\ t.begun = s.begun /\ t.detuned = s.detuned

LfoSameRates(t, s) == t.rate = s.rate /\ t.prescaler = s.prescaler

LEMMA LfoSame ==
    ASSUME NEW s, NEW t, LfoOk(s)
    PROVE  /\ LfoSameTransport(t, s) => LfoTransport(t)
           /\ LfoSamePhases(t, s) => LfoPhases(t)
           /\ LfoSameRates(t, s) => LfoRates(t)
<1>1. LfoSameTransport(t, s) => LfoTransport(t)
  BY DEF LfoOk, LfoSameTransport, LfoTransport
<1>2. LfoSamePhases(t, s) => LfoPhases(t)
  BY DEF LfoOk, LfoSamePhases, LfoPhases
<1>3. LfoSameRates(t, s) => LfoRates(t)
  BY DEF LfoOk, LfoSameRates, LfoRates
<1> QED
  BY <1>1, <1>2, <1>3

LEMMA LfoIncrement ==
    ASSUME NEW rate \in LfoParams.Rates, NEW prescaler \in LfoParams.Prescalers
    PROVE  Lfos!Increment(rate, prescaler) \in 0 .. LfoParams.PhaseRange - 1
<1>1. rate \in Nat /\ prescaler \in Nat /\ LfoParams.PhaseRange \in Nat \ {0}
  BY LfoAssumption
<1>2. rate * prescaler \in Int
  BY <1>1
<1> QED
  BY <1>1, <1>2, RemainderIn, Zenon DEF Lfos!Increment

LEMMA LfoResetOk ==
    ASSUME NEW s, LfoOk(s), NEW lfos \in SUBSET LfoParams.LfoIndex
    PROVE  LfoOk(Lfos!Reset(s, lfos)) /\ LfoSameTransport(Lfos!Reset(s, lfos), s)
<1> DEFINE t == Lfos!Reset(s, lfos)
<1>1. DOMAIN s = LfoFields
  BY DEF LfoOk
<1>2. /\ DOMAIN t = LfoFields /\ LfoSameTransport(t, s) /\ LfoSameRates(t, s)
      /\ t.phase = [i \in LfoParams.LfoIndex |-> IF i \in lfos THEN 0 ELSE s.phase[i]]
      /\ t.begun = [i \in LfoParams.LfoIndex |-> i \in lfos \/ s.begun[i]]
      /\ t.detuned = s.detuned \ lfos /\ t.phase_increment = s.phase_increment
  BY <1>1 DEF Lfos!Reset, LfoFields, LfoSameTransport, LfoSameRates
<1> HIDE DEF t
<1>3. LfoPhases(s)
  BY DEF LfoOk
<1>4. LfoPhases(t)
  <2>1. t.phase_increment \in Phases /\ s.phase \in Phases
    BY <1>2, <1>3 DEF LfoPhases
  <2>2. t.phase \in Phases
    <3>1. 0 \in 0 .. LfoParams.PhaseRange - 1
      BY LfoAssumption
    <3> QED
      BY <1>2, <2>1, <3>1 DEF Phases
  <2>3. t.begun \in [LfoParams.LfoIndex -> BOOLEAN]
    BY <1>2, <1>3 DEF LfoPhases
  <2>4. ASSUME NEW i \in LfoParams.LfoIndex \ t.detuned, t.phase_increment[i] > 0
        PROVE  t.phase[i] < t.phase_increment[i] <=> t.begun[i]
    <3>1. CASE i \in lfos
      <4>1. t.phase[i] = 0 /\ t.begun[i] = TRUE
        BY <1>2, <3>1
      <4> QED
        BY <2>4, <4>1
    <3>2. CASE i \notin lfos
      <4>1. t.phase[i] = s.phase[i] /\ t.begun[i] = s.begun[i]
        BY <1>2, <1>3, <3>2 DEF LfoPhases
      <4> QED
        BY <1>2, <1>3, <2>4, <3>2, <4>1 DEF LfoPhases
    <3> QED
      BY <3>1, <3>2
  <2> QED
    BY <2>1, <2>2, <2>3, <2>4 DEF LfoPhases
<1> QED
  BY <1>2, <1>4, LfoSame DEF LfoOk, t

LEMMA LfoAdvancedOk ==
    ASSUME NEW s, LfoOk(s)
    PROVE  LfoOk(Lfos!Advanced(s))
<1> DEFINE t == Lfos!Advanced(s)
           Sum(i) == s.phase[i] + s.phase_increment[i]
           R == LfoParams.PhaseRange
<1>1. DOMAIN s = LfoFields /\ LfoPhases(s) /\ R \in Nat \ {0}
  BY LfoAssumption DEF LfoOk
<1>2. /\ DOMAIN t = LfoFields /\ LfoSameTransport(t, s) /\ LfoSameRates(t, s)
      /\ t.phase = [i \in LfoParams.LfoIndex |-> Sum(i) % R]
      /\ t.begun = [i \in LfoParams.LfoIndex |-> Sum(i) >= R]
      /\ t.phase_increment = s.phase_increment
  BY <1>1 DEF Lfos!Advanced, LfoFields, LfoSameTransport, LfoSameRates
<1> HIDE DEF t
<1>3. ASSUME NEW i \in LfoParams.LfoIndex
      PROVE  /\ Sum(i) % R \in 0 .. R - 1
             /\ s.phase_increment[i] > 0 => (Sum(i) % R < s.phase_increment[i] <=> Sum(i) >= R)
  <2> DEFINE m == Sum(i) % R
  <2>1. s.phase[i] \in 0 .. R - 1 /\ s.phase_increment[i] \in 0 .. R - 1
    BY <1>1 DEF LfoPhases, Phases
  <2>2. Sum(i) \in Nat /\ Sum(i) \in Int /\ Sum(i) < R + R
    BY <1>1, <2>1
  <2>3. m \in 0 .. R - 1
    BY <1>1, <2>2, RemainderIn, Zenon
  <2>4. CASE Sum(i) >= R
    <3>1. R <= Sum(i)
      BY <1>1, <2>2, <2>4
    <3>2. m = Sum(i) - R
      BY <1>1, <2>2, <3>1, RemainderOver, Zenon
    <3> HIDE DEF m
    <3>3. m < s.phase_increment[i]
      BY <1>1, <2>1, <3>2
    <3> QED
      BY <2>3, <2>4, <3>3 DEF m
  <2>5. CASE ~(Sum(i) >= R)
    <3>1. Sum(i) \in 0 .. R - 1
      BY <1>1, <2>2, <2>5
    <3>2. m = Sum(i)
      BY <1>1, <3>1, RemainderIs, Zenon
    <3> HIDE DEF m
    <3>3. ~(m < s.phase_increment[i])
      BY <1>1, <2>1, <3>2
    <3> QED
      BY <2>3, <2>5, <3>3 DEF m
  <2> QED
    BY <2>4, <2>5
<1> DEFINE Phase(i) == Sum(i) % R
           Over(i) == Sum(i) >= R
           m == [i \in LfoParams.LfoIndex |-> Phase(i)]
           over == [i \in LfoParams.LfoIndex |-> Over(i)]
<1>7. ASSUME NEW i \in LfoParams.LfoIndex
      PROVE  /\ Phase(i) \in 0 .. R - 1 /\ Over(i) \in BOOLEAN
             /\ s.phase_increment[i] > 0 => (Phase(i) < s.phase_increment[i] <=> Over(i))
  <2>1. Over(i) \in BOOLEAN
    OBVIOUS
  <2> QED
    BY <1>3, <2>1, Zenon
<1>5. t.phase = m /\ t.begun = over
  BY <1>2
<1> HIDE DEF Phase, Over
<1>4. /\ m \in Phases /\ over \in [LfoParams.LfoIndex -> BOOLEAN]
      /\ \A i \in LfoParams.LfoIndex :
           s.phase_increment[i] > 0 => (m[i] < s.phase_increment[i] <=> over[i])
  BY <1>7 DEF Phases
<1> HIDE DEF m, over
<1>6. LfoPhases(t)
  BY <1>1, <1>2, <1>4, <1>5 DEF LfoPhases
<1> QED
  BY <1>2, <1>6, LfoSame DEF LfoOk, t

LEMMA LfoTickOk ==
    ASSUME NEW s, LfoOk(s)
    PROVE  LfoOk(Lfos!Tick(s))
<1> DEFINE a == Lfos!Advanced(s)
           t == [a EXCEPT !.tick = 0]
           u == [s EXCEPT !.tick = @ + 1]
<1>1. LfoOk(a)
  BY LfoAdvancedOk
<1> HIDE DEF a
<1>2. /\ DOMAIN t = LfoFields /\ LfoSameTransport(t, a) /\ LfoSamePhases(t, a)
      /\ LfoSameRates(t, a)
  BY <1>1 DEF LfoOk, LfoFields, LfoSameTransport, LfoSamePhases, LfoSameRates
<1>3. /\ DOMAIN u = LfoFields /\ LfoSameTransport(u, s) /\ LfoSamePhases(u, s)
      /\ LfoSameRates(u, s)
  BY DEF LfoOk, LfoFields, LfoSameTransport, LfoSamePhases, LfoSameRates
<1>4. Lfos!Tick(s) = IF s.tick + 1 < s.prescaler THEN u ELSE t
  BY DEF Lfos!Tick, a
<1> HIDE DEF t, u
<1>5. LfoOk(t) /\ LfoOk(u)
  BY <1>1, <1>2, <1>3, LfoSame DEF LfoOk
<1> QED
  BY <1>4, <1>5

LEMMA LfoRetunedOk ==
    ASSUME NEW s, LfoOk(s), NEW rate \in [LfoParams.LfoIndex -> LfoParams.Rates],
           NEW prescaler \in LfoParams.Prescalers
    PROVE  LfoOk(Lfos!Retuned(s, rate, prescaler))
<1> DEFINE t == Lfos!Retuned(s, rate, prescaler)
           increment == [i \in LfoParams.LfoIndex |-> Lfos!Increment(rate[i], prescaler)]
<1>1. increment \in Phases
  BY LfoIncrement DEF Phases
<1>2. DOMAIN s = LfoFields /\ LfoPhases(s)
  BY DEF LfoOk
<1>3. /\ DOMAIN t = LfoFields /\ LfoSameTransport(t, s)
      /\ t.rate = rate /\ t.prescaler = prescaler /\ t.phase_increment = increment
      /\ t.phase = s.phase /\ t.begun = s.begun
      /\ t.detuned = s.detuned \cup { i \in LfoParams.LfoIndex :
                                        increment[i] # s.phase_increment[i] }
  BY <1>2 DEF Lfos!Retuned, LfoFields, LfoSameTransport
<1> HIDE DEF t, increment
<1>4. LfoPhases(t)
  <2>1. ASSUME NEW i \in LfoParams.LfoIndex \ t.detuned
        PROVE  i \in LfoParams.LfoIndex \ s.detuned /\ t.phase_increment[i] = s.phase_increment[i]
    BY <1>3
  <2> QED
    BY <1>1, <1>2, <1>3, <2>1 DEF LfoPhases
<1>5. LfoRates(t)
  BY <1>3 DEF LfoRates
<1> QED
  BY <1>3, <1>4, <1>5, LfoSame DEF LfoOk, t

\* 0xfa and 0xfc, of the main loop and of an interrupt.
LEMMA LfoSentIs ==
    ASSUME NEW s, DOMAIN s = LfoFields, NEW value \in BOOLEAN
    PROVE  LET t == Lfos!Sent(s, value)
               u == Lfos!Told(s, value)
           IN  /\ DOMAIN t = LfoFields /\ t.running = s.running /\ t.clk_mode = s.clk_mode
               /\ t.main = s.main /\ t.raced = s.raced
               /\ LfoSamePhases(t, s) /\ LfoSameRates(t, s)
               /\ s.clk_mode = "INTERNAL" => t.told = value /\ t.switched = FALSE
               /\ s.clk_mode # "INTERNAL" => t.told = s.told /\ t.switched = s.switched
               /\ DOMAIN u = LfoFields /\ u.running = s.running /\ u.clk_mode = s.clk_mode
               /\ u.main = s.main /\ u.raced = (s.raced \/ s.main # "idle")
               /\ LfoSamePhases(u, s) /\ LfoSameRates(u, s)
               /\ u.told = t.told /\ u.switched = t.switched
<1> DEFINE t == Lfos!Sent(s, value)
           u == Lfos!Told(s, value)
<1>1. /\ DOMAIN t = LfoFields /\ t.running = s.running /\ t.clk_mode = s.clk_mode
      /\ t.main = s.main /\ t.raced = s.raced
      /\ LfoSamePhases(t, s) /\ LfoSameRates(t, s)
      /\ s.clk_mode = "INTERNAL" => t.told = value /\ t.switched = FALSE
      /\ s.clk_mode # "INTERNAL" => t.told = s.told /\ t.switched = s.switched
  BY DEF LfoFields, LfoSamePhases, LfoSameRates, Lfos!Sent
<1>2. u = [t EXCEPT !.raced = @ \/ s.main # "idle"]
  BY DEF Lfos!Told
<1> HIDE DEF t, u
<1>3. /\ DOMAIN u = LfoFields /\ u.running = s.running /\ u.clk_mode = s.clk_mode
      /\ u.main = s.main /\ u.raced = (s.raced \/ s.main # "idle")
      /\ LfoSamePhases(u, s) /\ LfoSameRates(u, s)
      /\ u.told = t.told /\ u.switched = t.switched
  BY <1>1, <1>2 DEF LfoFields, LfoSamePhases, LfoSameRates
<1> QED
  BY <1>1, <1>3 DEF t, u

\* Stop and Start of an interrupt.
LEMMA LfoStopOk ==
    ASSUME NEW s, LfoOk(s)
    PROVE  LfoOk(Lfos!Stop(s))
<1> DEFINE u == Lfos!Told(s, FALSE)
           sent == Lfos!Sent(s, FALSE)
           t == [u EXCEPT !.running = FALSE]
<1>1. DOMAIN s = LfoFields /\ LfoTransport(s)
  BY DEF LfoOk
<1>2. Lfos!Stop(s) = IF s.running THEN t ELSE s
  BY DEF Lfos!Stop
<1>3. /\ s.clk_mode = "INTERNAL" => sent.told = FALSE /\ sent.switched = FALSE
      /\ s.clk_mode # "INTERNAL" => sent.told = s.told /\ sent.switched = s.switched
      /\ DOMAIN u = LfoFields /\ u.running = s.running /\ u.clk_mode = s.clk_mode
      /\ u.main = s.main /\ u.raced = (s.raced \/ s.main # "idle")
      /\ LfoSamePhases(u, s) /\ LfoSameRates(u, s)
      /\ u.told = sent.told /\ u.switched = sent.switched
  BY <1>1, LfoSentIs
<1> HIDE DEF u, sent
<1>4. /\ DOMAIN t = LfoFields /\ LfoSamePhases(t, s) /\ LfoSameRates(t, s)
      /\ t.running = FALSE /\ t.clk_mode = s.clk_mode /\ t.main = s.main
      /\ t.raced = (s.raced \/ s.main # "idle") /\ t.told = u.told /\ t.switched = u.switched
  BY <1>3 DEF LfoFields, LfoSamePhases, LfoSameRates
<1> HIDE DEF t
<1>5. LfoTransport(t)
  BY <1>1, <1>3, <1>4 DEF LfoTransport
<1> QED
  BY <1>2, <1>4, <1>5, LfoSame DEF LfoOk

LEMMA LfoArmedIs ==
    ASSUME NEW s, DOMAIN s = LfoFields
    PROVE  LET t == Lfos!Armed(s)
           IN  /\ DOMAIN t = LfoFields /\ t.running = TRUE /\ t.clk_mode = s.clk_mode
               /\ t.main = s.main /\ t.raced = s.raced /\ t.told = s.told
               /\ t.switched = s.switched
               /\ LfoSamePhases(t, s) /\ LfoSameRates(t, s)
  BY DEF LfoFields, LfoSamePhases, LfoSameRates, Lfos!Armed

LEMMA LfoStartOk ==
    ASSUME NEW s, LfoOk(s)
    PROVE  LfoOk(Lfos!Start(s))
<1> DEFINE u == Lfos!Told(s, TRUE)
           sent == Lfos!Sent(s, TRUE)
           t == Lfos!Armed(u)
           reset == Lfos!Reset(t, LfoParams.LfoIndex)
<1>1. DOMAIN s = LfoFields /\ LfoTransport(s)
  BY DEF LfoOk
<1>2. Lfos!Start(s) = IF s.running THEN s ELSE reset
  BY DEF Lfos!Start
<1>3. /\ s.clk_mode = "INTERNAL" => sent.told = TRUE /\ sent.switched = FALSE
      /\ s.clk_mode # "INTERNAL" => sent.told = s.told /\ sent.switched = s.switched
      /\ DOMAIN u = LfoFields /\ u.running = s.running /\ u.clk_mode = s.clk_mode
      /\ u.main = s.main /\ u.raced = (s.raced \/ s.main # "idle")
      /\ LfoSamePhases(u, s) /\ LfoSameRates(u, s)
      /\ u.told = sent.told /\ u.switched = sent.switched
  BY <1>1, LfoSentIs
<1> HIDE DEF u, sent
<1>4. /\ DOMAIN t = LfoFields /\ t.running = TRUE /\ t.clk_mode = u.clk_mode
      /\ t.main = u.main /\ t.raced = u.raced /\ t.told = u.told
      /\ t.switched = u.switched
      /\ LfoSamePhases(t, u) /\ LfoSameRates(t, u)
  BY <1>3, LfoArmedIs
<1> HIDE DEF t
<1>5. LfoTransport(t)
  BY <1>1, <1>3, <1>4 DEF LfoTransport
<1>6. LfoOk(t)
  BY <1>3, <1>4, <1>5, LfoSame DEF LfoOk, LfoSamePhases, LfoSameRates
<1> HIDE DEF reset
<1>7. LfoOk(reset)
  BY <1>6, LfoResetOk DEF reset
<1> QED
  BY <1>2, <1>7

\* The main loop's lines.
LEMMA LfoMainOk ==
    ASSUME LfoOk(state),
           \/ Lfos!StopBegins \/ Lfos!StopEnds \/ Lfos!StartBegins \/ Lfos!StartArms
           \/ Lfos!StartEnds \/ Lfos!WriteRunning
    PROVE  LfoOk(state')
<1>1. DOMAIN state = LfoFields /\ LfoTransport(state)
  BY DEF LfoOk
\* A line that leaves the phases and the rates alone.
<1>2. ASSUME NEW s, DOMAIN s = LfoFields, LfoSamePhases(s, state), LfoSameRates(s, state),
             NEW place, NEW next, Lfos!At(place, s, next)
      PROVE  /\ DOMAIN state' = LfoFields /\ LfoPhases(state') /\ LfoRates(state')
             /\ state'.main = next /\ state.main = place
             /\ state'.running = s.running /\ state'.told = s.told
             /\ state'.switched = s.switched /\ state'.raced = s.raced
             /\ state'.clk_mode = s.clk_mode
  <2>1. state' = [s EXCEPT !.main = next] /\ state.main = place
    BY <1>2 DEF Lfos!At
  <2>2. /\ DOMAIN state' = LfoFields /\ LfoSamePhases(state', state) /\ LfoSameRates(state', state)
        /\ state'.main = next
        /\ state'.running = s.running /\ state'.told = s.told
        /\ state'.switched = s.switched /\ state'.raced = s.raced
        /\ state'.clk_mode = s.clk_mode
    BY <1>2, <2>1 DEF LfoFields, LfoSamePhases, LfoSameRates
  <2> QED
    BY <2>1, <2>2, LfoSame
<1>3. LfoSamePhases(state, state) /\ LfoSameRates(state, state)
  BY DEF LfoSamePhases, LfoSameRates
<1>4. ASSUME NEW value \in BOOLEAN, NEW next, Lfos!At("idle", Lfos!Sent(state, value), next),
             next = IF value THEN "starting" ELSE "stopping"
      PROVE  LfoOk(state')
  <2> DEFINE s == Lfos!Sent(state, value)
  <2>1. /\ DOMAIN s = LfoFields /\ s.running = state.running /\ s.clk_mode = state.clk_mode
        /\ s.main = state.main /\ s.raced = state.raced
        /\ LfoSamePhases(s, state) /\ LfoSameRates(s, state)
        /\ state.clk_mode = "INTERNAL" => s.told = value /\ s.switched = FALSE
        /\ state.clk_mode # "INTERNAL" => s.told = state.told /\ s.switched = state.switched
    <3>1. CASE value = TRUE
      BY <1>1, <3>1, LfoSentIs
    <3>2. CASE value = FALSE
      BY <1>1, <3>2, LfoSentIs
    <3> QED
      BY <3>1, <3>2
  <2>2. Lfos!At("idle", s, next)
    BY <1>4
  <2> HIDE DEF s
  <2>3. /\ DOMAIN state' = LfoFields /\ LfoPhases(state') /\ LfoRates(state')
        /\ state'.main = next /\ state.main = "idle"
        /\ state'.running = s.running /\ state'.told = s.told
        /\ state'.switched = s.switched /\ state'.raced = s.raced
        /\ state'.clk_mode = s.clk_mode
    BY <1>2, <2>1, <2>2
  <2>4. LfoTransport(state')
    BY <1>1, <1>4, <2>1, <2>3 DEF LfoTransport
  <2> QED
    BY <2>3, <2>4 DEF LfoOk
<1>5. CASE Lfos!StopBegins
  <2>1. CASE state.running
    BY <1>4, <1>5, <2>1 DEF Lfos!StopBegins
  <2>2. CASE ~state.running
    <3>1. Lfos!At("idle", state, "stopped")
      BY <1>5, <2>2 DEF Lfos!StopBegins
    <3> QED
      BY <1>1, <1>2, <1>3, <2>2, <3>1 DEF LfoOk, LfoTransport
  <2> QED
    BY <2>1, <2>2
<1>6. CASE Lfos!StartBegins
  <2>1. CASE ~state.running
    BY <1>4, <1>6, <2>1 DEF Lfos!StartBegins
  <2>2. CASE state.running
    <3>1. Lfos!At("idle", state, "kept")
      BY <1>6, <2>2 DEF Lfos!StartBegins
    <3> QED
      BY <1>1, <1>2, <1>3, <2>2, <3>1 DEF LfoOk, LfoTransport
  <2> QED
    BY <2>1, <2>2
<1>7. ASSUME NEW running \in BOOLEAN, NEW place, NEW next,
             Lfos!At(place, [state EXCEPT !.running = running], next),
             \/ place = "stopping" /\ next = "stopped" /\ running = FALSE
             \/ place = "stopped" /\ next = "idle" /\ running = FALSE
             \/ place = "kept" /\ next = "idle" /\ running = TRUE
      PROVE  LfoOk(state')
  <2> DEFINE s == [state EXCEPT !.running = running]
  <2>1. /\ DOMAIN s = LfoFields /\ s.running = running /\ s.clk_mode = state.clk_mode
        /\ s.raced = state.raced /\ s.told = state.told /\ s.switched = state.switched
        /\ LfoSamePhases(s, state) /\ LfoSameRates(s, state)
    BY <1>1 DEF LfoFields, LfoSamePhases, LfoSameRates
  <2>2. Lfos!At(place, s, next)
    BY <1>7
  <2> HIDE DEF s
  <2>3. /\ DOMAIN state' = LfoFields /\ LfoPhases(state') /\ LfoRates(state')
        /\ state'.main = next /\ state.main = place
        /\ state'.running = s.running /\ state'.told = s.told
        /\ state'.switched = s.switched /\ state'.raced = s.raced
        /\ state'.clk_mode = s.clk_mode
    BY <1>2, <2>1, <2>2
  <2>4. LfoTransport(state')
    BY <1>1, <1>7, <2>1, <2>3 DEF LfoTransport
  <2> QED
    BY <2>3, <2>4 DEF LfoOk
<1>8. CASE Lfos!StopEnds
  BY <1>7, <1>8 DEF Lfos!StopEnds
<1>9. CASE Lfos!WriteRunning
  BY <1>7, <1>9 DEF Lfos!WriteRunning
<1>10. CASE Lfos!StartArms
  <2> DEFINE s == Lfos!Armed(state)
  <2>1. /\ DOMAIN s = LfoFields /\ s.running = TRUE /\ s.clk_mode = state.clk_mode
        /\ s.main = state.main /\ s.raced = state.raced /\ s.told = state.told
        /\ s.switched = state.switched
        /\ LfoSamePhases(s, state) /\ LfoSameRates(s, state)
    BY <1>1, LfoArmedIs
  <2>2. Lfos!At("starting", s, "armed")
    BY <1>10 DEF Lfos!StartArms
  <2> HIDE DEF s
  <2>3. /\ DOMAIN state' = LfoFields /\ LfoPhases(state') /\ LfoRates(state')
        /\ state'.main = "armed" /\ state.main = "starting"
        /\ state'.running = s.running /\ state'.told = s.told
        /\ state'.switched = s.switched /\ state'.raced = s.raced
        /\ state'.clk_mode = s.clk_mode
    BY <1>2, <2>1, <2>2
  <2>4. LfoTransport(state')
    BY <1>1, <2>1, <2>3 DEF LfoTransport
  <2> QED
    BY <2>3, <2>4 DEF LfoOk
<1>11. CASE Lfos!StartEnds
  <2> DEFINE r == Lfos!Reset(state, LfoParams.LfoIndex)
             s == [r EXCEPT !.running = TRUE]
  <2>1. LfoOk(r) /\ LfoSameTransport(r, state)
    BY LfoResetOk
  <2>2. state' = [s EXCEPT !.main = "idle"] /\ state.main = "armed"
    BY <1>11 DEF Lfos!StartEnds, Lfos!At
  <2> HIDE DEF r
  <2>3. /\ DOMAIN state' = LfoFields /\ LfoSamePhases(state', r) /\ LfoSameRates(state', r)
        /\ state'.running = TRUE /\ state'.told = r.told /\ state'.switched = r.switched
        /\ state'.raced = r.raced /\ state'.clk_mode = r.clk_mode /\ state'.main = "idle"
    BY <2>1, <2>2 DEF LfoOk, LfoFields, LfoSamePhases, LfoSameRates
  <2>4. LfoTransport(state')
    BY <1>1, <2>1, <2>2, <2>3 DEF LfoTransport, LfoSameTransport
  <2> QED
    BY <2>1, <2>3, <2>4, LfoSame DEF LfoOk
<1> QED
  BY <1>5, <1>6, <1>8, <1>9, <1>10, <1>11

LEMMA LfoInit == Lfos!Init => LfoOk(state)
<1> SUFFICES ASSUME Lfos!Init PROVE LfoOk(state)
  OBVIOUS
<1>1. PICK clk_mode \in Lfos!ClockModes, prescaler \in LfoParams.Prescalers,
           rate \in [LfoParams.LfoIndex -> LfoParams.Rates],
           sync \in [LfoParams.LfoIndex -> Lfos!SyncModes] :
        state = [running |-> FALSE, clk_mode |-> clk_mode, prescaler |-> prescaler, tick |-> 0,
             rate |-> rate, sync |-> sync, phase |-> [i \in LfoParams.LfoIndex |-> 0],
             phase_increment |-> [i \in LfoParams.LfoIndex |-> Lfos!Increment(rate[i], prescaler)],
             held |-> {}, begun |-> [i \in LfoParams.LfoIndex |-> TRUE], detuned |-> {},
             main |-> "idle", told |-> FALSE, switched |-> FALSE, raced |-> FALSE]
  BY DEF Lfos!Init
<1> DEFINE increment == [i \in LfoParams.LfoIndex |-> Lfos!Increment(rate[i], prescaler)]
           none == [i \in LfoParams.LfoIndex |-> 0]
           begun == [i \in LfoParams.LfoIndex |-> TRUE]
<1>2. increment \in Phases
  BY LfoIncrement DEF Phases
<1>3. none \in Phases
  BY LfoAssumption DEF Phases
<1>4. /\ DOMAIN state = LfoFields /\ state.running = FALSE /\ state.told = FALSE
      /\ state.switched = FALSE /\ state.raced = FALSE /\ state.main = "idle" /\ state.rate = rate /\ state.prescaler = prescaler
      /\ state.phase = none /\ state.phase_increment = increment /\ state.begun = begun
  BY <1>1 DEF LfoFields
<1>5. LfoTransport(state)
  BY <1>4, Zenon DEF LfoTransport
<1>6. begun \in [LfoParams.LfoIndex -> BOOLEAN]
  OBVIOUS
<1>7. \A i \in LfoParams.LfoIndex : begun[i] = TRUE /\ none[i] = 0
  OBVIOUS
<1> HIDE DEF increment, none, begun
<1>8. LfoPhases(state)
  BY <1>2, <1>3, <1>4, <1>6, <1>7 DEF LfoPhases
<1> QED
  BY <1>4, <1>5, <1>8 DEF LfoOk, LfoRates

LEMMA LfoNext == LfoOk(state) /\ Lfos!Next => LfoOk(state')
<1> SUFFICES ASSUME LfoOk(state), Lfos!Next PROVE LfoOk(state')
  OBVIOUS
<1>1. DOMAIN state = LfoFields /\ LfoTransport(state) /\ LfoRates(state)
  BY DEF LfoOk
<1>2. ASSUME NEW note \in LfoParams.Note, Lfos!KeyDown(note)
      PROVE  LfoOk(state')
  <2> DEFINE synced == { i \in LfoParams.LfoIndex :
                           \/ state.sync[i] = "NOTE_ON"
                           \/ state.sync[i] = "START" /\ state.held = {} }
             r == Lfos!Reset(state, synced)
  <2>1. LfoOk(r)
    BY LfoResetOk
  <2>2. state' = [r EXCEPT !.held = @ \cup {note}]
    BY <1>2 DEF Lfos!KeyDown
  <2> HIDE DEF r
  <2>3. DOMAIN state' = LfoFields /\ LfoSameTransport(state', r) /\ LfoSamePhases(state', r)
        /\ LfoSameRates(state', r)
    BY <2>1, <2>2 DEF LfoOk, LfoFields, LfoSameTransport, LfoSamePhases, LfoSameRates
  <2> QED
    BY <2>1, <2>3, LfoSame DEF LfoOk
<1>3. ASSUME NEW clk_mode, Lfos!Clock(clk_mode) PROVE LfoOk(state')
  BY <1>3, LfoTickOk DEF Lfos!Clock
<1>4. CASE Lfos!StartMessage
  BY <1>4, LfoStartOk DEF Lfos!StartMessage
<1>5. CASE Lfos!StopMessage
  BY <1>5, LfoStopOk DEF Lfos!StopMessage
<1>6. ASSUME \/ Lfos!ContinueMessage
             \/ \E clk_mode \in Lfos!ClockModes : Lfos!SetClockMode(clk_mode)
      PROVE  LfoOk(state')
  <2>1. DOMAIN state' = LfoFields /\ LfoSamePhases(state', state) /\ LfoSameRates(state', state)
    BY <1>1, <1>6 DEF LfoFields, LfoSamePhases, LfoSameRates, Lfos!ContinueMessage, Lfos!SetClockMode
  <2>2. LfoTransport(state')
    BY <1>1, <1>6 DEF LfoFields, LfoTransport, Lfos!ContinueMessage, Lfos!SetClockMode
  <2> QED
    BY <2>1, <2>2, LfoSame DEF LfoOk
<1>7. ASSUME NEW on \in BOOLEAN, Lfos!SetRunning(on) PROVE LfoOk(state')
  BY <1>7, LfoStartOk, LfoStopOk DEF Lfos!SetRunning
<1>8. ASSUME NEW prescaler \in LfoParams.Prescalers, Lfos!SetDivision(prescaler)
      PROVE  LfoOk(state')
  BY <1>1, <1>8, LfoRetunedOk DEF LfoRates, Lfos!SetDivision
<1>9. ASSUME NEW i \in LfoParams.LfoIndex, NEW rate \in LfoParams.Rates, Lfos!SetRate(i, rate)
      PROVE  LfoOk(state')
  <2>1. [state.rate EXCEPT ![i] = rate] \in [LfoParams.LfoIndex -> LfoParams.Rates]
    BY <1>1 DEF LfoRates
  <2> QED
    BY <1>1, <1>9, <2>1, LfoRetunedOk DEF LfoRates, Lfos!SetRate
<1>10. ASSUME \/ \E note \in LfoParams.Note : Lfos!KeyUp(note)
              \/ \E i \in LfoParams.LfoIndex, sync \in Lfos!SyncModes : Lfos!SetSync(i, sync)
       PROVE  LfoOk(state')
  <2>1. DOMAIN state' = LfoFields /\ LfoSameTransport(state', state) /\ LfoSamePhases(state', state)
        /\ LfoSameRates(state', state)
    BY <1>1, <1>10 DEF LfoFields, LfoSameTransport, LfoSamePhases, LfoSameRates,
       Lfos!KeyUp, Lfos!SetSync
  <2> QED
    BY <2>1, LfoSame DEF LfoOk
<1>11. CASE \/ Lfos!StopBegins \/ Lfos!StopEnds \/ Lfos!StartBegins \/ Lfos!StartArms
            \/ Lfos!StartEnds \/ Lfos!WriteRunning
  BY <1>11, LfoMainOk
<1> QED
  BY <1>2, <1>3, <1>4, <1>5, <1>6, <1>7, <1>8, <1>9, <1>10, <1>11 DEF Lfos!Next

-----------------------------------------------------------------------------
(* The chord memory.                                                       *)

ChordFields == {"editing", "num_notes", "chord", "held", "sounding", "edited"}

ChordTyped(s) ==
    /\ DOMAIN s = ChordFields /\ s.editing \in BOOLEAN
    /\ s.num_notes \in Nat /\ s.num_notes < ChordParams.kMaxChordNotes
    /\ s.chord \in [1 .. ChordParams.kMaxChordNotes -> Int]
    /\ s.held \subseteq ChordParams.Note

\* Chord, in the state s.
ChordOf(s, note) ==
    IF s.num_notes = 0 THEN {note}
    ELSE { Chords!Folded(note + s.chord[i] - s.chord[1]) : i \in 1 .. s.num_notes }

\* While a chord is recorded the keys sound themselves, and then they play it: the
\* chord of a key has the note of the key in it.
ChordSteady(s) ==
    IF s.editing THEN s.sounding \subseteq s.held
    ELSE \A x \in s.sounding : \E note \in s.held : x \in ChordOf(s, note)

ChordOk(s) == ChordTyped(s) /\ (s.edited = {} => ChordSteady(s))

LEMMA ChordHasItsNote ==
    ASSUME NEW s, ChordTyped(s), NEW note \in ChordParams.Note
    PROVE  note \in ChordOf(s, note)
<1> DEFINE first == s.chord[1]
<1>1. note \in 0 .. 127 /\ first \in Int /\ s.num_notes \in Nat
  <2>1. 1 \in 1 .. ChordParams.kMaxChordNotes
    BY ChordAssumption
  <2>2. first \in Int
    BY <2>1 DEF ChordTyped
  <2> HIDE DEF first
  <2> QED
    BY <2>2, ChordAssumption DEF ChordTyped
<1>2. CASE s.num_notes = 0
  BY <1>2 DEF ChordOf
<1>3. CASE s.num_notes # 0
  <2>1. 1 \in 1 .. s.num_notes
    BY <1>1, <1>3
  <2>2. Chords!Folded(note + first - first) \in ChordOf(s, note)
    BY <1>3, <2>1 DEF ChordOf
  <2> HIDE DEF first
  <2>3. note + first - first = note
    BY <1>1
  <2>4. Chords!Folded(note) = note
    BY <1>1 DEF Chords!Folded
  <2> QED
    BY <2>2, <2>3, <2>4
<1> QED
  BY <1>2, <1>3

LEMMA ChordIs == \A note : Chords!Chord(note) = ChordOf(state, note)
  BY DEF Chords!Chord, ChordOf

LEMMA ChordInit == Chords!Init => ChordOk(state)
<1> SUFFICES ASSUME Chords!Init PROVE ChordOk(state)
  OBVIOUS
<1> DEFINE size == ChordParams.kMaxChordNotes
<1>1. PICK num_notes \in 0 .. size - 1, note \in ChordParams.Note, root \in ChordParams.Note :
        state = [editing |-> FALSE, num_notes |-> num_notes,
                 chord |-> [i \in 1 .. size |-> IF i = 1 THEN root ELSE note],
                 held |-> {}, sounding |-> {}, edited |-> {}]
  BY DEF Chords!Init
<1>2. /\ state.num_notes = num_notes /\ DOMAIN state = ChordFields /\ state.editing = FALSE
      /\ state.held = {} /\ state.sounding = {}
      /\ state.chord = [i \in 1 .. size |-> IF i = 1 THEN root ELSE note]
  BY <1>1 DEF ChordFields
<1>3. root \in Int /\ note \in Int /\ num_notes \in Nat /\ num_notes < size
  BY ChordAssumption
<1>4. [i \in 1 .. size |-> IF i = 1 THEN root ELSE note] \in [1 .. size -> Int]
  BY <1>3
<1> QED
  BY <1>2, <1>3, <1>4 DEF ChordOk, ChordTyped, ChordSteady

LEMMA ChordRecorded ==
    ASSUME ChordTyped(state), NEW note \in ChordParams.Note
    PROVE  LET r == Chords!Recorded(note)
           IN  /\ ChordTyped(r) /\ r.editing = state.editing /\ r.held = state.held
               /\ r.sounding = state.sounding /\ r.edited = state.edited
<1> DEFINE r     == Chords!Recorded(note)
           size  == ChordParams.kMaxChordNotes
           n     == state.num_notes
           chord == [state.chord EXCEPT ![n + 1] = note]
           moved == IF n + 1 # size THEN chord
                    ELSE [i \in 1 .. size |->
                            IF i \in 2 .. size - 1 THEN chord[i + 1] ELSE chord[i]]
<1>1. /\ DOMAIN state = ChordFields /\ n \in Nat /\ n < size /\ size \in Nat \ {0}
      /\ state.chord \in [1 .. size -> Int] /\ note \in Int
  <2>1. note \in Int
    BY ChordAssumption
  <2> QED
    BY <2>1, ChordAssumption DEF ChordTyped
<1>2. r = [state EXCEPT !.chord = moved, !.num_notes = IF n + 1 = size THEN size - 1 ELSE n + 1]
  BY DEF Chords!Recorded
<1>3. chord \in [1 .. size -> Int]
  BY <1>1
<1> HIDE DEF chord
<1>4. moved \in [1 .. size -> Int]
  BY <1>1, <1>3
<1> HIDE DEF moved, r
<1>5. /\ DOMAIN r = ChordFields /\ r.chord = moved /\ r.editing = state.editing
      /\ r.held = state.held /\ r.sounding = state.sounding /\ r.edited = state.edited
      /\ r.num_notes = IF n + 1 = size THEN size - 1 ELSE n + 1
  BY <1>1, <1>2 DEF ChordFields
<1>6. r.num_notes \in Nat /\ r.num_notes < size
  BY <1>1, <1>5
<1> QED
  BY <1>4, <1>5, <1>6 DEF ChordTyped, r

LEMMA ChordDown ==
    ASSUME ChordOk(state), NEW note \in ChordParams.Note, Chords!KeyDown(note)
    PROVE  ChordOk(state')
<1>1. ChordTyped(state) /\ DOMAIN state = ChordFields
  BY DEF ChordOk, ChordTyped
<1>2. CASE state.editing
  <2> DEFINE r == Chords!Recorded(note)
  <2>1. state' = [r EXCEPT !.held = @ \cup {note}, !.sounding = @ \cup {note}]
    BY <1>2 DEF Chords!KeyDown
  <2>2. /\ ChordTyped(r) /\ r.editing = state.editing /\ r.held = state.held
        /\ r.sounding = state.sounding /\ r.edited = state.edited
    BY <1>1, ChordRecorded
  <2> HIDE DEF r
  <2>3. /\ DOMAIN state' = ChordFields /\ state'.editing = state.editing
        /\ state'.num_notes = r.num_notes /\ state'.chord = r.chord
        /\ state'.held = state.held \cup {note} /\ state'.sounding = state.sounding \cup {note}
        /\ state'.edited = state.edited
    BY <2>1, <2>2 DEF ChordTyped, ChordFields
  <2>4. ChordTyped(state')
    BY <2>2, <2>3 DEF ChordTyped
  <2> QED
    BY <1>2, <2>3, <2>4 DEF ChordOk, ChordSteady
<1>3. CASE ~state.editing
  <2>1. state' = [state EXCEPT !.held = @ \cup {note}, !.sounding = @ \cup ChordOf(state, note)]
    BY <1>3, ChordIs DEF Chords!KeyDown
  <2>2. /\ DOMAIN state' = ChordFields /\ state'.editing = state.editing
        /\ state'.num_notes = state.num_notes /\ state'.chord = state.chord
        /\ state'.held = state.held \cup {note}
        /\ state'.sounding = state.sounding \cup ChordOf(state, note)
        /\ state'.edited = state.edited
    BY <1>1, <2>1 DEF ChordFields
  <2>3. ChordTyped(state')
    BY <1>1, <2>2 DEF ChordTyped
  <2>4. \A k : ChordOf(state', k) = ChordOf(state, k)
    BY <2>2 DEF ChordOf
  <2> QED
    BY <1>3, <2>2, <2>3, <2>4 DEF ChordOk, ChordSteady
<1> QED
  BY <1>2, <1>3

LEMMA ChordUp ==
    ASSUME ChordOk(state), NEW note \in ChordParams.Note, Chords!KeyUp(note)
    PROVE  ChordOk(state')
<1> DEFINE off == IF state.editing THEN {note} ELSE ChordOf(state, note)
<1>1. ChordTyped(state) /\ DOMAIN state = ChordFields
  BY DEF ChordOk, ChordTyped
<1>2. state' = [state EXCEPT !.held = @ \ {note}, !.sounding = @ \ off]
  BY ChordIs DEF Chords!KeyUp
<1> HIDE DEF off
<1>3. /\ DOMAIN state' = ChordFields /\ state'.editing = state.editing
      /\ state'.num_notes = state.num_notes /\ state'.chord = state.chord
      /\ state'.held = state.held \ {note} /\ state'.sounding = state.sounding \ off
      /\ state'.edited = state.edited
  BY <1>1, <1>2 DEF ChordFields
<1>4. ChordTyped(state')
  BY <1>1, <1>3 DEF ChordTyped
<1>5. \A k : ChordOf(state', k) = ChordOf(state, k)
  BY <1>3 DEF ChordOf
<1> QED
  BY <1>3, <1>4, <1>5 DEF ChordOk, ChordSteady, off

LEMMA ChordClick == ChordOk(state) /\ Chords!Click => ChordOk(state')
<1> SUFFICES ASSUME ChordOk(state), Chords!Click PROVE ChordOk(state')
  OBVIOUS
<1>1. ChordTyped(state) /\ DOMAIN state = ChordFields
  BY DEF ChordOk, ChordTyped
<1>2. /\ DOMAIN state' = ChordFields /\ state'.editing = ~state.editing
      /\ state'.num_notes = (IF state.editing THEN state.num_notes ELSE 0)
      /\ state'.chord = state.chord /\ state'.held = state.held
      /\ state'.sounding = state.sounding
      /\ state'.edited = (IF state.editing THEN state.edited ELSE state.edited \cup state.held)
  BY <1>1 DEF Chords!Click, ChordFields
<1>3. state'.editing \in BOOLEAN
  BY <1>2, Zenon
<1>4. ChordTyped(state')
  BY <1>1, <1>2, <1>3, ChordAssumption DEF ChordTyped
<1>5. CASE state.editing
  <2>1. \A note \in state.held : note \in ChordOf(state', note)
    BY <1>1, <1>2, <1>4, ChordHasItsNote DEF ChordTyped
  <2> QED
    BY <1>2, <1>4, <1>5, <2>1 DEF ChordOk, ChordSteady
<1>6. CASE ~state.editing
  BY <1>2, <1>4, <1>6 DEF ChordOk, ChordSteady
<1> QED
  BY <1>5, <1>6

LEMMA ChordNext == ChordOk(state) /\ Chords!Next => ChordOk(state')
  BY ChordDown, ChordUp, ChordClick DEF Chords!Next

LEMMA ChordOwed == ChordOk(state) => Chords!SoundingIsOwed
<1> SUFFICES ASSUME ChordOk(state), state.edited = {}, NEW x \in state.sounding
             PROVE  \E note \in state.held : x \in {note} \cup Chords!Chord(note)
  BY DEF Chords!SoundingIsOwed
<1> QED
  BY ChordIs DEF ChordOk, ChordSteady

-----------------------------------------------------------------------------
(* The CC knob.                                                            *)

KnobFields == {"value", "type", "number", "min", "max", "sent"}

KnobTyped(s) ==
    /\ DOMAIN s = KnobFields
    /\ s.value \in Nat /\ s.number \in Nat /\ s.min \in Nat /\ s.max \in Nat /\ s.sent \in Int

KnobOk(s) ==
    /\ KnobTyped(s)
    /\ s.min <= s.max => s.value \in s.min .. s.max
    /\ s.sent # -1 => s.sent = s.value
    /\ s.type = "CC" => s.value <= 127 /\ s.number <= 127

LEMMA KnobInit == Knob!Init => KnobOk(state)
<1> SUFFICES ASSUME Knob!Init PROVE KnobOk(state)
  OBVIOUS
<1>1. PICK value \in KnobParams.Values, max \in { v \in KnobParams.Values : v <= 127 } :
        /\ value <= max
        /\ state = [value |-> value, type |-> "CC", number |-> 7, min |-> 0, max |-> max,
                    sent |-> -1]
  BY DEF Knob!Init
<1>2. value \in Nat /\ max \in Nat /\ max <= 127
  BY KnobAssumption
<1>3. /\ DOMAIN state = KnobFields /\ state.value = value /\ state.type = "CC"
      /\ state.number = 7 /\ state.min = 0 /\ state.max = max /\ state.sent = -1
  BY <1>1 DEF KnobFields
<1> QED
  BY <1>1, <1>2, <1>3 DEF KnobOk, KnobTyped

\* Whatever was written, and what was sent before.
LEMMA KnobLimited ==
    ASSUME KnobOk(state), NEW s, KnobTyped(s), s.sent = state.sent \/ s.sent = -1
    PROVE  KnobOk(Knob!Limited(s))
<1> DEFINE top     == IF s.type = "CC" THEN 127 ELSE 255
           min     == IF s.min > top THEN top ELSE s.min
           max     == IF s.max > top THEN top ELSE s.max
           number  == IF s.number > top THEN top ELSE s.number
           value   == Knob!Clip(s.value, min, max)
           sent    == IF value # state.value THEN value ELSE s.sent
           t       == Knob!Limited(s)
<1>1. /\ DOMAIN t = KnobFields /\ t.value = value /\ t.type = s.type /\ t.number = number
      /\ t.min = min /\ t.max = max /\ t.sent = sent
  BY DEF Knob!Limited, KnobTyped, KnobFields
<1>2. min \in Nat /\ max \in Nat /\ number \in Nat
  BY DEF KnobTyped
<1>3. s.type = "CC" => min <= 127 /\ max <= 127 /\ number <= 127
  BY DEF KnobTyped
<1> HIDE DEF min, max, number, t
<1>4. value \in Nat /\ (min <= max => min <= value /\ value <= max)
      /\ (s.type = "CC" => value <= 127)
  BY <1>2, <1>3 DEF Knob!Clip, KnobTyped
<1> HIDE DEF value
<1>5. sent \in Int /\ (sent # -1 => sent = value)
  BY <1>4 DEF KnobOk, KnobTyped
<1> HIDE DEF sent
<1>6. KnobTyped(t)
  BY <1>1, <1>2, <1>4, <1>5 DEF KnobTyped
<1>7. t.min <= t.max => t.value \in t.min .. t.max
  BY <1>1, <1>2, <1>4
<1> QED
  BY <1>1, <1>3, <1>4, <1>5, <1>6, <1>7 DEF KnobOk, t

LEMMA KnobNext == KnobOk(state) /\ Knob!Next => KnobOk(state')
<1> SUFFICES ASSUME KnobOk(state), Knob!Next PROVE KnobOk(state')
  OBVIOUS
<1>1. KnobTyped(state)
  BY DEF KnobOk
<1>2. SUFFICES \E s : KnobTyped(s) /\ (s.sent = state.sent \/ s.sent = -1)
                      /\ state' = Knob!Limited(s)
  BY KnobLimited
<1>3. ASSUME NEW v \in KnobParams.Values,
             Knob!SetValue(v) \/ Knob!SetNumber(v) \/ Knob!SetMin(v) \/ Knob!SetMax(v)
      PROVE  \E s : KnobTyped(s) /\ (s.sent = state.sent \/ s.sent = -1)
                    /\ state' = Knob!Limited(s)
  <2>1. v \in Nat
    BY KnobAssumption
  <2>2. /\ KnobTyped([state EXCEPT !.value = v]) /\ [state EXCEPT !.value = v].sent = state.sent
        /\ KnobTyped([state EXCEPT !.min = v]) /\ [state EXCEPT !.min = v].sent = state.sent
        /\ KnobTyped([state EXCEPT !.max = v]) /\ [state EXCEPT !.max = v].sent = state.sent
        /\ KnobTyped([state EXCEPT !.number = v, !.sent = -1])
        /\ [state EXCEPT !.number = v, !.sent = -1].sent = -1
    BY <1>1, <2>1 DEF KnobTyped, KnobFields
  <2> QED
    BY <1>3, <2>2 DEF Knob!SetValue, Knob!SetNumber, Knob!SetMin, Knob!SetMax
<1>4. ASSUME NEW type, Knob!SetType(type)
      PROVE  \E s : KnobTyped(s) /\ (s.sent = state.sent \/ s.sent = -1)
                    /\ state' = Knob!Limited(s)
  <2>1. /\ KnobTyped([state EXCEPT !.type = type, !.sent = -1])
        /\ [state EXCEPT !.type = type, !.sent = -1].sent = -1
    BY <1>1 DEF KnobTyped, KnobFields
  <2> QED
    BY <1>4, <2>1 DEF Knob!SetType
<1> QED
  BY <1>3, <1>4 DEF Knob!Next

-----------------------------------------------------------------------------
(* The applications that keep nothing but their settings.                  *)

ChannelFields == {"kind", "settings", "held", "sounding", "changed"}

\* What a note sends is what its release will send, while no setting is changed.
ChannelOk(s) ==
    /\ DOMAIN s = ChannelFields /\ s.settings \in Channels!Settings /\ s.changed \in BOOLEAN
    /\ s.changed \/ \A x \in s.sounding : \E key \in s.held :
                        x \in Channels!Sent(s.kind, s.settings, key[1], key[2])

LEMMA ChannelInit == Channels!Init => ChannelOk(state)
  BY DEF Channels!Init, ChannelOk, ChannelFields

LEMMA ChannelKey ==
    ASSUME ChannelOk(state), NEW channel, NEW note,
           Channels!KeyDown(channel, note) \/ Channels!KeyUp(channel, note)
    PROVE  ChannelOk(state')
<1> DEFINE key     == <<channel, note>>
           sent(k) == Channels!Sent(state.kind, state.settings, k[1], k[2])
           off     == Channels!Sent(state.kind, state.settings, channel, note)
<1>1. sent(key) = off /\ DOMAIN state = ChannelFields
  BY DEF ChannelOk
<1>2. \/ state' = [state EXCEPT !.held = @ \cup {key}, !.sounding = @ \cup off]
      \/ state' = [state EXCEPT !.held = @ \ {key}, !.sounding = @ \ off]
  BY DEF Channels!KeyDown, Channels!KeyUp
<1> HIDE DEF key, off
<1>3. /\ DOMAIN state' = ChannelFields /\ state'.settings = state.settings
      /\ state'.changed = state.changed /\ state'.kind = state.kind
      /\ \/ state'.held = state.held \cup {key} /\ state'.sounding = state.sounding \cup off
         \/ state'.held = state.held \ {key} /\ state'.sounding = state.sounding \ off
  BY <1>1, <1>2 DEF ChannelFields
<1>4. ASSUME \A x \in state.sounding : \E k \in state.held : x \in sent(k)
      PROVE  \A x \in state'.sounding : \E k \in state'.held : x \in sent(k)
  <2> HIDE DEF sent
  <2> QED
    BY <1>1, <1>3, <1>4
<1> QED
  BY <1>3, <1>4 DEF ChannelOk

LEMMA ChannelSet ==
    ASSUME ChannelOk(state), NEW settings \in Channels!Settings, Channels!Set(settings)
    PROVE  ChannelOk(state')
<1>1. /\ DOMAIN state' = ChannelFields /\ state'.settings = settings
      /\ state'.held = state.held /\ state'.sounding = state.sounding
      /\ state'.changed = (state.changed \/ state.held # {})
  BY DEF ChannelOk, ChannelFields, Channels!Set
<1>2. state'.changed \in BOOLEAN
  BY <1>1, Zenon DEF ChannelOk
<1> QED
  BY <1>1, <1>2 DEF ChannelOk

LEMMA ChannelNext == ChannelOk(state) /\ Channels!Next => ChannelOk(state')
<1> SUFFICES ASSUME ChannelOk(state), Channels!Next PROVE ChannelOk(state')
  OBVIOUS
<1>1. state.settings \in Channels!Settings
  BY DEF ChannelOk
<1>2. ASSUME NEW channel \in ChannelParams.Channel
      PROVE  /\ [state.settings EXCEPT !.in = channel, !.all = FALSE] \in Channels!Settings
             /\ [state.settings EXCEPT !.low = channel] \in Channels!Settings
             /\ [state.settings EXCEPT !.high = channel] \in Channels!Settings
             /\ [state.settings EXCEPT !.enabled = @ \cup {channel}] \in Channels!Settings
             /\ [state.settings EXCEPT !.enabled = @ \ {channel}] \in Channels!Settings
  BY <1>1 DEF Channels!Settings
<1>3. /\ \A split \in ChannelParams.Splits :
           [state.settings EXCEPT !.split = split] \in Channels!Settings
      /\ \A count \in ChannelParams.Counts :
           [state.settings EXCEPT !.count = count] \in Channels!Settings
      /\ \A by \in ChannelParams.Transpositions :
           [state.settings EXCEPT !.by = by] \in Channels!Settings
      /\ [state.settings EXCEPT !.all = TRUE] \in Channels!Settings
  BY <1>1 DEF Channels!Settings
<1>4. ASSUME NEW channel \in ChannelParams.Channel, Channels!SetChannel(channel)
      PROVE  ChannelOk(state')
  BY <1>2, <1>4, ChannelSet DEF Channels!SetChannel
<1> QED
  BY <1>3, <1>4, ChannelKey, ChannelSet DEF Channels!Next

LEMMA ChannelOwed == ChannelOk(state) => Channels!SoundingIsOwed
  BY DEF ChannelOk, Channels!SoundingIsOwed

\* The two comparisons of the combiner are one modulo 16.
LEMMA ChannelMerges == ChannelOk(state) => Channels!MergesARow
<1> SUFFICES ASSUME ChannelOk(state), NEW channel \in ChannelParams.Channel
             PROVE  Channels!Merges(state.settings, channel)
                      <=> (channel - state.settings.in) % 16 < state.settings.count
  BY DEF Channels!MergesARow
<1> DEFINE in    == state.settings.in
           count == state.settings.count
<1>1. channel \in 0 .. 15 /\ in \in 0 .. 15 /\ count \in 1 .. 16
  BY ChannelAssumption DEF ChannelOk, Channels!Settings
<1>2. Channels!Merges(state.settings, channel)
        <=> \/ channel >= in /\ channel < in + count
            \/ channel + 16 >= in /\ channel + 16 < in + count
  BY DEF Channels!Merges
<1> HIDE DEF in, count
<1>3. (channel - in) % 16 = IF channel >= in THEN channel - in ELSE channel - in + 16
  BY <1>1
<1>4. (channel - in) % 16 < count
        <=> \/ channel >= in /\ channel < in + count
            \/ channel + 16 >= in /\ channel + 16 < in + count
  BY <1>1, <1>3
<1> QED
  BY <1>2, <1>4, Zenon DEF in, count

-----------------------------------------------------------------------------
(* The internal clock.                                                     *)

\* The sum of the first n of sixteen numbers, without recursion.
SumOfFirst(n, x) ==
    LET Of(i) == IF i < n THEN x[i] ELSE 0
    IN  Of(0) + Of(1) + Of(2) + Of(3) + Of(4) + Of(5) + Of(6) + Of(7)
          + Of(8) + Of(9) + Of(10) + Of(11) + Of(12) + Of(13) + Of(14) + Of(15)

Quarter(x, k) == x[k] + x[k + 1] + x[k + 2] + x[k + 3]

Sum16(x) == Quarter(x, 0) + Quarter(x, 4) + Quarter(x, 8) + Quarter(x, 12)

LEMMA SumOfAll ==
    ASSUME NEW x \in [0 .. 15 -> Int]
    PROVE  /\ SumOfFirst(16, x) = Sum16(x) /\ SumOfFirst(0, x) = 0
           /\ \A n \in 0 .. 15 : /\ SumOfFirst(n, x) \in Int
                                 /\ SumOfFirst(n + 1, x) = SumOfFirst(n, x) + x[n]
<1>1. \A n \in Int : SumOfFirst(n, x) \in Int
  BY DEF SumOfFirst
<1>2. SumOfFirst(16, x) = Sum16(x) /\ SumOfFirst(0, x) = 0
  BY DEF SumOfFirst, Sum16, Quarter
<1>3. ASSUME NEW n \in 0 .. 15
      PROVE  SumOfFirst(n + 1, x) = SumOfFirst(n, x) + x[n]
  BY DEF SumOfFirst
<1> QED
  BY <1>1, <1>2, <1>3

LEMMA DivBy65536 ==
    ASSUME NEW n \in Int
    PROVE  /\ n \div 65536 \in Int
           /\ 65536 * (n \div 65536) <= n /\ n < 65536 * (n \div 65536) + 65536
  OBVIOUS

LEMMA Remainder65536 ==
    ASSUME NEW n \in Nat, n <= 65535
    PROVE  n % 65536 = n
  OBVIOUS

LEMMA Distributes ==
    ASSUME NEW i \in Int, NEW j \in Int, NEW k \in Int, NEW l \in Int, NEW c \in Int
    PROVE  i * c + j * c + k * c + l * c = (i + j + k + l) * c
  OBVIOUS

LEMMA ScaledUp ==
    ASSUME NEW b \in Nat, NEW a \in Nat, a <= 127
    PROVE  b * a \in Nat /\ b * a <= 127 * b
<1>1. 127 - a \in Nat
  OBVIOUS
<1>2. (127 - a) * b \in Nat
  BY <1>1
<1>3. (127 - a) * b = 127 * b - b * a
  OBVIOUS
<1>4. b * a \in Nat
  OBVIOUS
<1> QED
  BY <1>2, <1>3, <1>4

LEMMA ScaledWithin ==
    ASSUME NEW a \in Int, -127 <= a, a <= 127, NEW c \in Nat
    PROVE  a * c \in Int /\ -(127 * c) <= a * c /\ a * c <= 127 * c
<1>1. 127 - a \in Nat /\ 127 + a \in Nat
  OBVIOUS
<1>2. (127 - a) * c \in Nat /\ (127 + a) * c \in Nat
  BY <1>1
<1>3. (127 - a) * c = 127 * c - a * c /\ (127 + a) * c = 127 * c + a * c
  OBVIOUS
<1>4. a * c \in Int
  OBVIOUS
<1> QED
  BY <1>2, <1>3, <1>4

LEMMA Associates ==
    ASSUME NEW i \in Int, NEW j \in Int, NEW k \in Int
    PROVE  i * j * k = i * (j * k)
  OBVIOUS

GrooveOf(groove) == [i \in 0 .. 15 |-> Tempo!Groove[groove + 1][i + 1]]

\* The steps of a groove that come late are those that come early.
LEMMA GrooveShape ==
    ASSUME NEW groove \in 0 .. 5
    PROVE  /\ GrooveOf(groove) \in [0 .. 15 -> -127 .. 127]
           /\ GrooveOf(groove) \in [0 .. 15 -> Int] /\ Sum16(GrooveOf(groove)) = 0
<1>1. CASE groove = 0
  BY <1>1 DEF GrooveOf, Tempo!Groove, Sum16, Quarter
<1>2. CASE groove = 1
  BY <1>2 DEF GrooveOf, Tempo!Groove, Sum16, Quarter
<1>3. CASE groove = 2
  BY <1>3 DEF GrooveOf, Tempo!Groove, Sum16, Quarter
<1>4. CASE groove = 3
  BY <1>4 DEF GrooveOf, Tempo!Groove, Sum16, Quarter
<1>5. CASE groove = 4
  BY <1>5 DEF GrooveOf, Tempo!Groove, Sum16, Quarter
<1>6. CASE groove = 5
  BY <1>6 DEF GrooveOf, Tempo!Groove, Sum16, Quarter
<1>7. groove = 0 \/ groove = 1 \/ groove = 2 \/ groove = 3 \/ groove = 4 \/ groove = 5
  OBVIOUS
<1> QED
  BY <1>1, <1>2, <1>3, <1>4, <1>5, <1>6, <1>7, Zenon

LEMMA SumOfScaled ==
    ASSUME NEW x \in [0 .. 15 -> Int], NEW c \in Int
    PROVE  Sum16([i \in 0 .. 15 |-> x[i] * c]) = Sum16(x) * c
<1> DEFINE p == [i \in 0 .. 15 |-> x[i] * c]
<1>1. \A k \in {0, 4, 8, 12} : Quarter(p, k) = Quarter(x, k) * c /\ Quarter(x, k) \in Int
  <2> SUFFICES ASSUME NEW k \in {0, 4, 8, 12}
               PROVE  Quarter(p, k) = Quarter(x, k) * c /\ Quarter(x, k) \in Int
    OBVIOUS
  <2>1. /\ p[k] = x[k] * c /\ p[k + 1] = x[k + 1] * c
        /\ p[k + 2] = x[k + 2] * c /\ p[k + 3] = x[k + 3] * c
    OBVIOUS
  <2>2. x[k] \in Int /\ x[k + 1] \in Int /\ x[k + 2] \in Int /\ x[k + 3] \in Int
    OBVIOUS
  <2> HIDE DEF p
  <2> QED
    BY <2>1, <2>2, Distributes DEF Quarter
<1> HIDE DEF p
<1>2. Sum16(p) = Sum16(x) * c
  <2>1. /\ Quarter(p, 0) = Quarter(x, 0) * c /\ Quarter(x, 0) \in Int
        /\ Quarter(p, 4) = Quarter(x, 4) * c /\ Quarter(x, 4) \in Int
        /\ Quarter(p, 8) = Quarter(x, 8) * c /\ Quarter(x, 8) \in Int
        /\ Quarter(p, 12) = Quarter(x, 12) * c /\ Quarter(x, 12) \in Int
    BY <1>1
  <2> QED
    BY <2>1, Distributes DEF Sum16
<1> QED
  BY <1>2 DEF p

\* Sixteen numbers whose sum is zero are divided and rounded down.
LEMMA SumOfRounded ==
    ASSUME NEW p \in [0 .. 15 -> Int], Sum16(p) = 0
    PROVE  Sum16([i \in 0 .. 15 |-> p[i] \div 65536]) \in -15 .. 0
<1> DEFINE f == [i \in 0 .. 15 |-> p[i] \div 65536]
<1>1. \A i \in 0 .. 15 : /\ f[i] \in Int /\ p[i] \in Int
                         /\ 65536 * f[i] <= p[i] /\ p[i] < 65536 * f[i] + 65536
  BY DivBy65536
<1> HIDE DEF f
<1>2. \A k \in {0, 4, 8, 12} :
        /\ Quarter(f, k) \in Int /\ Quarter(p, k) \in Int
        /\ 65536 * Quarter(f, k) <= Quarter(p, k)
        /\ Quarter(p, k) < 65536 * Quarter(f, k) + 262141
  BY <1>1 DEF Quarter
<1>3. Sum16(f) \in -15 .. 0
  <2>1. /\ Quarter(f, 0) \in Int /\ Quarter(p, 0) \in Int
        /\ 65536 * Quarter(f, 0) <= Quarter(p, 0)
        /\ Quarter(p, 0) < 65536 * Quarter(f, 0) + 262141
    BY <1>2
  <2>2. /\ Quarter(f, 4) \in Int /\ Quarter(p, 4) \in Int
        /\ 65536 * Quarter(f, 4) <= Quarter(p, 4)
        /\ Quarter(p, 4) < 65536 * Quarter(f, 4) + 262141
    BY <1>2
  <2>3. /\ Quarter(f, 8) \in Int /\ Quarter(p, 8) \in Int
        /\ 65536 * Quarter(f, 8) <= Quarter(p, 8)
        /\ Quarter(p, 8) < 65536 * Quarter(f, 8) + 262141
    BY <1>2
  <2>4. /\ Quarter(f, 12) \in Int /\ Quarter(p, 12) \in Int
        /\ 65536 * Quarter(f, 12) <= Quarter(p, 12)
        /\ Quarter(p, 12) < 65536 * Quarter(f, 12) + 262141
    BY <1>2
  <2>5. Quarter(p, 0) + Quarter(p, 4) + Quarter(p, 8) + Quarter(p, 12) = 0
    BY DEF Sum16
  <2> DEFINE all == Quarter(f, 0) + Quarter(f, 4) + Quarter(f, 8) + Quarter(f, 12)
  <2>6. all \in Int /\ 65536 * all <= 0 /\ 0 < 65536 * all + 1048564
    BY <2>1, <2>2, <2>3, <2>4, <2>5
  <2> HIDE DEF all
  <2>7. all \in -15 .. 0
    BY <2>6
  <2> QED
    BY <2>7 DEF all, Sum16
<1> QED
  BY <1>3 DEF f

ClockSteps == 0 .. 15

\* The ranges that the proofs do not look into.
GrooveIndex == 0 .. 5
GrooveAmount == 0 .. 127
TempoTenths == 400 .. 2409
LiveTempo == 10 .. 255
Short(base) == base <= 50000
NearSixteen(sum, base) == sum \in 16 * base - 15 .. 16 * base

\* With a groove the longest interval is longer by a quarter.
ClockFits(base, amount) == Short(base) \/ (amount = 0 /\ Tempo!InWord(base))

\* The intervals of a groove, each in 16 bits: sixteen of them, with the tick that
\* each adds, are as long as sixteen of the straight ones, or shorter by up to 15.
LEMMA IntervalsOk ==
    ASSUME NEW groove \in GrooveIndex, NEW amount \in GrooveAmount, NEW base \in Nat,
           ClockFits(base, amount)
    PROVE  /\ Tempo!Intervals(base, groove, amount) \in [ClockSteps -> Nat]
           /\ NearSixteen(Sum16(Tempo!Intervals(base, groove, amount)), base)
<1> DEFINE g == GrooveOf(groove)
           c == base * amount
           f == [i \in 0 .. 15 |-> (g[i] * c) \div 65536]
           x == Tempo!Intervals(base, groove, amount)
<1>1. g \in [0 .. 15 -> -127 .. 127] /\ g \in [0 .. 15 -> Int] /\ Sum16(g) = 0
  BY GrooveShape DEF GrooveIndex
<1>2. x = [i \in 0 .. 15 |-> (base + ((g[i] * base * amount) \div 65536)) % 65536]
  <2>1. Tempo!GrooveStep = 0 .. 15
    BY DEF Tempo!GrooveStep, Tempo!kNumStepsInGroovePattern
  <2>2. x = [i \in Tempo!GrooveStep |->
               (base + ((Tempo!Groove[groove + 1][i + 1] * base * amount) \div 65536)) % 65536]
    BY DEF x, Tempo!Intervals
  <2> QED
    BY <2>1, <2>2 DEF g, GrooveOf
<1> HIDE DEF g, x
<1>3. c \in Nat /\ c <= 127 * base /\ (amount = 0 => c = 0)
  <2>1. base \in Nat /\ amount \in Nat /\ amount <= 127
    BY DEF GrooveAmount
  <2>2. c \in Nat /\ c <= 127 * base
    BY <2>1, ScaledUp
  <2>3. amount = 0 => c = 0
    BY <2>1
  <2> QED
    BY <2>2, <2>3
<1> HIDE DEF c
<1>4. ASSUME NEW i \in 0 .. 15
      PROVE  g[i] \in Int /\ g[i] * base * amount = g[i] * c
  <2>1. base \in Int /\ amount \in Int /\ g[i] \in Int
    BY <1>1 DEF GrooveAmount
  <2>2. g[i] * base * amount = g[i] * (base * amount)
    BY <2>1, Associates
  <2> QED
    BY <2>1, <2>2 DEF c
<1>5. g \in [0 .. 15 -> Int]
  BY <1>1
<1>6. x = [i \in 0 .. 15 |-> x[i]] /\ \A i \in 0 .. 15 : x[i] = (base + f[i]) % 65536
  <2>1. x = [i \in 0 .. 15 |-> x[i]]
    BY <1>2
  <2>2. ASSUME NEW i \in 0 .. 15 PROVE x[i] = (base + f[i]) % 65536
    <3> DEFINE m == g[i] * base * amount
               n == g[i] * c
    <3>1. x[i] = (base + (m \div 65536)) % 65536
      BY <1>2
    <3>2. f[i] = n \div 65536
      OBVIOUS
    <3>3. m = n
      BY <1>4
    <3> HIDE DEF f, m, n
    <3> QED
      BY <3>1, <3>2, <3>3
  <2> QED
    BY <2>1, <2>2
<1> HIDE DEF c
<1>7. Sum16(f) \in -15 .. 0
  <2> DEFINE p == [i \in 0 .. 15 |-> g[i] * c]
  <2>1. p \in [0 .. 15 -> Int]
    BY <1>3, <1>5
  <2>2. Sum16(p) = 0
    BY <1>1, <1>3, <1>5, SumOfScaled
  <2>3. f = [i \in 0 .. 15 |-> p[i] \div 65536]
    OBVIOUS
  <2> HIDE DEF p, f
  <2> QED
    BY <2>1, <2>2, <2>3, SumOfRounded
<1>8. ASSUME NEW i \in 0 .. 15
      PROVE  f[i] \in Int /\ base + f[i] \in Nat /\ base + f[i] <= 65535
  <2> DEFINE q == g[i] * c
             k == f[i]
  <2>1. g[i] \in Int /\ -127 <= g[i] /\ g[i] <= 127
    <3>1. g[i] \in -127 .. 127
      BY <1>1
    <3> QED
      BY <3>1
  <2>2. q \in Int /\ -(127 * c) <= q /\ q <= 127 * c
    BY <1>3, <2>1, ScaledWithin
  <2>3. k = q \div 65536
    OBVIOUS
  <2> HIDE DEF k, q
  <2>4. k \in Int /\ 65536 * k <= q /\ q < 65536 * k + 65536
    BY <2>2, <2>3, DivBy65536
  <2>5. CASE amount = 0
    <3>1. k = 0
      BY <1>3, <2>2, <2>4, <2>5
    <3>2. base <= 65535
      BY DEF ClockFits, Short, Tempo!InWord
    <3> QED
      BY <3>1, <3>2 DEF k
  <2>6. CASE amount # 0
    <3>1. base <= 50000
      BY <2>6 DEF ClockFits, Short
    <3>2. base + k \in Nat /\ base + k <= 65535
      BY <1>3, <2>2, <2>4, <3>1
    <3> QED
      BY <2>4, <3>2 DEF k
  <2> QED
    BY <2>5, <2>6
<1> HIDE DEF f
<1>9. ASSUME NEW i \in 0 .. 15 PROVE x[i] = base + f[i]
  <2> DEFINE v == base + f[i]
  <2>1. x[i] = v % 65536 /\ v \in Nat /\ v <= 65535
    BY <1>6, <1>8
  <2> HIDE DEF v
  <2>2. v % 65536 = v
    BY <2>1, Remainder65536
  <2> QED
    BY <2>1, <2>2 DEF v
<1>10. \A i \in 0 .. 15 : x[i] \in Nat
  BY <1>8, <1>9
<1>11. x \in [0 .. 15 -> Nat]
  BY <1>6, <1>10
<1>12. Sum16(x) = 16 * base + Sum16(f)
  <2>1. \A i \in 0 .. 15 : f[i] \in Int /\ x[i] = base + f[i]
    BY <1>8, <1>9
  <2>2. \A k \in {0, 4, 8, 12} :
          Quarter(f, k) \in Int /\ Quarter(x, k) = 4 * base + Quarter(f, k)
    BY <2>1 DEF Quarter
  <2> QED
    BY <2>2 DEF Sum16
<1>13. NearSixteen(Sum16(x), base)
  BY <1>7, <1>12 DEF NearSixteen
<1> QED
  BY <1>11, <1>13 DEF x, ClockSteps

ClockFields ==
    {"intervals", "interval", "running", "tick_count", "step_count", "base", "span", "updated"}

\* Until the tempo or the groove is updated, what passed of the pattern is the sum of
\* the intervals of its steps, of which the current one is loaded.
ClockSteady(s) ==
    /\ s.intervals \in [ClockSteps -> Nat]
    /\ NearSixteen(Sum16(s.intervals), s.base)
    /\ ~s.updated =>
         /\ s.interval = s.intervals[s.step_count]
         /\ s.span = ClockParams.kNumTicksPerStep
                       * (SumOfFirst(s.step_count, s.intervals) + s.step_count)
                     + s.tick_count * (s.interval + 1)

ClockOk(s) ==
    /\ DOMAIN s = ClockFields /\ s.base \in Int /\ s.updated \in BOOLEAN
    /\ s.step_count \in 0 .. 15 /\ s.tick_count \in Nat
    /\ s.tick_count < ClockParams.kNumTicksPerStep
    /\ Tempo!InWord(s.base) => ClockSteady(s)

LEMMA ClockTicks == ClockParams.kNumTicksPerStep \in Nat \ {0}
  BY ClockAssumption

LEMMA ClockChoices ==
    /\ ClockParams.Tempos \subseteq TempoTenths /\ ClockParams.LiveBpms \subseteq LiveTempo
    /\ ClockParams.Ratios \subseteq (1 .. 16) \X (1 .. 16)
    /\ ClockParams.Grooves \subseteq GrooveIndex /\ ClockParams.Amounts \subseteq GrooveAmount
  BY ClockAssumption DEF TempoTenths, LiveTempo, GrooveIndex, GrooveAmount

\* A quotient is at most what it is by a smaller divisor.
LEMMA Quotient ==
    ASSUME NEW n \in Nat, NEW d \in Nat \ {0}, NEW e \in Nat \ {0}, e <= d, d <= n
    PROVE  n \div d \in Nat /\ n \div d >= 1 /\ e * (n \div d) <= n
<1> DEFINE q == n \div d
<1>1. q \in Int /\ d * q <= n /\ n < d * q + d
  OBVIOUS
<1> HIDE DEF q
<1>2. q >= 1
  <2>1. SUFFICES ASSUME q <= 0 PROVE FALSE
    BY <1>1
  <2>2. d * (-q) >= 0
    BY <1>1, <2>1
  <2>3. d * q <= 0
    BY <1>1, <2>2
  <2> QED
    BY <1>1, <2>3
<1>3. (d - e) * q >= 0
  BY <1>1, <1>2
<1>4. e * q <= d * q
  BY <1>1, <1>3
<1> QED
  BY <1>1, <1>2, <1>4 DEF q

LEMMA BaseOk ==
    ASSUME NEW tempo \in TempoTenths
    PROVE  Tempo!BaseDuration(tempo) \in Nat /\ Short(Tempo!BaseDuration(tempo))
<1> DEFINE n == 7812500
           q == n \div tempo
<1>1. n \in Nat /\ tempo \in Nat \ {0} /\ 400 \in Nat \ {0} /\ 400 <= tempo /\ tempo <= n
  BY DEF TempoTenths
<1> HIDE DEF n
<1>2. q \in Nat /\ q >= 1 /\ 400 * q <= n
  BY <1>1, Quotient
<1> HIDE DEF q
<1>3. q - 1 \in Nat /\ q - 1 <= 50000
  BY <1>2 DEF n
<1> QED
  BY <1>3 DEF Tempo!BaseDuration, Short, q, n

LEMMA FractionalOk ==
    ASSUME NEW bpm \in LiveTempo, NEW ratio \in (1 .. 16) \X (1 .. 16)
    PROVE  Tempo!FractionalDuration(bpm, ratio) \in Nat
<1> DEFINE r == ratio[1]
           n == 781250 * ratio[2]
           d == bpm * r
           q == n \div d
<1>1. r \in 1 .. 16 /\ ratio[2] \in 1 .. 16 /\ bpm \in 10 .. 255
  BY DEF LiveTempo
<1> HIDE DEF r
<1>2. d \in Nat \ {0} /\ d <= 4080
  BY <1>1
<1>3. n \in Nat /\ n >= 781250
  BY <1>1
<1> HIDE DEF d, n
<1>4. q \in Nat /\ q >= 1
  <2>1. d <= n /\ d <= d
    BY <1>2, <1>3
  <2> QED
    BY <1>2, <1>3, <2>1, Quotient
<1> HIDE DEF q
<1>5. q - 1 \in Nat
  BY <1>4
<1> QED
  BY <1>5 DEF Tempo!FractionalDuration, q, d, n, r

LEMMA ClockUpdated ==
    ASSUME ClockOk(state), NEW groove \in GrooveIndex, NEW amount \in GrooveAmount,
           NEW base \in Nat, Short(base) \/ amount = 0, Tempo!Updated(base, groove, amount)
    PROVE  ClockOk(state')
<1> DEFINE x == Tempo!Intervals(base, groove, amount)
<1>1. ASSUME Tempo!InWord(base)
      PROVE  x \in [ClockSteps -> Nat] /\ NearSixteen(Sum16(x), base)
  <2>1. ClockFits(base, amount)
    BY <1>1, Zenon DEF ClockFits
  <2> QED
    BY <2>1, IntervalsOk, Zenon
<1> HIDE DEF x
<1>2. /\ DOMAIN state' = ClockFields
      /\ state'.intervals = x /\ state'.base = base /\ state'.updated = TRUE
      /\ state'.step_count = state.step_count /\ state'.tick_count = state.tick_count
  BY DEF Tempo!Updated, ClockOk, ClockFields, x
<1>3. Tempo!InWord(state'.base) => ClockSteady(state')
  <2> SUFFICES ASSUME Tempo!InWord(state'.base) PROVE ClockSteady(state')
    OBVIOUS
  <2>1. x \in [ClockSteps -> Nat] /\ NearSixteen(Sum16(x), base)
    BY <1>1, <1>2, Zenon
  <2> QED
    BY <1>2, <2>1, Zenon DEF ClockSteady
<1>4. /\ state.step_count \in 0 .. 15 /\ state.tick_count \in Nat
      /\ state.tick_count < ClockParams.kNumTicksPerStep
  BY DEF ClockOk
<1>5. base \in Int /\ TRUE \in BOOLEAN
  OBVIOUS
<1> QED
  BY <1>2, <1>3, <1>4, <1>5, Zenon DEF ClockOk

LEMMA Lengthened ==
    ASSUME NEW k \in Int, NEW v \in Int
    PROVE  (k + 1) * (v + 1) = k * (v + 1) + (v + 1) /\ k * (v + 1) \in Int
  OBVIOUS

LEMMA Stretched ==
    ASSUME NEW k \in Int, NEW a \in Int, NEW v \in Int
    PROVE  /\ (k + 1) * (a + (v + 1)) = (k + 1) * a + k * (v + 1) + (v + 1)
           /\ (k + 1) * a \in Int
<1>1. (k + 1) * (a + (v + 1)) = (k + 1) * a + (k + 1) * (v + 1)
  OBVIOUS
<1>2. (k + 1) * (v + 1) = k * (v + 1) + (v + 1)
  OBVIOUS
<1> QED
  BY <1>1, <1>2

LEMMA ClockTick ==
    ASSUME ClockOk(state), Tempo!Tick
    PROVE  ClockOk(state')
<1> DEFINE T    == ClockParams.kNumTicksPerStep
           ends == state.tick_count + 1 = T
           step == IF ends THEN (state.step_count + 1) % 16 ELSE state.step_count
           begins == ends /\ step = 0
           x == state.intervals
           n == state.step_count
           k == state.tick_count
           v == state.interval
           S(m) == SumOfFirst(m, x) + m
<1>1. /\ DOMAIN state = ClockFields /\ state.base \in Int /\ state.updated \in BOOLEAN
      /\ n \in 0 .. 15 /\ k \in Nat /\ k < T /\ T \in Nat \ {0}
  BY ClockTicks DEF ClockOk
<1>2. /\ DOMAIN state' = ClockFields /\ state'.base = state.base /\ state'.intervals = x
      /\ state'.tick_count = IF ends THEN 0 ELSE k + 1
      /\ state'.step_count = step
      /\ state'.interval = IF ends THEN x[step] ELSE v
      /\ state'.span = IF begins \/ state.updated THEN 0 ELSE state.span + v + 1
      /\ state'.updated = (state.updated /\ ~begins)
  BY <1>1 DEF Tempo!Tick, ClockFields, Tempo!kNumStepsInGroovePattern
<1>3. step \in 0 .. 15 /\ (ends => step = IF n = 15 THEN 0 ELSE n + 1)
  <2>1. 16 \in Nat \ {0} /\ n \in 0 .. 16 - 1
    BY <1>1
  <2>2. (n + 1) % 16 = IF n + 1 = 16 THEN 0 ELSE n + 1
    BY <2>1, RemainderUp, Zenon
  <2> QED
    BY <1>1, <2>2
<1>4. state'.tick_count \in Nat /\ state'.tick_count < T
  BY <1>1, <1>2
<1>5. state'.updated \in BOOLEAN
  BY <1>1, <1>2, Zenon
<1> HIDE DEF step, begins, x
<1>6. ASSUME Tempo!InWord(state.base)
      PROVE  ClockSteady(state')
  <2>1. /\ x \in [ClockSteps -> Nat] /\ NearSixteen(Sum16(x), state.base)
        /\ ~state.updated => /\ v = x[n]
                             /\ state.span = T * S(n) + k * (v + 1)
    BY <1>1, <1>6 DEF ClockOk, ClockSteady, x
  <2>2. x \in [0 .. 15 -> Int]
    BY <2>1 DEF ClockSteps
  <2>3. /\ SumOfFirst(0, x) = 0 /\ SumOfFirst(n + 1, x) = SumOfFirst(n, x) + x[n]
        /\ SumOfFirst(n, x) \in Int
    BY <1>1, <2>2, SumOfAll
  <2>4. x[n] \in Int /\ x[step] \in Int
    BY <1>1, <1>3, <2>2
  <2>5. S(0) = 0 /\ S(n + 1) = S(n) + (x[n] + 1) /\ S(n) \in Int
    BY <1>1, <2>3, <2>4
  <2> HIDE DEF S
  <2>6. ASSUME ~state'.updated
        PROVE  /\ state'.interval = x[step]
               /\ state'.span = T * S(step) + state'.tick_count * (state'.interval + 1)
    <3>1. CASE begins
      <4>1. step = 0 /\ ends
        BY <3>1 DEF begins
      <4>2. state'.span = 0 /\ state'.tick_count = 0 /\ state'.interval = x[step]
        BY <1>2, <3>1, <4>1
      <4> QED
        BY <1>1, <2>4, <2>5, <4>1, <4>2
    <3>2. CASE ~begins
      <4>1. ~state.updated
        BY <1>2, <2>6, <3>2
      <4>2. v = x[n] /\ state.span = T * S(n) + k * (v + 1) /\ v \in Int
        BY <2>1, <2>4, <4>1
      <4>3. state'.span = T * S(n) + k * (v + 1) + (v + 1)
        <5>1. state'.span = state.span + v + 1
          BY <1>2, <3>2, <4>1
        <5>2. T * S(n) \in Int /\ k * (v + 1) \in Int
          BY <1>1, <2>5, <4>2
        <5> QED
          BY <4>2, <5>1, <5>2
      <4>4. CASE ends
        <5>1. step = n + 1 /\ state'.tick_count = 0 /\ state'.interval = x[step] /\ k + 1 = T
          BY <1>1, <1>2, <1>3, <3>2, <4>4 DEF begins
        <5>2. S(step) = S(n) + (v + 1)
          BY <2>5, <4>2, <5>1
        <5>3. T * S(step) = T * S(n) + k * (v + 1) + (v + 1)
          <6>1. T \in Int /\ k \in Int /\ k + 1 = T /\ S(n) \in Int /\ v \in Int
            BY <1>1, <2>5, <4>2, <5>1
          <6>2. (k + 1) * (S(n) + (v + 1)) = (k + 1) * S(n) + k * (v + 1) + (v + 1)
            BY <6>1, Stretched, ZenonT(30)
          <6> QED
            BY <5>2, <6>1, <6>2, Zenon
        <5>4. 0 * (x[step] + 1) = 0 /\ T * S(step) \in Int
          BY <1>1, <2>4, <2>5, <4>2, <5>2
        <5> QED
          BY <4>3, <5>1, <5>3, <5>4
      <4>5. CASE ~ends
        <5>1. step = n /\ state'.tick_count = k + 1 /\ state'.interval = v
          BY <1>2, <4>5 DEF step
        <5>2. k \in Int
          BY <1>1
        <5>3. (k + 1) * (v + 1) = k * (v + 1) + (v + 1) /\ k * (v + 1) \in Int
          BY <4>2, <5>2, Lengthened, Zenon
        <5>4. T * S(n) \in Int
          BY <1>1, <2>5
        <5> QED
          BY <4>2, <4>3, <5>1, <5>3, <5>4
      <4> QED
        BY <4>4, <4>5
    <3> QED
      BY <3>1, <3>2
  <2> QED
    BY <1>2, <2>1, <2>6 DEF ClockSteady, S
<1> QED
  BY <1>1, <1>2, <1>3, <1>4, <1>5, <1>6, Zenon DEF ClockOk

LEMMA ClockInit == Tempo!Init => ClockOk(state)
<1> SUFFICES ASSUME Tempo!Init PROVE ClockOk(state)
  OBVIOUS
<1> DEFINE base == Tempo!BaseDuration(1200)
           x    == Tempo!Intervals(base, 0, 0)
<1>1. /\ DOMAIN state = ClockFields /\ state.base = base /\ state.intervals = x
      /\ state.updated = TRUE /\ state.step_count = 0 /\ state.tick_count = 0
  BY DEF Tempo!Init, ClockFields
<1>2. base \in Nat /\ Short(base)
  <2>1. 1200 \in TempoTenths
    BY DEF TempoTenths
  <2> QED
    BY <2>1, BaseOk
<1> HIDE DEF base
<1>3. ClockFits(base, 0) /\ 0 \in GrooveIndex /\ 0 \in GrooveAmount
  BY <1>2 DEF ClockFits, GrooveIndex, GrooveAmount
<1>4. x \in [ClockSteps -> Nat] /\ NearSixteen(Sum16(x), base)
  BY <1>2, <1>3, IntervalsOk, Zenon
<1> HIDE DEF x
<1>5. /\ base \in Int /\ TRUE \in BOOLEAN /\ 0 \in 0 .. 15
      /\ 0 \in Nat /\ 0 < ClockParams.kNumTicksPerStep
  BY <1>2, ClockTicks
<1>6. ClockSteady(state)
  BY <1>1, <1>4, Zenon DEF ClockSteady
<1> QED
  BY <1>1, <1>5, <1>6, Zenon DEF ClockOk

LEMMA ClockStart ==
    ASSUME ClockOk(state), Tempo!Start
    PROVE  ClockOk(state')
<1> DEFINE x == state.intervals
           T == ClockParams.kNumTicksPerStep
<1>1. /\ DOMAIN state' = ClockFields /\ state'.base = state.base /\ state'.intervals = x
      /\ state'.updated = FALSE /\ state'.step_count = 0 /\ state'.tick_count = 0
      /\ state'.interval = x[0] /\ state'.span = 0
  BY DEF Tempo!Start, ClockOk, ClockFields
<1>2. state.base \in Int /\ (Tempo!InWord(state.base) => ClockSteady(state))
  BY Zenon DEF ClockOk
<1>3. ASSUME Tempo!InWord(state.base) PROVE ClockSteady(state')
  <2>1. x \in [ClockSteps -> Nat] /\ NearSixteen(Sum16(x), state.base)
    BY <1>2, <1>3, Zenon DEF ClockSteady
  <2>2. x \in [0 .. 15 -> Int]
    BY <2>1 DEF ClockSteps
  <2>3. SumOfFirst(0, x) = 0 /\ x[0] \in Int
    BY <2>2, SumOfAll
  <2> HIDE DEF x, T
  <2>4. 0 = T * (SumOfFirst(0, x) + 0) + 0 * (x[0] + 1)
    BY <2>3, ClockTicks DEF T
  <2> QED
    BY <1>1, <2>1, <2>4, Zenon DEF ClockSteady, T
<1>4. FALSE \in BOOLEAN /\ 0 \in 0 .. 15 /\ 0 \in Nat /\ 0 < ClockParams.kNumTicksPerStep
  BY ClockTicks
<1> QED
  BY <1>1, <1>2, <1>3, <1>4, Zenon DEF ClockOk

LEMMA ClockNext == ClockOk(state) /\ Tempo!Next => ClockOk(state')
<1> SUFFICES ASSUME ClockOk(state), Tempo!Next PROVE ClockOk(state')
  OBVIOUS
<1>1. ASSUME NEW groove \in ClockParams.Grooves, NEW amount \in ClockParams.Amounts,
             NEW tempo \in ClockParams.Tempos, Tempo!Update(tempo, groove, amount)
      PROVE  ClockOk(state')
  <2>1. groove \in GrooveIndex /\ amount \in GrooveAmount /\ tempo \in TempoTenths
    BY ClockChoices, Zenon
  <2> DEFINE base == Tempo!BaseDuration(tempo)
  <2>2. base \in Nat /\ Short(base)
    BY <2>1, BaseOk, Zenon
  <2>3. Tempo!Updated(base, groove, amount)
    BY <1>1, Zenon DEF Tempo!Update
  <2> HIDE DEF base
  <2> QED
    BY <2>1, <2>2, <2>3, ClockUpdated, Zenon
<1>2. ASSUME NEW bpm \in ClockParams.LiveBpms, NEW ratio \in ClockParams.Ratios,
             Tempo!UpdateFractional(bpm, ratio)
      PROVE  ClockOk(state')
  <2>1. bpm \in LiveTempo /\ ratio \in (1 .. 16) \X (1 .. 16)
    BY ClockChoices, Zenon
  <2>2. 0 \in GrooveIndex /\ 0 \in GrooveAmount
    BY DEF GrooveIndex, GrooveAmount
  <2> DEFINE base == Tempo!FractionalDuration(bpm, ratio)
  <2>3. base \in Nat
    BY <2>1, FractionalOk, Zenon
  <2>4. Tempo!Updated(base, 0, 0)
    BY <1>2, Zenon DEF Tempo!UpdateFractional
  <2> HIDE DEF base
  <2> QED
    BY <2>2, <2>3, <2>4, ClockUpdated, Zenon
<1>3. CASE Tempo!Stop
  <2>1. /\ DOMAIN state' = ClockFields /\ state'.base = state.base
        /\ state'.intervals = state.intervals /\ state'.updated = state.updated
        /\ state'.step_count = state.step_count /\ state'.tick_count = state.tick_count
        /\ state'.interval = state.interval /\ state'.span = state.span
    BY <1>3 DEF Tempo!Stop, ClockOk, ClockFields
  <2>2. ClockSteady(state) => ClockSteady(state')
    BY <2>1, Zenon DEF ClockSteady
  <2> QED
    BY <2>1, <2>2, Zenon DEF ClockOk
<1> QED
  BY <1>1, <1>2, <1>3, ClockStart, ClockTick, Zenon DEF Tempo!Next

\* The sum of the rounded intervals is short of that of the straight ones by less than
\* a count for each.
LEMMA ClockKeepsTempo == ClockOk(state) => Tempo!GrooveKeepsTempo
<1> DEFINE T == ClockParams.kNumTicksPerStep
           x == state.intervals
           v == state.interval
           b == state.base
           length == state.span + v + 1
<1> SUFFICES ASSUME ClockOk(state), state.step_count = 15, state.tick_count = T - 1,
                    ~state.updated, Tempo!InWord(b)
             PROVE  length \in 16 * T * b .. 16 * T * (b + 1)
  <2>1. 16 - 1 = 15
    OBVIOUS
  <2> QED
    BY <2>1, Zenon DEF Tempo!GrooveKeepsTempo, Tempo!kNumStepsInGroovePattern
<1>1. ClockSteady(state) /\ b \in Int /\ T \in Nat \ {0}
  BY ClockTicks, Zenon DEF ClockOk
<1>2. /\ x \in [ClockSteps -> Nat] /\ NearSixteen(Sum16(x), b) /\ v = x[15]
      /\ state.span = T * (SumOfFirst(15, x) + 15) + (T - 1) * (v + 1)
  BY <1>1, Zenon DEF ClockSteady
<1>3. x \in [0 .. 15 -> Int]
  BY <1>2 DEF ClockSteps
<1> HIDE DEF x
<1> DEFINE s == SumOfFirst(15, x)
           a == s + 15 + (v + 1)
<1>4. v \in Int /\ s \in Int /\ Sum16(x) = s + v
  <2>1. 15 \in 0 .. 15 /\ 15 + 1 = 16
    OBVIOUS
  <2> QED
    BY <1>2, <1>3, <2>1, SumOfAll
<1> HIDE DEF s, v, b
<1>5. a \in Int /\ 16 * b <= a /\ a <= 16 * (b + 1)
  BY <1>1, <1>2, <1>4 DEF NearSixteen
<1>6. length = T * a
  <2>1. T \in Int /\ T - 1 \in Int /\ s + 15 \in Int /\ (T - 1) + 1 = T
    BY <1>1, <1>4
  <2> DEFINE c == s + 15
             k == T - 1
  <2>2. c \in Int /\ k \in Int /\ k + 1 = T
    BY <2>1
  <2>3. state.span = T * c + k * (v + 1)
    BY <1>2 DEF s
  <2> HIDE DEF c, k
  <2>4. T * (c + (v + 1)) = T * c + k * (v + 1) + (v + 1) /\ T * c \in Int
    <3>1. /\ (k + 1) * (c + (v + 1)) = (k + 1) * c + k * (v + 1) + (v + 1)
          /\ (k + 1) * c \in Int
      BY <1>4, <2>2, Stretched, ZenonT(30)
    <3> QED
      BY <2>2, <3>1, Zenon
  <2>5. k * (v + 1) \in Int
    BY <1>4, <2>2
  <2>6. length = T * (c + (v + 1))
    BY <1>4, <2>3, <2>4, <2>5
  <2> QED
    BY <2>6 DEF c
<1> HIDE DEF a, length
<1>7. T * (a - 16 * b) >= 0 /\ T * (16 * (b + 1) - a) >= 0
  <2>1. a - 16 * b \in Nat /\ 16 * (b + 1) - a \in Nat
    BY <1>1, <1>5
  <2> QED
    BY <1>1, <2>1
<1>8. /\ T * (a - 16 * b) = T * a - 16 * T * b
      /\ T * (16 * (b + 1) - a) = 16 * T * (b + 1) - T * a
      /\ T * a \in Int /\ 16 * T * b \in Int /\ 16 * T * (b + 1) \in Int
  BY <1>1, <1>5
<1> QED
  BY <1>6, <1>7, <1>8

-----------------------------------------------------------------------------
(* The main loop and the EEPROM.                                           *)

LoopFields ==
    {"pc", "eeprom", "ram", "launched", "declared", "selected", "editing", "page", "from", "turn",
     "spun", "index", "todo", "kept", "mishap"}

LoopQueue(todo) == \E values : todo \in Seq(Loop!Cell \X values)

\* What is left to be written is what the memory has.
LoopTodo(s) == \A k \in DOMAIN s.todo : s.todo[k][2] = s.ram[s.todo[k][1]]

\* The page shown, in an application, is one of its settings.
LoopShown(s, page) == page \in Nat /\ page < Loop!settings_size(s.launched)

LoopPage(s) ==
    s.pc \in {"events", "scroll"} /\ s.launched # Loop!Selector =>
      /\ s.declared = s.launched /\ s.launched \in Loop!App
      /\ LoopShown(s, s.page) /\ (s.pc = "scroll" => LoopShown(s, s.from))

\* A reset has written the factory's bytes of the applications that it passed, or is
\* about to.
LoopReset(s) ==
    s.pc = "reset" =>
      /\ \A k \in DOMAIN s.todo : s.todo[k][2] = Loop!Factory(s.todo[k][1])
      /\ \A c \in Loop!Cell : c[1] \in 1 .. s.index - 1 =>
           \/ s.eeprom[Loop!At(c)] = Loop!Factory(c)
           \/ \E k \in DOMAIN s.todo : s.todo[k][1] = c

LoopKept(s) == \A c \in Loop!Cell : s.eeprom[Loop!At(c)] \in s.kept[c]

\* The application that the next boot launches has an index.
LoopLaunch(s) ==
    s.eeprom[Loop!At(Loop!Active)] \in Nat /\ s.ram[Loop!Active] \in Nat /\ s.selected \in Nat

LoopShape(s) ==
    /\ DOMAIN s = LoopFields /\ DOMAIN s.eeprom = Loop!Address
    /\ DOMAIN s.ram = Loop!Cell /\ DOMAIN s.kept = Loop!Cell
    /\ LoopLaunch(s) /\ LoopQueue(s.todo) /\ LoopPage(s)
    /\ s.page \in Nat /\ s.from \in Nat /\ s.turn \in {-1, 1}
    /\ s.pc = "reset" => s.index \in 1 .. Loop!num_apps

LoopSteady(s) == LoopKept(s) /\ LoopTodo(s) /\ LoopReset(s)

\* After a mishap the settings are not claimed until the next boot.
LoopOk(s) == LoopShape(s) /\ (s.mishap = "none" => LoopSteady(s))

LEMMA LoopSizes ==
    /\ Loop!settings_size(1) \in Nat /\ Loop!settings_size(1) >= 2
    /\ Loop!settings_size(1) > LoopParams.Tracks /\ LoopParams.Tracks \in Nat
    /\ \A app : app # 1 => Loop!settings_size(app) = 1
<1> DEFINE T == LoopParams.Tracks
           K == LoopParams.kNumSteps
           p == T * K
<1>1. T \in Nat \ {0} /\ K \in Nat
  BY LoopAssumption
<1>2. p \in Nat
  BY <1>1
<1>3. Loop!settings_size(1) = T + 1 + p
  BY DEF Loop!settings_size, Loop!Sequencer
<1> HIDE DEF p, T
<1>4. /\ Loop!settings_size(1) \in Nat /\ Loop!settings_size(1) >= 2
      /\ Loop!settings_size(1) > T /\ T \in Nat
  BY <1>1, <1>2, <1>3
<1>5. \A app : app # 1 => Loop!settings_size(app) = 1
  BY DEF Loop!settings_size, Loop!Sequencer
<1> QED
  BY <1>4, <1>5 DEF T

\* No two settings share a byte.
LEMMA LoopAt ==
    /\ \A c \in Loop!Cell : Loop!At(c) \in Loop!Address
    /\ \A c \in Loop!Cell, d \in Loop!Cell : Loop!At(c) = Loop!At(d) => c = d
<1> DEFINE S == Loop!settings_size(1)
<1>1. S \in Nat /\ S >= 2
  BY LoopSizes
<1>2. /\ Loop!settings_size(Loop!Sequencer) = S
      /\ Loop!settings_size(0) = 1 /\ Loop!settings_size(2) = 1
  BY LoopSizes DEF Loop!Sequencer
<1>3. ASSUME NEW c \in Loop!Cell
      PROVE  /\ c = <<c[1], c[2]>> /\ c[2] \in 0 .. S - 1
             /\ \/ c[1] = 0 /\ c[2] = 0 /\ Loop!At(c) = S
                \/ c[1] = 1 /\ Loop!At(c) = c[2]
                \/ c[1] = 2 /\ c[2] = 0 /\ Loop!At(c) = S + 2
  <2>1. c \in Loop!App \X (0 .. S - 1) /\ c[2] < Loop!settings_size(c[1])
    BY <1>2 DEF Loop!Cell
  <2>2. c = <<c[1], c[2]>> /\ c[1] \in {0, 1, 2} /\ c[2] \in 0 .. S - 1
    BY <2>1 DEF Loop!App, Loop!num_apps
  <2>3. Loop!At(c) = Loop!settings_offset(c[1]) + c[2]
    BY DEF Loop!At
  <2>4. /\ Loop!settings_offset(0) = S /\ Loop!settings_offset(1) = 0
        /\ Loop!settings_offset(2) = S + 2
    BY <1>2 DEF Loop!settings_offset, Loop!Sequencer, Loop!Selector, Loop!Settings
  <2> HIDE DEF S
  <2>5. CASE c[1] = 0
    BY <1>1, <1>2, <2>1, <2>2, <2>3, <2>4, <2>5
  <2>6. CASE c[1] = 1
    BY <1>1, <1>2, <2>1, <2>2, <2>3, <2>4, <2>6
  <2>7. CASE c[1] = 2
    BY <1>1, <1>2, <2>1, <2>2, <2>3, <2>4, <2>7
  <2> QED
    BY <2>2, <2>5, <2>6, <2>7
<1>4. Loop!Address = 0 .. S + S
  BY <1>2 DEF Loop!Address, Loop!settings_offset, Loop!Sequencer, Loop!Selector, Loop!Settings
<1> HIDE DEF S
<1>5. \A c \in Loop!Cell : Loop!At(c) \in Loop!Address
  <2> SUFFICES ASSUME NEW c \in Loop!Cell PROVE Loop!At(c) \in Loop!Address
    OBVIOUS
  <2> DEFINE a == Loop!At(c)
             i == c[2]
  <2>1. i \in 0 .. S - 1 /\ (a = S \/ a = i \/ a = S + 2)
    BY <1>3
  <2> HIDE DEF a, i
  <2>2. a \in 0 .. S + S
    BY <1>1, <2>1
  <2> QED
    BY <1>4, <2>2 DEF a
<1>6. ASSUME NEW c \in Loop!Cell, NEW d \in Loop!Cell, Loop!At(c) = Loop!At(d)
      PROVE  c = d
  <2>1. c[1] = d[1] /\ c[2] = d[2]
    BY <1>1, <1>3, <1>6
  <2> QED
    BY <1>3, <2>1, Zenon
<1> QED
  BY <1>5, <1>6

LEMMA LoopCell ==
    ASSUME NEW app \in Loop!App, NEW page \in Nat, page < Loop!settings_size(app)
    PROVE  <<app, page>> \in Loop!Cell
<1> DEFINE S == Loop!settings_size(Loop!Sequencer)
<1>1. S \in Nat /\ S >= 2 /\ (app = 1 => Loop!settings_size(app) = S)
      /\ (app # 1 => Loop!settings_size(app) = 1)
  BY LoopSizes DEF Loop!Sequencer
<1>2. page \in 0 .. S - 1
  BY <1>1
<1> QED
  BY <1>2 DEF Loop!Cell

LEMMA LoopActive == Loop!Active \in Loop!Cell /\ Loop!Active = <<0, 0>>
<1>1. 0 \in Loop!App /\ 0 \in Nat /\ 0 < Loop!settings_size(0)
  BY LoopSizes DEF Loop!App, Loop!num_apps
<1> QED
  BY <1>1, LoopCell DEF Loop!Active, Loop!Selector

LEMMA SeqWithin ==
    ASSUME NEW A, NEW B, NEW q \in Seq(A), \A i \in DOMAIN q : q[i] \in B
    PROVE  q \in Seq(B)
  OBVIOUS

LoopEntries(cells, meant) == [i \in DOMAIN cells |-> <<cells[i], meant[i]>>]

LEMMA LoopSaved ==
    ASSUME NEW s, DOMAIN s = LoopFields, DOMAIN s.kept = Loop!Cell, NEW cells, NEW meant, NEW t,
           t = Loop!Saving(s, cells, meant)
    PROVE  /\ DOMAIN t = LoopFields /\ DOMAIN t.kept = Loop!Cell
           /\ t.todo = LoopEntries(cells, meant)
           /\ \A c \in Loop!Cell : s.kept[c] \subseteq t.kept[c]
           /\ t.eeprom = s.eeprom /\ t.ram = s.ram /\ t.pc = s.pc /\ t.mishap = s.mishap
           /\ t.launched = s.launched /\ t.declared = s.declared /\ t.index = s.index
           /\ t.page = s.page /\ t.from = s.from /\ t.selected = s.selected /\ t.turn = s.turn
<1> DEFINE kept == [c \in Loop!Cell |->
                      s.kept[c] \cup {meant[i] : i \in {j \in DOMAIN cells : cells[j] = c}}]
           todo == [i \in DOMAIN cells |-> <<cells[i], meant[i]>>]
<1>1. t = [s EXCEPT !.todo = todo, !.kept = kept]
  BY Zenon DEF Loop!Saving
<1>2. \A c \in Loop!Cell : s.kept[c] \subseteq kept[c]
  OBVIOUS
<1>3. DOMAIN kept = Loop!Cell
  OBVIOUS
<1> HIDE DEF kept, todo
<1>4. /\ DOMAIN t = LoopFields /\ t.kept = kept /\ t.todo = todo
      /\ t.eeprom = s.eeprom /\ t.ram = s.ram /\ t.pc = s.pc /\ t.mishap = s.mishap
      /\ t.launched = s.launched /\ t.declared = s.declared /\ t.index = s.index
      /\ t.page = s.page /\ t.from = s.from /\ t.selected = s.selected /\ t.turn = s.turn
  BY <1>1 DEF LoopFields
<1> QED
  BY <1>2, <1>3, <1>4 DEF todo, LoopEntries

\* A single setting to be saved, with its value in the memory.
LEMMA LoopOneSaved ==
    ASSUME NEW cell \in Loop!Cell, NEW value, NEW todo, NEW cells, NEW meant,
           cells = <<cell>>, meant = <<value>>,
           todo = LoopEntries(cells, meant)
    PROVE  LoopQueue(todo) /\ (\A k \in DOMAIN todo : todo[k] = <<cell, value>>)
<1> DEFINE e == <<cell, value>>
<1>1. e \in Loop!Cell \X {value}
  OBVIOUS
<1>2. todo = <<e>>
  BY DEF LoopEntries
<1> HIDE DEF e
<1>3. <<e>> \in Seq(Loop!Cell \X {value}) /\ \A k \in DOMAIN <<e>> : <<e>>[k] = e
  BY <1>1
<1> QED
  BY <1>2, <1>3 DEF LoopQueue, e

LEMMA LoopNoneQueued == LoopQueue(<<>>)
<1>1. <<>> \in Seq(Loop!Cell \X {})
  OBVIOUS
<1> QED
  BY <1>1, Zenon DEF LoopQueue

\* The steps outside a reset that write nothing.
LEMMA LoopKeeps ==
    ASSUME NEW s, NEW t, LoopOk(s), LoopShape(t),
           t.mishap = "none" =>
             /\ s.mishap = "none" /\ t.eeprom = s.eeprom
             /\ \A c \in Loop!Cell : s.kept[c] \subseteq t.kept[c]
             /\ LoopTodo(t) /\ t.pc # "reset"
    PROVE  LoopOk(t)
<1> SUFFICES ASSUME t.mishap = "none" PROVE LoopSteady(t)
  BY DEF LoopOk
<1>1. LoopKept(s)
  BY DEF LoopOk, LoopSteady
<1>2. LoopKept(t)
  BY <1>1 DEF LoopKept
<1>3. LoopReset(t)
  BY DEF LoopReset
<1> QED
  BY <1>2, <1>3 DEF LoopSteady

LEMMA LoopLaunchable ==
    ASSUME NEW active \in Nat
    PROVE  /\ Loop!Launchable(active) \in Loop!App
           /\ 0 < Loop!settings_size(Loop!Launchable(active))
<1>1. Loop!Launchable(active) \in Loop!App
  BY DEF Loop!Launchable, Loop!App, Loop!num_apps, Loop!Selector
<1> QED
  BY <1>1, LoopSizes DEF Loop!App

LEMMA LoopBooted ==
    ASSUME NEW eeprom, DOMAIN eeprom = Loop!Address, eeprom[Loop!At(Loop!Active)] \in Nat,
           NEW t, t = Loop!Booted(eeprom)
    PROVE  LoopOk(t) /\ t.eeprom = eeprom
<1> DEFINE active == eeprom[Loop!At(Loop!Active)]
           ram    == [c \in Loop!Cell |->
                        IF c[1] \in {Loop!Selector, Loop!Settings, Loop!Launchable(active)}
                          THEN eeprom[Loop!At(c)] ELSE 0]
           selected == IF active = 0 THEN 1 ELSE active
<1>1. /\ DOMAIN t = LoopFields /\ t.eeprom = eeprom /\ t.ram = ram
      /\ t.kept = [c \in Loop!Cell |-> {eeprom[Loop!At(c)]}]
      /\ t.pc = "events" /\ t.todo = <<>> /\ t.page = 0 /\ t.declared = t.launched
      /\ t.launched = Loop!Launchable(active) /\ t.selected = selected
      /\ t.from = 0 /\ t.turn = 1
  BY DEF Loop!Booted, LoopFields
<1>2. DOMAIN ram = Loop!Cell /\ ram[Loop!Active] = active /\ selected \in Nat
  BY LoopActive DEF Loop!Selector
<1> HIDE DEF ram, selected
<1>3. LoopPage(t)
  BY <1>1, LoopLaunchable DEF LoopPage, LoopShown
<1>4. LoopShape(t)
  BY <1>1, <1>2, <1>3, LoopNoneQueued DEF LoopShape, LoopLaunch
<1>5. LoopKept(t)
  BY <1>1 DEF LoopKept
<1>6. LoopTodo(t) /\ LoopReset(t)
  BY <1>1 DEF LoopTodo, LoopReset
<1> QED
  BY <1>1, <1>4, <1>5, <1>6 DEF LoopOk, LoopSteady

LEMMA LoopInit == Loop!Init => LoopOk(state)
<1> SUFFICES ASSUME Loop!Init PROVE LoopOk(state)
  OBVIOUS
<1> DEFINE Holding(a) == {c \in Loop!Cell : Loop!At(c) = a}
           eeprom == [a \in Loop!Address |->
                        IF Holding(a) = {} THEN Loop!Blank
                        ELSE Loop!Factory(CHOOSE c \in Holding(a) : TRUE)]
           made   == Loop!Booted(eeprom)
           kept   == [c \in Loop!Cell |-> {Loop!Factory(c)}]
<1>1. ASSUME NEW c \in Loop!Cell PROVE eeprom[Loop!At(c)] = Loop!Factory(c)
  <2>1. Holding(Loop!At(c)) = {c} /\ Loop!At(c) \in Loop!Address
    BY LoopAt
  <2> HIDE DEF Holding
  <2>2. (CHOOSE d \in {c} : TRUE) = c
    OBVIOUS
  <2> QED
    BY <2>1, <2>2
<1>2. DOMAIN eeprom = Loop!Address /\ DOMAIN kept = Loop!Cell
  OBVIOUS
<1>3. eeprom[Loop!At(Loop!Active)] \in Nat
  BY <1>1, LoopActive DEF Loop!Factory, Loop!Sequencer
<1>4. state = [made EXCEPT !.kept = kept]
  BY Zenon DEF Loop!Init
<1> HIDE DEF eeprom
<1>5. LoopOk(made) /\ made.eeprom = eeprom
  BY <1>2, <1>3, LoopBooted, Zenon
<1>6. \A c \in Loop!Cell : kept[c] = {Loop!Factory(c)}
  OBVIOUS
<1> HIDE DEF made, kept
<1>7. DOMAIN made = LoopFields
  BY <1>5 DEF LoopOk, LoopShape
<1>8. /\ DOMAIN state = LoopFields /\ state.kept = kept
      /\ state.eeprom = eeprom /\ state.ram = made.ram /\ state.pc = made.pc
      /\ state.mishap = made.mishap /\ state.launched = made.launched
      /\ state.declared = made.declared /\ state.index = made.index /\ state.page = made.page
      /\ state.from = made.from /\ state.selected = made.selected /\ state.todo = made.todo
      /\ state.turn = made.turn
  BY <1>4, <1>5, <1>7 DEF LoopFields
<1>9. LoopShape(state)
  BY <1>2, <1>5, <1>8 DEF LoopOk, LoopShape, LoopLaunch, LoopPage, LoopShown
<1>10. LoopKept(state)
  BY <1>1, <1>6, <1>8 DEF LoopKept
<1>11. made.mishap = "none" => LoopTodo(state) /\ LoopReset(state)
  BY <1>5, <1>8 DEF LoopOk, LoopSteady, LoopTodo, LoopReset
<1> QED
  BY <1>8, <1>9, <1>10, <1>11 DEF LoopOk, LoopSteady

\* A byte is written: the user then finds what was meant, and no other cell moves.
LEMMA LoopWrite ==
    ASSUME LoopOk(state), Loop!Write
    PROVE  LoopOk(state')
<1> DEFINE s == state
           cell == Head(s.todo)[1]
           meant == Head(s.todo)[2]
           eeprom == [s.eeprom EXCEPT ![Loop!At(cell)] = s.ram[cell]]
           kept == [s.kept EXCEPT ![cell] = {meant}]
           todo == Tail(s.todo)
<1>1. LoopShape(s) /\ s.todo # <<>>
  BY DEF LoopOk, Loop!Write
<1>2. PICK values : s.todo \in Seq(Loop!Cell \X values)
  BY <1>1 DEF LoopShape, LoopQueue
<1>3. /\ cell \in Loop!Cell /\ todo \in Seq(Loop!Cell \X values) /\ Head(s.todo) = <<cell, meant>>
      /\ 1 \in DOMAIN s.todo /\ s.todo[1] = <<cell, meant>>
      /\ \A k \in DOMAIN todo : k + 1 \in DOMAIN s.todo /\ todo[k] = s.todo[k + 1]
      /\ \A k \in DOMAIN s.todo : k # 1 => k - 1 \in DOMAIN todo /\ todo[k - 1] = s.todo[k]
  <2>1. Head(s.todo) \in Loop!Cell \X values
    BY <1>1, <1>2
  <2> QED
    BY <1>1, <1>2, <2>1
<1>4. state' = [s EXCEPT !.eeprom = eeprom, !.kept = kept, !.todo = todo]
  BY DEF Loop!Write
<1>5. /\ DOMAIN s = LoopFields /\ DOMAIN s.eeprom = Loop!Address /\ DOMAIN s.kept = Loop!Cell
      /\ LoopLaunch(s)
  BY <1>1 DEF LoopShape
<1>6. /\ DOMAIN eeprom = Loop!Address /\ DOMAIN kept = Loop!Cell
      /\ eeprom[Loop!At(cell)] = s.ram[cell] /\ kept[cell] = {meant}
      /\ \A c \in Loop!Cell \ {cell} : /\ eeprom[Loop!At(c)] = s.eeprom[Loop!At(c)]
                                       /\ kept[c] = s.kept[c]
  BY <1>3, <1>5, LoopAt
<1>7. eeprom[Loop!At(Loop!Active)] \in Nat
  BY <1>5, <1>6, LoopActive DEF LoopLaunch
<1> HIDE DEF cell, meant, eeprom, kept, todo
<1>8. /\ DOMAIN s' = LoopFields /\ s'.eeprom = eeprom /\ s'.kept = kept /\ s'.todo = todo
      /\ s'.ram = s.ram /\ s'.pc = s.pc /\ s'.mishap = s.mishap /\ s'.launched = s.launched
      /\ s'.declared = s.declared /\ s'.index = s.index /\ s'.page = s.page
      /\ s'.from = s.from /\ s'.selected = s.selected /\ s'.turn = s.turn
  BY <1>4, <1>5 DEF LoopFields
<1>9. LoopShape(s')
  <2>1. LoopQueue(todo)
    BY <1>3 DEF LoopQueue
  <2>2. LoopPage(s')
    BY <1>1, <1>8 DEF LoopShape, LoopPage, LoopShown
  <2> HIDE DEF s
  <2> QED
    BY <1>1, <1>6, <1>7, <1>8, <2>1, <2>2 DEF LoopShape, LoopLaunch
<1>10. ASSUME s'.mishap = "none" PROVE LoopSteady(s')
  <2>1. LoopKept(s) /\ LoopTodo(s) /\ LoopReset(s)
    BY <1>8, <1>10 DEF LoopOk, LoopSteady
  <2>2. meant = s.ram[cell]
    BY <1>3, <2>1 DEF LoopTodo
  <2>3. LoopKept(s')
    BY <1>6, <1>8, <2>1, <2>2 DEF LoopKept
  <2>4. LoopTodo(s')
    BY <1>3, <1>8, <2>1 DEF LoopTodo
  <2>5. ASSUME s'.pc = "reset" PROVE LoopReset(s')
    <3>1. /\ \A k \in DOMAIN s.todo : s.todo[k][2] = Loop!Factory(s.todo[k][1])
          /\ \A c \in Loop!Cell : c[1] \in 1 .. s.index - 1 =>
               \/ s.eeprom[Loop!At(c)] = Loop!Factory(c)
               \/ \E k \in DOMAIN s.todo : s.todo[k][1] = c
      BY <1>8, <2>1, <2>5 DEF LoopReset
    <3>2. meant = Loop!Factory(cell)
      BY <1>3, <3>1
    <3>3. \A k \in DOMAIN todo : todo[k][2] = Loop!Factory(todo[k][1])
      BY <1>3, <3>1
    <3>4. ASSUME NEW c \in Loop!Cell, c[1] \in 1 .. s.index - 1
          PROVE  \/ eeprom[Loop!At(c)] = Loop!Factory(c)
                 \/ \E k \in DOMAIN todo : todo[k][1] = c
      <4>1. CASE c = cell
        BY <1>6, <2>2, <3>2, <4>1
      <4>2. CASE c # cell
        <5>1. CASE s.eeprom[Loop!At(c)] = Loop!Factory(c)
          BY <1>6, <4>2, <5>1
        <5>2. CASE \E k \in DOMAIN s.todo : s.todo[k][1] = c
          <6>1. PICK k \in DOMAIN s.todo : s.todo[k][1] = c
            BY <5>2
          <6>2. k # 1
            BY <1>3, <4>2, <6>1
          <6> QED
            BY <1>3, <6>1, <6>2
        <5> QED
          BY <3>1, <3>4, <5>1, <5>2
      <4> QED
        BY <4>1, <4>2
    <3> QED
      BY <1>8, <3>3, <3>4 DEF LoopReset
  <2>6. LoopReset(s')
    BY <2>5 DEF LoopReset
  <2> QED
    BY <2>3, <2>4, <2>6 DEF LoopSteady
<1> QED
  BY <1>9, <1>10 DEF LoopOk

\* The power fails, or the SysEx message launches an application.
LEMMA LoopBoots ==
    ASSUME LoopOk(state),
           Loop!PowerCycle \/ \E app \in {Loop!Sequencer, Loop!num_apps} : Loop!RemoteLaunch(app)
    PROVE  LoopOk(state')
<1>1. DOMAIN state.eeprom = Loop!Address /\ state.eeprom[Loop!At(Loop!Active)] \in Nat
  BY DEF LoopOk, LoopShape, LoopLaunch
<1>2. CASE Loop!PowerCycle
  BY <1>1, <1>2, LoopBooted DEF Loop!PowerCycle
<1>3. ASSUME NEW app \in {Loop!Sequencer, Loop!num_apps}, Loop!RemoteLaunch(app)
      PROVE  LoopOk(state')
  <2> DEFINE eeprom == [state.eeprom EXCEPT ![Loop!At(Loop!Active)] = app]
  <2>1. DOMAIN eeprom = Loop!Address /\ eeprom[Loop!At(Loop!Active)] \in Nat
    BY <1>1, LoopAt, LoopActive DEF Loop!Sequencer, Loop!num_apps
  <2>2. state' = Loop!Booted(eeprom)
    BY <1>3, Zenon DEF Loop!RemoteLaunch
  <2> HIDE DEF eeprom
  <2> QED
    BY <2>1, <2>2, LoopBooted, Zenon
<1> QED
  BY <1>2, <1>3

\* Steps that save nothing and leave the memory alone.
LEMMA LoopLooks ==
    ASSUME LoopOk(state), NEW t, DOMAIN t = LoopFields, t.eeprom = state.eeprom,
           t.ram = state.ram, t.kept = state.kept, t.todo = state.todo, t.mishap = state.mishap,
           t.selected \in Nat, t.page \in Nat, t.from \in Nat, t.turn \in {-1, 1}, LoopPage(t),
           t.pc # "reset"
    PROVE  LoopOk(t)
<1>1. LoopShape(state)
  BY DEF LoopOk
<1>2. LoopShape(t)
  BY <1>1 DEF LoopShape, LoopLaunch
<1>3. t.mishap = "none" => LoopTodo(t)
  BY DEF LoopOk, LoopSteady, LoopTodo
<1> QED
  BY <1>2, <1>3, LoopKeeps

LEMMA LoopShowing ==
    ASSUME LoopOk(state), Loop!Events, state.launched # Loop!Selector
    PROVE  /\ state.declared = state.launched /\ state.launched \in Loop!App
           /\ LoopShown(state, state.page) /\ state.pc = "events"
           /\ Loop!NumPages(state.declared) = Loop!settings_size(state.launched)
           /\ Loop!settings_size(state.launched) \in Nat \ {0}
<1>1. /\ state.declared = state.launched /\ state.launched \in Loop!App
      /\ LoopShown(state, state.page) /\ state.pc = "events"
  BY DEF LoopOk, LoopShape, LoopPage, Loop!Events
<1>2. Loop!NumPages(state.declared) = Loop!settings_size(state.launched)
  BY <1>1 DEF Loop!NumPages
<1>3. Loop!settings_size(state.launched) \in Nat \ {0}
  <2>1. CASE state.launched = 1
    BY <2>1, LoopSizes
  <2>2. CASE state.launched # 1
    BY <2>2, LoopSizes
  <2> QED
    BY <2>1, <2>2
<1> QED
  BY <1>1, <1>2, <1>3

LEMMA LoopClamped ==
    ASSUME NEW page \in Nat, NEW pages \in Nat
    PROVE  Loop!Clamped(page, pages) \in Nat /\ (pages # 0 => Loop!Clamped(page, pages) < pages)
<1>1. CASE page >= pages
  <2>1. Loop!Clamped(page, pages) = (pages - 1) % 256
    BY <1>1 DEF Loop!Clamped
  <2>2. (pages - 1) % 256 \in Nat /\ (pages # 0 => (pages - 1) % 256 < pages)
    OBVIOUS
  <2> QED
    BY <2>1, <2>2
<1>2. CASE ~(page >= pages)
  BY <1>2 DEF Loop!Clamped
<1> QED
  BY <1>1, <1>2

LEMMA LoopPages == \A app : Loop!NumPages(app) \in Nat
<1> SUFFICES ASSUME NEW app PROVE Loop!NumPages(app) \in Nat
  OBVIOUS
<1>1. Loop!settings_size(app) \in Nat
  <2>1. CASE app = 1
    BY <2>1, LoopSizes
  <2>2. CASE app # 1
    BY <2>2, LoopSizes
  <2> QED
    BY <2>1, <2>2
<1> QED
  BY <1>1 DEF Loop!NumPages

LEMMA LoopTurnPage ==
    ASSUME LoopOk(state), NEW turn \in {-1, 1}, Loop!TurnPage(turn)
    PROVE  LoopOk(state')
<1>1. /\ state.declared = state.launched /\ state.launched \in Loop!App
      /\ LoopShown(state, state.page)
  BY LoopShowing DEF Loop!TurnPage
<1>2. DOMAIN state = LoopFields /\ state.selected \in Nat
  BY DEF LoopOk, LoopShape, LoopLaunch
<1>3. state' = [state EXCEPT !.pc = "scroll", !.from = state.page, !.turn = turn]
  BY DEF Loop!TurnPage
<1>4. /\ DOMAIN state' = LoopFields /\ state'.eeprom = state.eeprom /\ state'.ram = state.ram
      /\ state'.kept = state.kept /\ state'.todo = state.todo /\ state'.mishap = state.mishap
      /\ state'.selected = state.selected /\ state'.page = state.page /\ state'.pc = "scroll"
      /\ state'.from = state.page /\ state'.launched = state.launched
      /\ state'.declared = state.declared /\ state'.turn = turn
  BY <1>2, <1>3 DEF LoopFields
<1>5. LoopPage(state') /\ state'.page \in Nat /\ state'.from \in Nat
  BY <1>1, <1>4 DEF LoopPage, LoopShown
<1> QED
  BY <1>2, <1>4, <1>5, LoopLooks

LEMMA LoopScroll ==
    ASSUME LoopOk(state), Loop!Scroll
    PROVE  LoopOk(state')
<1>1. /\ DOMAIN state = LoopFields /\ state.selected \in Nat /\ state.pc = "scroll"
      /\ state.page \in Nat /\ state.from \in Nat /\ state.turn \in {-1, 1} /\ LoopPage(state)
  BY DEF LoopOk, LoopShape, LoopLaunch, Loop!Scroll
<1> DEFINE moved == (state.page + state.turn) % 256
           pages == Loop!NumPages(state.declared)
           page  == IF moved = 255 THEN 0 ELSE Loop!Clamped(moved, pages)
<1>2. PICK garbage \in LoopParams.Garbage :
        LET status == Loop!PageStatus(state, page, garbage)
        IN  state' = [state EXCEPT !.page = IF status = "LAST" THEN state.from ELSE page,
                                   !.pc = IF status = "BAD" THEN "scroll" ELSE "events",
                                   !.from = IF status = "BAD" THEN @ ELSE 0,
                                   !.spun = status = "BAD" /\ ~@]
  BY DEF Loop!Scroll
<1> DEFINE status == Loop!PageStatus(state, page, garbage)
<1>3. moved \in Nat /\ pages \in Nat
  BY <1>1, LoopPages
<1> HIDE DEF moved, pages
<1>4. page \in Nat /\ (pages # 0 => page < pages)
  BY <1>3, LoopClamped
<1> HIDE DEF page
<1>5. /\ DOMAIN state' = LoopFields /\ state'.eeprom = state.eeprom /\ state'.ram = state.ram
      /\ state'.kept = state.kept /\ state'.todo = state.todo /\ state'.mishap = state.mishap
      /\ state'.selected = state.selected /\ state'.launched = state.launched
      /\ state'.declared = state.declared /\ state'.turn = state.turn
      /\ state'.page = IF status = "LAST" THEN state.from ELSE page
      /\ state'.pc = IF status = "BAD" THEN "scroll" ELSE "events"
      /\ state'.from = IF status = "BAD" THEN state.from ELSE 0
  BY <1>1, <1>2 DEF LoopFields
<1> HIDE DEF status
<1>6. state'.page \in Nat /\ state'.from \in Nat /\ state'.pc # "reset"
  BY <1>1, <1>4, <1>5
<1>7. ASSUME state.launched # Loop!Selector
      PROVE  /\ state.declared = state.launched /\ state.launched \in Loop!App
             /\ LoopShown(state, page) /\ LoopShown(state, state.from)
  <2>1. /\ state.declared = state.launched /\ state.launched \in Loop!App
        /\ LoopShown(state, state.page) /\ LoopShown(state, state.from)
    BY <1>1, <1>7 DEF LoopPage
  <2>2. pages = Loop!settings_size(state.launched) /\ pages # 0
    BY <1>1, <1>7, <2>1 DEF Loop!NumPages, LoopShown, pages
  <2> QED
    BY <1>4, <2>1, <2>2 DEF LoopShown
<1>8. LoopPage(state')
  BY <1>5, <1>7 DEF LoopPage, LoopShown
<1> QED
  BY <1>1, <1>5, <1>6, <1>8, LoopLooks

\* A long press, and the name of an application looked up and shown.
LEMMA LoopLeaves ==
    ASSUME LoopOk(state),
           Loop!Hold \/ Loop!Redraw \/ Loop!Redrawn \/ \E turn \in {-1, 1} : Loop!TurnItem(turn)
    PROVE  LoopOk(state')
<1>1. /\ DOMAIN state = LoopFields /\ state.selected \in Nat /\ state.page \in Nat
      /\ state.from \in Nat /\ state.turn \in {-1, 1} /\ LoopPage(state)
  BY DEF LoopOk, LoopShape, LoopLaunch
<1>2. state.pc \in {"events", "redraw"}
  BY DEF Loop!Hold, Loop!Redraw, Loop!Redrawn, Loop!TurnItem, Loop!Events
<1>3. CASE \E turn \in {-1, 1} : Loop!TurnItem(turn)
  <2>1. PICK turn \in {-1, 1} : Loop!TurnItem(turn)
    BY <1>3
  <2> DEFINE item == (state.selected + turn) % 256
             selected == IF item < 1 THEN 1
                         ELSE IF item > Loop!num_apps + 3 THEN Loop!num_apps + 3 ELSE item
  <2>2. state' = [state EXCEPT !.selected = selected] /\ state.launched = Loop!Selector
    BY <2>1 DEF Loop!TurnItem
  <2>3. item \in Nat
    BY <1>1
  <2> HIDE DEF item
  <2>4. selected \in Nat
    BY <2>3 DEF Loop!num_apps
  <2> HIDE DEF selected
  <2>5. /\ DOMAIN state' = LoopFields /\ state'.eeprom = state.eeprom /\ state'.ram = state.ram
        /\ state'.kept = state.kept /\ state'.todo = state.todo /\ state'.mishap = state.mishap
        /\ state'.selected = selected /\ state'.launched = state.launched
        /\ state'.turn = state.turn /\ state'.page = state.page /\ state'.from = state.from
        /\ state'.pc = state.pc
    BY <1>1, <2>2 DEF LoopFields
  <2>6. LoopPage(state')
    BY <2>2, <2>5 DEF LoopPage
  <2> QED
    BY <1>1, <1>2, <2>4, <2>5, <2>6, LoopLooks
<1>4. CASE Loop!Hold \/ Loop!Redraw \/ Loop!Redrawn
  <2>1. /\ DOMAIN state' = LoopFields /\ state'.eeprom = state.eeprom /\ state'.ram = state.ram
        /\ state'.kept = state.kept /\ state'.todo = state.todo /\ state'.mishap = state.mishap
        /\ state'.selected = state.selected /\ state'.turn = state.turn
        /\ state'.page = state.page /\ state'.from = state.from
        /\ \/ state'.pc = "redraw"
           \/ state'.pc = "events" /\ state'.launched = Loop!Selector
    BY <1>1, <1>4, ZenonT(30) DEF Loop!Hold, Loop!Redraw, Loop!Redrawn, Loop!Events, LoopFields
  <2>2. LoopPage(state') /\ state'.pc # "reset"
    BY <2>1 DEF LoopPage
  <2> QED
    BY <1>1, <2>1, <2>2, LoopLooks
<1> QED
  BY <1>3, <1>4

\* A step that sets the memory and leaves the EEPROM to its queue.
LEMMA LoopTurnValue ==
    ASSUME LoopOk(state), NEW turn \in {-1, 1}, Loop!TurnValue(turn)
    PROVE  LoopOk(state')
<1> DEFINE cell == <<state.launched, state.page>>
<1>1. PICK value : state' = [state EXCEPT !.ram[cell] = value]
  <2> DEFINE range == Loop!PageRange(state.declared, state.page)
             v     == state.ram[cell] + turn
             low   == CHOOSE n \in range : \A k \in range : n <= k
             high  == CHOOSE n \in range : \A k \in range : n >= k
             value == IF v < low THEN low ELSE IF v > high THEN high ELSE v
  <2>1. state' = [state EXCEPT !.ram[cell] = value]
    BY Zenon DEF Loop!TurnValue
  <2> HIDE DEF value
  <2> QED
    BY <2>1
<1>2. LoopShape(state) /\ state.todo = <<>> /\ state.pc = "events" /\ cell # Loop!Active
  BY DEF LoopOk, Loop!TurnValue, Loop!Events, Loop!Active
<1> DEFINE ram == [state.ram EXCEPT ![cell] = value]
<1>3. state' = [state EXCEPT !.ram = ram]
  BY <1>1
<1>4. DOMAIN state = LoopFields /\ DOMAIN state.ram = Loop!Cell /\ LoopLaunch(state)
  BY <1>2 DEF LoopShape
<1>5. DOMAIN ram = Loop!Cell /\ ram[Loop!Active] = state.ram[Loop!Active]
  BY <1>2, <1>4, LoopActive
<1> HIDE DEF ram, cell
<1>6. /\ DOMAIN state' = LoopFields /\ state'.ram = ram /\ state'.eeprom = state.eeprom
      /\ state'.kept = state.kept /\ state'.todo = state.todo /\ state'.pc = state.pc
      /\ state'.mishap = state.mishap /\ state'.launched = state.launched
      /\ state'.declared = state.declared /\ state'.page = state.page
      /\ state'.from = state.from /\ state'.selected = state.selected
      /\ state'.turn = state.turn
  BY <1>3, <1>4 DEF LoopFields
<1>7. LoopShape(state')
  <2>1. LoopPage(state')
    BY <1>2, <1>6 DEF LoopShape, LoopPage, LoopShown
  <2> QED
    BY <1>2, <1>4, <1>5, <1>6, <2>1 DEF LoopShape, LoopLaunch
<1>8. LoopTodo(state') /\ state'.pc # "reset"
  BY <1>2, <1>6 DEF LoopTodo
<1> QED
  BY <1>6, <1>7, <1>8, LoopKeeps

\* What a save of one setting makes of a state.
LoopSaveOne(s, cell) == Loop!Saving(s, <<cell>>, <<s.ram[cell]>>)

LEMMA LoopOneLeft ==
    ASSUME NEW s, LoopShape(s), NEW cell \in Loop!Cell,
           NEW t, t = LoopSaveOne(s, cell)
    PROVE  /\ LoopShape(t) /\ LoopTodo(t) /\ t.pc = s.pc /\ t.mishap = s.mishap
           /\ t.eeprom = s.eeprom /\ \A c \in Loop!Cell : s.kept[c] \subseteq t.kept[c]
<1> DEFINE cells == <<cell>>
           meant == <<s.ram[cell]>>
           value == s.ram[cell]
<1>1. /\ DOMAIN s = LoopFields /\ DOMAIN s.kept = Loop!Cell
      /\ t = Loop!Saving(s, cells, meant) /\ cells = <<cell>> /\ meant = <<value>>
  BY DEF LoopShape, LoopSaveOne
<1> HIDE DEF cells, meant
<1>2. /\ DOMAIN t = LoopFields /\ DOMAIN t.kept = Loop!Cell
      /\ t.todo = LoopEntries(cells, meant)
      /\ \A c \in Loop!Cell : s.kept[c] \subseteq t.kept[c]
      /\ t.eeprom = s.eeprom /\ t.ram = s.ram /\ t.pc = s.pc /\ t.mishap = s.mishap
      /\ t.launched = s.launched /\ t.declared = s.declared /\ t.index = s.index
      /\ t.page = s.page /\ t.from = s.from /\ t.selected = s.selected /\ t.turn = s.turn
  BY <1>1, LoopSaved
<1>3. LoopQueue(t.todo) /\ \A k \in DOMAIN t.todo : t.todo[k] = <<cell, s.ram[cell]>>
  BY <1>1, <1>2, LoopOneSaved
<1>4. LoopTodo(t)
  BY <1>2, <1>3 DEF LoopTodo
<1>5. LoopPage(t)
  BY <1>2 DEF LoopShape, LoopPage, LoopShown
<1>6. LoopShape(t)
  BY <1>2, <1>3, <1>5 DEF LoopShape, LoopLaunch
<1> QED
  BY <1>2, <1>4, <1>6

LEMMA LoopClickToggle ==
    ASSUME LoopOk(state), Loop!ClickToggle
    PROVE  LoopOk(state')
<1> DEFINE cell == <<Loop!Sequencer, state.page>>
           value == IF state.ram[cell] = 0 THEN 1 ELSE 0
           ram == [state.ram EXCEPT ![cell] = value]
           s == [state EXCEPT !.ram = ram]
<1>1. /\ state.launched = Loop!Sequencer /\ state.page \in Loop!Toggles
      /\ state' = Loop!SavePage([state EXCEPT !.ram[cell] = IF @ = 0 THEN 1 ELSE 0])
      /\ state.pc = "events"
  BY DEF Loop!ClickToggle, Loop!Events
<1>2. [state EXCEPT !.ram[cell] = IF @ = 0 THEN 1 ELSE 0] = s
  OBVIOUS
<1>3. LoopShape(state) /\ cell \in Loop!Cell /\ cell # Loop!Active
  <2>1. 1 \in Loop!App /\ state.page \in Nat /\ state.page < Loop!settings_size(1)
    BY <1>1, LoopSizes DEF Loop!App, Loop!num_apps, Loop!Toggles
  <2> QED
    BY <2>1, LoopCell DEF LoopOk, Loop!Sequencer, Loop!Active, Loop!Selector
<1>4. DOMAIN state = LoopFields /\ DOMAIN state.ram = Loop!Cell /\ LoopLaunch(state)
  BY <1>3 DEF LoopShape
<1>5. DOMAIN ram = Loop!Cell /\ ram[Loop!Active] = state.ram[Loop!Active]
  BY <1>3, <1>4, LoopActive
<1>6. cell = <<state.launched, state.page>>
  BY <1>1
<1> HIDE DEF ram, cell
<1>7. /\ DOMAIN s = LoopFields /\ s.ram = ram /\ s.eeprom = state.eeprom
      /\ s.kept = state.kept /\ s.todo = state.todo /\ s.pc = state.pc
      /\ s.mishap = state.mishap /\ s.launched = state.launched
      /\ s.declared = state.declared /\ s.page = state.page
      /\ s.from = state.from /\ s.selected = state.selected
      /\ s.turn = state.turn
  BY <1>4 DEF LoopFields
<1> HIDE DEF s
<1>8. LoopShape(s) /\ s.pc # "reset"
  <2>1. LoopPage(s)
    BY <1>3, <1>7 DEF LoopShape, LoopPage, LoopShown
  <2> QED
    BY <1>1, <1>3, <1>4, <1>5, <1>7, <2>1 DEF LoopShape, LoopLaunch
<1>9. state' = LoopSaveOne(s, cell)
  BY <1>1, <1>2, <1>6, <1>7, Zenon DEF Loop!SavePage, LoopSaveOne
<1>10. /\ LoopShape(state') /\ LoopTodo(state') /\ state'.pc = s.pc /\ state'.mishap = s.mishap
       /\ state'.eeprom = s.eeprom /\ \A c \in Loop!Cell : s.kept[c] \subseteq state'.kept[c]
  BY <1>3, <1>8, <1>9, LoopOneLeft
<1> QED
  BY <1>7, <1>8, <1>10, LoopKeeps

LEMMA LoopClickEdits ==
    ASSUME LoopOk(state), Loop!ClickEdits
    PROVE  LoopOk(state')
<1> DEFINE s == [state EXCEPT !.editing = ~@]
           cell == <<state.launched, state.page>>
<1>1. /\ state' = IF state.editing THEN Loop!SavePage(s) ELSE s
      /\ state.launched # Loop!Selector /\ Loop!Events
  BY DEF Loop!ClickEdits
<1>2. DOMAIN state = LoopFields /\ LoopShape(state)
  BY DEF LoopOk, LoopShape
<1>3. state.launched \in Loop!App /\ LoopShown(state, state.page) /\ state.pc = "events"
  BY <1>1, LoopShowing
<1>4. cell \in Loop!Cell
  BY <1>3, LoopCell DEF LoopShown
<1>5. /\ DOMAIN s = LoopFields /\ s.ram = state.ram /\ s.eeprom = state.eeprom
      /\ s.kept = state.kept /\ s.todo = state.todo /\ s.pc = state.pc
      /\ s.mishap = state.mishap /\ s.launched = state.launched
      /\ s.declared = state.declared /\ s.page = state.page
      /\ s.from = state.from /\ s.selected = state.selected
      /\ s.turn = state.turn
  BY <1>2 DEF LoopFields
<1> HIDE DEF s
<1>6. LoopPage(s) /\ s.pc # "reset"
  BY <1>2, <1>3, <1>5 DEF LoopShape, LoopPage, LoopShown
<1>7. LoopShape(s) /\ LoopOk(s)
  <2>1. s.selected \in Nat /\ s.page \in Nat /\ s.from \in Nat /\ s.turn \in {-1, 1}
    BY <1>2, <1>5 DEF LoopShape, LoopLaunch
  <2>2. LoopOk(s)
    BY <1>5, <1>6, <2>1, LoopLooks
  <2> QED
    BY <2>2 DEF LoopOk
<1>8. CASE state.editing
  <2>1. state' = LoopSaveOne(s, cell)
    BY <1>1, <1>5, <1>8, Zenon DEF Loop!SavePage, LoopSaveOne
  <2>2. /\ LoopShape(state') /\ LoopTodo(state') /\ state'.pc = s.pc /\ state'.mishap = s.mishap
        /\ state'.eeprom = s.eeprom /\ \A c \in Loop!Cell : s.kept[c] \subseteq state'.kept[c]
    BY <1>4, <1>6, <1>7, <2>1, LoopOneLeft
  <2> QED
    BY <1>6, <1>7, <2>2, LoopKeeps
<1>9. CASE ~state.editing
  BY <1>1, <1>7, <1>9
<1> QED
  BY <1>8, <1>9

LEMMA LoopLeft ==
    ASSUME NEW s, LoopShape(s), NEW active \in Nat, NEW t, t = Loop!Leave(s, active)
    PROVE  /\ LoopShape(t) /\ LoopTodo(t) /\ t.pc = "off" /\ t.mishap = s.mishap
           /\ t.eeprom = s.eeprom /\ \A c \in Loop!Cell : s.kept[c] \subseteq t.kept[c]
<1> DEFINE A == Loop!Active
           ram == [s.ram EXCEPT ![A] = active]
           u == [s EXCEPT !.ram = ram]
           w == LoopSaveOne(u, A)
<1>1. DOMAIN s = LoopFields /\ DOMAIN s.ram = Loop!Cell /\ A \in Loop!Cell
  BY LoopActive DEF LoopShape
<1>2. DOMAIN ram = Loop!Cell /\ ram[A] = active
  BY <1>1
<1> HIDE DEF ram, A
<1>3. /\ DOMAIN u = LoopFields /\ u.ram = ram /\ u.eeprom = s.eeprom
      /\ u.kept = s.kept /\ u.todo = s.todo /\ u.pc = s.pc
      /\ u.mishap = s.mishap /\ u.launched = s.launched
      /\ u.declared = s.declared /\ u.page = s.page /\ u.index = s.index
      /\ u.from = s.from /\ u.selected = s.selected
      /\ u.turn = s.turn
  BY <1>1 DEF LoopFields
<1>4. t = [w EXCEPT !.pc = "off"]
  <2>1. u = [s EXCEPT !.ram[A] = active]
    BY <1>1 DEF ram
  <2>2. t = [Loop!Saving(u, <<A>>, <<active>>) EXCEPT !.pc = "off"]
    BY <2>1, Zenon DEF Loop!Leave, A
  <2> HIDE DEF u
  <2> QED
    BY <1>2, <1>3, <2>2, Zenon DEF LoopSaveOne
<1> HIDE DEF u
<1>5. LoopShape(u)
  <2>1. LoopPage(u)
    BY <1>3 DEF LoopShape, LoopPage, LoopShown
  <2> QED
    BY <1>2, <1>3, <2>1 DEF LoopShape, LoopLaunch, A
<1> HIDE DEF w
<1>6. /\ LoopShape(w) /\ LoopTodo(w) /\ w.mishap = u.mishap
      /\ w.eeprom = u.eeprom /\ \A c \in Loop!Cell : u.kept[c] \subseteq w.kept[c]
  BY <1>1, <1>5, LoopOneLeft DEF w
<1>7. DOMAIN w = LoopFields
  BY <1>6 DEF LoopShape
<1>8. /\ DOMAIN t = LoopFields /\ t.ram = w.ram /\ t.eeprom = w.eeprom
      /\ t.kept = w.kept /\ t.todo = w.todo /\ t.pc = "off"
      /\ t.mishap = w.mishap /\ t.launched = w.launched
      /\ t.declared = w.declared /\ t.page = w.page /\ t.index = w.index
      /\ t.from = w.from /\ t.selected = w.selected
      /\ t.turn = w.turn
  BY <1>4, <1>7 DEF LoopFields
<1>9. LoopPage(t) /\ LoopTodo(t)
  BY <1>6, <1>8 DEF LoopPage, LoopTodo
<1>10. LoopShape(t)
  BY <1>6, <1>8, <1>9 DEF LoopShape, LoopLaunch
<1> QED
  BY <1>3, <1>6, <1>8, <1>9, <1>10

LEMMA LoopClickItem ==
    ASSUME LoopOk(state), Loop!ClickBackup \/ Loop!ClickApp
    PROVE  LoopOk(state')
<1>1. LoopShape(state) /\ state.ram[Loop!Active] \in Nat /\ state.selected \in Nat
  BY DEF LoopOk, LoopShape, LoopLaunch
<1>2. PICK active \in Nat : state' = Loop!Leave(state, active)
  BY <1>1, Zenon DEF Loop!ClickBackup, Loop!ClickApp
<1>3. /\ LoopShape(state') /\ LoopTodo(state') /\ state'.pc = "off"
      /\ state'.mishap = state.mishap /\ state'.eeprom = state.eeprom
      /\ \A c \in Loop!Cell : state.kept[c] \subseteq state'.kept[c]
  BY <1>1, <1>2, LoopLeft
<1> QED
  BY <1>3, LoopKeeps

LEMMA LoopClickReset ==
    ASSUME LoopOk(state), Loop!ClickReset
    PROVE  LoopOk(state')
<1> DEFINE kept == [c \in Loop!Cell |-> IF c = Loop!Active THEN state.kept[c]
                                        ELSE state.kept[c] \cup {Loop!Factory(c)}]
<1>1. DOMAIN state = LoopFields /\ state.todo = <<>> /\ LoopShape(state)
  BY DEF LoopOk, LoopShape, Loop!ClickReset, Loop!Events
<1>2. state' = [state EXCEPT !.pc = "reset", !.index = 1, !.kept = kept]
  BY DEF Loop!ClickReset
<1>3. DOMAIN kept = Loop!Cell /\ \A c \in Loop!Cell : state.kept[c] \subseteq kept[c]
  OBVIOUS
<1> HIDE DEF kept
<1>4. /\ DOMAIN state' = LoopFields /\ state'.ram = state.ram /\ state'.eeprom = state.eeprom
      /\ state'.kept = kept /\ state'.todo = state.todo /\ state'.pc = "reset"
      /\ state'.mishap = state.mishap /\ state'.launched = state.launched
      /\ state'.declared = state.declared /\ state'.page = state.page /\ state'.index = 1
      /\ state'.from = state.from /\ state'.selected = state.selected
      /\ state'.turn = state.turn
  BY <1>1, <1>2 DEF LoopFields
<1>5. LoopPage(state') /\ LoopTodo(state') /\ LoopReset(state')
  BY <1>1, <1>4 DEF LoopPage, LoopTodo, LoopReset
<1>6. LoopShape(state')
  BY <1>1, <1>3, <1>4, <1>5 DEF LoopShape, LoopLaunch, Loop!num_apps
<1>7. state'.mishap = "none" => LoopKept(state')
  BY <1>3, <1>4 DEF LoopOk, LoopSteady, LoopKept
<1> QED
  BY <1>5, <1>6, <1>7 DEF LoopOk, LoopSteady

LEMMA LoopResetEnds ==
    ASSUME LoopOk(state), Loop!ResetEnds
    PROVE  LoopOk(state')
<1> DEFINE kept == [c \in Loop!Cell |-> IF c = Loop!Active THEN state.kept[c]
                                        ELSE {Loop!Factory(c)}]
           s == [state EXCEPT !.launched = Loop!Selector, !.kept = kept]
<1>1. /\ DOMAIN state = LoopFields /\ state.todo = <<>> /\ LoopShape(state)
      /\ state.pc = "reset" /\ state.index = 3
  BY DEF LoopOk, LoopShape, Loop!ResetEnds, Loop!Remaining, Loop!num_apps
<1>2. state' = Loop!Leave(s, 0)
  BY DEF Loop!ResetEnds
<1>3. /\ DOMAIN kept = Loop!Cell /\ kept[Loop!Active] = state.kept[Loop!Active]
      /\ \A c \in Loop!Cell : c # Loop!Active => kept[c] = {Loop!Factory(c)}
  BY LoopActive
<1> HIDE DEF kept
<1>4. /\ DOMAIN s = LoopFields /\ s.ram = state.ram /\ s.eeprom = state.eeprom
      /\ s.kept = kept /\ s.todo = state.todo /\ s.pc = state.pc
      /\ s.mishap = state.mishap
      /\ s.declared = state.declared /\ s.page = state.page /\ s.index = state.index
      /\ s.from = state.from /\ s.selected = state.selected
      /\ s.turn = state.turn
  BY <1>1 DEF LoopFields
<1> HIDE DEF s
<1>5. LoopPage(s) /\ LoopTodo(s)
  BY <1>1, <1>4 DEF LoopPage, LoopTodo
<1>6. LoopShape(s)
  BY <1>1, <1>3, <1>4, <1>5 DEF LoopShape, LoopLaunch
<1>7. ASSUME s.mishap = "none" PROVE LoopKept(s) /\ LoopReset(s)
  <2>1. LoopKept(state) /\ LoopReset(state)
    BY <1>4, <1>7 DEF LoopOk, LoopSteady
  <2>2. \A c \in Loop!Cell : c[1] \in 1 .. 2 => state.eeprom[Loop!At(c)] = Loop!Factory(c)
    BY <1>1, <2>1 DEF LoopReset
  <2>3. ASSUME NEW c \in Loop!Cell PROVE c = Loop!Active \/ c[1] \in 1 .. 2
    <3>1. c = <<c[1], c[2]>> /\ c[1] \in 0 .. 2 /\ c[2] \in Nat /\ c[2] < Loop!settings_size(c[1])
      BY LoopSizes DEF Loop!Cell, Loop!App, Loop!num_apps, Loop!Sequencer
    <3> QED
      BY <3>1, LoopActive, LoopSizes
  <2>4. LoopKept(s)
    BY <1>3, <1>4, <2>1, <2>2, <2>3, LoopActive DEF LoopKept
  <2>5. LoopReset(s)
    BY <1>4, <2>1 DEF LoopReset
  <2> QED
    BY <2>4, <2>5
<1>8. LoopOk(s)
  BY <1>5, <1>6, <1>7 DEF LoopOk, LoopSteady
<1>9. /\ LoopShape(state') /\ LoopTodo(state') /\ state'.pc = "off"
      /\ state'.mishap = s.mishap /\ state'.eeprom = s.eeprom
      /\ \A c \in Loop!Cell : s.kept[c] \subseteq state'.kept[c]
  <2>1. 0 \in Nat
    OBVIOUS
  <2> QED
    BY <1>2, <1>6, <2>1, LoopLeft
<1> QED
  BY <1>8, <1>9, LoopKeeps

\* The factory's bytes of an application, queued.
LoopAppCells(app) == [i \in 1 .. Loop!settings_size(app) |-> <<app, i - 1>>]
LoopAppMeant(app) == [i \in DOMAIN LoopAppCells(app) |-> Loop!Factory(LoopAppCells(app)[i])]

LEMMA LoopFactoryQueued ==
    ASSUME NEW app \in Loop!App,
           NEW todo, todo = LoopEntries(LoopAppCells(app), LoopAppMeant(app))
    PROVE  /\ LoopQueue(todo)
           /\ \A k \in DOMAIN todo : /\ todo[k][1] \in Loop!Cell /\ todo[k][1][1] = app
                                     /\ todo[k][2] = Loop!Factory(todo[k][1])
           /\ \A c \in Loop!Cell : c[1] = app => \E k \in DOMAIN todo : todo[k][1] = c
<1> DEFINE n == Loop!settings_size(app)
           cells == LoopAppCells(app)
           meant == LoopAppMeant(app)
           values == {Loop!Factory(c) : c \in Loop!Cell}
<1>1. n \in Nat
  <2>1. CASE app = 1
    BY <2>1, LoopSizes
  <2>2. CASE app # 1
    BY <2>2, LoopSizes
  <2> QED
    BY <2>1, <2>2
<1>2. /\ DOMAIN cells = 1 .. n /\ \A i \in 1 .. n : cells[i] = <<app, i - 1>>
      /\ meant = [i \in 1 .. n |-> Loop!Factory(cells[i])]
  BY DEF LoopAppCells, LoopAppMeant
<1> HIDE DEF cells, meant
<1>3. ASSUME NEW i \in 1 .. n PROVE cells[i] \in Loop!Cell /\ cells[i][1] = app
  <2>1. i - 1 \in Nat /\ i - 1 < n
    BY <1>1
  <2>2. <<app, i - 1>> \in Loop!Cell
    BY <2>1, LoopCell
  <2>3. cells[i] = <<app, i - 1>>
    BY <1>2
  <2> QED
    BY <2>2, <2>3
<1>4. todo = [i \in 1 .. n |-> <<cells[i], Loop!Factory(cells[i])>>]
  <2>1. todo = LoopEntries(cells, meant)
    BY DEF cells, meant
  <2> QED
    BY <1>2, <2>1 DEF LoopEntries
<1>5. \A i \in 1 .. n : todo[i] \in Loop!Cell \X values
  BY <1>3, <1>4
<1> HIDE DEF n, values
<1>6. todo \in Seq(Loop!Cell \X values)
  BY <1>1, <1>4, <1>5
<1>7. LoopQueue(todo)
  BY <1>6 DEF LoopQueue
<1>8. \A k \in DOMAIN todo : /\ todo[k][1] \in Loop!Cell /\ todo[k][1][1] = app
                             /\ todo[k][2] = Loop!Factory(todo[k][1])
  <2> SUFFICES ASSUME NEW k \in DOMAIN todo
               PROVE  /\ todo[k][1] \in Loop!Cell /\ todo[k][1][1] = app
                      /\ todo[k][2] = Loop!Factory(todo[k][1])
    OBVIOUS
  <2>1. k \in 1 .. n
    BY <1>4
  <2> DEFINE d == cells[k]
  <2>2. todo[k] = <<d, Loop!Factory(d)>>
    BY <1>4, <2>1
  <2>3. d \in Loop!Cell /\ d[1] = app
    BY <1>3, <2>1
  <2> HIDE DEF d
  <2> QED
    BY <2>2, <2>3
<1>9. ASSUME NEW c \in Loop!Cell, c[1] = app
      PROVE  \E k \in DOMAIN todo : todo[k][1] = c
  <2>1. c = <<app, c[2]>> /\ c[2] \in Nat /\ c[2] < n
    BY <1>9, LoopSizes DEF Loop!Cell, Loop!App, Loop!num_apps, Loop!Sequencer, n
  <2> DEFINE k == c[2] + 1
  <2>2. k \in 1 .. n /\ k - 1 = c[2]
    BY <1>1, <2>1
  <2> HIDE DEF k
  <2>3. todo[k][1] = c /\ k \in DOMAIN todo
    BY <1>2, <1>4, <2>1, <2>2
  <2> QED
    BY <2>3
<1> QED
  BY <1>7, <1>8, <1>9

LEMMA LoopResetApp ==
    ASSUME LoopOk(state), Loop!ResetApp
    PROVE  LoopOk(state')
<1> DEFINE app   == state.index
           cells == LoopAppCells(app)
           meant == LoopAppMeant(app)
           ram   == [c \in Loop!Cell |-> IF c[1] = app THEN Loop!Factory(c) ELSE state.ram[c]]
           s     == [state EXCEPT !.launched = app, !.index = app + 1, !.ram = ram]
           todo  == LoopEntries(cells, meant)
<1>1. /\ DOMAIN state = LoopFields /\ state.todo = <<>> /\ LoopShape(state)
      /\ state.pc = "reset" /\ app \in 1 .. 2
  BY DEF LoopOk, LoopShape, Loop!ResetApp, Loop!Remaining, Loop!num_apps
<1>2. state' = Loop!Saving(s, cells, meant)
  BY DEF Loop!ResetApp, LoopAppCells, LoopAppMeant
<1>3. /\ DOMAIN ram = Loop!Cell /\ ram[Loop!Active] = state.ram[Loop!Active]
      /\ \A c \in Loop!Cell : c[1] = app => ram[c] = Loop!Factory(c)
  BY <1>1, LoopActive
<1>4. /\ LoopQueue(todo)
      /\ \A k \in DOMAIN todo : /\ todo[k][1] \in Loop!Cell /\ todo[k][1][1] = app
                                /\ todo[k][2] = Loop!Factory(todo[k][1])
      /\ \A c \in Loop!Cell : c[1] = app => \E k \in DOMAIN todo : todo[k][1] = c
  <2>1. app \in Loop!App
    BY <1>1 DEF Loop!App, Loop!num_apps
  <2> HIDE DEF app
  <2> QED
    BY <2>1, LoopFactoryQueued
<1> HIDE DEF cells, meant, ram
<1>5. /\ DOMAIN s = LoopFields /\ s.ram = ram /\ s.eeprom = state.eeprom
      /\ s.kept = state.kept /\ s.pc = state.pc /\ s.mishap = state.mishap
      /\ s.declared = state.declared /\ s.page = state.page /\ s.index = app + 1
      /\ s.from = state.from /\ s.selected = state.selected
      /\ s.turn = state.turn
  BY <1>1 DEF LoopFields
<1>6. DOMAIN s.kept = Loop!Cell
  BY <1>1, <1>5 DEF LoopShape
<1> HIDE DEF s
<1>7. /\ DOMAIN state' = LoopFields /\ DOMAIN state'.kept = Loop!Cell /\ state'.todo = todo
      /\ \A c \in Loop!Cell : s.kept[c] \subseteq state'.kept[c]
      /\ state'.eeprom = s.eeprom /\ state'.ram = s.ram /\ state'.pc = s.pc
      /\ state'.mishap = s.mishap /\ state'.declared = s.declared /\ state'.index = s.index
      /\ state'.page = s.page /\ state'.from = s.from /\ state'.selected = s.selected
      /\ state'.turn = s.turn
  BY <1>2, <1>5, <1>6, LoopSaved
<1> HIDE DEF todo
<1>8. LoopShape(state')
  <2>1. LoopPage(state')
    BY <1>1, <1>5, <1>7 DEF LoopPage
  <2>2. app + 1 \in 1 .. Loop!num_apps
    BY <1>1 DEF Loop!num_apps
  <2> QED
    BY <1>1, <1>3, <1>4, <1>5, <1>7, <2>1, <2>2 DEF LoopShape, LoopLaunch
<1>9. ASSUME state'.mishap = "none" PROVE LoopSteady(state')
  <2>1. LoopKept(state) /\ LoopReset(state)
    BY <1>5, <1>7, <1>9 DEF LoopOk, LoopSteady
  <2>2. LoopKept(state')
    BY <1>5, <1>7, <2>1 DEF LoopKept
  <2>3. LoopTodo(state')
    BY <1>3, <1>4, <1>5, <1>7 DEF LoopTodo
  <2>4. ASSUME NEW c \in Loop!Cell, c[1] \in 1 .. app
        PROVE  \/ state.eeprom[Loop!At(c)] = Loop!Factory(c)
               \/ \E k \in DOMAIN todo : todo[k][1] = c
    <3>1. CASE c[1] = app
      BY <1>4, <3>1
    <3>2. CASE c[1] # app
      <4>1. c[1] \in 1 .. app - 1
        BY <1>1, <2>4, <3>2
      <4> QED
        BY <1>1, <2>1, <4>1 DEF LoopReset
    <3> QED
      BY <3>1, <3>2
  <2>5. LoopReset(state')
    <3>1. (app + 1) - 1 = app
      BY <1>1
    <3> QED
      BY <1>4, <1>5, <1>7, <2>4, <3>1 DEF LoopReset
  <2> QED
    BY <2>2, <2>3, <2>5 DEF LoopSteady
<1> QED
  BY <1>8, <1>9 DEF LoopOk

LEMMA LoopRanges == \A app, page : Loop!PageRange(app, page) \subseteq Nat
  BY DEF Loop!PageRange

\* A control change is a mishap when it meets the saving of its setting; otherwise
\* what is queued is still what the memory has.
LEMMA LoopRemoteControl ==
    ASSUME LoopOk(state), NEW i, Loop!RemoteControl(i)
    PROVE  LoopOk(state')
<1> DEFINE cell   == <<state.launched, i>>
           saving == state.pc = "reset" \/ \E k \in DOMAIN state.todo : state.todo[k][1] = cell
           mishap == IF state.launched = Loop!Selector \/ saving THEN "meddled" ELSE state.mishap
<1>1. PICK value \in Loop!PageRange(state.declared, i) :
        state' = [state EXCEPT !.ram[cell] = value, !.mishap = mishap]
  BY DEF Loop!RemoteControl
<1> DEFINE ram == [state.ram EXCEPT ![cell] = value]
<1>2. state' = [state EXCEPT !.ram = ram, !.mishap = mishap]
  BY <1>1
<1>3. /\ LoopShape(state) /\ DOMAIN state = LoopFields /\ DOMAIN state.ram = Loop!Cell
      /\ state.ram[Loop!Active] \in Nat /\ value \in Nat
  BY LoopRanges DEF LoopOk, LoopShape, LoopLaunch
<1>4. /\ DOMAIN ram = Loop!Cell /\ ram[Loop!Active] \in Nat
      /\ \A c \in Loop!Cell : c # cell => ram[c] = state.ram[c]
  BY <1>3, LoopActive
<1>5. mishap = "none" =>
        /\ state.mishap = "none" /\ state.pc # "reset"
        /\ \A k \in DOMAIN state.todo : state.todo[k][1] # cell
  OBVIOUS
<1> HIDE DEF cell, ram, mishap
<1>6. /\ DOMAIN state' = LoopFields /\ state'.ram = ram /\ state'.eeprom = state.eeprom
      /\ state'.kept = state.kept /\ state'.todo = state.todo /\ state'.pc = state.pc
      /\ state'.mishap = mishap /\ state'.launched = state.launched
      /\ state'.declared = state.declared /\ state'.page = state.page
      /\ state'.index = state.index /\ state'.from = state.from
      /\ state'.selected = state.selected /\ state'.turn = state.turn
  BY <1>2, <1>3 DEF LoopFields
<1>7. LoopShape(state')
  <2>1. LoopPage(state')
    BY <1>3, <1>6 DEF LoopShape, LoopPage, LoopShown
  <2> QED
    BY <1>3, <1>4, <1>6, <2>1 DEF LoopShape, LoopLaunch
<1>8. ASSUME mishap = "none" PROVE LoopTodo(state')
  <2>1. LoopTodo(state)
    BY <1>5, <1>8 DEF LoopOk, LoopSteady
  <2>2. PICK values : state.todo \in Seq(Loop!Cell \X values)
    BY <1>3 DEF LoopShape, LoopQueue
  <2>3. \A k \in DOMAIN state.todo : state.todo[k][1] \in Loop!Cell
    BY <2>2
  <2> QED
    BY <1>4, <1>5, <1>6, <1>8, <2>1, <2>3 DEF LoopTodo
<1> QED
  BY <1>5, <1>6, <1>7, <1>8, LoopKeeps

\* SetPage with a button.  Of the selector's pages only the first is a setting of its own.
LEMMA LoopSwitch ==
    ASSUME LoopOk(state), NEW n \in 0 .. 4, Loop!Switch(n)
    PROVE  LoopOk(state')
<1> DEFINE stray  == state.launched = Loop!Selector /\ state.page > 0
           pages  == Loop!NumPages(state.declared)
           page   == Loop!Clamped(n, pages)
           saves  == state.editing /\ ~stray
           spoils == state.editing /\ stray
           cell   == <<state.launched, state.page>>
           saved  == IF saves THEN LoopSaveOne(state, cell) ELSE state
           At     == Loop!At(Loop!Active)
<1>1. PICK garbage \in LoopParams.Garbage, byte \in {0, 1} :
        state' = [saved EXCEPT
                    !.eeprom = IF spoils THEN [@ EXCEPT ![At + state.page] = byte] ELSE @,
                    !.mishap = IF spoils THEN "strayed" ELSE @,
                    !.editing = FALSE,
                    !.page = IF Loop!PageStatus(state, page, garbage) = "LAST" THEN @ ELSE page]
  BY DEF Loop!Switch, Loop!SavePage, LoopSaveOne
<1> DEFINE stays == Loop!PageStatus(state, page, garbage) = "LAST"
<1>2. /\ LoopShape(state) /\ state.pc = "events" /\ state.todo = <<>> /\ state.page \in Nat
      /\ LoopPage(state) /\ DOMAIN state = LoopFields
  BY DEF LoopOk, LoopShape, Loop!Switch, Loop!Events
<1>3. page \in Nat /\ (pages # 0 => page < pages)
  <2>1. n \in Nat /\ pages \in Nat
    BY LoopPages
  <2> HIDE DEF pages
  <2> QED
    BY <2>1, LoopClamped
<1>4. ASSUME state.launched # Loop!Selector
      PROVE  /\ state.declared = state.launched /\ state.launched \in Loop!App
             /\ LoopShown(state, state.page) /\ LoopShown(state, page)
  <2>1. /\ state.declared = state.launched /\ state.launched \in Loop!App
        /\ LoopShown(state, state.page)
        /\ pages = Loop!settings_size(state.launched)
        /\ Loop!settings_size(state.launched) \in Nat \ {0}
    <3>1. Loop!Events
      BY DEF Loop!Switch
    <3> QED
      BY <1>4, <3>1, LoopShowing
  <2> HIDE DEF pages, page
  <2> QED
    BY <1>3, <2>1 DEF LoopShown
<1>5. ASSUME ~stray PROVE cell \in Loop!Cell
  <2>1. CASE state.launched = Loop!Selector
    <3>1. state.page = 0
      BY <1>2, <1>5, <2>1
    <3> QED
      BY <2>1, <3>1, LoopActive DEF Loop!Selector
  <2>2. CASE state.launched # Loop!Selector
    BY <1>4, <2>2, LoopCell DEF LoopShown
  <2> QED
    BY <2>1, <2>2
<1> HIDE DEF cell, page
<1>6. /\ LoopShape(saved) /\ LoopTodo(saved) /\ saved.pc = state.pc /\ saved.mishap = state.mishap
      /\ saved.eeprom = state.eeprom
      /\ \A c \in Loop!Cell : state.kept[c] \subseteq saved.kept[c]
      /\ saved.launched = state.launched /\ saved.declared = state.declared
      /\ saved.page = state.page
  <2>1. CASE saves
    <3>1. saved = LoopSaveOne(state, cell) /\ cell \in Loop!Cell
      BY <1>5, <2>1
    <3> HIDE DEF saved
    <3>2. saved = Loop!Saving(state, <<cell>>, <<state.ram[cell]>>)
      BY <3>1 DEF LoopSaveOne
    <3>3. /\ saved.launched = state.launched /\ saved.declared = state.declared
          /\ saved.page = state.page
      <4>1. DOMAIN state.kept = Loop!Cell
        BY <1>2 DEF LoopShape
      <4> QED
        BY <1>2, <3>2, <4>1, LoopSaved
    <3> QED
      BY <1>2, <3>1, <3>3, LoopOneLeft
  <2>2. CASE ~saves
    BY <1>2, <2>2 DEF LoopTodo
  <2> QED
    BY <2>1, <2>2
<1> DEFINE eeprom == IF spoils THEN [saved.eeprom EXCEPT ![At + state.page] = byte]
                     ELSE saved.eeprom
           mishap == IF spoils THEN "strayed" ELSE saved.mishap
           shown  == IF stays THEN saved.page ELSE page
<1> HIDE DEF saved, stays
<1>7. state' = [saved EXCEPT !.eeprom = eeprom, !.mishap = mishap, !.editing = FALSE,
                             !.page = shown]
  BY <1>1 DEF stays
<1>8. DOMAIN saved = LoopFields /\ DOMAIN saved.eeprom = Loop!Address /\ LoopLaunch(saved)
  BY <1>6 DEF LoopShape
<1>9. DOMAIN eeprom = Loop!Address /\ eeprom[At] \in Nat
  <2>1. At \in Loop!Address /\ saved.eeprom[At] \in Nat
    BY <1>8, LoopAt, LoopActive DEF LoopLaunch
  <2>2. CASE spoils
    <3>1. At + state.page # At
      <4>1. At \in Nat /\ state.page \in Nat /\ state.page > 0
        <5>1. Loop!Address \subseteq Nat
          BY DEF Loop!Address
        <5> QED
          BY <1>2, <2>1, <2>2, <5>1
      <4> HIDE DEF At
      <4> QED
        BY <4>1
    <3> HIDE DEF At
    <3> QED
      BY <1>8, <2>1, <2>2, <3>1
  <2>3. CASE ~spoils
    BY <1>8, <2>1, <2>3
  <2> QED
    BY <2>2, <2>3
<1>10. mishap = "none" => eeprom = saved.eeprom /\ saved.mishap = "none"
  OBVIOUS
<1>11. shown \in Nat /\ (state.launched # Loop!Selector => LoopShown(state, shown))
  BY <1>2, <1>3, <1>4, <1>6
<1> HIDE DEF eeprom, mishap, shown
<1>12. /\ DOMAIN state' = LoopFields /\ state'.ram = saved.ram /\ state'.eeprom = eeprom
       /\ state'.kept = saved.kept /\ state'.todo = saved.todo /\ state'.pc = saved.pc
       /\ state'.mishap = mishap /\ state'.launched = saved.launched
       /\ state'.declared = saved.declared /\ state'.page = shown /\ state'.index = saved.index
       /\ state'.from = saved.from /\ state'.selected = saved.selected
       /\ state'.turn = saved.turn
  BY <1>7, <1>8 DEF LoopFields
<1>13. LoopPage(state') /\ state'.pc # "reset"
  BY <1>2, <1>4, <1>6, <1>11, <1>12 DEF LoopPage, LoopShown
<1>14. LoopShape(state')
  BY <1>6, <1>8, <1>9, <1>11, <1>12, <1>13 DEF LoopShape, LoopLaunch
<1>15. LoopTodo(state')
  BY <1>6, <1>12 DEF LoopTodo
<1> QED
  BY <1>6, <1>10, <1>12, <1>13, <1>14, <1>15, LoopKeeps

LEMMA LoopNext == LoopOk(state) /\ Loop!Next => LoopOk(state')
<1> SUFFICES ASSUME LoopOk(state), Loop!Next PROVE LoopOk(state')
  OBVIOUS
<1>1. CASE \/ Loop!PowerCycle
           \/ \E app \in {Loop!Sequencer, Loop!num_apps} : Loop!RemoteLaunch(app)
  BY <1>1, LoopBoots, Zenon
<1>2. CASE \E turn \in {-1, 1} : Loop!TurnValue(turn) \/ Loop!TurnPage(turn) \/ Loop!TurnItem(turn)
  BY <1>2, LoopTurnValue, LoopTurnPage, LoopLeaves, Zenon
<1>3. CASE \E n \in 0 .. 4 : Loop!Switch(n)
  BY <1>3, LoopSwitch, Zenon
<1>4. CASE \E i \in 0 .. Loop!settings_size(Loop!Sequencer) - 1 : Loop!RemoteControl(i)
  BY <1>4, LoopRemoteControl, Zenon
<1>5. CASE Loop!Hold \/ Loop!Redraw \/ Loop!Redrawn
  BY <1>5, LoopLeaves, Zenon
<1>6. CASE Loop!ClickBackup \/ Loop!ClickApp
  BY <1>6, LoopClickItem, Zenon
<1>7. CASE \/ Loop!Write \/ Loop!Scroll \/ Loop!ClickToggle \/ Loop!ClickEdits
           \/ Loop!ClickReset \/ Loop!ResetApp \/ Loop!ResetEnds
  BY <1>7, LoopWrite, LoopScroll, LoopClickToggle, LoopClickEdits, LoopClickReset,
     LoopResetApp, LoopResetEnds, Zenon
<1> QED
  BY <1>1, <1>2, <1>3, <1>4, <1>5, <1>6, <1>7, Zenon DEF Loop!Next

LEMMA LoopRestores == LoopOk(state) => Loop!SettingsRestored
  BY DEF LoopOk, LoopSteady, LoopKept, Loop!SettingsRestored

-----------------------------------------------------------------------------
(* What the invariants of the parts say of their properties.               *)

\* The count of the divider is the phase of its START.
LEMMA DividerDivides == DividerInv => Divider!DividesEvenly
<1> SUFFICES ASSUME DividerInv, state.running, ~state.shifted
             PROVE  state.counter = (state.since - 1) % state.divider
  BY DEF Divider!DividesEvenly
<1>1. state.divider \in Nat \ {0} /\ state.since \in 0 .. state.divider - 1
      /\ state.counter = IF state.since = 0 THEN state.divider - 1 ELSE state.since - 1
  BY DividerAssumption DEF DividerInv, DividerPhase, Divider!TypeOK, Divider!Members
<1>2. (state.since - 1) % state.divider =
        IF state.since = 0 THEN state.divider - 1 ELSE state.since - 1
  BY <1>1, RemainderDown, Zenon
<1> QED
  BY <1>1, <1>2

LEMMA SourceProperties ==
    SourceOk(state) => Source!TransportAgrees /\ Source!TempoInRange /\ Source!LoopIsWhole
<1> SUFFICES ASSUME SourceOk(state)
             PROVE  Source!TransportAgrees /\ Source!TempoInRange /\ Source!LoopIsWhole
  OBVIOUS
<1>1. Source!TransportAgrees
  BY DEF SourceOk, SourceAgrees, SourceGoes, Source!TransportAgrees
<1>2. Source!LoopIsWhole
  BY DEF SourceOk, LoopCounted, Source!LoopIsWhole
<1>3. state.bpm \in Nat /\ state.tenth \in Nat
  BY DEF SourceOk, Source!Members
<1>4. Source!TempoInRange
  <2> DEFINE bpm   == state.bpm
             tenth == state.tenth
             range == IF state.variant = "LIVE" THEN 100 .. 2550 ELSE 400 .. 2400
  <2>1. bpm \in Nat /\ tenth \in 0 .. 9 /\ (bpm >= 240 => tenth = 0)
    BY <1>3 DEF SourceOk, TempoHeld
  <2>2. Source!TempoInRange <=> 10 * bpm + tenth \in range
    BY DEF Source!TempoInRange
  <2>3. CASE state.variant = "LIVE"
    <3>1. bpm \in 10 .. 255 /\ tenth = 0
      BY <2>3 DEF SourceOk, TempoHeld
    <3>2. range = 100 .. 2550
      BY <2>3
    <3> HIDE DEF bpm, tenth, range
    <3>3. 10 * bpm + tenth \in 100 .. 2550
      BY <2>1, <3>1
    <3> QED
      BY <2>2, <3>2, <3>3
  <2>4. CASE state.variant # "LIVE"
    <3>1. bpm \in 40 .. 240
      BY <2>4 DEF SourceOk, TempoHeld
    <3>2. range = 400 .. 2400
      BY <2>4
    <3> HIDE DEF bpm, tenth, range
    <3>3. 10 * bpm + tenth \in 400 .. 2400
      BY <2>1, <3>1
    <3> QED
      BY <2>2, <3>2, <3>3
  <2> QED
    BY <2>3, <2>4
<1> QED
  BY <1>1, <1>2, <1>4

LEMMA ShProperties ==
    ShOk(state) => Sh!TransportAgrees /\ Sh!SoundingIsOwed /\ Sh!RecordsInBounds
<1> SUFFICES ASSUME ShOk(state)
             PROVE  Sh!TransportAgrees /\ Sh!SoundingIsOwed /\ Sh!RecordsInBounds
  OBVIOUS
<1>1. Sh!TransportAgrees
  BY DEF ShOk, ShTransport, Sh!TransportAgrees
<1>2. Sh!SoundingIsOwed
  BY DEF ShOk, ShSound, Sh!SoundingIsOwed
<1>3. Sh!RecordsInBounds
  <2>1. ShBounds(state) /\ ShLast \in Nat
    BY ShAssumption DEF ShOk, ShLast
  <2> QED
    BY <2>1 DEF ShBounds, ShRecords, ShLast, Sh!RecordsInBounds
<1> QED
  BY <1>1, <1>2, <1>3

LEMMA StepProperties ==
    StepOk(state) => StepSeq!TransportAgrees /\ StepSeq!SoundingIsOwed
  BY StepOwed DEF StepOk, StepTransport, StepSeq!TransportAgrees

LEMMA DroneProperties ==
    DroneOk(state) => Drone!TransportAgrees /\ Drone!SoundingIsOwed
  BY DroneOwed DEF DroneOk, DroneTransport, Drone!TransportAgrees

LEMMA DrumProperties ==
    DrumOk(state) => Drum!TransportAgrees /\ Drum!SoundingIsOwed /\ Drum!KeyCanStart
  BY DEF DrumOk, DrumCounts, Drum!Owed, Drum!TransportAgrees, Drum!SoundingIsOwed, Drum!KeyCanStart

LEMMA LfoProperties == LfoOk(state) => Lfos!TransportAgrees /\ Lfos!DrawsOncePerCycle
  BY DEF LfoOk, LfoTransport, LfoPhases, Lfos!TransportAgrees, Lfos!DrawsOncePerCycle, Lfos!Draws

LEMMA MeterProperties == MeterOk(state) => Meter!SpansItsClocks
  BY DEF MeterOk, Meter!SpansItsClocks

LEMMA ScaleProperties == ScaleOk(state) => Scale!InScale /\ Scale!SoundingIsOwed
<1> SUFFICES ASSUME ScaleOk(state) PROVE Scale!InScale /\ Scale!SoundingIsOwed
  OBVIOUS
<1>1. Scale!InScale
  BY DEF ScaleOk, ScaleSteady, InScaleOf, Scale!InScale
<1>2. Scale!SoundingIsOwed
  BY DEF ScaleOk, ScaleSteady, ScaleVoices, Scale!SoundingIsOwed
<1> QED
  BY <1>1, <1>2

LEMMA ChordProperties == ChordOk(state) => Chords!ChordFits
  BY ChordAssumption DEF ChordOk, ChordTyped, Chords!ChordFits

LEMMA KnobProperties == KnobOk(state) => Knob!KnobAgrees
  BY DEF KnobOk, KnobTyped, Knob!KnobAgrees

-----------------------------------------------------------------------------
(* The parts together: the one that runs keeps its own invariant.          *)

Inv ==
    /\ which = "divider"    => DividerInv
    /\ which = "latch"      => LatchInv
    /\ which = "source"     => SourceOk(state)
    /\ which = "meter"      => MeterOk(state)
    /\ which = "sh"         => ShOk(state)
    /\ which = "sequencer"  => StepOk(state)
    /\ which = "drum"       => DrumOk(state)
    /\ which = "lfo"        => LfoOk(state)
    /\ which = "tanpura"    => DroneOk(state)
    /\ which = "delay"      => EchoOk(state)
    /\ which = "randomizer" => RandomOk(state)
    /\ which = "scale"      => ScaleOk(state)
    /\ which = "chord"      => ChordOk(state)
    /\ which = "knob"       => KnobOk(state)
    /\ which = "channels"   => ChannelOk(state)
    /\ which = "clock"      => ClockOk(state)
    /\ which = "loop"       => LoopOk(state)

LEMMA InvInit == Init => Inv
  BY DividerInit, LatchInit, SourceInit, MeterInit, ShInit, StepInit, DrumInit, LfoInit,
     DroneInit, EchoInit, RandomInit, ScaleInit, ChordInit, KnobInit, ChannelInit, ClockInit,
     LoopInit
  DEF Init, Inv

LEMMA InvNext == Inv /\ [Next]_vars => Inv'
<1> SUFFICES ASSUME Inv, [Next]_vars PROVE Inv'
  OBVIOUS
<1>1. CASE UNCHANGED vars
  BY <1>1 DEF vars, Inv, DividerInv, LatchInv, DividerPhase, ArmsAsRead,
              Divider!TypeOK, Divider!TransportAgrees, Latch!TypeOK, Latch!TransportAgrees
<1>2. CASE Next
  BY <1>2, DividerNext, LatchNext, SourceNext, MeterNext, ShNext, StepNext, DrumNext, LfoNext,
     DroneNext, EchoNext, RandomNext, ScaleNext, ChordNext, KnobNext, ChannelNext, ClockNext, LoopNext
  DEF Next, Inv
<1> QED
  BY <1>1, <1>2

\* Whichever part runs keeps the invariant that its properties follow from.
THEOREM InvHolds == Spec => []Inv
  BY InvInit, InvNext, PTL DEF Spec

-----------------------------------------------------------------------------
(* The properties of the runs.                                             *)

\* The instruments were last told to start or to stop as the application runs or
\* not, in every application that has a transport of its own: whenever the main loop
\* is not in the middle of a start or a stop, and unless an interrupt started or
\* stopped the application in the middle of one, or a change of the clock's mode
\* came in between.
THEOREM TransportStaysTrue == Spec => []TransportAgrees
<1>1. Inv => TransportAgrees
  BY SourceProperties, ShProperties, StepProperties, DrumProperties, LfoProperties,
     DroneProperties DEF Inv, DividerInv, LatchInv, TransportAgrees
<1> QED
  BY <1>1, InvHolds, PTL

\* Every note that sounds has a note off to come, in every application that makes
\* notes of its own: whatever keys are pressed and released, whatever is queued or
\* echoed, and whenever the transport stops, but for the notes that its module says
\* are left on: those of keys released while a sequencer runs, and those that an
\* interrupt plays in the middle of a start or a stop.
THEOREM SoundingStaysOwed == Spec => []SoundingIsOwed
<1>1. Inv => SoundingIsOwed
  BY ShProperties, StepProperties, DrumProperties, DroneProperties, EchoOwed, RandomProperties,
     ScaleProperties, ChordOwed, ChannelOwed DEF Inv, SoundingIsOwed
<1> QED
  BY <1>1, InvHolds, PTL

\* A drum generator that stands still on the internal clock has been idle for long
\* enough that the next key starts it, unless a tick of TIMER1 stopped it in the
\* middle of a key.
THEOREM KeyAlwaysStarts == Spec => []KeyCanStart
<1>1. Inv => KeyCanStart
  BY DrumProperties DEF Inv, KeyCanStart
<1> QED
  BY <1>1, InvHolds, PTL

\* No clock is lost or counted twice: by the divider, by an LFO, by the loop of the
\* live clock source and by the meter.
THEOREM ClocksAreCounted == Spec => []CountsItsClocks
<1>1. Inv => CountsItsClocks
  BY DividerDivides, LfoProperties, SourceProperties, MeterProperties DEF Inv, CountsItsClocks
<1> QED
  BY <1>1, InvHolds, PTL

\* Steps, chords, values, tempos, notes and channels stay in what holds them: the
\* recorded steps unless a key was recorded in the middle of the recording of another.
THEOREM BoundsAreKept == Spec => []StaysInBounds
<1>1. Inv => StaysInBounds
  BY ShProperties, ChordProperties, KnobProperties, SourceProperties, ScaleProperties,
     ChannelMerges DEF Inv, StaysInBounds
<1> QED
  BY <1>1, InvHolds, PTL

\* Sixteen steps take the time of sixteen straight ones, whatever the groove, its
\* amount and the tempo, but for the rounding of each interval: for every tempo that
\* a clock source application can set, or of the live one every ratio.
THEOREM GrooveAlwaysKeepsTempo == Spec => []GrooveKeepsTempo
<1>1. Inv => GrooveKeepsTempo
  BY ClockKeepsTempo DEF Inv, GrooveKeepsTempo
<1> QED
  BY <1>1, InvHolds, PTL

\* What was saved, selected or reset is what the next boot finds, whenever the power
\* fails and however far the main loop got with its queue of writes.
THEOREM SettingsAlwaysRestored == Spec => []SettingsRestored
<1>1. Inv => SettingsRestored
  BY LoopRestores DEF Inv, SettingsRestored
<1> QED
  BY <1>1, InvHolds, PTL
===============================================================================
