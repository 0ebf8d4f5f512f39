--------------------------- MODULE BlackboxFrames ---------------------------
(***************************************************************************)
(* The data of a flight log while the recorder is running or paused: which *)
(* frames an iteration writes, the history that P frames are computed      *)
(* from, and a reader on the other end of a line that loses frames.  The   *)
(* start, the end and the storage of a log are the subject of Recorder.    *)
(***************************************************************************)
EXTENDS BlackboxFields

CONSTANTS Configs,      \* configurations, see Config
          Samples(_),   \* what the flight controller may show with a configuration
          Flags(_),     \* the flags the craft may show with a configuration
          Losses(_),    \* the kinds of frames the line may lose with a configuration
          SlowEvery,    \* blackboxSInterval in I intervals, 256 in the code
          HomeEvery     \* I frames between home frames, 128 in the code

VARIABLES
    config,                                \* settings, fixed when the log starts
    layout,                                \* what the header says, by blackboxConditionCache
    paused,                                \* blackboxState is PAUSED, not RUNNING
    iteration, loopIndex, pFrameIndex, iFrameIndex, slowTimer,
    history,                               \* blackboxHistory[1], [2]: the states of the last two frames
    slowHistory, gpsHistory,
    slow, gps, blackboxMode,               \* the craft: flags, position, mode switch
    reader,                                \* what a reader has made of the frames
    loss                                   \* the line lost a frame in this loop

timers == <<iteration, loopIndex, pFrameIndex, iFrameIndex>>
blackboxVars == <<config, layout, paused, timers, slowTimer, history, slowHistory, gpsHistory,
          slow, gps, blackboxMode, reader, loss>>

Config == [disabled : SUBSET FieldSelect, motors : 1..8, telemetry : BOOLEAN, zeroD : SUBSET (0..2),
           sensors : SUBSET {"ACC", "MAG", "BARO"}, vbat : BOOLEAN, ibat : BOOLEAN, rssi : BOOLEAN,
           debug : BOOLEAN, gps : BOOLEAN, switch : BOOLEAN, I : Nat \ {0}, P : Nat]

ASSUME ConfigsAssumption == Configs \subseteq Config

Positions == [home : 0..1, coord : 0..1]
SInterval == SlowEvery * config.I
logsGps == config.gps /\ isFieldEnabled(config, "GPS")

blackboxShouldLogIFrame == loopIndex = 0
blackboxShouldLogPFrame == pFrameIndex = 0 /\ config.P # 0

(* The values of this iteration. *)
loadMainState(s) == [sample |-> s, iteration |-> iteration]

-----------------------------------------------------------------------------
(* The reader's side of a frame. *)
Hears(r, lost, kind, heard) ==
    IF kind \in lost THEN [r EXCEPT !.missed = @ \cup {kind}] ELSE [heard EXCEPT !.missed = @ \ {kind}]

-----------------------------------------------------------------------------

(* The frame becomes the state before, and the state before that. *)
RotateIntra(cur) == <<cur, cur>>
RotateInter(cur) == <<cur, history[1]>>

writeIntraframe(s, r, lost) ==
    LET cur == loadMainState(s) IN
    /\ history' = RotateIntra(cur)
    /\ IF "main" \in lost THEN reader' = [r EXCEPT !.valid = FALSE]
       ELSE \E frame \in {IntraFrame(config, cur)} : \E values \in {ReadIntra(config, layout, frame)} :
              reader' = [r EXCEPT !.valid = TRUE, !.last = values, !.last2 = values]

writeInterframe(s, r, lost) ==
    LET cur == loadMainState(s) IN
    /\ history' = RotateInter(cur)
    /\ IF "main" \in lost \/ ~r.valid THEN reader' = [r EXCEPT !.valid = FALSE]
       ELSE \E frame \in {InterFrame(config, cur, history[1], history[2])} :
            \E values \in {ReadInter(config, layout, frame, r.last, r.last2)} :
              reader' = [r EXCEPT !.last = values, !.last2 = r.last]

(* Mutant: only a change decides. *)
SlowFrameDue_Change(timer) == slow # slowHistory

(* A slow frame when its time has come or something in it has changed. *)
SlowFrameDue(timer) == timer >= SInterval \/ slow # slowHistory

writeSlowFrameIfNeeded(timer, lost) ==
    IF SlowFrameDue(timer)
    THEN [timer |-> 0, history |-> slow, reader |-> Hears(reader, lost, "slow", [reader EXCEPT !.slow = slow])]
    ELSE [timer |-> timer, history |-> slowHistory, reader |-> reader]

blackboxShouldLogGpsHomeFrame ==
    gps.home # gpsHistory.home \/ (pFrameIndex = config.I \div 2 /\ iFrameIndex = 0)

(* Coordinates are written as their distance from home. *)
GpsFrames(r, lost) ==
    LET home == Hears(r, lost, "home", [r EXCEPT !.home = gps.home])
        position(q) == Hears(q, lost, "gps", [q EXCEPT !.coord = q.home + (gps.coord - gps.home)])
    IN  IF ~logsGps THEN r
        ELSE IF blackboxShouldLogGpsHomeFrame THEN position(home)
        ELSE IF gps.coord # gpsHistory.coord THEN position(r)
        ELSE r

Tick(timer) == IF timer >= SInterval THEN SInterval ELSE timer + 1

blackboxLogIteration(s, timer, lost) ==
    LET w == writeSlowFrameIfNeeded(timer, lost)
        Slow == slowTimer' = Tick(w.timer) /\ slowHistory' = w.history
    IN  IF blackboxShouldLogIFrame
        THEN /\ IF config.P = 0 THEN Slow /\ writeIntraframe(s, w.reader, lost)
                ELSE /\ slowTimer' = Tick(timer) /\ UNCHANGED slowHistory
                     /\ writeIntraframe(s, reader, lost)
             /\ UNCHANGED gpsHistory
        ELSE /\ IF blackboxShouldLogPFrame THEN Slow /\ writeInterframe(s, GpsFrames(w.reader, lost), lost)
                ELSE /\ slowTimer' = Tick(timer) /\ reader' = GpsFrames(reader, lost)
                     /\ UNCHANGED <<slowHistory, history>>
             /\ gpsHistory' = IF logsGps THEN gps ELSE gpsHistory

blackboxAdvanceIterationTimers ==
    /\ iteration' = (iteration + 1) % (2 * config.I)
    /\ IF loopIndex + 1 >= config.I
       THEN /\ loopIndex' = 0 /\ pFrameIndex' = 0
            /\ iFrameIndex' = (iFrameIndex + 1) % HomeEvery
       ELSE /\ loopIndex' = loopIndex + 1 /\ UNCHANGED iFrameIndex
            /\ pFrameIndex' = IF pFrameIndex + 1 >= config.P THEN 0 ELSE pFrameIndex + 1

(* blackboxUpdate, PAUSED: the log goes on with an I frame. *)
Paused(s, lost) ==
    IF blackboxMode /\ blackboxShouldLogIFrame
    THEN paused' = FALSE /\ blackboxLogIteration(s, SInterval, lost)
    ELSE /\ slowTimer' = Tick(slowTimer)
         /\ UNCHANGED <<paused, history, slowHistory, gpsHistory, reader>>

(* blackboxUpdate, RUNNING. *)
Running(s, lost) ==
    IF config.switch /\ ~blackboxMode
    THEN /\ paused' = TRUE /\ slowTimer' = Tick(slowTimer)
         /\ UNCHANGED <<history, slowHistory, gpsHistory, reader>>
    ELSE UNCHANGED paused /\ blackboxLogIteration(s, slowTimer, lost)

(* The craft may have changed since the last loop; the line loses at most one
   frame in a loop. *)
Craft == /\ slow' \in Flags(config)
         /\ gps' \in IF logsGps THEN Positions ELSE {gps}
         /\ blackboxMode' \in IF config.switch THEN BOOLEAN ELSE {blackboxMode}

Loop(s, lost) ==
    /\ IF paused THEN Paused(s, lost) ELSE Running(s, lost)
    /\ blackboxAdvanceIterationTimers
    /\ Craft
    /\ loss' = (lost # {})
    /\ UNCHANGED <<config, layout>>

BlackboxInit ==
    /\ config \in Configs /\ layout = Layout(config) /\ paused = FALSE
    /\ iteration = 0 /\ loopIndex = 0 /\ pFrameIndex = 0 /\ iFrameIndex = 0
    /\ slowTimer = SInterval
    /\ history = [k \in 1..2 |-> [sample |-> 0, iteration |-> 0]]
    /\ slowHistory = 0 /\ gpsHistory = [home |-> 0, coord |-> 0]
    /\ slow \in Flags(config) /\ gps = [home |-> 0, coord |-> 0] /\ blackboxMode = TRUE
    /\ reader = [valid |-> FALSE, last |-> <<>>, last2 |-> <<>>, slow |-> 0, home |-> 0,
                 coord |-> 0, missed |-> {}]
    /\ loss = FALSE

BlackboxNext == \E s \in Samples(config), lost \in {{}} \cup {{kind} : kind \in Losses(config)} : Loop(s, lost)

(* The loop goes on: BlackboxNext is always enabled and advances the iteration,
   so that this is its weak fairness, in a form that is cheap to check. *)
BlackboxFairness == []<><<iteration' # iteration>>_iteration

-----------------------------------------------------------------------------
(* Whoever has heard an I frame and all P frames since knows every value the
   craft logged last: the frames hold the fields that the header promises, in
   its order and encodings, and are computed from the frames before. *)
ReaderAgrees ==
    reader.valid => reader.last = [k \in DOMAIN layout.names |-> Value(history[1], layout.names[k])]

(* With a P frame, or an I frame if there are no others, the reader knows the
   flags of the craft, and behind every other iteration its position, unless
   the frame that said so was lost. *)
ReaderIsCurrent ==
    [][LET logged == ~paused' /\ (config.P = 0 \/ ~blackboxShouldLogIFrame) IN
       /\ logged /\ history' # history /\ "slow" \notin reader'.missed => reader'.slow = slow
       /\ logged /\ logsGps /\ ~blackboxShouldLogIFrame /\ reader'.missed \cap {"home", "gps"} = {}
            => reader'.home = gps.home /\ reader'.coord = gps.coord]_blackboxVars

(* When the line has stopped losing frames and the log is not paused, the
   reader gets back the values and the flags. *)
Resynchronises ==
    <>[](~loss /\ ~paused) => <>[](reader.valid /\ "slow" \notin reader.missed)

(* Both: the slow frames come in time, after a change (blackbox.c:915-932) and
   again and again for a reader that missed one. *)
ReaderKeepsUp == ReaderIsCurrent /\ Resynchronises
=============================================================================
