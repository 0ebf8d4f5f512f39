------------------------------ MODULE Recorder ------------------------------
(***************************************************************************)
(* The blackbox: the recorder's state machine (blackbox.c), what Blackbox  *)
(* (Blackbox/Blackbox.cpp) does around it, and the erase command, over the *)
(* flash of Flashfs.  The recorder runs once per control loop, on the core *)
(* of the PID task; serial commands run on the other core.                 *)
(*                                                                         *)
(* A recording writes bytes of two kinds, its header and its frames.  How  *)
(* many it writes in a loop is left open, up to a bound.                   *)
(***************************************************************************)
EXTENDS Flashfs

CONSTANTS
  Modes,          \* choices for blackbox_mode: "NORMAL", "TEST", "ALWAYS"
  PausePresent,   \* a switch is assigned to BOXBLACKBOX
  BlankData,      \* frames may contain words that look erased
  EraseAnytime,   \* MSP_DATAFLASH_ERASE may come while a log is recorded
  Recordings,     \* recordings are numbered modulo this
  LoopBytes       \* cells that one control loop may write

ASSUME RecorderAssumption ==
  /\ Modes \subseteq {"NORMAL", "TEST", "ALWAYS"}
  /\ PausePresent \in BOOLEAN /\ BlankData \in BOOLEAN /\ EraseAnytime \in BOOLEAN
  /\ Recordings \in Nat \ {0} /\ LoopBytes \in Nat \ {0}
  /\ Data = 0..(2 * Recordings) /\ Blank = 0 /\ Garbage = 2 * Recordings + 1

HeaderOf(r) == 2 * r + 1
FrameOf(r) == 2 * r + 2

VARIABLES
  state,       \* blackboxState; the headers' states are one, but the last
  nextState,   \* cacheFlushNextState
  armFlag,     \* ARMING_FLAG(ARMED)
  stop,        \* Blackbox::updateArmed: logging is to stop 500 ms after disarm
  age,         \* time since xmitState.u.startTime: 0 within the loop that set it,
               \* 1 later, 2 once the 100 ms or 200 ms have passed
  mode,        \* blackboxConfig()->mode, which a start copies from the configuration
  testMode,    \* startedLoggingInTestMode
  pc,          \* where the control loop is; "off" without power
  left, then,  \* cells this loop has left to write, and the state it goes to
  msp,         \* where the erase command is
  rec,         \* the recording's number
  lost         \* history: a recovery has left data beyond the address to write

recorderVars == <<flashfsVars, state, nextState, armFlag, stop, age, testMode,
                  pc, left, then, msp, rec, lost, mode>>

States == {"STOPPED", "DISABLED", "PREPARE_LOG_FILE", "SEND_HEADER", "SEND_SYSINFO",
           "CACHE_FLUSH", "PAUSED", "RUNNING", "SHUTTING_DOWN", "START_ERASE",
           "ERASING", "ERASED"}
HeaderStates == {"SEND_HEADER", "SEND_SYSINFO"}
Logging == {"RUNNING", "PAUSED"}
Writing == HeaderStates \union Logging \union {"CACHE_FLUSH", "SHUTTING_DOWN"}
EraseStates == {"START_ERASE", "ERASING", "ERASED"}

Init ==
  /\ FlashfsInit
  /\ state = "STOPPED" /\ nextState = "STOPPED" /\ armFlag = FALSE /\ stop = FALSE
  /\ age = 0 /\ testMode = FALSE /\ pc = "idle" /\ left = 0 /\ then = "same"
  /\ msp = "idle" /\ rec = 0 /\ lost = FALSE /\ mode \in Modes

-----------------------------------------------------------------------------
(* The gyro task, which decides on arming and on the modes of the switches,  *)
(* does not while it erases.                                                 *)
GyroTaskFree == msp = "idle"

(* Mutant: there is no shutdown.                                             *)
Finish_AtOnce == state' = "STOPPED" /\ age' = 0 /\ UNCHANGED flashfsVars

(* blackboxFinish and the event that ends a log.                             *)
NotRecording == {"DISABLED", "STOPPED", "SHUTTING_DOWN"}

Finish ==
  \/ state \in NotRecording /\ UNCHANGED <<flashfsVars, state, age>>
  \/ /\ state \notin NotRecording
     /\ state' = "SHUTTING_DOWN" /\ age' = 0
     /\ IF state \in Logging THEN WriteByte(FrameOf(rec)) ELSE UNCHANGED flashfsVars

LogEvent == IF state \in Logging THEN WriteByte(FrameOf(rec)) ELSE UNCHANGED flashfsVars

(* Blackbox::updateArmed: the stop that a disarm has scheduled, then a       *)
(* change of arming.                                                         *)
UpdateArmed(armed, due) ==
  LET stops == stop /\ due
      disarms == armFlag /\ ~armed
  IN /\ pc = "idle" /\ pc' = "update"
     /\ armed # armFlag => GyroTaskFree
     /\ armFlag' = armed
     /\ stop' = (disarms \/ (stop /\ ~due))
     /\ IF stops THEN Finish
        ELSE (IF disarms THEN LogEvent ELSE UNCHANGED flashfsVars)
               /\ UNCHANGED <<state, age>>
     /\ UNCHANGED <<nextState, testMode, left, then, msp, rec, lost, mode>>

-----------------------------------------------------------------------------
(* blackboxUpdate, by state.                                                 *)
AtUpdate(s) == pc = "update" /\ state = s
Done == pc' = "after" /\ UNCHANGED <<left, then>>
Rest == UNCHANGED <<armFlag, stop, testMode, msp, lost, mode>>

(* blackboxStart.  A full flash disables the recorder, and the end of the    *)
(* same loop stops it again: no loop begins in the state DISABLED.           *)
Start ==
  IF flashfsIsEOF THEN state' = "DISABLED" /\ UNCHANGED rec
  ELSE state' = "PREPARE_LOG_FILE" /\ rec' = (rec + 1) % Recordings

Stopped(eraseSwitch) ==
  /\ AtUpdate("STOPPED") /\ Done
  /\ eraseSwitch => GyroTaskFree
  /\ IF eraseSwitch
     THEN /\ state' = "START_ERASE"
          /\ rec' = IF armFlag /\ ~flashfsIsEOF THEN (rec + 1) % Recordings ELSE rec
     ELSE IF armFlag THEN Start ELSE UNCHANGED <<state, rec>>
  /\ UNCHANGED <<flashfsVars, nextState, age>> /\ Rest

PrepareLogFile ==
  /\ AtUpdate("PREPARE_LOG_FILE") /\ Done
  /\ state' = "SEND_HEADER" /\ age' = 0
  /\ UNCHANGED <<flashfsVars, nextState, rec>> /\ Rest

(* The headers, and after the last of them the cache flush.                  *)
SendHeader(n, last) ==
  /\ pc = "update" /\ state \in HeaderStates
  /\ state = "SEND_HEADER" => (age = 2 \/ n = 0) /\ (last => n > 0)
  /\ pc' = "write" /\ left' = n
  /\ then' = IF last THEN "CACHE_FLUSH" ELSE "same"
  /\ nextState' = IF ~last THEN nextState
                  ELSE IF state = "SEND_HEADER" THEN "SEND_SYSINFO" ELSE "RUNNING"
  /\ UNCHANGED <<flashfsVars, state, age, rec>> /\ Rest

CacheFlush ==
  /\ AtUpdate("CACHE_FLUSH") /\ Done
  /\ FlushAsync(buffer)
  /\ state' = IF FlushAsyncReturns THEN nextState ELSE state
  /\ UNCHANGED <<nextState, age, rec>> /\ Rest

(* blackboxLogIteration, also after the event that ends a pause.             *)
Running(n) ==
  /\ pc = "update" /\ state \in Logging
  /\ n > 0 \/ state = "RUNNING"
  /\ pc' = "write" /\ left' = n
  /\ then' = IF state = "PAUSED" THEN "RUNNING" ELSE "same"
  /\ UNCHANGED <<flashfsVars, state, nextState, age, rec>> /\ Rest

Pause ==
  /\ pc = "update" /\ state \in Logging /\ Done
  /\ PausePresent /\ ~testMode
  /\ state' = "PAUSED"
  /\ UNCHANGED <<flashfsVars, nextState, age, rec>> /\ Rest

(* (ShuttingDown_NoTimeout: a mutant, which waits for a flush.)              *)
ShutdownOver_NoTimeout == FlushAsyncReturns
ShutdownOver == age = 2 \/ FlushAsyncReturns

ShuttingDown ==
  /\ AtUpdate("SHUTTING_DOWN") /\ Done
  /\ IF ShutdownOver THEN Close(buffer) /\ state' = "STOPPED"
     ELSE FlushAsync(buffer) /\ UNCHANGED state
  /\ UNCHANGED <<nextState, age, rec>> /\ Rest

StartErase ==
  /\ AtUpdate("START_ERASE")
  /\ EraseLogs
  /\ state' = "STOPPED" /\ pc' = "erase"
  /\ UNCHANGED <<nextState, age, rec, left, then>> /\ Rest

EraseSwitchJournal ==
  /\ pc = "erase" /\ pc' = "reload"
  /\ EraseJournal
  /\ UNCHANGED <<state, nextState, age, rec, left, then>> /\ Rest

FinishErase ==
  /\ pc = "reload" /\ Done
  /\ Reload
  /\ state' = "ERASING" /\ lost' = FALSE
  /\ UNCHANGED <<nextState, age, rec, armFlag, stop, testMode, msp, mode>>

Erasing ==
  /\ AtUpdate("ERASING") /\ Done
  /\ state' = "ERASED"
  /\ UNCHANGED <<flashfsVars, nextState, age, rec>> /\ Rest

Erased(eraseSwitch) ==
  /\ AtUpdate("ERASED") /\ Done
  /\ state' = IF eraseSwitch THEN state ELSE "STOPPED"
  /\ UNCHANGED <<flashfsVars, nextState, age, rec>> /\ Rest

-----------------------------------------------------------------------------
(* One cell of a header or of a frame - of either, and with or without the   *)
(* flush at the end, when the erase command has stopped the recorder since.  *)
Datum ==
  (IF state \in Logging THEN {} ELSE {HeaderOf(rec)}) \union
  (IF state \in HeaderStates THEN {}
   ELSE {FrameOf(rec)} \union (IF BlankData THEN {Blank} ELSE {}))

Write ==
  /\ pc = "write" /\ left > 0
  /\ \E datum \in Datum : WriteByte(datum)
  /\ left' = left - 1
  /\ UNCHANGED <<state, nextState, age, pc, then, rec>> /\ Rest

(* A loop that has logged flushes; one that has sent headers does not.       *)
Wrote ==
  /\ pc = "write" /\ left = 0
  /\ pc' = "after" /\ then' = "same"
  /\ state' = IF then = "same" THEN state ELSE then
  /\ \/ state \notin HeaderStates /\ FlushAsync(buffer)
     \/ state \notin Logging /\ UNCHANGED flashfsVars
  /\ UNCHANGED <<nextState, age, left, rec>> /\ Rest

(* What blackboxUpdate does in every state: out of room, or test mode.       *)
Same == UNCHANGED <<flashfsVars, state, testMode, rec>> /\ age' = IF age = 0 THEN 1 ELSE age

StartInTestMode ==
  IF state = "STOPPED" /\ ~testMode
  THEN Start /\ testMode' = TRUE /\ UNCHANGED <<flashfsVars, age>>
  ELSE Same

StopInTestMode ==
  IF state # "STOPPED" /\ testMode
  THEN Finish /\ testMode' = FALSE /\ UNCHANGED rec
  ELSE Same

Full ==
  /\ flashfsIsEOF
  /\ \/ /\ state \notin EraseStates
        /\ state' = "STOPPED" /\ testMode' = FALSE /\ UNCHANGED <<flashfsVars, age, rec>>
     \/ state \in EraseStates /\ Same

After ==
  /\ pc = "after" /\ pc' = "idle"
  /\ \/ Full
     \/ ~flashfsIsEOF /\ mode = "ALWAYS" /\ StartInTestMode
     \/ ~flashfsIsEOF /\ mode = "TEST" /\ (StartInTestMode \/ StopInTestMode)
     \/ ~flashfsIsEOF /\ mode = "NORMAL" /\ Same
  /\ UNCHANGED <<nextState, armFlag, stop, left, then, msp, lost, mode>>

(* 100 ms and 200 ms are longer than a loop.                                 *)
Expire ==
  /\ state \in {"SEND_HEADER", "SHUTTING_DOWN"} /\ pc = "idle" /\ age = 1
  /\ age' = 2
  /\ UNCHANGED <<flashfsVars, state, nextState, armFlag, stop, testMode, pc, left, then,
                 msp, rec, lost, mode>>

-----------------------------------------------------------------------------
(* MSP_DATAFLASH_ERASE, on the other core: blackboxEraseAll stops the        *)
(* recorder, wherever it is, and erases the flash.                           *)
EraseCommand ==
  /\ msp = "idle" /\ pc # "off"
  /\ EraseAnytime \/ (state = "STOPPED" /\ pc = "idle" /\ ~armFlag /\ mode = "NORMAL")
  /\ msp' = "stopped" /\ state' = "STOPPED"
  /\ UNCHANGED <<flashfsVars, nextState, armFlag, stop, age, testMode, pc, left, then,
                 rec, lost, mode>>

EraseCommandLogs ==
  /\ msp = "stopped" /\ msp' = "logs" /\ EraseLogs
  /\ UNCHANGED <<state, nextState, armFlag, stop, age, testMode, pc, left, then, rec,
                 lost, mode>>

EraseCommandJournal ==
  /\ msp = "logs" /\ msp' = "erased" /\ EraseJournal
  /\ UNCHANGED <<state, nextState, armFlag, stop, age, testMode, pc, left, then, rec,
                 lost, mode>>

EraseCommandReload ==
  /\ msp = "erased" /\ msp' = "idle" /\ Reload
  /\ lost' = FALSE
  /\ UNCHANGED <<state, nextState, armFlag, stop, age, testMode, pc, left, then, rec,
                 mode>>

-----------------------------------------------------------------------------
PowerLoss ==
  /\ pc # "off"
  /\ \/ state \in Writing /\ WriteCutOff
     \/ UNCHANGED flashfsVars
  /\ pc' = "off" /\ msp' = "idle"
  /\ UNCHANGED <<state, nextState, armFlag, stop, age, testMode, left, then, rec, lost,
                 mode>>

Restart ==
  /\ pc = "off" /\ pc' = "idle" /\ FlashfsRestart
  /\ state' = "STOPPED" /\ nextState' = "STOPPED" /\ armFlag' = FALSE /\ stop' = FALSE
  /\ age' = 0 /\ testMode' = FALSE /\ left' = 0 /\ then' = "same" /\ msp' = "idle"
  /\ mode' \in Modes
  /\ lost' = (lost \/ \E a \in Cells : a >= address' /\ flash[a] # Blank)
  /\ UNCHANGED rec

BlackboxUpdate ==
  \/ \E switch \in BOOLEAN : Stopped(switch) \/ Erased(switch)
  \/ PrepareLogFile \/ CacheFlush \/ Pause \/ ShuttingDown
  \/ \E n \in 0..LoopBytes : Running(n) \/ \E last \in BOOLEAN : SendHeader(n, last)
  \/ StartErase \/ Erasing

Loop ==
  \/ \E armed, due \in BOOLEAN : UpdateArmed(armed, due)
  \/ BlackboxUpdate \/ Write \/ Wrote \/ EraseSwitchJournal
  \/ FinishErase \/ After

Next ==
  \/ Loop \/ Expire
  \/ EraseCommand \/ EraseCommandLogs \/ EraseCommandJournal \/ EraseCommandReload
  \/ PowerLoss \/ Restart

(* The control loop runs for ever, and time passes however long it takes.    *)
Fairness == WF_recorderVars(Loop) /\ SF_recorderVars(Expire)

Spec == Init /\ [][Next]_recorderVars /\ Fairness

-----------------------------------------------------------------------------
RecorderType ==
  /\ state \in States /\ nextState \in {"STOPPED", "SEND_SYSINFO", "RUNNING"}
  /\ {armFlag, stop, testMode, lost} \subseteq BOOLEAN /\ age \in 0..2
  /\ pc \in {"idle", "update", "write", "erase", "reload", "after", "off"}
  /\ left \in 0..LoopBytes /\ then \in {"same", "CACHE_FLUSH", "RUNNING"}
  /\ msp \in {"idle", "stopped", "logs", "erased"} /\ rec \in 0..(Recordings - 1)
  /\ mode \in Modes

TypeOK == FlashType /\ RecorderType

(* Safety: the logs of the journal follow one another in the flash without a *)
(* gap, only the last may be open, none lies behind the address to write,    *)
(* and what the code believes of the journal is what the flash holds - after *)
(* any crash (flashfsLogBegin, flashfsLogEnd, flashfsJournalFix).            *)
LogsInOrder ==
  (pc \notin {"off", "reload"} /\ msp # "erased") =>
     journal = saved /\ Consecutive(journal, journalIdx) /\ AtLog(journal, journalIdx, address)

(* Safety: no log ends past the last item of the journal: flashfsLogEnd has  *)
(* no check of its own and would write behind the array.                     *)
JournalNotOverrun == [][journalIdx' = journalIdx + 1 => journalIdx < JournalItems]_recorderVars

(* Safety: no cell is written twice, unless a recovery has lost data: an     *)
(* address taken back by a crash, a restart or an erase would do that.       *)
NoCellWrittenTwice == ~lost => \A a \in Cells : flash[a] # Garbage

(* Safety: what is in the flash can be read back: the logs are in order and  *)
(* no cell has been spoilt.                                                  *)
LogsAreReadable == LogsInOrder /\ NoCellWrittenTwice

(* Safety: a finished log holds the cells of one recording, headers before   *)
(* frames: what a buffer still holds when a recording ends would go to the   *)
(* next (flashfsClose flushes it; flashfsInit does not clear it).            *)
Cell(items, i) == {a \in Cells : items[i].begin <= a /\ a < items[i].end}
OneRecording(items, i) ==
  \A a, b \in Cell(items, i) :
    a < b /\ flash[a] # Blank /\ flash[b] # Blank =>
      /\ (flash[a] - 1) \div 2 = (flash[b] - 1) \div 2
      /\ flash[a] <= flash[b]

LogHoldsOneRecording ==
  ~lost => \A i \in Items : saved[i].end # None => OneRecording(saved, i)

(* Safety: a recovery loses track of data only when the log that was cut off *)
(* reaches the last cells of the flash, where flashfsJournalFix reads no     *)
(* more, or holds a word that looks erased.                                  *)
LostOnlyAtEnd ==
  [][(pc = "off" /\ lost' /\ ~lost) =>
       \E a \in Cells : /\ flash[a] # Blank
                        /\ \/ a >= FlashSize - ScanStep
                           \/ \E b \in 0..(a - 1) : flash[b] = Blank]_recorderVars

(* Safety: the erase by switch never cuts off a log: nothing waits in the    *)
(* buffer and an open log has no cells yet (blackboxUpdate waits for         *)
(* STOPPED, which blackboxFinish reaches only when the log is closed).       *)
SwitchErasesBetweenLogs ==
  [][(pc = "update" /\ pc' = "erase") =>
       /\ buffer = <<>>
       /\ journalIdx < JournalItems /\ ~lost /\ journal[journalIdx].begin # None
            => address = journal[journalIdx].begin]_recorderVars

(* Safety: the flash is left alone where it must be: no log is closed behind *)
(* the journal, none is cut off by the switch that erases, and a recovery    *)
(* loses none but one at the end of the flash.                               *)
LogsAreKept == JournalNotOverrun /\ SwitchErasesBetweenLogs /\ LostOnlyAtEnd

(* Liveness: a shutdown ends: it flushes, and if there is nothing to flush   *)
(* it waits at most 200 ms.                                                  *)
ShutdownEnds == state = "SHUTTING_DOWN" ~> (state # "SHUTTING_DOWN" \/ pc = "off")
=============================================================================
