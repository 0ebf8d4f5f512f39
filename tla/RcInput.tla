------------------------------ MODULE RcInput ------------------------------
(***************************************************************************)
(* Espfc::Input (Input.cpp): reading the receiver, the two failsafe        *)
(* stages, and the filtering that produces the positions in us.            *)
(*                                                                         *)
(* A call of Input::update is one step: it runs to completion on the core  *)
(* that also runs the actuator and the serial handlers.                    *)
(***************************************************************************)
EXTENDS FlightState

(* InputStatus: what InputDevice::update reports. *)
Statuses == {"IDLE", "RECEIVED", "LOST", "FAILSAFE"}

(* Input::getFailsafeValue *)
FailsafeValue(c) ==
  CASE FsMode[c] = "AUTO" -> IF c = THRUST THEN PWM_RANGE_MIN ELSE PWM_RANGE_MID
    [] FsMode[c] = "SET"  -> FsValue[c]
    [] OTHER              -> buffer[c]

(* Input::processInputs: a value outside the valid range is replaced by the *)
(* failsafe value of its channel; the first frames are ignored.             *)
processInputs(frame, count) ==
  buffer' = IF count < IgnoreFrames
            THEN buffer
            ELSE [c \in Channels |->
                   IF frame[c] < MinRc \/ frame[c] > MaxRc
                   THEN FailsafeValue(c) ELSE frame[c]]

(* Input::readInputs, the part every frame has in common: any status but    *)
(* IDLE counts as a frame and restarts the age of the link.                 *)
ReadFrame(status, frame) ==
  IF status = "IDLE"
  THEN UNCHANGED <<buffer, frameCount, sinceFrame>>
  ELSE LET count == frameCount + 1 IN
       /\ frameCount' = IF count > RescueFrames + 1 THEN frameCount ELSE count
       /\ sinceFrame' = 0
       /\ processInputs(frame, count)

ReadLossFlags(status) ==
  IF status = "IDLE"
  THEN UNCHANGED <<rxLoss, rxFailSafe>>
  ELSE /\ rxLoss' = (status \in {"LOST", "FAILSAFE"})
       /\ rxFailSafe' = (status = "FAILSAFE")

-----------------------------------------------------------------------------
(* Input::setInput: sticks go through their filter on every call, unless it *)
(* is bypassed; aux channels move only with a new frame.  A filter's output *)
(* lies between values it was fed; which one is left open.                  *)
Positions == {v \in RcValues : MinRc <= v /\ v <= MaxRc}
               \union OverrideValues \union {FsValue[c] : c \in Channels}
               \union {0, PWM_RANGE_MIN, PWM_RANGE_MID}
Filtered(v) == IF SmoothThrust THEN Positions ELSE {v}

(* Input::filterInputs: the MSP override replaces every channel until it is *)
(* older than its timeout.                                                  *)
filterInputs(status) ==
  LET active == overrideActive /\ sinceOverride <= OverrideTimeout
      wanted(c) == IF active THEN overrideUs[c] ELSE buffer'[c]
  IN /\ overrideActive' = active
     /\ sinceOverride' = IF active THEN sinceOverride ELSE 0
     /\ UNCHANGED overrideUs
     /\ \E thrust \in Filtered(wanted(THRUST)) :
          us' = [c \in Channels |-> IF c = THRUST THEN thrust
                                    ELSE IF status = "IDLE" THEN us[c] ELSE wanted(c)]

(* Input::failsafeStage2 *)
failsafeStage2 ==
  /\ rxLoss' = TRUE
  /\ rxFailSafe' = TRUE
  /\ IF isModeActive("ARMED")
     THEN phase' = "LANDED" /\ disarm("FAILSAFE")
     ELSE phase' = "RX_LOSS" /\ UNCHANGED armVars

(* Mutant: stage 1 leaves the throttle where it is.                         *)
failsafeStage1_AuxOnly ==
  /\ phase' = "RX_LOSS"
  /\ us' = [c \in Channels |-> IF c = THRUST THEN us[c] ELSE FailsafeValue(c)]

(* Input::failsafeStage1: every channel jumps to its failsafe value.        *)
failsafeStage1 ==
  /\ phase' = "RX_LOSS"
  /\ us' = [c \in Channels |-> FailsafeValue(c)]

-----------------------------------------------------------------------------
(* Input::failsafe, one definition for each of its exits.                   *)

(* The pilot's failsafe switch: stage 2, but the link still steers.         *)
SwitchFailsafe(status) ==
  /\ isSwitchActive("FAILSAFE")
  /\ failsafeStage2
  /\ filterInputs(status)
  /\ UNCHANGED lossTime

LinkValid(status) ==
  /\ ~isSwitchActive("FAILSAFE")
  /\ status = "RECEIVED"
  /\ phase' = "IDLE"
  /\ lossTime' = 0
  /\ ReadLossFlags(status)
  /\ filterInputs(status)
  /\ UNCHANGED armVars

ReceiverFailsafe(status) ==
  /\ ~isSwitchActive("FAILSAFE")
  /\ status = "FAILSAFE"
  /\ failsafeStage2
  /\ UNCHANGED <<us, lossTime, overrideVars>>

(* Mutants: a link younger than stage 1 counts as recovered; the silence    *)
(* never gets past stage 1.                                                 *)
LinkSilent_YoungIsIdle(status) ==
  /\ ~isSwitchActive("FAILSAFE")
  /\ status \in {"IDLE", "LOST"}
  /\ lossTime' = sinceFrame'
  /\ \/ /\ sinceFrame' > Stage2Delay
        /\ failsafeStage2
        /\ UNCHANGED <<us, overrideVars>>
     \/ /\ sinceFrame' >= Stage1Timeout /\ sinceFrame' <= Stage2Delay
        /\ failsafeStage1
        /\ rxLoss' = TRUE
        /\ UNCHANGED <<rxFailSafe, overrideVars, armVars>>
     \/ /\ sinceFrame' < Stage1Timeout
        /\ phase' = "IDLE"
        /\ ReadLossFlags(status)
        /\ filterInputs(status)
        /\ UNCHANGED armVars

LinkSilent_StageOneOnly(status) ==
  /\ ~isSwitchActive("FAILSAFE")
  /\ status \in {"IDLE", "LOST"}
  /\ lossTime' = sinceFrame'
  /\ \/ /\ sinceFrame' >= Stage1Timeout
        /\ failsafeStage1
        /\ rxLoss' = TRUE
        /\ UNCHANGED <<rxFailSafe, overrideVars, armVars>>
     \/ /\ sinceFrame' < Stage1Timeout
        /\ ReadLossFlags(status)
        /\ filterInputs(status)
        /\ UNCHANGED <<phase, armVars>>

(* No good frame in this call: the age of the last frame decides.           *)
LinkSilent(status) ==
  /\ ~isSwitchActive("FAILSAFE")
  /\ status \in {"IDLE", "LOST"}
  /\ lossTime' = sinceFrame'
  /\ \/ /\ sinceFrame' > Stage2Delay
        /\ failsafeStage2
        /\ UNCHANGED <<us, overrideVars>>
     \/ /\ sinceFrame' >= Stage1Timeout /\ sinceFrame' <= Stage2Delay
        /\ failsafeStage1
        /\ rxLoss' = TRUE
        /\ UNCHANGED <<rxFailSafe, overrideVars, armVars>>
     \/ /\ sinceFrame' < Stage1Timeout
        /\ ReadLossFlags(status)
        /\ filterInputs(status)
        /\ UNCHANGED <<phase, armVars>>

(* Input::update *)
InputUpdate(status, frame) ==
  /\ HasDevice
  /\ ReadFrame(status, frame)
  /\ \/ SwitchFailsafe(status)
     \/ LinkValid(status)
     \/ ReceiverFailsafe(status)
     \/ LinkSilent(status)
  /\ UNCHANGED <<switchVars, calibrating, uptime>>

(* MSP_SET_RAW_RC: the message's channels, a prefix of all, are overridden. *)
MspSetRawRc(n, values) ==
  /\ overrideUs' = [c \in Channels |-> IF c < n THEN values[c] ELSE overrideUs[c]]
  /\ overrideActive' = TRUE
  /\ sinceOverride' = 0
  /\ UNCHANGED <<us, receiverVars, phase, armVars, switchVars, calibrating, uptime>>
=============================================================================
