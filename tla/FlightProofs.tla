---------------------------- MODULE FlightProofs ----------------------------
(***************************************************************************)
(* Proofs about FlightController, and about the craft it makes together    *)
(* with the mixer of the other core (CraftControl), for every              *)
(* configuration.                                                          *)
(***************************************************************************)
EXTENDS CraftControl, TLAPS

USE DEF THRUST, PWM_RANGE_MIN, PWM_RANGE_MID

(* A filter's output is a position, and positions are integers. *)
LEMMA FilteredIsInt ==
  ASSUME NEW v \in Int, NEW w \in Filtered(v)
  PROVE  w \in Int
<1>1. \A c \in Channels : FsValue[c] \in Int
  BY ConfigAssumption
<1>2. RcValues \subseteq Int /\ OverrideValues \subseteq Int /\ {0, 1000, 1500} \subseteq Int
  BY ConfigAssumption
<1>3. {FsValue[c] : c \in Channels} \subseteq Int
  BY <1>1
<1>4. Positions \subseteq Int
  <2> SUFFICES ASSUME NEW p \in Positions PROVE p \in Int
    OBVIOUS
  <2>1. CASE p \in {FsValue[c] : c \in Channels}
    BY <1>1, <2>1
  <2>2. CASE p \in RcValues \union OverrideValues
    BY <1>2, <2>2
  <2>3. CASE p \in {0, 1000, 1500}
    BY <1>2, <2>3
  <2> QED BY <2>1, <2>2, <2>3 DEF Positions, PWM_RANGE_MIN, PWM_RANGE_MID
<1> QED BY <1>4 DEF Filtered

LEMMA FailsafeValueIsInt ==
  ASSUME buffer \in [Channels -> Int], NEW c \in Channels
  PROVE  FailsafeValue(c) \in Int
<1>1. FsMode[c] \in {"AUTO", "HOLD", "SET"} /\ FsValue[c] \in Int
  BY ConfigAssumption
<1> QED BY <1>1 DEF FailsafeValue

(* Input::filterInputs keeps the positions and the override in their types. *)
LEMMA FilterInputsType ==
  ASSUME TypeOK, buffer' \in [Channels -> Int], NEW s, filterInputs(s)
  PROVE  /\ us' \in [Channels -> Int] /\ overrideActive' \in BOOLEAN
         /\ sinceOverride' \in 0..(ClockMod - 1) /\ overrideUs' \in [Channels -> Int]
<1>1. 0 \in 0..(ClockMod - 1)
  BY TimeAssumption
<1>2. overrideActive' \in BOOLEAN /\ sinceOverride' \in 0..(ClockMod - 1)
      /\ overrideUs' \in [Channels -> Int]
  BY <1>1 DEF filterInputs, TypeOK
<1>3. us' \in [Channels -> Int]
  <2> DEFINE active == overrideActive /\ sinceOverride <= OverrideTimeout
             wanted(c) == IF active THEN overrideUs[c] ELSE buffer'[c]
  <2>1. PICK thrust \in Filtered(wanted(THRUST)) :
          us' = [c \in Channels |-> IF c = THRUST THEN thrust
                                    ELSE IF s = "IDLE" THEN us[c] ELSE wanted(c)]
    BY DEF filterInputs
  <2>2. \A c \in Channels : wanted(c) \in Int /\ us[c] \in Int
    BY DEF TypeOK
  <2>3. THRUST \in Channels
    BY ConfigAssumption DEF Channels
  <2>4. thrust \in Int
    BY <2>2, <2>3, FilteredIsInt
  <2> HIDE DEF wanted
  <2> QED BY <2>1, <2>2, <2>4
<1> QED BY <1>2, <1>3

(* The frame part of Input::update. *)
LEMMA ReadFrameType ==
  ASSUME TypeOK, NEW s, NEW frame \in [Channels -> Int], ReadFrame(s, frame)
  PROVE  /\ buffer' \in [Channels -> Int]
         /\ frameCount' \in 0..(RescueFrames + 1)
         /\ sinceFrame' \in 0..(ClockMod - 1)
<1>1. CASE s = "IDLE"
  BY <1>1 DEF ReadFrame, TypeOK
<1>2. CASE s # "IDLE"
  <2> DEFINE count == frameCount + 1
  <2>1. /\ frameCount' = (IF count > RescueFrames + 1 THEN frameCount ELSE count)
        /\ sinceFrame' = 0
        /\ processInputs(frame, count)
    BY <1>2 DEF ReadFrame
  <2>2. frameCount' \in 0..(RescueFrames + 1) /\ sinceFrame' \in 0..(ClockMod - 1)
    BY <2>1, TimeAssumption DEF TypeOK
  <2>3. \A c \in Channels : FailsafeValue(c) \in Int /\ frame[c] \in Int
    BY FailsafeValueIsInt DEF TypeOK
  <2>4. buffer' \in [Channels -> Int]
    BY <2>1, <2>3 DEF processInputs, TypeOK
  <2> QED BY <2>2, <2>4
<1> QED BY <1>1, <1>2

LEMMA DisarmType ==
  ASSUME mask \subseteq Modes, NEW r \in Reasons, disarm(r)
  PROVE  mask' \subseteq Modes /\ disarmReason' \in Reasons
BY DEF disarm

LEMMA Stage2Type ==
  ASSUME TypeOK, failsafeStage2
  PROVE  /\ rxLoss' \in BOOLEAN /\ rxFailSafe' \in BOOLEAN /\ phase' \in Phases
         /\ mask' \subseteq Modes /\ disarmReason' \in Reasons
BY DEF failsafeStage2, disarm, armVars, TypeOK, Phases, Reasons

LEMMA Stage1Type ==
  ASSUME TypeOK, failsafeStage1
  PROVE  phase' \in Phases /\ us' \in [Channels -> Int]
<1>1. \A c \in Channels : FailsafeValue(c) \in Int
  BY FailsafeValueIsInt DEF TypeOK
<1> QED BY <1>1 DEF failsafeStage1, Phases

LEMMA LossFlagsType ==
  ASSUME rxLoss \in BOOLEAN, rxFailSafe \in BOOLEAN, NEW s, ReadLossFlags(s)
  PROVE  rxLoss' \in BOOLEAN /\ rxFailSafe' \in BOOLEAN
<1>1. CASE s = "IDLE"
  BY <1>1 DEF ReadLossFlags
<1>2. CASE s # "IDLE"
  <2>1. rxLoss' = (s \in {"LOST", "FAILSAFE"}) /\ rxFailSafe' = (s = "FAILSAFE")
    BY <1>2 DEF ReadLossFlags
  <2>2. \A P \in BOOLEAN : P \in {TRUE, FALSE}
    OBVIOUS
  <2>3. (s \in {"LOST", "FAILSAFE"}) \in BOOLEAN /\ (s = "FAILSAFE") \in BOOLEAN
    OBVIOUS
  <2> QED BY <2>1, <2>3
<1> QED BY <1>1, <1>2

LEMMA InputType ==
  ASSUME TypeOK, NEW s, NEW frame \in [Channels -> Int],
         InputUpdate(s, frame), UNCHANGED released
  PROVE  TypeOK'
<1>1. /\ buffer' \in [Channels -> Int]
      /\ frameCount' \in 0..(RescueFrames + 1)
      /\ sinceFrame' \in 0..(ClockMod - 1)
  BY ReadFrameType DEF InputUpdate
<1>2. /\ maskSwitch' \subseteq Modes
      /\ armingDisabledFlags' \subseteq ArmingDisabledFlags
      /\ airmodeAllowed' \in BOOLEAN /\ rescueConfigMode' \in RescueModes
      /\ calibrating' \in BOOLEAN /\ uptime' \in 0..(RescueDelay + 1)
      /\ released' \in BOOLEAN
  BY DEF InputUpdate, switchVars, TypeOK
<1>3. 0 \in 0..(ClockMod - 1)
  BY TimeAssumption
<1> DEFINE Rest ==
      /\ us' \in [Channels -> Int]
      /\ lossTime' \in 0..(ClockMod - 1)
      /\ rxLoss' \in BOOLEAN /\ rxFailSafe' \in BOOLEAN
      /\ overrideActive' \in BOOLEAN /\ overrideUs' \in [Channels -> Int]
      /\ sinceOverride' \in 0..(ClockMod - 1)
      /\ phase' \in Phases /\ mask' \subseteq Modes /\ disarmReason' \in Reasons
<1>4. ASSUME SwitchFailsafe(s) PROVE Rest
  BY <1>1, <1>4, FilterInputsType, Stage2Type DEF SwitchFailsafe, TypeOK
<1>5. ASSUME LinkValid(s) PROVE Rest
  BY <1>1, <1>3, <1>5, FilterInputsType
     DEF LinkValid, ReadLossFlags, armVars, TypeOK, Phases
<1>6. ASSUME ReceiverFailsafe(s) PROVE Rest
  BY <1>1, <1>6, Stage2Type DEF ReceiverFailsafe, overrideVars, TypeOK
<1>7. ASSUME LinkSilent(s) PROVE Rest
  <2>1. lossTime' \in 0..(ClockMod - 1)
    BY <1>1, <1>7 DEF LinkSilent
  <2>2. CASE failsafeStage2 /\ UNCHANGED <<us, overrideVars>>
    BY <2>1, <2>2, Stage2Type DEF overrideVars, TypeOK
  <2>3. CASE failsafeStage1 /\ rxLoss' = TRUE
               /\ UNCHANGED <<rxFailSafe, overrideVars, armVars>>
    BY <2>1, <2>3, Stage1Type DEF overrideVars, armVars, TypeOK
  <2>4. CASE ReadLossFlags(s) /\ filterInputs(s) /\ UNCHANGED <<phase, armVars>>
    <3>1. rxLoss' \in BOOLEAN /\ rxFailSafe' \in BOOLEAN
      BY <2>4, LossFlagsType DEF TypeOK
    <3>2. phase' \in Phases /\ mask' \subseteq Modes /\ disarmReason' \in Reasons
      BY <2>4 DEF armVars, TypeOK
    <3> QED BY <1>1, <2>1, <2>4, <3>1, <3>2, FilterInputsType
  <2> HIDE DEF Rest
  <2> QED BY <1>7, <2>2, <2>3, <2>4 DEF LinkSilent
<1>8. Rest
  BY <1>4, <1>5, <1>6, <1>7 DEF InputUpdate
<1> QED BY <1>1, <1>2, <1>8 DEF TypeOK

-----------------------------------------------------------------------------
(* What the actuator's update amounts to for arming. *)

LEMMA SwitchMaskType == ASSUME TypeOK PROVE SwitchMask \subseteq Modes
<1>1. \A c \in Conditions : c.id \in Modes
  BY ConfigAssumption
<1> QED BY <1>1 DEF SwitchMask

LEMMA ActuateType ==
  ASSUME TypeOK, Actuate
  PROVE  TypeOK'
<1>1. PICK tilted \in BOOLEAN, noGps \in BOOLEAN : ActuatorUpdate(tilted, noGps)
  BY DEF Actuate
<1>2. maskSwitch' \subseteq Modes
  BY <1>1, SwitchMaskType DEF ActuatorUpdate
<1>3. mask' \subseteq Modes
  BY <1>1, SwitchMaskType DEF ActuatorUpdate, NewMask, Modes
<1>4. armingDisabledFlags' \subseteq ArmingDisabledFlags
  <2>1. Measured \subseteq ArmingDisabledFlags
    BY DEF Measured, ArmingDisabledFlags
  <2>2. updateArmingDisabled(tilted, noGps) \subseteq ArmingDisabledFlags
    BY <2>1 DEF updateArmingDisabled, TypeOK
  <2>3. \A flags \in SUBSET ArmingDisabledFlags, switches \in SUBSET Modes :
          /\ WithBoxFailsafe(flags, switches) \in SUBSET ArmingDisabledFlags
          /\ WithArmSwitch(flags, switches) \in SUBSET ArmingDisabledFlags
    BY DEF WithBoxFailsafe, WithArmSwitch, ArmingDisabledFlags
  <2> QED BY <1>1, <2>2, <2>3, SwitchMaskType DEF ActuatorUpdate
<1>5. disarmReason' \in Reasons
  BY <1>1 DEF ActuatorUpdate, updateArmed, TypeOK, Reasons
<1>6. airmodeAllowed' \in BOOLEAN
  BY <1>1 DEF ActuatorUpdate, updateAirMode, TypeOK
<1>7. rescueConfigMode' \in RescueModes
  BY <1>1 DEF ActuatorUpdate, updateRescueConfig, TypeOK, RescueModes
<1>8. released' \in BOOLEAN
  BY DEF Actuate, TypeOK
<1> QED BY <1>1, <1>2, <1>3, <1>4, <1>5, <1>6, <1>7, <1>8
        DEF ActuatorUpdate, receiverVars, overrideVars, TypeOK

(* A craft that arms had no reason left not to. *)
LEMMA ArmingStep ==
  ASSUME NEW tilted \in BOOLEAN, NEW noGps \in BOOLEAN,
         ActuatorUpdate(tilted, noGps), Arms
  PROVE  /\ armingDisabledFlags' = {} /\ "ARMED" \in maskSwitch'
         /\ isThrottleLow /\ phase = "IDLE" /\ ~rxLoss /\ ~rxFailSafe
         /\ ~calibrating /\ GyroPresent
         /\ armingDisabledFlags \intersect {"CLI", "MSP", "ARM_SWITCH"} = {}
         /\ rescueConfigMode' = "DISABLED"
<1> DEFINE measured == updateArmingDisabled(tilted, noGps)
           boxed == WithBoxFailsafe(measured, SwitchMask)
<1>1. /\ armingDisabledFlags' = WithArmSwitch(boxed, SwitchMask)
      /\ maskSwitch' = SwitchMask
      /\ mask' = NewMask(SwitchMask, armingDisabledFlags')
  BY DEF ActuatorUpdate
<1>2. "ARMED" \in SwitchMask /\ canActivateMode("ARMED", armingDisabledFlags')
  BY <1>1 DEF NewMask, Arms, Armed, isModeActive
<1>3. armingDisabledFlags' = {} /\ isThrottleLow
  BY <1>2 DEF canActivateMode
<1>4. boxed = {}
  BY <1>1, <1>2, <1>3 DEF WithArmSwitch
<1>5. measured \subseteq {"BOXFAILSAFE"}
  BY <1>4 DEF WithBoxFailsafe
<1>6. \A f \in {"NO_GYRO", "FAILSAFE", "RX_FAILSAFE", "CALIBRATING"} :
        ~Raised(f, tilted, noGps)
  BY <1>5 DEF updateArmingDisabled, Measured
<1>7. phase = "IDLE" /\ ~rxLoss /\ ~rxFailSafe /\ ~calibrating /\ GyroPresent
  BY <1>6 DEF Raised
<1>8. armingDisabledFlags \intersect {"CLI", "MSP", "ARM_SWITCH"} = {}
  BY <1>5 DEF updateArmingDisabled, Measured
<1>9. rescueConfigMode' = "DISABLED"
  BY DEF ActuatorUpdate, updateRescueConfig, Arms, Armed
<1> QED BY <1>1, <1>2, <1>3, <1>7, <1>8, <1>9

-----------------------------------------------------------------------------
LEMMA OverrideType ==
  ASSUME TypeOK, Override
  PROVE  TypeOK'
<1>1. PICK n \in 0..(NAux + 1), values \in [Channels -> OverrideValues] :
        MspSetRawRc(n, values)
  BY DEF Override
<1>2. overrideUs' \in [Channels -> Int]
  <2>1. \A c \in Channels : values[c] \in Int /\ overrideUs[c] \in Int
    BY ConfigAssumption DEF TypeOK
  <2> QED BY <1>1, <2>1 DEF MspSetRawRc
<1>3. 0 \in 0..(ClockMod - 1)
  BY TimeAssumption
<1> QED BY <1>1, <1>2, <1>3
        DEF Override, MspSetRawRc, receiverVars, armVars, switchVars, TypeOK

LEMMA CommandType ==
  ASSUME TypeOK, Command
  PROVE  TypeOK'
<1>1. ASSUME NEW disable \in BOOLEAN, MspSetArmingDisabled(disable)
      PROVE  TypeOK'
  <2>1. mask' \subseteq Modes /\ disarmReason' \in Reasons
    BY <1>1 DEF MspSetArmingDisabled, disarm, armVars, TypeOK, Reasons
  <2>2. armingDisabledFlags' \subseteq ArmingDisabledFlags
    BY <1>1 DEF MspSetArmingDisabled, TypeOK, ArmingDisabledFlags
  <2> QED BY <1>1, <2>1, <2>2
          DEF Command, MspSetArmingDisabled, receiverVars, overrideVars, TypeOK
<1>2. CASE CliEnter
  BY <1>2 DEF Command, CliEnter, receiverVars, overrideVars, armVars, TypeOK,
              ArmingDisabledFlags
<1>3. CASE Calibrate \/ CalibrationDone
  BY <1>3 DEF Command, Calibrate, CalibrationDone, receiverVars, overrideVars,
              armVars, switchVars, TypeOK
<1> QED BY <1>1, <1>2, <1>3 DEF Command

LEMMA TickType ==
  ASSUME TypeOK, Tick
  PROVE  TypeOK'
<1>1. \A a \in 0..(ClockMod - 1) : Age(a) \in 0..(ClockMod - 1)
  BY TimeAssumption DEF Age
<1>2. 0 \in 0..(ClockMod - 1)
  BY TimeAssumption
<1>3. sinceFrame' \in 0..(ClockMod - 1) /\ sinceOverride' \in 0..(ClockMod - 1)
  BY <1>1, <1>2 DEF Tick, TickFlight, TypeOK
<1>4. uptime' \in 0..(RescueDelay + 1)
  BY TimeAssumption DEF Tick, TickFlight, TypeOK
<1> QED BY <1>3, <1>4 DEF Tick, TickFlight, armVars, switchVars, TypeOK

LEMMA QuietOrFrame ==
  ASSUME TypeOK, Quiet \/ \E s \in Statuses \ {"IDLE"} : Frame(s)
  PROVE  /\ \E s \in Statuses, frame \in [Channels -> Int] : InputUpdate(s, frame)
         /\ UNCHANGED released
<1>1. [Channels -> RcValues] \subseteq [Channels -> Int]
  BY ConfigAssumption
<1>2. CASE Quiet
  BY <1>2 DEF Quiet, TypeOK, Statuses
<1>3. CASE \E s \in Statuses \ {"IDLE"} : Frame(s)
  BY <1>1, <1>3 DEF Frame
<1> QED BY <1>2, <1>3

LEMMA TypeStep ==
  ASSUME TypeOK, [Next]_vars
  PROVE  TypeOK'
<1>1. CASE Quiet \/ \E s \in Statuses \ {"IDLE"} : Frame(s)
  BY <1>1, QuietOrFrame, InputType
<1>2. CASE UNCHANGED vars
  BY <1>2 DEF vars, flightVars, receiverVars, overrideVars, armVars, switchVars, TypeOK
<1> QED BY <1>1, <1>2, ActuateType, OverrideType, CommandType, TickType DEF Next

LEMMA TypeInit ==
  ASSUME Init
  PROVE  TypeOK
<1>1. 0 \in 0..(ClockMod - 1) /\ 0 \in 0..(RescueFrames + 1) /\ 0 \in 0..(RescueDelay + 1)
  BY TimeAssumption
<1>2. GyroPresent \in BOOLEAN
  BY FlagAssumption
<1>3. us \in [Channels -> Int] /\ buffer \in [Channels -> Int]
      /\ overrideUs \in [Channels -> Int]
  BY DEF Init, FlightInit
<1>4. calibrating \in BOOLEAN
  BY <1>2 DEF Init, FlightInit
<1> QED BY <1>1, <1>3, <1>4
        DEF Init, FlightInit, TypeOK, Phases, Reasons, RescueModes

(* Every variable keeps its type: in particular no mode, flag or reason     *)
(* outside the enumerations of ModelConfig.h appears, and the ages and      *)
(* counters stay in the range of their saturating or wrapping counters.     *)
THEOREM TypeInvariant == Spec => []TypeOK
<1>1. Init => TypeOK
  BY TypeInit
<1>2. TypeOK /\ [Next]_vars => TypeOK'
  BY TypeStep
<1> QED BY <1>1, <1>2, PTL DEF Spec

-----------------------------------------------------------------------------
(* The safety part of the inductive invariant, one lemma per action. *)

LEMMA InputSafe ==
  ASSUME IInv, NEW s \in Statuses, NEW frame, InputUpdate(s, frame), UNCHANGED released,
         sinceFrame' \in Nat
  PROVE  /\ ReasonMatchesArming' /\ SilentLinkCutsThrottle' /\ LandedIsDisarmed'
         /\ RescueNeverWhileArmed' /\ NoArmedCalibration' /\ SwitchLatched'
<1> USE DEF Armed, isModeActive
<1>1. UNCHANGED <<rescueConfigMode, calibrating, armingDisabledFlags>>
  BY DEF InputUpdate, switchVars
<1>2. "ARMED" \in mask' => "ARMED" \in mask
  BY DEF InputUpdate, SwitchFailsafe, LinkValid, ReceiverFailsafe, LinkSilent,
         failsafeStage2, disarm, armVars
<1>3. /\ RescueNeverWhileArmed' /\ NoArmedCalibration' /\ SwitchLatched'
  BY <1>1, <1>2 DEF IInv, RescueNeverWhileArmed, NoArmedCalibration, SwitchLatched
<1>4. ASSUME failsafeStage2
      PROVE  /\ "ARMED" \notin mask' /\ phase' # "IDLE" /\ ReasonMatchesArming'
  BY <1>4 DEF failsafeStage2, disarm, armVars, IInv, ReasonMatchesArming
<1>5. CASE SwitchFailsafe(s) \/ ReceiverFailsafe(s)
  BY <1>3, <1>4, <1>5 DEF SwitchFailsafe, ReceiverFailsafe, SilentLinkCutsThrottle,
                          LandedIsDisarmed
<1>6. CASE LinkValid(s)
  <2>1. lossTime' = 0 /\ phase' = "IDLE" /\ UNCHANGED armVars /\ rxFailSafe' = FALSE
    BY <1>6 DEF LinkValid, ReadLossFlags
  <2>2. ReasonMatchesArming'
    BY <2>1 DEF armVars, IInv, ReasonMatchesArming
  <2>3. SilentLinkCutsThrottle' /\ LandedIsDisarmed'
    BY <2>1, TimeAssumption DEF SilentLinkCutsThrottle, LandedIsDisarmed
  <2> QED BY <1>3, <2>2, <2>3
<1>7. CASE LinkSilent(s)
  <2>1. lossTime' = sinceFrame'
    BY <1>7 DEF LinkSilent
  <2>2. CASE failsafeStage2
    BY <1>3, <1>4, <2>2 DEF SilentLinkCutsThrottle, LandedIsDisarmed
  <2>3. CASE failsafeStage1 /\ UNCHANGED <<rxFailSafe, armVars>>
    <3>1. FsMode[THRUST] = "AUTO" => us'[THRUST] = PWM_RANGE_MIN
      BY <2>3, ConfigAssumption DEF failsafeStage1, FailsafeValue, Channels
    <3>2. SilentLinkCutsThrottle'
      BY <2>3, <3>1 DEF failsafeStage1, SilentLinkCutsThrottle
    <3>3. LandedIsDisarmed'
      BY <2>3 DEF failsafeStage1, LandedIsDisarmed, IInv, armVars
    <3>4. ReasonMatchesArming'
      BY <2>3 DEF armVars, IInv, ReasonMatchesArming
    <3> QED BY <1>3, <3>2, <3>3, <3>4
  <2>4. CASE /\ sinceFrame' < Stage1Timeout
             /\ ReadLossFlags(s) /\ UNCHANGED <<phase, armVars>>
    <3>1. SilentLinkCutsThrottle'
      BY <2>1, <2>4, TimeAssumption DEF SilentLinkCutsThrottle
    <3>2. rxFailSafe' => rxFailSafe
      BY <1>7, <2>4 DEF ReadLossFlags, LinkSilent
    <3>3. LandedIsDisarmed'
      BY <2>4, <3>2 DEF armVars, IInv, LandedIsDisarmed
    <3>4. ReasonMatchesArming'
      BY <2>4 DEF armVars, IInv, ReasonMatchesArming
    <3> QED BY <1>3, <3>1, <3>3, <3>4
  <2> QED BY <1>7, <2>2, <2>3, <2>4 DEF LinkSilent
<1> QED BY <1>5, <1>6, <1>7 DEF InputUpdate

LEMMA ActuateSafe ==
  ASSUME IInv, Actuate
  PROVE  /\ ReasonMatchesArming' /\ SilentLinkCutsThrottle' /\ LandedIsDisarmed'
         /\ RescueNeverWhileArmed' /\ NoArmedCalibration' /\ SwitchLatched'
<1> USE DEF Armed, isModeActive
<1>1. PICK tilted \in BOOLEAN, noGps \in BOOLEAN : ActuatorUpdate(tilted, noGps)
  BY DEF Actuate
<1>2. UNCHANGED <<us, phase, lossTime, rxFailSafe, calibrating>>
  BY <1>1 DEF ActuatorUpdate, receiverVars
<1>3. Arms => /\ phase = "IDLE" /\ ~rxFailSafe /\ ~calibrating
              /\ rescueConfigMode' = "DISABLED"
  BY <1>1, ArmingStep
<1>4. ReasonMatchesArming'
  <2>1. updateArmed(mask')
    BY <1>1 DEF ActuatorUpdate
  <2> QED BY <2>1 DEF updateArmed, IInv, ReasonMatchesArming
<1>5. SilentLinkCutsThrottle'
  BY <1>2, <1>3 DEF IInv, SilentLinkCutsThrottle, Arms
<1>6. LandedIsDisarmed'
  BY <1>2, <1>3 DEF IInv, LandedIsDisarmed, Arms
<1>7. NoArmedCalibration'
  BY <1>2, <1>3 DEF IInv, NoArmedCalibration, Arms
<1>8. RescueNeverWhileArmed'
  <2>1. CASE ~Arms /\ "ARMED" \in mask'
    <3>1. updateRescueConfig(mask')
      BY <1>1 DEF ActuatorUpdate
    <3> QED BY <2>1, <3>1 DEF updateRescueConfig, IInv, RescueNeverWhileArmed, Arms
  <2> QED BY <1>3, <2>1 DEF RescueNeverWhileArmed
<1>9. SwitchLatched'
  <2> SUFFICES ASSUME ~released' PROVE SwitchLatched'
    BY DEF SwitchLatched
  <2>1. "ARMED" \in maskSwitch'
    BY DEF Actuate
  <2>2. CASE released
    BY <2>1, <2>2 DEF Actuate, SwitchLatched
  <2>3. CASE ~released
    <3> DEFINE measured == updateArmingDisabled(tilted, noGps)
               boxed == WithBoxFailsafe(measured, SwitchMask)
    <3>1. armingDisabledFlags' = WithArmSwitch(boxed, SwitchMask) /\ maskSwitch' = SwitchMask
      BY <1>1 DEF ActuatorUpdate
    <3>2. CASE "ARM_SWITCH" \in armingDisabledFlags
      <4>1. "ARM_SWITCH" \in boxed
        BY <3>2 DEF updateArmingDisabled, Measured, WithBoxFailsafe
      <4> QED BY <2>1, <3>1, <4>1 DEF WithArmSwitch, SwitchLatched
    <3>3. CASE calibrating \/ ~GyroPresent
      <4>1. "CALIBRATING" \in measured \/ "NO_GYRO" \in measured
        BY <3>3 DEF updateArmingDisabled, Measured, Raised
      <4>2. boxed # {}
        BY <4>1 DEF WithBoxFailsafe
      <4> QED BY <2>1, <3>1, <4>2 DEF WithArmSwitch, SwitchLatched
    <3> QED BY <2>3, <3>2, <3>3 DEF IInv, SwitchLatched
  <2> QED BY <2>2, <2>3
<1> QED BY <1>4, <1>5, <1>6, <1>7, <1>8, <1>9

LEMMA CommandSafe ==
  ASSUME IInv, Command
  PROVE  /\ ReasonMatchesArming' /\ SilentLinkCutsThrottle' /\ LandedIsDisarmed'
         /\ RescueNeverWhileArmed' /\ NoArmedCalibration' /\ SwitchLatched'
<1> USE DEF Armed, isModeActive
<1>1. UNCHANGED <<us, phase, lossTime, rxFailSafe, rescueConfigMode, released>>
  BY DEF Command, MspSetArmingDisabled, CliEnter, Calibrate, CalibrationDone,
         receiverVars, switchVars
<1>2. "ARMED" \in mask' => "ARMED" \in mask
  BY DEF Command, MspSetArmingDisabled, CliEnter, Calibrate, CalibrationDone,
         disarm, armVars
<1>3. SilentLinkCutsThrottle' /\ LandedIsDisarmed' /\ RescueNeverWhileArmed'
  BY <1>1, <1>2 DEF IInv, SilentLinkCutsThrottle, LandedIsDisarmed, RescueNeverWhileArmed
<1>4. ReasonMatchesArming'
  BY DEF Command, MspSetArmingDisabled, CliEnter, Calibrate, CalibrationDone,
         disarm, armVars, IInv, ReasonMatchesArming
<1>5. NoArmedCalibration'
  BY <1>2 DEF Command, MspSetArmingDisabled, CliEnter, Calibrate, CalibrationDone,
              disarm, armVars, IInv, NoArmedCalibration
<1>6. SwitchLatched'
  BY <1>1 DEF Command, MspSetArmingDisabled, CliEnter, Calibrate, CalibrationDone,
              switchVars, IInv, SwitchLatched
<1> QED BY <1>3, <1>4, <1>5, <1>6

LEMMA OtherSafe ==
  ASSUME IInv, Override \/ Tick \/ UNCHANGED vars
  PROVE  /\ ReasonMatchesArming' /\ SilentLinkCutsThrottle' /\ LandedIsDisarmed'
         /\ RescueNeverWhileArmed' /\ NoArmedCalibration' /\ SwitchLatched'
<1>1. UNCHANGED <<us, phase, lossTime, rxFailSafe, mask, disarmReason, rescueConfigMode,
                  calibrating, armingDisabledFlags, released>>
  BY DEF Override, MspSetRawRc, Tick, TickFlight, vars, flightVars, receiverVars,
         armVars, switchVars
<1> QED BY <1>1 DEF IInv, Armed, isModeActive, ReasonMatchesArming,
                    SilentLinkCutsThrottle, LandedIsDisarmed, RescueNeverWhileArmed,
                    NoArmedCalibration, SwitchLatched

LEMMA InvStep ==
  ASSUME IInv, [Next]_vars
  PROVE  IInv'
<1>1. TypeOK'
  BY TypeStep DEF IInv
<1>2. CASE Quiet \/ \E s \in Statuses \ {"IDLE"} : Frame(s)
  <2>1. PICK s \in Statuses, frame \in [Channels -> Int] :
          InputUpdate(s, frame) /\ UNCHANGED released
    BY <1>2, QuietOrFrame DEF IInv
  <2>2. sinceFrame' \in Nat
    BY <1>1 DEF TypeOK
  <2> QED BY <1>1, <2>1, <2>2, InputSafe DEF IInv
<1>3. CASE Actuate
  BY <1>1, <1>3, ActuateSafe DEF IInv
<1>4. CASE Command
  BY <1>1, <1>4, CommandSafe DEF IInv
<1>5. CASE Override \/ Tick \/ UNCHANGED vars
  BY <1>1, <1>5, OtherSafe DEF IInv
<1> QED BY <1>2, <1>3, <1>4, <1>5 DEF Next

LEMMA InvInit ==
  ASSUME Init
  PROVE  IInv
<1>1. TypeOK
  BY TypeInit
<1>2. mask = {} /\ disarmReason = "ARMING_DISABLED" /\ lossTime = 0
      /\ calibrating = GyroPresent /\ armingDisabledFlags = {}
  BY DEF Init, FlightInit
<1>3. SilentLinkCutsThrottle
  BY <1>2, TimeAssumption DEF SilentLinkCutsThrottle
<1> QED BY <1>1, <1>2, <1>3
        DEF IInv, ReasonMatchesArming, LandedIsDisarmed, RescueNeverWhileArmed,
            NoArmedCalibration, SwitchLatched, Armed, isModeActive

(* The inductive invariant holds of every configuration: any condition      *)
(* table, any failsafe values, timeouts and frame counts.                   *)
THEOREM InductiveInvariant == Spec => []IInv
<1>1. Init => IInv
  BY InvInit
<1>2. IInv /\ [Next]_vars => IInv'
  BY InvStep
<1> QED BY <1>1, <1>2, PTL DEF Spec

(* The disarm reason is SYSTEM exactly while the craft is armed.            *)
THEOREM ReasonMatchesArmingAlways == Spec => []ReasonMatchesArming
<1>1. IInv => ReasonMatchesArming
  BY DEF IInv
<1> QED BY <1>1, InductiveInvariant, PTL

(* An armed craft whose link is silent for stage 1 has its throttle at the  *)
(* failsafe value; one whose failsafe has reached stage 2 is disarmed.      *)
THEOREM SilenceIsSafeAlways == Spec => []SilenceIsSafe
<1>1. IInv => SilenceIsSafe
  BY DEF IInv, SilenceIsSafe
<1> QED BY <1>1, InductiveInvariant, PTL

(* Neither the rescue configuration nor a calibration comes into a flight.  *)
THEOREM NothingElseInFlight == Spec => []NothingStartsInFlight
<1>1. IInv => NothingStartsInFlight
  BY DEF IInv, NothingStartsInFlight
<1> QED BY <1>1, InductiveInvariant, PTL

-----------------------------------------------------------------------------
(* Only the actuator arms. *)
LEMMA OnlyActuateArms ==
  ASSUME IInv, [Next]_vars, Arms
  PROVE  Actuate
<1> USE DEF Arms, Armed, isModeActive
<1>1. CASE Quiet \/ \E s \in Statuses \ {"IDLE"} : Frame(s)
  <2>1. PICK s \in Statuses, frame \in [Channels -> Int] : InputUpdate(s, frame)
    BY <1>1, QuietOrFrame DEF IInv
  <2> QED BY <2>1 DEF InputUpdate, SwitchFailsafe, LinkValid, ReceiverFailsafe,
                      LinkSilent, failsafeStage2, disarm, armVars
<1>2. CASE Override \/ Tick \/ Command \/ UNCHANGED vars
  BY <1>2 DEF Override, MspSetRawRc, Tick, TickFlight, Command, MspSetArmingDisabled,
              CliEnter, Calibrate, CalibrationDone, disarm, vars, flightVars, armVars
<1> QED BY <1>1, <1>2 DEF Next

(* No craft arms with its arm switch still on from before boot, or from     *)
(* before whatever last forbade arming.                                     *)
THEOREM ArmingNeedsRelease == Spec => ArmNeedsRelease
<1>1. ASSUME IInv, [Next]_vars, Arms PROVE released
  <2>1. PICK tilted \in BOOLEAN, noGps \in BOOLEAN : ActuatorUpdate(tilted, noGps)
    BY <1>1, OnlyActuateArms DEF Actuate
  <2>2. ~calibrating /\ GyroPresent /\ "ARM_SWITCH" \notin armingDisabledFlags
    BY <1>1, <2>1, ArmingStep
  <2> QED BY <1>1, <2>2 DEF IInv, SwitchLatched
<1>2. IInv /\ [Next]_vars => [Arms => released]_vars
  BY <1>1
<1> QED BY <1>2, InductiveInvariant, PTL DEF Spec, ArmNeedsRelease

(* The step that arms the craft finds the link up, the throttle down, no    *)
(* calibration running and no configurator holding the craft.               *)
THEOREM ArmingIsSafe == Spec => ArmsOnlyWhenSafe
<1> DEFINE Good == /\ phase = "IDLE" /\ ~rxLoss /\ ~rxFailSafe
                   /\ ~calibrating
                   /\ us[THRUST] < MinCheck
                   /\ lossTime < Stage1Timeout
                   /\ armingDisabledFlags \intersect {"CLI", "MSP"} = {}
<1>1. ASSUME IInv, [Next]_vars, Arms PROVE Good
  <2>1. PICK tilted \in BOOLEAN, noGps \in BOOLEAN : ActuatorUpdate(tilted, noGps)
    BY <1>1, OnlyActuateArms DEF Actuate
  <2>2. /\ isThrottleLow /\ phase = "IDLE" /\ ~rxLoss /\ ~rxFailSafe
        /\ ~calibrating
        /\ armingDisabledFlags \intersect {"CLI", "MSP", "ARM_SWITCH"} = {}
    BY <1>1, <2>1, ArmingStep
  <2>3. lossTime < Stage1Timeout
    BY <1>1, <2>2, TimeAssumption DEF IInv, TypeOK, SilentLinkCutsThrottle
  <2> QED BY <2>2, <2>3 DEF isThrottleLow
<1>2. IInv /\ [Next]_vars => [Arms => Good]_vars
  BY <1>1
<1> QED BY <1>2, InductiveInvariant, PTL DEF Spec, ArmsOnlyWhenSafe

(* The failsafe ends only with a good frame: neither the age of the link    *)
(* wrapping to zero nor a frame marked lost ends it.                        *)
THEOREM OnlyFramesEndFailsafe == Spec => FailsafeEndsWithFrame
<1> DEFINE Ends == phase # "IDLE" /\ phase' = "IDLE" => sinceFrame' = 0 /\ ~rxLoss'
<1>1. ASSUME IInv, [Next]_vars PROVE [Ends]_vars
  <2>1. CASE Quiet \/ \E s \in Statuses \ {"IDLE"} : Frame(s)
    <3>1. PICK s \in Statuses, frame \in [Channels -> Int] : InputUpdate(s, frame)
      BY <1>1, <2>1, QuietOrFrame DEF IInv
    <3>2. CASE LinkValid(s)
      BY <3>1, <3>2 DEF LinkValid, InputUpdate, ReadFrame, ReadLossFlags
    <3>3. CASE SwitchFailsafe(s) \/ ReceiverFailsafe(s) \/ LinkSilent(s)
      BY <3>3 DEF SwitchFailsafe, ReceiverFailsafe, LinkSilent, failsafeStage1,
                  failsafeStage2
    <3> QED BY <3>1, <3>2, <3>3 DEF InputUpdate
  <2>2. CASE Actuate \/ Override \/ Tick \/ Command
    BY <2>2 DEF Actuate, ActuatorUpdate, Override, MspSetRawRc, Tick, TickFlight,
                Command, MspSetArmingDisabled, CliEnter, Calibrate, CalibrationDone
  <2> QED BY <1>1, <2>1, <2>2 DEF Next
<1>2. IInv /\ [Next]_vars => [Ends]_vars
  BY <1>1
<1> QED BY <1>2, InductiveInvariant, PTL DEF Spec, FailsafeEndsWithFrame

(* Without a receiver no configuration ever arms: the positions stay those  *)
(* of Input::begin, and if they say "arm", the switch is never released.    *)
THEOREM NoReceiverNoArming == Spec => []NoReceiverNeverArms
<1> DEFINE Boot == [c \in Channels |-> IF c = THRUST THEN PWM_RANGE_MIN ELSE PWM_RANGE_MID]
           On == \E d \in Conditions : d.id = "ARMED" /\ d.min < Boot[d.ch] /\ Boot[d.ch] < d.max
           J == ~HasDevice => us = Boot /\ ~Armed /\ (On => ~released)
<1> USE DEF Armed, isModeActive
<1>1. Init => J
  BY DEF Init, FlightInit
<1>2. ASSUME IInv, [Next]_vars, J PROVE J'
  <2> SUFFICES ASSUME ~HasDevice PROVE us' = Boot /\ ~Armed' /\ (On => ~released')
    OBVIOUS
  <2>1. us = Boot /\ ~Armed /\ (On => ~released)
    BY <1>2
  <2>2. CASE Quiet \/ \E s \in Statuses \ {"IDLE"} : Frame(s)
    BY <2>2 DEF Quiet, Frame, InputUpdate
  <2>3. CASE Actuate
    <3>1. PICK tilted \in BOOLEAN, noGps \in BOOLEAN : ActuatorUpdate(tilted, noGps)
      BY <2>3 DEF Actuate
    <3>2. us' = us /\ maskSwitch' = SwitchMask
      BY <3>1 DEF ActuatorUpdate
    <3>3. "ARMED" \in SwitchMask <=> On
      BY <2>1 DEF SwitchMask
    <3>4. On => ~released'
      BY <2>1, <2>3, <3>2, <3>3 DEF Actuate
    <3>5. ASSUME Arms PROVE FALSE
      <4>1. "ARMED" \in maskSwitch' /\ ~calibrating /\ GyroPresent
            /\ "ARM_SWITCH" \notin armingDisabledFlags
        BY <3>1, <3>5, ArmingStep
      <4>2. released
        BY <1>2, <4>1 DEF IInv, SwitchLatched
      <4> QED BY <2>1, <3>2, <3>3, <4>1, <4>2
    <3> QED BY <2>1, <3>2, <3>4, <3>5 DEF Arms
  <2>4. CASE Override \/ Tick \/ Command \/ UNCHANGED vars
    <3>1. us' = us /\ released' = released /\ ("ARMED" \in mask' => "ARMED" \in mask)
      BY <2>4 DEF Override, MspSetRawRc, Tick, TickFlight, Command,
                  MspSetArmingDisabled, CliEnter, Calibrate, CalibrationDone, disarm,
                  vars, flightVars, armVars
    <3> QED BY <2>1, <3>1
  <2> QED BY <1>2, <2>2, <2>3, <2>4 DEF Next
<1>3. IInv /\ J /\ [Next]_vars => J'
  BY <1>2
<1>4. J => NoReceiverNeverArms
  BY DEF NoReceiverNeverArms
<1> QED BY <1>1, <1>3, <1>4, InductiveInvariant, PTL DEF Spec

-----------------------------------------------------------------------------
(* The mixer neither changes what the first core reads nor asks anything of *)
(* it: seen from the first core, a step of the craft is one of its own or   *)
(* none.                                                                    *)
LEMMA CraftStepIsFlightStep ==
  ASSUME [CraftNext]_craftVars
  PROVE  [Next]_vars
<1>1. CASE CoreZero
  BY <1>1 DEF CoreZero, QuietCraft, TickCraft, Next
<1>2. CASE MixerRead \/ MixerWrite \/ UNCHANGED craftVars
  BY <1>2 DEF MixerRead, MixerWrite, craftVars
<1> QED BY <1>1, <1>2 DEF CraftNext

(* The craft of two cores implements the core of FlightController: all that *)
(* is proved of that core above holds with the mixer running beside it.     *)
THEOREM CraftImplementsFlight == CraftSpec => Spec
<1>1. CraftInit => Init
  BY DEF CraftInit
<1>2. [CraftNext]_craftVars => [Next]_vars
  BY CraftStepIsFlightStep
<1> QED BY <1>1, <1>2, PTL DEF CraftSpec, Spec

(* A late write has been made at most once, and then the mixer has asked    *)
(* again, or will ask, while the craft is disarmed.                         *)
LateWriteIsLast ==
  /\ mixer \in {"read", "disarmed", "mixed"}
  /\ lateWrites \in {0, 1}
  /\ lateWrites = 1 => ~Armed /\ mixer # "mixed"

(* A step of the first core that leaves the craft armed forgets the late    *)
(* writes; one that leaves it disarmed changes nothing the mixer has.       *)
LEMMA WatchKeepsLateWrite ==
  ASSUME LateWriteIsLast, Watch
  PROVE  LateWriteIsLast'
<1>1. mixer' = mixer
  BY DEF Watch
<1>2. CASE "ARMED" \in mask'
  <2>1. lateWrites' = 0
    BY <1>2 DEF Watch
  <2> QED BY <1>1, <2>1 DEF LateWriteIsLast
<1>3. CASE "ARMED" \notin mask'
  <2>1. lateWrites' = lateWrites
    BY <1>3 DEF Watch
  <2> QED BY <1>1, <1>3, <2>1 DEF LateWriteIsLast, Armed, isModeActive
<1> QED BY <1>2, <1>3

(* However the two cores interleave, a disarm is followed by at most one    *)
(* write of mixed values: the mixer asks anew for every write.              *)
THEOREM DisarmReachesMotors == CraftSpec => []AtMostOneLateWrite
<1>1. CraftInit => LateWriteIsLast
  BY DEF CraftInit, LateWriteIsLast
<1>2. LateWriteIsLast /\ [CraftNext]_craftVars => LateWriteIsLast'
  <2> SUFFICES ASSUME LateWriteIsLast, [CraftNext]_craftVars
               PROVE  LateWriteIsLast'
    OBVIOUS
  <2>1. CASE CoreZero
    <3>1. Watch
      BY <2>1 DEF CoreZero, QuietCraft, TickCraft
    <3> QED BY <3>1, WatchKeepsLateWrite
  <2>2. CASE MixerRead
    <3>1. Armed' = Armed /\ lateWrites' = lateWrites
      BY <2>2 DEF MixerRead, vars, flightVars, armVars, Armed, isModeActive
    <3>2. mixer' = (IF Stop THEN "disarmed" ELSE "mixed") /\ (~Armed => Stop)
      BY <2>2 DEF MixerRead, Stop, Armed
    <3> QED BY <3>1, <3>2 DEF LateWriteIsLast
  <2>3. CASE MixerWrite
    <3>1. Armed' = Armed /\ mixer' = "read"
      BY <2>3 DEF MixerWrite, vars, flightVars, armVars, Armed, isModeActive
    <3>2. lateWrites' = IF mixer = "mixed" /\ ~Armed THEN lateWrites + 1 ELSE lateWrites
      BY <2>3 DEF MixerWrite
    <3> QED BY <3>1, <3>2 DEF LateWriteIsLast
  <2>4. CASE UNCHANGED craftVars
    BY <2>4 DEF craftVars, vars, flightVars, armVars, LateWriteIsLast, Armed, isModeActive
  <2> QED BY <2>1, <2>2, <2>3, <2>4 DEF CraftNext
<1>3. LateWriteIsLast => AtMostOneLateWrite
  BY DEF LateWriteIsLast, AtMostOneLateWrite
<1> QED BY <1>1, <1>2, <1>3, PTL DEF CraftSpec
=============================================================================
