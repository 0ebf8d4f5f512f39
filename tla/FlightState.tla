---------------------------- MODULE FlightState ----------------------------
(***************************************************************************)
(* The part of Espfc::ModelState (ModelState.h) through which the receiver *)
(* side (Input.cpp) and the flight-mode side (Actuator.cpp) of the flight  *)
(* controller talk to each other, and the Model methods (Model.h) both     *)
(* sides call.                                                             *)
(*                                                                         *)
(* Channel positions are microseconds, as in the code; of the four sticks  *)
(* only the throttle decides anything here, so the channels are THRUST and *)
(* the aux channels.  Time is counted in tenths of a second, the unit of   *)
(* TENTH_TO_US; ages of 32-bit microsecond stamps are taken modulo         *)
(* ClockMod (2^32 us, made small).                                         *)
(***************************************************************************)
EXTENDS Integers, FiniteSets

CONSTANTS
  NAux,             \* number of auxiliary channels
  Conditions,       \* config.conditions: records [id, ch, min, max]
  FsMode,           \* config.input.channel[c].fsMode, by channel
  FsValue,          \* config.input.channel[c].fsValue, by channel
  RcValues,         \* positions a received frame may hold, after scaling
  OverrideValues,   \* positions an MSP_SET_RAW_RC message may hold
  SmoothThrust,     \* TRUE: the stick filter of config.input.filter is on
  MinRc, MaxRc,     \* config.input.minRc, maxRc
  MinCheck,         \* config.input.minCheck
  AirmodeThrust,    \* the 1400 of Actuator::updateAirMode
  Stage1Timeout,    \* failsafe stage 1, tenths of a second
  Stage2Delay,      \* config.failsafe.delay after the clamp, tenths
  OverrideTimeout,  \* the 500000 us of Input::filterInputs, tenths
  ClockMod,         \* where the microsecond clock wraps, tenths
  IgnoreFrames,     \* the 5 of Input::processInputs
  RescueFrames,     \* the 100 of Actuator::updateRescueConfig
  RescueDelay,      \* config.rescueConfigDelay, in ticks; 0 = off
  Commands,         \* which serial commands arrive: {"MSP", "CLI", "CALIBRATE"}
  GpsFeature,       \* FEATURE_GPS
  HasDevice,        \* Input::getInputDevice found a receiver
  GyroPresent, AccelActive, BaroDev,
  MotorProtocol     \* config.output.protocol # ESC_PROTOCOL_DISABLED

THRUST == 0
Channels == 0..NAux
PWM_RANGE_MIN == 1000
PWM_RANGE_MID == 1500

Modes == {"ARMED", "AIRMODE", "ANGLE", "ALTHOLD", "FAILSAFE"}
Phases == {"IDLE", "RX_LOSS", "LANDED"}
Reasons == {"ARMING_DISABLED", "FAILSAFE", "SWITCH", "SYSTEM"}
RescueModes == {"PENDING", "ACTIVE", "DISABLED"}
ArmingDisabledFlags ==
  {"NO_GYRO", "FAILSAFE", "RX_FAILSAFE", "BOXFAILSAFE", "THROTTLE", "ANGLE",
   "CALIBRATING", "CLI", "MSP", "GPS", "REBOOT_REQUIRED", "MOTOR_PROTOCOL",
   "ARM_SWITCH"}

ASSUME ConfigAssumption ==
  /\ NAux \in Nat /\ NAux > 0
  /\ \A c \in Conditions : /\ c.id \in Modes /\ c.ch \in 1..NAux
                           /\ c.min \in Int /\ c.max \in Int
  /\ FsMode \in [Channels -> {"AUTO", "HOLD", "SET"}]
  /\ FsValue \in [Channels -> Int]
  /\ RcValues \subseteq Int /\ OverrideValues \subseteq Int
  /\ MinRc \in Int /\ MaxRc \in Int /\ MinCheck \in Int /\ AirmodeThrust \in Int
  /\ PWM_RANGE_MIN < MinCheck /\ MinCheck <= AirmodeThrust

ASSUME TimeAssumption ==
  /\ Stage1Timeout \in Nat /\ Stage2Delay \in Nat /\ OverrideTimeout \in Nat
  /\ ClockMod \in Nat /\ IgnoreFrames \in Nat
  /\ RescueFrames \in Nat /\ RescueDelay \in Nat
  /\ IgnoreFrames <= RescueFrames + 1
  /\ 0 < Stage1Timeout /\ Stage1Timeout <= Stage2Delay
  /\ Stage2Delay + 1 < ClockMod

ASSUME FlagAssumption ==
  {SmoothThrust, GpsFeature, HasDevice, GyroPresent, AccelActive,
   BaroDev, MotorProtocol} \subseteq BOOLEAN

VARIABLES
  us,             \* input.us: the positions everything else reads
  buffer,         \* input.buffer: the positions of the last good frame
  frameCount,     \* input.frameCount, saturating at RescueFrames + 1
  sinceFrame,     \* micros() - input.frameTime
  lossTime,       \* input.lossTime
  rxLoss, rxFailSafe,
  overrideActive, overrideUs,
  sinceOverride,  \* micros() - input.overrideTime while overrideActive
  phase,          \* failsafe.phase
  mask, maskSwitch,
  disarmReason, armingDisabledFlags, airmodeAllowed, rescueConfigMode,
  calibrating,    \* Model::calibrationActive()
  uptime          \* millis(), saturating at RescueDelay + 1

receiverVars == <<buffer, frameCount, sinceFrame, lossTime, rxLoss, rxFailSafe>>
overrideVars == <<overrideActive, overrideUs, sinceOverride>>
armVars == <<mask, disarmReason>>
switchVars == <<maskSwitch, armingDisabledFlags, airmodeAllowed, rescueConfigMode>>
flightVars == <<us, receiverVars, overrideVars, phase, armVars, switchVars,
                calibrating, uptime>>

-----------------------------------------------------------------------------
isModeActive(m) == m \in mask
isSwitchActive(m) == m \in maskSwitch
isThrottleLow == us[THRUST] < MinCheck

(* Mutant: the reason is forgotten. *)
disarm_NoReason(reason) ==
  /\ mask' = mask \ {"ARMED", "AIRMODE"}
  /\ UNCHANGED disarmReason

(* Model::disarm.  maskPrev, which it also touches, is not modelled: every  *)
(* reader of it (Model::hasChanged) comes after updateModes overwrote it in *)
(* the same actuator update.  The EVENT_DISARM it queues is ignored by the  *)
(* other core (Espfc::updateOther, default case).                           *)
disarm(reason) ==
  /\ disarmReason' = reason
  /\ mask' = mask \ {"ARMED", "AIRMODE"}

FlightInit ==
  /\ us = [c \in Channels |-> IF c = THRUST THEN PWM_RANGE_MIN ELSE PWM_RANGE_MID]
  /\ buffer = us
  /\ frameCount = 0 /\ sinceFrame = 0 /\ lossTime = 0
  /\ rxLoss = FALSE /\ rxFailSafe = FALSE
  /\ overrideActive = FALSE /\ sinceOverride = 0
  /\ overrideUs = [c \in Channels |-> 0]
  /\ phase = "IDLE"
  /\ mask = {} /\ maskSwitch = {}
  /\ disarmReason = "ARMING_DISABLED"
  /\ armingDisabledFlags = {}
  /\ airmodeAllowed = FALSE
  /\ rescueConfigMode = "PENDING"
  /\ calibrating = GyroPresent   \* GyroSensor::begin starts a calibration
  /\ uptime = 0

(* One tenth of a second passes. *)
Age(a) == (a + 1) % ClockMod
TickFlight ==
  /\ sinceFrame' = Age(sinceFrame)
  /\ sinceOverride' = IF overrideActive THEN Age(sinceOverride) ELSE 0
  /\ uptime' = IF uptime > RescueDelay THEN uptime ELSE uptime + 1
  /\ UNCHANGED <<us, buffer, frameCount, lossTime, rxLoss, rxFailSafe,
                 overrideActive, overrideUs, phase, armVars, switchVars, calibrating>>
=============================================================================
