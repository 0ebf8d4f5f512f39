---------------------------- MODULE FlightModes ----------------------------
(***************************************************************************)
(* Espfc::Control::Actuator (Control/Actuator.cpp): from switch positions  *)
(* and the reasons that forbid arming to the active flight modes.          *)
(*                                                                         *)
(* One call of Actuator::update is one step, at 50 Hz on the core that     *)
(* also runs the receiver.  What it does to the PID scalers, the buzzer,   *)
(* the LED, the GPIO pin and the GPS home position is not modelled.        *)
(***************************************************************************)
EXTENDS FlightState

(* Actuator::updateArmingDisabled: the flags it owns, and when each is up.  *)
(* tilted: the attitude exceeds arming.smallAngle.  noGps: too few          *)
(* satellites.  The GPS flag is left alone without FEATURE_GPS.             *)
Measured == {"NO_GYRO", "FAILSAFE", "RX_FAILSAFE", "THROTTLE", "CALIBRATING",
             "MOTOR_PROTOCOL", "REBOOT_REQUIRED", "ANGLE"}
              \union (IF GpsFeature THEN {"GPS"} ELSE {})

Raised(flag, tilted, noGps) ==
  CASE flag = "NO_GYRO"         -> ~GyroPresent
    [] flag = "FAILSAFE"        -> phase # "IDLE"
    [] flag = "RX_FAILSAFE"     -> rxLoss \/ rxFailSafe
    [] flag = "THROTTLE"        -> ~isThrottleLow
    [] flag = "CALIBRATING"     -> calibrating
    [] flag = "MOTOR_PROTOCOL"  -> ~MotorProtocol
    [] flag = "REBOOT_REQUIRED" -> rescueConfigMode = "ACTIVE"
    [] flag = "ANGLE"           -> AccelActive /\ tilted
    [] flag = "GPS"             -> noGps

updateArmingDisabled(tilted, noGps) ==
  (armingDisabledFlags \ Measured) \union {f \in Measured : Raised(f, tilted, noGps)}

(* The modes whose switch stands in its range, Actuator::updateModeMask.    *)
SwitchMask == {c.id : c \in {d \in Conditions : d.min < us[d.ch] /\ us[d.ch] < d.max}}

(* Mutant: ARM_SWITCH does not see itself, so it falls with the last flag.  *)
WithArmSwitch_NotHeld(flags, switches) ==
  IF flags \ {"ARM_SWITCH"} # {} /\ "ARMED" \in switches
  THEN flags \union {"ARM_SWITCH"} ELSE flags \ {"ARM_SWITCH"}

(* Mutant: the throttle alone decides whether the craft may arm. *)
canActivateMode_ThrottleOnly(m, flags) ==
  CASE m = "ARMED"   -> isThrottleLow
    [] m = "ANGLE"   -> AccelActive
    [] m = "AIRMODE" -> airmodeAllowed
    [] m = "ALTHOLD" -> BaroDev
    [] OTHER         -> TRUE

(* The two switch flags of updateModeMask, added to the measured ones.      *)
(* ARM_SWITCH sees the flags it belongs to: once up, it stays up until the  *)
(* arm switch is released.                                                  *)
WithBoxFailsafe(flags, switches) ==
  (flags \ {"BOXFAILSAFE"})
    \union (IF "FAILSAFE" \in switches THEN {"BOXFAILSAFE"} ELSE {})

WithArmSwitch(flags, switches) ==
  IF flags # {} /\ "ARMED" \in switches
  THEN flags \union {"ARM_SWITCH"} ELSE flags \ {"ARM_SWITCH"}

(* Actuator::canActivateMode *)
canActivateMode(m, flags) ==
  CASE m = "ARMED"   -> flags = {} /\ isThrottleLow
    [] m = "ANGLE"   -> AccelActive
    [] m = "AIRMODE" -> airmodeAllowed
    [] m = "ALTHOLD" -> BaroDev
    [] OTHER         -> TRUE

(* updateModeMask, the new mask: a mode that is already on is not asked     *)
(* again whether it may be.                                                 *)
NewMask(switches, flags) ==
  LET wanted == switches \union (IF phase # "IDLE" THEN {"FAILSAFE"} ELSE {})
  IN {m \in wanted : m \in mask \/ canActivateMode(m, flags)}

(* Actuator::updateArmed *)
updateArmed(newMask) ==
  disarmReason' =
    IF "ARMED" \in newMask
    THEN IF isModeActive("ARMED") THEN disarmReason ELSE "SYSTEM"
    ELSE IF isModeActive("ARMED") /\ disarmReason = "SYSTEM" THEN "SWITCH" ELSE disarmReason

(* Actuator::updateAirMode *)
updateAirMode(newMask) ==
  airmodeAllowed' = ("ARMED" \in newMask /\ (airmodeAllowed \/ us[THRUST] > AirmodeThrust))

(* Actuator::updateRescueConfig, after updateArmed: arming disables it.     *)
updateRescueConfig(newMask) ==
  LET armedNow == "ARMED" \in newMask /\ ~isModeActive("ARMED")
      due == phase # "IDLE" /\ RescueDelay > 0 /\ uptime > RescueDelay
  IN rescueConfigMode' =
       CASE armedNow -> "DISABLED"
         [] ~armedNow /\ rescueConfigMode # "PENDING" -> rescueConfigMode
         [] ~armedNow /\ rescueConfigMode = "PENDING" ->
              IF due THEN "ACTIVE"
              ELSE IF frameCount > RescueFrames THEN "DISABLED" ELSE "PENDING"

(* Actuator::update *)
ActuatorUpdate(tilted, noGps) ==
  LET switches == SwitchMask
      flags == WithArmSwitch(WithBoxFailsafe(updateArmingDisabled(tilted, noGps),
                                             switches), switches)
      newMask == NewMask(switches, flags)
  IN /\ armingDisabledFlags' = flags
     /\ maskSwitch' = switches
     /\ mask' = newMask
     /\ updateArmed(newMask)
     /\ updateAirMode(newMask)
     /\ updateRescueConfig(newMask)
     /\ UNCHANGED <<us, receiverVars, overrideVars, phase, calibrating, uptime>>

-----------------------------------------------------------------------------
(* The commands that reach the same state from the serial ports.            *)

(* MSP_SET_ARMING_DISABLED: sets or clears the MSP flag, and disarms an     *)
(* armed craft whichever of the two it was asked for.                       *)
MspSetArmingDisabled(disable) ==
  /\ "MSP" \in Commands
  /\ armingDisabledFlags' = IF disable THEN armingDisabledFlags \union {"MSP"}
                                       ELSE armingDisabledFlags \ {"MSP"}
  /\ IF isModeActive("ARMED") THEN disarm("ARMING_DISABLED") ELSE UNCHANGED armVars
  /\ UNCHANGED <<us, receiverVars, overrideVars, phase, maskSwitch, airmodeAllowed,
                 rescueConfigMode, calibrating, uptime>>

(* The '#' that opens the CLI. *)
CliEnter ==
  /\ "CLI" \in Commands
  /\ armingDisabledFlags' = armingDisabledFlags \union {"CLI"}
  /\ UNCHANGED <<us, receiverVars, overrideVars, phase, armVars, maskSwitch,
                 airmodeAllowed, rescueConfigMode, calibrating, uptime>>

(* Mutant: a calibration starts in flight too. *)
Calibrate_Unguarded ==
  /\ "CALIBRATE" \in Commands
  /\ calibrating' = TRUE
  /\ UNCHANGED <<us, receiverVars, overrideVars, phase, armVars, switchVars, uptime>>

(* MSP_ACC_CALIBRATION, MSP_MAG_CALIBRATION and the CLI's cal command are   *)
(* refused while armed; the sensors finish a calibration later.  It takes   *)
(* seconds, so an actuator update has always seen it by then.               *)
Calibrate ==
  /\ "CALIBRATE" \in Commands
  /\ ~isModeActive("ARMED")
  /\ calibrating' = TRUE
  /\ UNCHANGED <<us, receiverVars, overrideVars, phase, armVars, switchVars, uptime>>

CalibrationDone ==
  /\ calibrating
  /\ "CALIBRATING" \in armingDisabledFlags
  /\ calibrating' = FALSE
  /\ UNCHANGED <<us, receiverVars, overrideVars, phase, armVars, switchVars, uptime>>
=============================================================================
