-------------------------- MODULE FlightController --------------------------
(***************************************************************************)
(* The arming and failsafe core of the flight controller: the receiver     *)
(* (RcInput), the flight modes (FlightModes) and the serial commands,      *)
(* which take turns on one core (Espfc::update).                           *)
(***************************************************************************)
EXTENDS RcInput, FlightModes

(* History, read by no action: the actuator has seen the arm switch off     *)
(* since boot, and since it last raised ARM_SWITCH.                         *)
VARIABLE released

vars == <<flightVars, released>>

Init == FlightInit /\ released = FALSE

-----------------------------------------------------------------------------
Quiet == InputUpdate("IDLE", buffer) /\ UNCHANGED released

Frame(status) ==
  /\ \E frame \in [Channels -> RcValues] : InputUpdate(status, frame)
  /\ UNCHANGED released

Actuate ==
  /\ \E tilted, noGps \in BOOLEAN : ActuatorUpdate(tilted, noGps)
  /\ released' = (IF "ARMED" \notin maskSwitch' THEN TRUE
                  ELSE released /\ "ARM_SWITCH" \notin armingDisabledFlags')

Override ==
  /\ \E n \in 0..(NAux + 1), values \in [Channels -> OverrideValues] :
       MspSetRawRc(n, values)
  /\ UNCHANGED released

Command ==
  /\ \/ \E disable \in BOOLEAN : MspSetArmingDisabled(disable)
     \/ CliEnter
     \/ Calibrate
     \/ CalibrationDone
  /\ UNCHANGED released

Tick == TickFlight /\ UNCHANGED released

Next ==
  \/ Quiet
  \/ \E status \in Statuses \ {"IDLE"} : Frame(status)
  \/ Actuate
  \/ Override
  \/ Command
  \/ Tick

Spec == Init /\ [][Next]_vars

-----------------------------------------------------------------------------
(* The type of every variable. *)
TypeOK ==
  /\ us \in [Channels -> Int] /\ buffer \in [Channels -> Int]
  /\ frameCount \in 0..(RescueFrames + 1)
  /\ sinceFrame \in 0..(ClockMod - 1) /\ lossTime \in 0..(ClockMod - 1)
  /\ rxLoss \in BOOLEAN /\ rxFailSafe \in BOOLEAN
  /\ overrideActive \in BOOLEAN /\ overrideUs \in [Channels -> Int]
  /\ sinceOverride \in 0..(ClockMod - 1)
  /\ phase \in Phases
  /\ mask \subseteq Modes /\ maskSwitch \subseteq Modes
  /\ disarmReason \in Reasons
  /\ armingDisabledFlags \subseteq ArmingDisabledFlags
  /\ airmodeAllowed \in BOOLEAN /\ rescueConfigMode \in RescueModes
  /\ calibrating \in BOOLEAN
  /\ uptime \in 0..(RescueDelay + 1)
  /\ released \in BOOLEAN

Armed == isModeActive("ARMED")
Arms == ~Armed /\ "ARMED" \in mask'

(* A craft never arms with the arm switch already on: since boot, and since *)
(* anything last forbade arming with the switch on, the actuator must have  *)
(* seen the switch off.  At boot the aux channels read 1500, "on" for the   *)
(* usual range, before any frame came: only the calibration that a present  *)
(* gyro starts, and the self-holding ARM_SWITCH flag, stand in the way.     *)
ArmNeedsRelease == [][Arms => released]_vars

(* What is true of the craft, not of the flags, at the step that arms it:   *)
(* the link is up, no sensor calibrates, the throttle is down, no           *)
(* configurator holds the craft.                                            *)
ArmsOnlyWhenSafe ==
  [][Arms => /\ phase = "IDLE" /\ ~rxLoss /\ ~rxFailSafe
             /\ ~calibrating
             /\ us[THRUST] < MinCheck
             /\ lossTime < Stage1Timeout
             /\ armingDisabledFlags \intersect {"CLI", "MSP"} = {}]_vars

(* The disarm reason that MSP, blackbox and the configurator show is SYSTEM *)
(* exactly while the craft is armed: Input::failsafeStage2 and the serial   *)
(* commands disarm behind the actuator's back.                              *)
ReasonMatchesArming == Armed <=> disarmReason = "SYSTEM"

(* Once the receiver has been silent for stage 1, an armed craft's throttle *)
(* is at its failsafe value, with the pilot's last throttle in the buffer   *)
(* and the stick filter still holding it.                                   *)
SilentLinkCutsThrottle ==
  lossTime >= Stage1Timeout => /\ phase # "IDLE"
                               /\ Armed /\ FsMode[THRUST] = "AUTO"
                                    => us[THRUST] = PWM_RANGE_MIN

(* The failsafe phase ends only with a good frame, whatever the wrapping    *)
(* clock says of the age of the link.                                       *)
FailsafeEndsWithFrame ==
  [][phase # "IDLE" /\ phase' = "IDLE" => sinceFrame' = 0 /\ ~rxLoss']_vars

(* A craft whose failsafe has reached stage 2 stays disarmed until a good   *)
(* frame ends it: later silent calls, frames marked lost, the failsafe      *)
(* switch and the actuator, which reads other variables, all come between.  *)
LandedIsDisarmed == phase = "LANDED" \/ rxFailSafe => ~Armed

(* A silent link ends the flight: first the throttle, then the arming.      *)
SilenceIsSafe == SilentLinkCutsThrottle /\ LandedIsDisarmed

(* The rescue configuration mode (Wi-Fi access to the settings) never       *)
(* becomes active in flight, nor does a craft in that mode arm.             *)
RescueNeverWhileArmed == Armed => rescueConfigMode = "DISABLED"

(* The serial commands cannot start a calibration, nor can one be running,  *)
(* while the craft is armed.                                                *)
NoArmedCalibration == calibrating => ~Armed

(* A flight is not interrupted: neither the rescue configuration nor a      *)
(* calibration begins, or goes on, while the craft is armed.                *)
NothingStartsInFlight == RescueNeverWhileArmed /\ NoArmedCalibration

(* Without a receiver the craft never arms, although Input::update then     *)
(* returns before any failsafe, no arming flag tells of a missing receiver  *)
(* and the aux channels stay at 1500, where the arm switch reads "on".      *)
NoReceiverNeverArms == ~HasDevice => ~Armed

-----------------------------------------------------------------------------
(* Until the switch has been released, either ARM_SWITCH holds itself up or *)
(* what will raise it at the next actuator update is still true.            *)
SwitchLatched ==
  ~released => \/ "ARM_SWITCH" \in armingDisabledFlags
               \/ /\ calibrating \/ ~GyroPresent
                  /\ "CALIBRATING" \notin armingDisabledFlags

(* The inductive invariant: together these are preserved by every step.     *)
IInv ==
  /\ TypeOK
  /\ ReasonMatchesArming
  /\ SilentLinkCutsThrottle
  /\ LandedIsDisarmed
  /\ RescueNeverWhileArmed
  /\ NoArmedCalibration
  /\ SwitchLatched

=============================================================================
