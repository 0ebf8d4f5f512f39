---------------------------- MODULE CraftControl ----------------------------
(***************************************************************************)
(* FlightController together with the mixer (Output/Mixer.cpp), which runs *)
(* on the other core (Espfc::updateOther) and reads the modes and the      *)
(* throttle between any two steps of the first.                            *)
(***************************************************************************)
EXTENDS FlightController

CONSTANT MotorStop   \* FEATURE_MOTOR_STOP
ASSUME MotorStopAssumption == MotorStop \in BOOLEAN

VARIABLES
  mixer,       \* the mixer's step: "read", or what _stop() told it to write
  motor,       \* what drives the motors: "disarmed" values or "mixed" ones
  \* history, read by no action:
  status,      \* the status of the last Input::update
  lateWrites   \* mixed values written since the craft was last armed

craftVars == <<vars, mixer, motor, status, lateWrites>>

CraftInit ==
  /\ Init
  /\ mixer = "read" /\ motor = "disarmed"
  /\ status = "IDLE" /\ lateWrites = 0

-----------------------------------------------------------------------------
(* Mutant: the mixer looks at the arm switch, not at the mode. *)
Stop_SwitchOnly == ~isSwitchActive("ARMED") \/ (MotorStop /\ isThrottleLow)

(* Mixer::writeOutput asks Mixer::_stop once; the answer decides what all   *)
(* outputs get, and reaches the motors a while later.                       *)
Stop == ~isModeActive("ARMED") \/ (MotorStop /\ isThrottleLow)

MixerRead ==
  /\ mixer = "read"
  /\ mixer' = IF Stop THEN "disarmed" ELSE "mixed"
  /\ UNCHANGED <<vars, motor, status, lateWrites>>

MixerWrite ==
  /\ mixer # "read"
  /\ motor' = mixer
  /\ mixer' = "read"
  /\ lateWrites' = IF mixer = "mixed" /\ ~Armed THEN lateWrites + 1 ELSE lateWrites
  /\ UNCHANGED <<vars, status>>

(* The core of FlightController takes a step. *)
Watch == /\ lateWrites' = IF "ARMED" \in mask' THEN 0 ELSE lateWrites
         /\ UNCHANGED <<mixer, motor>>

QuietCraft == Quiet /\ status' = "IDLE" /\ Watch
TickCraft == Tick /\ UNCHANGED status /\ Watch

CoreZero ==
  \/ QuietCraft
  \/ TickCraft
  \/ \E s \in Statuses \ {"IDLE"} : Frame(s) /\ status' = s /\ Watch
  \/ (Actuate \/ Override \/ Command) /\ UNCHANGED status /\ Watch

CraftNext == CoreZero \/ MixerRead \/ MixerWrite

(* Input::update is called at every gyro period, a hundred times and more   *)
(* in a tenth of a second, so also in each tenth that the silent link is    *)
(* older than the stage 2 delay; the mixer runs with every control loop.    *)
Fairness ==
  /\ WF_craftVars(TickCraft)
  /\ SF_craftVars(QuietCraft /\ sinceFrame > Stage2Delay)
  /\ WF_craftVars(MixerRead)
  /\ WF_craftVars(MixerWrite)

CraftSpec == CraftInit /\ [][CraftNext]_craftVars /\ Fairness

-----------------------------------------------------------------------------
CraftTypeOK ==
  /\ TypeOK
  /\ mixer \in {"read", "disarmed", "mixed"} /\ motor \in {"disarmed", "mixed"}
  /\ status \in Statuses /\ lateWrites \in Nat

(* After a disarm on one core, the mixer on the other, which may be between *)
(* asking and writing, writes mixed values at most once more.               *)
AtMostOneLateWrite == lateWrites <= 1

(* If the receiver falls silent for good, the craft ends up disarmed with   *)
(* its motors stopped, although the clock that measures the silence wraps   *)
(* again and again and the stick positions of before the loss come back     *)
(* when it does.                                                            *)
SilenceStopsMotors ==
  (<>[](status = "IDLE")) => <>[](~Armed /\ motor = "disarmed")
=============================================================================
