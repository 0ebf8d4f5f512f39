-------------------------- MODULE AttitudeControl --------------------------
(***************************************************************************)
(* The control loop of the craft (Controller, Pid): what its integrals     *)
(* hold and what it makes of the throttle, while the modes, the stick and  *)
(* the scalers of the other core change between any two of its steps.      *)
(* One axis stands for all.  Its level PID, whose integral is reset and    *)
(* stopped with that of the axis, is left out, as are the proportional and *)
(* differential parts, filters of the moment.  An error moves an integral  *)
(* by at most one unit.                                                    *)
(***************************************************************************)
EXTENDS Integers

CONSTANTS
  Thrusts,             \* throttle positions, in tenths from -10 to 10
  LowThrust,           \* those at most this high are "low"
  ILimit,              \* limit of the integral of the axis
  HoldLow, HoldHigh    \* limits of the integral of the altitude hold

(* Controller::beginAltHold clamps centre and range of its integral.  The   *)
(* limit of the axes is a setting: the command line takes a negative one    *)
(* too (Cli.cpp:604), for which std::clamp has no meaning.                  *)
ASSUME ControlAssumption ==
  /\ Thrusts \subseteq Int /\ LowThrust \in Int
  /\ ILimit \in Nat
  /\ HoldLow \in Int /\ HoldHigh \in Int /\ HoldLow <= HoldHigh

Modes == {"ARMED", "ANGLE", "ALTHOLD", "AIR"}

VARIABLES
  modes, thrust,       \* mode.mask with the air mode; input.ch[THRUST]
  scaled,              \* the gains a scaler is configured for: "I", "F"
  pc,                  \* where the loop is
  robot,               \* mixer.type is FC_MIXER_GIMBAL
  inner,               \* the PID of the axis: iTerm, iScale and fScale
  hold,                \* iTerm of the PID of the throttle
  rate, out,           \* setpoint.rate[THRUST] and output.ch[THRUST]
  saturated,           \* output.saturated, outputSaturated of the PIDs of the axis
  \* History, read by no action:
  flown,               \* loops since the integrals were reset, ILimit if more
  torn,                \* something changed since the loop began
  stick,               \* the throttle the last loop handed on, if it held no altitude
  forward              \* the last loop fed the setpoint forward

core0Vars == <<modes, thrust, scaled>>
controlVars == <<core0Vars, pc, robot, inner, hold, rate, out, saturated, flown, torn, stick, forward>>

ControlInit ==
  /\ modes = {} /\ thrust \in Thrusts /\ scaled \in {{}, {"I", "F"}}
  /\ pc = "reset" /\ robot \in BOOLEAN
  /\ inner = [i |-> 0, iScale |-> TRUE, fScale |-> TRUE]
  /\ hold = 0 /\ rate = 0 /\ out = 0 /\ saturated = FALSE
  /\ flown = 0 /\ torn = FALSE /\ stick = {} /\ forward = FALSE

Limited(value, low, high) == IF value < low THEN low ELSE IF value > high THEN high ELSE value

-----------------------------------------------------------------------------
(* Pid::update of an integral: nothing moves it while the output is         *)
(* saturated; without a gain it is zero.  error is the sign of the error,   *)
(* or 0 when the relaxation has taken it away.                              *)
Integrated(i, error, gain, stopped, low, high) ==
  IF ~gain THEN 0 ELSE IF stopped THEN i ELSE Limited(i + error, low, high)

Updates == \E error \in {-1, 0, 1} :
  inner' = [inner EXCEPT !.i = Integrated(@, error, inner.iScale, saturated, -ILimit, ILimit)]

(* Controller::resetIterm; lowThrottleZeroIterm is set except for a robot *)
Grounded == "ARMED" \notin modes \/ ("AIR" \notin modes /\ ~robot /\ thrust <= LowThrust)

(* Mutant: the low throttle does not count. *)
resetIterm_ArmedOnly ==
  IF "ARMED" \notin modes THEN inner' = [inner EXCEPT !.i = 0] ELSE inner' = inner
resetIterm ==
  IF Grounded THEN inner' = [inner EXCEPT !.i = 0] ELSE inner' = inner

Reset ==
  /\ pc = "reset" /\ pc' = "outer"
  /\ resetIterm
  /\ flown' = (IF Grounded THEN 0 ELSE IF flown < ILimit THEN flown + 1 ELSE flown)
  /\ torn' = FALSE
  /\ UNCHANGED <<core0Vars, robot, hold, rate, out, saturated, stick, forward>>

-----------------------------------------------------------------------------
(* calcualteAltHoldSetpoint, in tenths of a metre per second *)
Deadband(value) == IF value > 1 THEN value - 1 ELSE IF value < -1 THEN value + 1 ELSE 0
ClimbRate == LET t == Deadband(thrust) IN IF t < 0 THEN 2 * t ELSE 4 * t

(* Controller::outerLoop *)
OuterLoop ==
  /\ IF "ANGLE" \in modes
     THEN inner' = [inner EXCEPT !.fScale = FALSE]
     ELSE inner' = inner
  /\ rate' = IF "ALTHOLD" \in modes THEN ClimbRate ELSE thrust

(* Controller::outerLoopRobot: the stick gives the angle, without a PID *)
OuterLoopRobot == UNCHANGED <<inner, rate>>

Outer ==
  /\ pc = "outer" /\ pc' = "inner"
  /\ IF robot THEN OuterLoopRobot ELSE OuterLoop
  /\ UNCHANGED <<core0Vars, robot, hold, out, saturated, flown, torn, stick, forward>>

(* Controller::innerLoop.  The PID of the throttle is never told that the   *)
(* outputs are saturated; without altitude hold it follows the stick.       *)
InnerLoop ==
  /\ Updates
  /\ IF "ALTHOLD" \in modes
     THEN \E error \in {-1, 1} :
             /\ hold' = Integrated(hold, error, TRUE, FALSE, HoldLow, HoldHigh)
             /\ out' = hold'
     ELSE hold' = thrust /\ out' = rate

(* Controller::innerLoopRobot: a craft that has fallen over does nothing    *)
InnerLoopRobot(stabilize) ==
  /\ IF stabilize THEN Updates ELSE resetIterm
  /\ UNCHANGED <<hold, out>>

Inner ==
  /\ pc = "inner" /\ pc' = "mix"
  /\ IF robot THEN \E stabilize \in BOOLEAN : InnerLoopRobot(stabilize) ELSE InnerLoop
  /\ forward' = inner.fScale
  /\ UNCHANGED <<core0Vars, robot, rate, saturated, flown, torn, stick>>

(* The mixer, which may be left out: then the flag stays.  Setpoint and     *)
(* output are written anew before they are read again.                      *)
Mix ==
  /\ pc = "mix" /\ pc' = "reset"
  /\ saturated' \in BOOLEAN
  /\ rate' = 0 /\ out' = 0
  /\ stick' = IF robot \/ "ALTHOLD" \in modes \/ torn THEN {} ELSE {out}
  /\ UNCHANGED <<core0Vars, robot, inner, hold, flown, torn, forward>>

-----------------------------------------------------------------------------
(* Receiver and actuator on the other core, at any point of the loop; more  *)
(* than one change is more than one step.                                   *)
ModesChange ==
  /\ \/ /\ \E mode \in Modes : modes' = IF mode \in modes THEN modes \ {mode} ELSE modes \union {mode}
        /\ thrust' = thrust
     \/ modes' = modes /\ thrust' \in Thrusts
  /\ torn' = TRUE
  /\ UNCHANGED <<scaled, pc, robot, inner, hold, rate, out, saturated, flown, stick, forward>>

(* Actuator::updateScaler; a scale of zero takes a part away. *)
updateScaler ==
  /\ scaled # {}
  /\ \E on \in BOOLEAN :
        inner' = [inner EXCEPT !.iScale = IF "I" \in scaled THEN on ELSE @,
                               !.fScale = IF "F" \in scaled THEN on ELSE @]
  /\ torn' = TRUE
  /\ UNCHANGED <<core0Vars, pc, robot, hold, rate, out, saturated, flown, stick, forward>>

ControlNext == Reset \/ Outer \/ Inner \/ Mix \/ ModesChange \/ updateScaler

ControlSpec == ControlInit /\ [][ControlNext]_controlVars

-----------------------------------------------------------------------------
(* What the loop hands to the mixer (Controller.cpp:236-253, 180-192): on   *)
(* the ground no integral has grown, so that a craft does not take off with *)
(* the tilt it stood at.  If nothing changed under its feet, the throttle   *)
(* is the stick's, unless the altitude is held, and a hold begins at the    *)
(* throttle the pilot had, as far as its limits go; in angle mode nothing   *)
(* is fed forward.  (A change between the two loops can hand over a climb   *)
(* rate as a throttle.)                                                     *)
Distance(a, b) == IF a < b THEN b - a ELSE a - b
ControlIsMeant ==
  pc = "mix" =>
    /\ Distance(inner.i, 0) <= flown + 1
    /\ ~torn /\ ~robot =>
         /\ "ALTHOLD" \notin modes => out = thrust /\ hold = thrust
         /\ "ALTHOLD" \in modes =>
              /\ out \in HoldLow..HoldHigh
              /\ \A before \in stick : Distance(out, Limited(before, HoldLow, HoldHigh)) <= 1
         /\ "ANGLE" \in modes => ~forward

-----------------------------------------------------------------------------
(* The inductive invariant.  A loop that has reset nothing has added at     *)
(* most one unit to the integral; between reset and mixing, a loop that     *)
(* nothing disturbed goes by the modes and the stick of its start; and the  *)
(* integral of a hold still is the throttle of the loop before.             *)
ControlTypeOK ==
  /\ modes \subseteq Modes /\ thrust \in Int
  /\ pc \in {"reset", "outer", "inner", "mix"} /\ robot \in BOOLEAN
  /\ inner \in [i : Int, iScale : BOOLEAN, fScale : BOOLEAN]
  /\ hold \in Int /\ rate \in Int /\ out \in Int
  /\ flown \in 0..ILimit /\ torn \in BOOLEAN /\ stick \subseteq Int

Grown == IF pc \in {"outer", "inner"} THEN flown ELSE flown + 1

IntegralIsBounded ==
  /\ Distance(inner.i, 0) <= ILimit
  /\ Distance(inner.i, 0) <= Grown

SetpointIsMeant ==
  pc = "inner" /\ ~torn /\ ~robot =>
    /\ "ALTHOLD" \notin modes => rate = thrust
    /\ "ANGLE" \in modes => ~inner.fScale

HoldFollowsStick == pc # "mix" => \A before \in stick : before = hold

ControlInv ==
  /\ ControlTypeOK
  /\ IntegralIsBounded
  /\ SetpointIsMeant
  /\ HoldFollowsStick
  /\ ControlIsMeant
=============================================================================
