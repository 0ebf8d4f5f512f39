---------------------------- MODULE MCSingleCore ----------------------------
(***************************************************************************)
(* For TLC: the loop of one core (loopSync and mixerSync settings, gyros   *)
(* at the rate of the receiver and at twice that rate), the control loop   *)
(* and the mixer.  A behaviour is about one of the parts.                  *)
(***************************************************************************)
EXTENDS SingleCore, AttitudeControl, MotorMixing

VARIABLE part

SomeRates == [loop : 1..4, mixer : 1..2, accel : {1, 2}, input : {1, 2}]

SomeThrusts == {-10, 5}
LowStickThrust == -9
HoldMinimum == -2

SomeCurves == {[rate |-> 20, superRate |-> 40, expo |-> 0, limit |-> 1998],
               [rate |-> 90, superRate |-> 80, expo |-> 50, limit |-> 700]}
SomeSticks == {-100, 0, 40}
SomeDemands ==
  {[mixer |-> mixer, ROLL |-> r, PITCH |-> p, YAW |-> y, THRUST |-> t, curve |-> c,
    armed |-> s # "disarmed", air |-> s = "air", motorStop |-> s = "stop",
    throttleLimit |-> throttleLimit, motorLimit |-> limit, digital |-> c.rate = 20] :
     mixer \in DOMAIN Table, r \in SomeSticks, p \in SomeSticks, y \in SomeSticks, t \in {-100, 0, 100},
     c \in SomeCurves, s \in {"disarmed", "armed", "air", "stop"},
     throttleLimit \in {<<"NONE", 100>>, <<"SCALE", 50>>, <<"CLIP", 70>>}, limit \in {100, 60}}

(* A part that is not looked at.  The rates are some at which ReceiverIsRead *)
(* promises nothing.                                                         *)
LoopOff == rates = [loop |-> 2, mixer |-> 1, accel |-> 1, input |-> 2]
             /\ gyroIter = 0 /\ loopIter = 0 /\ fusionUpdate = FALSE /\ ran = {}
ControlOff ==
  /\ modes = {} /\ thrust = 5 /\ scaled = {} /\ pc = "off" /\ robot = FALSE
  /\ inner = [i |-> 0, iScale |-> TRUE, fScale |-> TRUE] /\ hold = 0 /\ rate = 0 /\ out = 0
  /\ saturated = FALSE /\ flown = 0 /\ torn = FALSE /\ stick = {} /\ forward = FALSE
MixOff ==
  /\ demand = (CHOOSE d \in Demands : TRUE) /\ us = <<>> /\ mixSaturated = FALSE /\ mixed = FALSE

partsVars == <<part, loopVars, controlVars, mixVars>>

PartsInit ==
  \/ part = "loop" /\ Init /\ ControlOff /\ MixOff
  \/ part = "control" /\ LoopOff /\ ControlInit /\ MixOff
  \/ part = "mixer" /\ LoopOff /\ ControlOff /\ MixInit

PartsNext ==
  /\ \/ part = "loop" /\ Next /\ UNCHANGED <<controlVars, mixVars>>
     \/ part = "control" /\ ControlNext /\ UNCHANGED <<loopVars, mixVars>>
     \/ part = "mixer" /\ MixerUpdate /\ UNCHANGED <<loopVars, controlVars>>
  /\ part' = part

LoopUpdate == part = "loop" /\ (\E due \in BOOLEAN : Update(due)) /\ UNCHANGED <<part, controlVars, mixVars>>

PartsSpec == PartsInit /\ [][PartsNext]_partsVars /\ WF_partsVars(LoopUpdate)
=============================================================================
