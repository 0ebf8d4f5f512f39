---------------------------- MODULE MotorMixing ----------------------------
(***************************************************************************)
(* From the sticks to the motors (Rates, Mixers, Mixer) of a craft that    *)
(* does not turn: the rate a stick asks for, the mixing of the axes, air   *)
(* mode, the limits and the pulses.  Sticks and outputs of the control     *)
(* loop are percentages; outputs of the mixer count in 1/10000.            *)
(***************************************************************************)
EXTENDS Integers, FiniteSetsExt

CONSTANT Demands
  \* records of
  \*   mixer            mixer.type
  \*   ROLL, PITCH, YAW, THRUST      sticks
  \*   curve            [rate, superRate, expo, limit] of the rates
  \*   armed, air       modes
  \*   motorStop        FEATURE_MOTOR_STOP
  \*   throttleLimit    <<throttleLimitType, throttleLimitPercent>>
  \*   motorLimit       motorLimit
  \*   digital          a DSHOT protocol

VARIABLES
  demand,
  us, mixSaturated,    \* state.output.us and .saturated
  mixed                \* the mixer has run
mixVars == <<demand, us, mixSaturated, mixed>>

Within(value, low, high) == IF value < low THEN low ELSE IF value > high THEN high ELSE value
Linear(x, inLow, inHigh, outLow, outHigh) ==
  outLow + (((x - inLow) * (outHigh - outLow) + ((inHigh - inLow) \div 2)) \div (inHigh - inLow))

-----------------------------------------------------------------------------
(* Rates::getSetpoint in degrees per second.  No case of its switch ends in *)
(* a break, so that the last one, the "quick" curve, is taken whatever the  *)
(* rate type; expo and rates are percentages, a rate of zero is not a curve. *)
Quick(c, stick) ==
  LET a == IF stick < 0 THEN -stick ELSE stick
      rcRate == 2 * c.rate
      maxDps == IF 10 * c.superRate > rcRate THEN 10 * c.superRate ELSE rcRate
      curve == (((a * a * a) \div 100) * c.expo) + (a * 100 * (100 - c.expo))
      room == Within(1000000 - (((curve \div 1000) * (maxDps - rcRate)) \div maxDps) * 1000, 10000, 1000000)
  IN Within((stick * rcRate * 10000) \div room, -1998, 1998)
getSetpoint(c, stick) == Within(Quick(c, Within(stick, -99, 99)), -c.limit, c.limit)

(* Controller: yaw turns the other way; of the PID the proportional part.   *)
Output(d, axis) ==
  Within(getSetpoint(d.curve, IF axis = "YAW" THEN -d.YAW ELSE d[axis]) \div 10, -66, 66)

-----------------------------------------------------------------------------
(* Mixers::getMixer: a column for every source, a row for every channel.    *)
Table == [
  QUADX |-> [ROLL |-> <<-100, -100, 100, 100>>, PITCH |-> <<100, -100, 100, -100>>,
             YAW |-> <<-100, 100, 100, -100>>, THRUST |-> <<100, 100, 100, 100>>],
  QUADX_1234 |-> [ROLL |-> <<100, -100, -100, 100>>, PITCH |-> <<-100, -100, 100, 100>>,
                  YAW |-> <<-100, 100, -100, 100>>, THRUST |-> <<100, 100, 100, 100>>],
  TRI |-> [ROLL |-> <<0, -100, 100, 0>>, PITCH |-> <<133, -67, -67, 0>>,
           YAW |-> <<0, 0, 0, 100>>, THRUST |-> <<100, 100, 100, 0>>],
  OCTOX8 |-> [ROLL |-> <<-100, -100, 100, 100, -100, -100, 100, 100>>,
              PITCH |-> <<100, -100, 100, -100, 100, -100, 100, -100>>,
              YAW |-> <<-100, 100, 100, -100, 100, -100, -100, 100>>,
              THRUST |-> [m \in 1..8 |-> 100]],
  HEX6X |-> [ROLL |-> <<-50, -50, 50, 50, -100, 100>>, PITCH |-> <<87, -87, 87, -87, 0, 0>>,
             YAW |-> <<100, 100, -100, -100, -100, 100>>, THRUST |-> [m \in 1..6 |-> 100]],
  GIMBAL |-> [ROLL |-> <<0, 0>>, PITCH |-> <<100, 100>>, YAW |-> <<100, -100>>, THRUST |-> <<0, 0>>]]

(* What a craft may be asked: any curve, and limits of 1 to 100 % (one of   *)
(* any other value is none, like one of 100 %).                             *)
Percents == 1..100
Sticks == -100..100
Curves == [rate : Nat \ {0}, superRate : Nat, expo : Nat, limit : Nat]
ASSUME MixAssumption ==
  Demands \subseteq
    [mixer : DOMAIN Table, ROLL : Sticks, PITCH : Sticks, YAW : Sticks, THRUST : Sticks,
     curve : Curves, armed : BOOLEAN, air : BOOLEAN, motorStop : BOOLEAN,
     throttleLimit : {"NONE", "SCALE", "CLIP"} \X Percents, motorLimit : Percents, digital : BOOLEAN]

Channels(d) == DOMAIN Table[d.mixer].ROLL
Servos(d) == IF d.mixer = "TRI" THEN {4} ELSE {}
Motors(d) == Channels(d) \ Servos(d)

(* Mutant: the percentage scales the stick's range about its middle. *)
limitThrust_Centred(thrust, type, percent) ==
  CASE type = "SCALE" -> (thrust * percent) \div 100
    [] type = "CLIP" -> Within(thrust, -10000, (200 * percent) - 10000)
    [] OTHER -> thrust

(* Mixer::limitThrust, limitOutput; a limit of 100 % is none *)
limitThrust(thrust, type, percent) ==
  CASE type = "SCALE" -> (((thrust + 10000) * percent) \div 100) - 10000
    [] type = "CLIP" -> Within(thrust, -10000, (200 * percent) - 10000)
    [] OTHER -> thrust
limitOutput(d, m, output) ==
  IF m \in Servos(d) THEN Within(output, -100 * d.motorLimit, 100 * d.motorLimit)
  ELSE Within(output, -10000, (200 * d.motorLimit) - 10000)

(* Mixer::updateMixer, the sources of the control loop before the throttle *)
Stabilized(d) ==
  LET t == Table[d.mixer]
  IN [m \in Channels(d) |-> Output(d, "ROLL") * t.ROLL[m] + Output(d, "PITCH") * t.PITCH[m]
                              + (-Output(d, "YAW")) * t.YAW[m]]

Highest(outputs) == Max({0} \union {outputs[m] : m \in DOMAIN outputs})
Lowest(outputs) == Min({0} \union {outputs[m] : m \in DOMAIN outputs})
Range2(outputs) == (Highest(outputs) - Lowest(outputs)) \div 2

(* In air mode a demand that does not fit is made to fit, at half throttle; *)
(* one that fits moves the throttle out of its way.                         *)
Mixed(d) ==
  LET outputs == Stabilized(d)
      range == Range2(outputs)
      thrust == limitThrust(100 * d.THRUST, d.throttleLimit[1], d.throttleLimit[2])
      fits == range <= 10000
      scaled == IF d.air /\ ~fits THEN [m \in Channels(d) |-> (outputs[m] * 10000) \div range] ELSE outputs
      room == IF ~d.air THEN thrust ELSE IF fits THEN Within(thrust, range - 10000, 10000 - range) ELSE 0
  IN [m \in Channels(d) |-> scaled[m] + ((room * Table[d.mixer].THRUST[m]) \div 100)]

-----------------------------------------------------------------------------
(* Mixer::begin, _stop, writeOutput; a servo from 1000 to 2000 about 1500.  *)
minThrottle(d) == IF d.digital THEN 1056 ELSE 1070
maxThrottle == 2000
LowStick == -90                          \* config.input.minCheck
Stop(d) == ~d.armed \/ (d.motorStop /\ d.THRUST < LowStick)

Pulse(d, m, output) ==
  IF m \in Servos(d) THEN Within(Linear(output, -10000, 10000, 1000, 2000), 1000, 2000)
  ELSE Linear(Within(output, -10000, 10000), -10000, 10000, minThrottle(d), maxThrottle)

writeOutput(d, outputs) ==
  [m \in Channels(d) |->
     IF Stop(d) THEN (IF m \in Servos(d) THEN 1500 ELSE 1000) ELSE Pulse(d, m, limitOutput(d, m, outputs[m]))]

MixInit == demand \in Demands /\ us = [m \in Channels(demand) |-> 1000] /\ mixSaturated = FALSE /\ mixed = FALSE

MixerUpdate ==
  LET outputs == Mixed(demand)
  IN /\ us' = writeOutput(demand, outputs)
     /\ mixSaturated' = \E m \in Motors(demand) : outputs[m] >= 9800
     /\ mixed' = TRUE
     /\ demand' = demand

MixSpec == MixInit /\ [][MixerUpdate]_mixVars

-----------------------------------------------------------------------------
(* What the pilot may count on (Mixer.cpp:109-263, Mixers.h:93-180).        *)
(* - Disarmed, and with motors stopped at the low stick, no motor turns;    *)
(*   armed, every motor turns, never faster than the motor limit allows,    *)
(*   and the throttle alone never above its own limit.                      *)
(* - The motors turn the craft about every axis with just the moment the    *)
(*   control loop asked for (air mode may shrink all of them alike) and     *)
(*   about no other, unless one of them is at an end of its range; and in   *)
(*   air mode, about one axis, even then: the throttle gives way (but for   *)
(*   a tricopter, whose demand is not even).                                *)
(* - A further stick never asks for a slower turn, or one the other way.    *)
(* - A motor at full power is reported to the control loop.                 *)
Axes == {"ROLL", "PITCH", "YAW"}
Size(n) == IF n < 0 THEN -n ELSE n
Over(motors, f(_)) == FoldSet(LAMBDA m, sum : sum + f(m), 0, motors)

Cap(d, percent) == Linear((200 * percent) - 10000, -10000, 10000, minThrottle(d), maxThrottle)
Moment(axis) == Over(Motors(demand), LAMBDA m : us[m] * Table[demand.mixer][axis][m])
Asked(axis) ==
  LET ch == IF axis = "YAW" THEN -Output(demand, axis) ELSE Output(demand, axis)
      square == Over(Motors(demand), LAMBDA m : Table[demand.mixer][axis][m] * Table[demand.mixer][axis][m]) \div 100
      shrunk == IF demand.air /\ Range2(Stabilized(demand)) > 10000 THEN Range2(Stabilized(demand)) ELSE 10000
  IN (((ch * square * (maxThrottle - minThrottle(demand))) \div 200) * 100) \div (shrunk \div 100)
Rounding(axis) ==
  Over(Motors(demand), LAMBDA m : 2 * Size(Table[demand.mixer][axis][m]))
    + (2000 * Size(Over(Motors(demand), LAMBDA m : Table[demand.mixer][axis][m])))

Inside == \A m \in Motors(demand) : us[m] > minThrottle(demand) /\ us[m] < Cap(demand, demand.motorLimit)
OneAxis == \E axis \in Axes : \A other \in Axes \ {axis} : demand[other] = 0
GivesWay == demand.air /\ OneAxis /\ demand.mixer # "TRI" /\ demand.motorLimit = 100

(* The first of these and the last, which are about one motor at a time: it *)
(* stops with the craft, keeps its limits, and is reported at full power   *)
(* (Mixer::limitThrust, limitOutput, writeOutput). A gimbal has no throttle. *)
MotorsHoldLimits ==
  mixed =>
    /\ Stop(demand) => \A m \in Motors(demand) : us[m] = 1000
    /\ ~Stop(demand) =>
         /\ \A m \in Motors(demand) : us[m] >= minThrottle(demand) /\ us[m] <= Cap(demand, demand.motorLimit)
         /\ demand.throttleLimit[1] # "NONE" /\ (\A axis \in Axes : demand[axis] = 0) =>
              \A m \in Motors(demand) :
                Table[demand.mixer].THRUST[m] # 0 => us[m] <= Cap(demand, demand.throttleLimit[2])
         /\ (\E m \in Motors(demand) : us[m] = maxThrottle) => mixSaturated

(* All of what the pilot may count on, limits, moments and sticks.         *)
MotorsObey ==
  /\ MotorsHoldLimits
  /\ mixed =>
       /\ ~Stop(demand) /\ (Inside \/ GivesWay) =>
            \A axis \in Axes : Size(Moment(axis) - Asked(axis)) <= Rounding(axis)
       /\ \A axis \in Axes :
            LET stick == demand[axis]
                turn == getSetpoint(demand.curve, stick)
            IN /\ stick = 0 => turn = 0
               /\ stick > 0 => turn >= getSetpoint(demand.curve, stick - 1) /\ turn > 0
               /\ stick < 0 => turn <= getSetpoint(demand.curve, stick + 1) /\ turn < 0
=============================================================================
