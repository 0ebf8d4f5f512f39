------------------------------ MODULE MCFlight ------------------------------
(* FlightController and CraftControl for TLC: channel tables and small sets *)
(* of positions.                                                            *)
EXTENDS CraftControl

(* Conditions of the default model: arming and air mode on aux 1. *)
Switch(id, ch) == [id |-> id, ch |-> ch, min |-> 1300, max |-> 2100]
ArmAndAir == {Switch("ARMED", 1), Switch("AIRMODE", 1)}
ArmOnly == {Switch("ARMED", 1)}
(* A three-position switch: off, armed, armed and failsafe. *)
ArmThenFailsafe ==
  {Switch("ARMED", 1), [id |-> "FAILSAFE", ch |-> 1, min |-> 1700, max |-> 2100]}

AutoHold == [c \in Channels |-> IF c = THRUST THEN "AUTO" ELSE "HOLD"]
NoFsValue == [c \in Channels |-> 1000]

TopOnly == {2000}
MidBad == {1500, 2200}
LowHigh == {1000, 1500}
NoOverride == {}

NoCommands == {}
AllCommands == {"MSP", "CLI", "CALIBRATE"}

(* The first core alone: the mixer does not run. *)
InitAlone == Init /\ mixer = "read" /\ motor = "disarmed" /\ status = "IDLE" /\ lateWrites = 0
FlightAlone ==
  InitAlone /\ [][Next /\ UNCHANGED <<mixer, motor, status, lateWrites>>]_craftVars
=============================================================================
