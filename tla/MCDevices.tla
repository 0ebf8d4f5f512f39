----------------------------- MODULE MCDevices -----------------------------
(* The small devices and the link to the handset, one at a time: part says
   which; the others are switched off and stay as they are. *)
EXTENDS Peripherals, Buzzer, RcLink

CONSTANTS c1, c2, h1, h2

VARIABLE part

devicesVars == <<part, periVars, buzzerVars, rcVars>>

(* Two crafts with one handset, one craft with two. *)
TwoMeet == {{c1, c2, h1}, {c1, h1, h2}}

PeripheralsOff == device = "BUTTON" /\ d = ButtonBegin /\ world = CHOOSE w \in ButtonWorlds : TRUE
BuzzerOff ==
    /\ idx = 0 /\ events = <<>> /\ op = [core \in 0..1 |-> [NoOp EXCEPT !.do = "off"]] /\ todo = <<>>
    /\ buzzer = [status |-> "IDLE", over |-> TRUE, left |-> 0, on |-> FALSE]
    /\ alarms = {} /\ changes = 0 /\ craft = "off" /\ said = "off"
RcOff == rx = <<>> /\ tx = <<>> /\ masters = <<>> /\ restarts = 0

Init ==
    \/ part = "device" /\ PeripheralsInit /\ BuzzerOff /\ RcOff
    \/ part = "buzzer" /\ PeripheralsOff /\ BuzzerInit /\ RcOff
    \/ part = "radio" /\ PeripheralsOff /\ BuzzerOff /\ RcInit

Next ==
    /\ \/ part = "device" /\ PeripheralsNext /\ UNCHANGED <<buzzerVars, rcVars>>
       \/ part = "buzzer" /\ BuzzerNext /\ UNCHANGED <<periVars, rcVars>>
       \/ part = "radio" /\ RcNext /\ UNCHANGED <<periVars, buzzerVars>>
    /\ part' = part

Spec == Init /\ [][Next]_devicesVars /\ PeripheralsFairness /\ BuzzerFairness /\ RcFairness

(* Whatever happened before, the devices show and sound what is the case. *)
StateIsShown == DevicesSettle /\ BuzzerSettles
=============================================================================
