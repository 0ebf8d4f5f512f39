------------------------------- MODULE Buzzer -------------------------------
(***************************************************************************)
(* The buzzer and the stack of events it is fed from (BuzzerState).  The   *)
(* task of core 0 pushes what the craft has to say, and pops and plays it; *)
(* the task of core 1 pushes the end of a gyro calibration.  Nothing       *)
(* guards the stack: a push loads idx, then stores the event and the new   *)
(* idx in either order, and a pop loads and stores idx.                    *)
(***************************************************************************)
EXTENDS Integers, Sequences

CONSTANTS MaxEvents,    \* BUZZER_MAX_EVENTS
          MaxAlarms     \* changes of what there is to say, and calibrations

ASSUME BuzzerAssumption == MaxEvents \in Nat \ {0} /\ MaxAlarms \in Nat

Silence == "SILENCE"
Repeated == <<"RX_LOST", "BAT_LOW", "RX_SET">>
(* entries of the scheme of each event *)
Schemes == [SILENCE |-> 0, GYRO_CALIBRATED |-> 3, RX_LOST |-> 1, BAT_LOW |-> 1, RX_SET |-> 1,
            ARMING |-> 1, DISARMING |-> 2, READY_BEEP |-> 3, SYSTEM_INIT |-> 1]

VARIABLES
    idx, events,   \* the stack
    op,            \* what each core is doing to it
    todo,          \* what core 0 has still to say in this update
    buzzer,        \* status, time is over, entries of the scheme left, pin
    alarms, craft, said,   \* what there is to say: as long as it lasts, and once
    changes

buzzerVars == <<idx, events, op, todo, buzzer, alarms, craft, said, changes>>

NoOp == [do |-> "none", e |-> Silence, at |-> 0, left |-> {}]

BuzzerInit ==
    /\ idx = 0 /\ events = [i \in 0..MaxEvents - 1 |-> Silence]
    /\ op = [core \in 0..1 |-> NoOp] /\ todo = <<[do |-> "push", e |-> "SYSTEM_INIT"]>>
    /\ buzzer = [status |-> "IDLE", over |-> TRUE, left |-> 0, on |-> FALSE]
    /\ alarms = {} /\ changes = 0
    /\ craft = [armed |-> FALSE, sats |-> FALSE] /\ said = craft

-----------------------------------------------------------------------------
(* play and push, once a core has loaded idx: play only with an empty stack,
   both only below its end.                                                *)
Loads(core) ==
    /\ op[core].do \in {"play", "push"} /\ op[core].left = {}
    /\ op' = [op EXCEPT ![core] =
                 IF idx >= MaxEvents \/ (@.do = "play" /\ idx # 0) THEN NoOp
                 ELSE [@ EXCEPT !.at = idx, !.left = {"idx", "event"}]]
    /\ UNCHANGED <<idx, events>>

Stored(core, what) ==
    op' = [op EXCEPT ![core] = IF @.left = {what} THEN NoOp ELSE [@ EXCEPT !.left = @ \ {what}]]

StoresIdx(core) ==
    /\ op[core].do \in {"play", "push"} /\ "idx" \in op[core].left
    /\ idx' = op[core].at + 1 /\ events' = events
    /\ Stored(core, "idx")

StoresEvent(core) ==
    /\ op[core].do \in {"play", "push"} /\ "event" \in op[core].left
    /\ events' = [events EXCEPT ![op[core].at] = op[core].e] /\ idx' = idx
    /\ Stored(core, "event")

Pushes(core) == Loads(core) \/ StoresIdx(core) \/ StoresEvent(core)

-----------------------------------------------------------------------------
(* Core 0. *)
PlayIf(cond, e) == IF cond THEN <<[do |-> "play", e |-> e]>> ELSE <<>>
Play(e) == PlayIf(e \in alarms, e)

(* Actuator::updateBuzzer *)
updateBuzzer ==
    /\ op[0] = NoOp /\ todo = <<>>
    /\ todo' = Play(Repeated[1]) \o Play(Repeated[2]) \o Play(Repeated[3])
               \o (IF craft.armed = said.armed THEN <<>>
                   ELSE <<[do |-> "push", e |-> IF craft.armed THEN "ARMING" ELSE "DISARMING"]>>)
               \o PlayIf(craft.sats /\ ~said.sats, "READY_BEEP")
    /\ said' = craft
    /\ UNCHANGED <<idx, events, op, buzzer, alarms, craft, changes>>

Says ==
    /\ op[0] = NoOp /\ todo # <<>>
    /\ op' = [op EXCEPT ![0] = [NoOp EXCEPT !.do = Head(todo).do, !.e = Head(todo).e]]
    /\ todo' = Tail(todo)
    /\ UNCHANGED <<idx, events, buzzer, alarms, craft, said, changes>>

Core0Pushes == Pushes(0) /\ UNCHANGED <<todo, buzzer, alarms, craft, said, changes>>

Plays(on, status) == [buzzer EXCEPT !.on = on, !.over = FALSE, !.status = status]

(* Buzzer::update, when the time of the last step is over *)
Idle == op[0] = NoOp /\ todo = <<>> /\ buzzer.over
Pop ==
    /\ Idle /\ buzzer.status = "IDLE" /\ idx # 0
    /\ op' = [op EXCEPT ![0] = [NoOp EXCEPT !.do = "pop", !.at = idx - 1]]
    /\ UNCHANGED <<idx, events, todo, buzzer, alarms, craft, said, changes>>

(* Mutant: the event stays on the stack. *)
Popped_Stays ==
    /\ op[0].do = "pop"
    /\ buzzer' = [buzzer EXCEPT !.left = Schemes[events[op[0].at]], !.status = "TEST"]
    /\ op' = [op EXCEPT ![0] = NoOp]
    /\ UNCHANGED <<idx, events, todo, alarms, craft, said, changes>>

Popped ==
    /\ op[0].do = "pop"
    /\ idx' = op[0].at
    /\ buzzer' = [buzzer EXCEPT !.left = Schemes[events[op[0].at]], !.status = "TEST"]
    /\ op' = [op EXCEPT ![0] = NoOp]
    /\ UNCHANGED <<events, todo, alarms, craft, said, changes>>

PlayScheme ==
    /\ Idle /\ buzzer.status # "IDLE"
    /\ buzzer' = CASE buzzer.status = "TEST" /\ buzzer.left = 0 -> Plays(FALSE, "IDLE")
                   [] buzzer.status = "TEST" /\ buzzer.left > 0 -> Plays(TRUE, "ON")
                   [] buzzer.status = "ON" -> Plays(FALSE, "OFF")
                   [] buzzer.status = "OFF" -> [buzzer EXCEPT !.left = @ - 1, !.status = "TEST"]
    /\ UNCHANGED <<idx, events, op, todo, alarms, craft, said, changes>>

TimeIsOver ==
    /\ ~buzzer.over /\ buzzer' = [buzzer EXCEPT !.over = TRUE]
    /\ UNCHANGED <<idx, events, op, todo, alarms, craft, said, changes>>

-----------------------------------------------------------------------------
(* Core 1: Model::finishCalibration *)
finishCalibration ==
    /\ op[1] = NoOp /\ changes < MaxAlarms
    /\ changes' = changes + 1
    /\ op' = [op EXCEPT ![1] = [NoOp EXCEPT !.do = "push", !.e = "GYRO_CALIBRATED"]]
    /\ UNCHANGED <<idx, events, todo, buzzer, alarms, craft, said>>

Core1Pushes == Pushes(1) /\ UNCHANGED <<todo, buzzer, alarms, craft, said, changes>>

(* Modes, the battery and arming change. *)
AlarmsChange ==
    /\ changes < MaxAlarms /\ changes' = changes + 1
    /\ \/ \E e \in {Repeated[i] : i \in DOMAIN Repeated} :
            alarms' = (alarms \ {e}) \cup ({e} \ alarms) /\ craft' = craft
       \/ craft' = [craft EXCEPT !.armed = ~@] /\ alarms' = alarms
       \/ craft' = [craft EXCEPT !.sats = TRUE] /\ alarms' = alarms
    /\ UNCHANGED <<idx, events, op, todo, buzzer, said>>

BuzzerNext ==
    updateBuzzer \/ Says \/ Core0Pushes \/ Pop \/ Popped \/ PlayScheme \/ TimeIsOver
    \/ finishCalibration \/ Core1Pushes \/ AlarmsChange

(* Both tasks run, time passes. *)
BuzzerFairness ==
    /\ WF_buzzerVars(updateBuzzer) /\ WF_buzzerVars(Says \/ Core0Pushes \/ Popped)
    /\ SF_buzzerVars(Pop \/ PlayScheme) /\ WF_buzzerVars(TimeIsOver)
    /\ WF_buzzerVars(Core1Pushes)

(* An alarm is heard again and again while it lasts, and when there is none
   the buzzer falls silent, whatever the two cores did to the stack.       *)
BuzzerSettles ==
    /\ []<>(alarms # {} => buzzer.on)
    /\ <>[](alarms = {} => ~buzzer.on /\ buzzer.status = "IDLE" /\ idx = 0)
=============================================================================
