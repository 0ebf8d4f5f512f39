------------------------------ MODULE DualCore ------------------------------
(***************************************************************************)
(* Espfc::update and Espfc::updateOther (Espfc.cpp) in a build with        *)
(* ESPFC_MULTI_CORE, as main.cpp runs them on ESP32: a hardware timer      *)
(* wakes the gyro task at every gyro period; it reads the sensors, the     *)
(* receiver and the flight modes, and queues events for the PID task on    *)
(* the other core, which runs the controller, the mixer and the attitude   *)
(* fusion.  The queue is the channel that AtomicQueue implements.          *)
(*                                                                         *)
(* Time is counted in ticks of a clock that wraps at ClockMod.             *)
(***************************************************************************)
EXTENDS Timers, Sequences

CONSTANTS
  GyroInterval,      \* ticks between two interrupts of the gyro timer
  LoopDenom, AccelDenom, InputDenom,
  ActuatorInterval,  \* interval of actuatorTimer, in ticks
  IterMod,           \* where gyro.timer.iteration wraps
  QueueSize

LoopInterval == GyroInterval * LoopDenom
HalfCycle == LoopInterval \div 2

ASSUME ScheduleAssumption ==
  /\ {GyroInterval, LoopDenom, AccelDenom, InputDenom, ActuatorInterval, IterMod,
      QueueSize} \subseteq Nat \ {0}
  /\ ClockMod % GyroInterval = 0
  /\ ActuatorInterval < ClockMod /\ LoopInterval < ClockMod

VARIABLES
  now,           \* micros()
  notified,      \* the interrupt's notification of the gyro task
  gyroTask,      \* "wait", or "rest": between the gyro and the other sensors
  gyroIter,      \* gyro.timer.iteration
  actuatorNext,  \* actuatorTimer.next
  loopNext,      \* Espfc::_loop_next
  chan, received,
  \* history, read by no action:
  ran,           \* what the last step ran
  sinceMixer, sinceActuator   \* ticks since they ran; ClockMod: as many or more,
                              \* or never

taskVars == <<notified, gyroTask, gyroIter, actuatorNext>>
dualVars == <<now, taskVars, loopNext, chan, received, ran, sinceMixer, sinceActuator>>

SensorEvents == {"GYRO_READ", "ACCEL_READ"}
Channel == INSTANCE EventChannel WITH Events <- SensorEvents, NoEvent <- "IDLE",
                                      Size <- QueueSize

Init ==
  /\ now = 0 /\ notified = FALSE /\ gyroTask = "wait" /\ gyroIter = 0
  /\ actuatorNext = 0 /\ loopNext = 0
  /\ Channel!ChannelInit
  /\ ran = "nothing" /\ sinceMixer = ClockMod /\ sinceActuator = ClockMod

Older(age) == IF age < ClockMod THEN age + 1 ELSE age

-----------------------------------------------------------------------------
(* A tick of the clock; the interrupt notifies the gyro task, once if the   *)
(* task has not taken the last notification yet.                            *)
Tick ==
  /\ now' = (now + 1) % ClockMod
  /\ notified' = (notified \/ now' % GyroInterval = 0)
  /\ sinceMixer' = Older(sinceMixer) /\ sinceActuator' = Older(sinceActuator)
  /\ ran' = "nothing"
  /\ UNCHANGED <<gyroTask, gyroIter, actuatorNext, loopNext, chan, received>>

(* Queue::send: a full queue drops the event. *)
Queued(condition, e) ==
  IF condition /\ Len(chan) < QueueSize THEN Channel!Send(e)
  ELSE UNCHANGED <<chan, received>>

(* Espfc::update and the first half of SensorManager::read. *)
ReadGyro ==
  /\ gyroTask = "wait" /\ notified
  /\ notified' = FALSE
  /\ gyroTask' = "rest"
  /\ gyroIter' = (gyroIter + 1) % IterMod
  /\ Queued(Synced(gyroIter', LoopDenom, 0), "GYRO_READ")
  /\ ran' = "gyro"
  /\ UNCHANGED <<now, actuatorNext, loopNext, sinceMixer, sinceActuator>>

(* The second half: the accelerometer, then the receiver, then the flight   *)
(* modes at their 50 Hz.                                                    *)
ReadRest ==
  /\ gyroTask = "rest"
  /\ gyroTask' = "wait"
  /\ Queued(Synced(gyroIter, AccelDenom, 0), "ACCEL_READ")
  /\ IF Due(actuatorNext, now)
     THEN actuatorNext' = Rearm(now, ActuatorInterval) /\ sinceActuator' = 0
     ELSE UNCHANGED <<actuatorNext, sinceActuator>>
  /\ ran' = IF Synced(gyroIter, InputDenom, 1) THEN "input" ELSE "sensors"
  /\ UNCHANGED <<now, notified, gyroIter, loopNext, sinceMixer>>

-----------------------------------------------------------------------------
(* Mutant: the mixer's next time counts from its last due time.             *)
NextLoop_Drifts == (loopNext + HalfCycle) % ClockMod
NextLoop == (now + HalfCycle) % ClockMod

(* EVENT_GYRO_READ: filter, controller, mixer. *)
MixerDue == loopNext < now

HandleGyro ==
  /\ chan # <<>> /\ Head(chan) = "GYRO_READ"
  /\ Channel!Receive
  /\ IF MixerDue
     THEN loopNext' = NextLoop /\ sinceMixer' = 0 /\ ran' = "mixer"
     ELSE ran' = "skip" /\ UNCHANGED <<loopNext, sinceMixer>>
  /\ UNCHANGED <<now, taskVars, sinceActuator>>

(* Mutant: an event of any kind ends in the fusion. *)
HandleAccel_AnyEvent ==
  /\ chan # <<>>
  /\ Channel!Receive
  /\ ran' = "fusion"
  /\ UNCHANGED <<now, taskVars, loopNext, sinceMixer, sinceActuator>>

(* EVENT_ACCEL_READ: attitude fusion. *)
HandleAccel ==
  /\ chan # <<>> /\ Head(chan) = "ACCEL_READ"
  /\ Channel!Receive
  /\ ran' = "fusion"
  /\ UNCHANGED <<now, taskVars, loopNext, sinceMixer, sinceActuator>>

Next == Tick \/ ReadGyro \/ ReadRest \/ HandleGyro \/ HandleAccel

(* The clock runs, the gyro task has the highest priority on its core, and  *)
(* the PID task polls the queue for ever on the other.                      *)
Fairness ==
  /\ WF_dualVars(Tick)
  /\ WF_dualVars(ReadGyro \/ ReadRest)
  /\ WF_dualVars(HandleGyro \/ HandleAccel)

Spec == Init /\ [][Next]_dualVars /\ Fairness

-----------------------------------------------------------------------------
TypeOK ==
  /\ now \in 0..(ClockMod - 1) /\ notified \in BOOLEAN
  /\ gyroTask \in {"wait", "rest"} /\ gyroIter \in 0..(IterMod - 1)
  /\ actuatorNext \in 0..(ClockMod - 1) /\ loopNext \in 0..(ClockMod - 1)
  /\ chan \in Seq(SensorEvents) /\ Len(chan) <= QueueSize
  /\ received \in SensorEvents \union {"IDLE"}
  /\ ran \in {"nothing", "gyro", "sensors", "input", "mixer", "skip", "fusion"}
  /\ sinceMixer \in 0..ClockMod /\ sinceActuator \in 0..ClockMod

(* The clock has wrapped within the last age ticks, or did so at boot. *)
Wrapped(age) == age > now

(* The clock's reading when the mixer ran last. *)
LastMixer == (now - sinceMixer) % ClockMod

(* The motors are driven again half a cycle after they were driven last: a  *)
(* control loop that leaves the mixer out comes earlier, except while a     *)
(* wrapped clock is still behind the time it is compared with.              *)
MixerStallsOnlyAcrossWrap ==
  [][ran' = "skip" /\ sinceMixer > HalfCycle => Wrapped(sinceMixer)]_dualVars

(* A backlog of control loops does not drive the motors in bursts: two runs *)
(* of the mixer are half a cycle apart, except when the time it is compared *)
(* with has itself wrapped to a small number.                               *)
MixerBurstsOnlyBeforeWrap ==
  [][ran' = "mixer" /\ sinceMixer <= HalfCycle => LastMixer + HalfCycle >= ClockMod]_dualVars

(* The flight modes, and with them arming and disarming by switch, run in   *)
(* every gyro period in which their timer has expired, unless the clock has *)
(* wrapped since: then they may stand still until it comes round.           *)
ActuatorStallsOnlyAcrossWrap ==
  [][gyroTask = "rest" /\ gyroTask' = "wait" /\ sinceActuator >= ActuatorInterval
       => sinceActuator' = 0 \/ Wrapped(sinceActuator)]_dualVars

(* The timers keep their promises on every clock that has not just wrapped. *)
TimersHold ==
  MixerStallsOnlyAcrossWrap /\ MixerBurstsOnlyBeforeWrap /\ ActuatorStallsOnlyAcrossWrap

(* The receiver, and with it the failsafe, is read for ever, whatever the   *)
(* clock does: its slot is counted in gyro periods.                         *)
ReceiverIsRead == []<>(ran = "input")

(* The times that mixer and actuator are compared with, while the clock has *)
(* not wrapped since they ran.  Inductive with the ranges of the clock.     *)
ClockInv ==
  /\ now \in 0..(ClockMod - 1)
  /\ sinceMixer \in 0..ClockMod /\ sinceActuator \in 0..ClockMod
  /\ sinceMixer <= now
       => loopNext = (now - sinceMixer + HalfCycle) % ClockMod
  /\ sinceActuator <= now
       => actuatorNext = (now - sinceActuator + ActuatorInterval) % ClockMod

(* Every gyro reading that was queued reaches the controller. *)
ReadingsAreUsed == (\E i \in DOMAIN chan : chan[i] = "GYRO_READ")
                     ~> (ran \in {"mixer", "skip"})

(* Nothing that the gyro task hands over is lost: frames are read for ever, *)
(* readings reach the controller.                                           *)
NothingStarves == ReceiverIsRead /\ ReadingsAreUsed
=============================================================================
