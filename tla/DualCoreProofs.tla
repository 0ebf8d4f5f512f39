--------------------------- MODULE DualCoreProofs ---------------------------
(***************************************************************************)
(* When, at the earliest and at the latest, the mixer and the flight modes *)
(* run: for every rate, every interval and every width of the clock.       *)
(***************************************************************************)
EXTENDS DualCore, TLAPS

USE ClockAssumption, ScheduleAssumption

(* A sum of a clock reading and an interval wraps at most once. *)
LEMMA WrapOnce ==
  ASSUME NEW x \in Nat, x < ClockMod + ClockMod
  PROVE  x % ClockMod = IF x < ClockMod THEN x ELSE x - ClockMod
  OBVIOUS

(* Half a control loop is shorter than the clock's round. *)
LEMMA HalfCycleRange == HalfCycle \in Nat /\ HalfCycle < ClockMod
<1>1. LoopInterval \in Nat
  BY DEF LoopInterval
<1> QED
  BY <1>1 DEF HalfCycle

LEMMA InitClock == Init => ClockInv
  BY DEF Init, ClockInv

(* Every step keeps the due times in step with the clock. *)
LEMMA StepClock == ClockInv /\ [Next]_dualVars => ClockInv'
<1> SUFFICES ASSUME ClockInv, [Next]_dualVars PROVE ClockInv'
  OBVIOUS
<1> USE HalfCycleRange
<1>1. CASE Tick
  <2>1. now' = IF now = ClockMod - 1 THEN 0 ELSE now + 1
    BY <1>1 DEF Tick, ClockInv
  <2>2. /\ sinceMixer' = IF sinceMixer < ClockMod THEN sinceMixer + 1 ELSE sinceMixer
        /\ sinceActuator' = IF sinceActuator < ClockMod THEN sinceActuator + 1 ELSE sinceActuator
    BY <1>1 DEF Tick, Older
  <2>3. loopNext' = loopNext /\ actuatorNext' = actuatorNext
    BY <1>1 DEF Tick
  <2>4. sinceMixer' <= now' => sinceMixer <= now /\ now' - sinceMixer' = now - sinceMixer
    BY <2>1, <2>2 DEF ClockInv
  <2>5. sinceActuator' <= now'
          => sinceActuator <= now /\ now' - sinceActuator' = now - sinceActuator
    BY <2>1, <2>2 DEF ClockInv
  <2>6. /\ now' \in 0..(ClockMod - 1)
        /\ sinceMixer' \in 0..ClockMod /\ sinceActuator' \in 0..ClockMod
    BY <2>1, <2>2 DEF ClockInv
  <2> QED
    BY <2>3, <2>4, <2>5, <2>6 DEF ClockInv, HalfCycle, LoopInterval
<1>2. CASE ReadGyro
  BY <1>2 DEF ReadGyro, ClockInv, HalfCycle, LoopInterval
<1>3. CASE ReadRest
  <2>1. /\ now' = now /\ loopNext' = loopNext /\ sinceMixer' = sinceMixer
        /\ \/ actuatorNext' = (now + ActuatorInterval) % ClockMod /\ sinceActuator' = 0
           \/ actuatorNext' = actuatorNext /\ sinceActuator' = sinceActuator
    BY <1>3 DEF ReadRest, Rearm
  <2>2. 0 <= now /\ now - 0 + ActuatorInterval = now + ActuatorInterval
    BY DEF ClockInv
  <2> QED
    BY <2>1, <2>2 DEF ClockInv, HalfCycle, LoopInterval
<1>4. CASE HandleGyro
  <2>1. /\ now' = now /\ actuatorNext' = actuatorNext /\ sinceActuator' = sinceActuator
        /\ \/ loopNext' = (now + HalfCycle) % ClockMod /\ sinceMixer' = 0
           \/ loopNext' = loopNext /\ sinceMixer' = sinceMixer
    BY <1>4 DEF HandleGyro, NextLoop, taskVars
  <2>2. 0 <= now /\ now - 0 + HalfCycle = now + HalfCycle
    BY DEF ClockInv
  <2> QED
    BY <2>1, <2>2 DEF ClockInv, HalfCycle, LoopInterval
<1>5. CASE HandleAccel
  BY <1>5 DEF HandleAccel, taskVars, ClockInv, HalfCycle, LoopInterval
<1>6. CASE UNCHANGED dualVars
  BY <1>6 DEF dualVars, taskVars, ClockInv, HalfCycle, LoopInterval
<1> QED
  BY <1>1, <1>2, <1>3, <1>4, <1>5, <1>6 DEF Next

(* The due times never part from the clock. *)
THEOREM ClockInvariant == Spec => []ClockInv
BY InitClock, StepClock, PTL DEF Spec

(* A skipped mixer was driven less than half a cycle ago, or the clock has  *)
(* wrapped since.                                                           *)
THEOREM MixerStalls == Spec => MixerStallsOnlyAcrossWrap
<1>1. ClockInv /\ [Next]_dualVars
        => [ran' = "skip" /\ sinceMixer > HalfCycle => Wrapped(sinceMixer)]_dualVars
  <2> SUFFICES ASSUME ClockInv, Next, ran' = "skip", sinceMixer > HalfCycle, sinceMixer <= now
               PROVE  FALSE
    BY DEF ClockInv, Wrapped
  <2>1. ~(loopNext < now)
    BY DEF Next, Tick, ReadGyro, ReadRest, HandleGyro, HandleAccel, MixerDue
  <2>2. now - sinceMixer + HalfCycle \in Nat /\ now - sinceMixer + HalfCycle < now
    BY HalfCycleRange DEF ClockInv
  <2>3. loopNext = now - sinceMixer + HalfCycle
    BY <2>2, WrapOnce DEF ClockInv
  <2> QED
    BY <2>1, <2>2, <2>3
<1> QED
  BY <1>1, ClockInvariant, PTL DEF Spec, MixerStallsOnlyAcrossWrap

(* A mixer that runs twice within half a cycle had its due time wrapped. *)
THEOREM MixerBursts == Spec => MixerBurstsOnlyBeforeWrap
<1>1. ClockInv /\ [Next]_dualVars
        => [ran' = "mixer" /\ sinceMixer <= HalfCycle => LastMixer + HalfCycle >= ClockMod]_dualVars
  <2> SUFFICES ASSUME ClockInv, Next, ran' = "mixer", sinceMixer <= HalfCycle
               PROVE  LastMixer + HalfCycle >= ClockMod
    OBVIOUS
  <2> USE HalfCycleRange
  <2>1. loopNext < now
    BY DEF Next, Tick, ReadGyro, ReadRest, HandleGyro, HandleAccel, MixerDue
  <2>2. CASE sinceMixer <= now
    <3>1. now - sinceMixer \in Nat /\ now - sinceMixer < ClockMod
      BY <2>2 DEF ClockInv
    <3>2. LastMixer = now - sinceMixer
      BY <3>1, WrapOnce DEF LastMixer
    <3>3. loopNext = (now - sinceMixer + HalfCycle) % ClockMod
      BY <2>2 DEF ClockInv
    <3>4. now - sinceMixer + HalfCycle >= ClockMod
      BY <2>1, <3>1, <3>3, WrapOnce DEF ClockInv
    <3> QED
      BY <3>2, <3>4
  <2>3. CASE sinceMixer > now
    <3>1. (now - sinceMixer) % ClockMod = now - sinceMixer + ClockMod
      BY <2>3 DEF ClockInv
    <3> QED
      BY <3>1 DEF LastMixer, ClockInv
  <2> QED
    BY <2>2, <2>3 DEF ClockInv
<1> QED
  BY <1>1, ClockInvariant, PTL DEF Spec, MixerBurstsOnlyBeforeWrap

(* Flight modes that are overdue run in the next gyro period, unless the    *)
(* clock has wrapped since they ran last.                                   *)
THEOREM ActuatorStalls == Spec => ActuatorStallsOnlyAcrossWrap
<1>1. ClockInv /\ [Next]_dualVars
        => [gyroTask = "rest" /\ gyroTask' = "wait" /\ sinceActuator >= ActuatorInterval
              => sinceActuator' = 0 \/ Wrapped(sinceActuator)]_dualVars
  <2> SUFFICES ASSUME ClockInv, Next, gyroTask = "rest", gyroTask' = "wait",
                      sinceActuator >= ActuatorInterval, sinceActuator <= now
               PROVE  sinceActuator' = 0
    BY DEF ClockInv, Wrapped
  <2>1. ReadRest
    BY DEF Next, Tick, ReadGyro, HandleGyro, HandleAccel, taskVars
  <2>2. /\ now - sinceActuator + ActuatorInterval \in Nat
        /\ now - sinceActuator + ActuatorInterval <= now
    BY DEF ClockInv
  <2>3. actuatorNext = now - sinceActuator + ActuatorInterval
    BY <2>2, WrapOnce DEF ClockInv
  <2>4. Due(actuatorNext, now)
    BY <2>2, <2>3 DEF Due, ClockInv
  <2> QED
    BY <2>1, <2>4 DEF ReadRest
<1> QED
  BY <1>1, ClockInvariant, PTL DEF Spec, ActuatorStallsOnlyAcrossWrap

(* All three timers of the loops keep their promise, for every clock.       *)
THEOREM TimersHoldAlways == Spec => TimersHold
BY MixerStalls, MixerBursts, ActuatorStalls DEF TimersHold
=============================================================================
