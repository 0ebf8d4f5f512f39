----------------------------- MODULE SingleCore -----------------------------
(***************************************************************************)
(* Espfc::update (Espfc.cpp) in a build without ESPFC_MULTI_CORE: one      *)
(* task, which runs sensors, control loop, mixer, receiver and flight      *)
(* modes in turn.  Receiver and flight modes run only in an update that    *)
(* also runs the control loop, and each is due in a slot of the gyro's     *)
(* count of its own.                                                       *)
(***************************************************************************)
EXTENDS Timers

CONSTANTS
  Rates,       \* settings: records [loop, mixer, accel, input] of divisors of
               \* the gyro rate (mixer: of the loop rate)
  IterMod      \* where the 32-bit iteration counters wrap

ASSUME RateAssumption ==
  /\ \A r \in Rates : {r.loop, r.mixer, r.accel, r.input} \subseteq Nat \ {0}
  /\ Rates # {}
  /\ IterMod \in Nat \ {0}

VARIABLES
  rates,               \* the denom of each timer
  gyroIter, loopIter,  \* iteration of gyro.timer and of loopTimer
  fusionUpdate,        \* SensorManager::_fusionUpdate
  ran                  \* what the last step ran; read by no action

loopVars == <<rates, gyroIter, loopIter, fusionUpdate, ran>>

Work == {"controller", "mixer", "input", "actuator", "accel", "fusion", "reload"}

Init ==
  /\ rates \in Rates
  /\ gyroIter = 0 /\ loopIter = 0 /\ fusionUpdate = FALSE /\ ran = {}

Only(condition, work) == IF condition THEN {work} ELSE {}

-----------------------------------------------------------------------------
(* Mutant: work that does not wait for the control loop (as it does not on *)
(* two cores).                                                              *)
Gated_Loose(looped, due) == due

Count(i) == (i + 1) % IterMod
Gated(looped, due) == looped /\ due

(* One call of Espfc::update whose gyro timer was due.  The clock decides   *)
(* whether the actuator's timer is.                                         *)
Update(actuatorDue) ==
  LET gyro == Count(gyroIter)
      looped == Synced(gyro, rates.loop, 0)
      loop == IF looped THEN Count(loopIter) ELSE loopIter
      accel == Synced(gyro, rates.accel, 0)
  IN /\ gyroIter' = gyro
     /\ loopIter' = loop
     /\ fusionUpdate' = accel
     /\ ran' = Only(looped, "controller")
                 \union Only(Gated(looped, Synced(loop, rates.mixer, 0)), "mixer")
                 \union Only(Gated(looped, Synced(gyro, rates.input, 1)), "input")
                 \union Only(Gated(looped, actuatorDue), "actuator")
                 \union Only(accel, "accel") \union Only(fusionUpdate, "fusion")
     /\ UNCHANGED rates

(* Model::reload, from an MSP setting, which may have changed the rates:    *)
(* every timer starts counting anew.                                        *)
Reload ==
  /\ rates' \in Rates
  /\ gyroIter' = 0 /\ loopIter' = 0
  /\ ran' = {"reload"}
  /\ UNCHANGED fusionUpdate

Next == (\E actuatorDue \in BOOLEAN : Update(actuatorDue)) \/ Reload

(* loop() calls update for ever. *)
Spec == Init /\ [][Next]_loopVars /\ WF_loopVars(\E due \in BOOLEAN : Update(due))

-----------------------------------------------------------------------------
TypeOK ==
  /\ rates \in Rates
  /\ gyroIter \in 0..(IterMod - 1) /\ loopIter \in 0..(IterMod - 1)
  /\ fusionUpdate \in BOOLEAN
  /\ ran \subseteq Work

Even(n) == n % 2 = 0

(* With an even loopSync and a gyro at an even multiple of the receiver's   *)
(* rate, the receiver is never read: the control loop runs in the gyro's    *)
(* even periods and the receiver is due in an odd one.  Its failsafe does   *)
(* not run either.  The code accepts such rates: a gyro on the SPI bus at   *)
(* 2 kHz (TargetESP32c3.h) and the default loopSync of 8 are two.           *)
EvenRatesStarveReceiver ==
  Even(rates.loop) /\ Even(rates.input) => "input" \notin ran

(* With a gyro at the receiver's rate or at twice that rate and an odd      *)
(* loopSync, the receiver is read again and again, unless settings keep     *)
(* arriving.                                                                *)
ReceiverIsRead ==
  <>[]("reload" \notin ran)
    => []<>(rates.input = 1 \/ (rates.input = 2 /\ ~Even(rates.loop)) => "input" \in ran)
=============================================================================
