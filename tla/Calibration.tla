---------------------------- MODULE Calibration ----------------------------
(***************************************************************************)
(* The configuration in use, the one in the storage, and the calibrations  *)
(* of gyro, accelerometer and magnetometer, which end in a save of all of  *)
(* it.  What is measured belongs to the state of the craft: the members of *)
(* the configuration with the same meaning are written by a save and read  *)
(* by a load only.                                                         *)
(***************************************************************************)
EXTENDS ModelConfig

CONSTANT BeeperMasks      \* what the memory of the beeper mask may hold

VARIABLES config,         \* Model::config
          bias,           \* biases, offsets and scales in Model::state
          calib,          \* the calibration state of each sensor, and how far the PID
                        \* task has come with the end of the gyro's
          present,        \* the sensors found when the craft started
          stored,         \* what the storage holds, and whether it is valid
          firstUse,       \* the last access found nothing valid there
          disturbed       \* a calibration of the accelerometer was cut by a restart,
                        \* a load or a reset
calVars == <<config, bias, calib, present, stored, firstUse, disturbed>>

SENSOR_NONE == 1
active(s) == s = "gyro" \/ (s \in present /\ config[s \o "_dev"] # SENSOR_NONE)
Detected(c) == {"gyro"} \cup {s \in {"accel", "mag"} : c[s \o "_dev"] # SENSOR_NONE}

Nothing == [valid |-> FALSE]      \* a storage without a configuration of this version
\* Model::save; a power failure in it leaves the old contents, the new or none.
save(kept) ==
  LET c == preSave(config, kept)
  IN /\ config' = c
     /\ stored' = [cfg |-> c, valid |-> TRUE]
     /\ firstUse' = FALSE

\* Model::reset: a new configuration and a reload; the state keeps its biases.
reset == \E beeper \in BeeperMasks : config' = Sanitize(Defaults(beeper), firstUse)

\* What a start makes of the storage.
Loaded(kept, beeper) == IF kept.valid THEN kept.cfg ELSE Defaults(beeper)
Boot(kept) ==
  \E beeper \in BeeperMasks : \E c \in {Loaded(kept, beeper)} :
    /\ stored' = kept
    /\ firstUse' = ~kept.valid
    /\ bias' = postLoad(c)
    /\ config' = Sanitize(c, ~kept.valid)
    /\ present' = Detected(c)
    /\ calib' = [gyro |-> "START", accel |-> "IDLE", mag |-> "IDLE", ends |-> "no"]
    /\ disturbed' = (disturbed \/ calib["accel"] # "IDLE")
Restart == Boot(stored)
PowerFailsInSave == \E kept \in {stored, Nothing, [cfg |-> preSave(config, bias), valid |-> TRUE]} : Boot(kept)

-----------------------------------------------------------------------------
\* The level craft at rest measures these, in thousandths (tenths for the mag).
Gravity == 9807
AtRest == [gyro_offset_x |-> 3, gyro_offset_y |-> 3, gyro_offset_z |-> 3,
           accel_offset_x |-> 12, accel_offset_y |-> 12, accel_offset_z |-> Gravity + 12]
Turned == [mag_offset_x |-> 5, mag_offset_y |-> 5, mag_offset_z |-> 5, mag_scale_x |-> 1100, mag_scale_y |-> 1000, mag_scale_z |-> 1000]

\* One sample, and the last: the bias moves to what is measured.
Samples(s, partial) ==
  /\ calib[s] = "UPDATE"
  /\ \/ bias' = partial @@ bias /\ partial # [f \in DOMAIN partial |-> bias[f]] /\ UNCHANGED calib
     \/ bias' = [f \in CalibrationOf[s] |-> AtRest[f]] @@ bias /\ calib' = [calib EXCEPT ![s] = "APPLY"]
  /\ UNCHANGED <<config, stored, firstUse, present, disturbed>>
Advance(s, from, to) == calib[s] = from /\ calib' = [calib EXCEPT ![s] = to]

\* Mutants: no save for the accelerometer, and no end.
finishCalibration_NoAccelSave(s) ==
  /\ Advance(s, "SAVE", "IDLE")
  /\ IF calib["mag"] = "SAVE" THEN save(bias) ELSE UNCHANGED <<config, stored, firstUse>>
  /\ disturbed' = (disturbed /\ calib["accel"] # "SAVE")
  /\ UNCHANGED <<bias, present>>
finishCalibration_NoEnd(s) ==
  /\ calib[s] = "SAVE" /\ save(bias)
  /\ UNCHANGED <<bias, calib, present, disturbed>>
\* Model::finishCalibration, called in the gyro task, where the commands run too.
finishCalibration(s) ==
  /\ Advance(s, "SAVE", "IDLE")
  /\ save(bias)
  /\ disturbed' = (disturbed /\ calib["accel"] # "SAVE")
  /\ UNCHANGED <<bias, present>>
\* The same in the PID task: it looks at the accelerometer and the magnetometer,
\* may save for them, and ends the calibration, whatever was asked meanwhile.
GyroEnds(from, to) == calib["ends"] = from /\ calib' = [calib EXCEPT !["ends"] = to]
finishGyroCalibration ==
  \/ /\ calib["gyro"] = "SAVE"
     /\ GyroEnds("no", IF "SAVE" \in {calib["accel"], calib["mag"]} THEN "save" ELSE "end")
     /\ UNCHANGED <<config, bias, stored, firstUse, present, disturbed>>
  \/ /\ GyroEnds("save", "end") /\ save(bias)
     /\ disturbed' = (disturbed /\ calib["accel"] # "SAVE")
     /\ UNCHANGED <<bias, present>>
  \/ /\ calib["ends"] = "end"
     /\ calib' = [calib EXCEPT !["gyro"] = "IDLE", !["ends"] = "no"]
     /\ UNCHANGED <<config, bias, stored, firstUse, present, disturbed>>

CalibrateGyro ==
  \/ /\ calib["ends"] = "no"
     /\ \/ /\ \E step \in {<<"START", "UPDATE">>, <<"APPLY", "SAVE">>} : Advance("gyro", step[1], step[2])
           /\ UNCHANGED <<config, bias, stored, firstUse, present, disturbed>>
        \/ Samples("gyro", [f \in CalibrationOf.gyro |-> 2])
  \/ finishGyroCalibration
CalibrateAccel ==
  /\ active("accel")
  /\ \/ /\ Advance("accel", "START", "UPDATE")
        /\ bias' = [accel_offset_x |-> 0, accel_offset_y |-> 0, accel_offset_z |-> Gravity] @@ bias
        /\ UNCHANGED <<config, stored, firstUse, present, disturbed>>
     \/ Samples("accel", [accel_offset_x |-> 8, accel_offset_y |-> 8, accel_offset_z |-> Gravity + 8])
     \/ /\ Advance("accel", "APPLY", "SAVE")
        /\ bias' = [bias EXCEPT !["accel_offset_z"] = @ - Gravity]
        /\ UNCHANGED <<config, stored, firstUse, present, disturbed>>
     \/ finishCalibration("accel")
\* A magnetometer that was not turned through all axes keeps what it had.
CalibrateMag ==
  /\ active("mag")
  /\ \/ \E step \in {<<"START", "UPDATE">>, <<"UPDATE", "APPLY">>} :
          Advance("mag", step[1], step[2]) /\ UNCHANGED <<config, bias, stored, firstUse, present, disturbed>>
     \/ /\ Advance("mag", "APPLY", "SAVE")
        /\ bias' \in {bias, Turned @@ bias}
        /\ UNCHANGED <<config, stored, firstUse, present, disturbed>>
     \/ finishCalibration("mag")

\* The requests, of a craft that is not armed, and the resets of the command line.
calibrateGyro ==
  /\ calib' = [calib EXCEPT !["gyro"] = "START", !["accel"] = IF active("accel") THEN "START" ELSE @]
  /\ UNCHANGED <<config, bias, stored, firstUse, present, disturbed>>
calibrateMag ==
  /\ calib' = [calib EXCEPT !["mag"] = "START"]
  /\ UNCHANGED <<config, bias, stored, firstUse, present, disturbed>>
ResetCalibration(s) ==
  /\ bias' = [f \in CalibrationOf[s] |-> IF f \in {"mag_scale_x", "mag_scale_y", "mag_scale_z"} THEN 1000 ELSE 0] @@ bias
  /\ disturbed' = (disturbed \/ (s = "accel" /\ calib[s] # "IDLE"))
  /\ UNCHANGED <<config, calib, stored, firstUse, present>>
\* Model::load, asked for while the craft runs: no reload, no repair.
Load ==
  /\ config' = IF stored.valid THEN stored.cfg ELSE config
  /\ bias' = postLoad(config')
  /\ firstUse' = ~stored.valid
  /\ disturbed' = (disturbed \/ calib["accel"] # "IDLE")
  /\ UNCHANGED <<calib, stored, present>>
=============================================================================
