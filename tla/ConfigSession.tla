--------------------------- MODULE ConfigSession ---------------------------
(***************************************************************************)
(* The craft on the bench: a configurator reads a page of settings over    *)
(* MSP, changes one and sends the page back, a terminal changes, dumps and *)
(* restores parameters, the sensors are calibrated, what is set is saved,  *)
(* and power may go at any time.  The craft is not armed.                  *)
(***************************************************************************)
EXTENDS Calibration, MspCommands, CliCommands

CONSTANTS MaxEdits,      \* settings changed in a session
          MixedPages,    \* pages after which the terminal is used, and that a new
                         \* craft or one whose save failed is asked for
          MaxRequests    \* calibrations, loads and resets asked for

VARIABLES task,          \* what the session is about: a page, the terminal or calibration
          edits, requests,
          cli,           \* Cli::_active
          sent,          \* the last thing done: a page sent, a dump replayed or other
          dumped,        \* the last dump and the configuration it is of
          clean          \* nothing changed since the save
vars == <<calVars, task, edits, requests, cli, sent, dumped, clean>>

Pages ==
  [MODE_RANGE |-> ModeRange(0), FEATURE |-> FeatureConfig, BATTERY |-> BatteryConfig, VOLTAGE_METER |-> VoltageMeter,
   CURRENT_METER |-> CurrentMeter, ACC_TRIM |-> AccTrim, MIXER |-> Mixer, SENSOR |-> Sensors, ALIGNMENT |-> Alignment,
   BLACKBOX |-> BlackboxConfig, BEEPER |-> BeeperConfig, BOARD |-> BoardAlignment, RX_MAP |-> RxMap, RSSI |-> RssiConfig,
   MOTOR |-> MotorConfig, ARMING |-> ArmingConfig, DEADBAND |-> Deadband, RX |-> RxConfig, FAILSAFE |-> FailsafeConfig,
   RXFAIL |-> RxFail(0), RC_TUNING |-> RcTuning, ADVANCED |-> AdvancedConfig, FILTER |-> FilterConfig, PID |-> Pid,
   PID_ADVANCED |-> PidAdvanced, SERVO |-> Servo(0), VTX |-> VtxConfig, NAME |-> Name, GPS |-> GpsConfig]
  @@ [p \in DOMAIN Ports |-> SerialConfig(p)] @@ [p \in {"CF_" \o q : q \in DOMAIN Ports} |->
        CfSerialConfig(CHOOSE q \in DOMAIN Ports : p = "CF_" \o q)]
SettingsOf(fields) == {fields[i].setting : i \in DOMAIN fields} \ {""}

\* Values a client sets: what the coding of the field can carry.
Values(page, f) ==
  LET code == (CHOOSE i \in DOMAIN Pages[page].put : Pages[page].put[i].setting = f)
      c == Pages[page].put[code].code
  IN CASE c = "step" -> {900, 2100}
       [] c = "baud" -> {9600, 230400}
       [] c = "aux" -> {4, 7}
       [] c = "tenth" -> {330, 350}
       [] c = "derivative" -> {PT3, BIQUAD}
       [] f \in {"accel_dev", "mag_dev"} -> {0, SENSOR_NONE}
       [] f \in {"pid_sync"} -> {1, 4}
       [] f \in {"accel_trim_pitch", "accel_trim_roll"} -> {-250, 250}
       [] f \in {"pid_tpa_breakpoint"} -> {1200, 1800}
       [] f \in {"vbat_source", "ibat_source"} -> {0, 1}
       [] OTHER -> [text |-> {0, 1}, bool |-> {0, 1}, i8 |-> {0, 9}, u8 |-> {1, 90}, i16 |-> {250, 1800}, i32 |-> {2^6, 2^7 + 2}][Setting[f].type]
Probes(f) == [text |-> {2}, bool |-> {0, 1}, i8 |-> {-3}, u8 |-> {200}, i16 |-> {-250}, i32 |-> {2^7 + 2}][Setting[f].type]

Other == [kind |-> "other"]
Stopped == calib["accel"] = "IDLE" /\ calib["mag"] = "IDLE"

-----------------------------------------------------------------------------
Init ==
  /\ task \in DOMAIN Pages \cup {"cli", "calibration"}
  /\ edits = 0 /\ requests = 0 /\ cli = (task = "cli") /\ sent = Other /\ dumped = Other /\ clean = FALSE /\ disturbed = FALSE
  /\ \E beeper \in BeeperMasks : \E valid \in {TRUE, task \notin MixedPages \cup {"calibration"}} :
       /\ stored = IF valid THEN [cfg |-> Defaults(beeper), valid |-> TRUE] ELSE Nothing
       /\ config = Sanitize(Defaults(beeper), ~valid)
       /\ firstUse = ~valid
       /\ bias = postLoad(Defaults(beeper))
       /\ present = Detected(Defaults(beeper))
  /\ calib = [gyro |-> "IDLE", accel |-> "IDLE", mag |-> "IDLE", ends |-> "no"]

\* A page is read, one of its settings changed, and the first n groups sent back.
Exchange ==
  /\ task \in DOMAIN Pages \/ task = "calibration"
  /\ edits < MaxEdits /\ ~cli
  /\ \E page \in IF task = "calibration" THEN {"SENSOR"} ELSE {task} :
     \E f \in SettingsOf(Pages[page].put) \ (IF task = "calibration" THEN {"baro_dev"} ELSE {}) : \E v \in Values(page, f) : \E n \in 1..Len(Pages[page].set) :
       /\ config' = Handle(config, page, Pages[page], Message([config EXCEPT ![f] = v], Pages[page], n), firstUse)
       /\ sent' = [kind |-> "page", page |-> page, setting |-> f, value |-> v, groups |-> n]
  /\ edits' = edits + 1
  /\ clean' = FALSE
  /\ UNCHANGED <<bias, calib, present, stored, firstUse, disturbed, task, requests, cli, dumped>>

\* MSP_EEPROM_WRITE, and save of the command line.
Saves ==
  /\ save(bias)
  /\ clean' = TRUE /\ sent' = Other /\ dumped' = Other
  /\ UNCHANGED <<bias, calib, present, disturbed, task, edits, requests, cli>>
\* MSP_RESET_CONF: a reset and a save.
ResetConf ==
  /\ task \in MixedPages \cup {"calibration"} /\ ~cli /\ requests < MaxRequests /\ requests' = requests + 1
  /\ \E beeper \in BeeperMasks : \E c \in {preSave(Sanitize(Defaults(beeper), firstUse), bias)} :
       config' = c /\ stored' = [cfg |-> c, valid |-> TRUE]
  /\ firstUse' = FALSE
  /\ clean' = TRUE /\ sent' = Other
  /\ UNCHANGED <<bias, calib, present, disturbed, task, edits, cli, dumped>>
Reboots ==
  /\ Restart
  /\ sent' = [kind |-> "restart", clean |-> clean] /\ cli' = (task = "cli") /\ dumped' = Other /\ clean' = stored.valid
  /\ UNCHANGED <<task, edits, requests>>
\* Only on the way to the save is the storage written.
SaveFails ==
  /\ task \in MixedPages \cup {"calibration"} /\ ~cli /\ requests < MaxRequests /\ requests' = requests + 1
  /\ PowerFailsInSave
  /\ sent' = Other /\ cli' = FALSE /\ dumped' = Other /\ clean' = stored'.valid
  /\ UNCHANGED <<task, edits>>

-----------------------------------------------------------------------------
\* The terminal.
EnterCli ==
  /\ task \in MixedPages /\ ~cli /\ cli' = TRUE /\ sent' = Other
  /\ UNCHANGED <<calVars, task, edits, requests, dumped, clean>>
LeaveCli ==
  /\ cli /\ task # "cli" /\ cli' = FALSE /\ dumped' = Other /\ sent' = Other
  /\ UNCHANGED <<calVars, task, edits, requests, clean>>
SetParam ==
  /\ cli /\ task = "cli" /\ edits < MaxEdits /\ edits' = edits + 1
  /\ \/ \E p \in Plain : \E v \in Probes(p) : config' = Update(config, p, <<v>>)
     \/ \E p \in DOMAIN BitOf : \E b \in {0, 1} : config' = Update(config, p, <<b>>)
     \/ \E p \in DOMAIN Kind : \E k \in DOMAIN Written[Kind[p]] :
        \E v \in Probes(p \o "." \o Written[Kind[p]][k]) : config' = Update(config, p, [Words(config, p) EXCEPT ![k] = v])
  /\ sent' = Other /\ clean' = FALSE
  /\ UNCHANGED <<bias, calib, present, stored, firstUse, disturbed, task, requests, cli, dumped>>
\* preset modes: the third range is given in the steps of the protocol.
PresetModes ==
  /\ cli /\ task = "cli" /\ edits < MaxEdits /\ edits' = edits + 1
  /\ config' = LET range(i, id, ch, a, b) == (Mode(i, "id") :> id) @@ (Mode(i, "ch") :> ch) @@ (Mode(i, "min") :> a) @@ (Mode(i, "max") :> b)
               IN range(0, 0, 4, 1700, 2100) @@ range(1, 2, 4, 1900, 2100) @@ range(2, 1, 0, 32, 48) @@ config
  /\ sent' = Other /\ clean' = FALSE
  /\ UNCHANGED <<bias, calib, present, stored, firstUse, disturbed, task, requests, cli, dumped>>
PresetScaler ==
  /\ cli /\ task = "cli" /\ edits < MaxEdits /\ edits' = edits + 1
  /\ config' = LET scaler(i, gain) == (Member("scaler", i, "dimension") :> (gain + 256 + 512)) @@ (Member("scaler", i, "channel") :> (5 + i))
                                      @@ (Member("scaler", i, "minScale") :> 25) @@ (Member("scaler", i, "maxScale") :> 400)
               IN scaler(0, 1) @@ scaler(1, 2) @@ scaler(2, 4) @@ config
  /\ sent' = Other /\ clean' = FALSE
  /\ UNCHANGED <<bias, calib, present, stored, firstUse, disturbed, task, requests, cli, dumped>>
DumpAll ==
  /\ cli /\ dumped = Other /\ dumped' = [kind |-> "dump", words |-> Dump(config)] /\ sent' = Other
  /\ UNCHANGED <<calVars, task, edits, requests, cli, clean>>
\* The dump typed in again: defaults, a set for each parameter, save.
Replay ==
  /\ cli /\ dumped # Other
  /\ \E beeper \in BeeperMasks : \E c \in {Sanitize(Defaults(beeper), firstUse)} :
       LET kept == preSave(UpdateAll(c, dumped.words), bias)
       IN config' = kept /\ stored' = [cfg |-> kept, valid |-> TRUE]
  /\ firstUse' = FALSE
  /\ sent' = [kind |-> "replayed"] /\ clean' = TRUE
  /\ UNCHANGED <<bias, calib, present, disturbed, task, edits, requests, cli, dumped>>
DefaultsCommand ==
  /\ cli /\ requests < MaxRequests /\ requests' = requests + 1
  /\ reset
  /\ sent' = Other /\ clean' = FALSE
  /\ UNCHANGED <<bias, calib, present, stored, firstUse, disturbed, task, edits, cli, dumped>>
LoadCommand ==
  /\ cli /\ requests < MaxRequests /\ requests' = requests + 1
  /\ Load
  /\ sent' = Other /\ dumped' = Other /\ clean' = stored.valid
  /\ UNCHANGED <<task, edits, cli>>

-----------------------------------------------------------------------------
\* Calibrations, in a session about them.
Calibrates(step) ==
  /\ task = "calibration" /\ step
  /\ sent' = Other
  /\ clean' = (stored' # stored \/ (clean /\ bias' = bias))
  /\ UNCHANGED <<task, edits, requests, cli, dumped>>
GyroRuns == Calibrates(CalibrateGyro)
AccelRuns == Calibrates(CalibrateAccel)
MagRuns == Calibrates(CalibrateMag)
Request ==
  /\ task = "calibration" /\ requests < MaxRequests /\ requests' = requests + 1
  /\ calibrateGyro \/ calibrateMag \/ Load \/ \E s \in {"gyro", "accel", "mag"} : ResetCalibration(s)
  /\ sent' = Other /\ clean' = FALSE
  /\ UNCHANGED <<task, edits, cli, dumped>>

Next == \/ Exchange \/ Saves \/ ResetConf \/ Reboots \/ SaveFails \/ EnterCli \/ LeaveCli \/ SetParam \/ PresetModes \/ PresetScaler
        \/ DumpAll \/ Replay \/ DefaultsCommand \/ LoadCommand \/ GyroRuns \/ AccelRuns \/ MagRuns \/ Request
\* The craft is level, at rest and then turned, and its tasks run.
Spec == Init /\ [][Next]_vars /\ WF_vars(GyroRuns) /\ WF_vars(AccelRuns) /\ WF_vars(MagRuns)

-----------------------------------------------------------------------------
\* Settings whose value the code does not take, or takes otherwise, of a page:
\* those with fewer bits on the wire than in the configuration, the older
\* serial command, which has no effect, a recorder without its second group.
Narrow(page, f) ==
  \/ \E i \in DOMAIN Pages[page].put : /\ Pages[page].put[i].setting = f /\ Pages[page].put[i].width = 1
                                       /\ Setting[f].type = "i16" /\ Pages[page].put[i].code \notin {"step", "tenth"}
  \/ page = "ADVANCED" /\ f = "pid_sync"
Ineffective(page) == page \in {"CF_" \o p : p \in DOMAIN Ports}
Overlooked(page, f) ==
  \/ f \in {"input_pitch_rate", "input_pitch_expo"} /\ page = "RC_TUNING"
  \/ f = "blackbox_rate" /\ page = "BLACKBOX"

\* A page that is sent back sets the setting that was changed and keeps every
\* other, however many groups of fields the client knows: replies and handlers
\* are written apart, and a difference in the order or the coding of a field
\* changes what nobody touched (MspProcessor::processCommand).
SettingsOfGroups(page, n) == UNION {SettingsOf(Pages[page].set[i].fields) : i \in 1..n}
Wanted(s) ==
  IF s.setting \in SettingsOfGroups(s.page, s.groups) /\ ~Ineffective(s.page) THEN Store(config, s.setting, s.value) ELSE config
SetTakesEffect ==
  [][sent' # sent /\ sent'.kind = "page" =>
       \E want \in {Wanted(sent')} :
       \E repaired \in {IF Pages[sent'.page].reloads THEN Sanitize(want, firstUse) ELSE want} :
         \A f \in DOMAIN Setting : config'[f] = repaired[f] \/ Narrow(sent'.page, f) \/ Overlooked(sent'.page, f)]_vars

\* A dump typed in again gives every parameter the words that were dumped, but
\* for what the state keeps of the calibrations, the name, of which only the
\* first word is read, and a failsafe mode out of range (Cli::execute).
DumpRestores ==
  sent.kind = "replayed" =>
    \A p \in Params \ (CalibrationSettings \cup {"model_name"}) :
      \A k \in DOMAIN dumped.words[p] : dumped.words[p][k] # Unknown => Words(config, p)[k] = dumped.words[p][k]

\* A restart gives back the configuration and the calibration that were saved,
\* for as long as nothing changed since (Model::save, load, postLoad, preSave).
RestartKeepsSaved ==
  [][sent' # sent /\ sent'.kind = "restart" /\ clean =>
       config' \in {config, Sanitize(config, FALSE)} /\ bias' = bias]_vars

\* What is stored of the accelerometer is a finished calibration, unless one is
\* going on or was cut (MSP_EEPROM_WRITE asks for no end of it).
Whole(c) == \E b \in {0, 12} : \A f \in CalibrationOf.accel : c[f] = b
StoredBiasIsWhole ==
  task = "calibration" /\ stored.valid => Whole(stored.cfg) \/ calib["accel"] # "IDLE" \/ disturbed

\* A calibration ends, of a sensor that is there and switched on: one asked for
\* a magnetometer that is not never does (Model::calibrateMag).
CalibrationEnds ==
  \A s \in {"gyro", "accel", "mag"} :
    (task = "calibration" /\ calib[s] # "IDLE" /\ active(s)) ~> (calib[s] = "IDLE" \/ ~active(s) \/ sent.kind = "restart")
=============================================================================
