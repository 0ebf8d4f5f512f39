---------------------------- MODULE MspCommands ----------------------------
(***************************************************************************)
(* The commands of the MSP protocol that read and write settings.  A       *)
(* command has the fields of the reply (get), those a client sends (put),  *)
(* in general the reply without what is only information, and the groups   *)
(* of fields the handler reads (set), each with the number of bytes that   *)
(* must be left for it to be read at all: a client of an older version     *)
(* sends fewer groups.                                                     *)
(***************************************************************************)
EXTENDS ModelConfig, SequencesExt

\* A field: its bytes, the setting it holds, how that is coded.
Field(width, setting, code) == [width |-> width, setting |-> setting, code |-> code]
B(setting) == Field(1, setting, "plain")
H(setting) == Field(2, setting, "plain")
W(setting) == Field(4, setting, "plain")
Fixed(width) == Field(width, "", "fixed")     \* no setting; the client sends it back
Info(width) == Field(width, "", "info")       \* only in the reply
Bs(settings) == [i \in 1..Len(settings) |-> B(settings[i])]
Hs(settings) == [i \in 1..Len(settings) |-> H(settings[i])]

Group(need, fields) == [need |-> need, fields |-> fields]
Command(get, set) ==
  [get |-> get, put |-> SelectSeq(get, LAMBDA f : f.code # "info"), set |-> set,
   index |-> -1, valid |-> {-1}, least |-> 0, reloads |-> FALSE]
Same(fields) == Command(fields, <<Group(0, fields)>>)
Indexed(i, valid, c) == [c EXCEPT !.index = i, !.valid = valid]
Reloading(c) == [c EXCEPT !.reloads = TRUE]

-----------------------------------------------------------------------------
Speeds == <<9600, 19200, 38400, 57600, 115200, 230400, 250000, 400000, 460800, 500000,
            921600, 1000000, 1500000, 2000000, 2470000>>
toBaudIndex(speed) == Cardinality({i \in DOMAIN Speeds : speed >= Speeds[i]})
fromBaudIndex(i) == IF i \in DOMAIN Speeds THEN Speeds[i] ELSE 0

AXIS_AUX_1 == 4
Quotient(a, b) == IF a >= 0 THEN a \div b ELSE -((-a) \div b)

\* What a reply says of value v, and what is stored of the number x of a message.
Said(code, v) ==
  CASE code = "tenth" -> (v + 5) \div 10
    [] code = "aux" -> v - AXIS_AUX_1
    [] code = "step" -> Quotient(v - 900, 25)
    [] code = "baud" -> toBaudIndex(v)
    [] code = "inverse" -> -v - 1
    [] code = "dlpf" -> IF v = 0 THEN 0 ELSE IF v = 7 THEN 1 ELSE 2
    [] code = "derivative" -> IF v = NONE THEN 0 ELSE IF v = BIQUAD THEN 2 ELSE 1
    [] code = "low" -> IF v > 255 THEN 255 ELSE v
    [] OTHER -> v
Taken(code, x) ==
  CASE code = "tenth" -> x * 10
    [] code = "aux" -> x + AXIS_AUX_1
    [] code = "step" -> x * 25 + 900
    [] code = "baud" -> fromBaudIndex(x)
    [] code = "inverse" -> -x - 1
    [] code = "derivative" -> IF x = 0 THEN NONE ELSE IF x = 2 THEN BIQUAD ELSE PT3
    [] code = "source" -> IF x = 1 THEN 1 ELSE 0
    [] code = "trim" -> Constrain(Cast("i16", x), -300, 300)
    [] code = "angle" -> Constrain(x, 0, 180)
    [] code = "tpa" -> Constrain(x, 0, 90)
    [] code = "breakpoint" -> Constrain(x, 1000, 2000)
    [] OTHER -> x

Byte(v, i) == (v \div 256^(i - 1)) % 256
Bytes(width, v) == [i \in 1..width |-> Byte(v, i)]
Number(bytes) ==
  CASE Len(bytes) = 1 -> bytes[1]
    [] Len(bytes) = 2 -> bytes[1] + 256 * bytes[2]
    [] Len(bytes) = 4 -> bytes[1] + 256 * bytes[2] + 65536 * bytes[3] + 16777216 * Cast("i8", bytes[4])
    [] OTHER -> 0

-----------------------------------------------------------------------------
\* Switches, features, power.
Mode(i, m) == Member("mode", i, m)
ModeRange(i) ==
  LET range == <<B(Mode(i, "id")), Field(1, Mode(i, "ch"), "aux"), Field(1, Mode(i, "min"), "step"), Field(1, Mode(i, "max"), "step")>>
      extra == <<B(Mode(i, "logicMode")), B(Mode(i, "linkId"))>>
  IN Indexed(i, 0..(NConditions - 1), Command(range \o extra, <<Group(0, range), Group(2, extra)>>))
FeatureConfig == Reloading(Same(<<W("featureMask")>>))
BatteryConfig ==
  LET old(source) == <<Fixed(1), Fixed(1), Field(1, "vbat_cell_warn", "tenth"), Fixed(2),
                       Field(1, "vbat_source", source), Field(1, "ibat_source", source)>>
      new == <<Fixed(2), Fixed(2), H("vbat_cell_warn")>>
  IN Command(old("plain") \o new, <<Group(0, old("source")), Group(6, new)>>)
VoltageMeter == Indexed(10, {10}, Same(Bs(<<"vbat_scale", "vbat_div", "vbat_mul">>)))
CurrentMeter == Indexed(10, {10}, Same(Hs(<<"ibat_scale", "ibat_offset">>)))

\* Sensors and mixer.
AccTrim == Command(Hs(<<"accel_trim_pitch", "accel_trim_roll">>),
                   <<Group(0, <<Field(2, "accel_trim_pitch", "trim"), Field(2, "accel_trim_roll", "trim")>>)>>)
Mixer == Same(Bs(<<"mixer_type", "mixer_yaw_reverse">>))
Sensors == Reloading(Same(Bs(<<"accel_dev", "baro_dev", "mag_dev">>)))
Alignment ==
  Command(<<B("gyro_align"), B("gyro_align"), B("mag_align"), Info(1), Fixed(1), B("gyro_align"), Fixed(1)>>,
          <<Group(0, <<B("gyro_align"), Fixed(1), B("mag_align")>>), Group(3, <<Fixed(1), B("gyro_align"), Fixed(1)>>)>>)

\* Serial ports, one entry of the list; id is the first byte of each.  The
\* handler of the older command skips every entry.
PortFields(p, width) ==
  <<Field(width, p \o ".functionMask", "plain"), Field(1, p \o ".baud", "baud"), Fixed(2), Field(1, p \o ".blackboxBaud", "baud")>>
SerialConfig(p) ==
  Reloading(Indexed(Ports[p].id, {Ports[q].id : q \in DOMAIN Ports}, Command(PortFields(p, 4), <<Group(8, PortFields(p, 4))>>)))
CfSerialConfig(p) ==
  Reloading(Indexed(Ports[p].id, {}, Command(PortFields(p, 2), <<Group(6, PortFields(p, 2))>>)))

\* Recorder, beeper, board, receiver.
BlackboxConfig ==
  Command(<<Info(1), B("blackbox_dev"), Fixed(2), H("blackbox_rate")>>,
          <<Group(0, <<B("blackbox_dev"), Fixed(2)>>), Group(2, <<H("blackbox_rate")>>)>>)
BeeperConfig == Command(<<Field(4, "beeperMask", "inverse"), Info(1), Info(4)>>, <<Group(0, <<Field(4, "beeperMask", "inverse")>>)>>)
BoardAlignment == Same(Hs(<<"board_align_roll", "board_align_pitch", "board_align_yaw">>))
RxMap == Same([i \in 1..NChannels |-> B(Member("input", i - 1, "map"))])
RssiConfig == Same(<<B("input_rssi_channel")>>)
\* Mutant: the reply has the last two settings the other way round.
MotorConfig_OtherOrder ==
  LET limits == Hs(<<"output_min_throttle", "output_max_throttle", "output_min_command">>)
  IN Reloading(Command(limits \o <<Info(1)>> \o Bs(<<"output_dshot_telemetry", "output_motor_poles">>) \o <<Info(1)>>,
       <<Group(0, limits), Group(2, Bs(<<"output_motor_poles", "output_dshot_telemetry">>))>>))
MotorConfig ==
  LET limits == Hs(<<"output_min_throttle", "output_max_throttle", "output_min_command">>)
      dshot == Bs(<<"output_motor_poles", "output_dshot_telemetry">>)
  IN Reloading(Command(limits \o <<Info(1)>> \o dshot \o <<Info(1)>>, <<Group(0, limits), Group(2, dshot)>>))
ArmingConfig ==
  Command(<<Fixed(1), Fixed(1), B("arming_small_angle")>>, <<Group(0, <<Fixed(1), Fixed(1), Field(1, "arming_small_angle", "angle")>>)>>)
Deadband == Same(<<B("input_deadband"), Fixed(1), Fixed(1), Fixed(2)>>)
RxConfig ==
  LET pulses == <<B("serialRxProvider"), H("maxCheck"), H("input_mid"), H("minCheck"), Fixed(1), H("input_min"), H("input_max")>>
      interpolation == <<B("input_interpolation"), B("input_interpolation_interval"), Fixed(2)>>
      spi == <<Fixed(1), Fixed(4), Fixed(1)>>
      smoothing == <<Fixed(1), B("input_filter_type"), B("input_lpf_freq"), B("input_ff_lpf_freq"), Fixed(1),
                     Field(1, "input_ff_lpf_type", "derivative")>>
  IN Reloading(Command(pulses \o interpolation \o spi \o <<Fixed(1)>> \o smoothing \o <<Fixed(1), B("input_lpf_factor")>>,
       <<Group(0, pulses), Group(4, interpolation), Group(6, spi), Group(1, <<Fixed(1)>>), Group(6, smoothing),
         Group(1, <<Fixed(1)>>), Group(1, <<B("input_lpf_factor")>>)>>))
FailsafeConfig == Same(<<B("failsafe_delay"), Fixed(1), Fixed(2), B("failsafe_kill_switch"), Fixed(2), Fixed(1)>>)
RxFail(i) == Indexed(i, 0..(NChannels - 1), Same(<<B(Member("input", i, "fsMode")), H(Member("input", i, "fsValue"))>>))

\* Rates and controllers.
RcTuning ==
  LET base(scale, point) == Bs(<<"input_roll_rate", "input_roll_expo", "input_roll_srate", "input_pitch_srate", "input_yaw_srate">>)
        \o <<Field(1, "pid_tpa_scale", scale), Fixed(1), Fixed(1), Field(2, "pid_tpa_breakpoint", point)>>
      later == Bs(<<"input_yaw_expo", "input_yaw_rate", "input_pitch_rate", "input_pitch_expo">>)
      throttle == Bs(<<"mixer_throttle_limit_type", "mixer_throttle_limit_percent">>)
      limits == Hs(<<"input_roll_limit", "input_pitch_limit", "input_yaw_limit">>)
  IN [Command(base("plain", "plain") \o later \o throttle \o limits \o <<B("input_rate_type")>>,
              <<Group(0, base("tpa", "breakpoint"))>> \o [i \in 1..4 |-> Group(1, <<later[i]>>)]
              \o <<Group(2, throttle), Group(6, limits), Group(1, <<B("input_rate_type")>>)>>) EXCEPT !.least = 10]
AdvancedConfig ==
  LET base == <<Fixed(1), B("pid_sync"), B("output_motor_async"), B("output_motor_protocol"), H("output_motor_rate")>>
      gyro == <<Fixed(1), Fixed(1), Fixed(1), Fixed(2), Fixed(2), Fixed(1)>>
  IN Reloading(Command(base \o <<H("output_dshot_idle"), Fixed(1), Fixed(1)>> \o gyro \o <<B("debug_mode"), Info(1)>>,
       <<Group(0, base), Group(2, <<H("output_dshot_idle")>>), Group(1, <<Fixed(1)>>), Group(1, <<Fixed(1)>>), Group(8, gyro),
         Group(1, <<B("debug_mode")>>)>>))
FilterConfig ==
  LET lpf == <<B("gyro_lpf_freq"), H("pid_dterm_lpf_freq"), H("pid_yaw_lpf_freq")>>
      notch == Hs(<<"gyro_notch1_freq", "gyro_notch1_cutoff", "pid_dterm_notch_freq", "pid_dterm_notch_cutoff">>)
      notch2 == Hs(<<"gyro_notch2_freq", "gyro_notch2_cutoff">>)
      second(dlpf) == <<dlpf, Fixed(1), H("gyro_lpf_freq"), H("gyro_lpf2_freq"), B("gyro_lpf_type"), B("gyro_lpf2_type"),
                        H("pid_dterm_lpf2_freq")>>
      dynamic == <<B("pid_dterm_lpf2_type")>> \o Hs(<<"gyro_dyn_lpf_min", "gyro_dyn_lpf_max", "pid_dterm_dyn_lpf_min", "pid_dterm_dyn_lpf_max">>)
      analyse == <<Fixed(1), B("gyro_dyn_notch_count"), H("gyro_dyn_notch_q"), H("gyro_dyn_notch_min"), B("gyro_rpm_harmonics"), B("gyro_rpm_min_freq")>>
  IN Reloading(Command(lpf \o notch \o notch2 \o <<B("pid_dterm_lpf_type")>> \o second(Field(1, "gyro_dlpf", "dlpf")) \o dynamic \o analyse
                       \o <<H("gyro_dyn_notch_max")>>,
       <<Group(0, lpf), Group(8, notch), Group(4, notch2), Group(1, <<B("pid_dterm_lpf_type")>>), Group(10, second(Fixed(1))),
         Group(9, dynamic), Group(8, analyse), Group(1, <<H("gyro_dyn_notch_max")>>)>>))
PidNames == <<"pid_roll", "pid_pitch", "pid_yaw", "pid_alt", "pid_pos", "pid_posr", "pid_navr", "pid_level", "pid_mag", "pid_althold_vel">>
Pid == Reloading(Same(FlattenSeq([i \in 1..Len(PidNames) |-> Bs(<<PidNames[i] \o "_p", PidNames[i] \o "_i", PidNames[i] \o "_d">>)])))
PidAdvanced ==
  LET old(weight) == <<Fixed(2), Fixed(2), Fixed(2), Fixed(1), Fixed(1), Fixed(1), weight, Fixed(1), Fixed(1), Fixed(1), Fixed(2), Fixed(2)>>
      feedForward == <<Fixed(1), Fixed(1), B("pid_iterm_relax"), Fixed(1), Fixed(1), Fixed(1), Fixed(1)>>
                     \o Hs(<<"pid_roll_f", "pid_pitch_f", "pid_yaw_f">>) \o <<Fixed(1)>>
      dMin == [i \in 1..7 |-> Fixed(1)]
  IN Reloading(Command(old(Field(1, "pid_dterm_weight", "low")) \o <<B("pid_level_angle_limit"), Fixed(1), Fixed(2), Fixed(2), H("pid_dterm_weight")>>
                       \o feedForward \o dMin \o <<B("pid_iterm_relax_cutoff"), B("mixer_output_limit"), Fixed(1), Fixed(1)>>,
       <<Group(0, old(B("pid_dterm_weight"))), Group(2, <<B("pid_level_angle_limit"), Fixed(1)>>), Group(4, <<Fixed(2), Fixed(2)>>),
         Group(2, <<H("pid_dterm_weight")>>), Group(14, feedForward), Group(7, dMin), Group(1, <<B("pid_iterm_relax_cutoff")>>),
         Group(3, <<B("mixer_output_limit"), Fixed(1), Fixed(1)>>)>>))

\* Servos, video transmitter, GPS.
Servo(i) ==
  Indexed(i, 0..(NOutputs - 1), Same(<<H(Member("output", i, "min")), H(Member("output", i, "max")), H(Member("output", i, "neutral")),
                                       Fixed(1), Fixed(1), Fixed(4)>>))
VtxConfig ==
  LET extended == <<B("vtx_band"), B("vtx_channel"), Fixed(2)>>
      basic == <<Group(0, <<Fixed(2)>>), Group(2, <<B("vtx_power"), Fixed(1)>>), Group(1, <<B("vtx_low_power_disarm")>>),
                 Group(2, <<Fixed(2)>>), Group(4, extended)>>
  IN [Command(<<Info(1)>> \o Bs(<<"vtx_band", "vtx_channel", "vtx_power">>)
              \o <<Info(1), Info(2), Info(1), B("vtx_low_power_disarm"), Info(2), Info(1), Info(1), Info(1), Info(1)>>, basic)
        EXCEPT !.put = <<Fixed(2), B("vtx_power"), Fixed(1), B("vtx_low_power_disarm"), Fixed(2)>> \o extended]
Name == Same(<<B("model_name")>>)
GpsConfig == Command(<<Fixed(1), Fixed(1), Fixed(1), Fixed(1), B("gps_set_home_once"), Fixed(1)>>,
                     <<Group(0, <<Fixed(1), Fixed(1), Fixed(1), Fixed(1)>>), Group(2, <<B("gps_set_home_once"), Fixed(1)>>)>>)

-----------------------------------------------------------------------------
\* The bytes of a reply, and the message a client makes of it: without what is
\* only information, cut after n groups.
Encode(cfg, field) == Bytes(field.width, IF field.setting = "" THEN 0 ELSE Said(field.code, cfg[field.setting]))
Reply(cfg, command) == [i \in DOMAIN command.get |-> Encode(cfg, command.get[i])]
Width(fields) == FoldLeft(LAMBDA n, f : n + f.width, 0, fields)
Length(groups) == FoldLeft(LAMBDA n, g : n + Width(g.fields), 0, groups)
Message(cfg, command, n) ==
  LET bytes == FlattenSeq([i \in DOMAIN command.put |-> Encode(cfg, command.put[i])])
  IN SubSeq(bytes, 1, Length(SubSeq(command.set, 1, n)))

\* The handler: the settings of the groups that are read, in order, over those
\* it had.  A group for which too few bytes are left is passed over.
ReadField(state, field) ==
  LET x == Number(SubSeq(state.left, 1, field.width))
      v == Cast(Setting[field.setting].type, Taken(field.code, x))
  IN [left |-> SubSeq(state.left, field.width + 1, Len(state.left)),
      cfg |-> IF field.setting = "" THEN state.cfg ELSE (field.setting :> v) @@ state.cfg]
ReadGroup(state, group) ==
  IF Len(state.left) >= group.need THEN FoldLeft(ReadField, state, group.fields) ELSE state
\* The pitch has the rate and the expo of the roll for as long as both are equal.
PitchFollows(cfg, message) ==
  [f \in {"input_pitch_rate", "input_pitch_expo"} |->
     LET roll == IF f = "input_pitch_rate" THEN "input_roll_rate" ELSE "input_roll_expo"
     IN IF cfg[f] = cfg[roll] THEN message[IF f = "input_pitch_rate" THEN 1 ELSE 2] ELSE cfg[f]]
Start(cfg, name, message) ==
  IF name = "RC_TUNING" THEN PitchFollows(cfg, message) @@ cfg
  ELSE IF name = "BLACKBOX" THEN [cfg EXCEPT !["blackbox_rate"] = 0]
  ELSE cfg
Refused(command, message) == command.index \notin command.valid \/ Len(message) < command.least
Handle(cfg, name, command, message, firstUse) ==
  LET read == FoldLeft(ReadGroup, [left |-> message, cfg |-> Start(cfg, name, message)], command.set).cfg
      new == IF Refused(command, message) THEN cfg ELSE read
  IN IF command.reloads THEN Sanitize(new, firstUse) ELSE new
=============================================================================
