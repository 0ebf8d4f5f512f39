---------------------------- MODULE ModelConfig ----------------------------
(***************************************************************************)
(* The configuration of the craft: every setting with the width it is kept *)
(* in and its value after a reset, and the repairs Model::sanitize makes.  *)
(* A setting has the name the command line gives it; the ones it does not  *)
(* know have the name of the member.  Members of arrays are                *)
(* "array_index.member".  Of the arrays only the first entries are kept:   *)
(* their number is a constant.                                             *)
(***************************************************************************)
EXTENDS Integers, Sequences, FiniteSets, TLC

CONSTANTS NChannels,    \* receiver channels with settings of their own
          NOutputs,     \* motor and servo outputs
          NConditions,  \* mode switches
          NMixes,       \* rules of a custom mixer
          Ports,        \* serial ports: name -> its id and default function
          GyroRate,     \* rate of the gyro after Utils::alignToClock, in Hz
          SpiGyro       \* whether the gyro is on an SPI bus

Member(array, i, m) == array \o "_" \o ToString(i) \o "." \o m
Several(array, n, members) ==
  [f \in {Member(array, i, m) : i \in 0..(n - 1), m \in DOMAIN members} |->
     members[CHOOSE m \in DOMAIN members : \E i \in 0..(n - 1) : f = Member(array, i, m)]]

\* A setting: its width and its value after a reset.
Text(v) == [type |-> "text", value |-> v]     \* a name: the number of its words
Bool(v) == [type |-> "bool", value |-> v]
I8(v)  == [type |-> "i8",  value |-> v]
U8(v)  == [type |-> "u8",  value |-> v]
I16(v) == [type |-> "i16", value |-> v]
I32(v) == [type |-> "i32", value |-> v]

\* Value v stored in a member of type t; integers of 32 bits are signed.
Cast(t, v) ==
  IF t = "bool" THEN IF v = 0 THEN 0 ELSE 1
  ELSE IF t = "u8" THEN v % 256
  ELSE IF t = "i8" THEN ((v + 128) % 256) - 128
  ELSE IF t = "i16" THEN ((v + 32768) % 65536) - 32768
  ELSE v

PT1 == 0  BIQUAD == 1  PT3 == 3  FO == 7  NONE == 10        \* FilterType
PWM == 0  ONESHOT125 == 1  ONESHOT42 == 2  MULTISHOT == 3  BRUSHED == 4
DSHOT150 == 5  DSHOT600 == 7  PROSHOT == 8  DISABLED == 9   \* EscProtocol

GyroConfig ==
  [gyro_bus |-> I8(0), gyro_dev |-> I8(0), gyro_dlpf |-> I8(0), gyro_align |-> I8(0),
   gyro_offset_x |-> I16(0), gyro_offset_y |-> I16(0), gyro_offset_z |-> I16(0),
   gyro_lpf_type |-> I8(PT1), gyro_lpf_freq |-> I16(100), gyro_lpf2_type |-> I8(PT1), gyro_lpf2_freq |-> I16(213),
   gyro_lpf3_type |-> I8(FO), gyro_lpf3_freq |-> I16(150), gyro_notch1_freq |-> I16(0), gyro_notch1_cutoff |-> I16(0),
   gyro_notch2_freq |-> I16(0), gyro_notch2_cutoff |-> I16(0), gyro_dyn_lpf_min |-> I16(170), gyro_dyn_lpf_max |-> I16(425)]
DynamicFilterConfig ==
  [gyro_dyn_notch_count |-> U8(4), gyro_dyn_notch_q |-> I16(300), gyro_dyn_notch_min |-> I16(80), gyro_dyn_notch_max |-> I16(400)]
RpmFilterConfig ==
  [gyro_rpm_harmonics |-> U8(3), gyro_rpm_min_freq |-> U8(100), gyro_rpm_q |-> I16(500), gyro_rpm_tlm_lpf_freq |-> U8(150),
   gyro_rpm_weight_1 |-> U8(100), gyro_rpm_weight_2 |-> U8(100), gyro_rpm_weight_3 |-> U8(100), gyro_rpm_fade |-> U8(30)]
SensorConfig ==
  [accel_bus |-> I8(0), accel_dev |-> I8(0), accel_offset_x |-> I16(0), accel_offset_y |-> I16(0), accel_offset_z |-> I16(0),
   accel_trim_pitch |-> I16(0), accel_trim_roll |-> I16(0), accel_lpf_type |-> I8(BIQUAD), accel_lpf_freq |-> I16(15),
   baro_bus |-> I8(0), baro_dev |-> I8(1), baro_lpf_type |-> I8(BIQUAD), baro_lpf_freq |-> I16(3),
   mag_bus |-> I8(0), mag_dev |-> I8(1), mag_align |-> I8(0), mag_filter_type |-> I8(BIQUAD), mag_filter_lpf |-> I16(10),
   mag_offset_x |-> I16(0), mag_offset_y |-> I16(0), mag_offset_z |-> I16(0),
   mag_scale_x |-> I16(1000), mag_scale_y |-> I16(1000), mag_scale_z |-> I16(1000)]
InputConfig ==
  [ppmMode |-> I8(0), serialRxProvider |-> U8(2), minCheck |-> I16(1050), maxCheck |-> I16(1900), input_min |-> I16(885),
   input_mid |-> I16(1500), input_max |-> I16(2115), input_interpolation |-> I8(2), input_interpolation_interval |-> I8(26),
   input_deadband |-> I8(3), input_filter_type |-> I8(1), input_lpf_factor |-> I8(50), input_lpf_type |-> I8(PT3),
   input_lpf_freq |-> I16(0), input_ff_lpf_type |-> I8(PT3), input_ff_lpf_freq |-> I16(0), input_roll_expo |-> U8(0),
   input_pitch_expo |-> U8(0), input_yaw_expo |-> U8(0), input_roll_rate |-> U8(20), input_pitch_rate |-> U8(20),
   input_yaw_rate |-> U8(30), input_roll_srate |-> U8(40), input_pitch_srate |-> U8(40), input_yaw_srate |-> U8(36),
   input_roll_limit |-> I16(1998), input_pitch_limit |-> I16(1998), input_yaw_limit |-> I16(1998),
   input_rate_type |-> I8(3), input_rssi_channel |-> U8(0)]
\* Channel 2 is the yaw, channel 3 the throttle; the sticks fail to a level
\* craft without throttle.
InputChannels ==
  [f \in DOMAIN Several("input", NChannels, [map |-> 0, min |-> 0, neutral |-> 0, max |-> 0, fsMode |-> 0, fsValue |-> 0]) |->
     LET i == CHOOSE n \in 0..(NChannels - 1) : \E m \in {"map", "min", "neutral", "max", "fsMode", "fsValue"} : f = Member("input", n, m)
     IN CASE f = Member("input", i, "map") -> I8(IF i = 2 THEN 3 ELSE IF i = 3 THEN 2 ELSE i)
          [] f = Member("input", i, "min") -> I16(1000)
          [] f = Member("input", i, "neutral") -> I16(1500)
          [] f = Member("input", i, "max") -> I16(2000)
          [] f = Member("input", i, "fsMode") -> I8(IF i <= 3 THEN 0 ELSE 1)
          [] f = Member("input", i, "fsValue") -> I16(IF i = 3 THEN 1000 ELSE 1500)]
OutputConfig ==
  [output_motor_protocol |-> I8(DISABLED), output_motor_async |-> I8(0), output_dshot_telemetry |-> I8(0), output_motor_poles |-> I8(14),
   output_motor_rate |-> I16(480), output_servo_rate |-> I16(0), output_min_command |-> I16(1000), output_min_throttle |-> I16(1070),
   output_max_throttle |-> I16(2000), output_dshot_idle |-> I16(550), mixer_throttle_limit_type |-> I8(0),
   mixer_throttle_limit_percent |-> I8(100), mixer_output_limit |-> I8(100)]
   @@ Several("output", NOutputs, [min |-> I16(1000), neutral |-> I16(1500), max |-> I16(2000), reverse |-> Bool(0), servo |-> Bool(0)])
PowerConfig ==
  [failsafe_delay |-> U8(4), failsafe_kill_switch |-> U8(0), arming_small_angle |-> U8(25), vbat_cell_warn |-> I16(350),
   vbat_scale |-> U8(100), vbat_div |-> U8(10), vbat_mul |-> U8(1), vbat_source |-> I8(0), ibat_source |-> I8(0),
   ibat_scale |-> I16(100), ibat_offset |-> I16(0)]
PidConfig ==
  LET P(axis, p, i, d, f) == (axis \o "_p") :> U8(p) @@ (axis \o "_i") :> U8(i) @@ (axis \o "_d") :> U8(d) @@ (axis \o "_f") :> I16(f)
  IN P("pid_roll", 42, 85, 24, 72) @@ P("pid_pitch", 46, 90, 26, 76) @@ P("pid_yaw", 45, 90, 0, 72) @@ P("pid_alt", 0, 0, 0, 0)
     @@ P("pid_pos", 0, 0, 0, 0) @@ P("pid_posr", 0, 0, 0, 0) @@ P("pid_navr", 0, 0, 0, 0) @@ P("pid_level", 45, 0, 0, 0)
     @@ P("pid_mag", 0, 0, 0, 0) @@ P("pid_althold_vel", 80, 60, 40, 20)
ControlConfig ==
  [pid_yaw_lpf_type |-> I8(PT1), pid_yaw_lpf_freq |-> I16(90), pid_dterm_lpf_type |-> I8(PT1), pid_dterm_lpf_freq |-> I16(128),
   pid_dterm_lpf2_type |-> I8(PT1), pid_dterm_lpf2_freq |-> I16(128), pid_dterm_notch_freq |-> I16(0), pid_dterm_notch_cutoff |-> I16(0),
   pid_dterm_dyn_lpf_min |-> I16(60), pid_dterm_dyn_lpf_max |-> I16(145), pid_dterm_weight |-> I16(30), pid_iterm_limit |-> I8(30),
   pid_iterm_relax |-> I8(1), pid_iterm_relax_cutoff |-> I8(15), pid_iterm_zero |-> Bool(1), pid_level_lpf_type |-> I8(PT1),
   pid_level_lpf_freq |-> I16(90), pid_level_angle_limit |-> I8(55), pid_level_rate_limit |-> I16(300),
   pid_althold_iterm_center |-> U8(50), pid_althold_iterm_range |-> U8(50), pid_tpa_scale |-> I8(10), pid_tpa_breakpoint |-> I16(1650),
   mixer_type |-> I8(3), mixer_yaw_reverse |-> Bool(0), fusion_mode |-> I8(2), fusion_gain_p |-> U8(50), fusion_gain_i |-> U8(5)]
LinkConfig ==
  [vtx_channel |-> U8(8), vtx_band |-> U8(1), vtx_power |-> U8(0), vtx_low_power_disarm |-> U8(0), gps_min_sats |-> U8(8),
   gps_set_home_once |-> U8(1), gps_gnss_mode |-> U8(0), gps_enable_dual_band |-> U8(1), gps_enable_gps |-> U8(1),
   gps_enable_glonass |-> U8(0), gps_enable_galileo |-> U8(1), gps_enable_beidou |-> U8(0), gps_enable_qzss |-> U8(1),
   gps_enable_sbas |-> U8(1), wifi_tcp_port |-> I16(1111), blackbox_dev |-> I8(0), blackbox_rate |-> I16(32),
   fieldsMask |-> I32(65535), blackbox_mode |-> I8(0), debug_mode |-> I8(0), debug_axis |-> U8(1),
   pin_led_invert |-> U8(0), pin_led_type |-> I8(0), pin_buzzer_invert |-> I8(1), beeperMask |-> I32(0)]
Switches ==
  Several("mode", NConditions, [id |-> U8(0), ch |-> U8(4), min |-> I16(900), max |-> I16(900), logicMode |-> U8(0), linkId |-> U8(0)])
  @@ Several("scaler", 3, [dimension |-> I32(0), minScale |-> I16(20), maxScale |-> I16(400), channel |-> I8(0)])
SerialPortConfig ==
  [f \in {p \o "." \o m : p \in DOMAIN Ports, m \in {"functionMask", "baud", "blackboxBaud"}} |->
     LET p == CHOOSE q \in DOMAIN Ports : \E m \in {"functionMask", "baud", "blackboxBaud"} : f = q \o "." \o m
     IN CASE f = p \o ".functionMask" -> I32(Ports[p].function)
          [] f = p \o ".baud" -> I32(115200)
          [] f = p \o ".blackboxBaud" -> I32(0)]
Unclassified ==
  [model_name |-> Text(0), mix_outputs |-> I8(0), i2c_speed |-> I16(800), pid_sync |-> I8(8), mixer_sync |-> I8(1), featureMask |-> I32(2^3 + 2^29),
   telemetry |-> Bool(0), telemetry_interval |-> I32(1000), rescue_config_delay |-> U8(30),
   board_align_roll |-> I16(0), board_align_pitch |-> I16(0), board_align_yaw |-> I16(0)]
   @@ Several("mix", NMixes, [src |-> I8(0), dst |-> I8(0), rate |-> I16(0)])
   @@ Several("pin", NOutputs, [output |-> I8(2)])

Setting == GyroConfig @@ DynamicFilterConfig @@ RpmFilterConfig @@ SensorConfig @@ InputConfig @@ InputChannels @@ OutputConfig
           @@ PowerConfig @@ PidConfig @@ ControlConfig @@ LinkConfig @@ Switches @@ SerialPortConfig @@ Unclassified
\* ModelConfig(): the constructor leaves the mask of the beeper as it finds it.
Defaults(beeper) == [f \in DOMAIN Setting |-> IF f = "beeperMask" THEN beeper ELSE Setting[f].value]
Store(cfg, f, v) == [cfg EXCEPT ![f] = Cast(Setting[f].type, v)]

-----------------------------------------------------------------------------
Bit(mask, n) == (mask \div 2^n) % 2
Keep(mask, bits) == LET kept == {n \in bits : Bit(mask, n) = 1}
                        sum[s \in SUBSET kept] == IF s = {} THEN 0 ELSE LET n == CHOOSE m \in s : TRUE IN 2^n + sum[s \ {n}]
                    IN sum[kept]
Constrain(v, a, b) == IF v < a THEN a ELSE IF v > b THEN b ELSE v
Larger(a, b) == IF a > b THEN a ELSE b

\* What the protocol of the motors does to the settings it cannot do with.
SanitizeProtocol(c) ==
  LET p == IF c["output_motor_protocol"] > DSHOT600 /\ c["output_motor_protocol"] # DISABLED THEN DSHOT600 ELSE c["output_motor_protocol"]
  IN [c EXCEPT !["output_motor_protocol"] = p,
               !["output_motor_async"] = IF p = BRUSHED THEN 1 ELSE IF p \in DSHOT150..PROSHOT THEN 0 ELSE @]
FastestPulses(p) == CASE p = PWM -> 480 [] p = ONESHOT42 -> 4000 [] p \in {MULTISHOT, BRUSHED} -> 8000 [] OTHER -> 2000
SanitizeRate(c) ==
  LET p == c["output_motor_protocol"]
      limit == IF p = PWM THEN 500 ELSE 2000
      sync == Larger(c["pid_sync"], Cast("i8", (GyroRate + limit - 1) \div limit))
  IN IF c["output_motor_async"] # 0
     THEN [c EXCEPT !["output_motor_rate"] = Constrain(@, 50, FastestPulses(p))]
     ELSE IF p \in {PWM, ONESHOT125} /\ GyroRate \div c["pid_sync"] > limit
     THEN [c EXCEPT !["pid_sync"] = sync,
                    !["output_max_throttle"] = IF p = PWM /\ GyroRate \div sync > 480 /\ @ > 1940 THEN 1940 ELSE @]
     ELSE c
SanitizeLimits(c) ==
  [c EXCEPT !["mixer_throttle_limit_type"] = IF @ \in 0..2 THEN @ ELSE 0,
            !["mixer_throttle_limit_percent"] = IF @ \in 1..100 THEN @ ELSE 100,
            !["mixer_output_limit"] = IF @ \in 1..100 THEN @ ELSE 100,
            !["gyro_dyn_notch_count"] = IF @ > 6 THEN 6 ELSE @]
SanitizeMasks(c) ==
  LET ported == [f \in {p \o ".functionMask" : p \in DOMAIN Ports} |-> Keep(c[f], {0, 1, 2, 3, 6, 7, 11, 12})]
  IN ported @@ [c EXCEPT !["featureMask"] = Keep(@, {0, 3, 4, 6, 7, 10, 25} \cup (IF GyroRate \div c["pid_sync"] >= 1000 THEN {29} ELSE {})),
                         !["beeperMask"] = Keep(@, {0, 1, 3, 4, 7, 9, 16})]
\* firstUse: the last use of the storage found no configuration of this version.
Sanitize(c, firstUse) ==
  LET sync == IF ~SpiGyro /\ firstUse THEN 1 ELSE Larger(c["pid_sync"], 1)
  IN SanitizeMasks(SanitizeLimits(SanitizeRate(SanitizeProtocol([c EXCEPT !["pid_sync"] = sync]))))

\* The calibration lives in the state; the configuration holds what was saved.
CalibrationOf == [gyro |-> {"gyro_offset_x", "gyro_offset_y", "gyro_offset_z"},
                  accel |-> {"accel_offset_x", "accel_offset_y", "accel_offset_z"},
                  mag |-> {"mag_offset_x", "mag_offset_y", "mag_offset_z", "mag_scale_x", "mag_scale_y", "mag_scale_z"}]
CalibrationSettings == UNION {CalibrationOf[s] : s \in DOMAIN CalibrationOf}
postLoad(c) == [f \in CalibrationSettings |-> c[f]]
\* Mutant: the biases are not copied.
preSave_NotCopied(c, bias) == c
preSave(c, bias) == bias @@ c
=============================================================================
