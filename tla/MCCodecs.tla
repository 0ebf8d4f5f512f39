------------------------------ MODULE MCCodecs ------------------------------
(* What is encoded, and what the other end makes of it: the header and the
   frames of a flight log, the bytes of the serial protocols, the signals to the motors.  part
   says which of them is looked at; the others stay as they are.

   The flight log.  The format: every group of fields left out, every group on its own, all
   that can share a tagged group, few motors, no telemetry, no D terms, no
   sensors, with values around every width that the encodings tell apart.  The
   timing, with few fields: a pause switch, positions, intervals with and
   without a remainder and I frames only, with flags that change and a line
   that loses frames. *)
EXTENDS BlackboxFrames, BlackboxHeader, SerialLinks, EscDrivers

VARIABLE part

codecVars == <<part, blackboxVars, headerVars, linkVars, escVars>>

Full == [disabled |-> {"GPS"}, motors |-> 4, telemetry |-> TRUE, zeroD |-> {2}, sensors |-> {"ACC", "MAG", "BARO"},
         vbat |-> TRUE, ibat |-> TRUE, rssi |-> TRUE, debug |-> TRUE, gps |-> FALSE, switch |-> FALSE,
         I |-> 2, P |-> 1]
Fast == [Full EXCEPT !.disabled = FieldSelect]
FormatConfigs ==
    {[Full EXCEPT !.disabled = {"GPS", g}] : g \in FieldSelect}
    \cup {[Full EXCEPT !.disabled = FieldSelect \ {g}] : g \in FieldSelect}
    \cup {[Full EXCEPT !.disabled = {"PID", "RC_COMMANDS", "GYRO"} \cup d, !.ibat = i] :
             d \in SUBSET {"BATTERY", "MAG", "ALTITUDE", "RSSI"}, i \in BOOLEAN}
    \cup {[Full EXCEPT !.motors = 1], [Full EXCEPT !.motors = 8, !.zeroD = {}],
          [Full EXCEPT !.telemetry = FALSE, !.zeroD = 0..2], [Full EXCEPT !.sensors = {}],
          [Full EXCEPT !.sensors = {}, !.rssi = FALSE, !.ibat = FALSE],
          [Full EXCEPT !.vbat = FALSE, !.debug = FALSE]}
TimingConfigs ==
    {[Fast EXCEPT !.I = 4, !.P = 2, !.switch = TRUE], [Fast EXCEPT !.I = 3, !.P = 2],
     [Fast EXCEPT !.P = 0, !.switch = TRUE],
     [Fast EXCEPT !.disabled = FieldSelect \ {"GPS"}, !.gps = TRUE, !.I = 4, !.P = 2]}
MCConfigs == FormatConfigs \cup TimingConfigs
MCSamples(c) == IF c \in TimingConfigs THEN {0} ELSE 0..2
MCFlags(c) == IF c \in TimingConfigs /\ ~c.gps THEN 0..1 ELSE {0}
MCLosses(c) == IF c \notin TimingConfigs THEN {} ELSE IF c.gps THEN {"home", "gps"} ELSE {"main", "slow"}

(* Values on both sides of the widths that the encodings tell apart. *)
Sizes == <<0, 1, -2, 2, 7, -8, 8, -9, 31, -32, 32, -33, 100, -128, 128, 300, -129, 5000, -9000>>
Wide == <<0, 40000, -40000, 9000000, -9000000, 100000000>>
Abs(x) == IF x < 0 THEN -x ELSE x
Index == [axisP |-> 1, axisI |-> 2, axisD |-> 4, axisF |-> 7, rcCommand |-> 8, setpoint |-> 11, vbatLatest |-> 3,
          amperageLatest |-> 5, magADC |-> 6, baroAlt |-> 9, rssi |-> 10, gyroADC |-> 12, gyroUnfilt |-> 13,
          accSmooth |-> 14, debug |-> 15, motor |-> 16, eRPM |-> 17]
MCReading(name, i, s) ==
    LET size == Sizes[((Index[name] + (5 * i) + (s * (i + 3))) % Len(Sizes)) + 1] IN
    CASE name \in {"rssi", "eRPM"} -> Abs(size)
      [] name = "vbatLatest" -> 4000 + s * 130
      [] name = "motor" -> 1000 + (Abs(size) % 1000)
      [] name = "rcCommand" /\ i = 3 -> 1000 + (Abs(size) % 1000)
      [] name = "axisI" /\ s = 2 -> Wide[i + 3]
      [] OTHER -> size

-----------------------------------------------------------------------------
(* The serial protocols suffer one fault, the motors get pulses around every
   limit. *)
OneFault == [u \in Units |-> 1]
SomeThrottles == {800, 988, 1000, 1001, 1003, 1070, 1234, 1375, 1499, 1501, 1999, 2000, 2001, 2200}

(* The header: loops of 8 kHz to 250 Hz, buffers of a serial port, logs at the
   beginning of a sector, within one, and where the tables end with a flush. *)
Serial(config_, loop) == [config |-> config_, device |-> "SERIAL", looptime |-> loop, buffer |-> 255, offset |-> 0]
Flash(config_, offset_) == [config |-> config_, device |-> "FLASH", looptime |-> 500, buffer |-> 128, offset |-> offset_]
MCSetups ==
    {Serial(Full, loop) : loop \in {125, 1000, 4000}}
    \cup {Serial([Full EXCEPT !.disabled = {}, !.gps = TRUE, !.P = p, !.vbat = FALSE], 1000) : p \in 1..2}
    \cup {[Serial([Fast EXCEPT !.ibat = FALSE], 500) EXCEPT !.buffer = 128]}
    \cup {Flash([Fast EXCEPT !.disabled = FieldSelect \ {"GPS", "MOTOR"}, !.gps = TRUE], o) :
             o \in {0, 3000} \cup 4032..4095}
MCSysinfo == <<[name |-> 13, value |-> 45, cond |-> "ALWAYS"], [name |-> 10, value |-> 3, cond |-> "VBAT"],
               [name |-> 15, value |-> 11, cond |-> "VBAT"], [name |-> 7, value |-> 4, cond |-> "VBAT"],
               [name |-> 13, value |-> 6, cond |-> "CURRENT"], [name |-> 36, value |-> 1, cond |-> "ALWAYS"]>>

(* A part that is not looked at. *)
HeaderOff == tables = <<>> /\ setup = [config |-> Full] /\ xmit = [state |-> "STOPPED"]
BlackboxOff ==
    /\ config = Full /\ layout = <<>> /\ paused = FALSE
    /\ iteration = 0 /\ loopIndex = 0 /\ pFrameIndex = 0 /\ iFrameIndex = 0 /\ slowTimer = 0 /\ history = <<>> /\ slowHistory = 0 /\ gpsHistory = 0
    /\ slow = 0 /\ gps = 0 /\ blackboxMode = FALSE /\ reader = [valid |-> FALSE] /\ loss = TRUE
LinkOff == LinkInit /\ unit = "PPM" /\ pos = 1
EscOff == escUnit = "REPLY" /\ conf = [code |-> 0, jitter |-> 0] /\ e = ReplyBegin

Init ==
    \/ part = "blackbox" /\ BlackboxInit /\ HeaderOff /\ LinkOff /\ EscOff
    \/ part = "header" /\ BlackboxOff /\ HeaderInit /\ LinkOff /\ EscOff
    \/ part = "line" /\ BlackboxOff /\ HeaderOff /\ LinkInit /\ EscOff
    \/ part = "motors" /\ BlackboxOff /\ HeaderOff /\ LinkOff /\ EscInit

Next ==
    /\ \/ part = "blackbox" /\ BlackboxNext /\ UNCHANGED <<headerVars, linkVars, escVars>>
       \/ part = "header" /\ HeaderNext /\ UNCHANGED <<blackboxVars, linkVars, escVars>>
       \/ part = "line" /\ LinkNext /\ UNCHANGED <<blackboxVars, headerVars, escVars>>
       \/ part = "motors" /\ EscNext /\ UNCHANGED <<blackboxVars, headerVars, linkVars>>
    /\ part' = part

Spec ==
    /\ Init /\ [][Next]_codecVars
    /\ part = "blackbox" => BlackboxFairness
    /\ part = "header" => HeaderFairness

-----------------------------------------------------------------------------
(* The header arrives in whole lines, each as the tables promise it and in
   their order, however its lines are broken off; the tables are never sent
   faster than the device was promised.  In the end all lines have been sent,
   unless the recorder waits for an empty buffer to be flushed.              *)
HeaderArrives ==
    /\ [](part = "header" =>
            LET line == Promised[IF Last(xmit.printed) = Newline THEN xmit.lines ELSE xmit.lines + 1] IN
            /\ xmit.printed # <<>> => IsPrefix(xmit.printed, line)
            /\ xmit.state \in TableStates => xmit.credit >= 0)
    /\ [][part = "header" /\ xmit.lines' # xmit.lines =>
            xmit.lines' = xmit.lines + 1 /\ xmit.printed' = Promised[xmit.lines']]_codecVars
    /\ <>(part = "header" => Stuck \/ (xmit.state = "RUNNING" /\ xmit.lines = Len(Promised)))
=============================================================================
