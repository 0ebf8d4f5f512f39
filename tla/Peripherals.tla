----------------------------- MODULE Peripherals -----------------------------
(***************************************************************************)
(* The small devices of the craft, each with its own update: the video     *)
(* transmitter, the LED, the button, the barometer, the telemetry and the  *)
(* battery monitor.  device says which of them is looked at; d is its      *)
(* state, world what it sees, and world changes MaxChanges times at most.  *)
(***************************************************************************)
EXTENDS Integers, Sequences

CONSTANTS Devices,     \* devices to look at
          MaxChanges,  \* changes of what a device sees
          Wrap,        \* micros() counts modulo Wrap
          MaxLag,      \* time between two updates at most
          TempDelay, PressDelay,      \* getDelay of the barometer
          Interval,    \* TELEMETRY_INTERVAL
          BiasSamples, \* readings the ground altitude is made of
          Debounce, SingleClick, LongClick,   \* MultiButtonConfig, in updates
          Samples,     \* battery.samples
          CellFull, CellWarning, NoBattery    \* voltages, in steps of the filter

ASSUME PeripheralsAssumption ==
    /\ MaxChanges \in Nat /\ BiasSamples \in Nat /\ Samples \in Nat
    /\ Wrap \in Nat /\ MaxLag \in 1..Wrap /\ {TempDelay, PressDelay, Interval} \subseteq 1..Wrap
    /\ LongClick \in Nat /\ Debounce \in 1..LongClick /\ SingleClick \in 0..LongClick
    /\ CellFull \in Nat \ {0} /\ CellWarning \in 1..CellFull /\ NoBattery \in Nat

VARIABLES device, d, world

periVars == <<device, d, world>>

Capped(n, most) == IF n > most THEN most ELSE n

-----------------------------------------------------------------------------
(* Vtx.  knows is _armed; power is what the transmitter was told last. *)
VtxHolds == 2
VtxBegin == [state |-> "INIT", knows |-> FALSE, power |-> "none", channel |-> FALSE]
VtxWorlds == [armed : {FALSE}, held : {VtxHolds}, hasty : {FALSE}, lowPowerDisarm : BOOLEAN, changes : {0}]

Power(w) == IF ~w.lowPowerDisarm \/ w.armed THEN "power" ELSE "lowest"

UpdateVtx(v, w) ==
    CASE v.state = "INIT" -> [v EXCEPT !.state = "SET_CHANNEL"]
      [] v.state = "SET_POWER" -> [v EXCEPT !.power = Power(w), !.state = "IDLE"]
      [] v.state = "SET_CHANNEL" -> [v EXCEPT !.channel = TRUE, !.state = "SET_POWER"]
      [] v.state = "IDLE" -> IF w.armed = v.knows THEN v
                             ELSE [v EXCEPT !.knows = ~@, !.state = "SET_POWER"]

(* Arming comes after the transmitter has got its channel, and changes at any
   time.  The mode is looked at twice: to see that it has changed, and in the
   next update for the power.  hasty says that the last change came before
   the one before it had lasted for two updates.                           *)
Vtx ==
    /\ device = "VTX"
    /\ d' = UpdateVtx(d, world)
    /\ world' = [world EXCEPT !.held = Capped(@ + 1, VtxHolds)]

VtxArming ==
    /\ device = "VTX" /\ d.channel /\ world.changes < MaxChanges
    /\ world' = [world EXCEPT !.armed = ~@, !.hasty = world.held < VtxHolds, !.held = 0, !.changes = @ + 1]
    /\ d' = d

VtxShows == d.state = "IDLE" /\ d.channel /\ (world.hasty \/ d.power = Power(world))

-----------------------------------------------------------------------------
(* StatusLed.  An entry of a pattern is a time, which is over when due. *)
Patterns == [LED_OFF |-> <<0>>, LED_ON |-> <<100, 0>>, LED_OK |-> <<100, 900, 0>>,
             LED_ERROR |-> <<100, 100, 100, 100, 100, 1500, 0>>]

setStatus(v, new, force) ==
    IF ~force /\ new = v.status THEN v
    ELSE [status |-> new, lit |-> new = "LED_ON", step |-> 1, due |-> TRUE]

LedBegin == setStatus([status |-> "LED_OFF", lit |-> FALSE, step |-> 1, due |-> TRUE], "LED_ON", TRUE)
LedWorlds == [armed : BOOLEAN, disabled : BOOLEAN, longClick : BOOLEAN, changes : {0}]

(* Actuator::updateLed; the position of home is not looked at *)
updateLed(v, w) ==
    setStatus(v, IF w.armed \/ w.longClick THEN "LED_ON"
                 ELSE IF w.disabled THEN "LED_ERROR" ELSE "LED_OK", FALSE)

UpdateStatusLed(v) ==
    IF ~v.due THEN v
    ELSE IF Patterns[v.status][v.step] = 0 THEN [v EXCEPT !.step = 1, !.due = FALSE]
    ELSE [v EXCEPT !.lit = v.step % 2 = 1, !.step = @ + 1, !.due = FALSE]

Led ==
    /\ device = "LED"
    /\ \/ d' = updateLed(d, world)
       \/ d' = UpdateStatusLed(d)
    /\ world' = world

LedTime == device = "LED" /\ d' = [d EXCEPT !.due = TRUE] /\ world' = world

LedWorldChanges ==
    /\ device = "LED" /\ world.changes < MaxChanges
    /\ world' \in [armed : BOOLEAN, disabled : BOOLEAN, longClick : BOOLEAN, changes : {world.changes + 1}]
    /\ d' = d

-----------------------------------------------------------------------------
(* MultiButton and InputButton.  for counts the updates since the last
   transition; world has how long the contact is pressed or open, and how
   many presses there were, since the button was idle, that are longer than
   Debounce: presses, or longer by more than an update: sure.              *)
ButtonBegin == [state |-> "Idle", for |-> 0, new |-> FALSE, single |-> FALSE, double |-> FALSE, long |-> FALSE]
Never == SingleClick + 1
ButtonWorlds == {[pressed |-> 0, open |-> Never, presses |-> 0, sure |-> 0]}

NextState(v, pressed) ==
    CASE v.state = "Idle" -> IF pressed THEN "Debounce" ELSE "Idle"
      [] v.state = "Debounce" ->
            IF ~pressed THEN "Idle" ELSE IF v.for >= Debounce THEN "Pressed" ELSE "Debounce"
      [] v.state = "Pressed" ->
            IF ~pressed THEN "ClickUp" ELSE IF v.for >= LongClick THEN "LongClick" ELSE "Pressed"
      [] v.state = "ClickUp" -> "ClickIdle"
      [] v.state = "ClickIdle" ->
            IF pressed THEN "DoubleClickDebounce"
            ELSE IF v.for >= SingleClick THEN "SingleClick" ELSE "ClickIdle"
      [] v.state = "SingleClick" -> "Idle"
      [] v.state = "DoubleClickDebounce" ->
            IF ~pressed THEN "ClickIdle"
            ELSE IF v.for >= Debounce THEN "DoubleClick" ELSE "DoubleClickDebounce"
      [] v.state \in {"DoubleClick", "LongClick"} -> IF ~pressed THEN "OtherUp" ELSE v.state
      [] v.state = "OtherUp" -> "Idle"

MultiButton(v, pressed) ==
    LET next == NextState(v, pressed) IN
    IF next = v.state THEN [v EXCEPT !.new = FALSE, !.for = Capped(@ + 1, LongClick)]
    ELSE [v EXCEPT !.new = TRUE, !.for = 1, !.state = next]

(* InputButton::update: each kind of click toggles a bit of the result *)
Clicked(v) ==
    [v EXCEPT !.single = IF v.new /\ v.state = "SingleClick" THEN ~@ ELSE @,
              !.double = IF v.new /\ v.state = "DoubleClick" THEN ~@ ELSE @,
              !.long = IF v.new /\ v.state = "LongClick" THEN ~@ ELSE @]

Contact(w, pressed) ==
    [pressed |-> IF pressed THEN Capped(w.pressed + 1, Debounce + LongClick + 1) ELSE 0,
     open |-> IF pressed THEN 0 ELSE Capped(w.open + 1, Never),
     presses |-> IF pressed /\ w.pressed = Debounce THEN Capped(w.presses + 1, 2) ELSE w.presses,
     sure |-> IF pressed /\ w.pressed = Debounce + 1 THEN Capped(w.sure + 1, 2) ELSE w.sure]

Button ==
    /\ device = "BUTTON"
    /\ \E pressed \in BOOLEAN :
          /\ d' = Clicked(MultiButton(d, pressed))
          /\ world' = IF d'.new /\ d'.state = "Idle"
                      THEN [Contact(world, pressed) EXCEPT !.presses = 0, !.sure = 0]
                      ELSE Contact(world, pressed)

(* A bit changes for what the user did: a single click is one press, and long
   enough over; a double click two presses; a long click is a press that is
   held (it sets the home position again and again, and records a log).    *)
ClicksAreMeant ==
    device = "BUTTON" /\ d.new =>
        /\ d.state = "SingleClick" => world.presses > 0 /\ world.sure < 2 /\ world.open >= SingleClick
        /\ d.state = "DoubleClick" => world.presses = 2
        /\ d.state = "LongClick" => world.sure = 1 /\ world.pressed >= Debounce + LongClick

-----------------------------------------------------------------------------
(* BaroSensor, and the telemetry of InputCRSF: both compare micros() with a
   time that is to come.  late is the time since the deadline, whatever the
   clock says, and conv what the conversion still takes; taken says what this
   update has read or sent: it was over, or it was taken too soon, or it was
   of the other quantity.                                                  *)
Deadline(v, delay) == [v EXCEPT !.wait = (v.now + delay) % Wrap, !.late = -delay]

(* Mutant: every conversion gets the time of a temperature. *)
Converts_TempDelay(v, mode, delay) == Deadline([v EXCEPT !.mode = mode, !.conv = delay], TempDelay)

Converts(v, mode, delay) == Deadline([v EXCEPT !.mode = mode, !.conv = delay], delay)

BaroBegin(now) ==
    [now |-> now, state |-> "INIT", mode |-> "TEMP", conv |-> TempDelay, wait |-> 0, late |-> 0,
     taken |-> "nothing", samples |-> BiasSamples]

Reads(v, mode) ==
    [v EXCEPT !.taken = IF v.mode # mode THEN "other" ELSE IF v.conv > 0 THEN "tooSoon" ELSE "inTime"]
updateAltitude(v) == [v EXCEPT !.samples = IF @ >= 0 THEN @ - 1 ELSE @]

readBaro(v) ==
    CASE v.wait > v.now -> v
      [] v.wait <= v.now /\ v.state = "INIT" ->
            [Converts(v, "TEMP", TempDelay) EXCEPT !.state = "TEMP_GET"]
      [] v.wait <= v.now /\ v.state = "TEMP_GET" ->
            [Converts(Reads(v, "TEMP"), "PRESS", PressDelay) EXCEPT !.state = "PRESS_GET"]
      [] v.wait <= v.now /\ v.state = "PRESS_GET" ->
            [Converts(updateAltitude(Reads(v, "PRESS")), "TEMP", TempDelay) EXCEPT !.state = "TEMP_GET"]

(* Time between two updates, in which the conversion goes on. *)
Passes(v, t) ==
    [v EXCEPT !.now = (@ + t) % Wrap, !.late = Capped(@ + t, MaxLag + 1), !.taken = "nothing"]
Converting(v, t) == [v EXCEPT !.conv = IF @ > t THEN @ - t ELSE 0]

Baro == device = "BARO" /\ (\E t \in 1..MaxLag : d' = readBaro(Converting(Passes(d, t), t))) /\ world' = world

TelemetryBegin(now) ==
    Deadline([now |-> now, current |-> "ATTI", wait |-> 0, late |-> 0, taken |-> "nothing"], Interval)
TelemetryWorlds == [gps : BOOLEAN, baro : BOOLEAN]

(* TelemetryCRSF::process sends the current frame *)
process(v, w) ==
    [v EXCEPT !.taken = IF v.late < 0 THEN "tooSoon" ELSE "inTime", !.current =
        CASE @ = "ATTI" -> "BAT"
          [] @ = "BAT" -> "FM"
          [] @ = "FM" -> IF w.gps THEN "GPS" ELSE IF w.baro THEN "BARO" ELSE "HB"
          [] @ = "GPS" -> IF w.baro THEN "BARO" ELSE "HB"
          [] @ = "BARO" -> "HB"
          [] @ = "HB" -> "ATTI"]

(* InputCRSF::update; a request of the configurator (applyMspReq) is answered
   at once and postpones the telemetry                                     *)
Telemetry ==
    /\ device = "TELEMETRY"
    /\ \E t \in 1..MaxLag, request \in BOOLEAN :
       \E v \in {IF request THEN Deadline(Passes(d, t), Interval) ELSE Passes(d, t)} :
          d' = IF v.now > v.wait THEN Deadline(process(v, world), Interval) ELSE v
    /\ world' = world

(* Wherever the clock wraps: a reading is of the quantity it is taken for; it
   comes before the conversion is over, and telemetry before its time, only
   if the end of the clock is no farther than the wait is long; and what is due
   comes with the next update.  Only a deadline in the last updates before
   the end of the clock may be stepped over: then all waits until the clock
   comes there again.                                                      *)
Waited == IF device = "TELEMETRY" THEN Interval ELSE IF d.state = "PRESS_GET" THEN TempDelay ELSE PressDelay
ReadingsAreTimely ==
    device \in {"BARO", "TELEMETRY"} =>
        /\ d.taken # "other"
        /\ d.taken = "tooSoon" => Wrap - d.now <= Waited
        /\ d.late <= 0 \/ d.wait >= Wrap - MaxLag

(* What a sensor or the button reports is what was measured or meant. *)
ReportsAreTrue == ReadingsAreTimely /\ ClicksAreMeant

(* The inductive invariants.  A time that is waited for is still to come; or
   lies beyond the end of the clock, and then the next update takes it for
   one that is over, unless the clock wraps first; or it was stepped over.
   waits is how long the present wait is, and a conversion ends with it.   *)
StillToCome(v) == v.late = v.now - v.wait /\ v.now <= v.wait
BeyondTheEnd(v, waits) == v.late = v.now - v.wait - Wrap /\ v.wait <= v.now /\ v.late = -waits
SteppedOver(v) == v.late > 0 /\ v.wait >= Wrap - MaxLag
Timed(v, waits) ==
    /\ v.now \in 0..Wrap - 1 /\ v.wait \in 0..Wrap - 1 /\ v.late \in Int
    /\ StillToCome(v) \/ BeyondTheEnd(v, waits) \/ SteppedOver(v)

Takings == {"nothing", "inTime", "tooSoon", "other"}
BaroTypeOK(v) ==
    v \in [now : Int, state : {"INIT", "TEMP_GET", "PRESS_GET"}, mode : {"TEMP", "PRESS"}, conv : Int,
           wait : Int, late : Int, taken : Takings, samples : Int]
TelemetryTypeOK(v) ==
    v \in [now : Int, current : {"ATTI", "BAT", "FM", "GPS", "BARO", "HB"}, wait : Int, late : Int,
           taken : Takings]

Waits(v) == IF v.state = "PRESS_GET" THEN PressDelay ELSE TempDelay
BaroInv ==
    /\ BaroTypeOK(d)
    /\ d.state = "INIT" => d.wait = 0 /\ d.late = 0 /\ d.taken = "nothing" /\ d.now \in 0..Wrap - 1
    /\ d.state # "INIT" => Timed(d, Waits(d)) /\ d.conv = IF d.late < 0 THEN -d.late ELSE 0
    /\ d.state = "TEMP_GET" => d.mode = "TEMP"
    /\ d.state = "PRESS_GET" => d.mode = "PRESS"
    /\ ReadingsAreTimely

TelemetryInv == TelemetryTypeOK(d) /\ Timed(d, Interval) /\ ReadingsAreTimely

(* The button has counted the contact since the last transition, or since the
   update before it, when a press began as the last click ended.           *)
ClickTypeOK(v) ==
    v \in [state : {"Idle", "Debounce", "Pressed", "ClickUp", "ClickIdle", "SingleClick",
                    "DoubleClickDebounce", "DoubleClick", "LongClick", "OtherUp"},
           for : 0..LongClick, new : BOOLEAN, single : BOOLEAN, double : BOOLEAN, long : BOOLEAN]
ContactTypeOK(w) ==
    w \in [pressed : 0..(Debounce + LongClick + 1), open : 0..Never, presses : 0..2, sure : 0..2]

Since == world.pressed - d.for
ButtonInv ==
    /\ ClickTypeOK(d) /\ ContactTypeOK(world)
    /\ d.state = "Idle" =>
          world.presses = 0 /\ world.sure = 0 /\ world.pressed <= 1 /\ (world.pressed = 1 => d.new)
    /\ d.state = "Debounce" =>
          /\ d.for \in 1..Debounce /\ Since \in {0, 1} /\ world.sure = 0
          /\ world.presses = IF world.pressed > Debounce THEN 1 ELSE 0
    /\ d.state = "Pressed" =>
          /\ d.for \in 1..LongClick /\ Since \in {Debounce, Debounce + 1} /\ world.presses = 1
          /\ world.sure = IF world.pressed > Debounce + 1 THEN 1 ELSE 0
    /\ d.state \in {"ClickUp", "SingleClick", "OtherUp"} => world.pressed = 0
    /\ d.state \in {"ClickUp", "ClickIdle", "DoubleClickDebounce", "SingleClick"} =>
          world.presses > 0 /\ world.sure < 2
    /\ d.state = "ClickIdle" => d.for >= 1 /\ world.pressed <= 1 /\ world.open >= d.for - 1
    /\ d.state = "DoubleClickDebounce" =>
          /\ d.for \in 1..Debounce /\ Since \in {0, 1}
          /\ world.pressed > Debounce => world.presses = 2
    /\ ClicksAreMeant

PeripheralsInv ==
    /\ device = "BARO" => BaroInv
    /\ device = "TELEMETRY" => TelemetryInv
    /\ device = "BUTTON" => ButtonInv

-----------------------------------------------------------------------------
(* VoltageSensor and BatteryState.  The filter follows the battery a step at
   a time; cells are counted while samples are left.                       *)
BatteryBegin == [state |-> "VBAT", v |-> 0, cells |-> 0, samples |-> Samples]
MostCells == 3
BatteryWorlds == [volts : 0..MostCells * CellFull, cells : 1..MostCells, changes : {0}]

Follows(v, to) == IF v < to THEN v + 1 ELSE IF v > to THEN v - 1 ELSE v

readVbat(b, volts) ==
    LET v == Follows(b.v, volts) IN
    IF b.samples > 0
    THEN [b EXCEPT !.v = v, !.cells = (v + CellFull - 1) \div CellFull, !.samples = @ - 1]
    ELSE [b EXCEPT !.v = v]

(* cellVoltage divides by constrain(cells, 1, 6) *)
Divisor(b) == IF b.cells < 1 THEN 1 ELSE IF b.cells > 6 THEN 6 ELSE b.cells

warn(b) == b.v >= NoBattery /\ b.samples = 0 /\ b.v < CellWarning * Divisor(b)

Battery ==
    /\ device = "BATTERY"
    /\ d' = IF d.state = "VBAT" THEN [readVbat(d, world.volts) EXCEPT !.state = "IBAT"]
            ELSE [d EXCEPT !.state = "VBAT"]
    /\ world' = world

(* the battery is plugged in, sags or recovers *)
BatteryChanges ==
    /\ device = "BATTERY" /\ world.changes < MaxChanges
    /\ world' \in [volts : 0..world.cells * CellFull, cells : {world.cells}, changes : {world.changes + 1}]
    /\ d' = d

(* A low battery is announced, and no other, if its cells were counted right:
   a craft that starts without its battery takes it for one cell.          *)
BatteryShows ==
    d.samples = 0 /\ d.v = world.volts /\
    (d.cells = world.cells => (warn(d) <=> world.volts \in NoBattery..CellWarning * world.cells - 1))

-----------------------------------------------------------------------------
PeripheralsInit ==
    /\ device \in Devices
    /\ CASE device = "VTX" -> d = VtxBegin /\ world \in VtxWorlds
         [] device = "LED" -> d = LedBegin /\ world \in LedWorlds
         [] device = "BUTTON" -> d = ButtonBegin /\ world \in ButtonWorlds
         [] device = "BARO" -> d \in {BaroBegin(t) : t \in 0..Wrap - 1} /\ world = "none"
         [] device = "TELEMETRY" -> d \in {TelemetryBegin(t) : t \in 0..Wrap - 1} /\ world \in TelemetryWorlds
         [] device = "BATTERY" -> d = BatteryBegin /\ world \in BatteryWorlds

PeripheralsNext ==
    /\ Vtx \/ VtxArming \/ Led \/ LedTime \/ LedWorldChanges \/ Button
       \/ Baro \/ Telemetry \/ Battery \/ BatteryChanges
    /\ device' = device

PeripheralsSpec == PeripheralsInit /\ [][PeripheralsNext]_periVars

(* The updates run again and again: the loop calls them. *)
PeripheralsFairness ==
    /\ WF_periVars(Vtx /\ device' = device)
    /\ WF_periVars(device = "LED" /\ d' = updateLed(d, world) /\ world' = world /\ device' = device)
    /\ WF_periVars(device = "LED" /\ d' = UpdateStatusLed(d) /\ world' = world /\ device' = device)
    /\ WF_periVars(LedTime /\ device' = device)
    /\ WF_periVars(Battery /\ device' = device)

(* When nothing changes any more, the devices show what is the case: the video
   transmitter has the power that goes with arming, a low battery is
   announced, and the LED is lit for good or blinks.                       *)
LedOn == world.armed \/ world.longClick
DevicesSettle ==
    /\ <>[](device = "VTX" => VtxShows)
    /\ <>[](device = "BATTERY" => BatteryShows)
    /\ <>[](device = "LED" => d.status = updateLed(d, world).status /\ (LedOn => d.lit))
    /\ []<>(device = "LED" => d.lit)
    /\ []<>(device = "LED" => LedOn \/ ~d.lit)
=============================================================================
