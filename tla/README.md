# Verification of ESP-FC in TLA+

ESP-FC is flight-controller firmware for ESP8266, ESP32 and RP2040 boards
(`src/lib/Espfc`), with parts of Betaflight (`src/lib/betaflight`: the blackbox
recorder and the ESC passthrough). This directory holds TLA+ models of the parts
whose correctness depends on order, interleaving, time, lost messages or loss of
power, and of the codecs and tables whose two ends are written apart; TLC checks
them on small instances, TLAPS proves the central safety properties for all
values of the constants.

Paths below are relative to `src/lib/Espfc/src` unless they begin with `src/`.

## 1. The system

### Parts and how they interact

On ESP32 and RP2040 the firmware runs on two cores, on the other chips in one loop
(`src/src/main.cpp`).

    core 0, gyro task (Espfc::update)              core 1, PID task (updateOther)
      SensorManager: gyro, accel, mag, GPS, ...
      Input: receiver, failsafe                     event queue -> Controller (PID)
      Actuator: switches, modes, arming    ------>  Mixer: motors -> ESC drivers
      SerialManager: MSP, CLI, telemetry            Blackbox: recorder, flash
      Buzzer, LED, button                           Fusion: attitude

Everything is shared through one `ModelState` without locks; the event queue
carries "a gyro (accelerometer) reading is there" to the other core. Serial
commands run on core 0, between two rounds of the gyro task; each port gives its
bytes to a receiver parser, to MSP and the command line, to the GPS, to the video
transmitter, or, on request, to the ESC passthrough, which blocks the task until
the host ends it. Both tasks may save the configuration.

| Component | State it keeps | Operations | What makes it hard | What makes it correct |
|---|---|---|---|---|
| Receiver input (`Input.cpp`) | last good frame, filtered positions, link age, loss flags, MSP override, failsafe phase | `update` (read, failsafe, filter), `MSP_SET_RAW_RC` | silence and bad frames in any order, two stages, three sources of positions, a 32-bit clock | a silent link cuts the throttle, then disarms; only a frame ends a failsafe |
| Flight modes (`Control/Actuator.cpp`) | mode mask, switch mask, arming flags, disarm reason, air mode, rescue configuration, scalers | `update` at 50 Hz; serial commands | reads what others wrote at other rates, disarms happen behind its back, flags that hold themselves up | arming only in a safe state and after a release of the switch; reason and mode agree |
| Controller (`Control/Controller.cpp`, `Pid.cpp`) | targets, integrals, scales | outer and inner loop, `resetIterm` | modes change between the two loops; what was scaled stays scaled | integrals and throttle are those of the mode that flies |
| Motor output (`Output/Mixer.cpp`) | outputs, saturation | mixing, air mode, limits, `writeOutput` on the other core | reads modes between any two steps of core 0; clipping turns the craft | motors stop after a disarm, and otherwise do what the sticks ask |
| ESC drivers (`src/lib/EscDriver`) | slots, items, frames | write, apply, interrupt, decode answer | pulses of several motors share a timer | each motor gets the pulse it was told last |
| Control loop (`Espfc.cpp`, `Utils/Timer.cpp`) | timers, iteration counters, `_loop_next` | `update`, `updateOther` | divisors, slots, wrapping clock compared as numbers, backlog | every task gets its turn at its rate |
| Event queue (`Target/Queue*`) | ring of 64 slots | `send`, `isEmpty`, `receive` | two cores, no lock, check and use apart | FIFO, nothing lost once accepted, no slot read while written |
| Blackbox recorder (`src/lib/betaflight/src/blackbox`, `Blackbox/Blackbox.cpp`) | recorder state, timers | one step per control loop; erase command on the other core | shutdown delayed after disarm, erase and power loss anywhere | logs are complete and separate; shutdown ends |
| Blackbox data (`blackbox.c`, `blackbox_encoding.c`) | history of frames, iteration counters | main, slow, GPS and home frames | tables and writers are separate code; predictors need a common past | a reader gets the values that were logged |
| Flash file system (`Blackbox/BlackboxFlashfs.cpp`) | journal, address, write buffer; flash | write byte, flush, close, erase, init with repair | write-once cells, power loss within a flush, journal in RAM and in flash | logs in order, no cell written twice, journal not overrun |
| Calibration (`Sensor/*Sensor.cpp`, `Model.h`) | three calibration states, biases, EEPROM | start, run, save on both cores | two cores save the same model, commands restart what ends on the other core | arming waits; a stored bias is a finished one; it ends |
| GPS (`Sensor/GpsSensor.cpp`, `src/lib/Gps`) | dialogue state, timeout, counter, parsers | `update` at 50 Hz, UBX and NMEA messages | unanswered, late, damaged and unmatched acknowledgements | configured before used; the dialogue ends; positions keep coming |
| Receiver and MSP parsers (`Device/Input*.cpp`, `Rc/Crsf.cpp`, `Connect/MspParser.cpp`) | parser state, index, checksum | one byte (one edge) | lost, damaged and inserted bytes | never a frame that was not sent; in step again after a fault |
| Configuration and storage (`Model.h`, `ModelConfig.h`, `Utils/Storage.cpp`) | `ModelConfig`, EEPROM | load, save, sanitize, reload | repairs depend on each other; power loss | what is saved is what is loaded |
| MSP commands (`Connect/MspProcessor.cpp`) | | every page of settings, read and set | reply and handler are written apart; clients of any age | a page sent back changes only what was changed |
| Command line (`Connect/Cli.cpp`) | the line typed so far | `set`, `get`, `dump`, `preset`, `load`, `save`, ... | text in both directions | a dump typed in again restores |
| ESC passthrough (`src/lib/betaflight/src/io`) | selected ESC, mode | frames from the host, dialogues with two bootloaders | three parties, losses on both lines | an OK is true; the session ends |
| ESP-NOW link (`espnow-rclink`) | state of each end, peer, channel | beacon, scan, pair, transmit | losses, several parties, restarts | one master; the link comes up |
| Barometer, battery, telemetry, VTX, LED, button | a small state machine each | `update` | waits on a wrapping clock, a mode that is read twice | report what is true, show what is the case |
| Buzzer (`Connect/Buzzer.cpp`, `ModelState.h`) | stack of alarms, player | push on both cores, pop | an unguarded index | alarms end |
| Fusion, filters, FFT | floating-point state | one sample per call | numeric | numeric; not for these tools |
| Hardware detection, buses | registers | input and output | timing | not for these tools |

`PROJECT.json` lists every component with its files and whether it is modelled,
and every hazard with its line and the properties that cover it.

### What is modelled

| Module | Models | Abstracts from |
|---|---|---|
| `FlightState` | the shared part of `ModelState`, `Model::disarm`, the clock | sticks other than throttle |
| `RcInput` | `Input`: one definition per exit of `Input::failsafe` | stick filter = any value of a small set |
| `FlightModes` | `Actuator::update`, the commands that touch arming | dynamic low-pass, GPIO, GPS home, `maskPrev` |
| `FlightController` | composition on core 0; properties | |
| `CraftControl` | `FlightController` and the mixer on core 1 | mixing arithmetic, values of a motor test |
| `AttitudeControl` | `Controller` and `Pid`: which target, integral and throttle each mode uses | one axis for three, P and D terms, filters |
| `MotorMixing` | the rate curve, six mixers, air mode, limits, pulses | whole percents for floats |
| `EscDrivers` | pulses, ticks, DSHOT frames and answers of four chips | registers |
| `EventChannel` | *abstract*: bounded FIFO between the cores | |
| `AtomicQueue` | `QueueAtomic` and `Queue::send/receive`, a step per shared access | event payload |
| `Timers` | `Timer::check`, `syncTo` | |
| `SingleCore` | `Espfc::update` without `ESPFC_MULTI_CORE` | what the tasks do |
| `DualCore` | both tasks, the gyro timer interrupt, `EventChannel` between them | what the tasks do |
| `Flashfs` | flash, journal, buffer, flush, close, repair, erase | a cell stands for a 32-bit word |
| `Recorder` | `blackboxUpdate`, `Blackbox::updateArmed`, erase command, power loss, over `Flashfs` | what the bytes say |
| `BlackboxFields`, `BlackboxFrames` | encodings, tables with conditions and predictors, frames, and a reader | event frames |
| `BlackboxHeader` | the header of a log, sent in pieces under a budget of bytes per loop, over the serial and the flash device | the text of the values |
| `GpsDialogue` | `GpsSensor`, the parsers, the module | positions, satellites |
| `ModelConfig` | every setting with type and default, `Model::sanitize` | all but the first members of long arrays |
| `MspCommands` | the pages of settings as lists of fields | status, sensor and text commands |
| `CliCommands` | the parameters and their words | layout |
| `Calibration`, `ConfigSession` | calibrations, storage, and a bench session over all of these | samples (constant, but for noise at will) |
| `SerialParsers`, `SerialLinks` | SBUS, IBUS, CRSF, MSP v1/v2, MSP over CRSF, PPM on a faulty line | payloads; checksums = what they cover |
| `EscBootloaders`, `Passthrough` | the 4-way interface, BLHeli and STK500 | checksums, baud rate |
| `Peripherals`, `Buzzer` | barometer, battery, telemetry, VTX, LED, button; buzzer | what frames say |
| `RcLink` | ESP-NOW transmitters and receivers | values of channels |

`MC*` modules give TLC its tables; three of them put components that do not
interact side by side in one run (`part` says which one moves). `*Proofs` modules
hold theorems. A definition whose name has a suffix (`Stop_SwitchOnly`,
`Close_NoFlush`) is a mutant: a plausible bug, used by no specification, that shows
that a property can fail.

**State and actions.** Variables carry the names of the fields they stand for
(`phase` is `failsafe.phase`, `us` is `input.us`, `journalIdx` is
`flashfs.journalIdx`), and each is explained where it is declared. Actions carry the
names of the methods they stand for. In `FlightController` each call of
`Input::update` and `Actuator::update` is one step, since both run to completion on
one core; in `CraftControl` the mixer's read and its write are two, in
`AttitudeControl` the outer and the inner loop, in `Buzzer` each load and store of the
index. In `Recorder` a control loop is several steps, because the erase command on
the other core, and the end of power, can come between; the erase itself is three
(logs, journal, reload), in the order in which the sectors are erased. In `Passthrough`
a message and its answer are steps of their own, in `SerialLinks` every byte. History
variables (`released`, `lateWrites`, `status`, `ran`, `sinceMixer`, `sinceActuator`,
`lost`, `masters`, `reader`, `sent`, `late`, and `lateTaken` and `crossed` of `Passthrough`) record what happened for the
properties. `PROJECT.json` maps every definition to its lines.

## 2. The runs

Run one with `tlc -workers 2 -config X.cfg M.tla`. `flight` and `link` run the first core alone
(`FlightAlone`: `Spec` of `FlightController`, with the mixer's variables held still); `craft` runs both cores.

| Run | Module, configuration | Shows |
|---|---|---|
| `flight` | `MCFlight`, `Flight.cfg`, 452 thousand states | With every serial command, two throttle and two switch positions, calibrations and the rescue configuration: arming only in a safe state (`ArmsOnlyWhenSafe`), no calibration and no rescue configuration in flight (`NothingStartsInFlight`), the disarm reason tells the truth, only a frame ends a failsafe. |
| `link` | `MCFlight`, `Link.cfg`, 355 thousand | With invalid channel values, an arbitrary stick filter, (partial) MSP overrides and a failsafe switch: a silent link cuts the throttle whatever steered before, and stage 2 keeps the craft disarmed (`SilenceIsSafe`); the arm switch must be released first. |
| `craft` | `MCFlight`, `Craft.cfg`, 231 thousand | Two cores: at most one mixed value reaches the motors after a disarm; a link that falls silent for good leaves the craft disarmed and the motors stopped (liveness). |
| `queue` | `AtomicQueue`, `Queue.cfg`, 27 thousand | `QueueAtomic` implements `EventChannel`; a check by one core stays true until it acts on it (both in `QueueInv` and `ImplementsChannel`); every event arrives. |
| `single_core` | `MCSingleCore`, `SingleCore.cfg`, 635 thousand | The loop: for which rates the receiver is read for ever, and for which never. The controller (`ControlIsMeant`): integrals only grow where the mode allows and are gone after a disarm, the throttle that is handed on belongs to the mode, however modes change. The mixer (`MotorsObey`): each motor stays in its range, stops only when all do, and the axes get what the sticks ask unless a limit is met. |
| `dual_core` | `DualCore`, `DualCore.cfg`, 472 thousand | The mixer stalls, or runs in bursts, and the actuator stalls, only around a wrap of the clock (`TimersHold`); receiver and readings get their turn (`NothingStarves`). |
| `recorder` | `Recorder`, `Recorder.cfg`, 1.0 million | All recorder modes, pauses, erases, and power lost anywhere, to the end of flash and journal: logs in order and no cell written twice (`LogsAreReadable`), one recording per log, the journal is not overrun, an erase by switch comes between logs and a recovery loses data only at the end of the flash or behind a word that looks erased (`LogsAreKept`), shutdowns end. |
| `gps` | `MCGpsDialogue`, `Gps.cfg`, 365 thousand | A module of either protocol that answers late, in part, with refusals or not at all, over a line that damages answers: present only when configured, except for the settings whose acknowledgement was taken from another request; the dialogue ends; positions keep coming while no frame is damaged. |
| `codecs` | `MCCodecs`, `Codecs.cfg`, 432 thousand | What is encoded is what the other end reads: a flight log with any group of fields left out or alone, values around every width, lost frames and pauses (`ReaderAgrees`, `ReaderKeepsUp`); its header arrives in whole lines and in order, wherever the budget breaks a line off, with the tables never faster than promised (`HeaderArrives`); SBUS, IBUS, CRSF, MSP, MSP over CRSF and PPM with one fault (`LinksAreSound`); pulses, DSHOT frames and answers (`PulsesAreCommanded`). |
| `config` | `MCConfigSession`, `Config.cfg`, 42 thousand | Every setting of every MSP page changed and sent back by clients of every age (`SetTakesEffect`), every parameter dumped and typed in again (`DumpRestores`), saves, resets, power failures, restarts (`RestartKeepsSaved`), calibrations (`StoredBiasIsWhole`, `CalibrationEnds`). |
| `passthrough` | `MCPassthrough`, `Passthrough.cfg`, 133 thousand | Three requests in any order and an exit, with one loss, damage, deaf or late ESC or restart at any point: an OK is true (`OkMeansDone`), memory changes only where it was asked to (`OnlyAskedIsChanged`), the session ends. |
| `devices` | `MCDevices`, `Devices.cfg`, 55 thousand | Barometer, telemetry and button report what was measured or meant (`ReportsAreTrue`): never the other quantity; too soon only if the clock ends no later than the wait; what is due comes with the next update, but for a deadline in the last moments of the clock; VTX, LED, battery warning and buzzer come to rest at what is the case (`StateIsShown`); an ESP-NOW craft obeys one transmitter (`OneMaster`) and gets channels again and again (`LinkComesUp`). |

### Bounds

*Time.* One unit of `FlightState` is a tenth of a second. `Stage1Timeout` and
`Stage2Delay` are 1 or 2 and the clock wraps at `Stage2Delay + 2` at least, so every
age is reached: fresh, stage 1, stage 2, wrapped back to fresh. Longer timeouts
repeat these cases; the theorems hold for all of them. `TimeAssumption` says what
the code's values satisfy: stage 1 before stage 2 before the wrap.
In `DualCore` the clock wraps after 10 ticks with a gyro period of 2, a loop of 4
and an actuator interval of 5, which does not divide 10: every phase of a wrap against
every timer occurs; receiver, loop and accelerometer run with every second reading. In `Peripherals` it wraps at 32, with delays of 4, 6 and 8, and an
update may be late by `MaxLag = 3`.

*Values.* Throttle low and above the air-mode threshold; a switch off, on, and in
the range of the failsafe mode; in `link` a position beyond the valid range. In
`flight` the first frame is ignored and the rescue configuration is disabled after three,
as the code does with 5 and 100; a craft can therefore arm with the rescue
configuration pending. One aux channel.

*Control and mixer.* One axis stands for the three, since they share no state but the
mode; an integral moves by one unit in a loop, up to `ILimit = 2`: free, growing,
limited. Two throttles, one below the limit of a low stick. The mixer sees six frames,
sticks at -100, 0 and 40 percent, three throttles, two rate curves, three limits of the
throttle and two of the motors, armed, disarmed, with air mode and with motor stop:
23,328 demands, every branch of the mixing in each.

*Queue.* Three elements in four slots: empty, full and every position of the two
indexes against each other occur, wrapping included. Three is more than the two steps a
core can be behind.

*Flash.* Five cells, flushes of two, a buffer of three, a sector of four, a journal of
two items: a log can end before, at and after a sector boundary, in the middle of
a flush and at the last cell; the journal can be full before the flash and the
other way round; a second log can follow one that was repaired. Two recordings are
enough to tell one log's data from the next one's. `ScanStep` is two, so that the repair
can step over the first blank cell.

*Log.* Formats are checked with all fields but one group, with each group alone, and
with groups that share a tag in all combinations; three samples per field put values on
both sides of each width next to each other. Intervals with and without a
remainder, one lost frame at any place. The header is sent in loops of 8 kHz, 2 kHz, 1 kHz and 250 Hz, where a loop may
write 1, 3, 6 and 24 bytes, through serial buffers of 128 and 255 bytes, and to the flash at 66 offsets in a sector,
so that flushes fall everywhere and the last may find the buffer empty. Six lines of settings: short, long,
two with a condition, two that are skipped with another; more lines repeat these.

*Lines.* Four frames with one fault: the fault hits the first frame, its successor shows
what the parser makes of the rest, the others that it has found back. Frames are shortened
to a few data bytes, which keeps every state of the parsers. With more faults the same
states are entered again.

*GPS.* Two baud rates, two messages to turn off and on, two requests on their way, so that an
answer can be late for one step or belong to another request.

*Configuration.* Two channels, outputs, ports, three switches, one mixer rule; one edit and one
request per session, after a session in the terminal only on the pages that share settings with it
(`MixedPages`). An edit takes values that the coding of its field can carry, on both sides of a limit where one is set.

*Passthrough.* Two ESCs of three kinds, three cells, three requests, one fault at the
places named in `FaultAt`.

*Devices.* Two parties on one side of the radio and one on the other; two restarts; two
alarms; three changes of what a device sees.

*Counters.* `frameCount` and `uptime` saturate one above the only value they are
compared with; `rec` counts modulo `Recordings`; `age` of the recorder has three values: now,
before the timeout, after it.

`CHECK_DEADLOCK` stays on except in `config` and `passthrough`, where a session is over
after its last request.

### Fairness

- `CraftControl`: the clock ticks and the mixer runs (weak fairness). The
  receiver is polled at every gyro period, a hundred times and more in a
  tenth of a second, so also within each tenth in which the silent link is older
  than the stage 2 delay (strong fairness of `QuietCraft` there). That the mixer
  runs is an assumption of this module; section 5 says when `DualCore`
  suspends it, for at most one round of the clock.
- `AtomicQueue`: the PID task polls for ever, and a push that has begun ends. Nothing
  obliges sensors to send.
- `SingleCore`, `DualCore`: the loop, the clock and both tasks run for ever.
- `Recorder`: the control loop runs for ever (weak); the timeouts of 100 and 200 ms,
  which the model lets expire between two loops only, since a loop is far shorter, expire in the end
  although the loop interrupts again and again (strong). Power
  need not come back, and nobody is obliged to arm.
- `BlackboxFrames`: iterations go on. A frame may be lost at any of them. `BlackboxHeader`: the control loop runs for ever.
- `GpsDialogue`: `update` runs, timeouts expire, a module with power sends positions
  once it is told to. It need not answer anything.
- `ConfigSession`: the three sensor tasks run. Nobody is obliged to ask for anything.
- `Passthrough`: craft and host go on; the host sends its exit frame again until the
  session ends. ESCs owe no answer.
- `Peripherals`, `Buzzer`: each update runs, waits end. In `Buzzer` the
  player gets its turn between pushes again and again (strong), as its timer runs at 100 Hz and alarms
  come at 50 Hz at most.
- `RcLink`: both ends run; what is sent again and again is heard at last where
  it makes a difference (strong).

## 3. The proofs

Check with `tlapm M.tla`. All hold for every value of the constants under
the ASSUMEs of the modules, which TLC evaluates in every run.

**`FlightProofs`** (`FlightController`). None of the properties is inductive: that an
armed craft is not calibrating depends on arming flags, which are measured at another
step than the one that uses them. `IInv` adds to `TypeOK` and the five safety
invariants `SwitchLatched`: until the arm switch has been released, `ARM_SWITCH`
holds itself up or what will raise it at the next actuator update is still true. The
lemmas go exit by exit through `Input::failsafe` and step by step through
`Actuator::update`; the action properties follow from `IInv`. The key fact of
`ArmsOnlyWhenSafe` is that the step that arms measures all flags afresh. `NoReceiverNoArming` is proved only;
it has no run of its own.

**`AtomicQueueProofs`.** `QueueInv`: indexes in range, no slot raced for, what a core has checked
still holds, what was popped is still the oldest, and every slot between head and tail holds an event. The
proof's core are two lemmas on the ring: publishing adds one element at the end and
releasing drops the first, wrapped or not. From them `Refinement`: each step is a
`Send`, a `Receive` or a stutter of `EventChannel`.

`CraftControl` adds the other core. `CraftImplementsFlight`: every step of the craft is one of
`FlightController` or a stutter, so all the theorems above hold of the craft. `DisarmReachesMotors`
(`AtMostOneLateWrite`) rests on `LateWriteIsLast`: once a late write has been made the
mixer does not hold mixed values until the craft is armed again.

**`SingleCoreProofs`**: the receiver is starved for *all* even rates, by the parity of the counters.
`ControlIsMeantAlways`, for every limit of the integral, every range of the altitude hold and
every throttle. `ControlAssumption` asks for a limit that is not negative: the command line accepts
a negative one (Cli.cpp:604), and then `std::clamp` is called with its bounds the wrong way
round, which has no defined result. `ControlInv` carries the property over the steps of a loop: the
integral is no larger than the loops that were flown since it last had to be zero (`IntegralIsBounded`), what the outer loop
hands to the inner one belongs to the mode unless it changed in between (`SetpointIsMeant`), and the
throttle handed on without a hold is what the next hold begins with (`HoldFollowsStick`).
Two theorems are about `MotorMixing`. `TurnsFollowSticks` is the third promise of `MotorsObey` for every
rate, super rate, expo and limit: a further stick never asks for a slower turn. With an expo over
100 the bent curve (`Bent`) falls before it rises; the lemmas show that it is then not above 0 while it falls, so that
the divisor (`Room`) stays at its upper limit, and that a smaller divisor and a further stick both make
a faster turn. `MotorsHoldLimitsAlways` is the part of `MotorsObey` about single motors, for every demand that
`MixAssumption` allows: `ThrustIs`, `RangeIs` and `MixedIs` say what throttle alone makes of a motor
(air mode leaves it alone, as nothing else is asked), `PulseIs` that the pulse keeps both limits and is the
longest only for an output of 98 %. The invariant, `MixInv`, is the property and that the demand is one. What is
left to TLC is the second promise, about moments: its rounding is a sum over the motors of a frame.

**`DualCoreProofs`**: `ClockInv` relates the times that are compared with the time
since their task ran; stalls and bursts need a wrap. `TimersHoldAlways` is their conjunction.

**`RecorderProofs`** (`Flashfs`, `Recorder`), under `~EraseAnytime` (the erase command comes when the
recorder is stopped, disarmed and between loops): `IInv` says where bytes may wait (not in
a state that has no recording), that an erase has the recorder to itself, that
journal and flash agree and logs are consecutive, and that all cells from the
address on are blank unless a recovery has lost data. Each operation of the flash file system
(`WriteByteKeeps`, `FlushKeeps`, `CloseKeeps`, `LoadKeeps`) keeps the part about the
flash, with no regard to who calls it; the recorder's steps then only have to show
that they call it in a state that allows it. Theorems: types, `LogsAreReadable`
(logs in order, no cell written twice), `JournalNotOverrun`.

What the logs *hold* needs a second invariant, `LogInv`, on top of `IInv`. The
flash alone does not say it, since a byte is first in the buffer and a log gets its
end only when it is closed; `Image` is therefore the flash as it will be once
the buffer is flushed, and `LogStart` where the open log begins, or the next one will. `OpenLog`: from there
on there are only headers and frames of the present recording, headers first (`Ours`); no frame while headers
are sent (`NoFrame`), and nothing at all while no log is open (`Bare`). `EndedLogs` is the
property for what has an end, and `FullInv` says that a log whose end is the end of the flash stays shut. Closing
a log, by the recorder, at the end of the flash or by the repair after a power cut, hands `OpenLog` over to `EndedLogs`.
Theorems: `LogsHoldOneRecording` (until a recovery has lost data) and `LogsAreKeptAlways`: an erase
by switch comes between two logs and finds an empty buffer, and a recovery loses data only at the end of the flash
or behind a word that looks erased.

**`GpsProofs`** (`GpsDialogue`), for any list of baud rates, number of messages to turn off
and on, choice of constellations and number of requests on their way. `ConfiguredBeforeUse` says of a craft that uses its
GPS that all but `Strays` settings have reached the module. The dialogue does not
know that: it goes on with any acknowledgement, and the answers of the module come late, in part or to another request. The
argument is one of credit. Where the dialogue stands (`At`) tells what it has requested (`Sent`). Each request that the module has not
acted upon (`Owed`), and each answer on its way that would let the dialogue go on (`Counts`),
is one unit of `Credit`. Requesting adds a unit and the wait that goes with it, answering and losing an answer
never add one, and going on spends one; so while the dialogue goes on with its own answers there
is no more credit than the wait it is in, and what is left over in RECEIVE was spent on answers that were counted as strays
(`CreditInv`). The steps that need care are those where a timeout lets the dialogue go on without
an answer: the change of the baud rate (`AwaitsBaud`, `LateBaud`, `RateInv`: until the
next acknowledgement the module may still be at its old rate, and then none of its answers
can be read), and the request for L5 (`AwaitsL5`), which brings two answers. `DialogueInv`, `WireInv`
and `AnswerInv` say which requests and answers can be on their way in each state. All this is given up in ERROR, which is final; `SignalInv` and
`UsedInv` hold there too. `GpsTypeOK` includes that the tables of messages are read within their bounds.

**`DeviceProofs`.** `OneMasterAlways`, for any number of crafts, transmitters and channels: a craft
is bound (`Bound`) to the peer it takes in BEACON, channels are taken from the peer only,
and nothing but a restart, which also clears the history, goes back to BEACON. `ReportsAreTrueAlways`, for every clock and all delays:
`PeripheralsInv` has the true time since a deadline (`late`) beside the numbers that the code compares, and says how the two can
differ (`Timed`): the deadline is still to come and the numbers show it; or it lies beyond the end of the clock, was set just now, and the next
update takes it for over unless the clock wraps in that update; or it was in the last `MaxLag` units of the clock and was stepped over. So
an early reading shows that the rest of the clock is no longer than the wait, and a late one that its deadline was at the end of
the clock. This is what the code does at a wrap; both the property and the theorem state it (section 5).

**`PassthroughProofs`** (`Passthrough`, `EscBootloaders`), for any requests, number and kinds of ESCs, and any
number of faults on both lines. An OK is true (`OkMeansDoneAlways`) if three things are: the craft serves
what the host waits for, each message finds the ESC as the job has left it, and the answer belongs to the message.
`PassInv` has a part for each.

- *What is served.* Bytes are lost and damaged, and a block may hold what looks like a frame, so what stands in the serial
  port is not a list of frames. The craft looks for the first escape and swallows up to where the length it finds there ends
  (`LastOf`). A frame with a good checksum that none of that covers is `Live`. Only a live frame is ever served (`FirstIsLive`),
  reading makes none live that was not (`DropLive`), and behind bytes without a live frame a request,
  whole or damaged, makes at most one: one that ends where the request ends, with its checksum (`AppendLiveOnce`).
  Since a checksum is what it covers, that frame is the request (`ServedIsAsked`). `LineInv`: what is live is
  what the host waits for, there is one at most, and none while one is being served.
- *How the ESC stands.* `JobInv`: the messages a job has still to send are an end of its plan (`Rests`): address, buffer, access.
  `StepInv`: once the address has been sent the ESC stands at the block that the host means, and before a
  program or verify message its buffer holds the block; an ESC that has restarted answers nothing before it is linked
  again. An access to the kept address (0xFFFF) sends none: it rests on credit. An access that is
  answered with OK leaves the ESC at the block behind it (`ReplyInv`), the host asks for the kept address only behind an OK (`next`), and
  from the reply to the next access nothing moves it (`KeepInv`). That `KeepAddress` is odd matters here: the
  address of a page is even, so that an erase always sends its own.
- *Whose answer.* `NumberInv`: no late answer carries the number of the SimonK message to come. A BLHeli
  answer has none, hence `lateTaken` in `Trusted`.

`MemoryKeeps` goes through the messages of a job with this, and `FinalHeard` through the eleven accesses. `OnlyAskedIsChangedAlways`
is an action property: only the last message of a job stores or erases (`QuietIs`, `FinalTouches`), and `StepInv` says
where the ESC stands when it does.

*Model-checked only.* Liveness (it needs fairness and ENABLED, which the prover does
not support): `SilenceStopsMotors`, `EventsArrive`, `ReceiverIsRead`, `NothingStarves`,
`ShutdownEnds`, `DialogueServes`, `CalibrationEnds`, `SessionEnds`, `StateIsShown`,
`LinkComesUp`, `HeaderArrives`, the second half of `ReaderKeepsUp` and of `LinksAreSound`.
`ReaderAgrees`, `PulsesAreCommanded`, the moments in `MotorsObey`, `SetTakesEffect`, `LinksAreSound`,
`DumpRestores` and `RestartKeepsSaved` are about tables and codecs: they say what definitions
compute for given inputs, which is TLC's domain; what a
recursive definition computes for all inputs needs induction over data, which the
prover's backends cannot instantiate. `StoredBiasIsWhole` is in their module: its settings are entries of the same
tables, found by names that are put together from strings, which the provers do not evaluate.

## 4. Assumptions

- The cores see each other's stores in order (`std::atomic` with its default order in
  the queue). Fields of `ModelState` are words and are read and written whole.
- A calibration lasts longer than an actuator period (`CalibrationDone`).
- Sticks are whole percents and limits 1 to 100 % (`MixAssumption`): one of any other value is taken as none
  (`Mixer::limitThrust`, `limitOutput`), which is what 100 % is. A rate of zero divides by zero and is no curve.
- `GyroTaskFree`: the gyro task, which computes arming and the switch modes, is
  busy while it executes the erase command, so neither changes during it.
- `EraseAnytime = FALSE` in `recorder` and in the proofs: the configurator erases while
  disarmed and idle. Section 5 says what happens otherwise.
- The blackbox mode is read from the configuration at a start (`Blackbox::begin`).
- A flush that a power cut interrupts has written a prefix of its cells.
- A checksum finds every damage: it is modelled as what it covers. Stored
  configuration has none (`Utils/Storage.cpp`); its reads are assumed whole.
- A byte of SBUS data equal to the header (0x0F) does not stand where a parser that is out of
  step looks for one; a stream of them can keep it out of step.
- Where the command line, the configurator or the passthrough changes settings the craft is not armed. The code
  does not ask for that; section 5.
- Arming comes after the video transmitter has got its channel. It changes at any time after that; `VtxShows` excepts a change that
  comes before the one before it has lasted for two updates (`hasty`, section 5).
- A BLHeli answer carries no number. One that is late for a request of the same kind
  cannot be told from the right one; `OkMeansDone` excepts it (`lateTaken`), a mode that the host forces
  on an ESC that does not have it, and the host that is a reply ahead (`crossed`, section 5). A SimonK answer is
  not so late that the eight bits of `SeqNumber` come round to its number (`StillLate`).
- The host names the block of a read, write or verify, or asks for the address 0xFFFF behind the last one (`RequestAssumption`).
- Messages of a configurator are cut between groups of fields, as its versions are.
- RP2040's `update` with `gyro.timer.check` in place of the interrupt, and the queues
  of FreeRTOS and the Pico SDK, are not modelled.

## 5. Where the code differs from what it says, and what one should know

*Flight.* `Control/Actuator.cpp:157`: "activate airmode in the air" (:209), but with air mode on a
switch of its own the mode outlives a disarm and is active at the next arming with
the throttle down. `:268`: "if some rc frames are received, disable to prevent activate
later" (:263), but the second `if` overrides the first when a failsafe begins in the
same actuator period. `Input.cpp:214` calls stage 1 a timeout of 100 ms, the code waits 200.

*Schedule.* `Espfc.cpp:116`: "skip mixer and bb if earlier than half cycle" (:114), but when
`_loop_next` falls in the last half cycle before `micros()` wraps, each loop skips the
mixer until the clock has come round. Even rates starve the receiver on a single core
(`EvenRatesStarveReceiver`). Barometer and telemetry compare times as numbers (`BaroSensor.cpp:54`, `InputCRSF.cpp:38`): a wait that
ends beyond the wrap is over with the next update, so that a reading comes before its conversion is done, and one that ends in the last moments
before the wrap may last for a round of the clock. `ReadingsAreTimely` says that nothing else goes wrong.

*Control.* The `switch` in `Control/Rates.cpp:27-33` has no `break`: whatever rates type is
configured, the QUICK curve is used (and `rcRate` 0 divides by zero). `Controller.cpp:133`
sets the feed-forward scale to zero in ANGLE mode and nothing sets it back but
a scaler. A change of ALTHOLD between the outer and the inner loop hands a climb rate over as
a throttle, for one loop. A hold that begins outside the integral's limits jumps to the limit. The PID of the
throttle is never told of saturation; clipping by `motorLimit` counts as none. With air mode a demand that is not even
(a tricopter, several axes at once) is still clipped, `Output/Mixer.cpp:151-172`. The motor order in
the comment on OctoX8 contradicts the signs of its table.

*Recorder.* `Blackbox/BlackboxFlashfs.cpp:137`: "wait until all possible entries have been
written" (blackbox.c:1940), but with nothing left to write the flush never reports
success, and the flight is not recorded. `Connect/MspProcessor.cpp:479` against
blackbox_io.c:377 ("Stop the recorder as if ... leave a corrupted first log"): armed, the
recorder starts again during the erase command, with bytes of the old recording in the
buffer. "every 128 I-frames ... GPS home position" (blackbox.c:1759-1765), but
:1770 waits for `blackboxPFrameIndex` to reach half the I interval, which it only does when the P
interval is longer than that: a lost home frame is otherwise not repeated. The header's P ratio divides by `blackboxPInterval`, which may be 0; an I frame writes `motor[0]` even with no motors;
the GPS altitude is declared unsigned. `blackbox_encoding.c:65`: "blackboxHeaderBudget is decreased to account for the
number of bytes written", but :85 leaves out the name of the setting and one more byte: in a loop of 1 kHz a short line goes
out nearly every time, many times the 6000 B/s that `blackbox_io.c:312` says must not be exceeded; `HeaderArrives` therefore bounds
the rate of the tables only. The `constrain` at :335 grants a byte to any loop, which is 8000 B/s at 8 kHz. The
free space that the budget is measured by is that of a buffer emptied in each loop, not of the UART behind it.

*GPS.* `UbxParser` keeps `written` after a failed checksum (GpsParser.hpp:44-51). ACK, NAK and VALGET
are not matched with the request (`Sensor/GpsSensor.cpp:173`). The handler of VALGET (:651) adds to a pointer of the wrong type,
so L5 is never found, against the comment at :406. ERROR is final.

*Configuration.* With a gyro on I2C the first use forces `pid_sync` 1 until a save. With
synchronous PWM and a loop of 500 Hz the throttle is not limited (Model.h:364-372).
`MSP_SET_CF_SERIAL_CONFIG` (603-622) lacks the test of `MSP2_COMMON_SET_SERIAL_CONFIG`
and sets nothing. SET_VTX ignores band and channel. Filter frequencies beyond 255 are cut to eight bits.
`preset modes` gives its third range in steps (Cli.cpp:1132-1137); `cal reset_all` resets the accelerometer only
(1061-1076); CTRL-D leaves the command line and leaves arming forbidden; a dump prints calibrations
that do not come back. `load` or `cal reset_accel` between the last sample and the end of a
calibration leaves a vertical bias of about minus one g. A calibration asked of a missing magnetometer never ends.
One of the gyro that is asked for while the last one ends on the other core is overwritten by that end (`GyroSensor.cpp:310`).
All settings are accepted while armed.

*Lines.* A complete MSP reply, sent to the craft, leaves the port's parser in RECEIVED, and
nothing resets it (`SerialManager.cpp:186-215`): the port is deaf to MSP and to the
command line from then on. One `_active` serves the command lines of all ports; a `$` typed there is
swallowed; bytes of a damaged message go to it, and a `#` among them opens it, which forbids
arming; a line is executed even when it is not open (Cli.cpp:836). Behind a lost chunk of
MSP over CRSF, or a first chunk of an unknown version, the rest of the message executes the command whose header came last, without data (`Crsf.cpp:189-212`;
`LinksAreSound` excepts it: `Hidden`), but never one made of pieces of two messages; answers of more than four chunks are cut.

*Passthrough.* A write to an ESC whose mode is unknown answers OK and writes nothing (serial_4way.c:762-795).
Replies repeat command and address and carry no number (:884-892): when
a byte of a frame was lost and its block holds a copy of its header, the craft complains of it twice, and a host that has asked
again for the same address takes the second complaint for the answer to a frame that the craft has yet to serve. From then on it is a
reply ahead, and an OK may be that of the request before. `crossed` marks this; `OkMeansDone` without it is violated by
a write whose block holds such a header, two more writes to the same address and one lost length byte. `ReadByte` waits for ever (:391). An address on a page is shifted in eight bits. It is accepted while
armed. The blackbox's serial device is replaced.

*Devices.* Arm, disarm and arm again within two updates leave the video transmitter at low power.
A battery that is plugged in after the start is counted as one cell, and never warned of. Its
filters are set for 100 Hz and called at 50. A long click that sets the GPS home sets it again
and again; a bounce in the middle of a press makes a double click. A craft whose transmitter
restarts after pairing never beacons again until it restarts itself; of two crafts that beacon at once
the first may be left.

*ESC drivers.* On the ESP32-C3 a wait of 150 to 240 ticks never arms the timer again
(EscDriverEsp32c3.cpp:38, 217) in asynchronous or brushed mode. Asynchronous output may mix commands of two rounds. On the ESP32
a duration of more than 15 bits is cut: PWM below 51 Hz, ONESHOT125 below 305, BRUSHED below 153, ONESHOT42 below 610, MULTISHOT below 1220, though
`Model.h:339-360` allows 50. An ESC that stops answering keeps its last telemetry, and no error is counted.

## 6. Not modelled

Floating-point estimation of attitude, filters, FFT and the altitude estimator: neither tool
computes with floats. Register access of sensors and flash, detection of hardware, buses, opening of serial ports, the wireless
access point: input and output without a decision worth a model. The queues of FreeRTOS and the Pico SDK and the
third-party libraries: their code is not here or not theirs to check. MSP commands that only report, commands of the
command line that print status or test the flash, the dynamic low-pass, pins that follow a mode. Of the
recorder the SD card device and the text of the header's values. Compile-time
tables: board targets, the simulated ESC in `serial_4way_avrootloader.c`, protocol constants.
A CRSF frame of type MSP is taken to hold the header of its message: in a shorter one the difference in `Crsf.cpp:118` wraps and
bytes behind the frame are taken for data. Two hazards have no property: a receiver that repeats lost frames (`Input.cpp:113`), which the code accepts by
design, and the flash test of the command line (`Cli.cpp:1430`). Channels and the queue of the ESP-NOW receiver are read
on one core while they are written in a callback on the other, without a lock; `RcLink` takes
a message as one step.

## 7. Plan

1. Proofs: the part of `StoredBiasIsWhole` that is in `Calibration`.
2. `BlackboxHeader` composed with `Recorder`, so that power may be lost and the recorder stopped within a header; the UART
   behind the serial buffer, and what it drops.
3. The RP2040 loop.
4. The flash test of the command line as an action of `Recorder`.
