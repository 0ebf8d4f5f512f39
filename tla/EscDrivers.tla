----------------------------- MODULE EscDrivers -----------------------------
(***************************************************************************)
(* The drivers of the motor outputs.  unit says what is looked at: the     *)
(* pulses a timer interrupt makes (TIMER: timer 1 of the ESP8266, and the ESP32-C3), the length   *)
(* of a pulse in ticks of each chip (TICKS), the DSHOT frame of each chip  *)
(* (FRAME), or the answers of bidirectional DSHOT (REPLY: ESP32).  conf is *)
(* fixed, e the state.                                                     *)
(***************************************************************************)
EXTENDS Integers, Sequences, SequencesExt, Bitwise

CONSTANTS EscUnits,
          Motors,       \* channels of the timer, 1..n
          PulseInterval,     \* _interval of the timer
          Commands,     \* lengths of pulses, in ticks of the timer
          Throttles,    \* pulses in us
          Rates,        \* output.rate
          Codes,        \* answers of the ESC, before the checksum
          Jitter        \* error of the length of an edge, in ticks of the RMT

ASSUME EscAssumption ==
    /\ Motors = 1..Len([m \in Motors |-> m]) /\ PulseInterval \in Nat
    /\ Commands \subseteq 0..PulseInterval - 1 /\ Throttles \subseteq Nat
    /\ Rates \subseteq 50..8000 /\ Codes \subseteq 0..4095 /\ Jitter \in Nat

VARIABLES escUnit, conf, e

escVars == <<escUnit, conf, e>>

-----------------------------------------------------------------------------
(* TIMER.  _isr_wait yields when more than edge ticks are left, delays when
   more than 20, and goes on at once otherwise.                            *)
Chips == [ESP8266 |-> [edge |-> 140, min |-> 150], ESP32C3 |-> [edge |-> 239, min |-> 150]]
StartTicks == 120
NoDelay == 20
IsLow == -1
Off == -1

intervalMin == PulseInterval \div 500
intervalMax == PulseInterval - intervalMin

Item == [set |-> {}, clr |-> {}, ticks |-> 0, last |-> FALSE]
DeltaTicksMin == 5

(* the slots, sorted by their pulse *)
Sorted(slots) == SetToSortSeq(DOMAIN slots, LAMBDA a, b : slots[a] < slots[b] \/ (slots[a] = slots[b] /\ a < b))

Sets(slots) == {m \in DOMAIN slots : ~(conf.brushed /\ slots[m] <= intervalMin)}
Clears(slots, m) == IF conf.brushed /\ slots[m] >= intervalMax THEN {} ELSE {m}

(* pulses that are DeltaTicksMin apart or less end together *)
Endings(slots) ==
    LET order == Sorted(slots)
        Clear(items, m) == [items EXCEPT ![Len(items)].clr = @ \cup Clears(slots, m)]
        Step(items, i) ==
            LET cleared == Clear(items, order[i])
                delta == slots[order[i + 1]] - slots[order[i]]
            IN IF delta > DeltaTicksMin
               THEN Append([cleared EXCEPT ![Len(items)].ticks = delta], Item)
               ELSE cleared
        all == FoldLeft(Step, <<Item>>, [i \in 1..Len(order) - 1 |-> i])
    IN Clear(all, Last(order))

commit(slots) ==
    LET order == Sorted(slots)
        longest == slots[Last(order)]
        rest == IF ~conf.async THEN 0
                ELSE IF PulseInterval > longest + Chips[conf.chip].min THEN PulseInterval - longest
                ELSE Chips[conf.chip].min
        ends == Endings(slots)
    IN <<[Item EXCEPT !.set = Sets(slots), !.ticks = slots[Head(order)]]>>
       \o [ends EXCEPT ![Len(ends)].last = TRUE, ![Len(ends)].ticks = rest]

(* ticks pass: the pins that are high stay so *)
After(t, ticks) ==
    [t EXCEPT !.high = [m \in Motors |-> IF @[m] = IsLow THEN IsLow ELSE @[m] + ticks], !.took = @ + ticks]

Outputs(t, item) ==
    [t EXCEPT !.width = [m \in Motors |-> IF m \in item.clr /\ t.high[m] # IsLow THEN t.high[m] ELSE @[m]],
              !.high = [m \in Motors |-> IF m \in item.set THEN 0 ELSE IF m \in item.clr THEN IsLow ELSE @[m]]]

_isr_wait(t, ticks) ==
    IF ticks > Chips[conf.chip].edge THEN [t EXCEPT !.armed = ticks, !.yields = TRUE]
    ELSE IF ticks > NoDelay THEN After(t, ticks) ELSE t

Begins(t) ==
    IF t.it # 0 THEN t
    ELSE [t EXCEPT !.busy = TRUE, !.items = commit(t.slots), !.it = 1, !.cmd = t.slots, !.wrote = FALSE,
                   !.width = [m \in Motors |-> IsLow], !.took = 0]

Handles(t, i) ==
    IF t.yields \/ t.it # i THEN t
    ELSE LET item == t.items[i]
             out == Outputs(t, item)
         IN IF item.last
            THEN LET idle == [out EXCEPT !.it = 0, !.busy = FALSE]
                 IN IF item.ticks # 0 THEN [_isr_wait(idle, item.ticks) EXCEPT !.yields = TRUE] ELSE idle
            ELSE _isr_wait([out EXCEPT !.it = i + 1], item.ticks)

handle ==
    /\ escUnit = "TIMER" /\ e.armed # Off
    /\ \E t \in {Begins([After(e, e.armed) EXCEPT !.armed = Off])} :
          e' = [FoldLeft(Handles, t, [i \in DOMAIN t.items |-> i]) EXCEPT !.yields = FALSE]

(* the mixer writes; two changes of a pulse between two sequences are like one *)
Write(m, pulse) ==
    /\ escUnit = "TIMER" /\ ~e.ended /\ (e.wrote => pulse = e.slots[m])
    /\ e' = [e EXCEPT !.slots[m] = pulse, !.wrote = TRUE]

(* Mutant: a sequence that is under way is not waited for. *)
apply_Busy ==
    /\ escUnit = "TIMER" /\ ~conf.async /\ ~e.ended
    /\ e' = [e EXCEPT !.armed = StartTicks]

apply ==
    /\ escUnit = "TIMER" /\ ~conf.async /\ ~e.busy /\ ~e.ended
    /\ e' = [e EXCEPT !.armed = StartTicks]

TimerConfs ==
    {c \in [chip : DOMAIN Chips, async : BOOLEAN, brushed : BOOLEAN] : c.brushed => c.async}
CommandsOf(c) == {p \in Commands : c.brushed \/ p > NoDelay}
TimerBegin(c) ==
    {[slots |-> s, cmd |-> s, wrote |-> FALSE, items |-> <<>>, it |-> 0, busy |-> FALSE, yields |-> FALSE,
      armed |-> IF c.async THEN StartTicks ELSE Off, ended |-> FALSE,
      high |-> [m \in Motors |-> IsLow], width |-> [m \in Motors |-> IsLow], took |-> 0]
     : s \in {[m \in Motors |-> p] : p \in CommandsOf(c)}}

(* the pins are low and the driver is disabled: nothing else matters any more *)
end ==
    /\ escUnit = "TIMER"
    /\ e' = [CHOOSE t \in TimerBegin(conf) : TRUE EXCEPT !.ended = TRUE, !.armed = Off]

(* When a sequence is over each motor got the pulse it was given when the
   sequence began, whatever was written since, less what is not waited for;
   a brushed motor is on all the time when it is given (nearly) all of the
   interval and off when it is given nothing.  An asynchronous driver goes on,
   and keeps the interval; except on the ESP32-C3, where no interrupt comes
   any more when less than edge is left of the interval.                   *)
Slack == NoDelay * Len([m \in Motors |-> m])
LeftOver == PulseInterval - e.cmd[Last(Sorted(e.cmd))]
TimerIsRight ==
    e.it = 0 /\ e.items # <<>> /\ ~e.ended =>
        /\ \A m \in Motors :
              IF m \notin Sets(e.cmd) THEN e.high[m] = IsLow
              ELSE IF Clears(e.cmd, m) = {} THEN e.high[m] # IsLow /\ e.width[m] = IsLow
              ELSE e.high[m] = IsLow /\ e.width[m] \in e.cmd[m] - Slack..e.cmd[m]
        /\ conf.async => \/ e.armed # Off
                         \/ conf.chip = "ESP32C3" /\ LeftOver <= Chips.ESP32C3.edge
        /\ conf.async /\ e.armed # Off => e.took + e.armed \in PulseInterval - Slack..PulseInterval + Chips[conf.chip].min

-----------------------------------------------------------------------------
(* TICKS.  The protocols give the length of a pulse of 1000 us and of 2000 us
   in us; ticks are counted per 1000 us.                                   *)
Protocols == [PWM |-> <<1000, 2000>>, ONESHOT125 |-> <<125, 250>>, ONESHOT42 |-> <<42, 84>>,
              MULTISHOT |-> <<5, 25>>]
Names == DOMAIN Protocols \cup {"BRUSHED"}
Between(x, least, most) == IF x < least THEN least ELSE IF x > most THEN most ELSE x
MapTo(x, a, b) == IF x < 1000 THEN a - ((1000 - x) * (b - a)) \div 1000
                  ELSE a + ((x - 1000) * (b - a)) \div 1000

Divider == [PWM |-> 24, ONESHOT125 |-> 4, ONESHOT42 |-> 2, MULTISHOT |-> 1, BRUSHED |-> 8]
nsToTicks(ns, div) == ((2 * ns + ((div * 25) \div 2)) \div div) \div 25

(* usToTicksReal of the chips; an RP2040 of 133 MHz divides by 44 *)
Real(driver, us) ==
    CASE driver = "ESP8266" -> 80 * us
      [] driver = "ESP32C3" -> 40 * us
      [] driver = "RP2040" -> 3 * us + (22727 * us) \div 1000000

TicksOf(c, us) == IF c.driver = "ESP32" THEN nsToTicks(us * 1000, Divider[c.protocol]) ELSE Real(c.driver, us)
IntervalOf(c) == TicksOf(c, 1000000 \div c.rate)

(* usToTicks, and writeAnalogCommand with getPulseMin and getPulseMax *)
Limits(c) ==
    IF c.protocol = "BRUSHED" THEN <<1000, 2000>>
    ELSE IF c.driver = "ESP32" \/ (c.driver = "RP2040" /\ c.protocol = "PWM") THEN <<800, 2200>>
    ELSE <<0, 10000>>

usToTicks(c, us) ==
    LET pulse == Between(us, Limits(c)[1], Limits(c)[2]) IN
    IF c.protocol = "BRUSHED" THEN MapTo(pulse, 0, IntervalOf(c))
    ELSE IF c.protocol = "PWM" /\ c.driver # "ESP32" THEN TicksOf(c, pulse)
    ELSE MapTo(pulse, TicksOf(c, Protocols[c.protocol][1]), TicksOf(c, Protocols[c.protocol][2]))

(* EscDriverEsp32::Slot::setDuration: two halves of 15 bits *)
Items(duration) ==
    LET half == duration \div 2 IN
    IF duration < 2 THEN 0 ELSE (half % 32768) + ((duration - half) % 32768)

DriverChips == {"ESP8266", "ESP32C3", "RP2040", "ESP32"}
TickConfs == [driver : DriverChips, protocol : Names, rate : Rates, async : BOOLEAN]

Transmits(us) ==
    /\ escUnit = "TICKS"
    /\ LET duration == usToTicks(conf, us) IN
       e' = [us |-> us,
             high |-> IF conf.driver = "ESP32" THEN Items(duration) ELSE duration,
             low |-> IF conf.driver = "ESP32" /\ conf.async THEN Items(IntervalOf(conf) - duration)
                     ELSE IntervalOf(conf) - duration]

(* Within a rate that can be expressed, a longer command makes no shorter
   pulse, the pulse has the length of the protocol up to two ticks, and pulse
   and space make an interval.                                             *)
TickBits == IF conf.driver = "ESP32" THEN 65534 ELSE 16777215
InUs == IF conf.protocol = "BRUSHED" THEN <<0, 1000000 \div conf.rate>> ELSE Protocols[conf.protocol]
Exact(us) == TicksOf(conf, InUs[1]) + ((TicksOf(conf, InUs[2]) - TicksOf(conf, InUs[1])) * (us - 1000)) \div 1000
TicksAreRight ==
    IntervalOf(conf) <= TickBits /\ e.us \in 1000..2000 =>
        /\ e.high \in Exact(e.us) - 2..Exact(e.us) + 2
        /\ e.high + e.low \in IntervalOf(conf) - 2..IntervalOf(conf) + 2 \/ e.high > IntervalOf(conf)

-----------------------------------------------------------------------------
(* FRAME. *)
dshotConvert(pulse) == IF pulse > 1000 THEN (pulse - 1000) * 2 + 47 ELSE 0

Checksum4(value) == ((value ^^ (value \div 16)) ^^ (value \div 256)) % 16
dshotEncode(value, inverted) ==
    LET csum == Checksum4(2 * value) IN
    (2 * value) * 16 + (IF inverted THEN 15 - csum ELSE csum)

FrameBits == 16
Bit(frame, i) == (frame \div 2^(FrameBits - i)) % 2

FrameOf(c, us) ==
    dshotEncode(dshotConvert(Between(IF c.driver = "RP2040" THEN Between(us, 1000, 2000) ELSE us, 0, 2000)),
                c.inverted)

(* ESP8266 and ESP32-C3 set all pins and clear those of a zero first. *)
MaskLines(frames) ==
    LET cmask == [i \in 1..FrameBits |-> {m \in DOMAIN frames : Bit(frames[m], i) = 0}]
    IN [m \in DOMAIN frames |-> [i \in 1..FrameBits |-> IF m \in cmask[i] THEN "short" ELSE "long"]]

(* RP2040: pins n and n + 1 are the channels of a slice; the first that is
   attached drives it, and the words of the buffer are made of both.       *)
SliceOf(pin) == (pin \div 2) % 8
ChannelOf(pin) == pin % 2
Attach(slots, m) ==
    [slots EXCEPT ![m].active = TRUE,
                  ![m].drive = @ \/ ~\E o \in DOMAIN slots : slots[o].active /\ slots[o].drive
                                                          /\ SliceOf(slots[o].pin) = SliceOf(slots[m].pin)]
Attached(pins) ==
    FoldLeft(Attach, [m \in DOMAIN pins |-> [pin |-> pins[m], active |-> FALSE, drive |-> FALSE]],
             [m \in DOMAIN pins |-> m])
DmaLines(slots, frames) ==
    LET Word(m, i) == IF Bit(frames[m], i) = 1 THEN "long" ELSE "short"
        Fills(o, m) == SliceOf(slots[o].pin) = SliceOf(slots[m].pin) /\ ChannelOf(slots[o].pin) = ChannelOf(slots[m].pin)
    IN [m \in DOMAIN frames |->
          IF \E o \in DOMAIN slots : slots[o].drive /\ SliceOf(slots[o].pin) = SliceOf(slots[m].pin)
          THEN [i \in 1..FrameBits |->
                  IF \E o \in DOMAIN frames : Fills(o, m) /\ Word(o, i) = "long" THEN "long" ELSE "short"]
          ELSE <<>>]

(* ESP32: an item for each bit; getDshotPulse *)
ItemLines(frames, tickNs) ==
    [m \in DOMAIN frames |-> [i \in 1..FrameBits |->
        LET ns == tickNs * (IF Bit(frames[m], i) = 1 THEN 1170 ELSE 584)
        IN IF 2 * nsToTicks(ns, 1) > nsToTicks(tickNs * 1670, 1) THEN "long" ELSE "short"]]

FrameConfs ==
    [driver : {"ESP8266", "RP2040"}, pins : {<<2, 3, 4>>, <<3, 2, 20>>, <<5, 10, 4>>}, inverted : {FALSE}, bit : {1}]
    \cup [driver : {"ESP32"}, pins : {<<1, 2, 3>>}, inverted : BOOLEAN, bit : {1, 2, 4}]

SendsFrames(pulses) ==
    /\ escUnit = "FRAME"
    /\ LET frames == [m \in DOMAIN pulses |-> FrameOf(conf, pulses[m])] IN
       e' = [pulses |-> pulses,
             lines |-> CASE conf.driver = "ESP8266" -> MaskLines(frames)
                         [] conf.driver = "RP2040" -> DmaLines(Attached(conf.pins), frames)
                         [] conf.driver = "ESP32" -> ItemLines(frames, conf.bit)]

(* What the ESC of a motor takes it for: a frame with a wrong checksum is
   none, 1..47 is a command (to turn the other way, to save its settings). *)
ThrottleOf(line) ==
    LET frame == FoldLeft(LAMBDA n, bit : 2 * n + (IF bit = "long" THEN 1 ELSE 0), 0, line)
        csum == Checksum4(frame \div 16)
    IN IF line = <<>> \/ frame % 16 # (IF conf.inverted THEN 15 - csum ELSE csum) THEN IsLow ELSE frame \div 32

(* A motor stops when it is told 1000 or less, and else gets its throttle. *)
FramesAreRight ==
    \A m \in DOMAIN e.lines :
        LET throttle == ThrottleOf(e.lines[m]) IN
        IF e.pulses[m] <= 1000 THEN throttle = 0
        ELSE throttle \in 48..2047 /\ throttle = 2 * (Between(e.pulses[m], 0, 2000) - 1000) + 47

-----------------------------------------------------------------------------
(* REPLY.  The ESC answers a frame with 16 bits in GCR: a code of the period,
   or (extended telemetry) of something else, and its checksum; a transition
   of the line is a one.                                                   *)
GcrSymbols == <<25, 27, 18, 19, 29, 21, 22, 23, 26, 9, 10, 11, 30, 13, 14, 15>>
Invalid == 65535

CodeNibbles(code) ==
    <<(code \div 256) % 16, (code \div 16) % 16, code % 16, 15 - Checksum4(code)>>
Transitions(code) ==
    FlattenSeq([i \in 1..4 |-> LET s == GcrSymbols[CodeNibbles(code)[i] + 1] IN [b \in 1..5 |-> (s \div 2^(5 - b)) % 2]])
Levels(code) == FoldLeft(LAMBDA line, t : Append(line, (Last(line) + t) % 2), <<0>>, Transitions(code))

BitLen == 53   \* dshot_tlm_bit_len of DSHOT600
(* The RMT records the levels and their durations; idle is high. *)
Runs(levels, jitter) ==
    LET Run(rs, l) == IF rs # <<>> /\ Last(rs).level = l
                      THEN [rs EXCEPT ![Len(rs)].duration = @ + BitLen]
                      ELSE Append(rs, [level |-> l, duration |-> BitLen])
        runs == FoldLeft(Run, <<>>, levels)
        seen == [i \in DOMAIN runs |-> [runs[i] EXCEPT !.duration = @ + (IF i % 2 = 1 THEN jitter ELSE -jitter)]]
    IN IF Last(seen).level = 1 THEN [seen EXCEPT ![Len(seen)].duration = 0] ELSE seen

durationToBitLen(duration) == (duration + BitLen \div 2) \div BitLen
extractTelemetryGcr(runs) ==
    LET upTo == SelectInSeq(runs, LAMBDA r : r.duration = 0)
        used == IF upTo = 0 THEN runs ELSE SubSeq(runs, 1, upTo - 1)
        bits == FoldLeft(LAMBDA bs, r : bs \o [i \in 1..durationToBitLen(r.duration) |-> r.level], <<>>, used)
    IN bits \o [i \in 1..(IF Len(bits) < 21 THEN 21 - Len(bits) ELSE 0) |-> 1]

gcrToRawValue(bits) ==
    LET last == SubSeq(bits, Len(bits) - 20, Len(bits))
        symbol(i) == FoldLeft(LAMBDA n, b : 2 * n + b, 0,
                              [b \in 1..5 |-> (last[5 * i + b - 4] + last[5 * i + b - 5]) % 2])
        nibble(i) == SelectInSeq(GcrSymbols, LAMBDA s : s = symbol(i)) - 1
        ns == <<nibble(1), nibble(2), nibble(3), nibble(4)>>
    IN IF \E i \in 1..4 : ns[i] < 0 THEN Invalid
       ELSE IF ((ns[1] ^^ ns[2]) ^^ (ns[3] ^^ ns[4])) # 15 THEN Invalid
       ELSE ns[1] * 256 + ns[2] * 16 + ns[3]

Extended(code) == (code \div 256) % 2 = 0 /\ code \div 512 > 0
convertToValue(code) == IF code = 4095 THEN 0 ELSE (code % 512) * 2^(code \div 512)
convertToErpm(value) == IF value = 0 THEN 0 ELSE (600000 + value \div 2) \div value

(* Mixer::readTelemetry; what is no speed leaves the speed as it is *)
readTelemetry(r) ==
    LET code == gcrToRawValue(r.value) IN
    IF code = Invalid THEN [r EXCEPT !.errors = 1]
    ELSE IF Extended(code) THEN r
    ELSE [r EXCEPT !.erpm = convertToErpm(convertToValue(code))]

(* EscDriverEsp32::readTelemetry takes one record of the ring buffer *)
TakesRecord(r) ==
    IF r.ring = <<>> THEN r ELSE [r EXCEPT !.value = extractTelemetryGcr(Head(r.ring)), !.ring = Tail(@)]

(* Mixer::update: readTelemetry, and apply with transmitAll, which begins with
   modeTx and so cuts an answer that is not over.  A frame is shorter than
   the loop: it has been sent.                                             *)
MixerUpdate ==
    /\ escUnit = "REPLY" /\ e.mode # "tx"
    /\ e' = [TakesRecord(readTelemetry(e)) EXCEPT !.mode = "tx", !.expected = e.due, !.due = e.answered]

txDoneCallback == escUnit = "REPLY" /\ e.mode = "tx" /\ e' = [e EXCEPT !.mode = "rx"]

Speed(code, before) == IF Extended(code) THEN before ELSE convertToErpm(convertToValue(code))
Answers(code) ==
    /\ escUnit = "REPLY" /\ e.mode = "rx"
    /\ e' = [e EXCEPT !.mode = "done", !.ring = Append(@, Runs(Levels(code), conf.jitter)),
                      !.answered = Speed(code, @)]

(* a bit of the line is wrong, or the answer has another checksum *)
AnswersWrong ==
    /\ escUnit = "REPLY" /\ e.mode = "rx"
    /\ \E wrong \in {Levels(conf.code ^^ 1), <<0, 0, 0, 1, 1, 0, 1>>} :
       LET line == IF Len(wrong) = 21 THEN SubSeq(wrong, 1, 15) \o SubSeq(Levels(conf.code), 16, 21) ELSE wrong IN
       /\ gcrToRawValue(extractTelemetryGcr(Runs(line, 0))) = Invalid
       /\ e' = [e EXCEPT !.mode = "done", !.ring = Append(@, Runs(line, 0))]

OtherCodes == {4095, 816}   \* the motor stands; temperature
ReplyConfs == [code : Codes, jitter : {-Jitter, 0, Jitter}]
NoSignal == [i \in 1..21 |-> 0]
ReplyBegin == [mode |-> "done", ring |-> <<>>, value |-> NoSignal, erpm |-> 0, errors |-> 0,
               answered |-> 0, due |-> 0, expected |-> 0]

(* What the mixer takes for the speed of a motor is what its ESC answered
   before the last update: the last answer that came whole.                *)
RepliesAreRight == e.erpm = e.expected

-----------------------------------------------------------------------------
EscInit ==
    /\ escUnit \in EscUnits
    /\ CASE escUnit = "TIMER" -> conf \in TimerConfs /\ e \in TimerBegin(conf)
         [] escUnit = "TICKS" -> conf \in TickConfs /\ e = [us |-> 0, high |-> 0, low |-> 0]
         [] escUnit = "FRAME" -> conf \in FrameConfs /\ e = [pulses |-> <<>>, lines |-> <<>>]
         [] escUnit = "REPLY" -> conf \in ReplyConfs /\ e = ReplyBegin

EscNext ==
    /\ \/ handle \/ apply \/ end
       \/ \E m \in Motors, p \in Commands : Write(m, p) /\ p \in CommandsOf(conf)
       \/ \E us \in Throttles : Transmits(us) \/ SendsFrames(<<us, 1000, 2000>>)
       \/ MixerUpdate \/ txDoneCallback \/ AnswersWrong
       \/ \E code \in Codes \cup OtherCodes : Answers(code) /\ code \in {conf.code} \cup OtherCodes
    /\ UNCHANGED <<escUnit, conf>>

(* Each motor gets what it was told last, and its speed is what it answers. *)
PulsesAreCommanded ==
    CASE escUnit = "TIMER" -> TimerIsRight
      [] escUnit = "TICKS" -> TicksAreRight
      [] escUnit = "FRAME" -> FramesAreRight
      [] escUnit = "REPLY" -> RepliesAreRight
=============================================================================
