--------------------------- MODULE BlackboxFields ---------------------------
(***************************************************************************)
(* The fields of the flight log: the encodings, byte for byte, what a      *)
(* reader of the log makes of them (it is not part of the repository; the  *)
(* names in blackbox_fielddefs.h say what it does), the tables that the    *)
(* header is printed from, the conditions that take fields out, and the    *)
(* frames, which are written by code of their own that has to agree with   *)
(* the tables.                                                             *)
(***************************************************************************)
EXTENDS Integers, Sequences, FiniteSets, SequencesExt, FiniteSetsExt

CONSTANT Reading(_, _, _)   \* the value of a field in a sample: name, index, sample

-----------------------------------------------------------------------------
(* Writing a value or a group of values. *)
Low(v, bits) == v % 2^bits
Fits(v, bits) == -(2^(bits - 1)) <= v /\ v < 2^(bits - 1)
Extend(v, bits) == IF v >= 2^(bits - 1) THEN v - 2^bits ELSE v

zigzagEncode(v) == IF v >= 0 THEN 2 * v ELSE -2 * v - 1
ZigzagDecode(u) == IF u % 2 = 0 THEN u \div 2 ELSE -((u + 1) \div 2)

(* Seven bits in a byte, the high bit says that more follow.  (Up to 28 bits
   here, 32 in the code.) *)
UnsignedVB(v) ==
    LET n == Min({k \in 1..4 : v < 128^k}) IN
    [i \in 1..n |-> ((v \div 128^(i - 1)) % 128) + IF i < n THEN 128 ELSE 0]

SignedVB(v) == UnsignedVB(zigzagEncode(v))

(* The n bytes of v, lowest first. *)
LowFirst(v, n) == [i \in 1..n |-> Low(v \div 256^(i - 1), 8)]
BytesOf(v) == IF Fits(v, 8) THEN 1 ELSE IF Fits(v, 16) THEN 2 ELSE IF Fits(v, 24) THEN 3 ELSE 4

(* Three fields of 2, 4, 6 or up to 32 bits, by the largest. *)
Tag2_3S32(v) ==
    LET All(bits) == \A i \in 1..3 : Fits(v[i], bits) IN
    IF All(2) THEN <<Low(v[1], 2) * 16 + Low(v[2], 2) * 4 + Low(v[3], 2)>>
    ELSE IF All(4) THEN <<64 + Low(v[1], 4), Low(v[2], 4) * 16 + Low(v[3], 4)>>
    ELSE IF All(6) THEN <<128 + Low(v[1], 6), Low(v[2], 8), Low(v[3], 8)>>
    ELSE <<192 + (BytesOf(v[3]) - 1) * 16 + (BytesOf(v[2]) - 1) * 4 + BytesOf(v[1]) - 1>>
         \o LowFirst(v[1], BytesOf(v[1])) \o LowFirst(v[2], BytesOf(v[2])) \o LowFirst(v[3], BytesOf(v[3]))

(* Four fields of 0, 1, 2 or 4 nibbles, packed, high nibble first. *)
NibblesOf(v) == IF v = 0 THEN 0 ELSE IF Fits(v, 4) THEN 1 ELSE IF Fits(v, 8) THEN 2 ELSE 3
Nibbles(v, n) == LET count == <<0, 1, 2, 4>>[n + 1] IN
                 [i \in 1..count |-> Low(v \div 16^(count - i), 4)]
(* Mutant: the nibble that is left over is not written. *)
Packed_NoRest(ns) == [i \in 1..Len(ns) \div 2 |-> ns[2*i - 1] * 16 + ns[2*i]]

(* Two in a byte; the last byte may be half empty. *)
Packed(ns) == [i \in 1..(Len(ns) + 1) \div 2 |->
                 ns[2*i - 1] * 16 + IF 2*i <= Len(ns) THEN ns[2*i] ELSE 0]

Tag8_4S16(v) ==
    <<NibblesOf(v[1]) + 4 * NibblesOf(v[2]) + 16 * NibblesOf(v[3]) + 64 * NibblesOf(v[4])>>
    \o Packed(FlattenSeq([i \in 1..4 |-> Nibbles(v[i], NibblesOf(v[i]))]))

(* Up to eight fields behind a byte that tells which of them are not 0. *)
Tag8_8SVB(v) ==
    IF Len(v) = 1 THEN SignedVB(v[1])
    ELSE LET nonzero == SelectSeq(v, LAMBDA x : x # 0) IN
         <<SumSet({2^(i - 1) : i \in {j \in DOMAIN v : v[j] # 0}})>>
         \o FlattenSeq([i \in DOMAIN nonzero |-> SignedVB(nonzero[i])])

-----------------------------------------------------------------------------
(* Reading: the n values in a group of bytes, <<>> if it is none of the kind. *)
Total(f) == FoldFunction(+, 0, f)
Rest(bytes, n) == SubSeq(bytes, n + 1, Len(bytes))
Ends(bytes) == SelectSeq([i \in DOMAIN bytes |-> i], LAMBDA i : bytes[i] < 128)

(* All the variable byte numbers in a row. *)
ReadUnsignedVBs(bytes) ==
    LET ends == Ends(bytes)
        from(j) == IF j = 1 THEN 1 ELSE ends[j - 1] + 1
    IN  [j \in DOMAIN ends |-> Total([i \in from(j)..ends[j] |-> (bytes[i] % 128) * 128^(i - from(j))])]

ReadSignedVBs(bytes) ==
    LET us == ReadUnsignedVBs(bytes) IN [j \in DOMAIN us |-> ZigzagDecode(us[j])]

ReadLowFirst(bytes, from, n) ==
    Extend(bytes[from + n - 1], 8) * 256^(n - 1)
    + Total([i \in 1..n - 1 |-> bytes[from + i - 1] * 256^(i - 1)])

ReadTag2_3S32(bytes) ==
    LET tag == bytes[1] \div 64
        bits(byte, low, count) == Extend((bytes[byte] \div 2^low) % 2^count, count)
        size == [i \in 1..3 |-> ((bytes[1] \div 4^(i - 1)) % 4) + 1]
    IN  CASE tag = 0 /\ Len(bytes) = 1 -> <<bits(1, 4, 2), bits(1, 2, 2), bits(1, 0, 2)>>
          [] tag = 1 /\ Len(bytes) = 2 -> <<bits(1, 0, 4), bits(2, 4, 4), bits(2, 0, 4)>>
          [] tag = 2 /\ Len(bytes) = 3 -> <<bits(1, 0, 6), bits(2, 0, 6), bits(3, 0, 6)>>
          [] tag = 3 /\ Len(bytes) = 1 + size[1] + size[2] + size[3] ->
               <<ReadLowFirst(bytes, 2, size[1]), ReadLowFirst(bytes, 2 + size[1], size[2]),
                 ReadLowFirst(bytes, 2 + size[1] + size[2], size[3])>>
          [] OTHER -> <<>>

ReadTag8_4S16(bytes) ==
    LET count == [i \in 1..4 |-> <<0, 1, 2, 4>>[((bytes[1] \div 4^(i - 1)) % 4) + 1]]
        start == [i \in 1..4 |-> Total([j \in 1..i - 1 |-> count[j]])]
        nibble(k) == IF k % 2 = 1 THEN bytes[(k + 3) \div 2] \div 16 ELSE bytes[(k + 2) \div 2] % 16
        number(i) == IF count[i] = 0 THEN 0
                     ELSE Extend(Total([j \in 1..count[i] |-> nibble(start[i] + j) * 16^(count[i] - j)]),
                                 4 * count[i])
    IN  IF Len(bytes) = 1 + ((start[4] + count[4] + 1) \div 2) THEN [i \in 1..4 |-> number(i)] ELSE <<>>

ReadTag8_8SVB(bytes, n) ==
    LET numbers == ReadSignedVBs(Rest(bytes, 1))
        marked(i) == (bytes[1] \div 2^(i - 1)) % 2 = 1
        before(i) == Cardinality({j \in 1..i : marked(j)})
    IN  IF n = 1 THEN ReadSignedVBs(bytes)
        ELSE IF before(n) # Len(numbers) \/ bytes[1] >= 2^n THEN <<>>
        ELSE [i \in 1..n |-> IF marked(i) THEN numbers[before(i)] ELSE 0]

ReadGroup(enc, n, bytes) ==
    CASE bytes = <<>>          -> <<>>
      [] enc = "UNSIGNED_VB" -> ReadUnsignedVBs(bytes)
      [] enc = "SIGNED_VB"   -> ReadSignedVBs(bytes)
      [] enc = "NEG_14BIT"   -> LET u == ReadUnsignedVBs(bytes) IN [i \in DOMAIN u |-> -Extend(u[i], 14)]
      [] enc = "TAG2_3S32"   -> ReadTag2_3S32(bytes)
      [] enc = "TAG8_4S16"   -> ReadTag8_4S16(bytes)
      [] enc = "TAG8_8SVB"   -> ReadTag8_8SVB(bytes, n)

-----------------------------------------------------------------------------
(* A field of blackboxMainFields: predictor and encoding in I and P frames. *)
Def(name, i, Ipredict, Iencode, Ppredict, Pencode, cond) ==
    [name |-> <<name, i>>, Ipredict |-> Ipredict, Iencode |-> Iencode,
     Ppredict |-> Ppredict, Pencode |-> Pencode, cond |-> cond]
Defs(name, n, Ipredict, Iencode, Ppredict, Pencode, cond) ==
    [i \in 1..n |-> Def(name, i - 1, Ipredict, Iencode, Ppredict, Pencode, cond)]

blackboxMainFields ==
    Defs("loopIteration", 1, "0", "UNSIGNED_VB", "INC", "NULL", "ALWAYS")
    \o Defs("time", 1, "0", "UNSIGNED_VB", "STRAIGHT_LINE", "SIGNED_VB", "ALWAYS")
    \o Defs("axisP", 3, "0", "SIGNED_VB", "PREVIOUS", "SIGNED_VB", "PID")
    \o Defs("axisI", 3, "0", "SIGNED_VB", "PREVIOUS", "TAG2_3S32", "PID")
    \o Defs("axisD", 3, "0", "SIGNED_VB", "PREVIOUS", "SIGNED_VB", "NONZERO_PID_D")
    \o Defs("axisF", 3, "0", "SIGNED_VB", "PREVIOUS", "SIGNED_VB", "PID")
    \o Defs("rcCommand", 3, "0", "SIGNED_VB", "PREVIOUS", "TAG8_4S16", "RC_COMMANDS")
    \o <<Def("rcCommand", 3, "0", "UNSIGNED_VB", "PREVIOUS", "TAG8_4S16", "RC_COMMANDS")>>
    \o Defs("setpoint", 4, "0", "SIGNED_VB", "PREVIOUS", "TAG8_4S16", "SETPOINT")
    \o Defs("vbatLatest", 1, "VBATREF", "NEG_14BIT", "PREVIOUS", "TAG8_8SVB", "VBAT")
    \o Defs("amperageLatest", 1, "0", "SIGNED_VB", "PREVIOUS", "TAG8_8SVB", "AMPERAGE_ADC")
    \o Defs("magADC", 3, "0", "SIGNED_VB", "PREVIOUS", "TAG8_8SVB", "MAG")
    \o Defs("baroAlt", 1, "0", "SIGNED_VB", "PREVIOUS", "TAG8_8SVB", "BARO")
    \o Defs("rssi", 1, "0", "UNSIGNED_VB", "PREVIOUS", "TAG8_8SVB", "RSSI")
    \o Defs("gyroADC", 3, "0", "SIGNED_VB", "AVERAGE_2", "SIGNED_VB", "GYRO")
    \o Defs("gyroUnfilt", 3, "0", "SIGNED_VB", "AVERAGE_2", "SIGNED_VB", "GYROUNFILT")
    \o Defs("accSmooth", 3, "0", "SIGNED_VB", "AVERAGE_2", "SIGNED_VB", "ACC")
    \o Defs("debug", 8, "0", "SIGNED_VB", "AVERAGE_2", "SIGNED_VB", "DEBUG_LOG")
    \o Defs("motor", 1, "MINMOTOR", "UNSIGNED_VB", "AVERAGE_2", "SIGNED_VB", "AT_LEAST_MOTORS")
    \o [i \in 1..7 |-> Def("motor", i, "MOTOR_0", "SIGNED_VB", "AVERAGE_2", "SIGNED_VB", "AT_LEAST_MOTORS")]
    \o Defs("eRPM", 8, "0", "UNSIGNED_VB", "PREVIOUS", "SIGNED_VB", "MOTOR_HAS_RPM")

(* Groups of fields that the configuration can leave out. *)
FieldSelect == {"PID", "RC_COMMANDS", "SETPOINT", "BATTERY", "MAG", "ALTITUDE", "RSSI", "GYRO",
                "ACC", "DEBUG_LOG", "MOTOR", "GPS", "RPM", "GYROUNFILT"}
isFieldEnabled(c, group) == group \notin c.disabled

(* testBlackboxConditionUncached, for the field with index i where one is
   meant; there is never a tricopter or a rangefinder. *)
Condition(c, cond, i) ==
    \/ cond = "ALWAYS"
    \/ cond = "AT_LEAST_MOTORS" /\ c.motors >= i + 1 /\ isFieldEnabled(c, "MOTOR")
    \/ cond = "MOTOR_HAS_RPM" /\ c.motors >= i + 1 /\ c.telemetry /\ isFieldEnabled(c, "RPM")
    \/ cond = "NONZERO_PID_D" /\ i \notin c.zeroD /\ isFieldEnabled(c, "PID")
    \/ cond \in {"PID", "RC_COMMANDS", "SETPOINT", "GYRO", "GYROUNFILT"} /\ isFieldEnabled(c, cond)
    \/ cond = "BARO" /\ "BARO" \in c.sensors /\ isFieldEnabled(c, "ALTITUDE")
    \/ cond \in {"MAG", "ACC"} /\ cond \in c.sensors /\ isFieldEnabled(c, cond)
    \/ cond = "VBAT" /\ c.vbat /\ isFieldEnabled(c, "BATTERY")
    \/ cond = "AMPERAGE_ADC" /\ c.ibat /\ isFieldEnabled(c, "BATTERY")
    \/ cond = "RSSI" /\ c.rssi /\ isFieldEnabled(c, "RSSI")
    \/ cond = "DEBUG_LOG" /\ c.debug /\ isFieldEnabled(c, "DEBUG_LOG")

(* The lines of the header: the fields whose condition holds. *)
Header(c) == SelectSeq(blackboxMainFields, LAMBDA d : Condition(c, d.cond, d.name[2]))

-----------------------------------------------------------------------------
(* Writing.  loadMainState: a state of the log is a sample of all values and
   the iteration it is of; a loop takes two units of time, and one with an odd
   sample is late by one.  A frame is the sequence of the groups of bytes that
   are written. *)
VbatRef == 4200
MinMotor == 1000
TimeBits == 4          \* width of the time, 32 in the code
TruncDiv(a, b) == IF a >= 0 THEN a \div b ELSE -((-a) \div b)
Value(state, name) ==
    CASE name = <<"loopIteration", 0>> -> state.iteration
      [] name = <<"time", 0>> -> Low(2 * state.iteration + (state.sample % 2), TimeBits)
      [] OTHER -> Reading(name[1], name[2], state.sample)
When(test, writes) == IF test THEN writes ELSE <<>>
Each(Write(_), vs) == [i \in DOMAIN vs |-> Write(vs[i])]

Signed(v) == Extend(Low(v, TimeBits), TimeBits)

IntraFrame(c, cur) ==
    LET t(cond) == Condition(c, cond, 0)
        v(name, n) == [i \in 1..n |-> Value(cur, <<name, i - 1>>)]
        motors == v("motor", 8)
    IN  <<UnsignedVB(Value(cur, <<"loopIteration", 0>>)), UnsignedVB(Value(cur, <<"time", 0>>))>>
        \o When(t("PID"), Each(SignedVB, v("axisP", 3)) \o Each(SignedVB, v("axisI", 3))
                          \o FlattenSeq([i \in 1..3 |-> When(Condition(c, "NONZERO_PID_D", i - 1),
                                                             <<SignedVB(Value(cur, <<"axisD", i - 1>>))>>)])
                          \o Each(SignedVB, v("axisF", 3)))
        \o When(t("RC_COMMANDS"), Each(SignedVB, v("rcCommand", 3)) \o <<UnsignedVB(Value(cur, <<"rcCommand", 3>>))>>)
        \o When(t("SETPOINT"), Each(SignedVB, v("setpoint", 4)))
        \o When(t("VBAT"), <<UnsignedVB(Low(VbatRef - Value(cur, <<"vbatLatest", 0>>), 14))>>)
        \o When(t("AMPERAGE_ADC"), <<SignedVB(Value(cur, <<"amperageLatest", 0>>))>>)
        \o When(t("MAG"), Each(SignedVB, v("magADC", 3)))
        \o When(t("BARO"), <<SignedVB(Value(cur, <<"baroAlt", 0>>))>>)
        \o When(t("RSSI"), <<UnsignedVB(Value(cur, <<"rssi", 0>>))>>)
        \o When(t("GYRO"), Each(SignedVB, v("gyroADC", 3)))
        \o When(t("GYROUNFILT"), Each(SignedVB, v("gyroUnfilt", 3)))
        \o When(t("ACC"), Each(SignedVB, v("accSmooth", 3)))
        \o When(t("DEBUG_LOG"), Each(SignedVB, v("debug", 8)))
        \o When(isFieldEnabled(c, "MOTOR"),
                <<UnsignedVB(motors[1] - MinMotor)>>
                \o Each(SignedVB, [i \in 1..c.motors - 1 |-> motors[i + 1] - motors[1]]))
        \o When(isFieldEnabled(c, "RPM"),
                FlattenSeq([i \in 1..c.motors |-> When(Condition(c, "MOTOR_HAS_RPM", i - 1),
                                                       <<UnsignedVB(Value(cur, <<"eRPM", i - 1>>))>>)]))

(* What changes rarely or by little is packed, what is noisy is compared
   with the average of the last two frames. *)
InterFrame(c, cur, last, last2) ==
    LET t(cond) == Condition(c, cond, 0)
        delta(name, n) == [i \in 1..n |-> Value(cur, <<name, i - 1>>) - Value(last, <<name, i - 1>>)]
        average(name, n) == [i \in 1..n |-> Value(cur, <<name, i - 1>>)
                                - TruncDiv(Value(last, <<name, i - 1>>) + Value(last2, <<name, i - 1>>), 2)]
        time == <<"time", 0>>
    IN  <<SignedVB(Signed(Value(cur, time) - 2 * Value(last, time) + Value(last2, time)))>>
        \o When(t("PID"), Each(SignedVB, delta("axisP", 3)) \o <<Tag2_3S32(delta("axisI", 3))>>
                          \o FlattenSeq([i \in 1..3 |-> When(Condition(c, "NONZERO_PID_D", i - 1),
                                                             <<SignedVB(delta("axisD", 3)[i])>>)])
                          \o Each(SignedVB, delta("axisF", 3)))
        \o When(t("RC_COMMANDS"), <<Tag8_4S16(delta("rcCommand", 4))>>)
        \o When(t("SETPOINT"), <<Tag8_4S16(delta("setpoint", 4))>>)
        \o LET packed == When(t("VBAT"), delta("vbatLatest", 1))
                         \o When(t("AMPERAGE_ADC"), delta("amperageLatest", 1))
                         \o When(t("MAG"), delta("magADC", 3))
                         \o When(t("BARO"), delta("baroAlt", 1))
                         \o When(t("RSSI"), delta("rssi", 1))
           IN  When(packed # <<>>, <<Tag8_8SVB(packed)>>)
        \o When(t("GYRO"), Each(SignedVB, average("gyroADC", 3)))
        \o When(t("GYROUNFILT"), Each(SignedVB, average("gyroUnfilt", 3)))
        \o When(t("ACC"), Each(SignedVB, average("accSmooth", 3)))
        \o When(t("DEBUG_LOG"), Each(SignedVB, average("debug", 8)))
        \o When(isFieldEnabled(c, "MOTOR"), Each(SignedVB, average("motor", c.motors)))
        \o When(isFieldEnabled(c, "RPM"),
                FlattenSeq([i \in 1..c.motors |-> When(Condition(c, "MOTOR_HAS_RPM", i - 1),
                                                       <<SignedVB(delta("eRPM", 8)[i])>>)]))

-----------------------------------------------------------------------------
(* Reading.  The reader knows the header only.  Fields next to each other with
   a packed encoding are one group: three of TAG2_3S32, four of TAG8_4S16, up
   to eight of TAG8_8SVB; nothing is written for NULL.                      *)
GroupSize(enc) == CASE enc = "TAG2_3S32" -> 3 [] enc = "TAG8_4S16" -> 4 [] enc = "TAG8_8SVB" -> 8 [] OTHER -> 1

Grouped(encs) ==
    LET runStart(k) == Min({j \in 1..k : \A i \in j..k : encs[i] = encs[k]})
        starts == {k \in DOMAIN encs : encs[k] # "NULL" /\ ((k - runStart(k)) % GroupSize(encs[k])) = 0}
        first(k) == Max({j \in starts : j <= k})
        size(k) == Min({GroupSize(encs[k])} \cup {j - k : j \in {i \in k + 1..Len(encs) + 1 :
                                                      i > Len(encs) \/ encs[i] # encs[k]}})
    IN  [k \in DOMAIN encs |->
            IF encs[k] = "NULL" THEN [enc |-> "NULL"]
            ELSE [enc |-> encs[k], group |-> Cardinality({j \in starts : j <= k}), at |-> k - first(k) + 1,
                  size |-> size(first(k))]]

(* The iterations that have a frame follow from the intervals in the header. *)
HasFrame(c, n) == (n % c.I) = 0 \/ (c.P # 0 /\ ((n % c.I) % c.P) = 0)
NextFrame(c, n) == Min({k \in n + 1..n + c.I : HasFrame(c, k)}) % (2 * c.I)

(* The value of a field from the number in the frame; last and last2 are the
   values of the two frames before, in the order of the header. *)
Decoded(c, predictor, k, number, motor0, last, last2) ==
    CASE predictor = "0" -> number
      [] predictor = "INC" -> NextFrame(c, last[k])
      [] predictor = "PREVIOUS" -> last[k] + number
      [] predictor = "STRAIGHT_LINE" -> Low(2 * last[k] - last2[k] + number, TimeBits)
      [] predictor = "AVERAGE_2" -> TruncDiv(last[k] + last2[k], 2) + number
      [] predictor = "VBATREF" -> VbatRef + number
      [] predictor = "MINMOTOR" -> MinMotor + number
      [] predictor = "MOTOR_0" -> motor0 + number

(* The values of a frame, <<>> if it is not the one the header announces. *)
Read(c, groups, predict, motor0, frame, last, last2) ==
    LET numbers == [k \in DOMAIN groups |->
                      IF groups[k].enc = "NULL" THEN <<0>>
                      ELSE IF groups[k].group \notin DOMAIN frame THEN <<>>
                      ELSE ReadGroup(groups[k].enc, groups[k].size, frame[groups[k].group])]
        at(k) == IF groups[k].enc = "NULL" THEN 1 ELSE groups[k].at
        motors == IF motor0 = 0 THEN 0 ELSE MinMotor + numbers[motor0][1]
    IN  IF \/ Len(frame) # groups[Len(groups)].group
           \/ \E k \in DOMAIN groups : groups[k].enc # "NULL" /\ Len(numbers[k]) # groups[k].size
        THEN <<>>
        ELSE [k \in DOMAIN groups |-> Decoded(c, predict[k], k, numbers[k][at(k)], motors, last, last2)]

(* What a reader derives from the header. *)
Layout(c) ==
    LET h == Header(c) IN
    [names |-> [k \in DOMAIN h |-> h[k].name],
     I |-> Grouped([k \in DOMAIN h |-> h[k].Iencode]), Ipredict |-> [k \in DOMAIN h |-> h[k].Ipredict],
     P |-> Grouped([k \in DOMAIN h |-> h[k].Pencode]), Ppredict |-> [k \in DOMAIN h |-> h[k].Ppredict],
     motor0 |-> Max({0} \cup {k \in DOMAIN h : h[k].name = <<"motor", 0>>})]
ReadIntra(c, l, frame) == Read(c, l.I, l.Ipredict, l.motor0, frame, <<>>, <<>>)
ReadInter(c, l, frame, last, last2) == Read(c, l.P, l.Ppredict, 0, frame, last, last2)
=============================================================================
