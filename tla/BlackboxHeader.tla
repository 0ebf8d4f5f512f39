--------------------------- MODULE BlackboxHeader ---------------------------
(***************************************************************************)
(* How the header of a flight log is sent: one piece in each control loop, *)
(* as far as a budget of bytes allows.  A line that does not fit is broken *)
(* off and taken up again in a later loop.  Bytes are counted exactly; the *)
(* text of a line is a sequence of tokens.  What the fields mean is the    *)
(* subject of BlackboxFields.                                              *)
(***************************************************************************)
EXTENDS BlackboxFields

CONSTANTS Setups,    \* choices for setup
          Sysinfo    \* the lines on the settings: bytes of name and value, condition

(* looptime in microseconds; buffer: bytes before the device; offset: of the
   log's beginning in its flash sector.  The serial port reports 115200 baud
   whatever its speed, so that 6000 bytes per second are what is left. *)
ASSUME HeaderAssumption ==
    /\ \A s \in Setups : /\ s.device \in {"SERIAL", "FLASH"} /\ s.looptime \in Nat \ {0}
                         /\ s.buffer \in Nat /\ s.buffer >= 128 /\ s.offset \in 0..4095
    /\ \A k \in DOMAIN Sysinfo : Sysinfo[k].name \in Nat /\ Sysinfo[k].value \in Nat

VARIABLES setup,     \* fixed
          tables,    \* the fields to send, by blackboxConditionCache
          xmit       \* blackboxState, xmitState, the budget and the device

headerVars == <<setup, tables, xmit>>

OnFlash == setup.device = "FLASH"
PerIteration == 64     \* BLACKBOX_TARGET_HEADER_BUDGET_PER_ITERATION
Accumulated == 256     \* BLACKBOX_MAX_ACCUMULATED_HEADER_BUDGET
SectorSize == 4096
ProductBytes == 78

(* blackboxDeviceOpen: what a loop may write, 6000 bytes per second. *)
MaxBytesPerIteration ==
    IF OnFlash THEN PerIteration ELSE Max({1, Min({PerIteration, (setup.looptime * 3) \div 500})})

-----------------------------------------------------------------------------
(* The fields of the four frame types: the number in the name, or -1, and what
   the columns of a table hold, predictor and encoding again for P frames. *)
Columns == <<"name", "signed", "predictor", "encoding", "predictor", "encoding">>
Field(name, i, predictor, encoding) == [index |-> i, column |-> <<name, "signed", predictor, encoding>>]

Unnumbered == {"loopIteration", "time", "vbatLatest", "amperageLatest", "baroAlt", "rssi"}
MainFields(c) ==
    LET h == Header(c) IN
    [k \in DOMAIN h |->
        [index |-> IF h[k].name[1] \in Unnumbered THEN -1 ELSE h[k].name[2],
         column |-> <<h[k].name[1], "signed", h[k].Ipredict, h[k].Iencode, h[k].Ppredict, h[k].Pencode>>]]

blackboxGpsHFields == <<Field("GPS_home", 0, "0", "SIGNED_VB"), Field("GPS_home", 1, "0", "SIGNED_VB")>>
blackboxGpsGFields(c) ==
    When(c.P # c.I, <<Field("time", -1, "LAST_MAIN_FRAME_TIME", "UNSIGNED_VB")>>)
    \o <<Field("GPS_numSat", -1, "0", "UNSIGNED_VB"), Field("GPS_coord", 0, "HOME_COORD", "SIGNED_VB"),
         Field("GPS_coord", 1, "HOME_COORD", "SIGNED_VB"), Field("GPS_altitude", -1, "0", "UNSIGNED_VB"),
         Field("GPS_speed", -1, "0", "UNSIGNED_VB"), Field("GPS_ground_course", -1, "0", "UNSIGNED_VB")>>
blackboxSlowFields ==
    <<Field("flightModeFlags", -1, "0", "UNSIGNED_VB"), Field("stateFlags", -1, "0", "UNSIGNED_VB"),
      Field("failsafePhase", -1, "0", "TAG2_3S32"), Field("rxSignalReceived", -1, "0", "TAG2_3S32"),
      Field("rxFlightChannelsValid", -1, "0", "TAG2_3S32")>>

(* The bytes of a field in line k, and what is reserved for it: a comma, an
   index, and two digits, which two predictors need. *)
BytesOfText(f, k) ==
    IF k = 1 THEN Len(f.column[1]) + (IF f.index = -1 THEN 0 ELSE 3)
    ELSE IF f.column[k] \in {"LAST_MAIN_FRAME_TIME", "MINMOTOR"} THEN 2 ELSE 1
Reservation(f, k) == 1 + 2 + (IF k = 1 THEN Len(f.column[1]) + 2 ELSE 0)

(* A line: its head and fields; the bytes of the head, of the first fields and
   what is reserved for them. *)
Line(char, k, fields) ==
    LET text[j \in 0..Len(fields)] == IF j = 0 THEN 0 ELSE text[j - 1] + BytesOfText(fields[j], k)
        reserved[j \in 0..Len(fields)] == IF j = 0 THEN 0 ELSE reserved[j - 1] + Reservation(fields[j], k)
    IN  [head |-> <<char, Columns[k], 0>>, bytes |-> 11 + Len(Columns[k]), text |-> text, reserved |-> reserved,
         fields |-> [j \in DOMAIN fields |-> IF k = 1 THEN <<fields[j].column[1], "name", fields[j].index>>
                                             ELSE <<fields[j].column[k], "value", 0>>]]
Table(chars, fields) == [k \in DOMAIN chars |-> Line(chars[k], k, fields)]

(* The states that send tables, with their lines. *)
logsPosition(c) == c.gps /\ isFieldEnabled(c, "GPS")
Tables(c) ==
    [SEND_MAIN_FIELD_HEADER |-> Table(<<"I", "I", "I", "I", "P", "P">>, MainFields(c)),
     SEND_GPS_H_HEADER |-> Table(<<"H", "H", "H", "H">>, blackboxGpsHFields),
     SEND_GPS_G_HEADER |-> Table(<<"G", "G", "G", "G">>, blackboxGpsGFields(c)),
     SEND_SLOW_HEADER |-> Table(<<"S", "S", "S", "S">>, blackboxSlowFields)]
TableStates == {"SEND_MAIN_FIELD_HEADER", "SEND_GPS_H_HEADER", "SEND_GPS_G_HEADER", "SEND_SLOW_HEADER"}
NextTable(s) ==
         CASE s = "SEND_MAIN_FIELD_HEADER" /\ logsPosition(setup.config) -> "SEND_GPS_H_HEADER"
           [] s = "SEND_MAIN_FIELD_HEADER" -> "SEND_SLOW_HEADER"
           [] s = "SEND_GPS_H_HEADER" -> "SEND_GPS_G_HEADER"
           [] s = "SEND_GPS_G_HEADER" -> "SEND_SLOW_HEADER"
           [] s = "SEND_SLOW_HEADER" -> "CACHE_FLUSH"

-----------------------------------------------------------------------------
(* The device.  The flash takes all that is buffered once that is 64 bytes, or
   reaches the end of a sector; the serial buffer is sent after each loop. *)
Emit(x, n) ==
    LET toEnd == SectorSize - x.at
        beyond == n - toEnd
    IN  [x EXCEPT !.buffered = IF ~OnFlash THEN (@ + n) % setup.buffer
                               ELSE IF beyond >= 0 THEN beyond % 64 ELSE (@ + n) % 64,
                  !.at = (@ + n) % SectorSize,
                  !.credit = @ - n]
FreeSpace(x) == setup.buffer - x.buffered

blackboxReplenishHeaderBudget(x) ==
    [x EXCEPT !.budget = Min({FreeSpace(x), @ + MaxBytesPerIteration, Accumulated}),
              !.credit = Min({setup.buffer, @ + MaxBytesPerIteration, Accumulated})]

(* blackboxDeviceReserveBufferSpace: what it does for a full flash buffer is
   never needed, there is always room for PerIteration bytes. *)
Reserves(x, bytes) == bytes <= x.budget

(* blackboxSetState *)
SetState(x, s) ==
    CASE s \in TableStates -> [x EXCEPT !.state = s, !.headerIndex = 0, !.fieldIndex = -1]
      [] s = "SEND_SYSINFO" -> [x EXCEPT !.state = s, !.headerIndex = 0]
      [] OTHER -> [x EXCEPT !.state = s]

-----------------------------------------------------------------------------
(* sendFieldDefinition.  The head of a line is printed whole, or later. *)
Comma == <<",", "", 0>>
Newline == <<"newline", "", 0>>

PrintHead(x, l) == [Emit(x, l.bytes) EXCEPT !.budget = @ - l.bytes, !.fieldIndex = 0, !.needComma = FALSE,
                                            !.printed = <<l.head>>]

(* Mutant: whether a comma is due is forgotten between two calls. *)
BeginLine_LocalComma(x, l) ==
    IF x.fieldIndex = -1 /\ Reserves(x, l.bytes) THEN PrintHead(x, l) ELSE [x EXCEPT !.needComma = FALSE]

BeginLine(x, l) == IF x.fieldIndex = -1 /\ Reserves(x, l.bytes) THEN PrintHead(x, l) ELSE x

(* The fields from the next one to the last that the budget covers. *)
LastField(x, l) ==
    Max({x.fieldIndex} \cup
        {j \in x.fieldIndex + 1..Len(l.fields) : Reserves(x, l.reserved[j] - l.reserved[x.fieldIndex])})
SendFields(x, l, last) ==
    LET first == x.fieldIndex + 1
        tokens == FlattenSeq([n \in 1..last + 1 - first |->
                      When(n > 1 \/ x.needComma, <<Comma>>) \o <<l.fields[first + n - 1]>>])
    IN  [Emit(x, Len(tokens) + l.text[last] - l.text[first - 1] - (last + 1 - first)) EXCEPT
            !.budget = @ - (l.reserved[last] - l.reserved[first - 1]), !.needComma = @ \/ last >= first,
            !.fieldIndex = last, !.printed = @ \o tokens]

EndLine(x, l) ==
    IF x.fieldIndex # Len(l.fields) \/ ~Reserves(x, 1) THEN x
    ELSE [Emit(x, 1) EXCEPT !.budget = @ - 1, !.headerIndex = @ + 1, !.fieldIndex = -1,
                            !.printed = Append(@, Newline), !.lines = @ + 1]

(* The set of its one outcome. *)
sendFieldDefinition(x, l) ==
    UNION {IF begun.fieldIndex = -1 THEN {begun}
           ELSE {EndLine(SendFields(begun, l, last), l) : last \in {LastField(begun, l)}} :
               begun \in {BeginLine(x, l)}}

-----------------------------------------------------------------------------
(* blackboxWriteSysinfo: one line in a call.  Without a battery sensor three
   lines are left out, the last two with the first.  The budget is charged for
   the value and three bytes, not for the name. *)
HasValue(c, cond) == CASE cond = "ALWAYS" -> TRUE [] cond = "VBAT" -> Condition(c, "VBAT", 0) [] cond = "CURRENT" -> c.ibat
blackboxPrintfHeaderLine(x, k) ==
    [Emit(x, Sysinfo[k].name + Sysinfo[k].value + 4) EXCEPT
        !.budget = @ - (Sysinfo[k].value + 3), !.printed = <<<<"setting", "", k>>, Newline>>, !.lines = @ + 1]

blackboxWriteSysinfo(x) ==
    LET k == x.headerIndex + 1
        skipped == IF ~HasValue(setup.config, Sysinfo[k].cond) /\ Sysinfo[k].cond = "VBAT" THEN 3 ELSE 1
    IN  [(IF HasValue(setup.config, Sysinfo[k].cond) THEN blackboxPrintfHeaderLine(x, k) ELSE x)
            EXCEPT !.headerIndex = @ + skipped]

-----------------------------------------------------------------------------
(* blackboxUpdate, once in each control loop; at its end the serial buffer is
   sent.  In all these states but one the budget is replenished first. *)
replenished == blackboxReplenishHeaderBudget(xmit)
Becomes(x) == /\ xmit' = IF OnFlash THEN x ELSE [x EXCEPT !.buffered = 0]
              /\ UNCHANGED <<setup, tables>>

(* The device gets 100 ms, then the product and the version of the format. *)
SendHeader ==
    LET bytes == Min({64, ProductBytes - xmit.headerIndex})
        sent == [Emit(replenished, bytes) EXCEPT !.budget = @ - bytes, !.headerIndex = @ + bytes]
    IN  /\ xmit.state = "SEND_HEADER"
        /\ Becomes(IF xmit.wait * setup.looptime <= 100000 THEN [replenished EXCEPT !.wait = @ + 1]
                   ELSE IF ~Reserves(replenished, PerIteration) THEN replenished
                   ELSE IF sent.headerIndex = ProductBytes THEN SetState(sent, "SEND_MAIN_FIELD_HEADER")
                   ELSE sent)

SendTable ==
    /\ xmit.state \in TableStates
    /\ LET table == tables[xmit.state] IN
       \E x \in sendFieldDefinition(replenished, table[xmit.headerIndex + 1]) :
           Becomes(IF x.headerIndex < Len(table) THEN x
                   ELSE SetState([x EXCEPT !.next = "SEND_SYSINFO"], NextTable(x.state)))

SendSysinfo ==
    /\ xmit.state = "SEND_SYSINFO"
    /\ Becomes(IF ~Reserves(replenished, 64) THEN replenished
               ELSE IF xmit.headerIndex < Len(Sysinfo) THEN blackboxWriteSysinfo(replenished)
               ELSE SetState([replenished EXCEPT !.next = "RUNNING"], "CACHE_FLUSH"))

(* flashfsFlushAsync takes all that is buffered, and returns whether that was
   anything; the serial buffer is empty. *)
CacheFlush ==
    /\ xmit.state = "CACHE_FLUSH"
    /\ xmit' = IF ~OnFlash \/ xmit.buffered > 0 THEN SetState([xmit EXCEPT !.buffered = 0], xmit.next) ELSE xmit
    /\ UNCHANGED <<setup, tables>>

(* The frames follow. *)
FramesFollow == xmit.state = "RUNNING" /\ UNCHANGED headerVars

HeaderNext == SendHeader \/ SendTable \/ SendSysinfo \/ CacheFlush \/ FramesFollow

HeaderBegin ==
    [state |-> "SEND_HEADER", next |-> "STOPPED", headerIndex |-> 0, fieldIndex |-> -1, needComma |-> FALSE,
     wait |-> 0, budget |-> 0, credit |-> 0, buffered |-> 0, at |-> setup.offset, printed |-> <<>>, lines |-> 0]
HeaderInit == setup \in Setups /\ tables = Tables(setup.config) /\ xmit = HeaderBegin

(* The control loop runs for ever. *)
HeaderFairness == WF_headerVars(HeaderNext)

-----------------------------------------------------------------------------
(* What the header is to say, line by line. *)
LineOf(l) ==
    <<l.head>>
    \o [j \in 1..2 * Len(l.fields) - 1 |-> IF j % 2 = 0 THEN Comma ELSE l.fields[(j + 1) \div 2]]
    \o <<Newline>>
LinesOf(table) == [k \in DOMAIN table |-> LineOf(table[k])]
Promised ==
    LinesOf(tables.SEND_MAIN_FIELD_HEADER)
    \o When(logsPosition(setup.config), LinesOf(tables.SEND_GPS_H_HEADER) \o LinesOf(tables.SEND_GPS_G_HEADER))
    \o LinesOf(tables.SEND_SLOW_HEADER)
    \o FlattenSeq([k \in DOMAIN Sysinfo |->
                     When(HasValue(setup.config, Sysinfo[k].cond), <<<<<<"setting", "", k>>, Newline>>>>)])

(* A flush that waits for a buffer that is empty already. *)
Stuck == xmit.state = "CACHE_FLUSH" /\ OnFlash /\ xmit.buffered = 0
=============================================================================
