---------------------------- MODULE SerialParsers ----------------------------
(***************************************************************************)
(* What the serial protocols do with each byte that arrives: the receiver  *)
(* protocols SBUS, IBUS and CRSF, the messages of the configurator (MSP),  *)
(* and MSP in the fragments that CRSF carries; and what the PPM input does *)
(* with each edge.                                                         *)
(*                                                                         *)
(* A byte whose value the code looks at is <<value>>, byte i of the data   *)
(* of frame k is <<k, i>>, and a checksum is made of what it covers.  The  *)
(* parsers index a buffer by the number of bytes they have taken: the      *)
(* buffer is the sequence of these bytes.                                  *)
(***************************************************************************)
EXTENDS Integers, Sequences

CONSTANTS SbusSize,    \* SBUS_FRAME_SIZE, 25
          IbusSize,    \* IBUS_FRAME_SIZE, 32
          CrsfMax,     \* CRSF_FRAME_SIZE_MAX, 64
          MspMax,      \* MSP_BUF_SIZE, 192
          Channels,    \* channels of PPM
          SeqMask      \* CRSF_MSP_STATUS_SEQ_MASK, 15

ASSUME ParserAssumption ==
    /\ SbusSize \in Nat /\ SbusSize > 4 /\ IbusSize \in Nat /\ IbusSize > 4
    /\ CrsfMax \in Nat /\ CrsfMax > 4 /\ MspMax \in Nat /\ Channels \in Nat /\ SeqMask \in Nat

(* A checksum over bytes; half tells the two bytes of the IBUS one apart. *)
Checksum(half, bytes) == <<-1, half, bytes>>

SizeOf(byte) == IF Len(byte) = 1 THEN byte[1] ELSE 0
Took(p, c) == [p EXCEPT !.data = Append(@, c)]
Goes(p, st) == [p EXCEPT !.st = st]
Delivers(p, frame) == [p EXCEPT !.got = Append(@, frame)]

-----------------------------------------------------------------------------
(* SBUS: a start byte, 22 bytes of channels, the flags, an end byte that is
   not looked at, and no checksum. *)
SbusStart == <<15>>
SbusFlags == [RECEIVED |-> <<0>>, LOST |-> <<4>>, FAILSAFE |-> <<8>>, BOTH |-> <<12>>]
SbusStatus(flags) ==
    LET set(bit) == SizeOf(flags) > 0 /\ (flags[1] \div bit) % 2 = 1 IN
    IF set(8) THEN "FAILSAFE" ELSE IF set(4) THEN "LOST" ELSE "RECEIVED"

SbusFrame(data) == [ch |-> SubSeq(data, 2, SbusSize - 2), status |-> SbusStatus(data[SbusSize - 1])]

SBUS(p, c) ==
    CASE p.st = "START" -> IF c = SbusStart THEN Goes(Took(p, c), "DATA") ELSE p
      [] p.st = "DATA" -> Goes(Took(p, c), IF Len(p.data) + 1 >= SbusSize - 1 THEN "END" ELSE "DATA")
      [] OTHER -> [Delivers(p, SbusFrame(Took(p, c).data)) EXCEPT !.st = "START", !.data = <<>>]

-----------------------------------------------------------------------------
(* IBUS: length, command, channels and a checksum of two bytes.  A wrong
   command does not take the length byte out of the buffer again.          *)
IbusLength == <<32>>
IbusCommand == <<64>>
IbusFrame(data) == [ch |-> SubSeq(data, 3, IbusSize - 2), status |-> "RECEIVED"]

IbusChecked(data) ==
    LET body == SubSeq(data, 1, IbusSize - 2) IN
    data[IbusSize - 1] = Checksum(0, body) /\ data[IbusSize] = Checksum(1, body)

IbusEnd(p, data) ==
    [(IF IbusChecked(data) THEN Delivers(p, IbusFrame(data)) ELSE p)
        EXCEPT !.st = "LENGTH", !.data = <<>>]

IBUS(p, c) ==
    CASE p.st = "LENGTH" -> IF c = IbusLength THEN Goes(Took(p, c), "CMD") ELSE p
      [] p.st = "CMD" -> IF c = IbusCommand THEN Goes(Took(p, c), "DATA") ELSE Goes(p, "LENGTH")
      [] p.st = "DATA" -> Goes(Took(p, c), IF Len(p.data) + 1 >= IbusSize - 2 THEN "CRC_LO" ELSE "DATA")
      [] p.st = "CRC_LO" -> Goes(Took(p, c), "CRC_HI")
      [] OTHER -> IbusEnd(p, Took(p, c).data)

-----------------------------------------------------------------------------
(* CRSF: sync byte, size, type, payload and a checksum over the last two. *)
CrsfSync == <<200>>
CrsfType == [RC |-> <<4>>, LINK |-> <<5>>, MSP |-> <<122>>]
CrsfReset(p) == [p EXCEPT !.st = "ADDR", !.data = <<>>]
CrsfFrame(data) ==
    [ch |-> SubSeq(data, 4, SizeOf(data[2]) + 1),
     status |-> IF data[3] = CrsfType.RC THEN "RECEIVED" ELSE "MSP"]

(* Mutant: the checksum is not looked at. *)
CrsfEnd_Unchecked(p, c) ==
    IF p.data[3] # CrsfType.LINK THEN CrsfReset(Delivers(p, CrsfFrame(p.data))) ELSE CrsfReset(p)

(* apply: statistics of the link are not used *)
CrsfEnd(p, c) ==
    LET body == SubSeq(p.data, 3, Len(p.data)) IN
    IF c = Checksum(0, body) /\ p.data[3] # CrsfType.LINK
    THEN CrsfReset(Delivers(p, CrsfFrame(p.data)))
    ELSE CrsfReset(p)

CRSF(p, c) ==
    CASE p.st = "ADDR" -> IF c = CrsfSync THEN Goes(Took(p, c), "SIZE") ELSE p
      [] p.st = "SIZE" -> IF SizeOf(c) \in 2..CrsfMax - 2 THEN Goes(Took(p, c), "TYPE") ELSE CrsfReset(p)
      [] p.st = "TYPE" ->
            IF c \in {CrsfType.RC, CrsfType.LINK, CrsfType.MSP}
            THEN Goes(Took(p, c), IF SizeOf(p.data[2]) > 2 THEN "DATA" ELSE "CRC")
            ELSE CrsfReset(p)
      [] p.st = "DATA" ->
            Goes(Took(p, c), IF Len(p.data) + 1 > SizeOf(p.data[2]) THEN "CRC" ELSE "DATA")
      [] OTHER -> CrsfEnd(p, c)

-----------------------------------------------------------------------------
(* MSP: '$', 'M' or 'X', the direction, a header with the size, payload and
   checksum.  A message for which there is no rest is RECEIVED.            *)
Dollar == <<36>>
MspVersions == [V1 |-> <<77>>, V2 |-> <<88>>]
MspDirs == [CMD |-> <<60>>, REPLY |-> <<62>>]
HeaderSize(ver) == IF ver = "V1" THEN 2 ELSE 5
SizeAt(ver) == IF ver = "V1" THEN 1 ELSE 4
CmdAt(ver) == 2

MspIdle == [st |-> "IDLE", ver |-> "V1", dir |-> "CMD", data |-> <<>>, got |-> <<>>]

MspStart(p, c) ==
    IF \E v \in DOMAIN MspVersions : MspVersions[v] = c
    THEN [p EXCEPT !.st = "HEADER_TYPE", !.data = <<>>,
                   !.ver = CHOOSE v \in DOMAIN MspVersions : MspVersions[v] = c]
    ELSE Goes(p, "IDLE")

MspType(p, c) ==
    IF \E d \in DOMAIN MspDirs : MspDirs[d] = c
    THEN [p EXCEPT !.st = "HEADER", !.dir = CHOOSE d \in DOMAIN MspDirs : MspDirs[d] = c]
    ELSE Goes(p, "IDLE")

MspHeader(p) ==
    LET size == SizeOf(p.data[SizeAt(p.ver)]) IN
    IF Len(p.data) < HeaderSize(p.ver) THEN p
    ELSE IF size > MspMax THEN Goes(p, "IDLE")
    ELSE Goes(p, IF size > 0 THEN "PAYLOAD" ELSE "CHECKSUM")

MspPayload(p) ==
    IF Len(p.data) = HeaderSize(p.ver) + SizeOf(p.data[SizeAt(p.ver)]) THEN Goes(p, "CHECKSUM") ELSE p

MspParse(p, c) ==
    CASE p.st = "IDLE" -> IF c = Dollar THEN Goes(p, "HEADER_START") ELSE p
      [] p.st = "HEADER_START" -> MspStart(p, c)
      [] p.st = "HEADER_TYPE" -> MspType(p, c)
      [] p.st = "HEADER" -> MspHeader(Took(p, c))
      [] p.st = "PAYLOAD" -> MspPayload(Took(p, c))
      [] p.st = "CHECKSUM" -> Goes(p, IF c = Checksum(0, p.data) THEN "RECEIVED" ELSE "IDLE")
      [] OTHER -> p

(* processMsp: a command is executed and answered, and the message starts
   afresh; a byte that leaves the parser idle is typed at the command line. *)
MspMessage(p) ==
    [ch |-> SubSeq(p.data, HeaderSize(p.ver) + 1, Len(p.data)), status |-> p.data[CmdAt(p.ver)]]

MSP(p, c) ==
    LET m == MspParse(p, c) IN
    IF m.st = "RECEIVED" /\ m.dir = "CMD" THEN [MspIdle EXCEPT !.got = Append(p.got, MspMessage(m))]
    ELSE IF m.st = "IDLE" THEN Delivers(m, [ch |-> <<c>>, status |-> <<>>])
    ELSE m

-----------------------------------------------------------------------------
(* decodeMsp: a message in fragments.  A fragment f has a sequence number, a
   start flag, a version and data; the first one begins with the header,
   which has the command and the size of all the data.  The buffer is not
   cleared.                                                                *)
NoMessage == [st |-> "IDLE", seq |-> 0, cmd |-> <<0>>, expected |-> 0, received |-> 0, buf |-> <<>>]

Put(buf, at, bytes) ==
    [i \in 1..(IF at + Len(bytes) > Len(buf) THEN at + Len(bytes) ELSE Len(buf)) |->
        IF i \in at + 1..at + Len(bytes) THEN bytes[i - at] ELSE buf[i]]
AtMost(n, bytes) == SubSeq(bytes, 1, IF n < Len(bytes) THEN n ELSE Len(bytes))

Appended(m, bytes) ==
    LET all == [m EXCEPT !.buf = Put(@, m.received, bytes), !.received = @ + Len(bytes)]
    IN [all EXCEPT !.st = IF all.received = m.expected THEN "RECEIVED" ELSE @]

Restarted(m) == [m EXCEPT !.st = "IDLE", !.received = 0, !.expected = 0]

fillMessage(m, f) ==
    Appended([m EXCEPT !.cmd = f.cmd, !.expected = f.size], AtMost(f.size, f.data))

FirstChunk(m, f) == IF f.version \in 1..2 THEN fillMessage(Restarted(m), f) ELSE Restarted(m)

NextChunk(m, f) ==
    IF f.seq # (m.seq + 1) % (SeqMask + 1) THEN Restarted(m)
    ELSE LET bytes == AtMost(m.expected - m.received, f.data) IN
         IF m.received + Len(bytes) <= MspMax THEN Appended(m, bytes) ELSE m

decodeMsp(m, f) ==
    [(IF f.start THEN FirstChunk(m, f) ELSE NextChunk(m, f)) EXCEPT !.seq = f.seq]

-----------------------------------------------------------------------------
(* PPM: the interrupt measures the time since the last edge; more than 3 ms
   is the gap between two frames, and the fourth channel makes a frame.    *)
SyncWidth == 3000

PPM(p, width) ==
    IF width > SyncWidth THEN [p EXCEPT !.channel = 0]
    ELSE [p EXCEPT !.channel = @ + 1,
                   !.channels = IF p.channel < Channels
                                THEN [@ EXCEPT ![p.channel + 1] = width] ELSE @,
                   !.newData = @ \/ p.channel = 3]
=============================================================================
