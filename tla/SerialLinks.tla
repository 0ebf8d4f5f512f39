----------------------------- MODULE SerialLinks -----------------------------
(***************************************************************************)
(* One end of a serial line: frames arrive byte by byte, the update of the *)
(* device takes what has arrived in chunks, and the parser turns it into   *)
(* frames again.  Bytes may be lost or damaged, or appear from nowhere;    *)
(* for MSP over CRSF (FRAGMENTS) the line carries fragments, which may be  *)
(* lost, and for PPM it carries edges.  unit says which of the protocols   *)
(* is at work.                                                             *)
(***************************************************************************)
EXTENDS SerialParsers, SequencesExt

CONSTANTS Units,      \* protocols to look at
          Frames,     \* frames are numbered modulo Frames
          Buffer,     \* bytes the serial driver holds: it is read before they are more
          Chunk,      \* bytes an update takes at most, sizeof(buff)
          MaxFaults   \* of each protocol: bytes or edges lost, damaged or added; messages
                      \* that are too long, replies, or of an unknown version

ASSUME LinkAssumption ==
    /\ Frames \in Nat \ {0} /\ Buffer \in Nat \ {0}
    /\ Chunk \in Nat \ {0} /\ MaxFaults \in [Units -> Nat]

VARIABLES
    unit,           \* the protocol
    kind, k, pos,   \* the frame that is being sent, its number, bytes of it that are gone
    seq,            \* sequence number of the next fragment
    wire,           \* what has arrived and is not read
    port,           \* the parser
    got,            \* what was delivered last
    want,           \* history: the content of the last frame that was sent
    clean,          \* history: whole frames since the last fault, -1 in a frame with a fault
    bad, typed,     \* history: deliveries that nobody sent; bytes at the command line
    faults          \* faults left

lineVars == <<kind, k, pos, seq, faults>>
linkVars == <<unit, lineVars, wire, port, got, want, clean, bad, typed>>

-----------------------------------------------------------------------------
(* What is sent. *)
Data(n, len) == [i \in 1..len |-> <<n, i>>]
Content(ch, status) == [ch |-> ch, status |-> status]

SbusBytes(kd, n) == <<SbusStart>> \o Data(n, SbusSize - 3) \o <<SbusFlags[kd], <<0>> >>

IbusBytes(n) ==
    LET body == <<IbusLength, IbusCommand>> \o Data(n, IbusSize - 4) IN
    body \o <<Checksum(0, body), Checksum(1, body)>>

CrsfPayload(kd, n) ==
    CASE kd = "RC" -> Data(n, 3)
      [] kd = "LINK" -> Data(n, 1)
      [] kd = "MSP" -> << <<200>>, <<234>>, <<n, 1>> >>

CrsfBytes(kd, n) ==
    LET payload == CrsfPayload(kd, n)
        body == <<CrsfType[kd]>> \o payload
    IN <<CrsfSync, <<Len(body) + 1>> >> \o body \o <<Checksum(0, body)>>

MspBody(kd, n) ==
    CASE kd \in {"V1", "REPLY"} -> << <<0>>, <<n, 0>> >>
      [] kd = "LONG" -> << <<MspMax + 1>>, <<n, 0>> >> \o Data(n, 2)
      [] kd = "V2" -> << <<0>>, <<n, 0>>, <<0>>, <<1>>, <<0>> >> \o Data(n, 1)

MspBytes(kd, n) ==
    <<Dollar, MspVersions[IF kd = "V2" THEN "V2" ELSE "V1"],
      MspDirs[IF kd = "REPLY" THEN "REPLY" ELSE "CMD"]>>
    \o MspBody(kd, n) \o <<Checksum(0, MspBody(kd, n))>>

Fragment(n, i, len) ==
    [start |-> i = 1, version |-> IF kind = "other" THEN 0 ELSE 1, cmd |-> <<n, 0>>, size |-> len, data |-> << <<n, i>> >>,
     seq |-> (seq + i - 1) % (SeqMask + 1), behindGap |-> clean = -1]

Parts == [one |-> 1, four |-> 4, other |-> 2]

Bytes ==
    CASE unit = "SBUS" -> SbusBytes(kind, k)
      [] unit = "IBUS" -> IbusBytes(k)
      [] unit = "CRSF" -> CrsfBytes(kind, k)
      [] unit = "MSP" -> MspBytes(kind, k)
      [] unit = "FRAGMENTS" -> [i \in 1..Parts[kind] |-> Fragment(k, i, Parts[kind])]

Kinds ==
    CASE unit = "SBUS" -> DOMAIN SbusFlags
      [] unit = "IBUS" -> {"RC"}
      [] unit = "CRSF" -> DOMAIN CrsfType
      [] unit = "MSP" -> {"V1", "V2", "REPLY", "LONG"}
      [] unit = "FRAGMENTS" -> DOMAIN Parts
      [] unit = "PPM" -> {}

ContentOf(kd, n) ==
    CASE unit = "SBUS" -> Content(Data(n, SbusSize - 3), SbusStatus(SbusFlags[kd]))
      [] unit = "IBUS" -> Content(Data(n, IbusSize - 4), "RECEIVED")
      [] unit = "CRSF" -> Content(CrsfPayload(kd, n), IF kd = "RC" THEN "RECEIVED" ELSE "MSP")
      [] unit = "MSP" -> Content(IF kd = "V2" THEN Data(n, 1) ELSE <<>>, <<n, 0>>)
      [] unit = "FRAGMENTS" -> Content(Data(n, Parts[kd]), <<n, 0>>)

(* Messages that are for another, too long, or of an unknown version. *)
Rejected == {"REPLY", "LONG", "other"}
Answered(kd) == ~(unit = "CRSF" /\ kd = "LINK") /\ kd \notin Rejected
Sent == {ContentOf(kd, n) : kd \in {x \in Kinds : Answered(x)}, n \in 0..Frames - 1}

(* Values a damaged or an additional byte may have. *)
Junk ==
    CASE unit = "SBUS" -> {SbusStart, SbusFlags.FAILSAFE, <<-9>>}
      [] unit = "IBUS" -> {IbusLength, IbusCommand, <<-9>>}
      [] unit = "CRSF" -> {CrsfSync, <<3>>, <<CrsfMax - 2>>, CrsfType.RC, <<-9>>}
      [] unit = "MSP" -> {Dollar, MspVersions.V1, MspDirs.REPLY, <<2>>, <<-9>>}
      [] unit = "FRAGMENTS" -> {}

-----------------------------------------------------------------------------
(* What the ports start with. *)
FirstPort(u) ==
    CASE u = "SBUS" -> [st |-> "START", data |-> <<>>, got |-> <<>>]
      [] u = "IBUS" -> [st |-> "LENGTH", data |-> <<>>, got |-> <<>>]
      [] u = "CRSF" -> [st |-> "ADDR", data |-> <<>>, got |-> <<>>]
      [] u = "MSP" -> MspIdle
      [] u = "FRAGMENTS" -> [m |-> NoMessage, got |-> <<>>]
      [] u = "PPM" -> [channel |-> 0, channels |-> [i \in 1..Channels |-> 1500],
                       newData |-> FALSE, since |-> 0]

Nothing(u) == Content(<<>>, IF u \in {"MSP", "FRAGMENTS"} THEN <<>> ELSE "IDLE")

LinkInit ==
    /\ unit \in Units
    /\ pos \in IF unit = "PPM" THEN 1..Channels + 1 ELSE {0}
    /\ kind = "none" /\ k = 0 /\ seq = 0 /\ wire = <<>>
    /\ port = FirstPort(unit)
    /\ got = Nothing(unit) /\ want = Nothing(unit)
    /\ clean = 0 /\ bad = 0 /\ typed = FALSE /\ faults = MaxFaults[unit]

(* A fragment that completes a message makes TelemetryManager execute it. *)
FRAGMENTS(p, f) ==
    LET m == decodeMsp(p.m, f) IN
    [m |-> m,
     got |-> IF m.st # "RECEIVED" THEN p.got
             ELSE Append(p.got, [ch |-> AtMost(m.expected, m.buf), status |-> m.cmd,
                                 behindGap |-> f.behindGap])]

Parse(p, c) ==
    CASE unit = "SBUS" -> SBUS(p, c)
      [] unit = "IBUS" -> IBUS(p, c)
      [] unit = "CRSF" -> CRSF(p, c)
      [] unit = "MSP" -> MSP(p, c)
      [] unit = "FRAGMENTS" -> FRAGMENTS(p, c)

(* An update of the device: it reads a chunk and parses all of it; what is
   complete last is what the receiver hands on.                            *)
Hidden(d) == unit = "FRAGMENTS" /\ d.behindGap /\ d.ch = <<>>
IsTyped(d) == unit = "MSP" /\ d.status = <<>>
Twice(ds, i) ==
    /\ unit \in {"MSP", "FRAGMENTS"}
    /\ Content(ds[i].ch, ds[i].status) = (IF i = 1 THEN got ELSE Content(ds[i - 1].ch, ds[i - 1].status))

Update ==
    /\ unit # "PPM" /\ wire # <<>>
    /\ \E n \in {IF Len(wire) < Chunk THEN Len(wire) ELSE Chunk} :
       \E p \in {FoldLeft(Parse, port, SubSeq(wire, 1, n))} :
       \E ds \in {SelectSeq(p.got, LAMBDA d : ~IsTyped(d))} :
          /\ port' = [p EXCEPT !.got = <<>>]
          /\ wire' = SubSeq(wire, n + 1, Len(wire))
          /\ got' = IF ds = <<>> THEN got ELSE Content(Last(ds).ch, Last(ds).status)
          /\ bad' = bad + Len(SelectSeq([i \in DOMAIN ds |->
                                ~Hidden(ds[i]) /\ (Twice(ds, i) \/ Content(ds[i].ch, ds[i].status) \notin Sent)],
                             LAMBDA b : b))
          /\ typed' = (typed \/ ds # p.got)
    /\ UNCHANGED <<unit, lineVars, want, clean>>

-----------------------------------------------------------------------------
(* The line. *)
Enough == 3  \* clean counts no further

Begin(kd) ==
    /\ unit # "PPM" /\ pos = 0
    /\ kind' = kd /\ pos' = 1
    /\ IF kd \in Rejected THEN faults > 0 /\ faults' = faults - 1 /\ clean' = -1
                          ELSE UNCHANGED <<faults, clean>>
    /\ UNCHANGED <<unit, k, seq, wire, port, got, want, bad, typed>>

(* The sender goes on; fault says whether the frame has suffered now. *)
GoOn(len, fault, content) ==
    LET before == IF fault THEN -1 ELSE clean IN
    IF pos < len
    THEN pos' = pos + 1 /\ clean' = before /\ UNCHANGED <<kind, k, seq, want>>
    ELSE /\ pos' = 0 /\ kind' = "none" /\ k' = (k + 1) % Frames
         /\ seq' = IF unit = "FRAGMENTS" THEN (seq + len) % (SeqMask + 1) ELSE seq
         /\ clean' = IF before = Enough \/ (before >= 0 /\ ~Answered(kind)) THEN before ELSE before + 1
         /\ want' = content

Sending == unit # "PPM" /\ pos > 0
WantNow == IF Answered(kind) THEN ContentOf(kind, k) ELSE want

Arrives ==
    /\ Sending /\ Len(wire) < Buffer
    /\ wire' = Append(wire, Bytes[pos])
    /\ GoOn(Len(Bytes), FALSE, WantNow)
    /\ UNCHANGED <<unit, port, got, bad, typed, faults>>

IsLost ==
    /\ Sending /\ faults > 0
    /\ faults' = faults - 1
    /\ GoOn(Len(Bytes), TRUE, want)
    /\ UNCHANGED <<unit, wire, port, got, bad, typed>>

IsDamaged ==
    /\ Sending /\ Len(wire) < Buffer /\ faults > 0
    /\ faults' = faults - 1
    /\ \E b \in Junk \ {Bytes[pos]} : wire' = Append(wire, b)
    /\ GoOn(Len(Bytes), TRUE, want)
    /\ UNCHANGED <<unit, port, got, bad, typed>>

Noise ==
    /\ Sending /\ Len(wire) < Buffer /\ faults > 0
    /\ faults' = faults - 1 /\ clean' = -1
    /\ \E b \in Junk : wire' = Append(wire, b)
    /\ UNCHANGED <<unit, kind, k, pos, seq, port, got, want, bad, typed>>

-----------------------------------------------------------------------------
(* PPM: position 1 is the gap between two frames, position i + 1 channel i.
   The interrupt takes each edge at once; since is the time of the edges it
   has not seen, less the time of those that were none.                    *)
Width(n, i) == (IF i <= 2 THEN 1100 ELSE 1700) + 10 * i + n
PulseWidth == IF pos = 1 THEN 4000 ELSE Width(k, pos - 1)
Unread == [port EXCEPT !.since = 0]
Pulsing == unit = "PPM"

NextPulse(fault) ==
    LET before == IF fault THEN -1 ELSE clean IN
    IF pos <= Channels
    THEN pos' = pos + 1 /\ clean' = before /\ k' = k
    ELSE pos' = 1 /\ k' = (k + 1) % Frames /\ clean' = IF before < Enough THEN before + 1 ELSE before

Edge ==
    /\ Pulsing
    /\ port' = PPM(Unread, port.since + PulseWidth)
    /\ NextPulse(FALSE)
    /\ UNCHANGED <<unit, kind, seq, wire, got, want, bad, typed, faults>>

EdgeIsMissed ==
    /\ Pulsing /\ faults > 0
    /\ faults' = faults - 1
    /\ port' = [port EXCEPT !.since = @ + PulseWidth]
    /\ NextPulse(TRUE)
    /\ UNCHANGED <<unit, kind, seq, wire, got, want, bad, typed>>

Glitch ==
    /\ Pulsing /\ faults > 0
    /\ faults' = faults - 1 /\ clean' = -1
    /\ \E w \in {w \in {200, 3500} : w < port.since + PulseWidth} :
          port' = [PPM(port, w) EXCEPT !.since = @ - w]
    /\ UNCHANGED <<unit, kind, k, pos, seq, wire, got, want, bad, typed>>

UpdatePPM ==
    /\ Pulsing /\ port.newData
    /\ port' = [port EXCEPT !.newData = FALSE]
    /\ got' = Content(port.channels, "RECEIVED")
    /\ UNCHANGED <<unit, lineVars, wire, want, clean, bad, typed>>

LinkNext ==
    \/ \E kd \in Kinds : Begin(kd)
    \/ Arrives \/ IsLost \/ IsDamaged \/ Noise \/ Update
    \/ Edge \/ EdgeIsMissed \/ Glitch \/ UpdatePPM

-----------------------------------------------------------------------------
(* What is handed on was sent: a message is executed once and as it was
   sent, channels are those of one frame.  SBUS has no checksum: there a
   fault of the line may make one wrong frame, and only one.  (After a gap
   in the fragments of a message, or one of an unknown version, its rest may
   run the command whose header came last, without data; but never one that
   is made of pieces of two.)  And what is not damaged and not too long is
   not typed at the command line, which may be opened by it and then forbids
   arming.                                                                 *)
FramesAreSent ==
    /\ bad <= (IF unit = "SBUS" THEN MaxFaults[unit] - faults ELSE 0)
    /\ typed => faults < MaxFaults[unit]

(* A fault costs at most Missed frames that are whole: when more than that
   have come since and all is read, the last one is what was delivered.  Of
   PPM, each channel is then that of its own pulse.  An MSP port that has
   seen a reply is deaf for good.                                          *)
Missed == 2
Deaf == unit = "MSP" /\ port.st = "RECEIVED"
InPlace == \A i \in 1..Channels : \E n \in 0..Frames - 1 : got.ch[i] = Width(n, i)
Recovers ==
    clean > Missed =>
        IF Pulsing THEN port.newData \/ InPlace ELSE wire # <<>> \/ Deaf \/ got = want

(* The line may lose and damage what it will: the receiver acts on nothing
   that was not sent, and after a fault it finds back.                     *)
LinksAreSound == FramesAreSent /\ Recovers
=============================================================================
