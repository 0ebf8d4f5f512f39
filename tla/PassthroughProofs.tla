-------------------------- MODULE PassthroughProofs --------------------------
(***************************************************************************)
(* The ESC passthrough, for any requests, any number of ESCs and of faults *)
(* on both lines: an OK is true, and memory changes only where it was      *)
(* asked to.                                                               *)
(***************************************************************************)
EXTENDS Passthrough, SequenceTheorems, WellFoundedInduction, TLAPS

(* Where the craft looks for its next frame, and up to where it reads; a    *)
(* frame that begins within is swallowed.                                   *)
BlockFrom(in, k) == BlockLen(SubSeq(in, k, Len(in)))
LastOf(in, k) == k + 6 + BlockFrom(in, k)
First(in, k) == k \in DOMAIN in /\ in[k] = <<Escape>> /\ \A j \in 1..k - 1 : in[j] # <<Escape>>
Covered(in, k) == \E i \in 1..k - 1 : First(in, i) /\ k <= LastOf(in, i)
Live(in, k) == FrameAt(in, k) /\ ~Covered(in, k)
Sealed(in, k) ==
  /\ in[k + 5 + BlockFrom(in, k)] = Crc(-1, SubSeq(in, k, k + 4 + BlockFrom(in, k)))
  /\ in[k + 6 + BlockFrom(in, k)] = Crc(-2, SubSeq(in, k, k + 4 + BlockFrom(in, k)))
Unread == \E k \in DOMAIN inbox : Live(inbox, k)

(* The frame at hand has passed its check. *)
Serving == pc \in {"serve", "exchange"} \/ (pc = "reply" /\ ack # "InvalidCrc")
Stripped(r) == [r EXCEPT !.want = -1]

(* What the craft will serve is what the host waits for, and it serves it once. *)
LineInv ==
  /\ \A k \in DOMAIN inbox : Live(inbox, k) =>
        ask # NoRequest /\ inbox[k + 5 + BlockFrom(inbox, k)] = Crc(-1, Body(ask))
  /\ \A j, k \in DOMAIN inbox : Live(inbox, j) /\ Live(inbox, k) => j = k
  /\ Serving => ask # NoRequest /\ req = Stripped(ask) /\ ~Unread
  /\ next # -1 => ask = NoRequest

-----------------------------------------------------------------------------
Bytes == Seq(Int) \ {<<>>}
Places == 0..EscCount - 1
Interfaces == {"none", "SIL", "ATM", "ARM", "SK"}
Memory == [Cells -> Int]
EscType == [kind : Kinds, linked : BOOLEAN, at : Int, announced : BOOLEAN,
            buffer : [set : BOOLEAN, d : Int], flash : Memory, eeprom : Memory]
AnyRequest == [cmd : Int, addr : Int, low : Int, par : Seq(Int) \ {<<>>}, want : Int]
Asked ==
  {r \in [cmd : Nat, addr : Nat, low : Nat, par : Seq(Nat), want : Cells \cup {-1}] :
     /\ Len(r.par) \in 1..LongLen
     /\ r.cmd = 0 => r = NoRequest
     /\ r.cmd \in Accesses => r.want \in Cells /\ r.addr \in {KeepAddress, r.want}}

TypeOK ==
  /\ pc \in {"msp", "read", "serve", "exchange", "reply", "restarted"}
  /\ inbox \in Seq(Bytes) /\ req \in AnyRequest
  /\ mode \in Interfaces /\ connected \in BOOLEAN /\ selected \in Places
  /\ escCount \in {0, EscCount} /\ SeqNumber \in 0..SeqMod - 1
  /\ esc \in [Places -> EscType]
  /\ lateTaken \in BOOLEAN /\ crossed \in BOOLEAN
  /\ ask \in Asked /\ next \in Cells \cup {-1}

(* No answer that is late carries the number of the message to come. *)
NumberInv == late.who # -1 => late.number # (SeqNumber + 1) % SeqMod

-----------------------------------------------------------------------------
(* The messages of a memory operation: the address, unless it is kept, the  *)
(* buffer where one is written, and the access.                             *)
Final ==
  CASE req.cmd = cmd.EraseAll /\ mode = "SK" -> Message("stkErase", 0, "ok")
    [] req.cmd = cmd.PageErase /\ mode \in {"SIL", "ARM"} -> Message("erase", 0, "success")
    [] req.cmd = cmd.Read /\ mode \in BlModes ->
         Message(IF mode = "ATM" THEN "readAtm" ELSE "read", 0, "data")
    [] req.cmd = cmd.Read /\ mode = "SK" -> Message("stkRead", 0, "block")
    [] req.cmd = cmd.ReadEEprom /\ mode = "ATM" -> Message("readEE", 0, "data")
    [] req.cmd = cmd.ReadEEprom /\ mode = "SK" -> Message("stkReadEE", 0, "block")
    [] req.cmd = cmd.Write /\ mode \in BlModes -> Message("program", 0, "success")
    [] req.cmd = cmd.Write /\ mode = "SK" -> Message("stkProgram", Block, "ok")
    [] req.cmd = cmd.WriteEEprom /\ mode = "ATM" -> Message("programEE", 0, "success")
    [] req.cmd = cmd.WriteEEprom /\ mode = "SK" -> Message("stkProgramEE", Block, "ok")
    [] req.cmd = cmd.Verify /\ mode = "ARM" -> Message("verify", 0, "verdict")
    [] OTHER -> Message("none", 0, "none")

Place == IF req.cmd = cmd.PageErase THEN PageAddress ELSE req.addr
Address == IF mode = "SK" THEN Message("load", Place, "ok") ELSE Message("address", Place, "success")
Announce == Message("buffer", 0, "none")
Fill == Message("fill", Block, "success")
Buffered == {"program", "programEE", "verify"}
Rests ==
  IF Final.op \in Buffered
  THEN {<<Final>>, <<Fill, Final>>, <<Announce, Fill, Final>>, <<Address, Announce, Fill, Final>>}
  ELSE {<<Final>>, <<Address, Final>>}

(* Messages that leave address, buffer and memory alone. *)
Harmless == {"alive", "signOn", "spi", "init", "run"}
Chat == [op : Harmless, arg : Int, wants : {"unknown", "ok", "signature", "nothing"}]

JobInv ==
  pc = "exchange" =>
    \/ /\ job = "memory" /\ req.cmd \in MemoryCommands /\ Final.op # "none"
       /\ steps \in Rests /\ (Head(steps) = Address => Place # KeepAddress)
    \/ /\ job \in {"alive", "reset", "stkConnect", "blConnect"} /\ req.cmd \notin MemoryCommands
       /\ steps \in Seq(Chat) \ {<<>>}
       /\ job = "reset" => steps = BL_RunRestart

-----------------------------------------------------------------------------
(* What the ESC holds: an address that the host relies on, and the address  *)
(* and the buffer that the job has set.  An ESC that has restarted does not *)
(* answer before it is connected again.                                     *)
Selected == esc[selected]
StandsAt(a) == Selected.linked => Selected.at = a

KeepInv ==
  /\ next # -1 => StandsAt(next)
  /\ Unread \/ pc = "serve" => (ask.cmd \in Accesses /\ ask.addr = KeepAddress => StandsAt(ask.want))

Target == IF ask.cmd = cmd.PageErase THEN PageAddress ELSE ask.want
StepInv ==
  pc = "exchange" /\ job = "memory" =>
    /\ Head(steps) # Address /\ ask.cmd # cmd.EraseAll => StandsAt(Target)
    /\ Head(steps).op \in Buffered /\ Selected.linked => Selected.buffer = [set |-> TRUE, d |-> Block]

ReplyInv ==
  pc = "reply" /\ ack = "OK" =>
    /\ Done(ask)
    /\ Successor(ask) # -1 => StandsAt(Successor(ask))

PassInv ==
  /\ TypeOK /\ NumberInv /\ JobInv
  /\ ~crossed => LineInv
  /\ Trusted => KeepInv /\ StepInv /\ ReplyInv

(* A block has a length. *)
LEMMA LengthsAreNat == LongLen \in Nat /\ \A b \in 1..LongLen : b \in Nat
<1>1. LongLen \in Nat
  BY PassthroughAssumption
<1> QED BY <1>1

(* A set of numbers has a lowest. *)
LEMMA LeastExists ==
  ASSUME NEW S \in SUBSET Nat, S # {}
  PROVE  \E a \in S : \A b \in S : a <= b
<1> DEFINE less == {ss \in Nat \X Nat : ss[1] < ss[2]}
<1>1. IsWellFoundedOn(less, Nat)
  BY NatLessThanWellFounded, Zenon DEF OpToRel
<1> HIDE DEF less
<1>2. PICK a \in S : \A b \in S : ~(<<b, a>> \in less)
  BY <1>1, WFMin, Zenon
<1>3. ASSUME NEW b \in S PROVE a <= b
  <2>1. a \in Nat /\ b \in Nat /\ ~(<<b, a>> \in less)
    BY <1>2
  <2>2. b < a => <<b, a>> \in less
    BY <2>1 DEF less
  <2> QED BY <2>1, <2>2
<1> QED BY <1>3

(* The bytes from one on. *)
LEMMA SuffixIs ==
  ASSUME NEW in \in Seq(Bytes), NEW k \in 1..Len(in) + 1
  PROVE  /\ SubSeq(in, k, Len(in)) \in Seq(Bytes)
         /\ Len(SubSeq(in, k, Len(in))) = Len(in) - k + 1
         /\ \A j \in 1..Len(in) - k + 1 : SubSeq(in, k, Len(in))[j] = in[k + j - 1]
OBVIOUS

LEMMA PieceIs ==
  ASSUME NEW in \in Seq(Bytes), NEW k \in 1..Len(in), NEW n \in 0..Len(in) - k + 1
  PROVE  /\ SubSeq(in, k, k + n - 1) \in Seq(Bytes)
         /\ Len(SubSeq(in, k, k + n - 1)) = n
         /\ \A j \in 1..n : SubSeq(in, k, k + n - 1)[j] = in[k + j - 1]
         /\ SubSeq(SubSeq(in, k, Len(in)), 1, n) = SubSeq(in, k, k + n - 1)
<1>1. /\ SubSeq(in, k, k + n - 1) \in Seq(Bytes)
      /\ Len(SubSeq(in, k, k + n - 1)) = n
      /\ \A j \in 1..n : SubSeq(in, k, k + n - 1)[j] = in[k + j - 1]
  OBVIOUS
<1> DEFINE f == SubSeq(in, k, Len(in))
<1>2. f \in Seq(Bytes) /\ Len(f) = Len(in) - k + 1 /\ \A j \in 1..Len(in) - k + 1 : f[j] = in[k + j - 1]
  BY SuffixIs
<1> HIDE DEF f
<1>3. SubSeq(f, 1, n) \in Seq(Bytes) /\ Len(SubSeq(f, 1, n)) = n
      /\ \A j \in 1..n : SubSeq(f, 1, n)[j] = f[j]
  BY <1>2
<1>4. SubSeq(f, 1, n) = SubSeq(in, k, k + n - 1)
  BY <1>1, <1>2, <1>3, SeqEqual
<1> QED BY <1>1, <1>4 DEF f

(* A length byte means a length. *)
LEMMA BlockLenType ==
  ASSUME NEW in \in Seq(Bytes), Len(in) >= 5
  PROVE  BlockLen(in) \in 1..LongLen
<1>1. in[5] \in Bytes
  OBVIOUS
<1>2. Head(in[5]) \in Int
  BY <1>1 DEF Bytes
<1> QED BY <1>2, PassthroughAssumption DEF BlockLen

(* A checksum tells what it covers. *)
LEMMA CrcIs ==
  ASSUME NEW half \in Int, NEW bytes \in Seq(Bytes)
  PROVE  /\ Crc(half, bytes) \in Bytes
         /\ Len(Crc(half, bytes)) = Len(bytes) + 1
         /\ Crc(half, bytes)[1] = half /\ Head(Crc(half, bytes)) = half
         /\ \A j \in 1..Len(bytes) : Crc(half, bytes)[j + 1] = Head(bytes[j])
<1> DEFINE heads == [i \in DOMAIN bytes |-> Head(bytes[i])]
<1>1. \A i \in DOMAIN bytes : Head(bytes[i]) \in Int
  BY DEF Bytes
<1>2. heads \in Seq(Int) /\ Len(heads) = Len(bytes) /\ \A j \in 1..Len(bytes) : heads[j] = Head(bytes[j])
  <2>1. DOMAIN bytes = 1..Len(bytes) /\ Len(bytes) \in Nat
    OBVIOUS
  <2>2. heads \in [1..Len(bytes) -> Int]
    BY <1>1, <2>1
  <2> QED BY <2>1, <2>2
<1> HIDE DEF heads
<1>3. <<half>> \in Seq(Int) /\ Len(<<half>>) = 1
  OBVIOUS
<1>4. Crc(half, bytes) = <<half>> \o heads
  BY DEF Crc, heads
<1>5. /\ <<half>> \o heads \in Seq(Int) /\ Len(<<half>> \o heads) = 1 + Len(heads)
      /\ (<<half>> \o heads)[1] = half
      /\ \A j \in 1..Len(heads) : (<<half>> \o heads)[j + 1] = heads[j]
  BY <1>2, <1>3
<1>6. Crc(half, bytes) # <<>> /\ Head(Crc(half, bytes)) = half
  BY <1>4, <1>5
<1> QED BY <1>2, <1>4, <1>5, <1>6 DEF Bytes

(* A frame that the craft would serve, byte by byte. *)
LEMMA FrameIs ==
  ASSUME NEW in \in Seq(Bytes), NEW k \in DOMAIN in, FrameAt(in, k)
  PROVE  /\ BlockFrom(in, k) \in 1..LongLen /\ LastOf(in, k) \in k + 7..Len(in)
         /\ in[k] = <<Escape>> /\ Sealed(in, k)
<1> DEFINE f == SubSeq(in, k, Len(in))
           b == BlockLen(f)
<1>1. k \in 1..Len(in) /\ Len(in) \in Nat
  OBVIOUS
<1>2. f \in Seq(Bytes) /\ Len(f) = Len(in) - k + 1 /\ \A j \in 1..Len(in) - k + 1 : f[j] = in[k + j - 1]
  BY <1>1, SuffixIs
<1>3. in[k] = <<Escape>> /\ Len(f) >= 5 /\ Len(f) >= 7 + b /\ CrcGood(f)
  BY DEF FrameAt, Whole
<1>4. b \in 1..LongLen
  BY <1>2, <1>3, BlockLenType
<1>6. f[5 + b + 1] = Crc(-1, SubSeq(f, 1, 5 + b)) /\ f[5 + b + 2] = Crc(-2, SubSeq(f, 1, 5 + b))
  BY <1>3 DEF CrcGood
<1>0. BlockFrom(in, k) = b
  BY DEF BlockFrom
<1> HIDE DEF f, b
<1>5. SubSeq(f, 1, 5 + b) = SubSeq(in, k, k + (5 + b) - 1)
  <2>1. 5 + b \in 0..Len(in) - k + 1
    BY <1>1, <1>2, <1>3, <1>4
  <2> QED BY <1>1, <2>1, PieceIs DEF f
<1>14. b \in Nat /\ k \in Nat /\ b >= 1 /\ Len(in) \in Nat
  BY <1>1, <1>4, LengthsAreNat
<1>10. 5 + b + 1 \in 1..Len(in) - k + 1 /\ 5 + b + 2 \in 1..Len(in) - k + 1
  BY <1>1, <1>2, <1>3, <1>4
<1>11. k + (5 + b + 1) - 1 = k + 5 + b /\ k + (5 + b + 2) - 1 = k + 6 + b
  BY <1>14
<1>7. f[5 + b + 1] = in[k + 5 + b] /\ f[5 + b + 2] = in[k + 6 + b] /\ k + (5 + b) - 1 = k + 4 + b
  <2>1. f[5 + b + 1] = in[k + (5 + b + 1) - 1] /\ f[5 + b + 2] = in[k + (5 + b + 2) - 1]
    BY <1>2, <1>10
  <2> QED BY <1>11, <1>14, <2>1
<1>12. LastOf(in, k) = k + 6 + b /\ LastOf(in, k) \in k + 7..Len(in)
  <2>1. Len(in) - k + 1 >= 7 + b
    BY <1>2, <1>3
  <2>2. LastOf(in, k) = k + 6 + b
    BY <1>0 DEF LastOf
  <2> QED BY <1>14, <2>1, <2>2
<1> QED BY <1>0, <1>3, <1>4, <1>5, <1>6, <1>7, <1>12 DEF Sealed

LEMMA FrameFrom ==
  ASSUME NEW in \in Seq(Bytes), NEW k \in DOMAIN in, k + 4 <= Len(in), LastOf(in, k) <= Len(in),
         in[k] = <<Escape>>, Sealed(in, k)
  PROVE  FrameAt(in, k)
<1> DEFINE f == SubSeq(in, k, Len(in))
           b == BlockLen(f)
<1>1. k \in 1..Len(in) /\ k \in 1..Len(in) + 1 /\ Len(in) \in Nat
  OBVIOUS
<1>2. f \in Seq(Bytes) /\ Len(f) = Len(in) - k + 1 /\ \A j \in 1..Len(in) - k + 1 : f[j] = in[k + j - 1]
  BY <1>1, SuffixIs
<1>13. Len(f) >= 5
  <2> HIDE DEF f
  <2> QED BY <1>1, <1>2
<1>3. Len(f) >= 5 /\ b \in 1..LongLen
  BY <1>2, <1>13, BlockLenType
<1>0. BlockFrom(in, k) = b
  BY DEF BlockFrom
<1>9. FrameAt(in, k) <=> (in[k] = <<Escape>> /\ Len(f) >= 5 /\ Len(f) >= 7 + b /\ CrcGood(f))
  BY DEF FrameAt, Whole
<1>8. CrcGood(f) <=> (f[5 + b + 1] = Crc(-1, SubSeq(f, 1, 5 + b)) /\ f[5 + b + 2] = Crc(-2, SubSeq(f, 1, 5 + b)))
  BY DEF CrcGood
<1> HIDE DEF f, b
<1>14. b \in Nat /\ k \in Nat /\ b >= 1 /\ Len(in) \in Nat
  BY <1>1, <1>3, LengthsAreNat
<1>4. Len(f) >= 7 + b
  <2>1. k + 6 + b <= Len(in)
    BY <1>0 DEF LastOf
  <2>2. Len(f) = Len(in) - k + 1
    BY <1>2
  <2> QED BY <1>14, <2>1, <2>2
<1>5. SubSeq(f, 1, 5 + b) = SubSeq(in, k, k + (5 + b) - 1)
  <2>1. 5 + b \in 0..Len(in) - k + 1
    BY <1>1, <1>2, <1>3, <1>4
  <2> QED BY <1>1, <2>1, PieceIs DEF f
<1>6. k + (5 + b) - 1 = k + 4 + b
  BY <1>1, <1>3
<1>10. 5 + b + 1 \in 1..Len(in) - k + 1 /\ 5 + b + 2 \in 1..Len(in) - k + 1
  BY <1>1, <1>2, <1>3, <1>4
<1>11. k + (5 + b + 1) - 1 = k + 5 + b /\ k + (5 + b + 2) - 1 = k + 6 + b
  BY <1>14
<1>7. f[5 + b + 1] = in[k + 5 + b] /\ f[5 + b + 2] = in[k + 6 + b]
  <2>1. f[5 + b + 1] = in[k + (5 + b + 1) - 1] /\ f[5 + b + 2] = in[k + (5 + b + 2) - 1]
    BY <1>2, <1>10
  <2> QED BY <1>11, <2>1
<1> QED BY <1>0, <1>3, <1>4, <1>5, <1>6, <1>7, <1>8, <1>9 DEF Sealed

-----------------------------------------------------------------------------
(* What ReadByteCrc finds: nothing, or the bytes from the first escape on.  *)
LEMMA SoughtIs ==
  ASSUME NEW in \in Seq(Bytes)
  PROVE  \/ Sought(in) = <<>> /\ \A k \in DOMAIN in : in[k] # <<Escape>>
         \/ \E k : First(in, k) /\ Sought(in) = SubSeq(in, k, Len(in))
<1>1. CASE Starts(in) = {}
  BY <1>1 DEF Sought, Starts
<1>2. CASE Starts(in) # {}
  <2>1. Starts(in) \in SUBSET Nat /\ Starts(in) \subseteq 1..Len(in)
    BY DEF Starts
  <2>2. \E i \in Starts(in) : \A k \in Starts(in) : i <= k
    BY <1>2, <2>1, LeastExists
  <2> DEFINE i == CHOOSE i \in Starts(in) : \A k \in Starts(in) : i <= k
  <2>3. i \in Starts(in) /\ \A k \in Starts(in) : i <= k
    BY <2>2
  <2>4. Sought(in) = SubSeq(in, i, Len(in))
    BY <1>2 DEF Sought
  <2> HIDE DEF i
  <2>5. First(in, i)
    <3>1. i \in DOMAIN in /\ in[i] = <<Escape>>
      BY <2>3 DEF Starts
    <3>2. ASSUME NEW j \in 1..i - 1, in[j] = <<Escape>> PROVE FALSE
      <4>1. j \in DOMAIN in /\ j < i /\ j \in Int /\ i \in Int
        BY <2>1, <2>3
      <4>2. j \in Starts(in)
        BY <3>2, <4>1 DEF Starts
      <4> QED BY <2>3, <4>1, <4>2
    <3> QED BY <3>1, <3>2 DEF First
  <2> QED BY <2>4, <2>5
<1> QED BY <1>1, <1>2

LEMMA FirstIsOne ==
  ASSUME NEW in \in Seq(Bytes), NEW j, NEW k, First(in, j), First(in, k)
  PROVE  j = k
<1>1. j \in 1..Len(in) /\ k \in 1..Len(in) /\ in[j] = <<Escape>> /\ in[k] = <<Escape>>
  BY DEF First
<1>2. (\A i \in 1..j - 1 : in[i] # <<Escape>>) /\ (\A i \in 1..k - 1 : in[i] # <<Escape>>)
  BY DEF First
<1>3. (j < k => j \in 1..k - 1) /\ (k < j => k \in 1..j - 1)
  BY <1>1
<1>4. ~(j < k) /\ ~(k < j)
  BY <1>1, <1>2, <1>3, Zenon
<1> QED BY <1>1, <1>4

(* A frame that waits is seen at once, or covered by one before it. *)
LEMMA FirstBefore ==
  ASSUME NEW in \in Seq(Bytes), NEW k \in DOMAIN in, FrameAt(in, k)
  PROVE  \E i \in 1..k : First(in, i) /\ Sought(in) = SubSeq(in, i, Len(in))
<1>1. in[k] = <<Escape>>
  BY DEF FrameAt
<1>2. PICK i : First(in, i) /\ Sought(in) = SubSeq(in, i, Len(in))
  BY <1>1, SoughtIs
<1>3. i \in 1..Len(in) /\ k \in 1..Len(in)
  BY <1>2 DEF First
<1>4. ~(k < i)
  <2>1. \A j \in 1..i - 1 : in[j] # <<Escape>>
    BY <1>2 DEF First
  <2>2. k < i => k \in 1..i - 1
    BY <1>3
  <2> QED BY <1>1, <2>1, <2>2, Zenon
<1> QED BY <1>2, <1>3, <1>4

(* The length of a frame is told by one byte. *)
LEMMA BlockFromByte ==
  ASSUME NEW in \in Seq(Bytes), NEW k \in Nat \ {0}, k + 4 <= Len(in),
         NEW to \in Seq(Bytes), NEW j \in Nat \ {0}, j + 4 <= Len(to), to[j + 4] = in[k + 4]
  PROVE  BlockFrom(to, j) = BlockFrom(in, k) /\ BlockFrom(in, k) \in 1..LongLen
<1>1. /\ SubSeq(in, k, Len(in)) \in Seq(Bytes) /\ SubSeq(to, j, Len(to)) \in Seq(Bytes)
      /\ Len(SubSeq(in, k, Len(in))) >= 5
      /\ SubSeq(in, k, Len(in))[5] = in[k + 4] /\ SubSeq(to, j, Len(to))[5] = to[j + 4]
  OBVIOUS
<1> QED BY <1>1, BlockLenType DEF BlockFrom, BlockLen

(* Bytes that are appended change no frame that is whole, and uncover none. *)
LEMMA AppendIs ==
  ASSUME NEW in \in Seq(Bytes), NEW more \in Seq(Bytes)
  PROVE  /\ in \o more \in Seq(Bytes) /\ Len(in \o more) = Len(in) + Len(more)
         /\ \A j \in 1..Len(in) : (in \o more)[j] = in[j]
         /\ \A j \in 1..Len(more) : (in \o more)[Len(in) + j] = more[j]
OBVIOUS

LEMMA AppendKeepsFirst ==
  ASSUME NEW in \in Seq(Bytes), NEW more \in Seq(Bytes), NEW k, First(in, k)
  PROVE  First(in \o more, k)
<1>1. k \in 1..Len(in)
  BY DEF First
<1> QED BY <1>1, AppendIs DEF First

LEMMA SubSeqOfEqual ==
  ASSUME NEW in, NEW to, NEW j \in Int, NEW k \in Int, \A i \in j..k : to[i] = in[i]
  PROVE  SubSeq(to, j, k) = SubSeq(in, j, k)
<1>1. SubSeq(to, j, k) = [i \in 1..1 + k - j |-> to[i + j - 1]]
  OBVIOUS
<1>2. SubSeq(in, j, k) = [i \in 1..1 + k - j |-> in[i + j - 1]]
  OBVIOUS
<1>3. \A i \in 1..1 + k - j : to[i + j - 1] = in[i + j - 1]
  OBVIOUS
<1> QED BY <1>1, <1>2, <1>3

LEMMA WithinIs ==
  ASSUME NEW k \in Nat \ {0}, NEW b \in Nat, NEW n \in Nat, k + 6 + b <= n
  PROVE  /\ k + 4 + b \in 1..n /\ k + 5 + b \in 1..n /\ k + 6 + b \in 1..n
         /\ k..k + 4 + b \subseteq 1..n
OBVIOUS

LEMMA AppendKeepsFrame ==
  ASSUME NEW in \in Seq(Bytes), NEW more \in Seq(Bytes),
         NEW k \in DOMAIN in, k + 4 <= Len(in), LastOf(in, k) <= Len(in), FrameAt(in \o more, k)
  PROVE  FrameAt(in, k)
<1> DEFINE to == in \o more
           b == BlockFrom(in, k)
<1>1. to \in Seq(Bytes) /\ Len(to) >= Len(in) /\ \A j \in 1..Len(in) : to[j] = in[j]
  BY AppendIs
<1>2. k \in Nat \ {0} /\ Len(in) \in Nat /\ k \in DOMAIN to
  BY <1>1
<1> HIDE DEF to
<1>3. BlockFrom(to, k) = b /\ b \in 1..LongLen
  BY <1>1, <1>2, BlockFromByte
<1>4. to[k] = <<Escape>> /\ Sealed(to, k)
  BY <1>1, <1>2, FrameIs DEF to
<1> HIDE DEF b
<1>5. /\ k + 4 + b \in 1..Len(in) /\ k + 5 + b \in 1..Len(in) /\ k + 6 + b \in 1..Len(in)
      /\ k..k + 4 + b \subseteq 1..Len(in)
  <2>1. k + 6 + b <= Len(in)
    BY DEF b, LastOf
  <2>2. b \in Nat
    BY <1>3, LengthsAreNat
  <2> QED BY <1>2, <2>1, <2>2, WithinIs
<1>6. SubSeq(to, k, k + 4 + b) = SubSeq(in, k, k + 4 + b)
  <2>1. \A j \in k..k + 4 + b : to[j] = in[j]
    BY <1>1, <1>5, Zenon
  <2>2. k \in Int /\ k + 4 + b \in Int
    BY <1>2, <1>5
  <2> QED BY <2>1, <2>2, SubSeqOfEqual
<1>7. in[k] = <<Escape>> /\ Sealed(in, k)
  <2>0. k \in 1..Len(in)
    OBVIOUS
  <2>1. to[k] = in[k] /\ to[k + 5 + b] = in[k + 5 + b] /\ to[k + 6 + b] = in[k + 6 + b]
    BY <1>1, <1>5, <2>0, Zenon
  <2>2. /\ to[k + 5 + b] = Crc(-1, SubSeq(to, k, k + 4 + b))
        /\ to[k + 6 + b] = Crc(-2, SubSeq(to, k, k + 4 + b))
    BY <1>3, <1>4, Zenon DEF Sealed
  <2>3. /\ in[k + 5 + b] = Crc(-1, SubSeq(in, k, k + 4 + b))
        /\ in[k + 6 + b] = Crc(-2, SubSeq(in, k, k + 4 + b))
    BY <1>6, <2>1, <2>2, Zenon
  <2> QED BY <1>4, <2>1, <2>3, Zenon DEF Sealed, b
<1> QED BY <1>7, FrameFrom

LEMMA AppendKeepsCovered ==
  ASSUME NEW in \in Seq(Bytes), NEW more \in Seq(Bytes),
         NEW k \in DOMAIN in, k + 4 <= Len(in), Covered(in, k)
  PROVE  Covered(in \o more, k)
<1> DEFINE to == in \o more
<1>1. to \in Seq(Bytes) /\ Len(to) >= Len(in) /\ \A j \in 1..Len(in) : to[j] = in[j]
  BY AppendIs
<1>2. PICK i \in 1..k - 1 : First(in, i) /\ k <= LastOf(in, i)
  BY DEF Covered
<1>3. First(to, i)
  BY <1>2, AppendKeepsFirst
<1> HIDE DEF to
<1>4. i \in Nat \ {0} /\ i + 4 <= Len(in) /\ i + 4 \in 1..Len(in)
  OBVIOUS
<1>5. BlockFrom(to, i) = BlockFrom(in, i)
  BY <1>1, <1>4, BlockFromByte
<1>6. Covered(to, k)
  BY <1>2, <1>3, <1>5 DEF Covered, LastOf
<1> QED BY <1>6 DEF to

(* When the first bytes are taken away the frames behind them stay.         *)
LEMMA DropIs ==
  ASSUME NEW in \in Seq(Bytes), NEW e \in 0..Len(in)
  PROVE  /\ SubSeq(in, e + 1, Len(in)) \in Seq(Bytes)
         /\ Len(SubSeq(in, e + 1, Len(in))) = Len(in) - e
         /\ \A k \in 1..Len(in) - e :
              /\ k + e \in DOMAIN in
              /\ SubSeq(in, e + 1, Len(in))[k] = in[k + e]
              /\ BlockFrom(SubSeq(in, e + 1, Len(in)), k) = BlockFrom(in, k + e)
              /\ FrameAt(SubSeq(in, e + 1, Len(in)), k) = FrameAt(in, k + e)
<1> DEFINE rest == SubSeq(in, e + 1, Len(in))
<1>1. /\ e \in Nat /\ Len(in) \in Nat /\ rest \in Seq(Bytes) /\ Len(rest) = Len(in) - e
      /\ \A k \in 1..Len(in) - e : rest[k] = in[k + e]
  OBVIOUS
<1> HIDE DEF rest
<1>2. ASSUME NEW k \in 1..Len(in) - e
      PROVE  SubSeq(rest, k, Len(rest)) = SubSeq(in, k + e, Len(in)) /\ k + e \in DOMAIN in
  <2>1. k \in 1..Len(rest) /\ k \in 1..Len(rest) + 1 /\ k + e \in 1..Len(in) /\ k + e \in 1..Len(in) + 1
    BY <1>1
  <2>2. /\ SubSeq(rest, k, Len(rest)) \in Seq(Bytes)
        /\ Len(SubSeq(rest, k, Len(rest))) = Len(rest) - k + 1
        /\ \A j \in 1..Len(rest) - k + 1 : SubSeq(rest, k, Len(rest))[j] = rest[k + j - 1]
    BY <1>1, <2>1, SuffixIs
  <2>3. /\ SubSeq(in, k + e, Len(in)) \in Seq(Bytes)
        /\ Len(SubSeq(in, k + e, Len(in))) = Len(in) - (k + e) + 1
        /\ \A j \in 1..Len(in) - (k + e) + 1 : SubSeq(in, k + e, Len(in))[j] = in[k + e + j - 1]
    BY <2>1, SuffixIs
  <2>4. Len(rest) - k + 1 = Len(in) - (k + e) + 1
    BY <1>1
  <2>5. \A j \in 1..Len(rest) - k + 1 : rest[k + j - 1] = in[k + e + j - 1]
    <3> TAKE j \in 1..Len(rest) - k + 1
    <3>1. k + j - 1 \in 1..Len(in) - e /\ (k + j - 1) + e = k + e + j - 1
      BY <1>1
    <3> QED BY <1>1, <3>1
  <2> DEFINE s == SubSeq(rest, k, Len(rest))
             t == SubSeq(in, k + e, Len(in))
             n == Len(rest) - k + 1
  <2>6. s \in Seq(Bytes) /\ Len(s) = n /\ \A j \in 1..n : s[j] = rest[k + j - 1]
    BY <2>2
  <2>7. t \in Seq(Bytes) /\ Len(t) = n /\ \A j \in 1..n : t[j] = in[k + e + j - 1]
    BY <2>3, <2>4
  <2>8. \A j \in 1..n : s[j] = t[j]
    BY <2>5, <2>6, <2>7, Zenon
  <2>9. s = t
    <3> HIDE DEF s, t, n
    <3> QED BY <2>6, <2>7, <2>8, SeqEqual
  <2> HIDE DEF s, t
  <2>10. SubSeq(rest, k, Len(rest)) = s /\ SubSeq(in, k + e, Len(in)) = t
    BY DEF s, t
  <2>11. k + e \in DOMAIN in
    BY <2>1
  <2> QED BY <2>9, <2>10, <2>11
<1> QED BY <1>1, <1>2 DEF rest, BlockFrom, FrameAt


-----------------------------------------------------------------------------
(* The frame of a request, byte by byte. *)
Fields == [cmd : Nat, addr : Nat, low : Nat, par : Seq(Nat), want : Cells \cup {-1}]

LEMMA BodyIs ==
  ASSUME NEW r \in Fields
  PROVE  /\ Body(r) \in Seq(Bytes) /\ Len(Body(r)) = 5 + Len(r.par)
         /\ \A i \in 1..5 + Len(r.par) : Len(Body(r)[i]) = 1 /\ Head(Body(r)[i]) \in Nat
         /\ \A i \in 1..5 : Body(r)[i] = <<Header(r)[i]>>
         /\ \A i \in 1..Len(r.par) : Body(r)[i + 5] = <<r.par[i]>>
<1> DEFINE n == Len(r.par)
           par == r.par
<1>1. /\ r.cmd \in Nat /\ r.addr \in Nat /\ r.low \in Nat /\ par \in Seq(Nat) /\ n \in Nat
      /\ n = Len(par)
  BY DEF Fields
<1>2. Header(r) = <<47, r.cmd, r.addr, r.low, n>>
  BY DEF Header, Escape
<1>3. Body(r) = [i \in 1..5 + n |-> <<IF i <= 5 THEN Header(r)[i] ELSE par[i - 5]>>]
  BY DEF Body
<1> HIDE DEF n, par
<1>4. \A i \in 1..5 : Header(r)[i] \in Nat
  <2>1. /\ Header(r)[1] \in Nat /\ Header(r)[2] \in Nat /\ Header(r)[3] \in Nat
        /\ Header(r)[4] \in Nat /\ Header(r)[5] \in Nat
    BY <1>1, <1>2
  <2>2. \A i \in 1..5 : i = 1 \/ i = 2 \/ i = 3 \/ i = 4 \/ i = 5
    OBVIOUS
  <2> QED BY <2>1, <2>2
<1>5. \A i \in 1..n : par[i] \in Nat
  BY <1>1
<1>6. ASSUME NEW i \in 1..5 + n
      PROVE  \E x \in Nat : Body(r)[i] = <<x>>
  <2>1. CASE i <= 5
    BY <1>3, <1>4, <2>1
  <2>2. CASE ~(i <= 5)
    <3>1. i - 5 \in 1..n
      BY <1>1, <2>2
    <3> QED BY <1>3, <1>5, <2>2, <3>1
  <2> QED BY <2>1, <2>2
<1>7. \A x \in Nat : <<x>> \in Bytes /\ Len(<<x>>) = 1 /\ Head(<<x>>) = x
  BY DEF Bytes
<1>8. \A i \in 1..5 + n : Body(r)[i] \in Bytes /\ Len(Body(r)[i]) = 1 /\ Head(Body(r)[i]) \in Nat
  BY <1>6, <1>7
<1>9. Body(r) \in [1..5 + n -> Bytes]
  BY <1>3, <1>8
<1>10. Body(r) \in Seq(Bytes) /\ Len(Body(r)) = 5 + n
  <2>1. 5 + n \in Nat
    BY <1>1
  <2>2. Len(Body(r)) = 5 + n
    BY <1>3, <2>1
  <2> QED BY <1>9, <2>1, <2>2
<1>11. \A i \in 1..5 : Body(r)[i] = <<Header(r)[i]>>
  BY <1>1, <1>3
<1>12. ASSUME NEW i \in 1..n PROVE Body(r)[i + 5] = <<par[i]>>
  <2>1. i + 5 \in 1..5 + n /\ ~(i + 5 <= 5) /\ i + 5 - 5 = i
    BY <1>1
  <2> QED BY <1>3, <2>1
<1> QED BY <1>8, <1>10, <1>11, <1>12 DEF n, par

LEMMA FrameBytes ==
  ASSUME NEW r \in Fields
  PROVE  /\ Frame(r) \in Seq(Bytes) /\ Len(Frame(r)) = 7 + Len(r.par)
         /\ \A i \in 1..5 + Len(r.par) : Frame(r)[i] = Body(r)[i] /\ Head(Frame(r)[i]) \in Nat
         /\ Frame(r)[6 + Len(r.par)] = Crc(-1, Body(r))
         /\ Frame(r)[7 + Len(r.par)] = Crc(-2, Body(r))
<1> DEFINE n == Len(r.par)
           c == Crc(-1, Body(r))
           d == Crc(-2, Body(r))
           b == Body(r)
<1>1. n \in Nat
  BY DEF Fields
<1>2. b \in Seq(Bytes) /\ Len(b) = 5 + n /\ \A i \in 1..5 + n : Head(b[i]) \in Nat
  BY BodyIs
<1>3. c \in Bytes /\ d \in Bytes
  BY <1>2, CrcIs
<1>4. Frame(r) = b \o <<c, d>>
  BY DEF Frame
<1> HIDE DEF n, c, d, b
<1>5. <<c, d>> \in Seq(Bytes) /\ Len(<<c, d>>) = 2 /\ <<c, d>>[1] = c /\ <<c, d>>[2] = d
  BY <1>3
<1>6. /\ Frame(r) \in Seq(Bytes) /\ Len(Frame(r)) = Len(b) + 2
      /\ \A j \in 1..Len(b) : Frame(r)[j] = b[j]
      /\ \A j \in 1..2 : Frame(r)[Len(b) + j] = <<c, d>>[j]
  BY <1>2, <1>4, <1>5, AppendIs
<1>7. Frame(r)[6 + n] = c /\ Frame(r)[7 + n] = d
  <2>1. 1 \in 1..2 /\ 2 \in 1..2 /\ Len(b) + 1 = 6 + n /\ Len(b) + 2 = 7 + n
    BY <1>1, <1>2
  <2> QED BY <1>5, <1>6, <2>1
<1> QED BY <1>1, <1>2, <1>6, <1>7 DEF n, b, c, d

(* What the host sends of a frame, whole or not, can end only one frame, and
   only with its own checksum.                                             *)
EndsOnce(more, r) ==
  /\ more \in Seq(Bytes) /\ Len(more) >= 2
  /\ \A i \in 1..Len(more) : Head(more[i]) = -2 => i = Len(more)
  /\ Head(more[Len(more) - 1]) = -1 => more[Len(more) - 1] = Crc(-1, Body(r))

LEMMA SentEndsOnce ==
  ASSUME NEW r \in Fields, NEW k \in DOMAIN Frame(r)
  PROVE  /\ EndsOnce(Frame(r), r)
         /\ EndsOnce(Without(Frame(r), k), r)
         /\ EndsOnce([Frame(r) EXCEPT ![k] = <<-3>>], r)
<1> DEFINE n == Len(r.par)
           f == Frame(r)
           crc == Crc(-1, Body(r))
<1>1. n \in Nat
  BY DEF Fields
<1>2. /\ f \in Seq(Bytes) /\ Len(f) = 7 + n /\ \A i \in 1..5 + n : Head(f[i]) \in Nat
      /\ f[6 + n] = crc /\ Head(f[6 + n]) = -1
  BY FrameBytes, BodyIs, CrcIs
<1>3. k \in 1..7 + n
  BY <1>2
<1>4. \A m : EndsOnce(m, r) <=>
        /\ m \in Seq(Bytes) /\ Len(m) >= 2
        /\ \A i \in 1..Len(m) : Head(m[i]) = -2 => i = Len(m)
        /\ Head(m[Len(m) - 1]) = -1 => m[Len(m) - 1] = crc
  BY DEF EndsOnce
<1> HIDE DEF n, f, crc
<1>5. ASSUME NEW i \in 1..6 + n PROVE Head(f[i]) # -2 /\ (Head(f[i]) = -1 => i = 6 + n)
  <2>1. CASE i = 6 + n
    BY <1>2, <2>1
  <2>2. CASE i # 6 + n
    <3>1. i \in 1..5 + n
      BY <1>1, <2>2
    <3>2. Head(f[i]) \in Nat
      BY <1>2, <3>1
    <3> QED BY <2>2, <3>2
  <2> QED BY <2>1, <2>2
<1>6. \A i \in 1..7 + n : i # 7 + n => i \in 1..6 + n
  BY <1>1
<1>7. EndsOnce(f, r)
  <2>1. \A i \in 1..Len(f) : Head(f[i]) = -2 => i = Len(f)
    BY <1>2, <1>5, <1>6
  <2>2. Len(f) >= 2 /\ Len(f) - 1 = 6 + n
    BY <1>1, <1>2
  <2> QED BY <1>2, <1>4, <2>1, <2>2
<1>8. EndsOnce(Without(f, k), r)
  <2> DEFINE m == Without(f, k)
  <2>1. 6 + n \in Nat /\ Len(f) - 1 = 6 + n
    BY <1>1, <1>2
  <2>2. m = [i \in 1..6 + n |-> IF i < k THEN f[i] ELSE f[i + 1]]
    BY <1>2, <2>1 DEF Without
  <2> HIDE DEF m
  <2>3. ASSUME NEW i \in 1..6 + n
        PROVE  \E j \in 1..7 + n : m[i] = f[j] /\ (j = i \/ j = i + 1)
    <3>1. i \in 1..7 + n /\ i + 1 \in 1..7 + n
      BY <1>1
    <3> QED BY <2>2, <3>1
  <2>4. m \in [1..6 + n -> Bytes]
    <3>1. \A j \in 1..7 + n : f[j] \in Bytes
      BY <1>2
    <3> QED BY <2>2, <2>3, <3>1
  <2>5. m \in Seq(Bytes) /\ Len(m) = 6 + n
    <3>1. DOMAIN m = 1..6 + n
      BY <2>2
    <3> QED BY <2>1, <2>4, <3>1
  <2>6. ASSUME NEW i \in 1..6 + n, Head(m[i]) = -2 PROVE i = 6 + n
    <3>1. PICK j \in 1..7 + n : m[i] = f[j] /\ (j = i \/ j = i + 1)
      BY <2>3
    <3>2. j = 7 + n
      BY <1>5, <1>6, <2>6, <3>1
    <3> QED BY <1>1, <3>1, <3>2
  <2>7. Len(m) - 1 = 5 + n /\ 5 + n \in 1..6 + n /\ Len(m) >= 2
    BY <1>1, <2>5
  <2>8. ASSUME Head(m[5 + n]) = -1 PROVE m[5 + n] = crc
    <3>1. PICK j \in 1..7 + n : m[5 + n] = f[j] /\ (j = 5 + n \/ j = 5 + n + 1)
      BY <2>3, <2>7
    <3>2. j \in 1..6 + n
      BY <1>1, <3>1
    <3>3. j = 6 + n
      BY <1>5, <2>8, <3>1, <3>2
    <3> QED BY <1>2, <3>1, <3>3
  <2>9. EndsOnce(m, r)
    BY <1>4, <2>5, <2>6, <2>7, <2>8
  <2> QED BY <2>9 DEF m
<1>9. EndsOnce([f EXCEPT ![k] = <<-3>>], r)
  <2> DEFINE m == [f EXCEPT ![k] = <<-3>>]
  <2>1. <<-3>> \in Bytes /\ Head(<<-3>>) = -3
    BY DEF Bytes
  <2>2. m \in Seq(Bytes) /\ Len(m) = 7 + n /\ \A i \in 1..7 + n : m[i] = IF i = k THEN <<-3>> ELSE f[i]
    BY <1>2, <1>3, <2>1
  <2> HIDE DEF m
  <2>3. \A i \in 1..7 + n : Head(m[i]) = -2 => i = 7 + n
    BY <1>5, <1>6, <2>1, <2>2
  <2>4. 6 + n \in 1..7 + n /\ Len(m) - 1 = 6 + n /\ Len(m) >= 2
    BY <1>1, <2>2
  <2>5. Head(m[6 + n]) = -1 => m[6 + n] = crc
    BY <1>2, <2>1, <2>2, <2>4
  <2>6. EndsOnce(m, r)
    BY <1>4, <2>2, <2>3, <2>4, <2>5
  <2> QED BY <2>6 DEF m
<1> QED BY <1>7, <1>8, <1>9 DEF f

-----------------------------------------------------------------------------
(* A frame lies within the bytes. *)
LEMMA FrameWithin ==
  ASSUME NEW in \in Seq(Bytes), NEW k \in DOMAIN in, FrameAt(in, k)
  PROVE  /\ BlockFrom(in, k) \in Nat /\ k \in 1..Len(in) /\ Len(in) \in Nat
         /\ k + 6 + BlockFrom(in, k) <= Len(in)
<1> DEFINE b == BlockFrom(in, k)
           l == LastOf(in, k)
           n == Len(in)
<1>1. b \in 1..LongLen /\ l \in k + 7..n
  BY FrameIs
<1>2. k \in 1..n /\ n \in Nat
  OBVIOUS
<1>3. l = k + 6 + b
  BY DEF LastOf
<1> HIDE DEF b, l, n
<1>4. b \in Nat
  BY <1>1, LengthsAreNat
<1>5. k + 6 + b <= n
  BY <1>1, <1>2, <1>3, <1>4
<1> QED BY <1>2, <1>4, <1>5 DEF b, n

LEMMA SpanFits ==
  ASSUME NEW k \in Nat, NEW b \in Nat, NEW n \in Nat, k + 6 + b <= n
  PROVE  /\ 5 + b \in 0..n - k + 1 /\ k + (5 + b) - 1 = k + 4 + b
         /\ \A j \in 1..5 + b : j \in 1..n - k + 1
OBVIOUS

(* What the checksum of a frame covers. *)
LEMMA SpanIs ==
  ASSUME NEW in \in Seq(Bytes), NEW k \in DOMAIN in, FrameAt(in, k)
  PROVE  /\ SubSeq(in, k, k + 4 + BlockFrom(in, k)) \in Seq(Bytes)
         /\ Len(SubSeq(in, k, k + 4 + BlockFrom(in, k))) = 5 + BlockFrom(in, k)
         /\ \A j \in 1..5 + BlockFrom(in, k) :
              SubSeq(in, k, k + 4 + BlockFrom(in, k))[j] = in[k + j - 1]
<1> DEFINE b == BlockFrom(in, k)
<1>2. b \in Nat /\ k \in 1..Len(in) /\ Len(in) \in Nat /\ k + 6 + b <= Len(in)
  BY FrameWithin
<1> HIDE DEF b
<1>3. 5 + b \in 0..Len(in) - k + 1 /\ k + (5 + b) - 1 = k + 4 + b
  <2>1. k \in Nat
    BY <1>2
  <2> QED BY <1>2, <2>1, SpanFits, Zenon
<1> DEFINE n == 5 + b
<1>4. /\ SubSeq(in, k, k + n - 1) \in Seq(Bytes)
      /\ Len(SubSeq(in, k, k + n - 1)) = n
      /\ \A j \in 1..n : SubSeq(in, k, k + n - 1)[j] = in[k + j - 1]
  BY <1>2, <1>3, PieceIs
<1> QED BY <1>3, <1>4 DEF b

-----------------------------------------------------------------------------
(* With nothing that waits, a frame of the host leaves at most one to serve,
   and that one is the request.                                            *)
LEMMA AppendLive ==
  ASSUME NEW in \in Seq(Bytes), \A k \in DOMAIN in : ~Live(in, k),
         NEW more, NEW r, EndsOnce(more, r),
         NEW k \in DOMAIN (in \o more), Live(in \o more, k)
  PROVE  /\ LastOf(in \o more, k) = Len(in \o more)
         /\ (in \o more)[k + 5 + BlockFrom(in \o more, k)] = Crc(-1, Body(r))
<1> DEFINE to == in \o more
           b == BlockFrom(to, k)
           n == Len(in)
           m == Len(more)
<1>1. /\ more \in Seq(Bytes) /\ m >= 2 /\ \A i \in 1..m : Head(more[i]) = -2 => i = m
      /\ Head(more[m - 1]) = -1 => more[m - 1] = Crc(-1, Body(r))
  BY DEF EndsOnce
<1>2. /\ to \in Seq(Bytes) /\ Len(to) = n + m
      /\ \A j \in 1..n : to[j] = in[j]
      /\ \A j \in 1..m : to[n + j] = more[j]
  BY <1>1, AppendIs
<1>3. n \in Nat /\ m \in Nat /\ k \in 1..n + m
  BY <1>1, <1>2
<1>4. k \in DOMAIN to /\ FrameAt(to, k) /\ ~Covered(to, k)
  BY <1>2 DEF Live
<1>5. b \in 1..LongLen /\ LastOf(to, k) \in k + 7..Len(to) /\ Sealed(to, k)
  BY <1>2, <1>4, FrameIs
<1>6. b \in Nat /\ LastOf(to, k) = k + 6 + b /\ k + 6 + b <= n + m
  <2>1. LastOf(to, k) = k + 6 + b
    BY DEF LastOf
  <2>2. b \in Nat /\ k + 6 + b <= Len(to)
    BY <1>2, <1>4, FrameWithin
  <2> QED BY <1>2, <2>1, <2>2
<1>7. ~(k + 6 + b <= n)
  <2>1. SUFFICES ASSUME k + 6 + b <= n PROVE FALSE
    OBVIOUS
  <2>2. k \in DOMAIN in /\ k + 4 <= n /\ k + 4 \in 1..n /\ k \in Nat \ {0}
    BY <1>3, <1>6, <2>1
  <2>3. k + 4 <= Len(to)
    BY <1>2, <1>3, <2>2
  <2>4. BlockFrom(in, k) = b
    BY <1>1, <1>2, <2>2, <2>3, BlockFromByte
  <2>5. LastOf(in, k) <= Len(in)
    BY <2>1, <2>4 DEF LastOf
  <2>6. FrameAt(in, k)
    BY <1>1, <1>4, <2>2, <2>5, AppendKeepsFrame
  <2>7. Covered(in, k)
    BY <2>2, <2>6 DEF Live
  <2>8. Covered(to, k)
    BY <1>1, <2>2, <2>7, AppendKeepsCovered
  <2> QED BY <1>4, <2>8
<1> DEFINE piece == SubSeq(to, k, k + 4 + b)
<1>8. /\ piece \in Seq(Bytes)
      /\ to[k + 5 + b] = Crc(-1, piece)
      /\ to[k + 6 + b] = Crc(-2, piece)
  <2>1. to[k + 5 + b] = Crc(-1, piece) /\ to[k + 6 + b] = Crc(-2, piece)
    BY <1>5 DEF Sealed
  <2>3. piece \in Seq(Bytes)
    BY <1>2, <1>4, SpanIs
  <2> QED BY <2>1, <2>3
<1> HIDE DEF piece
<1>9. Head(to[k + 5 + b]) = -1 /\ Head(to[k + 6 + b]) = -2
  BY <1>8, CrcIs
<1> HIDE DEF to, b, n, m
<1>10. k + 6 + b = n + m
  <2> DEFINE j == k + 6 + b - n
  <2>1. j \in 1..m /\ n + j = k + 6 + b
    BY <1>3, <1>6, <1>7
  <2>2. Head(more[j]) = -2
    BY <1>2, <1>9, <2>1
  <2>3. j = m
    BY <1>1, <2>1, <2>2
  <2> QED BY <1>3, <1>6, <2>3
<1>11. to[k + 5 + b] = Crc(-1, Body(r))
  <2>1. m - 1 \in 1..m /\ n + (m - 1) = k + 5 + b
    BY <1>1, <1>3, <1>6, <1>10
  <2>2. to[k + 5 + b] = more[m - 1]
    BY <1>2, <2>1
  <2> QED BY <1>1, <1>9, <2>2
<1> QED BY <1>2, <1>6, <1>10, <1>11 DEF to, b

LEMMA AppendLiveOnce ==
  ASSUME NEW in \in Seq(Bytes), \A k \in DOMAIN in : ~Live(in, k),
         NEW more, NEW r, EndsOnce(more, r),
         NEW j \in DOMAIN (in \o more), Live(in \o more, j),
         NEW k \in DOMAIN (in \o more), Live(in \o more, k)
  PROVE  j = k
<1> DEFINE to == in \o more
           b == BlockFrom(to, j)
           c == BlockFrom(to, k)
<1>0. more \in Seq(Bytes)
  BY DEF EndsOnce
<1>1. to \in Seq(Bytes) /\ j \in DOMAIN to /\ k \in DOMAIN to /\ FrameAt(to, j) /\ FrameAt(to, k)
  BY <1>0, AppendIs DEF Live
<1>2. /\ LastOf(to, j) = Len(to) /\ to[j + 5 + b] = Crc(-1, Body(r))
      /\ LastOf(to, k) = Len(to) /\ to[k + 5 + c] = Crc(-1, Body(r))
  <2>1. LastOf(to, j) = Len(to) /\ to[j + 5 + b] = Crc(-1, Body(r))
    BY AppendLive, Zenon
  <2>2. LastOf(to, k) = Len(to) /\ to[k + 5 + c] = Crc(-1, Body(r))
    BY AppendLive, Zenon
  <2> QED BY <2>1, <2>2
<1>3. /\ b \in 1..LongLen /\ LastOf(to, j) \in j + 7..Len(to) /\ Sealed(to, j)
      /\ c \in 1..LongLen /\ LastOf(to, k) \in k + 7..Len(to) /\ Sealed(to, k)
  BY <1>1, FrameIs
<1>4. /\ to[j + 5 + b] = Crc(-1, SubSeq(to, j, j + 4 + b))
      /\ to[k + 5 + c] = Crc(-1, SubSeq(to, k, k + 4 + c))
  BY <1>3 DEF Sealed
<1>5. LastOf(to, j) = j + 6 + b /\ LastOf(to, k) = k + 6 + c
  BY DEF LastOf
<1>6. b \in Nat /\ c \in Nat /\ Len(to) \in Nat /\ j \in 1..Len(to) /\ k \in 1..Len(to)
  BY <1>1, FrameWithin
<1> HIDE DEF to, b, c
<1> DEFINE p == SubSeq(to, j, j + 4 + b)
           q == SubSeq(to, k, k + 4 + c)
<1>7. p \in Seq(Bytes) /\ Len(p) = 5 + b
  BY <1>1, SpanIs DEF b
<1>8. q \in Seq(Bytes) /\ Len(q) = 5 + c
  BY <1>1, SpanIs DEF c
<1> HIDE DEF p, q
<1>9. Crc(-1, p) = Crc(-1, q)
  BY <1>2, <1>4 DEF p, q
<1>10. Len(p) + 1 = Len(q) + 1
  <2>1. Len(Crc(-1, p)) = Len(p) + 1 /\ Len(Crc(-1, q)) = Len(q) + 1
    BY <1>7, <1>8, CrcIs
  <2> QED BY <1>9, <2>1
<1> QED BY <1>2, <1>5, <1>6, <1>7, <1>8, <1>10

(* The frame that the craft takes. *)
LEMMA FirstIsLive ==
  ASSUME NEW in \in Seq(Bytes), NEW k, First(in, k), FrameAt(in, k)
  PROVE  Live(in, k)
<1>1. ASSUME NEW i \in 1..k - 1, First(in, i) PROVE FALSE
  <2>1. i = k
    BY <1>1, FirstIsOne
  <2>2. k \in 1..Len(in)
    BY DEF First
  <2> QED BY <2>1, <2>2
<1> QED BY <1>1 DEF Live, Covered

(* What is left of the bytes behind the frame holds no frame that was not
   to be served before.                                                    *)
LEMMA DropLive ==
  ASSUME NEW in \in Seq(Bytes), NEW k, First(in, k), LastOf(in, k) \in 0..Len(in),
         NEW j \in DOMAIN SubSeq(in, LastOf(in, k) + 1, Len(in)),
         Live(SubSeq(in, LastOf(in, k) + 1, Len(in)), j)
  PROVE  /\ j + LastOf(in, k) \in DOMAIN in /\ Live(in, j + LastOf(in, k)) /\ j + LastOf(in, k) # k
         /\ SubSeq(in, LastOf(in, k) + 1, Len(in))
              [j + 5 + BlockFrom(SubSeq(in, LastOf(in, k) + 1, Len(in)), j)]
            = in[j + LastOf(in, k) + 5 + BlockFrom(in, j + LastOf(in, k))]
<1> DEFINE e == LastOf(in, k)
           rest == SubSeq(in, e + 1, Len(in))
<1>1. e \in 0..Len(in) /\ j \in DOMAIN rest /\ FrameAt(rest, j)
  BY DEF Live
<1>9. rest \in Seq(Bytes) /\ Len(rest) = Len(in) - e
  BY <1>1, DropIs
<1>10. rest = SubSeq(in, e + 1, Len(in))
  OBVIOUS
<1> HIDE DEF e, rest
<1>2. j \in 1..Len(in) - e
  BY <1>1, <1>9
<1>3. j + e \in DOMAIN in /\ BlockFrom(rest, j) = BlockFrom(in, j + e) /\ FrameAt(in, j + e)
      /\ \A i \in 1..Len(in) - e : rest[i] = in[i + e]
  BY <1>1, <1>2, <1>10, DropIs
<1>4. e < j + e /\ e \in Nat /\ j \in Nat
  BY <1>1, <1>2
<1>5. ~Covered(in, j + e)
  <2>1. ASSUME NEW i \in 1..(j + e) - 1, First(in, i), j + e <= LastOf(in, i) PROVE FALSE
    <3>1. LastOf(in, i) = e
      BY <2>1, FirstIsOne DEF e
    <3> QED BY <1>4, <2>1, <3>1
  <2> QED BY <2>1 DEF Covered
<1>6. j + e # k
  <2>1. k \in 1..Len(in)
    BY DEF First
  <2>2. ASSUME j + e = k PROVE FALSE
    <3>1. FrameAt(in, k) /\ k \in DOMAIN in
      BY <1>3, <2>2
    <3>2. e \in k + 7..Len(in)
      BY <3>1, FrameIs DEF e
    <3> QED BY <1>4, <2>1, <2>2, <3>2
  <2> QED BY <2>2
<1>7. rest[j + 5 + BlockFrom(rest, j)] = in[j + e + 5 + BlockFrom(in, j + e)]
  <2>1. BlockFrom(rest, j) \in 1..LongLen /\ LastOf(rest, j) \in j + 7..Len(rest)
    BY <1>1, <1>9, FrameIs
  <2>2. BlockFrom(rest, j) \in Nat /\ j + 6 + BlockFrom(rest, j) <= Len(rest)
    BY <2>1, LengthsAreNat DEF LastOf
  <2> DEFINE x == j + 5 + BlockFrom(rest, j)
  <2>3. x \in 1..Len(in) - e /\ x + e = j + e + 5 + BlockFrom(in, j + e)
    BY <1>3, <1>4, <1>9, <2>2
  <2> QED BY <1>3, <2>3
<1> QED BY <1>3, <1>5, <1>6, <1>7 DEF e, rest, Live

(* A frame with the checksum of a request is that request. *)
LEMMA ServedIsAsked ==
  ASSUME NEW in \in Seq(Bytes), NEW k \in DOMAIN in, FrameAt(in, k),
         NEW r \in Fields, in[k + 5 + BlockFrom(in, k)] = Crc(-1, Body(r))
  PROVE  Decoded(SubSeq(in, k, Len(in))) = Stripped(r)
<1> DEFINE b == BlockFrom(in, k)
           f == SubSeq(in, k, Len(in))
           piece == SubSeq(in, k, k + 4 + b)
           body == Body(r)
           n == Len(r.par)
<1>1. piece \in Seq(Bytes) /\ Len(piece) = 5 + b /\ \A j \in 1..5 + b : piece[j] = in[k + j - 1]
  BY SpanIs
<1>2. b \in 1..LongLen /\ LastOf(in, k) \in k + 7..Len(in) /\ Sealed(in, k)
  BY FrameIs
<1>3. b \in Nat /\ k \in 1..Len(in) /\ k + 6 + b <= Len(in) /\ Len(in) \in Nat
  BY FrameWithin
<1>4. Crc(-1, piece) = Crc(-1, body)
  BY <1>2 DEF Sealed
<1>17. /\ Len(Crc(-1, body)) = Len(body) + 1
       /\ \A j \in 1..Len(body) : Crc(-1, body)[j + 1] = Head(body[j])
  <2>1. body \in Seq(Bytes)
    BY BodyIs
  <2> HIDE DEF body
  <2> QED BY <2>1, CrcIs
<1>5. /\ body \in Seq(Bytes) /\ Len(body) = 5 + n /\ n \in Nat
      /\ \A i \in 1..5 : body[i] = <<Header(r)[i]>>
      /\ \A i \in 1..n : body[i + 5] = <<r.par[i]>>
  <2>1. n \in Nat
    BY DEF Fields
  <2> QED BY <2>1, BodyIs
<1>6. /\ f \in Seq(Bytes) /\ Len(f) = Len(in) - k + 1
      /\ \A j \in 1..Len(in) - k + 1 : f[j] = in[k + j - 1]
  BY <1>3, SuffixIs
<1>7. BlockLen(f) = b
  BY DEF BlockFrom
<1>8. Decoded(f) = Request(Head(f[2]), Head(f[3]), Head(f[4]), [i \in 1..b |-> Head(f[5 + i])], -1)
  BY <1>7 DEF Decoded
<1>9. Header(r) = <<47, r.cmd, r.addr, r.low, n>>
  BY DEF Header, Escape
<1> HIDE DEF b, f, piece, body, n
<1>10. /\ Len(Crc(-1, piece)) = 6 + b /\ Len(Crc(-1, body)) = 6 + n
       /\ \A j \in 1..5 + b : Crc(-1, piece)[j + 1] = Head(piece[j])
       /\ \A j \in 1..5 + n : Crc(-1, body)[j + 1] = Head(body[j])
  <2>1. Len(piece) + 1 = 6 + b /\ Len(body) + 1 = 6 + n
    BY <1>1, <1>3, <1>5
  <2>2. /\ Len(Crc(-1, piece)) = Len(piece) + 1
        /\ \A j \in 1..Len(piece) : Crc(-1, piece)[j + 1] = Head(piece[j])
    BY <1>1, CrcIs
  <2> QED BY <1>1, <1>5, <1>17, <2>1, <2>2
<1>11. b = n
  <2>1. 6 + b = 6 + n
    BY <1>4, <1>10
  <2> QED BY <1>3, <1>5, <2>1
<1>12. \A j \in 1..5 + n : Head(f[j]) = Head(body[j])
  <2> TAKE j \in 1..5 + n
  <2>1. j \in 1..5 + b /\ j \in 1..Len(in) - k + 1
    <3>1. j \in 1..5 + b
      BY <1>11
    <3>2. k \in Nat
      BY <1>3
    <3> QED BY <1>3, <3>1, <3>2, SpanFits, Zenon
  <2>2. f[j] = piece[j]
    BY <1>1, <1>6, <2>1, Zenon
  <2> QED BY <1>4, <1>10, <2>1, <2>2, Zenon
<1>13. Head(f[2]) = r.cmd /\ Head(f[3]) = r.addr /\ Head(f[4]) = r.low
  <2>1. /\ 2 \in 1..5 + n /\ 3 \in 1..5 + n /\ 4 \in 1..5 + n
        /\ 2 \in 1..5 /\ 3 \in 1..5 /\ 4 \in 1..5
    BY <1>5
  <2>2. Head(f[2]) = Head(body[2]) /\ Head(f[3]) = Head(body[3]) /\ Head(f[4]) = Head(body[4])
    BY <1>12, <2>1
  <2>3. body[2] = <<Header(r)[2]>> /\ body[3] = <<Header(r)[3]>> /\ body[4] = <<Header(r)[4]>>
    BY <1>5, <2>1
  <2>4. Header(r)[2] = r.cmd /\ Header(r)[3] = r.addr /\ Header(r)[4] = r.low
    BY <1>9
  <2>5. \A x : Head(<<x>>) = x
    OBVIOUS
  <2> QED BY <2>2, <2>3, <2>4, <2>5
<1>14. [i \in 1..b |-> Head(f[5 + i])] = r.par
  <2>1. ASSUME NEW i \in 1..n PROVE Head(f[5 + i]) = r.par[i]
    <3>1. 5 + i \in 1..5 + n /\ 5 + i = i + 5
      BY <1>5
    <3>2. Head(f[5 + i]) = Head(body[i + 5])
      BY <1>12, <3>1
    <3>3. body[i + 5] = <<r.par[i]>>
      BY <1>5
    <3>4. \A x : Head(<<x>>) = x
      OBVIOUS
    <3> QED BY <3>2, <3>3, <3>4
  <2>2. r.par \in Seq(Nat) /\ n = Len(r.par)
    BY DEF Fields, n
  <2>3. r.par = [i \in 1..n |-> r.par[i]]
    BY <2>2
  <2> QED BY <1>11, <2>1, <2>3
<1>15. Decoded(f) = Request(r.cmd, r.addr, r.low, r.par, -1)
  BY <1>8, <1>13, <1>14
<1>16. Stripped(r) = Request(r.cmd, r.addr, r.low, r.par, -1)
  <2>1. r = [cmd |-> r.cmd, addr |-> r.addr, low |-> r.low, par |-> r.par, want |-> r.want]
    BY DEF Fields
  <2> DEFINE q == [cmd |-> r.cmd, addr |-> r.addr, low |-> r.low, par |-> r.par, want |-> r.want]
  <2>2. [q EXCEPT !.want = -1] = [cmd |-> r.cmd, addr |-> r.addr, low |-> r.low, par |-> r.par, want |-> -1]
    OBVIOUS
  <2> QED BY <2>1, <2>2 DEF Stripped, Request
<1> QED BY <1>15, <1>16 DEF f

-----------------------------------------------------------------------------
(* What ReadFrame takes, and what it leaves. *)
LEMMA DecodedType ==
  ASSUME NEW f \in Seq(Bytes), Len(f) >= 5, Len(f) >= 7 + BlockLen(f)
  PROVE  Decoded(f) \in AnyRequest
<1> DEFINE b == BlockLen(f)
           par == [i \in 1..b |-> Head(f[5 + i])]
<1>1. b \in 1..LongLen
  BY BlockLenType
<1>2. Decoded(f) = Request(Head(f[2]), Head(f[3]), Head(f[4]), par, -1)
  BY DEF Decoded
<1> HIDE DEF b
<1>3. b \in Nat /\ b >= 1
  BY <1>1, LengthsAreNat
<1>4. \A j \in 1..Len(f) : Head(f[j]) \in Int
  <2> TAKE j \in 1..Len(f)
  <2>1. f[j] \in Bytes
    OBVIOUS
  <2>2. \A x \in Bytes : Head(x) \in Int
    BY DEF Bytes
  <2> QED BY <2>1, <2>2, Zenon
<1>5. 2 \in 1..Len(f) /\ 3 \in 1..Len(f) /\ 4 \in 1..Len(f) /\ \A i \in 1..b : 5 + i \in 1..Len(f)
  BY <1>3 DEF b
<1>6. par \in Seq(Int) /\ par # <<>>
  <2>1. par \in [1..b -> Int]
    BY <1>4, <1>5
  <2>2. par \in Seq(Int) /\ Len(par) = b
    <3> HIDE DEF par
    <3>1. par \in Seq(Int)
      BY <1>3, <2>1
    <3>2. DOMAIN par = 1..b
      BY <2>1
    <3> QED BY <1>3, <3>1, <3>2
  <2> HIDE DEF par
  <2> QED BY <1>3, <2>2
<1> HIDE DEF par
<1>7. Head(f[2]) \in Int /\ Head(f[3]) \in Int /\ Head(f[4]) \in Int
  BY <1>4, <1>5
<1> QED BY <1>2, <1>6, <1>7 DEF Request, AnyRequest

LEMMA FirstWhole ==
  ASSUME NEW in \in Seq(Bytes), NEW k, First(in, k), Whole(SubSeq(in, k, Len(in)))
  PROVE  /\ LastOf(in, k) \in 0..Len(in)
         /\ SubSeq(SubSeq(in, k, Len(in)), 8 + BlockLen(SubSeq(in, k, Len(in))),
                   Len(SubSeq(in, k, Len(in)))) = SubSeq(in, LastOf(in, k) + 1, Len(in))
         /\ Decoded(SubSeq(in, k, Len(in))) \in AnyRequest
         /\ CrcGood(SubSeq(in, k, Len(in))) => FrameAt(in, k)
<1> DEFINE f == SubSeq(in, k, Len(in))
           b == BlockLen(f)
           n == Len(in)
           e == LastOf(in, k)
<1>1. k \in 1..n /\ n \in Nat /\ in[k] = <<Escape>>
  BY DEF First
<1>2. f \in Seq(Bytes) /\ Len(f) = n - k + 1 /\ \A j \in 1..n - k + 1 : f[j] = in[k + j - 1]
  BY <1>1, SuffixIs
<1>3. Len(f) >= 5 /\ Len(f) >= 7 + b
  BY DEF Whole
<1>4. e = k + 6 + b
  BY DEF LastOf, BlockFrom
<1>5. b \in 1..LongLen /\ Decoded(f) \in AnyRequest
  BY <1>2, <1>3, BlockLenType, DecodedType
<1>6. CrcGood(f) => FrameAt(in, k)
  BY <1>1 DEF FrameAt
<1> HIDE DEF f, b, n, e
<1>7. b \in Nat
  BY <1>5, LengthsAreNat
<1>8. e \in 0..n /\ e \in Nat
  <2>1. 7 + b <= n - k + 1 /\ k \in Nat
    BY <1>1, <1>2, <1>3
  <2> QED BY <1>1, <1>4, <1>7, <2>1
<1>9. SubSeq(f, 8 + b, Len(f)) = SubSeq(in, e + 1, n)
  <2> DEFINE s == SubSeq(f, 8 + b, Len(f))
             t == SubSeq(in, e + 1, n)
  <2>1. 8 + b \in 1..Len(f) + 1 /\ e + 1 \in 1..n + 1
    BY <1>1, <1>2, <1>3, <1>7, <1>8
  <2>2. s \in Seq(Bytes) /\ Len(s) = Len(f) - (8 + b) + 1
        /\ \A j \in 1..Len(f) - (8 + b) + 1 : s[j] = f[(8 + b) + j - 1]
    BY <1>2, <2>1, SuffixIs
  <2>3. t \in Seq(Bytes) /\ Len(t) = n - (e + 1) + 1
        /\ \A j \in 1..n - (e + 1) + 1 : t[j] = in[(e + 1) + j - 1]
    BY <2>1, SuffixIs DEF n
  <2>4. Len(f) - (8 + b) + 1 = n - (e + 1) + 1
    BY <1>1, <1>2, <1>4, <1>7
  <2> HIDE DEF s, t
  <2>5. ASSUME NEW j \in 1..Len(s) PROVE s[j] = t[j]
    <3>1. /\ j \in 1..n - (e + 1) + 1 /\ j \in 1..Len(f) - (8 + b) + 1
      BY <2>2, <2>3, <2>4
    <3>2. /\ (8 + b) + j - 1 \in 1..n - k + 1
          /\ k + ((8 + b) + j - 1) - 1 = (e + 1) + j - 1
      BY <1>1, <1>2, <1>4, <1>7, <3>1
    <3>3. f[(8 + b) + j - 1] = in[k + ((8 + b) + j - 1) - 1]
      BY <1>2, <3>2
    <3> QED BY <2>2, <2>3, <3>1, <3>2, <3>3
  <2>6. s = t
    BY <2>2, <2>3, <2>4, <2>5, SeqEqual
  <2> QED BY <2>6 DEF s, t
<1> QED BY <1>5, <1>6, <1>8, <1>9 DEF f, b, n, e

LEMMA RoomBefore ==
  ASSUME NEW n \in Nat, NEW k \in 1..n, NEW i \in 1..k - 1, NEW c \in Nat, k + 6 + c <= n
  PROVE  n - i + 1 >= 5
OBVIOUS

(* Where nothing whole begins, nothing waits to be served. *)
LEMMA NothingWhole ==
  ASSUME NEW in \in Seq(Bytes), ~Whole(Sought(in)), NEW k \in DOMAIN in
  PROVE  ~Live(in, k)
<1>1. SUFFICES ASSUME FrameAt(in, k), ~Covered(in, k) PROVE FALSE
  BY DEF Live
<1>2. PICK i \in 1..k : First(in, i) /\ Sought(in) = SubSeq(in, i, Len(in))
  BY <1>1, FirstBefore
<1>3. i # k
  BY <1>1, <1>2 DEF FrameAt
<1> DEFINE f == SubSeq(in, i, Len(in))
           n == Len(in)
           b == BlockLen(f)
<1>4. i \in 1..n /\ k \in 1..n /\ n \in Nat /\ k + 6 + BlockFrom(in, k) <= n /\ BlockFrom(in, k) \in Nat
  <2>1. k + 6 + BlockFrom(in, k) <= n /\ BlockFrom(in, k) \in Nat
    BY <1>1, FrameWithin
  <2> QED BY <1>2, <2>1 DEF First
<1>5. f \in Seq(Bytes) /\ Len(f) = n - i + 1
  BY <1>4, SuffixIs
<1>6. LastOf(in, i) = i + 6 + b
  BY DEF LastOf, BlockFrom
<1>7. ~(Len(f) >= 5 /\ Len(f) >= 7 + b)
  BY <1>2 DEF Whole
<1>8. i \in 1..k - 1
  BY <1>2, <1>3, <1>4
<1>9. ~(k <= LastOf(in, i))
  BY <1>1, <1>2, <1>8 DEF Covered
<1> HIDE DEF f, n, b
<1>10. Len(f) >= 5
  <2>1. n - i + 1 >= 5
    BY <1>4, <1>8, RoomBefore, Zenon
  <2> QED BY <1>5, <2>1
<1>11. b \in Nat
  <2>1. b \in 1..LongLen
    BY <1>5, <1>10, BlockLenType DEF b
  <2> QED BY <2>1, LengthsAreNat
<1> QED BY <1>4, <1>5, <1>6, <1>7, <1>8, <1>9, <1>10, <1>11

-----------------------------------------------------------------------------
(* What the host asks for. *)
LEMMA RequestIs ==
  ASSUME NEW r \in Requests \cup {ExitRequest}
  PROVE  /\ r \in Fields /\ r.cmd # 0 /\ Len(r.par) \in 1..LongLen
         /\ r.cmd \in Accesses => r.addr \in {KeepAddress, r.want}
<1>1. CASE r \in Requests
  <2>1. /\ r \in [cmd : Nat \ {0}, addr : Nat, low : Nat, par : Seq(Nat), want : Cells \cup {-1}]
        /\ Len(r.par) \in 1..LongLen
        /\ r.cmd \in Accesses => r.addr \in {KeepAddress, r.want}
    BY <1>1, RequestAssumption
  <2>2. r \in Fields /\ r.cmd # 0
    BY <2>1 DEF Fields
  <2> QED BY <2>1, <2>2
<1>2. CASE r = ExitRequest
  <2>1. r = [cmd |-> 52, addr |-> 0, low |-> 0, par |-> <<0>>, want |-> -1]
    BY <1>2 DEF ExitRequest, Request, cmd
  <2>2. <<0>> \in Seq(Nat) /\ Len(<<0>>) = 1
    OBVIOUS
  <2>3. 52 \notin Accesses
    BY DEF Accesses, cmd
  <2>4. 1 \in 1..LongLen
    BY PassthroughAssumption
  <2>5. r \in Fields
    BY <2>1, <2>2 DEF Fields
  <2>6. r.cmd = 52 /\ r.par = <<0>>
    BY <2>1
  <2> QED BY <2>2, <2>3, <2>4, <2>5, <2>6
<1> QED BY <1>1, <1>2

LEMMA AskedIs == Asked \subseteq Fields /\ NoRequest \in Asked /\ NoRequest.cmd = 0
<1>1. Asked \subseteq Fields
  BY DEF Asked, Fields
<1>2. NoRequest = [cmd |-> 0, addr |-> 0, low |-> 0, par |-> <<0>>, want |-> -1]
  BY DEF NoRequest, Request
<1>3. <<0>> \in Seq(Nat) /\ Len(<<0>>) = 1 /\ 1 \in 1..LongLen /\ 0 \notin Accesses
  BY PassthroughAssumption DEF Accesses, cmd
<1>4. NoRequest \in [cmd : Nat, addr : Nat, low : Nat, par : Seq(Nat), want : Cells \cup {-1}]
  BY <1>2, <1>3
<1>5. NoRequest.cmd = 0 /\ NoRequest.par = <<0>>
  BY <1>2
<1> QED BY <1>1, <1>3, <1>4, <1>5 DEF Asked

(* The host asks: one frame, or what the line leaves of it. *)
LEMMA AsksIs ==
  ASSUME NEW r \in Requests \cup {ExitRequest}, HostAsks(r), TypeOK
  PROVE  /\ \E more : inbox' = inbox \o more /\ EndsOnce(more, r)
         /\ inbox' \in Seq(Bytes)
         /\ ask' \in Asked /\ ask' # NoRequest /\ Body(ask') = Body(r)
         /\ ask'.cmd = r.cmd /\ ask'.addr = r.addr
         /\ ask'.addr = KeepAddress => next # -1 /\ ask'.want = next
<1>1. r \in Fields /\ r.cmd # 0 /\ Len(r.par) \in 1..LongLen
      /\ (r.cmd \in Accesses => r.addr \in {KeepAddress, r.want})
  BY RequestIs
<1>2. \E more : inbox' = inbox \o more /\ EndsOnce(more, r)
  <2>1. CASE inbox' = inbox \o Frame(r)
    <3>1. 1 \in DOMAIN Frame(r)
      <4>1. Frame(r) \in Seq(Bytes) /\ Len(Frame(r)) = 7 + Len(r.par) /\ Len(r.par) \in Nat
        BY <1>1, FrameBytes DEF Fields
      <4> QED BY <4>1
    <3>2. EndsOnce(Frame(r), r)
      BY <1>1, <3>1, SentEndsOnce
    <3> QED BY <2>1, <3>2
  <2>2. ASSUME NEW k \in DOMAIN Frame(r), inbox' = inbox \o Without(Frame(r), k)
        PROVE  \E more : inbox' = inbox \o more /\ EndsOnce(more, r)
    <3>1. EndsOnce(Without(Frame(r), k), r)
      BY <1>1, SentEndsOnce
    <3> QED BY <2>2, <3>1
  <2>3. ASSUME NEW k \in DOMAIN Frame(r), inbox' = inbox \o [Frame(r) EXCEPT ![k] = <<-3>>]
        PROVE  \E more : inbox' = inbox \o more /\ EndsOnce(more, r)
    <3>1. EndsOnce([Frame(r) EXCEPT ![k] = <<-3>>], r)
      BY <1>1, SentEndsOnce
    <3> QED BY <2>3, <3>1
  <2>4. \/ inbox' = inbox \o Frame(r)
        \/ \E k \in DOMAIN Frame(r) : \/ inbox' = inbox \o Without(Frame(r), k)
                                      \/ inbox' = inbox \o [Frame(r) EXCEPT ![k] = <<-3>>]
    BY Zenon DEF HostAsks
  <2> QED BY <2>1, <2>2, <2>3, <2>4, Zenon
<1>3. inbox' \in Seq(Bytes)
  <2>1. PICK more : inbox' = inbox \o more /\ EndsOnce(more, r)
    BY <1>2
  <2>2. inbox \in Seq(Bytes) /\ more \in Seq(Bytes)
    BY <2>1 DEF TypeOK, EndsOnce
  <2> QED BY <2>1, <2>2, AppendIs
<1>4. /\ r.addr = KeepAddress => next # -1
      /\ ask' = IF r.addr = KeepAddress THEN [r EXCEPT !.want = next] ELSE r
  BY DEF HostAsks
<1>5. next \in Cells \cup {-1}
  BY DEF TypeOK
<1>6. /\ ask' \in Fields /\ ask'.cmd = r.cmd /\ ask'.addr = r.addr /\ ask'.low = r.low
      /\ ask'.par = r.par
      /\ r.addr = KeepAddress => ask'.want = next
      /\ r.addr # KeepAddress => ask'.want = r.want
  BY <1>1, <1>4, <1>5 DEF Fields
<1>7. ask'.cmd # 0 /\ ask' # NoRequest
  BY <1>1, <1>6, AskedIs
<1>8. Body(ask') = Body(r)
  BY <1>6 DEF Body, Header
<1>9. ask' \in Asked
  <2>1. ASSUME r.cmd \in Accesses PROVE ask'.want \in Cells /\ ask'.addr \in {KeepAddress, ask'.want}
    <3>1. CASE r.addr = KeepAddress
      BY <1>4, <1>5, <1>6, <3>1
    <3>2. CASE r.addr # KeepAddress
      <4>1. r.addr = r.want /\ ask'.want = r.want /\ ask'.addr = r.want
        BY <1>1, <1>6, <2>1, <3>2
      <4>2. r.want \in Cells \cup {-1} /\ r.addr \in Nat
        BY <1>1 DEF Fields
      <4>3. r.want \in Cells
        BY <4>1, <4>2
      <4> QED BY <4>1, <4>3
    <3> QED BY <3>1, <3>2
  <2>2. Len(ask'.par) \in 1..LongLen
    BY <1>1, <1>6
  <2>3. ask'.cmd \in Accesses => ask'.want \in Cells /\ ask'.addr \in {KeepAddress, ask'.want}
    BY <1>6, <2>1
  <2>4. ask' \in [cmd : Nat, addr : Nat, low : Nat, par : Seq(Nat), want : Cells \cup {-1}]
    BY <1>6 DEF Fields
  <2> QED BY <1>7, <2>2, <2>3, <2>4 DEF Asked
<1> QED BY <1>2, <1>3, <1>4, <1>6, <1>7, <1>8, <1>9

(* With one of these steps of the host, or of the craft, the line stays as
   LineInv says.                                                           *)
LEMMA LineAsks ==
  ASSUME TypeOK, LineInv, NEW r \in Requests \cup {ExitRequest}, HostAsks(r)
  PROVE  LineInv'
<1>1. PICK more : inbox' = inbox \o more /\ EndsOnce(more, r)
  BY AsksIs
<1>2. ask' # NoRequest /\ Body(ask') = Body(r)
  BY AsksIs
<1>3. inbox \in Seq(Bytes)
  BY DEF TypeOK
<1>4. ask = NoRequest /\ next' = -1 /\ pc' = pc /\ ack' = ack
  BY DEF HostAsks, craft
<1>5. \A k \in DOMAIN inbox : ~Live(inbox, k)
  BY <1>4 DEF LineInv
<1>6. ~Serving'
  BY <1>4 DEF LineInv, Serving
<1>7. ASSUME NEW k \in DOMAIN inbox', Live(inbox', k)
      PROVE  inbox'[k + 5 + BlockFrom(inbox', k)] = Crc(-1, Body(ask'))
  <2>1. k \in DOMAIN (inbox \o more) /\ Live(inbox \o more, k)
    BY <1>1, <1>7
  <2>2. (inbox \o more)[k + 5 + BlockFrom(inbox \o more, k)] = Crc(-1, Body(r))
    BY <1>1, <1>3, <1>5, <2>1, AppendLive, Zenon
  <2> QED BY <1>1, <1>2, <2>2, Zenon
<1>8. ASSUME NEW j \in DOMAIN inbox', Live(inbox', j), NEW k \in DOMAIN inbox', Live(inbox', k)
      PROVE  j = k
  <2>1. /\ k \in DOMAIN (inbox \o more) /\ Live(inbox \o more, k)
        /\ j \in DOMAIN (inbox \o more) /\ Live(inbox \o more, j)
    BY <1>1, <1>8
  <2> QED BY <1>1, <1>3, <1>5, <2>1, AppendLiveOnce, Zenon
<1> QED BY <1>2, <1>4, <1>6, <1>7, <1>8 DEF LineInv

LEMMA ReadIs ==
  ASSUME TypeOK, ReadFrame
  PROVE  \E k : /\ First(inbox, k) /\ LastOf(inbox, k) \in 0..Len(inbox)
                /\ inbox' = SubSeq(inbox, LastOf(inbox, k) + 1, Len(inbox))
                /\ inbox' \in Seq(Bytes)
                /\ req' = Decoded(SubSeq(inbox, k, Len(inbox))) /\ req' \in AnyRequest
                /\ \/ FrameAt(inbox, k) /\ pc' = "serve"
                   \/ pc' = "reply" /\ ack' = "InvalidCrc"
<1>1. inbox \in Seq(Bytes)
  BY DEF TypeOK
<1> DEFINE f == Sought(inbox)
<1>2. /\ Whole(f) /\ inbox' = SubSeq(f, 8 + BlockLen(f), Len(f)) /\ req' = Decoded(f)
      /\ \/ CrcGood(f) /\ pc' = "serve"
         \/ pc' = "reply" /\ ack' = "InvalidCrc"
  BY DEF ReadFrame
<1>3. f # <<>>
  <2>1. ~(Len(<<>>) >= 5)
    OBVIOUS
  <2> QED BY <1>2, <2>1 DEF Whole
<1>4. PICK k : First(inbox, k) /\ f = SubSeq(inbox, k, Len(inbox))
  BY <1>1, <1>3, SoughtIs
<1> HIDE DEF f
<1>5. /\ LastOf(inbox, k) \in 0..Len(inbox)
      /\ SubSeq(f, 8 + BlockLen(f), Len(f)) = SubSeq(inbox, LastOf(inbox, k) + 1, Len(inbox))
      /\ Decoded(f) \in AnyRequest
      /\ CrcGood(f) => FrameAt(inbox, k)
  BY <1>1, <1>2, <1>4, FirstWhole, Zenon
<1>6. inbox' = SubSeq(inbox, LastOf(inbox, k) + 1, Len(inbox))
  BY <1>2, <1>5
<1>7. inbox' \in Seq(Bytes)
  BY <1>1, <1>5, <1>6, DropIs
<1> QED BY <1>2, <1>4, <1>5, <1>6, <1>7

LEMMA LineReads ==
  ASSUME TypeOK, LineInv, ReadFrame
  PROVE  LineInv'
<1>1. PICK k : /\ First(inbox, k) /\ LastOf(inbox, k) \in 0..Len(inbox)
               /\ inbox' = SubSeq(inbox, LastOf(inbox, k) + 1, Len(inbox))
               /\ req' = Decoded(SubSeq(inbox, k, Len(inbox)))
               /\ \/ FrameAt(inbox, k) /\ pc' = "serve"
                  \/ pc' = "reply" /\ ack' = "InvalidCrc"
  BY ReadIs
<1>2. inbox \in Seq(Bytes) /\ ask \in Asked /\ ask' = ask /\ next' = next
  BY DEF TypeOK, ReadFrame, host
<1> DEFINE e == LastOf(inbox, k)
<1>3. ASSUME NEW j \in DOMAIN inbox', Live(inbox', j)
      PROVE  /\ j + e \in DOMAIN inbox /\ Live(inbox, j + e) /\ j + e # k
             /\ inbox'[j + 5 + BlockFrom(inbox', j)] = inbox[j + e + 5 + BlockFrom(inbox, j + e)]
  <2> DEFINE rest == SubSeq(inbox, LastOf(inbox, k) + 1, Len(inbox))
  <2>1. j \in DOMAIN rest /\ Live(rest, j)
    BY <1>1, <1>3
  <2>2. /\ j + e \in DOMAIN inbox /\ Live(inbox, j + e) /\ j + e # k
        /\ rest[j + 5 + BlockFrom(rest, j)] = inbox[j + e + 5 + BlockFrom(inbox, j + e)]
    BY <1>1, <1>2, <2>1, DropLive, Zenon
  <2> QED BY <1>1, <2>2, Zenon
<1>4. ASSUME NEW j \in DOMAIN inbox', Live(inbox', j)
      PROVE  ask' # NoRequest /\ inbox'[j + 5 + BlockFrom(inbox', j)] = Crc(-1, Body(ask'))
  BY <1>2, <1>3, <1>4, Zenon DEF LineInv
<1>5. ASSUME NEW i \in DOMAIN inbox', Live(inbox', i), NEW j \in DOMAIN inbox', Live(inbox', j)
      PROVE  i = j
  <2>1. i + e = j + e
    BY <1>3, <1>5, Zenon DEF LineInv
  <2>2. i \in Int /\ j \in Int /\ e \in Int
    <3>1. inbox' \in Seq(Bytes)
      BY ReadIs
    <3> QED BY <1>1, <3>1
  <2> HIDE DEF e
  <2> QED BY <2>1, <2>2
<1>6. Serving' => ask' # NoRequest /\ req' = Stripped(ask') /\ ~Unread'
  <2>1. SUFFICES ASSUME Serving' PROVE ask' # NoRequest /\ req' = Stripped(ask') /\ ~Unread'
    OBVIOUS
  <2>2. FrameAt(inbox, k)
    BY <1>1, <2>1 DEF Serving
  <2>3. Live(inbox, k) /\ k \in DOMAIN inbox
    <3>1. Live(inbox, k)
      BY <1>1, <1>2, <2>2, FirstIsLive
    <3> QED BY <1>1, <3>1 DEF First
  <2>4. ask # NoRequest /\ inbox[k + 5 + BlockFrom(inbox, k)] = Crc(-1, Body(ask))
    BY <2>3 DEF LineInv
  <2>5. ask \in Fields
    BY <1>2, AskedIs
  <2>6. req' = Stripped(ask)
    BY <1>1, <1>2, <2>2, <2>3, <2>4, <2>5, ServedIsAsked, Zenon
  <2>7. ASSUME NEW j \in DOMAIN inbox', Live(inbox', j) PROVE FALSE
    BY <1>3, <2>3, <2>7, Zenon DEF LineInv
  <2>8. Stripped(ask') = Stripped(ask)
    BY <1>2
  <2> QED BY <1>2, <2>4, <2>6, <2>7, <2>8 DEF Unread
<1>7. next' # -1 => ask' = NoRequest
  BY <1>2 DEF LineInv
<1> QED BY <1>4, <1>5, <1>6, <1>7, Zenon DEF LineInv

LEMMA LineGivesUp ==
  ASSUME TypeOK, LineInv, HostGivesUp
  PROVE  LineInv'
<1>1. /\ pc = "read" /\ ~Whole(Sought(inbox)) /\ ask' = NoRequest /\ inbox' = inbox /\ pc' = pc
      /\ inbox \in Seq(Bytes)
  BY DEF HostGivesUp, TypeOK
<1>2. \A k \in DOMAIN inbox' : ~Live(inbox', k)
  BY <1>1, NothingWhole
<1>3. ~Serving'
  BY <1>1 DEF Serving
<1> QED BY <1>1, <1>2, <1>3 DEF LineInv

LEMMA LineReplies ==
  ASSUME TypeOK, LineInv, WriteReply, ~crossed'
  PROVE  LineInv'
<1>1. inbox' = inbox /\ ~Serving'
  BY DEF WriteReply, Serving
<1>2. HostHears
  BY DEF WriteReply
<1>3. CASE UNCHANGED <<ask, next>>
  <2>1. Unread' = Unread
    BY <1>1 DEF Unread
  <2> QED BY <1>1, <1>3 DEF LineInv
<1>4. CASE /\ ask' = NoRequest /\ crossed' = (crossed \/ (ack = "InvalidCrc" /\ FrameWaits))
  <2>1. \A k \in DOMAIN inbox : ~Live(inbox, k)
    <3>1. CASE ack = "InvalidCrc"
      <4>1. ~FrameWaits
        BY <1>4, <3>1, Zenon
      <4> QED BY <4>1 DEF FrameWaits, Live
    <3>2. CASE ack # "InvalidCrc"
      <4>1. Serving
        BY <3>2 DEF Serving, WriteReply
      <4> QED BY <4>1 DEF LineInv, Unread
    <3> QED BY <3>1, <3>2
  <2> QED BY <1>1, <1>4, <2>1 DEF LineInv
<1> QED BY <1>2, <1>3, <1>4, Zenon DEF HostHears

(* While a frame is served the line rests. *)
LEMMA LineRests ==
  ASSUME LineInv, UNCHANGED <<inbox, ask, next>>, Serving' => Serving /\ req' = req
  PROVE  LineInv'
<1>1. Unread' = Unread
  BY DEF Unread
<1>2. Stripped(ask') = Stripped(ask)
  OBVIOUS
<1> QED BY <1>1, <1>2 DEF LineInv

-----------------------------------------------------------------------------
(* What an ESC does with a message. *)
LEMMA EscIs ==
  ASSUME NEW e \in EscType
  PROVE  /\ e.kind \in Kinds /\ e.linked \in BOOLEAN /\ e.at \in Int /\ e.announced \in BOOLEAN
         /\ e.buffer \in [set : BOOLEAN, d : Int] /\ e.flash \in Memory /\ e.eeprom \in Memory
         /\ MovedOn(e) \in EscType /\ Restarted(e) \in EscType
         /\ MovedOn(e) = [e EXCEPT !.at = MovedOn(e).at]
         /\ MovedOn(e).at = IF e.at + 1 \in Cells THEN e.at + 1 ELSE e.at
         /\ MovedOn(e).flash = e.flash /\ MovedOn(e).eeprom = e.eeprom /\ MovedOn(e).kind = e.kind
         /\ MovedOn(e).linked = e.linked /\ MovedOn(e).buffer = e.buffer
         /\ Restarted(e).flash = e.flash /\ Restarted(e).eeprom = e.eeprom
         /\ Restarted(e).kind = e.kind /\ Restarted(e).linked = FALSE
<1>1. /\ e.kind \in Kinds /\ e.linked \in BOOLEAN /\ e.at \in Int /\ e.announced \in BOOLEAN
      /\ e.buffer \in [set : BOOLEAN, d : Int] /\ e.flash \in Memory /\ e.eeprom \in Memory
  BY DEF EscType
<1>2. NoBuffer \in [set : BOOLEAN, d : Int]
  BY DEF NoBuffer
<1>3. MovedOn(e) \in EscType /\ Restarted(e) \in EscType
  <2>1. Restarted(e) \in EscType
    <3> DEFINE e1 == [e EXCEPT !.linked = FALSE]
               e2 == [e1 EXCEPT !.at = 0]
               e3 == [e2 EXCEPT !.announced = FALSE]
               e4 == [e3 EXCEPT !.buffer = NoBuffer]
    <3>1. e1 \in EscType
      BY DEF EscType
    <3>2. e2 \in EscType
      <4> HIDE DEF e1
      <4> QED BY <3>1 DEF EscType
    <3>3. e3 \in EscType
      <4> HIDE DEF e2
      <4> QED BY <3>2 DEF EscType
    <3>4. e4 \in EscType
      <4> HIDE DEF e3
      <4> QED BY <1>2, <3>3 DEF EscType
    <3>5. Restarted(e) = e4
      BY DEF Restarted
    <3> QED BY <3>4, <3>5
  <2>2. \A a \in Int : [e EXCEPT !.at = a] \in EscType
    BY DEF EscType
  <2>3. (IF e.at + 1 \in Cells THEN e.at + 1 ELSE e.at) \in Int
    BY <1>1
  <2> QED BY <2>1, <2>2, <2>3 DEF MovedOn
<1>4. /\ MovedOn(e) = [e EXCEPT !.at = MovedOn(e).at]
      /\ MovedOn(e).at = IF e.at + 1 \in Cells THEN e.at + 1 ELSE e.at
      /\ MovedOn(e).flash = e.flash /\ MovedOn(e).eeprom = e.eeprom /\ MovedOn(e).kind = e.kind
      /\ MovedOn(e).linked = e.linked /\ MovedOn(e).buffer = e.buffer
  BY DEF EscType, MovedOn
<1>5. /\ Restarted(e).flash = e.flash /\ Restarted(e).eeprom = e.eeprom
      /\ Restarted(e).kind = e.kind /\ Restarted(e).linked = FALSE
  BY DEF EscType, Restarted
<1> QED BY <1>1, <1>3, <1>4, <1>5

LEMMA StoreType ==
  ASSUME NEW e \in EscType, NEW d \in Int
  PROVE  /\ [e EXCEPT !.flash[e.at] = d] \in EscType
         /\ [e EXCEPT !.eeprom[e.at] = d] \in EscType
         /\ [e EXCEPT !.flash = [c \in Cells |-> IF c \in PageOf(e.kind, e.at) THEN Blank ELSE @[c]]] \in EscType
         /\ [e EXCEPT !.flash = [c \in Cells |-> Blank]] \in EscType
<1>1. /\ [e.flash EXCEPT ![e.at] = d] \in Memory /\ [e.eeprom EXCEPT ![e.at] = d] \in Memory
  BY EscIs DEF Memory
<1>2. Blank \in Int
  BY BootloaderAssumption
<1>3. /\ [c \in Cells |-> IF c \in PageOf(e.kind, e.at) THEN Blank ELSE e.flash[c]] \in Memory
      /\ [c \in Cells |-> Blank] \in Memory
  <2>1. e.flash \in Memory
    BY EscIs
  <2>2. \A c \in Cells : (IF c \in PageOf(e.kind, e.at) THEN Blank ELSE e.flash[c]) \in Int
    BY <1>2, <2>1 DEF Memory
  <2> QED BY <1>2, <2>2 DEF Memory
<1>4. \A m \in Memory : [e EXCEPT !.flash = m] \in EscType /\ [e EXCEPT !.eeprom = m] \in EscType
  BY DEF EscType
<1>5. /\ [e EXCEPT !.flash[e.at] = d] = [e EXCEPT !.flash = [e.flash EXCEPT ![e.at] = d]]
      /\ [e EXCEPT !.eeprom[e.at] = d] = [e EXCEPT !.eeprom = [e.eeprom EXCEPT ![e.at] = d]]
  BY DEF EscType
<1> QED BY <1>1, <1>3, <1>4, <1>5

(* Which part of the ESC a message meets. *)
LEMMA ReactionIs ==
  ASSUME NEW e, NEW msg, NEW crc
  PROVE  \/ Reaction(e, msg, crc).esc = e
         \/ Reaction(e, msg, crc).esc = [e EXCEPT !.linked = TRUE]
         \/ Reaction(e, msg, crc) = BlReaction(e, msg)
         \/ IsStk(msg) /\ Reaction(e, msg, crc) = StkReaction(e, msg)
<1>0. \A x, s, d : Says(x, s, d).esc = x
  BY DEF Says
<1>1. CASE IsStk(msg)
  <2>1. CASE e.kind = "SK"
    BY <1>1, <2>1 DEF Reaction
  <2>2. CASE e.kind # "SK"
    BY <1>0, <1>1, <2>2 DEF Reaction
  <2> QED BY <2>1, <2>2
<1>2. CASE ~IsStk(msg)
  <2>1. CASE e.kind = "SK"
    BY <1>0, <1>2, <2>1 DEF Reaction
  <2>2. CASE e.kind # "SK" /\ msg.op = "init"
    BY <1>0, <1>2, <2>2 DEF Reaction
  <2>3. CASE e.kind # "SK" /\ msg.op # "init"
    BY <1>0, <1>2, <2>3 DEF Reaction
  <2> QED BY <2>1, <2>2, <2>3
<1> QED BY <1>1, <1>2

LEMMA ReactionType ==
  ASSUME NEW e \in EscType, NEW msg, msg.arg \in Int, NEW crc \in BOOLEAN
  PROVE  Reaction(e, msg, crc).esc \in EscType /\ Reaction(e, msg, crc).esc.kind = e.kind
<1>1. /\ \A d \in Int : [e EXCEPT !.at = d] \in EscType /\ [e EXCEPT !.at = d].kind = e.kind
      /\ \A d \in BOOLEAN : /\ [e EXCEPT !.announced = d] \in EscType
                            /\ [e EXCEPT !.announced = d].kind = e.kind
                            /\ [e EXCEPT !.linked = d] \in EscType
                            /\ [e EXCEPT !.linked = d].kind = e.kind
  BY DEF EscType
<1>2. \A x, s, d : Says(x, s, d).esc = x
  BY DEF Says
<1>3. BlReaction(e, msg).esc \in EscType /\ BlReaction(e, msg).esc.kind = e.kind
  <2> DEFINE q == [e EXCEPT !.announced = FALSE]
  <2>1. q \in EscType /\ q.kind = e.kind
    BY <1>1
  <2> HIDE DEF q
  <2>2. /\ MovedOn(q) \in EscType /\ MovedOn(q).kind = e.kind
        /\ Restarted(q) \in EscType /\ Restarted(q).kind = e.kind
    BY <2>1, EscIs
  <2>3. ASSUME NEW m \in {"flash", "eeprom"}
        PROVE  /\ MovedOn([q EXCEPT ![m][q.at] = q.buffer.d]) \in EscType
               /\ MovedOn([q EXCEPT ![m][q.at] = q.buffer.d]).kind = e.kind
    <3>1. q.buffer.d \in Int
      BY <2>1, EscIs
    <3>2. [q EXCEPT ![m][q.at] = q.buffer.d] \in EscType
      BY <2>1, <3>1, StoreType
    <3>3. [q EXCEPT ![m][q.at] = q.buffer.d].kind = e.kind
      BY <2>1 DEF EscType
    <3> QED BY <3>2, <3>3, EscIs
  <2>4. /\ [q EXCEPT !.at = msg.arg] \in EscType /\ [q EXCEPT !.at = msg.arg].kind = e.kind
        /\ [q EXCEPT !.announced = TRUE] \in EscType /\ [q EXCEPT !.announced = TRUE].kind = e.kind
        /\ [q EXCEPT !.buffer = [set |-> TRUE, d |-> msg.arg]] \in EscType
        /\ [q EXCEPT !.buffer = [set |-> TRUE, d |-> msg.arg]].kind = e.kind
    BY <2>1 DEF EscType
  <2>5. /\ [q EXCEPT !.flash = [c \in Cells |-> IF c \in PageOf(q.kind, q.at) THEN Blank ELSE @[c]]] \in EscType
        /\ [q EXCEPT !.flash = [c \in Cells |-> IF c \in PageOf(q.kind, q.at) THEN Blank ELSE @[c]]].kind = e.kind
    <3>1. 0 \in Int
      OBVIOUS
    <3>2. \A f : [q EXCEPT !.flash = f].kind = q.kind
      BY <2>1 DEF EscType
    <3> QED BY <2>1, <3>1, <3>2, StoreType
  <2>6. q = [e EXCEPT !.announced = FALSE]
    BY DEF q
  <2>7. \/ BlReaction(e, msg).esc = q
        \/ BlReaction(e, msg).esc = MovedOn(q)
        \/ BlReaction(e, msg).esc = Restarted(q)
        \/ BlReaction(e, msg).esc = [q EXCEPT !.at = msg.arg]
        \/ BlReaction(e, msg).esc = [q EXCEPT !.announced = TRUE]
        \/ BlReaction(e, msg).esc = [q EXCEPT !.buffer = [set |-> TRUE, d |-> msg.arg]]
        \/ \E m \in {"flash", "eeprom"} : BlReaction(e, msg).esc = MovedOn([q EXCEPT ![m][q.at] = q.buffer.d])
        \/ BlReaction(e, msg).esc = [q EXCEPT !.flash = [c \in Cells |-> IF c \in PageOf(q.kind, q.at) THEN Blank ELSE @[c]]]
    <3>1. CASE msg.op = "address"
      BY <1>2, <3>1 DEF BlReaction, q
    <3>2. CASE msg.op = "buffer"
      BY <1>2, <3>2 DEF BlReaction, q
    <3>3. CASE msg.op = "fill"
      BY <1>2, <3>3 DEF BlReaction, q
    <3>4. CASE msg.op = "program"
      BY <1>2, <3>4 DEF BlReaction, q
    <3>5. CASE msg.op = "programEE"
      BY <1>2, <3>5 DEF BlReaction, q
    <3>6. CASE msg.op = "read"
      BY <1>2, <3>6 DEF BlReaction, q
    <3>7. CASE msg.op = "readAtm"
      BY <1>2, <3>7 DEF BlReaction, q
    <3>8. CASE msg.op = "readEE"
      BY <1>2, <3>8 DEF BlReaction, q
    <3>9. CASE msg.op = "verify"
      BY <1>2, <3>9 DEF BlReaction, q
    <3>10. CASE msg.op = "erase"
      BY <1>2, <3>10 DEF BlReaction, q
    <3>11. CASE msg.op = "run"
      BY <1>2, <3>11 DEF BlReaction, q
    <3>12. CASE /\ msg.op # "address" /\ msg.op # "buffer" /\ msg.op # "fill" /\ msg.op # "program" /\ msg.op # "programEE" /\ msg.op # "read" /\ msg.op # "readAtm"
                /\ msg.op # "readEE" /\ msg.op # "verify" /\ msg.op # "erase" /\ msg.op # "run"
      <4>1. BlReaction(e, msg) = Says(q, "unknown", 0)
        BY <3>12, Zenon DEF BlReaction, q
      <4> QED BY <1>2, <4>1
    <3> QED BY <3>1, <3>2, <3>3, <3>4, <3>5, <3>6, <3>7, <3>8, <3>9, <3>10, <3>11, <3>12
  <2> QED BY <2>1, <2>2, <2>3, <2>4, <2>5, <2>7
<1>4. IsStk(msg) => StkReaction(e, msg).esc \in EscType /\ StkReaction(e, msg).esc.kind = e.kind
  <2>1. MovedOn(e) \in EscType /\ MovedOn(e).kind = e.kind
    BY EscIs
  <2>2. ASSUME NEW m \in {"flash", "eeprom"}
        PROVE  /\ MovedOn([e EXCEPT ![m][e.at] = msg.arg]) \in EscType
               /\ MovedOn([e EXCEPT ![m][e.at] = msg.arg]).kind = e.kind
    <3>2. [e EXCEPT ![m][e.at] = msg.arg] \in EscType
      BY StoreType
    <3>3. [e EXCEPT ![m][e.at] = msg.arg].kind = e.kind
      BY DEF EscType
    <3> QED BY <3>2, <3>3, EscIs
  <2>3. [e EXCEPT !.flash = [c \in Cells |-> Blank]] \in EscType
    <3>1. 0 \in Int
      OBVIOUS
    <3> QED BY <3>1, StoreType
  <2>4. [e EXCEPT !.flash = [c \in Cells |-> Blank]].kind = e.kind
    BY DEF EscType
  <2>5. \/ StkReaction(e, msg).esc = e
        \/ StkReaction(e, msg).esc = MovedOn(e)
        \/ StkReaction(e, msg).esc = [e EXCEPT !.linked = TRUE]
        \/ StkReaction(e, msg).esc = [e EXCEPT !.at = msg.arg]
        \/ \E m \in {"flash", "eeprom"} : StkReaction(e, msg).esc = MovedOn([e EXCEPT ![m][e.at] = msg.arg])
        \/ StkReaction(e, msg).esc = [e EXCEPT !.flash = [c \in Cells |-> Blank]]
        \/ ~IsStk(msg)
    BY <1>2 DEF StkReaction, IsStk
  <2> QED BY <1>1, <2>1, <2>2, <2>3, <2>4, <2>5
<1>5. [e EXCEPT !.linked = TRUE] \in EscType /\ [e EXCEPT !.linked = TRUE].kind = e.kind
  BY <1>1
<1>6. \/ Reaction(e, msg, crc).esc = e
      \/ Reaction(e, msg, crc).esc = [e EXCEPT !.linked = TRUE]
      \/ Reaction(e, msg, crc) = BlReaction(e, msg)
      \/ IsStk(msg) /\ Reaction(e, msg, crc) = StkReaction(e, msg)
  BY ReactionIs
<1> QED BY <1>3, <1>4, <1>5, <1>6

-----------------------------------------------------------------------------
(* Which ESC answers which message. *)
LEMMA TalksBl ==
  ASSUME NEW e \in EscType, NEW msg, NEW crc \in BOOLEAN, e.kind \in BlModes,
         ~IsStk(msg), msg.op # "init"
  PROVE  Reaction(e, msg, crc) = IF e.linked /\ crc THEN BlReaction(e, msg) ELSE Says(e, "none", 0)
BY DEF Reaction, BlModes

LEMMA TalksStk ==
  ASSUME NEW e \in EscType, NEW msg, NEW crc \in BOOLEAN, e.kind = "SK",
         IsStk(msg), msg.op # "signOn"
  PROVE  Reaction(e, msg, crc) = IF e.linked THEN StkReaction(e, msg) ELSE Says(e, "none", 0)
<1>1. Reaction(e, msg, crc) = StkReaction(e, msg)
  BY DEF Reaction
<1>2. ~e.linked => StkReaction(e, msg) = Says(e, "none", 0)
  BY DEF StkReaction
<1> QED BY <1>1, <1>2

LEMMA SaysIs ==
  ASSUME NEW x, NEW s, NEW d
  PROVE  Says(x, s, d).esc = x /\ Says(x, s, d).says = s /\ Says(x, s, d).d = d
BY DEF Says

LEMMA MessageIs ==
  ASSUME NEW o, NEW a, NEW w
  PROVE  Message(o, a, w).op = o /\ Message(o, a, w).arg = a /\ Message(o, a, w).wants = w
BY DEF Message

(* A linked BLHeli bootloader first forgets an announcement. *)
LEMMA UnannouncedIs ==
  ASSUME NEW e \in EscType
  PROVE  LET q == [e EXCEPT !.announced = FALSE] IN
         /\ q \in EscType
         /\ q.kind = e.kind /\ q.linked = e.linked /\ q.at = e.at /\ q.buffer = e.buffer
         /\ q.flash = e.flash /\ q.eeprom = e.eeprom
BY DEF EscType

(* Messages that store nothing. *)
Storing == {"program", "programEE", "erase", "stkProgram", "stkProgramEE", "stkErase"}

LEMMA QuietIs ==
  ASSUME NEW e \in EscType, NEW msg, NEW crc \in BOOLEAN, msg.op \notin Storing
  PROVE  /\ Reaction(e, msg, crc).esc.flash = e.flash
         /\ Reaction(e, msg, crc).esc.eeprom = e.eeprom
<1> DEFINE Same(x) == x.flash = e.flash /\ x.eeprom = e.eeprom
<1>1. Same(BlReaction(e, msg).esc)
  <2> DEFINE q == [e EXCEPT !.announced = FALSE]
  <2>1. q \in EscType /\ Same(q)
    BY UnannouncedIs
  <2> HIDE DEF q
  <2>2. Same(MovedOn(q)) /\ Same(Restarted(q))
    BY <2>1, EscIs
  <2>3. \A a : Same([q EXCEPT !.at = a]) /\ Same([q EXCEPT !.announced = a]) /\ Same([q EXCEPT !.buffer = a])
    BY <2>1 DEF EscType
  <2>4. BlReaction(e, msg).esc \in {q, MovedOn(q), Restarted(q), [q EXCEPT !.at = msg.arg],
                                    [q EXCEPT !.announced = TRUE],
                                    [q EXCEPT !.buffer = [set |-> TRUE, d |-> msg.arg]]}
    <3>1. CASE msg.op = "address"
      BY <3>1, SaysIs DEF BlReaction, q
    <3>2. CASE msg.op = "buffer"
      BY <3>2, SaysIs DEF BlReaction, q
    <3>3. CASE msg.op = "fill"
      BY <3>3, SaysIs DEF BlReaction, q
    <3>4. CASE msg.op \in {"read", "readAtm"}
      BY <3>4, SaysIs DEF BlReaction, q
    <3>5. CASE msg.op = "readEE"
      BY <3>5, SaysIs DEF BlReaction, q
    <3>6. CASE msg.op = "verify"
      BY <3>6, SaysIs DEF BlReaction, q
    <3>7. CASE msg.op = "run"
      BY <3>7, SaysIs DEF BlReaction, q
    <3>8. CASE /\ msg.op # "address" /\ msg.op # "buffer" /\ msg.op # "fill" /\ msg.op # "read"
               /\ msg.op # "readAtm" /\ msg.op # "readEE" /\ msg.op # "verify" /\ msg.op # "run"
      <4>1. msg.op # "program" /\ msg.op # "programEE" /\ msg.op # "erase"
        BY DEF Storing
      <4>2. BlReaction(e, msg) = Says(q, "unknown", 0)
        BY <3>8, <4>1, Zenon DEF BlReaction, q
      <4> QED BY <4>2, SaysIs
    <3> QED BY <3>1, <3>2, <3>3, <3>4, <3>5, <3>6, <3>7, <3>8
  <2>5. Same([q EXCEPT !.buffer = [set |-> TRUE, d |-> msg.arg]])
    BY <2>3
  <2> HIDE DEF Same
  <2> QED BY <2>1, <2>2, <2>3, <2>4, <2>5
<1>2. IsStk(msg) => Same(StkReaction(e, msg).esc)
  <2>1. Same(MovedOn(e))
    BY EscIs
  <2>2. \A a : Same([e EXCEPT !.at = a]) /\ Same([e EXCEPT !.linked = a])
    BY DEF EscType
  <2>3. IsStk(msg) => StkReaction(e, msg).esc \in {e, MovedOn(e), [e EXCEPT !.at = msg.arg], [e EXCEPT !.linked = TRUE]}
    BY SaysIs DEF StkReaction, IsStk, Storing
  <2> QED BY <2>1, <2>2, <2>3
<1>3. Same([e EXCEPT !.linked = TRUE])
  BY DEF EscType
<1>4. \/ Reaction(e, msg, crc).esc = e
      \/ Reaction(e, msg, crc).esc = [e EXCEPT !.linked = TRUE]
      \/ Reaction(e, msg, crc) = BlReaction(e, msg)
      \/ IsStk(msg) /\ Reaction(e, msg, crc) = StkReaction(e, msg)
  BY ReactionIs
<1> QED BY <1>1, <1>2, <1>3, <1>4

(* Address, announcement and block, heard. *)
LEMMA AddressHeard ==
  ASSUME NEW e \in EscType, NEW crc \in BOOLEAN, NEW a \in Int,
         NEW msg \in {Message("load", a, "ok"), Message("address", a, "success")},
         msg.op = "load" <=> e.kind = "SK", e.kind \in BlModes \cup {"SK"},
         Accepted(msg, Reaction(e, msg, crc).says)
  PROVE  Reaction(e, msg, crc).esc.at = a
<1>1. CASE msg = Message("load", a, "ok")
  <2>1. msg.op = "load" /\ msg.arg = a /\ msg.wants = "ok" /\ e.kind = "SK"
    BY <1>1, MessageIs
  <2>2. IsStk(msg)
    BY <2>1 DEF IsStk
  <2>3. Reaction(e, msg, crc).says = "ok"
    BY <2>1 DEF Accepted
  <2>4. e.linked /\ Reaction(e, msg, crc) = StkReaction(e, msg)
    BY <2>1, <2>2, <2>3, TalksStk, SaysIs
  <2>5. StkReaction(e, msg).esc = [e EXCEPT !.at = a]
    BY <2>1, <2>4, SaysIs DEF StkReaction
  <2> QED BY <2>4, <2>5 DEF EscType
<1>2. CASE msg = Message("address", a, "success")
  <2>1. msg.op = "address" /\ msg.arg = a /\ msg.wants = "success"
    BY <1>2, MessageIs
  <2>2. ~IsStk(msg) /\ e.kind \in BlModes
    BY <2>1 DEF IsStk
  <2>3. Reaction(e, msg, crc).says = "success"
    BY <2>1 DEF Accepted
  <2>4. Reaction(e, msg, crc) = BlReaction(e, msg)
    BY <2>1, <2>2, <2>3, TalksBl, SaysIs
  <2> DEFINE q == [e EXCEPT !.announced = FALSE]
  <2>5. BlReaction(e, msg).esc = [q EXCEPT !.at = a]
    BY <2>1, SaysIs DEF BlReaction
  <2>6. q \in EscType
    BY UnannouncedIs
  <2>7. [q EXCEPT !.at = a].at = a
    <3> HIDE DEF q
    <3> QED BY <2>6 DEF EscType
  <2> QED BY <2>4, <2>5, <2>7
<1> QED BY <1>1, <1>2

LEMMA AnnounceIs ==
  ASSUME NEW e \in EscType, NEW crc \in BOOLEAN, e.kind \in BlModes
  PROVE  /\ Reaction(e, Announce, crc).esc.at = e.at
         /\ Reaction(e, Announce, crc).esc.linked = e.linked
<1>1. Announce.op = "buffer"
  BY MessageIs DEF Announce
<1>2. ~IsStk(Announce)
  BY <1>1 DEF IsStk
<1> DEFINE q == [e EXCEPT !.announced = FALSE]
<1>3. BlReaction(e, Announce).esc = [q EXCEPT !.announced = TRUE]
  BY <1>1, SaysIs DEF BlReaction
<1>4. q \in EscType /\ q.at = e.at /\ q.linked = e.linked
  BY UnannouncedIs
<1>5. [q EXCEPT !.announced = TRUE].at = e.at /\ [q EXCEPT !.announced = TRUE].linked = e.linked
  <2> HIDE DEF q
  <2> QED BY <1>4 DEF EscType
<1>6. Reaction(e, Announce, crc) = BlReaction(e, Announce) \/ Reaction(e, Announce, crc).esc = e
  BY <1>1, <1>2, TalksBl, SaysIs
<1> QED BY <1>3, <1>5, <1>6

LEMMA FillHeard ==
  ASSUME NEW e \in EscType, NEW crc \in BOOLEAN, e.kind \in BlModes,
         Accepted(Fill, Reaction(e, Fill, crc).says)
  PROVE  /\ Reaction(e, Fill, crc).esc.at = e.at
         /\ Reaction(e, Fill, crc).esc.linked = e.linked
         /\ Reaction(e, Fill, crc).esc.buffer = [set |-> TRUE, d |-> Block]
<1>1. Fill.op = "fill" /\ Fill.arg = Block /\ Fill.wants = "success"
  BY MessageIs DEF Fill
<1>2. ~IsStk(Fill)
  BY <1>1 DEF IsStk
<1>3. Reaction(e, Fill, crc).says = "success"
  BY <1>1 DEF Accepted
<1>4. Reaction(e, Fill, crc) = BlReaction(e, Fill)
  BY <1>1, <1>2, <1>3, TalksBl, SaysIs
<1> DEFINE q == [e EXCEPT !.announced = FALSE]
<1>5. e.announced
  <2>1. ~e.announced => BlReaction(e, Fill) = Says(q, "unknown", 0)
    BY <1>1 DEF BlReaction
  <2> QED BY <1>3, <1>4, <2>1, SaysIs
<1>6. BlReaction(e, Fill).esc = [q EXCEPT !.buffer = [set |-> TRUE, d |-> Block]]
  BY <1>1, <1>5, SaysIs DEF BlReaction
<1>7. q \in EscType /\ q.at = e.at /\ q.linked = e.linked
  BY UnannouncedIs
<1>8. \A b : /\ [q EXCEPT !.buffer = b].at = e.at /\ [q EXCEPT !.buffer = b].linked = e.linked
             /\ [q EXCEPT !.buffer = b].buffer = b
  <2> HIDE DEF q
  <2> QED BY <1>7 DEF EscType
<1> QED BY <1>4, <1>6, <1>8

-----------------------------------------------------------------------------
(* What the last message of a memory operation does. *)
Moves(e, x) == x.linked = e.linked /\ x.at = IF e.at + 1 \in Cells THEN e.at + 1 ELSE e.at
Kept(e, x) == x.flash = e.flash /\ x.eeprom = e.eeprom
Programmed(e, x, m, d) ==
  /\ x[m] = [e[m] EXCEPT ![e.at] = d]
  /\ \A o \in {"flash", "eeprom"} : o # m => x[o] = e[o]
  /\ Moves(e, x)

LEMMA StoreIs ==
  ASSUME NEW e \in EscType, NEW m \in {"flash", "eeprom"}, NEW d \in Int
  PROVE  Programmed(e, MovedOn([e EXCEPT ![m][e.at] = d]), m, d)
<1> DEFINE x == [e EXCEPT ![m][e.at] = d]
<1>1. x \in EscType
  BY StoreType
<1>2. /\ x[m] = [e[m] EXCEPT ![e.at] = d] /\ x.at = e.at /\ x.linked = e.linked
      /\ \A o \in {"flash", "eeprom"} : o # m => x[o] = e[o]
  BY DEF EscType
<1> HIDE DEF x
<1>3. /\ MovedOn(x).flash = x.flash /\ MovedOn(x).eeprom = x.eeprom /\ MovedOn(x).linked = x.linked
      /\ MovedOn(x).at = IF x.at + 1 \in Cells THEN x.at + 1 ELSE x.at
  BY <1>1, EscIs
<1>4. MovedOn(x).flash = MovedOn(x)["flash"] /\ MovedOn(x).eeprom = MovedOn(x)["eeprom"]
      /\ x.flash = x["flash"] /\ x.eeprom = x["eeprom"]
  OBVIOUS
<1>5. \A o \in {"flash", "eeprom"} : MovedOn(x)[o] = x[o]
  BY <1>3, <1>4
<1>6. Moves(e, MovedOn(x))
  BY <1>2, <1>3 DEF Moves
<1>7. Programmed(e, MovedOn(x), m, d)
  BY <1>2, <1>5, <1>6 DEF Programmed
<1> QED BY <1>7 DEF x

LEMMA BlProgramIs ==
  ASSUME NEW e \in EscType, NEW crc \in BOOLEAN, NEW msg, NEW m, e.kind \in BlModes,
         (msg.op = "program" /\ m = "flash") \/ (msg.op = "programEE" /\ m = "eeprom" /\ e.kind = "ATM")
  PROVE  \/ e.linked /\ Programmed(e, Reaction(e, msg, crc).esc, m, e.buffer.d)
         \/ Kept(e, Reaction(e, msg, crc).esc) /\ Reaction(e, msg, crc).says \in {"none", "unknown"}
<1> DEFINE q == [e EXCEPT !.announced = FALSE]
           p == [q EXCEPT ![m][q.at] = q.buffer.d]
<1>1. ~IsStk(msg) /\ msg.op # "init"
  BY DEF IsStk
<1>2. q \in EscType /\ q.kind = e.kind /\ q.linked = e.linked /\ q.at = e.at /\ q.buffer = e.buffer
      /\ q.flash = e.flash /\ q.eeprom = e.eeprom
  BY UnannouncedIs
<1>3. BlReaction(e, msg) = IF q.buffer.set THEN Says(MovedOn(p), "success", 0) ELSE Says(q, "unknown", 0)
  <2>1. CASE msg.op = "program" /\ m = "flash"
    BY <2>1 DEF BlReaction
  <2>2. CASE msg.op = "programEE" /\ m = "eeprom" /\ e.kind = "ATM"
    BY <1>2, <2>2 DEF BlReaction
  <2> QED BY <2>1, <2>2
<1>4. Programmed(q, MovedOn(p), m, q.buffer.d)
  <2> HIDE DEF q
  <2>1. q.buffer.d \in Int
    BY <1>2, EscIs
  <2> QED BY <1>2, <2>1, StoreIs
<1>5. Programmed(e, MovedOn(p), m, e.buffer.d)
  <2> HIDE DEF q, p
  <2>1. /\ q.flash = q["flash"] /\ q.eeprom = q["eeprom"] /\ e.flash = e["flash"] /\ e.eeprom = e["eeprom"]
    OBVIOUS
  <2>2. \A o \in {"flash", "eeprom"} : q[o] = e[o]
    BY <1>2, <2>1
  <2> QED BY <1>2, <1>4, <2>2 DEF Programmed, Moves
<1>6. CASE e.linked /\ crc
  <2>1. Reaction(e, msg, crc) = BlReaction(e, msg)
    BY <1>1, <1>6, TalksBl
  <2> HIDE DEF q, p
  <2>2. CASE q.buffer.set
    <3>1. Reaction(e, msg, crc) = Says(MovedOn(p), "success", 0)
      BY <1>3, <2>1, <2>2
    <3>2. Reaction(e, msg, crc).esc = MovedOn(p)
      BY <3>1, SaysIs
    <3> QED BY <1>5, <1>6, <3>2, Zenon
  <2>3. CASE ~q.buffer.set
    BY <1>2, <1>3, <2>1, <2>3, SaysIs DEF Kept
  <2> QED BY <2>2, <2>3
<1>7. CASE ~(e.linked /\ crc)
  <2>1. Reaction(e, msg, crc) = Says(e, "none", 0)
    BY <1>1, <1>7, TalksBl
  <2> QED BY <2>1, SaysIs DEF Kept
<1> QED BY <1>6, <1>7

LEMMA StkProgramIs ==
  ASSUME NEW e \in EscType, NEW crc \in BOOLEAN, NEW msg, NEW m, e.kind = "SK", msg.arg \in Int,
         (msg.op = "stkProgram" /\ m = "flash") \/ (msg.op = "stkProgramEE" /\ m = "eeprom")
  PROVE  \/ e.linked /\ Programmed(e, Reaction(e, msg, crc).esc, m, msg.arg)
         \/ Kept(e, Reaction(e, msg, crc).esc) /\ Reaction(e, msg, crc).says = "none"
<1>1. IsStk(msg) /\ msg.op # "signOn"
  BY DEF IsStk
<1>2. Programmed(e, MovedOn([e EXCEPT ![m][e.at] = msg.arg]), m, msg.arg)
  BY StoreIs
<1>3. CASE e.linked
  <2>1. Reaction(e, msg, crc) = StkReaction(e, msg)
    BY <1>1, <1>3, TalksStk
  <2>2. StkReaction(e, msg).esc = MovedOn([e EXCEPT ![m][e.at] = msg.arg])
    <3>1. CASE msg.op = "stkProgram" /\ m = "flash"
      BY <1>3, <3>1, SaysIs DEF StkReaction
    <3>2. CASE msg.op = "stkProgramEE" /\ m = "eeprom"
      BY <1>3, <3>2, SaysIs DEF StkReaction
    <3> QED BY <3>1, <3>2
  <2> QED BY <1>2, <1>3, <2>1, <2>2
<1>4. CASE ~e.linked
  BY <1>1, <1>4, TalksStk, SaysIs DEF Kept
<1> QED BY <1>3, <1>4

LEMMA ReadIsAt ==
  ASSUME NEW e \in EscType, NEW crc \in BOOLEAN, NEW msg, NEW m,
         \/ e.kind \in {"SIL", "ARM"} /\ msg.op = "read" /\ m = "flash"
         \/ e.kind = "ATM" /\ msg.op = "readAtm" /\ m = "flash"
         \/ e.kind = "ATM" /\ msg.op = "readEE" /\ m = "eeprom"
         \/ e.kind = "SK" /\ msg.op = "stkRead" /\ m = "flash"
         \/ e.kind = "SK" /\ msg.op = "stkReadEE" /\ m = "eeprom"
  PROVE  \/ /\ e.linked /\ Kept(e, Reaction(e, msg, crc).esc) /\ Moves(e, Reaction(e, msg, crc).esc)
            /\ Reaction(e, msg, crc).d = e[m][e.at]
         \/ Reaction(e, msg, crc).says = "none"
<1> DEFINE q == [e EXCEPT !.announced = FALSE]
<1>1. msg.op \notin Storing /\ msg.op # "init" /\ msg.op # "signOn"
  BY DEF Storing
<1>2. Kept(e, Reaction(e, msg, crc).esc)
  BY <1>1, QuietIs DEF Kept
<1>3. /\ q \in EscType /\ q.kind = e.kind /\ q.linked = e.linked /\ q.at = e.at
      /\ q.flash = e.flash /\ q.eeprom = e.eeprom
  BY UnannouncedIs
<1>4. q["flash"] = q.flash /\ q["eeprom"] = q.eeprom /\ e["flash"] = e.flash /\ e["eeprom"] = e.eeprom
  OBVIOUS
<1>5. CASE msg.op \in {"read", "readAtm", "readEE"}
  <2>1. ~IsStk(msg) /\ e.kind \in BlModes
    BY <1>5 DEF IsStk, BlModes
  <2>2. BlReaction(e, msg) = Says(MovedOn(q), "data", q[m][q.at])
    BY <1>3, <1>5 DEF BlReaction
  <2>3. Moves(e, MovedOn(q))
    <3> HIDE DEF q
    <3> QED BY <1>3, EscIs DEF Moves
  <2>4. q[m][q.at] = e[m][e.at]
    <3> HIDE DEF q
    <3> QED BY <1>3, <1>4
  <2> HIDE DEF q
  <2> QED BY <1>1, <1>2, <2>1, <2>2, <2>3, <2>4, TalksBl, SaysIs
<1>6. CASE msg.op \in {"stkRead", "stkReadEE"}
  <2>1. IsStk(msg) /\ e.kind = "SK"
    BY <1>6 DEF IsStk
  <2>2. e.linked => StkReaction(e, msg) = Says(MovedOn(e), "block", e[m][e.at])
    BY <1>6 DEF StkReaction
  <2>3. Moves(e, MovedOn(e))
    BY EscIs DEF Moves
  <2> QED BY <1>1, <1>2, <2>1, <2>2, <2>3, TalksStk, SaysIs
<1> QED BY <1>5, <1>6

LEMMA VerifyIs ==
  ASSUME NEW e \in EscType, NEW crc \in BOOLEAN, NEW msg, e.kind = "ARM", msg.op = "verify",
         Reaction(e, msg, crc).says = "success"
  PROVE  /\ e.linked /\ Kept(e, Reaction(e, msg, crc).esc) /\ Moves(e, Reaction(e, msg, crc).esc)
         /\ e.flash[e.at] = e.buffer.d
<1> DEFINE q == [e EXCEPT !.announced = FALSE]
<1>1. ~IsStk(msg) /\ msg.op # "init" /\ e.kind \in BlModes /\ msg.op \notin Storing
  BY DEF IsStk, BlModes, Storing
<1>2. Kept(e, Reaction(e, msg, crc).esc)
  BY <1>1, QuietIs DEF Kept
<1>3. e.linked /\ Reaction(e, msg, crc) = BlReaction(e, msg)
  BY <1>1, TalksBl, SaysIs
<1>4. /\ q \in EscType /\ q.kind = e.kind /\ q.linked = e.linked /\ q.at = e.at
      /\ q.flash = e.flash /\ q.buffer = e.buffer
  BY UnannouncedIs
<1>5. ~q.buffer.set => BlReaction(e, msg) = Says(q, "unknown", 0)
  BY <1>4 DEF BlReaction
<1>6. q.buffer.set =>
        BlReaction(e, msg) = Says(MovedOn(q), IF q.flash[q.at] = q.buffer.d THEN "success" ELSE "differs", 0)
  BY <1>4 DEF BlReaction
<1>7. Moves(e, MovedOn(q))
  <2> HIDE DEF q
  <2> QED BY <1>4, EscIs DEF Moves
<1> HIDE DEF q
<1>8. q.buffer.set
  BY <1>3, <1>5, SaysIs
<1>9. q.flash[q.at] = q.buffer.d
  BY <1>3, <1>6, <1>8, SaysIs
<1> QED BY <1>2, <1>3, <1>4, <1>6, <1>7, <1>8, <1>9, SaysIs

LEMMA EraseIs ==
  ASSUME NEW e \in EscType, NEW crc \in BOOLEAN, NEW msg, e.kind \in {"SIL", "ARM"}, msg.op = "erase"
  PROVE  \/ /\ e.linked /\ Reaction(e, msg, crc).esc.eeprom = e.eeprom
            /\ Reaction(e, msg, crc).esc.flash
                 = [c \in Cells |-> IF c \in PageOf(e.kind, e.at) THEN Blank ELSE e.flash[c]]
         \/ Kept(e, Reaction(e, msg, crc).esc) /\ Reaction(e, msg, crc).says = "none"
<1> DEFINE q == [e EXCEPT !.announced = FALSE]
           f == [c \in Cells |-> IF c \in PageOf(q.kind, q.at) THEN Blank ELSE q.flash[c]]
<1>1. ~IsStk(msg) /\ msg.op # "init" /\ e.kind \in BlModes /\ e.kind # "ATM"
  BY DEF IsStk, BlModes
<1>2. /\ q \in EscType /\ q.kind = e.kind /\ q.at = e.at /\ q.flash = e.flash /\ q.eeprom = e.eeprom
  BY UnannouncedIs
<1>3. BlReaction(e, msg).esc
        = [q EXCEPT !.flash = [c \in Cells |-> IF c \in PageOf(q.kind, q.at) THEN Blank ELSE @[c]]]
  BY <1>1, <1>2, SaysIs DEF BlReaction
<1> HIDE DEF q
<1>4. BlReaction(e, msg).esc.flash = f /\ BlReaction(e, msg).esc.eeprom = q.eeprom
  BY <1>2, <1>3 DEF EscType
<1>5. f = [c \in Cells |-> IF c \in PageOf(e.kind, e.at) THEN Blank ELSE e.flash[c]]
  BY <1>2
<1> HIDE DEF f
<1>6. CASE e.linked /\ crc
  BY <1>1, <1>2, <1>4, <1>5, <1>6, TalksBl
<1>7. CASE ~(e.linked /\ crc)
  BY <1>1, <1>7, TalksBl, SaysIs DEF Kept
<1> QED BY <1>6, <1>7

LEMMA StkEraseIs ==
  ASSUME NEW e \in EscType, NEW crc \in BOOLEAN, NEW msg, e.kind = "SK", msg.op = "stkErase"
  PROVE  \/ /\ e.linked /\ Reaction(e, msg, crc).esc.eeprom = e.eeprom
            /\ Reaction(e, msg, crc).esc.flash = [c \in Cells |-> Blank]
         \/ Kept(e, Reaction(e, msg, crc).esc) /\ Reaction(e, msg, crc).says = "none"
<1>1. IsStk(msg) /\ msg.op # "signOn"
  BY DEF IsStk
<1>2. e.linked => StkReaction(e, msg).esc = [e EXCEPT !.flash = [c \in Cells |-> Blank]]
  BY SaysIs DEF StkReaction
<1>3. /\ [e EXCEPT !.flash = [c \in Cells |-> Blank]].flash = [c \in Cells |-> Blank]
      /\ [e EXCEPT !.flash = [c \in Cells |-> Blank]].eeprom = e.eeprom
  BY DEF EscType
<1>4. CASE e.linked
  <2>1. Reaction(e, msg, crc) = StkReaction(e, msg)
    BY <1>1, <1>4, TalksStk
  <2> QED BY <1>2, <1>3, <1>4, <2>1, Zenon
<1>5. CASE ~e.linked
  BY <1>1, <1>5, TalksStk, SaysIs DEF Kept
<1> QED BY <1>4, <1>5

-----------------------------------------------------------------------------
(* Which memory operations there are. *)
LEMMA FinalCases ==
  ASSUME Final.op # "none"
  PROVE  \/ req.cmd = cmd.EraseAll /\ mode = "SK" /\ Final = Message("stkErase", 0, "ok")
         \/ req.cmd = cmd.PageErase /\ mode \in {"SIL", "ARM"} /\ Final = Message("erase", 0, "success")
         \/ req.cmd = cmd.Read /\ mode \in {"SIL", "ARM"} /\ Final = Message("read", 0, "data")
         \/ req.cmd = cmd.Read /\ mode = "ATM" /\ Final = Message("readAtm", 0, "data")
         \/ req.cmd = cmd.Read /\ mode = "SK" /\ Final = Message("stkRead", 0, "block")
         \/ req.cmd = cmd.ReadEEprom /\ mode = "ATM" /\ Final = Message("readEE", 0, "data")
         \/ req.cmd = cmd.ReadEEprom /\ mode = "SK" /\ Final = Message("stkReadEE", 0, "block")
         \/ req.cmd = cmd.Write /\ mode \in BlModes /\ Final = Message("program", 0, "success")
         \/ req.cmd = cmd.Write /\ mode = "SK" /\ Final = Message("stkProgram", Block, "ok")
         \/ req.cmd = cmd.WriteEEprom /\ mode = "ATM" /\ Final = Message("programEE", 0, "success")
         \/ req.cmd = cmd.WriteEEprom /\ mode = "SK" /\ Final = Message("stkProgramEE", Block, "ok")
         \/ req.cmd = cmd.Verify /\ mode = "ARM" /\ Final = Message("verify", 0, "verdict")
<1>1. Message("none", 0, "none").op = "none"
  BY MessageIs
<1>2. \/ req.cmd = cmd.EraseAll /\ mode = "SK" /\ Final = Message("stkErase", 0, "ok")
      \/ req.cmd = cmd.PageErase /\ mode \in {"SIL", "ARM"} /\ Final = Message("erase", 0, "success")
      \/ req.cmd = cmd.Read /\ mode \in BlModes
           /\ Final = Message(IF mode = "ATM" THEN "readAtm" ELSE "read", 0, "data")
      \/ req.cmd = cmd.Read /\ mode = "SK" /\ Final = Message("stkRead", 0, "block")
      \/ req.cmd = cmd.ReadEEprom /\ mode = "ATM" /\ Final = Message("readEE", 0, "data")
      \/ req.cmd = cmd.ReadEEprom /\ mode = "SK" /\ Final = Message("stkReadEE", 0, "block")
      \/ req.cmd = cmd.Write /\ mode \in BlModes /\ Final = Message("program", 0, "success")
      \/ req.cmd = cmd.Write /\ mode = "SK" /\ Final = Message("stkProgram", Block, "ok")
      \/ req.cmd = cmd.WriteEEprom /\ mode = "ATM" /\ Final = Message("programEE", 0, "success")
      \/ req.cmd = cmd.WriteEEprom /\ mode = "SK" /\ Final = Message("stkProgramEE", Block, "ok")
      \/ req.cmd = cmd.Verify /\ mode = "ARM" /\ Final = Message("verify", 0, "verdict")
  BY <1>1, SMTT(60) DEF Final
<1>3. mode \in BlModes <=> mode \in {"SIL", "ATM", "ARM"}
  BY DEF BlModes
<1> QED BY <1>2, <1>3

LEMMA CmdsAre ==
  /\ cmd.TestAlive = 48 /\ cmd.ProtocolGetVersion = 49 /\ cmd.GetName = 50 /\ cmd.GetVersion = 51
  /\ cmd.Exit = 52 /\ cmd.Reset = 53 /\ cmd.InitFlash = 55 /\ cmd.EraseAll = 56
  /\ cmd.PageErase = 57 /\ cmd.Read = 58 /\ cmd.Write = 59 /\ cmd.ReadEEprom = 61
  /\ cmd.WriteEEprom = 62 /\ cmd.SetMode = 63 /\ cmd.Verify = 64
BY DEF cmd

(* What is at hand is what the host waits for. *)
LEMMA SameRequest ==
  ASSUME ask \in Asked, req = Stripped(ask)
  PROVE  /\ req.cmd = ask.cmd /\ req.addr = ask.addr /\ req.low = ask.low /\ req.par = ask.par
         /\ Head(req.par) \in Nat
         /\ ask.cmd \in Accesses => ask.want \in Cells /\ ask.addr \in {KeepAddress, ask.want}
<1>1. ask \in Fields /\ Len(ask.par) \in 1..LongLen
  BY DEF Asked, Fields
<1>2. /\ req.cmd = ask.cmd /\ req.addr = ask.addr /\ req.low = ask.low /\ req.par = ask.par
  BY <1>1 DEF Stripped, Fields
<1>3. ask.par \in Seq(Nat) /\ Len(ask.par) >= 1
  <2>1. ask.par \in Seq(Nat)
    BY <1>1 DEF Fields
  <2>2. \A b \in 1..LongLen : b >= 1
    BY LengthsAreNat
  <2> QED BY <1>1, <2>1, <2>2
<1>4. Head(ask.par) \in Nat
  BY <1>3
<1> QED BY <1>2, <1>4 DEF Asked

(* The request is done on an ESC, with this result. *)
DoneIn(r, e, result) ==
  LET d == Head(r.par) IN
  CASE r.cmd = cmd.Write -> e.flash[r.want] = d
    [] r.cmd = cmd.WriteEEprom -> e.eeprom[r.want] = d
    [] r.cmd = cmd.Read -> e.flash[r.want] = result
    [] r.cmd = cmd.ReadEEprom -> e.eeprom[r.want] = result
    [] r.cmd = cmd.Verify -> e.flash[r.want] = d
    [] r.cmd = cmd.PageErase -> \A c \in PageCells(e.kind, d) : e.flash[c] = Blank
    [] r.cmd = cmd.EraseAll -> \A c \in Cells : e.flash[c] = Blank
    [] OTHER -> TRUE

LEMMA PageIs ==
  ASSUME NEW e \in EscType, e.kind \in {"SIL", "ARM"}, e.kind = mode, Block \in Nat, e.at = PageAddress
  PROVE  PageOf(e.kind, e.at) = PageCells(e.kind, Block)
<1>1. CASE mode = "ARM"
  <2>1. e.at = 4 * Block
    BY <1>1 DEF PageAddress
  <2>2. (4 * Block) \div 4 = Block
    OBVIOUS
  <2> QED BY <1>1, <2>1, <2>2 DEF PageOf
<1>2. CASE mode = "SIL"
  <2>1. e.at = 2 * Block
    BY <1>2 DEF PageAddress
  <2>2. (2 * Block) \div 2 = Block
    OBVIOUS
  <2> QED BY <1>2, <2>1, <2>2 DEF PageOf
<1> QED BY <1>1, <1>2

LEMMA VerdictIs ==
  ASSUME NEW e \in EscType, NEW crc \in BOOLEAN, NEW msg, e.kind = "ARM", msg.op = "verify"
  PROVE  Reaction(e, msg, crc).says \in {"success", "differs", "none", "unknown"}
<1> DEFINE q == [e EXCEPT !.announced = FALSE]
<1>1. ~IsStk(msg) /\ msg.op # "init" /\ e.kind \in BlModes
  BY DEF IsStk, BlModes
<1>2. q.kind = e.kind
  BY UnannouncedIs
<1>3. ~q.buffer.set => BlReaction(e, msg) = Says(q, "unknown", 0)
  BY <1>2 DEF BlReaction
<1>4. q.buffer.set =>
        BlReaction(e, msg) = Says(MovedOn(q), IF q.flash[q.at] = q.buffer.d THEN "success" ELSE "differs", 0)
  BY <1>2 DEF BlReaction
<1> HIDE DEF q
<1>5. BlReaction(e, msg).says \in {"success", "differs", "none", "unknown"}
  BY <1>3, <1>4, SaysIs
<1> QED BY <1>1, <1>5, TalksBl, SaysIs

(* The last message of a memory operation, answered as it wants: what was
   asked is done, and the address stands behind it.                        *)
LEMMA FinalHeard ==
  ASSUME NEW e \in EscType, e.kind = mode, NEW crc \in BOOLEAN,
         ask \in Asked, req = Stripped(ask), Final.op # "none",
         ask.cmd # cmd.EraseAll /\ e.linked => e.at = Target,
         Final.op \in Buffered /\ e.linked => e.buffer = [set |-> TRUE, d |-> Block],
         Accepted(Final, Reaction(e, Final, crc).says), Reaction(e, Final, crc).says # "differs"
  PROVE  LET x == Reaction(e, Final, crc) IN
         /\ DoneIn(ask, x.esc, IF Final.wants \in {"data", "block"} THEN x.d ELSE out)
         /\ Successor(ask) # -1 => x.esc.at = Successor(ask)
<1> DEFINE x == Reaction(e, Final, crc)
           result == IF Final.wants \in {"data", "block"} THEN x.d ELSE out
<1>1. /\ req.cmd = ask.cmd /\ Block = Head(ask.par) /\ Block \in Nat
      /\ ask.cmd \in Accesses => ask.want \in Cells
  BY SameRequest DEF Block
<1>2. x.esc \in EscType /\ x.esc.kind = e.kind
  <2>1. Final.arg \in Int
    BY <1>1, FinalCases, MessageIs
  <2> QED BY <2>1, ReactionType
<1>3. e.flash \in Memory /\ e.eeprom \in Memory
  BY EscIs
<1>4. ask.cmd \in Accesses /\ e.linked => e.at = ask.want
  BY CmdsAre DEF Target, Accesses
<1>5. Successor(ask) # -1 => ask.cmd \in Accesses /\ ask.want + 1 \in Cells /\ Successor(ask) = ask.want + 1
  BY DEF Successor
<1>6. ask.cmd \in Accesses /\ e.linked /\ Moves(e, x.esc) => (Successor(ask) # -1 => x.esc.at = Successor(ask))
  BY <1>4, <1>5 DEF Moves
<1>7. \A m \in {"flash", "eeprom"}, d \in Int :
        ask.cmd \in Accesses /\ e.linked /\ Programmed(e, x.esc, m, d) => x.esc[m][ask.want] = d /\ Moves(e, x.esc)
  <2> TAKE m \in {"flash", "eeprom"}, d \in Int
  <2> HAVE ask.cmd \in Accesses /\ e.linked /\ Programmed(e, x.esc, m, d)
  <2>1. e[m] \in Memory
    BY <1>3
  <2> HIDE DEF x
  <2>2. x.esc[m] = [e[m] EXCEPT ![ask.want] = d] /\ Moves(e, x.esc)
    BY <1>4 DEF Programmed
  <2> QED BY <1>1, <2>1, <2>2 DEF Memory
<1>8. x.esc["flash"] = x.esc.flash /\ x.esc["eeprom"] = x.esc.eeprom /\ e["flash"] = e.flash /\ e["eeprom"] = e.eeprom
  OBVIOUS
<1>9. mode \in {"SIL", "ATM", "ARM"} <=> mode \in BlModes
  BY DEF BlModes
<1>10. CASE req.cmd = cmd.EraseAll /\ mode = "SK" /\ Final = Message("stkErase", 0, "ok")
  <2>1. Final.op = "stkErase" /\ Final.wants = "ok"
    BY <1>10, MessageIs
  <2>2. x.says = "ok"
    BY <2>1 DEF Accepted
  <2>3. x.esc.flash = [c \in Cells |-> Blank]
    BY <1>10, <2>1, <2>2, StkEraseIs
  <2> HIDE DEF x
  <2>4. ask.cmd = 56 /\ ask.cmd \notin Accesses
    BY <1>1, <1>10, CmdsAre DEF Accesses
  <2> QED BY <1>5, <2>3, <2>4, CmdsAre DEF DoneIn, x
<1>11. CASE req.cmd = cmd.PageErase /\ mode \in {"SIL", "ARM"} /\ Final = Message("erase", 0, "success")
  <2>1. Final.op = "erase" /\ Final.wants = "success"
    BY <1>11, MessageIs
  <2>2. x.says = "success"
    BY <2>1 DEF Accepted
  <2>3. /\ e.linked
        /\ x.esc.flash = [c \in Cells |-> IF c \in PageOf(e.kind, e.at) THEN Blank ELSE e.flash[c]]
    BY <1>11, <2>1, <2>2, EraseIs
  <2>4. ask.cmd = 57 /\ ask.cmd \notin Accesses /\ e.at = PageAddress
    BY <1>1, <1>11, <2>3, CmdsAre DEF Accesses, Target
  <2>5. PageOf(e.kind, e.at) = PageCells(e.kind, Block)
    BY <1>1, <1>11, <2>4, PageIs
  <2> HIDE DEF x
  <2>6. \A c \in PageCells(x.esc.kind, Head(ask.par)) : x.esc.flash[c] = Blank
    <3>1. PageCells(e.kind, Block) \subseteq Cells
      BY DEF PageCells
    <3> QED BY <1>1, <1>2, <2>3, <2>5, <3>1
  <2> QED BY <1>5, <2>4, <2>6, CmdsAre DEF DoneIn, x
<1>12. CASE req.cmd \in {cmd.Read, cmd.ReadEEprom}
  <2> DEFINE m == IF req.cmd = cmd.Read THEN "flash" ELSE "eeprom"
  <2>1. /\ Final.wants \in {"data", "block"}
        /\ \/ e.kind \in {"SIL", "ARM"} /\ Final.op = "read" /\ m = "flash"
           \/ e.kind = "ATM" /\ Final.op = "readAtm" /\ m = "flash"
           \/ e.kind = "ATM" /\ Final.op = "readEE" /\ m = "eeprom"
           \/ e.kind = "SK" /\ Final.op = "stkRead" /\ m = "flash"
           \/ e.kind = "SK" /\ Final.op = "stkReadEE" /\ m = "eeprom"
    BY <1>12, FinalCases, MessageIs, CmdsAre
  <2>2. x.says # "none"
    BY <2>1 DEF Accepted
  <2>3. e.linked /\ Kept(e, x.esc) /\ Moves(e, x.esc) /\ x.d = e[m][e.at]
    BY <2>1, <2>2, ReadIsAt
  <2>4. ask.cmd \in Accesses /\ e.at = ask.want
    BY <1>1, <1>4, <1>12, <2>3 DEF Accesses
  <2>5. result = e[m][ask.want]
    BY <2>1, <2>3, <2>4
  <2> HIDE DEF x, result
  <2>6. DoneIn(ask, x.esc, result)
    <3>1. CASE req.cmd = cmd.Read
      BY <1>1, <1>8, <2>3, <2>5, <3>1, CmdsAre DEF DoneIn, Kept
    <3>2. CASE req.cmd = cmd.ReadEEprom
      BY <1>1, <1>8, <2>3, <2>5, <3>2, CmdsAre DEF DoneIn, Kept
    <3> QED BY <1>12, <3>1, <3>2
  <2> QED BY <1>6, <2>3, <2>4, <2>6 DEF x, result
<1>13. CASE req.cmd \in {cmd.Write, cmd.WriteEEprom}
  <2> DEFINE m == IF req.cmd = cmd.Write THEN "flash" ELSE "eeprom"
  <2>0. ask.cmd \in Accesses
    BY <1>1, <1>13 DEF Accesses
  <2>1. \/ /\ mode \in BlModes /\ Final.wants = "success" /\ Final.op \in Buffered
           /\ \/ Final.op = "program" /\ m = "flash"
              \/ Final.op = "programEE" /\ m = "eeprom" /\ mode = "ATM"
        \/ /\ mode = "SK" /\ Final.wants = "ok" /\ Final.arg = Block
           /\ \/ Final.op = "stkProgram" /\ m = "flash"
              \/ Final.op = "stkProgramEE" /\ m = "eeprom"
    BY <1>9, <1>13, FinalCases, MessageIs, CmdsAre DEF Buffered
  <2>2. e.linked /\ Programmed(e, x.esc, m, Block)
    <3>1. CASE mode \in BlModes
      <4>1. mode # "SK"
        BY <3>1 DEF BlModes
      <4>2. x.says = "success"
        BY <2>1, <4>1 DEF Accepted
      <4>3. e.linked /\ Programmed(e, x.esc, m, e.buffer.d)
        BY <2>1, <3>1, <4>1, <4>2, BlProgramIs
      <4>4. e.buffer.d = Block
        BY <2>1, <4>1, <4>3
      <4> QED BY <4>3, <4>4
    <3>2. CASE mode = "SK"
      <4>1. x.says = "ok"
        BY <2>1, <3>2 DEF Accepted, BlModes
      <4>2. e.linked /\ Programmed(e, x.esc, m, Final.arg)
        BY <1>1, <2>1, <3>2, <4>1, StkProgramIs DEF BlModes
      <4> QED BY <2>1, <3>2, <4>2 DEF BlModes
    <3> QED BY <2>1, <3>1, <3>2
  <2> HIDE DEF x, result
  <2>3. x.esc[m][ask.want] = Block /\ Moves(e, x.esc)
    BY <1>1, <1>7, <2>0, <2>2
  <2>4. DoneIn(ask, x.esc, result)
    <3>1. CASE req.cmd = cmd.Write
      BY <1>1, <1>8, <2>3, <3>1, CmdsAre DEF DoneIn
    <3>2. CASE req.cmd = cmd.WriteEEprom
      BY <1>1, <1>8, <2>3, <3>2, CmdsAre DEF DoneIn
    <3> QED BY <1>13, <3>1, <3>2
  <2> QED BY <1>6, <2>0, <2>2, <2>3, <2>4 DEF x, result
<1>14. CASE req.cmd = cmd.Verify /\ mode = "ARM" /\ Final = Message("verify", 0, "verdict")
  <2>0. ask.cmd \in Accesses
    BY <1>1, <1>14 DEF Accesses
  <2>1. Final.op = "verify" /\ Final.wants = "verdict" /\ Final.op \in Buffered
    BY <1>14, MessageIs DEF Buffered
  <2>4. \/ x.says = "success" \/ x.says \in {"verdict", "nothing"}
    BY <2>1 DEF Accepted
  <2>5. x.says \notin {"verdict", "nothing"}
    BY <1>14, <2>1, VerdictIs
  <2>2. e.linked /\ Kept(e, x.esc) /\ Moves(e, x.esc) /\ e.flash[e.at] = e.buffer.d
    BY <1>14, <2>1, <2>4, <2>5, VerifyIs
  <2>3. x.esc.flash[ask.want] = Block
    BY <1>4, <2>0, <2>1, <2>2 DEF Kept
  <2> HIDE DEF x, result
  <2>6. DoneIn(ask, x.esc, result)
    BY <1>1, <1>14, <2>3, CmdsAre DEF DoneIn
  <2> QED BY <1>6, <2>0, <2>2, <2>6 DEF x, result
<1> QED BY <1>10, <1>11, <1>12, <1>13, <1>14, FinalCases

(* What it stores is what was asked, whether it is heard or not. *)
LEMMA FinalTouches ==
  ASSUME NEW e \in EscType, e = esc[selected], e.kind = mode, NEW crc \in BOOLEAN,
         ask \in Asked, req = Stripped(ask), Final.op # "none",
         ask.cmd # cmd.EraseAll /\ e.linked => e.at = Target,
         NEW m \in {"flash", "eeprom"}, NEW c \in Cells,
         Reaction(e, Final, crc).esc[m][c] # e[m][c]
  PROVE  Touches(ask, m, c)
<1> DEFINE x == Reaction(e, Final, crc).esc
<1>1. /\ req.cmd = ask.cmd /\ Block = Head(ask.par) /\ Block \in Nat
      /\ ask.cmd \in Accesses => ask.want \in Cells
  BY SameRequest DEF Block
<1>2. ask.cmd \in Accesses /\ e.linked => e.at = ask.want
  BY CmdsAre DEF Target, Accesses
<1>3. e["flash"] = e.flash /\ e["eeprom"] = e.eeprom /\ x["flash"] = x.flash /\ x["eeprom"] = x.eeprom
  OBVIOUS
<1>4. ~Kept(e, x)
  BY <1>3 DEF Kept
<1>5. e.flash \in Memory /\ e.eeprom \in Memory
  BY EscIs
<1>6. \A n \in {"flash", "eeprom"} : \A d : Programmed(e, x, n, d) => m = n /\ c = e.at
  <2> TAKE n \in {"flash", "eeprom"}
  <2> TAKE d
  <2> HAVE Programmed(e, x, n, d)
  <2> HIDE DEF x
  <2>1. m = n
    BY DEF Programmed, x
  <2>2. x[n] = [e[n] EXCEPT ![e.at] = d] /\ e[n] \in Memory
    BY <1>3, <1>5 DEF Programmed
  <2>3. c # e.at => x[n][c] = e[n][c]
    BY <2>2 DEF Memory
  <2> QED BY <2>1, <2>3 DEF x
<1>7. CASE req.cmd = cmd.EraseAll /\ mode = "SK" /\ Final = Message("stkErase", 0, "ok")
  <2>1. x.eeprom = e.eeprom
    BY <1>4, <1>7, MessageIs, StkEraseIs
  <2>2. m = "flash"
    BY <1>3, <2>1
  <2> QED BY <1>1, <1>7, <2>2, CmdsAre DEF Touches
<1>8. CASE req.cmd = cmd.PageErase /\ mode \in {"SIL", "ARM"} /\ Final = Message("erase", 0, "success")
  <2>1. /\ e.linked /\ x.eeprom = e.eeprom
        /\ x.flash = [z \in Cells |-> IF z \in PageOf(e.kind, e.at) THEN Blank ELSE e.flash[z]]
    BY <1>4, <1>8, MessageIs, EraseIs
  <2>2. e.at = PageAddress
    BY <1>1, <1>8, <2>1, CmdsAre DEF Target
  <2>3. PageOf(e.kind, e.at) = PageCells(e.kind, Block)
    BY <1>1, <1>8, <2>2, PageIs
  <2>4. m = "flash" /\ c \in PageCells(e.kind, Head(ask.par))
    BY <1>1, <1>3, <2>1, <2>3
  <2> QED BY <1>1, <1>8, <2>4, CmdsAre DEF Touches
<1>9. CASE req.cmd \in {cmd.Read, cmd.ReadEEprom, cmd.Verify}
  <2>1. Final.op \in {"read", "readAtm", "stkRead", "readEE", "stkReadEE", "verify"}
    BY <1>9, FinalCases, MessageIs, CmdsAre
  <2>2. Kept(e, x)
    BY <2>1, QuietIs DEF Storing, Kept
  <2> QED BY <1>4, <2>2
<1>10. CASE req.cmd \in {cmd.Write, cmd.WriteEEprom}
  <2> DEFINE n == IF req.cmd = cmd.Write THEN "flash" ELSE "eeprom"
  <2>1. \/ /\ mode \in BlModes
           /\ \/ Final.op = "program" /\ n = "flash"
              \/ Final.op = "programEE" /\ n = "eeprom" /\ mode = "ATM"
        \/ /\ mode = "SK" /\ Final.arg = Block
           /\ \/ Final.op = "stkProgram" /\ n = "flash"
              \/ Final.op = "stkProgramEE" /\ n = "eeprom"
    BY <1>10, FinalCases, MessageIs, CmdsAre DEF BlModes
  <2>2. e.linked /\ \E d : Programmed(e, x, n, d)
    <3>1. CASE mode \in BlModes
      <4>1. mode # "SK"
        BY <3>1 DEF BlModes
      <4>2. e.linked /\ Programmed(e, x, n, e.buffer.d)
        BY <1>4, <2>1, <3>1, <4>1, BlProgramIs
      <4> QED BY <4>2
    <3>2. CASE mode = "SK"
      <4>1. e.linked /\ Programmed(e, x, n, Final.arg)
        BY <1>1, <1>4, <2>1, <3>2, StkProgramIs DEF BlModes
      <4> QED BY <4>1
    <3> QED BY <2>1, <3>1, <3>2
  <2>3. ask.cmd \in Accesses
    BY <1>1, <1>10 DEF Accesses
  <2>4. m = n /\ c = ask.want
    BY <1>2, <1>6, <2>2, <2>3
  <2> HIDE DEF x
  <2>5. CASE req.cmd = cmd.Write
    BY <1>1, <2>4, <2>5, CmdsAre DEF Touches
  <2>6. CASE req.cmd = cmd.WriteEEprom
    BY <1>1, <2>4, <2>6, CmdsAre DEF Touches
  <2> QED BY <1>10, <2>5, <2>6
<1> QED BY <1>7, <1>8, <1>9, <1>10, FinalCases

-----------------------------------------------------------------------------
(* The messages of a memory operation, and what is left of them. *)
LEMMA RestIs ==
  ASSUME Final.op # "none", NEW s \in Rests
  PROVE  /\ s # <<>> /\ Len(s) > 1 => Tail(s) \in Rests /\ Head(Tail(s)) # Address
         /\ \/ Head(s) = Address /\ Len(s) > 1 /\ Head(Tail(s)).op \notin Buffered
            \/ Head(s) = Announce /\ Len(s) > 1 /\ Head(Tail(s)).op \notin Buffered /\ mode \in BlModes
            \/ Head(s) = Fill /\ Len(s) > 1 /\ Head(Tail(s)) = Final /\ mode \in BlModes
            \/ Head(s) = Final /\ Len(s) = 1
<1>1. /\ Address.op \in {"load", "address"} /\ Announce.op = "buffer" /\ Fill.op = "fill"
      /\ Final.op \notin {"load", "address", "buffer", "fill"}
  BY FinalCases, MessageIs DEF Address, Announce, Fill
<1>2. Final.op \in Buffered => mode \in BlModes
  BY FinalCases, MessageIs DEF Buffered, BlModes
<1>3. /\ Announce.op \notin Buffered /\ Fill.op \notin Buffered
      /\ Announce # Address /\ Fill # Address /\ Final # Address
  BY <1>1 DEF Buffered
<1> DEFINE f == Final
           a == Address
           n == Announce
           b == Fill
<1>4. /\ Len(<<f>>) = 1 /\ Head(<<f>>) = f
      /\ Len(<<b, f>>) = 2 /\ Head(<<b, f>>) = b /\ Tail(<<b, f>>) = <<f>>
      /\ Len(<<n, b, f>>) = 3 /\ Head(<<n, b, f>>) = n /\ Tail(<<n, b, f>>) = <<b, f>>
      /\ Len(<<a, n, b, f>>) = 4 /\ Head(<<a, n, b, f>>) = a /\ Tail(<<a, n, b, f>>) = <<n, b, f>>
      /\ Len(<<a, f>>) = 2 /\ Head(<<a, f>>) = a /\ Tail(<<a, f>>) = <<f>>
  <2> HIDE DEF f, a, n, b
  <2> QED OBVIOUS
<1>5. CASE f.op \in Buffered
  <2>1. Rests = {<<f>>, <<b, f>>, <<n, b, f>>, <<a, n, b, f>>}
    BY <1>5 DEF Rests
  <2> HIDE DEF f, a, n, b
  <2>2. CASE s = <<f>>
    BY <1>4, <2>2 DEF f
  <2>3. CASE s = <<b, f>>
    BY <1>2, <1>3, <1>4, <1>5, <2>1, <2>3 DEF f, a, b, n
  <2>4. CASE s = <<n, b, f>>
    BY <1>2, <1>3, <1>4, <1>5, <2>1, <2>4 DEF f, a, b, n
  <2>5. CASE s = <<a, n, b, f>>
    BY <1>2, <1>3, <1>4, <1>5, <2>1, <2>5 DEF f, a, b, n
  <2> QED BY <2>1, <2>2, <2>3, <2>4, <2>5
<1>6. CASE f.op \notin Buffered
  <2>1. Rests = {<<f>>, <<a, f>>}
    BY <1>6 DEF Rests
  <2> HIDE DEF f, a, n, b
  <2>2. CASE s = <<f>>
    BY <1>4, <2>2 DEF f
  <2>3. CASE s = <<a, f>>
    BY <1>2, <1>3, <1>4, <1>6, <2>1, <2>3 DEF f, a
  <2> QED BY <2>1, <2>2, <2>3
<1> QED BY <1>5, <1>6

-----------------------------------------------------------------------------
(* What is said besides. *)
LEMMA ChatIs ==
  /\ BL_KeepAlive \in Seq(Chat) \ {<<>>} /\ Stk_SignOn \in Seq(Chat) \ {<<>>}
  /\ BL_RunRestart \in Seq(Chat) \ {<<>>} /\ Stk_ConnectEx \in Seq(Chat) \ {<<>>}
  /\ BL_ConnectEx \in Seq(Chat) \ {<<>>}
  /\ Len(BL_RunRestart) = 1 /\ Head(BL_RunRestart) = Message("run", 0, "nothing")
<1>1. /\ Message("alive", 0, "unknown") \in Chat /\ Message("signOn", 0, "ok") \in Chat
      /\ Message("run", 0, "nothing") \in Chat /\ Message("init", 0, "signature") \in Chat
      /\ Message("spi", 1, "ok") \in Chat /\ Message("spi", 2, "ok") \in Chat
  BY DEF Message, Chat, Harmless
<1>2. \A m : Len(<<m>>) = 1 /\ Head(<<m>>) = m /\ <<m>> # <<>>
  OBVIOUS
<1>3. \A m \in Chat : <<m>> \in Seq(Chat) \ {<<>>}
  OBVIOUS
<1>4. BL_KeepAlive \in Seq(Chat) \ {<<>>} /\ Stk_SignOn \in Seq(Chat) \ {<<>>}
      /\ BL_RunRestart \in Seq(Chat) \ {<<>>} /\ BL_ConnectEx \in Seq(Chat) \ {<<>>}
  BY <1>1, <1>3 DEF BL_KeepAlive, Stk_SignOn, BL_RunRestart, BL_ConnectEx
<1>5. Stk_ConnectEx \in Seq(Chat) \ {<<>>}
  <2>1. Spi(1) \in Seq(Chat) /\ Spi(2) \in Seq(Chat) /\ Stk_SignOn \in Seq(Chat) \ {<<>>}
    BY <1>1, <1>3, <1>4 DEF Spi
  <2>2. \A s \in Seq(Chat) \ {<<>>}, t \in Seq(Chat) : s \o t \in Seq(Chat) \ {<<>>}
    OBVIOUS
  <2>3. Stk_SignOn \o Spi(1) \in Seq(Chat) \ {<<>>}
    BY <2>1, <2>2
  <2> QED BY <2>1, <2>2, <2>3 DEF Stk_ConnectEx
<1> QED BY <1>2, <1>4, <1>5 DEF BL_RunRestart

(* How an exchange goes on. *)
Talks == {"alive", "reset", "stkConnect", "blConnect"}

LEMMA MemoryProceeds ==
  ASSUME job = "memory", pc = "exchange",
         NEW msg, NEW answer, NEW number, Proceed(msg, answer, number)
  PROVE  /\ mode' = mode /\ connected' = connected
         /\ ~Heard(msg, answer, number) => pc' = "reply" /\ ack' = "GeneralError"
         /\ Heard(msg, answer, number) /\ Len(steps) > 1 =>
              pc' = "exchange" /\ steps' = Tail(steps) /\ job' = job /\ ack' = ack
         /\ Heard(msg, answer, number) /\ ~(Len(steps) > 1) =>
              /\ pc' = "reply" /\ ack' = IF answer.says = "differs" THEN "VerifyError" ELSE "OK"
              /\ out' = IF msg.wants \in {"data", "block"} THEN answer.d ELSE out
<1>1. ASSUME ~Heard(msg, answer, number)
      PROVE  mode' = mode /\ connected' = connected /\ pc' = "reply" /\ ack' = "GeneralError"
  <2>1. Failed
    BY <1>1 DEF Proceed
  <2> QED BY <2>1 DEF Failed, Reply
<1>2. ASSUME Heard(msg, answer, number), Len(steps) > 1
      PROVE  /\ mode' = mode /\ connected' = connected
             /\ pc' = "exchange" /\ steps' = Tail(steps) /\ job' = job /\ ack' = ack
  BY <1>2 DEF Proceed
<1>3. ASSUME Heard(msg, answer, number), ~(Len(steps) > 1)
      PROVE  /\ mode' = mode /\ connected' = connected
             /\ pc' = "reply" /\ ack' = IF answer.says = "differs" THEN "VerifyError" ELSE "OK"
             /\ out' = IF msg.wants \in {"data", "block"} THEN answer.d ELSE out
  <2>1. Succeeded(esc[selected].kind, answer.says)
        /\ out' = IF msg.wants \in {"data", "block"} THEN answer.d ELSE out
    BY <1>3 DEF Proceed
  <2> QED BY <2>1 DEF Succeeded, Reply
<1> QED BY <1>1, <1>2, <1>3

LEMMA NotThisWayIs ==
  ASSUME NEW known, NotThisWay(known)
  PROVE  /\ mode' = mode /\ connected' \in {known, FALSE}
         /\ \/ pc' = "reply"
            \/ pc' = "exchange" /\ job' \in {"stkConnect", "blConnect"} /\ steps' \in Seq(Chat) \ {<<>>}
<1>1. Way(FirstWay) \in Seq(Chat) \ {<<>>} /\ FirstWay \in {"stkConnect", "blConnect"}
  BY ChatIs DEF Way, FirstWay
<1> QED BY <1>1, ChatIs DEF NotThisWay, GoOn, Reply

LEMMA TalkProceeds ==
  ASSUME job \in Talks, pc = "exchange", steps \in Seq(Chat) \ {<<>>}, job = "reset" => steps = BL_RunRestart,
         connected \in BOOLEAN, mode \in Interfaces, esc[selected].kind \in Kinds,
         NEW answer, NEW number, Proceed(Head(steps), answer, number)
  PROVE  /\ mode' \in Interfaces /\ connected' \in BOOLEAN
         /\ \/ pc' = "reply"
            \/ /\ pc' = "exchange" /\ job' \in Talks /\ steps' \in Seq(Chat) \ {<<>>}
               /\ job' = "reset" => steps' = BL_RunRestart
<1> DEFINE msg == Head(steps)
<1>1. job = "reset" => Heard(msg, answer, number) /\ ~(Len(steps) > 1)
  <2>1. SUFFICES ASSUME job = "reset" PROVE Heard(msg, answer, number) /\ ~(Len(steps) > 1)
    OBVIOUS
  <2>2. Len(steps) = 1 /\ msg = Message("run", 0, "nothing")
    BY <2>1, ChatIs
  <2>3. msg.op = "run" /\ msg.wants = "nothing"
    BY <2>2, MessageIs
  <2>4. Heard(msg, answer, number)
    BY <2>3 DEF Heard, Accepted, IsStk
  <2> QED BY <2>2, <2>4
<1>2. CASE ~Heard(msg, answer, number)
  <2>1. Failed
    BY <1>2 DEF Proceed
  <2>2. CASE job \in {"stkConnect", "blConnect"}
    <3>1. NotThisWay(connected)
      BY <2>1, <2>2 DEF Failed
    <3> QED BY <3>1, NotThisWayIs DEF Talks
  <2>3. CASE job = "alive"
    BY <2>1, <2>3 DEF Failed, Reply
  <2> QED BY <1>1, <1>2, <2>2, <2>3 DEF Talks
<1>3. CASE Heard(msg, answer, number) /\ Len(steps) > 1
  <2>1. pc' = pc /\ steps' = Tail(steps) /\ job' = job /\ mode' = mode /\ connected' = connected
    BY <1>3 DEF Proceed
  <2>2. Tail(steps) \in Seq(Chat) \ {<<>>}
    <3>1. steps \in Seq(Chat) /\ Len(steps) > 1
      BY <1>3
    <3>2. Tail(steps) \in Seq(Chat) /\ Len(Tail(steps)) = Len(steps) - 1
      BY <3>1
    <3>3. Len(steps) \in Nat /\ Len(<<>>) = 0
      BY <3>1
    <3> DEFINE t == Tail(steps)
               n == Len(steps)
    <3>4. t \in Seq(Chat) /\ Len(t) = n - 1 /\ n \in Nat /\ n > 1
      BY <3>1, <3>2, <3>3
    <3> HIDE DEF t, n
    <3>5. t # <<>>
      BY <3>3, <3>4
    <3> QED BY <3>4, <3>5 DEF t
  <2> QED BY <1>1, <1>3, <2>1, <2>2
<1>4. CASE Heard(msg, answer, number) /\ ~(Len(steps) > 1)
  <2>1. Succeeded(esc[selected].kind, answer.says)
    BY <1>4 DEF Proceed
  <2>2. CASE job \in {"stkConnect", "blConnect"}
    <3>1. CASE DeviceMatch(esc[selected].kind) # "none"
      <4>1. Connected(DeviceMatch(esc[selected].kind))
        BY <2>1, <2>2, <3>1 DEF Succeeded
      <4>2. DeviceMatch(esc[selected].kind) \in Interfaces
        BY DEF DeviceMatch, Kinds, Interfaces
      <4> QED BY <4>1, <4>2 DEF Connected, Reply
    <3>2. CASE DeviceMatch(esc[selected].kind) = "none"
      <4>1. NotThisWay(TRUE)
        BY <2>1, <2>2, <3>2 DEF Succeeded
      <4> QED BY <4>1, NotThisWayIs DEF Talks
    <3> QED BY <3>1, <3>2
  <2>3. CASE job = "reset"
    BY <2>1, <2>3 DEF Succeeded, Reply
  <2>4. CASE job = "alive"
    BY <2>1, <2>4 DEF Succeeded, Reply
  <2> QED BY <2>2, <2>3, <2>4 DEF Talks
<1> QED BY <1>2, <1>3, <1>4

-----------------------------------------------------------------------------
(* An exchange: answered, not answered, or answered by an old answer. *)
Msg == Head(steps)
What == Reaction(Selected, Msg, connected)

LEMMA ExchangeIs ==
  ASSUME Exchange
  PROVE  /\ pc = "exchange" /\ SeqNumber' = Numbered(Msg)
         /\ UNCHANGED <<inbox, req, selected, escCount, ask, next, crossed>>
         /\ \/ /\ esc' = Then(What.esc) /\ Proceed(Msg, What, Numbered(Msg))
               /\ late' = StillLate(Msg) /\ lateTaken' = lateTaken
            \/ /\ esc' = Then(Selected) \/ esc' = Then(What.esc)
               /\ Proceed(Msg, NoAnswer, Numbered(Msg)) /\ lateTaken' = lateTaken
               /\ late' = StillLate(Msg) \/ late'.number = Numbered(Msg)
            \/ /\ esc' = esc /\ late.who = selected /\ late' = NothingLate
               /\ \E answer : /\ Proceed(Msg, answer, late.number)
                              /\ lateTaken' = (lateTaken \/ Heard(Msg, answer, late.number))
<1>1. /\ pc = "exchange" /\ SeqNumber' = Numbered(Msg)
      /\ UNCHANGED <<inbox, req, selected, escCount, outputs, host>>
      /\ (Belated(Msg) /\ late.who = selected) \/ Answered(Msg, What) \/ Unheard(Msg, What) \/ TooLate(Msg, What)
  BY DEF Exchange, Msg, What, Selected, Belated
<1>2. UNCHANGED <<inbox, req, selected, escCount, ask, next, crossed>>
  BY <1>1 DEF host
<1>3. CASE Answered(Msg, What)
  BY <1>1, <1>2, <1>3 DEF Answered
<1>4. CASE Unheard(Msg, What)
  BY <1>1, <1>2, <1>4 DEF Unheard, Selected
<1>5. CASE TooLate(Msg, What)
  BY <1>1, <1>2, <1>5 DEF TooLate
<1>6. CASE Belated(Msg) /\ late.who = selected
  BY <1>1, <1>2, <1>6, Zenon DEF Belated
<1> QED BY <1>1, <1>3, <1>4, <1>5, <1>6

(* Numbers turn, and a message's number is not the one to come. *)
LEMMA NumbersTurn ==
  ASSUME NEW n \in 0..SeqMod - 1
  PROVE  (n + 1) % SeqMod \in 0..SeqMod - 1 /\ (n + 1) % SeqMod # n
<1>1. SeqMod \in Nat /\ SeqMod >= 2
  BY PassthroughAssumption
<1>2. CASE n + 1 < SeqMod
  <2>1. (n + 1) % SeqMod = n + 1
    BY <1>1, <1>2
  <2> QED BY <1>1, <1>2, <2>1
<1>3. CASE n + 1 = SeqMod
  <2>1. (n + 1) % SeqMod = 0
    BY <1>1, <1>3
  <2> QED BY <1>1, <1>3, <2>1
<1> QED BY <1>1, <1>2, <1>3

LEMMA NumberedIs ==
  ASSUME TypeOK, NEW msg
  PROVE  /\ Numbered(msg) \in 0..SeqMod - 1
         /\ Numbered(msg) # (Numbered(msg) + 1) % SeqMod
         /\ IsStk(msg) => Numbered(msg) = (SeqNumber + 1) % SeqMod
         /\ ~IsStk(msg) => Numbered(msg) = SeqNumber
<1>1. SeqNumber \in 0..SeqMod - 1
  BY DEF TypeOK
<1>2. /\ IsStk(msg) => Numbered(msg) = (SeqNumber + 1) % SeqMod
      /\ ~IsStk(msg) => Numbered(msg) = SeqNumber
  BY DEF Numbered
<1>3. Numbered(msg) \in 0..SeqMod - 1
  BY <1>1, <1>2, NumbersTurn
<1> QED BY <1>2, <1>3, NumbersTurn

LEMMA ExchangeNumbers ==
  ASSUME TypeOK, NumberInv, Exchange
  PROVE  NumberInv'
<1>1. SeqNumber' = Numbered(Msg)
  BY ExchangeIs
<1>2. /\ Numbered(Msg) # (Numbered(Msg) + 1) % SeqMod
      /\ ~IsStk(Msg) => Numbered(Msg) = SeqNumber
  BY NumberedIs
<1>3. CASE late' = StillLate(Msg)
  <2>1. NothingLate.who = -1
    BY DEF NothingLate
  <2>2. CASE IsStk(Msg) /\ late.number = (Numbered(Msg) + 1) % SeqMod
    BY <1>3, <2>1, <2>2 DEF StillLate, NumberInv
  <2>3. CASE ~(IsStk(Msg) /\ late.number = (Numbered(Msg) + 1) % SeqMod)
    <3>1. late' = late
      BY <1>3, <2>3 DEF StillLate
    <3> QED BY <1>1, <1>2, <2>3, <3>1 DEF NumberInv
  <2> QED BY <2>2, <2>3
<1>4. CASE late'.number = Numbered(Msg)
  BY <1>1, <1>2, <1>4 DEF NumberInv
<1>5. CASE late' = NothingLate
  BY <1>5 DEF NumberInv, NothingLate
<1> QED BY <1>3, <1>4, <1>5, ExchangeIs

(* The message at hand. *)
LEMMA MsgIs ==
  ASSUME JobInv, pc = "exchange", TypeOK
  PROVE  /\ Msg.arg \in Int /\ connected \in BOOLEAN /\ Selected \in EscType /\ Selected.kind \in Kinds
         /\ job = "memory" \/ (job \in Talks /\ Msg \in Chat)
<1>1. connected \in BOOLEAN /\ Selected \in EscType /\ Selected.kind \in Kinds
  <2>1. connected \in BOOLEAN /\ selected \in Places /\ esc \in [Places -> EscType]
    BY DEF TypeOK
  <2>2. Selected \in EscType
    BY <2>1 DEF Selected
  <2> QED BY <2>1, <2>2, EscIs
<1>2. CASE job \in Talks /\ steps \in Seq(Chat) \ {<<>>}
  <2>1. Msg \in Chat
    BY <1>2 DEF Msg
  <2>2. Msg.arg \in Int
    BY <2>1 DEF Chat
  <2> QED BY <1>1, <1>2, <2>1, <2>2
<1>3. CASE job = "memory" /\ Final.op # "none" /\ steps \in Rests
  <2>1. Msg \in {Address, Announce, Fill, Final}
    BY <1>3, RestIs DEF Msg
  <2>2. Block \in Int /\ req.addr \in Int
    <3>1. req.par \in Seq(Int) \ {<<>>} /\ req.addr \in Int
      BY DEF TypeOK, AnyRequest
    <3>2. Head(req.par) \in Int
      BY <3>1
    <3> QED BY <3>1, <3>2 DEF Block
  <2>3. Place \in Int
    <3>1. PageAddress \in Int
      BY <2>2 DEF PageAddress
    <3> QED BY <2>2, <3>1 DEF Place
  <2>4. Final.arg \in Int
    BY <1>3, <2>2, FinalCases, MessageIs
  <2>5. Address.arg \in Int /\ Announce.arg \in Int /\ Fill.arg \in Int
    BY <2>2, <2>3, MessageIs DEF Address, Announce, Fill
  <2>6. Msg.arg \in Int
    BY <2>1, <2>4, <2>5
  <2> QED BY <1>1, <1>3, <2>6
<1> QED BY <1>2, <1>3 DEF JobInv, Talks

LEMMA ThenIs ==
  ASSUME TypeOK, NEW x \in EscType
  PROVE  /\ Then(x) \in [Places -> EscType]
         /\ Then(x)[selected].kind = x.kind
         /\ Then(x)[selected].flash = x.flash /\ Then(x)[selected].eeprom = x.eeprom
         /\ job # "reset" => Then(x)[selected] = x
         /\ \A i \in Places : i # selected => Then(x)[i] = esc[i]
<1>1. selected \in Places /\ esc \in [Places -> EscType]
  BY DEF TypeOK
<1>2. Restarted(x) \in EscType /\ Restarted(x).kind = x.kind
      /\ Restarted(x).flash = x.flash /\ Restarted(x).eeprom = x.eeprom
  BY EscIs
<1> DEFINE y == IF job = "reset" /\ req.low = 1 THEN Restarted(x) ELSE x
<1>3. /\ y \in EscType /\ y.kind = x.kind /\ y.flash = x.flash /\ y.eeprom = x.eeprom
      /\ job # "reset" => y = x
  BY <1>2
<1>4. Then(x) = [esc EXCEPT ![selected] = y]
  BY DEF Then
<1> HIDE DEF y
<1> QED BY <1>1, <1>3, <1>4

LEMMA SameJob ==
  ASSUME req' = req, mode' = mode
  PROVE  /\ Final' = Final /\ Rests' = Rests /\ Address' = Address /\ Place' = Place /\ Block' = Block
         /\ PageAddress' = PageAddress
<1>1. Block' = Block
  BY DEF Block
<1>2. PageAddress' = PageAddress
  BY <1>1 DEF PageAddress
<1>3. Place' = Place
  BY <1>2 DEF Place
<1>4. Address' = Address
  BY <1>3 DEF Address
<1>5. Final' = Final
  BY <1>1 DEF Final
<1>6. Fill' = Fill /\ Announce' = Announce
  BY <1>1 DEF Fill, Announce
<1>7. Rests' = Rests
  BY <1>4, <1>5, <1>6 DEF Rests
<1> QED BY <1>1, <1>2, <1>3, <1>4, <1>5, <1>7

LEMMA ExchangeTypes ==
  ASSUME TypeOK, JobInv, Exchange
  PROVE  /\ TypeOK' /\ JobInv' /\ pc' \in {"exchange", "reply"}
         /\ job = "memory" => mode' = mode
         /\ esc'[selected].kind = Selected.kind
<1>1. /\ pc = "exchange" /\ SeqNumber' = Numbered(Msg)
      /\ UNCHANGED <<inbox, req, selected, escCount, ask, next, crossed>>
      /\ esc' = Then(What.esc) \/ esc' = Then(Selected) \/ esc' = esc
      /\ \E answer, number : Proceed(Msg, answer, number)
      /\ lateTaken' = lateTaken \/ \E answer : lateTaken' = (lateTaken \/ Heard(Msg, answer, late.number))
  BY ExchangeIs
<1>2. PICK answer, number : Proceed(Msg, answer, number)
  BY <1>1
<1>3. What.esc \in EscType /\ What.esc.kind = Selected.kind /\ Selected \in EscType
  BY <1>1, MsgIs, ReactionType DEF What
<1>4. esc' \in [Places -> EscType] /\ esc'[selected].kind = Selected.kind
  <2>1. esc \in [Places -> EscType]
    BY DEF TypeOK
  <2> QED BY <1>1, <1>3, <2>1, ThenIs DEF Selected
<1>5. SeqNumber' \in 0..SeqMod - 1
  BY <1>1, NumberedIs
<1>6. lateTaken' \in BOOLEAN
  BY <1>1 DEF TypeOK, Heard, Accepted
<1>7. /\ mode' \in Interfaces /\ connected' \in BOOLEAN /\ pc' \in {"exchange", "reply"} /\ JobInv'
      /\ job = "memory" => mode' = mode
  <2>1. mode \in Interfaces /\ connected \in BOOLEAN
    BY DEF TypeOK
  <2>2. CASE job = "memory"
    <3>1. /\ req.cmd \in MemoryCommands /\ Final.op # "none" /\ steps \in Rests
      BY <1>1, <2>2 DEF JobInv
    <3>2. /\ mode' = mode /\ connected' = connected
          /\ \/ pc' = "reply"
             \/ pc' = "exchange" /\ Len(steps) > 1 /\ steps' = Tail(steps) /\ job' = job
      BY <1>1, <1>2, <2>2, MemoryProceeds
    <3>3. Final' = Final /\ Rests' = Rests /\ Address' = Address /\ Place' = Place
      BY <1>1, <3>2, SameJob
    <3>4. pc' = "exchange" => steps' \in Rests' /\ Head(steps') # Address'
      <4>1. Len(steps) > 1 => Tail(steps) \in Rests /\ Head(Tail(steps)) # Address
        BY <3>1, RestIs
      <4> QED BY <3>2, <3>3, <4>1
    <3>5. JobInv'
      BY <1>1, <2>2, <3>1, <3>2, <3>3, <3>4 DEF JobInv, MemoryCommands
    <3> QED BY <2>1, <3>2, <3>5
  <2>3. CASE job # "memory"
    <3>1. /\ job \in Talks /\ req.cmd \notin MemoryCommands /\ steps \in Seq(Chat) \ {<<>>}
          /\ job = "reset" => steps = BL_RunRestart
      BY <1>1, <2>3 DEF JobInv, Talks
    <3>2. esc[selected].kind \in Kinds
      BY <1>1, MsgIs DEF Selected
    <3>3. /\ mode' \in Interfaces /\ connected' \in BOOLEAN
          /\ \/ pc' = "reply"
             \/ /\ pc' = "exchange" /\ job' \in Talks /\ steps' \in Seq(Chat) \ {<<>>}
                /\ job' = "reset" => steps' = BL_RunRestart
      BY <1>1, <1>2, <2>1, <3>1, <3>2, TalkProceeds DEF Msg
    <3>4. JobInv'
      BY <1>1, <3>1, <3>3 DEF JobInv, Talks, MemoryCommands
    <3> QED BY <2>3, <3>3, <3>4
  <2> QED BY <2>2, <2>3
<1>8. TypeOK'
  BY <1>1, <1>4, <1>5, <1>6, <1>7 DEF TypeOK
<1> QED BY <1>4, <1>7, <1>8

(* While a request is served nothing is unread and no address is on credit. *)
LEMMA ServingIs ==
  ASSUME TypeOK, LineInv, Serving
  PROVE  /\ ask \in Asked /\ ask # NoRequest /\ req = Stripped(ask) /\ ~Unread /\ next = -1
         /\ req.cmd = ask.cmd
<1>1. ask \in Asked /\ ask # NoRequest /\ req = Stripped(ask) /\ ~Unread /\ next = -1
  BY DEF TypeOK, LineInv
<1> QED BY <1>1, SameRequest

LEMMA AccessIsMemory == Accesses \subseteq MemoryCommands
BY DEF Accesses, MemoryCommands

(* What is no memory operation has nothing to be done. *)
LEMMA NothingToDo ==
  ASSUME NEW r, r.cmd \notin MemoryCommands
  PROVE  Done(r) /\ Successor(r) = -1
<1>1. Successor(r) = -1
  BY AccessIsMemory DEF Successor
<1>2. Done(r)
  BY CmdsAre DEF Done, MemoryCommands
<1> QED BY <1>1, <1>2

LEMMA NothingToDoNext ==
  ASSUME ask.cmd \notin MemoryCommands, ask' = ask
  PROVE  Done(ask)' /\ Successor(ask)' = -1
<1>1. Successor(ask)' = -1
  BY AccessIsMemory DEF Successor
<1>2. Done(ask)'
  BY CmdsAre DEF Done, MemoryCommands
<1> QED BY <1>1, <1>2

(* What an exchange of messages with a memory operation does. *)
LEMMA MemoryKeeps ==
  ASSUME TypeOK, NumberInv, JobInv, LineInv, StepInv, Exchange, job = "memory",
         Trusted, Trusted'
  PROVE  StepInv' /\ ReplyInv'
<1>1. /\ pc = "exchange" /\ UNCHANGED <<req, selected, ask>>
  BY ExchangeIs
<1>2. /\ ask \in Asked /\ req = Stripped(ask) /\ req.cmd = ask.cmd
  BY <1>1, ServingIs DEF Serving
<1>3. /\ req.cmd \in MemoryCommands /\ Final.op # "none" /\ steps \in Rests
      /\ Head(steps) = Address => Place # KeepAddress
  BY <1>1 DEF JobInv
<1>4. /\ mode = Selected.kind /\ mode' = mode /\ mode \in BlModes \cup {"SK"}
      /\ Selected \in EscType /\ connected \in BOOLEAN /\ Msg.arg \in Int
  <2>1. mode = Selected.kind
    BY DEF Trusted, Selected
  <2>2. mode' = mode
    BY ExchangeTypes
  <2>3. mode \in BlModes \cup {"SK"}
    BY <1>3, FinalCases DEF BlModes
  <2> QED BY <1>1, <2>1, <2>2, <2>3, MsgIs
<1>5. /\ Head(steps) # Address /\ ask.cmd # cmd.EraseAll /\ Selected.linked => Selected.at = Target
      /\ Head(steps).op \in Buffered /\ Selected.linked => Selected.buffer = [set |-> TRUE, d |-> Block]
  BY <1>1 DEF StepInv, StandsAt
<1>6. What.esc \in EscType /\ What.esc.kind = Selected.kind
  BY <1>4, ReactionType DEF What
<1>7. \A x \in EscType : Then(x)[selected] = x
  BY ThenIs
<1>8. Target' = Target /\ Block' = Block /\ Address' = Address /\ Selected' = esc'[selected]
  BY <1>1, <1>4, SameJob DEF Target, Selected
<1>9. CASE pc' = "reply" /\ ack' # "OK"
  BY <1>9 DEF StepInv, ReplyInv
(* Heard in time. *)
<1>10. CASE /\ esc'[selected] = What.esc /\ Proceed(Msg, What, Numbered(Msg))
            /\ Heard(Msg, What, Numbered(Msg))
  <2>1. Accepted(Msg, What.says)
    BY <1>10 DEF Heard
  <2>2. CASE Msg = Address /\ Len(steps) > 1 /\ Head(Tail(steps)).op \notin Buffered
    <3>1. pc' = "exchange" /\ steps' = Tail(steps) /\ job' = job
      BY <1>1, <1>10, <2>2, MemoryProceeds
    <3>2. What.esc.at = Place
      <4>1. /\ Msg \in {Message("load", Place, "ok"), Message("address", Place, "success")}
            /\ Msg.op = "load" <=> Selected.kind = "SK"
        BY <1>4, <2>2, MessageIs DEF Address
      <4>2. Place \in Int
        BY <1>4, <2>2, MessageIs DEF Address
      <4> QED BY <1>4, <2>1, <4>1, <4>2, AddressHeard DEF What
    <3>3. ask.cmd # cmd.EraseAll => Place = Target
      <4>1. ask.cmd = cmd.PageErase => Place = Target
        BY <1>2 DEF Place, Target
      <4>2. ask.cmd # cmd.EraseAll /\ ask.cmd # cmd.PageErase => ask.cmd \in Accesses
        BY <1>2, <1>3 DEF MemoryCommands, Accesses
      <4>3. ask.cmd \in Accesses /\ ask.cmd # cmd.PageErase => Place = Target
        <5>1. Place # KeepAddress
          BY <1>3, <2>2 DEF Msg
        <5> QED BY <1>2, <5>1, SameRequest DEF Place, Target
      <4> QED BY <4>1, <4>2, <4>3
    <3>4. ask.cmd # cmd.EraseAll => esc'[selected].at = Target
      BY <1>10, <3>2, <3>3
    <3> QED BY <1>1, <1>8, <2>2, <3>1, <3>4 DEF StepInv, ReplyInv, StandsAt
  <2>3. CASE Msg = Announce /\ Len(steps) > 1 /\ Head(Tail(steps)).op \notin Buffered /\ mode \in BlModes
    <3>1. pc' = "exchange" /\ steps' = Tail(steps) /\ job' = job
      BY <1>1, <1>10, <2>3, MemoryProceeds
    <3>2. What.esc.at = Selected.at /\ What.esc.linked = Selected.linked
      BY <1>4, <2>3, AnnounceIs DEF What
    <3>3. Head(steps) # Address
      BY <2>3, MessageIs DEF Msg, Announce, Address
    <3> QED BY <1>1, <1>5, <1>8, <1>10, <2>3, <3>1, <3>2, <3>3 DEF StepInv, ReplyInv, StandsAt
  <2>4. CASE Msg = Fill /\ Len(steps) > 1 /\ Head(Tail(steps)) = Final /\ mode \in BlModes
    <3>1. pc' = "exchange" /\ steps' = Tail(steps) /\ job' = job
      BY <1>1, <1>10, <2>4, MemoryProceeds
    <3>2. /\ What.esc.at = Selected.at /\ What.esc.linked = Selected.linked
          /\ What.esc.buffer = [set |-> TRUE, d |-> Block]
      BY <1>4, <2>1, <2>4, FillHeard DEF What
    <3>3. Head(steps) # Address
      BY <2>4, MessageIs DEF Msg, Fill, Address
    <3> QED BY <1>1, <1>5, <1>8, <1>10, <2>4, <3>1, <3>2, <3>3 DEF StepInv, ReplyInv, StandsAt
  <2>5. CASE Msg = Final /\ Len(steps) = 1
    <3>1. /\ pc' = "reply" /\ ack' = IF What.says = "differs" THEN "VerifyError" ELSE "OK"
          /\ out' = IF Msg.wants \in {"data", "block"} THEN What.d ELSE out
      BY <1>1, <1>10, <2>5, MemoryProceeds
    <3>2. SUFFICES ASSUME What.says # "differs" PROVE StepInv' /\ ReplyInv'
      BY <3>1 DEF StepInv, ReplyInv
    <3>3. Head(steps) # Address /\ Head(steps) = Final
      <4>1. Final # Address
        BY <1>3, FinalCases, MessageIs DEF Address
      <4> QED BY <2>5, <4>1 DEF Msg
    <3>4. What = Reaction(Selected, Final, connected)
      BY <2>5 DEF What
    <3>5. /\ DoneIn(ask, What.esc, out')
          /\ Successor(ask) # -1 => What.esc.at = Successor(ask)
      <4>1. /\ ask.cmd # cmd.EraseAll /\ Selected.linked => Selected.at = Target
            /\ Final.op \in Buffered /\ Selected.linked => Selected.buffer = [set |-> TRUE, d |-> Block]
        BY <1>5, <3>3
      <4>2. Accepted(Final, What.says)
        BY <2>1, <2>5
      <4>3. out' = IF Final.wants \in {"data", "block"} THEN What.d ELSE out
        BY <2>5, <3>1
      <4> QED BY <1>2, <1>3, <1>4, <3>2, <3>4, <4>1, <4>2, <4>3, FinalHeard
    <3>6. Done(ask)' <=> DoneIn(ask, esc'[selected], out')
      BY <1>1 DEF Done, DoneIn
    <3>7. Successor(ask)' = Successor(ask)
      BY <1>1 DEF Successor
    <3> QED BY <1>8, <1>10, <3>1, <3>5, <3>6, <3>7 DEF StepInv, ReplyInv, StandsAt
  <2> QED BY <1>3, <2>2, <2>3, <2>4, <2>5, RestIs DEF Msg
(* Not heard, or not answered: only an announcement needs no answer. *)
<1>11. CASE /\ esc'[selected] \in {Selected, What.esc} /\ Proceed(Msg, NoAnswer, Numbered(Msg))
            /\ Heard(Msg, NoAnswer, Numbered(Msg))
  <2>1. Accepted(Msg, "none")
    BY <1>11, SaysIs DEF Heard, NoAnswer
  <2>2. Msg.wants \in {"none", "nothing"}
    BY <2>1 DEF Accepted
  <2>3. Msg = Announce /\ Len(steps) > 1 /\ Head(Tail(steps)).op \notin Buffered /\ mode \in BlModes
    <3>1. Address.wants \notin {"none", "nothing"} /\ Fill.wants \notin {"none", "nothing"}
      BY MessageIs DEF Address, Fill
    <3>2. Final.wants \notin {"none", "nothing"}
      BY <1>3, FinalCases, MessageIs
    <3> QED BY <1>3, <2>2, <3>1, <3>2, RestIs DEF Msg
  <2>4. pc' = "exchange" /\ steps' = Tail(steps) /\ job' = job
    BY <1>1, <1>11, <2>3, MemoryProceeds
  <2>5. What.esc.at = Selected.at /\ What.esc.linked = Selected.linked
    BY <1>4, <2>3, AnnounceIs DEF What
  <2>6. Head(steps) # Address
    BY <2>3, MessageIs DEF Msg, Announce, Address
  <2> QED BY <1>1, <1>5, <1>8, <1>11, <2>3, <2>4, <2>5, <2>6 DEF StepInv, ReplyInv, StandsAt
(* An old answer is not that of a numbered message, and after another the
   ESC is not trusted.                                                      *)
<1>12. ASSUME NEW answer, late.who = selected, Proceed(Msg, answer, late.number),
              lateTaken' = (lateTaken \/ Heard(Msg, answer, late.number))
       PROVE  ~Heard(Msg, answer, late.number)
  <2>1. SUFFICES ASSUME Heard(Msg, answer, late.number) PROVE FALSE
    OBVIOUS
  <2>2. mode = "SK"
    BY <1>4, <1>12, <2>1 DEF Trusted
  <2>3. IsStk(Msg)
    <3>1. Address.op = "load"
      BY <2>2, MessageIs DEF Address
    <3>2. Final.op \in {"stkErase", "stkRead", "stkReadEE", "stkProgram", "stkProgramEE"}
      BY <1>3, <2>2, FinalCases, MessageIs DEF BlModes
    <3>3. Msg \in {Address, Final}
      BY <1>3, <2>2, RestIs DEF Msg, BlModes
    <3> QED BY <3>1, <3>2, <3>3 DEF IsStk
  <2>4. late.number = (SeqNumber + 1) % SeqMod
    BY <2>1, <2>3 DEF Heard, Numbered
  <2>5. late.who # -1
    BY <1>12 DEF TypeOK, Places
  <2> QED BY <2>4, <2>5 DEF NumberInv
<1>13. ASSUME NEW answer, NEW number, Proceed(Msg, answer, number), ~Heard(Msg, answer, number)
       PROVE  pc' = "reply" /\ ack' # "OK"
  BY <1>1, <1>13, MemoryProceeds
<1>14. CASE esc' = Then(What.esc) /\ Proceed(Msg, What, Numbered(Msg))
  <2>1. esc'[selected] = What.esc
    BY <1>6, <1>7, <1>14
  <2> QED BY <1>9, <1>10, <1>13, <1>14, <2>1
<1>15. CASE (esc' = Then(Selected) \/ esc' = Then(What.esc)) /\ Proceed(Msg, NoAnswer, Numbered(Msg))
  <2>1. esc'[selected] \in {Selected, What.esc}
    BY <1>4, <1>6, <1>7, <1>15
  <2> QED BY <1>9, <1>11, <1>13, <1>15, <2>1
<1>16. CASE late.who = selected /\ \E answer : /\ Proceed(Msg, answer, late.number)
                                               /\ lateTaken' = (lateTaken \/ Heard(Msg, answer, late.number))
  BY <1>9, <1>12, <1>13, <1>16
<1> QED BY <1>14, <1>15, <1>16, ExchangeIs

-----------------------------------------------------------------------------
(* An exchange keeps all of it. *)
LEMMA PassExchange ==
  ASSUME PassInv, Exchange
  PROVE  PassInv'
<1>1. TypeOK /\ NumberInv /\ JobInv
  BY DEF PassInv
<1>2. TypeOK' /\ JobInv' /\ NumberInv' /\ pc' \in {"exchange", "reply"}
  BY <1>1, ExchangeTypes, ExchangeNumbers
<1>3. /\ pc = "exchange" /\ UNCHANGED <<inbox, req, selected, ask, next, crossed>>
  BY ExchangeIs
<1>4. ~crossed' => LineInv /\ LineInv'
  <2>1. SUFFICES ASSUME ~crossed' PROVE LineInv /\ LineInv'
    OBVIOUS
  <2>2. LineInv
    BY <1>3, <2>1 DEF PassInv
  <2> QED BY <1>3, <2>2, LineRests DEF Serving
<1>5. ASSUME Trusted' PROVE KeepInv' /\ StepInv' /\ ReplyInv'
  <2>1. LineInv /\ LineInv'
    BY <1>4, <1>5 DEF Trusted
  <2>2. /\ ask \in Asked /\ req = Stripped(ask) /\ ~Unread /\ next = -1 /\ req.cmd = ask.cmd
    BY <1>1, <1>3, <2>1, ServingIs DEF Serving
  <2>3. KeepInv'
    BY <1>2, <1>3, <2>2 DEF KeepInv, Unread
  <2>4. CASE job = "memory"
    <3>1. Trusted
      <4>1. mode' = mode /\ esc'[selected].kind = esc[selected].kind
        BY <1>1, <2>4, ExchangeTypes DEF Selected
      <4>2. ~lateTaken' => ~lateTaken
        BY ExchangeIs, Zenon
      <4> QED BY <1>3, <1>5, <4>1, <4>2 DEF Trusted
    <3>2. StepInv
      BY <3>1 DEF PassInv
    <3> QED BY <1>1, <1>5, <2>1, <2>3, <2>4, <3>1, <3>2, MemoryKeeps
  <2>5. CASE job # "memory"
    <3>1. req.cmd \notin MemoryCommands
      BY <1>1, <1>3, <2>5 DEF JobInv
    <3>2. StepInv'
      BY <1>2, <1>3, <3>1 DEF JobInv, StepInv, MemoryCommands
    <3>3. Done(ask)' /\ Successor(ask)' = -1
      BY <1>3, <2>2, <3>1, NothingToDoNext
    <3>4. ReplyInv'
      BY <3>3 DEF ReplyInv
    <3> QED BY <2>3, <3>2, <3>4
  <2> QED BY <2>4, <2>5
<1> QED BY <1>2, <1>4, <1>5 DEF PassInv

-----------------------------------------------------------------------------
(* What a memory operation sends. *)
LEMMA Joined ==
  ASSUME NEW S, NEW s \in Seq(S), NEW t \in Seq(S), NEW u \in Seq(S), Len(u) = Len(s) + Len(t),
         \A i \in 1..Len(s) : u[i] = s[i], \A i \in 1..Len(t) : u[Len(s) + i] = t[i]
  PROVE  s \o t = u
<1>1. s \o t \in Seq(S) /\ Len(s \o t) = Len(u)
  BY ConcatProperties
<1>2. ASSUME NEW i \in 1..Len(u) PROVE (s \o t)[i] = u[i]
  <2>1. Len(s) \in Nat /\ Len(t) \in Nat
    BY LenProperties
  <2>2. (s \o t)[i] = IF i <= Len(s) THEN s[i] ELSE t[i - Len(s)]
    BY ConcatProperties
  <2>3. CASE i <= Len(s)
    BY <2>1, <2>2, <2>3
  <2>4. CASE ~(i <= Len(s))
    <3>1. i - Len(s) \in 1..Len(t) /\ Len(s) + (i - Len(s)) = i
      BY <2>1, <2>4
    <3>2. u[Len(s) + (i - Len(s))] = t[i - Len(s)]
      BY <3>1
    <3> QED BY <2>2, <2>4, <3>1, <3>2
  <2> QED BY <2>3, <2>4
<1> QED BY <1>1, <1>2, SeqEqual

LEMMA TuplesJoin ==
  ASSUME NEW a, NEW b, NEW c, NEW d
  PROVE  /\ <<>> \o <<d>> = <<d>> /\ <<a>> \o <<d>> = <<a, d>>
         /\ (<<>> \o <<b, c>>) \o <<d>> = <<b, c, d>>
         /\ (<<a>> \o <<b, c>>) \o <<d>> = <<a, b, c, d>>
<1> DEFINE S == {a, b, c, d}
<1>0. /\ <<>> \in Seq(S) /\ <<a>> \in Seq(S) /\ <<d>> \in Seq(S) /\ <<b, c>> \in Seq(S)
      /\ <<a, d>> \in Seq(S) /\ <<b, c, d>> \in Seq(S) /\ <<a, b, c>> \in Seq(S)
      /\ <<a, b, c, d>> \in Seq(S)
  OBVIOUS
<1>1. <<>> \o <<d>> = <<d>> /\ <<>> \o <<b, c>> = <<b, c>>
  BY <1>0, ConcatEmptySeq
<1>2. <<a>> \o <<d>> = <<a, d>>
  <2> DEFINE s == <<a>>
             t == <<d>>
             u == <<a, d>>
  <2>1. Len(s) = 1 /\ Len(t) = 1 /\ Len(u) = 2
    OBVIOUS
  <2>2. \A i \in 1..1 : u[i] = s[i]
    OBVIOUS
  <2>3. \A i \in 1..1 : u[1 + i] = t[i]
    OBVIOUS
  <2>4. s \in Seq(S) /\ t \in Seq(S) /\ u \in Seq(S)
    BY <1>0
  <2> HIDE DEF s, t, u, S
  <2>5. /\ Len(u) = Len(s) + Len(t) /\ \A i \in 1..Len(s) : u[i] = s[i]
        /\ \A i \in 1..Len(t) : u[Len(s) + i] = t[i]
    BY <2>1, <2>2, <2>3
  <2>6. s \o t = u
    BY <2>4, <2>5, Joined, Zenon
  <2> QED BY <2>6 DEF s, t, u
<1>3. <<b, c>> \o <<d>> = <<b, c, d>>
  <2> DEFINE s == <<b, c>>
             t == <<d>>
             u == <<b, c, d>>
  <2>1. Len(s) = 2 /\ Len(t) = 1 /\ Len(u) = 3
    OBVIOUS
  <2>2. \A i \in 1..2 : u[i] = s[i]
    OBVIOUS
  <2>3. \A i \in 1..1 : u[2 + i] = t[i]
    OBVIOUS
  <2>4. s \in Seq(S) /\ t \in Seq(S) /\ u \in Seq(S)
    BY <1>0
  <2> HIDE DEF s, t, u, S
  <2>5. /\ Len(u) = Len(s) + Len(t) /\ \A i \in 1..Len(s) : u[i] = s[i]
        /\ \A i \in 1..Len(t) : u[Len(s) + i] = t[i]
    BY <2>1, <2>2, <2>3
  <2>6. s \o t = u
    BY <2>4, <2>5, Joined, Zenon
  <2> QED BY <2>6 DEF s, t, u
<1>4. <<a>> \o <<b, c>> = <<a, b, c>>
  <2> DEFINE s == <<a>>
             t == <<b, c>>
             u == <<a, b, c>>
  <2>1. Len(s) = 1 /\ Len(t) = 2 /\ Len(u) = 3
    OBVIOUS
  <2>2. \A i \in 1..1 : u[i] = s[i]
    OBVIOUS
  <2>3. \A i \in 1..2 : u[1 + i] = t[i]
    OBVIOUS
  <2>4. s \in Seq(S) /\ t \in Seq(S) /\ u \in Seq(S)
    BY <1>0
  <2> HIDE DEF s, t, u, S
  <2>5. /\ Len(u) = Len(s) + Len(t) /\ \A i \in 1..Len(s) : u[i] = s[i]
        /\ \A i \in 1..Len(t) : u[Len(s) + i] = t[i]
    BY <2>1, <2>2, <2>3
  <2>6. s \o t = u
    BY <2>4, <2>5, Joined, Zenon
  <2> QED BY <2>6 DEF s, t, u
<1>5. <<a, b, c>> \o <<d>> = <<a, b, c, d>>
  <2> DEFINE s == <<a, b, c>>
             t == <<d>>
             u == <<a, b, c, d>>
  <2>1. Len(s) = 3 /\ Len(t) = 1 /\ Len(u) = 4
    OBVIOUS
  <2>2. \A i \in 1..3 : u[i] = s[i]
    OBVIOUS
  <2>3. \A i \in 1..1 : u[3 + i] = t[i]
    OBVIOUS
  <2>4. s \in Seq(S) /\ t \in Seq(S) /\ u \in Seq(S)
    BY <1>0
  <2> HIDE DEF s, t, u, S
  <2>5. /\ Len(u) = Len(s) + Len(t) /\ \A i \in 1..Len(s) : u[i] = s[i]
        /\ \A i \in 1..Len(t) : u[Len(s) + i] = t[i]
    BY <2>1, <2>2, <2>3
  <2>6. s \o t = u
    BY <2>4, <2>5, Joined, Zenon
  <2> QED BY <2>6 DEF s, t, u
<1> QED BY <1>1, <1>2, <1>3, <1>4, <1>5, Zenon

LEMMA AccessCases ==
  ASSUME Access # <<>>
  PROVE  \/ req.cmd = cmd.EraseAll /\ mode = "SK" /\ Access = Stk_Chip_Erase
         \/ req.cmd = cmd.PageErase /\ mode \in {"SIL", "ARM"} /\ Access = BL_PageErase(PageAddress)
         \/ req.cmd = cmd.Read /\ mode \in BlModes /\ Access = BL_ReadFlash(mode, req.addr)
         \/ req.cmd = cmd.Read /\ mode = "SK" /\ Access = Stk_ReadFlash(req.addr)
         \/ req.cmd = cmd.ReadEEprom /\ mode = "ATM" /\ Access = BL_ReadEEprom(req.addr)
         \/ req.cmd = cmd.ReadEEprom /\ mode = "SK" /\ Access = Stk_ReadEEprom(req.addr)
         \/ req.cmd = cmd.Write /\ mode \in BlModes /\ Access = BL_WriteFlash(req.addr, Block)
         \/ req.cmd = cmd.Write /\ mode = "SK" /\ Access = Stk_WriteFlash(req.addr, Block)
         \/ req.cmd = cmd.WriteEEprom /\ mode = "ATM" /\ Access = BL_WriteEEprom(req.addr, Block)
         \/ req.cmd = cmd.WriteEEprom /\ mode = "SK" /\ Access = Stk_WriteEEprom(req.addr, Block)
         \/ req.cmd = cmd.Verify /\ mode = "ARM" /\ Access = BL_VerifyFlash(req.addr, Block)
BY SMTT(60) DEF Access

(* The final message of each. *)
LEMMA FinalOf ==
  /\ req.cmd = cmd.EraseAll /\ mode = "SK" => Final = Message("stkErase", 0, "ok")
  /\ req.cmd = cmd.PageErase /\ mode \in {"SIL", "ARM"} => Final = Message("erase", 0, "success")
  /\ req.cmd = cmd.Read /\ mode \in BlModes =>
       Final = Message(IF mode = "ATM" THEN "readAtm" ELSE "read", 0, "data")
  /\ req.cmd = cmd.Read /\ mode = "SK" => Final = Message("stkRead", 0, "block")
  /\ req.cmd = cmd.ReadEEprom /\ mode = "ATM" => Final = Message("readEE", 0, "data")
  /\ req.cmd = cmd.ReadEEprom /\ mode = "SK" => Final = Message("stkReadEE", 0, "block")
  /\ req.cmd = cmd.Write /\ mode \in BlModes => Final = Message("program", 0, "success")
  /\ req.cmd = cmd.Write /\ mode = "SK" => Final = Message("stkProgram", Block, "ok")
  /\ req.cmd = cmd.WriteEEprom /\ mode = "ATM" => Final = Message("programEE", 0, "success")
  /\ req.cmd = cmd.WriteEEprom /\ mode = "SK" => Final = Message("stkProgramEE", Block, "ok")
  /\ req.cmd = cmd.Verify /\ mode = "ARM" => Final = Message("verify", 0, "verdict")
<1>1. mode \in BlModes => mode # "SK"
  BY DEF BlModes
<1> QED BY <1>1, CmdsAre, SMTT(60) DEF Final

LEMMA AccessIsPlan ==
  ASSUME Access # <<>>
  PROVE  /\ Final.op # "none" /\ Access \in Rests /\ Head(Access).op \notin Buffered
         /\ Head(Access) = Address => Place # KeepAddress
         /\ Head(Access) # Address /\ req.cmd # cmd.EraseAll => Place = KeepAddress
<1> DEFINE a == Address
           n == Announce
           b == Fill
           f == Final
           Seqs == {<<f>>, <<a, f>>}
           Long == {<<n, b, f>>, <<a, n, b, f>>}
<1>1. /\ \A s \in {<<f>>, <<n, b, f>>} : s # <<>> /\ Head(s) \in {f, n}
      /\ \A s \in {<<a, f>>, <<a, n, b, f>>} : s # <<>> /\ Head(s) = a
      /\ Head(<<f>>) = f /\ Head(<<n, b, f>>) = n
  <2> HIDE DEF a, n, b, f
  <2> QED OBVIOUS
<1>2. /\ BL_SetAddress(Place) = IF Place = KeepAddress THEN <<>> ELSE <<Message("address", Place, "success")>>
      /\ LoadAddress(Place) = IF Place = KeepAddress THEN <<>> ELSE <<Message("load", Place, "ok")>>
      /\ BL_SetBuffer(Block) = <<n, b>>
  BY DEF BL_SetAddress, LoadAddress, BL_SetBuffer, Announce, Fill
<1>3. /\ mode = "SK" => a = Message("load", Place, "ok")
      /\ mode # "SK" => a = Message("address", Place, "success")
  BY DEF Address
<1>4. a.op \in {"load", "address"} /\ n.op = "buffer" /\ b.op = "fill"
  BY MessageIs DEF Address, Announce, Fill
<1>5. mode \in BlModes => mode # "SK"
  BY DEF BlModes
<1>6. /\ req.cmd # cmd.PageErase => Place = req.addr
      /\ req.cmd = cmd.PageErase => Place = PageAddress
  BY DEF Place
<1>7. CASE req.cmd = cmd.EraseAll /\ mode = "SK" /\ Access = Stk_Chip_Erase
  <2>1. f = Message("stkErase", 0, "ok")
    BY <1>7, FinalOf
  <2>2. Access = <<f>> /\ f.op = "stkErase"
    BY <1>7, <2>1, MessageIs DEF Stk_Chip_Erase
  <2>3. f.op \notin Buffered /\ f # a
    BY <1>4, <2>2 DEF Buffered
  <2>4. Access \in Rests
    BY <2>2, <2>3 DEF Rests
  <2> HIDE DEF a, n, b
  <2> QED BY <1>1, <1>7, <2>2, <2>3, <2>4 DEF a
(* A short one: the address, if any, and the access. *)
<1>8. ASSUME f.op \notin Buffered, f.op \notin {"none", "load", "address"},
             Access = IF Place = KeepAddress THEN <<f>> ELSE <<a, f>>
      PROVE  /\ Final.op # "none" /\ Access \in Rests /\ Head(Access).op \notin Buffered
             /\ Head(Access) = Address => Place # KeepAddress
             /\ Head(Access) # Address => Place = KeepAddress
  <2>1. f # a /\ a.op \notin Buffered
    BY <1>4, <1>8 DEF Buffered
  <2>2. Access \in Rests
    BY <1>8 DEF Rests
  <2> HIDE DEF a, n, b, f
  <2>3. CASE Place = KeepAddress
    BY <1>1, <1>8, <2>1, <2>2, <2>3 DEF a, f
  <2>4. CASE Place # KeepAddress
    BY <1>1, <1>8, <2>1, <2>2, <2>4 DEF a, f
  <2> QED BY <2>3, <2>4
(* A long one: with a buffer between them. *)
<1>9. ASSUME f.op \in Buffered, Access = IF Place = KeepAddress THEN <<n, b, f>> ELSE <<a, n, b, f>>
      PROVE  /\ Final.op # "none" /\ Access \in Rests /\ Head(Access).op \notin Buffered
             /\ Head(Access) = Address => Place # KeepAddress
             /\ Head(Access) # Address => Place = KeepAddress
  <2>1. n # a /\ a.op \notin Buffered /\ n.op \notin Buffered /\ f.op # "none"
    BY <1>4, <1>9 DEF Buffered
  <2>2. Access \in Rests
    BY <1>9 DEF Rests
  <2> HIDE DEF a, n, b, f
  <2>3. CASE Place = KeepAddress
    BY <1>1, <1>9, <2>1, <2>2, <2>3 DEF a, f
  <2>4. CASE Place # KeepAddress
    BY <1>1, <1>9, <2>1, <2>2, <2>4 DEF a, f
  <2> QED BY <2>3, <2>4
<1>10. \A z : /\ BL_SetAddress(Place) \o <<z>> =
                    IF Place = KeepAddress THEN <<z>> ELSE <<Message("address", Place, "success"), z>>
              /\ LoadAddress(Place) \o <<z>> =
                    IF Place = KeepAddress THEN <<z>> ELSE <<Message("load", Place, "ok"), z>>
              /\ (BL_SetAddress(Place) \o BL_SetBuffer(Block)) \o <<z>> =
                    IF Place = KeepAddress THEN <<n, b, z>> ELSE <<Message("address", Place, "success"), n, b, z>>
  <2> TAKE z
  <2> HIDE DEF a, n, b, f
  <2>1. CASE Place = KeepAddress
    BY <1>2, <2>1, TuplesJoin
  <2>2. CASE Place # KeepAddress
    BY <1>2, <2>2, TuplesJoin
  <2> QED BY <2>1, <2>2
<1>11. CASE req.cmd = cmd.PageErase /\ mode \in {"SIL", "ARM"} /\ Access = BL_PageErase(PageAddress)
  <2>1. f = Message("erase", 0, "success") /\ f.op = "erase"
    BY <1>11, FinalOf, MessageIs
  <2>2. Access = IF Place = KeepAddress THEN <<f>> ELSE <<a, f>>
    BY <1>3, <1>6, <1>10, <1>11, <2>1 DEF BL_PageErase
  <2> QED BY <1>8, <2>1, <2>2 DEF Buffered
<1>12. CASE req.cmd = cmd.Read /\ mode \in BlModes /\ Access = BL_ReadFlash(mode, req.addr)
  <2>1. f = Message(IF mode = "ATM" THEN "readAtm" ELSE "read", 0, "data") /\ f.op \in {"read", "readAtm"}
    BY <1>12, FinalOf, MessageIs
  <2>2. Access = IF Place = KeepAddress THEN <<f>> ELSE <<a, f>>
    <3>1. Place = req.addr
      BY <1>6, <1>12, CmdsAre
    <3>2. Access = BL_SetAddress(Place) \o <<f>>
      BY <1>12, <2>1, <3>1 DEF BL_ReadFlash, BL_ReadA
    <3>3. mode # "SK"
      BY <1>5, <1>12
    <3> HIDE DEF a, n, b, f
    <3> QED BY <1>3, <1>10, <3>2, <3>3
  <2> QED BY <1>8, <2>1, <2>2 DEF Buffered
<1>13. CASE req.cmd = cmd.Read /\ mode = "SK" /\ Access = Stk_ReadFlash(req.addr)
  <2>1. f = Message("stkRead", 0, "block") /\ f.op = "stkRead"
    BY <1>13, FinalOf, MessageIs
  <2>2. Access = IF Place = KeepAddress THEN <<f>> ELSE <<a, f>>
    <3>1. Place = req.addr
      BY <1>6, <1>13, CmdsAre
    <3>2. Access = LoadAddress(Place) \o <<f>>
      BY <1>13, <2>1, <3>1 DEF Stk_ReadFlash, ReadMem
    <3>3. mode = "SK"
      BY <1>13
    <3> HIDE DEF a, n, b, f
    <3> QED BY <1>3, <1>10, <3>2, <3>3
  <2> QED BY <1>8, <2>1, <2>2 DEF Buffered
<1>14. CASE req.cmd = cmd.ReadEEprom /\ mode = "ATM" /\ Access = BL_ReadEEprom(req.addr)
  <2>1. f = Message("readEE", 0, "data") /\ f.op = "readEE"
    BY <1>14, FinalOf, MessageIs
  <2>2. Access = IF Place = KeepAddress THEN <<f>> ELSE <<a, f>>
    <3>1. Place = req.addr
      BY <1>6, <1>14, CmdsAre
    <3>2. Access = BL_SetAddress(Place) \o <<f>>
      BY <1>14, <2>1, <3>1 DEF BL_ReadEEprom, BL_ReadA
    <3>3. mode # "SK"
      BY <1>14
    <3> HIDE DEF a, n, b, f
    <3> QED BY <1>3, <1>10, <3>2, <3>3
  <2> QED BY <1>8, <2>1, <2>2 DEF Buffered
<1>15. CASE req.cmd = cmd.ReadEEprom /\ mode = "SK" /\ Access = Stk_ReadEEprom(req.addr)
  <2>1. f = Message("stkReadEE", 0, "block") /\ f.op = "stkReadEE"
    BY <1>15, FinalOf, MessageIs
  <2>2. Access = IF Place = KeepAddress THEN <<f>> ELSE <<a, f>>
    <3>1. Place = req.addr
      BY <1>6, <1>15, CmdsAre
    <3>2. Access = LoadAddress(Place) \o <<f>>
      BY <1>15, <2>1, <3>1 DEF Stk_ReadEEprom, ReadMem
    <3>3. mode = "SK"
      BY <1>15
    <3> HIDE DEF a, n, b, f
    <3> QED BY <1>3, <1>10, <3>2, <3>3
  <2> QED BY <1>8, <2>1, <2>2 DEF Buffered
<1>16. CASE req.cmd = cmd.Write /\ mode \in BlModes /\ Access = BL_WriteFlash(req.addr, Block)
  <2>1. f = Message("program", 0, "success") /\ f.op = "program"
    BY <1>16, FinalOf, MessageIs
  <2>2. Access = IF Place = KeepAddress THEN <<n, b, f>> ELSE <<a, n, b, f>>
    <3>1. Place = req.addr
      BY <1>6, <1>16, CmdsAre
    <3>2. Access = (BL_SetAddress(Place) \o BL_SetBuffer(Block)) \o <<f>>
      BY <1>16, <2>1, <3>1 DEF BL_WriteFlash, BL_WriteA
    <3>3. mode # "SK"
      BY <1>5, <1>16
    <3> HIDE DEF a, n, b, f
    <3> QED BY <1>3, <1>10, <3>2, <3>3
  <2> QED BY <1>9, <2>1, <2>2 DEF Buffered
<1>17. CASE req.cmd = cmd.Write /\ mode = "SK" /\ Access = Stk_WriteFlash(req.addr, Block)
  <2>1. f = Message("stkProgram", Block, "ok") /\ f.op = "stkProgram"
    BY <1>17, FinalOf, MessageIs
  <2>2. Access = IF Place = KeepAddress THEN <<f>> ELSE <<a, f>>
    <3>1. Place = req.addr
      BY <1>6, <1>17, CmdsAre
    <3>2. Access = LoadAddress(Place) \o <<f>>
      BY <1>17, <2>1, <3>1 DEF Stk_WriteFlash, ProgramMem
    <3>3. mode = "SK"
      BY <1>17
    <3> HIDE DEF a, n, b, f
    <3> QED BY <1>3, <1>10, <3>2, <3>3
  <2> QED BY <1>8, <2>1, <2>2 DEF Buffered
<1>18. CASE req.cmd = cmd.WriteEEprom /\ mode = "ATM" /\ Access = BL_WriteEEprom(req.addr, Block)
  <2>1. f = Message("programEE", 0, "success") /\ f.op = "programEE"
    BY <1>18, FinalOf, MessageIs
  <2>2. Access = IF Place = KeepAddress THEN <<n, b, f>> ELSE <<a, n, b, f>>
    <3>1. Place = req.addr
      BY <1>6, <1>18, CmdsAre
    <3>2. Access = (BL_SetAddress(Place) \o BL_SetBuffer(Block)) \o <<f>>
      BY <1>18, <2>1, <3>1 DEF BL_WriteEEprom, BL_WriteA
    <3>3. mode # "SK"
      BY <1>18
    <3> HIDE DEF a, n, b, f
    <3> QED BY <1>3, <1>10, <3>2, <3>3
  <2> QED BY <1>9, <2>1, <2>2 DEF Buffered
<1>19. CASE req.cmd = cmd.WriteEEprom /\ mode = "SK" /\ Access = Stk_WriteEEprom(req.addr, Block)
  <2>1. f = Message("stkProgramEE", Block, "ok") /\ f.op = "stkProgramEE"
    BY <1>19, FinalOf, MessageIs
  <2>2. Access = IF Place = KeepAddress THEN <<f>> ELSE <<a, f>>
    <3>1. Place = req.addr
      BY <1>6, <1>19, CmdsAre
    <3>2. Access = LoadAddress(Place) \o <<f>>
      BY <1>19, <2>1, <3>1 DEF Stk_WriteEEprom, ProgramMem
    <3>3. mode = "SK"
      BY <1>19
    <3> HIDE DEF a, n, b, f
    <3> QED BY <1>3, <1>10, <3>2, <3>3
  <2> QED BY <1>8, <2>1, <2>2 DEF Buffered
<1>20. CASE req.cmd = cmd.Verify /\ mode = "ARM" /\ Access = BL_VerifyFlash(req.addr, Block)
  <2>1. f = Message("verify", 0, "verdict") /\ f.op = "verify"
    BY <1>20, FinalOf, MessageIs
  <2>2. Access = IF Place = KeepAddress THEN <<n, b, f>> ELSE <<a, n, b, f>>
    <3>1. Place = req.addr
      BY <1>6, <1>20, CmdsAre
    <3>2. Access = (BL_SetAddress(Place) \o BL_SetBuffer(Block)) \o <<f>>
      BY <1>20, <2>1, <3>1 DEF BL_VerifyFlash
    <3>3. mode # "SK"
      BY <1>20
    <3> HIDE DEF a, n, b, f
    <3> QED BY <1>3, <1>10, <3>2, <3>3
  <2> QED BY <1>9, <2>1, <2>2 DEF Buffered
<1> QED BY <1>7, <1>11, <1>12, <1>13, <1>14, <1>15, <1>16, <1>17, <1>18, <1>19, <1>20, AccessCases, Zenon

-----------------------------------------------------------------------------
(* Serving: an answer at once, a talk, or the messages of a memory operation. *)
LEMMA DeviceIs ==
  ASSUME TypeOK, Head(req.par) \in 0..escCount - 1
  PROVE  Head(req.par) \in Places
BY PassthroughAssumption DEF TypeOK, Places

LEMMA MemoryIs ==
  ASSUME DeviceMemory
  PROVE  /\ req.cmd \in MemoryCommands /\ UNCHANGED <<mode, connected, selected>>
         /\ \/ pc' = "exchange" /\ job' = "memory" /\ Access # <<>> /\ steps' = Access
            \/ pc' = "reply" /\ (ack' = "OK" => req.cmd = cmd.Write /\ mode \notin BlModes \cup {"SK"})
<1>1. req.cmd \in MemoryCommands /\ UNCHANGED <<mode, connected, selected>>
  BY DEF DeviceMemory
<1>2. CASE Access # <<>>
  <2>1. Begin("memory", Access)
    BY <1>2 DEF DeviceMemory
  <2> QED BY <1>1, <1>2, <2>1 DEF Begin
<1>3. CASE Access = <<>>
  <2>1. req.cmd = cmd.Write => mode \notin BlModes \cup {"SK"}
    <3>1. SUFFICES ASSUME req.cmd = cmd.Write, mode \in BlModes \cup {"SK"} PROVE FALSE
      OBVIOUS
    <3>2. mode \in BlModes => mode # "SK"
      BY DEF BlModes
    <3>3. Access = IF mode \in BlModes THEN BL_WriteFlash(req.addr, Block) ELSE Stk_WriteFlash(req.addr, Block)
      BY <3>1, <3>2, CmdsAre, SMTT(60) DEF Access
    <3>4. BL_WriteFlash(req.addr, Block) # <<>> /\ Stk_WriteFlash(req.addr, Block) # <<>>
      <4>1. \A z : BL_SetAddress(req.addr) \o BL_SetBuffer(Block) \o <<z>> # <<>>
        BY DEF BL_SetAddress, BL_SetBuffer
      <4>2. \A z : LoadAddress(req.addr) \o <<z>> # <<>>
        BY DEF LoadAddress
      <4> QED BY <4>1, <4>2 DEF BL_WriteFlash, BL_WriteA, Stk_WriteFlash, ProgramMem
    <3> QED BY <1>3, <3>3, <3>4
  <2>2. \/ req.cmd = cmd.Write /\ Answer("OK", 0)
        \/ Answer("GeneralError", 0)
        \/ Answer("InvalidCmd", 0)
    BY <1>3, Zenon DEF DeviceMemory
  <2> QED BY <1>1, <2>1, <2>2 DEF Answer
<1> QED BY <1>2, <1>3

LEMMA ServeIs ==
  ASSUME TypeOK, Serve
  PROVE  /\ pc = "serve"
         /\ UNCHANGED <<inbox, req, escCount, SeqNumber, esc, late, lateTaken, ask, next, crossed>>
         /\ mode' \in Interfaces /\ connected' \in BOOLEAN /\ selected' \in Places
         /\ \/ pc' = "reply" /\ req.cmd \notin MemoryCommands
            \/ /\ pc' = "exchange" /\ req.cmd \notin MemoryCommands
               /\ job' \in Talks /\ steps' \in Seq(Chat) \ {<<>>}
               /\ job' = "reset" => steps' = BL_RunRestart
            \/ DeviceMemory
<1>1. /\ pc = "serve"
      /\ UNCHANGED <<inbox, req, escCount, SeqNumber, esc, late, lateTaken, ask, next, crossed>>
  BY DEF Serve, escs, host
<1>2. mode \in Interfaces /\ connected \in BOOLEAN /\ selected \in Places
  BY DEF TypeOK
<1>3. /\ Modes \in Seq(Interfaces) /\ Len(Modes) = 4
      /\ \A i \in DOMAIN Modes : Modes[i] \in Interfaces
  BY DEF Modes, Interfaces
<1>4. CASE TestAlive
  <2>1. req.cmd \notin MemoryCommands /\ mode' = mode /\ selected' = selected
    BY <1>4, CmdsAre DEF TestAlive, MemoryCommands
  <2>2. /\ connected' \in BOOLEAN
        /\ \/ Answer("OK", 0) \/ Answer("GeneralError", 0)
           \/ Begin("alive", BL_KeepAlive) \/ Begin("alive", Stk_SignOn)
    <3>1. ASSUME ~connected PROVE Answer("OK", 0) /\ connected' = connected
      BY <1>4, <3>1 DEF TestAlive
    <3>2. ASSUME connected, mode \in BlModes
          PROVE  Begin("alive", BL_KeepAlive) /\ connected' = connected
      <4>1. mode # "SK"
        BY <3>2 DEF BlModes
      <4> QED BY <1>4, <3>2, <4>1 DEF TestAlive
    <3>3. ASSUME connected, mode = "SK"
          PROVE  Begin("alive", Stk_SignOn) /\ connected' = connected
      <4>1. mode \notin BlModes
        BY <3>3 DEF BlModes
      <4> QED BY <1>4, <3>3, <4>1 DEF TestAlive
    <3>4. ASSUME connected, mode \notin BlModes, mode # "SK"
          PROVE  Answer("GeneralError", 0) /\ connected' = FALSE
      BY <1>4, <3>4 DEF TestAlive
    <3> QED BY <1>2, <3>1, <3>2, <3>3, <3>4
  <2> QED BY <1>1, <1>2, <2>1, <2>2, ChatIs DEF Answer, Begin, Talks
<1>5. CASE AboutInterface
  <2>1. req.cmd \notin MemoryCommands
    BY <1>5, CmdsAre DEF AboutInterface, MemoryCommands
  <2> QED BY <1>1, <1>2, <1>5, <2>1 DEF AboutInterface, Answer
<1>6. CASE SetMode
  <2>1. req.cmd \notin MemoryCommands
    BY <1>6, CmdsAre DEF SetMode, MemoryCommands
  <2>2. /\ UNCHANGED <<connected, selected>> /\ mode' \in Interfaces
        /\ Answer("OK", 0) \/ Answer("InvalidParam", 0)
    BY <1>2, <1>3, <1>6 DEF SetMode
  <2> QED BY <1>1, <1>2, <2>1, <2>2 DEF Answer
<1>7. CASE DeviceReset
  <2>1. req.cmd \notin MemoryCommands /\ mode' = mode
    BY <1>7, CmdsAre DEF DeviceReset, MemoryCommands
  <2>2. CASE Head(req.par) \notin 0..escCount - 1
    <3>1. Answer("InvalidChannel", 0) /\ UNCHANGED <<connected, selected>>
      BY <1>7, <2>2, Zenon DEF DeviceReset
    <3> QED BY <1>1, <1>2, <2>1, <3>1 DEF Answer
  <2>3. CASE Head(req.par) \in 0..escCount - 1
    <3>1. /\ selected' = Head(req.par) /\ connected' \in BOOLEAN
          /\ Answer("OK", 0) \/ Begin("reset", BL_RunRestart)
      BY <1>7, <2>3, Zenon DEF DeviceReset
    <3> QED BY <1>1, <1>2, <2>1, <2>3, <3>1, DeviceIs, ChatIs DEF Answer, Begin, Talks
  <2> QED BY <2>2, <2>3
<1>8. CASE DeviceInitFlash
  <2>1. req.cmd \notin MemoryCommands /\ mode' = mode /\ connected' = FALSE
    BY <1>8, CmdsAre DEF DeviceInitFlash, MemoryCommands
  <2>2. CASE Head(req.par) \notin 0..escCount - 1
    <3>1. Answer("InvalidChannel", 0) /\ UNCHANGED selected
      BY <1>8, <2>2, Zenon DEF DeviceInitFlash
    <3> QED BY <1>1, <1>2, <2>1, <3>1 DEF Answer
  <2>3. CASE Head(req.par) \in 0..escCount - 1
    <3>1. selected' = Head(req.par) /\ Begin(FirstWay, Way(FirstWay))
      BY <1>8, <2>3, Zenon DEF DeviceInitFlash
    <3>2. FirstWay \in {"stkConnect", "blConnect"} /\ Way(FirstWay) \in Seq(Chat) \ {<<>>}
      BY ChatIs DEF FirstWay, Way
    <3> QED BY <1>1, <1>2, <2>1, <2>3, <3>1, <3>2, DeviceIs DEF Begin, Talks
  <2> QED BY <2>2, <2>3
<1>9. CASE DeviceMemory
  BY <1>1, <1>2, <1>9, MemoryIs
<1>10. CASE req.cmd \notin {cmd[c] : c \in DOMAIN cmd} /\ InvalidCmd
  <2>1. req.cmd \notin MemoryCommands
    BY <1>10 DEF MemoryCommands, cmd
  <2> QED BY <1>1, <1>2, <1>10, <2>1 DEF InvalidCmd, Answer
<1> QED BY <1>4, <1>5, <1>6, <1>7, <1>8, <1>9, <1>10 DEF Serve

(* What begins without the address is at its place. *)
LEMMA BeginsAtTarget ==
  ASSUME TypeOK, KeepInv, pc = "serve", ask \in Asked, req = Stripped(ask), req.cmd \in MemoryCommands,
         Access # <<>>, Head(Access) # Address, ask.cmd # cmd.EraseAll
  PROVE  StandsAt(Target)
<1>1. req.cmd = ask.cmd /\ req.addr = ask.addr /\ Block \in Nat
  BY SameRequest DEF Block
<1>2. Place = KeepAddress
  BY <1>1, AccessIsPlan
<1>3. ask.cmd # cmd.PageErase
  <2>1. SUFFICES ASSUME ask.cmd = cmd.PageErase PROVE FALSE
    OBVIOUS
  <2>2. PageAddress = KeepAddress
    BY <1>1, <1>2, <2>1 DEF Place
  <2>3. PageAddress % 2 = 0
    BY <1>1 DEF PageAddress
  <2> QED BY <2>2, <2>3, BootloaderAssumption
<1>4. ask.cmd \in Accesses /\ ask.addr = KeepAddress
  BY <1>1, <1>2, <1>3 DEF Place, MemoryCommands, Accesses
<1> QED BY <1>3, <1>4 DEF KeepInv, Target

(* Serving keeps all of it. *)
LEMMA PassServe ==
  ASSUME PassInv, Serve
  PROVE  PassInv'
<1>1. TypeOK /\ NumberInv /\ JobInv
  BY DEF PassInv
<1>2. /\ pc = "serve"
      /\ UNCHANGED <<inbox, req, escCount, SeqNumber, esc, late, lateTaken, ask, next, crossed>>
      /\ mode' \in Interfaces /\ connected' \in BOOLEAN /\ selected' \in Places
  BY <1>1, ServeIs
<1>3. \/ pc' = "reply" /\ req.cmd \notin MemoryCommands
      \/ /\ pc' = "exchange" /\ req.cmd \notin MemoryCommands
         /\ job' \in Talks /\ steps' \in Seq(Chat) \ {<<>>}
         /\ job' = "reset" => steps' = BL_RunRestart
      \/ /\ pc' = "exchange" /\ req.cmd \in MemoryCommands /\ UNCHANGED <<mode, connected, selected>>
         /\ job' = "memory" /\ Access # <<>> /\ steps' = Access
      \/ /\ pc' = "reply" /\ req.cmd \in MemoryCommands /\ UNCHANGED <<mode, connected, selected>>
         /\ ack' = "OK" => req.cmd = cmd.Write /\ mode \notin BlModes \cup {"SK"}
  BY <1>1, ServeIs, MemoryIs
<1>4. pc' \in {"reply", "exchange"}
  BY <1>3
<1>5. TypeOK'
  BY <1>1, <1>2, <1>4 DEF TypeOK
<1>6. NumberInv'
  BY <1>1, <1>2 DEF NumberInv
<1>7. JobInv'
  <2>1. CASE pc' = "reply"
    BY <2>1 DEF JobInv
  <2>2. CASE /\ pc' = "exchange" /\ req.cmd \notin MemoryCommands
             /\ job' \in Talks /\ steps' \in Seq(Chat) \ {<<>>}
             /\ job' = "reset" => steps' = BL_RunRestart
    BY <1>2, <2>2 DEF JobInv, Talks, MemoryCommands
  <2>3. CASE /\ pc' = "exchange" /\ req.cmd \in MemoryCommands /\ UNCHANGED <<mode, connected, selected>>
             /\ job' = "memory" /\ Access # <<>> /\ steps' = Access
    <3>1. Final' = Final /\ Rests' = Rests /\ Address' = Address /\ Place' = Place
      BY <1>2, <2>3, SameJob
    <3>2. Final.op # "none" /\ Access \in Rests /\ (Head(Access) = Address => Place # KeepAddress)
      BY <2>3, AccessIsPlan
    <3> QED BY <1>2, <2>3, <3>1, <3>2 DEF JobInv, MemoryCommands
  <2> QED BY <1>3, <2>1, <2>2, <2>3
<1>8. ~crossed' => LineInv /\ LineInv'
  <2>1. SUFFICES ASSUME ~crossed' PROVE LineInv /\ LineInv'
    OBVIOUS
  <2>2. LineInv
    BY <1>2, <2>1 DEF PassInv
  <2> QED BY <1>2, <2>2, LineRests DEF Serving
<1>9. ASSUME Trusted' PROVE KeepInv' /\ StepInv' /\ ReplyInv'
  <2>1. LineInv /\ LineInv'
    BY <1>8, <1>9 DEF Trusted
  <2>2. /\ ask \in Asked /\ req = Stripped(ask) /\ ~Unread /\ next = -1 /\ req.cmd = ask.cmd
    BY <1>1, <1>2, <2>1, ServingIs DEF Serving
  <2>3. KeepInv'
    BY <1>2, <1>4, <2>2 DEF KeepInv, Unread
  <2>4. CASE req.cmd \notin MemoryCommands
    <3>1. Done(ask)' /\ Successor(ask)' = -1
      BY <1>2, <2>2, <2>4, NothingToDoNext
    <3>2. StepInv'
      BY <1>2, <1>7, <2>4 DEF JobInv, StepInv, MemoryCommands
    <3> QED BY <2>3, <3>1, <3>2 DEF ReplyInv
  <2>5. CASE /\ pc' = "exchange" /\ req.cmd \in MemoryCommands /\ UNCHANGED <<mode, connected, selected>>
             /\ job' = "memory" /\ Access # <<>> /\ steps' = Access
    <3>1. KeepInv
      BY <1>2, <1>9, <2>5 DEF PassInv, Trusted
    <3>2. Head(Access) # Address /\ ask.cmd # cmd.EraseAll => StandsAt(Target)
      BY <1>1, <1>2, <2>2, <2>5, <3>1, BeginsAtTarget
    <3>3. Head(Access).op \notin Buffered
      BY <2>5, AccessIsPlan
    <3>4. Target' = Target /\ Address' = Address /\ Block' = Block /\ Selected' = Selected
      BY <1>2, <2>5, SameJob DEF Target, Selected
    <3>5. StepInv'
      BY <1>2, <2>5, <3>2, <3>3, <3>4 DEF StepInv, StandsAt
    <3> QED BY <2>3, <2>5, <3>5 DEF ReplyInv
  <2>6. CASE /\ pc' = "reply" /\ req.cmd \in MemoryCommands /\ UNCHANGED <<mode, connected, selected>>
             /\ ack' = "OK" => req.cmd = cmd.Write /\ mode \notin BlModes \cup {"SK"}
    <3>1. CASE ack' # "OK"
      BY <2>3, <2>6, <3>1 DEF StepInv, ReplyInv
    <3>2. CASE ack' = "OK"
      (* The mode is that of an ESC that no operation knows. *)
      <4>1. mode = "none" \/ mode \in BlModes \cup {"SK"}
        BY <1>1 DEF TypeOK, Interfaces, BlModes
      <4>2. mode = Selected.kind
        BY <1>2, <1>9, <2>6 DEF Trusted, Selected
      <4>3. Selected.kind \in Kinds
        <5>1. Selected \in EscType
          BY <1>1 DEF TypeOK, Selected
        <5> QED BY <5>1, EscIs
      <4> QED BY <2>6, <3>2, <4>1, <4>2, <4>3 DEF Kinds
    <3> QED BY <3>1, <3>2
  <2> QED BY <1>3, <2>4, <2>5, <2>6
<1> QED BY <1>5, <1>6, <1>7, <1>8, <1>9 DEF PassInv

-----------------------------------------------------------------------------
(* The steps beside. *)
LEMMA JobRests ==
  ASSUME JobInv, UNCHANGED <<pc, req, job, steps, mode>>
  PROVE  JobInv'
<1>1. Final' = Final /\ Rests' = Rests /\ Address' = Address /\ Place' = Place
  BY SameJob
<1> QED BY <1>1 DEF JobInv, MemoryCommands

LEMMA StepRests ==
  ASSUME StepInv, UNCHANGED <<pc, req, job, steps, mode, ask>>,
         Selected' = Selected \/ ~Selected'.linked
  PROVE  StepInv'
<1>1. Address' = Address /\ Block' = Block /\ PageAddress' = PageAddress
  BY SameJob
<1>2. Target' = Target
  BY <1>1 DEF Target
<1> QED BY <1>1, <1>2 DEF StepInv, StandsAt

LEMMA ReplyRests ==
  ASSUME ReplyInv, UNCHANGED <<pc, ack, ask, out>>, UNCHANGED selected,
         Selected'.flash = Selected.flash, Selected'.eeprom = Selected.eeprom, Selected'.kind = Selected.kind,
         Selected' = Selected \/ ~Selected'.linked
  PROVE  ReplyInv'
<1>1. SUFFICES ASSUME pc = "reply", ack = "OK"
               PROVE  Done(ask)' /\ (Successor(ask)' # -1 => StandsAt(Successor(ask))')
  BY DEF ReplyInv
<1>2. Done(ask) /\ (Successor(ask) # -1 => StandsAt(Successor(ask)))
  BY <1>1 DEF ReplyInv
<1>3. Done(ask) = DoneIn(ask, Selected, out) /\ Done(ask)' = DoneIn(ask, Selected', out)
  BY DEF Done, DoneIn, Selected
<1>4. DoneIn(ask, Selected', out) = DoneIn(ask, Selected, out)
  BY DEF DoneIn
<1>5. Successor(ask)' = Successor(ask)
  BY DEF Successor
<1> QED BY <1>2, <1>3, <1>4, <1>5 DEF StandsAt

LEMMA PassRead ==
  ASSUME PassInv, ReadFrame
  PROVE  PassInv'
<1>1. TypeOK /\ NumberInv /\ JobInv
  BY DEF PassInv
<1>2. UNCHANGED <<job, steps, mode, connected, selected, escCount, SeqNumber, esc, late, lateTaken,
                  ask, next, crossed>>
  BY DEF ReadFrame, escs, host
<1>3. PICK k : /\ First(inbox, k) /\ LastOf(inbox, k) \in 0..Len(inbox)
               /\ inbox' = SubSeq(inbox, LastOf(inbox, k) + 1, Len(inbox))
               /\ inbox' \in Seq(Bytes) /\ req' \in AnyRequest
               /\ \/ FrameAt(inbox, k) /\ pc' = "serve"
                  \/ pc' = "reply" /\ ack' = "InvalidCrc"
  BY <1>1, ReadIs
<1>4. TypeOK'
  BY <1>1, <1>2, <1>3 DEF TypeOK
<1>5. NumberInv' /\ JobInv'
  BY <1>1, <1>2, <1>3 DEF NumberInv, JobInv
<1>6. ~crossed' => LineInv'
  BY <1>1, <1>2, LineReads DEF PassInv
<1>7. pc' = "serve" \/ Unread' => Unread
  <2>1. inbox \in Seq(Bytes)
    BY <1>1 DEF TypeOK
  <2>2. FrameAt(inbox, k) => Unread
    BY <1>3, <2>1, FirstIsLive DEF Unread, First
  <2>3. ASSUME NEW j \in DOMAIN inbox', Live(inbox', j) PROVE Unread
    BY <1>3, <2>1, <2>3, DropLive DEF Unread
  <2> QED BY <1>3, <2>2, <2>3 DEF Unread
<1>8. ASSUME Trusted' PROVE KeepInv' /\ StepInv' /\ ReplyInv'
  <2>1. KeepInv
    BY <1>2, <1>8 DEF PassInv, Trusted
  <2>2. KeepInv'
    BY <1>2, <1>7, <2>1 DEF KeepInv, StandsAt, Selected, Accesses
  <2> QED BY <1>3, <2>2 DEF StepInv, ReplyInv
<1> QED BY <1>4, <1>5, <1>6, <1>8 DEF PassInv

LEMMA PassReply ==
  ASSUME PassInv, WriteReply
  PROVE  PassInv'
<1>1. TypeOK /\ NumberInv /\ JobInv
  BY DEF PassInv
<1>2. /\ pc = "reply" /\ pc' \in {"read", "restarted"} /\ req' = NoRequest /\ escCount' \in {0, escCount}
      /\ UNCHANGED <<inbox, mode, connected, selected, SeqNumber, esc, late, lateTaken>>
  BY DEF WriteReply, escs
<1>3. \/ UNCHANGED <<ask, next, crossed>>
      \/ /\ ask' = NoRequest /\ next' = IF ack = "OK" THEN Successor(ask) ELSE -1
         /\ crossed' = (crossed \/ (ack = "InvalidCrc" /\ FrameWaits))
  BY DEF WriteReply, HostHears
<1>4. TypeOK'
  <2>1. NoRequest \in Asked /\ NoRequest \in AnyRequest
    <3>1. NoRequest \in AnyRequest
      BY DEF NoRequest, Request, AnyRequest
    <3> QED BY <3>1, AskedIs
  <2>2. Successor(ask) \in Cells \cup {-1}
    BY DEF Successor
  <2>3. crossed' \in BOOLEAN
    BY <1>1, <1>3 DEF TypeOK, FrameWaits
  <2>4. ask' \in Asked /\ next' \in Cells \cup {-1}
    BY <1>1, <1>3, <2>1, <2>2 DEF TypeOK
  <2> QED BY <1>1, <1>2, <2>1, <2>3, <2>4 DEF TypeOK
<1>5. NumberInv' /\ JobInv'
  BY <1>1, <1>2 DEF NumberInv, JobInv
<1>6. ~crossed' => ~crossed
  BY <1>3
<1>7. ~crossed' => LineInv'
  BY <1>1, <1>6, LineReplies DEF PassInv
<1>8. ASSUME Trusted' PROVE KeepInv' /\ StepInv' /\ ReplyInv'
  <2>1. KeepInv /\ ReplyInv
    BY <1>2, <1>6, <1>8 DEF PassInv, Trusted
  <2>2. Unread' = Unread /\ Selected' = Selected
    BY <1>2 DEF Unread, Selected
  <2>3. NoRequest.cmd \notin Accesses
    BY AskedIs, CmdsAre DEF Accesses
  <2>4. KeepInv'
    <3>1. CASE UNCHANGED <<ask, next, crossed>>
      BY <1>2, <2>1, <2>2, <3>1 DEF KeepInv, StandsAt, Accesses
    <3>2. CASE ask' = NoRequest /\ next' = IF ack = "OK" THEN Successor(ask) ELSE -1
      BY <1>2, <2>1, <2>2, <2>3, <3>2 DEF KeepInv, ReplyInv, StandsAt, Accesses
    <3> QED BY <1>3, <3>1, <3>2
  <2> QED BY <1>2, <2>4 DEF StepInv, ReplyInv
<1> QED BY <1>4, <1>5, <1>7, <1>8 DEF PassInv

LEMMA PassAsks ==
  ASSUME PassInv, NEW r \in Requests \cup {ExitRequest}, HostAsks(r)
  PROVE  PassInv'
<1>1. TypeOK /\ NumberInv /\ JobInv
  BY DEF PassInv
<1>2. /\ ask = NoRequest /\ next' = -1
      /\ UNCHANGED <<pc, req, ack, out, job, steps, mode, connected, selected, escCount, SeqNumber,
                     esc, late, lateTaken, crossed>>
  BY DEF HostAsks, craft, escs
<1>3. /\ inbox' \in Seq(Bytes) /\ ask' \in Asked
      /\ ask'.addr = KeepAddress => next # -1 /\ ask'.want = next
  BY <1>1, AsksIs
<1>4. TypeOK'
  BY <1>1, <1>2, <1>3 DEF TypeOK
<1>5. NumberInv' /\ JobInv'
  BY <1>1, <1>2, JobRests DEF NumberInv
<1>6. ~crossed' => LineInv /\ LineInv'
  BY <1>1, <1>2, LineAsks DEF PassInv
<1>7. ASSUME Trusted' PROVE KeepInv' /\ StepInv' /\ ReplyInv'
  <2>1. KeepInv /\ LineInv
    BY <1>2, <1>6, <1>7 DEF PassInv, Trusted
  <2>2. ~Serving
    BY <1>2, <2>1 DEF LineInv
  <2>3. KeepInv'
    BY <1>2, <1>3, <2>1 DEF KeepInv, StandsAt, Selected, Accesses
  <2> QED BY <1>2, <2>2, <2>3 DEF StepInv, ReplyInv, Serving
<1> QED BY <1>4, <1>5, <1>6, <1>7 DEF PassInv

LEMMA PassGivesUp ==
  ASSUME PassInv, HostGivesUp
  PROVE  PassInv'
<1>1. TypeOK /\ NumberInv /\ JobInv
  BY DEF PassInv
<1>2. /\ pc = "read" /\ ask' = NoRequest
      /\ UNCHANGED <<pc, inbox, req, job, steps, mode, connected, selected, escCount, SeqNumber,
                     esc, late, lateTaken, next, crossed>>
  BY DEF HostGivesUp, craft, escs
<1>3. TypeOK'
  BY <1>1, <1>2, AskedIs DEF TypeOK
<1>4. NumberInv' /\ JobInv'
  BY <1>1, <1>2 DEF NumberInv, JobInv
<1>5. ~crossed' => LineInv'
  BY <1>1, <1>2, LineGivesUp DEF PassInv
<1>6. ASSUME Trusted' PROVE KeepInv' /\ StepInv' /\ ReplyInv'
  <2>1. KeepInv
    BY <1>2, <1>6 DEF PassInv, Trusted
  <2>2. NoRequest.cmd \notin Accesses
    BY AskedIs, CmdsAre DEF Accesses
  <2>3. KeepInv'
    BY <1>2, <2>1, <2>2 DEF KeepInv, StandsAt, Selected, Accesses
  <2> QED BY <1>2, <2>3 DEF StepInv, ReplyInv
<1> QED BY <1>3, <1>4, <1>5, <1>6 DEF PassInv

LEMMA PassRestarts ==
  ASSUME PassInv, NEW i \in DOMAIN esc, EscRestarts(i)
  PROVE  PassInv'
<1>1. TypeOK /\ NumberInv /\ JobInv
  BY DEF PassInv
<1>2. /\ esc' = [esc EXCEPT ![i] = Restarted(@)]
      /\ UNCHANGED <<pc, inbox, req, ack, out, job, steps, mode, connected, selected, escCount,
                     SeqNumber, late, lateTaken, ask, next, crossed>>
  BY DEF EscRestarts, craft, host
<1>3. esc \in [Places -> EscType] /\ selected \in Places /\ i \in Places
  BY <1>1 DEF TypeOK
<1>4. /\ esc' \in [Places -> EscType]
      /\ Selected'.kind = Selected.kind /\ Selected'.flash = Selected.flash
      /\ Selected'.eeprom = Selected.eeprom
      /\ Selected' = Selected \/ ~Selected'.linked
  <2> DEFINE x == Restarted(esc[i])
  <2>1. /\ x \in EscType /\ x.flash = esc[i].flash /\ x.eeprom = esc[i].eeprom
        /\ x.kind = esc[i].kind /\ x.linked = FALSE
    BY <1>3, EscIs
  <2>2. esc' = [esc EXCEPT ![i] = x]
    BY <1>2
  <2> HIDE DEF x
  <2>3. CASE i = selected
    <3>1. Selected' = x /\ Selected = esc[i]
      BY <1>2, <1>3, <2>2, <2>3 DEF Selected
    <3> QED BY <1>3, <2>1, <2>2, <3>1
  <2>4. CASE i # selected
    <3>1. Selected' = Selected
      BY <1>2, <1>3, <2>2, <2>4 DEF Selected
    <3> QED BY <1>3, <2>1, <2>2, <3>1
  <2> QED BY <2>3, <2>4
<1>5. TypeOK'
  BY <1>1, <1>2, <1>4 DEF TypeOK
<1>6. NumberInv' /\ JobInv'
  BY <1>1, <1>2, JobRests DEF NumberInv
<1>7. ~crossed' => LineInv'
  BY <1>2, LineRests DEF PassInv, Serving
<1>8. ASSUME Trusted' PROVE KeepInv' /\ StepInv' /\ ReplyInv'
  <2>1. KeepInv /\ StepInv /\ ReplyInv
    BY <1>2, <1>4, <1>8 DEF PassInv, Trusted, Selected
  <2>2. KeepInv'
    BY <1>2, <1>4, <2>1 DEF KeepInv, StandsAt, Unread, Accesses
  <2> QED BY <1>2, <1>4, <2>1, <2>2, StepRests, ReplyRests
<1> QED BY <1>5, <1>6, <1>7, <1>8 DEF PassInv

(* The craft enters the passthrough, an answer is lost, or nothing happens. *)
LEMMA PassRests ==
  ASSUME PassInv, esc4wayInit \/ AnswerIsLost \/ UNCHANGED vars
  PROVE  PassInv'
<1>1. TypeOK /\ NumberInv /\ JobInv
  BY DEF PassInv
<1>2. /\ UNCHANGED <<inbox, req, ack, out, job, steps, mode, connected, selected,
                     SeqNumber, esc, lateTaken, ask, next, crossed>>
      /\ (pc' = pc /\ escCount' = escCount) \/ (pc = "msp" /\ pc' = "read" /\ escCount' = EscCount)
      /\ late' = late \/ late' = NothingLate
  <2>1. CASE esc4wayInit
    <3>1. /\ UNCHANGED <<inbox, req, ack, out, job, steps, mode, connected, selected, SeqNumber>>
          /\ UNCHANGED escs /\ UNCHANGED host
          /\ pc = "msp" /\ pc' = "read" /\ escCount' = EscCount
      BY <2>1, Zenon DEF esc4wayInit
    <3>2. UNCHANGED <<esc, late, lateTaken, ask, next, crossed>>
      BY <3>1 DEF escs, host
    <3> QED BY <3>1, <3>2
  <2>2. CASE AnswerIsLost
    BY <2>2 DEF AnswerIsLost, craft, host
  <2>3. CASE UNCHANGED vars
    BY <2>3 DEF vars, craft, escs, host
  <2> QED BY <2>1, <2>2, <2>3
<1>3. TypeOK'
  BY <1>1, <1>2 DEF TypeOK
<1>4. NumberInv'
  BY <1>1, <1>2 DEF NumberInv, NothingLate
<1>5. JobInv'
  <2>1. CASE pc' = pc
    BY <1>1, <1>2, <2>1, JobRests
  <2>2. CASE pc' = "read"
    BY <2>2 DEF JobInv
  <2> QED BY <1>2, <2>1, <2>2
<1>6. ~crossed' => LineInv'
  BY <1>2, LineRests DEF PassInv, Serving
<1>7. ASSUME Trusted' PROVE KeepInv' /\ StepInv' /\ ReplyInv'
  <2>1. KeepInv /\ StepInv /\ ReplyInv
    BY <1>2, <1>7 DEF PassInv, Trusted
  <2>2. Selected' = Selected
    BY <1>2 DEF Selected
  <2>3. KeepInv'
    BY <1>2, <2>1, <2>2 DEF KeepInv, StandsAt, Unread, Accesses
  <2>4. CASE pc' = pc
    BY <1>2, <2>1, <2>2, <2>3, <2>4, StepRests, ReplyRests
  <2>5. CASE pc' = "read"
    BY <2>3, <2>5 DEF StepInv, ReplyInv
  <2> QED BY <1>2, <2>3, <2>4, <2>5
<1> QED BY <1>3, <1>4, <1>5, <1>6, <1>7 DEF PassInv

-----------------------------------------------------------------------------
LEMMA PassInit ==
  ASSUME Init
  PROVE  PassInv
<1>1. /\ pc = "msp" /\ inbox = <<>> /\ req = NoRequest /\ mode = "none" /\ connected = FALSE
      /\ selected = 0 /\ escCount = 0 /\ SeqNumber = 0 /\ late = NothingLate /\ lateTaken = FALSE
      /\ ask = NoRequest /\ next = -1 /\ crossed = FALSE
  BY DEF Init
<1>2. EscCount \in Nat \ {0} /\ SeqMod \in Nat \ {0, 1} /\ EscKinds \subseteq Kinds
  BY PassthroughAssumption
<1>3. esc \in [Places -> EscType]
  <2>1. PICK k \in EscKinds : esc = [i \in 0..EscCount - 1 |->
            Esc(IF i = 0 THEN k ELSE "SIL", [c \in Cells |-> 0], [c \in Cells |-> 0])]
    BY Zenon DEF Init
  <2>2. ASSUME NEW x \in Kinds PROVE Esc(x, [c \in Cells |-> 0], [c \in Cells |-> 0]) \in EscType
    <3>1. [c \in Cells |-> 0] \in Memory
      BY DEF Memory
    <3>2. [set |-> FALSE, d |-> 0] \in [set : BOOLEAN, d : Int]
      OBVIOUS
    <3> DEFINE m == [c \in Cells |-> 0]
               b == [set |-> FALSE, d |-> 0]
    <3>3. m \in Memory /\ b \in [set : BOOLEAN, d : Int]
      BY <3>1, <3>2
    <3>4. Esc(x, m, m) = [kind |-> x, linked |-> FALSE, at |-> 0, announced |-> FALSE, buffer |-> b,
                          flash |-> m, eeprom |-> m]
      BY DEF Esc, NoBuffer
    <3> HIDE DEF m, b
    <3>5. Esc(x, m, m) \in EscType
      BY <3>3, <3>4 DEF EscType
    <3> QED BY <3>5 DEF m
  <2>3. "SIL" \in Kinds
    BY DEF Kinds
  <2> QED BY <1>2, <2>1, <2>2, <2>3 DEF Places
<1>4. TypeOK
  <2>1. NoRequest \in Asked
    BY AskedIs
  <2>2. NoRequest \in AnyRequest
    BY DEF NoRequest, Request, AnyRequest
  <2>3. 0 \in Places /\ 0 \in 0..SeqMod - 1 /\ <<>> \in Seq(Bytes)
    BY <1>2 DEF Places
  <2>4. "none" \in Interfaces
    BY DEF Interfaces
  <2> QED BY <1>1, <1>3, <2>1, <2>2, <2>3, <2>4 DEF TypeOK
<1>5. NumberInv /\ JobInv
  BY <1>1 DEF NumberInv, NothingLate, JobInv
<1>6. LineInv /\ ~Unread
  BY <1>1 DEF LineInv, Unread, Serving
<1>7. KeepInv /\ StepInv /\ ReplyInv
  BY <1>1, <1>6 DEF KeepInv, StepInv, ReplyInv
<1> QED BY <1>4, <1>5, <1>6, <1>7 DEF PassInv

LEMMA PassNext ==
  ASSUME PassInv, [Next]_vars
  PROVE  PassInv'
<1>1. CASE Craft
  BY <1>1, PassRests, PassRead, PassServe, PassExchange, PassReply DEF Craft
<1>2. CASE Host
  BY <1>2, PassAsks, PassGivesUp DEF Host, HostAsksSome
<1>3. CASE \E i \in DOMAIN esc : EscRestarts(i)
  BY <1>3, PassRestarts
<1>4. CASE AnswerIsLost \/ UNCHANGED vars
  BY <1>4, PassRests
<1> QED BY <1>1, <1>2, <1>3, <1>4 DEF Next

(* Everything above holds in every state of every session. *)
THEOREM PassInvariant == Spec => []PassInv
<1> QED BY PassInit, PassNext, PTL DEF Spec

(* An OK that the host takes for the answer to what it asked is true of the
   selected ESC's memory, at the address the host meant, for any requests and
   any faults on both lines.                                               *)
THEOREM OkMeansDoneAlways == Spec => []OkMeansDone
<1>1. PassInv => OkMeansDone
  BY DEF PassInv, ReplyInv, OkMeansDone
<1> QED BY <1>1, PassInvariant, PTL

(* What a message stores is what the host asks for. *)
LEMMA ExchangeTouches ==
  ASSUME PassInv, Exchange, Trusted,
         NEW i \in DOMAIN esc, NEW memory \in {"flash", "eeprom"}, NEW c \in Cells,
         esc'[i][memory][c] # esc[i][memory][c]
  PROVE  i = selected /\ Touches(ask, memory, c)
<1>1. /\ TypeOK /\ JobInv /\ LineInv /\ StepInv /\ pc = "exchange"
      /\ esc' = Then(What.esc) \/ esc' = Then(Selected) \/ esc' = esc
  BY ExchangeIs DEF PassInv, Trusted
<1>2. /\ selected \in Places /\ esc \in [Places -> EscType] /\ DOMAIN esc = Places
  BY <1>1 DEF TypeOK
<1>3. /\ Selected \in EscType /\ connected \in BOOLEAN /\ Msg.arg \in Int /\ What.esc \in EscType
  BY <1>1, MsgIs, ReactionType DEF What
<1>4. ~(esc' = Then(Selected) \/ esc' = esc)
  <2>1. esc'[i].flash = esc[i].flash /\ esc'[i].eeprom = esc[i].eeprom => FALSE
    OBVIOUS
  <2>2. /\ Then(Selected)[i].flash = esc[i].flash /\ Then(Selected)[i].eeprom = esc[i].eeprom
    BY <1>1, <1>2, <1>3, ThenIs DEF Selected
  <2> QED BY <2>1, <2>2
<1>5. esc' = Then(What.esc)
  BY <1>1, <1>4
<1>6. i = selected
  BY <1>1, <1>2, <1>3, <1>5, ThenIs
<1>7. What.esc[memory][c] # Selected[memory][c]
  <2>1. Then(What.esc)[selected].flash = What.esc.flash /\ Then(What.esc)[selected].eeprom = What.esc.eeprom
    BY <1>1, <1>3, ThenIs
  <2> QED BY <1>5, <1>6, <2>1 DEF Selected
<1>8. Msg.op \in Storing
  <2>1. Msg.op \notin Storing => What.esc.flash = Selected.flash /\ What.esc.eeprom = Selected.eeprom
    BY <1>3, QuietIs DEF What
  <2> QED BY <1>7, <2>1
<1>9. /\ job = "memory" /\ Final.op # "none" /\ Msg = Final /\ Head(steps) # Address
  <2>1. \A m \in Chat : m.op \notin Storing
    BY DEF Chat, Harmless, Storing
  <2>2. job = "memory"
    BY <1>1, <1>8, <2>1, MsgIs
  <2>3. Final.op # "none" /\ steps \in Rests
    BY <1>1, <2>2 DEF JobInv
  <2>4. Address.op \notin Storing /\ Announce.op \notin Storing /\ Fill.op \notin Storing
    BY MessageIs DEF Address, Announce, Fill, Storing
  <2>5. Msg \in {Address, Announce, Fill, Final}
    BY <2>3, RestIs DEF Msg
  <2> QED BY <1>8, <2>2, <2>3, <2>4, <2>5 DEF Msg
<1>10. ask \in Asked /\ req = Stripped(ask)
  BY <1>1, ServingIs DEF Serving
<1>11. ask.cmd # cmd.EraseAll /\ Selected.linked => Selected.at = Target
  BY <1>1, <1>9 DEF StepInv, StandsAt
<1>12. Selected.kind = mode
  BY DEF Trusted, Selected
<1>13. Reaction(Selected, Final, connected).esc[memory][c] # Selected[memory][c]
  BY <1>7, <1>9 DEF What
<1>14. Touches(ask, memory, c)
  BY <1>3, <1>9, <1>10, <1>11, <1>12, <1>13, FinalTouches DEF Selected
<1> QED BY <1>6, <1>14

(* No step of the craft, of the host or of an ESC changes a memory but where
   the request at hand says, in the selected ESC.                          *)
THEOREM OnlyAskedIsChangedAlways == Spec => OnlyAskedIsChanged
<1>1. ASSUME PassInv, [Next]_vars
      PROVE  [\A i \in DOMAIN esc, memory \in {"flash", "eeprom"}, c \in Cells :
                esc'[i][memory][c] # esc[i][memory][c] /\ Trusted =>
                   i = selected /\ Touches(ask, memory, c)]_vars
  <2>1. SUFFICES ASSUME NEW i \in DOMAIN esc, NEW memory \in {"flash", "eeprom"}, NEW c \in Cells,
                        esc'[i][memory][c] # esc[i][memory][c], Trusted
                 PROVE  i = selected /\ Touches(ask, memory, c)
    OBVIOUS
  <2>2. CASE Exchange
    BY <1>1, <2>1, <2>2, ExchangeTouches
  <2>3. ASSUME NEW j \in DOMAIN esc, EscRestarts(j) PROVE FALSE
    <3>1. esc \in [Places -> EscType] /\ esc' = [esc EXCEPT ![j] = Restarted(@)]
      BY <1>1, <2>3 DEF PassInv, TypeOK, EscRestarts
    <3>2. Restarted(esc[j]).flash = esc[j].flash /\ Restarted(esc[j]).eeprom = esc[j].eeprom
      BY <2>3, <3>1, EscIs
    <3>3. esc'[i].flash = esc[i].flash /\ esc'[i].eeprom = esc[i].eeprom
      BY <3>1, <3>2
    <3> QED BY <2>1, <3>3
  <2>4. CASE esc' = esc
    BY <2>1, <2>4
  <2>5. \/ Exchange \/ \E j \in DOMAIN esc : EscRestarts(j)
        \/ esc' = esc
    <3>1. esc4wayInit \/ ReadFrame \/ Serve \/ WriteReply => esc' = esc
      BY Zenon DEF esc4wayInit, ReadFrame, Serve, WriteReply, escs
    <3>2. Host \/ AnswerIsLost \/ UNCHANGED vars => esc' = esc
      BY Zenon DEF Host, HostAsksSome, HostAsks, HostGivesUp, AnswerIsLost, vars, escs
    <3> QED BY <1>1, <3>1, <3>2 DEF Next, Craft
  <2> QED BY <2>2, <2>3, <2>4, <2>5
<1>2. Spec => []PassInv /\ [][Next]_vars
  BY PassInvariant, PTL DEF Spec
<1> QED BY <1>1, <1>2, PTL DEF OnlyAskedIsChanged
=============================================================================
