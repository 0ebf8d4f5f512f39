---------------------------- MODULE Passthrough ----------------------------
(***************************************************************************)
(* ESC passthrough: a program on the host reads and writes the memory of   *)
(* the ESCs.  esc4wayProcess takes one frame after the other from the      *)
(* serial port, serves it by an exchange of messages with the selected     *)
(* ESC, and replies; only an exit frame ends it.  Bytes of the host may be *)
(* lost or damaged, replies may be lost; an ESC may miss a message, may be *)
(* too late with its answer, and may restart.                              *)
(***************************************************************************)
EXTENDS EscBootloaders, FiniteSets

CONSTANTS EscKinds,    \* the kinds of ESC that may be at the first output
          EscCount,    \* outputs with an ESC
          Requests,    \* what the host may ask for
          MaxRequests, \* requests before it asks to exit
          MaxFaults,   \* lost bytes, replies and messages, late answers, restarts of an ESC
          FaultAt,     \* bytes of a frame that may be lost or damaged
          LongLen,     \* stands for 256, the length that a length byte 0 means
          SeqMod       \* stands for 256, where SeqNumber wraps

ASSUME PassthroughAssumption ==
    /\ EscKinds \subseteq Kinds /\ EscCount \in Nat \ {0} /\ MaxRequests \in Nat
    /\ MaxFaults \in Nat /\ FaultAt \subseteq Nat /\ LongLen \in Nat \ {0} /\ SeqMod \in Nat \ {0, 1}

VARIABLES
    pc,         \* "msp" before, "restarted" behind the passthrough
    inbox,      \* bytes the serial port holds
    req,        \* the frame at hand: CMD, address, ParamBuf
    ack, out,   \* ACK_OUT and the block that is returned
    job, steps, tries,          \* the function at work, messages to send, tries left
    mode, connected, selected,  \* CurrentInterfaceMode, isMcuConnected(), selected_esc
    escCount, outputs,          \* escCount; what drives the motor pins
    SeqNumber,
    esc, late,  \* the ESCs; an answer the craft has stopped waiting for
    lateTaken,  \* history: such an answer was taken for that of another message
    ask, next,  \* what the host waits for; where KeepAddress would point to
    crossed,    \* history: it took a complaint for the answer to a frame yet unread
    left, faults

craft == <<req, ack, out, job, steps, tries, mode, connected, selected, escCount, outputs,
           SeqNumber>>
escs == <<esc, late, lateTaken>>
host == <<ask, next, crossed, left>>
vars == <<pc, inbox, craft, escs, host, faults>>

-----------------------------------------------------------------------------
(* Frames of the host: escape, command, address, length, block, checksum.
   A byte is <<b>>; a checksum is made of what it covers, and a damaged byte
   is <<-3>>.                                                              *)
Escape == 47
cmd == [TestAlive |-> 48, ProtocolGetVersion |-> 49, GetName |-> 50, GetVersion |-> 51,
        Exit |-> 52, Reset |-> 53, InitFlash |-> 55, EraseAll |-> 56, PageErase |-> 57,
        Read |-> 58, Write |-> 59, ReadEEprom |-> 61, WriteEEprom |-> 62, SetMode |-> 63,
        Verify |-> 64]
Modes == <<"SIL", "ATM", "SK", "ARM">>

Request(c, addr, low, par, want) == [cmd |-> c, addr |-> addr, low |-> low, par |-> par, want |-> want]
NoRequest == Request(0, 0, 0, <<0>>, -1)
ExitRequest == Request(cmd.Exit, 0, 0, <<0>>, -1)

(* What the host asks for is made of bytes; of an access it knows the block
   it means, which it names or, behind the last one, leaves to the ESC.     *)
Accesses == {cmd.Read, cmd.ReadEEprom, cmd.Write, cmd.WriteEEprom, cmd.Verify}
ASSUME RequestAssumption ==
    \A r \in Requests :
        /\ r \in [cmd : Nat \ {0}, addr : Nat, low : Nat, par : Seq(Nat), want : Cells \cup {-1}]
        /\ Len(r.par) \in 1..LongLen
        /\ r.cmd \in Accesses => r.addr \in {KeepAddress, r.want}

Crc(half, bytes) == <<half>> \o [i \in DOMAIN bytes |-> Head(bytes[i])]
Header(r) == <<Escape, r.cmd, r.addr, r.low, Len(r.par)>>
Body(r) == [i \in 1..5 + Len(r.par) |-> <<IF i <= 5 THEN Header(r)[i] ELSE r.par[i - 5]>>]
Frame(r) == Body(r) \o <<Crc(-1, Body(r)), Crc(-2, Body(r))>>

(* What ReadByteCrc collects: it looks for the escape, then takes as many
   bytes as the length says. *)
Starts(in) == {i \in DOMAIN in : in[i] = <<Escape>>}
Sought(in) ==
    IF Starts(in) = {} THEN <<>>
    ELSE SubSeq(in, CHOOSE i \in Starts(in) : \A k \in Starts(in) : i <= k, Len(in))
BlockLen(in) ==
    LET b == Head(in[5]) IN IF b \in 1..LongLen THEN b ELSE LongLen
Whole(in) == Len(in) >= 5 /\ Len(in) >= 7 + BlockLen(in)

CrcGood(in) ==
    LET n == 5 + BlockLen(in) IN
    /\ in[n + 1] = Crc(-1, SubSeq(in, 1, n))
    /\ in[n + 2] = Crc(-2, SubSeq(in, 1, n))

Decoded(in) ==
    Request(Head(in[2]), Head(in[3]), Head(in[4]),
            [i \in 1..BlockLen(in) |-> Head(in[5 + i])], -1)

(* Mutant: the checksum is not looked at. *)
ReadFrame_NoCrc ==
    LET in == Sought(inbox) IN
    /\ pc = "read" /\ Whole(in)
    /\ inbox' = SubSeq(in, 8 + BlockLen(in), Len(in))
    /\ req' = Decoded(in)
    /\ ack' = "OK" /\ pc' = "serve"
    /\ out' = 0
    /\ UNCHANGED <<job, steps, tries, mode, connected, selected, escCount, outputs, SeqNumber,
                   escs, host, faults>>

(* A whole frame is there.  One whose checksum is wrong is answered at once. *)
ReadFrame ==
    LET in == Sought(inbox) IN
    /\ pc = "read" /\ Whole(in)
    /\ inbox' = SubSeq(in, 8 + BlockLen(in), Len(in))
    /\ req' = Decoded(in)
    /\ IF CrcGood(in) THEN ack' = "OK" /\ pc' = "serve" ELSE ack' = "InvalidCrc" /\ pc' = "reply"
    /\ out' = 0
    /\ UNCHANGED <<job, steps, tries, mode, connected, selected, escCount, outputs, SeqNumber,
                   escs, host, faults>>

-----------------------------------------------------------------------------
(* Entry, by an MSP command: the drivers let go of the motor pins. *)
esc4wayInit ==
    /\ pc = "msp" /\ pc' = "read"
    /\ outputs' = "pulled up" /\ escCount' = EscCount
    /\ UNCHANGED <<inbox, req, ack, out, job, steps, tries, mode, connected, selected, SeqNumber,
                   escs, host, faults>>

(* Serving: either an answer is there at once ... *)
Answer(a, result) ==
    /\ pc' = "reply" /\ ack' = a /\ out' = result
    /\ job' = "none" /\ steps' = <<>> /\ tries' = 0
(* ... or messages have to be exchanged with the ESC. *)
Begin(j, s) ==
    /\ pc' = "exchange" /\ job' = j /\ steps' = s /\ tries' = 3 /\ UNCHANGED <<ack, out>>

InvalidCmd == Answer("InvalidCmd", 0) /\ UNCHANGED <<mode, connected, selected>>

BlModes == {"SIL", "ATM", "ARM"}

TestAlive ==
    /\ req.cmd = cmd.TestAlive
    /\ CASE ~connected -> Answer("OK", 0) /\ UNCHANGED connected
         [] connected /\ mode \in BlModes -> Begin("alive", BL_KeepAlive) /\ UNCHANGED connected
         [] connected /\ mode = "SK" -> Begin("alive", Stk_SignOn) /\ UNCHANGED connected
         [] OTHER -> Answer("GeneralError", 0) /\ connected' = FALSE
    /\ UNCHANGED <<mode, selected>>

(* The interface's versions and name, and the exit, need no ESC. *)
AboutInterface ==
    /\ req.cmd \in {cmd.ProtocolGetVersion, cmd.GetName, cmd.GetVersion, cmd.Exit}
    /\ Answer("OK", 0) /\ UNCHANGED <<mode, connected, selected>>

SetMode ==
    /\ req.cmd = cmd.SetMode
    /\ IF Head(req.par) \in DOMAIN Modes
       THEN mode' = Modes[Head(req.par)] /\ Answer("OK", 0)
       ELSE Answer("InvalidParam", 0) /\ UNCHANGED mode
    /\ UNCHANGED <<connected, selected>>

DeviceReset ==
    /\ req.cmd = cmd.Reset
    /\ IF Head(req.par) \notin 0..escCount - 1
       THEN Answer("InvalidChannel", 0) /\ UNCHANGED <<connected, selected>>
       ELSE /\ selected' = Head(req.par)
            /\ IF mode \in BlModes THEN Begin("reset", BL_RunRestart) /\ connected' = TRUE
               ELSE Answer("OK", 0) /\ connected' = FALSE
    /\ UNCHANGED mode

(* How Connect begins a try: with SimonK, unless the host has set the mode
   of the 32 bit bootloader. *)
FirstWay == IF mode # "ARM" THEN "stkConnect" ELSE "blConnect"
Way(j) == IF j = "stkConnect" THEN Stk_ConnectEx ELSE BL_ConnectEx

DeviceInitFlash ==
    /\ req.cmd = cmd.InitFlash
    /\ connected' = FALSE
    /\ IF Head(req.par) \notin 0..escCount - 1
       THEN Answer("InvalidChannel", 0) /\ UNCHANGED selected
       ELSE Begin(FirstWay, Way(FirstWay)) /\ selected' = Head(req.par)
    /\ UNCHANGED mode

(* Memory operations: which modes have them, and what they send.  A write
   to flash in no mode at all is answered as done. *)
Block == Head(req.par)
PageAddress == (IF mode = "ARM" THEN 4 ELSE 2) * Block
Access ==
    CASE req.cmd = cmd.EraseAll /\ mode = "SK" -> Stk_Chip_Erase
      [] req.cmd = cmd.PageErase /\ mode \in {"SIL", "ARM"} -> BL_PageErase(PageAddress)
      [] req.cmd = cmd.Read /\ mode \in BlModes -> BL_ReadFlash(mode, req.addr)
      [] req.cmd = cmd.Read /\ mode = "SK" -> Stk_ReadFlash(req.addr)
      [] req.cmd = cmd.ReadEEprom /\ mode = "ATM" -> BL_ReadEEprom(req.addr)
      [] req.cmd = cmd.ReadEEprom /\ mode = "SK" -> Stk_ReadEEprom(req.addr)
      [] req.cmd = cmd.Write /\ mode \in BlModes -> BL_WriteFlash(req.addr, Block)
      [] req.cmd = cmd.Write /\ mode = "SK" -> Stk_WriteFlash(req.addr, Block)
      [] req.cmd = cmd.WriteEEprom /\ mode = "ATM" -> BL_WriteEEprom(req.addr, Block)
      [] req.cmd = cmd.WriteEEprom /\ mode = "SK" -> Stk_WriteEEprom(req.addr, Block)
      [] req.cmd = cmd.Verify /\ mode = "ARM" -> BL_VerifyFlash(req.addr, Block)
      [] OTHER -> <<>>

MemoryCommands == {cmd.EraseAll, cmd.PageErase, cmd.Read, cmd.ReadEEprom, cmd.Write,
                   cmd.WriteEEprom, cmd.Verify}
DeviceMemory ==
    /\ req.cmd \in MemoryCommands
    /\ IF Access # <<>> THEN Begin("memory", Access)
       ELSE IF req.cmd = cmd.Write THEN Answer("OK", 0)
       ELSE IF req.cmd = cmd.WriteEEprom /\ mode # "SIL" THEN Answer("GeneralError", 0)
       ELSE Answer("InvalidCmd", 0)
    /\ UNCHANGED <<mode, connected, selected>>

Serve ==
    /\ pc = "serve"
    /\ \/ TestAlive
       \/ AboutInterface
       \/ SetMode
       \/ DeviceReset
       \/ DeviceInitFlash
       \/ DeviceMemory
       \/ req.cmd \notin {cmd[c] : c \in DOMAIN cmd} /\ InvalidCmd
    /\ UNCHANGED <<inbox, req, escCount, outputs, SeqNumber, escs, host, faults>>
-----------------------------------------------------------------------------
(* The end of a function, and what follows.  Connect has three tries, each
   in two ways.                                                            *)
Reply(a) == pc' = "reply" /\ ack' = a /\ job' = "none" /\ steps' = <<>> /\ tries' = 0
GoOn(j, s, n) == pc' = "exchange" /\ job' = j /\ steps' = s /\ tries' = n /\ UNCHANGED ack

Connected(m) == mode' = m /\ connected' = TRUE /\ Reply("OK")
(* Mutant: the tries are not counted. *)
NotThisWay_Forever(known) ==
    /\ UNCHANGED mode
    /\ IF job = "stkConnect"
       THEN GoOn("blConnect", BL_ConnectEx, tries) /\ connected' = known
       ELSE GoOn(FirstWay, Way(FirstWay), tries) /\ connected' = known

NotThisWay(known) ==
    /\ UNCHANGED mode
    /\ IF job = "stkConnect"
       THEN GoOn("blConnect", BL_ConnectEx, tries) /\ connected' = known
       ELSE IF tries > 1 THEN GoOn(FirstWay, Way(FirstWay), tries - 1) /\ connected' = known
       ELSE Reply("GeneralError") /\ connected' = FALSE

Succeeded(kind, answer) ==
    CASE job \in {"stkConnect", "blConnect"} ->
           IF DeviceMatch(kind) # "none" THEN Connected(DeviceMatch(kind)) ELSE NotThisWay(TRUE)
      [] job = "reset" -> Reply("OK") /\ connected' = FALSE /\ UNCHANGED mode
      [] job = "alive" -> Reply("OK") /\ UNCHANGED <<mode, connected>>
      [] job = "memory" -> /\ Reply(IF answer = "differs" THEN "VerifyError" ELSE "OK")
                           /\ UNCHANGED <<mode, connected>>

Failed ==
    CASE job \in {"stkConnect", "blConnect"} -> NotThisWay(connected)
      [] job = "alive" -> Reply("GeneralError") /\ connected' = FALSE /\ UNCHANGED mode
      [] job = "memory" -> Reply("GeneralError") /\ UNCHANGED <<mode, connected>>

(* One message is sent; the craft listens for the answer it wants until its
   time is up.  A SimonK answer must carry the number of the message.      *)
Numbered(msg) == IF IsStk(msg) THEN (SeqNumber + 1) % SeqMod ELSE SeqNumber

(* Mutant: the number of an answer is not compared. *)
Heard_AnyNumber(msg, answer, number) == Accepted(msg, answer.says)

Heard(msg, answer, number) ==
    Accepted(msg, answer.says) /\ (IsStk(msg) => number = Numbered(msg))

Proceed(msg, answer, number) ==
    IF ~Heard(msg, answer, number) THEN Failed /\ out' = 0
    ELSE /\ out' = IF msg.wants \in {"data", "block"} THEN answer.d ELSE out
         /\ IF Len(steps) > 1
            THEN /\ pc' = pc /\ steps' = Tail(steps) /\ UNCHANGED <<ack, job, tries, mode, connected>>
            ELSE Succeeded(esc[selected].kind, answer.says)

NoAnswer == Says(<<>>, "none", 0)
NothingLate == [who |-> -1, says |-> "none", d |-> 0, number |-> 0]

(* No answer is so late that the numbers have come round to its own. *)
StillLate(msg) ==
    IF IsStk(msg) /\ late.number = (Numbered(msg) + 1) % SeqMod THEN NothingLate ELSE late

(* With a reset the signal line is held low, if asked, until the ESC restarts. *)
Then(e) == [esc EXCEPT ![selected] = IF job = "reset" /\ req.low = 1 THEN Restarted(e) ELSE e]

(* Messages whose answer the craft does not wait for. *)
Unheeded(msg) == msg.wants = "nothing"

(* The message is heard and answered in time. *)
Answered(msg, reaction) ==
    /\ esc' = Then(reaction.esc)
    /\ Proceed(msg, reaction, Numbered(msg))
    /\ late' = StillLate(msg)
    /\ UNCHANGED <<lateTaken, faults>>

(* The message is not heard, or the answer is lost. *)
Unheard(msg, reaction) ==
    /\ faults < MaxFaults /\ faults' = faults + 1
    /\ \/ esc' = Then(esc[selected])
       \/ esc' = Then(reaction.esc)
    /\ Proceed(msg, NoAnswer, Numbered(msg))
    /\ late' = StillLate(msg)
    /\ UNCHANGED lateTaken

(* The answer comes when the craft has stopped to wait for it. *)
TooLate(msg, reaction) ==
    /\ faults < MaxFaults /\ faults' = faults + 1
    /\ reaction.says # "none" /\ ~Unheeded(msg)
    /\ esc' = Then(reaction.esc)
    /\ late' = [who |-> selected, says |-> reaction.says, d |-> reaction.d,
               number |-> Numbered(msg)]
    /\ Proceed(msg, NoAnswer, Numbered(msg))
    /\ UNCHANGED lateTaken

(* The ESC is still busy: it does not hear the message, and its old answer
   is what the craft hears. *)
Belated(msg) ==
    LET answer == [says |-> late.says, d |-> late.d] IN
    /\ late.who = selected /\ ~Unheeded(msg)
    /\ late' = NothingLate
    /\ lateTaken' = (lateTaken \/ Heard(msg, answer, late.number))
    /\ Proceed(msg, answer, late.number)
    /\ UNCHANGED <<esc, faults>>

Exchange ==
    /\ pc = "exchange"
    /\ LET msg == Head(steps)
           reaction == Reaction(esc[selected], msg, connected)
       IN /\ SeqNumber' = Numbered(msg)
          /\ IF late.who = selected /\ ~Unheeded(msg) THEN Belated(msg)
             ELSE \/ Answered(msg, reaction)
                  \/ Unheard(msg, reaction)
                  \/ TooLate(msg, reaction)
    /\ UNCHANGED <<inbox, req, selected, escCount, outputs, host>>

(* What an ESC does by itself: it restarts, or its old answer finds nobody
   who listens. *)
EscRestarts(i) ==
    /\ pc # "msp" /\ pc # "restarted"
    /\ esc[i].linked
    /\ faults < MaxFaults /\ faults' = faults + 1
    /\ esc' = [esc EXCEPT ![i] = Restarted(@)]
    /\ UNCHANGED <<pc, inbox, craft, late, lateTaken, host>>

AnswerIsLost ==
    /\ late # NothingLate /\ late' = NothingLate
    /\ UNCHANGED <<pc, inbox, craft, esc, lateTaken, host, faults>>
-----------------------------------------------------------------------------
(* The reply repeats command and address.  (That to a page erase has the
   address of the page; the host, who knows the mode, tells its own by it.)
   Behind the reply to an exit the craft lets go of the ESCs and restarts.  *)
Matches(r) == req.cmd = r.cmd /\ req.addr = r.addr /\ req.low = r.low

Successor(r) ==
    IF r.cmd \in Accesses /\ r.want + 1 \in Cells
    THEN r.want + 1 ELSE -1

(* Is a frame that the craft would serve among the bytes it has not read? *)
FrameAt(in, k) ==
    LET bytes == SubSeq(in, k, Len(in))
    IN in[k] = <<Escape>> /\ Whole(bytes) /\ CrcGood(bytes)
FrameWaits == \E k \in DOMAIN inbox : FrameAt(inbox, k)

HostHears ==
    \/ /\ UNCHANGED faults
       /\ IF Matches(ask)
          THEN /\ ask' = NoRequest
               /\ next' = IF ack = "OK" THEN Successor(ask) ELSE -1
               /\ crossed' = (crossed \/ (ack = "InvalidCrc" /\ FrameWaits))
          ELSE UNCHANGED <<ask, next, crossed>>
    \/ /\ faults < MaxFaults /\ faults' = faults + 1
       /\ UNCHANGED <<ask, next, crossed>>

WriteReply ==
    /\ pc = "reply"
    /\ IF req.cmd = cmd.Exit /\ ack = "OK"
       THEN pc' = "restarted" /\ escCount' = 0 /\ outputs' = "low"
       ELSE pc' = "read" /\ UNCHANGED <<escCount, outputs>>
    /\ HostHears
    /\ req' = NoRequest /\ ack' = "OK" /\ out' = 0
    /\ UNCHANGED <<inbox, job, steps, tries, mode, connected, selected, SeqNumber, escs, left>>

-----------------------------------------------------------------------------
(* The host.  It asks one thing at a time; when nothing comes back while the
   craft is idle it gives the request up.  It goes on behind the last access
   only if that was answered as done.  At last it asks to exit, again and
   again until the craft has.  A byte of a frame may be lost or damaged.   *)
Without(bytes, k) == [i \in 1..Len(bytes) - 1 |-> IF i < k THEN bytes[i] ELSE bytes[i + 1]]

HostAsks(r) ==
    /\ pc # "msp" /\ pc # "restarted" /\ ask = NoRequest
    /\ r.addr = KeepAddress => next # -1
    /\ ask' = IF r.addr = KeepAddress THEN [r EXCEPT !.want = next] ELSE r
    /\ next' = -1
    /\ \/ inbox' = inbox \o Frame(r) /\ UNCHANGED faults
       \/ /\ faults < MaxFaults /\ faults' = faults + 1
          /\ \E k \in DOMAIN Frame(r) \cap FaultAt :
                \/ inbox' = inbox \o Without(Frame(r), k)
                \/ inbox' = inbox \o [Frame(r) EXCEPT ![k] = <<-3>>]
    /\ UNCHANGED <<pc, craft, escs, crossed>>

HostAsksSome ==
    \/ left > 0 /\ left' = left - 1 /\ \E r \in Requests : HostAsks(r)
    \/ left = 0 /\ UNCHANGED left /\ HostAsks(ExitRequest)

HostGivesUp ==
    /\ pc = "read" /\ ask # NoRequest /\ ~Whole(Sought(inbox))
    /\ ask' = NoRequest
    /\ UNCHANGED <<pc, inbox, craft, escs, next, crossed, left, faults>>

-----------------------------------------------------------------------------
Init ==
    /\ pc = "msp" /\ inbox = <<>> /\ req = NoRequest /\ ack = "OK" /\ out = 0
    /\ job = "none" /\ steps = <<>> /\ tries = 0
    /\ mode = "none" /\ connected = FALSE /\ selected = 0
    /\ escCount = 0 /\ outputs = "driven" /\ SeqNumber = 0
    /\ \E k \in EscKinds : esc = [i \in 0..EscCount - 1 |->
            Esc(IF i = 0 THEN k ELSE "SIL", [c \in Cells |-> 0], [c \in Cells |-> 0])]
    /\ late = NothingLate /\ lateTaken = FALSE
    /\ ask = NoRequest /\ next = -1 /\ crossed = FALSE /\ left = MaxRequests /\ faults = 0

Craft == esc4wayInit \/ ReadFrame \/ Serve \/ Exchange \/ WriteReply
Host == HostAsksSome \/ HostGivesUp
Next == Craft \/ Host \/ (\E i \in DOMAIN esc : EscRestarts(i)) \/ AnswerIsLost

Spec == Init /\ [][Next]_vars /\ WF_vars(Craft) /\ WF_vars(Host)

-----------------------------------------------------------------------------
(* What was done, in terms of the host's request. *)
Done(r) ==
    LET e == esc[selected]  d == Head(r.par) IN
    CASE r.cmd = cmd.Write -> e.flash[r.want] = d
      [] r.cmd = cmd.WriteEEprom -> e.eeprom[r.want] = d
      [] r.cmd = cmd.Read -> e.flash[r.want] = out
      [] r.cmd = cmd.ReadEEprom -> e.eeprom[r.want] = out
      [] r.cmd = cmd.Verify -> e.flash[r.want] = d
      [] r.cmd = cmd.PageErase -> \A c \in PageCells(e.kind, d) : e.flash[c] = Blank
      [] r.cmd = cmd.EraseAll -> \A c \in Cells : e.flash[c] = Blank
      [] OTHER -> TRUE

(* A late BLHeli answer may pass for the answer of another message; SimonK's
   carry a number.  The replies to the host carry none: if a frame was damaged,
   and what is left of the next contains its header, the host may be a reply
   ahead.  And it may set a mode the ESC does not have.                    *)
Trusted == mode = esc[selected].kind /\ (mode = "SK" \/ ~lateTaken) /\ ~crossed

(* When the craft answers a read, write, erase or verify with OK, then the
   selected ESC's memory is as the answer says, at the address the host meant,
   whatever was lost, damaged, repeated or restarted on the way. *)
OkMeansDone == pc = "reply" /\ ack = "OK" /\ Matches(ask) /\ Trusted => Done(ask)

(* The cells of an ESC's two memories that a request may change. *)
Touches(r, memory, c) ==
    CASE r.cmd = cmd.Write -> memory = "flash" /\ c = r.want
      [] r.cmd = cmd.WriteEEprom -> memory = "eeprom" /\ c = r.want
      [] r.cmd = cmd.PageErase -> memory = "flash" /\ c \in PageCells(esc[selected].kind, Head(r.par))
      [] r.cmd = cmd.EraseAll -> memory = "flash"
      [] OTHER -> FALSE

(* Nothing is stored but where the request at hand says, and in no ESC but
   the selected one. *)
OnlyAskedIsChanged ==
    [][\A i \in DOMAIN esc, memory \in {"flash", "eeprom"}, c \in Cells :
          esc'[i][memory][c] # esc[i][memory][c] /\ Trusted =>
             i = selected /\ Touches(ask, memory, c)]_vars

(* However the session goes, the host gets out of it in the end: the craft
   restarts and its motors have their pins back. *)
SessionEnds == <>(pc = "restarted" /\ outputs = "low")
=============================================================================
