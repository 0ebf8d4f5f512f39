-------------------------- MODULE EscBootloaders --------------------------
(***************************************************************************)
(* The two ways to talk to the bootloader of an ESC over its signal wire:  *)
(* the BLHeli bootloader (BL_...) and the SimonK one, which speaks STK500  *)
(* (Stk_...).  An operation is the sequence of the messages it sends; each *)
(* must be answered as it expects, or the operation ends there with an     *)
(* error.  The wire has no buffer: what arrives while nobody listens is    *)
(* lost.                                                                   *)
(***************************************************************************)
EXTENDS Integers, Sequences

CONSTANTS KeepAddress,  \* the address 0xFFFF: go on behind the last access
          Cells,        \* addresses of the blocks of an ESC's memory, 0..n
          Blank         \* what an erased block reads as

ASSUME BootloaderAssumption ==
    /\ Cells \subseteq Nat /\ Cells # {} /\ Blank \in Int
    /\ KeepAddress \in Nat \ Cells /\ KeepAddress % 2 = 1

(* A message and the answer the operation wants for it. *)
Message(op, arg, wants) == [op |-> op, arg |-> arg, wants |-> wants]

-----------------------------------------------------------------------------
(* BLHeli.  The buffer is announced without an answer, then filled; a flash
   command acts on the address and the buffer that were set before.        *)
BL_SetAddress(a) ==
    IF a = KeepAddress THEN <<>> ELSE <<Message("address", a, "success")>>

BL_SetBuffer(d) == <<Message("buffer", 0, "none"), Message("fill", d, "success")>>

BL_WriteA(cmd, a, d) == BL_SetAddress(a) \o BL_SetBuffer(d) \o <<Message(cmd, 0, "success")>>

BL_ReadA(cmd, a) == BL_SetAddress(a) \o <<Message(cmd, 0, "data")>>

BL_ReadFlash(mode, a) == BL_ReadA(IF mode = "ATM" THEN "readAtm" ELSE "read", a)
BL_ReadEEprom(a) == BL_ReadA("readEE", a)
BL_WriteFlash(a, d) == BL_WriteA("program", a, d)
BL_WriteEEprom(a, d) == BL_WriteA("programEE", a, d)
BL_VerifyFlash(a, d) ==
    BL_SetAddress(a) \o BL_SetBuffer(d) \o <<Message("verify", 0, "verdict")>>
BL_PageErase(a) == BL_SetAddress(a) \o <<Message("erase", 0, "success")>>
BL_KeepAlive == <<Message("alive", 0, "unknown")>>
BL_RunRestart == <<Message("run", 0, "nothing")>>
BL_ConnectEx == <<Message("init", 0, "signature")>>

-----------------------------------------------------------------------------
(* STK500.  Each message has a sequence number that its answer repeats. *)
Stk_SignOn == <<Message("signOn", 0, "ok")>>
Spi(byte) == <<Message("spi", byte, "ok")>>
LoadAddress(a) == IF a = KeepAddress THEN <<>> ELSE <<Message("load", a, "ok")>>
ReadMem(op) == <<Message(op, 0, "block")>>
ProgramMem(op, d) == <<Message(op, d, "ok")>>

Stk_ConnectEx == Stk_SignOn \o Spi(1) \o Spi(2)
Stk_ReadFlash(a) == LoadAddress(a) \o ReadMem("stkRead")
Stk_ReadEEprom(a) == LoadAddress(a) \o ReadMem("stkReadEE")
Stk_WriteFlash(a, d) == LoadAddress(a) \o ProgramMem("stkProgram", d)
Stk_WriteEEprom(a, d) == LoadAddress(a) \o ProgramMem("stkProgramEE", d)
Stk_Chip_Erase == <<Message("stkErase", 0, "ok")>>

IsStk(msg) ==
    msg.op \in {"signOn", "spi", "load", "stkRead", "stkReadEE", "stkProgram",
                "stkProgramEE", "stkErase"}

-----------------------------------------------------------------------------
(* An ESC: its kind, whether its bootloader is linked to the craft,
   the address and the buffer that are set, its two memories.  Programming
   and reading move the address behind the block.                          *)
Kinds == {"SIL", "ATM", "ARM", "SK", "OTHER"}
PageCells(kind, page) ==
    LET size == IF kind = "ARM" THEN 4 ELSE 2 IN Cells \cap (page * size .. page * size + size - 1)
PageOf(kind, a) == PageCells(kind, a \div (IF kind = "ARM" THEN 4 ELSE 2))

NoBuffer == [set |-> FALSE, d |-> 0]
Esc(kind, flash, eeprom) ==
    [kind |-> kind, linked |-> FALSE, at |-> 0, announced |-> FALSE, buffer |-> NoBuffer,
     flash |-> flash, eeprom |-> eeprom]

Restarted(esc) == [esc EXCEPT !.linked = FALSE, !.at = 0, !.announced = FALSE, !.buffer = NoBuffer]
MovedOn(esc) == [esc EXCEPT !.at = IF esc.at + 1 \in Cells THEN esc.at + 1 ELSE esc.at]

(* What the ESC does with a message it hears whole, and what it answers:
   [esc, says, d].  crc says whether the craft has put a checksum behind the
   message, which a linked bootloader wants and another does not.          *)
Says(esc, answer, d) == [esc |-> esc, says |-> answer, d |-> d]

BlReaction(esc, msg) ==
    LET e == [esc EXCEPT !.announced = FALSE]
        At(memory) == e[memory][e.at]
        Read(memory) == Says(MovedOn(e), "data", At(memory))
        Program(memory) ==
            IF e.buffer.set THEN Says(MovedOn([e EXCEPT ![memory][e.at] = e.buffer.d]), "success", 0)
            ELSE Says(e, "unknown", 0)
    IN CASE msg.op = "address" -> Says([e EXCEPT !.at = msg.arg], "success", 0)
         [] msg.op = "buffer" -> Says([e EXCEPT !.announced = TRUE], "none", 0)
         [] msg.op = "fill" /\ esc.announced ->
              Says([e EXCEPT !.buffer = [set |-> TRUE, d |-> msg.arg]], "success", 0)
         [] msg.op = "program" -> Program("flash")
         [] msg.op = "programEE" /\ e.kind = "ATM" -> Program("eeprom")
         [] msg.op = "read" /\ e.kind # "ATM" -> Read("flash")
         [] msg.op = "readAtm" /\ e.kind = "ATM" -> Read("flash")
         [] msg.op = "readEE" /\ e.kind = "ATM" -> Read("eeprom")
         [] msg.op = "verify" /\ e.kind = "ARM" /\ e.buffer.set ->
              Says(MovedOn(e), IF At("flash") = e.buffer.d THEN "success" ELSE "differs", 0)
         [] msg.op = "erase" /\ e.kind # "ATM" ->
              Says([e EXCEPT !.flash = [c \in Cells |-> IF c \in PageOf(e.kind, e.at) THEN Blank
                                                        ELSE @[c]]], "success", 0)
         [] msg.op = "run" -> Says(Restarted(e), "none", 0)
         [] OTHER -> Says(e, "unknown", 0)

StkReaction(esc, msg) ==
    LET Program(memory) == Says(MovedOn([esc EXCEPT ![memory][esc.at] = msg.arg]), "ok", 0)
        Read(memory) == Says(MovedOn(esc), "block", esc[memory][esc.at])
    IN IF msg.op = "signOn" THEN Says([esc EXCEPT !.linked = TRUE], "ok", 0)
       ELSE IF ~esc.linked THEN Says(esc, "none", 0)
       ELSE CASE msg.op = "spi" -> Says(esc, "ok", 0)
              [] msg.op = "load" -> Says([esc EXCEPT !.at = msg.arg], "ok", 0)
              [] msg.op = "stkRead" -> Read("flash")
              [] msg.op = "stkReadEE" -> Read("eeprom")
              [] msg.op = "stkProgram" -> Program("flash")
              [] msg.op = "stkProgramEE" -> Program("eeprom")
              [] msg.op = "stkErase" -> Says([esc EXCEPT !.flash = [c \in Cells |-> Blank]], "ok", 0)

Reaction(esc, msg, crc) ==
    IF IsStk(msg) THEN IF esc.kind = "SK" THEN StkReaction(esc, msg) ELSE Says(esc, "none", 0)
    ELSE IF esc.kind = "SK" THEN Says(esc, "none", 0)
    ELSE IF msg.op = "init"
         THEN IF esc.linked THEN Says(esc, "unknown", 0)
              ELSE Says([esc EXCEPT !.linked = TRUE], "signature", 0)
    ELSE IF esc.linked /\ crc THEN BlReaction(esc, msg)
    ELSE Says(esc, "none", 0)

(* Does an answer let the operation go on?  "none" is silence.  A verdict is
   handed to the host whatever it says. *)
Accepted(msg, answer) ==
    \/ msg.wants = answer
    \/ msg.wants = "nothing"
    \/ msg.wants = "verdict" /\ answer \in {"success", "differs"}

(* The interface mode that serves the device whose signature was read, if any. *)
DeviceMatch(kind) == IF kind = "OTHER" THEN "none" ELSE kind
=============================================================================
