--------------------------- MODULE RecorderProofs ----------------------------
(***************************************************************************)
(* The recorder's journal, its flash and what its logs hold, for all       *)
(* sizes, modes and recordings, as long as no erase command interrupts a   *)
(* recording.                                                              *)
(***************************************************************************)
EXTENDS Recorder, SequenceTheorems, WellFoundedInduction, TLAPS

-----------------------------------------------------------------------------
(* What every operation of Flashfs keeps of the journal and of the flash,  *)
(* for all sizes.                                                          *)

(* There is room for what the buffer holds.                                  *)
Room ==
  /\ address < FlashSize => address + Len(buffer) < FlashSize
  /\ flashfsIsEOF => buffer = <<>>

Journaled ==
  /\ journal = saved
  /\ Consecutive(journal, journalIdx) /\ AtLog(journal, journalIdx, address)

Good == FlashType /\ Room /\ Journaled

SavedOk == \E n \in 0..JournalItems : Consecutive(saved, n)

Fresh == \A a \in Cells : a >= address => flash[a] = Blank
NoGarbage == \A a \in Cells : flash[a] # Garbage
AllBlank == \A a \in Cells : flash[a] = Blank
AllErased == saved = [i \in Items |-> ErasedItem]

USE FlashAssumption DEF Cells, Items, Addresses, None

(* A cell lower than all others: the first blank one that a recovery reads.  *)
LEMMA LowestExists ==
  ASSUME NEW S \in SUBSET Nat, S # {}
  PROVE  Lowest(S) \in S /\ \A b \in S : Lowest(S) <= b
<1> DEFINE less == {ss \in Nat \X Nat : ss[1] < ss[2]}
<1>1. IsWellFoundedOn(less, Nat)
  BY NatLessThanWellFounded, Zenon DEF OpToRel
<1> HIDE DEF less
<1>2. PICK a \in S : \A b \in S : ~(<<b, a>> \in less)
  BY <1>1, WFMin, Zenon
<1>3. ASSUME NEW b \in S PROVE a <= b
  <2>1. a \in Nat /\ b \in Nat /\ ~(<<b, a>> \in less)
    BY <1>2
  <2>2. b < a => <<b, a>> \in less
    BY <2>1 DEF less
  <2> QED
    BY <2>1, <2>2
<1> QED
  BY <1>3, Zenon DEF Lowest

-----------------------------------------------------------------------------
(* Writing keeps the cells' type, and a flash without garbage that is blank  *)
(* from the address on.                                                      *)
LEMMA WrittenCells ==
  ASSUME FlashType, NEW bytes \in Seq(Data)
  PROVE  /\ Written(bytes) \in [Cells -> Data \union {Garbage}]
         /\ Fresh /\ NoGarbage =>
              \A a \in Cells : /\ Written(bytes)[a] # Garbage
                               /\ a >= address + Len(bytes) => Written(bytes)[a] = Blank
<1> DEFINE within(a) == a >= address /\ a < address + Len(bytes)
<1>1. Len(bytes) \in Nat /\ address \in Nat
  BY DEF FlashType
<1>2. ASSUME NEW a \in Cells, within(a)
      PROVE  bytes[a - address + 1] \in Data
  BY <1>1, <1>2, ElementOfSeq
<1>3. ASSUME NEW a \in Cells
      PROVE  Written(bytes)[a] = IF within(a) THEN Program(flash[a], bytes[a - address + 1])
                                 ELSE flash[a]
  BY DEF Written
<1> HIDE DEF within
<1>4. ASSUME NEW a \in Cells
      PROVE  Written(bytes)[a] \in Data \union {Garbage}
  BY <1>2, <1>3 DEF FlashType, Program
<1>5. ASSUME Fresh, NoGarbage, NEW a \in Cells
      PROVE  /\ Written(bytes)[a] # Garbage
             /\ a >= address + Len(bytes) => Written(bytes)[a] = Blank
  <2>1. CASE within(a)
    BY <1>1, <1>2, <1>3, <1>5, <2>1 DEF within, Program, Fresh
  <2>2. CASE ~within(a)
    BY <1>1, <1>3, <1>5, <2>2 DEF Fresh, NoGarbage
  <2> QED
    BY <2>1, <2>2
<1>6. Written(bytes) = [a \in Cells |-> Written(bytes)[a]]
  BY DEF Written
<1> QED
  BY <1>4, <1>5, <1>6

(* Where the next log begins lies within the flash.                          *)
LEMMA StartTyped ==
  ASSUME FlashType, Journaled
  PROVE  StartOf(journal, journalIdx) \in 0..address
<1>1. CASE journalIdx = 0
  BY <1>1 DEF FlashType, StartOf
<1>2. CASE journalIdx # 0
  <2>1. journalIdx - 1 \in Items /\ journalIdx - 1 < journalIdx
    BY <1>2 DEF FlashType
  <2>2. journal[journalIdx - 1].end \in Addresses \union {None}
    BY <2>1 DEF FlashType, JournalItem
  <2>3. journal[journalIdx - 1].end <= address
    BY <1>2 DEF Journaled, AtLog, StartOf
  <2> QED
    BY <1>2, <2>2, <2>3 DEF StartOf, FlashType
<1> QED
  BY <1>1, <1>2

(* Beginning a log where the journal ends keeps the logs consecutive.        *)
LEMMA BegunJournal ==
  ASSUME FlashType, Journaled
  PROVE  /\ LogBegun(journal) \in [Items -> JournalItem]
         /\ Consecutive(LogBegun(journal), journalIdx)
         /\ StartOf(LogBegun(journal), journalIdx) = StartOf(journal, journalIdx)
         /\ journalIdx < JournalItems =>
              LogBegun(journal)[journalIdx].begin = StartOf(journal, journalIdx)
<1> DEFINE J == LogBegun(journal)
<1>1. CASE flashfsLogStarted
  <2>1. J = journal
    BY <1>1 DEF LogBegun
  <2>2. journalIdx \in 0..JournalItems
    BY DEF FlashType
  <2>3. Consecutive(journal, journalIdx) /\ journal \in [Items -> JournalItem]
    BY DEF FlashType, Journaled
  <2>4. journalIdx < JournalItems => journal[journalIdx].begin = StartOf(journal, journalIdx)
    BY <1>1, <2>2, <2>3 DEF flashfsLogStarted, Consecutive
  <2> QED
    BY <2>1, <2>3, <2>4
<1>2. CASE ~flashfsLogStarted
  <2>1. /\ journalIdx \in Items /\ journal[journalIdx].begin = None
        /\ address = StartOf(journal, journalIdx)
    BY <1>2 DEF FlashType, Journaled, flashfsLogStarted, AtLog
  <2>2. /\ J \in [Items -> JournalItem]
        /\ \A i \in Items : J[i].end = journal[i].end
        /\ \A i \in Items : i # journalIdx => J[i] = journal[i]
        /\ J[journalIdx].begin = address
    BY <1>2, <2>1 DEF FlashType, LogBegun, JournalItem
  <2> HIDE DEF J
  <2>3. \A i \in Items : StartOf(J, i) = StartOf(journal, i)
    BY <2>2 DEF StartOf
  <2>4. Consecutive(journal, journalIdx)
    BY DEF Journaled
  <2>5. Consecutive(J, journalIdx)
    BY <2>1, <2>2, <2>3, <2>4 DEF Consecutive
  <2> QED
    BY <2>1, <2>2, <2>3, <2>5 DEF J
<1> QED
  BY <1>1, <1>2

(* Ending a log closes its item and leaves the next one erased.              *)
LEMMA EndedJournal ==
  ASSUME FlashType, Journaled, journalIdx < JournalItems,
         NEW end \in Addresses, address <= end
  PROVE  /\ LogEnded(journal, end) \in [Items -> JournalItem]
         /\ Consecutive(LogEnded(journal, end), journalIdx + 1)
         /\ StartOf(LogEnded(journal, end), journalIdx + 1) = end
<1> DEFINE B == LogBegun(journal)
<1> DEFINE J == LogEnded(journal, end)
<1>1. /\ B \in [Items -> JournalItem] /\ Consecutive(B, journalIdx)
      /\ StartOf(B, journalIdx) = StartOf(journal, journalIdx)
      /\ B[journalIdx].begin = StartOf(journal, journalIdx)
  BY BegunJournal
<1>2. journalIdx \in Items /\ address \in Nat /\ StartOf(B, journalIdx) \in 0..address
  BY <1>1, StartTyped DEF FlashType
<1>3. J = [B EXCEPT ![journalIdx].end = end]
  BY DEF LogEnded
<1> HIDE DEF B, J
<1>4. /\ J \in [Items -> JournalItem]
      /\ \A i \in Items : J[i].begin = B[i].begin
      /\ \A i \in Items : i # journalIdx => J[i] = B[i]
      /\ J[journalIdx].end = end
  BY <1>1, <1>2, <1>3 DEF JournalItem
<1>5. \A i \in Items : i <= journalIdx => StartOf(J, i) = StartOf(B, i)
  BY <1>2, <1>4 DEF StartOf
<1>6. StartOf(J, journalIdx + 1) = end
  BY <1>2, <1>4 DEF StartOf
<1>7. Consecutive(J, journalIdx + 1)
  <2>1. ASSUME NEW i \in Items, i < journalIdx + 1
        PROVE  /\ J[i].begin = StartOf(J, i)
               /\ J[i].begin <= J[i].end /\ J[i].end <= FlashSize
    <3>1. CASE i = journalIdx
      BY <1>1, <1>2, <1>4, <1>5, <3>1
    <3>2. CASE i < journalIdx
      <4>1. /\ B[i].begin = StartOf(B, i)
            /\ B[i].begin <= B[i].end /\ B[i].end <= FlashSize
        BY <1>1, <3>2 DEF Consecutive
      <4>2. J[i] = B[i] /\ StartOf(J, i) = StartOf(B, i)
        BY <1>2, <1>4, <1>5, <3>2 DEF Items
      <4> QED
        BY <4>1, <4>2
    <3> QED
      BY <1>2, <2>1, <3>1, <3>2
  <2>2. ASSUME NEW i \in Items, i >= journalIdx + 1
        PROVE  J[i].end = None /\ J[i].begin = None
    BY <1>1, <1>2, <1>4, <2>2 DEF Consecutive
  <2> QED
    BY <1>2, <1>6, <2>1, <2>2 DEF Consecutive
<1> QED
  BY <1>4, <1>6, <1>7 DEF J

-----------------------------------------------------------------------------
(* flashfsFlushAsync.                                                        *)
LEMMA FlushKeeps ==
  ASSUME Good, NEW bytes \in Seq(Data), address + Len(bytes) <= FlashSize,
         FlushAsync(bytes)
  PROVE  /\ FlashType' /\ Room' /\ Journaled'
         /\ Fresh /\ NoGarbage => Fresh' /\ NoGarbage'
         /\ buffer' = <<>> /\ journalIdx' = journalIdx
<1> DEFINE J == LogBegun(journal)
<1>1. FlashType /\ Room /\ Journaled
  BY DEF Good
<1>2. Len(bytes) \in Nat /\ address \in Nat /\ journalIdx \in 0..JournalItems
  BY <1>1 DEF FlashType
<1>3. /\ J \in [Items -> JournalItem] /\ Consecutive(J, journalIdx)
      /\ StartOf(J, journalIdx) = StartOf(journal, journalIdx)
      /\ journalIdx < JournalItems => J[journalIdx].begin = StartOf(journal, journalIdx)
  BY <1>1, BegunJournal
<1>4. /\ journal' = J /\ saved' = J /\ journalIdx' = journalIdx
      /\ address' = address + Len(bytes) /\ buffer' = <<>> /\ flash' = Written(bytes)
  BY <1>1 DEF FlushAsync, Journaled
<1> HIDE DEF J
<1>5. FlashType'
  BY <1>1, <1>2, <1>3, <1>4, WrittenCells, EmptySeq DEF FlashType
<1>6. Room'
  BY <1>2, <1>4, Len(<<>>) = 0 DEF Room
<1>7. Journaled'
  <2>1. StartOf(J, journalIdx) \in 0..address
    BY <1>1, <1>3, StartTyped
  <2>2. StartOf(J, journalIdx) <= address'
    BY <1>2, <1>4, <2>1
  <2>3. journalIdx < JournalItems => J[journalIdx].begin # None
    BY <1>2, <1>3, <2>1
  <2> QED
    BY <1>3, <1>4, <2>2, <2>3 DEF Journaled, AtLog
<1>8. ASSUME Fresh, NoGarbage PROVE Fresh' /\ NoGarbage'
  BY <1>1, <1>2, <1>4, <1>8, WrittenCells DEF Fresh, NoGarbage
<1> QED
  BY <1>4, <1>5, <1>6, <1>7, <1>8

(* flashfsClose.                                                             *)
LEMMA CloseKeeps ==
  ASSUME Good, NEW bytes \in Seq(Data), address + Len(bytes) <= FlashSize,
         journalIdx < JournalItems, Close(bytes)
  PROVE  /\ FlashType' /\ Room' /\ Journaled'
         /\ Fresh /\ NoGarbage => Fresh' /\ NoGarbage'
         /\ buffer' = <<>>
<1> DEFINE end == address + Len(bytes)
<1> DEFINE J == LogEnded(journal, end)
<1>1. FlashType /\ Room /\ Journaled
  BY DEF Good
<1>2. Len(bytes) \in Nat /\ address \in Nat /\ journalIdx \in 0..JournalItems
  BY <1>1 DEF FlashType
<1>3. end \in Addresses /\ address <= end
  BY <1>2
<1>4. /\ journal' = J /\ saved' = J /\ journalIdx' = journalIdx + 1
      /\ address' = end /\ buffer' = <<>> /\ flash' = Written(bytes)
  BY <1>1 DEF Close, Journaled
<1> HIDE DEF end
<1>5. /\ J \in [Items -> JournalItem] /\ Consecutive(J, journalIdx + 1)
      /\ StartOf(J, journalIdx + 1) = end
  BY <1>1, <1>3, EndedJournal
<1> HIDE DEF J
<1>6. FlashType'
  BY <1>1, <1>2, <1>3, <1>4, <1>5, WrittenCells, EmptySeq DEF FlashType
<1>7. Room'
  BY <1>2, <1>3, <1>4, Len(<<>>) = 0 DEF Room
<1>8. Journaled'
  BY <1>2, <1>3, <1>4, <1>5 DEF Journaled, AtLog
<1>9. ASSUME Fresh, NoGarbage PROVE Fresh' /\ NoGarbage'
  BY <1>1, <1>2, <1>4, <1>9, WrittenCells DEF Fresh, NoGarbage, end
<1> QED
  BY <1>4, <1>6, <1>7, <1>8, <1>9

(* flashfsWriteByte.                                                         *)
LEMMA WriteByteKeeps ==
  ASSUME Good, NEW datum \in Data, WriteByte(datum)
  PROVE  /\ FlashType' /\ Room' /\ Journaled'
         /\ Fresh /\ NoGarbage => Fresh' /\ NoGarbage'
         /\ journalIdx' = JournalItems => journalIdx = JournalItems \/ buffer' = <<>>
<1> DEFINE bytes == Push(datum)
<1>1. FlashType /\ Room /\ Journaled
  BY DEF Good
<1>2. /\ address \in Nat /\ journalIdx \in 0..JournalItems /\ buffer \in Seq(Data)
      /\ Len(buffer) \in Nat /\ Len(buffer) <= BufferSize
  BY <1>1 DEF FlashType
<1>3. bytes \in Seq(Data) /\ Len(bytes) <= Len(buffer) + 1 /\ Len(bytes) <= BufferSize
  BY <1>2, AppendProperties DEF Push
<1>4. Len(bytes) \in Nat
  BY <1>3
<1> HIDE DEF bytes
<1>5. CASE flashfsIsEOF /\ UNCHANGED flashfsVars
  BY <1>1, <1>2, <1>5
     DEF flashfsVars, media, FlashType, Room, flashfsIsEOF, Journaled, Fresh, NoGarbage
<1>6. CASE ~flashfsIsEOF
  <2>1. journalIdx < JournalItems /\ address < FlashSize
    BY <1>2, <1>6 DEF flashfsIsEOF
  <2>2. address + Len(bytes) <= FlashSize
    BY <1>1, <1>2, <1>3, <1>4, <2>1 DEF Room
  <2>3. CASE Close(bytes)
    BY <1>3, <2>1, <2>2, <2>3, CloseKeeps
  <2>4. CASE FlushAsync(bytes)
    BY <1>3, <2>2, <2>4, FlushKeeps
  <2>5. CASE /\ ~(address + Len(bytes) >= FlashSize)
             /\ buffer' = bytes /\ UNCHANGED <<media, journal, journalIdx, address>>
    <3>1. UNCHANGED <<flash, saved, journal, journalIdx, address>>
      BY <2>5 DEF media
    <3>2. FlashType' /\ Journaled'
      BY <1>1, <1>3, <2>5, <3>1 DEF FlashType, Journaled
    <3>3. Room'
      BY <1>2, <1>4, <2>1, <2>5, <3>1 DEF Room, flashfsIsEOF
    <3> QED
      BY <2>1, <3>1, <3>2, <3>3 DEF Fresh, NoGarbage
  <2> QED
    BY <1>6, <2>3, <2>4, <2>5 DEF WriteByte, bytes
<1> QED
  BY <1>5, <1>6 DEF WriteByte

-----------------------------------------------------------------------------
(* A write that is cut off leaves a journal that a restart can read.         *)
LEMMA CutOffKeeps ==
  ASSUME Good, WriteCutOff
  PROVE  /\ FlashType' /\ SavedOk'
         /\ Fresh /\ NoGarbage => NoGarbage'
<1>1. FlashType /\ Room /\ Journaled
  BY DEF Good
<1>2. PICK n \in 0..Len(buffer) :
        /\ saved' = LogBegun(saved) /\ flash' = Written(SubSeq(buffer, 1, n))
        /\ UNCHANGED <<journal, journalIdx, address, buffer>>
  BY DEF WriteCutOff
<1> DEFINE bytes == SubSeq(buffer, 1, n)
<1>3. bytes \in Seq(Data)
  BY <1>1, SubSeqProperties DEF FlashType
<1> HIDE DEF bytes
<1>4. flash' \in [Cells -> Data \union {Garbage}] /\ (Fresh /\ NoGarbage => NoGarbage')
  BY <1>1, <1>2, <1>3, WrittenCells DEF NoGarbage, bytes
<1>5. saved' \in [Items -> JournalItem] /\ Consecutive(saved', journalIdx)
  BY <1>1, <1>2, BegunJournal DEF Journaled
<1>6. FlashType'
  BY <1>1, <1>2, <1>4, <1>5 DEF FlashType
<1> QED
  BY <1>1, <1>4, <1>5, <1>6 DEF SavedOk, FlashType

(* flashfsInit finds the item to fill next.                                  *)
LEMMA OpenFound ==
  ASSUME FlashType, NEW n \in 0..JournalItems, Consecutive(saved, n)
  PROVE  FirstOpen(saved) = n
<1>1. \A j \in 0..(n - 1) : saved[j].end # None
  BY DEF FlashType, JournalItem, Consecutive
<1>2. n < JournalItems => saved[n].end = None
  BY DEF Consecutive
<1>3. ASSUME NEW i \in 0..JournalItems,
             \A j \in 0..(i - 1) : saved[j].end # None,
             i < JournalItems => saved[i].end = None
      PROVE  i = n
  BY <1>1, <1>2, <1>3
<1> QED
  BY <1>1, <1>2, <1>3 DEF FirstOpen

LEMMA BegunFound ==
  ASSUME FlashType, NEW n \in 0..JournalItems, Consecutive(saved, n), Begun(saved) # {}
  PROVE  /\ n < JournalItems /\ Lowest(Begun(saved)) = n
         /\ saved[n].begin = StartOf(saved, n)
<1>1. ASSUME NEW i \in Begun(saved) PROVE i = n
  BY <1>1 DEF Begun, Consecutive, FlashType, JournalItem
<1>2. Begun(saved) = {n} /\ n \in Items /\ saved[n].begin # None
  BY <1>1 DEF Begun
<1>3. Lowest({n}) = n
  BY DEF Lowest
<1> QED
  BY <1>2, <1>3 DEF Consecutive

(* flashfsInit with an empty buffer, after a crash or an erase.              *)
LEMMA LoadKeeps ==
  ASSUME FlashType, SavedOk, Load, buffer' = <<>>, UNCHANGED flash
  PROVE  FlashType' /\ Room' /\ Journaled'
<1>1. PICK n \in 0..JournalItems : Consecutive(saved, n)
  BY DEF SavedOk
<1>2. FirstOpen(saved) = n
  BY <1>1, OpenFound
<1> DEFINE start == StartOf(saved, n)
<1>3. start \in Addresses
  <2>1. n # 0 => n - 1 \in Items /\ n - 1 < n
    OBVIOUS
  <2>2. n # 0 => saved[n - 1].end <= FlashSize /\ saved[n - 1].end \in Addresses \union {None}
    BY <1>1, <2>1 DEF Consecutive, FlashType, JournalItem
  <2> QED
    BY <2>2 DEF StartOf
<1>4. buffer' \in Seq(Data) /\ Len(buffer') = 0
  BY EmptySeq
<1>5. CASE Begun(saved) # {} /\ BlanksFrom(saved[Lowest(Begun(saved))].begin) # {}
  <2>1. n < JournalItems /\ Lowest(Begun(saved)) = n /\ saved[n].begin = start
    BY <1>1, <1>5, BegunFound
  <2> DEFINE fix == FixEnd(start)
  <2>2. BlanksFrom(start) # {} /\ BlanksFrom(start) \in SUBSET Nat
    BY <1>5, <2>1 DEF BlanksFrom
  <2>3. fix \in BlanksFrom(start)
    BY <2>2, LowestExists DEF FixEnd
  <2>4. fix \in Cells /\ fix >= start
    BY <2>3 DEF BlanksFrom
  <2> DEFINE J == [saved EXCEPT ![n].end = fix]
  <2>5. saved' = J /\ journal' = saved' /\ journalIdx' = n + 1 /\ address' = fix
    BY <1>2, <1>5, <2>1 DEF Load
  <2> HIDE DEF fix, start
  <2>6. /\ J \in [Items -> JournalItem]
        /\ \A i \in Items : J[i].begin = saved[i].begin
        /\ \A i \in Items : i # n => J[i] = saved[i]
        /\ J[n].end = fix
    <3>1. saved \in [Items -> JournalItem] /\ n \in Items /\ fix \in Addresses
      BY <2>1, <2>4 DEF FlashType
    <3>2. [saved[n] EXCEPT !.end = fix] \in JournalItem
      BY <3>1 DEF JournalItem
    <3> QED
      BY <3>1, <3>2 DEF JournalItem
  <2> HIDE DEF J
  <2>7. \A i \in Items : i <= n => StartOf(J, i) = StartOf(saved, i)
    BY <2>6 DEF StartOf
  <2>8. StartOf(J, n + 1) = fix
    BY <2>6 DEF StartOf
  <2>9. Consecutive(J, n + 1)
    <3>1. ASSUME NEW i \in Items, i < n + 1
          PROVE  /\ J[i].begin = StartOf(J, i)
                 /\ J[i].begin <= J[i].end /\ J[i].end <= FlashSize
      <4>1. CASE i = n
        BY <1>3, <2>1, <2>4, <2>6, <2>7, <4>1 DEF start
      <4>2. CASE i < n
        BY <1>1, <2>6, <2>7, <4>2 DEF Consecutive
      <4> QED
        BY <3>1, <4>1, <4>2
    <3>2. ASSUME NEW i \in Items, i >= n + 1
          PROVE  J[i].end = None /\ J[i].begin = None
      BY <1>1, <2>6, <3>2 DEF Consecutive
    <3> QED
      BY <2>8, <3>1, <3>2 DEF Consecutive
  <2>10. FlashType'
    BY <1>4, <2>1, <2>4, <2>5, <2>6 DEF FlashType
  <2>11. Room'
    BY <1>4, <2>4, <2>5 DEF Room
  <2> QED
    BY <2>4, <2>5, <2>8, <2>9, <2>10, <2>11 DEF Journaled, AtLog
<1>6. CASE ~(Begun(saved) # {} /\ BlanksFrom(saved[Lowest(Begun(saved))].begin) # {})
  <2>1. /\ saved' = saved /\ journal' = saved /\ journalIdx' = n
        /\ address' = IF n = 0 THEN 0 ELSE saved[n - 1].end
    BY <1>2, <1>6 DEF Load
  <2>2. address' = start
    BY <2>1 DEF StartOf
  <2> HIDE DEF start
  <2>3. FlashType'
    <3>1. saved' \in [Items -> JournalItem] /\ journal' \in [Items -> JournalItem]
      BY <2>1 DEF FlashType
    <3>2. journalIdx' \in 0..JournalItems /\ address' \in Addresses
      BY <1>3, <2>1, <2>2 DEF start
    <3>3. flash' \in [Cells -> Data \union {Garbage}] /\ buffer' \in Seq(Data)
      BY <1>4 DEF FlashType
    <3> QED
      BY <1>4, <3>1, <3>2, <3>3 DEF FlashType
  <2>4. Room'
    BY <1>3, <1>4, <2>2 DEF Room
  <2>5. Journaled'
    BY <1>1, <1>3, <2>1, <2>2 DEF Journaled, AtLog, start
  <2> QED
    BY <2>3, <2>4, <2>5
<1> QED
  BY <1>5, <1>6

-----------------------------------------------------------------------------
(* The recorder. *)
Unbuffered == {"STOPPED", "DISABLED", "PREPARE_LOG_FILE"} \union EraseStates

(* An erase has the recorder to itself.                                      *)
EraseInv ==
  /\ msp # "idle" =>
       state = "STOPPED" /\ pc \in {"idle", "update", "after"} /\ ~armFlag /\ mode = "NORMAL"
  /\ pc \in {"erase", "reload"} => state = "STOPPED"
  /\ pc \in {"erase", "reload"} \/ msp \in {"logs", "erased"} => AllBlank
  /\ pc = "reload" \/ msp = "erased" => AllErased

(* Where bytes may wait, and when a shutdown may still close the log.        *)
StateInv ==
  /\ pc # "off" /\ state \in Unbuffered => buffer = <<>>
  /\ pc = "write" => state \in HeaderStates \union Logging
  /\ pc # "off" /\ state = "SHUTTING_DOWN" /\ journalIdx = JournalItems => age = 0

FlashInv ==
  /\ SavedOk
  /\ pc \notin {"off", "reload"} /\ msp # "erased" => Room /\ Journaled
  /\ ~lost => NoGarbage /\ (pc # "off" => Fresh)

IInv == TypeOK /\ EraseInv /\ StateInv /\ FlashInv

-----------------------------------------------------------------------------
(* What a step does to the flash when it flushes, writes or closes.          *)
FlashOp ==
  /\ FlashType' /\ Room' /\ Journaled'
  /\ Fresh /\ NoGarbage => Fresh' /\ NoGarbage'

Powered == pc \notin {"off", "reload"} /\ msp # "erased"

(* While the recorder runs, the journal and the flash agree. *)
LEMMA PoweredGood ==
  ASSUME IInv, Powered
  PROVE  Good
BY DEF IInv, TypeOK, FlashInv, Powered, Good

(* What one operation of flashfs does to its part of the invariant. *)
LEMMA FlashStep ==
  ASSUME IInv, FlashOp, UNCHANGED lost, pc # "off"
  PROVE  FlashInv' /\ FlashType'
<1>1. \E n \in 0..JournalItems : Consecutive(saved', n)
  BY DEF FlashOp, Journaled, FlashType
<1> QED
  BY <1>1 DEF FlashOp, FlashInv, SavedOk, IInv

(* Without an operation of flashfs its part stays. *)
LEMMA FlashSame ==
  ASSUME IInv, UNCHANGED <<flashfsVars, lost>>, pc # "off",
         pc' \notin {"off", "reload"} /\ msp' # "erased" => pc # "reload" /\ msp # "erased"
  PROVE  FlashInv' /\ FlashType'
<1>1. UNCHANGED <<flash, saved, journal, journalIdx, address, buffer>>
  BY DEF flashfsVars, media
<1>2. FlashType'
  BY <1>1 DEF IInv, TypeOK, FlashType
<1>3. SavedOk'
  BY <1>1 DEF IInv, FlashInv, SavedOk, Consecutive, StartOf
<1>4. Room' = Room /\ Journaled' = Journaled
  BY <1>1 DEF Room, flashfsIsEOF, Journaled, Consecutive, AtLog, StartOf
<1>5. Fresh' = Fresh /\ NoGarbage' = NoGarbage
  BY <1>1 DEF Fresh, NoGarbage
<1> QED
  BY <1>2, <1>3, <1>4, <1>5 DEF IInv, FlashInv

(* A frame or header of the recording is data.                               *)
LEMMA DataOfRecording ==
  ASSUME rec \in 0..(Recordings - 1)
  PROVE  FrameOf(rec) \in Data /\ HeaderOf(rec) \in Data
BY RecorderAssumption DEF FrameOf, HeaderOf

(* The operations of flashfs that the recorder uses: a byte ... *)
LEMMA ByteWritten ==
  ASSUME IInv, Powered, NEW datum \in Data, WriteByte(datum)
  PROVE  FlashOp
BY PoweredGood, WriteByteKeeps DEF FlashOp

(* ... the buffer ... *)
LEMMA BufferFlushed ==
  ASSUME IInv, Powered, FlushAsync(buffer)
  PROVE  FlashOp /\ buffer' = <<>> /\ journalIdx' = journalIdx
<1>1. Good
  BY PoweredGood
<1>2. address + Len(buffer) <= FlashSize
  BY <1>1, Len(<<>>) = 0 DEF Good, FlashType, Room, flashfsIsEOF
<1>3. buffer \in Seq(Data)
  BY <1>1 DEF Good, FlashType
<1> QED
  BY <1>1, <1>2, <1>3, FlushKeeps DEF FlashOp

(* ... and the end of a log. *)
LEMMA BufferClosed ==
  ASSUME IInv, Powered, journalIdx < JournalItems, Close(buffer)
  PROVE  FlashOp /\ buffer' = <<>>
<1>1. Good
  BY PoweredGood
<1>2. address + Len(buffer) <= FlashSize
  BY <1>1, Len(<<>>) = 0 DEF Good, FlashType, Room, flashfsIsEOF
<1>3. buffer \in Seq(Data)
  BY <1>1 DEF Good, FlashType
<1> QED
  BY <1>1, <1>2, <1>3, CloseKeeps DEF FlashOp

(* blackboxFinish.                                                           *)
LEMMA FinishKeeps ==
  ASSUME IInv, pc \in {"idle", "after"}, Finish
  PROVE  /\ UNCHANGED flashfsVars \/ (msp = "idle" /\ FlashOp /\ state' = "SHUTTING_DOWN")
         /\ \/ UNCHANGED <<state, age>>
            \/ state # "STOPPED" /\ state' = "SHUTTING_DOWN" /\ age' = 0
<1>1. state \in States /\ rec \in 0..(Recordings - 1)
  BY DEF IInv, TypeOK, RecorderType
<1>2. CASE UNCHANGED <<flashfsVars, state, age>>
  BY <1>2
<1>3. CASE /\ state \notin NotRecording /\ state' = "SHUTTING_DOWN" /\ age' = 0
           /\ state \in Logging /\ WriteByte(FrameOf(rec))
  <2>1. msp = "idle" /\ Powered
    BY <1>3 DEF IInv, EraseInv, Powered, Logging
  <2> QED
    BY <1>1, <1>3, <2>1, ByteWritten, DataOfRecording DEF Logging
<1>4. CASE /\ state \notin NotRecording /\ state' = "SHUTTING_DOWN" /\ age' = 0
           /\ UNCHANGED flashfsVars
  BY <1>4 DEF NotRecording
<1> QED
  BY <1>2, <1>3, <1>4 DEF Finish

-----------------------------------------------------------------------------
(* The invariant after a step that leaves the flash alone.                   *)
LEMMA SameFlash ==
  ASSUME UNCHANGED flashfsVars
  PROVE  /\ buffer' = buffer /\ journalIdx' = journalIdx /\ address' = address
         /\ AllBlank' = AllBlank /\ AllErased' = AllErased
BY DEF flashfsVars, media, AllBlank, AllErased

(* The steps that leave the flash alone. *)
LEMMA QuietSteps ==
  ASSUME IInv,
         \/ \E switch \in BOOLEAN : Stopped(switch) \/ Erased(switch)
         \/ PrepareLogFile \/ Pause \/ Erasing \/ Expire \/ EraseCommand
         \/ \E n \in 0..LoopBytes : Running(n) \/ \E last \in BOOLEAN : SendHeader(n, last),
         ~EraseAnytime
  PROVE  IInv'
<1> USE DEF AtUpdate, Done, Rest, Start, HeaderStates, Logging, EraseStates, States,
            Unbuffered, RecorderType, EraseInv, StateInv
<1>1. /\ RecorderType /\ EraseInv /\ StateInv /\ journalIdx \in 0..JournalItems
  BY DEF IInv, TypeOK, FlashType
<1>2. ASSUME UNCHANGED <<flashfsVars, lost>>, pc \notin {"off", "erase", "reload"},
             pc' \notin {"off", "erase", "reload"}, msp' = "erased" => msp = "erased",
             msp' # "erased" => msp # "erased", RecorderType', EraseInv', StateInv'
      PROVE  IInv'
  <2>1. FlashInv' /\ FlashType'
    BY <1>2, FlashSame
  <2> QED
    BY <1>2, <2>1 DEF IInv, TypeOK
<1>3. ASSUME UNCHANGED flashfsVars
      PROVE  /\ buffer' = buffer /\ journalIdx' = journalIdx
             /\ AllBlank' = AllBlank /\ AllErased' = AllErased
  BY <1>3, SameFlash
<1>4. ASSUME NEW switch \in BOOLEAN, Stopped(switch) PROVE IInv'
  <2>1. UNCHANGED <<flashfsVars, lost>>
    BY <1>4 DEF Stopped
  <2>2. RecorderType'
    BY <1>1, <1>4, RecorderAssumption DEF Stopped
  <2>3. EraseInv'
    BY <1>1, <1>3, <1>4, <2>1 DEF Stopped, GyroTaskFree
  <2>4. StateInv'
    BY <1>1, <1>3, <1>4, <2>1 DEF Stopped
  <2> QED
    BY <1>2, <1>4, <2>1, <2>2, <2>3, <2>4 DEF Stopped
<1>5. ASSUME NEW switch \in BOOLEAN, Erased(switch) PROVE IInv'
  <2>1. UNCHANGED <<flashfsVars, lost>> /\ RecorderType'
    BY <1>1, <1>5 DEF Erased
  <2>2. EraseInv' /\ StateInv'
    BY <1>1, <1>3, <1>5, <2>1 DEF Erased
  <2> QED
    BY <1>2, <1>5, <2>1, <2>2 DEF Erased
<1>6. CASE PrepareLogFile
  <2>1. UNCHANGED <<flashfsVars, lost>> /\ RecorderType'
    BY <1>1, <1>6 DEF PrepareLogFile
  <2>2. EraseInv' /\ StateInv'
    BY <1>1, <1>3, <1>6, <2>1 DEF PrepareLogFile
  <2> QED
    BY <1>2, <1>6, <2>1, <2>2 DEF PrepareLogFile
<1>7. CASE Pause
  <2>1. UNCHANGED <<flashfsVars, lost>> /\ RecorderType'
    BY <1>1, <1>7 DEF Pause
  <2>2. EraseInv' /\ StateInv'
    BY <1>1, <1>3, <1>7, <2>1 DEF Pause
  <2> QED
    BY <1>2, <1>7, <2>1, <2>2 DEF Pause
<1>8. CASE Erasing
  <2>1. UNCHANGED <<flashfsVars, lost>> /\ RecorderType'
    BY <1>1, <1>8 DEF Erasing
  <2>2. EraseInv' /\ StateInv'
    BY <1>1, <1>3, <1>8, <2>1 DEF Erasing
  <2> QED
    BY <1>2, <1>8, <2>1, <2>2 DEF Erasing
<1>9. CASE Expire
  <2>1. UNCHANGED <<flashfsVars, lost>> /\ RecorderType'
    BY <1>1, <1>9 DEF Expire
  <2>2. EraseInv' /\ StateInv'
    BY <1>1, <1>3, <1>9, <2>1 DEF Expire
  <2> QED
    BY <1>2, <1>9, <2>1, <2>2 DEF Expire
<1>10. CASE EraseCommand
  <2>1. UNCHANGED <<flashfsVars, lost>> /\ RecorderType'
    BY <1>1, <1>10 DEF EraseCommand
  <2>2. EraseInv' /\ StateInv'
    BY <1>1, <1>3, <1>10, <2>1 DEF EraseCommand
  <2> QED
    BY <1>2, <1>10, <2>1, <2>2 DEF EraseCommand
<1>11. ASSUME NEW n \in 0..LoopBytes, Running(n) PROVE IInv'
  <2>1. UNCHANGED <<flashfsVars, lost>> /\ RecorderType'
    BY <1>1, <1>11 DEF Running
  <2>2. EraseInv' /\ StateInv'
    BY <1>1, <1>3, <1>11, <2>1 DEF Running
  <2> QED
    BY <1>2, <1>11, <2>1, <2>2 DEF Running
<1>12. ASSUME NEW n \in 0..LoopBytes, NEW last \in BOOLEAN, SendHeader(n, last) PROVE IInv'
  <2>1. UNCHANGED <<flashfsVars, lost>> /\ RecorderType'
    BY <1>1, <1>12 DEF SendHeader
  <2>2. EraseInv' /\ StateInv'
    BY <1>1, <1>3, <1>12, <2>1 DEF SendHeader
  <2> QED
    BY <1>2, <1>12, <2>1, <2>2 DEF SendHeader
<1> QED
  BY <1>4, <1>5, <1>6, <1>7, <1>8, <1>9, <1>10, <1>11, <1>12

-----------------------------------------------------------------------------
(* The steps that write: blackboxUpdate with a flush, a shutdown or bytes.   *)
LEMMA WritingSteps ==
  ASSUME IInv, CacheFlush \/ ShuttingDown \/ Write \/ Wrote
  PROVE  IInv'
<1> USE DEF AtUpdate, Done, Rest, HeaderStates, Logging, EraseStates, States,
            Unbuffered, RecorderType, EraseInv, StateInv
<1>1. /\ RecorderType /\ EraseInv /\ StateInv /\ journalIdx \in 0..JournalItems
      /\ rec \in 0..(Recordings - 1)
  BY DEF IInv, TypeOK, FlashType
<1>2. /\ pc \notin {"off", "reload", "erase"} /\ pc' \notin {"off", "reload", "erase"}
      /\ UNCHANGED <<msp, lost>> /\ state # "STOPPED"
  BY <1>1 DEF CacheFlush, ShuttingDown, Write, Wrote
<1>3. msp = "idle" /\ msp' = "idle" /\ Powered
  BY <1>1, <1>2 DEF Powered
<1>4. EraseInv'
  BY <1>2, <1>3
<1>5. ASSUME FlashOp, RecorderType', StateInv' PROVE IInv'
  <2>1. FlashInv' /\ FlashType'
    BY <1>2, <1>5, FlashStep
  <2> QED
    BY <1>4, <1>5, <2>1 DEF IInv, TypeOK
<1>6. CASE CacheFlush
  <2>1. FlashOp /\ buffer' = <<>> /\ journalIdx' = journalIdx
    BY <1>3, <1>6, BufferFlushed DEF CacheFlush
  <2>2. RecorderType'
    BY <1>1, <1>6 DEF CacheFlush
  <2>3. StateInv'
    BY <1>1, <1>6, <2>1, <2>2 DEF CacheFlush
  <2> QED
    BY <1>5, <2>1, <2>2, <2>3
<1>7. CASE ShuttingDown
  <2>1. RecorderType'
    BY <1>1, <1>7 DEF ShuttingDown
  <2>2. CASE ShutdownOver
    <3>1. Close(buffer) /\ state' = "STOPPED" /\ pc' = "after"
      BY <1>7, <2>2 DEF ShuttingDown
    <3>2. age = 2 => journalIdx < JournalItems
      BY <1>1, <1>7 DEF ShuttingDown
    <3>3. buffer # <<>> => journalIdx < JournalItems
      BY <1>1, <1>3, PoweredGood DEF Good, Room, flashfsIsEOF
    <3>4. journalIdx < JournalItems
      BY <2>2, <3>2, <3>3 DEF ShutdownOver, FlushAsyncReturns
    <3>5. FlashOp /\ buffer' = <<>>
      BY <1>3, <3>1, <3>4, BufferClosed
    <3> QED
      BY <1>5, <2>1, <3>1, <3>5
  <2>3. CASE ~ShutdownOver
    <3>1. FlushAsync(buffer) /\ state' = state /\ age' = age
      BY <1>7, <2>3 DEF ShuttingDown
    <3>2. FlashOp /\ buffer' = <<>> /\ journalIdx' = journalIdx
      BY <1>3, <3>1, BufferFlushed
    <3>3. StateInv'
      BY <1>1, <1>2, <1>7, <3>1, <3>2 DEF ShuttingDown
    <3> QED
      BY <1>5, <2>1, <3>2, <3>3
  <2> QED
    BY <2>2, <2>3
<1>8. CASE Write
  <2>1. \E datum \in Data : WriteByte(datum)
    <3>1. Blank \in Data
      OBVIOUS
    <3>2. Datum \subseteq Data
      BY <1>1, <3>1, DataOfRecording DEF Datum
    <3> QED
      BY <1>8, <3>2 DEF Write
  <2>2. FlashOp
    BY <1>3, <2>1, ByteWritten
  <2>3. left' \in 0..LoopBytes
    BY <1>1, <1>8, RecorderAssumption DEF Write
  <2>4. RecorderType'
    BY <1>1, <1>8, <2>3 DEF Write
  <2>5. StateInv'
    BY <1>1, <1>8 DEF Write
  <2> QED
    BY <1>5, <2>2, <2>4, <2>5
<1>9. CASE Wrote
  <2>1. RecorderType'
    BY <1>1, <1>9 DEF Wrote
  <2>2. state' \in {"SEND_HEADER", "SEND_SYSINFO", "RUNNING", "PAUSED", "CACHE_FLUSH"}
    BY <1>1, <1>9 DEF Wrote
  <2>3. StateInv'
    BY <1>9, <2>2 DEF Wrote
  <2>4. CASE FlushAsync(buffer)
    <3>1. FlashOp
      BY <1>3, <2>4, BufferFlushed
    <3> QED
      BY <1>5, <2>1, <2>3, <3>1
  <2>5. CASE UNCHANGED flashfsVars
    <3>1. FlashInv' /\ FlashType'
      BY <1>2, <1>3, <2>5, FlashSame
    <3> QED
      BY <1>4, <2>1, <2>3, <3>1 DEF IInv, TypeOK
  <2> QED
    BY <1>9, <2>4, <2>5 DEF Wrote
<1> QED
  BY <1>6, <1>7, <1>8, <1>9

(* What Blackbox::updateArmed and the end of blackboxUpdate may write.       *)
LEMMA ArmingSteps ==
  ASSUME IInv, (\E armed, due \in BOOLEAN : UpdateArmed(armed, due)) \/ After
  PROVE  IInv'
<1> USE DEF HeaderStates, Logging, EraseStates, States, NotRecording,
            Unbuffered, RecorderType, EraseInv, StateInv
<1>1. /\ RecorderType /\ EraseInv /\ StateInv /\ journalIdx \in 0..JournalItems
      /\ rec \in 0..(Recordings - 1)
  BY DEF IInv, TypeOK, FlashType
<1>2. /\ pc \in {"idle", "after"} /\ pc' \in {"idle", "update"} /\ UNCHANGED <<msp, lost>>
  BY DEF UpdateArmed, After
<1>3. ASSUME UNCHANGED flashfsVars, RecorderType', EraseInv', StateInv' PROVE IInv'
  <2>1. FlashInv' /\ FlashType'
    BY <1>2, <1>3, FlashSame
  <2> QED
    BY <1>3, <2>1 DEF IInv, TypeOK
<1>4. ASSUME FlashOp, msp = "idle", RecorderType',
             state' \in Logging \/ (state' = "SHUTTING_DOWN" /\ age' = 0) PROVE IInv'
  <2>1. FlashInv' /\ FlashType'
    BY <1>2, <1>4, FlashStep
  <2>2. EraseInv' /\ StateInv'
    BY <1>2, <1>4
  <2> QED
    BY <1>4, <2>1, <2>2 DEF IInv, TypeOK
<1>5. ASSUME UNCHANGED flashfsVars
      PROVE  /\ buffer' = buffer /\ journalIdx' = journalIdx
             /\ AllBlank' = AllBlank /\ AllErased' = AllErased
  BY <1>5, SameFlash
<1>6. ASSUME NEW armed \in BOOLEAN, NEW due \in BOOLEAN, UpdateArmed(armed, due) PROVE IInv'
  <2>1. CASE stop /\ due
    <3>1. Finish /\ pc = "idle" /\ pc' = "update"
      BY <1>6, <2>1 DEF UpdateArmed
    <3>2. /\ UNCHANGED flashfsVars \/ (msp = "idle" /\ FlashOp /\ state' = "SHUTTING_DOWN")
          /\ \/ UNCHANGED <<state, age>>
             \/ state # "STOPPED" /\ state' = "SHUTTING_DOWN" /\ age' = 0
      BY <3>1, FinishKeeps
    <3>3. RecorderType'
      BY <1>1, <1>6, <3>2 DEF UpdateArmed
    <3>4. CASE UNCHANGED flashfsVars
      <4>1. EraseInv' /\ StateInv'
        BY <1>1, <1>5, <1>6, <3>1, <3>2, <3>4 DEF UpdateArmed, GyroTaskFree
      <4> QED
        BY <1>3, <3>3, <3>4, <4>1
    <3>5. CASE ~UNCHANGED flashfsVars
      <4>1. FlashOp /\ msp = "idle" /\ state' = "SHUTTING_DOWN"
        BY <3>2, <3>5
      <4>2. age' = 0
        BY <3>1, <3>2, <3>5 DEF Finish
      <4> QED
        BY <1>4, <3>3, <4>1, <4>2
    <3> QED
      BY <3>4, <3>5
  <2>2. CASE ~(stop /\ due) /\ armFlag /\ ~armed /\ state \in Logging
    <3>1. WriteByte(FrameOf(rec)) /\ UNCHANGED <<state, age>> /\ pc = "idle"
      BY <1>6, <2>2 DEF UpdateArmed, LogEvent
    <3>2. msp = "idle" /\ Powered
      BY <1>1, <2>2, <3>1 DEF Powered
    <3>3. FlashOp
      BY <1>1, <3>1, <3>2, ByteWritten, DataOfRecording
    <3>4. RecorderType'
      BY <1>1, <1>6, <3>1 DEF UpdateArmed
    <3> QED
      BY <1>4, <2>2, <3>1, <3>2, <3>3, <3>4
  <2>3. CASE ~(stop /\ due) /\ ~(armFlag /\ ~armed /\ state \in Logging)
    <3>1. UNCHANGED <<flashfsVars, state, age>>
      BY <1>6, <2>3 DEF UpdateArmed, LogEvent
    <3>2. RecorderType'
      BY <1>1, <1>6, <3>1 DEF UpdateArmed
    <3>3. EraseInv' /\ StateInv'
      BY <1>1, <1>5, <1>6, <3>1 DEF UpdateArmed, GyroTaskFree
    <3> QED
      BY <1>3, <3>1, <3>2, <3>3
  <2> QED
    BY <2>1, <2>2, <2>3
<1>7. CASE After
  <2>1. pc = "after" /\ pc' = "idle" /\ UNCHANGED <<nextState, armFlag, stop, left, then, msp, lost, mode>>
    BY <1>7 DEF After
  <2>2. CASE Same /\ (state \in EraseStates \/ ~flashfsIsEOF)
    <3>1. UNCHANGED <<flashfsVars, state, testMode, rec>> /\ age' = IF age = 0 THEN 1 ELSE age
      BY <2>2 DEF Same
    <3>2. RecorderType'
      BY <1>1, <2>1, <3>1
    <3>3. EraseInv' /\ StateInv'
      BY <1>1, <1>5, <2>1, <2>2, <3>1 DEF flashfsIsEOF
    <3> QED
      BY <1>3, <3>1, <3>2, <3>3
  <2>3. CASE flashfsIsEOF /\ state' = "STOPPED" /\ testMode' = FALSE /\ UNCHANGED <<flashfsVars, age, rec>>
    <3>1. RecorderType'
      BY <1>1, <2>1, <2>3
    <3>2. buffer = <<>>
      <4>1. CASE msp = "idle"
        BY <2>1, <2>3, <4>1, PoweredGood DEF Powered, Good, Room
      <4>2. CASE msp # "idle"
        BY <1>1, <2>1, <4>2
      <4> QED
        BY <4>1, <4>2
    <3>3. EraseInv' /\ StateInv'
      BY <1>1, <1>5, <2>1, <2>3, <3>2
    <3> QED
      BY <1>3, <2>3, <3>1, <3>3
  <2>4. CASE ~flashfsIsEOF /\ mode # "NORMAL" /\ Start /\ state = "STOPPED" /\ testMode' = TRUE /\ UNCHANGED <<flashfsVars, age>>
    <3>1. state' = "PREPARE_LOG_FILE" /\ rec' = (rec + 1) % Recordings
      BY <2>4 DEF Start
    <3>2. RecorderType'
      BY <1>1, <2>1, <2>4, <3>1, RecorderAssumption
    <3>3. EraseInv' /\ StateInv'
      BY <1>1, <1>5, <2>1, <2>4, <3>1
    <3> QED
      BY <1>3, <2>4, <3>2, <3>3
  <2>5. CASE ~flashfsIsEOF /\ mode # "NORMAL" /\ Finish /\ testMode' = FALSE /\ UNCHANGED rec
    <3>1. /\ UNCHANGED flashfsVars \/ (msp = "idle" /\ FlashOp /\ state' = "SHUTTING_DOWN")
          /\ \/ UNCHANGED <<state, age>>
             \/ state # "STOPPED" /\ state' = "SHUTTING_DOWN" /\ age' = 0
      BY <2>1, <2>5, FinishKeeps
    <3>2. state' \in States /\ age' \in 0..2
      BY <1>1, <3>1
    <3>3. RecorderType'
      BY <1>1, <2>1, <2>5, <3>2
    <3>4. CASE UNCHANGED flashfsVars
      <4>1. EraseInv'
        BY <1>1, <1>5, <2>1, <3>1, <3>4
      <4>2. StateInv'
        BY <1>1, <1>5, <2>1, <3>1, <3>4
      <4> QED
        BY <1>3, <3>3, <3>4, <4>1, <4>2
    <3>5. CASE ~UNCHANGED flashfsVars
      <4>1. FlashOp /\ msp = "idle" /\ state' = "SHUTTING_DOWN"
        BY <3>1, <3>5
      <4>2. age' = 0
        BY <2>5, <3>5 DEF Finish
      <4> QED
        BY <1>4, <3>3, <4>1, <4>2
    <3> QED
      BY <3>4, <3>5
  <2> QED
    BY <1>7, <2>2, <2>3, <2>4, <2>5 DEF After, Full, StartInTestMode, StopInTestMode
<1> QED
  BY <1>6, <1>7

-----------------------------------------------------------------------------
(* The erase, by switch or by command.                                       *)
LEMMA BlankFlash ==
  ASSUME AllBlank
  PROVE  NoGarbage /\ Fresh
BY DEF AllBlank, NoGarbage, Fresh

(* An erased journal is one without logs. *)
LEMMA ErasedJournal ==
  ASSUME AllErased
  PROVE  SavedOk
<1>1. Consecutive(saved, 0)
  BY DEF AllErased, Consecutive, ErasedItem, StartOf
<1> QED
  BY <1>1 DEF SavedOk

(* Erasing: first the logs, which leaves the journal as it was, ... *)
LEMMA LogsErased ==
  ASSUME IInv, EraseLogs, UNCHANGED lost,
         pc' \in {"off", "reload"} \/ msp' = "erased" \/ Powered
  PROVE  FlashInv' /\ FlashType' /\ AllBlank' /\ UNCHANGED <<saved, journalIdx, buffer>>
<1>1. /\ flash' = [a \in Cells |-> Blank]
      /\ UNCHANGED <<saved, journal, journalIdx, address, buffer>>
  BY DEF EraseLogs
<1>2. AllBlank' /\ NoGarbage' /\ Fresh'
  BY <1>1 DEF AllBlank, NoGarbage, Fresh
<1>3. FlashType'
  BY <1>1 DEF IInv, TypeOK, FlashType
<1>4. SavedOk'
  BY <1>1 DEF IInv, FlashInv, SavedOk, Consecutive, StartOf
<1>5. Room' = Room /\ Journaled' = Journaled
  BY <1>1 DEF Room, flashfsIsEOF, Journaled, Consecutive, AtLog, StartOf
<1> QED
  BY <1>1, <1>2, <1>3, <1>4, <1>5 DEF IInv, FlashInv, Powered

(* ... then the journal, ... *)
LEMMA JournalErased ==
  ASSUME IInv, EraseJournal, AllBlank, UNCHANGED lost, pc' = "reload" \/ msp' = "erased"
  PROVE  /\ FlashInv' /\ FlashType' /\ AllBlank' /\ AllErased'
         /\ UNCHANGED <<journalIdx, buffer>>
<1>1. /\ saved' = [i \in Items |-> ErasedItem]
      /\ UNCHANGED <<flash, journal, journalIdx, address, buffer>>
  BY DEF EraseJournal
<1>2. AllBlank' /\ NoGarbage' /\ Fresh' /\ AllErased'
  BY <1>1 DEF AllBlank, NoGarbage, Fresh, AllErased
<1>3. SavedOk'
  <2>1. Consecutive(saved, 0)'
    BY <1>1 DEF Consecutive, ErasedItem, StartOf
  <2> QED
    BY <2>1 DEF SavedOk
<1>4. FlashType'
  <2>1. ErasedItem \in JournalItem
    BY DEF ErasedItem, JournalItem
  <2> QED
    BY <1>1, <2>1 DEF IInv, TypeOK, FlashType
<1> QED
  BY <1>1, <1>2, <1>3, <1>4 DEF FlashInv

(* ... then flashfs starts again. *)
LEMMA Reloaded ==
  ASSUME IInv, Reload, AllBlank, AllErased, buffer = <<>>, pc' # "off"
  PROVE  /\ FlashInv' /\ FlashType' /\ AllBlank' /\ buffer' = <<>>
<1>1. Load /\ flash' = flash /\ buffer' = <<>>
  BY DEF Reload
<1>2. FlashType' /\ Room' /\ Journaled'
  BY <1>1, ErasedJournal, LoadKeeps DEF IInv, TypeOK
<1>3. SavedOk'
  <2>1. \E n \in 0..JournalItems : Consecutive(saved', n)
    BY <1>2 DEF Journaled, FlashType
  <2> QED
    BY <2>1 DEF SavedOk
<1>4. AllBlank' /\ NoGarbage' /\ Fresh'
  BY <1>1, <1>2 DEF AllBlank, NoGarbage, Fresh, FlashType
<1> QED
  BY <1>1, <1>2, <1>3, <1>4 DEF FlashInv

(* The steps of both ways to erase. *)
LEMMA EraseSteps ==
  ASSUME IInv,
         \/ StartErase \/ EraseSwitchJournal \/ FinishErase
         \/ EraseCommandLogs \/ EraseCommandJournal \/ EraseCommandReload
  PROVE  IInv'
<1> USE DEF AtUpdate, Done, Rest, HeaderStates, Logging, EraseStates, States,
            Unbuffered, RecorderType, EraseInv, StateInv
<1>1. RecorderType /\ EraseInv /\ StateInv
  BY DEF IInv, TypeOK
<1>2. ASSUME FlashInv', FlashType', RecorderType', EraseInv', StateInv' PROVE IInv'
  BY <1>2 DEF IInv, TypeOK
<1>3. CASE StartErase
  <2>1. /\ EraseLogs /\ UNCHANGED <<lost, msp>> /\ pc = "update" /\ state = "START_ERASE"
        /\ state' = "STOPPED" /\ pc' = "erase"
    BY <1>3 DEF StartErase
  <2>2. msp = "idle" /\ buffer = <<>> /\ Powered
    BY <1>1, <2>1 DEF Powered
  <2>3. FlashInv' /\ FlashType' /\ AllBlank' /\ UNCHANGED <<saved, journalIdx, buffer>>
    BY <2>1, <2>2, LogsErased
  <2>4. RecorderType'
    BY <1>1, <1>3 DEF StartErase
  <2>5. EraseInv' /\ StateInv'
    BY <2>1, <2>2, <2>3
  <2> QED
    BY <1>2, <2>3, <2>4, <2>5
<1>4. CASE EraseSwitchJournal
  <2>1. /\ EraseJournal /\ UNCHANGED <<lost, msp, state>> /\ pc = "erase" /\ pc' = "reload"
    BY <1>4 DEF EraseSwitchJournal
  <2>2. msp = "idle" /\ buffer = <<>> /\ AllBlank /\ state = "STOPPED"
    BY <1>1, <2>1
  <2>3. /\ FlashInv' /\ FlashType' /\ AllBlank' /\ AllErased'
        /\ UNCHANGED <<journalIdx, buffer>>
    BY <2>1, <2>2, JournalErased
  <2>4. RecorderType'
    BY <1>1, <1>4 DEF EraseSwitchJournal
  <2>5. EraseInv' /\ StateInv'
    BY <2>1, <2>2, <2>3
  <2> QED
    BY <1>2, <2>3, <2>4, <2>5
<1>5. CASE FinishErase
  <2>1. Reload /\ msp' = msp /\ pc = "reload" /\ pc' = "after" /\ state' = "ERASING"
    BY <1>5 DEF FinishErase
  <2>2. msp = "idle" /\ buffer = <<>> /\ AllBlank /\ AllErased
    BY <1>1, <2>1
  <2>3. FlashInv' /\ FlashType' /\ AllBlank' /\ buffer' = <<>>
    BY <2>1, <2>2, Reloaded
  <2>4. RecorderType'
    BY <1>1, <1>5 DEF FinishErase
  <2>5. EraseInv' /\ StateInv'
    BY <2>1, <2>2, <2>3
  <2> QED
    BY <1>2, <2>3, <2>4, <2>5
<1>6. CASE EraseCommandLogs
  <2>1. /\ EraseLogs /\ UNCHANGED <<lost, state, pc, armFlag, mode>>
        /\ msp = "stopped" /\ msp' = "logs"
    BY <1>6 DEF EraseCommandLogs
  <2>2. /\ state = "STOPPED" /\ pc \in {"idle", "update", "after"} /\ ~armFlag
        /\ mode = "NORMAL" /\ buffer = <<>> /\ Powered
    BY <1>1, <2>1 DEF Powered
  <2>3. FlashInv' /\ FlashType' /\ AllBlank' /\ UNCHANGED <<saved, journalIdx, buffer>>
    BY <2>1, <2>2, LogsErased
  <2>4. RecorderType'
    BY <1>1, <1>6 DEF EraseCommandLogs
  <2>5. EraseInv' /\ StateInv'
    BY <2>1, <2>2, <2>3
  <2> QED
    BY <1>2, <2>3, <2>4, <2>5
<1>7. CASE EraseCommandJournal
  <2>1. /\ EraseJournal /\ UNCHANGED <<lost, state, pc, armFlag, mode>>
        /\ msp = "logs" /\ msp' = "erased"
    BY <1>7 DEF EraseCommandJournal
  <2>2. /\ state = "STOPPED" /\ pc \in {"idle", "update", "after"} /\ ~armFlag
        /\ mode = "NORMAL" /\ buffer = <<>> /\ AllBlank
    BY <1>1, <2>1
  <2>3. /\ FlashInv' /\ FlashType' /\ AllBlank' /\ AllErased'
        /\ UNCHANGED <<journalIdx, buffer>>
    BY <2>1, <2>2, JournalErased
  <2>4. RecorderType'
    BY <1>1, <1>7 DEF EraseCommandJournal
  <2>5. EraseInv' /\ StateInv'
    BY <2>1, <2>2, <2>3
  <2> QED
    BY <1>2, <2>3, <2>4, <2>5
<1>8. CASE EraseCommandReload
  <2>1. Reload /\ UNCHANGED <<state, pc>> /\ msp = "erased" /\ msp' = "idle"
    BY <1>8 DEF EraseCommandReload
  <2>2. /\ state = "STOPPED" /\ pc \in {"idle", "update", "after"}
        /\ buffer = <<>> /\ AllBlank /\ AllErased
    BY <1>1, <2>1
  <2>3. FlashInv' /\ FlashType' /\ AllBlank' /\ buffer' = <<>>
    BY <2>1, <2>2, Reloaded
  <2>4. RecorderType'
    BY <1>1, <1>8 DEF EraseCommandReload
  <2>5. EraseInv' /\ StateInv'
    BY <2>1, <2>2, <2>3
  <2> QED
    BY <1>2, <2>3, <2>4, <2>5
<1> QED
  BY <1>3, <1>4, <1>5, <1>6, <1>7, <1>8

(* The power fails, also in the middle of a flush, and comes back.           *)
LEMMA PowerSteps ==
  ASSUME IInv, PowerLoss \/ Restart
  PROVE  IInv'
<1> USE DEF EraseInv, StateInv, Unbuffered, EraseStates
<1>1. RecorderType /\ EraseInv /\ FlashInv /\ FlashType
  BY DEF IInv, TypeOK
<1>2. CASE PowerLoss
  <2>1. RecorderType' /\ EraseInv' /\ StateInv'
    BY <1>1, <1>2 DEF PowerLoss, RecorderType
  <2>2. pc # "off" /\ pc' = "off" /\ UNCHANGED lost
    BY <1>2 DEF PowerLoss
  <2>3. CASE state \in Writing /\ WriteCutOff
    <3>1. Powered
      BY <1>1, <2>2, <2>3 DEF Powered, Writing, HeaderStates, Logging
    <3>2. FlashType' /\ SavedOk' /\ (Fresh /\ NoGarbage => NoGarbage')
      BY <2>3, <3>1, PoweredGood, CutOffKeeps
    <3>3. FlashInv'
      BY <1>1, <2>2, <3>2 DEF FlashInv
    <3> QED
      BY <2>1, <3>2, <3>3 DEF IInv, TypeOK
  <2>4. CASE UNCHANGED flashfsVars
    <3>1. FlashInv' /\ FlashType'
      BY <2>2, <2>4, FlashSame
    <3> QED
      BY <2>1, <3>1 DEF IInv, TypeOK
  <2> QED
    BY <1>2, <2>3, <2>4 DEF PowerLoss
<1>3. CASE Restart
  <2>1. Load /\ buffer' = <<>> /\ UNCHANGED flash
    BY <1>3 DEF Restart, FlashfsRestart
  <2>2. FlashType' /\ Room' /\ Journaled'
    BY <1>1, <2>1, LoadKeeps DEF FlashInv
  <2>3. SavedOk'
    <3>1. \E n \in 0..JournalItems : Consecutive(saved', n)
      BY <2>2 DEF Journaled, FlashType
    <3> QED
      BY <3>1 DEF SavedOk
  <2>4. ~lost' => ~lost /\ Fresh'
    BY <1>3, <2>1 DEF Restart, Fresh
  <2>5. NoGarbage' = NoGarbage
    BY <2>1 DEF NoGarbage
  <2>6. FlashInv'
    BY <1>1, <2>2, <2>3, <2>4, <2>5 DEF FlashInv
  <2>7. EraseInv' /\ StateInv'
    BY <1>3, <2>1 DEF Restart
  <2>8. lost' \in BOOLEAN
    BY <1>3 DEF Restart
  <2>9. RecorderType'
    <3>1. /\ pc' = "idle" /\ state' = "STOPPED" /\ nextState' = "STOPPED" /\ armFlag' = FALSE
          /\ stop' = FALSE /\ age' = 0 /\ testMode' = FALSE /\ left' = 0 /\ then' = "same"
          /\ msp' = "idle" /\ rec' = rec /\ mode' \in Modes
      BY <1>3 DEF Restart
    <3>2. {armFlag', stop', testMode', lost'} \subseteq BOOLEAN
      BY <2>8, <3>1
    <3>3. rec' \in 0..(Recordings - 1) /\ left' \in 0..LoopBytes /\ age' \in 0..2
      BY <1>1, <3>1, RecorderAssumption DEF RecorderType
    <3>4. /\ state' \in States /\ nextState' \in {"STOPPED", "SEND_SYSINFO", "RUNNING"}
          /\ pc' \in {"idle", "update", "write", "erase", "reload", "after", "off"}
          /\ then' \in {"same", "CACHE_FLUSH", "RUNNING"}
          /\ msp' \in {"idle", "stopped", "logs", "erased"} /\ mode' \in Modes
      BY <3>1 DEF States
    <3> QED
      BY <3>2, <3>3, <3>4 DEF RecorderType
  <2> QED
    BY <2>2, <2>6, <2>7, <2>9 DEF IInv, TypeOK
<1> QED
  BY <1>2, <1>3

-----------------------------------------------------------------------------
(* Every step, as long as an erase command finds the recorder stopped.       *)
LEMMA StepKeeps ==
  ASSUME IInv, [Next]_recorderVars, ~EraseAnytime
  PROVE  IInv'
<1>1. CASE UNCHANGED recorderVars
  <2>1. /\ UNCHANGED <<flashfsVars, lost, pc, msp>>
        /\ UNCHANGED <<flash, saved, buffer, journalIdx>>
    BY <1>1 DEF recorderVars, flashfsVars, media
  <2>2. FlashInv' /\ FlashType'
    <3>1. CASE pc # "off"
      BY <2>1, <3>1, FlashSame
    <3>2. CASE pc = "off"
      <4>1. UNCHANGED <<flash, saved, journal, journalIdx, address, buffer>> /\ pc' = "off"
        BY <1>1, <2>1, <3>2 DEF recorderVars, flashfsVars, media
      <4>2. FlashType'
        BY <4>1 DEF IInv, TypeOK, FlashType
      <4>3. SavedOk'
        BY <4>1 DEF IInv, FlashInv, SavedOk, Consecutive, StartOf
      <4>4. NoGarbage' = NoGarbage
        BY <4>1 DEF NoGarbage
      <4> QED
        BY <2>1, <4>1, <4>2, <4>3, <4>4 DEF IInv, FlashInv
    <3> QED
      BY <3>1, <3>2
  <2>3. RecorderType' /\ EraseInv' /\ StateInv'
    BY <1>1, <2>1 DEF recorderVars, IInv, TypeOK, RecorderType, EraseInv, StateInv, AllBlank,
       AllErased
  <2> QED
    BY <2>2, <2>3 DEF IInv, TypeOK
<1>2. CASE Next
  BY <1>2, QuietSteps, WritingSteps, ArmingSteps, EraseSteps, PowerSteps
     DEF Next, Loop, BlackboxUpdate
<1> QED
  BY <1>1, <1>2

(* At the start the flash is blank. *)
LEMMA InitHolds ==
  ASSUME Init
  PROVE  IInv
<1>1. /\ flash = [a \in Cells |-> Blank] /\ saved = [i \in Items |-> ErasedItem]
      /\ journal = saved /\ journalIdx = 0 /\ address = 0 /\ buffer = <<>>
  BY DEF Init, FlashfsInit
<1>2. AllBlank /\ AllErased /\ NoGarbage /\ Fresh
  BY <1>1 DEF AllBlank, AllErased, NoGarbage, Fresh
<1>3. FlashType
  <2>1. ErasedItem \in JournalItem
    BY DEF ErasedItem, JournalItem
  <2>2. Len(buffer) = 0 /\ buffer \in Seq(Data)
    BY <1>1
  <2> QED
    BY <1>1, <2>1, <2>2 DEF FlashType
<1>4. Consecutive(saved, 0)
  BY <1>1 DEF Consecutive, ErasedItem, StartOf
<1>5. Room /\ Journaled /\ SavedOk
  <2>1. Len(buffer) = 0
    BY <1>1
  <2>2. Room
    BY <1>1, <2>1 DEF Room, flashfsIsEOF
  <2>3. AtLog(journal, journalIdx, address)
    BY <1>1 DEF AtLog, StartOf
  <2>4. 0 \in 0..JournalItems
    OBVIOUS
  <2> QED
    BY <1>1, <1>4, <2>2, <2>3, <2>4 DEF Journaled, SavedOk
<1>6. RecorderType
  <2>1. {armFlag, stop, testMode, lost} \subseteq BOOLEAN
    BY DEF Init
  <2>2. rec \in 0..(Recordings - 1) /\ left \in 0..LoopBytes /\ age \in 0..2
    BY RecorderAssumption DEF Init
  <2>3. /\ state \in States /\ nextState \in {"STOPPED", "SEND_SYSINFO", "RUNNING"}
        /\ pc \in {"idle", "update", "write", "erase", "reload", "after", "off"}
        /\ then \in {"same", "CACHE_FLUSH", "RUNNING"}
        /\ msp \in {"idle", "stopped", "logs", "erased"} /\ mode \in Modes
    BY DEF Init, States
  <2> QED
    BY <2>1, <2>2, <2>3 DEF RecorderType
<1>7. EraseInv /\ StateInv
  <2>1. pc = "idle" /\ msp = "idle" /\ state = "STOPPED"
    BY DEF Init
  <2> QED
    BY <1>1, <2>1 DEF EraseInv, StateInv
<1> QED
  BY <1>2, <1>3, <1>5, <1>6, <1>7 DEF IInv, TypeOK, FlashInv

(* The inductive invariant holds in every state, for all sizes of the flash, *)
(* of its journal and of the buffers, and in all three modes, when an erase  *)
(* command never comes while a log is recorded: blackboxUpdate, arming, the  *)
(* erases, a cut in the middle of a flush and the recovery all keep it.      *)
THEOREM RecorderInvariant ==
  ASSUME ~EraseAnytime
  PROVE  Spec => []IInv
<1>1. Init => IInv
  BY InitHolds
<1>2. IInv /\ [Next]_recorderVars => IInv'
  BY StepKeeps
<1> QED
  BY <1>1, <1>2, PTL DEF Spec

(* The recorder and its flash always have the types of Recorder: no write    *)
(* leaves the flash, the journal or the buffer (flashfsWriteByte).           *)
THEOREM RecorderTypes ==
  ASSUME ~EraseAnytime
  PROVE  Spec => []TypeOK
<1>1. IInv => TypeOK
  BY DEF IInv
<1> QED
  BY <1>1, RecorderInvariant, PTL

(* The logs follow one another without a gap and the RAM copy of the journal *)
(* is the flash's, after any number of crashes and recoveries                *)
(* (flashfsLogBegin, flashfsLogEnd, flashfsInit, flashfsJournalFix).         *)
THEOREM LogsAreInOrder ==
  ASSUME ~EraseAnytime
  PROVE  Spec => []LogsInOrder
<1>1. IInv => LogsInOrder
  BY DEF IInv, FlashInv, Journaled, LogsInOrder
<1> QED
  BY <1>1, RecorderInvariant, PTL

(* Until a recovery has lost track of data, no cell of the flash is written  *)
(* twice (flashfsFlushAsync writes at the address of flashfsJournalFix).     *)
THEOREM CellsAreWrittenOnce ==
  ASSUME ~EraseAnytime
  PROVE  Spec => []NoCellWrittenTwice
<1>1. IInv => NoCellWrittenTwice
  BY DEF IInv, FlashInv, NoGarbage, NoCellWrittenTwice
<1> QED
  BY <1>1, RecorderInvariant, PTL

(* No log ends behind the journal's last item (flashfsLogEnd, which checks   *)
(* nothing, is reached only while an item is left).                          *)
THEOREM JournalIsNotOverrun ==
  ASSUME ~EraseAnytime
  PROVE  Spec => JournalNotOverrun
<1>1. IInv /\ IInv' => (journalIdx' = journalIdx + 1 => journalIdx < JournalItems)
  BY DEF IInv, TypeOK, FlashType
<1> QED
  BY <1>1, RecorderInvariant, PTL DEF JournalNotOverrun

(* The logs in the flash can be read back after any crash.                   *)
THEOREM LogsReadableAlways ==
  ASSUME ~EraseAnytime
  PROVE  Spec => []LogsAreReadable
<1>1. LogsInOrder /\ NoCellWrittenTwice => LogsAreReadable
  BY DEF LogsAreReadable
<1> QED
  BY <1>1, LogsAreInOrder, CellsAreWrittenOnce, PTL

-----------------------------------------------------------------------------
(* What is behind the last log that has ended is of this recording, its      *)
(* headers before its frames; there is nothing while no log is open and no   *)
(* frame while the headers are sent.  Image is the flash as it will be when  *)
(* the buffer is flushed, LogStart where the open log begins or the next.    *)
Image == IF pc = "off" THEN flash ELSE Written(buffer)
LogStart == StartOf(saved, FirstOpen(saved))

Ours(img, from, r) ==
  /\ \A a \in Cells : a >= from => img[a] \in {Blank, HeaderOf(r), FrameOf(r)}
  /\ \A a, b \in Cells :
       from <= a /\ a < b /\ img[a] = FrameOf(r) => img[b] # HeaderOf(r)
Bare(img, from) == \A a \in Cells : a >= from => img[a] = Blank
NoFrame(img, from, r) == \A a \in Cells : a >= from => img[a] # FrameOf(r)

Heading == HeaderStates \union {"CACHE_FLUSH"}
OpenLog ==
  /\ Ours(Image, LogStart, rec)
  /\ pc # "off" /\ state \in Unbuffered => Bare(Image, LogStart)
  /\ pc # "off" /\ state \in Heading => NoFrame(Image, LogStart, rec)
  /\ pc = "off" /\ Begun(saved) = {} => Bare(flash, LogStart)

EndedLogs == \A i \in Items : saved[i].end # None => OneRecording(saved, i)

(* The state that follows; and that no log is open while none is recorded,   *)
(* or when the flash is full.                                                *)
PhaseInv ==
  /\ pc = "write" => /\ then = "CACHE_FLUSH" => state \in HeaderStates
                     /\ then = "RUNNING" => state \in Logging
  /\ (pc = "write" /\ then = "CACHE_FLUSH") \/ (pc # "off" /\ state = "CACHE_FLUSH")
       => nextState # "STOPPED"

AtEnd == flashfsIsEOF => address = StartOf(journal, journalIdx)
FullInv ==
  Powered => AtEnd /\ (state \in Unbuffered => address = StartOf(journal, journalIdx))

LogInv == PhaseInv /\ FullInv /\ (~lost => EndedLogs /\ OpenLog)

-----------------------------------------------------------------------------
(* The log that is open follows those that were closed. *)
LEMMA OpenIs ==
  ASSUME NEW items \in [Items -> JournalItem], NEW n \in 0..JournalItems, Consecutive(items, n)
  PROVE  FirstOpen(items) = n
<1>1. \A j \in 0..(n - 1) : items[j].end # None
  BY DEF JournalItem, Consecutive
<1>2. n < JournalItems => items[n].end = None
  BY DEF Consecutive
<1>3. ASSUME NEW i \in 0..JournalItems,
             \A j \in 0..(i - 1) : items[j].end # None,
             i < JournalItems => items[i].end = None
      PROVE  i = n
  BY <1>1, <1>2, <1>3
<1> QED
  BY <1>1, <1>2, <1>3 DEF FirstOpen

(* The logs that have ended lie before the open one.                         *)
LEMMA EndsInOrder ==
  ASSUME NEW items \in [Items -> JournalItem], NEW n \in 0..JournalItems, Consecutive(items, n),
         NEW i \in Items, i < n
  PROVE  items[i].end <= StartOf(items, n)
<1> DEFINE S == {k \in Nat : k < n /\ items[n - 1 - k].end > StartOf(items, n)}
<1>1. S \in SUBSET Nat
  OBVIOUS
<1>2. ASSUME S # {} PROVE FALSE
  <2>1. PICK k \in S : \A b \in S : k <= b
    BY <1>1, <1>2, LowestExists
  <2>2. k \in Nat /\ k < n /\ items[n - 1 - k].end > StartOf(items, n)
    BY <2>1
  <2>3. k # 0
    <3>1. n # 0 /\ (k = 0 => items[n - 1 - k].end = items[n - 1].end)
      BY <2>2
    <3>2. n - 1 \in Items /\ items[n - 1].end \in Addresses \union {None}
      BY <3>1 DEF JournalItem
    <3> QED BY <2>2, <3>1, <3>2 DEF StartOf
  <2>4. k - 1 \in Nat /\ k - 1 \notin S
    BY <2>1, <2>2, <2>3
  <2> DEFINE j == n - 1 - k
  <2>5. j \in Items /\ j + 1 \in Items /\ j + 1 < n /\ j + 1 # 0 /\ n - 1 - (k - 1) = j + 1
    BY <2>2, <2>3
  <2>6. ~(items[j + 1].end > StartOf(items, n))
    BY <2>2, <2>4, <2>5
  <2> HIDE DEF j
  <2>7. items[j + 1].begin = items[j].end /\ items[j + 1].begin <= items[j + 1].end
    <3>1. StartOf(items, j + 1) = items[j].end
      BY <2>5 DEF StartOf
    <3> QED BY <2>5, <3>1 DEF Consecutive
  <2>8. {items[j].end, items[j + 1].end, StartOf(items, n)} \subseteq Nat
    <3>1. n # 0 /\ n - 1 \in Items
      BY <2>2
    <3>2. \A item \in Items : items[item].end \in Nat
      BY DEF JournalItem
    <3>3. StartOf(items, n) \in Nat
      BY <3>1, <3>2 DEF StartOf
    <3> QED BY <2>5, <3>2, <3>3
  <2> QED BY <2>2, <2>6, <2>7, <2>8 DEF j
<1>3. n - 1 - i \in Nat /\ n - 1 - i < n /\ n - 1 - (n - 1 - i) = i
  OBVIOUS
<1>4. ~(items[i].end > StartOf(items, n))
  BY <1>2, <1>3
<1>5. {items[i].end, StartOf(items, n)} \subseteq Nat
  <2>1. n # 0 /\ n - 1 \in Items
    OBVIOUS
  <2> QED BY <2>1 DEF JournalItem, StartOf
<1> QED BY <1>4, <1>5

(* The words of one recording in order are what a log holds.                 *)
LEMMA OursAgree ==
  ASSUME NEW r \in Nat, NEW img, NEW from, Ours(img, from, r),
         NEW a \in Cells, NEW b \in Cells, from <= a, from <= b, a < b,
         img[a] # Blank, img[b] # Blank
  PROVE  (img[a] - 1) \div 2 = (img[b] - 1) \div 2 /\ img[a] <= img[b]
<1>1. img[a] \in {2 * r + 1, 2 * r + 2} /\ img[b] \in {2 * r + 1, 2 * r + 2}
  BY DEF Ours, HeaderOf, FrameOf
<1>2. img[a] = 2 * r + 2 => img[b] # 2 * r + 1
  BY DEF Ours, HeaderOf, FrameOf
<1>3. (2 * r + 1 - 1) \div 2 = r /\ (2 * r + 2 - 1) \div 2 = r
  OBVIOUS
<1> QED BY <1>1, <1>2, <1>3

(* A step that leaves the ended logs alone keeps them.                       *)
LEMMA LogsUndisturbed ==
  ASSUME FlashType, NEW n \in 0..JournalItems, Consecutive(saved, n), EndedLogs,
         \A a \in Cells : a < StartOf(saved, n) => flash'[a] = flash[a],
         \A i \in Items : i < n => saved'[i] = saved[i],
         \A i \in Items : i >= n /\ saved'[i].end # None => OneRecording(saved, i)'
  PROVE  EndedLogs'
<1>1. ASSUME NEW i \in Items, i < n PROVE OneRecording(saved, i)'
  <2>1. saved \in [Items -> JournalItem]
    BY DEF FlashType
  <2>2. saved[i].end <= StartOf(saved, n)
    BY <1>1, <2>1, EndsInOrder
  <2>3. saved[i].end \in Nat /\ saved[i].begin \in Nat /\ StartOf(saved, n) \in Nat
    <3>1. n # 0 /\ n - 1 \in Items
      BY <1>1
    <3> QED BY <2>1, <3>1 DEF JournalItem, StartOf
  <2>4. OneRecording(saved, i)
    <3>1. saved[i].end # None
      BY <1>1, <2>1 DEF Consecutive, JournalItem
    <3> QED BY <3>1 DEF EndedLogs
  <2>5. \A a \in Cells : a < saved[i].end => flash'[a] = flash[a]
    BY <2>2, <2>3
  <2> QED BY <1>1, <2>3, <2>4, <2>5 DEF OneRecording, Cell
<1> QED BY <1>1 DEF EndedLogs

-----------------------------------------------------------------------------
(* Nothing is written but behind the address.                                *)
LEMMA WrittenBehind ==
  ASSUME FlashType, Fresh, NEW bytes \in Seq(Data)
  PROVE  \A a \in Cells : Written(bytes)[a] =
           IF a >= address /\ a < address + Len(bytes) THEN bytes[a - address + 1] ELSE flash[a]
BY LenProperties DEF Fresh, Written, Program

(* With an empty buffer the image is what is in the flash. *)
LEMMA NothingWritten ==
  ASSUME FlashType, buffer = <<>>
  PROVE  Written(buffer) = flash
<1>1. Len(buffer) = 0 /\ address \in Nat
  BY DEF FlashType
<1>2. Written(buffer) = [a \in Cells |-> flash[a]]
  BY <1>1 DEF Written
<1> QED BY <1>2 DEF FlashType

(* The image is what the write of a byte will leave in the flash: at most    *)
(* the cell behind it is new.                                                *)
LEMMA ImageGrows ==
  ASSUME FlashType, Fresh, NEW datum \in Data
  PROVE  \E p \in Nat :
           \A a \in Cells :
              /\ a # p => Written(Push(datum))[a] = Written(buffer)[a]
              /\ a = p => Written(Push(datum))[a] \in {datum, Written(buffer)[a]}
              /\ a >= p => Written(buffer)[a] = Blank
<1> DEFINE p == address + Len(buffer)
<1>1. buffer \in Seq(Data) /\ Len(buffer) \in Nat /\ address \in Nat
  BY DEF FlashType
<1>2. Push(datum) \in Seq(Data)
  BY <1>1, AppendProperties DEF Push
<1>3. \A a \in Cells : Written(buffer)[a] =
        IF a >= address /\ a < address + Len(buffer) THEN buffer[a - address + 1] ELSE flash[a]
  BY <1>1, WrittenBehind
<1>4. \A a \in Cells : Written(Push(datum))[a] =
        IF a >= address /\ a < address + Len(Push(datum)) THEN Push(datum)[a - address + 1]
        ELSE flash[a]
  BY <1>2, WrittenBehind
<1>5. ASSUME NEW a \in Cells, a >= p PROVE Written(buffer)[a] = Blank
  BY <1>1, <1>3, <1>5 DEF Fresh
<1>6. p \in Nat
  BY <1>1
<1>7. CASE Push(datum) = buffer
  <2> HIDE DEF p
  <2> QED BY <1>5, <1>7, <1>6
<1>8. CASE Push(datum) = Append(buffer, datum)
  <2>1. /\ Len(Push(datum)) = Len(buffer) + 1 /\ Push(datum)[Len(buffer) + 1] = datum
        /\ \A i \in 1..Len(buffer) : Push(datum)[i] = buffer[i]
    BY <1>1, <1>8, AppendProperties
  <2>2. ASSUME NEW a \in Cells, a # p PROVE Written(Push(datum))[a] = Written(buffer)[a]
    <3>1. CASE a >= address /\ a < p
      <4>1. a - address + 1 \in 1..Len(buffer)
        BY <1>1, <3>1
      <4>2. Push(datum)[a - address + 1] = buffer[a - address + 1]
        BY <2>1, <4>1
      <4>3. a < address + Len(buffer) /\ a < address + Len(Push(datum))
        BY <1>1, <2>1, <3>1
      <4> QED BY <1>3, <1>4, <3>1, <4>2, <4>3
    <3>2. CASE ~(a >= address /\ a < p)
      <4>1. /\ ~(a >= address /\ a < address + Len(buffer))
            /\ ~(a >= address /\ a < address + Len(Push(datum)))
        BY <1>1, <2>1, <2>2, <3>2
      <4> QED BY <1>3, <1>4, <4>1
    <3> QED BY <3>1, <3>2
  <2>3. ASSUME NEW a \in Cells, a = p PROVE Written(Push(datum))[a] = datum
    BY <1>1, <1>4, <2>1, <2>3
  <2> HIDE DEF p
  <2> QED BY <1>5, <1>6, <2>2, <2>3
<1> QED BY <1>7, <1>8 DEF Push

(* So what is added to a log comes last.                                     *)
LEMMA OursGrows ==
  ASSUME FlashType, Fresh, NEW datum \in Data, NEW r \in Nat, NEW from \in Nat,
         Ours(Written(buffer), from, r),
         \/ datum \in {Blank, FrameOf(r)}
         \/ datum = HeaderOf(r) /\ NoFrame(Written(buffer), from, r)
  PROVE  /\ Ours(Written(Push(datum)), from, r)
         /\ datum = HeaderOf(r) => NoFrame(Written(Push(datum)), from, r)
<1> DEFINE old == Written(buffer)
           new == Written(Push(datum))
<1>1. PICK p \in Nat :
        \A a \in Cells : /\ a # p => new[a] = old[a]
                         /\ a = p => new[a] \in {datum, old[a]}
                         /\ a >= p => old[a] = Blank
  BY ImageGrows
<1>2. FrameOf(r) # HeaderOf(r) /\ Blank # FrameOf(r) /\ Blank # HeaderOf(r)
  BY RecorderAssumption DEF FrameOf, HeaderOf
<1>3. Ours(old, from, r) /\ (datum = HeaderOf(r) => NoFrame(old, from, r))
  BY <1>2
<1> HIDE DEF old, new
<1>4. \A a \in Cells : a >= from => new[a] \in {Blank, HeaderOf(r), FrameOf(r)}
  BY <1>1, <1>3 DEF Ours
<1>5. ASSUME datum = HeaderOf(r) PROVE NoFrame(new, from, r)
  BY <1>1, <1>2, <1>3, <1>5 DEF NoFrame
<1>6. ASSUME NEW a \in Cells, NEW b \in Cells, from <= a, a < b, new[a] = FrameOf(r)
      PROVE  new[b] # HeaderOf(r)
  <2>1. CASE a = p
    BY <1>1, <1>2, <1>6, <2>1
  <2>2. CASE a > p
    BY <1>1, <1>2, <1>6, <2>2
  <2>3. CASE a < p
    <3>1. old[a] = FrameOf(r)
      BY <1>1, <1>6, <2>3
    <3>2. datum # HeaderOf(r)
      BY <1>3, <1>6, <3>1 DEF NoFrame
    <3>3. old[b] # HeaderOf(r)
      BY <1>3, <1>6, <3>1 DEF Ours
    <3> QED BY <1>1, <3>2, <3>3
  <2> QED BY <2>1, <2>2, <2>3
<1> QED BY <1>4, <1>5, <1>6 DEF Ours, new

-----------------------------------------------------------------------------
(* The open log starts where the last one ended. *)
LEMMA LogStartIs ==
  ASSUME Good
  PROVE  LogStart = StartOf(saved, journalIdx) /\ LogStart \in 0..address
<1>1. FlashType /\ Journaled /\ saved \in [Items -> JournalItem] /\ journalIdx \in 0..JournalItems
  BY DEF Good, FlashType
<1>2. Consecutive(saved, journalIdx)
  BY <1>1 DEF Journaled
<1>3. FirstOpen(saved) = journalIdx
  BY <1>1, <1>2, OpenIs
<1>4. StartOf(journal, journalIdx) \in 0..address
  BY <1>1, StartTyped
<1> QED BY <1>1, <1>3, <1>4 DEF LogStart, Journaled

(* flashfsFlushAsync leaves what it wrote in the open log.                   *)
LEMMA FlushLogs ==
  ASSUME Good, Fresh, NoGarbage, EndedLogs, NEW bytes \in Seq(Data),
         address + Len(bytes) <= FlashSize, FlushAsync(bytes)
  PROVE  /\ EndedLogs' /\ LogStart' = LogStart
         /\ flash' = Written(bytes) /\ Written(buffer)' = Written(bytes)
<1>1. FlashType /\ Journaled /\ journal = saved /\ Consecutive(saved, journalIdx)
      /\ journalIdx \in 0..JournalItems
  BY DEF Good, Journaled, FlashType
<1>2. FlashType' /\ Journaled' /\ buffer' = <<>> /\ journalIdx' = journalIdx
  BY FlushKeeps
<1>3. /\ Consecutive(LogBegun(saved), journalIdx) /\ LogBegun(saved) \in [Items -> JournalItem]
      /\ StartOf(LogBegun(saved), journalIdx) = StartOf(saved, journalIdx)
  BY <1>1, BegunJournal
<1>4. saved' = LogBegun(saved) /\ flash' = Written(bytes)
  BY <1>1 DEF FlushAsync
<1>5. LogStart = StartOf(saved, journalIdx) /\ LogStart \in 0..address
  BY LogStartIs
<1>6. LogStart' = LogStart
  <2>1. FirstOpen(saved') = journalIdx
    BY <1>1, <1>3, <1>4, OpenIs
  <2> QED BY <1>2, <1>3, <1>4, <1>5, <2>1 DEF LogStart
<1>7. EndedLogs'
  <2>1. \A a \in Cells : a < StartOf(saved, journalIdx) => flash'[a] = flash[a]
    <3>1. address \in Nat /\ Len(bytes) \in Nat
      BY <1>1 DEF FlashType
    <3> QED BY <1>1, <1>4, <1>5, <3>1, WrittenBehind
  <2>2. \A i \in Items : i < journalIdx => saved'[i] = saved[i]
    BY <1>1, <1>4 DEF LogBegun, FlashType
  <2>3. \A i \in Items : i >= journalIdx => saved'[i].end = None
    BY <1>3, <1>4 DEF Consecutive
  <2> QED BY <1>1, <2>1, <2>2, <2>3, LogsUndisturbed
<1>8. Written(buffer)' = flash'
  <2>1. Len(buffer') = 0 /\ address' \in Nat
    BY <1>2 DEF FlashType
  <2>2. Written(buffer)' = [a \in Cells |-> flash'[a]]
    BY <2>1 DEF Written
  <2> QED BY <1>2, <2>2 DEF FlashType
<1> QED BY <1>4, <1>6, <1>7, <1>8

(* flashfsClose ends a log of one recording, and leaves nothing behind it.   *)
LEMMA CloseLogs ==
  ASSUME Good, Fresh, NoGarbage, EndedLogs, NEW bytes \in Seq(Data),
         address + Len(bytes) <= FlashSize, journalIdx < JournalItems, Close(bytes),
         NEW r \in Nat, Ours(Written(bytes), LogStart, r)
  PROVE  /\ EndedLogs' /\ Written(buffer)' = flash' /\ Bare(flash', LogStart')
         /\ address' = StartOf(journal', journalIdx')
<1> DEFINE end == address + Len(bytes)
<1>1. /\ FlashType /\ Journaled /\ journal = saved /\ Consecutive(saved, journalIdx)
      /\ journalIdx \in 0..JournalItems /\ address \in Nat /\ Len(bytes) \in Nat
  BY DEF Good, Journaled, FlashType
<1>2. FlashType' /\ Journaled' /\ buffer' = <<>> /\ Fresh'
  BY CloseKeeps
<1>3. end \in Addresses /\ address <= end
  BY <1>1
<1>4. /\ saved' = LogEnded(saved, end) /\ journal' = LogEnded(saved, end) /\ flash' = Written(bytes)
      /\ address' = end /\ journalIdx' = journalIdx + 1
  BY <1>1 DEF Close
<1> HIDE DEF end
<1>5. /\ LogEnded(saved, end) \in [Items -> JournalItem]
      /\ Consecutive(LogEnded(saved, end), journalIdx + 1)
      /\ StartOf(LogEnded(saved, end), journalIdx + 1) = end
  BY <1>1, <1>3, EndedJournal
<1>6. LogStart = StartOf(saved, journalIdx) /\ LogStart \in 0..address
  BY LogStartIs
<1>7. LogStart' = end
  <2>1. FirstOpen(saved') = journalIdx + 1
    BY <1>1, <1>4, <1>5, OpenIs
  <2> QED BY <1>4, <1>5, <2>1 DEF LogStart
<1>8. Bare(flash', LogStart')
  BY <1>2, <1>4, <1>7 DEF Bare, Fresh
<1>9. /\ \A i \in Items : i < journalIdx => saved'[i] = saved[i]
      /\ saved'[journalIdx].begin = StartOf(saved, journalIdx)
  <2>1. journalIdx \in Items
    BY <1>1
  <2>2. /\ LogBegun(saved) \in [Items -> JournalItem]
        /\ LogBegun(saved)[journalIdx].begin = StartOf(saved, journalIdx)
    BY <1>1, BegunJournal
  <2>3. \A i \in Items : i < journalIdx => LogBegun(saved)[i] = saved[i]
    BY <1>1 DEF LogBegun, FlashType
  <2> QED BY <1>4, <2>1, <2>2, <2>3 DEF LogEnded, JournalItem
<1>10. EndedLogs'
  <2>1. \A a \in Cells : a < StartOf(saved, journalIdx) => flash'[a] = flash[a]
    BY <1>1, <1>4, <1>6, WrittenBehind
  <2>2. ASSUME NEW i \in Items, i >= journalIdx, saved'[i].end # None
        PROVE  OneRecording(saved, i)'
    <3>1. i = journalIdx
      <4>1. i >= journalIdx + 1 => saved'[i].end = None
        BY <1>4, <1>5 DEF Consecutive
      <4> QED BY <1>1, <2>2, <4>1
    <3>2. Cell(saved, i)' \subseteq {a \in Cells : a >= LogStart}
      BY <1>6, <1>9, <3>1 DEF Cell
    <3>3. ASSUME NEW a \in Cells, NEW b \in Cells, a >= LogStart, b >= LogStart, a < b,
                 flash'[a] # Blank, flash'[b] # Blank
          PROVE  (flash'[a] - 1) \div 2 = (flash'[b] - 1) \div 2 /\ flash'[a] <= flash'[b]
      <4>1. LogStart <= a /\ LogStart <= b
        BY <1>6, <3>3
      <4>2. Ours(flash', LogStart, r)
        BY <1>4
      <4> QED BY <3>3, <4>1, <4>2, OursAgree
    <3> QED BY <3>2, <3>3 DEF OneRecording
  <2> QED BY <1>1, <1>9, <2>1, <2>2, LogsUndisturbed
<1>11. Written(buffer)' = flash'
  <2>1. Len(buffer') = 0 /\ address' \in Nat
    BY <1>2 DEF FlashType
  <2>2. Written(buffer)' = [a \in Cells |-> flash'[a]]
    BY <2>1 DEF Written
  <2> QED BY <1>2, <2>2 DEF FlashType
<1> QED BY <1>4, <1>5, <1>8, <1>10, <1>11

(* Blank flash holds nothing of another recording. *)
LEMMA BareIsOurs ==
  ASSUME NEW img, NEW from, NEW r \in Nat, Bare(img, from)
  PROVE  Ours(img, from, r) /\ NoFrame(img, from, r)
<1>1. Blank # FrameOf(r) /\ Blank # HeaderOf(r)
  BY RecorderAssumption DEF FrameOf, HeaderOf
<1> QED BY <1>1 DEF Bare, Ours, NoFrame

(* flashfsWriteByte adds to the open log, or ends it when the flash is full. *)
LEMMA ByteLogs ==
  ASSUME Good, AtEnd, Fresh, NoGarbage, EndedLogs, NEW datum \in Data, NEW r \in Nat,
         Ours(Written(buffer), LogStart, r),
         \/ datum \in {Blank, FrameOf(r)}
         \/ datum = HeaderOf(r) /\ NoFrame(Written(buffer), LogStart, r),
         WriteByte(datum)
  PROVE  /\ EndedLogs' /\ Ours(Written(buffer)', LogStart', r)
         /\ datum = HeaderOf(r) => NoFrame(Written(buffer)', LogStart', r)
<1> DEFINE bytes == Push(datum)
<1>1. /\ FlashType /\ Room /\ Journaled /\ journalIdx \in 0..JournalItems
      /\ buffer \in Seq(Data) /\ Len(buffer) \in Nat /\ address \in Nat
  BY DEF Good, FlashType
<1>2. bytes \in Seq(Data) /\ Len(bytes) <= Len(buffer) + 1 /\ Len(bytes) \in Nat
  BY <1>1, AppendProperties DEF Push
<1>3. LogStart \in Nat
  BY <1>1, LogStartIs
<1>4. /\ Ours(Written(bytes), LogStart, r)
      /\ datum = HeaderOf(r) => NoFrame(Written(bytes), LogStart, r)
  BY <1>1, <1>3, OursGrows
<1>5. CASE flashfsIsEOF /\ UNCHANGED flashfsVars
  <2>1. UNCHANGED <<flash, saved, journal, journalIdx, address, buffer>>
    BY <1>5 DEF flashfsVars, media
  <2>2. EndedLogs' /\ LogStart' = LogStart /\ Written(buffer)' = Written(buffer)
    BY <2>1 DEF EndedLogs, OneRecording, Cell, LogStart, Written
  <2>3. datum = HeaderOf(r) => NoFrame(Written(buffer), LogStart, r)
    <3>1. HeaderOf(r) # FrameOf(r) /\ HeaderOf(r) # Blank
      BY RecorderAssumption DEF FrameOf, HeaderOf
    <3> QED BY <3>1
  <2> QED BY <2>2, <2>3
<1>6. CASE ~flashfsIsEOF
  <2>1. journalIdx < JournalItems /\ address + Len(bytes) <= FlashSize
    BY <1>1, <1>2, <1>6 DEF flashfsIsEOF, Room
  <2> HIDE DEF bytes
  <2>2. CASE Close(bytes)
    BY <1>2, <1>4, <2>1, <2>2, CloseLogs, BareIsOurs
  <2>3. CASE FlushAsync(bytes)
    BY <1>2, <1>4, <2>1, <2>3, FlushLogs
  <2>4. CASE buffer' = bytes /\ UNCHANGED <<media, journal, journalIdx, address>>
    <3>1. UNCHANGED <<flash, saved, journal, journalIdx, address>>
      BY <2>4 DEF media
    <3>2. EndedLogs' /\ LogStart' = LogStart
      BY <3>1 DEF EndedLogs, OneRecording, Cell, LogStart
    <3>3. Written(buffer)' = Written(bytes)
      BY <2>4, <3>1 DEF Written
    <3> QED BY <1>4, <3>2, <3>3
  <2> QED BY <1>6, <2>2, <2>3, <2>4 DEF WriteByte, bytes
<1> QED BY <1>5, <1>6 DEF WriteByte

(* A flash or a journal that is full has no log open.                        *)
LEMMA FlushAtEnd ==
  ASSUME Good, AtEnd, NEW bytes \in Seq(Data), address + Len(bytes) <= FlashSize, FlushAsync(bytes),
         flashfsIsEOF => bytes = <<>>, address < FlashSize => address + Len(bytes) < FlashSize
  PROVE  AtEnd'
<1>1. /\ FlashType /\ Journaled /\ journal = saved /\ journalIdx \in 0..JournalItems
      /\ address \in 0..FlashSize /\ Len(bytes) \in Nat
  BY DEF Good, Journaled, FlashType
<1>2. /\ journal' = LogBegun(journal) /\ address' = address + Len(bytes) /\ journalIdx' = journalIdx
      /\ StartOf(LogBegun(journal), journalIdx) = StartOf(journal, journalIdx)
  BY <1>1, BegunJournal DEF FlushAsync
<1>3. CASE flashfsIsEOF
  <2>1. Len(bytes) = 0
    BY <1>3
  <2> QED BY <1>1, <1>2, <1>3, <2>1 DEF AtEnd
<1>4. CASE ~flashfsIsEOF
  BY <1>1, <1>2, <1>4 DEF AtEnd, flashfsIsEOF
<1> QED BY <1>3, <1>4

(* Closed at its end, a log leaves the next one to start there. *)
LEMMA CloseAtEnd ==
  ASSUME Good, NEW bytes \in Seq(Data), address + Len(bytes) <= FlashSize,
         journalIdx < JournalItems, Close(bytes)
  PROVE  AtEnd' /\ address' = StartOf(journal', journalIdx')
<1>1. /\ FlashType /\ Journaled /\ address \in Nat /\ Len(bytes) \in Nat
  BY DEF Good, FlashType
<1>2. address + Len(bytes) \in Addresses /\ address <= address + Len(bytes)
  BY <1>1
<1> DEFINE end == address + Len(bytes)
<1> HIDE DEF end
<1>3. StartOf(LogEnded(journal, end), journalIdx + 1) = end
  BY <1>1, <1>2, EndedJournal DEF end
<1> QED BY <1>3 DEF AtEnd, Close, end

(* A byte goes behind the last one. *)
LEMMA ByteAtEnd ==
  ASSUME Good, AtEnd, NEW datum \in Data, WriteByte(datum)
  PROVE  AtEnd'
<1> DEFINE bytes == Push(datum)
<1>1. /\ FlashType /\ Room /\ Journaled /\ journalIdx \in 0..JournalItems
      /\ buffer \in Seq(Data) /\ Len(buffer) \in Nat /\ address \in Nat
  BY DEF Good, FlashType
<1>2. bytes \in Seq(Data) /\ Len(bytes) <= Len(buffer) + 1 /\ Len(bytes) \in Nat
  BY <1>1, AppendProperties DEF Push
<1> HIDE DEF bytes
<1>3. CASE flashfsIsEOF /\ UNCHANGED flashfsVars
  BY <1>3 DEF flashfsVars, media, AtEnd, flashfsIsEOF, StartOf
<1>4. CASE ~flashfsIsEOF
  <2>1. journalIdx < JournalItems /\ address + Len(bytes) <= FlashSize
    BY <1>1, <1>2, <1>4 DEF flashfsIsEOF, Room
  <2>2. CASE Close(bytes)
    BY <1>2, <2>1, <2>2, CloseAtEnd
  <2>3. CASE FlushAsync(bytes) /\ ~(address + Len(bytes) >= FlashSize)
    BY <1>1, <1>2, <1>4, <2>1, <2>3, FlushAtEnd
  <2>4. CASE UNCHANGED <<media, journal, journalIdx, address>>
    BY <2>4 DEF AtEnd, flashfsIsEOF
  <2> QED BY <1>4, <2>2, <2>3, <2>4 DEF WriteByte, bytes
<1> QED BY <1>3, <1>4 DEF WriteByte

-----------------------------------------------------------------------------
(* The parts of the invariant while nothing was lost. *)
LEMMA LogsKnown ==
  ASSUME IInv, LogInv, Powered, ~lost
  PROVE  /\ Good /\ AtEnd /\ Fresh /\ NoGarbage /\ EndedLogs /\ OpenLog
         /\ Image = Written(buffer) /\ rec \in Nat
         /\ buffer \in Seq(Data) /\ address + Len(buffer) <= FlashSize
         /\ address < FlashSize => address + Len(buffer) < FlashSize
         /\ flashfsIsEOF => buffer = <<>>
<1>1. Good /\ pc # "off"
  BY PoweredGood DEF Powered
<1>2. Fresh /\ NoGarbage /\ rec \in Nat
  BY <1>1, RecorderAssumption DEF IInv, FlashInv, TypeOK, RecorderType
<1>3. /\ buffer \in Seq(Data) /\ address + Len(buffer) <= FlashSize
      /\ address < FlashSize => address + Len(buffer) < FlashSize
      /\ flashfsIsEOF => buffer = <<>>
  BY <1>1, Len(<<>>) = 0 DEF Good, FlashType, Room, flashfsIsEOF
<1> QED BY <1>1, <1>2, <1>3 DEF LogInv, FullInv, Image

LogsOk == ~lost => EndedLogs /\ OpenLog

(* A step that leaves the flash alone.                                       *)
LEMMA SameLogs ==
  ASSUME IInv, LogInv, UNCHANGED <<flashfsVars, lost>>, pc # "off", pc' # "off",
         rec' \in Nat, rec' = rec \/ state \in Unbuffered,
         state' \in Unbuffered => state \in Unbuffered \/ lost \/ Bare(Image, LogStart),
         state' \in Heading => state \in Heading \/ state \in Unbuffered
  PROVE  LogsOk'
<1> SUFFICES ASSUME ~lost' PROVE EndedLogs' /\ OpenLog'
  BY DEF LogsOk
<1>1. EndedLogs /\ OpenLog /\ ~lost
  BY DEF LogInv
<1>2. UNCHANGED <<flash, saved, journal, journalIdx, address, buffer>>
  BY DEF flashfsVars, media
<1>3. EndedLogs' /\ LogStart' = LogStart /\ Written(buffer)' = Written(buffer)
  BY <1>1, <1>2 DEF EndedLogs, OneRecording, Cell, LogStart, Written
<1>4. Image' = Image
  BY <1>3 DEF Image
<1>5. state' \in Unbuffered => Bare(Image, LogStart)
  BY <1>1 DEF OpenLog
<1>6. Ours(Image, LogStart, rec') /\ (state' \in Heading => NoFrame(Image, LogStart, rec'))
  <2>1. CASE state \in Unbuffered
    BY <1>1, <2>1, BareIsOurs DEF OpenLog
  <2>2. CASE state \notin Unbuffered
    BY <1>1, <2>2 DEF OpenLog
  <2> QED BY <2>1, <2>2
<1> QED BY <1>3, <1>4, <1>5, <1>6 DEF OpenLog

(* A step that flushes the buffer.                                           *)
LEMMA FlushedLogs ==
  ASSUME IInv, LogInv, Powered, Powered', UNCHANGED <<lost, rec>>, FlushAsync(buffer),
         state' \notin Unbuffered, state' \in Heading => state \in Heading
  PROVE  LogsOk'
<1> SUFFICES ASSUME ~lost' PROVE EndedLogs' /\ OpenLog'
  BY DEF LogsOk
<1>1. /\ Good /\ Fresh /\ NoGarbage /\ EndedLogs /\ OpenLog /\ Image = Written(buffer)
      /\ buffer \in Seq(Data) /\ address + Len(buffer) <= FlashSize
  BY LogsKnown
<1>2. EndedLogs' /\ LogStart' = LogStart /\ Written(buffer)' = Written(buffer)
  BY <1>1, FlushLogs
<1>3. Image' = Image
  BY <1>1, <1>2 DEF Image, Powered
<1> QED BY <1>1, <1>2, <1>3 DEF OpenLog, Powered

(* A step that ends the log.                                                 *)
LEMMA ClosedLogs ==
  ASSUME IInv, LogInv, Powered, Powered', UNCHANGED <<lost, rec>>, Close(buffer),
         journalIdx < JournalItems
  PROVE  LogsOk'
<1> SUFFICES ASSUME ~lost' PROVE EndedLogs' /\ OpenLog'
  BY DEF LogsOk
<1>1. /\ Good /\ Fresh /\ NoGarbage /\ EndedLogs /\ OpenLog /\ Image = Written(buffer)
      /\ buffer \in Seq(Data) /\ address + Len(buffer) <= FlashSize /\ rec \in Nat
  BY LogsKnown
<1>2. Ours(Written(buffer), LogStart, rec)
  BY <1>1 DEF OpenLog
<1>3. EndedLogs' /\ Written(buffer)' = flash' /\ Bare(flash', LogStart')
  BY <1>1, <1>2, CloseLogs
<1>4. Image' = flash'
  BY <1>3 DEF Image
<1>5. Ours(flash', LogStart', rec) /\ NoFrame(flash', LogStart', rec)
  BY <1>1, <1>3, BareIsOurs
<1> QED BY <1>3, <1>4, <1>5 DEF OpenLog

(* A step that logs a byte.                                                  *)
LEMMA LoggedByte ==
  ASSUME IInv, LogInv, Powered, Powered', UNCHANGED <<lost, rec>>,
         NEW datum \in Data, WriteByte(datum), state' \notin Unbuffered,
         \/ datum \in {Blank, FrameOf(rec)} /\ state' \notin Heading
         \/ datum = HeaderOf(rec) /\ state \in Heading
  PROVE  LogsOk'
<1> SUFFICES ASSUME ~lost' PROVE EndedLogs' /\ OpenLog'
  BY DEF LogsOk
<1>1. /\ Good /\ AtEnd /\ Fresh /\ NoGarbage /\ EndedLogs /\ OpenLog
      /\ Image = Written(buffer) /\ rec \in Nat
  BY LogsKnown
<1>2. Ours(Written(buffer), LogStart, rec)
  BY <1>1 DEF OpenLog
<1>3. state \in Heading => NoFrame(Written(buffer), LogStart, rec)
  BY <1>1 DEF OpenLog, Powered
<1>4. /\ EndedLogs' /\ Ours(Written(buffer)', LogStart', rec)
      /\ datum = HeaderOf(rec) => NoFrame(Written(buffer)', LogStart', rec)
  BY <1>1, <1>2, <1>3, ByteLogs
<1>5. Image' = Written(buffer)'
  BY DEF Image, Powered
<1>6. state' \in Heading => datum = HeaderOf(rec)
  OBVIOUS
<1> QED BY <1>4, <1>5, <1>6 DEF OpenLog, Powered

(* A step that leaves the flash erased.                                      *)
LEMMA ErasedLogs ==
  ASSUME AllBlank', FlashType', pc' # "off" => buffer' = <<>>, rec' \in Nat
  PROVE  LogsOk'
<1>1. EndedLogs'
  BY DEF EndedLogs, OneRecording, Cell, AllBlank
<1>2. Image' = flash'
  <2>1. CASE pc' = "off"
    BY <2>1 DEF Image
  <2>2. CASE pc' # "off"
    <3>1. Len(buffer') = 0 /\ address' \in Nat
      BY <2>2 DEF FlashType
    <3>2. Written(buffer)' = [a \in Cells |-> flash'[a]]
      BY <3>1 DEF Written
    <3> QED BY <2>2, <3>2 DEF FlashType, Image
  <2> QED BY <2>1, <2>2
<1>3. Bare(flash', LogStart')
  BY DEF Bare, AllBlank
<1>4. Ours(flash', LogStart', rec') /\ NoFrame(flash', LogStart', rec')
  BY <1>3, BareIsOurs
<1> QED BY <1>1, <1>2, <1>3, <1>4 DEF LogsOk, OpenLog

(* A log that was cut off holds a part of what it would have held.           *)
LEMMA OursLeft ==
  ASSUME NEW img, NEW left2, NEW from, NEW r \in Nat, Ours(img, from, r),
         \A a \in Cells : left2[a] \in {img[a], Blank}
  PROVE  Ours(left2, from, r)
<1>1. Blank # FrameOf(r) /\ Blank # HeaderOf(r)
  BY RecorderAssumption DEF FrameOf, HeaderOf
<1> QED BY <1>1 DEF Ours

(* No log is open that has not begun.                                        *)
LEMMA BareFlash ==
  ASSUME IInv, LogInv, pc # "off", ~lost, Begun(saved) = {}
  PROVE  Bare(flash, LogStart)
<1>1. CASE Powered
  <2>1. Good /\ Fresh /\ AtEnd /\ LogStart = StartOf(saved, journalIdx)
    BY <1>1, LogsKnown, LogStartIs
  <2>2. journalIdx \in 0..JournalItems /\ journal = saved /\ Consecutive(saved, journalIdx)
        /\ AtLog(saved, journalIdx, address)
    BY <2>1 DEF Good, FlashType, Journaled
  <2>3. CASE journalIdx = JournalItems
    BY <2>1, <2>2, <2>3 DEF AtEnd, flashfsIsEOF, Bare, Fresh
  <2>4. CASE journalIdx < JournalItems
    <3>1. journalIdx \in Items /\ saved[journalIdx].end = None
      BY <2>2, <2>4 DEF Consecutive
    <3>2. saved[journalIdx].begin = None
      BY <3>1 DEF Begun
    <3> QED BY <2>1, <2>2, <2>4, <3>2 DEF AtLog, Bare, Fresh
  <2> QED BY <2>2, <2>3, <2>4
<1>2. CASE ~Powered
  BY <1>2 DEF Powered, IInv, EraseInv, AllBlank, Bare
<1> QED BY <1>1, <1>2

(* When power is lost a part of the buffer may have been written: it is of the open log too. *)
LEMMA PowerLogs ==
  ASSUME IInv, LogInv, IInv', PowerLoss
  PROVE  LogsOk'
<1> SUFFICES ASSUME ~lost' PROVE EndedLogs' /\ OpenLog'
  BY DEF LogsOk
<1>1. /\ pc # "off" /\ pc' = "off" /\ lost' = lost /\ rec' = rec /\ ~lost
  BY DEF PowerLoss
<1>2. /\ Fresh /\ NoGarbage /\ FlashType /\ EndedLogs /\ OpenLog /\ Image = Written(buffer)
      /\ rec \in Nat /\ buffer \in Seq(Data)
  BY <1>1, RecorderAssumption DEF IInv, FlashInv, TypeOK, RecorderType, LogInv, Image, FlashType
<1>3. Ours(Written(buffer), LogStart, rec)
  BY <1>2 DEF OpenLog
<1>4. \A a \in Cells : Written(buffer)[a] =
        IF a >= address /\ a < address + Len(buffer) THEN buffer[a - address + 1] ELSE flash[a]
  BY <1>2, WrittenBehind
<1>5. address \in Nat /\ Len(buffer) \in Nat
  BY <1>2 DEF FlashType
<1>6. CASE UNCHANGED flashfsVars
  <2>1. UNCHANGED <<flash, saved>>
    BY <1>6 DEF flashfsVars, media
  <2>2. EndedLogs' /\ LogStart' = LogStart
    BY <1>2, <2>1 DEF EndedLogs, OneRecording, Cell, LogStart
  <2>3. \A a \in Cells : flash[a] \in {Written(buffer)[a], Blank}
    BY <1>2, <1>4, <1>5 DEF Fresh
  <2>4. Ours(flash, LogStart, rec)
    BY <1>2, <1>3, <2>3, OursLeft
  <2>5. Begun(saved) = {} => Bare(flash, LogStart)
    BY <1>1, BareFlash
  <2> QED BY <1>1, <2>1, <2>2, <2>4, <2>5 DEF OpenLog, Image, Begun
<1>7. CASE state \in Writing /\ WriteCutOff
  <2>1. PICK n \in 0..Len(buffer) :
          /\ saved' = LogBegun(saved) /\ flash' = Written(SubSeq(buffer, 1, n))
          /\ UNCHANGED <<journal, journalIdx, address, buffer>>
    BY <1>7 DEF WriteCutOff
  <2>2. Powered
    BY <1>1, <1>7 DEF Powered, Writing, HeaderStates, Logging, IInv, EraseInv
  <2>3. Good /\ journal = saved /\ Consecutive(saved, journalIdx) /\ journalIdx \in 0..JournalItems
    BY <2>2, PoweredGood DEF Good, Journaled, FlashType
  <2>4. /\ Consecutive(LogBegun(saved), journalIdx) /\ LogBegun(saved) \in [Items -> JournalItem]
        /\ StartOf(LogBegun(saved), journalIdx) = StartOf(saved, journalIdx)
    BY <2>3, BegunJournal DEF Good, Journaled
  <2>5. LogStart = StartOf(saved, journalIdx) /\ LogStart \in 0..address
    BY <2>3, LogStartIs
  <2>6. LogStart' = LogStart
    <3>1. FirstOpen(saved') = journalIdx
      BY <2>1, <2>3, <2>4, OpenIs
    <3> QED BY <2>1, <2>4, <2>5, <3>1 DEF LogStart
  <2> DEFINE bytes == SubSeq(buffer, 1, n)
  <2>7. bytes \in Seq(Data) /\ Len(bytes) = n /\ \A i \in 1..n : bytes[i] = buffer[i]
    BY <1>2, <2>1, SubSeqProperties
  <2> HIDE DEF bytes
  <2>8. \A a \in Cells : flash'[a] =
          IF a >= address /\ a < address + n THEN bytes[a - address + 1] ELSE flash[a]
    BY <1>2, <2>1, <2>7, WrittenBehind DEF bytes
  <2>9. EndedLogs'
    <3>1. \A a \in Cells : a < StartOf(saved, journalIdx) => flash'[a] = flash[a]
      BY <1>5, <2>5, <2>8
    <3>2. \A i \in Items : i < journalIdx => saved'[i] = saved[i]
      BY <2>1, <2>3 DEF LogBegun, Good, FlashType
    <3>3. \A i \in Items : i >= journalIdx => saved'[i].end = None
      BY <2>1, <2>4 DEF Consecutive
    <3> QED BY <1>2, <2>3, <3>1, <3>2, <3>3, LogsUndisturbed
  <2>10. ASSUME NEW a \in Cells PROVE flash'[a] \in {Written(buffer)[a], Blank}
    <3>1. CASE a >= address /\ a < address + n
      <4>1. a - address + 1 \in 1..n /\ a < address + Len(buffer)
        BY <1>5, <2>1, <3>1
      <4> QED BY <1>4, <2>7, <2>8, <3>1, <4>1
    <3>2. CASE ~(a >= address /\ a < address + n)
      BY <1>2, <1>4, <2>8, <3>2 DEF Fresh
    <3> QED BY <3>1, <3>2
  <2>11. Ours(flash', LogStart, rec)
    BY <1>2, <1>3, <2>10, OursLeft
  <2>12. ASSUME Begun(saved') = {} PROVE Bare(flash', LogStart')
    <3>1. journalIdx = JournalItems
      <4> SUFFICES ASSUME journalIdx < JournalItems PROVE FALSE
        BY <2>3
      <4>1. journalIdx \in Items /\ saved'[journalIdx].begin = StartOf(saved, journalIdx)
        BY <2>1, <2>3, BegunJournal DEF Good, Journaled
      <4>2. saved'[journalIdx].end = None
        BY <2>1, <2>4, <4>1 DEF Consecutive
      <4>3. LogStart # None
        BY <2>3, <2>5 DEF Good, FlashType
      <4> QED BY <2>5, <2>12, <4>1, <4>2, <4>3 DEF Begun
    <3>2. buffer = <<>> /\ n = 0
      BY <2>1, <2>3, <3>1, Len(<<>>) = 0 DEF Good, Room, flashfsIsEOF
    <3>3. \A a \in Cells : flash'[a] = flash[a]
      BY <1>5, <2>8, <3>2
    <3>4. saved' = saved
      BY <2>1, <3>1 DEF LogBegun, flashfsLogStarted
    <3>5. Bare(flash, LogStart)
      BY <1>1, <2>12, <3>4, BareFlash
    <3> QED BY <2>6, <3>3, <3>5 DEF Bare
  <2> QED BY <1>1, <2>6, <2>9, <2>11, <2>12 DEF OpenLog, Image, Begun
<1> QED BY <1>6, <1>7 DEF PowerLoss

(* flashfsInit either finds no log open or ends the one that was cut off.    *)
LEMMA LoadFinds ==
  ASSUME FlashType, SavedOk, Load, UNCHANGED flash, buffer' = <<>>
  PROVE  /\ address' = StartOf(saved', journalIdx') /\ journal' = saved'
         /\ \E n \in 0..JournalItems :
              /\ Consecutive(saved, n)
              /\ \/ saved' = saved
                 \/ /\ n \in Items /\ saved' = [saved EXCEPT ![n].end = address']
                    /\ saved[n].begin = StartOf(saved, n)
<1>1. PICK n \in 0..JournalItems : Consecutive(saved, n)
  BY DEF SavedOk
<1>2. FirstOpen(saved) = n
  BY <1>1, OpenFound
<1>3. CASE Begun(saved) # {} /\ BlanksFrom(saved[Lowest(Begun(saved))].begin) # {}
  <2>1. n < JournalItems /\ Lowest(Begun(saved)) = n /\ saved[n].begin = StartOf(saved, n)
    BY <1>1, <1>3, BegunFound
  <2>2. /\ saved' = [saved EXCEPT ![n].end = address'] /\ journal' = saved'
        /\ journalIdx' = n + 1
    BY <1>2, <1>3, <2>1 DEF Load
  <2>3. n \in Items /\ n + 1 # 0 /\ (n + 1) - 1 = n
    BY <2>1
  <2>4. saved'[n].end = address'
    BY <2>2, <2>3 DEF FlashType, JournalItem
  <2> QED BY <1>1, <2>1, <2>2, <2>3, <2>4 DEF StartOf
<1>4. CASE ~(Begun(saved) # {} /\ BlanksFrom(saved[Lowest(Begun(saved))].begin) # {})
  BY <1>1, <1>2, <1>4 DEF Load, StartOf
<1> QED BY <1>3, <1>4

(* After a restart the log that was open goes on where its bytes end, or is closed. *)
LEMMA RestartLogs ==
  ASSUME IInv, LogInv, IInv', Restart
  PROVE  LogsOk'
<1> SUFFICES ASSUME ~lost' PROVE EndedLogs' /\ OpenLog'
  BY DEF LogsOk
<1>1. /\ pc = "off" /\ Load /\ buffer' = <<>> /\ flash' = flash /\ rec' = rec /\ ~lost
      /\ pc' = "idle" /\ state' = "STOPPED" /\ \A a \in Cells : a >= address' => flash[a] = Blank
  BY DEF Restart, FlashfsRestart
<1>2. /\ FlashType /\ SavedOk /\ EndedLogs /\ OpenLog /\ rec \in Nat
  BY <1>1, RecorderAssumption DEF IInv, FlashInv, TypeOK, RecorderType, LogInv
<1>3. Ours(flash, LogStart, rec)
  BY <1>1, <1>2 DEF OpenLog, Image
<1>4. FlashType' /\ Room' /\ Journaled'
  BY <1>1, <1>2, LoadKeeps
<1>5. /\ address' = StartOf(saved', journalIdx') /\ journal' = saved'
  BY <1>1, <1>2, LoadFinds
<1>6. PICK n \in 0..JournalItems :
        /\ Consecutive(saved, n)
        /\ \/ saved' = saved
           \/ /\ n \in Items /\ saved' = [saved EXCEPT ![n].end = address']
              /\ saved[n].begin = StartOf(saved, n)
  BY <1>1, <1>2, LoadFinds
<1>7. saved \in [Items -> JournalItem] /\ LogStart = StartOf(saved, n)
  BY <1>2, <1>6, OpenIs DEF FlashType, LogStart
<1>8. LogStart' = address'
  <2>1. Consecutive(saved', journalIdx') /\ saved' \in [Items -> JournalItem] /\ journalIdx' \in 0..JournalItems
    BY <1>4 DEF Journaled, FlashType
  <2>2. FirstOpen(saved') = journalIdx'
    BY <2>1, OpenIs
  <2> QED BY <1>5, <2>2 DEF LogStart
<1>9. Bare(flash', LogStart') /\ Written(buffer)' = flash'
  <2>1. Len(buffer') = 0 /\ address' \in Nat
    BY <1>1, <1>4 DEF FlashType
  <2>2. Written(buffer)' = [a \in Cells |-> flash'[a]]
    BY <2>1 DEF Written
  <2> QED BY <1>1, <1>4, <1>8, <2>2 DEF FlashType, Bare
<1>10. EndedLogs'
  <2>1. CASE saved' = saved
    BY <1>1, <1>2, <2>1 DEF EndedLogs, OneRecording, Cell
  <2>2. CASE /\ n \in Items /\ saved' = [saved EXCEPT ![n].end = address']
             /\ saved[n].begin = StartOf(saved, n)
    <3>1. /\ \A i \in Items : i # n => saved'[i] = saved[i]
          /\ saved'[n].begin = LogStart
      BY <1>7, <2>2 DEF JournalItem
    <3>2. ASSUME NEW i \in Items, i >= n, saved'[i].end # None
          PROVE  OneRecording(saved, i)'
      <4>1. i = n
        BY <1>6, <3>1, <3>2 DEF Consecutive
      <4>2. Cell(saved, i)' \subseteq {a \in Cells : a >= LogStart}
        BY <3>1, <4>1 DEF Cell
      <4>3. ASSUME NEW a \in Cells, NEW b \in Cells, a >= LogStart, b >= LogStart, a < b,
                   flash[a] # Blank, flash[b] # Blank
            PROVE  (flash[a] - 1) \div 2 = (flash[b] - 1) \div 2 /\ flash[a] <= flash[b]
        <5>1. LogStart \in Nat
          <6>1. n # 0 => n - 1 \in Items
            OBVIOUS
          <6> QED BY <1>7, <6>1 DEF StartOf, JournalItem
        <5>2. LogStart <= a /\ LogStart <= b
          BY <4>3, <5>1
        <5> QED BY <1>2, <1>3, <4>3, <5>2, OursAgree
      <4> QED BY <1>1, <4>2, <4>3 DEF OneRecording
    <3> QED BY <1>1, <1>2, <1>6, <3>1, <3>2, LogsUndisturbed
  <2> QED BY <1>6, <2>1, <2>2
<1>11. Ours(flash', LogStart', rec) /\ NoFrame(flash', LogStart', rec)
  BY <1>2, <1>9, BareIsOurs
<1> QED BY <1>1, <1>9, <1>10, <1>11 DEF OpenLog, Image

-----------------------------------------------------------------------------
(* Headers, cache flush and frames follow one another in every step.         *)
LEMMA PhaseKeeps ==
  ASSUME IInv, PhaseInv, Next, ~EraseAnytime
  PROVE  PhaseInv'
<1> USE DEF PhaseInv, AtUpdate, Done, Rest, HeaderStates, Logging, EraseStates, States
<1>1. state \in States
  BY DEF IInv, TypeOK, RecorderType
<1>2. ASSUME NEW armed \in BOOLEAN, NEW due \in BOOLEAN, UpdateArmed(armed, due) PROVE PhaseInv'
  BY <1>2 DEF UpdateArmed, Finish
<1>3. ASSUME NEW switch \in BOOLEAN, Stopped(switch) PROVE PhaseInv'
  BY <1>3 DEF Stopped, Start
<1>4. ASSUME NEW switch \in BOOLEAN, Erased(switch) PROVE PhaseInv'
  BY <1>4 DEF Erased
<1>5. CASE PrepareLogFile \/ CacheFlush \/ Pause \/ ShuttingDown \/ StartErase \/ Erasing
  BY <1>5 DEF PrepareLogFile, CacheFlush, Pause, ShuttingDown, StartErase, Erasing,
     IInv, TypeOK, RecorderType
<1>6. ASSUME NEW n \in 0..LoopBytes, Running(n) PROVE PhaseInv'
  BY <1>6 DEF Running
<1>7. ASSUME NEW n \in 0..LoopBytes, NEW last \in BOOLEAN, SendHeader(n, last) PROVE PhaseInv'
  BY <1>7 DEF SendHeader
<1>8. CASE Write \/ Wrote
  BY <1>8 DEF Write, Wrote
<1>9. CASE EraseSwitchJournal \/ FinishErase
  BY <1>1, <1>9 DEF EraseSwitchJournal, FinishErase, IInv, EraseInv
<1>10. CASE After
  BY <1>10 DEF After, Full, Same, StartInTestMode, StopInTestMode, Start, Finish
<1>11. CASE Expire \/ PowerLoss \/ Restart
  BY <1>11 DEF Expire, PowerLoss, Restart
<1>12. CASE EraseCommand \/ EraseCommandLogs \/ EraseCommandJournal \/ EraseCommandReload
  BY <1>12 DEF EraseCommand, EraseCommandLogs, EraseCommandJournal, EraseCommandReload
<1> QED
  BY <1>2, <1>3, <1>4, <1>5, <1>6, <1>7, <1>8, <1>9, <1>10, <1>11, <1>12
     DEF Next, Loop, BlackboxUpdate

-----------------------------------------------------------------------------
(* Steps that leave the flash alone leave a full one full. *)
LEMMA SameFull ==
  ASSUME LogInv, UNCHANGED flashfsVars, Powered' => Powered,
         state' \in Unbuffered => state \in Unbuffered \/ flashfsIsEOF
  PROVE  FullInv'
<1>1. UNCHANGED <<journal, journalIdx, address>>
  BY DEF flashfsVars, media
<1>2. AtEnd' = AtEnd
  BY <1>1 DEF AtEnd, flashfsIsEOF, StartOf
<1>3. StartOf(journal', journalIdx') = StartOf(journal, journalIdx)
  BY <1>1
<1> QED BY <1>1, <1>2, <1>3 DEF LogInv, FullInv, AtEnd

Logged == FullInv' /\ LogsOk'

(* The steps that write nothing, ... *)
LEMMA QuietLogs ==
  ASSUME IInv, LogInv, IInv',
         \/ \E switch \in BOOLEAN : Stopped(switch) \/ Erased(switch)
         \/ PrepareLogFile \/ Pause \/ Erasing \/ Expire \/ EraseCommand
         \/ \E n \in 0..LoopBytes : Running(n) \/ \E last \in BOOLEAN : SendHeader(n, last),
         ~EraseAnytime
  PROVE  Logged
<1> USE DEF AtUpdate, Done, Rest, HeaderStates, Logging, EraseStates, Heading, Unbuffered
<1>1. rec' \in Nat
  BY RecorderAssumption DEF IInv, TypeOK, RecorderType
<1>2. ASSUME UNCHANGED <<flashfsVars, lost>>, pc \notin {"off", "reload"},
             pc' \notin {"off", "reload"}, msp' # "erased" => msp # "erased",
             rec' = rec \/ state \in Unbuffered, state' \in Unbuffered => state \in Unbuffered,
             state' \in Heading => state \in Heading \/ state \in Unbuffered
      PROVE  Logged
  <2>1. LogsOk'
    BY <1>1, <1>2, SameLogs
  <2>2. FullInv'
    BY <1>2, SameFull DEF Powered
  <2> QED BY <2>1, <2>2 DEF Logged
<1>3. ASSUME NEW switch \in BOOLEAN, Stopped(switch) PROVE Logged
  BY <1>2, <1>3 DEF Stopped, Start
<1>4. ASSUME NEW switch \in BOOLEAN, Erased(switch) PROVE Logged
  BY <1>2, <1>4 DEF Erased
<1>5. CASE PrepareLogFile
  BY <1>2, <1>5 DEF PrepareLogFile
<1>6. CASE Pause
  BY <1>2, <1>6 DEF Pause
<1>7. CASE Erasing
  BY <1>2, <1>7 DEF Erasing
<1>8. CASE Expire
  BY <1>2, <1>8 DEF Expire
<1>9. CASE EraseCommand
  BY <1>2, <1>9 DEF EraseCommand, IInv, EraseInv
<1>10. ASSUME NEW n \in 0..LoopBytes, Running(n) PROVE Logged
  BY <1>2, <1>10 DEF Running
<1>11. ASSUME NEW n \in 0..LoopBytes, NEW last \in BOOLEAN, SendHeader(n, last) PROVE Logged
  BY <1>2, <1>11 DEF SendHeader
<1> QED
  BY <1>3, <1>4, <1>5, <1>6, <1>7, <1>8, <1>9, <1>10, <1>11

(* ... those that write a byte or the buffer, ... *)
LEMMA WritingLogs ==
  ASSUME IInv, LogInv, IInv', CacheFlush \/ ShuttingDown \/ Write \/ Wrote
  PROVE  Logged
<1> USE DEF AtUpdate, Done, Rest, HeaderStates, Logging, EraseStates, Heading, Unbuffered
<1>1. /\ RecorderType /\ EraseInv /\ StateInv /\ PhaseInv /\ journalIdx \in 0..JournalItems
      /\ rec \in 0..(Recordings - 1)
  <2>1. RecorderType /\ EraseInv /\ StateInv /\ PhaseInv /\ journalIdx \in 0..JournalItems
    BY DEF IInv, TypeOK, FlashType, LogInv
  <2> QED BY <2>1 DEF RecorderType
<1>2. /\ pc \notin {"off", "reload", "erase"} /\ pc' \notin {"off", "reload", "erase"}
      /\ UNCHANGED <<msp, lost, rec>> /\ state # "STOPPED"
  BY <1>1 DEF CacheFlush, ShuttingDown, Write, Wrote, StateInv
<1>3. Powered /\ Powered' /\ rec' \in Nat
  BY <1>1, <1>2, RecorderAssumption DEF Powered, EraseInv
<1>4. /\ Good /\ AtEnd /\ buffer \in Seq(Data) /\ address + Len(buffer) <= FlashSize
      /\ address < FlashSize => address + Len(buffer) < FlashSize
      /\ flashfsIsEOF => buffer = <<>>
  BY <1>3, PoweredGood, Len(<<>>) = 0 DEF Good, FlashType, Room, LogInv, FullInv, flashfsIsEOF
<1>5. ASSUME FlushAsync(buffer), state' \notin Unbuffered, state' \in Heading => state \in Heading
      PROVE  Logged
  <2>1. LogsOk'
    BY <1>2, <1>3, <1>5, FlushedLogs
  <2>2. AtEnd'
    BY <1>4, <1>5, FlushAtEnd
  <2> QED BY <1>5, <2>1, <2>2 DEF Logged, FullInv
<1>6. CASE CacheFlush
  BY <1>1, <1>5, <1>6 DEF CacheFlush, PhaseInv, RecorderType
<1>7. CASE ShuttingDown
  <2>1. CASE ShutdownOver
    <3>1. Close(buffer)
      BY <1>7, <2>1 DEF ShuttingDown
    <3>2. age = 2 => journalIdx < JournalItems
      BY <1>1, <1>7 DEF ShuttingDown, StateInv
    <3>3. journalIdx < JournalItems
      BY <1>1, <1>4, <2>1, <3>2 DEF ShutdownOver, FlushAsyncReturns, flashfsIsEOF
    <3>4. LogsOk'
      BY <1>2, <1>3, <3>1, <3>3, ClosedLogs
    <3>5. AtEnd' /\ address' = StartOf(journal', journalIdx')
      BY <1>4, <3>1, <3>3, CloseAtEnd
    <3> QED BY <3>4, <3>5 DEF Logged, FullInv
  <2>2. CASE ~ShutdownOver
    BY <1>5, <1>7, <2>2 DEF ShuttingDown
  <2> QED BY <2>1, <2>2
<1>8. CASE Write
  <2>1. PICK datum \in Datum : WriteByte(datum)
    BY <1>8 DEF Write
  <2>2. state \in HeaderStates \union Logging /\ state' = state
    BY <1>1, <1>8 DEF Write, StateInv
  <2>3. datum \in Data
    BY <1>1, DataOfRecording DEF Datum
  <2>4. \/ datum \in {Blank, FrameOf(rec)} /\ state' \notin Heading
        \/ datum = HeaderOf(rec) /\ state \in Heading
    BY <2>2 DEF Datum
  <2>5. LogsOk'
    BY <1>2, <1>3, <2>1, <2>2, <2>3, <2>4, LoggedByte
  <2>6. AtEnd'
    BY <1>4, <2>1, <2>3, ByteAtEnd
  <2> QED BY <2>2, <2>5, <2>6 DEF Logged, FullInv
<1>9. CASE Wrote
  <2>1. /\ state \in HeaderStates \union Logging
        /\ state' \notin Unbuffered /\ (state' \in Heading => state \in Heading)
    BY <1>1, <1>9 DEF Wrote, StateInv, PhaseInv, RecorderType
  <2>2. CASE FlushAsync(buffer)
    BY <1>5, <2>1, <2>2
  <2>3. CASE UNCHANGED flashfsVars
    <3>1. LogsOk'
      BY <1>2, <1>3, <2>1, <2>3, SameLogs
    <3>2. FullInv'
      BY <1>3, <2>1, <2>3, SameFull
    <3> QED BY <3>1, <3>2 DEF Logged
  <2> QED BY <1>9, <2>2, <2>3 DEF Wrote
<1> QED
  BY <1>6, <1>7, <1>8, <1>9

(* ... the end of a recording, ... *)
LEMMA FinishLogs ==
  ASSUME IInv, LogInv, pc \in {"idle", "after"}, pc' \in {"idle", "update"}, UNCHANGED <<msp, lost, rec>>,
         Finish
  PROVE  Logged
<1> USE DEF HeaderStates, Logging, EraseStates, Heading, Unbuffered, States
<1>1. state \in States /\ rec \in 0..(Recordings - 1) /\ rec' \in Nat /\ EraseInv
  BY RecorderAssumption DEF IInv, TypeOK, RecorderType
<1>2. CASE state \in Logging
  <2>1. WriteByte(FrameOf(rec)) /\ state' = "SHUTTING_DOWN"
    BY <1>2 DEF Finish, NotRecording
  <2>2. Powered /\ Powered'
    BY <1>1, <1>2 DEF Powered, EraseInv
  <2>3. FrameOf(rec) \in Data
    BY <1>1, DataOfRecording
  <2>4. LogsOk'
    BY <2>1, <2>2, <2>3, LoggedByte
  <2>5. AtEnd'
    BY <2>1, <2>2, <2>3, PoweredGood, ByteAtEnd DEF LogInv, FullInv
  <2> QED BY <2>1, <2>4, <2>5 DEF Logged, FullInv
<1>3. CASE state \notin Logging
  <2>1. UNCHANGED flashfsVars /\ (state' = state \/ state' = "SHUTTING_DOWN")
    BY <1>3 DEF Finish
  <2>2. LogsOk'
    BY <1>1, <2>1, SameLogs
  <2>3. FullInv'
    BY <2>1, SameFull DEF Powered
  <2> QED BY <2>2, <2>3 DEF Logged
<1> QED BY <1>2, <1>3

(* ... arming and disarming, ... *)
LEMMA ArmingLogs ==
  ASSUME IInv, LogInv, (\E armed, due \in BOOLEAN : UpdateArmed(armed, due)) \/ After
  PROVE  Logged
<1> USE DEF HeaderStates, Logging, EraseStates, Heading, Unbuffered, States
<1>1. state \in States /\ rec \in 0..(Recordings - 1) /\ EraseInv /\ rec \in Nat /\ (rec + 1) % Recordings \in Nat
  BY RecorderAssumption DEF IInv, TypeOK, RecorderType
<1>2. /\ pc \in {"idle", "after"} /\ pc' \in {"idle", "update"} /\ UNCHANGED <<msp, lost>>
  BY DEF UpdateArmed, After
<1>3. ASSUME UNCHANGED flashfsVars, rec' \in Nat, rec' = rec \/ state \in Unbuffered,
             state' \in Unbuffered => state \in Unbuffered \/ lost \/ Bare(Image, LogStart),
             state' \in Unbuffered => state \in Unbuffered \/ flashfsIsEOF,
             state' \in Heading => state \in Heading \/ state \in Unbuffered
      PROVE  Logged
  <2>1. LogsOk'
    BY <1>2, <1>3, SameLogs
  <2>2. FullInv'
    BY <1>2, <1>3, SameFull DEF Powered
  <2> QED BY <2>1, <2>2 DEF Logged
<1>4. ASSUME NEW armed \in BOOLEAN, NEW due \in BOOLEAN, UpdateArmed(armed, due) PROVE Logged
  <2>1. rec' = rec /\ rec' \in Nat
    BY <1>1, <1>4 DEF UpdateArmed
  <2>2. CASE stop /\ due
    BY <1>2, <1>4, <2>1, <2>2, FinishLogs DEF UpdateArmed
  <2>3. CASE ~(stop /\ due) /\ armFlag /\ ~armed /\ state \in Logging
    <3>1. WriteByte(FrameOf(rec)) /\ state' = state
      BY <1>4, <2>3 DEF UpdateArmed, LogEvent
    <3>2. Powered /\ Powered'
      BY <1>1, <1>2, <2>3, <3>1 DEF Powered, EraseInv
    <3>3. FrameOf(rec) \in Data
      BY <1>1, DataOfRecording
    <3>4. LogsOk'
      BY <1>2, <2>1, <2>3, <3>1, <3>2, <3>3, LoggedByte
    <3>5. AtEnd'
      BY <3>1, <3>2, <3>3, PoweredGood, ByteAtEnd DEF LogInv, FullInv
    <3> QED BY <2>3, <3>1, <3>4, <3>5 DEF Logged, FullInv
  <2>4. CASE ~(stop /\ due) /\ ~(armFlag /\ ~armed /\ state \in Logging)
    <3>1. UNCHANGED <<flashfsVars, state>>
      BY <1>4, <2>4 DEF UpdateArmed, LogEvent
    <3> QED BY <1>3, <2>1, <3>1
  <2> QED BY <2>2, <2>3, <2>4
<1>5. CASE After
  <2>1. CASE Same
    BY <1>1, <1>3, <2>1 DEF Same
  <2>2. CASE flashfsIsEOF /\ state' = "STOPPED" /\ UNCHANGED <<flashfsVars, rec>>
    <3>1. CASE lost \/ state \in Unbuffered
      BY <1>1, <1>3, <2>2, <3>1
    <3>2. CASE ~lost /\ state \notin Unbuffered
      <4>1. Powered
        BY <1>1, <1>2, <3>2 DEF Powered, EraseInv
      <4>2. Good /\ AtEnd /\ Fresh /\ Image = Written(buffer) /\ buffer = <<>>
        BY <2>2, <3>2, <4>1, LogsKnown
      <4>3. Image = flash
        BY <4>2, NothingWritten DEF Good
      <4>4. LogStart = address
        BY <2>2, <4>2, LogStartIs DEF AtEnd, Good, Journaled
      <4>5. Bare(Image, LogStart)
        BY <4>2, <4>3, <4>4 DEF Bare, Fresh
      <4> QED BY <1>1, <1>3, <2>2, <4>5
    <3> QED BY <3>1, <3>2
  <2>3. CASE Start /\ state = "STOPPED" /\ UNCHANGED flashfsVars
    BY <1>1, <1>3, <2>3 DEF Start
  <2>4. CASE Finish /\ UNCHANGED rec
    BY <1>2, <2>4, FinishLogs
  <2> QED
    BY <1>5, <2>1, <2>2, <2>3, <2>4 DEF After, Full, StartInTestMode, StopInTestMode
<1> QED BY <1>4, <1>5

(* ... and erasing. *)
LEMMA EraseLogsAll ==
  ASSUME IInv, LogInv, IInv',
         \/ StartErase \/ EraseSwitchJournal \/ FinishErase
         \/ EraseCommandLogs \/ EraseCommandJournal \/ EraseCommandReload
  PROVE  Logged
<1> USE DEF AtUpdate, Done, Rest
<1>1. RecorderType /\ EraseInv /\ StateInv /\ FlashType /\ SavedOk
  BY DEF IInv, TypeOK, FlashInv
<1>2. EraseInv' /\ StateInv' /\ FlashType' /\ rec' \in Nat
  BY RecorderAssumption DEF IInv, TypeOK, RecorderType
<1>3. ASSUME AllBlank', state' = "STOPPED" \/ state' = "ERASING" PROVE LogsOk'
  <2>1. pc' # "off" => buffer' = <<>>
    BY <1>2, <1>3 DEF StateInv, Unbuffered, EraseStates
  <2> QED BY <1>2, <1>3, <2>1, ErasedLogs
<1>4. CASE StartErase \/ EraseCommandLogs
  <2>1. AllBlank' /\ (state' = "STOPPED" \/ state' = "ERASING")
    BY <1>1, <1>2, <1>4 DEF StartErase, EraseCommandLogs, EraseInv
  <2>2. UNCHANGED <<journal, journalIdx, address>> /\ Powered
    BY <1>1, <1>4 DEF StartErase, EraseCommandLogs, EraseLogs, Powered, EraseInv
  <2>3. AtEnd' = AtEnd
    BY <2>2 DEF AtEnd, flashfsIsEOF, StartOf
  <2>4. StartOf(journal', journalIdx') = StartOf(journal, journalIdx) /\ address' = address
    BY <2>2
  <2>5. state \in Unbuffered
    BY <1>1, <1>4 DEF StartErase, EraseCommandLogs, EraseInv, Unbuffered, EraseStates
  <2> QED BY <1>3, <2>1, <2>2, <2>3, <2>4, <2>5 DEF Logged, FullInv, LogInv
<1>5. CASE EraseSwitchJournal \/ EraseCommandJournal
  <2>1. AllBlank' /\ (state' = "STOPPED" \/ state' = "ERASING") /\ ~Powered'
    BY <1>1, <1>2, <1>5 DEF EraseSwitchJournal, EraseCommandJournal, EraseInv, Powered
  <2> QED BY <1>3, <2>1 DEF Logged, FullInv
<1>6. CASE FinishErase \/ EraseCommandReload
  <2>1. /\ Load /\ flash' = flash /\ buffer' = buffer /\ state' \in {"STOPPED", "ERASING"}
        /\ AllBlank /\ buffer = <<>>
    BY <1>1, <1>6 DEF FinishErase, EraseCommandReload, Reload, EraseInv, StateInv, Unbuffered
  <2>2. AllBlank'
    BY <2>1 DEF AllBlank
  <2>3. AtEnd' /\ address' = StartOf(journal', journalIdx')
    BY <1>1, <2>1, LoadFinds DEF AtEnd
  <2> QED BY <1>3, <2>1, <2>2, <2>3 DEF Logged, FullInv
<1> QED BY <1>4, <1>5, <1>6

(* Every step keeps the invariant of the logs. *)
LEMMA LogInvStep ==
  ASSUME IInv, LogInv, [Next]_recorderVars, ~EraseAnytime
  PROVE  LogInv'
<1>1. IInv'
  BY StepKeeps
<1>2. CASE UNCHANGED recorderVars
  BY <1>2 DEF recorderVars, flashfsVars, media, LogInv, PhaseInv, FullInv, AtEnd, Powered, flashfsIsEOF,
     StartOf, EndedLogs, OneRecording, Cell, OpenLog, Begun, Ours, Bare, NoFrame, Image, LogStart, Written
<1>3. CASE Next
  <2>1. PhaseInv'
    BY <1>3, PhaseKeeps DEF LogInv
  <2>2. CASE PowerLoss
    BY <1>1, <2>1, <2>2, PowerLogs DEF LogInv, LogsOk, FullInv, Powered, PowerLoss
  <2>3. CASE Restart
    <3>1. AtEnd' /\ address' = StartOf(journal', journalIdx')
      BY <2>3, LoadFinds DEF Restart, FlashfsRestart, IInv, TypeOK, FlashInv, AtEnd
    <3> QED BY <1>1, <2>1, <2>3, <3>1, RestartLogs DEF LogInv, LogsOk, FullInv
  <2>4. CASE ~PowerLoss /\ ~Restart
    <3>1. Logged
      BY <1>1, <1>3, <2>4, QuietLogs, WritingLogs, ArmingLogs, EraseLogsAll
         DEF Next, Loop, BlackboxUpdate
    <3> QED BY <2>1, <3>1 DEF Logged, LogInv, LogsOk
  <2> QED BY <2>2, <2>3, <2>4
<1> QED BY <1>2, <1>3

(* What the flash and the buffer hold of the open log and of those that have *)
(* ended, in every state.                                                    *)
THEOREM LogInvariant ==
  ASSUME ~EraseAnytime
  PROVE  Spec => []LogInv
<1>1. Init => LogInv
  <2> SUFFICES ASSUME Init PROVE LogInv
    OBVIOUS
  <2>1. IInv
    BY InitHolds
  <2>2. /\ flash = [a \in Cells |-> Blank] /\ saved = [i \in Items |-> ErasedItem]
        /\ journal = saved /\ journalIdx = 0 /\ address = 0 /\ buffer = <<>>
        /\ pc = "idle" /\ rec = 0
    BY DEF Init, FlashfsInit
  <2>3. FlashType
    BY <2>1 DEF IInv, TypeOK
  <2>4. Image = flash
    BY <2>2, <2>3, NothingWritten DEF Image
  <2>5. Bare(flash, LogStart)
    BY <2>2 DEF Bare
  <2>6. Ours(flash, LogStart, rec) /\ NoFrame(flash, LogStart, rec)
    BY <2>2, <2>5, BareIsOurs
  <2>7. OpenLog
    BY <2>4, <2>5, <2>6 DEF OpenLog
  <2>8. EndedLogs
    BY <2>2 DEF EndedLogs, ErasedItem
  <2>9. PhaseInv /\ FullInv
    BY <2>2 DEF Init, PhaseInv, FullInv, AtEnd, StartOf
  <2> QED BY <2>7, <2>8, <2>9 DEF LogInv
<1>2. IInv /\ LogInv /\ [Next]_recorderVars => LogInv'
  BY LogInvStep
<1> QED
  BY <1>1, <1>2, RecorderInvariant, PTL DEF Spec

(* A log that has ended holds one recording, its headers before its frames,  *)
(* for all sizes and after any number of crashes: what a buffer still holds  *)
(* when a recording ends is flushed into its log (flashfsClose), and a       *)
(* recovery ends a log where its own cells end (flashfsJournalFix).          *)
THEOREM LogsHoldOneRecording ==
  ASSUME ~EraseAnytime
  PROVE  Spec => []LogHoldsOneRecording
<1>1. LogInv => LogHoldsOneRecording
  BY DEF LogInv, EndedLogs, LogHoldsOneRecording
<1> QED
  BY <1>1, LogInvariant, PTL

-----------------------------------------------------------------------------
(* Every ScanStep-th cell from a beginning on is read, up to the last cells. *)
LEMMA StepOn ==
  ASSUME NEW s \in Nat \ {0}, NEW x \in Nat, x % s = 0
  PROVE  (x + s) % s = 0
<1>1. ASSUME NEW y \in Int, NEW k \in Int, y = s * k PROVE y % s = 0
  BY <1>1
<1>2. PICK q \in Int : x = s * q
  OBVIOUS
<1>3. x + s = s * (q + 1)
  <2>1. s * (q + 1) = s * q + s
    OBVIOUS
  <2> QED BY <1>2, <2>1
<1>4. x + s \in Int /\ q + 1 \in Int
  OBVIOUS
<1> QED BY <1>1, <1>3, <1>4

(* The scan for the end of the logs looks at the last block too. *)
LEMMA LastScanned ==
  ASSUME NEW from \in Cells
  PROVE  \E c \in Cells : c >= from /\ (c - from) % ScanStep = 0 /\ c >= FlashSize - ScanStep
<1> DEFINE S == {k \in Nat : \E c \in Cells : k = FlashSize - 1 - c /\ c >= from /\ (c - from) % ScanStep = 0}
<1>1. S \in SUBSET Nat /\ S # {}
  <2>1. FlashSize - 1 - from \in Nat /\ (from - from) % ScanStep = 0
    OBVIOUS
  <2> QED BY <2>1
<1>2. PICK k \in S : \A b \in S : k <= b
  BY <1>1, LowestExists
<1>3. PICK c \in Cells : k = FlashSize - 1 - c /\ c >= from /\ (c - from) % ScanStep = 0
  BY <1>2
<1>4. ASSUME c + ScanStep \in Cells PROVE FALSE
  <2>1. (c - from + ScanStep) % ScanStep = 0
    <3>1. c - from \in Nat /\ ScanStep \in Nat \ {0}
      BY <1>3
    <3> QED BY <1>3, <3>1, StepOn
  <2>2. c - from + ScanStep = (c + ScanStep) - from
    BY <1>3
  <2>3. FlashSize - 1 - (c + ScanStep) \in S
    BY <1>3, <1>4, <2>1, <2>2
  <2> QED BY <1>2, <1>3, <2>3
<1> QED BY <1>3, <1>4

(* What a recovery loses track of.                                           *)
LEMMA RecoveryLoses ==
  ASSUME IInv, LogInv, Restart, pc = "off", lost', ~lost
  PROVE  \E a \in Cells : /\ flash[a] # Blank
                          /\ \/ a >= FlashSize - ScanStep
                             \/ \E b \in 0..(a - 1) : flash[b] = Blank
<1>1. FlashType /\ SavedOk /\ Load /\ OpenLog
  BY DEF IInv, TypeOK, FlashInv, LogInv, Restart, FlashfsRestart
<1>2. PICK a \in Cells : a >= address' /\ flash[a] # Blank
  BY DEF Restart
<1>3. PICK n \in 0..JournalItems : Consecutive(saved, n)
  BY <1>1 DEF SavedOk
<1>4. FirstOpen(saved) = n /\ LogStart = StartOf(saved, n)
  BY <1>1, <1>3, OpenFound DEF LogStart
<1>5. CASE Begun(saved) = {}
  <2>1. address' = LogStart
    BY <1>1, <1>4, <1>5 DEF Load, StartOf
  <2> QED BY <1>1, <1>2, <1>5, <2>1 DEF OpenLog, Bare
<1>6. CASE Begun(saved) # {}
  <2>1. Lowest(Begun(saved)) = n /\ saved[n].begin = StartOf(saved, n)
    BY <1>1, <1>3, <1>6, BegunFound
  <2> DEFINE begin == StartOf(saved, n)
  <2>2. CASE BlanksFrom(begin) # {}
    <3>1. address' = FixEnd(begin)
      BY <1>1, <1>4, <1>6, <2>1, <2>2 DEF Load
    <3>2. FixEnd(begin) \in BlanksFrom(begin)
      BY <2>2, LowestExists DEF FixEnd, BlanksFrom
    <3>3. address' \in Cells /\ flash[address'] = Blank
      BY <3>1, <3>2 DEF BlanksFrom
    <3>4. address' \in 0..(a - 1)
      BY <1>2, <3>3
    <3> QED BY <1>2, <3>3, <3>4
  <2>3. CASE BlanksFrom(begin) = {}
    <3>1. address' = begin
      BY <1>1, <1>4, <1>6, <2>1, <2>3 DEF Load, StartOf
    <3>2. begin \in Cells
      <4>1. n # 0 => n - 1 \in Items
        OBVIOUS
      <4>2. begin \in Nat
        BY <1>1, <4>1 DEF StartOf, FlashType, JournalItem
      <4> QED BY <1>2, <3>1, <4>2
    <3> HIDE DEF begin
    <3>3. PICK c \in Cells : c >= begin /\ (c - begin) % ScanStep = 0 /\ c >= FlashSize - ScanStep
      BY <3>2, LastScanned
    <3>4. flash[c] # Blank
      BY <2>3, <3>3 DEF BlanksFrom
    <3> QED BY <3>3, <3>4
  <2> QED BY <2>2, <2>3
<1> QED BY <1>5, <1>6

(* The flash is left alone where it must be, for all sizes: no log ends      *)
(* behind the journal's last item (flashfsLogEnd checks nothing), the erase  *)
(* by switch finds nothing in the buffer and no cells in an open log         *)
(* (blackboxUpdate waits for STOPPED), and a recovery loses track of data    *)
(* only at the flash's end or behind a word that looks erased                *)
(* (flashfsJournalFix).                                                      *)
THEOREM LogsAreKeptAlways ==
  ASSUME ~EraseAnytime
  PROVE  Spec => LogsAreKept
<1>1. ASSUME IInv, LogInv, Next, pc = "update", pc' = "erase"
      PROVE  /\ buffer = <<>>
             /\ journalIdx < JournalItems /\ ~lost /\ journal[journalIdx].begin # None
                  => address = journal[journalIdx].begin
  <2>1. StartErase
    BY <1>1 DEF Next, Loop, BlackboxUpdate, Stopped, Erased, PrepareLogFile, CacheFlush,
       Pause, ShuttingDown, Running, SendHeader, Erasing, Done, UpdateArmed,
       Write, Wrote, EraseSwitchJournal, FinishErase, After, Expire, EraseCommand,
       EraseCommandLogs, EraseCommandJournal, EraseCommandReload, PowerLoss, Restart
  <2>2. state = "START_ERASE" /\ state \in Unbuffered /\ Powered
    BY <1>1, <2>1 DEF StartErase, AtUpdate, IInv, EraseInv, Powered, Unbuffered, EraseStates
  <2>3. buffer = <<>> /\ address = StartOf(journal, journalIdx)
    BY <1>1, <2>2 DEF IInv, StateInv, LogInv, FullInv
  <2>4. Consecutive(journal, journalIdx) /\ journalIdx \in 0..JournalItems
    BY <1>1, <2>2, PoweredGood DEF Good, FlashType, Journaled
  <2> QED BY <2>3, <2>4 DEF Consecutive
<1>2. IInv /\ LogInv /\ [Next]_recorderVars =>
        [(pc = "update" /\ pc' = "erase") =>
            /\ buffer = <<>>
            /\ journalIdx < JournalItems /\ ~lost /\ journal[journalIdx].begin # None
                 => address = journal[journalIdx].begin]_recorderVars
  BY <1>1
<1>3. ASSUME IInv, LogInv, Next, pc = "off", lost', ~lost
      PROVE  Restart
  <2>1. msp = "idle" => \/ Restart \/ EraseCommand
                        \/ \E armed, due \in BOOLEAN : UpdateArmed(armed, due)
                        \/ BlackboxUpdate \/ Write \/ Wrote \/ EraseSwitchJournal
                        \/ FinishErase \/ After \/ Expire \/ PowerLoss
    BY <1>3 DEF Next, Loop, EraseCommandLogs, EraseCommandJournal, EraseCommandReload
  <2>2. msp = "idle"
    BY <1>3 DEF IInv, EraseInv
  <2> QED
    BY <1>3, <2>1, <2>2 DEF BlackboxUpdate, Stopped, Erased, PrepareLogFile, CacheFlush,
       Pause, ShuttingDown, Running, SendHeader, StartErase, Erasing, AtUpdate, UpdateArmed,
       Write, Wrote, EraseSwitchJournal, FinishErase, After, Expire, EraseCommand, PowerLoss
<1>4. IInv /\ LogInv /\ [Next]_recorderVars =>
        [(pc = "off" /\ lost' /\ ~lost) =>
            \E a \in Cells : /\ flash[a] # Blank
                             /\ \/ a >= FlashSize - ScanStep
                                \/ \E b \in 0..(a - 1) : flash[b] = Blank]_recorderVars
  BY <1>3, RecoveryLoses
<1>5. Spec => SwitchErasesBetweenLogs
  BY <1>2, RecorderInvariant, LogInvariant, PTL DEF Spec, SwitchErasesBetweenLogs
<1>6. Spec => LostOnlyAtEnd
  BY <1>4, RecorderInvariant, LogInvariant, PTL DEF Spec, LostOnlyAtEnd
<1> QED
  BY <1>5, <1>6, JournalIsNotOverrun DEF LogsAreKept
=============================================================================
