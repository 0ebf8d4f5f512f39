------------------------------- MODULE Flashfs -------------------------------
(***************************************************************************)
(* Blackbox/BlackboxFlashfs.cpp: the flight logs in the data partition of  *)
(* the flash.  Logs follow one another from address 0; a journal at the    *)
(* partition's end holds where each begins and ends.  Bytes wait in a      *)
(* buffer until they are flushed.  Flash cells can be written once; only   *)
(* an erase clears them.                                                   *)
(*                                                                         *)
(* A cell stands for a word: four bytes, one read of flashfsJournalFix.    *)
(***************************************************************************)
EXTENDS Integers, Sequences

CONSTANTS
  FlashSize,     \* flashfsGetSize, in cells
  JournalItems,  \* FLASHFS_JOURNAL_ITEMS
  FlushSize,     \* FLASHFS_FLUSH_BUFFER_SIZE
  BufferSize,    \* FLASHFS_WRITE_BUFFER_SIZE
  SectorSize,    \* SPI_FLASH_SEC_SIZE
  ScanStep,      \* cells between two reads of flashfsJournalFix
  Data,          \* what a cell can be told to hold, among it the erased value
  Blank,         \* the erased value
  Garbage        \* a cell that was written twice

None == FlashSize + 1    \* FLASHFS_ERASED_VAL as an address: above all others

ASSUME FlashAssumption ==
  /\ {FlashSize, JournalItems, FlushSize, BufferSize, SectorSize, ScanStep} \subseteq Nat \ {0}
  /\ FlushSize <= BufferSize /\ FlushSize <= FlashSize
  /\ Blank \in Data /\ Garbage \notin Data

Cells == 0..(FlashSize - 1)
Items == 0..(JournalItems - 1)
Addresses == 0..FlashSize
JournalItem == [begin : Addresses \union {None}, end : Addresses \union {None}]
ErasedItem == [begin |-> None, end |-> None]

VARIABLES
  flash, saved,                         \* the flash: cells and journal
  journal, journalIdx, address, buffer  \* the RAM copy of the journal, the item
                                        \* and the address to write next

media == <<flash, saved>>
flashfsVars == <<media, journal, journalIdx, address, buffer>>

FlashfsInit ==
  /\ flash = [a \in Cells |-> Blank] /\ saved = [i \in Items |-> ErasedItem]
  /\ journal = saved /\ journalIdx = 0 /\ address = 0 /\ buffer = <<>>

FlashType ==
  /\ flash \in [Cells -> Data \union {Garbage}]
  /\ saved \in [Items -> JournalItem] /\ journal \in [Items -> JournalItem]
  /\ journalIdx \in 0..JournalItems /\ address \in Addresses
  /\ buffer \in Seq(Data) /\ Len(buffer) <= BufferSize

flashfsIsEOF == journalIdx >= JournalItems \/ address >= FlashSize

(* Writing can only clear bits: a blank leaves the cell as it is.            *)
Program(cell, datum) ==
  IF datum = Blank THEN cell ELSE IF cell = Blank THEN datum ELSE Garbage

Written(bytes) ==
  [a \in Cells |-> IF a >= address /\ a < address + Len(bytes)
                   THEN Program(flash[a], bytes[a - address + 1]) ELSE flash[a]]

-----------------------------------------------------------------------------
(* flashfsLogStarted and flashfsLogBegin.  Past the last item the code reads *)
(* the field that follows the journal in FlashfsRuntime, journalIdx, which   *)
(* is not the erased value.                                                  *)
flashfsLogStarted == journalIdx >= JournalItems \/ journal[journalIdx].begin # None

LogBegun(items) ==
  IF flashfsLogStarted THEN items ELSE [items EXCEPT ![journalIdx].begin = address]

(* Mutant: the address does not advance.                                     *)
FlushAsync_Stays(bytes) ==
  /\ journal' = LogBegun(journal) /\ saved' = LogBegun(saved)
  /\ flash' = Written(bytes)
  /\ buffer' = <<>>
  /\ UNCHANGED <<journalIdx, address>>

(* flashfsFlushAsync with bytes in the buffer, and whether it returns true.  *)
FlushAsync(bytes) ==
  /\ journal' = LogBegun(journal) /\ saved' = LogBegun(saved)
  /\ flash' = Written(bytes)
  /\ address' = address + Len(bytes)
  /\ buffer' = <<>>
  /\ UNCHANGED journalIdx

FlushAsyncReturns == buffer # <<>>

LogEnded(items, end) == [LogBegun(items) EXCEPT ![journalIdx].end = end]

(* Mutant: the buffer is not flushed.                                      *)
Close_NoFlush(bytes) ==
  /\ journal' = LogEnded(journal, address) /\ saved' = LogEnded(saved, address)
  /\ buffer' = bytes /\ journalIdx' = journalIdx + 1
  /\ UNCHANGED <<flash, address>>

(* flashfsClose.                                                             *)
Close(bytes) ==
  /\ journal' = LogEnded(journal, address + Len(bytes))
  /\ saved' = LogEnded(saved, address + Len(bytes))
  /\ flash' = Written(bytes)
  /\ address' = address + Len(bytes)
  /\ buffer' = <<>> /\ journalIdx' = journalIdx + 1

(* flashfsWriteByte.                                                         *)
Push(datum) == IF Len(buffer) < BufferSize THEN Append(buffer, datum) ELSE buffer

WriteByte(datum) ==
  LET bytes == Push(datum)
      full == address + Len(bytes) >= FlashSize
      flush == (address + Len(bytes)) % SectorSize = 0 \/ Len(bytes) >= FlushSize
  IN \/ flashfsIsEOF /\ UNCHANGED flashfsVars
     \/ ~flashfsIsEOF /\ full /\ Close(bytes)
     \/ ~flashfsIsEOF /\ ~full /\ flush /\ FlushAsync(bytes)
     \/ /\ ~flashfsIsEOF /\ ~full /\ ~flush
        /\ buffer' = bytes /\ UNCHANGED <<media, journal, journalIdx, address>>

-----------------------------------------------------------------------------
(* flashfsInit: the journal's first item without an end is the next one.     *)
(* flashfsJournalFix ends a log that has begun at the first blank cell it    *)
(* reads; when it reads none, the log stays as it is.                        *)
FirstOpen(items) ==
  CHOOSE i \in 0..JournalItems :
    /\ \A j \in 0..(i - 1) : items[j].end # None
    /\ i < JournalItems => items[i].end = None

Begun(items) == {i \in Items : items[i].begin # None /\ items[i].end = None}

BlanksFrom(begin) ==
  {a \in Cells : a >= begin /\ (a - begin) % ScanStep = 0 /\ flash[a] = Blank}

Lowest(S) == CHOOSE a \in S : \A b \in S : a <= b

FixEnd(begin) == Lowest(BlanksFrom(begin))

Load ==
  LET open == FirstOpen(saved)
      begin == saved[Lowest(Begun(saved))].begin
      last == IF open = 0 THEN 0 ELSE saved[open - 1].end
  IN IF Begun(saved) # {} /\ BlanksFrom(begin) # {}
     THEN /\ saved' = [saved EXCEPT ![open].end = FixEnd(begin)]
          /\ journal' = saved'
          /\ journalIdx' = open + 1 /\ address' = FixEnd(begin)
     ELSE /\ journal' = saved /\ journalIdx' = open /\ address' = last
          /\ UNCHANGED saved

(* The power fails while flashfsFlushAsync writes: its log's beginning may   *)
(* have reached the flash, and then some of the bytes.                       *)
WriteCutOff ==
  \E n \in 0..Len(buffer) :
    /\ saved' = LogBegun(saved) /\ flash' = Written(SubSeq(buffer, 1, n))
    /\ UNCHANGED <<journal, journalIdx, address, buffer>>

FlashfsRestart == Load /\ buffer' = <<>> /\ UNCHANGED flash

(* flashfsEraseCompletely, in the order in which the sectors are erased: the *)
(* logs, then the journal; then flashfsInit (Load), which keeps the buffer.  *)
EraseLogs ==
  /\ flash' = [a \in Cells |-> Blank]
  /\ UNCHANGED <<saved, journal, journalIdx, address, buffer>>

EraseJournal ==
  /\ saved' = [i \in Items |-> ErasedItem]
  /\ UNCHANGED <<flash, journal, journalIdx, address, buffer>>

Reload == Load /\ UNCHANGED <<flash, buffer>>

-----------------------------------------------------------------------------
(* The shape of a journal in which n is the item to fill next, and of the    *)
(* address that goes with it.                                                *)
StartOf(items, n) == IF n = 0 THEN 0 ELSE items[n - 1].end

Consecutive(items, n) ==
  /\ \A i \in Items :
       i < n => /\ items[i].begin = StartOf(items, i)
                /\ items[i].begin <= items[i].end /\ items[i].end <= FlashSize
  /\ \A i \in Items : i >= n => items[i].end = None
  /\ \A i \in Items : i > n => items[i].begin = None
  /\ n < JournalItems => items[n].begin \in {None, StartOf(items, n)}

AtLog(items, n, to) ==
  /\ StartOf(items, n) <= to
  /\ n < JournalItems /\ items[n].begin = None => to = StartOf(items, n)
=============================================================================
