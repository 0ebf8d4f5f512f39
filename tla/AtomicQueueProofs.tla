------------------------- MODULE AtomicQueueProofs -------------------------
(***************************************************************************)
(* Proofs about AtomicQueue for every queue size and every set of events:  *)
(* QueueInv is inductive, and every step is a step of the abstract channel *)
(* or invisible to it.                                                     *)
(***************************************************************************)
EXTENDS AtomicQueue, SequenceTheorems, TLAPS

USE QueueAssumption DEF Capacity

(* increment moves an index to the next slot, from the last to the first. *)
LEMMA IncrementSlot ==
  ASSUME NEW i \in 0..Size
  PROVE  /\ increment(i) \in 0..Size
         /\ i < Size => increment(i) = i + 1
         /\ i = Size => increment(i) = 0
  BY DEF increment

(* The queue holds between none and Size elements, each in a slot of its    *)
(* own, none of them at the tail.                                           *)
LEMMA SlotRange ==
  ASSUME TypeOK
  PROVE  /\ Count \in 0..Size
         /\ \A i \in 0..Size : /\ Slot(i) \in 0..Size
                               /\ i < Count => Slot(i) # tail
         /\ Slot(0) = head
         /\ Count = 0 <=> head = tail
  BY DEF TypeOK, Count, Slot

(* Publishing adds the element at the tail to the end. *)
LEMMA CountAfterPublish ==
  ASSUME TypeOK, increment(tail) # head,
         tail' = increment(tail), head' = head
  PROVE  /\ Count' = Count + 1
         /\ Slot(Count) = tail
         /\ \A i \in 0..Size : Slot(i)' = Slot(i)
<1>1. head \in 0..Size /\ tail \in 0..Size
  BY DEF TypeOK
<1>2. tail' = IF tail = Size THEN 0 ELSE tail + 1
  BY <1>1, IncrementSlot
<1>3. Count' = Count + 1
  BY <1>1, <1>2 DEF Count
<1>4. Slot(Count) = tail
  BY <1>1 DEF Slot, Count
<1>5. ASSUME NEW i \in 0..Size PROVE Slot(i)' = Slot(i)
  BY DEF Slot
<1> QED
  BY <1>3, <1>4, <1>5

(* Releasing removes the element at the head from the front. *)
LEMMA CountAfterRelease ==
  ASSUME TypeOK, head # tail,
         head' = increment(head), tail' = tail
  PROVE  /\ Count = Count' + 1
         /\ Count' \in Nat
         /\ \A i \in 0..Size : i < Count' => Slot(i)' = Slot(i + 1)
<1>1. head \in 0..Size /\ tail \in 0..Size
  BY DEF TypeOK
<1>2. head' = IF head = Size THEN 0 ELSE head + 1
  BY <1>1, IncrementSlot
<1>3. Count = Count' + 1 /\ Count' \in Nat
  BY <1>1, <1>2 DEF Count
<1>4. ASSUME NEW i \in 0..Size, i < Count' PROVE Slot(i)' = Slot(i + 1)
  BY <1>1, <1>2 DEF Slot
<1> QED
  BY <1>3, <1>4

(* Init establishes the invariant. *)
LEMMA InitInv == Init => QueueInv
  BY DEF Init, QueueInv, TypeOK, NoSlotRace, ChecksHold, PoppedIsOldest,
         PublishedIsItem, FilledSlots, Count, Slot

(* Every step preserves it. *)
LEMMA StepInv == QueueInv /\ [Next]_queueVars => QueueInv'
<1> SUFFICES ASSUME QueueInv, [Next]_queueVars PROVE QueueInv'
  OBVIOUS
<1>1. ASSUME NEW e \in Events, Send(e) PROVE QueueInv'
  BY <1>1 DEF QueueInv, TypeOK, NoSlotRace, ChecksHold, PoppedIsOldest, PublishedIsItem,
     FilledSlots, Count, Slot, Send, consumerVars, increment
<1>2. CASE PushCheck
  BY <1>2 DEF QueueInv, TypeOK, NoSlotRace, ChecksHold, PoppedIsOldest, PublishedIsItem,
     FilledSlots, Count, Slot, PushCheck, consumerVars, increment
<1>3. CASE PushWrite
  <2>1. TypeOK'
    BY <1>3 DEF QueueInv, TypeOK, PushWrite, consumerVars
  <2>2. NoSlotRace' /\ ChecksHold' /\ PoppedIsOldest' /\ PublishedIsItem'
    BY <1>3 DEF QueueInv, TypeOK, NoSlotRace, ChecksHold, PoppedIsOldest,
       PublishedIsItem, PushWrite, consumerVars, increment
  <2>3. FilledSlots'
    BY <1>3, SlotRange DEF QueueInv, TypeOK, FilledSlots, Count, Slot, PushWrite, consumerVars
  <2> QED
    BY <2>1, <2>2, <2>3 DEF QueueInv
<1>4. CASE PushPublish
  <2>1. increment(tail) # head /\ tail' = increment(tail) /\ head' = head
    BY <1>4 DEF QueueInv, ChecksHold, PushPublish, consumerVars
  <2>2. TypeOK'
    BY <1>4, IncrementSlot DEF QueueInv, TypeOK, PushPublish, consumerVars
  <2>3. NoSlotRace' /\ PoppedIsOldest' /\ PublishedIsItem'
    BY <1>4 DEF QueueInv, NoSlotRace, PoppedIsOldest, PublishedIsItem, PushPublish, consumerVars
  <2>4. ChecksHold'
    BY <1>4, <2>1 DEF QueueInv, ChecksHold, PushPublish, consumerVars
  <2>5. ASSUME NEW i \in 0..Size, i < Count' PROVE array'[Slot(i)'] \in Events
    <3>1. Count' = Count + 1 /\ Slot(Count) = tail /\ Slot(i)' = Slot(i) /\ Count \in 0..Size
      BY <2>1, CountAfterPublish, SlotRange DEF QueueInv
    <3>2. array' = array /\ array[tail] \in Events
      BY <1>4 DEF QueueInv, TypeOK, PublishedIsItem, PushPublish
    <3>3. CASE i < Count
      BY <3>1, <3>2, <3>3 DEF QueueInv, FilledSlots
    <3>4. CASE i = Count
      BY <3>1, <3>2, <3>4
    <3> QED
      BY <2>5, <3>1, <3>3, <3>4
  <2>6. FilledSlots'
    BY <2>5 DEF FilledSlots
  <2> QED
    BY <2>2, <2>3, <2>4, <2>6 DEF QueueInv
<1>5. CASE Poll
  BY <1>5 DEF QueueInv, TypeOK, NoSlotRace, ChecksHold, PoppedIsOldest, PublishedIsItem,
     FilledSlots, Count, Slot, Poll, producerVars, increment
<1>6. CASE PopCheck
  BY <1>6 DEF QueueInv, TypeOK, NoSlotRace, ChecksHold, PoppedIsOldest, PublishedIsItem,
     FilledSlots, Count, Slot, PopCheck, producerVars, increment
<1>7. CASE PopRead
  BY <1>7 DEF QueueInv, TypeOK, NoSlotRace, ChecksHold, PoppedIsOldest, PublishedIsItem,
     FilledSlots, Count, Slot, PopRead, producerVars, increment
<1>8. CASE PopRelease
  <2>1. head # tail /\ head' = increment(head) /\ tail' = tail
    BY <1>8 DEF QueueInv, ChecksHold, PopRelease, producerVars
  <2>2. TypeOK'
    BY <1>8, IncrementSlot DEF QueueInv, TypeOK, PopRelease, producerVars
  <2>3. NoSlotRace' /\ PoppedIsOldest' /\ PublishedIsItem'
    BY <1>8 DEF QueueInv, NoSlotRace, PoppedIsOldest, PublishedIsItem, PopRelease, producerVars
  <2>4. ChecksHold'
    <3>1. increment(tail) # increment(head)
      <4>1. head \in 0..Size /\ tail \in 0..Size
        BY DEF QueueInv, TypeOK
      <4>2. /\ increment(head) = IF head = Size THEN 0 ELSE head + 1
            /\ increment(tail) = IF tail = Size THEN 0 ELSE tail + 1
        BY <4>1, IncrementSlot
      <4> QED
        BY <2>1, <4>1, <4>2
    <3>2. consumer' = "idle" /\ increment(tail)' = increment(tail)
      BY <1>8, <2>1 DEF PopRelease, increment
    <3> QED
      BY <2>1, <3>1, <3>2 DEF ChecksHold
  <2>5. ASSUME NEW i \in 0..Size, i < Count' PROVE array'[Slot(i)'] \in Events
    <3>1. Count = Count' + 1 /\ Count' \in Nat /\ Count \in 0..Size
      BY <2>1, CountAfterRelease, SlotRange DEF QueueInv
    <3>2. i + 1 \in 0..Size /\ i + 1 < Count
      <4> DEFINE left == Count'
      <4>1. i < left /\ Count = left + 1 /\ left \in Nat /\ Count \in 0..Size
        BY <2>5, <3>1
      <4> HIDE DEF left
      <4> QED
        BY <4>1
    <3>3. Slot(i)' = Slot(i + 1)
      BY <2>1, <2>5, CountAfterRelease DEF QueueInv
    <3>4. array[Slot(i + 1)] \in Events
      BY <3>2 DEF QueueInv, FilledSlots
    <3>5. array' = array
      BY <1>8 DEF PopRelease, producerVars
    <3> QED
      BY <3>3, <3>4, <3>5
  <2>6. FilledSlots'
    BY <2>5 DEF FilledSlots
  <2> QED
    BY <2>2, <2>3, <2>4, <2>6 DEF QueueInv
<1>9. CASE UNCHANGED queueVars
  BY <1>9 DEF QueueInv, TypeOK, NoSlotRace, ChecksHold, PoppedIsOldest, PublishedIsItem,
     FilledSlots, Count, Slot, queueVars, increment
<1> QED
  BY <1>1, <1>2, <1>3, <1>4, <1>5, <1>6, <1>7, <1>8, <1>9
  DEF Next, Producer, Consumer, Push, Pop

(* No element is ever accessed by both cores, no check is outlived by what  *)
(* it found, and the elements between head and tail are real events: for    *)
(* every queue size, with no lock between the cores.                        *)
THEOREM QueueInvariant == Spec => []QueueInv
BY InitInv, StepInv, PTL DEF Spec

-----------------------------------------------------------------------------
(* A sequence is the function of its elements. *)
LEMMA SeqIsFunction ==
  ASSUME NEW S, NEW s \in Seq(S), NEW n \in Nat, Len(s) = n
  PROVE  s = [i \in 1..n |-> s[i]]
  BY LenProperties

(* Contents is a sequence of events, as long as the queue is filled. *)
LEMMA ContentsSeq ==
  ASSUME QueueInv
  PROVE  /\ Contents \in Seq(Events)
         /\ Len(Contents) = Count
         /\ Count \in 0..Size
         /\ DOMAIN Contents = 1..Count
<1>1. Count \in 0..Size
  BY SlotRange DEF QueueInv
<1>2. ASSUME NEW i \in 1..Count PROVE array[Slot(i - 1)] \in Events
  <2>1. i - 1 \in 0..Size /\ i - 1 < Count
    BY <1>1, <1>2
  <2> QED
    BY <2>1 DEF QueueInv, FilledSlots
<1> DEFINE n == Count
           f(i) == array[Slot(i - 1)]
<1>3. n \in Nat /\ \A i \in 1..n : f(i) \in Events
  BY <1>1, <1>2
<1>4. Contents = [i \in 1..n |-> f(i)]
  BY DEF Contents
<1> HIDE DEF n, f
<1>5. Contents \in Seq(Events) /\ Len(Contents) = n /\ DOMAIN Contents = 1..n
  BY <1>3, <1>4
<1> QED
  BY <1>1, <1>5 DEF n

(* A step that keeps the indices and every slot between them keeps the      *)
(* contents.                                                                *)
LEMMA ContentsKept ==
  ASSUME QueueInv, head' = head, tail' = tail,
         \A i \in 0..Size : i # tail => array'[i] = array[i]
  PROVE  Contents' = Contents
<1>1. Count' = Count /\ Count \in 0..Size
  BY SlotRange DEF QueueInv, Count
<1>2. ASSUME NEW i \in 1..Count PROVE array'[Slot(i - 1)'] = array[Slot(i - 1)]
  <2>1. i - 1 \in 0..Size /\ i - 1 < Count
    BY <1>1, <1>2
  <2>2. Slot(i - 1) \in 0..Size /\ Slot(i - 1) # tail
    BY <2>1, SlotRange DEF QueueInv
  <2>3. Slot(i - 1)' = Slot(i - 1)
    BY DEF Slot
  <2> QED
    BY <2>2, <2>3
<1> QED
  BY <1>1, <1>2 DEF Contents

(* Publishing appends to the contents. *)
LEMMA PublishAppends ==
  ASSUME QueueInv, PushPublish
  PROVE  Contents' = Append(Contents, item) /\ Len(Contents) < Size
<1>1. increment(tail) # head /\ tail' = increment(tail) /\ head' = head
  BY DEF QueueInv, ChecksHold, PushPublish, consumerVars
<1>2. array' = array /\ array[tail] = item /\ item \in Events
  BY DEF QueueInv, TypeOK, PublishedIsItem, PushPublish
<1>3. Count' = Count + 1 /\ Slot(Count) = tail
  BY <1>1, CountAfterPublish DEF QueueInv
<1>4. Contents \in Seq(Events) /\ Len(Contents) = Count /\ Count \in 0..Size
  BY ContentsSeq
<1>5. tail' \in 0..Size /\ head \in 0..Size
  BY <1>1, IncrementSlot DEF QueueInv, TypeOK
<1>6. Count < Size
  BY <1>1, IncrementSlot DEF QueueInv, TypeOK, Count
<1>7. ASSUME NEW i \in 1..(Count + 1)
      PROVE  array'[Slot(i - 1)'] = Append(Contents, item)[i]
  <2>1. Slot(i - 1)' = Slot(i - 1)
    BY <1>1 DEF Slot
  <2>2. CASE i = Count + 1
    <3>1. i - 1 = Count
      BY <1>4, <2>2
    <3>2. Append(Contents, item)[i] = item
      BY <1>2, <1>4, <2>2
    <3> QED
      BY <1>2, <1>3, <2>1, <3>1, <3>2
  <2>3. CASE i # Count + 1
    <3>1. i \in 1..Count
      BY <1>4, <2>3
    <3>2. Append(Contents, item)[i] = Contents[i]
      BY <1>2, <1>4, <3>1
    <3>3. Contents[i] = array[Slot(i - 1)]
      BY <3>1 DEF Contents
    <3> QED
      BY <1>2, <2>1, <3>2, <3>3
  <2> QED
    BY <2>2, <2>3
<1>8. Contents' = [i \in 1..(Count + 1) |-> Append(Contents, item)[i]]
  BY <1>3, <1>7 DEF Contents
<1>9. Append(Contents, item) = [i \in 1..(Count + 1) |-> Append(Contents, item)[i]]
  <2>1. /\ Append(Contents, item) \in Seq(Events) /\ Len(Append(Contents, item)) = Count + 1
        /\ Count + 1 \in Nat
    BY <1>2, <1>4
  <2> QED
    BY <2>1, SeqIsFunction
<1> QED
  BY <1>4, <1>6, <1>8, <1>9

(* Releasing removes the first of the contents. *)
LEMMA ReleaseDropsHead ==
  ASSUME QueueInv, PopRelease
  PROVE  Contents # <<>> /\ popped = Head(Contents) /\ Contents' = Tail(Contents)
<1>1. head # tail /\ head' = increment(head) /\ tail' = tail /\ array' = array
  BY DEF QueueInv, ChecksHold, PopRelease, producerVars
<1>2. popped = array[head] /\ Slot(0) = head
  BY SlotRange DEF QueueInv, PoppedIsOldest, PopRelease
<1>3. Count = Count' + 1 /\ Count' \in Nat
  BY <1>1, CountAfterRelease DEF QueueInv
<1>4. /\ Contents \in Seq(Events) /\ Len(Contents) = Count
      /\ Count \in 0..Size /\ DOMAIN Contents = 1..Count
  BY ContentsSeq
<1> DEFINE left == Count'
           whole == Contents
<1>5. left \in Nat /\ Len(whole) = left + 1 /\ whole \in Seq(Events)
  BY <1>3, <1>4
<1>6. whole[1] = array[Slot(0)]
  <2>1. 1 \in 1..Count
    <3>1. left \in Nat /\ Count = left + 1
      BY <1>3
    <3> HIDE DEF left
    <3> QED
      BY <3>1
  <2> QED
    BY <2>1 DEF Contents
<1>7. ASSUME NEW i \in 1..left PROVE array'[Slot(i - 1)'] = whole[i + 1]
  <2>1. i \in 1..Count /\ i + 1 \in 1..Count /\ i - 1 \in 0..Size /\ i - 1 < left
    <3>1. left \in Nat /\ Count = left + 1 /\ Count \in 0..Size
      BY <1>3, <1>4
    <3> HIDE DEF left
    <3> QED
      BY <1>7, <3>1
  <2>2. Slot(i - 1)' = Slot((i - 1) + 1)
    BY <1>1, <2>1, CountAfterRelease DEF QueueInv
  <2>3. (i - 1) + 1 = i /\ (i + 1) - 1 = i
    BY <2>1
  <2>4. whole[i + 1] = array[Slot((i + 1) - 1)]
    BY <2>1 DEF Contents
  <2> QED
    BY <1>1, <2>2, <2>3, <2>4
<1>8. Contents' = [i \in 1..left |-> whole[i + 1]]
  BY <1>7 DEF Contents
<1> HIDE DEF left, whole
<1>9. whole # <<>> /\ Head(whole) = whole[1]
  BY <1>5
<1>10. Tail(whole) = [i \in 1..left |-> whole[i + 1]]
  <2>1. /\ Tail(whole) \in Seq(Events) /\ Len(Tail(whole)) = left
        /\ \A i \in 1..left : Tail(whole)[i] = whole[i + 1]
    BY <1>5, <1>9
  <2>2. Tail(whole) = [i \in 1..left |-> Tail(whole)[i]]
    BY <1>5, <2>1, SeqIsFunction
  <2> QED
    BY <2>1, <2>2
<1> QED
  BY <1>2, <1>6, <1>8, <1>9, <1>10 DEF whole

(* Every step is a step of the channel, or leaves it alone. *)
LEMMA StepRefines ==
  QueueInv /\ [Next]_queueVars => [Channel!ChannelNext]_Channel!channelVars
<1> SUFFICES ASSUME QueueInv, [Next]_queueVars
             PROVE  Channel!ChannelNext \/ (Contents' = Contents /\ received' = received)
  BY DEF Channel!channelVars
<1> USE DEF producerVars, consumerVars
<1>1. ASSUME NEW e \in Events, Send(e) PROVE Contents' = Contents /\ received' = received
  BY <1>1, ContentsKept DEF Send
<1>2. CASE PushCheck
  BY <1>2, ContentsKept DEF PushCheck
<1>3. CASE PushWrite
  <2>1. \A i \in 0..Size : i # tail => array'[i] = array[i]
    BY <1>3 DEF QueueInv, TypeOK, PushWrite
  <2> QED
    BY <1>3, <2>1, ContentsKept DEF PushWrite
<1>4. CASE PushPublish
  <2>1. item \in Events /\ received' = received
    BY <1>4 DEF QueueInv, TypeOK, PushPublish
  <2>2. Channel!Send(item)
    BY <1>4, <2>1, PublishAppends DEF Channel!Send
  <2> QED
    BY <2>1, <2>2 DEF Channel!ChannelNext
<1>5. CASE Poll
  BY <1>5, ContentsKept DEF Poll
<1>6. CASE PopCheck
  BY <1>6, ContentsKept DEF PopCheck, QueueInv, ChecksHold
<1>7. CASE PopRead
  BY <1>7, ContentsKept DEF PopRead
<1>8. CASE PopRelease
  <2>1. received' = popped
    BY <1>8 DEF PopRelease
  <2>2. Channel!Receive
    BY <1>8, <2>1, ReleaseDropsHead DEF Channel!Receive
  <2> QED
    BY <2>2 DEF Channel!ChannelNext
<1>9. CASE UNCHANGED queueVars
  BY <1>9, ContentsKept DEF queueVars
<1> QED
  BY <1>1, <1>2, <1>3, <1>4, <1>5, <1>6, <1>7, <1>8, <1>9
  DEF Next, Producer, Consumer, Push, Pop

(* The two cores and their indices implement a bounded FIFO channel: every  *)
(* event that Queue::send did not drop is received once, in the order sent. *)
THEOREM Refinement == Spec => ImplementsChannel
<1>1. Init => Channel!ChannelInit
  BY DEF Init, Channel!ChannelInit, Contents, Count
<1>2. QueueInv /\ [Next]_queueVars => [Channel!ChannelNext]_Channel!channelVars
  BY StepRefines
<1> QED
  BY <1>1, <1>2, QueueInvariant, PTL DEF Spec, ImplementsChannel, Channel!ChannelSpec
=============================================================================
