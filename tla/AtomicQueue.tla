---------------------------- MODULE AtomicQueue ----------------------------
(***************************************************************************)
(* Espfc::QueueAtomic (Target/QueueAtomic.h) under Target::Queue           *)
(* (Target/QueueAtomic.cpp), the queue of the ESP32 builds: one core calls *)
(* Queue::send, the other polls isEmpty and calls Queue::receive, and no   *)
(* lock is held.                                                           *)
(*                                                                         *)
(* A step ends where a core touches what the other one writes: a load of   *)
(* the other core's index, a store to its own, an access to an element.    *)
(* The loads and stores are sequentially consistent (the default order of  *)
(* std::atomic), so cores interleave.                                      *)
(***************************************************************************)
EXTENDS Naturals, Sequences

CONSTANTS
  Events, NoEvent,
  Size             \* the Size of the template: 63 in Target/Queue.h

Capacity == Size + 1

ASSUME QueueAssumption == NoEvent \notin Events /\ Size \in Nat /\ Size > 0

VARIABLES
  head, tail,     \* _head, _tail
  array,          \* _array
  producer,       \* what the sending core does next
  item,           \* the event it sends
  consumer,       \* what the receiving core does next
  popped,         \* the local "item" of QueueAtomic::pop
  received        \* the event the last Queue::receive returned

queueVars == <<head, tail, array, producer, item, consumer, popped, received>>
producerVars == <<tail, array, producer, item>>
consumerVars == <<head, consumer, popped, received>>

increment(i) == (i + 1) % Capacity

Init ==
  /\ head = 0 /\ tail = 0
  /\ array = [i \in 0..Size |-> NoEvent]   \* Event() is EVENT_IDLE
  /\ producer = "idle" /\ item = NoEvent
  /\ consumer = "idle" /\ popped = NoEvent /\ received = NoEvent

-----------------------------------------------------------------------------

(* Queue::send: a full queue drops the event; otherwise push is called and  *)
(* its result ignored.                                                      *)
Send(e) ==
  /\ producer = "idle"
  /\ increment(tail) # head
  /\ item' = e
  /\ producer' = "push"
  /\ UNCHANGED <<tail, array, consumerVars>>

(* QueueAtomic::push looks again whether the queue is full ... *)
PushCheck ==
  /\ producer = "push"
  /\ producer' = IF increment(tail) # head THEN "write" ELSE "idle"
  /\ UNCHANGED <<tail, array, item, consumerVars>>

(* ... fills the element at the tail ... *)
PushWrite ==
  /\ producer = "write"
  /\ array' = [array EXCEPT ![tail] = item]
  /\ producer' = "publish"
  /\ UNCHANGED <<tail, item, consumerVars>>

(* ... and makes it visible. *)
PushPublish ==
  /\ producer = "publish"
  /\ tail' = increment(tail)
  /\ producer' = "idle"
  /\ UNCHANGED <<array, item, consumerVars>>

(* Mutant: the element becomes visible before it is filled. *)
Push_PublishFirst ==
  \/ PushCheck
  \/ /\ producer = "write"
     /\ tail' = increment(tail)
     /\ producer' = "publish"
     /\ UNCHANGED <<array, item, consumerVars>>
  \/ /\ producer = "publish"
     /\ array' = [array EXCEPT ![(tail + Size) % Capacity] = item]
     /\ producer' = "idle"
     /\ UNCHANGED <<tail, item, consumerVars>>

Push == PushCheck \/ PushWrite \/ PushPublish

-----------------------------------------------------------------------------
(* Espfc::updateOther: an empty queue is left alone.                        *)
Poll ==
  /\ consumer = "idle"
  /\ head # tail
  /\ consumer' = "pop"
  /\ UNCHANGED <<head, popped, received, producerVars>>

(* QueueAtomic::pop looks again whether the queue is empty; if it is,       *)
(* Queue::receive returns a default event.                                  *)
PopCheck ==
  /\ consumer = "pop"
  /\ IF head # tail
     THEN consumer' = "read" /\ UNCHANGED received
     ELSE consumer' = "idle" /\ received' = NoEvent
  /\ UNCHANGED <<head, popped, producerVars>>

PopRead ==
  /\ consumer = "read"
  /\ popped' = array[head]
  /\ consumer' = "release"
  /\ UNCHANGED <<head, received, producerVars>>

PopRelease ==
  /\ consumer = "release"
  /\ head' = increment(head)
  /\ received' = popped
  /\ consumer' = "idle"
  /\ UNCHANGED <<popped, producerVars>>

(* Mutant: the element is released before it is read. *)
Pop_ReleaseFirst ==
  \/ PopCheck
  \/ /\ consumer = "read"
     /\ head' = increment(head)
     /\ consumer' = "release"
     /\ UNCHANGED <<popped, received, producerVars>>
  \/ /\ consumer = "release"
     /\ popped' = array[(head + Size) % Capacity]
     /\ received' = popped'
     /\ consumer' = "idle"
     /\ UNCHANGED <<head, producerVars>>

(* Mutant: the index is not released. *)
Pop_KeepsHead ==
  \/ PopCheck
  \/ PopRead
  \/ /\ consumer = "release"
     /\ received' = popped
     /\ consumer' = "idle"
     /\ UNCHANGED <<head, popped, producerVars>>

Pop == PopCheck \/ PopRead \/ PopRelease

Producer == (\E e \in Events : Send(e)) \/ Push
Consumer == Poll \/ Pop
Next == Producer \/ Consumer

(* pidTask and loop1 (main.cpp) call updateOther for ever; a push that has  *)
(* begun is finished.  Nothing obliges the sensors to send.                 *)
Spec == Init /\ [][Next]_queueVars
FairSpec == Spec /\ WF_queueVars(Consumer) /\ WF_queueVars(Push)

-----------------------------------------------------------------------------
TypeOK ==
  /\ head \in 0..Size /\ tail \in 0..Size
  /\ array \in [0..Size -> Events \union {NoEvent}]
  /\ producer \in {"idle", "push", "write", "publish"}
  /\ item \in Events \union {NoEvent} /\ (producer # "idle" => item \in Events)
  /\ consumer \in {"idle", "pop", "read", "release"}
  /\ popped \in Events \union {NoEvent} /\ received \in Events \union {NoEvent}

(* The elements between head and tail, oldest first. *)
Count == IF head <= tail THEN tail - head ELSE tail + Capacity - head
Slot(i) == IF head + i < Capacity THEN head + i ELSE head + i - Capacity
Contents == [i \in 1..Count |-> array[Slot(i - 1)]]

(* No element is read on one core while it is written on the other. *)
NoSlotRace ==
  ~(producer \in {"write", "publish"} /\ consumer \in {"read", "release"} /\ head = tail)

(* What a core has found out about the queue stays true until it acts on    *)
(* it, whatever the other core does meanwhile: an event that Queue::send    *)
(* did not drop is pushed (push's result is ignored), and a receive that    *)
(* follows a poll returns a real event.                                     *)
ChecksHold ==
  /\ producer \in {"push", "write", "publish"} => increment(tail) # head
  /\ consumer \in {"pop", "read", "release"} => head # tail

(* What pop has copied is still the oldest element when it is released. *)
PoppedIsOldest == consumer = "release" => popped = array[head]
PublishedIsItem == producer = "publish" => array[tail] = item
FilledSlots == \A i \in 0..Size : i < Count => array[Slot(i)] \in Events

QueueInv == TypeOK /\ NoSlotRace /\ ChecksHold /\ PoppedIsOldest /\ PublishedIsItem
              /\ FilledSlots

(* The two cores implement the abstract channel: an event enters it when    *)
(* its element is published and leaves when it is released, in order, none  *)
(* twice, none made up.                                                     *)
Channel == INSTANCE EventChannel WITH chan <- Contents
ImplementsChannel == Channel!ChannelSpec

(* An event in the queue is received in the end. *)
EventsArrive ==
  \A e \in Events : (\E i \in 1..Count : Contents[i] = e) ~> (received = e)
=============================================================================
