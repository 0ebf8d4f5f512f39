---------------------------- MODULE EventChannel ----------------------------
(***************************************************************************)
(* What the firmware wants of Espfc::Target::Queue (Target/Queue.h): a     *)
(* bounded FIFO of events from the core that reads the sensors to the one  *)
(* that flies the craft.                                                   *)
(***************************************************************************)
EXTENDS Naturals, Sequences

CONSTANTS
  Events,   \* the events one core sends to the other
  NoEvent,  \* EVENT_IDLE, what a receiver that got nothing holds
  Size      \* how many events the channel holds

VARIABLES
  chan,     \* the events sent and not yet received, oldest first
  received  \* the event received last

channelVars == <<chan, received>>

ChannelInit == chan = <<>> /\ received = NoEvent

Send(e) ==
  /\ Len(chan) < Size
  /\ chan' = Append(chan, e)
  /\ UNCHANGED received

Receive ==
  /\ chan # <<>>
  /\ received' = Head(chan)
  /\ chan' = Tail(chan)

ChannelNext == (\E e \in Events : Send(e)) \/ Receive
ChannelSpec == ChannelInit /\ [][ChannelNext]_channelVars
=============================================================================
