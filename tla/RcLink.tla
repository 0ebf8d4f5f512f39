------------------------------- MODULE RcLink -------------------------------
(***************************************************************************)
(* The ESP-NOW radio link: crafts that beacon until a transmitter answers, *)
(* and transmitters that scan the channels for a beacon.  The radio loses  *)
(* what it will; what is heard is heard at once, by those that listen on   *)
(* the channel.  Both ends may restart.                                    *)
(***************************************************************************)
EXTENDS Integers, Sequences, FiniteSetsExt

CONSTANTS Crafts, Handsets,   \* receivers and transmitters, by their address
          Parties,            \* sets of them that meet
          Nobody,
          LastChannel,        \* WIFI_CHANNEL_MAX
          CraftChannel,       \* the channel of the access point a craft opens
          FirstChannel,       \* WIFI_CHANNEL_DEFAULT
          QueueMost,          \* messages a transmitter gets between two updates
          MaxRestarts

ASSUME RcLinkAssumption ==
    /\ LastChannel \in Nat /\ CraftChannel \in 1..LastChannel /\ FirstChannel \in 1..LastChannel
    /\ Nobody \notin Crafts \cup Handsets /\ QueueMost \in Nat \ {0} /\ MaxRestarts \in Nat

VARIABLES rx,        \* each craft's Receiver
          tx,        \* each Transmitter
          masters,   \* history: whose channels a craft has used since it started
          restarts   \* left

rcVars == <<rx, tx, masters, restarts>>

RxStart == [state |-> "BEACON", peer |-> Nobody, channels |-> Nobody, newData |-> FALSE]
TxStart == [state |-> "DISCOVERING", peer |-> Nobody, channel |-> FirstChannel, queue |-> <<>>, ready |-> FALSE]

RcInit ==
    /\ \E party \in Parties :
          /\ rx = [c \in Crafts \cap party |-> RxStart] /\ tx = [h \in Handsets \cap party |-> TxStart]
          /\ masters = [c \in Crafts \cap party |-> {}]
    /\ restarts = MaxRestarts

-----------------------------------------------------------------------------
(* Mutant: whoever answers becomes the peer, in every state. *)
RxHears_AnyState(r, from, type) ==
    IF type = "PAIR_RES" THEN [r EXCEPT !.peer = from, !.state = "PAIR"]
    ELSE IF type = "RC_DATA" /\ r.state = "RECEIVING" /\ r.peer = from
    THEN [r EXCEPT !.channels = from, !.newData = TRUE]
    ELSE r

(* Receiver::_handleRx *)
RxHears(r, from, type) ==
    IF type = "PAIR_RES" /\ r.state = "BEACON" THEN [r EXCEPT !.peer = from, !.state = "PAIR"]
    ELSE IF type = "RC_DATA" /\ r.state = "RECEIVING" /\ r.peer = from
    THEN [r EXCEPT !.channels = from, !.newData = TRUE]
    ELSE r

(* Transmitter::_handleRx *)
TxHears(t, from, type) ==
    IF t.state = "TRANSMITTING" /\ t.peer # from THEN t
    ELSE [t EXCEPT !.queue = Append(@, [type |-> type, from |-> from, channel |-> CraftChannel])]

-----------------------------------------------------------------------------
(* InputEspNow::update: the receiver's update, then the channels are taken. *)
Takes(c, r) ==
    /\ rx' = [rx EXCEPT ![c] = [r EXCEPT !.newData = FALSE]]
    /\ masters' = IF r.newData THEN [masters EXCEPT ![c] = @ \cup {r.channels}] ELSE masters

InRange == {h \in DOMAIN tx : tx[h].channel = CraftChannel /\ Len(tx[h].queue) < QueueMost}
HeardBy(hs, c, type) ==
    tx' = [h \in DOMAIN tx |-> IF h \in hs THEN TxHears(tx[h], c, type) ELSE tx[h]]

(* _handleBeacon and _handleAlive; a beacon goes to all, or none is due *)
Beacon(c, hs) ==
    /\ rx[c].state = "BEACON"
    /\ HeardBy(hs, c, "PAIR_REQ") /\ Takes(c, rx[c])
    /\ UNCHANGED restarts

Pair(c) ==
    /\ rx[c].state = "PAIR"
    /\ Takes(c, [rx[c] EXCEPT !.state = "RECEIVING"])
    /\ UNCHANGED <<tx, restarts>>

Receive(c, hs) ==
    /\ rx[c].state = "RECEIVING"
    /\ HeardBy(hs \cap {rx[c].peer}, c, "FC_ALIVE") /\ Takes(c, rx[c])
    /\ UNCHANGED restarts

-----------------------------------------------------------------------------
(* Transmitter::update.  heard says of each answer whether it arrives.
   Mutant: the scan ends at the last channel. *)
Scan_Ends(t) == [t EXCEPT !.channel = IF @ = LastChannel THEN @ ELSE @ + 1]

Scan(t) ==
    [t EXCEPT !.channel = IF @ = LastChannel THEN 1 ELSE @ + 1]

(* _handleReceived: the last craft that asked is the peer, and all that asked
   are answered; a second answer of the same update tells a craft nothing. *)
Requests(queue) == {i \in DOMAIN queue : queue[i].type = "PAIR_REQ" /\ queue[i].channel \in 1..LastChannel}

Answer(t) ==
    IF Requests(t.queue) = {} THEN t
    ELSE LET m == t.queue[Max(Requests(t.queue))]
         IN [t EXCEPT !.channel = m.channel, !.state = "TRANSMITTING", !.peer = m.from]

Received(h, t, crafts, heard) ==
    LET answered == {t.queue[i].from : i \in Requests(t.queue)}
    IN /\ tx' = [tx EXCEPT ![h] = [Answer(t) EXCEPT !.queue = <<>>]]
       /\ rx' = [c \in DOMAIN crafts |->
                   IF c \in answered \cap heard THEN RxHears(crafts[c], h, "PAIR_RES") ELSE crafts[c]]

(* _handleDiscovery; the channel is changed or the time for it has not come *)
Discover(h, hop, heard) ==
    /\ tx[h].state = "DISCOVERING"
    /\ Received(h, IF hop THEN Scan(tx[h]) ELSE tx[h], rx, heard)
    /\ UNCHANGED <<masters, restarts>>

(* _handleTransmit *)
Transmit(h, heard) ==
    /\ tx[h].state = "TRANSMITTING"
    /\ Received(h, [tx[h] EXCEPT !.ready = FALSE],
                IF tx[h].ready /\ tx[h].peer \in heard /\ tx[h].channel = CraftChannel
                THEN [rx EXCEPT ![tx[h].peer] = RxHears(@, h, "RC_DATA")] ELSE rx,
                heard)
    /\ UNCHANGED <<masters, restarts>>

(* the sticks were read *)
Commit(h) ==
    /\ ~tx[h].ready /\ tx' = [tx EXCEPT ![h].ready = TRUE]
    /\ UNCHANGED <<rx, masters, restarts>>

CraftRestarts(c) ==
    /\ restarts > 0 /\ restarts' = restarts - 1
    /\ rx' = [rx EXCEPT ![c] = RxStart] /\ masters' = [masters EXCEPT ![c] = {}]
    /\ UNCHANGED tx

HandsetRestarts(h) ==
    /\ restarts > 0 /\ restarts' = restarts - 1
    /\ tx' = [tx EXCEPT ![h] = TxStart]
    /\ UNCHANGED <<rx, masters>>

RcNext ==
    \/ \E c \in DOMAIN rx : Pair(c) \/ CraftRestarts(c)
    \/ \E c \in DOMAIN rx, hs \in SUBSET InRange : Beacon(c, hs) \/ Receive(c, hs)
    \/ \E h \in DOMAIN tx, heard \in SUBSET DOMAIN rx :
          Discover(h, TRUE, heard) \/ Discover(h, FALSE, heard) \/ Transmit(h, heard)
    \/ \E h \in DOMAIN tx : Commit(h) \/ HandsetRestarts(h)

RcSpec == RcInit /\ [][RcNext]_rcVars

-----------------------------------------------------------------------------
(* The loops run, and what is sent again and again is heard at last, if it
   makes a difference. *)
RcFairness ==
    /\ \A c \in Crafts : WF_rcVars(c \in DOMAIN rx /\ (Pair(c) \/ Receive(c, {})))
    /\ \A h \in Handsets : WF_rcVars(h \in DOMAIN tx /\ (Discover(h, TRUE, Crafts) \/ Commit(h)))
    /\ SF_rcVars(\E c \in DOMAIN rx, h \in InRange : Beacon(c, {h}))
    /\ SF_rcVars(\E h \in DOMAIN tx : Transmit(h, Crafts) /\ rx' # rx)

(* Between two starts a craft obeys one transmitter. *)
OneMaster ==
    \A c \in DOMAIN rx : \A h1, h2 \in (masters[c] \cup {rx[c].peer}) \ {Nobody} : h1 = h2

(* The inductive invariant: what a craft knows between its own steps.  A
   craft that beacons has obeyed nobody; one that does not has a peer, and
   its channels, taken or still to be taken, are all of that peer.         *)
Bound(r, obeyed) ==
    /\ r \in [state : {"BEACON", "PAIR", "RECEIVING"}, peer : Handsets \cup {Nobody},
              channels : Handsets \cup {Nobody}, newData : BOOLEAN]
    /\ r.state = "BEACON" => r.peer = Nobody /\ obeyed = {} /\ ~r.newData
    /\ r.newData => r.channels = r.peer
    /\ obeyed \subseteq {r.peer}

CraftsBound ==
    /\ DOMAIN masters = DOMAIN rx /\ DOMAIN tx \subseteq Handsets
    /\ rx = [c \in DOMAIN rx |-> rx[c]] /\ masters = [c \in DOMAIN masters |-> masters[c]]
    /\ \A c \in DOMAIN rx : Bound(rx[c], masters[c])

(* Abandoned: the craft's transmitter has restarted, or went to another craft
   that beaconed at the same time.  The craft does not beacon again.       *)
Abandoned(c) == \E h \in DOMAIN tx : rx[c].peer = h /\ tx[h].peer # c

(* Unless it is abandoned, a craft gets channels again and again, after a
   restart of its own too; and it is not left alone with its beacon while
   a transmitter has none.                                                 *)
LinkComesUp ==
    /\ \A c \in Crafts : []<>(c \in DOMAIN rx /\ rx[c].state = "RECEIVING" => rx[c].newData \/ Abandoned(c))
    /\ []<>((\E h \in DOMAIN tx : tx[h].state = "DISCOVERING") => \A c \in DOMAIN rx : rx[c].state = "RECEIVING")
=============================================================================
