---------------------------- MODULE DeviceProofs ----------------------------
(***************************************************************************)
(* Proofs about the radio link, for any number of crafts and handsets,     *)
(* queues of any length and any number of restarts; and about the readings *)
(* of barometer, telemetry and button, for all delays and clocks.          *)
(***************************************************************************)
EXTENDS RcLink, Peripherals, TLAPS

(* What a craft hears leaves it bound to one transmitter: it takes a peer   *)
(* only while it has none, and channels only from its peer.                 *)
LEMMA HearingKeepsBound ==
  ASSUME NEW r, NEW obeyed, Bound(r, obeyed), NEW h \in Handsets, NEW type
  PROVE  Bound(RxHears(r, h, type), obeyed)
<1>1. r \in [state : {"BEACON", "PAIR", "RECEIVING"}, peer : Handsets \cup {Nobody},
             channels : Handsets \cup {Nobody}, newData : BOOLEAN]
  BY DEF Bound
<1>2. CASE type = "PAIR_RES" /\ r.state = "BEACON"
  <2>1. RxHears(r, h, type) = [r EXCEPT !.peer = h, !.state = "PAIR"]
    BY <1>2 DEF RxHears
  <2>2. obeyed = {} /\ ~r.newData
    BY <1>2 DEF Bound
  <2> QED BY <1>1, <2>1, <2>2 DEF Bound
<1>3. CASE ~(type = "PAIR_RES" /\ r.state = "BEACON") /\ type = "RC_DATA"
           /\ r.state = "RECEIVING" /\ r.peer = h
  <2>1. RxHears(r, h, type) = [r EXCEPT !.channels = h, !.newData = TRUE]
    BY <1>3 DEF RxHears
  <2> QED BY <1>1, <1>3, <2>1 DEF Bound
<1>4. CASE ~(type = "PAIR_RES" /\ r.state = "BEACON")
           /\ ~(type = "RC_DATA" /\ r.state = "RECEIVING" /\ r.peer = h)
  BY <1>4 DEF RxHears
<1> QED BY <1>2, <1>3, <1>4

(* A craft that starts is bound to nobody. *)
LEMMA StartIsBound == Bound(RxStart, {})
BY DEF Bound, RxStart

(* The channels a craft takes are those of its peer. *)
LEMMA TakingKeepsBound ==
  ASSUME CraftsBound, NEW c \in DOMAIN rx, NEW r, Bound(r, masters[c]), Takes(c, r)
  PROVE  /\ DOMAIN rx' = DOMAIN rx /\ DOMAIN masters' = DOMAIN rx
         /\ rx' = [x \in DOMAIN rx' |-> rx'[x]] /\ masters' = [x \in DOMAIN masters' |-> masters'[x]]
         /\ \A x \in DOMAIN rx' : Bound(rx'[x], masters'[x])
<1> DEFINE taken == [r EXCEPT !.newData = FALSE]
           own == IF r.newData THEN masters[c] \cup {r.channels} ELSE masters[c]
<1>1. rx' = [rx EXCEPT ![c] = taken]
  BY DEF Takes
<1>2. DOMAIN masters = DOMAIN rx /\ \A x \in DOMAIN rx : Bound(rx[x], masters[x])
  BY DEF CraftsBound
<1>3. masters' = [masters EXCEPT ![c] = own]
  <2>1. CASE r.newData
    BY <2>1 DEF Takes
  <2>2. CASE ~r.newData
    BY <1>2, <2>2 DEF Takes, CraftsBound
  <2> QED BY <2>1, <2>2
<1>4. Bound(taken, own)
  <2>1. r \in [state : {"BEACON", "PAIR", "RECEIVING"}, peer : Handsets \cup {Nobody},
               channels : Handsets \cup {Nobody}, newData : BOOLEAN]
        /\ (r.state = "BEACON" => r.peer = Nobody /\ masters[c] = {} /\ ~r.newData)
        /\ (r.newData => r.channels = r.peer) /\ masters[c] \subseteq {r.peer}
    BY DEF Bound
  <2>2. own \subseteq {r.peer} /\ (r.state = "BEACON" => own = {})
    BY <2>1
  <2>3. taken \in [state : {"BEACON", "PAIR", "RECEIVING"}, peer : Handsets \cup {Nobody},
                   channels : Handsets \cup {Nobody}, newData : BOOLEAN]
        /\ taken.state = r.state /\ taken.peer = r.peer /\ taken.newData = FALSE
    BY <2>1
  <2> HIDE DEF taken, own
  <2> QED BY <2>1, <2>2, <2>3 DEF Bound
<1> HIDE DEF taken, own
<1> QED BY <1>1, <1>2, <1>3, <1>4

(* A transmitter that answers, and sends channels, leaves all crafts bound. *)
LEMMA ReceivingKeepsBound ==
  ASSUME CraftsBound, NEW h \in DOMAIN tx, NEW t, NEW heard, NEW crafts,
         DOMAIN crafts = DOMAIN rx, \A c \in DOMAIN rx : Bound(crafts[c], masters[c]),
         Received(h, t, crafts, heard), masters' = masters
  PROVE  CraftsBound'
<1>1. h \in Handsets
  BY DEF CraftsBound
<1>2. PICK answered : rx' = [c \in DOMAIN crafts |->
                               IF c \in answered THEN RxHears(crafts[c], h, "PAIR_RES") ELSE crafts[c]]
  BY DEF Received
<1>3. \A c \in DOMAIN rx : Bound(RxHears(crafts[c], h, "PAIR_RES"), masters[c])
  BY <1>1, HearingKeepsBound
<1>4. \A c \in DOMAIN rx' : Bound(rx'[c], masters'[c])
  BY <1>2, <1>3
<1>5. DOMAIN tx' = DOMAIN tx
  BY DEF Received
<1> QED BY <1>2, <1>4, <1>5 DEF CraftsBound

(* A craft is bound to one transmitter at a time: induction step. *)
LEMMA RcStep ==
  ASSUME CraftsBound, [RcNext]_rcVars
  PROVE  CraftsBound'
<1>1. ASSUME NEW c \in DOMAIN rx, Pair(c) PROVE CraftsBound'
  <2> DEFINE r == [rx[c] EXCEPT !.state = "RECEIVING"]
  <2>1. Bound(rx[c], masters[c])
    BY DEF CraftsBound
  <2>2. Bound(r, masters[c])
    BY <1>1, <2>1 DEF Pair, Bound
  <2>3. Takes(c, r) /\ tx' = tx
    BY <1>1 DEF Pair
  <2> HIDE DEF r
  <2> QED BY <2>2, <2>3, TakingKeepsBound DEF CraftsBound
<1>2. ASSUME NEW c \in DOMAIN rx, NEW hs, Beacon(c, hs) \/ Receive(c, hs) PROVE CraftsBound'
  <2>1. Takes(c, rx[c]) /\ DOMAIN tx' = DOMAIN tx
    BY <1>2 DEF Beacon, Receive, HeardBy
  <2>2. Bound(rx[c], masters[c])
    BY DEF CraftsBound
  <2> QED BY <2>1, <2>2, TakingKeepsBound DEF CraftsBound
<1>3. ASSUME NEW c \in DOMAIN rx, CraftRestarts(c) PROVE CraftsBound'
  <2>1. rx' = [rx EXCEPT ![c] = RxStart] /\ masters' = [masters EXCEPT ![c] = {}] /\ tx' = tx
    BY <1>3 DEF CraftRestarts
  <2> QED BY <2>1, StartIsBound DEF CraftsBound
<1>4. ASSUME NEW h \in DOMAIN tx, NEW heard, NEW hop \in BOOLEAN, Discover(h, hop, heard)
      PROVE  CraftsBound'
  <2>1. PICK t : Received(h, t, rx, heard)
    BY <1>4 DEF Discover
  <2>2. masters' = masters
    BY <1>4 DEF Discover
  <2> QED BY <2>1, <2>2, ReceivingKeepsBound DEF CraftsBound
<1>5. ASSUME NEW h \in DOMAIN tx, NEW heard, Transmit(h, heard) PROVE CraftsBound'
  <2>1. PICK t, crafts :
          /\ Received(h, t, crafts, heard)
          /\ crafts = rx \/ \E c : crafts = [rx EXCEPT ![c] = RxHears(@, h, "RC_DATA")]
    BY <1>5 DEF Transmit
  <2>2. h \in Handsets
    BY DEF CraftsBound
  <2>3. DOMAIN crafts = DOMAIN rx /\ \A c \in DOMAIN rx : Bound(crafts[c], masters[c])
    <3>1. \A c \in DOMAIN rx : Bound(rx[c], masters[c]) /\ Bound(RxHears(rx[c], h, "RC_DATA"), masters[c])
      BY <2>2, HearingKeepsBound DEF CraftsBound
    <3> QED BY <2>1, <3>1
  <2>4. masters' = masters
    BY <1>5 DEF Transmit
  <2> QED BY <2>1, <2>3, <2>4, ReceivingKeepsBound
<1>6. ASSUME NEW h \in DOMAIN tx, Commit(h) \/ HandsetRestarts(h) PROVE CraftsBound'
  <2>1. DOMAIN tx' = DOMAIN tx /\ rx' = rx /\ masters' = masters
    BY <1>6 DEF Commit, HandsetRestarts
  <2> QED BY <2>1 DEF CraftsBound
<1>7. CASE UNCHANGED rcVars
  BY <1>7 DEF rcVars, CraftsBound
<1> QED BY <1>1, <1>2, <1>3, <1>4, <1>5, <1>6, <1>7 DEF RcNext

(* Between two of its starts a craft takes the channels of one transmitter  *)
(* only: it stops beaconing when one answers, and hears no answer after     *)
(* that, whoever restarts and whatever the radio loses.                     *)
THEOREM OneMasterAlways == RcSpec => []OneMaster
<1>1. RcInit => CraftsBound
  BY StartIsBound DEF RcInit, CraftsBound
<1>2. CraftsBound /\ [RcNext]_rcVars => CraftsBound'
  BY RcStep
<1>3. CraftsBound => OneMaster
  <2> SUFFICES ASSUME CraftsBound, NEW c \in DOMAIN rx,
                      NEW h1 \in masters[c] \cup {rx[c].peer},
                      NEW h2 \in masters[c] \cup {rx[c].peer}
               PROVE  h1 = h2
    BY DEF OneMaster
  <2>1. masters[c] \subseteq {rx[c].peer}
    BY DEF CraftsBound, Bound
  <2> QED BY <2>1
<1> QED BY <1>1, <1>2, <1>3, PTL DEF RcSpec

-----------------------------------------------------------------------------
(* A sum that is below two turns of the clock wraps at most once. *)
LEMMA WrapsOnce ==
  ASSUME NEW w \in Nat \ {0}, NEW a \in 0..(w - 1), NEW b \in 0..w
  PROVE  (a + b) % w = IF a + b < w THEN a + b ELSE a + b - w
OBVIOUS

(* What the passing of time changes of a device. *)
LEMMA PassesFields ==
  ASSUME NEW v, BaroTypeOK(v) \/ TelemetryTypeOK(v), NEW t
  PROVE  /\ Passes(v, t).now = (v.now + t) % Wrap /\ Passes(v, t).wait = v.wait
         /\ Passes(v, t).late = Capped(v.late + t, MaxLag + 1) /\ Passes(v, t).taken = "nothing"
BY DEF Passes, BaroTypeOK, TelemetryTypeOK

(* As time passes, a device goes on waiting for what it waited for; if it    *)
(* takes the wait for over, then it is, or its end lies beyond the end of    *)
(* the clock, which is no farther than the wait is long.                     *)
LEMMA TimePasses ==
  ASSUME NEW v, NEW waits \in 1..Wrap, Timed(v, waits), NEW t \in 1..MaxLag, NEW u,
         u.now = (v.now + t) % Wrap, u.wait = v.wait, u.late = Capped(v.late + t, MaxLag + 1)
  PROVE  /\ u.now \in 0..Wrap - 1 /\ u.wait \in 0..Wrap - 1 /\ u.late \in Int
         /\ u.wait >= u.now => Timed(u, waits)
         /\ u.wait <= u.now /\ u.late < 0 => Wrap - u.now <= waits
<1>1. Wrap \in Nat \ {0} /\ MaxLag \in 1..Wrap
  BY PeripheralsAssumption
<1>2. v.now \in 0..Wrap - 1 /\ v.wait \in 0..Wrap - 1 /\ v.late \in Int
  BY DEF Timed
<1>3. u.now = IF v.now + t < Wrap THEN v.now + t ELSE v.now + t - Wrap
  <2>1. v.now \in 0..(Wrap - 1) /\ t \in 0..Wrap
    BY <1>1, <1>2
  <2>2. (v.now + t) % Wrap = IF v.now + t < Wrap THEN v.now + t ELSE v.now + t - Wrap
    BY <1>1, <2>1, WrapsOnce
  <2> QED BY <2>2
<1>4. u.late = IF v.late + t > MaxLag + 1 THEN MaxLag + 1 ELSE v.late + t
  BY DEF Capped
<1>5. u.now \in 0..Wrap - 1 /\ u.wait \in 0..Wrap - 1 /\ u.late \in Int
  BY <1>1, <1>2, <1>3, <1>4
<1>6. CASE StillToCome(v)
  <2>1. v.late = v.now - v.wait /\ v.now <= v.wait
    BY <1>6 DEF StillToCome
  <2>2. CASE v.now + t < Wrap
    BY <1>1, <1>2, <1>3, <1>4, <1>5, <2>1, <2>2 DEF Timed, StillToCome
  <2>3. CASE v.now + t >= Wrap
    BY <1>1, <1>2, <1>3, <1>4, <1>5, <2>1, <2>3 DEF Timed, SteppedOver
  <2> QED BY <1>1, <1>2, <2>2, <2>3
<1>7. CASE BeyondTheEnd(v, waits)
  <2>1. v.late = v.now - v.wait - Wrap /\ v.wait <= v.now /\ v.late = -waits
    BY <1>7 DEF BeyondTheEnd
  <2>2. CASE v.now + t < Wrap
    BY <1>1, <1>2, <1>3, <1>4, <1>5, <2>1, <2>2
  <2>3. CASE v.now + t >= Wrap
    BY <1>1, <1>2, <1>3, <1>4, <1>5, <2>1, <2>3 DEF Timed, StillToCome
  <2> QED BY <1>1, <1>2, <2>2, <2>3
<1>8. CASE SteppedOver(v)
  BY <1>1, <1>2, <1>4, <1>5, <1>8 DEF Timed, SteppedOver
<1> QED BY <1>5, <1>6, <1>7, <1>8 DEF Timed

(* A deadline sets two fields. *)
LEMMA DeadlineForm ==
  ASSUME NEW v, v.now \in Int, NEW delay \in 1..Wrap
  PROVE  \E w \in Int, l \in Int : Deadline(v, delay) = [v EXCEPT !.wait = w, !.late = l]
<1> DEFINE w == (v.now + delay) % Wrap
           l == -delay
<1>1. w \in Int /\ l \in Int
  BY PeripheralsAssumption
<1>2. Deadline(v, delay) = [v EXCEPT !.wait = w, !.late = l]
  BY DEF Deadline
<1> HIDE DEF w, l
<1> QED BY <1>1, <1>2

(* A new deadline is still to come, or beyond the end of the clock. *)
LEMMA DeadlineTimed ==
  ASSUME NEW v, BaroTypeOK(v) \/ TelemetryTypeOK(v), v.now \in 0..Wrap - 1, NEW delay \in 1..Wrap
  PROVE  /\ Timed(Deadline(v, delay), delay)
         /\ Deadline(v, delay).late = -delay /\ Deadline(v, delay).now = v.now
<1> DEFINE u == Deadline(v, delay)
<1>1. Wrap \in Nat \ {0}
  BY PeripheralsAssumption
<1>2. u.wait = (v.now + delay) % Wrap /\ u.late = -delay /\ u.now = v.now
  BY DEF Deadline, BaroTypeOK, TelemetryTypeOK
<1> HIDE DEF u
<1>3. u.wait = IF v.now + delay < Wrap THEN v.now + delay ELSE v.now + delay - Wrap
  <2>1. v.now \in 0..(Wrap - 1) /\ delay \in 0..Wrap
    BY <1>1
  <2>2. (v.now + delay) % Wrap = IF v.now + delay < Wrap THEN v.now + delay ELSE v.now + delay - Wrap
    BY <1>1, <2>1, WrapsOnce
  <2> QED BY <1>2, <2>2
<1>4. u.now \in 0..Wrap - 1 /\ u.wait \in 0..Wrap - 1 /\ u.late \in Int
  BY <1>1, <1>2, <1>3
<1>5. StillToCome(u) \/ BeyondTheEnd(u, delay)
  BY <1>1, <1>2, <1>3 DEF StillToCome, BeyondTheEnd
<1> QED BY <1>2, <1>4, <1>5 DEF Timed, u

-----------------------------------------------------------------------------
(* A conversion that begins is of its own length. *)
Begun(v, mode, delay, state) == [Converts(v, mode, delay) EXCEPT !.state = state]

(* A conversion that begins has its own deadline. *)
LEMMA ConversionBegins ==
  ASSUME NEW v, BaroTypeOK(v), v.now \in 0..Wrap - 1, NEW mode \in {"TEMP", "PRESS"},
         NEW delay \in 1..Wrap, NEW state \in {"TEMP_GET", "PRESS_GET"}
  PROVE  LET u == Begun(v, mode, delay, state)
         IN  /\ BaroTypeOK(u) /\ Timed(u, delay) /\ u.late = -delay /\ u.conv = delay
             /\ u.mode = mode /\ u.state = state /\ u.taken = v.taken /\ u.now = v.now
<1> DEFINE begun == [v EXCEPT !.mode = mode, !.conv = delay]
           c == Deadline(begun, delay)
           u == [c EXCEPT !.state = state]
<1>1. BaroTypeOK(begun) /\ begun.now = v.now /\ begun.conv = delay /\ begun.mode = mode
      /\ begun.taken = v.taken
  <2>1. delay \in Int
    BY PeripheralsAssumption
  <2> QED BY <2>1 DEF BaroTypeOK
<1> HIDE DEF begun
<1>2. Timed(c, delay) /\ c.late = -delay /\ c.now = v.now
  BY <1>1, DeadlineTimed
<1>3. BaroTypeOK(c) /\ c.mode = mode /\ c.conv = delay /\ c.taken = v.taken
  <2>1. begun.now \in Int
    BY <1>1 DEF BaroTypeOK
  <2>2. PICK w \in Int, l \in Int : c = [begun EXCEPT !.wait = w, !.late = l]
    BY <2>1, DeadlineForm
  <2> HIDE DEF c
  <2> QED BY <1>1, <2>2 DEF BaroTypeOK
<1> HIDE DEF c
<1>4. BaroTypeOK(u) /\ u.mode = mode /\ u.state = state /\ u.now = c.now /\ u.wait = c.wait
      /\ u.conv = c.conv /\ u.late = c.late /\ u.taken = c.taken
  BY <1>3 DEF BaroTypeOK
<1>5. Timed(u, delay)
  BY <1>2, <1>4 DEF Timed, StillToCome, BeyondTheEnd, SteppedOver
<1>6. Begun(v, mode, delay, state) = u
  BY DEF Begun, Converts, c, begun
<1> HIDE DEF u
<1> QED BY <1>2, <1>3, <1>4, <1>5, <1>6

(* The barometer by its state. *)
LEMMA ReadBaroCases ==
  ASSUME NEW v, v.now \in Int, v.wait \in Int
  PROVE  /\ v.wait > v.now => readBaro(v) = v
         /\ v.wait <= v.now =>
              /\ v.state = "INIT" =>
                   readBaro(v) = Begun(v, "TEMP", TempDelay, "TEMP_GET")
              /\ v.state = "TEMP_GET" =>
                   readBaro(v) = Begun(Reads(v, "TEMP"), "PRESS", PressDelay, "PRESS_GET")
              /\ v.state = "PRESS_GET" =>
                   readBaro(v) = Begun(updateAltitude(Reads(v, "PRESS")), "TEMP", TempDelay, "TEMP_GET")
<1>1. v.wait > v.now => readBaro(v) = v
  BY DEF readBaro, Begun
<1>2. v.wait <= v.now /\ v.state = "INIT" =>
        readBaro(v) = Begun(v, "TEMP", TempDelay, "TEMP_GET")
  BY DEF readBaro, Begun
<1>3. v.wait <= v.now /\ v.state = "TEMP_GET" =>
        readBaro(v) = Begun(Reads(v, "TEMP"), "PRESS", PressDelay, "PRESS_GET")
  BY DEF readBaro, Begun
<1>4. v.wait <= v.now /\ v.state = "PRESS_GET" =>
        readBaro(v) = Begun(updateAltitude(Reads(v, "PRESS")), "TEMP", TempDelay, "TEMP_GET")
  BY DEF readBaro, Begun
<1> QED BY <1>1, <1>2, <1>3, <1>4

(* Time passes for the barometer, and for its conversion. *)
LEMMA BaroWaits ==
  ASSUME BaroInv, NEW t \in 1..MaxLag, NEW u, u = Converting(Passes(d, t), t)
  PROVE  /\ BaroTypeOK(u) /\ u.state = d.state /\ u.mode = d.mode /\ u.taken = "nothing"
         /\ u.now \in 0..Wrap - 1
         /\ d.state = "INIT" => u.wait <= u.now
         /\ d.state # "INIT" =>
              /\ u.conv = IF u.late < 0 THEN -u.late ELSE 0
              /\ u.wait >= u.now => Timed(u, Waits(d))
              /\ u.wait <= u.now /\ u.late < 0 => Wrap - u.now <= Waits(d)
<1> DEFINE p == Passes(d, t)
<1>1. Wrap \in Nat \ {0} /\ MaxLag \in 1..Wrap /\ TempDelay \in 1..Wrap /\ PressDelay \in 1..Wrap
  BY PeripheralsAssumption
<1>2. BaroTypeOK(d)
  BY DEF BaroInv
<1>3. BaroTypeOK(p) /\ p.state = d.state /\ p.mode = d.mode /\ p.conv = d.conv
  <2>1. (d.now + t) % Wrap \in Int /\ Capped(d.late + t, MaxLag + 1) \in Int
    BY <1>1, <1>2 DEF BaroTypeOK, Capped
  <2> QED BY <1>2, <2>1 DEF Passes, BaroTypeOK, Takings
<1>4. p.now = (d.now + t) % Wrap /\ p.wait = d.wait /\ p.taken = "nothing"
      /\ p.late = Capped(d.late + t, MaxLag + 1)
  BY <1>2, PassesFields
<1> HIDE DEF p
<1> DEFINE left == IF d.conv > t THEN d.conv - t ELSE 0
<1>5. left \in Int
  BY <1>1, <1>2 DEF BaroTypeOK
<1>6. u = [p EXCEPT !.conv = left]
  BY <1>3 DEF Converting, p
<1>7. BaroTypeOK(u) /\ u.state = d.state /\ u.mode = d.mode /\ u.taken = "nothing" /\ u.conv = left
      /\ u.now = p.now /\ u.wait = p.wait /\ u.late = p.late
  BY <1>3, <1>4, <1>5, <1>6 DEF BaroTypeOK
<1>8. d.now \in 0..Wrap - 1
  BY DEF BaroInv, Timed
<1>9. u.now \in 0..Wrap - 1
  BY <1>1, <1>4, <1>7, <1>8
<1>10. d.state = "INIT" => u.wait <= u.now
  BY <1>1, <1>4, <1>7, <1>9 DEF BaroInv
<1>11. ASSUME d.state # "INIT"
       PROVE  /\ u.conv = IF u.late < 0 THEN -u.late ELSE 0
              /\ u.wait >= u.now => Timed(u, Waits(d))
              /\ u.wait <= u.now /\ u.late < 0 => Wrap - u.now <= Waits(d)
  <2>1. Timed(d, Waits(d)) /\ d.conv = (IF d.late < 0 THEN -d.late ELSE 0) /\ d.late \in Int
    BY <1>11 DEF BaroInv, Timed
  <2>2. Waits(d) \in 1..Wrap
    BY <1>1 DEF Waits
  <2>3. u.now = (d.now + t) % Wrap /\ u.wait = d.wait /\ u.late = Capped(d.late + t, MaxLag + 1)
    BY <1>4, <1>7
  <2>4. u.conv = IF u.late < 0 THEN -u.late ELSE 0
    BY <1>1, <1>7, <2>1, <2>3 DEF Capped
  <2> QED BY <2>1, <2>2, <2>3, <2>4, TimePasses
<1> QED BY <1>7, <1>9, <1>10, <1>11

(* What is timed, and was not read too soon, is a timely reading. *)
LEMMA TimedIsTimely ==
  ASSUME NEW waits, Timed(d, waits), d.taken # "other",
         d.taken = "tooSoon" => Wrap - d.now <= Waited
  PROVE  ReadingsAreTimely
<1>1. Wrap \in Nat \ {0} /\ MaxLag \in 1..Wrap
  BY PeripheralsAssumption
<1>2. d.late <= 0 \/ d.wait >= Wrap - MaxLag
  BY <1>1 DEF Timed, StillToCome, BeyondTheEnd, SteppedOver
<1> QED BY <1>2 DEF ReadingsAreTimely

(* The same after a step. *)
LEMMA TimedIsTimelyNext ==
  ASSUME NEW waits, Timed(d', waits), d'.taken # "other",
         d'.taken = "tooSoon" => Wrap - d'.now <= Waited'
  PROVE  ReadingsAreTimely'
<1>1. Wrap \in Nat \ {0} /\ MaxLag \in 1..Wrap
  BY PeripheralsAssumption
<1>2. d'.late <= 0 \/ d'.wait >= Wrap - MaxLag
  BY <1>1 DEF Timed, StillToCome, BeyondTheEnd, SteppedOver
<1> QED BY <1>2 DEF ReadingsAreTimely

(* BaroSensor::update reads the quantity that was converted, and too soon    *)
(* only when the clock ends before the wait does.                            *)
LEMMA BaroKeeps ==
  ASSUME BaroInv, device = "BARO", device' = device, NEW t \in 1..MaxLag,
         d' = readBaro(Converting(Passes(d, t), t))
  PROVE  BaroInv'
<1> DEFINE u == Converting(Passes(d, t), t)
<1>1. Wrap \in Nat \ {0} /\ TempDelay \in 1..Wrap /\ PressDelay \in 1..Wrap
  BY PeripheralsAssumption
<1>2. /\ BaroTypeOK(u) /\ u.state = d.state /\ u.mode = d.mode /\ u.taken = "nothing"
      /\ u.now \in 0..Wrap - 1
      /\ d.state = "INIT" => u.wait <= u.now
      /\ d.state # "INIT" =>
           /\ u.conv = IF u.late < 0 THEN -u.late ELSE 0
           /\ u.wait >= u.now => Timed(u, Waits(d))
           /\ u.wait <= u.now /\ u.late < 0 => Wrap - u.now <= Waits(d)
  BY BaroWaits
<1>3. d' = readBaro(u)
  OBVIOUS
<1> HIDE DEF u
<1>4. u.now \in Int /\ u.wait \in Int /\ u.late \in Int /\ u.state \in {"INIT", "TEMP_GET", "PRESS_GET"}
  BY <1>2 DEF BaroTypeOK
<1>5. CASE u.wait > u.now
  <2>1. d' = u /\ d.state # "INIT"
    BY <1>2, <1>3, <1>4, <1>5, ReadBaroCases
  <2>2. Timed(d', Waits(d')) /\ Waits(d') = Waits(d)
    BY <1>2, <1>4, <1>5, <2>1 DEF Waits
  <2>3. ReadingsAreTimely'
    BY <1>2, <2>1, <2>2, TimedIsTimelyNext
  <2> QED BY <1>2, <2>1, <2>2, <2>3 DEF BaroInv
<1>6. ASSUME NEW v, BaroTypeOK(v), v.now = u.now, v.taken # "other",
             NEW mode \in {"TEMP", "PRESS"}, NEW delay \in {TempDelay, PressDelay},
             NEW state \in {"TEMP_GET", "PRESS_GET"}, d' = Begun(v, mode, delay, state),
             state = "TEMP_GET" => mode = "TEMP" /\ delay = TempDelay,
             state = "PRESS_GET" => mode = "PRESS" /\ delay = PressDelay,
             v.taken = "tooSoon" => Wrap - u.now <= (IF state = "PRESS_GET" THEN TempDelay ELSE PressDelay)
      PROVE  BaroInv'
  <2>1. delay \in 1..Wrap /\ delay \in Nat \ {0}
    BY <1>1
  <2> DEFINE b == Begun(v, mode, delay, state)
  <2>2. /\ BaroTypeOK(b) /\ Timed(b, delay) /\ b.late = -delay /\ b.conv = delay
        /\ b.mode = mode /\ b.state = state /\ b.taken = v.taken /\ b.now = v.now
    BY <1>2, <1>6, <2>1, ConversionBegins
  <2>3. d' = b
    BY <1>6
  <2> HIDE DEF b
  <2>4. Waits(d') = delay
    BY <1>6, <2>2, <2>3 DEF Waits
  <2>5. Waited' = IF state = "PRESS_GET" THEN TempDelay ELSE PressDelay
    BY <2>2, <2>3 DEF Waited
  <2>6. ReadingsAreTimely'
    <3>1. Timed(d', delay) /\ d'.taken # "other" /\ (d'.taken = "tooSoon" => Wrap - d'.now <= Waited')
      BY <1>6, <2>2, <2>3, <2>5
    <3> QED BY <3>1, TimedIsTimelyNext
  <2>7. d'.conv = IF d'.late < 0 THEN -d'.late ELSE 0
    BY <2>1, <2>2, <2>3
  <2> QED BY <1>6, <2>2, <2>3, <2>4, <2>6, <2>7 DEF BaroInv
<1>7. CASE u.wait <= u.now /\ u.state = "INIT"
  <2>1. d' = Begun(u, "TEMP", TempDelay, "TEMP_GET")
    BY <1>3, <1>4, <1>7, ReadBaroCases
  <2> QED BY <1>2, <1>6, <2>1
<1>8. ASSUME u.wait <= u.now, u.state # "INIT"
      PROVE  LET r == Reads(u, u.mode)
             IN  /\ BaroTypeOK(r) /\ r.now = u.now /\ r.taken # "other"
                 /\ r.taken = "tooSoon" => Wrap - u.now <= Waits(d)
  <2>1. Reads(u, u.mode) = [u EXCEPT !.taken = IF u.conv > 0 THEN "tooSoon" ELSE "inTime"]
    BY DEF Reads
  <2>2. u.conv > 0 => Wrap - u.now <= Waits(d)
    BY <1>2, <1>4, <1>8
  <2> QED BY <1>2, <2>1, <2>2 DEF BaroTypeOK, Takings
<1>9. CASE u.wait <= u.now /\ u.state = "TEMP_GET"
  <2>1. u.mode = "TEMP" /\ Waits(d) = TempDelay
    BY <1>2, <1>9 DEF BaroInv, Waits
  <2> DEFINE r == Reads(u, "TEMP")
  <2>2. d' = Begun(r, "PRESS", PressDelay, "PRESS_GET")
    BY <1>3, <1>4, <1>9, ReadBaroCases
  <2>3. BaroTypeOK(r) /\ r.now = u.now /\ r.taken # "other"
        /\ (r.taken = "tooSoon" => Wrap - u.now <= TempDelay)
    BY <1>8, <1>9, <2>1
  <2> HIDE DEF r
  <2> QED BY <1>6, <2>2, <2>3
<1>10. CASE u.wait <= u.now /\ u.state = "PRESS_GET"
  <2>1. u.mode = "PRESS" /\ Waits(d) = PressDelay
    BY <1>2, <1>10 DEF BaroInv, Waits
  <2> DEFINE r == Reads(u, "PRESS")
             a == updateAltitude(r)
  <2>2. d' = Begun(a, "TEMP", TempDelay, "TEMP_GET")
    BY <1>3, <1>4, <1>10, ReadBaroCases
  <2>3. BaroTypeOK(r) /\ r.now = u.now /\ r.taken # "other"
        /\ (r.taken = "tooSoon" => Wrap - u.now <= PressDelay)
    BY <1>8, <1>10, <2>1
  <2> HIDE DEF r
  <2>4. BaroTypeOK(a) /\ a.now = r.now /\ a.taken = r.taken
    BY <2>3 DEF updateAltitude, BaroTypeOK
  <2> HIDE DEF a
  <2> QED BY <1>6, <2>2, <2>3, <2>4
<1> QED BY <1>4, <1>5, <1>7, <1>9, <1>10

(* InputCRSF::update sends telemetry when it is due, and before that only    *)
(* when the clock ends before the wait does.                                 *)
LEMMA TelemetryKeeps ==
  ASSUME TelemetryInv, device = "TELEMETRY", device' = device,
         NEW t \in 1..MaxLag, NEW request \in BOOLEAN, NEW v,
         v = (IF request THEN Deadline(Passes(d, t), Interval) ELSE Passes(d, t)),
         d' = (IF v.now > v.wait THEN Deadline(process(v, world), Interval) ELSE v)
  PROVE  TelemetryInv'
<1> DEFINE u == Passes(d, t)
<1>1. Wrap \in Nat \ {0} /\ MaxLag \in 1..Wrap /\ Interval \in 1..Wrap
  BY PeripheralsAssumption
<1>2. TelemetryTypeOK(d) /\ Timed(d, Interval)
  BY DEF TelemetryInv
<1>3. u.now = (d.now + t) % Wrap /\ u.wait = d.wait /\ u.taken = "nothing"
      /\ u.late = Capped(d.late + t, MaxLag + 1)
  BY <1>2, PassesFields
<1>4. TelemetryTypeOK(u)
  <2>1. (d.now + t) % Wrap \in Int /\ Capped(d.late + t, MaxLag + 1) \in Int
    BY <1>1, <1>2 DEF TelemetryTypeOK, Capped
  <2> QED BY <1>2, <2>1 DEF Passes, TelemetryTypeOK, Takings
<1>5. v = IF request THEN Deadline(u, Interval) ELSE u
  OBVIOUS
<1> HIDE DEF u
<1>6. /\ u.now \in 0..Wrap - 1 /\ u.wait \in 0..Wrap - 1 /\ u.late \in Int
      /\ u.wait >= u.now => Timed(u, Interval)
      /\ u.wait <= u.now /\ u.late < 0 => Wrap - u.now <= Interval
  BY <1>1, <1>2, <1>3, TimePasses
<1>7. ASSUME NEW w, TelemetryTypeOK(w), w.now \in 0..Wrap - 1
      PROVE  LET x == Deadline(w, Interval)
             IN  /\ TelemetryTypeOK(x) /\ Timed(x, Interval) /\ x.taken = w.taken
                 /\ x.now = w.now /\ x.late = -Interval
  <2>1. PICK x \in Int, l \in Int : Deadline(w, Interval) = [w EXCEPT !.wait = x, !.late = l]
    <3>1. w.now \in Int
      BY <1>1, <1>7
    <3> QED BY <1>1, <3>1, DeadlineForm
  <2>2. TelemetryTypeOK(Deadline(w, Interval)) /\ Deadline(w, Interval).taken = w.taken
    BY <1>7, <2>1 DEF TelemetryTypeOK
  <2>3. Timed(Deadline(w, Interval), Interval)
        /\ Deadline(w, Interval).late = -Interval /\ Deadline(w, Interval).now = w.now
    BY <1>1, <1>7, DeadlineTimed
  <2> QED BY <2>2, <2>3
<1>8. /\ TelemetryTypeOK(v) /\ v.taken = "nothing" /\ v.now \in 0..Wrap - 1 /\ v.wait \in 0..Wrap - 1
      /\ v.wait >= v.now => Timed(v, Interval)
      /\ v.wait <= v.now /\ v.late < 0 => Wrap - v.now <= Interval
  <2>1. CASE request
    <3>1. v = Deadline(u, Interval)
      BY <1>5, <2>1
    <3>2. TelemetryTypeOK(v) /\ Timed(v, Interval) /\ v.taken = "nothing" /\ v.now = u.now
          /\ v.late = -Interval
      BY <1>3, <1>4, <1>6, <1>7, <3>1
    <3>3. v.wait <= v.now /\ v.late < 0 => Wrap - v.now <= Interval
      BY <1>1, <3>2 DEF Timed, StillToCome, BeyondTheEnd, SteppedOver
    <3> QED BY <3>2, <3>3 DEF Timed
  <2>2. CASE ~request
    BY <1>3, <1>4, <1>5, <1>6, <2>2
  <2> QED BY <2>1, <2>2
<1>9. CASE v.now > v.wait
  <2>1. PICK next \in {"ATTI", "BAT", "FM", "GPS", "BARO", "HB"}, taken \in {"tooSoon", "inTime"} :
          /\ process(v, world) = [v EXCEPT !.taken = taken, !.current = next]
          /\ taken = "tooSoon" => v.late < 0
    <3>1. v.current \in {"ATTI", "BAT", "FM", "GPS", "BARO", "HB"}
      BY <1>8 DEF TelemetryTypeOK
    <3> QED BY <3>1 DEF process
  <2> DEFINE p == [v EXCEPT !.taken = taken, !.current = next]
  <2>2. TelemetryTypeOK(p) /\ p.now = v.now /\ p.taken = taken
    BY <1>8, <2>1 DEF TelemetryTypeOK, Takings
  <2>3. d' = Deadline(p, Interval)
    BY <1>9, <2>1
  <2> HIDE DEF p
  <2>4. TelemetryTypeOK(d') /\ Timed(d', Interval) /\ d'.taken = taken /\ d'.now = v.now
    BY <1>7, <1>8, <2>2, <2>3
  <2>5. taken = "tooSoon" => Wrap - v.now <= Interval
    BY <1>1, <1>8, <1>9, <2>1
  <2>6. Waited' = Interval
    BY DEF Waited
  <2>7. ReadingsAreTimely'
    <3>1. d'.taken # "other" /\ (d'.taken = "tooSoon" => Wrap - d'.now <= Waited')
      BY <2>1, <2>4, <2>5, <2>6
    <3> QED BY <2>4, <3>1, TimedIsTimelyNext
  <2> QED BY <2>4, <2>7 DEF TelemetryInv
<1>10. CASE ~(v.now > v.wait)
  <2>1. d' = v
    BY <1>10
  <2>2. Timed(v, Interval)
    BY <1>1, <1>8, <1>10
  <2>3. ReadingsAreTimely'
    BY <1>8, <2>1, <2>2, TimedIsTimelyNext
  <2> QED BY <1>8, <2>1, <2>2, <2>3 DEF TelemetryInv
<1> QED BY <1>9, <1>10

-----------------------------------------------------------------------------
(* What an update of the button leaves behind. *)
LEMMA ButtonSteps ==
  ASSUME NEW v, ClickTypeOK(v), NEW pressed \in BOOLEAN
  PROVE  LET next == NextState(v, pressed)
             c == Clicked(MultiButton(v, pressed))
         IN  /\ ClickTypeOK(c) /\ c.state = next
             /\ c.new <=> next # v.state
             /\ c.for = IF next = v.state THEN Capped(v.for + 1, LongClick) ELSE 1
<1> DEFINE next == NextState(v, pressed)
           m == MultiButton(v, pressed)
           c == Clicked(m)
<1>1. LongClick \in Nat \ {0}
  BY PeripheralsAssumption
<1>2. next \in {"Idle", "Debounce", "Pressed", "ClickUp", "ClickIdle", "SingleClick",
                "DoubleClickDebounce", "DoubleClick", "LongClick", "OtherUp"}
  BY DEF NextState, ClickTypeOK
<1> HIDE DEF next
<1>3. /\ ClickTypeOK(m) /\ m.state = next
      /\ m.new <=> next # v.state
      /\ m.for = IF next = v.state THEN Capped(v.for + 1, LongClick) ELSE 1
  <2>1. CASE next = v.state
    <3>1. m = [v EXCEPT !.new = FALSE, !.for = Capped(v.for + 1, LongClick)]
      BY <2>1 DEF MultiButton, next
    <3>2. Capped(v.for + 1, LongClick) \in 0..LongClick
      BY <1>1 DEF Capped, ClickTypeOK
    <3> HIDE DEF m
    <3> QED BY <2>1, <3>1, <3>2 DEF ClickTypeOK
  <2>2. CASE next # v.state
    <3>1. m = [v EXCEPT !.new = TRUE, !.for = 1, !.state = next]
      BY <2>2 DEF MultiButton, next
    <3> HIDE DEF m
    <3>2. 1 \in 0..LongClick /\ TRUE \in BOOLEAN
      BY <1>1
    <3>3. ClickTypeOK(m)
      BY <1>2, <3>1, <3>2 DEF ClickTypeOK
    <3>4. m.state = next /\ m.new = TRUE /\ m.for = 1
      BY <3>1 DEF ClickTypeOK
    <3> QED BY <2>2, <3>3, <3>4
  <2> QED BY <2>1, <2>2
<1> HIDE DEF m
<1>4. PICK single \in BOOLEAN, double \in BOOLEAN, long \in BOOLEAN :
        c = [m EXCEPT !.single = single, !.double = double, !.long = long]
  <2> DEFINE single == IF m.new /\ m.state = "SingleClick" THEN ~m.single ELSE m.single
             double == IF m.new /\ m.state = "DoubleClick" THEN ~m.double ELSE m.double
             long == IF m.new /\ m.state = "LongClick" THEN ~m.long ELSE m.long
  <2>1. m.single \in BOOLEAN /\ m.double \in BOOLEAN /\ m.long \in BOOLEAN
    BY <1>3 DEF ClickTypeOK
  <2>2. single \in BOOLEAN /\ double \in BOOLEAN /\ long \in BOOLEAN
    BY <2>1
  <2>3. c = [m EXCEPT !.single = single, !.double = double, !.long = long]
    BY DEF Clicked
  <2> HIDE DEF single, double, long
  <2> QED BY <2>2, <2>3
<1> HIDE DEF c
<1>5. ClickTypeOK(c) /\ c.state = m.state /\ c.new = m.new /\ c.for = m.for
  BY <1>3, <1>4 DEF ClickTypeOK
<1> QED BY <1>3, <1>5 DEF c, m, next

(* What an update adds to the history of the contact. *)
LEMMA ContactSteps ==
  ASSUME NEW w, ContactTypeOK(w), NEW pressed \in BOOLEAN
  PROVE  LET c == Contact(w, pressed)
         IN  /\ ContactTypeOK(c) /\ ContactTypeOK([c EXCEPT !.presses = 0, !.sure = 0])
             /\ c.pressed = IF pressed THEN Capped(w.pressed + 1, Debounce + LongClick + 1) ELSE 0
             /\ c.open = IF pressed THEN 0 ELSE Capped(w.open + 1, Never)
             /\ c.presses = IF pressed /\ w.pressed = Debounce THEN Capped(w.presses + 1, 2) ELSE w.presses
             /\ c.sure = IF pressed /\ w.pressed = Debounce + 1 THEN Capped(w.sure + 1, 2) ELSE w.sure
<1> DEFINE c == Contact(w, pressed)
<1>1. Debounce \in Nat /\ LongClick \in Nat /\ Never \in Nat
  BY PeripheralsAssumption DEF Never
<1>2. /\ c.pressed = IF pressed THEN Capped(w.pressed + 1, Debounce + LongClick + 1) ELSE 0
      /\ c.open = IF pressed THEN 0 ELSE Capped(w.open + 1, Never)
      /\ c.presses = IF pressed /\ w.pressed = Debounce THEN Capped(w.presses + 1, 2) ELSE w.presses
      /\ c.sure = IF pressed /\ w.pressed = Debounce + 1 THEN Capped(w.sure + 1, 2) ELSE w.sure
      /\ c = [pressed |-> c.pressed, open |-> c.open, presses |-> c.presses, sure |-> c.sure]
  BY DEF Contact
<1> HIDE DEF c
<1>3. /\ c.pressed \in 0..(Debounce + LongClick + 1) /\ c.open \in 0..Never
      /\ c.presses \in 0..2 /\ c.sure \in 0..2
  BY <1>1, <1>2 DEF ContactTypeOK, Capped
<1>4. ContactTypeOK(c)
  BY <1>2, <1>3 DEF ContactTypeOK
<1>5. ContactTypeOK([c EXCEPT !.presses = 0, !.sure = 0])
  <2>1. 0 \in 0..2
    OBVIOUS
  <2> QED BY <1>4, <2>1 DEF ContactTypeOK
<1> QED BY <1>2, <1>4, <1>5 DEF c

(* MultiButton::update counts what the contact does. *)
LEMMA ButtonKeeps ==
  ASSUME ButtonInv, Button, device' = device
  PROVE  ButtonInv'
<1> DEFINE idle == d'.new /\ d'.state = "Idle"
<1>1. PICK pressed \in BOOLEAN :
        /\ d' = Clicked(MultiButton(d, pressed))
        /\ world' = IF idle THEN [Contact(world, pressed) EXCEPT !.presses = 0, !.sure = 0]
                   ELSE Contact(world, pressed)
  BY DEF Button
<1>2. ClickTypeOK(d) /\ ContactTypeOK(world) /\ device = "BUTTON"
  BY DEF ButtonInv, Button
<1> DEFINE next == NextState(d, pressed)
<1>3. /\ ClickTypeOK(d') /\ d'.state = next
      /\ d'.new <=> next # d.state
      /\ d'.for = IF next = d.state THEN Capped(d.for + 1, LongClick) ELSE 1
  <2> DEFINE c == Clicked(MultiButton(d, pressed))
  <2>1. /\ ClickTypeOK(c) /\ c.state = next
        /\ c.new <=> next # d.state
        /\ c.for = IF next = d.state THEN Capped(d.for + 1, LongClick) ELSE 1
    BY <1>2, ButtonSteps
  <2> HIDE DEF c, next
  <2> QED BY <1>1, <2>1 DEF c
<1>4. /\ ContactTypeOK(world')
      /\ world'.pressed = IF pressed THEN Capped(world.pressed + 1, Debounce + LongClick + 1) ELSE 0
      /\ world'.open = IF pressed THEN 0 ELSE Capped(world.open + 1, Never)
      /\ world'.presses = IF idle THEN 0
                         ELSE IF pressed /\ world.pressed = Debounce THEN Capped(world.presses + 1, 2)
                         ELSE world.presses
      /\ world'.sure = IF idle THEN 0
                      ELSE IF pressed /\ world.pressed = Debounce + 1 THEN Capped(world.sure + 1, 2)
                      ELSE world.sure
  <2> DEFINE c == Contact(world, pressed)
  <2>1. /\ ContactTypeOK(c) /\ ContactTypeOK([c EXCEPT !.presses = 0, !.sure = 0])
        /\ c.pressed = IF pressed THEN Capped(world.pressed + 1, Debounce + LongClick + 1) ELSE 0
        /\ c.open = IF pressed THEN 0 ELSE Capped(world.open + 1, Never)
        /\ c.presses = IF pressed /\ world.pressed = Debounce THEN Capped(world.presses + 1, 2) ELSE world.presses
        /\ c.sure = IF pressed /\ world.pressed = Debounce + 1 THEN Capped(world.sure + 1, 2) ELSE world.sure
    BY <1>2, ContactSteps
  <2> HIDE DEF c, idle
  <2>2. world' = IF idle THEN [c EXCEPT !.presses = 0, !.sure = 0] ELSE c
    BY <1>1 DEF c
  <2> QED BY <2>1, <2>2 DEF ContactTypeOK
<1>5. /\ LongClick \in Nat /\ Debounce \in 1..LongClick /\ SingleClick \in 0..LongClick
      /\ Never = SingleClick + 1
  BY PeripheralsAssumption DEF Never
<1>6. d.for \in 0..LongClick /\ world.pressed \in 0..(Debounce + LongClick + 1)
      /\ world.open \in 0..Never /\ world.presses \in 0..2 /\ world.sure \in 0..2
  BY <1>2 DEF ClickTypeOK, ContactTypeOK
<1>7. d.state \in {"Idle", "Debounce", "Pressed", "ClickUp", "ClickIdle", "SingleClick",
                  "DoubleClickDebounce", "DoubleClick", "LongClick", "OtherUp"}
  BY <1>2 DEF ClickTypeOK
<1>8. CASE d.state = "Idle"
  BY <1>2, <1>3, <1>4, <1>5, <1>6, <1>8 DEF ButtonInv, Since, ClicksAreMeant, NextState, Capped
<1>9. CASE d.state = "Debounce"
  BY <1>2, <1>3, <1>4, <1>5, <1>6, <1>9 DEF ButtonInv, Since, ClicksAreMeant, NextState, Capped
<1>10. CASE d.state = "Pressed"
  BY <1>2, <1>3, <1>4, <1>5, <1>6, <1>10 DEF ButtonInv, Since, ClicksAreMeant, NextState, Capped
<1>11. CASE d.state = "ClickUp"
  BY <1>2, <1>3, <1>4, <1>5, <1>6, <1>11 DEF ButtonInv, Since, ClicksAreMeant, NextState, Capped
<1>12. CASE d.state = "ClickIdle"
  BY <1>2, <1>3, <1>4, <1>5, <1>6, <1>12 DEF ButtonInv, Since, ClicksAreMeant, NextState, Capped
<1>13. CASE d.state = "SingleClick"
  BY <1>2, <1>3, <1>4, <1>5, <1>6, <1>13 DEF ButtonInv, Since, ClicksAreMeant, NextState, Capped
<1>14. CASE d.state = "DoubleClickDebounce"
  BY <1>2, <1>3, <1>4, <1>5, <1>6, <1>14 DEF ButtonInv, Since, ClicksAreMeant, NextState, Capped
<1>15. CASE d.state = "DoubleClick"
  BY <1>2, <1>3, <1>4, <1>5, <1>6, <1>15 DEF ButtonInv, Since, ClicksAreMeant, NextState, Capped
<1>16. CASE d.state = "LongClick"
  BY <1>2, <1>3, <1>4, <1>5, <1>6, <1>16 DEF ButtonInv, Since, ClicksAreMeant, NextState, Capped
<1>17. CASE d.state = "OtherUp"
  BY <1>2, <1>3, <1>4, <1>5, <1>6, <1>17 DEF ButtonInv, Since, ClicksAreMeant, NextState, Capped
<1> QED BY <1>7, <1>8, <1>9, <1>10, <1>11, <1>12, <1>13, <1>14, <1>15, <1>16, <1>17

-----------------------------------------------------------------------------
(* The devices at the start ... *)
LEMMA DevicesBegin ==
  ASSUME PeripheralsInit
  PROVE  PeripheralsInv
<1>1. Wrap \in Nat \ {0} /\ MaxLag \in 1..Wrap /\ TempDelay \in 1..Wrap /\ Interval \in 1..Wrap
      /\ BiasSamples \in Nat /\ LongClick \in Nat /\ Debounce \in 1..LongClick
      /\ SingleClick \in 0..LongClick
  BY PeripheralsAssumption
<1>2. ASSUME device = "BARO" PROVE BaroInv
  <2>1. PICK t \in 0..Wrap - 1 : d = BaroBegin(t)
    BY <1>2 DEF PeripheralsInit
  <2>2. t \in Int /\ TempDelay \in Int /\ BiasSamples \in Int
    BY <1>1
  <2>3. BaroTypeOK(d)
    BY <2>1, <2>2 DEF BaroBegin, BaroTypeOK, Takings
  <2>4. d.state = "INIT" /\ d.wait = 0 /\ d.late = 0 /\ d.taken = "nothing" /\ d.now = t
    BY <2>1 DEF BaroBegin
  <2>5. ReadingsAreTimely
    BY <2>4 DEF ReadingsAreTimely
  <2> QED BY <2>3, <2>4, <2>5 DEF BaroInv
<1>3. ASSUME device = "TELEMETRY" PROVE TelemetryInv
  <2>1. PICK t \in 0..Wrap - 1 : d = TelemetryBegin(t)
    BY <1>3 DEF PeripheralsInit
  <2> DEFINE v == [now |-> t, current |-> "ATTI", wait |-> 0, late |-> 0, taken |-> "nothing"]
  <2>2. TelemetryTypeOK(v) /\ v.now \in 0..Wrap - 1 /\ v.taken = "nothing"
    <3>1. t \in Int /\ 0 \in Int
      BY <1>1
    <3> QED BY <3>1 DEF TelemetryTypeOK, Takings
  <2>3. d = Deadline(v, Interval)
    BY <2>1 DEF TelemetryBegin
  <2> HIDE DEF v
  <2>4. PICK w \in Int, l \in Int : Deadline(v, Interval) = [v EXCEPT !.wait = w, !.late = l]
    <3>1. v.now \in Int
      BY <1>1, <2>2
    <3> QED BY <1>1, <3>1, DeadlineForm
  <2>5. TelemetryTypeOK(d) /\ d.taken = "nothing"
    BY <2>2, <2>3, <2>4 DEF TelemetryTypeOK
  <2>6. Timed(d, Interval)
    BY <1>1, <2>2, <2>3, DeadlineTimed
  <2>7. ReadingsAreTimely
    BY <2>5, <2>6, TimedIsTimely
  <2> QED BY <2>5, <2>6, <2>7 DEF TelemetryInv
<1>4. ASSUME device = "BUTTON" PROVE ButtonInv
  <2>1. d = ButtonBegin /\ world = [pressed |-> 0, open |-> Never, presses |-> 0, sure |-> 0]
    BY <1>4 DEF PeripheralsInit, ButtonWorlds
  <2>2. ClickTypeOK(d) /\ d.state = "Idle" /\ d.new = FALSE
    BY <1>1, <2>1 DEF ButtonBegin, ClickTypeOK
  <2>3. ContactTypeOK(world) /\ world.pressed = 0 /\ world.presses = 0 /\ world.sure = 0
    BY <1>1, <2>1 DEF ContactTypeOK, Never
  <2> QED BY <2>2, <2>3 DEF ButtonInv, ClicksAreMeant
<1> QED BY <1>2, <1>3, <1>4 DEF PeripheralsInv

(* ... and after each step. *)
LEMMA DevicesStep ==
  ASSUME PeripheralsInv, [PeripheralsNext]_periVars
  PROVE  PeripheralsInv'
<1>1. CASE UNCHANGED periVars
  BY <1>1 DEF periVars, PeripheralsInv, BaroInv, TelemetryInv, ButtonInv, Since, ClicksAreMeant,
              ReadingsAreTimely, Waited
<1>2. ASSUME device' = device, Baro PROVE PeripheralsInv'
  <2>1. device = "BARO" /\ BaroInv
    BY <1>2 DEF Baro, PeripheralsInv
  <2>2. BaroInv'
    BY <1>2, <2>1, BaroKeeps DEF Baro
  <2> QED BY <1>2, <2>1, <2>2 DEF PeripheralsInv
<1>3. ASSUME device' = device, Telemetry PROVE PeripheralsInv'
  <2>1. device = "TELEMETRY" /\ TelemetryInv
    BY <1>3 DEF Telemetry, PeripheralsInv
  <2>2. TelemetryInv'
    BY <1>3, <2>1, TelemetryKeeps DEF Telemetry
  <2> QED BY <1>3, <2>1, <2>2 DEF PeripheralsInv
<1>4. ASSUME device' = device, Button PROVE PeripheralsInv'
  <2>1. device = "BUTTON" /\ ButtonInv
    BY <1>4 DEF Button, PeripheralsInv
  <2>2. ButtonInv'
    BY <1>4, <2>1, ButtonKeeps
  <2> QED BY <1>4, <2>1, <2>2 DEF PeripheralsInv
<1>5. ASSUME device' = device, device \in {"VTX", "LED", "BATTERY"} PROVE PeripheralsInv'
  BY <1>5 DEF PeripheralsInv
<1>6. ASSUME PeripheralsNext PROVE PeripheralsInv'
  <2>1. device' = device
    BY <1>6 DEF PeripheralsNext
  <2>2. \/ Baro \/ Telemetry \/ Button
        \/ device \in {"VTX", "LED", "BATTERY"}
    BY <1>6 DEF PeripheralsNext, Vtx, VtxArming, Led, LedTime, LedWorldChanges, Battery, BatteryChanges
  <2> QED BY <1>2, <1>3, <1>4, <1>5, <2>1, <2>2
<1> QED BY <1>1, <1>6

(* For all clocks, delays, intervals and lengths of clicks.  A reading is of  *)
(* the quantity it is taken for.  It comes before the conversion is over, and *)
(* telemetry before its time, only if the clock ends no later than the wait;  *)
(* and what is due comes with the next update, unless its time was among the  *)
(* last MaxLag before the end of the clock (BaroSensor::update,               *)
(* InputCRSF::update).  A click is what the user did (MultiButton::update).   *)
THEOREM ReportsAreTrueAlways == PeripheralsSpec => []ReportsAreTrue
<1>1. PeripheralsInit => PeripheralsInv
  BY DevicesBegin
<1>2. PeripheralsInv /\ [PeripheralsNext]_periVars => PeripheralsInv'
  BY DevicesStep
<1>3. PeripheralsInv => ReportsAreTrue
  <2> SUFFICES ASSUME PeripheralsInv PROVE ReportsAreTrue
    OBVIOUS
  <2>1. ReadingsAreTimely
    BY DEF PeripheralsInv, BaroInv, TelemetryInv, ReadingsAreTimely
  <2>2. ClicksAreMeant
    BY DEF PeripheralsInv, ButtonInv, ClicksAreMeant
  <2> QED BY <2>1, <2>2 DEF ReportsAreTrue
<1> QED BY <1>1, <1>2, <1>3, PTL DEF PeripheralsSpec
=============================================================================
