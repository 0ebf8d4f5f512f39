---------------------------- MODULE GpsDialogue ----------------------------
(***************************************************************************)
(* How GpsSensor finds, configures and reads a u-blox module.  Every call  *)
(* of GpsSensor::handle is one step: Update when nothing was received,     *)
(* Message(m) when a UBX message is complete.  The module answers the      *)
(* requests in the order in which it reads them, late, not at all, or with *)
(* a refusal; its answers may be damaged on the way.                       *)
(***************************************************************************)
EXTENDS Integers, Sequences, FiniteSets

CONSTANTS Bauds,     \* the baud rates that are tried, in this order
          Target,    \* the configured baud rate
          NmeaOff,   \* number of NMEA messages that are turned off one by one
          UbxOn,     \* number of UBX messages that are turned on one by one
          Wire,      \* bound on the requests that are on their way
          GnssModes  \* values of config.gps.gnssMode to choose from

ASSUME GpsAssumption == /\ Bauds \in Seq(Nat \ {0}) /\ Target \in Nat \ {0}
                        /\ NmeaOff \in Nat \ {0} /\ UbxOn \in Nat \ {0} /\ Wire \in Nat
                        /\ GnssModes \subseteq 0..5

VARIABLES
    state, ackState, timeoutState,  \* _state, _ackState, _timeoutState
    counter,                        \* _counter
    expired,                        \* micros() > _timeout
    baud,                           \* _currentBaud
    present, lastMsg,               \* state.gps.present; lastMsgTs, as a bit that flips
    support,                        \* state.gps.support: modern protocol, constellations
    gnssMode,                       \* config.gps.gnssMode
    written,                        \* _ubxMsg.written when a frame begins, as a length class
    module,                         \* the GPS module
    wire, answers,                  \* requests it has not read, answers not yet heard
    late, damaged                   \* history: requests that the dialogue went on without,
                                    \* and whether any frame was damaged

dialogue == <<state, ackState, timeoutState, counter, expired, baud, present, lastMsg, support,
              gnssMode, late>>
vars == <<dialogue, written, module, wire, answers, damaged>>

States == {"DETECT_BAUD", "GET_VERSION", "CONFIGURE_BAUD", "DISABLE_NMEA", "ENABLE_UBX",
           "ENABLE_NAV5", "ENABLE_SBAS", "DETECT_GPS_L5", "CONFIGURE_GNSS",
           "CONFIGURE_NAV_RATE", "WAIT", "RECEIVE", "ERROR"}
Signals == {"GPS", "SBAS", "GAL", "BDS", "QZSS", "GLO"}
BaudRange == {Bauds[i] : i \in DOMAIN Bauds} \cup {Target}
isLegacyProto == ~support.modern

-----------------------------------------------------------------------------
(* Requests.  Each is built for one of the two protocols and framed with a
   checksum; here it is its kind, the index of the message it is about, the
   constellations it turns on and the baud rate it is sent at.             *)
Kinds == {"version", "baud", "nmea", "ubx", "nav5", "sbas", "l5", "gnss", "rate"}
Replies == {"ack", "nak", "value", "version", "pvt"}

Request(kind, i) == [kind |-> kind, i |-> i, signals |-> {}, baud |-> baud]

(* setState(WAIT, ack, timeout) after the request is written; a request more
   than Wire is taken for lost. *)
Transmit(request, ack, timeout) ==
    /\ wire' = IF Len(wire) < Wire THEN Append(wire, request) ELSE wire
    /\ state' = "WAIT" /\ ackState' = ack /\ timeoutState' = timeout
    /\ expired' = FALSE

Keep == UNCHANGED <<present, lastMsg, support, gnssMode, late>>

(* Try the next baud rate when one has been silent; after the last, give up. *)
DetectBaud ==
    /\ IF ~expired THEN UNCHANGED <<state, counter, baud, expired>>
       ELSE /\ expired' = FALSE
            /\ IF counter < Len(Bauds)
               THEN baud' = Bauds[counter + 1] /\ counter' = counter + 1 /\ UNCHANGED state
               ELSE baud' = Target /\ counter' = 0 /\ state' = "ERROR"
    /\ Keep /\ UNCHANGED <<ackState, timeoutState, wire>>

ReadVersion ==
    /\ Transmit(Request("version", 0), "CONFIGURE_BAUD", "ERROR")
    /\ Keep /\ UNCHANGED <<counter, baud>>

(* The module may answer at either rate, so silence counts as agreement. *)
ConfigureBaud ==
    /\ Transmit(Request("baud", 0), "DISABLE_NMEA", "DISABLE_NMEA")
    /\ baud' = Target
    /\ Keep /\ UNCHANGED counter

(* One message after the other with the old protocol, all at once with the
   new one. *)
OneByOne(kind, own, count, next) ==
    LET last == counter + 1 >= count IN
    /\ IF isLegacyProto
       THEN /\ Transmit(Request(kind, counter), IF last THEN next ELSE own, "ERROR")
            /\ counter' = IF last THEN 0 ELSE counter + 1
       ELSE Transmit(Request(kind, 0), next, "ERROR") /\ UNCHANGED counter
    /\ Keep /\ UNCHANGED baud

DisableNmea == OneByOne("nmea", "DISABLE_NMEA", NmeaOff, "ENABLE_UBX")

EnableUbx == OneByOne("ubx", "ENABLE_UBX", UbxOn, "ENABLE_NAV5")

EnableNav5 ==
    /\ Transmit(Request("nav5", 0), "ENABLE_SBAS", "ERROR")
    /\ Keep /\ UNCHANGED <<counter, baud>>

EnableSbas ==
    /\ IF "SBAS" \in support.signals
       THEN Transmit(Request("sbas", 0), "DETECT_GPS_L5", "ERROR")
       ELSE /\ state' = "DETECT_GPS_L5" /\ expired' = FALSE
            /\ UNCHANGED <<ackState, timeoutState, wire>>
    /\ Keep /\ UNCHANGED <<counter, baud>>

DetectGpsL5 ==
    /\ Transmit(Request("l5", 0), "CONFIGURE_GNSS", "CONFIGURE_GNSS")
    /\ Keep /\ UNCHANGED <<counter, baud>>

(* The constellations that gnssMode turns on; 0 leaves it to the single
   switches of the configuration (all on, as by default).  Only what the
   module supports has an entry in the request. *)
EnabledSignals(mode, offered) ==
    LET chosen == CASE mode = 0 -> Signals
                    [] mode = 1 -> {"GPS"}
                    [] mode = 2 -> {"GPS", "GLO"}
                    [] mode = 3 -> {"GPS", "GAL"}
                    [] mode = 4 -> {"GPS", "BDS"}
                    [] mode = 5 -> Signals \ {"SBAS"}
    IN  (chosen \cup {"SBAS"}) \cap offered

ConfigureGnss ==
    /\ Transmit([Request("gnss", 0) EXCEPT !.signals = EnabledSignals(gnssMode, support.signals)],
                "CONFIGURE_NAV_RATE", "ERROR")
    /\ Keep /\ UNCHANGED <<counter, baud>>

ConfigureRate ==
    /\ Transmit(Request("rate", 0), "RECEIVE", "ERROR")
    /\ Keep /\ UNCHANGED <<counter, baud>>

HandleError ==
    /\ counter' = IF counter = 0 THEN 1 ELSE counter
    /\ present' = FALSE
    /\ UNCHANGED <<state, ackState, timeoutState, expired, baud, wire, lastMsg, support, gnssMode, late>>

-----------------------------------------------------------------------------
(* Waiting and receiving: any acknowledgement moves on, any refusal takes
   the way of the timeout, whatever request they belong to.                *)
HandleVersion == support' = [modern |-> module.modern, signals |-> module.offers]

HandleNavPvt == lastMsg' = 1 - lastMsg

(* The key is looked for 12 bytes behind its place, so L5 is never detected. *)
HandleCfgValGet == UNCHANGED support

(* Mutant: a refusal counts as an acknowledgement. *)
NextState_NakIsAck(m) == CASE m \in {"ack", "nak", "value", "version"} -> ackState
                           [] m = "none" /\ state = "WAIT" /\ expired -> timeoutState
                           [] OTHER -> state

NextState(m) == CASE m \in {"ack", "value", "version"} -> ackState
                  [] m = "nak" -> timeoutState
                  [] m = "none" /\ state = "WAIT" /\ expired -> timeoutState
                  [] OTHER -> state

HandleReceive(m) ==
    /\ state' = NextState(m)
    /\ present' = IF state = "RECEIVE" THEN TRUE
                  ELSE IF m = "none" /\ expired THEN FALSE ELSE present
    /\ counter' = IF m \in {"value", "version"} THEN 0 ELSE counter
    /\ CASE m = "version" -> HandleVersion [] m = "value" -> HandleCfgValGet [] OTHER -> UNCHANGED support
    /\ IF m = "pvt" THEN HandleNavPvt ELSE UNCHANGED lastMsg
    /\ late' = IF m = "none" /\ state = "WAIT" /\ expired THEN late \cup {timeoutState} ELSE late
    /\ UNCHANGED <<ackState, timeoutState, expired, baud, gnssMode, wire>>

Handle(s, m) ==
    \/ s = "DETECT_BAUD" /\ DetectBaud
    \/ s = "GET_VERSION" /\ ReadVersion
    \/ s = "CONFIGURE_BAUD" /\ ConfigureBaud
    \/ s = "DISABLE_NMEA" /\ DisableNmea
    \/ s = "ENABLE_UBX" /\ EnableUbx
    \/ s = "ENABLE_NAV5" /\ EnableNav5
    \/ s = "ENABLE_SBAS" /\ EnableSbas
    \/ s = "DETECT_GPS_L5" /\ DetectGpsL5
    \/ s = "CONFIGURE_GNSS" /\ ConfigureGnss
    \/ s = "CONFIGURE_NAV_RATE" /\ ConfigureRate
    \/ s = "ERROR" /\ HandleError
    \/ s \in {"WAIT", "RECEIVE"} /\ HandleReceive(m)

(* onMessage: whatever arrives while the baud rate is looked for has found it. *)
Found(s) == IF s = "DETECT_BAUD" THEN "GET_VERSION" ELSE s

(* An update that has read nothing. *)
Update == Handle(state, "none") /\ UNCHANGED <<written, module, answers, damaged>>

-----------------------------------------------------------------------------
(* The UBX parser, a frame at a time.  It counts the bytes of the payload in
   `written`, which only a complete message sets back to 0.  A frame that
   fails its checksum leaves its length behind: a longer frame then ends too
   early and fails as well, any other never ends and swallows what follows. *)
Swallowing == 4
LengthClass(m) == CASE m \in {"ack", "nak"} -> 1 [] m = "value" -> 2 [] OTHER -> 3
AfterFrame(len) == IF written < len THEN len ELSE Swallowing

(* Mutant: a position is handled on a path that does not clear the message. *)
Message_NotCleared(m) ==
    IF written = 0
    THEN Handle(Found(state), m) /\ written' = IF m = "pvt" /\ state = "RECEIVE" THEN 3 ELSE 0
    ELSE written' = AfterFrame(LengthClass(m)) /\ UNCHANGED <<dialogue, wire>>

Message(m) ==
    IF written = 0 THEN Handle(Found(state), m) /\ UNCHANGED written
    ELSE written' = AfterFrame(LengthClass(m)) /\ UNCHANGED <<dialogue, wire>>

(* A frame damaged in its payload, or before it: then nothing is counted. *)
Damaged(m) ==
    /\ \E n \in {written, AfterFrame(LengthClass(m))} : written' = n
    /\ damaged' = TRUE
    /\ UNCHANGED <<dialogue, wire>>

(* NMEA sentences have a parser of their own; they only matter to onMessage,
   and no UBX message came in this update, so it calls handle as well. *)
Sentence ==
    /\ state = "DETECT_BAUD" /\ module.alive /\ module.baud = baud
    /\ ReadVersion
    /\ UNCHANGED <<written, module, answers, damaged>>

-----------------------------------------------------------------------------
(* The module, as the requests expect it to be: it reads at its own baud
   rate, answers in order, and confirms the poll of a value with the value
   and an acknowledgement.  It has not much to read while it answers.      *)
Answer(m, rate) == <<[m |-> m, baud |-> rate]>>

Accept(r) ==
    \/ /\ r.kind = "version"
       /\ answers' = Answer("version", module.baud) /\ UNCHANGED module
    \/ /\ r.kind = "baud"
       /\ module' = [module EXCEPT !.baud = Target]
       /\ \E rate \in {module.baud, Target} : answers' = Answer("ack", rate)
    \/ /\ r.kind = "l5" /\ module.l5
       /\ answers' = Answer("value", module.baud) \o Answer("ack", module.baud)
       /\ UNCHANGED module
    \/ /\ r.kind \notin {"version", "baud", "l5"}
       /\ module' = [module EXCEPT !.applied = @ \cup {<<r.kind, r.i>>},
                                   !.signals = IF r.kind = "gnss" THEN r.signals ELSE @]
       /\ answers' = Answer("ack", module.baud)

Refuse(r) == /\ r.kind # "version" /\ answers' = Answer("nak", module.baud)
             /\ UNCHANGED module

ModuleReads ==
    /\ wire # <<>> /\ answers = <<>> /\ module.alive
    /\ wire' = Tail(wire)
    /\ LET r == Head(wire) IN
         \/ r.baud = module.baud /\ (Accept(r) \/ Refuse(r))
         \/ UNCHANGED <<module, answers>>                          \* unreadable or lost
    /\ UNCHANGED <<dialogue, written, damaged>>

Hear ==
    /\ answers # <<>> /\ answers' = Tail(answers)
    /\ LET a == Head(answers) IN
         \/ a.baud = baud /\ Message(a.m) /\ UNCHANGED damaged
         \/ a.baud = baud /\ Damaged(a.m)
         \/ UNCHANGED <<dialogue, wire, written, damaged>>          \* unreadable or lost
    /\ UNCHANGED module

(* NAV-PVT and NAV-SAT messages, once they are on. *)
Talks == module.alive /\ <<"ubx", 0>> \in module.applied /\ module.baud = baud
Navigation == Talks /\ Message("pvt") /\ UNCHANGED <<module, answers, damaged>>
DamagedNavigation == Talks /\ Damaged("pvt") /\ UNCHANGED <<module, answers>>

ModuleFails == /\ module.alive /\ module' = [module EXCEPT !.alive = FALSE]
               /\ UNCHANGED <<dialogue, wire, written, answers, damaged>>

Expire == /\ ~expired /\ state \in {"DETECT_BAUD", "WAIT"}
          /\ expired' = TRUE
          /\ UNCHANGED <<state, ackState, timeoutState, counter, baud, present, lastMsg, support,
                         gnssMode, late, wire, written, module, answers, damaged>>

(* begin: the port is open at the configured rate.  The module may have been
   configured before. *)
Init ==
    /\ state = "DETECT_BAUD" /\ ackState = "WAIT" /\ timeoutState = "DETECT_BAUD"
    /\ counter = 0 /\ expired = FALSE /\ baud = Target
    /\ present = FALSE /\ lastMsg = 0 /\ gnssMode \in GnssModes
    /\ support = [modern |-> FALSE, signals |-> {}]
    /\ written = 0 /\ wire = <<>> /\ answers = <<>>
    /\ late = {} /\ damaged = FALSE
    /\ module \in [baud : BaudRange, modern : BOOLEAN, l5 : BOOLEAN, alive : {TRUE},
                    offers : {{"GPS", "GLO"}, {"GPS", "SBAS", "GAL", "BDS"}}, signals : {{}},
                    applied : {{}, {<<"ubx", 0>>}}]

Next == \/ Update \/ Sentence \/ Hear \/ Navigation \/ Expire
        \/ ModuleReads \/ DamagedNavigation \/ ModuleFails

(* The gyro task calls update for ever and the clock goes on; a module that
   works sends its messages. *)
Fairness == WF_vars(Update) /\ WF_vars(Expire) /\ WF_vars(Navigation)

Spec == Init /\ [][Next]_vars /\ Fairness

-----------------------------------------------------------------------------
(* The state is well formed; in particular requests are only made for the
   messages the tables have. *)
Ids == Kinds \X (0..NmeaOff + UbxOn)
Requests == [kind : Kinds, i : 0..NmeaOff + UbxOn, signals : SUBSET Signals, baud : BaudRange]
Responses == [m : Replies \ {"pvt"}, baud : BaudRange]
TypeOK ==
    /\ state \in States /\ ackState \in States /\ timeoutState \in States
    /\ counter \in 0..Len(Bauds) + NmeaOff + UbxOn
    /\ expired \in BOOLEAN /\ present \in BOOLEAN /\ gnssMode \in GnssModes
    /\ baud \in BaudRange /\ written \in 0..Swallowing /\ late \subseteq States
    /\ support \in [modern : BOOLEAN, signals : SUBSET Signals]
    /\ wire \in Seq(Requests) /\ Len(wire) <= Wire
    /\ answers \in Seq(Responses) /\ Len(answers) <= 2
    /\ module \in [baud : BaudRange, modern : BOOLEAN, l5 : BOOLEAN, alive : BOOLEAN,
                   offers : SUBSET Signals, signals : SUBSET Signals, applied : SUBSET Ids]

(* Settings the craft relies on. *)
Required ==
    LET all(kind, count) == {<<kind, i>> : i \in 0..(IF module.modern THEN 0 ELSE count - 1)}
    IN  all("nmea", NmeaOff) \cup all("ubx", UbxOn)
        \cup {<<"nav5", 0>>, <<"gnss", 0>>, <<"rate", 0>>}
        \cup IF "SBAS" \in module.offers THEN {<<"sbas", 0>>} ELSE {}

(* A GPS counts as present only when both ends use one baud rate and the
   module has taken all settings, but for those whose place was taken by an
   answer that was not theirs, since WAIT takes any: the acknowledgement of a
   baud rate request that came too late, the one that follows a value of L5,
   that value itself if it was late, and, behind a late baud rate, a refusal
   taken for that of L5. *)
Strays ==
    LET lateBaud == "DISABLE_NMEA" \in late
        lateL5 == "CONFIGURE_GNSS" \in late
    IN  IF module.l5 THEN 1 + (IF lateL5 THEN 1 ELSE 0) + (IF lateBaud THEN 2 ELSE 0)
        ELSE IF lateBaud THEN 1 ELSE 0
ConfiguredBeforeUse ==
    state = "RECEIVE" \/ present =>
        /\ Cardinality(Required \ module.applied) <= Strays
        /\ baud = module.baud
        /\ <<"gnss", 0>> \in module.applied => "GPS" \in module.signals

(* The dialogue ends, with a working module or with an error, whatever the
   module answers, and also when it dies. *)
DialogueEnds == <>[](state \in {"RECEIVE", "ERROR"})

(* Once in use, positions keep coming from a module that works, unless a
   frame was damaged: that one can silence the parser for good. *)
PositionsKeepComing ==
    <>[](state = "RECEIVE" /\ Talks) /\ []~damaged => []<>(lastMsg = 0) /\ []<>(lastMsg = 1)

(* The dialogue comes to an end, and what it leads to goes on. *)
DialogueServes == DialogueEnds /\ PositionsKeepComing
=============================================================================
