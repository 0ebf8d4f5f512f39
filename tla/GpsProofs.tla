------------------------------ MODULE GpsProofs ------------------------------
(***************************************************************************)
(* The dialogue with the GPS module, for any number of messages to turn on *)
(* and off, any list of baud rates and any number of requests on their     *)
(* way: what counts as present has been configured.                        *)
(***************************************************************************)
EXTENDS GpsDialogue, FiniteSetTheorems, SequenceTheorems, TLAPS

(* The states behind each request, and At: the one a positive answer leads to. *)
AfterRate == {"RECEIVE"}
AfterGnss == AfterRate \cup {"CONFIGURE_NAV_RATE"}
AfterL5 == AfterGnss \cup {"CONFIGURE_GNSS"}
AfterSbas == AfterL5 \cup {"DETECT_GPS_L5"}
AfterNav5 == AfterSbas \cup {"ENABLE_SBAS"}
AfterUbx == AfterNav5 \cup {"ENABLE_NAV5"}
AfterNmea == AfterUbx \cup {"ENABLE_UBX"}
AfterBaud == AfterNmea \cup {"DISABLE_NMEA"}
AfterVersion == AfterBaud \cup {"CONFIGURE_BAUD"}
BeforeL5 == {"DETECT_BAUD", "GET_VERSION"} \cup (AfterVersion \ AfterL5)

At == IF state = "WAIT" THEN ackState ELSE state
AwaitsBaud == state = "WAIT" /\ ackState = "DISABLE_NMEA" /\ timeoutState = "DISABLE_NMEA"
AwaitsL5 == state = "WAIT" /\ ackState = "CONFIGURE_GNSS"
Waiting == IF state = "WAIT" THEN 1 ELSE 0
LateBaud == IF "DISABLE_NMEA" \in late THEN 1 ELSE 0

(* What has been requested so far. *)
Every(n) == IF isLegacyProto THEN n ELSE 1
SentBy(kind, i) ==
    \/ kind = "version" /\ i = 0 /\ At \in AfterVersion
    \/ kind = "baud" /\ i = 0 /\ At \in AfterBaud
    \/ kind = "nmea" /\ ((At = "DISABLE_NMEA" /\ i < counter) \/ (At \in AfterNmea /\ i < Every(NmeaOff)))
    \/ kind = "ubx" /\ ((At = "ENABLE_UBX" /\ i < counter) \/ (At \in AfterUbx /\ i < Every(UbxOn)))
    \/ kind = "nav5" /\ i = 0 /\ At \in AfterNav5
    \/ kind = "sbas" /\ i = 0 /\ At \in AfterSbas /\ "SBAS" \in support.signals
    \/ kind = "l5" /\ i = 0 /\ At \in AfterL5
    \/ kind = "gnss" /\ i = 0 /\ At \in AfterGnss
    \/ kind = "rate" /\ i = 0 /\ At \in AfterRate
Sent == {s \in Ids : SentBy(s[1], s[2])}

(* What may still let WAIT go on: requests the module has not acted upon, and
   answers on their way. *)
L5 == <<"l5", 0>>
IdOf(r) == <<r.kind, r.i>>
OnWire(s) == \E i \in DOMAIN wire : IdOf(wire[i]) = s
Owed == {s \in Sent \ {L5} : OnWire(s) \/ (s[1] \notin {"version", "baud"} /\ s \notin module.applied)}
Counts(k) == IF Len(answers) >= k /\ answers[k].m \in {"ack", "value", "version"} THEN 1 ELSE 0
Credit == Cardinality(Owed) + Counts(1) + Counts(2) + (IF module.l5 /\ OnWire(L5) THEN 2 ELSE 0)
Refused == \E i \in DOMAIN answers : answers[i].m = "nak"

DialogueInv ==
    /\ state = "DETECT_BAUD" \/ At \in AfterVersion
    /\ state = "WAIT" => timeoutState = IF AwaitsL5 THEN "CONFIGURE_GNSS"
                                        ELSE IF AwaitsBaud THEN "DISABLE_NMEA" ELSE "ERROR"
    /\ state = "RECEIVE" => ackState = "RECEIVE" /\ timeoutState = "ERROR"
    /\ present => state = "RECEIVE"
    /\ At \in AfterBaud \/ state = "CONFIGURE_BAUD" =>
          support.modern = module.modern /\ support.signals = module.offers
    /\ At = "DISABLE_NMEA" => counter < NmeaOff
    /\ At = "ENABLE_UBX" => counter < UbxOn
    /\ state = "CONFIGURE_BAUD" \/ AwaitsBaud => counter = 0
    /\ state = "DETECT_BAUD" => answers = <<>> /\ wire = <<>>
    /\ (At \in {"DISABLE_NMEA", "ENABLE_UBX"} /\ ~isLegacyProto) => counter = 0
    /\ At \in {"DETECT_BAUD", "GET_VERSION", "CONFIGURE_BAUD"} \/ AwaitsBaud => LateBaud = 0

WireInv ==
    /\ \A i \in DOMAIN wire : IdOf(wire[i]) \in Sent
    /\ \A i, j \in DOMAIN wire : IdOf(wire[i]) = IdOf(wire[j]) => i = j
    /\ \A i \in DOMAIN wire : wire[i].kind = "version" => At = "CONFIGURE_BAUD"

AnswerInv ==
    /\ \A i \in DOMAIN answers : At = "CONFIGURE_BAUD" => answers[i].m = "version"
    /\ \A i \in DOMAIN answers : answers[i].m = "version" => At = "CONFIGURE_BAUD"
    /\ \A i \in DOMAIN answers : answers[i].m = "value" => At \in AfterL5
    /\ At \in BeforeL5 \/ Refused => Len(answers) <= 1

CreditInv ==
    /\ At \in BeforeL5 => Credit <= Waiting + LateBaud
    /\ At \in BeforeL5 /\ Refused /\ LateBaud = 0 => state = "WAIT"
    /\ AwaitsBaud /\ Refused => Credit = 0
    /\ AwaitsL5 => /\ Credit <= LateBaud + (IF module.l5 THEN 2 ELSE 0)
                   /\ LateBaud = 0 => Owed = {} /\ (Refused => Credit = 0)
    /\ At \in AfterL5 /\ ~AwaitsL5 => Credit <= Waiting + Strays

RateInv ==
    At \in AfterBaud =>
      /\ baud = Target
      /\ \A i \in DOMAIN wire : wire[i].kind # "baud" => wire[i].baud = Target
      /\ module.baud # Target =>
            /\ At = "DISABLE_NMEA" \/ (state = "WAIT" /\ At = "ENABLE_UBX")
            /\ \A i \in DOMAIN answers : answers[i].baud # Target

(* Whatever the dialogue does, the constellations stay usable, and what a
   craft that used its GPS relied on stays so. *)
SignalInv ==
    /\ \A i \in DOMAIN wire : wire[i].kind = "gnss" => "GPS" \in wire[i].signals
    /\ "GPS" \in module.offers
    /\ <<"gnss", 0>> \in module.applied => "GPS" \in module.signals
UsedInv ==
    present => /\ state \in {"RECEIVE", "ERROR"} /\ baud = Target /\ module.baud = Target
               /\ Cardinality(Required \ module.applied) <= Strays

GpsInv ==
    /\ TypeOK /\ SignalInv /\ UsedInv
    /\ state # "ERROR" => DialogueInv /\ WireInv /\ AnswerInv /\ CreditInv /\ RateInv

------------------------------------------------------------------------------
(* What is counted is finite. *)
LEMMA IdsFinite == IsFiniteSet(Ids)
<1>1. Kinds = {"version"} \cup {"baud"} \cup {"nmea"} \cup {"ubx"} \cup {"nav5"} \cup {"sbas"}
                \cup {"l5"} \cup {"gnss"} \cup {"rate"}
  BY DEF Kinds
<1>2. IsFiniteSet(Kinds)
  BY <1>1, FS_Singleton, FS_Union
<1>3. IsFiniteSet(0..NmeaOff + UbxOn)
  BY GpsAssumption, FS_Interval
<1> QED BY <1>2, <1>3, FS_Product DEF Ids

(* Requests are finitely many, so what is owed can be counted. *)
LEMMA CreditType ==
  ASSUME TypeOK
  PROVE  /\ IsFiniteSet(Owed) /\ Cardinality(Owed) \in Nat
         /\ Counts(1) \in {0, 1} /\ Counts(2) \in {0, 1} /\ Credit \in Nat
<1>1. IsFiniteSet(Ids)
  BY IdsFinite
<1>2. Owed \in SUBSET Ids
  BY DEF Owed, Sent
<1>3. IsFiniteSet(Owed)
  BY <1>1, <1>2, FS_Subset
<1>4. Cardinality(Owed) \in Nat
  BY <1>3, FS_CardinalityType
<1> QED BY <1>3, <1>4 DEF Credit, Counts

(* A request is owed at most once. *)
LEMMA OwedGrows ==
  ASSUME TypeOK, TypeOK', NEW s, Owed' \subseteq Owed \cup {s}
  PROVE  Cardinality(Owed') <= Cardinality(Owed) + 1
<1>1. IsFiniteSet(Owed \cup {s}) /\ Cardinality(Owed \cup {s}) <= Cardinality(Owed) + 1
  BY CreditType, FS_AddElement
<1>2. Cardinality(Owed') <= Cardinality(Owed \cup {s}) /\ Cardinality(Owed \cup {s}) \in Nat
  BY <1>1, FS_Subset, FS_CardinalityType
<1>3. Cardinality(Owed') \in Nat
  BY <1>1, FS_Subset, FS_CardinalityType
<1>4. Cardinality(Owed) \in Nat
  BY CreditType
<1> HIDE DEF Owed
<1> QED BY <1>1, <1>2, <1>3, <1>4

(* What is owed no more counts one less. *)
LEMMA OwedShrinks ==
  ASSUME TypeOK, Owed' \subseteq Owed
  PROVE  /\ Cardinality(Owed') \in Nat /\ Cardinality(Owed') <= Cardinality(Owed)
         /\ \A s \in Owed : s \notin Owed' => Cardinality(Owed') <= Cardinality(Owed) - 1
<1>1. IsFiniteSet(Owed) /\ Cardinality(Owed) \in Nat
  BY CreditType
<1>2. IsFiniteSet(Owed') /\ Cardinality(Owed') <= Cardinality(Owed)
  BY <1>1, FS_Subset
<1>3. Cardinality(Owed') \in Nat
  BY <1>2, FS_CardinalityType
<1>4. ASSUME NEW s \in Owed, s \notin Owed'
      PROVE  Cardinality(Owed') <= Cardinality(Owed) - 1
  <2>1. IsFiniteSet(Owed \ {s}) /\ Cardinality(Owed \ {s}) = Cardinality(Owed) - 1
    BY <1>1, <1>4, FS_RemoveElement
  <2>2. Owed' \in SUBSET (Owed \ {s})
    BY <1>4
  <2> QED BY <2>1, <2>2, FS_Subset
<1> QED BY <1>2, <1>3, <1>4

(* The requests on their way when one is added or taken. *)
Distinct ==
  /\ \A i \in DOMAIN wire : IdOf(wire[i]) \in Sent
  /\ \A i, j \in DOMAIN wire : IdOf(wire[i]) = IdOf(wire[j]) => i = j

(* Behind the last request on its way comes a new one ... *)
LEMMA WireAsked ==
  ASSUME TypeOK, Distinct, NEW r \in Requests, IdOf(r) \notin Sent,
         wire' = wire \/ wire' = Append(wire, r), Sent' = Sent \cup {IdOf(r)}
  PROVE  /\ Distinct'
         /\ wire' \in Seq(Requests)
         /\ \A s : OnWire(s)' => OnWire(s) \/ s = IdOf(r)
         /\ \A i \in DOMAIN wire' : wire'[i] = r \/ (i \in DOMAIN wire /\ wire'[i] = wire[i])
<1>1. wire \in Seq(Requests) /\ DOMAIN wire = 1..Len(wire) /\ Len(wire) \in Nat
  BY LenProperties DEF TypeOK
<1>2. CASE wire' = wire
  BY <1>1, <1>2 DEF Distinct, OnWire
<1>3. CASE wire' = Append(wire, r)
  <2>1. /\ wire' \in Seq(Requests) /\ DOMAIN wire' = 1..Len(wire) + 1
        /\ \A i \in 1..Len(wire) : wire'[i] = wire[i]
        /\ wire'[Len(wire) + 1] = r
    BY <1>1, <1>3, AppendProperties, LenProperties
  <2>2. \A i \in DOMAIN wire' : (i \in DOMAIN wire /\ wire'[i] = wire[i])
                                \/ (i = Len(wire) + 1 /\ wire'[i] = r)
    BY <1>1, <2>1
  <2>3. \A i \in DOMAIN wire : IdOf(wire[i]) # IdOf(r)
    BY DEF Distinct
  <2>4. \A i \in DOMAIN wire' : IdOf(wire'[i]) \in Sent'
    BY <2>2 DEF Distinct
  <2>5. \A i, j \in DOMAIN wire' : IdOf(wire'[i]) = IdOf(wire'[j]) => i = j
    BY <2>2, <2>3 DEF Distinct
  <2> QED BY <2>1, <2>2, <2>4, <2>5 DEF Distinct, OnWire
<1> QED BY <1>2, <1>3

(* ... and the module takes the first. *)
LEMMA WireRead ==
  ASSUME TypeOK, Distinct, wire # <<>>, wire' = Tail(wire), Sent' = Sent
  PROVE  /\ Distinct' /\ wire' \in Seq(Requests) /\ Len(wire') <= Len(wire)
         /\ Head(wire) \in Requests /\ IdOf(Head(wire)) \in Sent
         /\ Head(wire) = wire[1] /\ 1 \in DOMAIN wire /\ OnWire(IdOf(Head(wire)))
         /\ \A s : s = IdOf(Head(wire)) => ~OnWire(s)'
         /\ \A s : OnWire(s)' => OnWire(s)
         /\ \A i \in DOMAIN wire' : i + 1 \in DOMAIN wire /\ wire'[i] = wire[i + 1]
<1>1. wire \in Seq(Requests) /\ DOMAIN wire = 1..Len(wire) /\ Len(wire) \in Nat \ {0}
  BY LenProperties, EmptySeq DEF TypeOK
<1>2. /\ wire' \in Seq(Requests) /\ Len(wire') = Len(wire) - 1
      /\ \A i \in 1..Len(wire') : wire'[i] = wire[i + 1]
      /\ Head(wire) \in Requests
  BY <1>1, HeadTailProperties
<1>3. DOMAIN wire' = 1..Len(wire) - 1
  BY <1>2, LenProperties
<1>4. Head(wire) = wire[1] /\ 1 \in DOMAIN wire
  BY <1>1
<1>5. \A i \in DOMAIN wire' : i + 1 \in DOMAIN wire /\ wire'[i] = wire[i + 1] /\ i + 1 # 1
  BY <1>1, <1>2, <1>3
<1>6. \A i \in DOMAIN wire' : IdOf(wire'[i]) # IdOf(Head(wire))
  BY <1>4, <1>5 DEF Distinct
<1>7. \A i, j \in DOMAIN wire' : IdOf(wire'[i]) = IdOf(wire'[j]) => i = j
  <2> SUFFICES ASSUME NEW i \in DOMAIN wire', NEW j \in DOMAIN wire', IdOf(wire'[i]) = IdOf(wire'[j])
               PROVE  i = j
    OBVIOUS
  <2>1. i + 1 = j + 1
    BY <1>5 DEF Distinct
  <2> QED BY <2>1, <1>3, <1>1
<1>8. \A i \in DOMAIN wire' : IdOf(wire'[i]) \in Sent'
  BY <1>5 DEF Distinct
<1>9. Distinct'
  BY <1>7, <1>8 DEF Distinct
<1>10. OnWire(IdOf(Head(wire))) /\ \A s : s = IdOf(Head(wire)) => ~OnWire(s)'
  BY <1>4, <1>6 DEF OnWire, IdOf
<1>11. \A s : OnWire(s)' => OnWire(s)
  BY <1>5 DEF OnWire, IdOf
<1>12. IdOf(Head(wire)) \in Sent
  BY <1>4 DEF Distinct
<1> QED BY <1>1, <1>2, <1>4, <1>5, <1>9, <1>10, <1>11, <1>12

(* An answer that is heard, or lost. *)
LEMMA AnswersHeard ==
  ASSUME TypeOK, answers # <<>>, answers' = Tail(answers)
  PROVE  /\ answers' \in Seq(Responses) /\ Len(answers') = Len(answers) - 1 /\ Len(answers) \in 1..2
         /\ Head(answers) = answers[1] /\ 1 \in DOMAIN answers /\ Head(answers) \in Responses
         /\ \A i \in DOMAIN answers' : i + 1 \in DOMAIN answers /\ answers'[i] = answers[i + 1]
         /\ Counts(1)' + Counts(2)' = Counts(2)
         /\ Head(answers).m \in {"ack", "value", "version"} => Counts(1) = 1
         /\ Refused' => Refused
         /\ Len(answers) <= 1 => answers' = <<>>
<1>1. answers \in Seq(Responses) /\ DOMAIN answers = 1..Len(answers) /\ Len(answers) \in 1..2
  <2>1. answers \in Seq(Responses) /\ Len(answers) <= 2
    BY DEF TypeOK
  <2>2. Len(answers) \in Nat \ {0}
    BY <2>1, EmptySeq
  <2>3. DOMAIN answers = 1..Len(answers)
    BY <2>1, LenProperties
  <2>4. Len(answers) \in 1..2
    <3> DEFINE n == Len(answers)
    <3>1. n \in Nat \ {0} /\ n <= 2
      BY <2>1, <2>2
    <3> HIDE DEF n
    <3>2. n \in 1..2
      BY <3>1
    <3> QED BY <3>2 DEF n
  <2> QED BY <2>1, <2>3, <2>4
<1>2. /\ answers' \in Seq(Responses) /\ Len(answers') = Len(answers) - 1
      /\ \A i \in 1..Len(answers') : answers'[i] = answers[i + 1]
      /\ Head(answers) \in Responses
  BY <1>1, HeadTailProperties
<1>3. DOMAIN answers' = 1..Len(answers) - 1
  BY <1>2, LenProperties
<1>4. Head(answers) = answers[1] /\ 1 \in DOMAIN answers
  BY <1>1
<1>5. \A i \in DOMAIN answers' : i + 1 \in DOMAIN answers /\ answers'[i] = answers[i + 1]
  BY <1>1, <1>2, <1>3
<1>6. Counts(1)' + Counts(2)' = Counts(2)
  BY <1>1, <1>2 DEF Counts
<1>7. Head(answers).m \in {"ack", "value", "version"} => Counts(1) = 1
  BY <1>1, <1>4 DEF Counts
<1>8. Len(answers) <= 1 => answers' = <<>>
  BY <1>1, <1>2, EmptySeq
<1> QED BY <1>1, <1>2, <1>4, <1>5, <1>6, <1>7, <1>8 DEF Refused

------------------------------------------------------------------------------
(* What a step does to the count. *)
Extra == IF module.l5 /\ OnWire(L5) THEN 2 ELSE 0
Heard == Counts(1) + Counts(2)

CreditFact ==
  TypeOK => /\ Credit = Cardinality(Owed) + Heard + Extra
            /\ Cardinality(Owed) \in Nat /\ Heard \in 0..2 /\ Extra \in {0, 2}
(* The credit in its three parts ... *)
LEMMA CreditIs == CreditFact
<1> SUFFICES ASSUME TypeOK PROVE /\ Credit = Cardinality(Owed) + Heard + Extra
            /\ Cardinality(Owed) \in Nat /\ Heard \in 0..2 /\ Extra \in {0, 2}
  BY DEF CreditFact
<1>1. Cardinality(Owed) \in Nat /\ Counts(1) \in {0, 1} /\ Counts(2) \in {0, 1}
  BY CreditType
<1> QED BY <1>1 DEF Credit, Heard, Extra

(* ... and after a step. *)
LEMMA CreditIsNext == CreditFact'
BY CreditIs, PTL

(* A request that is sent, after or without an answer. *)
LEMMA CreditAsked ==
  ASSUME TypeOK, TypeOK', Distinct, NEW r \in Requests, IdOf(r) \notin Sent,
         wire' = wire \/ wire' = Append(wire, r), Sent' = Sent \cup {IdOf(r)},
         module' = module, Heard' <= Heard
  PROVE  /\ IdOf(r) # L5 => Credit' <= Credit + 1
         /\ IdOf(r) = L5 => Owed' \subseteq Owed /\ Credit' <= Credit + (IF module.l5 THEN 2 ELSE 0)
<1>1. \A s : OnWire(s)' => OnWire(s) \/ s = IdOf(r)
  BY WireAsked
<1>2. Owed' \subseteq Owed \cup {IdOf(r)} /\ (IdOf(r) = L5 => Owed' \subseteq Owed)
  BY <1>1 DEF Owed
<1>3. IdOf(r) # L5 => Extra' <= Extra
  BY <1>1 DEF Extra
<1>4. IdOf(r) = L5 => Extra' <= IF module.l5 THEN 2 ELSE 0
  BY DEF Extra
<1>5. Cardinality(Owed') <= Cardinality(Owed) + 1
  BY <1>2, OwedGrows
<1>6. IdOf(r) = L5 => Cardinality(Owed') <= Cardinality(Owed)
  BY <1>2, OwedShrinks
<1> HIDE DEF Owed
<1> QED BY <1>2, <1>3, <1>4, <1>5, <1>6, CreditIs, CreditIsNext DEF CreditFact

(* Nothing is sent. *)
LEMMA CreditSame ==
  ASSUME TypeOK, TypeOK', wire' = wire, Sent' = Sent,
         module'.applied = module.applied, module'.l5 = module.l5
  PROVE  /\ Owed' = Owed /\ Credit' = Credit - Heard + Heard'
         /\ \A s : OnWire(s)' = OnWire(s)
<1>1. \A s : OnWire(s)' = OnWire(s)
  BY DEF OnWire
<1>2. Owed' = Owed
  BY <1>1 DEF Owed
<1>3. Extra' = Extra
  BY <1>1 DEF Extra
<1> QED BY <1>1, <1>2, <1>3, CreditIs, CreditIsNext DEF CreditFact

(* The module reads a request: it loses it, refuses it or accepts it. *)
LEMMA CreditRead ==
  ASSUME TypeOK, TypeOK', Distinct, wire # <<>>, wire' = Tail(wire), Sent' = Sent, answers = <<>>,
         module'.l5 = module.l5, module.applied \subseteq module'.applied,
         NEW h, h = IdOf(Head(wire)),
         \/ answers' = <<>>
         \/ \E a : answers' = <<a>> /\ a.m = "nak"
         \/ /\ \E a : answers' = <<a>>
            /\ h # L5 /\ (h[1] \in {"version", "baud"} \/ h \in module'.applied)
         \/ h = L5 /\ module.l5 /\ \E a, b : answers' = <<a, b>> /\ a.m # "nak" /\ b.m # "nak"
  PROVE  /\ Credit' <= Credit /\ Owed' \subseteq Owed
         /\ h # L5 => h \in Owed
         /\ h = <<"baud", 0>> /\ Refused' => Credit' <= Credit - 1
         /\ h = L5 /\ Refused' => Extra' = 0 /\ Heard' = 0
<1>1. /\ h \in Sent /\ OnWire(h) /\ ~OnWire(h)'
      /\ \A s : OnWire(s)' => OnWire(s)
  BY WireRead
<1>2. Owed' \subseteq Owed /\ (h # L5 => h \in Owed)
  BY <1>1 DEF Owed
<1>3. Extra' <= Extra /\ (h = L5 => Extra' = 0 /\ (module.l5 => Extra = 2))
  BY <1>1 DEF Extra
<1>4. Heard = 0
  BY EmptySeq DEF Heard, Counts
<1>5. Cardinality(Owed') <= Cardinality(Owed) /\ (h \in Owed /\ h \notin Owed' => Cardinality(Owed') <= Cardinality(Owed) - 1)
  BY <1>2, OwedShrinks
<1>6. CASE answers' = <<>>
  <2>1. Heard' = 0 /\ ~Refused'
    BY <1>6 DEF Heard, Counts, Refused
  <2> HIDE DEF Owed
  <2> QED BY <1>2, <1>3, <1>4, <1>5, <2>1, CreditIs, CreditIsNext DEF CreditFact
<1>7. CASE \E a : answers' = <<a>> /\ a.m = "nak"
  <2>1. Heard' = 0
    BY <1>7 DEF Heard, Counts
  <2>2. h = <<"baud", 0>> => h \notin Owed' /\ h # L5
    BY <1>1 DEF Owed, L5
  <2> QED BY <1>2, <1>3, <1>4, <1>5, <2>1, <2>2, CreditIs, CreditIsNext DEF CreditFact
<1>8. CASE /\ \E a : answers' = <<a>>
           /\ h # L5 /\ (h[1] \in {"version", "baud"} \/ h \in module'.applied)
  <2>1. Heard' <= 1 /\ (Refused' => Heard' = 0)
    BY <1>8 DEF Heard, Counts, Refused
  <2>2. h \notin Owed'
    BY <1>1, <1>8 DEF Owed
  <2> QED BY <1>2, <1>3, <1>4, <1>5, <1>8, <2>1, <2>2, CreditIs, CreditIsNext DEF CreditFact
<1>9. CASE h = L5 /\ module.l5 /\ \E a, b : answers' = <<a, b>> /\ a.m # "nak" /\ b.m # "nak"
  <2>1. Heard' \in 0..2
    BY CreditIsNext DEF CreditFact
  <2>2. ~Refused' /\ h # <<"baud", 0>>
    BY <1>9 DEF Refused, L5
  <2> QED BY <2>2, <1>2, <1>3, <1>4, <1>5, <1>9, <2>1, CreditIs, CreditIsNext DEF CreditFact
<1> QED BY <1>6, <1>7, <1>8, <1>9

------------------------------------------------------------------------------
(* While the dialogue acts, answers are only taken. *)
Taking == answers' = answers \/ (answers # <<>> /\ answers' = Tail(answers))

(* Nothing is heard that was not there before. *)
LEMMA TakingFacts ==
  ASSUME TypeOK, Taking
  PROVE  /\ answers' \in Seq(Responses) /\ Len(answers') <= Len(answers)
         /\ Heard' <= Heard /\ (Refused' => Refused)
         /\ \A i \in DOMAIN answers' : \E j \in DOMAIN answers : answers'[i] = answers[j]
<1>1. CASE answers' = answers
  <2>1. Heard' = Heard /\ Heard \in 0..2 /\ (Refused' => Refused)
    BY <1>1, CreditIs DEF Heard, Counts, Refused, CreditFact
  <2>2. answers \in Seq(Responses) /\ Len(answers) \in Nat
    BY LenProperties DEF TypeOK
  <2> QED BY <1>1, <2>1, <2>2
<1>2. CASE answers # <<>> /\ answers' = Tail(answers)
  <2>1. Heard' = Counts(2) /\ Counts(1) \in {0, 1} /\ Counts(2) \in {0, 1}
    BY <1>2, AnswersHeard DEF Heard, Counts
  <2> QED BY <1>2, <2>1, AnswersHeard DEF Heard
<1> QED BY <1>1, <1>2 DEF Taking

LEMMA TakingType ==
  ASSUME TypeOK, Taking
  PROVE  answers' \in Seq(Responses) /\ Len(answers') <= 2
<1>1. answers' \in Seq(Responses) /\ Len(answers') <= Len(answers) /\ Len(answers) \in Nat /\ Len(answers) <= 2
  BY TakingFacts, LenProperties DEF TypeOK
<1>2. Len(answers') \in Nat
  BY <1>1, LenProperties
<1> QED BY <1>1, <1>2

(* Without credit there is neither a request left nor an answer. *)
LEMMA NothingOwed ==
  ASSUME TypeOK, Credit = 0
  PROVE  Owed = {} /\ Heard = 0
<1>1. Cardinality(Owed) = 0 /\ Heard = 0
  BY CreditIs DEF CreditFact
<1> QED BY <1>1, CreditType, FS_EmptySet

(* How many settings may be missing is a number. *)
LEMMA StraysType == Strays \in Nat
BY DEF Strays

(* Before the version is known nothing else is on its way. *)
LEMMA VersionIsOver ==
  ASSUME TypeOK, DialogueInv, WireInv, AnswerInv, CreditInv, state = "CONFIGURE_BAUD"
  PROVE  /\ \A i \in DOMAIN wire : wire[i].kind # "version"
         /\ answers = <<>> /\ Credit = 0
<1>1. Credit <= 0 /\ ~Refused /\ Len(answers) <= 1 /\ Credit \in Nat
  BY CreditType DEF DialogueInv, CreditInv, AnswerInv, At, BeforeL5, AfterVersion, AfterBaud, AfterNmea,
     AfterUbx, AfterNav5, AfterSbas, AfterL5, AfterGnss, AfterRate, Waiting
<1>2. Credit = 0
  BY <1>1
<1>3. Owed = {} /\ Heard = 0
  BY <1>2, NothingOwed
<1>4. ASSUME NEW i \in DOMAIN wire, wire[i].kind = "version"
      PROVE  FALSE
  <2>1. IdOf(wire[i]) \in Sent /\ IdOf(wire[i]) # L5
    BY <1>4 DEF WireInv, IdOf, L5
  <2>2. OnWire(IdOf(wire[i]))
    BY DEF OnWire
  <2> QED BY <1>3, <2>1, <2>2 DEF Owed
<1>5. ASSUME answers # <<>> PROVE FALSE
  <2>1. 1 \in DOMAIN answers /\ Len(answers) \in Nat \ {0}
    BY <1>5, LenProperties, EmptySeq DEF TypeOK
  <2>2. answers[1].m = "version"
    BY <2>1 DEF AnswerInv, At
  <2>3. Counts(1) = 1 /\ Counts(2) \in {0, 1}
    BY <2>1, <2>2, CreditType DEF Counts
  <2> QED BY <1>3, <2>3 DEF Heard
<1> QED BY <1>2, <1>4, <1>5

(* The handler of a state asks for something: a request is added, and        *)
(* another answer awaited.                                                   *)
Phases == AfterVersion \cup {"DETECT_BAUD"}
Table(from, id, ack, timeout) ==
  \/ from = "DETECT_BAUD" /\ id = <<"version", 0>> /\ ack = "CONFIGURE_BAUD" /\ timeout = "ERROR"
  \/ from = "CONFIGURE_BAUD" /\ id = <<"baud", 0>> /\ ack = "DISABLE_NMEA" /\ timeout = "DISABLE_NMEA"
  \/ from = "DISABLE_NMEA" /\ id[1] = "nmea" /\ ack \in {"DISABLE_NMEA", "ENABLE_UBX"} /\ timeout = "ERROR"
  \/ from = "ENABLE_UBX" /\ id[1] = "ubx" /\ ack \in {"ENABLE_UBX", "ENABLE_NAV5"} /\ timeout = "ERROR"
  \/ from = "ENABLE_NAV5" /\ id = <<"nav5", 0>> /\ ack = "ENABLE_SBAS" /\ timeout = "ERROR"
  \/ from = "ENABLE_SBAS" /\ id = <<"sbas", 0>> /\ ack = "DETECT_GPS_L5" /\ timeout = "ERROR"
  \/ from = "DETECT_GPS_L5" /\ id = L5 /\ ack = "CONFIGURE_GNSS" /\ timeout = "CONFIGURE_GNSS"
  \/ from = "CONFIGURE_GNSS" /\ id = <<"gnss", 0>> /\ ack = "CONFIGURE_NAV_RATE" /\ timeout = "ERROR"
  \/ from = "CONFIGURE_NAV_RATE" /\ id = <<"rate", 0>> /\ ack = "RECEIVE" /\ timeout = "ERROR"

(* A request adds at most one to the credit, which waiting for its answer allows. *)
LEMMA AskedKeeps ==
  ASSUME TypeOK, TypeOK', DialogueInv, WireInv, AnswerInv, CreditInv, Taking,
         NEW r \in Requests, Table(state, IdOf(r), ackState', timeoutState'),
         state' = "WAIT", wire' = wire \/ wire' = Append(wire, r),
         module' = module, late' = late,
         IdOf(r) \notin Sent, Sent' = Sent \cup {IdOf(r)}
  PROVE  WireInv' /\ AnswerInv' /\ CreditInv'
<1> DEFINE from == state
           ack == ackState'
           timeout == timeoutState'
<1>1. /\ At = from /\ At' = ack /\ Waiting = 0 /\ Waiting' = 1 /\ ~AwaitsL5 /\ ~AwaitsBaud
      /\ (AwaitsL5' <=> from = "DETECT_GPS_L5") /\ (AwaitsBaud' => from = "CONFIGURE_BAUD")
      /\ ack \in BeforeL5 => from \in BeforeL5 /\ from # "DETECT_GPS_L5"
      /\ from = "DETECT_GPS_L5" <=> IdOf(r) = L5
      /\ from = "DETECT_GPS_L5" => from \in BeforeL5
      /\ ack \in AfterL5 => from \in AfterL5 \/ from = "DETECT_GPS_L5"
      /\ from \in AfterL5 => ack \in AfterL5
      /\ ack = "CONFIGURE_BAUD" => from = "DETECT_BAUD"
      /\ r.kind = "version" => ack = "CONFIGURE_BAUD"
  BY DEF Table, At, Waiting, AwaitsL5, AwaitsBaud, BeforeL5, AfterVersion, AfterBaud, AfterNmea,
         AfterUbx, AfterNav5, AfterSbas, AfterL5, AfterGnss, AfterRate, L5, IdOf
<1>2. LateBaud' = LateBaud /\ LateBaud \in {0, 1} /\ Strays' = Strays /\ Strays \in Nat
  BY StraysType DEF LateBaud, Strays
<1>3. Distinct
  BY DEF Distinct, WireInv
<1> HIDE DEF from, ack, timeout
<1>4. /\ Heard' <= Heard /\ (Refused' => Refused) /\ Len(answers') <= Len(answers)
      /\ \A i \in DOMAIN answers' : \E j \in DOMAIN answers : answers'[i] = answers[j]
  BY TakingFacts
<1>5. /\ IdOf(r) # L5 => Credit' <= Credit + 1
      /\ IdOf(r) = L5 => Owed' \subseteq Owed /\ Credit' <= Credit + (IF module.l5 THEN 2 ELSE 0)
  BY <1>3, <1>4, CreditAsked
<1>6. Credit \in Nat /\ Credit' \in Nat
  BY CreditIs, CreditIsNext DEF CreditFact
<1>7. WireInv'
  <2>1. Distinct' /\ \A i \in DOMAIN wire' : wire'[i] = r \/ (i \in DOMAIN wire /\ wire'[i] = wire[i])
    BY <1>3, WireAsked
  <2>2. ASSUME NEW i \in DOMAIN wire', wire'[i].kind = "version"
        PROVE  ack = "CONFIGURE_BAUD"
    <3>1. CASE wire'[i] = r
      BY <1>1, <2>2, <3>1
    <3>2. CASE i \in DOMAIN wire /\ wire'[i] = wire[i]
      <4>1. from = "CONFIGURE_BAUD"
        BY <1>1, <2>2, <3>2 DEF WireInv
      <4> QED BY <2>2, <3>2, <4>1, VersionIsOver DEF from
    <3> QED BY <2>1, <3>1, <3>2
  <2> QED BY <1>1, <2>1, <2>2 DEF WireInv, Distinct
<1>8. AnswerInv'
  <2>1. from = "CONFIGURE_BAUD" => answers = <<>>
    BY VersionIsOver DEF from
  <2>2. from = "DETECT_BAUD" => answers = <<>>
    BY DEF DialogueInv, from
  <2>3. \A i \in DOMAIN answers' : answers # <<>>
    BY <1>4
  <2>4. \A i \in DOMAIN answers' : answers'[i].m # "version"
    BY <1>1, <1>4, <2>1, <2>3 DEF AnswerInv
  <2>5. \A i \in DOMAIN answers' : answers'[i].m = "value" => At' \in AfterL5
    BY <1>1, <1>4 DEF AnswerInv
  <2>6. At' \in BeforeL5 \/ Refused' => Len(answers') <= 1
    <3>1. Len(answers) \in Nat /\ Len(answers') \in Nat
      BY LenProperties DEF TypeOK
    <3> QED BY <1>1, <1>4, <3>1 DEF AnswerInv
  <2>7. At' = "CONFIGURE_BAUD" => answers' = <<>>
    BY <1>1, <2>2 DEF Taking
  <2> QED BY <2>3, <2>4, <2>5, <2>6, <2>7 DEF AnswerInv
<1>9. CreditInv'
  <2>1. At' \in BeforeL5 => Credit' <= Waiting' + LateBaud'
    BY <1>1, <1>2, <1>5, <1>6 DEF CreditInv
  <2>2. ~(AwaitsBaud' /\ Refused')
    <3>1. from = "CONFIGURE_BAUD" => answers = <<>>
      BY VersionIsOver DEF from
    <3> QED BY <1>1, <1>4, <3>1, EmptySeq DEF Refused
  <2>3. AwaitsL5' => /\ Credit' <= LateBaud' + (IF module'.l5 THEN 2 ELSE 0)
                     /\ LateBaud' = 0 => Owed' = {} /\ ~Refused'
    <3>1. from = "DETECT_GPS_L5" => /\ Credit <= LateBaud
                                    /\ LateBaud = 0 => ~Refused
      BY <1>1, <1>2 DEF CreditInv, from
    <3>2. from = "DETECT_GPS_L5" /\ LateBaud = 0 => Owed = {}
      BY <1>6, <3>1, NothingOwed
    <3> QED BY <1>1, <1>2, <1>4, <1>5, <1>6, <3>1, <3>2
  <2>4. At' \in AfterL5 /\ ~AwaitsL5' => Credit' <= Waiting' + Strays'
    BY <1>1, <1>2, <1>5, <1>6 DEF CreditInv
  <2> QED BY <2>1, <2>2, <2>3, <2>4 DEF CreditInv
<1> QED BY <1>7, <1>8, <1>9

Asking(r) ==
  /\ r \in Requests /\ Table(state, IdOf(r), ackState', timeoutState')
  /\ state' = "WAIT" /\ (wire' = wire \/ (Len(wire) < Wire /\ wire' = Append(wire, r)))
  /\ late' = late /\ support' = support /\ present' = present /\ gnssMode' = gnssMode /\ expired' = FALSE
  /\ IdOf(r) \notin Sent /\ Sent' = Sent \cup {IdOf(r)}
  /\ r.kind = "baud" => baud' = Target
  /\ r.kind # "baud" => baud' = baud /\ r.baud = baud
  /\ r.kind = "gnss" => "GPS" \in r.signals
  /\ counter' \in 0..Len(Bauds) + NmeaOff + UbxOn
  /\ ackState' = "DISABLE_NMEA" => counter' < NmeaOff
  /\ ackState' = "ENABLE_UBX" => counter' < UbxOn
  /\ ackState' \in {"DISABLE_NMEA", "ENABLE_UBX"} /\ (~isLegacyProto \/ state = "CONFIGURE_BAUD") => counter' = 0

(* What the handlers that ask have in common, part by part of the invariant. *)
LEMMA AskingType ==
  ASSUME TypeOK, NEW r, Asking(r), Taking, module' = module, written' \in 0..Swallowing
  PROVE  TypeOK'
<1>1. wire' \in Seq(Requests) /\ Len(wire') <= Wire
  <2>1. wire \in Seq(Requests) /\ Len(wire) <= Wire /\ Len(wire) \in Nat /\ r \in Requests
    BY LenProperties DEF TypeOK, Asking
  <2>2. CASE wire' = wire
    BY <2>1, <2>2
  <2>3. CASE Len(wire) < Wire /\ wire' = Append(wire, r)
    BY <2>1, <2>3, AppendProperties, GpsAssumption
  <2> QED BY <2>2, <2>3 DEF Asking
<1>2. answers' \in Seq(Responses) /\ Len(answers') <= 2
  BY TakingType
<1>3. ackState' \in States /\ timeoutState' \in States /\ state' \in States
  BY DEF Asking, Table, States
<1>4. baud' \in BaudRange
  BY DEF Asking, TypeOK, BaudRange
<1>5. /\ expired' \in BOOLEAN /\ present' \in BOOLEAN /\ gnssMode' \in GnssModes /\ late' \subseteq States
      /\ support' \in [modern : BOOLEAN, signals : SUBSET Signals]
      /\ counter' \in 0..Len(Bauds) + NmeaOff + UbxOn
  BY DEF Asking, TypeOK
<1> QED BY <1>1, <1>2, <1>3, <1>4, <1>5 DEF TypeOK

(* The state that the answer leads to, and its counter. *)
LEMMA AskingDialogue ==
  ASSUME DialogueInv, NEW r, Asking(r), module' = module
  PROVE  DialogueInv'
<1>1. /\ At' = ackState' /\ At = state
      /\ At' \in AfterVersion
      /\ timeoutState' = IF AwaitsL5' THEN "CONFIGURE_GNSS" ELSE IF AwaitsBaud' THEN "DISABLE_NMEA" ELSE "ERROR"
      /\ At' \in AfterBaud => At \in AfterBaud \/ state = "CONFIGURE_BAUD"
      /\ At' = "CONFIGURE_BAUD" => state = "DETECT_BAUD"
      /\ AwaitsBaud' => state = "CONFIGURE_BAUD"
  BY DEF Asking, Table, At, AwaitsL5, AwaitsBaud, AfterVersion, AfterBaud, AfterNmea,
         AfterUbx, AfterNav5, AfterSbas, AfterL5, AfterGnss, AfterRate
<1>2. ~present' /\ state' = "WAIT"
  <2>1. state # "RECEIVE"
    BY DEF Asking, Table
  <2> QED BY <2>1 DEF Asking, DialogueInv
<1>3. LateBaud' = LateBaud /\ (isLegacyProto' <=> isLegacyProto) /\ support' = support
  BY DEF Asking, LateBaud, isLegacyProto
<1>4. At' \in AfterBaud => support'.modern = module'.modern /\ support'.signals = module'.offers
  BY <1>1, <1>3 DEF DialogueInv
<1>5. At' \in {"DETECT_BAUD", "GET_VERSION", "CONFIGURE_BAUD"} \/ AwaitsBaud' => LateBaud' = 0
  <2>1. At' = "CONFIGURE_BAUD" \/ AwaitsBaud' => LateBaud = 0
    BY <1>1 DEF DialogueInv
  <2>2. At' \notin {"DETECT_BAUD", "GET_VERSION"}
    BY <1>1 DEF AfterVersion, AfterBaud, AfterNmea,
         AfterUbx, AfterNav5, AfterSbas, AfterL5, AfterGnss, AfterRate
  <2> QED BY <1>3, <2>1, <2>2
<1>6. /\ At' = "DISABLE_NMEA" => counter' < NmeaOff
      /\ At' = "ENABLE_UBX" => counter' < UbxOn
      /\ AwaitsBaud' => counter' = 0
      /\ At' \in {"DISABLE_NMEA", "ENABLE_UBX"} /\ ~isLegacyProto' => counter' = 0
  BY <1>1, <1>3 DEF Asking, AwaitsBaud
<1> QED BY <1>1, <1>2, <1>4, <1>5, <1>6 DEF DialogueInv

(* The request that changes the rate is the last one before the target rate. *)
LEMMA AskingRate ==
  ASSUME TypeOK, DialogueInv, WireInv, AnswerInv, CreditInv, RateInv, NEW r, Asking(r), Taking, module' = module
  PROVE  RateInv'
<1>1. /\ At' = ackState' /\ At = state /\ state # "WAIT" /\ state' = "WAIT"
      /\ At' \in AfterBaud => At \in AfterBaud \/ state = "CONFIGURE_BAUD"
      /\ state = "CONFIGURE_BAUD" <=> r.kind = "baud"
      /\ At \in {"CONFIGURE_BAUD", "DISABLE_NMEA"} => At' \in {"DISABLE_NMEA", "ENABLE_UBX"}
  BY DEF Asking, Table, At, AfterVersion, AfterBaud, AfterNmea,
         AfterUbx, AfterNav5, AfterSbas, AfterL5, AfterGnss, AfterRate, L5, IdOf
<1>2. /\ \A i \in DOMAIN wire' : wire'[i] = r \/ (i \in DOMAIN wire /\ wire'[i] = wire[i])
      /\ \A i \in DOMAIN answers' : \E j \in DOMAIN answers : answers'[i] = answers[j]
  BY WireAsked, TakingFacts DEF Asking, WireInv, Distinct
<1>3. CASE state = "CONFIGURE_BAUD"
  <2>1. answers = <<>> /\ \A i \in DOMAIN wire : wire[i].kind # "version"
    BY <1>3, VersionIsOver
  <2>2. \A i \in DOMAIN wire : wire[i].kind = "version"
    BY <1>1, <1>3 DEF WireInv, Sent, SentBy, IdOf, AfterVersion, AfterBaud, AfterNmea,
         AfterUbx, AfterNav5, AfterSbas, AfterL5, AfterGnss, AfterRate
  <2>3. \A i \in DOMAIN wire' : wire'[i].kind = "baud"
    BY <1>1, <1>2, <1>3, <2>1, <2>2
  <2>4. \A i \in DOMAIN answers' : FALSE
    BY <1>2, <2>1
  <2> QED BY <1>1, <1>3, <2>3, <2>4 DEF RateInv, Asking
<1>4. CASE state # "CONFIGURE_BAUD" /\ At' \in AfterBaud
  <2>1. /\ baud = Target /\ \A i \in DOMAIN wire : wire[i].kind # "baud" => wire[i].baud = Target
        /\ module.baud # Target => At = "DISABLE_NMEA" /\ \A i \in DOMAIN answers : answers[i].baud # Target
    BY <1>1, <1>4 DEF RateInv
  <2>2. baud' = Target /\ r.baud = Target
    BY <1>1, <1>4, <2>1 DEF Asking
  <2>3. \A i \in DOMAIN wire' : wire'[i].kind # "baud" => wire'[i].baud = Target
    BY <1>2, <2>1, <2>2
  <2>4. module'.baud # Target =>
          At' \in {"DISABLE_NMEA", "ENABLE_UBX"} /\ \A i \in DOMAIN answers' : answers'[i].baud # Target
    BY <1>1, <1>2, <2>1
  <2> QED BY <1>1, <2>2, <2>3, <2>4 DEF RateInv
<1> QED BY <1>3, <1>4 DEF RateInv

(* A handler that asks keeps the invariant. *)
LEMMA AskingKeeps ==
  ASSUME GpsInv, state # "ERROR", NEW r, Asking(r), Taking, module' = module, written' \in 0..Swallowing
  PROVE  GpsInv'
<1>1. TypeOK /\ DialogueInv /\ WireInv /\ AnswerInv /\ CreditInv /\ RateInv /\ SignalInv
  BY DEF GpsInv
<1>2. TypeOK'
  BY <1>1, AskingType
<1>3. DialogueInv' /\ RateInv'
  BY <1>1, AskingDialogue, AskingRate
<1>4. WireInv' /\ AnswerInv' /\ CreditInv'
  BY <1>1, <1>2, AskedKeeps DEF Asking
<1>5. \A i \in DOMAIN wire' : wire'[i] = r \/ (i \in DOMAIN wire /\ wire'[i] = wire[i])
  BY <1>1, WireAsked DEF Asking, WireInv, Distinct
<1>6. SignalInv'
  BY <1>1, <1>5 DEF SignalInv, Asking
<1>7. UsedInv'
  <2>1. ~present'
    BY <1>1 DEF Asking, Table, DialogueInv
  <2> QED BY <2>1 DEF UsedInv
<1> QED BY <1>2, <1>3, <1>4, <1>6, <1>7 DEF GpsInv

------------------------------------------------------------------------------
(* The handlers one by one. *)
LEMMA SentIs ==
  ASSUME NEW k \in Kinds, NEW n \in 0..NmeaOff + UbxOn, ~SentBy(k, n),
         \A kind \in Kinds, i \in 0..NmeaOff + UbxOn : SentBy(kind, i)' <=> SentBy(kind, i) \/ (kind = k /\ i = n)
  PROVE  <<k, n>> \notin Sent /\ Sent' = Sent \cup {<<k, n>>}
<1>1. \A s \in Ids : s[1] \in Kinds /\ s[2] \in 0..NmeaOff + UbxOn /\ s = <<s[1], s[2]>>
  BY DEF Ids
<1>2. \A s \in Ids : SentBy(s[1], s[2])' <=> SentBy(s[1], s[2]) \/ s = <<k, n>>
  <2> SUFFICES ASSUME NEW s \in Ids PROVE SentBy(s[1], s[2])' <=> SentBy(s[1], s[2]) \/ s = <<k, n>>
    OBVIOUS
  <2>1. SentBy(s[1], s[2])' <=> SentBy(s[1], s[2]) \/ (s[1] = k /\ s[2] = n)
    BY <1>1
  <2> QED BY <1>1, <2>1
<1>3. <<k, n>> \in Ids
  BY DEF Ids
<1>4. \A s \in Ids : s \in Sent' <=> s \in Sent \/ s = <<k, n>>
  BY <1>2 DEF Sent
<1>5. Sent \subseteq Ids /\ Sent' \subseteq Ids
  BY DEF Sent, Ids
<1>6. <<k, n>> \notin Sent
  BY DEF Sent
<1> QED BY <1>3, <1>4, <1>5, <1>6

(* A request is known by its kind and index. *)
LEMMA RequestIs ==
  ASSUME TypeOK, NEW kind \in Kinds, NEW i \in 0..NmeaOff + UbxOn
  PROVE  /\ Request(kind, i) \in Requests /\ IdOf(Request(kind, i)) = <<kind, i>>
         /\ Request(kind, i).kind = kind /\ Request(kind, i).baud = baud
BY DEF Request, Requests, IdOf, TypeOK

(* The indices of the tables are indices of requests. *)
LEMMA SomeIds ==
  /\ Len(Bauds) \in Nat /\ NmeaOff \in Nat \ {0} /\ UbxOn \in Nat \ {0} /\ 0 \in 0..NmeaOff + UbxOn
  /\ \A n \in Nat : n < NmeaOff \/ n < UbxOn => n \in 0..NmeaOff + UbxOn
BY GpsAssumption, LenProperties

(* MON-VER. *)
LEMMA ReadVersionAsks ==
  ASSUME GpsInv, state = "DETECT_BAUD", ReadVersion
  PROVE  \E r : Asking(r)
<1> DEFINE r == Request("version", 0)
<1>1. TypeOK /\ DialogueInv
  BY DEF GpsInv
<1>2. r \in Requests /\ IdOf(r) = <<"version", 0>> /\ r.kind = "version" /\ r.baud = baud
  BY <1>1, RequestIs, SomeIds DEF Kinds
<1>3. /\ wire' = (IF Len(wire) < Wire THEN Append(wire, r) ELSE wire)
      /\ state' = "WAIT" /\ ackState' = "CONFIGURE_BAUD" /\ timeoutState' = "ERROR" /\ expired' = FALSE
      /\ late' = late /\ support' = support /\ present' = present /\ gnssMode' = gnssMode
      /\ counter' = counter /\ baud' = baud
  BY DEF ReadVersion, Transmit, Keep
<1> HIDE DEF r
<1>4. <<"version", 0>> \notin Sent /\ Sent' = Sent \cup {<<"version", 0>>}
  <2>1. At = "DETECT_BAUD" /\ At' = "CONFIGURE_BAUD"
    BY <1>3 DEF At
  <2>2. /\ ~SentBy("version", 0)
        /\ \A kind \in Kinds, i \in 0..NmeaOff + UbxOn :
              SentBy(kind, i)' <=> SentBy(kind, i) \/ (kind = "version" /\ i = 0)
    BY <2>1 DEF SentBy, Kinds, AfterVersion, AfterBaud, AfterNmea,
         AfterUbx, AfterNav5, AfterSbas, AfterL5, AfterGnss, AfterRate
  <2> QED BY <2>2, SentIs, SomeIds DEF Kinds
<1>5. Asking(r)
  BY <1>1, <1>2, <1>3, <1>4 DEF Asking, Table, TypeOK
<1> QED BY <1>5

(* CFG-PRT or CFG-VALSET of the rate. *)
LEMMA ConfigureBaudAsks ==
  ASSUME GpsInv, state = "CONFIGURE_BAUD", ConfigureBaud
  PROVE  \E r : Asking(r)
<1> DEFINE r == Request("baud", 0)
<1>1. TypeOK /\ DialogueInv
  BY DEF GpsInv
<1>2. r \in Requests /\ IdOf(r) = <<"baud", 0>> /\ r.kind = "baud" /\ r.baud = baud
  BY <1>1, RequestIs, SomeIds DEF Kinds
<1>3. /\ wire' = (IF Len(wire) < Wire THEN Append(wire, r) ELSE wire)
      /\ state' = "WAIT" /\ ackState' = "DISABLE_NMEA" /\ timeoutState' = "DISABLE_NMEA" /\ expired' = FALSE
      /\ late' = late /\ support' = support /\ present' = present /\ gnssMode' = gnssMode
      /\ counter' = 0 /\ baud' = Target
  BY <1>1 DEF ConfigureBaud, Transmit, Keep, DialogueInv
<1> HIDE DEF r
<1>4. <<"baud", 0>> \notin Sent /\ Sent' = Sent \cup {<<"baud", 0>>}
  <2>1. At = "CONFIGURE_BAUD" /\ At' = "DISABLE_NMEA"
    BY <1>3 DEF At
  <2>2. /\ ~SentBy("baud", 0)
        /\ \A kind \in Kinds, i \in 0..NmeaOff + UbxOn :
              SentBy(kind, i)' <=> SentBy(kind, i) \/ (kind = "baud" /\ i = 0)
    BY <1>3, <2>1 DEF SentBy, Kinds, AfterVersion, AfterBaud, AfterNmea,
         AfterUbx, AfterNav5, AfterSbas, AfterL5, AfterGnss, AfterRate
  <2> QED BY <2>2, SentIs, SomeIds DEF Kinds
<1>5. Asking(r)
  BY <1>1, <1>2, <1>3, <1>4, SomeIds DEF Asking, Table
<1> QED BY <1>5

(* The messages, one after the other with the old protocol. *)
LEMMA OneByOneAsks ==
  ASSUME GpsInv,
         \/ state = "DISABLE_NMEA" /\ DisableNmea
         \/ state = "ENABLE_UBX" /\ EnableUbx
  PROVE  \E r : Asking(r)
<1>1. TypeOK /\ DialogueInv
  BY DEF GpsInv
<1>2. counter \in Nat /\ (isLegacyProto \/ counter = 0) /\ counter \in 0..Len(Bauds) + NmeaOff + UbxOn
  BY <1>1 DEF TypeOK, DialogueInv, At
<1>3. ASSUME state = "DISABLE_NMEA", DisableNmea PROVE Asking(Request("nmea", counter))
  <2> DEFINE r == Request("nmea", counter)
  <2>1. counter < NmeaOff /\ counter \in 0..NmeaOff + UbxOn
    BY <1>1, <1>2, <1>3, SomeIds DEF DialogueInv, At
  <2>2. r \in Requests /\ IdOf(r) = <<"nmea", counter>> /\ r.kind = "nmea" /\ r.baud = baud
    BY <1>1, <2>1, RequestIs DEF Kinds
  <2>3. /\ wire' = (IF Len(wire) < Wire THEN Append(wire, r) ELSE wire)
        /\ state' = "WAIT" /\ timeoutState' = "ERROR" /\ expired' = FALSE
        /\ late' = late /\ support' = support /\ present' = present /\ gnssMode' = gnssMode /\ baud' = baud
        /\ \/ isLegacyProto /\ counter + 1 < NmeaOff /\ ackState' = "DISABLE_NMEA" /\ counter' = counter + 1
           \/ isLegacyProto /\ counter + 1 >= NmeaOff /\ ackState' = "ENABLE_UBX" /\ counter' = 0
           \/ ~isLegacyProto /\ ackState' = "ENABLE_UBX" /\ counter' = 0 /\ counter = 0
    BY <1>2, <1>3, SomeIds DEF DisableNmea, OneByOne, Transmit, Keep
  <2> HIDE DEF r
  <2>4. <<"nmea", counter>> \notin Sent /\ Sent' = Sent \cup {<<"nmea", counter>>}
    <3>1. At = "DISABLE_NMEA" /\ At' = ackState' /\ (isLegacyProto' <=> isLegacyProto)
      BY <1>3, <2>3 DEF At, isLegacyProto
    <3>2. /\ ~SentBy("nmea", counter)
          /\ \A kind \in Kinds, i \in 0..NmeaOff + UbxOn :
                SentBy(kind, i)' <=> SentBy(kind, i) \/ (kind = "nmea" /\ i = counter)
      BY <1>2, <2>1, <2>3, <3>1, SomeIds DEF SentBy, Every, Kinds, AfterVersion, AfterBaud, AfterNmea,
         AfterUbx, AfterNav5, AfterSbas, AfterL5, AfterGnss, AfterRate
    <3> QED BY <2>1, <3>2, SentIs DEF Kinds
  <2>5. Asking(r)
    BY <1>2, <1>3, <2>1, <2>2, <2>3, <2>4, SomeIds DEF Asking, Table
  <2> QED BY <2>5 DEF r
<1>4. ASSUME state = "ENABLE_UBX", EnableUbx PROVE Asking(Request("ubx", counter))
  <2> DEFINE r == Request("ubx", counter)
  <2>1. counter < UbxOn /\ counter \in 0..NmeaOff + UbxOn
    BY <1>1, <1>2, <1>4, SomeIds DEF DialogueInv, At
  <2>2. r \in Requests /\ IdOf(r) = <<"ubx", counter>> /\ r.kind = "ubx" /\ r.baud = baud
    BY <1>1, <2>1, RequestIs DEF Kinds
  <2>3. /\ wire' = (IF Len(wire) < Wire THEN Append(wire, r) ELSE wire)
        /\ state' = "WAIT" /\ timeoutState' = "ERROR" /\ expired' = FALSE
        /\ late' = late /\ support' = support /\ present' = present /\ gnssMode' = gnssMode /\ baud' = baud
        /\ \/ isLegacyProto /\ counter + 1 < UbxOn /\ ackState' = "ENABLE_UBX" /\ counter' = counter + 1
           \/ isLegacyProto /\ counter + 1 >= UbxOn /\ ackState' = "ENABLE_NAV5" /\ counter' = 0
           \/ ~isLegacyProto /\ ackState' = "ENABLE_NAV5" /\ counter' = 0 /\ counter = 0
    BY <1>2, <1>4, SomeIds DEF EnableUbx, OneByOne, Transmit, Keep
  <2> HIDE DEF r
  <2>4. <<"ubx", counter>> \notin Sent /\ Sent' = Sent \cup {<<"ubx", counter>>}
    <3>1. At = "ENABLE_UBX" /\ At' = ackState' /\ (isLegacyProto' <=> isLegacyProto)
      BY <1>4, <2>3 DEF At, isLegacyProto
    <3>2. /\ ~SentBy("ubx", counter)
          /\ \A kind \in Kinds, i \in 0..NmeaOff + UbxOn :
                SentBy(kind, i)' <=> SentBy(kind, i) \/ (kind = "ubx" /\ i = counter)
      BY <1>2, <2>1, <2>3, <3>1, SomeIds DEF SentBy, Every, Kinds, AfterVersion, AfterBaud, AfterNmea,
         AfterUbx, AfterNav5, AfterSbas, AfterL5, AfterGnss, AfterRate
    <3> QED BY <2>1, <3>2, SentIs DEF Kinds
  <2>5. Asking(r)
    BY <1>2, <1>4, <2>1, <2>2, <2>3, <2>4, SomeIds DEF Asking, Table
  <2> QED BY <2>5 DEF r
<1> QED BY <1>3, <1>4
(* CFG-NAV5. *)
LEMMA EnableNav5Asks ==
  ASSUME GpsInv, state = "ENABLE_NAV5", EnableNav5
  PROVE  \E r : Asking(r)
<1> DEFINE r == Request("nav5", 0)
<1>1. TypeOK /\ DialogueInv
  BY DEF GpsInv
<1>2. r \in Requests /\ IdOf(r) = <<"nav5", 0>> /\ r.kind = "nav5" /\ r.baud = baud
  BY <1>1, RequestIs, SomeIds DEF Kinds
<1>3. /\ wire' = (IF Len(wire) < Wire THEN Append(wire, r) ELSE wire)
      /\ state' = "WAIT" /\ ackState' = "ENABLE_SBAS" /\ timeoutState' = "ERROR" /\ expired' = FALSE
      /\ late' = late /\ support' = support /\ present' = present /\ gnssMode' = gnssMode
      /\ counter' = counter /\ baud' = baud
  BY DEF EnableNav5, Transmit, Keep
<1> HIDE DEF r
<1>4. <<"nav5", 0>> \notin Sent /\ Sent' = Sent \cup {<<"nav5", 0>>}
  <2>1. At = "ENABLE_NAV5" /\ At' = "ENABLE_SBAS" /\ (isLegacyProto' <=> isLegacyProto)
    BY <1>3 DEF At, isLegacyProto
  <2>2. /\ ~SentBy("nav5", 0)
        /\ \A kind \in Kinds, i \in 0..NmeaOff + UbxOn :
              SentBy(kind, i)' <=> SentBy(kind, i) \/ (kind = "nav5" /\ i = 0)
    BY <1>3, <2>1 DEF SentBy, Every, Kinds, AfterVersion, AfterBaud, AfterNmea,
         AfterUbx, AfterNav5, AfterSbas, AfterL5, AfterGnss, AfterRate
  <2> QED BY <2>2, SentIs, SomeIds DEF Kinds
<1>5. Asking(r)
  BY <1>1, <1>2, <1>3, <1>4, SomeIds DEF Asking, Table, TypeOK
<1> QED BY <1>5

(* CFG-SBAS, of a module that has it. *)
LEMMA EnableSbasAsks ==
  ASSUME GpsInv, state = "ENABLE_SBAS", EnableSbas, "SBAS" \in support.signals
  PROVE  \E r : Asking(r)
<1> DEFINE r == Request("sbas", 0)
<1>1. TypeOK /\ DialogueInv
  BY DEF GpsInv
<1>2. r \in Requests /\ IdOf(r) = <<"sbas", 0>> /\ r.kind = "sbas" /\ r.baud = baud
  BY <1>1, RequestIs, SomeIds DEF Kinds
<1>3. /\ wire' = (IF Len(wire) < Wire THEN Append(wire, r) ELSE wire)
      /\ state' = "WAIT" /\ ackState' = "DETECT_GPS_L5" /\ timeoutState' = "ERROR" /\ expired' = FALSE
      /\ late' = late /\ support' = support /\ present' = present /\ gnssMode' = gnssMode
      /\ counter' = counter /\ baud' = baud
  BY DEF EnableSbas, Transmit, Keep
<1> HIDE DEF r
<1>4. <<"sbas", 0>> \notin Sent /\ Sent' = Sent \cup {<<"sbas", 0>>}
  <2>1. At = "ENABLE_SBAS" /\ At' = "DETECT_GPS_L5" /\ (isLegacyProto' <=> isLegacyProto)
    BY <1>3 DEF At, isLegacyProto
  <2>2. /\ ~SentBy("sbas", 0)
        /\ \A kind \in Kinds, i \in 0..NmeaOff + UbxOn :
              SentBy(kind, i)' <=> SentBy(kind, i) \/ (kind = "sbas" /\ i = 0)
    BY <1>3, <2>1 DEF SentBy, Every, Kinds, AfterVersion, AfterBaud, AfterNmea,
         AfterUbx, AfterNav5, AfterSbas, AfterL5, AfterGnss, AfterRate
  <2> QED BY <2>2, SentIs, SomeIds DEF Kinds
<1>5. Asking(r)
  BY <1>1, <1>2, <1>3, <1>4, SomeIds DEF Asking, Table, TypeOK
<1> QED BY <1>5

(* CFG-VALGET of the L5 switch. *)
LEMMA DetectGpsL5Asks ==
  ASSUME GpsInv, state = "DETECT_GPS_L5", DetectGpsL5
  PROVE  \E r : Asking(r)
<1> DEFINE r == Request("l5", 0)
<1>1. TypeOK /\ DialogueInv
  BY DEF GpsInv
<1>2. r \in Requests /\ IdOf(r) = <<"l5", 0>> /\ r.kind = "l5" /\ r.baud = baud
  BY <1>1, RequestIs, SomeIds DEF Kinds
<1>3. /\ wire' = (IF Len(wire) < Wire THEN Append(wire, r) ELSE wire)
      /\ state' = "WAIT" /\ ackState' = "CONFIGURE_GNSS" /\ timeoutState' = "CONFIGURE_GNSS" /\ expired' = FALSE
      /\ late' = late /\ support' = support /\ present' = present /\ gnssMode' = gnssMode
      /\ counter' = counter /\ baud' = baud
  BY DEF DetectGpsL5, Transmit, Keep
<1> HIDE DEF r
<1>4. <<"l5", 0>> \notin Sent /\ Sent' = Sent \cup {<<"l5", 0>>}
  <2>1. At = "DETECT_GPS_L5" /\ At' = "CONFIGURE_GNSS" /\ (isLegacyProto' <=> isLegacyProto)
    BY <1>3 DEF At, isLegacyProto
  <2>2. /\ ~SentBy("l5", 0)
        /\ \A kind \in Kinds, i \in 0..NmeaOff + UbxOn :
              SentBy(kind, i)' <=> SentBy(kind, i) \/ (kind = "l5" /\ i = 0)
    BY <1>3, <2>1 DEF SentBy, Every, Kinds, AfterVersion, AfterBaud, AfterNmea,
         AfterUbx, AfterNav5, AfterSbas, AfterL5, AfterGnss, AfterRate
  <2> QED BY <2>2, SentIs, SomeIds DEF Kinds
<1>5. Asking(r)
  BY <1>1, <1>2, <1>3, <1>4, SomeIds DEF Asking, Table, TypeOK, L5
<1> QED BY <1>5

(* CFG-GNSS: GPS is among what it turns on, whatever the mode. *)
LEMMA ConfigureGnssAsks ==
  ASSUME GpsInv, state = "CONFIGURE_GNSS", ConfigureGnss
  PROVE  \E r : Asking(r)
<1> DEFINE r == [Request("gnss", 0) EXCEPT !.signals = EnabledSignals(gnssMode, support.signals)]
<1>1. TypeOK /\ DialogueInv
  BY DEF GpsInv
<1>2. r \in Requests /\ IdOf(r) = <<"gnss", 0>> /\ r.kind = "gnss" /\ r.baud = baud /\ "GPS" \in r.signals
  <2>1. Request("gnss", 0) \in Requests /\ Request("gnss", 0) = [kind |-> "gnss", i |-> 0, signals |-> {}, baud |-> baud]
    BY <1>1, RequestIs, SomeIds DEF Kinds, Request
  <2>2. gnssMode \in 0..5 /\ support.signals \subseteq Signals /\ "GPS" \in support.signals
    <3>1. At \in AfterBaud
      BY DEF At, AfterBaud, AfterNmea, AfterUbx, AfterNav5, AfterSbas, AfterL5
    <3>2. support.signals = module.offers /\ "GPS" \in module.offers
      BY <1>1, <3>1 DEF DialogueInv, GpsInv, SignalInv
    <3>3. gnssMode \in 0..5 /\ support.signals \subseteq Signals
      BY <1>1, GpsAssumption DEF TypeOK
    <3> QED BY <3>2, <3>3
  <2>3. /\ EnabledSignals(gnssMode, support.signals) \subseteq Signals
        /\ "GPS" \in EnabledSignals(gnssMode, support.signals)
    BY <2>2 DEF EnabledSignals, Signals
  <2> HIDE DEF Signals
  <2>4. r = [kind |-> "gnss", i |-> 0, signals |-> EnabledSignals(gnssMode, support.signals), baud |-> baud]
    BY <2>1
  <2>5. baud \in BaudRange
    BY <1>1 DEF TypeOK
  <2> QED BY <2>3, <2>4, <2>5, SomeIds DEF Requests, IdOf, Kinds
<1>3. /\ wire' = (IF Len(wire) < Wire THEN Append(wire, r) ELSE wire)
      /\ state' = "WAIT" /\ ackState' = "CONFIGURE_NAV_RATE" /\ timeoutState' = "ERROR" /\ expired' = FALSE
      /\ late' = late /\ support' = support /\ present' = present /\ gnssMode' = gnssMode
      /\ counter' = counter /\ baud' = baud
  BY DEF ConfigureGnss, Transmit, Keep
<1> HIDE DEF r
<1>4. <<"gnss", 0>> \notin Sent /\ Sent' = Sent \cup {<<"gnss", 0>>}
  <2>1. At = "CONFIGURE_GNSS" /\ At' = "CONFIGURE_NAV_RATE" /\ (isLegacyProto' <=> isLegacyProto)
    BY <1>3 DEF At, isLegacyProto
  <2>2. /\ ~SentBy("gnss", 0)
        /\ \A kind \in Kinds, i \in 0..NmeaOff + UbxOn :
              SentBy(kind, i)' <=> SentBy(kind, i) \/ (kind = "gnss" /\ i = 0)
    BY <1>3, <2>1 DEF SentBy, Every, Kinds, AfterVersion, AfterBaud, AfterNmea,
         AfterUbx, AfterNav5, AfterSbas, AfterL5, AfterGnss, AfterRate
  <2> QED BY <2>2, SentIs, SomeIds DEF Kinds
<1>5. Asking(r)
  BY <1>1, <1>2, <1>3, <1>4, SomeIds DEF Asking, Table, TypeOK
<1> QED BY <1>5

(* CFG-RATE, the last one. *)
LEMMA ConfigureRateAsks ==
  ASSUME GpsInv, state = "CONFIGURE_NAV_RATE", ConfigureRate
  PROVE  \E r : Asking(r)
<1> DEFINE r == Request("rate", 0)
<1>1. TypeOK /\ DialogueInv
  BY DEF GpsInv
<1>2. r \in Requests /\ IdOf(r) = <<"rate", 0>> /\ r.kind = "rate" /\ r.baud = baud
  BY <1>1, RequestIs, SomeIds DEF Kinds
<1>3. /\ wire' = (IF Len(wire) < Wire THEN Append(wire, r) ELSE wire)
      /\ state' = "WAIT" /\ ackState' = "RECEIVE" /\ timeoutState' = "ERROR" /\ expired' = FALSE
      /\ late' = late /\ support' = support /\ present' = present /\ gnssMode' = gnssMode
      /\ counter' = counter /\ baud' = baud
  BY DEF ConfigureRate, Transmit, Keep
<1> HIDE DEF r
<1>4. <<"rate", 0>> \notin Sent /\ Sent' = Sent \cup {<<"rate", 0>>}
  <2>1. At = "CONFIGURE_NAV_RATE" /\ At' = "RECEIVE" /\ (isLegacyProto' <=> isLegacyProto)
    BY <1>3 DEF At, isLegacyProto
  <2>2. /\ ~SentBy("rate", 0)
        /\ \A kind \in Kinds, i \in 0..NmeaOff + UbxOn :
              SentBy(kind, i)' <=> SentBy(kind, i) \/ (kind = "rate" /\ i = 0)
    BY <1>3, <2>1 DEF SentBy, Every, Kinds, AfterVersion, AfterBaud, AfterNmea,
         AfterUbx, AfterNav5, AfterSbas, AfterL5, AfterGnss, AfterRate
  <2> QED BY <2>2, SentIs, SomeIds DEF Kinds
<1>5. Asking(r)
  BY <1>1, <1>2, <1>3, <1>4, SomeIds DEF Asking, Table, TypeOK
<1> QED BY <1>5

------------------------------------------------------------------------------
(* Nothing is asked: an answer is taken, or the dialogue goes on as it was.  *)
SameModule ==
  /\ module'.baud = module.baud /\ module'.modern = module.modern /\ module'.l5 = module.l5
  /\ module'.offers = module.offers /\ module'.signals = module.signals /\ module'.applied = module.applied

(* Without a request the credit can only shrink. *)
LEMMA QuietKeeps ==
  ASSUME TypeOK, TypeOK', WireInv, AnswerInv, Taking, wire' = wire, SameModule, Sent' = Sent,
         At = "CONFIGURE_BAUD" <=> At' = "CONFIGURE_BAUD",
         At \in AfterL5 => At' \in AfterL5, At' \in BeforeL5 => At \in BeforeL5
  PROVE  /\ WireInv' /\ AnswerInv'
         /\ Owed' = Owed /\ Credit' = Credit - Heard + Heard' /\ Credit' <= Credit
         /\ Credit \in Nat /\ Credit' \in Nat /\ (Refused' => Refused)
<1>1. /\ answers' \in Seq(Responses) /\ Len(answers') <= Len(answers)
      /\ Heard' <= Heard /\ (Refused' => Refused)
      /\ \A i \in DOMAIN answers' : \E j \in DOMAIN answers : answers'[i] = answers[j]
  BY TakingFacts
<1>2. Owed' = Owed /\ Credit' = Credit - Heard + Heard'
  BY CreditSame DEF SameModule
<1>3. Credit \in Nat /\ Credit' \in Nat /\ Heard \in 0..2 /\ Heard' \in 0..2
  BY CreditIs, CreditIsNext DEF CreditFact
<1>4. WireInv'
  BY DEF WireInv
<1>5. Len(answers) \in Nat /\ Len(answers') \in Nat
  BY <1>1, LenProperties DEF TypeOK
<1>6. AnswerInv'
  BY <1>1, <1>5 DEF AnswerInv
<1>7. Credit' <= Credit
  <2>1. \A c, h, k \in Nat : k <= h => c - h + k <= c
    OBVIOUS
  <2>2. Heard \in Nat /\ Heard' \in Nat /\ Heard' <= Heard
    BY <1>1, <1>3
  <2> QED BY <1>2, <1>3, <2>1, <2>2
<1> QED BY <1>1, <1>2, <1>3, <1>4, <1>6, <1>7

(* While the rate is settled, or the state stays, nothing changes about it. *)
LEMMA QuietRate ==
  ASSUME TypeOK, RateInv, Taking, wire' = wire, SameModule, baud' = baud,
         At' = At /\ (state' = state \/ (At \in AfterBaud => module.baud = Target \/ At = "DISABLE_NMEA"))
  PROVE  RateInv'
<1>1. \A i \in DOMAIN answers' : \E j \in DOMAIN answers : answers'[i] = answers[j]
  BY TakingFacts
<1> QED BY <1>1 DEF RateInv, SameModule

(* What is left to configure is finite. *)
LEMMA RequiredType ==
  ASSUME TypeOK
  PROVE  IsFiniteSet(Required \ module.applied) /\ Cardinality(Required \ module.applied) \in Nat
<1>1. IsFiniteSet(Ids)
  BY IdsFinite
<1>2. Required \subseteq Ids
  BY GpsAssumption DEF Required, Kinds, Ids
<1>3. IsFiniteSet(Required \ module.applied)
  BY <1>1, <1>2, FS_Subset
<1> QED BY <1>3, FS_CardinalityType

(* WAIT goes on to the next state. *)
Advance ==
  /\ state = "WAIT" /\ state' = ackState /\ ackState' = ackState /\ timeoutState' = timeoutState
  /\ wire' = wire /\ baud' = baud /\ module' = module /\ ~present'
  /\ late' = late \/ late' = late \cup {timeoutState}
  /\ \/ At # "CONFIGURE_BAUD" /\ counter' = counter /\ support' = support
     \/ At \in AfterL5 /\ counter' = 0 /\ support' = support
     \/ At = "CONFIGURE_BAUD" /\ counter' = 0
        /\ support'.modern = module.modern /\ support'.signals = module.offers

(* The way is that of the positive answer, also when a timeout takes it. *)
LEMMA AdvanceDialogue ==
  ASSUME TypeOK, DialogueInv, Advance
  PROVE  /\ At' = At /\ Sent' = Sent /\ DialogueInv'
         /\ state' \in AfterVersion /\ state' # "WAIT" /\ ~AwaitsL5' /\ ~AwaitsBaud'
<1>1. /\ At = ackState /\ At \in AfterVersion
      /\ timeoutState = IF AwaitsL5 THEN "CONFIGURE_GNSS" ELSE IF AwaitsBaud THEN "DISABLE_NMEA" ELSE "ERROR"
  BY DEF DialogueInv, Advance, At
<1>2. At' = At /\ state' = At /\ state' # "WAIT" /\ ~AwaitsL5' /\ ~AwaitsBaud'
  BY <1>1 DEF Advance, At, AwaitsL5, AwaitsBaud, AfterVersion, AfterBaud, AfterNmea,
         AfterUbx, AfterNav5, AfterSbas, AfterL5, AfterGnss, AfterRate
<1>3. \A kind, i : SentBy(kind, i)' <=> SentBy(kind, i)
  BY <1>1, <1>2 DEF Advance, SentBy, Every, isLegacyProto, AfterVersion, AfterBaud, AfterNmea,
         AfterUbx, AfterNav5, AfterSbas, AfterL5, AfterGnss, AfterRate
<1>4. Sent' = Sent
  BY <1>3 DEF Sent
<1>5. At \in AfterBaud \/ At = "CONFIGURE_BAUD" =>
         support'.modern = module'.modern /\ support'.signals = module'.offers
  BY DEF Advance, DialogueInv, AfterL5, AfterGnss, AfterRate, AfterBaud, AfterNmea,
         AfterUbx, AfterNav5, AfterSbas
<1>6. /\ At = "DISABLE_NMEA" => counter' < NmeaOff
      /\ At = "ENABLE_UBX" => counter' < UbxOn
      /\ At = "CONFIGURE_BAUD" => counter' = 0
      /\ At \in {"DISABLE_NMEA", "ENABLE_UBX"} /\ ~isLegacyProto' => counter' = 0
  BY DEF Advance, DialogueInv, isLegacyProto, AfterL5, AfterGnss, AfterRate
<1>7. At = "CONFIGURE_BAUD" => LateBaud' = 0
  BY DEF Advance, DialogueInv, LateBaud, AwaitsL5, AwaitsBaud, At
<1>8. At # "RECEIVE" \/ (ackState = "RECEIVE" /\ timeoutState = "ERROR")
  BY <1>1 DEF AwaitsL5, AwaitsBaud
<1>9. At \notin {"DETECT_BAUD", "GET_VERSION"}
  BY <1>1 DEF AfterVersion, AfterBaud, AfterNmea,
         AfterUbx, AfterNav5, AfterSbas, AfterL5, AfterGnss, AfterRate
<1>10. DialogueInv'
  BY <1>1, <1>2, <1>5, <1>6, <1>7, <1>8, <1>9 DEF DialogueInv, Advance
<1> QED BY <1>1, <1>2, <1>4, <1>10

(* An answer of the module is taken, and whether it lets WAIT go on. *)
Positive == {"ack", "value", "version"}
Answered(m) == answers # <<>> /\ answers' = Tail(answers) /\ m = Head(answers).m /\ Head(answers).baud = baud

(* An answer that lets WAIT go on uses up its credit; a timeout is on the record as late. *)
LEMMA AdvanceKeeps ==
  ASSUME GpsInv, Advance, TypeOK', NEW m,
         \/ late' = late /\ Answered(m) /\ m \in Positive
         \/ late' = late /\ Answered(m) /\ m = "nak" /\ timeoutState # "ERROR"
         \/ answers' = answers /\ timeoutState # "ERROR" /\ late' = late \cup {timeoutState}
  PROVE  GpsInv'
<1>1. /\ TypeOK /\ DialogueInv /\ WireInv /\ AnswerInv /\ CreditInv /\ RateInv /\ SignalInv
      /\ state = "WAIT"
  BY DEF GpsInv, Advance
<1>2. /\ At' = At /\ Sent' = Sent /\ DialogueInv' /\ state' # "WAIT" /\ ~AwaitsL5' /\ ~AwaitsBaud'
  BY <1>1, AdvanceDialogue
<1>3. Taking /\ SameModule /\ wire' = wire /\ baud' = baud /\ module' = module
  BY DEF Taking, Answered, SameModule, Advance
<1>4. /\ WireInv' /\ AnswerInv' /\ Credit' = Credit - Heard + Heard' /\ Credit' <= Credit
      /\ Credit \in Nat /\ Credit' \in Nat /\ (Refused' => Refused)
  BY <1>1, <1>2, <1>3, QuietKeeps
<1>5. timeoutState # "ERROR" => AwaitsL5 \/ AwaitsBaud
  BY <1>1 DEF DialogueInv
<1>6. ASSUME Answered(m)
      PROVE  /\ Credit' = Credit - Heard + Counts(2) /\ Heard = Counts(1) + Counts(2)
             /\ Counts(1) \in {0, 1} /\ Counts(2) \in {0, 1}
             /\ m \in Positive => Credit' = Credit - 1
             /\ 1 \in DOMAIN answers /\ answers[1].baud = baud /\ answers[1].m = m
             /\ Len(answers) <= 1 => ~Refused'
  <2>1. /\ Counts(1)' + Counts(2)' = Counts(2) /\ (m \in Positive => Counts(1) = 1)
        /\ Head(answers) = answers[1] /\ 1 \in DOMAIN answers /\ (Len(answers) <= 1 => answers' = <<>>)
    BY <1>1, <1>6, AnswersHeard DEF Answered, Positive
  <2>2. Heard = Counts(1) + Counts(2) /\ Heard' = Counts(2)
    BY <2>1 DEF Heard
  <2>3. Counts(1) \in {0, 1} /\ Counts(2) \in {0, 1}
    BY <1>1, CreditType
  <2>4. answers' = <<>> => ~Refused'
    BY DEF Refused
  <2> QED BY <1>4, <1>6, <2>1, <2>2, <2>3, <2>4 DEF Answered
<1>7. RateInv'
  <2>1. At \in AfterBaud => module.baud = Target \/ At = "DISABLE_NMEA"
    <3>1. CASE timeoutState # "ERROR"
      BY <1>1, <1>5, <3>1 DEF RateInv, AwaitsL5, AwaitsBaud, At
    <3>2. CASE Answered(m)
      BY <1>1, <1>6, <3>2 DEF RateInv
    <3> QED BY <3>1, <3>2
  <2> QED BY <1>1, <1>2, <1>3, <2>1, QuietRate
<1>8. CreditInv'
  <2>1. /\ LateBaud \in {0, 1} /\ LateBaud' \in {0, 1} /\ LateBaud <= LateBaud'
        /\ Strays \in Nat /\ Strays' \in Nat /\ Strays <= Strays' /\ Waiting = 1 /\ Waiting' = 0
        /\ Strays >= LateBaud + (IF module.l5 THEN 1 + LateBaud ELSE 0)
    BY <1>1, <1>2, <1>3 DEF LateBaud, Strays, Waiting, Advance
  <2>2. AwaitsL5 => At \in AfterL5 /\ At \notin BeforeL5
    BY DEF At, AwaitsL5, AfterL5, AfterGnss, AfterRate, BeforeL5
  <2>3. AwaitsBaud => At \in BeforeL5 /\ At \notin AfterL5 /\ ~AwaitsL5
    BY DEF At, AwaitsBaud, AwaitsL5, AfterL5, AfterGnss, AfterRate, BeforeL5, AfterVersion, AfterBaud,
         AfterNmea, AfterUbx, AfterNav5, AfterSbas
  <2>4. /\ At \in BeforeL5 => Credit <= 1 + LateBaud
        /\ At \in BeforeL5 \/ Refused => Len(answers) <= 1
        /\ AwaitsBaud /\ Refused => Credit = 0
        /\ AwaitsL5 => /\ Credit <= LateBaud + (IF module.l5 THEN 2 ELSE 0)
                       /\ LateBaud = 0 /\ Refused => Credit = 0
        /\ At \in AfterL5 /\ ~AwaitsL5 => Credit <= 1 + Strays
    BY <1>1, <2>1 DEF CreditInv, AnswerInv
  <2>5. ASSUME Answered(m), m \in Positive
        PROVE  /\ At \in BeforeL5 => Credit' <= LateBaud' /\ ~Refused'
               /\ At \in AfterL5 => Credit' <= Strays'
    <3>1. Credit' = Credit - 1 /\ (Len(answers) <= 1 => ~Refused')
      BY <1>6, <2>5
    <3>2. At \in AfterL5 => Credit <= 1 + Strays
      BY <1>4, <2>1, <2>4
    <3> QED BY <1>4, <2>1, <2>4, <3>1, <3>2
  <2>6. ASSUME Answered(m), m = "nak", AwaitsL5 \/ AwaitsBaud
        PROVE  /\ At \in BeforeL5 => Credit' <= LateBaud' /\ ~Refused'
               /\ At \in AfterL5 => Credit' <= Strays'
    <3>1. Refused /\ (Len(answers) <= 1 => ~Refused')
      BY <1>6, <2>6 DEF Refused
    <3>2. AwaitsBaud => Credit' = 0
      BY <1>4, <2>4, <3>1
    <3>3. AwaitsL5 => Credit' <= Strays'
      BY <1>4, <2>1, <2>4, <3>1
    <3> QED BY <2>1, <2>2, <2>3, <2>4, <2>6, <3>1, <3>2, <3>3
  <2>7. ASSUME AwaitsL5 \/ AwaitsBaud, late' = late \cup {timeoutState}, answers' = answers
        PROVE  /\ At \in BeforeL5 => Credit' <= LateBaud' /\ LateBaud' = 1
               /\ At \in AfterL5 => Credit' <= Strays'
    <3>1. AwaitsBaud => LateBaud = 0 /\ LateBaud' = 1 /\ Credit' <= 1
      <4>1. AwaitsBaud => LateBaud = 0 /\ timeoutState = "DISABLE_NMEA"
        BY <1>1, <2>3 DEF DialogueInv
      <4>2. AwaitsBaud => LateBaud' = 1
        BY <2>7, <4>1 DEF LateBaud
      <4> QED BY <1>4, <2>3, <2>4, <4>1, <4>2
    <3>2. AwaitsL5 => Credit' <= Strays'
      <4>1. AwaitsL5 => "CONFIGURE_GNSS" \in late' /\ LateBaud' = LateBaud
        BY <1>1, <2>7 DEF DialogueInv, LateBaud
      <4>2. AwaitsL5 => Strays' = IF module.l5 THEN 2 + LateBaud + LateBaud ELSE LateBaud
        BY <1>3, <4>1 DEF Strays, LateBaud
      <4> QED BY <1>4, <2>1, <2>4, <4>2
    <3> QED BY <2>2, <2>3, <2>7, <3>1, <3>2
  <2>8. /\ At \in BeforeL5 => Credit' <= LateBaud' /\ (~Refused' \/ LateBaud' = 1)
        /\ At \in AfterL5 => Credit' <= Strays'
    BY <1>5, <2>5, <2>6, <2>7
  <2> QED BY <1>2, <1>4, <2>1, <2>8 DEF CreditInv
<1>9. SignalInv' /\ UsedInv'
  BY <1>1, <1>3 DEF SignalInv, UsedInv, Advance
<1> QED BY <1>2, <1>4, <1>7, <1>8, <1>9 DEF GpsInv

(* Once it receives, the dialogue has asked for all that is required. *)
LEMMA ReceivesConfigured ==
  ASSUME GpsInv, state = "RECEIVE"
  PROVE  baud = Target /\ module.baud = Target /\ Cardinality(Required \ module.applied) <= Strays
<1>1. TypeOK /\ DialogueInv /\ CreditInv /\ RateInv
  BY DEF GpsInv
<1>2. /\ At = "RECEIVE" /\ At \in AfterRate /\ At \in AfterGnss /\ At \in AfterL5 /\ At \in AfterSbas
      /\ At \in AfterNav5 /\ At \in AfterUbx /\ At \in AfterNmea /\ At \in AfterBaud
      /\ ~AwaitsL5 /\ Waiting = 0
  BY DEF At, AwaitsL5, Waiting, AfterBaud, AfterNmea, AfterUbx, AfterNav5, AfterSbas, AfterL5,
         AfterGnss, AfterRate
<1>3. baud = Target /\ module.baud = Target
  BY <1>1, <1>2 DEF RateInv
<1>4. support.modern = module.modern /\ support.signals = module.offers
  BY <1>1, <1>2 DEF DialogueInv
<1>5. Required \subseteq Sent
  <2>1. ASSUME NEW i \in 0..(IF module.modern THEN 0 ELSE NmeaOff - 1)
        PROVE  <<"nmea", i>> \in Sent
    BY <1>2, <1>4, SomeIds DEF Sent, SentBy, Ids, Kinds, Every, isLegacyProto
  <2>2. ASSUME NEW i \in 0..(IF module.modern THEN 0 ELSE UbxOn - 1)
        PROVE  <<"ubx", i>> \in Sent
    BY <1>2, <1>4, SomeIds DEF Sent, SentBy, Ids, Kinds, Every, isLegacyProto
  <2>3. <<"nav5", 0>> \in Sent /\ <<"gnss", 0>> \in Sent /\ <<"rate", 0>> \in Sent
    BY <1>2, SomeIds DEF Sent, SentBy, Ids, Kinds
  <2>4. "SBAS" \in module.offers => <<"sbas", 0>> \in Sent
    BY <1>2, <1>4, SomeIds DEF Sent, SentBy, Ids, Kinds
  <2> QED BY <2>1, <2>2, <2>3, <2>4 DEF Required
<1>6. \A s \in Required : s # L5 /\ s[1] \notin {"version", "baud"}
  BY DEF Required, L5
<1>7. Required \ module.applied \subseteq Owed
  BY <1>5, <1>6 DEF Owed
<1>8. /\ Cardinality(Required \ module.applied) \in Nat /\ Cardinality(Owed) \in Nat
      /\ Cardinality(Required \ module.applied) <= Cardinality(Owed)
  BY <1>1, <1>7, RequiredType, CreditType, FS_Subset
<1>9. Credit <= Strays /\ Strays \in Nat
  BY <1>1, <1>2, StraysType DEF CreditInv
<1>10. Cardinality(Owed) <= Credit /\ Credit \in Nat
  BY <1>1, CreditIs DEF CreditFact
<1> QED BY <1>3, <1>8, <1>9, <1>10

(* The dialogue stays where it is. *)
Stay ==
  /\ state' = state /\ ackState' = ackState /\ timeoutState' = timeoutState
  /\ wire' = wire /\ SameModule /\ late' = late /\ support' = support
  /\ baud' = baud \/ state = "DETECT_BAUD"
  /\ counter' = counter \/ state \in {"DETECT_BAUD", "RECEIVE"} \/ At \in AfterL5
  /\ present' => present \/ state = "RECEIVE"

(* What stays where it is only loses credit. *)
LEMMA StayKeeps ==
  ASSUME GpsInv, state # "ERROR", TypeOK', Stay, Taking
  PROVE  GpsInv'
<1>1. TypeOK /\ DialogueInv /\ WireInv /\ AnswerInv /\ CreditInv /\ RateInv /\ SignalInv /\ UsedInv
  BY DEF GpsInv
<1>2. /\ At' = At /\ (AwaitsL5' <=> AwaitsL5) /\ (AwaitsBaud' <=> AwaitsBaud) /\ Waiting' = Waiting
      /\ LateBaud' = LateBaud /\ Strays' = Strays /\ (isLegacyProto' <=> isLegacyProto)
  BY DEF Stay, At, AwaitsL5, AwaitsBaud, Waiting, LateBaud, Strays, isLegacyProto, SameModule
<1>3. At \in {"DISABLE_NMEA", "ENABLE_UBX", "CONFIGURE_BAUD"} => counter' = counter
  BY DEF Stay, At, AfterL5, AfterGnss, AfterRate
<1>4. \A kind, i : SentBy(kind, i)' <=> SentBy(kind, i)
  BY <1>2, <1>3 DEF Stay, SentBy, Every
<1>5. Sent' = Sent
  BY <1>4 DEF Sent
<1>6. DialogueInv'
  <2>1. state = "CONFIGURE_BAUD" \/ AwaitsBaud => At \in {"DISABLE_NMEA", "CONFIGURE_BAUD"}
    BY DEF At, AwaitsBaud
  <2>2. state = "DETECT_BAUD" => answers' = <<>> /\ wire' = <<>>
    BY <1>1 DEF DialogueInv, Taking, Stay
  <2>3. present' => state = "RECEIVE"
    BY <1>1 DEF DialogueInv, Stay
  <2> QED BY <1>1, <1>2, <1>3, <2>1, <2>2, <2>3 DEF DialogueInv, Stay, SameModule
<1>7. /\ WireInv' /\ AnswerInv' /\ Owed' = Owed /\ Credit' <= Credit
      /\ Credit \in Nat /\ Credit' \in Nat /\ (Refused' => Refused)
  BY <1>1, <1>2, <1>5, QuietKeeps DEF Stay
<1>8. CreditInv'
  <2>1. Waiting \in Nat /\ LateBaud \in Nat /\ Strays \in Nat /\ module'.l5 = module.l5 /\ state' = state
    BY StraysType DEF Waiting, LateBaud, Stay, SameModule
  <2>2. \A n \in Nat : Credit <= n => Credit' <= n
    BY <1>7
  <2>3. Credit = 0 => Credit' = 0
    BY <1>7
  <2>4. AwaitsL5 => Credit' <= LateBaud + (IF module.l5 THEN 2 ELSE 0)
    BY <1>1, <1>7, <2>1 DEF CreditInv
  <2>5. At \in BeforeL5 => Credit' <= Waiting + LateBaud
    BY <1>1, <1>7, <2>1 DEF CreditInv
  <2>6. At \in AfterL5 /\ ~AwaitsL5 => Credit' <= Waiting + Strays
    BY <1>1, <1>7, <2>1 DEF CreditInv
  <2> QED BY <1>1, <1>2, <1>7, <2>1, <2>3, <2>4, <2>5, <2>6 DEF CreditInv
<1>9. RateInv'
  <2>1. CASE state = "DETECT_BAUD"
    <3>1. At' \notin AfterBaud
      BY <1>2, <2>1 DEF At, AfterBaud, AfterNmea, AfterUbx, AfterNav5, AfterSbas, AfterL5, AfterGnss,
         AfterRate
    <3> QED BY <3>1 DEF RateInv
  <2>2. CASE state # "DETECT_BAUD"
    BY <1>1, <1>2, <2>2, QuietRate DEF Stay
  <2> QED BY <2>1, <2>2
<1>10. SignalInv'
  BY <1>1 DEF SignalInv, Stay, SameModule
<1>11. UsedInv'
  <2>1. present' => state = "RECEIVE"
    BY <1>1 DEF DialogueInv, Stay
  <2>2. Required' = Required /\ module'.applied = module.applied
    BY DEF Required, Stay, SameModule
  <2>3. state = "RECEIVE" => baud = Target /\ module.baud = Target
                             /\ Cardinality(Required \ module.applied) <= Strays
    BY ReceivesConfigured
  <2> QED BY <1>2, <2>1, <2>2, <2>3 DEF UsedInv, Stay, SameModule
<1> QED BY <1>6, <1>7, <1>8, <1>9, <1>10, <1>11 DEF GpsInv

(* The dialogue gives up, or has given up; what is present stays configured. *)
LEMMA ErrorKeeps ==
  ASSUME GpsInv, TypeOK', state' = "ERROR", wire' = wire, SameModule,
         \/ ~present'
         \/ state \in {"RECEIVE", "ERROR"} /\ baud' = baud /\ late' = late
            /\ (state = "ERROR" => present' = present)
  PROVE  GpsInv'
<1>1. SignalInv'
  BY DEF GpsInv, SignalInv, SameModule
<1>2. UsedInv'
  <2>1. CASE ~present'
    BY <2>1 DEF UsedInv
  <2>2. CASE present'
    <3>1. Required' = Required /\ module'.applied = module.applied /\ Strays' = Strays
          /\ module'.baud = module.baud /\ baud' = baud
      BY <2>2 DEF Required, SameModule, Strays
    <3>2. baud = Target /\ module.baud = Target /\ Cardinality(Required \ module.applied) <= Strays
      BY <2>2, ReceivesConfigured DEF GpsInv, UsedInv
    <3> QED BY <3>1, <3>2 DEF UsedInv
  <2> QED BY <2>1, <2>2
<1> QED BY <1>1, <1>2 DEF GpsInv

(* A module without SBAS is not asked for it. *)
LEMMA SkipKeeps ==
  ASSUME GpsInv, TypeOK', state = "ENABLE_SBAS", EnableSbas, "SBAS" \notin support.signals,
         Taking, module' = module
  PROVE  GpsInv'
<1>1. TypeOK /\ DialogueInv /\ WireInv /\ AnswerInv /\ CreditInv /\ RateInv /\ SignalInv /\ UsedInv
  BY DEF GpsInv
<1>2. /\ state' = "DETECT_GPS_L5" /\ ackState' = ackState /\ timeoutState' = timeoutState /\ wire' = wire
      /\ present' = present /\ support' = support /\ late' = late /\ counter' = counter /\ baud' = baud
  BY DEF EnableSbas, Keep
<1>3. /\ At = "ENABLE_SBAS" /\ At' = "DETECT_GPS_L5" /\ Waiting = 0 /\ Waiting' = 0 /\ ~AwaitsL5' /\ ~AwaitsBaud'
      /\ LateBaud' = LateBaud /\ (isLegacyProto' <=> isLegacyProto) /\ SameModule
      /\ At \in BeforeL5 /\ At \in AfterBaud /\ At' \in BeforeL5 /\ At' \in AfterBaud
      /\ At \notin AfterL5 /\ At' \notin AfterL5 /\ At' \in AfterVersion
  BY <1>2 DEF At, AwaitsL5, AwaitsBaud, LateBaud, isLegacyProto, SameModule, Waiting, BeforeL5, AfterVersion,
     AfterBaud, AfterNmea, AfterUbx, AfterNav5, AfterSbas, AfterL5, AfterGnss, AfterRate
<1>4. \A kind, i : SentBy(kind, i)' <=> SentBy(kind, i)
  BY <1>2, <1>3 DEF SentBy, Every, AfterVersion, AfterBaud, AfterNmea, AfterUbx, AfterNav5, AfterSbas,
     AfterL5, AfterGnss, AfterRate
<1>5. Sent' = Sent
  BY <1>4 DEF Sent
<1>6. /\ WireInv' /\ AnswerInv' /\ Owed' = Owed /\ Credit' <= Credit
      /\ Credit \in Nat /\ Credit' \in Nat /\ (Refused' => Refused)
  BY <1>1, <1>2, <1>3, <1>5, QuietKeeps
<1>7. DialogueInv'
  BY <1>1, <1>2, <1>3 DEF DialogueInv
<1>8. CreditInv'
  BY <1>1, <1>2, <1>3, <1>6 DEF CreditInv, LateBaud
<1>9. RateInv'
  <2>1. module.baud = Target /\ baud = Target
    BY <1>1, <1>3 DEF RateInv
  <2> QED BY <1>1, <1>2, <1>3, <2>1 DEF RateInv
<1>10. SignalInv' /\ UsedInv'
  BY <1>1, <1>2, <1>3 DEF SignalInv, UsedInv, DialogueInv
<1> QED BY <1>6, <1>7, <1>8, <1>9, <1>10 DEF GpsInv

(* Waiting and receiving, with an answer or without. *)
Input(m) ==
  \/ m \in {"none", "pvt"} /\ answers' = answers
  \/ Answered(m) /\ m \in Replies \ {"pvt"}

(* An input takes at most one answer. *)
LEMMA InputTakes ==
  ASSUME TypeOK, NEW m, Input(m)
  PROVE  Taking /\ answers' \in Seq(Responses) /\ Len(answers') <= 2
<1>1. Taking
  BY DEF Input, Taking, Answered
<1> QED BY <1>1, TakingType

(* WAIT and RECEIVE, by answer: first the type. *)
LEMMA ReceiveType ==
  ASSUME TypeOK, NEW m, Input(m), HandleReceive(m), module' = module, written' \in 0..Swallowing
  PROVE  TypeOK'
<1>1. answers' \in Seq(Responses) /\ Len(answers') <= 2
  BY InputTakes
<1>2. state' \in States /\ ackState' \in States /\ timeoutState' \in States
  BY DEF HandleReceive, NextState, TypeOK
<1>3. counter' \in 0..Len(Bauds) + NmeaOff + UbxOn
  BY SomeIds DEF HandleReceive, TypeOK
<1>4. support' \in [modern : BOOLEAN, signals : SUBSET Signals]
  BY DEF HandleReceive, HandleVersion, HandleCfgValGet, TypeOK
<1>5. present' \in BOOLEAN /\ late' \subseteq States
  BY DEF HandleReceive, TypeOK
<1>6. expired' \in BOOLEAN /\ baud' \in BaudRange /\ gnssMode' \in GnssModes /\ wire' \in Seq(Requests)
      /\ Len(wire') <= Wire
  BY DEF HandleReceive, TypeOK
<1> QED BY <1>1, <1>2, <1>3, <1>4, <1>5, <1>6 DEF TypeOK

(* The invariant: an answer goes on, gives up or changes nothing. *)
LEMMA ReceiveKeeps ==
  ASSUME GpsInv, state \in {"WAIT", "RECEIVE"}, NEW m, Input(m), HandleReceive(m), module' = module,
         written' \in 0..Swallowing
  PROVE  GpsInv'
<1>1. TypeOK /\ DialogueInv /\ WireInv /\ AnswerInv /\ TypeOK' /\ Taking /\ SameModule
  BY ReceiveType, InputTakes DEF GpsInv, SameModule
<1>2. /\ ackState' = ackState /\ timeoutState' = timeoutState /\ baud' = baud /\ wire' = wire
      /\ m \notin {"value", "version"} => counter' = counter
      /\ m \in {"value", "version"} => counter' = 0
      /\ m = "version" => support' = [modern |-> module.modern, signals |-> module.offers]
      /\ m # "version" => support' = support
      /\ present' = IF state = "RECEIVE" THEN TRUE
                    ELSE IF m = "none" /\ expired THEN FALSE ELSE present
      /\ late' = IF m = "none" /\ state = "WAIT" /\ expired THEN late \cup {timeoutState} ELSE late
  BY DEF HandleReceive, HandleVersion, HandleCfgValGet
<1>3. /\ m \in Positive => state' = ackState
      /\ m = "nak" => state' = timeoutState
      /\ m = "none" => state' = IF state = "WAIT" /\ expired THEN timeoutState ELSE state
      /\ m = "pvt" => state' = state
  BY DEF HandleReceive, NextState, Positive
<1>4. /\ m \in Positive \cup {"nak"} => Answered(m)
      /\ m \in {"none", "pvt"} => answers' = answers
      /\ m \in Positive \cup {"nak", "none", "pvt"}
  BY DEF Input, Positive, Replies, Answered
<1>5. ASSUME m \in Positive \cup {"nak"}
      PROVE  /\ m = "version" <=> At = "CONFIGURE_BAUD"
             /\ m = "value" => At \in AfterL5
  <2>1. 1 \in DOMAIN answers /\ answers[1].m = m
    BY <1>1, <1>4, <1>5, AnswersHeard DEF Answered
  <2> QED BY <1>1, <2>1 DEF AnswerInv
<1>6. state = "WAIT" => ~present
  BY <1>1 DEF DialogueInv
<1>7. CASE state' = "ERROR" /\ state = "WAIT"
  BY <1>1, <1>2, <1>6, <1>7, ErrorKeeps
<1>8. CASE state' = "ERROR" /\ state = "RECEIVE"
  BY <1>1, <1>2, <1>8, ErrorKeeps
<1>9. CASE state = "RECEIVE" /\ state' # "ERROR"
  <2>1. At = "RECEIVE" /\ At \in AfterL5 /\ ackState = "RECEIVE"
    BY <1>1, <1>9 DEF At, AfterL5, AfterGnss, AfterRate, DialogueInv
  <2>2. state' = "RECEIVE" /\ m # "version"
    BY <1>1, <1>3, <1>4, <1>5, <1>9, <2>1 DEF DialogueInv, Positive
  <2>3. Stay
    BY <1>1, <1>2, <1>9, <2>1, <2>2 DEF Stay
  <2> QED BY <1>1, <1>9, <2>3, StayKeeps
<1>10. CASE state = "WAIT" /\ (m = "pvt" \/ (m = "none" /\ ~expired))
  <2>1. Stay
    BY <1>1, <1>2, <1>3, <1>6, <1>10 DEF Stay
  <2> QED BY <1>1, <1>10, <2>1, StayKeeps
<1>11. CASE state = "WAIT" /\ state' # "ERROR" /\ ~(m = "pvt" \/ (m = "none" /\ ~expired))
  <2>1. At = ackState /\ (timeoutState # "ERROR" => AwaitsL5 \/ AwaitsBaud)
        /\ (timeoutState # "ERROR" => ackState = timeoutState /\ At # "CONFIGURE_BAUD")
    BY <1>1, <1>11 DEF At, DialogueInv, AwaitsL5, AwaitsBaud
  <2>2. CASE m \in Positive
    <3>1. Advance
      BY <1>1, <1>2, <1>3, <1>4, <1>5, <1>6, <1>11, <2>1, <2>2 DEF Advance, Positive
    <3> QED BY <1>1, <1>2, <1>4, <2>2, <3>1, AdvanceKeeps DEF Positive
  <2>3. CASE m = "nak"
    <3>1. timeoutState # "ERROR"
      BY <1>3, <1>11, <2>3
    <3>2. Advance
      BY <1>1, <1>2, <1>3, <1>6, <1>11, <2>1, <2>3, <3>1 DEF Advance
    <3> QED BY <1>1, <1>2, <1>4, <2>3, <3>1, <3>2, AdvanceKeeps
  <2>4. CASE m = "none" /\ expired
    <3>1. timeoutState # "ERROR"
      BY <1>3, <1>11, <2>4
    <3>2. Advance
      BY <1>1, <1>2, <1>3, <1>6, <1>11, <2>1, <2>4, <3>1 DEF Advance
    <3>3. answers' = answers /\ late' = late \cup {timeoutState}
      BY <1>2, <1>4, <1>11, <2>4
    <3> QED BY <1>1, <3>1, <3>2, <3>3, AdvanceKeeps
  <2> QED BY <1>4, <1>11, <2>2, <2>3, <2>4
<1> QED BY <1>7, <1>8, <1>9, <1>10, <1>11

(* Looking for the baud rate nothing is asked. *)
LEMMA DetectKeeps ==
  ASSUME GpsInv, state = "DETECT_BAUD", DetectBaud, UNCHANGED <<written, module, answers, damaged>>
  PROVE  GpsInv'
<1>1. TypeOK /\ DialogueInv /\ SameModule /\ Taking /\ ~present
  BY DEF GpsInv, DialogueInv, SameModule, Taking
<1>2. /\ ackState' = ackState /\ timeoutState' = timeoutState /\ wire' = wire /\ present' = present
      /\ late' = late /\ support' = support /\ gnssMode' = gnssMode
  BY DEF DetectBaud, Keep
<1>3. /\ state' \in {"DETECT_BAUD", "ERROR"} /\ expired' \in BOOLEAN
      /\ counter' \in 0..Len(Bauds) + NmeaOff + UbxOn /\ baud' \in BaudRange
  <2>1. CASE ~expired
    BY <1>1, <2>1 DEF DetectBaud, TypeOK
  <2>2. CASE expired /\ counter < Len(Bauds)
    <3>1. counter \in Nat /\ counter + 1 \in DOMAIN Bauds
      BY <1>1, <2>2, GpsAssumption, LenProperties DEF TypeOK
    <3>2. state' = state /\ expired' = FALSE /\ counter' = counter + 1 /\ baud' = Bauds[counter + 1]
      BY <2>2 DEF DetectBaud
    <3>3. counter + 1 \in 0..Len(Bauds) + NmeaOff + UbxOn
      BY <2>2, <3>1, SomeIds
    <3> QED BY <3>1, <3>2, <3>3 DEF BaudRange
  <2>3. CASE expired /\ ~(counter < Len(Bauds))
    <3>1. state' = "ERROR" /\ expired' = FALSE /\ counter' = 0 /\ baud' = Target
      BY <2>3 DEF DetectBaud
    <3>2. 0 \in 0..Len(Bauds) + NmeaOff + UbxOn
      BY SomeIds
    <3>3. Target \in BaudRange
      BY DEF BaudRange
    <3> QED BY <3>1, <3>2, <3>3
  <2> QED BY <1>1, <2>1, <2>2, <2>3 DEF TypeOK
<1>4. TypeOK'
  <2>1. state' \in States
    BY <1>3 DEF States
  <2> QED BY <1>1, <1>2, <1>3, <2>1 DEF TypeOK
<1>5. CASE state' = "ERROR"
  BY <1>1, <1>2, <1>4, <1>5, ErrorKeeps
<1>6. CASE state' = "DETECT_BAUD"
  <2>1. Stay
    BY <1>1, <1>2, <1>6 DEF Stay
  <2> QED BY <1>1, <1>4, <2>1, StayKeeps
<1> QED BY <1>3, <1>5, <1>6

(* Whatever the state, the handler keeps the invariant. *)
LEMMA HandleKeeps ==
  ASSUME GpsInv, NEW s \in States, s = state \/ (s = "GET_VERSION" /\ state = "DETECT_BAUD"), s # "DETECT_BAUD",
         NEW m, Handle(s, m), Input(m), module' = module, written' \in 0..Swallowing
  PROVE  GpsInv'
<1>1. TypeOK /\ Taking
  BY InputTakes DEF GpsInv
<1>2. (\E r : Asking(r)) /\ state # "ERROR" => GpsInv'
  BY <1>1, AskingKeeps
<1>3. state # "ERROR" => state # "GET_VERSION"
  BY DEF GpsInv, DialogueInv, At, AfterVersion, AfterBaud, AfterNmea, AfterUbx, AfterNav5, AfterSbas,
     AfterL5, AfterGnss, AfterRate
<1>4. CASE s = "GET_VERSION" /\ ReadVersion
  BY <1>2, <1>3, <1>4, ReadVersionAsks
<1>5. CASE s = "CONFIGURE_BAUD" /\ ConfigureBaud
  BY <1>2, <1>5, ConfigureBaudAsks
<1>6. CASE (s = "DISABLE_NMEA" /\ DisableNmea) \/ (s = "ENABLE_UBX" /\ EnableUbx)
  BY <1>2, <1>6, OneByOneAsks
<1>7. CASE s = "ENABLE_NAV5" /\ EnableNav5
  BY <1>2, <1>7, EnableNav5Asks
<1>8. CASE s = "ENABLE_SBAS" /\ EnableSbas
  <2>1. CASE "SBAS" \in support.signals
    BY <1>2, <1>8, <2>1, EnableSbasAsks
  <2>2. CASE "SBAS" \notin support.signals
    <3>1. TypeOK'
      <4>1. /\ state' = "DETECT_GPS_L5" /\ expired' = FALSE /\ ackState' = ackState /\ timeoutState' = timeoutState
            /\ wire' = wire /\ counter' = counter /\ baud' = baud
            /\ UNCHANGED <<present, lastMsg, support, gnssMode, late>>
        BY <1>8, <2>2 DEF EnableSbas, Keep
      <4>2. answers' \in Seq(Responses) /\ Len(answers') <= 2
        BY <1>1, InputTakes
      <4>3. state' \in States
        BY <4>1 DEF States
      <4> QED BY <1>1, <4>1, <4>2, <4>3 DEF TypeOK
    <3> QED BY <1>1, <1>8, <2>2, <3>1, SkipKeeps
  <2> QED BY <2>1, <2>2
<1>9. CASE s = "DETECT_GPS_L5" /\ DetectGpsL5
  BY <1>2, <1>9, DetectGpsL5Asks
<1>10. CASE s = "CONFIGURE_GNSS" /\ ConfigureGnss
  BY <1>2, <1>10, ConfigureGnssAsks
<1>11. CASE s = "CONFIGURE_NAV_RATE" /\ ConfigureRate
  BY <1>2, <1>11, ConfigureRateAsks
<1>12. CASE s = "ERROR" /\ HandleError
  <2>1. /\ state' = "ERROR" /\ ~present' /\ wire' = wire /\ SameModule
        /\ counter' \in {1, counter}
        /\ UNCHANGED <<ackState, timeoutState, expired, baud, support, gnssMode, late>>
    BY <1>12 DEF HandleError, SameModule
  <2>2. counter' \in 0..Len(Bauds) + NmeaOff + UbxOn
    BY <1>1, <2>1, SomeIds DEF TypeOK
  <2>3. answers' \in Seq(Responses) /\ Len(answers') <= 2
    BY <1>1, InputTakes
  <2>4. TypeOK'
    <3>1. state' \in States /\ present' \in BOOLEAN
      BY <1>12, <2>1 DEF HandleError, States
    <3> QED BY <1>1, <2>1, <2>2, <2>3, <3>1 DEF TypeOK
  <2> QED BY <2>1, <2>4, ErrorKeeps
<1>13. CASE s \in {"WAIT", "RECEIVE"} /\ HandleReceive(m)
  BY <1>13, ReceiveKeeps
<1> QED BY <1>4, <1>5, <1>6, <1>7, <1>8, <1>9, <1>10, <1>11, <1>12, <1>13 DEF Handle

(* What changes neither the dialogue nor what the module was told. *)
LEMMA IdleKeeps ==
  ASSUME GpsInv, TypeOK', Taking, SameModule, wire' = wire,
         UNCHANGED <<state, ackState, timeoutState, counter, baud, present, support, late>>
  PROVE  GpsInv'
<1>1. CASE state = "ERROR"
  BY <1>1, ErrorKeeps
<1>2. CASE state # "ERROR"
  <2>1. Stay
    BY DEF Stay
  <2> QED BY <1>2, <2>1, StayKeeps
<1> QED BY <1>1, <1>2

------------------------------------------------------------------------------
(* The module reads. *)
LEMMA TwoAnswers ==
  ASSUME NEW S, NEW a \in S, NEW b \in S
  PROVE  <<a>> \o <<b>> = <<a, b>>
<1>1. <<a>> \in Seq(S) /\ <<b>> \in Seq(S) /\ Len(<<a>>) = 1 /\ Len(<<b>>) = 1
  OBVIOUS
<1>2. <<a>> \o <<b>> \in Seq(S) /\ Len(<<a>> \o <<b>>) = 2
      /\ (<<a>> \o <<b>>)[1] = a /\ (<<a>> \o <<b>>)[2] = b
  BY <1>1, ConcatProperties
<1>3. <<a, b>> \in Seq(S) /\ Len(<<a, b>>) = 2 /\ <<a, b>>[1] = a /\ <<a, b>>[2] = b
  OBVIOUS
<1>4. \A i \in 1..2 : i = 1 \/ i = 2
  OBVIOUS
<1> DEFINE s == <<a>> \o <<b>>
<1> HIDE DEF s
<1>5. s \in Seq(S) /\ Len(s) = 2 /\ s[1] = a /\ s[2] = b
  BY <1>2 DEF s
<1>6. s = <<a, b>>
  BY <1>3, <1>4, <1>5, SeqEqual
<1> QED BY <1>6 DEF s

(* One request is taken; it leaves a state of the right form. *)
LEMMA ReadType ==
  ASSUME TypeOK, ModuleReads
  PROVE  /\ TypeOK' /\ wire # <<>> /\ wire' = Tail(wire) /\ answers = <<>> /\ Head(wire) \in Requests
         /\ \A i \in DOMAIN wire' : i + 1 \in DOMAIN wire /\ wire'[i] = wire[i + 1]
         /\ Head(wire) = wire[1] /\ 1 \in DOMAIN wire
         /\ UNCHANGED <<dialogue, written, damaged>>
<1>1. wire # <<>> /\ wire' = Tail(wire) /\ answers = <<>> /\ UNCHANGED <<dialogue, written, damaged>>
  BY DEF ModuleReads
<1>2. wire \in Seq(Requests) /\ Len(wire) \in Nat \ {0} /\ DOMAIN wire = 1..Len(wire) /\ Len(wire) <= Wire
  BY <1>1, LenProperties, EmptySeq DEF TypeOK
<1>3. /\ wire' \in Seq(Requests) /\ Len(wire') = Len(wire) - 1
      /\ \A i \in 1..Len(wire') : wire'[i] = wire[i + 1]
      /\ Head(wire) \in Requests /\ DOMAIN wire' = 1..Len(wire')
  BY <1>1, <1>2, HeadTailProperties, LenProperties
<1>4. Len(wire') <= Wire
  BY <1>2, <1>3, GpsAssumption
<1>5. Head(wire) = wire[1] /\ 1 \in DOMAIN wire
  BY <1>2
<1>6. \A i \in DOMAIN wire' : i + 1 \in DOMAIN wire /\ wire'[i] = wire[i + 1]
  BY <1>2, <1>3
<1>7. /\ answers' \in Seq(Responses) /\ Len(answers') <= 2
      /\ module' \in [baud : BaudRange, modern : BOOLEAN, l5 : BOOLEAN, alive : BOOLEAN,
                      offers : SUBSET Signals, signals : SUBSET Signals, applied : SUBSET Ids]
  <2> DEFINE r == Head(wire)
             Modules == [baud : BaudRange, modern : BOOLEAN, l5 : BOOLEAN, alive : BOOLEAN,
                         offers : SUBSET Signals, signals : SUBSET Signals, applied : SUBSET Ids]
  <2> SUFFICES answers' \in Seq(Responses) /\ Len(answers') <= 2 /\ module' \in Modules
    OBVIOUS
  <2>1. module \in Modules /\ module.baud \in BaudRange /\ Target \in BaudRange /\ answers \in Seq(Responses)
    BY DEF TypeOK, BaudRange
  <2>2. ASSUME NEW m \in {"ack", "nak", "value", "version"}, NEW rate \in BaudRange
        PROVE  /\ Answer(m, rate) \in Seq(Responses) /\ Len(Answer(m, rate)) <= 2
               /\ [m |-> m, baud |-> rate] \in Responses
    <3>1. [m |-> m, baud |-> rate] \in Responses
      BY DEF Responses, Replies
    <3> QED BY <3>1 DEF Answer
  <2>3. <<r.kind, r.i>> \in Ids /\ r.signals \in SUBSET Signals
    BY <1>3 DEF Requests, Ids
  <2> HIDE DEF r, Modules
  <2>4. CASE answers' = answers /\ module' = module
    BY <1>1, <2>1, <2>4
  <2>5. CASE Refuse(r)
    BY <2>1, <2>2, <2>5 DEF Refuse
  <2>6. CASE r.kind = "version" /\ answers' = Answer("version", module.baud) /\ module' = module
    BY <2>1, <2>2, <2>6
  <2>7. CASE /\ module' = [module EXCEPT !.baud = Target]
             /\ \E rate \in {module.baud, Target} : answers' = Answer("ack", rate)
    <3>1. module' \in Modules
      BY <2>1, <2>7 DEF Modules
    <3>2. PICK rate \in BaudRange : answers' = Answer("ack", rate)
      BY <2>1, <2>7
    <3> QED BY <3>1, <3>2, <2>2
  <2>8. CASE /\ answers' = Answer("value", module.baud) \o Answer("ack", module.baud)
             /\ module' = module
    <3>1. answers' = <<[m |-> "value", baud |-> module.baud], [m |-> "ack", baud |-> module.baud]>>
      BY <2>1, <2>2, <2>8, TwoAnswers DEF Answer
    <3>2. [m |-> "value", baud |-> module.baud] \in Responses /\ [m |-> "ack", baud |-> module.baud] \in Responses
      BY <2>1, <2>2
    <3>3. answers' \in Seq(Responses) /\ Len(answers') = 2
      BY <3>1, <3>2
    <3> QED BY <2>1, <2>8, <3>3
  <2>9. CASE /\ module' = [module EXCEPT !.applied = @ \cup {<<r.kind, r.i>>},
                                         !.signals = IF r.kind = "gnss" THEN r.signals ELSE @]
             /\ answers' = Answer("ack", module.baud)
    <3> DEFINE a == module.applied \cup {<<r.kind, r.i>>}
               g == IF r.kind = "gnss" THEN r.signals ELSE module.signals
    <3>1. a \in SUBSET Ids /\ g \in SUBSET Signals
      BY <2>1, <2>3 DEF Modules
    <3>2. module' = [module EXCEPT !.applied = a, !.signals = g]
      BY <2>9
    <3> HIDE DEF a, g
    <3>3. module' \in Modules
      BY <2>1, <3>1, <3>2 DEF Modules
    <3> QED BY <3>3, <2>1, <2>2, <2>9
  <2>10. (answers' = answers /\ module' = module) \/ Refuse(r) \/ Accept(r)
    BY DEF ModuleReads, r
  <2> QED BY <2>4, <2>5, <2>6, <2>7, <2>8, <2>9, <2>10 DEF Accept
<1>8. TypeOK'
  BY <1>1, <1>3, <1>4, <1>7 DEF TypeOK, dialogue
<1> QED BY <1>1, <1>3, <1>5, <1>6, <1>8

(* What became of the request. *)
Lost == answers' = <<>> /\ module' = module
WasRefused(r) == /\ r.kind # "version" /\ module' = module
                 /\ \E a : answers' = <<a>> /\ a.m = "nak" /\ a.baud = module.baud
ToldVersion(r) == /\ r.kind = "version" /\ module' = module
                  /\ \E a : answers' = <<a>> /\ a.m = "version" /\ a.baud = module.baud
TookBaud(r) == /\ r.kind = "baud" /\ module'.baud = Target
               /\ module'.signals = module.signals /\ module'.applied = module.applied
               /\ \E a : answers' = <<a>> /\ a.m = "ack"
ToldL5(r) == /\ r.kind = "l5" /\ module.l5 /\ module' = module
             /\ \E a, b : /\ answers' = <<a, b>> /\ a.m = "value" /\ b.m = "ack"
                          /\ a.baud = module.baud /\ b.baud = module.baud
TookSetting(r) ==
  /\ r.kind \notin {"version", "baud", "l5"} /\ module'.baud = module.baud
  /\ module'.applied = module.applied \cup {IdOf(r)}
  /\ module'.signals = IF r.kind = "gnss" THEN r.signals ELSE module.signals
  /\ \E a : answers' = <<a>> /\ a.m = "ack" /\ a.baud = module.baud

(* It is lost, refused or accepted. *)
LEMMA ReadOutcome ==
  ASSUME TypeOK, ModuleReads, NEW r, r = Head(wire)
  PROVE  /\ module'.modern = module.modern /\ module'.l5 = module.l5 /\ module'.offers = module.offers
         /\ Lost \/ (r.baud = module.baud /\ (WasRefused(r) \/ ToldVersion(r) \/ TookBaud(r) \/ ToldL5(r) \/ TookSetting(r)))
<1>1. module \in [baud : BaudRange, modern : BOOLEAN, l5 : BOOLEAN, alive : BOOLEAN,
                 offers : SUBSET Signals, signals : SUBSET Signals, applied : SUBSET Ids]
  BY DEF TypeOK
<1>2. \/ answers' = <<>> /\ module' = module
      \/ r.baud = module.baud /\ Refuse(r)
      \/ r.baud = module.baud /\ Accept(r)
  BY DEF ModuleReads
<1>3. CASE answers' = <<>> /\ module' = module
  BY <1>3 DEF Lost
<1>4. CASE r.baud = module.baud /\ Refuse(r)
  BY <1>4 DEF Refuse, Answer, WasRefused
<1>5. CASE r.baud = module.baud /\ r.kind = "version" /\ answers' = Answer("version", module.baud) /\ module' = module
  BY <1>5 DEF Answer, ToldVersion
<1>6. CASE /\ r.baud = module.baud /\ r.kind = "baud"
           /\ module' = [module EXCEPT !.baud = Target]
           /\ \E rate \in {module.baud, Target} : answers' = Answer("ack", rate)
  <2>1. PICK rate \in {module.baud, Target} : answers' = Answer("ack", rate)
    BY <1>6
  <2> QED BY <1>1, <1>6, <2>1 DEF Answer, TookBaud
<1>7. CASE /\ r.baud = module.baud /\ r.kind = "l5" /\ module.l5
           /\ answers' = Answer("value", module.baud) \o Answer("ack", module.baud) /\ module' = module
  <2> DEFINE a == [m |-> "value", baud |-> module.baud]
             b == [m |-> "ack", baud |-> module.baud]
  <2>1. answers' = <<a>> \o <<b>> /\ a.m = "value" /\ b.m = "ack" /\ a.baud = module.baud /\ b.baud = module.baud
    BY <1>7 DEF Answer
  <2> HIDE DEF a, b
  <2>2. answers' = <<a, b>>
    <3>1. a \in {a, b} /\ b \in {a, b}
      OBVIOUS
    <3> QED BY <2>1, <3>1, TwoAnswers
  <2> QED BY <1>7, <2>1, <2>2 DEF ToldL5
<1>8. CASE /\ r.baud = module.baud /\ r.kind \notin {"version", "baud", "l5"}
           /\ module' = [module EXCEPT !.applied = @ \cup {<<r.kind, r.i>>},
                                       !.signals = IF r.kind = "gnss" THEN r.signals ELSE @]
           /\ answers' = Answer("ack", module.baud)
  BY <1>1, <1>8 DEF Answer, TookSetting, IdOf
<1> QED BY <1>2, <1>3, <1>4, <1>5, <1>6, <1>7, <1>8 DEF Accept

(* What is switched on only grows, and GPS is part of it. *)
LEMMA ReadSignals ==
  ASSUME GpsInv, ModuleReads
  PROVE  SignalInv' /\ UsedInv'
<1> DEFINE r == Head(wire)
<1>1. TypeOK /\ SignalInv /\ UsedInv
  BY DEF GpsInv
<1>2. /\ wire' = Tail(wire) /\ r = wire[1] /\ 1 \in DOMAIN wire
      /\ \A i \in DOMAIN wire' : i + 1 \in DOMAIN wire /\ wire'[i] = wire[i + 1]
      /\ UNCHANGED <<dialogue, written, damaged>>
  BY <1>1, ReadType
<1> HIDE DEF r
<1>3. /\ module'.modern = module.modern /\ module'.l5 = module.l5 /\ module'.offers = module.offers
      /\ Lost \/ WasRefused(r) \/ ToldVersion(r) \/ TookBaud(r) \/ ToldL5(r) \/ TookSetting(r)
  BY <1>1, ReadOutcome DEF r
<1>4. /\ module'.baud \in {module.baud, Target}
      /\ module.applied \subseteq module'.applied
      /\ <<"gnss", 0>> \in module'.applied =>
            \/ <<"gnss", 0>> \in module.applied /\ module'.signals = module.signals
            \/ r.kind = "gnss" /\ module'.signals = r.signals
  BY <1>3 DEF Lost, WasRefused, ToldVersion, TookBaud, ToldL5, TookSetting, IdOf
<1>5. SignalInv'
  BY <1>1, <1>2, <1>3, <1>4 DEF SignalInv
<1>6. UsedInv'
  <2>1. Required' = Required /\ Strays' = Strays /\ present' = present /\ state' = state /\ baud' = baud
    BY <1>2, <1>3 DEF Required, Strays, dialogue
  <2>2. IsFiniteSet(Required \ module.applied) /\ Cardinality(Required \ module.applied) \in Nat
    BY <1>1, RequiredType
  <2>3. Required \ module'.applied \subseteq Required \ module.applied
    BY <1>4
  <2>4. /\ Cardinality(Required \ module'.applied) <= Cardinality(Required \ module.applied)
        /\ Cardinality(Required \ module'.applied) \in Nat
    BY <2>2, <2>3, FS_Subset, FS_CardinalityType
  <2>5. Strays \in Nat
    BY StraysType
  <2> QED BY <1>1, <1>4, <2>1, <2>2, <2>4, <2>5 DEF UsedInv
<1> QED BY <1>5, <1>6

(* An answer takes the place of the request it is to: the credit does not grow. *)
LEMMA ReadKeeps ==
  ASSUME GpsInv, ModuleReads
  PROVE  GpsInv'
<1> DEFINE r == Head(wire)
           h == IdOf(r)
<1>1. TypeOK /\ TypeOK' /\ SignalInv' /\ UsedInv'
  BY ReadType, ReadSignals DEF GpsInv
<1>2. /\ wire # <<>> /\ wire' = Tail(wire) /\ answers = <<>> /\ r \in Requests
      /\ r = wire[1] /\ 1 \in DOMAIN wire
      /\ \A i \in DOMAIN wire' : i + 1 \in DOMAIN wire /\ wire'[i] = wire[i + 1]
      /\ UNCHANGED dialogue
  BY <1>1, ReadType
<1>3. /\ module'.modern = module.modern /\ module'.l5 = module.l5 /\ module'.offers = module.offers
      /\ Lost \/ (r.baud = module.baud /\ (WasRefused(r) \/ ToldVersion(r) \/ TookBaud(r) \/ ToldL5(r) \/ TookSetting(r)))
  BY <1>1, ReadOutcome
<1> SUFFICES ASSUME state # "ERROR"
             PROVE  DialogueInv' /\ WireInv' /\ AnswerInv' /\ CreditInv' /\ RateInv'
  BY <1>1, <1>2 DEF GpsInv, dialogue
<1>4. DialogueInv /\ WireInv /\ AnswerInv /\ CreditInv /\ RateInv /\ Distinct
  BY DEF GpsInv, WireInv, Distinct
<1>5. /\ At' = At /\ (AwaitsL5' <=> AwaitsL5) /\ (AwaitsBaud' <=> AwaitsBaud) /\ Waiting' = Waiting
      /\ LateBaud' = LateBaud /\ Strays' = Strays /\ (isLegacyProto' <=> isLegacyProto) /\ Sent' = Sent
      /\ state' = state /\ baud' = baud
  BY <1>2, <1>3 DEF dialogue, At, AwaitsL5, AwaitsBaud, Waiting, LateBaud, Strays, isLegacyProto,
     Sent, SentBy, Every
<1>6. /\ h \in Sent /\ h = <<r.kind, r.i>> /\ SentBy(r.kind, r.i)
      /\ r.kind = "l5" => h = L5 /\ At \in AfterL5
      /\ h = L5 => r.kind = "l5"
      /\ r.kind = "baud" => h = <<"baud", 0>>
      /\ At = "CONFIGURE_BAUD" => r.kind = "version"
      /\ r.kind = "version" => At = "CONFIGURE_BAUD"
  <2>1. h \in Sent /\ h = <<r.kind, r.i>> /\ SentBy(r.kind, r.i) /\ (r.kind = "version" => At = "CONFIGURE_BAUD")
    BY <1>2, <1>4 DEF WireInv, Sent, IdOf
  <2>2. /\ r.kind = "l5" => r.i = 0 /\ At \in AfterL5
        /\ r.kind = "baud" => r.i = 0
        /\ At = "CONFIGURE_BAUD" => r.kind = "version"
    BY <2>1 DEF SentBy, AfterVersion, AfterBaud, AfterNmea, AfterUbx, AfterNav5, AfterSbas,
       AfterL5, AfterGnss, AfterRate
  <2> QED BY <2>1, <2>2 DEF L5
<1>7. state # "DETECT_BAUD"
  BY <1>2, <1>4 DEF DialogueInv
<1> HIDE DEF r, h
<1>8. DialogueInv'
  <2>1. UNCHANGED <<state, ackState, timeoutState, counter, present, support>>
    BY <1>2 DEF dialogue
  <2> QED BY <1>3, <1>4, <1>5, <1>7, <2>1 DEF DialogueInv
<1>9. WireInv'
  <2>1. Distinct'
    BY <1>1, <1>2, <1>4, <1>5, WireRead
  <2> QED BY <1>2, <1>4, <1>5, <2>1 DEF WireInv, Distinct
<1>10. /\ At = "CONFIGURE_BAUD" => \A i \in DOMAIN answers' : answers'[i].m = "version"
       /\ \A i \in DOMAIN answers' : answers'[i].m = "version" => At = "CONFIGURE_BAUD"
       /\ \A i \in DOMAIN answers' : answers'[i].m = "value" => At \in AfterL5
       /\ At \notin AfterL5 \/ Refused' => Len(answers') <= 1
       /\ Refused' => WasRefused(r)
  <2>1. CASE Lost
    BY <2>1 DEF Lost, Refused
  <2>2. CASE WasRefused(r)
    BY <1>6, <2>2 DEF WasRefused, Refused
  <2>3. CASE ToldVersion(r)
    BY <1>6, <2>3 DEF ToldVersion, Refused
  <2>4. CASE TookBaud(r)
    BY <1>6, <2>4 DEF TookBaud, Refused
  <2>5. CASE ToldL5(r)
    <3>1. At \in AfterL5 /\ At # "CONFIGURE_BAUD"
      BY <1>6, <2>5 DEF ToldL5
    <3>2. PICK a, b : answers' = <<a, b>> /\ a.m = "value" /\ b.m = "ack"
      BY <2>5 DEF ToldL5
    <3>3. \A i \in DOMAIN answers' : answers'[i].m \in {"value", "ack"}
      BY <3>2
    <3> QED BY <3>1, <3>3 DEF Refused
  <2>6. CASE TookSetting(r)
    BY <1>6, <2>6 DEF TookSetting, Refused
  <2> QED BY <1>3, <2>1, <2>2, <2>3, <2>4, <2>5, <2>6
<1>11. AnswerInv'
  <2>1. At \in BeforeL5 => At \notin AfterL5
    BY DEF BeforeL5, AfterVersion, AfterBaud, AfterNmea, AfterUbx, AfterNav5, AfterSbas,
       AfterL5, AfterGnss, AfterRate
  <2> QED BY <1>5, <1>10, <2>1 DEF AnswerInv
<1>12. RateInv'
  <2> SUFFICES ASSUME At \in AfterBaud PROVE RateInv'
    BY <1>5 DEF RateInv
  <2>1. baud = Target /\ \A i \in DOMAIN wire : wire[i].kind # "baud" => wire[i].baud = Target
    BY <1>4 DEF RateInv
  <2>2. \A i \in DOMAIN wire' : wire'[i].kind # "baud" => wire'[i].baud = Target
    BY <1>2, <2>1
  <2>3. ASSUME module'.baud # Target
        PROVE  /\ module.baud # Target
               /\ \A i \in DOMAIN answers' : answers'[i].baud # Target
    <3>1. module.baud # Target
      BY <1>3, <2>3 DEF Lost, WasRefused, ToldVersion, TookBaud, ToldL5, TookSetting
    <3>2. r.baud = module.baud => r.kind = "baud"
      BY <1>2, <2>1, <3>1 DEF r
    <3>3. Lost \/ WasRefused(r)
      BY <1>3, <2>3, <3>2 DEF ToldVersion, TookBaud, ToldL5, TookSetting
    <3> QED BY <3>1, <3>3 DEF Lost, WasRefused
  <2> QED BY <1>4, <1>5, <2>1, <2>2, <2>3 DEF RateInv
<1>13. CreditInv'
  <2>1. /\ Credit' <= Credit /\ Owed' \subseteq Owed
        /\ h # L5 => h \in Owed
        /\ h = <<"baud", 0>> /\ Refused' => Credit' <= Credit - 1
        /\ h = L5 /\ Refused' => Extra' = 0 /\ Heard' = 0
    <3>1. module.applied \subseteq module'.applied
      BY <1>3 DEF Lost, WasRefused, ToldVersion, TookBaud, ToldL5, TookSetting
    <3>2. \/ answers' = <<>>
          \/ \E a : answers' = <<a>> /\ a.m = "nak"
          \/ /\ \E a : answers' = <<a>>
             /\ h # L5 /\ (h[1] \in {"version", "baud"} \/ h \in module'.applied)
          \/ h = L5 /\ module.l5 /\ \E a, b : answers' = <<a, b>> /\ a.m # "nak" /\ b.m # "nak"
      <4>1. CASE Lost
        BY <4>1 DEF Lost
      <4>2. CASE WasRefused(r)
        BY <4>2 DEF WasRefused
      <4>3. CASE ToldVersion(r)
        BY <1>6, <4>3 DEF ToldVersion
      <4>4. CASE TookBaud(r)
        BY <1>6, <4>4 DEF TookBaud
      <4>5. CASE ToldL5(r)
        BY <1>6, <4>5 DEF ToldL5
      <4>6. CASE TookSetting(r)
        <5>1. h # L5 /\ h \in module'.applied /\ \E a : answers' = <<a>>
          BY <1>6, <4>6 DEF TookSetting, h
        <5> QED BY <5>1
      <4> QED BY <1>3, <4>1, <4>2, <4>3, <4>4, <4>5, <4>6
    <3>3. h = IdOf(Head(wire))
      BY DEF h, r
    <3> QED BY <1>1, <1>2, <1>3, <1>4, <1>5, <3>1, <3>2, <3>3, CreditRead
  <2>2. /\ Credit \in Nat /\ Credit' \in Nat /\ Waiting \in Nat /\ LateBaud \in Nat /\ Strays \in Nat
        /\ Credit = 0 => Owed = {}
    BY <1>1, CreditIs, CreditIsNext, StraysType, NothingOwed DEF CreditFact, Waiting, LateBaud
  <2>3. h \in Owed => Credit # 0
    BY <2>2
  <2>4. At \in BeforeL5 => At \notin AfterL5
    BY DEF BeforeL5, AfterVersion, AfterBaud, AfterNmea, AfterUbx, AfterNav5, AfterSbas,
       AfterL5, AfterGnss, AfterRate
  <2>5. ASSUME Refused' PROVE /\ r.kind # "version" /\ (At \in BeforeL5 => h \in Owed)
    BY <1>6, <1>10, <2>1, <2>4, <2>5 DEF WasRefused
  <2>6. At \in BeforeL5 => Credit' <= Waiting + LateBaud
    BY <1>4, <2>1, <2>2 DEF CreditInv
  <2>7. At \in BeforeL5 /\ Refused' /\ LateBaud = 0 => state = "WAIT"
    BY <1>4, <2>2, <2>3, <2>5 DEF CreditInv, Waiting
  <2>8. AwaitsBaud /\ Refused' => Credit' = 0
    <3> SUFFICES ASSUME AwaitsBaud, Refused' PROVE Credit' = 0
      OBVIOUS
    <3>1. At = "DISABLE_NMEA" /\ counter = 0 /\ LateBaud = 0 /\ state = "WAIT" /\ At \in BeforeL5
      BY <1>4 DEF DialogueInv, AwaitsBaud, At, BeforeL5, AfterVersion, AfterBaud, AfterNmea, AfterUbx,
         AfterNav5, AfterSbas, AfterL5, AfterGnss, AfterRate
    <3>2. r.i \in Nat
      BY <1>2, GpsAssumption DEF Requests, r
    <3>3. r.kind = "baud"
      BY <1>6, <2>5, <3>1, <3>2 DEF SentBy, AfterVersion, AfterBaud, AfterNmea, AfterUbx,
         AfterNav5, AfterSbas, AfterL5, AfterGnss, AfterRate
    <3>4. Credit' <= Credit - 1
      BY <1>6, <2>1, <3>3
    <3>5. Credit <= 1
      BY <1>4, <3>1 DEF CreditInv, Waiting
    <3> QED BY <2>2, <3>4, <3>5
  <2>9. AwaitsL5 => /\ Credit' <= LateBaud + (IF module.l5 THEN 2 ELSE 0)
                    /\ LateBaud = 0 => Owed' = {} /\ (Refused' => Credit' = 0)
    <3> SUFFICES ASSUME AwaitsL5
                 PROVE  /\ Credit' <= LateBaud + (IF module.l5 THEN 2 ELSE 0)
                        /\ LateBaud = 0 => Owed' = {} /\ (Refused' => Credit' = 0)
      OBVIOUS
    <3>1. /\ Credit <= LateBaud + (IF module.l5 THEN 2 ELSE 0)
          /\ LateBaud = 0 => Owed = {}
      BY <1>4 DEF CreditInv
    <3>2. ASSUME LateBaud = 0, Refused' PROVE Credit' = 0
      <4>1. Owed = {} /\ Owed' = {} /\ h = L5
        BY <2>1, <3>1, <3>2
      <4>2. Extra' = 0 /\ Heard' = 0
        BY <2>1, <3>2, <4>1
      <4>3. Cardinality(Owed') = 0
        BY <4>1, FS_EmptySet
      <4> QED BY <1>1, <4>2, <4>3, CreditIsNext DEF CreditFact
    <3> QED BY <2>1, <2>2, <3>1, <3>2
  <2>10. At \in AfterL5 /\ ~AwaitsL5 => Credit' <= Waiting + Strays
    BY <1>4, <2>1, <2>2 DEF CreditInv
  <2> QED BY <1>3, <1>5, <2>6, <2>7, <2>8, <2>9, <2>10 DEF CreditInv
<1> QED BY <1>8, <1>9, <1>11, <1>12, <1>13

------------------------------------------------------------------------------
(* A frame, whole or damaged, and an answer that is lost. *)
LEMMA MessageKeeps ==
  ASSUME GpsInv, NEW m, Input(m), Message(m), m # "none", module' = module
  PROVE  GpsInv'
<1>1. TypeOK /\ Taking /\ answers' \in Seq(Responses) /\ Len(answers') <= 2
  BY InputTakes DEF GpsInv
<1>2. CASE written = 0
  <2> DEFINE s == Found(state)
  <2>1. Handle(s, m) /\ written' \in 0..Swallowing
    BY <1>1, <1>2 DEF Message, Swallowing
  <2>2. s \in States /\ (s = state \/ (s = "GET_VERSION" /\ state = "DETECT_BAUD")) /\ s # "DETECT_BAUD"
    BY <1>1 DEF Found, TypeOK, States
  <2> HIDE DEF s
  <2> QED BY <2>1, <2>2, HandleKeeps
<1>3. CASE written # 0
  <2>1. /\ written' \in 0..Swallowing /\ UNCHANGED <<dialogue, wire>>
    BY <1>1, <1>3 DEF Message, AfterFrame, LengthClass, Swallowing
  <2>2. TypeOK'
    BY <1>1, <2>1 DEF TypeOK, dialogue
  <2>3. SameModule
    BY DEF SameModule
  <2> QED BY <1>1, <2>1, <2>2, <2>3, IdleKeeps DEF dialogue
<1> QED BY <1>2, <1>3

(* A damaged frame changes the count of bytes only. *)
LEMMA DamagedKeeps ==
  ASSUME GpsInv, NEW m, Damaged(m), Taking, module' = module
  PROVE  GpsInv'
<1>1. TypeOK
  BY DEF GpsInv
<1>2. answers' \in Seq(Responses) /\ Len(answers') <= 2
  BY <1>1, TakingType
<1>3. written' \in 0..Swallowing /\ UNCHANGED <<dialogue, wire>>
  BY <1>1 DEF Damaged, TypeOK, AfterFrame, LengthClass, Swallowing
<1>4. TypeOK'
  BY <1>1, <1>2, <1>3 DEF TypeOK, dialogue
<1>5. SameModule
  BY DEF SameModule
<1> QED BY <1>3, <1>4, <1>5, IdleKeeps DEF dialogue

------------------------------------------------------------------------------
(* At the start nothing has been asked. *)
LEMMA GpsInvInit == Init => GpsInv
<1> SUFFICES ASSUME Init PROVE GpsInv
  OBVIOUS
<1>1. TypeOK
  <2>1. {{"GPS", "GLO"}, {"GPS", "SBAS", "GAL", "BDS"}} \subseteq SUBSET Signals
    BY DEF Signals
  <2>2. {{}, {<<"ubx", 0>>}} \subseteq SUBSET Ids
    BY SomeIds DEF Ids, Kinds
  <2>3. module \in [baud : BaudRange, modern : BOOLEAN, l5 : BOOLEAN, alive : BOOLEAN,
                   offers : SUBSET Signals, signals : SUBSET Signals, applied : SUBSET Ids]
    <3> HIDE DEF BaudRange, Signals, Ids
    <3> QED BY <2>1, <2>2 DEF Init
  <2>4. Target \in BaudRange /\ 0 \in 0..Len(Bauds) + NmeaOff + UbxOn
    BY SomeIds DEF BaudRange
  <2>5. wire \in Seq(Requests) /\ Len(wire) <= Wire /\ answers \in Seq(Responses) /\ Len(answers) <= 2
    BY GpsAssumption DEF Init
  <2>6. support \in [modern : BOOLEAN, signals : SUBSET Signals]
    BY DEF Init
  <2>7. state \in States /\ ackState \in States /\ timeoutState \in States /\ written \in 0..Swallowing
    BY DEF Init, States, Swallowing
  <2> QED BY <2>3, <2>4, <2>5, <2>6, <2>7 DEF Init, TypeOK
<1>2. /\ wire = <<>> /\ answers = <<>> /\ ~present /\ state = "DETECT_BAUD" /\ late = {}
  BY DEF Init
<1>3. SignalInv /\ UsedInv
  <2>1. "GPS" \in module.offers /\ <<"gnss", 0>> \notin module.applied
    BY DEF Init
  <2> QED BY <1>2, <2>1 DEF SignalInv, UsedInv
<1>4. /\ At = "DETECT_BAUD" /\ ~AwaitsL5 /\ ~AwaitsBaud /\ Waiting = 0 /\ LateBaud = 0
      /\ At \notin AfterVersion /\ At \notin AfterBaud /\ At \notin AfterL5
  BY <1>2 DEF At, AwaitsL5, AwaitsBaud, Waiting, LateBaud, AfterVersion, AfterBaud, AfterNmea, AfterUbx,
     AfterNav5, AfterSbas, AfterL5, AfterGnss, AfterRate
<1>5. DialogueInv /\ WireInv /\ AnswerInv /\ RateInv
  <2>1. WireInv
    BY <1>2 DEF WireInv
  <2>2. AnswerInv
    BY <1>2, <1>4 DEF AnswerInv
  <2>3. DialogueInv
    BY <1>2, <1>4 DEF DialogueInv
  <2> QED BY <1>4, <2>1, <2>2, <2>3 DEF RateInv
<1>6. Credit = 0 /\ ~Refused
  <2>1. Sent = {}
    BY <1>4 DEF Sent, SentBy, AfterVersion, AfterBaud, AfterNmea, AfterUbx,
     AfterNav5, AfterSbas, AfterL5, AfterGnss, AfterRate
  <2>2. Owed = {}
    BY <2>1 DEF Owed
  <2>3. Cardinality(Owed) = 0
    BY <2>2, FS_EmptySet
  <2>4. Heard = 0 /\ Extra = 0 /\ ~Refused
    BY <1>2 DEF Heard, Extra, Counts, OnWire, Refused
  <2> QED BY <1>1, <2>3, <2>4, CreditIs DEF CreditFact
<1>7. CreditInv
  BY <1>4, <1>6 DEF CreditInv
<1> QED BY <1>1, <1>3, <1>5, <1>7 DEF GpsInv

(* One case for each action. *)
LEMMA GpsInvStep == GpsInv /\ [Next]_vars => GpsInv'
<1> SUFFICES ASSUME GpsInv, [Next]_vars PROVE GpsInv'
  OBVIOUS
<1>1. TypeOK
  BY DEF GpsInv
<1>2. CASE Update
  <2>1. Handle(state, "none") /\ UNCHANGED <<written, module, answers, damaged>> /\ written \in 0..Swallowing
    BY <1>1, <1>2 DEF Update, TypeOK
  <2>2. CASE state = "DETECT_BAUD"
    BY <2>1, <2>2, DetectKeeps DEF Handle
  <2>3. CASE state # "DETECT_BAUD"
    <3>1. Input("none") /\ state \in States
      BY <1>1, <2>1 DEF Input, TypeOK
    <3> QED BY <2>1, <2>3, <3>1, HandleKeeps
  <2> QED BY <2>2, <2>3
<1>3. CASE Sentence
  <2>1. \E r : Asking(r)
    BY <1>3, ReadVersionAsks DEF Sentence
  <2> QED BY <1>1, <1>3, <2>1, AskingKeeps DEF Sentence, Taking, TypeOK
<1>4. CASE Hear
  <2> DEFINE a == Head(answers)
  <2>1. answers # <<>> /\ answers' = Tail(answers) /\ module' = module
    BY <1>4 DEF Hear
  <2>2. a \in Responses
    BY <1>1, <2>1, AnswersHeard
  <2>3. a.m \in Replies \ {"pvt"} /\ a.m # "none"
    BY <2>2 DEF Responses, Replies
  <2>4. Taking
    BY <2>1 DEF Taking
  <2>5. \/ a.baud = baud /\ Message(a.m)
        \/ Damaged(a.m)
        \/ UNCHANGED <<dialogue, wire, written, damaged>>
    BY <1>4 DEF Hear
  <2>6. CASE a.baud = baud /\ Message(a.m)
    <3>1. Input(a.m)
      BY <2>1, <2>3, <2>6 DEF Input, Answered
    <3> HIDE DEF a
    <3> QED BY <2>1, <2>3, <2>6, <3>1, MessageKeeps
  <2>7. CASE Damaged(a.m)
    BY <2>1, <2>4, <2>7, DamagedKeeps
  <2>8. CASE UNCHANGED <<dialogue, wire, written, damaged>>
    <3>1. answers' \in Seq(Responses) /\ Len(answers') <= 2
      BY <1>1, <2>4, TakingType
    <3>2. TypeOK'
      BY <1>1, <2>1, <2>8, <3>1 DEF TypeOK, dialogue
    <3>3. SameModule
      BY <2>1 DEF SameModule
    <3> QED BY <2>4, <2>8, <3>2, <3>3, IdleKeeps DEF dialogue
  <2> QED BY <2>5, <2>6, <2>7, <2>8
<1>5. CASE Navigation
  <2>1. Input("pvt") /\ Message("pvt") /\ module' = module
    BY <1>5 DEF Navigation, Input
  <2> QED BY <2>1, MessageKeeps
<1>6. CASE DamagedNavigation
  BY <1>6, DamagedKeeps DEF DamagedNavigation, Taking
<1>7. CASE Expire
  <2>1. TypeOK'
    BY <1>1, <1>7 DEF Expire, TypeOK
  <2> QED BY <1>7, <2>1, IdleKeeps DEF Expire, Taking, SameModule
<1>8. CASE ModuleReads
  BY <1>8, ReadKeeps
<1>9. CASE ModuleFails
  <2>1. /\ module' = [module EXCEPT !.alive = FALSE]
        /\ UNCHANGED <<dialogue, wire, written, answers, damaged>>
    BY <1>9 DEF ModuleFails
  <2>2. /\ SameModule
        /\ module' \in [baud : BaudRange, modern : BOOLEAN, l5 : BOOLEAN, alive : BOOLEAN,
                       offers : SUBSET Signals, signals : SUBSET Signals, applied : SUBSET Ids]
    BY <1>1, <2>1 DEF TypeOK, SameModule
  <2>3. TypeOK'
    BY <1>1, <2>1, <2>2 DEF TypeOK, dialogue
  <2> QED BY <2>1, <2>2, <2>3, IdleKeeps DEF dialogue, Taking
<1>10. CASE UNCHANGED vars
  <2>1. TypeOK'
    BY <1>1, <1>10 DEF TypeOK, vars, dialogue
  <2> QED BY <1>10, <2>1, IdleKeeps DEF vars, dialogue, Taking, SameModule
<1> QED BY <1>2, <1>3, <1>4, <1>5, <1>6, <1>7, <1>8, <1>9, <1>10 DEF Next

(* The invariant of the dialogue: what it has asked for, what may still let  *)
(* it go on, and what the module has taken.                                  *)
THEOREM GpsInvariant == Spec => []GpsInv
<1>1. Init => GpsInv
  BY GpsInvInit
<1>2. GpsInv /\ [Next]_vars => GpsInv'
  BY GpsInvStep
<1> QED BY <1>1, <1>2, PTL DEF Spec

(* The state is well formed; requests are only made for messages the tables  *)
(* of GpsSensor have.                                                        *)
THEOREM GpsTypeOK == Spec => []TypeOK
<1>1. GpsInv => TypeOK
  BY DEF GpsInv
<1> QED BY <1>1, GpsInvariant, PTL

(* GpsSensor only receives, and only reports a GPS as present, after both    *)
(* ends use the configured baud rate and the module has taken the settings,  *)
(* but for as many as there were answers that were not theirs.               *)
THEOREM ConfiguredAlways == Spec => []ConfiguredBeforeUse
<1>1. GpsInv => ConfiguredBeforeUse
  <2> SUFFICES ASSUME GpsInv, state = "RECEIVE" \/ present
               PROVE  /\ Cardinality(Required \ module.applied) <= Strays
                      /\ baud = module.baud
                      /\ <<"gnss", 0>> \in module.applied => "GPS" \in module.signals
    BY DEF ConfiguredBeforeUse
  <2>1. SignalInv /\ UsedInv
    BY DEF GpsInv
  <2> QED BY <2>1, ReceivesConfigured DEF SignalInv, UsedInv
<1> QED BY <1>1, GpsInvariant, PTL

=============================================================================
