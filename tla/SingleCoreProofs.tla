-------------------------- MODULE SingleCoreProofs --------------------------
(***************************************************************************)
(* With even rates the single-core loop never reads the receiver: for all  *)
(* settings, and wherever the iteration counters wrap.  And the control    *)
(* loop hands on what is meant: for all limits and sticks.  The rates and  *)
(* the motors keep order and limits: for all curves and demands.           *)
(***************************************************************************)
EXTENDS SingleCore, AttitudeControl, MotorMixing, WellFoundedInduction, TLAPS

(* A number that an even divisor divides is even; one that leaves 1 is odd. *)
LEMMA EvenDivisor ==
  ASSUME NEW n \in Nat, NEW d \in Nat \ {0}, NEW r \in {0, 1}, Even(d), n % d = r
  PROVE  n % 2 = r
<1>1. PICK h \in Nat : d = 2 * h
  <2>1. d = 2 * (d \div 2) /\ d \div 2 \in Nat
    BY DEF Even
  <2> QED
    BY <2>1
<1>2. PICK q \in Nat : n = d * q + r
  <2>1. n = d * (n \div d) + (n % d) /\ n \div d \in Nat
    OBVIOUS
  <2> QED
    BY <2>1
<1>3. n = 2 * (h * q) + r /\ h * q \in Nat
  BY <1>1, <1>2
<1> QED
  BY <1>3

(* The counters stay numbers, which is all the argument needs of them. *)
Starved == gyroIter \in Nat /\ rates \in Rates /\ EvenRatesStarveReceiver

(* An update whose rates are even does not read the receiver: an even slot  *)
(* of the gyro is not an odd one.                                           *)
LEMMA UpdateStarves ==
  ASSUME Starved, NEW due \in BOOLEAN, Update(due)
  PROVE  Starved'
<1> DEFINE gyro == Count(gyroIter)
<1>1. gyro \in Nat
  BY RateAssumption DEF Starved, Count
<1>2. gyroIter' = gyro /\ rates' = rates
  BY DEF Update
<1>3. ASSUME Even(rates.loop), Even(rates.input) PROVE "input" \notin ran'
  <2>1. rates.loop \in Nat \ {0} /\ rates.input \in Nat \ {0}
    BY RateAssumption DEF Starved
  <2>2. Slot(0, rates.loop) = 0 /\ Slot(1, rates.input) = 1
    BY <1>3, <2>1 DEF Slot, Even
  <2>3. ~(Synced(gyro, rates.loop, 0) /\ Synced(gyro, rates.input, 1))
    <3>1. SUFFICES ASSUME gyro % rates.loop = 0, gyro % rates.input = 1 PROVE FALSE
      BY <2>2 DEF Synced
    <3>2. gyro % 2 = 0
      BY <1>1, <1>3, <2>1, <3>1, EvenDivisor
    <3>3. gyro % 2 = 1
      BY <1>1, <1>3, <2>1, <3>1, EvenDivisor
    <3> QED
      BY <3>2, <3>3
  <2>4. "input" \in ran' => Synced(gyro, rates.loop, 0) /\ Synced(gyro, rates.input, 1)
    BY DEF Update, Only, Gated
  <2> QED
    BY <2>3, <2>4
<1> QED
  BY <1>1, <1>2, <1>3 DEF Starved, EvenRatesStarveReceiver

(* For every set of settings and every width of the counters, a receiver    *)
(* whose rate and loop rate are both even divisors of the gyro's is never   *)
(* read.                                                                    *)
THEOREM EvenRatesStarve == Spec => []EvenRatesStarveReceiver
<1>1. Init => Starved
  BY DEF Init, Starved, EvenRatesStarveReceiver
<1>2. Starved /\ [Next]_loopVars => Starved'
  <2> SUFFICES ASSUME Starved, [Next]_loopVars PROVE Starved'
    OBVIOUS
  <2>1. ASSUME NEW due \in BOOLEAN, Update(due) PROVE Starved'
    BY <2>1, UpdateStarves
  <2>2. CASE Reload
    BY <2>2 DEF Reload, Starved, EvenRatesStarveReceiver
  <2>3. CASE UNCHANGED loopVars
    BY <2>3 DEF loopVars, Starved, EvenRatesStarveReceiver
  <2> QED
    BY <2>1, <2>2, <2>3 DEF Next
<1>3. Starved => EvenRatesStarveReceiver
  BY DEF Starved
<1> QED
  BY <1>1, <1>2, <1>3, PTL DEF Spec

-----------------------------------------------------------------------------
(* A limited value keeps to its limits, and a step of one unit under a      *)
(* limit is one of at most one unit.                                        *)
LEMMA LimitedStep ==
  ASSUME NEW value \in Int, NEW error \in {-1, 0, 1},
         NEW low \in Int, NEW high \in Int, low <= high
  PROVE  /\ Limited(value + error, low, high) \in low..high
         /\ Distance(Limited(value + error, low, high), Limited(value, low, high)) <= 1
BY DEF Limited, Distance

LEMMA DistanceType ==
  ASSUME NEW value \in Int
  PROVE  Distance(value, 0) \in Nat
BY DEF Distance

(* Pid::update moves an integral by at most one unit, and never beyond its  *)
(* limit.                                                                   *)
LEMMA UpdateIsBounded ==
  ASSUME ControlTypeOK, IntegralIsBounded, Updates
  PROVE  /\ inner' \in [i : Int, iScale : BOOLEAN, fScale : BOOLEAN]
         /\ inner'.fScale = inner.fScale
         /\ Distance(inner'.i, 0) <= ILimit
         /\ Distance(inner'.i, 0) <= Distance(inner.i, 0) + 1
<1>1. inner.i \in Int /\ inner.iScale \in BOOLEAN /\ ILimit \in Nat
  BY ControlAssumption DEF ControlTypeOK
<1>2. PICK error \in {-1, 0, 1} :
        inner' = [inner EXCEPT !.i = Integrated(@, error, inner.iScale, saturated, -ILimit, ILimit)]
  BY DEF Updates
<1> DEFINE i == Integrated(inner.i, error, inner.iScale, saturated, -ILimit, ILimit)
<1>3. Distance(inner.i, 0) <= ILimit
  BY DEF IntegralIsBounded
<1>4. i \in Int /\ Distance(i, 0) <= ILimit /\ Distance(i, 0) <= Distance(inner.i, 0) + 1
  BY <1>1, <1>3 DEF Integrated, Limited, Distance
<1>5. inner' = [inner EXCEPT !.i = i]
  BY <1>2
<1> HIDE DEF i
<1>6. inner'.i = i /\ inner'.fScale = inner.fScale
      /\ inner' \in [i : Int, iScale : BOOLEAN, fScale : BOOLEAN]
  BY <1>4, <1>5 DEF ControlTypeOK
<1> QED BY <1>4, <1>6

(* Controller::resetIterm makes no integral larger, and touches no gain.    *)
LEMMA ResetIsBounded ==
  ASSUME ControlTypeOK, resetIterm
  PROVE  /\ inner' \in [i : Int, iScale : BOOLEAN, fScale : BOOLEAN]
         /\ inner'.fScale = inner.fScale
         /\ inner'.i = (IF Grounded THEN 0 ELSE inner.i)
BY DEF ControlTypeOK, resetIterm

LEMMA ControlInvInit ==
  ASSUME ControlInit
  PROVE  ControlInv
<1>1. inner = [i |-> 0, iScale |-> TRUE, fScale |-> TRUE] /\ pc = "reset" /\ flown = 0
      /\ stick = {} /\ ILimit \in Nat
  BY ControlAssumption DEF ControlInit
<1>2. inner \in [i : Int, iScale : BOOLEAN, fScale : BOOLEAN] /\ inner.i = 0
  BY <1>1
<1>3. ControlTypeOK
  <2>1. thrust \in Int /\ modes \subseteq Modes /\ robot \in BOOLEAN
    BY ControlAssumption DEF ControlInit
  <2>2. hold \in Int /\ rate \in Int /\ out \in Int /\ torn = FALSE /\ flown \in 0..ILimit
    BY <1>1 DEF ControlInit
  <2> QED BY <1>1, <1>2, <2>1, <2>2 DEF ControlTypeOK
<1>4. IntegralIsBounded
  BY <1>1, <1>2 DEF IntegralIsBounded, Grown, Distance
<1> QED BY <1>1, <1>3, <1>4 DEF ControlInv, SetpointIsMeant, HoldFollowsStick, ControlIsMeant

LEMMA ResetKeepsInv ==
  ASSUME ControlInv, Reset
  PROVE  ControlInv'
<1>1. ControlTypeOK /\ ILimit \in Nat /\ inner.i \in Int /\ flown \in 0..ILimit
  BY ControlAssumption DEF ControlInv, ControlTypeOK
<1>2. inner' \in [i : Int, iScale : BOOLEAN, fScale : BOOLEAN]
      /\ inner'.i = (IF Grounded THEN 0 ELSE inner.i)
  BY <1>1, ResetIsBounded DEF Reset
<1>3. flown' = (IF Grounded THEN 0 ELSE IF flown < ILimit THEN flown + 1 ELSE flown)
  BY DEF Reset
<1>4. Distance(inner.i, 0) <= ILimit /\ Distance(inner.i, 0) <= flown + 1
  BY DEF ControlInv, IntegralIsBounded, Grown, Reset
<1>5. pc = "reset" /\ pc' = "outer"
  BY DEF Reset
<1>6. ControlTypeOK'
  <2>1. flown' \in 0..ILimit
    BY <1>1, <1>3
  <2>2. torn' = FALSE /\ UNCHANGED <<modes, thrust, robot, hold, rate, out, stick>>
    BY DEF Reset, core0Vars
  <2> QED BY <1>1, <1>2, <1>5, <2>1, <2>2 DEF ControlTypeOK
<1>7. IntegralIsBounded'
  <2>1. Distance(inner'.i, 0) <= ILimit /\ Distance(inner'.i, 0) <= flown'
    BY <1>1, <1>2, <1>3, <1>4 DEF Distance
  <2> QED BY <1>5, <2>1 DEF IntegralIsBounded, Grown, Distance
<1>8. HoldFollowsStick'
  BY <1>5 DEF ControlInv, HoldFollowsStick, Reset
<1> QED BY <1>5, <1>6, <1>7, <1>8 DEF ControlInv, SetpointIsMeant, ControlIsMeant

LEMMA OuterKeepsInv ==
  ASSUME ControlInv, Outer
  PROVE  ControlInv'
<1>1. ControlTypeOK /\ thrust \in Int
  BY DEF ControlInv, ControlTypeOK
<1>2. pc = "outer" /\ pc' = "inner" /\ UNCHANGED <<core0Vars, robot, hold, torn, stick, flown>>
  BY DEF Outer
<1>3. /\ inner' \in [i : Int, iScale : BOOLEAN, fScale : BOOLEAN] /\ inner'.i = inner.i
      /\ rate' \in Int
      /\ ~robot => /\ "ALTHOLD" \notin modes => rate' = thrust
                   /\ "ANGLE" \in modes => ~inner'.fScale
  <2>1. CASE robot
    BY <1>1, <2>1 DEF Outer, OuterLoopRobot, ControlTypeOK
  <2>2. CASE ~robot
    <3>1. ClimbRate \in Int
      BY <1>1 DEF ClimbRate, Deadband
    <3>2. rate' = IF "ALTHOLD" \in modes THEN ClimbRate ELSE thrust
      BY <2>2 DEF Outer, OuterLoop
    <3>3. inner' = IF "ANGLE" \in modes THEN [inner EXCEPT !.fScale = FALSE] ELSE inner
      BY <2>2 DEF Outer, OuterLoop
    <3> QED BY <1>1, <3>1, <3>2, <3>3 DEF ControlTypeOK
  <2> QED BY <1>1, <2>1, <2>2 DEF ControlTypeOK
<1>4. ControlTypeOK'
  BY <1>1, <1>2, <1>3 DEF ControlTypeOK, core0Vars, Outer
<1>5. IntegralIsBounded'
  BY <1>2, <1>3 DEF ControlInv, IntegralIsBounded, Grown, Distance
<1>6. SetpointIsMeant'
  BY <1>2, <1>3 DEF SetpointIsMeant, core0Vars
<1>7. HoldFollowsStick'
  BY <1>2 DEF ControlInv, HoldFollowsStick
<1> QED BY <1>2, <1>4, <1>5, <1>6, <1>7 DEF ControlInv, ControlIsMeant

LEMMA InnerKeepsInv ==
  ASSUME ControlInv, Inner
  PROVE  ControlInv'
<1>1. ControlTypeOK /\ thrust \in Int /\ rate \in Int /\ hold \in Int /\ out \in Int
      /\ IntegralIsBounded /\ flown \in 0..ILimit /\ inner.i \in Int
  BY DEF ControlInv, ControlTypeOK
<1>2. pc = "inner" /\ pc' = "mix" /\ UNCHANGED <<core0Vars, robot, rate, torn, stick, flown>>
      /\ forward' = inner.fScale
  BY DEF Inner
<1>3. ILimit \in Nat /\ HoldLow \in Int /\ HoldHigh \in Int /\ HoldLow <= HoldHigh
  BY ControlAssumption
<1>4. /\ inner' \in [i : Int, iScale : BOOLEAN, fScale : BOOLEAN]
      /\ Distance(inner'.i, 0) <= ILimit /\ Distance(inner'.i, 0) <= flown + 1
  <2>1. Distance(inner.i, 0) <= flown /\ Distance(inner.i, 0) <= ILimit
        /\ Distance(inner.i, 0) \in Nat
    BY <1>1, <1>2, DistanceType DEF IntegralIsBounded, Grown
  <2>2. CASE Updates
    <3>1. /\ inner' \in [i : Int, iScale : BOOLEAN, fScale : BOOLEAN]
          /\ Distance(inner'.i, 0) <= ILimit
          /\ Distance(inner'.i, 0) <= Distance(inner.i, 0) + 1
      BY <1>1, <2>2, UpdateIsBounded
    <3>2. Distance(inner'.i, 0) \in Nat
      BY <3>1, DistanceType
    <3> QED BY <1>1, <1>3, <2>1, <3>1, <3>2
  <2>3. CASE resetIterm
    <3>1. inner' \in [i : Int, iScale : BOOLEAN, fScale : BOOLEAN]
          /\ inner'.i = (IF Grounded THEN 0 ELSE inner.i)
      BY <1>1, <2>3, ResetIsBounded
    <3> QED BY <1>1, <1>3, <2>1, <3>1 DEF Distance
  <2> QED BY <2>2, <2>3 DEF Inner, InnerLoop, InnerLoopRobot
<1>5. /\ hold' \in Int /\ out' \in Int
      /\ ~robot =>
           /\ "ALTHOLD" \notin modes => out' = rate /\ hold' = thrust
           /\ "ALTHOLD" \in modes =>
                /\ out' \in HoldLow..HoldHigh
                /\ Distance(out', Limited(hold, HoldLow, HoldHigh)) <= 1
  <2>1. CASE robot
    BY <1>1, <2>1 DEF Inner, InnerLoopRobot
  <2>2. CASE ~robot /\ "ALTHOLD" \in modes
    <3>1. PICK error \in {-1, 1} :
            /\ hold' = Integrated(hold, error, TRUE, FALSE, HoldLow, HoldHigh)
            /\ out' = hold'
      BY <2>2 DEF Inner, InnerLoop
    <3>2. hold' = Limited(hold + error, HoldLow, HoldHigh)
      BY <3>1 DEF Integrated
    <3>3. error \in {-1, 0, 1}
      OBVIOUS
    <3>4. hold' \in HoldLow..HoldHigh /\ Distance(hold', Limited(hold, HoldLow, HoldHigh)) <= 1
      BY <1>1, <1>3, <3>2, <3>3, LimitedStep
    <3>5. hold' \in Int
      BY <1>3, <3>4
    <3>6. out' \in HoldLow..HoldHigh /\ Distance(out', Limited(hold, HoldLow, HoldHigh)) <= 1
      BY <3>1, <3>4
    <3> QED BY <2>2, <3>1, <3>5, <3>6
  <2>3. CASE ~robot /\ "ALTHOLD" \notin modes
    BY <1>1, <2>3 DEF Inner, InnerLoop
  <2> QED BY <2>1, <2>2, <2>3
<1>6. ControlTypeOK'
  BY <1>1, <1>2, <1>4, <1>5 DEF ControlTypeOK, core0Vars
<1>7. IntegralIsBounded'
  BY <1>2, <1>4 DEF IntegralIsBounded, Grown, Distance
<1>8. ControlIsMeant'
  <2>1. modes' = modes /\ thrust' = thrust
    BY <1>2 DEF core0Vars
  <2>2. Distance(inner'.i, 0) <= flown' + 1
    BY <1>2, <1>4
  <2>3. ~torn /\ ~robot =>
          /\ "ALTHOLD" \notin modes => rate = thrust
          /\ "ANGLE" \in modes => ~inner.fScale
    BY <1>2 DEF ControlInv, SetpointIsMeant
  <2>4. \A before \in stick : before = hold
    BY <1>2 DEF ControlInv, HoldFollowsStick
  <2>5. ASSUME ~torn, ~robot
        PROVE  /\ "ALTHOLD" \notin modes => out' = thrust /\ hold' = thrust
               /\ "ALTHOLD" \in modes =>
                    /\ out' \in HoldLow..HoldHigh
                    /\ \A before \in stick : Distance(out', Limited(before, HoldLow, HoldHigh)) <= 1
               /\ "ANGLE" \in modes => ~forward'
    <3>1. CASE "ALTHOLD" \in modes
      <4>1. out' \in HoldLow..HoldHigh /\ Distance(out', Limited(hold, HoldLow, HoldHigh)) <= 1
        BY <1>5, <2>5, <3>1
      <4>2. ASSUME NEW before \in stick
            PROVE  Distance(out', Limited(before, HoldLow, HoldHigh)) <= 1
        BY <2>4, <4>1
      <4> QED BY <1>2, <2>3, <2>5, <3>1, <4>1, <4>2
    <3>2. CASE "ALTHOLD" \notin modes
      <4>1. out' = thrust /\ hold' = thrust
        BY <1>5, <2>3, <2>5, <3>2
      <4>2. "ANGLE" \in modes => ~forward'
        BY <1>2, <2>3, <2>5, Zenon
      <4> QED BY <3>2, <4>1, <4>2
    <3> QED BY <3>1, <3>2
  <2> QED BY <1>2, <2>1, <2>2, <2>5 DEF ControlIsMeant, Distance, Limited
<1> QED BY <1>2, <1>6, <1>7, <1>8 DEF ControlInv, SetpointIsMeant, HoldFollowsStick

LEMMA MixKeepsInv ==
  ASSUME ControlInv, Mix
  PROVE  ControlInv'
<1>1. pc = "mix" /\ pc' = "reset" /\ UNCHANGED <<core0Vars, robot, inner, hold, flown, torn>>
  BY DEF Mix
<1>2. stick' = IF robot \/ "ALTHOLD" \in modes \/ torn THEN {} ELSE {out}
  BY DEF Mix
<1>3. ControlTypeOK'
  BY <1>1, <1>2 DEF ControlInv, ControlTypeOK, Mix, core0Vars
<1>4. IntegralIsBounded'
  BY <1>1 DEF ControlInv, IntegralIsBounded, Grown, Distance
<1>5. HoldFollowsStick'
  <2>1. ~torn /\ ~robot /\ "ALTHOLD" \notin modes => out = hold
    BY <1>1 DEF ControlInv, ControlIsMeant
  <2> QED BY <1>1, <1>2, <2>1 DEF HoldFollowsStick
<1> QED BY <1>1, <1>3, <1>4, <1>5 DEF ControlInv, SetpointIsMeant, ControlIsMeant

(* A change on the other core tears the loop it comes in, and no other.     *)
LEMMA ChangeKeepsInv ==
  ASSUME ControlInv, ModesChange \/ updateScaler
  PROVE  ControlInv'
<1>1. UNCHANGED <<pc, robot, hold, rate, out, flown, stick>> /\ torn' = TRUE
  BY DEF ModesChange, updateScaler
<1>2. modes' \subseteq Modes /\ thrust' \in Int
      /\ inner' \in [i : Int, iScale : BOOLEAN, fScale : BOOLEAN] /\ inner'.i = inner.i
  <2>1. CASE ModesChange
    BY <2>1, ControlAssumption DEF ModesChange, ControlInv, ControlTypeOK
  <2>2. CASE updateScaler
    BY <2>2 DEF updateScaler, core0Vars, ControlInv, ControlTypeOK
  <2> QED BY <2>1, <2>2
<1>3. ControlTypeOK'
  BY <1>1, <1>2 DEF ControlInv, ControlTypeOK
<1>4. IntegralIsBounded'
  BY <1>1, <1>2 DEF ControlInv, IntegralIsBounded, Grown, Distance
<1>5. HoldFollowsStick'
  BY <1>1 DEF ControlInv, HoldFollowsStick
<1>6. ControlIsMeant'
  BY <1>1, <1>2 DEF ControlInv, ControlIsMeant, Distance
<1> QED BY <1>1, <1>3, <1>4, <1>5, <1>6 DEF ControlInv, SetpointIsMeant

(* What reaches the mixer is meant, for every limit, every set of stick     *)
(* positions, and whatever the other core changes between any two steps of  *)
(* the loop.                                                                *)
THEOREM ControlIsMeantAlways == ControlSpec => []ControlIsMeant
<1>1. ControlInit => ControlInv
  BY ControlInvInit
<1>2. ControlInv /\ [ControlNext]_controlVars => ControlInv'
  <2> SUFFICES ASSUME ControlInv, [ControlNext]_controlVars
               PROVE  ControlInv'
    OBVIOUS
  <2>1. CASE UNCHANGED controlVars
    BY <2>1 DEF controlVars, core0Vars, ControlInv, ControlTypeOK, IntegralIsBounded, Grown,
                Distance, SetpointIsMeant, HoldFollowsStick, ControlIsMeant, Limited
  <2> QED BY <2>1, ResetKeepsInv, OuterKeepsInv, InnerKeepsInv, MixKeepsInv, ChangeKeepsInv
          DEF ControlNext
<1>3. ControlInv => ControlIsMeant
  BY DEF ControlInv
<1> QED BY <1>1, <1>2, <1>3, PTL DEF ControlSpec

-----------------------------------------------------------------------------
(* The rate curve, part by part: how it is bent, how far the rate may rise, *)
(* and the room that is left of the divisor.                                *)
Cubed(a) == (a * a * a) \div 100
Bent(c, a) == (Cubed(a) * c.expo) + (a * 100 * (100 - c.expo))
RcRate(c) == 2 * c.rate
MaxDps(c) == IF 10 * c.superRate > RcRate(c) THEN 10 * c.superRate ELSE RcRate(c)
Rise(c, a) == ((Bent(c, a) \div 1000) * (MaxDps(c) - RcRate(c))) \div MaxDps(c)
Room(c, a) == Within(1000000 - Rise(c, a) * 1000, 10000, 1000000)

LEMMA CurveIs ==
  ASSUME NEW c \in Curves
  PROVE  /\ c.rate \in Nat \ {0} /\ c.superRate \in Nat /\ c.expo \in Nat /\ c.limit \in Nat
         /\ RcRate(c) \in Nat \ {0} /\ MaxDps(c) \in Nat \ {0} /\ MaxDps(c) - RcRate(c) \in Nat
<1>1. c.rate \in Nat \ {0} /\ c.superRate \in Nat /\ c.expo \in Nat /\ c.limit \in Nat
  BY SMT DEF Curves
<1> QED
  BY <1>1, SMT DEF RcRate, MaxDps

LEMMA QuickIsOfRoom ==
  ASSUME NEW c, NEW s \in Int
  PROVE  Quick(c, s) = Within((s * RcRate(c) * 10000) \div Room(c, IF s < 0 THEN -s ELSE s), -1998, 1998)
BY SMT DEF Quick, Room, Rise, Bent, Cubed, MaxDps, RcRate

(* The order of products and of quotients.                                  *)
LEMMA ProductGrows ==
  ASSUME NEW a \in Int, NEW b \in Int, a <= b, NEW k \in Nat
  PROVE  a * k \in Int /\ b * k \in Int /\ a * k <= b * k
<1>1. (b - a) * k >= 0
  BY SMT
<1>2. (b - a) * k = b * k - a * k
  BY SMT
<1> QED
  BY <1>1, <1>2, SMT

LEMMA DivLess ==
  ASSUME NEW a \in Int, NEW b \in Int, a <= b, NEW n \in Nat \ {0}
  PROVE  a \div n \in Int /\ b \div n \in Int /\ a \div n <= b \div n
<1>1. a = n * (a \div n) + (a % n) /\ 0 <= a % n /\ a % n < n /\ a \div n \in Int /\ a % n \in Int
  BY SMT
<1>2. b = n * (b \div n) + (b % n) /\ 0 <= b % n /\ b % n < n /\ b \div n \in Int /\ b % n \in Int
  BY SMT
<1> DEFINE p == a \div n
           q == b \div n
<1>3. SUFFICES ASSUME p >= q + 1 PROVE FALSE
  BY <1>1, <1>2, SMT
<1>4. n * p >= n * (q + 1)
  BY <1>1, <1>2, <1>3, SMT
<1>5. n * (q + 1) = n * q + n
  BY <1>2, SMT
<1> QED
  BY <1>1, <1>2, <1>4, <1>5, SMT

LEMMA DivByMore ==
  ASSUME NEW x \in Int, NEW n \in Nat \ {0}, NEW k \in Nat \ {0}, n <= k
  PROVE  /\ x >= 0 => x \div k <= x \div n /\ x \div k >= 0
         /\ x < 0 => x \div n <= x \div k /\ x \div k < 0
<1> DEFINE p == x \div n
           q == x \div k
<1>1. p \in Int /\ x = n * p + (x % n) /\ 0 <= x % n /\ x % n < n /\ x % n \in Int
  BY SMT
<1>2. q \in Int /\ x = k * q + (x % k) /\ 0 <= x % k /\ x % k < k /\ x % k \in Int
  BY SMT
<1> HIDE DEF p, q
<1>3. ASSUME x >= 0 PROVE q <= p /\ q >= 0
  <2>1. q >= 0
    <3> SUFFICES ASSUME q <= -1 PROVE FALSE
      BY <1>2, SMT
    <3>1. k * q <= k * (-1)
      BY <1>2, SMT
    <3> QED
      BY <1>2, <1>3, <3>1, SMT
  <2>2. q <= p
    <3> SUFFICES ASSUME q >= p + 1 PROVE FALSE
      BY <1>1, <1>2, SMT
    <3>1. k * q >= n * q
      BY <1>2, <2>1, SMT
    <3>2. n * q >= n * (p + 1)
      BY <1>1, <1>2, SMT
    <3>3. n * (p + 1) = n * p + n
      BY <1>1, SMT
    <3> QED
      BY <1>1, <1>2, <3>1, <3>2, <3>3, SMT
  <2> QED
    BY <2>1, <2>2
<1>4. ASSUME x < 0 PROVE p <= q /\ q < 0
  <2>1. q <= -1
    <3> SUFFICES ASSUME q >= 0 PROVE FALSE
      BY <1>2, SMT
    <3>1. k * q >= 0
      BY <1>2, SMT
    <3> QED
      BY <1>2, <1>4, <3>1, SMT
  <2>2. p <= q
    <3> SUFFICES ASSUME p >= q + 1 PROVE FALSE
      BY <1>1, <1>2, SMT
    <3>1. n * p >= n * (q + 1)
      BY <1>1, <1>2, SMT
    <3>2. n * (q + 1) >= k * (q + 1)
      <4>1. (k - n) * (q + 1) <= 0
        BY <1>2, <2>1, SMT
      <4>2. (k - n) * (q + 1) = k * (q + 1) - n * (q + 1)
        BY <1>2, SMT
      <4>3. k * (q + 1) \in Int /\ n * (q + 1) \in Int
        BY <1>2, SMT
      <4> QED
        BY <4>1, <4>2, <4>3, SMT
    <3>3. k * (q + 1) = k * q + k
      BY <1>2, SMT
    <3> QED
      BY <1>1, <1>2, <3>1, <3>2, <3>3, SMT
  <2> QED
    BY <1>2, <2>1, <2>2, SMT
<1> QED
  BY <1>3, <1>4 DEF p, q

LEMMA SettingsAre ==
  /\ \A x \in Percents : x \in Int /\ 1 <= x /\ x <= 100
  /\ \A x \in Sticks : x \in Int /\ -100 <= x /\ x <= 100
BY SMT DEF Percents, Sticks

LEMMA CubedIs ==
  ASSUME NEW a \in Nat
  PROVE  /\ Cubed(a) \in Nat
         /\ a * a * a \in Nat
         /\ 100 * Cubed(a) <= a * a * a /\ a * a * a <= 100 * Cubed(a) + 99
<1>1. a * a \in Nat
  BY SMT
<1>2. a * a * a \in Nat
  BY <1>1, SMT
<1> DEFINE x == a * a * a
<1> HIDE DEF x
<1>3. x \in Nat => /\ x \div 100 \in Nat
                   /\ 100 * (x \div 100) <= x /\ x <= 100 * (x \div 100) + 99
  BY SMT
<1> QED
  BY <1>2, <1>3 DEF x, Cubed

LEMMA CubedGrows ==
  ASSUME NEW a \in Nat, NEW b \in Nat, a <= b
  PROVE  Cubed(a) <= Cubed(b)
<1>1. a * a \in Nat /\ b * b \in Nat /\ a * a <= b * b
  <2>1. a * a <= b * a
    BY ProductGrows
  <2>2. a * b <= b * b
    BY ProductGrows
  <2>3. a * b = b * a
    BY SMT
  <2> QED
    BY <2>1, <2>2, <2>3, SMT
<1>2. a * a * a <= b * b * a
  BY <1>1, ProductGrows
<1>3. a * (b * b) <= b * (b * b)
  BY <1>1, ProductGrows
<1>4. a * (b * b) = b * b * a /\ b * (b * b) = b * b * b
  BY SMT
<1>5. a * a * a \in Int /\ b * b * b \in Int /\ b * b * a \in Int
  BY SMT
<1>6. a * a * a <= b * b * b
  BY <1>2, <1>3, <1>4, <1>5, SMT
<1> QED
  BY <1>5, <1>6, DivLess DEF Cubed

LEMMA BentIs ==
  ASSUME NEW c \in Curves, NEW a \in Nat
  PROVE  Bent(c, a) \in Int
<1>1. c.expo \in Nat /\ Cubed(a) \in Nat
  BY CurveIs, CubedIs
<1>2. Cubed(a) * c.expo \in Int /\ a * 100 * (100 - c.expo) \in Int
  BY <1>1, SMT
<1> QED
  BY <1>2, SMT DEF Bent

(* From where it bends upwards, the curve is steeper than the line from the *)
(* middle of the stick.                                                     *)
LEMMA CubedSteep ==
  ASSUME NEW a \in Nat, NEW b \in Nat, a < b, Cubed(a) > 0
  PROVE  Cubed(a) * b <= Cubed(b) * a
<1> DEFINE f == Cubed(a)
           g == Cubed(b)
<1>1. /\ f \in Nat /\ 100 * f <= a * a * a /\ a * a * a <= 100 * f + 99 /\ a * a * a \in Nat
      /\ g \in Nat /\ 100 * g <= b * b * b /\ b * b * b <= 100 * g + 99 /\ b * b * b \in Nat
  BY CubedIs
<1>2. a >= 5
  <2> SUFFICES ASSUME a <= 4 PROVE FALSE
    BY SMT
  <2>1. a \in {0, 1, 2, 3, 4}
    BY SMT
  <2>2. Cubed(0) = 0 /\ Cubed(1) = 0 /\ Cubed(2) = 0 /\ Cubed(3) = 0 /\ Cubed(4) = 0
    BY SMT DEF Cubed
  <2> QED
    BY <2>1, <2>2, SMT
<1>3. CASE a = 5
  <2>1. f = 1
    BY <1>3, SMT DEF Cubed
  <2>2. CASE b = 6
    BY <1>3, <2>1, <2>2, SMT DEF Cubed
  <2>3. CASE b >= 7
    <3>1. b * b >= 49
      BY <2>3, SMT
    <3>2. b * b * b >= 49 * b
      <4>1. b * b \in Int
        BY SMT
      <4> QED
        BY <3>1, <4>1, ProductGrows
    <3>3. 100 * g >= 49 * b - 99
      BY <1>1, <3>2, SMT
    <3>4. f * b = b /\ g * a = 5 * g
      BY <1>1, <1>3, <2>1, SMT
    <3> QED
      BY <1>1, <2>3, <3>3, <3>4, SMT
  <2> QED
    BY <1>3, <2>2, <2>3, SMT
<1>4. CASE a = 6
  <2>1. f = 2
    BY <1>4, SMT DEF Cubed
  <2>2. CASE b = 7
    BY <1>4, <2>1, <2>2, SMT DEF Cubed
  <2>3. CASE b >= 8
    <3>1. b * b >= 64
      BY <2>3, SMT
    <3>2. b * b * b >= 64 * b
      <4>1. b * b \in Int
        BY SMT
      <4> QED
        BY <3>1, <4>1, ProductGrows
    <3>3. 100 * g >= 64 * b - 99
      BY <1>1, <3>2, SMT
    <3>4. f * b = 2 * b /\ g * a = 6 * g
      BY <1>1, <1>4, <2>1, SMT
    <3> QED
      BY <1>1, <2>3, <3>3, <3>4, SMT
  <2> QED
    BY <1>4, <2>2, <2>3, SMT
<1>5. CASE a >= 7
  <2> DEFINE ab == a * b
             aa == a * a
             bb == b * b
  <2>1. aa \in Nat /\ bb \in Nat /\ ab \in Nat
    BY SMT
  <2>2. bb >= aa + 2 * a + 1
    <3>1. (a + 1) * (a + 1) <= bb
      <4>1. (a + 1) * (a + 1) <= b * (a + 1) /\ b * (a + 1) = (a + 1) * b
        BY ProductGrows, SMT
      <4>2. (a + 1) * b <= b * b
        BY ProductGrows, SMT
      <4>3. (a + 1) * (a + 1) \in Int /\ b * (a + 1) \in Int
        BY SMT
      <4> QED
        BY <4>1, <4>2, <4>3, <2>1, SMT
    <3>2. (a + 1) * (a + 1) = aa + 2 * a + 1
      BY SMT
    <3> QED
      BY <3>1, <3>2
  <2>3. ab * (bb - aa) >= ab * 15
    <3>1. 15 <= bb - aa
      BY <1>5, <2>1, <2>2, SMT
    <3>2. 15 * ab <= (bb - aa) * ab
      BY <2>1, <3>1, ProductGrows
    <3> QED
      BY <2>1, <3>2, SMT
  <2>4. ab >= 8 * a
    <3>1. 8 * a <= b * a
      BY <1>5, ProductGrows, SMT
    <3> QED
      BY <3>1, SMT
  <2>5. ab * (bb - aa) = a * (b * b * b) - b * (a * a * a)
    <3>1. ab * bb = a * (b * b * b)
      BY SMT
    <3>2. ab * aa = b * (a * a * a)
      BY SMT
    <3>3. ab * (bb - aa) = ab * bb - ab * aa
      BY <2>1, SMT
    <3> QED
      BY <3>1, <3>2, <3>3
  <2>6. a * (b * b * b) <= a * (100 * g + 99) /\ b * (100 * f) <= b * (a * a * a)
    <3>1. (b * b * b) * a <= (100 * g + 99) * a
      BY <1>1, ProductGrows, SMT
    <3>2. (100 * f) * b <= (a * a * a) * b
      BY <1>1, ProductGrows, SMT
    <3>3. /\ (b * b * b) * a = a * (b * b * b) /\ (100 * g + 99) * a = a * (100 * g + 99)
          /\ (100 * f) * b = b * (100 * f) /\ (a * a * a) * b = b * (a * a * a)
      BY <1>1, SMT
    <3> QED
      BY <3>1, <3>2, <3>3
  <2>7. a * (100 * g + 99) = 100 * (g * a) + 99 * a /\ b * (100 * f) = 100 * (f * b)
    BY <1>1, SMT
  <2>8. g * a \in Int /\ f * b \in Int /\ a * (b * b * b) \in Int /\ b * (a * a * a) \in Int /\ ab * (bb - aa) \in Int
    BY <1>1, <2>1, SMT
  <2> HIDE DEF ab, aa, bb, f, g
  <2>9. 100 * (g * a) + 99 * a - 100 * (f * b) >= 120 * a
    <3> DEFINE p == ab * (bb - aa)  x == a * (b * b * b)  y == b * (a * a * a)  ga == g * a  fb == f * b
    <3>1. p \in Int /\ x \in Int /\ y \in Int /\ ga \in Int /\ fb \in Int
      BY <2>8
    <3>2. p >= ab * 15 /\ p = x - y /\ x <= 100 * ga + 99 * a /\ 100 * fb <= y
      BY <2>3, <2>5, <2>6, <2>7
    <3> HIDE DEF p, x, y, ga, fb
    <3>3. 100 * ga + 99 * a - 100 * fb >= 120 * a
      BY <2>1, <2>4, <3>1, <3>2, SMT
    <3> QED
      BY <3>3 DEF ga, fb
  <2>10. g * a >= f * b
    BY <2>8, <2>9, SMT
  <2> QED
    BY <2>10 DEF f, g
<1> QED
  BY <1>2, <1>3, <1>4, <1>5, SMT

(* Where the curve is above zero it does not fall.                          *)
LEMMA BentGrows ==
  ASSUME NEW c \in Curves, NEW a \in Nat, NEW b \in Nat, a <= b, Bent(c, a) > 0
  PROVE  Bent(c, a) <= Bent(c, b)
<1> DEFINE f == Cubed(a)
           g == Cubed(b)
           e == c.expo
           k == e - 100
<1>1. f \in Nat /\ g \in Nat /\ f <= g /\ e \in Nat
  BY CubedIs, CubedGrows, CurveIs
<1>2. Bent(c, a) = f * e + a * 100 * (100 - e) /\ Bent(c, b) = g * e + b * 100 * (100 - e)
  BY DEF Bent
<1> HIDE DEF f, g, e
<1>3. f * e <= g * e /\ f * e \in Int /\ g * e \in Int
  BY <1>1, ProductGrows
<1>4. CASE e <= 100
  <2>1. a * (100 * (100 - e)) <= b * (100 * (100 - e))
    <3>1. 100 * (100 - e) \in Nat
      BY <1>1, <1>4, SMT
    <3> QED
      BY <3>1, ProductGrows
  <2>2. /\ a * 100 * (100 - e) = a * (100 * (100 - e)) /\ b * 100 * (100 - e) = b * (100 * (100 - e))
        /\ a * 100 * (100 - e) \in Int /\ b * 100 * (100 - e) \in Int
    BY <1>1, SMT
  <2> QED
    BY <1>2, <1>3, <2>1, <2>2, SMT
<1>5. CASE e > 100 /\ a < b
  <2>1. k \in Nat \ {0}
    BY <1>1, <1>5, SMT
  <2>2. a * 100 * (100 - e) = -(100 * (a * k)) /\ b * 100 * (100 - e) = -(100 * (b * k))
        /\ a * k \in Nat /\ b * k \in Nat
    BY <1>1, <2>1, SMT
  <2> HIDE DEF k
  <2>3. f * e > 100 * (a * k)
    BY <1>2, <1>3, <2>2, BentIs, SMT
  <2>4. a > 0
    <3> SUFFICES ASSUME a = 0 PROVE FALSE
      BY SMT
    <3>1. f = 0
      BY SMT DEF f, Cubed
    <3> QED
      BY <1>1, <2>2, <2>3, <3>1, SMT
  <2>5. f > 0
    <3> SUFFICES ASSUME f = 0 PROVE FALSE
      BY <1>1, SMT
    <3> QED
      BY <1>1, <2>2, <2>3, SMT
  <2>6. f * b <= g * a
    BY <1>5, <2>5, CubedSteep DEF f, g
  <2> DEFINE n == b - a
  <2>7. n \in Nat /\ b = a + n
    BY <1>5, SMT
  <2>8. f * n <= (g - f) * a
    <3>1. f * b = f * a + f * n /\ (g - f) * a = g * a - f * a
          /\ f * a \in Int /\ f * n \in Int /\ g * a \in Int
      BY <1>1, <2>7, SMT
    <3> QED
      BY <2>6, <3>1, SMT
  <2>9. (f * e) * n >= (100 * (a * k)) * n
    BY <1>3, <2>2, <2>3, <2>7, ProductGrows, SMT
  <2>10. (f * n) * e <= ((g - f) * a) * e
    <3>1. f * n \in Int /\ (g - f) * a \in Int
      BY <1>1, <2>7, SMT
    <3> QED
      BY <1>1, <2>8, <3>1, ProductGrows
  <2>11. (100 * (n * k)) * a <= ((g - f) * e) * a
    <3>1. /\ (f * e) * n = (f * n) * e /\ ((g - f) * a) * e = ((g - f) * e) * a
          /\ (100 * (a * k)) * n = (100 * (n * k)) * a
      BY <1>1, <2>1, <2>7, SMT
    <3>2. (f * n) * e \in Int /\ ((g - f) * e) * a \in Int /\ (100 * (n * k)) * a \in Int
      BY <1>1, <2>1, <2>7, SMT
    <3> QED
      BY <2>9, <2>10, <3>1, <3>2, SMT
  <2>12. 100 * (n * k) <= (g - f) * e
    <3> DEFINE u == 100 * (n * k)
               v == (g - f) * e
    <3>1. u \in Int /\ v \in Int
      BY <1>1, <2>1, <2>7, SMT
    <3>2. u * a <= v * a
      BY <2>11
    <3> HIDE DEF u, v
    <3>3. u <= v
      <4> SUFFICES ASSUME v + 1 <= u PROVE FALSE
        BY <3>1, SMT
      <4>1. (v + 1) * a <= u * a
        BY <3>1, ProductGrows
      <4>2. (v + 1) * a = v * a + a /\ v * a \in Int /\ u * a \in Int
        BY <3>1, SMT
      <4> QED
        BY <2>4, <3>2, <4>1, <4>2, SMT
    <3> QED
      BY <3>3 DEF u, v
  <2>13. n * k = b * k - a * k /\ (g - f) * e = g * e - f * e
    BY <1>1, <2>1, <2>7, SMT
  <2> HIDE DEF n
  <2> QED
    BY <1>2, <1>3, <2>2, <2>12, <2>13, SMT
<1>6. CASE a = b
  BY <1>6, BentIs, SMT
<1> QED
  BY <1>1, <1>4, <1>5, <1>6, SMT

(* The further the stick, the less room.                                    *)
LEMMA RoomShrinks ==
  ASSUME NEW c \in Curves, NEW a \in Nat, NEW b \in Nat, a <= b
  PROVE  /\ Room(c, a) \in Nat \ {0} /\ Room(c, a) <= 1000000
         /\ Room(c, b) \in Nat \ {0} /\ Room(c, b) <= Room(c, a)
<1> DEFINE over == MaxDps(c) - RcRate(c)
           m == Bent(c, a) \div 1000
           n == Bent(c, b) \div 1000
<1>1. over \in Nat /\ MaxDps(c) \in Nat \ {0}
  BY CurveIs
<1>2. Bent(c, a) \in Int /\ Bent(c, b) \in Int
  BY BentIs
<1>3. m \in Int /\ n \in Int
  BY <1>2, SMT
<1>4. Rise(c, a) = (m * over) \div MaxDps(c) /\ Rise(c, b) = (n * over) \div MaxDps(c)
  BY DEF Rise
<1> HIDE DEF over
<1>5. m * over \in Int /\ n * over \in Int
  <2> HIDE DEF m, n
  <2> QED
    BY <1>1, <1>3, SMT
<1>6. Rise(c, a) \in Int /\ Rise(c, b) \in Int
  BY <1>1, <1>4, <1>5, DivLess
<1>7. CASE Bent(c, a) > 0
  <2>1. m <= n
    BY <1>2, <1>7, BentGrows, DivLess
  <2>2. m * over <= n * over
    <3> HIDE DEF m, n
    <3> QED
      BY <1>1, <1>3, <2>1, ProductGrows
  <2>3. Rise(c, a) <= Rise(c, b)
    <3> HIDE DEF m, n
    <3> QED
      BY <1>1, <1>4, <1>5, <2>2, DivLess
  <2> QED
    BY <1>6, <2>3, SMT DEF Room, Within
<1>8. CASE Bent(c, a) <= 0
  <2>1. m <= 0
    BY <1>2, <1>8, SMT
  <2>2. m * over <= 0
    <3> HIDE DEF m
    <3>1. m * over <= 0 * over /\ 0 * over = 0
      BY <1>1, <1>3, <2>1, ProductGrows, SMT
    <3> QED
      BY <3>1
  <2>3. Rise(c, a) <= 0
    <3>1. 0 \div MaxDps(c) = 0
      BY <1>1, SMT
    <3> HIDE DEF m
    <3> QED
      BY <1>1, <1>4, <1>5, <2>2, <3>1, DivLess
  <2> QED
    BY <1>6, <2>3, SMT DEF Room, Within
<1> QED
  BY <1>2, <1>7, <1>8, SMT

(* The rate that a stick asks for, before it is limited.                    *)
Asks(c, s) == (s * RcRate(c) * 10000) \div Room(c, IF s < 0 THEN -s ELSE s)

LEMMA AsksIs ==
  ASSUME NEW c \in Curves, NEW s \in Int
  PROVE  /\ Asks(c, s) \in Int
         /\ s * RcRate(c) * 10000 \in Int
         /\ s < 0 => Asks(c, s) < 0
         /\ s >= 0 => Asks(c, s) >= 0
         /\ s * c.rate >= 50 => Asks(c, s) > 0
<1> DEFINE k == RcRate(c)
           a == IF s < 0 THEN -s ELSE s
           room == Room(c, a)
           x == s * k * 10000
<1>1. k \in Nat \ {0} /\ c.rate \in Nat \ {0}
  BY CurveIs
<1>2. a \in Nat
  BY SMT
<1> HIDE DEF a
<1>3. room \in Nat \ {0} /\ room <= 1000000
  BY <1>2, RoomShrinks, SMT
<1> HIDE DEF k
<1>4. s * k \in Int /\ (s < 0 => s * k < 0) /\ (s >= 0 => s * k >= 0)
  BY <1>1, SMT
<1>5. x \in Int /\ (s < 0 => x < 0) /\ (s >= 0 => x >= 0)
  BY <1>4, SMT
<1>6. Asks(c, s) = x \div room
  BY DEF Asks, k, a
<1>7. s * c.rate >= 50 => x >= 1000000
  <2>1. s * k = 2 * (s * c.rate) /\ s * c.rate \in Int
    BY <1>1, SMT DEF k, RcRate
  <2> QED
    BY <1>4, <2>1, SMT
<1> HIDE DEF room, x
<1>8. x \div room \in Int /\ (x < 0 => x \div room < 0) /\ (x >= 0 => x \div room >= 0)
  <2>1. 1 \in Nat \ {0} /\ 1 <= room
    BY <1>3, SMT
  <2>2. x < 0 => x \div room < 0
    BY <1>3, <1>5, <2>1, DivByMore
  <2>3. x >= 0 => x \div room >= 0
    BY <1>3, <1>5, <2>1, DivByMore
  <2> QED
    BY <1>3, <1>5, <2>2, <2>3, DivLess
<1>9. x >= 1000000 => x \div room > 0
  <2> SUFFICES ASSUME x >= 1000000 PROVE x \div room > 0
    OBVIOUS
  <2>1. room <= x
    BY <1>3, <1>5, SMT
  <2>2. room \div room <= x \div room
    BY <1>3, <1>5, <2>1, DivLess
  <2>3. room \div room = 1
    BY <1>3, SMT
  <2> QED
    BY <1>8, <2>2, <2>3, SMT
<1> QED
  BY <1>5, <1>6, <1>7, <1>8, <1>9, SMT DEF x, k

LEMMA AsksGrows ==
  ASSUME NEW c \in Curves, NEW s \in Int, NEW t \in Int, s <= t
  PROVE  Asks(c, s) <= Asks(c, t)
<1> DEFINE k == RcRate(c) * 10000
           x == s * k
           y == t * k
<1>1. k \in Nat
  <2>1. RcRate(c) \in Nat
    BY CurveIs
  <2> QED
    BY <2>1, SMT
<1>2. x \in Int /\ y \in Int /\ x <= y
  <2> HIDE DEF k
  <2> QED
    BY <1>1, ProductGrows
<1>3. s * RcRate(c) * 10000 = x /\ t * RcRate(c) * 10000 = y
  <2>1. RcRate(c) \in Nat
    BY CurveIs
  <2> QED
    BY <2>1, SMT
<1>4. Asks(c, s) \in Int /\ Asks(c, t) \in Int
  BY AsksIs
<1>5. CASE s >= 0
  <2> DEFINE r == Room(c, s)  q == Room(c, t)
  <2>1. r \in Nat \ {0} /\ q \in Nat \ {0} /\ q <= r
    BY <1>5, RoomShrinks, SMT
  <2>2. Asks(c, s) = x \div r /\ Asks(c, t) = y \div q
    BY <1>3, <1>5, SMT DEF Asks
  <2>3. x >= 0
    <3> HIDE DEF k
    <3> QED
      BY <1>1, <1>5, SMT
  <2> HIDE DEF r, q, x, y
  <2>4. x \div r <= x \div q
    BY <1>2, <2>1, <2>3, DivByMore
  <2>5. x \div q <= y \div q /\ x \div q \in Int /\ y \div q \in Int
    BY <1>2, <2>1, DivLess
  <2> QED
    BY <1>4, <2>2, <2>4, <2>5, SMT
<1>6. CASE t < 0
  <2> DEFINE r == Room(c, -s)  q == Room(c, -t)
  <2>1. r \in Nat \ {0} /\ q \in Nat \ {0} /\ r <= q
    <3>1. -s \in Nat /\ -t \in Nat /\ -t <= -s
      BY <1>6, SMT
    <3> QED
      BY <3>1, RoomShrinks
  <2>2. Asks(c, s) = x \div r /\ Asks(c, t) = y \div q
    BY <1>3, <1>6, SMT DEF Asks
  <2>3. y < 0
    <3>1. k \in Nat \ {0}
      <4>1. RcRate(c) \in Nat \ {0}
        BY CurveIs
      <4> QED
        BY <4>1, SMT
    <3> HIDE DEF k
    <3> QED
      BY <1>6, <3>1, SMT
  <2> HIDE DEF r, q, x, y
  <2>4. y \div r <= y \div q
    BY <1>2, <2>1, <2>3, DivByMore
  <2>5. x \div r <= y \div r /\ x \div r \in Int /\ y \div r \in Int
    BY <1>2, <2>1, DivLess
  <2> QED
    BY <1>4, <2>2, <2>4, <2>5, SMT
<1>7. CASE s < 0 /\ t >= 0
  <2>1. Asks(c, s) < 0 /\ Asks(c, t) >= 0
    BY <1>7, AsksIs
  <2> QED
    BY <1>4, <2>1, SMT
<1> QED
  BY <1>5, <1>6, <1>7, SMT

(* A further stick never asks for a slower turn, nor for one the other way:  *)
(* for every rate, super rate, expo and limit, also with an expo above 100,  *)
(* for which the curve under the divisor falls before it rises. In whole     *)
(* degrees a stick to the right with less than 50 of stick times rate asks   *)
(* for none (Rates::getSetpoint, quick).                                    *)
THEOREM TurnsFollowSticks ==
  ASSUME NEW c \in Curves, NEW s \in Sticks, NEW t \in Sticks, s <= t
  PROVE  /\ getSetpoint(c, s) <= getSetpoint(c, t)
         /\ getSetpoint(c, 0) = 0
         /\ s < 0 /\ c.limit > 0 => getSetpoint(c, s) < 0
         /\ s * c.rate >= 50 /\ c.limit > 0 => getSetpoint(c, s) > 0
<1>1. s \in Int /\ t \in Int /\ -100 <= s /\ s <= 100 /\ c.rate \in Nat \ {0} /\ c.limit \in Nat
  BY SettingsAre, CurveIs
<1> DEFINE u == Within(s, -99, 99)
           v == Within(t, -99, 99)
<1>2. /\ u \in Int /\ v \in Int /\ u <= v /\ (s < 0 => u < 0)
      /\ Within(0, -99, 99) = 0
  BY <1>1, SMT DEF Within
<1>3. s * c.rate >= 50 => u * c.rate >= 50
  <2>1. CASE s = 100
    <3>1. u = 99
      BY <2>1, SMT DEF Within
    <3> QED
      BY <1>1, <3>1, SMT
  <2>2. CASE s < -99
    <3>1. s = -100
      BY <1>1, <2>2, SMT
    <3> QED
      BY <1>1, <3>1, SMT
  <2>3. CASE s >= -99 /\ s # 100
    <3>1. u = s
      BY <1>1, <2>3, SMT DEF Within
    <3> QED
      BY <3>1
  <2> QED
    BY <1>1, <2>1, <2>2, <2>3, SMT
<1> HIDE DEF u, v
<1>4. /\ Asks(c, u) \in Int /\ Asks(c, v) \in Int /\ Asks(c, u) <= Asks(c, v)
      /\ (u < 0 => Asks(c, u) < 0) /\ (u * c.rate >= 50 => Asks(c, u) > 0)
  BY <1>2, AsksIs, AsksGrows
<1>5. Asks(c, 0) = 0
  <2>1. Room(c, 0) \in Nat \ {0}
    BY RoomShrinks, SMT
  <2>2. 0 * RcRate(c) * 10000 = 0
    <3>1. RcRate(c) \in Nat
      BY CurveIs
    <3> QED
      BY <3>1, SMT
  <2>3. Asks(c, 0) = 0 \div Room(c, 0)
    BY <2>2, SMT DEF Asks
  <2> QED
    BY <2>1, <2>3, SMT
<1>6. /\ getSetpoint(c, s) = Within(Within(Asks(c, u), -1998, 1998), -c.limit, c.limit)
      /\ getSetpoint(c, t) = Within(Within(Asks(c, v), -1998, 1998), -c.limit, c.limit)
      /\ getSetpoint(c, 0) = Within(Within(Asks(c, 0), -1998, 1998), -c.limit, c.limit)
  BY <1>2, QuickIsOfRoom DEF getSetpoint, Asks, u, v
<1> DEFINE x == Asks(c, u)
           y == Asks(c, v)
<1>7. x \in Int /\ y \in Int /\ x <= y /\ (s < 0 => x < 0) /\ (s * c.rate >= 50 => x > 0)
  BY <1>2, <1>3, <1>4
<1> HIDE DEF x, y
<1>8. /\ Within(Within(x, -1998, 1998), -c.limit, c.limit) <= Within(Within(y, -1998, 1998), -c.limit, c.limit)
      /\ Within(Within(0, -1998, 1998), -c.limit, c.limit) = 0
      /\ s < 0 /\ c.limit > 0 => Within(Within(x, -1998, 1998), -c.limit, c.limit) < 0
      /\ s * c.rate >= 50 /\ c.limit > 0 => Within(Within(x, -1998, 1998), -c.limit, c.limit) > 0
  BY <1>1, <1>7, SMT DEF Within
<1> QED
  BY <1>5, <1>6, <1>8 DEF x, y

-----------------------------------------------------------------------------
(* A value kept within limits is within them, and no more is changed.       *)
LEMMA WithinIs ==
  ASSUME NEW v \in Int, NEW low \in Int, NEW high \in Int
  PROVE  /\ Within(v, low, high) \in Int
         /\ low <= high => low <= Within(v, low, high) /\ Within(v, low, high) <= high
BY DEF Within

(* A set of integers with an upper bound has a maximum, one with a lower    *)
(* bound a minimum.                                                         *)
LEMMA LeastOfNats ==
  ASSUME NEW S \in SUBSET Nat, S # {}
  PROVE  \E a \in S : \A b \in S : a <= b
<1> DEFINE less == {ss \in Nat \X Nat : ss[1] < ss[2]}
<1>1. IsWellFoundedOn(less, Nat)
  BY NatLessThanWellFounded, Zenon DEF OpToRel
<1> HIDE DEF less
<1>2. PICK a \in S : \A b \in S : ~(<<b, a>> \in less)
  BY <1>1, WFMin, Zenon
<1>3. ASSUME NEW b \in S PROVE a <= b
  <2>1. a \in Nat /\ b \in Nat /\ ~(<<b, a>> \in less)
    BY <1>2
  <2>2. b < a => <<b, a>> \in less
    BY <2>1 DEF less
  <2> QED
    BY <2>1, <2>2
<1> QED
  BY <1>3

LEMMA ExtremesExist ==
  ASSUME NEW S \in SUBSET Int, S # {}, \E k \in Nat : \A x \in S : -k <= x /\ x <= k
  PROVE  /\ Max(S) \in S /\ \A x \in S : x <= Max(S)
         /\ Min(S) \in S /\ \A x \in S : Min(S) <= x
<1>0. PICK k \in Nat : \A x \in S : -k <= x /\ x <= k
  OBVIOUS
<1> DEFINE below == {k - x : x \in S}
           above == {k + x : x \in S}
<1>1. below \in SUBSET Nat /\ below # {} /\ above \in SUBSET Nat /\ above # {}
  <2>1. \A x \in S : k - x \in Nat /\ k + x \in Nat
    BY <1>0
  <2> QED
    BY <2>1
<1>2. \A x \in S : k - x \in below /\ k + x \in above
  OBVIOUS
<1>3. /\ \A a \in below : \E x \in S : a = k - x
      /\ \A a \in above : \E x \in S : a = k + x
  OBVIOUS
<1> HIDE DEF below, above
<1>4. PICK a \in below : \A b \in below : a <= b
  BY <1>1, LeastOfNats
<1>5. PICK c \in above : \A b \in above : c <= b
  BY <1>1, LeastOfNats
<1>6. PICK u \in S : a = k - u
  BY <1>3
<1>7. PICK l \in S : c = k + l
  BY <1>3
<1>8. \A x \in S : u >= x /\ l =< x
  BY <1>2, <1>4, <1>5, <1>6, <1>7
<1>9. Max(S) \in S /\ \A x \in S : Max(S) >= x
  BY <1>8, Zenon DEF Max
<1>10. Min(S) \in S /\ \A x \in S : Min(S) =< x
  BY <1>8, Zenon DEF Min
<1> QED
  BY <1>9, <1>10

-----------------------------------------------------------------------------
(* The mixers: at most eight channels, shares of an axis up to a third more *)
(* than all of it, and all of the throttle or none.                         *)
Share(x) == x \in Int /\ -133 <= x /\ x <= 133

LEMMA TableIs ==
  ASSUME NEW mixer \in DOMAIN Table
  PROVE  \E n \in 1..8 :
            /\ DOMAIN Table[mixer].ROLL = 1..n
            /\ \A m \in 1..n : /\ Share(Table[mixer].ROLL[m]) /\ Share(Table[mixer].PITCH[m])
                               /\ Share(Table[mixer].YAW[m]) /\ Table[mixer].THRUST[m] \in {0, 100}
<1>1. CASE mixer = "QUADX"
  <2> WITNESS 4 \in 1..8
  <2> QED BY <1>1, SMT DEF Table, Share
<1>2. CASE mixer = "QUADX_1234"
  <2> WITNESS 4 \in 1..8
  <2> QED BY <1>2, SMT DEF Table, Share
<1>3. CASE mixer = "TRI"
  <2> WITNESS 4 \in 1..8
  <2> QED BY <1>3, SMT DEF Table, Share
<1>4. CASE mixer = "OCTOX8"
  <2> WITNESS 8 \in 1..8
  <2> QED BY <1>4, SMT DEF Table, Share
<1>5. CASE mixer = "HEX6X"
  <2> WITNESS 6 \in 1..8
  <2> QED BY <1>5, SMT DEF Table, Share
<1>6. CASE mixer = "GIMBAL"
  <2> WITNESS 2 \in 1..8
  <2> QED BY <1>6, SMT DEF Table, Share
<1>7. mixer \in {"QUADX", "QUADX_1234", "TRI", "OCTOX8", "HEX6X", "GIMBAL"}
  BY SMT DEF Table
<1> QED
  BY <1>1, <1>2, <1>3, <1>4, <1>5, <1>6, <1>7, SMT

(* The pulses of a motor, in order of the outputs; only an output of 98 %   *)
(* or more makes the longest.                                               *)
LEMMA PulsesInOrder ==
  ASSUME NEW lo \in {1056, 1070}, NEW x \in Int, NEW y \in Int, -10000 <= x, x <= 10000, -10000 <= y, y <= 10000
  PROVE  /\ Linear(x, -10000, 10000, lo, 2000) \in Int
         /\ lo <= Linear(x, -10000, 10000, lo, 2000) /\ Linear(x, -10000, 10000, lo, 2000) <= 2000
         /\ x <= y => Linear(x, -10000, 10000, lo, 2000) <= Linear(y, -10000, 10000, lo, 2000)
         /\ Linear(x, -10000, 10000, lo, 2000) = 2000 => x >= 9800
<1>1. CASE lo = 1056
  BY <1>1, SMT DEF Linear
<1>2. CASE lo = 1070
  BY <1>2, SMT DEF Linear
<1> QED
  BY <1>1, <1>2, SMT

LEMMA PulsesGrow ==
  \A lo \in {1056, 1070}, x, y \in Int :
    -10000 <= x /\ x <= y /\ y <= 10000 => Linear(x, -10000, 10000, lo, 2000) <= Linear(y, -10000, 10000, lo, 2000)
<1> SUFFICES ASSUME NEW lo \in {1056, 1070}, NEW x \in Int, NEW y \in Int, -10000 <= x, x <= y, y <= 10000
             PROVE  Linear(x, -10000, 10000, lo, 2000) <= Linear(y, -10000, 10000, lo, 2000)
  BY SMT
<1>1. x <= 10000 /\ -10000 <= y
  BY SMT
<1> QED
  BY <1>1, PulsesInOrder, SMT

(* The rate curve gives integers.                                           *)
LEMMA SetpointIs ==
  ASSUME NEW c \in Curves, NEW angle \in Int
  PROVE  getSetpoint(c, angle) \in Int /\ getSetpoint(c, 0) = 0
<1> DEFINE u == Within(angle, -99, 99)
<1>1. u \in Int
  BY WithinIs
<1> HIDE DEF u
<1>2. Asks(c, u) \in Int /\ c.limit \in Nat
  BY <1>1, AsksIs, CurveIs
<1>3. getSetpoint(c, angle) = Within(Within(Asks(c, u), -1998, 1998), -c.limit, c.limit)
  BY <1>1, QuickIsOfRoom DEF getSetpoint, Asks, u
<1> DEFINE x == Asks(c, u)
<1> HIDE DEF x
<1>4. x \in Int => Within(Within(x, -1998, 1998), -c.limit, c.limit) \in Int
  BY <1>2, SMT DEF Within
<1>5. getSetpoint(c, 0) = 0
  <2>1. 0 \in Sticks
    BY SMT DEF Sticks
  <2> QED
    BY <2>1, TurnsFollowSticks, SMT
<1> QED
  BY <1>2, <1>3, <1>4, <1>5 DEF x

(* The fields of a demand.                                                  *)
LEMMA DemandIs ==
  ASSUME NEW d \in Demands
  PROVE  /\ d.mixer \in DOMAIN Table /\ d.curve \in Curves
         /\ d.ROLL \in Int /\ d.PITCH \in Int /\ d.YAW \in Int
         /\ d.THRUST \in Int /\ -100 <= d.THRUST /\ d.THRUST <= 100
         /\ d.throttleLimit[1] \in {"NONE", "SCALE", "CLIP"}
         /\ d.throttleLimit[2] \in Percents /\ d.motorLimit \in Percents
<1> DEFINE fields == DOMAIN Table
<1> HIDE DEF fields
<1>1. d \in [mixer : fields, ROLL : Sticks, PITCH : Sticks, YAW : Sticks, THRUST : Sticks,
             curve : Curves, armed : BOOLEAN, air : BOOLEAN, motorStop : BOOLEAN,
             throttleLimit : {"NONE", "SCALE", "CLIP"} \X Percents, motorLimit : Percents, digital : BOOLEAN]
  BY MixAssumption, Zenon DEF fields
<1>2. /\ d.mixer \in fields /\ d.curve \in Curves
      /\ d.ROLL \in Sticks /\ d.PITCH \in Sticks /\ d.YAW \in Sticks /\ d.THRUST \in Sticks
      /\ d.throttleLimit \in {"NONE", "SCALE", "CLIP"} \X Percents /\ d.motorLimit \in Percents
  BY <1>1, SMT
<1>3. d.throttleLimit[1] \in {"NONE", "SCALE", "CLIP"} /\ d.throttleLimit[2] \in Percents
  BY <1>2, SMT
<1>4. d.mixer \in DOMAIN Table
  BY <1>2, Zenon DEF fields
<1> QED
  BY <1>2, <1>3, <1>4, SettingsAre, SMT

(* What an axis is told.                                                    *)
LEMMA OutputIs ==
  ASSUME NEW d \in Demands, NEW axis \in Axes
  PROVE  /\ Output(d, axis) \in Int /\ -66 <= Output(d, axis) /\ Output(d, axis) <= 66
         /\ d[axis] = 0 => Output(d, axis) = 0
<1>1. d.curve \in Curves /\ d[axis] \in Int /\ d.YAW \in Int
  BY DemandIs, SMT DEF Axes
<1> DEFINE angle == IF axis = "YAW" THEN -d.YAW ELSE d[axis]
           turn == getSetpoint(d.curve, angle)
<1>2. angle \in Int /\ (d[axis] = 0 => angle = 0)
  BY <1>1, SMT
<1> HIDE DEF angle
<1>3. turn \in Int /\ (d[axis] = 0 => turn = 0)
  BY <1>1, <1>2, SetpointIs, SMT
<1>4. Output(d, axis) = Within(turn \div 10, -66, 66)
  BY SMT DEF Output, angle
<1> HIDE DEF turn
<1> QED
  BY <1>3, <1>4, SMT DEF Within

(* What the axes ask of a channel.                                          *)
LEMMA StabilizedIs ==
  ASSUME NEW d \in Demands, NEW m \in Channels(d)
  PROVE  /\ DOMAIN Stabilized(d) = Channels(d)
         /\ Stabilized(d)[m] \in Int /\ -26334 <= Stabilized(d)[m] /\ Stabilized(d)[m] <= 26334
         /\ (\A axis \in Axes : d[axis] = 0) => Stabilized(d)[m] = 0
<1>1. d.mixer \in DOMAIN Table
  BY DemandIs, SMT
<1>2. PICK n \in 1..8 :
        /\ DOMAIN Table[d.mixer].ROLL = 1..n
        /\ \A i \in 1..n : /\ Share(Table[d.mixer].ROLL[i]) /\ Share(Table[d.mixer].PITCH[i])
                           /\ Share(Table[d.mixer].YAW[i])
  BY <1>1, TableIs, Zenon
<1> DEFINE r == Output(d, "ROLL")  p == Output(d, "PITCH")  y == -Output(d, "YAW")
           a == Table[d.mixer].ROLL[m]  b == Table[d.mixer].PITCH[m]  e == Table[d.mixer].YAW[m]
<1>3. Share(a) /\ Share(b) /\ Share(e)
  BY <1>2, SMT DEF Channels
<1>4. /\ /\ r \in Int /\ -66 <= r /\ r <= 66
      /\ p \in Int /\ -66 <= p /\ p <= 66
      /\ y \in Int /\ -66 <= y /\ y <= 66
      /\ (\A axis \in Axes : d[axis] = 0) => r = 0 /\ p = 0 /\ y = 0
  BY OutputIs, SMT DEF Axes
<1>5. Stabilized(d)[m] = r * a + p * b + y * e /\ DOMAIN Stabilized(d) = Channels(d)
  BY SMT DEF Stabilized
<1> HIDE DEF r, p, y, a, b, e
<1>6. ASSUME NEW x \in Int, -66 <= x, x <= 66, NEW z, Share(z)
      PROVE  x * z \in Int /\ -8778 <= x * z /\ x * z <= 8778
  <2>1. z \in Int /\ -133 <= z /\ z <= 133
    BY <1>6, SMT DEF Share
  <2>2. (66 - x) * (133 + z) >= 0 /\ (66 + x) * (133 - z) >= 0
        /\ (66 - x) * (133 - z) >= 0 /\ (66 + x) * (133 + z) >= 0
    BY <1>6, <2>1, SMT
  <2>3. x * z \in Int
    BY <2>1, SMT
  <2> QED
    BY <1>6, <2>1, <2>2, <2>3, SMT
<1>7. /\ r * a \in Int /\ -8778 <= r * a /\ r * a <= 8778
      /\ p * b \in Int /\ -8778 <= p * b /\ p * b <= 8778
      /\ y * e \in Int /\ -8778 <= y * e /\ y * e <= 8778
  BY <1>3, <1>4, <1>6, SMT
<1>8. (\A axis \in Axes : d[axis] = 0) => r * a + p * b + y * e = 0
  BY <1>3, <1>4, SMT DEF Share
<1> QED
  BY <1>5, <1>7, <1>8, SMT

(* What does not fit is a number, and nothing if nobody turns.              *)
LEMMA RangeIs ==
  ASSUME NEW d \in Demands
  PROVE  /\ Range2(Stabilized(d)) \in Nat
         /\ (\A axis \in Axes : d[axis] = 0) => Range2(Stabilized(d)) = 0
<1> DEFINE o == Stabilized(d)
           all == {0} \union {o[m] : m \in DOMAIN o}
<1>1. DOMAIN o = Channels(d) /\ \A m \in DOMAIN o : o[m] \in Int /\ -26334 <= o[m] /\ o[m] <= 26334
  <2>1. \A m \in Channels(d) : DOMAIN o = Channels(d) /\ o[m] \in Int /\ -26334 <= o[m] /\ o[m] <= 26334
    BY StabilizedIs, SMT
  <2>2. DOMAIN o = Channels(d)
    BY SMT DEF Stabilized
  <2> QED
    BY <2>1, <2>2, SMT
<1>2. (\A axis \in Axes : d[axis] = 0) => \A m \in DOMAIN o : o[m] = 0
  BY <1>1, StabilizedIs, SMT
<1> HIDE DEF o
<1>3. all \in SUBSET Int /\ 0 \in all /\ \A x \in all : -26334 <= x /\ x <= 26334
  BY <1>1, SMT
<1>4. (\A axis \in Axes : d[axis] = 0) => \A x \in all : x = 0
  BY <1>2, SMT
<1>5. Highest(o) = Max(all) /\ Lowest(o) = Min(all)
  BY SMT DEF Highest, Lowest
<1> HIDE DEF all
<1>6. /\ Max(all) \in all /\ 0 <= Max(all)
      /\ Min(all) \in all /\ Min(all) <= 0
  <2>1. 26334 \in Nat /\ \A x \in all : -26334 <= x /\ x <= 26334
    BY <1>3, SMT
  <2>2. \E k \in Nat : \A x \in all : -k <= x /\ x <= k
    BY <2>1, SMT
  <2>3. all \in SUBSET Int /\ 0 \in all /\ all # {}
    BY <1>3, SMT
  <2> QED
    <3>1. /\ Max(all) \in all /\ \A x \in all : x <= Max(all)
          /\ Min(all) \in all /\ \A x \in all : Min(all) <= x
      BY <2>2, <2>3, ExtremesExist, Zenon
    <3>2. 0 <= Max(all) /\ Min(all) <= 0
      BY <2>3, <3>1, Zenon
    <3> QED
      BY <3>1, <3>2, SMT
<1>7. Max(all) \in Int /\ Min(all) \in Int
  <2>1. all \in SUBSET Int
    BY <1>3, SMT
  <2> QED
    BY <1>6, <2>1, Zenon
<1>8. Range2(o) = (Max(all) - Min(all)) \div 2
  BY <1>5, SMT DEF Range2
<1>9. (\A axis \in Axes : d[axis] = 0) => Max(all) = 0 /\ Min(all) = 0
  BY <1>4, <1>6, SMT
<1>10. Range2(o) \in Nat /\ ((\A axis \in Axes : d[axis] = 0) => Range2(o) = 0)
  BY <1>6, <1>7, <1>8, <1>9, SMT
<1> QED
  BY <1>10, SMT DEF o

(* The throttle that is left of its limit.                                  *)
LEMMA ThrustIs ==
  ASSUME NEW t \in Int, -10000 <= t, t <= 10000, NEW type \in {"NONE", "SCALE", "CLIP"},
         NEW percent \in Int, 1 <= percent, percent <= 100
  PROVE  /\ limitThrust(t, type, percent) \in Int
         /\ type # "NONE" => -10000 <= limitThrust(t, type, percent) /\ limitThrust(t, type, percent) <= (200 * percent) - 10000
<1>1. CASE type = "SCALE"
  <2> DEFINE x == (t + 10000) * percent
  <2>1. x \in Int /\ 0 <= x /\ x <= 20000 * percent
    BY SMT
  <2>2. limitThrust(t, type, percent) = (x \div 100) - 10000
    BY <1>1, SMT DEF limitThrust
  <2> HIDE DEF x
  <2>3. x \div 100 \in Int /\ 0 <= x \div 100 /\ x \div 100 <= 200 * percent
    BY <2>1, SMT
  <2> QED
    BY <2>2, <2>3, SMT
<1>2. CASE type = "CLIP"
  BY <1>2, WithinIs, SMT DEF limitThrust
<1>3. CASE type = "NONE"
  BY <1>3, SMT DEF limitThrust
<1> QED
  BY <1>1, <1>2, <1>3, SMT

(* What is mixed is a number; if nobody turns, at most the throttle.        *)
LEMMA MixedIs ==
  ASSUME NEW d \in Demands, NEW m \in Channels(d)
  PROVE  /\ Mixed(d)[m] \in Int
         /\ d.throttleLimit[1] # "NONE" /\ (\A axis \in Axes : d[axis] = 0) /\ Table[d.mixer].THRUST[m] # 0 =>
              Mixed(d)[m] <= (200 * d.throttleLimit[2]) - 10000
<1> DEFINE outputs == Stabilized(d)
           range == Range2(outputs)
           percent == d.throttleLimit[2]
           given == limitThrust(100 * d.THRUST, d.throttleLimit[1], percent)
           fits == range <= 10000
           fitted == IF d.air /\ ~fits THEN [i \in Channels(d) |-> (outputs[i] * 10000) \div range] ELSE outputs
           room == IF ~d.air THEN given ELSE IF fits THEN Within(given, range - 10000, 10000 - range) ELSE 0
           share == Table[d.mixer].THRUST[m]
           quiet == \A axis \in Axes : d[axis] = 0
<1>1. /\ d.mixer \in DOMAIN Table /\ d.THRUST \in Int /\ -100 <= d.THRUST /\ d.THRUST <= 100
      /\ percent \in Int /\ 1 <= percent /\ percent <= 100
      /\ d.throttleLimit[1] \in {"NONE", "SCALE", "CLIP"}
  BY DemandIs, SettingsAre, SMT
<1>2. outputs[m] \in Int /\ (quiet => outputs[m] = 0)
  BY StabilizedIs, SMT
<1>3. range \in Nat /\ (quiet => range = 0)
  BY RangeIs, SMT
<1>4. share \in {0, 100}
  <2>1. PICK n \in 1..8 : DOMAIN Table[d.mixer].ROLL = 1..n /\ \A i \in 1..n : Table[d.mixer].THRUST[i] \in {0, 100}
    BY <1>1, TableIs, Zenon
  <2> QED
    BY <2>1, SMT DEF Channels
<1> DEFINE type == d.throttleLimit[1]  lever == 100 * d.THRUST
<1>5. given \in Int /\ (d.throttleLimit[1] # "NONE" => -10000 <= given /\ given <= (200 * percent) - 10000)
  <2>1. lever \in Int /\ -10000 <= lever /\ lever <= 10000 /\ type \in {"NONE", "SCALE", "CLIP"}
    BY <1>1, SMT
  <2>2. given = limitThrust(lever, type, percent)
    BY SMT
  <2> HIDE DEF lever, type, percent, given
  <2>3. /\ limitThrust(lever, type, percent) \in Int
        /\ type # "NONE" => -10000 <= limitThrust(lever, type, percent)
                             /\ limitThrust(lever, type, percent) <= (200 * percent) - 10000
    BY <1>1, <2>1, ThrustIs, SMT
  <2> QED
    BY <2>2, <2>3, SMT DEF type
<1>6. Mixed(d)[m] = fitted[m] + ((room * share) \div 100)
  BY SMT DEF Mixed
<1> HIDE DEF outputs, range, given, percent, share, quiet
<1>7. fitted[m] \in Int /\ (quiet => fitted[m] = 0)
  <2>1. CASE d.air /\ ~fits
    <3>1. range \in Nat \ {0} /\ ~quiet
      BY <1>3, <2>1, SMT
    <3>2. fitted[m] = (outputs[m] * 10000) \div range
      BY <2>1, SMT
    <3>3. outputs[m] * 10000 \in Int
      BY <1>2, SMT
    <3> QED
      BY <3>1, <3>2, <3>3, SMT
  <2>2. CASE ~(d.air /\ ~fits)
    BY <1>2, <2>2, SMT
  <2> QED
    BY <2>1, <2>2, SMT
<1>8. /\ room \in Int
      /\ quiet /\ d.throttleLimit[1] # "NONE" => room <= (200 * percent) - 10000
  <2>1. Within(given, range - 10000, 10000 - range) \in Int
    BY <1>3, <1>5, WithinIs, SMT
  <2>2. quiet /\ d.throttleLimit[1] # "NONE" => fits /\ Within(given, range - 10000, 10000 - range) = given
    BY <1>1, <1>3, <1>5, SMT DEF Within, percent
  <2> QED
    BY <1>5, <2>1, <2>2, SMT
<1> HIDE DEF fitted, room
<1>9. room * share \in Int /\ (share # 0 => (room * share) \div 100 = room)
  BY <1>4, <1>8, SMT
<1>10. (room * share) \div 100 \in Int
  BY <1>9, SMT
<1>11. fitted[m] + ((room * share) \div 100) \in Int
  BY <1>7, <1>10, SMT
<1>12. quiet /\ d.throttleLimit[1] # "NONE" /\ share # 0 =>
         fitted[m] + ((room * share) \div 100) <= (200 * percent) - 10000
  BY <1>7, <1>8, <1>9, <1>1, SMT DEF percent
<1> QED
  BY <1>6, <1>11, <1>12, SMT DEF quiet, percent, share

(* The pulse of a motor that may turn.                                      *)
LEMMA PulseIs ==
  ASSUME NEW d \in Demands, NEW m \in Motors(d), NEW output \in Int
  PROVE  LET pulse == Pulse(d, m, limitOutput(d, m, output))
         IN /\ pulse \in Int /\ minThrottle(d) <= pulse /\ pulse <= maxThrottle /\ pulse <= Cap(d, d.motorLimit)
            /\ pulse = maxThrottle => output >= 9800
            /\ \A percent \in Percents : output <= (200 * percent) - 10000 => pulse <= Cap(d, percent)
<1> DEFINE high == (200 * d.motorLimit) - 10000
           x == Within(output, -10000, high)
           z == Within(x, -10000, 10000)
           lo == minThrottle(d)
<1>1. m \notin Servos(d)
  BY SMT DEF Motors
<1>2. d.motorLimit \in Percents /\ high \in Int /\ -9800 <= high /\ high <= 10000
  BY DemandIs, SettingsAre, SMT
<1>3. lo \in {1056, 1070} /\ maxThrottle = 2000
  BY SMT DEF minThrottle, maxThrottle
<1>4. limitOutput(d, m, output) = x
  BY <1>1, SMT DEF limitOutput
<1>5. Pulse(d, m, x) = Linear(z, -10000, 10000, lo, 2000)
  BY <1>1, <1>3, SMT DEF Pulse
<1> HIDE DEF high, lo
<1>6. /\ z \in Int /\ -10000 <= z /\ z <= 10000 /\ z <= high /\ (z >= 9800 => output >= 9800)
      /\ \A percent \in Percents : output <= (200 * percent) - 10000 => z <= (200 * percent) - 10000
  <2>1. x \in Int /\ -10000 <= x /\ x <= high /\ (x >= 9800 => output >= 9800)
    BY <1>2, SMT DEF Within
  <2>2. \A percent \in Percents : output <= (200 * percent) - 10000 => x <= (200 * percent) - 10000
    BY <1>2, SettingsAre, SMT DEF Within
  <2> HIDE DEF x
  <2>3. z = x
    BY <1>2, <2>1, SMT DEF Within
  <2> HIDE DEF z
  <2> QED
    BY <1>2, <2>1, <2>2, <2>3, SMT
<1> HIDE DEF x, z
<1>7. \A percent \in Percents : Cap(d, percent) = Linear((200 * percent) - 10000, -10000, 10000, lo, 2000)
  BY <1>3, SMT DEF Cap, lo
<1>8. \A percent \in Percents : (200 * percent) - 10000 \in Int /\ -10000 <= (200 * percent) - 10000 /\ (200 * percent) - 10000 <= 10000
  BY SettingsAre, SMT
<1>9. \A percent \in Percents : z <= (200 * percent) - 10000 => Linear(z, -10000, 10000, lo, 2000) <= Cap(d, percent)
  <2> SUFFICES ASSUME NEW percent \in Percents, z <= (200 * percent) - 10000
               PROVE  Linear(z, -10000, 10000, lo, 2000) <= Cap(d, percent)
    BY SMT
  <2> DEFINE cap == (200 * percent) - 10000
  <2>1. cap \in Int /\ -10000 <= cap /\ cap <= 10000 /\ z <= cap
    BY <1>8, SMT
  <2>2. Cap(d, percent) = Linear(cap, -10000, 10000, lo, 2000)
    BY <1>7, SMT
  <2> HIDE DEF cap
  <2> QED
    <3>1. z \in Int /\ -10000 <= z /\ z <= 10000
      BY <1>6, SMT
    <3> HIDE DEF cap
    <3>2. Linear(z, -10000, 10000, lo, 2000) <= Linear(cap, -10000, 10000, lo, 2000)
      BY <1>3, <2>1, <3>1, PulsesGrow, SMT
    <3> QED
      BY <2>2, <3>2
<1>10. Linear(z, -10000, 10000, lo, 2000) <= Cap(d, d.motorLimit)
  BY <1>2, <1>6, <1>9, SMT DEF high
<1>11. /\ Linear(z, -10000, 10000, lo, 2000) \in Int
       /\ lo <= Linear(z, -10000, 10000, lo, 2000) /\ Linear(z, -10000, 10000, lo, 2000) <= 2000
       /\ Linear(z, -10000, 10000, lo, 2000) = 2000 => z >= 9800
  BY <1>3, <1>6, PulsesInOrder, SMT
<1> QED
  BY <1>3, <1>4, <1>5, <1>6, <1>9, <1>10, <1>11, SMT DEF lo

(* No demand changes; what was mixed of it keeps the limits.                *)
MixInv == demand \in Demands /\ MotorsHoldLimits

LEMMA MixInvStep == MixInv /\ [MixerUpdate]_mixVars => MixInv'
<1> SUFFICES ASSUME MixInv, [MixerUpdate]_mixVars PROVE MixInv'
  BY SMT
<1>1. CASE MixerUpdate
  <2> DEFINE outputs == Mixed(demand)
  <2>1. demand' = demand /\ demand \in Demands
    BY <1>1, SMT DEF MixerUpdate, MixInv
  <2>2. /\ us' = writeOutput(demand, outputs)
        /\ mixSaturated' = \E m \in Motors(demand) : outputs[m] >= 9800
    BY <1>1, SMT DEF MixerUpdate
  <2>3. Motors(demand) \subseteq Channels(demand)
    BY SMT DEF Motors
  <2>4. ASSUME Stop(demand), NEW m \in Motors(demand) PROVE us'[m] = 1000
    BY <2>2, <2>3, <2>4, SMT DEF writeOutput, Motors
  <2>5. ASSUME ~Stop(demand), NEW m \in Motors(demand)
        PROVE  /\ us'[m] >= minThrottle(demand) /\ us'[m] <= Cap(demand, demand.motorLimit)
               /\ demand.throttleLimit[1] # "NONE" /\ (\A axis \in Axes : demand[axis] = 0)
                    /\ Table[demand.mixer].THRUST[m] # 0 => us'[m] <= Cap(demand, demand.throttleLimit[2])
               /\ us'[m] = maxThrottle => mixSaturated'
    <3>1. m \in Channels(demand)
      BY <2>3, SMT
    <3>2. us'[m] = Pulse(demand, m, limitOutput(demand, m, outputs[m]))
      BY <2>2, <2>5, <3>1, SMT DEF writeOutput
    <3>3. /\ outputs[m] \in Int
          /\ demand.throttleLimit[1] # "NONE" /\ (\A axis \in Axes : demand[axis] = 0)
               /\ Table[demand.mixer].THRUST[m] # 0 =>
               outputs[m] <= (200 * demand.throttleLimit[2]) - 10000
      BY <2>1, <3>1, MixedIs, SMT
    <3>4. demand.throttleLimit[2] \in Percents
      BY <2>1, MixAssumption, SMT
    <3> HIDE DEF outputs
    <3>5. minThrottle(demand) \in Int /\ maxThrottle \in Int
      BY SMT DEF minThrottle, maxThrottle
    <3>6. /\ us'[m] \in Int /\ minThrottle(demand) <= us'[m] /\ us'[m] <= Cap(demand, demand.motorLimit)
          /\ us'[m] = maxThrottle => outputs[m] >= 9800
          /\ \A percent \in Percents : outputs[m] <= (200 * percent) - 10000 => us'[m] <= Cap(demand, percent)
      BY <2>1, <3>2, <3>3, PulseIs, SMT
    <3>7. us'[m] = maxThrottle => mixSaturated'
      <4> SUFFICES ASSUME us'[m] = maxThrottle PROVE mixSaturated'
        BY SMT
      <4>1. outputs[m] >= 9800
        BY <3>6, SMT
      <4>2. (\E i \in Motors(demand) : outputs[i] >= 9800) = TRUE
        BY <4>1, SMT
      <4> QED
        BY <2>2, <4>2, SMT
    <3>8. us'[m] >= minThrottle(demand)
      BY <3>5, <3>6, SMT
    <3> QED
      BY <3>3, <3>4, <3>6, <3>7, <3>8, SMT
  <2>6. MotorsHoldLimits'
    <3>1. Stop(demand) => \A m \in Motors(demand) : us'[m] = 1000
      BY <2>4, SMT
    <3>2. ~Stop(demand) =>
            /\ \A m \in Motors(demand) : us'[m] >= minThrottle(demand) /\ us'[m] <= Cap(demand, demand.motorLimit)
            /\ demand.throttleLimit[1] # "NONE" /\ (\A axis \in Axes : demand[axis] = 0) =>
                 \A m \in Motors(demand) :
                   Table[demand.mixer].THRUST[m] # 0 => us'[m] <= Cap(demand, demand.throttleLimit[2])
            /\ (\E m \in Motors(demand) : us'[m] = maxThrottle) => mixSaturated'
      BY <2>5, SMT
    <3> QED
      BY <2>1, <3>1, <3>2, SMT DEF MotorsHoldLimits
  <2> QED
    BY <2>1, <2>6, SMT DEF MixInv
<1>2. CASE UNCHANGED mixVars
  BY <1>2, SMT DEF MixInv, MotorsHoldLimits, mixVars
<1> QED
  BY <1>1, <1>2, SMT

(* Whatever is asked of a craft, and in every mixer: disarmed no motor       *)
(* turns; armed every motor turns within its limit, the throttle alone stays *)
(* within its own, and a motor at full power is reported                     *)
(* (Mixer::limitThrust, limitOutput, writeOutput).                           *)
THEOREM MotorsHoldLimitsAlways == MixSpec => []MotorsHoldLimits
<1>1. MixInit => MixInv
  BY SMT DEF MixInit, MixInv, MotorsHoldLimits
<1>2. MixInv => MotorsHoldLimits
  BY SMT DEF MixInv
<1> QED
  BY <1>1, <1>2, MixInvStep, PTL DEF MixSpec
=============================================================================
