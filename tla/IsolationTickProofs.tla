------------------------- MODULE IsolationTickProofs -------------------------
(***************************************************************************)
(* Eq. (2) for every gain, rail, quantum and hysteresis: its integral is   *)
(* bounded, and the dispatched cap does not flap.                          *)
(***************************************************************************)
EXTENDS IsolationTick, TLAPS

\* The state of the law, apart from what it calls.
LawInv ==
  /\ integral \in Int /\ IntegralBounded
  /\ asked \in Nat
  /\ lastCap = NoCap => asked = CapBase
  /\ lastCap # NoCap =>
       lastCap \in Nat /\ 2 * Distance(lastCap * Quantum, asked) <= Quantum

-----------------------------------------------------------------------------
\* Rounding to a step is off by half a step at most (formula.go:499).
LEMMA RoundingError ==
  ASSUME NEW a \in Nat, NEW b \in Nat \ {0}
  PROVE  RoundDiv(a, b) \in Nat /\ 2 * Distance(RoundDiv(a, b) * b, a) <= b
<1> DEFINE r == (2 * a + b) \div (2 * b)
           m == (2 * a + b) % (2 * b)
<1>1. r \in Nat /\ m \in 0 .. 2 * b - 1 /\ 2 * a + b = (2 * b) * r + m
  OBVIOUS
<1>2. (2 * b) * r = 2 * (r * b)
  BY <1>1
<1>3. r * b \in Nat
  BY <1>1
<1> HIDE DEF r, m
<1>4. 2 * Distance(r * b, a) <= b
  BY <1>1, <1>2, <1>3 DEF Distance
<1> QED
  BY <1>1, <1>4 DEF RoundDiv, r

\* Conditional integration keeps the integral between the rails
\* (formula.go:457-459).
LEMMA IntegrationBounded ==
  ASSUME NEW e \in Int, NEW i \in Int, 0 <= KI * i, KI * i <= CapBase - CapMin
  PROVE  /\ Integrated(e, i) \in Int
         /\ 0 <= KI * Integrated(e, i) /\ KI * Integrated(e, i) <= CapBase - CapMin
<1>1. KI * (i + e) = KI * i + KI * e /\ KI * i \in Int /\ KI * e \in Int /\ KP * e \in Int
  BY LawAssumption
<1>2. e >= 0 => KI * e >= 0 /\ KP * e >= 0
  BY LawAssumption
<1>3. e < 0 => KI * e <= 0 /\ KP * e <= 0
  BY LawAssumption
<1>4. CASE Integrated(e, i) = i
  BY <1>4
<1>5. CASE Integrated(e, i) = i + e /\ Unclamped(e, i + e) > CapMin /\ Unclamped(e, i + e) < CapBase
  BY <1>1, <1>2, <1>3, <1>5, LawAssumption DEF Unclamped
<1> QED
  BY <1>4, <1>5 DEF Integrated

\* The cap is a natural number between the rails.
LEMMA ClampedIsCap ==
  ASSUME NEW e \in Int, NEW i \in Int
  PROVE  Clamped(Unclamped(e, i)) \in Nat
<1>1. KP * e \in Int /\ KI * i \in Int
  BY LawAssumption
<1> QED
  BY <1>1, LawAssumption DEF Clamped, Unclamped
-----------------------------------------------------------------------------
\* A tick of the law keeps its invariant.
LEMMA LawTickInv ==
  ASSUME NEW t \in Targets, NEW e \in Errors, LawInv, LawTick(t, e)
  PROVE  LawInv'
<1> DEFINE cap == Clamped(Unclamped(e, integral'))
<1>1. e \in Int
  BY LawAssumption
<1>2. integral' \in Int /\ IntegralBounded'
  BY <1>1, IntegrationBounded DEF LawInv, LawTick, IntegralBounded
<1>3. cap \in Nat
  BY <1>1, <1>2, ClampedIsCap
<1> HIDE DEF cap
<1>4. CASE armed' /\ Moves(cap)
  <2>1. lastCap' = RoundDiv(cap, Quantum) /\ asked' = cap
    BY <1>4 DEF LawTick, cap
  <2>2. lastCap' \in Nat /\ 2 * Distance(lastCap' * Quantum, asked') <= Quantum
    BY <1>3, <2>1, RoundingError, LawAssumption
  <2>3. lastCap' # NoCap
    BY <2>2, LawAssumption
  <2> QED
    BY <1>2, <1>3, <2>1, <2>2, <2>3 DEF LawInv
<1>5. CASE ~(armed' /\ Moves(cap))
  <2>1. UNCHANGED <<lastCap, asked>>
    BY <1>5 DEF LawTick, cap
  <2> QED
    BY <1>2, <2>1 DEF LawInv
<1> QED
  BY <1>4, <1>5

\* So does a replaced pod or a new process, which start from the base cap.
LEMMA ForgottenInv ==
  ASSUME LawInv, integral' \in {integral, 0}, lastCap' = NoCap, asked' = CapBase
  PROVE  LawInv'
<1>1. KI * 0 = 0
  BY LawAssumption
<1>2. integral' \in Int /\ IntegralBounded'
  <2>1. CASE integral' = integral
    BY <2>1 DEF LawInv, IntegralBounded
  <2>2. CASE integral' = 0
    BY <1>1, <2>2, LawAssumption DEF IntegralBounded
  <2> QED
    BY <2>1, <2>2
<1> QED
  BY <1>2, LawAssumption DEF LawInv

LEMMA LawNextInv ==
  ASSUME LawInv, [IsoNext]_isoVars
  PROVE  LawInv'
<1>1. CASE \E t \in Targets, e \in Errors : LawTick(t, e)
  BY <1>1, LawTickInv
<1>2. CASE NewVictim
  BY <1>2, ForgottenInv DEF NewVictim
<1>3. CASE Crash /\ FreshLaw
  BY <1>3, ForgottenInv DEF FreshLaw
<1>4. CASE UNCHANGED lawVars
  BY <1>4 DEF lawVars, LawInv, IntegralBounded
<1> QED
  BY <1>1, <1>2, <1>3, <1>4
  DEF IsoNext, isoVars, RulesCall, CallStep, Reconcile

LEMMA LawInitInv == IsoInit => LawInv
<1> SUFFICES ASSUME IsoInit
             PROVE  LawInv
  OBVIOUS
<1>1. KI * 0 = 0
  BY LawAssumption
<1> QED
  BY <1>1, LawAssumption DEF IsoInit, LawInv, IntegralBounded

\* The integral never winds up: what it contributes to the cap stays within
\* the distance of the rails, for every sequence of errors (formula.go:457-459).
THEOREM IntegralIsBounded == IsoSpec => []IntegralBounded
<1>1. LawInv => IntegralBounded
  BY DEF LawInv
<1> QED
  BY <1>1, LawInitInv, LawNextInv, PTL DEF IsoSpec

\* A new cap is dispatched only where the cap the law asks for has moved by
\* what the hysteresis leaves over the rounding (formula.go:490-491).
LEMMA MovedByHysteresis ==
  ASSUME LawInv, [IsoNext]_isoVars, lastCap' \notin {lastCap, NoCap}
  PROVE  2 * Distance(asked', asked) >= 2 * Leave - Quantum
<1>1. PICK t \in Targets, e \in Errors : LawTick(t, e)
  BY DEF IsoNext, isoVars, lawVars, RulesCall, CallStep, Reconcile, NewVictim, FreshLaw
<1> DEFINE cap == Clamped(Unclamped(e, integral'))
<1>2. armed' /\ Moves(cap) /\ asked' = cap
  BY <1>1 DEF LawTick
<1>3. cap \in Nat /\ asked \in Nat
  BY <1>1, LawTickInv, <1>2 DEF LawInv
<1>4. Current \in Nat /\ 2 * Distance(Current, asked) <= Quantum
  <2>1. CASE lastCap = NoCap
    BY <2>1, LawAssumption DEF LawInv, Current, Distance
  <2>2. CASE lastCap # NoCap
    <3>1. lastCap * Quantum \in Nat
      BY <2>2, LawAssumption DEF LawInv
    <3> QED
      BY <2>2, <3>1 DEF LawInv, Current
  <2> QED
    BY <2>1, <2>2
<1>5. Distance(cap, Current) >= Leave
  BY <1>2 DEF Moves
<1> HIDE DEF cap
<1> QED
  BY <1>2, <1>3, <1>4, <1>5, LawAssumption DEF Distance

THEOREM CapsDoNotFlap == IsoSpec => NoFlap
<1>1. LawInv /\ [IsoNext]_isoVars =>
        (lastCap' \notin {lastCap, NoCap}
           => 2 * Distance(asked', asked) >= 2 * Leave - Quantum)
  BY MovedByHysteresis
<1> QED
  BY <1>1, LawInitInv, LawNextInv, PTL DEF IsoSpec, NoFlap
=============================================================================
