--------------------------- MODULE IsolationTick ---------------------------
(***************************************************************************)
(* What drives cpu.max: the rules, whose calls are CpuMax's own, or, in    *)
(* formula mode, Eq. (2) of cmd/mitigation-controller/formula.go, which    *)
(* turns the extrinsic tail pressure on the target's pod into one cap for  *)
(* all its aggressors.                                                     *)
(*                                                                         *)
(* Caps of the law are counted in fractions of a quota unit, Quantum of    *)
(* them to one step of the dispatched cap; the error is e_iso - theta_ref  *)
(* in a unit in which k_p and the k_i of one tick are integers.            *)
(***************************************************************************)
EXTENDS CpuMax

CONSTANTS
  Modes,             \* which of the two modes a behaviour may be in
  Errors, NoError,   \* the law's error, and none since the pod or the process is new
  KP, KI,            \* K_P, and K_I times a tick
  CapBase, CapMin,   \* CAP_BASE_CORES, CAP_MIN_CORES
  Quantum, Leave,    \* CAP_QUANTUM_CORES, and CAP_HYSTERESIS_FRACTION of it
  NoCap

ASSUME LawAssumption ==
  /\ Modes \subseteq {"rules", "law"}
  /\ Errors \subseteq Int /\ NoError \notin Int /\ NoCap \notin Int
  /\ KP \in Nat /\ KI \in Nat /\ CapBase \in Nat /\ CapMin \in Nat /\ CapMin <= CapBase
  /\ Quantum \in Nat \ {0} /\ Leave \in Nat

VARIABLES
  mode,      \* FORMULA_MODE
  err,       \* the last tick's error
  integral,  \* formulaState.integralIso
  lastCap,   \* the pod's entry of formulaState.lastCap, in steps, or NoCap
  armed,     \* checkArmed's latch
  beat,      \* flips on every tick: no tick is a stuttering step
  asked      \* history: the cap that was rounded to the last dispatched one

lawVars == <<mode, err, integral, lastCap, armed, beat, asked>>
isoVars == <<vars, lawVars>>

Distance(a, b) == IF a < b THEN b - a ELSE a - b
Unclamped(e, i) == CapBase - KP * e - KI * i
Clamped(c) == IF c < CapMin THEN CapMin ELSE IF c > CapBase THEN CapBase ELSE c
Current == IF lastCap = NoCap THEN CapBase ELSE lastCap * Quantum

\* Bug: the integral is frozen at the lower rail only.
IntegratedOver(e, i) ==
  IF KI > 0 /\ Unclamped(e, i + e) > CapMin THEN i + e ELSE i

\* Bug: an error below the reference is not integrated.
IntegratedUp(e, i) ==
  IF KI > 0 /\ e > 0 /\ Unclamped(e, i + e) > CapMin /\ Unclamped(e, i + e) < CapBase
  THEN i + e ELSE i

\* Conditional integration: frozen where the cap would be at a rail.
Integrated(e, i) ==
  IF KI > 0 /\ Unclamped(e, i + e) > CapMin /\ Unclamped(e, i + e) < CapBase
  THEN i + e ELSE i

\* Bug: no hysteresis, only another step.
MovesAtOnce(cap) == RoundDiv(cap, Quantum) * Quantum # Current

\* Hysteresis around the cap in force, and another step.
Moves(cap) ==
  Distance(cap, Current) >= Leave /\ RoundDiv(cap, Quantum) * Quantum # Current

\* A disarmed tick neither integrates nor latches nor dispatches; the cap is
\* latched before the call is made.
LawTick(t, e) ==
  /\ mode = "law" /\ Up /\ At(t, "idle")
  /\ armed' \in {armed, TRUE}
  /\ err' = e /\ beat' = ~beat
  /\ integral' = IF armed' THEN Integrated(e, integral) ELSE integral
  /\ LET cap == Clamped(Unclamped(e, integral'))
         step == RoundDiv(cap, Quantum)
     IN IF armed' /\ Moves(cap)
        THEN /\ lastCap' = step /\ asked' = cap
             /\ CallApply(t, "isolate", [mode |-> "cap", amount |-> step])
        ELSE UNCHANGED <<vars, lastCap, asked>>
  /\ UNCHANGED mode

\* The pod is replaced; lastCap has no entry under the new name.
NewVictim ==
  /\ mode = "law" /\ err # NoError
  /\ err' = NoError /\ lastCap' = NoCap /\ asked' = CapBase
  /\ UNCHANGED <<vars, mode, integral, armed, beat>>

FreshLaw ==
  /\ err' = NoError /\ integral' = 0 /\ lastCap' = NoCap /\ asked' = CapBase
  /\ armed' = FALSE
  /\ UNCHANGED <<mode, beat>>

IsoInit ==
  /\ Init
  /\ mode \in Modes /\ err = NoError /\ integral = 0 /\ lastCap = NoCap
  /\ armed = FALSE /\ beat = FALSE /\ asked = CapBase

RulesCall(k) == mode = "rules" /\ Call(k) /\ UNCHANGED lawVars
CallStep(k) == Step(k) /\ UNCHANGED lawVars
Reconcile == Restart /\ UNCHANGED lawVars

IsoNext ==
  \/ \E t \in Targets : RulesCall(t)
  \/ \E t \in Targets, e \in Errors : LawTick(t, e)
  \/ \E k \in Procs : CallStep(k)
  \/ Reconcile \/ NewVictim
  \/ Crash /\ FreshLaw

IsoSpec == IsoInit /\ [][IsoNext]_isoVars

\* The ticker fires again and again, calls go on, and an exited process is
\* started again.
IsoFairness ==
  /\ WF_isoVars(\E t \in Targets, e \in Errors : LawTick(t, e))
  /\ WF_isoVars(\E k \in Procs : CallStep(k))
  /\ WF_isoVars(Reconcile)

IsoFairSpec == IsoSpec /\ IsoFairness
-----------------------------------------------------------------------------
\* The integral never pushes the cap beyond its rails on its own, nor down
\* when nothing was integrated: it does not wind up (formula.go:457-459).
IntegralBounded == 0 <= KI * integral /\ KI * integral <= CapBase - CapMin

\* Between two dispatched caps the cap the law asks for has moved, by what the
\* hysteresis leaves over the rounding: noise around the boundary between two
\* steps does not flap (formula.go:490-491).
NoFlap ==
  [][lastCap' \notin {lastCap, NoCap}
       => 2 * Distance(asked', asked) >= 2 * Leave - Quantum]_isoVars

CapShare == AtLeast(MinQuota, Share(lastCap, Cardinality(Scope["isolate"])))

\* The call for the cap in force, if none of its steps failed, has set the quota
\* of every aggressor to its share of that cap, the ones too that an earlier call
\* failed to write.  That it reports no error promises one aggressor only: Apply
\* returns an error just when it has written none (isolate.go:202-204), and
\* lastCap is latched all the same.
CapIsWritten ==
  mode = "law" /\ lastCap # NoCap =>
    \A t \in Targets :
      At(t, "idle") /\ ctl[t].kind = "apply" =>
        /\ ~ctl[t].failed => \A p \in Scope["isolate"] : quota[p] = CapShare
        /\ ~Reported(ctl[t]) => \E p \in Scope["isolate"] : quota[p] = CapShare

\* The law neither winds up nor sticks: an error that stays drives the cap to
\* its rail, as near as one tick's integral and the hysteresis tell apart; it
\* goes down for pressure over the reference and up again below it.
CapSettles ==
  \A e \in Errors \ {0} :
    <>[](armed /\ err = e) =>
      <>[](IF e > 0 THEN Current <= CapMin + Leave + KI * e
                    ELSE Current >= CapBase - Leave + KI * e)

\* Once the pressure stays below the reference no aggressor is held below its
\* share of the base cap, what formula.go:479 takes a pod without an entry in
\* lastCap to start from ("unthrottled is the implicit starting state").
CalmUnthrottles ==
  \A e \in Errors :
    e < 0 /\ <>[](armed /\ err = e) =>
      <>[](\A p \in Scope["isolate"] :
             \/ quota[p] = Orig[p]
             \/ quota[p] >= Share(RoundDiv(CapBase, Quantum), Cardinality(Scope["isolate"])))
=============================================================================
