--------------------------- MODULE HorizontalTick ---------------------------
(***************************************************************************)
(* The callers of the horizontal actuator, one tick loop per node.  In     *)
(* formula mode every node runs Eq. (1): a counter n of the replicas it    *)
(* believes to be above the baseline, persistence runs, and syncN, which   *)
(* repairs n from the Deployment.  Otherwise the rules of the policy call  *)
(* Apply and Restore.  Actuation is armed and the nodes' pods have scores. *)
(***************************************************************************)
EXTENDS HorizontalScale

CONSTANTS
  NMax, Baseline, MinReplicas,     \* N_MAX, BASELINE_REPLICAS, min_replicas
  UpWindows, DownWindows,
  MaxReplicas,                     \* the law asks for no more: bound of the model
  RuleCalls,                       \* the calls of the policy's rules
  Modes                            \* subset of {"formula", "rules"}

VARIABLES
  mode,    \* whether FORMULA_MODE is set
  fstate   \* node -> its formulaState: n, upRun, downRun

law == <<mode, fstate>>
tickVars == <<dep, ctl, faults, lately, overlap, mode, fstate>>

FreshState == [n |-> 0, upRun |-> 0, downRun |-> 0]

\* The calls Eq. (1) makes.
Step(u) == [kind |-> "delta", by |-> u, min |-> MinReplicas, max |-> MaxReplicas]

ASSUME LawAssumption ==
  /\ NMax \in Nat /\ Baseline \in Nat /\ MinReplicas \in Nat /\ MaxReplicas \in Nat
  /\ UpWindows \in Nat \ {0} /\ DownWindows \in Nat \ {0}
  /\ "formula" \in Modes => Step(1) \in Calls /\ Step(-1) \in Calls
  /\ RuleCalls \subseteq Calls /\ Modes \subseteq {"formula", "rules"}

\* What syncN makes of the Deployment's replicas.
Real ==
  LET above == dep.replicas - Baseline IN
  IF above < 0 THEN 0 ELSE IF above > NMax THEN NMax ELSE above

\* A run longer than its threshold acts like one at the threshold.
Count(run, threshold, holds) ==
  IF ~holds THEN 0 ELSE IF run < threshold THEN run + 1 ELSE run

\* The law's step for a counter and its runs.
Decision(f) ==
  CASE f.upRun >= UpWindows /\ f.n < NMax                             -> 1
    [] ~(f.upRun >= UpWindows /\ f.n < NMax)
       /\ f.downRun >= DownWindows /\ f.n > 0                         -> -1
    [] OTHER                                                          -> 0

\* Bug: n is set only where it had run ahead of the Deployment.
SyncNDown(f) == IF Real < f.n THEN [f EXCEPT !.n = Real] ELSE f

SyncN(f) == [f EXCEPT !.n = Real]

\* One formulaTick at a level of the scores; syncN is rate-limited, so a tick
\* may come without.
Tick(node, level, sync) ==
  LET f == IF sync THEN SyncN(fstate[node]) ELSE fstate[node]
      g == [f EXCEPT !.upRun = Count(@, UpWindows, level = "up"),
                     !.downRun = Count(@, DownWindows, level = "down")]
      u == Decision(g)
  IN
  /\ mode = "formula"
  /\ At(node, "idle")
  /\ fstate' = [fstate EXCEPT ![node] =
       CASE u = 1  -> [g EXCEPT !.n = @ + 1, !.upRun = 0]
         [] u = -1 -> [g EXCEPT !.n = @ - 1, !.downRun = 0]
         [] OTHER  -> g]
  /\ IF u = 0 THEN UNCHANGED deployment ELSE CallApply(node, Step(u))
  /\ UNCHANGED mode

RuleTick(node) ==
  /\ mode = "rules"
  /\ (\E call \in RuleCalls : CallApply(node, call)) \/ CallRestore(node)
  /\ UNCHANGED law

\* The controller dies and starts again: the call is lost, Reconcile does
\* nothing, and the law starts from nothing.
Crash(node) ==
  /\ Outcome(FALSE)
  /\ ctl' = [ctl EXCEPT ![node] = Idle]
  /\ fstate' = [fstate EXCEPT ![node] = FreshState]
  /\ UNCHANGED <<dep, lately, overlap, mode>>

Levels == {"up", "mid", "down"}

TickInit ==
  /\ Init
  /\ mode \in Modes
  /\ fstate = [node \in Nodes |-> FreshState]

TickNext ==
  \/ \E node \in Nodes :
       \/ \E level \in Levels, sync \in BOOLEAN : Tick(node, level, sync)
       \/ RuleTick(node)
       \/ CallStep(node) /\ UNCHANGED law
       \/ Crash(node)
  \/ Environment /\ UNCHANGED law

TickSpec == TickInit /\ [][TickNext]_tickVars

\* A request is answered, or fails; the ticker fires, and every 5 s syncN is
\* due: between two calls of a node at the latest once they end.
TickFairSpec ==
  /\ TickSpec
  /\ \A node \in Nodes :
       /\ WF_tickVars(CallStep(node) /\ UNCHANGED law)
       /\ WF_tickVars(\E level \in Levels : Tick(node, level, TRUE))

-----------------------------------------------------------------------------
\* Once no node scales any more, every node's counter comes to agree with the
\* Deployment, however calls failed and whoever else scaled it (formula.go:306-311).
CounterConverges ==
  mode = "formula" /\ <>[](\A node \in Nodes : ctl[node].pc \notin ApplyLabels)
    => \A node \in Nodes : <>[](fstate[node].n = Real)

\* The cooldown bounds how often the Deployment is scaled, whichever nodes scale
\* it (horizontal.go:43-46).
CooldownIsCrossNode ==
  [][\A n \in Nodes :
       PatchScale(n) /\ dep'.replicas # dep.replicas => dep.stamp # "recent"]_deployment
=============================================================================
