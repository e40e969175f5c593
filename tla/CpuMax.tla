------------------------------- MODULE CpuMax -------------------------------
(***************************************************************************)
(* The isolate and harvest actuators, which write cpu.max of co-located    *)
(* pods on one node: isolate throttles aggressors, harvest lends idle      *)
(* cores to best-effort pods.  Both record a pod's quota in an annotation  *)
(* before they write the first time, Restore writes it back, and at the    *)
(* start of the process Reconcile completes an isolate and takes back a    *)
(* harvest.                                                                *)
(*                                                                         *)
(* Each target's tick goroutine dispatches calls of its own and neither    *)
(* actuator has a lock, so the processes are the targets, and Main, which  *)
(* reconciles before the first tick.  Each action is one effect on the API *)
(* server or on a cgroup; a pod's annotations are the ones the call listed *)
(* at its start.  Quotas are counted in units of a fixed period; at most   *)
(* MaxFaults of the faults in Faults happen in a behaviour.                *)
(*                                                                         *)
(* A definition under a comment that begins "Bug:" is no part of the       *)
(* specification: it is a plausible mistake in the definition after it,    *)
(* which a checked property must catch.                                    *)
(***************************************************************************)
EXTENDS Integers, FiniteSets

CONSTANTS
  Targets, Main,       \* one goroutine per target, and main
  Pods, Orig,          \* pods and the quota each has before any mitigation
  Scope,               \* actuator -> the pods its selector matches
  RestoreScope,        \* target -> the pods of its namespace
  Caps,                \* cap_total_cores that rules and Eq. (2) ask for
  Grants,              \* harvest_cores that rules ask for
  Guarantee, MinPerPod, MinQuota,  \* guarantee_cores, min_per_pod_cores, min_quota_us
  MaxQuota,            \* max_quota_us, or 0
  Period,              \* the quota of one full core
  Fractions,           \* whether rules use throttle_fraction
  Faults, MaxFaults,
  NoAnn, NoPod

Acts == {"isolate", "harvest"}
Unbounded == -1
Quotas == Int
Procs == Targets \cup {Main}

ASSUME ActorsAssumption ==
  Main \notin Targets /\ NoPod \notin Pods /\ NoAnn \notin Quotas
ASSUME PodsAssumption ==
  /\ Orig \in [Pods -> Nat \cup {Unbounded}]
  /\ Scope \in [Acts -> SUBSET Pods]
  /\ RestoreScope \in [Targets -> SUBSET Pods]
ASSUME QuotasAssumption ==
  /\ Caps \subseteq Nat /\ Grants \subseteq Nat /\ Fractions \in BOOLEAN
  /\ Guarantee \in Nat /\ MinPerPod \in Nat /\ MinQuota \in Nat \ {0} /\ MaxQuota \in Nat
  /\ Period \in Nat \ {0}
ASSUME FaultsAssumption == Faults \subseteq {"crash", "api", "cgroup"} /\ MaxFaults \in Nat

VARIABLES
  quota,   \* the pods' cpu.max
  ann,     \* actuator -> pod -> its recorded original, or NoAnn
  ctl,     \* process -> control point and locals of its call
  budget   \* faults still allowed

vars == <<quota, ann, ctl, budget>>

\* What a rule asks of an actuator.
Demands(act) ==
  IF act = "harvest" THEN [mode : {"grant"}, amount : Grants]
  ELSE [mode : {"cap"}, amount : Caps] \cup
       [mode : IF Fractions THEN {"fraction"} ELSE {}, amount : {0}]

NoDemand == [mode |-> "none", amount |-> 0]
Idle == [pc |-> "idle", kind |-> "none", act |-> "isolate", acts |-> {}, todo |-> {},
         seen |-> [p \in Pods |-> NoAnn], demand |-> NoDemand, share |-> 0,
         cur |-> NoPod, old |-> 0, new |-> 0, applied |-> FALSE, failed |-> FALSE]
Down == [Idle EXCEPT !.pc = "down"]

AtLeast(low, n) == IF n < low THEN low ELSE n

\* math.Round(a / b), halves up.
RoundDiv(a, b) == (2 * a + b) \div (2 * b)

CanFail(class) == class \in Faults /\ budget > 0
Attempt(class, ok) ==
  /\ ok \/ CanFail(class)
  /\ budget' = IF ok THEN budget ELSE budget - 1

Up == ctl[Main].pc = "idle"
At(k, label) == ctl[k].pc = label
Become(k, c) == ctl' = [ctl EXCEPT ![k] = c]

\* The loop over the listed pods, by call.
LoopLabel(c) ==
  CASE c.kind = "apply" -> "read"
    [] c.kind = "reconcile" /\ c.act = "isolate" -> "repair"
    [] OTHER -> "undo"

\* On to the next pod, the next actuator or the end of the call.  What was
\* applied and whether a step failed stay behind as its result.
Advance(c) ==
  IF c.todo # {} THEN [c EXCEPT !.pc = LoopLabel(c), !.cur = NoPod]
  ELSE IF c.acts # {} THEN [c EXCEPT !.pc = "list", !.cur = NoPod]
  ELSE [Idle EXCEPT !.kind = c.kind, !.applied = c.applied, !.failed = c.failed]

\* The error a call ends with: a Restore returns the first failure, an Apply
\* only if it has written nothing; what fails in a Reconcile is only logged.
Reported(c) == c.failed /\ (c.kind = "restore" \/ (c.kind = "apply" /\ ~c.applied))

-----------------------------------------------------------------------------
(***************************************************************************)
(* Apply: isolate's applyPod and harvest's grantPod.                       *)
(***************************************************************************)

\* The quota of each pod when n pods share the total.
Share(total, n) ==
  IF Guarantee > 0 THEN Guarantee + RoundDiv(total, n)
  ELSE AtLeast(MinPerPod, RoundDiv(total, n))

\* computeThrottled with the default fraction, one half.
Throttled(q) == AtLeast(MinQuota, (IF q = Unbounded THEN Period ELSE q) \div 2)

Clamp(q) == IF MaxQuota > 0 /\ q > MaxQuota THEN MaxQuota ELSE q

CallApply(k, act, demand) ==
  /\ Up /\ At(k, "idle")
  /\ \/ /\ Scope[act] # {}
        /\ Become(k, [Idle EXCEPT !.pc = "read", !.kind = "apply", !.act = act,
                        !.todo = Scope[act], !.seen = ann[act], !.demand = demand,
                        !.share = Share(demand.amount, Cardinality(Scope[act]))])
        /\ UNCHANGED budget
     \/ Attempt("api", FALSE) /\ Become(k, Idle)
  /\ UNCHANGED <<quota, ann>>

\* Bug: a pod that is throttled already is left alone in every mode.
WantedOnce(c, q, a) ==
  LET base == IF a = NoAnn THEN q ELSE a IN
  {new \in CASE c.demand.mode = "fraction" -> {Throttled(q)}
             [] c.demand.mode = "cap"      -> {AtLeast(MinQuota, c.share)}
             [] OTHER -> IF base = Unbounded THEN {} ELSE {Clamp(base + c.demand.amount)} :
     /\ new # q
     /\ a = NoAnn}

\* The quotas an Apply wants for a pod that has quota q and annotation a: one
\* or, where it leaves the pod alone, none.
Wanted(c, q, a) ==
  LET base == IF a = NoAnn THEN q ELSE a IN
  {new \in CASE c.demand.mode = "fraction" -> {Throttled(q)}
             [] c.demand.mode = "cap"      -> {AtLeast(MinQuota, c.share)}
             [] OTHER -> IF base = Unbounded THEN {} ELSE {Clamp(base + c.demand.amount)} :
     /\ new # q
     /\ c.demand.mode = "fraction" => a = NoAnn /\ (q = Unbounded \/ new < q)}

\* Bug: the original is recorded on every write.
ReadPodAnnotatesAgain(k) ==
  /\ At(k, "read")
  /\ \E p \in ctl[k].todo :
       LET c == [ctl[k] EXCEPT !.todo = @ \ {p}, !.old = quota[p], !.cur = p]
           wanted == Wanted(c, quota[p], c.seen[p])
       IN \/ wanted = {} /\ Become(k, Advance(c))
          \/ \E new \in wanted : Become(k, [c EXCEPT !.pc = "annotate", !.new = new])
  /\ UNCHANGED <<quota, ann, budget>>

\* Resolve the cgroup, read cpu.max and decide; a pod annotated when it was
\* listed is not annotated again.
ReadPod(k) ==
  /\ At(k, "read")
  /\ \E p \in ctl[k].todo :
       LET c == [ctl[k] EXCEPT !.todo = @ \ {p}]
           wanted == Wanted(c, quota[p], c.seen[p])
       IN \/ Attempt("cgroup", FALSE) /\ Become(k, Advance([c EXCEPT !.failed = TRUE]))
          \/ /\ wanted = {}
             /\ Become(k, Advance(c))
             /\ UNCHANGED budget
          \/ \E new \in wanted :
               /\ Become(k, [c EXCEPT !.pc = IF c.seen[p] = NoAnn THEN "annotate" ELSE "write",
                                      !.cur = p, !.old = quota[p], !.new = new])
               /\ UNCHANGED budget
  /\ UNCHANGED <<quota, ann>>

\* A failed patch may have been applied all the same (a lost reply).
Annotate(k) ==
  /\ At(k, "annotate")
  /\ LET c == ctl[k] IN
     \E ok, done \in BOOLEAN :
       /\ Attempt("api", ok)
       /\ ok => done
       /\ ann' = IF done THEN [ann EXCEPT ![c.act][c.cur] = c.old] ELSE ann
       /\ Become(k, IF ok THEN [c EXCEPT !.pc = "write"] ELSE Advance([c EXCEPT !.failed = TRUE]))
  /\ UNCHANGED quota

WriteQuota(p, q, ok) ==
  /\ Attempt("cgroup", ok)
  /\ quota' = IF ok THEN [quota EXCEPT ![p] = q] ELSE quota

Write(k) ==
  /\ At(k, "write")
  /\ \E ok \in BOOLEAN :
       LET c == [ctl[k] EXCEPT !.applied = @ \/ ok] IN
       /\ WriteQuota(c.cur, c.new, ok)
       /\ Become(k, Advance([c EXCEPT !.failed = @ \/ ~ok]))
  /\ UNCHANGED ann

-----------------------------------------------------------------------------
(***************************************************************************)
(* Restore, dispatched to every actuator in turn, and Reconcile.           *)
(***************************************************************************)
\* Bug: a restore reaches one actuator only.
CallRestoreIsolate(k) ==
  /\ Up /\ At(k, "idle")
  /\ Become(k, [Idle EXCEPT !.pc = "list", !.kind = "restore", !.acts = {"isolate"}])
  /\ UNCHANGED <<quota, ann, budget>>

CallRestore(k) ==
  /\ Up /\ At(k, "idle")
  /\ Become(k, [Idle EXCEPT !.pc = "list", !.kind = "restore", !.acts = Acts])
  /\ UNCHANGED <<quota, ann, budget>>

Restart ==
  /\ At(Main, "down")
  /\ Become(Main, [Idle EXCEPT !.pc = "list", !.kind = "reconcile", !.acts = Acts])
  /\ UNCHANGED <<quota, ann, budget>>

Listed(k) == IF ctl[k].kind = "restore" THEN RestoreScope[k] ELSE Pods

\* The pods that carry this actuator's annotation; a failed list ends it.
List(k) ==
  /\ At(k, "list")
  /\ \E act \in ctl[k].acts :
       LET c == [ctl[k] EXCEPT !.act = act, !.acts = @ \ {act}, !.seen = ann[act]] IN
       \/ /\ Become(k, Advance([c EXCEPT !.todo = {p \in Listed(k) : ann[act][p] # NoAnn}]))
          /\ UNCHANGED budget
       \/ Attempt("api", FALSE) /\ Become(k, Advance([c EXCEPT !.failed = TRUE]))
  /\ UNCHANGED <<quota, ann>>

\* Bug: the annotation goes whatever the write returned.
UndoUnchecked(k) ==
  /\ At(k, "undo")
  /\ \E p \in ctl[k].todo, ok \in BOOLEAN :
       /\ WriteQuota(p, ctl[k].seen[p], ok)
       /\ Become(k, [ctl[k] EXCEPT !.todo = @ \ {p}, !.cur = p, !.pc = "clear"])
  /\ UNCHANGED ann

\* restorePod: the original first, then the annotation.
Undo(k) ==
  /\ At(k, "undo")
  /\ \E p \in ctl[k].todo, ok \in BOOLEAN :
       LET c == [ctl[k] EXCEPT !.todo = @ \ {p}, !.cur = p] IN
       /\ WriteQuota(p, c.seen[p], ok)
       /\ Become(k, IF ok THEN [c EXCEPT !.pc = "clear"] ELSE Advance([c EXCEPT !.failed = TRUE]))
  /\ UNCHANGED ann

\* A failure to clear is only logged.
Clear(k) ==
  /\ At(k, "clear")
  /\ LET c == ctl[k] IN
     \E ok, done \in BOOLEAN :
       /\ Attempt("api", ok)
       /\ ok => done
       /\ ann' = IF done THEN [ann EXCEPT ![c.act][c.cur] = NoAnn] ELSE ann
       /\ Become(k, Advance(c))
  /\ UNCHANGED quota

\* Bug: a pod at its original quota counts as throttled.
LostAbove(original, live) == original > 0 /\ (live = Unbounded \/ live > original)

\* isolate.Reconcile: an annotated pod at its original, or over it, lost its
\* write and is throttled; one that had no quota to begin with is left alone.
\* No other process writes between the read and the write.
Lost(original, live) == original > 0 /\ (live = Unbounded \/ live >= original)

Repair(k) ==
  /\ At(k, "repair")
  /\ \E p \in ctl[k].todo :
       LET c == [ctl[k] EXCEPT !.todo = @ \ {p}] IN
       \/ /\ Lost(c.seen[p], quota[p])
          /\ \E ok \in BOOLEAN :
               /\ WriteQuota(p, Throttled(c.seen[p]), ok)
               /\ Become(k, Advance([c EXCEPT !.failed = @ \/ ~ok]))
       \/ /\ ~Lost(c.seen[p], quota[p])
          /\ Become(k, Advance(c))
          /\ UNCHANGED <<quota, budget>>
  /\ UNCHANGED ann

-----------------------------------------------------------------------------
Crash ==
  /\ ~At(Main, "down")
  /\ Attempt("crash", FALSE)
  /\ ctl' = [k \in Procs |-> IF k = Main THEN Down ELSE Idle]
  /\ UNCHANGED <<quota, ann>>

Init ==
  /\ quota = Orig
  /\ ann = [act \in Acts |-> [p \in Pods |-> NoAnn]]
  /\ ctl = [k \in Procs |-> IF k = Main THEN Down ELSE Idle]
  /\ budget = MaxFaults

Call(k) ==
  \/ \E act \in Acts, demand \in Demands("isolate") \cup Demands("harvest") :
       demand \in Demands(act) /\ CallApply(k, act, demand)
  \/ CallRestore(k)

Step(k) ==
  \/ ReadPod(k) \/ Annotate(k) \/ Write(k)
  \/ List(k) \/ Undo(k) \/ Clear(k) \/ Repair(k)

Next ==
  \/ \E k \in Targets : Call(k)
  \/ \E k \in Procs : Step(k)
  \/ Restart \/ Crash

Spec == Init /\ [][Next]_vars
-----------------------------------------------------------------------------
(***************************************************************************)
(* Properties.                                                             *)
(***************************************************************************)
\* A quota other than the pod's own is on record with the actuator that set
\* it, whatever fails and wherever the process crashes (isolate.go:10-11).
WrittenIsRecorded ==
  \A p \in Pods : quota[p] # Orig[p] => \E act \in Acts : ann[act][p] # NoAnn

\* What is on record is the ORIGINAL quota, never one an actuator wrote: a
\* Restore cannot make a throttle permanent (isolate.go:310-312).
RecordIsOriginal ==
  \A act \in Acts, p \in Pods : ann[act][p] \in {NoAnn, Orig[p]}

\* A Restore that reports no error has given every pod of the target's
\* namespace its own quota back, whatever was cut short before.
RestoreReleases ==
  \A k \in Targets :
    At(k, "idle") /\ ctl[k].kind = "restore" /\ ~Reported(ctl[k])
      => \A p \in RestoreScope[k] : quota[p] = Orig[p]

\* A Reconcile in which nothing fails leaves no annotated aggressor at its
\* original quota (isolate.go:11-14) and no grant behind (harvest.go:18-21),
\* wherever the call before it was cut short.  Only for an aggressor that had a
\* quota: a lost throttle of one that was unbounded is not completed, because
\* isolate.go:457 asks for an original above zero.
Reconciled ==
  /\ \A p \in Pods : ann["isolate"][p] # NoAnn /\ Orig[p] # Unbounded => quota[p] # Orig[p]
  /\ \A p \in Scope["harvest"] \ Scope["isolate"] : quota[p] = Orig[p]

ReconcileCompletes ==
  [][~Up /\ Up' /\ ~ctl'[Main].failed => Reconciled']_vars
=============================================================================
