-------------------------- MODULE HorizontalScale --------------------------
(***************************************************************************)
(* The horizontal actuator: the controllers of several nodes scale one     *)
(* Deployment.  A call is sequential on its node; each action is one       *)
(* request to the API server, and requests of other nodes fall between.    *)
(* The resourceVersion is modelled by what it decides: whether the         *)
(* Deployment has changed since a call read it (fresh).                    *)
(*                                                                         *)
(* At most MaxFaults requests fail in a behaviour; a failed patch may have *)
(* been applied.                                                           *)
(*                                                                         *)
(* A definition under a comment that begins "Bug:" is no part of the       *)
(* specification: it is a plausible mistake in the definition after it,    *)
(* which a checked property must catch.                                    *)
(***************************************************************************)
EXTENDS Integers

CONSTANTS
  Nodes,
  Original,            \* the replicas of the manifest
  Calls,               \* the parameters Apply is called with
  NoCall, NoCount,
  Resets,              \* whether the harness applies the manifest again
  MaxFaults

ASSUME CallsAssumption ==
  Calls \subseteq [kind : {"delta", "ensure_min"}, by : Int, min : Nat, max : Nat]
ASSUME NoneAssumption == NoCall \notin Calls /\ NoCount \notin Nat
ASSUME CountsAssumption == Original \in Nat /\ MaxFaults \in Nat /\ Resets \in BOOLEAN

VARIABLES
  dep,      \* the Deployment: its replicas and the two annotations
  ctl,      \* node -> control point and locals of its call, 0 when no longer used
  faults,   \* requests that have failed
  lately,   \* history: nodes that scaled since the last cooldown ended
  overlap   \* history: a Restore ran beside another node's call

deployment == <<dep, ctl, faults, lately, overlap>>

Idle == [pc |-> "idle", call |-> NoCall, current |-> 0, desired |-> 0, fresh |-> FALSE]
At(n, label) == ctl[n].pc = label
ApplyLabels == {"get", "gate", "baseline", "annotate", "patch", "refetch", "retry", "stamp"}
RestoreLabels == {"rget", "rscale", "rpatch", "rclear"}

\* A request succeeds or, while faults are left, fails.
Outcome(ok) ==
  /\ ok \/ faults < MaxFaults
  /\ faults' = IF ok THEN faults ELSE faults + 1

\* Node n goes on with c and the Deployment becomes d, which a call that has
\* read it before can tell.
Proceed(n, c, d) ==
  LET After(k) == IF k = n THEN c ELSE ctl[k] IN
  /\ dep' = d
  /\ ctl' = [k \in Nodes |-> IF d = dep THEN After(k) ELSE [After(k) EXCEPT !.fresh = FALSE]]

Read(n, c) == Proceed(n, c, dep) /\ UNCHANGED <<lately, overlap>>
Return(n) == Read(n, Idle)

\* A patch to d that fails may be applied.
Patched(ok, d) == IF ok THEN {d} ELSE {dep, d}

Init ==
  /\ dep = [replicas |-> Original, baseline |-> NoCount, stamp |-> "none"]
  /\ ctl = [n \in Nodes |-> Idle]
  /\ faults = 0 /\ lately = {} /\ overlap = FALSE

-----------------------------------------------------------------------------
(***************************************************************************)
(* Apply                                                                   *)
(***************************************************************************)

CallApply(n, call) ==
  /\ At(n, "idle")
  /\ Proceed(n, [Idle EXCEPT !.pc = "get", !.call = call], dep)
  /\ overlap' = (overlap \/ \E k \in Nodes : ctl[k].pc \in RestoreLabels)
  /\ UNCHANGED <<faults, lately>>

GetScale(n) ==
  /\ At(n, "get")
  /\ \E ok \in BOOLEAN :
       /\ Outcome(ok)
       /\ IF ok THEN Read(n, [ctl[n] EXCEPT !.pc = "gate", !.current = dep.replicas,
                                            !.fresh = TRUE])
          ELSE Return(n)

Clamped(call, r) ==
  LET raised == IF r < call.min THEN call.min ELSE r IN
  IF raised > call.max THEN call.max ELSE raised

\* The replicas a call asks for; the current ones where it asks for none.
Desired(call, current) ==
  IF call.kind = "delta" THEN Clamped(call, current + call.by)
  ELSE IF current >= call.by THEN current
  ELSE Clamped(call, call.by)

\* The gate lets a call pass when its own read fails.
CheckCooldown(n) ==
  LET desired == Desired(ctl[n].call, ctl[n].current) IN
  /\ At(n, "gate")
  /\ \E ok \in BOOLEAN :
       /\ Outcome(ok)
       /\ IF (ok /\ dep.stamp = "recent") \/ desired = ctl[n].current THEN Return(n)
          ELSE Read(n, [ctl[n] EXCEPT !.pc = "baseline", !.desired = desired])

GetBaseline(n) ==
  /\ At(n, "baseline")
  /\ \E ok \in BOOLEAN :
       /\ Outcome(ok)
       /\ Read(n, IF ok /\ dep.baseline = NoCount THEN [ctl[n] EXCEPT !.pc = "annotate"]
                  ELSE [ctl[n] EXCEPT !.pc = "patch", !.current = 0])

AnnotateBaseline(n) ==
  /\ At(n, "annotate")
  /\ \E ok \in BOOLEAN :
       /\ Outcome(ok)
       /\ \E d \in Patched(ok, [dep EXCEPT !.baseline = ctl[n].current]) :
            Proceed(n, [ctl[n] EXCEPT !.pc = "patch", !.current = 0], d)
  /\ UNCHANGED <<lately, overlap>>

\* Where a call goes on after its /scale patch was accepted.
\* Bug: a patch that needed the retry is not stamped.
AcceptedUnstamped(n) ==
  IF At(n, "retry") THEN Idle ELSE [Idle EXCEPT !.pc = "stamp"]

Accepted(n) == [Idle EXCEPT !.pc = "stamp"]

\* A patch with an old resourceVersion is a conflict: the first one is retried
\* with the new version, the second ends the call.
PatchScale(n) ==
  LET d == [dep EXCEPT !.replicas = ctl[n].desired] IN
  /\ At(n, "patch") \/ At(n, "retry")
  /\ \/ /\ ctl[n].fresh
        /\ Outcome(TRUE)
        /\ Proceed(n, Accepted(n), d)
        /\ lately' = lately \cup {n}
     \/ /\ ctl[n].fresh
        /\ Outcome(FALSE)
        /\ \E e \in Patched(FALSE, d) : Proceed(n, Idle, e)
        /\ UNCHANGED lately
     \/ /\ ~ctl[n].fresh
        /\ \E ok \in BOOLEAN :
             /\ Outcome(ok)
             /\ Proceed(n, IF ok /\ At(n, "patch") THEN [ctl[n] EXCEPT !.pc = "refetch"]
                           ELSE Idle, dep)
        /\ UNCHANGED lately
  /\ UNCHANGED overlap

\* Bug: the retry does not look whether another writer was there.
RefetchUnchecked(n) ==
  /\ At(n, "refetch")
  /\ \E ok \in BOOLEAN :
       /\ Outcome(ok)
       /\ IF ok THEN Read(n, [ctl[n] EXCEPT !.pc = "retry", !.fresh = TRUE]) ELSE Return(n)

Refetch(n) ==
  /\ At(n, "refetch")
  /\ \E ok \in BOOLEAN :
       /\ Outcome(ok)
       /\ IF ok /\ ~(ctl[n].call.kind = "ensure_min" /\ dep.replicas >= ctl[n].desired)
          THEN Read(n, [ctl[n] EXCEPT !.pc = "retry", !.fresh = TRUE])
          ELSE Return(n)

StampLastScaledAt(n) ==
  /\ At(n, "stamp")
  /\ \E ok \in BOOLEAN :
       /\ Outcome(ok)
       /\ \E d \in Patched(ok, [dep EXCEPT !.stamp = "recent"]) : Proceed(n, Idle, d)
  /\ UNCHANGED <<lately, overlap>>

Apply(n) ==
  \/ GetScale(n) \/ CheckCooldown(n)
  \/ GetBaseline(n) \/ AnnotateBaseline(n)
  \/ PatchScale(n) \/ Refetch(n)
  \/ StampLastScaledAt(n)

-----------------------------------------------------------------------------
(***************************************************************************)
(* Restore                                                                 *)
(***************************************************************************)

CallRestore(n) ==
  /\ At(n, "idle")
  /\ Proceed(n, [Idle EXCEPT !.pc = "rget"], dep)
  /\ overlap' = (overlap \/ \E k \in Nodes \ {n} : ~At(k, "idle"))
  /\ UNCHANGED <<faults, lately>>

RestoreGet(n) ==
  /\ At(n, "rget")
  /\ \E ok \in BOOLEAN :
       /\ Outcome(ok)
       /\ IF ok /\ dep.baseline # NoCount
          THEN Read(n, [Idle EXCEPT !.pc = "rscale", !.desired = dep.baseline])
          ELSE Return(n)

RestoreGetScale(n) ==
  /\ At(n, "rscale")
  /\ \E ok \in BOOLEAN :
       /\ Outcome(ok)
       /\ IF ok THEN Read(n, [ctl[n] EXCEPT !.fresh = TRUE,
                                         !.pc = IF dep.replicas = ctl[n].desired THEN "rclear"
                                                ELSE "rpatch"])
          ELSE Return(n)

\* Bug: the baseline is dropped although the Deployment was not scaled back.
RestorePatchUnchecked(n) ==
  LET d == [dep EXCEPT !.replicas = ctl[n].desired] IN
  /\ At(n, "rpatch")
  /\ \E ok \in BOOLEAN :
       /\ Outcome(ok)
       /\ \E e \in IF ctl[n].fresh THEN Patched(ok, d) ELSE {dep} :
            Proceed(n, [ctl[n] EXCEPT !.pc = "rclear"], e)
  /\ UNCHANGED <<lately, overlap>>

RestorePatch(n) ==
  LET d == [dep EXCEPT !.replicas = ctl[n].desired] IN
  /\ At(n, "rpatch")
  /\ \E ok \in BOOLEAN :
       /\ Outcome(ok)
       /\ \E e \in IF ctl[n].fresh THEN Patched(ok, d) ELSE {dep} :
            Proceed(n, IF ok /\ ctl[n].fresh THEN [ctl[n] EXCEPT !.pc = "rclear"]
                       ELSE Idle, e)
  /\ UNCHANGED <<lately, overlap>>

RestoreClear(n) ==
  /\ At(n, "rclear")
  /\ \E ok \in BOOLEAN :
       /\ Outcome(ok)
       /\ \E d \in Patched(ok, [dep EXCEPT !.baseline = NoCount, !.stamp = "none"]) :
            Proceed(n, Idle, d)
  /\ lately' = {}
  /\ UNCHANGED overlap

Restore(n) == RestoreGet(n) \/ RestoreGetScale(n) \/ RestorePatch(n) \/ RestoreClear(n)

-----------------------------------------------------------------------------
(***************************************************************************)
(* The cluster around the actuator                                         *)
(***************************************************************************)

\* Someone else writes the Deployment: calls in flight find it changed.
Written(d) ==
  /\ dep' = d
  /\ ctl' = [k \in Nodes |-> [ctl[k] EXCEPT !.fresh = FALSE]]
  /\ UNCHANGED <<faults, overlap>>

CooldownEnds ==
  /\ dep.stamp = "recent"
  /\ dep' = [dep EXCEPT !.stamp = "old"]   \* time passes: no write
  /\ lately' = {}
  /\ UNCHANGED <<ctl, faults, overlap>>

\* The Deployment's status changes.
StatusUpdate == (\E k \in Nodes : ctl[k].fresh) /\ Written(dep) /\ UNCHANGED lately

\* The harness applies the manifest again between two runs.
HarnessReset ==
  /\ Resets /\ dep.replicas # Original
  /\ Written([dep EXCEPT !.replicas = Original])
  /\ UNCHANGED lately

CallStep(n) == Apply(n) \/ Restore(n)

Environment == CooldownEnds \/ StatusUpdate \/ HarnessReset

-----------------------------------------------------------------------------
\* While no request has failed and no Restore ran beside another node's call: the
\* recorded baseline is the count before any scaling, whichever node was first,
\* so Restore scales back to it (horizontal.go:16-18), and a Deployment that was
\* scaled has one on record.  A conflict is no failure here: a Restore that meets
\* one keeps the record.
BaselineIsOriginal ==
  faults = 0 /\ ~overlap =>
    /\ dep.baseline \in {NoCount, Original}
    /\ dep.replicas # Original => dep.baseline # NoCount

\* ensure_min is idempotent over the nodes: none of its patches lowers the
\* replicas another node asked for (horizontal.go:8-10, 171-174).
EnsureMinNeverLowers ==
  [][\A n \in Nodes :
       ctl[n].call # NoCall /\ ctl[n].call.kind = "ensure_min" /\ PatchScale(n)
         => dep'.replicas >= dep.replicas]_deployment

\* While no request has failed, a node's own scalings are a cooldown apart,
\* conflicts and retries included.  The stamp that fails, which Apply only logs
\* (horizontal.go:189-193), leaves the next gate open.
ScalesOncePerCooldown ==
  [][\A n \in Nodes :
       faults' = 0 /\ PatchScale(n) /\ dep'.replicas # dep.replicas
         => n \notin lately]_deployment
=============================================================================
