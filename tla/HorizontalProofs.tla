-------------------------- MODULE HorizontalProofs --------------------------
(***************************************************************************)
(* For any nodes, calls, faults and resets: the baseline on record is the  *)
(* count of the manifest while nothing fails and Restore runs alone; no    *)
(* ensure_min lowers the Deployment, where the policy's floors fit under   *)
(* its max_replicas; and a node scales once per cooldown.                  *)
(*                                                                         *)
(* None is inductive.  The strengthenings say what a call knows of the     *)
(* Deployment at each of its requests, other nodes' requests between.      *)
(***************************************************************************)
EXTENDS HorizontalTick, TLAPS

Labels == {"idle"} \cup ApplyLabels \cup RestoreLabels

CallState ==
  [pc : Labels, call : Calls \cup {NoCall}, current : Nat, desired : Nat, fresh : BOOLEAN]

DeploymentState ==
  [replicas : Nat, baseline : Nat \cup {NoCount}, stamp : {"none", "recent", "old"}]

ScaleTypeOK ==
  /\ dep \in DeploymentState
  /\ ctl \in [Nodes -> CallState]
  /\ \A n \in Nodes : ctl[n].pc \in ApplyLabels \ {"stamp"} => ctl[n].call \in Calls
  /\ faults \in Nat
  /\ lately \subseteq Nodes

\* What the steps of the tick loops are to the Deployment and the calls.
Died(n) ==
  /\ Outcome(FALSE)
  /\ ctl' = [ctl EXCEPT ![n] = Idle]
  /\ UNCHANGED <<dep, lately, overlap>>

ActuatorNext ==
  \/ \E n \in Nodes :
       \/ \E call \in Calls : CallApply(n, call)
       \/ CallRestore(n) \/ CallStep(n) \/ Died(n)
  \/ Environment

\* A policy's ensure_min asks for no more than its max_replicas.
FloorsFit == \A call \in Calls : call.kind = "ensure_min" => call.by <= call.max

-----------------------------------------------------------------------------
(***************************************************************************)
(* What a step does, whatever becomes of the resource version.             *)
(***************************************************************************)
\* Node n goes on like c, the Deployment becomes d, and what is still fresh has
\* been fresh and saw no write.
Moved(n, c, d) ==
  /\ dep' = d
  /\ ctl' \in [Nodes -> CallState]
  /\ \A k \in Nodes :
       LET o == IF k = n THEN c ELSE ctl[k] IN
       /\ ctl'[k].pc = o.pc /\ ctl'[k].call = o.call
       /\ ctl'[k].current = o.current /\ ctl'[k].desired = o.desired
       /\ ctl'[k].fresh => d = dep /\ o.fresh

LEMMA StaleFields ==
  ASSUME NEW o \in CallState
  PROVE  LET s == [o EXCEPT !.fresh = FALSE] IN
         /\ s \in CallState /\ s.pc = o.pc /\ s.call = o.call
         /\ s.current = o.current /\ s.desired = o.desired /\ s.fresh = FALSE
BY DEF CallState

LEMMA ProceedMoves ==
  ASSUME NEW n \in Nodes, NEW c \in CallState, NEW d,
         ctl \in [Nodes -> CallState], Proceed(n, c, d)
  PROVE  Moved(n, c, d)
<1> DEFINE After(k) == IF k = n THEN c ELSE ctl[k]
           Next(k) == IF d = dep THEN After(k) ELSE [After(k) EXCEPT !.fresh = FALSE]
<1>1. dep' = d /\ ctl' = [k \in Nodes |-> Next(k)]
  BY DEF Proceed
<1>2. ASSUME NEW k \in Nodes
      PROVE  LET o == After(k) IN
             /\ Next(k) \in CallState
             /\ Next(k).pc = o.pc /\ Next(k).call = o.call
             /\ Next(k).current = o.current /\ Next(k).desired = o.desired
             /\ Next(k).fresh => d = dep /\ o.fresh
  <2>1. After(k) \in CallState
    OBVIOUS
  <2> QED
    BY <2>1, StaleFields
<1> HIDE DEF Next
<1>3. ctl' \in [Nodes -> CallState] /\ \A k \in Nodes : ctl'[k] = Next(k)
  BY <1>1, <1>2
<1> QED
  BY <1>1, <1>2, <1>3 DEF Moved

\* The records a call goes on with.
LEMMA IdleFields ==
  /\ Idle \in CallState
  /\ Idle.pc = "idle" /\ Idle.call = NoCall /\ Idle.current = 0 /\ Idle.desired = 0
  /\ Idle.fresh = FALSE
BY DEF Idle, CallState, Labels

LEMMA LabelFields ==
  ASSUME NEW c \in CallState, NEW label \in Labels
  PROVE  LET d == [c EXCEPT !.pc = label] IN
         /\ d \in CallState
         /\ d.pc = label /\ d.call = c.call /\ d.current = c.current
         /\ d.desired = c.desired /\ d.fresh = c.fresh
BY DEF CallState

LEMMA PatchedDeployment ==
  ASSUME NEW d \in DeploymentState
  PROVE  /\ \A r \in Nat :
              LET e == [d EXCEPT !.replicas = r] IN
              /\ e \in DeploymentState /\ e.replicas = r
              /\ e.baseline = d.baseline /\ e.stamp = d.stamp
         /\ \A s \in {"none", "recent", "old"} :
              LET e == [d EXCEPT !.stamp = s] IN
              /\ e \in DeploymentState /\ e.replicas = d.replicas
              /\ e.baseline = d.baseline /\ e.stamp = s
         /\ LET e == [d EXCEPT !.baseline = NoCount, !.stamp = "none"] IN
            /\ e \in DeploymentState /\ e.replicas = d.replicas
            /\ e.baseline = NoCount /\ e.stamp = "none"
BY DEF DeploymentState

LEMMA OutcomeFacts ==
  ASSUME faults \in Nat, NEW ok \in BOOLEAN, Outcome(ok)
  PROVE  faults' \in Nat /\ (faults' = 0 => ok /\ faults = 0)
BY DEF Outcome

-----------------------------------------------------------------------------
(***************************************************************************)
(* The number of replicas a call asks for.                                 *)
(***************************************************************************)
LEMMA ClampedInRange ==
  ASSUME NEW call \in Calls, NEW r \in Int
  PROVE  /\ Clamped(call, r) \in Nat /\ Clamped(call, r) <= call.max
         /\ call.min <= call.max => call.min <= Clamped(call, r)
         /\ r <= call.max => r <= Clamped(call, r)
<1>1. call.min \in Nat /\ call.max \in Nat
  BY CallsAssumption
<1>2. CASE r < call.min
  <2>1. Clamped(call, r) = IF call.min > call.max THEN call.max ELSE call.min
    BY <1>2 DEF Clamped
  <2> QED
    BY <1>1, <1>2, <2>1
<1>3. CASE ~(r < call.min)
  <2>1. Clamped(call, r) = IF r > call.max THEN call.max ELSE r
    BY <1>3 DEF Clamped
  <2> QED
    BY <1>1, <1>3, <2>1
<1> QED
  BY <1>2, <1>3

\* Whatever is asked for is a count; and a floor that fits is a floor.
LEMMA DesiredFacts ==
  ASSUME NEW call \in Calls, NEW r \in Nat
  PROVE  /\ Desired(call, r) \in Nat
         /\ FloorsFit /\ call.kind = "ensure_min" => r <= Desired(call, r)
<1>1. call.kind \in {"delta", "ensure_min"} /\ call.by \in Int /\ call.max \in Nat
  BY CallsAssumption
<1>2. CASE call.kind = "delta"
  BY <1>1, <1>2, ClampedInRange DEF Desired
<1>3. CASE call.kind = "ensure_min" /\ r >= call.by
  BY <1>1, <1>3 DEF Desired
<1>4. CASE call.kind = "ensure_min" /\ ~(r >= call.by)
  <2>1. Desired(call, r) = Clamped(call, call.by)
    BY <1>4 DEF Desired
  <2>2. Clamped(call, call.by) \in Nat
        /\ (call.by <= call.max => call.by <= Clamped(call, call.by))
    BY <1>1, ClampedInRange
  <2> QED
    BY <1>1, <1>4, <2>1, <2>2 DEF FloorsFit
<1> QED
  BY <1>1, <1>2, <1>3, <1>4

-----------------------------------------------------------------------------
(***************************************************************************)
(* The calls' requests, one lemma per action: the record the call goes on  *)
(* with, the Deployment, and what the code looked at.                      *)
(***************************************************************************)
Counted == faults' \in Nat /\ (faults' = 0 => faults = 0)

LEMMA CallApplyEffect ==
  ASSUME ScaleTypeOK, NEW n \in Nodes, NEW call \in Calls, CallApply(n, call)
  PROVE  \E c \in CallState :
           /\ Moved(n, c, dep) /\ c.pc = "get" /\ c.call = call
           /\ At(n, "idle") /\ UNCHANGED <<faults, lately>>
           /\ ~overlap' => ~overlap /\ \A k \in Nodes : ctl[k].pc \notin RestoreLabels
<1> DEFINE c == [Idle EXCEPT !.pc = "get", !.call = call]
<1>1. c \in CallState /\ c.pc = "get" /\ c.call = call
  BY DEF Idle, CallState, Labels, ApplyLabels
<1>2. /\ Proceed(n, c, dep) /\ At(n, "idle") /\ UNCHANGED <<faults, lately>>
      /\ overlap' = (overlap \/ \E k \in Nodes : ctl[k].pc \in RestoreLabels)
  BY DEF CallApply
<1> HIDE DEF c
<1>3. Moved(n, c, dep)
  BY <1>1, <1>2, ProceedMoves DEF ScaleTypeOK
<1> QED
  BY <1>1, <1>2, <1>3

LEMMA CallRestoreEffect ==
  ASSUME ScaleTypeOK, NEW n \in Nodes, CallRestore(n)
  PROVE  \E c \in CallState :
           /\ Moved(n, c, dep) /\ c.pc = "rget"
           /\ At(n, "idle") /\ UNCHANGED <<faults, lately>>
           /\ ~overlap' => ~overlap /\ \A k \in Nodes \ {n} : At(k, "idle")
<1> DEFINE c == [Idle EXCEPT !.pc = "rget"]
<1>1. c \in CallState /\ c.pc = "rget"
  BY IdleFields, LabelFields DEF Labels, RestoreLabels
<1>2. /\ Proceed(n, c, dep) /\ At(n, "idle") /\ UNCHANGED <<faults, lately>>
      /\ overlap' = (overlap \/ \E k \in Nodes \ {n} : ~At(k, "idle"))
  BY DEF CallRestore
<1> HIDE DEF c
<1>3. Moved(n, c, dep)
  BY <1>1, <1>2, ProceedMoves DEF ScaleTypeOK
<1> QED
  BY <1>1, <1>2, <1>3

\* The call ends, and nothing else changes.
Ended(n) == \E c \in CallState : Moved(n, c, dep) /\ c.pc = "idle" /\ c.fresh = FALSE

LEMMA ReturnEffect ==
  ASSUME ScaleTypeOK, NEW n \in Nodes, Return(n)
  PROVE  Ended(n) /\ UNCHANGED <<lately, overlap>>
BY IdleFields, ProceedMoves DEF ScaleTypeOK, Return, Read, Ended

LEMMA GetScaleEffect ==
  ASSUME ScaleTypeOK, NEW n \in Nodes, GetScale(n)
  PROVE  /\ At(n, "get") /\ Counted /\ UNCHANGED <<lately, overlap>>
         /\ \/ Ended(n)
            \/ \E c \in CallState :
                 /\ Moved(n, c, dep) /\ c.pc = "gate" /\ c.call = ctl[n].call
                 /\ c.current = dep.replicas
<1> DEFINE c == [ctl[n] EXCEPT !.pc = "gate", !.current = dep.replicas, !.fresh = TRUE]
<1>1. PICK ok \in BOOLEAN : Outcome(ok) /\ IF ok THEN Read(n, c) ELSE Return(n)
  BY DEF GetScale
<1>2. Counted /\ At(n, "get")
  BY <1>1, OutcomeFacts DEF Counted, ScaleTypeOK, GetScale
<1>3. c \in CallState /\ c.pc = "gate" /\ c.call = ctl[n].call /\ c.current = dep.replicas
  BY DEF ScaleTypeOK, CallState, DeploymentState, Labels, ApplyLabels
<1> HIDE DEF c
<1>4. CASE ok
  BY <1>1, <1>2, <1>3, <1>4, ProceedMoves DEF Read, ScaleTypeOK
<1>5. CASE ~ok
  BY <1>1, <1>2, <1>5, ReturnEffect
<1> QED
  BY <1>4, <1>5

LEMMA CheckCooldownEffect ==
  ASSUME ScaleTypeOK, NEW n \in Nodes, CheckCooldown(n)
  PROVE  /\ At(n, "gate") /\ Counted /\ UNCHANGED <<lately, overlap>>
         /\ \/ Ended(n)
            \/ \E c \in CallState :
                 /\ Moved(n, c, dep) /\ c.pc = "baseline" /\ c.call = ctl[n].call
                 /\ c.current = ctl[n].current /\ c.fresh = ctl[n].fresh
                 /\ c.desired = Desired(ctl[n].call, ctl[n].current)
                 /\ faults' = 0 => dep.stamp # "recent"
<1> DEFINE desired == Desired(ctl[n].call, ctl[n].current)
           c == [ctl[n] EXCEPT !.pc = "baseline", !.desired = desired]
<1>1. PICK ok \in BOOLEAN :
         /\ Outcome(ok)
         /\ IF (ok /\ dep.stamp = "recent") \/ desired = ctl[n].current
            THEN Return(n) ELSE Read(n, c)
  BY DEF CheckCooldown
<1>2. Counted /\ At(n, "gate") /\ (faults' = 0 => ok)
  BY <1>1, OutcomeFacts DEF Counted, ScaleTypeOK, CheckCooldown
<1>3. ctl[n].call \in Calls /\ ctl[n].current \in Nat /\ ctl[n] \in CallState
  BY <1>2 DEF ScaleTypeOK, CallState, ApplyLabels, At
<1>4. desired \in Nat
  BY <1>3, DesiredFacts
<1> HIDE DEF desired
<1>5. /\ c \in CallState /\ c.pc = "baseline" /\ c.call = ctl[n].call
      /\ c.current = ctl[n].current /\ c.fresh = ctl[n].fresh /\ c.desired = desired
  BY <1>3, <1>4 DEF CallState, Labels, ApplyLabels
<1> HIDE DEF c
<1>6. CASE Return(n)
  BY <1>2, <1>6, ReturnEffect
<1>7. CASE Read(n, c) /\ ~(ok /\ dep.stamp = "recent")
  <2>1. Moved(n, c, dep) /\ UNCHANGED <<lately, overlap>>
    BY <1>5, <1>7, ProceedMoves DEF Read, ScaleTypeOK
  <2> QED
    BY <1>2, <1>5, <1>7, <2>1 DEF desired
<1> QED
  BY <1>1, <1>6, <1>7

LEMMA GetBaselineEffect ==
  ASSUME ScaleTypeOK, NEW n \in Nodes, GetBaseline(n)
  PROVE  /\ At(n, "baseline") /\ Counted /\ UNCHANGED <<lately, overlap>>
         /\ \E c \in CallState :
              /\ Moved(n, c, dep) /\ c.call = ctl[n].call
              /\ c.desired = ctl[n].desired /\ c.fresh = ctl[n].fresh
              /\ \/ /\ c.pc = "annotate" /\ c.current = ctl[n].current
                    /\ dep.baseline = NoCount
                 \/ c.pc = "patch" /\ (faults' = 0 => dep.baseline # NoCount)
<1> DEFINE a == [ctl[n] EXCEPT !.pc = "annotate"]
           b == [ctl[n] EXCEPT !.pc = "patch", !.current = 0]
<1>1. PICK ok \in BOOLEAN :
         Outcome(ok) /\ Read(n, IF ok /\ dep.baseline = NoCount THEN a ELSE b)
  BY DEF GetBaseline
<1>2. Counted /\ At(n, "baseline") /\ (faults' = 0 => ok)
  BY <1>1, OutcomeFacts DEF Counted, ScaleTypeOK, GetBaseline
<1>3. /\ a \in CallState /\ a.pc = "annotate" /\ a.call = ctl[n].call
      /\ a.current = ctl[n].current /\ a.fresh = ctl[n].fresh /\ a.desired = ctl[n].desired
      /\ b \in CallState /\ b.pc = "patch" /\ b.call = ctl[n].call
      /\ b.fresh = ctl[n].fresh /\ b.desired = ctl[n].desired
  BY DEF ScaleTypeOK, CallState, Labels, ApplyLabels
<1> HIDE DEF a, b
<1>4. CASE ok /\ dep.baseline = NoCount
  <2>1. Moved(n, a, dep) /\ UNCHANGED <<lately, overlap>>
    BY <1>1, <1>3, <1>4, ProceedMoves DEF Read, ScaleTypeOK
  <2> QED
    BY <1>2, <1>3, <1>4, <2>1
<1>5. CASE ~(ok /\ dep.baseline = NoCount)
  <2>1. Moved(n, b, dep) /\ UNCHANGED <<lately, overlap>>
    BY <1>1, <1>3, <1>5, ProceedMoves DEF Read, ScaleTypeOK
  <2> QED
    BY <1>2, <1>3, <1>5, <2>1
<1> QED
  BY <1>4, <1>5

LEMMA AnnotateEffect ==
  ASSUME ScaleTypeOK, NEW n \in Nodes, AnnotateBaseline(n)
  PROVE  /\ At(n, "annotate") /\ Counted /\ UNCHANGED <<lately, overlap>>
         /\ \E c \in CallState, d \in DeploymentState :
              /\ Moved(n, c, d) /\ c.pc = "patch" /\ c.call = ctl[n].call
              /\ c.desired = ctl[n].desired /\ c.fresh = ctl[n].fresh
              /\ d.replicas = dep.replicas /\ d.stamp = dep.stamp
              /\ faults' = 0 => d.baseline = ctl[n].current
<1> DEFINE c == [ctl[n] EXCEPT !.pc = "patch", !.current = 0]
           e == [dep EXCEPT !.baseline = ctl[n].current]
<1>1. PICK ok \in BOOLEAN : Outcome(ok) /\ \E d \in Patched(ok, e) : Proceed(n, c, d)
  BY DEF AnnotateBaseline
<1>2. PICK d \in Patched(ok, e) : Proceed(n, c, d)
  BY <1>1
<1>3. /\ Counted /\ At(n, "annotate") /\ (faults' = 0 => ok)
      /\ UNCHANGED <<lately, overlap>>
  BY <1>1, OutcomeFacts DEF Counted, ScaleTypeOK, AnnotateBaseline
<1>4. /\ c \in CallState /\ c.pc = "patch" /\ c.call = ctl[n].call
      /\ c.fresh = ctl[n].fresh /\ c.desired = ctl[n].desired
  BY DEF ScaleTypeOK, CallState, Labels, ApplyLabels
<1>5. /\ e \in DeploymentState /\ e.replicas = dep.replicas /\ e.stamp = dep.stamp
      /\ e.baseline = ctl[n].current
  <2>1. ctl[n].current \in Nat \cup {NoCount} /\ dep \in DeploymentState
    BY DEF ScaleTypeOK, CallState
  <2> QED
    BY <2>1 DEF DeploymentState
<1> HIDE DEF c, e
<1>6. d = e \/ (~ok /\ d = dep)
  BY <1>2 DEF Patched
<1>7. Moved(n, c, d)
  BY <1>2, <1>4, ProceedMoves DEF ScaleTypeOK
<1>8. /\ d \in DeploymentState /\ d.replicas = dep.replicas /\ d.stamp = dep.stamp
      /\ faults' = 0 => d.baseline = ctl[n].current
  BY <1>3, <1>5, <1>6 DEF ScaleTypeOK
<1> QED
  BY <1>3, <1>4, <1>7, <1>8

LEMMA PatchScaleEffect ==
  ASSUME ScaleTypeOK, NEW n \in Nodes, PatchScale(n)
  PROVE  /\ At(n, "patch") \/ At(n, "retry")
         /\ Counted /\ UNCHANGED overlap
         /\ \E c \in CallState, d \in DeploymentState :
              /\ Moved(n, c, d)
              /\ d.baseline = dep.baseline /\ d.stamp = dep.stamp
              /\ \/ /\ c.pc = "stamp" /\ lately' = lately \cup {n}
                    /\ ctl[n].fresh /\ d.replicas = ctl[n].desired
                 \/ /\ c.pc = "idle" /\ lately' = lately
                    /\ d = dep \/ (ctl[n].fresh /\ d.replicas = ctl[n].desired)
                 \/ /\ c.pc = "refetch" /\ c.call = ctl[n].call
                    /\ c.desired = ctl[n].desired /\ d = dep /\ lately' = lately
<1> DEFINE e == [dep EXCEPT !.replicas = ctl[n].desired]
           r == [ctl[n] EXCEPT !.pc = "refetch"]
           s == [Idle EXCEPT !.pc = "stamp"]
<1>0. (At(n, "patch") \/ At(n, "retry")) /\ UNCHANGED overlap
  BY DEF PatchScale
<1>1. /\ e \in DeploymentState /\ e.replicas = ctl[n].desired
      /\ e.baseline = dep.baseline /\ e.stamp = dep.stamp
  <2>1. ctl[n].desired \in Nat /\ dep \in DeploymentState
    BY DEF ScaleTypeOK, CallState
  <2> QED
    BY <2>1, PatchedDeployment
<1>2. s \in CallState /\ s.pc = "stamp" /\ Accepted(n) = s
  BY IdleFields, LabelFields DEF Accepted, Labels, ApplyLabels
<1>3. r \in CallState /\ r.pc = "refetch" /\ r.call = ctl[n].call /\ r.desired = ctl[n].desired
  BY LabelFields DEF ScaleTypeOK, Labels, ApplyLabels
<1>4. \/ ctl[n].fresh /\ Outcome(TRUE) /\ Proceed(n, s, e) /\ lately' = lately \cup {n}
      \/ /\ ctl[n].fresh /\ Outcome(FALSE) /\ lately' = lately
         /\ \E d \in Patched(FALSE, e) : Proceed(n, Idle, d)
      \/ /\ lately' = lately
         /\ \E ok \in BOOLEAN :
              /\ Outcome(ok)
              /\ Proceed(n, IF ok /\ At(n, "patch") THEN r ELSE Idle, dep)
  BY <1>2 DEF PatchScale
<1> HIDE DEF e, r, s
<1>5. ctl \in [Nodes -> CallState] /\ dep \in DeploymentState /\ faults \in Nat
  BY DEF ScaleTypeOK
<1>6. CASE ctl[n].fresh /\ Outcome(TRUE) /\ Proceed(n, s, e) /\ lately' = lately \cup {n}
  <2>1. Moved(n, s, e) /\ Counted
    BY <1>2, <1>5, <1>6, ProceedMoves, OutcomeFacts DEF Counted
  <2> QED
    BY <1>0, <1>1, <1>2, <1>6, <2>1
<1>7. CASE /\ ctl[n].fresh /\ Outcome(FALSE) /\ lately' = lately
           /\ \E d \in Patched(FALSE, e) : Proceed(n, Idle, d)
  <2>1. PICK d \in {dep, e} : Proceed(n, Idle, d)
    BY <1>7 DEF Patched
  <2>2. Moved(n, Idle, d) /\ Counted
    BY <1>5, <1>7, <2>1, IdleFields, ProceedMoves, OutcomeFacts DEF Counted
  <2> QED
    BY <1>0, <1>1, <1>5, <1>7, <2>1, <2>2, IdleFields
<1>8. CASE /\ lately' = lately
           /\ \E ok \in BOOLEAN :
                /\ Outcome(ok)
                /\ Proceed(n, IF ok /\ At(n, "patch") THEN r ELSE Idle, dep)
  <2>1. PICK ok \in BOOLEAN :
          Outcome(ok) /\ Proceed(n, IF ok /\ At(n, "patch") THEN r ELSE Idle, dep)
    BY <1>8
  <2>2. Counted
    BY <1>5, <2>1, OutcomeFacts DEF Counted
  <2>3. CASE ok /\ At(n, "patch")
    <3>1. Moved(n, r, dep)
      BY <1>3, <1>5, <2>1, <2>3, ProceedMoves
    <3> QED
      BY <1>0, <1>3, <1>5, <1>8, <2>2, <3>1
  <2>4. CASE ~(ok /\ At(n, "patch"))
    <3>1. Moved(n, Idle, dep)
      BY <1>5, <2>1, <2>4, IdleFields, ProceedMoves
    <3> QED
      BY <1>0, <1>5, <1>8, <2>2, <3>1, IdleFields
  <2> QED
    BY <2>3, <2>4
<1> QED
  BY <1>4, <1>6, <1>7, <1>8

LEMMA RefetchEffect ==
  ASSUME ScaleTypeOK, NEW n \in Nodes, Refetch(n)
  PROVE  /\ At(n, "refetch") /\ Counted /\ UNCHANGED <<lately, overlap>>
         /\ \/ Ended(n)
            \/ \E c \in CallState :
                 /\ Moved(n, c, dep) /\ c.pc = "retry" /\ c.call = ctl[n].call
                 /\ c.desired = ctl[n].desired
                 /\ c.call.kind = "ensure_min" => dep.replicas <= c.desired
<1> DEFINE c == [ctl[n] EXCEPT !.pc = "retry", !.fresh = TRUE]
           met == ctl[n].call.kind = "ensure_min" /\ dep.replicas >= ctl[n].desired
<1>1. PICK ok \in BOOLEAN : Outcome(ok) /\ IF ok /\ ~met THEN Read(n, c) ELSE Return(n)
  BY DEF Refetch
<1>2. Counted /\ At(n, "refetch")
  BY <1>1, OutcomeFacts DEF Counted, ScaleTypeOK, Refetch
<1>3. /\ c \in CallState /\ c.pc = "retry" /\ c.call = ctl[n].call
      /\ c.desired = ctl[n].desired
  BY DEF ScaleTypeOK, CallState, Labels, ApplyLabels
<1> HIDE DEF c
<1>4. CASE Return(n)
  BY <1>2, <1>4, ReturnEffect
<1>5. CASE Read(n, c) /\ ~met
  <2>1. Moved(n, c, dep) /\ UNCHANGED <<lately, overlap>>
    BY <1>3, <1>5, ProceedMoves DEF Read, ScaleTypeOK
  <2>2. c.call.kind = "ensure_min" => dep.replicas <= c.desired
    BY <1>3, <1>5 DEF ScaleTypeOK, DeploymentState, CallState
  <2> QED
    BY <1>2, <1>3, <2>1, <2>2
<1> QED
  BY <1>1, <1>4, <1>5

LEMMA StampEffect ==
  ASSUME ScaleTypeOK, NEW n \in Nodes, StampLastScaledAt(n)
  PROVE  /\ At(n, "stamp") /\ Counted /\ UNCHANGED <<lately, overlap>>
         /\ \E c \in CallState, d \in DeploymentState :
              /\ Moved(n, c, d) /\ c.pc = "idle"
              /\ d.replicas = dep.replicas /\ d.baseline = dep.baseline
              /\ d.stamp \in {"recent", dep.stamp}
              /\ faults' = 0 => d.stamp = "recent"
<1> DEFINE e == [dep EXCEPT !.stamp = "recent"]
<1>1. PICK ok \in BOOLEAN : Outcome(ok) /\ \E d \in Patched(ok, e) : Proceed(n, Idle, d)
  BY DEF StampLastScaledAt
<1>2. PICK d \in Patched(ok, e) : Proceed(n, Idle, d)
  BY <1>1
<1>3. /\ Counted /\ At(n, "stamp") /\ (faults' = 0 => ok)
      /\ UNCHANGED <<lately, overlap>>
  BY <1>1, OutcomeFacts DEF Counted, ScaleTypeOK, StampLastScaledAt
<1>4. /\ e \in DeploymentState /\ e.replicas = dep.replicas
      /\ e.baseline = dep.baseline /\ e.stamp = "recent"
  BY PatchedDeployment DEF ScaleTypeOK
<1> HIDE DEF e
<1>5. d = e \/ (~ok /\ d = dep)
  BY <1>2 DEF Patched
<1>6. Moved(n, Idle, d)
  BY <1>2, IdleFields, ProceedMoves DEF ScaleTypeOK
<1> QED
  BY <1>3, <1>4, <1>5, <1>6, IdleFields DEF ScaleTypeOK

LEMMA RestoreGetEffect ==
  ASSUME ScaleTypeOK, NEW n \in Nodes, RestoreGet(n)
  PROVE  /\ At(n, "rget") /\ Counted /\ UNCHANGED <<lately, overlap>>
         /\ \/ Ended(n)
            \/ \E c \in CallState :
                 /\ Moved(n, c, dep) /\ c.pc = "rscale"
                 /\ dep.baseline # NoCount /\ c.desired = dep.baseline
<1> DEFINE c == [Idle EXCEPT !.pc = "rscale", !.desired = dep.baseline]
<1>1. PICK ok \in BOOLEAN :
         Outcome(ok) /\ IF ok /\ dep.baseline # NoCount THEN Read(n, c) ELSE Return(n)
  BY DEF RestoreGet
<1>2. Counted /\ At(n, "rget")
  BY <1>1, OutcomeFacts DEF Counted, ScaleTypeOK, RestoreGet
<1>3. CASE Return(n)
  BY <1>2, <1>3, ReturnEffect
<1>4. CASE Read(n, c) /\ dep.baseline # NoCount
  <2>1. c \in CallState /\ c.pc = "rscale" /\ c.desired = dep.baseline
    BY <1>4 DEF ScaleTypeOK, CallState, DeploymentState, Labels, RestoreLabels, Idle
  <2> HIDE DEF c
  <2>2. Moved(n, c, dep) /\ UNCHANGED <<lately, overlap>>
    BY <1>4, <2>1, ProceedMoves DEF Read, ScaleTypeOK
  <2> QED
    BY <1>2, <1>4, <2>1, <2>2
<1> QED
  BY <1>1, <1>3, <1>4

LEMMA RestoreGetScaleEffect ==
  ASSUME ScaleTypeOK, NEW n \in Nodes, RestoreGetScale(n)
  PROVE  /\ At(n, "rscale") /\ Counted /\ UNCHANGED <<lately, overlap>>
         /\ \/ Ended(n)
            \/ \E c \in CallState :
                 /\ Moved(n, c, dep) /\ c.desired = ctl[n].desired
                 /\ \/ c.pc = "rclear" /\ dep.replicas = ctl[n].desired
                    \/ c.pc = "rpatch"
<1> DEFINE l == IF dep.replicas = ctl[n].desired THEN "rclear" ELSE "rpatch"
           c == [ctl[n] EXCEPT !.fresh = TRUE, !.pc = l]
<1>1. PICK ok \in BOOLEAN : Outcome(ok) /\ IF ok THEN Read(n, c) ELSE Return(n)
  BY DEF RestoreGetScale
<1>2. Counted /\ At(n, "rscale")
  BY <1>1, OutcomeFacts DEF Counted, ScaleTypeOK, RestoreGetScale
<1>3. l \in Labels /\ ((l = "rclear" /\ dep.replicas = ctl[n].desired) \/ l = "rpatch")
  BY DEF Labels, RestoreLabels
<1> HIDE DEF l
<1>4. c \in CallState /\ c.pc = l /\ c.desired = ctl[n].desired
  BY <1>3 DEF ScaleTypeOK, CallState
<1> HIDE DEF c
<1>5. CASE ok
  <2>1. Moved(n, c, dep) /\ UNCHANGED <<lately, overlap>>
    BY <1>1, <1>4, <1>5, ProceedMoves DEF Read, ScaleTypeOK
  <2> QED
    BY <1>2, <1>3, <1>4, <2>1
<1>6. CASE ~ok
  BY <1>1, <1>2, <1>6, ReturnEffect
<1> QED
  BY <1>5, <1>6

LEMMA RestorePatchEffect ==
  ASSUME ScaleTypeOK, NEW n \in Nodes, RestorePatch(n)
  PROVE  /\ At(n, "rpatch") /\ Counted /\ UNCHANGED <<lately, overlap>>
         /\ \E c \in CallState, d \in DeploymentState :
              /\ Moved(n, c, d)
              /\ d.baseline = dep.baseline /\ d.stamp = dep.stamp
              /\ \/ /\ c.pc = "rclear" /\ c.desired = ctl[n].desired
                    /\ d.replicas = ctl[n].desired
                 \/ c.pc = "idle" /\ (d = dep \/ d.replicas = ctl[n].desired)
<1> DEFINE e == [dep EXCEPT !.replicas = ctl[n].desired]
           r == [ctl[n] EXCEPT !.pc = "rclear"]
<1>1. PICK ok \in BOOLEAN :
         /\ Outcome(ok)
         /\ \E d \in IF ctl[n].fresh THEN Patched(ok, e) ELSE {dep} :
              Proceed(n, IF ok /\ ctl[n].fresh THEN r ELSE Idle, d)
  BY DEF RestorePatch
<1>2. PICK d \in IF ctl[n].fresh THEN Patched(ok, e) ELSE {dep} :
         Proceed(n, IF ok /\ ctl[n].fresh THEN r ELSE Idle, d)
  BY <1>1
<1>3. Counted /\ At(n, "rpatch") /\ UNCHANGED <<lately, overlap>>
  BY <1>1, OutcomeFacts DEF Counted, ScaleTypeOK, RestorePatch
<1>4. /\ e \in DeploymentState /\ e.replicas = ctl[n].desired
      /\ e.baseline = dep.baseline /\ e.stamp = dep.stamp
  <2>1. ctl[n].desired \in Nat /\ dep \in DeploymentState
    BY DEF ScaleTypeOK, CallState
  <2> QED
    BY <2>1, PatchedDeployment
<1>5. r \in CallState /\ r.pc = "rclear" /\ r.desired = ctl[n].desired
  BY LabelFields DEF ScaleTypeOK, Labels, RestoreLabels
<1> HIDE DEF e, r
<1>6. CASE ok /\ ctl[n].fresh
  <2>1. d = e /\ Moved(n, r, d)
    BY <1>2, <1>5, <1>6, ProceedMoves DEF Patched, ScaleTypeOK
  <2> QED
    BY <1>3, <1>4, <1>5, <2>1
<1>7. CASE ~(ok /\ ctl[n].fresh)
  <2>1. d \in {dep, e} /\ Moved(n, Idle, d)
    BY <1>2, <1>7, IdleFields, ProceedMoves DEF Patched, ScaleTypeOK
  <2> QED
    BY <1>3, <1>4, <2>1, IdleFields DEF ScaleTypeOK
<1> QED
  BY <1>6, <1>7

LEMMA RestoreClearEffect ==
  ASSUME ScaleTypeOK, NEW n \in Nodes, RestoreClear(n)
  PROVE  /\ At(n, "rclear") /\ Counted /\ lately' = {} /\ UNCHANGED overlap
         /\ \E c \in CallState, d \in DeploymentState :
              /\ Moved(n, c, d) /\ c.pc = "idle" /\ d.replicas = dep.replicas
              /\ d.baseline \in {NoCount, dep.baseline}
<1> DEFINE e == [dep EXCEPT !.baseline = NoCount, !.stamp = "none"]
<1>1. PICK ok \in BOOLEAN : Outcome(ok) /\ \E d \in Patched(ok, e) : Proceed(n, Idle, d)
  BY DEF RestoreClear
<1>2. PICK d \in Patched(ok, e) : Proceed(n, Idle, d)
  BY <1>1
<1>3. Counted /\ At(n, "rclear") /\ lately' = {} /\ UNCHANGED overlap
  BY <1>1, OutcomeFacts DEF Counted, ScaleTypeOK, RestoreClear
<1>4. e \in DeploymentState /\ e.replicas = dep.replicas /\ e.baseline = NoCount
  BY PatchedDeployment DEF ScaleTypeOK
<1> HIDE DEF e
<1>5. d \in {dep, e} /\ Moved(n, Idle, d)
  BY <1>2, IdleFields, ProceedMoves DEF Patched, ScaleTypeOK
<1> QED
  BY <1>3, <1>4, <1>5, IdleFields DEF ScaleTypeOK

\* A controller that dies leaves no call; that is one of the faults.
LEMMA DiedEffect ==
  ASSUME ScaleTypeOK, NEW n \in Nodes, Died(n)
  PROVE  /\ Ended(n) /\ UNCHANGED <<lately, overlap>>
         /\ faults' \in Nat /\ faults' # 0
<1>1. faults' \in Nat /\ faults' # 0
  BY DEF Died, Outcome, ScaleTypeOK
<1>2. Moved(n, Idle, dep)
  BY IdleFields DEF Died, Moved, ScaleTypeOK
<1> QED
  BY <1>1, <1>2, IdleFields DEF Ended, Died

\* Nobody's call goes on, and the Deployment becomes d.
Elsewhere(d) ==
  /\ dep' = d
  /\ ctl' \in [Nodes -> CallState]
  /\ \A k \in Nodes :
       /\ ctl'[k].pc = ctl[k].pc /\ ctl'[k].call = ctl[k].call
       /\ ctl'[k].current = ctl[k].current /\ ctl'[k].desired = ctl[k].desired
       /\ ctl'[k].fresh => d.replicas = dep.replicas /\ ctl[k].fresh

LEMMA EnvironmentEffect ==
  ASSUME ScaleTypeOK, Environment
  PROVE  /\ UNCHANGED <<faults, overlap>>
         /\ \E d \in DeploymentState :
              /\ Elsewhere(d) /\ d.baseline = dep.baseline
              /\ d.replicas \in {Original, dep.replicas}
              /\ lately' = {} \/ (lately' = lately /\ d.stamp = dep.stamp)
<1>1. CASE CooldownEnds
  <2> DEFINE e == [dep EXCEPT !.stamp = "old"]
  <2>1. /\ e \in DeploymentState /\ e.replicas = dep.replicas
        /\ e.baseline = dep.baseline
    BY PatchedDeployment DEF ScaleTypeOK
  <2>2. dep' = e /\ lately' = {} /\ UNCHANGED <<ctl, faults, overlap>>
    BY <1>1 DEF CooldownEnds
  <2> HIDE DEF e
  <2>3. Elsewhere(e)
    BY <2>1, <2>2 DEF Elsewhere, ScaleTypeOK
  <2> QED
    BY <2>1, <2>2, <2>3
<1>2. ASSUME NEW d \in DeploymentState, Written(d)
      PROVE  Elsewhere(d) /\ UNCHANGED <<faults, overlap>>
  <2> DEFINE Stale(k) == [ctl[k] EXCEPT !.fresh = FALSE]
  <2>1. \A k \in Nodes : ctl[k] \in CallState
    BY DEF ScaleTypeOK
  <2>2. \A k \in Nodes :
          /\ Stale(k) \in CallState /\ Stale(k).pc = ctl[k].pc
          /\ Stale(k).call = ctl[k].call /\ Stale(k).current = ctl[k].current
          /\ Stale(k).desired = ctl[k].desired /\ Stale(k).fresh = FALSE
    BY <2>1, StaleFields
  <2>3. dep' = d /\ ctl' = [k \in Nodes |-> Stale(k)] /\ UNCHANGED <<faults, overlap>>
    BY <1>2 DEF Written
  <2> HIDE DEF Stale
  <2>4. ctl' \in [Nodes -> CallState] /\ \A k \in Nodes : ctl'[k] = Stale(k)
    BY <2>2, <2>3
  <2> QED
    BY <2>2, <2>3, <2>4 DEF Elsewhere
<1>3. CASE StatusUpdate
  BY <1>2, <1>3 DEF StatusUpdate, ScaleTypeOK
<1>4. CASE HarnessReset
  <2> DEFINE e == [dep EXCEPT !.replicas = Original]
  <2>1. /\ e \in DeploymentState /\ e.replicas = Original
        /\ e.baseline = dep.baseline /\ e.stamp = dep.stamp
    BY PatchedDeployment, CountsAssumption DEF ScaleTypeOK
  <2>2. Written(e) /\ UNCHANGED lately
    BY <1>4 DEF HarnessReset
  <2> HIDE DEF e
  <2> QED
    BY <1>2, <2>1, <2>2
<1> QED
  BY <1>1, <1>3, <1>4 DEF Environment

-----------------------------------------------------------------------------
(***************************************************************************)
(* Type correctness.                                                       *)
(***************************************************************************)
LEMMA MovedTypeOK ==
  ASSUME ScaleTypeOK, NEW n \in Nodes, NEW c \in CallState, NEW d \in DeploymentState,
         Moved(n, c, d), Counted, lately' \subseteq Nodes,
         c.pc \in ApplyLabels \ {"stamp"} => c.call \in Calls
  PROVE  ScaleTypeOK'
<1>1. ASSUME NEW k \in Nodes, ctl'[k].pc \in ApplyLabels \ {"stamp"}
      PROVE  ctl'[k].call \in Calls
  BY <1>1 DEF Moved, ScaleTypeOK
<1> QED
  BY <1>1 DEF Moved, Counted, ScaleTypeOK

LEMMA EndedTypeOK ==
  ASSUME ScaleTypeOK, NEW n \in Nodes, Ended(n), faults' \in Nat, lately' = lately
  PROVE  ScaleTypeOK'
<1>1. PICK c \in CallState : Moved(n, c, dep) /\ c.pc = "idle"
  BY DEF Ended
<1>2. ASSUME NEW k \in Nodes, ctl'[k].pc \in ApplyLabels \ {"stamp"}
      PROVE  ctl'[k].call \in Calls
  BY <1>1, <1>2 DEF Moved, ScaleTypeOK, ApplyLabels
<1> QED
  BY <1>1, <1>2 DEF Moved, ScaleTypeOK

LEMMA CallTypeOK ==
  ASSUME ScaleTypeOK, NEW n \in Nodes
  PROVE  /\ \A call \in Calls : CallApply(n, call) => ScaleTypeOK'
         /\ CallRestore(n) => ScaleTypeOK'
<1>0. dep \in DeploymentState /\ lately \subseteq Nodes /\ faults \in Nat
  BY DEF ScaleTypeOK
<1>1. ASSUME NEW call \in Calls, CallApply(n, call) PROVE ScaleTypeOK'
  <2>1. PICK c \in CallState :
          Moved(n, c, dep) /\ c.call = call /\ UNCHANGED <<faults, lately>>
    BY <1>1, CallApplyEffect
  <2> QED
    BY <1>0, <2>1, MovedTypeOK DEF Counted
<1>2. ASSUME CallRestore(n) PROVE ScaleTypeOK'
  <2>1. PICK c \in CallState :
          Moved(n, c, dep) /\ c.pc = "rget" /\ UNCHANGED <<faults, lately>>
    BY <1>2, CallRestoreEffect
  <2> QED
    BY <1>0, <2>1, MovedTypeOK DEF Counted, ApplyLabels
<1> QED
  BY <1>1, <1>2

LEMMA ApplyTypeOK ==
  ASSUME ScaleTypeOK, NEW n \in Nodes, Apply(n)
  PROVE  ScaleTypeOK'
<1>0. dep \in DeploymentState /\ lately \subseteq Nodes /\ faults \in Nat
  BY DEF ScaleTypeOK
<1>1. \A label \in ApplyLabels \ {"stamp"} : At(n, label) => ctl[n].call \in Calls
  BY DEF ScaleTypeOK, At
<1>2. CASE GetScale(n)
  <2>1. At(n, "get") /\ Counted /\ lately' = lately
    BY <1>2, GetScaleEffect
  <2>2. CASE Ended(n)
    BY <2>1, <2>2, EndedTypeOK DEF Counted
  <2>3. ASSUME NEW c \in CallState, Moved(n, c, dep), c.call = ctl[n].call
        PROVE  ScaleTypeOK'
    BY <1>0, <1>1, <2>1, <2>3, MovedTypeOK DEF ApplyLabels
  <2> QED
    BY <1>2, <2>2, <2>3, GetScaleEffect
<1>3. CASE CheckCooldown(n)
  <2>1. At(n, "gate") /\ Counted /\ lately' = lately
    BY <1>3, CheckCooldownEffect
  <2>2. CASE Ended(n)
    BY <2>1, <2>2, EndedTypeOK DEF Counted
  <2>3. ASSUME NEW c \in CallState, Moved(n, c, dep), c.call = ctl[n].call
        PROVE  ScaleTypeOK'
    BY <1>0, <1>1, <2>1, <2>3, MovedTypeOK DEF ApplyLabels
  <2> QED
    BY <1>3, <2>2, <2>3, CheckCooldownEffect
<1>4. CASE GetBaseline(n)
  <2>1. PICK c \in CallState : Moved(n, c, dep) /\ c.call = ctl[n].call
    BY <1>4, GetBaselineEffect
  <2>2. At(n, "baseline") /\ Counted /\ lately' = lately
    BY <1>4, GetBaselineEffect
  <2> QED
    BY <1>0, <1>1, <2>1, <2>2, MovedTypeOK DEF ApplyLabels
<1>5. CASE AnnotateBaseline(n)
  <2>1. PICK c \in CallState, d \in DeploymentState :
          Moved(n, c, d) /\ c.call = ctl[n].call
    BY <1>5, AnnotateEffect
  <2>2. At(n, "annotate") /\ Counted /\ lately' = lately
    BY <1>5, AnnotateEffect
  <2> QED
    BY <1>0, <1>1, <2>1, <2>2, MovedTypeOK DEF ApplyLabels
<1>6. CASE PatchScale(n)
  <2>1. PICK c \in CallState, d \in DeploymentState :
          /\ Moved(n, c, d)
          /\ c.pc \in {"stamp", "idle"} \/ (c.pc = "refetch" /\ c.call = ctl[n].call)
          /\ lately' \in {lately, lately \cup {n}}
    BY <1>6, PatchScaleEffect
  <2>2. (At(n, "patch") \/ At(n, "retry")) /\ Counted
    BY <1>6, PatchScaleEffect
  <2> QED
    BY <1>0, <1>1, <2>1, <2>2, MovedTypeOK DEF ApplyLabels
<1>7. CASE Refetch(n)
  <2>1. At(n, "refetch") /\ Counted /\ lately' = lately
    BY <1>7, RefetchEffect
  <2>2. CASE Ended(n)
    BY <2>1, <2>2, EndedTypeOK DEF Counted
  <2>3. ASSUME NEW c \in CallState, Moved(n, c, dep), c.call = ctl[n].call
        PROVE  ScaleTypeOK'
    BY <1>0, <1>1, <2>1, <2>3, MovedTypeOK DEF ApplyLabels
  <2> QED
    BY <1>7, <2>2, <2>3, RefetchEffect
<1>8. CASE StampLastScaledAt(n)
  <2>1. PICK c \in CallState, d \in DeploymentState : Moved(n, c, d) /\ c.pc = "idle"
    BY <1>8, StampEffect
  <2>2. Counted /\ lately' = lately
    BY <1>8, StampEffect
  <2> QED
    BY <1>0, <2>1, <2>2, MovedTypeOK DEF ApplyLabels
<1> QED
  BY <1>2, <1>3, <1>4, <1>5, <1>6, <1>7, <1>8 DEF Apply

LEMMA RestoreTypeOK ==
  ASSUME ScaleTypeOK, NEW n \in Nodes, Restore(n)
  PROVE  ScaleTypeOK'
<1>0. dep \in DeploymentState /\ lately \subseteq Nodes
  BY DEF ScaleTypeOK
<1>1. ASSUME NEW c \in CallState, NEW d \in DeploymentState, Moved(n, c, d), Counted,
             c.pc \in RestoreLabels \cup {"idle"}, lately' \in {lately, {}}
      PROVE  ScaleTypeOK'
  <2>1. c.pc \notin ApplyLabels
    BY <1>1 DEF ApplyLabels, RestoreLabels
  <2> QED
    BY <1>0, <1>1, <2>1, MovedTypeOK
<1>2. CASE RestoreGet(n)
  <2>1. Counted /\ lately' = lately
    BY <1>2, RestoreGetEffect
  <2>2. Ended(n) \/ \E c \in CallState : Moved(n, c, dep) /\ c.pc = "rscale"
    BY <1>2, RestoreGetEffect
  <2> QED
    BY <1>0, <1>1, <2>1, <2>2 DEF Ended, RestoreLabels
<1>3. CASE RestoreGetScale(n)
  <2>1. Counted /\ lately' = lately
    BY <1>3, RestoreGetScaleEffect
  <2>2. \/ Ended(n)
        \/ \E c \in CallState : Moved(n, c, dep) /\ c.pc \in {"rclear", "rpatch"}
    BY <1>3, RestoreGetScaleEffect
  <2> QED
    BY <1>0, <1>1, <2>1, <2>2 DEF Ended, RestoreLabels
<1>4. CASE RestorePatch(n)
  <2>1. Counted /\ lately' = lately
    BY <1>4, RestorePatchEffect
  <2>2. PICK c \in CallState, d \in DeploymentState :
          Moved(n, c, d) /\ c.pc \in {"rclear", "idle"}
    BY <1>4, RestorePatchEffect
  <2> QED
    BY <1>1, <2>1, <2>2 DEF RestoreLabels
<1>5. CASE RestoreClear(n)
  <2>1. Counted /\ lately' = {}
    BY <1>5, RestoreClearEffect
  <2>2. PICK c \in CallState, d \in DeploymentState : Moved(n, c, d) /\ c.pc = "idle"
    BY <1>5, RestoreClearEffect
  <2> QED
    BY <1>1, <2>1, <2>2
<1> QED
  BY <1>2, <1>3, <1>4, <1>5 DEF Restore

LEMMA EnvironmentTypeOK ==
  ASSUME ScaleTypeOK, Environment
  PROVE  ScaleTypeOK'
<1>1. PICK d \in DeploymentState : Elsewhere(d) /\ lately' \in {{}, lately}
  BY EnvironmentEffect
<1>2. faults' = faults
  BY EnvironmentEffect
<1>3. ASSUME NEW k \in Nodes, ctl'[k].pc \in ApplyLabels \ {"stamp"}
      PROVE  ctl'[k].call \in Calls
  BY <1>1, <1>3 DEF Elsewhere, ScaleTypeOK
<1> QED
  BY <1>1, <1>2, <1>3 DEF Elsewhere, ScaleTypeOK

LEMMA ScaleTypeStep ==
  ASSUME ScaleTypeOK, [ActuatorNext]_deployment
  PROVE  ScaleTypeOK'
<1>1. CASE UNCHANGED deployment
  BY <1>1 DEF ScaleTypeOK, deployment
<1>2. ASSUME NEW n \in Nodes, Died(n) PROVE ScaleTypeOK'
  BY <1>2, DiedEffect, EndedTypeOK
<1> QED
  BY <1>1, <1>2, CallTypeOK, ApplyTypeOK, RestoreTypeOK, EnvironmentTypeOK
  DEF ActuatorNext, CallStep

LEMMA ScaleTypeInit == Init => ScaleTypeOK
<1> SUFFICES ASSUME Init PROVE ScaleTypeOK
  OBVIOUS
<1>1. \A n \in Nodes : ctl[n].pc \notin ApplyLabels
  BY IdleFields DEF Init, ApplyLabels
<1> QED
  BY <1>1, IdleFields, CountsAssumption DEF Init, ScaleTypeOK, DeploymentState

-----------------------------------------------------------------------------
(***************************************************************************)
(* A step of the tick loops is a step of the actuator: the calls Eq. (1)   *)
(* and the rules make are among Calls.                                     *)
(***************************************************************************)
LEMMA TickIsActuator ==
  ASSUME mode \in Modes, [TickNext]_tickVars
  PROVE  [ActuatorNext]_deployment /\ mode' \in Modes
<1>1. CASE UNCHANGED tickVars
  BY <1>1 DEF tickVars, deployment
<1>2. ASSUME NEW n \in Nodes, NEW level \in Levels, NEW sync \in BOOLEAN,
             Tick(n, level, sync)
      PROVE  [ActuatorNext]_deployment /\ mode' \in Modes
  <2> DEFINE f == IF sync THEN SyncN(fstate[n]) ELSE fstate[n]
             g == [f EXCEPT !.upRun = Count(@, UpWindows, level = "up"),
                            !.downRun = Count(@, DownWindows, level = "down")]
             u == Decision(g)
  <2>1. /\ mode = "formula" /\ UNCHANGED mode
        /\ IF u = 0 THEN UNCHANGED deployment ELSE CallApply(n, Step(u))
    BY <1>2 DEF Tick
  <2>2. u \in {-1, 0, 1}
    BY DEF Decision
  <2> HIDE DEF u
  <2>3. u # 0 => Step(u) \in Calls
    BY <2>1, <2>2, LawAssumption
  <2> QED
    BY <2>1, <2>3 DEF ActuatorNext
<1>3. ASSUME NEW n \in Nodes, RuleTick(n)
      PROVE  [ActuatorNext]_deployment /\ mode' \in Modes
  <2>1. UNCHANGED law /\ ((\E call \in Calls : CallApply(n, call)) \/ CallRestore(n))
    BY <1>3, LawAssumption DEF RuleTick
  <2> QED
    BY <2>1 DEF ActuatorNext, law
<1>4. ASSUME NEW n \in Nodes, CallStep(n) /\ UNCHANGED law
      PROVE  [ActuatorNext]_deployment /\ mode' \in Modes
  BY <1>4 DEF ActuatorNext, law
<1>5. ASSUME NEW n \in Nodes, Crash(n)
      PROVE  [ActuatorNext]_deployment /\ mode' \in Modes
  BY <1>5 DEF Crash, Died, ActuatorNext
<1>6. CASE Environment /\ UNCHANGED law
  BY <1>6 DEF ActuatorNext, law
<1> QED
  BY <1>1, <1>2, <1>3, <1>4, <1>5, <1>6 DEF TickNext

-----------------------------------------------------------------------------
(***************************************************************************)
(* The baseline.                                                           *)
(***************************************************************************)
\* Nothing has failed, and no Restore ran beside another call.
Clean == faults = 0 /\ ~overlap

\* A node that read a Deployment without a baseline read the count of the
\* manifest; one that is about to scale has a baseline on record; and one that
\* restores goes back to the count of the manifest, alone.
BaselineInv ==
  Clean =>
    /\ dep.baseline \in {NoCount, Original}
    /\ dep.replicas # Original => dep.baseline # NoCount
    /\ \A n, k \in Nodes : ctl[n].pc \in RestoreLabels /\ k # n => At(k, "idle")
    /\ \A n \in Nodes :
         /\ ctl[n].pc \in {"gate", "baseline"} /\ dep.baseline = NoCount
              => ctl[n].current = Original
         /\ At(n, "annotate") => ctl[n].current = Original
         /\ ctl[n].pc \in {"patch", "refetch", "retry"} => dep.baseline # NoCount
         /\ ctl[n].pc \in {"rscale", "rpatch", "rclear"} => ctl[n].desired = Original
         /\ At(n, "rclear") => dep.replicas = Original

\* A step of node n keeps the invariant when the Deployment it leaves, and what
\* n then knows, satisfy it, and it drops no baseline another node relies on.
LEMMA BaselineMoves ==
  ASSUME ScaleTypeOK, BaselineInv,
         NEW n \in Nodes, NEW c \in CallState, NEW d, Moved(n, c, d),
         Clean' =>
           /\ Clean
           /\ At(n, "idle") => \A k \in Nodes \ {n} : ctl[k].pc \notin RestoreLabels
           /\ c.pc \in RestoreLabels => \A k \in Nodes \ {n} : At(k, "idle")
           /\ d.baseline \in {NoCount, Original}
           /\ d.replicas # Original => d.baseline # NoCount
           /\ ctl[n].pc \in RestoreLabels \/ (d.baseline = NoCount => dep.baseline = NoCount)
           /\ c.pc \in {"gate", "baseline"} /\ d.baseline = NoCount => c.current = Original
           /\ c.pc = "annotate" => c.current = Original
           /\ c.pc \in {"patch", "refetch", "retry"} => d.baseline # NoCount
           /\ c.pc \in {"rscale", "rpatch", "rclear"} => c.desired = Original
           /\ c.pc = "rclear" => d.replicas = Original
  PROVE  BaselineInv'
<1> SUFFICES ASSUME Clean' PROVE BaselineInv'
  BY DEF BaselineInv
<1>1. /\ dep' = d
      /\ ctl'[n].pc = c.pc /\ ctl'[n].current = c.current /\ ctl'[n].desired = c.desired
      /\ \A k \in Nodes \ {n} : /\ ctl'[k].pc = ctl[k].pc
                                /\ ctl'[k].current = ctl[k].current
                                /\ ctl'[k].desired = ctl[k].desired
  BY DEF Moved
<1>2. \A k \in Nodes \ {n} : ctl[k].pc \notin RestoreLabels \/ At(n, "idle")
  BY DEF BaselineInv
<1>3. \A k \in Nodes \ {n} : ctl[k].pc \notin RestoreLabels
  BY <1>2
<1>4. ctl[n].pc \in RestoreLabels => \A k \in Nodes \ {n} : At(k, "idle")
  BY DEF BaselineInv
<1>5. ASSUME NEW k \in Nodes
      PROVE  /\ ctl'[k].pc \in {"gate", "baseline"} /\ dep'.baseline = NoCount
                  => ctl'[k].current = Original
             /\ ctl'[k].pc = "annotate" => ctl'[k].current = Original
             /\ ctl'[k].pc \in {"patch", "refetch", "retry"} => dep'.baseline # NoCount
             /\ ctl'[k].pc \in {"rscale", "rpatch", "rclear"} => ctl'[k].desired = Original
             /\ ctl'[k].pc = "rclear" => dep'.replicas = Original
  <2>1. CASE k = n
    BY <1>1, <2>1
  <2>2. CASE k # n
    <3>1. ctl'[k].pc = ctl[k].pc /\ ctl'[k].current = ctl[k].current
      BY <1>1, <2>2
    <3>2. ctl[k].pc \notin RestoreLabels
      BY <1>3, <2>2
    <3>3. ctl[k].pc = "idle" \/ (d.baseline = NoCount => dep.baseline = NoCount)
      BY <1>4, <2>2 DEF At
    <3>4. /\ ctl[k].pc \in {"gate", "baseline"} /\ dep.baseline = NoCount
               => ctl[k].current = Original
          /\ ctl[k].pc = "annotate" => ctl[k].current = Original
          /\ ctl[k].pc \in {"patch", "refetch", "retry"} => dep.baseline # NoCount
      BY DEF BaselineInv, At
    <3> QED
      BY <1>1, <3>1, <3>2, <3>3, <3>4 DEF RestoreLabels
  <2> QED
    BY <2>1, <2>2
<1>6. \A m, k \in Nodes : ctl'[m].pc \in RestoreLabels /\ k # m => ctl'[k].pc = "idle"
  BY <1>1, <1>3 DEF At
<1>7. /\ dep'.baseline \in {NoCount, Original}
      /\ dep'.replicas # Original => dep'.baseline # NoCount
  BY <1>1
<1> QED
  BY <1>5, <1>6, <1>7 DEF BaselineInv, At

LEMMA BaselineEnds ==
  ASSUME ScaleTypeOK, BaselineInv, NEW n \in Nodes, Ended(n),
         Clean' => Clean /\ ~At(n, "idle")
  PROVE  BaselineInv'
<1>1. PICK c \in CallState : Moved(n, c, dep) /\ c.pc = "idle"
  BY DEF Ended
<1>2. Clean => /\ dep.baseline \in {NoCount, Original}
               /\ dep.replicas # Original => dep.baseline # NoCount
  BY DEF BaselineInv
<1> QED
  BY <1>1, <1>2, BaselineMoves DEF RestoreLabels

LEMMA CallKeepsBaseline ==
  ASSUME ScaleTypeOK, BaselineInv, NEW n \in Nodes
  PROVE  /\ \A call \in Calls : CallApply(n, call) => BaselineInv'
         /\ CallRestore(n) => BaselineInv'
<1>0. Clean => /\ dep.baseline \in {NoCount, Original}
               /\ dep.replicas # Original => dep.baseline # NoCount
  BY DEF BaselineInv
<1>1. ASSUME NEW call \in Calls, CallApply(n, call) PROVE BaselineInv'
  <2>1. PICK c \in CallState :
          /\ Moved(n, c, dep) /\ c.pc = "get" /\ faults' = faults
          /\ ~overlap' => ~overlap /\ \A k \in Nodes : ctl[k].pc \notin RestoreLabels
    BY <1>1, CallApplyEffect
  <2> QED
    BY <1>0, <2>1, BaselineMoves DEF Clean, RestoreLabels
<1>2. ASSUME CallRestore(n) PROVE BaselineInv'
  <2>1. PICK c \in CallState :
          /\ Moved(n, c, dep) /\ c.pc = "rget" /\ faults' = faults
          /\ ~overlap' => ~overlap /\ \A k \in Nodes \ {n} : At(k, "idle")
    BY <1>2, CallRestoreEffect
  <2>2. Clean' => Clean /\ \A k \in Nodes \ {n} : At(k, "idle")
    BY <2>1 DEF Clean
  <2>3. Clean' => \A k \in Nodes \ {n} : ctl[k].pc \notin RestoreLabels
    BY <2>2 DEF At, RestoreLabels
  <2> QED
    BY <1>0, <2>1, <2>2, <2>3, BaselineMoves
<1> QED
  BY <1>1, <1>2

LEMMA ApplyKeepsBaseline ==
  ASSUME ScaleTypeOK, BaselineInv, NEW n \in Nodes, Apply(n)
  PROVE  BaselineInv'
<1>0. Clean => /\ dep.baseline \in {NoCount, Original}
               /\ dep.replicas # Original => dep.baseline # NoCount
  BY DEF BaselineInv
<1>1. CASE GetScale(n)
  <2>1. At(n, "get") /\ Counted /\ overlap' = overlap
    BY <1>1, GetScaleEffect
  <2>2. ~At(n, "idle") /\ (Clean' => Clean)
    BY <2>1 DEF At, Clean, Counted
  <2>3. ASSUME NEW c \in CallState, Moved(n, c, dep), c.pc = "gate",
               c.current = dep.replicas
        PROVE  BaselineInv'
    BY <1>0, <2>2, <2>3, BaselineMoves DEF RestoreLabels
  <2> QED
    BY <1>1, <2>2, <2>3, BaselineEnds, GetScaleEffect
<1>2. CASE CheckCooldown(n)
  <2>1. At(n, "gate") /\ Counted /\ overlap' = overlap
    BY <1>2, CheckCooldownEffect
  <2>2. ~At(n, "idle") /\ (Clean' => Clean)
    BY <2>1 DEF At, Clean, Counted
  <2>3. ASSUME NEW c \in CallState, Moved(n, c, dep), c.pc = "baseline",
               c.current = ctl[n].current
        PROVE  BaselineInv'
    <3>1. Clean' => (dep.baseline = NoCount => c.current = Original)
      BY <2>1, <2>2, <2>3 DEF BaselineInv, At
    <3> QED
      BY <1>0, <2>2, <2>3, <3>1, BaselineMoves DEF RestoreLabels
  <2> QED
    BY <1>2, <2>2, <2>3, BaselineEnds, CheckCooldownEffect
<1>3. CASE GetBaseline(n)
  <2>1. At(n, "baseline") /\ Counted /\ overlap' = overlap
    BY <1>3, GetBaselineEffect
  <2>2. ~At(n, "idle") /\ (Clean' => Clean /\ faults' = 0)
    BY <2>1 DEF At, Clean, Counted
  <2>3. PICK c \in CallState :
          /\ Moved(n, c, dep)
          /\ \/ /\ c.pc = "annotate" /\ c.current = ctl[n].current
                /\ dep.baseline = NoCount
             \/ c.pc = "patch" /\ (faults' = 0 => dep.baseline # NoCount)
    BY <1>3, GetBaselineEffect
  <2>4. Clean' /\ c.pc = "annotate" => c.current = Original
    BY <2>1, <2>2, <2>3 DEF BaselineInv, At
  <2> QED
    BY <1>0, <2>2, <2>3, <2>4, BaselineMoves DEF RestoreLabels
<1>4. CASE AnnotateBaseline(n)
  <2>1. At(n, "annotate") /\ Counted /\ overlap' = overlap
    BY <1>4, AnnotateEffect
  <2>2. ~At(n, "idle") /\ (Clean' => Clean /\ faults' = 0)
    BY <2>1 DEF At, Clean, Counted
  <2>3. PICK c \in CallState, d \in DeploymentState :
          /\ Moved(n, c, d) /\ c.pc = "patch"
          /\ faults' = 0 => d.baseline = ctl[n].current
    BY <1>4, AnnotateEffect
  <2>4. Clean' => d.baseline = Original
    BY <2>1, <2>2, <2>3 DEF BaselineInv
  <2>5. NoCount # Original
    BY NoneAssumption, CountsAssumption
  <2> QED
    BY <1>0, <2>2, <2>3, <2>4, <2>5, BaselineMoves DEF RestoreLabels
<1>5. CASE PatchScale(n)
  <2>1. (At(n, "patch") \/ At(n, "retry")) /\ Counted /\ overlap' = overlap
    BY <1>5, PatchScaleEffect
  <2>2. ~At(n, "idle") /\ (Clean' => Clean)
    BY <2>1 DEF At, Clean, Counted
  <2>3. PICK c \in CallState, d \in DeploymentState :
          /\ Moved(n, c, d) /\ c.pc \in {"stamp", "idle", "refetch"}
          /\ d.baseline = dep.baseline
    BY <1>5, PatchScaleEffect
  <2>4. Clean' => dep.baseline # NoCount
    BY <2>1, <2>2 DEF BaselineInv, At
  <2> QED
    BY <1>0, <2>2, <2>3, <2>4, BaselineMoves DEF RestoreLabels
<1>6. CASE Refetch(n)
  <2>1. At(n, "refetch") /\ Counted /\ overlap' = overlap
    BY <1>6, RefetchEffect
  <2>2. ~At(n, "idle") /\ (Clean' => Clean)
    BY <2>1 DEF At, Clean, Counted
  <2>3. Clean' => dep.baseline # NoCount
    BY <2>1, <2>2 DEF BaselineInv, At
  <2>4. ASSUME NEW c \in CallState, Moved(n, c, dep), c.pc = "retry"
        PROVE  BaselineInv'
    BY <1>0, <2>2, <2>3, <2>4, BaselineMoves DEF RestoreLabels
  <2> QED
    BY <1>6, <2>2, <2>4, BaselineEnds, RefetchEffect
<1>7. CASE StampLastScaledAt(n)
  <2>1. At(n, "stamp") /\ Counted /\ overlap' = overlap
    BY <1>7, StampEffect
  <2>2. ~At(n, "idle") /\ (Clean' => Clean)
    BY <2>1 DEF At, Clean, Counted
  <2>3. PICK c \in CallState, d \in DeploymentState :
          /\ Moved(n, c, d) /\ c.pc = "idle"
          /\ d.replicas = dep.replicas /\ d.baseline = dep.baseline
    BY <1>7, StampEffect
  <2> QED
    BY <1>0, <2>2, <2>3, BaselineMoves DEF RestoreLabels
<1> QED
  BY <1>1, <1>2, <1>3, <1>4, <1>5, <1>6, <1>7 DEF Apply

LEMMA RestoreKeepsBaseline ==
  ASSUME ScaleTypeOK, BaselineInv, NEW n \in Nodes, Restore(n)
  PROVE  BaselineInv'
<1>0. Clean => /\ dep.baseline \in {NoCount, Original}
               /\ dep.replicas # Original => dep.baseline # NoCount
  BY DEF BaselineInv
<1>1. ASSUME NEW c \in CallState, NEW d, Moved(n, c, d),
             Counted, overlap' = overlap, ctl[n].pc \in RestoreLabels,
             c.pc \in RestoreLabels \cup {"idle"},
             Clean => /\ d.baseline \in {NoCount, Original}
                      /\ d.replicas # Original => d.baseline # NoCount
                      /\ c.pc \in {"rscale", "rpatch", "rclear"} => c.desired = Original
                      /\ c.pc = "rclear" => d.replicas = Original
      PROVE  BaselineInv'
  <2>1. ~At(n, "idle") /\ (Clean' => Clean)
    BY <1>1 DEF At, Clean, Counted, RestoreLabels
  <2>2. Clean => \A k \in Nodes \ {n} : At(k, "idle")
    BY <1>1 DEF BaselineInv
  <2>3. c.pc \notin {"gate", "baseline", "annotate", "patch", "refetch", "retry"}
    BY <1>1 DEF RestoreLabels
  <2> QED
    BY <1>1, <2>1, <2>2, <2>3, BaselineMoves
<1>2. CASE RestoreGet(n)
  <2>1. At(n, "rget") /\ Counted /\ overlap' = overlap
    BY <1>2, RestoreGetEffect
  <2>2. ASSUME NEW c \in CallState, Moved(n, c, dep), c.pc = "rscale",
               dep.baseline # NoCount, c.desired = dep.baseline
        PROVE  BaselineInv'
    BY <1>0, <1>1, <2>1, <2>2 DEF At, RestoreLabels
  <2>3. CASE Ended(n)
    BY <2>1, <2>3, BaselineEnds DEF At, Clean, Counted
  <2> QED
    BY <1>2, <2>2, <2>3, RestoreGetEffect
<1>3. CASE RestoreGetScale(n)
  <2>1. At(n, "rscale") /\ Counted /\ overlap' = overlap
    BY <1>3, RestoreGetScaleEffect
  <2>2. Clean => ctl[n].desired = Original
    BY <2>1 DEF BaselineInv, At
  <2>3. ASSUME NEW c \in CallState, Moved(n, c, dep), c.desired = ctl[n].desired,
               c.pc = "rpatch" \/ (c.pc = "rclear" /\ dep.replicas = ctl[n].desired)
        PROVE  BaselineInv'
    BY <1>0, <1>1, <2>1, <2>2, <2>3 DEF At, RestoreLabels
  <2>4. CASE Ended(n)
    BY <2>1, <2>4, BaselineEnds DEF At, Clean, Counted
  <2> QED
    BY <1>3, <2>3, <2>4, RestoreGetScaleEffect
<1>4. CASE RestorePatch(n)
  <2>1. At(n, "rpatch") /\ Counted /\ overlap' = overlap
    BY <1>4, RestorePatchEffect
  <2>2. Clean => ctl[n].desired = Original
    BY <2>1 DEF BaselineInv, At
  <2>3. PICK c \in CallState, d \in DeploymentState :
          /\ Moved(n, c, d) /\ d.baseline = dep.baseline
          /\ \/ /\ c.pc = "rclear" /\ c.desired = ctl[n].desired
                /\ d.replicas = ctl[n].desired
             \/ c.pc = "idle" /\ (d = dep \/ d.replicas = ctl[n].desired)
    BY <1>4, RestorePatchEffect
  <2> QED
    BY <1>0, <1>1, <2>1, <2>2, <2>3 DEF At, RestoreLabels
<1>5. CASE RestoreClear(n)
  <2>1. At(n, "rclear") /\ Counted /\ overlap' = overlap
    BY <1>5, RestoreClearEffect
  <2>2. Clean => dep.replicas = Original
    BY <2>1 DEF BaselineInv
  <2>3. PICK c \in CallState, d \in DeploymentState :
          /\ Moved(n, c, d) /\ c.pc = "idle" /\ d.replicas = dep.replicas
          /\ d.baseline \in {NoCount, dep.baseline}
    BY <1>5, RestoreClearEffect
  <2> QED
    BY <1>0, <1>1, <2>1, <2>2, <2>3 DEF At, RestoreLabels
<1> QED
  BY <1>2, <1>3, <1>4, <1>5 DEF Restore

LEMMA EnvironmentKeepsBaseline ==
  ASSUME ScaleTypeOK, BaselineInv, Environment
  PROVE  BaselineInv'
<1>1. PICK d \in DeploymentState :
        Elsewhere(d) /\ d.baseline = dep.baseline /\ d.replicas \in {Original, dep.replicas}
  BY EnvironmentEffect
<1>2. Clean' = Clean
  BY EnvironmentEffect DEF Clean
<1> SUFFICES ASSUME Clean' PROVE BaselineInv'
  BY DEF BaselineInv
<1>3. /\ dep'.baseline = dep.baseline /\ dep'.replicas \in {Original, dep.replicas}
      /\ \A k \in Nodes : /\ ctl'[k].pc = ctl[k].pc
                          /\ ctl'[k].current = ctl[k].current
                          /\ ctl'[k].desired = ctl[k].desired
  BY <1>1 DEF Elsewhere
<1> QED
  BY <1>2, <1>3 DEF BaselineInv, At

LEMMA BaselineStep ==
  ASSUME ScaleTypeOK, BaselineInv, [ActuatorNext]_deployment
  PROVE  BaselineInv'
<1>1. CASE UNCHANGED deployment
  BY <1>1 DEF BaselineInv, Clean, At, deployment
<1>2. ASSUME NEW n \in Nodes, Died(n) PROVE BaselineInv'
  BY <1>2, DiedEffect, BaselineEnds DEF Clean
<1> QED
  BY <1>1, <1>2, CallKeepsBaseline, ApplyKeepsBaseline, RestoreKeepsBaseline,
     EnvironmentKeepsBaseline
  DEF ActuatorNext, CallStep

LEMMA BaselineInit == Init => BaselineInv
<1> SUFFICES ASSUME Init PROVE BaselineInv
  OBVIOUS
<1>1. \A n \in Nodes : ctl[n].pc = "idle"
  BY IdleFields DEF Init
<1>2. dep.replicas = Original /\ dep.baseline = NoCount
  BY DEF Init
<1> QED
  BY <1>1, <1>2 DEF BaselineInv, At, RestoreLabels

-----------------------------------------------------------------------------
(***************************************************************************)
(* The floors.                                                             *)
(***************************************************************************)
\* A call whose resource version still counts has seen the replicas there are,
\* and an ensure_min asks for no fewer.
FloorInv ==
  \A n \in Nodes :
    ctl[n].fresh =>
      /\ At(n, "gate") => ctl[n].current = dep.replicas
      /\ ctl[n].pc \in {"baseline", "annotate", "patch", "retry"}
         /\ ctl[n].call.kind = "ensure_min"
           => dep.replicas <= ctl[n].desired

LEMMA FloorMoves ==
  ASSUME FloorInv, NEW n \in Nodes, NEW c \in CallState, NEW d, Moved(n, c, d),
         c.fresh /\ d = dep =>
           /\ c.pc = "gate" => c.current = dep.replicas
           /\ c.pc \in {"baseline", "annotate", "patch", "retry"}
              /\ c.call.kind = "ensure_min"
                => dep.replicas <= c.desired
  PROVE  FloorInv'
<1>1. ASSUME NEW k \in Nodes, ctl'[k].fresh
      PROVE  /\ ctl'[k].pc = "gate" => ctl'[k].current = dep'.replicas
             /\ ctl'[k].pc \in {"baseline", "annotate", "patch", "retry"}
                /\ ctl'[k].call.kind = "ensure_min"
                  => dep'.replicas <= ctl'[k].desired
  <2>1. dep' = dep /\ d = dep
    BY <1>1 DEF Moved
  <2>2. CASE k = n
    <3>1. /\ c.fresh /\ ctl'[k].pc = c.pc /\ ctl'[k].call = c.call
          /\ ctl'[k].current = c.current /\ ctl'[k].desired = c.desired
      BY <1>1, <2>2 DEF Moved
    <3> QED
      BY <2>1, <3>1
  <2>3. CASE k # n
    <3>1. /\ ctl[k].fresh /\ ctl'[k].pc = ctl[k].pc /\ ctl'[k].call = ctl[k].call
          /\ ctl'[k].current = ctl[k].current /\ ctl'[k].desired = ctl[k].desired
      BY <1>1, <2>3 DEF Moved
    <3> QED
      BY <2>1, <3>1 DEF FloorInv, At
  <2> QED
    BY <2>2, <2>3
<1> QED
  BY <1>1 DEF FloorInv, At

LEMMA FloorMovesOn ==
  ASSUME FloorInv, NEW n \in Nodes, NEW c \in CallState, NEW d, Moved(n, c, d),
         c.pc \notin {"gate", "baseline", "annotate", "patch", "retry"}
  PROVE  FloorInv'
BY FloorMoves

LEMMA FloorEnds ==
  ASSUME FloorInv, NEW n \in Nodes, Ended(n)
  PROVE  FloorInv'
BY FloorMovesOn DEF Ended

LEMMA ApplyKeepsFloor ==
  ASSUME FloorsFit, ScaleTypeOK, FloorInv, NEW n \in Nodes, Apply(n)
  PROVE  FloorInv'
<1>0. ctl[n].fresh =>
        /\ At(n, "gate") => ctl[n].current = dep.replicas
        /\ ctl[n].pc \in {"baseline", "annotate", "patch", "retry"}
           /\ ctl[n].call.kind = "ensure_min"
             => dep.replicas <= ctl[n].desired
  BY DEF FloorInv
<1>1. CASE GetScale(n)
  <2>1. ASSUME NEW c \in CallState, Moved(n, c, dep), c.pc = "gate",
               c.current = dep.replicas
        PROVE  FloorInv'
    BY <2>1, FloorMoves
  <2> QED
    BY <1>1, <2>1, FloorEnds, GetScaleEffect
<1>2. CASE CheckCooldown(n)
  <2>1. At(n, "gate")
    BY <1>2, CheckCooldownEffect
  <2>2. ctl[n].call \in Calls /\ ctl[n].current \in Nat
    BY <2>1 DEF ScaleTypeOK, CallState, At, ApplyLabels
  <2>3. ctl[n].call.kind = "ensure_min"
          => ctl[n].current <= Desired(ctl[n].call, ctl[n].current)
    BY <2>2, DesiredFacts
  <2>4. ASSUME NEW c \in CallState, Moved(n, c, dep), c.pc = "baseline",
               c.call = ctl[n].call, c.fresh = ctl[n].fresh,
               c.desired = Desired(ctl[n].call, ctl[n].current)
        PROVE  FloorInv'
    BY <1>0, <2>1, <2>3, <2>4, FloorMoves
  <2> QED
    BY <1>2, <2>4, FloorEnds, CheckCooldownEffect
<1>3. CASE GetBaseline(n)
  <2>1. PICK c \in CallState :
          /\ Moved(n, c, dep) /\ c.call = ctl[n].call
          /\ c.desired = ctl[n].desired /\ c.fresh = ctl[n].fresh
          /\ c.pc \in {"annotate", "patch"}
    BY <1>3, GetBaselineEffect
  <2>2. ctl[n].pc = "baseline"
    BY <1>3, GetBaselineEffect DEF At
  <2> QED
    BY <1>0, <2>1, <2>2, FloorMoves
<1>4. CASE AnnotateBaseline(n)
  <2>1. PICK c \in CallState, d \in DeploymentState :
          /\ Moved(n, c, d) /\ c.call = ctl[n].call
          /\ c.desired = ctl[n].desired /\ c.fresh = ctl[n].fresh
          /\ c.pc = "patch"
    BY <1>4, AnnotateEffect
  <2>2. ctl[n].pc = "annotate"
    BY <1>4, AnnotateEffect DEF At
  <2> QED
    BY <1>0, <2>1, <2>2, FloorMoves
<1>5. CASE PatchScale(n)
  <2>1. PICK c \in CallState, d \in DeploymentState :
          Moved(n, c, d) /\ c.pc \in {"stamp", "idle", "refetch"}
    BY <1>5, PatchScaleEffect
  <2> QED
    BY <2>1, FloorMovesOn
<1>6. CASE Refetch(n)
  <2>1. ASSUME NEW c \in CallState, Moved(n, c, dep), c.pc = "retry",
               c.call.kind = "ensure_min" => dep.replicas <= c.desired
        PROVE  FloorInv'
    BY <2>1, FloorMoves
  <2> QED
    BY <1>6, <2>1, FloorEnds, RefetchEffect
<1>7. CASE StampLastScaledAt(n)
  <2>1. PICK c \in CallState, d \in DeploymentState : Moved(n, c, d) /\ c.pc = "idle"
    BY <1>7, StampEffect
  <2> QED
    BY <2>1, FloorMovesOn
<1> QED
  BY <1>1, <1>2, <1>3, <1>4, <1>5, <1>6, <1>7 DEF Apply

LEMMA OthersKeepFloor ==
  ASSUME ScaleTypeOK, FloorInv, NEW n \in Nodes
  PROVE  /\ \A call \in Calls : CallApply(n, call) => FloorInv'
         /\ CallRestore(n) => FloorInv'
         /\ Restore(n) => FloorInv'
         /\ Died(n) => FloorInv'
<1>1. ASSUME NEW c \in CallState, NEW d, Moved(n, c, d),
             c.pc \in {"idle", "get", "rget", "rscale", "rpatch", "rclear"}
      PROVE  FloorInv'
  BY <1>1, FloorMovesOn
<1>2. ASSUME NEW call \in Calls, CallApply(n, call) PROVE FloorInv'
  <2>1. \E c \in CallState : Moved(n, c, dep) /\ c.pc = "get"
    BY <1>2, CallApplyEffect
  <2> QED
    BY <1>1, <2>1
<1>3. ASSUME CallRestore(n) PROVE FloorInv'
  <2>1. \E c \in CallState : Moved(n, c, dep) /\ c.pc = "rget"
    BY <1>3, CallRestoreEffect
  <2> QED
    BY <1>1, <2>1
<1>4. ASSUME RestoreGet(n) PROVE FloorInv'
  <2>1. Ended(n) \/ \E c \in CallState : Moved(n, c, dep) /\ c.pc = "rscale"
    BY <1>4, RestoreGetEffect
  <2> QED
    BY <1>1, <2>1, FloorEnds
<1>5. ASSUME RestoreGetScale(n) PROVE FloorInv'
  <2>1. \/ Ended(n)
        \/ \E c \in CallState : Moved(n, c, dep) /\ c.pc \in {"rpatch", "rclear"}
    BY <1>5, RestoreGetScaleEffect
  <2> QED
    BY <1>1, <2>1, FloorEnds
<1>6. ASSUME RestorePatch(n) PROVE FloorInv'
  <2>1. \E c \in CallState, d \in DeploymentState :
          Moved(n, c, d) /\ c.pc \in {"rclear", "idle"}
    BY <1>6, RestorePatchEffect
  <2> QED
    BY <1>1, <2>1
<1>7. ASSUME RestoreClear(n) PROVE FloorInv'
  <2>1. \E c \in CallState, d \in DeploymentState : Moved(n, c, d) /\ c.pc = "idle"
    BY <1>7, RestoreClearEffect
  <2> QED
    BY <1>1, <2>1
<1>8. ASSUME Died(n) PROVE FloorInv'
  BY <1>8, DiedEffect, FloorEnds
<1> QED
  BY <1>2, <1>3, <1>4, <1>5, <1>6, <1>7, <1>8 DEF Restore

LEMMA FloorStep ==
  ASSUME FloorsFit, ScaleTypeOK, FloorInv, [ActuatorNext]_deployment
  PROVE  FloorInv'
<1>1. CASE UNCHANGED deployment
  BY <1>1 DEF FloorInv, At, deployment
<1>2. CASE Environment
  <2>1. PICK d \in DeploymentState : Elsewhere(d)
    BY <1>2, EnvironmentEffect
  <2>2. ASSUME NEW k \in Nodes, ctl'[k].fresh
        PROVE  /\ ctl[k].fresh /\ dep'.replicas = dep.replicas
               /\ ctl'[k].pc = ctl[k].pc /\ ctl'[k].call = ctl[k].call
               /\ ctl'[k].current = ctl[k].current /\ ctl'[k].desired = ctl[k].desired
    BY <2>1, <2>2 DEF Elsewhere
  <2> QED
    BY <2>2 DEF FloorInv, At
<1> QED
  BY <1>1, <1>2, ApplyKeepsFloor, OthersKeepFloor DEF ActuatorNext, CallStep

-----------------------------------------------------------------------------
(***************************************************************************)
(* The cooldown.                                                           *)
(***************************************************************************)
\* Nothing has failed: a node that scaled a cooldown ago or less has stamped the
\* Deployment, or is about to, and has no call beyond the gate.
CooldownInv ==
  faults = 0 =>
    \A n \in lately :
      /\ dep.stamp = "recent" \/ At(n, "stamp")
      /\ ctl[n].pc \notin {"baseline", "annotate", "patch", "refetch", "retry"}

LEMMA CooldownMoves ==
  ASSUME ScaleTypeOK, CooldownInv, NEW n \in Nodes, NEW c \in CallState, NEW d,
         Moved(n, c, d), lately' = lately,
         faults' = 0 =>
           /\ faults = 0
           /\ d.stamp = dep.stamp \/ d.stamp = "recent"
           /\ n \in lately =>
                /\ d.stamp = "recent" \/ c.pc = "stamp"
                /\ c.pc \notin {"baseline", "annotate", "patch", "refetch", "retry"}
  PROVE  CooldownInv'
<1> SUFFICES ASSUME faults' = 0, NEW k \in lately
             PROVE  /\ dep'.stamp = "recent" \/ ctl'[k].pc = "stamp"
                    /\ ctl'[k].pc \notin {"baseline", "annotate", "patch", "refetch", "retry"}
  BY DEF CooldownInv, At
<1>1. k \in Nodes /\ dep' = d
  BY DEF ScaleTypeOK, Moved
<1>2. CASE k = n
  <2>1. ctl'[k].pc = c.pc
    BY <1>1, <1>2 DEF Moved
  <2> QED
    BY <1>1, <1>2, <2>1
<1>3. CASE k # n
  <2>1. ctl'[k].pc = ctl[k].pc
    BY <1>1, <1>3 DEF Moved
  <2> QED
    BY <1>1, <2>1 DEF CooldownInv, At
<1> QED
  BY <1>2, <1>3

LEMMA CooldownEndsCall ==
  ASSUME ScaleTypeOK, CooldownInv, NEW n \in Nodes, Ended(n), lately' = lately,
         faults' = 0 => faults = 0 /\ ~At(n, "stamp")
  PROVE  CooldownInv'
<1>1. PICK c \in CallState : Moved(n, c, dep) /\ c.pc = "idle"
  BY DEF Ended
<1>2. faults' = 0 => (n \in lately => dep.stamp = "recent")
  BY DEF CooldownInv
<1> QED
  BY <1>1, <1>2, CooldownMoves

\* A request of a node that has not scaled lately, or that does not go beyond
\* the gate.
LEMMA CooldownGoesOn ==
  ASSUME ScaleTypeOK, CooldownInv, NEW n \in Nodes, NEW c \in CallState, NEW d,
         Moved(n, c, d), lately' = lately, ~At(n, "stamp"),
         faults' = 0 =>
           /\ faults = 0 /\ d.stamp = dep.stamp
           /\ \/ c.pc \notin {"baseline", "annotate", "patch", "refetch", "retry"}
              \/ ctl[n].pc \in {"baseline", "annotate", "patch", "refetch", "retry"}
  PROVE  CooldownInv'
<1>1. faults' = 0 /\ n \in lately =>
        /\ dep.stamp = "recent"
        /\ ctl[n].pc \notin {"baseline", "annotate", "patch", "refetch", "retry"}
  BY DEF CooldownInv
<1> QED
  BY <1>1, CooldownMoves

LEMMA ApplyKeepsCooldown ==
  ASSUME ScaleTypeOK, CooldownInv, NEW n \in Nodes, Apply(n)
  PROVE  CooldownInv'
<1>1. CASE GetScale(n)
  <2>1. At(n, "get") /\ Counted /\ lately' = lately
    BY <1>1, GetScaleEffect
  <2>2. ~At(n, "stamp") /\ (faults' = 0 => faults = 0)
    BY <2>1 DEF At, Counted
  <2>3. ASSUME NEW c \in CallState, Moved(n, c, dep), c.pc = "gate"
        PROVE  CooldownInv'
    BY <2>1, <2>2, <2>3, CooldownGoesOn
  <2> QED
    BY <1>1, <2>1, <2>2, <2>3, CooldownEndsCall, GetScaleEffect
<1>2. CASE CheckCooldown(n)
  <2>1. At(n, "gate") /\ Counted /\ lately' = lately
    BY <1>2, CheckCooldownEffect
  <2>2. ~At(n, "stamp") /\ (faults' = 0 => faults = 0)
    BY <2>1 DEF At, Counted
  <2>3. ASSUME NEW c \in CallState, Moved(n, c, dep), c.pc = "baseline",
               faults' = 0 => dep.stamp # "recent"
        PROVE  CooldownInv'
    <3>1. faults' = 0 => n \notin lately
      BY <2>2, <2>3 DEF CooldownInv
    <3> QED
      BY <2>1, <2>2, <2>3, <3>1, CooldownMoves
  <2> QED
    BY <1>2, <2>1, <2>2, <2>3, CooldownEndsCall, CheckCooldownEffect
<1>3. CASE GetBaseline(n)
  <2>1. At(n, "baseline") /\ Counted /\ lately' = lately
    BY <1>3, GetBaselineEffect
  <2>2. PICK c \in CallState : Moved(n, c, dep)
    BY <1>3, GetBaselineEffect
  <2> QED
    BY <2>1, <2>2, CooldownGoesOn DEF At, Counted
<1>4. CASE AnnotateBaseline(n)
  <2>1. At(n, "annotate") /\ Counted /\ lately' = lately
    BY <1>4, AnnotateEffect
  <2>2. PICK c \in CallState, d \in DeploymentState :
          Moved(n, c, d) /\ d.stamp = dep.stamp
    BY <1>4, AnnotateEffect
  <2> QED
    BY <2>1, <2>2, CooldownGoesOn DEF At, Counted
<1>5. CASE PatchScale(n)
  <2>1. ctl[n].pc \in {"patch", "retry"} /\ Counted
    BY <1>5, PatchScaleEffect DEF At
  <2>2. PICK c \in CallState, d \in DeploymentState :
          /\ Moved(n, c, d) /\ d.stamp = dep.stamp
          /\ (c.pc = "stamp" /\ lately' = lately \cup {n}) \/ lately' = lately
    BY <1>5, PatchScaleEffect
  <2>3. CASE lately' = lately
    BY <2>1, <2>2, <2>3, CooldownGoesOn DEF At, Counted
  <2>4. CASE c.pc = "stamp" /\ lately' = lately \cup {n}
    <3>1. ASSUME faults' = 0, NEW k \in lately'
          PROVE  /\ dep'.stamp = "recent" \/ ctl'[k].pc = "stamp"
                 /\ ctl'[k].pc
                      \notin {"baseline", "annotate", "patch", "refetch", "retry"}
      <4>1. dep'.stamp = dep.stamp /\ ctl'[n].pc = "stamp"
        BY <2>2, <2>4 DEF Moved
      <4>2. CASE k = n
        BY <4>1, <4>2
      <4>3. CASE k # n
        <5>1. k \in lately /\ k \in Nodes
          BY <2>4, <3>1, <4>3 DEF ScaleTypeOK
        <5>2. ctl'[k].pc = ctl[k].pc
          BY <2>2, <4>3, <5>1 DEF Moved
        <5> QED
          BY <2>1, <3>1, <4>1, <5>1, <5>2 DEF CooldownInv, At, Counted
      <4> QED
        BY <4>2, <4>3
    <3> QED
      BY <3>1 DEF CooldownInv, At
  <2> QED
    BY <2>2, <2>3, <2>4
<1>6. CASE Refetch(n)
  <2>1. At(n, "refetch") /\ Counted /\ lately' = lately
    BY <1>6, RefetchEffect
  <2>2. ASSUME NEW c \in CallState, Moved(n, c, dep) PROVE CooldownInv'
    BY <2>1, <2>2, CooldownGoesOn DEF At, Counted
  <2> QED
    BY <1>6, <2>2, RefetchEffect DEF Ended
<1>7. CASE StampLastScaledAt(n)
  <2>1. Counted /\ lately' = lately
    BY <1>7, StampEffect
  <2>2. PICK c \in CallState, d \in DeploymentState :
          /\ Moved(n, c, d) /\ c.pc = "idle" /\ (faults' = 0 => d.stamp = "recent")
    BY <1>7, StampEffect
  <2> QED
    BY <2>1, <2>2, CooldownMoves DEF Counted
<1> QED
  BY <1>1, <1>2, <1>3, <1>4, <1>5, <1>6, <1>7 DEF Apply

LEMMA OthersKeepCooldown ==
  ASSUME ScaleTypeOK, CooldownInv, NEW n \in Nodes
  PROVE  /\ \A call \in Calls : CallApply(n, call) => CooldownInv'
         /\ CallRestore(n) => CooldownInv'
         /\ Restore(n) => CooldownInv'
         /\ Died(n) => CooldownInv'
<1>1. ASSUME NEW c \in CallState, NEW d, Moved(n, c, d), lately' = lately,
             faults' = 0 => faults = 0, ~At(n, "stamp"), d.stamp = dep.stamp,
             c.pc \in {"idle", "get", "rget", "rscale", "rpatch", "rclear"}
      PROVE  CooldownInv'
  BY <1>1, CooldownGoesOn
<1>2. ASSUME NEW call \in Calls, CallApply(n, call) PROVE CooldownInv'
  <2>1. PICK c \in CallState :
          /\ Moved(n, c, dep) /\ c.pc = "get" /\ At(n, "idle")
          /\ UNCHANGED <<faults, lately>>
    BY <1>2, CallApplyEffect
  <2> QED
    BY <1>1, <2>1 DEF At
<1>3. ASSUME CallRestore(n) PROVE CooldownInv'
  <2>1. PICK c \in CallState :
          /\ Moved(n, c, dep) /\ c.pc = "rget" /\ At(n, "idle")
          /\ UNCHANGED <<faults, lately>>
    BY <1>3, CallRestoreEffect
  <2> QED
    BY <1>1, <2>1 DEF At
<1>4. ASSUME RestoreGet(n) PROVE CooldownInv'
  <2>1. At(n, "rget") /\ Counted /\ lately' = lately
    BY <1>4, RestoreGetEffect
  <2>2. \E c \in CallState : Moved(n, c, dep) /\ c.pc \in {"rscale", "idle"}
    BY <1>4, RestoreGetEffect DEF Ended
  <2> QED
    BY <1>1, <2>1, <2>2 DEF At, Counted
<1>5. ASSUME RestoreGetScale(n) PROVE CooldownInv'
  <2>1. At(n, "rscale") /\ Counted /\ lately' = lately
    BY <1>5, RestoreGetScaleEffect
  <2>2. \E c \in CallState : Moved(n, c, dep) /\ c.pc \in {"rpatch", "rclear", "idle"}
    BY <1>5, RestoreGetScaleEffect DEF Ended
  <2> QED
    BY <1>1, <2>1, <2>2 DEF At, Counted
<1>6. ASSUME RestorePatch(n) PROVE CooldownInv'
  <2>1. At(n, "rpatch") /\ Counted /\ lately' = lately
    BY <1>6, RestorePatchEffect
  <2>2. \E c \in CallState, d \in DeploymentState :
          Moved(n, c, d) /\ c.pc \in {"rclear", "idle"} /\ d.stamp = dep.stamp
    BY <1>6, RestorePatchEffect
  <2> QED
    BY <1>1, <2>1, <2>2 DEF At, Counted
<1>7. ASSUME RestoreClear(n) PROVE CooldownInv'
  BY <1>7, RestoreClearEffect DEF CooldownInv
<1>8. ASSUME Died(n) PROVE CooldownInv'
  BY <1>8, DiedEffect, CooldownEndsCall
<1> QED
  BY <1>2, <1>3, <1>4, <1>5, <1>6, <1>7, <1>8 DEF Restore

LEMMA CooldownStep ==
  ASSUME ScaleTypeOK, CooldownInv, [ActuatorNext]_deployment
  PROVE  CooldownInv'
<1>1. CASE UNCHANGED deployment
  BY <1>1 DEF CooldownInv, At, deployment
<1>2. CASE Environment
  <2>1. PICK d \in DeploymentState :
          Elsewhere(d) /\ (lately' = {} \/ (lately' = lately /\ d.stamp = dep.stamp))
    BY <1>2, EnvironmentEffect
  <2>2. faults' = faults
    BY <1>2, EnvironmentEffect
  <2>3. dep'.stamp = d.stamp /\ \A k \in Nodes : ctl'[k].pc = ctl[k].pc
    BY <2>1 DEF Elsewhere
  <2>4. lately \subseteq Nodes
    BY DEF ScaleTypeOK
  <2> QED
    BY <2>1, <2>2, <2>3, <2>4 DEF CooldownInv, At
<1> QED
  BY <1>1, <1>2, ApplyKeepsCooldown, OthersKeepCooldown DEF ActuatorNext, CallStep

-----------------------------------------------------------------------------
LEMMA ScaleInvInit ==
  ASSUME TickInit
  PROVE  ScaleTypeOK /\ mode \in Modes /\ BaselineInv /\ FloorInv /\ CooldownInv
<1>1. Init /\ mode \in Modes
  BY DEF TickInit
<1>2. FloorInv
  BY <1>1, IdleFields DEF Init, FloorInv
<1>3. CooldownInv
  BY <1>1 DEF Init, CooldownInv
<1> QED
  BY <1>1, <1>2, <1>3, ScaleTypeInit, BaselineInit

LEMMA ScaleInvHolds ==
  TickSpec => [](ScaleTypeOK /\ mode \in Modes /\ BaselineInv /\ CooldownInv)
<1>1. TickInit => ScaleTypeOK /\ mode \in Modes /\ BaselineInv /\ CooldownInv
  BY ScaleInvInit
<1>2. ScaleTypeOK /\ mode \in Modes /\ BaselineInv /\ CooldownInv /\ [TickNext]_tickVars
        => (ScaleTypeOK /\ mode \in Modes /\ BaselineInv /\ CooldownInv)'
  BY TickIsActuator, ScaleTypeStep, BaselineStep, CooldownStep
<1> QED
  BY <1>1, <1>2, PTL DEF TickSpec

\* The Deployment, the calls and the histories keep their types, and a call that
\* scales has parameters (ctl is what Apply and Restore of horizontal.go hold).
THEOREM ScaleTypeCorrect == TickSpec => []ScaleTypeOK
BY ScaleInvHolds, PTL

\* The recorded baseline is the count before any scaling, whichever of any number
\* of nodes was first, and a scaled Deployment has one (horizontal.go:16-18).
THEOREM BaselineStaysOriginal == TickSpec => []BaselineIsOriginal
<1>1. BaselineInv => BaselineIsOriginal
  BY DEF BaselineInv, BaselineIsOriginal, Clean
<1> QED
  BY <1>1, ScaleInvHolds, PTL

\* No patch of an ensure_min lowers the Deployment, through any conflicts, faults,
\* crashes and writes of others (horizontal.go:8-10, 171-174), if every floor of
\* the policy fits under its max_replicas: the clamp at the maximum comes after
\* the floor, and would lower a Deployment that is between the two.
THEOREM EnsureMinIsMonotone == FloorsFit /\ TickSpec => EnsureMinNeverLowers
<1> DEFINE FInv == ScaleTypeOK /\ mode \in Modes /\ FloorInv
           A == \A n \in Nodes :
                  ctl[n].call # NoCall /\ ctl[n].call.kind = "ensure_min" /\ PatchScale(n)
                    => dep'.replicas >= dep.replicas
<1> SUFFICES ASSUME FloorsFit PROVE TickSpec => EnsureMinNeverLowers
  OBVIOUS
<1>1. TickInit => FInv
  BY ScaleInvInit
<1>2. FInv /\ [TickNext]_tickVars => FInv'
  BY TickIsActuator, ScaleTypeStep, FloorStep
<1>3. FInv => A
  <2> SUFFICES ASSUME FInv, NEW n \in Nodes, ctl[n].call.kind = "ensure_min", PatchScale(n)
               PROVE  dep'.replicas >= dep.replicas
    OBVIOUS
  <2>1. PICK c \in CallState, d \in DeploymentState :
          /\ Moved(n, c, d)
          /\ d = dep \/ (ctl[n].fresh /\ d.replicas = ctl[n].desired)
    BY PatchScaleEffect
  <2>2. ctl[n].pc \in {"patch", "retry"}
    BY PatchScaleEffect DEF At
  <2>3. dep' = d /\ dep.replicas \in Nat
    BY <2>1 DEF Moved, ScaleTypeOK, DeploymentState
  <2>4. CASE d = dep
    BY <2>3, <2>4
  <2>5. CASE ctl[n].fresh /\ d.replicas = ctl[n].desired
    <3>1. dep.replicas <= d.replicas /\ d.replicas \in Nat
      BY <2>2, <2>5 DEF FloorInv, DeploymentState
    <3> QED
      BY <2>3, <3>1
  <2> QED
    BY <2>1, <2>4, <2>5
<1> HIDE DEF FInv, A
<1>4. TickSpec => [][A]_deployment
  <2>1. FInv => [A]_deployment
    BY <1>3
  <2> QED
    BY <1>1, <1>2, <2>1, PTL DEF TickSpec
<1> QED
  BY <1>4 DEF EnsureMinNeverLowers, A

\* While nothing fails, no node scales twice within a cooldown, its conflicts and
\* retries included: the stamp of its own patch stops it at the gate.
THEOREM NodeScalesOncePerCooldown == TickSpec => ScalesOncePerCooldown
<1> DEFINE A == \A n \in Nodes :
                  faults' = 0 /\ PatchScale(n) /\ dep'.replicas # dep.replicas
                    => n \notin lately
<1>1. ScaleTypeOK /\ CooldownInv => A
  <2> SUFFICES ASSUME ScaleTypeOK, CooldownInv, NEW n \in Nodes, faults' = 0, PatchScale(n)
               PROVE  n \notin lately
    OBVIOUS
  <2>1. ctl[n].pc \in {"patch", "retry"} /\ faults = 0
    BY PatchScaleEffect DEF At, Counted
  <2> QED
    BY <2>1 DEF CooldownInv
<1> HIDE DEF A
<1>2. TickSpec => [][A]_deployment
  <2>1. ScaleTypeOK /\ CooldownInv => [A]_deployment
    BY <1>1
  <2> QED
    BY <2>1, ScaleInvHolds, PTL
<1> QED
  BY <1>2 DEF ScalesOncePerCooldown, A
=============================================================================
