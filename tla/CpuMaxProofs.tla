---------------------------- MODULE CpuMaxProofs ----------------------------
(***************************************************************************)
(* For any pods, quotas, demands and faults, one target and selectors that *)
(* do not overlap:                                                         *)
(*  - isolate and harvest record a quota before they change it, and what   *)
(*    they record is the pod's own (QuotaInv);                             *)
(*  - a Restore that reports no error releases the target's namespace, and *)
(*    a Reconcile in which nothing fails completes what a crash cut short  *)
(*    (ReleaseInv);                                                        *)
(*  - a cap of Eq. (2) whose call reports no error is in force on every    *)
(*    aggressor (CapInv).                                                  *)
(*                                                                         *)
(* None of these is inductive.  QuotaInv says what a call knows at each    *)
(* control point: the annotations it listed are still the ones of the pods *)
(* it has left to do, the quota it is about to record is the pod's own,    *)
(* and a pod whose record it clears has its quota back; and that no two    *)
(* calls are under way, which is where two targets differ.  ReleaseInv and *)
(* CapInv say of every pod that it is as the call's end promises or still  *)
(* to come to.                                                             *)
(***************************************************************************)
EXTENDS IsolationTick, TLAPS

OneTarget == \A s, t \in Targets : s = t
ScopesDisjoint == Scope["isolate"] \cap Scope["harvest"] = {}

\* The quotas q and the annotations a.
Recorded(a, q) ==
  /\ q = [p \in Pods |-> q[p]]
  /\ a = [act \in Acts |-> [p \in Pods |-> a[act][p]]]
  /\ \A act \in Acts, p \in Pods : a[act][p] \in {NoAnn, Orig[p]}
  /\ \A act \in Acts, p \in Pods : a[act][p] # NoAnn => p \in Scope[act]
  /\ \A p \in Pods : q[p] # Orig[p] => \E act \in Acts : a[act][p] # NoAnn

Fields == {"pc", "kind", "act", "acts", "todo", "seen", "demand", "share",
           "cur", "old", "new", "applied", "failed"}
IsCall(c) == c = [f \in Fields |-> c[f]]

\* What a call knows of the pods it has left to do.
LoopInv(c, a) ==
  /\ IsCall(c)
  /\ c.act \in Acts /\ c.acts \subseteq Acts
  /\ c.kind = "apply" => c.acts = {}
  /\ \A p \in c.todo :
       /\ p \in Pods /\ c.seen[p] = a[c.act][p]
       /\ IF c.kind = "apply" THEN p \in Scope[c.act] ELSE a[c.act][p] # NoAnn

\* And by control point.
PointInv(c, a, q) ==
  /\ c.pc \in {"idle", "down", "list"} => c.todo = {}
  /\ c.pc = "idle" => c.acts = {}
  /\ c.pc \in {"read", "annotate", "write"} => c.kind = "apply"
  /\ c.pc \in {"list", "undo", "repair", "clear"} => c.kind # "apply"
  /\ c.pc = "repair" => c.kind = "reconcile" /\ c.act = "isolate"
  /\ c.pc = "undo" => c.kind # "reconcile" \/ c.act # "isolate"
  /\ c.pc = "annotate" => /\ c.cur \in Scope[c.act] \ c.todo
                          /\ a[c.act][c.cur] = NoAnn /\ c.old = Orig[c.cur]
  /\ c.pc = "write" => a[c.act][c.cur] # NoAnn
  /\ c.pc = "clear" => c.cur \in Pods \ c.todo /\ q[c.cur] = Orig[c.cur]

CallInv(c, a, q) == LoopInv(c, a) /\ PointInv(c, a, q)

\* No target's call is under way while Main is down or reconciles.
OneCall ==
  /\ \A t \in Targets : ctl[t].pc = "idle" \/ Up
  /\ ctl[Main].kind # "restore"

QuotaInv ==
  /\ Recorded(ann, quota)
  /\ ctl = [k \in Procs |-> ctl[k]]
  /\ \A k \in Procs : CallInv(ctl[k], ann, quota)
  /\ OneCall

-----------------------------------------------------------------------------
(***************************************************************************)
(* Calls.                                                                  *)
(***************************************************************************)
\* A call that has no pods and no actuators left knows nothing.
LEMMA EmptyInv ==
  ASSUME NEW c, NEW a, NEW q, IsCall(c), c.act \in Acts, c.acts = {}, c.todo = {},
         c.pc \in {"idle", "down"}
  PROVE  CallInv(c, a, q)
BY DEF CallInv, LoopInv, PointInv

LEMMA IdleInv ==
  ASSUME NEW a, NEW q
  PROVE  /\ CallInv(Idle, a, q) /\ Idle.pc = "idle" /\ Idle.kind = "none"
         /\ CallInv(Down, a, q) /\ Down.kind = "none"
<1>1. /\ Idle.act \in Acts /\ Idle.acts = {} /\ Idle.todo = {}
      /\ Idle.pc = "idle" /\ Idle.kind = "none"
  BY DEF Idle, Acts
<1>2. /\ Down.act \in Acts /\ Down.acts = {} /\ Down.todo = {} /\ Down.pc = "down"
      /\ Down.kind = "none"
  BY DEF Down, Idle, Acts
<1>3. IsCall(Idle) /\ IsCall(Down)
  BY DEF Idle, Down, IsCall, Fields
<1> QED
  BY <1>1, <1>2, <1>3, EmptyInv

LEMMA AdvanceInv ==
  ASSUME NEW c, NEW a, NEW q, LoopInv(c, a)
  PROVE  CallInv(Advance(c), a, q) /\ Advance(c).kind = c.kind
<1>0. IsCall(c)
  BY DEF LoopInv
<1>1. CASE c.todo # {}
  <2> DEFINE l == LoopLabel(c)
             d == [c EXCEPT !.pc = l, !.cur = NoPod]
  <2>1. /\ l \in {"read", "repair", "undo"} /\ (l = "read" <=> c.kind = "apply")
        /\ l = "repair" <=> c.kind = "reconcile" /\ c.act = "isolate"
    BY DEF LoopLabel
  <2>2. Advance(c) = d
    BY <1>1 DEF Advance
  <2> HIDE DEF l
  <2>3. /\ d.pc = l /\ d.kind = c.kind /\ d.act = c.act /\ d.acts = c.acts
        /\ d.todo = c.todo /\ d.seen = c.seen /\ IsCall(d)
    BY <1>0 DEF IsCall, Fields
  <2> HIDE DEF d
  <2>4. LoopInv(d, a) /\ PointInv(d, a, q)
    BY <2>1, <2>3 DEF LoopInv, PointInv
  <2> QED
    BY <2>2, <2>3, <2>4 DEF CallInv
<1>2. CASE c.todo = {} /\ c.acts # {}
  <2> DEFINE d == [c EXCEPT !.pc = "list", !.cur = NoPod]
  <2>1. Advance(c) = d
    BY <1>2 DEF Advance
  <2>2. /\ d.pc = "list" /\ d.kind = c.kind /\ d.act = c.act /\ d.acts = c.acts
        /\ d.todo = {} /\ IsCall(d)
    BY <1>0, <1>2 DEF IsCall, Fields
  <2> HIDE DEF d
  <2>3. LoopInv(d, a) /\ PointInv(d, a, q)
    BY <1>2, <2>2 DEF LoopInv, PointInv
  <2> QED
    BY <2>1, <2>2, <2>3 DEF CallInv
<1>3. CASE c.todo = {} /\ c.acts = {}
  <2> DEFINE d == [Idle EXCEPT !.kind = c.kind, !.applied = c.applied, !.failed = c.failed]
  <2>1. Advance(c) = d
    BY <1>3 DEF Advance
  <2>2. /\ d.pc = "idle" /\ d.kind = c.kind /\ d.act \in Acts /\ d.acts = {}
        /\ d.todo = {} /\ IsCall(d)
    BY DEF Idle, IsCall, Fields, Acts
  <2> QED
    BY <2>1, <2>2, EmptyInv
<1> QED
  BY <1>1, <1>2, <1>3

\* A loop that has taken a pod, or noted an error, knows what it knew.
LEMMA LoopGoesOn ==
  ASSUME NEW c, NEW d, NEW a, LoopInv(c, a), IsCall(d),
         d.kind = c.kind, d.act = c.act, d.acts = c.acts, d.seen = c.seen,
         d.todo \subseteq c.todo
  PROVE  LoopInv(d, a)
BY DEF LoopInv

\* On to the next pod, with an error or without.
LEMMA ErrInv ==
  ASSUME NEW c, NEW a, NEW q, LoopInv(c, a), NEW e
  PROVE  LET d == [c EXCEPT !.failed = e] IN
         CallInv(Advance(d), a, q) /\ Advance(d).kind = c.kind
<1> DEFINE d == [c EXCEPT !.failed = e]
<1>1. /\ d.kind = c.kind /\ d.act = c.act /\ d.acts = c.acts /\ d.seen = c.seen
      /\ d.todo = c.todo /\ IsCall(d)
  BY DEF LoopInv, IsCall, Fields
<1> HIDE DEF d
<1>2. CallInv(Advance(d), a, q) /\ Advance(d).kind = c.kind
  BY <1>1, LoopGoesOn, AdvanceInv
<1> QED
  BY <1>2 DEF d

\* A write that succeeds is counted, and nothing else is changed of the call.
LEMMA AppliedFacts ==
  ASSUME NEW c, IsCall(c), NEW ok
  PROVE  LET d == [c EXCEPT !.applied = @ \/ ok] IN
         /\ IsCall(d) /\ d.pc = c.pc /\ d.kind = c.kind /\ d.act = c.act /\ d.acts = c.acts
         /\ d.todo = c.todo /\ d.seen = c.seen /\ d.demand = c.demand /\ d.share = c.share
         /\ d.cur = c.cur /\ d.old = c.old /\ d.new = c.new /\ d.failed = c.failed
         /\ d.applied = (c.applied \/ ok)
BY DEF IsCall, Fields

LEMMA AppliedInv ==
  ASSUME NEW c, NEW a, NEW q, CallInv(c, a, q), NEW ok
  PROVE  LET d == [c EXCEPT !.applied = @ \/ ok] IN
         CallInv(d, a, q) /\ d.kind = c.kind /\ d.pc = c.pc
<1> DEFINE d == [c EXCEPT !.applied = @ \/ ok]
<1>1. /\ IsCall(d) /\ d.pc = c.pc /\ d.kind = c.kind /\ d.act = c.act /\ d.acts = c.acts
      /\ d.todo = c.todo /\ d.seen = c.seen /\ d.cur = c.cur /\ d.old = c.old
  BY AppliedFacts DEF CallInv, LoopInv
<1> HIDE DEF d
<1>2. CallInv(d, a, q)
  BY <1>1 DEF CallInv, LoopInv, PointInv
<1> QED
  BY <1>1, <1>2 DEF d

\* The call has taken pod p.
LEMMA TakenInv ==
  ASSUME NEW c, NEW a, LoopInv(c, a), NEW p
  PROVE  LET d == [c EXCEPT !.todo = @ \ {p}] IN
         /\ LoopInv(d, a) /\ d.kind = c.kind /\ d.act = c.act /\ d.seen = c.seen
         /\ d.todo = c.todo \ {p}
<1> DEFINE d == [c EXCEPT !.todo = @ \ {p}]
<1>1. /\ d.kind = c.kind /\ d.act = c.act /\ d.acts = c.acts /\ d.seen = c.seen
      /\ d.todo = c.todo \ {p} /\ IsCall(d)
  BY DEF LoopInv, IsCall, Fields
<1> HIDE DEF d
<1>2. LoopInv(d, a)
  BY <1>1, LoopGoesOn
<1> QED
  BY <1>1, <1>2 DEF d

\* The marker of a missing annotation is no quota.
LEMMA QuotaNotNoAnn == \A p \in Pods : Orig[p] # NoAnn
BY PodsAssumption, ActorsAssumption DEF Quotas, Unbounded

-----------------------------------------------------------------------------
(***************************************************************************)
(* Steps of the two actuators.                                             *)
(***************************************************************************)
\* A step of the call under way: the other processes know nothing that it
\* could change.
LEMMA StepFrame ==
  ASSUME OneTarget, QuotaInv, NEW k \in Procs, ctl[k].pc \notin {"idle", "down"},
         NEW c, Become(k, c), c.kind = ctl[k].kind,
         CallInv(c, ann', quota'), Recorded(ann', quota')
  PROVE  QuotaInv'
<1>1. /\ ctl' = [j \in Procs |-> ctl'[j]] /\ ctl'[k] = c
      /\ \A j \in Procs \ {k} : ctl'[j] = ctl[j]
  BY DEF Become, QuotaInv
<1>2. Main \in Procs /\ Targets \subseteq Procs /\ Main \notin Targets
  BY ActorsAssumption DEF Procs
<1>3. \A j \in Procs \ {k} : ctl[j].pc \in {"idle", "down"}
  <2>1. CASE k = Main
    BY <1>2, <2>1 DEF QuotaInv, OneCall, Up, At, Procs
  <2>2. CASE k \in Targets
    BY <1>2, <2>2 DEF QuotaInv, OneCall, Up, At, Procs, OneTarget
  <2> QED
    BY <2>1, <2>2 DEF Procs
<1>4. ASSUME NEW j \in Procs
      PROVE  CallInv(ctl'[j], ann', quota')
  <2>1. CASE j = k
    BY <1>1, <2>1
  <2>2. CASE j # k
    <3>1. CallInv(ctl[j], ann, quota) /\ ctl[j].pc \in {"idle", "down"} /\ ctl'[j] = ctl[j]
      BY <1>1, <1>3, <2>2 DEF QuotaInv
    <3> QED
      BY <3>1 DEF CallInv, LoopInv, PointInv
  <2> QED
    BY <2>1, <2>2
<1>5. OneCall'
  <2>1. CASE k = Main
    <3>1. \A t \in Targets : ctl'[t] = ctl[t] /\ ctl[t].pc = "idle"
      BY <1>1, <1>2, <2>1 DEF QuotaInv, OneCall, Up, At
    <3> QED
      BY <1>1, <2>1, <3>1 DEF QuotaInv, OneCall, Up, At
  <2>2. CASE k \in Targets
    <3>1. ctl'[Main] = ctl[Main] /\ Up
      BY <1>1, <1>2, <2>2 DEF QuotaInv, OneCall
    <3> QED
      BY <3>1 DEF QuotaInv, OneCall, Up, At
  <2> QED
    BY <2>1, <2>2 DEF Procs
<1> QED
  BY <1>1, <1>4, <1>5 DEF QuotaInv

\* A tick calls an actuator.
LEMMA CallFrame ==
  ASSUME QuotaInv, NEW k \in Targets, Up, NEW c, Become(k, c),
         CallInv(c, ann, quota), UNCHANGED <<quota, ann>>
  PROVE  QuotaInv'
<1>1. /\ ctl' = [j \in Procs |-> ctl'[j]] /\ ctl'[k] = c
      /\ \A j \in Procs \ {k} : ctl'[j] = ctl[j]
  BY DEF Become, QuotaInv, Procs
<1>2. Main \in Procs \ {k} /\ Targets \subseteq Procs
  BY ActorsAssumption DEF Procs
<1>3. \A j \in Procs : CallInv(ctl'[j], ann', quota')
  BY <1>1 DEF QuotaInv
<1>4. OneCall'
  BY <1>1, <1>2 DEF QuotaInv, OneCall, Up, At
<1> QED
  BY <1>1, <1>3, <1>4 DEF QuotaInv

LEMMA CallApplyKeeps ==
  ASSUME QuotaInv, NEW k \in Targets, NEW act \in Acts, NEW demand,
         CallApply(k, act, demand)
  PROVE  QuotaInv'
<1>1. CASE Become(k, Idle)
  BY <1>1, IdleInv, CallFrame DEF CallApply
<1>2. CASE ~Become(k, Idle)
  <2> DEFINE n == Share(demand.amount, Cardinality(Scope[act]))
             s == Scope[act]
  <2> HIDE DEF n, s
  <2> DEFINE c == [Idle EXCEPT !.pc = "read", !.kind = "apply", !.act = act,
                     !.todo = s, !.seen = ann[act], !.demand = demand, !.share = n]
  <2>1. Become(k, c)
    BY <1>2 DEF CallApply, n, s
  <2>2. /\ c.pc = "read" /\ c.kind = "apply" /\ c.act = act /\ c.acts = {}
        /\ c.todo = s /\ c.seen = ann[act] /\ IsCall(c)
    BY DEF Idle, IsCall, Fields
  <2>3. s = Scope[act] /\ s \subseteq Pods
    BY PodsAssumption DEF s
  <2> HIDE DEF c
  <2>4. CallInv(c, ann, quota)
    BY <2>2, <2>3 DEF CallInv, LoopInv, PointInv
  <2> QED
    BY <2>1, <2>4, CallFrame DEF CallApply
<1> QED
  BY <1>1, <1>2

LEMMA CallRestoreKeeps ==
  ASSUME QuotaInv, NEW k \in Targets, CallRestore(k)
  PROVE  QuotaInv'
<1> DEFINE c == [Idle EXCEPT !.pc = "list", !.kind = "restore", !.acts = Acts]
<1>1. /\ c.pc = "list" /\ c.kind = "restore" /\ c.act \in Acts /\ c.acts = Acts
      /\ c.todo = {} /\ IsCall(c)
  BY DEF Idle, IsCall, Fields, Acts
<1>2. Become(k, c)
  BY DEF CallRestore
<1> HIDE DEF c
<1>3. CallInv(c, ann, quota)
  BY <1>1 DEF CallInv, LoopInv, PointInv
<1> QED
  BY <1>2, <1>3, CallFrame DEF CallRestore

LEMMA ReadPodKeeps ==
  ASSUME OneTarget, ScopesDisjoint, QuotaInv, NEW k \in Procs, ReadPod(k)
  PROVE  QuotaInv'
<1>1. PICK p \in ctl[k].todo :
        LET c == [ctl[k] EXCEPT !.todo = @ \ {p}]
            wanted == Wanted(c, quota[p], c.seen[p])
        IN \/ Become(k, Advance([c EXCEPT !.failed = TRUE]))
           \/ Become(k, Advance(c))
           \/ \E new \in wanted :
                Become(k, [c EXCEPT !.pc = IF c.seen[p] = NoAnn THEN "annotate" ELSE "write",
                                    !.cur = p, !.old = quota[p], !.new = new])
  BY DEF ReadPod
<1> DEFINE c == [ctl[k] EXCEPT !.todo = @ \ {p}]
<1>2. /\ ctl[k].pc = "read" /\ LoopInv(ctl[k], ann) /\ PointInv(ctl[k], ann, quota)
      /\ Recorded(ann, quota) /\ ctl[k].kind = "apply"
      /\ UNCHANGED <<quota, ann>>
  BY DEF QuotaInv, CallInv, PointInv, ReadPod, At
<1>3. /\ LoopInv(c, ann) /\ c.kind = "apply" /\ c.act = ctl[k].act
      /\ c.seen = ctl[k].seen /\ c.todo = ctl[k].todo \ {p}
  BY <1>2, TakenInv
<1>4. p \in Scope[c.act] /\ p \in Pods /\ c.seen[p] = ann[c.act][p] /\ c.act \in Acts
  BY <1>2, <1>3 DEF LoopInv
<1>5. c.seen[p] = NoAnn => quota[p] = Orig[p]
  BY <1>2, <1>4 DEF Recorded, ScopesDisjoint, Acts
<1>6. CASE Become(k, Advance([c EXCEPT !.failed = TRUE]))
  <2> HIDE DEF c
  <2>1. CallInv(Advance([c EXCEPT !.failed = TRUE]), ann, quota)
        /\ Advance([c EXCEPT !.failed = TRUE]).kind = ctl[k].kind
    BY <1>2, <1>3, ErrInv
  <2> QED
    BY <1>2, <1>6, <2>1, StepFrame
<1>7. CASE Become(k, Advance(c))
  <2> HIDE DEF c
  <2>1. CallInv(Advance(c), ann, quota) /\ Advance(c).kind = ctl[k].kind
    BY <1>2, <1>3, AdvanceInv
  <2> QED
    BY <1>2, <1>7, <2>1, StepFrame
<1>8. ASSUME NEW new,
             Become(k, [c EXCEPT !.pc = IF c.seen[p] = NoAnn THEN "annotate" ELSE "write",
                                 !.cur = p, !.old = quota[p], !.new = new])
      PROVE  QuotaInv'
  <2> HIDE DEF c
  <2> DEFINE l == IF c.seen[p] = NoAnn THEN "annotate" ELSE "write"
  <2>0. /\ l \in {"annotate", "write"} /\ (l = "annotate" <=> c.seen[p] = NoAnn)
    OBVIOUS
  <2> HIDE DEF l
  <2> DEFINE d == [c EXCEPT !.pc = l, !.cur = p, !.old = quota[p], !.new = new]
  <2>1. Become(k, d)
    BY <1>8 DEF l
  <2>2. /\ d.pc = l /\ d.kind = c.kind /\ d.act = c.act /\ d.acts = c.acts
        /\ d.todo = c.todo /\ d.seen = c.seen /\ d.cur = p /\ d.old = quota[p] /\ IsCall(d)
    BY <1>3 DEF LoopInv, IsCall, Fields
  <2> HIDE DEF d
  <2>3. LoopInv(d, ann)
    BY <1>3, <2>2, LoopGoesOn
  <2>4. PointInv(d, ann, quota)
    BY <1>3, <1>4, <1>5, <2>0, <2>2 DEF PointInv
  <2> QED
    BY <1>2, <1>3, <2>1, <2>2, <2>3, <2>4, StepFrame DEF CallInv
<1> QED
  BY <1>1, <1>6, <1>7, <1>8

LEMMA AnnotateKeeps ==
  ASSUME OneTarget, QuotaInv, NEW k \in Procs, Annotate(k)
  PROVE  QuotaInv'
<1> DEFINE c == ctl[k]
<1>1. PICK ok \in BOOLEAN, done \in BOOLEAN :
        /\ ok => done
        /\ ann' = IF done THEN [ann EXCEPT ![c.act][c.cur] = c.old] ELSE ann
        /\ Become(k, IF ok THEN [c EXCEPT !.pc = "write"] ELSE Advance([c EXCEPT !.failed = TRUE]))
  BY DEF Annotate
<1>2. /\ c.pc = "annotate" /\ LoopInv(c, ann) /\ PointInv(c, ann, quota)
      /\ Recorded(ann, quota) /\ quota' = quota
  BY DEF QuotaInv, CallInv, Annotate, At
<1>3. /\ c.kind = "apply" /\ c.act \in Acts /\ c.cur \in Scope[c.act] \ c.todo
      /\ c.old = Orig[c.cur] /\ c.cur \in Pods
  BY <1>2, PodsAssumption DEF PointInv, LoopInv
<1> HIDE DEF c
<1>4. /\ ann' = [act \in Acts |-> [q \in Pods |-> ann'[act][q]]]
      /\ \A act \in Acts, q \in Pods :
           ann'[act][q] = IF done /\ act = c.act /\ q = c.cur THEN Orig[q] ELSE ann[act][q]
  <2>1. ann = [act \in Acts |-> [q \in Pods |-> ann[act][q]]]
    BY <1>2 DEF Recorded
  <2>2. CASE done
    <3>1. ann' = [ann EXCEPT ![c.act] = [ann[c.act] EXCEPT ![c.cur] = c.old]]
      BY <1>1, <2>2
    <3>2. /\ ann' = [act \in Acts |-> ann'[act]]
          /\ ann'[c.act] = [ann[c.act] EXCEPT ![c.cur] = c.old]
          /\ \A act \in Acts \ {c.act} : ann'[act] = ann[act]
      BY <1>3, <2>1, <3>1
    <3>3. /\ ann'[c.act] = [q \in Pods |-> ann'[c.act][q]]
          /\ \A q \in Pods : ann'[c.act][q] = IF q = c.cur THEN Orig[q] ELSE ann[c.act][q]
      BY <1>3, <2>1, <3>2
    <3>4. \A act \in Acts : ann'[act] = [q \in Pods |-> ann'[act][q]]
      BY <2>1, <3>2, <3>3
    <3>5. ann' = [act \in Acts |-> [q \in Pods |-> ann'[act][q]]]
      BY <3>2, <3>4
    <3>6. ASSUME NEW act \in Acts, NEW q \in Pods
          PROVE  ann'[act][q] = IF done /\ act = c.act /\ q = c.cur THEN Orig[q] ELSE ann[act][q]
      BY <2>2, <3>2, <3>3
    <3> QED
      BY <3>5, <3>6
  <2>3. CASE ~done
    BY <1>1, <2>1, <2>3
  <2> QED
    BY <2>2, <2>3
<1>5. Recorded(ann', quota')
  <2>1. \A act \in Acts, p \in Pods : ann'[act][p] \in {NoAnn, Orig[p]}
    BY <1>2, <1>4 DEF Recorded
  <2>2. \A act \in Acts, p \in Pods : ann'[act][p] # NoAnn => p \in Scope[act]
    BY <1>2, <1>3, <1>4 DEF Recorded
  <2>3. \A act \in Acts, p \in Pods : ann[act][p] # NoAnn => ann'[act][p] # NoAnn
    BY <1>4, QuotaNotNoAnn DEF Recorded
  <2>4. quota' = [p \in Pods |-> quota'[p]]
    BY <1>2 DEF Recorded
  <2>5. \A p \in Pods : quota'[p] # Orig[p] => \E act \in Acts : ann'[act][p] # NoAnn
    BY <1>2, <2>3 DEF Recorded
  <2> QED
    BY <1>4, <2>1, <2>2, <2>4, <2>5 DEF Recorded
<1>6. LoopInv(c, ann')
  BY <1>2, <1>3, <1>4 DEF LoopInv
<1>7. CASE ok
  <2> DEFINE d == [c EXCEPT !.pc = "write"]
  <2>1. Become(k, d)
    BY <1>1, <1>7
  <2>2. /\ d.pc = "write" /\ d.kind = c.kind /\ d.act = c.act /\ d.acts = c.acts
        /\ d.todo = c.todo /\ d.seen = c.seen /\ d.cur = c.cur /\ IsCall(d)
    BY <1>2 DEF LoopInv, IsCall, Fields
  <2> HIDE DEF d
  <2>3. ann'[d.act][d.cur] # NoAnn
    BY <1>1, <1>3, <1>4, <1>7, <2>2, QuotaNotNoAnn
  <2>4. LoopInv(d, ann') /\ PointInv(d, ann', quota')
    BY <1>3, <1>6, <2>2, <2>3, LoopGoesOn DEF PointInv
  <2> QED
    BY <1>2, <1>5, <2>1, <2>2, <2>4, StepFrame DEF CallInv, c
<1>8. CASE ~ok
  <2> DEFINE d == [c EXCEPT !.failed = TRUE]
  <2>1. CallInv(Advance(d), ann', quota') /\ Advance(d).kind = c.kind
    BY <1>6, ErrInv
  <2> HIDE DEF d
  <2>2. Become(k, Advance(d))
    BY <1>1, <1>8 DEF d
  <2> QED
    BY <1>2, <1>5, <2>1, <2>2, StepFrame DEF c
<1> QED
  BY <1>7, <1>8

\* A quota is written while its original is on record, or written back.
LEMMA WriteRecorded ==
  ASSUME Recorded(ann, quota), NEW p \in Pods, NEW q, NEW ok,
         quota' = IF ok THEN [quota EXCEPT ![p] = q] ELSE quota, ann' = ann,
         q = Orig[p] \/ \E act \in Acts : ann[act][p] # NoAnn
  PROVE  Recorded(ann', quota')
<1>1. /\ quota' = [r \in Pods |-> quota'[r]]
      /\ \A r \in Pods : quota'[r] = IF ok /\ r = p THEN q ELSE quota[r]
  BY DEF Recorded
<1>2. \A r \in Pods : quota'[r] # Orig[r] => \E act \in Acts : ann'[act][r] # NoAnn
  BY <1>1 DEF Recorded
<1> QED
  BY <1>1, <1>2 DEF Recorded

LEMMA WriteKeeps ==
  ASSUME OneTarget, QuotaInv, NEW k \in Procs, Write(k)
  PROVE  QuotaInv'
<1>1. PICK ok \in BOOLEAN :
        LET c == [ctl[k] EXCEPT !.applied = @ \/ ok] IN
        /\ quota' = IF ok THEN [quota EXCEPT ![c.cur] = c.new] ELSE quota
        /\ Become(k, Advance([c EXCEPT !.failed = @ \/ ~ok]))
  BY DEF Write, WriteQuota
<1> DEFINE c == [ctl[k] EXCEPT !.applied = @ \/ ok]
<1>0. /\ quota' = IF ok THEN [quota EXCEPT ![c.cur] = c.new] ELSE quota
      /\ Become(k, Advance([c EXCEPT !.failed = @ \/ ~ok]))
      /\ CallInv(c, ann, quota) /\ c.pc = "write" /\ c.kind = ctl[k].kind
      /\ ctl[k].pc = "write"
  BY <1>1, AppliedInv DEF QuotaInv, Write, At
<1> HIDE DEF c
<1>2. /\ c.pc = "write" /\ LoopInv(c, ann) /\ PointInv(c, ann, quota)
      /\ Recorded(ann, quota) /\ ann' = ann
  BY <1>0 DEF QuotaInv, CallInv, Write
<1>3. c.act \in Acts /\ ann[c.act][c.cur] # NoAnn
  BY <1>2 DEF PointInv, LoopInv
<1>4. Recorded(ann', quota')
  <2>1. CASE c.cur \in Pods
    BY <1>0, <1>2, <1>3, <2>1, WriteRecorded
  <2>2. CASE c.cur \notin Pods
    BY <1>0, <1>2, <2>2 DEF Recorded
  <2> QED
    BY <2>1, <2>2
<1> DEFINE d == [c EXCEPT !.failed = @ \/ ~ok]
<1>5. CallInv(Advance(d), ann', quota') /\ Advance(d).kind = c.kind
  BY <1>2, ErrInv
<1>6. Become(k, Advance(d))
  BY <1>0
<1> HIDE DEF d
<1> QED
  BY <1>0, <1>2, <1>4, <1>5, <1>6, StepFrame

LEMMA ListKeeps ==
  ASSUME OneTarget, QuotaInv, NEW k \in Procs, List(k)
  PROVE  QuotaInv'
<1>1. PICK act \in ctl[k].acts :
        LET c == [ctl[k] EXCEPT !.act = act, !.acts = @ \ {act}, !.seen = ann[act]] IN
        \/ Become(k, Advance([c EXCEPT !.todo = {p \in Listed(k) : ann[act][p] # NoAnn}]))
        \/ Become(k, Advance([c EXCEPT !.failed = TRUE]))
  BY DEF List
<1> DEFINE c == [ctl[k] EXCEPT !.act = act, !.acts = @ \ {act}, !.seen = ann[act]]
<1>2. /\ ctl[k].pc = "list" /\ LoopInv(ctl[k], ann) /\ PointInv(ctl[k], ann, quota)
      /\ Recorded(ann, quota) /\ ctl[k].kind # "apply" /\ ctl[k].todo = {}
      /\ UNCHANGED <<quota, ann>>
  BY DEF QuotaInv, CallInv, PointInv, List, At
<1>3. /\ c.kind = ctl[k].kind /\ c.act = act /\ act \in Acts /\ c.acts \subseteq Acts
      /\ c.todo = {} /\ c.seen = ann[act] /\ IsCall(c)
  BY <1>2 DEF LoopInv, IsCall, Fields
<1>4. Listed(k) \subseteq Pods
  <2>1. ctl[k].kind = "restore" => k \in Targets
    BY DEF QuotaInv, OneCall, Procs
  <2> QED
    BY <2>1, PodsAssumption DEF Listed
<1> HIDE DEF c
<1>5. LoopInv(c, ann)
  BY <1>2, <1>3 DEF LoopInv
<1>6. CASE Become(k, Advance([c EXCEPT !.todo = {p \in Listed(k) : ann[act][p] # NoAnn}]))
  <2> DEFINE l == {p \in Listed(k) : ann[act][p] # NoAnn}
  <2>1. \A p \in l : p \in Pods /\ ann[act][p] # NoAnn
    BY <1>4
  <2>2. Become(k, Advance([c EXCEPT !.todo = l]))
    BY <1>6
  <2> HIDE DEF l
  <2> DEFINE d == [c EXCEPT !.todo = l]
  <2>3. /\ d.kind = c.kind /\ d.act = c.act /\ d.acts = c.acts /\ d.seen = c.seen
        /\ d.todo = l /\ IsCall(d)
    BY <1>3 DEF IsCall, Fields
  <2> HIDE DEF d
  <2>4. LoopInv(d, ann)
    BY <1>2, <1>3, <2>1, <2>3 DEF LoopInv
  <2>5. CallInv(Advance(d), ann, quota) /\ Advance(d).kind = ctl[k].kind
    BY <1>3, <2>3, <2>4, AdvanceInv
  <2>6. Become(k, Advance(d))
    BY <2>2 DEF d
  <2> QED
    BY <1>2, <2>5, <2>6, StepFrame
<1>7. CASE Become(k, Advance([c EXCEPT !.failed = TRUE]))
  <2>1. /\ CallInv(Advance([c EXCEPT !.failed = TRUE]), ann, quota)
        /\ Advance([c EXCEPT !.failed = TRUE]).kind = ctl[k].kind
    BY <1>3, <1>5, ErrInv
  <2> QED
    BY <1>2, <1>7, <2>1, StepFrame
<1> QED
  BY <1>1, <1>6, <1>7 DEF c

LEMMA UndoKeeps ==
  ASSUME OneTarget, QuotaInv, NEW k \in Procs, Undo(k)
  PROVE  QuotaInv'
<1>1. PICK p \in ctl[k].todo, ok \in BOOLEAN :
        LET c == [ctl[k] EXCEPT !.todo = @ \ {p}, !.cur = p] IN
        /\ quota' = IF ok THEN [quota EXCEPT ![p] = c.seen[p]] ELSE quota
        /\ Become(k, IF ok THEN [c EXCEPT !.pc = "clear"] ELSE Advance([c EXCEPT !.failed = TRUE]))
  BY DEF Undo, WriteQuota
<1> DEFINE c == [ctl[k] EXCEPT !.todo = @ \ {p}, !.cur = p]
<1>2. /\ ctl[k].pc = "undo" /\ LoopInv(ctl[k], ann) /\ PointInv(ctl[k], ann, quota)
      /\ Recorded(ann, quota) /\ ctl[k].kind # "apply" /\ ann' = ann
  BY DEF QuotaInv, CallInv, PointInv, Undo, At
<1>3. /\ c.kind = ctl[k].kind /\ c.act = ctl[k].act /\ c.acts = ctl[k].acts
      /\ c.seen = ctl[k].seen /\ c.todo = ctl[k].todo \ {p} /\ c.cur = p /\ IsCall(c)
  BY <1>2 DEF LoopInv, IsCall, Fields
<1>4. p \in Pods /\ c.seen[p] = Orig[p]
  BY <1>2, <1>3 DEF LoopInv, Recorded
<1> HIDE DEF c
<1>5. quota' = IF ok THEN [quota EXCEPT ![p] = Orig[p]] ELSE quota
  BY <1>1, <1>4 DEF c
<1>6. Recorded(ann', quota')
  BY <1>2, <1>4, <1>5, WriteRecorded
<1>7. LoopInv(c, ann')
  BY <1>2, <1>3, LoopGoesOn
<1>8. CASE ok
  <2> DEFINE d == [c EXCEPT !.pc = "clear"]
  <2>1. /\ d.pc = "clear" /\ d.kind = c.kind /\ d.act = c.act /\ d.acts = c.acts
        /\ d.todo = c.todo /\ d.seen = c.seen /\ d.cur = c.cur /\ IsCall(d)
    BY <1>3 DEF IsCall, Fields
  <2>2. Become(k, d)
    BY <1>1, <1>8 DEF c
  <2> HIDE DEF d
  <2>3. quota'[p] = Orig[p]
    BY <1>2, <1>4, <1>5, <1>8 DEF Recorded
  <2>4. LoopInv(d, ann')
    BY <1>7, <2>1, LoopGoesOn
  <2>5. PointInv(d, ann', quota')
    BY <1>2, <1>3, <1>4, <2>1, <2>3 DEF PointInv
  <2> QED
    BY <1>2, <1>3, <1>6, <2>1, <2>2, <2>4, <2>5, StepFrame DEF CallInv
<1>9. CASE ~ok
  <2>1. Become(k, Advance([c EXCEPT !.failed = TRUE]))
    BY <1>1, <1>9 DEF c
  <2>2. /\ CallInv(Advance([c EXCEPT !.failed = TRUE]), ann', quota')
        /\ Advance([c EXCEPT !.failed = TRUE]).kind = ctl[k].kind
    BY <1>3, <1>7, ErrInv
  <2> QED
    BY <1>2, <1>6, <2>1, <2>2, StepFrame
<1> QED
  BY <1>8, <1>9

LEMMA ClearKeeps ==
  ASSUME OneTarget, QuotaInv, NEW k \in Procs, Clear(k)
  PROVE  QuotaInv'
<1> DEFINE c == ctl[k]
<1>1. PICK done \in BOOLEAN :
        /\ ann' = IF done THEN [ann EXCEPT ![c.act][c.cur] = NoAnn] ELSE ann
        /\ Become(k, Advance(c))
  BY DEF Clear
<1>2. /\ c.pc = "clear" /\ LoopInv(c, ann) /\ PointInv(c, ann, quota)
      /\ Recorded(ann, quota) /\ quota' = quota
  BY DEF QuotaInv, CallInv, Clear, At
<1>3. /\ c.act \in Acts /\ c.cur \in Pods \ c.todo /\ quota[c.cur] = Orig[c.cur]
  BY <1>2 DEF PointInv, LoopInv
<1> HIDE DEF c
<1>4. /\ ann' = [act \in Acts |-> [q \in Pods |-> ann'[act][q]]]
      /\ \A act \in Acts, q \in Pods :
           ann'[act][q] = IF done /\ act = c.act /\ q = c.cur THEN NoAnn ELSE ann[act][q]
  <2>1. ann = [act \in Acts |-> [q \in Pods |-> ann[act][q]]]
    BY <1>2 DEF Recorded
  <2>2. CASE done
    <3>1. ann' = [ann EXCEPT ![c.act] = [ann[c.act] EXCEPT ![c.cur] = NoAnn]]
      BY <1>1, <2>2
    <3>2. /\ ann' = [act \in Acts |-> ann'[act]]
          /\ ann'[c.act] = [ann[c.act] EXCEPT ![c.cur] = NoAnn]
          /\ \A act \in Acts \ {c.act} : ann'[act] = ann[act]
      BY <1>3, <2>1, <3>1
    <3>3. /\ ann'[c.act] = [q \in Pods |-> ann'[c.act][q]]
          /\ \A q \in Pods : ann'[c.act][q] = IF q = c.cur THEN NoAnn ELSE ann[c.act][q]
      BY <1>3, <2>1, <3>2
    <3>4. \A act \in Acts : ann'[act] = [q \in Pods |-> ann'[act][q]]
      BY <2>1, <3>2, <3>3
    <3>5. ann' = [act \in Acts |-> [q \in Pods |-> ann'[act][q]]]
      BY <3>2, <3>4
    <3>6. ASSUME NEW act \in Acts, NEW q \in Pods
          PROVE  ann'[act][q] = IF done /\ act = c.act /\ q = c.cur THEN NoAnn ELSE ann[act][q]
      BY <2>2, <3>2, <3>3
    <3> QED
      BY <3>5, <3>6
  <2>3. CASE ~done
    BY <1>1, <2>1, <2>3
  <2> QED
    BY <2>2, <2>3
<1>5. Recorded(ann', quota')
  <2>1. \A act \in Acts, p \in Pods : ann'[act][p] \in {NoAnn, Orig[p]}
    BY <1>2, <1>4 DEF Recorded
  <2>2. \A act \in Acts, p \in Pods : ann'[act][p] # NoAnn => p \in Scope[act]
    BY <1>2, <1>4 DEF Recorded
  <2>3. \A p \in Pods : quota'[p] # Orig[p] => \E act \in Acts : ann'[act][p] # NoAnn
    BY <1>2, <1>3, <1>4 DEF Recorded
  <2>4. quota' = [p \in Pods |-> quota'[p]]
    BY <1>2 DEF Recorded
  <2> QED
    BY <1>4, <2>1, <2>2, <2>3, <2>4 DEF Recorded
<1>6. LoopInv(c, ann')
  BY <1>2, <1>3, <1>4 DEF LoopInv
<1>7. CallInv(Advance(c), ann', quota') /\ Advance(c).kind = c.kind
  BY <1>6, AdvanceInv
<1> QED
  BY <1>1, <1>2, <1>5, <1>7, StepFrame DEF c

LEMMA RepairKeeps ==
  ASSUME OneTarget, QuotaInv, NEW k \in Procs, Repair(k)
  PROVE  QuotaInv'
<1>1. PICK p \in ctl[k].todo :
        LET c == [ctl[k] EXCEPT !.todo = @ \ {p}] IN
        \/ \E ok \in BOOLEAN :
             /\ quota' = IF ok THEN [quota EXCEPT ![p] = Throttled(c.seen[p])] ELSE quota
             /\ Become(k, Advance([c EXCEPT !.failed = @ \/ ~ok]))
        \/ Become(k, Advance(c)) /\ quota' = quota
  BY DEF Repair, WriteQuota
<1> DEFINE c == [ctl[k] EXCEPT !.todo = @ \ {p}]
<1>2. /\ ctl[k].pc = "repair" /\ LoopInv(ctl[k], ann) /\ PointInv(ctl[k], ann, quota)
      /\ Recorded(ann, quota) /\ ctl[k].kind # "apply" /\ ann' = ann
  BY DEF QuotaInv, CallInv, PointInv, Repair, At
<1>3. LoopInv(c, ann) /\ c.kind = ctl[k].kind
  BY <1>2, TakenInv
<1>4. p \in Pods /\ ctl[k].act \in Acts /\ ann[ctl[k].act][p] # NoAnn
  BY <1>2 DEF LoopInv
<1>5. ASSUME NEW ok \in BOOLEAN,
             quota' = IF ok THEN [quota EXCEPT ![p] = Throttled(c.seen[p])] ELSE quota,
             Become(k, Advance([c EXCEPT !.failed = @ \/ ~ok]))
      PROVE  QuotaInv'
  <2> DEFINE x == Throttled(c.seen[p])
  <2>0. quota' = IF ok THEN [quota EXCEPT ![p] = x] ELSE quota
    BY <1>5
  <2> HIDE DEF x
  <2>1. Recorded(ann', quota')
    BY <1>2, <1>4, <2>0, WriteRecorded
  <2> HIDE DEF c
  <2> DEFINE d == [c EXCEPT !.failed = @ \/ ~ok]
  <2>2. CallInv(Advance(d), ann', quota') /\ Advance(d).kind = ctl[k].kind
    BY <1>2, <1>3, ErrInv
  <2> QED
    BY <1>2, <1>5, <2>1, <2>2, StepFrame
<1>6. CASE Become(k, Advance(c)) /\ quota' = quota
  <2> HIDE DEF c
  <2>1. CallInv(Advance(c), ann', quota') /\ Advance(c).kind = ctl[k].kind
    BY <1>2, <1>3, AdvanceInv
  <2> QED
    BY <1>2, <1>6, <2>1, StepFrame
<1> QED
  BY <1>1, <1>5, <1>6

LEMMA RestartKeeps ==
  ASSUME OneTarget, QuotaInv, Restart
  PROVE  QuotaInv'
<1> DEFINE c == [Idle EXCEPT !.pc = "list", !.kind = "reconcile", !.acts = Acts]
<1>1. /\ c.pc = "list" /\ c.kind = "reconcile" /\ c.act \in Acts /\ c.acts = Acts
      /\ c.todo = {} /\ IsCall(c)
  BY DEF Idle, IsCall, Fields, Acts
<1>2. Become(Main, c) /\ ctl[Main].pc = "down" /\ UNCHANGED <<quota, ann>>
  BY DEF Restart, At
<1> HIDE DEF c
<1>3. /\ ctl' = [j \in Procs |-> ctl'[j]] /\ ctl'[Main] = c
      /\ \A j \in Procs \ {Main} : ctl'[j] = ctl[j]
  BY <1>2 DEF Become, QuotaInv, Procs
<1>4. CallInv(c, ann', quota')
  BY <1>1, <1>2 DEF CallInv, LoopInv, PointInv
<1>5. \A j \in Procs : CallInv(ctl'[j], ann', quota')
  BY <1>2, <1>3, <1>4 DEF QuotaInv
<1>6. \A t \in Targets : ctl[t].pc = "idle" /\ ctl'[t] = ctl[t]
  BY <1>2, <1>3, ActorsAssumption DEF QuotaInv, OneCall, Up, At, Procs
<1>7. OneCall'
  BY <1>1, <1>3, <1>6 DEF OneCall
<1> QED
  BY <1>2, <1>3, <1>5, <1>7 DEF QuotaInv

LEMMA CrashKeeps ==
  ASSUME QuotaInv, Crash
  PROVE  QuotaInv'
<1>1. ctl' = [k \in Procs |-> IF k = Main THEN Down ELSE Idle] /\ UNCHANGED <<quota, ann>>
  BY DEF Crash
<1>2. ctl' = [k \in Procs |-> ctl'[k]] /\ \A k \in Procs : ctl'[k] \in {Down, Idle}
  BY <1>1
<1>3. \A k \in Procs : CallInv(ctl'[k], ann', quota')
  BY <1>2, IdleInv
<1>4. (\A t \in Targets : ctl'[t] = Idle) /\ ctl'[Main] = Down
  BY <1>1, ActorsAssumption DEF Procs
<1>5. OneCall'
  BY <1>4, IdleInv DEF OneCall
<1> QED
  BY <1>1, <1>2, <1>3, <1>5 DEF QuotaInv

LEMMA InitKnows ==
  ASSUME Init
  PROVE  QuotaInv
<1>1. Recorded(ann, quota)
  <2>1. quota = [p \in Pods |-> quota[p]]
    BY PodsAssumption DEF Init
  <2> QED
    BY <2>1 DEF Init, Recorded
<1>2. ctl = [k \in Procs |-> ctl[k]] /\ \A k \in Procs : ctl[k] \in {Down, Idle}
  BY DEF Init
<1>3. \A k \in Procs : CallInv(ctl[k], ann, quota)
  BY <1>2, IdleInv
<1>4. (\A t \in Targets : ctl[t] = Idle) /\ ctl[Main] = Down
  BY ActorsAssumption DEF Init, Procs
<1>5. OneCall
  BY <1>4, IdleInv DEF OneCall
<1> QED
  BY <1>1, <1>2, <1>3, <1>5 DEF QuotaInv

-----------------------------------------------------------------------------
(***************************************************************************)
(* The theorem.                                                            *)
(***************************************************************************)
LEMMA QuotaStep ==
  ASSUME OneTarget, ScopesDisjoint, QuotaInv, [IsoNext]_isoVars
  PROVE  QuotaInv'
<1>1. CASE UNCHANGED vars
  BY <1>1 DEF QuotaInv, OneCall, Up, At, vars
<1>2. ASSUME NEW t \in Targets, RulesCall(t)
      PROVE  QuotaInv'
  BY <1>2, CallApplyKeeps, CallRestoreKeeps DEF RulesCall, Call
<1>3. ASSUME NEW t \in Targets, NEW e \in Errors, LawTick(t, e)
      PROVE  QuotaInv'
  BY <1>1, <1>3, CallApplyKeeps DEF LawTick, Acts
<1>4. ASSUME NEW k \in Procs, CallStep(k)
      PROVE  QuotaInv'
  BY <1>4, ReadPodKeeps, AnnotateKeeps, WriteKeeps, ListKeeps, UndoKeeps, ClearKeeps,
     RepairKeeps DEF CallStep, Step
<1>5. CASE Reconcile
  BY <1>5, RestartKeeps DEF Reconcile
<1>6. CASE NewVictim
  BY <1>1, <1>6 DEF NewVictim
<1>7. CASE Crash
  BY <1>7, CrashKeeps
<1> QED
  BY <1>1, <1>2, <1>3, <1>4, <1>5, <1>6, <1>7 DEF IsoNext, isoVars

LEMMA QuotaInvHolds ==
  ASSUME OneTarget, ScopesDisjoint
  PROVE  IsoSpec => []QuotaInv
<1>1. IsoInit => QuotaInv
  BY InitKnows DEF IsoInit
<1>2. QuotaInv /\ [IsoNext]_isoVars => QuotaInv'
  BY QuotaStep
<1> QED
  BY <1>1, <1>2, PTL DEF IsoSpec

\* For every cluster, demand and fault, with one target whose two selectors
\* match no pod in common: a quota other than the pod's own is on record with
\* the actuator that set it (isolate.go:10-11).
THEOREM QuotasAreOnRecord ==
  OneTarget /\ ScopesDisjoint => (IsoSpec => []WrittenIsRecorded)
<1> SUFFICES ASSUME OneTarget, ScopesDisjoint PROVE IsoSpec => []WrittenIsRecorded
  OBVIOUS
<1>1. QuotaInv => WrittenIsRecorded
  BY DEF QuotaInv, Recorded, WrittenIsRecorded
<1> QED
  BY <1>1, QuotaInvHolds, PTL

\* And what is on record is the pod's own quota, never one that an actuator
\* wrote (isolate.go:310-312).
THEOREM QuotaRecordsAreOriginal ==
  OneTarget /\ ScopesDisjoint => (IsoSpec => []RecordIsOriginal)
<1> SUFFICES ASSUME OneTarget, ScopesDisjoint PROVE IsoSpec => []RecordIsOriginal
  OBVIOUS
<1>1. QuotaInv => RecordIsOriginal
  BY DEF QuotaInv, Recorded, RecordIsOriginal
<1> QED
  BY <1>1, QuotaInvHolds, PTL

-----------------------------------------------------------------------------
(***************************************************************************)
(* What a step of a call does to the pods, and what it leaves to do.       *)
(***************************************************************************)
\* Call c has yet to come to pod p for actuator act.
Left(c, act, p) == act \in c.acts \/ (act = c.act /\ p \in c.todo)

LEMMA AdvanceLeaves ==
  ASSUME NEW c, IsCall(c)
  PROVE  /\ Advance(c).kind = c.kind /\ Advance(c).failed = c.failed
         /\ Advance(c).pc \notin {"down", "annotate", "write"}
         /\ \A act \in Acts, p \in Pods : Left(Advance(c), act, p) <=> Left(c, act, p)
<1>1. CASE c.todo # {}
  <2> DEFINE l == LoopLabel(c)
             d == [c EXCEPT !.pc = l, !.cur = NoPod]
  <2>1. l \in {"read", "repair", "undo"} /\ Advance(c) = d
    BY <1>1 DEF LoopLabel, Advance
  <2> HIDE DEF l
  <2>2. /\ d.pc = l /\ d.kind = c.kind /\ d.failed = c.failed /\ d.act = c.act
        /\ d.acts = c.acts /\ d.todo = c.todo
    BY DEF IsCall, Fields
  <2> HIDE DEF d
  <2> QED
    BY <2>1, <2>2 DEF Left
<1>2. CASE c.todo = {} /\ c.acts # {}
  <2> DEFINE d == [c EXCEPT !.pc = "list", !.cur = NoPod]
  <2>1. Advance(c) = d
    BY <1>2 DEF Advance
  <2>2. /\ d.pc = "list" /\ d.kind = c.kind /\ d.failed = c.failed /\ d.act = c.act
        /\ d.acts = c.acts /\ d.todo = c.todo
    BY DEF IsCall, Fields
  <2> HIDE DEF d
  <2> QED
    BY <2>1, <2>2 DEF Left
<1>3. CASE c.todo = {} /\ c.acts = {}
  <2> DEFINE d == [Idle EXCEPT !.kind = c.kind, !.applied = c.applied, !.failed = c.failed]
  <2>1. Advance(c) = d
    BY <1>3 DEF Advance
  <2>2. /\ d.pc = "idle" /\ d.kind = c.kind /\ d.failed = c.failed
        /\ d.acts = {} /\ d.todo = {}
    BY DEF Idle
  <2> HIDE DEF d
  <2> QED
    BY <1>3, <2>1, <2>2 DEF Left
<1> QED
  BY <1>1, <1>2, <1>3

\* The same with another error noted.
LEMMA ErrLeaves ==
  ASSUME NEW c, IsCall(c), NEW e
  PROVE  LET d == Advance([c EXCEPT !.failed = e]) IN
         /\ d.kind = c.kind /\ d.failed = e
         /\ d.pc \notin {"down", "annotate", "write"}
         /\ \A act \in Acts, p \in Pods : Left(d, act, p) <=> Left(c, act, p)
<1> DEFINE d == [c EXCEPT !.failed = e]
<1>1. /\ IsCall(d) /\ d.kind = c.kind /\ d.failed = e /\ d.act = c.act
      /\ d.acts = c.acts /\ d.todo = c.todo
  BY DEF IsCall, Fields
<1> HIDE DEF d
<1>2. /\ Advance(d).kind = c.kind /\ Advance(d).failed = e
      /\ Advance(d).pc \notin {"down", "annotate", "write"}
      /\ \A act \in Acts, p \in Pods : Left(Advance(d), act, p) <=> Left(d, act, p)
  BY <1>1, AdvanceLeaves
<1> QED
  BY <1>1, <1>2 DEF Left, d

\* Of a restore or a reconcile: process k goes on, and if no error is noted, a
\* pod is listed, has its original quota back, loses its record or is throttled.
Came(k, act, p) ==
  /\ Left(ctl[k], act, p)
  /\ \A b \in Acts, q \in Pods :
       Left(ctl[k], b, q) /\ ~(b = act /\ q = p) => Left(ctl'[k], b, q)

SameAnn == \A b \in Acts, q \in Pods : ann'[b][q] = ann[b][q]

Listing(k) ==
  /\ SameAnn /\ \A q \in Pods : quota'[q] = quota[q]
  /\ \A b \in Acts, q \in Pods :
       Left(ctl[k], b, q) /\ q \in Listed(k) /\ ann[b][q] # NoAnn => Left(ctl'[k], b, q)

Undoing(k) ==
  \E act \in Acts, p \in Pods :
    /\ ctl[k].kind = "reconcile" => act = "harvest"
    /\ ann[act][p] # NoAnn
    /\ Came(k, act, p) /\ SameAnn
    /\ \A q \in Pods : quota'[q] = IF q = p THEN Orig[q] ELSE quota[q]

Clearing(k) ==
  \E act \in Acts, p \in Pods :
    /\ quota[p] = Orig[p]
    /\ \A b \in Acts, q \in Pods : Left(ctl[k], b, q) => Left(ctl'[k], b, q)
    /\ \A q \in Pods : quota'[q] = quota[q]
    /\ \A b \in Acts, q \in Pods :
         ann'[b][q] = ann[b][q] \/ (b = act /\ q = p /\ ann'[b][q] = NoAnn)

Repairing(k) ==
  /\ ctl[k].kind = "reconcile"
  /\ \E p \in Pods :
       /\ ann["isolate"][p] # NoAnn
       /\ Came(k, "isolate", p) /\ SameAnn
       /\ \A q \in Pods : quota'[q] = IF q = p /\ Lost(Orig[q], quota[q])
                                      THEN Throttled(Orig[q]) ELSE quota[q]

\* What a step of process k, which restores or reconciles, comes to.
Releasing(k) ==
  /\ ctl' = [j \in Procs |-> ctl'[j]]
  /\ \A j \in Procs \ {k} : ctl'[j] = ctl[j]
  /\ ctl'[k].kind = ctl[k].kind /\ ctl'[k].pc # "down"
  /\ ~ctl'[k].failed =>
       ~ctl[k].failed /\ (Listing(k) \/ Undoing(k) \/ Clearing(k) \/ Repairing(k))

LEMMA BecomeFacts ==
  ASSUME QuotaInv, NEW k \in Procs, NEW c, Become(k, c)
  PROVE  /\ ctl' = [j \in Procs |-> ctl'[j]] /\ ctl'[k] = c
         /\ \A j \in Procs \ {k} : ctl'[j] = ctl[j]
BY DEF Become, QuotaInv

LEMMA ListReleases ==
  ASSUME QuotaInv, NEW k \in Procs, List(k)
  PROVE  Releasing(k)
<1> DEFINE c(act) == [ctl[k] EXCEPT !.act = act, !.acts = @ \ {act}, !.seen = ann[act]]
           found(act) == {p \in Listed(k) : ann[act][p] # NoAnn}
<1>1. PICK act \in ctl[k].acts :
        \/ Become(k, Advance([c(act) EXCEPT !.todo = found(act)]))
        \/ Become(k, Advance([c(act) EXCEPT !.failed = TRUE]))
  BY DEF List
<1>2. /\ IsCall(ctl[k]) /\ ctl[k].todo = {} /\ ctl[k].acts \subseteq Acts
      /\ UNCHANGED <<quota, ann>>
  BY DEF QuotaInv, CallInv, LoopInv, PointInv, List, At
<1> DEFINE b == c(act)
           f == found(act)
<1>3. /\ IsCall(b) /\ b.kind = ctl[k].kind /\ b.act = act /\ b.acts = ctl[k].acts \ {act}
      /\ b.failed = ctl[k].failed
  BY <1>2 DEF IsCall, Fields
<1>4. f = {p \in Listed(k) : ann[act][p] # NoAnn}
  OBVIOUS
<1>5. \/ Become(k, Advance([b EXCEPT !.todo = f]))
      \/ Become(k, Advance([b EXCEPT !.failed = TRUE]))
  BY <1>1
<1> HIDE DEF b, f
<1>6. CASE Become(k, Advance([b EXCEPT !.todo = f]))
  <2> DEFINE d == [b EXCEPT !.todo = f]
  <2>1. /\ IsCall(d) /\ d.kind = b.kind /\ d.act = act /\ d.acts = b.acts /\ d.todo = f
        /\ d.failed = b.failed
    BY <1>3 DEF IsCall, Fields
  <2> HIDE DEF d
  <2>2. /\ ctl' = [j \in Procs |-> ctl'[j]] /\ ctl'[k] = Advance(d)
        /\ \A j \in Procs \ {k} : ctl'[j] = ctl[j]
    BY <1>6, BecomeFacts DEF d
  <2>3. /\ Advance(d).kind = d.kind /\ Advance(d).failed = d.failed /\ Advance(d).pc # "down"
        /\ \A a \in Acts, p \in Pods : Left(Advance(d), a, p) <=> Left(d, a, p)
    BY <2>1, AdvanceLeaves
  <2>4. \A a \in Acts, q \in Pods :
          Left(ctl[k], a, q) /\ q \in Listed(k) /\ ann[a][q] # NoAnn => Left(d, a, q)
    BY <1>2, <1>3, <1>4, <2>1 DEF Left
  <2>5. Listing(k)
    BY <1>2, <2>2, <2>3, <2>4 DEF Listing, SameAnn
  <2> QED
    BY <1>3, <2>1, <2>2, <2>3, <2>5 DEF Releasing
<1>7. CASE Become(k, Advance([b EXCEPT !.failed = TRUE]))
  <2>1. /\ ctl' = [j \in Procs |-> ctl'[j]] /\ ctl'[k] = Advance([b EXCEPT !.failed = TRUE])
        /\ \A j \in Procs \ {k} : ctl'[j] = ctl[j]
    BY <1>7, BecomeFacts
  <2> DEFINE e == TRUE
             d == Advance([b EXCEPT !.failed = e])
  <2>2. ctl'[k] = d
    BY <2>1
  <2> HIDE DEF e
  <2>3. d.kind = b.kind /\ d.failed = e /\ d.pc # "down"
    BY <1>3, ErrLeaves
  <2> HIDE DEF d
  <2> QED
    BY <1>3, <2>1, <2>2, <2>3 DEF Releasing, e
<1> QED
  BY <1>5, <1>6, <1>7

LEMMA UndoReleases ==
  ASSUME QuotaInv, NEW k \in Procs, Undo(k)
  PROVE  Releasing(k)
<1>1. PICK p \in ctl[k].todo, ok \in BOOLEAN :
        LET c == [ctl[k] EXCEPT !.todo = @ \ {p}, !.cur = p] IN
        /\ quota' = IF ok THEN [quota EXCEPT ![p] = c.seen[p]] ELSE quota
        /\ Become(k, IF ok THEN [c EXCEPT !.pc = "clear"] ELSE Advance([c EXCEPT !.failed = TRUE]))
  BY DEF Undo, WriteQuota
<1> DEFINE c == [ctl[k] EXCEPT !.todo = @ \ {p}, !.cur = p]
<1>2. /\ ctl[k].pc = "undo" /\ LoopInv(ctl[k], ann) /\ PointInv(ctl[k], ann, quota)
      /\ Recorded(ann, quota) /\ ann' = ann
  BY DEF QuotaInv, CallInv, Undo, At
<1>3. /\ ctl[k].kind # "apply" /\ IsCall(ctl[k]) /\ ctl[k].act \in Acts
      /\ p \in Pods /\ ctl[k].seen[p] = ann[ctl[k].act][p] /\ ann[ctl[k].act][p] # NoAnn
  BY <1>2 DEF LoopInv, PointInv
<1>4. /\ IsCall(c) /\ c.kind = ctl[k].kind /\ c.act = ctl[k].act /\ c.acts = ctl[k].acts
      /\ c.todo = ctl[k].todo \ {p} /\ c.seen = ctl[k].seen /\ c.failed = ctl[k].failed
  BY <1>3 DEF IsCall, Fields
<1>5. /\ quota' = IF ok THEN [quota EXCEPT ![p] = c.seen[p]] ELSE quota
      /\ Become(k, IF ok THEN [c EXCEPT !.pc = "clear"] ELSE Advance([c EXCEPT !.failed = TRUE]))
  BY <1>1
<1> HIDE DEF c
<1>6. CASE ok
  <2> DEFINE d == [c EXCEPT !.pc = "clear"]
  <2>1. /\ d.pc = "clear" /\ d.kind = c.kind /\ d.act = c.act /\ d.acts = c.acts
        /\ d.todo = c.todo /\ d.failed = c.failed
    BY <1>4 DEF IsCall, Fields
  <2> HIDE DEF d
  <2>2. /\ ctl' = [j \in Procs |-> ctl'[j]] /\ ctl'[k] = d
        /\ \A j \in Procs \ {k} : ctl'[j] = ctl[j]
    BY <1>5, <1>6, BecomeFacts DEF d
  <2>3. c.seen[p] = Orig[p]
    BY <1>2, <1>3, <1>4 DEF Recorded
  <2>4. \A q \in Pods : quota'[q] = IF q = p THEN Orig[q] ELSE quota[q]
    BY <1>2, <1>3, <1>5, <1>6, <2>3 DEF Recorded
  <2>5. Came(k, ctl[k].act, p)
    BY <1>1, <1>4, <2>1, <2>2 DEF Came, Left
  <2>6. ctl[k].kind = "reconcile" => ctl[k].act = "harvest"
    BY <1>2, <1>3 DEF PointInv, Acts
  <2>7. Undoing(k)
    BY <1>2, <1>3, <2>4, <2>5, <2>6 DEF Undoing, SameAnn
  <2> QED
    BY <1>4, <2>1, <2>2, <2>7 DEF Releasing
<1>7. CASE ~ok
  <2>1. /\ ctl' = [j \in Procs |-> ctl'[j]] /\ ctl'[k] = Advance([c EXCEPT !.failed = TRUE])
        /\ \A j \in Procs \ {k} : ctl'[j] = ctl[j]
    BY <1>5, <1>7, BecomeFacts
  <2> DEFINE e == TRUE
             d == Advance([c EXCEPT !.failed = e])
  <2>2. ctl'[k] = d
    BY <2>1
  <2> HIDE DEF e
  <2>3. d.kind = c.kind /\ d.failed = e /\ d.pc # "down"
    <3>1. IsCall(c)
      BY <1>4
    <3> QED
      BY <3>1, ErrLeaves
  <2> HIDE DEF d
  <2> QED
    BY <1>4, <2>1, <2>2, <2>3 DEF Releasing, e
<1> QED
  BY <1>6, <1>7

LEMMA ClearReleases ==
  ASSUME QuotaInv, NEW k \in Procs, Clear(k)
  PROVE  Releasing(k)
<1> DEFINE c == ctl[k]
<1>1. PICK done \in BOOLEAN :
        /\ ann' = IF done THEN [ann EXCEPT ![c.act][c.cur] = NoAnn] ELSE ann
        /\ Become(k, Advance(c))
  BY DEF Clear
<1>2. /\ c.pc = "clear" /\ LoopInv(c, ann) /\ PointInv(c, ann, quota)
      /\ Recorded(ann, quota) /\ quota' = quota
  BY DEF QuotaInv, CallInv, Clear, At
<1>3. /\ c.act \in Acts /\ c.cur \in Pods /\ quota[c.cur] = Orig[c.cur] /\ IsCall(c)
  BY <1>2 DEF PointInv, LoopInv
<1>4. /\ ctl' = [j \in Procs |-> ctl'[j]] /\ ctl'[k] = Advance(c)
      /\ \A j \in Procs \ {k} : ctl'[j] = ctl[j]
  BY <1>1, BecomeFacts
<1>5. /\ Advance(c).kind = c.kind /\ Advance(c).failed = c.failed /\ Advance(c).pc # "down"
      /\ \A a \in Acts, p \in Pods : Left(Advance(c), a, p) <=> Left(c, a, p)
  BY <1>3, AdvanceLeaves
<1>6. \A b \in Acts, q \in Pods :
        ann'[b][q] = ann[b][q] \/ (b = c.act /\ q = c.cur /\ ann'[b][q] = NoAnn)
  <2> HIDE DEF c
  <2>1. ann = [act \in Acts |-> [q \in Pods |-> ann[act][q]]]
    BY <1>2 DEF Recorded
  <2>2. CASE done
    <3>1. ann' = [ann EXCEPT ![c.act] = [ann[c.act] EXCEPT ![c.cur] = NoAnn]]
      BY <1>1, <2>2
    <3>2. /\ ann'[c.act] = [ann[c.act] EXCEPT ![c.cur] = NoAnn]
          /\ \A act \in Acts \ {c.act} : ann'[act] = ann[act]
      BY <1>3, <2>1, <3>1
    <3>3. \A q \in Pods : ann'[c.act][q] = IF q = c.cur THEN NoAnn ELSE ann[c.act][q]
      BY <1>3, <2>1, <3>2
    <3> QED
      BY <3>2, <3>3
  <2>3. CASE ~done
    BY <1>1, <2>3
  <2> QED
    BY <2>2, <2>3
<1>7. Clearing(k)
  BY <1>2, <1>3, <1>4, <1>5, <1>6 DEF Clearing
<1> QED
  BY <1>4, <1>5, <1>7 DEF Releasing

LEMMA RepairReleases ==
  ASSUME QuotaInv, NEW k \in Procs, Repair(k)
  PROVE  Releasing(k)
<1>1. PICK p \in ctl[k].todo :
        LET c == [ctl[k] EXCEPT !.todo = @ \ {p}] IN
        \/ /\ Lost(c.seen[p], quota[p])
           /\ \E ok \in BOOLEAN :
                /\ quota' = IF ok THEN [quota EXCEPT ![p] = Throttled(c.seen[p])] ELSE quota
                /\ Become(k, Advance([c EXCEPT !.failed = @ \/ ~ok]))
        \/ ~Lost(c.seen[p], quota[p]) /\ Become(k, Advance(c)) /\ quota' = quota
  BY DEF Repair, WriteQuota
<1> DEFINE c == [ctl[k] EXCEPT !.todo = @ \ {p}]
<1>2. /\ ctl[k].pc = "repair" /\ LoopInv(ctl[k], ann) /\ PointInv(ctl[k], ann, quota)
      /\ Recorded(ann, quota) /\ ann' = ann
  BY DEF QuotaInv, CallInv, Repair, At
<1>3. /\ ctl[k].kind = "reconcile" /\ ctl[k].act = "isolate" /\ IsCall(ctl[k])
      /\ p \in Pods /\ ctl[k].seen[p] = ann["isolate"][p] /\ ann["isolate"][p] # NoAnn
  BY <1>2 DEF LoopInv, PointInv
<1>4. /\ IsCall(c) /\ c.kind = ctl[k].kind /\ c.act = ctl[k].act /\ c.acts = ctl[k].acts
      /\ c.todo = ctl[k].todo \ {p} /\ c.seen = ctl[k].seen /\ c.failed = ctl[k].failed
  BY <1>3 DEF IsCall, Fields
<1>5. \/ /\ Lost(c.seen[p], quota[p])
         /\ \E ok \in BOOLEAN :
              /\ quota' = IF ok THEN [quota EXCEPT ![p] = Throttled(c.seen[p])] ELSE quota
              /\ Become(k, Advance([c EXCEPT !.failed = @ \/ ~ok]))
      \/ ~Lost(c.seen[p], quota[p]) /\ Become(k, Advance(c)) /\ quota' = quota
  BY <1>1
<1> HIDE DEF c
<1>6. c.seen[p] = Orig[p]
  BY <1>2, <1>3, <1>4 DEF Recorded, Acts
<1>7. ASSUME \A b \in Acts, q \in Pods : Left(ctl'[k], b, q) <=> Left(c, b, q)
      PROVE  Came(k, "isolate", p)
  BY <1>1, <1>3, <1>4, <1>7 DEF Came, Left
<1>8. ASSUME NEW ok \in BOOLEAN, Lost(c.seen[p], quota[p]),
             quota' = IF ok THEN [quota EXCEPT ![p] = Throttled(c.seen[p])] ELSE quota,
             Become(k, Advance([c EXCEPT !.failed = @ \/ ~ok]))
      PROVE  Releasing(k)
  <2> DEFINE e == c.failed \/ ~ok
  <2>1. Become(k, Advance([c EXCEPT !.failed = e]))
    BY <1>8
  <2> HIDE DEF e
  <2>2. /\ ctl' = [j \in Procs |-> ctl'[j]] /\ ctl'[k] = Advance([c EXCEPT !.failed = e])
        /\ \A j \in Procs \ {k} : ctl'[j] = ctl[j]
    BY <2>1, BecomeFacts
  <2>3. /\ ctl'[k].kind = c.kind /\ ctl'[k].failed = e /\ ctl'[k].pc # "down"
        /\ \A b \in Acts, q \in Pods : Left(ctl'[k], b, q) <=> Left(c, b, q)
    <3> DEFINE d == Advance([c EXCEPT !.failed = e])
    <3>1. /\ d.kind = c.kind /\ d.failed = e /\ d.pc # "down"
          /\ \A b \in Acts, q \in Pods : Left(d, b, q) <=> Left(c, b, q)
      BY <1>4, ErrLeaves
    <3>2. ctl'[k] = d
      BY <2>2
    <3> HIDE DEF d
    <3> QED
      BY <3>1, <3>2
  <2>4. ~e => ~c.failed /\ ok
    BY DEF e
  <2>5. ok => \A q \in Pods : quota'[q] = IF q = p /\ Lost(Orig[q], quota[q])
                                          THEN Throttled(Orig[q]) ELSE quota[q]
    <3> DEFINE x == Throttled(Orig[p])
    <3>1. ok => quota' = [quota EXCEPT ![p] = x]
      BY <1>6, <1>8
    <3>2. Lost(Orig[p], quota[p])
      BY <1>6, <1>8
    <3> HIDE DEF x
    <3>3. ok => \A q \in Pods : quota'[q] = IF q = p THEN x ELSE quota[q]
      BY <1>2, <1>3, <3>1 DEF Recorded
    <3> QED
      BY <3>2, <3>3 DEF x
  <2>6. ~e => Repairing(k)
    BY <1>2, <1>3, <1>7, <2>3, <2>4, <2>5 DEF Repairing, SameAnn
  <2> QED
    BY <1>4, <2>2, <2>3, <2>4, <2>6 DEF Releasing
<1>9. ASSUME ~Lost(c.seen[p], quota[p]), Become(k, Advance(c)), quota' = quota
      PROVE  Releasing(k)
  <2>1. /\ ctl' = [j \in Procs |-> ctl'[j]] /\ ctl'[k] = Advance(c)
        /\ \A j \in Procs \ {k} : ctl'[j] = ctl[j]
    BY <1>9, BecomeFacts
  <2>2. /\ ctl'[k].kind = c.kind /\ ctl'[k].failed = c.failed /\ ctl'[k].pc # "down"
        /\ \A b \in Acts, q \in Pods : Left(ctl'[k], b, q) <=> Left(c, b, q)
    BY <1>4, <2>1, AdvanceLeaves
  <2>3. \A q \in Pods : quota'[q] = IF q = p /\ Lost(Orig[q], quota[q])
                                    THEN Throttled(Orig[q]) ELSE quota[q]
    BY <1>6, <1>9
  <2>4. Repairing(k)
    BY <1>2, <1>3, <1>7, <2>2, <2>3 DEF Repairing, SameAnn
  <2> QED
    BY <1>4, <2>1, <2>2, <2>4 DEF Releasing
<1> QED
  BY <1>5, <1>8, <1>9

LEMMA StepReleases ==
  ASSUME QuotaInv, NEW k \in Procs, Step(k), ctl[k].kind # "apply"
  PROVE  Releasing(k)
<1>1. ~At(k, "read") /\ ~At(k, "annotate") /\ ~At(k, "write")
  BY DEF QuotaInv, CallInv, PointInv, At
<1> QED
  BY <1>1, ListReleases, UndoReleases, ClearReleases, RepairReleases
  DEF Step, ReadPod, Annotate, Write

\* A step of an Apply is still one of an Apply.
LEMMA StepApplies ==
  ASSUME QuotaInv, NEW k \in Procs, Step(k), ctl[k].kind = "apply"
  PROVE  /\ ctl' = [j \in Procs |-> ctl'[j]]
         /\ \A j \in Procs \ {k} : ctl'[j] = ctl[j]
         /\ ctl'[k].kind = "apply"
<1>0. IsCall(ctl[k])
  BY DEF QuotaInv, CallInv, LoopInv
<1>1. At(k, "read") \/ At(k, "annotate") \/ At(k, "write")
  BY DEF Step, ReadPod, Annotate, Write, List, Undo, Clear, Repair, QuotaInv, CallInv,
         PointInv, At
<1>2. ASSUME NEW c, Become(k, c), c.kind = "apply"
      PROVE  /\ ctl' = [j \in Procs |-> ctl'[j]]
             /\ \A j \in Procs \ {k} : ctl'[j] = ctl[j]
             /\ ctl'[k].kind = "apply"
  BY <1>2, BecomeFacts
<1>3. ASSUME NEW c, IsCall(c), c.kind = "apply"
      PROVE  /\ Advance(c).kind = "apply"
             /\ \A e : Advance([c EXCEPT !.failed = e]).kind = "apply"
  BY <1>3, AdvanceLeaves, ErrLeaves
<1>4. CASE ReadPod(k)
  <2>1. PICK p \in ctl[k].todo :
          LET c == [ctl[k] EXCEPT !.todo = @ \ {p}]
              wanted == Wanted(c, quota[p], c.seen[p])
          IN \/ Become(k, Advance([c EXCEPT !.failed = TRUE]))
             \/ Become(k, Advance(c))
             \/ \E new \in wanted :
                  Become(k, [c EXCEPT !.pc = IF c.seen[p] = NoAnn THEN "annotate" ELSE "write",
                                      !.cur = p, !.old = quota[p], !.new = new])
    BY <1>4 DEF ReadPod
  <2> DEFINE c == [ctl[k] EXCEPT !.todo = @ \ {p}]
  <2>2. IsCall(c) /\ c.kind = "apply"
    BY <1>0 DEF IsCall, Fields
  <2>3. \/ Become(k, Advance([c EXCEPT !.failed = TRUE]))
        \/ Become(k, Advance(c))
        \/ \E new :
             Become(k, [c EXCEPT !.pc = IF c.seen[p] = NoAnn THEN "annotate" ELSE "write",
                                 !.cur = p, !.old = quota[p], !.new = new])
    BY <2>1
  <2> HIDE DEF c
  <2>4. ASSUME NEW new
        PROVE  [c EXCEPT !.pc = IF c.seen[p] = NoAnn THEN "annotate" ELSE "write",
                         !.cur = p, !.old = quota[p], !.new = new].kind = "apply"
    BY <2>2 DEF IsCall, Fields
  <2> QED
    BY <1>2, <1>3, <2>2, <2>3, <2>4
<1>5. CASE Annotate(k)
  <2>1. \/ Become(k, [ctl[k] EXCEPT !.pc = "write"])
        \/ Become(k, Advance([ctl[k] EXCEPT !.failed = TRUE]))
    BY <1>5 DEF Annotate
  <2>2. [ctl[k] EXCEPT !.pc = "write"].kind = "apply"
    BY <1>0 DEF IsCall, Fields
  <2> QED
    BY <1>0, <1>2, <1>3, <2>1, <2>2
<1>6. CASE Write(k)
  <2>1. PICK ok \in BOOLEAN :
          LET c == [ctl[k] EXCEPT !.applied = @ \/ ok] IN
          Become(k, Advance([c EXCEPT !.failed = @ \/ ~ok]))
    BY <1>6 DEF Write
  <2> DEFINE c == [ctl[k] EXCEPT !.applied = @ \/ ok]
  <2>2. IsCall(c) /\ c.kind = "apply"
    BY <1>0, AppliedFacts
  <2>3. \E e : Become(k, Advance([c EXCEPT !.failed = e]))
    BY <2>1
  <2> HIDE DEF c
  <2> QED
    BY <1>2, <1>3, <2>2, <2>3
<1> QED
  BY <1>1, <1>4, <1>5, <1>6 DEF Step, List, Undo, Clear, Repair, At

-----------------------------------------------------------------------------
(***************************************************************************)
(* What a Restore and a Reconcile have achieved so far.                    *)
(***************************************************************************)
\* A pod whose quota is not its own is still to come to, under its record.
Restoring(k) ==
  ctl[k].kind = "restore" /\ ~ctl[k].failed =>
    \A p \in RestoreScope[k] :
      quota[p] # Orig[p] =>
        \E act \in Acts : ann[act][p] # NoAnn /\ Left(ctl[k], act, p)

\* An annotated pod at its original quota, and a grant, are still to come to.
Reconciling ==
  ~ctl[Main].failed =>
    /\ \A p \in Pods :
         ann["isolate"][p] # NoAnn /\ Orig[p] # Unbounded /\ quota[p] = Orig[p]
           => Left(ctl[Main], "isolate", p)
    /\ \A p \in Scope["harvest"] \ Scope["isolate"] :
         quota[p] # Orig[p]
           => ann["harvest"][p] # NoAnn /\ Left(ctl[Main], "harvest", p)

\* Every aggressor with a quota has more than the least a throttle leaves.
QuotasThrottle == \A p \in Scope["isolate"] : Orig[p] # Unbounded => Orig[p] > MinQuota

ReleaseInv ==
  /\ ~Up => \A t \in Targets : ctl[t].kind = "none"
  /\ ctl[Main].pc # "down" => ctl[Main].kind = "reconcile"
  /\ \A t \in Targets : Restoring(t)
  /\ QuotasThrottle /\ ~Up /\ ctl[Main].pc # "down" => Reconciling

LEMMA ThrottledLower ==
  ASSUME QuotasThrottle, NEW p \in Scope["isolate"], Orig[p] # Unbounded
  PROVE  Orig[p] \in Nat /\ Orig[p] > 0 /\ Throttled(Orig[p]) # Orig[p]
<1>1. Orig[p] \in Nat /\ MinQuota \in Nat /\ Orig[p] > MinQuota
  BY PodsAssumption, QuotasAssumption DEF QuotasThrottle, Acts
<1> DEFINE h == Orig[p] \div 2
<1>2. h \in Nat /\ h < Orig[p]
  BY <1>1
<1> HIDE DEF h
<1>3. Throttled(Orig[p]) = AtLeast(MinQuota, h)
  BY <1>1 DEF Throttled, Unbounded, h
<1> QED
  BY <1>1, <1>2, <1>3 DEF AtLeast

LEMMA ReleasingRestores ==
  ASSUME QuotaInv, NEW t \in Targets, ctl[t].kind = "restore", Restoring(t), Releasing(t)
  PROVE  Restoring(t)'
<1> SUFFICES ASSUME ~ctl'[t].failed, NEW p \in RestoreScope[t], quota'[p] # Orig[p]
             PROVE  \E act \in Acts : ann'[act][p] # NoAnn /\ Left(ctl'[t], act, p)
  BY DEF Restoring, Left
<1>1. p \in Pods /\ Listed(t) = RestoreScope[t] /\ ~ctl[t].failed
  BY PodsAssumption DEF Listed, Releasing
<1>2. quota[p] # Orig[p] =>
        \E act \in Acts : ann[act][p] # NoAnn /\ Left(ctl[t], act, p)
  BY <1>1 DEF Restoring
<1>3. CASE Listing(t)
  BY <1>1, <1>2, <1>3 DEF Listing, SameAnn
<1>4. CASE Undoing(t)
  <2>1. PICK act \in Acts, q \in Pods :
          /\ Came(t, act, q) /\ SameAnn
          /\ \A r \in Pods : quota'[r] = IF r = q THEN Orig[r] ELSE quota[r]
    BY <1>4 DEF Undoing
  <2>2. p # q /\ quota[p] # Orig[p]
    BY <1>1, <2>1
  <2> QED
    BY <1>1, <1>2, <2>1, <2>2 DEF Came, SameAnn
<1>5. CASE Clearing(t)
  <2>1. PICK act \in Acts, q \in Pods :
          /\ quota[q] = Orig[q]
          /\ \A b \in Acts, r \in Pods : Left(ctl[t], b, r) => Left(ctl'[t], b, r)
          /\ \A r \in Pods : quota'[r] = quota[r]
          /\ \A b \in Acts, r \in Pods :
               ann'[b][r] = ann[b][r] \/ (b = act /\ r = q /\ ann'[b][r] = NoAnn)
    BY <1>5 DEF Clearing
  <2>2. p # q /\ quota[p] # Orig[p]
    BY <1>1, <2>1
  <2> QED
    BY <1>1, <1>2, <2>1, <2>2
<1>6. ~Repairing(t)
  BY DEF Repairing
<1> QED
  BY <1>3, <1>4, <1>5, <1>6 DEF Releasing

LEMMA ReleasingReconciles ==
  ASSUME ScopesDisjoint, QuotasThrottle, QuotaInv, ctl[Main].kind = "reconcile",
         Reconciling, Releasing(Main)
  PROVE  Reconciling'
<1> SUFFICES ASSUME ~ctl'[Main].failed
             PROVE  /\ \A p \in Pods :
                         ann'["isolate"][p] # NoAnn /\ Orig[p] # Unbounded
                         /\ quota'[p] = Orig[p]
                           => Left(ctl'[Main], "isolate", p)
                    /\ \A p \in Scope["harvest"] \ Scope["isolate"] :
                         quota'[p] # Orig[p]
                           => ann'["harvest"][p] # NoAnn /\ Left(ctl'[Main], "harvest", p)
  BY DEF Reconciling, Left
<1>0. /\ Listed(Main) = Pods /\ "isolate" \in Acts /\ "harvest" \in Acts
      /\ ~ctl[Main].failed /\ Scope["harvest"] \subseteq Pods
  BY PodsAssumption DEF Listed, Releasing, Acts
<1>1. /\ \A p \in Pods :
           ann["isolate"][p] # NoAnn /\ Orig[p] # Unbounded /\ quota[p] = Orig[p]
             => Left(ctl[Main], "isolate", p)
      /\ \A p \in Scope["harvest"] \ Scope["isolate"] :
           quota[p] # Orig[p]
             => ann["harvest"][p] # NoAnn /\ Left(ctl[Main], "harvest", p)
  BY <1>0 DEF Reconciling
<1>2. \A act \in Acts, p \in Pods : ann[act][p] # NoAnn => p \in Scope[act]
  BY DEF QuotaInv, Recorded
<1>3. CASE Listing(Main)
  BY <1>0, <1>1, <1>3 DEF Listing, SameAnn
<1>4. CASE Undoing(Main)
  <2>1. PICK q \in Pods :
          /\ ann["harvest"][q] # NoAnn
          /\ Came(Main, "harvest", q) /\ SameAnn
          /\ \A r \in Pods : quota'[r] = IF r = q THEN Orig[r] ELSE quota[r]
    BY <1>4 DEF Undoing
  <2>2. ann["isolate"][q] = NoAnn
    BY <1>0, <1>2, <2>1 DEF ScopesDisjoint
  <2> QED
    BY <1>0, <1>1, <2>1, <2>2 DEF Came, SameAnn
<1>5. CASE Clearing(Main)
  <2>1. PICK act \in Acts, q \in Pods :
          /\ quota[q] = Orig[q]
          /\ \A b \in Acts, r \in Pods : Left(ctl[Main], b, r) => Left(ctl'[Main], b, r)
          /\ \A r \in Pods : quota'[r] = quota[r]
          /\ \A b \in Acts, r \in Pods :
               ann'[b][r] = ann[b][r] \/ (b = act /\ r = q /\ ann'[b][r] = NoAnn)
    BY <1>5 DEF Clearing
  <2> QED
    BY <1>0, <1>1, <2>1
<1>6. CASE Repairing(Main)
  <2>1. PICK q \in Pods :
          /\ ann["isolate"][q] # NoAnn
          /\ Came(Main, "isolate", q) /\ SameAnn
          /\ \A r \in Pods : quota'[r] = IF r = q /\ Lost(Orig[r], quota[r])
                                         THEN Throttled(Orig[r]) ELSE quota[r]
    BY <1>6 DEF Repairing
  <2>2. q \in Scope["isolate"]
    BY <1>0, <1>2, <2>1
  <2>3. Orig[q] # Unbounded => quota'[q] # Orig[q]
    <3>1. SUFFICES ASSUME Orig[q] # Unbounded PROVE quota'[q] # Orig[q]
      OBVIOUS
    <3>2. Orig[q] \in Nat /\ Orig[q] > 0 /\ Throttled(Orig[q]) # Orig[q]
      BY <2>2, <3>1, ThrottledLower
    <3>3. quota[q] = Orig[q] => Lost(Orig[q], quota[q])
      BY <3>2 DEF Lost
    <3> QED
      BY <2>1, <3>2, <3>3
  <2> QED
    BY <1>0, <1>1, <2>1, <2>2, <2>3 DEF Came, SameAnn
<1> QED
  BY <1>3, <1>4, <1>5, <1>6 DEF Releasing

\* Only a call that is under way has a step.
LEMMA StepIsBusy ==
  ASSUME NEW k \in Procs, Step(k)
  PROVE  ctl[k].pc \notin {"idle", "down"}
BY DEF Step, ReadPod, Annotate, Write, List, Undo, Clear, Repair, At

LEMMA RestartReconciles ==
  ASSUME QuotaInv, ReleaseInv, Restart
  PROVE  ReleaseInv'
<1> DEFINE c == [Idle EXCEPT !.pc = "list", !.kind = "reconcile", !.acts = Acts]
<1>1. c.pc = "list" /\ c.kind = "reconcile" /\ c.acts = Acts
  BY DEF Idle
<1>2. Become(Main, c) /\ ctl[Main].pc = "down" /\ UNCHANGED <<quota, ann>>
  BY DEF Restart, At
<1> HIDE DEF c
<1>3. ctl'[Main] = c /\ \A t \in Targets : ctl'[t] = ctl[t]
  BY <1>2, BecomeFacts, ActorsAssumption DEF Procs
<1>4. \A t \in Targets : ctl'[t].kind = "none"
  BY <1>2, <1>3 DEF ReleaseInv, Up, At
<1>5. Reconciling'
  <2>1. /\ \A act \in Acts, p \in Pods : ann[act][p] # NoAnn => p \in Scope[act]
        /\ \A p \in Pods : quota[p] # Orig[p] => \E act \in Acts : ann[act][p] # NoAnn
    BY DEF QuotaInv, Recorded
  <2>2. "isolate" \in Acts /\ "harvest" \in Acts /\ Scope["harvest"] \subseteq Pods
    BY PodsAssumption DEF Acts
  <2>3. \A p \in Scope["harvest"] \ Scope["isolate"] :
          quota[p] # Orig[p] => ann["harvest"][p] # NoAnn
    BY <2>1, <2>2 DEF Acts
  <2>4. \A p \in Pods : Left(c, "isolate", p) /\ Left(c, "harvest", p)
    BY <1>1, <2>2 DEF Left
  <2> QED
    BY <1>2, <1>3, <2>2, <2>3, <2>4 DEF Reconciling, Left
<1> QED
  BY <1>1, <1>3, <1>4, <1>5 DEF ReleaseInv, Restoring

LEMMA CallReleases ==
  ASSUME OneTarget, QuotaInv, ReleaseInv, NEW t \in Targets, Up,
         CallRestore(t) \/ \E act \in Acts : \E demand : CallApply(t, act, demand)
  PROVE  ReleaseInv'
<1>1. UNCHANGED <<quota, ann>>
  BY DEF CallRestore, CallApply
<1>2. ASSUME NEW c, Become(t, c),
             c.kind = "restore" => c.acts = Acts
      PROVE  ReleaseInv'
  <2>1. ctl'[t] = c /\ ctl'[Main] = ctl[Main] /\ \A s \in Targets : s = t
    BY <1>2, BecomeFacts, ActorsAssumption DEF OneTarget, Procs
  <2>2. ASSUME c.kind = "restore", NEW p \in RestoreScope[t], quota[p] # Orig[p]
        PROVE  \E act \in Acts : ann[act][p] # NoAnn /\ act \in c.acts
    <3>1. p \in Pods
      BY PodsAssumption
    <3> QED
      BY <1>2, <2>2, <3>1 DEF QuotaInv, Recorded
  <2>3. Restoring(t)'
    BY <1>1, <2>1, <2>2 DEF Restoring, Left
  <2> QED
    BY <1>1, <2>1, <2>3 DEF ReleaseInv, Up, At
<1>3. CASE CallRestore(t)
  <2> DEFINE c == [Idle EXCEPT !.pc = "list", !.kind = "restore", !.acts = Acts]
  <2>1. Become(t, c) /\ c.acts = Acts
    BY <1>3 DEF CallRestore, Idle
  <2> HIDE DEF c
  <2> QED
    BY <1>2, <2>1
<1>4. ASSUME NEW act \in Acts, NEW demand, CallApply(t, act, demand)
      PROVE  ReleaseInv'
  <2>1. CASE Become(t, Idle)
    BY <1>2, <2>1, IdleInv
  <2>2. CASE ~Become(t, Idle)
    <3> DEFINE n == Share(demand.amount, Cardinality(Scope[act]))
               s == Scope[act]
    <3> HIDE DEF n, s
    <3> DEFINE c == [Idle EXCEPT !.pc = "read", !.kind = "apply", !.act = act,
                       !.todo = s, !.seen = ann[act], !.demand = demand, !.share = n]
    <3>1. Become(t, c)
      BY <1>4, <2>2 DEF CallApply, n, s
    <3>2. c.kind = "apply"
      BY DEF Idle
    <3> HIDE DEF c
    <3> QED
      BY <1>2, <3>1, <3>2
  <2> QED
    BY <2>1, <2>2
<1> QED
  BY <1>3, <1>4

LEMMA StepKeepsRelease ==
  ASSUME OneTarget, ScopesDisjoint, QuotaInv, ReleaseInv,
         NEW k \in Procs, Step(k)
  PROVE  ReleaseInv'
<1>0. Main \in Procs /\ Main \notin Targets /\ Targets \subseteq Procs
  BY ActorsAssumption DEF Procs
<1>1. CASE k = Main
  <2>1. ~Up /\ ctl[Main].pc # "down" /\ ctl[Main].kind = "reconcile"
    BY <1>1, StepIsBusy DEF ReleaseInv, Up, At
  <2>2. Releasing(Main)
    BY <1>0, <1>1, <2>1, StepReleases
  <2>3. QuotasThrottle => Reconciling'
    BY <2>1, <2>2, ReleasingReconciles DEF ReleaseInv
  <2>4. ctl'[Main].kind = "reconcile" /\ \A t \in Targets : ctl'[t] = ctl[t]
    BY <1>0, <2>1, <2>2 DEF Releasing
  <2>5. \A t \in Targets : ctl'[t].kind = "none"
    BY <2>1, <2>4 DEF ReleaseInv
  <2> QED
    BY <2>3, <2>4, <2>5 DEF ReleaseInv, Restoring
<1>2. CASE k \in Targets
  <2>1. Up /\ \A s \in Targets : s = k
    BY <1>2, StepIsBusy DEF QuotaInv, OneCall, OneTarget
  <2>2. ctl[Main].pc = "idle"
    BY <2>1 DEF Up, At
  <2>3. CASE ctl[k].kind = "apply"
    <3>1. ctl'[Main] = ctl[Main] /\ ctl'[k].kind = "apply"
      BY <1>0, <1>2, <2>3, StepApplies
    <3> QED
      BY <2>1, <2>2, <3>1 DEF ReleaseInv, Restoring, Up, At
  <2>4. CASE ctl[k].kind # "apply"
    <3>1. Releasing(k)
      BY <2>4, StepReleases
    <3>2. ctl'[Main] = ctl[Main] /\ ctl'[k].kind = ctl[k].kind
      BY <1>0, <1>2, <3>1 DEF Releasing
    <3>3. Restoring(k)'
      <4>1. CASE ctl[k].kind = "restore"
        <5>1. Restoring(k)
          BY <1>2 DEF ReleaseInv
        <5> QED
          BY <1>2, <3>1, <4>1, <5>1, ReleasingRestores
      <4>2. CASE ctl[k].kind # "restore"
        BY <3>2, <4>2 DEF Restoring
      <4> QED
        BY <4>1, <4>2
    <3> QED
      BY <2>1, <2>2, <3>2, <3>3 DEF ReleaseInv, Up, At
  <2> QED
    BY <2>3, <2>4
<1> QED
  BY <1>1, <1>2 DEF Procs

LEMMA ReleaseStep ==
  ASSUME OneTarget, ScopesDisjoint, QuotaInv, ReleaseInv,
         [IsoNext]_isoVars
  PROVE  ReleaseInv'
<1>1. CASE UNCHANGED vars
  BY <1>1 DEF ReleaseInv, Restoring, Reconciling, Left, Up, At, vars
<1>2. ASSUME NEW t \in Targets, RulesCall(t)
      PROVE  ReleaseInv'
  <2>1. Up
    BY <1>2 DEF RulesCall, Call, CallApply, CallRestore
  <2> QED
    BY <1>2, <2>1, CallReleases DEF RulesCall, Call
<1>3. ASSUME NEW t \in Targets, NEW e \in Errors, LawTick(t, e)
      PROVE  ReleaseInv'
  <2>1. Up /\ "isolate" \in Acts
    BY <1>3 DEF LawTick, Acts
  <2> QED
    BY <1>1, <1>3, <2>1, CallReleases DEF LawTick
<1>4. ASSUME NEW k \in Procs, CallStep(k)
      PROVE  ReleaseInv'
  BY <1>4, StepKeepsRelease DEF CallStep
<1>5. CASE Reconcile
  BY <1>5, RestartReconciles DEF Reconcile
<1>6. CASE NewVictim
  BY <1>1, <1>6 DEF NewVictim
<1>7. CASE Crash
  <2>1. (\A t \in Targets : ctl'[t] = Idle) /\ ctl'[Main] = Down
    BY <1>7, ActorsAssumption DEF Crash, Procs
  <2>2. Idle.kind = "none" /\ Down.pc = "down"
    BY DEF Idle, Down
  <2> QED
    BY <2>1, <2>2 DEF ReleaseInv, Restoring, Up, At
<1> QED
  BY <1>1, <1>2, <1>3, <1>4, <1>5, <1>6, <1>7 DEF IsoNext, isoVars

LEMMA ReleaseInit ==
  ASSUME Init
  PROVE  ReleaseInv
<1>1. (\A t \in Targets : ctl[t] = Idle) /\ ctl[Main] = Down
  BY ActorsAssumption DEF Init, Procs
<1>2. Idle.kind = "none" /\ Down.pc = "down"
  BY DEF Idle, Down
<1> QED
  BY <1>1, <1>2 DEF ReleaseInv, Restoring, Up, At

LEMMA ReleaseInvHolds ==
  ASSUME OneTarget, ScopesDisjoint
  PROVE  IsoSpec => [](QuotaInv /\ ReleaseInv)
<1>1. IsoInit => QuotaInv /\ ReleaseInv
  BY InitKnows, ReleaseInit DEF IsoInit
<1>2. QuotaInv /\ ReleaseInv /\ [IsoNext]_isoVars => (QuotaInv /\ ReleaseInv)'
  BY QuotaStep, ReleaseStep
<1> QED
  BY <1>1, <1>2, PTL DEF IsoSpec

\* A call that has come to its end has nothing left to do.
LEMMA NothingLeft ==
  ASSUME QuotaInv, NEW k \in Procs, ctl[k].pc = "idle"
  PROVE  \A act \in Acts, p \in Pods : ~Left(ctl[k], act, p)
BY DEF QuotaInv, CallInv, PointInv, Left

\* A Restore that reports no error has given every pod of the target's namespace
\* its own quota back, whatever an earlier call left undone.
THEOREM QuotasAreReleased ==
  OneTarget /\ ScopesDisjoint => (IsoSpec => []RestoreReleases)
<1> SUFFICES ASSUME OneTarget, ScopesDisjoint PROVE IsoSpec => []RestoreReleases
  OBVIOUS
<1>1. QuotaInv /\ ReleaseInv => RestoreReleases
  <2> SUFFICES ASSUME QuotaInv, ReleaseInv, NEW t \in Targets, At(t, "idle"),
                      ctl[t].kind = "restore", ~ctl[t].failed, NEW p \in RestoreScope[t]
               PROVE  quota[p] = Orig[p]
    BY DEF RestoreReleases, Reported
  <2>1. t \in Procs /\ p \in Pods
    BY PodsAssumption DEF Procs
  <2>2. \A act \in Acts : ~Left(ctl[t], act, p)
    BY <2>1, NothingLeft DEF At
  <2> QED
    BY <2>2 DEF ReleaseInv, Restoring
<1> QED
  BY <1>1, ReleaseInvHolds, PTL

\* A Reconcile in which nothing fails leaves no annotated aggressor at its own
\* quota and no grant behind (isolate.go:11-14, harvest.go:18-21), wherever the
\* crash before it cut a call short, if every aggressor that has a quota has more
\* than min_quota_us, the least a throttle leaves.
THEOREM ReconcileIsComplete ==
  OneTarget /\ ScopesDisjoint /\ QuotasThrottle => (IsoSpec => ReconcileCompletes)
<1> SUFFICES ASSUME OneTarget, ScopesDisjoint, QuotasThrottle
             PROVE  IsoSpec => ReconcileCompletes
  OBVIOUS
<1>1. ASSUME QuotaInv, ReleaseInv, [IsoNext]_isoVars, ~Up, ctl'[Main].pc = "idle",
             ~ctl'[Main].failed
      PROVE  Reconciled'
  <2>1. Main \in Procs /\ Main \notin Targets
    BY ActorsAssumption DEF Procs
  <2>2. ctl'[Main] # ctl[Main]
    BY <1>1 DEF Up, At
  <2>3. ~UNCHANGED ctl
    BY <2>2
  <2>4. ~Crash /\ ~Restart
    <3>1. Crash => ctl'[Main] = Down
      BY <2>1 DEF Crash
    <3>2. Restart => ctl'[Main].pc = "list"
      <4> DEFINE c == [Idle EXCEPT !.pc = "list", !.kind = "reconcile", !.acts = Acts]
      <4>1. Restart => Become(Main, c)
        BY DEF Restart
      <4>2. c.pc = "list"
        BY DEF Idle
      <4> HIDE DEF c
      <4> QED
        BY <1>1, <2>1, <4>1, <4>2, BecomeFacts
    <3>3. Down.pc = "down"
      BY DEF Down, Idle
    <3> QED
      BY <1>1, <3>1, <3>2, <3>3
  <2>5. PICK k \in Procs : Step(k)
    <3>1. \A t \in Targets : ~RulesCall(t) /\ \A e \in Errors : ~LawTick(t, e)
      BY <1>1 DEF RulesCall, Call, CallApply, CallRestore, LawTick
    <3> QED
      BY <1>1, <2>3, <2>4, <3>1 DEF IsoNext, isoVars, vars, CallStep, Reconcile, NewVictim
  <2>6. k = Main
    BY <1>1, <2>5, StepIsBusy DEF QuotaInv, OneCall, Procs
  <2>7. ctl[Main].pc # "down" /\ ctl[Main].kind = "reconcile"
    BY <1>1, <2>5, <2>6, StepIsBusy DEF ReleaseInv
  <2>8. Releasing(Main) /\ Reconciling
    BY <1>1, <2>1, <2>5, <2>6, <2>7, StepReleases DEF ReleaseInv
  <2>9. Reconciling'
    BY <1>1, <2>7, <2>8, ReleasingReconciles
  <2>10. QuotaInv'
    BY <1>1, QuotaStep
  <2>11. \A act \in Acts, p \in Pods : ~Left(ctl'[Main], act, p)
    BY <1>1, <2>1, <2>10 DEF QuotaInv, CallInv, PointInv, Left
  <2> QED
    BY <1>1, <2>9, <2>11, PodsAssumption DEF Reconciling, Reconciled, Acts, Left
<1> DEFINE A == ~Up /\ Up' /\ ~ctl'[Main].failed => Reconciled'
<1>2. QuotaInv /\ ReleaseInv /\ [IsoNext]_isoVars => A
  BY <1>1 DEF Up, At
<1> HIDE DEF A
<1>3. IsoSpec => [][A]_vars
  BY <1>2, ReleaseInvHolds, PTL DEF IsoSpec
<1> QED
  BY <1>3 DEF ReconcileCompletes, A

-----------------------------------------------------------------------------
(***************************************************************************)
(* The cap of Eq. (2) and what its call has written so far.                *)
(***************************************************************************)
\* An aggressor that does not have its share is still to come to, or is the one
\* about to be written; unless a step has failed.  One that was written has it.
Writing(t) ==
  /\ ctl[t].pc # "idle" =>
       /\ ctl[t].act = "isolate" /\ ctl[t].demand.mode = "cap"
       /\ AtLeast(MinQuota, ctl[t].share) = CapShare
  /\ ctl[t].pc \in {"annotate", "write"} =>
       ctl[t].new = CapShare /\ ctl[t].cur \in Scope["isolate"]
  /\ ~ctl[t].failed =>
       \A p \in Scope["isolate"] :
         \/ quota[p] = CapShare \/ p \in ctl[t].todo
         \/ ctl[t].pc \in {"annotate", "write"} /\ p = ctl[t].cur
  /\ ctl[t].applied => \E p \in Scope["isolate"] : quota[p] = CapShare
  /\ Scope["isolate"] # {}

CapInv ==
  mode = "law" =>
    \A t \in Targets :
      /\ ctl[t].kind # "restore"
      /\ lastCap # NoCap /\ ctl[t].kind = "apply" => Writing(t)

LEMMA AdvanceWrites ==
  ASSUME NEW c, IsCall(c), c.acts = {}, c.kind = "apply"
  PROVE  LET d == Advance(c) IN
         /\ d.pc \notin {"annotate", "write"} /\ d.failed = c.failed /\ d.todo = c.todo
         /\ d.applied = c.applied
         /\ d.pc # "idle" => d.act = c.act /\ d.demand = c.demand /\ d.share = c.share
<1>1. CASE c.todo # {}
  <2> DEFINE d == [c EXCEPT !.pc = "read", !.cur = NoPod]
  <2>1. Advance(c) = d
    BY <1>1 DEF Advance, LoopLabel
  <2>2. /\ d.pc = "read" /\ d.failed = c.failed /\ d.applied = c.applied /\ d.act = c.act /\ d.todo = c.todo
        /\ d.demand = c.demand /\ d.share = c.share
    BY DEF IsCall, Fields
  <2> HIDE DEF d
  <2> QED
    BY <2>1, <2>2
<1>2. CASE c.todo = {}
  <2> DEFINE d == [Idle EXCEPT !.kind = c.kind, !.applied = c.applied, !.failed = c.failed]
  <2>1. Advance(c) = d
    BY <1>2 DEF Advance
  <2>2. /\ d.pc = "idle" /\ d.failed = c.failed /\ d.applied = c.applied
        /\ d.todo = {}
    BY DEF Idle
  <2> HIDE DEF d
  <2> QED
    BY <1>2, <2>1, <2>2
<1> QED
  BY <1>1, <1>2

\* The step of an Apply, by what it leaves of the call.
LEMMA WritingGoesOn ==
  ASSUME QuotaInv, NEW t \in Targets, NEW c, IsCall(c), c.acts = {}, c.kind = "apply",
         NEW e, Become(t, Advance([c EXCEPT !.failed = e])),
         c.act = "isolate", c.demand.mode = "cap", AtLeast(MinQuota, c.share) = CapShare,
         UNCHANGED <<lastCap>>,
         ~e => \A p \in Scope["isolate"] : quota'[p] = CapShare \/ p \in c.todo,
         c.applied => \E p \in Scope["isolate"] : quota'[p] = CapShare,
         Scope["isolate"] # {}
  PROVE  Writing(t)'
<1> DEFINE b == [c EXCEPT !.failed = e]
<1>1. /\ IsCall(b) /\ b.acts = {} /\ b.kind = "apply" /\ b.act = c.act
      /\ b.demand = c.demand /\ b.share = c.share /\ b.todo = c.todo /\ b.failed = e
      /\ b.applied = c.applied
  BY DEF IsCall, Fields
<1>2. Become(t, Advance(b))
  OBVIOUS
<1> HIDE DEF b
<1> DEFINE d == Advance(b)
<1>3. /\ d.pc \notin {"annotate", "write"} /\ d.failed = e /\ d.todo = c.todo
      /\ d.applied = c.applied
      /\ d.pc # "idle" => d.act = c.act /\ d.demand = c.demand /\ d.share = c.share
  BY <1>1, AdvanceWrites
<1> HIDE DEF d
<1>4. ctl'[t] = d
  BY <1>2, BecomeFacts DEF d, Procs
<1>5. CapShare' = CapShare
  BY DEF CapShare
<1> QED
  BY <1>3, <1>4, <1>5 DEF Writing

LEMMA ReadWrites ==
  ASSUME QuotaInv, NEW t \in Targets, ctl[t].kind = "apply", Writing(t), ReadPod(t),
         UNCHANGED lastCap
  PROVE  Writing(t)'
<1>1. PICK p \in ctl[t].todo :
        LET c == [ctl[t] EXCEPT !.todo = @ \ {p}]
            wanted == Wanted(c, quota[p], c.seen[p])
        IN \/ Become(t, Advance([c EXCEPT !.failed = TRUE]))
           \/ wanted = {} /\ Become(t, Advance(c))
           \/ \E new \in wanted :
                Become(t, [c EXCEPT !.pc = IF c.seen[p] = NoAnn THEN "annotate" ELSE "write",
                                    !.cur = p, !.old = quota[p], !.new = new])
  BY DEF ReadPod
<1> DEFINE c == [ctl[t] EXCEPT !.todo = @ \ {p}]
<1>2. /\ IsCall(ctl[t]) /\ ctl[t].pc = "read" /\ ctl[t].acts = {} /\ UNCHANGED quota
      /\ t \in Procs
  BY DEF QuotaInv, CallInv, LoopInv, ReadPod, At, Procs
<1>3. /\ IsCall(c) /\ c.kind = "apply" /\ c.acts = {} /\ c.act = ctl[t].act
      /\ c.todo = ctl[t].todo \ {p} /\ c.demand = ctl[t].demand /\ c.share = ctl[t].share
      /\ c.failed = ctl[t].failed /\ c.applied = ctl[t].applied
  BY <1>2 DEF IsCall, Fields
<1> DEFINE wanted == Wanted(c, quota[p], c.seen[p])
<1>4. \/ Become(t, Advance([c EXCEPT !.failed = TRUE]))
      \/ wanted = {} /\ Become(t, Advance(c))
      \/ \E new \in wanted :
           Become(t, [c EXCEPT !.pc = IF c.seen[p] = NoAnn THEN "annotate" ELSE "write",
                               !.cur = p, !.old = quota[p], !.new = new])
  BY <1>1
<1> HIDE DEF c
<1>5. /\ c.act = "isolate" /\ c.demand.mode = "cap"
      /\ AtLeast(MinQuota, c.share) = CapShare /\ CapShare' = CapShare
  BY <1>2, <1>3 DEF Writing, CapShare
<1>6. /\ ~c.failed => \A q \in Scope["isolate"] : quota[q] = CapShare \/ q \in c.todo \cup {p}
      /\ c.applied => \E q \in Scope["isolate"] : quota[q] = CapShare
      /\ Scope["isolate"] # {}
  BY <1>2, <1>3 DEF Writing
<1>7. wanted = {new \in {CapShare} : new # quota[p]}
  BY <1>5 DEF Wanted
<1> HIDE DEF wanted
<1>8. CASE Become(t, Advance([c EXCEPT !.failed = TRUE]))
  <2> DEFINE e == TRUE
  <2>1. Become(t, Advance([c EXCEPT !.failed = e])) /\ e
    BY <1>8
  <2> HIDE DEF e
  <2> QED
    BY <1>2, <1>3, <1>5, <1>6, <2>1, WritingGoesOn
<1>9. CASE wanted = {} /\ Become(t, Advance(c))
  <2>1. quota[p] = CapShare
    BY <1>7, <1>9
  <2> DEFINE d == Advance(c)
  <2>2. /\ d.pc \notin {"annotate", "write"} /\ d.failed = c.failed /\ d.todo = c.todo
        /\ d.applied = c.applied
        /\ d.pc # "idle" => d.act = c.act /\ d.demand = c.demand /\ d.share = c.share
    BY <1>3, AdvanceWrites
  <2> HIDE DEF d
  <2>3. ctl'[t] = d
    BY <1>2, <1>9, BecomeFacts DEF d
  <2> QED
    BY <1>2, <1>3, <1>5, <1>6, <2>1, <2>2, <2>3 DEF Writing
<1>10. ASSUME NEW new \in wanted,
              Become(t, [c EXCEPT !.pc = IF c.seen[p] = NoAnn THEN "annotate" ELSE "write",
                                  !.cur = p, !.old = quota[p], !.new = new])
       PROVE  Writing(t)'
  <2> DEFINE l == IF c.seen[p] = NoAnn THEN "annotate" ELSE "write"
             d == [c EXCEPT !.pc = l, !.cur = p, !.old = quota[p], !.new = new]
  <2>1. l \in {"annotate", "write"} /\ Become(t, d)
    BY <1>10
  <2> HIDE DEF l
  <2>2. /\ d.pc = l /\ d.act = c.act /\ d.demand = c.demand /\ d.share = c.share
        /\ d.todo = c.todo /\ d.failed = c.failed /\ d.cur = p /\ d.new = new
        /\ d.applied = c.applied
    BY <1>3 DEF IsCall, Fields
  <2> HIDE DEF d
  <2>3. ctl'[t] = d
    BY <1>2, <2>1, BecomeFacts
  <2>4. new = CapShare
    BY <1>7
  <2>5. p \in Scope["isolate"]
    BY <1>2, <1>3, <1>5 DEF QuotaInv, CallInv, LoopInv
  <2> QED
    BY <1>2, <1>3, <1>5, <1>6, <2>1, <2>2, <2>3, <2>4, <2>5 DEF Writing
<1> QED
  BY <1>4, <1>8, <1>9, <1>10

LEMMA AnnotateWrites ==
  ASSUME QuotaInv, NEW t \in Targets, ctl[t].kind = "apply", Writing(t), Annotate(t),
         UNCHANGED lastCap
  PROVE  Writing(t)'
<1> DEFINE c == ctl[t]
<1>1. \/ Become(t, [c EXCEPT !.pc = "write"])
      \/ Become(t, Advance([c EXCEPT !.failed = TRUE]))
  BY DEF Annotate
<1>2. /\ IsCall(c) /\ c.pc = "annotate" /\ c.acts = {} /\ UNCHANGED quota /\ t \in Procs
  BY DEF QuotaInv, CallInv, LoopInv, Annotate, At, Procs
<1>3. /\ c.act = "isolate" /\ c.demand.mode = "cap"
      /\ AtLeast(MinQuota, c.share) = CapShare /\ CapShare' = CapShare
      /\ c.new = CapShare /\ c.cur \in Scope["isolate"]
  BY <1>2 DEF Writing, CapShare
<1>4. /\ ~c.failed => \A q \in Scope["isolate"] :
                       quota[q] = CapShare \/ q \in c.todo \/ q = c.cur
      /\ c.applied => \E q \in Scope["isolate"] : quota[q] = CapShare
      /\ Scope["isolate"] # {}
  BY DEF Writing
<1>5. CASE Become(t, [c EXCEPT !.pc = "write"])
  <2> DEFINE d == [c EXCEPT !.pc = "write"]
  <2>1. /\ d.pc = "write" /\ d.act = c.act /\ d.demand = c.demand /\ d.share = c.share
        /\ d.todo = c.todo /\ d.failed = c.failed /\ d.cur = c.cur /\ d.new = c.new
        /\ d.applied = c.applied
    BY <1>2 DEF IsCall, Fields
  <2> HIDE DEF d
  <2>2. ctl'[t] = d
    BY <1>2, <1>5, BecomeFacts DEF d
  <2> HIDE DEF c
  <2> QED
    BY <1>2, <1>3, <1>4, <2>1, <2>2 DEF Writing
<1>6. CASE Become(t, Advance([c EXCEPT !.failed = TRUE]))
  <2> DEFINE e == TRUE
  <2>1. Become(t, Advance([c EXCEPT !.failed = e])) /\ e
    BY <1>6
  <2> HIDE DEF e
  <2> QED
    BY <1>2, <1>3, <1>4, <2>1, WritingGoesOn
<1> QED
  BY <1>1, <1>5, <1>6

LEMMA WriteWrites ==
  ASSUME QuotaInv, NEW t \in Targets, ctl[t].kind = "apply", Writing(t), Write(t),
         UNCHANGED lastCap
  PROVE  Writing(t)'
<1>1. PICK ok \in BOOLEAN :
        LET c == [ctl[t] EXCEPT !.applied = @ \/ ok] IN
        /\ quota' = IF ok THEN [quota EXCEPT ![c.cur] = c.new] ELSE quota
        /\ Become(t, Advance([c EXCEPT !.failed = @ \/ ~ok]))
  BY DEF Write, WriteQuota
<1> DEFINE b == ctl[t]
           c == [b EXCEPT !.applied = @ \/ ok]
<1>2. /\ IsCall(b) /\ b.pc = "write" /\ b.acts = {} /\ Scope["isolate"] \subseteq Pods
      /\ quota = [p \in Pods |-> quota[p]]
  BY PodsAssumption DEF QuotaInv, Recorded, CallInv, LoopInv, Write, At, Procs, Acts
<1>3. /\ b.act = "isolate" /\ b.demand.mode = "cap"
      /\ AtLeast(MinQuota, b.share) = CapShare /\ b.new = CapShare
      /\ Scope["isolate"] # {}
  BY <1>2 DEF Writing
<1>4. b.cur \in Scope["isolate"]
  BY <1>2 DEF Writing
<1>5. /\ ~b.failed => \A q \in Scope["isolate"] :
                       quota[q] = CapShare \/ q \in b.todo \/ q = b.cur
      /\ b.applied => \E q \in Scope["isolate"] : quota[q] = CapShare
  BY DEF Writing
<1>6. /\ quota' = IF ok THEN [quota EXCEPT ![c.cur] = c.new] ELSE quota
      /\ Become(t, Advance([c EXCEPT !.failed = @ \/ ~ok]))
  BY <1>1
<1>7. /\ IsCall(c) /\ c.kind = "apply" /\ c.acts = {} /\ c.act = "isolate"
      /\ c.demand = b.demand /\ c.share = b.share /\ c.todo = b.todo /\ c.cur = b.cur
      /\ c.new = b.new /\ c.failed = b.failed /\ c.applied = (b.applied \/ ok)
  BY <1>2, <1>3, AppliedFacts
<1> HIDE DEF b, c
<1>8. \A q \in Scope["isolate"] :
        quota'[q] = IF ok /\ q = b.cur THEN CapShare ELSE quota[q]
  BY <1>2, <1>3, <1>6, <1>7
<1> DEFINE e == c.failed \/ ~ok
<1>9. Become(t, Advance([c EXCEPT !.failed = e]))
  BY <1>6
<1>10. ~e => \A q \in Scope["isolate"] : quota'[q] = CapShare \/ q \in c.todo
  BY <1>5, <1>7, <1>8
<1>11. c.applied => \E q \in Scope["isolate"] : quota'[q] = CapShare
  BY <1>4, <1>5, <1>7, <1>8
<1> HIDE DEF e
<1> QED
  BY <1>3, <1>7, <1>9, <1>10, <1>11, WritingGoesOn

\* Eq. (2) latches the cap and begins its call in one step.
LEMMA TickWrites ==
  ASSUME OneTarget, QuotaInv, CapInv, NEW t \in Targets, NEW e \in Errors, LawTick(t, e)
  PROVE  CapInv'
<1>1. UNCHANGED mode /\ t \in Procs /\ (\A s \in Targets : s = t) /\ "isolate" \in Acts
  BY DEF LawTick, OneTarget, Procs, Acts
<1>2. CASE UNCHANGED <<vars, lastCap>>
  BY <1>1, <1>2 DEF CapInv, Writing, CapShare, vars
<1>3. CASE ~UNCHANGED <<vars, lastCap>>
  <2> DEFINE cap == Clamped(Unclamped(e, integral'))
             step == RoundDiv(cap, Quantum)
             demand == [mode |-> "cap", amount |-> step]
  <2>1. lastCap' = step /\ CallApply(t, "isolate", demand)
    BY <1>3 DEF LawTick
  <2>2. demand.mode = "cap" /\ demand.amount = lastCap'
    BY <2>1
  <2> HIDE DEF demand
  <2>3. CASE Become(t, Idle)
    <3>1. ctl'[t] = Idle /\ Idle.kind = "none"
      BY <1>1, <2>3, BecomeFacts DEF Idle
    <3> QED
      BY <1>1, <3>1 DEF CapInv
  <2>4. CASE ~Become(t, Idle)
    <3> DEFINE n == Share(demand.amount, Cardinality(Scope["isolate"]))
               s == Scope["isolate"]
               a == ann["isolate"]
               c == [Idle EXCEPT !.pc = "read", !.kind = "apply", !.act = "isolate",
                       !.todo = s, !.seen = a, !.demand = demand, !.share = n]
    <3>1. Become(t, c) /\ Scope["isolate"] # {}
      BY <2>1, <2>4 DEF CallApply
    <3>2. n = Share(lastCap', Cardinality(Scope["isolate"]))
      BY <2>2
    <3> HIDE DEF n, a
    <3>3. /\ c.pc = "read" /\ c.kind = "apply" /\ c.act = "isolate" /\ c.todo = s
          /\ c.demand = demand /\ c.share = n /\ ~c.applied
      BY DEF Idle
    <3> HIDE DEF c
    <3>4. ctl'[t] = c
      BY <1>1, <3>1, BecomeFacts
    <3>5. AtLeast(MinQuota, n) = CapShare'
      BY <3>2 DEF CapShare
    <3> QED
      BY <1>1, <2>2, <3>1, <3>3, <3>4, <3>5 DEF CapInv, Writing
  <2> QED
    BY <2>3, <2>4
<1> QED
  BY <1>2, <1>3

LEMMA StepWrites ==
  ASSUME OneTarget, QuotaInv, ReleaseInv, CapInv, NEW k \in Procs, CallStep(k)
  PROVE  CapInv'
<1>0. /\ Main \in Procs /\ Main \notin Targets /\ Targets \subseteq Procs
      /\ Step(k) /\ UNCHANGED <<mode, lastCap>>
  BY ActorsAssumption DEF Procs, CallStep, lawVars
<1>1. CASE k = Main
  <2>1. ~Up /\ ctl[Main].pc # "down" /\ ctl[Main].kind = "reconcile"
    BY <1>0, <1>1, StepIsBusy DEF ReleaseInv, Up, At
  <2>2. Releasing(Main)
    BY <1>0, <1>1, <2>1, StepReleases
  <2>3. \A t \in Targets : ctl'[t] = ctl[t] /\ ctl[t].kind = "none"
    BY <1>0, <2>1, <2>2 DEF Releasing, ReleaseInv
  <2> QED
    BY <2>3 DEF CapInv
<1>2. CASE k \in Targets
  <2>1. \A t \in Targets : t = k
    BY <1>2 DEF OneTarget
  <2>2. CASE ctl[k].kind = "apply"
    <3>1. ctl'[k].kind = "apply"
      BY <1>0, <2>2, StepApplies
    <3>2. ASSUME mode = "law", lastCap # NoCap
          PROVE  Writing(k)'
      <4>1. Writing(k)
        BY <1>2, <2>2, <3>2 DEF CapInv
      <4>2. ReadPod(k) \/ Annotate(k) \/ Write(k)
        BY <1>0, <2>2 DEF Step, List, Undo, Clear, Repair, QuotaInv, CallInv, PointInv, At
      <4> QED
        BY <1>0, <1>2, <2>2, <4>1, <4>2, ReadWrites, AnnotateWrites, WriteWrites
    <3> QED
      BY <1>0, <2>1, <3>1, <3>2 DEF CapInv
  <2>3. CASE ctl[k].kind # "apply"
    <3>1. ctl'[k].kind = ctl[k].kind
      BY <1>0, <2>3, StepReleases DEF Releasing
    <3> QED
      BY <1>0, <2>1, <2>3, <3>1 DEF CapInv
  <2> QED
    BY <2>2, <2>3
<1> QED
  BY <1>1, <1>2 DEF Procs

LEMMA CapStep ==
  ASSUME OneTarget, QuotaInv, ReleaseInv, CapInv, [IsoNext]_isoVars
  PROVE  CapInv'
<1>1. CASE UNCHANGED isoVars
  BY <1>1 DEF CapInv, Writing, CapShare, isoVars, lawVars, vars
<1>2. ASSUME NEW t \in Targets, RulesCall(t)
      PROVE  CapInv'
  BY <1>2 DEF RulesCall, lawVars, CapInv
<1>3. ASSUME NEW t \in Targets, NEW e \in Errors, LawTick(t, e)
      PROVE  CapInv'
  BY <1>3, TickWrites
<1>4. ASSUME NEW k \in Procs, CallStep(k)
      PROVE  CapInv'
  BY <1>4, StepWrites
<1>5. CASE Reconcile
  <2>1. ctl[Main].pc = "down" /\ UNCHANGED <<mode, lastCap>>
    BY <1>5 DEF Reconcile, Restart, At, lawVars
  <2>2. \A t \in Targets : ctl'[t] = ctl[t] /\ ctl[t].kind = "none"
    BY <1>5, <2>1, BecomeFacts, ActorsAssumption
    DEF Reconcile, Restart, Procs, ReleaseInv, Up, At
  <2> QED
    BY <2>1, <2>2 DEF CapInv
<1>6. CASE NewVictim
  BY <1>6 DEF NewVictim, CapInv, vars
<1>7. CASE Crash /\ FreshLaw
  <2>1. \A t \in Targets : ctl'[t] = Idle
    BY <1>7, ActorsAssumption DEF Crash, Procs
  <2>2. Idle.kind = "none"
    BY DEF Idle
  <2> QED
    BY <2>1, <2>2 DEF CapInv
<1> QED
  BY <1>1, <1>2, <1>3, <1>4, <1>5, <1>6, <1>7 DEF IsoNext

LEMMA CapInit ==
  ASSUME IsoInit
  PROVE  CapInv
<1>1. (\A t \in Targets : ctl[t] = Idle) /\ lastCap = NoCap
  BY ActorsAssumption DEF IsoInit, Init, Procs
<1>2. Idle.kind = "none"
  BY DEF Idle
<1> QED
  BY <1>1, <1>2 DEF CapInv

\* The call for the cap in force, if none of its steps failed, has set the quota
\* of every aggressor to its share of that cap, however the pods, the caps and the
\* faults of the calls before it were mixed; if it reported no error, of one.
THEOREM CapReachesAggressors ==
  OneTarget /\ ScopesDisjoint => (IsoSpec => []CapIsWritten)
<1> SUFFICES ASSUME OneTarget, ScopesDisjoint PROVE IsoSpec => []CapIsWritten
  OBVIOUS
<1>1. IsoInit => CapInv
  BY CapInit
<1>2. QuotaInv /\ ReleaseInv /\ CapInv /\ [IsoNext]_isoVars => CapInv'
  BY CapStep
<1>3. QuotaInv /\ CapInv => CapIsWritten
  <2> SUFFICES ASSUME QuotaInv, CapInv, mode = "law", lastCap # NoCap,
                      NEW t \in Targets, At(t, "idle"), ctl[t].kind = "apply"
               PROVE  /\ ~ctl[t].failed => \A p \in Scope["isolate"] : quota[p] = CapShare
                      /\ ~Reported(ctl[t]) => \E p \in Scope["isolate"] : quota[p] = CapShare
    BY DEF CapIsWritten
  <2>1. Writing(t) /\ ctl[t].pc = "idle" /\ t \in Procs
    BY DEF CapInv, At, Procs
  <2>2. ctl[t].todo = {}
    BY <2>1 DEF QuotaInv, CallInv, PointInv
  <2>3. ~ctl[t].failed => \A p \in Scope["isolate"] : quota[p] = CapShare
    BY <2>1, <2>2 DEF Writing
  <2>4. ~Reported(ctl[t]) => ~ctl[t].failed \/ ctl[t].applied
    BY DEF Reported
  <2> QED
    BY <2>1, <2>3, <2>4 DEF Writing
<1> QED
  BY <1>1, <1>2, <1>3, ReleaseInvHolds, PTL DEF IsoSpec
=============================================================================
