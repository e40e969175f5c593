--------------------------- MODULE HcRecordProofs ---------------------------
(***************************************************************************)
(* Proofs about what HcActuator leaves on a node and about the tick loop   *)
(* around it, for every set of pods, CPUs and original cpusets and any     *)
(* number of faults of the classes each part admits:                       *)
(*  1. the records: what was narrowed, pinned or lent is on record, the    *)
(*     record is the original, and a Restore releases it (RecordInv).      *)
(*     Processes and the Balancer may die and aggressors come and go; the  *)
(*     calls themselves succeed and there is one target.  Without either,  *)
(*     the properties do not hold (HcNarrowedAgain);                       *)
(*  2. hc-secondaries: any number of targets and victims that come and go, *)
(*     as long as no annotation, host read or Listener message fails       *)
(*     (RegisteredInv; without the last, HcLeftover);                      *)
(*  3. hcTick: the orderly exit (StopOK), whatever call SIGTERM cuts       *)
(*     short, and the belief (BeliefInv), under the first part's           *)
(*     assumptions; for the belief the Balancer must not die either.       *)
(***************************************************************************)
EXTENDS HcTick, HcActuatorProofs

CallsSucceed == Faults \subseteq {"crash", "balancer", "static", "aggressors"}
OneTarget == \A t, u \in Targets : t = u

-----------------------------------------------------------------------------
(***************************************************************************)
(* The inductive invariant.                                                *)
(***************************************************************************)

\* Two cpusets that give a pod and its container the same CPUs.
SameCpus(c, d) == Effective(c) = Effective(d) /\ EffPod(c) = EffPod(d)

Untouched(a) == SameCpus(cpuset[a], Orig[a]) /\ a \notin pinned

\* An aggressor that is not on record was not touched, a record is the original,
\* and what the Balancer may narrow is on record.
RecordsOK ==
  /\ \A a \in Running(aggPod, Aggs) : aggAnn[a] = NoAnn => Untouched(a)
  /\ RecordIsOriginal
  /\ \A a \in secondaries : /\ aggPod[a] # "new"
                            /\ aggPod[a] = "running" => aggAnn[a] # NoAnn

HasPrimary == primary \in Targets /\ monitor = primary

\* A later Apply counts the aggressors on record as registered.
Covered(aggs) == \A a \in aggs : \E v \in AnnotatedVictims : a \in victimAnn[v].secs

OpeningLabels == {"annotateVictims", "monitor", "primary"}
NarrowLabels == {"narrowPod", "narrowCtr", "register"}

\* Apply opens on a clean node; then it confines aggressors that are not on
\* record, and counts every one that is as registered.
ApplyOK ==
  /\ pc \in ApplyLabels => AnnotatedVictims \subseteq op.victims
  /\ pc \in OpeningLabels =>
       /\ HostStateEmpty /\ AnnotatedAggs = {} /\ op.reg = {} /\ ~op.added /\ op.cur = NoPod
       /\ \A a \in op.aggs : aggPod[a] # "new"
  /\ pc = "annotateVictims" => op.todo \subseteq op.victims
  /\ pc = "primary" => monitor = op.target
  /\ pc \in RegisteringLabels => HasPrimary
  /\ pc \in ConfineLabels =>
       /\ \A a \in op.todo : aggPod[a] # "new" /\ (a # op.cur => a \notin AnnotatedAggs)
       /\ AnnotatedAggs \subseteq op.reg \cup {op.cur}
       /\ ~op.added => Covered(op.reg)
  /\ pc = "confine" => op.cur = NoPod
  /\ pc \in NarrowLabels => (aggPod[op.cur] = "running" => aggAnn[op.cur] # NoAnn)
  /\ pc \in {"recordSecondaries", "balancer", "startBalancer"} => AnnotatedAggs \subseteq op.reg
  /\ pc = "recordSecondaries" => \A v \in op.victims \ op.todo : victimAnn[v].secs = op.reg
  /\ pc \in {"balancer", "startBalancer"} => Covered(op.reg)

\* Restore has every pod on record in its lists, and takes one off the record
\* when its threads and its cpusets are as they were.
RestoreOK ==
  /\ pc \in RestoreLabels =>
       AnnotatedVictims \subseteq op.victims /\ AnnotatedAggs \subseteq op.todo
  /\ pc = "clearVictims" => AnnotatedVictims \subseteq op.victims /\ AnnotatedAggs = {}
  /\ pc \in {"widenPod", "widenCtr", "clearAgg"} /\ aggPod[op.cur] = "running"
       => op.cur \notin pinned
  /\ pc = "widenCtr" /\ aggPod[op.cur] = "running"
       => EffPod(cpuset[op.cur]) = EffPod(Orig[op.cur])
  /\ pc = "clearAgg" /\ aggPod[op.cur] = "running" => SameCpus(cpuset[op.cur], Orig[op.cur])

IdleOK ==
  /\ pc = "idle" => /\ Covered(AnnotatedAggs)
                    /\ AnnotatedVictims # {} => HasPrimary
  /\ RestoreReleases

CallOK == ApplyOK /\ RestoreOK /\ IdleOK

RecordInv == RecordsOK /\ CallOK /\ (balancer => HasPrimary)

-----------------------------------------------------------------------------
(***************************************************************************)
(* Lemmas: the labels, cpusets, and the continuations of the calls.        *)
(***************************************************************************)
LEMMA CallFaults ==
  ASSUME CallsSucceed
  PROVE  /\ HostCallsSucceed
         /\ \A class \in {"api", "listener", "cgroup", "host", "systemd"} : ~CanFail(class)
  BY DEF CallsSucceed, HostCallsSucceed, CanFail

LEMMA NoCallFails ==
  ASSUME CallsSucceed, NEW class \in {"api", "listener", "cgroup", "host", "systemd"}, NEW ok,
         Attempt(class, ok)
  PROVE  ok
  BY CallFaults DEF Attempt

\* An aggressor's cgroup is written, unless the pod is gone.
LEMMA WriteSucceeds ==
  ASSUME CallsSucceed, NEW a \in Aggs, NEW new, NEW ok \in BOOLEAN, WriteCpuset(a, new, ok)
  PROVE  IF ok THEN aggPod[a] = "running" /\ cpuset' = [cpuset EXCEPT ![a] = new]
               ELSE aggPod[a] = "gone" /\ cpuset' = cpuset
  BY CallFaults DEF WriteCpuset

LEMMA ClipFacts ==
  ASSUME NEW parent
  PROVE  Clip({}, parent) = parent /\ Clip(parent, parent) = parent
  BY DEF Clip

LEMMA SameCpusFacts ==
  /\ \A c : SameCpus(c, c)
  /\ \A c, d, e : SameCpus(c, d) /\ SameCpus(d, e) => SameCpus(c, e)
  BY DEF SameCpus

\* Writing back a pod's recorded cpuset, "" included, gives it its CPUs back.
LEMMA WidenPodCpus ==
  ASSUME NEW c \in Cpusets, NEW saved \in Cpusets
  PROVE  EffPod([c EXCEPT !.pod = Wanted(saved.pod, Online)]) = EffPod(saved)
  BY ClipFacts DEF Cpusets, EffPod, Wanted

LEMMA WidenCtrCpus ==
  ASSUME NEW c \in Cpusets, NEW saved \in Cpusets, EffPod(c) = EffPod(saved)
  PROVE  SameCpus([c EXCEPT !.ctr = Wanted(saved.ctr, EffPod(c))], saved)
<1> DEFINE d == [c EXCEPT !.ctr = Wanted(saved.ctr, EffPod(c))]
<1>1. EffPod(d) = EffPod(saved)
  BY DEF Cpusets, EffPod
<1>2. d.ctr = Wanted(saved.ctr, EffPod(saved))
  BY DEF Cpusets
<1> HIDE DEF d
<1>3. Effective(d) = Effective(saved)
  BY <1>1, <1>2, ClipFacts DEF Effective, Wanted
<1>4. QED
  BY <1>1, <1>3 DEF SameCpus, d

LEMMA LabelFacts ==
  /\ OpeningLabels \subseteq ApplyLabels /\ RegisteringLabels \subseteq ApplyLabels
  /\ ConfineLabels \subseteq RegisteringLabels /\ NarrowLabels \subseteq ConfineLabels
  /\ OpeningLabels \cap RegisteringLabels = {}
  /\ ApplyLabels \cap (RestoreLabels \cup {"idle", "down", "clearVictims"}) = {}
  /\ RestoreLabels \cap {"idle", "down", "clearVictims"} = {}
  /\ {"recordSecondaries", "balancer", "startBalancer"} \subseteq RegisteringLabels
  /\ {"recordSecondaries", "balancer", "startBalancer"} \cap ConfineLabels = {}
  /\ {"widenPod", "widenCtr", "clearAgg"} \subseteq RestoreLabels
  BY DEF OpeningLabels, NarrowLabels, ApplyLabels, RegisteringLabels, ConfineLabels,
         RestoreLabels

\* The process is down, or Restore has just listed what it will undo.
LEMMA OutsideCalls ==
  ASSUME pc' = "down" \/ (/\ pc' \in {"stopBalancer", "reset", "online"}
                          /\ AnnotatedVictims' \subseteq op'.victims
                          /\ AnnotatedAggs' \subseteq op'.todo)
  PROVE  CallOK'
  BY DEF CallOK, ApplyOK, RestoreOK, IdleOK, RestoreReleases, ApplyLabels, OpeningLabels,
         NarrowLabels, RegisteringLabels, ConfineLabels, RestoreLabels

\* A call of Apply returns.
LEMMA ReturnApplyOK ==
  ASSUME NEW applied, NEW err, Return("apply", applied, err), Covered(AnnotatedAggs)',
         AnnotatedVictims' # {} => HasPrimary'
  PROVE  CallOK'
  BY DEF Return, CallOK, ApplyOK, RestoreOK, IdleOK, RestoreReleases, ApplyLabels,
         OpeningLabels, NarrowLabels, RegisteringLabels, ConfineLabels, RestoreLabels

\* What releases the node: nothing on record, nothing held.
LEMMA NothingRecorded ==
  RecordsOK /\ HostStateEmpty /\ AnnotatedVictims = {} /\ AnnotatedAggs = {} => Released
<1> SUFFICES ASSUME RecordsOK, HostStateEmpty, AnnotatedVictims = {}, AnnotatedAggs = {}
             PROVE  Released
  OBVIOUS
<1>1. ASSUME NEW a \in Running(aggPod, Aggs) PROVE ~Narrowed(a) /\ a \notin pinned
  BY <1>1 DEF AnnotatedAggs, RecordsOK, Untouched, SameCpus, Narrowed
<1>2. QED
  BY <1>1 DEF Released, HostStateEmpty

LEMMA ReturnRestoreOK ==
  ASSUME NEW err, Return("restore", FALSE, err), RecordsOK', HostStateEmpty',
         AnnotatedVictims' = {}, AnnotatedAggs' = {}
  PROVE  CallOK'
<1>1. (RecordsOK /\ HostStateEmpty /\ AnnotatedVictims = {} /\ AnnotatedAggs = {} => Released)'
  BY NothingRecorded, PTL
<1>2. QED
  BY <1>1
  DEF Return, CallOK, ApplyOK, RestoreOK, IdleOK, RestoreReleases, Covered, ApplyLabels,
      OpeningLabels, NarrowLabels, RegisteringLabels, ConfineLabels, RestoreLabels

\* Apply goes on with o: its work list holds aggressors that are not on record.
LEMMA AfterSecondaryOK ==
  ASSUME NEW o \in OpType, AfterSecondary(o), HasPrimary', AnnotatedVictims' \subseteq o.victims,
         o.cur = NoPod, AnnotatedAggs' \subseteq o.reg,
         \A a \in o.todo : aggPod'[a] # "new" /\ a \notin AnnotatedAggs',
         ~o.added => \A a \in o.reg : \E v \in AnnotatedVictims' : a \in victimAnn'[v].secs
  PROVE  CallOK'
<1>1. CASE o.todo # {}
  <2>1. pc' = "confine" /\ op' = o
    BY <1>1 DEF AfterSecondary, Goto
  <2>2. QED
    BY <2>1
    DEF CallOK, ApplyOK, RestoreOK, IdleOK, RestoreReleases, ApplyLabels, OpeningLabels,
        NarrowLabels, RegisteringLabels, ConfineLabels, RestoreLabels, Covered
<1>2. CASE o.todo = {} /\ o.added
  <2> DEFINE q == [o EXCEPT !.todo = o.victims]
  <2>1. pc' = "recordSecondaries" /\ op' = q
    BY <1>2 DEF AfterSecondary, Goto
  <2>2. q.todo = o.victims /\ q.victims = o.victims /\ q.reg = o.reg
    BY DEF OpType
  <2> HIDE DEF q
  <2>3. QED
    BY <2>1, <2>2
    DEF CallOK, ApplyOK, RestoreOK, IdleOK, RestoreReleases, ApplyLabels, OpeningLabels,
        NarrowLabels, RegisteringLabels, ConfineLabels, RestoreLabels
<1>3. CASE o.todo = {} /\ ~o.added
  <2>1. pc' = "balancer" /\ op' = o
    BY <1>3 DEF AfterSecondary, Goto
  <2>2. QED
    BY <1>3, <2>1
    DEF CallOK, ApplyOK, RestoreOK, IdleOK, RestoreReleases, ApplyLabels, OpeningLabels,
        NarrowLabels, RegisteringLabels, ConfineLabels, RestoreLabels, Covered
<1>4. QED
  BY <1>1, <1>2, <1>3 DEF OpType

\* Restore goes on with o, or has released the node.
LEMMA AfterAggOK ==
  ASSUME NEW o, AfterAgg(o), RecordsOK', HostStateEmpty', AnnotatedVictims' \subseteq o.victims,
         AnnotatedAggs' \subseteq o.todo
  PROVE  CallOK'
<1>1. CASE o.todo # {}
  <2>1. pc' = "unpin" /\ op' = o
    BY <1>1 DEF AfterAgg, Goto
  <2>2. QED
    BY <2>1
    DEF CallOK, ApplyOK, RestoreOK, IdleOK, RestoreReleases, ApplyLabels, OpeningLabels,
        NarrowLabels, RegisteringLabels, ConfineLabels, RestoreLabels
<1>2. CASE o.todo = {} /\ o.victims # {}
  <2>1. pc' = "clearVictims" /\ op' = o
    BY <1>2 DEF AfterAgg, Goto
  <2>2. QED
    BY <1>2, <2>1
    DEF CallOK, ApplyOK, RestoreOK, IdleOK, RestoreReleases, ApplyLabels, OpeningLabels,
        NarrowLabels, RegisteringLabels, ConfineLabels, RestoreLabels
<1>3. CASE o.todo = {} /\ o.victims = {}
  <2>1. Return("restore", FALSE, o.err)
    BY <1>3 DEF AfterAgg
  <2>2. QED
    BY <1>3, <2>1, ReturnRestoreOK
<1>4. QED
  BY <1>1, <1>2, <1>3

\* Who is on record depends on the pods' phases and annotations alone.
LEMMA SameRecord ==
  /\ UNCHANGED <<victimPod, victimAnn>> => AnnotatedVictims' = AnnotatedVictims
  /\ UNCHANGED <<aggPod, aggAnn>> => AnnotatedAggs' = AnnotatedAggs
  BY DEF AnnotatedVictims, AnnotatedAggs, Running

LEMMA RecordsKept ==
  ASSUME RecordsOK, UNCHANGED <<aggPod, aggAnn, cpuset, pinned, secondaries>>
  PROVE  RecordsOK'
  BY SameRecord
  DEF RecordsOK, Running, Untouched, SameCpus, RecordIsOriginal

-----------------------------------------------------------------------------
(***************************************************************************)
(* Apply.                                                                  *)
(***************************************************************************)
LEMMA CallApplyOK ==
  ASSUME CallsSucceed, OneTarget, TypeOK, HostStateInv, RecordInv, NEW t \in Targets,
         CallApply(t)
  PROVE  RecordInv'
<1> DEFINE vs == RunningVictims(t)
           own == {v \in vs : victimAnn[v].set}
           held == own # {}
           reg == UNION {victimAnn[v].secs : v \in own}
           ags == Running(aggPod, Aggs)
           o == [NoOp EXCEPT !.kind = "apply", !.target = t, !.held = held,
                             !.victims = vs, !.aggs = ags, !.reg = reg]
           o1 == [o EXCEPT !.todo = vs]
           o2 == [o EXCEPT !.todo = ags \ reg]
<1>1. UNCHANGED <<victimPod, victimAnn, aggPod, aggAnn, cpuset, pinned, monitor, primary,
                  secondaries, balancer>> /\ pc = "idle"
  BY DEF CallApply, podVars, annVars, hostVars, listenerVars, unitVars
<1>2. RecordsOK' /\ (balancer' => HasPrimary') /\ (HasPrimary => HasPrimary')
      /\ AnnotatedVictims' = AnnotatedVictims /\ AnnotatedAggs' = AnnotatedAggs
  BY <1>1, RecordsKept, SameRecord DEF RecordInv, HasPrimary
<1>3. own = AnnotatedVictims /\ AnnotatedVictims \subseteq vs
  BY TargetsAssumption
  DEF OneTarget, RunningVictims, AnnotatedVictims, Running
<1>4. Covered(AnnotatedAggs) /\ (AnnotatedVictims # {} => HasPrimary)
  BY <1>1 DEF RecordInv, CallOK, IdleOK
<1>5. AnnotatedAggs \subseteq reg
  BY <1>3, <1>4 DEF Covered
<1>6. vs \subseteq Victims /\ ags \subseteq Aggs /\ reg \subseteq Aggs
  BY DEF RunningVictims, Running, TypeOK, ClusterTypeOK
<1>7. /\ o1 \in OpType /\ o1.todo = vs /\ o1.victims = vs /\ o1.reg = reg /\ ~o1.added
      /\ o1.cur = NoPod /\ o1.aggs = ags
      /\ o2 \in OpType /\ o2.todo = ags \ reg /\ o2.victims = vs /\ o2.reg = reg
      /\ o2.cur = NoPod
  BY <1>6, ConstantFacts DEF NoOp, OpType
<1>8. \A a \in reg : \E v \in AnnotatedVictims' : a \in victimAnn'[v].secs
  BY <1>1, <1>2, <1>3
<1>9. ASSUME NEW err \in BOOLEAN, Return("apply", FALSE, err) PROVE CallOK'
  <2>1. Covered(AnnotatedAggs)' /\ (AnnotatedVictims' # {} => HasPrimary')
    BY <1>1, <1>2, <1>4 DEF Covered
  <2>2. QED
    BY <1>9, <2>1, ReturnApplyOK
<1>10. ASSUME ~held, Goto("annotateVictims", o1) PROVE CallOK'
  <2>1. AnnotatedVictims = {} /\ reg = {} /\ AnnotatedAggs = {}
    BY <1>3, <1>5, <1>10
  <2>2. HostStateEmpty'
    BY <1>1, <2>1 DEF HostStateInv, HostStateRecorded, HostStateEmpty, TypeOK, HostTypeOK
  <2>3. \A a \in ags : aggPod'[a] # "new"
    BY <1>1 DEF Running
  <2> HIDE DEF vs, own, held, reg, ags, o, o1, o2
  <2>4. pc' = "annotateVictims" /\ op' = o1
    BY <1>10 DEF Goto
  <2>5. QED
    BY <1>2, <1>7, <2>1, <2>2, <2>3, <2>4
    DEF CallOK, ApplyOK, RestoreOK, IdleOK, RestoreReleases, ApplyLabels, OpeningLabels,
        NarrowLabels, RegisteringLabels, ConfineLabels, RestoreLabels
<1>11. ASSUME held, AfterSecondary(o2) PROVE CallOK'
  <2>1. \A a \in ags \ reg : aggPod'[a] # "new" /\ a \notin AnnotatedAggs'
    BY <1>1, <1>2, <1>5 DEF Running
  <2>2. HasPrimary'
    BY <1>2, <1>3, <1>4, <1>11
  <2> HIDE DEF vs, own, held, reg, ags, o, o1, o2
  <2>3. QED
    BY <1>2, <1>3, <1>5, <1>7, <1>8, <1>11, <2>1, <2>2, AfterSecondaryOK
<1>12. CallOK'
  BY <1>9, <1>10, <1>11 DEF CallApply
<1>13. QED
  BY <1>2, <1>12 DEF RecordInv

\* An annotation that succeeds is written on a pod that still runs, and only there.
LEMMA AnnotateVictimDone ==
  ASSUME CallsSucceed, TypeOK, NEW v \in Victims, NEW ann \in [set : BOOLEAN, secs : SUBSET Aggs],
         NEW ok \in BOOLEAN, AnnotateVictim(v, ann, ok)
  PROVE  /\ ok
         /\ victimPod[v] = "running" => victimAnn'[v] = ann
         /\ victimPod[v] # "running" => victimAnn'[v] = victimAnn[v]
         /\ \A w \in Victims \ {v} : victimAnn'[w] = victimAnn[w]
         /\ UNCHANGED <<victimPod, aggPod, aggAnn, cpuset, pinned, monitor, primary,
                        secondaries, balancer>>
<1>1. ok
  BY NoCallFails DEF AnnotateVictim
<1>2. QED
  BY <1>1
  DEF AnnotateVictim, podVars, hostVars, listenerVars, unitVars, TypeOK, ClusterTypeOK

LEMMA AnnotateAggDone ==
  ASSUME CallsSucceed, TypeOK, NEW a \in Aggs, NEW ann \in Cpusets \cup {NoAnn},
         NEW ok \in BOOLEAN, AnnotateAgg(a, ann, ok)
  PROVE  /\ ok
         /\ aggPod[a] = "running" => aggAnn'[a] = ann
         /\ aggPod[a] # "running" => aggAnn'[a] = aggAnn[a]
         /\ \A b \in Aggs \ {a} : aggAnn'[b] = aggAnn[b]
         /\ UNCHANGED <<victimPod, victimAnn, aggPod, cpuset, pinned, monitor, primary,
                        secondaries, balancer>>
<1>1. ok
  BY NoCallFails DEF AnnotateAgg
<1>2. QED
  BY <1>1
  DEF AnnotateAgg, podVars, hostVars, listenerVars, unitVars, TypeOK, ClusterTypeOK

LEMMA ApplyAnnotateVictimOK ==
  ASSUME CallsSucceed, TypeOK, RecordInv, ApplyAnnotateVictim
  PROVE  RecordInv'
<1>1. PICK v \in op.todo, ok \in BOOLEAN :
        /\ AnnotateVictim(v, [victimAnn[v] EXCEPT !.set = TRUE], ok)
        /\ IF ~ok THEN Return("apply", FALSE, TRUE)
           ELSE IF op.todo = {v} THEN Goto("monitor", [op EXCEPT !.todo = {}])
           ELSE Goto("annotateVictims", [op EXCEPT !.todo = @ \ {v}])
  BY DEF ApplyAnnotateVictim
<1>2. v \in Victims /\ op.todo \subseteq Victims /\ op \in OpType /\ pc = "annotateVictims"
  BY DEF ApplyAnnotateVictim, TypeOK, CtlTypeOK
<1> DEFINE ann == [victimAnn[v] EXCEPT !.set = TRUE]
<1>3. ann \in [set : BOOLEAN, secs : SUBSET Aggs] /\ AnnotateVictim(v, ann, ok)
  BY <1>1, <1>2 DEF TypeOK, ClusterTypeOK
<1> HIDE DEF ann
<1>4. /\ ok /\ \A w \in Victims \ {v} : victimAnn'[w] = victimAnn[w]
      /\ UNCHANGED <<victimPod, aggPod, aggAnn, cpuset, pinned, monitor, primary,
                     secondaries, balancer>>
  BY <1>2, <1>3, AnnotateVictimDone
<1>5. RecordsOK' /\ (balancer' => HasPrimary') /\ AnnotatedAggs' = AnnotatedAggs
  BY <1>4, RecordsKept, SameRecord DEF RecordInv, HasPrimary
<1>6. /\ AnnotatedVictims \subseteq op.victims /\ op.todo \subseteq op.victims
      /\ HostStateEmpty /\ AnnotatedAggs = {} /\ op.reg = {} /\ ~op.added /\ op.cur = NoPod
      /\ \A a \in op.aggs : aggPod[a] # "new"
  BY <1>2 DEF RecordInv, CallOK, ApplyOK, ApplyLabels, OpeningLabels
<1>7. AnnotatedVictims' \subseteq op.victims
  BY <1>2, <1>4, <1>6 DEF AnnotatedVictims, Running
<1>8. /\ pc' \in {"monitor", "annotateVictims"} /\ op'.victims = op.victims
      /\ op'.reg = op.reg /\ op'.added = op.added /\ op'.cur = op.cur /\ op'.aggs = op.aggs
      /\ op'.todo \subseteq op.todo
  BY <1>1, <1>2, <1>4 DEF Goto, OpType
<1>9. HostStateEmpty'
  BY <1>4, <1>6 DEF HostStateEmpty
<1>10. CallOK'
  BY <1>4, <1>5, <1>6, <1>7, <1>8, <1>9
  DEF CallOK, ApplyOK, RestoreOK, IdleOK, RestoreReleases, ApplyLabels, OpeningLabels,
      NarrowLabels, RegisteringLabels, ConfineLabels, RestoreLabels
<1>11. QED
  BY <1>5, <1>10 DEF RecordInv

LEMMA SyncMonitorOK ==
  ASSUME CallsSucceed, TypeOK, RecordInv, SyncMonitorCPUList
  PROVE  RecordInv'
<1>1. PICK ok \in BOOLEAN :
        /\ Attempt("host", ok)
        /\ monitor' = IF ok THEN op.target ELSE monitor
        /\ IF ok THEN Goto("primary", op) ELSE Return("apply", FALSE, TRUE)
  BY DEF SyncMonitorCPUList
<1>2. ok
  BY <1>1, NoCallFails
<1>3. /\ pc = "monitor" /\ pc' = "primary" /\ op' = op /\ monitor' = op.target
      /\ UNCHANGED <<victimPod, victimAnn, aggPod, aggAnn, cpuset, pinned, primary,
                     secondaries, balancer>>
  BY <1>1, <1>2 DEF SyncMonitorCPUList, Goto, podVars, annVars, hostVars, unitVars
<1>4. RecordsOK' /\ AnnotatedAggs' = AnnotatedAggs /\ AnnotatedVictims' = AnnotatedVictims
  BY <1>3, RecordsKept, SameRecord DEF RecordInv
<1>5. /\ AnnotatedVictims \subseteq op.victims
      /\ HostStateEmpty /\ AnnotatedAggs = {} /\ op.reg = {} /\ ~op.added /\ op.cur = NoPod
      /\ \A a \in op.aggs : aggPod[a] # "new"
  BY <1>3 DEF RecordInv, CallOK, ApplyOK, ApplyLabels, OpeningLabels
<1>6. HostStateEmpty' /\ ~balancer'
  BY <1>3, <1>5 DEF HostStateEmpty
<1>7. CallOK'
  BY <1>3, <1>4, <1>5, <1>6
  DEF CallOK, ApplyOK, RestoreOK, IdleOK, RestoreReleases, ApplyLabels, OpeningLabels,
      NarrowLabels, RegisteringLabels, ConfineLabels, RestoreLabels
<1>8. QED
  BY <1>4, <1>6, <1>7 DEF RecordInv

LEMMA SendPrimaryOK ==
  ASSUME CallsSucceed, TypeOK, RecordInv, SendPrimary
  PROVE  RecordInv'
<1> DEFINE o == [op EXCEPT !.todo = op.aggs \ op.reg]
<1>1. PICK ok \in BOOLEAN, done \in BOOLEAN :
        /\ Attempt("listener", ok) /\ (ok => done)
        /\ primary' = IF done THEN op.target ELSE primary
        /\ IF ok THEN AfterSecondary(o) ELSE Return("apply", FALSE, TRUE)
  BY DEF SendPrimary
<1>2. ok
  BY <1>1, NoCallFails
<1>3. /\ pc = "primary" /\ primary' = op.target /\ AfterSecondary(o)
      /\ UNCHANGED <<victimPod, victimAnn, aggPod, aggAnn, cpuset, pinned, monitor,
                     secondaries, balancer>>
  BY <1>1, <1>2 DEF SendPrimary, podVars, annVars, hostVars, unitVars
<1>4. RecordsOK' /\ AnnotatedAggs' = AnnotatedAggs /\ AnnotatedVictims' = AnnotatedVictims
  BY <1>3, RecordsKept, SameRecord DEF RecordInv
<1>5. /\ AnnotatedVictims \subseteq op.victims /\ monitor = op.target
      /\ AnnotatedAggs = {} /\ op.reg = {} /\ op.cur = NoPod
      /\ \A a \in op.aggs : aggPod[a] # "new"
  BY <1>3 DEF RecordInv, CallOK, ApplyOK, ApplyLabels, OpeningLabels
<1>6. op \in OpType /\ op.target \in Targets
  BY <1>3 DEF TypeOK, CtlTypeOK, ApplyLabels
<1>7. HasPrimary'
  BY <1>3, <1>5, <1>6 DEF HasPrimary
<1>8. o \in OpType /\ o.todo = op.aggs \ op.reg /\ o.victims = op.victims /\ o.reg = op.reg
      /\ o.cur = op.cur
  BY <1>6 DEF OpType
<1> HIDE DEF o
<1>9. CallOK'
  BY <1>3, <1>4, <1>5, <1>7, <1>8, AfterSecondaryOK
<1>10. QED
  BY <1>4, <1>7, <1>9 DEF RecordInv

\* A step of confine, or to it, that puts at most the pod at hand on record.
LEMMA NarrowStepOK ==
  ASSUME RecordInv, pc \in ConfineLabels, pc' \in NarrowLabels,
         op'.todo = op.todo, op'.victims = op.victims, op'.reg = op.reg, op'.added = op.added,
         op.cur \in {NoPod, op'.cur}, AnnotatedAggs' \subseteq AnnotatedAggs \cup {op'.cur},
         NoPod \notin AnnotatedAggs,
         UNCHANGED <<victimPod, victimAnn, aggPod, monitor, primary>>,
         aggPod[op'.cur] = "running" => aggAnn'[op'.cur] # NoAnn
  PROVE  CallOK'
<1>1. AnnotatedVictims' = AnnotatedVictims
  BY SameRecord
<1>2. /\ AnnotatedVictims \subseteq op.victims /\ HasPrimary
      /\ \A a \in op.todo : aggPod[a] # "new" /\ (a # op.cur => a \notin AnnotatedAggs)
      /\ AnnotatedAggs \subseteq op.reg \cup {op.cur}
      /\ ~op.added => Covered(op.reg)
  BY LabelFacts DEF RecordInv, CallOK, ApplyOK
<1>3. /\ \A a \in op'.todo : aggPod'[a] # "new" /\ (a # op'.cur => a \notin AnnotatedAggs')
      /\ AnnotatedAggs' \subseteq op'.reg \cup {op'.cur}
  BY <1>2
<1>4. ~op'.added => \A a \in op'.reg : \E v \in AnnotatedVictims' : a \in victimAnn'[v].secs
  BY <1>1, <1>2 DEF Covered
<1>5. HasPrimary'
  BY <1>2 DEF HasPrimary
<1>6. QED
  BY <1>1, <1>2, <1>3, <1>4, <1>5
  DEF CallOK, ApplyOK, RestoreOK, IdleOK, RestoreReleases, ApplyLabels, OpeningLabels,
      NarrowLabels, RegisteringLabels, ConfineLabels, RestoreLabels, Covered

LEMMA NoPodOnRecord == NoPod \notin AnnotatedAggs
  BY TargetsAssumption DEF AnnotatedAggs, Running

LEMMA ConfineRecordOK ==
  ASSUME CallsSucceed, TypeOK, RecordInv, ConfineRecord
  PROVE  RecordInv'
<1>1. PICK a \in op.todo :
       \/ \E ok \in BOOLEAN :
            /\ aggPod[a] = "running"
            /\ AnnotateAgg(a, cpuset[a], ok)
            /\ pc' = IF ok THEN "narrowPod" ELSE "register"
            /\ op' = [op EXCEPT !.cur = a]
       \/ /\ \/ aggPod[a] = "gone" /\ UNCHANGED budget
             \/ Attempt("cgroup", FALSE)
          /\ Goto("register", [op EXCEPT !.cur = a])
          /\ UNCHANGED <<podVars, annVars, hostVars, listenerVars, unitVars>>
  BY DEF ConfineRecord
<1>2. pc = "confine" /\ op \in OpType /\ a \in Aggs /\ op.todo \subseteq Aggs
      /\ cpuset[a] \in Cpusets /\ a # NoPod
  BY TargetsAssumption DEF ConfineRecord, TypeOK, CtlTypeOK, HostTypeOK, ConfineLabels
<1>3. op.cur = NoPod /\ pc \in ConfineLabels /\ a \notin AnnotatedAggs
  BY <1>2 DEF RecordInv, CallOK, ApplyOK, ConfineLabels
<1>4. ASSUME NEW ok \in BOOLEAN, aggPod[a] = "running", AnnotateAgg(a, cpuset[a], ok),
             pc' = (IF ok THEN "narrowPod" ELSE "register"), op' = [op EXCEPT !.cur = a]
      PROVE  RecordInv'
  <2>1. /\ ok /\ aggAnn'[a] = cpuset[a] /\ \A b \in Aggs \ {a} : aggAnn'[b] = aggAnn[b]
        /\ UNCHANGED <<victimPod, victimAnn, aggPod, cpuset, pinned, monitor, primary,
                       secondaries, balancer>>
    BY <1>2, <1>4, AnnotateAggDone
  <2>2. AnnotatedAggs' = AnnotatedAggs \cup {a} /\ aggAnn'[a] # NoAnn
    BY <1>2, <1>4, <2>1, CpusAssumption DEF AnnotatedAggs, Running
  <2>3. SameCpus(cpuset[a], Orig[a])
    BY <1>2, <1>3, <1>4 DEF RecordInv, RecordsOK, Untouched, AnnotatedAggs, Running
  <2>4. RecordIsOriginal'
    BY <1>3, <2>1, <2>2, <2>3 DEF RecordInv, RecordsOK, RecordIsOriginal, SameCpus,
       AnnotatedAggs, Running
  <2>5. RecordsOK'
    BY <1>2, <2>1, <2>2, <2>4 DEF RecordInv, RecordsOK, Running, Untouched, SameCpus, TypeOK,
       HostTypeOK
  <2>6. pc' \in NarrowLabels /\ op'.cur = a /\ op'.todo = op.todo
        /\ op'.victims = op.victims /\ op'.reg = op.reg /\ op'.added = op.added
    BY <1>2, <1>4, <2>1 DEF OpType, NarrowLabels
  <2>7. CallOK'
    BY <1>3, <2>1, <2>2, <2>6, NarrowStepOK, NoPodOnRecord
  <2>8. QED
    BY <2>1, <2>5, <2>7 DEF RecordInv, HasPrimary
<1>5. ASSUME aggPod[a] = "gone" \/ Attempt("cgroup", FALSE),
             Goto("register", [op EXCEPT !.cur = a]),
             UNCHANGED <<podVars, annVars, hostVars, listenerVars, unitVars>>
      PROVE  RecordInv'
  <2>1. aggPod[a] = "gone"
    BY <1>5, NoCallFails
  <2>2. UNCHANGED <<victimPod, victimAnn, aggPod, aggAnn, cpuset, pinned, monitor, primary,
                    secondaries, balancer>>
    BY <1>5 DEF podVars, annVars, hostVars, listenerVars, unitVars
  <2>3. RecordsOK' /\ AnnotatedAggs' = AnnotatedAggs
    BY <2>2, RecordsKept, SameRecord DEF RecordInv
  <2>4. pc' \in NarrowLabels /\ op'.cur = a /\ op'.todo = op.todo
        /\ op'.victims = op.victims /\ op'.reg = op.reg /\ op'.added = op.added
    BY <1>2, <1>5 DEF OpType, NarrowLabels, Goto
  <2>5. CallOK'
    BY <1>3, <2>1, <2>2, <2>3, <2>4, NarrowStepOK, NoPodOnRecord
  <2>6. QED
    BY <2>2, <2>3, <2>5 DEF RecordInv, HasPrimary
<1>6. QED
  BY <1>1, <1>4, <1>5

\* Narrowing a pod that is on record, or that is gone, leaves the records true.
LEMMA NarrowedOnRecord ==
  ASSUME RecordsOK, NEW a \in Aggs, aggPod[a] = "running" => aggAnn[a] # NoAnn,
         \A b \in Aggs \ {a} : cpuset'[b] = cpuset[b],
         UNCHANGED <<aggPod, aggAnn, pinned, secondaries>>
  PROVE  RecordsOK'
  BY SameRecord DEF RecordsOK, Running, Untouched, SameCpus, RecordIsOriginal

LEMMA ConfineNarrowOK ==
  ASSUME CallsSucceed, TypeOK, RecordInv, ConfineNarrowPod \/ ConfineNarrowCtr
  PROVE  RecordInv'
<1>1. /\ pc \in NarrowLabels /\ pc' \in NarrowLabels /\ op' = op
      /\ \A b \in Aggs \ {op.cur} : cpuset'[b] = cpuset[b]
      /\ UNCHANGED <<victimPod, victimAnn, aggPod, aggAnn, pinned, monitor, primary,
                     secondaries, balancer>>
  BY DEF ConfineNarrowPod, ConfineNarrowCtr, WriteCpuset, Goto, NarrowLabels, TypeOK,
         HostTypeOK, podVars, annVars, listenerVars, unitVars
<1>2. op.cur \in Aggs /\ pc \in ConfineLabels
  BY <1>1 DEF TypeOK, CtlTypeOK, NarrowLabels, ConfineLabels, CurLabels
<1>3. aggPod[op.cur] = "running" => aggAnn[op.cur] # NoAnn
  BY <1>1 DEF RecordInv, CallOK, ApplyOK
<1>4. RecordsOK' /\ AnnotatedAggs' = AnnotatedAggs
  BY <1>1, <1>2, <1>3, NarrowedOnRecord, SameRecord DEF RecordInv
<1>5. CallOK'
  BY <1>1, <1>2, <1>3, <1>4, NarrowStepOK, NoPodOnRecord
<1>6. QED
  BY <1>1, <1>4, <1>5 DEF RecordInv, HasPrimary

LEMMA SendSecondaryOK ==
  ASSUME CallsSucceed, TypeOK, RecordInv, SendSecondary
  PROVE  RecordInv'
<1> DEFINE o == [op EXCEPT !.todo = @ \ {op.cur}, !.cur = NoPod]
           good == [o EXCEPT !.reg = @ \cup {op.cur}, !.added = TRUE]
           bad == [o EXCEPT !.err = TRUE]
<1>1. PICK ok \in BOOLEAN, done \in BOOLEAN :
        /\ Attempt("listener", ok) /\ (ok => done)
        /\ secondaries' = IF done THEN secondaries \cup {op.cur} ELSE secondaries
        /\ AfterSecondary(IF ok THEN good ELSE bad)
  BY DEF SendSecondary
<1>2. ok
  BY <1>1, NoCallFails
<1>3. /\ pc = "register" /\ AfterSecondary(good) /\ secondaries' = secondaries \cup {op.cur}
      /\ UNCHANGED <<victimPod, victimAnn, aggPod, aggAnn, cpuset, pinned, monitor, primary,
                     balancer>>
  BY <1>1, <1>2 DEF SendSecondary, podVars, annVars, hostVars, unitVars
<1>4. op \in OpType /\ op.cur \in Aggs /\ op.cur \in op.todo /\ op.todo \subseteq Aggs
  BY <1>3 DEF TypeOK, CtlTypeOK, ConfineLabels, CurLabels
<1>5. /\ AnnotatedVictims \subseteq op.victims /\ HasPrimary
      /\ \A a \in op.todo : aggPod[a] # "new" /\ (a # op.cur => a \notin AnnotatedAggs)
      /\ AnnotatedAggs \subseteq op.reg \cup {op.cur}
      /\ aggPod[op.cur] = "running" => aggAnn[op.cur] # NoAnn
  BY <1>3 DEF RecordInv, CallOK, ApplyOK, NarrowLabels, RegisteringLabels, ConfineLabels,
     ApplyLabels
<1>6. AnnotatedAggs' = AnnotatedAggs /\ AnnotatedVictims' = AnnotatedVictims /\ HasPrimary'
  BY <1>3, <1>5, SameRecord DEF HasPrimary
<1>7. RecordsOK'
  BY <1>3, <1>4, <1>5, <1>6
  DEF RecordInv, RecordsOK, Running, Untouched, SameCpus, RecordIsOriginal
<1>8. good \in OpType /\ good.todo = op.todo \ {op.cur} /\ good.victims = op.victims
      /\ good.reg = op.reg \cup {op.cur} /\ good.added /\ good.cur = NoPod
  BY <1>4 DEF OpType
<1> HIDE DEF good, bad, o
<1>9. CallOK'
  BY <1>3, <1>5, <1>6, <1>8, AfterSecondaryOK
<1>10. QED
  BY <1>6, <1>7, <1>9 DEF RecordInv

LEMMA RecordSecondariesOK ==
  ASSUME CallsSucceed, TypeOK, HostStateInv, RecordInv, RecordSecondaries
  PROVE  RecordInv'
<1>1. PICK v \in op.todo, ok \in BOOLEAN :
        /\ AnnotateVictim(v, [victimAnn[v] EXCEPT !.secs = op.reg], ok)
        /\ LET o == [op EXCEPT !.todo = @ \ {v}] IN
           Goto(IF o.todo = {} THEN "balancer" ELSE "recordSecondaries", o)
  BY DEF RecordSecondaries
<1>2. v \in Victims /\ op.todo \subseteq Victims /\ op \in OpType /\ pc = "recordSecondaries"
  BY DEF RecordSecondaries, TypeOK, CtlTypeOK
<1> DEFINE ann == [victimAnn[v] EXCEPT !.secs = op.reg]
           o == [op EXCEPT !.todo = @ \ {v}]
<1>3. /\ ann \in [set : BOOLEAN, secs : SUBSET Aggs] /\ AnnotateVictim(v, ann, ok)
      /\ ann.set = victimAnn[v].set /\ ann.secs = op.reg
  BY <1>1, <1>2 DEF TypeOK, ClusterTypeOK, OpType
<1>4. /\ pc' = (IF op.todo \ {v} = {} THEN "balancer" ELSE "recordSecondaries")
      /\ op'.todo = op.todo \ {v} /\ op'.victims = op.victims /\ op'.reg = op.reg
  BY <1>1, <1>2 DEF Goto, OpType
<1> HIDE DEF ann, o
<1>5. /\ victimPod[v] = "running" => victimAnn'[v] = ann
      /\ victimPod[v] # "running" => victimAnn'[v] = victimAnn[v]
      /\ \A w \in Victims \ {v} : victimAnn'[w] = victimAnn[w]
      /\ UNCHANGED <<victimPod, aggPod, aggAnn, cpuset, pinned, monitor, primary,
                     secondaries, balancer>>
  BY <1>2, <1>3, AnnotateVictimDone
<1>6. RecordsOK' /\ AnnotatedAggs' = AnnotatedAggs
  BY <1>5, RecordsKept, SameRecord DEF RecordInv
<1>7. /\ AnnotatedVictims \subseteq op.victims /\ HasPrimary /\ AnnotatedAggs \subseteq op.reg
      /\ \A w \in op.victims \ op.todo : victimAnn[w].secs = op.reg
  BY <1>2 DEF RecordInv, CallOK, ApplyOK, ApplyLabels, RegisteringLabels
<1>8. AnnotatedVictims # {} /\ op.victims \subseteq Running(victimPod, Victims)
  BY <1>2 DEF HostStateInv, RegisteringLabels, ApplyLabels
<1>9. AnnotatedVictims' = AnnotatedVictims
  BY <1>2, <1>3, <1>5 DEF AnnotatedVictims, Running
<1>10. \A w \in op.victims \ op'.todo : victimAnn'[w].secs = op.reg
  BY <1>2, <1>3, <1>4, <1>5, <1>7, <1>8 DEF Running
<1>11. HasPrimary'
  BY <1>5, <1>7 DEF HasPrimary
<1>12. pc' = "balancer" => \A a \in op.reg : \E w \in AnnotatedVictims' : a \in victimAnn'[w].secs
  BY <1>4, <1>7, <1>8, <1>9, <1>10
<1>13. CallOK'
  BY <1>4, <1>6, <1>7, <1>9, <1>10, <1>11, <1>12
  DEF CallOK, ApplyOK, RestoreOK, IdleOK, RestoreReleases, ApplyLabels, OpeningLabels,
      NarrowLabels, RegisteringLabels, ConfineLabels, RestoreLabels, Covered
<1>14. QED
  BY <1>6, <1>11, <1>13 DEF RecordInv

LEMMA EnsureBalancerOK ==
  ASSUME CallsSucceed, TypeOK, RecordInv, EnsureBalancer
  PROVE  RecordInv'
<1>1. /\ pc \in {"balancer", "startBalancer"}
      /\ UNCHANGED <<victimPod, victimAnn, aggPod, aggAnn, cpuset, pinned, monitor, primary,
                     secondaries>>
  BY DEF EnsureBalancer, KeepBalancer, StopStatic, StartBalancer, podVars, annVars, hostVars,
         listenerVars
<1>2. /\ RecordsOK' /\ AnnotatedAggs' = AnnotatedAggs /\ AnnotatedVictims' = AnnotatedVictims
  BY <1>1, RecordsKept, SameRecord DEF RecordInv
<1>3. /\ HasPrimary /\ AnnotatedAggs \subseteq op.reg /\ Covered(op.reg)
      /\ AnnotatedVictims \subseteq op.victims
  BY <1>1, LabelFacts DEF RecordInv, CallOK, ApplyOK
<1>4. HasPrimary' /\ Covered(AnnotatedAggs)'
  BY <1>1, <1>2, <1>3 DEF HasPrimary, Covered
<1>5. ASSUME NEW applied, NEW err, Return("apply", applied, err) PROVE CallOK'
  BY <1>4, <1>5, ReturnApplyOK
<1>6. ASSUME Goto("startBalancer", op) PROVE CallOK'
  <2>1. pc' = "startBalancer" /\ op' = op
    BY <1>6 DEF Goto
  <2>2. QED
    BY <1>1, <1>2, <1>3, <1>4, <2>1
    DEF CallOK, ApplyOK, RestoreOK, IdleOK, RestoreReleases, ApplyLabels, OpeningLabels,
        NarrowLabels, RegisteringLabels, ConfineLabels, RestoreLabels, Covered
<1>7. CallOK'
  BY <1>5, <1>6 DEF EnsureBalancer, KeepBalancer, StopStatic, StartBalancer
<1>8. QED
  BY <1>2, <1>4, <1>7 DEF RecordInv

-----------------------------------------------------------------------------
(***************************************************************************)
(* Restore and Reconcile.                                                  *)
(***************************************************************************)
LEMMA ListRecordedOK ==
  ASSUME CallsSucceed, HostStateInv, RecordsOK', ListRecorded
  PROVE  CallOK'
<1>1. UNCHANGED <<victimPod, victimAnn, aggPod, aggAnn, primary, secondaries, balancer>>
  BY DEF ListRecorded, podVars, annVars, unitVars
<1>2. AnnotatedAggs' = AnnotatedAggs /\ AnnotatedVictims' = AnnotatedVictims
  BY <1>1, SameRecord
<1>3. ASSUME AnnotatedVictims = {}, AnnotatedAggs = {}, Return("restore", FALSE, FALSE)
      PROVE  CallOK'
  <2>1. HostStateEmpty'
    BY <1>1, <1>3 DEF HostStateInv, HostStateRecorded, HostStateEmpty
  <2>2. QED
    BY <1>2, <1>3, <2>1, ReturnRestoreOK
<1>4. ASSUME Goto("stopBalancer",
                  [NoOp EXCEPT !.kind = "restore", !.victims = AnnotatedVictims,
                               !.todo = AnnotatedAggs])
      PROVE  CallOK'
  <2>1. pc' = "stopBalancer" /\ op'.victims = AnnotatedVictims /\ op'.todo = AnnotatedAggs
    BY <1>4 DEF Goto, NoOp
  <2>2. QED
    BY <1>2, <2>1, OutsideCalls
<1>5. ~Attempt("api", FALSE)
  BY NoCallFails
<1>6. QED
  BY <1>3, <1>4, <1>5 DEF ListRecorded

LEMMA RestoreListOK ==
  ASSUME CallsSucceed, HostStateInv, RecordInv, RestoreList
  PROVE  RecordInv'
<1>1. UNCHANGED <<aggPod, aggAnn, cpuset, pinned, monitor, primary, secondaries, balancer>>
  BY DEF RestoreList, ListRecorded, podVars, annVars, hostVars, unitVars
<1>2. RecordsOK' /\ (balancer' => HasPrimary')
  BY <1>1, RecordsKept DEF RecordInv, HasPrimary
<1>3. QED
  BY <1>2, ListRecordedOK DEF RestoreList, RecordInv

LEMMA StopAndResetOK ==
  ASSUME CallsSucceed, HostStateInv, RecordInv, StopBalancer \/ SendReset
  PROVE  RecordInv'
<1>1. /\ pc \in {"stopBalancer", "reset"} /\ pc' \in {"reset", "online"}
      /\ op'.victims = op.victims /\ op'.todo = op.todo
      /\ UNCHANGED <<victimPod, victimAnn, aggPod, aggAnn, cpuset, pinned, monitor>>
      /\ secondaries' \subseteq secondaries
  <2>1. CASE StopBalancer
    BY <2>1 DEF StopBalancer, Goto, podVars, annVars, hostVars, listenerVars
  <2>2. CASE SendReset
    <3>1. op'.victims = op.victims /\ op'.todo = op.todo
      BY <2>2 DEF SendReset, Goto
    <3>2. QED
      BY <2>2, <3>1 DEF SendReset, Goto, podVars, annVars, hostVars
  <2>3. QED
    BY <2>1, <2>2
<1>2. AnnotatedAggs' = AnnotatedAggs /\ AnnotatedVictims' = AnnotatedVictims
  BY <1>1, SameRecord
<1>3. RecordsOK'
  BY <1>1, <1>2 DEF RecordInv, RecordsOK, Running, Untouched, SameCpus, RecordIsOriginal
<1>4. AnnotatedVictims \subseteq op.victims /\ AnnotatedAggs \subseteq op.todo
  BY <1>1 DEF RecordInv, CallOK, RestoreOK, RestoreLabels
<1>5. CallOK'
  BY <1>1, <1>2, <1>4, OutsideCalls
<1>6. ~balancer'
  <2>1. CASE StopBalancer
    <3>1. PICK ok \in BOOLEAN : Attempt("systemd", ok) /\ balancer' = (balancer /\ ~ok)
      BY <2>1 DEF StopBalancer
    <3>2. QED
      BY <3>1, NoCallFails
  <2>2. CASE SendReset
    BY <2>2 DEF SendReset, unitVars, HostStateInv
  <2>3. QED
    BY <2>1, <2>2
<1>7. QED
  BY <1>3, <1>5, <1>6 DEF RecordInv

LEMMA ReadOnlineOK ==
  ASSUME CallsSucceed, HostStateInv, RecordInv, ReadOnlineCPUs
  PROVE  RecordInv'
<1>1. /\ pc = "online" /\ AfterAgg(op)
      /\ UNCHANGED <<victimPod, victimAnn, aggPod, aggAnn, cpuset, pinned, monitor, primary,
                     secondaries, balancer>>
  BY NoCallFails DEF ReadOnlineCPUs, podVars, annVars, hostVars, listenerVars, unitVars
<1>2. /\ RecordsOK' /\ AnnotatedAggs' = AnnotatedAggs /\ AnnotatedVictims' = AnnotatedVictims
      /\ HostStateEmpty'
  BY <1>1, RecordsKept, SameRecord DEF RecordInv, HostStateInv, HostStateEmpty, RestoreLabels
<1>3. AnnotatedVictims \subseteq op.victims /\ AnnotatedAggs \subseteq op.todo
  BY <1>1 DEF RecordInv, CallOK, RestoreOK, RestoreLabels
<1>4. QED
  BY <1>1, <1>2, <1>3, AfterAggOK DEF RecordInv, HostStateEmpty

\* A step of Restore on one aggressor: its pod cgroup's CPUs are back at
\* widenCtr, its container's at clearAgg.
LEMMA UndoStepOK ==
  ASSUME pc' \in {"widenPod", "widenCtr", "clearAgg"},
         AnnotatedVictims' \subseteq op'.victims, AnnotatedAggs' \subseteq op'.todo,
         aggPod'[op'.cur] = "running" =>
           /\ op'.cur \notin pinned'
           /\ pc' = "widenCtr" => EffPod(cpuset'[op'.cur]) = EffPod(Orig[op'.cur])
           /\ pc' = "clearAgg" => SameCpus(cpuset'[op'.cur], Orig[op'.cur])
  PROVE  CallOK'
  BY DEF CallOK, ApplyOK, RestoreOK, IdleOK, RestoreReleases, ApplyLabels, OpeningLabels,
      NarrowLabels, RegisteringLabels, ConfineLabels, RestoreLabels, SameCpus

LEMMA RestoreAffinityOK ==
  ASSUME CallsSucceed, TypeOK, HostStateInv, RecordInv, RestoreAffinity
  PROVE  RecordInv'
<1>1. PICK a \in op.todo, ok \in BOOLEAN :
       /\ Attempt("cgroup", ok)
       /\ pinned' = IF ok THEN pinned \ {a} ELSE pinned
       /\ Goto("widenPod", [op EXCEPT !.cur = a, !.err = @ \/ ~ok])
  BY DEF RestoreAffinity
<1>2. ok /\ op \in OpType /\ pc = "unpin"
  BY <1>1, NoCallFails DEF RestoreAffinity, TypeOK, CtlTypeOK
<1>3. /\ pinned' = pinned \ {a} /\ pc' = "widenPod" /\ op'.cur = a
      /\ op'.victims = op.victims /\ op'.todo = op.todo
      /\ UNCHANGED <<victimPod, victimAnn, aggPod, aggAnn, cpuset, monitor, primary,
                     secondaries, balancer>>
  BY <1>1, <1>2 DEF RestoreAffinity, Goto, OpType, podVars, annVars, listenerVars, unitVars
<1>4. /\ AnnotatedAggs' = AnnotatedAggs /\ AnnotatedVictims' = AnnotatedVictims
  BY <1>3, SameRecord
<1>5. RecordsOK'
  BY <1>3, <1>4 DEF RecordInv, RecordsOK, Running, Untouched, SameCpus, RecordIsOriginal
<1>6. AnnotatedVictims \subseteq op.victims /\ AnnotatedAggs \subseteq op.todo
  BY <1>2 DEF RecordInv, CallOK, RestoreOK, RestoreLabels
<1>7. CallOK'
  BY <1>3, <1>4, <1>6, UndoStepOK
<1>8. QED
  BY <1>3, <1>5, <1>7 DEF RecordInv, HasPrimary

LEMMA RestoreWidenOK ==
  ASSUME CallsSucceed, TypeOK, HostStateInv, RecordInv, RestoreWidenPod \/ RestoreWidenCtr
  PROVE  RecordInv'
<1> DEFINE a == op.cur
           newPod == [cpuset[a] EXCEPT !.pod = Wanted(aggAnn[a].pod, Online)]
           newCtr == [cpuset[a] EXCEPT !.ctr = Wanted(aggAnn[a].ctr, EffPod(cpuset[a]))]
           new == IF pc = "widenPod" THEN newPod ELSE newCtr
<1>1. a \in op.todo /\ a \in Aggs /\ op \in OpType /\ pc \in {"widenPod", "widenCtr"}
      /\ cpuset[a] \in Cpusets
  BY DEF RestoreWidenPod, RestoreWidenCtr, RestoreWrite, TypeOK, CtlTypeOK, HostTypeOK,
         RestoreLabels, CurLabels
<1>2. aggPod[a] = "running" => aggAnn[a] \in Cpusets /\ a \in AnnotatedAggs
  BY <1>1 DEF TypeOK, RestoreFindsRecord, ClusterTypeOK, RestoreLabels, AnnotatedAggs, Running
<1>3. PICK ok \in BOOLEAN :
        /\ WriteCpuset(a, new, ok)
        /\ \/ pc = "widenPod" /\ pc' = "widenCtr" /\ new = newPod
           \/ pc = "widenCtr" /\ pc' = "clearAgg" /\ new = newCtr
        /\ op'.cur = a /\ op'.todo = op.todo /\ op'.victims = op.victims
  BY <1>1 DEF RestoreWidenPod, RestoreWidenCtr, RestoreWrite, Goto, OpType
<1> HIDE DEF new
<1>4. /\ IF ok THEN aggPod[a] = "running" /\ cpuset' = [cpuset EXCEPT ![a] = new]
               ELSE aggPod[a] = "gone" /\ cpuset' = cpuset
      /\ UNCHANGED <<victimPod, victimAnn, aggPod, aggAnn, pinned, monitor, primary,
                     secondaries, balancer>>
  <2>1. IF ok THEN aggPod[a] = "running" /\ cpuset' = [cpuset EXCEPT ![a] = new]
              ELSE aggPod[a] = "gone" /\ cpuset' = cpuset
    BY <1>1, <1>3, WriteSucceeds
  <2>2. QED
    BY <1>3, <2>1 DEF WriteCpuset, podVars, annVars, listenerVars, unitVars
<1>5. RecordsOK' /\ AnnotatedAggs' = AnnotatedAggs /\ AnnotatedVictims' = AnnotatedVictims
  <2>1. \A b \in Aggs \ {a} : cpuset'[b] = cpuset[b]
    BY <1>4 DEF TypeOK, HostTypeOK
  <2>2. QED
    BY <1>1, <1>2, <1>4, <2>1, CpusAssumption, NarrowedOnRecord, SameRecord
    DEF RecordInv, AnnotatedAggs, Running
<1>6. AnnotatedVictims \subseteq op.victims /\ AnnotatedAggs \subseteq op.todo
      /\ (aggPod[a] = "running" =>
            /\ a \notin pinned
            /\ pc = "widenCtr" => EffPod(cpuset[a]) = EffPod(Orig[a]))
  BY <1>1 DEF RecordInv, CallOK, RestoreOK, RestoreLabels
<1>7. aggPod[a] = "running" => SameCpus(aggAnn[a], Orig[a])
  BY <1>2 DEF RecordInv, RecordsOK, RecordIsOriginal, SameCpus
<1>8. aggPod'[a] = "running" =>
        /\ cpuset'[a] = new
        /\ pc' = "widenCtr" => EffPod(new) = EffPod(Orig[a])
        /\ pc' = "clearAgg" => SameCpus(new, Orig[a])
  <2> SUFFICES ASSUME aggPod[a] = "running"
               PROVE  /\ cpuset'[a] = new
                      /\ pc' = "widenCtr" => EffPod(new) = EffPod(Orig[a])
                      /\ pc' = "clearAgg" => SameCpus(new, Orig[a])
    BY <1>4
  <2>1. cpuset'[a] = new
    BY <1>1, <1>4 DEF TypeOK, HostTypeOK
  <2>2. pc' = "widenCtr" => EffPod(new) = EffPod(Orig[a])
    BY <1>1, <1>2, <1>3, <1>7, WidenPodCpus DEF SameCpus
  <2>3. pc' = "clearAgg" => SameCpus(new, aggAnn[a])
    <3>1. pc' = "clearAgg" => EffPod(cpuset[a]) = EffPod(aggAnn[a]) /\ new = newCtr
      BY <1>3, <1>6, <1>7 DEF SameCpus
    <3>2. QED
      BY <1>1, <1>2, <3>1, WidenCtrCpus
  <2>4. QED
    BY <1>7, <2>1, <2>2, <2>3, SameCpusFacts
<1> HIDE DEF a
<1>9. CallOK'
  BY <1>3, <1>4, <1>5, <1>6, <1>8, UndoStepOK
<1>10. QED
  BY <1>4, <1>5, <1>9 DEF RecordInv, HasPrimary

LEMMA RestoreClearAggOK ==
  ASSUME CallsSucceed, TypeOK, HostStateInv, RecordInv, RestoreClearAgg
  PROVE  RecordInv'
<1> DEFINE o == [op EXCEPT !.todo = @ \ {op.cur}, !.cur = NoPod]
<1>1. PICK ok \in BOOLEAN : AnnotateAgg(op.cur, NoAnn, ok)
  BY DEF RestoreClearAgg
<1>2. pc = "clearAgg" /\ AfterAgg(o)
  BY DEF RestoreClearAgg
<1>3. op \in OpType /\ op.cur \in Aggs /\ op.cur \in op.todo /\ op.todo \subseteq Aggs
  BY <1>2 DEF TypeOK, CtlTypeOK, RestoreLabels, CurLabels
<1>4. o.todo = op.todo \ {op.cur} /\ o.victims = op.victims
  BY <1>3 DEF OpType
<1> HIDE DEF o
<1>5. /\ aggPod[op.cur] = "running" => aggAnn'[op.cur] = NoAnn
      /\ \A b \in Aggs \ {op.cur} : aggAnn'[b] = aggAnn[b]
      /\ UNCHANGED <<victimPod, victimAnn, aggPod, cpuset, pinned, monitor, primary,
                     secondaries, balancer>>
  BY <1>1, <1>3, AnnotateAggDone
<1>6. AnnotatedVictims' = AnnotatedVictims /\ AnnotatedAggs' = AnnotatedAggs \ {op.cur}
  BY <1>3, <1>5, SameRecord DEF AnnotatedAggs, Running
<1>7. HostStateEmpty'
  BY <1>2, <1>5 DEF HostStateInv, HostStateEmpty, RestoreLabels
<1>8. AnnotatedVictims \subseteq op.victims /\ AnnotatedAggs \subseteq op.todo
      /\ (aggPod[op.cur] = "running" => Untouched(op.cur))
  BY <1>2 DEF RecordInv, CallOK, RestoreOK, RestoreLabels, Untouched
<1>9. \A a \in Running(aggPod', Aggs) : aggAnn'[a] = NoAnn => Untouched(a)'
  BY <1>3, <1>5, <1>8 DEF RecordInv, RecordsOK, Running, Untouched, SameCpus
<1>10. RecordIsOriginal'
  BY <1>3, <1>5, <1>6 DEF RecordInv, RecordsOK, RecordIsOriginal, AnnotatedAggs, Running
<1>11. RecordsOK'
  BY <1>7, <1>9, <1>10 DEF RecordsOK, HostStateEmpty
<1>12. CallOK'
  BY <1>2, <1>4, <1>6, <1>7, <1>8, <1>11, AfterAggOK
<1>13. QED
  BY <1>7, <1>11, <1>12 DEF RecordInv, HostStateEmpty

LEMMA RestoreClearVictimOK ==
  ASSUME CallsSucceed, TypeOK, HostStateInv, RecordInv, RestoreClearVictim
  PROVE  RecordInv'
<1> DEFINE ann == [set |-> FALSE, secs |-> {}]
<1>1. PICK v \in op.victims, ok \in BOOLEAN :
        AnnotateVictim(v, ann, ok) /\ AfterAgg([op EXCEPT !.victims = @ \ {v}])
  BY DEF RestoreClearVictim
<1>2. pc = "clearVictims" /\ op \in OpType /\ v \in Victims /\ op.todo = {}
  BY DEF RestoreClearVictim, TypeOK, CtlTypeOK, OpType
<1> DEFINE o == [op EXCEPT !.victims = @ \ {v}]
<1>3. o.todo = {} /\ o.victims = op.victims \ {v} /\ AfterAgg(o)
  BY <1>1, <1>2 DEF OpType
<1>4. ann \in [set : BOOLEAN, secs : SUBSET Aggs] /\ ~ann.set
  OBVIOUS
<1> HIDE DEF o, ann
<1>5. /\ victimPod[v] = "running" => victimAnn'[v] = ann
      /\ \A w \in Victims \ {v} : victimAnn'[w] = victimAnn[w]
      /\ UNCHANGED <<victimPod, aggPod, aggAnn, cpuset, pinned, monitor, primary,
                     secondaries, balancer>>
  BY <1>1, <1>2, <1>4, AnnotateVictimDone
<1>6. RecordsOK' /\ AnnotatedAggs' = AnnotatedAggs
  BY <1>5, RecordsKept, SameRecord DEF RecordInv
<1>7. AnnotatedVictims \subseteq op.victims /\ AnnotatedAggs = {} /\ HostStateEmpty'
  BY <1>2, <1>5 DEF RecordInv, CallOK, RestoreOK, HostStateInv, HostStateEmpty
<1>8. AnnotatedVictims' \subseteq op.victims \ {v}
  BY <1>2, <1>4, <1>5, <1>7 DEF AnnotatedVictims, Running
<1>9. CallOK'
  BY <1>3, <1>6, <1>7, <1>8, AfterAggOK
<1>10. QED
  BY <1>6, <1>7, <1>9 DEF RecordInv, HostStateEmpty

-----------------------------------------------------------------------------
(***************************************************************************)
(* The surroundings.                                                       *)
(***************************************************************************)

\* A victim appears, unannotated: no victim goes away.
LEMMA VictimChurnOK ==
  ASSUME CallsSucceed, TypeOK, HostStateInv, RecordInv, VictimChurn
  PROVE  RecordInv'
<1>1. PICK v \in Victims :
        /\ victimPod[v] = "new"
        /\ victimPod' = [victimPod EXCEPT ![v] = "running"]
        /\ victimAnn' = [victimAnn EXCEPT ![v] = [set |-> FALSE, secs |-> {}]]
  BY DEF VictimChurn, CallsSucceed, NextPhase
<1>2. UNCHANGED <<aggPod, aggAnn, cpuset, pinned, monitor, primary, secondaries, balancer,
                  pc, op, ret>>
  BY DEF VictimChurn, hostVars, listenerVars, unitVars, ctlVars
<1>3. RecordsOK' /\ AnnotatedAggs' = AnnotatedAggs /\ (HasPrimary => HasPrimary')
  BY <1>2, RecordsKept, SameRecord DEF RecordInv, HasPrimary
<1>4. AnnotatedVictims' = AnnotatedVictims
      /\ \A w \in AnnotatedVictims : victimAnn'[w] = victimAnn[w]
  BY <1>1 DEF AnnotatedVictims, Running, TypeOK, ClusterTypeOK
<1>5. \A aggs : Covered(aggs) =>
        \A a \in aggs : \E w \in AnnotatedVictims' : a \in victimAnn'[w].secs
  BY <1>4 DEF Covered
<1>6. pc \in ApplyLabels => \A w \in op.victims : victimAnn'[w] = victimAnn[w]
  BY <1>1 DEF HostStateInv, Running, TypeOK, ClusterTypeOK
<1>7. (HostStateEmpty => HostStateEmpty') /\ (Released => Released')
  BY <1>2, <1>3, <1>4 DEF HostStateEmpty, Released, Running, Narrowed
<1>8. ApplyOK'
  <2>1. ApplyOK
    BY DEF RecordInv, CallOK
  <2>2. QED
    BY <1>2, <1>3, <1>4, <1>5, <1>6, <1>7, <2>1
    DEF ApplyOK, Covered, ApplyLabels, RegisteringLabels
<1>9. RestoreOK'
  BY <1>2, <1>3, <1>4 DEF RecordInv, CallOK, RestoreOK, SameCpus
<1>10. IdleOK'
  BY <1>2, <1>3, <1>4, <1>5, <1>7 DEF RecordInv, CallOK, IdleOK, RestoreReleases, Covered
<1>11. QED
  BY <1>2, <1>3, <1>8, <1>9, <1>10 DEF RecordInv, CallOK

\* A pod that comes is untouched and not on record; one that goes is off it.
LEMMA AggChurnOK ==
  ASSUME TypeOK, RecordInv, AggChurn
  PROVE  RecordInv'
<1>1. PICK a \in Aggs :
        /\ aggPod[a] \in {"new", "running"}
        /\ aggPod' = [aggPod EXCEPT ![a] = NextPhase(aggPod[a])]
        /\ aggAnn' = [aggAnn EXCEPT ![a] = NoAnn]
        /\ cpuset' = [cpuset EXCEPT ![a] = Orig[a]]
        /\ pinned' = pinned \ {a}
  BY DEF AggChurn
<1>2. UNCHANGED <<victimPod, victimAnn, monitor, primary, secondaries, balancer, pc, op, ret>>
  BY DEF AggChurn, listenerVars, unitVars, ctlVars
<1>3. /\ aggPod'[a] # "new" /\ (aggPod[a] # "new" => aggPod'[a] = "gone")
      /\ aggAnn'[a] = NoAnn /\ cpuset'[a] = Orig[a] /\ a \notin pinned'
      /\ \A b \in Aggs \ {a} : /\ aggPod'[b] = aggPod[b] /\ aggAnn'[b] = aggAnn[b]
                               /\ cpuset'[b] = cpuset[b] /\ (b \in pinned' <=> b \in pinned)
  BY <1>1 DEF NextPhase, TypeOK, ClusterTypeOK, HostTypeOK
<1>4. AnnotatedAggs' = AnnotatedAggs \ {a} /\ AnnotatedVictims' = AnnotatedVictims
  BY <1>2, <1>3, SameRecord DEF AnnotatedAggs, Running
<1>5. \A b \in Aggs : /\ aggPod'[b] = "new" => aggPod[b] = "new"
                      /\ aggPod[b] # "new" /\ aggPod'[b] = "running" => b # a
  BY <1>3
<1>6. RecordsOK'
  <2>1. \A b \in Running(aggPod', Aggs) : aggAnn'[b] = NoAnn => Untouched(b)'
    BY <1>3 DEF RecordInv, RecordsOK, Running, Untouched, SameCpus
  <2>2. RecordIsOriginal'
    BY <1>3, <1>4 DEF RecordInv, RecordsOK, RecordIsOriginal, AnnotatedAggs, Running
  <2>3. \A b \in secondaries' : /\ aggPod'[b] # "new"
                                /\ aggPod'[b] = "running" => aggAnn'[b] # NoAnn
    BY <1>2, <1>3, <1>5 DEF RecordInv, RecordsOK, TypeOK, HostTypeOK
  <2>4. QED
    BY <2>1, <2>2, <2>3 DEF RecordsOK
<1>7. ApplyOK'
  <2>1. ApplyOK
    BY DEF RecordInv, CallOK
  <2>2. op.aggs \subseteq Aggs /\ (pc \in ConfineLabels => op.todo \subseteq Aggs)
        /\ (pc \in NarrowLabels => op.cur \in op.todo /\ op.cur \in Aggs)
    BY DEF TypeOK, CtlTypeOK, OpType, NarrowLabels, ConfineLabels, CurLabels
  <2>3. pc \in NarrowLabels => aggPod[op.cur] # "new"
    BY <2>1, <2>2, LabelFacts DEF ApplyOK
  <2>4. pc \in NarrowLabels => (aggPod'[op.cur] = "running" => aggAnn'[op.cur] # NoAnn)
    BY <1>3, <1>5, <2>1, <2>2, <2>3 DEF ApplyOK
  <2>5. (HostStateEmpty => HostStateEmpty') /\ (HasPrimary => HasPrimary')
    BY <1>2 DEF HostStateEmpty, HasPrimary
  <2>6. \A aggs : Covered(aggs) =>
          \A b \in aggs : \E w \in AnnotatedVictims' : b \in victimAnn'[w].secs
    BY <1>2, <1>4 DEF Covered
  <2>7. /\ pc' \in ConfineLabels =>
             /\ \A b \in op'.todo : aggPod'[b] # "new"
                                    /\ (b # op'.cur => b \notin AnnotatedAggs')
             /\ AnnotatedAggs' \subseteq op'.reg \cup {op'.cur}
             /\ ~op'.added => Covered(op.reg)
    BY <1>2, <1>4, <1>5, <2>1, <2>2 DEF ApplyOK
  <2>8. pc' \in OpeningLabels =>
             /\ HostStateEmpty' /\ AnnotatedAggs' = {} /\ op'.reg = {} /\ ~op'.added
             /\ op'.cur = NoPod
             /\ \A b \in op'.aggs : aggPod'[b] # "new"
    BY <1>2, <1>4, <1>5, <2>1, <2>2, <2>5 DEF ApplyOK
  <2>9. QED
    BY <1>2, <1>4, <2>1, <2>4, <2>5, <2>6, <2>7, <2>8 DEF ApplyOK, Covered
<1>8. RestoreOK'
  <2>1. RestoreOK
    BY DEF RecordInv, CallOK
  <2>2. pc \in {"widenPod", "widenCtr", "clearAgg"} => op.cur \in Aggs /\ aggPod[op.cur] # "new"
    BY DEF TypeOK, CtlTypeOK, RestoreFindsRecord, RestoreLabels, CurLabels
  <2>3. pc \in {"widenPod", "widenCtr", "clearAgg"} /\ aggPod'[op.cur] = "running" =>
          /\ aggPod[op.cur] = "running" /\ cpuset'[op.cur] = cpuset[op.cur]
          /\ op.cur \in pinned' <=> op.cur \in pinned
    BY <1>3, <1>5, <2>2
  <2>4. QED
    BY <1>2, <1>4, <2>1, <2>3 DEF RestoreOK, SameCpus
<1>9. IdleOK'
  <2>1. Released => Released'
    <3>1. Running(aggPod', Aggs) \subseteq Running(aggPod, Aggs) \cup {a}
      BY <1>3 DEF Running
    <3>2. \A b \in Running(aggPod', Aggs) :
            (b \in Running(aggPod, Aggs) => ~Narrowed(b) /\ b \notin pinned)
              => ~Narrowed(b)' /\ b \notin pinned'
      BY <1>3, <3>1 DEF Narrowed, Running
    <3>3. QED
      BY <1>2, <1>4, <3>1, <3>2 DEF Released
  <2>2. QED
    BY <1>2, <1>4, <2>1
    DEF RecordInv, CallOK, IdleOK, RestoreReleases, Covered, HasPrimary
<1>10. QED
  BY <1>2, <1>6, <1>7, <1>8, <1>9 DEF RecordInv, CallOK, HasPrimary

\* The Balancer narrows a Secondary, which is on record, and only while it has
\* a Primary: not after a Restore has emptied the Listener.
LEMMA RebalanceOK ==
  ASSUME RecordInv, HostStateInv, Rebalance
  PROVE  RecordInv'
<1>1. PICK a \in secondaries : aggPod[a] = "running" /\ pinned' = pinned \cup {a}
  BY DEF Rebalance
<1>2. /\ primary # NoTarget
      /\ UNCHANGED <<victimPod, victimAnn, aggPod, aggAnn, cpuset, monitor, primary,
                     secondaries, balancer, pc, op, ret>>
  BY DEF Rebalance, podVars, annVars, listenerVars, unitVars, ctlVars
<1>3. AnnotatedAggs' = AnnotatedAggs /\ AnnotatedVictims' = AnnotatedVictims
  BY <1>2, SameRecord
<1>4. RecordsOK'
  <2>1. aggAnn[a] # NoAnn
    BY <1>1 DEF RecordInv, RecordsOK
  <2>2. QED
    BY <1>1, <1>2, <1>3, <2>1
    DEF RecordInv, RecordsOK, Running, Untouched, SameCpus, RecordIsOriginal
<1>5. ~HostStateEmpty /\ ~Released
  BY <1>2 DEF HostStateEmpty, Released
<1>6. ApplyOK'
  <2>1. ApplyOK
    BY DEF RecordInv, CallOK
  <2>2. QED
    BY <1>2, <1>3, <1>5, <2>1 DEF ApplyOK, HasPrimary, Covered
<1>7. RestoreOK'
  <2>1. pc \notin {"widenPod", "widenCtr", "clearAgg"}
    BY <1>5 DEF HostStateInv, RestoreLabels
  <2>2. QED
    BY <1>2, <1>3, <2>1 DEF RecordInv, CallOK, RestoreOK
<1>8. IdleOK'
  BY <1>2, <1>3, <1>5 DEF RecordInv, CallOK, IdleOK, RestoreReleases, HasPrimary, Covered
<1>9. QED
  BY <1>2, <1>4, <1>6, <1>7, <1>8 DEF RecordInv, CallOK, HasPrimary

LEMMA UnitStepOK ==
  ASSUME RecordInv, BalancerDies \/ StaticByHand
  PROVE  RecordInv'
<1>1. UNCHANGED <<victimPod, victimAnn, aggPod, aggAnn, cpuset, pinned, monitor, primary,
                  secondaries, pc, op, ret>>
  BY DEF BalancerDies, StaticByHand, podVars, annVars, hostVars, listenerVars, ctlVars
<1>2. RecordsOK' /\ AnnotatedAggs' = AnnotatedAggs /\ AnnotatedVictims' = AnnotatedVictims
  BY <1>1, RecordsKept, SameRecord DEF RecordInv
<1>7. balancer' => balancer
  BY Zenon DEF BalancerDies, StaticByHand
<1>3. (HostStateEmpty => HostStateEmpty') /\ (Released => Released')
  <2>1. Running(aggPod, Aggs)' = Running(aggPod, Aggs) /\ \A a \in Aggs : Narrowed(a)' <=> Narrowed(a)
    BY <1>1 DEF Narrowed
  <2>2. Running(aggPod, Aggs) \subseteq Aggs
    BY DEF Running
  <2>3. QED
    BY <1>1, <1>2, <1>7, <2>1, <2>2 DEF HostStateEmpty, Released
<1>4. ApplyOK'
  BY <1>1, <1>2, <1>3 DEF RecordInv, CallOK, ApplyOK, HasPrimary, Covered
<1>5. RestoreOK'
  BY <1>1, <1>2 DEF RecordInv, CallOK, RestoreOK, SameCpus
<1>6. IdleOK'
  BY <1>1, <1>2, <1>3 DEF RecordInv, CallOK, IdleOK, RestoreReleases, HasPrimary, Covered
<1>8. balancer' => HasPrimary'
  BY <1>1, <1>7 DEF RecordInv, HasPrimary
<1>9. QED
  BY <1>2, <1>4, <1>5, <1>6, <1>8 DEF RecordInv, CallOK

\* A step that leaves the node alone and has no call in flight any more.
LEMMA DownOK ==
  ASSUME RecordInv, pc' = "down",
         UNCHANGED <<podVars, annVars, hostVars, listenerVars, unitVars>>
  PROVE  RecordInv'
<1>1. RecordsOK'
  BY RecordsKept DEF RecordInv, podVars, annVars, hostVars, listenerVars
<1>2. QED
  BY <1>1, OutsideCalls DEF RecordInv, HasPrimary, listenerVars, unitVars

LEMMA RecordStutter ==
  ASSUME RecordInv, UNCHANGED vars
  PROVE  RecordInv'
  BY DEF RecordInv, RecordsOK, RecordIsOriginal, CallOK, ApplyOK, RestoreOK, IdleOK,
     RestoreReleases, Released, Narrowed, HostStateEmpty, HasPrimary, Covered, Untouched,
     SameCpus, AnnotatedAggs, AnnotatedVictims, Running, vars

\* Every step of a call and of the surroundings, a crash aside.
LEMMA NextOK ==
  ASSUME CallsSucceed, OneTarget, TypeOK, HostStateInv, RecordInv, [Next]_vars
  PROVE  RecordInv'
<1>1. ASSUME NEW t \in Targets, CallApply(t) PROVE RecordInv'
  BY <1>1, CallApplyOK
<1>2. CASE CallRestore \/ Restart
  BY <1>2, RestoreListOK DEF CallRestore, Restart
<1>3. CASE Apply
  BY <1>3, ApplyAnnotateVictimOK, SyncMonitorOK, SendPrimaryOK, ConfineRecordOK,
     ConfineNarrowOK, SendSecondaryOK, RecordSecondariesOK, EnsureBalancerOK DEF Apply
<1>4. CASE Restore
  BY <1>4, StopAndResetOK, ReadOnlineOK, RestoreAffinityOK, RestoreWidenOK,
     RestoreClearAggOK, RestoreClearVictimOK DEF Restore
<1>5. CASE Crash
  BY <1>5, DownOK DEF Crash
<1>6. CASE Environment /\ ~Crash
  BY <1>6, VictimChurnOK, AggChurnOK, RebalanceOK, UnitStepOK DEF Environment
<1>7. CASE UNCHANGED vars
  BY <1>7, RecordStutter
<1>8. QED
  BY <1>1, <1>2, <1>3, <1>4, <1>5, <1>6, <1>7 DEF Next

LEMMA InitOK == Init => RecordInv
<1> SUFFICES ASSUME Init PROVE RecordInv
  OBVIOUS
<1>1. AnnotatedAggs = {} /\ AnnotatedVictims = {}
  BY DEF Init, AnnotatedAggs, AnnotatedVictims, Running
<1>2. RecordsOK
  BY <1>1 DEF Init, RecordsOK, RecordIsOriginal, Running, Untouched, SameCpus
<1>3. CallOK
  BY DEF Init, CallOK, ApplyOK, RestoreOK, IdleOK, RestoreReleases, ApplyLabels,
     OpeningLabels, NarrowLabels, RegisteringLabels, ConfineLabels, RestoreLabels
<1>4. QED
  BY <1>2, <1>3 DEF Init, RecordInv

-----------------------------------------------------------------------------
(***************************************************************************)
(* Theorems about the actuator.                                            *)
(***************************************************************************)
LEMMA RecordInvariant ==
  ASSUME CallsSucceed, OneTarget
  PROVE  Spec => [](TypeOK /\ HostStateInv /\ RecordInv)
<1>1. HostCallsSucceed
  BY CallFaults
<1>2. Init => RecordInv
  BY InitOK
<1>3. TypeOK /\ HostStateInv /\ RecordInv /\ [Next]_vars => RecordInv'
  BY NextOK
<1>4. QED
  BY <1>1, <1>2, <1>3, TypeCorrect, HostStateInvariant, PTL DEF Spec

\* Every aggressor whose CPUs are not the ones it had carries its record: no
\* crash between the steps of confine and of Restore loses it.
THEOREM NarrowedIsRecorded ==
  ASSUME CallsSucceed, OneTarget
  PROVE  Spec => []NarrowedRecorded
<1>1. RecordInv => NarrowedRecorded
  BY DEF RecordInv, RecordsOK, NarrowedRecorded, Narrowed, Untouched, SameCpus
<1>2. QED
  BY <1>1, RecordInvariant, PTL

\* So does every aggressor whose threads the Balancer has narrowed.
THEOREM PinnedIsRecorded ==
  ASSUME CallsSucceed, OneTarget
  PROVE  Spec => []PinnedRecorded
<1>1. RecordInv => PinnedRecorded
  BY DEF RecordInv, RecordsOK, PinnedRecorded, Untouched
<1>2. QED
  BY <1>1, RecordInvariant, PTL

\* The record is never one of the actuator's own cpusets, over any sequence of
\* Apply, crash, Reconcile and Restore: an Apply confines only pods that are
\* not on record, since it counts those that are as registered.
THEOREM RecordStaysOriginal ==
  ASSUME CallsSucceed, OneTarget
  PROVE  Spec => []RecordIsOriginal
<1>1. RecordInv => RecordIsOriginal
  BY DEF RecordInv, RecordsOK
<1>2. QED
  BY <1>1, RecordInvariant, PTL

\* The Balancer lends only a Primary's cores, and the ones the Monitor polls.
THEOREM BalancerKeepsPrimary ==
  ASSUME CallsSucceed, OneTarget
  PROVE  Spec => []BalancerHasPrimary
<1>1. RecordInv => BalancerHasPrimary
  BY TargetsAssumption DEF RecordInv, HasPrimary, BalancerHasPrimary
<1>2. QED
  BY <1>1, RecordInvariant, PTL

\* A Restore or a Reconcile that reports success has released everything,
\* whatever earlier calls were cut short and whichever pods came and went.
THEOREM RestoreReleasesNode ==
  ASSUME CallsSucceed, OneTarget
  PROVE  Spec => []RestoreReleases
<1>1. RecordInv => RestoreReleases
  BY DEF RecordInv, CallOK, IdleOK
<1>2. QED
  BY <1>1, RecordInvariant, PTL

-----------------------------------------------------------------------------
(***************************************************************************)
(* hc-secondaries and the Listener: a call whose API patches, Listener     *)
(* messages and host reads succeed, whatever the cgroup writes and systemd *)
(* do and whichever pods come and go, for any number of targets.           *)
(***************************************************************************)
MessagesSucceed == Faults \cap {"api", "listener", "host"} = {}

UndoLabels == RestoreLabels \cup {"clearVictims"}

\* Every annotated victim outside vs names only pods the Listener has.
RegisteredBut(vs) ==
  \A v \in AnnotatedVictims : v \in vs \/ victimAnn[v].secs \subseteq secondaries

\* A victim can carry a stale hc-secondaries, but only one that the running
\* Apply has yet to write, since it has a Secondary to register.
RegisteredInv ==
  /\ pc \in ApplyLabels => op.reg \subseteq secondaries
  /\ pc \in UndoLabels => AnnotatedVictims \subseteq op.victims
  /\ pc \in OpeningLabels => op.aggs # {} /\ op.reg = {}
  /\ pc = "annotateVictims" => op.todo \subseteq op.victims
  /\ pc \in ConfineLabels => op.todo # {}
  /\ pc \in OpeningLabels \cup ConfineLabels => RegisteredBut(op.victims)
  /\ pc = "recordSecondaries" => RegisteredBut(op.todo)
  /\ pc \in {"balancer", "startBalancer", "idle"} => RegisteredBut({})

LEMMA MessageDone ==
  ASSUME MessagesSucceed, NEW class \in {"api", "listener", "host"}, NEW ok, Attempt(class, ok)
  PROVE  ok
  BY DEF MessagesSucceed, Attempt, CanFail

LEMMA PatchDone ==
  ASSUME MessagesSucceed, TypeOK, NEW v \in Victims,
         NEW ann \in [set : BOOLEAN, secs : SUBSET Aggs], NEW ok \in BOOLEAN,
         AnnotateVictim(v, ann, ok)
  PROVE  /\ ok /\ secondaries' = secondaries /\ victimPod' = victimPod
         /\ victimPod[v] = "running" => victimAnn'[v] = ann
         /\ \A w \in Victims \ {v} : victimAnn'[w] = victimAnn[w]
<1>1. ok
  BY MessageDone DEF AnnotateVictim
<1>2. QED
  BY <1>1 DEF AnnotateVictim, podVars, listenerVars, TypeOK, ClusterTypeOK

\* Apply goes on with o: either it still has a pod to register, or it has and
\* will write every victim's record.
LEMMA AfterSecondaryRegistered ==
  ASSUME NEW o \in OpType, AfterSecondary(o), o.reg \subseteq secondaries',
         \A v \in AnnotatedVictims' : v \in o.victims \/ victimAnn'[v].secs \subseteq secondaries',
         o.todo = {} /\ ~o.added =>
           \A v \in AnnotatedVictims' : victimAnn'[v].secs \subseteq secondaries'
  PROVE  RegisteredInv'
<1>1. CASE o.todo # {}
  BY <1>1 DEF AfterSecondary, Goto, RegisteredInv, RegisteredBut, ApplyLabels, OpeningLabels,
     RegisteringLabels, ConfineLabels, UndoLabels, RestoreLabels
<1>2. CASE o.todo = {} /\ o.added
  <2>1. pc' = "recordSecondaries" /\ op'.todo = o.victims /\ op'.reg = o.reg
    BY <1>2 DEF AfterSecondary, Goto, OpType
  <2>2. QED
    BY <2>1 DEF RegisteredInv, RegisteredBut, OpeningLabels, ConfineLabels, UndoLabels,
       RestoreLabels
<1>3. CASE o.todo = {} /\ ~o.added
  BY <1>3 DEF AfterSecondary, Goto, RegisteredInv, RegisteredBut, OpeningLabels,
     ConfineLabels, UndoLabels, RestoreLabels
<1>4. QED
  BY <1>1, <1>2, <1>3

\* Restore goes on with o: it has every annotated victim in its list.
LEMMA AfterAggRegistered ==
  ASSUME NEW o, AfterAgg(o), AnnotatedVictims' \subseteq o.victims
  PROVE  RegisteredInv'
<1>1. CASE o.todo # {} \/ o.victims # {}
  BY <1>1 DEF AfterAgg, Goto, RegisteredInv, ApplyLabels, OpeningLabels, RegisteringLabels,
     ConfineLabels, UndoLabels, RestoreLabels
<1>2. CASE o.todo = {} /\ o.victims = {}
  BY <1>2 DEF AfterAgg, Return, RegisteredInv, RegisteredBut, ApplyLabels, OpeningLabels,
     RegisteringLabels, ConfineLabels, UndoLabels, RestoreLabels
<1>3. QED
  BY <1>1, <1>2

LEMMA CallApplyRegistered ==
  ASSUME MessagesSucceed, TypeOK, RegisteredInv, NEW t \in Targets, CallApply(t)
  PROVE  RegisteredInv'
<1> DEFINE vs == RunningVictims(t)
           own == {v \in vs : victimAnn[v].set}
           held == own # {}
           reg == UNION {victimAnn[v].secs : v \in own}
           ags == Running(aggPod, Aggs)
           o == [NoOp EXCEPT !.kind = "apply", !.target = t, !.held = held,
                             !.victims = vs, !.aggs = ags, !.reg = reg]
           o1 == [o EXCEPT !.todo = vs]
           o2 == [o EXCEPT !.todo = ags \ reg]
<1>1. /\ victimAnn' = victimAnn /\ secondaries' = secondaries /\ pc = "idle"
      /\ AnnotatedVictims' = AnnotatedVictims
  BY DEF CallApply, podVars, annVars, listenerVars, AnnotatedVictims, Running
<1>2. RegisteredBut({})
  BY <1>1 DEF RegisteredInv
<1>3. \A v \in AnnotatedVictims' : victimAnn'[v].secs \subseteq secondaries'
  BY <1>1, <1>2 DEF RegisteredBut
<1>4. vs \subseteq Victims /\ ags \subseteq Aggs /\ reg \subseteq Aggs
  BY DEF RunningVictims, Running, TypeOK, ClusterTypeOK
<1>5. reg \subseteq secondaries'
  BY <1>1, <1>3 DEF RunningVictims, Running, AnnotatedVictims
<1>6. /\ o1 \in OpType /\ o1.todo = vs /\ o1.victims = vs /\ o1.reg = reg /\ o1.aggs = ags
      /\ o2 \in OpType /\ o2.victims = vs /\ o2.reg = reg
  BY <1>4, ConstantFacts DEF NoOp, OpType
<1>7. ASSUME NEW err \in BOOLEAN, Return("apply", FALSE, err) PROVE RegisteredInv'
  BY <1>3, <1>7 DEF Return, RegisteredInv, RegisteredBut, ApplyLabels, OpeningLabels,
     RegisteringLabels, ConfineLabels, UndoLabels, RestoreLabels
<1>8. ASSUME vs # {}, ags # {}, ~held, Goto("annotateVictims", o1) PROVE RegisteredInv'
  <2>1. reg = {}
    BY <1>8
  <2>2. pc' = "annotateVictims" /\ op' = o1
    BY <1>8 DEF Goto
  <2> HIDE DEF vs, own, held, reg, ags, o, o1, o2
  <2>3. QED
    BY <1>3, <1>6, <1>8, <2>1, <2>2 DEF RegisteredInv, RegisteredBut, ConfineLabels,
       UndoLabels, RestoreLabels
<1>9. ASSUME AfterSecondary(o2) PROVE RegisteredInv'
  <2> HIDE DEF vs, own, held, reg, ags, o, o1, o2
  <2>1. QED
    BY <1>3, <1>5, <1>6, <1>9, AfterSecondaryRegistered
<1>10. QED
  BY <1>7, <1>8, <1>9 DEF CallApply

LEMMA ApplyAnnotateVictimRegistered ==
  ASSUME MessagesSucceed, TypeOK, RegisteredInv, ApplyAnnotateVictim
  PROVE  RegisteredInv'
<1>1. PICK v \in op.todo, ok \in BOOLEAN :
        /\ AnnotateVictim(v, [victimAnn[v] EXCEPT !.set = TRUE], ok)
        /\ IF ~ok THEN Return("apply", FALSE, TRUE)
           ELSE IF op.todo = {v} THEN Goto("monitor", [op EXCEPT !.todo = {}])
           ELSE Goto("annotateVictims", [op EXCEPT !.todo = @ \ {v}])
  BY DEF ApplyAnnotateVictim
<1>2. v \in Victims /\ op.todo \subseteq Victims /\ op \in OpType /\ pc = "annotateVictims"
  BY DEF ApplyAnnotateVictim, TypeOK, CtlTypeOK
<1> DEFINE ann == [victimAnn[v] EXCEPT !.set = TRUE]
<1>3. ann \in [set : BOOLEAN, secs : SUBSET Aggs] /\ AnnotateVictim(v, ann, ok)
  BY <1>1, <1>2 DEF TypeOK, ClusterTypeOK
<1> HIDE DEF ann
<1>4. /\ ok /\ secondaries' = secondaries /\ victimPod' = victimPod
      /\ \A w \in Victims \ {v} : victimAnn'[w] = victimAnn[w]
  BY <1>2, <1>3, PatchDone
<1>5. /\ op.reg \subseteq secondaries /\ op.aggs # {} /\ op.reg = {}
      /\ op.todo \subseteq op.victims /\ RegisteredBut(op.victims)
  BY <1>2 DEF RegisteredInv, OpeningLabels, ApplyLabels
<1>6. \A w \in AnnotatedVictims' : w \in op.victims \/ victimAnn'[w].secs \subseteq secondaries'
  BY <1>2, <1>4, <1>5 DEF RegisteredBut, AnnotatedVictims, Running
<1>7. /\ pc' \in {"monitor", "annotateVictims"} /\ op'.victims = op.victims
      /\ op'.reg = op.reg /\ op'.aggs = op.aggs /\ op'.todo \subseteq op.todo
  BY <1>1, <1>2, <1>4 DEF Goto, OpType
<1>8. QED
  BY <1>4, <1>5, <1>6, <1>7 DEF RegisteredInv, RegisteredBut, OpeningLabels, ConfineLabels,
     UndoLabels, RestoreLabels

LEMMA SyncMonitorRegistered ==
  ASSUME MessagesSucceed, RegisteredInv, SyncMonitorCPUList
  PROVE  RegisteredInv'
<1>1. /\ pc = "monitor" /\ pc' = "primary" /\ op' = op
      /\ UNCHANGED <<victimPod, victimAnn, secondaries>>
  BY MessageDone DEF SyncMonitorCPUList, Goto, podVars, annVars
<1>2. QED
  BY <1>1 DEF RegisteredInv, RegisteredBut, AnnotatedVictims, Running, OpeningLabels,
     ApplyLabels, ConfineLabels, UndoLabels, RestoreLabels

LEMMA SendPrimaryRegistered ==
  ASSUME MessagesSucceed, TypeOK, RegisteredInv, SendPrimary
  PROVE  RegisteredInv'
<1> DEFINE o == [op EXCEPT !.todo = op.aggs \ op.reg]
<1>1. /\ pc = "primary" /\ AfterSecondary(o)
      /\ UNCHANGED <<victimPod, victimAnn, secondaries>>
  BY MessageDone DEF SendPrimary, podVars, annVars
<1>2. op \in OpType
  BY DEF TypeOK, CtlTypeOK
<1>3. op.aggs # {} /\ op.reg = {} /\ RegisteredBut(op.victims)
  BY <1>1 DEF RegisteredInv, OpeningLabels
<1>4. o \in OpType /\ o.todo # {} /\ o.victims = op.victims /\ o.reg = {}
  BY <1>2, <1>3 DEF OpType
<1> HIDE DEF o
<1>5. \A v \in AnnotatedVictims' : v \in o.victims \/ victimAnn'[v].secs \subseteq secondaries'
  BY <1>1, <1>3, <1>4 DEF RegisteredBut, AnnotatedVictims, Running
<1>6. QED
  BY <1>1, <1>4, <1>5, AfterSecondaryRegistered

LEMMA ConfineRegistered ==
  ASSUME TypeOK, RegisteredInv, ConfineRecord \/ ConfineNarrowPod \/ ConfineNarrowCtr
  PROVE  RegisteredInv'
<1>1. /\ pc \in ConfineLabels /\ pc' \in ConfineLabels
      /\ UNCHANGED <<victimPod, victimAnn, secondaries>>
  BY DEF ConfineRecord, ConfineNarrowPod, ConfineNarrowCtr, WriteCpuset, AnnotateAgg, Goto,
         ConfineLabels, podVars, annVars, listenerVars
<1>2. op'.victims = op.victims /\ op'.reg = op.reg /\ op'.todo = op.todo
  BY DEF ConfineRecord, ConfineNarrowPod, ConfineNarrowCtr, Goto, TypeOK, CtlTypeOK, OpType
<1>3. QED
  BY <1>1, <1>2 DEF RegisteredInv, RegisteredBut, AnnotatedVictims, Running, OpeningLabels,
     ApplyLabels, RegisteringLabels, ConfineLabels, UndoLabels, RestoreLabels

LEMMA SendSecondaryRegistered ==
  ASSUME MessagesSucceed, TypeOK, RegisteredInv, SendSecondary
  PROVE  RegisteredInv'
<1> DEFINE o == [op EXCEPT !.todo = @ \ {op.cur}, !.cur = NoPod]
           good == [o EXCEPT !.reg = @ \cup {op.cur}, !.added = TRUE]
<1>1. /\ pc = "register" /\ AfterSecondary(good) /\ secondaries' = secondaries \cup {op.cur}
      /\ UNCHANGED <<victimPod, victimAnn>>
  BY MessageDone DEF SendSecondary, podVars, annVars
<1>2. op \in OpType /\ op.cur \in Aggs /\ op.reg \subseteq secondaries
      /\ RegisteredBut(op.victims)
  BY <1>1 DEF TypeOK, CtlTypeOK, OpType, ConfineLabels, CurLabels, RegisteredInv,
     RegisteringLabels, ApplyLabels
<1>3. good \in OpType /\ good.victims = op.victims /\ good.reg = op.reg \cup {op.cur}
      /\ good.added
  BY <1>2 DEF OpType
<1> HIDE DEF good, o
<1>4. \A v \in AnnotatedVictims' :
        v \in good.victims \/ victimAnn'[v].secs \subseteq secondaries'
  BY <1>1, <1>2, <1>3 DEF RegisteredBut, AnnotatedVictims, Running
<1>5. QED
  BY <1>1, <1>2, <1>3, <1>4, AfterSecondaryRegistered

LEMMA RecordSecondariesRegistered ==
  ASSUME MessagesSucceed, TypeOK, RegisteredInv, RecordSecondaries
  PROVE  RegisteredInv'
<1>1. PICK v \in op.todo, ok \in BOOLEAN :
        /\ AnnotateVictim(v, [victimAnn[v] EXCEPT !.secs = op.reg], ok)
        /\ LET o == [op EXCEPT !.todo = @ \ {v}] IN
           Goto(IF o.todo = {} THEN "balancer" ELSE "recordSecondaries", o)
  BY DEF RecordSecondaries
<1>2. v \in Victims /\ op.todo \subseteq Victims /\ op \in OpType /\ pc = "recordSecondaries"
  BY DEF RecordSecondaries, TypeOK, CtlTypeOK
<1> DEFINE ann == [victimAnn[v] EXCEPT !.secs = op.reg]
<1>3. /\ ann \in [set : BOOLEAN, secs : SUBSET Aggs] /\ AnnotateVictim(v, ann, ok)
      /\ ann.set = victimAnn[v].set /\ ann.secs = op.reg
  BY <1>1, <1>2 DEF TypeOK, ClusterTypeOK, OpType
<1>4. /\ pc' = (IF op.todo \ {v} = {} THEN "balancer" ELSE "recordSecondaries")
      /\ op'.todo = op.todo \ {v} /\ op'.reg = op.reg
  BY <1>1, <1>2 DEF Goto, OpType
<1> HIDE DEF ann
<1>5. /\ secondaries' = secondaries /\ victimPod' = victimPod
      /\ victimPod[v] = "running" => victimAnn'[v] = ann
      /\ \A w \in Victims \ {v} : victimAnn'[w] = victimAnn[w]
  BY <1>2, <1>3, PatchDone
<1>6. op.reg \subseteq secondaries /\ RegisteredBut(op.todo)
  BY <1>2 DEF RegisteredInv, ApplyLabels, RegisteringLabels
<1>7. \A w \in AnnotatedVictims' :
        w \in op.todo \ {v} \/ victimAnn'[w].secs \subseteq secondaries'
  BY <1>2, <1>3, <1>5, <1>6 DEF RegisteredBut, AnnotatedVictims, Running
<1>8. QED
  BY <1>4, <1>5, <1>6, <1>7 DEF RegisteredInv, RegisteredBut, OpeningLabels, ConfineLabels,
     UndoLabels, RestoreLabels

LEMMA EnsureBalancerRegistered ==
  ASSUME RegisteredInv, EnsureBalancer
  PROVE  RegisteredInv'
<1>1. /\ pc \in {"balancer", "startBalancer"} /\ UNCHANGED <<victimPod, victimAnn, secondaries>>
      /\ pc' = "idle" \/ (pc' = "startBalancer" /\ op' = op)
  BY DEF EnsureBalancer, KeepBalancer, StopStatic, StartBalancer, Return, Goto, podVars,
         annVars, listenerVars
<1>2. QED
  BY <1>1 DEF RegisteredInv, RegisteredBut, AnnotatedVictims, Running, ApplyLabels,
     RegisteringLabels, OpeningLabels, ConfineLabels, UndoLabels, RestoreLabels

LEMMA ListRecordedRegistered ==
  ASSUME MessagesSucceed, ListRecorded
  PROVE  RegisteredInv'
<1>1. AnnotatedVictims' = AnnotatedVictims
  BY DEF ListRecorded, podVars, annVars, AnnotatedVictims, Running
<1>2. \/ AnnotatedVictims = {} /\ pc' = "idle"
      \/ pc' = "stopBalancer" /\ op'.victims = AnnotatedVictims
  BY MessageDone DEF ListRecorded, Return, Goto, NoOp
<1>3. QED
  BY <1>1, <1>2 DEF RegisteredInv, RegisteredBut, ApplyLabels, RegisteringLabels,
     OpeningLabels, ConfineLabels, UndoLabels, RestoreLabels

LEMMA RestoreRegistered ==
  ASSUME MessagesSucceed, TypeOK, RegisteredInv, Restore
  PROVE  RegisteredInv'
<1>1. pc \in UndoLabels /\ AnnotatedVictims \subseteq op.victims /\ op \in OpType
  BY DEF Restore, StopBalancer, SendReset, ReadOnlineCPUs, RestoreAffinity, RestoreWidenPod,
         RestoreWidenCtr, RestoreWrite, RestoreClearAgg, RestoreClearVictim, UndoLabels,
         RestoreLabels, RegisteredInv, TypeOK, CtlTypeOK
<1>2. CASE StopBalancer \/ SendReset \/ RestoreAffinity \/ RestoreWidenPod \/ RestoreWidenCtr
  <2>1. pc' \in RestoreLabels /\ AnnotatedVictims' = AnnotatedVictims
    BY <1>2 DEF StopBalancer, SendReset, RestoreAffinity, RestoreWidenPod, RestoreWidenCtr,
       RestoreWrite, WriteCpuset, Goto, RestoreLabels, podVars, annVars, AnnotatedVictims,
       Running
  <2>2. op'.victims = op.victims
    BY <1>1, <1>2 DEF StopBalancer, SendReset, RestoreAffinity, RestoreWidenPod,
       RestoreWidenCtr, RestoreWrite, Goto, OpType
  <2>3. QED
    BY <1>1, <2>1, <2>2 DEF RegisteredInv, ApplyLabels, RegisteringLabels, OpeningLabels,
       ConfineLabels, UndoLabels, RestoreLabels
<1>3. CASE ReadOnlineCPUs
  <2>1. AfterAgg(op) /\ AnnotatedVictims' = AnnotatedVictims
    BY <1>3, MessageDone DEF ReadOnlineCPUs, podVars, annVars, AnnotatedVictims, Running
  <2>2. QED
    BY <1>1, <2>1, AfterAggRegistered
<1>4. CASE RestoreClearAgg
  <2> DEFINE o == [op EXCEPT !.todo = @ \ {op.cur}, !.cur = NoPod]
  <2>1. AfterAgg(o) /\ AnnotatedVictims' = AnnotatedVictims
    BY <1>4 DEF RestoreClearAgg, AnnotateAgg, podVars, AnnotatedVictims, Running
  <2>2. o.victims = op.victims
    BY <1>1 DEF OpType
  <2> HIDE DEF o
  <2>3. QED
    BY <1>1, <2>1, <2>2, AfterAggRegistered
<1>5. CASE RestoreClearVictim
  <2> DEFINE ann == [set |-> FALSE, secs |-> {}]
  <2>1. PICK v \in op.victims, ok \in BOOLEAN :
          AnnotateVictim(v, ann, ok) /\ AfterAgg([op EXCEPT !.victims = @ \ {v}])
    BY <1>5 DEF RestoreClearVictim
  <2> DEFINE o == [op EXCEPT !.victims = @ \ {v}]
  <2>2. v \in Victims /\ o.victims = op.victims \ {v} /\ AfterAgg(o)
        /\ ann \in [set : BOOLEAN, secs : SUBSET Aggs] /\ ~ann.set
    BY <1>1, <2>1 DEF OpType
  <2> HIDE DEF o, ann
  <2>3. /\ victimPod' = victimPod /\ (victimPod[v] = "running" => victimAnn'[v] = ann)
        /\ \A w \in Victims \ {v} : victimAnn'[w] = victimAnn[w]
    BY <2>1, <2>2, PatchDone
  <2>4. AnnotatedVictims' \subseteq o.victims
    BY <1>1, <2>2, <2>3 DEF AnnotatedVictims, Running
  <2>5. QED
    BY <2>2, <2>4, AfterAggRegistered
<1>6. QED
  BY <1>2, <1>3, <1>4, <1>5 DEF Restore

\* A victim that comes or goes loses its record; the rest touches none.
LEMMA OutsideRegistered ==
  ASSUME TypeOK, RegisteredInv,
         \/ VictimChurn \/ AggChurn \/ Rebalance \/ BalancerDies \/ StaticByHand
         \/ UNCHANGED vars
  PROVE  RegisteredInv'
<1>1. UNCHANGED <<secondaries, pc, op>>
  BY DEF VictimChurn, AggChurn, Rebalance, BalancerDies, StaticByHand, listenerVars, ctlVars,
         vars
<1>2. /\ AnnotatedVictims' \subseteq AnnotatedVictims
      /\ \A v \in AnnotatedVictims' : victimAnn'[v] = victimAnn[v]
  <2>1. CASE VictimChurn
    BY <2>1 DEF VictimChurn, AnnotatedVictims, Running, TypeOK, ClusterTypeOK
  <2>2. CASE AggChurn \/ Rebalance \/ BalancerDies \/ StaticByHand \/ UNCHANGED vars
    BY <2>2 DEF AggChurn, Rebalance, BalancerDies, StaticByHand, podVars, annVars, vars,
       AnnotatedVictims, Running
  <2>3. QED
    BY <2>1, <2>2
<1>3. QED
  BY <1>1, <1>2 DEF RegisteredInv, RegisteredBut

LEMMA InitRegistered == Init => RegisteredInv
  BY DEF Init, RegisteredInv, ApplyLabels, RegisteringLabels, OpeningLabels, ConfineLabels,
         UndoLabels, RestoreLabels

\* The process goes down, and its call with it.
LEMMA DownRegistered ==
  ASSUME pc' = "down"
  PROVE  RegisteredInv'
  BY DEF RegisteredInv, ApplyLabels, RegisteringLabels, OpeningLabels, ConfineLabels,
         UndoLabels, RestoreLabels

LEMMA NextRegistered ==
  ASSUME MessagesSucceed, TypeOK, RegisteredInv, [Next]_vars
  PROVE  RegisteredInv'
<1>1. ASSUME NEW t \in Targets, CallApply(t) PROVE RegisteredInv'
  BY <1>1, CallApplyRegistered
<1>2. CASE CallRestore \/ Restart
  BY <1>2, ListRecordedRegistered DEF CallRestore, Restart, RestoreList
<1>3. CASE Apply
  BY <1>3, ApplyAnnotateVictimRegistered, SyncMonitorRegistered, SendPrimaryRegistered,
     ConfineRegistered, SendSecondaryRegistered, RecordSecondariesRegistered,
     EnsureBalancerRegistered DEF Apply
<1>4. CASE Crash
  BY <1>4, DownRegistered DEF Crash
<1>5. CASE \/ VictimChurn \/ AggChurn \/ Rebalance \/ BalancerDies \/ StaticByHand
           \/ UNCHANGED vars
  BY <1>5, OutsideRegistered
<1>6. QED
  BY <1>1, <1>2, <1>3, <1>4, <1>5, RestoreRegistered DEF Next, Environment

\* hc-secondaries names only pods the Listener has, between calls: an Apply
\* that goes by it skips no pod it should register.  The list is the union of
\* several victims' and outlives a Restore on a victim that is not set-by-node.
THEOREM RecordedStayRegistered ==
  ASSUME MessagesSucceed
  PROVE  Spec => []RecordedAreRegistered
<1>1. Init => RegisteredInv
  BY InitRegistered
<1>2. TypeOK /\ RegisteredInv /\ [Next]_vars => RegisteredInv'
  BY NextRegistered
<1>3. RegisteredInv => RecordedAreRegistered
  BY DEF RegisteredInv, RegisteredBut, RecordedAreRegistered
<1>4. QED
  BY <1>1, <1>2, <1>3, TypeCorrect, PTL DEF Spec

-----------------------------------------------------------------------------
(***************************************************************************)
(* The tick loop.  A step of it is a step of the actuator, the delivery of *)
(* a result, or the end of the process, so the invariants above hold of it *)
(* too; what hcTick believes rests on them.                                *)
(***************************************************************************)
ActuatorInv == TypeOK /\ HostStateInv /\ RecordInv /\ RegisteredInv

\* What the steps of TickNext are to the actuator, and to the controller.
LEMMA TickSteps ==
  ASSUME [TickNext]_allVars
  PROVE  \/ /\ [Next]_vars
            /\ UNCHANGED <<hcHeld, stopping>>
         \/ Shutdown
         \/ HandleResult
         \/ Exit
         \/ Crash /\ FreshState
<1>1. CASE Tick
  BY <1>1 DEF Tick, TickApply, TickReapply, TickRestore, TickOnly, Count, Next, vars
<1>2. CASE (Apply \/ Restore \/ Restart \/ Outside) /\ UNCHANGED tickVars
  BY <1>2 DEF Outside, Next, Environment, tickVars
<1>3. CASE Arm \/ UNCHANGED allVars
  BY <1>3 DEF Arm, allVars, tickVars, vars
<1>4. QED
  BY <1>1, <1>2, <1>3 DEF TickNext

LEMMA HandleResultKeeps ==
  ASSUME ActuatorInv, HandleResult
  PROVE  ActuatorInv'
<1>1. /\ UNCHANGED <<victimPod, aggPod, victimAnn, aggAnn, cpuset, pinned, monitor, primary,
                     secondaries, balancer, static, pc, op, budget>>
      /\ ret' = NoRet
  BY DEF HandleResult, podVars, annVars, hostVars, listenerVars, unitVars
<1>2. TypeOK'
  BY <1>1, ConstantFacts
  DEF ActuatorInv, TypeOK, ClusterTypeOK, HostTypeOK, CtlTypeOK, RestoreFindsRecord
<1>3. HostStateInv'
  BY <1>1 DEF ActuatorInv, HostStateInv, HostStateRecorded, HostStateEmpty, AnnotatedVictims,
     Running
<1>4. RecordsOK' /\ AnnotatedAggs' = AnnotatedAggs /\ AnnotatedVictims' = AnnotatedVictims
  BY <1>1, RecordsKept, SameRecord DEF ActuatorInv, RecordInv
<1>5. CallOK'
  <2>1. ApplyOK /\ RestoreOK /\ IdleOK
    BY DEF ActuatorInv, RecordInv, CallOK
  <2>2. ApplyOK' /\ RestoreOK' /\ IdleOK'
    BY <1>1, <1>4, <2>1 DEF ApplyOK, RestoreOK, IdleOK, RestoreReleases, Covered, HasPrimary,
       HostStateEmpty, SameCpus, NoRet
  <2>3. QED
    BY <2>2 DEF CallOK
<1>6. RecordInv'
  BY <1>1, <1>4, <1>5 DEF ActuatorInv, RecordInv, HasPrimary
<1>7. RegisteredInv'
  BY <1>1, <1>4 DEF ActuatorInv, RegisteredInv, RegisteredBut
<1>8. QED
  BY <1>2, <1>3, <1>6, <1>7 DEF ActuatorInv

LEMMA ExitKeeps ==
  ASSUME ActuatorInv, Exit
  PROVE  ActuatorInv'
<1>1. /\ pc' = "down" /\ op' = NoOp /\ ret' = NoRet /\ budget' = budget
      /\ UNCHANGED <<podVars, annVars, hostVars, listenerVars, unitVars>>
  BY DEF Exit
<1>2. TypeOK'
  <2>1. ClusterTypeOK' /\ HostTypeOK'
    BY <1>1 DEF ActuatorInv, TypeOK, ClusterTypeOK, HostTypeOK, podVars, annVars, hostVars,
       listenerVars, unitVars
  <2>2. CtlTypeOK' /\ RestoreFindsRecord'
    BY <1>1, ConstantFacts
    DEF ActuatorInv, TypeOK, CtlTypeOK, RestoreFindsRecord, Labels, ApplyLabels,
        RestoreLabels, RegisteringLabels, ConfineLabels, CurLabels
  <2>3. QED
    BY <2>1, <2>2 DEF TypeOK
<1>3. HostStateInv'
  BY <1>1, ReturnRecorded DEF ActuatorInv, podVars, annVars, listenerVars, unitVars
<1>4. QED
  BY <1>1, <1>2, <1>3, DownOK, DownRegistered DEF ActuatorInv

\* A call that is cancelled writes only to aggressors on record, and moves the
\* Monitor only before there is a Primary.
LEMMA CancelledKeeps ==
  ASSUME ActuatorInv, CancelledCall,
         UNCHANGED <<aggPod, aggAnn, primary, secondaries, balancer, static>>
  PROVE  HostTypeOK' /\ RecordsOK' /\ (balancer' => HasPrimary')
<1> DEFINE handed == IF pc \in RestoreLabels THEN Running(aggPod, Aggs) \cap op.todo ELSE {}
           caught == IF pc \in {"narrowPod", "narrowCtr"}
                     THEN Running(aggPod, Aggs) \cap {op.cur} ELSE {}
<1>1. /\ cpuset' = [a \in Aggs |-> IF a \in handed THEN HandedBack(a)
                                  ELSE IF a \in caught THEN ConfinedOn(a) ELSE cpuset[a]]
      /\ pinned' = pinned \ handed
      /\ monitor' = IF pc = "monitor" THEN op.target ELSE monitor
  BY DEF CancelledCall
<1>2. TypeOK /\ cpuset \in [Aggs -> Cpusets] /\ aggAnn \in [Aggs -> Cpusets \cup {NoAnn}]
  BY DEF ActuatorInv, TypeOK, HostTypeOK, ClusterTypeOK
<1>3. \A a \in handed : a \in Aggs /\ aggAnn[a] # NoAnn
  BY <1>2 DEF TypeOK, RestoreFindsRecord, Running
<1>4. \A a \in caught : a \in Aggs /\ aggAnn[a] # NoAnn /\ op.target \in Targets
  BY <1>2 DEF Running, ActuatorInv, RecordInv, CallOK, ApplyOK, NarrowLabels, TypeOK, CtlTypeOK,
     ApplyLabels, RegisteringLabels, ConfineLabels
<1>5. ASSUME NEW a \in handed PROVE HandedBack(a) \in Cpusets
  <2>1. cpuset[a] \in Cpusets /\ aggAnn[a] \in Cpusets
    BY <1>2, <1>3
  <2> DEFINE c == [cpuset[a] EXCEPT !.pod = Wanted(aggAnn[a].pod, Online)]
  <2>2. c \in Cpusets
    BY <2>1 DEF Cpusets, Wanted
  <2>3. EffPod(c) \subseteq Online
    BY DEF EffPod, Clip
  <2>4. Wanted(aggAnn[a].ctr, EffPod(c)) \subseteq Online
    BY <2>1, <2>3 DEF Wanted, Cpusets
  <2> DEFINE w == Wanted(aggAnn[a].ctr, EffPod(c))
  <2>5. HandedBack(a) = [c EXCEPT !.ctr = w] /\ w \subseteq Online
    BY <2>4 DEF HandedBack
  <2> HIDE DEF c, w
  <2>6. QED
    BY <2>2, <2>5 DEF Cpusets
<1>6. ASSUME NEW a \in caught PROVE ConfinedOn(a) \in Cpusets
  <2>1. cpuset[a] \in Cpusets /\ Allowed(op.target) \subseteq Online
    BY <1>2, <1>4, CpusAssumption DEF Allowed
  <2> DEFINE c == IF pc = "narrowPod" THEN [cpuset[a] EXCEPT !.pod = Allowed(op.target)]
                  ELSE cpuset[a]
  <2>2. c \in Cpusets
    BY <2>1 DEF Cpusets
  <2>3. ConfinedOn(a) = [c EXCEPT !.ctr = Allowed(op.target)]
    BY DEF ConfinedOn
  <2> HIDE DEF c
  <2>4. QED
    BY <2>1, <2>2, <2>3 DEF Cpusets
<1>7. pc = "monitor" => op.target \in Targets /\ ~balancer
  BY <1>2 DEF TypeOK, CtlTypeOK, ApplyLabels, ActuatorInv, RecordInv, CallOK, ApplyOK,
     OpeningLabels, HostStateEmpty
<1> HIDE DEF handed, caught
<1>8. HostTypeOK'
  <2>1. cpuset' \in [Aggs -> Cpusets]
    BY <1>1, <1>2, <1>5, <1>6
  <2>2. pinned' \subseteq Aggs /\ monitor' \in Targets \cup {NoTarget}
    BY <1>1, <1>2, <1>7 DEF TypeOK, HostTypeOK
  <2>3. QED
    BY <1>2, <2>1, <2>2 DEF TypeOK, HostTypeOK
<1>9. RecordsOK'
  <2>1. RecordsOK /\ AnnotatedAggs' = AnnotatedAggs
    BY SameRecord DEF ActuatorInv, RecordInv
  <2>2. ASSUME NEW a \in Running(aggPod, Aggs), aggAnn[a] = NoAnn PROVE Untouched(a)'
    <3>1. a \in Aggs /\ a \notin handed /\ a \notin caught
      BY <1>3, <1>4, <2>2 DEF Running
    <3>2. cpuset'[a] = cpuset[a] /\ (a \in pinned' => a \in pinned)
      BY <1>1, <3>1
    <3>3. QED
      BY <2>1, <2>2, <3>2 DEF RecordsOK, Untouched, SameCpus
  <2>3. QED
    BY <2>1, <2>2 DEF RecordsOK, RecordIsOriginal, Running
<1>10. balancer' => HasPrimary'
  BY <1>1, <1>7 DEF ActuatorInv, RecordInv, HasPrimary
<1>11. QED
  BY <1>8, <1>9, <1>10

LEMMA ShutdownKeeps ==
  ASSUME CallsSucceed, ActuatorInv, Shutdown
  PROVE  ActuatorInv'
<1>1. ListRecorded /\ CancelledCall
  BY DEF Shutdown
<1>2. UNCHANGED <<aggPod, aggAnn, primary, secondaries, balancer, static>>
  BY <1>1 DEF ListRecorded, podVars, annVars, unitVars
<1>3. HostTypeOK' /\ RecordsOK' /\ (balancer' => HasPrimary')
  BY <1>1, <1>2, CancelledKeeps
<1>4. TypeOK' /\ HostStateInv'
  BY <1>1, <1>3, ListRecordedTyped, ListRecordedRecorded DEF ActuatorInv
<1>5. RecordInv'
  BY <1>1, <1>3, ListRecordedOK DEF ActuatorInv, RecordInv
<1>6. RegisteredInv'
  BY <1>1, ListRecordedRegistered DEF CallsSucceed, MessagesSucceed
<1>7. QED
  BY <1>4, <1>5, <1>6 DEF ActuatorInv

LEMMA TickKeeps ==
  ASSUME CallsSucceed, OneTarget, ActuatorInv, [TickNext]_allVars
  PROVE  ActuatorInv'
<1>1. ASSUME [Next]_vars PROVE ActuatorInv'
  <2>1. HostCallsSucceed /\ MessagesSucceed
    BY CallFaults DEF CallsSucceed, MessagesSucceed
  <2>2. QED
    BY <1>1, <2>1, NextTyped, NextRecorded, NextOK, NextRegistered DEF ActuatorInv
<1>2. Crash => [Next]_vars
  BY DEF Next, Environment
<1>3. QED
  BY <1>1, <1>2, TickSteps, HandleResultKeeps, ShutdownKeeps, ExitKeeps

LEMMA TickActuatorInvariant ==
  ASSUME CallsSucceed, OneTarget
  PROVE  TickSpec => []ActuatorInv
<1>1. TickInit => ActuatorInv
  BY InitTyped, InitRecorded, InitOK, InitRegistered DEF TickInit, ActuatorInv
<1>2. ActuatorInv /\ [TickNext]_allVars => ActuatorInv'
  BY TickKeeps
<1>3. QED
  BY <1>1, <1>2, PTL DEF TickSpec

(***************************************************************************)
(* An orderly exit.                                                        *)
(***************************************************************************)

\* While main waits for its Restore, that is the call under way or returned.
StopOK == stopping => pc \in UndoLabels \/ (pc = "idle" /\ ret.kind = "restore")

LEMMA ReturnFields ==
  ASSUME NEW kind, NEW applied \in BOOLEAN, NEW err \in BOOLEAN, Return(kind, applied, err)
  PROVE  /\ pc' = "idle" /\ ret'.kind = kind
         /\ (ret'.applied <=> applied) /\ (ret'.err <=> err)
  BY DEF Return

LEMMA AfterAggReturns ==
  ASSUME NEW o, o.err \in BOOLEAN, AfterAgg(o)
  PROVE  \/ pc' \in {"unpin", "clearVictims"} /\ op' = o
         \/ pc' = "idle" /\ ret'.kind = "restore" /\ (ret'.err <=> o.err)
  BY ReturnFields DEF AfterAgg, Goto

LEMMA ListRecordedReturns ==
  ASSUME ListRecorded
  PROVE  \/ pc' = "stopBalancer" /\ ~op'.err
         \/ pc' = "idle" /\ ret'.kind = "restore" /\ (Attempt("api", FALSE) \/ ~ret'.err)
<1>1. ASSUME NEW err \in BOOLEAN, Return("restore", FALSE, err)
      PROVE  pc' = "idle" /\ ret'.kind = "restore" /\ (ret'.err <=> err)
  BY <1>1, ReturnFields
<1>2. ASSUME Goto("stopBalancer",
                  [NoOp EXCEPT !.kind = "restore", !.victims = AnnotatedVictims,
                               !.todo = AnnotatedAggs])
      PROVE  pc' = "stopBalancer" /\ ~op'.err
  BY <1>2 DEF Goto, NoOp
<1>3. QED
  BY <1>1, <1>2 DEF ListRecorded

\* The steps of Restore lead to Restore or back from it.
LEMMA RestoreStays ==
  ASSUME TypeOK, Restore
  PROVE  pc \in UndoLabels /\ (pc' \in UndoLabels \/ (pc' = "idle" /\ ret'.kind = "restore"))
<1>1. pc \in UndoLabels /\ op \in OpType
  BY DEF Restore, StopBalancer, SendReset, ReadOnlineCPUs, RestoreAffinity, RestoreWidenPod,
         RestoreWidenCtr, RestoreWrite, RestoreClearAgg, RestoreClearVictim, UndoLabels,
         RestoreLabels, TypeOK, CtlTypeOK
<1>2. CASE StopBalancer \/ SendReset \/ RestoreAffinity \/ RestoreWidenPod \/ RestoreWidenCtr
  BY <1>1, <1>2 DEF StopBalancer, SendReset, RestoreAffinity, RestoreWidenPod,
     RestoreWidenCtr, RestoreWrite, Goto, UndoLabels, RestoreLabels
<1>3. ASSUME NEW o, o.err = op.err, AfterAgg(o)
      PROVE  pc' \in UndoLabels \/ (pc' = "idle" /\ ret'.kind = "restore")
  <2>1. o.err \in BOOLEAN
    BY <1>1, <1>3 DEF OpType
  <2>2. QED
    BY <1>3, <2>1, AfterAggReturns DEF UndoLabels, RestoreLabels
<1>4. CASE ReadOnlineCPUs
  <2>1. AfterAgg(op) \/ Return("restore", FALSE, TRUE)
    BY <1>4 DEF ReadOnlineCPUs
  <2>2. QED
    BY <1>1, <1>3, <2>1, ReturnFields
<1>5. CASE RestoreClearAgg
  <2> DEFINE o == [op EXCEPT !.todo = @ \ {op.cur}, !.cur = NoPod]
  <2>1. AfterAgg(o) /\ o.err = op.err
    BY <1>1, <1>5 DEF RestoreClearAgg, OpType
  <2> HIDE DEF o
  <2>2. QED
    BY <1>1, <1>3, <2>1
<1>6. CASE RestoreClearVictim
  <2>1. PICK v \in op.victims : AfterAgg([op EXCEPT !.victims = @ \ {v}])
    BY <1>6 DEF RestoreClearVictim
  <2> DEFINE o == [op EXCEPT !.victims = @ \ {v}]
  <2>2. AfterAgg(o) /\ o.err = op.err
    BY <1>1, <2>1 DEF OpType
  <2> HIDE DEF o
  <2>3. QED
    BY <1>1, <1>3, <2>2
<1>7. QED
  BY <1>1, <1>2, <1>4, <1>5, <1>6 DEF Restore

LEMMA ListRecordedStays ==
  ASSUME ListRecorded
  PROVE  pc' \in UndoLabels \/ (pc' = "idle" /\ ret'.kind = "restore")
  BY ListRecordedReturns DEF UndoLabels, RestoreLabels

LEMMA ApplyLabelled == Apply => pc \in ApplyLabels
  BY DEF Apply, ApplyAnnotateVictim, SyncMonitorCPUList, SendPrimary, ConfineRecord,
         ConfineNarrowPod, ConfineNarrowCtr, SendSecondary, RecordSecondaries,
         EnsureBalancer, KeepBalancer, StopStatic, StartBalancer, ApplyLabels,
         RegisteringLabels, ConfineLabels

LEMMA StopKept ==
  ASSUME TypeOK, StopOK, [TickNext]_allVars
  PROVE  StopOK'
<1>1. CASE Tick \/ HandleResult
  BY <1>1 DEF Tick, TickApply, TickReapply, TickRestore, TickOnly, Count, Free, HandleResult,
     StopOK
<1>2. CASE Shutdown
  BY <1>2, ListRecordedStays DEF Shutdown, StopOK
<1>3. CASE Exit \/ (Crash /\ FreshState)
  BY <1>3 DEF Exit, FreshState, StopOK
<1>4. CASE Arm \/ UNCHANGED allVars
  BY <1>4 DEF Arm, allVars, tickVars, vars, StopOK
<1>5. CASE UNCHANGED tickVars /\ (Apply \/ Restart)
  BY <1>5, ApplyLabelled, LabelFacts, ListRecordedStays
  DEF tickVars, Restart, RestoreList, UndoLabels, RestoreLabels, StopOK
<1>6. CASE UNCHANGED tickVars /\ Restore
  BY <1>6, RestoreStays DEF tickVars, StopOK
<1>7. CASE UNCHANGED tickVars /\ Outside
  BY <1>7 DEF tickVars, Outside, VictimChurn, AggChurn, Rebalance, BalancerDies,
     StaticByHand, ctlVars, StopOK
<1>8. QED
  BY <1>1, <1>2, <1>3, <1>4, <1>5, <1>6, <1>7 DEF TickNext

\* An orderly exit whose Restore reported success leaves a released node, at
\* whatever step SIGTERM cut a call short, also when crashes, dead Balancers and
\* earlier shutdowns came before it.
THEOREM OrderlyExitReleases ==
  ASSUME CallsSucceed, OneTarget
  PROVE  TickSpec => ExitReleases
<1>1. TickInit => StopOK
  BY DEF TickInit, StopOK
<1>2. ActuatorInv /\ StopOK /\ [TickNext]_allVars => StopOK'
  BY StopKept DEF ActuatorInv
<1>3. ActuatorInv /\ StopOK
        => (stopping /\ pc = "idle" /\ pc' = "down" /\ ~ret.err => Released)
  BY DEF ActuatorInv, RecordInv, CallOK, IdleOK, RestoreReleases, StopOK, UndoLabels,
         RestoreLabels
<1>4. QED
  BY <1>1, <1>2, <1>3, TickActuatorInvariant, PTL DEF TickSpec, ExitReleases

-----------------------------------------------------------------------------
(***************************************************************************)
(* What the controller believes.                                           *)
(***************************************************************************)
Up == primary # NoTarget /\ balancer

\* A call goes by annotations that agree with hcHeld; a held node stays up
\* until a Restore, and a Restore releases all before it returns.
BeliefInv ==
  /\ pc \in UndoLabels => ~op.err
  /\ pc \in ApplyLabels => (op.held <=> hcHeld) /\ (hcHeld => Up) /\ ~op.err
  /\ pc \in {"recordSecondaries", "balancer"} => hcHeld \/ op.reg # {}
  /\ pc = "startBalancer" => ~balancer
  /\ pc = "idle" => ~ret.err
  /\ pc = "idle" /\ ~stopping =>
       IF ret.kind # "restore" /\ (hcHeld \/ ret.applied) THEN Up ELSE Released

LEMMA ReleasedStays ==
  ASSUME Released, RecordInv', AnnotatedVictims' \subseteq AnnotatedVictims,
         AnnotatedAggs' \subseteq AnnotatedAggs, UNCHANGED <<primary, secondaries, balancer>>
  PROVE  Released'
<1>1. (RecordsOK /\ HostStateEmpty /\ AnnotatedVictims = {} /\ AnnotatedAggs = {} => Released)'
  BY NothingRecorded, PTL
<1>2. QED
  BY <1>1 DEF RecordInv, Released, HostStateEmpty

\* A call of Restore is under way, or has returned and released the node.
LEMMA RestoreBelief ==
  ASSUME RecordInv', pc' \in UndoLabels => ~op'.err,
         pc' \in UndoLabels \/ (pc' = "idle" /\ ret'.kind = "restore" /\ ~ret'.err)
  PROVE  BeliefInv'
  BY DEF BeliefInv, RecordInv, CallOK, IdleOK, RestoreReleases, UndoLabels, RestoreLabels,
         ApplyLabels, RegisteringLabels, ConfineLabels

LEMMA DownBelief ==
  ASSUME pc' = "down"
  PROVE  BeliefInv'
  BY DEF BeliefInv, UndoLabels, RestoreLabels, ApplyLabels, RegisteringLabels, ConfineLabels

LEMMA ListRecordedBelief ==
  ASSUME CallsSucceed, RecordInv', ListRecorded
  PROVE  BeliefInv'
<1>1. \/ pc' = "idle" /\ ret'.kind = "restore" /\ ~ret'.err
      \/ pc' = "stopBalancer" /\ ~op'.err
  BY NoCallFails, ListRecordedReturns
<1>2. QED
  BY <1>1, RestoreBelief DEF UndoLabels, RestoreLabels

LEMMA AfterAggBelief ==
  ASSUME NEW o \in OpType, RecordInv', AfterAgg(o), ~o.err
  PROVE  BeliefInv'
<1>1. \/ pc' = "idle" /\ ret'.kind = "restore" /\ ~ret'.err
      \/ pc' \in {"unpin", "clearVictims"} /\ ~op'.err
  BY AfterAggReturns DEF OpType
<1>2. QED
  BY <1>1, RestoreBelief DEF UndoLabels, RestoreLabels

LEMMA RestoreStepBelief ==
  ASSUME CallsSucceed, TypeOK, BeliefInv, RecordInv', Restore
  PROVE  BeliefInv'
<1>1. op \in OpType /\ ~op.err
  BY RestoreStays DEF TypeOK, CtlTypeOK, BeliefInv
<1>2. CASE StopBalancer \/ SendReset
  <2>1. pc' \in {"reset", "online"} /\ ~op'.err
    BY <1>1, <1>2, NoCallFails DEF StopBalancer, SendReset, Goto, OpType
  <2>2. QED
    BY <2>1, RestoreBelief DEF UndoLabels, RestoreLabels
<1>3. CASE ReadOnlineCPUs
  BY <1>1, <1>3, NoCallFails, AfterAggBelief DEF ReadOnlineCPUs
<1>4. CASE RestoreAffinity
  <2>1. pc' = "widenPod" /\ ~op'.err
    BY <1>1, <1>4, NoCallFails DEF RestoreAffinity, Goto, OpType
  <2>2. QED
    BY <2>1, RestoreBelief DEF UndoLabels, RestoreLabels
<1>5. CASE RestoreWidenPod \/ RestoreWidenCtr
  <2>1. PICK ok \in BOOLEAN : \E new : WriteCpuset(op.cur, new, ok)
          /\ op' = [op EXCEPT !.err = @ \/ (~ok /\ aggPod[op.cur] = "running")]
    BY <1>5 DEF RestoreWidenPod, RestoreWidenCtr, RestoreWrite, Goto
  <2>2. op.cur \in Aggs
    BY <1>5 DEF TypeOK, CtlTypeOK, RestoreWidenPod, RestoreWidenCtr, RestoreWrite, CurLabels,
       RestoreLabels
  <2>3. ok \/ aggPod[op.cur] = "gone"
    BY <2>1, <2>2, CallFaults DEF WriteCpuset
  <2>4. ~op'.err /\ pc' \in {"widenCtr", "clearAgg"}
    BY <1>1, <1>5, <2>1, <2>3 DEF RestoreWidenPod, RestoreWidenCtr, RestoreWrite, Goto, OpType
  <2>5. QED
    BY <2>4, RestoreBelief DEF UndoLabels, RestoreLabels
<1>6. CASE RestoreClearAgg
  <2> DEFINE o == [op EXCEPT !.todo = @ \ {op.cur}, !.cur = NoPod]
  <2>1. AfterAgg(o) /\ o \in OpType /\ ~o.err
    BY <1>1, <1>6, TargetsAssumption DEF RestoreClearAgg, OpType
  <2> HIDE DEF o
  <2>2. QED
    BY <2>1, AfterAggBelief
<1>7. CASE RestoreClearVictim
  <2>1. PICK v \in op.victims : AfterAgg([op EXCEPT !.victims = @ \ {v}])
    BY <1>7 DEF RestoreClearVictim
  <2> DEFINE o == [op EXCEPT !.victims = @ \ {v}]
  <2>2. AfterAgg(o) /\ o \in OpType /\ ~o.err
    BY <1>1, <2>1 DEF OpType
  <2> HIDE DEF o
  <2>3. QED
    BY <2>2, AfterAggBelief
<1>8. QED
  BY <1>2, <1>3, <1>4, <1>5, <1>6, <1>7 DEF Restore

\* A call of Apply returns without having changed what is held.
LEMMA ReturnBelief ==
  ASSUME NEW applied \in BOOLEAN, Return("apply", applied, FALSE),
         IF hcHeld' \/ applied THEN Up' ELSE Released'
  PROVE  BeliefInv'
<1>1. pc' = "idle" /\ ret'.kind = "apply" /\ (ret'.applied <=> applied) /\ ~ret'.err
  BY ReturnFields
<1>2. QED
  BY <1>1 DEF BeliefInv, UndoLabels, RestoreLabels, ApplyLabels, RegisteringLabels,
     ConfineLabels

\* Apply goes on with o.
LEMMA AfterSecondaryBelief ==
  ASSUME NEW o \in OpType, AfterSecondary(o), o.held <=> hcHeld', hcHeld' => Up', ~o.err,
         o.todo = {} => hcHeld' \/ o.reg # {}
  PROVE  BeliefInv'
<1>1. pc' \in {"confine", "recordSecondaries", "balancer"}
      /\ (op'.held <=> o.held) /\ (op'.err <=> o.err) /\ op'.reg = o.reg
  <2>1. CASE o.todo = {} /\ o.added
    <3> DEFINE q == [o EXCEPT !.todo = o.victims]
    <3>1. q.held = o.held /\ q.err = o.err /\ q.reg = o.reg
      BY DEF OpType
    <3>2. pc' = "recordSecondaries" /\ op' = q
      BY <2>1 DEF AfterSecondary, Goto
    <3> HIDE DEF q
    <3>3. QED
      BY <3>1, <3>2
  <2>2. CASE o.todo # {} \/ ~o.added
    BY <2>2 DEF AfterSecondary, Goto
  <2>3. QED
    BY <2>1, <2>2
<1>2. pc' \in {"recordSecondaries", "balancer"} => o.todo = {}
  BY DEF AfterSecondary, Goto
<1>3. QED
  BY <1>1, <1>2 DEF BeliefInv, UndoLabels, RestoreLabels

LEMMA CallApplyBelief ==
  ASSUME CallsSucceed, OneTarget, ActuatorInv, BeliefInv, RecordInv', Free,
         NEW t \in Targets, CallApply(t), hcHeld' = hcHeld
  PROVE  BeliefInv'
<1> DEFINE vs == RunningVictims(t)
           own == {v \in vs : victimAnn[v].set}
           held == own # {}
           reg == UNION {victimAnn[v].secs : v \in own}
           ags == Running(aggPod, Aggs)
           o == [NoOp EXCEPT !.kind = "apply", !.target = t, !.held = held,
                             !.victims = vs, !.aggs = ags, !.reg = reg]
           o1 == [o EXCEPT !.todo = vs]
           o2 == [o EXCEPT !.todo = ags \ reg]
<1>1. /\ UNCHANGED <<victimPod, victimAnn, aggPod, aggAnn, primary, secondaries, balancer>>
      /\ AnnotatedVictims' = AnnotatedVictims /\ AnnotatedAggs' = AnnotatedAggs
  BY SameRecord DEF CallApply, podVars, annVars, listenerVars, unitVars
<1>2. pc = "idle" /\ ~stopping /\ ret.kind = "none" /\ ~ret.applied
  BY DEF Free, NoRet
<1>3. IF hcHeld THEN Up ELSE Released
  BY <1>2 DEF BeliefInv
<1>4. held <=> hcHeld
  <2>1. own = AnnotatedVictims
    BY TargetsAssumption DEF OneTarget, RunningVictims, AnnotatedVictims, Running
  <2>2. Up => AnnotatedVictims # {}
    BY DEF ActuatorInv, HostStateInv, HostStateRecorded, Up
  <2>3. QED
    BY <1>3, <2>1, <2>2 DEF Released
<1>5. IF hcHeld' THEN Up' ELSE Released'
  BY <1>1, <1>3, ReleasedStays DEF Up
<1>6. vs \subseteq Victims /\ ags \subseteq Aggs /\ reg \subseteq Aggs
  BY DEF RunningVictims, Running, ActuatorInv, TypeOK, ClusterTypeOK
<1>7. /\ o1.held = held /\ ~o1.err
      /\ o2 \in OpType /\ o2.held = held /\ ~o2.err
  BY <1>6, ConstantFacts DEF NoOp, OpType
<1>8. ASSUME Return("apply", FALSE, FALSE) PROVE BeliefInv'
  BY <1>5, <1>8, ReturnBelief
<1>9. ASSUME Goto("annotateVictims", o1) PROVE BeliefInv'
  <2> HIDE DEF vs, own, held, reg, ags, o, o1, o2
  <2>1. pc' = "annotateVictims" /\ op' = o1
    BY <1>9 DEF Goto
  <2>2. QED
    BY <1>4, <1>5, <1>7, <2>1 DEF BeliefInv, UndoLabels, RestoreLabels
<1>10. ASSUME held, AfterSecondary(o2) PROVE BeliefInv'
  <2> HIDE DEF vs, own, held, reg, ags, o, o1, o2
  <2>1. QED
    BY <1>4, <1>5, <1>7, <1>10, AfterSecondaryBelief
<1>11. ~Attempt("api", FALSE) /\ ~Attempt("host", FALSE)
  BY NoCallFails
<1>12. QED
  BY <1>8, <1>9, <1>10, <1>11 DEF CallApply

\* The steps of Apply up to the first Secondary.
LEMMA OpeningBelief ==
  ASSUME CallsSucceed, ActuatorInv, BeliefInv, hcHeld' = hcHeld,
         ApplyAnnotateVictim \/ SyncMonitorCPUList \/ SendPrimary
  PROVE  BeliefInv'
<1>1. pc \in OpeningLabels /\ op \in OpType /\ op.target \in Targets
  BY DEF ApplyAnnotateVictim, SyncMonitorCPUList, SendPrimary, OpeningLabels, ActuatorInv,
         TypeOK, CtlTypeOK, ApplyLabels
<1>2. (op.held <=> hcHeld) /\ (hcHeld => Up) /\ ~op.err /\ op.aggs # {} /\ op.reg = {}
  BY <1>1, LabelFacts DEF BeliefInv, ActuatorInv, RegisteredInv
<1>3. CASE ApplyAnnotateVictim
  <2>1. PICK v \in op.todo, ok \in BOOLEAN :
          /\ AnnotateVictim(v, [victimAnn[v] EXCEPT !.set = TRUE], ok)
          /\ IF ~ok THEN Return("apply", FALSE, TRUE)
             ELSE IF op.todo = {v} THEN Goto("monitor", [op EXCEPT !.todo = {}])
             ELSE Goto("annotateVictims", [op EXCEPT !.todo = @ \ {v}])
    BY <1>3 DEF ApplyAnnotateVictim
  <2>2. ok /\ UNCHANGED <<primary, balancer>>
    BY <2>1, NoCallFails DEF AnnotateVictim, listenerVars, unitVars
  <2>3. pc' \in {"monitor", "annotateVictims"} /\ op'.held = op.held /\ op'.err = op.err
    BY <1>1, <2>1, <2>2 DEF Goto, OpType
  <2>4. QED
    BY <1>2, <2>2, <2>3 DEF BeliefInv, Up, UndoLabels, RestoreLabels
<1>4. CASE SyncMonitorCPUList
  <2>1. pc' = "primary" /\ op' = op /\ UNCHANGED <<primary, balancer>>
    BY <1>4, NoCallFails DEF SyncMonitorCPUList, Goto, unitVars
  <2>2. QED
    BY <1>2, <2>1 DEF BeliefInv, Up, UndoLabels, RestoreLabels
<1>5. CASE SendPrimary
  <2> DEFINE o == [op EXCEPT !.todo = op.aggs \ op.reg]
  <2>1. PICK ok \in BOOLEAN, done \in BOOLEAN :
          /\ Attempt("listener", ok) /\ (ok => done)
          /\ primary' = IF done THEN op.target ELSE primary
          /\ IF ok THEN AfterSecondary(o) ELSE Return("apply", FALSE, TRUE)
    BY <1>5 DEF SendPrimary
  <2>2. ok
    BY <2>1, NoCallFails
  <2>3. AfterSecondary(o) /\ primary' = op.target /\ balancer' = balancer
    BY <1>5, <2>1, <2>2 DEF SendPrimary, unitVars
  <2>4. o \in OpType /\ o.held = op.held /\ o.err = op.err /\ o.todo # {}
    BY <1>1, <1>2 DEF OpType
  <2>5. hcHeld' => Up'
    BY <1>1, <1>2, <2>3, TargetsAssumption DEF Up
  <2> HIDE DEF o
  <2>6. QED
    BY <1>2, <2>3, <2>4, <2>5, AfterSecondaryBelief
<1>6. QED
  BY <1>3, <1>4, <1>5

LEMMA RegisteringBelief ==
  ASSUME CallsSucceed, ActuatorInv, BeliefInv, hcHeld' = hcHeld,
         \/ ConfineRecord \/ ConfineNarrowPod \/ ConfineNarrowCtr
         \/ SendSecondary \/ RecordSecondaries
  PROVE  BeliefInv'
<1>1. /\ pc \in ConfineLabels \cup {"recordSecondaries"} /\ pc \in ApplyLabels /\ op \in OpType
      /\ UNCHANGED <<primary, balancer>>
  BY DEF ConfineRecord, ConfineNarrowPod, ConfineNarrowCtr, SendSecondary, RecordSecondaries,
         AnnotateVictim, AnnotateAgg, WriteCpuset, ActuatorInv, TypeOK, CtlTypeOK, ApplyLabels,
         RegisteringLabels, ConfineLabels, listenerVars, unitVars
<1>2. (op.held <=> hcHeld) /\ (hcHeld => Up) /\ ~op.err
  BY <1>1 DEF BeliefInv
<1>3. CASE ConfineRecord \/ ConfineNarrowPod \/ ConfineNarrowCtr
  <2>1. pc' \in ConfineLabels /\ op'.held = op.held /\ op'.err = op.err
    BY <1>1, <1>3 DEF ConfineRecord, ConfineNarrowPod, ConfineNarrowCtr, Goto, ConfineLabels,
       OpType
  <2>2. QED
    BY <1>1, <1>2, <2>1 DEF BeliefInv, Up, ConfineLabels, UndoLabels, RestoreLabels
<1>4. CASE SendSecondary
  <2> DEFINE o == [op EXCEPT !.todo = @ \ {op.cur}, !.cur = NoPod]
             good == [o EXCEPT !.reg = @ \cup {op.cur}, !.added = TRUE]
  <2>1. AfterSecondary(good) /\ op.cur \in Aggs
    BY <1>4, NoCallFails DEF SendSecondary, ActuatorInv, TypeOK, CtlTypeOK, ConfineLabels,
       CurLabels
  <2>2. good \in OpType /\ good.held = op.held /\ good.err = op.err /\ good.reg # {}
    BY <1>1, <2>1 DEF OpType
  <2> HIDE DEF good, o
  <2>3. QED
    BY <1>1, <1>2, <2>1, <2>2, AfterSecondaryBelief DEF Up
<1>5. CASE RecordSecondaries
  <2>1. /\ pc = "recordSecondaries" /\ pc' \in {"balancer", "recordSecondaries"}
        /\ op'.held = op.held /\ op'.err = op.err /\ op'.reg = op.reg
    BY <1>1, <1>5 DEF RecordSecondaries, Goto, OpType
  <2>2. hcHeld \/ op.reg # {}
    BY <2>1 DEF BeliefInv
  <2>3. QED
    BY <1>1, <1>2, <2>1, <2>2 DEF BeliefInv, Up, UndoLabels, RestoreLabels
<1>6. QED
  BY <1>3, <1>4, <1>5

LEMMA EnsureBalancerBelief ==
  ASSUME CallsSucceed, ActuatorInv, BeliefInv, hcHeld' = hcHeld, EnsureBalancer
  PROVE  BeliefInv'
<1>1. /\ pc \in {"balancer", "startBalancer"} /\ pc \in ApplyLabels /\ primary' = primary
      /\ op.held \in BOOLEAN /\ op.added \in BOOLEAN /\ op.err \in BOOLEAN
  BY DEF EnsureBalancer, KeepBalancer, StopStatic, StartBalancer, ApplyLabels,
         RegisteringLabels, listenerVars, ActuatorInv, TypeOK, CtlTypeOK, OpType
<1>2. (op.held <=> hcHeld) /\ (hcHeld => Up) /\ ~op.err
  BY <1>1 DEF BeliefInv
<1>3. primary # NoTarget
  BY <1>1, TargetsAssumption, LabelFacts DEF ActuatorInv, RecordInv, CallOK, ApplyOK, HasPrimary
<1>4. CASE KeepBalancer
  <2>1. /\ op.reg = {} \/ balancer
        /\ Return("apply", ~op.held \/ op.added, op.err /\ op.reg = {})
        /\ balancer' = balancer /\ (hcHeld \/ op.reg # {})
    BY <1>4 DEF KeepBalancer, BeliefInv, unitVars
  <2>2. Up' /\ (hcHeld' \/ ~op.held \/ op.added)
    BY <1>1, <1>2, <1>3, <2>1 DEF Up
  <2>3. Return("apply", ~op.held \/ op.added, FALSE)
    BY <1>2, <2>1 DEF Return
  <2>4. QED
    BY <1>1, <2>2, <2>3, ReturnBelief
<1>5. CASE StopStatic
  <2>1. PICK ok \in BOOLEAN : Attempt("systemd", ok) /\ (ok => ~balancer)
    BY <1>5 DEF StopStatic
  <2>2. ~balancer /\ pc' = "startBalancer" /\ op' = op /\ balancer' = balancer
    BY <1>5, <2>1, NoCallFails DEF StopStatic, Goto
  <2>3. QED
    BY <1>1, <1>2, <2>2 DEF BeliefInv, Up, UndoLabels, RestoreLabels
<1>6. CASE StartBalancer
  <2>1. ~balancer
    BY <1>6 DEF StartBalancer, BeliefInv
  <2>2. PICK ok \in BOOLEAN, started \in BOOLEAN :
          /\ Attempt("systemd", ok) /\ (ok => started)
          /\ balancer' = (balancer \/ started)
          /\ Return("apply", ok, ~ok)
    BY <1>6, <2>1, NoCallFails DEF StartBalancer
  <2>3. ok
    BY <2>2, NoCallFails
  <2>4. balancer'
    BY <2>2, <2>3, Zenon
  <2>5. Up'
    BY <1>1, <1>3, <2>4 DEF Up
  <2>6. ok = TRUE /\ (~ok) = FALSE
    BY <2>3
  <2>7. Return("apply", ok, FALSE)
    BY <2>2, <2>6
  <2>8. QED
    BY <2>3, <2>5, <2>7, ReturnBelief
<1>7. QED
  BY <1>4, <1>5, <1>6 DEF EnsureBalancer

\* Pods come and aggressors go; the Balancer does not die.
LEMMA OutsideBelief ==
  ASSUME CallsSucceed, "balancer" \notin Faults, ActuatorInv, BeliefInv, RecordInv',
         Outside \/ UNCHANGED vars, UNCHANGED <<hcHeld, stopping>>
  PROVE  BeliefInv'
<1>1. ~BalancerDies
  BY DEF BalancerDies, Attempt, CanFail
<1>2. UNCHANGED <<primary, secondaries, balancer, pc, op, ret>>
  BY <1>1 DEF Outside, VictimChurn, AggChurn, Rebalance, StaticByHand, listenerVars, unitVars,
     ctlVars, vars
<1>3. AnnotatedVictims' \subseteq AnnotatedVictims /\ AnnotatedAggs' \subseteq AnnotatedAggs
  <2>1. CASE VictimChurn
    BY <2>1 DEF VictimChurn, AnnotatedVictims, AnnotatedAggs, Running, ActuatorInv, TypeOK,
       ClusterTypeOK
  <2>2. CASE AggChurn
    BY <2>2 DEF AggChurn, AnnotatedVictims, AnnotatedAggs, Running, ActuatorInv, TypeOK,
       ClusterTypeOK
  <2>3. CASE Rebalance \/ StaticByHand \/ UNCHANGED vars
    BY <2>3, SameRecord DEF Rebalance, StaticByHand, podVars, annVars, vars
  <2>4. QED
    BY <1>1, <2>1, <2>2, <2>3 DEF Outside
<1>4. Released => Released'
  BY <1>2, <1>3, ReleasedStays
<1>5. QED
  BY <1>2, <1>4 DEF BeliefInv, Up

LEMMA TickBelief ==
  ASSUME CallsSucceed, OneTarget, "balancer" \notin Faults, ActuatorInv, BeliefInv,
         ActuatorInv', [TickNext]_allVars
  PROVE  BeliefInv'
<1>1. RecordInv' /\ TypeOK
  BY DEF ActuatorInv
<1>2. CASE Tick
  <2>1. PICK level \in Levels :
          \/ \E t \in Targets : TickApply(t, level) \/ TickReapply(t, level)
          \/ TickRestore(level)
          \/ TickOnly(level)
    BY <1>2 DEF Tick
  <2>2. Free /\ UNCHANGED <<hcHeld, stopping>>
    BY <2>1 DEF TickApply, TickReapply, TickRestore, TickOnly, Count
  <2>3. ASSUME NEW t \in Targets, TickApply(t, level) \/ TickReapply(t, level)
        PROVE  BeliefInv'
    BY <1>1, <2>2, <2>3, CallApplyBelief DEF TickApply, TickReapply
  <2>4. CASE TickRestore(level)
    BY <1>1, <2>4, ListRecordedBelief DEF TickRestore, CallRestore, RestoreList
  <2>5. CASE TickOnly(level)
    BY <1>1, <2>2, <2>5, OutsideBelief DEF TickOnly
  <2>6. QED
    BY <2>1, <2>3, <2>4, <2>5
<1>3. CASE Shutdown \/ (Restart /\ UNCHANGED tickVars)
  BY <1>1, <1>3, ListRecordedBelief DEF Shutdown, Restart, RestoreList
<1>4. CASE Exit \/ Crash
  BY <1>4, DownBelief DEF Exit, Crash
<1>5. CASE Arm \/ UNCHANGED allVars \/ (Outside /\ UNCHANGED tickVars)
  BY <1>1, <1>5, OutsideBelief DEF Arm, allVars, tickVars
<1>6. CASE Apply /\ UNCHANGED tickVars
  BY <1>6, OpeningBelief, RegisteringBelief, EnsureBalancerBelief DEF Apply, tickVars
<1>7. CASE Restore /\ UNCHANGED tickVars
  BY <1>1, <1>7, RestoreStepBelief
<1>8. CASE HandleResult
  <2>1. /\ pc = "idle" /\ ~stopping /\ UNCHANGED <<pc, op, stopping>>
        /\ UNCHANGED <<victimPod, victimAnn, aggPod, aggAnn, primary, secondaries, balancer>>
        /\ ret'.kind = "none" /\ ~ret'.applied /\ ~ret'.err
    BY <1>8 DEF HandleResult, NoRet, podVars, annVars, listenerVars, unitVars
  <2>2. ~ret.err /\ (IF ret.kind # "restore" /\ (hcHeld \/ ret.applied) THEN Up ELSE Released)
    BY <2>1 DEF BeliefInv
  <2>3. hcHeld' <=> ret.kind # "restore" /\ (hcHeld \/ ret.applied)
    BY <1>8, <2>2 DEF HandleResult
  <2>4. (Up => Up') /\ (Released => Released')
    BY <1>1, <2>1, SameRecord, ReleasedStays DEF Up
  <2>5. QED
    BY <2>1, <2>2, <2>3, <2>4 DEF BeliefInv, UndoLabels, RestoreLabels, ApplyLabels,
       RegisteringLabels, ConfineLabels
<1>9. QED
  BY <1>2, <1>3, <1>4, <1>5, <1>6, <1>7, <1>8 DEF TickNext

\* hcHeld is the truth between calls, if no call fails: held means that the
\* Listener has the Primary and the Balancer runs, not held that nothing of HC is
\* left on the node, across crashes, re-applies and aggressors that come and go.
THEOREM BeliefStaysTrue ==
  ASSUME CallsSucceed, OneTarget, "balancer" \notin Faults
  PROVE  TickSpec => []BeliefIsTruth
<1>1. TickInit => BeliefInv
  BY DEF TickInit, Init, BeliefInv, UndoLabels, RestoreLabels, ApplyLabels, RegisteringLabels,
         ConfineLabels
<1>2. /\ ActuatorInv /\ BeliefInv /\ [TickNext]_allVars /\ ActuatorInv' => BeliefInv'
  BY TickBelief
<1>3. ActuatorInv /\ BeliefInv => BeliefIsTruth
  <2> SUFFICES ASSUME ActuatorInv, BeliefInv, Free PROVE BeliefIsTruth
    BY DEF BeliefIsTruth
  <2>1. IF hcHeld THEN Up ELSE Released
    BY DEF BeliefInv, Free, NoRet
  <2>2. Up => AnnotatedVictims # {}
    BY DEF ActuatorInv, HostStateInv, HostStateRecorded, Up
  <2>3. QED
    BY <2>1, <2>2 DEF BeliefIsTruth, Up
<1>4. QED
  BY <1>1, <1>2, <1>3, TickActuatorInvariant, PTL DEF TickSpec
=============================================================================
