-------------------------- MODULE HcActuatorProofs --------------------------
(***************************************************************************)
(* Proofs about HcActuator, for every set of targets, pods, CPUs and       *)
(* faults.  Each action's lemma says that it preserves TypeOK; the         *)
(* theorems at the end combine them.                                       *)
(***************************************************************************)
EXTENDS HcActuator, TLAPS

LEMMA ConstantFacts ==
  /\ NoOp \in OpType /\ NoRet \in RetType
  /\ \A t \in Targets : Allowed(t) \in SUBSET Online
  /\ \A c \in Cpusets : EffPod(c) \in SUBSET Online
  BY TargetsAssumption, CpusAssumption
  DEF NoOp, OpType, NoRet, RetType, Allowed, Cpusets, EffPod, Clip

LEMMA InitTyped == Init => TypeOK
<1> SUFFICES ASSUME Init PROVE TypeOK
  OBVIOUS
<1>1. ClusterTypeOK
  BY DEF Init, ClusterTypeOK, PodPhases
<1>2. HostTypeOK
  BY CpusAssumption DEF Init, HostTypeOK
<1>3. CtlTypeOK /\ RestoreFindsRecord
  BY ConstantFacts, FaultsAssumption
  DEF Init, CtlTypeOK, RestoreFindsRecord, Labels, ApplyLabels, RestoreLabels,
      RegisteringLabels, ConfineLabels, CurLabels
<1>4. QED
  BY <1>1, <1>2, <1>3 DEF TypeOK

\* A fault only spends budget.
LEMMA AttemptTyped ==
  ASSUME budget \in 0..MaxFaults, NEW class, NEW ok \in BOOLEAN, Attempt(class, ok)
  PROVE  budget' \in 0..MaxFaults
  BY FaultsAssumption DEF Attempt, CanFail

\* A call that returns leaves a well-typed control state.
LEMMA ReturnTyped ==
  ASSUME NEW kind \in {"none", "apply", "restore"}, NEW applied \in BOOLEAN,
         NEW err \in BOOLEAN, budget' \in 0..MaxFaults, Return(kind, applied, err)
  PROVE  CtlTypeOK' /\ RestoreFindsRecord'
  BY ConstantFacts
  DEF Return, CtlTypeOK, RestoreFindsRecord, RetType, Labels, ApplyLabels,
      RestoreLabels, RegisteringLabels, ConfineLabels, CurLabels

\* The continuation of Apply after its Primary or one of its Secondaries.
LEMMA AfterSecondaryTyped ==
  ASSUME NEW o \in OpType, o.todo \subseteq Aggs, o.target \in Targets, ret \in RetType,
         budget' \in 0..MaxFaults, AfterSecondary(o)
  PROVE  CtlTypeOK' /\ RestoreFindsRecord'
  BY DEF AfterSecondary, Goto, OpType, CtlTypeOK, RestoreFindsRecord, Labels,
         ApplyLabels, RestoreLabels, RegisteringLabels, ConfineLabels, CurLabels

\* The continuation of Restore after one of its aggressors or victims.
LEMMA AfterAggTyped ==
  ASSUME NEW o \in OpType, o.todo \subseteq Aggs, ret \in RetType,
         budget' \in 0..MaxFaults, AfterAgg(o),
         \A a \in o.todo : aggPod'[a] # "new"
                           /\ (aggPod'[a] = "running" => aggAnn'[a] # NoAnn)
  PROVE  CtlTypeOK' /\ RestoreFindsRecord'
<1>1. CASE o.todo # {}
  BY <1>1 DEF AfterAgg, Goto, OpType, CtlTypeOK, RestoreFindsRecord, Labels,
     ApplyLabels, RestoreLabels, RegisteringLabels, ConfineLabels, CurLabels
<1>2. CASE o.todo = {} /\ o.victims # {}
  BY <1>2 DEF AfterAgg, Goto, OpType, CtlTypeOK, RestoreFindsRecord, Labels,
     ApplyLabels, RestoreLabels, RegisteringLabels, ConfineLabels, CurLabels
<1>3. CASE o.todo = {} /\ o.victims = {}
  <2>1. Return("restore", FALSE, o.err)
    BY <1>3 DEF AfterAgg
  <2>2. QED
    BY <2>1, ReturnTyped DEF OpType
<1>4. QED
  BY <1>1, <1>2, <1>3

\* The API patches keep the cluster's state typed.
LEMMA AnnotateVictimTyped ==
  ASSUME TypeOK, NEW v \in Victims, NEW ann \in [set : BOOLEAN, secs : SUBSET Aggs],
         NEW ok \in BOOLEAN, AnnotateVictim(v, ann, ok)
  PROVE  ClusterTypeOK' /\ HostTypeOK' /\ budget' \in 0..MaxFaults
<1>1. budget' \in 0..MaxFaults
  BY AttemptTyped DEF AnnotateVictim, TypeOK, CtlTypeOK
<1>2. ClusterTypeOK'
  BY DEF AnnotateVictim, TypeOK, ClusterTypeOK, podVars
<1>3. HostTypeOK'
  BY DEF AnnotateVictim, TypeOK, HostTypeOK, hostVars, listenerVars, unitVars
<1>4. QED
  BY <1>1, <1>2, <1>3

LEMMA AnnotateAggTyped ==
  ASSUME TypeOK, NEW a \in Aggs, NEW ann \in Cpusets \cup {NoAnn},
         NEW ok \in BOOLEAN, AnnotateAgg(a, ann, ok)
  PROVE  ClusterTypeOK' /\ HostTypeOK' /\ budget' \in 0..MaxFaults
<1>1. budget' \in 0..MaxFaults
  BY AttemptTyped DEF AnnotateAgg, TypeOK, CtlTypeOK
<1>2. ClusterTypeOK'
  BY DEF AnnotateAgg, TypeOK, ClusterTypeOK, podVars
<1>3. HostTypeOK'
  BY DEF AnnotateAgg, TypeOK, HostTypeOK, hostVars, listenerVars, unitVars
<1>4. QED
  BY <1>1, <1>2, <1>3

\* A cgroup write keeps the host's state typed if what it writes is a cpuset
\* whenever it succeeds.
LEMMA WriteCpusetTyped ==
  ASSUME TypeOK, NEW a \in Aggs, NEW new, NEW ok \in BOOLEAN,
         ok => new \in Cpusets, WriteCpuset(a, new, ok)
  PROVE  ClusterTypeOK' /\ HostTypeOK' /\ budget' \in 0..MaxFaults
<1>1. budget' \in 0..MaxFaults
  BY FaultsAssumption DEF WriteCpuset, CanFail, TypeOK, CtlTypeOK
<1>2. ClusterTypeOK'
  BY DEF WriteCpuset, TypeOK, ClusterTypeOK, podVars, annVars
<1>3. HostTypeOK'
  BY DEF WriteCpuset, TypeOK, HostTypeOK, listenerVars, unitVars
<1>4. QED
  BY <1>1, <1>2, <1>3

\* A step inside a call: the control state it goes to fits.
LEMMA GotoTyped ==
  ASSUME NEW label \in Labels, NEW o \in OpType, Goto(label, o), ret \in RetType,
         budget' \in 0..MaxFaults,
         label \in {"annotateVictims", "recordSecondaries"} => o.todo \subseteq Victims,
         label \in ConfineLabels \cup RestoreLabels => o.todo \subseteq Aggs,
         label \in CurLabels => o.cur \in o.todo,
         label \in ApplyLabels => o.target \in Targets,
         label = "clearVictims" => o.todo = {},
         label \in RestoreLabels =>
           \A a \in o.todo : aggPod'[a] # "new"
                             /\ (aggPod'[a] = "running" => aggAnn'[a] # NoAnn)
  PROVE  CtlTypeOK' /\ RestoreFindsRecord'
  BY DEF Goto, CtlTypeOK, RestoreFindsRecord

\* Replacing the work list of the locals.
LEMMA TodoTyped ==
  ASSUME NEW o \in OpType, NEW s \in (SUBSET Victims) \cup (SUBSET Aggs)
  PROVE  /\ [o EXCEPT !.todo = s] \in OpType
         /\ [o EXCEPT !.todo = s].todo = s
         /\ [o EXCEPT !.todo = s].target = o.target
         /\ [o EXCEPT !.todo = s].victims = o.victims
  BY DEF OpType

-----------------------------------------------------------------------------
(* Apply. *)

LEMMA CallApplyTyped ==
  ASSUME TypeOK, NEW t \in Targets, CallApply(t)
  PROVE  TypeOK'
<1> DEFINE vs == RunningVictims(t)
           own == {v \in vs : victimAnn[v].set}
           held == own # {}
           reg == UNION {victimAnn[v].secs : v \in own}
           ags == Running(aggPod, Aggs)
           o == [NoOp EXCEPT !.kind = "apply", !.target = t, !.held = held,
                             !.victims = vs, !.aggs = ags, !.reg = reg]
<1>1. ClusterTypeOK' /\ HostTypeOK'
  BY DEF CallApply, TypeOK, ClusterTypeOK, HostTypeOK, podVars, annVars, hostVars,
         listenerVars, unitVars
<1>2. vs \subseteq Victims /\ ags \subseteq Aggs /\ reg \subseteq Aggs
  BY DEF RunningVictims, Running, TypeOK, ClusterTypeOK
<1>3. o \in OpType /\ o.target = t /\ o.victims = vs
  BY <1>2, ConstantFacts DEF NoOp, OpType
<1>4. ret \in RetType /\ budget \in 0..MaxFaults
  BY DEF TypeOK, CtlTypeOK
<1>5. ASSUME Return("apply", FALSE, FALSE), budget' = budget
      PROVE  CtlTypeOK' /\ RestoreFindsRecord'
  BY <1>4, <1>5, ReturnTyped
<1>6. ASSUME NEW class, Attempt(class, FALSE), Return("apply", FALSE, TRUE)
      PROVE  CtlTypeOK' /\ RestoreFindsRecord'
  BY <1>4, <1>6, ReturnTyped, AttemptTyped
<1>7. ASSUME Goto("annotateVictims", [o EXCEPT !.todo = vs]), budget' = budget
      PROVE  CtlTypeOK' /\ RestoreFindsRecord'
  <2> HIDE DEF o, vs
  <2>1. [o EXCEPT !.todo = vs] \in OpType /\ [o EXCEPT !.todo = vs].todo = vs
        /\ [o EXCEPT !.todo = vs].target = t
    BY <1>2, <1>3, TodoTyped
  <2>2. QED
    BY <2>1, <1>2, <1>4, <1>7, GotoTyped
    DEF Labels, ApplyLabels, RestoreLabels, RegisteringLabels, ConfineLabels, CurLabels
<1>8. ASSUME AfterSecondary([o EXCEPT !.todo = ags \ reg]), budget' = budget
      PROVE  CtlTypeOK' /\ RestoreFindsRecord'
  <2> HIDE DEF o, ags, reg
  <2>1. [o EXCEPT !.todo = ags \ reg] \in OpType
        /\ [o EXCEPT !.todo = ags \ reg].todo = ags \ reg
        /\ [o EXCEPT !.todo = ags \ reg].target = t
    BY <1>2, <1>3, TodoTyped
  <2>2. QED
    BY <2>1, <1>2, <1>4, <1>8, AfterSecondaryTyped
<1>9. CtlTypeOK' /\ RestoreFindsRecord'
  BY <1>5, <1>6, <1>7, <1>8 DEF CallApply
<1>10. QED
  BY <1>1, <1>9 DEF TypeOK

LEMMA ApplyAnnotateVictimTyped ==
  ASSUME TypeOK, ApplyAnnotateVictim
  PROVE  TypeOK'
<1>1. PICK v \in op.todo, ok \in BOOLEAN :
        /\ AnnotateVictim(v, [victimAnn[v] EXCEPT !.set = TRUE], ok)
        /\ IF ~ok THEN Return("apply", FALSE, TRUE)
           ELSE IF op.todo = {v} THEN Goto("monitor", [op EXCEPT !.todo = {}])
           ELSE Goto("annotateVictims", [op EXCEPT !.todo = @ \ {v}])
  BY DEF ApplyAnnotateVictim
<1>2. v \in Victims /\ op.todo \subseteq Victims /\ op \in OpType /\ op.target \in Targets
      /\ ret \in RetType
  BY DEF ApplyAnnotateVictim, TypeOK, CtlTypeOK, ApplyLabels
<1>3. [victimAnn[v] EXCEPT !.set = TRUE] \in [set : BOOLEAN, secs : SUBSET Aggs]
  BY <1>2 DEF TypeOK, ClusterTypeOK
<1>4. ClusterTypeOK' /\ HostTypeOK' /\ budget' \in 0..MaxFaults
  BY <1>1, <1>2, <1>3, AnnotateVictimTyped
<1>5. CASE ~ok
  BY <1>1, <1>4, <1>5, ReturnTyped DEF TypeOK
<1>6. CASE ok
  <2>1. [op EXCEPT !.todo = {}] \in OpType /\ [op EXCEPT !.todo = {}].target \in Targets
        /\ [op EXCEPT !.todo = @ \ {v}] \in OpType
        /\ [op EXCEPT !.todo = @ \ {v}].todo \subseteq Victims
        /\ [op EXCEPT !.todo = @ \ {v}].target \in Targets
    BY <1>2 DEF OpType
  <2>2. CtlTypeOK' /\ RestoreFindsRecord'
    BY <1>1, <1>2, <1>4, <1>6, <2>1, GotoTyped
    DEF Labels, ApplyLabels, RestoreLabels, RegisteringLabels, ConfineLabels, CurLabels
  <2>3. QED
    BY <1>4, <2>2 DEF TypeOK
<1>7. QED
  BY <1>5, <1>6

LEMMA SyncMonitorTyped ==
  ASSUME TypeOK, SyncMonitorCPUList
  PROVE  TypeOK'
<1>1. PICK ok \in BOOLEAN :
        /\ Attempt("host", ok)
        /\ monitor' = IF ok THEN op.target ELSE monitor
        /\ IF ok THEN Goto("primary", op) ELSE Return("apply", FALSE, TRUE)
  BY DEF SyncMonitorCPUList
<1>2. op \in OpType /\ op.target \in Targets /\ ret \in RetType
      /\ budget' \in 0..MaxFaults
  BY <1>1, AttemptTyped DEF SyncMonitorCPUList, TypeOK, CtlTypeOK, ApplyLabels
<1>3. ClusterTypeOK' /\ HostTypeOK'
  BY <1>1, <1>2 DEF SyncMonitorCPUList, TypeOK, ClusterTypeOK, HostTypeOK, podVars, annVars,
     hostVars, unitVars
<1>4. CASE ok
  BY <1>1, <1>2, <1>3, <1>4, GotoTyped
  DEF TypeOK, Labels, ApplyLabels, RestoreLabels, RegisteringLabels, ConfineLabels, CurLabels
<1>5. CASE ~ok
  BY <1>1, <1>2, <1>3, <1>5, ReturnTyped DEF TypeOK
<1>6. QED
  BY <1>4, <1>5

LEMMA SendPrimaryTyped ==
  ASSUME TypeOK, SendPrimary
  PROVE  TypeOK'
<1>1. PICK ok \in BOOLEAN, done \in BOOLEAN :
        /\ Attempt("listener", ok)
        /\ primary' = IF done THEN op.target ELSE primary
        /\ IF ok THEN AfterSecondary([op EXCEPT !.todo = op.aggs \ op.reg])
                 ELSE Return("apply", FALSE, TRUE)
  BY DEF SendPrimary
<1>2. op \in OpType /\ op.target \in Targets /\ ret \in RetType
      /\ budget' \in 0..MaxFaults
  BY <1>1, AttemptTyped DEF SendPrimary, TypeOK, CtlTypeOK, ApplyLabels
<1>3. ClusterTypeOK' /\ HostTypeOK'
  BY <1>1, <1>2 DEF SendPrimary, TypeOK, ClusterTypeOK, HostTypeOK, podVars, annVars,
     hostVars, unitVars
<1>4. CASE ok
  <2> DEFINE o == [op EXCEPT !.todo = op.aggs \ op.reg]
  <2>1. op.aggs \ op.reg \in SUBSET Aggs
    BY <1>2 DEF OpType
  <2>2. o \in OpType /\ o.todo \subseteq Aggs /\ o.target \in Targets
    BY <2>1, <1>2, TodoTyped
  <2> HIDE DEF o
  <2>3. QED
    BY <1>1, <1>2, <1>3, <1>4, <2>2, AfterSecondaryTyped DEF TypeOK, o
<1>5. CASE ~ok
  BY <1>1, <1>2, <1>3, <1>5, ReturnTyped DEF TypeOK
<1>6. QED
  BY <1>4, <1>5

LEMMA ConfineRecordTyped ==
  ASSUME TypeOK, ConfineRecord
  PROVE  TypeOK'
<1>1. PICK a \in op.todo :
       \/ \E ok \in BOOLEAN :
            /\ aggPod[a] = "running"
            /\ AnnotateAgg(a, cpuset[a], ok)
            /\ pc' = IF ok THEN "narrowPod" ELSE "register"
            /\ op' = [op EXCEPT !.cur = a]
       \/ /\ \/ aggPod[a] = "gone" /\ UNCHANGED budget
             \/ Attempt("cgroup", FALSE)
          /\ Goto("register", [op EXCEPT !.cur = a])
          /\ UNCHANGED <<podVars, annVars, hostVars, listenerVars, unitVars>>
  BY DEF ConfineRecord
<1>2. op \in OpType /\ op.target \in Targets /\ ret \in RetType /\ op.todo \subseteq Aggs
      /\ a \in Aggs /\ ret' = ret
  BY <1>1 DEF ConfineRecord, TypeOK, CtlTypeOK, ApplyLabels, RegisteringLabels, ConfineLabels
<1> DEFINE o == [op EXCEPT !.cur = a]
<1>3. o \in OpType /\ o.cur \in o.todo /\ o.todo \subseteq Aggs /\ o.target \in Targets
  BY <1>1, <1>2 DEF OpType
<1>4. cpuset[a] \in Cpusets
  BY <1>2 DEF TypeOK, HostTypeOK
<1>5. ASSUME NEW ok \in BOOLEAN, AnnotateAgg(a, cpuset[a], ok),
             pc' = (IF ok THEN "narrowPod" ELSE "register"), op' = o
      PROVE  TypeOK'
  <2>1. ClusterTypeOK' /\ HostTypeOK' /\ budget' \in 0..MaxFaults
    BY <1>2, <1>4, <1>5, AnnotateAggTyped
  <2>2. CtlTypeOK' /\ RestoreFindsRecord'
    BY <1>2, <1>3, <1>5, <2>1
    DEF CtlTypeOK, RestoreFindsRecord, Labels, ApplyLabels, RestoreLabels,
        RegisteringLabels, ConfineLabels, CurLabels
  <2>3. QED
    BY <2>1, <2>2 DEF TypeOK
<1>6. ASSUME UNCHANGED budget \/ Attempt("cgroup", FALSE), Goto("register", o),
             UNCHANGED <<podVars, annVars, hostVars, listenerVars, unitVars>>
      PROVE  TypeOK'
  <2>1. ClusterTypeOK' /\ HostTypeOK'
    BY <1>6 DEF TypeOK, ClusterTypeOK, HostTypeOK, podVars, annVars, hostVars,
       listenerVars, unitVars
  <2>2. budget' \in 0..MaxFaults
    BY <1>6, AttemptTyped DEF TypeOK, CtlTypeOK
  <2> HIDE DEF o
  <2>3. QED
    BY <1>2, <1>3, <1>6, <2>1, <2>2, GotoTyped
    DEF TypeOK, Labels, ApplyLabels, RestoreLabels, RegisteringLabels, ConfineLabels, CurLabels
<1>7. QED
  BY <1>1, <1>5, <1>6

LEMMA ConfineNarrowTyped ==
  ASSUME TypeOK, ConfineNarrowPod \/ ConfineNarrowCtr
  PROVE  TypeOK'
<1>1. PICK ok \in BOOLEAN, new \in Cpusets, label \in {"narrowCtr", "register"} :
        WriteCpuset(op.cur, new, ok) /\ Goto(label, op)
  <2>1. op.cur \in Aggs /\ op.target \in Targets
    BY DEF ConfineNarrowPod, ConfineNarrowCtr, TypeOK, CtlTypeOK, ApplyLabels,
       RegisteringLabels, ConfineLabels, CurLabels
  <2>2. cpuset[op.cur] \in Cpusets /\ Allowed(op.target) \in SUBSET Online
    BY <2>1, ConstantFacts DEF TypeOK, HostTypeOK
  <2>3. [cpuset[op.cur] EXCEPT !.pod = Allowed(op.target)] \in Cpusets
        /\ [cpuset[op.cur] EXCEPT !.ctr = Allowed(op.target)] \in Cpusets
    BY <2>2 DEF Cpusets
  <2>4. QED
    BY <2>3 DEF ConfineNarrowPod, ConfineNarrowCtr
<1>2. op \in OpType /\ op.target \in Targets /\ ret \in RetType /\ op.todo \subseteq Aggs
      /\ op.cur \in op.todo /\ op.cur \in Aggs
  BY DEF ConfineNarrowPod, ConfineNarrowCtr, TypeOK, CtlTypeOK, ApplyLabels,
     RegisteringLabels, ConfineLabels, CurLabels
<1>3. ClusterTypeOK' /\ HostTypeOK' /\ budget' \in 0..MaxFaults
  BY <1>1, <1>2, WriteCpusetTyped
<1>4. QED
  BY <1>1, <1>2, <1>3, GotoTyped
  DEF TypeOK, Labels, ApplyLabels, RestoreLabels, RegisteringLabels, ConfineLabels, CurLabels

LEMMA SendSecondaryTyped ==
  ASSUME TypeOK, SendSecondary
  PROVE  TypeOK'
<1> DEFINE o == [op EXCEPT !.todo = @ \ {op.cur}, !.cur = NoPod]
           good == [o EXCEPT !.reg = @ \cup {op.cur}, !.added = TRUE]
           bad == [o EXCEPT !.err = TRUE]
<1>1. PICK ok \in BOOLEAN, done \in BOOLEAN :
        /\ Attempt("listener", ok)
        /\ secondaries' = IF done THEN secondaries \cup {op.cur} ELSE secondaries
        /\ AfterSecondary(IF ok THEN good ELSE bad)
  BY DEF SendSecondary
<1>2. op \in OpType /\ op.target \in Targets /\ ret \in RetType /\ op.todo \subseteq Aggs
      /\ op.cur \in Aggs /\ budget' \in 0..MaxFaults
  BY <1>1, AttemptTyped DEF SendSecondary, TypeOK, CtlTypeOK, ApplyLabels,
     RegisteringLabels, ConfineLabels, CurLabels
<1>3. ClusterTypeOK' /\ HostTypeOK'
  BY <1>1, <1>2 DEF SendSecondary, TypeOK, ClusterTypeOK, HostTypeOK, podVars, annVars,
     hostVars, unitVars
<1>4. /\ good \in OpType /\ good.todo \subseteq Aggs /\ good.target \in Targets
      /\ bad \in OpType /\ bad.todo \subseteq Aggs /\ bad.target \in Targets
  BY <1>2 DEF OpType
<1> HIDE DEF good, bad
<1>5. CtlTypeOK' /\ RestoreFindsRecord'
  <2>1. CASE ok
    BY <1>1, <1>2, <1>4, <2>1, AfterSecondaryTyped
  <2>2. CASE ~ok
    BY <1>1, <1>2, <1>4, <2>2, AfterSecondaryTyped
  <2>3. QED
    BY <2>1, <2>2
<1>6. QED
  BY <1>3, <1>5 DEF TypeOK

LEMMA RecordSecondariesTyped ==
  ASSUME TypeOK, RecordSecondaries
  PROVE  TypeOK'
<1>1. PICK v \in op.todo, ok \in BOOLEAN :
        /\ AnnotateVictim(v, [victimAnn[v] EXCEPT !.secs = op.reg], ok)
        /\ LET o == [op EXCEPT !.todo = @ \ {v}] IN
           Goto(IF o.todo = {} THEN "balancer" ELSE "recordSecondaries", o)
  BY DEF RecordSecondaries
<1>2. v \in Victims /\ op.todo \subseteq Victims /\ op \in OpType /\ op.target \in Targets
      /\ ret \in RetType
  BY DEF RecordSecondaries, TypeOK, CtlTypeOK, ApplyLabels, RegisteringLabels
<1>3. [victimAnn[v] EXCEPT !.secs = op.reg] \in [set : BOOLEAN, secs : SUBSET Aggs]
  BY <1>2 DEF TypeOK, ClusterTypeOK, OpType
<1>4. ClusterTypeOK' /\ HostTypeOK' /\ budget' \in 0..MaxFaults
  BY <1>1, <1>2, <1>3, AnnotateVictimTyped
<1> DEFINE o == [op EXCEPT !.todo = @ \ {v}]
<1>5. o \in OpType /\ o.target \in Targets /\ o.todo \subseteq Victims
  BY <1>2 DEF OpType
<1> HIDE DEF o
<1>6. CtlTypeOK' /\ RestoreFindsRecord'
  BY <1>1, <1>2, <1>4, <1>5, GotoTyped
  DEF o, Labels, ApplyLabels, RestoreLabels, RegisteringLabels, ConfineLabels, CurLabels
<1>7. QED
  BY <1>4, <1>6 DEF TypeOK

LEMMA EnsureBalancerTyped ==
  ASSUME TypeOK, EnsureBalancer
  PROVE  TypeOK'
<1>1. ClusterTypeOK' /\ HostTypeOK'
  BY DEF EnsureBalancer, KeepBalancer, StopStatic, StartBalancer, TypeOK, ClusterTypeOK,
     HostTypeOK, podVars, annVars, hostVars, listenerVars, unitVars
<1>2. /\ op \in OpType /\ op.held \in BOOLEAN /\ op.added \in BOOLEAN /\ op.err \in BOOLEAN
      /\ ret \in RetType /\ budget \in 0..MaxFaults
  BY DEF TypeOK, CtlTypeOK, OpType
<1>3. CASE KeepBalancer
  <2>1. /\ Return("apply", ~op.held \/ op.added, op.err /\ op.reg = {})
        /\ budget' \in 0..MaxFaults
    BY <1>2, <1>3 DEF KeepBalancer
  <2>2. CtlTypeOK' /\ RestoreFindsRecord'
    BY <1>2, <2>1, ReturnTyped
  <2>3. QED
    BY <1>1, <2>2 DEF TypeOK
<1>4. CASE StopStatic
  <2>1. pc = "balancer" /\ Goto("startBalancer", op)
    BY <1>4 DEF StopStatic
  <2>2. op.target \in Targets
    BY <2>1 DEF TypeOK, CtlTypeOK, ApplyLabels, RegisteringLabels
  <2>3. budget' \in 0..MaxFaults
    BY <1>2, <1>4, AttemptTyped DEF StopStatic
  <2>4. CtlTypeOK' /\ RestoreFindsRecord'
    BY <1>2, <2>1, <2>2, <2>3
    DEF Goto, CtlTypeOK, RestoreFindsRecord, Labels, ApplyLabels, RestoreLabels,
        RegisteringLabels, ConfineLabels, CurLabels
  <2>5. QED
    BY <1>1, <2>4 DEF TypeOK
<1>5. CASE StartBalancer
  <2>1. PICK applied \in BOOLEAN, err \in BOOLEAN :
          Return("apply", applied, err) /\ budget' \in 0..MaxFaults
    <3>1. CASE Attempt("host", FALSE) /\ Return("apply", FALSE, TRUE)
      BY <1>2, <3>1, AttemptTyped
    <3>2. CASE \E ok, started \in BOOLEAN :
                 /\ IF balancer THEN ~ok /\ UNCHANGED budget ELSE Attempt("systemd", ok)
                 /\ Return("apply", ok, ~ok)
      <4>1. PICK ok \in BOOLEAN, started \in BOOLEAN :
              /\ IF balancer THEN ~ok /\ UNCHANGED budget ELSE Attempt("systemd", ok)
              /\ Return("apply", ok, ~ok)
        BY <3>2
      <4>2. budget' \in 0..MaxFaults
        BY <1>2, <4>1, AttemptTyped
      <4>3. (~ok) \in BOOLEAN
        OBVIOUS
      <4>4. QED
        BY <4>1, <4>2, <4>3
    <3>3. QED
      BY <1>5, <3>1, <3>2 DEF StartBalancer
  <2>2. CtlTypeOK' /\ RestoreFindsRecord'
    BY <2>1, ReturnTyped
  <2>3. QED
    BY <1>1, <2>2 DEF TypeOK
<1>6. QED
  BY <1>3, <1>4, <1>5 DEF EnsureBalancer

-----------------------------------------------------------------------------
(* Restore. *)

LEMMA ListRecordedTyped ==
  ASSUME TypeOK, ListRecorded, HostTypeOK'
  PROVE  TypeOK'
<1> DEFINE o == [NoOp EXCEPT !.kind = "restore", !.victims = AnnotatedVictims,
                             !.todo = AnnotatedAggs]
<1>1. ClusterTypeOK' /\ aggPod' = aggPod /\ aggAnn' = aggAnn
  BY DEF ListRecorded, TypeOK, ClusterTypeOK, podVars, annVars
<1>2. AnnotatedVictims \subseteq Victims /\ AnnotatedAggs \subseteq Aggs
      /\ \A a \in AnnotatedAggs : aggPod[a] = "running" /\ aggAnn[a] # NoAnn
  BY DEF AnnotatedVictims, AnnotatedAggs, Running
<1>3. o \in OpType /\ o.todo = AnnotatedAggs
  BY <1>2, ConstantFacts DEF NoOp, OpType
<1>4. ret \in RetType /\ budget \in 0..MaxFaults
  BY DEF TypeOK, CtlTypeOK
<1> HIDE DEF o
<1>5. ASSUME Return("restore", FALSE, FALSE), UNCHANGED budget
      PROVE  CtlTypeOK' /\ RestoreFindsRecord'
  BY <1>4, <1>5, ReturnTyped
<1>6. ASSUME Attempt("api", FALSE), Return("restore", FALSE, TRUE)
      PROVE  CtlTypeOK' /\ RestoreFindsRecord'
  BY <1>4, <1>6, ReturnTyped, AttemptTyped
<1>7. ASSUME Goto("stopBalancer", o), UNCHANGED budget
      PROVE  CtlTypeOK' /\ RestoreFindsRecord'
  BY <1>1, <1>2, <1>3, <1>4, <1>7, GotoTyped
  DEF Labels, ApplyLabels, RestoreLabels, RegisteringLabels, ConfineLabels, CurLabels
<1>8. QED
  BY <1>1, <1>5, <1>6, <1>7 DEF ListRecorded, TypeOK, o

\* A step of Restore from one control point to the next, same work list.
LEMMA RestoreGotoTyped ==
  ASSUME TypeOK, pc \in RestoreLabels, NEW label \in RestoreLabels, NEW o \in OpType,
         o.todo = op.todo, label \in CurLabels => o.cur \in o.todo, Goto(label, o),
         UNCHANGED <<aggPod, aggAnn>>, budget' \in 0..MaxFaults
  PROVE  CtlTypeOK' /\ RestoreFindsRecord'
<1>1. op.todo \subseteq Aggs /\ ret \in RetType
      /\ \A a \in op.todo : aggPod[a] # "new" /\ (aggPod[a] = "running" => aggAnn[a] # NoAnn)
  BY DEF TypeOK, CtlTypeOK, RestoreFindsRecord
<1>2. QED
  BY <1>1, GotoTyped
  DEF Labels, ApplyLabels, RestoreLabels, RegisteringLabels, ConfineLabels, CurLabels

LEMMA StopBalancerTyped ==
  ASSUME TypeOK, StopBalancer
  PROVE  TypeOK'
<1>1. op \in OpType /\ pc \in RestoreLabels /\ "reset" \in RestoreLabels
      /\ "reset" \notin CurLabels
  BY DEF StopBalancer, TypeOK, CtlTypeOK, RestoreLabels, CurLabels
<1>2. ClusterTypeOK' /\ HostTypeOK' /\ UNCHANGED <<aggPod, aggAnn>>
  BY DEF StopBalancer, TypeOK, ClusterTypeOK, HostTypeOK, podVars, annVars, hostVars,
     listenerVars
<1>3. budget' \in 0..MaxFaults
  BY AttemptTyped DEF StopBalancer, TypeOK, CtlTypeOK
<1>4. QED
  BY <1>1, <1>2, <1>3, RestoreGotoTyped DEF StopBalancer, TypeOK

LEMMA SendResetTyped ==
  ASSUME TypeOK, SendReset
  PROVE  TypeOK'
<1>1. PICK ok \in BOOLEAN : Attempt("listener", ok) /\ Goto("online", [op EXCEPT !.err = ~ok])
  BY DEF SendReset
<1> DEFINE o == [op EXCEPT !.err = ~ok]
<1>2. op \in OpType /\ pc \in RestoreLabels /\ "online" \in RestoreLabels
      /\ "online" \notin CurLabels
  BY DEF SendReset, TypeOK, CtlTypeOK, RestoreLabels, CurLabels
<1>3. o \in OpType /\ o.todo = op.todo
  BY <1>2 DEF OpType
<1>4. ClusterTypeOK' /\ HostTypeOK' /\ UNCHANGED <<aggPod, aggAnn>>
  BY DEF SendReset, TypeOK, ClusterTypeOK, HostTypeOK, podVars, annVars, hostVars, unitVars
<1>5. budget' \in 0..MaxFaults
  BY <1>1, AttemptTyped DEF TypeOK, CtlTypeOK
<1> HIDE DEF o
<1>6. QED
  BY <1>1, <1>2, <1>3, <1>4, <1>5, RestoreGotoTyped DEF TypeOK, o

LEMMA ReadOnlineCPUsTyped ==
  ASSUME TypeOK, ReadOnlineCPUs
  PROVE  TypeOK'
<1>1. ClusterTypeOK' /\ HostTypeOK' /\ aggPod' = aggPod /\ aggAnn' = aggAnn
  BY DEF ReadOnlineCPUs, TypeOK, ClusterTypeOK, HostTypeOK, podVars, annVars, hostVars,
     listenerVars, unitVars
<1>2. op \in OpType /\ op.todo \subseteq Aggs /\ ret \in RetType /\ budget \in 0..MaxFaults
      /\ \A a \in op.todo : aggPod[a] # "new" /\ (aggPod[a] = "running" => aggAnn[a] # NoAnn)
  BY DEF ReadOnlineCPUs, TypeOK, CtlTypeOK, RestoreFindsRecord, RestoreLabels
<1>3. ASSUME AfterAgg(op), UNCHANGED budget
      PROVE  CtlTypeOK' /\ RestoreFindsRecord'
  BY <1>1, <1>2, <1>3, AfterAggTyped
<1>4. ASSUME Attempt("host", FALSE), Return("restore", FALSE, TRUE)
      PROVE  CtlTypeOK' /\ RestoreFindsRecord'
  BY <1>2, <1>4, AttemptTyped, ReturnTyped
<1>5. QED
  BY <1>1, <1>3, <1>4 DEF ReadOnlineCPUs, TypeOK

LEMMA RestoreAffinityTyped ==
  ASSUME TypeOK, RestoreAffinity
  PROVE  TypeOK'
<1>1. PICK a \in op.todo, ok \in BOOLEAN :
        /\ Attempt("cgroup", ok)
        /\ pinned' = IF ok THEN pinned \ {a} ELSE pinned
        /\ Goto("widenPod", [op EXCEPT !.cur = a, !.err = @ \/ ~ok])
  BY DEF RestoreAffinity
<1> DEFINE o == [op EXCEPT !.cur = a, !.err = @ \/ ~ok]
<1>2. op \in OpType /\ pc \in RestoreLabels /\ "widenPod" \in RestoreLabels /\ a \in Aggs
  BY <1>1 DEF RestoreAffinity, TypeOK, CtlTypeOK, RestoreLabels
<1>3. o \in OpType /\ o.todo = op.todo /\ o.cur = a
  BY <1>2 DEF OpType
<1>4. ClusterTypeOK' /\ HostTypeOK' /\ UNCHANGED <<aggPod, aggAnn>>
  BY <1>1 DEF RestoreAffinity, TypeOK, ClusterTypeOK, HostTypeOK, podVars, annVars,
     listenerVars, unitVars
<1>5. budget' \in 0..MaxFaults
  BY <1>1, AttemptTyped DEF TypeOK, CtlTypeOK
<1> HIDE DEF o
<1>6. QED
  BY <1>1, <1>2, <1>3, <1>4, <1>5, RestoreGotoTyped DEF TypeOK, o

LEMMA RestoreWriteTyped ==
  ASSUME TypeOK, NEW here \in {"widenPod", "widenCtr"},
         NEW next \in {"widenCtr", "clearAgg"}, NEW new, RestoreWrite(here, next, new),
         aggPod[op.cur] = "running" => new \in Cpusets
  PROVE  TypeOK'
<1>1. PICK ok \in BOOLEAN :
        /\ WriteCpuset(op.cur, new, ok)
        /\ Goto(next, [op EXCEPT !.err = @ \/ (~ok /\ aggPod[op.cur] = "running")])
  BY DEF RestoreWrite
<1> DEFINE o == [op EXCEPT !.err = @ \/ (~ok /\ aggPod[op.cur] = "running")]
<1>2. op \in OpType /\ pc \in RestoreLabels /\ next \in RestoreLabels
      /\ op.cur \in op.todo /\ op.cur \in Aggs
  BY DEF RestoreWrite, TypeOK, CtlTypeOK, RestoreLabels, CurLabels
<1>3. o \in OpType /\ o.todo = op.todo /\ o.cur = op.cur
  BY <1>2 DEF OpType
<1>4. ok => new \in Cpusets
  BY <1>1 DEF WriteCpuset
<1>5. ClusterTypeOK' /\ HostTypeOK' /\ budget' \in 0..MaxFaults
  BY <1>1, <1>2, <1>4, WriteCpusetTyped
<1>6. UNCHANGED <<aggPod, aggAnn>>
  BY <1>1 DEF WriteCpuset, podVars, annVars
<1> HIDE DEF o
<1>7. QED
  BY <1>1, <1>2, <1>3, <1>5, <1>6, RestoreGotoTyped DEF TypeOK, o

LEMMA RestoreWidenTyped ==
  ASSUME TypeOK, RestoreWidenPod \/ RestoreWidenCtr
  PROVE  TypeOK'
<1>1. op.cur \in op.todo /\ op.cur \in Aggs /\ pc \in RestoreLabels
  BY DEF RestoreWidenPod, RestoreWidenCtr, RestoreWrite, TypeOK, CtlTypeOK, RestoreLabels,
     CurLabels
<1>2. cpuset[op.cur] \in Cpusets /\ EffPod(cpuset[op.cur]) \in SUBSET Online
  BY <1>1, ConstantFacts DEF TypeOK, HostTypeOK
<1>3. aggPod[op.cur] = "running" => aggAnn[op.cur] \in Cpusets
  BY <1>1 DEF TypeOK, RestoreFindsRecord, ClusterTypeOK
<1> DEFINE newPod == [cpuset[op.cur] EXCEPT !.pod = Wanted(aggAnn[op.cur].pod, Online)]
           newCtr == [cpuset[op.cur] EXCEPT
                        !.ctr = Wanted(aggAnn[op.cur].ctr, EffPod(cpuset[op.cur]))]
<1>4. aggPod[op.cur] = "running" => newPod \in Cpusets /\ newCtr \in Cpusets
  BY <1>2, <1>3 DEF Cpusets, Wanted
<1> HIDE DEF newPod, newCtr
<1>5. CASE RestoreWidenPod
  <2>1. RestoreWrite("widenPod", "widenCtr", newPod)
    BY <1>5 DEF RestoreWidenPod, newPod
  <2>2. QED
    BY <2>1, <1>4, RestoreWriteTyped
<1>6. CASE RestoreWidenCtr
  <2>1. RestoreWrite("widenCtr", "clearAgg", newCtr)
    BY <1>6 DEF RestoreWidenCtr, newCtr
  <2>2. QED
    BY <2>1, <1>4, RestoreWriteTyped
<1>7. QED
  BY <1>5, <1>6

LEMMA RestoreClearAggTyped ==
  ASSUME TypeOK, RestoreClearAgg
  PROVE  TypeOK'
<1>1. PICK ok \in BOOLEAN : AnnotateAgg(op.cur, NoAnn, ok)
  BY DEF RestoreClearAgg
<1> DEFINE o == [op EXCEPT !.todo = @ \ {op.cur}, !.cur = NoPod]
<1>2. op \in OpType /\ op.cur \in Aggs /\ op.todo \subseteq Aggs /\ ret \in RetType
      /\ \A a \in op.todo : aggPod[a] # "new" /\ (aggPod[a] = "running" => aggAnn[a] # NoAnn)
  BY DEF RestoreClearAgg, TypeOK, CtlTypeOK, RestoreFindsRecord, RestoreLabels, CurLabels
<1>3. o \in OpType /\ o.todo = op.todo \ {op.cur}
  BY <1>2 DEF OpType
<1>4. ClusterTypeOK' /\ HostTypeOK' /\ budget' \in 0..MaxFaults
  BY <1>1, <1>2, AnnotateAggTyped
<1>5. \A a \in o.todo : aggPod'[a] # "new" /\ (aggPod'[a] = "running" => aggAnn'[a] # NoAnn)
  BY <1>1, <1>2, <1>3 DEF AnnotateAgg, podVars, TypeOK, ClusterTypeOK
<1>6. AfterAgg(o)
  BY DEF RestoreClearAgg
<1> HIDE DEF o
<1>7. CtlTypeOK' /\ RestoreFindsRecord'
  BY <1>2, <1>3, <1>4, <1>5, <1>6, AfterAggTyped
<1>8. QED
  BY <1>4, <1>7 DEF TypeOK

\* The aggressors are done when the victims are cleared.
LEMMA RestoreClearVictimTyped ==
  ASSUME TypeOK, RestoreClearVictim
  PROVE  TypeOK'
<1>1. PICK v \in op.victims, ok \in BOOLEAN :
        /\ AnnotateVictim(v, [set |-> FALSE, secs |-> {}], ok)
        /\ AfterAgg([op EXCEPT !.victims = @ \ {v}])
  BY DEF RestoreClearVictim
<1> DEFINE o == [op EXCEPT !.victims = @ \ {v}]
<1>2. op \in OpType /\ ret \in RetType /\ v \in Victims /\ op.todo = {}
  BY <1>1 DEF RestoreClearVictim, TypeOK, CtlTypeOK, OpType
<1>3. o \in OpType /\ o.todo = {}
  BY <1>2 DEF OpType
<1>4. ClusterTypeOK' /\ HostTypeOK' /\ budget' \in 0..MaxFaults
  BY <1>1, <1>2, AnnotateVictimTyped
<1> HIDE DEF o
<1>5. CtlTypeOK' /\ RestoreFindsRecord'
  BY <1>1, <1>2, <1>3, <1>4, AfterAggTyped DEF o
<1>6. QED
  BY <1>4, <1>5 DEF TypeOK

-----------------------------------------------------------------------------
(* The surroundings. *)

LEMMA CtlUnchangedTyped ==
  ASSUME CtlTypeOK, UNCHANGED ctlVars, budget' \in 0..MaxFaults
  PROVE  CtlTypeOK'
  BY DEF CtlTypeOK, ctlVars

LEMMA CrashTyped ==
  ASSUME TypeOK, Crash
  PROVE  TypeOK'
<1>1. ClusterTypeOK' /\ HostTypeOK'
  BY DEF Crash, TypeOK, ClusterTypeOK, HostTypeOK, podVars, annVars, hostVars,
     listenerVars, unitVars
<1>2. budget' \in 0..MaxFaults
  BY AttemptTyped DEF Crash, TypeOK, CtlTypeOK
<1>3. CtlTypeOK' /\ RestoreFindsRecord'
  BY <1>2, ConstantFacts
  DEF Crash, CtlTypeOK, RestoreFindsRecord, Labels, ApplyLabels, RestoreLabels,
      RegisteringLabels, ConfineLabels, CurLabels
<1>4. QED
  BY <1>1, <1>3 DEF TypeOK

LEMMA ChurnTyped ==
  ASSUME TypeOK, VictimChurn \/ AggChurn
  PROVE  TypeOK'
<1>1. CASE VictimChurn
  <2>1. ClusterTypeOK'
    BY <1>1 DEF VictimChurn, TypeOK, ClusterTypeOK, PodPhases, NextPhase
  <2>2. HostTypeOK' /\ UNCHANGED ctlVars /\ UNCHANGED <<aggPod, aggAnn, budget>>
    BY <1>1 DEF VictimChurn, TypeOK, HostTypeOK, hostVars, listenerVars, unitVars
  <2>3. CtlTypeOK'
    BY <2>2, CtlUnchangedTyped DEF TypeOK, CtlTypeOK
  <2>4. RestoreFindsRecord'
    BY <2>2 DEF TypeOK, RestoreFindsRecord, ctlVars
  <2>5. QED
    BY <2>1, <2>2, <2>3, <2>4 DEF TypeOK
<1>2. CASE AggChurn
  <2>1. PICK a \in Aggs :
          /\ aggPod[a] # "gone"
          /\ aggPod' = [aggPod EXCEPT ![a] = NextPhase(@)]
          /\ aggAnn' = [aggAnn EXCEPT ![a] = NoAnn]
          /\ cpuset' = [cpuset EXCEPT ![a] = Orig[a]]
          /\ pinned' = pinned \ {a}
    BY <1>2 DEF AggChurn
  <2>2. ClusterTypeOK' /\ HostTypeOK'
    BY <1>2, <2>1, CpusAssumption
    DEF AggChurn, TypeOK, ClusterTypeOK, HostTypeOK, PodPhases, NextPhase, listenerVars,
        unitVars
  <2>3. CtlTypeOK'
    BY <1>2, CtlUnchangedTyped DEF AggChurn, TypeOK, CtlTypeOK
  <2>4. RestoreFindsRecord'
    <3>1. SUFFICES ASSUME pc \in RestoreLabels, NEW b \in op.todo
                   PROVE  /\ aggPod'[b] # "new"
                          /\ aggPod'[b] = "running" => aggAnn'[b] # NoAnn
      BY <1>2 DEF AggChurn, RestoreFindsRecord, ctlVars
    <3>2. b \in Aggs /\ aggPod[b] # "new" /\ (aggPod[b] = "running" => aggAnn[b] # NoAnn)
      BY <3>1 DEF TypeOK, CtlTypeOK, RestoreFindsRecord
    <3>3. QED
      BY <2>1, <3>2 DEF TypeOK, ClusterTypeOK, NextPhase
  <2>5. QED
    BY <2>2, <2>3, <2>4 DEF TypeOK
<1>3. QED
  BY <1>1, <1>2

LEMMA BalancerStepTyped ==
  ASSUME TypeOK, Rebalance \/ BalancerDies \/ StaticByHand
  PROVE  TypeOK'
<1>1. ClusterTypeOK' /\ HostTypeOK' /\ UNCHANGED ctlVars /\ UNCHANGED <<aggPod, aggAnn>>
  BY DEF Rebalance, BalancerDies, StaticByHand, TypeOK, ClusterTypeOK, HostTypeOK,
     podVars, annVars, hostVars, listenerVars, unitVars, ctlVars
<1>2. budget' \in 0..MaxFaults
  BY AttemptTyped DEF Rebalance, BalancerDies, StaticByHand, TypeOK, CtlTypeOK
<1>3. CtlTypeOK' /\ RestoreFindsRecord'
  BY <1>1, <1>2, CtlUnchangedTyped DEF TypeOK, RestoreFindsRecord, ctlVars
<1>4. QED
  BY <1>1, <1>3 DEF TypeOK

LEMMA StutterTyped ==
  ASSUME TypeOK, UNCHANGED vars
  PROVE  TypeOK'
<1>1. ClusterTypeOK' /\ HostTypeOK' /\ CtlTypeOK' /\ RestoreFindsRecord'
  BY DEF TypeOK, ClusterTypeOK, HostTypeOK, CtlTypeOK, RestoreFindsRecord, vars
<1>2. QED
  BY <1>1 DEF TypeOK

LEMMA NextTyped ==
  ASSUME TypeOK, [Next]_vars
  PROVE  TypeOK'
<1>1. ASSUME NEW t \in Targets, CallApply(t) PROVE TypeOK'
  BY <1>1, CallApplyTyped
<1>2. CASE CallRestore \/ Restart
  <2>1. ListRecorded /\ HostTypeOK'
    BY <1>2 DEF CallRestore, Restart, RestoreList, ListRecorded, TypeOK, HostTypeOK, hostVars,
       unitVars
  <2>2. QED
    BY <2>1, ListRecordedTyped
<1>3. CASE Apply
  BY <1>3, ApplyAnnotateVictimTyped, SyncMonitorTyped, SendPrimaryTyped,
     ConfineRecordTyped, ConfineNarrowTyped, SendSecondaryTyped, RecordSecondariesTyped,
     EnsureBalancerTyped DEF Apply
<1>4. CASE Restore
  BY <1>4, StopBalancerTyped, SendResetTyped, ReadOnlineCPUsTyped, RestoreAffinityTyped,
     RestoreWidenTyped, RestoreClearAggTyped, RestoreClearVictimTyped DEF Restore
<1>5. CASE Environment
  BY <1>5, CrashTyped, ChurnTyped, BalancerStepTyped DEF Environment
<1>6. CASE UNCHANGED vars
  BY <1>6, StutterTyped
<1>7. QED
  BY <1>1, <1>2, <1>3, <1>4, <1>5, <1>6 DEF Next

\* The variables have their types in every reachable state, whatever fails,
\* and what Restore reads back from an annotation is a recorded cpuset.
THEOREM TypeCorrect == Spec => []TypeOK
<1>1. Init => TypeOK
  BY InitTyped
<1>2. TypeOK /\ [Next]_vars => TypeOK'
  BY NextTyped
<1>3. QED
  BY <1>1, <1>2, PTL DEF Spec

-----------------------------------------------------------------------------
(***************************************************************************)
(* Listener and Balancer state is on record, when no victim pod goes away  *)
(* and neither the Listener nor systemd fails: API patches and cgroup      *)
(* writes may fail or be lost, aggressors come and go, and the process may *)
(* crash anywhere.  HcResetLost shows why the assumption is needed.        *)
(***************************************************************************)
HostCallsSucceed == Faults \cap {"victims", "listener", "systemd"} = {}

LEMMA NoHostFault ==
  ASSUME HostCallsSucceed, NEW class \in {"listener", "systemd"}, NEW ok, Attempt(class, ok)
  PROVE  ok
  BY DEF HostCallsSucceed, Attempt, CanFail

\* What a step must do to the invariant when it touches neither the victims
\* nor the host's state: keep to the labels whose conditions hold already.
LEMMA ReturnRecorded ==
  ASSUME HostStateInv, UNCHANGED <<victimPod, victimAnn, primary, secondaries, balancer>>,
         pc' \in {"idle", "down", "stopBalancer"}
  PROVE  HostStateInv'
  BY DEF HostStateInv, HostStateRecorded, AnnotatedVictims, Running, ApplyLabels,
         RegisteringLabels, RestoreLabels, ConfineLabels

\* The registering part of Apply stays in it, with the victims it has.
LEMMA RegisteringRecorded ==
  ASSUME HostStateInv, HostStateRecorded', UNCHANGED victimPod,
         AnnotatedVictims # {} => AnnotatedVictims' # {},
         AnnotatedVictims # {}, pc' \in RegisteringLabels,
         op'.victims # {}, op'.victims \subseteq Running(victimPod, Victims)
  PROVE  HostStateInv'
  BY DEF HostStateInv, Running, ApplyLabels, RegisteringLabels, RestoreLabels, ConfineLabels

LEMMA AfterSecondaryLabels ==
  ASSUME NEW o \in OpType, AfterSecondary(o)
  PROVE  pc' \in RegisteringLabels /\ op'.victims = o.victims
  BY DEF AfterSecondary, Goto, RegisteringLabels, ConfineLabels, OpType

LEMMA CallApplyRecorded ==
  ASSUME TypeOK, HostStateInv, NEW t \in Targets, CallApply(t)
  PROVE  HostStateInv'
<1> DEFINE vs == RunningVictims(t)
           own == {v \in vs : victimAnn[v].set}
           held == own # {}
           reg == UNION {victimAnn[v].secs : v \in own}
           ags == Running(aggPod, Aggs)
           o == [NoOp EXCEPT !.kind = "apply", !.target = t, !.held = held,
                             !.victims = vs, !.aggs = ags, !.reg = reg]
<1>1. UNCHANGED <<victimPod, victimAnn, primary, secondaries, balancer>>
  BY DEF CallApply, podVars, annVars, listenerVars, unitVars
<1>2. vs \subseteq Running(victimPod, Victims) /\ own \subseteq AnnotatedVictims
      /\ vs \subseteq Victims /\ ags \subseteq Aggs /\ reg \subseteq Aggs
  BY DEF RunningVictims, Running, AnnotatedVictims, TypeOK, ClusterTypeOK
<1>3. o \in OpType /\ o.victims = vs
  BY <1>2, ConstantFacts DEF NoOp, OpType
<1>4. ASSUME vs # {}, Goto("annotateVictims", [o EXCEPT !.todo = vs]) PROVE HostStateInv'
  <2> HIDE DEF o, vs
  <2>1. pc' = "annotateVictims" /\ op'.victims = vs /\ op'.todo = vs
    BY <1>2, <1>3, <1>4, TodoTyped DEF Goto
  <2>2. QED
    BY <1>1, <1>2, <1>4, <2>1
    DEF HostStateInv, HostStateRecorded, AnnotatedVictims, Running, ApplyLabels,
        RegisteringLabels, RestoreLabels, ConfineLabels
<1>5. ASSUME held, AfterSecondary([o EXCEPT !.todo = ags \ reg]) PROVE HostStateInv'
  <2>1. vs # {} /\ AnnotatedVictims # {} /\ AnnotatedVictims' = AnnotatedVictims
    BY <1>1, <1>2, <1>5 DEF AnnotatedVictims, Running
  <2> HIDE DEF o, vs, ags, reg
  <2>2. pc' \in RegisteringLabels /\ op'.victims = vs
    <3> DEFINE o2 == [o EXCEPT !.todo = ags \ reg]
    <3>1. o2 \in OpType /\ o2.victims = vs
      BY <1>2, <1>3, TodoTyped
    <3> HIDE DEF o2
    <3>2. AfterSecondary(o2)
      BY <1>5 DEF o2
    <3>3. QED
      BY <3>1, <3>2, AfterSecondaryLabels
  <2>3. HostStateRecorded'
    BY <1>1, <2>1 DEF HostStateInv, HostStateRecorded
  <2>4. QED
    BY <1>1, <1>2, <2>1, <2>2, <2>3, RegisteringRecorded
<1>6. ASSUME NEW err \in BOOLEAN, Return("apply", FALSE, err) PROVE HostStateInv'
  BY <1>1, <1>6, ReturnRecorded DEF Return
<1>7. QED
  BY <1>4, <1>5, <1>6 DEF CallApply

\* The annotations of the victims only grow before the Primary is sent.
LEMMA AnnotateVictimKeeps ==
  ASSUME TypeOK, NEW v \in Victims, NEW ann \in [set : BOOLEAN, secs : SUBSET Aggs],
         NEW ok \in BOOLEAN, AnnotateVictim(v, ann, ok), victimAnn[v].set => ann.set
  PROVE  /\ UNCHANGED <<victimPod, primary, secondaries, balancer>>
         /\ \A w \in Victims : victimAnn[w].set => victimAnn'[w].set
         /\ ok /\ victimPod[v] = "running" => victimAnn'[v] = ann
         /\ AnnotatedVictims # {} => AnnotatedVictims' # {}
<1>1. /\ UNCHANGED <<victimPod, primary, secondaries, balancer>>
      /\ \A w \in Victims : victimAnn[w].set => victimAnn'[w].set
      /\ ok /\ victimPod[v] = "running" => victimAnn'[v] = ann
  BY DEF AnnotateVictim, podVars, listenerVars, unitVars, TypeOK, ClusterTypeOK
<1>2. QED
  BY <1>1 DEF AnnotatedVictims, Running

LEMMA ApplyAnnotateVictimRecorded ==
  ASSUME TypeOK, HostStateInv, ApplyAnnotateVictim
  PROVE  HostStateInv'
<1>1. PICK v \in op.todo, ok \in BOOLEAN :
        /\ AnnotateVictim(v, [victimAnn[v] EXCEPT !.set = TRUE], ok)
        /\ IF ~ok THEN Return("apply", FALSE, TRUE)
           ELSE IF op.todo = {v} THEN Goto("monitor", [op EXCEPT !.todo = {}])
           ELSE Goto("annotateVictims", [op EXCEPT !.todo = @ \ {v}])
  BY DEF ApplyAnnotateVictim
<1>2. v \in Victims /\ op.todo \subseteq Victims /\ op \in OpType /\ pc = "annotateVictims"
  BY DEF ApplyAnnotateVictim, TypeOK, CtlTypeOK
<1> DEFINE ann == [victimAnn[v] EXCEPT !.set = TRUE]
<1>3. ann \in [set : BOOLEAN, secs : SUBSET Aggs] /\ ann.set
  BY <1>2 DEF TypeOK, ClusterTypeOK
<1> HIDE DEF ann
<1>4. /\ UNCHANGED <<victimPod, primary, secondaries, balancer>>
      /\ \A w \in Victims : victimAnn[w].set => victimAnn'[w].set
      /\ ok /\ victimPod[v] = "running" => victimAnn'[v] = ann
      /\ AnnotatedVictims # {} => AnnotatedVictims' # {}
  BY <1>1, <1>2, <1>3, AnnotateVictimKeeps DEF ann
<1>5. HostStateRecorded'
  BY <1>4 DEF HostStateInv, HostStateRecorded
<1>6. CASE ~ok
  BY <1>1, <1>4, <1>5, <1>6
  DEF Return, HostStateInv, ApplyLabels, RegisteringLabels, RestoreLabels, ConfineLabels
<1>7. CASE ok
  <2>1. /\ op.victims # {} /\ op.victims \subseteq Running(victimPod, Victims)
        /\ \A w \in op.victims \ op.todo : victimAnn[w].set
    BY <1>2 DEF HostStateInv, ApplyLabels
  <2>2. op'.victims = op.victims /\ op'.todo = op.todo \ {v}
        /\ pc' \in {"monitor", "annotateVictims"} /\ (pc' = "monitor" => op.todo = {v})
    BY <1>1, <1>2, <1>7 DEF Goto, OpType
  <2>3. \A w \in op.victims \ op'.todo : victimAnn'[w].set
    BY <1>2, <1>3, <1>4, <1>7, <2>1, <2>2 DEF Running
  <2>4. Running(victimPod, Victims)' = Running(victimPod, Victims)
    BY <1>4 DEF Running
  <2>5. QED
    BY <1>5, <2>1, <2>2, <2>3, <2>4
    DEF HostStateInv, ApplyLabels, RegisteringLabels, RestoreLabels, ConfineLabels
<1>8. QED
  BY <1>6, <1>7

LEMMA MonitorPrimaryRecorded ==
  ASSUME HostCallsSucceed, TypeOK, HostStateInv, SyncMonitorCPUList \/ SendPrimary
  PROVE  HostStateInv'
<1>1. CASE SyncMonitorCPUList
  <2>1. /\ UNCHANGED <<victimPod, victimAnn, primary, secondaries, balancer>>
        /\ pc = "monitor"
        /\ \/ pc' = "primary" /\ op' = op
           \/ pc' = "idle"
    BY <1>1 DEF SyncMonitorCPUList, Goto, Return, podVars, annVars, unitVars
  <2>2. CASE pc' = "idle"
    BY <2>1, <2>2, ReturnRecorded
  <2>3. CASE pc' = "primary" /\ op' = op
    BY <2>1, <2>3
    DEF HostStateInv, HostStateRecorded, AnnotatedVictims, Running, ApplyLabels,
        RegisteringLabels, RestoreLabels, ConfineLabels
  <2>4. QED
    BY <2>1, <2>2, <2>3
<1>2. CASE SendPrimary
  <2>1. PICK ok \in BOOLEAN :
          /\ Attempt("listener", ok)
          /\ IF ok THEN AfterSecondary([op EXCEPT !.todo = op.aggs \ op.reg])
                   ELSE Return("apply", FALSE, TRUE)
    BY <1>2 DEF SendPrimary
  <2>2. ok
    BY <2>1, NoHostFault
  <2> DEFINE o == [op EXCEPT !.todo = op.aggs \ op.reg]
  <2>3. op \in OpType /\ op.aggs \ op.reg \in SUBSET Aggs /\ pc = "primary"
    BY <1>2 DEF SendPrimary, TypeOK, CtlTypeOK, OpType
  <2>4. o \in OpType /\ o.victims = op.victims
    BY <2>3, TodoTyped
  <2>5. AfterSecondary(o)
    BY <2>1, <2>2
  <2> HIDE DEF o
  <2>6. pc' \in RegisteringLabels /\ op'.victims = op.victims
    BY <2>4, <2>5, AfterSecondaryLabels
  <2>7. /\ op.victims # {} /\ op.victims \subseteq Running(victimPod, Victims)
        /\ AnnotatedVictims # {}
    BY <2>3 DEF HostStateInv, ApplyLabels, AnnotatedVictims
  <2>8. UNCHANGED <<victimPod, victimAnn>>
    BY <1>2 DEF SendPrimary, podVars, annVars
  <2>9. AnnotatedVictims' # {}
    BY <2>7, <2>8 DEF AnnotatedVictims, Running
  <2>10. QED
    BY <2>6, <2>7, <2>8, <2>9, RegisteringRecorded DEF HostStateRecorded
<1>3. QED
  BY <1>1, <1>2

LEMMA ConfineStepRecorded ==
  ASSUME TypeOK, HostStateInv, ConfineRecord \/ ConfineNarrowPod \/ ConfineNarrowCtr
  PROVE  HostStateInv'
<1>1. pc \in RegisteringLabels /\ op \in OpType
  BY DEF ConfineRecord, ConfineNarrowPod, ConfineNarrowCtr, RegisteringLabels,
         ConfineLabels, TypeOK, CtlTypeOK
<1>2. /\ UNCHANGED <<victimPod, victimAnn, primary, secondaries, balancer>>
      /\ pc' \in RegisteringLabels /\ op'.victims = op.victims
  <2>1. CASE ConfineRecord
    BY <1>1, <2>1
    DEF ConfineRecord, AnnotateAgg, Goto, OpType, RegisteringLabels, ConfineLabels,
        podVars, annVars, hostVars, listenerVars, unitVars
  <2>2. CASE ConfineNarrowPod \/ ConfineNarrowCtr
    BY <1>1, <2>2
    DEF ConfineNarrowPod, ConfineNarrowCtr, WriteCpuset, Goto, RegisteringLabels,
        ConfineLabels, podVars, annVars, listenerVars, unitVars
  <2>3. QED
    BY <2>1, <2>2
<1>3. /\ op.victims # {} /\ op.victims \subseteq Running(victimPod, Victims)
      /\ AnnotatedVictims # {}
  BY <1>1 DEF HostStateInv, ApplyLabels
<1>4. AnnotatedVictims' # {}
  BY <1>2, <1>3 DEF AnnotatedVictims, Running
<1>5. QED
  BY <1>2, <1>3, <1>4, RegisteringRecorded DEF HostStateRecorded

LEMMA SendSecondaryRecorded ==
  ASSUME TypeOK, HostStateInv, SendSecondary
  PROVE  HostStateInv'
<1> DEFINE o == [op EXCEPT !.todo = @ \ {op.cur}, !.cur = NoPod]
           good == [o EXCEPT !.reg = @ \cup {op.cur}, !.added = TRUE]
           bad == [o EXCEPT !.err = TRUE]
<1>1. PICK ok \in BOOLEAN : AfterSecondary(IF ok THEN good ELSE bad)
  BY DEF SendSecondary
<1>2. op \in OpType /\ op.cur \in Aggs /\ op.todo \subseteq Aggs /\ pc = "register"
  BY DEF SendSecondary, TypeOK, CtlTypeOK, RestoreLabels, ConfineLabels, CurLabels
<1>3. good \in OpType /\ good.victims = op.victims /\ bad \in OpType
      /\ bad.victims = op.victims
  BY <1>2 DEF OpType
<1> HIDE DEF good, bad
<1>4. pc' \in RegisteringLabels /\ op'.victims = op.victims
  <2>1. CASE ok
    BY <1>1, <1>3, <2>1, AfterSecondaryLabels
  <2>2. CASE ~ok
    BY <1>1, <1>3, <2>2, AfterSecondaryLabels
  <2>3. QED
    BY <2>1, <2>2
<1>5. UNCHANGED <<victimPod, victimAnn>>
  BY DEF SendSecondary, podVars, annVars
<1>6. /\ op.victims # {} /\ op.victims \subseteq Running(victimPod, Victims)
      /\ AnnotatedVictims # {}
  BY <1>2 DEF HostStateInv, ApplyLabels, RegisteringLabels, ConfineLabels
<1>7. AnnotatedVictims' # {}
  BY <1>5, <1>6 DEF AnnotatedVictims, Running
<1>8. QED
  BY <1>4, <1>5, <1>6, <1>7, RegisteringRecorded DEF HostStateRecorded

LEMMA RecordSecondariesRecorded ==
  ASSUME TypeOK, HostStateInv, RecordSecondaries
  PROVE  HostStateInv'
<1>1. PICK v \in op.todo, ok \in BOOLEAN :
        /\ AnnotateVictim(v, [victimAnn[v] EXCEPT !.secs = op.reg], ok)
        /\ LET o == [op EXCEPT !.todo = @ \ {v}] IN
           Goto(IF o.todo = {} THEN "balancer" ELSE "recordSecondaries", o)
  BY DEF RecordSecondaries
<1>2. v \in Victims /\ op \in OpType /\ pc = "recordSecondaries"
  BY DEF RecordSecondaries, TypeOK, CtlTypeOK
<1> DEFINE ann == [victimAnn[v] EXCEPT !.secs = op.reg]
<1>3. ann \in [set : BOOLEAN, secs : SUBSET Aggs] /\ ann.set = victimAnn[v].set
  BY <1>2 DEF TypeOK, ClusterTypeOK, OpType
<1> HIDE DEF ann
<1>4. UNCHANGED victimPod /\ (AnnotatedVictims # {} => AnnotatedVictims' # {})
  BY <1>1, <1>2, <1>3, AnnotateVictimKeeps DEF ann
<1>5. pc' \in RegisteringLabels /\ op'.victims = op.victims
  BY <1>1, <1>2 DEF Goto, OpType, RegisteringLabels
<1>6. /\ op.victims # {} /\ op.victims \subseteq Running(victimPod, Victims)
      /\ AnnotatedVictims # {}
  BY <1>2 DEF HostStateInv, ApplyLabels, RegisteringLabels
<1>7. QED
  BY <1>4, <1>5, <1>6, RegisteringRecorded DEF HostStateRecorded

LEMMA EnsureBalancerRecorded ==
  ASSUME TypeOK, HostStateInv, EnsureBalancer
  PROVE  HostStateInv'
<1>1. pc \in {"balancer", "startBalancer"} /\ UNCHANGED <<victimPod, victimAnn>>
  BY DEF EnsureBalancer, KeepBalancer, StopStatic, StartBalancer, podVars, annVars
<1>2. /\ AnnotatedVictims # {}
      /\ op.victims # {} /\ op.victims \subseteq Running(victimPod, Victims)
  BY <1>1 DEF HostStateInv, ApplyLabels, RegisteringLabels
<1>3. AnnotatedVictims' # {}
  BY <1>1, <1>2 DEF AnnotatedVictims, Running
<1>4. pc' = "idle" \/ (pc' = "startBalancer" /\ op' = op)
  BY DEF EnsureBalancer, KeepBalancer, StopStatic, StartBalancer, Return, Goto
<1>5. QED
  BY <1>1, <1>2, <1>3, <1>4
  DEF HostStateInv, HostStateRecorded, ApplyLabels, RegisteringLabels, RestoreLabels,
      ConfineLabels

\* The labels of Restore at which the host's state has been emptied.
EmptiedLabels == (RestoreLabels \ {"stopBalancer", "reset"}) \cup {"clearVictims"}

LEMMA EmptiedRecorded ==
  ASSUME HostStateEmpty', pc' \in EmptiedLabels \cup {"idle"}
  PROVE  HostStateInv'
  BY DEF HostStateInv, HostStateRecorded, HostStateEmpty, EmptiedLabels, ApplyLabels,
         RegisteringLabels, RestoreLabels, ConfineLabels

LEMMA AfterAggLabels ==
  ASSUME NEW o, AfterAgg(o)
  PROVE  pc' \in EmptiedLabels \cup {"idle"}
  BY DEF AfterAgg, Goto, Return, EmptiedLabels, RestoreLabels

LEMMA ListRecordedRecorded ==
  ASSUME HostStateInv, ListRecorded
  PROVE  HostStateInv'
<1>1. UNCHANGED <<victimPod, victimAnn, primary, secondaries, balancer>>
  BY DEF ListRecorded, podVars, annVars, unitVars
<1>2. pc' \in {"idle", "down", "stopBalancer"}
  BY DEF ListRecorded, Return, Goto
<1>3. QED
  BY <1>1, <1>2, ReturnRecorded

\* The Balancer is stopped, then the Listener is empty.
LEMMA StopAndResetRecorded ==
  ASSUME HostCallsSucceed, TypeOK, HostStateInv, StopBalancer \/ SendReset
  PROVE  HostStateInv'
<1>1. CASE StopBalancer
  <2>1. PICK ok \in BOOLEAN : Attempt("systemd", ok) /\ balancer' = (balancer /\ ~ok)
    BY <1>1 DEF StopBalancer
  <2>2. ok
    BY <2>1, NoHostFault
  <2>3. ~balancer' /\ pc' = "reset"
    BY <1>1, <2>1, <2>2 DEF StopBalancer, Goto
  <2>4. UNCHANGED <<victimPod, victimAnn, primary, secondaries>>
    BY <1>1 DEF StopBalancer, podVars, annVars, listenerVars
  <2>5. HostStateRecorded'
    BY <2>3, <2>4 DEF HostStateInv, HostStateRecorded, AnnotatedVictims, Running
  <2>6. QED
    BY <2>3, <2>5
    DEF HostStateInv, ApplyLabels, RegisteringLabels, RestoreLabels, ConfineLabels
<1>2. CASE SendReset
  <2>1. PICK ok \in BOOLEAN, done \in BOOLEAN :
          /\ Attempt("listener", ok)
          /\ ok => done
          /\ primary' = IF done THEN NoTarget ELSE primary
          /\ secondaries' = IF done THEN {} ELSE secondaries
    BY <1>2 DEF SendReset
  <2>2. ok
    BY <2>1, NoHostFault
  <2>3. ~balancer' /\ pc' = "online"
    BY <1>2 DEF SendReset, Goto, unitVars, HostStateInv
  <2>4. HostStateEmpty'
    BY <2>1, <2>2, <2>3 DEF HostStateEmpty
  <2>5. QED
    BY <2>3, <2>4, EmptiedRecorded DEF EmptiedLabels, RestoreLabels
<1>3. QED
  BY <1>1, <1>2

\* The rest of Restore leaves the Listener and the Balancer alone.
LEMMA UndoRecorded ==
  ASSUME HostStateInv,
         \/ ReadOnlineCPUs \/ RestoreAffinity \/ RestoreWidenPod \/ RestoreWidenCtr
         \/ RestoreClearAgg \/ RestoreClearVictim
  PROVE  HostStateInv'
<1>1. pc \in EmptiedLabels
  BY DEF ReadOnlineCPUs, RestoreAffinity, RestoreWidenPod, RestoreWidenCtr, RestoreWrite,
         RestoreClearAgg, RestoreClearVictim, EmptiedLabels, RestoreLabels
<1>2. HostStateEmpty
  BY <1>1 DEF HostStateInv, EmptiedLabels
<1>3. UNCHANGED <<primary, secondaries, balancer>>
  BY DEF ReadOnlineCPUs, RestoreAffinity, RestoreWidenPod, RestoreWidenCtr, RestoreWrite,
         RestoreClearAgg, RestoreClearVictim, WriteCpuset, AnnotateAgg, AnnotateVictim,
         listenerVars, unitVars
<1>4. pc' \in EmptiedLabels \cup {"idle"}
  <2>1. CASE ReadOnlineCPUs
    BY <2>1, AfterAggLabels DEF ReadOnlineCPUs, Return
  <2>2. CASE RestoreAffinity \/ RestoreWidenPod \/ RestoreWidenCtr
    BY <2>2 DEF RestoreAffinity, RestoreWidenPod, RestoreWidenCtr, RestoreWrite, Goto,
       EmptiedLabels, RestoreLabels
  <2>3. CASE RestoreClearAgg \/ RestoreClearVictim
    BY <2>3, AfterAggLabels DEF RestoreClearAgg, RestoreClearVictim
  <2>4. QED
    BY <2>1, <2>2, <2>3
<1>5. HostStateEmpty'
  BY <1>2, <1>3 DEF HostStateEmpty
<1>6. QED
  BY <1>4, <1>5, EmptiedRecorded

LEMMA EnvironmentRecorded ==
  ASSUME HostCallsSucceed, TypeOK, HostStateInv, Environment
  PROVE  HostStateInv'
<1>1. CASE Crash
  BY <1>1, ReturnRecorded DEF Crash, podVars, annVars, listenerVars, unitVars
<1>2. CASE AggChurn \/ Rebalance
  BY <1>2
  DEF AggChurn, Rebalance, HostStateInv, HostStateRecorded, HostStateEmpty,
      AnnotatedVictims, Running, podVars, annVars, listenerVars, unitVars, ctlVars
<1>3. CASE BalancerDies \/ StaticByHand
  <2>1. UNCHANGED <<victimPod, victimAnn, primary, secondaries, pc, op>>
    BY <1>3 DEF BalancerDies, StaticByHand, podVars, annVars, listenerVars, ctlVars
  <2>2. AnnotatedVictims' = AnnotatedVictims
        /\ Running(victimPod', Victims) = Running(victimPod, Victims)
    BY <2>1 DEF AnnotatedVictims, Running
  <2>3. balancer' => balancer
    BY <1>3, Zenon DEF BalancerDies, StaticByHand
  <2>4. HostStateRecorded' /\ (HostStateEmpty => HostStateEmpty')
    BY <2>1, <2>2, <2>3, Zenon DEF HostStateInv, HostStateRecorded, HostStateEmpty
  <2>5. pc = "reset" => ~balancer'
    BY <2>3, Zenon DEF HostStateInv
  <2>6. QED
    BY <2>1, <2>2, <2>4, <2>5 DEF HostStateInv
<1>4. CASE VictimChurn
  <2>1. PICK v \in Victims :
          /\ victimPod[v] = "new"
          /\ victimPod' = [victimPod EXCEPT ![v] = NextPhase(@)]
          /\ victimAnn' = [victimAnn EXCEPT ![v] = [set |-> FALSE, secs |-> {}]]
    BY <1>4 DEF VictimChurn, HostCallsSucceed
  <2>2. UNCHANGED <<primary, secondaries, balancer, pc, op>>
    BY <1>4 DEF VictimChurn, listenerVars, unitVars, ctlVars
  <2>3. \A w \in Victims : victimPod[w] = "running"
          => victimPod'[w] = "running" /\ victimAnn'[w] = victimAnn[w]
    BY <2>1 DEF TypeOK, ClusterTypeOK
  <2>4. Running(victimPod, Victims) \subseteq Running(victimPod', Victims)
    BY <2>3 DEF Running
  <2>5. AnnotatedVictims \subseteq AnnotatedVictims'
    BY <2>3 DEF AnnotatedVictims, Running
  <2>6. pc \in ApplyLabels => \A w \in op.victims : victimAnn'[w] = victimAnn[w]
    BY <2>3 DEF HostStateInv, Running
  <2>7. HostStateRecorded' /\ (HostStateEmpty => HostStateEmpty')
    BY <2>2, <2>5 DEF HostStateInv, HostStateRecorded, HostStateEmpty
  <2>8. QED
    BY <2>2, <2>4, <2>5, <2>6, <2>7 DEF HostStateInv, ApplyLabels
<1>5. QED
  BY <1>1, <1>2, <1>3, <1>4 DEF Environment

LEMMA NextRecorded ==
  ASSUME HostCallsSucceed, TypeOK, HostStateInv, [Next]_vars
  PROVE  HostStateInv'
<1>1. ASSUME NEW t \in Targets, CallApply(t) PROVE HostStateInv'
  BY <1>1, CallApplyRecorded
<1>2. CASE CallRestore \/ Restart
  BY <1>2, ListRecordedRecorded DEF CallRestore, Restart, RestoreList
<1>3. CASE Apply
  BY <1>3, ApplyAnnotateVictimRecorded, MonitorPrimaryRecorded, ConfineStepRecorded,
     SendSecondaryRecorded, RecordSecondariesRecorded, EnsureBalancerRecorded DEF Apply
<1>4. CASE Restore
  BY <1>4, StopAndResetRecorded, UndoRecorded DEF Restore
<1>5. CASE Environment
  BY <1>5, EnvironmentRecorded
<1>6. CASE UNCHANGED vars
  BY <1>6 DEF vars, HostStateInv, HostStateRecorded, HostStateEmpty, AnnotatedVictims, Running
<1>7. QED
  BY <1>1, <1>2, <1>3, <1>4, <1>5, <1>6 DEF Next

LEMMA InitRecorded == Init => HostStateInv
  BY DEF Init, HostStateInv, HostStateRecorded, HostStateEmpty, ApplyLabels,
         RegisteringLabels, RestoreLabels, ConfineLabels

\* The inductive strengthening: where each call is with its annotations.
THEOREM HostStateInvariant ==
  ASSUME HostCallsSucceed
  PROVE  Spec => []HostStateInv
<1>1. Init => HostStateInv
  BY InitRecorded
<1>2. TypeOK /\ HostStateInv /\ [Next]_vars => HostStateInv'
  BY NextRecorded
<1>3. QED
  BY <1>1, <1>2, TypeCorrect, PTL DEF Spec

\* Whatever the Listener or the Balancer holds, a running victim's annotation
\* tells Reconcile of it, after a crash at any step (hc.go:285-296).
THEOREM HostStateIsRecorded ==
  ASSUME HostCallsSucceed
  PROVE  Spec => []HostStateRecorded
<1>1. HostStateInv => HostStateRecorded
  BY DEF HostStateInv
<1>2. QED
  BY <1>1, HostStateInvariant, PTL

-----------------------------------------------------------------------------
(***************************************************************************)
(* Reset comes after the Balancer's exit.  Only a hard stop that fails, or *)
(* a unit that outlives its stop, could break it, so systemd is assumed.   *)
(***************************************************************************)
StoppedAtReset == pc = "reset" => ~balancer

LEMMA StoppedAtResetStep ==
  ASSUME "systemd" \notin Faults, TypeOK, StoppedAtReset, [Next]_vars
  PROVE  StoppedAtReset'
<1>1. ASSUME pc' # "reset" PROVE StoppedAtReset'
  BY <1>1 DEF StoppedAtReset
<1>2. ASSUME NEW t \in Targets, CallApply(t) PROVE pc' # "reset"
  BY <1>2 DEF CallApply, Return, Goto, AfterSecondary
<1>3. ASSUME CallRestore \/ Restart PROVE pc' # "reset"
  BY <1>3 DEF CallRestore, Restart, RestoreList, ListRecorded, Return,
     Goto
<1>4. ASSUME Apply PROVE pc' # "reset"
  BY <1>4 DEF Apply, ApplyAnnotateVictim, SyncMonitorCPUList, SendPrimary, ConfineRecord,
     ConfineNarrowPod, ConfineNarrowCtr, SendSecondary, RecordSecondaries, EnsureBalancer,
     KeepBalancer, StopStatic, StartBalancer, Return, Goto, AfterSecondary
<1>5. CASE StopBalancer
  <2>1. PICK ok \in BOOLEAN : Attempt("systemd", ok) /\ balancer' = (balancer /\ ~ok)
    BY <1>5 DEF StopBalancer
  <2>2. ok
    BY <2>1 DEF Attempt, CanFail
  <2>3. QED
    BY <2>1, <2>2 DEF StoppedAtReset
<1>6. ASSUME Restore, ~StopBalancer PROVE pc' # "reset"
  BY <1>6 DEF Restore, SendReset, ReadOnlineCPUs, RestoreAffinity, RestoreWidenPod,
     RestoreWidenCtr, RestoreWrite, RestoreClearAgg, RestoreClearVictim, AfterAgg, Return,
     Goto
<1>7. CASE Environment \/ UNCHANGED vars
  BY <1>7 DEF Environment, Crash, VictimChurn, AggChurn, Rebalance, BalancerDies,
     StaticByHand, vars, ctlVars, unitVars, StoppedAtReset
<1>8. QED
  BY <1>1, <1>2, <1>3, <1>4, <1>5, <1>6, <1>7 DEF Next

\* The Listener's Secondaries are dropped only when no Balancer runs.
LEMMA OnlyResetDrops ==
  ASSUME StoppedAtReset, [Next]_vars, secondaries # {}, secondaries' = {}
  PROVE  ~balancer
<1>1. ASSUME SendReset PROVE ~balancer
  BY <1>1 DEF SendReset, StoppedAtReset
<1>2. ASSUME NEW t \in Targets, CallApply(t) PROVE FALSE
  BY <1>2 DEF CallApply, listenerVars
<1>3. ASSUME CallRestore \/ Restart PROVE FALSE
  BY <1>3 DEF CallRestore, Restart, RestoreList, ListRecorded
<1>4. ASSUME Apply PROVE FALSE
  BY <1>4 DEF Apply, ApplyAnnotateVictim, SyncMonitorCPUList, SendPrimary, ConfineRecord,
     ConfineNarrowPod, ConfineNarrowCtr, SendSecondary, RecordSecondaries, EnsureBalancer,
     KeepBalancer, StopStatic, StartBalancer, AnnotateVictim, AnnotateAgg, WriteCpuset, listenerVars
<1>5. ASSUME Restore, ~SendReset PROVE FALSE
  BY <1>5 DEF Restore, StopBalancer, ReadOnlineCPUs, RestoreAffinity, RestoreWidenPod,
     RestoreWidenCtr, RestoreWrite, RestoreClearAgg, RestoreClearVictim, AnnotateVictim,
     AnnotateAgg, WriteCpuset, listenerVars
<1>6. ASSUME Environment \/ UNCHANGED vars PROVE FALSE
  BY <1>6 DEF Environment, Crash, VictimChurn, AggChurn, Rebalance, BalancerDies,
     StaticByHand, vars, listenerVars
<1>7. QED
  BY <1>1, <1>2, <1>3, <1>4, <1>5, <1>6 DEF Next

\* Restore never resets the Listener under a live Balancer, which watches the
\* control word that Reset zeroes.
THEOREM ResetIsAfterExit ==
  ASSUME "systemd" \notin Faults
  PROVE  Spec => ResetAfterBalancerExit
<1>1. Init => StoppedAtReset
  BY DEF Init, StoppedAtReset
<1>2. TypeOK /\ StoppedAtReset /\ [Next]_vars => StoppedAtReset'
  BY StoppedAtResetStep
<1>3. StoppedAtReset /\ [Next]_vars =>
        [secondaries' = {} /\ secondaries # {} => ~balancer]_secondaries
  BY OnlyResetDrops
<1>4. QED
  BY <1>1, <1>2, <1>3, TypeCorrect, PTL DEF Spec, ResetAfterBalancerExit
=============================================================================
