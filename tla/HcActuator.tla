----------------------------- MODULE HcActuator -----------------------------
(***************************************************************************)
(* The HarvestContainers actuator of pkg/actuators/hc, on one node.        *)
(*                                                                         *)
(* Apply registers a target's victim pods as the Primary of the host's     *)
(* Listener and every aggressor pod as a Secondary, confining the          *)
(* aggressors' cpusets first, and starts the Balancer.  Restore stops the  *)
(* Balancer, resets the Listener and hands the aggressors back to every    *)
(* CPU.  Reconcile, at process start, is Restore.  A mutex serialises the  *)
(* three, so the actuator is one sequential process: each action below is  *)
(* one external effect of it (an API patch, a cgroup write, a Listener     *)
(* message, a systemd call), and a crash may fall between any two.         *)
(*                                                                         *)
(* What can go wrong is the constant Faults, a subset of FaultClasses; at  *)
(* most MaxFaults faults happen in a behaviour.  Pods appear at any time   *)
(* and go away where Faults has "victims" or "aggressors", bounded by the  *)
(* pods there are: a replaced pod is a new pod, with a new UID and a fresh *)
(* cgroup.                                                                 *)
(*                                                                         *)
(* A definition under a comment that begins "Bug:" is no part of the       *)
(* specification: it is a plausible mistake in the definition after it,    *)
(* which a checked property must catch.                                    *)
(***************************************************************************)
EXTENDS Naturals, FiniteSets

CONSTANTS
  Targets,        \* victim workloads, one controller goroutine each
  Victims,        \* pod UIDs a target's selector can match on this node
  Aggs,           \* pod UIDs the aggressor selector can match on this node
  TargetOf,       \* victim pod -> its target
  Online,         \* CPUs the kernel reports online
  VictimCPUs,     \* target -> the CPUs its victims are pinned to
  SecondaryCPUs,  \* secondary_cpulist: CPUs the aggressors always keep
  Orig,           \* aggressor -> the cpusets it has before any mitigation
  Faults,         \* the classes of faults and of churn that may happen
  MaxFaults,      \* bound on the faults of a behaviour
  NoTarget, NoAnn, NoPod

FaultClasses ==
  {"crash", "api", "listener", "cgroup", "host", "systemd", "balancer", "static",
   "victims", "aggressors"}

\* A cpuset.cpus of the pod cgroup and of its container; {} is "inherit".
Cpusets == [pod : SUBSET Online, ctr : SUBSET Online]

ASSUME TargetsAssumption ==
  /\ TargetOf \in [Victims -> Targets]
  /\ NoTarget \notin Targets
  /\ NoPod \notin Aggs
ASSUME CpusAssumption ==
  /\ VictimCPUs \in [Targets -> SUBSET Online]
  /\ SecondaryCPUs \in SUBSET Online
  /\ Orig \in [Aggs -> Cpusets]
  /\ NoAnn \notin Cpusets
ASSUME FaultsAssumption == Faults \subseteq FaultClasses /\ MaxFaults \in Nat

VARIABLES
  victimPod, aggPod,   \* phase of each pod: "new", "running" or "gone"
  victimAnn,           \* mitigation/hc-set-by-node and hc-secondaries
  aggAnn,              \* mitigation/hc-cpuset-original, or NoAnn
  cpuset,              \* the aggressors' cgroups
  pinned,              \* aggressors whose threads the Balancer has narrowed
  monitor,             \* whose CPUs /proc/idlecpu/cpulist names
  primary, secondaries,  \* the Listener's shared-memory segment
  balancer, static,    \* the two systemd units: active or not
  pc, op, ret,         \* the actuator's control point, locals, last result
  budget               \* faults still allowed

podVars      == <<victimPod, aggPod>>
annVars      == <<victimAnn, aggAnn>>
hostVars     == <<cpuset, pinned>>
listenerVars == <<monitor, primary, secondaries>>
unitVars     == <<balancer, static>>
ctlVars      == <<pc, op, ret>>
vars == <<victimPod, aggPod, victimAnn, aggAnn, cpuset, pinned, monitor, primary,
          secondaries, balancer, static, pc, op, ret, budget>>

Running(phase, pods) == {p \in pods : phase[p] = "running"}
RunningVictims(t) == {v \in Running(victimPod, Victims) : TargetOf[v] = t}

\* cgroup v2: an empty cpuset, or one disjoint from its parent's, inherits.
Clip(own, parent) == IF own \cap parent = {} THEN parent ELSE own \cap parent
EffPod(c) == Clip(c.pod, Online)
Effective(c) == Clip(c.ctr, EffPod(c))

\* confine's argument: what a confined aggressor may run on.
Allowed(t) == SecondaryCPUs \cup VictimCPUs[t]

NoRet == [kind |-> "none", applied |-> FALSE, err |-> FALSE]
NoOp == [kind |-> "none", target |-> NoTarget, held |-> FALSE, victims |-> {},
         aggs |-> {}, todo |-> {}, reg |-> {}, cur |-> NoPod,
         added |-> FALSE, err |-> FALSE]

-----------------------------------------------------------------------------
(***************************************************************************)
(* Calls that may fail.  A failed call may have taken effect all the same  *)
(* (a lost reply), except for a cgroup write.                              *)
(***************************************************************************)
CanFail(class) == class \in Faults /\ budget > 0
Attempt(class, ok) ==
  /\ ok \/ CanFail(class)
  /\ budget' = IF ok THEN budget ELSE budget - 1

Return(kind, applied, err) ==
  /\ pc' = "idle"
  /\ op' = NoOp
  /\ ret' = [kind |-> kind, applied |-> applied, err |-> err]

Goto(label, o) == pc' = label /\ op' = o /\ ret' = ret

\* The next loop of Apply that has work left: the aggressors not yet
\* registered, then the record of the registered ones, then the Balancer.
AfterSecondary(o) ==
  IF o.todo # {} THEN Goto("confine", o)
  ELSE IF o.added THEN Goto("recordSecondaries", [o EXCEPT !.todo = o.victims])
  ELSE Goto("balancer", o)

\* annotatePod: a merge patch; a pod that is gone is a success.
AnnotateVictim(v, ann, ok) ==
  /\ Attempt("api", ok)
  /\ \E done \in BOOLEAN :
       /\ ok => done
       /\ victimAnn' = IF done /\ victimPod[v] = "running"
                       THEN [victimAnn EXCEPT ![v] = ann] ELSE victimAnn
  /\ UNCHANGED <<podVars, aggAnn, hostVars, listenerVars, unitVars>>

AnnotateAgg(a, ann, ok) ==
  /\ Attempt("api", ok)
  /\ \E done \in BOOLEAN :
       /\ ok => done
       /\ aggAnn' = IF done /\ aggPod[a] = "running"
                    THEN [aggAnn EXCEPT ![a] = ann] ELSE aggAnn
  /\ UNCHANGED <<podVars, victimAnn, hostVars, listenerVars, unitVars>>

\* WriteCpusetCpus on one level of an aggressor; it fails on a gone cgroup.
WriteCpuset(a, new, ok) ==
  /\ IF ok THEN aggPod[a] = "running" /\ budget' = budget
           ELSE \/ aggPod[a] = "gone" /\ budget' = budget
                \/ CanFail("cgroup") /\ budget' = budget - 1
  /\ cpuset' = IF ok THEN [cpuset EXCEPT ![a] = new] ELSE cpuset
  /\ UNCHANGED <<podVars, annVars, pinned, listenerVars, unitVars>>

-----------------------------------------------------------------------------
(***************************************************************************)
(* Apply.                                                                  *)
(***************************************************************************)

\* The reads that open Apply: the victims, whether HC is held and which
\* Secondaries are registered (from the annotations), the aggressors.
CallApply(t) ==
  /\ pc = "idle"
  /\ UNCHANGED <<podVars, annVars, hostVars, listenerVars, unitVars>>
  /\ LET vs   == RunningVictims(t)
         own  == {v \in vs : victimAnn[v].set}
         held == own # {}
         reg  == UNION {victimAnn[v].secs : v \in own}
         ags  == Running(aggPod, Aggs)
         o    == [NoOp EXCEPT !.kind = "apply", !.target = t, !.held = held,
                              !.victims = vs, !.aggs = ags, !.reg = reg]
     IN \/ /\ vs = {} \/ (ags = {} /\ ~held)
           /\ Return("apply", FALSE, FALSE)
           /\ UNCHANGED budget
        \/ Attempt("api", FALSE) /\ Return("apply", FALSE, TRUE)
        \/ /\ vs # {} /\ ~held   \* the victims' CPUs cannot be derived
           /\ Attempt("host", FALSE)
           /\ Return("apply", FALSE, TRUE)
        \/ /\ vs # {} /\ ags # {} /\ ~held
           /\ Goto("annotateVictims", [o EXCEPT !.todo = vs])
           /\ UNCHANGED budget
        \/ /\ held
           /\ AfterSecondary([o EXCEPT !.todo = ags \ reg])
           /\ UNCHANGED budget

\* Bug: a failed annotation of a victim is only logged.
ApplyAnnotateVictimUnchecked ==
  /\ pc = "annotateVictims"
  /\ \E v \in op.todo, ok \in BOOLEAN :
       /\ AnnotateVictim(v, [victimAnn[v] EXCEPT !.set = TRUE], ok)
       /\ Goto(IF op.todo = {v} THEN "monitor" ELSE "annotateVictims",
               [op EXCEPT !.todo = @ \ {v}])

\* Annotate first: Reconcile must find something to undo after a crash.
ApplyAnnotateVictim ==
  /\ pc = "annotateVictims"
  /\ \E v \in op.todo, ok \in BOOLEAN :
       /\ AnnotateVictim(v, [victimAnn[v] EXCEPT !.set = TRUE], ok)
       /\ IF ~ok THEN Return("apply", FALSE, TRUE)
          ELSE IF op.todo = {v} THEN Goto("monitor", [op EXCEPT !.todo = {}])
          ELSE Goto("annotateVictims", [op EXCEPT !.todo = @ \ {v}])

\* Bug: /proc/idlecpu/cpulist is left as it is.
SyncMonitorCPUListSkipped ==
  /\ pc = "monitor"
  /\ Goto("primary", op)
  /\ UNCHANGED <<podVars, annVars, hostVars, listenerVars, unitVars, budget>>

SyncMonitorCPUList ==
  /\ pc = "monitor"
  /\ \E ok \in BOOLEAN :
       /\ Attempt("host", ok)
       /\ monitor' = IF ok THEN op.target ELSE monitor
       /\ IF ok THEN Goto("primary", op) ELSE Return("apply", FALSE, TRUE)
  /\ UNCHANGED <<podVars, annVars, hostVars, primary, secondaries, unitVars>>

SendPrimary ==
  /\ pc = "primary"
  /\ \E ok, done \in BOOLEAN :
       /\ Attempt("listener", ok)
       /\ ok => done
       /\ primary' = IF done THEN op.target ELSE primary
       /\ IF ok THEN AfterSecondary([op EXCEPT !.todo = op.aggs \ op.reg])
                ELSE Return("apply", FALSE, TRUE)
  /\ UNCHANGED <<podVars, annVars, hostVars, monitor, secondaries, unitVars>>

\* confine records what the cgroups hold now, then narrows parent and child.
\* Whatever fails, Apply goes on to register the pod.
ConfineRecord ==
  /\ pc = "confine"
  /\ UNCHANGED ret
  /\ \E a \in op.todo :
       \/ \E ok \in BOOLEAN :
            /\ aggPod[a] = "running"
            /\ AnnotateAgg(a, cpuset[a], ok)
            /\ pc' = IF ok THEN "narrowPod" ELSE "register"
            /\ op' = [op EXCEPT !.cur = a]
       \/ /\ \/ aggPod[a] = "gone" /\ UNCHANGED budget
             \/ Attempt("cgroup", FALSE)
          /\ Goto("register", [op EXCEPT !.cur = a])
          /\ UNCHANGED <<podVars, annVars, hostVars, listenerVars, unitVars>>

ConfineNarrowPod ==
  /\ pc = "narrowPod"
  /\ \E ok \in BOOLEAN :
       /\ WriteCpuset(op.cur, [cpuset[op.cur] EXCEPT !.pod = Allowed(op.target)], ok)
       /\ Goto(IF ok THEN "narrowCtr" ELSE "register", op)

ConfineNarrowCtr ==
  /\ pc = "narrowCtr"
  /\ \E ok \in BOOLEAN :
       /\ WriteCpuset(op.cur, [cpuset[op.cur] EXCEPT !.ctr = Allowed(op.target)], ok)
       /\ Goto("register", op)

SendSecondary ==
  /\ pc = "register"
  /\ \E ok, done \in BOOLEAN :
       /\ Attempt("listener", ok)
       /\ ok => done
       /\ secondaries' = IF done THEN secondaries \cup {op.cur} ELSE secondaries
       /\ LET o == [op EXCEPT !.todo = @ \ {op.cur}, !.cur = NoPod] IN
          AfterSecondary(IF ok THEN [o EXCEPT !.reg = @ \cup {op.cur}, !.added = TRUE]
                               ELSE [o EXCEPT !.err = TRUE])
  /\ UNCHANGED <<podVars, annVars, hostVars, monitor, primary, unitVars>>

\* Bug: hc-secondaries is not recorded.
RecordSecondariesSkipped ==
  /\ pc = "recordSecondaries"
  /\ Goto("balancer", [op EXCEPT !.todo = {}])
  /\ UNCHANGED <<podVars, annVars, hostVars, listenerVars, unitVars, budget>>

\* Every victim pod listed, set-by-node or not; a failure is only logged.
RecordSecondaries ==
  /\ pc = "recordSecondaries"
  /\ \E v \in op.todo, ok \in BOOLEAN :
       /\ AnnotateVictim(v, [victimAnn[v] EXCEPT !.secs = op.reg], ok)
       /\ LET o == [op EXCEPT !.todo = @ \ {v}] IN
          Goto(IF o.todo = {} THEN "balancer" ELSE "recordSecondaries", o)

\* Nothing to start, or ours runs: the end of Apply.
KeepBalancer ==
  /\ pc = "balancer"
  /\ op.reg = {} \/ balancer
  /\ Return("apply", ~op.held \/ op.added, op.err /\ op.reg = {})
  /\ UNCHANGED <<podVars, annVars, hostVars, listenerVars, unitVars, budget>>

\* Bug: the Balancer is only started by the Apply that registers a pod.
StopStaticOnce ==
  /\ pc = "balancer"
  /\ op.reg # {} /\ ~balancer
  /\ static' = (static /\ ~op.added)
  /\ IF op.added THEN Goto("startBalancer", op) ELSE Return("apply", ~op.held, FALSE)
  /\ UNCHANGED <<podVars, annVars, hostVars, listenerVars, balancer, budget>>

\* Ours is not seen active, so a hand-run Balancer that is gets stopped.  A
\* systemctl that fails reports neither as active, and a failed stop is ignored.
StopStatic ==
  /\ pc = "balancer"
  /\ op.reg # {}
  /\ \E ok \in BOOLEAN :
       /\ Attempt("systemd", ok)
       /\ ok => ~balancer
       /\ static' \in IF ok THEN {FALSE} ELSE {static, FALSE}
  /\ Goto("startBalancer", op)
  /\ UNCHANGED <<podVars, annVars, hostVars, listenerVars, balancer>>

\* systemd-run refuses a unit that exists, and may report an error for one it
\* did start; the log directory may be refused as well.
StartBalancer ==
  /\ pc = "startBalancer"
  /\ \/ \E ok, started \in BOOLEAN :
          /\ IF balancer THEN ~ok /\ UNCHANGED budget ELSE Attempt("systemd", ok)
          /\ ok => started
          /\ balancer' = (balancer \/ started)
          /\ Return("apply", ok, ~ok)
     \/ /\ Attempt("host", FALSE)
        /\ Return("apply", FALSE, TRUE)
        /\ UNCHANGED balancer
  /\ UNCHANGED <<podVars, annVars, hostVars, listenerVars, static>>

EnsureBalancer == KeepBalancer \/ StopStatic \/ StartBalancer

Apply ==
  \/ ApplyAnnotateVictim \/ SyncMonitorCPUList \/ SendPrimary
  \/ ConfineRecord \/ ConfineNarrowPod \/ ConfineNarrowCtr \/ SendSecondary
  \/ RecordSecondaries \/ EnsureBalancer

-----------------------------------------------------------------------------
(***************************************************************************)
(* Restore and Reconcile.                                                  *)
(***************************************************************************)
AnnotatedVictims == {v \in Running(victimPod, Victims) : victimAnn[v].set}
\* Bug: every running aggressor is taken for a confined one.
AnnotatedAggsUnfiltered == Running(aggPod, Aggs)

AnnotatedAggs == {a \in Running(aggPod, Aggs) : aggAnn[a] # NoAnn}

\* Bug: no loop over the victims.
AfterAggWithoutVictims(o) ==
  IF o.todo # {} THEN Goto("unpin", o) ELSE Return("restore", FALSE, o.err)

\* The two last loops of Restore: the aggressors, then the victims.
AfterAgg(o) ==
  IF o.todo # {} THEN Goto("unpin", o)
  ELSE IF o.victims # {} THEN Goto("clearVictims", o)
  ELSE Return("restore", FALSE, o.err)

ListRecorded ==
  /\ \/ /\ AnnotatedVictims = {} /\ AnnotatedAggs = {}
        /\ Return("restore", FALSE, FALSE)
        /\ UNCHANGED budget
     \/ /\ AnnotatedVictims # {} \/ AnnotatedAggs # {}
        /\ Goto("stopBalancer",
                [NoOp EXCEPT !.kind = "restore", !.victims = AnnotatedVictims,
                             !.todo = AnnotatedAggs])
        /\ UNCHANGED budget
     \/ Attempt("api", FALSE) /\ Return("restore", FALSE, TRUE)
  /\ UNCHANGED <<podVars, annVars, primary, secondaries, unitVars>>

RestoreList == ListRecorded /\ UNCHANGED <<hostVars, monitor>>

CallRestore == pc = "idle" /\ RestoreList

\* Bug: a new process does not reconcile.
RestartWithoutReconcile ==
  /\ pc = "down"
  /\ Return("restore", FALSE, FALSE)
  /\ UNCHANGED <<podVars, annVars, hostVars, listenerVars, unitVars, budget>>

\* Reconcile: Restore with no target, before the first tick.
Restart == pc = "down" /\ RestoreList

\* Bug: the signal is sent, the exit not waited for.
StopBalancerWithoutWaiting ==
  /\ pc = "stopBalancer"
  /\ Goto("reset", op)
  /\ UNCHANGED <<podVars, annVars, hostVars, listenerVars, unitVars, budget>>

\* SIGUSR1, a grace period, then a hard stop whose result is ignored.
StopBalancer ==
  /\ pc = "stopBalancer"
  /\ \E ok \in BOOLEAN :
       /\ Attempt("systemd", ok)
       /\ balancer' = (balancer /\ ~ok)
  /\ Goto("reset", op)
  /\ UNCHANGED <<podVars, annVars, hostVars, listenerVars, static>>

\* Bug: Restore does not reset the Listener.
SendResetSkipped ==
  /\ pc = "reset"
  /\ Goto("online", op)
  /\ UNCHANGED <<podVars, annVars, hostVars, listenerVars, unitVars, budget>>

\* A failed Reset is kept as Restore's error; Restore goes on.
SendReset ==
  /\ pc = "reset"
  /\ \E ok, done \in BOOLEAN :
       /\ Attempt("listener", ok)
       /\ ok => done
       /\ primary' = IF done THEN NoTarget ELSE primary
       /\ secondaries' = IF done THEN {} ELSE secondaries
       /\ Goto("online", [op EXCEPT !.err = ~ok])
  /\ UNCHANGED <<podVars, annVars, hostVars, monitor, unitVars>>

ReadOnlineCPUs ==
  /\ pc = "online"
  /\ \/ AfterAgg(op) /\ UNCHANGED budget
     \/ Attempt("host", FALSE) /\ Return("restore", FALSE, TRUE)
  /\ UNCHANGED <<podVars, annVars, hostVars, listenerVars, unitVars>>

\* Bug: the threads are left as the Balancer pinned them.
RestoreAffinitySkipped ==
  /\ pc = "unpin"
  /\ \E a \in op.todo : Goto("widenPod", [op EXCEPT !.cur = a])
  /\ UNCHANGED <<podVars, annVars, hostVars, listenerVars, unitVars, budget>>

\* sched_setaffinity of every thread in the recorded cgroups.
RestoreAffinity ==
  /\ pc = "unpin"
  /\ \E a \in op.todo, ok \in BOOLEAN :
       /\ Attempt("cgroup", ok)
       /\ pinned' = IF ok THEN pinned \ {a} ELSE pinned
       /\ Goto("widenPod", [op EXCEPT !.cur = a, !.err = @ \/ ~ok])
  /\ UNCHANGED <<podVars, annVars, cpuset, listenerVars, unitVars>>

\* What Restore writes for a recorded "": the parent's effective set.
Wanted(saved, parent) == IF saved = {} THEN parent ELSE saved

\* Bug: a failed write is tried again until it succeeds.
RestoreWriteRetried(here, next, new) ==
  /\ pc = here
  /\ \E ok \in BOOLEAN :
       /\ WriteCpuset(op.cur, new, ok)
       /\ Goto(IF ok THEN next ELSE here, op)

\* A cgroup that is gone is skipped; any other failed write is an error.
RestoreWrite(here, next, new) ==
  /\ pc = here
  /\ \E ok \in BOOLEAN :
       /\ WriteCpuset(op.cur, new, ok)
       /\ Goto(next, [op EXCEPT !.err = @ \/ (~ok /\ aggPod[op.cur] = "running")])

\* Bug: the container's own cpuset is forgotten.
RestoreWidenPodOnly ==
  RestoreWrite("widenPod", "clearAgg",
    [cpuset[op.cur] EXCEPT !.pod = Wanted(aggAnn[op.cur].pod, Online)])

\* The annotation is read from the listed copy of the pod; only this actuator
\* writes it, and not between the list and here.
RestoreWidenPod ==
  RestoreWrite("widenPod", "widenCtr",
    [cpuset[op.cur] EXCEPT !.pod = Wanted(aggAnn[op.cur].pod, Online)])
RestoreWidenCtr ==
  RestoreWrite("widenCtr", "clearAgg",
    [cpuset[op.cur] EXCEPT !.ctr = Wanted(aggAnn[op.cur].ctr, EffPod(cpuset[op.cur]))])

\* The annotations go whatever the writes returned.
RestoreClearAgg ==
  /\ pc = "clearAgg"
  /\ \E ok \in BOOLEAN : AnnotateAgg(op.cur, NoAnn, ok)
  /\ AfterAgg([op EXCEPT !.todo = @ \ {op.cur}, !.cur = NoPod])

RestoreClearVictim ==
  /\ pc = "clearVictims"
  /\ \E v \in op.victims, ok \in BOOLEAN :
       /\ AnnotateVictim(v, [set |-> FALSE, secs |-> {}], ok)
       /\ AfterAgg([op EXCEPT !.victims = @ \ {v}])

Restore ==
  \/ StopBalancer \/ SendReset \/ ReadOnlineCPUs \/ RestoreAffinity
  \/ RestoreWidenPod \/ RestoreWidenCtr \/ RestoreClearAgg \/ RestoreClearVictim

-----------------------------------------------------------------------------
(***************************************************************************)
(* The surroundings: process crashes, pods that come and go, the Balancer. *)
(***************************************************************************)
Crash ==
  /\ pc # "down"
  /\ Attempt("crash", FALSE)
  /\ pc' = "down" /\ op' = NoOp /\ ret' = NoRet
  /\ UNCHANGED <<podVars, annVars, hostVars, listenerVars, unitVars>>

NextPhase(phase) == IF phase = "new" THEN "running" ELSE "gone"

VictimChurn ==
  /\ \E v \in Victims :
       /\ victimPod[v] = "new" \/ (victimPod[v] = "running" /\ "victims" \in Faults)
       /\ victimPod' = [victimPod EXCEPT ![v] = NextPhase(@)]
       /\ victimAnn' = [victimAnn EXCEPT ![v] = [set |-> FALSE, secs |-> {}]]
  /\ UNCHANGED <<aggPod, aggAnn, hostVars, listenerVars, unitVars, ctlVars, budget>>

AggChurn ==
  /\ \E a \in Aggs :
       /\ aggPod[a] = "new" \/ (aggPod[a] = "running" /\ "aggressors" \in Faults)
       /\ aggPod' = [aggPod EXCEPT ![a] = NextPhase(@)]
       /\ aggAnn' = [aggAnn EXCEPT ![a] = NoAnn]
       /\ cpuset' = [cpuset EXCEPT ![a] = Orig[a]]
       /\ pinned' = pinned \ {a}
  /\ UNCHANGED <<victimPod, victimAnn, listenerVars, unitVars, ctlVars, budget>>

\* A Balancer, ours or a hand-run one, narrows the affinity of a registered
\* Secondary.
Rebalance ==
  /\ balancer \/ static
  /\ primary # NoTarget
  /\ \E a \in secondaries :
       /\ aggPod[a] = "running" /\ a \notin pinned
       /\ pinned' = pinned \cup {a}
  /\ UNCHANGED <<podVars, annVars, cpuset, listenerVars, unitVars, ctlVars, budget>>

BalancerDies ==
  /\ balancer
  /\ Attempt("balancer", FALSE)
  /\ balancer' = FALSE
  /\ UNCHANGED <<podVars, annVars, hostVars, listenerVars, static, ctlVars>>

\* The Balancer's static unit is started or stopped by hand.
StaticByHand ==
  /\ "static" \in Faults
  /\ static' = ~static
  /\ UNCHANGED <<podVars, annVars, hostVars, listenerVars, balancer, ctlVars, budget>>

Environment ==
  Crash \/ VictimChurn \/ AggChurn \/ Rebalance \/ BalancerDies \/ StaticByHand

-----------------------------------------------------------------------------
Init ==
  /\ victimPod \in [Victims -> {"new", "running"}]
  /\ aggPod \in [Aggs -> {"new", "running"}]
  /\ victimAnn = [v \in Victims |-> [set |-> FALSE, secs |-> {}]]
  /\ aggAnn = [a \in Aggs |-> NoAnn]
  /\ cpuset = Orig
  /\ pinned = {}
  /\ monitor = NoTarget /\ primary = NoTarget /\ secondaries = {}
  /\ balancer = FALSE /\ static \in BOOLEAN
  /\ pc = "down" /\ op = NoOp /\ ret = NoRet
  /\ budget = MaxFaults

Next ==
  \/ \E t \in Targets : CallApply(t)
  \/ CallRestore
  \/ Apply \/ Restore \/ Restart \/ Environment

Spec == Init /\ [][Next]_vars

\* The process is restarted after a crash, and a call that started goes on: the
\* requests and commands it waits for return, with a result or an error.
Fairness == WF_vars(Restart) /\ WF_vars(Apply) /\ WF_vars(Restore)
FairSpec == Spec /\ Fairness
-----------------------------------------------------------------------------
(***************************************************************************)
(* Properties.                                                             *)
(***************************************************************************)
PodPhases == {"new", "running", "gone"}
ConfineLabels == {"confine", "narrowPod", "narrowCtr", "register"}
RestoreLabels == {"stopBalancer", "reset", "online", "unpin", "widenPod", "widenCtr",
                  "clearAgg"}
RegisteringLabels ==
  ConfineLabels \cup {"recordSecondaries", "balancer", "startBalancer"}
ApplyLabels == {"annotateVictims", "monitor", "primary"} \cup RegisteringLabels
Labels == {"down", "idle", "clearVictims"} \cup ApplyLabels \cup RestoreLabels
CurLabels == {"narrowPod", "narrowCtr", "register", "widenPod", "widenCtr", "clearAgg"}

OpType == [kind : {"none", "apply", "restore"}, target : Targets \cup {NoTarget},
           held : BOOLEAN, victims : SUBSET Victims, aggs : SUBSET Aggs,
           todo : (SUBSET Victims) \cup (SUBSET Aggs), reg : SUBSET Aggs,
           cur : Aggs \cup {NoPod}, added : BOOLEAN, err : BOOLEAN]
RetType == [kind : {"none", "apply", "restore"}, applied : BOOLEAN, err : BOOLEAN]

ClusterTypeOK ==
  /\ victimPod \in [Victims -> PodPhases] /\ aggPod \in [Aggs -> PodPhases]
  /\ victimAnn \in [Victims -> [set : BOOLEAN, secs : SUBSET Aggs]]
  /\ aggAnn \in [Aggs -> Cpusets \cup {NoAnn}]

HostTypeOK ==
  /\ cpuset \in [Aggs -> Cpusets] /\ pinned \subseteq Aggs
  /\ monitor \in Targets \cup {NoTarget} /\ primary \in Targets \cup {NoTarget}
  /\ secondaries \subseteq Aggs
  /\ balancer \in BOOLEAN /\ static \in BOOLEAN

\* The work list and the loop variable fit the control point that uses them.
CtlTypeOK ==
  /\ pc \in Labels /\ op \in OpType /\ ret \in RetType /\ budget \in 0..MaxFaults
  /\ pc \in {"annotateVictims", "recordSecondaries"} => op.todo \subseteq Victims
  /\ pc \in ConfineLabels \cup RestoreLabels => op.todo \subseteq Aggs
  /\ pc \in CurLabels => op.cur \in op.todo
  /\ pc \in ApplyLabels => op.target \in Targets
  /\ pc = "clearVictims" => op.todo = {}

\* A pod Restore has listed is still on record when Restore writes it back.
RestoreFindsRecord ==
  pc \in RestoreLabels =>
    \A a \in op.todo : /\ aggPod[a] # "new"
                       /\ aggPod[a] = "running" => aggAnn[a] # NoAnn

\* Every variable has its type, and what Restore writes back is a cpuset.
TypeOK == ClusterTypeOK /\ HostTypeOK /\ CtlTypeOK /\ RestoreFindsRecord

\* What the Listener and the Balancer hold is on record: as long as either has
\* state of ours, a running victim carries hc-set-by-node, so a Reconcile after
\* a crash at any step finds it ("annotate first", hc.go:285-296, 507-516).
HostStateRecorded ==
  (primary # NoTarget \/ secondaries # {} \/ balancer) => AnnotatedVictims # {}

HostStateEmpty == primary = NoTarget /\ secondaries = {} /\ ~balancer

\* Why HostStateRecorded holds: Apply has its victims annotated before the
\* Listener hears of them, and Restore has emptied the host's state before it
\* clears the first annotation.
HostStateInv ==
  /\ HostStateRecorded
  /\ pc \in ApplyLabels =>
       op.victims # {} /\ op.victims \subseteq Running(victimPod, Victims)
  /\ pc = "annotateVictims" => \A v \in op.victims \ op.todo : victimAnn[v].set
  /\ pc \in {"monitor", "primary"} => \A v \in op.victims : victimAnn[v].set
  /\ pc \in RegisteringLabels => AnnotatedVictims # {}
  /\ pc = "reset" => ~balancer
  /\ pc \in (RestoreLabels \ {"stopBalancer", "reset"}) \cup {"clearVictims"}
       => HostStateEmpty

Narrowed(a) == Effective(cpuset[a]) # Effective(Orig[a])

\* An aggressor whose cpuset gives it other CPUs than it had before the
\* mitigation carries its record: the record is written before the narrowing
\* (hc.go:22-26) and goes after the widening.
NarrowedRecorded ==
  \A a \in Running(aggPod, Aggs) : Narrowed(a) => aggAnn[a] # NoAnn

\* So does an aggressor whose threads the Balancer has narrowed: Restore only
\* un-pins the threads of the cgroups it finds on record (hc.go:450-481).
PinnedRecorded ==
  \A a \in Running(aggPod, Aggs) : a \in pinned => aggAnn[a] # NoAnn

\* The record is the ORIGINAL cpuset and never one the actuator wrote, over any
\* sequence of Apply, crash, Reconcile, Restore: whatever the stored values
\* are, the CPUs they give the pod are the ones it had.
RecordIsOriginal ==
  \A a \in AnnotatedAggs : /\ Effective(aggAnn[a]) = Effective(Orig[a])
                           /\ EffPod(aggAnn[a]) = EffPod(Orig[a])

\* The Balancer never lends cores without a victim to lend them from, and the
\* Monitor polls the cores of the Primary the Listener holds.
BalancerHasPrimary ==
  balancer => primary # NoTarget /\ monitor = primary

\* Nothing of the mitigation is left on the node.
Released ==
  /\ primary = NoTarget /\ secondaries = {} /\ ~balancer
  /\ AnnotatedVictims = {} /\ AnnotatedAggs = {}
  /\ \A a \in Running(aggPod, Aggs) : ~Narrowed(a) /\ a \notin pinned

\* A Restore or a Reconcile that reports success has released everything,
\* whatever steps of earlier calls were cut short.
RestoreReleases ==
  (pc = "idle" /\ ret.kind = "restore" /\ ~ret.err) => Released

\* The Listener is reset only once the Balancer has exited, since Reset zeroes
\* the control word the Balancer watches (hc.go:401-403).
ResetAfterBalancerExit ==
  [][secondaries' = {} /\ secondaries # {} => ~balancer]_secondaries

\* A crash leaves nothing behind for good: once restarted, Reconcile releases
\* the node.  Assumes the process is restarted and its calls go on.
CrashReleases == (pc = "down") ~> Released

\* hc-secondaries names only pods the Listener has (Apply skips the ones it
\* names), between calls: not a pod of an earlier hold, not one of a victim
\* that was replaced.  A Restore clears it on the victims that are set-by-node
\* only, so an Apply that fails before it writes the list breaks this
\* (HcLeftover): the Listener, the API and the host reads are taken to succeed.
RecordedAreRegistered ==
  pc = "idle" => \A v \in AnnotatedVictims : victimAnn[v].secs \subseteq secondaries

\* A call of Apply, Restore or Reconcile returns, or the process crashes,
\* whatever fails on the way and whichever pods go away under it.
CallReturns == (pc \notin {"idle", "down"}) ~> (pc \in {"idle", "down"})
=============================================================================
