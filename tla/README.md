# TLA+ models of the mitigation controller

The repository is a per-node Kubernetes DaemonSet that watches contention
scores of latency-critical victim pods and reacts: it scales or resizes the
victim, or takes CPU away from the pods beside it. Nearly all of its state is
outside the process: annotations on pods and deployments, cgroup files, the
shared memory of the HarvestContainers Listener, systemd units. The hard
questions are what is left out there when a call fails half-way, the process
crashes, or pods come and go, and whether the next call or the next process
finds it. That is what these modules model, check and prove.

## 1. Inventory

| Part | State | Operations | Talks to | What is hard |
|---|---|---|---|---|
| `main`, tick loop (`cmd/mitigation-controller/main.go`) | registry, per-target windows, `nodeByPod` | reconcile all, `tick`, `dispatch`, `restoreAll`, shutdown restore | everything below | one goroutine per target over shared actuators; SIGTERM; order of snapshot and lock |
| formula laws (`formula.go`) | `formulaState`: n, runs, lastCap, integral, armed, hcHeld | `formulaTick`, `syncN`, `isoAltTick`, `hcTick`, `checkArmed` | actuators, arm file | belief against reality, latches before the dispatch, hysteresis |
| hc actuator (`pkg/actuators/hc`) | mutex; outside: victim and aggressor annotations, cpusets, thread affinities, Listener segment, Balancer unit, `/proc/idlecpu` | `Apply`, `Restore`, `Reconcile` | API server, cgroups, Listener, systemd | crash between any two effects, partial failure, pods replaced while held |
| isolate, harvest (`pkg/actuators/isolate`, `harvest`) | outside: `cpu.max`, an annotation each | `Apply`, `Restore`, `Reconcile` | API server, cgroups | no lock; record before write; repair after a crash |
| horizontal (`pkg/actuators/horizontal`) | outside: `/scale`, two annotations | `Apply`, `Restore` | API server | several nodes, read then patch, cooldown stamped last |
| vertical (`pkg/actuators/vertical`) | outside: resources, one annotation | `Apply`, `Restore` | API server | cleared with an empty string, not removed |
| cgroup resolver and writers (`pkg/cgroup`) | none | find a container's directory, read and write `cpu.max`, `cpuset.cpus` | kernel | parent and child levels |
| score pool (`pkg/scoreclient`) | streams, last event and its time | `Add`, `Remove`, `Latest`, receive loop | gRPC | reconnects, two stores per event, stale scores |
| pod watch, discovery loop (`pkg/podwatch`, `main.go`) | channel of 64, windows, pool keys | add, update, delete | informer | order of events against ticks |
| window (`pkg/features/window.go`) | ring, next, full, last sample id | `Push`, `Snapshot`, `Reset` | tick | wrap, reset, repeated samples |
| policy engine, watcher (`pkg/policy`) | rules, cooldowns, debounce timer | `Evaluate`, `Reload`, `Watch` | ConfigMap file | cooldown stamped on match, overlapping reloads |
| thresholder, control laws, aggregator | counters, times | `Observe`, step functions | none: the binary does not call them | hold and cooldown |
| feature vector, CEL, targets, offline mode, simulation, harness | none of their own | | | |

Correctness, part by part: an actuator records what it changes before it
changes it, records the *original* and not its own earlier value, and after a
`Restore` or `Reconcile` that reports success nothing is left; the tick's belief
agrees with the node; the node is acted on when the score says so and released
when the score says so; a deployment is scaled by one step per decision; a
window holds the last N samples of the pod's current incarnation without
immediate repeats; a
rule fires once per cooldown and the newest valid policy is the one in force.
`PROJECT.json` lists the hazards line by line with the properties that guard
them; where the code does not keep what one would want, or no property guards it,
a note says so.

## 2. Plan

The modules, in order of importance. `A < B` says that B extends A.

1. `HcActuator` < `HcTick`: the most state, the most ways to fail. Proofs in
   `HcActuatorProofs` and `HcRecordProofs`. **Done.**
2. `CpuMax` < `IsolationTick`: isolate and harvest, and Eq. (2) above them.
   Proofs in `CpuMaxProofs` and `IsolationTickProofs`. **Done.**
3. `HorizontalScale` < `HorizontalTick`: the horizontal actuator on two nodes,
   Eq. (1) with `syncN`. Proofs in `HorizontalProofs`. **Done.**
4. `RecentSamples`; `ScoreWindow` < `ScorePath`: the ring buffer as an
   implementation of a bounded queue, and all that is between the informer and
   the window. Proofs in `ScoreWindowProofs` and `ScorePathProofs`. **Done.**
5. `VerticalResize` < `PolicyLoop`: the vertical actuator under the policy
   file, its watcher and the engine. Proofs in `PolicyLoopProofs`. **Done.**

Every safety and action property that a run checks is stated by a theorem. Left
for later: an abstract specification besides `RecentSamples`, `HcHold`, a switch
that is free, engaged or released, which `HcTick` implements when no call fails;
a composition in which a slow `Dispatch` of one target holds back the other
actuators of its tick.

## 3. Modules

### HcActuator

One node, the Listener, the Balancer and the pods. The actuator's mutex makes
it one sequential process, so its program counter `pc` and locals `op` are
variables of the model and every action is one external effect in code order:

| Code (`hc.go`) | Actions |
|---|---|
| `Apply` 218-283, reads | `CallApply` |
| 284-311, first hold | `ApplyAnnotateVictim`, `SyncMonitorCPUList`, `SendPrimary` |
| 316-336, `confine` 552-608 | `ConfineRecord`, `ConfineNarrowPod`, `ConfineNarrowCtr`, `SendSecondary` |
| 338-351 | `RecordSecondaries` |
| 353-398, the two Balancer units | `EnsureBalancer`: `KeepBalancer`, or `StopStatic` and then `StartBalancer` |
| `Restore` 406, `Reconcile` 521 | `CallRestore`, `Restart` |
| `restoreLocked` 433-518 | `StopBalancer`, `SendReset`, `ReadOnlineCPUs`, `RestoreAffinity`, `RestoreWidenPod`, `RestoreWidenCtr`, `RestoreClearAgg`, `RestoreClearVictim` |
| surroundings | `Crash`, `VictimChurn`, `AggChurn`, `Rebalance`, `BalancerDies`, `StaticByHand` |

Every call may fail when its class is in the constant `Faults`; an API patch, a
Listener message or a `systemd-run` that fails may have taken effect all the
same. `MaxFaults` bounds the faults of a behaviour. Pods pass through "new",
"running", "gone": they may appear at any time, go away where `Faults` says so,
and a replaced pod is a new pod with a fresh cgroup. Cpusets are
sets of CPUs at two levels, and `Clip` is cgroup v2's rule for the effective
set. The Listener handles a message at once; what a message contains besides
its target and UIDs is left out. The static Balancer unit may be started by
hand at any time (class "static"); a `systemctl is-active` that fails reports a
unit as inactive, and what `systemctl stop` returns is ignored.

### HcTick

Extends `HcActuator` by `hcTick` and the shutdown path of `main`. `Tick` is one
run of `isoAltTick`: it draws a level of e_iso (over thetaOn, between, under
thetaOff), counts the two runs, closes the arm latch and dispatches at most one
call; `HandleResult` is the code after the call. `Shutdown` is SIGTERM, at any
step: the context of the call in flight is cancelled, so that it sends no further patch,
message or command, but finishes its writes to cgroups, affinities and the
Monitor (`CancelledCall`); then `main` restores under a context of its own. The
record of whether a call has failed, `unsure`, is history. `hc.reapply` is a
nondeterministic choice in every held tick (`TickReapply`). A crash forgets
`formulaState`. A run longer than its threshold is not told apart from it.

### CpuMax

isolate and harvest over the same pods' `cpu.max`. They have no lock, so there
is one process per target's goroutine and `Main`, which reconciles before the
first tick (`Restart`). `ReadPod`, `Annotate` and `Write` are the loop of both
`Apply`s; `List`, `Undo` and `Clear` of both `Restore`s and of harvest's
`Reconcile`; `Repair` is isolate's `Reconcile`. The annotations a call acts on
are the ones it listed at its start (`seen`). Quotas are integers in units of a
fixed period, with the code's clamps and rounding.

### HorizontalScale and HorizontalTick

Several nodes' controllers and one Deployment. `HorizontalScale` has one action
per request of `Apply` and `Restore`:

| Code (`horizontal.go`) | Actions |
|---|---|
| `Apply` 99-156: count, gate, target | `GetScale`, `CheckCooldown` |
| `ensureBaseline` 303-314 | `GetBaseline`, `AnnotateBaseline` |
| 164-187: patch, conflict, retry | `PatchScale`, `Refetch`, `PatchScale` |
| 189-202 | `StampLastScaledAt` |
| `Restore` 205-244 | `RestoreGet`, `RestoreGetScale`, `RestorePatch`, `RestoreClear` |

A resourceVersion only decides whether a patch conflicts, so a call keeps
`fresh`: has nobody written the Deployment since the call read its version? The
call's own baseline annotation is such a write, which is why the first scaling
of a Deployment always goes through the retry. `CooldownEnds` lets the time of
the stamp pass. Any request may fail, and a failed patch may have been applied.

`HorizontalTick` adds the callers. In formula mode each node runs Eq. (1) on a
level of its scores, with the persistence runs, its counter `n` and `syncN`,
which a tick may or may not be due for; in rules mode a rule asks for a floor or
a step, or restores. The mode is read once, so it is chosen in `TickInit`. The
variables `lately` and `overlap` are history only: properties read them, no
action does.

### IsolationTick

Extends `CpuMax` by what calls it. In rules mode any call may come at any time
(`RulesCall`); in formula mode `LawTick` is one run of Eq. (2): it draws an
error, integrates it unless the cap would be at a rail (`Integrated`), rounds
the clamped cap to a quantum, and calls isolate when the cap has left the
hysteresis band around the one in force (`Moves`). `lastCap` is latched in the
same step, before the call has done anything. `NewVictim` replaces the victim
pod, whose entry in `lastCap` is keyed by its name. The arm latch is `armed`.
Caps and errors are integers in a unit in which K_P and K_I times a tick are
integers as well; the floating-point error of the code's additions is not
modelled. `asked` is history: the cap before it was rounded to the last
dispatched one. `beat` flips on every tick, so that a tick that changes nothing
is still a step and weak fairness of the ticker means what it says.

### RecentSamples and ScoreWindow

`ScoreWindow` is `features.Window`, slot by slot: `Pushed`, `Snapshot`, `Cleared`
and the `full`, `next` and last-id fields they keep. `RecentSamples` is what a
reader is promised, a queue of the newest `Cap` samples in which a sample that
comes again right after itself appears once. The refinement mapping is
`Snapshot`.

### ScorePath

One pod name, from the cluster to its window. Four processes share the pool,
the window and the two atomics of a stream:

| Code | Actions |
|---|---|
| kubelet, probes, a new pod of the same name | `Created`, `Ready`, `Unready`, `Deleted` |
| informer (`podwatch.go` 116-173) | `WatchBreaks`, `Relist`, and `Changed` in each of the above |
| `discoveryLoop` (`main.go` 356-395): pool, then window | `DiscoverPod`, `DiscoverWindow` |
| `stream.run` (`scoreclient.go` 159-207) | `Connect`, `Break`, `StoreEvent`, `StoreTime` |
| `Pool.Latest` (113-147), `tick` (`main.go` 407-432) | `LoadEvent`, `LoadTime`, `PushScore` |

`Latest` holds the pool's lock from the first load to the last, so discovery
waits for it (`tick.pc # "load"`); the push comes after it, under another lock,
and may find the window reset. A watch that breaks misses changes; the informer
then lists again and one event tells the difference, as client-go's does. A
window the code drops and makes again later is an empty one here. `Ages` is the
passing of STALE_MS. The module extends `ScoreWindow`, and each of its steps is a
`Push`, a `Reset` or leaves the window alone.

### VerticalResize and PolicyLoop

`VerticalResize` has one action per request of `Apply` (`ApplyGet`,
`AnnotateBaseline`, `PatchResize`) and `Restore` (`RestoreGet`, `RestoreResize`,
`RestoreClear`). The annotation is absent (`NoAnn`), the empty string (`Empty`),
which is how `Restore` clears it, or a limit.

`PolicyLoop` puts around it the policy file (`Edit`), the watcher's loop
(`Subscribe`, `Schedule`), the debounce timer's goroutine (`Fire` reads the file,
`Reload` compiles the document and installs it), the engine (`Evaluate`) and the
tick (`Tick`, `Dispatch`). A rule's condition is the set of score levels at which
it holds; time is counted in ticks (`Pass`). `left` is what is left of a rule's
cooldown: a rule has the same cooldown in every document, where the code
compares the stamp with the cooldown in force. A reload may outlast the debounce,
so that several are on their way at once and are installed in any order. `since`,
`unseen` and `overtook` are history.

Definitions under a comment "Bug:" are no part of a specification. They are
plausible mistakes in the definition that follows them; each checked property
is known to fail when one of them takes its place.

## 4. Runs

| Run | Asks | Bounds |
|---|---|---|
| `hc_crash` | Is all that the mitigation changed on record, in order, and released by any Restore or Reconcile that reports success? Are the Secondaries on record the Listener's? | 2 victims, 2 aggressors (one in a pod pool, one inheriting), 2 crashes, deaths of the Balancer or hand starts of the static unit, aggressors come and go |
| `hc_faults` | Which of that survives failing patches, writes and host reads? Does every call return? | 2 victims, 2 aggressors, 1 fault: crash, patch, cgroup write, host read, the Balancer's death or a hand start of the static unit |
| `hc_tick` | Is the tick's belief right, or at least on record after an error; is the node released when e_iso is low and at exit? | 1 victim, 2 aggressors, thresholds 2, 1 crash or failing host call, SIGTERM at any step |
| `hc_tick_retry` | Does the re-apply register and start what a failing Listener, cgroup or systemd call, a replaced victim or a late aggressor left out? | 2 victims, 1 aggressor, thresholds 2 and 1, 1 fault |
| `cpu_max` | Quotas: recorded before written, original on record, undone by Restore, completed by Reconcile. Eq. (2): no wind-up, no flapping, the cap settles, and a call in which no step failed sets it on every aggressor | 1 target, 2 aggressors, 2 best-effort pods (bounded and unbounded), 3 faults of 3 classes; both modes; three errors, cap 4 to 40 in quanta of 8, hysteresis 6 |
| `horizontal` | While no request failed: baseline on record is the original, unless a Restore overlapped a call; a node keeps the cooldown across conflicts. In any case: `ensure_min` never lowers; `syncN` repairs the counter | 2 nodes, both modes, floors 2 and 3 and a step, N_MAX 1, 3 replicas, thresholds 2 and 1, 1 failed request or crash |
| `score_path` | Does the pool follow the pod, whatever the watch missed? Is the window free of an earlier process's samples, is it the bounded queue, do scores go on arriving? | 1 pod name, 2 addresses, 2 runs of its process, 2 events in flight, 2 ids (one of them "no id"), capacity 2, 1 broken stream or watch |
| `rules` | Does the newest valid policy come into force, unless its reload overtook another? Does a rule fire once per cooldown across reloads, and is a failed resize asked for again? Is the pod's own limit on record, while recording it does not fail? | 2 valid documents, 1 that does not compile, 1 not accepted, 2 edits, cooldowns 2 and 1, 1 failed get, resize or clear, or crash |
| `hc_stuck`, `horizontal_cooldown`, `isolation_forgotten`, `vertical_restore` | Findings, below | smallest instance |

`hc_tick` has a single fault because with two the belief does not hold of the
code: a crash in `confine` leaves an aggressor narrowed and not yet in
`hc-secondaries`, the next process cannot read the online CPUs and its failed
Reconcile is only logged, and the `Apply` after it confines that aggressor again
and records the narrowed cpuset as the original. One fault of either kind, and
SIGTERM, it does survive. `LowReleases` and the last part of `BeliefIsTruth`
speak of a controller no call of which has failed since the last Restore or
Reconcile that succeeded (`~unsure`); what a failed one leaves is `hc_stuck`.

Two faults are the shortest way to a crash inside the repair of a crash; two
aggressors the fewest with a loop interrupted between them; a second victim pod
the fewest in which one is replaced. Thresholds of 2 tell "the run is reset"
from "the run goes on". Three CPUs give the victim, the aggressors and the rest
one each, and pools `{1,2}` and "inherit" are the two shapes of an original.
Two nodes and three replicas hold every order of two scalings with a conflict;
N_MAX 1 lets the Deployment run ahead of what a counter may be. The lower rail
of the cap is off the grid of quanta and the upper one on it, and the errors 1,
-2 and 4 move the cap by 3, 6 and 12 at once: less than the hysteresis of 6,
exactly it, and more. A window of two
wraps with every third sample and tells the oldest slot from the newest; two
runs of a process are the fewest in which samples can blend; two events in
flight let discovery be a whole incarnation behind. Two edits and a debounce
hold a change that comes while the one before it is being installed; a cooldown
of 2 tells "elapsed" from "elapsing".

`PolicyLoop` and `ScorePath` check no deadlock: the first rests when the process
is down and the file is not valid, and when nothing matches any more; the
second when the last process of the pod is gone.

### Findings

- `hc_stuck`: an `Apply` that fails after its first effect leaves `hcHeld` false,
  and only `hcHeld` leads to a `Restore`.
- `horizontal_cooldown`: two nodes pass the cooldown gate before either stamps
  the Deployment, which is then scaled twice within one cooldown.
- `isolation_forgotten`: a victim pod replaced, or a process restarted, while
  aggressors are throttled has no entry in `lastCap`; Eq. (2) then takes the base
  cap for the one in force, and as long as it asks for the base cap it never
  dispatches anything.
- `vertical_restore`: `Restore` empties the baseline annotation and `Apply`
  records one only when the key is absent, so from the second mitigation on
  nothing is recorded and `Restore` reports success with the pod resized.

Six configurations that are not among the runs reproduce further
disagreements with the source's comments, or show that a theorem's assumption
is needed:

- `HcNarrowedAgain.cfg` (`MCHcActuator`): a victim pod replaced while HC is held
  carries no annotations, so the next `Apply` confines every aggressor again and
  records the cpuset it narrowed itself as the original.
- `HcResetLost.cfg` (`MCHcActuator`): a `Restore` whose Reset fails goes on to
  clear the annotations; no later call resets the Listener.
- `CpuMaxRace.cfg` (`MCCpuMax`): two targets throttle one aggressor at the same
  time; the second records the first one's throttle as the original.
- `HcLeftover.cfg` (`MCHcActuator`): `Apply` writes `hc-secondaries` on every victim
  it lists (`hc.go:344-347`), `Restore` clears it only on those that are
  set-by-node (409-411, 507-516). After an `Apply` that failed at the Primary the
  next one is held and goes by the list an earlier hold left on the second
  victim, so it skips aggressors the Listener does not have.
- `PolicyOvertaken.cfg` (`MCPolicyLoop`): a reload that takes longer than the
  debounce and overlaps the next one installs its older document last
  (`NewestInForce`); `timer.Stop` (`loader.go:53`) does not wait for a reload that
  has begun.
- `HorizontalHighFloor.cfg` (`MCHorizontalTick`): an `ensure_min` above its own
  `max_replicas` is cut to it after the floor was taken, and so lowers a Deployment
  that another rule has scaled further, where `horizontal.go:70` calls
  `max_replicas` an upper clamp for `delta`.

Smaller observations. After an `Apply` that failed at the Primary, the
annotations say held, so a later `Apply` never sends the Primary again. A failed
cgroup write in hc's `Restore` is followed by the clearing of its annotation. An
aggressor whose annotation patch failed is still registered, and `Restore` will
not un-pin its threads. The static Balancer unit is looked for only before ours
is started, and a failed stop is ignored (`hc.go:355-360`): nothing keeps a
unit started by hand later from racing ours, so no property says so.
isolate's `Reconcile` cannot complete a lost write for a pod that was unbounded,
and fraction mode never writes an annotated pod again. isolate's
`Apply` reports an error only when it has written no aggressor
(`isolate.go:202-204`), so a call that wrote one and failed on another reports
success; and as `lastCap` is latched before the dispatch, the cap whose write
failed is not sent again until the law moves by the hysteresis.

A horizontal `Restore` clears the baseline with no precondition, so a scaling by
another node between its patch and the clearing is left without a record;
`BaselineIsOriginal` therefore excludes behaviours in which a Restore overlapped
another node's call. The retry of a `delta` re-sends the target computed from
the older count. A step of Eq. (1) that the gate refused still moves `n`, so
until `syncN` runs, `n` may be below the true count and the next step out goes
past N_MAX.

A tick that loaded a score before discovery reset the window pushes it after
the reset: one sample of the earlier process is the oldest in the new window
(`AtMostOneStale` allows exactly this one), and for a deleted pod the push makes
its window anew, which nothing deletes. A change that the informer's watch missed
may cause no reset at all. A score can be called healthy with an older event,
because the event and its time are two atomics. The back-off of a stream is
never reset after a success.

Cooldowns are lost in a crash. An edit between `NewEngine`'s load and the
watcher's subscription is not seen until the next one (`unseen`). The vertical
`Apply` resizes even when recording the baseline failed, and a later `Apply` then
records the resized limit; the run and the theorem therefore leave the class
"annotate" out.

A stamp of the cooldown that fails is only logged (`horizontal.go:189-193`), so the
next gate is open; `ScalesOncePerCooldown` is silent once a request has failed.


## 5. Fairness

`FairSpec` assumes that the process is restarted after a crash (the DaemonSet)
and that a call that has started goes on. The second is an assumption about what
the code calls: only Listener messages have a timeout of their own; the
contexts given to the API client and to `systemctl` have no deadline before
SIGTERM, so the API server and systemd must answer, with a result or an error. `TickFairSpec` adds that the ticker fires while a victim
runs (without scores there is no tick: `main.go:435`), and strong fairness of
the re-apply, because `hc.reapply` passes again and again while HC is held. In
`HorizontalTick` a request is answered, and a tick for which `syncN`
is due comes again once the node is between calls (`syncN` is due every 5 s, the
ticker runs at 100 ms). `IsoFairness` is the ticker, calls that go on, and the
restart. `LoopFairness` is weak: the watcher's loop, the timer's goroutine, the
tick and the clock go on, and an exited process is started again.

`PathFairness` needs strong fairness twice. Discovery takes an event only while
no tick holds the pool's lock, and ticks take it again and again; a writer that
waits for a Go `RWMutex` keeps new readers out, so discovery gets its turn. And
a score is fresh for STALE_MS after each event, which is longer than a tick, so
loads fall again and again into the time a score is fresh. A stream whose
connection dies in silence is not covered: `runOnce` sets no keepalive, so only
a connection that is seen to break is made anew.

No fairness is assumed of faults, pod churn, the level of the scores, the arm
file, the Balancer, edits of the file or writes from outside.

## 6. Proofs

A theorem's assumptions on the faults are classes left out of `Faults`: the
theorem is about behaviours in which calls of that class succeed, with no bound
on the others. Where an assumption is marked "needed", a configuration above
violates the property without it.

`HcActuatorProofs` proves, for any number of targets, pods, CPUs and faults:

- `TypeCorrect`: `Spec => []TypeOK`. The type invariant is inductive with
  `RestoreFindsRecord`, which says that a pod Restore has listed is still on
  record when it is written back; without it what `Restore` writes would have
  no type. One lemma per group of actions.
- `HostStateInvariant` and `HostStateIsRecorded`: `[]HostStateInv` and
  `[]HostStateRecorded` under `HostCallsSucceed` (no fault of the Listener or of
  systemd, and no victim is deleted; new ones may appear). `HostStateRecorded`
  alone is not inductive: that `SendPrimary` keeps it needs that `Apply` has
  annotated its victims by then, and that clearing an annotation keeps it needs
  that `Restore` has emptied the host's state by then. `HostStateInv` adds these
  facts by control point. The assumption is needed (`HcResetLost.cfg`).
- `ResetIsAfterExit`: the Listener is reset only once the Balancer has exited,
  when systemd does not fail; from the same control-point fact.

`HcRecordProofs` has four parts. The first is under `CallsSucceed` (only the
process and the Balancer die and aggressors come and go) and `OneTarget`:

- `NarrowedIsRecorded`, `PinnedIsRecorded`, `RecordStaysOriginal`,
  `BalancerKeepsPrimary` and `RestoreReleasesNode`, all from `RecordInv`. It has
  three parts: an aggressor that is not on record was not touched, records are
  originals and all the Balancer may narrow is on record (`RecordsOK`); what
  `Apply`, `Restore` and an ended call have done by each control point
  (`CallOK`); and a running Balancer has a Primary. The properties need one
  another: that the record is original rests on `Apply` confining only pods not
  on record, and these being untouched on `Restore` having undone all before it
  clears. That calls succeed is needed (`HcNarrowedAgain.cfg`, where a victim is
  replaced; and see the observations above on failed writes).
- `RecordedStayRegistered`, under `MessagesSucceed` only (no fault of the API, the
  Listener or a host read; any targets, victims and aggressors that come and
  go): `RegisteredInv` ties `hc-secondaries` to the Listener's set through the
  control points of both calls. Needed: `HcLeftover.cfg`.
- `OrderlyExitReleases` (`StopOK`: once the process is stopping, its only call is
  the Restore; `CancelledKeeps`: a call cancelled at any step leaves the records as
  `RecordInv` needs them) and `BeliefStaysTrue` (`BeliefInv`: what the result under
  way says of the node, and that the node is up exactly while `hcHeld`), under the
  first part's assumptions; for the belief the Balancer must not die either, which
  `hcTick` does not look at until its next re-apply. What `BeliefIsTruth` says
  after an error is only model-checked.

`HorizontalProofs` proves, for any nodes, calls, faults and Restores (what one
request does to the Deployment and to the call is stated once, as `Moved` and
`Ended`, and every invariant is shown from that):

- `BaselineStaysOriginal`: `BaselineInv` says what a call has read at each request:
  one that read no baseline has the manifest's count, one about to patch leaves
  a baseline on record. It speaks of behaviours in which nothing failed and no
  Restore overlapped another call, as the property does.
- `EnsureMinIsMonotone`: `FloorInv` says that while a call's resource version still
  counts, the Deployment has no more replicas than an `ensure_min` asks for; once
  it does not, the patch conflicts and `Refetch` reads again. `FloorsFit`, that no
  policy asks for a floor above its `max_replicas` (by default 2^30), is needed:
  `HorizontalHighFloor.cfg`.
- `NodeScalesOncePerCooldown`: `CooldownInv` says that a node that scaled lately has
  stamped the Deployment or is about to, and has no call beyond the gate.

`ScoreWindowProofs` proves, for any capacity and any samples:

- `WindowImplementsRecent`: `WindowSpec => ImplementsRecent`. A stored sample is
  appended to the snapshot below a full ring (`PushAppends`) and takes the oldest
  one's place in a full ring (`PushReplaces`, with the arithmetic of the wrap in
  `SlotModulo`). `SameRepeats` shows that the ring's last-id field tells a repeat
  exactly when the queue's newest sample does; it needs `LastIsNewest`.
- `WindowTyped` and `LastStaysNewest`: `WindowTypeOK` and `LastIsNewest`, inductive
  together.

`CpuMaxProofs` proves, for any pods, selectors, quotas, demands, faults and both
modes, with one target (`OneTarget`) and selectors with no pod in common
(`ScopesDisjoint`):

- `QuotasAreOnRecord` and `QuotaRecordsAreOriginal`: `[]WrittenIsRecorded` and
  `[]RecordIsOriginal`. Neither is inductive. `QuotaInv` adds what a call knows: the annotations it
  listed are still those of the pods it has left (`LoopInv`); at "annotate" the
  quota it is about to record is the pod's own, at "write" there is a record, at
  "clear" the pod has its quota back (`PointInv`); and no two calls are under way
  (`OneCall`). Both assumptions are needed: `CpuMaxRace.cfg` violates
  `RecordIsOriginal` with two targets, and two selectors that match one pod do
  so without a race.
- `QuotasAreReleased` and `ReconcileIsComplete`: `[]RestoreReleases` and
  `ReconcileCompletes`. `ReleaseInv` says of a Restore or a Reconcile without an
  error so far that every pod is as its end promises or still to come to (`Left`).
  The second assumes `QuotasThrottle`, that every aggressor with a quota has more
  than `min_quota_us`: one that has just that is throttled to what it had, and
  `Reconciled` could not hold of it.
- `CapReachesAggressors`: `[]CapIsWritten`: a call in which no step failed has set
  every aggressor's share, one that reports no error at least one. `CapInv` says of the call under way that
  it is for the cap in force and that every aggressor has its share or is still
  to come to; it needs that a pod without a wanted write already has the share
  (`ReadWrites`), the case a throttle that skips annotated pods gets wrong.

`IsolationTickProofs` proves, for any gains, rails, quanta, hysteresis and errors:

- `IntegralIsBounded`: `IsoSpec => []IntegralBounded`. The conditional integration
  alone keeps the integral's share of the cap within the rails' distance; the
  proof is the arithmetic of one step.
- `CapsDoNotFlap`: `IsoSpec => NoFlap`. Inductive with `LawInv`, which says how
  far rounding took the cap in force from the one that was asked for.

`PolicyLoopProofs` proves:

- `RulesFireOncePerCooldown`: `LoopSpec => FiresOncePerCooldown`, for any
  documents, rules and edits, from `left + since = Cooldown`.
- `BaselineStaysOriginal`: `LoopSpec => []BaselineIsOriginal` when the class
  "annotate" is not in `Faults` (`AnnotationsSucceed`), for any other faults; the
  invariant says by control point what the call is about to write.

`ScorePathProofs` proves:

- `PathImplementsRecent`, `PathWindowTyped` and `PathLastIsNewest`: every step of `ScorePath` is a
  `Push`, a `Reset` or leaves the window alone, so the theorems about
  `ScoreWindow` hold of it as well, for all the processes together.
- `StreamFollows`: `PathSpec => []StreamFollowsPod`, for any number of pods of the
  name, addresses and broken watches. The address discovery was told last,
  the stream's own once all events are handled (`Told`), is the pod's while the
  watch is up (`FollowInv`).
- `RunsDoNotBlend`: `PathSpec => []AtMostOneStale`. `BlendInv` speaks of the time
  between the reset a change asks for and the next such change (`~Pending`): the
  process is the same one, the stream was made after the reset and delivers its
  samples only, and a tick that still holds an older one has an empty window
  before it. `NoStreamLeft`, from `FollowInv`, covers the pod that is not ready.

Only model-checked: liveness (`CrashReleases`, `CallReturns`, `LowReleases`,
`HighRegistersAll`, `HighKeepsBalancer`, `CounterConverges`, `CapSettles`,
`PolicyConverges`, `DemandIsMet`, `ScoresArrive`), which rests on fairness and is
out of the prover's reach; and what the theorems' assumptions leave out: the
records of hc and hcTick's properties when calls fail, as far as `hc_faults` and
`hc_tick_retry` check them. The findings are shown by TLC on one instance each.
No module declares a RECURSIVE operator.

## 7. Not modelled

The thresholder, the control laws and the score aggregator, which the binary does
not call; the feature vector (floating-point statistics over one window, whose
outputs the models draw from small sets); CEL compilation; targets and
configuration, read once at start and constants here; the offline mode, the
score replay, the simulations and the experiment harness, except for the arm
file.

Of the modelled parts: the formats of CPU lists, Listener messages and manifests;
the search for a container's cgroup directory and for the Deployment of a
selector; container restarts under a running pod, other than as new runs of its
process in `ScorePath`; pods without a cgroup; the length of a stream's back-off;
fsnotify's errors; cooldowns that a new document changes; floating-point rounding
in the laws; targets with several victim pods in formula mode.
