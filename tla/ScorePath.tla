----------------------------- MODULE ScorePath -----------------------------
(***************************************************************************)
(* How the scores of one pod name reach its feature window: the informer,  *)
(* the discovery loop, the pool's stream and the tick of one target.       *)
(*                                                                         *)
(* Four processes share the pool (its lock p.mu), the window (c.mu) and    *)
(* the two atomics of a stream: the informer fills `events`, discovery     *)
(* takes them one by one and updates first the pool, then the window; the  *)
(* stream's goroutine stores each event and then its time; a tick loads    *)
(* both and then pushes.  A window is made when it is first needed, so one *)
(* that the controller has not yet is a new one here.  A sample is         *)
(* <<session, id>>, where a session is one run of the pod's process.       *)
(*                                                                         *)
(* A definition under a comment that begins "Bug:" is no part of the       *)
(* specification: it is a plausible mistake in the definition after it,    *)
(* which a checked property must catch.                                    *)
(***************************************************************************)
EXTENDS ScoreWindow, FiniteSets

CONSTANTS
  Ids,                     \* sample ids, compared for equality only
  MaxAddrs,                \* bound: IP addresses a pod of this name is given
  MaxSessions, MaxEvents,  \* bounds: runs of the process, changes in flight
  MaxFaults                \* bound: broken streams and watches

ASSUME PathAssumption ==
  /\ MaxAddrs \in Nat \ {0} /\ Ids \subseteq Nat /\ Ids # {}
  /\ MaxSessions \in Nat /\ MaxEvents \in Nat \ {0} /\ MaxFaults \in Nat
  /\ Samples = (1 .. MaxSessions) \X Ids
  /\ \A s \in Samples : IdOf[s] = s[2]

VARIABLES
  pod,       \* the pod as the API server has it, and its process
  watching,  \* the informer's watch is up
  cached,    \* the informer's cache has the pod
  events,    \* changes on their way to discovery, oldest first
  disc,      \* what became of a pod whose window is still to be reset
  stream,    \* the pool's stream for the pod, or NoStream
  tick,      \* the tick's locals
  budget,    \* faults still allowed
  missed     \* history: a change the watch missed may have left the window as it was

podVars == <<pod, watching, cached>>
pathVars == <<window, podVars, events, disc, stream, tick, budget, missed>>

NoAddr == 0
NoStream == [addr |-> NoAddr, session |-> 0, evt |-> NoSample, fresh |-> FALSE, storing |-> FALSE]
Quiet == events = <<>> /\ disc = "none" /\ watching
Between == [pc |-> "idle", evt |-> NoSample]

-----------------------------------------------------------------------------
(***************************************************************************)
(* The cluster and the informer.                                           *)
(***************************************************************************)
\* What the informer tells of a pod: its address counts while it is ready.
Event(p) == [state |-> p.state, addr |-> IF p.state = "ready" THEN p.addr ELSE NoAddr]

\* A change of the pod is an event, or is missed while the watch is down.
Changed(new) ==
  /\ Len(events) < MaxEvents
  /\ pod' = new
  /\ IF watching
     THEN /\ events' = Append(events, Event(new))
          /\ cached' = (new.state # "gone")
          /\ UNCHANGED missed
     ELSE missed' = TRUE /\ UNCHANGED <<events, cached>>
  /\ UNCHANGED <<window, watching, disc, stream, tick, budget>>

\* A pod of this name is given the address of the one before it, or another.
Created ==
  /\ pod.state = "gone" /\ pod.session < MaxSessions
  /\ \E addr \in {pod.addr, pod.addr + 1} \cap 1 .. MaxAddrs :
       Changed([state |-> "unready", addr |-> addr, session |-> pod.session + 1])

Ready == pod.state = "unready" /\ Changed([pod EXCEPT !.state = "ready"])

\* A failing probe leaves the process running, a crash starts it again.
Unready ==
  /\ pod.state = "ready"
  /\ \E session \in {pod.session, pod.session + 1} \cap 1 .. MaxSessions :
       Changed([pod EXCEPT !.state = "unready", !.session = session])

Deleted ==
  /\ pod.state # "gone"
  /\ Changed([pod EXCEPT !.state = "gone"])

WatchBreaks ==
  /\ watching /\ budget > 0
  /\ watching' = FALSE /\ budget' = budget - 1
  /\ UNCHANGED <<window, pod, cached, events, disc, stream, tick, missed>>

\* The informer lists again: one event tells the difference.
Relist ==
  /\ ~watching /\ watching' = TRUE
  /\ events' = IF pod.state # "gone" \/ cached
               THEN Append(events, Event(pod)) ELSE events
  /\ cached' = (pod.state # "gone")
  /\ UNCHANGED <<window, pod, disc, stream, tick, budget, missed>>

-----------------------------------------------------------------------------
(***************************************************************************)
(* Discovery.                                                              *)
(***************************************************************************)
\* Bug: a subscription is kept whatever the pod's address is.
AddedByKey(s, addr) == IF s # NoStream THEN s ELSE [NoStream EXCEPT !.addr = addr]

\* Pool.Add: nothing to do when the address is the same.
Added(s, addr) == IF s.addr = addr THEN s ELSE [NoStream EXCEPT !.addr = addr]

\* Take an event and bring the pool in line; Latest holds the pool's lock
\* from its first load to its last.
DiscoverPod ==
  /\ disc = "none" /\ events # <<>> /\ tick.pc # "load"
  /\ events' = Tail(events)
  /\ disc' = IF Head(events).state = "ready" THEN "none" ELSE Head(events).state
  /\ stream' = IF Head(events).state = "ready" THEN Added(stream, Head(events).addr)
                                               ELSE NoStream
  /\ UNCHANGED <<window, podVars, tick, budget, missed>>

\* Bug: an unready pod keeps its samples.
DiscoverWindowKept ==
  /\ disc # "none" /\ disc' = "none"
  /\ IF disc = "gone" THEN Reset ELSE UNCHANGED window
  /\ missed' = FALSE
  /\ UNCHANGED <<podVars, events, stream, tick, budget>>

\* The window is reset; a deleted pod's is dropped as well, and the one that
\* is made later in its place is empty too.
DiscoverWindow ==
  /\ disc # "none" /\ disc' = "none"
  /\ Reset /\ missed' = FALSE
  /\ UNCHANGED <<podVars, events, stream, tick, budget>>

-----------------------------------------------------------------------------
(***************************************************************************)
(* The stream's goroutine.                                                 *)
(***************************************************************************)
\* Bug: a stream that broke stays broken.
ConnectOnce ==
  /\ stream # NoStream /\ ~stream.storing /\ stream.evt = NoSample
  /\ pod.state # "gone" /\ stream.addr = pod.addr /\ stream.session # pod.session
  /\ stream' = [stream EXCEPT !.session = pod.session]
  /\ UNCHANGED <<window, podVars, events, disc, tick, budget, missed>>

\* The stream is (re)connected to the process that has its address now.
Connect ==
  /\ stream # NoStream /\ ~stream.storing
  /\ pod.state # "gone" /\ stream.addr = pod.addr /\ stream.session # pod.session
  /\ stream' = [stream EXCEPT !.session = pod.session]
  /\ UNCHANGED <<window, podVars, events, disc, tick, budget, missed>>

Break ==
  /\ stream.session # 0 /\ ~stream.storing /\ budget > 0
  /\ stream' = [stream EXCEPT !.session = 0]
  /\ budget' = budget - 1
  /\ UNCHANGED <<window, podVars, events, disc, tick, missed>>

\* An event of the process the stream is connected to, a new one or the last
\* one replayed, is stored in two steps.
StoreEvent ==
  /\ stream.session = pod.session /\ pod.state # "gone" /\ ~stream.storing
  /\ \E id \in Ids :
       stream' = [stream EXCEPT !.evt = <<stream.session, id>>, !.storing = TRUE]
  /\ UNCHANGED <<window, podVars, events, disc, tick, budget, missed>>

StoreTime ==
  /\ stream.storing
  /\ stream' = [stream EXCEPT !.fresh = TRUE, !.storing = FALSE]
  /\ UNCHANGED <<window, podVars, events, disc, tick, budget, missed>>

\* The last event is older than STALE_MS.
Ages ==
  /\ stream.fresh /\ ~stream.storing
  /\ stream' = [stream EXCEPT !.fresh = FALSE]
  /\ UNCHANGED <<window, podVars, events, disc, tick, budget, missed>>

-----------------------------------------------------------------------------
(***************************************************************************)
(* The tick, for this pod.                                                 *)
(***************************************************************************)
LoadEvent ==
  /\ tick.pc = "idle" /\ stream # NoStream
  /\ tick' = [pc |-> "load", evt |-> stream.evt]
  /\ UNCHANGED <<window, podVars, events, disc, stream, budget, missed>>

\* Skipped unless healthy with an event: the time may be of a first event
\* stored after the load.
LoadTime ==
  /\ tick.pc = "load"
  /\ tick' = IF stream.fresh /\ tick.evt # NoSample
             THEN [tick EXCEPT !.pc = "push"] ELSE Between
  /\ UNCHANGED <<window, podVars, events, disc, stream, budget, missed>>

\* The window may have been reset or deleted since the loads.
PushScore ==
  /\ tick.pc = "push"
  /\ Push(tick.evt)
  /\ tick' = Between
  /\ UNCHANGED <<podVars, events, disc, stream, budget, missed>>

-----------------------------------------------------------------------------
PathInit ==
  /\ WindowInit
  /\ pod = [state |-> "gone", addr |-> NoAddr, session |-> 0]
  /\ watching = TRUE /\ cached = FALSE /\ events = <<>> /\ disc = "none"
  /\ stream = NoStream /\ tick = Between
  /\ budget = MaxFaults /\ missed = FALSE

PathNext ==
  \/ Created \/ Ready \/ Unready \/ Deleted \/ WatchBreaks \/ Relist
  \/ DiscoverPod \/ DiscoverWindow
  \/ Connect \/ Break \/ StoreEvent \/ StoreTime \/ Ages
  \/ LoadEvent \/ LoadTime \/ PushScore

\* The informer lists again, discovery and the tick loop go on, a stream
\* reconnects and its process goes on sending.  A writer that waits for the
\* pool's RWMutex keeps new readers out, so discovery is not starved by ticks;
\* and STALE_MS is longer than a tick, so that loads fall again and again in
\* the time a score is fresh.
PathFairness ==
  /\ WF_pathVars(Relist) /\ SF_pathVars(DiscoverPod) /\ WF_pathVars(DiscoverWindow)
  /\ WF_pathVars(Connect) /\ WF_pathVars(StoreEvent) /\ WF_pathVars(StoreTime)
  /\ WF_pathVars(LoadEvent) /\ WF_pathVars(LoadTime) /\ WF_pathVars(PushScore)
  /\ SF_pathVars(stream.fresh /\ LoadEvent)
  /\ SF_pathVars(stream.fresh /\ LoadTime)

PathSpec == PathInit /\ [][PathNext]_pathVars /\ PathFairness
-----------------------------------------------------------------------------
\* Once the informer and discovery have caught up, the pool subscribes to the
\* pod exactly while it is ready, at the address it has (scoreclient.go:81-83,
\* main.go:345).
StreamFollowsPod ==
  Quiet => /\ stream # NoStream <=> pod.state = "ready"
           /\ pod.state = "ready" => stream.addr = pod.addr

\* Samples of an earlier run of the process never blend with fresh ones
\* (window.go:119-120), but for one: the sample a tick had loaded when the
\* window was reset, which is then the oldest.  A change the informer's watch
\* missed may have had no reset.
AtMostOneStale ==
  Quiet /\ ~missed =>
    IF pod.state = "ready"
    THEN \A i \in 2 .. Length(window) : Snapshot(window)[i][1] = pod.session
    ELSE Length(window) <= 1

\* While a pod stays ready, ticks go on getting the scores of its process,
\* whatever streams and watches broke before (scoreclient.go:6-8).  A broken
\* stream is one whose receive call returns: runOnce sets no keepalive, so a
\* connection that dies in silence is no such stream.
ScoresArrive ==
  <>[](pod.state = "ready")
    => []<>(tick.pc = "push" /\ tick.evt[1] = pod.session)
=============================================================================
