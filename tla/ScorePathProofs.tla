--------------------------- MODULE ScorePathProofs ---------------------------
(***************************************************************************)
(* For every number of addresses, runs of the process, changes in flight   *)
(* and faults: what informer, discovery, stream and tick do to the window  *)
(* are calls of its methods, so the window implements the bounded queue in *)
(* their midst as well; the pool's stream follows the pod; and samples of  *)
(* two runs of the process do not blend.                                   *)
(***************************************************************************)
EXTENDS ScorePath, ScoreWindowProofs

PodStates == {"gone", "unready", "ready"}
Addrs == 0 .. MaxAddrs
Sessions == 0 .. MaxSessions
Pods == [state : PodStates, addr : Addrs, session : Sessions]
Events == {e \in [state : PodStates, addr : Addrs] : e.addr # NoAddr <=> e.state = "ready"}
Streams == [addr : Addrs, session : Sessions, evt : Samples \cup {NoSample},
            fresh : BOOLEAN, storing : BOOLEAN]
Ticks == [pc : {"idle", "load", "push"}, evt : Samples \cup {NoSample}]

\* A pod that exists has an address and a running process.
PodInv == pod \in Pods /\ (pod.state # "gone" => pod.session # 0 /\ pod.addr # NoAddr)

InformerInv == watching \in BOOLEAN /\ cached \in BOOLEAN /\ events \in Seq(Events)

\* A stream is told from no stream by its address.
StreamInv == stream \in Streams /\ (stream # NoStream <=> stream.addr # NoAddr)

TickInv == tick \in Ticks /\ (tick.pc = "push" => tick.evt \in Samples)

PathTypeInv == PodInv /\ InformerInv /\ StreamInv /\ TickInv

-----------------------------------------------------------------------------
(***************************************************************************)
(* Types.                                                                  *)
(***************************************************************************)
LEMMA NoStreamTyped == NoStream \in Streams /\ NoStream.addr = NoAddr
BY PathAssumption DEF NoStream, Streams, Addrs, Sessions, NoAddr

LEMMA PathTypeInit == PathInit => PathTypeInv
<1> SUFFICES ASSUME PathInit PROVE PathTypeInv
  OBVIOUS
<1>1. PodInv
  BY PathAssumption DEF PathInit, PodInv, Pods, PodStates, Addrs, Sessions, NoAddr
<1>2. InformerInv
  <2>1. <<>> \in Seq(Events)
    BY EmptySeq
  <2> QED
    BY <2>1 DEF PathInit, InformerInv
<1>3. StreamInv
  BY NoStreamTyped DEF PathInit, StreamInv
<1>4. TickInv
  BY DEF PathInit, TickInv, Ticks, Between
<1> QED
  BY <1>1, <1>2, <1>3, <1>4 DEF PathTypeInv

LEMMA EventTyped ==
  ASSUME NEW p \in Pods, p.state # "gone" => p.addr # NoAddr
  PROVE  Event(p) \in Events /\ (Event(p).state = "gone" <=> p.state = "gone")
<1>1. Event(p) = [state |-> p.state, addr |-> IF p.state = "ready" THEN p.addr ELSE NoAddr]
  BY DEF Event
<1>2. p.state \in PodStates /\ p.addr \in Addrs /\ NoAddr \in Addrs
  BY PathAssumption DEF Pods, Addrs, NoAddr
<1> QED
  BY <1>1, <1>2 DEF Events

LEMMA ChangedType ==
  ASSUME PathTypeInv, NEW new \in Pods,
         new.state # "gone" => new.session # 0 /\ new.addr # NoAddr,
         Changed(new)
  PROVE  PathTypeInv'
<1>1. Event(new) \in Events
  BY EventTyped
<1>2. InformerInv'
  <2>1. events' \in Seq(Events)
    BY <1>1 DEF PathTypeInv, InformerInv, Changed
  <2>2. cached' \in BOOLEAN /\ watching' \in BOOLEAN
    BY Zenon DEF PathTypeInv, InformerInv, Changed
  <2> QED
    BY <2>1, <2>2 DEF InformerInv
<1>3. PodInv'
  BY DEF PodInv, Changed
<1> QED
  BY <1>2, <1>3 DEF PathTypeInv, StreamInv, TickInv, Changed

\* Every change of the cluster is Changed of a real pod.
LEMMA ClusterChanges ==
  ASSUME PodInv, Created \/ Ready \/ Unready \/ Deleted
  PROVE  \E new \in Pods : /\ new.state # "gone" => new.session # 0 /\ new.addr # NoAddr
                           /\ Changed(new)
<1>0. /\ pod \in Pods /\ pod.session \in Sessions /\ pod.addr \in Addrs
      /\ pod = [state |-> pod.state, addr |-> pod.addr, session |-> pod.session]
  BY DEF PodInv, Pods
<1>1. CASE Created
  <2>1. PICK addr \in 1 .. MaxAddrs :
          Changed([state |-> "unready", addr |-> addr, session |-> pod.session + 1])
    BY <1>1 DEF Created
  <2> DEFINE new == [state |-> "unready", addr |-> addr, session |-> pod.session + 1]
  <2>2. pod.session + 1 \in Sessions /\ pod.session + 1 # 0 /\ addr \in Addrs /\ addr # NoAddr
    BY <1>0, <1>1, PathAssumption DEF Created, Sessions, Addrs, NoAddr
  <2>3. new \in Pods
    BY <2>2 DEF Pods, PodStates
  <2> QED
    BY <2>1, <2>2, <2>3
<1>2. CASE Ready
  <2> DEFINE new == [pod EXCEPT !.state = "ready"]
  <2>1. new \in Pods /\ new.addr = pod.addr /\ new.session = pod.session
    BY <1>0 DEF Pods, PodStates
  <2> QED
    BY <1>2, <2>1 DEF Ready, PodInv
<1>3. CASE Unready
  <2>1. PICK session \in 1 .. MaxSessions :
          Changed([pod EXCEPT !.state = "unready", !.session = session])
    BY <1>3 DEF Unready
  <2> DEFINE new == [pod EXCEPT !.state = "unready", !.session = session]
  <2>2. session \in Sessions /\ session # 0
    BY PathAssumption DEF Sessions
  <2>3. new \in Pods /\ new.addr = pod.addr /\ new.session = session
    BY <1>0, <2>2 DEF Pods, PodStates
  <2> QED
    BY <1>3, <2>1, <2>2, <2>3 DEF Unready, PodInv
<1>4. CASE Deleted
  <2> DEFINE new == [pod EXCEPT !.state = "gone"]
  <2>1. new \in Pods /\ new.state = "gone"
    BY <1>0 DEF Pods, PodStates
  <2> QED
    BY <1>4, <2>1 DEF Deleted
<1> QED
  BY <1>1, <1>2, <1>3, <1>4

\* The informer tells of the pod as it is.
LEMMA RelistType ==
  ASSUME PathTypeInv, Relist
  PROVE  PathTypeInv'
<1>1. Event(pod) \in Events
  BY EventTyped DEF PathTypeInv, PodInv
<1>2. InformerInv'
  BY <1>1 DEF Relist, PathTypeInv, InformerInv
<1> QED
  BY <1>2 DEF Relist, PathTypeInv, PodInv, StreamInv, TickInv

\* What a stream for an address is after Add or Remove.
LEMMA AddedTyped ==
  ASSUME NEW s \in Streams, NEW addr \in Addrs
  PROVE  Added(s, addr) \in Streams /\ Added(s, addr).addr = addr
<1>1. CASE s.addr = addr
  BY <1>1 DEF Added
<1>2. CASE s.addr # addr
  BY <1>2, NoStreamTyped DEF Added, Streams
<1> QED
  BY <1>1, <1>2

LEMMA DiscoverPodStream ==
  ASSUME PathTypeInv, DiscoverPod
  PROVE  StreamInv' /\ stream'.addr = Head(events).addr
<1>1. Head(events) \in Events
  BY HeadTailProperties DEF DiscoverPod, PathTypeInv, InformerInv
<1>2. CASE Head(events).state = "ready"
  <2>1. stream' = Added(stream, Head(events).addr)
    BY <1>2 DEF DiscoverPod
  <2>2. stream' \in Streams /\ stream'.addr = Head(events).addr
    BY <1>1, <2>1, AddedTyped DEF PathTypeInv, StreamInv, Events
  <2>3. stream'.addr # NoAddr
    BY <1>1, <1>2, <2>2 DEF Events
  <2> QED
    BY <2>2, <2>3, NoStreamTyped DEF StreamInv
<1>3. CASE Head(events).state # "ready"
  <2>1. stream' = NoStream /\ Head(events).addr = NoAddr
    BY <1>1, <1>3 DEF DiscoverPod, Events
  <2> QED
    BY <2>1, NoStreamTyped DEF StreamInv
<1> QED
  BY <1>2, <1>3

LEMMA DiscoverPodType ==
  ASSUME PathTypeInv, DiscoverPod
  PROVE  PathTypeInv'
<1>1. InformerInv'
  BY HeadTailProperties DEF DiscoverPod, PathTypeInv, InformerInv, podVars
<1> QED
  BY <1>1, DiscoverPodStream DEF DiscoverPod, PathTypeInv, PodInv, TickInv, podVars

\* The stream's goroutine never changes its address.
LEMMA StreamSteps ==
  ASSUME PathTypeInv, Connect \/ Break \/ StoreEvent \/ StoreTime \/ Ages
  PROVE  /\ StreamInv' /\ stream'.addr = stream.addr
         /\ UNCHANGED <<pod, watching, cached, events, tick>>
<1>0. stream \in Streams /\ UNCHANGED <<pod, watching, cached, events, tick>>
  BY DEF PathTypeInv, StreamInv, Connect, Break, StoreEvent, StoreTime, Ages, podVars
<1>1. stream.addr # NoAddr
  <2>1. /\ NoStream.session = 0 /\ ~NoStream.fresh /\ ~NoStream.storing
        /\ pod.state # "gone" => pod.session # 0
    BY DEF NoStream, PathTypeInv, PodInv
  <2>2. stream # NoStream
    BY <2>1, Zenon DEF Connect, Break, StoreEvent, StoreTime, Ages
  <2> QED
    BY <2>2 DEF PathTypeInv, StreamInv
<1>2. stream' \in Streams /\ stream'.addr = stream.addr
  <2>1. CASE Connect
    BY <1>0, <2>1 DEF Connect, Streams, PathTypeInv, PodInv, Pods
  <2>2. CASE Break
    BY <1>0, <2>2, PathAssumption DEF Break, Streams, Sessions
  <2>3. CASE StoreEvent
    <3>1. PICK id \in Ids :
            stream' = [stream EXCEPT !.evt = <<stream.session, id>>, !.storing = TRUE]
      BY <2>3 DEF StoreEvent
    <3>2. stream.session \in 1 .. MaxSessions
      <4>1. stream.session \in 0 .. MaxSessions
        BY <1>0 DEF Streams, Sessions
      <4>2. stream.session # 0
        BY <2>3 DEF StoreEvent, PathTypeInv, PodInv
      <4> QED
        BY <4>1, <4>2, PathAssumption
    <3>3. <<stream.session, id>> \in Samples
      BY <3>2, PathAssumption
    <3> QED
      BY <1>0, <3>1, <3>3 DEF Streams
  <2>4. CASE StoreTime
    BY <1>0, <2>4 DEF StoreTime, Streams
  <2>5. CASE Ages
    BY <1>0, <2>5 DEF Ages, Streams
  <2> QED
    BY <2>1, <2>2, <2>3, <2>4, <2>5
<1> QED
  BY <1>0, <1>1, <1>2, NoStreamTyped DEF StreamInv

LEMMA StreamStepsType ==
  ASSUME PathTypeInv, Connect \/ Break \/ StoreEvent \/ StoreTime \/ Ages
  PROVE  PathTypeInv'
BY StreamSteps DEF PathTypeInv, PodInv, InformerInv, TickInv

LEMMA TickType ==
  ASSUME PathTypeInv, LoadEvent \/ LoadTime \/ PushScore
  PROVE  PathTypeInv'
<1>0. /\ UNCHANGED <<pod, watching, cached, events, stream>>
      /\ tick \in Ticks /\ stream.evt \in Samples \cup {NoSample}
  BY DEF LoadEvent, LoadTime, PushScore, podVars, PathTypeInv, TickInv, StreamInv, Streams
<1>1. TickInv'
  <2>1. CASE LoadEvent
    BY <1>0, <2>1 DEF LoadEvent, TickInv, Ticks
  <2>2. CASE LoadTime
    BY <1>0, <2>2 DEF LoadTime, TickInv, Ticks, Between
  <2>3. CASE PushScore
    BY <2>3 DEF PushScore, TickInv, Ticks, Between
  <2> QED
    BY <2>1, <2>2, <2>3
<1> QED
  BY <1>0, <1>1 DEF PathTypeInv, PodInv, InformerInv, StreamInv

LEMMA PathTypeNext ==
  ASSUME PathTypeInv, [PathNext]_pathVars
  PROVE  PathTypeInv'
<1>1. CASE Created \/ Ready \/ Unready \/ Deleted
  BY <1>1, ClusterChanges, ChangedType DEF PathTypeInv
<1>2. CASE WatchBreaks
  BY <1>2 DEF WatchBreaks, PathTypeInv, PodInv, InformerInv, StreamInv, TickInv
<1>3. CASE DiscoverWindow
  BY <1>3 DEF DiscoverWindow, podVars, PathTypeInv, PodInv, InformerInv, StreamInv, TickInv
<1>4. CASE UNCHANGED pathVars
  BY <1>4 DEF pathVars, podVars, PathTypeInv, PodInv, InformerInv, StreamInv, TickInv
<1> QED
  BY <1>1, <1>2, <1>3, <1>4, RelistType, DiscoverPodType, StreamStepsType, TickType
  DEF PathNext

-----------------------------------------------------------------------------
(***************************************************************************)
(* The window sees calls of its methods only.                              *)
(***************************************************************************)
LEMMA PathStepsWindow ==
  ASSUME PathTypeInv, [PathNext]_pathVars
  PROVE  [WindowNext]_window
<1>1. CASE PushScore
  BY <1>1 DEF PushScore, PathTypeInv, TickInv, WindowNext
<1>2. CASE DiscoverWindow
  BY <1>2 DEF DiscoverWindow, WindowNext
<1>3. CASE Created \/ Ready \/ Unready \/ Deleted \/ WatchBreaks \/ Relist
  BY <1>3 DEF Created, Ready, Unready, Deleted, WatchBreaks, Relist, Changed
<1>4. CASE \/ DiscoverPod \/ Connect \/ Break \/ StoreEvent \/ StoreTime \/ Ages
           \/ LoadEvent \/ LoadTime \/ UNCHANGED pathVars
  BY <1>4 DEF DiscoverPod, Connect, Break, StoreEvent, StoreTime, Ages, LoadEvent, LoadTime,
              pathVars
<1> QED
  BY <1>1, <1>2, <1>3, <1>4 DEF PathNext

LEMMA PathIsWindow == PathSpec => WindowSpec
<1>1. PathInit => WindowInit
  BY DEF PathInit
<1> QED
  BY <1>1, PathTypeInit, PathTypeNext, PathStepsWindow, PTL DEF PathSpec, WindowSpec

\* Among all the processes that touch it, the ring buffer is the bounded
\* queue it stands for (window.go:30-31, 81-82).
THEOREM PathImplementsRecent == PathSpec => ImplementsRecent
BY PathIsWindow, WindowImplementsRecent, PTL

\* A snapshot taken between any two of their steps reads slots that hold samples.
THEOREM PathWindowTyped == PathSpec => []WindowTypeOK
BY PathIsWindow, WindowTyped, PTL

\* The id that a score is compared with is the newest stored one's, across the
\* wraps and the resets of all of them (window.go:42-44).
THEOREM PathLastIsNewest == PathSpec => []LastIsNewest
BY PathIsWindow, LastStaysNewest, PTL

-----------------------------------------------------------------------------
(***************************************************************************)
(* The stream follows the pod.  The address that discovery will give the   *)
(* stream, once it has taken all events, is the pod's while the watch is   *)
(* up, and none while the informer's cache has no pod: that is what makes  *)
(* it safe for a new list to tell nothing of a pod gone both before and    *)
(* after.                                                                  *)
(***************************************************************************)
Told == IF events = <<>> THEN stream.addr ELSE events[Len(events)].addr

FollowInv ==
  /\ watching => Told = Event(pod).addr
  /\ watching => (cached <=> pod.state # "gone")
  /\ ~cached => Told = NoAddr

LEMMA FollowInit == PathInit => FollowInv
BY DEF PathInit, FollowInv, Told, Event, NoStream, NoAddr

\* An event appended is the last told.
LEMMA ToldAppended ==
  ASSUME InformerInv, NEW e \in Events, events' = Append(events, e)
  PROVE  Told' = e.addr
<1>1. events' # <<>> /\ Len(events') = Len(events) + 1 /\ events'[Len(events) + 1] = e
  BY AppendProperties DEF InformerInv
<1> QED
  BY <1>1 DEF Told

LEMMA ChangedFollows ==
  ASSUME PathTypeInv, FollowInv, NEW new \in Pods,
         new.state # "gone" => new.session # 0 /\ new.addr # NoAddr,
         Changed(new)
  PROVE  FollowInv'
<1>1. Event(new) \in Events /\ pod' = new /\ watching' = watching /\ stream' = stream
  BY EventTyped DEF Changed
<1>2. CASE watching
  <2>1. Told' = Event(new).addr /\ cached' = (new.state # "gone")
    BY <1>1, <1>2, ToldAppended DEF Changed, PathTypeInv
  <2>2. new.state = "gone" => Event(new).addr = NoAddr
    BY DEF Event
  <2> QED
    BY <1>1, <2>1, <2>2 DEF FollowInv
<1>3. CASE ~watching
  <2>1. Told' = Told /\ cached' = cached
    BY <1>1, <1>3 DEF Changed, Told
  <2> QED
    BY <1>1, <1>3, <2>1 DEF FollowInv
<1> QED
  BY <1>2, <1>3

LEMMA RelistFollows ==
  ASSUME PathTypeInv, FollowInv, Relist
  PROVE  FollowInv'
<1>1. /\ pod' = pod /\ stream' = stream /\ cached' = (pod.state # "gone")
      /\ Event(pod) \in Events /\ (pod.state = "gone" => Event(pod).addr = NoAddr)
  BY EventTyped DEF Relist, PathTypeInv, PodInv, Event
<1>2. CASE pod.state # "gone" \/ cached
  <2>1. Told' = Event(pod).addr
    BY <1>1, <1>2, ToldAppended DEF Relist, PathTypeInv
  <2> QED
    BY <1>1, <2>1 DEF FollowInv
<1>3. CASE ~(pod.state # "gone" \/ cached)
  <2>1. Told' = Told /\ Told = NoAddr
    BY <1>1, <1>3 DEF Relist, Told, FollowInv
  <2> QED
    BY <1>1, <1>3, <2>1 DEF FollowInv
<1> QED
  BY <1>2, <1>3

\* Taking an event leaves the last told as it is.
LEMMA DiscoverPodFollows ==
  ASSUME PathTypeInv, FollowInv, DiscoverPod
  PROVE  FollowInv'
<1>1. /\ events \in Seq(Events) /\ events # <<>> /\ events' = Tail(events)
      /\ UNCHANGED <<pod, watching, cached>>
  BY DEF PathTypeInv, InformerInv, DiscoverPod, podVars
<1>2. /\ Len(events') = Len(events) - 1
      /\ \A i \in 1 .. Len(events') : events'[i] = events[i + 1]
      /\ Len(events) \in Nat \ {0}
  BY <1>1, HeadTailProperties, EmptySeq
<1>3. CASE Len(events) = 1
  <2>1. events' = <<>> /\ Head(events) = events[1]
    BY <1>1, <1>2, <1>3
  <2>2. Told' = Told
    BY <1>1, <1>3, <2>1, DiscoverPodStream DEF Told
  <2> QED
    BY <1>1, <2>2 DEF FollowInv
<1>4. CASE Len(events) # 1
  <2>1. Len(events') \in 1 .. Len(events') /\ events' # <<>>
    BY <1>1, <1>2, <1>4
  <2>2. events'[Len(events')] = events[Len(events)]
    BY <1>2, <2>1
  <2>3. Told' = Told
    BY <1>1, <2>1, <2>2 DEF Told
  <2> QED
    BY <1>1, <2>3 DEF FollowInv
<1> QED
  BY <1>3, <1>4

LEMMA FollowNext ==
  ASSUME PathTypeInv, FollowInv, [PathNext]_pathVars
  PROVE  FollowInv'
<1>1. CASE Created \/ Ready \/ Unready \/ Deleted
  BY <1>1, ClusterChanges, ChangedFollows DEF PathTypeInv
<1>2. CASE WatchBreaks
  BY <1>2 DEF WatchBreaks, FollowInv, Told
<1>3. CASE Connect \/ Break \/ StoreEvent \/ StoreTime \/ Ages
  BY <1>3, StreamSteps DEF FollowInv, Told
<1>4. CASE DiscoverWindow \/ LoadEvent \/ LoadTime \/ PushScore \/ UNCHANGED pathVars
  BY <1>4 DEF DiscoverWindow, LoadEvent, LoadTime, PushScore, pathVars, podVars, FollowInv, Told
<1> QED
  BY <1>1, <1>2, <1>3, <1>4, RelistFollows, DiscoverPodFollows DEF PathNext

\* Once the informer and discovery have caught up, the pool subscribes to the
\* pod exactly while it is ready, at the address it has, however many watches
\* broke and changes were missed before (scoreclient.go:81-83, main.go:345).
THEOREM StreamFollows == PathSpec => []StreamFollowsPod
<1>1. PathInit => PathTypeInv /\ FollowInv
  BY PathTypeInit, FollowInit
<1>2. PathTypeInv /\ FollowInv /\ [PathNext]_pathVars => (PathTypeInv /\ FollowInv)'
  BY PathTypeNext, FollowNext
<1>3. PathTypeInv /\ FollowInv => StreamFollowsPod
  BY DEF PathTypeInv, PodInv, StreamInv, FollowInv, Told, Event, StreamFollowsPod, Quiet
<1> QED
  BY <1>1, <1>2, <1>3, PTL DEF PathSpec

-----------------------------------------------------------------------------
(***************************************************************************)
(* Runs do not blend.  Between the reset a change asks for and the next    *)
(* change, the pod's process is the same one; the stream was made after    *)
(* the reset, so it delivers samples of that process only; and the one     *)
(* older sample that a tick can still hold is pushed into an empty window. *)
(***************************************************************************)
\* A reset is still to come.
Pending == disc # "none" \/ \E i \in 1 .. Len(events) : events[i].state # "ready"

BlendInv ==
  /\ disc # "none" => stream = NoStream
  /\ ~Pending /\ ~missed =>
       /\ \A i \in 2 .. Length(window) : Snapshot(window)[i][1] = pod.session
       /\ stream.evt # NoSample => stream.evt[1] = pod.session
       /\ tick.evt # NoSample /\ tick.evt[1] # pod.session => Length(window) = 0
       /\ pod.state # "ready" /\ (watching \/ ~cached) =>
            Length(window) <= 1 /\ (tick.evt # NoSample => Length(window) = 0)

PathInv == PathTypeInv /\ FollowInv /\ WindowInv

LEMMA BlendInit == PathInit => BlendInv
<1> SUFFICES ASSUME PathInit PROVE BlendInv
  OBVIOUS
<1>1. Length(window) = 0
  BY DEF PathInit, WindowInit, NewWindow, Length
<1> QED
  BY <1>1 DEF PathInit, BlendInv, NoStream, Between

\* A pushed sample is the newest; the others keep their order.
LEMMA PushShifts ==
  ASSUME WindowInv, NEW s \in Samples, Push(s), NEW j,
         \A i \in 2 .. Length(window) : Snapshot(window)[i][1] = j,
         s[1] = j \/ Length(window) = 0
  PROVE  /\ \A i \in 2 .. Length(window)' : Snapshot(window)'[i][1] = j
         /\ Length(window) = 0 => Length(window)' <= 1
<1> DEFINE q == Snapshot(window)
           n == Length(window)
<1>1. q \in Seq(Samples) /\ Len(q) = n /\ n \in 0 .. Cap
  BY SnapshotIsSeq DEF WindowInv
<1>2. CASE IdOf[s] # 0 /\ IdOf[s] = window.last
  <2>1. UNCHANGED window
    BY <1>2 DEF Push, Pushed
  <2>2. UNCHANGED Snapshot(window) /\ UNCHANGED Length(window)
    BY <2>1 DEF Snapshot, Length, Slot
  <2> QED
    BY <1>1, <2>2, WindowAssumption
<1>3. CASE ~(IdOf[s] # 0 /\ IdOf[s] = window.last) /\ ~window.full
  <2>1. Snapshot(window)' = Append(q, s)
    BY <1>3, PushAppends
  <2>2. Length(window)' = n + 1
    BY <1>3, WindowAssumption DEF WindowInv, WindowTypeOK, Slots, Push, Pushed, Length
  <2> HIDE DEF q, n
  <2>3. ASSUME NEW i \in 2 .. n + 1 PROVE Append(q, s)[i] = IF i = n + 1 THEN s ELSE q[i]
    BY <1>1, <2>3, WindowAssumption
  <2>4. ASSUME NEW i \in 2 .. n + 1 PROVE Append(q, s)[i][1] = j
    <3>1. n # 0
      BY <1>1, WindowAssumption
    <3>2. i # n + 1 => i \in 2 .. n
      BY <1>1, WindowAssumption
    <3> QED
      BY <2>3, <3>1, <3>2 DEF q, n
  <2>5. n = 0 => n + 1 <= 1
    OBVIOUS
  <2> QED
    BY <2>1, <2>2, <2>4, <2>5 DEF n
<1>4. CASE ~(IdOf[s] # 0 /\ IdOf[s] = window.last) /\ window.full
  <2>1. Snapshot(window)' = Tail(Append(q, s))
    BY <1>4, PushReplaces
  <2>2. Length(window)' = Cap /\ n = Cap
    BY <1>4, WindowAssumption DEF WindowInv, WindowTypeOK, Push, Pushed, Length
  <2> DEFINE r == Append(q, s)
             u == Tail(r)
  <2>3. Snapshot(window)' = u
    BY <2>1
  <2>4. /\ r \in Seq(Samples) /\ Len(r) = Cap + 1 /\ r # <<>>
        /\ \A i \in 1 .. Cap + 1 : r[i] = IF i = Cap + 1 THEN s ELSE q[i]
    BY <1>1, <2>2, AppendProperties, WindowAssumption
  <2> HIDE DEF u, r, q, n
  <2>5. \A i \in 1 .. Cap : u[i] = r[i + 1]
    BY <2>4, HeadTailProperties, WindowAssumption DEF u
  <2>6. ASSUME NEW i \in 2 .. Cap PROVE u[i][1] = j
    <3>1. i \in 1 .. Cap /\ i + 1 \in 1 .. Cap + 1 /\ Cap # 0
      BY WindowAssumption
    <3>2. i + 1 # Cap + 1 => i + 1 \in 2 .. n
      BY <2>2, WindowAssumption
    <3> QED
      BY <2>2, <2>4, <2>5, <3>1, <3>2 DEF q, n
  <2>7. n # 0
    BY <2>2, WindowAssumption
  <2> QED
    BY <2>2, <2>3, <2>6, <2>7 DEF n
<1> QED
  BY <1>2, <1>3, <1>4

\* An event of a pod that is not ready asks for a reset.
LEMMA PendingAppended ==
  ASSUME InformerInv, NEW e \in Events, events' = Append(events, e), UNCHANGED disc
  PROVE  Pending' <=> Pending \/ e.state # "ready"
<1>1. /\ events \in Seq(Events) /\ Len(events') = Len(events) + 1
      /\ events'[Len(events) + 1] = e
      /\ \A i \in 1 .. Len(events) : events'[i] = events[i]
  BY AppendProperties DEF InformerInv
<1>2. Len(events) \in Nat
  BY <1>1, LenProperties
<1>3. (\E i \in 1 .. Len(events') : events'[i].state # "ready")
        <=> (\E i \in 1 .. Len(events) : events[i].state # "ready") \/ e.state # "ready"
  <2>1. \A i \in 1 .. Len(events') : i \in 1 .. Len(events) \/ i = Len(events) + 1
    BY <1>1, <1>2
  <2>2. \A i \in 1 .. Len(events) : i \in 1 .. Len(events')
    BY <1>1, <1>2
  <2>3. Len(events) + 1 \in 1 .. Len(events')
    BY <1>1, <1>2
  <2> QED
    BY <1>1, <2>1, <2>2, <2>3
<1> QED
  BY <1>3 DEF Pending

\* While nothing is to come for a pod that is not ready, it has no stream.
LEMMA NoStreamLeft ==
  ASSUME PathTypeInv, FollowInv, ~Pending, pod.state # "ready", watching \/ ~cached
  PROVE  stream = NoStream
<1>1. Told = NoAddr
  BY DEF FollowInv, Event
<1>2. events = <<>>
  <2> SUFFICES ASSUME events # <<>> PROVE FALSE
    OBVIOUS
  <2>1. Len(events) \in 1 .. Len(events) /\ events[Len(events)] \in Events
    BY LenProperties, EmptySeq DEF PathTypeInv, InformerInv
  <2>2. events[Len(events)].state = "ready"
    BY <2>1 DEF Pending
  <2> QED
    BY <1>1, <2>1, <2>2 DEF Told, Events
<1> QED
  BY <1>1, <1>2 DEF Told, PathTypeInv, StreamInv

\* A process is another one only after a change that asks for a reset, or that
\* was missed.
LEMMA ChangedBlends ==
  ASSUME PathInv, BlendInv, NEW new \in Pods,
         new.state # "gone" => new.session # 0 /\ new.addr # NoAddr,
         new.state = "ready" => new.session = pod.session,
         Changed(new)
  PROVE  BlendInv'
<1>1. Event(new) \in Events /\ Event(new).state = new.state
  BY EventTyped DEF Event
<1>2. pod' = new /\ UNCHANGED <<window, watching, disc, stream, tick>>
  BY DEF Changed
<1>3. UNCHANGED Snapshot(window) /\ UNCHANGED Length(window)
  BY <1>2 DEF Snapshot, Length, Slot
<1>4. CASE ~watching
  BY <1>2, <1>4 DEF Changed, BlendInv
<1>5. CASE watching
  <2>1. Pending' <=> Pending \/ new.state # "ready"
    BY <1>1, <1>5, PendingAppended DEF Changed, PathInv, PathTypeInv
  <2>2. missed' = missed
    BY <1>5 DEF Changed
  <2> QED
    BY <1>2, <1>3, <2>1, <2>2 DEF BlendInv
<1> QED
  BY <1>4, <1>5

LEMMA ClusterBlends ==
  ASSUME PathInv, BlendInv, Created \/ Ready \/ Unready \/ Deleted
  PROVE  BlendInv'
<1>0. /\ pod \in Pods /\ pod = [state |-> pod.state, addr |-> pod.addr, session |-> pod.session]
      /\ PodInv
  BY DEF PathInv, PathTypeInv, PodInv, Pods
<1>1. PICK new \in Pods : /\ new.state # "gone" => new.session # 0 /\ new.addr # NoAddr
                          /\ Changed(new)
  BY <1>0, ClusterChanges
<1>2. pod' = new
  BY <1>1 DEF Changed
<1>3. new.state = "ready" => new.session = pod.session
  <2>1. CASE Created
    BY <1>2, <2>1 DEF Created, Changed
  <2>2. CASE Ready
    BY <1>0, <1>2, <2>2 DEF Ready, Changed
  <2>3. CASE Unready
    <3>1. PICK session : pod' = [pod EXCEPT !.state = "unready", !.session = session]
      BY <2>3 DEF Unready, Changed
    <3> QED
      BY <1>0, <1>2, <3>1
  <2>4. CASE Deleted
    BY <1>0, <1>2, <2>4 DEF Deleted, Changed
  <2> QED
    BY <2>1, <2>2, <2>3, <2>4
<1> QED
  BY <1>1, <1>3, ChangedBlends

\* A new list tells of a pod that is not ready, unless it is gone and the
\* informer had no pod either.
LEMMA RelistBlends ==
  ASSUME PathInv, BlendInv, Relist
  PROVE  BlendInv'
<1>1. /\ UNCHANGED <<window, pod, disc, stream, tick, missed>>
      /\ cached' = (pod.state # "gone")
  BY DEF Relist
<1>2. UNCHANGED Snapshot(window) /\ UNCHANGED Length(window)
  BY <1>1 DEF Snapshot, Length, Slot
<1>3. CASE pod.state # "gone" \/ cached
  <2>1. Event(pod) \in Events /\ Event(pod).state = pod.state
    BY EventTyped DEF Event, PathInv, PathTypeInv, PodInv
  <2>2. Pending' <=> Pending \/ pod.state # "ready"
    BY <1>1, <1>3, <2>1, PendingAppended DEF Relist, PathInv, PathTypeInv
  <2> QED
    BY <1>1, <1>2, <2>2 DEF BlendInv
<1>4. CASE ~(pod.state # "gone" \/ cached)
  <2>1. UNCHANGED events
    BY <1>4 DEF Relist
  <2> QED
    BY <1>1, <1>2, <1>4, <2>1 DEF BlendInv, Pending
<1> QED
  BY <1>3, <1>4

LEMMA DiscoverPodBlends ==
  ASSUME PathInv, BlendInv, DiscoverPod
  PROVE  BlendInv'
<1>1. /\ events \in Seq(Events) /\ events # <<>> /\ events' = Tail(events)
      /\ disc = "none" /\ UNCHANGED <<window, pod, watching, cached, tick, missed>>
  BY DEF PathInv, PathTypeInv, InformerInv, DiscoverPod, podVars
<1>2. /\ Len(events) \in Nat \ {0} /\ Len(events') = Len(events) - 1
      /\ \A i \in 1 .. Len(events') : events'[i] = events[i + 1]
      /\ Head(events) = events[1]
  BY <1>1, HeadTailProperties, EmptySeq
<1>3. UNCHANGED Snapshot(window) /\ UNCHANGED Length(window)
  BY <1>1 DEF Snapshot, Length, Slot
<1>4. CASE Head(events).state # "ready"
  <2>1. stream' = NoStream /\ disc' = Head(events).state
    BY <1>4 DEF DiscoverPod
  <2>2. Head(events).state # "none"
    BY <1>1, <1>2 DEF Events, PodStates
  <2> QED
    BY <2>1, <2>2 DEF BlendInv, Pending
<1>5. CASE Head(events).state = "ready"
  <2>1. disc' = "none" /\ stream' = Added(stream, Head(events).addr)
    BY <1>5 DEF DiscoverPod
  <2>2. Pending => Pending'
    <3> SUFFICES ASSUME NEW i \in 1 .. Len(events), events[i].state # "ready"
                 PROVE  \E j \in 1 .. Len(events') : events'[j].state # "ready"
      BY <1>1 DEF Pending
    <3>1. i # 1
      BY <1>2, <1>5
    <3>2. i - 1 \in 1 .. Len(events') /\ (i - 1) + 1 = i
      BY <1>2, <3>1
    <3> QED
      BY <1>2, <3>2
  <2>3. stream'.evt \in {stream.evt, NoSample}
    BY <2>1 DEF Added, NoStream
  <2> QED
    BY <1>1, <1>3, <2>1, <2>2, <2>3 DEF BlendInv
<1> QED
  BY <1>4, <1>5

LEMMA DiscoverWindowBlends ==
  ASSUME PathInv, BlendInv, DiscoverWindow
  PROVE  BlendInv'
<1>1. stream = NoStream /\ disc' = "none" /\ UNCHANGED stream
  BY DEF DiscoverWindow, BlendInv
<1>2. Length(window)' = 0
  BY DEF DiscoverWindow, Reset, Cleared, Length, PathInv, WindowInv, WindowTypeOK
<1> QED
  BY <1>1, <1>2 DEF BlendInv, NoStream

\* The stream delivers samples of the process it is connected to.
LEMMA StreamBlends ==
  ASSUME PathInv, BlendInv, Connect \/ Break \/ StoreEvent \/ StoreTime \/ Ages
  PROVE  BlendInv'
<1>1. UNCHANGED <<window, pod, watching, cached, events, disc, tick, missed>>
  BY DEF Connect, Break, StoreEvent, StoreTime, Ages, podVars
<1>2. UNCHANGED Snapshot(window) /\ UNCHANGED Length(window) /\ (Pending' <=> Pending)
  BY <1>1 DEF Snapshot, Length, Slot, Pending
<1>3. stream # NoStream
  <2>1. /\ NoStream.session = 0 /\ ~NoStream.fresh /\ ~NoStream.storing
        /\ pod.state # "gone" => pod.session # 0
    BY DEF NoStream, PathInv, PathTypeInv, PodInv
  <2> QED
    BY <2>1, Zenon DEF Connect, Break, StoreEvent, StoreTime, Ages
<1>4. stream'.evt = stream.evt \/ stream'.evt[1] = pod.session
  <2>0. stream \in Streams
    BY DEF PathInv, PathTypeInv, StreamInv
  <2>1. CASE StoreEvent
    <3>1. PICK id \in Ids :
            stream' = [stream EXCEPT !.evt = <<stream.session, id>>, !.storing = TRUE]
      BY <2>1 DEF StoreEvent
    <3>2. stream'.evt = <<stream.session, id>> /\ stream.session = pod.session
      BY <2>0, <2>1, <3>1 DEF StoreEvent, Streams
    <3> QED
      BY <3>2
  <2>2. CASE Connect \/ Break \/ StoreTime \/ Ages
    BY <2>0, <2>2 DEF Connect, Break, StoreTime, Ages, Streams
  <2> QED
    BY <2>1, <2>2
<1> QED
  BY <1>1, <1>2, <1>3, <1>4 DEF BlendInv

LEMMA TickBlends ==
  ASSUME PathInv, BlendInv, LoadEvent \/ LoadTime \/ PushScore
  PROVE  BlendInv'
<1>1. UNCHANGED <<pod, watching, cached, events, disc, stream, missed>>
  BY DEF LoadEvent, LoadTime, PushScore, podVars
<1>2. Pending' <=> Pending
  BY <1>1 DEF Pending
<1>3. CASE LoadEvent
  <2>1. UNCHANGED window /\ tick'.evt = stream.evt /\ stream # NoStream
    BY <1>3 DEF LoadEvent
  <2>2. UNCHANGED Snapshot(window) /\ UNCHANGED Length(window)
    BY <2>1 DEF Snapshot, Length, Slot
  <2>3. ~Pending /\ pod.state # "ready" => ~(watching \/ ~cached)
    BY <2>1, NoStreamLeft DEF PathInv
  <2> QED
    BY <1>1, <1>2, <2>1, <2>2, <2>3 DEF BlendInv
<1>4. CASE LoadTime
  <2>1. UNCHANGED window /\ tick'.evt \in {tick.evt, NoSample}
    BY <1>4 DEF LoadTime, Between, PathInv, PathTypeInv, TickInv, Ticks
  <2>2. UNCHANGED Snapshot(window) /\ UNCHANGED Length(window)
    BY <2>1 DEF Snapshot, Length, Slot
  <2> QED
    BY <1>1, <1>2, <2>1, <2>2 DEF BlendInv
<1>5. CASE PushScore
  <2>1. tick.evt \in Samples /\ tick.evt # NoSample /\ Push(tick.evt) /\ tick'.evt = NoSample
    BY <1>5, WindowAssumption DEF PushScore, Between, PathInv, PathTypeInv, TickInv
  <2>2. ASSUME ~Pending, ~missed
        PROVE  /\ \A i \in 2 .. Length(window)' : Snapshot(window)'[i][1] = pod.session
               /\ Length(window) = 0 => Length(window)' <= 1
    <3>1. /\ \A i \in 2 .. Length(window) : Snapshot(window)[i][1] = pod.session
          /\ tick.evt[1] = pod.session \/ Length(window) = 0
      BY <2>1, <2>2 DEF BlendInv
    <3> QED
      BY <2>1, <3>1, PushShifts DEF PathInv
  <2> QED
    BY <1>1, <1>2, <2>1, <2>2 DEF BlendInv
<1> QED
  BY <1>3, <1>4, <1>5

LEMMA BlendNext ==
  ASSUME PathInv, BlendInv, [PathNext]_pathVars
  PROVE  BlendInv'
<1>1. CASE WatchBreaks
  <2>1. UNCHANGED <<window, pod, cached, events, disc, stream, tick, missed>> /\ watching
    BY <1>1 DEF WatchBreaks
  <2>2. UNCHANGED Snapshot(window) /\ UNCHANGED Length(window) /\ (Pending' <=> Pending)
    BY <2>1 DEF Snapshot, Length, Slot, Pending
  <2> QED
    BY <2>1, <2>2 DEF BlendInv
<1>2. CASE UNCHANGED pathVars
  <2>1. UNCHANGED Snapshot(window) /\ UNCHANGED Length(window) /\ (Pending' <=> Pending)
    BY <1>2 DEF Snapshot, Length, Slot, Pending, pathVars
  <2> QED
    BY <1>2, <2>1 DEF BlendInv, pathVars, podVars
<1> QED
  BY <1>1, <1>2, ClusterBlends, RelistBlends, DiscoverPodBlends, DiscoverWindowBlends,
     StreamBlends, TickBlends DEF PathNext

\* Samples of an earlier run of the process never blend with those of the one
\* that runs now, but for the one a tick had loaded when the window was reset,
\* which is then the oldest (window.go:119-120); however pods restart, ticks
\* interleave and streams and watches break, unless the watch missed a change.
THEOREM RunsDoNotBlend == PathSpec => []AtMostOneStale
<1>1. PathInit => PathInv /\ BlendInv
  BY PathTypeInit, FollowInit, BlendInit, InitWindow DEF PathInit, PathInv
<1>2. PathInv /\ [PathNext]_pathVars => PathInv'
  BY PathTypeNext, FollowNext, PathStepsWindow, NextWindow DEF PathInv
<1>3. PathInv /\ BlendInv /\ [PathNext]_pathVars => BlendInv'
  BY BlendNext
<1>4. PathInv /\ BlendInv => AtMostOneStale
  <2> SUFFICES ASSUME PathInv, BlendInv, Quiet, ~missed
               PROVE  IF pod.state = "ready"
                      THEN \A i \in 2 .. Length(window) : Snapshot(window)[i][1] = pod.session
                      ELSE Length(window) <= 1
    BY DEF AtMostOneStale
  <2>1. ~Pending
    BY DEF Quiet, Pending
  <2> QED
    BY <2>1 DEF BlendInv, Quiet
<1> QED
  BY <1>1, <1>2, <1>3, <1>4, PTL DEF PathSpec
=============================================================================
