------------------------- MODULE ScoreWindowProofs -------------------------
(***************************************************************************)
(* The feature window implements RecentSamples, for every capacity and     *)
(* every stream of samples.  The inductive invariant is WindowTypeOK with  *)
(* LastIsNewest: the ring drops a sample by comparing with its last field, *)
(* the queue by comparing with its newest sample.                          *)
(***************************************************************************)
EXTENDS ScoreWindow, Integers, SequenceTheorems, TLAPS

WindowInv == WindowTypeOK /\ LastIsNewest

\* Stepping one slot round the ring, without the remainder.
LEMMA SlotModulo ==
  ASSUME NEW a \in Slots, NEW b \in Slots
  PROVE  (a + b) % Cap = IF a + b < Cap THEN a + b ELSE a + b - Cap
<1>1. Cap \in Nat \ {0} /\ a \in Nat /\ b \in Nat /\ a < Cap /\ b < Cap
  BY WindowAssumption DEF Slots
<1>2. CASE a + b < Cap
  BY <1>1, <1>2
<1>3. CASE ~(a + b < Cap)
  <2>1. a + b - Cap \in 0 .. Cap - 1
    BY <1>1, <1>3
  <2>2. (a + b - Cap) % Cap = a + b - Cap
    BY <1>1, <2>1
  <2>3. (a + b) % Cap = (a + b - Cap) % Cap
    BY <1>1, <2>1
  <2>4. QED
    BY <1>3, <2>2, <2>3
<1>4. QED
  BY <1>2, <1>3

LEMMA SlotOfFull ==
  ASSUME NEW w, w.full, w.next \in Slots, NEW i \in 1 .. Cap
  PROVE  Slot(w, i) = IF w.next + i - 1 < Cap THEN w.next + i - 1 ELSE w.next + i - 1 - Cap
<1> DEFINE n == w.next
           j == i - 1
<1>1. n \in Slots /\ j \in Slots /\ w.next \in Int /\ n \in Int /\ j \in Int
  BY WindowAssumption DEF Slots
<1>2. Slot(w, i) = (n + j) % Cap
  BY DEF Slot
<1>3. n + j = w.next + i - 1
  BY WindowAssumption DEF Slots
<1> HIDE DEF n, j
<1>4. (n + j) % Cap = IF n + j < Cap THEN n + j ELSE n + j - Cap
  BY <1>1, SlotModulo
<1>5. QED
  BY <1>1, <1>2, <1>3, <1>4, WindowAssumption

LEMMA InitWindow == WindowInit => WindowInv
  BY WindowAssumption
  DEF WindowInit, WindowInv, WindowTypeOK, LastIsNewest, NewWindow, Length, Slots

LEMMA PushTyped ==
  ASSUME WindowInv, NEW s \in Samples, Push(s)
  PROVE  WindowInv'
<1>1. CASE IdOf[s] # 0 /\ IdOf[s] = window.last
  BY <1>1 DEF Push, Pushed, WindowInv, WindowTypeOK, LastIsNewest, Length
<1>2. CASE ~(IdOf[s] # 0 /\ IdOf[s] = window.last)
  <2> DEFINE n == IF window.next + 1 = Cap THEN 0 ELSE window.next + 1
  <2>1. /\ window'.ring = [window.ring EXCEPT ![window.next] = s]
        /\ window'.next = n
        /\ window'.full = (window.full \/ window.next + 1 = Cap)
        /\ window'.last = IdOf[s]
        /\ window' \in [ring : [Slots -> Samples \cup {NoSample}], next : Slots,
                         full : BOOLEAN, last : Nat]
    BY <1>2, WindowAssumption DEF Push, Pushed, WindowInv, WindowTypeOK, Slots
  <2>2. WindowTypeOK'
    BY <2>1, WindowAssumption DEF WindowInv, WindowTypeOK, Slots
  <2>3. LastIsNewest'
    BY <2>1, WindowAssumption DEF WindowInv, WindowTypeOK, LastIsNewest, Length, Slots
  <2>4. QED
    BY <2>2, <2>3 DEF WindowInv
<1>3. QED
  BY <1>1, <1>2

LEMMA NextWindow ==
  ASSUME WindowInv, [WindowNext]_window
  PROVE  WindowInv'
<1>1. CASE Reset
  <2>1. window' = [ring |-> window.ring, next |-> 0, full |-> FALSE, last |-> 0]
    BY <1>1 DEF Reset, Cleared, WindowInv, WindowTypeOK
  <2>2. QED
    BY <2>1, WindowAssumption DEF WindowInv, WindowTypeOK, LastIsNewest, Length, Slots
<1>2. CASE UNCHANGED window
  BY <1>2 DEF WindowInv, WindowTypeOK, LastIsNewest, Length
<1>3. QED
  BY <1>1, <1>2, PushTyped DEF WindowNext

-----------------------------------------------------------------------------
(***************************************************************************)
(* The refinement: the snapshot is the queue.                              *)
(***************************************************************************)
LEMMA SnapshotIsSeq ==
  ASSUME WindowTypeOK
  PROVE  /\ Snapshot(window) \in Seq(Samples)
         /\ Len(Snapshot(window)) = Length(window)
         /\ Length(window) \in 0 .. Cap
         /\ \A i \in 1 .. Length(window) :
              /\ Slot(window, i) \in Slots
              /\ Snapshot(window)[i] = window.ring[Slot(window, i)]
<1>1. Length(window) \in 0 .. Cap
  BY WindowAssumption DEF WindowTypeOK, Length, Slots
<1>2. ASSUME NEW i \in 1 .. Length(window)
      PROVE  Slot(window, i) \in Slots /\ window.ring[Slot(window, i)] \in Samples
  <2>1. CASE window.full
    <3>1. i - 1 \in Slots /\ window.next \in Slots
      BY <1>2, <2>1, WindowAssumption DEF WindowTypeOK, Length, Slots
    <3>2. Slot(window, i) \in Slots
      BY <1>2, <2>1, <3>1, SlotOfFull, WindowAssumption DEF Slots, Length
    <3>3. QED
      BY <2>1, <3>2 DEF WindowTypeOK
  <2>2. CASE ~window.full
    BY <1>2, <2>2, WindowAssumption DEF WindowTypeOK, Length, Slots, Slot
  <2>3. QED
    BY <2>1, <2>2
<1>3. QED
  BY <1>1, <1>2 DEF Snapshot

\* Below a full ring, a stored sample is appended.
LEMMA PushAppends ==
  ASSUME WindowInv, NEW s \in Samples, Push(s), ~(IdOf[s] # 0 /\ IdOf[s] = window.last),
         ~window.full
  PROVE  Snapshot(window)' = Append(Snapshot(window), s)
<1> DEFINE q == Snapshot(window)
<1>1. WindowTypeOK /\ WindowTypeOK'
  BY PushTyped DEF WindowInv
<1>2. /\ window'.ring = [window.ring EXCEPT ![window.next] = s]
      /\ Length(window)' = window.next + 1 /\ Length(window) = window.next
      /\ window.next \in Slots
  BY <1>1, WindowAssumption DEF Push, Pushed, WindowTypeOK, Slots, Length
<1>3. ASSUME NEW i \in 1 .. window.next + 1 PROVE Slot(window', i) = i - 1
  <2>1. CASE window.next + 1 = Cap
    <3>1. window'.full /\ window'.next = 0
      BY <2>1 DEF Push, Pushed
    <3>2. 0 \in Slots /\ i \in 1 .. Cap
      BY <1>2, <2>1, WindowAssumption DEF Slots
    <3>3. Slot(window', i) = IF 0 + i - 1 < Cap THEN 0 + i - 1 ELSE 0 + i - 1 - Cap
      BY <3>1, <3>2, SlotOfFull
    <3>4. QED
      BY <3>2, <3>3, WindowAssumption
  <2>2. CASE window.next + 1 # Cap
    BY <2>2 DEF Push, Pushed, Slot
  <2>3. QED
    BY <2>1, <2>2
<1>4. q \in Seq(Samples) /\ Len(q) = window.next
  BY <1>1, <1>2, SnapshotIsSeq
<1>5. ASSUME NEW i \in 1 .. window.next + 1
      PROVE  Snapshot(window)'[i] = Append(q, s)[i]
  <2>1. Snapshot(window)'[i] = window'.ring[i - 1]
    BY <1>2, <1>3 DEF Snapshot
  <2>2. CASE i = window.next + 1
    BY <1>1, <1>2, <1>4, <2>1, <2>2 DEF WindowTypeOK
  <2>3. CASE i # window.next + 1
    <3>1. i \in 1 .. window.next /\ i - 1 \in Slots /\ i - 1 # window.next
      BY <1>2, <2>3, WindowAssumption DEF Slots
    <3>2. q[i] = window.ring[i - 1]
      BY <1>2, <3>1 DEF Snapshot, Slot
    <3>3. QED
      BY <1>1, <1>2, <1>4, <2>1, <3>1, <3>2 DEF WindowTypeOK
  <2>4. QED
    BY <2>2, <2>3
<1>6. /\ Snapshot(window)' = [i \in 1 .. window.next + 1 |-> Snapshot(window)'[i]]
      /\ Append(q, s) = [i \in 1 .. window.next + 1 |-> Append(q, s)[i]]
  BY <1>2, <1>4 DEF Snapshot, Slots
<1>7. QED
  BY <1>5, <1>6

\* In a full ring it takes the oldest one's slot.
LEMMA PushReplaces ==
  ASSUME WindowInv, NEW s \in Samples, Push(s), ~(IdOf[s] # 0 /\ IdOf[s] = window.last),
         window.full
  PROVE  Snapshot(window)' = Tail(Append(Snapshot(window), s))
<1> DEFINE q == Snapshot(window)
           t == Tail(Append(q, s))
<1>1. WindowTypeOK /\ WindowTypeOK'
  BY PushTyped DEF WindowInv
<1>2. /\ window'.ring = [window.ring EXCEPT ![window.next] = s]
      /\ window'.full
      /\ window'.next = IF window.next + 1 = Cap THEN 0 ELSE window.next + 1
      /\ Length(window)' = Cap /\ Length(window) = Cap
      /\ window.next \in Slots /\ window'.next \in Slots
  BY <1>1, WindowAssumption DEF Push, Pushed, WindowTypeOK, Slots, Length
<1>3. q \in Seq(Samples) /\ Len(q) = Cap
  BY <1>1, <1>2, SnapshotIsSeq
<1>4. t = [i \in 1 .. Cap |-> Append(q, s)[i + 1]]
  <2> DEFINE r == Append(q, s)
  <2>1. r \in Seq(Samples) /\ Len(r) = Cap + 1
    BY <1>3, WindowAssumption
  <2> HIDE DEF r
  <2>2. r # <<>>
    BY <2>1, WindowAssumption
  <2>3. /\ Tail(r) \in Seq(Samples) /\ Len(Tail(r)) = Cap
        /\ \A i \in 1 .. Cap : Tail(r)[i] = r[i + 1]
    BY <2>1, <2>2, HeadTailProperties, WindowAssumption
  <2>4. Tail(r) = [i \in 1 .. Cap |-> r[i + 1]]
    <3> DEFINE u == Tail(r)
    <3> HIDE DEF u
    <3>1. u \in Seq(Samples) /\ Len(u) = Cap /\ \A i \in 1 .. Cap : u[i] = r[i + 1]
      BY <2>3 DEF u
    <3>2. u = [i \in 1 .. Cap |-> u[i]]
      BY <3>1
    <3>3. QED
      BY <3>1, <3>2 DEF u
  <2>5. QED
    BY <2>4 DEF r
<1>5. ASSUME NEW i \in 1 .. Cap
      PROVE  Snapshot(window)'[i] = Append(q, s)[i + 1]
  <2>1. Snapshot(window)'[i] = window'.ring[Slot(window', i)]
    BY <1>2 DEF Snapshot
  <2>2. Slot(window', i) = IF window'.next + i - 1 < Cap THEN window'.next + i - 1
                           ELSE window'.next + i - 1 - Cap
    BY <1>2, SlotOfFull
  <2>3. CASE i = Cap
    <3>1. Slot(window', i) = window.next
      BY <1>2, <2>2, <2>3, WindowAssumption DEF Slots
    <3>2. QED
      BY <1>1, <1>2, <1>3, <2>1, <2>3, <3>1 DEF WindowTypeOK
  <2>4. CASE i # Cap
    <3>1. i + 1 \in 1 .. Cap
      BY <2>4, WindowAssumption
    <3>2. Slot(window, i + 1) = IF window.next + (i + 1) - 1 < Cap
                                THEN window.next + (i + 1) - 1
                                ELSE window.next + (i + 1) - 1 - Cap
      BY <1>2, <3>1, SlotOfFull
    <3>3. /\ Slot(window', i) = Slot(window, i + 1)
          /\ Slot(window, i + 1) \in Slots /\ Slot(window, i + 1) # window.next
      <4> DEFINE n == window.next
                 m == window'.next
      <4>1. /\ n \in 0 .. Cap - 1 /\ m = IF n + 1 = Cap THEN 0 ELSE n + 1
            /\ Slot(window', i) = IF m + i - 1 < Cap THEN m + i - 1 ELSE m + i - 1 - Cap
            /\ Slot(window, i + 1) = IF n + (i + 1) - 1 < Cap THEN n + (i + 1) - 1
                                     ELSE n + (i + 1) - 1 - Cap
        BY <1>2, <2>2, <3>2 DEF Slots
      <4> HIDE DEF n, m
      <4>2. /\ Slot(window', i) = Slot(window, i + 1)
            /\ Slot(window, i + 1) \in Slots /\ Slot(window, i + 1) # n
        BY <2>4, <4>1, WindowAssumption DEF Slots
      <4>3. QED
        BY <4>2 DEF n
    <3>4. q[i + 1] = window.ring[Slot(window, i + 1)]
      BY <1>2, <3>1 DEF Snapshot
    <3>5. QED
      BY <1>1, <1>2, <1>3, <2>1, <3>1, <3>3, <3>4 DEF WindowTypeOK
  <2>5. QED
    BY <2>3, <2>4
<1>6. Snapshot(window)' = [i \in 1 .. Cap |-> Snapshot(window)'[i]]
  BY <1>2 DEF Snapshot
<1>7. QED
  BY <1>4, <1>5, <1>6

\* The ring's last field tells a repeat as the queue's newest sample does.
LEMMA SameRepeats ==
  ASSUME WindowInv, NEW s \in Samples
  PROVE  Recent!Repeats(s) <=> IdOf[s] # 0 /\ IdOf[s] = window.last
<1> DEFINE n == Length(window)
<1>1. WindowTypeOK /\ LastIsNewest
  BY DEF WindowInv
<1>2. /\ Snapshot(window) \in Seq(Samples) /\ Len(Snapshot(window)) = n /\ n \in 0 .. Cap
      /\ \A i \in 1 .. n : Snapshot(window)[i] = window.ring[Slot(window, i)]
  BY <1>1, SnapshotIsSeq
<1>3. CASE n = 0
  BY <1>1, <1>2, <1>3 DEF Recent!Repeats, LastIsNewest
<1>4. CASE n # 0
  <2>1. n \in 1 .. n /\ Snapshot(window) # <<>>
    BY <1>2, <1>4
  <2>2. Slot(window, n) = IF window.next = 0 THEN Cap - 1 ELSE window.next - 1
    <3>1. CASE window.full
      <4>1. window.next \in Slots /\ Cap \in 1 .. Cap /\ n = Cap
        BY <1>1, <3>1, WindowAssumption DEF WindowTypeOK, Length
      <4>2. Slot(window, Cap) = IF window.next + Cap - 1 < Cap THEN window.next + Cap - 1
                                ELSE window.next + Cap - 1 - Cap
        BY <3>1, <4>1, SlotOfFull
      <4>3. QED
        BY <4>1, <4>2, WindowAssumption DEF Slots
    <3>2. CASE ~window.full
      BY <1>1, <1>4, <3>2, WindowAssumption DEF WindowTypeOK, Length, Slot, Slots
    <3>3. QED
      BY <3>1, <3>2
  <2>3. window.last = IdOf[Snapshot(window)[n]]
    BY <1>1, <1>2, <1>4, <2>1, <2>2 DEF LastIsNewest
  <2>4. QED
    BY <1>2, <2>1, <2>3 DEF Recent!Repeats
<1>5. QED
  BY <1>3, <1>4

LEMMA PushImplements ==
  ASSUME WindowInv, NEW s \in Samples, Push(s)
  PROVE  [Recent!Next]_(Snapshot(window))
<1> DEFINE q == Snapshot(window)
<1>1. CASE IdOf[s] # 0 /\ IdOf[s] = window.last
  BY <1>1 DEF Push, Pushed
<1>2. CASE ~(IdOf[s] # 0 /\ IdOf[s] = window.last)
  <2>1. ~Recent!Repeats(s)
    BY <1>2, SameRepeats
  <2>2. /\ q \in Seq(Samples) /\ Len(q) = Length(window) /\ Len(Append(q, s)) = Len(q) + 1
        /\ Cap \in Nat
    BY SnapshotIsSeq, WindowAssumption DEF WindowInv
  <2>3. q' = Recent!Newest(Append(q, s))
    <3>1. CASE window.full
      BY <1>2, <2>2, <3>1, PushReplaces DEF Recent!Newest, Length
    <3>2. CASE ~window.full
      <4>1. Length(window) < Cap
        BY <3>2, WindowAssumption DEF WindowInv, WindowTypeOK, Length, Slots
      <4>2. QED
        BY <1>2, <2>2, <3>2, <4>1, PushAppends DEF Recent!Newest
    <3>3. QED
      BY <3>1, <3>2
  <2>4. Recent!Push(s)
    BY <2>1, <2>3 DEF Recent!Push
  <2>5. QED
    BY <2>4 DEF Recent!Next
<1>3. QED
  BY <1>1, <1>2

LEMMA ResetImplements ==
  ASSUME Reset
  PROVE  Recent!Next
<1>1. Length(window') = 0
  BY DEF Reset, Cleared, Length
<1>2. Snapshot(window)' = <<>>
  BY <1>1 DEF Snapshot
<1>3. QED
  BY <1>2 DEF Recent!Next, Recent!Reset

\* Every behaviour of the ring buffer is one of the bounded queue: order, length
\* and the dropping of repeats are right across wraps and resets.
THEOREM WindowImplementsRecent == WindowSpec => ImplementsRecent
<1>1. WindowInit => WindowInv /\ Recent!Init
  <2>1. WindowInit => Snapshot(window) = <<>>
    BY DEF WindowInit, NewWindow, Snapshot, Length
  <2>2. QED
    BY <2>1, InitWindow DEF Recent!Init
<1>2. WindowInv /\ [WindowNext]_window => WindowInv'
  BY NextWindow
<1>3. WindowInv /\ [WindowNext]_window => [Recent!Next]_(Snapshot(window))
  <2>1. ASSUME WindowInv, UNCHANGED window PROVE UNCHANGED Snapshot(window)
    BY <2>1 DEF Snapshot, Length, Slot
  <2>2. QED
    BY <2>1, PushImplements, ResetImplements DEF WindowNext
<1>4. QED
  BY <1>1, <1>2, <1>3, PTL DEF WindowSpec, ImplementsRecent, Recent!Spec

\* A snapshot reads slots that hold samples, in every window.
THEOREM WindowTyped == WindowSpec => []WindowTypeOK
<1>1. WindowInv => WindowTypeOK
  BY DEF WindowInv
<1> QED
  BY <1>1, InitWindow, NextWindow, PTL DEF WindowSpec

\* The id that Push compares with is the newest stored sample's (window.go:42-44).
THEOREM LastStaysNewest == WindowSpec => []LastIsNewest
<1>1. WindowInv => LastIsNewest
  BY DEF WindowInv
<1> QED
  BY <1>1, InitWindow, NextWindow, PTL DEF WindowSpec
=============================================================================
