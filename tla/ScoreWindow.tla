---------------------------- MODULE ScoreWindow ----------------------------
(***************************************************************************)
(* features.Window: the ring buffer of one pod's last samples.  Its mutex  *)
(* makes each method atomic.                                               *)
(*                                                                         *)
(* A definition under a comment that begins "Bug:" is no part of the       *)
(* specification: it is a plausible mistake in the definition after it,    *)
(* which a checked property must catch.                                    *)
(***************************************************************************)
EXTENDS Naturals, Sequences

CONSTANTS
  Samples, IdOf,   \* score events and their sample_id, 0 where it is unset
  Cap,             \* WINDOW_SIZE, at least 1
  NoSample

ASSUME WindowAssumption ==
  Cap \in Nat \ {0} /\ IdOf \in [Samples -> Nat] /\ NoSample \notin Samples

VARIABLE window

Slots == 0 .. Cap - 1
NewWindow == [ring |-> [i \in Slots |-> NoSample], next |-> 0, full |-> FALSE, last |-> 0]

\* Bug: the ring wraps one slot late.
PushedLateWrap(w, s) ==
  IF IdOf[s] # 0 /\ IdOf[s] = w.last THEN w
  ELSE [ring |-> [w.ring EXCEPT ![w.next] = s],
        next |-> IF w.next + 1 > Cap THEN 0 ELSE w.next + 1,
        full |-> w.full \/ w.next + 1 > Cap,
        last |-> IdOf[s]]

Pushed(w, s) ==
  IF IdOf[s] # 0 /\ IdOf[s] = w.last THEN w
  ELSE [ring |-> [w.ring EXCEPT ![w.next] = s],
        next |-> IF w.next + 1 = Cap THEN 0 ELSE w.next + 1,
        full |-> w.full \/ w.next + 1 = Cap,
        last |-> IdOf[s]]

Length(w) == IF w.full THEN Cap ELSE w.next

\* Bug: the reader starts at slot 0 of a full ring too.
SlotFromZero(w, i) == i - 1

\* The slot of the i-th oldest sample: a full ring begins at next.
Slot(w, i) == IF w.full THEN (w.next + (i - 1)) % Cap ELSE i - 1

Snapshot(w) == [i \in 1 .. Length(w) |-> w.ring[Slot(w, i)]]

\* Bug: a reset window remembers the last id and drops the next sample with it.
ClearedButLast(w) == [w EXCEPT !.next = 0, !.full = FALSE]

Cleared(w) == [w EXCEPT !.next = 0, !.full = FALSE, !.last = 0]

Push(s) == window' = Pushed(window, s)
Reset == window' = Cleared(window)

WindowInit == window = NewWindow
WindowNext == Reset \/ \E s \in Samples : Push(s)
WindowSpec == WindowInit /\ [][WindowNext]_window
-----------------------------------------------------------------------------
\* The slots the snapshot reads hold samples.
WindowTypeOK ==
  /\ window \in [ring : [Slots -> Samples \cup {NoSample}], next : Slots,
                 full : BOOLEAN, last : Nat]
  /\ \A i \in Slots : window.full \/ i < window.next => window.ring[i] \in Samples

\* The id that Push compares with is the newest stored sample's, across wraps
\* and resets (window.go:42-44).
LastIsNewest ==
  IF Length(window) > 0
  THEN window.last = IdOf[window.ring[IF window.next = 0 THEN Cap - 1 ELSE window.next - 1]]
  ELSE window.last = 0

\* The ring buffer is the bounded queue it stands for (window.go:30-31, 81-82).
Recent == INSTANCE RecentSamples WITH recent <- Snapshot(window)
ImplementsRecent == Recent!Spec
=============================================================================
