--------------------------- MODULE RecentSamples ---------------------------
(***************************************************************************)
(* What a pod's feature window promises its reader: the most recent Cap    *)
(* samples since the last reset, oldest first, and a sample that comes     *)
(* again right after itself only once.  Identifier 0 means "has none".     *)
(***************************************************************************)
EXTENDS Naturals, Sequences

CONSTANTS Samples, IdOf, Cap

VARIABLE recent

Repeats(s) ==
  recent # <<>> /\ IdOf[s] # 0 /\ IdOf[s] = IdOf[recent[Len(recent)]]

Newest(q) == IF Len(q) > Cap THEN Tail(q) ELSE q

Push(s) ==
  /\ ~Repeats(s)
  /\ recent' = Newest(Append(recent, s))

Reset == recent' = <<>>

Init == recent = <<>>
Next == Reset \/ \E s \in Samples : Push(s)
Spec == Init /\ [][Next]_recent
=============================================================================
