-------------------------- MODULE MCHorizontalTick --------------------------
(* Instances of HorizontalTick for TLC.  The rules ask for two floors and  *)
(* for one replica more.                                                   *)
EXTENDS HorizontalTick

CONSTANTS n1, n2

Floor(r) == [kind |-> "ensure_min", by |-> r, min |-> 1, max |-> MaxReplicas]

MCRuleCalls == {Floor(2), Floor(3), Step(1)}
MCCalls == MCRuleCalls \cup {Step(1), Step(-1)}

\* A floor above the max_replicas beside it, and a rule with a higher maximum.
MCHighFloor == {[kind |-> "ensure_min", by |-> 4, min |-> 1, max |-> 2], Floor(3)}
=============================================================================
