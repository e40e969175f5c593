---------------------------- MODULE MCHcActuator ----------------------------
(***************************************************************************)
(* Instances of HcActuator for TLC: three CPUs, of which 0 is the victims' *)
(* and 1 the aggressors' own.  Aggressor a1 is in the pod-level pool       *)
(* {1, 2} of the orchestrator, a2 inherits everything.                     *)
(***************************************************************************)
EXTENDS HcActuator, TLC

CONSTANTS t1, v1, v2, a1, a2

MCTargetOf   == [v \in Victims |-> t1]
MCOnline     == 0..2
MCVictimCPUs == [t \in Targets |-> {0}]
MCSecondary  == {1}
MCOrig == [a \in Aggs |-> IF a = a1 THEN [pod |-> {1, 2}, ctr |-> {}]
                                    ELSE [pod |-> {}, ctr |-> {}]]
=============================================================================
