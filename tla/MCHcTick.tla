------------------------------ MODULE MCHcTick ------------------------------
(* Instances of HcTick for TLC: the machine of MCHcActuator, one target.   *)
EXTENDS HcTick, TLC

CONSTANTS t1, v1, v2, a1, a2

MCTargetOf   == [v \in Victims |-> t1]
MCOnline     == 0..2
MCVictimCPUs == [t \in Targets |-> {0}]
MCSecondary  == {1}
MCOrig == [a \in Aggs |-> IF a = a1 THEN [pod |-> {1, 2}, ctr |-> {}]
                                    ELSE [pod |-> {}, ctr |-> {}]]
=============================================================================
