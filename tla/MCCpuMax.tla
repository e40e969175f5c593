------------------------------ MODULE MCCpuMax ------------------------------
(***************************************************************************)
(* Instances of CpuMax for TLC.  A full core is 4 units of quota.          *)
(* Aggressor a1 has a quota of two cores, a2 none; the best-effort pod b1  *)
(* has one of half a core and b2 is unbounded.                             *)
(***************************************************************************)
EXTENDS CpuMax

CONSTANTS t1, t2, a1, a2, b1, b2

MCOrig == [p \in Pods |-> CASE p = a1 -> 8 [] p = b1 -> 2 [] OTHER -> Unbounded]
MCScope ==
  [act \in Acts |-> Pods \cap (IF act = "isolate" THEN {a1, a2} ELSE {b1, b2})]
MCRestoreScope == [t \in Targets |-> Pods]
=============================================================================
