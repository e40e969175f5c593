---------------------------- MODULE MCPolicyLoop ----------------------------
(***************************************************************************)
(* Instances of PolicyLoop for TLC.  Document d1 grows the pod to a fixed  *)
(* limit, d2 by a factor, under the same rule name and with a disabled     *)
(* rule; one document does not compile and one is not accepted at all.     *)
(***************************************************************************)
EXTENDS PolicyLoop

CONSTANTS d1, d2, typo, garbled

Vertical(num, den) == [kind |-> "vertical", by |-> "factor", num |-> num, den |-> den, cpu |-> 0]
Target(cpu) == [kind |-> "vertical", by |-> "target", num |-> 1, den |-> 1, cpu |-> cpu]
Other(kind) == [kind |-> kind, by |-> "none", num |-> 1, den |-> 1, cpu |-> 0]

Rule(name, when, fire, priority) ==
  [name |-> name, when |-> when, fire |-> fire, priority |-> priority, enabled |-> TRUE]

MCRules ==
  [d \in Parsed |->
     IF d = d1
     THEN << Rule("clean", {"low"}, <<Other("restore")>>, 1),
             Rule("grow", {"high"}, <<Target(5), Other("unknown")>>, 2) >>
     ELSE << Rule("grow", {"high"}, <<Vertical(3, 2)>>, 1),
             [Rule("clean", Levels, <<Vertical(1, 2)>>, 2) EXCEPT !.enabled = FALSE] >>]

MCCooldown == [r \in Names |-> IF r = "grow" THEN 2 ELSE 1]
=============================================================================
