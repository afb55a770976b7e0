------------------------------- MODULE MCSimple -------------------------------
(* Constants of the runs of SimpleClient.                                   *)
EXTENDS SimpleClient, TLC

(* One name that fits into the buffer, and one that does not.               *)
MCGroups == {"g", "long", "lon"}
MCTruncated == [g \in MCGroups |-> IF g = "long" THEN "lon" ELSE g]
Symmetry == Permutations(Values)
=============================================================================
