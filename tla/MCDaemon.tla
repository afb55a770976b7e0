------------------------------- MODULE MCDaemon -------------------------------
(* Constants of the runs of BuxtonDaemon.                                   *)
EXTENDS BuxtonDaemon

(* One System layer in memory, which every client may write as uid 0.       *)
MCLayerOrder == <<"temp">>
MCLayerConf == [l \in {"temp"} |->
  [type |-> "System", backend |-> "memory", priority |-> 99, readonly |-> FALSE]]
MCMedium == [r \in Resources |-> "rw"]
MCConnUid == [c \in Conns |-> 0]
MCConnLabel == [c \in Conns |-> Null]

Int32(x) == [type |-> "INT32", store |-> x]
(* Every connection has the same uid and label, every descriptor is alike.  *)
Symmetry == Permutations(Conns) \cup Permutations(Fds)

OneValue == {Int32("1")}
TwoValues == {Int32("1"), Int32("2")}
WithZero == {Int32("0"), Int32("1")}
OnlyString == {[type |-> "STRING", store |-> "text"]}
WithString == {Int32("0"), [type |-> "STRING", store |-> "text"]}
=============================================================================
