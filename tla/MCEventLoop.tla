----------------------------- MODULE MCEventLoop -----------------------------
(* Constants of the runs of EventLoop.                                      *)
EXTENDS EventLoop, TLC
CONSTANTS c1, c2
TwoEach == [c \in {c1, c2} |-> 2]
TwoAndOne == [c \in {c1, c2} |-> IF c = c1 THEN 2 ELSE 1]
Symmetry == Permutations(Clients)
=============================================================================
