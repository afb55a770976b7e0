------------------------------- MODULE Requests -------------------------------
(***************************************************************************)
(* What the client library promises about requests, without threads,       *)
(* tables, clocks or channels: a request waits for the daemon's decision;  *)
(* it ends at most once, by the decision on that very request, or it is    *)
(* forgotten, and then it stays forgotten whatever the daemon decides.     *)
(***************************************************************************)
CONSTANTS
  Ids,       \* message ids
  Statuses,  \* what the daemon may decide
  Null       \* nothing decided

VARIABLES
  outcome,   \* "unmade", "waiting", "forgotten", or the status it ended with
  said       \* what the daemon decided, or Null

vars == <<outcome, said>>

TypeOK ==
  /\ outcome \in [Ids -> {"unmade", "waiting", "forgotten"} \cup Statuses]
  /\ said \in [Ids -> Statuses \cup {Null}]

Init ==
  /\ outcome = [i \in Ids |-> "unmade"]
  /\ said = [i \in Ids |-> Null]

(* Some waiting requests are forgotten, and a new one may be made.          *)
Turn(made, forgotten) ==
  /\ \A i \in made : outcome[i] = "unmade"
  /\ \A i \in forgotten : outcome[i] = "waiting"
  /\ outcome' = [i \in Ids |-> IF i \in made THEN "waiting"
                               ELSE IF i \in forgotten THEN "forgotten"
                               ELSE outcome[i]]
  /\ UNCHANGED said

Decide(i, status) ==
  /\ outcome[i] \in {"waiting", "forgotten"}
  /\ said[i] = Null
  /\ said' = [said EXCEPT ![i] = status]
  /\ UNCHANGED outcome

End(i) ==
  /\ outcome[i] = "waiting"
  /\ said[i] # Null
  /\ outcome' = [outcome EXCEPT ![i] = said[i]]
  /\ UNCHANGED said

Next ==
  \/ \E made \in SUBSET Ids, forgotten \in SUBSET Ids : Turn(made, forgotten)
  \/ \E i \in Ids : End(i) \/ \E status \in Statuses : Decide(i, status)

Spec == Init /\ [][Next]_vars
===============================================================================
