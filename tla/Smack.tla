-------------------------------- MODULE Smack --------------------------------
(***************************************************************************)
(* The daemon's view of the Smack rule set (src/security/smack.c): the     *)
(* rules cached from the kernel's load2 file, and the access check made    *)
(* against that cache.  A label is a string; the four labels the kernel    *)
(* reserves have their usual spelling.                                     *)
(***************************************************************************)
EXTENDS Naturals, Sequences

Floor == "_"
Star  == "*"
Web   == "@"
Hat   == "^"

READ  == "READ"
WRITE == "WRITE"

-----------------------------------------------------------------------------
(* A cache is [have |-> have_smack, rules |-> _smackrules]: a function from *)
(* <<subject, object>> to the subset of {"r", "w"} that the rule grants.    *)

SmackDisabled == [have |-> FALSE, rules |-> << >>]

(* load2 as a sequence of [subject, object, access].  hashmap_put refuses a *)
(* key it already holds, so of two rules for one pair the first counts.     *)
RulesOf(load2) ==
  LET Pair(i) == <<load2[i].subject, load2[i].object>>
      FirstFor(p) == CHOOSE i \in DOMAIN load2 :
                        Pair(i) = p /\ \A j \in 1..(i - 1) : Pair(j) # p
  IN [p \in {Pair(i) : i \in DOMAIN load2} |-> load2[FirstFor(p)].access]

(* The file is there and read to its end.  One that cannot be opened or     *)
(* read, or ends in the middle of a rule, leaves part of the rules and      *)
(* returns false, on which the daemon exits (RereadRules of EventLoop,      *)
(* Restart of BuxtonStore).  Once Smack was found missing the daemon never  *)
(* looks for it again.                                                      *)
CacheSmackRules(smack, load2) ==
  IF smack.have THEN [smack EXCEPT !.rules = RulesOf(load2)] ELSE smack

(* Mutant: a rule that grants "w" is enough to write.                       *)
CheckSmackAccessWriteOnly(smack, subject, object, request) ==
  \/ ~smack.have
  \/ subject # Star /\ (subject = object \/ object = Star)
  \/ /\ <<subject, object>> \in DOMAIN smack.rules
     /\ (IF request = WRITE THEN "w" ELSE "r") \in smack.rules[<<subject, object>>]
CheckSmackAccess(smack, subject, object, request) ==
  \/ ~smack.have
  \/ /\ subject # Star
     /\ \/ Web \in {subject, object}
        \/ object = Star
        \/ subject = object
        \/ request = READ /\ (object = Floor \/ subject = Hat)
        \/ /\ <<subject, object>> \in DOMAIN smack.rules
           /\ "r" \in smack.rules[<<subject, object>>]
           /\ request = WRITE => "w" \in smack.rules[<<subject, object>>]
=============================================================================
