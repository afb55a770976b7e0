-------------------------------- MODULE MCWire --------------------------------
(* Constants of the runs of Wire.                                           *)
EXTENDS Wire

(* The names are so long that two of them do not fit into one message, and  *)
(* "most" is the longest value that can be set.                             *)
MCLength == [s \in {"base", "user", "g", "n", "p", "A", "B", "grp", "most", "more", "huge"} |->
  CASE s \in {"base", "user"} -> 5
    [] s \in {"n", "p"} -> 16400
    [] s \in {"g", "A", "B"} -> 2
    [] s = "grp" -> 18
    [] s = "most" -> 16321
    [] s = "more" -> 16322
    [] s = "huge" -> 32760]

MCLabels == {"A"}
MCGroupData == Data("STRING", "grp")

Group(l) == <<l, "g", Null>>
Key(l, n) == <<l, "g", n>>
MCSlots == {Group("base"), Key("base", "n"), Key("base", "p"), Group("user"), Key("user", "n")}

Kept(d, l) == [data |-> d, label |-> l]
TooLongKept == Kept(Data("STRING", "huge"), "A") \* with buxtonctl --direct
MCInstalled ==
  {f \in [MCSlots -> {Null, Kept(MCGroupData, "A"), Kept(Data("INT32", 7), "A"),
                      Kept(Data("STRING", "most"), "B"), TooLongKept}] :
     \A s \in MCSlots :
       /\ s[3] = Null => f[s] \in {Null, Kept(MCGroupData, "A")}
       /\ s[3] # Null => f[s] # Kept(MCGroupData, "A")
       /\ s = Key("base", "n") => f[s] # TooLongKept
       /\ s = Group("user") => f[s] # Null
       /\ s = Key("user", "n") => f[s] \in {Null, Kept(Data("INT32", 7), "A"), TooLongKept}
       /\ s = Key("base", "p") => f[s] \in {Null, Kept(Data("STRING", "most"), "B")}
       /\ f[Key("user", "n")] = TooLongKept => f[Key("base", "p")] = Null}

CallOf(op, l, g, n, t, v) ==
  [op |-> op, layer |-> l, group |-> g, name |-> n, type |-> t, value |-> v]

MCCalls ==
  {CallOf("SET", l, "g", "n", d.type, d.value) :
     l \in {"base", "user"}, d \in {Data("INT32", 8), Data("STRING", "most"), Data("STRING", "more")}}
  \cup {CallOf("SET", "base", "g", "n", "STRING", "huge")}
  \cup {CallOf("SET_LABEL", "base", "g", n, "STRING", "B") : n \in {"n", Null}}
  \cup {CallOf(op, "base", "g", Null, "STRING", Null) : op \in {"CREATE_GROUP", "REMOVE_GROUP"}}
  \cup {CallOf("GET", l, "g", n, t, Null) :
          l \in {"base", Null}, n \in {"n", Null}, t \in {"INT32", "STRING", "UNSET"}}
  \cup {CallOf("GET_LABEL", "base", "g", n, "UNSET", Null) : n \in {"n", Null}}
  \cup {CallOf("UNSET", l, "g", "n", "INT32", Null) : l \in {"base", Null}}
  \cup {CallOf("LIST", "base", Null, Null, "UNSET", Null)}
  \cup {CallOf("LIST_NAMES", "base", g, p, "UNSET", Null) : g \in {"g", Null}, p \in {"n", Null}}
  \cup {CallOf(op, "base", "g", "n", "INT32", Null) : op \in {"NOTIFY", "UNNOTIFY"}}

(* A group with more names than a message has room for parameters.          *)
MCManySlots == {Group("base")} \cup {Key("base", n) : n \in {"A", "B", "grp", "g"}}
MCManyInstalled == {[s \in MCManySlots |-> Kept(Data("STRING", "A"), "A")]}

Symmetry == Permutations(Ids)
=============================================================================
