--------------------------- MODULE KeyValueService ---------------------------
(***************************************************************************)
(* What a client may rely on when it talks to buxtond, without messages,   *)
(* parameter lists or packed records: each call is carried out at one      *)
(* moment, on the very key and value of the call, or fails and changes     *)
(* nothing, and its answer is what was found at that moment.  Who is       *)
(* allowed to do what is not a matter of this module: any call may fail.   *)
(***************************************************************************)
EXTENDS Naturals, FiniteSets

CONSTANTS
  Ids,       \* message ids
  Calls,     \* [op, layer, group, name, type, value]
  Slots,     \* <<layer, group, name>>, the name Null for the group itself
  Labels,    \* Smack labels
  Installed, \* what the databases may hold at first
  GroupData, \* what a group holds
  Null

VARIABLES
  kv,        \* [Slots -> [data, label] or Null]
  asked,     \* [Ids -> Calls or Null]
  answered   \* [Ids -> [op, status, data] or Null]

vars == <<kv, asked, answered>>

Init ==
  /\ kv \in Installed
  /\ asked = [i \in Ids |-> Null]
  /\ answered = [i \in Ids |-> Null]

Ask(i, c) ==
  /\ asked[i] = Null
  /\ asked' = [asked EXCEPT ![i] = c]
  /\ UNCHANGED <<kv, answered>>

-----------------------------------------------------------------------------
Slot(c) == <<c.layer, c.group, c.name>>
Present(s) == s \in Slots /\ kv[s] # Null
Data(type, value) == [type |-> type, value |-> value]

Answer(i, status, data) ==
  answered' = [answered EXCEPT ![i] = [op |-> asked[i].op, status |-> status, data |-> data]]

Fail(i) == Answer(i, "failed", << >>) /\ UNCHANGED kv

Set(i, c) ==
  /\ Slot(c) \in Slots
  /\ \E label \in IF Present(Slot(c)) THEN {kv[Slot(c)].label} ELSE Labels :
       kv' = [kv EXCEPT ![Slot(c)] = [data |-> Data(c.type, c.value), label |-> label]]
  /\ Answer(i, "ok", << >>)

SetLabel(i, c) ==
  /\ Present(Slot(c))
  /\ kv' = [kv EXCEPT ![Slot(c)].label = c.value]
  /\ Answer(i, "ok", << >>)

CreateGroup(i, c) ==
  /\ Slot(c) \in Slots /\ ~Present(Slot(c))
  /\ \E label \in Labels : kv' = [kv EXCEPT ![Slot(c)] = [data |-> GroupData, label |-> label]]
  /\ Answer(i, "ok", << >>)

(* The keys of the group go with it or not, as the layer's backend does.    *)
RemoveGroup(i, c) ==
  /\ Present(Slot(c))
  /\ \E gone \in {{Slot(c)}, {s \in Slots : s[1] = c.layer /\ s[2] = c.group}} :
       kv' = [s \in Slots |-> IF s \in gone THEN Null ELSE kv[s]]
  /\ Answer(i, "ok", << >>)

Unset(i, c) ==
  /\ Present(Slot(c))
  /\ kv' = [kv EXCEPT ![Slot(c)] = Null]
  /\ Answer(i, "ok", << >>)

(* Without a layer, the value of some layer.                                *)
Readable(s, c) ==
  /\ Present(s) /\ s[2] = c.group /\ s[3] = c.name /\ c.layer \in {Null, s[1]}
  /\ c.type \in {"UNSET", kv[s].data.type}

Get(i, c) ==
  /\ \E s \in Slots : Readable(s, c) /\ Answer(i, "ok", <<kv[s].data>>)
  /\ UNCHANGED kv

GetLabel(i, c) ==
  /\ Present(Slot(c))
  /\ Answer(i, "ok", <<Data("STRING", kv[Slot(c)].label)>>)
  /\ UNCHANGED kv

(* The names in a group, or the groups if none is named, in any order; a    *)
(* name is a prefix of itself only.                                         *)
Names(c) ==
  IF c.group = Null
  THEN {s[2] : s \in {t \in Slots : Present(t) /\ t[1] = c.layer /\ t[3] = Null}}
  ELSE {s[3] : s \in {t \in Slots : Present(t) /\ t[1] = c.layer
                                    /\ t[2] = c.group /\ t[3] # Null}}
Listed(c) == {n \in Names(c) : c.name \in {Null, n}}

ListNames(i, c) ==
  /\ \E order \in [1 .. Cardinality(Listed(c)) -> Listed(c)] :
       /\ \A n \in Listed(c) : \E j \in DOMAIN order : order[j] = n
       /\ Answer(i, "ok", [j \in DOMAIN order |-> Data("STRING", order[j])])
  /\ UNCHANGED kv

(* Registrations are BuxtonDaemon's: here, only a key that can be read may  *)
(* be watched.                                                              *)
Register(i, c) ==
  /\ c.op = "NOTIFY" => \E s \in Slots : Readable(s, [c EXCEPT !.layer = Null])
  /\ Answer(i, "ok", << >>)
  /\ UNCHANGED kv

Serve(i, c) ==
  \/ Fail(i)
  \/ c.op = "SET" /\ Set(i, c)
  \/ c.op = "SET_LABEL" /\ SetLabel(i, c)
  \/ c.op = "CREATE_GROUP" /\ CreateGroup(i, c)
  \/ c.op = "REMOVE_GROUP" /\ RemoveGroup(i, c)
  \/ c.op = "UNSET" /\ Unset(i, c)
  \/ c.op = "GET" /\ Get(i, c)
  \/ c.op = "GET_LABEL" /\ GetLabel(i, c)
  \/ c.op = "LIST_NAMES" /\ ListNames(i, c)
  \/ c.op \in {"NOTIFY", "UNNOTIFY"} /\ Register(i, c)

Next ==
  \E i \in Ids :
    \/ \E c \in Calls : Ask(i, c)
    \/ asked[i] # Null /\ answered[i] = Null /\ Serve(i, asked[i]) /\ UNCHANGED asked

Spec == Init /\ [][Next]_vars
=============================================================================
