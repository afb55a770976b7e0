----------------------------- MODULE BuxtonDirect -----------------------------
(***************************************************************************)
(* The layered key-value store behind every request: shared/direct.c over  *)
(* the backends db/gdbm.c and db/memory.c.  Each buxton_direct_* function  *)
(* is an operator from the databases and a request to its result, so that  *)
(* the state machines built on them (BuxtonStore, BuxtonDaemon) share one  *)
(* definition of what a request does to the data.                          *)
(*                                                                         *)
(* A database is the file of one layer, or of one layer and user for a     *)
(* layer of type User; it maps <<group, name>> to a value and its label,   *)
(* and <<group, Null>> to the entry that stands for the group itself.      *)
(***************************************************************************)
EXTENDS Smack, SequencesExt

CONSTANTS
  LayerOrder,   \* the layers, in the order config->layers is iterated
  LayerConf,    \* [layer -> [type, backend, priority, readonly]]
  Groups,       \* group names
  Names,        \* key names
  Uids,         \* user ids of clients; 0 is root
  Labels,       \* Smack labels
  Values,       \* the values clients store: a set of [type, store]
  Medium,       \* [Resources -> {"rw", "ro", "none"}], how the file opens
  Null          \* the null pointer: no layer, name, label or entry

Layers == {LayerOrder[i] : i \in DOMAIN LayerOrder}

ASSUME LayerAssumption ==
  /\ LayerOrder \in Seq(Layers)
  /\ \A i, j \in DOMAIN LayerOrder : LayerOrder[i] = LayerOrder[j] => i = j
  /\ LayerConf \in [Layers -> [type : {"System", "User"}, backend : {"gdbm", "memory"},
                               priority : Nat, readonly : BOOLEAN]]

ASSUME NullAssumption ==
  /\ Null \notin Layers /\ Null \notin Names /\ Null \notin Labels
  /\ Floor \in Labels
  /\ 0 \in Uids

-----------------------------------------------------------------------------
(* Types.  "UNSET" in a request matches a value of any type.                *)

GroupValue == [type |-> "STRING", store |-> "BUXTON_GROUP_VALUE"]
Data  == Values \cup {GroupValue}
Entry == [data : Data, label : Labels]
Slots == Groups \X (Names \cup {Null})

IsUserLayer(layer) == LayerConf[layer].type = "User"

Resource(layer, uid) == <<layer, IF IsUserLayer(layer) THEN uid ELSE Null>>
Resources == {Resource(l, u) : l \in Layers, u \in Uids}

DB == [Resources -> [Slots -> Entry \cup {Null}]]
EmptyDB == [r \in Resources |-> [s \in Slots |-> Null]]

ASSUME MediumAssumption ==
  /\ Null \notin Data
  /\ Medium \in [Resources -> {"rw", "ro", "none"}]
  /\ \A r \in Resources : LayerConf[r[1]].backend = "memory" => Medium[r] = "rw"
  /\ \A e \in Entry : e # Null

(* A request names [layer, group, name, type]; layer or name may be Null.   *)
ValueTypes == {v.type : v \in Data}
Key(l, g, n, t) == [layer |-> l, group |-> g, name |-> n, type |-> t]
Slot(key) == <<key.group, key.name>>
GroupKey(key) == [key EXCEPT !.name = Null, !.type = "STRING"]
KeyIn(layer, key) == [key EXCEPT !.layer = layer]
NoValue(ret) == [ret |-> ret, data |-> Null, label |-> Null]

-----------------------------------------------------------------------------
(* The backends.                                                            *)

BackendGet(db, uid, key) ==
  LET r == Resource(key.layer, uid)
      e == db[r][Slot(key)]
  IN IF Medium[r] = "none" THEN NoValue("-ENOENT")
     ELSE IF e = Null THEN NoValue("ENOENT")
     ELSE IF key.type \notin {e.data.type, "UNSET"} THEN NoValue("EINVAL")
     ELSE [ret |-> "OK", data |-> e.data, label |-> e.label]

(* data is Null when only the label is to change.                           *)
BackendCanSet(db, uid, key, data) ==
  LET r == Resource(key.layer, uid)
  IN Medium[r] = "rw" /\ (data # Null \/ db[r][Slot(key)] # Null)

BackendSet(db, uid, key, data, label) ==
  LET r == Resource(key.layer, uid)
      kept == IF data = Null THEN db[r][Slot(key)].data ELSE data
  IN [db EXCEPT ![r][Slot(key)] = [data |-> kept, label |-> label]]

(* gdbm deletes the one record it is given; memory, given a group, deletes  *)
(* every record whose group name matches.                                   *)
DoomedOne(key) == {Slot(key)} \* mutant: the keys of the group stay
Doomed(key) ==
  IF LayerConf[key.layer].backend = "memory" /\ key.name = Null
  THEN {s \in Slots : s[1] = key.group}
  ELSE {Slot(key)}

BackendCanUnset(db, uid, key) ==
  LET r == Resource(key.layer, uid)
  IN Medium[r] = "rw" /\ \E s \in Doomed(key) : db[r][s] # Null

BackendUnset(db, uid, key) ==
  [db EXCEPT ![Resource(key.layer, uid)] =
     [s \in Slots |-> IF s \in Doomed(key) THEN Null ELSE @[s]]]

(* Names of groups when group is Null, else names of the keys of the group; *)
(* a listing that fails, of a file that does not open, gives no names.      *)
BackendListNames(db, uid, layer, group) ==
  LET r == Resource(layer, uid)
      stored == {s \in Slots : db[r][s] # Null}
  IN IF Medium[r] = "none" THEN {}
     ELSE IF group = Null
     THEN {s[1] : s \in {t \in stored : t[2] = Null}}
     ELSE {s[2] : s \in {t \in stored : t[1] = group /\ t[2] # Null}}

-----------------------------------------------------------------------------
(* buxton_direct_get_value and buxton_direct_get_value_for_layer.  A Null   *)
(* label is a caller exempt from access checks.                             *)

MayRead(smack, label, object)  == label = Null \/ CheckSmackAccess(smack, label, object, READ)
MayWrite(smack, label, object) == label = Null \/ CheckSmackAccess(smack, label, object, WRITE)

GetValueForLayer(db, smack, uid, key, label) ==
  LET g == BackendGet(db, uid, GroupKey(key))
      v == BackendGet(db, uid, key)
  IN IF key.layer \notin Layers THEN NoValue("EINVAL")
     ELSE IF key.name # Null /\ g.ret # "OK" THEN NoValue(g.ret)
     ELSE IF key.name # Null /\ ~MayRead(smack, label, g.label) THEN NoValue("EPERM")
     ELSE IF v.ret = "OK" /\ ~MayRead(smack, label, v.label) THEN NoValue("EPERM")
     ELSE v

(* One turn of the loop over the layers: does l replace the layer chosen so *)
(* far, a [layer, priority] that starts as Null and 0?                      *)
(* Mutant: a priority must be higher.                                       *)
SupersedesAbove(l, chosen) ==
  ~(chosen.layer # Null /\ ~IsUserLayer(chosen.layer) /\ IsUserLayer(l))
  /\ chosen.priority < LayerConf[l].priority
Supersedes(l, chosen) ==
  LET fromSystem == chosen.layer # Null /\ ~IsUserLayer(chosen.layer)
      atLeast == chosen.priority <= LayerConf[l].priority
  IN IF IsUserLayer(l) THEN ~fromSystem /\ atLeast ELSE ~fromSystem \/ atLeast

(* The loop over the layers in which the key can be read; chosen[i] is what *)
(* its turns have chosen once it has seen i layers.                         *)
ChosenOf(readable) ==
  LET chosen[i \in 0 .. Len(LayerOrder)] ==
        IF i = 0 THEN [layer |-> Null, priority |-> 0]
        ELSE LET l == LayerOrder[i]
                 before == chosen[i - 1]
             IN  IF l \in readable /\ Supersedes(l, before)
                 THEN [layer |-> l, priority |-> LayerConf[l].priority]
                 ELSE before
  IN  chosen[Len(LayerOrder)].layer

ChosenLayer(db, smack, uid, key, label) ==
  ChosenOf({l \in Layers : GetValueForLayer(db, smack, uid, KeyIn(l, key), label).ret = "OK"})

GetValue(db, smack, uid, key, label) ==
  IF key.layer # Null THEN GetValueForLayer(db, smack, uid, key, label)
  ELSE LET l == ChosenLayer(db, smack, uid, key, label)
       IN IF l = Null THEN NoValue("ENOENT")
          ELSE GetValueForLayer(db, smack, uid, KeyIn(l, key), label)

-----------------------------------------------------------------------------
(* The requests that change data: whether each is granted, and the          *)
(* databases after it.  Nothing changes when it is refused.                 *)

Writable(layer) == layer \in Layers /\ ~LayerConf[layer].readonly
RootIfSystemNot(layer, uid) == TRUE \* mutant: uid 0 is not asked for
RootIfSystem(layer, uid) == IsUserLayer(layer) \/ uid = 0

(* Mutant: the label of the value that is replaced is not looked at.        *)
CanSetValueUnchecked(db, smack, uid, key, value, label) ==
  LET g == GetValueForLayer(db, smack, uid, GroupKey(key), Null)
  IN /\ g.ret = "OK" /\ MayWrite(smack, label, g.label)
     /\ Writable(key.layer) /\ BackendCanSet(db, uid, key, value)
CanSetValue(db, smack, uid, key, value, label) ==
  LET g == GetValueForLayer(db, smack, uid, GroupKey(key), Null)
      old == GetValueForLayer(db, smack, uid, [key EXCEPT !.type = "UNSET"], Null)
  IN /\ g.ret = "OK"
     /\ MayWrite(smack, label, g.label)
     /\ old.ret \notin {"-ENOENT", "EINVAL"}
     /\ old.ret = "OK" => MayWrite(smack, label, old.label)
     /\ Writable(key.layer)
     /\ BackendCanSet(db, uid, key, value)

(* An existing key keeps its label; a new one takes the client's.           *)
LabelForSetOld(db, smack, uid, key, label) == \* mutant: a new key gets no label
  GetValueForLayer(db, smack, uid, [key EXCEPT !.type = "UNSET"], Null).label
LabelForSet(db, smack, uid, key, label) ==
  LET old == GetValueForLayer(db, smack, uid, [key EXCEPT !.type = "UNSET"], Null)
  IN IF old.ret = "OK" THEN old.label ELSE IF label = Null THEN Floor ELSE label

SetValue(db, smack, uid, key, value, label) ==
  BackendSet(db, uid, key, value, LabelForSet(db, smack, uid, key, label))

CanSetLabel(db, uid, key) ==
  /\ Writable(key.layer)
  /\ ~IsUserLayer(key.layer)
  /\ uid = 0
  /\ BackendCanSet(db, uid, key, Null)

SetLabel(db, uid, key, newlabel) == BackendSet(db, uid, key, Null, newlabel)

CanCreateGroup(db, smack, uid, key) ==
  /\ Writable(key.layer)
  /\ RootIfSystem(key.layer, uid)
  /\ GetValueForLayer(db, smack, uid, key, Null).ret = "ENOENT"
  /\ BackendCanSet(db, uid, key, GroupValue)

CreateGroup(db, uid, key, label) ==
  BackendSet(db, uid, key, GroupValue, IF label = Null THEN Floor ELSE label)

CanRemoveGroup(db, smack, uid, key, label) ==
  LET g == GetValueForLayer(db, smack, uid, key, Null)
  IN /\ Writable(key.layer)
     /\ RootIfSystem(key.layer, uid)
     /\ g.ret = "OK"
     /\ IsUserLayer(key.layer) => MayWrite(smack, label, g.label)
     /\ BackendCanUnset(db, uid, key)

CanUnsetValue(db, smack, uid, key, label) ==
  LET g == GetValueForLayer(db, smack, uid, GroupKey(key), Null)
      old == GetValueForLayer(db, smack, uid, key, Null)
  IN /\ g.ret = "OK"
     /\ MayWrite(smack, label, g.label)
     /\ label # Null => old.ret = "OK" /\ MayWrite(smack, label, old.label)
     /\ Writable(key.layer)
     /\ BackendCanUnset(db, uid, key)

RemoveGroup(db, uid, key) == BackendUnset(db, uid, key)
UnsetValue(db, uid, key)  == BackendUnset(db, uid, key)

(* What is left when the daemon stops: the gdbm files.                      *)
Persisted(db) ==
  [r \in Resources |-> IF LayerConf[r[1]].backend = "gdbm" THEN db[r] ELSE EmptyDB[r]]
=============================================================================
