------------------------------ MODULE BuxtonStore ------------------------------
(***************************************************************************)
(* The data side of buxtond: the databases of the configured layers, the   *)
(* cached Smack rules, and the requests of clients that change them.  One  *)
(* action is one request served to its end, for the daemon has one thread  *)
(* and calls no one between reading a request and finishing with the data. *)
(* A request that only reads changes nothing here; what it answers is the  *)
(* operator GetValue or ListNames, about which the invariants speak.       *)
(***************************************************************************)
EXTENDS BuxtonDirect

CONSTANTS
  Clients,      \* connected clients
  ClientUid,    \* [Clients -> Uids], SO_PEERCRED
  ClientLabel,  \* [Clients -> Labels or Null], SO_PEERSEC
  RuleFiles,    \* the contents load2 may have: a set of rule sequences
  SmackMounted, \* whether the daemon finds smackfs when it starts
  DaemonUid,    \* geteuid() of the daemon
  Installed     \* the database files that may be there at the first start

ASSUME ClientAssumption ==
  /\ ClientUid \in [Clients -> Uids]
  /\ ClientLabel \in [Clients -> Labels \cup {Null}]
  /\ RuleFiles # {}
  /\ \A f \in RuleFiles :
       f \in Seq([subject : Labels, object : Labels, access : SUBSET {"r", "w"}])
  /\ SmackMounted \in BOOLEAN
  /\ DaemonUid \in Uids
  /\ \A d \in Installed : d \in DB /\ Persisted(d) = d

VARIABLES
  db,     \* what the backends hold
  smack   \* the cache of smack.c

vars == <<db, smack>>

-----------------------------------------------------------------------------
(* Keys of groups, as parse_list builds them.                               *)
GroupKeys == {Key(l, g, Null, "STRING") : l \in Layers, g \in Groups}

LoadedCaches ==
  IF SmackMounted
  THEN {[have |-> TRUE, rules |-> RulesOf(f)] : f \in RuleFiles}
  ELSE {SmackDisabled}

Init ==
  /\ db \in Installed
  /\ smack \in LoadedCaches

(* A request is granted and takes effect, or is refused without a trace.    *)
Serve(granted, newdb) ==
  /\ db' = IF granted THEN newdb ELSE db
  /\ UNCHANGED smack

SetValueRequest(c, key, v) ==
  Serve(CanSetValue(db, smack, ClientUid[c], key, v, ClientLabel[c]),
        SetValue(db, smack, ClientUid[c], key, v, ClientLabel[c]))

SetLabelRequest(c, key, label) ==
  Serve(CanSetLabel(db, ClientUid[c], key), SetLabel(db, ClientUid[c], key, label))

CreateGroupRequest(c, key) ==
  Serve(CanCreateGroup(db, smack, ClientUid[c], key),
        CreateGroup(db, ClientUid[c], key, ClientLabel[c]))

RemoveGroupRequest(c, key) ==
  Serve(CanRemoveGroup(db, smack, ClientUid[c], key, ClientLabel[c]),
        RemoveGroup(db, ClientUid[c], key))

UnsetValueRequest(c, key) ==
  Serve(CanUnsetValue(db, smack, ClientUid[c], key, ClientLabel[c]),
        UnsetValue(db, ClientUid[c], key))

(* The inotify watch on load2 fires; it exists only when Smack was found.   *)
(* When load2 cannot be read the daemon ends, which is Restart.             *)
ReloadRules ==
  /\ smack.have
  /\ \E f \in RuleFiles : smack' = CacheSmackRules(smack, f)
  /\ UNCHANGED db

(* The daemon ends, of its own accord or stopped, and is started again.     *)
Restart ==
  /\ db' = Persisted(db)
  /\ smack' \in LoadedCaches

Next ==
  \/ \E c \in Clients, l \in Layers, g \in Groups, n \in Names :
       \/ \E v \in Values : SetValueRequest(c, Key(l, g, n, v.type), v)
       \/ \E t \in ValueTypes : UnsetValueRequest(c, Key(l, g, n, t))
  \/ \E c \in Clients, l \in Layers, g \in Groups, n \in Names \cup {Null}, b \in Labels :
       SetLabelRequest(c, Key(l, g, n, "UNSET"), b)
  \/ \E c \in Clients, k \in GroupKeys : CreateGroupRequest(c, k) \/ RemoveGroupRequest(c, k)
  \/ ReloadRules
  \/ Restart

Spec == Init /\ [][Next]_vars

-----------------------------------------------------------------------------
(* What a read request answers.  list_names of the daemon does not put the  *)
(* uid of the client in place of its own before it asks the layer.          *)

ClientGet(c, key) == GetValue(db, smack, ClientUid[c], key, ClientLabel[c])
ClientListNames(c, layer, group) == BackendListNames(db, DaemonUid, layer, group)

(* Type invariant: the databases hold entries, the cache rules.             *)
TypeOK ==
  /\ db \in DB
  /\ smack.have \in BOOLEAN
  /\ \A p \in DOMAIN smack.rules : smack.rules[p] \subseteq {"r", "w"}

-----------------------------------------------------------------------------
(* Reading across layers.                                                   *)

(* The layers in which client c can read key k.                             *)
Readable(c, k) == {l \in Layers : ClientGet(c, KeyIn(l, k)).ret = "OK"}

Position(l) == CHOOSE i \in DOMAIN LayerOrder : LayerOrder[i] = l

(* a outranks b: System layers come before User layers, then the higher     *)
(* priority, then the layer configured later.                               *)
Outranks(a, b) ==
  \/ ~IsUserLayer(a) /\ IsUserLayer(b)
  \/ /\ IsUserLayer(a) <=> IsUserLayer(b)
     /\ \/ LayerConf[a].priority > LayerConf[b].priority
        \/ LayerConf[a].priority = LayerConf[b].priority /\ Position(a) >= Position(b)

LayerlessKeys == {Key(Null, g, n, t) : g \in Groups, n \in Names, t \in ValueTypes \cup {"UNSET"}}

(* A read that names no layer answers from the one layer that outranks all  *)
(* others in which this client can read the key with this type, and finds   *)
(* nothing only when there is none: whatever the iteration order, and       *)
(* however layers the client may not read are interleaved with the others.  *)
(* That System layers come first is what the loop over config->layers in    *)
(* buxton_direct_get_value does; the manual says otherwise: PriorityDecides. *)
LayerlessReadsBest ==
  \A c \in Clients, k \in LayerlessKeys :
    IF Readable(c, k) = {} THEN ClientGet(c, k).ret = "ENOENT"
    ELSE \E best \in Readable(c, k) :
           /\ \A l \in Readable(c, k) : Outranks(best, l)
           /\ ClientGet(c, k) = ClientGet(c, KeyIn(best, k))

(* docs/buxtonctl.1:111-114: "the returned value will be taken from the     *)
(* layer with highest priority that the client has permission to read", and *)
(* docs/buxton_get_value.3:47-50: "buxton will traverse layers in priority  *)
(* order searching for the key-name value, selecting the value for the      *)
(* first key-name found".                                                   *)
PriorityDecides ==
  \A c \in Clients, k \in LayerlessKeys : Readable(c, k) # {} =>
    \E best \in Readable(c, k) :
      /\ \A l \in Readable(c, k) : LayerConf[best].priority >= LayerConf[l].priority
      /\ ClientGet(c, k) = ClientGet(c, KeyIn(best, k))

-----------------------------------------------------------------------------
(* Groups and their keys.                                                   *)

Orphans(r) == {s \in Slots : s[2] # Null /\ db[r][s] # Null /\ db[r][<<s[1], Null>>] = Null}

(* In a layer kept in memory no key outlives its group, however groups are  *)
(* removed and made again by clients with different rights.                 *)
(* (memory.c unset_group, and the group check that precedes every set)      *)
MemoryKeysHaveGroup ==
  \A r \in Resources : LayerConf[r[1]].backend = "memory" => Orphans(r) = {}

(* docs/buxton_create_group.3:67-69: removing a group "is recursive,        *)
(* removing all key-names within a group, and the group itself".            *)
RemoveGroupIsRecursive == \A r \in Resources : Orphans(r) = {}

(* docs/buxton_list_names.3:57-59: "the list of the key-names of a group"   *)
(* of a layer: a client finds there every key it can read in that layer.    *)
ListNamesShowsReadable ==
  \A c \in Clients, k \in LayerlessKeys, l \in Layers :
    l \in Readable(c, k) => k.name \in ClientListNames(c, l, k.group)

-----------------------------------------------------------------------------
(* What a request may do to the data of others.                             *)

Changed == {rs \in Resources \X Slots : db'[rs[1]][rs[2]] # db[rs[1]][rs[2]]}
LabelOf(rs) == db[rs[1]][rs[2]].label
Existed(rs) == db[rs[1]][rs[2]] # Null

(* A client that sets or unsets a key changes that one entry, in its own    *)
(* database, and only when the rules then loaded let it write the group and *)
(* the entry it replaces, whoever labelled them and since when; and an      *)
(* entry keeps its label when another client overwrites its value.          *)
(* (buxton_direct_set_value, buxton_direct_unset_value)                     *)
WritersAreAllowed ==
  [][db' # db =>
     \A c \in Clients, l \in Layers, g \in Groups, n \in Names, t \in ValueTypes :
       LET key == Key(l, g, n, t)
           r == Resource(l, ClientUid[c])
           may(s) == MayWrite(smack, ClientLabel[c], LabelOf(<<r, s>>))
       IN (\/ \E v \in Values : v.type = t /\ SetValueRequest(c, key, v)
           \/ UnsetValueRequest(c, key)) =>
          \A rs \in Changed :
            /\ rs = <<r, <<g, n>>>>
            /\ Existed(<<r, <<g, Null>>>>) /\ may(<<g, Null>>)
            /\ Existed(rs) => may(<<g, n>>)
            /\ Existed(rs) /\ db'[r][rs[2]] # Null => db'[r][rs[2]].label = LabelOf(rs)]_vars

(* What belongs to everybody, a System layer, gets and loses groups and     *)
(* labels through uid 0 alone, whatever the labels say; in a User layer a   *)
(* client creates and removes groups in its own database only, removes none *)
(* that it may not write, and never relabels an entry.  No entry of another *)
(* group is touched.                                                        *)
(* (buxton_direct_set_label, create_group and remove_group)                 *)
AdministratorsAreAllowed ==
  [][db' # db =>
     \A c \in Clients, l \in Layers, g \in Groups :
       LET r == Resource(l, ClientUid[c])
           group == <<g, Null>>
           remove == RemoveGroupRequest(c, Key(l, g, Null, "STRING"))
           create == CreateGroupRequest(c, Key(l, g, Null, "STRING"))
           label == \E n \in Names \cup {Null}, b \in Labels :
                      SetLabelRequest(c, Key(l, g, n, "UNSET"), b)
       IN remove \/ create \/ label =>
          \A rs \in Changed :
            /\ rs[1] = r /\ rs[2][1] = g
            /\ IF IsUserLayer(l) THEN ~label ELSE ClientUid[c] = 0
            /\ create => rs[2] = group /\ ~Existed(rs)
            /\ remove /\ IsUserLayer(l) =>
                 Existed(<<r, group>>) /\ MayWrite(smack, ClientLabel[c], LabelOf(<<r, group>>))]_vars

(* A value that a set reported stored is what the same client reads back    *)
(* from that layer: whoever may write an entry may read it, and the label a *)
(* new entry takes from its creator does not shut the creator out.          *)
(* (buxton_direct_set_value against buxton_direct_get_value_for_layer)      *)
ReadYourWrite ==
  [][db' # db =>
     \A c \in Clients, l \in Layers, g \in Groups, n \in Names, v \in Values :
       LET key == Key(l, g, n, v.type)
       IN SetValueRequest(c, key, v)
          /\ CanSetValue(db, smack, ClientUid[c], key, v, ClientLabel[c]) =>
            LET answer == GetValue(db', smack', ClientUid[c], key, ClientLabel[c])
            IN answer.ret = "OK" /\ answer.data = v]_vars
=============================================================================
