----------------------------- MODULE BuxtonDaemon -----------------------------
(***************************************************************************)
(* buxtond's request handlers and its registry of notifications            *)
(* (core/daemon.c), over the databases of BuxtonDirect.                    *)
(*                                                                         *)
(* The daemon has one thread.  It accepts connections, serves one message  *)
(* of one client at a time, and after a granted SET or UNSET, once the     *)
(* reply is written, walks the list of registrations of the key and writes *)
(* a CHANGED message to each client whose last known value differs.  A     *)
(* connection that fails is taken out of the registry key by key.  These   *)
(* two walks are the variable task, one action per list element, for       *)
(* peers may close their end between any two writes.                       *)
(*                                                                         *)
(* The registry is two maps that must agree: notify_mapping from a key to  *)
(* the registrations on it, client_key_mapping from a descriptor to the    *)
(* keys its client registered.  A registration points to its client        *)
(* (Conns: one client_list_item, never used again once freed) while        *)
(* client_key_mapping knows it by descriptor, which the kernel reuses.     *)
(***************************************************************************)
EXTENDS BuxtonDirect, Integers, FiniteSets

CONSTANTS
  Conns,            \* connections: client_list_item structures
  Fds,              \* descriptors of accepted sockets
  ConnUid,          \* [Conns -> Uids], the peer's uid
  ConnLabel,        \* [Conns -> Labels or Null], the peer's Smack label
  DaemonUid,        \* geteuid() of the daemon
  Rules,            \* the cached Smack rules
  MsgIds,           \* message ids clients choose, a set of numbers
  Patient,          \* TRUE if a peer closes only after its last reply
  MaxRegistrations  \* bound: registrations on one key

ASSUME ConnAssumption ==
  /\ ConnUid \in [Conns -> Uids] /\ DaemonUid \in Uids
  /\ ConnLabel \in [Conns -> Labels \cup {Null}]
  /\ MsgIds \subseteq Nat
  /\ Patient \in BOOLEAN
  /\ MaxRegistrations \in Nat
  /\ Null \notin Conns /\ Null \notin Fds

VARIABLES
  db,                  \* what the backends hold
  accepted,            \* connections accepted so far
  client_list,         \* those of them not freed
  fd,                  \* [Conns -> descriptor or Null]
  hungup,              \* connections whose peer closed its end
  notify_mapping,      \* [key -> sequence of registrations]
  client_key_mapping,  \* [descriptor -> sequence of keys]
  task,                \* the walk the daemon is in, if any
  out,                 \* the message the last step wrote to a client
  known                \* history: the registrations each client was told of

vars == <<db, accepted, client_list, fd, hungup, notify_mapping, client_key_mapping,
          task, out, known>>

-----------------------------------------------------------------------------
(* notify_key_name: the key without its layer; empty names have none.       *)
NKeys == {k \in Groups \X Names : "" \notin {k[1], k[2]}}
NotifyKeyName(key) ==
  IF "" \in {key.group, key.name} THEN Null ELSE <<key.group, key.name>>

(* old_data after an UNSET: malloc0.                                        *)
Zeroed == [type |-> "MIN", store |-> "0"]

(* A BuxtonNotification.  stale is history: a value other than old_data was *)
(* written to the key and the client has not been sent it.                  *)
Registration == [client : Conns, old_data : Data \cup {Zeroed}, msgid : MsgIds, stale : BOOLEAN]

Idle == [op |-> "idle"]
Aborted == [op |-> "aborted"]
Crashed == [op |-> "crashed"]
Notifying(nk, value, i) == [op |-> "notify", key |-> nk, value |-> value, i |-> i]
Terminating(c, rest) == [op |-> "terminate", conn |-> c, rest |-> rest]

Silence == [type |-> "none"]
StatusMessage(c, msgid, status, data) ==
  [type |-> "STATUS", to |-> c, msgid |-> msgid, status |-> status, data |-> data]
ChangedMessage(c, msgid, value) ==
  [type |-> "CHANGED", to |-> c, msgid |-> msgid, data |-> value]

(* BUXTON_LIST_FOREACH ... break: the first element that passes the test.   *)
(* Mutant: the loop forgets to compare the client.                          *)
FirstOfAnyone(c, s, i) == i \in DOMAIN s /\ i = 1
FirstOf(c, s, i) == /\ i \in DOMAIN s
                    /\ s[i].client = c
                    /\ \A j \in 1..(i - 1) : s[j].client # c
Registered(c, nk) == \E i \in DOMAIN notify_mapping[nk] : notify_mapping[nk][i].client = c

-----------------------------------------------------------------------------
Init ==
  /\ db = EmptyDB
  /\ accepted = {}
  /\ client_list = {}
  /\ fd = [c \in Conns |-> Null]
  /\ hungup = {}
  /\ notify_mapping = [nk \in NKeys |-> << >>]
  /\ client_key_mapping = [f \in Fds |-> << >>]
  /\ task = Idle
  /\ out = Silence
  /\ known = [c \in Conns |-> [nk \in NKeys |-> << >>]]

connVars == <<accepted, client_list, fd, hungup>>
registryVars == <<notify_mapping, client_key_mapping>>

-----------------------------------------------------------------------------
(* Connections.                                                             *)

Accept(c, f) ==
  /\ task = Idle
  /\ c \notin accepted
  /\ \A d \in client_list : fd[d] # f
  /\ accepted' = accepted \cup {c}
  /\ client_list' = client_list \cup {c}
  /\ fd' = [fd EXCEPT ![c] = f]
  /\ out' = Silence
  /\ UNCHANGED <<db, hungup, notify_mapping, client_key_mapping, task, known>>

(* The peer closes its end, whatever the daemon is doing.                   *)
Hangup(c) ==
  /\ c \in client_list \ hungup
  /\ hungup' = hungup \cup {c}
  /\ UNCHANGED <<db, accepted, client_list, fd, notify_mapping, client_key_mapping,
                 task, out, known>>

(* Mutants: the registrations of the client stay; the end goes unnoticed.   *)
StartTerminateForgetful(c) == Terminating(c, << >>)
StartTerminateNever(c) == Idle
StartTerminate(c) == Terminating(c, client_key_mapping[fd[c]])

(* recv or read finds the end of the stream.                                *)
EndOfStream(c) ==
  /\ task = Idle
  /\ c \in client_list \cap hungup
  /\ task' = StartTerminate(c)
  /\ out' = Silence
  /\ UNCHANGED <<db, connVars, registryVars, known>>

(* terminate_client: one registration for each key of the client's list.    *)
TerminateKey ==
  /\ task.op = "terminate"
  /\ task.rest # << >>
  /\ LET c == task.conn
         nk == Head(task.rest)
     IN IF Registered(c, nk)
        THEN \E i \in DOMAIN notify_mapping[nk] :
               /\ FirstOf(c, notify_mapping[nk], i)
               /\ notify_mapping' = [notify_mapping EXCEPT ![nk] = RemoveAt(@, i)]
               /\ task' = Terminating(c, Tail(task.rest))
        ELSE task' = Aborted /\ UNCHANGED notify_mapping
  /\ out' = Silence
  /\ UNCHANGED <<db, connVars, client_key_mapping, known>>

(* Mutant: the keys stay behind for the next client with this descriptor.   *)
TerminateDoneKeepsKeys ==
  /\ task.op = "terminate" /\ task.rest = << >>
  /\ client_list' = client_list \ {task.conn}
  /\ fd' = [fd EXCEPT ![task.conn] = Null]
  /\ known' = [known EXCEPT ![task.conn] = [nk \in NKeys |-> << >>]]
  /\ task' = Idle
  /\ out' = Silence
  /\ UNCHANGED <<db, accepted, hungup, registryVars>>

TerminateDone ==
  /\ task.op = "terminate"
  /\ task.rest = << >>
  /\ LET c == task.conn
     IN /\ client_key_mapping' = [client_key_mapping EXCEPT ![fd[c]] = << >>]
        /\ client_list' = client_list \ {c}
        /\ fd' = [fd EXCEPT ![c] = Null]
        /\ known' = [known EXCEPT ![c] = [nk \in NKeys |-> << >>]]
  /\ task' = Idle
  /\ out' = Silence
  /\ UNCHANGED <<db, accepted, hungup, notify_mapping>>

-----------------------------------------------------------------------------
(* Serving a message.                                                       *)

MaySend(c) == /\ task = Idle
              /\ c \in client_list
              /\ Patient => c \notin hungup

(* Write the reply; the connection ends if that fails, and the walk that    *)
(* was to follow the reply does not start.                                  *)
Reply(c, msgid, status, data, next) ==
  IF c \in hungup
  THEN /\ task' = Terminating(c, client_key_mapping'[fd[c]])
       /\ out' = Silence
  ELSE /\ task' = next
       /\ out' = StatusMessage(c, msgid, status, data)

(* A malformed message, or a LIST: no reply, the connection ends.           *)
BadMessage(c) ==
  /\ MaySend(c)
  /\ task' = StartTerminate(c)
  /\ out' = Silence
  /\ UNCHANGED <<db, connVars, registryVars, known>>

(* The copy kept of what was sent; only malloc0 when there was no value.     *)
SentDataRaw(value) == value \* mutant: no copy when there is no value
SentData(value) == IF value = Null THEN Zeroed ELSE value

(* A granted write of value (Null for UNSET) makes every registration on    *)
(* the key stale that does not hold that value already.                     *)
MarkStale(nk, value) ==
  LET marked(n) == [n EXCEPT !.stale = n.old_data # SentData(value)]
  IN notify_mapping' =
       IF nk = Null THEN notify_mapping
       ELSE [notify_mapping EXCEPT ![nk] = [i \in DOMAIN @ |-> marked(@[i])]]

(* Mutant: nobody is told of an UNSET.                                      *)
WalkOfSet(nk, value) == IF Null \in {nk, value} THEN Idle ELSE Notifying(nk, value, 1)
WalkOf(nk, value) == IF nk = Null THEN Idle ELSE Notifying(nk, value, 1)

Write(c, key, value, msgid, granted, newdb) ==
  /\ MaySend(c)
  /\ IF granted
     THEN /\ db' = newdb
          /\ MarkStale(NotifyKeyName(key), value)
          /\ UNCHANGED client_key_mapping
          /\ Reply(c, msgid, 0, Null, WalkOf(NotifyKeyName(key), value))
     ELSE /\ UNCHANGED <<db, registryVars>>
          /\ Reply(c, msgid, -1, Null, Idle)
  /\ UNCHANGED <<connVars, known>>

Set(c, key, value, msgid) ==
  Write(c, key, value, msgid,
        CanSetValue(db, Rules, ConnUid[c], key, value, ConnLabel[c]),
        SetValue(db, Rules, ConnUid[c], key, value, ConnLabel[c]))

Unset(c, key, msgid) ==
  Write(c, key, Null, msgid,
        CanUnsetValue(db, Rules, ConnUid[c], key, ConnLabel[c]),
        UnsetValue(db, ConnUid[c], key))

(* Requests that change data and notify no one.                             *)
Administer(c, msgid, granted, newdb) ==
  /\ MaySend(c)
  /\ db' = IF granted THEN newdb ELSE db
  /\ UNCHANGED registryVars
  /\ Reply(c, msgid, IF granted THEN 0 ELSE -1, Null, Idle)
  /\ UNCHANGED <<connVars, known>>

SetKeyLabel(c, key, label, msgid) ==
  Administer(c, msgid, CanSetLabel(db, ConnUid[c], key), SetLabel(db, ConnUid[c], key, label))

CreateKeyGroup(c, key, msgid) ==
  Administer(c, msgid, CanCreateGroup(db, Rules, ConnUid[c], key),
             CreateGroup(db, ConnUid[c], key, ConnLabel[c]))

RemoveKeyGroup(c, key, msgid) ==
  Administer(c, msgid, CanRemoveGroup(db, Rules, ConnUid[c], key, ConnLabel[c]),
             RemoveGroup(db, ConnUid[c], key))

(* Requests that only read: the value or its label, or the names of a group *)
(* of a layer, which are looked up under the uid of the daemon.             *)
Answer(c, msgid, granted, data) ==
  /\ MaySend(c)
  /\ UNCHANGED <<db, registryVars>>
  /\ Reply(c, msgid, IF granted THEN 0 ELSE -1, data, Idle)
  /\ UNCHANGED <<connVars, known>>

Get(c, key, msgid, field) ==
  LET v == GetValue(db, Rules, ConnUid[c], key, ConnLabel[c])
  IN Answer(c, msgid, v.ret = "OK", [f \in {field} |-> v[f]])

ListNames(c, layer, group, msgid) ==
  Answer(c, msgid, Medium[Resource(layer, DaemonUid)] # "none",
         [names |-> BackendListNames(db, DaemonUid, layer, group)])

(* register_notification, for a key without layer.                          *)
Notify(c, key, msgid) ==
  /\ MaySend(c)
  /\ LET v == GetValue(db, Rules, ConnUid[c], key, ConnLabel[c])
         nk == NotifyKeyName(key)
         n == [client |-> c, old_data |-> v.data, msgid |-> msgid, stale |-> FALSE]
     IN IF v.ret # "OK" \/ nk = Null
        THEN /\ UNCHANGED <<registryVars, known>>
             /\ Reply(c, msgid, -1, Null, Idle)
        ELSE /\ Len(notify_mapping[nk]) < MaxRegistrations
             /\ notify_mapping' = [notify_mapping EXCEPT ![nk] = Append(@, n)]
             /\ client_key_mapping' = [client_key_mapping EXCEPT ![fd[c]] = Append(@, nk)]
             /\ known' = [known EXCEPT ![c][nk] = Append(@, msgid)]
             /\ Reply(c, msgid, 0, Null, Idle)
  /\ UNCHANGED <<db, connVars>>

(* unregister_notification: the first registration of this client on the    *)
(* key goes, and its message id is the answer.  The key goes from the       *)
(* client's list too, if it is there.                                       *)
ForgetKeyNot(f, nk) == UNCHANGED client_key_mapping \* mutant: it stays
ForgetKey(f, nk) ==
  client_key_mapping' = [client_key_mapping EXCEPT ![f] = RemoveFirst(@, nk)]

Unregister(c, nk, msgid) ==
  \E i \in DOMAIN notify_mapping[nk] :
    LET removed == notify_mapping[nk][i].msgid
    IN /\ FirstOf(c, notify_mapping[nk], i)
       /\ notify_mapping' = [notify_mapping EXCEPT ![nk] = RemoveAt(@, i)]
       /\ known' = [known EXCEPT ![c][nk] = RemoveFirst(@, removed)]
       /\ ForgetKey(fd[c], nk)
       /\ Reply(c, msgid, 0, [msgid |-> removed], Idle)

Unnotify(c, key, msgid) ==
  /\ MaySend(c)
  /\ LET nk == NotifyKeyName(key)
     IN IF nk \in NKeys /\ Registered(c, nk) /\ client_key_mapping[fd[c]] # << >>
        THEN Unregister(c, nk, msgid)
        ELSE /\ UNCHANGED <<registryVars, known>>
             /\ Reply(c, msgid, -1, [msgid |-> 0], Idle)
  /\ UNCHANGED <<db, connVars>>

-----------------------------------------------------------------------------
(* buxtond_notify_clients.  Whether the new value differs is a memcmp of    *)
(* the two unions, over the member that the new value's type names; what it *)
(* finds in an old value of another type is whatever those bytes are.  A    *)
(* string is behind a pointer, null in a zeroed union.                      *)
Compare(old, value) ==
  IF value = Null THEN {"differ"}
  ELSE IF old.type = value.type THEN {IF old = value THEN "same" ELSE "differ"}
  ELSE IF value.type = "STRING" THEN IF old = Zeroed THEN {"crash"} ELSE {"crash", "differ"}
  ELSE IF old = Zeroed THEN {IF value.store = "0" THEN "same" ELSE "differ"}
  ELSE {"same", "differ"}

NotifyOne ==
  /\ task.op = "notify"
  /\ task.i \in DOMAIN notify_mapping[task.key]
  /\ LET n == notify_mapping[task.key][task.i]
         told == [n EXCEPT !.old_data = SentData(task.value), !.stale = FALSE]
         next == Notifying(task.key, task.value, task.i + 1)
     IN \E outcome \in Compare(n.old_data, task.value) :
          \/ /\ outcome = "same"
             /\ task' = next
             /\ out' = Silence
             /\ UNCHANGED notify_mapping
          \/ /\ outcome = "differ"
             /\ notify_mapping' = [notify_mapping EXCEPT ![task.key][task.i] = told]
             /\ task' = next
             /\ out' = IF n.client \in hungup THEN Silence
                       ELSE ChangedMessage(n.client, n.msgid, task.value)
          \/ /\ outcome = "crash"
             /\ task' = Crashed
             /\ out' = Silence
             /\ UNCHANGED notify_mapping
  /\ UNCHANGED <<db, connVars, client_key_mapping, known>>

NotifyDone ==
  /\ task.op = "notify"
  /\ task.i \notin DOMAIN notify_mapping[task.key]
  /\ task' = Idle
  /\ out' = Silence
  /\ UNCHANGED <<db, connVars, registryVars, known>>

(* The daemon is started again, after it was stopped or died: descriptors   *)
(* and registry are gone, what the backends kept on disk is not.            *)
Restart ==
  /\ task.op \in {"idle", "aborted", "crashed"}
  /\ db' = Persisted(db)
  /\ client_list' = {}
  /\ fd' = [c \in Conns |-> Null]
  /\ notify_mapping' = [nk \in NKeys |-> << >>]
  /\ client_key_mapping' = [f \in Fds |-> << >>]
  /\ task' = Idle
  /\ out' = Silence
  /\ known' = [c \in Conns |-> [nk \in NKeys |-> << >>]]
  /\ UNCHANGED <<accepted, hungup>>

-----------------------------------------------------------------------------
(* The messages a client may send.                                          *)
AnyLayer == Layers \cup {Null}
AnyType == ValueTypes \cup {"UNSET"}

ServeData(c, m) ==
  \E l \in Layers, g \in Groups, n \in Names :
    \/ \E v \in Values : Set(c, Key(l, g, n, v.type), v, m)
    \/ \E t \in ValueTypes : Unset(c, Key(l, g, n, t), m)

ServeGroup(c, m) ==
  \E l \in Layers, g \in Groups :
    \/ CreateKeyGroup(c, Key(l, g, Null, "STRING"), m)
    \/ RemoveKeyGroup(c, Key(l, g, Null, "STRING"), m)
    \/ \E n \in Names \cup {Null}, b \in Labels : SetKeyLabel(c, Key(l, g, n, "UNSET"), b, m)

ServeRead(c, m) ==
  \/ \E l \in AnyLayer, g \in Groups, n \in Names :
       \/ \E t \in AnyType : Get(c, Key(l, g, n, t), m, "data")
       \/ Get(c, Key(l, g, n, "UNSET"), m, "label")
  \/ \E l \in Layers, g \in Groups \cup {Null} : ListNames(c, l, g, m)

ServeRegistration(c, m) ==
  \E g \in Groups, n \in Names, t \in AnyType :
    Notify(c, Key(Null, g, n, t), m) \/ Unnotify(c, Key(Null, g, n, t), m)

Serve(c) ==
  \/ BadMessage(c)
  \/ \E m \in MsgIds : ServeData(c, m) \/ ServeGroup(c, m) \/ ServeRead(c, m)
                         \/ ServeRegistration(c, m)

Walk == TerminateKey \/ TerminateDone \/ NotifyOne \/ NotifyDone

Next ==
  \/ \E c \in Conns : \/ \E f \in Fds : Accept(c, f)
                      \/ Hangup(c) \/ EndOfStream(c) \/ Serve(c)
  \/ Walk
  \/ Restart

Spec == Init /\ [][Next]_vars

(* The thread runs; and poll reports a descriptor whose peer is gone on     *)
(* every round, in which the daemon serves each ready descriptor in turn.   *)
Fairness == WF_vars(Walk) /\ \A c \in Conns : SF_vars(EndOfStream(c))

FairSpec == Spec /\ Fairness

-----------------------------------------------------------------------------
TaskOK ==
  \/ task \in {Idle, Aborted, Crashed}
  \/ /\ task.op = "notify"
     /\ task = Notifying(task.key, task.value, task.i)
     /\ task.key \in NKeys /\ task.value \in Values \cup {Null} /\ task.i \in Nat \ {0}
  \/ /\ task.op = "terminate"
     /\ task = Terminating(task.conn, task.rest)
     /\ task.conn \in client_list /\ task.rest \in Seq(NKeys)

(* Type invariant: the tables hold what their names say, and the walk under *)
(* way, if any, is over a key or is of a client that has not been freed.    *)
TypeOK ==
  /\ db \in DB
  /\ client_list \subseteq accepted /\ accepted \subseteq Conns /\ hungup \subseteq accepted
  /\ fd \in [Conns -> Fds \cup {Null}]
  /\ notify_mapping \in [NKeys -> Seq(Registration)]
  /\ client_key_mapping \in [Fds -> Seq(NKeys)]
  /\ known \in [Conns -> [NKeys -> Seq(MsgIds)]]
  /\ TaskOK

-----------------------------------------------------------------------------
(* The registry.                                                            *)

(* How often x occurs in sequence s.                                        *)
Positions(x, s) == {i \in DOMAIN s : s[i] = x}
Occurrences(x, s) == Cardinality(Positions(x, s))

(* The clients of a list of registrations, in its order.                    *)
ClientsIn(s) == [i \in DOMAIN s |-> s[i].client]

BeingTerminated(c) == task.op = "terminate" /\ task.conn = c

(* The keys that client_key_mapping still owes for c: those not yet taken   *)
(* out of notify_mapping when c is being terminated.                        *)
KeysOf(c) == IF BeingTerminated(c) THEN task.rest ELSE client_key_mapping[fd[c]]

(* Descriptors of live clients are distinct, and a descriptor that is not   *)
(* in use has no keys left for the next client that gets it.                *)
DescriptorsOK ==
  /\ \A c \in client_list : fd[c] \in Fds
  /\ \A c, d \in client_list : fd[c] = fd[d] => c = d
  /\ \A f \in Fds : client_key_mapping[f] # << >> => \E c \in client_list : fd[c] = f

(* A registration points to a client that has not been freed: the CHANGED   *)
(* message goes to nitem->client->fd.                                       *)
NoDanglingClient ==
  \A nk \in NKeys : \A i \in DOMAIN notify_mapping[nk] :
    notify_mapping[nk][i].client \in client_list

(* notify_mapping and client_key_mapping agree in number on every live      *)
(* client and key, also half way through a termination, and with a client   *)
(* registered several times on one key.                                     *)
MappingsAgree ==
  \A c \in client_list, nk \in NKeys :
    Occurrences(c, ClientsIn(notify_mapping[nk])) = Occurrences(nk, KeysOf(c))

(* The two maps of the registry stay consistent while clients register,     *)
(* unregister, close and reuse descriptors.  (register_notification,        *)
(* unregister_notification, terminate_client)                               *)
RegistryOK == DescriptorsOK /\ NoDanglingClient /\ MappingsAgree

(* terminate_client never finds a key without a registration of its client, *)
(* where it would abort() the daemon.                                       *)
NoAbort == task.op # "aborted"

(* ids are the message ids of the registrations of c in s, in the order of  *)
(* s: place says which registration each of them is of.                     *)
Lists(ids, c, s) ==
  LET own == Positions(c, ClientsIn(s))
  IN \E place \in [DOMAIN ids -> own] :
       /\ \A i, j \in DOMAIN ids : i < j => place[i] < place[j]
       /\ \A k \in own : \E i \in DOMAIN ids : place[i] = k
       /\ \A i \in DOMAIN ids : s[place[i]].msgid = ids[i]

(* A client that is connected and not being terminated has registered what  *)
(* the replies it got say it has: on each key the message ids of its        *)
(* accepted NOTIFYs, oldest first, less those its UNNOTIFYs were answered.  *)
ClientViewAgrees ==
  \A c \in client_list, nk \in NKeys :
    ~BeingTerminated(c) => Lists(known[c][nk], c, notify_mapping[nk])

(* A CHANGED message reaches a connected client that knows its message id   *)
(* as that of a NOTIFY it made on this key and has not taken back.          *)
ChangedIsWanted ==
  out.type = "CHANGED" =>
    /\ out.to \in client_list
    /\ \E i \in DOMAIN known[out.to][task.key] : known[out.to][task.key][i] = out.msgid

(* "Notify clients a value changes in buxtond" (daemon.h:97): when no walk  *)
(* over the registrations is under way, none is left whose client was not   *)
(* told of the value last written to its key.                               *)
NoMissedChange ==
  task.op # "notify" =>
    \A nk \in NKeys : \A i \in DOMAIN notify_mapping[nk] : ~notify_mapping[nk][i].stale

(* A peer that has gone is taken out of the registry and its descriptor is  *)
(* given back, however busy the other clients keep the daemon.              *)
HungupIsReaped == \A c \in Conns : c \in client_list \cap hungup ~> c \notin client_list

(* A registration that a write made out of date is brought up to date.      *)
StaleIn(nk) == \E i \in DOMAIN notify_mapping[nk] : notify_mapping[nk][i].stale
ChangeIsDelivered == \A nk \in NKeys : StaleIn(nk) ~> ~StaleIn(nk)
=============================================================================
