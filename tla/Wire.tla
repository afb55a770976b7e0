--------------------------------- MODULE Wire ---------------------------------
(***************************************************************************)
(* One connection of a client to buxtond, with everything that stands      *)
(* between a call of the library and the database: the checks of the API   *)
(* (lbuxton.c), the list of parameters of each request (protocol.c), the   *)
(* message and its length (serialize.c), what the daemon reads out of it   *)
(* (parse_list), the packed record the backends keep, the reply and what   *)
(* the callback finds in it.  Strings are atoms with a length, which is    *)
(* all the code looks at.  Who may do what is BuxtonDirect's: here each    *)
(* handler may refuse.                                                     *)
(***************************************************************************)
EXTENDS Integers, FiniteSets, SequencesExt

CONSTANTS
  Ids,        \* message ids
  Calls,      \* [op, layer, group, name, type, value] of the API, Null: no string
  Slots,      \* <<layer, group, name>> the databases may hold, name Null: the group
  Installed,  \* [Slots -> [data, label] or Null]: what they may hold at first
  Labels,     \* labels of keys and groups
  GroupData,  \* what a group holds
  Length,     \* [string |-> its bytes, with the final zero byte]
  MaxParams,  \* BUXTON_MESSAGE_MAX_PARAMS
  Null

VARIABLES
  stored,     \* [Slots -> packed record or Null]: the databases
  up, down,   \* frames on their way to the daemon, to the client
  waiting,    \* callbacks: [Ids -> call or Null]
  connected,  \* the daemon has the client
  aborted,    \* the daemon has called abort()
  broken,     \* handle_response has returned -1: the client is out of step
  asked,      \* the call of each id (history)
  replied,    \* the frame the daemon sent for each id (history)
  got         \* what each callback was given

daemon == <<stored, up, connected, aborted, replied>>
client == <<waiting, broken, asked, got>>
vars == <<daemon, client, down>>

BUXTON_MESSAGE_MAX_LENGTH == 32768
HeaderLength == 16 \* code, message, size, id and number of parameters

WordTypes == {"INT32", "UINT32", "FLOAT"}
LongTypes == {"INT64", "UINT64", "DOUBLE"}
ValueTypes == WordTypes \cup LongTypes \cup {"STRING", "BOOLEAN"}
Data(type, value) == [type |-> type, value |-> value]

(* What the constants are.  What the daemon stores of its own accord, a     *)
(* label of a client or what a group holds, fits into a reply; what         *)
(* buxtonctl --direct has stored need not.                                  *)
Strings == DOMAIN Length
Room == BUXTON_MESSAGE_MAX_LENGTH - HeaderLength - 10 - 6
IsContent(type, value) == IF type = "STRING" THEN value \in Strings ELSE value \in Int
Fits(s) == s \in Strings /\ Length[s] <= Room
IsEntry(e) ==
  /\ e \in [data : [type : ValueTypes, value : {e.data.value}], label : {e.label}]
  /\ IsContent(e.data.type, e.data.value)
  /\ e.label \in Strings
Ops == {"SET", "SET_LABEL", "CREATE_GROUP", "REMOVE_GROUP", "GET", "GET_LABEL", "UNSET",
        "LIST", "LIST_NAMES", "NOTIFY", "UNNOTIFY"}

ASSUME WireAssumption ==
  /\ Length \in [Strings -> Nat \ {0}] /\ MaxParams \in Nat /\ MaxParams >= 4
  /\ IsFiniteSet(Slots) /\ Slots \subseteq Strings \X Strings \X (Strings \cup {Null})
  /\ \A l \in Labels : IsEntry([data |-> GroupData, label |-> l]) /\ Fits(l)
  /\ GroupData.type = "STRING" => Fits(GroupData.value)
  /\ \A f \in Installed :
       /\ f = [s \in Slots |-> f[s]]
       /\ \A s \in Slots : f[s] = Null \/ IsEntry(f[s])
  /\ \A c \in Calls :
       /\ c \in [op : Ops, layer : Strings \cup {Null}, group : Strings \cup {Null},
                 name : Strings \cup {Null}, type : ValueTypes \cup {"UNSET"}, value : {c.value}]
       /\ c.op = "SET" => c.value = Null \/ IsContent(c.type, c.value)
       /\ c.op = "SET_LABEL" => c.value \in Strings \cup {Null}

StringLength(s) == IF s = Null THEN 0 ELSE Length[s]

Bytes(d) ==
  CASE d.type = "STRING" -> StringLength(d.value)
    [] d.type \in WordTypes -> 4
    [] d.type \in LongTypes -> 8
    [] d.type = "BOOLEAN" -> 1

(* What is read when n bytes are taken for a string: nothing, the string,   *)
(* or bytes that do not end with its zero byte.                             *)
Garbage == "garbage"
TakeString(s, n) ==
  CASE n = 0 -> Null
    [] n > 0 /\ n = StringLength(s) -> s
    [] OTHER -> Garbage

-----------------------------------------------------------------------------
(* Packed records of the databases.  A value that is no string takes the    *)
(* room of the whole union.                                                 *)
StoreLength == 16

Serialize(data, label) ==
  [type |-> data.type, labelLength |-> StringLength(label),
   length |-> IF data.type = "STRING" THEN Bytes(data) ELSE StoreLength,
   label |-> label, value |-> data.value]

Deserialize(r) ==
  [data |-> Data(r.type, IF r.type = "STRING" THEN TakeString(r.value, r.length) ELSE r.value),
   label |-> TakeString(r.label, r.labelLength)]

(* Messages.  Only a receiver checks the size of one.                       *)
OffsetsOf(params) ==
  LET at[n \in 1 .. Len(params) + 1] ==
        IF n = 1 THEN HeaderLength ELSE at[n - 1] + 6 + params[n - 1].length
  IN  at
OffsetOf(params, n) == OffsetsOf(params)[n]

SerializeMessage(code, msgid, list) ==
  LET params == [n \in DOMAIN list |->
                   [type |-> list[n].type, length |-> Bytes(list[n]), value |-> list[n].value]]
  IN  IF Len(list) > MaxParams \/ \E n \in DOMAIN list : list[n].type \notin ValueTypes
      THEN Null
      ELSE [code |-> code, msgid |-> msgid, params |-> params,
            size |-> OffsetOf(params, Len(params) + 1)]

ParamIsBadEmpty(f, n) == \* mutant: a string that is not there is refused
  f.params[n].length = 0 \/ OffsetOf(f.params, n + 1) > f.size

ParamIsBad(f, n) ==
  LET p == f.params[n]
  IN  \/ p.type \notin ValueTypes
      \/ p.length = 0 /\ p.type # "STRING"
      \/ OffsetOf(f.params, n + 1) > f.size
      \/ p.type = "STRING" /\ TakeString(p.value, p.length) = Garbage

DeserializeMessage(f) ==
  IF Len(f.params) > MaxParams \/ \E n \in DOMAIN f.params : ParamIsBad(f, n)
  THEN Null
  ELSE [n \in DOMAIN f.params |->
          LET p == f.params[n]
          IN  Data(p.type, IF p.type = "STRING" THEN TakeString(p.value, p.length) ELSE p.value)]

-----------------------------------------------------------------------------
(* The client: what the API accepts, and the parameters it sends.           *)
CanCreateKey(c) ==
  /\ c.group # Null
  /\ c.name = Null => c.type \in {"STRING", "UNSET"}

CanReadValue(c) == CanCreateKey(c) /\ c.name # Null                       \* buxton_get_value
CanWatch(c) == CanCreateKey(c) /\ c.name # Null        \* buxton_(un)register_notification
CanSetValue(c) ==
  CanCreateKey(c) /\ c.layer # Null /\ c.name # Null /\ c.type # "UNSET" /\ c.value # Null
CanSetLabel(c) == CanCreateKey(c) /\ c.layer # Null /\ c.value # Null
CanReadLabel(c) == CanCreateKey(c) /\ c.layer # Null
CanNameGroup(c) == CanCreateKey(c) /\ c.layer # Null /\ c.name = Null
CanList(c) == c.layer # Null
CanUnsetValue(c) == CanCreateKey(c) /\ c.layer # Null /\ c.name # Null

AcceptsCall(c) ==
  CASE c.op = "SET" -> CanSetValue(c)
    [] c.op = "SET_LABEL" -> CanSetLabel(c)
    [] c.op \in {"CREATE_GROUP", "REMOVE_GROUP"} -> CanNameGroup(c)
    [] c.op = "GET" -> CanReadValue(c)
    [] c.op = "GET_LABEL" -> CanReadLabel(c)
    [] c.op = "UNSET" -> CanUnsetValue(c)
    [] c.op \in {"LIST", "LIST_NAMES"} -> CanList(c)
    [] c.op \in {"NOTIFY", "UNNOTIFY"} -> CanWatch(c)

String(s) == Data("STRING", s)
IfThere(s) == IF s = Null THEN << >> ELSE <<String(s)>>
TypeOf(c) == Data("UINT32", c.type)

SetValueParams(c) ==
  <<String(c.layer), String(c.group), String(c.name), Data(c.type, c.value)>>
SetLabelParams(c) == <<String(c.layer), String(c.group)>> \o IfThere(c.name) \o <<String(c.value)>>
GroupParams(c) == <<String(c.layer), String(c.group)>>
GetValueParams(c) == IfThere(c.layer) \o <<String(c.group), String(c.name), TypeOf(c)>>
GetLabelParams(c) == <<String(c.layer), String(c.group)>> \o IfThere(c.name)
UnsetParams(c) == <<String(c.layer), String(c.group), String(c.name), TypeOf(c)>>
ListKeysParams(c) == <<String(c.layer)>>
ListNamesParams(c) == <<String(c.layer), String(c.group), String(c.name)>>
NotificationParams(c) == <<String(c.group), String(c.name), TypeOf(c)>>

Params(c) ==
  CASE c.op = "SET" -> SetValueParams(c)
    [] c.op = "SET_LABEL" -> SetLabelParams(c)
    [] c.op \in {"CREATE_GROUP", "REMOVE_GROUP"} -> GroupParams(c)
    [] c.op = "GET" -> GetValueParams(c)
    [] c.op = "GET_LABEL" -> GetLabelParams(c)
    [] c.op = "UNSET" -> UnsetParams(c)
    [] c.op = "LIST" -> ListKeysParams(c)
    [] c.op = "LIST_NAMES" -> ListNamesParams(c)
    [] c.op \in {"NOTIFY", "UNNOTIFY"} -> NotificationParams(c)

(* The daemon: the key and the value a list of parameters stands for.       *)
Request(layer, group, name, type, value) ==
  [layer |-> layer, group |-> group, name |-> name, type |-> type, value |-> value]

ParseList(op, list) ==
  LET Types(ts) == Len(list) = Len(ts) /\ \A n \in DOMAIN ts : ts[n] = "any" \/ list[n].type = ts[n]
      v(n) == list[n].value
      S == "STRING"
      U == "UINT32"
  IN  CASE op = "SET" /\ Types(<<S, S, S, "any">>) -> Request(v(1), v(2), v(3), list[4].type, v(4))
        [] op = "SET_LABEL" /\ Types(<<S, S, S>>) -> Request(v(1), v(2), Null, "UNSET", v(3))
        [] op = "SET_LABEL" /\ Types(<<S, S, S, S>>) -> Request(v(1), v(2), v(3), "UNSET", v(4))
        [] op \in {"CREATE_GROUP", "REMOVE_GROUP"} /\ Types(<<S, S>>) ->
             Request(v(1), v(2), Null, "STRING", Null)
        [] op \in {"GET", "UNSET"} /\ Types(<<S, S, S, U>>) -> Request(v(1), v(2), v(3), v(4), Null)
        [] op \in {"GET", "NOTIFY", "UNNOTIFY"} /\ Types(<<S, S, U>>) ->
             Request(Null, v(1), v(2), v(3), Null)
        [] op = "GET_LABEL" /\ Types(<<S, S, S>>) -> Request(v(1), v(2), v(3), "UNSET", Null)
        [] op = "GET_LABEL" /\ Types(<<S, S>>) -> Request(v(1), v(2), Null, "UNSET", Null)
        [] op = "LIST_NAMES" /\ Types(<<S, S, S>>) -> Request(v(1), v(2), v(3), "UNSET", Null)
        [] OTHER -> Null

-----------------------------------------------------------------------------
(* Null is told from whatever stands in its place.                          *)
Contents == Strings \cup {Null} \cup Int \cup ValueTypes \cup {"UNSET"} \cup Ids
Parameter == [type : ValueTypes, length : Nat, value : Contents]
Frame == [code : Ops \cup {"STATUS"}, msgid : Ids, params : Seq(Parameter), size : Nat]
List == Seq([type : ValueTypes, value : Contents])
Record == [type : ValueTypes, labelLength : Nat, length : Nat, label : Strings, value : Contents]

ASSUME NullAssumption ==
  /\ Null \notin Strings /\ Garbage \notin Strings \cup {Null}
  /\ Null \notin Calls /\ Null \notin Frame /\ Null \notin List /\ Null \notin Record
  /\ Null \notin [data : [type : ValueTypes, value : Contents], label : Strings]
  /\ Null \notin [layer : Strings \cup {Null}, group : Strings \cup {Null},
                 name : Strings \cup {Null}, type : ValueTypes \cup {"UNSET"}, value : Contents]

-----------------------------------------------------------------------------
Init ==
  /\ \E installed \in Installed :
       stored = [s \in Slots |-> IF installed[s] = Null THEN Null
                                 ELSE Serialize(installed[s].data, installed[s].label)]
  /\ up = << >> /\ down = << >>
  /\ waiting = [i \in Ids |-> Null]
  /\ connected = TRUE /\ aborted = FALSE /\ broken = FALSE
  /\ asked = [i \in Ids |-> Null]
  /\ replied = [i \in Ids |-> Null]
  /\ got = [i \in Ids |-> Null]

(* Callbacks that have waited for more than TIMEOUT are dropped whenever    *)
(* another is added or a response is read: here, any may have.              *)
Reaped(callbacks) ==
  {[i \in Ids |-> IF i \in old THEN Null ELSE callbacks[i]] :
     old \in SUBSET {i \in Ids : callbacks[i] # Null}}

(* A call of the API, on a key the application has made.  Writing to a      *)
(* connection the daemon has closed fails, and the callback stays behind.   *)
Call(i, c) ==
  /\ asked[i] = Null
  /\ AcceptsCall(c)
  /\ LET frame == SerializeMessage(c.op, i, Params(c))
     IN  /\ frame # Null
         /\ \E callbacks \in Reaped(waiting) : waiting' = [callbacks EXCEPT ![i] = c]
         /\ up' = IF connected THEN Append(up, frame) ELSE up
  /\ asked' = [asked EXCEPT ![i] = c]
  /\ UNCHANGED <<stored, connected, aborted, replied, broken, got, down>>

-----------------------------------------------------------------------------
(* The handlers of the daemon, on the frame at the head of the connection.  *)
Status(n) == Data("INT32", n)
Slot(k) == <<k.layer, k.group, k.name>>
Holds(s) == s \in Slots /\ stored[s] # Null
Entry(s) == Deserialize(stored[s])

(* A reply that cannot be serialized ends the daemon.                       *)
Reply(f, list) ==
  LET frame == SerializeMessage("STATUS", f.msgid, list)
  IN  IF frame = Null
      THEN aborted' = TRUE /\ connected' = FALSE /\ UNCHANGED <<down, replied>>
      ELSE /\ down' = Append(down, frame)
           /\ replied' = [replied EXCEPT ![f.msgid] = frame]
           /\ UNCHANGED <<aborted, connected>>

Refuse(f) ==
  /\ Reply(f, <<Status(-1)>> \o IF f.code = "UNNOTIFY" THEN <<Data("UINT32", 0)>> ELSE << >>)
  /\ UNCHANGED stored

SetValue(f, k) ==
  /\ f.code = "SET" /\ Slot(k) \in Slots
  /\ \E label \in IF Holds(Slot(k)) THEN {Entry(Slot(k)).label} ELSE Labels :
       stored' = [stored EXCEPT ![Slot(k)] = Serialize(Data(k.type, k.value), label)]
  /\ Reply(f, <<Status(0)>>)

SetLabelSwapped(f, k) == \* mutant: label and value change places
  /\ f.code = "SET_LABEL" /\ Holds(Slot(k))
  /\ stored' = [stored EXCEPT ![Slot(k)] = Serialize(String(k.value), Entry(Slot(k)).label)]
  /\ Reply(f, <<Status(0)>>)

SetLabel(f, k) ==
  /\ f.code = "SET_LABEL" /\ Holds(Slot(k))
  /\ stored' = [stored EXCEPT ![Slot(k)] = Serialize(Entry(Slot(k)).data, k.value)]
  /\ Reply(f, <<Status(0)>>)

CreateGroup(f, k) ==
  /\ f.code = "CREATE_GROUP" /\ Slot(k) \in Slots /\ ~Holds(Slot(k))
  /\ \E label \in Labels : stored' = [stored EXCEPT ![Slot(k)] = Serialize(GroupData, label)]
  /\ Reply(f, <<Status(0)>>)

RemoveGroup(f, k) ==
  /\ f.code = "REMOVE_GROUP" /\ Holds(Slot(k))
  /\ \E gone \in {{Slot(k)}, {s \in Slots : s[1] = k.layer /\ s[2] = k.group}} :
       stored' = [s \in Slots |-> IF s \in gone THEN Null ELSE stored[s]]
  /\ Reply(f, <<Status(0)>>)

UnsetValue(f, k) ==
  /\ f.code = "UNSET" /\ Holds(Slot(k))
  /\ stored' = [stored EXCEPT ![Slot(k)] = Null]
  /\ Reply(f, <<Status(0)>>)

(* Where get_value may find the value: in the layer asked for, or in any.   *)
Found(k) ==
  {s \in Slots : /\ Holds(s) /\ s[2] = k.group /\ s[3] = k.name /\ k.layer \in {Null, s[1]}
                 /\ k.type \in {"UNSET", Entry(s).data.type}}

GetValue(f, k) ==
  /\ f.code = "GET"
  /\ \E s \in Found(k) : Reply(f, <<Status(0), Entry(s).data>>)
  /\ UNCHANGED stored

GetLabel(f, k) ==
  /\ f.code = "GET_LABEL"
  /\ \E s \in Found(k) : Reply(f, <<Status(0), String(Entry(s).label)>>)
  /\ UNCHANGED stored

ListNames(f, k) ==
  /\ f.code = "LIST_NAMES"
  /\ LET groups == {s \in Slots : Holds(s) /\ s[1] = k.layer /\ s[3] = Null}
         keys == {s \in Slots : Holds(s) /\ s[1] = k.layer /\ s[2] = k.group /\ s[3] # Null}
         names == IF k.group = Null THEN {s[2] : s \in groups} ELSE {s[3] : s \in keys}
     IN  \E listed \in SetToSeqs({n \in names : k.name \in {Null, n}}) :
           Reply(f, <<Status(0)>> \o [n \in DOMAIN listed |-> String(listed[n])])
  /\ UNCHANGED stored

RegisterNotification(f, k) ==
  /\ f.code = "NOTIFY" /\ Found(k) # {}
  /\ Reply(f, <<Status(0)>>)
  /\ UNCHANGED stored

UnregisterNotification(f, k) ==
  /\ f.code = "UNNOTIFY"
  /\ \E msgid \in Ids : Reply(f, <<Status(0), Data("UINT32", msgid)>>)
  /\ UNCHANGED stored

Terminate ==
  /\ connected' = FALSE
  /\ UNCHANGED <<stored, aborted, replied, down>>

BadSize(f) == f.size > BUXTON_MESSAGE_MAX_LENGTH

(* handle_client reads a message, buxtond_handle_message answers it.        *)
Handle ==
  /\ connected /\ up # << >>
  /\ LET f == Head(up)
         list == DeserializeMessage(f)
         k == IF list = Null THEN Null ELSE ParseList(f.code, list)
     IN  IF BadSize(f) \/ list = Null \/ k = Null THEN Terminate
         ELSE \/ Refuse(f)
              \/ SetValue(f, k) \/ SetLabel(f, k) \/ UnsetValue(f, k)
              \/ CreateGroup(f, k) \/ RemoveGroup(f, k)
              \/ GetValue(f, k) \/ GetLabel(f, k) \/ ListNames(f, k)
              \/ RegisterNotification(f, k) \/ UnregisterNotification(f, k)
  /\ up' = Tail(up)
  /\ UNCHANGED client

-----------------------------------------------------------------------------
(* What a callback finds in its response with the accessors of the API.  A  *)
(* NOTIFY or UNNOTIFY that succeeds runs no callback: its caller learns of  *)
(* the success from the number of responses handled.                        *)
ResponseStatus(list) == IF list[1].value = 0 THEN "ok" ELSE "failed"
ResponseValue(list) == IF Len(list) > 1 THEN <<list[2]>> ELSE << >>
ResponseNames(list) == Tail(list)

Reading(op, list) ==
  [op |-> op, status |-> ResponseStatus(list),
   data |-> CASE op \in {"GET", "GET_LABEL"} -> ResponseValue(list)
              [] op = "LIST_NAMES" -> ResponseNames(list)
              [] OTHER -> << >>]

HandleResponse ==
  /\ down # << >> /\ ~broken
  /\ down' = Tail(down)
  /\ LET f == Head(down)
         list == DeserializeMessage(f)
     IN  \E callbacks \in Reaped(waiting) :
           IF f.size > BUXTON_MESSAGE_MAX_LENGTH
           THEN broken' = TRUE /\ waiting' = callbacks /\ UNCHANGED got
           ELSE /\ UNCHANGED broken
                /\ IF list = Null \/ list = << >> \/ f.code # "STATUS" \/ callbacks[f.msgid] = Null
                   THEN waiting' = callbacks /\ UNCHANGED got
                   ELSE /\ list[1].type = "INT32"
                        /\ waiting' = [callbacks EXCEPT ![f.msgid] = Null]
                        /\ got' = [got EXCEPT ![f.msgid] = Reading(callbacks[f.msgid].op, list)]
  /\ UNCHANGED <<daemon, asked>>

Next ==
  \/ \E i \in Ids, c \in Calls : Call(i, c)
  \/ Handle
  \/ HandleResponse

Spec == Init /\ [][Next]_vars

-----------------------------------------------------------------------------
(* Properties                                                               *)

(* Every call the daemon serves has the effect and the answer it would have *)
(* if the application called the database itself: no layer, name, type or   *)
(* value is lost, cut or mistaken for another on the way through the        *)
(* parameter list, the frame, parse_list, the packed record, the reply and  *)
(* the accessors.                                                           *)
Service == INSTANCE KeyValueService WITH
  kv <- [s \in Slots |-> IF stored[s] = Null THEN Null ELSE Entry(s)],
  answered <- [i \in Ids |->
                 CASE got[i] # Null -> got[i]
                   [] got[i] = Null /\ replied[i] # Null ->
                        Reading(asked[i].op, DeserializeMessage(replied[i]))
                   [] OTHER -> Null]

ImplementsService == Service!Spec

(* A conversation ends before its time only for a cause.  The daemon cuts a *)
(* client off for a LIST, which parse_list always refuses, or a request     *)
(* longer than a message may be, and takes nothing else that the API lets   *)
(* through for an invalid message; and what could be sent to the daemon can *)
(* be read back, for the only replies longer than the client accepts are a  *)
(* list of names, and a string that was in the databases from the start and *)
(* is longer than any message could have brought.                           *)
TooLong(c) == SerializeMessage(c.op, Null, Params(c)).size > BUXTON_MESSAGE_MAX_LENGTH

Oversized ==
  {s \in Strings :
     /\ ~Fits(s)
     /\ \E f \in Installed, t \in Slots :
          /\ f[t] # Null
          /\ f[t].label = s \/ (f[t].data.type = "STRING" /\ f[t].data.value = s)}
CarriesOversized(op, list) ==
  /\ op \in {"GET", "GET_LABEL"} /\ Len(list) = 2
  /\ list[2].type = "STRING" /\ list[2].value \in Oversized
MayBeTooLong(c, reply) ==
  /\ c # Null /\ reply # Null
  /\ c.op = "LIST_NAMES" \/ CarriesOversized(c.op, DeserializeMessage(reply))

EndsForCause ==
  /\ ~connected /\ ~aborted =>
       \E i \in Ids : /\ asked[i] # Null /\ replied[i] = Null
                      /\ asked[i].op = "LIST" \/ TooLong(asked[i])
  /\ broken => \E i \in Ids : MayBeTooLong(asked[i], replied[i])

(* A legal sequence of calls never leaves the client unable to read.        *)
ClientStaysInStep == ~broken

(* No request makes the daemon abort.                                       *)
DaemonSurvives == ~aborted
=============================================================================
