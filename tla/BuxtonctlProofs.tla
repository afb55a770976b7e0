--------------------------- MODULE BuxtonctlProofs ---------------------------
(***************************************************************************)
(* What buxtonctl reports rests on what was done for the run that reports  *)
(* it, and what it does leaves databases, for any commands, users, layers, *)
(* rules and daemons.                                                      *)
(***************************************************************************)
EXTENDS Buxtonctl, TLAPS

-----------------------------------------------------------------------------
(* What every request does to the databases: they stay databases of       *)
(* entries, and what is read from them is an entry that is stored.          *)

LEMMA ResourceType ==
  ASSUME NEW l \in Layers, NEW uid \in Uids
  PROVE  Resource(l, uid) \in Resources
BY DEF Resources

LEMMA SlotType ==
  ASSUME NEW l, NEW g \in Groups, NEW n \in Names \cup {Null}, NEW t
  PROVE  /\ Slot(Key(l, g, n, t)) \in Slots
         /\ Slot(Key(l, g, n, t)) = <<g, n>>
BY DEF Slot, Key, Slots

LEMMA ReadFromLayer ==
  ASSUME NEW d \in DB, NEW rules, NEW label, NEW uid \in Uids,
         NEW l, NEW g \in Groups, NEW n \in Names \cup {Null}, NEW t,
         GetValueForLayer(d, rules, uid, Key(l, g, n, t), label).ret = "OK"
  PROVE  /\ l \in Layers
         /\ d[Resource(l, uid)][<<g, n>>] \in Entry
         /\ GetValueForLayer(d, rules, uid, Key(l, g, n, t), label).data
              = d[Resource(l, uid)][<<g, n>>].data
         /\ GetValueForLayer(d, rules, uid, Key(l, g, n, t), label).label
              = d[Resource(l, uid)][<<g, n>>].label
<1> DEFINE key == Key(l, g, n, t)
           v == BackendGet(d, uid, key)
           e == d[Resource(l, uid)][<<g, n>>]
<1>1. key.layer = l /\ Slot(key) = <<g, n>> /\ Slot(key) \in Slots
  BY SlotType DEF Key
<1>2. /\ l \in Layers
      /\ v.ret = "OK"
      /\ GetValueForLayer(d, rules, uid, key, label) = v
  BY <1>1 DEF GetValueForLayer, NoValue
<1>3. v = [ret |-> "OK", data |-> e.data, label |-> e.label] /\ e # Null
  BY <1>1, <1>2 DEF BackendGet, NoValue
<1>4. e \in Entry \cup {Null}
  BY <1>1, <1>2, ResourceType DEF DB
<1> QED
  BY <1>2, <1>3, <1>4

LEMMA BackendSetType ==
  ASSUME NEW d \in DB, NEW uid \in Uids, NEW l \in Layers,
         NEW g \in Groups, NEW n \in Names \cup {Null}, NEW t,
         NEW data \in Data \cup {Null}, NEW label \in Labels,
         BackendCanSet(d, uid, Key(l, g, n, t), data)
  PROVE  BackendSet(d, uid, Key(l, g, n, t), data, label) \in DB
<1> DEFINE r == Resource(l, uid)
           s == <<g, n>>
           kept == IF data = Null THEN d[r][s].data ELSE data
           new == [data |-> kept, label |-> label]
<1>1. r \in Resources /\ s \in Slots /\ d[r] \in [Slots -> Entry \cup {Null}]
  BY ResourceType, SlotType DEF DB
<1>2. data # Null \/ d[r][s] # Null
  BY SlotType DEF BackendCanSet, Key
<1>3. kept \in Data
  BY <1>1, <1>2, MediumAssumption DEF Entry
<1>4. new \in Entry
  BY <1>3 DEF Entry
<1>5. BackendSet(d, uid, Key(l, g, n, t), data, label) = [d EXCEPT ![r][s] = new]
  BY SlotType DEF BackendSet, Key
<1> HIDE DEF new
<1> QED
  BY <1>1, <1>4, <1>5 DEF DB

LEMMA BackendUnsetType ==
  ASSUME NEW d \in DB, NEW uid, NEW key
  PROVE  BackendUnset(d, uid, key) \in DB
BY DEF BackendUnset, DB

LEMMA LabelForSetType ==
  ASSUME NEW d \in DB, NEW rules, NEW label \in Labels \cup {Null}, NEW uid \in Uids,
         NEW l, NEW g \in Groups, NEW n \in Names \cup {Null}, NEW t
  PROVE  LabelForSet(d, rules, uid, Key(l, g, n, t), label) \in Labels
<1> DEFINE any == Key(l, g, n, "UNSET")
           old == GetValueForLayer(d, rules, uid, any, Null)
<1>1. [Key(l, g, n, t) EXCEPT !.type = "UNSET"] = any
  BY DEF Key
<1>2. LabelForSet(d, rules, uid, Key(l, g, n, t), label) =
        IF old.ret = "OK" THEN old.label ELSE IF label = Null THEN Floor ELSE label
  BY <1>1 DEF LabelForSet
<1>3. ASSUME old.ret = "OK"
      PROVE  old.label \in Labels
  <2>1. /\ old.label = d[Resource(l, uid)][<<g, n>>].label
        /\ d[Resource(l, uid)][<<g, n>>] \in Entry
    BY <1>3, ReadFromLayer
  <2> HIDE DEF old
  <2> QED
    BY <2>1 DEF Entry
<1> HIDE DEF old, any
<1> QED
  BY <1>2, <1>3, NullAssumption

LEMMA SetValueType ==
  ASSUME NEW d \in DB, NEW rules, NEW label \in Labels \cup {Null}, NEW uid \in Uids,
         NEW l, NEW g \in Groups, NEW n \in Names \cup {Null}, NEW t, NEW v \in Data,
         CanSetValue(d, rules, uid, Key(l, g, n, t), v, label)
  PROVE  SetValue(d, rules, uid, Key(l, g, n, t), v, label) \in DB
<1> DEFINE key == Key(l, g, n, t)
<1>1. LabelForSet(d, rules, uid, key, label) \in Labels
  BY LabelForSetType
<1>2. l \in Layers /\ BackendCanSet(d, uid, key, v)
  BY DEF CanSetValue, Writable, Key
<1> QED
  BY <1>1, <1>2, BackendSetType DEF SetValue

LEMMA SetLabelType ==
  ASSUME NEW d \in DB, NEW uid \in Uids,
         NEW l, NEW g \in Groups, NEW n \in Names \cup {Null}, NEW t, NEW b \in Labels,
         CanSetLabel(d, uid, Key(l, g, n, t))
  PROVE  SetLabel(d, uid, Key(l, g, n, t), b) \in DB
<1>1. l \in Layers /\ BackendCanSet(d, uid, Key(l, g, n, t), Null)
  BY DEF CanSetLabel, Writable, Key
<1> QED
  BY <1>1, BackendSetType DEF SetLabel

LEMMA CreateGroupType ==
  ASSUME NEW d \in DB, NEW rules, NEW label \in Labels \cup {Null}, NEW uid \in Uids,
         NEW l, NEW g \in Groups, NEW n \in Names \cup {Null}, NEW t,
         CanCreateGroup(d, rules, uid, Key(l, g, n, t))
  PROVE  CreateGroup(d, uid, Key(l, g, n, t), label) \in DB
<1>1. l \in Layers /\ BackendCanSet(d, uid, Key(l, g, n, t), GroupValue)
  BY DEF CanCreateGroup, Writable, Key
<1>2. GroupValue \in Data /\ (IF label = Null THEN Floor ELSE label) \in Labels
  BY NullAssumption DEF Data
<1> QED
  BY <1>1, <1>2, BackendSetType DEF CreateGroup

LEMMA PersistedType ==
  ASSUME NEW d \in DB
  PROVE  Persisted(d) \in DB /\ EmptyDB \in DB
BY DEF Persisted, EmptyDB, DB

-----------------------------------------------------------------------------
(* A run has a command that can be carried out; its request is not yet      *)
(* answered while it is on its way, and a run that has succeeded has none   *)
(* left that could still be answered.                                       *)
RunOK ==
  /\ phase # "idle" \/ request => run.line \in Lines
  /\ request => run.line.command # "check" /\ answer = Null
  /\ phase = "open" => ~request /\ exit = Null /\ answer = Null
  /\ phase = "waiting" => run.line.command # "check" /\ exit = Null
  /\ phase = "idle" => answer = Null /\ connected = FALSE
  /\ Succeeded => ~request

(* The answer is what was done, and shows nothing where nothing was read.   *)
AnswerOK ==
  /\ answer # Null => answer = result
  /\ result # Null => (result.shown # Null => result.ok)

IInv == RunOK /\ AnswerOK /\ ReportsWhatWasDone

-----------------------------------------------------------------------------
(* Whatever is refused shows nothing.                                       *)
LEMMA RefusedShowsNothing ==
  ASSUME NEW d, NEW line \in Lines, line.command # "check", NEW uid, NEW label, NEW lister
  PROVE  Perform(d, line, uid, label, lister).shown # Null =>
           Perform(d, line, uid, label, lister).ok
<1>1. line.command \in {"get", "set", "get_label", "set_label", "create_group", "remove_group",
                        "unset_value", "list_groups", "list_keys"}
  BY LineAssumption DEF Arity
<1>2. CASE line.command \in {"list_groups", "list_keys"}
  BY <1>2 DEF Perform, PerformList, Read
<1>3. CASE line.command \in {"get", "get_label"}
  BY <1>3 DEF Perform, PerformOnKey, Read
<1>4. CASE line.command = "set"
  BY <1>4 DEF Perform, PerformOnKey, PerformSet, Granted
<1>5. CASE line.command \in {"set_label", "create_group", "remove_group", "unset_value"}
  BY <1>5 DEF Perform, PerformOnKey, Granted
<1> QED
  BY <1>1, <1>2, <1>3, <1>4, <1>5

LEMMA InitKeeps == Init => IInv
BY DEF Init, IInv, RunOK, AnswerOK, ReportsWhatWasDone, Succeeded

LEMMA StartKeeps ==
  ASSUME IInv, NEW line \in Lines, NEW uid, NEW options, Start(line, uid, options)
  PROVE  IInv'
BY DEF IInv, RunOK, AnswerOK, ReportsWhatWasDone, Succeeded, Start, Exit

LEMMA ExitAtOnceKeeps ==
  ASSUME IInv, ExitAtOnce
  PROVE  IInv'
BY DEF IInv, RunOK, AnswerOK, ReportsWhatWasDone, Succeeded, ExitAtOnce, Exit, Unusable

LEMMA ExecuteDirectKeeps ==
  ASSUME IInv, ExecuteDirect
  PROVE  IInv'
<1> DEFINE o == Perform(db, run.line, run.uid, Null, run.uid)
<1>1. run.line \in Lines /\ run.line.command # "check"
  BY DEF IInv, RunOK, ExecuteDirect, CarriesOut
<1>2. /\ result'.ok = o.ok /\ result'.shown = o.shown
      /\ result'.shown # Null => result'.ok
  BY <1>1, RefusedShowsNothing DEF ExecuteDirect, Outcome
<1>3. /\ exit' = [status |-> DirectStatus(o),
                  shown |-> IF DirectStatus(o) = "success" THEN o.shown ELSE Null]
      /\ phase' = "idle" /\ answer' = Null /\ connected' = FALSE /\ UNCHANGED <<run, request>>
      /\ run.way = "direct" /\ phase = "open"
  BY DEF ExecuteDirect, Exit, CarriesOut
<1>4. DirectStatus(o) = "success" => o.ok
  BY DEF DirectStatus
<1> HIDE DEF o
<1>5. RunOK'
  BY <1>3 DEF IInv, RunOK, Succeeded
<1>6. AnswerOK'
  BY <1>2, <1>3 DEF AnswerOK
<1>7. ReportsWhatWasDone'
  BY <1>2, <1>3, <1>4 DEF ReportsWhatWasDone, Succeeded
<1> QED
  BY <1>5, <1>6, <1>7 DEF IInv

LEMMA SendKeeps ==
  ASSUME IInv, Send
  PROVE  IInv'
BY DEF IInv, RunOK, AnswerOK, ReportsWhatWasDone, Succeeded, Send, Exit, CarriesOut

(* The daemon answers a request whose run has not succeeded, so that no     *)
(* report is made false by what it does.                                    *)
LEMMA ServeKeeps ==
  ASSUME IInv, Serve
  PROVE  IInv'
<1> DEFINE o == Perform(db, run.line, run.uid, ClientLabel[run.uid], DaemonUid)
<1>1. /\ run.line \in Lines /\ run.line.command # "check" /\ request
      /\ phase # "open" /\ ~Succeeded
  BY DEF IInv, RunOK, Serve
<1>2. /\ result'.shown # Null => result'.ok
      /\ answer' # Null => answer' = result'
  BY <1>1, RefusedShowsNothing DEF Serve, Outcome
<1>3. UNCHANGED <<phase, run, exit, connected>> /\ request' = FALSE /\ (connected = FALSE => answer' = Null)
  BY DEF Serve, tool
<1>4. phase = "idle" => connected = FALSE
  BY DEF IInv, RunOK
<1>5. RunOK'
  BY <1>1, <1>3, <1>4 DEF IInv, RunOK, Succeeded
<1>6. AnswerOK'
  BY <1>2 DEF AnswerOK
<1>7. ReportsWhatWasDone'
  BY <1>1, <1>3 DEF ReportsWhatWasDone, Succeeded
<1> QED
  BY <1>5, <1>6, <1>7 DEF IInv

LEMMA ReceiveKeeps ==
  ASSUME IInv, Receive
  PROVE  IInv'
<1> PICK noted \in {answer, Null} : \E status \in ServerStatus(noted) :
           Exit(status, IF noted = Null \/ status # "success" THEN Null ELSE noted.shown)
  BY DEF Receive
<1> PICK status \in ServerStatus(noted) :
           Exit(status, IF noted = Null \/ status # "success" THEN Null ELSE noted.shown)
  OBVIOUS
<1>1. /\ phase = "waiting" /\ answer # Null /\ answer = result
      /\ run.line.command # "check" /\ ~request /\ UNCHANGED <<run, request, result>>
      /\ run.line \in Lines
  BY DEF Receive, IInv, RunOK, AnswerOK
<1>2. /\ exit' = [status |-> status,
                  shown |-> IF noted = Null \/ status # "success" THEN Null ELSE noted.shown]
      /\ phase' = "idle" /\ answer' = Null /\ connected' = FALSE
  BY DEF Exit
<1>3. status = "success" /\ run.line.command = "get" => noted # Null /\ noted.ok
  BY DEF ServerStatus, GetStatus
<1>4. RunOK'
  BY <1>1, <1>2 DEF IInv, RunOK, Succeeded
<1>5. AnswerOK'
  BY <1>1, <1>2 DEF IInv, AnswerOK
<1>6. ReportsWhatWasDone'
  BY <1>1, <1>2, <1>3 DEF IInv, AnswerOK, ReportsWhatWasDone, Succeeded
<1> QED
  BY <1>4, <1>5, <1>6 DEF IInv

LEMMA GiveUpKeeps ==
  ASSUME IInv, GiveUp
  PROVE  IInv'
BY DEF IInv, RunOK, AnswerOK, ReportsWhatWasDone, Succeeded, GiveUp, Exit

LEMMA DaemonKeeps ==
  ASSUME IInv, DaemonStarts \/ DaemonStops \/ OthersServed
  PROVE  IInv'
<1>1. UNCHANGED <<phase, run, exit, answer, result>> /\ (request' => request)
  BY DEF DaemonStarts, DaemonStops, OthersServed, tool
<1>2. connected' => connected
  BY DEF DaemonStarts, DaemonStops, OthersServed
<1> QED
  BY <1>1, <1>2 DEF IInv, RunOK, AnswerOK, ReportsWhatWasDone, Succeeded

LEMMA NextKeeps ==
  ASSUME IInv, [Next]_vars
  PROVE  IInv'
<1>1. CASE UNCHANGED vars
  BY <1>1 DEF vars, tool, IInv, RunOK, AnswerOK, ReportsWhatWasDone, Succeeded
<1> QED
  BY <1>1, StartKeeps, ExitAtOnceKeeps, ExecuteDirectKeeps, SendKeeps, ServeKeeps, ReceiveKeeps,
     GiveUpKeeps, DaemonKeeps DEF Next

(* In every reachable state a request on its way has neither been answered  *)
(* nor reported as a success, and an answer is what was done.               *)
(* (cli_get_value and its neighbours, buxton_wire_get_response)             *)
THEOREM ToolInductive == Spec => []IInv
BY InitKeeps, NextKeeps, PTL DEF Spec

(* What buxtonctl prints and its success rest on what was done for that     *)
(* very run.                                                                *)
THEOREM ReportsAreTrue == Spec => []ReportsWhatWasDone
<1>1. IInv => ReportsWhatWasDone
  BY DEF IInv
<1> QED
  BY <1>1, ToolInductive, PTL

-----------------------------------------------------------------------------
(* Types                                                                    *)

(* A run has as many arguments as its command takes as long as it has       *)
(* something to do.                                                         *)
UsableOK ==
  /\ phase # "idle" \/ request => Usable(run.line)
  /\ phase = "waiting" \/ request => ~Unusable(run.line)
  /\ request => run # Null

TInv == TypeOK /\ UsableOK

(* A command that can be carried out leaves databases.                      *)
LEMMA PerformType ==
  ASSUME NEW d \in DB, NEW line \in Lines, Usable(line), line.command # "check", ~Unusable(line),
         NEW uid \in Uids, NEW label \in Labels \cup {Null}, NEW lister
  PROVE  Perform(d, line, uid, label, lister).db \in DB
<1> DEFINE key == KeyOf(line)
<1>0. line.command \in {"get", "set", "get_label", "set_label", "create_group", "remove_group",
                        "unset_value", "list_groups", "list_keys"}
  BY LineAssumption DEF Arity
<1>1. CASE line.command \in {"list_groups", "list_keys"}
  BY <1>1 DEF Perform, PerformList, Read
<1>2. CASE line.command \in {"get", "get_label"}
  BY <1>2 DEF Perform, PerformOnKey, Read
<1>3. CASE line.command \notin {"list_groups", "list_keys", "get", "get_label"}
  <2>1. line.command \in OnKey
    BY <1>0, <1>3 DEF OnKey, Arity
  <2>2. /\ key.group \in Groups /\ key.name \in Names \cup {Null}
        /\ line.command = "set" => ValueOf(line) \in Values
        /\ line.command = "set_label" => Last(line.args) \in Labels
    BY <2>1, ArgumentAssumption DEF Unusable
  <2>3. key = Key(key.layer, key.group, key.name, key.type)
    BY DEF KeyOf, Key
  <2> PICK l, g, n, t : l = key.layer /\ g = key.group /\ n = key.name /\ t = key.type
    OBVIOUS
  <2>4. g \in Groups /\ n \in Names \cup {Null} /\ key = Key(l, g, n, t)
    BY <2>2, <2>3
  <2> HIDE DEF key
  <2>5. CASE line.command = "set"
    <3> PICK v : v = ValueOf(line)
      OBVIOUS
    <3>1. v \in Data
      BY <2>2, <2>5 DEF Data
    <3>2. Perform(d, line, uid, label, lister) = PerformSet(d, key, v, uid, label)
      BY <2>5 DEF Perform, PerformOnKey, key
    <3>3. CASE CanSetValue(d, smack, uid, key, v, label)
      <4>1. SetValue(d, smack, uid, key, v, label) \in DB
        BY <2>4, <3>1, <3>3, SetValueType
      <4> QED
        BY <3>2, <3>3, <4>1 DEF PerformSet, Granted
    <3> QED
      BY <3>2, <3>3 DEF PerformSet, Granted
  <2>6. CASE line.command = "set_label"
    <3> PICK b : b = Last(line.args)
      OBVIOUS
    <3>1. b \in Labels
      BY <2>2, <2>6
    <3>2. Perform(d, line, uid, label, lister)
            = Granted(CanSetLabel(d, uid, key), d, SetLabel(d, uid, key, b))
      BY <2>6 DEF Perform, PerformOnKey, key
    <3>3. CASE CanSetLabel(d, uid, key)
      <4>1. SetLabel(d, uid, key, b) \in DB
        BY <2>4, <3>1, <3>3, SetLabelType
      <4> QED
        BY <3>2, <3>3, <4>1 DEF Granted
    <3> QED
      BY <3>2, <3>3 DEF Granted
  <2>7. CASE line.command = "create_group"
    <3>1. Perform(d, line, uid, label, lister)
            = Granted(CanCreateGroup(d, smack, uid, key), d, CreateGroup(d, uid, key, label))
      BY <2>7 DEF Perform, PerformOnKey, key
    <3>2. CASE CanCreateGroup(d, smack, uid, key)
      <4>1. CreateGroup(d, uid, key, label) \in DB
        BY <2>4, <3>2, CreateGroupType
      <4> QED
        BY <3>1, <3>2, <4>1 DEF Granted
    <3> QED
      BY <3>1, <3>2 DEF Granted
  <2>8. CASE line.command \in {"remove_group", "unset_value"}
    <3>1. Perform(d, line, uid, label, lister).db \in {d, BackendUnset(d, uid, key)}
      BY <2>8 DEF Perform, PerformOnKey, key, Granted, RemoveGroup, UnsetValue
    <3> QED
      BY <3>1, BackendUnsetType
  <2> QED
    BY <1>0, <1>3, <2>5, <2>6, <2>7, <2>8
<1> QED
  BY <1>1, <1>2, <1>3

(* What survives the daemon survives it again.                              *)
LEMMA PersistedTwice ==
  ASSUME NEW d \in DB
  PROVE  Persisted(Persisted(d)) = Persisted(d)
BY DEF Persisted, EmptyDB

LEMMA InitTypes == Init => TInv
<1> SUFFICES ASSUME Init PROVE TInv
  OBVIOUS
<1>1. EmptyDB \in DB /\ Persisted(EmptyDB) = EmptyDB
  BY DEF Persisted, EmptyDB, DB
<1> QED
  BY <1>1 DEF Init, TInv, TypeOK, UsableOK

LEMMA StartTypes ==
  ASSUME IInv, TInv, NEW line \in Lines, NEW uid \in Users, NEW options, Start(line, uid, options)
  PROVE  TInv'
<1> PICK way : way = IF Usable(line) THEN Way(options) ELSE "none"
  OBVIOUS
<1>1. /\ way \in {"direct", "server", "none"} /\ (way # "none" => Usable(line))
      /\ way = "server" => running
  BY DEF Way
<1>2. /\ phase = "idle" /\ ~request /\ run' = [line |-> line, uid |-> uid, way |-> way]
      /\ UNCHANGED <<db, running, request>> /\ answer' = Null
      /\ \/ way = "none" /\ phase' = "idle" /\ connected' = FALSE
            /\ exit' = [status |-> "failure", shown |-> Null]
         \/ way # "none" /\ phase' = "open" /\ exit' = Null /\ connected' = (way = "server")
  BY DEF Start, Exit
<1>3. run' \in Runs /\ run' # Null /\ run'.way = way /\ run'.line = line /\ run'.uid = uid
  BY <1>1, <1>2, ArgumentAssumption DEF Runs
<1>4. TypeOK'
  <2>1. connected' => running' /\ phase' # "idle"
    BY <1>1, <1>2
  <2>2. exit' # Null => exit'.status \in {"success", "failure", "killed"}
    BY <1>2
  <2>3. phase' \in {"idle", "open", "waiting"} /\ ~request'
    BY <1>2
  <2>4. run'.line \in Lines /\ run'.uid \in Users /\ run'.way \in {"direct", "server", "none"}
    BY <1>1, <1>3
  <2>5. db' \in DB /\ (~running' => db' = Persisted(db'))
    BY <1>2 DEF TInv, TypeOK
  <2> QED
    BY <1>2, <1>3, <2>1, <2>2, <2>3, <2>4, <2>5 DEF TypeOK
<1>5. UsableOK'
  BY <1>1, <1>2, <1>3 DEF UsableOK
<1> QED
  BY <1>4, <1>5 DEF TInv

(* The end of a run.                                                        *)
LEMMA ExitTypes ==
  ASSUME TInv, NEW status \in {"success", "failure", "killed"}, NEW shown, Exit(status, shown),
         run # Null, UNCHANGED <<db, running, run, request>>
  PROVE  TInv'
BY DEF Exit, TInv, TypeOK, UsableOK

LEMMA ExitAtOnceTypes ==
  ASSUME TInv, ExitAtOnce
  PROVE  TInv'
<1>1. run # Null /\ UNCHANGED <<db, running, run, request>>
  BY DEF ExitAtOnce, TInv, TypeOK
<1>2. Exit("success", Null) \/ Exit("failure", Null)
  BY DEF ExitAtOnce
<1> QED
  BY <1>1, <1>2, ExitTypes

LEMMA ExecuteDirectTypes ==
  ASSUME IInv, TInv, ExecuteDirect
  PROVE  TInv'
<1> PICK o : o = Perform(db, run.line, run.uid, Null, run.uid)
  OBVIOUS
<1>1. /\ phase = "open" /\ run.line.command # "check" /\ ~Unusable(run.line) /\ run.way = "direct"
      /\ db' = Persisted(o.db) /\ UNCHANGED <<running, run, request>>
      /\ Exit(DirectStatus(o), IF DirectStatus(o) = "success" THEN o.shown ELSE Null)
  BY DEF ExecuteDirect, CarriesOut
<1>2. run # Null /\ run.line \in Lines /\ run.uid \in Users /\ Usable(run.line) /\ db \in DB
  BY <1>1 DEF TInv, TypeOK, UsableOK
<1>3. o.db \in DB
  BY <1>1, <1>2, PerformType, LineAssumption
<1>4. db' \in DB /\ db' = Persisted(db')
  BY <1>1, <1>3, PersistedType, PersistedTwice
<1>5. /\ exit'.status \in {"success", "failure"} /\ phase' = "idle" /\ connected' = FALSE
      /\ answer' = Null
  BY <1>1 DEF Exit, DirectStatus
<1>6. TypeOK'
  BY <1>1, <1>2, <1>4, <1>5 DEF TInv, TypeOK
<1>7. UsableOK'
  BY <1>1, <1>5 DEF TInv, UsableOK
<1> QED
  BY <1>6, <1>7 DEF TInv

LEMMA SendTypes ==
  ASSUME IInv, TInv, Send
  PROVE  TInv'
<1>1. /\ phase = "open" /\ run.way = "server" /\ run # Null /\ Usable(run.line)
      /\ ~Unusable(run.line) /\ UNCHANGED <<db, running, run>>
  BY DEF Send, CarriesOut, TInv, TypeOK, UsableOK
<1>2. CASE connected
  <2>1. phase' = "waiting" /\ request' = TRUE /\ UNCHANGED <<exit, connected, answer>>
    BY <1>2 DEF Send
  <2>2. answer = Null
    BY <1>1 DEF IInv, RunOK
  <2> QED
    BY <1>1, <1>2, <2>1, <2>2 DEF TInv, TypeOK, UsableOK
<1>3. CASE ~connected
  BY <1>1, <1>3, ExitTypes DEF Send
<1> QED
  BY <1>2, <1>3

LEMMA ServeTypes ==
  ASSUME IInv, TInv, Serve
  PROVE  TInv'
<1> PICK o : o = Perform(db, run.line, run.uid, ClientLabel[run.uid], DaemonUid)
  OBVIOUS
<1>1. /\ running /\ request /\ db' = o.db /\ request' = FALSE /\ result' = Outcome(o)
      /\ answer' = (IF connected THEN Outcome(o) ELSE Null)
      /\ UNCHANGED <<running, phase, run, exit, connected>>
  BY DEF Serve, tool
<1>2. /\ run.line \in Lines /\ run.uid \in Users /\ run.line.command # "check" /\ Usable(run.line)
      /\ ~Unusable(run.line) /\ db \in DB /\ run # Null /\ run.way = "server"
      /\ connected => phase = "waiting"
  <2>1. phase # "open" /\ run.line \in Lines /\ run.line.command # "check"
    BY <1>1 DEF IInv, RunOK
  <2>2. run # Null /\ run.way = "server"
    BY <1>1 DEF TInv, TypeOK, UsableOK
  <2> QED
    BY <1>1, <2>1, <2>2 DEF TInv, TypeOK, UsableOK
<1>3. o.db \in DB
  BY <1>2, PerformType, LineAssumption
<1>4. TypeOK'
  BY <1>1, <1>2, <1>3 DEF TInv, TypeOK
<1>5. UsableOK'
  BY <1>1, <1>2 DEF UsableOK
<1> QED
  BY <1>4, <1>5 DEF TInv

LEMMA ReceiveTypes ==
  ASSUME TInv, Receive
  PROVE  TInv'
<1> PICK noted \in {answer, Null} : \E status \in ServerStatus(noted) :
           Exit(status, IF noted = Null \/ status # "success" THEN Null ELSE noted.shown)
  BY DEF Receive
<1> PICK status \in ServerStatus(noted) :
           Exit(status, IF noted = Null \/ status # "success" THEN Null ELSE noted.shown)
  OBVIOUS
<1>1. status \in {"success", "failure", "killed"}
  BY DEF ServerStatus, GetStatus, ListStatus
<1>2. run # Null /\ UNCHANGED <<db, running, run, request>>
  BY DEF Receive, TInv, TypeOK
<1> QED
  BY <1>1, <1>2, ExitTypes

LEMMA GiveUpTypes ==
  ASSUME TInv, GiveUp
  PROVE  TInv'
<1>1. run # Null /\ UNCHANGED <<db, running, run, request>> /\ Exit("failure", Null)
  BY DEF GiveUp, TInv, TypeOK
<1> QED
  BY <1>1, ExitTypes

LEMMA DaemonTypes ==
  ASSUME TInv, DaemonStarts \/ DaemonStops \/ OthersServed
  PROVE  TInv'
<1>1. UNCHANGED <<phase, run, exit, answer, result>>
  BY DEF DaemonStarts, DaemonStops, OthersServed, tool
<1>2. CASE DaemonStarts
  BY <1>1, <1>2 DEF DaemonStarts, TInv, TypeOK, UsableOK
<1>3. CASE DaemonStops
  <2>1. db' = Persisted(db) /\ db \in DB
    BY <1>3 DEF DaemonStops, TInv, TypeOK
  <2>2. db' \in DB /\ db' = Persisted(db')
    BY <2>1, PersistedType, PersistedTwice
  <2>3. running' = FALSE /\ connected' = FALSE /\ request' = FALSE
    BY <1>3 DEF DaemonStops
  <2> QED
    BY <1>1, <2>2, <2>3 DEF TInv, TypeOK, UsableOK
<1>4. CASE OthersServed
  <2> PICK line \in Lines : /\ Usable(line) /\ line.command # "check" /\ ~Unusable(line)
                            /\ db' = Perform(db, line, 0, Null, 0).db
    BY <1>4 DEF OthersServed
  <2>1. db \in DB
    BY DEF TInv, TypeOK
  <2>2. db' \in DB
    BY <2>1, PerformType, LineAssumption, NullAssumption
  <2>3. running /\ UNCHANGED <<running, connected, request>>
    BY <1>4 DEF OthersServed
  <2> QED
    BY <1>1, <2>2, <2>3 DEF TInv, TypeOK, UsableOK
<1> QED
  BY <1>2, <1>3, <1>4

LEMMA NextTypes ==
  ASSUME IInv, TInv, [Next]_vars
  PROVE  TInv'
<1>1. CASE UNCHANGED vars
  BY <1>1 DEF vars, tool, TInv, TypeOK, UsableOK
<1> QED
  BY <1>1, StartTypes, ExitAtOnceTypes, ExecuteDirectTypes, SendTypes, ServeTypes, ReceiveTypes,
     GiveUpTypes, DaemonTypes DEF Next

(* The tool, its request and the databases keep their types: no command     *)
(* leaves anything but entries, nobody is connected to a daemon that does   *)
(* not run, and what is in memory is gone once it stops.                    *)
THEOREM ToolTypes == Spec => []TypeOK
<1>1. TInv => TypeOK
  BY DEF TInv
<1>2. Spec => []TInv
  BY InitTypes, NextTypes, ToolInductive, PTL DEF Spec
<1> QED
  BY <1>1, <1>2, PTL
=============================================================================
