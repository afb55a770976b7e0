------------------------------- MODULE Buxtonctl -------------------------------
(***************************************************************************)
(* buxtonctl, the command line tool: it checks the number of its           *)
(* arguments, opens the service or else the databases themselves, carries  *)
(* out one command, and exits with a status.  The daemon it talks to comes *)
(* and goes, serves other clients meanwhile, and may answer too late.      *)
(*                                                                         *)
(* A run that works on the databases directly is made while no daemon has  *)
(* them open.  create-db is in Setup.                                      *)
(***************************************************************************)
EXTENDS BuxtonDirect

CONSTANTS
  Lines,       \* the command lines typed: a set of [command, type, args]
  Converted,   \* [type, text -> the value the text stands for, or Null if refused]
  Users,       \* uids of those who run the tool
  ClientLabel, \* [Users -> Labels or Null], SO_PEERSEC
  DaemonUid,   \* geteuid() of the daemon
  smack        \* the rules it has loaded

(* The command table of main: least and most arguments.                     *)
Arity == [
  check |-> <<0, 0>>, get |-> <<2, 3>>, set |-> <<4, 4>>,
  get_label |-> <<2, 3>>, set_label |-> <<3, 4>>,
  create_group |-> <<2, 2>>, remove_group |-> <<2, 2>>, unset_value |-> <<3, 3>>,
  list_groups |-> <<1, 2>>, list_keys |-> <<2, 3>>]

Options == {"direct", "server", "default"}

ASSUME LineAssumption ==
  /\ \A line \in Lines : line.command \in DOMAIN Arity /\ Len(line.args) \in 0 .. 5
  /\ Users \subseteq Uids /\ DaemonUid \in Uids
  /\ ClientLabel \in [Users -> Labels \cup {Null}]

VARIABLES
  db,         \* what the backends hold
  running,    \* the daemon runs
  phase,      \* of the tool: "idle", "open" or "waiting" for its answer
  run,        \* the run under way or last ended, [line, uid, way]
  connected,  \* the daemon has its connection
  request,    \* it has been sent and not yet read by the daemon
  answer,     \* what the daemon has answered it, or Null
  result,     \* what was done for this run, or Null while nothing was
  exit        \* [status, shown] of the last run that ended

tool == <<phase, run, exit>>
vars == <<db, running, tool, connected, request, answer, result>>

-----------------------------------------------------------------------------
(* A command line.                                                          *)

Usable(line) ==
  Len(line.args) \in Arity[line.command][1] .. Arity[line.command][2]

Layerless(line) == line.command = "get" /\ Len(line.args) = 2

(* buxton_key_create of what follows the command's name.                    *)
KeyOf(line) ==
  LET a == line.args
      named == CASE line.command = "get_label" -> Len(a) = 3
                 [] line.command = "set_label" -> Len(a) = 4
                 [] OTHER -> line.command \notin {"create_group", "remove_group"}
  IN  IF Layerless(line) THEN Key(Null, a[1], a[2], line.type)
      ELSE Key(a[1], a[2], IF named THEN a[3] ELSE Null, line.type)

ValueOf(line) == Converted[line.type, line.args[4]]
Unusable(line) == line.command = "set" /\ ValueOf(line) = Null

(* The groups, names and labels typed are among those the databases may     *)
(* hold, and a text converts to a value or is refused; a layer may be one   *)
(* nobody configured.  Null is no run of the tool.                          *)
OnKey == DOMAIN Arity \ {"check", "list_groups", "list_keys"}
Runs == [line : Lines, uid : Users, way : {"direct", "server", "none"}]

ASSUME ArgumentAssumption ==
  /\ \A line \in Lines : Usable(line) /\ line.command \in OnKey =>
       /\ KeyOf(line).group \in Groups /\ KeyOf(line).name \in Names \cup {Null}
       /\ line.command = "set" => ValueOf(line) \in Values \cup {Null}
       /\ line.command = "set_label" => Last(line.args) \in Labels
  /\ Null \notin Runs

(* What carrying it out on databases d does, for a caller with this uid and *)
(* label; names are listed with the uid lister.                             *)
Granted(can, d, new) == [ok |-> can, db |-> IF can THEN new ELSE d, shown |-> Null]
Read(ok, d, shown) == [ok |-> ok, db |-> d, shown |-> IF ok THEN shown ELSE Null]

Outcome(o) == [ok |-> o.ok, shown |-> o.shown]

PerformSet(d, key, value, uid, label) ==
  Granted(CanSetValue(d, smack, uid, key, value, label), d,
          SetValue(d, smack, uid, key, value, label))

PerformList(d, line, lister) ==
  LET layer == line.args[1]
      group == IF line.command = "list_groups" THEN Null ELSE line.args[2]
  IN  Read(layer \in Layers /\ Medium[Resource(layer, lister)] # "none", d,
           BackendListNames(d, lister, layer, group))

PerformOnKey(d, line, key, uid, label) ==
  LET stored == GetValue(d, smack, uid, key, label) IN
  CASE line.command = "get" -> Read(stored.ret = "OK", d, stored.data)
    [] line.command = "get_label" -> Read(stored.ret = "OK", d, stored.label)
    [] line.command = "set" -> PerformSet(d, key, ValueOf(line), uid, label)
    [] line.command = "set_label" ->
         Granted(CanSetLabel(d, uid, key), d, SetLabel(d, uid, key, Last(line.args)))
    [] line.command = "create_group" ->
         Granted(CanCreateGroup(d, smack, uid, key), d, CreateGroup(d, uid, key, label))
    [] line.command = "remove_group" ->
         Granted(CanRemoveGroup(d, smack, uid, key, label), d, RemoveGroup(d, uid, key))
    [] line.command = "unset_value" ->
         Granted(CanUnsetValue(d, smack, uid, key, label), d, UnsetValue(d, uid, key))

Perform(d, line, uid, label, lister) ==
  IF line.command \in {"list_groups", "list_keys"} THEN PerformList(d, line, lister)
  ELSE PerformOnKey(d, line, KeyOf(line), uid, label)

-----------------------------------------------------------------------------
Init ==
  /\ db = EmptyDB /\ running = FALSE
  /\ phase = "idle" /\ run = Null /\ exit = Null
  /\ connected = FALSE /\ request = FALSE /\ answer = Null /\ result = Null

(* main, up to the method of the command.                                   *)
Exit(status, shown) ==
  /\ exit' = [status |-> status, shown |-> shown]
  /\ phase' = "idle"
  /\ connected' = FALSE /\ answer' = Null

WayNoLook(options) == \* mutant: a service that is not there counts as opened
  IF options \in {"server", "default"} THEN "server" ELSE "direct"
Way(options) ==
  IF options \in {"server", "default"} /\ running THEN "server"
  ELSE IF options \in {"direct", "default"} THEN "direct" ELSE "none"

(* Bound: the request of the last run is read before the next one starts.   *)
Start(line, uid, options) ==
  /\ phase = "idle" /\ ~request
  /\ options = "direct" => ~running
  /\ run' = [line |-> line, uid |-> uid, way |-> IF Usable(line) THEN Way(options) ELSE "none"]
  /\ result' = Null
  /\ IF run'.way = "none" THEN Exit("failure", Null)
     ELSE /\ phase' = "open" /\ exit' = Null /\ answer' = Null
          /\ connected' = (run'.way = "server")
  /\ UNCHANGED <<db, running, request>>

(* cli_check_availability, and the checks that need no answer.              *)
ExitAtOnce ==
  /\ phase = "open"
  /\ \/ run.line.command = "check" /\ Exit("success", Null)
     \/ Unusable(run.line) /\ Exit("failure", Null)
  /\ UNCHANGED <<db, running, run, request, result>>

CarriesOut == phase = "open" /\ run.line.command # "check" /\ ~Unusable(run.line)

-----------------------------------------------------------------------------
(* Directly: the caller is exempt from the checks of labels, and what it    *)
(* puts into a layer kept in memory ends with it.                           *)
DirectStatus(o) ==
  IF Layerless(run.line) \/ ~o.ok THEN "failure" ELSE "success"

ExecuteDirect ==
  LET o == Perform(db, run.line, run.uid, Null, run.uid) IN
  /\ CarriesOut /\ run.way = "direct"
  /\ db' = Persisted(o.db)
  /\ result' = Outcome(o)
  /\ Exit(DirectStatus(o), IF DirectStatus(o) = "success" THEN o.shown ELSE Null)
  /\ UNCHANGED <<running, run, request>>

-----------------------------------------------------------------------------
(* Through the daemon.  Nothing blocks SIGPIPE here: to write to a          *)
(* connection the daemon has closed ends the tool.                          *)
Send ==
  /\ CarriesOut /\ run.way = "server"
  /\ IF connected
     THEN /\ phase' = "waiting" /\ request' = TRUE
          /\ UNCHANGED <<exit, connected, answer>>
     ELSE Exit("killed", Null) /\ UNCHANGED request
  /\ UNCHANGED <<db, running, run, result>>

Serve ==
  LET o == Perform(db, run.line, run.uid, ClientLabel[run.uid], DaemonUid) IN
  /\ running /\ request
  /\ db' = o.db
  /\ result' = Outcome(o)
  /\ request' = FALSE
  /\ answer' = IF connected THEN Outcome(o) ELSE Null
  /\ UNCHANGED <<running, tool, connected>>

(* What each callback and what follows it make of an answer, noted, Null if *)
(* the callback did not run.                                                *)
GetStatus(noted) ==
  IF noted # Null /\ noted.ok THEN {"success"} ELSE {"failure"}

(* The status of the list is on the stack until the callback writes it.     *)
ListStatus(noted) ==
  IF noted = Null THEN {"success", "failure", "killed"}
  ELSE IF noted.ok THEN {"success"} ELSE {"failure"}

(* The others succeed once anything was handled.                            *)
ServerStatus(noted) ==
  CASE run.line.command = "get" -> GetStatus(noted)
    [] run.line.command \in {"list_groups", "list_keys"} -> ListStatus(noted)
    [] OTHER -> {"success"}

(* buxton_wire_get_response handles the answer; it finds the callback gone  *)
(* when the answer took longer than TIMEOUT.                                *)
Receive ==
  /\ phase = "waiting" /\ answer # Null
  /\ \E noted \in {answer, Null} : \E status \in ServerStatus(noted) :
       Exit(status, IF noted = Null \/ status # "success" THEN Null ELSE noted.shown)
  /\ UNCHANGED <<db, running, run, request, result>>

(* Nothing for 5 seconds, or the end of the connection.  The request stays  *)
(* for the daemon to read.                                                  *)
GiveUpDone == \* mutant: a timeout counts as handled
  /\ phase = "waiting" /\ answer = Null
  /\ Exit("success", Null)
  /\ UNCHANGED <<db, running, run, request, result>>
GiveUp ==
  /\ phase = "waiting" /\ answer = Null
  /\ Exit("failure", Null)
  /\ UNCHANGED <<db, running, run, request, result>>

-----------------------------------------------------------------------------
(* The daemon and its other clients.                                        *)
DaemonStarts ==
  /\ ~running /\ ~(phase # "idle" /\ run.way = "direct")
  /\ running' = TRUE
  /\ UNCHANGED <<db, smack, tool, connected, request, answer, result>>

DaemonStops ==
  /\ running
  /\ running' = FALSE /\ connected' = FALSE /\ request' = FALSE
  /\ db' = Persisted(db)
  /\ UNCHANGED <<tool, answer, result>>

OthersServed ==
  /\ running
  /\ \E line \in {l \in Lines : Usable(l) /\ l.command # "check" /\ ~Unusable(l)} :
       db' = Perform(db, line, 0, Null, 0).db
  /\ UNCHANGED <<running, tool, connected, request, answer, result>>

Next ==
  \/ \E line \in Lines, uid \in Users, options \in Options : Start(line, uid, options)
  \/ ExitAtOnce \/ ExecuteDirect
  \/ Send \/ Receive \/ GiveUp
  \/ Serve \/ DaemonStarts \/ DaemonStops \/ OthersServed

Spec == Init /\ [][Next]_vars

-----------------------------------------------------------------------------
(* Properties                                                               *)

(* Every variable has its type; without a daemon nobody is connected.       *)
TypeOK ==
  /\ db \in DB
  /\ phase \in {"idle", "open", "waiting"}
  /\ run # Null => run.line \in Lines /\ run.uid \in Users /\ run.way \in {"direct", "server", "none"}
  /\ run = Null => exit = Null /\ phase = "idle"
  /\ connected => running /\ phase # "idle"
  /\ request => running /\ run.way = "server"
  /\ answer # Null => phase = "waiting" /\ answer = result
  /\ ~running => db = Persisted(db)
  /\ exit # Null => exit.status \in {"success", "failure", "killed"}

Succeeded == exit # Null /\ exit.status = "success"

(* What the tool reports rests on what was done for this very run.  A value *)
(* or a label it prints is the one its own request read, with the rights of *)
(* the one who asked; and a command sent to the daemon never exits with     *)
(* success when the daemon has neither carried it out nor refused it: not   *)
(* after a timeout, not when the daemon stopped, not for the answer of an   *)
(* earlier run.                                                             *)
(* (get_value_callback and cli_get_value, get_label_callback,               *)
(* buxton_wire_get_response, and what every buxton_* call makes of it)      *)
ReportsWhatWasDone ==
  Succeeded =>
    /\ run.way = "server" /\ run.line.command # "check" => result # Null
    /\ run.line.command = "get" => result.ok /\ exit.shown = result.shown
    /\ exit.shown # Null => result.ok /\ exit.shown = result.shown

(* docs/buxtonctl.1, EXIT STATUS: "On success, 0 is returned, a non-zero    *)
(* failure code otherwise".                                                 *)
ExitTellsTruth ==
  exit # Null /\ run.line.command # "check" =>
    (Succeeded => result # Null /\ result.ok)

(* docs/buxtonctl.1, Key manipulation: "all "get" commands accept an        *)
(* optional LAYER argument".                                                *)
LayerIsOptional ==
  exit # Null /\ run.way = "direct" /\ run.line.command = "get" /\ result # Null /\ result.ok =>
    Succeeded
=============================================================================
