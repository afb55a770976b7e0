--------------------------------- MODULE Setup ---------------------------------
(***************************************************************************)
(* How a program of buxton finds its settings and opens its layers:        *)
(* configurator.c's precedence of command line, environment, configuration *)
(* file and compiled-in default, buxtond's and buxtonctl's start, the      *)
(* layers and backend modules of direct access, and buxton_set_conf_file   *)
(* and buxton_open of an application.  One program runs; other processes   *)
(* start and stop listening on the sockets it may try.                     *)
(*                                                                         *)
(* A section that iniparser reads is a function of its settings; iniparser *)
(* folds the case of names and merges sections of one name, so the layers  *)
(* of a file are a function of their names.                                *)
(***************************************************************************)
EXTENDS Integers, Sequences, SequencesExt

CONSTANTS
  ConfigKeys,     \* the settings in the order of ConfigKey, CONF_FILE first
  CompileDefault, \* [settings -> paths]
  Environments,   \* what the environment may say: [settings -> path or Null]
  Disks,          \* what the disk may hold: [paths -> the files there]
  Modules,        \* [paths -> backends whose module is in that directory]
  Programs,       \* command lines: [name, file, direct, server]
  Null

Settings == Range(ConfigKeys)
Paths == DOMAIN Modules
Backends == {"gdbm", "memory"}

ASSUME SetupAssumption ==
  /\ ConfigKeys \in Seq(STRING) \ {<< >>} /\ ConfigKeys[1] = "CONF_FILE"
  /\ {"MODULE_DIR", "BUXTON_SOCKET"} \subseteq Settings
  /\ CompileDefault \in [Settings -> Paths]
  /\ Environments \subseteq [Settings -> Paths \cup {Null}]
  /\ Null \notin Paths /\ Null \notin Nat

\* A file gives settings as paths, if at all; only a program has a -c.
ASSUME SourcesAssumption ==
  /\ \A d \in Disks : \A p \in Paths : d[p].kind = "file" =>
       /\ d[p].settings \in [Settings -> Paths \cup {Null}]
       /\ Null \notin DOMAIN d[p].sections
  /\ \A r \in Programs :
       /\ r.file \in Paths \cup {Null}
       /\ r.name = "application" => r.file = Null

VARIABLES
  env, disk,  \* the environment and the disk, which nothing here changes
  listening,  \* paths of the sockets a daemon listens on
  program,    \* the command line
  status,     \* how far the program is
  conf,       \* configurator.c's conf
  loaded,     \* the path conf.ini was read from
  config,     \* control->config: [layers, backends, databases]
  live,       \* [Backends -> times the module was initialised and not destroyed]
  faulty      \* the layer in use when the program ended abnormally

vars == <<env, disk, listening, program, status, conf, loaded, config, live, faulty>>

NoConfig == [layers |-> Null, backends |-> {}, databases |-> << >>]

Init ==
  /\ env \in Environments /\ disk \in Disks /\ program \in Programs
  /\ listening \in SUBSET Paths
  /\ status = "begun"
  /\ conf = [initialized |-> FALSE, keys |-> [k \in Settings |-> Null], ini |-> Null]
  /\ loaded = Null /\ config = NoConfig /\ faulty = Null
  /\ live = [b \in Backends |-> 0]

-----------------------------------------------------------------------------
(* configurator.c *)

\* What iniparser_load returns.  A directory opens and reads as an empty file.
Load(path) ==
  CASE disk[path].kind = "file"      -> disk[path]
    [] disk[path].kind = "directory" ->
         [settings |-> [k \in Settings |-> Null], sections |-> << >>]
    [] OTHER                         -> Null

\* What a says, or else b.
OrElse(a, b) == IF a # Null THEN a ELSE b

\* A setting nothing gives stays NULL.
InitKeyNoDefault(c, k) ==
  LET said == IF c.ini = Null THEN Null ELSE c.ini.settings[k]
      path == OrElse(c.keys[k], OrElse(env[k], said))
  IN  [c EXCEPT !.keys[k] = path,
                !.ini = IF k = "CONF_FILE" /\ path # Null THEN Load(path) ELSE @]

\* The turn of setting k: command line, environment, file, default.
InitKey(c, k) ==
  LET said == IF c.ini = Null THEN Null ELSE c.ini.settings[k]
      path == OrElse(c.keys[k], OrElse(env[k], OrElse(said, CompileDefault[k])))
  IN  [c EXCEPT !.keys[k] = path,
                !.ini = IF k = "CONF_FILE" THEN Load(path) ELSE @]

\* c after the turns of the first n settings.
Turns(c) ==
  LET after[n \in 0 .. Len(ConfigKeys)] ==
        IF n = 0 THEN c ELSE InitKey(after[n - 1], ConfigKeys[n])
  IN  after

Initialize(c) ==
  IF c.initialized THEN c
  ELSE [Turns(c)[Len(ConfigKeys)] EXCEPT !.initialized = TRUE]

AddCmdLine(c, k, data) == [c EXCEPT !.keys[k] = data]

\* What stat() lets -c and buxton_set_conf_file accept.
IsFile(path) == disk[path].kind \in {"file", "malformed"}

\* buxton_set_conf_file checks the path and forgets to keep it.
SetConfFileChecks(c, path) == c

SetConfFile(c, path) == IF IsFile(path) THEN AddCmdLine(c, "CONF_FILE", path) ELSE c

\* Every program asks for a setting before it does anything else.
Use(c) ==
  LET d == Initialize(c)
  IN  /\ conf' = d
      /\ loaded' = IF c.initialized THEN loaded ELSE d.keys["CONF_FILE"]

-----------------------------------------------------------------------------
(* backend.c and direct.c *)

\* The access of a layer has to be given.
IsLayerAccess(s) ==
  /\ s.Description # Null /\ s.Access # Null
  /\ s.Type \in {"System", "User"} /\ s.Backend \in Backends
  /\ s.Priority # Null /\ s.Priority >= 0

\* The sections buxton_key_get_layers and buxton_layer_new accept.
IsLayer(s) ==
  /\ s.Description # Null
  /\ s.Type \in {"System", "User"}
  /\ s.Backend \in Backends
  /\ s.Priority # Null /\ s.Priority >= 0

\* Only the exact word read-only protects a layer.
Layer(s) == [type |-> s.Type, backend |-> s.Backend, priority |-> s.Priority,
             readonly |-> s.Access = "read-only"]

\* buxton_direct_open with configuration c.
DirectOpen(c) ==
  LET ini == Initialize(c).ini
  IN  /\ Use(c)
      /\ IF ini # Null /\ \A n \in DOMAIN ini.sections : IsLayer(ini.sections[n])
         THEN /\ status' = "direct"
              /\ config' = [NoConfig EXCEPT !.layers =
                              [n \in DOMAIN ini.sections |-> Layer(ini.sections[n])]]
         ELSE status' = "aborted" /\ UNCHANGED config
      /\ UNCHANGED <<live, faulty>>

\* The table of loaded backends is not consulted.
BackendForLayerEach(l) ==
  LET b == config.layers[l].backend
  IN  IF l \in DOMAIN config.databases THEN UNCHANGED <<config, live>>
      ELSE /\ config' = [config EXCEPT !.backends = @ \cup {b},
                                       !.databases = [n \in DOMAIN @ \cup {l} |->
                                                        IF n = l THEN b ELSE @[n]]]
           /\ live' = [live EXCEPT ![b] = @ + 1]

\* backend_for_layer: the module is loaded when the first of its layers is used.
BackendForLayer(l) ==
  LET b == config.layers[l].backend
  IN  IF l \in DOMAIN config.databases THEN UNCHANGED <<config, live>>
      ELSE /\ config' = [config EXCEPT !.backends = @ \cup {b},
                                       !.databases = [n \in DOMAIN @ \cup {l} |->
                                                        IF n = l THEN b ELSE @[n]]]
           /\ live' = IF b \in config.backends THEN live ELSE [live EXCEPT ![b] = @ + 1]

\* dlopen finds the module of layer l, or needs it no more.
HasModule(l) ==
  \/ config.layers[l].backend \in config.backends
  \/ config.layers[l].backend \in Modules[conf.keys["MODULE_DIR"]]

\* An operation of direct.c comes to layer l.
UseLayer(l) ==
  /\ status = "direct" /\ l \in DOMAIN config.layers
  /\ IF HasModule(l)
     THEN BackendForLayer(l) /\ UNCHANGED <<status, faulty>>
     ELSE status' = "aborted" /\ faulty' = l /\ UNCHANGED <<config, live>>
  /\ UNCHANGED <<env, disk, listening, program, conf, loaded>>

\* buxton_direct_init_db.  The memory backend's create_db is NULL.
InitDb(l) ==
  /\ status = "direct" /\ l \in DOMAIN config.layers
  /\ config.layers[l].type = "System"
  /\ program.name = "buxtonctl"
  /\ IF ~HasModule(l)
     THEN status' = "aborted" /\ faulty' = l /\ UNCHANGED <<config, live>>
     ELSE /\ BackendForLayer(l)
          /\ IF config.layers[l].backend = "memory"
             THEN status' = "crashed" /\ faulty' = l
             ELSE UNCHANGED <<status, faulty>>
  /\ UNCHANGED <<env, disk, listening, program, conf, loaded>>

\* buxton_direct_close: each backend of the table is destroyed, all is forgotten.
DirectClose ==
  /\ status = "direct"
  /\ live' = [b \in Backends |-> IF b \in config.backends THEN live[b] - 1 ELSE live[b]]
  /\ config' = NoConfig /\ status' = "ended"
  /\ UNCHANGED <<env, disk, listening, program, conf, loaded, faulty>>

-----------------------------------------------------------------------------
(* The programs *)

Fail == status' = "failed" /\ UNCHANGED <<conf, loaded, config, live, faulty>>

\* -c given and no file there.
BadFile == program.file # Null /\ ~IsFile(program.file)

\* conf with the file of -c, if there is one.
Named(c) == IF program.file = Null THEN c ELSE AddCmdLine(c, "CONF_FILE", program.file)

\* buxtond: main up to buxton_direct_open.
StartDaemon ==
  /\ program.name = "buxtond" /\ status = "begun"
  /\ IF BadFile THEN Fail ELSE DirectOpen(Named(conf))
  /\ UNCHANGED <<env, disk, listening, program>>

\* buxtonctl tries both ways unless it was told one.
TriesServer == program.server \/ ~program.direct
TriesDirect == program.direct \/ ~program.server

\* buxtonctl tries the daemon first; a -c it cannot use is ignored here.
OpenServer ==
  LET c == IF program.file = Null THEN conf ELSE SetConfFile(conf, program.file)
  IN  /\ program.name = "buxtonctl" /\ status = "begun" /\ TriesServer
      /\ Use(c)
      /\ status' = IF Initialize(c).keys["BUXTON_SOCKET"] \in listening THEN "connected"
                   ELSE IF TriesDirect THEN "refused" ELSE "failed"
      /\ UNCHANGED <<env, disk, listening, program, config, live, faulty>>

\* ... then the databases themselves.
OpenDirect ==
  /\ program.name = "buxtonctl" /\ TriesDirect
  /\ status = "refused" \/ (status = "begun" /\ ~TriesServer)
  /\ IF BadFile THEN Fail ELSE DirectOpen(Named(conf))
  /\ UNCHANGED <<env, disk, listening, program>>

\* An application names a configuration file, at any time.
NameFile(path) ==
  /\ program.name = "application"
  /\ conf' = SetConfFile(conf, path)
  /\ UNCHANGED <<env, disk, listening, program, status, loaded, config, live, faulty>>

\* It connects.
Open ==
  /\ program.name = "application" /\ status = "begun"
  /\ Use(conf)
  /\ status' = IF Initialize(conf).keys["BUXTON_SOCKET"] \in listening
               THEN "connected" ELSE "begun"
  /\ UNCHANGED <<env, disk, listening, program, config, live, faulty>>

\* buxtonctl ends after its command, an application may connect again.
Close ==
  /\ status = "connected"
  /\ status' = IF program.name = "application" THEN "begun" ELSE "ended"
  /\ UNCHANGED <<env, disk, listening, program, conf, loaded, config, live, faulty>>

\* A daemon elsewhere starts or stops listening on a socket.
Listen(path) ==
  /\ listening' = (listening \ {path}) \cup ({path} \ listening)
  /\ UNCHANGED <<env, disk, program, status, conf, loaded, config, live, faulty>>

Next ==
  \/ StartDaemon \/ OpenServer \/ OpenDirect \/ Open \/ Close \/ DirectClose
  \/ status = "direct" /\ \E l \in DOMAIN config.layers : UseLayer(l) \/ InitDb(l)
  \/ \E p \in Paths : NameFile(p) \/ Listen(p)

Spec == Init /\ [][Next]_vars

-----------------------------------------------------------------------------
(* The variables hold what the code can hold; an initialised program has a *)
(* path for every setting.                                                 *)
TypeOK ==
  /\ status \in {"begun", "refused", "connected", "direct", "failed", "ended",
                 "aborted", "crashed"}
  /\ listening \subseteq Paths
  /\ conf.initialized \in BOOLEAN
  /\ conf.keys \in [Settings -> Paths \cup {Null}]
  /\ conf.initialized => Null \notin Range(conf.keys) /\ loaded \in Paths
  /\ config.backends \subseteq Backends
  /\ live \in [Backends -> Nat]
  /\ status = "direct" => DOMAIN config.databases \subseteq DOMAIN config.layers

\* What file says of setting k.
SaidBy(path, k) ==
  IF Load(path) = Null THEN Null ELSE Load(path).settings[k]

(* A configuration file that buxtond's or buxtonctl's -c names, if it is   *)
(* there, is the file the program works with, whichever way it opens the   *)
(* databases: every path that the environment does not give is the file's  *)
(* or the default, and the layers are the file's sections.                 *)
(* buxton_set_conf_file comes before buxton_socket reads the configuration *)
(* and the direct way must not find another one loaded.                    *)
NamedFileGoverns ==
  (program.file # Null /\ ~BadFile /\ conf.initialized) =>
    /\ loaded = program.file
    /\ \A k \in Settings \ {"CONF_FILE"} :
         conf.keys[k] = OrElse(env[k], OrElse(SaidBy(program.file, k), CompileDefault[k]))
    /\ config.layers # Null =>
         DOMAIN config.layers = DOMAIN Load(program.file).sections

(* A program aborts in set-up only for a configuration it cannot use: no   *)
(* file to read, a section without a required setting or with a value the  *)
(* docs do not list, or no module for the backend of a layer it uses.  A   *)
(* file that follows docs/buxton.conf.5, where Access is optional, never   *)
(* ends it.                                                                *)
Documented(s) ==
  /\ s.Description # Null /\ s.Type \in {"System", "User"}
  /\ s.Backend \in Backends /\ s.Priority \in Nat
  /\ s.Access \in {Null, "read-write", "read-only"}
AbortsForCause ==
  status = "aborted" =>
    \/ Load(loaded) = Null
    \/ \E n \in DOMAIN Load(loaded).sections : ~Documented(Load(loaded).sections[n])
    \/ faulty # Null /\ Load(loaded).sections[faulty].Backend
                          \notin Modules[conf.keys["MODULE_DIR"]]

(* A backend module is initialised once while it is in use and destroyed   *)
(* once: layers of one backend share it, as initialising it again would    *)
(* drop the data of the memory backend's other layers; a closed control    *)
(* leaves none behind.                                                     *)
OneInstance ==
  /\ \A b \in Backends : live[b] = (IF b \in config.backends THEN 1 ELSE 0)
  /\ \A l \in DOMAIN config.databases :
       /\ config.databases[l] = config.layers[l].backend
       /\ live[config.databases[l]] = 1

(* docs/buxton_set_conf_file.3: the settings of the file an application    *)
(* names take effect immediately.                                          *)
ConfFileTakesEffect ==
  (program.name = "application" /\ conf.initialized) =>
    loaded = conf.keys["CONF_FILE"]

(* direct.h:36-41: buxton_direct_init_db returns whether it succeeded.     *)
CreateDbReturns == status # "crashed"

=============================================================================
