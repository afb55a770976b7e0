------------------------------ MODULE SetupProofs ------------------------------
(***************************************************************************)
(* The configuration file that -c names governs, programs abort in set-up   *)
(* only for cause, and the layers of a backend share one instance of its    *)
(* module, for any settings, environments, files, modules and command lines.*)
(*                                                                         *)
(* The work is in initialize: its loop over the settings is shown to leave  *)
(* each at what the command line, the environment, the file and the default *)
(* say in this order, by the least turn after which it would not.           *)
(***************************************************************************)
EXTENDS Setup, WellFoundedInduction, TLAPS

(* What iniparser_load may return, and the value initialize finds for       *)
(* setting k when path is the configuration file.                           *)
Loads == {Load(p) : p \in Paths} \cup {Null}

Found(path, k) == OrElse(env[k], OrElse(SaidBy(path, k), CompileDefault[k]))

SourcesOK == env \in Environments /\ disk \in Disks /\ program \in Programs

Confs == [initialized : BOOLEAN, keys : [Settings -> Paths \cup {Null}], ini : Loads]

(* Before a setting is asked for, only the command line has given one, the  *)
(* configuration file; from then on the settings are those of the file that *)
(* was loaded, which is the one that -c names.                              *)
ConfFor(c, path) ==
  /\ c \in Confs
  /\ ~c.initialized =>
       /\ c.ini = Null
       /\ \A k \in Settings \ {"CONF_FILE"} : c.keys[k] = Null
  /\ c.initialized =>
       /\ path \in Paths /\ c.ini = Load(path)
       /\ \A k \in Settings : c.keys[k] \in Paths
       /\ \A k \in Settings \ {"CONF_FILE"} : c.keys[k] = Found(path, k)
       /\ program.file # Null /\ ~BadFile => path = program.file

ConfOK == ConfFor(conf, loaded)

LayersIn(path) == [n \in DOMAIN Load(path).sections |-> Layer(Load(path).sections[n])]

(* The layers are those of the file that was loaded; a layer has a database *)
(* only while its backend is loaded, which is initialised once.             *)
OpenedOK ==
  /\ program.name # "application" /\ conf.initialized
  /\ Load(loaded) # Null
  /\ \A n \in DOMAIN Load(loaded).sections : IsLayer(Load(loaded).sections[n])
  /\ config = [layers |-> LayersIn(loaded), backends |-> config.backends,
               databases |-> config.databases]
  /\ config.backends \subseteq Backends
  /\ DOMAIN config.databases \subseteq DOMAIN config.layers
  /\ \A l \in DOMAIN config.databases :
       /\ config.databases[l] = config.layers[l].backend
       /\ config.databases[l] \in config.backends

LayersOK ==
  /\ config = NoConfig \/ OpenedOK
  /\ status \in {"begun", "refused", "connected"} => config = NoConfig
  /\ status = "direct" => OpenedOK
  /\ status = "aborted" => program.name # "application" /\ conf.initialized
  /\ live = [b \in Backends |-> IF b \in config.backends THEN 1 ELSE 0]

StatusOK ==
  /\ status \in {"begun", "refused", "connected", "direct", "failed", "ended",
                 "aborted", "crashed"}
  /\ listening \subseteq Paths

IInv == SourcesOK /\ StatusOK /\ ConfOK /\ LayersOK /\ AbortsForCause

-----------------------------------------------------------------------------
(* Sources.                                                                 *)

LEMMA Keys ==
  /\ Len(ConfigKeys) \in Nat /\ Len(ConfigKeys) # 0
  /\ \A n \in 1 .. Len(ConfigKeys) : ConfigKeys[n] \in Settings
  /\ \A k \in Settings : \E n \in 1 .. Len(ConfigKeys) : ConfigKeys[n] = k
  /\ "CONF_FILE" \in Settings /\ "MODULE_DIR" \in Settings /\ "BUXTON_SOCKET" \in Settings
<1>1. ConfigKeys \in Seq(STRING) /\ ConfigKeys # << >> /\ ConfigKeys[1] = "CONF_FILE"
  BY SetupAssumption
<1>2. Len(ConfigKeys) \in Nat /\ Len(ConfigKeys) # 0 /\ DOMAIN ConfigKeys = 1 .. Len(ConfigKeys)
  BY <1>1
<1>3. 1 \in 1 .. Len(ConfigKeys)
  BY <1>2
<1> QED
  BY <1>1, <1>2, <1>3, SetupAssumption DEF Settings, Range

(* Each kind of path.                                                       *)
LEMMA LoadOf ==
  ASSUME NEW p \in Paths
  PROVE  /\ disk[p].kind = "file" => Load(p) = disk[p]
         /\ disk[p].kind = "directory" =>
              Load(p) = [settings |-> [k \in Settings |-> Null], sections |-> << >>]
         /\ disk[p].kind \notin {"file", "directory"} => Load(p) = Null
BY DEF Load

LEMMA LoadTypes ==
  ASSUME SourcesOK, NEW p \in Paths
  PROVE  /\ \A k \in Settings : SaidBy(p, k) \in Paths \cup {Null}
         /\ Load(p) # Null => Null \notin DOMAIN Load(p).sections
         /\ Load(p) \in Loads
<1>1. CASE disk[p].kind = "file"
  <2>1. /\ disk[p].settings \in [Settings -> Paths \cup {Null}]
        /\ Null \notin DOMAIN disk[p].sections
    BY <1>1, SourcesAssumption DEF SourcesOK
  <2> QED
    BY <1>1, <2>1, LoadOf DEF SaidBy, Loads
<1>2. CASE disk[p].kind = "directory"
  <2>1. Null \notin DOMAIN << >>
    OBVIOUS
  <2>2. \A k \in Settings : Load(p).settings[k] = Null
    BY <1>2, LoadOf
  <2>3. Load(p).sections = << >>
    BY <1>2, LoadOf
  <2> QED
    BY <2>1, <2>2, <2>3 DEF SaidBy, Loads
<1>3. CASE disk[p].kind \notin {"file", "directory"}
  BY <1>3, LoadOf DEF SaidBy, Loads
<1> QED
  BY <1>1, <1>2, <1>3

LEMMA FoundTypes ==
  ASSUME SourcesOK, NEW p \in Paths, NEW k \in Settings
  PROVE  Found(p, k) \in Paths
<1>1. env \in [Settings -> Paths \cup {Null}] /\ CompileDefault \in [Settings -> Paths]
  BY SetupAssumption DEF SourcesOK
<1>2. SaidBy(p, k) \in Paths \cup {Null}
  BY LoadTypes
<1> QED
  BY <1>1, <1>2 DEF Found, OrElse

-----------------------------------------------------------------------------
(* initialize.                                                              *)

(* One turn of the loop.                                                    *)
LEMMA TurnOfKey ==
  ASSUME SourcesOK, NEW c \in Confs, NEW k \in Settings
  PROVE  \E path \in Paths :
           /\ InitKey(c, k) = [initialized |-> c.initialized,
                               keys |-> [c.keys EXCEPT ![k] = path],
                               ini |-> IF k = "CONF_FILE" THEN Load(path) ELSE c.ini]
           /\ InitKey(c, k) \in Confs
           /\ c.keys[k] # Null => path = c.keys[k]
           /\ c.keys[k] = Null => \A p \in Paths : c.ini = Load(p) => path = Found(p, k)
<1> DEFINE said == IF c.ini = Null THEN Null ELSE c.ini.settings[k]
           path == OrElse(c.keys[k], OrElse(env[k], OrElse(said, CompileDefault[k])))
<1>1. /\ env \in [Settings -> Paths \cup {Null}] /\ CompileDefault \in [Settings -> Paths]
      /\ c.keys \in [Settings -> Paths \cup {Null}]
  BY SetupAssumption DEF SourcesOK, Confs
<1>2. said \in Paths \cup {Null}
  <2>1. CASE c.ini = Null
    BY <2>1
  <2>2. CASE c.ini # Null
    <3>1. PICK p \in Paths : c.ini = Load(p)
      BY <2>2 DEF Confs, Loads
    <3> QED
      BY <2>2, <3>1, LoadTypes DEF SaidBy
  <2> QED
    BY <2>1, <2>2
<1>3. \A p \in Paths : c.ini = Load(p) => said = SaidBy(p, k)
  BY DEF SaidBy
<1>4. InitKey(c, k) = [c EXCEPT !.keys[k] = path,
                                !.ini = IF k = "CONF_FILE" THEN Load(path) ELSE @]
  BY DEF InitKey
<1> HIDE DEF said
<1>5. /\ path \in Paths
      /\ c.keys[k] # Null => path = c.keys[k]
      /\ c.keys[k] = Null => \A p \in Paths : c.ini = Load(p) => path = Found(p, k)
  BY <1>1, <1>2, <1>3 DEF Found, OrElse
<1> HIDE DEF path
<1>6. InitKey(c, k) = [initialized |-> c.initialized,
                       keys |-> [c.keys EXCEPT ![k] = path],
                       ini |-> IF k = "CONF_FILE" THEN Load(path) ELSE c.ini]
  BY <1>4 DEF Confs
<1>7. InitKey(c, k) \in Confs
  <2>1. [c.keys EXCEPT ![k] = path] \in [Settings -> Paths \cup {Null}]
    BY <1>1, <1>5
  <2>2. (IF k = "CONF_FILE" THEN Load(path) ELSE c.ini) \in Loads
    BY <1>5, LoadTypes DEF Confs
  <2>3. c.initialized \in BOOLEAN
    BY DEF Confs
  <2> QED
    BY <1>6, <2>1, <2>2, <2>3 DEF Confs
<1> QED
  BY <1>5, <1>6, <1>7

(* after holds the configuration after each of n turns, from c.             *)
IsLoop(c, after, n) ==
  after = [i \in 0 .. n |-> IF i = 0 THEN c ELSE InitKey(after[i - 1], ConfigKeys[i])]

(* Such a record of the loop exists, whatever the number of turns.          *)
LEMMA LoopExists ==
  ASSUME NEW c, NEW n \in Nat
  PROVE  \E after : IsLoop(c, after, n)
<1> DEFINE S == {m \in Nat : ~\E after : IsLoop(c, after, m)}
<1> SUFFICES ASSUME S # {} PROVE FALSE
  OBVIOUS
<1>1. PICK m \in S : \A k \in S : ~(<<k, m>> \in OpToRel(<, Nat))
  BY NatLessThanWellFounded, WFMin
<1>2. m \in Nat /\ \A k \in Nat : k < m => k \notin S
  BY <1>1 DEF OpToRel
<1>3. CASE m = 0
  <2> DEFINE f == [i \in 0 .. 0 |-> c]
  <2>1. IsLoop(c, f, 0)
    BY DEF IsLoop
  <2> QED
    BY <1>3, <2>1
<1>4. CASE m # 0
  <2>1. m - 1 \in Nat /\ m - 1 < m /\ m - 1 \notin S
    BY <1>2, <1>4
  <2> PICK f : IsLoop(c, f, m - 1)
    BY <2>1
  <2> DEFINE last == InitKey(f[m - 1], ConfigKeys[m])
             g == [i \in 0 .. m |-> IF i < m THEN f[i] ELSE last]
             step(i) == IF i = 0 THEN c ELSE InitKey(g[i - 1], ConfigKeys[i])
  <2>2. \A i \in 0 .. m - 1 : f[i] = IF i = 0 THEN c ELSE InitKey(f[i - 1], ConfigKeys[i])
    BY DEF IsLoop
  <2>3. \A i \in 0 .. m : i < m => g[i] = f[i] /\ i \in 0 .. m - 1
    BY <1>2
  <2>4. g[m] = last
    BY <1>2
  <2> HIDE DEF last
  <2>5. ASSUME NEW i \in 0 .. m
        PROVE  g[i] = step(i)
    <3>1. CASE i = 0
      <4>1. 0 \in 0 .. m - 1 /\ 0 < m
        BY <2>1
      <4> QED
        BY <3>1, <4>1, <2>2, <2>3
    <3>2. CASE i # 0 /\ i < m
      <4>1. i - 1 \in 0 .. m /\ i - 1 < m /\ i \in 0 .. m - 1
        BY <1>2, <3>2
      <4>2. g[i] = f[i] /\ g[i - 1] = f[i - 1]
        BY <2>3, <3>2, <4>1
      <4>3. f[i] = InitKey(f[i - 1], ConfigKeys[i])
        BY <2>2, <3>2, <4>1
      <4> HIDE DEF g
      <4> QED
        BY <3>2, <4>2, <4>3
    <3>3. CASE i = m
      <4>1. m - 1 \in 0 .. m /\ m - 1 < m
        BY <2>1
      <4>2. g[m - 1] = f[m - 1]
        BY <2>3, <4>1
      <4> HIDE DEF g
      <4> QED
        BY <1>4, <2>4, <3>3, <4>2 DEF last
    <3>4. i = m \/ i < m
      BY <1>2
    <3> QED
      BY <3>1, <3>2, <3>3, <3>4
  <2>6. g = [i \in 0 .. m |-> step(i)]
    <3>1. g = [i \in 0 .. m |-> g[i]]
      OBVIOUS
    <3> HIDE DEF g
    <3> QED
      BY <2>5, <3>1
  <2>7. IsLoop(c, g, m)
    BY <2>6 DEF IsLoop
  <2> QED
    BY <1>1, <2>7
<1> QED
  BY <1>3, <1>4

(* Only the command line has given a setting, the configuration file.       *)
Fresh(c) ==
  /\ c \in Confs /\ ~c.initialized /\ c.ini = Null
  /\ \A k \in Settings \ {"CONF_FILE"} : c.keys[k] = Null

(* What d is after n turns, from c.                                         *)
Settled(c, d, n) ==
  /\ d \in Confs /\ ~d.initialized
  /\ n # 0 => /\ d.keys["CONF_FILE"] \in Paths
              /\ d.ini = Load(d.keys["CONF_FILE"])
  /\ c.keys["CONF_FILE"] # Null => d.keys["CONF_FILE"] = c.keys["CONF_FILE"]
  /\ \A k \in Settings \ {"CONF_FILE"} :
       d.keys[k] = Null \/ (n # 0 /\ d.keys[k] = Found(d.keys["CONF_FILE"], k))
  /\ \A i \in 1 .. n : d.keys[ConfigKeys[i]] \in Paths

LEMMA SettledTurn ==
  ASSUME SourcesOK, NEW c, Fresh(c), NEW d, NEW i \in 1 .. Len(ConfigKeys),
         Settled(c, d, i - 1)
  PROVE  Settled(c, InitKey(d, ConfigKeys[i]), i)
<1>1. /\ i \in Nat /\ i # 0 /\ i - 1 \in Nat /\ (i # 1 => i - 1 # 0)
      /\ \A j \in 1 .. i : j = i \/ j \in 1 .. (i - 1)
  BY Keys
<1>2. PICK k \in Settings : k = ConfigKeys[i]
  BY Keys
<1>3. d \in Confs /\ d.keys \in [Settings -> Paths \cup {Null}]
  BY DEF Settled, Confs
<1>4. PICK path \in Paths :
        /\ InitKey(d, k) = [initialized |-> d.initialized,
                            keys |-> [d.keys EXCEPT ![k] = path],
                            ini |-> IF k = "CONF_FILE" THEN Load(path) ELSE d.ini]
        /\ InitKey(d, k) \in Confs
        /\ d.keys[k] # Null => path = d.keys[k]
        /\ d.keys[k] = Null => \A p \in Paths : d.ini = Load(p) => path = Found(p, k)
  BY <1>3, TurnOfKey
<1> DEFINE e == InitKey(d, k)
<1>5. /\ e \in Confs /\ e.initialized = d.initialized
      /\ e.keys[k] = path
      /\ \A j \in Settings : j # k => e.keys[j] = d.keys[j]
      /\ e.ini = IF k = "CONF_FILE" THEN Load(path) ELSE d.ini
  BY <1>3, <1>4
<1> HIDE DEF e
<1>6. "CONF_FILE" \in Settings /\ Null \notin Paths
  BY Keys, SetupAssumption
<1>7. \A j \in 1 .. i : e.keys[ConfigKeys[j]] \in Paths
  <2> SUFFICES ASSUME NEW j \in 1 .. i
               PROVE  e.keys[ConfigKeys[j]] \in Paths
    OBVIOUS
  <2>1. CASE ConfigKeys[j] = k
    BY <1>5, <2>1
  <2>2. CASE ConfigKeys[j] # k
    <3>1. j \in 1 .. (i - 1) /\ j \in 1 .. Len(ConfigKeys)
      BY <1>1, <1>2, <2>2, Keys
    <3>2. d.keys[ConfigKeys[j]] \in Paths /\ ConfigKeys[j] \in Settings
      BY <3>1, Keys DEF Settled
    <3> QED
      BY <1>5, <2>2, <3>2
  <2> QED
    BY <2>1, <2>2
<1>8. CASE k = "CONF_FILE"
  <2>1. i - 1 # 0 => path = d.keys["CONF_FILE"]
    BY <1>4, <1>6, <1>8 DEF Settled
  <2>2. /\ e.keys["CONF_FILE"] = path /\ e.ini = Load(path)
        /\ c.keys["CONF_FILE"] # Null => path = c.keys["CONF_FILE"]
    BY <1>4, <1>5, <1>8 DEF Settled
  <2>3. \A j \in Settings \ {"CONF_FILE"} :
          e.keys[j] = Null \/ e.keys[j] = Found(e.keys["CONF_FILE"], j)
    BY <1>5, <1>8, <2>1, <2>2 DEF Settled
  <2> QED
    BY <1>1, <1>2, <1>5, <1>7, <2>2, <2>3 DEF Settled, e
<1>9. CASE k # "CONF_FILE"
  <2>1. i # 1
    BY <1>2, <1>9, SetupAssumption
  <2>2. /\ d.keys["CONF_FILE"] \in Paths /\ d.ini = Load(d.keys["CONF_FILE"])
        /\ e.keys["CONF_FILE"] = d.keys["CONF_FILE"] /\ e.ini = d.ini
    BY <1>1, <1>5, <1>6, <1>9, <2>1 DEF Settled
  <2>3. path = Found(d.keys["CONF_FILE"], k)
    BY <1>4, <1>9, <2>2 DEF Settled
  <2>4. \A j \in Settings \ {"CONF_FILE"} :
          e.keys[j] = Null \/ e.keys[j] = Found(e.keys["CONF_FILE"], j)
    BY <1>5, <2>2, <2>3 DEF Settled
  <2> QED
    BY <1>1, <1>2, <1>5, <1>7, <2>2, <2>4 DEF Settled, e
<1> QED
  BY <1>8, <1>9

(* After all turns every setting is what the sources say.                   *)
LEMMA Initialized ==
  ASSUME SourcesOK, NEW c, Fresh(c)
  PROVE  /\ Initialize(c) \in Confs /\ Initialize(c).initialized
         /\ \A k \in Settings : Initialize(c).keys[k] \in Paths
         /\ Initialize(c).ini = Load(Initialize(c).keys["CONF_FILE"])
         /\ \A k \in Settings \ {"CONF_FILE"} :
              Initialize(c).keys[k] = Found(Initialize(c).keys["CONF_FILE"], k)
         /\ c.keys["CONF_FILE"] # Null =>
              Initialize(c).keys["CONF_FILE"] = c.keys["CONF_FILE"]
<1> DEFINE N == Len(ConfigKeys)
           g == CHOOSE f : IsLoop(c, f, N)
           S == {i \in 0 .. N : ~Settled(c, g[i], i)}
<1>0. N \in Nat /\ N # 0
  BY Keys
<1>1. IsLoop(c, g, N)
  BY <1>0, LoopExists
<1>2. Turns(c) = g
  BY Zenon DEF Turns, IsLoop
<1> HIDE DEF g
<1>3. /\ g[0] = c
      /\ \A i \in 1 .. N : g[i] = InitKey(g[i - 1], ConfigKeys[i])
  <2>1. \A i \in 0 .. N : g[i] = IF i = 0 THEN c ELSE InitKey(g[i - 1], ConfigKeys[i])
    BY <1>1 DEF IsLoop
  <2>2. 0 \in 0 .. N /\ \A i \in 1 .. N : i \in 0 .. N /\ i # 0
    BY <1>0
  <2> QED
    BY <2>1, <2>2
<1>4. S = {}
  <2> SUFFICES ASSUME S # {} PROVE FALSE
    OBVIOUS
  <2>1. S \subseteq Nat
    BY <1>0
  <2>2. PICK m \in S : \A k \in S : ~(<<k, m>> \in OpToRel(<, Nat))
    BY <2>1, NatLessThanWellFounded, WFMin
  <2>3. m \in 0 .. N /\ \A k \in S : ~(k < m)
    BY <2>1, <2>2 DEF OpToRel
  <2>4. CASE m = 0
    <3>1. Settled(c, c, 0)
      BY DEF Settled, Fresh
    <3> QED
      BY <1>3, <2>2, <2>4, <3>1
  <2>5. CASE m # 0
    <3>1. m \in 1 .. N /\ m - 1 \in 0 .. N /\ m - 1 < m
      BY <1>0, <2>3, <2>5
    <3>2. Settled(c, g[m - 1], m - 1)
      BY <2>3, <3>1
    <3>3. Settled(c, g[m], m)
      BY <1>3, <3>1, <3>2, SettledTurn
    <3> QED
      BY <2>2, <3>3
  <2> QED
    BY <2>4, <2>5
<1>5. Settled(c, g[N], N)
  <2>1. N \in 0 .. N
    BY <1>0
  <2> QED
    BY <1>4, <2>1
<1>6. PICK d \in Confs : d = g[N]
  BY <1>5 DEF Settled
<1>7. Initialize(c) = [d EXCEPT !.initialized = TRUE]
  BY <1>2, <1>6 DEF Initialize, Fresh
<1>8. /\ Initialize(c) \in Confs /\ Initialize(c).initialized
      /\ Initialize(c).keys = d.keys /\ Initialize(c).ini = d.ini
  BY <1>7 DEF Confs
<1>9. \A k \in Settings : d.keys[k] \in Paths
  <2> SUFFICES ASSUME NEW k \in Settings
               PROVE  d.keys[k] \in Paths
    OBVIOUS
  <2>1. PICK n \in 1 .. N : ConfigKeys[n] = k
    BY Keys
  <2> QED
    BY <1>5, <1>6, <2>1 DEF Settled
<1> QED
  BY <1>0, <1>5, <1>6, <1>8, <1>9, SetupAssumption DEF Settled

-----------------------------------------------------------------------------
(* The steps.  None changes the environment, the disk or the command line.  *)

Fixed == env' = env /\ disk' = disk /\ program' = program

LEMMA Unmoved ==
  ASSUME SourcesOK, Fixed
  PROVE  /\ SourcesOK'
         /\ \A p : Load(p)' = Load(p)
         /\ \A p, k : Found(p, k)' = Found(p, k)
         /\ Confs' = Confs
         /\ BadFile' = BadFile
<1>1. \A p : Load(p)' = Load(p)
  BY DEF Fixed, Load
<1>2. \A p, k : SaidBy(p, k)' = SaidBy(p, k)
  BY <1>1 DEF SaidBy
<1> QED
  BY <1>1, <1>2 DEF Fixed, SourcesOK, Found, Confs, Loads, BadFile, IsFile

LEMMA ConfStep ==
  ASSUME SourcesOK, Fixed, NEW d, NEW q, ConfFor(d, q), conf' = d, loaded' = q
  PROVE  ConfOK'
<1>1. ConfFor(d, q)'
  BY Unmoved DEF ConfFor, Fixed
<1> QED
  BY <1>1 DEF ConfOK

(* conf with a configuration file named.                                    *)
LEMMA NamedConf ==
  ASSUME NEW c, NEW q, ConfFor(c, q), NEW p \in Paths
  PROVE  LET d == AddCmdLine(c, "CONF_FILE", p)
         IN  /\ ConfFor(d, q) /\ d.keys["CONF_FILE"] = p
             /\ d.initialized = c.initialized /\ d.ini = c.ini
             /\ \A k \in Settings : k # "CONF_FILE" => d.keys[k] = c.keys[k]
<1> DEFINE d == AddCmdLine(c, "CONF_FILE", p)
<1>1. c \in Confs /\ c.keys \in [Settings -> Paths \cup {Null}] /\ "CONF_FILE" \in Settings
  BY Keys DEF ConfFor, Confs
<1>2. d = [initialized |-> c.initialized, keys |-> [c.keys EXCEPT !["CONF_FILE"] = p],
           ini |-> c.ini]
  BY <1>1 DEF AddCmdLine, Confs
<1>3. d \in Confs
  BY <1>1, <1>2 DEF Confs
<1>4. /\ d.keys["CONF_FILE"] = p
      /\ d.initialized = c.initialized /\ d.ini = c.ini
      /\ \A k \in Settings : k # "CONF_FILE" => d.keys[k] = c.keys[k]
  BY <1>1, <1>2
<1> HIDE DEF d
<1>5. ConfFor(d, q)
  BY <1>3, <1>4 DEF ConfFor
<1> QED
  BY <1>4, <1>5 DEF d

(* Asking for a setting, with a configuration that heeds -c.                *)
LEMMA UseStep ==
  ASSUME SourcesOK, Fixed, NEW c, ConfFor(c, loaded), Use(c),
         program.file # Null /\ ~BadFile => c.keys["CONF_FILE"] = program.file
  PROVE  /\ ConfOK' /\ conf'.initialized
         /\ loaded' \in Paths /\ Initialize(c).ini = Load(loaded')
         /\ \A k \in Settings : Initialize(c).keys[k] \in Paths
<1>1. PICK d : d = Initialize(c)
  OBVIOUS
<1>2. PICK q : q = IF c.initialized THEN loaded ELSE d.keys["CONF_FILE"]
  OBVIOUS
<1>3. conf' = d /\ loaded' = q
  BY <1>1, <1>2 DEF Use
<1>4. ConfFor(d, q) /\ d.initialized
  <2>1. CASE c.initialized
    BY <1>1, <1>2, <2>1 DEF Initialize
  <2>2. CASE ~c.initialized
    <3>1. Fresh(c)
      BY <2>2 DEF ConfFor, Fresh
    <3>2. "CONF_FILE" \in Settings /\ Null \notin Paths
      BY Keys, SetupAssumption
    <3>3. /\ d \in Confs /\ d.initialized
          /\ \A k \in Settings : d.keys[k] \in Paths
          /\ d.ini = Load(q)
          /\ \A k \in Settings \ {"CONF_FILE"} : d.keys[k] = Found(q, k)
          /\ q \in Paths
          /\ c.keys["CONF_FILE"] # Null => q = c.keys["CONF_FILE"]
      BY <1>1, <1>2, <2>2, <3>1, <3>2, Initialized
    <3> QED
      BY <3>3 DEF ConfFor
  <2> QED
    BY <2>1, <2>2
<1>5. ConfOK'
  BY <1>3, <1>4, ConfStep
<1> QED
  BY <1>1, <1>3, <1>4, <1>5 DEF ConfFor

(* The command line's file, as Named gives it.                              *)
LEMMA NamedHeeds ==
  ASSUME SourcesOK, ConfOK
  PROVE  /\ ConfFor(Named(conf), loaded)
         /\ program.file # Null => Named(conf).keys["CONF_FILE"] = program.file
<1>1. program.file \in Paths \cup {Null}
  BY SourcesAssumption DEF SourcesOK
<1>2. CASE program.file = Null
  BY <1>2 DEF Named, ConfOK
<1>3. CASE program.file # Null
  <2>1. program.file \in Paths
    BY <1>1, <1>3
  <2> QED
    BY <1>3, <2>1, NamedConf DEF Named, ConfOK
<1> QED
  BY <1>2, <1>3

LEMMA Undocumented ==
  ASSUME NEW s, ~IsLayer(s)
  PROVE  ~Documented(s)
BY SetupAssumption DEF IsLayer, Documented

(* A step of set-up that leaves the layers, their backends and what may     *)
(* have gone wrong alone.                                                   *)
LEMMA LayersKept ==
  ASSUME IInv, Fixed, loaded' = loaded, conf'.initialized = conf.initialized,
         conf.initialized => conf'.keys["MODULE_DIR"] = conf.keys["MODULE_DIR"],
         UNCHANGED <<status, config, live, faulty>>
  PROVE  LayersOK' /\ AbortsForCause'
<1>1. PICK q : q = loaded
  OBVIOUS
<1>2. /\ Load(loaded)' = Load(loaded) /\ LayersIn(loaded)' = LayersIn(loaded)
  BY <1>1 DEF Fixed, Load, LayersIn
<1>3. OpenedOK => OpenedOK'
  BY <1>2 DEF OpenedOK, Fixed
<1>4. status = "aborted" => conf.initialized
  BY DEF IInv, LayersOK
<1> QED
  BY <1>2, <1>3, <1>4 DEF IInv, LayersOK, AbortsForCause, Fixed

(* buxton_direct_open.                                                      *)
LEMMA OpenStep ==
  ASSUME IInv, Fixed, status \in {"begun", "refused"}, program.name # "application",
         NEW c, c = Named(conf), DirectOpen(c), listening' = listening
  PROVE  IInv'
<1>1. /\ ConfOK' /\ conf'.initialized /\ loaded' \in Paths
      /\ Initialize(c).ini = Load(loaded')
  <2>1. ConfFor(c, loaded) /\ (program.file # Null => c.keys["CONF_FILE"] = program.file)
    BY NamedHeeds DEF IInv
  <2> QED
    BY <2>1, UseStep DEF IInv, DirectOpen
<1>2. PICK q : q = loaded'
  OBVIOUS
<1>3. PICK ini : ini = Initialize(c).ini
  OBVIOUS
<1>4. Load(loaded)' = ini /\ ini = Load(q)
  BY <1>1, <1>2, <1>3 DEF Fixed, Load
<1>5. /\ config = NoConfig /\ live' = live /\ faulty' = faulty
      /\ live = [b \in Backends |-> IF b \in config.backends THEN 1 ELSE 0]
  BY DEF IInv, LayersOK, DirectOpen
<1>6. SourcesOK' /\ (listening \subseteq Paths)'
  BY Unmoved DEF IInv, StatusOK
<1>7. CASE ini # Null /\ \A n \in DOMAIN ini.sections : IsLayer(ini.sections[n])
  <2>1. /\ status' = "direct"
        /\ config' = [NoConfig EXCEPT !.layers =
                        [n \in DOMAIN ini.sections |-> Layer(ini.sections[n])]]
    BY <1>3, <1>7 DEF DirectOpen
  <2>2. LayersIn(loaded)' = [n \in DOMAIN ini.sections |-> Layer(ini.sections[n])]
    BY <1>4 DEF LayersIn
  <2>3. config' = [layers |-> LayersIn(loaded)', backends |-> {}, databases |-> << >>]
    BY <2>1, <2>2 DEF NoConfig
  <2>4. DOMAIN << >> = {}
    OBVIOUS
  <2>5. \A n \in DOMAIN ini.sections : IsLayer(ini.sections[n])
    BY <1>7
  <2>6. OpenedOK'
    BY <1>1, <1>4, <1>7, <2>3, <2>4, <2>5 DEF OpenedOK, Fixed
  <2>7. LayersOK'
    BY <1>5, <2>1, <2>3, <2>6 DEF LayersOK, NoConfig
  <2> QED
    BY <1>1, <1>6, <2>1, <2>7 DEF IInv, StatusOK, AbortsForCause
<1>8. CASE ~(ini # Null /\ \A n \in DOMAIN ini.sections : IsLayer(ini.sections[n]))
  <2>1. status' = "aborted" /\ config' = config
    BY <1>3, <1>8 DEF DirectOpen
  <2>2. LayersOK'
    BY <1>1, <1>5, <2>1 DEF LayersOK, NoConfig, Fixed
  <2>3. AbortsForCause'
    <3>1. CASE ini = Null
      BY <1>4, <3>1 DEF AbortsForCause
    <3>2. CASE ini # Null
      <4>1. PICK n \in DOMAIN ini.sections : ~IsLayer(ini.sections[n])
        BY <1>8, <3>2
      <4>2. ~Documented(ini.sections[n])
        BY <4>1, Undocumented
      <4> QED
        BY <1>4, <4>1, <4>2 DEF AbortsForCause
    <3> QED
      BY <3>1, <3>2
  <2> QED
    BY <1>1, <1>6, <2>1, <2>2, <2>3 DEF IInv, StatusOK
<1> QED
  BY <1>7, <1>8

LEMMA FailStep ==
  ASSUME IInv, Fixed, status \in {"begun", "refused"}, Fail, listening' = listening
  PROVE  IInv'
<1>1. SourcesOK' /\ ConfOK'
  BY Unmoved, ConfStep DEF IInv, Fail, ConfOK
<1>2. config = NoConfig
  BY DEF IInv, LayersOK
<1> QED
  BY <1>1, <1>2 DEF IInv, StatusOK, LayersOK, AbortsForCause, Fail, NoConfig

(* backend_for_layer, while the databases are open.  l is a layer whose     *)
(* module is at hand.                                                       *)
LEMMA BackendStep ==
  ASSUME IInv, Fixed, status = "direct", NEW l \in DOMAIN config.layers,
         BackendForLayer(l), UNCHANGED <<conf, loaded>>
  PROVE  /\ OpenedOK' /\ config'.layers = config.layers
         /\ live' = [b \in Backends |-> IF b \in config'.backends THEN 1 ELSE 0]
<1>1. PICK q : q = loaded
  OBVIOUS
<1>2. Load(loaded)' = Load(loaded) /\ LayersIn(loaded)' = LayersIn(loaded)
  BY <1>1 DEF Fixed, Load, LayersIn
<1>3. OpenedOK /\ live = [b \in Backends |-> IF b \in config.backends THEN 1 ELSE 0]
  BY DEF IInv, LayersOK
<1>4. CASE l \in DOMAIN config.databases
  <2>1. UNCHANGED <<config, live>>
    BY <1>4 DEF BackendForLayer
  <2> QED
    BY <1>2, <1>3, <2>1 DEF OpenedOK, Fixed
<1>5. CASE l \notin DOMAIN config.databases
  <2>1. PICK b : b = config.layers[l].backend
    OBVIOUS
  <2>2. PICK databases : databases = [n \in DOMAIN config.databases \cup {l} |->
                                        IF n = l THEN b ELSE config.databases[n]]
    OBVIOUS
  <2>3. config' = [config EXCEPT !.backends = @ \cup {b}, !.databases = databases]
    BY <1>5, <2>1, <2>2 DEF BackendForLayer
  <2>4. live' = IF b \in config.backends THEN live ELSE [live EXCEPT ![b] = @ + 1]
    BY <1>5, <2>1 DEF BackendForLayer
  <2>5. config' = [layers |-> LayersIn(loaded), backends |-> config.backends \cup {b},
                   databases |-> databases]
    <3>1. PICK L, B, D : L = LayersIn(loaded) /\ B = config.backends /\ D = config.databases
      OBVIOUS
    <3>2. config = [layers |-> L, backends |-> B, databases |-> D]
      BY <1>3, <3>1 DEF OpenedOK
    <3>3. config' = [layers |-> L, backends |-> B \cup {b}, databases |-> databases]
      BY <2>3, <3>2
    <3> QED
      BY <3>1, <3>3
  <2>6. b \in Backends
    <3>1. IsLayer(Load(loaded).sections[l]) /\ b = Load(loaded).sections[l].Backend
      BY <1>3, <2>1 DEF OpenedOK, LayersIn, Layer
    <3> QED
      BY <3>1 DEF IsLayer
  <2>7. live' = [x \in Backends |-> IF x \in config'.backends THEN 1 ELSE 0]
    <3>1. CASE b \in config.backends
      BY <1>3, <2>4, <2>5, <3>1
    <3>2. CASE b \notin config.backends
      <4>1. live' = [live EXCEPT ![b] = @ + 1] /\ live[b] = 0
        BY <1>3, <2>4, <2>6, <3>2
      <4>2. live' = [x \in Backends |-> IF x = b THEN 1 ELSE live[x]]
        BY <1>3, <4>1
      <4>3. \A x \in Backends : x \in config'.backends <=> x = b \/ x \in config.backends
        BY <2>5
      <4> QED
        BY <1>3, <4>2, <4>3
    <3> QED
      BY <3>1, <3>2
  <2>8. config'.layers = config.layers
    BY <1>3, <2>5 DEF OpenedOK
  <2>9. /\ DOMAIN databases \subseteq DOMAIN config.layers
        /\ \A n \in DOMAIN databases :
             databases[n] = config.layers[n].backend /\ databases[n] \in config.backends \cup {b}
    <3>1. DOMAIN databases = DOMAIN config.databases \cup {l}
      BY <2>2
    <3>2. \A n \in DOMAIN databases : databases[n] = IF n = l THEN b ELSE config.databases[n]
      BY <2>2
    <3> QED
      BY <1>3, <2>1, <3>1, <3>2 DEF OpenedOK
  <2>10. config.backends \cup {b} \subseteq Backends
    BY <1>3, <2>6 DEF OpenedOK
  <2>11. OpenedOK'
    BY <1>2, <1>3, <2>5, <2>8, <2>9, <2>10 DEF OpenedOK, Fixed
  <2> QED
    BY <2>7, <2>8, <2>11
<1> QED
  BY <1>4, <1>5

(* A layer without a module is of a backend the directory lacks.            *)
LEMMA NoModule ==
  ASSUME IInv, status = "direct", NEW l \in DOMAIN config.layers, ~HasModule(l)
  PROVE  /\ l # Null
         /\ Load(loaded).sections[l].Backend \notin Modules[conf.keys["MODULE_DIR"]]
<1>1. OpenedOK /\ ConfOK /\ SourcesOK
  BY DEF IInv, LayersOK
<1>2. /\ l \in DOMAIN Load(loaded).sections
      /\ config.layers[l].backend = Load(loaded).sections[l].Backend
  BY <1>1 DEF OpenedOK, LayersIn, Layer
<1>3. loaded \in Paths /\ Load(loaded) # Null
  BY <1>1, <1>2, LoadTypes DEF OpenedOK, ConfOK, ConfFor
<1> QED
  BY <1>1, <1>2, <1>3, LoadTypes DEF HasModule

LEMMA LayerStep ==
  ASSUME IInv, Fixed, status = "direct", NEW l \in DOMAIN config.layers,
         UseLayer(l) \/ InitDb(l)
  PROVE  IInv'
<1>1. UNCHANGED <<listening, conf, loaded>>
  BY DEF UseLayer, InitDb
<1>2. SourcesOK' /\ ConfOK'
  BY <1>1, Unmoved, ConfStep DEF IInv, ConfOK
<1>3. PICK q : q = loaded
  OBVIOUS
<1>4. Load(loaded)' = Load(loaded) /\ LayersIn(loaded)' = LayersIn(loaded)
  BY <1>1, <1>3 DEF Fixed, Load, LayersIn
<1>5. OpenedOK
  BY DEF IInv, LayersOK
<1>6. CASE ~HasModule(l)
  <2>1. status' = "aborted" /\ faulty' = l /\ UNCHANGED <<config, live>>
    BY <1>6 DEF UseLayer, InitDb
  <2>2. OpenedOK'
    BY <1>1, <1>4, <1>5, <2>1 DEF OpenedOK, Fixed
  <2>3. LayersOK'
    BY <1>1, <1>5, <2>1, <2>2 DEF IInv, LayersOK, Fixed, OpenedOK
  <2>4. AbortsForCause'
    BY <1>1, <1>4, <1>6, <2>1, NoModule DEF AbortsForCause
  <2> QED
    BY <1>1, <1>2, <2>1, <2>3, <2>4 DEF IInv, StatusOK
<1>7. CASE HasModule(l)
  <2>1. BackendForLayer(l) /\ status' \in {"direct", "crashed"}
    BY <1>7 DEF UseLayer, InitDb
  <2>2. /\ OpenedOK'
        /\ live' = [b \in Backends |-> IF b \in config'.backends THEN 1 ELSE 0]
    BY <1>1, <2>1, BackendStep
  <2>3. LayersOK'
    BY <2>1, <2>2 DEF LayersOK
  <2> QED
    BY <1>1, <1>2, <2>1, <2>3 DEF IInv, StatusOK, AbortsForCause
<1> QED
  BY <1>6, <1>7

(* buxton_direct_close.                                                     *)
LEMMA CloseStep ==
  ASSUME IInv, DirectClose
  PROVE  IInv'
<1>1. SourcesOK' /\ ConfOK'
  BY Unmoved, ConfStep DEF IInv, DirectClose, Fixed, ConfOK
<1>2. live = [b \in Backends |-> IF b \in config.backends THEN 1 ELSE 0]
  BY DEF IInv, LayersOK
<1>3. live' = [b \in Backends |-> 0] /\ config' = NoConfig /\ status' = "ended"
  BY <1>2 DEF DirectClose
<1>4. \A b \in Backends : b \notin config'.backends
  BY <1>3 DEF NoConfig
<1>5. live' = [b \in Backends |-> IF b \in config'.backends THEN 1 ELSE 0]
  BY <1>3, <1>4
<1>6. LayersOK'
  BY <1>3, <1>5 DEF LayersOK
<1> QED
  BY <1>1, <1>3, <1>6 DEF IInv, StatusOK, DirectClose, AbortsForCause

(* buxton_open_full of buxtonctl, which may name its file first.            *)
LEMMA ServerStep ==
  ASSUME IInv, Fixed, OpenServer
  PROVE  IInv'
<1>1. PICK c : c = IF program.file = Null THEN conf ELSE SetConfFile(conf, program.file)
  OBVIOUS
<1>2. Use(c) /\ UNCHANGED <<listening, config, live, faulty>>
  BY <1>1 DEF OpenServer
<1>3. /\ ConfFor(c, loaded)
      /\ program.file # Null /\ ~BadFile => c.keys["CONF_FILE"] = program.file
  <2>1. ConfFor(conf, loaded) /\ program.file \in Paths \cup {Null}
    BY SourcesAssumption DEF IInv, ConfOK, SourcesOK
  <2>2. CASE program.file = Null
    BY <1>1, <2>1, <2>2
  <2>3. CASE program.file # Null /\ BadFile
    BY <1>1, <2>1, <2>3 DEF BadFile, SetConfFile
  <2>4. CASE program.file # Null /\ ~BadFile
    <3>1. c = AddCmdLine(conf, "CONF_FILE", program.file) /\ program.file \in Paths
      BY <1>1, <2>1, <2>4 DEF BadFile, SetConfFile
    <3> QED
      BY <2>1, <3>1, NamedConf
  <2> QED
    BY <2>2, <2>3, <2>4
<1>4. ConfOK' /\ SourcesOK'
  BY <1>2, <1>3, UseStep, Unmoved DEF IInv
<1>5. config = NoConfig /\ status' \in {"connected", "refused", "failed"}
  BY DEF IInv, LayersOK, OpenServer
<1> QED
  BY <1>2, <1>4, <1>5 DEF IInv, StatusOK, LayersOK, AbortsForCause, NoConfig

(* Steps of an application.                                                 *)
LEMMA ApplicationStep ==
  ASSUME IInv, Fixed, Open \/ \E p \in Paths : NameFile(p)
  PROVE  IInv'
<1>1. program.name = "application" /\ program.file = Null /\ ConfFor(conf, loaded)
  BY SourcesAssumption DEF Open, NameFile, IInv, SourcesOK, ConfOK
<1>2. SourcesOK' /\ config = NoConfig /\ status \notin {"aborted", "direct"}
  BY <1>1, Unmoved DEF IInv, LayersOK, OpenedOK
<1>3. CASE Open
  <2>1. ConfOK'
    BY <1>1, <1>3, UseStep DEF IInv, Open
  <2> QED
    BY <1>2, <1>3, <2>1 DEF Open, IInv, StatusOK, LayersOK, AbortsForCause, NoConfig
<1>4. ASSUME NEW p \in Paths, NameFile(p)
      PROVE  IInv'
  <2>1. PICK d : d = SetConfFile(conf, p)
    OBVIOUS
  <2>2. ConfFor(d, loaded)
    BY <1>1, <2>1, NamedConf DEF SetConfFile
  <2>3. ConfOK'
    BY <1>4, <2>1, <2>2, ConfStep DEF NameFile, IInv
  <2> QED
    BY <1>2, <1>4, <2>3 DEF NameFile, IInv, StatusOK, LayersOK, AbortsForCause, NoConfig
<1> QED
  BY <1>3, <1>4

(* A step that leaves all but the connection and the daemons elsewhere.     *)
LEMMA OtherStep ==
  ASSUME IInv, Fixed, UNCHANGED <<conf, loaded, config, live, faulty>>,
         listening' \subseteq Paths,
         status' = status \/ (status = "connected" /\ status' \in {"begun", "ended"})
  PROVE  IInv'
<1>1. SourcesOK' /\ ConfOK'
  BY Unmoved, ConfStep DEF IInv, ConfOK
<1>2. CASE status' = status
  BY <1>1, <1>2, LayersKept DEF IInv, StatusOK
<1>3. CASE status = "connected" /\ status' \in {"begun", "ended"}
  <2>1. config = NoConfig
    BY <1>3 DEF IInv, LayersOK
  <2> QED
    BY <1>1, <1>3, <2>1 DEF IInv, StatusOK, LayersOK, AbortsForCause, NoConfig
<1> QED
  BY <1>2, <1>3

-----------------------------------------------------------------------------
(* The theorems.                                                            *)

LEMMA InitOK == Init => IInv
<1> SUFFICES ASSUME Init PROVE IInv
  OBVIOUS
<1>1. conf \in Confs
  BY DEF Init, Confs, Loads
<1>2. ConfOK
  BY <1>1 DEF Init, ConfOK, ConfFor
<1>3. LayersOK
  BY DEF Init, LayersOK, NoConfig
<1> QED
  BY <1>2, <1>3 DEF Init, IInv, SourcesOK, StatusOK, AbortsForCause

LEMMA StepOK == IInv /\ [Next]_vars => IInv'
<1> SUFFICES ASSUME IInv, [Next]_vars PROVE IInv'
  OBVIOUS
<1>0. listening \subseteq Paths
  BY DEF IInv, StatusOK
<1>1. CASE StartDaemon
  BY <1>1, FailStep, OpenStep DEF StartDaemon, Fixed
<1>2. CASE OpenServer
  BY <1>2, ServerStep DEF OpenServer, Fixed
<1>3. CASE OpenDirect
  BY <1>3, FailStep, OpenStep DEF OpenDirect, Fixed
<1>4. CASE Open \/ \E p \in Paths : NameFile(p)
  BY <1>4, ApplicationStep DEF Open, NameFile, Fixed
<1>5. CASE Close
  BY <1>0, <1>5, OtherStep DEF Close, Fixed
<1>6. CASE DirectClose
  BY <1>6, CloseStep
<1>7. CASE status = "direct" /\ \E l \in DOMAIN config.layers : UseLayer(l) \/ InitDb(l)
  BY <1>7, LayerStep DEF UseLayer, InitDb, Fixed
<1>8. ASSUME NEW p \in Paths, Listen(p)
      PROVE  IInv'
  BY <1>0, <1>8, OtherStep DEF Listen, Fixed
<1>9. CASE UNCHANGED vars
  BY <1>0, <1>9, OtherStep DEF vars, Fixed
<1> QED
  BY <1>1, <1>2, <1>3, <1>4, <1>5, <1>6, <1>7, <1>8, <1>9 DEF Next

(* What set-up has loaded, opened and initialised stays consistent.         *)
THEOREM SetupInductive == Spec => []IInv
BY InitOK, StepOK, PTL DEF Spec

(* TypeOK: the variables hold what the code can hold, and an initialised    *)
(* program has a path for every setting.                                    *)
THEOREM SetupTypes == Spec => []TypeOK
<1>1. ASSUME IInv PROVE TypeOK
  <2>1. conf \in Confs /\ conf.keys \in [Settings -> Paths \cup {Null}]
    BY <1>1 DEF IInv, ConfOK, ConfFor, Confs
  <2>2. conf.initialized => Null \notin Range(conf.keys) /\ loaded \in Paths
    BY <1>1, <2>1, SetupAssumption DEF IInv, ConfOK, ConfFor, Range
  <2>3. config.backends \subseteq Backends
    BY <1>1 DEF IInv, LayersOK, OpenedOK, NoConfig
  <2>4. live \in [Backends -> Nat]
    BY <1>1 DEF IInv, LayersOK
  <2>5. status = "direct" => DOMAIN config.databases \subseteq DOMAIN config.layers
    BY <1>1 DEF IInv, LayersOK, OpenedOK
  <2> QED
    BY <1>1, <2>1, <2>2, <2>3, <2>4, <2>5 DEF TypeOK, IInv, StatusOK, Confs
<1> QED
  BY <1>1, SetupInductive, PTL

(* NamedFileGoverns: the file that -c names, if it is there, is the one that *)
(* is loaded; its settings and layers are the ones used.                    *)
THEOREM NamedFilesGovern == Spec => []NamedFileGoverns
<1>1. ASSUME IInv PROVE NamedFileGoverns
  <2> SUFFICES ASSUME program.file # Null, ~BadFile, conf.initialized
               PROVE  /\ loaded = program.file
                      /\ \A k \in Settings \ {"CONF_FILE"} :
                           conf.keys[k] = Found(program.file, k)
                      /\ config.layers # Null =>
                           DOMAIN config.layers = DOMAIN Load(program.file).sections
    BY DEF NamedFileGoverns, Found
  <2>1. /\ loaded = program.file
        /\ \A k \in Settings \ {"CONF_FILE"} : conf.keys[k] = Found(program.file, k)
    BY <1>1 DEF IInv, ConfOK, ConfFor
  <2>2. ASSUME config.layers # Null
        PROVE  DOMAIN config.layers = DOMAIN Load(program.file).sections
    BY <1>1, <2>1, <2>2 DEF IInv, LayersOK, OpenedOK, LayersIn, NoConfig
  <2> QED
    BY <2>1, <2>2
<1> QED
  BY <1>1, SetupInductive, PTL

(* AbortsForCause: set-up ends a program only for a file it cannot read, a  *)
(* section the docs do not allow or a backend without a module.             *)
THEOREM AbortsHaveCause == Spec => []AbortsForCause
<1>1. IInv => AbortsForCause
  BY DEF IInv
<1> QED
  BY <1>1, SetupInductive, PTL

(* OneInstance: a backend module is initialised once while it is in use,    *)
(* however many layers share it, and not at all otherwise.                  *)
THEOREM OneInstanceEach == Spec => []OneInstance
<1>1. ASSUME IInv PROVE OneInstance
  <2>1. live = [b \in Backends |-> IF b \in config.backends THEN 1 ELSE 0]
    BY <1>1 DEF IInv, LayersOK
  <2>2. DOMAIN << >> = {}
    OBVIOUS
  <2>3. CASE config = NoConfig
    BY <2>1, <2>2, <2>3 DEF OneInstance, NoConfig
  <2>4. CASE OpenedOK
    BY <2>1, <2>4 DEF OneInstance, OpenedOK
  <2> QED
    BY <1>1, <2>3, <2>4 DEF IInv, LayersOK
<1> QED
  BY <1>1, SetupInductive, PTL

===============================================================================
