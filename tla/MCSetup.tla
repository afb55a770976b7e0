-------------------------------- MODULE MCSetup --------------------------------
(* Constants of the runs of Setup.  Two paths serve as configuration files,  *)
(* module directories and sockets: a setting taken from the wrong place      *)
(* shows as the other path.                                                  *)
EXTENDS Setup

MCConfigKeys == <<"CONF_FILE", "MODULE_DIR", "BUXTON_SOCKET">>
Says(c, m, s) == [k \in Settings |-> CASE k = "CONF_FILE"  -> c
                                       [] k = "MODULE_DIR" -> m
                                       [] OTHER            -> s]
MCCompileDefault == Says("a", "a", "a")
MCEnvironments == {Says(c, m, s) : c \in {Null, "b"}, m \in {Null, "b"}, s \in {Null, "a"}}
\* The memory backend is installed in one directory only.
MCModules == [p \in {"a", "b"} |-> IF p = "a" THEN {"gdbm"} ELSE Backends]

Section(type, backend, priority, access, description) ==
  [Type |-> type, Backend |-> backend, Priority |-> priority, Access |-> access,
   Description |-> description]
Base == Section("System", "gdbm", 0, Null, "text")
Isp == Section("System", "gdbm", 1, "read-only", "text")
Temp == Section("System", "memory", 99, "read-write", "text")
User == Section("User", "memory", 1000, Null, "text")

\* A usable set of layers, and files with one thing wrong each.
Layers == {
  [base |-> Base, isp |-> Isp, temp |-> Temp, user |-> User],
  [user |-> User],
  [base |-> [Base EXCEPT !.Priority = -1]],
  [base |-> [Base EXCEPT !.Description = Null], temp |-> Temp]}
File(settings, sections) == [kind |-> "file", settings |-> settings, sections |-> sections]
Files == {File(s, l) : s \in {Says(Null, "b", Null), Says(Null, Null, "b")}, l \in Layers}
MCDisks == [{"a", "b"} -> Files \cup {[kind |-> "absent"], [kind |-> "directory"],
                                     [kind |-> "malformed"]}]

Program(name, file, direct, server) ==
  [name |-> name, file |-> file, direct |-> direct, server |-> server]
MCPrograms ==
  {Program("buxtond", f, TRUE, FALSE) : f \in {Null, "b"}}
  \cup {Program("buxtonctl", f, d, s) : f \in {Null, "b"}, d, s \in BOOLEAN}
  \cup {Program("application", Null, FALSE, TRUE)}
=============================================================================
