-------------------------------- MODULE MCStore --------------------------------
(* Constants of the runs of BuxtonStore.                                    *)
EXTENDS BuxtonStore

Conf(t, b, p, ro) == [type |-> t, backend |-> b, priority |-> p, readonly |-> ro]

(* The layers of data/buxton.conf that differ in type and backend, and two  *)
(* more: one that is shipped read-only, with the priority of another, and   *)
(* one whose file cannot be opened.                                         *)
MCLayerOrder == <<"isp", "lost", "user", "base", "temp">>
MCLayerConf == [l \in {"isp", "lost", "user", "base", "temp"} |->
  CASE l = "isp"  -> Conf("System", "gdbm", 99, TRUE)
    [] l = "lost" -> Conf("System", "gdbm", 500, FALSE)
    [] l = "user" -> Conf("User", "gdbm", 1000, FALSE)
    [] l = "base" -> Conf("System", "gdbm", 0, FALSE)
    [] l = "temp" -> Conf("System", "memory", 99, FALSE)]

MCMedium == [r \in Resources |->
  CASE r[1] = "lost" -> "none" [] r[1] = "isp" -> "ro" [] OTHER -> "rw"]

Int32(x) == [type |-> "INT32", store |-> x]
MCValues == {Int32("0"), [type |-> "BOOLEAN", store |-> "1"]}

(* The read-only file comes with one key of type INT32, so that a read of   *)
(* the other type passes it over.                                           *)
MCInstalled ==
  {[EmptyDB EXCEPT ![<<"isp", Null>>] =
      [s \in Slots |-> [data |-> IF s[2] = Null THEN GroupValue ELSE Int32("0"),
                        label |-> "_"]]]}

MCClients == {"root", "app"}
MCClientUid == [c \in MCClients |-> IF c = "root" THEN 0 ELSE 1]
MCClientLabel == [c \in MCClients |-> IF c = "root" THEN "_" ELSE "App"]

Rule(s, o, a) == [subject |-> s, object |-> o, access |-> a]
MCRuleFiles == {<<Rule("App", "_", {"r", "w"})>>, <<Rule("App", "_", {"w"})>>}
=============================================================================
