------------------------------ MODULE MCBuxtonctl ------------------------------
(* Constants of the runs of Buxtonctl: root and one user whose label may     *)
(* read what everybody may but not write it, a layer of each type, and every *)
(* command with each number of arguments it takes and one it does not.       *)
EXTENDS Buxtonctl

Conf(t, b, p) == [type |-> t, backend |-> b, priority |-> p, readonly |-> FALSE]
MCLayerOrder == <<"base", "user">>
MCLayerConf == [l \in {"base", "user"} |->
  IF l = "base" THEN Conf("System", "gdbm", 0) ELSE Conf("User", "memory", 9)]
MCMedium == [r \in Resources |-> "rw"]

Int32 == [type |-> "INT32", store |-> "1"]
Bool == [type |-> "BOOLEAN", store |-> "true"]
MCValues == {Int32, Bool}

(* strtol takes 2^32 + 1 for an int32_t and the cast makes 1 of it; it is no *)
(* name of a truth value.                                                    *)
MCConverted(type, text) ==
  IF type = "INT32" THEN Int32 ELSE IF text = "1" THEN Bool ELSE Null
MCConvertedTexts ==
  [p \in {"INT32", "BOOLEAN"} \X {"1", "4294967297"} |-> MCConverted(p[1], p[2])]

Line(command, type, args) == [command |-> command, type |-> type, args |-> args]
Key3(l) == <<l, "g", "n">>
MCLines ==
  {Line("check", "UNSET", << >>), Line("check", "UNSET", <<"base">>)}
  \cup {Line("get", t, <<"g", "n">>) : t \in {"INT32", "UNSET"}}
  \cup {Line("get", t, Key3(l)) : t \in {"INT32", "UNSET"}, l \in Layers}
  \cup {Line("set", t, Append(Key3(l), x)) :
          t \in {"INT32", "BOOLEAN"}, l \in Layers, x \in {"1", "4294967297"}}
  \cup {Line("set", "INT32", Key3(l)) : l \in Layers}
  \cup {Line("get_label", "UNSET", Key3("base")), Line("get_label", "UNSET", <<"base", "g">>)}
  \cup {Line("set_label", "UNSET", <<"base", "g", "App">>),
        Line("set_label", "UNSET", Append(Key3("base"), "App"))}
  \cup {Line(c, "STRING", <<l, "g">>) : c \in {"create_group", "remove_group"}, l \in Layers}
  \cup {Line("unset_value", "UNSET", Key3(l)) : l \in Layers}
  \cup {Line("list_groups", "UNSET", <<"base">>), Line("list_groups", "UNSET", <<"lost">>),
        Line("list_keys", "UNSET", <<"user", "g">>)}

MCClientLabel == [u \in {0, 1} |-> IF u = 0 THEN "_" ELSE "App"]
MCSmack == [have |-> TRUE,
            rules |-> RulesOf(<<[subject |-> "App", object |-> "_", access |-> {"r"}]>>)]
=============================================================================
