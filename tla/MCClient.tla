------------------------------- MODULE MCClient -------------------------------
(* Constants for TLC: a thread that reads and one that only sends.          *)
EXTENDS BuxtonClient

CONSTANTS reader, sender, key

MCThreads == {reader, sender}
MCKeys == {key}
AnyStray == Ids \cup {Null}
===============================================================================
