----------------------------- MODULE SimpleClient -----------------------------
(***************************************************************************)
(* libbuxtonsimple in one process, and the daemon it talks to.  The        *)
(* library keeps one connection and one current group in global variables: *)
(* each call opens the connection if there is none, makes one synchronous  *)
(* call of the client library, turns what its callback noted into errno,   *)
(* and closes the connection.  A call that gives up leaves its request to  *)
(* the daemon, and its answer to whoever reads the connection next.        *)
(*                                                                         *)
(* The application is taken to ignore SIGPIPE: where it does not, writing  *)
(* to a connection the daemon has closed ends it.  It may handle other     *)
(* signals, and one of them ends a wait.  Answers arrive whole: they are   *)
(* small, and the daemon writes each at once.                              *)
(***************************************************************************)
EXTENDS Naturals, Sequences

CONSTANTS
  Groups,     \* names of groups
  Truncated,  \* [Groups -> Groups]: the first MAX_LG_LEN - 1 characters
  Keys, Types, Values,
  MaxCalls,   \* bound: calls of the application
  MaxCrashes, \* bound: times the daemon ends
  Null

ASSUME TypesAssumption ==
  "INT32" \in Types /\ Truncated \in [Groups -> Groups] /\ MaxCalls \in Nat

Ids == 1 .. MaxCalls
Call(op, group, key, type, value) ==
  [op |-> op, group |-> group, key |-> key, type |-> type, value |-> value]
Calls ==
  {Call("set_group", g, Null, "STRING", Null) : g \in Groups}
  \cup {Call("remove_group", g, Null, "STRING", Null) : g \in Groups}
  \cup {Call("set", Null, k, t, v) : k \in Keys, t \in Types, v \in Values}
  \cup {Call("get", Null, k, t, Null) : k \in Keys, t \in Types}

(* What the daemon does with a call: whether it was granted, and the value  *)
(* read.  Null is none of what it stands in for.                            *)
Deeds == [ok : BOOLEAN, value : Values \cup {Null}]

ASSUME NullAssumption == Null \notin Calls \cup Values \cup Deeds

VARIABLES
  client,   \* the connection, named by the call that opened it, or 0: NULL
  _group,   \* the current group, "" until one is set
  call,     \* the call under way or Null
  waiting,  \* ids whose callbacks are kept
  expired,  \* those kept for more than TIMEOUT
  interrupted, \* history: calls whose wait a signal ended
  last,     \* how the last call ended
  n,        \* calls made
  running,  \* the daemon runs
  live,     \* the daemon has the connection client
  up,       \* requests on their way to the daemon, in the order they were written
  down,     \* answers in the connection client
  groups, db, \* what the daemon keeps: groups, [Groups \X Keys -> value or Null]
  done,     \* what the daemon has done with each call
  crashes

library == <<client, _group, call, waiting, expired, interrupted, last, n>>
daemon == <<running, up, groups, db, done, crashes>>
vars == <<library, daemon, live, down>>

(* What the callback noted, and the call whose answer it was: none yet.     *)
Nothing == [status |-> "unset", value |-> Null, from |-> 0]

Init ==
  /\ client = 0 /\ live = FALSE
  /\ _group = "" /\ call = Null /\ n = 0
  /\ waiting = {} /\ expired = {} /\ interrupted = {}
  /\ last = Null
  /\ running = TRUE /\ up = << >> /\ down = << >>
  /\ groups = {} /\ db = [p \in Groups \X Keys |-> Null]
  /\ done = [i \in Ids |-> Null]
  /\ crashes = 0

-----------------------------------------------------------------------------
ReapedNone == waiting                \* mutant: callbacks are never dropped
Reaped == waiting \ expired          \* reap_callbacks

(* The end of a call.  buxton_close forgets the callbacks.                  *)
_client_disconnect ==
  /\ client' = 0 /\ live' = FALSE
  /\ down' = << >> /\ waiting' = {} /\ expired' = {}

(* A call that returns early leaves them, and the connection.               *)
Keep(kept, old) ==
  /\ waiting' = kept /\ expired' = old
  /\ UNCHANGED <<client, live, down>>

(* errno and the value returned, given what the callback noted; a status    *)
(* or a value nobody wrote may be anything.                                 *)
Ended(c, noted, errno) ==
  /\ \E value \in IF noted.value # Null THEN {noted.value} ELSE Values :
       last' = [id |-> n', call |-> c, from |-> noted.from, errno |-> errno,
                value |-> IF c.op = "get" THEN value ELSE Null]
  /\ call' = Null

StatusErrnos(noted) ==
  CASE noted.status = "ok" -> {"saved"}
    [] noted.status = "failed" -> {"EACCES"}
    [] noted.status = "unset" -> {"saved", "EACCES"}

(* sync: what the synchronous call returned.  A set that fails is left at   *)
(* once, with the callbacks kept and those of them that are old.            *)
SetGroupEnds(c, sync, noted) ==
  /\ c.op = "set_group"
  /\ Ended(c, noted, IF sync /\ noted.status = "ok" THEN "saved" ELSE "EBADMSG")
  /\ _client_disconnect

SetInt32Ends(c, sync, noted, kept, old) ==
  /\ c.op = "set" /\ c.type = "INT32"
  /\ IF sync
     THEN /\ \E errno \in StatusErrnos(noted) : Ended(c, noted, errno)
          /\ _client_disconnect
     ELSE Ended(c, noted, "saved") /\ Keep(kept, old)

SetOtherEnds(c, noted) ==
  /\ c.op = "set" /\ c.type # "INT32"
  /\ \E errno \in StatusErrnos(noted) : Ended(c, noted, errno)
  /\ _client_disconnect

GetEnds(c, noted) ==
  /\ c.op = "get"
  /\ \E errno \in StatusErrnos(noted) : Ended(c, noted, errno)
  /\ _client_disconnect

RemoveGroupEnds(c, noted) ==
  /\ c.op = "remove_group"
  /\ \E errno \in StatusErrnos(noted) : Ended(c, noted, errno)
  /\ _client_disconnect

Ends(c, sync, noted, kept, old) ==
  \/ SetGroupEnds(c, sync, noted) \/ RemoveGroupEnds(c, noted)
  \/ SetInt32Ends(c, sync, noted, kept, old) \/ SetOtherEnds(c, noted) \/ GetEnds(c, noted)

-----------------------------------------------------------------------------
(* A call of the application, up to the message it writes.                  *)
CanConnect == client # 0 \/ running   \* _client_connection

NotConnected(c) ==
  /\ call = Null /\ n < MaxCalls /\ ~CanConnect
  /\ n' = n + 1
  /\ Ended(c, Nothing, "ENOTCONN")
  /\ UNCHANGED <<client, _group, waiting, expired, interrupted, live, down, daemon>>

NewGroupWhole(c) == IF c.op = "set_group" THEN c.group ELSE _group \* mutant: no limit
NewGroup(c) == IF c.op = "set_group" THEN Truncated[c.group] ELSE _group

Key(c) ==
  IF c.op = "remove_group" THEN c.group ELSE NewGroup(c)

(* Adding a callback drops the expired ones.                                *)
Begin(c) ==
  /\ call = Null /\ n < MaxCalls /\ CanConnect
  /\ n' = n + 1
  /\ _group' = NewGroup(c)
  /\ IF client # 0 /\ ~live
     THEN /\ Ends(c, FALSE, Nothing, Reaped \cup {n'}, {})   \* the write fails
          /\ UNCHANGED up
     ELSE /\ client' = IF client = 0 THEN n' ELSE client
          /\ live' = TRUE
          /\ up' = Append(up, [id |-> n', from |-> client', call |-> [c EXCEPT !.group = Key(c)]])
          /\ waiting' = Reaped \cup {n'}
          /\ expired' = {}
          /\ call' = c
          /\ UNCHANGED <<last, down>>
  /\ UNCHANGED <<interrupted, running, groups, db, done, crashes>>

(* buxton_wire_get_response: poll finds something to read, and every        *)
(* message that is there is handled.  The callback of the call under way    *)
(* may be among those that run, the last then, or not.  One of an earlier   *)
(* call writes its status to where that call's ret was on the stack, which  *)
(* may be where this one's is.                                              *)
Run == {i \in DOMAIN down : down[i].id \in Reaped}
Own == {i \in Run : down[i].id = n}

Noted(i) ==
  [status |-> IF down[i].ok THEN "ok" ELSE "failed", from |-> down[i].id,
   value |-> IF down[i].id = n THEN down[i].value ELSE Null]

Hears ==
  IF Own # {} THEN {Noted(i) : i \in Own} ELSE {Nothing} \cup {Noted(i) : i \in Run}

Respond ==
  /\ call # Null /\ down # << >>
  /\ n' = n
  /\ \E noted \in Hears : Ends(call, TRUE, noted, {}, {})
  /\ UNCHANGED <<_group, interrupted, daemon>>

(* Nothing came within 5 seconds, longer than a callback is kept.           *)
TimesOut ==
  /\ call # Null /\ down = << >> /\ live
  /\ n' = n
  /\ Ends(call, FALSE, Nothing, waiting, waiting)
  /\ UNCHANGED <<_group, interrupted, daemon>>

(* The connection is at its end: the callbacks are reaped, nothing is read. *)
EndOfStream ==
  /\ call # Null /\ down = << >> /\ ~live
  /\ n' = n
  /\ Ends(call, FALSE, Nothing, Reaped, {})
  /\ UNCHANGED <<_group, interrupted, daemon>>

(* A signal ends the wait.                                                  *)
Interrupted ==
  /\ call # Null /\ down = << >> /\ live
  /\ n' = n
  /\ Ends(call, FALSE, Nothing, waiting, expired)
  /\ interrupted' = interrupted \cup {n}
  /\ UNCHANGED <<_group, daemon>>

(* Time passes: a callback is kept for more than TIMEOUT, and all before it. *)
Expire ==
  /\ \E k \in waiting \ expired : expired' = expired \cup {w \in waiting : w <= k}
  /\ UNCHANGED <<client, _group, call, waiting, interrupted, last, n, live, down, daemon>>

-----------------------------------------------------------------------------
(* The daemon (BuxtonDaemon, BuxtonDirect): it takes requests in the order  *)
(* they were written, those of closed connections too, and may refuse any.  *)
Answer(r, ok, value) ==
  /\ done' = [done EXCEPT ![r.id] = [ok |-> ok, value |-> value]]
  /\ down' = IF r.from = client /\ live
             THEN Append(down, [id |-> r.id, ok |-> ok, value |-> value]) ELSE down
  /\ up' = Tail(up)
  /\ UNCHANGED <<library, live, running, crashes>>

Place(r) == <<r.call.group, r.call.key>>
Stored(r) == [type |-> r.call.type, value |-> r.call.value]

Refuse(r) == Answer(r, FALSE, Null) /\ UNCHANGED <<groups, db>>

ServeGroup(r) ==
  \/ /\ r.call.op = "set_group" /\ r.call.group \notin groups
     /\ groups' = groups \cup {r.call.group}
     /\ Answer(r, TRUE, Null)
     /\ UNCHANGED db
  \/ /\ r.call.op = "remove_group" /\ r.call.group \in groups
     /\ groups' = groups \ {r.call.group}
     /\ Answer(r, TRUE, Null)
     /\ UNCHANGED db

ServeKey(r) ==
  /\ r.call.group \in groups
  /\ \/ /\ r.call.op = "set"
        /\ db' = [db EXCEPT ![Place(r)] = Stored(r)]
        /\ Answer(r, TRUE, Null)
     \/ /\ r.call.op = "get" /\ db[Place(r)] # Null
        /\ db[Place(r)].type = r.call.type
        /\ Answer(r, TRUE, db[Place(r)].value)
        /\ UNCHANGED db
  /\ UNCHANGED groups

Serve ==
  /\ running /\ up # << >>
  /\ Refuse(Head(up)) \/ ServeGroup(Head(up)) \/ ServeKey(Head(up))

Crash ==
  /\ running /\ crashes < MaxCrashes
  /\ running' = FALSE /\ live' = FALSE /\ up' = << >>
  /\ crashes' = crashes + 1
  /\ UNCHANGED <<library, down, groups, db, done>>

Restart ==
  /\ ~running
  /\ running' = TRUE
  /\ UNCHANGED <<library, live, up, down, groups, db, done, crashes>>

Next ==
  \/ \E c \in Calls : NotConnected(c) \/ Begin(c)
  \/ Respond \/ TimesOut \/ EndOfStream \/ Interrupted \/ Expire
  \/ Serve \/ Crash \/ Restart

Spec == Init /\ [][Next]_vars

-----------------------------------------------------------------------------
(* Properties                                                               *)

(* Every variable has its type; the current group fits into its buffer.     *)
TypeOK ==
  /\ client \in 0 .. n /\ n \in 0 .. MaxCalls
  /\ _group \in {""} \cup {Truncated[g] : g \in Groups}
  /\ call \in Calls \cup {Null}
  /\ waiting \subseteq 1 .. n /\ expired \subseteq waiting /\ interrupted \subseteq 1 .. n
  /\ groups \subseteq Groups
  /\ live => client # 0 /\ running

(* What a call reports is what the daemon did with this very call, however  *)
(* late the answers of calls that gave up come: their callbacks have been   *)
(* reaped by then (shared/protocol.c:152-172).  Only a call whose wait a    *)
(* signal ended can leave one that still runs (AnswerTellsFailure).         *)
OwnAnswer ==
  last # Null /\ last.from # 0 =>
    /\ last.from = last.id \/ last.from \in interrupted
    /\ done[last.from] # Null
    /\ (last.errno = "saved") = done[last.from].ok
    /\ last.from = last.id /\ last.call.op = "get" /\ done[last.from].ok =>
         last.value = done[last.from].value

(* A call that was told of an answer and failed sets errno                  *)
(* (docs/sbuxton_get_int32.3).  Not so: where a signal ends the wait of     *)
(* sbuxton_set_int32 (lbuxtonsimple.c:78), its callback and the connection  *)
(* stay, and it notes the success of that call for the next one.            *)
AnswerTellsFailure ==
  last # Null /\ last.from # 0 /\ done[last.id] # Null /\ ~done[last.id].ok =>
    last.errno # "saved"

(* A call that was not carried out sets errno.                              *)
FailureSetsErrno ==
  last # Null /\ (done[last.id] = Null \/ ~done[last.id].ok) => last.errno # "saved"

(* A call that _client_connection lets through has a connection that is     *)
(* open, if the daemon runs.                                                *)
ConnectionIsOpen ==
  [][\A c \in Calls : Begin(c) /\ running => live']_vars
=============================================================================
