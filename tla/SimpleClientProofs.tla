-------------------------- MODULE SimpleClientProofs --------------------------
(***************************************************************************)
(* The simple client library has the types it should, and what a call      *)
(* reports is the daemon's answer to this very call or to one whose wait a *)
(* signal ended, for any groups, keys, types and values and any number of  *)
(* calls and of ends of the daemon.                                        *)
(***************************************************************************)
EXTENDS SimpleClient, TLAPS

-----------------------------------------------------------------------------
(* The inductive invariant                                                  *)

(* Requests on their way, answers to be read, and the order of both.        *)
Messages ==
  [id : Ids, from : Nat,
   call : [op : {"set_group", "remove_group", "set", "get"}, group : Groups \cup {""},
           key : Keys \cup {Null}, type : Types \cup {"STRING"}, value : Values \cup {Null}]]

(* A request names a key where its operation needs one; the one of the call *)
(* under way is for that call's operation.                                  *)
RequestOK(r) ==
  /\ r.id <= n
  /\ r.call.op \in {"set_group", "remove_group"} => r.call.group \in Groups
  /\ r.call.op \in {"set", "get"} => r.call.key \in Keys /\ r.call.type \in Types
  /\ r.call.op = "set" => r.call.value \in Values
  /\ call # Null /\ r.id = n => r.call.op = call.op

(* An answer tells what was done; one to a read that was granted has a      *)
(* value.                                                                   *)
AnswerOK(a) ==
  /\ a.id <= n
  /\ done[a.id] = [ok |-> a.ok, value |-> a.value]
  /\ call # Null /\ a.id = n /\ call.op = "get" /\ a.ok => a.value \in Values

Replies == [id : Ids, ok : BOOLEAN, value : Values \cup {Null}]

QueuesOK ==
  /\ up \in Seq(Messages) /\ \A i \in 1 .. Len(up) : RequestOK(up[i])
  /\ down \in Seq(Replies) /\ \A i \in 1 .. Len(down) : AnswerOK(down[i])

(* The daemon answers in the order of the requests, and every call has an   *)
(* id later than those before: whatever it does next is for a call later    *)
(* than all it has answered on this connection.                             *)
InOrder ==
  /\ \A i, j \in 1 .. Len(up) : i < j => up[i].id < up[j].id
  /\ \A i, j \in 1 .. Len(down) : i < j => down[i].id < down[j].id
  /\ \A i \in 1 .. Len(down), j \in 1 .. Len(up) : down[i].id < up[j].id

(* Of the callbacks that can still run, those of earlier calls were left by *)
(* interrupted ones.                                                        *)
CallbacksOK ==
  /\ client = 0 => waiting = {}
  /\ call # Null => n # 0
  /\ live \/ call # Null =>
       \A w \in waiting \ expired : w \in interrupted \/ (call # Null /\ w = n)

DataOK ==
  /\ db \in [Groups \X Keys -> [type : Types, value : Values] \cup {Null}]
  /\ done \in [Ids -> Deeds \cup {Null}]

(* What was answered is not done again.                                     *)
LastOK ==
  last # Null /\ last.from # 0 =>
    /\ last.from \in 1 .. n
    /\ \A i \in 1 .. Len(up) : last.from < up[i].id

IInv ==
  /\ TypeOK /\ QueuesOK /\ InOrder /\ CallbacksOK /\ DataOK /\ LastOK
  /\ OwnAnswer

-----------------------------------------------------------------------------
(* Calls, their ends and the queues                                         *)

(* What a call is.                                                          *)
LEMMA CallShape ==
  ASSUME NEW c \in Calls
  PROVE  /\ c \in [op : {"set_group", "remove_group", "set", "get"}, group : Groups \cup {Null},
                   key : Keys \cup {Null}, type : Types \cup {"STRING"}, value : Values \cup {Null}]
         /\ c.op \in {"set_group", "remove_group"} => c.group \in Groups
         /\ c.op \in {"set", "get"} => c.key \in Keys /\ c.type \in Types
         /\ c.op = "set" => c.value \in Values
BY DEF Calls, Call

(* The end of a call, whichever it is: what it reports, and whether the     *)
(* connection goes with it.                                                 *)
LEMMA EndShape ==
  ASSUME NEW c, NEW sync, NEW noted, NEW kept, NEW old, Ends(c, sync, noted, kept, old)
  PROVE  /\ call' = Null
         /\ last'.id = n' /\ last'.call = c /\ last'.from = noted.from
         /\ sync /\ noted.status = "ok" => last'.errno = "saved"
         /\ sync /\ noted.status = "failed" => last'.errno # "saved"
         /\ c.op = "get" /\ noted.value # Null => last'.value = noted.value
         /\ _client_disconnect \/ (~sync /\ Keep(kept, old))
<1> DEFINE Report(errno, value) ==
             [id |-> n', call |-> c, from |-> noted.from, errno |-> errno,
              value |-> IF c.op = "get" THEN value ELSE Null]
<1>1. ASSUME NEW errno, Ended(c, noted, errno)
      PROVE  /\ call' = Null
             /\ last'.id = n' /\ last'.call = c /\ last'.from = noted.from
             /\ last'.errno = errno
             /\ c.op = "get" /\ noted.value # Null => last'.value = noted.value
  <2> PICK value \in IF noted.value # Null THEN {noted.value} ELSE Values :
             last' = Report(errno, value)
    BY <1>1 DEF Ended
  <2> QED
    BY <1>1 DEF Ended
<1>2. CASE SetGroupEnds(c, sync, noted)
  <2>1. Ended(c, noted, IF sync /\ noted.status = "ok" THEN "saved" ELSE "EBADMSG")
    BY <1>2 DEF SetGroupEnds
  <2> QED
    BY <1>1, <1>2, <2>1 DEF SetGroupEnds
<1>3. ASSUME NEW errno \in StatusErrnos(noted), Ended(c, noted, errno), _client_disconnect
      PROVE  /\ call' = Null
             /\ last'.id = n' /\ last'.call = c /\ last'.from = noted.from
             /\ sync /\ noted.status = "ok" => last'.errno = "saved"
             /\ sync /\ noted.status = "failed" => last'.errno # "saved"
             /\ c.op = "get" /\ noted.value # Null => last'.value = noted.value
  BY <1>1, <1>3 DEF StatusErrnos
<1>4. CASE SetOtherEnds(c, noted) \/ GetEnds(c, noted) \/ RemoveGroupEnds(c, noted)
  <2> PICK errno \in StatusErrnos(noted) : Ended(c, noted, errno) /\ _client_disconnect
    BY <1>4 DEF SetOtherEnds, GetEnds, RemoveGroupEnds
  <2> QED
    BY <1>3
<1>5. CASE SetInt32Ends(c, sync, noted, kept, old) /\ sync
  <2> PICK errno \in StatusErrnos(noted) : Ended(c, noted, errno) /\ _client_disconnect
    BY <1>5 DEF SetInt32Ends
  <2> QED
    BY <1>3
<1>6. CASE SetInt32Ends(c, sync, noted, kept, old) /\ ~sync
  BY <1>1, <1>6 DEF SetInt32Ends
<1> QED
  BY <1>2, <1>4, <1>5, <1>6 DEF Ends

LEMMA BasicTypes ==
  ASSUME TypeOK
  PROVE  /\ n \in Nat /\ n \in 0 .. MaxCalls /\ MaxCalls \in Nat
         /\ client \in 0 .. n /\ waiting \subseteq 1 .. n /\ expired \subseteq waiting
         /\ interrupted \subseteq 1 .. n
         /\ live => client # 0 /\ running
<1>1. n \in 0 .. MaxCalls /\ MaxCalls \in Nat
  BY TypesAssumption DEF TypeOK
<1>2. n \in Nat
  BY <1>1
<1>3. /\ client \in 0 .. n /\ waiting \subseteq 1 .. n /\ expired \subseteq waiting
      /\ interrupted \subseteq 1 .. n
      /\ live => client # 0 /\ running
  BY DEF TypeOK
<1> QED
  BY <1>1, <1>2, <1>3

(* A call that ends keeps the types and the callbacks it may, and takes     *)
(* nothing new in.                                                          *)
LEMMA EndTypes ==
  ASSUME IInv, NEW kept, NEW old, _client_disconnect \/ Keep(kept, old),
         n' \in {n, n + 1}, n' \in 1 .. MaxCalls, running' = running, call' = Null,
         kept \subseteq 1 .. n', old \subseteq kept, client = 0 => kept = {},
         live => \A w \in kept \ old : w \in interrupted'
  PROVE  /\ client' \in 0 .. n'
         /\ waiting' \subseteq 1 .. n' /\ expired' \subseteq waiting'
         /\ live' => client' # 0 /\ running'
         /\ down' = << >> \/ down' = down
         /\ CallbacksOK'
<1>0. /\ n \in Nat /\ client \in 0 .. n /\ (live => client # 0 /\ running)
      /\ n' \in Nat /\ n <= n'
  <2>1. n \in Nat /\ client \in 0 .. n /\ (live => client # 0 /\ running) /\ MaxCalls \in Nat
    BY BasicTypes DEF IInv
  <2> QED
    BY <2>1
<1>1. CASE _client_disconnect
  BY <1>0, <1>1 DEF _client_disconnect, CallbacksOK
<1>2. CASE Keep(kept, old)
  BY <1>0, <1>2 DEF Keep, CallbacksOK
<1> QED
  BY <1>1, <1>2

LEMMA InitKeeps == Init => IInv
<1> SUFFICES ASSUME Init PROVE IInv
  OBVIOUS
<1>1. TypeOK
  <2>1. MaxCalls \in Nat /\ 0 \in 0 .. 0 /\ 0 \in 0 .. MaxCalls
    BY TypesAssumption
  <2> QED
    BY <2>1 DEF Init, TypeOK
<1>2. up = << >> /\ down = << >> /\ Len(<< >>) = 0
  BY DEF Init
<1>5. QueuesOK
  BY <1>2 DEF QueuesOK
<1>6. InOrder
  BY <1>2 DEF InOrder
<1>3. CallbacksOK /\ LastOK /\ OwnAnswer
  BY DEF Init, CallbacksOK, LastOK, OwnAnswer
<1>4. DataOK
  BY DEF Init, DataOK, Deeds
<1> QED
  BY <1>1, <1>3, <1>4, <1>5, <1>6 DEF IInv

LEMMA IdTypes ==
  /\ \A r \in Messages : r.id \in Nat /\ r.id \in Ids
  /\ \A a \in Replies : a.id \in Nat /\ a.id \in Ids
<1>1. Ids \subseteq Nat
  BY TypesAssumption DEF Ids
<1>2. \A r \in Messages : r.id \in Ids
  BY DEF Messages
<1>3. \A a \in Replies : a.id \in Ids
  BY DEF Replies
<1> QED
  BY <1>1, <1>2, <1>3

(* What is in the queues.                                                   *)
LEMMA QueueFacts ==
  ASSUME QueuesOK
  PROVE  /\ up \in Seq(Messages) /\ down \in Seq(Replies)
         /\ \A i \in 1 .. Len(up) :
              up[i] \in Messages /\ up[i].id \in Nat /\ up[i].id \in Ids /\ up[i].id <= n
         /\ \A i \in 1 .. Len(up) : RequestOK(up[i])
         /\ \A i \in 1 .. Len(down) :
              down[i] \in Replies /\ down[i].id \in Nat /\ down[i].id \in Ids /\ down[i].id <= n
         /\ \A i \in 1 .. Len(down) : AnswerOK(down[i])
<1>1. up \in Seq(Messages) /\ \A i \in 1 .. Len(up) : RequestOK(up[i])
  BY DEF QueuesOK
<1>2. down \in Seq(Replies) /\ \A i \in 1 .. Len(down) : AnswerOK(down[i])
  BY DEF QueuesOK
<1>3. \A i \in 1 .. Len(up) : up[i] \in Messages
  BY <1>1
<1>4. \A i \in 1 .. Len(down) : down[i] \in Replies
  BY <1>2
<1>5. \A i \in 1 .. Len(up) : up[i].id \in Nat /\ up[i].id \in Ids /\ up[i].id <= n
  BY <1>1, <1>3, IdTypes DEF RequestOK
<1>6. \A i \in 1 .. Len(down) : down[i].id \in Nat /\ down[i].id \in Ids /\ down[i].id <= n
  BY <1>2, <1>4, IdTypes DEF AnswerOK
<1> QED
  BY <1>1, <1>2, <1>3, <1>4, <1>5, <1>6

(* The queues suit a call that has ended.                                   *)
LEMMA QueuesKept ==
  ASSUME QueuesOK, n \in Nat, n' \in Nat, n <= n', call' = Null,
         UNCHANGED <<up, done>>, down' = << >> \/ down' = down
  PROVE  QueuesOK'
<1>1. ASSUME NEW r \in Messages, RequestOK(r)
      PROVE  RequestOK(r)'
  <2>1. r.id \in Nat
    BY IdTypes
  <2> QED
    BY <1>1, <2>1 DEF RequestOK
<1>2. ASSUME NEW a \in Replies, AnswerOK(a)
      PROVE  AnswerOK(a)'
  <2>1. a.id \in Nat
    BY IdTypes
  <2> QED
    BY <1>2, <2>1 DEF AnswerOK
<1>3. up' \in Seq(Messages) /\ \A i \in 1 .. Len(up) : up[i] \in Messages /\ RequestOK(up[i])
  BY DEF QueuesOK
<1>4. down' \in Seq(Replies) /\ \A i \in 1 .. Len(down) : down[i] \in Replies /\ AnswerOK(down[i])
  <2>1. down \in Seq(Replies) /\ << >> \in Seq(Replies)
    BY DEF QueuesOK
  <2>2. down' \in Seq(Replies)
    BY <2>1
  <2>3. \A i \in 1 .. Len(down) : down[i] \in Replies
    BY <2>1
  <2>4. \A i \in 1 .. Len(down) : AnswerOK(down[i])
    BY DEF QueuesOK
  <2> QED
    BY <2>2, <2>3, <2>4
<1>5. \A i \in 1 .. Len(up') : RequestOK(up[i])'
  BY <1>1, <1>3
<1>6. \A i \in 1 .. Len(down') : AnswerOK(down[i])'
  <2>1. CASE down' = << >>
    BY <2>1
  <2>2. CASE down' = down
    BY <1>2, <1>4, <2>2
  <2> QED
    BY <2>1, <2>2
<1> QED
  BY <1>3, <1>4, <1>5, <1>6 DEF QueuesOK, Messages, Replies

(* A call that fails before it is sent.                                     *)
LEMMA NotConnectedKeeps ==
  ASSUME IInv, NEW c \in Calls, NotConnected(c)
  PROVE  IInv'
<1>0. /\ call = Null /\ n' = n + 1 /\ n' \in 1 .. MaxCalls /\ n' \in Nat /\ n \in Nat
      /\ UNCHANGED <<client, _group, waiting, expired, interrupted, live, down>>
      /\ UNCHANGED <<running, up, groups, db, done, crashes>>
  BY BasicTypes DEF IInv, NotConnected, daemon
<1>1. call' = Null /\ last'.from = 0
  <2> PICK value \in Values \cup {Null} :
         last' = [id |-> n', call |-> c, from |-> Nothing.from, errno |-> "ENOTCONN",
                  value |-> IF c.op = "get" THEN value ELSE Null]
    BY DEF NotConnected, Ended, Nothing
  <2> QED
    BY DEF NotConnected, Ended, Nothing
<1>2. TypeOK'
  <2>1. /\ client \in 0 .. n /\ waiting \subseteq 1 .. n /\ expired \subseteq waiting
        /\ interrupted \subseteq 1 .. n
        /\ live => client # 0 /\ running
    BY BasicTypes DEF IInv
  <2>2. client \in 0 .. n' /\ 1 .. n \subseteq 1 .. n' /\ n' \in 0 .. MaxCalls
    BY <1>0, <2>1
  <2> QED
    BY <1>0, <1>1, <2>1, <2>2 DEF IInv, TypeOK
<1>3. QueuesOK'
  BY <1>0, <1>1, QueuesKept DEF IInv
<1>4. InOrder'
  BY <1>0 DEF IInv, InOrder
<1>5. CallbacksOK' /\ DataOK'
  BY <1>0, <1>1 DEF IInv, CallbacksOK, DataOK
<1>6. LastOK' /\ OwnAnswer'
  BY <1>1 DEF LastOK, OwnAnswer
<1> QED
  BY <1>2, <1>3, <1>4, <1>5, <1>6 DEF IInv

(* A call that is written, or finds its connection dead.                    *)
LEMMA NewGroupType ==
  ASSUME TypeOK, NEW c \in Calls
  PROVE  /\ NewGroup(c) \in {""} \cup {Truncated[g] : g \in Groups}
         /\ NewGroup(c) \in Groups \cup {""}
         /\ Key(c) \in Groups \cup {""}
         /\ c.op \in {"set_group", "remove_group"} => Key(c) \in Groups
BY CallShape, TypesAssumption DEF TypeOK, NewGroup, Key

LEMMA DeadBeginKeeps ==
  ASSUME IInv, NEW c \in Calls, Begin(c), client # 0, ~live
  PROVE  IInv'
<1>a. /\ call = Null /\ n' = n + 1 /\ n < MaxCalls
      /\ _group' = NewGroup(c)
      /\ UNCHANGED <<interrupted, running, up, groups, db, done, crashes>>
      /\ Ends(c, FALSE, Nothing, Reaped \cup {n'}, {})
  BY DEF Begin
<1>0. n' = n + 1 /\ n' \in 1 .. MaxCalls /\ n' \in Nat /\ n \in Nat /\ n <= n' /\ n' \in 0 .. MaxCalls
  BY <1>a, BasicTypes DEF IInv
<1> PICK kept : kept = Reaped \cup {n'}
  OBVIOUS
<1>1. /\ call' = Null /\ last'.from = 0
      /\ _client_disconnect \/ Keep(kept, {})
  <2>1. Ends(c, FALSE, Nothing, kept, {})
    BY <1>a DEF Ends, SetInt32Ends, Keep
  <2> QED
    <3>1. /\ call' = Null /\ last'.from = Nothing.from
          /\ _client_disconnect \/ (~FALSE /\ Keep(kept, {}))
      BY <2>1, EndShape, Zenon
    <3> QED
      BY <3>1 DEF Nothing
<1>b. kept \subseteq 1 .. n'
  <2>1. waiting \subseteq 1 .. n
    BY BasicTypes DEF IInv
  <2>2. \A w \in kept : w \in 1 .. n \/ w = n'
    BY <2>1 DEF Reaped
  <2> QED
    BY <1>0, <2>2
<1>2. /\ client' \in 0 .. n'
      /\ waiting' \subseteq 1 .. n' /\ expired' \subseteq waiting'
      /\ live' => client' # 0 /\ running'
      /\ down' = << >> \/ down' = down
      /\ CallbacksOK'
  BY <1>a, <1>b, <1>0, <1>1, EndTypes
<1>c. interrupted' \subseteq 1 .. n'
  BY <1>a, <1>0, BasicTypes DEF IInv
<1>3. TypeOK'
  BY <1>a, <1>c, <1>0, <1>1, <1>2, NewGroupType DEF IInv, TypeOK
<1>4. QueuesOK'
  BY <1>a, <1>0, <1>1, <1>2, QueuesKept DEF IInv
<1>5. InOrder'
  <2>1. CASE down' = down
    BY <1>a, <1>0, <2>1 DEF IInv, InOrder
  <2>2. CASE down' = << >>
    BY <1>a, <1>0, <2>2 DEF IInv, InOrder
  <2> QED
    BY <1>2, <2>1, <2>2
<1>6. CallbacksOK' /\ DataOK'
  BY <1>a, <1>2 DEF IInv, DataOK
<1>7. LastOK' /\ OwnAnswer'
  BY <1>1 DEF LastOK, OwnAnswer
<1> QED
  BY <1>3, <1>4, <1>5, <1>6, <1>7 DEF IInv

(* A request that is written is later than everything before it.            *)
LEMMA SentBeginKeeps ==
  ASSUME IInv, NEW c \in Calls, Begin(c), ~(client # 0 /\ ~live)
  PROVE  IInv'
<1> PICK r : r = [id |-> n', from |-> client', call |-> [c EXCEPT !.group = Key(c)]]
  OBVIOUS
<1>a. /\ call = Null /\ n' = n + 1 /\ n < MaxCalls /\ CanConnect
      /\ _group' = NewGroup(c)
      /\ client' = (IF client = 0 THEN n' ELSE client) /\ live' = TRUE
      /\ up' = Append(up, r)
      /\ waiting' = Reaped \cup {n'} /\ expired' = {} /\ call' = c
      /\ UNCHANGED <<interrupted, last, down, running, groups, db, done, crashes>>
  BY DEF Begin
<1>b. call' # Null
  BY <1>a, NullAssumption
<1>0. n' = n + 1 /\ n' \in 1 .. n' /\ n' \in Nat /\ n \in Nat /\ n' \in 0 .. MaxCalls /\ n' \in Ids
  BY <1>a, BasicTypes DEF IInv, Ids
<1>1. client' \in 0 .. n' /\ client' # 0 /\ running
  <2>1. client \in 0 .. n /\ (live => client # 0 /\ running)
    BY BasicTypes DEF IInv
  <2> QED
    BY <1>0, <1>a, <2>1 DEF CanConnect
<1>2. /\ waiting' \subseteq 1 .. n' /\ interrupted' \subseteq 1 .. n'
      /\ \A w \in waiting' : w \in interrupted \/ w = n'
  <2>1. \A w \in Reaped : w \in interrupted
    BY <1>a DEF IInv, CallbacksOK, Reaped
  <2>2. interrupted \subseteq 1 .. n /\ waiting \subseteq 1 .. n
    BY BasicTypes DEF IInv
  <2>3. interrupted \subseteq 1 .. n'
    BY <1>0, <2>2
  <2> QED
    BY <1>0, <1>a, <2>1, <2>3
<1>3. TypeOK'
  BY <1>a, <1>0, <1>1, <1>2, NewGroupType DEF IInv, TypeOK
<1>4. r \in Messages /\ RequestOK(r)'
  <2>1. r.call \in [op : {"set_group", "remove_group", "set", "get"}, group : Groups \cup {""},
                    key : Keys \cup {Null}, type : Types \cup {"STRING"}, value : Values \cup {Null}]
    BY CallShape, NewGroupType DEF IInv
  <2>2. client' \in Nat
    BY <1>0, <1>1
  <2>3. r \in Messages
    BY <1>0, <2>1, <2>2 DEF Messages
  <2>4. r.id = n' /\ r.call.op = c.op /\ r.call.group = Key(c) /\ r.call.key = c.key
        /\ r.call.type = c.type /\ r.call.value = c.value
    BY CallShape
  <2>5. r.call.op \in {"set_group", "remove_group"} => r.call.group \in Groups
    BY <2>4, NewGroupType DEF IInv
  <2>6. /\ r.call.op \in {"set", "get"} => r.call.key \in Keys /\ r.call.type \in Types
        /\ r.call.op = "set" => r.call.value \in Values
    BY <2>4, CallShape
  <2>7. n' <= n'
    BY <1>0
  <2>8. RequestOK(r)'
    BY <1>a, <2>4, <2>5, <2>6, <2>7 DEF RequestOK
  <2> QED
    BY <2>3, <2>8
<1>5. /\ \A i \in 1 .. Len(up) : up[i] \in Messages /\ up[i].id \in Nat /\ up[i].id <= n
      /\ up \in Seq(Messages)
      /\ \A i \in 1 .. Len(up) : RequestOK(up[i])
  BY QueueFacts DEF IInv
<1>6. /\ \A i \in 1 .. Len(down) : down[i] \in Replies /\ down[i].id \in Nat /\ down[i].id <= n
      /\ down \in Seq(Replies)
      /\ \A i \in 1 .. Len(down) : AnswerOK(down[i])
  BY QueueFacts DEF IInv
<1>7. /\ Len(up') = Len(up) + 1 /\ Len(up) \in Nat
      /\ \A i \in 1 .. Len(up) : up'[i] = up[i]
      /\ up'[Len(up) + 1] = r /\ r.id = n'
      /\ up' \in Seq(Messages)
  BY <1>a, <1>4, <1>5
<1>8. ASSUME NEW i \in 1 .. Len(up')
      PROVE  (i \in 1 .. Len(up) /\ up'[i] = up[i]) \/ (i = Len(up) + 1 /\ up'[i] = r)
  <2> PICK m : m = Len(up)
    OBVIOUS
  <2>0. i \in 1 .. m + 1 /\ m \in Nat
    BY <1>7
  <2>1. i \in 1 .. m \/ i = m + 1
    BY <2>0
  <2>2. (\A j \in 1 .. m : up'[j] = up[j]) /\ up'[m + 1] = r
    BY <1>7
  <2>3. (i \in 1 .. m /\ up'[i] = up[i]) \/ (i = m + 1 /\ up'[i] = r)
    BY <2>1, <2>2
  <2> QED
    BY <2>3
<1>9. QueuesOK'
  <2>1. ASSUME NEW x \in Messages, RequestOK(x), x.id <= n, x.id \in Nat
        PROVE  RequestOK(x)'
    BY <1>0, <2>1 DEF RequestOK
  <2>2. ASSUME NEW x \in Replies, AnswerOK(x), x.id <= n, x.id \in Nat
        PROVE  AnswerOK(x)'
    BY <1>0, <1>a, <2>2 DEF AnswerOK
  <2>3. \A i \in 1 .. Len(up') : RequestOK(up[i])'
    BY <1>4, <1>5, <1>8, <2>1
  <2>4. \A i \in 1 .. Len(down') : AnswerOK(down[i])'
    BY <1>a, <1>6, <2>2
  <2> QED
    BY <1>a, <1>6, <1>7, <2>3, <2>4 DEF QueuesOK, Messages, Replies
<1>10. InOrder'
  <2>1. \A i, j \in 1 .. Len(up') : i < j => up'[i].id < up'[j].id
    <3> SUFFICES ASSUME NEW i \in 1 .. Len(up'), NEW j \in 1 .. Len(up'), i < j
                 PROVE  up'[i].id < up'[j].id
      OBVIOUS
    <3>1. i \in 1 .. Len(up) /\ up'[i] = up[i]
      BY <1>7
    <3>2. CASE j \in 1 .. Len(up) /\ up'[j] = up[j]
      BY <3>1, <3>2 DEF IInv, InOrder
    <3>3. CASE j = Len(up) + 1 /\ up'[j] = r
      BY <1>0, <1>5, <1>7, <3>1, <3>3
    <3> QED
      BY <1>8, <3>2, <3>3
  <2>2. \A i, j \in 1 .. Len(down') : i < j => down'[i].id < down'[j].id
    BY <1>a DEF IInv, InOrder
  <2>3. \A i \in 1 .. Len(down'), j \in 1 .. Len(up') : down'[i].id < up'[j].id
    <3> SUFFICES ASSUME NEW i \in 1 .. Len(down), NEW j \in 1 .. Len(up')
                 PROVE  down[i].id < up'[j].id
      BY <1>a
    <3>1. CASE j \in 1 .. Len(up) /\ up'[j] = up[j]
      BY <3>1 DEF IInv, InOrder
    <3>2. CASE j = Len(up) + 1 /\ up'[j] = r
      BY <1>0, <1>6, <1>7, <3>2
    <3> QED
      BY <1>8, <3>1, <3>2
  <2> QED
    BY <2>1, <2>2, <2>3 DEF InOrder
<1>11. CallbacksOK' /\ DataOK'
  BY <1>a, <1>b, <1>0, <1>1, <1>2 DEF IInv, CallbacksOK, DataOK
<1>12. LastOK' /\ OwnAnswer'
  <2>1. OwnAnswer'
    BY <1>a DEF IInv, OwnAnswer
  <2>2. ASSUME last # Null, last.from # 0
        PROVE  last.from \in 1 .. n' /\ \A i \in 1 .. Len(up') : last.from < up'[i].id
    <3>1. last.from \in 1 .. n /\ \A i \in 1 .. Len(up) : last.from < up[i].id
      BY <2>2 DEF IInv, LastOK
    <3>2. last.from < r.id /\ last.from \in 1 .. n'
      BY <1>0, <1>7, <3>1
    <3> QED
      BY <1>8, <3>1, <3>2
  <2> QED
    BY <1>a, <2>1, <2>2 DEF LastOK
<1> QED
  BY <1>3, <1>9, <1>10, <1>11, <1>12 DEF IInv

(* A call hears the answer to itself or to one whose wait a signal ended.   *)
LEMMA HearsItself ==
  ASSUME IInv, call # Null, NEW noted \in Hears
  PROVE  \/ noted = Nothing
         \/ \E i \in 1 .. Len(down) :
              noted = Noted(i) /\ (down[i].id = n \/ down[i].id \in interrupted)
<1>1. DOMAIN down = 1 .. Len(down)
  BY QueueFacts DEF IInv
<1>2. \A i \in Run : i \in 1 .. Len(down) /\ (down[i].id = n \/ down[i].id \in interrupted)
  BY <1>1 DEF Run, Reaped, IInv, CallbacksOK
<1>3. noted = Nothing \/ \E i \in Run : noted = Noted(i)
  BY DEF Hears, Own
<1> QED
  BY <1>2, <1>3

(* The end of a call that has been sent.                                    *)
LEMMA EndingKeeps ==
  ASSUME IInv, NEW sync \in BOOLEAN, NEW noted, NEW kept, NEW old,
         call # Null, n' = n, Ends(call, sync, noted, kept, old),
         UNCHANGED <<_group, running, up, groups, db, done, crashes>>,
         interrupted' = interrupted \/ interrupted' = interrupted \cup {n},
         kept \subseteq waiting, old \subseteq kept,
         live => \A w \in kept \ old : w \in interrupted',
         noted = Nothing \/ (sync /\ noted \in Hears)
  PROVE  IInv'
<1>0. /\ n \in Nat /\ n' = n /\ n <= n' /\ n \in 0 .. MaxCalls /\ n \in 1 .. MaxCalls
      /\ UNCHANGED <<running, up, groups, db, done, crashes>>
  BY BasicTypes DEF IInv, CallbacksOK
<1>1. /\ call' = Null
      /\ last'.id = n' /\ last'.call = call /\ last'.from = noted.from
      /\ sync /\ noted.status = "ok" => last'.errno = "saved"
      /\ sync /\ noted.status = "failed" => last'.errno # "saved"
      /\ call.op = "get" /\ noted.value # Null => last'.value = noted.value
      /\ _client_disconnect \/ Keep(kept, old)
  BY EndShape
<1>2. /\ client' \in 0 .. n'
      /\ waiting' \subseteq 1 .. n' /\ expired' \subseteq waiting'
      /\ live' => client' # 0 /\ running'
      /\ down' = << >> \/ down' = down
      /\ CallbacksOK'
  <2>1. kept \subseteq 1 .. n' /\ (client = 0 => kept = {})
    BY <1>0, BasicTypes DEF IInv, CallbacksOK
  <2> QED
    BY <1>0, <1>1, <2>1, EndTypes
<1>a. interrupted' \subseteq 1 .. n' /\ interrupted \subseteq interrupted'
  BY <1>0, BasicTypes DEF IInv
<1>3. TypeOK'
  BY <1>0, <1>a, <1>1, <1>2 DEF IInv, TypeOK
<1>4. QueuesOK'
  BY <1>0, <1>1, <1>2, QueuesKept DEF IInv
<1>5. InOrder'
  <2>1. CASE down' = down
    BY <1>0, <2>1 DEF IInv, InOrder
  <2>2. CASE down' = << >>
    BY <1>0, <2>2 DEF IInv, InOrder
  <2> QED
    BY <1>2, <2>1, <2>2
<1>6. CallbacksOK' /\ DataOK'
  BY <1>0, <1>2 DEF IInv, DataOK
<1>7. CASE noted = Nothing
  <2>1. last'.from = 0
    BY <1>1, <1>7 DEF Nothing
  <2> QED
    BY <1>3, <1>4, <1>5, <1>6, <2>1 DEF IInv, LastOK, OwnAnswer
<1>8. ASSUME sync, NEW i \in 1 .. Len(down), noted = Noted(i),
             down[i].id = n \/ down[i].id \in interrupted
      PROVE  LastOK' /\ OwnAnswer'
  <2> PICK a : a = down[i]
    OBVIOUS
  <2>1. /\ a \in Replies /\ a.ok \in BOOLEAN /\ a.value \in Values \cup {Null}
        /\ AnswerOK(a) /\ a.id \in Nat /\ a.id \in 1 .. n
    <3>1. down[i] \in Replies /\ AnswerOK(down[i]) /\ down[i].id <= n
      BY QueueFacts DEF IInv
    <3>2. AnswerOK(a)
      BY <3>1 DEF AnswerOK
    <3>3. \A k \in Ids : k \in Nat /\ k >= 1
      BY TypesAssumption DEF Ids
    <3>4. a \in Replies /\ a.id <= n
      BY <3>1
    <3>5. a.id \in Ids /\ a.ok \in BOOLEAN /\ a.value \in Values \cup {Null}
      BY <3>4 DEF Replies
    <3>6. a.id \in Nat /\ a.id \in 1 .. n
      BY <1>0, <3>3, <3>4, <3>5
    <3> QED
      BY <3>2, <3>4, <3>5, <3>6
  <2>2. /\ done[a.id] = [ok |-> a.ok, value |-> a.value]
        /\ a.id = n /\ call.op = "get" /\ a.ok => a.value \in Values
    BY <2>1 DEF AnswerOK
  <2>3. /\ noted.status = (IF a.ok THEN "ok" ELSE "failed") /\ noted.from = a.id
        /\ a.id = n => noted.value = a.value
    BY <1>8 DEF Noted
  <2>4. done[a.id] # Null
    BY <2>1, <2>2, NullAssumption DEF Deeds
  <2>5. (last'.errno = "saved") = done[a.id].ok
    BY <1>1, <1>8, <2>1, <2>2, <2>3
  <2>6. a.id = n /\ call.op = "get" /\ done[a.id].ok => last'.value = done[a.id].value
    BY <1>1, <2>2, <2>3, NullAssumption
  <2>7. last'.from = a.id /\ (a.id = n \/ a.id \in interrupted')
    BY <1>1, <1>8, <1>a, <2>3
  <2>8. OwnAnswer'
    BY <1>0, <1>1, <2>4, <2>5, <2>6, <2>7 DEF OwnAnswer
  <2>9. \A j \in 1 .. Len(up) : a.id < up[j].id
    BY DEF IInv, InOrder
  <2>10. LastOK'
    BY <1>0, <2>1, <2>7, <2>9 DEF LastOK
  <2> QED
    BY <2>8, <2>10
<1> QED
  BY <1>3, <1>4, <1>5, <1>6, <1>7, <1>8, HearsItself DEF IInv

LEMMA RespondKeeps ==
  ASSUME IInv, Respond
  PROVE  IInv'
<1> PICK noted \in Hears : Ends(call, TRUE, noted, {}, {})
  BY DEF Respond
<1>1. /\ call # Null /\ n' = n /\ interrupted' = interrupted
      /\ UNCHANGED <<_group, running, up, groups, db, done, crashes>>
  BY DEF Respond, daemon
<1>2. {} \subseteq waiting /\ \A w \in {} \ {} : w \in interrupted'
  OBVIOUS
<1> QED
  BY <1>1, <1>2, EndingKeeps, Zenon

LEMMA UnansweredKeeps ==
  ASSUME IInv, TimesOut \/ EndOfStream \/ Interrupted
  PROVE  IInv'
<1>1. /\ call # Null /\ n' = n
      /\ UNCHANGED <<_group, running, up, groups, db, done, crashes>>
  BY DEF TimesOut, EndOfStream, Interrupted, daemon
<1>2. expired \subseteq waiting
  BY BasicTypes DEF IInv
<1> PICK w : w = waiting
  OBVIOUS
<1> PICK e : e = expired
  OBVIOUS
<1>3. CASE TimesOut
  <2>1. Ends(call, FALSE, Nothing, w, w) /\ interrupted' = interrupted
    BY <1>3 DEF TimesOut, Ends, SetInt32Ends, Keep
  <2> QED
    BY <1>1, <2>1, EndingKeeps
<1>4. CASE EndOfStream
  <2> PICK k : k = w \ e
    OBVIOUS
  <2> PICK none : none = {}
    OBVIOUS
  <2>1. Ends(call, FALSE, Nothing, k, none) /\ interrupted' = interrupted
    BY <1>4 DEF EndOfStream, Ends, SetInt32Ends, Keep, Reaped
  <2>2. k \subseteq waiting /\ none \subseteq k
    OBVIOUS
  <2>3. ~live
    BY <1>4 DEF EndOfStream
  <2> QED
    BY <1>1, <2>1, <2>2, <2>3, EndingKeeps, Zenon
<1>5. CASE Interrupted
  <2>1. Ends(call, FALSE, Nothing, w, e) /\ interrupted' = interrupted \cup {n}
    BY <1>5 DEF Interrupted, Ends, SetInt32Ends, Keep
  <2>2. \A x \in w \ e : x \in interrupted'
    BY <1>1, <2>1 DEF IInv, CallbacksOK
  <2>3. w \subseteq waiting /\ e \subseteq w
    BY <1>2
  <2> QED
    BY <1>1, <2>1, <2>2, <2>3, EndingKeeps, Zenon
<1> QED
  BY <1>3, <1>4, <1>5

LEMMA ExpireKeeps ==
  ASSUME IInv, Expire
  PROVE  IInv'
<1>1. UNCHANGED <<client, _group, call, waiting, interrupted, last, n, live, down, running, up,
                  groups, db, done>>
  BY DEF Expire, daemon
<1>2. expired \subseteq expired' /\ expired' \subseteq waiting
  <2>1. expired \subseteq waiting
    BY BasicTypes DEF IInv
  <2> PICK k \in waiting \ expired : expired' = expired \cup {w \in waiting : w <= k}
    BY DEF Expire
  <2> QED
    BY <2>1
<1>3. TypeOK' /\ CallbacksOK'
  <2>1. TypeOK'
    BY <1>1, <1>2 DEF IInv, TypeOK
  <2>2. CallbacksOK'
    BY <1>1, <1>2 DEF IInv, CallbacksOK
  <2> QED
    BY <2>1, <2>2
<1>4. QueuesOK'
  BY <1>1 DEF IInv, QueuesOK, RequestOK, AnswerOK, Messages, Replies
<1>5. InOrder' /\ LastOK' /\ DataOK' /\ OwnAnswer'
  BY <1>1 DEF IInv, InOrder, LastOK, DataOK, OwnAnswer
<1> QED
  BY <1>3, <1>4, <1>5 DEF IInv

(* What the daemon does with a request is for a call later than all that    *)
(* it has answered.                                                         *)
LEMMA AnswerKeeps ==
  ASSUME IInv, up # << >>, NEW ok \in BOOLEAN, NEW value \in Values \cup {Null},
         Answer(Head(up), ok, value), Head(up).call.op = "get" /\ ok => value \in Values
  PROVE  QueuesOK' /\ InOrder' /\ CallbacksOK' /\ LastOK' /\ OwnAnswer' /\ done' \in [Ids -> Deeds \cup {Null}]
<1> PICK r : r = up[1]
  OBVIOUS
<1> PICK a : a = [id |-> r.id, ok |-> ok, value |-> value]
  OBVIOUS
<1>0. /\ up \in Seq(Messages) /\ down \in Seq(Replies)
      /\ \A i \in 1 .. Len(up) :
           up[i] \in Messages /\ up[i].id \in Nat /\ up[i].id \in Ids /\ up[i].id <= n
      /\ \A i \in 1 .. Len(up) : RequestOK(up[i])
      /\ \A i \in 1 .. Len(down) :
           down[i] \in Replies /\ down[i].id \in Nat /\ down[i].id \in Ids /\ down[i].id <= n
      /\ \A i \in 1 .. Len(down) : AnswerOK(down[i])
  BY QueueFacts DEF IInv
<1>1. /\ Head(up) = r /\ 1 \in 1 .. Len(up) /\ Len(up) \in Nat
      /\ Len(Tail(up)) = Len(up) - 1 /\ Tail(up) \in Seq(Messages)
      /\ \A i \in 1 .. Len(up) - 1 : Tail(up)[i] = up[i + 1]
  BY <1>0
<1>2. /\ done' = [done EXCEPT ![r.id] = [ok |-> ok, value |-> value]]
      /\ down' = Append(down, a) \/ down' = down
      /\ up' = Tail(up)
      /\ UNCHANGED <<library, live, running, crashes>>
  BY <1>1 DEF Answer
<1>3. UNCHANGED <<client, call, waiting, expired, interrupted, last, n>>
  BY <1>2 DEF library
<1>4. r \in Messages /\ r.id \in Ids /\ r.id \in Nat /\ r.id <= n /\ RequestOK(r)
  BY <1>0, <1>1
<1>5. /\ done \in [Ids -> Deeds \cup {Null}]
      /\ done'[r.id] = [ok |-> ok, value |-> value]
      /\ \A i \in Ids : i # r.id => done'[i] = done[i]
  BY <1>2, <1>4 DEF IInv, DataOK
<1>6. done' \in [Ids -> Deeds \cup {Null}]
  BY <1>2, <1>4, <1>5 DEF Deeds
<1>7. a \in Replies /\ AnswerOK(a)'
  <2>1. a \in Replies /\ a.id = r.id /\ a.ok = ok /\ a.value = value
    BY <1>4 DEF Replies
  <2>2. call # Null /\ a.id = n /\ call.op = "get" /\ a.ok => a.value \in Values
    BY <1>1, <1>4, <2>1 DEF RequestOK
  <2> QED
    BY <1>3, <1>4, <1>5, <2>1, <2>2 DEF AnswerOK
<1>8. \A i \in 1 .. Len(up') : i + 1 \in 1 .. Len(up) /\ up'[i] = up[i + 1]
  BY <1>1, <1>2
<1>9. /\ down' \in Seq(Replies)
      /\ \A i \in 1 .. Len(down') :
           (i \in 1 .. Len(down) /\ down'[i] = down[i]) \/ (i = Len(down) + 1 /\ down'[i] = a)
  <2>1. CASE down' = down
    <3>1. \A i \in 1 .. Len(down') : i \in 1 .. Len(down) /\ down'[i] = down[i]
      BY <2>1
    <3>2. down' \in Seq(Replies)
      BY <1>0, <2>1
    <3> QED
      BY <3>1, <3>2
  <2>2. CASE down' = Append(down, a)
    <3> PICK m : m = Len(down)
      OBVIOUS
    <3>1. /\ Len(down') = m + 1 /\ m \in Nat /\ down' \in Seq(Replies)
          /\ \A i \in 1 .. m : down'[i] = down[i]
          /\ down'[m + 1] = a
      BY <1>0, <1>7, <2>2
    <3>2. ASSUME NEW i \in 1 .. m + 1
          PROVE  (i \in 1 .. m /\ down'[i] = down[i]) \/ (i = m + 1 /\ down'[i] = a)
      <4>1. i \in 1 .. m \/ i = m + 1
        BY <3>1
      <4>2. (\A j \in 1 .. m : down'[j] = down[j]) /\ down'[m + 1] = a
        BY <3>1
      <4> QED
        BY <4>1, <4>2
    <3>3. Len(down') = m + 1 /\ down' \in Seq(Replies)
      BY <3>1
    <3> QED
      BY <3>2, <3>3
  <2> QED
    BY <1>2, <2>1, <2>2
<1>10. QueuesOK'
  <2>1. ASSUME NEW x \in Messages, RequestOK(x)
        PROVE  RequestOK(x)'
    BY <1>3, <2>1 DEF RequestOK
  <2>2. ASSUME NEW x \in Replies, AnswerOK(x), x.id \in Ids, x.id # r.id
        PROVE  AnswerOK(x)'
    BY <1>3, <1>5, <2>2 DEF AnswerOK
  <2>3. \A i \in 1 .. Len(up') : RequestOK(up[i])'
    BY <1>0, <1>8, <2>1
  <2>4. ASSUME NEW i \in 1 .. Len(down)
        PROVE  AnswerOK(down[i]) /\ down[i] \in Replies /\ down[i].id \in Ids /\ down[i].id # r.id
    <3>1. down[i].id < r.id
      BY <1>1 DEF IInv, InOrder
    <3> QED
      BY <1>0, <1>4, <3>1
  <2>5. \A x \in Replies : (\E i \in 1 .. Len(down) : x = down[i]) => AnswerOK(x)'
    BY <2>2, <2>4
  <2>6. \A i \in 1 .. Len(down') : AnswerOK(down[i])'
    BY <1>0, <1>7, <1>9, <2>5
  <2> QED
    BY <1>1, <1>2, <1>9, <2>3, <2>6 DEF QueuesOK, Messages, Replies
<1>11. InOrder'
  <2>1. \A i, j \in 1 .. Len(up') : i < j => up'[i].id < up'[j].id
    <3> SUFFICES ASSUME NEW i \in 1 .. Len(up'), NEW j \in 1 .. Len(up'), i < j
                 PROVE  up'[i].id < up'[j].id
      OBVIOUS
    <3>1. i + 1 < j + 1
      OBVIOUS
    <3> QED
      BY <1>8, <3>1 DEF IInv, InOrder
  <2>2. \A i, j \in 1 .. Len(down') : i < j => down'[i].id < down'[j].id
    <3> SUFFICES ASSUME NEW i \in 1 .. Len(down'), NEW j \in 1 .. Len(down'), i < j
                 PROVE  down'[i].id < down'[j].id
      OBVIOUS
    <3>0. Len(down) \in Nat
      BY <1>0
    <3>1. i \in 1 .. Len(down) /\ down'[i] = down[i]
      <4>1. j <= Len(down) + 1
        BY <1>9, <3>0
      <4> QED
        BY <1>9, <3>0, <4>1
    <3>2. CASE j \in 1 .. Len(down) /\ down'[j] = down[j]
      BY <3>1, <3>2 DEF IInv, InOrder
    <3>3. CASE down'[j] = a
      BY <1>1, <3>1, <3>3 DEF IInv, InOrder
    <3> QED
      BY <1>9, <3>2, <3>3
  <2>3. \A i \in 1 .. Len(down'), j \in 1 .. Len(up') : down'[i].id < up'[j].id
    <3> SUFFICES ASSUME NEW i \in 1 .. Len(down'), NEW j \in 1 .. Len(up')
                 PROVE  down'[i].id < up'[j].id
      OBVIOUS
    <3>1. CASE i \in 1 .. Len(down) /\ down'[i] = down[i]
      BY <1>8, <3>1 DEF IInv, InOrder
    <3>2. CASE down'[i] = a
      <4>1. 1 < j + 1
        OBVIOUS
      <4> QED
        BY <1>1, <1>8, <3>2, <4>1 DEF IInv, InOrder
    <3> QED
      BY <1>9, <3>1, <3>2
  <2> QED
    BY <2>1, <2>2, <2>3 DEF InOrder
<1>12. CallbacksOK'
  BY <1>2, <1>3 DEF IInv, CallbacksOK
<1>13. LastOK' /\ OwnAnswer'
  <2>1. LastOK'
    BY <1>3, <1>8 DEF IInv, LastOK
  <2>2. ASSUME last # Null, last.from # 0
        PROVE  done'[last.from] = done[last.from]
    <3>1. last.from \in 1 .. n /\ last.from < r.id
      BY <1>1, <2>2 DEF IInv, LastOK
    <3>2. last.from \in Ids /\ last.from # r.id
      <4>1. n \in 0 .. MaxCalls /\ MaxCalls \in Nat
        BY BasicTypes DEF IInv
      <4> QED
        BY <1>4, <3>1, <4>1 DEF Ids
    <3> QED
      BY <1>5, <3>2
  <2>3. OwnAnswer'
    BY <1>3, <2>2 DEF IInv, OwnAnswer
  <2> QED
    BY <2>1, <2>3
<1> QED
  BY <1>6, <1>10, <1>11, <1>12, <1>13

LEMMA ServeKeeps ==
  ASSUME IInv, Serve
  PROVE  IInv'
<1> PICK r : r = Head(up)
  OBVIOUS
<1>0. running /\ up # << >> /\ (Refuse(r) \/ ServeGroup(r) \/ ServeKey(r))
  BY DEF Serve
<1>1. r \in Messages /\ RequestOK(r)
  <2>1. up \in Seq(Messages) /\ \A i \in 1 .. Len(up) : RequestOK(up[i])
    BY QueueFacts DEF IInv
  <2>2. 1 \in 1 .. Len(up) /\ Head(up) = up[1] /\ Head(up) \in Messages
    BY <1>0, <2>1
  <2> QED
    BY <2>1, <2>2
<1>2. ASSUME NEW ok \in BOOLEAN, NEW value \in Values \cup {Null},
             Answer(r, ok, value), r.call.op = "get" /\ ok => value \in Values,
             groups' \subseteq Groups,
             db' \in [Groups \X Keys -> [type : Types, value : Values] \cup {Null}]
      PROVE  IInv'
  <2>1. /\ QueuesOK' /\ InOrder' /\ CallbacksOK' /\ LastOK' /\ OwnAnswer'
        /\ done' \in [Ids -> Deeds \cup {Null}]
    BY <1>0, <1>2, AnswerKeeps
  <2>2. UNCHANGED <<library, live, running>>
    BY <1>2 DEF Answer
  <2>3. TypeOK'
    BY <1>2, <2>2 DEF IInv, TypeOK, library
  <2>4. DataOK'
    BY <1>2, <2>1 DEF DataOK
  <2> QED
    BY <2>1, <2>3, <2>4 DEF IInv
<1>3. /\ groups \subseteq Groups
      /\ db \in [Groups \X Keys -> [type : Types, value : Values] \cup {Null}]
  BY DEF IInv, TypeOK, DataOK
<1>4. CASE Refuse(r)
  BY <1>2, <1>3, <1>4 DEF Refuse
<1>5. CASE ServeGroup(r)
  <2>1. /\ Answer(r, TRUE, Null) /\ db' = db /\ r.call.op # "get"
        /\ groups' = groups \cup {r.call.group} \/ groups' = groups \ {r.call.group}
    BY <1>5 DEF ServeGroup
  <2>2. r.call.group \in Groups
    BY <1>1, <1>5 DEF ServeGroup, RequestOK
  <2>3. groups' \subseteq Groups
    BY <1>3, <2>1, <2>2
  <2> QED
    BY <1>2, <1>3, <2>1, <2>3
<1>6. CASE ServeKey(r)
  <2>1. /\ groups' = groups /\ r.call.group \in Groups
        /\ r.call.op \in {"set", "get"}
    BY <1>3, <1>6 DEF ServeKey
  <2>2. /\ r.call.key \in Keys /\ r.call.type \in Types
        /\ Place(r) \in Groups \X Keys
    BY <1>1, <2>1 DEF RequestOK, Place
  <2>3. CASE r.call.op = "set" /\ db' = [db EXCEPT ![Place(r)] = Stored(r)] /\ Answer(r, TRUE, Null)
    <3>1. Stored(r) \in [type : Types, value : Values]
      BY <1>1, <2>2, <2>3 DEF RequestOK, Stored
    <3>2. db' \in [Groups \X Keys -> [type : Types, value : Values] \cup {Null}]
      BY <1>3, <2>2, <2>3, <3>1
    <3> QED
      BY <1>2, <1>3, <2>1, <2>3, <3>2
  <2>4. CASE /\ r.call.op = "get" /\ db[Place(r)] # Null
             /\ Answer(r, TRUE, db[Place(r)].value) /\ db' = db
    <3>1. db[Place(r)] \in [type : Types, value : Values]
      BY <1>3, <2>2, <2>4
    <3>2. db[Place(r)].value \in Values
      BY <3>1
    <3> QED
      BY <1>2, <1>3, <2>1, <2>4, <3>2
  <2> QED
    BY <1>6, <2>3, <2>4 DEF ServeKey
<1> QED
  BY <1>0, <1>4, <1>5, <1>6

LEMMA CrashKeeps ==
  ASSUME IInv, Crash
  PROVE  IInv'
<1>1. /\ running' = FALSE /\ live' = FALSE /\ up' = << >>
      /\ UNCHANGED <<library, down, groups, db, done>>
  BY DEF Crash
<1>2. UNCHANGED <<client, _group, call, waiting, expired, interrupted, last, n>>
  BY <1>1 DEF library
<1>3. TypeOK'
  BY <1>1, <1>2 DEF IInv, TypeOK
<1>4. QueuesOK'
  <2>1. down \in Seq(Replies) /\ \A i \in 1 .. Len(down) : AnswerOK(down[i])
    BY DEF IInv, QueuesOK
  <2>2. \A i \in 1 .. Len(down) : AnswerOK(down[i])'
    BY <1>1, <1>2, <2>1 DEF AnswerOK
  <2>3. up' \in Seq(Messages) /\ Len(up') = 0
    BY <1>1
  <2> QED
    BY <1>1, <2>1, <2>2, <2>3 DEF QueuesOK, Messages, Replies
<1>5. InOrder' /\ LastOK'
  <2>1. Len(up') = 0
    BY <1>1
  <2>2. InOrder'
    BY <1>1, <2>1 DEF IInv, InOrder
  <2>3. LastOK'
    BY <1>2, <2>1 DEF IInv, LastOK
  <2> QED
    BY <2>2, <2>3
<1>6. CallbacksOK' /\ DataOK' /\ OwnAnswer'
  BY <1>1, <1>2 DEF IInv, CallbacksOK, DataOK, OwnAnswer
<1> QED
  BY <1>3, <1>4, <1>5, <1>6 DEF IInv

LEMMA RestartKeeps ==
  ASSUME IInv, Restart
  PROVE  IInv'
<1>1. /\ running' = TRUE /\ UNCHANGED <<library, live, up, down, groups, db, done>>
  BY DEF Restart
<1>2. UNCHANGED <<client, _group, call, waiting, expired, interrupted, last, n>>
  BY <1>1 DEF library
<1>3. TypeOK'
  BY <1>1, <1>2 DEF IInv, TypeOK
<1>4. QueuesOK'
  BY <1>1, <1>2 DEF IInv, QueuesOK, RequestOK, AnswerOK, Messages, Replies
<1>5. InOrder' /\ LastOK' /\ CallbacksOK' /\ DataOK' /\ OwnAnswer'
  BY <1>1, <1>2 DEF IInv, InOrder, LastOK, CallbacksOK, DataOK, OwnAnswer
<1> QED
  BY <1>3, <1>4, <1>5 DEF IInv

-----------------------------------------------------------------------------
(* Together                                                                 *)

LEMMA NextKeeps == IInv /\ [Next]_vars => IInv'
<1> SUFFICES ASSUME IInv, [Next]_vars
             PROVE  IInv'
  OBVIOUS
<1>1. CASE \E c \in Calls : NotConnected(c) \/ Begin(c)
  <2> PICK c \in Calls : NotConnected(c) \/ Begin(c)
    BY <1>1
  <2> QED
    BY NotConnectedKeeps, DeadBeginKeeps, SentBeginKeeps
<1>2. CASE Respond \/ TimesOut \/ EndOfStream \/ Interrupted \/ Expire
  BY <1>2, RespondKeeps, UnansweredKeeps, ExpireKeeps
<1>3. CASE Serve \/ Crash \/ Restart
  BY <1>3, ServeKeeps, CrashKeeps, RestartKeeps
<1>4. CASE UNCHANGED vars
  <2>1. UNCHANGED <<client, _group, call, waiting, expired, interrupted, last, n, running, up, groups, db,
                    done, live, down>>
    BY <1>4 DEF vars, library, daemon
  <2>2. TypeOK' /\ InOrder' /\ LastOK' /\ CallbacksOK' /\ DataOK' /\ OwnAnswer'
    BY <2>1 DEF IInv, TypeOK, InOrder, LastOK, CallbacksOK, DataOK, OwnAnswer
  <2>3. QueuesOK'
    BY <2>1 DEF IInv, QueuesOK, RequestOK, AnswerOK, Messages, Replies
  <2> QED
    BY <2>2, <2>3 DEF IInv
<1> QED
  BY <1>1, <1>2, <1>3, <1>4 DEF Next

(* The invariant is kept by every call, whatever the daemon does.           *)
THEOREM SimpleInductive == Spec => []IInv
<1> QED
  BY InitKeeps, NextKeeps, PTL DEF Spec

(* Every variable of the simple library and of its daemon keeps its type,   *)
(* and a connection that is open belongs to a daemon that runs.             *)
THEOREM SimpleTypes == Spec => []TypeOK
<1>1. IInv => TypeOK
  BY DEF IInv
<1> QED
  BY <1>1, SimpleInductive, PTL

(* What a call reports is what the daemon did with this very call, or with  *)
(* one whose wait a signal ended before and whose callback is still young   *)
(* (shared/protocol.c:152-172, 419-425): the late answer of a call that     *)
(* timed out is never taken for it, however late it comes.                  *)
THEOREM AnswersAreOwn == Spec => []OwnAnswer
<1>1. IInv => OwnAnswer
  BY DEF IInv
<1> QED
  BY <1>1, SimpleInductive, PTL
=============================================================================
