----------------------------- MODULE BuxtonClient -----------------------------
(***************************************************************************)
(* The client library: libbuxton's calls and protocol.c.  The threads of   *)
(* one process share one connection, the counter of message ids and the    *)
(* tables callbacks and notify_callbacks; callback_guard protects the      *)
(* tables, so a critical section is one step.  A call leaves a frame on    *)
(* the stack of its thread, because the callback of a CHANGED message runs *)
(* with the mutex released and may call the library again.                 *)
(*                                                                         *)
(* Only the thread Reader reads the connection (synchronous calls and      *)
(* buxton_client_handle_response): header and body are read one after the  *)
(* other, and nothing keeps two readers from taking each other's bytes.    *)
(* The daemon, at the end of two channels, is Serve, Announce and Hangup.  *)
(*                                                                         *)
(* A message is whole when it is read.  The daemon writes it with one      *)
(* write, of at most half a socket's buffer, which the kernel takes as a   *)
(* whole or not at all.  Were it to come in parts, a read that finds no    *)
(* more of it would throw away the part it has (protocol.c:348-351), and   *)
(* what comes later would be taken for a header: see EventLoop for the     *)
(* same code in the daemon.                                                *)
(***************************************************************************)
EXTENDS Naturals, Sequences

CONSTANTS
  Threads,      \* threads of the process
  Reader,       \* the one that reads the connection
  Keys,         \* keys a client may register for
  TIMEOUT,      \* seconds after which a callback is dropped
  PollTimeout,  \* seconds a synchronous call waits for the socket
  StrayReads,   \* what list[2] may be in the reply to UNNOTIFY: it has two parameters
  MaxRequests,  \* bound: requests made by the process
  MaxTime,      \* bound: seconds that pass
  MaxDepth,     \* bound: calls nested in callbacks
  MaxQueue,     \* bound: messages on their way to the client
  Null

Ids == 0 .. MaxRequests - 1
Statuses == {"ok", "refused"}

(* What a call returns: 0, -1, or the -1 of a call whose poll failed.       *)
Results == {"success", "failure", "interrupted"}

(* A GET stands for every request whose reply goes to its callback.         *)
Calls == [type : {"GET", "NOTIFY", "UNNOTIFY"}, key : Keys, sync : BOOLEAN]

(* struct notify_value: the time the request was made, and what it was.     *)
NotifyValue == [call : Calls, tv : Nat]

ASSUME ClientLibraryAssumption ==
  /\ Reader \in Threads
  /\ TIMEOUT \in Nat /\ PollTimeout \in Nat
  /\ MaxRequests \in Nat /\ MaxTime \in Nat /\ MaxDepth \in Nat /\ MaxQueue \in Nat
  /\ StrayReads \subseteq Ids \cup {Null}
  /\ Null \notin Ids /\ Null \notin Statuses /\ Null \notin Calls /\ Null \notin NotifyValue
  /\ Null \notin Results

VARIABLES
  open,              \* whether the process holds a connection
  msgid,             \* _msgid, the next id
  callbacks,         \* id -> NotifyValue or Null
  notify_callbacks,  \* likewise, for registrations
  stack,             \* per thread, its calls in progress, innermost first
  now,               \* the clock
  requests,          \* messages on their way to the daemon
  responses,         \* messages on their way to the client
  hungup,            \* the daemon has closed the connection
  registered,        \* daemon: per key, the ids of this client's registrations
  made,              \* history: id -> the NotifyValue it was sent with
  said,              \* history: what the daemon decided on each request
  done,              \* history: with which status each request ended here
  result,            \* history: what each call returned
  ended,             \* history: registrations ended by an UNNOTIFY that succeeded
  strayed            \* history: registrations whose callback a stray read dropped

connection == <<open, hungup, requests, responses, registered>>
tables == <<callbacks, notify_callbacks>>
history == <<made, said, done, result, ended, strayed>>
vars == <<connection, tables, msgid, stack, now, history>>

-----------------------------------------------------------------------------
(* Frames.  at is where the call stands: before the locked part of          *)
(* send_message, before its _write, in poll, in the loop of                 *)
(* buxton_wire_handle_response, or in a callback that this loop runs.       *)
Frame == [at : {"put", "write", "poll", "read", "callback"},
          id : Ids \cup {Null},        \* the request; Null for handle_response
          call : Calls \cup {Null},
          since : Nat,                 \* nv->tv, then when poll began
          handled : BOOLEAN]           \* whether a message was handled

Top(t) == Head(stack[t])
At(t, place) == stack[t] # <<>> /\ Top(t).at = place
Push(t, f) == stack' = [stack EXCEPT ![t] = <<f>> \o @]
Become(t, f) == stack' = [stack EXCEPT ![t] = <<f>> \o Tail(@)]
Return(t) == stack' = [stack EXCEPT ![t] = Tail(@)]

(* The application's own code runs: no call in progress, or in a callback.  *)
Running(t) == stack[t] # <<>> => Top(t).at = "callback"

TypeOK ==
  /\ open \in BOOLEAN /\ hungup \in BOOLEAN
  /\ msgid \in 0 .. MaxRequests
  /\ callbacks \in [Ids -> NotifyValue \cup {Null}]
  /\ notify_callbacks \in [Ids -> NotifyValue \cup {Null}]
  /\ stack \in [Threads -> Seq(Frame)]
  /\ now \in Nat
  /\ requests \in Seq([id : Ids, call : Calls])
  /\ responses \in Seq([msg : {"STATUS", "CHANGED"}, id : Ids,
                        status : Statuses, ended : Ids \cup {Null}])
  /\ registered \in [Keys -> Seq(Ids)]
  /\ made \in [Ids -> NotifyValue \cup {Null}]
  /\ said \in [Ids -> Statuses \cup {Null}]
  /\ done \in [Ids -> Statuses \cup {Null}]
  /\ result \in [Ids -> Results \cup {Null}]
  /\ ended \in SUBSET Ids /\ strayed \in SUBSET Ids

Nobody == [i \in Ids |-> Null]

Init ==
  /\ open = FALSE /\ hungup = FALSE
  /\ msgid = 0 /\ now = 0
  /\ callbacks = Nobody /\ notify_callbacks = Nobody
  /\ stack = [t \in Threads |-> <<>>]
  /\ requests = <<>> /\ responses = <<>>
  /\ registered = [k \in Keys |-> <<>>]
  /\ made = Nobody /\ said = Nobody /\ done = Nobody /\ result = Nobody
  /\ ended = {} /\ strayed = {}

-----------------------------------------------------------------------------
(* buxton_open; while the tables exist setup_callbacks fails and a second   *)
(* connection is refused.                                                   *)
Open ==
  /\ ~open
  /\ open' = TRUE
  /\ UNCHANGED <<hungup, requests, responses, registered, tables, msgid, stack, now, history>>

(* buxton_close, by an application none of whose threads is in the library. *)
Close ==
  /\ open
  /\ \A t \in Threads : stack[t] = <<>>
  /\ open' = FALSE /\ hungup' = FALSE
  /\ callbacks' = Nobody /\ notify_callbacks' = Nobody
  /\ requests' = <<>> /\ responses' = <<>>
  /\ registered' = [k \in Keys |-> <<>>]
  /\ UNCHANGED <<msgid, stack, now, history>>

(* get_msgid, an atomic increment.                                          *)
NextMsgidRaced == \* mutant: another thread has read the counter already
  IF \E t \in Threads : At(t, "put") THEN msgid ELSE msgid + 1

NextMsgid == msgid + 1

(* reap_callbacks: table without the entries that are too old.              *)
ReapedEarly(table) == \* mutant: an entry of TIMEOUT seconds is too old
  [i \in Ids |-> IF table[i] # Null /\ now - table[i].tv >= TIMEOUT THEN Null ELSE table[i]]

Reaped(table) ==
  [i \in Ids |-> IF table[i] # Null /\ now - table[i].tv > TIMEOUT THEN Null ELSE table[i]]

(* A function buxton_wire_* up to the call of get_msgid, the message it     *)
(* makes and the time send_message notes before it waits for the mutex.     *)
Call(t, call) ==
  /\ open
  /\ Running(t)
  /\ call.sync => t = Reader
  /\ Len(stack[t]) < MaxDepth
  /\ msgid < MaxRequests
  /\ msgid' = NextMsgid
  /\ Push(t, [at |-> "put", id |-> msgid, call |-> call, since |-> now, handled |-> FALSE])
  /\ UNCHANGED <<connection, tables, now, history>>

(* The calls of the API, once their arguments are found valid.  A request   *)
(* for data is one to get, set, unset, label, list, create or remove; its   *)
(* key plays no role here.                                                  *)
RequestData(t, key, sync) == Call(t, [type |-> "GET", key |-> key, sync |-> sync])

RegisterNotification(t, key, sync) ==
  Call(t, [type |-> "NOTIFY", key |-> key, sync |-> sync])

UnregisterNotification(t, key, sync) ==
  Call(t, [type |-> "UNNOTIFY", key |-> key, sync |-> sync])

(* send_message under the mutex.                                            *)
Put(t) ==
  /\ At(t, "put")
  /\ LET id == Top(t).id
         nv == [call |-> Top(t).call, tv |-> Top(t).since]
     IN  /\ callbacks' = [Reaped(callbacks) EXCEPT ![id] = nv]
         /\ made' = [made EXCEPT ![id] = nv]
  /\ Become(t, [Top(t) EXCEPT !.at = "write"])
  /\ UNCHANGED <<connection, notify_callbacks, msgid, now, said, done, result, ended, strayed>>

(* The rest of send_message.  If the write fails the entry stays.           *)
WriteFails(t) ==
  /\ At(t, "write") /\ hungup
  /\ result' = [result EXCEPT ![Top(t).id] = "failure"]
  /\ Return(t)
  /\ UNCHANGED <<connection, tables, msgid, now, made, said, done, ended, strayed>>

Write(t) ==
  /\ At(t, "write") /\ ~hungup
  /\ requests' = Append(requests, [id |-> Top(t).id, call |-> Top(t).call])
  /\ IF Top(t).call.sync
     THEN /\ Become(t, [Top(t) EXCEPT !.at = "poll", !.since = now])
          /\ UNCHANGED result
     ELSE /\ result' = [result EXCEPT ![Top(t).id] = "success"]
          /\ Return(t)
  /\ UNCHANGED <<open, hungup, responses, registered, tables, msgid, now, made, said, done, ended, strayed>>

(* buxton_wire_get_response: poll says that there is something to read, and *)
(* buxton_wire_handle_response begins by reaping.                           *)
PollReady(t) ==
  /\ At(t, "poll")
  /\ responses # <<>> \/ hungup
  /\ callbacks' = Reaped(callbacks)
  /\ Become(t, [Top(t) EXCEPT !.at = "read", !.since = 0])
  /\ UNCHANGED <<connection, notify_callbacks, msgid, now, history>>

PollTimesOutEarly(t) == \* mutant: it waits no longer than the entry may live
  /\ At(t, "poll")
  /\ responses = <<>> /\ ~hungup
  /\ now - Top(t).since >= TIMEOUT
  /\ result' = [result EXCEPT ![Top(t).id] = "failure"]
  /\ Return(t)
  /\ UNCHANGED <<connection, tables, msgid, now, made, said, done, ended, strayed>>

PollTimesOut(t) ==
  /\ At(t, "poll")
  /\ responses = <<>> /\ ~hungup
  /\ now - Top(t).since >= PollTimeout
  /\ result' = [result EXCEPT ![Top(t).id] = "failure"]
  /\ Return(t)
  /\ UNCHANGED <<connection, tables, msgid, now, made, said, done, ended, strayed>>

(* poll returns an error before anything came, EINTR: the call fails at     *)
(* once and its entry stays in the table.                                   *)
PollFails(t) ==
  /\ At(t, "poll")
  /\ responses = <<>> /\ ~hungup
  /\ result' = [result EXCEPT ![Top(t).id] = "interrupted"]
  /\ Return(t)
  /\ UNCHANGED <<connection, tables, msgid, now, made, said, done, ended, strayed>>

(* buxton_client_handle_response, called by the application.                *)
HandleResponse(t) ==
  /\ open
  /\ t = Reader /\ Running(t)
  /\ Len(stack[t]) < MaxDepth
  /\ callbacks' = Reaped(callbacks)
  /\ Push(t, [at |-> "read", id |-> Null, call |-> Null, since |-> 0, handled |-> FALSE])
  /\ UNCHANGED <<connection, notify_callbacks, msgid, now, history>>

(* Mutant: the loop goes on until it has handled a message.                 *)
ReadNothingInsists(t) ==
  /\ At(t, "read") /\ responses = <<>> /\ Top(t).handled
  /\ result' = IF Top(t).id = Null THEN result
               ELSE [result EXCEPT ![Top(t).id] = "success"]
  /\ Return(t)
  /\ UNCHANGED <<connection, tables, msgid, now, made, said, done, ended, strayed>>

(* read has nothing more: handle_response returns, and with it the          *)
(* synchronous call, which succeeds if any message was handled.  That this  *)
(* is so between two messages only is the assumption of the header.         *)
ReadNothing(t) ==
  /\ At(t, "read") /\ responses = <<>>
  /\ result' = IF Top(t).id = Null THEN result
               ELSE [result EXCEPT ![Top(t).id] =
                       IF Top(t).handled THEN "success" ELSE "failure"]
  /\ Return(t)
  /\ UNCHANGED <<connection, tables, msgid, now, made, said, done, ended, strayed>>

(* A message is read: it leaves the socket and counts as handled.           *)
Take(t) ==
  /\ At(t, "read") /\ responses # <<>>
  /\ responses' = Tail(responses)
  /\ UNCHANGED <<open, hungup, requests, registered, msgid, now, made, said, result>>

Answer == Head(responses)
Handled(t) == Become(t, [Top(t) EXCEPT !.handled = TRUE])

(* handle_callback_response: the reply to a request nobody remembers.       *)
ReadLateAnswer(t) ==
  /\ Take(t)
  /\ Answer.msg = "STATUS" /\ callbacks[Answer.id] = Null
  /\ Handled(t)
  /\ UNCHANGED <<tables, done, ended, strayed>>

(* The entry of a request whose answer is there leaves the table.           *)
WithoutKept(table, id) == table \* mutant: hashmap_get for hashmap_remove
Without(table, id) == [table EXCEPT ![id] = Null]

(* handle_callback_response: the reply to a request that waits.  Its        *)
(* callback runs here, under the mutex and so without calling the library,  *)
(* unless a registration succeeded or ended.                                *)
ReadAnswer(t) ==
  /\ Take(t)
  /\ Answer.msg = "STATUS" /\ callbacks[Answer.id] # Null
  /\ LET nv == callbacks[Answer.id]
         success(type) == nv.call.type = type /\ Answer.status = "ok"
     IN  /\ \/ /\ success("NOTIFY")
               /\ notify_callbacks' = [notify_callbacks EXCEPT ![Answer.id] = nv]
               /\ UNCHANGED <<ended, strayed>>
            \/ /\ success("UNNOTIFY")
               /\ \E stray \in StrayReads :
                    /\ notify_callbacks' = [i \in Ids |-> IF i = stray THEN Null
                                                          ELSE notify_callbacks[i]]
                    /\ strayed' = strayed \cup ({stray} \cap Ids)
               /\ ended' = ended \cup {Answer.ended}
            \/ /\ ~success("NOTIFY") /\ ~success("UNNOTIFY")
               /\ UNCHANGED <<notify_callbacks, ended, strayed>>
  /\ callbacks' = Without(callbacks, Answer.id)
  /\ done' = [done EXCEPT ![Answer.id] = Answer.status]
  /\ Handled(t)

(* handle_callback_response: CHANGED for a registration that is not known.  *)
ReadUnknownChanged(t) ==
  /\ Take(t)
  /\ Answer.msg = "CHANGED" /\ notify_callbacks[Answer.id] = Null
  /\ Handled(t)
  /\ UNCHANGED <<tables, done, ended, strayed>>

(* handle_callback_response: the callback of a registration starts ...      *)
ReadChanged(t) ==
  /\ Take(t)
  /\ Answer.msg = "CHANGED" /\ notify_callbacks[Answer.id] # Null
  /\ Become(t, [Top(t) EXCEPT !.at = "callback"])
  /\ UNCHANGED <<tables, done, ended, strayed>>

(* ... and returns.                                                         *)
CallbackReturns(t) ==
  /\ At(t, "callback")
  /\ Become(t, [Top(t) EXCEPT !.at = "read", !.handled = TRUE])
  /\ UNCHANGED <<connection, tables, msgid, now, history>>

Tick ==
  /\ now < MaxTime
  /\ now' = now + 1
  /\ UNCHANGED <<connection, tables, msgid, stack, history>>

-----------------------------------------------------------------------------
(* The daemon.  It serves the messages of a connection in their order.      *)
StatusMissing(id, status, n) == \* mutant: the status is not put in the list
  [msg |-> "STATUS", id |-> id, status |-> Null, ended |-> n]

Status(id, status, n) == [msg |-> "STATUS", id |-> id, status |-> status, ended |-> n]

(* The daemon decides on request r, and its reply is on its way.            *)
Decide(r, status, n) ==
  /\ said' = [said EXCEPT ![r.id] = status]
  /\ responses' = Append(responses, Status(r.id, status, n))

(* unregister_notification: the client's first registration on the key.     *)
(* Mutant: it stays.                                                        *)
ServeUnnotifyKeeps(r) ==
  LET list == registered[r.call.key] IN
  IF list = <<>>
  THEN Decide(r, "refused", Null) /\ UNCHANGED registered
  ELSE Decide(r, "ok", Head(list)) /\ UNCHANGED registered

ServeUnnotify(r) ==
  LET list == registered[r.call.key] IN
  IF list = <<>>
  THEN Decide(r, "refused", Null) /\ UNCHANGED registered
  ELSE /\ Decide(r, "ok", Head(list))
       /\ registered' = [registered EXCEPT ![r.call.key] = Tail(@)]

(* register_notification.  Mutant: it registers before it asks Smack.       *)
ServeNotifyFirst(r) ==
  /\ \E status \in Statuses : Decide(r, status, Null)
  /\ registered' = [registered EXCEPT ![r.call.key] = Append(@, r.id)]

ServeNotify(r) ==
  \/ Decide(r, "refused", Null) /\ UNCHANGED registered
  \/ /\ Decide(r, "ok", Null)
     /\ registered' = [registered EXCEPT ![r.call.key] = Append(@, r.id)]

Serve ==
  /\ open /\ ~hungup /\ requests # <<>>
  /\ requests' = Tail(requests)
  /\ LET r == Head(requests) IN
     \/ /\ r.call.type = "GET"
        /\ \E status \in Statuses : Decide(r, status, Null)
        /\ UNCHANGED registered
     \/ r.call.type = "NOTIFY" /\ ServeNotify(r)
     \/ r.call.type = "UNNOTIFY" /\ ServeUnnotify(r)
  /\ UNCHANGED <<open, hungup, tables, msgid, stack, now, made, done, result, ended, strayed>>

(* The walk of buxtond_notify_clients tells some registrations.             *)
Announce ==
  /\ open /\ ~hungup
  /\ Len(responses) < MaxQueue
  /\ \E k \in Keys : \E n \in 1 .. Len(registered[k]) :
       responses' = Append(responses, [msg |-> "CHANGED", id |-> registered[k][n],
                                       status |-> "ok", ended |-> Null])
  /\ UNCHANGED <<open, hungup, requests, registered, tables, msgid, stack, now, history>>

(* The daemon stops or gives up the client.  What it wrote can be read.     *)
Hangup ==
  /\ open /\ ~hungup
  /\ hungup' = TRUE
  /\ requests' = <<>>
  /\ registered' = [k \in Keys |-> <<>>]
  /\ UNCHANGED <<open, responses, tables, msgid, stack, now, history>>

-----------------------------------------------------------------------------
Reading(t) ==
  \/ ReadNothing(t) \/ ReadLateAnswer(t) \/ ReadAnswer(t)
  \/ ReadUnknownChanged(t) \/ ReadChanged(t)

Next ==
  \/ Open \/ Close \/ Tick
  \/ Serve \/ Announce \/ Hangup
  \/ \E t \in Threads :
       \/ \E key \in Keys, sync \in BOOLEAN :
            \/ RequestData(t, key, sync)
            \/ RegisterNotification(t, key, sync)
            \/ UnregisterNotification(t, key, sync)
       \/ Put(t) \/ Write(t) \/ WriteFails(t)
       \/ PollReady(t) \/ PollTimesOut(t) \/ PollFails(t)
       \/ HandleResponse(t) \/ Reading(t) \/ CallbackReturns(t)

Spec == Init /\ [][Next]_vars

-----------------------------------------------------------------------------
(* Properties.                                                              *)

(* How a request stands, as the abstract specification sees it.             *)
Outcome(i) ==
  IF made[i] = Null THEN "unmade"
  ELSE IF done[i] # Null THEN done[i]
  ELSE IF callbacks[i] # Null THEN "waiting"
  ELSE "forgotten"

Abstract == INSTANCE Requests WITH outcome <- [i \in Ids |-> Outcome(i)]

(* The library keeps the promise of Requests: the callback of a request     *)
(* runs at most once, with the daemon's reply to this request and no other. *)
KeepsRequests == Abstract!Spec

(* The answer of the daemon is dropped only if it comes more than TIMEOUT   *)
(* seconds after the request (protocol.c:168): an entry is in the table     *)
(* before its answer can come, and no other thread takes it away.           *)
AnswersInTimeAreTaken ==
  [][\A t \in Threads :
       ReadLateAnswer(t) => now - made[Answer.id].tv > TIMEOUT]_vars

(* A change the daemon announces finds the callback of its registration,    *)
(* unless the reply to the registration came too late to be taken, or the   *)
(* id read outside a reply to UNNOTIFY was this one (protocol.c:251-304):   *)
(* replies and changes come in the daemon's order.                          *)
ChangesAreHeard ==
  [][\A t \in Threads :
       ReadUnknownChanged(t) => done[Answer.id] = Null \/ Answer.id \in strayed]_vars

(* Once the reply to UNNOTIFY has been handled, the callback of the         *)
(* registration it ended does not start again (daemon.c:978-1070).          *)
SilentAfterUnnotify ==
  [][\A t \in Threads : ReadChanged(t) => Answer.id \notin ended]_vars

(* A synchronous call that got its request out, and whose wait no signal    *)
(* interrupted, fails only because the daemon is gone or because nothing    *)
(* came for PollTimeout seconds (lbuxton.c:164-171, protocol.c:410-430).    *)
FailsForAReason ==
  [][\A i \in Ids : result'[i] = "failure" /\ result[i] = Null
       => hungup \/ (responses = <<>> /\ now - made[i].tv >= PollTimeout)]_vars

(* buxton_get_value.3:54-60: the callback is called on completion of the    *)
(* operation.  A synchronous call that returned 0 has completed.            *)
SuccessMeansDone ==
  \A i \in Ids : result[i] = "success" /\ made[i].call.sync => done[i] # Null

(* test/check_buxton.c:669-677: after the reply to UNNOTIFY the callback of *)
(* the registration is gone.                                                *)
UnnotifyForgets == \A i \in ended : notify_callbacks[i] = Null

-----------------------------------------------------------------------------
(* Liveness.  Threads run, the daemon serves, callbacks of the application  *)
(* return, and it calls buxton_client_handle_response when poll reports     *)
(* the connection readable, as the manual pages show.                       *)
Fairness ==
  /\ WF_vars(Serve)
  /\ WF_vars(responses # <<>> /\ HandleResponse(Reader))
  /\ \A t \in Threads :
       WF_vars(Put(t) \/ Write(t) \/ WriteFails(t) \/ PollReady(t) \/ Reading(t))
  /\ SF_vars(CallbackReturns(Reader))

FairSpec == Spec /\ Fairness

(* Every request is answered or forgotten, unless the daemon goes away.     *)
RequestsEnd ==
  \A i \in Ids : callbacks[i] # Null ~> callbacks[i] = Null \/ hungup

(* Every call returns, if changes are not announced without end.            *)
CallsReturn ==
  <>[][~Announce]_vars => \A t \in Threads : []<>(stack[t] = <<>>)
===============================================================================
