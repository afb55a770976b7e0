------------------------------ MODULE EventLoop ------------------------------
(***************************************************************************)
(* The main loop of buxtond: poll, the scan of the descriptors it found    *)
(* ready, accept, handle_client and its reads, and the end of a client     *)
(* (core/main.c, core/daemon.c).  What a request does to the databases and *)
(* the registry is BuxtonDaemon; here a message is its number.             *)
(*                                                                         *)
(* A client slot is a descriptor: a connection ends and the next one gets  *)
(* the slot again.  Its byte stream is counted in units, of which one is a *)
(* header and MsgLen a message, so unit k begins a message iff             *)
(* k % MsgLen = 1, and the units the kernel holds for the daemon are those *)
(* from taken[c] + 1 to sent[c].  A payload read as a header gives any     *)
(* size, and never a message that deserializes.                            *)
(***************************************************************************)
EXTENDS Naturals, Sequences, FiniteSets, SequencesExt

CONSTANTS
  Clients,      \* client slots: descriptors of accepted sockets
  MsgLen,       \* units of a message, the header included
  Messages,     \* bound: [Clients -> messages it sends over one connection]
  MaxGarbage,   \* bound: size a payload that is read as a header may claim
  MessageLimit, \* messages of one client served in a row, 32 in the code
  RecvBuffer,   \* units the kernel holds towards the daemon, per connection
  ReplyBuffer,  \* messages the kernel holds towards a client
  MaxFds,       \* clients the daemon may have open before accept fails
  Outside       \* what comes from outside: "TERM", "RULES" or both

ASSUME LoopAssumption ==
  /\ MsgLen \in Nat /\ MsgLen > 1 /\ Messages \in [Clients -> Nat] /\ MaxGarbage \in Nat
  /\ MessageLimit \in Nat \ {0} /\ RecvBuffer \in Nat \ {0}
  /\ ReplyBuffer \in Nat \ {0} /\ MaxFds \in Nat
  /\ Outside \subseteq {"TERM", "RULES"}
  /\ Clients \cap {"signal", "listen", "smack"} = {}

VARIABLES
  pollfds,      \* self.pollfds and self.accepting, in step: [fd, revents, accepting]
  client_list,  \* self.client_list, the latest client first
  leftover,     \* leftover_messages
  pc,           \* where the daemon is
  i,            \* the index of the scan
  offset,       \* cl->offset of the client at i
  size,         \* cl->size of the client at i
  limit,        \* message_limit
  towrite,      \* clients the daemon still writes to, the sender first
  cred,         \* cl->cred: "unknown", those of the connection ("own") or of
                \* one that had the slot before ("former")
  backlog,      \* connections not accepted yet
  conn,         \* the client's end: "none", "up", "down"
  sent, taken,  \* units the client wrote, units the daemon read
  outbox,       \* messages the client has not read
  signals,      \* pending in signalfd
  rules,        \* the cached Smack rules: "current", as in the file, or "stale"
  inotify,      \* events of the file's watch: "none", "pending" or "polled"
  missed,       \* history: the last change of the file is one whose event was
                \* thrown away, or that came before the watch
  handled,      \* history: the messages served, in order
  thrown        \* history: the messages of which a part was thrown away

Locals == <<offset, size, limit, towrite>>
daemonVars == <<pollfds, client_list, leftover, pc, i, Locals, cred>>
clientVars == <<conn, sent, outbox, backlog>>
ruleVars == <<rules, inotify, missed>>
history == <<handled, thrown>>
vars == <<daemonVars, clientVars, taken, signals, ruleVars, history>>

-----------------------------------------------------------------------------
PollFd(fd, a) == [fd |-> fd, revents |-> FALSE, accepting |-> a]

Pending(c) == sent[c] - taken[c]
MidMessage(c) == sent[c] % MsgLen # 0      \* the library's _write has not ended
MessageOf(k) == (k - 1) \div MsgLen + 1    \* the message unit k belongs to
BeginsMessage(k) == k % MsgLen = 1

(* The client the scan is at, and the first unit in its buffer.             *)
Current == pollfds[i].fd
FirstUnit == taken[Current] - offset + 1

(* The rules are read before the file is watched: a change between the two  *)
(* has no event.                                                            *)
Init ==
  /\ pollfds = <<PollFd("signal", FALSE), PollFd("listen", TRUE), PollFd("smack", FALSE)>>
  /\ client_list = << >> /\ leftover = FALSE
  /\ pc = "poll" /\ i = 1 /\ offset = 0 /\ size = 1 /\ limit = MessageLimit
  /\ towrite = << >> /\ backlog = << >>
  /\ cred = [c \in Clients |-> "unknown"]
  /\ conn = [c \in Clients |-> "none"]
  /\ sent = [c \in Clients |-> 0] /\ taken = [c \in Clients |-> 0]
  /\ outbox = [c \in Clients |-> 0]
  /\ signals = {} /\ inotify = "none"
  /\ missed \in BOOLEAN /\ (missed => "RULES" \in Outside)
  /\ rules = IF missed THEN "stale" ELSE "current"
  /\ handled = [c \in Clients |-> << >>] /\ thrown = [c \in Clients |-> {}]

-----------------------------------------------------------------------------
(* The clients.                                                             *)

(* buxton_open: a new connection takes a free slot.                         *)
Connect(c) ==
  /\ conn[c] = "none" /\ pc # "stopped"
  /\ conn' = [conn EXCEPT ![c] = "up"]
  /\ backlog' = Append(backlog, c)
  /\ sent' = [sent EXCEPT ![c] = 0] /\ taken' = [taken EXCEPT ![c] = 0]
  /\ outbox' = [outbox EXCEPT ![c] = 0]
  /\ handled' = [handled EXCEPT ![c] = << >>] /\ thrown' = [thrown EXCEPT ![c] = {}]
  /\ cred' = [cred EXCEPT ![c] = IF @ = "unknown" THEN @ ELSE "former"]
  /\ UNCHANGED <<pollfds, client_list, leftover, pc, i, Locals, signals, ruleVars>>

(* The library's _write: it goes on with a message until all of it is out.  *)
WriteUnit(c) ==
  /\ conn[c] = "up"
  /\ Pending(c) < RecvBuffer /\ sent[c] < MsgLen * Messages[c]
  /\ sent' = [sent EXCEPT ![c] = @ + 1]
  /\ UNCHANGED <<daemonVars, conn, outbox, backlog, taken, signals, ruleVars, history>>

Finish(c) == MidMessage(c) /\ WriteUnit(c)

(* A client that is in _write reads nothing.                                *)
ReadReply(c) ==
  /\ conn[c] = "up" /\ outbox[c] > 0 /\ ~MidMessage(c)
  /\ outbox' = [outbox EXCEPT ![c] = @ - 1]
  /\ UNCHANGED <<daemonVars, conn, sent, backlog, taken, signals, ruleVars, history>>

HangUp(c) ==
  /\ conn[c] = "up"
  /\ conn' = [conn EXCEPT ![c] = "down"]
  /\ UNCHANGED <<daemonVars, sent, outbox, backlog, taken, signals, ruleVars, history>>

(* The outside: a signal, a change of the rule file.                        *)
Kill ==
  /\ "TERM" \in Outside /\ pc # "stopped" /\ "TERM" \notin signals
  /\ signals' = signals \cup {"TERM"}
  /\ UNCHANGED <<daemonVars, clientVars, taken, ruleVars, history>>

ChangeRules ==
  /\ "RULES" \in Outside /\ pc # "stopped"
  /\ rules = "current" \/ inotify = "none"  \* one event stands for several
  /\ rules' = "stale"
  /\ inotify' = IF inotify = "none" THEN "pending" ELSE inotify
  /\ missed' = (pc = "discard")
  /\ UNCHANGED <<daemonVars, clientVars, taken, signals, history>>

-----------------------------------------------------------------------------
(* The daemon.                                                              *)

(* The scan goes on at the first ready entry from j on, or the loop polls.  *)
ScanFrom(fds, j) ==
  LET ready == {k \in j .. Len(fds) : fds[k].revents}
  IN  IF ready = {} THEN pc' = "poll" /\ i' = 1
                    ELSE pc' = "scan" /\ i' = CHOOSE k \in ready : \A m \in ready : k <= m

NextPoll == pc' = "poll" /\ i' = 1

ResetLocalsNot == UNCHANGED <<offset, size, limit, towrite>> \* mutant: the buffer stays
ResetLocals == offset' = 0 /\ size' = 1 /\ limit' = MessageLimit /\ towrite' = << >>

del_pollfd_last(j) == RemoveAt(pollfds, Len(pollfds)) \* mutant: the wrong entry goes

add_pollfd(fd, a) == Append(pollfds, PollFd(fd, a))
del_pollfd(j) == RemoveAt(pollfds, j)

(* What poll finds: it reports data, and an end of stream, until they are read. *)
ReadyIfOpen(fd) == \* mutant: POLLHUP is not looked at
  CASE fd = "signal" -> signals # {}
    [] fd = "listen" -> backlog # << >>
    [] fd = "smack"  -> inotify # "none"
    [] OTHER         -> Pending(fd) > 0

ReadyIfTold(fd) == \* mutant: data that was there before is not reported again
  CASE fd = "signal" -> signals # {}
    [] fd = "listen" -> backlog # << >>
    [] fd = "smack"  -> inotify # "none"
    [] OTHER         -> Pending(fd) = 1 \/ conn[fd] = "down"

Ready(fd) ==
  CASE fd = "signal" -> signals # {}
    [] fd = "listen" -> backlog # << >>
    [] fd = "smack"  -> inotify # "none"
    [] OTHER         -> Pending(fd) > 0 \/ conn[fd] = "down"

Poll ==
  LET fds == [k \in 1 .. Len(pollfds) |->
                [pollfds[k] EXCEPT !.revents = Ready(pollfds[k].fd)]]
  IN  /\ pc = "poll"
      /\ leftover \/ \E k \in 1 .. Len(fds) : fds[k].revents
      /\ leftover' = FALSE
      /\ pollfds' = fds
      /\ inotify' = IF inotify = "pending" THEN "polled" ELSE inotify
      /\ IF fds[1].revents THEN pc' = "signal" /\ i' = 1 ELSE ScanFrom(fds, 2)
      /\ UNCHANGED <<client_list, Locals, cred, clientVars, taken, signals, rules, missed, history>>

(* The process ends, and its end of every connection with it.               *)
Exit ==
  /\ pc' = "stopped" /\ i' = 1
  /\ pollfds' = << >> /\ client_list' = << >>
  /\ conn' = [c \in Clients |-> IF conn[c] = "up" THEN "down" ELSE conn[c]]

ReadSignalDrains == \* mutant: signalfd is emptied to look at one signal
  /\ pc = "signal" /\ signals' = {}
  /\ \E s \in signals :
       /\ IF s = "TERM"
          THEN Exit
          ELSE ScanFrom(pollfds, 2) /\ UNCHANGED <<pollfds, client_list, conn>>
  /\ UNCHANGED <<leftover, Locals, cred, sent, outbox, backlog, taken, ruleVars, history>>

(* One pending signal is read; SIGPIPE is only taken note of.               *)
ReadSignal ==
  /\ pc = "signal"
  /\ \E s \in signals :
       /\ signals' = signals \ {s}
       /\ IF s = "TERM"
          THEN Exit
          ELSE ScanFrom(pollfds, 2) /\ UNCHANGED <<pollfds, client_list, conn>>
  /\ UNCHANGED <<leftover, Locals, cred, sent, outbox, backlog, taken, ruleVars, history>>

(* The rules are read again; a file that cannot be opened or read ends the  *)
(* daemon.                                                                  *)
RereadRules ==
  /\ pc = "scan" /\ Current = "smack"
  /\ \/ /\ rules' = "current" /\ pc' = "discard"
        /\ UNCHANGED <<i, pollfds, client_list, conn>>
     \/ Exit /\ UNCHANGED rules
  /\ UNCHANGED <<leftover, Locals, cred, sent, outbox, backlog, taken, signals, inotify, missed,
                 history>>

(* Then the events are discarded, those of a later change included.         *)
DiscardEvents ==
  /\ pc = "discard"
  /\ inotify' = "none"
  /\ ScanFrom(pollfds, i + 1)
  /\ UNCHANGED <<pollfds, client_list, leftover, Locals, cred, clientVars, taken, signals, rules,
                 missed, history>>

AcceptOldItem == \* mutant: the client's structure is not cleared
  /\ pc = "scan" /\ pollfds[i].accepting
  /\ IF Len(client_list) < MaxFds
     THEN /\ backlog' = Tail(backlog)
          /\ client_list' = <<Head(backlog)>> \o client_list
          /\ pollfds' = add_pollfd(Head(backlog), FALSE)
     ELSE UNCHANGED <<backlog, client_list, pollfds>>
  /\ NextPoll
  /\ UNCHANGED <<leftover, Locals, cred, conn, sent, outbox, taken, signals, ruleVars, history>>

(* After one accept, and after one that failed, the loop polls again.       *)
Accept ==
  /\ pc = "scan" /\ pollfds[i].accepting
  /\ IF Len(client_list) < MaxFds
     THEN /\ backlog' = Tail(backlog)
          /\ client_list' = <<Head(backlog)>> \o client_list
          /\ pollfds' = add_pollfd(Head(backlog), FALSE)
          /\ cred' = [cred EXCEPT ![Head(backlog)] = "unknown"]
     ELSE UNCHANGED <<backlog, client_list, pollfds, cred>>
  /\ NextPoll
  /\ UNCHANGED <<leftover, Locals, conn, sent, outbox, taken, signals, ruleVars, history>>

(* terminate_client: the entries behind the client's move down, and the     *)
(* scan goes on one further.                                                *)
Terminate ==
  /\ pollfds' = del_pollfd(i)
  /\ client_list' = RemoveFirst(client_list, Current)
  /\ conn' = [conn EXCEPT ![Current] = "none"]
  /\ ScanFrom(pollfds', i + 1)
  /\ ResetLocals
  /\ UNCHANGED <<leftover, cred>>

(* handle_client: the peek; a client that is not known yet is identified.   *)
HandleClient ==
  /\ pc = "scan" /\ Current \in Clients
  /\ IF Pending(Current) = 0
     THEN Terminate
     ELSE /\ pc' = "read"
          /\ cred' = [cred EXCEPT ![Current] = IF @ = "unknown" THEN "own" ELSE @]
          /\ UNCHANGED <<pollfds, client_list, leftover, i, Locals, conn>>
  /\ UNCHANGED <<sent, outbox, backlog, taken, signals, ruleVars, history>>

(* read: the header, then what is there of the rest of the message.         *)
Take(n) ==
  /\ taken' = [taken EXCEPT ![Current] = @ + n]
  /\ UNCHANGED <<sent, outbox, backlog, signals, ruleVars, thrown>>

ReadHeader ==
  /\ pc = "read" /\ offset = 0 /\ Pending(Current) > 0
  /\ Take(1)
  /\ IF BeginsMessage(taken[Current] + 1)
     THEN /\ offset' = 1 /\ size' = MsgLen
          /\ UNCHANGED <<pollfds, client_list, leftover, pc, i, limit, towrite, cred, conn>>
     ELSE \E claimed \in 0 .. MaxGarbage :
            IF claimed < 2        \* refused, or complete and no message
            THEN Terminate
            ELSE /\ offset' = 1 /\ size' = claimed
                 /\ UNCHANGED <<pollfds, client_list, leftover, pc, i, limit, towrite, cred, conn>>
  /\ UNCHANGED handled

(* buxtond_handle_message of a whole message: a reply to its sender and, if *)
(* a value changed, a notification to another client that registered.       *)
ReadBody ==
  LET n == IF size - offset <= Pending(Current) THEN size - offset ELSE Pending(Current)
  IN  /\ pc = "read" /\ offset > 0 /\ Pending(Current) > 0
      /\ Take(n)
      /\ IF offset + n < size
         THEN /\ offset' = offset + n
              /\ UNCHANGED <<pollfds, client_list, leftover, pc, i, size, limit, towrite, cred,
                             conn, handled>>
         ELSE IF BeginsMessage(FirstUnit)
         THEN /\ handled' = [handled EXCEPT ![Current] = Append(@, MessageOf(FirstUnit))]
              /\ \E others \in {<< >>} \cup {<<d>> : d \in ToSet(client_list) \ {Current}} :
                   towrite' = <<Current>> \o others
              /\ pc' = "write" /\ offset' = 0 /\ size' = 1
              /\ UNCHANGED <<pollfds, client_list, leftover, i, limit, cred, conn>>
         ELSE Terminate /\ UNCHANGED handled

(* No more data for now: what was read of a message is thrown away.         *)
Cleanup ==
  /\ pc = "read" /\ Pending(Current) = 0
  /\ thrown' = [thrown EXCEPT ![Current] =
                  @ \cup {MessageOf(k) : k \in FirstUnit .. taken[Current]}]
  /\ ScanFrom(pollfds, i + 1)
  /\ ResetLocals
  /\ UNCHANGED <<pollfds, client_list, leftover, cred, clientVars, taken, signals, ruleVars, handled>>

NextMessageLate == \* mutant: one message too many
  IF limit > 0
  THEN /\ limit' = limit - 1 /\ pc' = "read" /\ towrite' = << >>
       /\ UNCHANGED <<i, offset, size, leftover>>
  ELSE /\ leftover' = (leftover \/ Pending(Current) > 0)
       /\ ScanFrom(pollfds, i + 1)
       /\ ResetLocals

(* The message is done with: the next one of this client, or, after         *)
(* MessageLimit of them, the next client.                                   *)
NextMessage ==
  IF limit > 1
  THEN /\ limit' = limit - 1 /\ pc' = "read" /\ towrite' = << >>
       /\ UNCHANGED <<i, offset, size, leftover>>
  ELSE /\ leftover' = (leftover \/ Pending(Current) > 0)
       /\ ScanFrom(pollfds, i + 1)
       /\ ResetLocals

(* _write tries again as long as the receiver's buffer is full.             *)
Write ==
  LET d == Head(towrite)
  IN  /\ pc = "write"
      /\ \/ /\ conn[d] = "up" /\ outbox[d] < ReplyBuffer
            /\ outbox' = [outbox EXCEPT ![d] = @ + 1]
            /\ UNCHANGED signals
         \/ /\ conn[d] # "up" /\ signals' = signals \cup {"PIPE"}
            /\ UNCHANGED outbox
      /\ IF d = Current /\ conn[d] # "up"
         THEN Terminate
         ELSE /\ IF Len(towrite) > 1
                 THEN /\ towrite' = Tail(towrite)
                      /\ UNCHANGED <<pc, i, offset, size, limit, leftover>>
                 ELSE NextMessage
              /\ UNCHANGED <<pollfds, client_list, cred, conn>>
      /\ UNCHANGED <<sent, backlog, taken, ruleVars, history>>

-----------------------------------------------------------------------------
Daemon == \/ Poll \/ ReadSignal \/ RereadRules \/ DiscardEvents \/ Accept
          \/ HandleClient \/ ReadHeader \/ ReadBody \/ Cleanup \/ Write

(* The process has ended: any other state without a step is a deadlock.     *)
Ended == pc = "stopped" /\ UNCHANGED vars

Next == \/ Daemon \/ Kill \/ ChangeRules \/ Ended
        \/ \E c \in Clients : Connect(c) \/ WriteUnit(c) \/ ReadReply(c) \/ HangUp(c)

(* The daemon runs; a client ends the message it is in the middle of and    *)
(* reads what it is sent, or hangs up.                                      *)
Fairness ==
  /\ WF_vars(Daemon)
  /\ \A c \in Clients : WF_vars(Finish(c)) /\ WF_vars(ReadReply(c))

Spec == Init /\ [][Next]_vars
FairSpec == Spec /\ Fairness
-----------------------------------------------------------------------------
TypeOK ==
  /\ pollfds \in Seq([fd : Clients \cup {"signal", "listen", "smack"},
                      revents : BOOLEAN, accepting : BOOLEAN])
  /\ client_list \in Seq(Clients) /\ towrite \in Seq(Clients) /\ backlog \in Seq(Clients)
  /\ leftover \in BOOLEAN
  /\ rules \in {"current", "stale"} /\ inotify \in {"none", "pending", "polled"}
  /\ missed \in BOOLEAN
  /\ pc \in {"poll", "signal", "scan", "discard", "read", "write", "stopped"}
  /\ i \in Nat /\ offset \in Nat /\ size \in Nat /\ limit \in 1 .. MessageLimit
  /\ cred \in [Clients -> {"unknown", "own", "former"}]
  /\ conn \in [Clients -> {"none", "up", "down"}]
  /\ sent \in [Clients -> Nat] /\ taken \in [Clients -> Nat] /\ outbox \in [Clients -> 0 .. ReplyBuffer]
  /\ signals \subseteq {"TERM", "PIPE"}
  /\ handled \in [Clients -> Seq(Nat)] /\ thrown \in [Clients -> SUBSET Nat]

(* The poll list and the list of clients are kept apart and must agree: the *)
(* scan asserts that it finds the client of each descriptor that is not its *)
(* own, at whatever index the entries have moved to, and accepts on a       *)
(* descriptor only if it listens (core/main.c:350-361, del_pollfd).         *)
PollListAgrees ==
  pc # "stopped" =>
    /\ [k \in 1 .. 3 |-> pollfds[k].fd] = <<"signal", "listen", "smack">>
    /\ [k \in 4 .. Len(pollfds) |-> pollfds[k].fd]
         = [k \in 4 .. Len(pollfds) |-> Reverse(client_list)[k - 3]]
    /\ Len(pollfds) = Len(client_list) + 3
    /\ \A k \in 1 .. Len(pollfds) : pollfds[k].accepting <=> pollfds[k].fd = "listen"
    /\ IsInjective(backlog \o client_list)
    /\ \A c \in Clients : conn[c] # "none" <=> c \in ToSet(backlog \o client_list)

(* Messages are served in the order they were sent and none twice, and one  *)
(* that was read to its end and not served was in part thrown away, however *)
(* the client's writes and the daemon's reads interleave.                   *)
ServedInOrder ==
  \A c \in Clients :
    LET inBuffer == IF pc = "read" /\ Current = c THEN offset ELSE 0
    IN  /\ \A a, b \in DOMAIN handled[c] : a < b => handled[c][a] < handled[c][b]
        /\ conn[c] # "none" =>
             (1 .. (taken[c] - inBuffer) \div MsgLen) \subseteq ToSet(handled[c]) \cup thrown[c]
        /\ ToSet(handled[c]) \cap thrown[c] = {}

(* A message is judged by the rights of its sender as they are.  Its        *)
(* credentials are those of the connection it came over, although they are  *)
(* fetched only for a client that has none and the slot had another client  *)
(* before (identify_client, handle_smack_label).  When poll has seen a new  *)
(* rule file, the rules are read again before anybody is served, although   *)
(* the descriptors may have moved (core/main.c:284-295); rules that are not *)
(* those of the file are so because of a change poll has yet to see, or of  *)
(* one whose event the daemon missed (NoChangeIsMissed).                    *)
JudgedByRights ==
  pc \in {"read", "write"} =>
    /\ cred[Current] = "own" /\ inotify # "polled"
    /\ rules = "stale" => inotify = "pending" \/ missed

(* Watching the rule file tracks its changes (security/smack.h:78): events  *)
(* are thrown away only when the cached rules are those of the file.  Not   *)
(* so: a change between buxton_cache_smack_rules and the reads that discard *)
(* the events (core/main.c:289-294) loses its own.                          *)
NoChangeIsMissed == [][inotify # "none" /\ inotify' = "none" => rules' = "current"]_vars

(* What a client has written is read in the end: the loop does not lose an  *)
(* entry that moved into the place of one removed, does not stay with one   *)
(* client as long as that one has messages, and comes back to a client it   *)
(* left after MessageLimit messages.                                        *)
Consumed ==
  \A c \in Clients : \A k \in 1 .. MsgLen * Messages[c] :
    (conn[c] = "up" /\ sent[c] = k) ~> (taken[c] >= k \/ conn[c] # "up")

(* The slot of a client that hung up is free again in the end.              *)
Reaped == \A c \in Clients : (conn[c] = "down" ~> (conn[c] = "none" \/ pc = "stopped"))

(* SIGTERM stops the daemon, whatever signals and messages come besides.    *)
Stops == "TERM" \in signals ~> pc = "stopped"

(* A client that writes whole messages, in however many pieces, is never    *)
(* cut off: what is read of a message that has not come whole can be        *)
(* dropped, for the client sends its request again (core/daemon.c:1269).    *)
GoodClientsStay == [][\A c \in Clients : conn[c] = "up" => conn'[c] # "none"]_vars
=============================================================================
