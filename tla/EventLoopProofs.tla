--------------------------- MODULE EventLoopProofs ---------------------------
(***************************************************************************)
(* For any number of clients, lengths of messages and sizes of buffers:    *)
(* whoever is served by the main loop is judged by his own credentials and *)
(* by rules no older than the poll that found him ready (IInv); the poll   *)
(* list and the list of clients agree (ListInv); and the messages of a     *)
(* connection are served in order, each at most once, and none that came   *)
(* whole is passed over unless a part of it was thrown away (LoopInv).     *)
(***************************************************************************)
EXTENDS EventLoop, SequenceTheorems, WellFoundedInduction, TLAPS

-----------------------------------------------------------------------------
(* Sequences: an element is removed at its index, or where it first occurs. *)

LEMMA RemoveAtProperties ==
  ASSUME NEW S, NEW s \in Seq(S), NEW p \in 1..Len(s)
  PROVE  /\ RemoveAt(s, p) \in Seq(S)
         /\ Len(RemoveAt(s, p)) = Len(s) - 1
         /\ \A j \in 1..(Len(s) - 1) : RemoveAt(s, p)[j] = IF j < p THEN s[j] ELSE s[j + 1]
<1> DEFINE a == SubSeq(s, 1, p - 1)
           b == SubSeq(s, p + 1, Len(s))
<1>1. Len(s) \in Nat /\ \A j \in 1..Len(s) : s[j] \in S
  BY LenProperties, ElementOfSeq
<1>2. /\ a \in Seq(S) /\ Len(a) = p - 1
      /\ \A j \in 1..(p - 1) : a[j] = s[j]
  BY <1>1, SubSeqProperties
<1>3. /\ b \in Seq(S) /\ Len(b) = Len(s) - p
      /\ \A j \in 1..(Len(s) - p) : b[j] = s[p + j]
  <2>1. \A j \in (p + 1)..Len(s) : s[j] \in S
    BY <1>1
  <2> QED
    BY <1>1, <2>1, SubSeqProperties
<1>4. RemoveAt(s, p) = a \o b
  BY DEF RemoveAt
<1> HIDE DEF a, b
<1>5. /\ a \o b \in Seq(S)
      /\ Len(a \o b) = Len(a) + Len(b)
      /\ \A j \in 1..(Len(a) + Len(b)) : (a \o b)[j] =
            IF j <= Len(a) THEN a[j] ELSE b[j - Len(a)]
  BY <1>2, <1>3, ConcatProperties
<1>6. Len(a) = p - 1 /\ Len(a) + Len(b) = Len(s) - 1
  BY <1>1, <1>2, <1>3
<1>7. ASSUME NEW j \in 1..(Len(s) - 1)
      PROVE  (a \o b)[j] = IF j < p THEN s[j] ELSE s[j + 1]
  <2>1. (a \o b)[j] = IF j <= p - 1 THEN a[j] ELSE b[j - (p - 1)]
    BY <1>5, <1>6
  <2>2. CASE j < p
    BY <1>2, <2>1, <2>2
  <2>3. CASE ~(j < p)
    <3>1. j - (p - 1) \in 1..(Len(s) - p) /\ p + (j - (p - 1)) = j + 1
      BY <1>1, <2>3
    <3> QED
      BY <1>3, <2>1, <2>3, <3>1
  <2> QED
    BY <2>2, <2>3
<1> QED
  BY <1>4, <1>5, <1>6, <1>7

LEMMA RemoveOnly ==
  ASSUME NEW S, NEW s \in Seq(S), NEW e, NEW p \in 1 .. Len(s), s[p] = e,
         \A q \in 1 .. Len(s) : s[q] = e => q = p
  PROVE  RemoveFirst(s, e) = RemoveAt(s, p)
<1> DEFINE I == {q \in 1 .. Len(s) : s[q] = e}
<1>1. I = {p}
  OBVIOUS
<1>2. RemoveFirst(s, e) = RemoveAt(s, Min(I))
  BY <1>1 DEF RemoveFirst, SelectInSeq
<1>3. Min({p}) = p
  BY LenProperties DEF Min
<1> QED
  BY <1>1, <1>2, <1>3

Own == {"signal", "listen", "smack"}
Entries == [fd : Clients \cup Own, revents : BOOLEAN, accepting : BOOLEAN]

(* The daemon's own descriptors stay in front, and no client is on the poll *)
(* list twice, or on it and in the backlog.                                 *)
ListOK ==
  /\ pollfds \in Seq(Entries) /\ backlog \in Seq(Clients)
  /\ pc # "stopped" =>
       /\ Len(pollfds) >= 3
       /\ pollfds[1].fd = "signal" /\ pollfds[2].fd = "listen" /\ pollfds[3].fd = "smack"
  /\ \A k \in 1 .. Len(pollfds) : pollfds[k].accepting => k = 2
  /\ \A k \in 4 .. Len(pollfds) : pollfds[k].fd \in Clients
  /\ \A k, m \in 4 .. Len(pollfds) : pollfds[k].fd = pollfds[m].fd => k = m
  /\ \A k, m \in 1 .. Len(backlog) : backlog[k] = backlog[m] => k = m
  /\ \A k \in 4 .. Len(pollfds), m \in 1 .. Len(backlog) : pollfds[k].fd # backlog[m]

(* An accepted connection has its own credentials, or none yet, for the     *)
(* slot is not taken again before its entry is gone.                        *)
CredentialsOK ==
  /\ conn \in [Clients -> {"none", "up", "down"}]
  /\ cred \in [Clients -> {"unknown", "own", "former"}]
  /\ \A k \in 4 .. Len(pollfds) :
       conn[pollfds[k].fd] # "none" /\ cred[pollfds[k].fd] # "former"
  /\ \A m \in 1 .. Len(backlog) : conn[backlog[m]] # "none"

(* Where the daemon is: poll has told it of all that it has not dealt with. *)
PlaceOK ==
  /\ pc \in {"poll", "signal", "scan", "discard", "read", "write", "stopped"}
  /\ pc \in {"scan", "discard"} => i \in 2 .. Len(pollfds)
  /\ pc = "signal" /\ pollfds[2].revents => backlog # << >>
  /\ pc = "scan" /\ i = 2 => backlog # << >>
  /\ pc \in {"read", "write"} =>
       i \in 4 .. Len(pollfds) /\ cred[pollfds[i].fd] = "own" /\ inotify # "polled"
  /\ pc = "signal" /\ inotify = "polled" => pollfds[3].revents
  /\ pc = "scan" /\ inotify = "polled" => i <= 3 /\ pollfds[3].revents

IInv == ListOK /\ CredentialsOK /\ PlaceOK

-----------------------------------------------------------------------------
(* The scan.                                                                *)

LEMMA Least ==
  ASSUME NEW S \in SUBSET Nat, S # {}
  PROVE  LET k == CHOOSE k \in S : \A m \in S : k <= m
         IN  k \in S /\ \A m \in S : k <= m
<1>1. PICK k \in S : \A m \in S : ~(<<m, k>> \in OpToRel(<, Nat))
  BY NatLessThanWellFounded, WFMin
<1>2. \A m \in S : k <= m
  <2>1. TAKE m \in S
  <2>2. ~(m < k)
    BY <1>1 DEF OpToRel
  <2> QED
    BY <2>2
<1> QED
  BY <1>2

(* ScanFrom stops at the first entry that is ready, or goes back to poll.   *)
LEMMA Scan ==
  ASSUME NEW fds \in Seq(Entries), NEW j \in Nat, ScanFrom(fds, j)
  PROVE  \/ pc' = "poll"
         \/ /\ pc' = "scan" /\ i' \in j .. Len(fds) /\ fds[i'].revents
            /\ \A m \in j .. Len(fds) : fds[m].revents => i' <= m
<1> DEFINE ready == {k \in j .. Len(fds) : fds[k].revents}
<1>1. CASE ready = {}
  BY <1>1 DEF ScanFrom
<1>2. CASE ready # {}
  <2>1. ready \in SUBSET Nat
    BY LenProperties
  <2>2. pc' = "scan" /\ i' = CHOOSE k \in ready : \A m \in ready : k <= m
    BY <1>2 DEF ScanFrom
  <2> HIDE DEF ready
  <2>3. i' \in ready /\ \A m \in ready : i' <= m
    BY <1>2, <2>1, <2>2, Least
  <2> QED
    BY <2>2, <2>3 DEF ready
<1> QED
  BY <1>1, <1>2

(* The end of the client at i takes its entry off the list.                 *)
LEMMA TerminateKeeps ==
  ASSUME IInv, pc # "stopped", i \in 4 .. Len(pollfds), inotify # "polled",
         Terminate, UNCHANGED <<backlog, inotify>>
  PROVE  IInv'
<1> DEFINE n == Len(pollfds)
<1>1. /\ pollfds \in Seq(Entries) /\ n \in Nat /\ i \in 1 .. n /\ i >= 4
      /\ pollfds' = RemoveAt(pollfds, i)
  BY LenProperties DEF IInv, ListOK, Terminate, del_pollfd
<1>2. /\ pollfds' \in Seq(Entries) /\ Len(pollfds') = n - 1
      /\ \A k \in 1 .. (n - 1) : pollfds'[k] = IF k < i THEN pollfds[k] ELSE pollfds[k + 1]
  BY <1>1, RemoveAtProperties
<1> DEFINE at(k) == IF k < i THEN k ELSE k + 1
<1>3. /\ \A k \in 1 .. (n - 1) : pollfds'[k] = pollfds[at(k)] /\ at(k) \in 1 .. n /\ at(k) # i
      /\ \A k \in 1 .. 3 : at(k) = k
      /\ \A k \in 4 .. (n - 1) : at(k) \in 4 .. n
      /\ \A k, m \in 1 .. (n - 1) : at(k) = at(m) => k = m
      /\ \A k \in 1 .. (n - 1) : at(k) = 2 => k = 2
  BY <1>1, <1>2
<1>4. Current \in Clients /\ Current = pollfds[i].fd /\ conn' = [conn EXCEPT ![Current] = "none"]
      /\ cred' = cred /\ n >= 4
  BY <1>1 DEF IInv, ListOK, Terminate, Current
<1> HIDE DEF at
<1>5. ListOK'
  <2>1. pc' # "stopped" =>
          /\ Len(pollfds') >= 3
          /\ pollfds'[1].fd = "signal" /\ pollfds'[2].fd = "listen" /\ pollfds'[3].fd = "smack"
    BY <1>1, <1>2, <1>3, <1>4 DEF IInv, ListOK
  <2>2. \A k \in 1 .. Len(pollfds') : pollfds'[k].accepting => k = 2
    BY <1>1, <1>2, <1>3 DEF IInv, ListOK
  <2>3. \A k \in 4 .. Len(pollfds') : pollfds'[k].fd \in Clients
    BY <1>1, <1>2, <1>3 DEF IInv, ListOK
  <2>4. \A k, m \in 4 .. Len(pollfds') : pollfds'[k].fd = pollfds'[m].fd => k = m
    BY <1>1, <1>2, <1>3 DEF IInv, ListOK
  <2>5. \A k \in 4 .. Len(pollfds'), m \in 1 .. Len(backlog') : pollfds'[k].fd # backlog'[m]
    BY <1>1, <1>2, <1>3 DEF IInv, ListOK
  <2> QED
    BY <1>2, <2>1, <2>2, <2>3, <2>4, <2>5 DEF IInv, ListOK
<1>6. CredentialsOK'
  <2>1. ASSUME NEW k \in 4 .. Len(pollfds')
        PROVE  conn'[pollfds'[k].fd] # "none" /\ cred'[pollfds'[k].fd] # "former"
    <3>1. at(k) \in 4 .. n /\ at(k) # i /\ pollfds'[k] = pollfds[at(k)]
      BY <1>1, <1>2, <1>3
    <3>2. pollfds[at(k)].fd # Current /\ pollfds[at(k)].fd \in Clients
      BY <1>1, <1>4, <3>1 DEF IInv, ListOK
    <3> QED
      BY <1>4, <3>1, <3>2 DEF IInv, CredentialsOK
  <2>2. ASSUME NEW m \in 1 .. Len(backlog')
        PROVE  conn'[backlog'[m]] # "none"
    <3>1. backlog'[m] \in Clients /\ backlog'[m] = backlog[m] /\ backlog[m] # Current
      BY <1>1, <1>4, ElementOfSeq DEF IInv, ListOK
    <3> QED
      BY <1>4, <3>1 DEF IInv, CredentialsOK
  <2> QED
    BY <1>4, <2>1, <2>2 DEF IInv, CredentialsOK
<1>7. PlaceOK'
  <2>1. ScanFrom(pollfds', i + 1) /\ i + 1 \in Nat
    BY <1>1 DEF Terminate
  <2>2. \/ pc' = "poll"
        \/ pc' = "scan" /\ i' \in (i + 1) .. Len(pollfds')
    BY <1>2, <2>1, Scan
  <2> QED
    BY <1>1, <1>2, <2>2 DEF PlaceOK
<1> QED
  BY <1>5, <1>6, <1>7 DEF IInv

(* Steps that leave the lists alone and go on with the scan.                *)
LEMMA GoOnKeeps ==
  ASSUME IInv, pc \in {"signal", "read", "write", "scan", "discard"},
         NEW j \in 2 .. (Len(pollfds) + 1), ScanFrom(pollfds, j),
         inotify' = "polled" => j <= 3 /\ pollfds[3].revents,
         j = 2 => pc = "signal",
         UNCHANGED <<pollfds, backlog, conn, cred>>
  PROVE  IInv'
<1>1. pollfds \in Seq(Entries) /\ Len(pollfds) \in Nat /\ j \in Nat /\ j >= 2 /\ Len(pollfds) >= 3
  BY LenProperties DEF IInv, ListOK
<1>2. \/ pc' = "poll"
      \/ /\ pc' = "scan" /\ i' \in j .. Len(pollfds) /\ pollfds[i'].revents
         /\ \A m \in j .. Len(pollfds) : pollfds[m].revents => i' <= m
  BY <1>1, Scan
<1>3. ListOK' /\ CredentialsOK'
  BY <1>2 DEF IInv, ListOK, CredentialsOK
<1>4. PlaceOK'
  <2>1. CASE pc' = "poll"
    BY <2>1 DEF PlaceOK
  <2>2. CASE pc' = "scan"
    <3>1. i' \in 2 .. Len(pollfds')
      BY <1>1, <1>2, <2>2
    <3>2. i' = 2 => backlog' # << >>
      BY <1>1, <1>2, <2>2 DEF IInv, PlaceOK
    <3>3. inotify' = "polled" => i' <= 3 /\ pollfds'[3].revents
      BY <1>1, <1>2, <2>2
    <3> QED
      BY <2>2, <3>1, <3>2, <3>3 DEF PlaceOK
  <2> QED
    BY <1>2, <2>1, <2>2
<1> QED
  BY <1>3, <1>4 DEF IInv

(* Steps that touch nothing the invariant speaks of.                        *)
LEMMA OthersKeep ==
  ASSUME IInv, UNCHANGED <<pollfds, backlog, conn, cred, pc, i, inotify>>
  PROVE  IInv'
BY DEF IInv, ListOK, CredentialsOK, PlaceOK

-----------------------------------------------------------------------------
(* The actions.                                                             *)

LEMMA InitKeeps == Init => IInv
<1> SUFFICES ASSUME Init PROVE IInv
  OBVIOUS
<1>1. /\ Len(pollfds) = 3 /\ pollfds \in Seq(Entries) /\ backlog \in Seq(Clients) /\ Len(backlog) = 0
      /\ pollfds[1].fd = "signal" /\ pollfds[2].fd = "listen" /\ pollfds[3].fd = "smack"
      /\ ~pollfds[1].accepting /\ ~pollfds[3].accepting
  BY DEF Init, Entries, Own, PollFd
<1>2. \A k \in 1 .. Len(pollfds) : pollfds[k].accepting => k = 2
  <2>1. \A k \in 1 .. 3 : k = 1 \/ k = 2 \/ k = 3
    OBVIOUS
  <2> QED
    BY <1>1, <2>1
<1>3. ListOK
  BY <1>1, <1>2 DEF ListOK
<1>4. CredentialsOK
  BY <1>1 DEF Init, CredentialsOK
<1>5. PlaceOK
  BY DEF Init, PlaceOK
<1> QED
  BY <1>3, <1>4, <1>5 DEF IInv

LEMMA ConnectKeeps ==
  ASSUME IInv, NEW c \in Clients, Connect(c)
  PROVE  IInv'
<1> DEFINE n == Len(backlog)
<1>1. /\ backlog \in Seq(Clients) /\ n \in Nat /\ backlog' \in Seq(Clients) /\ Len(backlog') = n + 1
      /\ \A m \in 1 .. n : backlog'[m] = backlog[m] /\ backlog[m] \in Clients
      /\ backlog'[n + 1] = c
  BY AppendProperties, LenProperties, ElementOfSeq DEF IInv, ListOK, Connect
<1>2. /\ conn[c] = "none" /\ UNCHANGED <<pollfds, pc, i, inotify>>
      /\ conn' = [conn EXCEPT ![c] = "up"]
      /\ cred' = [cred EXCEPT ![c] = IF @ = "unknown" THEN @ ELSE "former"]
  BY DEF Connect, Locals, ruleVars
<1>3. /\ \A m \in 1 .. n : backlog[m] # c
      /\ \A k \in 4 .. Len(pollfds) : pollfds[k].fd # c /\ pollfds[k].fd \in Clients
  BY <1>2 DEF IInv, CredentialsOK, ListOK
<1>4. ListOK'
  <2>1. \A k, m \in 1 .. Len(backlog') : backlog'[k] = backlog'[m] => k = m
    BY <1>1, <1>3 DEF IInv, ListOK
  <2>2. \A k \in 4 .. Len(pollfds'), m \in 1 .. Len(backlog') : pollfds'[k].fd # backlog'[m]
    BY <1>1, <1>2, <1>3 DEF IInv, ListOK
  <2> QED
    BY <1>1, <1>2, <2>1, <2>2 DEF IInv, ListOK
<1>5. CredentialsOK'
  <2>1. \A k \in 4 .. Len(pollfds) :
          conn'[pollfds[k].fd] = conn[pollfds[k].fd] /\ cred'[pollfds[k].fd] = cred[pollfds[k].fd]
    BY <1>2, <1>3 DEF IInv, CredentialsOK
  <2>2. \A m \in 1 .. Len(backlog') : conn'[backlog'[m]] # "none"
    BY <1>1, <1>2, <1>3 DEF IInv, CredentialsOK
  <2> QED
    BY <1>2, <2>1, <2>2 DEF IInv, CredentialsOK
<1>6. PlaceOK'
  <2>1. backlog' # << >>
    BY <1>1
  <2>2. pc \in {"read", "write"} => cred'[pollfds[i].fd] = cred[pollfds[i].fd]
    BY <1>2, <1>3 DEF IInv, CredentialsOK, PlaceOK
  <2> QED
    BY <1>2, <2>1, <2>2 DEF IInv, PlaceOK
<1> QED
  BY <1>4, <1>5, <1>6 DEF IInv

LEMMA HangUpKeeps ==
  ASSUME IInv, NEW c \in Clients, HangUp(c)
  PROVE  IInv'
<1>1. /\ UNCHANGED <<pollfds, backlog, cred, pc, i, inotify>>
      /\ conn' = [conn EXCEPT ![c] = "down"]
  BY DEF HangUp, daemonVars, ruleVars
<1>2. \A d \in Clients : conn[d] # "none" => conn'[d] # "none"
  BY <1>1 DEF IInv, CredentialsOK
<1>3. CredentialsOK'
  <2>1. \A m \in 1 .. Len(backlog) : backlog[m] \in Clients
    BY LenProperties, ElementOfSeq DEF IInv, ListOK
  <2> QED
    BY <1>1, <1>2, <2>1 DEF IInv, CredentialsOK, ListOK
<1> QED
  BY <1>1, <1>3 DEF IInv, ListOK, PlaceOK

LEMMA ChangeRulesKeeps ==
  ASSUME IInv, ChangeRules
  PROVE  IInv'
<1>1. UNCHANGED <<pollfds, backlog, conn, cred, pc, i>>
      /\ inotify' = IF inotify = "none" THEN "pending" ELSE inotify
  BY DEF ChangeRules, daemonVars, clientVars
<1> QED
  BY <1>1 DEF IInv, ListOK, CredentialsOK, PlaceOK

(* After a poll each entry is ready or not, and stays in its place.         *)
LEMMA PollKeeps ==
  ASSUME IInv, Poll
  PROVE  IInv'
<1> DEFINE n == Len(pollfds)
<1>1. /\ pollfds \in Seq(Entries) /\ n \in Nat /\ n >= 3 /\ pc = "poll"
      /\ UNCHANGED <<backlog, conn, cred>>
      /\ inotify' = IF inotify = "pending" THEN "polled" ELSE inotify
      /\ pollfds' = [k \in 1 .. n |-> [pollfds[k] EXCEPT !.revents = Ready(pollfds[k].fd)]]
  BY LenProperties DEF IInv, ListOK, Poll, clientVars
<1>2. \A fd : Ready(fd) \in BOOLEAN
  BY DEF Ready
<1>3. ASSUME NEW k \in 1 .. n
      PROVE  /\ pollfds'[k] \in Entries
             /\ pollfds'[k].fd = pollfds[k].fd /\ pollfds'[k].accepting = pollfds[k].accepting
             /\ pollfds'[k].revents = Ready(pollfds[k].fd)
  <2>1. pollfds[k] \in Entries /\ pollfds'[k] = [pollfds[k] EXCEPT !.revents = Ready(pollfds[k].fd)]
    BY <1>1, ElementOfSeq
  <2> QED
    BY <1>2, <2>1 DEF Entries
<1>4. pollfds' \in Seq(Entries) /\ Len(pollfds') = n
  BY <1>1, <1>3, IsASeq, LenProperties
<1>5. /\ pollfds[1].fd = "signal" /\ pollfds[2].fd = "listen" /\ pollfds[3].fd = "smack"
      /\ pollfds'[2].revents = (backlog # << >>)
      /\ pollfds'[3].revents = (inotify # "none")
  BY <1>1, <1>3 DEF IInv, ListOK, Ready
<1>6. ListOK'
  <2>1. \A k \in 1 .. Len(pollfds') : pollfds'[k].accepting => k = 2
    BY <1>3, <1>4 DEF IInv, ListOK
  <2>2. \A k \in 4 .. n : k \in 1 .. n
    OBVIOUS
  <2>3. \A k \in 4 .. Len(pollfds') : pollfds'[k].fd \in Clients
    BY <1>3, <1>4, <2>2 DEF IInv, ListOK
  <2>4. \A k, m \in 4 .. Len(pollfds') : pollfds'[k].fd = pollfds'[m].fd => k = m
    BY <1>3, <1>4, <2>2 DEF IInv, ListOK
  <2>5. \A k \in 4 .. Len(pollfds'), m \in 1 .. Len(backlog') : pollfds'[k].fd # backlog'[m]
    BY <1>1, <1>3, <1>4, <2>2 DEF IInv, ListOK
  <2>6. pollfds'[1].fd = "signal" /\ pollfds'[2].fd = "listen" /\ pollfds'[3].fd = "smack"
    BY <1>1, <1>3, <1>5
  <2> QED
    BY <1>1, <1>4, <2>1, <2>3, <2>4, <2>5, <2>6 DEF IInv, ListOK
<1>7. CredentialsOK'
  BY <1>1, <1>3, <1>4 DEF IInv, CredentialsOK
<1>8. PlaceOK'
  <2>1. CASE pc' = "signal"
    BY <1>1, <1>5, <2>1 DEF PlaceOK
  <2>2. CASE ScanFrom(pollfds', 2)
    <3>1. \/ pc' = "poll"
          \/ /\ pc' = "scan" /\ i' \in 2 .. Len(pollfds') /\ pollfds'[i'].revents
             /\ \A m \in 2 .. Len(pollfds') : pollfds'[m].revents => i' <= m
      BY <1>4, <2>2, Scan
    <3>2. CASE pc' = "poll"
      BY <3>2 DEF PlaceOK
    <3>3. CASE pc' = "scan" /\ i' \in 2 .. Len(pollfds') /\ pollfds'[i'].revents
               /\ \A m \in 2 .. Len(pollfds') : pollfds'[m].revents => i' <= m
      <4>1. i' = 2 => backlog' # << >>
        BY <1>1, <1>5, <3>3
      <4>2. inotify' = "polled" => inotify # "none"
        BY <1>1
      <4>3. inotify' = "polled" => pollfds'[3].revents
        BY <1>5, <4>2
      <4>4. inotify' = "polled" => i' <= 3
        <5>1. 3 \in 2 .. Len(pollfds')
          BY <1>1, <1>4
        <5> QED
          BY <3>3, <4>3, <5>1
      <4> QED
        BY <3>3, <4>1, <4>3, <4>4 DEF PlaceOK
    <3> QED
      BY <3>1, <3>2, <3>3
  <2> QED
    BY <1>1, <2>1, <2>2 DEF Poll
<1> QED
  BY <1>6, <1>7, <1>8 DEF IInv

LEMMA ExitKeeps ==
  ASSUME IInv, Exit, UNCHANGED <<backlog, cred>>
  PROVE  IInv'
<1>1. /\ pc' = "stopped" /\ pollfds' = << >>
      /\ conn' = [c \in Clients |-> IF conn[c] = "up" THEN "down" ELSE conn[c]]
  BY DEF Exit
<1>2. Len(pollfds') = 0 /\ pollfds' \in Seq(Entries)
  BY <1>1
<1>3. \A m \in 1 .. Len(backlog) : backlog[m] \in Clients
  BY LenProperties, ElementOfSeq DEF IInv, ListOK
<1>4. CredentialsOK'
  BY <1>1, <1>2, <1>3 DEF IInv, CredentialsOK
<1> QED
  BY <1>1, <1>2, <1>4 DEF IInv, ListOK, PlaceOK

LEMMA ReadSignalKeeps ==
  ASSUME IInv, ReadSignal
  PROVE  IInv'
<1>1. UNCHANGED <<backlog, cred, inotify>> /\ pc = "signal"
  BY DEF ReadSignal, ruleVars
<1>2. CASE Exit
  BY <1>1, <1>2, ExitKeeps
<1>3. CASE ScanFrom(pollfds, 2) /\ UNCHANGED <<pollfds, conn>>
  <2>1. Len(pollfds) \in Nat /\ 2 \in 2 .. (Len(pollfds) + 1)
    BY <1>1, LenProperties DEF IInv, ListOK
  <2> QED
    BY <1>1, <1>3, <2>1, GoOnKeeps DEF IInv, PlaceOK
<1> QED
  BY <1>2, <1>3 DEF ReadSignal

LEMMA RereadRulesKeeps ==
  ASSUME IInv, RereadRules
  PROVE  IInv'
<1>1. pc = "scan" /\ UNCHANGED <<backlog, cred, inotify>>
  BY DEF RereadRules
<1>2. CASE Exit
  BY <1>1, <1>2, ExitKeeps
<1>3. CASE pc' = "discard" /\ UNCHANGED <<i, pollfds, conn>>
  BY <1>1, <1>3 DEF IInv, ListOK, CredentialsOK, PlaceOK
<1> QED
  BY <1>2, <1>3 DEF RereadRules

LEMMA DiscardEventsKeeps ==
  ASSUME IInv, DiscardEvents
  PROVE  IInv'
<1>1. /\ pc = "discard" /\ inotify' = "none" /\ ScanFrom(pollfds, i + 1)
      /\ UNCHANGED <<pollfds, backlog, conn, cred>>
  BY DEF DiscardEvents, clientVars
<1>2. i \in 2 .. Len(pollfds) /\ Len(pollfds) \in Nat
  BY <1>1, LenProperties DEF IInv, PlaceOK, ListOK
<1>3. i + 1 \in 2 .. (Len(pollfds) + 1) /\ i + 1 # 2
  BY <1>2
<1> QED
  BY <1>1, <1>3, GoOnKeeps

(* The head of the backlog gets an entry and no credentials yet.            *)
LEMMA AcceptKeeps ==
  ASSUME IInv, Accept
  PROVE  IInv'
<1> DEFINE n == Len(pollfds)
           h == Head(backlog)
<1>1. /\ pollfds \in Seq(Entries) /\ n \in Nat /\ n >= 3 /\ pc = "scan" /\ pc' = "poll"
      /\ backlog \in Seq(Clients) /\ UNCHANGED <<conn, inotify>>
  BY LenProperties DEF IInv, ListOK, Accept, NextPoll, ruleVars
<1>2. PlaceOK'
  BY <1>1 DEF PlaceOK
<1>3. CASE UNCHANGED <<backlog, pollfds, cred>>
  BY <1>1, <1>2, <1>3 DEF IInv, ListOK, CredentialsOK
<1>4. CASE /\ backlog' = Tail(backlog) /\ pollfds' = add_pollfd(h, FALSE)
           /\ cred' = [cred EXCEPT ![h] = "unknown"]
  <2>1. backlog # << >>
    <3>1. pollfds[i].accepting /\ i \in 2 .. n
      BY <1>1 DEF IInv, PlaceOK, Accept
    <3>2. i = 2
      BY <1>1, <3>1 DEF IInv, ListOK
    <3> QED
      BY <1>1, <3>2 DEF IInv, PlaceOK
  <2>2. /\ h \in Clients /\ h = backlog[1] /\ Len(backlog) \in Nat /\ Len(backlog) >= 1
        /\ backlog' \in Seq(Clients) /\ Len(backlog') = Len(backlog) - 1
        /\ \A m \in 1 .. Len(backlog') : backlog'[m] = backlog[m + 1]
    BY <1>1, <1>4, <2>1, HeadTailProperties, LenProperties, EmptySeq
  <2> DEFINE e == PollFd(h, FALSE)
  <2>3. e \in Entries /\ e.fd = h /\ ~e.accepting
    BY <2>2 DEF PollFd, Entries
  <2>4. pollfds' = Append(pollfds, e)
    BY <1>4 DEF add_pollfd
  <2>5. cred' = [cred EXCEPT ![h] = "unknown"]
    BY <1>4
  <2> HIDE DEF h, e
  <2>6. /\ pollfds' \in Seq(Entries) /\ Len(pollfds') = n + 1
        /\ \A k \in 1 .. n : pollfds'[k] = pollfds[k]
        /\ pollfds'[n + 1] = e
    BY <1>1, <2>3, <2>4, AppendProperties
  <2>7. /\ \A m \in 1 .. Len(backlog') : m + 1 \in 1 .. Len(backlog) /\ m + 1 # 1
        /\ 1 \in 1 .. Len(backlog)
        /\ \A k \in 4 .. (n + 1) : k = n + 1 \/ k \in 4 .. n
        /\ \A k \in 1 .. (n + 1) : k = n + 1 \/ k \in 1 .. n
        /\ \A k \in 4 .. n : k \in 1 .. n
    BY <1>1, <2>2
  <2>8. \A k \in 4 .. n : pollfds[k].fd # h
    BY <2>2, <2>7 DEF IInv, ListOK
  <2>9. ListOK'
    <3>1. /\ Len(pollfds') >= 3
          /\ pollfds'[1].fd = "signal" /\ pollfds'[2].fd = "listen" /\ pollfds'[3].fd = "smack"
      BY <1>1, <2>6 DEF IInv, ListOK
    <3>2. \A k \in 1 .. Len(pollfds') : pollfds'[k].accepting => k = 2
      BY <2>3, <2>6, <2>7 DEF IInv, ListOK
    <3>3. \A k \in 4 .. Len(pollfds') : pollfds'[k].fd \in Clients
      BY <2>2, <2>3, <2>6, <2>7 DEF IInv, ListOK
    <3>4. \A k, m \in 4 .. Len(pollfds') : pollfds'[k].fd = pollfds'[m].fd => k = m
      BY <2>3, <2>6, <2>7, <2>8 DEF IInv, ListOK
    <3>5. \A k, m \in 1 .. Len(backlog') : backlog'[k] = backlog'[m] => k = m
      BY <2>2, <2>7 DEF IInv, ListOK
    <3>6. ASSUME NEW k \in 4 .. Len(pollfds'), NEW m \in 1 .. Len(backlog')
          PROVE  pollfds'[k].fd # backlog'[m]
      <4>1. CASE k = n + 1
        BY <2>2, <2>3, <2>6, <2>7, <4>1 DEF IInv, ListOK
      <4>2. CASE k \in 4 .. n
        BY <2>2, <2>6, <2>7, <4>2 DEF IInv, ListOK
      <4> QED
        BY <2>6, <2>7, <4>1, <4>2
    <3> QED
      BY <2>2, <2>6, <3>1, <3>2, <3>3, <3>4, <3>5, <3>6 DEF ListOK
  <2>10. CredentialsOK'
    <3>1. cred' \in [Clients -> {"unknown", "own", "former"}] /\ cred'[h] = "unknown"
          /\ \A d \in Clients : d # h => cred'[d] = cred[d]
      BY <2>2, <2>5 DEF IInv, CredentialsOK
    <3>2. ASSUME NEW k \in 4 .. Len(pollfds')
          PROVE  conn'[pollfds'[k].fd] # "none" /\ cred'[pollfds'[k].fd] # "former"
      <4>1. CASE k = n + 1
        BY <1>1, <2>2, <2>3, <2>6, <2>7, <3>1, <4>1 DEF IInv, CredentialsOK
      <4>2. CASE k \in 4 .. n
        BY <1>1, <2>6, <2>7, <2>8, <3>1, <4>2 DEF IInv, CredentialsOK, ListOK
      <4> QED
        BY <2>6, <2>7, <4>1, <4>2
    <3>3. \A m \in 1 .. Len(backlog') : conn'[backlog'[m]] # "none"
      BY <1>1, <2>2, <2>7 DEF IInv, CredentialsOK
    <3> QED
      BY <1>1, <3>1, <3>2, <3>3 DEF IInv, CredentialsOK
  <2> QED
    BY <1>2, <2>9, <2>10 DEF IInv
<1> QED
  BY <1>3, <1>4 DEF Accept

(* A client that is at most unknown is identified before it is read.        *)
LEMMA HandleClientKeeps ==
  ASSUME IInv, HandleClient
  PROVE  IInv'
<1>1. /\ pc = "scan" /\ Current \in Clients /\ UNCHANGED <<backlog, inotify>>
      /\ i \in 2 .. Len(pollfds) /\ Len(pollfds) \in Nat /\ Len(pollfds) >= 3
  BY LenProperties DEF IInv, PlaceOK, ListOK, HandleClient, ruleVars
<1>2. i # 2 /\ i # 3
  BY <1>1, LoopAssumption DEF IInv, ListOK, Current
<1>3. i \in 4 .. Len(pollfds) /\ inotify # "polled"
  BY <1>1, <1>2 DEF IInv, PlaceOK
<1>4. CASE Terminate
  BY <1>1, <1>3, <1>4, TerminateKeeps
<1>5. CASE /\ pc' = "read" /\ UNCHANGED <<pollfds, i, conn>>
           /\ cred' = [cred EXCEPT ![Current] = IF @ = "unknown" THEN "own" ELSE @]
  <2>1. /\ cred' \in [Clients -> {"unknown", "own", "former"}]
        /\ \A d \in Clients : cred[d] # "former" => cred'[d] # "former"
        /\ cred[Current] # "former" => cred'[Current] = "own"
    BY <1>1, <1>5 DEF IInv, CredentialsOK
  <2>2. cred'[Current] = "own" /\ Current = pollfds'[i].fd
    BY <1>3, <1>5, <2>1 DEF IInv, CredentialsOK, Current
  <2>3. CredentialsOK'
    BY <1>1, <1>5, <2>1 DEF IInv, CredentialsOK, ListOK
  <2>4. PlaceOK'
    BY <1>1, <1>3, <1>5, <2>2 DEF PlaceOK
  <2> QED
    BY <1>1, <1>5, <2>3, <2>4 DEF IInv, ListOK
<1> QED
  BY <1>4, <1>5 DEF HandleClient

(* A step of handle_client either stays with the client, goes on with the   *)
(* scan or ends the client.                                                 *)
LEMMA ServingKeeps ==
  ASSUME IInv, pc \in {"read", "write"}, UNCHANGED <<backlog, inotify>>,
         \/ Terminate
         \/ ScanFrom(pollfds, i + 1) /\ UNCHANGED <<pollfds, conn, cred>>
         \/ pc' \in {"read", "write"} /\ UNCHANGED <<pollfds, conn, cred, i>>
  PROVE  IInv'
<1>1. i \in 4 .. Len(pollfds) /\ Len(pollfds) \in Nat /\ inotify # "polled"
  BY LenProperties DEF IInv, PlaceOK, ListOK
<1>2. CASE Terminate
  BY <1>1, <1>2, TerminateKeeps
<1>3. CASE ScanFrom(pollfds, i + 1) /\ UNCHANGED <<pollfds, conn, cred>>
  <2>1. i + 1 \in 2 .. (Len(pollfds) + 1) /\ i + 1 # 2
    BY <1>1
  <2> QED
    BY <1>1, <1>3, <2>1, GoOnKeeps
<1>4. CASE pc' \in {"read", "write"} /\ UNCHANGED <<pollfds, conn, cred, i>>
  BY <1>1, <1>4 DEF IInv, ListOK, CredentialsOK, PlaceOK
<1> QED
  BY <1>2, <1>3, <1>4

LEMMA NextKeeps == IInv /\ [Next]_vars => IInv'
<1> SUFFICES ASSUME IInv, [Next]_vars PROVE IInv'
  OBVIOUS
<1>1. CASE UNCHANGED vars
  BY <1>1, OthersKeep DEF vars, daemonVars, clientVars, ruleVars
<1>2. ASSUME NEW c \in Clients, Connect(c) \/ WriteUnit(c) \/ ReadReply(c) \/ HangUp(c)
      PROVE  IInv'
  BY <1>2, ConnectKeeps, HangUpKeeps, OthersKeep DEF WriteUnit, ReadReply, daemonVars, ruleVars
<1>3. CASE Kill \/ Ended
  BY <1>3, OthersKeep DEF Kill, Ended, vars, daemonVars, clientVars, ruleVars
<1>4. CASE ReadHeader
  BY <1>4, ServingKeeps DEF ReadHeader, Take, ruleVars
<1>5. CASE ReadBody
  BY <1>5, ServingKeeps DEF ReadBody, Take, ruleVars
<1>6. CASE Cleanup
  BY <1>6, ServingKeeps DEF Cleanup, clientVars, ruleVars
<1>7. CASE Write
  BY <1>7, ServingKeeps DEF Write, NextMessage, ruleVars
<1> QED
  BY <1>1, <1>2, <1>3, <1>4, <1>5, <1>6, <1>7, ChangeRulesKeeps, PollKeeps, ReadSignalKeeps,
     RereadRulesKeeps, DiscardEventsKeeps, AcceptKeeps, HandleClientKeeps DEF Next, Daemon

-----------------------------------------------------------------------------
(* The order of the poll list, the credentials of its entries and the place *)
(* of the scan are right together in every reachable state (core/main.c's   *)
(* loop, core/daemon.c's handle_client and terminate_client).               *)
THEOREM LoopInductive == Spec => []IInv
<1> QED
  BY InitKeeps, NextKeeps, PTL DEF Spec

(* The rules are those of the file, or an event tells of the change, or it  *)
(* was missed; and while the daemon discards the events only a change that  *)
(* it then misses can have made them stale.                                 *)
RulesOK ==
  /\ rules \in {"current", "stale"} /\ inotify \in {"none", "pending", "polled"}
  /\ missed \in BOOLEAN
  /\ rules = "stale" => missed \/ (inotify # "none" /\ pc # "discard")

LEMMA ScanLeaves ==
  ASSUME NEW fds, NEW j, ScanFrom(fds, j)
  PROVE  pc' # "discard"
BY DEF ScanFrom

LEMMA TerminateLeaves ==
  ASSUME Terminate
  PROVE  pc' # "discard"
BY ScanLeaves DEF Terminate

LEMMA RulesNext == RulesOK /\ [Next]_vars => RulesOK'
<1> SUFFICES ASSUME RulesOK, [Next]_vars PROVE RulesOK'
  OBVIOUS
<1>1. ASSUME UNCHANGED ruleVars, pc' = "discard" => pc = "discard"
      PROVE  RulesOK'
  BY <1>1 DEF RulesOK, ruleVars
<1>2. CASE UNCHANGED vars \/ Kill \/ Ended
  BY <1>1, <1>2 DEF Kill, Ended, vars, daemonVars
<1>3. ASSUME NEW c \in Clients, Connect(c) \/ WriteUnit(c) \/ ReadReply(c) \/ HangUp(c)
      PROVE  RulesOK'
  BY <1>1, <1>3 DEF Connect, WriteUnit, ReadReply, HangUp, daemonVars
<1>4. CASE ChangeRules
  BY <1>4 DEF ChangeRules, daemonVars, RulesOK
<1>5. CASE Poll
  <2>1. pc' # "discard"
    BY <1>5, ScanLeaves DEF Poll
  <2> QED
    BY <1>5, <2>1 DEF Poll, RulesOK
<1>6. CASE ReadSignal
  BY <1>1, <1>6, ScanLeaves DEF ReadSignal, Exit
<1>7. CASE RereadRules
  BY <1>7 DEF RereadRules, Exit, RulesOK
<1>8. CASE DiscardEvents
  BY <1>8 DEF DiscardEvents, RulesOK
<1>9. CASE Accept
  BY <1>1, <1>9 DEF Accept, NextPoll
<1>10. CASE HandleClient
  BY <1>1, <1>10, TerminateLeaves DEF HandleClient
<1>11. CASE ReadHeader
  BY <1>1, <1>11, TerminateLeaves DEF ReadHeader, Take
<1>12. CASE ReadBody
  <2>1. pc' = "discard" => pc = "discard"
    BY <1>12, TerminateLeaves DEF ReadBody
  <2> QED
    BY <1>1, <1>12, <2>1 DEF ReadBody, Take
<1>13. CASE Cleanup
  BY <1>1, <1>13, ScanLeaves DEF Cleanup
<1>14. CASE Write
  BY <1>1, <1>14, ScanLeaves, TerminateLeaves DEF Write, NextMessage
<1> QED
  BY <1>2, <1>3, <1>4, <1>5, <1>6, <1>7, <1>8, <1>9, <1>10, <1>11, <1>12, <1>13, <1>14
     DEF Next, Daemon

THEOREM RulesInductive == Spec => []RulesOK
<1>1. Init => RulesOK
  BY DEF Init, RulesOK
<1> QED
  BY <1>1, RulesNext, PTL DEF Spec

(* Whenever handle_client reads from or writes for a client, the client has *)
(* been identified over this very connection, no change of the rule file    *)
(* that poll has seen is still to be read, and rules that are not those of  *)
(* the file are so because of a change poll has yet to see or of one whose  *)
(* event was missed.                                                        *)
THEOREM RightsAreJudged == Spec => []JudgedByRights
<1>1. IInv /\ RulesOK => JudgedByRights
  BY DEF IInv, PlaceOK, RulesOK, JudgedByRights, Current
<1> QED
  BY <1>1, LoopInductive, RulesInductive, PTL

-----------------------------------------------------------------------------
(* The poll list and the list of clients.                                   *)

(* The clients stand on the poll list in the order they came in, and on     *)
(* their own list the other way round; every connection is on both or waits.*)
AgreeOK ==
  /\ client_list \in Seq(Clients)
  /\ pc # "stopped" =>
       /\ Len(pollfds) = Len(client_list) + 3
       /\ pollfds[2].accepting
       /\ \A k \in 4 .. Len(pollfds) : pollfds[k].fd = client_list[Len(client_list) + 4 - k]
       /\ \A c \in Clients : conn[c] # "none" =>
            \/ \E k \in 4 .. Len(pollfds) : pollfds[k].fd = c
            \/ \E m \in 1 .. Len(backlog) : backlog[m] = c

ListInv == IInv /\ AgreeOK

(* What keeps both lists and all connections, keeps their agreement.        *)
LEMMA ListsStay ==
  ASSUME ListInv, pc # "stopped",
         UNCHANGED <<client_list, pollfds, backlog, conn>>
  PROVE  AgreeOK'
BY DEF ListInv, AgreeOK

LEMMA TerminateAgrees ==
  ASSUME ListInv, pc # "stopped", i \in 4 .. Len(pollfds), Terminate, UNCHANGED backlog
  PROVE  AgreeOK'
<1> DEFINE n == Len(pollfds)
           l == Len(client_list)
           p == l + 4 - i
<1>1. /\ pollfds \in Seq(Entries) /\ n \in Nat /\ i \in 1 .. n /\ i >= 4
      /\ client_list \in Seq(Clients) /\ l \in Nat /\ n = l + 3 /\ p \in 1 .. l
      /\ \A k \in 4 .. n : pollfds[k].fd = client_list[l + 4 - k] /\ pollfds[k].fd \in Clients
      /\ \A k, m \in 4 .. n : pollfds[k].fd = pollfds[m].fd => k = m
      /\ conn \in [Clients -> {"none", "up", "down"}]
  BY LenProperties DEF ListInv, IInv, ListOK, CredentialsOK, AgreeOK
<1>2. /\ pollfds' \in Seq(Entries) /\ Len(pollfds') = n - 1
      /\ \A k \in 1 .. (n - 1) : pollfds'[k] = IF k < i THEN pollfds[k] ELSE pollfds[k + 1]
  BY <1>1, RemoveAtProperties DEF Terminate, del_pollfd
<1>3. Current = pollfds[i].fd /\ Current = client_list[p]
  BY <1>1 DEF Current
<1>4. ASSUME NEW q \in 1 .. l, client_list[q] = Current
      PROVE  q = p
  <2>1. l + 4 - q \in 4 .. n /\ l + 4 - (l + 4 - q) = q
    BY <1>1
  <2>2. pollfds[l + 4 - q].fd = pollfds[i].fd
    BY <1>1, <1>3, <1>4, <2>1
  <2> QED
    BY <1>1, <2>1, <2>2
<1>5. RemoveFirst(client_list, Current) = RemoveAt(client_list, p)
  BY <1>1, <1>3, <1>4, RemoveOnly
<1>6. /\ client_list' \in Seq(Clients) /\ Len(client_list') = l - 1
      /\ \A q \in 1 .. (l - 1) :
           client_list'[q] = IF q < p THEN client_list[q] ELSE client_list[q + 1]
  BY <1>1, <1>5, RemoveAtProperties DEF Terminate
<1>7. ASSUME NEW k \in 4 .. (n - 1)
      PROVE  pollfds'[k].fd = client_list'[(l - 1) + 4 - k]
  <2>1. (l - 1) + 4 - k \in 1 .. (l - 1)
    BY <1>1
  <2>2. CASE k < i
    <3>1. ~((l - 1) + 4 - k < p) /\ ((l - 1) + 4 - k) + 1 = l + 4 - k /\ k \in 4 .. n
      BY <1>1, <2>2
    <3>2. client_list'[(l - 1) + 4 - k] = client_list[l + 4 - k]
      BY <1>6, <2>1, <3>1
    <3>3. pollfds[k].fd = client_list[l + 4 - k]
      BY <1>1, <3>1
    <3>4. k \in 1 .. (n - 1) /\ pollfds'[k] = pollfds[k]
      BY <1>1, <1>2, <2>2
    <3> QED
      BY <3>2, <3>3, <3>4
  <2>3. CASE ~(k < i)
    <3>1. /\ (l - 1) + 4 - k < p /\ (l - 1) + 4 - k = l + 4 - (k + 1) /\ k + 1 \in 4 .. n
          /\ pollfds'[k] = pollfds[k + 1]
      BY <1>1, <1>2, <2>3
    <3>2. client_list'[(l - 1) + 4 - k] = client_list[l + 4 - (k + 1)]
      BY <1>6, <2>1, <3>1
    <3> QED
      BY <1>1, <3>1, <3>2
  <2> QED
    BY <2>2, <2>3
<1>8. pollfds'[2].accepting
  BY <1>1, <1>2 DEF ListInv, AgreeOK
<1>9. ASSUME NEW c \in Clients, conn'[c] # "none"
      PROVE  \/ \E k \in 4 .. (n - 1) : pollfds'[k].fd = c
             \/ \E m \in 1 .. Len(backlog') : backlog'[m] = c
  <2>1. c # Current /\ conn[c] # "none"
    BY <1>1, <1>3, <1>9 DEF Terminate
  <2>2. CASE \E k \in 4 .. n : pollfds[k].fd = c
    <3>1. PICK k \in 4 .. n : pollfds[k].fd = c
      BY <2>2
    <3>2. CASE k < i
      <4>1. k \in 4 .. (n - 1) /\ pollfds'[k] = pollfds[k]
        BY <1>1, <1>2, <3>2
      <4> QED
        BY <3>1, <4>1
    <3>3. CASE k > i
      <4>1. k - 1 \in 4 .. (n - 1) /\ ~(k - 1 < i) /\ (k - 1) + 1 = k
        BY <1>1, <3>3
      <4>2. pollfds'[k - 1] = pollfds[k]
        BY <1>1, <1>2, <4>1
      <4> QED
        BY <3>1, <4>1, <4>2
    <3> QED
      BY <1>1, <1>3, <2>1, <3>1, <3>2, <3>3
  <2> QED
    BY <2>1, <2>2 DEF ListInv, AgreeOK
<1>10. Len(pollfds') = Len(client_list') + 3
  BY <1>1, <1>2, <1>6
<1>11. \A k \in 4 .. Len(pollfds') : pollfds'[k].fd = client_list'[Len(client_list') + 4 - k]
  BY <1>2, <1>6, <1>7
<1>12. \A c \in Clients : conn'[c] # "none" =>
          \/ \E k \in 4 .. Len(pollfds') : pollfds'[k].fd = c
          \/ \E m \in 1 .. Len(backlog') : backlog'[m] = c
  BY <1>2, <1>9
<1> QED
  BY <1>6, <1>8, <1>10, <1>11, <1>12 DEF AgreeOK

LEMMA AcceptAgrees ==
  ASSUME ListInv, Accept
  PROVE  AgreeOK'
<1> DEFINE n == Len(pollfds)
           l == Len(client_list)
           h == Head(backlog)
<1>1. /\ pollfds \in Seq(Entries) /\ n \in Nat /\ n >= 3 /\ pc = "scan" /\ pc' = "poll"
      /\ client_list \in Seq(Clients) /\ l \in Nat /\ n = l + 3
      /\ backlog \in Seq(Clients) /\ conn' = conn
  BY LenProperties DEF ListInv, IInv, ListOK, AgreeOK, Accept, NextPoll
<1>2. CASE UNCHANGED <<backlog, client_list, pollfds>>
  BY <1>1, <1>2, ListsStay
<1>3. CASE /\ backlog' = Tail(backlog) /\ pollfds' = add_pollfd(h, FALSE)
           /\ client_list' = <<h>> \o client_list
  <2>1. backlog # << >>
    <3>1. pollfds[i].accepting /\ i \in 2 .. n
      BY <1>1 DEF ListInv, IInv, PlaceOK, Accept
    <3>2. i = 2
      BY <1>1, <3>1 DEF ListInv, IInv, ListOK
    <3> QED
      BY <1>1, <3>2 DEF ListInv, IInv, PlaceOK
  <2>2. /\ h \in Clients /\ h = backlog[1] /\ Len(backlog) \in Nat /\ Len(backlog) >= 1
        /\ Len(backlog') = Len(backlog) - 1
        /\ \A m \in 1 .. Len(backlog') : backlog'[m] = backlog[m + 1]
    BY <1>1, <1>3, <2>1, HeadTailProperties, LenProperties, EmptySeq
  <2> DEFINE e == PollFd(h, FALSE)
  <2>3. e \in Entries /\ e.fd = h
    BY <2>2 DEF PollFd, Entries
  <2>4. pollfds' = Append(pollfds, e)
    BY <1>3 DEF add_pollfd
  <2>5. client_list' = <<h>> \o client_list
    BY <1>3
  <2> HIDE DEF h, e
  <2>6. /\ pollfds' \in Seq(Entries) /\ Len(pollfds') = n + 1
        /\ \A k \in 1 .. n : pollfds'[k] = pollfds[k]
        /\ pollfds'[n + 1] = e
    BY <1>1, <2>3, <2>4, AppendProperties
  <2>7. /\ client_list' \in Seq(Clients) /\ Len(client_list') = l + 1 /\ client_list'[1] = h
        /\ \A q \in 2 .. (l + 1) : client_list'[q] = client_list[q - 1]
    <3>1. <<h>> \in Seq(Clients) /\ Len(<<h>>) = 1 /\ <<h>>[1] = h
      BY <2>2
    <3> QED
      BY <1>1, <2>5, <3>1, ConcatProperties
  <2>8. ASSUME NEW k \in 4 .. (n + 1)
        PROVE  pollfds'[k].fd = client_list'[(l + 1) + 4 - k]
    <3>1. CASE k = n + 1
      <4>1. (l + 1) + 4 - k = 1
        BY <1>1, <3>1
      <4> QED
        BY <2>3, <2>6, <2>7, <3>1, <4>1
    <3>2. CASE k \in 4 .. n
      <4>1. /\ (l + 1) + 4 - k \in 2 .. (l + 1) /\ ((l + 1) + 4 - k) - 1 = l + 4 - k
            /\ k \in 1 .. n
        BY <1>1, <3>2
      <4>2. client_list'[(l + 1) + 4 - k] = client_list[l + 4 - k]
        BY <2>7, <4>1
      <4> QED
        BY <1>1, <2>6, <3>2, <4>1, <4>2 DEF ListInv, AgreeOK
    <3> QED
      BY <1>1, <3>1, <3>2
  <2>9. pollfds'[2].accepting
    BY <1>1, <2>6 DEF ListInv, AgreeOK
  <2>10. ASSUME NEW c \in Clients, conn'[c] # "none"
         PROVE  \/ \E k \in 4 .. (n + 1) : pollfds'[k].fd = c
                \/ \E m \in 1 .. Len(backlog') : backlog'[m] = c
    <3>1. CASE \E k \in 4 .. n : pollfds[k].fd = c
      <4>1. PICK k \in 4 .. n : pollfds[k].fd = c
        BY <3>1
      <4>2. k \in 4 .. (n + 1) /\ pollfds'[k] = pollfds[k]
        BY <1>1, <2>6
      <4> QED
        BY <4>1, <4>2
    <3>2. CASE \E m \in 1 .. Len(backlog) : backlog[m] = c
      <4>1. PICK m \in 1 .. Len(backlog) : backlog[m] = c
        BY <3>2
      <4>2. CASE m = 1
        <5>1. n + 1 \in 4 .. (n + 1)
          BY <1>1
        <5> QED
          BY <2>2, <2>3, <2>6, <4>1, <4>2, <5>1
      <4>3. CASE m # 1
        <5>1. m - 1 \in 1 .. Len(backlog') /\ (m - 1) + 1 = m
          BY <2>2, <4>3
        <5>2. backlog'[m - 1] = c
          BY <2>2, <4>1, <5>1
        <5> QED
          BY <5>1, <5>2
      <4> QED
        BY <4>2, <4>3
    <3> QED
      BY <1>1, <2>10, <3>1, <3>2 DEF ListInv, AgreeOK
  <2>11. Len(pollfds') = Len(client_list') + 3
    BY <1>1, <2>6, <2>7
  <2>12. \A k \in 4 .. Len(pollfds') : pollfds'[k].fd = client_list'[Len(client_list') + 4 - k]
    BY <2>6, <2>7, <2>8
  <2>13. \A c \in Clients : conn'[c] # "none" =>
            \/ \E k \in 4 .. Len(pollfds') : pollfds'[k].fd = c
            \/ \E m \in 1 .. Len(backlog') : backlog'[m] = c
    BY <2>6, <2>10
  <2> QED
    BY <2>7, <2>9, <2>11, <2>12, <2>13 DEF AgreeOK
<1> QED
  BY <1>2, <1>3 DEF Accept

LEMMA PollAgrees ==
  ASSUME ListInv, Poll
  PROVE  AgreeOK'
<1> DEFINE n == Len(pollfds)
<1>1. /\ pollfds \in Seq(Entries) /\ n \in Nat /\ n >= 3 /\ pc = "poll"
      /\ UNCHANGED <<client_list, backlog, conn>>
      /\ pollfds' = [k \in 1 .. n |-> [pollfds[k] EXCEPT !.revents = Ready(pollfds[k].fd)]]
  BY LenProperties DEF ListInv, IInv, ListOK, Poll, clientVars
<1>2. ASSUME NEW k \in 1 .. n
      PROVE  pollfds'[k].fd = pollfds[k].fd /\ pollfds'[k].accepting = pollfds[k].accepting
  <2>1. pollfds[k] \in Entries /\ pollfds'[k] = [pollfds[k] EXCEPT !.revents = Ready(pollfds[k].fd)]
    BY <1>1, ElementOfSeq
  <2> QED
    BY <2>1 DEF Entries
<1>3. Len(pollfds') = n
  BY <1>1
<1>4. /\ \A k \in 4 .. n : k \in 1 .. n
      /\ 2 \in 1 .. n
  BY <1>1
<1>5. \A k \in 4 .. n : pollfds'[k].fd = pollfds[k].fd
  BY <1>2, <1>4
<1> HIDE DEF n
<1>6. /\ client_list' \in Seq(Clients) /\ Len(pollfds') = Len(client_list') + 3
      /\ pollfds'[2].accepting
  BY <1>1, <1>2, <1>3, <1>4 DEF ListInv, AgreeOK, n
<1>7. \A k \in 4 .. Len(pollfds') : pollfds'[k].fd = client_list'[Len(client_list') + 4 - k]
  BY <1>1, <1>3, <1>5 DEF ListInv, AgreeOK, n
<1>8. \A c \in Clients : conn'[c] # "none" =>
         \/ \E k \in 4 .. Len(pollfds') : pollfds'[k].fd = c
         \/ \E m \in 1 .. Len(backlog') : backlog'[m] = c
  BY <1>1, <1>3, <1>5 DEF ListInv, AgreeOK, n
<1> QED
  BY <1>6, <1>7, <1>8 DEF AgreeOK

LEMMA ConnectAgrees ==
  ASSUME ListInv, NEW c \in Clients, Connect(c)
  PROVE  AgreeOK'
<1> DEFINE n == Len(backlog)
<1>1. /\ backlog \in Seq(Clients) /\ n \in Nat /\ Len(backlog') = n + 1
      /\ \A m \in 1 .. n : m \in 1 .. (n + 1) /\ backlog'[m] = backlog[m]
      /\ backlog'[n + 1] = c /\ n + 1 \in 1 .. (n + 1)
  BY AppendProperties, LenProperties DEF ListInv, IInv, ListOK, Connect
<1>2. /\ UNCHANGED <<pollfds, client_list, pc>>
      /\ conn' = [conn EXCEPT ![c] = "up"] /\ conn \in [Clients -> {"none", "up", "down"}]
  BY DEF Connect, ListInv, IInv, CredentialsOK
<1>3. ASSUME NEW d \in Clients, conn'[d] # "none", pc # "stopped"
      PROVE  \/ \E k \in 4 .. Len(pollfds) : pollfds[k].fd = d
             \/ \E m \in 1 .. (n + 1) : backlog'[m] = d
  BY <1>1, <1>2, <1>3 DEF ListInv, AgreeOK
<1> QED
  BY <1>1, <1>2, <1>3 DEF ListInv, AgreeOK

LEMMA HangUpAgrees ==
  ASSUME ListInv, NEW c \in Clients, HangUp(c)
  PROVE  AgreeOK'
<1>1. /\ UNCHANGED <<pollfds, client_list, backlog, pc>>
      /\ conn[c] = "up" /\ conn' = [conn EXCEPT ![c] = "down"]
      /\ conn \in [Clients -> {"none", "up", "down"}]
  BY DEF HangUp, daemonVars, ListInv, IInv, CredentialsOK
<1>2. \A d \in Clients : conn'[d] # "none" => conn[d] # "none"
  BY <1>1
<1> QED
  BY <1>1, <1>2 DEF ListInv, AgreeOK

(* The daemon is with a client: the entry at i is one of those it accepted. *)
LEMMA AtAClient ==
  ASSUME IInv, pc \in {"read", "write"} \/ (pc = "scan" /\ Current \in Clients)
  PROVE  i \in 4 .. Len(pollfds) /\ Current \in Clients /\ conn[Current] # "none"
<1>1. pc # "stopped" /\ i \in 2 .. Len(pollfds) /\ Len(pollfds) \in Nat
  BY LenProperties DEF IInv, ListOK, PlaceOK
<1>2. CASE pc \in {"read", "write"}
  BY <1>2 DEF IInv, ListOK, CredentialsOK, PlaceOK, Current
<1>3. CASE Current \in Clients
  <2>1. i # 2 /\ i # 3
    BY <1>1, <1>3, LoopAssumption DEF IInv, ListOK, Current
  <2>2. i \in 4 .. Len(pollfds)
    BY <1>1, <2>1
  <2> QED
    BY <1>3, <2>2 DEF IInv, CredentialsOK, Current
<1> QED
  BY <1>2, <1>3

LEMMA AgreeNext == ListInv /\ [Next]_vars => AgreeOK'
<1> SUFFICES ASSUME ListInv, [Next]_vars PROVE AgreeOK'
  OBVIOUS
<1>1. IInv
  BY DEF ListInv
<1>2. CASE UNCHANGED <<client_list, pollfds, backlog, conn, pc>>
  BY <1>2 DEF ListInv, AgreeOK
<1>3. ASSUME NEW c \in Clients, Connect(c) \/ WriteUnit(c) \/ ReadReply(c) \/ HangUp(c)
      PROVE  AgreeOK'
  BY <1>2, <1>3, ConnectAgrees, HangUpAgrees DEF WriteUnit, ReadReply, daemonVars
<1>4. CASE ReadSignal
  <2>1. pc = "signal" /\ backlog' = backlog
    BY <1>4 DEF ReadSignal
  <2>2. CASE pc' = "stopped" /\ client_list' = << >>
    BY <2>2 DEF AgreeOK
  <2> QED
    BY <1>4, <2>1, <2>2, ListsStay DEF ReadSignal, Exit
<1>5. CASE HandleClient
  BY <1>1, <1>5, ListsStay, AtAClient, TerminateAgrees DEF HandleClient
<1>6. CASE ReadHeader
  BY <1>1, <1>6, ListsStay, AtAClient, TerminateAgrees DEF ReadHeader, Take
<1>7. CASE ReadBody
  BY <1>1, <1>7, ListsStay, AtAClient, TerminateAgrees DEF ReadBody, Take
<1>8. CASE Write
  BY <1>1, <1>8, ListsStay, AtAClient, TerminateAgrees DEF Write
<1>9. CASE Cleanup \/ DiscardEvents
  BY <1>9, ListsStay DEF Cleanup, DiscardEvents, clientVars
<1>12. CASE RereadRules
  <2>1. pc = "scan" /\ backlog' = backlog
    BY <1>12 DEF RereadRules
  <2>2. CASE Exit
    BY <2>2 DEF Exit, AgreeOK
  <2> QED
    BY <1>12, <2>1, <2>2, ListsStay DEF RereadRules
<1>10. CASE Kill \/ ChangeRules \/ Ended
  BY <1>2, <1>10 DEF Kill, ChangeRules, Ended, vars, daemonVars, clientVars
<1>11. CASE UNCHANGED vars
  BY <1>2, <1>11 DEF vars, daemonVars, clientVars
<1> QED
  BY <1>3, <1>4, <1>5, <1>6, <1>7, <1>8, <1>9, <1>10, <1>11, <1>12, PollAgrees,
     AcceptAgrees
     DEF Next, Daemon

LEMMA InitAgrees == Init => AgreeOK
BY DEF Init, AgreeOK, PollFd

(* The two lists agree and hold every connection in every reachable state.  *)
THEOREM ListsInductive == Spec => []ListInv
<1>1. Init => ListInv
  BY InitKeeps, InitAgrees DEF ListInv
<1>2. ListInv /\ [Next]_vars => ListInv'
  BY NextKeeps, AgreeNext DEF ListInv
<1> QED
  BY <1>1, <1>2, PTL DEF Spec

(* What the scan of core/main.c relies on, and asserts.                     *)
LEMMA ListsAgree == ListInv => PollListAgrees
<1> SUFFICES ASSUME ListInv, pc # "stopped" PROVE PollListAgrees
  BY DEF PollListAgrees
<1> DEFINE n == Len(pollfds)
           l == Len(client_list)
           both == backlog \o client_list
<1>1. /\ n \in Nat /\ n >= 3 /\ n = l + 3 /\ client_list \in Seq(Clients) /\ l \in Nat
      /\ backlog \in Seq(Clients) /\ Len(backlog) \in Nat
      /\ pollfds[1].fd = "signal" /\ pollfds[2].fd = "listen" /\ pollfds[3].fd = "smack"
      /\ \A k \in 4 .. n : pollfds[k].fd = client_list[l + 4 - k] /\ pollfds[k].fd \in Clients
      /\ \A k, m \in 4 .. n : pollfds[k].fd = pollfds[m].fd => k = m
      /\ \A k, m \in 1 .. Len(backlog) : backlog[k] = backlog[m] => k = m
      /\ \A k \in 4 .. n, m \in 1 .. Len(backlog) : pollfds[k].fd # backlog[m]
  BY LenProperties DEF ListInv, IInv, ListOK, AgreeOK
<1>2. [k \in 1 .. 3 |-> pollfds[k].fd] = <<"signal", "listen", "smack">>
  BY <1>1
<1>3. \A k \in 4 .. n : Reverse(client_list)[k - 3] = client_list[l + 4 - k]
  <2>1. TAKE k \in 4 .. n
  <2>2. k - 3 \in 1 .. l /\ (l - (k - 3)) + 1 = l + 4 - k
    BY <1>1
  <2>3. Reverse(client_list) = [m \in 1 .. l |-> client_list[(l - m) + 1]]
    BY DEF Reverse
  <2> QED
    BY <2>2, <2>3
<1>4. [k \in 4 .. n |-> pollfds[k].fd] = [k \in 4 .. n |-> Reverse(client_list)[k - 3]]
  BY <1>1, <1>3
<1>5. \A k \in 1 .. n : pollfds[k].accepting <=> pollfds[k].fd = "listen"
  <2>1. TAKE k \in 1 .. n
  <2>2. pollfds[k].accepting => k = 2
    BY DEF ListInv, IInv, ListOK
  <2>3. pollfds[2].accepting
    BY DEF ListInv, AgreeOK
  <2>4. pollfds[k].fd = "listen" => k = 2
    <3>1. k = 1 \/ k = 2 \/ k = 3 \/ k \in 4 .. n
      BY <1>1
    <3>2. k \in 4 .. n => pollfds[k].fd # "listen"
      BY <1>1, LoopAssumption
    <3> QED
      BY <1>1, <3>1, <3>2
  <2> QED
    BY <1>1, <2>2, <2>3, <2>4
<1>6. \A q \in 1 .. l : l + 4 - q \in 4 .. n /\ client_list[q] = pollfds[l + 4 - q].fd
  <2>1. TAKE q \in 1 .. l
  <2>2. l + 4 - q \in 4 .. n /\ l + 4 - (l + 4 - q) = q
    BY <1>1
  <2> QED
    BY <1>1, <2>2
<1>7. /\ both \in Seq(Clients) /\ Len(both) = Len(backlog) + l /\ DOMAIN both = 1 .. Len(both)
      /\ \A m \in 1 .. Len(both) :
           both[m] = IF m <= Len(backlog) THEN backlog[m] ELSE client_list[m - Len(backlog)]
  BY <1>1, ConcatProperties, LenProperties
<1> HIDE DEF both
<1>8. IsInjective(both)
  <2>1. ASSUME NEW a \in 1 .. Len(both), NEW b \in 1 .. Len(both), both[a] = both[b],
               a <= Len(backlog)
        PROVE  a = b
    <3>1. CASE b <= Len(backlog)
      <4>1. a \in 1 .. Len(backlog) /\ b \in 1 .. Len(backlog) /\ backlog[a] = backlog[b]
        BY <1>1, <1>7, <2>1, <3>1
      <4> QED
        BY <1>1, <4>1
    <3>2. CASE ~(b <= Len(backlog))
      <4>1. b - Len(backlog) \in 1 .. l
        BY <1>1, <1>7, <3>2
      <4>2. backlog[a] = pollfds[l + 4 - (b - Len(backlog))].fd
        BY <1>6, <1>7, <2>1, <3>2, <4>1
      <4> QED
        BY <1>1, <1>6, <2>1, <4>1, <4>2
    <3> QED
      BY <3>1, <3>2
  <2>2. ASSUME NEW a \in 1 .. Len(both), NEW b \in 1 .. Len(both), both[a] = both[b],
               ~(a <= Len(backlog)), ~(b <= Len(backlog))
        PROVE  a = b
    <3>1. a - Len(backlog) \in 1 .. l /\ b - Len(backlog) \in 1 .. l
      BY <1>1, <1>7, <2>2
    <3>2. pollfds[l + 4 - (a - Len(backlog))].fd = pollfds[l + 4 - (b - Len(backlog))].fd
      BY <1>6, <1>7, <2>2, <3>1
    <3>3. l + 4 - (a - Len(backlog)) = l + 4 - (b - Len(backlog))
      BY <1>1, <1>6, <3>1, <3>2
    <3> QED
      BY <1>1, <3>1, <3>3
  <2> QED
    BY <1>7, <2>1, <2>2 DEF IsInjective
<1>9. ASSUME NEW c \in Clients
      PROVE  conn[c] # "none" <=> \E m \in 1 .. Len(both) : both[m] = c
  <2>1. ASSUME NEW m \in 1 .. Len(both), both[m] = c
        PROVE  conn[c] # "none"
    <3>1. CASE m <= Len(backlog)
      BY <1>1, <1>7, <2>1, <3>1 DEF ListInv, IInv, CredentialsOK
    <3>2. CASE ~(m <= Len(backlog))
      <4>1. m - Len(backlog) \in 1 .. l
        BY <1>1, <1>7, <3>2
      <4>2. c = pollfds[l + 4 - (m - Len(backlog))].fd
        BY <1>6, <1>7, <2>1, <3>2, <4>1
      <4>3. l + 4 - (m - Len(backlog)) \in 4 .. n
        BY <1>6, <4>1
      <4> QED
        BY <4>2, <4>3 DEF ListInv, IInv, CredentialsOK
    <3> QED
      BY <3>1, <3>2
  <2>2. ASSUME conn[c] # "none"
        PROVE  \E m \in 1 .. Len(both) : both[m] = c
    <3>1. CASE \E k \in 4 .. n : pollfds[k].fd = c
      <4>1. PICK k \in 4 .. n : pollfds[k].fd = c
        BY <3>1
      <4> DEFINE m == Len(backlog) + (l + 4 - k)
      <4>2. m \in 1 .. Len(both) /\ ~(m <= Len(backlog)) /\ m - Len(backlog) = l + 4 - k
        BY <1>1, <1>7
      <4> HIDE DEF m
      <4>3. both[m] = c
        BY <1>1, <1>7, <4>1, <4>2
      <4> QED
        BY <4>2, <4>3
    <3>2. CASE \E m \in 1 .. Len(backlog) : backlog[m] = c
      <4>1. PICK m \in 1 .. Len(backlog) : backlog[m] = c
        BY <3>2
      <4>2. m \in 1 .. Len(both) /\ m <= Len(backlog)
        BY <1>1, <1>7
      <4> QED
        BY <1>7, <4>1, <4>2
    <3> QED
      BY <2>2, <3>1, <3>2 DEF ListInv, AgreeOK
  <2> QED
    BY <2>1, <2>2
<1>10. \A c \in Clients : conn[c] # "none" <=> c \in ToSet(both)
  BY <1>7, <1>9 DEF ToSet
<1> QED
  BY <1>1, <1>2, <1>4, <1>5, <1>8, <1>10 DEF PollListAgrees, both

(* The poll list holds the daemon's own descriptors and then the clients of *)
(* the other list in its reverse order, each connection is once on the list *)
(* or in the backlog, and only the listening descriptor accepts, whatever   *)
(* clients end while the scan is under way (core/main.c:350-361).           *)
THEOREM PollListsAgree == Spec => []PollListAgrees
<1> QED
  BY ListsInductive, ListsAgree, PTL

-----------------------------------------------------------------------------
(* The buffer of the client that is served.                                 *)

(* Nothing is read before it is written, and the buffer holds part of a     *)
(* message only while the client at i is read.                              *)
BytesOK ==
  /\ sent \in [Clients -> Nat] /\ taken \in [Clients -> Nat]
  /\ \A c \in Clients : taken[c] <= sent[c]
  /\ offset \in Nat /\ size \in Nat
  /\ pc # "read" => offset = 0 /\ size = 1
  /\ pc = "read" => offset < size /\ offset <= taken[Current]

(* The other variables of the loop, and to whom the daemon still writes.    *)
LocalsOK ==
  /\ leftover \in BOOLEAN /\ i \in Nat /\ limit \in 1 .. MessageLimit
  /\ towrite \in Seq(Clients) /\ (pc = "write" => towrite # << >>)
  /\ outbox \in [Clients -> 0 .. ReplyBuffer]
  /\ signals \subseteq {"TERM", "PIPE"}

LEMMA ScanGoes ==
  ASSUME NEW fds \in Seq(Entries), NEW j \in Nat, ScanFrom(fds, j)
  PROVE  pc' \in {"poll", "scan"} /\ i' \in Nat
<1>1. CASE pc' = "poll" /\ i' = 1
  BY <1>1
<1>2. CASE pc' = "scan" /\ i' \in j .. Len(fds)
  BY <1>2, LenProperties
<1> QED
  BY <1>1, <1>2, Scan DEF ScanFrom

LEMMA TerminateGoes ==
  ASSUME IInv, i \in 4 .. Len(pollfds), Terminate
  PROVE  /\ pc' \in {"poll", "scan"} /\ i' \in Nat /\ leftover' = leftover
         /\ offset' = 0 /\ size' = 1 /\ limit' = MessageLimit /\ towrite' = << >>
         /\ conn' = [conn EXCEPT ![Current] = "none"]
<1>1. pollfds \in Seq(Entries) /\ i \in 1 .. Len(pollfds) /\ i + 1 \in Nat
  BY LenProperties DEF IInv, ListOK
<1>2. pollfds' \in Seq(Entries) /\ ScanFrom(pollfds', i + 1)
  BY <1>1, RemoveAtProperties DEF Terminate, del_pollfd
<1>3. pc' \in {"poll", "scan"} /\ i' \in Nat
  BY <1>1, <1>2, ScanGoes
<1> QED
  BY <1>3 DEF Terminate, ResetLocals

LEMMA LocalsNext == ListInv /\ LocalsOK /\ [Next]_vars => LocalsOK'
<1> SUFFICES ASSUME ListInv, LocalsOK, [Next]_vars PROVE LocalsOK'
  OBVIOUS
<1>1. IInv /\ pollfds \in Seq(Entries) /\ Len(pollfds) \in Nat /\ i \in Nat /\ i + 1 \in Nat
  <2>1. IInv /\ pollfds \in Seq(Entries) /\ i \in Nat
    BY DEF ListInv, IInv, ListOK, LocalsOK
  <2> QED
    BY <2>1, LenProperties
<1>2. CASE UNCHANGED <<leftover, i, limit, towrite, outbox, signals, pc>>
  BY <1>2 DEF LocalsOK
<1>3. ASSUME NEW c \in Clients, Connect(c)
      PROVE  LocalsOK'
  <2>1. outbox' \in [Clients -> 0 .. ReplyBuffer]
    BY <1>3, LoopAssumption DEF Connect, LocalsOK
  <2> QED
    BY <1>3, <2>1 DEF Connect, Locals, LocalsOK
<1>4. ASSUME NEW c \in Clients, ReadReply(c)
      PROVE  LocalsOK'
  <2>1. outbox' \in [Clients -> 0 .. ReplyBuffer]
    BY <1>4, LoopAssumption DEF ReadReply, LocalsOK
  <2> QED
    BY <1>4, <2>1 DEF ReadReply, daemonVars, Locals, LocalsOK
<1>5. ASSUME NEW c \in Clients, WriteUnit(c) \/ HangUp(c)
      PROVE  LocalsOK'
  BY <1>2, <1>5 DEF WriteUnit, HangUp, daemonVars, Locals
<1>6. CASE Kill \/ ChangeRules
  BY <1>6 DEF Kill, ChangeRules, daemonVars, clientVars, Locals, LocalsOK
<1>7. CASE Ended \/ UNCHANGED vars
  BY <1>2, <1>7 DEF Ended, vars, daemonVars, clientVars, Locals
<1>8. CASE Poll
  <2>1. pollfds' \in Seq(Entries)
    BY <1>1, <1>8, PollKeeps DEF IInv, ListOK
  <2>2. (pc' = "signal" /\ i' = 1) \/ ScanFrom(pollfds', 2)
    BY <1>8 DEF Poll
  <2>3. leftover' = FALSE /\ UNCHANGED <<limit, towrite, outbox, signals>>
    BY <1>8 DEF Poll, clientVars, Locals, LocalsOK
  <2>4. pc' \in {"signal", "poll", "scan"} /\ i' \in Nat
    BY <2>1, <2>2, ScanGoes
  <2> QED
    BY <2>3, <2>4 DEF LocalsOK
<1>9. CASE ReadSignal
  <2>1. pc' \in {"stopped", "poll", "scan"} /\ i' \in Nat
    BY <1>1, <1>9, ScanGoes DEF ReadSignal, Exit
  <2>2. UNCHANGED <<leftover, limit, towrite, outbox>> /\ signals' \subseteq signals
    BY <1>9 DEF ReadSignal, Locals
  <2> QED
    BY <2>1, <2>2 DEF LocalsOK
<1>10. CASE RereadRules
  <2>1. pc' \in {"stopped", "discard"} /\ i' \in Nat
    BY <1>1, <1>10 DEF RereadRules, Exit
  <2> QED
    BY <1>10, <2>1 DEF RereadRules, Locals, LocalsOK
<1>18. CASE DiscardEvents
  <2>1. pc' \in {"poll", "scan"} /\ i' \in Nat
    BY <1>1, <1>18, ScanGoes DEF DiscardEvents
  <2> QED
    BY <1>18, <2>1 DEF DiscardEvents, Locals, clientVars, LocalsOK
<1>11. CASE Accept
  BY <1>11 DEF Accept, NextPoll, Locals, LocalsOK
<1>12. ASSUME Terminate, pc \in {"read", "write"} \/ (pc = "scan" /\ Current \in Clients),
              outbox' = outbox, signals' \subseteq {"TERM", "PIPE"}
       PROVE  LocalsOK'
  <2>1. i \in 4 .. Len(pollfds)
    BY <1>1, <1>12, AtAClient
  <2>2. /\ pc' \in {"poll", "scan"} /\ i' \in Nat /\ leftover' = leftover
        /\ limit' = MessageLimit /\ towrite' = << >>
    BY <1>1, <1>12, <2>1, TerminateGoes
  <2> QED
    BY <1>12, <2>2, LoopAssumption DEF LocalsOK
<1>13. CASE HandleClient
  BY <1>12, <1>13 DEF HandleClient, Locals, LocalsOK
<1>14. CASE ReadHeader
  <2>1. UNCHANGED <<outbox, signals>> /\ pc = "read"
    BY <1>14 DEF ReadHeader, Take
  <2>2. CASE UNCHANGED <<leftover, pc, i, limit, towrite>>
    BY <2>1, <2>2 DEF LocalsOK
  <2> QED
    BY <1>12, <1>14, <2>1, <2>2 DEF ReadHeader, LocalsOK
<1>15. CASE ReadBody
  <2>1. UNCHANGED <<outbox, signals>> /\ pc = "read"
    BY <1>15 DEF ReadBody, Take
  <2>2. CASE UNCHANGED <<leftover, pc, i, limit, towrite>>
    BY <2>1, <2>2 DEF LocalsOK
  <2>3. CASE /\ \E others \in {<< >>} \cup {<<d>> : d \in ToSet(client_list) \ {Current}} :
                  towrite' = <<Current>> \o others
             /\ pc' = "write" /\ UNCHANGED <<leftover, i, limit>>
    <3>1. Current \in Clients /\ client_list \in Seq(Clients)
      BY <1>1, <2>1, AtAClient DEF ListInv, AgreeOK
    <3>2. ToSet(client_list) \subseteq Clients
      BY <3>1, LenProperties, ElementOfSeq DEF ToSet
    <3>3. PICK others \in {<< >>} \cup {<<d>> : d \in ToSet(client_list) \ {Current}} :
                  towrite' = <<Current>> \o others
      BY <2>3
    <3>4. others \in Seq(Clients)
      <4>1. CASE others = << >>
        BY <4>1
      <4>2. CASE \E d \in Clients : others = <<d>>
        BY <4>2
      <4> QED
        BY <3>2, <3>3, <4>1, <4>2
    <3>5. towrite' \in Seq(Clients) /\ Len(towrite') = 1 + Len(others)
      BY <3>1, <3>3, <3>4, ConcatProperties
    <3>6. towrite' # << >>
      BY <3>4, <3>5, LenProperties
    <3> QED
      BY <2>1, <2>3, <3>5, <3>6 DEF LocalsOK
  <2> QED
    BY <1>12, <1>15, <2>1, <2>2, <2>3 DEF ReadBody, LocalsOK
<1>16. CASE Cleanup
  <2>1. pc' \in {"poll", "scan"} /\ i' \in Nat
    BY <1>1, <1>16, ScanGoes DEF Cleanup
  <2>2. UNCHANGED <<leftover, outbox, signals>> /\ limit' = MessageLimit /\ towrite' = << >>
    BY <1>16 DEF Cleanup, clientVars, ResetLocals
  <2> QED
    BY <2>1, <2>2, LoopAssumption DEF LocalsOK
<1>17. CASE Write
  <2> DEFINE d == Head(towrite)
  <2>1. pc = "write" /\ towrite \in Seq(Clients) /\ towrite # << >>
    BY <1>17 DEF Write, LocalsOK
  <2>2. d \in Clients /\ Tail(towrite) \in Seq(Clients) /\ Len(Tail(towrite)) = Len(towrite) - 1
    BY <2>1, HeadTailProperties
  <2>3. outbox' \in [Clients -> 0 .. ReplyBuffer] /\ signals' \subseteq {"TERM", "PIPE"}
    <3>1. CASE /\ outbox[d] < ReplyBuffer /\ outbox' = [outbox EXCEPT ![d] = @ + 1]
               /\ UNCHANGED signals
      <4>1. outbox[d] + 1 \in 0 .. ReplyBuffer
        BY <2>2, <3>1, LoopAssumption DEF LocalsOK
      <4> QED
        BY <2>2, <3>1, <4>1 DEF LocalsOK
    <3>2. CASE signals' = signals \cup {"PIPE"} /\ UNCHANGED outbox
      BY <3>2 DEF LocalsOK
    <3> QED
      BY <1>17, <3>1, <3>2 DEF Write
  <2>4. CASE d = Current /\ conn[d] # "up"
    BY <1>12, <1>17, <2>1, <2>3, <2>4 DEF Write, LocalsOK
  <2>5. CASE Len(towrite) > 1 /\ towrite' = Tail(towrite) /\ UNCHANGED <<pc, i, limit, leftover>>
    <3>1. Len(towrite) \in Nat /\ Len(towrite') = Len(towrite) - 1 /\ Len(towrite') > 0
      BY <2>1, <2>2, <2>5, LenProperties
    <3>2. towrite' # << >>
      BY <3>1
    <3> QED
      BY <2>1, <2>2, <2>3, <2>5, <3>2 DEF LocalsOK
  <2>6. CASE NextMessage
    <3>1. CASE limit > 1
      <4>1. limit' = limit - 1 /\ pc' = "read" /\ towrite' = << >> /\ UNCHANGED <<i, leftover>>
        BY <2>6, <3>1 DEF NextMessage
      <4>2. limit' \in 1 .. MessageLimit
        BY <3>1, <4>1, LoopAssumption DEF LocalsOK
      <4> QED
        BY <2>1, <2>3, <4>1, <4>2 DEF LocalsOK
    <3>2. CASE ~(limit > 1)
      <4>1. pc' \in {"poll", "scan"} /\ i' \in Nat
        BY <1>1, <2>6, <3>2, ScanGoes DEF NextMessage
      <4>2. leftover' \in BOOLEAN /\ limit' = MessageLimit /\ towrite' = << >>
        BY <2>6, <3>2 DEF NextMessage, ResetLocals, LocalsOK
      <4> QED
        BY <2>1, <2>3, <4>1, <4>2, LoopAssumption DEF LocalsOK
    <3> QED
      BY <3>1, <3>2
  <2> QED
    BY <1>17, <2>4, <2>5, <2>6 DEF Write
<1> QED
  BY <1>3, <1>4, <1>5, <1>6, <1>7, <1>8, <1>9, <1>10, <1>11, <1>13, <1>14, <1>15, <1>16, <1>17,
     <1>18 DEF Next, Daemon

LEMMA BytesNext == ListInv /\ LocalsOK /\ BytesOK /\ [Next]_vars => BytesOK'
<1> SUFFICES ASSUME ListInv, LocalsOK, BytesOK, [Next]_vars PROVE BytesOK'
  OBVIOUS
<1>1. IInv /\ pollfds \in Seq(Entries) /\ Len(pollfds) \in Nat /\ i \in Nat /\ i + 1 \in Nat
  <2>1. IInv /\ pollfds \in Seq(Entries) /\ i \in Nat
    BY DEF ListInv, IInv, ListOK, LocalsOK
  <2> QED
    BY <2>1, LenProperties
<1>2. CASE UNCHANGED <<sent, taken, offset, size, pc, pollfds, i>>
  BY <1>2 DEF BytesOK, Current
<1>3. ASSUME NEW c \in Clients, Connect(c)
      PROVE  BytesOK'
  <2>1. /\ sent' = [sent EXCEPT ![c] = 0] /\ taken' = [taken EXCEPT ![c] = 0]
        /\ UNCHANGED <<offset, size, pc, pollfds, i>> /\ conn[c] = "none"
    BY <1>3 DEF Connect, Locals
  <2>2. pc = "read" => Current # c /\ Current \in Clients /\ Current' = Current
    BY <1>1, <2>1, AtAClient DEF Current
  <2> QED
    BY <2>1, <2>2 DEF BytesOK
<1>4. ASSUME NEW c \in Clients, WriteUnit(c)
      PROVE  BytesOK'
  BY <1>4 DEF WriteUnit, daemonVars, Locals, BytesOK, Current
<1>5. ASSUME NEW c \in Clients, ReadReply(c) \/ HangUp(c)
      PROVE  BytesOK'
  BY <1>2, <1>5 DEF ReadReply, HangUp, daemonVars, Locals
<1>6. CASE Kill \/ ChangeRules \/ Ended \/ UNCHANGED vars
  BY <1>2, <1>6 DEF Kill, ChangeRules, Ended, vars, daemonVars, clientVars, Locals
<1>7. ASSUME pc # "read", UNCHANGED <<sent, taken, offset, size>>, pc' # "read"
      PROVE  BytesOK'
  BY <1>7 DEF BytesOK
<1>8. CASE Poll
  <2>1. pollfds' \in Seq(Entries)
    BY <1>1, <1>8, PollKeeps DEF IInv, ListOK
  <2>2. pc' = "signal" \/ ScanFrom(pollfds', 2)
    BY <1>8 DEF Poll
  <2>3. pc' # "read"
    BY <2>1, <2>2, ScanGoes
  <2> QED
    BY <1>7, <1>8, <2>3 DEF Poll, clientVars, Locals
<1>9. CASE ReadSignal
  <2>1. pc' # "read"
    BY <1>1, <1>9, ScanGoes DEF ReadSignal, Exit
  <2> QED
    BY <1>7, <1>9, <2>1 DEF ReadSignal, Locals
<1>10. CASE RereadRules \/ DiscardEvents
  <2>1. pc' # "read"
    BY <1>1, <1>10, ScanGoes DEF RereadRules, DiscardEvents, Exit
  <2> QED
    BY <1>7, <1>10, <2>1 DEF RereadRules, DiscardEvents, clientVars, Locals
<1>11. CASE Accept
  BY <1>7, <1>11 DEF Accept, NextPoll, Locals
<1>12. ASSUME Terminate, pc \in {"read", "write"} \/ (pc = "scan" /\ Current \in Clients),
              UNCHANGED sent, taken' \in [Clients -> Nat], \A c \in Clients : taken'[c] <= sent[c]
       PROVE  BytesOK'
  <2>1. i \in 4 .. Len(pollfds)
    BY <1>1, <1>12, AtAClient
  <2>2. pc' \in {"poll", "scan"} /\ offset' = 0 /\ size' = 1
    BY <1>1, <1>12, <2>1, TerminateGoes
  <2> QED
    BY <1>12, <2>2 DEF BytesOK
<1>13. ASSUME ScanFrom(pollfds, i + 1), ResetLocals, UNCHANGED <<sent, taken>>
       PROVE  BytesOK'
  <2>1. pc' # "read"
    BY <1>1, <1>13, ScanGoes
  <2> QED
    BY <1>13, <2>1 DEF ResetLocals, BytesOK
<1>14. CASE HandleClient
  <2>1. pc = "scan" /\ Current \in Clients /\ UNCHANGED <<sent, taken>>
    BY <1>14 DEF HandleClient
  <2>2. CASE Terminate
    BY <1>12, <2>1, <2>2 DEF BytesOK
  <2>3. CASE pc' = "read" /\ UNCHANGED <<pollfds, i, offset, size>>
    BY <2>1, <2>3 DEF BytesOK, Current
  <2> QED
    BY <1>14, <2>2, <2>3 DEF HandleClient, Locals
<1>15. CASE ReadHeader
  <2>1. /\ pc = "read" /\ offset = 0 /\ Pending(Current) > 0 /\ UNCHANGED sent
        /\ taken' = [taken EXCEPT ![Current] = @ + 1]
    BY <1>15 DEF ReadHeader, Take
  <2>2. Current \in Clients
    BY <1>1, <2>1, AtAClient
  <2>3. /\ taken' \in [Clients -> Nat] /\ \A c \in Clients : taken'[c] <= sent[c]
        /\ taken'[Current] >= 1
    BY <2>1, <2>2 DEF Pending, BytesOK
  <2>4. ASSUME offset' = 1, size' \in Nat, size' > 1, UNCHANGED <<pollfds, pc, i>>
        PROVE  BytesOK'
    <3>1. Current' = Current
      BY <2>4 DEF Current
    <3> QED
      BY <2>1, <2>3, <2>4, <3>1 DEF BytesOK
  <2>5. CASE offset' = 1 /\ size' = MsgLen /\ UNCHANGED <<pollfds, pc, i>>
    BY <2>4, <2>5, LoopAssumption
  <2>6. ASSUME NEW claimed \in 0 .. MaxGarbage, ~(claimed < 2), offset' = 1, size' = claimed,
               UNCHANGED <<pollfds, pc, i>>
        PROVE  BytesOK'
    BY <2>4, <2>6, LoopAssumption
  <2>7. CASE Terminate
    BY <1>12, <2>1, <2>3, <2>7
  <2> QED
    BY <1>15, <2>5, <2>6, <2>7 DEF ReadHeader
<1>16. CASE ReadBody
  <2> DEFINE n == IF size - offset <= Pending(Current) THEN size - offset ELSE Pending(Current)
  <2>1. /\ pc = "read" /\ offset > 0 /\ Pending(Current) > 0 /\ UNCHANGED sent
        /\ taken' = [taken EXCEPT ![Current] = @ + n]
    BY <1>16 DEF ReadBody, Take
  <2>2. Current \in Clients
    BY <1>1, <2>1, AtAClient
  <2>3. n \in Nat /\ n >= 1 /\ n <= size - offset /\ taken[Current] + n <= sent[Current]
    BY <2>1, <2>2 DEF Pending, BytesOK
  <2> HIDE DEF n
  <2>4. /\ taken' \in [Clients -> Nat] /\ \A c \in Clients : taken'[c] <= sent[c]
        /\ taken'[Current] = taken[Current] + n
    BY <2>1, <2>2, <2>3 DEF BytesOK
  <2>5. CASE offset + n < size /\ offset' = offset + n /\ UNCHANGED <<pollfds, pc, i, size>>
    <3>1. Current' = Current
      BY <2>5 DEF Current
    <3> QED
      BY <2>1, <2>2, <2>3, <2>4, <2>5, <3>1 DEF BytesOK
  <2>6. CASE pc' = "write" /\ offset' = 0 /\ size' = 1
    BY <2>1, <2>4, <2>6 DEF BytesOK
  <2>7. CASE Terminate
    BY <1>12, <2>1, <2>4, <2>7
  <2> QED
    BY <1>16, <2>5, <2>6, <2>7 DEF ReadBody, n
<1>17. CASE Cleanup
  BY <1>13, <1>17 DEF Cleanup, clientVars
<1>18. CASE Write
  <2>1. pc = "write" /\ UNCHANGED <<sent, taken>> /\ Current \in Clients
    BY <1>1, <1>18, AtAClient DEF Write
  <2>2. CASE Terminate
    BY <1>12, <2>1, <2>2 DEF BytesOK
  <2>3. CASE UNCHANGED <<pc, i, offset, size, pollfds>>
    BY <1>2, <2>1, <2>3
  <2>4. CASE NextMessage /\ UNCHANGED pollfds
    <3>1. CASE pc' = "read" /\ UNCHANGED <<i, offset, size>>
      BY <2>1, <2>4, <3>1 DEF BytesOK, Current
    <3> QED
      BY <1>13, <2>1, <2>4, <3>1 DEF NextMessage
  <2> QED
    BY <1>18, <2>2, <2>3, <2>4 DEF Write
<1> QED
  BY <1>3, <1>4, <1>5, <1>6, <1>8, <1>9, <1>10, <1>11, <1>14, <1>15, <1>16, <1>17, <1>18
     DEF Next, Daemon

-----------------------------------------------------------------------------
(* The numbers of messages and of their units.                              *)

LEMMA Divided ==
  ASSUME NEW k \in Nat
  PROVE  /\ k \div MsgLen \in Nat
         /\ (k \div MsgLen) * MsgLen <= k /\ k < (k \div MsgLen) * MsgLen + MsgLen
<1>1. MsgLen \in Nat /\ MsgLen > 1
  BY LoopAssumption
<1>2. k = MsgLen * (k \div MsgLen) + (k % MsgLen) /\ k % MsgLen \in 0 .. (MsgLen - 1)
      /\ k \div MsgLen \in Nat
  BY <1>1
<1> QED
  BY <1>1, <1>2

LEMMA Products ==
  ASSUME NEW a \in Nat, NEW b \in Nat
  PROVE  /\ a * MsgLen \in Nat
         /\ a * MsgLen < b * MsgLen => a < b
         /\ a < b => a * MsgLen + MsgLen <= b * MsgLen
         /\ a <= b => a * MsgLen <= b * MsgLen
         /\ (a + 1) * MsgLen = a * MsgLen + MsgLen
<1>1. MsgLen \in Nat /\ MsgLen > 1
  BY LoopAssumption
<1> QED
  BY <1>1

LEMMA Product ==
  ASSUME NEW a \in Nat
  PROVE  a * MsgLen \in Nat
BY LoopAssumption

(* Where a message begins, all before it are whole.                         *)
LEMMA Begins ==
  ASSUME NEW x \in Nat, BeginsMessage(x + 1)
  PROVE  x = (x \div MsgLen) * MsgLen /\ MessageOf(x + 1) = x \div MsgLen + 1
<1>1. MsgLen \in Nat /\ MsgLen > 1
  BY LoopAssumption
<1>2. x + 1 = MsgLen * ((x + 1) \div MsgLen) + 1 /\ (x + 1) \div MsgLen \in Nat
  BY <1>1 DEF BeginsMessage
<1>3. x = MsgLen * ((x + 1) \div MsgLen)
  BY <1>1, <1>2
<1>4. x \div MsgLen = (x + 1) \div MsgLen
  BY <1>1, <1>2, <1>3
<1>5. (x + 1) - 1 = x
  OBVIOUS
<1> QED
  BY <1>1, <1>3, <1>4, <1>5 DEF MessageOf

(* What is known of the messages of a connection of which the first x units *)
(* are done with: h were served, t thrown away in part.                     *)
Accounted(h, t, x) ==
  /\ \A a \in 1 .. Len(h) : h[a] * MsgLen <= x
  /\ \A m \in t : (m - 1) * MsgLen < x
  /\ \A a, b \in 1 .. Len(h) : a < b => h[a] < h[b]
  /\ \A a \in 1 .. Len(h) : h[a] \notin t

(* Every message that came whole within the first x units is in h or t.     *)
Covered(h, t, x) ==
  \A m \in 1 .. (x \div MsgLen) : m \in t \/ \E a \in 1 .. Len(h) : h[a] = m

Numbers == Nat \ {0}

LEMMA AccountedProducts ==
  ASSUME NEW h \in Seq(Numbers), NEW t \in SUBSET Numbers
  PROVE  /\ \A a \in 1 .. Len(h) : h[a] \in Nat /\ h[a] * MsgLen \in Nat
         /\ \A m \in t : m \in Nat /\ m - 1 \in Nat /\ (m - 1) * MsgLen \in Nat
<1>1. ASSUME NEW a \in 1 .. Len(h)
      PROVE  h[a] \in Nat /\ h[a] * MsgLen \in Nat
  <2>1. h[a] \in Nat
    BY ElementOfSeq, LenProperties DEF Numbers
  <2> QED
    BY <2>1, Product
<1>2. ASSUME NEW m \in t
      PROVE  m \in Nat /\ m - 1 \in Nat /\ (m - 1) * MsgLen \in Nat
  <2>1. m \in Nat /\ m - 1 \in Nat
    BY DEF Numbers
  <2> QED
    BY <2>1, Product
<1> QED
  BY <1>1, <1>2

LEMMA AccountedStart == Accounted(<< >>, {}, 0) /\ Covered(<< >>, {}, 0)
<1>1. 0 \div MsgLen = 0
  BY LoopAssumption
<1> QED
  BY <1>1 DEF Accounted, Covered

(* A connection that ends has no more to account for.                       *)
LEMMA AccountedEnd ==
  ASSUME NEW h \in Seq(Numbers), NEW t \in SUBSET Numbers, NEW x \in Nat, NEW y \in Nat, x <= y,
         Accounted(h, t, x)
  PROVE  Accounted(h, t, y)
<1>1. \A a \in 1 .. Len(h) : h[a] \in Nat /\ h[a] * MsgLen \in Nat
  BY AccountedProducts
<1>2. \A m \in t : m - 1 \in Nat /\ (m - 1) * MsgLen \in Nat
  BY AccountedProducts
<1>3. \A a \in 1 .. Len(h) : h[a] * MsgLen <= y
  BY <1>1 DEF Accounted
<1>4. \A m \in t : (m - 1) * MsgLen < y
  BY <1>2 DEF Accounted
<1> QED
  BY <1>3, <1>4 DEF Accounted

(* The rest of the buffer, units x + 1 to y, is thrown away.                *)
LEMMA AccountedThrow ==
  ASSUME NEW h \in Seq(Numbers), NEW t \in SUBSET Numbers, NEW x \in Nat, NEW y \in Nat, x <= y,
         Accounted(h, t, x)
  PROVE  /\ {MessageOf(k) : k \in (x + 1) .. y} \in SUBSET Numbers
         /\ Accounted(h, t \cup {MessageOf(k) : k \in (x + 1) .. y}, y)
         /\ Covered(h, t, x) => Covered(h, t \cup {MessageOf(k) : k \in (x + 1) .. y}, y)
<1> DEFINE T == {MessageOf(k) : k \in (x + 1) .. y}
<1>1. \A a \in 1 .. Len(h) : h[a] \in Nat /\ h[a] * MsgLen \in Nat /\ h[a] * MsgLen <= x
  BY AccountedProducts DEF Accounted
<1>2. Accounted(h, t, y)
  BY AccountedEnd
<1>3. ASSUME NEW k \in (x + 1) .. y
      PROVE  /\ MessageOf(k) \in Numbers /\ MessageOf(k) - 1 \in Nat
             /\ (MessageOf(k) - 1) * MsgLen <= k - 1
             /\ k - 1 < (MessageOf(k) - 1) * MsgLen + MsgLen
  <2>1. k - 1 \in Nat
    OBVIOUS
  <2> DEFINE q == (k - 1) \div MsgLen
  <2>2. q \in Nat /\ q * MsgLen <= k - 1 /\ k - 1 < q * MsgLen + MsgLen
    BY <2>1, Divided
  <2> HIDE DEF q
  <2>3. MessageOf(k) = q + 1
    BY DEF MessageOf, q
  <2>4. MessageOf(k) - 1 = q
    BY <2>2, <2>3
  <2> QED
    BY <2>2, <2>3, <2>4 DEF Numbers
<1>4. T \in SUBSET Numbers
  BY <1>3
<1>5. \A m \in T : (m - 1) * MsgLen < y
  <2>1. ASSUME NEW k \in (x + 1) .. y
        PROVE  (MessageOf(k) - 1) * MsgLen < y
    <3>1. (MessageOf(k) - 1) * MsgLen \in Nat
      BY <1>3, Products
    <3> QED
      BY <1>3, <3>1
  <2> QED
    BY <2>1
<1>6. \A a \in 1 .. Len(h) : h[a] \notin T
  <2>1. ASSUME NEW a \in 1 .. Len(h), NEW k \in (x + 1) .. y, h[a] = MessageOf(k)
        PROVE  FALSE
    <3> DEFINE q == MessageOf(k) - 1
    <3>1. q \in Nat /\ h[a] = q + 1 /\ k - 1 < q * MsgLen + MsgLen
      BY <1>1, <1>3, <2>1
    <3> HIDE DEF q
    <3>2. h[a] * MsgLen = q * MsgLen + MsgLen /\ q * MsgLen \in Nat
      BY <3>1, Products
    <3> QED
      BY <1>1, <3>1, <3>2
  <2> QED
    BY <2>1
<1>7. ASSUME Covered(h, t, x), NEW m \in 1 .. (y \div MsgLen)
      PROVE  m \in t \cup T \/ \E a \in 1 .. Len(h) : h[a] = m
  <2>1. x \div MsgLen \in Nat /\ y \div MsgLen \in Nat /\ x < (x \div MsgLen) * MsgLen + MsgLen
        /\ (y \div MsgLen) * MsgLen <= y
    BY Divided
  <2>2. CASE m <= x \div MsgLen
    BY <1>7, <2>1, <2>2 DEF Covered
  <2>3. CASE ~(m <= x \div MsgLen)
    <3> DEFINE k == m * MsgLen
    <3>1. m - 1 \in Nat /\ x \div MsgLen < m
      BY <2>1, <2>3
    <3>2. (x \div MsgLen) * MsgLen + MsgLen <= k /\ k <= (y \div MsgLen) * MsgLen /\ k \in Nat
          /\ (x \div MsgLen) * MsgLen \in Nat /\ (y \div MsgLen) * MsgLen \in Nat
      BY <2>1, <3>1, Products
    <3>3. k \in (x + 1) .. y
      BY <2>1, <3>2, LoopAssumption
    <3>4. MessageOf(k) = m
      <4> DEFINE r == MessageOf(k) - 1
      <4> HIDE DEF k
      <4>1. r \in Nat /\ r * MsgLen <= k - 1 /\ k - 1 < r * MsgLen + MsgLen /\ MessageOf(k) = r + 1
        BY <1>3, <3>3 DEF Numbers
      <4> HIDE DEF r
      <4>2. r * MsgLen \in Nat
        BY <4>1, Product
      <4>3. k = (m - 1) * MsgLen + MsgLen /\ (m - 1) * MsgLen \in Nat /\ (m - 1) + 1 = m
        <5>1. (m - 1) + 1 = m
          OBVIOUS
        <5>2. ((m - 1) + 1) * MsgLen = (m - 1) * MsgLen + MsgLen /\ (m - 1) * MsgLen \in Nat
          BY <3>1, Products
        <5> QED
          BY <5>1, <5>2 DEF k
      <4>4. (r + 1) * MsgLen = r * MsgLen + MsgLen /\ (r + 1) \in Nat
        BY <4>1, Products
      <4>5. r * MsgLen < m * MsgLen
        BY <3>2, <4>2, <4>1 DEF k
      <4>6. r < m
        BY <4>1, <4>5, Products
      <4>7. (m - 1) * MsgLen < (r + 1) * MsgLen
        BY <3>2, <4>2, <4>1, <4>3, <4>4, LoopAssumption
      <4>8. m - 1 < r + 1
        BY <3>1, <4>4, <4>7, Products
      <4> QED
        BY <4>1, <4>6, <4>8
    <3> QED
      BY <3>3, <3>4
  <2> QED
    BY <2>2, <2>3
<1> QED
  BY <1>2, <1>4, <1>5, <1>6, <1>7 DEF Accounted, Covered

(* The message that begins after unit x is served.                          *)
LEMMA AccountedServe ==
  ASSUME NEW h \in Seq(Numbers), NEW t \in SUBSET Numbers, NEW x \in Nat,
         Accounted(h, t, x), BeginsMessage(x + 1)
  PROVE  /\ MessageOf(x + 1) \in Numbers
         /\ Accounted(Append(h, MessageOf(x + 1)), t, x + MsgLen)
         /\ Covered(h, t, x) => Covered(Append(h, MessageOf(x + 1)), t, x + MsgLen)
<1> DEFINE q == x \div MsgLen
           n == Len(h)
           g == Append(h, q + 1)
<1>1. x = q * MsgLen /\ MessageOf(x + 1) = q + 1 /\ q \in Nat /\ MsgLen \in Nat
  BY Begins, Divided, LoopAssumption
<1>2. (q + 1) * MsgLen = x + MsgLen
  BY <1>1, Products
<1>3. (x + MsgLen) \div MsgLen = q + 1
  <2> DEFINE r == (x + MsgLen) \div MsgLen
  <2>1. r \in Nat /\ r * MsgLen <= x + MsgLen /\ x + MsgLen < r * MsgLen + MsgLen
    BY <1>1, Divided
  <2> HIDE DEF r, q
  <2>2. (r + 1) * MsgLen = r * MsgLen + MsgLen /\ r * MsgLen \in Nat /\ r + 1 \in Nat /\ q + 1 \in Nat
    BY <1>1, <2>1, Products
  <2>3. (q + 1) * MsgLen < (r + 1) * MsgLen
    BY <1>2, <2>1, <2>2
  <2>4. (q + 1) + 1 \in Nat /\ ((q + 1) + 1) * MsgLen = (q + 1) * MsgLen + MsgLen
    BY <1>1, <2>2, Products
  <2>5. r * MsgLen < ((q + 1) + 1) * MsgLen
    BY <1>1, <1>2, <2>1, <2>2, <2>4, LoopAssumption
  <2>6. q + 1 < r + 1 /\ r < (q + 1) + 1
    BY <2>1, <2>2, <2>3, <2>4, <2>5, Products
  <2> QED
    BY <1>1, <2>1, <2>6 DEF r
<1>4. /\ n \in Nat /\ q + 1 \in Numbers /\ g \in Seq(Numbers) /\ Len(g) = n + 1 /\ g[n + 1] = q + 1
      /\ \A a \in 1 .. n : g[a] = h[a] /\ h[a] \in Numbers
  BY <1>1, AppendProperties, LenProperties, ElementOfSeq DEF Numbers
<1> HIDE DEF q, g
<1>5. \A a \in 1 .. n : h[a] <= q
  <2>1. TAKE a \in 1 .. n
  <2>2. h[a] \in Nat /\ h[a] * MsgLen <= q * MsgLen /\ h[a] * MsgLen \in Nat
    BY <1>1, <1>4, Products DEF Accounted, Numbers
  <2>3. ~(q < h[a])
    BY <1>1, <2>2, Products, LoopAssumption
  <2> QED
    BY <1>1, <2>2, <2>3
<1>6. \A m \in t : m <= q
  <2>1. TAKE m \in t
  <2>2. m - 1 \in Nat /\ (m - 1) * MsgLen < q * MsgLen
    BY <1>1 DEF Accounted, Numbers
  <2>3. m - 1 < q
    BY <1>1, <2>2, Products
  <2> QED
    BY <1>1, <2>2, <2>3, AccountedProducts
<1>7. \A a \in 1 .. (n + 1) : a = n + 1 \/ a \in 1 .. n
  BY <1>4
<1>8. \A a \in 1 .. Len(g) : g[a] * MsgLen <= x + MsgLen
  <2>1. \A a \in 1 .. n : h[a] * MsgLen <= x /\ h[a] * MsgLen \in Nat
    BY AccountedProducts DEF Accounted
  <2> QED
    BY <1>1, <1>2, <1>4, <1>7, <2>1
<1>9. \A m \in t : (m - 1) * MsgLen < x + MsgLen
  <2>1. \A m \in t : (m - 1) * MsgLen \in Nat /\ (m - 1) * MsgLen < x
    BY AccountedProducts DEF Accounted
  <2> QED
    BY <1>1, <2>1
<1>10. \A a, b \in 1 .. Len(g) : a < b => g[a] < g[b]
  <2>1. TAKE a, b \in 1 .. Len(g)
  <2>2. CASE b = n + 1
    <3>1. a < b => a \in 1 .. n
      BY <1>4, <2>2
    <3>2. a \in 1 .. n => g[a] <= q /\ g[a] \in Nat
      BY <1>4, <1>5 DEF Numbers
    <3> QED
      BY <1>1, <1>4, <2>2, <3>1, <3>2
  <2>3. CASE b \in 1 .. n
    <3>1. a < b => a \in 1 .. n
      BY <1>4, <2>3
    <3> QED
      BY <1>4, <2>3, <3>1 DEF Accounted
  <2> QED
    BY <1>4, <1>7, <2>2, <2>3
<1>11. \A a \in 1 .. Len(g) : g[a] \notin t
  <2>1. q + 1 \notin t
    BY <1>1, <1>6
  <2> QED
    BY <1>4, <1>7, <2>1 DEF Accounted
<1>12. ASSUME Covered(h, t, x), NEW m \in 1 .. (q + 1)
       PROVE  m \in t \/ \E a \in 1 .. Len(g) : g[a] = m
  <2>1. CASE m = q + 1
    <3>1. n + 1 \in 1 .. Len(g)
      BY <1>4
    <3> QED
      BY <1>4, <2>1, <3>1
  <2>2. CASE m \in 1 .. q
    <3>1. m \in t \/ \E a \in 1 .. n : h[a] = m
      BY <1>12, <2>2 DEF Covered, q
    <3>2. \A a \in 1 .. n : a \in 1 .. Len(g)
      BY <1>4
    <3> QED
      BY <1>4, <3>1, <3>2
  <2> QED
    BY <1>1, <2>1, <2>2
<1>13. Accounted(g, t, x + MsgLen) /\ (Covered(h, t, x) => Covered(g, t, x + MsgLen))
  BY <1>3, <1>8, <1>9, <1>10, <1>11, <1>12 DEF Accounted, Covered
<1> QED
  BY <1>1, <1>4, <1>13 DEF g

(* The units of a connection that the daemon has done with.                 *)
Done(c) == taken[c] - (IF pc = "read" /\ Current = c THEN offset ELSE 0)

(* What was served and thrown away, connection by connection; and a buffer  *)
(* that begins with a message has room for exactly this message.            *)
HistoryOK ==
  /\ handled \in [Clients -> Seq(Numbers)] /\ thrown \in [Clients -> SUBSET Numbers]
  /\ \A c \in Clients :
       /\ Accounted(handled[c], thrown[c], Done(c))
       /\ conn[c] # "none" => Covered(handled[c], thrown[c], Done(c))
  /\ pc = "read" /\ offset > 0 /\ BeginsMessage(FirstUnit) => size = MsgLen

LEMMA DoneType ==
  ASSUME BytesOK, NEW c \in Clients
  PROVE  Done(c) \in Nat /\ Done(c) <= taken[c] /\ (pc # "read" => Done(c) = taken[c])
BY DEF BytesOK, Done

LEMMA DoneTypeNext ==
  ASSUME BytesOK', NEW c \in Clients
  PROVE  Done(c)' \in Nat /\ (pc' # "read" => Done(c)' = taken'[c])
BY DEF BytesOK, Done

(* Where nothing is served and nothing thrown away, no connection is new    *)
(* and nothing more of a living one is done with.                           *)
LEMMA HistoryStays ==
  ASSUME BytesOK, HistoryOK, BytesOK', UNCHANGED <<handled, thrown>>,
         \A c \in Clients : \/ Done(c)' = Done(c) /\ (conn'[c] # "none" => conn[c] # "none")
                            \/ Done(c)' >= Done(c) /\ conn'[c] = "none",
         pc' = "read" /\ offset' > 0 /\ BeginsMessage(FirstUnit)' => size' = MsgLen
  PROVE  HistoryOK'
<1>1. ASSUME NEW c \in Clients
      PROVE  /\ Accounted(handled[c], thrown[c], Done(c)')
             /\ conn'[c] # "none" => Covered(handled[c], thrown[c], Done(c)')
  <2> DEFINE x == Done(c)
             y == Done(c)'
  <2>1. /\ x \in Nat /\ y \in Nat /\ handled[c] \in Seq(Numbers) /\ thrown[c] \in SUBSET Numbers
        /\ Accounted(handled[c], thrown[c], x)
        /\ conn[c] # "none" => Covered(handled[c], thrown[c], x)
    BY DoneType, DoneTypeNext DEF HistoryOK
  <2>2. \/ y = x /\ (conn'[c] # "none" => conn[c] # "none")
        \/ y >= x /\ conn'[c] = "none"
    OBVIOUS
  <2> HIDE DEF x, y
  <2>3. CASE y = x /\ (conn'[c] # "none" => conn[c] # "none")
    BY <2>1, <2>3 DEF y
  <2>4. CASE y >= x /\ conn'[c] = "none"
    <3>1. Accounted(handled[c], thrown[c], y)
      BY <2>1, <2>4, AccountedEnd
    <3> QED
      BY <2>4, <3>1 DEF y
  <2> QED
    BY <2>2, <2>3, <2>4 DEF y
<1> QED
  BY <1>1 DEF HistoryOK

(* The same for one client whose connection ends.                           *)
LEMMA HistoryEnds ==
  ASSUME ListInv, BytesOK, HistoryOK, BytesOK', Terminate,
         pc \in {"read", "write"} \/ (pc = "scan" /\ Current \in Clients),
         UNCHANGED <<handled, thrown>>,
         \A c \in Clients : taken'[c] >= taken[c] /\ (c # Current => taken'[c] = taken[c])
  PROVE  HistoryOK'
<1>1. IInv
  BY DEF ListInv
<1>2. i \in 4 .. Len(pollfds) /\ Current \in Clients
  BY <1>1, AtAClient
<1>3. pc' \in {"poll", "scan"} /\ conn' = [conn EXCEPT ![Current] = "none"]
  BY <1>1, <1>2, TerminateGoes
<1>4. ASSUME NEW c \in Clients
      PROVE  \/ Done(c)' = Done(c) /\ (conn'[c] # "none" => conn[c] # "none")
             \/ Done(c)' >= Done(c) /\ conn'[c] = "none"
  <2>1. Done(c)' = taken'[c] /\ Done(c) <= taken[c] /\ Done(c) \in Nat /\ taken[c] \in Nat
        /\ taken'[c] \in Nat
    BY <1>3, DoneType, DoneTypeNext DEF BytesOK
  <2>2. CASE c = Current
    BY <1>1, <1>2, <1>3, <2>1, <2>2 DEF IInv, CredentialsOK
  <2>3. CASE c # Current
    <3>1. Done(c) = taken[c]
      BY <2>3 DEF Done, BytesOK
    <3> QED
      BY <1>1, <1>2, <1>3, <2>1, <2>3, <3>1 DEF IInv, CredentialsOK
  <2> QED
    BY <2>2, <2>3
<1> QED
  BY <1>3, <1>4, HistoryStays

(* The daemon is with no client before the step and after it.               *)
LEMMA HistoryElsewhere ==
  ASSUME BytesOK, HistoryOK, BytesOK', UNCHANGED <<handled, thrown, taken>>, pc # "read", pc' # "read",
         \A c \in Clients : conn'[c] # "none" => conn[c] # "none"
  PROVE  HistoryOK'
<1>1. \A c \in Clients : Done(c)' = Done(c)
  BY DoneType, DoneTypeNext
<1> QED
  BY <1>1, HistoryStays

LEMMA ConnectHistory ==
  ASSUME ListInv, BytesOK, HistoryOK, BytesOK', NEW c \in Clients, Connect(c)
  PROVE  HistoryOK'
<1>1. /\ handled' = [handled EXCEPT ![c] = << >>] /\ thrown' = [thrown EXCEPT ![c] = {}]
      /\ taken' = [taken EXCEPT ![c] = 0] /\ conn[c] = "none" /\ conn' = [conn EXCEPT ![c] = "up"]
      /\ UNCHANGED <<pc, i, offset, size, pollfds>>
  BY DEF Connect, Locals
<1>2. IInv /\ conn \in [Clients -> {"none", "up", "down"}]
  BY DEF ListInv, IInv, CredentialsOK
<1>3. Current' = Current /\ (pc = "read" => Current \in Clients /\ Current # c)
  BY <1>1, <1>2, AtAClient DEF Current
<1>4. ASSUME NEW d \in Clients
      PROVE  /\ Accounted(handled'[d], thrown'[d], Done(d)')
             /\ conn'[d] # "none" => Covered(handled'[d], thrown'[d], Done(d)')
  <2>1. CASE d = c
    <3>1. Done(d)' = 0
      BY <1>1, <1>3, <2>1 DEF Done, BytesOK
    <3>2. handled'[d] = << >> /\ thrown'[d] = {} /\ conn'[d] # "none"
      BY <1>1, <1>2, <2>1 DEF HistoryOK
    <3> QED
      BY <3>1, <3>2, AccountedStart
  <2>2. CASE d # c
    <3>1. Done(d)' = Done(d) /\ handled'[d] = handled[d] /\ thrown'[d] = thrown[d] /\ conn'[d] = conn[d]
      BY <1>1, <1>2, <1>3, <2>2 DEF Done, BytesOK, HistoryOK
    <3> QED
      BY <3>1 DEF HistoryOK
  <2> QED
    BY <2>1, <2>2
<1>5. pc' = "read" => FirstUnit' = FirstUnit
  BY <1>1, <1>3 DEF FirstUnit, BytesOK
<1>6. handled' \in [Clients -> Seq(Numbers)] /\ thrown' \in [Clients -> SUBSET Numbers]
  BY <1>1 DEF HistoryOK
<1> QED
  BY <1>1, <1>4, <1>5, <1>6 DEF HistoryOK, BeginsMessage

LEMMA ReadHeaderHistory ==
  ASSUME ListInv, BytesOK, HistoryOK, BytesOK', ReadHeader
  PROVE  HistoryOK'
<1>1. /\ pc = "read" /\ offset = 0 /\ UNCHANGED <<handled, thrown>>
      /\ taken' = [taken EXCEPT ![Current] = @ + 1]
  BY DEF ReadHeader, Take
<1>2. IInv /\ Current \in Clients /\ taken \in [Clients -> Nat]
  BY <1>1, AtAClient DEF ListInv, BytesOK
<1>3. ASSUME offset' = 1, UNCHANGED <<pollfds, pc, i, conn>>,
             BeginsMessage(taken[Current] + 1) => size' = MsgLen
      PROVE  HistoryOK'
  <2>1. Current' = Current
    BY <1>3 DEF Current
  <2>2. \A c \in Clients : Done(c)' = Done(c)
    BY <1>1, <1>2, <1>3, <2>1 DEF Done
  <2>3. FirstUnit' = taken[Current] + 1
    BY <1>1, <1>2, <1>3, <2>1 DEF FirstUnit
  <2>4. BeginsMessage(FirstUnit)' => size' = MsgLen
    BY <1>3, <2>3 DEF BeginsMessage
  <2> QED
    BY <1>1, <1>3, <2>2, <2>4, HistoryStays
<1>4. CASE Terminate
  BY <1>1, <1>2, <1>4, HistoryEnds
<1> QED
  BY <1>1, <1>3, <1>4 DEF ReadHeader

LEMMA ReadBodyHistory ==
  ASSUME ListInv, BytesOK, HistoryOK, BytesOK', ReadBody
  PROVE  HistoryOK'
<1> DEFINE n == IF size - offset <= Pending(Current) THEN size - offset ELSE Pending(Current)
<1>1. /\ pc = "read" /\ offset > 0 /\ Pending(Current) > 0 /\ thrown' = thrown
      /\ taken' = [taken EXCEPT ![Current] = @ + n]
  BY DEF ReadBody, Take
<1>2. IInv /\ Current \in Clients /\ taken \in [Clients -> Nat] /\ offset \in Nat /\ size \in Nat
      /\ offset < size /\ offset <= taken[Current] /\ conn[Current] # "none"
  BY <1>1, AtAClient DEF ListInv, BytesOK
<1>3. n \in Nat /\ n >= 1 /\ n <= size - offset
  BY <1>1, <1>2 DEF Pending, BytesOK
<1>4. \/ offset + n < size /\ offset' = offset + n /\ UNCHANGED <<pollfds, pc, i, size, conn, handled>>
      \/ /\ ~(offset + n < size) /\ BeginsMessage(FirstUnit)
         /\ handled' = [handled EXCEPT ![Current] = Append(@, MessageOf(FirstUnit))]
         /\ pc' = "write" /\ UNCHANGED conn
      \/ Terminate /\ UNCHANGED handled
  BY DEF ReadBody
<1> HIDE DEF n
<1>5. CASE offset + n < size /\ offset' = offset + n
           /\ UNCHANGED <<pollfds, pc, i, size, conn, handled>>
  <2>1. Current' = Current
    BY <1>5 DEF Current
  <2>2. \A c \in Clients : Done(c)' = Done(c)
    BY <1>1, <1>2, <1>3, <1>5, <2>1 DEF Done
  <2>3. FirstUnit' = FirstUnit
    BY <1>1, <1>2, <1>3, <1>5, <2>1 DEF FirstUnit
  <2>4. BeginsMessage(FirstUnit)' => size' = MsgLen
    BY <1>1, <1>5, <2>3 DEF BeginsMessage, HistoryOK
  <2> QED
    BY <1>1, <1>5, <2>2, <2>4, HistoryStays
<1>6. CASE /\ ~(offset + n < size) /\ BeginsMessage(FirstUnit)
           /\ handled' = [handled EXCEPT ![Current] = Append(@, MessageOf(FirstUnit))]
           /\ pc' = "write" /\ UNCHANGED conn
  <2> DEFINE x == Done(Current)
  <2>1. size = MsgLen
    BY <1>1, <1>6 DEF HistoryOK
  <2>2. n = size - offset
    BY <1>2, <1>3, <1>6
  <2>3. x = taken[Current] - offset
    BY <1>1 DEF Done
  <2>4. taken[Current] \in Nat /\ taken'[Current] = taken[Current] + n
    BY <1>1, <1>2
  <2>5. \A c \in Clients : Done(c)' = taken'[c]
    BY <1>6, DoneTypeNext
  <2>6. /\ x \in Nat /\ FirstUnit = x + 1
        /\ \A c \in Clients : c = Current => Done(c)' = x + MsgLen
    BY <1>2, <1>3, <2>1, <2>2, <2>3, <2>4, <2>5 DEF FirstUnit
  <2> HIDE DEF x
  <2>7. /\ handled[Current] \in Seq(Numbers) /\ thrown[Current] \in SUBSET Numbers
        /\ Accounted(handled[Current], thrown[Current], x)
        /\ Covered(handled[Current], thrown[Current], x)
    BY <1>2 DEF HistoryOK, x
  <2>8. BeginsMessage(x + 1) /\ MessageOf(FirstUnit) = MessageOf(x + 1)
    BY <1>6, <2>6
  <2>9. \A c \in Clients : c # Current => Done(c)' = Done(c)
    BY <1>1, <1>2, <1>6 DEF Done
  <2>10. /\ MessageOf(x + 1) \in Numbers
        /\ Accounted(Append(handled[Current], MessageOf(x + 1)), thrown[Current], x + MsgLen)
        /\ Covered(Append(handled[Current], MessageOf(x + 1)), thrown[Current], x + MsgLen)
    BY <2>6, <2>7, <2>8, AccountedServe
  <2>11. /\ handled' \in [Clients -> Seq(Numbers)]
        /\ handled'[Current] = Append(handled[Current], MessageOf(x + 1))
        /\ \A c \in Clients : c # Current => handled'[c] = handled[c]
    BY <1>2, <1>6, <2>7, <2>8, <2>10, AppendProperties DEF HistoryOK
  <2>12. ASSUME NEW c \in Clients
        PROVE  /\ Accounted(handled'[c], thrown'[c], Done(c)')
               /\ conn'[c] # "none" => Covered(handled'[c], thrown'[c], Done(c)')
    <3>1. CASE c = Current
      BY <1>1, <1>6, <2>6, <2>10, <2>11, <3>1
    <3>2. CASE c # Current
      BY <1>1, <1>6, <2>9, <2>11, <3>2 DEF HistoryOK
    <3> QED
      BY <3>1, <3>2
  <2> QED
    BY <1>1, <1>6, <2>11, <2>12 DEF HistoryOK
<1>7. CASE Terminate /\ UNCHANGED handled
  <2>1. \A c \in Clients : taken'[c] >= taken[c] /\ (c # Current => taken'[c] = taken[c])
    BY <1>1, <1>2, <1>3
  <2> QED
    BY <1>1, <1>7, <2>1, HistoryEnds
<1> QED
  BY <1>4, <1>5, <1>6, <1>7

LEMMA CleanupHistory ==
  ASSUME ListInv, LocalsOK, BytesOK, HistoryOK, BytesOK', Cleanup
  PROVE  HistoryOK'
<1> DEFINE x == Done(Current)
           y == taken[Current]
           T == {MessageOf(k) : k \in (x + 1) .. y}
<1>1. /\ pc = "read" /\ UNCHANGED <<handled, taken, conn>> /\ ScanFrom(pollfds, i + 1)
      /\ thrown' = [thrown EXCEPT ![Current] =
                     @ \cup {MessageOf(k) : k \in FirstUnit .. taken[Current]}]
  BY DEF Cleanup, clientVars
<1>2. IInv /\ Current \in Clients /\ taken \in [Clients -> Nat] /\ pollfds \in Seq(Entries)
      /\ i + 1 \in Nat /\ conn[Current] # "none"
  BY <1>1, AtAClient DEF ListInv, BytesOK, IInv, ListOK, LocalsOK
<1>3. pc' # "read"
  BY <1>1, <1>2, ScanGoes
<1>4. ASSUME NEW c \in Clients
       PROVE  Done(c)' = taken[c] /\ Done(c) \in Nat /\ Done(c) <= taken[c] /\ taken[c] \in Nat
  BY <1>1, <1>2, <1>3, DoneType, DoneTypeNext
<1>5. x = y - offset /\ offset \in Nat /\ FirstUnit = (y - offset) + 1
  BY <1>1 DEF Done, BytesOK, FirstUnit
<1>6. /\ x \in Nat /\ y \in Nat /\ x <= y /\ FirstUnit = x + 1
      /\ \A c \in Clients : c = Current => Done(c)' = y
  BY <1>2, <1>4, <1>5
<1> HIDE DEF x
<1>7. /\ handled[Current] \in Seq(Numbers) /\ thrown[Current] \in SUBSET Numbers
      /\ Accounted(handled[Current], thrown[Current], x)
      /\ Covered(handled[Current], thrown[Current], x)
  BY <1>2 DEF HistoryOK, x
<1>8. \A c \in Clients : c # Current => Done(c)' = Done(c)
  BY <1>1, <1>3 DEF Done, BytesOK
<1> HIDE DEF y
<1>9. /\ T \in SUBSET Numbers /\ Accounted(handled[Current], thrown[Current] \cup T, y)
      /\ Covered(handled[Current], thrown[Current] \cup T, y)
  BY <1>6, <1>7, AccountedThrow
<1>10. thrown' = [thrown EXCEPT ![Current] = @ \cup T]
  BY <1>1, <1>6 DEF y
<1> HIDE DEF T
<1>11. /\ thrown' \in [Clients -> SUBSET Numbers] /\ thrown'[Current] = thrown[Current] \cup T
      /\ \A c \in Clients : c # Current => thrown'[c] = thrown[c]
  BY <1>2, <1>7, <1>9, <1>10 DEF HistoryOK
<1>12. ASSUME NEW c \in Clients
       PROVE  /\ Accounted(handled'[c], thrown'[c], Done(c)')
              /\ conn'[c] # "none" => Covered(handled'[c], thrown'[c], Done(c)')
  <2>1. CASE c = Current
    BY <1>1, <1>6, <1>9, <1>11, <2>1
  <2>2. CASE c # Current
    BY <1>1, <1>8, <1>11, <2>2 DEF HistoryOK
  <2> QED
    BY <2>1, <2>2
<1> QED
  BY <1>1, <1>3, <1>11, <1>12 DEF HistoryOK

LEMMA HistoryNext ==
  ListInv /\ LocalsOK /\ BytesOK /\ HistoryOK /\ BytesOK' /\ [Next]_vars => HistoryOK'
<1> SUFFICES ASSUME ListInv, LocalsOK, BytesOK, HistoryOK, BytesOK', [Next]_vars PROVE HistoryOK'
  OBVIOUS
<1>1. /\ IInv /\ pollfds \in Seq(Entries) /\ i \in Nat /\ i + 1 \in Nat
      /\ conn \in [Clients -> {"none", "up", "down"}]
  BY DEF ListInv, IInv, ListOK, CredentialsOK, LocalsOK
<1>2. ASSUME UNCHANGED <<handled, thrown, taken, offset, size, pc, pollfds, i>>,
             \A c \in Clients : conn'[c] # "none" => conn[c] # "none"
      PROVE  HistoryOK'
  <2>1. \A c \in Clients : Done(c)' = Done(c)
    BY <1>2 DEF Done, Current
  <2>2. FirstUnit' = FirstUnit
    BY <1>2 DEF FirstUnit, Current
  <2> QED
    BY <1>2, <2>1, <2>2, HistoryStays DEF HistoryOK, BeginsMessage
<1>3. ASSUME NEW c \in Clients, HangUp(c)
      PROVE  HistoryOK'
  <2>1. \A d \in Clients : conn'[d] # "none" => conn[d] # "none"
    BY <1>1, <1>3 DEF HangUp
  <2> QED
    BY <1>2, <1>3, <2>1 DEF HangUp, daemonVars, Locals, history
<1>4. ASSUME NEW c \in Clients, WriteUnit(c) \/ ReadReply(c)
      PROVE  HistoryOK'
  BY <1>2, <1>4 DEF WriteUnit, ReadReply, daemonVars, Locals, history
<1>5. CASE Kill \/ ChangeRules \/ Ended \/ UNCHANGED vars
  BY <1>2, <1>5 DEF Kill, ChangeRules, Ended, vars, daemonVars, clientVars, Locals, history
<1>6. CASE Poll
  <2>1. pollfds' \in Seq(Entries)
    BY <1>1, <1>6, PollKeeps DEF IInv, ListOK
  <2>2. pc' = "signal" \/ ScanFrom(pollfds', 2)
    BY <1>6 DEF Poll
  <2>3. pc' # "read"
    BY <2>1, <2>2, ScanGoes
  <2> QED
    BY <1>6, <2>3, HistoryElsewhere DEF Poll, clientVars, history
<1>7. CASE ReadSignal
  <2>1. pc' # "read"
    BY <1>1, <1>7, ScanGoes DEF ReadSignal, Exit
  <2>2. \A c \in Clients : conn'[c] # "none" => conn[c] # "none"
    BY <1>7 DEF ReadSignal, Exit
  <2> QED
    BY <1>7, <2>1, <2>2, HistoryElsewhere DEF ReadSignal, history
<1>8. CASE RereadRules \/ DiscardEvents
  <2>1. pc' # "read"
    BY <1>1, <1>8, ScanGoes DEF RereadRules, DiscardEvents, Exit
  <2>2. \A c \in Clients : conn'[c] # "none" => conn[c] # "none"
    BY <1>8 DEF RereadRules, DiscardEvents, clientVars, Exit
  <2> QED
    BY <1>8, <2>1, <2>2, HistoryElsewhere DEF RereadRules, DiscardEvents, clientVars, history
<1>9. CASE Accept
  BY <1>9, HistoryElsewhere DEF Accept, NextPoll, history
<1>10. CASE HandleClient
  <2>1. pc = "scan" /\ Current \in Clients /\ UNCHANGED <<handled, thrown, taken>>
    BY <1>10 DEF HandleClient, history
  <2>2. \A c \in Clients : taken'[c] >= taken[c] /\ (c # Current => taken'[c] = taken[c])
    BY <2>1 DEF BytesOK
  <2>3. CASE Terminate
    BY <2>1, <2>2, <2>3, HistoryEnds
  <2>4. CASE pc' = "read" /\ UNCHANGED <<pollfds, i, offset, size, conn>>
    <3>1. offset' = 0
      BY <2>1, <2>4 DEF BytesOK
    <3>2. \A c \in Clients : Done(c)' = Done(c)
      BY <2>1, <2>4, <3>1 DEF Done, BytesOK
    <3> QED
      BY <2>1, <2>4, <3>1, <3>2, HistoryStays
  <2> QED
    BY <1>10, <2>3, <2>4 DEF HandleClient, Locals
<1>11. CASE Write
  <2>1. pc = "write" /\ UNCHANGED <<handled, thrown, taken>>
    BY <1>11 DEF Write, history
  <2>2. \A c \in Clients : taken'[c] >= taken[c] /\ (c # Current => taken'[c] = taken[c])
    BY <2>1 DEF BytesOK
  <2>3. CASE Terminate
    BY <2>1, <2>2, <2>3, HistoryEnds
  <2>4. CASE UNCHANGED <<pc, i, offset, size, pollfds, conn>>
    BY <1>2, <2>1, <2>4
  <2>5. CASE NextMessage /\ UNCHANGED <<pollfds, conn>>
    <3>1. CASE pc' = "read" /\ UNCHANGED <<i, offset, size>>
      <4>1. offset' = 0
        BY <2>1, <3>1 DEF BytesOK
      <4>2. \A c \in Clients : Done(c)' = Done(c)
        BY <2>1, <3>1, <4>1 DEF Done, BytesOK
      <4> QED
        BY <2>1, <2>5, <3>1, <4>1, <4>2, HistoryStays
    <3>2. CASE ScanFrom(pollfds, i + 1)
      <4>1. pc' # "read"
        BY <1>1, <3>2, ScanGoes
      <4> QED
        BY <2>1, <2>5, <4>1, HistoryElsewhere
    <3> QED
      BY <2>5, <3>1, <3>2 DEF NextMessage
  <2> QED
    BY <1>11, <2>3, <2>4, <2>5 DEF Write
<1> QED
  BY <1>3, <1>4, <1>5, <1>6, <1>7, <1>8, <1>9, <1>10, <1>11, ConnectHistory, ReadHeaderHistory,
     ReadBodyHistory, CleanupHistory DEF Next, Daemon

-----------------------------------------------------------------------------
(* All of it together.                                                      *)

LoopInv == ListInv /\ LocalsOK /\ BytesOK /\ HistoryOK

LEMMA InitLoop == Init => LoopInv
<1> SUFFICES ASSUME Init PROVE LoopInv
  OBVIOUS
<1>1. ListInv
  BY InitKeeps, InitAgrees DEF ListInv
<1>2. LocalsOK
  <2>1. outbox \in [Clients -> 0 .. ReplyBuffer] /\ limit \in 1 .. MessageLimit
    BY LoopAssumption DEF Init
  <2>2. towrite \in Seq(Clients) /\ pc # "write"
    BY DEF Init
  <2> QED
    BY <2>1, <2>2 DEF Init, LocalsOK
<1>3. BytesOK
  BY DEF Init, BytesOK
<1>4. \A c \in Clients : /\ Accounted(handled[c], thrown[c], Done(c))
                        /\ Covered(handled[c], thrown[c], Done(c))
  <2>1. TAKE c \in Clients
  <2>2. handled[c] = << >> /\ thrown[c] = {} /\ Done(c) = 0
    BY DEF Init, Done
  <2> QED
    BY <2>2, AccountedStart
<1>5. HistoryOK
  BY <1>4 DEF Init, HistoryOK
<1> QED
  BY <1>1, <1>3, <1>5, <1>2 DEF LoopInv

(* The lists, the buffer of the client being read and the account of the    *)
(* messages are right together in every reachable state.                    *)
THEOREM ServiceInductive == Spec => []LoopInv
<1>1. ListInv /\ [Next]_vars => ListInv'
  BY NextKeeps, AgreeNext DEF ListInv
<1>2. LoopInv /\ [Next]_vars => LoopInv'
  BY <1>1, LocalsNext, BytesNext, HistoryNext DEF LoopInv
<1> QED
  BY <1>2, InitLoop, PTL DEF Spec

(* The variables of the main loop keep their types: in particular the       *)
(* buffer's offset and size stay natural numbers, and no outbox overflows.  *)
THEOREM LoopTypes == Spec => []TypeOK
<1>1. LoopInv /\ RulesOK => TypeOK
  <2> SUFFICES ASSUME LoopInv, RulesOK PROVE TypeOK
    OBVIOUS
  <2>1. pollfds \in Seq([fd : Clients \cup {"signal", "listen", "smack"},
                         revents : BOOLEAN, accepting : BOOLEAN])
    BY DEF LoopInv, ListInv, IInv, ListOK, Entries, Own
  <2>2. Seq(Numbers) \subseteq Seq(Nat)
    <3>1. ASSUME NEW s \in Seq(Numbers) PROVE s \in Seq(Nat)
      <4>1. \A k \in 1 .. Len(s) : s[k] \in Nat
        BY ElementOfSeq DEF Numbers
      <4> QED
        BY <4>1, LenProperties, IsASeq
    <3> QED
      BY <3>1
  <2>3. handled \in [Clients -> Seq(Nat)] /\ thrown \in [Clients -> SUBSET Nat]
    BY <2>2 DEF LoopInv, HistoryOK, Numbers
  <2>4. /\ client_list \in Seq(Clients) /\ towrite \in Seq(Clients) /\ backlog \in Seq(Clients)
        /\ pc \in {"poll", "signal", "scan", "discard", "read", "write", "stopped"}
        /\ cred \in [Clients -> {"unknown", "own", "former"}]
        /\ conn \in [Clients -> {"none", "up", "down"}]
    BY DEF LoopInv, ListInv, IInv, ListOK, AgreeOK, CredentialsOK, PlaceOK, LocalsOK
  <2>5. /\ leftover \in BOOLEAN
        /\ i \in Nat /\ offset \in Nat /\ size \in Nat /\ limit \in 1 .. MessageLimit
        /\ sent \in [Clients -> Nat] /\ taken \in [Clients -> Nat]
        /\ outbox \in [Clients -> 0 .. ReplyBuffer] /\ signals \subseteq {"TERM", "PIPE"}
    BY DEF LoopInv, LocalsOK, BytesOK
  <2> QED
    BY <2>1, <2>3, <2>4, <2>5 DEF TypeOK, RulesOK
<1> QED
  BY <1>1, ServiceInductive, RulesInductive, PTL

(* In the words of ServedInOrder.                                           *)
LEMMA AccountedMeans ==
  ASSUME NEW h \in Seq(Numbers), NEW t, NEW x, Accounted(h, t, x)
  PROVE  /\ \A a, b \in DOMAIN h : a < b => h[a] < h[b]
         /\ Covered(h, t, x) => (1 .. x \div MsgLen) \subseteq ToSet(h) \cup t
         /\ ToSet(h) \cap t = {}
<1>1. DOMAIN h = 1 .. Len(h) /\ ToSet(h) = {h[a] : a \in 1 .. Len(h)}
  BY LenProperties DEF ToSet
<1> QED
  BY <1>1 DEF Accounted, Covered

(* The messages of a connection are served in the order they were sent and  *)
(* none twice, and one that was read to its end is served unless part of it *)
(* was thrown away, for every length of messages and interleaving of the    *)
(* client's writes with the daemon's reads (core/daemon.c:1228-1330).       *)
THEOREM MessagesInOrder == Spec => []ServedInOrder
<1>1. LoopInv => ServedInOrder
  <2> SUFFICES ASSUME LoopInv, NEW c \in Clients
      PROVE  /\ \A a, b \in DOMAIN handled[c] : a < b => handled[c][a] < handled[c][b]
             /\ conn[c] # "none" =>
                  (1 .. Done(c) \div MsgLen) \subseteq ToSet(handled[c]) \cup thrown[c]
             /\ ToSet(handled[c]) \cap thrown[c] = {}
    BY DEF ServedInOrder, Done
  <2>1. /\ handled[c] \in Seq(Numbers) /\ Accounted(handled[c], thrown[c], Done(c))
        /\ conn[c] # "none" => Covered(handled[c], thrown[c], Done(c))
    BY DEF LoopInv, HistoryOK
  <2> QED
    BY <2>1, AccountedMeans
<1> QED
  BY <1>1, ServiceInductive, PTL
=============================================================================
