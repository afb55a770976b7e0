--------------------------- MODULE BuxtonClientProofs ---------------------------
(***************************************************************************)
(* The client library keeps the promise of Requests, and takes every answer *)
(* that comes in time, for any number of threads, keys, requests and calls  *)
(* nested in callbacks, and for any time-outs.                              *)
(*                                                                         *)
(* The inductive invariant follows a request from the frame of its call     *)
(* through the two channels: until its answer is read the request is        *)
(* remembered or too old, it is in one place, and the answer on its way to  *)
(* the client is what the daemon decided.                                   *)
(***************************************************************************)
EXTENDS BuxtonClient, SequenceTheorems, TLAPS

(* The entry of request i is in the table, or was reaped with good reason.  *)
Kept(i) == callbacks[i] = made[i] \/ now - made[i].tv > TIMEOUT

(* Request i, for call, is made and the daemon has not decided on it.       *)
Asked(i, call) ==
  made[i] # Null /\ made[i].call = call /\ said[i] = Null /\ Kept(i)

Sending(t) == At(t, "put") \/ At(t, "write")

(* Only the innermost call of a thread is not in a callback.                *)
NestingOK ==
  \A t \in Threads : \A j \in 2 .. Len(stack[t]) : stack[t][j].at = "callback"

(* The frame f of a call that has yet to write its request.                 *)
FrameOK(f) ==
  /\ f.id \in Ids /\ f.id < msgid /\ f.call \in Calls
  /\ f.at = "put" => made[f.id] = Null
  /\ f.at = "write" => /\ Asked(f.id, f.call)
                       /\ \A n \in 1 .. Len(requests) : requests[n].id # f.id

SendsOK ==
  \A t \in Threads : Sending(t) =>
    /\ FrameOK(Top(t))
    /\ \A u \in Threads : Sending(u) /\ Top(u).id = Top(t).id => u = t

RequestsOK ==
  \A n \in 1 .. Len(requests) :
    /\ Asked(requests[n].id, requests[n].call)
    /\ \A m \in 1 .. Len(requests) : requests[m].id = requests[n].id => m = n

(* The answer a, on its way to the client.                                  *)
AnswerOK(a) ==
  /\ made[a.id] # Null /\ Kept(a.id)
  /\ said[a.id] = a.status
  /\ made[a.id].call.type = "UNNOTIFY" /\ a.status = "ok" => a.ended # Null

AnswersOK ==
  \A n \in 1 .. Len(responses) : responses[n].msg = "STATUS" =>
    /\ AnswerOK(responses[n])
    /\ \A m \in 1 .. Len(responses) :
         responses[m].msg = "STATUS" /\ responses[m].id = responses[n].id => m = n

TablesOK ==
  \A i \in Ids :
    /\ made[i] # Null => i < msgid
    /\ made[i] = Null => said[i] = Null
    /\ callbacks[i] # Null => callbacks[i] = made[i] /\ done[i] = Null
    /\ done[i] # Null => done[i] = said[i]

IInv ==
  TypeOK /\ NestingOK /\ SendsOK /\ RequestsOK /\ AnswersOK /\ TablesOK

-----------------------------------------------------------------------------
(* Sequences.                                                               *)

LEMMA Appended ==
  ASSUME NEW S, NEW s \in Seq(S), NEW e \in S
  PROVE  /\ Append(s, e) \in Seq(S)
         /\ Len(s) \in Nat /\ Len(Append(s, e)) = Len(s) + 1
         /\ \A n \in 1 .. Len(s) : Append(s, e)[n] = s[n]
         /\ Append(s, e)[Len(s) + 1] = e
BY AppendProperties, LenProperties

LEMMA Beheaded ==
  ASSUME NEW S, NEW s \in Seq(S), s # <<>>
  PROVE  /\ Head(s) \in S /\ Tail(s) \in Seq(S)
         /\ Len(s) \in Nat \ {0} /\ Len(Tail(s)) = Len(s) - 1
         /\ Head(s) = s[1]
         /\ \A n \in 1 .. Len(Tail(s)) : Tail(s)[n] = s[n + 1]
BY HeadTailProperties, LenProperties, EmptySeq

LEMMA Pushed ==
  ASSUME NEW S, NEW s \in Seq(S), NEW e \in S
  PROVE  /\ <<e>> \o s \in Seq(S)
         /\ <<e>> \o s # <<>>
         /\ Head(<<e>> \o s) = e
         /\ Len(<<e>> \o s) = Len(s) + 1
         /\ \A n \in 2 .. Len(<<e>> \o s) : (<<e>> \o s)[n] = s[n - 1]
<1>1. <<e>> \in Seq(S) /\ Len(<<e>>) = 1 /\ <<e>>[1] = e
  OBVIOUS
<1>2. /\ <<e>> \o s \in Seq(S)
      /\ Len(<<e>> \o s) = 1 + Len(s)
      /\ Len(s) \in Nat
      /\ \A n \in 1 .. 1 + Len(s) : (<<e>> \o s)[n] = IF n <= 1 THEN <<e>>[n] ELSE s[n - 1]
  BY <1>1, ConcatProperties, LenProperties
<1>3. <<e>> \o s # <<>>
  BY <1>2, EmptySeq
<1>4. Head(<<e>> \o s) = e
  BY <1>1, <1>2, <1>3, Beheaded
<1> QED
  BY <1>2, <1>3, <1>4

(* The channels.                                                            *)
Request == [id : Ids, call : Calls]
Message == [msg : {"STATUS", "CHANGED"}, id : Ids,
            status : Statuses, ended : Ids \cup {Null}]

LEMMA Traffic ==
  ASSUME TypeOK
  PROVE  /\ requests \in Seq(Request) /\ responses \in Seq(Message)
         /\ Len(requests) \in Nat /\ Len(responses) \in Nat
         /\ \A n \in 1 .. Len(requests) :
              requests[n] \in Request /\ requests[n].id \in Ids
         /\ \A n \in 1 .. Len(responses) :
              responses[n] \in Message /\ responses[n].id \in Ids
<1>1. requests \in Seq(Request) /\ responses \in Seq(Message)
  BY DEF TypeOK, Request, Message
<1>2. \A n \in 1 .. Len(requests) : requests[n] \in Request
  BY <1>1, ElementOfSeq
<1>3. \A n \in 1 .. Len(responses) : responses[n] \in Message
  BY <1>1, ElementOfSeq
<1>4. /\ \A n \in 1 .. Len(requests) : requests[n].id \in Ids
      /\ \A n \in 1 .. Len(responses) : responses[n].id \in Ids
  BY <1>2, <1>3 DEF Request, Message
<1> QED
  BY <1>1, <1>2, <1>3, <1>4, LenProperties

-----------------------------------------------------------------------------
(* Stacks.  Each lemma gives what a step of thread t does to the tops.      *)

Others(t) == \A u \in Threads : u # t => stack'[u] = stack[u]

LEMMA PushStep ==
  ASSUME TypeOK, NestingOK, NEW t \in Threads, NEW f \in Frame, Running(t), Push(t, f)
  PROVE  /\ stack' \in [Threads -> Seq(Frame)] /\ NestingOK'
         /\ Others(t) /\ stack'[t] # <<>> /\ Head(stack'[t]) = f
<1>1. stack \in [Threads -> Seq(Frame)] /\ stack[t] \in Seq(Frame)
  BY DEF TypeOK
<1>2. stack'[t] = <<f>> \o stack[t] /\ Others(t)
  BY <1>1 DEF Push, Others
<1>3. /\ stack'[t] \in Seq(Frame) /\ stack'[t] # <<>> /\ Head(stack'[t]) = f
      /\ Len(stack'[t]) = Len(stack[t]) + 1 /\ Len(stack[t]) \in Nat
      /\ \A n \in 2 .. Len(stack'[t]) : stack'[t][n] = stack[t][n - 1]
  BY <1>1, <1>2, Pushed, LenProperties
<1>4. stack' \in [Threads -> Seq(Frame)]
  BY <1>1, <1>3 DEF Push
<1>5. \A n \in 1 .. Len(stack[t]) : stack[t][n].at = "callback"
  <2>1. CASE stack[t] = <<>>
    BY <2>1
  <2>2. CASE stack[t] # <<>>
    <3>1. stack[t][1].at = "callback"
      BY <1>1, <2>2, Beheaded DEF Running, Top
    <3>2. \A n \in 2 .. Len(stack[t]) : stack[t][n].at = "callback"
      BY DEF NestingOK
    <3> QED
      BY <1>3, <3>1, <3>2
  <2> QED
    BY <2>1, <2>2
<1>6. \A n \in 2 .. Len(stack'[t]) : stack'[t][n].at = "callback"
  BY <1>3, <1>5
<1>7. NestingOK'
  BY <1>2, <1>6 DEF NestingOK, Others
<1> QED
  BY <1>2, <1>3, <1>4, <1>7

LEMMA BecomeStep ==
  ASSUME TypeOK, NestingOK, NEW t \in Threads, NEW f \in Frame, stack[t] # <<>>, Become(t, f)
  PROVE  /\ stack' \in [Threads -> Seq(Frame)] /\ NestingOK'
         /\ Others(t) /\ stack'[t] # <<>> /\ Head(stack'[t]) = f
<1>1. stack \in [Threads -> Seq(Frame)] /\ stack[t] \in Seq(Frame)
  BY DEF TypeOK
<1>2. stack'[t] = <<f>> \o Tail(stack[t]) /\ Others(t)
  BY <1>1 DEF Become, Others
<1>3. /\ Tail(stack[t]) \in Seq(Frame)
      /\ Len(Tail(stack[t])) = Len(stack[t]) - 1 /\ Len(stack[t]) \in Nat
      /\ \A n \in 1 .. Len(Tail(stack[t])) : Tail(stack[t])[n] = stack[t][n + 1]
  BY <1>1, Beheaded
<1>4. /\ stack'[t] \in Seq(Frame) /\ stack'[t] # <<>> /\ Head(stack'[t]) = f
      /\ Len(stack'[t]) = Len(Tail(stack[t])) + 1
      /\ \A n \in 2 .. Len(stack'[t]) : stack'[t][n] = Tail(stack[t])[n - 1]
  BY <1>2, <1>3, Pushed
<1>5. stack' \in [Threads -> Seq(Frame)]
  BY <1>1, <1>4 DEF Become
<1>6. \A n \in 2 .. Len(stack'[t]) : stack'[t][n].at = "callback"
  BY <1>3, <1>4 DEF NestingOK
<1>7. NestingOK'
  BY <1>2, <1>6 DEF NestingOK, Others
<1> QED
  BY <1>2, <1>4, <1>5, <1>7

LEMMA ReturnStep ==
  ASSUME TypeOK, NestingOK, NEW t \in Threads, stack[t] # <<>>, Return(t)
  PROVE  /\ stack' \in [Threads -> Seq(Frame)] /\ NestingOK'
         /\ Others(t) /\ (stack'[t] # <<>> => Head(stack'[t]).at = "callback")
<1>1. stack \in [Threads -> Seq(Frame)] /\ stack[t] \in Seq(Frame)
  BY DEF TypeOK
<1>2. stack'[t] = Tail(stack[t]) /\ Others(t)
  BY <1>1 DEF Return, Others
<1>3. /\ stack'[t] \in Seq(Frame)
      /\ Len(stack'[t]) = Len(stack[t]) - 1 /\ Len(stack[t]) \in Nat
      /\ \A n \in 1 .. Len(stack'[t]) : stack'[t][n] = stack[t][n + 1]
  BY <1>1, <1>2, Beheaded
<1>4. stack' \in [Threads -> Seq(Frame)]
  BY <1>1, <1>3, <1>2 DEF Return
<1>5. \A n \in 1 .. Len(stack'[t]) : stack'[t][n].at = "callback"
  BY <1>3 DEF NestingOK
<1>6. NestingOK'
  <2>1. \A n \in 2 .. Len(stack'[t]) : stack'[t][n].at = "callback"
    BY <1>3, <1>5
  <2> QED
    BY <1>2, <2>1 DEF NestingOK, Others
<1>7. stack'[t] # <<>> => Head(stack'[t]).at = "callback"
  BY <1>3, <1>5, Beheaded
<1> QED
  BY <1>2, <1>4, <1>6, <1>7

-----------------------------------------------------------------------------
(* What most steps leave alone.                                             *)

(* No call that has yet to write its request is started by the step.        *)
QuietStacks ==
  \A u \in Threads : Sending(u)' => Sending(u) /\ Top(u)' = Top(u)

(* A step whose thread is not about to send is quiet.                       *)
LEMMA Quiet ==
  ASSUME NEW t \in Threads, Others(t),
         stack'[t] # <<>> => Head(stack'[t]).at \in {"poll", "read", "callback"}
  PROVE  QuietStacks
BY DEF QuietStacks, Others, Sending, At, Top

(* The requests that are not decided on are kept.                           *)
KeepsAsked ==
  \A i \in Ids : made[i] # Null /\ said[i] = Null /\ Kept(i) => Kept(i)'

LEMMA SendsSteady ==
  ASSUME IInv, made' = made, said' = said, msgid' = msgid,
         requests' = requests \/ requests' = <<>>, QuietStacks, KeepsAsked
  PROVE  SendsOK' /\ RequestsOK'
<1>1. \A i \in Ids : \A c : Asked(i, c) => Asked(i, c)'
  BY DEF Asked, KeepsAsked
<1>2. SendsOK'
  <2> SUFFICES ASSUME NEW t \in Threads, Sending(t)'
               PROVE  /\ FrameOK(Top(t))'
                      /\ \A u \in Threads : Sending(u)' /\ Top(u)'.id = Top(t)'.id => u = t
    BY DEF SendsOK
  <2>1. Sending(t) /\ Top(t)' = Top(t) /\ FrameOK(Top(t))
    BY DEF QuietStacks, SendsOK, IInv
  <2>2. \A u \in Threads : Sending(u)' /\ Top(u)'.id = Top(t)'.id => u = t
    BY <2>1 DEF QuietStacks, SendsOK, IInv
  <2>3. \A n \in 1 .. Len(requests') :
          n \in 1 .. Len(requests) /\ requests'[n] = requests[n]
    <3>1. CASE requests' = requests
      BY <3>1
    <3>2. CASE requests' = <<>>
      BY <3>2
    <3> QED
      BY <3>1, <3>2
  <2>4. FrameOK(Top(t))'
    BY <1>1, <2>1, <2>3 DEF FrameOK
  <2> QED
    BY <2>2, <2>4
<1>3. RequestsOK'
  <2>1. CASE requests' = requests
    <3>1. \A n \in 1 .. Len(requests) : requests[n].id \in Ids
      BY Traffic DEF IInv
    <3> QED
      BY <1>1, <2>1, <3>1 DEF RequestsOK, IInv
  <2>2. CASE requests' = <<>>
    BY <2>2 DEF RequestsOK
  <2> QED
    BY <2>1, <2>2
<1> QED
  BY <1>2, <1>3

(* Every request is kept.                                                   *)
KeepsAll == \A i \in Ids : made[i] # Null /\ Kept(i) => Kept(i)'

LEMMA AnswersSteady ==
  ASSUME IInv, made' = made, said' = said, responses' = responses, KeepsAll
  PROVE  AnswersOK'
<1>1. \A n \in 1 .. Len(responses) : responses[n].id \in Ids
  BY Traffic DEF IInv
<1> QED
  BY <1>1 DEF IInv, AnswersOK, AnswerOK, KeepsAll

(* The first message is read.                                               *)
LEMMA AnswersTaken ==
  ASSUME IInv, made' = made, said' = said,
         responses # <<>>, responses' = Tail(responses),
         \A i \in Ids : made[i] # Null /\ Kept(i) /\ (Answer.msg = "STATUS" => i # Answer.id)
           => Kept(i)'
  PROVE  AnswersOK'
<1>1. /\ Len(responses) \in Nat \ {0} /\ Len(responses') = Len(responses) - 1
      /\ Answer = responses[1]
      /\ \A n \in 1 .. Len(responses') : responses'[n] = responses[n + 1]
  BY Traffic, Beheaded DEF Answer, IInv
<1>2. \A n \in 1 .. Len(responses) : responses[n].id \in Ids
  BY Traffic DEF IInv
<1>3. SUFFICES ASSUME NEW n \in 1 .. Len(responses'), responses'[n].msg = "STATUS"
               PROVE  /\ made[responses'[n].id] # Null /\ Kept(responses[n].id)'
                      /\ said[responses'[n].id] = responses'[n].status
                      /\ made[responses'[n].id].call.type = "UNNOTIFY" /\ responses'[n].status = "ok"
                         => responses'[n].ended # Null
                      /\ \A m \in 1 .. Len(responses') :
                           /\ responses'[m].msg = "STATUS"
                           /\ responses'[m].id = responses'[n].id
                           => m = n
  BY <1>3 DEF AnswersOK, AnswerOK
<1>4. /\ 1 \in 1 .. Len(responses) /\ n + 1 \in 1 .. Len(responses) /\ n + 1 # 1
      /\ responses'[n] = responses[n + 1]
  BY <1>1
<1>5. AnswerOK(responses[n + 1])
  BY <1>3, <1>4 DEF AnswersOK, IInv
<1>6. Answer.msg = "STATUS" => responses[n + 1].id # Answer.id
  BY <1>1, <1>3, <1>4 DEF AnswersOK, IInv
<1>7. \A i \in Ids : i = responses[n + 1].id => (Kept(responses[n].id)' <=> Kept(i)')
  BY <1>4 DEF Kept
<1>8. \A m \in 1 .. Len(responses') :
        responses'[m].msg = "STATUS" /\ responses'[m].id = responses'[n].id => m = n
  <2> SUFFICES ASSUME NEW m \in 1 .. Len(responses'),
                      responses'[m].msg = "STATUS", responses'[m].id = responses'[n].id
               PROVE  m = n
    OBVIOUS
  <2>1. m + 1 \in 1 .. Len(responses) /\ responses'[m] = responses[m + 1]
    BY <1>1
  <2>2. m + 1 = n + 1
    BY <1>3, <1>4, <2>1 DEF AnswersOK, IInv
  <2> QED
    BY <1>1, <2>2
<1> QED
  BY <1>2, <1>4, <1>5, <1>6, <1>7, <1>8 DEF AnswerOK

LEMMA SameKeepsAll ==
  ASSUME made' = made, callbacks' = callbacks, now' = now
  PROVE  KeepsAll /\ KeepsAsked
BY DEF KeepsAll, KeepsAsked, Kept

(* Reaping forgets only what is too old.                                    *)
LEMMA ReapKeeps ==
  ASSUME TypeOK, made' = made, now' = now, callbacks' = Reaped(callbacks)
  PROVE  /\ KeepsAll /\ KeepsAsked
         /\ callbacks' \in [Ids -> NotifyValue \cup {Null}]
         /\ \A i \in Ids : callbacks'[i] \in {callbacks[i], Null}
<1>1. callbacks \in [Ids -> NotifyValue \cup {Null}]
  BY DEF TypeOK
<1>2. \A i \in Ids :
        callbacks'[i] = IF callbacks[i] # Null /\ now - callbacks[i].tv > TIMEOUT
                        THEN Null ELSE callbacks[i]
  BY DEF Reaped
<1>3. KeepsAll
  <2> SUFFICES ASSUME NEW i \in Ids, made[i] # Null, Kept(i)
               PROVE  callbacks'[i] = made[i] \/ now - made[i].tv > TIMEOUT
    BY DEF KeepsAll, Kept
  <2> QED
    BY <1>2 DEF Kept
<1>4. KeepsAsked
  BY <1>3 DEF KeepsAll, KeepsAsked
<1>5. callbacks' \in [Ids -> NotifyValue \cup {Null}]
  BY <1>1, <1>2 DEF Reaped
<1> QED
  BY <1>2, <1>3, <1>4, <1>5

-----------------------------------------------------------------------------
(* A step of the library is a step of Requests or leaves it alone.          *)
AbstractStep == Abstract!Next \/ UNCHANGED Abstract!vars

LEMMA OutcomeOf ==
  ASSUME IInv, NEW i \in Ids
  PROVE  /\ made[i] = Null => Outcome(i) = "unmade" /\ callbacks[i] = Null /\ done[i] = Null
         /\ callbacks[i] # Null => Outcome(i) = "waiting" /\ made[i] # Null /\ done[i] = Null
         /\ made[i] # Null /\ done[i] # Null => Outcome(i) = done[i]
         /\ made[i] # Null /\ done[i] = Null /\ callbacks[i] = Null => Outcome(i) = "forgotten"
BY DEF IInv, TablesOK, Outcome

(* New requests, with the ids new, and forgotten ones.                      *)
LEMMA TurnStep ==
  ASSUME IInv, said' = said, done' = done, NEW new \in SUBSET Ids,
         \A i \in new : made[i] = Null /\ made'[i] # Null /\ callbacks'[i] = made'[i]
                        /\ i < msgid',
         \A i \in Ids \ new : made'[i] = made[i] /\ callbacks'[i] \in {callbacks[i], Null},
         \A i \in Ids : i < msgid => i < msgid'
  PROVE  TablesOK' /\ AbstractStep
<1>1. TablesOK'
  BY DEF IInv, TablesOK
<1>2. AbstractStep
  <2> DEFINE old == {i \in Ids \ new : callbacks[i] # Null /\ callbacks'[i] = Null}
             O == [i \in Ids |-> Outcome(i)]
  <2>1. \A i \in new : O[i] = "unmade"
    BY OutcomeOf
  <2>2. \A i \in old : O[i] = "waiting"
    BY OutcomeOf
  <2>3. \A i \in Ids : O'[i] = IF i \in new THEN "waiting"
                               ELSE IF i \in old THEN "forgotten" ELSE O[i]
    <3>1. \A i \in new : Outcome(i)' = "waiting"
      BY OutcomeOf DEF Outcome
    <3>2. \A i \in old : Outcome(i)' = "forgotten"
      BY OutcomeOf DEF Outcome
    <3>3. \A i \in Ids \ (new \cup old) : Outcome(i)' = Outcome(i)
      BY DEF Outcome
    <3> QED
      BY <3>1, <3>2, <3>3
  <2>4. O' = [i \in Ids |-> IF i \in new THEN "waiting"
                            ELSE IF i \in old THEN "forgotten" ELSE O[i]]
    BY <2>3
  <2>5. Abstract!Turn(new, old)
    BY <2>1, <2>2, <2>4 DEF Abstract!Turn
  <2>6. old \in SUBSET Ids
    OBVIOUS
  <2> QED
    BY <2>5, <2>6 DEF AbstractStep, Abstract!Next
<1> QED
  BY <1>1, <1>2

(* No new requests.                                                         *)
LEMMA ForgetStep ==
  ASSUME IInv, said' = said, done' = done, made' = made,
         \A i \in Ids : i < msgid => i < msgid',
         \A i \in Ids : callbacks'[i] \in {callbacks[i], Null}
  PROVE  TablesOK' /\ AbstractStep
<1>1. {} \in SUBSET Ids
  OBVIOUS
<1>2. /\ \A i \in {} : made[i] = Null /\ made'[i] # Null /\ callbacks'[i] = made'[i]
                        /\ i < msgid'
      /\ \A i \in Ids \ {} : made'[i] = made[i] /\ callbacks'[i] \in {callbacks[i], Null}
      /\ \A i \in Ids : i < msgid => i < msgid'
  OBVIOUS
<1> QED
  BY <1>1, <1>2, TurnStep

-----------------------------------------------------------------------------
(* The steps, one lemma each.                                               *)

LEMMA TopFrame ==
  ASSUME TypeOK, NEW t \in Threads, stack[t] # <<>>
  PROVE  Top(t) \in Frame
<1>1. stack[t] \in Seq(Frame)
  BY DEF TypeOK
<1> QED
  BY <1>1, Beheaded DEF Top

LEMMA EmptyValues ==
  /\ <<>> \in Seq([id : Ids, call : Calls])
  /\ <<>> \in Seq([msg : {"STATUS", "CHANGED"}, id : Ids,
                 status : Statuses, ended : Ids \cup {Null}])
  /\ [k \in Keys |-> <<>>] \in [Keys -> Seq(Ids)]
  /\ [t \in Threads |-> <<>>] \in [Threads -> Seq(Frame)]
  /\ \A S : Nobody \in [Ids -> S \cup {Null}]
BY DEF Nobody

LEMMA OpenStep ==
  ASSUME IInv, Open
  PROVE  IInv' /\ AbstractStep
<1> USE DEF Open, tables, history
<1>1. TypeOK'
  BY DEF IInv, TypeOK
<1>2. QuietStacks /\ NestingOK' /\ KeepsAll /\ KeepsAsked
  BY SameKeepsAll DEF QuietStacks, Sending, At, Top, NestingOK, IInv
<1>3. SendsOK' /\ RequestsOK' /\ AnswersOK'
  BY <1>2, SendsSteady, AnswersSteady
<1>4. TablesOK' /\ AbstractStep
  BY ForgetStep
<1> QED
  BY <1>1, <1>2, <1>3, <1>4 DEF IInv

LEMMA CloseStep ==
  ASSUME IInv, Close
  PROVE  IInv' /\ AbstractStep
<1> USE DEF Close, history
<1>1. TypeOK'
  BY EmptyValues DEF IInv, TypeOK
<1>2. NestingOK' /\ SendsOK' /\ RequestsOK' /\ AnswersOK'
  BY DEF NestingOK, SendsOK, Sending, At, RequestsOK, AnswersOK, IInv
<1>3. TablesOK' /\ AbstractStep
  BY ForgetStep DEF Nobody
<1> QED
  BY <1>1, <1>2, <1>3 DEF IInv

LEMMA TickStep ==
  ASSUME IInv, Tick
  PROVE  IInv' /\ AbstractStep
<1> USE DEF Tick, connection, tables, history
<1>1. TypeOK'
  <2>1. now' \in Nat
    BY DEF IInv, TypeOK
  <2> QED
    BY <2>1 DEF IInv, TypeOK
<1>2. KeepsAll
  <2>1. \A i \in Ids : made[i] # Null => made[i].tv \in Nat
    BY DEF IInv, TypeOK, NotifyValue
  <2>2. now \in Nat /\ TIMEOUT \in Nat
    BY ClientLibraryAssumption DEF IInv, TypeOK
  <2> QED
    BY <2>1, <2>2 DEF KeepsAll, Kept
<1>3. KeepsAsked /\ QuietStacks /\ NestingOK'
  BY <1>2 DEF KeepsAll, KeepsAsked, QuietStacks, Sending, At, Top, NestingOK, IInv
<1>4. SendsOK' /\ RequestsOK' /\ AnswersOK'
  BY <1>2, <1>3, SendsSteady, AnswersSteady
<1>5. TablesOK' /\ AbstractStep
  BY ForgetStep
<1> QED
  BY <1>1, <1>3, <1>4, <1>5 DEF IInv

(* The id of a new call is above those of all calls so far.                 *)
LEMMA CallStep ==
  ASSUME IInv, NEW t \in Threads, NEW call \in Calls, Call(t, call)
  PROVE  IInv' /\ AbstractStep
<1> DEFINE f == [at |-> "put", id |-> msgid, call |-> call, since |-> now, handled |-> FALSE]
<1> USE DEF connection, tables, history
<1>1. msgid \in Ids /\ msgid' = msgid + 1 /\ msgid \in Nat /\ msgid' \in 0 .. MaxRequests
  BY ClientLibraryAssumption DEF Call, NextMsgid, IInv, TypeOK, Ids
<1>2. f \in Frame
  BY <1>1 DEF Frame, IInv, TypeOK
<1>3. /\ stack' \in [Threads -> Seq(Frame)] /\ NestingOK'
      /\ Others(t) /\ stack'[t] # <<>> /\ Head(stack'[t]) = f
  <2>1. Push(t, f)
    BY DEF Call
  <2> HIDE DEF f
  <2> QED
    BY <1>2, <2>1, PushStep DEF Call, IInv
<1>4. TypeOK'
  BY <1>1, <1>3 DEF IInv, TypeOK, Call
<1>5. KeepsAll /\ \A i \in Ids : \A c : Asked(i, c) => Asked(i, c)'
  BY SameKeepsAll DEF Call, KeepsAll, Asked, Kept
<1>6. ~Sending(t) /\ Sending(t)' /\ Top(t)' = f
  BY <1>3 DEF Call, Running, Sending, At, Top
<1>7. \A u \in Threads : u # t => (Sending(u)' <=> Sending(u)) /\ Top(u)' = Top(u)
  BY <1>3 DEF Others, Sending, At, Top
<1>8. made[msgid] = Null
  BY <1>1 DEF IInv, TablesOK
<1>9. SendsOK'
  <2>1. \A u \in Threads : Sending(u) => FrameOK(Top(u)) /\ Top(u).id < msgid /\ Top(u).id \in Ids
    BY DEF IInv, SendsOK, FrameOK
  <2>2. \A u \in Threads : Sending(u)' /\ u # t =>
          Sending(u) /\ FrameOK(Top(u))' /\ Top(u)'.id < msgid
    BY <1>1, <1>5, <1>7, <2>1 DEF FrameOK, Call, Ids
  <2>3. FrameOK(Top(t))'
    BY <1>1, <1>6, <1>8 DEF FrameOK, Call
  <2>4. Top(t)'.id = msgid
    BY <1>6
  <2>5. \A u, v \in Threads : Sending(u)' /\ Sending(v)' /\ Top(v)'.id = Top(u)'.id => v = u
    BY <1>1, <1>7, <2>1, <2>2, <2>4 DEF IInv, SendsOK, Ids
  <2> QED
    BY <2>2, <2>3, <2>5 DEF SendsOK
<1>10. RequestsOK' /\ AnswersOK'
  <2>1. \A n \in 1 .. Len(requests) : requests[n].id \in Ids
    BY Traffic DEF IInv
  <2>2. RequestsOK'
    BY <1>5, <2>1 DEF Call, RequestsOK, IInv
  <2> QED
    BY <1>5, <2>2, AnswersSteady DEF Call
<1>11. TablesOK' /\ AbstractStep
  <2>1. \A i \in Ids : i < msgid => i < msgid'
    BY <1>1 DEF Ids
  <2> QED
    BY <2>1, ForgetStep DEF Call
<1> QED
  BY <1>3, <1>4, <1>9, <1>10, <1>11 DEF IInv

(* A step that only moves a call on, or ends it, and may reap.              *)
LEMMA MoveOn ==
  ASSUME IInv, TypeOK', NestingOK', QuietStacks, KeepsAll, AnswersOK',
         made' = made, said' = said, done' = done, msgid' = msgid,
         requests' = requests \/ requests' = <<>>,
         \A i \in Ids : callbacks'[i] \in {callbacks[i], Null}
  PROVE  IInv' /\ AbstractStep
<1>1. KeepsAsked
  BY DEF KeepsAll, KeepsAsked
<1>2. SendsOK' /\ RequestsOK'
  BY <1>1, SendsSteady
<1>3. TablesOK' /\ AbstractStep
  BY ForgetStep
<1> QED
  BY <1>2, <1>3 DEF IInv

(* The call returns.                                                        *)
LEMMA GiveUp ==
  ASSUME IInv, NEW t \in Threads, stack[t] # <<>>, Return(t),
         result' \in [Ids -> Results \cup {Null}],
         UNCHANGED <<connection, tables, msgid, now, made, said, done, ended, strayed>>
  PROVE  IInv' /\ AbstractStep
<1> USE DEF connection, tables
<1>1. /\ stack' \in [Threads -> Seq(Frame)] /\ NestingOK'
      /\ Others(t) /\ (stack'[t] # <<>> => Head(stack'[t]).at = "callback")
  BY ReturnStep DEF IInv
<1>2. TypeOK'
  BY <1>1 DEF IInv, TypeOK
<1>3. QuietStacks /\ KeepsAll
  BY <1>1, Quiet, SameKeepsAll
<1>4. AnswersOK'
  BY <1>3, AnswersSteady
<1> QED
  BY <1>1, <1>2, <1>3, <1>4, MoveOn

LEMMA WriteFailsStep ==
  ASSUME IInv, NEW t \in Threads, WriteFails(t)
  PROVE  IInv' /\ AbstractStep
<1>1. result' \in [Ids -> Results \cup {Null}]
  BY DEF WriteFails, IInv, TypeOK, Results
<1> QED
  BY <1>1, GiveUp DEF WriteFails, At

LEMMA PollTimesOutStep ==
  ASSUME IInv, NEW t \in Threads, PollTimesOut(t)
  PROVE  IInv' /\ AbstractStep
<1>1. result' \in [Ids -> Results \cup {Null}]
  BY DEF PollTimesOut, IInv, TypeOK, Results
<1> QED
  BY <1>1, GiveUp DEF PollTimesOut, At

LEMMA PollFailsStep ==
  ASSUME IInv, NEW t \in Threads, PollFails(t)
  PROVE  IInv' /\ AbstractStep
<1>1. result' \in [Ids -> Results \cup {Null}]
  BY DEF PollFails, IInv, TypeOK, Results
<1> QED
  BY <1>1, GiveUp DEF PollFails, At

LEMMA ReadNothingStep ==
  ASSUME IInv, NEW t \in Threads, ReadNothing(t)
  PROVE  IInv' /\ AbstractStep
<1>1. result' \in [Ids -> Results \cup {Null}]
  BY DEF ReadNothing, IInv, TypeOK, Results
<1> QED
  BY <1>1, GiveUp DEF ReadNothing, At

LEMMA PollReadyStep ==
  ASSUME IInv, NEW t \in Threads, PollReady(t)
  PROVE  IInv' /\ AbstractStep
<1> DEFINE f == [Top(t) EXCEPT !.at = "read", !.since = 0]
<1> USE DEF connection, tables, history
<1>1. stack[t] # <<>> /\ f \in Frame /\ f.at = "read"
  BY TopFrame DEF PollReady, At, IInv, Frame
<1>2. Become(t, f)
  BY DEF PollReady
<1> HIDE DEF f
<1>3. /\ stack' \in [Threads -> Seq(Frame)] /\ NestingOK'
      /\ Others(t) /\ Head(stack'[t]) = f
  BY <1>1, <1>2, BecomeStep DEF IInv
<1>4. /\ KeepsAll /\ callbacks' \in [Ids -> NotifyValue \cup {Null}]
      /\ \A i \in Ids : callbacks'[i] \in {callbacks[i], Null}
  BY ReapKeeps DEF PollReady, IInv
<1>5. TypeOK'
  BY <1>3, <1>4 DEF IInv, TypeOK, PollReady
<1>6. QuietStacks
  BY <1>1, <1>3, Quiet
<1>7. AnswersOK'
  BY <1>4, AnswersSteady DEF PollReady
<1> QED
  BY <1>3, <1>4, <1>5, <1>6, <1>7, MoveOn DEF PollReady

LEMMA HandleResponseStep ==
  ASSUME IInv, NEW t \in Threads, HandleResponse(t)
  PROVE  IInv' /\ AbstractStep
<1> DEFINE f == [at |-> "read", id |-> Null, call |-> Null, since |-> 0, handled |-> FALSE]
<1> USE DEF connection, tables, history
<1>1. f \in Frame /\ f.at = "read"
  BY DEF Frame
<1>2. Push(t, f) /\ Running(t)
  BY DEF HandleResponse
<1> HIDE DEF f
<1>3. /\ stack' \in [Threads -> Seq(Frame)] /\ NestingOK'
      /\ Others(t) /\ Head(stack'[t]) = f
  BY <1>1, <1>2, PushStep DEF IInv
<1>4. /\ KeepsAll /\ callbacks' \in [Ids -> NotifyValue \cup {Null}]
      /\ \A i \in Ids : callbacks'[i] \in {callbacks[i], Null}
  BY ReapKeeps DEF HandleResponse, IInv
<1>5. TypeOK'
  BY <1>3, <1>4 DEF IInv, TypeOK, HandleResponse
<1>6. QuietStacks
  BY <1>1, <1>3, Quiet
<1>7. AnswersOK'
  BY <1>4, AnswersSteady DEF HandleResponse
<1> QED
  BY <1>3, <1>4, <1>5, <1>6, <1>7, MoveOn DEF HandleResponse

LEMMA CallbackReturnsStep ==
  ASSUME IInv, NEW t \in Threads, CallbackReturns(t)
  PROVE  IInv' /\ AbstractStep
<1> DEFINE f == [Top(t) EXCEPT !.at = "read", !.handled = TRUE]
<1> USE DEF connection, tables, history
<1>1. stack[t] # <<>> /\ f \in Frame /\ f.at = "read"
  BY TopFrame DEF CallbackReturns, At, IInv, Frame
<1>2. Become(t, f)
  BY DEF CallbackReturns
<1> HIDE DEF f
<1>3. /\ stack' \in [Threads -> Seq(Frame)] /\ NestingOK'
      /\ Others(t) /\ Head(stack'[t]) = f
  BY <1>1, <1>2, BecomeStep DEF IInv
<1>4. TypeOK'
  BY <1>3 DEF IInv, TypeOK, CallbackReturns
<1>5. QuietStacks /\ KeepsAll
  BY <1>1, <1>3, Quiet, SameKeepsAll DEF CallbackReturns
<1>6. AnswersOK'
  BY <1>5, AnswersSteady DEF CallbackReturns
<1> QED
  BY <1>3, <1>4, <1>5, <1>6, MoveOn DEF CallbackReturns

-----------------------------------------------------------------------------
(* Reading.                                                                 *)

(* The frame of a thread that reads a message goes on reading, or runs a    *)
(* callback.                                                                *)
LEMMA TakeStep ==
  ASSUME IInv, NEW t \in Threads, Take(t),
         Handled(t) \/ Become(t, [Top(t) EXCEPT !.at = "callback"])
  PROVE  /\ stack' \in [Threads -> Seq(Frame)] /\ NestingOK' /\ QuietStacks
         /\ Answer \in Message /\ Answer = responses[1] /\ 1 \in 1 .. Len(responses)
         /\ responses' \in Seq(Message)
<1>1. stack[t] # <<>> /\ Top(t) \in Frame /\ Top(t).at = "read"
  BY TopFrame DEF Take, At, IInv
<1>2. PICK f \in Frame : Become(t, f) /\ f.at \in {"read", "callback"}
  <2>1. CASE Handled(t)
    <3> DEFINE f == [Top(t) EXCEPT !.handled = TRUE]
    <3>1. f \in Frame /\ f.at = "read"
      BY <1>1 DEF Frame
    <3> QED
      BY <2>1, <3>1 DEF Handled
  <2>2. CASE Become(t, [Top(t) EXCEPT !.at = "callback"])
    <3> DEFINE f == [Top(t) EXCEPT !.at = "callback"]
    <3>1. f \in Frame /\ f.at = "callback"
      BY <1>1 DEF Frame
    <3> QED
      BY <2>2, <3>1
  <2> QED
    BY <2>1, <2>2
<1>3. /\ stack' \in [Threads -> Seq(Frame)] /\ NestingOK'
      /\ Others(t) /\ Head(stack'[t]) = f
  BY <1>1, <1>2, BecomeStep DEF IInv
<1>4. QuietStacks
  BY <1>2, <1>3, Quiet
<1>5. responses \in Seq(Message) /\ responses # <<>> /\ responses' = Tail(responses)
  BY Traffic DEF IInv, Take
<1>6. /\ Answer \in Message /\ Answer = responses[1] /\ Len(responses) \in Nat \ {0}
      /\ responses' \in Seq(Message)
  BY <1>5, Beheaded DEF Answer
<1> QED
  BY <1>3, <1>4, <1>6

(* A message that changes no table.                                         *)
LEMMA ReadAway ==
  ASSUME IInv, NEW t \in Threads, Take(t),
         Handled(t) \/ Become(t, [Top(t) EXCEPT !.at = "callback"]),
         UNCHANGED <<tables, done, ended, strayed>>
  PROVE  IInv' /\ AbstractStep
<1> USE DEF Take, tables
<1>1. /\ stack' \in [Threads -> Seq(Frame)] /\ NestingOK' /\ QuietStacks
      /\ responses' \in Seq(Message)
  BY TakeStep
<1>2. TypeOK'
  BY <1>1 DEF IInv, TypeOK, Message
<1>3. KeepsAll
  BY SameKeepsAll
<1>4. AnswersOK'
  BY <1>3, AnswersTaken DEF KeepsAll
<1> QED
  BY <1>1, <1>2, <1>3, <1>4, MoveOn

LEMMA ReadAwaySteps ==
  ASSUME IInv, NEW t \in Threads,
         ReadLateAnswer(t) \/ ReadUnknownChanged(t) \/ ReadChanged(t)
  PROVE  IInv' /\ AbstractStep
BY ReadAway DEF ReadLateAnswer, ReadUnknownChanged, ReadChanged

LEMMA ReadAnswerStep ==
  ASSUME IInv, NEW t \in Threads, ReadAnswer(t)
  PROVE  IInv' /\ AbstractStep
<1> DEFINE a == Answer
           i == Answer.id
<1>0. /\ Take(t) /\ Handled(t) /\ a.msg = "STATUS" /\ callbacks[i] # Null
      /\ callbacks' = [callbacks EXCEPT ![i] = Null]
      /\ done' = [done EXCEPT ![i] = a.status]
      /\ UNCHANGED <<open, hungup, requests, registered, msgid, now, made, said, result>>
  BY DEF ReadAnswer, Take, Without
<1>1. /\ stack' \in [Threads -> Seq(Frame)] /\ NestingOK' /\ QuietStacks
      /\ a \in Message /\ a = responses[1] /\ 1 \in 1 .. Len(responses)
      /\ responses' \in Seq(Message)
  BY <1>0, TakeStep
<1>2. i \in Ids /\ a.status \in Statuses /\ a.ended \in Ids \cup {Null}
  BY <1>1 DEF Message
<1>3. AnswerOK(a)
  BY <1>0, <1>1 DEF IInv, AnswersOK
<1>4. callbacks[i] = made[i] /\ done[i] = Null /\ said[i] = a.status /\ made[i] # Null
  BY <1>0, <1>2, <1>3 DEF IInv, TablesOK, AnswerOK
<1>5. a.status # Null
  BY <1>2, ClientLibraryAssumption
<1>6. TypeOK'
  <2>1. notify_callbacks' \in [Ids -> NotifyValue \cup {Null}]
    <3>1. notify_callbacks \in [Ids -> NotifyValue \cup {Null}] /\ callbacks[i] \in NotifyValue
      BY <1>0, <1>2 DEF IInv, TypeOK
    <3>2. \/ notify_callbacks' = [notify_callbacks EXCEPT ![i] = callbacks[i]]
          \/ \E stray \in StrayReads :
               notify_callbacks' = [j \in Ids |-> IF j = stray THEN Null ELSE notify_callbacks[j]]
          \/ notify_callbacks' = notify_callbacks
      BY DEF ReadAnswer
    <3> QED
      BY <3>1, <3>2
  <2>2. ended' \in SUBSET Ids
    <3>1. ended' = ended \/ (a.ended # Null /\ ended' = ended \cup {a.ended})
      BY <1>3, <1>4 DEF ReadAnswer, AnswerOK
    <3> QED
      BY <1>2, <3>1 DEF IInv, TypeOK
  <2>3. strayed' \in SUBSET Ids
    <3>1. strayed' = strayed \/ \E stray \in StrayReads : strayed' = strayed \cup ({stray} \cap Ids)
      BY DEF ReadAnswer
    <3> QED
      BY <3>1 DEF IInv, TypeOK
  <2>4. /\ callbacks' \in [Ids -> NotifyValue \cup {Null}]
        /\ done' \in [Ids -> Statuses \cup {Null}]
    BY <1>0, <1>2 DEF IInv, TypeOK
  <2> QED
    BY <1>0, <1>1, <2>1, <2>2, <2>3, <2>4 DEF IInv, TypeOK, Message
<1>7. \A j \in Ids : j # i => callbacks'[j] = callbacks[j] /\ done'[j] = done[j]
  BY <1>0 DEF IInv, TypeOK
<1>8. callbacks'[i] = Null /\ done'[i] = a.status
  BY <1>0, <1>2 DEF IInv, TypeOK
<1>9. \A j \in Ids : j # i /\ Kept(j) => Kept(j)'
  BY <1>0, <1>7 DEF Kept
<1>10. SendsOK' /\ RequestsOK'
  <2>1. KeepsAsked
    BY <1>4, <1>5, <1>9 DEF KeepsAsked
  <2> QED
    BY <1>0, <1>1, <2>1, SendsSteady
<1>11. AnswersOK'
  BY <1>0, <1>9, AnswersTaken DEF Take
<1>12. TablesOK'
  BY <1>0, <1>4, <1>7, <1>8 DEF IInv, TablesOK
<1>13. ASSUME NEW k \in Ids, k = i
       PROVE  AbstractStep
  <2> DEFINE O == [j \in Ids |-> Outcome(j)]
  <2>1. O[k] = "waiting"
    BY <1>0, <1>13, OutcomeOf
  <2>2. \A j \in Ids : j # k => Outcome(j)' = Outcome(j)
    BY <1>0, <1>7, <1>13 DEF Outcome
  <2>3. Outcome(k)' = said[k]
    BY <1>0, <1>4, <1>5, <1>8, <1>13 DEF Outcome
  <2>4. O' = [O EXCEPT ![k] = said[k]]
    BY <2>2, <2>3
  <2>5. Abstract!End(k)
    BY <1>0, <1>4, <1>5, <1>13, <2>1, <2>4 DEF Abstract!End
  <2> QED
    BY <2>5 DEF AbstractStep, Abstract!Next
<1> QED
  BY <1>1, <1>2, <1>6, <1>10, <1>11, <1>12, <1>13 DEF IInv

-----------------------------------------------------------------------------
(* Sending.                                                                 *)

(* The id was never used, so neither channel knows it.                      *)
LEMMA PutStep ==
  ASSUME IInv, NEW t \in Threads, Put(t)
  PROVE  IInv' /\ AbstractStep
<1> DEFINE id == Top(t).id
           nv == [call |-> Top(t).call, tv |-> Top(t).since]
           f == [Top(t) EXCEPT !.at = "write"]
<1>1. /\ At(t, "put") /\ stack[t] # <<>> /\ Top(t) \in Frame
      /\ callbacks' = [Reaped(callbacks) EXCEPT ![id] = nv]
      /\ made' = [made EXCEPT ![id] = nv]
      /\ Become(t, f)
      /\ UNCHANGED <<connection, notify_callbacks, msgid, now, said, done, result, ended, strayed>>
  BY TopFrame DEF Put, At, IInv
<1>2. FrameOK(Top(t)) /\ Sending(t) /\ Top(t).at = "put"
  BY <1>1 DEF IInv, SendsOK, Sending, At
<1>3. id \in Ids /\ id < msgid /\ Top(t).call \in Calls /\ made[id] = Null
  BY <1>2 DEF FrameOK
<1>4. nv \in NotifyValue /\ nv # Null
  <2>1. nv \in NotifyValue
    BY <1>1, <1>3 DEF NotifyValue, Frame
  <2> QED
    BY <2>1, ClientLibraryAssumption
<1>5. f \in Frame /\ f.at = "write" /\ f.id = id /\ f.call = Top(t).call
  BY <1>1 DEF Frame
<1>6. nv.call = Top(t).call
  OBVIOUS
<1> HIDE DEF f, nv
<1>7. /\ stack' \in [Threads -> Seq(Frame)] /\ NestingOK'
      /\ Others(t) /\ stack'[t] # <<>> /\ Head(stack'[t]) = f
  BY <1>1, <1>5, BecomeStep DEF IInv
<1>8. /\ callbacks'[id] = nv /\ made'[id] = nv
      /\ callbacks' \in [Ids -> NotifyValue \cup {Null}]
      /\ made' \in [Ids -> NotifyValue \cup {Null}]
      /\ \A j \in Ids : j # id =>
           /\ made'[j] = made[j]
           /\ callbacks'[j] = IF callbacks[j] # Null /\ now - callbacks[j].tv > TIMEOUT
                              THEN Null ELSE callbacks[j]
  BY <1>1, <1>3, <1>4 DEF IInv, TypeOK, Reaped
<1>9. TypeOK'
  BY <1>1, <1>7, <1>8 DEF IInv, TypeOK, connection
<1>10. \A j \in Ids : made[j] # Null /\ Kept(j) => j # id /\ Kept(j)' /\ made'[j] = made[j]
  BY <1>1, <1>3, <1>8 DEF Kept
<1>11. \A j \in Ids : \A c : Asked(j, c) => j # id /\ Asked(j, c)'
  BY <1>1, <1>10 DEF Asked
<1>12. Top(t)' = f /\ Sending(t)'
  BY <1>5, <1>7 DEF Top, Sending, At
<1>13. \A u \in Threads : u # t => (Sending(u)' <=> Sending(u)) /\ Top(u)' = Top(u)
  BY <1>7 DEF Others, Sending, At, Top
<1>14. FrameOK(Top(t))'
  <2>1. Asked(id, Top(t).call)'
    <3>1. said[id] = Null
      BY <1>3 DEF IInv, TablesOK
    <3>2. made'[id] # Null /\ made'[id].call = Top(t).call /\ callbacks'[id] = made'[id]
      BY <1>4, <1>6, <1>8
    <3> QED
      BY <1>1, <1>5, <1>12, <3>1, <3>2 DEF Asked, Kept
  <2>2. \A n \in 1 .. Len(requests) : requests[n].id # id
    BY <1>3 DEF IInv, RequestsOK, Asked
  <2> QED
    BY <1>1, <1>3, <1>5, <1>12, <2>1, <2>2 DEF FrameOK, connection
<1>15. SendsOK'
  <2>1. \A u \in Threads : u # t /\ Sending(u)' => FrameOK(Top(u))'
    <3> SUFFICES ASSUME NEW u \in Threads, u # t, Sending(u)'
                 PROVE  FrameOK(Top(u))'
      OBVIOUS
    <3>1. Sending(u) /\ Top(u)' = Top(u) /\ FrameOK(Top(u))
      BY <1>13 DEF IInv, SendsOK
    <3>2. Top(u).id # id
      BY <1>2, <3>1 DEF IInv, SendsOK
    <3> QED
      BY <1>1, <1>8, <1>11, <3>1, <3>2 DEF FrameOK, connection
  <2>2. \A u, v \in Threads : Sending(u)' /\ Sending(v)' /\ Top(v)'.id = Top(u)'.id => v = u
    BY <1>2, <1>5, <1>12, <1>13 DEF IInv, SendsOK
  <2> QED
    BY <1>14, <2>1, <2>2 DEF SendsOK
<1>16. RequestsOK'
  <2>1. \A n \in 1 .. Len(requests) : requests[n].id \in Ids
    BY Traffic DEF IInv
  <2> QED
    BY <1>1, <1>11, <2>1 DEF IInv, RequestsOK, connection
<1>17. AnswersOK'
  <2>1. \A n \in 1 .. Len(responses) : responses[n].id \in Ids
    BY Traffic DEF IInv
  <2> QED
    BY <1>1, <1>10, <2>1 DEF IInv, AnswersOK, AnswerOK, connection
<1>18. TablesOK' /\ AbstractStep
  <2>1. {id} \in SUBSET Ids
    BY <1>3
  <2>2. \A j \in {id} : made[j] = Null /\ made'[j] # Null /\ callbacks'[j] = made'[j]
                        /\ j < msgid'
    BY <1>1, <1>3, <1>4, <1>8
  <2>3. \A j \in Ids \ {id} : made'[j] = made[j] /\ callbacks'[j] \in {callbacks[j], Null}
    BY <1>8
  <2>4. said' = said /\ done' = done /\ \A j \in Ids : j < msgid => j < msgid'
    BY <1>1
  <2> HIDE DEF id
  <2> QED
    BY <2>1, <2>2, <2>3, <2>4, TurnStep
<1> QED
  BY <1>7, <1>9, <1>15, <1>16, <1>17, <1>18 DEF IInv

LEMMA WriteStep ==
  ASSUME IInv, NEW t \in Threads, Write(t)
  PROVE  IInv' /\ AbstractStep
<1> DEFINE r == [id |-> Top(t).id, call |-> Top(t).call]
<1>1. /\ At(t, "write") /\ stack[t] # <<>> /\ Top(t) \in Frame
      /\ requests' = Append(requests, r)
      /\ UNCHANGED <<open, hungup, responses, registered, tables, msgid, now, made, said, done, ended, strayed>>
  BY TopFrame DEF Write, At, IInv
<1>2. FrameOK(Top(t)) /\ Sending(t) /\ Top(t).at = "write"
  BY <1>1 DEF IInv, SendsOK, Sending, At
<1>3. /\ r \in Request
      /\ Asked(r.id, r.call)
      /\ \A n \in 1 .. Len(requests) : requests[n].id # r.id
  BY <1>2 DEF FrameOK, Request
<1>4. /\ stack' \in [Threads -> Seq(Frame)] /\ NestingOK' /\ Others(t)
      /\ stack'[t] # <<>> => Head(stack'[t]).at \in {"poll", "callback"}
  <2>1. CASE Top(t).call.sync
    <3> DEFINE f == [Top(t) EXCEPT !.at = "poll", !.since = now]
    <3>1. Become(t, f)
      BY <2>1 DEF Write
    <3>2. f \in Frame /\ f.at = "poll"
      BY <1>1 DEF Frame, IInv, TypeOK
    <3> HIDE DEF f
    <3> QED
      BY <1>1, <3>1, <3>2, BecomeStep DEF IInv
  <2>2. CASE ~Top(t).call.sync
    <3>1. Return(t)
      BY <2>2 DEF Write
    <3> QED
      BY <1>1, <3>1, ReturnStep DEF IInv
  <2> QED
    BY <2>1, <2>2
<1>5. result' \in [Ids -> Results \cup {Null}]
  BY DEF Write, IInv, TypeOK, Results
<1> HIDE DEF r
<1>6. /\ requests' \in Seq(Request)
      /\ Len(requests) \in Nat /\ Len(requests') = Len(requests) + 1
      /\ \A n \in 1 .. Len(requests) : requests'[n] = requests[n]
      /\ requests'[Len(requests) + 1] = r
  BY <1>1, <1>3, Traffic, Appended DEF IInv
<1>7. TypeOK'
  BY <1>1, <1>4, <1>5, <1>6 DEF IInv, TypeOK, tables, Request
<1>8. QuietStacks
  BY <1>4, Quiet
<1>9. \A i \in Ids : \A c : Asked(i, c) => Asked(i, c)'
  BY <1>1 DEF Asked, Kept, tables
<1>10. \A n \in 1 .. Len(requests) : requests[n].id \in Ids
  BY Traffic DEF IInv
<1>11. r.id \in Ids /\ Top(t).id = r.id
  BY <1>3 DEF Request, r
<1>12. SendsOK'
  <2> SUFFICES ASSUME NEW u \in Threads, Sending(u)'
               PROVE  /\ FrameOK(Top(u))'
                      /\ \A v \in Threads : Sending(v)' /\ Top(v)'.id = Top(u)'.id => v = u
    BY DEF SendsOK
  <2>1. Sending(u) /\ Top(u)' = Top(u) /\ FrameOK(Top(u))
    BY <1>8 DEF QuietStacks, IInv, SendsOK
  <2>2. u # t
    BY <1>4 DEF Sending, At, Top
  <2>3. Top(u).id # r.id
    BY <1>2, <1>11, <2>1, <2>2 DEF IInv, SendsOK
  <2>4. Top(u).at = "write" =>
          \A n \in 1 .. Len(requests') : requests'[n].id # Top(u).id
    BY <1>6, <2>1, <2>3 DEF FrameOK
  <2>5. FrameOK(Top(u))'
    BY <1>1, <1>9, <2>1, <2>4 DEF FrameOK
  <2>6. \A v \in Threads : Sending(v)' /\ Top(v)'.id = Top(u)'.id => v = u
    BY <1>8, <2>1 DEF QuietStacks, IInv, SendsOK
  <2> QED
    BY <2>5, <2>6
<1>13. RequestsOK'
  <2> SUFFICES ASSUME NEW n \in 1 .. Len(requests')
               PROVE  /\ Asked(requests[n].id, requests[n].call)'
                      /\ \A m \in 1 .. Len(requests') :
                           requests'[m].id = requests'[n].id => m = n
    BY DEF RequestsOK
  <2>1. CASE n \in 1 .. Len(requests)
    <3>1. Asked(requests[n].id, requests[n].call)
      BY <2>1 DEF IInv, RequestsOK
    <3>2. Asked(requests[n].id, requests[n].call)'
      BY <1>1, <1>6, <2>1, <3>1 DEF Asked, Kept, tables
    <3>3. \A m \in 1 .. Len(requests') : requests'[m].id = requests'[n].id => m = n
      BY <1>3, <1>6, <2>1 DEF IInv, RequestsOK
    <3> QED
      BY <3>2, <3>3
  <2>2. CASE n = Len(requests) + 1
    <3>1. Asked(requests[n].id, requests[n].call)'
      BY <1>1, <1>3, <1>6, <2>2 DEF Asked, Kept, tables
    <3>2. \A m \in 1 .. Len(requests') : requests'[m].id = requests'[n].id => m = n
      BY <1>3, <1>6, <2>2
    <3> QED
      BY <3>1, <3>2
  <2> QED
    BY <1>6, <2>1, <2>2
<1>14. AnswersOK'
  <2>1. KeepsAll
    BY <1>1, SameKeepsAll DEF tables
  <2> QED
    BY <1>1, <2>1, AnswersSteady
<1>15. TablesOK' /\ AbstractStep
  BY <1>1, ForgetStep DEF tables
<1> QED
  BY <1>4, <1>7, <1>12, <1>13, <1>14, <1>15 DEF IInv

-----------------------------------------------------------------------------
(* The daemon's steps.                                                      *)

LEMMA HangupStep ==
  ASSUME IInv, Hangup
  PROVE  IInv' /\ AbstractStep
<1> USE DEF Hangup, tables, history
<1>1. TypeOK'
  BY EmptyValues DEF IInv, TypeOK
<1>2. QuietStacks /\ NestingOK' /\ KeepsAll
  BY SameKeepsAll DEF QuietStacks, Sending, At, Top, NestingOK, IInv
<1>3. AnswersOK'
  BY <1>2, AnswersSteady
<1> QED
  BY <1>1, <1>2, <1>3, MoveOn

LEMMA AnnounceStep ==
  ASSUME IInv, Announce
  PROVE  IInv' /\ AbstractStep
<1> USE DEF Announce, tables, history
<1>1. PICK a \in Message : a.msg = "CHANGED" /\ responses' = Append(responses, a)
  <2>1. PICK k \in Keys : \E n \in 1 .. Len(registered[k]) :
          responses' = Append(responses, [msg |-> "CHANGED", id |-> registered[k][n],
                                          status |-> "ok", ended |-> Null])
    OBVIOUS
  <2>2. PICK n \in 1 .. Len(registered[k]) :
          responses' = Append(responses, [msg |-> "CHANGED", id |-> registered[k][n],
                                          status |-> "ok", ended |-> Null])
    BY <2>1
  <2>3. registered[k][n] \in Ids
    BY <2>2, ElementOfSeq DEF IInv, TypeOK
  <2>4. [msg |-> "CHANGED", id |-> registered[k][n], status |-> "ok", ended |-> Null] \in Message
    BY <2>3 DEF Message, Statuses
  <2> QED
    BY <2>2, <2>4
<1>2. /\ responses' \in Seq(Message)
      /\ Len(responses) \in Nat /\ Len(responses') = Len(responses) + 1
      /\ \A n \in 1 .. Len(responses) : responses'[n] = responses[n]
      /\ responses'[Len(responses) + 1] = a
  BY <1>1, Traffic, Appended DEF IInv
<1>3. TypeOK'
  BY <1>2 DEF IInv, TypeOK, Message
<1>4. QuietStacks /\ NestingOK' /\ KeepsAll
  BY SameKeepsAll DEF QuietStacks, Sending, At, Top, NestingOK, IInv
<1>5. AnswersOK'
  <2>1. \A n \in 1 .. Len(responses') : responses'[n].msg = "STATUS" =>
          n \in 1 .. Len(responses) /\ responses'[n] = responses[n]
    BY <1>1, <1>2
  <2> QED
    BY <2>1 DEF IInv, AnswersOK, AnswerOK, Kept
<1> QED
  BY <1>3, <1>4, <1>5, MoveOn

(* What a decision is made of: the first request leaves the queue, its      *)
(* status is recorded and the answer sent, and an UNNOTIFY that succeeds    *)
(* names the registration it ended.                                         *)
LEMMA Served ==
  ASSUME IInv, Serve
  PROVE  /\ requests # <<>> /\ requests' = Tail(requests)
         /\ \E status \in Statuses, n \in Ids \cup {Null} :
              /\ said' = [said EXCEPT ![Head(requests).id] = status]
              /\ responses' = Append(responses, [msg |-> "STATUS", id |-> Head(requests).id,
                                                 status |-> status, ended |-> n])
              /\ Head(requests).call.type = "UNNOTIFY" /\ status = "ok" => n # Null
         /\ registered' \in [Keys -> Seq(Ids)]
         /\ UNCHANGED <<open, hungup, tables, msgid, stack, now, made, done, result, ended, strayed>>
<1> DEFINE r == Head(requests)
           key == Head(requests).call.key
           DecidedOn(status, n) ==
             /\ said' = [said EXCEPT ![r.id] = status]
             /\ responses' = Append(responses, [msg |-> "STATUS", id |-> r.id,
                                                status |-> status, ended |-> n])
             /\ r.call.type = "UNNOTIFY" /\ status = "ok" => n # Null
<1>1. /\ requests # <<>> /\ requests' = Tail(requests)
      /\ UNCHANGED <<open, hungup, tables, msgid, stack, now, made, done, result, ended, strayed>>
  BY DEF Serve
<1>2. r \in Request /\ r.id \in Ids /\ r.call \in Calls /\ key \in Keys
  <2>1. r \in Request
    BY <1>1, Traffic, Beheaded DEF IInv
  <2> QED
    BY <2>1 DEF Request, Calls
<1>3. registered \in [Keys -> Seq(Ids)] /\ registered[key] \in Seq(Ids)
  BY <1>2 DEF IInv, TypeOK
<1>4. \A status, n : Decide(r, status, n) /\ (r.call.type = "UNNOTIFY" /\ status = "ok" => n # Null)
                     => DecidedOn(status, n)
  BY DEF Decide, Status
<1>5. "ok" \in Statuses /\ "refused" \in Statuses
  BY DEF Statuses
<1>6. CASE /\ r.call.type = "GET"
           /\ \E status \in Statuses : Decide(r, status, Null)
           /\ UNCHANGED registered
  <2>1. \E status \in Statuses : DecidedOn(status, Null)
    BY <1>4, <1>6
  <2> QED
    BY <1>1, <1>3, <1>6, <2>1
<1>7. CASE r.call.type = "NOTIFY" /\ ServeNotify(r)
  <2>1. \E status \in Statuses : DecidedOn(status, Null)
    BY <1>4, <1>5, <1>7 DEF ServeNotify
  <2>2. registered' \in [Keys -> Seq(Ids)]
    <3>1. Append(registered[key], r.id) \in Seq(Ids)
      BY <1>2, <1>3, AppendProperties
    <3>2. registered' = registered \/
          registered' = [registered EXCEPT ![key] = Append(registered[key], r.id)]
      BY <1>7 DEF ServeNotify
    <3> QED
      BY <1>3, <3>1, <3>2
  <2> QED
    BY <1>1, <2>1, <2>2
<1>8. CASE r.call.type = "UNNOTIFY" /\ ServeUnnotify(r)
  <2>1. CASE registered[key] = <<>>
    <3>1. Decide(r, "refused", Null) /\ UNCHANGED registered
      BY <1>8, <2>1 DEF ServeUnnotify
    <3>2. DecidedOn("refused", Null)
      BY <1>4, <3>1
    <3> QED
      BY <1>1, <1>3, <1>5, <3>1, <3>2
  <2>2. CASE registered[key] # <<>>
    <3>1. /\ Decide(r, "ok", Head(registered[key]))
          /\ registered' = [registered EXCEPT ![key] = Tail(registered[key])]
      BY <1>8, <2>2 DEF ServeUnnotify
    <3>2. Head(registered[key]) \in Ids /\ Tail(registered[key]) \in Seq(Ids)
      BY <1>3, <2>2, Beheaded
    <3>3. Head(registered[key]) # Null
      BY <3>2, ClientLibraryAssumption
    <3>4. DecidedOn("ok", Head(registered[key]))
      BY <1>4, <3>1, <3>3
    <3>5. registered' \in [Keys -> Seq(Ids)]
      BY <1>3, <3>1, <3>2
    <3> QED
      BY <1>1, <1>5, <3>2, <3>4, <3>5
  <2> QED
    BY <2>1, <2>2
<1> QED
  BY <1>6, <1>7, <1>8 DEF Serve

LEMMA ServeStep ==
  ASSUME IInv, Serve
  PROVE  IInv' /\ AbstractStep
<1>1. PICK r \in Request : r = Head(requests)
  BY Served, Traffic, Beheaded DEF IInv
<1>2. PICK status \in Statuses, n \in Ids \cup {Null} :
        /\ said' = [said EXCEPT ![r.id] = status]
        /\ responses' = Append(responses, [msg |-> "STATUS", id |-> r.id,
                                           status |-> status, ended |-> n])
        /\ r.call.type = "UNNOTIFY" /\ status = "ok" => n # Null
  BY <1>1, Served
<1> DEFINE a == [msg |-> "STATUS", id |-> r.id, status |-> status, ended |-> n]
<1>3. /\ UNCHANGED <<open, hungup, tables, msgid, stack, now, made, done, result, ended, strayed>>
      /\ registered' \in [Keys -> Seq(Ids)]
  BY Served
<1>4. /\ Len(requests) \in Nat \ {0} /\ Len(requests') = Len(requests) - 1
      /\ r = requests[1] /\ requests' \in Seq(Request)
      /\ \A m \in 1 .. Len(requests') : requests'[m] = requests[m + 1]
  <2>1. requests \in Seq(Request) /\ requests # <<>> /\ requests' = Tail(requests)
    BY Served, Traffic DEF IInv
  <2> QED
    BY <1>1, <2>1, Beheaded
<1>5. r.id \in Ids /\ status # Null
  BY ClientLibraryAssumption DEF Request
<1>6. a \in Message /\ a.msg = "STATUS" /\ a.id = r.id /\ a.status = status /\ a.ended = n
  BY <1>5 DEF Message
<1>7. responses' = Append(responses, a)
  BY <1>2
<1> HIDE DEF a
<1>8. /\ responses' \in Seq(Message)
      /\ Len(responses) \in Nat /\ Len(responses') = Len(responses) + 1
      /\ \A m \in 1 .. Len(responses) : responses'[m] = responses[m]
      /\ responses'[Len(responses) + 1] = a
  BY <1>6, <1>7, Traffic, Appended DEF IInv
<1>9. said' \in [Ids -> Statuses \cup {Null}] /\ said'[r.id] = status
      /\ \A j \in Ids : j # r.id => said'[j] = said[j]
  BY <1>2, <1>5 DEF IInv, TypeOK
<1>10. TypeOK'
  BY <1>3, <1>4, <1>8, <1>9 DEF IInv, TypeOK, tables, Request, Message
<1>11. Asked(r.id, r.call)
  BY <1>4 DEF IInv, RequestsOK
<1>12. NestingOK'
  BY <1>3 DEF IInv, NestingOK
<1>13. \A j \in Ids : \A c : j # r.id /\ Asked(j, c) => Asked(j, c)'
  BY <1>3, <1>9 DEF Asked, Kept, tables
<1>14. \A m \in 1 .. Len(requests') :
         /\ m + 1 \in 1 .. Len(requests) /\ requests'[m] = requests[m + 1]
         /\ requests[m + 1].id # r.id
  BY <1>4 DEF IInv, RequestsOK
<1>15. SendsOK'
  <2> SUFFICES ASSUME NEW t \in Threads, Sending(t)'
               PROVE  /\ FrameOK(Top(t))'
                      /\ \A u \in Threads : Sending(u)' /\ Top(u)'.id = Top(t)'.id => u = t
    BY DEF SendsOK
  <2>1. /\ \A u \in Threads : (Sending(u)' <=> Sending(u)) /\ Top(u)' = Top(u)
        /\ FrameOK(Top(t)) /\ Sending(t)
    BY <1>3 DEF Sending, At, Top, IInv, SendsOK
  <2>2. Top(t).id # r.id
    BY <1>4, <1>11, <2>1 DEF FrameOK, Asked, Sending, At
  <2>3. FrameOK(Top(t))'
    BY <1>3, <1>13, <1>14, <2>1, <2>2 DEF FrameOK
  <2> QED
    BY <2>1, <2>3 DEF IInv, SendsOK
<1>16. RequestsOK'
  <2> SUFFICES ASSUME NEW m \in 1 .. Len(requests')
               PROVE  /\ Asked(requests[m].id, requests[m].call)'
                      /\ \A l \in 1 .. Len(requests') :
                           requests'[l].id = requests'[m].id => l = m
    BY DEF RequestsOK
  <2>1. Asked(requests[m + 1].id, requests[m + 1].call)
    BY <1>14 DEF IInv, RequestsOK
  <2>2. said'[requests[m + 1].id] = said[requests[m + 1].id]
    BY <1>9, <1>14, Traffic DEF IInv
  <2>3. Asked(requests[m].id, requests[m].call)'
    BY <1>3, <1>14, <2>1, <2>2 DEF Asked, Kept, tables
  <2>4. ASSUME NEW l \in 1 .. Len(requests'), requests'[l].id = requests'[m].id
        PROVE  l = m
    <3>1. l + 1 = m + 1
      BY <1>14, <2>4 DEF IInv, RequestsOK
    <3> QED
      BY <1>4, <3>1
  <2> QED
    BY <2>3, <2>4
<1>17. AnswersOK'
  <2>1. \A m \in 1 .. Len(responses) : responses[m].msg = "STATUS" =>
          responses[m].id \in Ids /\ AnswerOK(responses[m]) /\ responses[m].id # r.id
    <3>1. \A m \in 1 .. Len(responses) : responses[m] \in Message /\ responses[m].id \in Ids
      BY Traffic DEF IInv
    <3>2. \A m \in 1 .. Len(responses) : responses[m].msg = "STATUS" =>
            said[responses[m].id] = responses[m].status /\ responses[m].status # Null
      BY <3>1, ClientLibraryAssumption DEF IInv, AnswersOK, AnswerOK, Message
    <3> QED
      BY <1>11, <3>1, <3>2 DEF IInv, AnswersOK, Asked
  <2> SUFFICES ASSUME NEW m \in 1 .. Len(responses'), responses'[m].msg = "STATUS"
               PROVE  /\ made[responses'[m].id] # Null /\ Kept(responses[m].id)'
                      /\ said'[responses'[m].id] = responses'[m].status
                      /\ made[responses'[m].id].call.type = "UNNOTIFY" /\ responses'[m].status = "ok"
                         => responses'[m].ended # Null
                      /\ \A l \in 1 .. Len(responses') :
                           /\ responses'[l].msg = "STATUS"
                           /\ responses'[l].id = responses'[m].id
                           => l = m
    BY <1>3 DEF AnswersOK, AnswerOK
  <2>2. CASE m \in 1 .. Len(responses)
    <3>1. responses'[m] = responses[m] /\ AnswerOK(responses[m]) /\ responses[m].id # r.id
          /\ responses[m].id \in Ids
      BY <1>8, <2>1, <2>2
    <3>2. Kept(responses[m].id)'
      BY <1>3, <3>1 DEF AnswerOK, Kept, tables
    <3>3. \A l \in 1 .. Len(responses') :
            responses'[l].msg = "STATUS" /\ responses'[l].id = responses'[m].id => l = m
      BY <1>6, <1>8, <2>2, <3>1 DEF IInv, AnswersOK
    <3> QED
      BY <1>9, <3>1, <3>2, <3>3 DEF AnswerOK
  <2>3. CASE m = Len(responses) + 1
    <3>1. responses'[m] = a
      BY <1>8, <2>3
    <3>2. Kept(responses[m].id)' /\ made[r.id] # Null
      BY <1>3, <1>6, <1>11, <3>1 DEF Asked, Kept, tables
    <3>3. made[r.id].call.type = "UNNOTIFY" /\ status = "ok" => n # Null
      BY <1>2, <1>11 DEF Asked
    <3>4. \A l \in 1 .. Len(responses') :
            responses'[l].msg = "STATUS" /\ responses'[l].id = responses'[m].id => l = m
      BY <1>6, <1>8, <2>1, <2>3, <3>1
    <3> QED
      BY <1>6, <1>9, <3>1, <3>2, <3>3, <3>4
  <2> QED
    BY <1>8, <2>2, <2>3
<1>18. said[r.id] = Null /\ made[r.id] # Null
  BY <1>11 DEF Asked
<1>19. done[r.id] = Null
  BY <1>5, <1>18 DEF IInv, TablesOK
<1>20. TablesOK'
  BY <1>3, <1>9, <1>18, <1>19 DEF IInv, TablesOK, tables
<1>21. AbstractStep
  <2> DEFINE O == [j \in Ids |-> Outcome(j)]
  <2>1. O[r.id] \in {"waiting", "forgotten"}
    BY <1>5, <1>18, <1>19 DEF Outcome
  <2>2. O' = O
    BY <1>3 DEF Outcome, tables
  <2>3. Abstract!Decide(r.id, status)
    BY <1>2, <1>18, <2>1, <2>2 DEF Abstract!Decide
  <2> QED
    BY <1>5, <2>3 DEF AbstractStep, Abstract!Next
<1> QED
  BY <1>10, <1>12, <1>15, <1>16, <1>17, <1>20, <1>21 DEF IInv

-----------------------------------------------------------------------------
LEMMA InitInv ==
  Init => IInv /\ Abstract!Init
<1> SUFFICES ASSUME Init
             PROVE  IInv /\ Abstract!Init
  OBVIOUS
<1>1. TypeOK
  <2>1. 0 \in 0 .. MaxRequests
    BY ClientLibraryAssumption
  <2>2. /\ Nobody \in [Ids -> NotifyValue \cup {Null}]
        /\ Nobody \in [Ids -> Statuses \cup {Null}]
        /\ Nobody \in [Ids -> Results \cup {Null}]
    BY EmptyValues
  <2> QED
    BY <2>1, <2>2, EmptyValues DEF Init, TypeOK
<1>2. NestingOK /\ SendsOK /\ RequestsOK /\ AnswersOK
  BY DEF Init, NestingOK, SendsOK, Sending, At, RequestsOK, AnswersOK
<1>3. \A i \in Ids : callbacks[i] = Null /\ made[i] = Null /\ said[i] = Null /\ done[i] = Null
  BY DEF Init, Nobody
<1>4. TablesOK
  BY <1>3 DEF TablesOK
<1>5. Abstract!Init
  BY <1>3 DEF Abstract!Init, Outcome, Init, Nobody
<1> QED
  BY <1>1, <1>2, <1>4, <1>5 DEF IInv

LEMMA NextInv ==
  IInv /\ [Next]_vars => IInv' /\ AbstractStep
<1> SUFFICES ASSUME IInv, [Next]_vars
             PROVE  IInv' /\ AbstractStep
  OBVIOUS
<1>1. CASE Open
  BY <1>1, OpenStep
<1>2. CASE Close
  BY <1>2, CloseStep
<1>3. CASE Tick
  BY <1>3, TickStep
<1>4. CASE Serve
  BY <1>4, ServeStep
<1>5. CASE Announce
  BY <1>5, AnnounceStep
<1>6. CASE Hangup
  BY <1>6, HangupStep
<1>7. ASSUME NEW t \in Threads, NEW key \in Keys, NEW sync \in BOOLEAN,
             \/ RequestData(t, key, sync)
             \/ RegisterNotification(t, key, sync)
             \/ UnregisterNotification(t, key, sync)
      PROVE  IInv' /\ AbstractStep
  <2>1. PICK call \in Calls : Call(t, call)
    BY <1>7 DEF RequestData, RegisterNotification, UnregisterNotification, Calls
  <2> QED
    BY <2>1, CallStep
<1>8. ASSUME NEW t \in Threads, Put(t) \/ Write(t) \/ WriteFails(t)
      PROVE  IInv' /\ AbstractStep
  BY <1>8, PutStep, WriteStep, WriteFailsStep
<1>9. ASSUME NEW t \in Threads, PollReady(t) \/ PollTimesOut(t) \/ PollFails(t) \/ HandleResponse(t)
      PROVE  IInv' /\ AbstractStep
  BY <1>9, PollReadyStep, PollTimesOutStep, PollFailsStep, HandleResponseStep
<1>10. ASSUME NEW t \in Threads, Reading(t) \/ CallbackReturns(t)
       PROVE  IInv' /\ AbstractStep
  BY <1>10, ReadNothingStep, ReadAnswerStep, ReadAwaySteps, CallbackReturnsStep DEF Reading
<1>11. CASE UNCHANGED vars
  <2> USE DEF vars, connection, tables, history
  <2>1. TypeOK'
    BY <1>11 DEF IInv, TypeOK
  <2>2. QuietStacks /\ NestingOK' /\ KeepsAll
    BY <1>11, SameKeepsAll DEF QuietStacks, Sending, At, Top, NestingOK, IInv
  <2>3. AnswersOK'
    BY <1>11, <2>2, AnswersSteady
  <2> QED
    BY <1>11, <2>1, <2>2, <2>3, MoveOn
<1> QED
  BY <1>1, <1>2, <1>3, <1>4, <1>5, <1>6, <1>7, <1>8, <1>9, <1>10, <1>11 DEF Next

THEOREM Invariance ==
  Spec => []IInv
<1>1. Init => IInv
  BY InitInv
<1>2. IInv /\ [Next]_vars => IInv'
  BY NextInv
<1> QED
  BY <1>1, <1>2, PTL DEF Spec

(* Every variable keeps its type.                                           *)
THEOREM TypeCorrect ==
  Spec => []TypeOK
<1>1. IInv => TypeOK
  BY DEF IInv
<1> QED
  BY <1>1, Invariance, PTL

(* The callback of a request runs at most once, with the daemon's reply to  *)
(* this request and no other (protocol.c:251-299, 315-366).                 *)
THEOREM RequestsAreKept ==
  Spec => KeepsRequests
<1>1. Init => Abstract!Init
  BY InitInv
<1>2. IInv /\ [Next]_vars => [Abstract!Next]_(Abstract!vars)
  BY NextInv DEF AbstractStep
<1>3. Spec => Abstract!Spec
  BY <1>1, <1>2, Invariance, PTL DEF Spec, Abstract!Spec
<1> QED
  BY <1>3 DEF KeepsRequests

(* An answer is dropped only if it comes more than TIMEOUT seconds after    *)
(* the request (protocol.c:168-185).                                        *)
THEOREM InTimeTaken ==
  Spec => AnswersInTimeAreTaken
<1>1. ASSUME IInv, NEW t \in Threads, ReadLateAnswer(t)
      PROVE  now - made[Answer.id].tv > TIMEOUT
  <2>1. Take(t) /\ Handled(t) /\ Answer.msg = "STATUS" /\ callbacks[Answer.id] = Null
    BY <1>1 DEF ReadLateAnswer
  <2>2. Answer = responses[1] /\ 1 \in 1 .. Len(responses)
    BY <1>1, <2>1, TakeStep
  <2>3. AnswerOK(Answer)
    BY <1>1, <2>1, <2>2 DEF IInv, AnswersOK
  <2> QED
    BY <2>1, <2>3 DEF AnswerOK, Kept
<1>2. IInv => [\A t \in Threads :
                ReadLateAnswer(t) => now - made[Answer.id].tv > TIMEOUT]_vars
  BY <1>1
<1> QED
  BY <1>2, Invariance, PTL DEF AnswersInTimeAreTaken

-----------------------------------------------------------------------------
(* Why a synchronous call fails.                                            *)

(* The calls of thread t.  Only Reader waits or reads; a call that has yet  *)
(* to put its request in the table noted the time before; one that waits    *)
(* began to do so after it made its request; one that found something to    *)
(* read, and has handled no message, still finds it.                        *)
WaitOK(t) ==
  /\ t # Reader => \A j \in 1 .. Len(stack[t]) : stack[t][j].at \in {"put", "write"}
  /\ Sending(t) /\ Top(t).call.sync => t = Reader
  /\ At(t, "put") => Top(t).since <= now
  /\ At(t, "poll") => /\ Top(t).id \in Ids /\ made[Top(t).id] # Null
                      /\ made[Top(t).id].tv <= Top(t).since
  /\ At(t, "read") /\ Top(t).id # Null /\ ~Top(t).handled => responses # <<>> \/ hungup

WaitsOK ==
  /\ \A i \in Ids : made[i] # Null => made[i].tv <= now
  /\ \A t \in Threads : WaitOK(t)

(* Only Reader is anywhere but on its way to send.                          *)
LEMMA OnlyReader ==
  ASSUME TypeOK, NEW t \in Threads, WaitOK(t), stack[t] # <<>>,
         Top(t).at \notin {"put", "write"}
  PROVE  t = Reader
<1>1. stack[t] \in Seq(Frame)
  BY DEF TypeOK
<1>2. Top(t) = stack[t][1] /\ 1 \in 1 .. Len(stack[t])
  BY <1>1, Beheaded DEF Top
<1> QED
  BY <1>2 DEF WaitOK

(* A thread whose stack does not change, in a step that takes no message.   *)
LEMMA WaitSame ==
  ASSUME TypeOK, NEW t \in Threads, WaitOK(t), stack'[t] = stack[t],
         now' \in {now, now + 1},
         At(t, "poll") => made'[Top(t).id] = made[Top(t).id],
         responses' = responses \/ responses' # <<>> \/ ~At(t, "read"),
         hungup => hungup'
  PROVE  WaitOK(t)'
<1>1. now \in Nat /\ (stack[t] # <<>> => Top(t).since \in Nat)
  BY TopFrame DEF TypeOK, Frame
<1>2. (At(t, "put") => Top(t).since <= now)'
  BY <1>1 DEF WaitOK, At, Top
<1> QED
  BY <1>2 DEF WaitOK, Sending, At, Top

(* What a step does to the stack of its thread t, whose frame f comes on    *)
(* top of the rest of the stack, or of all of it.                           *)
LEMMA WaitNew ==
  ASSUME TypeOK, NEW t \in Threads, WaitOK(t), NEW f \in Frame,
         \/ Push(t, f)
         \/ stack[t] # <<>> /\ Become(t, f),
         f.at \notin {"put", "write"} => t = Reader,
         f.at \in {"put", "write"} /\ f.call.sync => t = Reader,
         f.at = "put" => f.since <= now',
         f.at = "poll" => f.id \in Ids /\ made'[f.id] # Null /\ made'[f.id].tv <= f.since,
         f.at = "read" /\ f.id # Null /\ ~f.handled => responses' # <<>> \/ hungup'
  PROVE  WaitOK(t)'
<1>1. stack \in [Threads -> Seq(Frame)] /\ stack[t] \in Seq(Frame)
  BY DEF TypeOK
<1>2. stack'[t] # <<>> /\ Head(stack'[t]) = f /\ stack'[t][1] = f
  <2>1. CASE Push(t, f)
    <3>1. stack'[t] = <<f>> \o stack[t]
      BY <1>1, <2>1 DEF Push
    <3> QED
      BY <1>1, <3>1, Pushed, Beheaded
  <2>2. CASE stack[t] # <<>> /\ Become(t, f)
    <3>1. stack'[t] = <<f>> \o Tail(stack[t]) /\ Tail(stack[t]) \in Seq(Frame)
      BY <1>1, <2>2, Beheaded DEF Become
    <3> QED
      BY <3>1, Pushed, Beheaded
  <2> QED
    BY <2>1, <2>2
<1>3. t # Reader => \A j \in 1 .. Len(stack'[t]) : stack'[t][j].at \in {"put", "write"}
  <2> SUFFICES ASSUME t # Reader, NEW j \in 1 .. Len(stack'[t])
               PROVE  stack'[t][j].at \in {"put", "write"}
    OBVIOUS
  <2>1. CASE j = 1
    BY <1>2, <2>1
  <2>2. CASE j # 1 /\ Push(t, f)
    <3>1. stack'[t] = <<f>> \o stack[t]
      BY <1>1, <2>2 DEF Push
    <3>2. /\ Len(stack'[t]) = Len(stack[t]) + 1 /\ Len(stack[t]) \in Nat
          /\ \A n \in 2 .. Len(stack'[t]) : stack'[t][n] = stack[t][n - 1]
      BY <1>1, <3>1, Pushed, LenProperties
    <3>3. j - 1 \in 1 .. Len(stack[t]) /\ stack'[t][j] = stack[t][j - 1]
      BY <2>2, <3>2
    <3> QED
      BY <3>3 DEF WaitOK
  <2>3. CASE j # 1 /\ stack[t] # <<>> /\ Become(t, f)
    <3>1. /\ stack'[t] = <<f>> \o Tail(stack[t]) /\ Tail(stack[t]) \in Seq(Frame)
          /\ Len(Tail(stack[t])) = Len(stack[t]) - 1 /\ Len(stack[t]) \in Nat
          /\ \A n \in 1 .. Len(Tail(stack[t])) : Tail(stack[t])[n] = stack[t][n + 1]
      BY <1>1, <2>3, Beheaded DEF Become
    <3>2. /\ Len(stack'[t]) = Len(Tail(stack[t])) + 1
          /\ \A n \in 2 .. Len(stack'[t]) : stack'[t][n] = Tail(stack[t])[n - 1]
      BY <3>1, Pushed
    <3>3. j \in 1 .. Len(stack[t]) /\ stack'[t][j] = stack[t][j]
      BY <2>3, <3>1, <3>2
    <3> QED
      BY <3>3 DEF WaitOK
  <2> QED
    BY <2>1, <2>2, <2>3
<1> QED
  BY <1>2, <1>3 DEF WaitOK, Sending, At, Top

(* The call on top returns.                                                 *)
LEMMA WaitReturns ==
  ASSUME TypeOK, NestingOK, NEW t \in Threads, WaitOK(t), stack[t] # <<>>, Return(t)
  PROVE  WaitOK(t)'
<1>1. stack \in [Threads -> Seq(Frame)] /\ stack[t] \in Seq(Frame)
  BY DEF TypeOK
<1>2. stack'[t] = Tail(stack[t])
  BY <1>1 DEF Return
<1>3. /\ Len(stack'[t]) = Len(stack[t]) - 1 /\ Len(stack[t]) \in Nat
      /\ \A n \in 1 .. Len(stack'[t]) : n + 1 \in 1 .. Len(stack[t]) /\ stack'[t][n] = stack[t][n + 1]
  BY <1>1, <1>2, Beheaded
<1>4. t # Reader => \A j \in 1 .. Len(stack'[t]) : stack'[t][j].at \in {"put", "write"}
  BY <1>3 DEF WaitOK
<1>5. stack'[t] # <<>> => Head(stack'[t]).at = "callback"
  BY ReturnStep
<1> QED
  BY <1>4, <1>5 DEF WaitOK, Sending, At, Top

(* Requests are as old as before, or made now.                              *)
LEMMA WaitAll ==
  ASSUME IInv, IInv', WaitsOK, NEW t \in Threads,
         now' = now, hungup' = hungup, Others(t),
         WaitOK(t)',
         \A i \in Ids : made'[i] = made[i] \/ (made[i] = Null /\ made'[i].tv <= now),
         responses' = responses \/ t = Reader
  PROVE  WaitsOK'
<1>1. now \in Nat /\ made \in [Ids -> NotifyValue \cup {Null}]
  BY DEF IInv, TypeOK
<1>2. \A i \in Ids : made'[i] # Null => made'[i].tv <= now'
  BY <1>1 DEF WaitsOK
<1>3. ASSUME NEW u \in Threads, u # t
      PROVE  WaitOK(u)'
  <2>1. WaitOK(u) /\ stack'[u] = stack[u]
    BY <1>3 DEF WaitsOK, Others
  <2>2. At(u, "poll") => made'[Top(u).id] = made[Top(u).id]
    BY <2>1 DEF WaitOK
  <2>3. responses' = responses \/ ~At(u, "read")
    <3>1. At(u, "read") => u = Reader
      BY <2>1, OnlyReader DEF At, IInv
    <3> QED
      BY <1>3, <3>1
  <2> QED
    BY <2>1, <2>2, <2>3, WaitSame DEF IInv
<1> QED
  BY <1>2, <1>3 DEF WaitsOK

-----------------------------------------------------------------------------
(* The steps.                                                               *)

LEMMA WaitsQuiet ==
  ASSUME IInv, WaitsOK, stack' = stack, made' = made,
         responses' = responses \/ responses' # <<>> \/ (\A t \in Threads : stack[t] = <<>>),
         now' \in {now, now + 1}, (\A t \in Threads : stack[t] = <<>>) \/ (hungup => hungup')
  PROVE  WaitsOK'
<1>1. now \in Nat /\ made \in [Ids -> NotifyValue \cup {Null}]
  BY DEF IInv, TypeOK
<1>2. \A i \in Ids : made[i] # Null => made[i].tv \in Nat
  BY <1>1 DEF NotifyValue
<1>3. \A i \in Ids : made'[i] # Null => made'[i].tv <= now'
  BY <1>1, <1>2 DEF WaitsOK
<1>4. ASSUME NEW t \in Threads
      PROVE  WaitOK(t)'
  <2>1. CASE stack[t] = <<>>
    BY <2>1 DEF WaitOK, Sending, At
  <2>2. CASE stack[t] # <<>>
    BY <2>2, WaitSame DEF IInv, WaitsOK
  <2> QED
    BY <2>1, <2>2
<1> QED
  BY <1>3, <1>4 DEF WaitsOK

LEMMA WaitsCall ==
  ASSUME IInv, IInv', WaitsOK, NEW t \in Threads, NEW call \in Calls, Call(t, call)
  PROVE  WaitsOK'
<1> DEFINE f == [at |-> "put", id |-> msgid, call |-> call, since |-> now, handled |-> FALSE]
<1>1. msgid \in Ids
  BY ClientLibraryAssumption DEF Call, IInv, TypeOK, Ids
<1>2. f \in Frame /\ f.at = "put" /\ f.call = call /\ f.since = now /\ now <= now
  BY <1>1 DEF Frame, IInv, TypeOK
<1>3. /\ Push(t, f) /\ (call.sync => t = Reader)
      /\ UNCHANGED <<connection, now, history>>
  BY DEF Call
<1> HIDE DEF f
<1>4. WaitOK(t)'
  BY <1>2, <1>3, WaitNew DEF IInv, WaitsOK
<1>5. Others(t)
  BY <1>2, <1>3, PushStep DEF IInv, Call
<1> QED
  BY <1>3, <1>4, <1>5, WaitAll DEF connection, history

LEMMA WaitsPut ==
  ASSUME IInv, IInv', WaitsOK, NEW t \in Threads, Put(t)
  PROVE  WaitsOK'
<1> DEFINE f == [Top(t) EXCEPT !.at = "write"]
<1>1. stack[t] # <<>> /\ Top(t) \in Frame /\ Top(t).at = "put" /\ Sending(t)
  BY TopFrame DEF Put, At, IInv, Sending
<1>2. f \in Frame /\ f.at = "write" /\ f.call = Top(t).call
  BY <1>1 DEF Frame
<1>3. /\ Become(t, f)
      /\ made' = [made EXCEPT ![Top(t).id] = [call |-> Top(t).call, tv |-> Top(t).since]]
      /\ UNCHANGED <<connection, now>>
  BY DEF Put
<1> HIDE DEF f
<1>4. made[Top(t).id] = Null
  BY <1>1 DEF IInv, SendsOK, FrameOK
<1>5. \A i \in Ids : made'[i] = made[i] \/ (made[i] = Null /\ made'[i].tv <= now)
  <2>1. Top(t).since <= now
    BY <1>1 DEF WaitsOK, WaitOK, At
  <2> QED
    BY <1>3, <1>4, <2>1 DEF IInv, TypeOK
<1>6. WaitOK(t)'
  BY <1>1, <1>2, <1>3, WaitNew DEF IInv, WaitsOK, WaitOK
<1>7. Others(t)
  BY <1>1, <1>2, <1>3, BecomeStep DEF IInv
<1> QED
  BY <1>3, <1>5, <1>6, <1>7, WaitAll DEF connection

LEMMA WaitsWrite ==
  ASSUME IInv, IInv', WaitsOK, NEW t \in Threads, Write(t)
  PROVE  WaitsOK'
<1>1. stack[t] # <<>> /\ Top(t) \in Frame /\ Top(t).at = "write" /\ Sending(t)
  BY TopFrame DEF Write, At, IInv, Sending
<1>2. UNCHANGED <<hungup, responses, now, made>>
  BY DEF Write
<1>3. Top(t).id \in Ids /\ made[Top(t).id] # Null /\ made[Top(t).id].tv <= now
  BY <1>1 DEF IInv, SendsOK, FrameOK, Asked, WaitsOK
<1>4. WaitOK(t)' /\ Others(t)
  <2>1. CASE Top(t).call.sync
    <3> DEFINE f == [Top(t) EXCEPT !.at = "poll", !.since = now]
    <3>1. Become(t, f) /\ t = Reader
      BY <1>1, <2>1 DEF Write, WaitsOK, WaitOK
    <3>2. f \in Frame /\ f.at = "poll" /\ f.id = Top(t).id /\ f.since = now
      BY <1>1 DEF Frame, IInv, TypeOK
    <3> HIDE DEF f
    <3>3. WaitOK(t)'
      BY <1>1, <1>2, <1>3, <3>1, <3>2, WaitNew DEF IInv, WaitsOK
    <3> QED
      BY <1>1, <3>1, <3>2, <3>3, BecomeStep DEF IInv
  <2>2. CASE ~Top(t).call.sync
    <3>1. Return(t)
      BY <2>2 DEF Write
    <3> QED
      BY <1>1, <3>1, WaitReturns, ReturnStep DEF IInv, WaitsOK
  <2> QED
    BY <2>1, <2>2
<1> QED
  BY <1>2, <1>4, WaitAll

(* A call that returns: its write or its wait failed, or it read to the end. *)
LEMMA WaitsGiveUp ==
  ASSUME IInv, IInv', WaitsOK, NEW t \in Threads,
         WriteFails(t) \/ PollTimesOut(t) \/ PollFails(t) \/ ReadNothing(t)
  PROVE  WaitsOK'
<1>1. stack[t] # <<>> /\ Return(t) /\ UNCHANGED <<connection, now, made>>
  BY DEF WriteFails, PollTimesOut, PollFails, ReadNothing, At
<1>2. WaitOK(t)' /\ Others(t)
  BY <1>1, WaitReturns, ReturnStep DEF IInv, WaitsOK
<1> QED
  BY <1>1, <1>2, WaitAll DEF connection

LEMMA WaitsPollReady ==
  ASSUME IInv, IInv', WaitsOK, NEW t \in Threads, PollReady(t)
  PROVE  WaitsOK'
<1> DEFINE f == [Top(t) EXCEPT !.at = "read", !.since = 0]
<1>1. stack[t] # <<>> /\ Top(t) \in Frame /\ Top(t).at = "poll"
  BY TopFrame DEF PollReady, At, IInv
<1>2. f \in Frame /\ f.at = "read"
  BY <1>1 DEF Frame
<1>3. /\ Become(t, f) /\ (responses # <<>> \/ hungup)
      /\ UNCHANGED <<connection, now, history>>
  BY DEF PollReady
<1> HIDE DEF f
<1>4. t = Reader
  BY <1>1, OnlyReader DEF IInv, WaitsOK
<1>5. WaitOK(t)'
  BY <1>1, <1>2, <1>3, <1>4, WaitNew DEF IInv, WaitsOK, connection
<1>6. Others(t)
  BY <1>1, <1>2, <1>3, BecomeStep DEF IInv
<1> QED
  BY <1>3, <1>5, <1>6, WaitAll DEF connection, history

LEMMA WaitsHandleResponse ==
  ASSUME IInv, IInv', WaitsOK, NEW t \in Threads, HandleResponse(t)
  PROVE  WaitsOK'
<1> DEFINE f == [at |-> "read", id |-> Null, call |-> Null, since |-> 0, handled |-> FALSE]
<1>1. f \in Frame /\ f.at = "read" /\ f.id = Null
  BY DEF Frame
<1>2. Push(t, f) /\ t = Reader /\ Running(t) /\ UNCHANGED <<connection, now, history>>
  BY DEF HandleResponse
<1> HIDE DEF f
<1>3. WaitOK(t)'
  BY <1>1, <1>2, WaitNew DEF IInv, WaitsOK
<1>4. Others(t)
  BY <1>1, <1>2, PushStep DEF IInv
<1> QED
  BY <1>2, <1>3, <1>4, WaitAll DEF connection, history

(* A message is read, or the callback of one has returned.                  *)
LEMMA WaitsRead ==
  ASSUME IInv, IInv', WaitsOK, NEW t \in Threads,
         \/ Take(t) /\ (Handled(t) \/ Become(t, [Top(t) EXCEPT !.at = "callback"]))
         \/ CallbackReturns(t)
  PROVE  WaitsOK'
<1>1. /\ stack[t] # <<>> /\ Top(t) \in Frame /\ Top(t).at \in {"read", "callback"}
      /\ UNCHANGED <<hungup, now, made>>
  BY TopFrame DEF Take, CallbackReturns, At, IInv, connection, history
<1>2. t = Reader
  BY <1>1, OnlyReader DEF IInv, WaitsOK
<1>3. PICK f \in Frame : Become(t, f) /\ (f.at = "callback" \/ (f.at = "read" /\ f.handled))
  <2>1. CASE Handled(t) /\ Top(t).at = "read"
    <3> DEFINE f == [Top(t) EXCEPT !.handled = TRUE]
    <3>1. f \in Frame /\ f.at = "read" /\ f.handled
      BY <1>1, <2>1 DEF Frame
    <3> QED
      BY <2>1, <3>1 DEF Handled
  <2>2. CASE Become(t, [Top(t) EXCEPT !.at = "callback"])
    <3> DEFINE f == [Top(t) EXCEPT !.at = "callback"]
    <3>1. f \in Frame /\ f.at = "callback"
      BY <1>1 DEF Frame
    <3> QED
      BY <2>2, <3>1
  <2>3. CASE Become(t, [Top(t) EXCEPT !.at = "read", !.handled = TRUE])
    <3> DEFINE f == [Top(t) EXCEPT !.at = "read", !.handled = TRUE]
    <3>1. f \in Frame /\ f.at = "read" /\ f.handled
      BY <1>1 DEF Frame
    <3> QED
      BY <2>3, <3>1
  <2> QED
    BY <2>1, <2>2, <2>3 DEF Take, At, CallbackReturns
<1>4. WaitOK(t)'
  BY <1>1, <1>2, <1>3, WaitNew DEF IInv, WaitsOK
<1>5. Others(t)
  BY <1>1, <1>3, BecomeStep DEF IInv
<1> QED
  BY <1>1, <1>2, <1>4, <1>5, WaitAll

LEMMA WaitsNext ==
  ASSUME IInv, IInv', WaitsOK, [Next]_vars
  PROVE  WaitsOK'
<1> USE DEF connection, history
<1>1. CASE Open \/ Tick \/ Hangup \/ UNCHANGED vars
  BY <1>1, WaitsQuiet DEF Open, Tick, Hangup, vars
<1>2. CASE Close
  BY <1>2, WaitsQuiet DEF Close
<1>3. CASE Serve \/ Announce
  <2>1. stack' = stack /\ made' = made /\ now' = now /\ hungup' = hungup
    BY <1>3 DEF Serve, Announce
  <2>2. PICK m \in Message : responses' = Append(responses, m)
    <3>1. CASE Serve
      <4>1. PICK r \in Request, status \in Statuses, n \in Ids \cup {Null} :
              responses' = Append(responses, [msg |-> "STATUS", id |-> r.id,
                                              status |-> status, ended |-> n])
        <5>1. Head(requests) \in Request
          BY <3>1, Traffic, Beheaded DEF IInv, Serve
        <5> QED
          BY <3>1, <5>1, Served
      <4> QED
        BY <4>1 DEF Message, Request
    <3>2. CASE Announce
      <4>1. \A k \in Keys : \A n \in 1 .. Len(registered[k]) : registered[k][n] \in Ids
        BY ElementOfSeq DEF IInv, TypeOK
      <4>2. PICK i \in Ids :
              responses' = Append(responses, [msg |-> "CHANGED", id |-> i,
                                              status |-> "ok", ended |-> Null])
        BY <3>2, <4>1 DEF Announce
      <4> QED
        BY <4>2 DEF Message, Statuses
    <3> QED
      BY <1>3, <3>1, <3>2
  <2>3. responses' # <<>>
    <3>1. responses \in Seq(Message)
      BY Traffic DEF IInv
    <3>2. Len(responses') = Len(responses) + 1 /\ Len(responses) \in Nat
      BY <2>2, <3>1, Appended
    <3> QED
      BY <3>2
  <2> QED
    BY <2>1, <2>3, WaitsQuiet
<1>4. ASSUME NEW t \in Threads, NEW key \in Keys, NEW sync \in BOOLEAN,
             \/ RequestData(t, key, sync)
             \/ RegisterNotification(t, key, sync)
             \/ UnregisterNotification(t, key, sync)
      PROVE  WaitsOK'
  <2>1. PICK call \in Calls : Call(t, call)
    BY <1>4 DEF RequestData, RegisterNotification, UnregisterNotification, Calls
  <2> QED
    BY <2>1, WaitsCall
<1>5. ASSUME NEW t \in Threads, Put(t) \/ Write(t) \/ WriteFails(t)
      PROVE  WaitsOK'
  BY <1>5, WaitsPut, WaitsWrite, WaitsGiveUp
<1>6. ASSUME NEW t \in Threads, PollReady(t) \/ PollTimesOut(t) \/ PollFails(t) \/ HandleResponse(t)
      PROVE  WaitsOK'
  BY <1>6, WaitsPollReady, WaitsGiveUp, WaitsHandleResponse
<1>7. ASSUME NEW t \in Threads, Reading(t) \/ CallbackReturns(t)
      PROVE  WaitsOK'
  BY <1>7, WaitsGiveUp, WaitsRead
     DEF Reading, ReadLateAnswer, ReadAnswer, ReadUnknownChanged, ReadChanged
<1> QED
  BY <1>1, <1>2, <1>3, <1>4, <1>5, <1>6, <1>7 DEF Next

THEOREM Waiting ==
  Spec => []WaitsOK
<1>1. Init => WaitsOK
  BY DEF Init, Nobody, WaitsOK, WaitOK, Sending, At
<1>2. IInv /\ IInv' /\ WaitsOK /\ [Next]_vars => WaitsOK'
  BY WaitsNext
<1> QED
  BY <1>1, <1>2, Invariance, PTL DEF Spec

(* The entry of a function that an EXCEPT changes.                          *)
LEMMA EntryChanged ==
  ASSUME NEW D, NEW R, NEW f \in [D -> R], NEW i \in D, NEW j, NEW v,
         [f EXCEPT ![j] = v][i] # f[i]
  PROVE  j = i /\ [f EXCEPT ![j] = v][i] = v
OBVIOUS

(* A synchronous call that got its request out, and whose wait no signal    *)
(* interrupted, fails only because the daemon is gone or because nothing    *)
(* came for PollTimeout seconds (lbuxton.c:164-171, protocol.c:411-432).    *)
THEOREM FailuresHaveReasons ==
  Spec => FailsForAReason
<1>1. ASSUME IInv, WaitsOK, [Next]_vars, NEW i \in Ids, result'[i] = "failure", result[i] = Null
      PROVE  hungup \/ (responses = <<>> /\ now - made[i].tv >= PollTimeout)
  <2>1. result' # result /\ result'[i] # result[i] /\ result'[i] \notin {"success", "interrupted"}
    BY <1>1, ClientLibraryAssumption DEF Results
  <2>2. PICK t \in Threads :
          Write(t) \/ WriteFails(t) \/ PollTimesOut(t) \/ PollFails(t) \/ ReadNothing(t)
    BY <1>1, <2>1
       DEF Next, vars, history, Open, Close, Tick, Serve, Announce, Hangup, RequestData,
           RegisterNotification, UnregisterNotification, Call, Put, PollReady,
           HandleResponse, Reading, Take, ReadLateAnswer, ReadAnswer, ReadUnknownChanged,
           ReadChanged, CallbackReturns
  <2>3. result \in [Ids -> Results \cup {Null}] /\ stack[t] # <<>> /\ Top(t) \in Frame
    BY <1>1, <2>2, TopFrame
       DEF IInv, TypeOK, Write, WriteFails, PollTimesOut, PollFails, ReadNothing, At
  <2>4. CASE Write(t)
    <3>1. result' = result \/ result' = [result EXCEPT ![Top(t).id] = "success"]
      BY <2>4 DEF Write
    <3>2. result'[i] = "success"
      BY <2>1, <2>3, <3>1, EntryChanged
    <3> QED
      BY <2>1, <3>2
  <2>5. CASE WriteFails(t)
    BY <2>5 DEF WriteFails
  <2>6. CASE PollTimesOut(t)
    <3>1. /\ At(t, "poll") /\ responses = <<>> /\ now - Top(t).since >= PollTimeout
          /\ result' = [result EXCEPT ![Top(t).id] = "failure"]
      BY <2>6 DEF PollTimesOut
    <3>2. Top(t).id = i
      BY <2>1, <2>3, <3>1, EntryChanged
    <3>3. made[i] # Null /\ made[i].tv <= Top(t).since
      BY <1>1, <3>1, <3>2 DEF WaitsOK, WaitOK
    <3>4. made[i].tv \in Nat /\ Top(t).since \in Nat /\ now \in Nat /\ PollTimeout \in Nat
      <4>1. made[i] \in NotifyValue
        BY <1>1, <3>3 DEF IInv, TypeOK
      <4> QED
        BY <1>1, <2>3, <4>1, ClientLibraryAssumption DEF IInv, TypeOK, NotifyValue, Frame
    <3>5. now - made[i].tv >= PollTimeout
      BY <3>1, <3>3, <3>4
    <3> QED
      BY <3>1, <3>5
  <2>7. CASE ReadNothing(t)
    <3>1. /\ At(t, "read") /\ responses = <<>>
          /\ result' = IF Top(t).id = Null THEN result
                       ELSE [result EXCEPT ![Top(t).id] =
                               IF Top(t).handled THEN "success" ELSE "failure"]
      BY <2>7 DEF ReadNothing
    <3>2. Top(t).id # Null
      BY <2>1, <3>1
    <3>3. PICK v : /\ v = IF Top(t).handled THEN "success" ELSE "failure"
                   /\ result' = [result EXCEPT ![Top(t).id] = v]
      BY <3>1, <3>2
    <3>4. Top(t).id = i /\ result'[i] = v
      BY <2>1, <2>3, <3>3, EntryChanged
    <3> QED
      BY <1>1, <2>1, <3>1, <3>2, <3>3, <3>4 DEF WaitsOK, WaitOK
  <2>8. CASE PollFails(t)
    <3>1. result' = [result EXCEPT ![Top(t).id] = "interrupted"]
      BY <2>8 DEF PollFails
    <3>2. result'[i] = "interrupted"
      BY <2>1, <2>3, <3>1, EntryChanged
    <3> QED
      BY <2>1, <3>2
  <2> QED
    BY <2>2, <2>4, <2>5, <2>6, <2>7, <2>8
<1>2. IInv /\ WaitsOK /\ [Next]_vars =>
        \A i \in Ids : result'[i] = "failure" /\ result[i] = Null
          => hungup \/ (responses = <<>> /\ now - made[i].tv >= PollTimeout)
  BY <1>1
<1> QED
  BY <1>2, Invariance, Waiting, PTL DEF Spec, FailsForAReason

-----------------------------------------------------------------------------
(* Registrations, and the changes announced to them.                        *)

(* The n-th registration on key k, and the n-th message on its way to the   *)
(* client: the announcement of a change to registration i, or the answer to *)
(* the request that ended registration i.                                   *)
RegisteredAt(i, k, n) == n \in 1 .. Len(registered[k]) /\ registered[k][n] = i

ChangedAt(i, n) ==
  n \in 1 .. Len(responses) /\ responses[n].msg = "CHANGED" /\ responses[n].id = i

EndsAt(i, n) ==
  n \in 1 .. Len(responses) /\ responses[n].msg = "STATUS" /\ responses[n].ended = i

(* Request i is a registration the daemon has accepted.                     *)
Accepted(i) == made[i] # Null /\ made[i].call.type = "NOTIFY" /\ said[i] = "ok"

(* Registration i is over, and the messages after the n-th do not name it.  *)
Over(i, n) ==
  /\ said[i] # Null
  /\ \A k \in Keys, m \in Nat : ~RegisteredAt(i, k, m)
  /\ \A m \in Nat : ChangedAt(i, m) => m <= n

RegisteredOK ==
  \A i \in Ids, k \in Keys, n \in Nat : RegisteredAt(i, k, n) =>
    /\ Accepted(i)
    /\ \A l \in Keys, m \in Nat : RegisteredAt(i, l, m) => l = k /\ m = n

ChangesOK == \A i \in Ids, n \in Nat : ChangedAt(i, n) => Accepted(i)

EndsOK ==
  \A i \in Ids : /\ i \in ended => Over(i, 0)
                 /\ \A n \in Nat : EndsAt(i, n) => Over(i, n)

EventsOK == RegisteredOK /\ ChangesOK /\ EndsOK

(* Nothing new is accepted, registered or announced.                        *)
LEMMA EventsKept ==
  ASSUME EventsOK, said' = said, ended' = ended,
         \A i \in Ids : made[i] # Null => made'[i] = made[i],
         \A k \in Keys : registered'[k] = registered[k] \/ registered'[k] = <<>>,
         responses' = responses \/ responses' = <<>>
  PROVE  EventsOK'
<1>1. \A i \in Ids : Accepted(i) => Accepted(i)'
  BY DEF Accepted
<1>2. \A i, k, n : k \in Keys /\ RegisteredAt(i, k, n)' => RegisteredAt(i, k, n)
  BY DEF RegisteredAt
<1>3. \A i, n : /\ ChangedAt(i, n)' => ChangedAt(i, n)
                /\ EndsAt(i, n)' => EndsAt(i, n)
  BY DEF ChangedAt, EndsAt
<1>4. \A i, n : Over(i, n) => Over(i, n)'
  BY <1>2, <1>3 DEF Over
<1>5. RegisteredOK'
  BY <1>1, <1>2 DEF EventsOK, RegisteredOK
<1>6. ChangesOK'
  BY <1>1, <1>3 DEF EventsOK, ChangesOK
<1>7. EndsOK'
  BY <1>3, <1>4 DEF EventsOK, EndsOK
<1> QED
  BY <1>5, <1>6, <1>7 DEF EventsOK

(* A message arrives at the end of those on their way.                      *)
LEMMA Arrives ==
  ASSUME TypeOK, NEW a \in Message, responses' = Append(responses, a)
  PROVE  /\ Len(responses) \in Nat
         /\ \A i, n : ChangedAt(i, n)' <=>
              \/ ChangedAt(i, n)
              \/ n = Len(responses) + 1 /\ a.msg = "CHANGED" /\ a.id = i
         /\ \A i, n : EndsAt(i, n)' <=>
              \/ EndsAt(i, n)
              \/ n = Len(responses) + 1 /\ a.msg = "STATUS" /\ a.ended = i
<1>1. /\ responses \in Seq(Message)
      /\ Len(responses) \in Nat /\ Len(responses') = Len(responses) + 1
      /\ \A n \in 1 .. Len(responses) : responses'[n] = responses[n]
      /\ responses'[Len(responses) + 1] = a
  <2>1. responses \in Seq(Message)
    BY Traffic
  <2> QED
    BY <2>1, Appended
<1>2. \A n : n \in 1 .. Len(responses') <=> n \in 1 .. Len(responses) \/ n = Len(responses) + 1
  BY <1>1
<1>3. Len(responses) + 1 \notin 1 .. Len(responses)
  BY <1>1
<1>4. \A i, n : ChangedAt(i, n)' <=>
              \/ ChangedAt(i, n)
              \/ n = Len(responses) + 1 /\ a.msg = "CHANGED" /\ a.id = i
  BY <1>1, <1>2, <1>3 DEF ChangedAt
<1>5. \A i, n : EndsAt(i, n)' <=>
              \/ EndsAt(i, n)
              \/ n = Len(responses) + 1 /\ a.msg = "STATUS" /\ a.ended = i
  BY <1>1, <1>2, <1>3 DEF EndsAt
<1> QED
  BY <1>1, <1>4, <1>5

(* The first message is read.                                               *)
LEMMA Leaves ==
  ASSUME TypeOK, responses # <<>>, responses' = Tail(responses)
  PROVE  /\ \A i, n : n \in Nat /\ ChangedAt(i, n)' => ChangedAt(i, n + 1)
         /\ \A i, n : n \in Nat /\ EndsAt(i, n)' => EndsAt(i, n + 1)
         /\ Answer.msg = "STATUS" => EndsAt(Answer.ended, 1)
         /\ Answer.msg = "CHANGED" => ChangedAt(Answer.id, 1)
         /\ Answer \in Message
<1>1. /\ Answer \in Message /\ Answer = responses[1]
      /\ Len(responses) \in Nat \ {0} /\ Len(responses') = Len(responses) - 1
      /\ \A n \in 1 .. Len(responses') : responses'[n] = responses[n + 1]
  <2>1. responses \in Seq(Message)
    BY Traffic
  <2> QED
    BY <2>1, Beheaded DEF Answer
<1>2. \A n : n \in 1 .. Len(responses') => n \in Nat /\ n + 1 \in 1 .. Len(responses)
  BY <1>1
<1>3. \A i, n : n \in Nat /\ ChangedAt(i, n)' => ChangedAt(i, n + 1)
  BY <1>1, <1>2 DEF ChangedAt
<1>4. \A i, n : n \in Nat /\ EndsAt(i, n)' => EndsAt(i, n + 1)
  BY <1>1, <1>2 DEF EndsAt
<1>5. 1 \in 1 .. Len(responses)
  BY <1>1
<1> QED
  BY <1>1, <1>3, <1>4, <1>5 DEF ChangedAt, EndsAt

(* A change is announced, to a registration.                                *)
LEMMA EventsAnnounced ==
  ASSUME IInv, EventsOK, Announce
  PROVE  EventsOK'
<1>1. UNCHANGED <<registered, made, said, ended>>
  BY DEF Announce, history
<1>2. PICK k \in Keys, n \in Nat, i \in Ids :
        /\ RegisteredAt(i, k, n)
        /\ responses' = Append(responses, [msg |-> "CHANGED", id |-> i,
                                           status |-> "ok", ended |-> Null])
  <2>1. \A k \in Keys : \A n \in 1 .. Len(registered[k]) :
          n \in Nat /\ registered[k][n] \in Ids
    BY ElementOfSeq DEF IInv, TypeOK
  <2> QED
    BY <2>1 DEF Announce, RegisteredAt
<1> DEFINE a == [msg |-> "CHANGED", id |-> i, status |-> "ok", ended |-> Null]
<1>3. a \in Message /\ a.msg = "CHANGED" /\ a.id = i
  BY DEF Message, Statuses
<1>4. responses' = Append(responses, a)
  BY <1>2
<1> HIDE DEF a
<1>5. /\ \A j, m : ChangedAt(j, m)' => ChangedAt(j, m) \/ j = i
      /\ \A j, m : EndsAt(j, m)' => EndsAt(j, m)
  BY <1>3, <1>4, Arrives DEF IInv
<1>6. \A j, l, m : RegisteredAt(j, l, m)' <=> RegisteredAt(j, l, m)
  BY <1>1 DEF RegisteredAt
<1>7. \A j : Accepted(j)' <=> Accepted(j)
  BY <1>1 DEF Accepted
<1>8. \A j, m : Over(j, m) => Over(j, m)'
  BY <1>1, <1>2, <1>5, <1>6 DEF Over
<1>9. RegisteredOK'
  BY <1>6, <1>7 DEF EventsOK, RegisteredOK
<1>10. ChangesOK'
  BY <1>2, <1>5, <1>7 DEF EventsOK, ChangesOK, RegisteredOK
<1>11. EndsOK'
  BY <1>1, <1>5, <1>8 DEF EventsOK, EndsOK
<1> QED
  BY <1>9, <1>10, <1>11 DEF EventsOK

(* A message is read; the reply to UNNOTIFY ends its registration.          *)
LEMMA EventsRead ==
  ASSUME IInv, EventsOK, responses # <<>>, responses' = Tail(responses),
         UNCHANGED <<registered, made, said>>,
         ended' \subseteq IF Answer.msg = "STATUS" THEN ended \cup {Answer.ended} ELSE ended
  PROVE  EventsOK'
<1>1. /\ \A i, n : n \in Nat /\ ChangedAt(i, n)' => ChangedAt(i, n + 1)
      /\ \A i, n : n \in Nat /\ EndsAt(i, n)' => EndsAt(i, n + 1)
      /\ Answer.msg = "STATUS" => EndsAt(Answer.ended, 1)
  BY Leaves DEF IInv
<1>2. \A j, l, m : RegisteredAt(j, l, m)' <=> RegisteredAt(j, l, m)
  BY DEF RegisteredAt
<1>3. \A j : Accepted(j)' <=> Accepted(j)
  BY DEF Accepted
<1>4. \A j : \A m \in Nat : Over(j, m + 1) => Over(j, m)'
  <2> SUFFICES ASSUME NEW j, NEW m \in Nat, Over(j, m + 1)
               PROVE  \A n \in Nat : ChangedAt(j, n)' => n <= m
    BY <1>2 DEF Over
  <2>1. ASSUME NEW n \in Nat, ChangedAt(j, n)'
        PROVE  n <= m
    <3>1. ChangedAt(j, n + 1) /\ n + 1 \in Nat
      BY <1>1, <2>1
    <3>2. n + 1 <= m + 1
      BY <3>1 DEF Over
    <3> QED
      BY <3>2
  <2> QED
    BY <2>1
<1>5. \A j : Over(j, 0) => Over(j, 0)'
  <2> SUFFICES ASSUME NEW j, Over(j, 0)
               PROVE  \A n \in Nat : ~ChangedAt(j, n)'
    BY <1>2 DEF Over
  <2>1. ASSUME NEW n \in Nat, ChangedAt(j, n)'
        PROVE  FALSE
    <3>1. ChangedAt(j, n + 1) /\ n + 1 \in Nat
      BY <1>1, <2>1
    <3>2. n + 1 <= 0
      BY <3>1 DEF Over
    <3> QED
      BY <3>2
  <2> QED
    BY <2>1
<1>6. RegisteredOK'
  BY <1>2, <1>3 DEF EventsOK, RegisteredOK
<1>7. ChangesOK'
  <2>1. \A n \in Nat : n + 1 \in Nat
    OBVIOUS
  <2> QED
    BY <1>1, <1>3, <2>1 DEF EventsOK, ChangesOK
<1>8. EndsOK'
  <2> SUFFICES ASSUME NEW i \in Ids
               PROVE  /\ i \in ended' => Over(i, 0)'
                      /\ \A n \in Nat : EndsAt(i, n)' => Over(i, n)'
    BY DEF EndsOK
  <2>1. ASSUME i \in ended'
        PROVE  Over(i, 0)'
    <3>1. CASE i \in ended
      BY <1>5, <3>1 DEF EventsOK, EndsOK
    <3>2. CASE i \notin ended
      <4>1. EndsAt(i, 1)
        BY <1>1, <2>1, <3>2
      <4>2. Over(i, 1)
        BY <4>1 DEF EventsOK, EndsOK
      <4>3. Over(i, 0 + 1)
        BY <4>2
      <4> QED
        BY <1>4, <4>3
    <3> QED
      BY <3>1, <3>2
  <2>2. ASSUME NEW n \in Nat, EndsAt(i, n)'
        PROVE  Over(i, n)'
    <3>1. EndsAt(i, n + 1) /\ n + 1 \in Nat
      BY <1>1, <2>2
    <3>2. Over(i, n + 1)
      BY <3>1 DEF EventsOK, EndsOK
    <3> QED
      BY <1>4, <3>2
  <2> QED
    BY <2>1, <2>2
<1> QED
  BY <1>6, <1>7, <1>8 DEF EventsOK

(* The daemon serves a request: it decides, adds a registration, or ends    *)
(* the first one on the key.                                                *)
LEMMA ServedHow ==
  ASSUME IInv, Serve
  PROVE  \E r \in Request, status \in Statuses, n \in Ids \cup {Null} :
           /\ Asked(r.id, r.call)
           /\ said' = [said EXCEPT ![r.id] = status]
           /\ responses' = Append(responses, [msg |-> "STATUS", id |-> r.id,
                                              status |-> status, ended |-> n])
           /\ \/ n = Null /\ registered' = registered
              \/ /\ n = Null /\ r.call.type = "NOTIFY" /\ status = "ok"
                 /\ registered' = [registered EXCEPT ![r.call.key] = Append(@, r.id)]
              \/ /\ registered[r.call.key] # <<>> /\ n = Head(registered[r.call.key])
                 /\ registered' = [registered EXCEPT ![r.call.key] = Tail(@)]
<1> DEFINE r == Head(requests)
           key == Head(requests).call.key
<1>1. requests # <<>> /\ requests \in Seq(Request)
  BY Traffic DEF Serve, IInv
<1>2. r \in Request /\ r = requests[1] /\ 1 \in 1 .. Len(requests)
  BY <1>1, Beheaded
<1>3. Asked(r.id, r.call)
  BY <1>2 DEF IInv, RequestsOK
<1>4. "ok" \in Statuses /\ "refused" \in Statuses
  BY DEF Statuses
<1>5. \A status, n : Decide(r, status, n) =>
        /\ said' = [said EXCEPT ![r.id] = status]
        /\ responses' = Append(responses, [msg |-> "STATUS", id |-> r.id,
                                           status |-> status, ended |-> n])
  BY DEF Decide, Status
<1>6. CASE (\E status \in Statuses : Decide(r, status, Null)) /\ UNCHANGED registered
  BY <1>2, <1>3, <1>5, <1>6
<1>7. CASE r.call.type = "NOTIFY" /\ ServeNotify(r)
  <2>1. CASE Decide(r, "refused", Null) /\ UNCHANGED registered
    BY <1>4, <1>6, <2>1
  <2>2. CASE /\ Decide(r, "ok", Null)
             /\ registered' = [registered EXCEPT ![key] = Append(@, r.id)]
    BY <1>2, <1>3, <1>4, <1>5, <1>7, <2>2
  <2> QED
    BY <1>7, <2>1, <2>2 DEF ServeNotify
<1>8. CASE r.call.type = "UNNOTIFY" /\ ServeUnnotify(r)
  <2>1. CASE registered[key] = <<>>
    BY <1>4, <1>6, <1>8, <2>1 DEF ServeUnnotify
  <2>2. CASE registered[key] # <<>>
    <3>1. /\ Decide(r, "ok", Head(registered[key]))
          /\ registered' = [registered EXCEPT ![key] = Tail(@)]
      BY <1>8, <2>2 DEF ServeUnnotify
    <3>2. Head(registered[key]) \in Ids
      <4>1. key \in Keys
        BY <1>2 DEF Request, Calls
      <4>2. registered[key] \in Seq(Ids)
        BY <4>1 DEF IInv, TypeOK
      <4> QED
        BY <2>2, <4>2, Beheaded
    <3>3. PICK n \in Ids : n = Head(registered[key])
      BY <3>2
    <3>4. /\ said' = [said EXCEPT ![r.id] = "ok"]
          /\ responses' = Append(responses, [msg |-> "STATUS", id |-> r.id,
                                             status |-> "ok", ended |-> n])
      BY <1>5, <3>1, <3>3
    <3>5. /\ registered[r.call.key] # <<>> /\ n = Head(registered[r.call.key])
          /\ registered' = [registered EXCEPT ![r.call.key] = Tail(@)]
      BY <2>2, <3>1, <3>3
    <3> QED
      BY <1>2, <1>3, <1>4, <3>4, <3>5
  <2> QED
    BY <2>1, <2>2
<1> QED
  BY <1>6, <1>7, <1>8 DEF Serve

LEMMA EventsServed ==
  ASSUME IInv, EventsOK, Serve
  PROVE  EventsOK'
<1>1. PICK r \in Request, status \in Statuses, n \in Ids \cup {Null} :
           /\ Asked(r.id, r.call)
           /\ said' = [said EXCEPT ![r.id] = status]
           /\ responses' = Append(responses, [msg |-> "STATUS", id |-> r.id,
                                              status |-> status, ended |-> n])
           /\ \/ n = Null /\ registered' = registered
              \/ /\ n = Null /\ r.call.type = "NOTIFY" /\ status = "ok"
                 /\ registered' = [registered EXCEPT ![r.call.key] = Append(@, r.id)]
              \/ /\ registered[r.call.key] # <<>> /\ n = Head(registered[r.call.key])
                 /\ registered' = [registered EXCEPT ![r.call.key] = Tail(@)]
  BY ServedHow
<1>2. made' = made /\ ended' = ended
  BY DEF Serve
<1>3. PICK id \in Ids, key \in Keys : id = r.id /\ key = r.call.key
  BY DEF Request, Calls
<1> DEFINE a == [msg |-> "STATUS", id |-> r.id, status |-> status, ended |-> n]
<1>4. a \in Message /\ a.msg = "STATUS" /\ a.ended = n
  BY <1>3 DEF Message
<1>5. responses' = Append(responses, a)
  BY <1>1
<1> HIDE DEF a
<1>6. PICK last \in Nat :
        /\ last = Len(responses) + 1 /\ Len(responses) \in Nat
        /\ \A i, m : ChangedAt(i, m)' <=> ChangedAt(i, m)
        /\ \A i, m : EndsAt(i, m)' => EndsAt(i, m) \/ (m = last /\ i = n)
  <2>1. Len(responses) \in Nat /\ Len(responses) + 1 \in Nat
    BY Traffic DEF IInv
  <2> QED
    BY <1>4, <1>5, <2>1, Arrives DEF IInv
<1>7. /\ said[id] = Null /\ said'[id] = status /\ status # Null
      /\ \A j \in Ids : j # id => said'[j] = said[j]
      /\ made[id] # Null /\ made[id].call = r.call
  BY <1>1, <1>3, ClientLibraryAssumption DEF Asked, IInv, TypeOK
<1>8. \A j \in Ids : Accepted(j) => Accepted(j)' /\ j # id
  BY <1>2, <1>7, ClientLibraryAssumption DEF Accepted, Statuses
<1>9. registered \in [Keys -> Seq(Ids)] /\ registered[key] \in Seq(Ids)
  BY DEF IInv, TypeOK
<1>10. ChangesOK'
  BY <1>6, <1>8 DEF EventsOK, ChangesOK
<1>11. ASSUME \A j \in Ids, l \in Keys, m \in Nat : RegisteredAt(j, l, m)' =>
                (\E p \in Nat : RegisteredAt(j, l, p)) \/ j = id
       PROVE  \A j \in Ids, m \in Nat : Over(j, m) => Over(j, m)'
  BY <1>6, <1>7, <1>11 DEF Over
<1>12. CASE n = Null /\ registered' = registered
  <2>1. \A j, l, m : RegisteredAt(j, l, m)' <=> RegisteredAt(j, l, m)
    BY <1>12 DEF RegisteredAt
  <2>2. RegisteredOK'
    BY <1>8, <2>1 DEF EventsOK, RegisteredOK
  <2>3. \A i \in Ids : \A m : EndsAt(i, m)' => EndsAt(i, m)
    BY <1>6, <1>12, ClientLibraryAssumption
  <2>4. \A j \in Ids, m \in Nat : Over(j, m) => Over(j, m)'
    BY <1>11, <2>1
  <2>5. EndsOK'
    BY <1>2, <2>3, <2>4 DEF EventsOK, EndsOK
  <2> QED
    BY <1>10, <2>2, <2>5 DEF EventsOK
<1>13. CASE /\ n = Null /\ r.call.type = "NOTIFY" /\ status = "ok"
            /\ registered' = [registered EXCEPT ![key] = Append(@, id)]
  <2>1. /\ registered'[key] = Append(registered[key], id)
        /\ \A l \in Keys : l # key => registered'[l] = registered[l]
    BY <1>9, <1>13
  <2>2. /\ Len(registered[key]) \in Nat
        /\ Len(registered'[key]) = Len(registered[key]) + 1
        /\ \A m \in 1 .. Len(registered[key]) : registered'[key][m] = registered[key][m]
        /\ registered'[key][Len(registered[key]) + 1] = id
    BY <1>9, <2>1, Appended
  <2>3. \A j, m : RegisteredAt(j, key, m)' <=>
                    RegisteredAt(j, key, m) \/ (m = Len(registered[key]) + 1 /\ j = id)
    <3>1. \A m : m \in 1 .. Len(registered'[key]) <=>
                   m \in 1 .. Len(registered[key]) \/ m = Len(registered[key]) + 1
      BY <2>2
    <3>2. Len(registered[key]) + 1 \notin 1 .. Len(registered[key])
      BY <2>2
    <3> QED
      BY <2>2, <3>1, <3>2 DEF RegisteredAt
  <2>4. \A l \in Keys : l # key => \A j, m : RegisteredAt(j, l, m)' <=> RegisteredAt(j, l, m)
    BY <2>1 DEF RegisteredAt
  <2>5. Accepted(id)'
    BY <1>2, <1>7, <1>13 DEF Accepted
  <2>6. \A l \in Keys, m \in Nat : ~RegisteredAt(id, l, m)
    BY <1>8 DEF EventsOK, RegisteredOK
  <2>7. RegisteredOK'
    <3> SUFFICES ASSUME NEW j \in Ids, NEW l \in Keys, NEW m \in Nat, RegisteredAt(j, l, m)'
                 PROVE  /\ Accepted(j)'
                        /\ \A k \in Keys, p \in Nat : RegisteredAt(j, k, p)' => k = l /\ p = m
      BY DEF RegisteredOK
    <3>1. CASE j = id
      BY <2>3, <2>4, <2>5, <2>6, <3>1
    <3>2. CASE j # id
      BY <1>8, <2>3, <2>4, <3>2 DEF EventsOK, RegisteredOK
    <3> QED
      BY <3>1, <3>2
  <2>8. \A i \in Ids : \A m : EndsAt(i, m)' => EndsAt(i, m)
    BY <1>6, <1>13, ClientLibraryAssumption
  <2>9. \A j \in Ids, m \in Nat : Over(j, m) => Over(j, m)'
    BY <1>11, <2>3, <2>4
  <2>10. EndsOK'
    BY <1>2, <2>8, <2>9 DEF EventsOK, EndsOK
  <2> QED
    BY <1>10, <2>7, <2>10 DEF EventsOK
<1>14. CASE /\ registered[key] # <<>> /\ n = Head(registered[key])
            /\ registered' = [registered EXCEPT ![key] = Tail(@)]
  <2>1. /\ registered'[key] = Tail(registered[key])
        /\ \A l \in Keys : l # key => registered'[l] = registered[l]
    BY <1>9, <1>14
  <2>2. /\ n \in Ids /\ n = registered[key][1]
        /\ Len(registered[key]) \in Nat \ {0}
        /\ Len(registered'[key]) = Len(registered[key]) - 1
        /\ \A m \in 1 .. Len(registered'[key]) : registered'[key][m] = registered[key][m + 1]
    BY <1>9, <1>14, <2>1, Beheaded
  <2>3. RegisteredAt(n, key, 1)
    BY <2>2 DEF RegisteredAt
  <2>4. \A j, m : m \in Nat /\ RegisteredAt(j, key, m)' =>
                    m # 0 /\ m + 1 \in Nat /\ RegisteredAt(j, key, m + 1)
    <3>1. \A m : m \in 1 .. Len(registered'[key]) =>
                   m # 0 /\ m + 1 \in Nat /\ m + 1 \in 1 .. Len(registered[key])
      BY <2>2
    <3> QED
      BY <2>2, <3>1 DEF RegisteredAt
  <2>5. \A l \in Keys : l # key => \A j, m : RegisteredAt(j, l, m)' <=> RegisteredAt(j, l, m)
    BY <2>1 DEF RegisteredAt
  <2>6. \A l \in Keys, m \in Nat : ~RegisteredAt(n, l, m)'
    <3> SUFFICES ASSUME NEW l \in Keys, NEW m \in Nat, RegisteredAt(n, l, m)'
                 PROVE  FALSE
      OBVIOUS
    <3>1. CASE l = key
      <4>1. m # 0 /\ m + 1 \in Nat /\ RegisteredAt(n, key, m + 1)
        BY <2>4, <3>1
      <4>2. m + 1 = 1
        BY <2>2, <2>3, <4>1 DEF EventsOK, RegisteredOK
      <4> QED
        BY <4>1, <4>2
    <3>2. CASE l # key
      BY <2>2, <2>3, <2>5, <3>2 DEF EventsOK, RegisteredOK
    <3> QED
      BY <3>1, <3>2
  <2>7. RegisteredOK'
    <3> SUFFICES ASSUME NEW j \in Ids, NEW l \in Keys, NEW m \in Nat, RegisteredAt(j, l, m)'
                 PROVE  /\ Accepted(j)'
                        /\ \A k \in Keys, p \in Nat : RegisteredAt(j, k, p)' => k = l /\ p = m
      BY DEF RegisteredOK
    <3>1. PICK p \in Nat : RegisteredAt(j, l, p) /\ (IF l = key THEN p = m + 1 ELSE p = m)
      BY <2>4, <2>5
    <3>2. Accepted(j)'
      BY <1>8, <3>1 DEF EventsOK, RegisteredOK
    <3>3. ASSUME NEW k \in Keys, NEW q \in Nat, RegisteredAt(j, k, q)'
          PROVE  k = l /\ q = m
      <4>1. PICK s \in Nat : RegisteredAt(j, k, s) /\ (IF k = key THEN s = q + 1 ELSE s = q)
        BY <2>4, <2>5, <3>3
      <4>2. k = l /\ s = p
        BY <3>1, <4>1 DEF EventsOK, RegisteredOK
      <4> QED
        BY <3>1, <4>1, <4>2
    <3> QED
      BY <3>2, <3>3
  <2>8. \A j \in Ids, m \in Nat : Over(j, m) => Over(j, m)'
    <3>1. \A j \in Ids, l \in Keys, m \in Nat : RegisteredAt(j, l, m)' =>
            (\E p \in Nat : RegisteredAt(j, l, p)) \/ j = id
      BY <2>4, <2>5
    <3> QED
      BY <1>11, <3>1
  <2>9. Over(n, last)'
    <3>1. said'[n] # Null
      BY <1>7, <1>8, <2>2, <2>3, ClientLibraryAssumption
         DEF EventsOK, RegisteredOK, Accepted, Statuses
    <3>2. \A m \in Nat : ChangedAt(n, m)' => m <= last
      <4>1. \A m \in Nat : ChangedAt(n, m) => m <= last
        BY <1>6 DEF ChangedAt
      <4> QED
        BY <1>6, <4>1
    <3> QED
      BY <2>6, <3>1, <3>2 DEF Over
  <2>10. EndsOK'
    BY <1>2, <1>6, <2>8, <2>9 DEF EventsOK, EndsOK
  <2> QED
    BY <1>10, <2>7, <2>10 DEF EventsOK
<1> QED
  BY <1>1, <1>3, <1>12, <1>13, <1>14

LEMMA EventsNext ==
  ASSUME IInv, EventsOK, [Next]_vars
  PROVE  EventsOK'
<1> USE DEF connection, history
<1>1. CASE Open \/ Tick \/ Hangup \/ UNCHANGED vars
  BY <1>1, EventsKept DEF Open, Tick, Hangup, vars
<1>2. CASE Close
  BY <1>2, EventsKept DEF Close
<1>3. CASE Serve \/ Announce
  BY <1>3, EventsServed, EventsAnnounced
<1>4. ASSUME NEW t \in Threads, NEW key \in Keys, NEW sync \in BOOLEAN,
             \/ RequestData(t, key, sync)
             \/ RegisterNotification(t, key, sync)
             \/ UnregisterNotification(t, key, sync)
      PROVE  EventsOK'
  BY <1>4, EventsKept
     DEF RequestData, RegisterNotification, UnregisterNotification, Call
<1>5. ASSUME NEW t \in Threads, Put(t)
      PROVE  EventsOK'
  <2>1. made[Top(t).id] = Null
    BY <1>5 DEF Put, At, Sending, IInv, SendsOK, FrameOK
  <2>2. \A i \in Ids : made[i] # Null => made'[i] = made[i]
    BY <1>5, <2>1 DEF Put, IInv, TypeOK
  <2> QED
    BY <1>5, <2>2, EventsKept DEF Put
<1>6. ASSUME NEW t \in Threads,
             \/ Write(t) \/ WriteFails(t) \/ PollReady(t) \/ PollTimesOut(t) \/ PollFails(t)
             \/ HandleResponse(t) \/ ReadNothing(t) \/ CallbackReturns(t)
      PROVE  EventsOK'
  BY <1>6, EventsKept
     DEF Write, WriteFails, PollReady, PollTimesOut, PollFails, HandleResponse, ReadNothing,
         CallbackReturns
<1>7. ASSUME NEW t \in Threads,
             ReadLateAnswer(t) \/ ReadAnswer(t) \/ ReadUnknownChanged(t) \/ ReadChanged(t)
      PROVE  EventsOK'
  <2>1. Take(t)
    BY <1>7 DEF ReadLateAnswer, ReadAnswer, ReadUnknownChanged, ReadChanged
  <2>2. ended' \subseteq IF Answer.msg = "STATUS" THEN ended \cup {Answer.ended} ELSE ended
    BY <1>7 DEF ReadLateAnswer, ReadAnswer, ReadUnknownChanged, ReadChanged
  <2> QED
    BY <2>1, <2>2, EventsRead DEF Take
<1> QED
  BY <1>1, <1>2, <1>3, <1>4, <1>5, <1>6, <1>7 DEF Next, Reading

THEOREM Events ==
  Spec => []EventsOK
<1>1. Init => EventsOK
  <2> SUFFICES ASSUME Init
               PROVE  EventsOK
    OBVIOUS
  <2>1. /\ \A i, n : \A k \in Keys : ~RegisteredAt(i, k, n)
        /\ \A i, n : ~ChangedAt(i, n) /\ ~EndsAt(i, n)
    BY DEF Init, RegisteredAt, ChangedAt, EndsAt
  <2> QED
    BY <2>1 DEF Init, EventsOK, RegisteredOK, ChangesOK, EndsOK
<1>2. IInv /\ EventsOK /\ [Next]_vars => EventsOK'
  BY EventsNext
<1> QED
  BY <1>1, <1>2, Invariance, PTL DEF Spec

(* After the reply to UNNOTIFY, the callback of the registration it ended   *)
(* does not start again (daemon.c:978-1070, protocol.c:251-299).            *)
THEOREM Silenced ==
  Spec => SilentAfterUnnotify
<1>1. ASSUME IInv, EventsOK, NEW t \in Threads, ReadChanged(t)
      PROVE  Answer.id \notin ended
  <2>1. responses # <<>> /\ responses' = Tail(responses) /\ Answer.msg = "CHANGED"
    BY <1>1 DEF ReadChanged, Take
  <2>2. ChangedAt(Answer.id, 1) /\ Answer.id \in Ids
    BY <1>1, <2>1, Leaves DEF IInv, Message
  <2>3. ~Over(Answer.id, 0)
    BY <2>2 DEF Over
  <2> QED
    BY <1>1, <2>2, <2>3 DEF EventsOK, EndsOK
<1>2. IInv /\ EventsOK => \A t \in Threads : ReadChanged(t) => Answer.id \notin ended
  BY <1>1
<1> QED
  BY <1>2, Invariance, Events, PTL DEF SilentAfterUnnotify

-----------------------------------------------------------------------------
(* A registration the daemon holds, or tells of a change, is known here     *)
(* once the reply to it was taken, unless the read past the parameters of   *)
(* another reply has met its id.                                            *)
Known(i) == done[i] = Null \/ i \in strayed \/ notify_callbacks[i] # Null

KnownOK ==
  \A i \in Ids : /\ \A k \in Keys, n \in Nat : RegisteredAt(i, k, n) => Known(i)
                 /\ \A n \in Nat : ChangedAt(i, n) => Known(i)

(* Known registrations stay known, and nothing new is announced.            *)
LEMMA KnownKept ==
  ASSUME KnownOK,
         \/ done' = done /\ notify_callbacks' = notify_callbacks /\ strayed' = strayed
         \/ \A i \in Ids : Accepted(i) /\ Known(i) => Known(i)',
         EventsOK,
         \A i \in Ids, k \in Keys, n \in Nat : RegisteredAt(i, k, n)' =>
           Known(i)' \/ \E l \in Keys, m \in Nat : RegisteredAt(i, l, m),
         \A i \in Ids, n \in Nat : ChangedAt(i, n)' =>
           (\E m \in Nat : ChangedAt(i, m)) \/ (\E k \in Keys, m \in Nat : RegisteredAt(i, k, m))
  PROVE  KnownOK'
<1>1. \A i \in Ids : Accepted(i) /\ Known(i) => Known(i)'
  BY DEF Known
<1>2. \A i \in Ids, k \in Keys, n \in Nat : RegisteredAt(i, k, n) => Known(i)'
  BY <1>1 DEF KnownOK, EventsOK, RegisteredOK
<1>3. \A i \in Ids, n \in Nat : ChangedAt(i, n) => Known(i)'
  BY <1>1 DEF KnownOK, EventsOK, ChangesOK
<1> QED
  BY <1>2, <1>3 DEF KnownOK

(* The daemon's steps.                                                      *)
LEMMA KnownServed ==
  ASSUME IInv, EventsOK, KnownOK, Serve \/ Announce
  PROVE  KnownOK'
<1>1. done' = done /\ notify_callbacks' = notify_callbacks /\ strayed' = strayed
  BY DEF Serve, Announce, tables, history
<1>2. registered \in [Keys -> Seq(Ids)]
  BY DEF IInv, TypeOK
<1>3. CASE Serve
  <2>1. PICK r \in Request, status \in Statuses, n \in Ids \cup {Null} :
           /\ Asked(r.id, r.call)
           /\ responses' = Append(responses, [msg |-> "STATUS", id |-> r.id,
                                              status |-> status, ended |-> n])
           /\ \/ registered' = registered
              \/ registered' = [registered EXCEPT ![r.call.key] = Append(@, r.id)]
              \/ /\ registered[r.call.key] # <<>>
                 /\ registered' = [registered EXCEPT ![r.call.key] = Tail(@)]
    BY <1>3, ServedHow
  <2> DEFINE a == [msg |-> "STATUS", id |-> r.id, status |-> status, ended |-> n]
  <2>2. a \in Message /\ a.msg = "STATUS"
    BY DEF Message, Request
  <2>3. responses' = Append(responses, a)
    BY <2>1
  <2> HIDE DEF a
  <2>4. \A i, m : ChangedAt(i, m)' => ChangedAt(i, m)
    BY <2>2, <2>3, Arrives DEF IInv
  <2>5. PICK id \in Ids, key \in Keys : id = r.id /\ key = r.call.key
    BY DEF Request, Calls
  <2>6. Known(id)'
    <3>1. done[id] = Null
      BY <2>1, <2>5, ClientLibraryAssumption DEF Asked, IInv, TablesOK
    <3> QED
      BY <1>1, <3>1 DEF Known
  <2>7. \A l \in Keys : l # key => registered'[l] = registered[l]
    BY <1>2, <2>1, <2>5
  <2>8. \A i \in Ids, l \in Keys, m \in Nat : RegisteredAt(i, l, m)' =>
           Known(i)' \/ \E k \in Keys, p \in Nat : RegisteredAt(i, k, p)
    <3> SUFFICES ASSUME NEW i \in Ids, NEW l \in Keys, NEW m \in Nat, RegisteredAt(i, l, m)', i # id
                 PROVE  \E p \in Nat : RegisteredAt(i, l, p)
      BY <2>6
    <3>1. CASE registered'[l] = registered[l]
      BY <3>1 DEF RegisteredAt
    <3>2. CASE l = key /\ registered'[key] = Append(registered[key], id)
      <4>1. /\ Len(registered[key]) \in Nat
            /\ Len(registered'[key]) = Len(registered[key]) + 1
            /\ \A q \in 1 .. Len(registered[key]) : registered'[key][q] = registered[key][q]
            /\ registered'[key][Len(registered[key]) + 1] = id
        BY <1>2, <3>2, Appended
      <4>2. m \in 1 .. Len(registered[key])
        BY <3>2, <4>1 DEF RegisteredAt
      <4> QED
        BY <3>2, <4>1, <4>2 DEF RegisteredAt
    <3>3. CASE l = key /\ registered[key] # <<>> /\ registered'[key] = Tail(registered[key])
      <4>1. /\ Len(registered[key]) \in Nat \ {0}
            /\ Len(registered'[key]) = Len(registered[key]) - 1
            /\ \A q \in 1 .. Len(registered'[key]) : registered'[key][q] = registered[key][q + 1]
        BY <1>2, <3>3, Beheaded
      <4>2. m + 1 \in Nat /\ m + 1 \in 1 .. Len(registered[key])
        BY <3>3, <4>1 DEF RegisteredAt
      <4> QED
        BY <3>3, <4>1, <4>2 DEF RegisteredAt
    <3> QED
      BY <1>2, <2>1, <2>5, <2>7, <3>1, <3>2, <3>3
  <2> QED
    BY <1>1, <2>4, <2>8, KnownKept
<1>4. CASE Announce
  <2>1. registered' = registered
    BY <1>4 DEF Announce
  <2>2. \A i, k, n : RegisteredAt(i, k, n)' <=> RegisteredAt(i, k, n)
    BY <2>1 DEF RegisteredAt
  <2>3. PICK k \in Keys, n \in Nat, i \in Ids :
          /\ RegisteredAt(i, k, n)
          /\ responses' = Append(responses, [msg |-> "CHANGED", id |-> i,
                                             status |-> "ok", ended |-> Null])
    <3>1. \A k \in Keys : \A n \in 1 .. Len(registered[k]) :
            n \in Nat /\ registered[k][n] \in Ids
      BY <1>2, ElementOfSeq
    <3> QED
      BY <1>4, <3>1 DEF Announce, RegisteredAt
  <2> DEFINE a == [msg |-> "CHANGED", id |-> i, status |-> "ok", ended |-> Null]
  <2>4. a \in Message /\ a.id = i
    BY DEF Message, Statuses
  <2>5. responses' = Append(responses, a)
    BY <2>3
  <2> HIDE DEF a
  <2>6. \A j, m : ChangedAt(j, m)' => ChangedAt(j, m) \/ j = i
    BY <2>4, <2>5, Arrives DEF IInv
  <2>7. \A j \in Ids, m \in Nat : ChangedAt(j, m)' =>
          (\E p \in Nat : ChangedAt(j, p)) \/ (\E l \in Keys, p \in Nat : RegisteredAt(j, l, p))
    BY <2>3, <2>6
  <2> QED
    BY <1>1, <2>2, <2>7, KnownKept
<1> QED
  BY <1>3, <1>4

(* A message is read.                                                       *)
LEMMA KnownRead ==
  ASSUME IInv, EventsOK, KnownOK, NEW t \in Threads,
         ReadLateAnswer(t) \/ ReadAnswer(t) \/ ReadUnknownChanged(t) \/ ReadChanged(t)
  PROVE  KnownOK'
<1>1. Take(t)
  BY DEF ReadLateAnswer, ReadAnswer, ReadUnknownChanged, ReadChanged
<1>2. /\ responses # <<>> /\ responses' = Tail(responses)
      /\ registered' = registered
  BY <1>1 DEF Take
<1>3. \A i \in Ids, n \in Nat : ChangedAt(i, n)' => \E m \in Nat : ChangedAt(i, m)
  <2>1. \A n \in Nat : n + 1 \in Nat
    OBVIOUS
  <2> QED
    BY <1>2, <2>1, Leaves DEF IInv
<1>4. \A i, k, n : RegisteredAt(i, k, n)' <=> RegisteredAt(i, k, n)
  BY <1>2 DEF RegisteredAt
<1>5. CASE done' = done /\ notify_callbacks' = notify_callbacks /\ strayed' = strayed
  BY <1>3, <1>4, <1>5, KnownKept
<1>6. CASE ReadAnswer(t)
  <2>1. /\ Answer \in Message /\ Answer.msg = "STATUS" /\ callbacks[Answer.id] # Null
        /\ Answer = responses[1] /\ 1 \in 1 .. Len(responses)
    BY <1>1, <1>6, TakeStep DEF ReadAnswer
  <2>2. PICK i \in Ids : i = Answer.id
    BY <2>1 DEF Message
  <2>3. callbacks[i] = made[i] /\ said[i] = Answer.status
    BY <2>1, <2>2 DEF IInv, TablesOK, AnswersOK, AnswerOK
  <2>4. /\ notify_callbacks \in [Ids -> NotifyValue \cup {Null}]
        /\ done \in [Ids -> Statuses \cup {Null}]
        /\ callbacks[i] \in NotifyValue
    BY <2>1, <2>2 DEF IInv, TypeOK
  <2>5. done' = [done EXCEPT ![i] = Answer.status]
    BY <1>6, <2>2 DEF ReadAnswer
  <2>6. ASSUME Accepted(i)
        PROVE  notify_callbacks' = [notify_callbacks EXCEPT ![i] = callbacks[i]]
    BY <1>6, <2>2, <2>3, <2>6 DEF ReadAnswer, Accepted
  <2>7. /\ strayed \subseteq strayed'
        /\ \A j \in Ids : j # i => notify_callbacks'[j] = notify_callbacks[j] \/ j \in strayed'
    <3>1. CASE /\ notify_callbacks' = [notify_callbacks EXCEPT ![i] = callbacks[i]]
               /\ strayed' = strayed
      BY <2>4, <3>1
    <3>2. CASE \E stray \in StrayReads :
                 /\ notify_callbacks' =
                      [j \in Ids |-> IF j = stray THEN Null ELSE notify_callbacks[j]]
                 /\ strayed' = strayed \cup ({stray} \cap Ids)
      BY <2>4, <3>2
    <3>3. CASE notify_callbacks' = notify_callbacks /\ strayed' = strayed
      BY <3>3
    <3> QED
      BY <1>6, <2>2, <3>1, <3>2, <3>3 DEF ReadAnswer
  <2>8. ASSUME NEW j \in Ids, Accepted(j), Known(j)
        PROVE  Known(j)'
    <3>1. CASE j = i
      <4>1. notify_callbacks'[i] = callbacks[i]
        BY <2>4, <2>6, <2>8, <3>1
      <4> QED
        BY <2>4, <3>1, <4>1, ClientLibraryAssumption DEF Known
    <3>2. CASE j # i
      BY <2>4, <2>5, <2>7, <2>8, <3>2 DEF Known
    <3> QED
      BY <3>1, <3>2
  <2> QED
    BY <1>3, <1>4, <2>8, KnownKept
<1> QED
  BY <1>5, <1>6 DEF ReadLateAnswer, ReadUnknownChanged, ReadChanged, tables

LEMMA KnownNext ==
  ASSUME IInv, EventsOK, KnownOK, [Next]_vars
  PROVE  KnownOK'
<1> USE DEF connection, history, tables
<1>1. CASE /\ registered' = registered /\ responses' = responses
           /\ done' = done /\ notify_callbacks' = notify_callbacks /\ strayed' = strayed
  BY <1>1 DEF KnownOK, Known, RegisteredAt, ChangedAt
<1>2. CASE Close
  BY <1>2 DEF Close, KnownOK, Known, RegisteredAt, ChangedAt
<1>3. CASE Hangup
  BY <1>3 DEF Hangup, KnownOK, Known, RegisteredAt, ChangedAt
<1>4. CASE Open \/ Tick \/ UNCHANGED vars
  BY <1>1, <1>4 DEF Open, Tick, vars
<1>5. CASE Serve \/ Announce
  BY <1>5, KnownServed
<1>6. ASSUME NEW t \in Threads, NEW key \in Keys, NEW sync \in BOOLEAN,
             \/ RequestData(t, key, sync)
             \/ RegisterNotification(t, key, sync)
             \/ UnregisterNotification(t, key, sync)
      PROVE  KnownOK'
  BY <1>1, <1>6 DEF RequestData, RegisterNotification, UnregisterNotification, Call
<1>7. ASSUME NEW t \in Threads,
             \/ Put(t) \/ Write(t) \/ WriteFails(t)
             \/ PollReady(t) \/ PollTimesOut(t) \/ PollFails(t)
             \/ HandleResponse(t) \/ ReadNothing(t) \/ CallbackReturns(t)
      PROVE  KnownOK'
  BY <1>1, <1>7
     DEF Put, Write, WriteFails, PollReady, PollTimesOut, PollFails, HandleResponse,
         ReadNothing, CallbackReturns
<1>8. ASSUME NEW t \in Threads,
             ReadLateAnswer(t) \/ ReadAnswer(t) \/ ReadUnknownChanged(t) \/ ReadChanged(t)
      PROVE  KnownOK'
  BY <1>8, KnownRead
<1> QED
  BY <1>2, <1>3, <1>4, <1>5, <1>6, <1>7, <1>8 DEF Next, Reading

(* A change finds the callback of its registration, unless the reply to the *)
(* registration came too late to be taken, or the read past the parameters  *)
(* of the reply to another's UNNOTIFY met its id, whatever that read may    *)
(* find (protocol.c:251-304).                                               *)
THEOREM ChangesFindCallbacks ==
  Spec => ChangesAreHeard
<1>1. Init => KnownOK
  BY DEF Init, KnownOK, RegisteredAt, ChangedAt
<1>2. IInv /\ EventsOK /\ KnownOK /\ [Next]_vars => KnownOK'
  BY KnownNext
<1>3. ASSUME IInv, KnownOK, NEW t \in Threads, ReadUnknownChanged(t)
      PROVE  done[Answer.id] = Null \/ Answer.id \in strayed
  <2>1. /\ responses # <<>> /\ responses' = Tail(responses)
        /\ Answer.msg = "CHANGED" /\ notify_callbacks[Answer.id] = Null
    BY <1>3 DEF ReadUnknownChanged, Take
  <2>2. ChangedAt(Answer.id, 1) /\ Answer.id \in Ids
    BY <1>3, <2>1, Leaves DEF IInv, Message
  <2> QED
    BY <1>3, <2>1, <2>2 DEF KnownOK, Known
<1>4. IInv /\ KnownOK =>
        \A t \in Threads :
          ReadUnknownChanged(t) => done[Answer.id] = Null \/ Answer.id \in strayed
  BY <1>3
<1> QED
  BY <1>1, <1>2, <1>4, Invariance, Events, PTL DEF Spec, ChangesAreHeard
===============================================================================
