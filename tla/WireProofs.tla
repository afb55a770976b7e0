------------------------------ MODULE WireProofs ------------------------------
(***************************************************************************)
(* The conversions between a call of the library and the database lose     *)
(* nothing, whatever the calls, the strings and their lengths, the         *)
(* databases and the number of messages on the connection: Wire implements *)
(* KeyValueService, and a conversation that ends early ends for a cause.   *)
(*                                                                         *)
(* The first half is about the conversions alone: what SerializeMessage    *)
(* and Serialize write, DeserializeMessage and Deserialize read back       *)
(* (MessageBack, RecordBack), and the request of a call is parsed as the   *)
(* call, except a LIST (RequestBack).  The second half is the induction:   *)
(* each handler, on the request it reads, is the step of the service for   *)
(* the call (RefuseStep .. ListNamesStep), and every other step leaves the *)
(* service alone.                                                          *)
(***************************************************************************)
EXTENDS Wire, FiniteSetTheorems, SequenceTheorems, WellFoundedInduction, TLAPS

-----------------------------------------------------------------------------
(* Offsets of the parameters of a message.                                 *)

(* at holds the offsets of the first n parameters.                          *)
IsOffsets(params, at, n) ==
  at = [m \in 1 .. n |-> IF m = 1 THEN HeaderLength ELSE at[m - 1] + 6 + params[m - 1].length]

LEMMA OffsetsExist ==
  ASSUME NEW params, NEW n \in Nat
  PROVE  \E at : IsOffsets(params, at, n)
<1> DEFINE S == {m \in Nat : ~\E at : IsOffsets(params, at, m)}
<1> SUFFICES ASSUME S # {} PROVE FALSE
  OBVIOUS
<1>1. PICK m \in S : \A k \in S : ~(<<k, m>> \in OpToRel(<, Nat))
  BY NatLessThanWellFounded, WFMin
<1>2. m \in Nat /\ \A k \in Nat : k < m => k \notin S
  BY <1>1 DEF OpToRel
<1>3. CASE m = 0
  <2> DEFINE f == [k \in 1 .. 0 |-> HeaderLength]
  <2>1. IsOffsets(params, f, 0)
    BY DEF IsOffsets
  <2> QED
    BY <1>3, <2>1
<1>4. CASE m # 0
  <2>1. m - 1 \in Nat /\ m - 1 < m /\ m - 1 \notin S
    BY <1>2, <1>4
  <2> PICK f : IsOffsets(params, f, m - 1)
    BY <2>1
  <2> DEFINE next(at, k) ==
               IF k = 1 THEN HeaderLength ELSE at[k - 1] + 6 + params[k - 1].length
             g == [k \in 1 .. m |-> IF k < m THEN f[k] ELSE next(f, m)]
  <2>2. \A k \in 1 .. m - 1 : f[k] = next(f, k)
    BY DEF IsOffsets
  <2>3. \A k \in 1 .. m : k < m => g[k] = f[k] /\ k \in 1 .. m - 1
    BY <1>2
  <2>4. g[m] = next(f, m)
    BY <1>2, <1>4
  <2>5. ASSUME NEW k \in 1 .. m
        PROVE  g[k] = next(g, k)
    <3>1. k = 1 \/ (k - 1 \in 1 .. m /\ k - 1 < m)
      BY <1>2
    <3>2. k # 1 => g[k - 1] = f[k - 1]
      BY <2>3, <3>1
    <3>3. next(g, k) = next(f, k)
      BY <3>2
    <3>4. CASE k < m
      BY <2>2, <2>3, <3>3, <3>4
    <3>5. CASE k = m
      BY <2>4, <3>3, <3>5
    <3>6. k < m \/ k = m
      BY <1>2
    <3> QED
      BY <3>4, <3>5, <3>6
  <2>6. g = [k \in 1 .. m |-> g[k]]
    OBVIOUS
  <2> HIDE DEF g
  <2>7. g = [k \in 1 .. m |-> next(g, k)]
    BY <2>5, <2>6
  <2>8. IsOffsets(params, g, m)
    BY <2>7 DEF IsOffsets
  <2> QED
    BY <1>1, <2>8
<1> QED
  BY <1>3, <1>4

(* Each parameter follows the one before it.                                *)
LEMMA OffsetSteps ==
  ASSUME NEW params, Len(params) \in Nat
  PROVE  /\ OffsetOf(params, 1) = HeaderLength
         /\ \A n \in 1 .. Len(params) :
              OffsetOf(params, n + 1) = OffsetOf(params, n) + 6 + params[n].length
<1> DEFINE N == Len(params) + 1
           at == CHOOSE f : IsOffsets(params, f, N)
<1>1. IsOffsets(params, at, N)
  BY OffsetsExist
<1>2. OffsetsOf(params) = at
  BY Zenon DEF OffsetsOf, IsOffsets
<1> HIDE DEF at
<1>3. \A n \in 1 .. N :
        at[n] = IF n = 1 THEN HeaderLength ELSE at[n - 1] + 6 + params[n - 1].length
  BY <1>1 DEF IsOffsets
<1>4. 1 \in 1 .. N
  OBVIOUS
<1>5. ASSUME NEW n \in 1 .. Len(params)
      PROVE  at[n + 1] = at[n] + 6 + params[n].length
  <2>1. n + 1 \in 1 .. N /\ n + 1 # 1 /\ (n + 1) - 1 = n
    OBVIOUS
  <2> QED
    BY <1>3, <2>1
<1> QED
  BY <1>2, <1>3, <1>4, <1>5 DEF OffsetOf

(* A message ends where its last parameter ends, and not before another.    *)
LEMMA OffsetBounds ==
  ASSUME NEW params, Len(params) \in Nat,
         \A n \in 1 .. Len(params) : params[n].length \in Nat
  PROVE  \A n \in 1 .. Len(params) + 1 :
           /\ OffsetOf(params, n) \in Nat
           /\ OffsetOf(params, n) <= OffsetOf(params, Len(params) + 1)
<1> DEFINE N == Len(params) + 1
           at(n) == OffsetOf(params, n)
           S == {m \in Nat : m + 1 \in 1 .. N /\ at(m + 1) \notin Nat}
           T == {m \in Nat : N - m \in 1 .. N /\ ~(at(N - m) <= at(N))}
<1>1. /\ at(1) = 16
      /\ \A n \in 1 .. Len(params) : at(n + 1) = at(n) + 6 + params[n].length
  BY OffsetSteps DEF HeaderLength
<1> HIDE DEF at
<1>2. S = {}
  <2> SUFFICES ASSUME S # {} PROVE FALSE
    OBVIOUS
  <2>1. PICK m \in S : \A k \in S : ~(<<k, m>> \in OpToRel(<, Nat))
    BY NatLessThanWellFounded, WFMin
  <2>2. m \in Nat /\ m + 1 \in 1 .. N /\ at(m + 1) \notin Nat /\ \A k \in S : ~(k < m)
    BY <2>1 DEF OpToRel
  <2>3. m # 0
    BY <1>1, <2>2
  <2>4. m - 1 \in Nat /\ m - 1 < m /\ m \in 1 .. Len(params) /\ (m - 1) + 1 = m /\ m \in 1 .. N
    BY <2>2, <2>3
  <2>5. at(m) \in Nat
    BY <2>2, <2>4
  <2>6. at(m + 1) = at(m) + 6 + params[m].length
    BY <1>1, <2>4
  <2> QED
    BY <2>2, <2>4, <2>5, <2>6
<1>3. \A n \in 1 .. N : at(n) \in Nat
  <2> SUFFICES ASSUME NEW n \in 1 .. N PROVE at(n) \in Nat
    OBVIOUS
  <2>1. n - 1 \in Nat /\ (n - 1) + 1 = n
    OBVIOUS
  <2> QED
    BY <1>2, <2>1
<1>4. T = {}
  <2> SUFFICES ASSUME T # {} PROVE FALSE
    OBVIOUS
  <2>1. PICK m \in T : \A k \in T : ~(<<k, m>> \in OpToRel(<, Nat))
    BY NatLessThanWellFounded, WFMin
  <2>2. m \in Nat /\ N - m \in 1 .. N /\ ~(at(N - m) <= at(N)) /\ \A k \in T : ~(k < m)
    BY <2>1 DEF OpToRel
  <2>3. m # 0
    BY <1>3, <2>2
  <2> DEFINE n == N - m
  <2>4. m - 1 \in Nat /\ m - 1 < m /\ n \in 1 .. Len(params) /\ N - (m - 1) = n + 1
    BY <2>2, <2>3
  <2>5. n + 1 \in 1 .. N
    BY <2>4
  <2>6. at(n + 1) <= at(N)
    BY <2>2, <2>4, <2>5
  <2>7. at(n + 1) = at(n) + 6 + params[n].length /\ params[n].length \in Nat
    BY <1>1, <2>4
  <2>8. at(n) \in Nat /\ at(n + 1) \in Nat /\ at(N) \in Nat
    BY <1>3, <2>2, <2>5
  <2> QED
    BY <2>2, <2>6, <2>7, <2>8
<1>5. ASSUME NEW n \in 1 .. N
      PROVE  at(n) <= at(N)
  <2>1. N - n \in Nat /\ N - (N - n) = n
    OBVIOUS
  <2> QED
    BY <1>4, <2>1
<1> QED
  BY <1>3, <1>5 DEF at

-----------------------------------------------------------------------------
(* Conversions.                                                             *)

(* What stands in a list of parameters: a string may be missing.            *)
Parameters ==
  {d \in [type : ValueTypes, value : Contents] : d.type = "STRING" => d.value \in Strings \cup {Null}}

LEMMA StringBack ==
  ASSUME NEW s \in Strings \cup {Null}
  PROVE  /\ StringLength(s) \in Nat /\ (StringLength(s) = 0 <=> s = Null)
         /\ TakeString(s, StringLength(s)) = s /\ s # Garbage
BY WireAssumption, NullAssumption DEF StringLength, TakeString, Strings

LEMMA BytesOf ==
  ASSUME NEW d \in Parameters
  PROVE  /\ Bytes(d) \in Nat /\ (Bytes(d) = 0 => d.type = "STRING")
         /\ d.type = "STRING" => d.value \in Strings \cup {Null} /\ Bytes(d) = StringLength(d.value)
<1>1. CASE d.type = "STRING"
  BY <1>1, StringBack DEF Bytes, Parameters, WordTypes, LongTypes
<1>2. CASE d.type # "STRING"
  BY <1>2 DEF Bytes, Parameters, ValueTypes, WordTypes, LongTypes
<1> QED
  BY <1>1, <1>2

(* A message is read as it was written.                                     *)
LEMMA MessageBack ==
  ASSUME NEW list \in Seq(Parameters), Len(list) <= MaxParams,
         NEW code \in Ops \cup {"STATUS"}, NEW msgid \in Ids,
         NEW sent, sent = SerializeMessage(code, msgid, list)
  PROVE  /\ sent \in Frame /\ sent # Null
         /\ sent.code = code /\ sent.msgid = msgid
         /\ DeserializeMessage(sent) = list
         /\ list \in List /\ list # Null
<1> DEFINE params == [n \in DOMAIN list |-> [type |-> list[n].type, length |-> Bytes(list[n]),
                                             value |-> list[n].value]]
           f == [code |-> code, msgid |-> msgid, params |-> params,
                 size |-> OffsetOf(params, Len(params) + 1)]
<1>1. Len(list) \in Nat /\ DOMAIN list = 1 .. Len(list)
  BY LenProperties
<1>2. \A n \in 1 .. Len(list) : list[n] \in Parameters
  BY ElementOfSeq
<1>3. \A n \in 1 .. Len(list) :
        /\ params[n] = [type |-> list[n].type, length |-> Bytes(list[n]), value |-> list[n].value]
        /\ params[n] \in Parameter
  BY <1>1, <1>2, BytesOf DEF Parameter, Parameters
<1>4. params \in Seq(Parameter) /\ Len(params) = Len(list)
  BY <1>1, <1>3
<1> HIDE DEF params
<1>5. \A n \in 1 .. Len(params) + 1 :
        /\ OffsetOf(params, n) \in Nat
        /\ OffsetOf(params, n) <= OffsetOf(params, Len(params) + 1)
  BY <1>1, <1>3, <1>4, OffsetBounds DEF Parameter
<1>6. OffsetOf(params, Len(params) + 1) \in Nat
  BY <1>1, <1>4, <1>5
<1>7. f \in Frame
  BY <1>4, <1>6 DEF Frame
<1>8. SerializeMessage(code, msgid, list) = f
  BY <1>1, <1>2, WireAssumption DEF SerializeMessage, Parameters, params
<1>9. f.params = params /\ f.size = OffsetOf(params, Len(params) + 1)
  OBVIOUS
<1>10. DOMAIN params = 1 .. Len(params)
  BY <1>4, LenProperties
<1> HIDE DEF f
<1>11. ASSUME NEW n \in DOMAIN params
       PROVE  /\ ~ParamIsBad(f, n)
              /\ Data(params[n].type, IF params[n].type = "STRING"
                                      THEN TakeString(params[n].value, params[n].length)
                                      ELSE params[n].value) = list[n]
  <2>1. n \in 1 .. Len(list) /\ n + 1 \in 1 .. Len(params) + 1
    BY <1>1, <1>4, <1>10
  <2>2. OffsetOf(params, n + 1) <= f.size
    BY <1>5, <1>9, <2>1
  <2>3. ~(OffsetOf(params, n + 1) > f.size)
    BY <1>5, <1>6, <1>9, <2>1, <2>2
  <2>4. PICK d \in Parameters : d = list[n]
    BY <1>2, <2>1
  <2>5. params[n] = [type |-> d.type, length |-> Bytes(d), value |-> d.value]
    BY <1>3, <2>1, <2>4
  <2>6. d.type = "STRING" => TakeString(d.value, Bytes(d)) = d.value /\ d.value # Garbage
    BY BytesOf, StringBack
  <2>7. d.type \in ValueTypes /\ (Bytes(d) = 0 => d.type = "STRING") /\ d = Data(d.type, d.value)
    BY BytesOf DEF Parameters, Data
  <2> QED
    BY <1>9, <2>3, <2>4, <2>5, <2>6, <2>7 DEF ParamIsBad
<1>12. DeserializeMessage(f) = [n \in DOMAIN params |-> list[n]]
  <2>1. ~(Len(f.params) > MaxParams)
    BY <1>1, <1>4, <1>9, WireAssumption
  <2>2. ~\E n \in DOMAIN f.params : ParamIsBad(f, n)
    BY <1>9, <1>11
  <2> QED
    BY Zenon, <1>9, <1>11, <2>1, <2>2 DEF DeserializeMessage
<1>13. [n \in DOMAIN params |-> list[n]] = list
  <2>1. list = [n \in DOMAIN list |-> list[n]]
    BY <1>1
  <2> QED
    BY <1>1, <1>4, <1>10, <2>1
<1>14. list \in List
  <2> DEFINE T == [type : ValueTypes, value : Contents]
  <2>1. Parameters \subseteq T
    BY DEF Parameters
  <2> HIDE DEF T
  <2>2. list \in Seq(T)
    BY <2>1
  <2> QED
    BY <2>2 DEF List, T
<1>15. f # Null /\ list # Null
  BY <1>7, <1>14, NullAssumption
<1>16. f.code = code /\ f.msgid = msgid
  BY DEF f
<1> QED
  BY <1>7, <1>8, <1>12, <1>13, <1>14, <1>15, <1>16

(* The parameters of a list as they are sent, and how long the message is.  *)
Packed(list) ==
  [n \in DOMAIN list |-> [type |-> list[n].type, length |-> Bytes(list[n]), value |-> list[n].value]]
SizeOf(list) == OffsetOf(Packed(list), Len(Packed(list)) + 1)

(* Neither the code nor the id matters for what is sent.                    *)
LEMMA MessageOf ==
  ASSUME NEW list \in Seq(Parameters), Len(list) <= MaxParams, NEW code, NEW msgid
  PROVE  SerializeMessage(code, msgid, list)
           = [code |-> code, msgid |-> msgid, params |-> Packed(list), size |-> SizeOf(list)]
<1>1. Len(list) \in Nat /\ DOMAIN list = 1 .. Len(list)
  BY LenProperties
<1>2. \A n \in DOMAIN list : list[n].type \in ValueTypes
  BY <1>1, ElementOfSeq DEF Parameters
<1>3. ~(Len(list) > MaxParams)
  BY <1>1, WireAssumption
<1> QED
  BY Zenon, <1>2, <1>3 DEF SerializeMessage, Packed, SizeOf

(* The length of a short message.                                           *)
LEMMA ShortSizes ==
  ASSUME NEW list \in Seq(Parameters)
  PROVE  LET b(n) == Bytes(list[n])
         IN  /\ \A n \in 1 .. Len(list) : b(n) \in Nat
             /\ Len(list) = 1 => SizeOf(list) = 22 + b(1)
             /\ Len(list) = 2 => SizeOf(list) = 28 + b(1) + b(2)
             /\ Len(list) = 3 => SizeOf(list) = 34 + b(1) + b(2) + b(3)
             /\ Len(list) = 4 => SizeOf(list) = 40 + b(1) + b(2) + b(3) + b(4)
<1> DEFINE b(n) == Bytes(list[n])
           p == Packed(list)
           at(n) == OffsetOf(p, n)
<1>1. Len(list) \in Nat /\ DOMAIN list = 1 .. Len(list)
  BY LenProperties
<1>2. \A n \in 1 .. Len(list) : b(n) \in Nat
  BY ElementOfSeq, BytesOf
<1>3. Len(p) = Len(list) /\ \A n \in 1 .. Len(list) : p[n].length = b(n)
  BY <1>1 DEF Packed
<1>4. at(1) = 16 /\ \A n \in 1 .. Len(list) : at(n + 1) = at(n) + 6 + b(n)
  BY <1>1, <1>3, OffsetSteps DEF HeaderLength
<1>5. SizeOf(list) = at(Len(list) + 1)
  BY <1>3 DEF SizeOf
<1> HIDE DEF p, at, b
<1>6. ASSUME Len(list) = 1
      PROVE  SizeOf(list) = 22 + b(1)
  BY <1>2, <1>4, <1>5, <1>6
<1>7. ASSUME Len(list) = 2
      PROVE  SizeOf(list) = 28 + b(1) + b(2)
  <2>1. at(2) = 16 + 6 + b(1) /\ b(1) \in Nat
    BY <1>2, <1>4, <1>7
  <2> QED
    BY <1>2, <1>4, <1>5, <1>7, <2>1
<1>8. ASSUME Len(list) = 3
      PROVE  SizeOf(list) = 34 + b(1) + b(2) + b(3)
  <2>1. at(2) = 16 + 6 + b(1) /\ b(1) \in Nat
    BY <1>2, <1>4, <1>8
  <2>2. at(3) = at(2) + 6 + b(2) /\ b(2) \in Nat
    BY <1>2, <1>4, <1>8
  <2> QED
    BY <1>2, <1>4, <1>5, <1>8, <2>1, <2>2
<1>9. ASSUME Len(list) = 4
      PROVE  SizeOf(list) = 40 + b(1) + b(2) + b(3) + b(4)
  <2>1. at(2) = 16 + 6 + b(1) /\ b(1) \in Nat
    BY <1>2, <1>4, <1>9
  <2>2. at(3) = at(2) + 6 + b(2) /\ b(2) \in Nat
    BY <1>2, <1>4, <1>9
  <2>3. at(4) = at(3) + 6 + b(3) /\ b(3) \in Nat
    BY <1>2, <1>4, <1>9
  <2> QED
    BY <1>2, <1>4, <1>5, <1>9, <2>1, <2>2, <2>3
<1>10. \A n \in 1 .. Len(list) : Bytes(list[n]) \in Nat
  BY <1>2 DEF b
<1> QED
  BY <1>6, <1>7, <1>8, <1>9, <1>10 DEF b

(* A record of the databases is read as it was written.                     *)
Entries == [data : [type : ValueTypes, value : Contents], label : Strings]

LEMMA EntryType ==
  ASSUME NEW e, IsEntry(e)
  PROVE  /\ e \in Entries /\ e # Null /\ e.data \in Parameters
         /\ e.data.type = "STRING" => e.data.value \in Strings
<1>1. e.data.value \in Contents
  BY DEF IsEntry, IsContent, Contents
<1>2. e.label \in Strings
  BY DEF IsEntry
<1>3. e \in Entries
  BY <1>1, <1>2 DEF IsEntry, Entries
<1>4. e.data \in Parameters
  BY <1>1, <1>3 DEF IsEntry, IsContent, Entries, Parameters
<1> QED
  BY <1>3, <1>4, NullAssumption DEF IsEntry, IsContent, Entries

LEMMA RecordBack ==
  ASSUME NEW e, IsEntry(e)
  PROVE  /\ Deserialize(Serialize(e.data, e.label)) = e
         /\ Serialize(e.data, e.label) # Null
<1> DEFINE r == Serialize(e.data, e.label)
<1> PICK type, value, label : type = e.data.type /\ value = e.data.value /\ label = e.label
  OBVIOUS
<1>1. e = [data |-> [type |-> type, value |-> value], label |-> label]
  BY EntryType DEF Entries
<1>2. label \in Strings /\ (type = "STRING" => value \in Strings) /\ type \in ValueTypes
      /\ value \in Contents
  BY EntryType DEF Entries
<1>3. /\ r.type = type /\ r.value = value /\ r.label = label
      /\ r.labelLength = StringLength(label)
      /\ type = "STRING" => r.length = StringLength(value)
  BY <1>1 DEF Serialize, Bytes, WordTypes, LongTypes
<1>4. TakeString(label, StringLength(label)) = label
  BY <1>2, StringBack
<1>5. type = "STRING" => TakeString(value, StringLength(value)) = value
  BY <1>2, StringBack
<1>6. r.length \in Nat
  BY <1>1, <1>2, <1>3, StringBack DEF Serialize, StoreLength
<1>7. StringLength(label) \in Nat
  BY <1>2, StringBack
<1>8. r \in Record
  BY <1>2, <1>3, <1>6, <1>7 DEF Record, Serialize
<1> HIDE DEF r
<1>9. Deserialize(r) = e
  BY <1>1, <1>3, <1>4, <1>5 DEF Deserialize, Data
<1> QED
  BY <1>8, <1>9, NullAssumption DEF r

-----------------------------------------------------------------------------
(* Requests.                                                                *)

(* What the daemon reads out of the request of a call.                      *)
KeyOf(c) ==
  Request(IF c.op \in {"NOTIFY", "UNNOTIFY"} THEN Null ELSE c.layer, c.group, c.name,
          IF c.op \in {"SET", "GET", "UNSET", "NOTIFY", "UNNOTIFY"} THEN c.type
          ELSE IF c.op \in {"CREATE_GROUP", "REMOVE_GROUP"} THEN "STRING" ELSE "UNSET",
          IF c.op \in {"SET", "SET_LABEL"} THEN c.value ELSE Null)

LEMMA CallType ==
  ASSUME NEW c \in Calls, AcceptsCall(c)
  PROVE  /\ c.op \in Ops /\ {c.layer, c.group, c.name} \subseteq Strings \cup {Null}
         /\ c.type \in ValueTypes \cup {"UNSET"}
         /\ c = [op |-> c.op, layer |-> c.layer, group |-> c.group, name |-> c.name,
                 type |-> c.type, value |-> c.value]
         /\ c.op = "SET" => c.type \in ValueTypes /\ IsContent(c.type, c.value)
         /\ c.op = "SET_LABEL" => c.value \in Strings
<1>1. c \in [op : Ops, layer : Strings \cup {Null}, group : Strings \cup {Null},
             name : Strings \cup {Null}, type : ValueTypes \cup {"UNSET"}, value : {c.value}]
  BY WireAssumption
<1>2. c.op = "SET" => c.value # Null /\ c.type # "UNSET"
  BY DEF AcceptsCall, CanSetValue
<1>3. c.op = "SET_LABEL" => c.value # Null
  BY DEF AcceptsCall, CanSetLabel
<1> QED
  BY <1>1, <1>2, <1>3, WireAssumption

LEMMA KeyOfType ==
  ASSUME NEW c \in Calls, AcceptsCall(c)
  PROVE  KeyOf(c) # Null
<1>1. KeyOf(c).value \in Contents
  BY CallType DEF KeyOf, Request, Contents, IsContent
<1>2. KeyOf(c) \in [layer : Strings \cup {Null}, group : Strings \cup {Null},
                    name : Strings \cup {Null}, type : ValueTypes \cup {"UNSET"}, value : Contents]
  BY <1>1, CallType DEF KeyOf, Request, ValueTypes
<1> QED
  BY <1>2, NullAssumption

LEMMA StringIsParameter ==
  ASSUME NEW s \in Strings \cup {Null}
  PROVE  String(s) \in Parameters
BY DEF String, Data, Parameters, ValueTypes, Contents

LEMMA TypeIsParameter ==
  ASSUME NEW c, c.type \in ValueTypes \cup {"UNSET"}
  PROVE  TypeOf(c) \in Parameters
BY DEF TypeOf, Data, Parameters, ValueTypes, WordTypes, Contents

(* What the parameter that may be missing makes of a list.                  *)
LEMMA OneAndOne ==
  ASSUME NEW a, NEW b
  PROVE  <<a>> \o <<b>> = <<a, b>>
<1> DEFINE S == {a, b}
           s == <<a>>
           t == <<b>>
           u == <<a, b>>
<1>1. s \in Seq(S) /\ t \in Seq(S) /\ u \in Seq(S) /\ Len(s) = 1 /\ Len(t) = 1 /\ Len(u) = 2
  OBVIOUS
<1>2. s \o t \in Seq(S) /\ Len(s \o t) = 2
  BY <1>1, ConcatProperties
<1>3. \A i \in 1 .. 2 : (s \o t)[i] = IF i <= 1 THEN s[i] ELSE t[i - 1]
  BY <1>1, ConcatProperties
<1>4. \A i \in 1 .. 2 : (s \o t)[i] = u[i]
  BY <1>3
<1> QED
  BY <1>1, <1>2, <1>4, SeqEqual

LEMMA OneAndThree ==
  ASSUME NEW a, NEW b, NEW c, NEW d
  PROVE  <<a>> \o <<b, c, d>> = <<a, b, c, d>>
<1> DEFINE S == {a, b, c, d}
           s == <<a>>
           t == <<b, c, d>>
           u == <<a, b, c, d>>
<1>1. s \in Seq(S) /\ t \in Seq(S) /\ u \in Seq(S) /\ Len(s) = 1 /\ Len(t) = 3 /\ Len(u) = 4
  OBVIOUS
<1>2. s \o t \in Seq(S) /\ Len(s \o t) = 4
  BY <1>1, ConcatProperties
<1>3. \A i \in 1 .. 4 : (s \o t)[i] = IF i <= 1 THEN s[i] ELSE t[i - 1]
  BY <1>1, ConcatProperties
<1>4. \A i \in 1 .. 4 : (s \o t)[i] = u[i]
  BY <1>3
<1> QED
  BY <1>1, <1>2, <1>4, SeqEqual

LEMMA TwoAndOne ==
  ASSUME NEW a, NEW b, NEW c
  PROVE  <<a, b>> \o <<c>> = <<a, b, c>>
<1> DEFINE S == {a, b, c}
           s == <<a, b>>
           t == <<c>>
           u == <<a, b, c>>
<1>1. s \in Seq(S) /\ t \in Seq(S) /\ u \in Seq(S) /\ Len(s) = 2 /\ Len(t) = 1 /\ Len(u) = 3
  OBVIOUS
<1>2. s \o t \in Seq(S) /\ Len(s \o t) = 3
  BY <1>1, ConcatProperties
<1>3. \A i \in 1 .. 3 : (s \o t)[i] = IF i <= 2 THEN s[i] ELSE t[i - 2]
  BY <1>1, ConcatProperties
<1>4. \A i \in 1 .. 3 : (s \o t)[i] = u[i]
  BY <1>3
<1> QED
  BY <1>1, <1>2, <1>4, SeqEqual

LEMMA ThreeAndOne ==
  ASSUME NEW a, NEW b, NEW c, NEW d
  PROVE  <<a, b, c>> \o <<d>> = <<a, b, c, d>>
<1> DEFINE S == {a, b, c, d}
           s == <<a, b, c>>
           t == <<d>>
           u == <<a, b, c, d>>
<1>1. s \in Seq(S) /\ t \in Seq(S) /\ u \in Seq(S) /\ Len(s) = 3 /\ Len(t) = 1 /\ Len(u) = 4
  OBVIOUS
<1>2. s \o t \in Seq(S) /\ Len(s \o t) = 4
  BY <1>1, ConcatProperties
<1>3. \A i \in 1 .. 4 : (s \o t)[i] = IF i <= 3 THEN s[i] ELSE t[i - 3]
  BY <1>1, ConcatProperties
<1>4. \A i \in 1 .. 4 : (s \o t)[i] = u[i]
  BY <1>3
<1> QED
  BY <1>1, <1>2, <1>4, SeqEqual

LEMMA NoneAndThree ==
  ASSUME NEW a, NEW b, NEW c
  PROVE  << >> \o <<a, b, c>> = <<a, b, c>>
OBVIOUS

LEMMA TwoAndNone ==
  ASSUME NEW a, NEW b
  PROVE  <<a, b>> \o << >> = <<a, b>>
OBVIOUS

(* A request is read by the daemon as the call that was made, except that   *)
(* it refuses every LIST.                                                   *)
LEMMA ParamsOfCall ==
  ASSUME NEW c \in Calls, AcceptsCall(c)
  PROVE  /\ Params(c) \in Seq(Parameters)
         /\ Len(Params(c)) \in 1 .. 4
<1> DEFINE L == String(c.layer)
           G == String(c.group)
           N == String(c.name)
           T == TypeOf(c)
<1>1. L \in Parameters /\ G \in Parameters /\ N \in Parameters /\ T \in Parameters
  BY CallType, StringIsParameter, TypeIsParameter
<1> HIDE DEF L, G, N, T
<1>2. CASE c.op = "SET"
  <2> DEFINE V == Data(c.type, c.value)
  <2>1. V \in Parameters
    BY <1>2, CallType DEF Data, Parameters, IsContent, Contents
  <2>2. Params(c) = <<L, G, N, V>>
    BY <1>2 DEF Params, SetValueParams, L, G, N
  <2> HIDE DEF V
  <2> QED
    BY <1>1, <2>1, <2>2
<1>3. CASE c.op = "SET_LABEL"
  <2> DEFINE V == String(c.value)
  <2>1. V \in Parameters
    BY <1>3, CallType, StringIsParameter
  <2>2. Params(c) = <<L, G>> \o IfThere(c.name) \o <<V>>
    BY <1>3 DEF Params, SetLabelParams, L, G
  <2>3. IfThere(c.name) = << >> \/ IfThere(c.name) = <<N>>
    BY DEF IfThere, N
  <2> HIDE DEF V
  <2>4. CASE IfThere(c.name) = << >>
    <3>1. Params(c) = <<L, G, V>>
      BY <2>2, <2>4, TwoAndNone, TwoAndOne
    <3> QED
      BY <1>1, <2>1, <3>1
  <2>5. CASE IfThere(c.name) = <<N>>
    <3>1. <<L, G>> \o <<N>> = <<L, G, N>> /\ <<L, G, N>> \o <<V>> = <<L, G, N, V>>
      BY TwoAndOne, ThreeAndOne
    <3>2. Params(c) = <<L, G, N, V>>
      BY <2>2, <2>5, <3>1
    <3> QED
      BY <1>1, <2>1, <3>2
  <2> QED
    BY <2>3, <2>4, <2>5
<1>4. CASE c.op \in {"CREATE_GROUP", "REMOVE_GROUP"}
  <2>1. Params(c) = <<L, G>>
    BY <1>4 DEF Params, GroupParams, L, G
  <2> QED
    BY <1>1, <2>1
<1>5. CASE c.op = "GET"
  <2>1. Params(c) = IfThere(c.layer) \o <<G, N, T>>
    BY <1>5 DEF Params, GetValueParams, G, N, T
  <2>2. IfThere(c.layer) = << >> \/ IfThere(c.layer) = <<L>>
    BY DEF IfThere, L
  <2>3. CASE IfThere(c.layer) = << >>
    <3>1. Params(c) = <<G, N, T>>
      BY <2>1, <2>3, NoneAndThree
    <3> QED
      BY <1>1, <3>1
  <2>4. CASE IfThere(c.layer) = <<L>>
    <3>1. <<L>> \o <<G, N, T>> = <<L, G, N, T>>
      BY OneAndThree
    <3>2. Params(c) = <<L, G, N, T>>
      BY <2>1, <2>4, <3>1
    <3> QED
      BY <1>1, <3>2
  <2> QED
    BY <2>2, <2>3, <2>4
<1>6. CASE c.op = "GET_LABEL"
  <2>1. Params(c) = <<L, G>> \o IfThere(c.name)
    BY <1>6 DEF Params, GetLabelParams, L, G
  <2>2. IfThere(c.name) = << >> \/ IfThere(c.name) = <<N>>
    BY DEF IfThere, N
  <2>3. CASE IfThere(c.name) = << >>
    <3>1. Params(c) = <<L, G>>
      BY <2>1, <2>3, TwoAndNone
    <3> QED
      BY <1>1, <3>1
  <2>4. CASE IfThere(c.name) = <<N>>
    <3>1. <<L, G>> \o <<N>> = <<L, G, N>>
      BY TwoAndOne
    <3>2. Params(c) = <<L, G, N>>
      BY <2>1, <2>4, <3>1
    <3> QED
      BY <1>1, <3>2
  <2> QED
    BY <2>2, <2>3, <2>4
<1>7. CASE c.op = "UNSET"
  <2>1. Params(c) = <<L, G, N, T>>
    BY <1>7 DEF Params, UnsetParams, L, G, N, T
  <2> QED
    BY <1>1, <2>1
<1>8. CASE c.op = "LIST"
  <2>1. Params(c) = <<L>>
    BY <1>8 DEF Params, ListKeysParams, L
  <2> QED
    BY <1>1, <2>1
<1>9. CASE c.op = "LIST_NAMES"
  <2>1. Params(c) = <<L, G, N>>
    BY <1>9 DEF Params, ListNamesParams, L, G, N
  <2> QED
    BY <1>1, <2>1
<1>10. CASE c.op \in {"NOTIFY", "UNNOTIFY"}
  <2>1. Params(c) = <<G, N, T>>
    BY <1>10 DEF Params, NotificationParams, G, N, T
  <2> QED
    BY <1>1, <2>1
<1> QED
  BY <1>2, <1>3, <1>4, <1>5, <1>6, <1>7, <1>8, <1>9, <1>10, CallType DEF Ops

LEMMA RequestBack ==
  ASSUME NEW c \in Calls, AcceptsCall(c)
  PROVE  ParseList(c.op, Params(c)) = IF c.op = "LIST" THEN Null ELSE KeyOf(c)
<1>1. CASE c.op = "SET"
  BY <1>1 DEF Params, SetValueParams, String, Data, ParseList, KeyOf
<1>2. CASE c.op = "SET_LABEL"
  <2>1. CASE c.name = Null
    <3>1. Params(c) = <<String(c.layer), String(c.group), String(c.value)>>
      BY <1>2, <2>1, TwoAndNone, TwoAndOne DEF Params, SetLabelParams, IfThere
    <3> QED
      BY <1>2, <2>1, <3>1 DEF String, Data, ParseList, KeyOf
  <2>2. CASE c.name # Null
    <3> DEFINE L == String(c.layer)
               G == String(c.group)
               N == String(c.name)
               V == String(c.value)
    <3>2. Params(c) = <<L, G>> \o <<N>> \o <<V>>
      BY <1>2, <2>2 DEF Params, SetLabelParams, IfThere
    <3>3. <<L, G>> \o <<N>> = <<L, G, N>> /\ <<L, G, N>> \o <<V>> = <<L, G, N, V>>
      BY TwoAndOne, ThreeAndOne
    <3>1. Params(c) = <<String(c.layer), String(c.group), String(c.name), String(c.value)>>
      BY <3>2, <3>3
    <3> QED
      BY <1>2, <3>1 DEF String, Data, ParseList, KeyOf
  <2> QED
    BY <2>1, <2>2
<1>3. CASE c.op \in {"CREATE_GROUP", "REMOVE_GROUP"}
  <2>1. c.name = Null
    BY <1>3 DEF AcceptsCall, CanNameGroup
  <2>2. Params(c) = <<String(c.layer), String(c.group)>>
    BY <1>3 DEF Params, GroupParams
  <2>3. CASE c.op = "CREATE_GROUP"
    BY <2>1, <2>2, <2>3 DEF String, Data, ParseList, KeyOf
  <2>4. CASE c.op = "REMOVE_GROUP"
    BY <2>1, <2>2, <2>4 DEF String, Data, ParseList, KeyOf
  <2> QED
    BY <1>3, <2>3, <2>4
<1>4. CASE c.op = "GET"
  <2>1. CASE c.layer = Null
    <3>1. Params(c) = <<String(c.group), String(c.name), TypeOf(c)>>
      BY <1>4, <2>1, NoneAndThree DEF Params, GetValueParams, IfThere
    <3> QED
      BY <1>4, <2>1, <3>1 DEF String, TypeOf, Data, ParseList, KeyOf
  <2>2. CASE c.layer # Null
    <3> DEFINE L == String(c.layer)
               G == String(c.group)
               N == String(c.name)
               T == TypeOf(c)
    <3>2. Params(c) = <<L>> \o <<G, N, T>>
      BY <1>4, <2>2 DEF Params, GetValueParams, IfThere
    <3>3. <<L>> \o <<G, N, T>> = <<L, G, N, T>>
      BY OneAndThree
    <3>1. Params(c) = <<String(c.layer), String(c.group), String(c.name), TypeOf(c)>>
      BY <3>2, <3>3
    <3> QED
      BY <1>4, <3>1 DEF String, TypeOf, Data, ParseList, KeyOf
  <2> QED
    BY <2>1, <2>2
<1>5. CASE c.op = "GET_LABEL"
  <2>1. CASE c.name = Null
    <3>1. Params(c) = <<String(c.layer), String(c.group)>>
      BY <1>5, <2>1, TwoAndNone, TwoAndOne DEF Params, GetLabelParams, IfThere
    <3> QED
      BY <1>5, <2>1, <3>1 DEF String, Data, ParseList, KeyOf
  <2>2. CASE c.name # Null
    <3>1. Params(c) = <<String(c.layer), String(c.group), String(c.name)>>
      BY <1>5, <2>2, TwoAndNone, TwoAndOne DEF Params, GetLabelParams, IfThere
    <3> QED
      BY <1>5, <3>1 DEF String, Data, ParseList, KeyOf
  <2> QED
    BY <2>1, <2>2
<1>6. CASE c.op = "UNSET"
  BY <1>6 DEF Params, UnsetParams, String, TypeOf, Data, ParseList, KeyOf
<1>7. CASE c.op = "LIST"
  BY <1>7 DEF Params, ListKeysParams, String, Data, ParseList
<1>8. CASE c.op = "LIST_NAMES"
  BY <1>8 DEF Params, ListNamesParams, String, Data, ParseList, KeyOf
<1>9. CASE c.op \in {"NOTIFY", "UNNOTIFY"}
  <2>1. Params(c) = <<String(c.group), String(c.name), TypeOf(c)>>
    BY <1>9 DEF Params, NotificationParams
  <2>2. CASE c.op = "NOTIFY"
    BY <2>1, <2>2 DEF String, TypeOf, Data, ParseList, KeyOf
  <2>3. CASE c.op = "UNNOTIFY"
    BY <2>1, <2>3 DEF String, TypeOf, Data, ParseList, KeyOf
  <2> QED
    BY <1>9, <2>2, <2>3
<1> QED
  BY <1>1, <1>2, <1>3, <1>4, <1>5, <1>6, <1>7, <1>8, <1>9, CallType DEF Ops

-----------------------------------------------------------------------------
(* Messages between the two.                                                *)

Sent(i, c) == SerializeMessage(c.op, i, Params(c))

LEMMA RoomForFour ==
  \A m \in 1 .. 4 : m <= MaxParams
<1>1. MaxParams \in Nat /\ MaxParams >= 4
  BY WireAssumption
<1> QED
  BY <1>1

LEMMA SentIsRead ==
  ASSUME NEW c \in Calls, AcceptsCall(c), NEW i \in Ids
  PROVE  LET f == Sent(i, c)
         IN  /\ f \in Frame /\ f # Null /\ f.code = c.op /\ f.msgid = i
             /\ DeserializeMessage(f) = Params(c) /\ DeserializeMessage(f) # Null
             /\ BadSize(f) <=> TooLong(c)
<1> DEFINE list == Params(c)
           f == Sent(i, c)
<1>1. list \in Seq(Parameters) /\ Len(list) <= MaxParams /\ c.op \in Ops
  BY ParamsOfCall, CallType, RoomForFour
<1> HIDE DEF list
<1>2. f = SerializeMessage(c.op, i, list)
  BY DEF Sent, list
<1>3. /\ f \in Frame /\ f # Null /\ f.code = c.op /\ f.msgid = i
      /\ DeserializeMessage(f) = list /\ list # Null
  <2> DEFINE g == SerializeMessage(c.op, i, list)
  <2>1. c.op \in Ops \cup {"STATUS"}
    BY <1>1
  <2>2. /\ g \in Frame /\ g # Null /\ g.code = c.op /\ g.msgid = i
        /\ DeserializeMessage(g) = list /\ list # Null
    BY <1>1, <2>1, MessageBack
  <2> QED
    BY <1>2, <2>2
<1>4. f.size = SizeOf(list)
  BY <1>1, <1>2, MessageOf
<1>5. TooLong(c) <=> SizeOf(list) > BUXTON_MESSAGE_MAX_LENGTH
  <2>1. SerializeMessage(c.op, Null, list).size = SizeOf(list)
    BY <1>1, MessageOf
  <2> QED
    BY <2>1 DEF TooLong, list
<1> QED
  BY <1>3, <1>4, <1>5 DEF BadSize, list

(* What a request can carry, a reply can carry.                             *)
LEMMA ValueFits ==
  ASSUME NEW c \in Calls, AcceptsCall(c), ~TooLong(c)
  PROVE  /\ c.op = "SET" /\ c.type = "STRING" => Fits(c.value)
         /\ c.op = "SET_LABEL" => Fits(c.value)
<1> DEFINE list == Params(c)
           N == Len(list)
<1>1. list \in Seq(Parameters) /\ N \in 1 .. 4
  BY ParamsOfCall
<1>2. SerializeMessage(c.op, Null, list).size = SizeOf(list)
  <2>1. N <= MaxParams
    BY <1>1, RoomForFour
  <2> QED
    BY <1>1, <2>1, MessageOf
<1>3. /\ \A n \in 1 .. N : Bytes(list[n]) \in Nat
      /\ N = 3 => SizeOf(list) = 34 + Bytes(list[1]) + Bytes(list[2]) + Bytes(list[3])
      /\ N = 4 => SizeOf(list) = 40 + Bytes(list[1]) + Bytes(list[2]) + Bytes(list[3])
                                   + Bytes(list[4])
  BY <1>1, ShortSizes
<1>4. ~(SizeOf(list) > 32768)
  BY <1>2 DEF TooLong, BUXTON_MESSAGE_MAX_LENGTH
<1>5. N \in {3, 4} => Bytes(list[N]) <= 32736
  <2>1. CASE N = 3
    <3>1. Bytes(list[1]) \in Nat /\ Bytes(list[2]) \in Nat /\ Bytes(list[3]) \in Nat
      BY <1>3, <2>1
    <3> QED
      BY <1>3, <1>4, <2>1, <3>1
  <2>2. CASE N = 4
    <3>1. /\ Bytes(list[1]) \in Nat /\ Bytes(list[2]) \in Nat /\ Bytes(list[3]) \in Nat
          /\ Bytes(list[4]) \in Nat
      BY <1>3, <2>2
    <3> QED
      BY <1>3, <1>4, <2>2, <3>1
  <2> QED
    BY <2>1, <2>2
<1>6. ASSUME NEW s \in Strings, Bytes(String(s)) <= 32736
      PROVE  Fits(s)
  <2>1. Bytes(String(s)) = Length[s]
    BY NullAssumption DEF Bytes, String, Data, StringLength, WordTypes, LongTypes
  <2> QED
    BY <1>6, <2>1 DEF Fits, Room, BUXTON_MESSAGE_MAX_LENGTH, HeaderLength
<1>7. CASE c.op = "SET"
  <2>1. list = <<String(c.layer), String(c.group), String(c.name), Data(c.type, c.value)>>
    BY <1>7 DEF Params, SetValueParams
  <2>2. N = 4 /\ list[4] = Data(c.type, c.value)
    BY <2>1
  <2>3. c.type = "STRING" => c.value \in Strings /\ list[4] = String(c.value)
    BY <1>7, <2>2, CallType DEF IsContent, String
  <2> QED
    BY <1>5, <1>6, <1>7, <2>2, <2>3
<1>8. CASE c.op = "SET_LABEL"
  <2> DEFINE L == String(c.layer)
             G == String(c.group)
             M == String(c.name)
             V == String(c.value)
  <2>1. list = <<L, G, V>> \/ list = <<L, G, M, V>>
    <3>1. list = <<L, G>> \o IfThere(c.name) \o <<V>>
      BY <1>8 DEF Params, SetLabelParams
    <3>2. CASE c.name = Null
      BY <3>1, <3>2, TwoAndNone, TwoAndOne DEF IfThere
    <3>3. CASE c.name # Null
      <4>1. <<L, G>> \o <<M>> = <<L, G, M>> /\ <<L, G, M>> \o <<V>> = <<L, G, M, V>>
        BY TwoAndOne, ThreeAndOne
      <4> QED
        BY <3>1, <3>3, <4>1 DEF IfThere
    <3> QED
      BY <3>2, <3>3
  <2> HIDE DEF L, G, M, V
  <2>2. N \in {3, 4} /\ list[N] = V
    <3>1. CASE list = <<L, G, V>>
      BY <3>1
    <3>2. CASE list = <<L, G, M, V>>
      BY <3>2
    <3> QED
      BY <2>1, <3>1, <3>2
  <2>3. V = String(c.value)
    BY DEF V
  <2> QED
    BY <1>5, <1>6, <1>8, <2>2, <2>3, CallType
<1> QED
  BY <1>7, <1>8

(* The length of the replies that carry no list of names.                   *)
LEMMA ShortReplies ==
  ASSUME NEW n \in Int
  PROVE  /\ <<Status(n)>> \in Seq(Parameters)
         /\ Len(<<Status(n)>>) = 1
         /\ SizeOf(<<Status(n)>>) <= BUXTON_MESSAGE_MAX_LENGTH
         /\ \A d \in Parameters :
              /\ <<Status(n), d>> \in Seq(Parameters)
              /\ Len(<<Status(n), d>>) = 2
              /\ Bytes(d) <= Room => SizeOf(<<Status(n), d>>) <= BUXTON_MESSAGE_MAX_LENGTH
<1> DEFINE s == Status(n)
<1>1. s \in Parameters /\ Bytes(s) = 4
  BY DEF Status, Data, Parameters, ValueTypes, WordTypes, LongTypes, Contents, Bytes
<1> HIDE DEF s
<1>2. <<s>> \in Seq(Parameters) /\ Len(<<s>>) = 1 /\ <<s>>[1] = s
  BY <1>1
<1>3. SizeOf(<<s>>) = 22 + 4
  BY <1>1, <1>2, ShortSizes
<1>4. ASSUME NEW d \in Parameters
      PROVE  /\ <<s, d>> \in Seq(Parameters) /\ Len(<<s, d>>) = 2
             /\ Bytes(d) <= Room => SizeOf(<<s, d>>) <= BUXTON_MESSAGE_MAX_LENGTH
  <2>1. <<s, d>> \in Seq(Parameters) /\ Len(<<s, d>>) = 2 /\ <<s, d>>[1] = s /\ <<s, d>>[2] = d
    BY <1>1
  <2>2. SizeOf(<<s, d>>) = 28 + 4 + Bytes(d)
    BY <1>1, <2>1, ShortSizes
  <2>3. Bytes(d) \in Nat
    BY BytesOf
  <2> QED
    BY <1>4, <2>1, <2>2, <2>3 DEF Room, BUXTON_MESSAGE_MAX_LENGTH, HeaderLength
<1> QED
  BY <1>2, <1>3, <1>4 DEF s, BUXTON_MESSAGE_MAX_LENGTH

(* What the databases hold, without the packing.                            *)
View(st) == [s \in Slots |-> IF st[s] = Null THEN Null ELSE Deserialize(st[s])]

(* What came in a message fits into a reply; the rest was there before.     *)
MayBeStored(s) == Fits(s) \/ s \in Oversized
GoodEntry(e) ==
  /\ IsEntry(e)
  /\ e.data.type = "STRING" => MayBeStored(e.data.value)
  /\ MayBeStored(e.label)

GoodStore(st) ==
  /\ st = [s \in Slots |-> st[s]]
  /\ \A s \in Slots : st[s] = Null \/ GoodEntry(Deserialize(st[s]))

LEMMA ViewHolds ==
  ASSUME NEW st, GoodStore(st), NEW s \in Slots
  PROVE  /\ View(st)[s] = Null <=> st[s] = Null
         /\ st[s] # Null => View(st)[s] = Deserialize(st[s]) /\ GoodEntry(View(st)[s])
BY EntryType DEF GoodStore, GoodEntry, View

LEMMA ViewPut ==
  ASSUME NEW st, GoodStore(st), NEW t \in Slots, NEW e, GoodEntry(e)
  PROVE  LET new == [st EXCEPT ![t] = Serialize(e.data, e.label)]
         IN  GoodStore(new) /\ View(new) = [View(st) EXCEPT ![t] = e]
<1> DEFINE r == Serialize(e.data, e.label)
           new == [st EXCEPT ![t] = r]
<1>1. Deserialize(r) = e /\ r # Null
  BY RecordBack DEF GoodEntry
<1> HIDE DEF r
<1>2. st = [s \in Slots |-> st[s]]
  BY DEF GoodStore
<1>3. new = [s \in Slots |-> IF s = t THEN r ELSE st[s]]
  BY <1>2
<1> HIDE DEF new
<1>4. \A s \in Slots : new[s] = IF s = t THEN r ELSE st[s]
  BY <1>3
<1>5. GoodStore(new)
  <2>1. new = [s \in Slots |-> new[s]]
    BY <1>3
  <2>2. \A s \in Slots : new[s] = Null \/ GoodEntry(Deserialize(new[s]))
    BY <1>1, <1>4 DEF GoodStore
  <2> QED
    BY <2>1, <2>2 DEF GoodStore
<1>6. \A s \in Slots : View(new)[s] = IF s = t THEN e ELSE View(st)[s]
  BY <1>1, <1>4 DEF View
<1>7. View(new) = [s \in Slots |-> View(new)[s]] /\ View(st) = [s \in Slots |-> View(st)[s]]
  BY DEF View
<1>8. View(new) = [View(st) EXCEPT ![t] = e]
  BY <1>6, <1>7
<1> QED
  BY <1>5, <1>8 DEF new, r

LEMMA ViewErase ==
  ASSUME NEW st, GoodStore(st), NEW gone
  PROVE  LET new == [s \in Slots |-> IF s \in gone THEN Null ELSE st[s]]
         IN  /\ GoodStore(new)
             /\ View(new) = [s \in Slots |-> IF s \in gone THEN Null ELSE View(st)[s]]
<1> DEFINE new == [s \in Slots |-> IF s \in gone THEN Null ELSE st[s]]
<1>1. GoodStore(new)
  BY DEF GoodStore
<1>2. \A s \in Slots : View(new)[s] = IF s \in gone THEN Null ELSE View(st)[s]
  BY DEF View
<1>3. View(new) = [s \in Slots |-> View(new)[s]]
  BY DEF View
<1> QED
  BY <1>1, <1>2, <1>3

-----------------------------------------------------------------------------
(* The inductive invariant: what is on its way to the daemon is what was    *)
(* asked and not yet answered, what is on its way back is what was          *)
(* answered, and the databases hold records that can be read back and sent. *)
AskedOK ==
  /\ asked \in [Ids -> Calls \cup {Null}]
  /\ \A i \in Ids : asked[i] # Null => AcceptsCall(asked[i])

IsPending(f) ==
  asked[f.msgid] # Null /\ replied[f.msgid] = Null /\ f = Sent(f.msgid, asked[f.msgid])

UpOK ==
  /\ up \in Seq(Frame)
  /\ \A n \in 1 .. Len(up) : IsPending(up[n])
  /\ \A m, n \in 1 .. Len(up) : up[m].msgid = up[n].msgid => m = n

IsReplyTo(g, c) ==
  /\ DeserializeMessage(g) \in List \ {<< >>}
  /\ \/ g.size <= BUXTON_MESSAGE_MAX_LENGTH \/ c.op = "LIST_NAMES"
     \/ CarriesOversized(c.op, DeserializeMessage(g))

RepliesOK ==
  /\ replied \in [Ids -> Frame \cup {Null}]
  /\ \A i \in Ids : replied[i] # Null => asked[i] # Null /\ IsReplyTo(replied[i], asked[i])

DownOK ==
  /\ down \in Seq(Frame)
  /\ \A n \in 1 .. Len(down) : down[n] = replied[down[n].msgid]

WaitingOK ==
  /\ waiting \in [Ids -> Calls \cup {Null}]
  /\ \A i \in Ids : waiting[i] # Null => waiting[i] = asked[i]

AnswerTo(c, g) == IF g = Null THEN Null ELSE Reading(c.op, DeserializeMessage(g))

GotOK ==
  /\ got = [i \in Ids |-> got[i]]
  /\ \A i \in Ids : got[i] # Null => replied[i] # Null /\ got[i] = AnswerTo(asked[i], replied[i])

IInv ==
  /\ AskedOK /\ UpOK /\ RepliesOK /\ DownOK /\ WaitingOK /\ GotOK
  /\ GoodStore(stored)
  /\ EndsForCause

LEMMA AskedCall ==
  ASSUME IInv, NEW i \in Ids, asked[i] # Null
  PROVE  asked[i] \in Calls /\ AcceptsCall(asked[i])
BY DEF IInv, AskedOK

(* The answers of the service are those that were sent, read or not.        *)
AnsweredNow ==
  [i \in Ids |->
     CASE got[i] # Null -> got[i]
       [] got[i] = Null /\ replied[i] # Null -> Reading(asked[i].op, DeserializeMessage(replied[i]))
       [] OTHER -> Null]

LEMMA AnsweredIs ==
  ASSUME NEW as, NEW re, NEW go,
         \A i \in Ids : go[i] # Null => re[i] # Null /\ go[i] = AnswerTo(as[i], re[i])
  PROVE  [i \in Ids |->
            CASE go[i] # Null -> go[i]
              [] go[i] = Null /\ re[i] # Null -> Reading(as[i].op, DeserializeMessage(re[i]))
              [] OTHER -> Null]
           = [i \in Ids |-> AnswerTo(as[i], re[i])]
<1> SUFFICES ASSUME NEW i \in Ids
             PROVE  (CASE go[i] # Null -> go[i]
                       [] go[i] = Null /\ re[i] # Null ->
                            Reading(as[i].op, DeserializeMessage(re[i]))
                       [] OTHER -> Null) = AnswerTo(as[i], re[i])
  OBVIOUS
<1>1. CASE go[i] # Null
  BY <1>1
<1>2. CASE go[i] = Null /\ re[i] # Null
  BY <1>2 DEF AnswerTo
<1>3. CASE go[i] = Null /\ re[i] = Null
  BY <1>3 DEF AnswerTo
<1> QED
  BY <1>1, <1>2, <1>3

AnswersOf(as, re) == [j \in Ids |-> AnswerTo(as[j], re[j])]

LEMMA AnsweredAre ==
  ASSUME GotOK
  PROVE  AnsweredNow = AnswersOf(asked, replied)
<1>1. \A j \in Ids : got[j] # Null => replied[j] # Null /\ got[j] = AnswerTo(asked[j], replied[j])
  BY DEF GotOK
<1> QED
  BY <1>1, AnsweredIs DEF AnsweredNow, AnswersOf

LEMMA AnsweredNext ==
  ASSUME GotOK'
  PROVE  AnsweredNow' = AnswersOf(asked', replied')
<1>1. \A j \in Ids :
        got'[j] # Null => replied'[j] # Null /\ got'[j] = AnswerTo(asked'[j], replied'[j])
  BY DEF GotOK
<1> QED
  BY <1>1, AnsweredIs DEF AnsweredNow, AnswersOf

(* The request at the head of the connection.                               *)
LEMMA HeadOfUp ==
  ASSUME IInv, up # << >>
  PROVE  /\ Head(up) \in Frame /\ IsPending(Head(up)) /\ Head(up).msgid \in Ids
         /\ Tail(up) \in Seq(Frame)
         /\ \A n \in 1 .. Len(Tail(up)) :
              IsPending(Tail(up)[n]) /\ Tail(up)[n].msgid # Head(up).msgid
         /\ \A m, n \in 1 .. Len(Tail(up)) : Tail(up)[m].msgid = Tail(up)[n].msgid => m = n
<1>1. up \in Seq(Frame)
  BY DEF IInv, UpOK
<1>2. Len(up) \in Nat /\ 1 \in 1 .. Len(up) /\ Head(up) = up[1]
  BY <1>1, LenProperties
<1>3. /\ Tail(up) \in Seq(Frame) /\ Len(Tail(up)) = Len(up) - 1 /\ Head(up) \in Frame
      /\ \A n \in 1 .. Len(Tail(up)) : Tail(up)[n] = up[n + 1]
  BY <1>1, HeadTailProperties
<1>4. \A n \in 1 .. Len(up) : IsPending(up[n])
  BY DEF IInv, UpOK
<1>5. \A m, n \in 1 .. Len(up) : up[m].msgid = up[n].msgid => m = n
  BY DEF IInv, UpOK
<1>6. \A n \in 1 .. Len(Tail(up)) : n + 1 \in 1 .. Len(up) /\ n + 1 # 1
  BY <1>2, <1>3
<1>7. Head(up).msgid \in Ids
  BY <1>3 DEF Frame
<1>8. IsPending(Head(up))
  BY <1>2, <1>4
<1>9. \A n \in 1 .. Len(Tail(up)) :
        IsPending(Tail(up)[n]) /\ Tail(up)[n].msgid # Head(up).msgid
  BY <1>2, <1>3, <1>4, <1>5, <1>6
<1>10. ASSUME NEW m \in 1 .. Len(Tail(up)), NEW n \in 1 .. Len(Tail(up)),
              Tail(up)[m].msgid = Tail(up)[n].msgid
       PROVE  m = n
  <2>1. m + 1 = n + 1
    BY <1>3, <1>5, <1>6, <1>10
  <2> QED
    BY <1>2, <1>3, <2>1
<1> QED
  BY <1>3, <1>7, <1>8, <1>9, <1>10

(* What is longer than the client accepts has a cause.                      *)
HasLength(op, list) ==
  \/ SizeOf(list) <= BUXTON_MESSAGE_MAX_LENGTH
  \/ op = "LIST_NAMES"
  \/ CarriesOversized(op, list)

(* A reply that can be sent is the answer to the call.                      *)
Answers(i, list) ==
  /\ RepliesOK' /\ DownOK' /\ GotOK' /\ UNCHANGED <<connected, aborted>>
  /\ \A j \in Ids \ {i} : replied'[j] = replied[j]
  /\ AnsweredNow[i] = Null
  /\ AnsweredNow' = [AnsweredNow EXCEPT ![i] = Reading(asked[i].op, list)]

LEMMA ReplyBack ==
  ASSUME NEW list \in Seq(Parameters), Len(list) <= MaxParams, NEW i \in Ids,
         NEW g, g = SerializeMessage("STATUS", i, list)
  PROVE  /\ g \in Frame /\ g # Null /\ g.msgid = i
         /\ DeserializeMessage(g) = list /\ list \in List /\ list # Null
BY MessageBack

LEMMA ReplyStep ==
  ASSUME IInv, NEW f \in Frame, NEW i \in Ids, f.msgid = i,
         asked[i] # Null, replied[i] = Null, UNCHANGED client,
         NEW list \in Seq(Parameters), list # << >>, Len(list) <= MaxParams,
         HasLength(asked[i].op, list),
         Reply(f, list)
  PROVE  Answers(i, list)
<1> PICK g : g = SerializeMessage("STATUS", f.msgid, list)
  OBVIOUS
<1>1. /\ g \in Frame /\ g # Null /\ g.msgid = i
      /\ DeserializeMessage(g) = list /\ list \in List /\ list # Null
  <2>1. g = SerializeMessage("STATUS", i, list)
    OBVIOUS
  <2> QED
    BY <2>1, ReplyBack
<1>2. g.size = SizeOf(list)
  BY MessageOf
<1>3. /\ down' = Append(down, g)
      /\ replied' = [replied EXCEPT ![i] = g]
      /\ UNCHANGED <<aborted, connected>>
  BY <1>1 DEF Reply
<1>4. UNCHANGED <<waiting, broken, asked, got>>
  BY DEF client
<1>5. replied \in [Ids -> Frame \cup {Null}]
  BY DEF IInv, RepliesOK
<1>6. /\ replied' \in [Ids -> Frame \cup {Null}]
      /\ \A j \in Ids : replied'[j] = IF j = i THEN g ELSE replied[j]
  BY <1>1, <1>3, <1>5
<1>7. RepliesOK'
  <2>1. IsReplyTo(g, asked[i])
    BY <1>1, <1>2 DEF IsReplyTo, HasLength
  <2>2. \A j \in Ids : replied'[j] # Null => asked[j] # Null /\ IsReplyTo(replied'[j], asked[j])
    BY <1>6, <2>1 DEF IInv, RepliesOK
  <2> QED
    BY <1>4, <1>6, <2>2 DEF RepliesOK
<1>8. DownOK'
  <2>1. /\ down' \in Seq(Frame) /\ Len(down') = Len(down) + 1
        /\ \A n \in 1 .. Len(down) : down'[n] = down[n]
        /\ down'[Len(down) + 1] = g
    BY <1>1, <1>3, AppendProperties DEF IInv, DownOK
  <2>2. Len(down) \in Nat
    BY LenProperties DEF IInv, DownOK
  <2>3. ASSUME NEW n \in 1 .. Len(down')
        PROVE  down'[n] = replied'[down'[n].msgid]
    <3>1. CASE n = Len(down) + 1
      BY <1>1, <1>6, <2>1, <3>1
    <3>2. CASE n # Len(down) + 1
      <4>1. n \in 1 .. Len(down)
        BY <2>1, <2>2, <3>2
      <4> PICK d : d = down[n]
        OBVIOUS
      <4>2. d \in Frame /\ d = replied[d.msgid]
        BY <4>1, ElementOfSeq DEF IInv, DownOK
      <4>3. d.msgid \in Ids /\ d # Null
        BY <4>2, NullAssumption DEF Frame
      <4>4. replied'[d.msgid] = d
        BY <1>6, <4>2, <4>3
      <4> QED
        BY <2>1, <4>1, <4>4
    <3> QED
      BY <3>1, <3>2
  <2> QED
    BY <2>1, <2>3 DEF DownOK
<1>9. GotOK'
  BY <1>4, <1>6 DEF IInv, GotOK
<1>10. AnsweredNow = AnswersOf(asked, replied)
  BY AnsweredAre DEF IInv
<1>11. AnsweredNow' = AnswersOf(asked', replied')
  BY <1>9, AnsweredNext
<1>12. AnsweredNow[i] = Null
  BY <1>10 DEF AnswersOf, AnswerTo
<1>13. AnswerTo(asked[i], g) = Reading(asked[i].op, list)
  BY <1>1 DEF AnswerTo
<1>14. AnsweredNow' = [AnsweredNow EXCEPT ![i] = Reading(asked[i].op, list)]
  BY <1>4, <1>6, <1>10, <1>11, <1>13 DEF AnswersOf
<1> QED
  BY <1>3, <1>6, <1>7, <1>8, <1>9, <1>12, <1>14 DEF Answers

-----------------------------------------------------------------------------
(* A request the daemon can read, served in this step.                      *)
KvNow == [s \in Slots |-> IF stored[s] = Null THEN Null ELSE Entry(s)]

Facing(f) ==
  /\ IInv /\ f \in Frame
  /\ asked[f.msgid] # Null /\ replied[f.msgid] = Null
  /\ f.code = asked[f.msgid].op /\ ~TooLong(asked[f.msgid])
  /\ UNCHANGED client

Served(i) ==
  /\ RepliesOK' /\ DownOK' /\ GotOK' /\ UNCHANGED <<connected, aborted>>
  /\ \A j \in Ids \ {i} : replied'[j] = replied[j]
  /\ GoodStore(stored)'
  /\ AnsweredNow[i] = Null
  /\ Service!Serve(i, asked[i])

LEMMA FacingCall ==
  ASSUME NEW f, Facing(f)
  PROVE  /\ f.msgid \in Ids /\ f \in Frame /\ GoodStore(stored)
         /\ asked[f.msgid] \in Calls /\ AcceptsCall(asked[f.msgid])
<1>1. f.msgid \in Ids /\ f \in Frame
  BY DEF Facing, Frame
<1> QED
  BY <1>1, AskedCall DEF Facing, IInv

LEMMA KvIsView ==
  KvNow = View(stored) /\ KvNow' = View(stored')
BY DEF KvNow, View, Entry

(* What the daemon finds is what the service holds.                         *)
LEMMA KvHolds ==
  ASSUME GoodStore(stored), NEW s
  PROVE  /\ Service!Present(s) <=> Holds(s)
         /\ Holds(s) => s \in Slots /\ KvNow[s] = Entry(s) /\ GoodEntry(Entry(s))
<1>1. s \in Slots => (KvNow[s] # Null <=> stored[s] # Null)
  BY ViewHolds, KvIsView
<1>2. Holds(s) => s \in Slots /\ KvNow[s] = Entry(s) /\ GoodEntry(Entry(s))
  BY ViewHolds, KvIsView DEF Holds, Entry
<1>3. Service!Present(s) <=> s \in Slots /\ KvNow[s] # Null
  BY DEF Service!Present, KvNow
<1> QED
  BY <1>1, <1>2, <1>3 DEF Holds

(* What the callbacks find in the replies.                                  *)
LEMMA Readings ==
  ASSUME NEW op, NEW d
  PROVE  /\ Reading(op, <<Status(-1)>>) = [op |-> op, status |-> "failed", data |-> << >>]
         /\ op = "UNNOTIFY" =>
              Reading(op, <<Status(-1), d>>) = [op |-> op, status |-> "failed", data |-> << >>]
         /\ op \notin {"GET", "GET_LABEL", "LIST_NAMES"} =>
              /\ Reading(op, <<Status(0)>>) = [op |-> op, status |-> "ok", data |-> << >>]
              /\ Reading(op, <<Status(0), d>>) = [op |-> op, status |-> "ok", data |-> << >>]
         /\ op \in {"GET", "GET_LABEL"} =>
              Reading(op, <<Status(0), d>>) = [op |-> op, status |-> "ok", data |-> <<d>>]
<1>1. \A n \in Int : ResponseValue(<<Status(n)>>) = << >> /\ ResponseNames(<<Status(n)>>) = << >>
  BY DEF ResponseValue, ResponseNames
<1>2. \A n \in Int : ResponseValue(<<Status(n), d>>) = <<d>>
  BY DEF ResponseValue
<1>3. /\ ResponseStatus(<<Status(0)>>) = "ok" /\ ResponseStatus(<<Status(0), d>>) = "ok"
      /\ ResponseStatus(<<Status(-1)>>) = "failed" /\ ResponseStatus(<<Status(-1), d>>) = "failed"
  BY DEF ResponseStatus, Status, Data
<1>4. Reading(op, <<Status(-1)>>) = [op |-> op, status |-> "failed", data |-> << >>]
  <2>1. CASE op \in {"GET", "GET_LABEL"}
    BY <1>1, <1>3, <2>1 DEF Reading
  <2>2. CASE op = "LIST_NAMES"
    BY <1>1, <1>3, <2>2 DEF Reading
  <2>3. CASE op \notin {"GET", "GET_LABEL", "LIST_NAMES"}
    BY <1>3, <2>3 DEF Reading
  <2> QED
    BY <2>1, <2>2, <2>3
<1>5. op = "UNNOTIFY" =>
        Reading(op, <<Status(-1), d>>) = [op |-> op, status |-> "failed", data |-> << >>]
  BY <1>3 DEF Reading
<1>6. op \notin {"GET", "GET_LABEL", "LIST_NAMES"} =>
        /\ Reading(op, <<Status(0)>>) = [op |-> op, status |-> "ok", data |-> << >>]
        /\ Reading(op, <<Status(0), d>>) = [op |-> op, status |-> "ok", data |-> << >>]
  BY <1>3 DEF Reading
<1>7. op \in {"GET", "GET_LABEL"} =>
        Reading(op, <<Status(0), d>>) = [op |-> op, status |-> "ok", data |-> <<d>>]
  BY <1>2, <1>3 DEF Reading
<1> QED
  BY <1>4, <1>5, <1>6, <1>7

(* The daemon's reply is the service's answer.                              *)
LEMMA AnswerStep ==
  ASSUME NEW f, Facing(f), NEW list \in Seq(Parameters), list # << >>, Len(list) <= MaxParams,
         HasLength(asked[f.msgid].op, list),
         Reply(f, list), NEW status, NEW data,
         Reading(asked[f.msgid].op, list)
           = [op |-> asked[f.msgid].op, status |-> status, data |-> data],
         GoodStore(stored')
  PROVE  /\ Service!Answer(f.msgid, status, data)
         /\ Service!Serve(f.msgid, asked[f.msgid]) => Served(f.msgid)
<1> DEFINE i == f.msgid
<1>0. i \in Ids
  BY FacingCall
<1>1. Answers(i, list)
  BY <1>0, ReplyStep DEF Facing
<1>2. Service!Answer(i, status, data)
  BY <1>1 DEF Answers, Service!Answer, AnsweredNow
<1>3. Service!Serve(i, asked[i]) => Served(i)
  BY <1>1 DEF Answers, Served
<1> QED
  BY <1>2, <1>3

LEMMA StatusStep ==
  ASSUME NEW f, Facing(f), NEW n \in {0, -1}, Reply(f, <<Status(n)>>), GoodStore(stored'),
         n = 0 => asked[f.msgid].op \notin {"GET", "GET_LABEL", "LIST_NAMES"}
  PROVE  /\ Service!Answer(f.msgid, IF n = 0 THEN "ok" ELSE "failed", << >>)
         /\ Service!Serve(f.msgid, asked[f.msgid]) => Served(f.msgid)
<1> PICK op : op = asked[f.msgid].op
  OBVIOUS
<1> PICK list : list = <<Status(n)>>
  OBVIOUS
<1>1. /\ list \in Seq(Parameters) /\ Len(list) = 1 /\ SizeOf(list) <= BUXTON_MESSAGE_MAX_LENGTH
      /\ list # << >>
  BY ShortReplies
<1>2. Len(list) <= MaxParams /\ HasLength(op, list)
  BY <1>1, RoomForFour DEF HasLength
<1>3. Reading(op, list) = [op |-> op, status |-> IF n = 0 THEN "ok" ELSE "failed", data |-> << >>]
  BY Readings
<1> QED
  BY <1>1, <1>2, <1>3, AnswerStep

LEMMA OkStep ==
  ASSUME NEW f, Facing(f), Reply(f, <<Status(0)>>), GoodStore(stored'),
         asked[f.msgid].op \notin {"GET", "GET_LABEL", "LIST_NAMES"}
  PROVE  /\ Service!Answer(f.msgid, "ok", << >>)
         /\ Service!Serve(f.msgid, asked[f.msgid]) => Served(f.msgid)
BY StatusStep

LEMMA NamesStep ==
  ASSUME NEW f, Facing(f), NEW list \in Seq(Parameters), list # << >>, Len(list) <= MaxParams,
         asked[f.msgid].op = "LIST_NAMES", Reply(f, list), NEW data,
         ResponseStatus(list) = "ok", ResponseNames(list) = data, GoodStore(stored')
  PROVE  /\ Service!Answer(f.msgid, "ok", data)
         /\ Service!Serve(f.msgid, asked[f.msgid]) => Served(f.msgid)
<1>1. Reading(asked[f.msgid].op, list) = [op |-> asked[f.msgid].op, status |-> "ok", data |-> data]
  BY DEF Reading
<1>2. HasLength(asked[f.msgid].op, list)
  BY DEF HasLength
<1> QED
  BY <1>1, <1>2, AnswerStep

LEMMA ValueStep ==
  ASSUME NEW f, Facing(f), NEW n \in {0, -1}, NEW d \in Parameters,
         \/ Bytes(d) <= Room
         \/ asked[f.msgid].op # "UNNOTIFY" /\ d.type = "STRING" /\ d.value \in Oversized,
         Reply(f, <<Status(n), d>>), GoodStore(stored'),
         \/ n = 0 /\ asked[f.msgid].op \in {"GET", "GET_LABEL", "UNNOTIFY"}
         \/ asked[f.msgid].op = "UNNOTIFY",
         NEW status, status = IF n = 0 THEN "ok" ELSE "failed",
         NEW data, data = IF asked[f.msgid].op = "UNNOTIFY" THEN << >> ELSE <<d>>
  PROVE  /\ Service!Answer(f.msgid, status, data)
         /\ Service!Serve(f.msgid, asked[f.msgid]) => Served(f.msgid)
<1> PICK op : op = asked[f.msgid].op
  OBVIOUS
<1> PICK list : list = <<Status(n), d>>
  OBVIOUS
<1>1. /\ list \in Seq(Parameters) /\ Len(list) = 2 /\ list # << >>
      /\ HasLength(op, list)
  <2>1. n \in Int
    OBVIOUS
  <2>2. /\ <<Status(n), d>> \in Seq(Parameters) /\ Len(<<Status(n), d>>) = 2
        /\ Bytes(d) <= Room => SizeOf(<<Status(n), d>>) <= BUXTON_MESSAGE_MAX_LENGTH
    BY <2>1, ShortReplies
  <2>3. list[2] = d
    OBVIOUS
  <2>4. ~(Bytes(d) <= Room) => CarriesOversized(op, list)
    BY <2>2, <2>3 DEF CarriesOversized
  <2> QED
    BY <2>2, <2>4 DEF HasLength
<1>2. Len(list) <= MaxParams
  BY <1>1, RoomForFour
<1>3. Reading(op, list) = [op |-> op, status |-> status, data |-> data]
  BY Readings
<1>4. /\ Service!Answer(f.msgid, status, data)
      /\ Service!Serve(f.msgid, asked[f.msgid]) => Served(f.msgid)
  BY <1>1, <1>2, <1>3, AnswerStep
<1> QED
  BY <1>4

-----------------------------------------------------------------------------
(* Each handler does what the service promises of the call.                 *)

(* Where the request finds its key.                                         *)
LEMMA SlotOf ==
  ASSUME NEW c, c.op \notin {"NOTIFY", "UNNOTIFY"}
  PROVE  Slot(KeyOf(c)) = <<c.layer, c.group, c.name>> /\ Service!Slot(c) = <<c.layer, c.group, c.name>>
BY DEF Slot, KeyOf, Request, Service!Slot

LEMMA RefuseStep ==
  ASSUME NEW f, Facing(f), Refuse(f)
  PROVE  Served(f.msgid)
<1> DEFINE i == f.msgid
           c == asked[i]
           d == Data("UINT32", 0)
<1>1. stored' = stored /\ GoodStore(stored') /\ KvNow' = KvNow /\ f.code = c.op
  BY FacingCall, KvIsView DEF Refuse, Facing
<1>2. Service!Answer(i, "failed", << >>) => Service!Serve(i, asked[i])
  BY <1>1 DEF Service!Serve, Service!Fail, KvNow
<1>3. CASE c.op = "UNNOTIFY"
  <2>1. Reply(f, <<Status(-1)>> \o <<d>>)
    BY <1>1, <1>3 DEF Refuse
  <2> PICK s : s = Status(-1)
    OBVIOUS
  <2>2. <<s>> \o <<d>> = <<s, d>>
    BY OneAndOne
  <2>3. Reply(f, <<Status(-1), d>>)
    BY <2>1, <2>2
  <2>4. d \in Parameters /\ Bytes(d) = 4
    BY DEF Data, Parameters, ValueTypes, WordTypes, LongTypes, Contents, Bytes
  <2>5. Bytes(d) <= Room
    BY <2>4 DEF Room, BUXTON_MESSAGE_MAX_LENGTH, HeaderLength
  <2> HIDE DEF d
  <2>6. Service!Answer(i, "failed", << >>) /\ (Service!Serve(i, asked[i]) => Served(i))
    BY <1>1, <1>3, <2>3, <2>4, <2>5, ValueStep
  <2> QED
    BY <1>2, <2>6
<1>4. CASE c.op # "UNNOTIFY"
  <2>1. Reply(f, <<Status(-1)>> \o << >>)
    BY <1>1, <1>4 DEF Refuse
  <2> PICK s : s = Status(-1)
    OBVIOUS
  <2>2. <<s>> \o << >> = <<s>>
    OBVIOUS
  <2>3. Reply(f, <<Status(-1)>>)
    BY <2>1, <2>2
  <2>4. Service!Answer(i, "failed", << >>) /\ (Service!Serve(i, asked[i]) => Served(i))
    BY <1>1, <2>3, StatusStep
  <2> QED
    BY <1>2, <2>4
<1> QED
  BY <1>3, <1>4

LEMMA SetValueStep ==
  ASSUME NEW f, Facing(f), SetValue(f, KeyOf(asked[f.msgid]))
  PROVE  Served(f.msgid)
<1> DEFINE i == f.msgid
<1> PICK c : c = asked[i]
  OBVIOUS
<1> PICK k : k = KeyOf(c)
  OBVIOUS
<1> PICK t : t = Slot(k)
  OBVIOUS
<1>1. c.op = "SET" /\ c \in Calls /\ AcceptsCall(c) /\ ~TooLong(c)
  BY FacingCall DEF SetValue, Facing
<1>2. t \in Slots /\ Service!Slot(c) = t
  BY <1>1, SlotOf DEF SetValue
<1>3. k.type = c.type /\ k.value = c.value
  BY <1>1 DEF KeyOf, Request
<1>4. GoodStore(stored)
  BY FacingCall
<1>5. PICK label \in IF Holds(t) THEN {Entry(t).label} ELSE Labels :
        stored' = [stored EXCEPT ![t] = Serialize(Data(k.type, k.value), label)]
  BY DEF SetValue
<1> DEFINE e == [data |-> Data(c.type, c.value), label |-> label]
<1>6. MayBeStored(label)
  <2>1. CASE Holds(t)
    BY <1>4, <1>5, <2>1, KvHolds DEF GoodEntry
  <2>2. CASE ~Holds(t)
    BY <1>5, <2>2, WireAssumption DEF MayBeStored
  <2> QED
    BY <2>1, <2>2
<1>7. GoodEntry(e)
  <2>1. label \in Strings
    BY <1>6 DEF MayBeStored, Fits, Oversized
  <2> QED
    BY <1>1, <1>6, <2>1, CallType, ValueFits DEF GoodEntry, IsEntry, IsContent, Data, MayBeStored
<1>8. stored' = [stored EXCEPT ![t] = Serialize(e.data, e.label)]
  BY <1>3, <1>5
<1>9. GoodStore(stored') /\ View(stored') = [View(stored) EXCEPT ![t] = e]
  <2> HIDE DEF e
  <2> QED
    BY <1>2, <1>4, <1>7, <1>8, ViewPut
<1>10. Reply(f, <<Status(0)>>)
  BY DEF SetValue
<1>11. Service!Answer(i, "ok", << >>) /\ (Service!Serve(i, asked[i]) => Served(i))
  BY <1>1, <1>9, <1>10, OkStep
<1>12. label \in IF Service!Present(t) THEN {KvNow[t].label} ELSE Labels
  BY <1>4, <1>5, KvHolds
<1>13. Service!Set(i, asked[i])
  <2>1. KvNow' = [KvNow EXCEPT ![t] = e]
    BY <1>9, KvIsView
  <2> QED
    BY <1>2, <1>11, <1>12, <2>1 DEF Service!Set, Service!Data, Data, KvNow
<1> QED
  BY <1>1, <1>11, <1>13 DEF Service!Serve

LEMMA SetLabelStep ==
  ASSUME NEW f, Facing(f), SetLabel(f, KeyOf(asked[f.msgid]))
  PROVE  Served(f.msgid)
<1> DEFINE i == f.msgid
<1> PICK c : c = asked[i]
  OBVIOUS
<1> PICK k : k = KeyOf(c)
  OBVIOUS
<1> PICK t : t = Slot(k)
  OBVIOUS
<1>1. c.op = "SET_LABEL" /\ c \in Calls /\ AcceptsCall(c) /\ ~TooLong(c)
  BY FacingCall DEF SetLabel, Facing
<1>2. Service!Slot(c) = t /\ Holds(t) /\ k.value = c.value
  BY <1>1, SlotOf DEF SetLabel, KeyOf, Request
<1>3. GoodStore(stored)
  BY FacingCall
<1>4. t \in Slots /\ KvNow[t] = Entry(t) /\ GoodEntry(Entry(t)) /\ Service!Present(t)
  BY <1>2, <1>3, KvHolds
<1> PICK old : old = Entry(t)
  OBVIOUS
<1> DEFINE e == [data |-> old.data, label |-> c.value]
<1>5. GoodEntry(e)
  BY <1>1, <1>4, ValueFits DEF GoodEntry, IsEntry, MayBeStored, Fits
<1>6. stored' = [stored EXCEPT ![t] = Serialize(e.data, e.label)]
  BY <1>2 DEF SetLabel
<1>7. GoodStore(stored') /\ View(stored') = [View(stored) EXCEPT ![t] = e]
  <2>1. t \in Slots
    BY <1>4
  <2> HIDE DEF e
  <2> QED
    BY <1>3, <1>5, <1>6, <2>1, ViewPut
<1>8. Reply(f, <<Status(0)>>)
  BY DEF SetLabel
<1>9. Service!Answer(i, "ok", << >>) /\ (Service!Serve(i, asked[i]) => Served(i))
  BY <1>1, <1>7, <1>8, OkStep
<1>10. e = [old EXCEPT !.label = c.value]
  BY <1>4, EntryType DEF GoodEntry, Entries
<1>11. KvNow' = [KvNow EXCEPT ![t].label = c.value]
  BY <1>4, <1>7, <1>10, KvIsView
<1>12. Service!SetLabel(i, asked[i])
  BY <1>2, <1>4, <1>9, <1>11 DEF Service!SetLabel, KvNow
<1> QED
  BY <1>1, <1>9, <1>12 DEF Service!Serve

LEMMA CreateGroupStep ==
  ASSUME NEW f, Facing(f), CreateGroup(f, KeyOf(asked[f.msgid]))
  PROVE  Served(f.msgid)
<1> DEFINE i == f.msgid
<1> PICK c : c = asked[i]
  OBVIOUS
<1> PICK t : t = Slot(KeyOf(c))
  OBVIOUS
<1>1. c.op = "CREATE_GROUP"
  BY DEF CreateGroup, Facing
<1>2. Service!Slot(c) = t /\ t \in Slots /\ ~Holds(t)
  BY <1>1, SlotOf DEF CreateGroup
<1>3. GoodStore(stored)
  BY FacingCall
<1>4. PICK label \in Labels : stored' = [stored EXCEPT ![t] = Serialize(GroupData, label)]
  BY DEF CreateGroup
<1> DEFINE e == [data |-> GroupData, label |-> label]
<1>5. GoodEntry(e)
  BY <1>4, WireAssumption DEF GoodEntry, MayBeStored
<1>6. stored' = [stored EXCEPT ![t] = Serialize(e.data, e.label)]
  BY <1>4
<1>7. GoodStore(stored') /\ View(stored') = [View(stored) EXCEPT ![t] = e]
  <2> HIDE DEF e
  <2> QED
    BY <1>2, <1>3, <1>5, <1>6, ViewPut
<1>8. Reply(f, <<Status(0)>>)
  BY DEF CreateGroup
<1>9. Service!Answer(i, "ok", << >>) /\ (Service!Serve(i, asked[i]) => Served(i))
  BY <1>1, <1>7, <1>8, OkStep
<1>10. KvNow' = [KvNow EXCEPT ![t] = e] /\ ~Service!Present(t)
  BY <1>2, <1>3, <1>7, KvIsView, KvHolds
<1>11. Service!CreateGroup(i, asked[i])
  BY <1>2, <1>4, <1>9, <1>10 DEF Service!CreateGroup, KvNow
<1> QED
  BY <1>1, <1>9, <1>11 DEF Service!Serve

LEMMA RemoveGroupStep ==
  ASSUME NEW f, Facing(f), RemoveGroup(f, KeyOf(asked[f.msgid]))
  PROVE  Served(f.msgid)
<1> DEFINE i == f.msgid
<1> PICK c : c = asked[i]
  OBVIOUS
<1> PICK k : k = KeyOf(c)
  OBVIOUS
<1> PICK t : t = Slot(k)
  OBVIOUS
<1>1. c.op = "REMOVE_GROUP"
  BY DEF RemoveGroup, Facing
<1>2. Service!Slot(c) = t /\ Holds(t) /\ k.layer = c.layer /\ k.group = c.group
  BY <1>1, SlotOf DEF RemoveGroup, KeyOf, Request
<1>3. GoodStore(stored)
  BY FacingCall
<1>4. PICK gone \in {{t}, {s \in Slots : s[1] = k.layer /\ s[2] = k.group}} :
        stored' = [s \in Slots |-> IF s \in gone THEN Null ELSE stored[s]]
  BY DEF RemoveGroup
<1>5. /\ GoodStore(stored')
      /\ View(stored') = [s \in Slots |-> IF s \in gone THEN Null ELSE View(stored)[s]]
  BY <1>3, <1>4, ViewErase
<1>6. Reply(f, <<Status(0)>>)
  BY DEF RemoveGroup
<1>7. Service!Answer(i, "ok", << >>) /\ (Service!Serve(i, asked[i]) => Served(i))
  BY <1>1, <1>5, <1>6, OkStep
<1>8. KvNow' = [s \in Slots |-> IF s \in gone THEN Null ELSE KvNow[s]]
  BY <1>5, KvIsView
<1>9. Service!Present(t)
  BY <1>2, <1>3, KvHolds
<1>10. gone \in {{t}, {s \in Slots : s[1] = c.layer /\ s[2] = c.group}}
  BY <1>2, <1>4
<1>11. Service!RemoveGroup(i, asked[i])
  BY <1>2, <1>7, <1>8, <1>9, <1>10 DEF Service!RemoveGroup, KvNow
<1> QED
  BY <1>1, <1>7, <1>11 DEF Service!Serve

LEMMA UnsetStep ==
  ASSUME NEW f, Facing(f), UnsetValue(f, KeyOf(asked[f.msgid]))
  PROVE  Served(f.msgid)
<1> DEFINE i == f.msgid
<1> PICK c : c = asked[i]
  OBVIOUS
<1> PICK t : t = Slot(KeyOf(c))
  OBVIOUS
<1>1. c.op = "UNSET"
  BY DEF UnsetValue, Facing
<1>2. Service!Slot(c) = t /\ Holds(t)
  BY <1>1, SlotOf DEF UnsetValue
<1>3. GoodStore(stored)
  BY FacingCall
<1>4. stored' = [stored EXCEPT ![t] = Null]
  BY DEF UnsetValue
<1>5. stored' = [s \in Slots |-> IF s \in {t} THEN Null ELSE stored[s]]
  BY <1>3, <1>4 DEF GoodStore
<1>6. /\ GoodStore(stored')
      /\ View(stored') = [s \in Slots |-> IF s \in {t} THEN Null ELSE View(stored)[s]]
  BY <1>3, <1>5, ViewErase
<1>7. Reply(f, <<Status(0)>>)
  BY DEF UnsetValue
<1>8. Service!Answer(i, "ok", << >>) /\ (Service!Serve(i, asked[i]) => Served(i))
  BY <1>1, <1>6, <1>7, OkStep
<1>9. View(stored) = [s \in Slots |-> View(stored)[s]]
  BY DEF View
<1>10. View(stored') = [View(stored) EXCEPT ![t] = Null]
  BY <1>6, <1>9
<1>11. KvNow' = [KvNow EXCEPT ![t] = Null]
  BY <1>10, KvIsView
<1>12. Service!Present(t)
  BY <1>2, <1>3, KvHolds
<1>13. Service!Unset(i, asked[i])
  BY <1>2, <1>8, <1>11, <1>12 DEF Service!Unset, KvNow
<1> QED
  BY <1>1, <1>8, <1>13 DEF Service!Serve

(* What get_value may find is what may be read.                             *)
LEMMA FoundIsReadable ==
  ASSUME GoodStore(stored), NEW k, NEW c, NEW s \in Found(k),
         k.layer = c.layer, k.group = c.group, k.name = c.name, k.type = c.type
  PROVE  s \in Slots /\ Service!Readable(s, c) /\ Holds(s) /\ KvNow[s] = Entry(s) /\ GoodEntry(Entry(s))
<1>1. /\ s \in Slots /\ Holds(s) /\ s[2] = k.group /\ s[3] = k.name /\ k.layer \in {Null, s[1]}
      /\ k.type \in {"UNSET", Entry(s).data.type}
  BY DEF Found
<1>2. Service!Present(s) /\ KvNow[s] = Entry(s) /\ GoodEntry(Entry(s))
  BY <1>1, KvHolds
<1>3. Service!Readable(s, c)
  BY <1>1, <1>2 DEF Service!Readable, KvNow
<1> QED
  BY <1>1, <1>2, <1>3

(* Whatever came in a message can be sent.                                  *)
CanBeSent(d) ==
  d \in Parameters /\ (Bytes(d) <= Room \/ (d.type = "STRING" /\ d.value \in Oversized))

LEMMA EntrySize ==
  ASSUME NEW e, GoodEntry(e)
  PROVE  CanBeSent(e.data) /\ CanBeSent(String(e.label))
<1>1. /\ e.data \in Parameters /\ (e.data.type = "STRING" => MayBeStored(e.data.value))
      /\ MayBeStored(e.label) /\ e.label \in Strings /\ e.data.type \in ValueTypes
  BY EntryType DEF GoodEntry, Entries
<1>2. \A v : Fits(v) => v \in Strings /\ StringLength(v) <= Room
  BY NullAssumption DEF Fits, StringLength
<1>3. CanBeSent(e.data)
  <2>1. CASE e.data.type = "STRING"
    BY <1>1, <1>2, <2>1, BytesOf DEF CanBeSent, MayBeStored
  <2>2. CASE e.data.type # "STRING"
    <3>1. Bytes(e.data) \in {1, 4, 8}
      BY <1>1, <2>2 DEF Bytes, ValueTypes, WordTypes, LongTypes
    <3> QED
      BY <1>1, <3>1 DEF CanBeSent, Room, BUXTON_MESSAGE_MAX_LENGTH, HeaderLength
  <2> QED
    BY <2>1, <2>2
<1>4. CanBeSent(String(e.label))
  <2>1. String(e.label) \in Parameters
    BY <1>1, StringIsParameter
  <2>2. /\ Bytes(String(e.label)) = StringLength(e.label)
        /\ String(e.label).type = "STRING" /\ String(e.label).value = e.label
    BY DEF Bytes, String, Data, WordTypes, LongTypes
  <2> QED
    BY <1>1, <1>2, <2>1, <2>2 DEF CanBeSent, MayBeStored
<1> QED
  BY <1>3, <1>4

LEMMA SteadyStore ==
  ASSUME NEW f, Facing(f), UNCHANGED stored
  PROVE  GoodStore(stored') /\ KvNow' = KvNow
BY FacingCall, KvIsView

LEMMA GetValueStep ==
  ASSUME NEW f, Facing(f), GetValue(f, KeyOf(asked[f.msgid]))
  PROVE  Served(f.msgid)
<1> DEFINE i == f.msgid
<1> PICK c : c = asked[i]
  OBVIOUS
<1> PICK k : k = KeyOf(c)
  OBVIOUS
<1>1. c.op = "GET" /\ UNCHANGED stored
  BY DEF GetValue, Facing
<1>2. k.layer = c.layer /\ k.group = c.group /\ k.name = c.name /\ k.type = c.type
  BY <1>1 DEF KeyOf, Request
<1>3. GoodStore(stored) /\ GoodStore(stored') /\ KvNow' = KvNow
  BY <1>1, FacingCall, SteadyStore
<1>4. PICK s \in Found(k) : Reply(f, <<Status(0), Entry(s).data>>)
  BY DEF GetValue
<1>5. s \in Slots /\ Service!Readable(s, c) /\ KvNow[s] = Entry(s) /\ GoodEntry(Entry(s))
  BY <1>2, <1>3, FoundIsReadable
<1> PICK d : d = Entry(s).data
  OBVIOUS
<1>6. CanBeSent(d) /\ Reply(f, <<Status(0), d>>)
  BY <1>4, <1>5, EntrySize
<1>7. Service!Answer(i, "ok", <<d>>) /\ (Service!Serve(i, asked[i]) => Served(i))
  BY <1>1, <1>3, <1>6, ValueStep DEF CanBeSent
<1>8. Service!Get(i, asked[i])
  <2>1. Service!Readable(s, asked[i])
    BY <1>5
  <2>2. Service!Answer(i, "ok", <<KvNow[s].data>>)
    BY <1>5, <1>7 DEF Service!Answer
  <2> QED
    BY <1>3, <1>5, <2>1, <2>2 DEF Service!Get, Service!Answer, KvNow
<1> QED
  BY <1>1, <1>7, <1>8 DEF Service!Serve

LEMMA GetLabelStep ==
  ASSUME NEW f, Facing(f), GetLabel(f, KeyOf(asked[f.msgid]))
  PROVE  Served(f.msgid)
<1> DEFINE i == f.msgid
<1> PICK c : c = asked[i]
  OBVIOUS
<1> PICK k : k = KeyOf(c)
  OBVIOUS
<1>1. c.op = "GET_LABEL" /\ UNCHANGED stored /\ c \in Calls /\ AcceptsCall(c)
  BY FacingCall DEF GetLabel, Facing
<1>2. k.layer = c.layer /\ k.group = c.group /\ k.name = c.name /\ k.type = "UNSET"
  BY <1>1 DEF KeyOf, Request
<1>3. GoodStore(stored) /\ GoodStore(stored') /\ KvNow' = KvNow
  BY <1>1, FacingCall, SteadyStore
<1>4. PICK s \in Found(k) : Reply(f, <<Status(0), String(Entry(s).label)>>)
  BY DEF GetLabel
<1>5. /\ s \in Slots /\ Holds(s) /\ s[2] = c.group /\ s[3] = c.name /\ c.layer \in {Null, s[1]}
  BY <1>2, <1>4 DEF Found
<1>6. s = Service!Slot(c)
  <2>1. c.layer # Null
    BY <1>1 DEF AcceptsCall, CanReadLabel
  <2>2. s = <<s[1], s[2], s[3]>>
    BY <1>5, WireAssumption
  <2> QED
    BY <1>1, <1>5, <2>1, <2>2, SlotOf
<1>7. Service!Present(s) /\ KvNow[s] = Entry(s) /\ GoodEntry(Entry(s))
  BY <1>3, <1>5, KvHolds
<1> PICK d : d = String(Entry(s).label)
  OBVIOUS
<1>8. CanBeSent(d) /\ Reply(f, <<Status(0), d>>)
  BY <1>4, <1>7, EntrySize
<1>9. Service!Answer(i, "ok", <<d>>) /\ (Service!Serve(i, asked[i]) => Served(i))
  BY <1>1, <1>3, <1>8, ValueStep DEF CanBeSent
<1>10. d = Service!Data("STRING", KvNow[s].label)
  BY <1>7 DEF String, Data, Service!Data
<1>11. Service!GetLabel(i, asked[i])
  <2>1. s = Service!Slot(asked[i])
    BY <1>6
  <2>2. Service!Present(Service!Slot(asked[i]))
    BY <1>7, <2>1
  <2>3. Service!Answer(i, "ok", <<Service!Data("STRING", KvNow[Service!Slot(asked[i])].label)>>)
    BY <1>9, <1>10, <2>1 DEF Service!Answer
  <2> QED
    BY <1>3, <2>2, <2>3 DEF Service!GetLabel, KvNow
<1> QED
  BY <1>1, <1>9, <1>11 DEF Service!Serve

LEMMA RegisterStep ==
  ASSUME NEW f, Facing(f), RegisterNotification(f, KeyOf(asked[f.msgid]))
  PROVE  Served(f.msgid)
<1> DEFINE i == f.msgid
<1> PICK c : c = asked[i]
  OBVIOUS
<1> PICK k : k = KeyOf(c)
  OBVIOUS
<1> PICK anywhere : anywhere = [c EXCEPT !.layer = Null]
  OBVIOUS
<1>1. c.op = "NOTIFY" /\ UNCHANGED stored /\ Found(k) # {} /\ c \in Calls /\ AcceptsCall(c)
  BY FacingCall DEF RegisterNotification, Facing
<1>2. k.layer = Null /\ k.group = c.group /\ k.name = c.name /\ k.type = c.type
  BY <1>1 DEF KeyOf, Request
<1>3. GoodStore(stored) /\ GoodStore(stored') /\ KvNow' = KvNow
  BY <1>1, FacingCall, SteadyStore
<1>4. /\ anywhere.layer = Null /\ anywhere.group = c.group /\ anywhere.name = c.name
      /\ anywhere.type = c.type
  BY <1>1, CallType
<1> PICK s \in Found(k) : TRUE
  BY <1>1
<1>5. s \in Slots /\ Service!Readable(s, anywhere)
  BY <1>2, <1>3, <1>4, FoundIsReadable
<1>6. Reply(f, <<Status(0)>>)
  BY DEF RegisterNotification
<1>7. Service!Answer(i, "ok", << >>) /\ (Service!Serve(i, asked[i]) => Served(i))
  BY <1>1, <1>3, <1>6, OkStep
<1>8. Service!Register(i, asked[i])
  BY <1>3, <1>5, <1>7 DEF Service!Register, KvNow
<1> QED
  BY <1>1, <1>7, <1>8 DEF Service!Serve

LEMMA UnregisterStep ==
  ASSUME NEW f, Facing(f), UnregisterNotification(f, KeyOf(asked[f.msgid]))
  PROVE  Served(f.msgid)
<1> DEFINE i == f.msgid
<1>1. asked[i].op = "UNNOTIFY" /\ UNCHANGED stored
  BY DEF UnregisterNotification, Facing
<1>2. GoodStore(stored') /\ KvNow' = KvNow
  BY <1>1, SteadyStore
<1>3. PICK msgid \in Ids : Reply(f, <<Status(0), Data("UINT32", msgid)>>)
  BY DEF UnregisterNotification
<1> PICK d : d = Data("UINT32", msgid)
  OBVIOUS
<1>4. d \in Parameters /\ Bytes(d) = 4
  BY DEF Data, Parameters, ValueTypes, WordTypes, LongTypes, Contents, Bytes
<1>5. Bytes(d) <= Room /\ Reply(f, <<Status(0), d>>)
  BY <1>3, <1>4 DEF Room, BUXTON_MESSAGE_MAX_LENGTH, HeaderLength
<1>6. Service!Answer(i, "ok", << >>) /\ (Service!Serve(i, asked[i]) => Served(i))
  BY <1>1, <1>2, <1>4, <1>5, ValueStep
<1>7. Service!Register(i, asked[i])
  BY <1>1, <1>2, <1>6 DEF Service!Register, KvNow
<1> QED
  BY <1>1, <1>6, <1>7 DEF Service!Serve

(* What stands behind the first element of a list.                          *)
LEMMA TailOfCons ==
  ASSUME NEW T, NEW x \in T, NEW q \in Seq(T), NEW list, list = <<x>> \o q
  PROVE  /\ list \in Seq(T) /\ Len(list) = Len(q) + 1 /\ list[1] = x /\ list # << >>
         /\ Tail(list) = q
<1>1. <<x>> \in Seq(T) /\ Len(<<x>>) = 1 /\ <<x>>[1] = x
  OBVIOUS
<1>2. Len(q) \in Nat
  BY LenProperties
<1>3. /\ list \in Seq(T) /\ Len(list) = 1 + Len(q)
      /\ \A i \in 1 .. 1 + Len(q) : list[i] = IF i <= 1 THEN <<x>>[i] ELSE q[i - 1]
  BY <1>1, ConcatProperties
<1>4. list # << >> /\ list[1] = x
  BY <1>1, <1>2, <1>3
<1>5. /\ Tail(list) \in Seq(T) /\ Len(Tail(list)) = Len(q)
      /\ \A i \in 1 .. Len(Tail(list)) : Tail(list)[i] = list[i + 1]
  BY <1>2, <1>3, <1>4, HeadTailProperties
<1>6. \A i \in 1 .. Len(q) : list[i + 1] = q[i]
  <2> TAKE i \in 1 .. Len(q)
  <2>1. i + 1 \in 1 .. 1 + Len(q) /\ ~(i + 1 <= 1) /\ (i + 1) - 1 = i
    BY <1>2
  <2> QED
    BY <1>3, <2>1
<1>7. Tail(list) = q
  BY <1>5, <1>6, SeqEqual
<1> QED
  BY <1>2, <1>3, <1>4, <1>7

LEMMA FunctionIsSeq ==
  ASSUME NEW T, NEW m \in Nat, NEW q \in [1 .. m -> T]
  PROVE  q \in Seq(T)
BY SeqDef

(* A sequence of a finite set names each of its elements.                   *)
LEMMA NamesAll ==
  ASSUME NEW S, IsFiniteSet(S), NEW f \in SetToSeqs(S)
  PROVE  /\ Cardinality(S) \in Nat /\ f \in [1 .. Cardinality(S) -> S]
         /\ \A x \in S : \E j \in 1 .. Cardinality(S) : f[j] = x
<1> DEFINE D == 1 .. Cardinality(S)
<1>1. Cardinality(S) \in Nat
  BY FS_CardinalityType
<1>2. f \in [D -> S] /\ \A i, j \in D : i # j => f[i] # f[j]
  BY DEF SetToSeqs
<1>3. IsFiniteSet(D) /\ Cardinality(D) = Cardinality(S)
  BY <1>1, FS_Interval
<1> HIDE DEF D
<1>4. f \in Injection(D, S)
  BY <1>2 DEF Injection, IsInjective
<1>5. f \in Surjection(D, S)
  BY <1>3, <1>4, FS_Injection
<1> QED
  BY <1>1, <1>2, <1>5 DEF Surjection, D

(* The names that are listed are finitely many, and strings.                *)
LEMMA FiniteImages ==
  ASSUME NEW S \in SUBSET Slots
  PROVE  /\ IsFiniteSet({s[2] : s \in S}) /\ {s[2] : s \in S} \subseteq Strings
         /\ IsFiniteSet({s[3] : s \in S})
         /\ (\A s \in S : s[3] # Null) => {s[3] : s \in S} \subseteq Strings
<1>1. IsFiniteSet(S)
  BY WireAssumption, FS_Subset
<1>2. \A s \in S : s[2] \in Strings /\ s[3] \in Strings \cup {Null}
  BY WireAssumption
<1> DEFINE A == {s[2] : s \in S}
           B == {s[3] : s \in S}
<1>3. [s \in S |-> s[2]] \in Surjection(S, A)
  BY DEF Surjection
<1>4. [s \in S |-> s[3]] \in Surjection(S, B)
  BY DEF Surjection
<1> HIDE DEF A, B
<1>5. IsFiniteSet(A) /\ IsFiniteSet(B)
  BY <1>1, <1>3, <1>4, FS_Surjection
<1> QED
  BY <1>2, <1>5 DEF A, B

Dies == aborted' = TRUE /\ UNCHANGED <<down, replied, stored>>

LEMMA SameCardinality ==
  ASSUME NEW S
  PROVE  Service!Cardinality(S) = Cardinality(S)
BY Zenon DEF Cardinality, Service!Cardinality

(* The names the service would list, listed in the reply.                   *)
LEMMA ListedStep ==
  ASSUME NEW f, Facing(f), asked[f.msgid].op = "LIST_NAMES", UNCHANGED stored,
         NEW L, L = Service!Listed(asked[f.msgid]), IsFiniteSet(L), L \subseteq Strings,
         NEW listed \in SetToSeqs(L),
         NEW q, q = [n \in DOMAIN listed |-> String(listed[n])],
         Reply(f, <<Status(0)>> \o q)
  PROVE  Served(f.msgid) \/ Dies
<1> DEFINE i == f.msgid
<1> PICK s0 : s0 = Status(0)
  OBVIOUS
<1> PICK list : list = <<s0>> \o q
  OBVIOUS
<1>1. GoodStore(stored') /\ KvNow' = KvNow
  BY SteadyStore
<1>2. s0 \in Parameters /\ s0.value = 0
  BY DEF Status, Data, Parameters, ValueTypes, WordTypes, Contents
<1>3. /\ Cardinality(L) \in Nat /\ listed \in [1 .. Cardinality(L) -> L]
      /\ \A x \in L : \E j \in 1 .. Cardinality(L) : listed[j] = x
      /\ q \in Seq(Parameters)
  <2>1. /\ Cardinality(L) \in Nat /\ listed \in [1 .. Cardinality(L) -> L]
        /\ \A x \in L : \E j \in 1 .. Cardinality(L) : listed[j] = x
    BY NamesAll
  <2> PICK m \in Nat : m = Cardinality(L)
    BY <2>1
  <2>2. \A n \in 1 .. m : String(listed[n]) \in Parameters
    BY <2>1, StringIsParameter
  <2>3. q = [n \in 1 .. m |-> String(listed[n])]
    BY <2>1
  <2>4. q \in [1 .. m -> Parameters]
    BY <2>2, <2>3
  <2>5. q \in Seq(Parameters)
    BY <2>4, FunctionIsSeq
  <2> QED
    BY <2>1, <2>5
<1>4. /\ list \in Seq(Parameters) /\ list[1] = s0 /\ list # << >> /\ Tail(list) = q
  BY <1>2, <1>3, TailOfCons
<1>5. Len(list) \in Nat
  BY <1>4, LenProperties
<1>6. Reply(f, list)
  OBVIOUS
<1>7. CASE Len(list) <= MaxParams
  <2>1. ResponseStatus(list) = "ok" /\ ResponseNames(list) = q
    BY <1>2, <1>4 DEF ResponseStatus, ResponseNames
  <2>2. Service!Answer(i, "ok", q) /\ (Service!Serve(i, asked[i]) => Served(i))
    BY <1>1, <1>4, <1>6, <1>7, <2>1, NamesStep
  <2>3. /\ listed \in [1 .. Cardinality(L) -> L]
        /\ \A n \in L : \E j \in DOMAIN listed : listed[j] = n
    BY <1>3
  <2>4. q = [j \in DOMAIN listed |-> Service!Data("STRING", listed[j])]
    BY DEF String, Data, Service!Data
  <2>5. Service!Answer(i, "ok", [j \in DOMAIN listed |-> Service!Data("STRING", listed[j])])
    BY <2>2, <2>4
  <2>6. \E order \in [1 .. Cardinality(Service!Listed(asked[i])) -> Service!Listed(asked[i])] :
          /\ \A n \in Service!Listed(asked[i]) : \E j \in DOMAIN order : order[j] = n
          /\ Service!Answer(i, "ok", [j \in DOMAIN order |-> Service!Data("STRING", order[j])])
    BY Zenon, <2>3, <2>5
  <2>7. Service!ListNames(i, asked[i])
    <3>1. Cardinality(Service!Listed(asked[i])) = Service!Cardinality(Service!Listed(asked[i]))
      BY SameCardinality
    <3> QED
      BY <1>1, <2>6, <3>1 DEF Service!ListNames, KvNow
  <2> QED
    BY <2>2, <2>7 DEF Service!Serve
<1>8. CASE ~(Len(list) <= MaxParams)
  <2>1. Len(list) > MaxParams
    BY <1>5, <1>8, WireAssumption
  <2>2. SerializeMessage("STATUS", f.msgid, list) = Null
    BY <2>1 DEF SerializeMessage
  <2> QED
    BY <1>6, <2>2 DEF Reply, Dies
<1> QED
  BY <1>7, <1>8

LEMMA ListNamesStep ==
  ASSUME NEW f, Facing(f), ListNames(f, KeyOf(asked[f.msgid]))
  PROVE  Served(f.msgid) \/ Dies
<1> DEFINE c == asked[f.msgid]
<1> PICK k : k = KeyOf(c)
  OBVIOUS
<1>1. c.op = "LIST_NAMES" /\ UNCHANGED stored
  BY DEF ListNames, Facing
<1>2. k.layer = c.layer /\ k.group = c.group /\ k.name = c.name
  BY <1>1 DEF KeyOf, Request
<1>3. GoodStore(stored)
  BY FacingCall
<1> PICK groups, keys :
       /\ groups = {s \in Slots : Holds(s) /\ s[1] = k.layer /\ s[3] = Null}
       /\ keys = {s \in Slots : Holds(s) /\ s[1] = k.layer /\ s[2] = k.group /\ s[3] # Null}
  OBVIOUS
<1> PICK names : names = IF k.group = Null THEN {s[2] : s \in groups} ELSE {s[3] : s \in keys}
  OBVIOUS
<1> PICK L : L = {n \in names : k.name \in {Null, n}}
  OBVIOUS
<1>4. PICK listed \in SetToSeqs(L) :
        Reply(f, <<Status(0)>> \o [n \in DOMAIN listed |-> String(listed[n])])
  BY DEF ListNames
<1>5. IsFiniteSet(names) /\ names \subseteq Strings
  <2>1. groups \in SUBSET Slots /\ keys \in SUBSET Slots /\ \A s \in keys : s[3] # Null
    OBVIOUS
  <2> QED
    BY <2>1, FiniteImages
<1>6. IsFiniteSet(L) /\ L \subseteq Strings
  BY <1>5, FS_Subset
<1>7. L = Service!Listed(c)
  <2>1. groups = {t \in Slots : Service!Present(t) /\ t[1] = c.layer /\ t[3] = Null}
    BY <1>2, <1>3, KvHolds
  <2>2. keys = {t \in Slots : Service!Present(t) /\ t[1] = c.layer
                              /\ t[2] = c.group /\ t[3] # Null}
    BY <1>2, <1>3, KvHolds
  <2>3. names = Service!Names(c)
    BY <1>2, <2>1, <2>2 DEF Service!Names
  <2> QED
    BY <1>2, <2>3 DEF Service!Listed
<1> QED
  BY <1>1, <1>4, <1>6, <1>7, ListedStep

-----------------------------------------------------------------------------
(* A step of the connection is a step of the service or leaves it alone.    *)
ServiceStep == Service!Next \/ UNCHANGED Service!vars

LEMMA AnsweredSteady ==
  ASSUME GotOK, GotOK',
         \A j \in Ids : AnswerTo(asked'[j], replied'[j]) = AnswerTo(asked[j], replied[j])
  PROVE  AnsweredNow' = AnsweredNow
<1>1. AnsweredNow = AnswersOf(asked, replied)
  BY AnsweredAre
<1>2. AnsweredNow' = AnswersOf(asked', replied')
  BY AnsweredNext
<1>3. AnswersOf(asked', replied') = AnswersOf(asked, replied)
  BY DEF AnswersOf
<1> QED
  BY <1>1, <1>2, <1>3

LEMMA ServiceSteady ==
  ASSUME KvNow' = KvNow, AnsweredNow' = AnsweredNow, asked' = asked
  PROVE  ServiceStep
BY DEF ServiceStep, Service!vars, KvNow, AnsweredNow

(* What the daemon finds in the request it reads.                           *)
LEMMA RequestRead ==
  ASSUME IInv, Handle
  PROVE  LET f == Head(up)
             c == asked[f.msgid]
         IN  /\ c \in Calls /\ connected /\ up' = Tail(up) /\ UNCHANGED client
             /\ \/ (TooLong(c) \/ c.op = "LIST") /\ Terminate
                \/ /\ Facing(f)
                   /\ \/ Refuse(f)
                      \/ SetValue(f, KeyOf(c)) \/ SetLabel(f, KeyOf(c)) \/ UnsetValue(f, KeyOf(c))
                      \/ CreateGroup(f, KeyOf(c)) \/ RemoveGroup(f, KeyOf(c))
                      \/ GetValue(f, KeyOf(c)) \/ GetLabel(f, KeyOf(c)) \/ ListNames(f, KeyOf(c))
                      \/ RegisterNotification(f, KeyOf(c)) \/ UnregisterNotification(f, KeyOf(c))
<1> DEFINE f == Head(up)
           i == f.msgid
           c == asked[i]
           list == DeserializeMessage(f)
           k == ParseList(f.code, list)
<1>1. up # << >> /\ connected /\ up' = Tail(up) /\ UNCHANGED client
  BY DEF Handle
<1>2. f \in Frame /\ IsPending(f) /\ i \in Ids
  BY <1>1, HeadOfUp
<1>3. c # Null /\ replied[i] = Null /\ f = Sent(i, c)
  BY <1>2 DEF IsPending
<1>4. c \in Calls /\ AcceptsCall(c)
  BY <1>2, <1>3, AskedCall
<1>5. /\ f.code = c.op /\ list = Params(c) /\ list # Null
      /\ BadSize(f) <=> TooLong(c)
  BY <1>2, <1>3, <1>4, SentIsRead
<1>6. k = IF c.op = "LIST" THEN Null ELSE KeyOf(c)
  BY <1>4, <1>5, RequestBack
<1>7. KeyOf(c) # Null
  BY <1>4, KeyOfType
<1>8. CASE TooLong(c) \/ c.op = "LIST"
  <2>1. BadSize(f) \/ k = Null
    BY <1>5, <1>6, <1>8
  <2>2. Terminate
    BY <1>5, <2>1 DEF Handle
  <2> QED
    BY <1>1, <1>4, <1>8, <2>2
<1>9. CASE ~(TooLong(c) \/ c.op = "LIST")
  <2>1. ~BadSize(f) /\ list # Null /\ k = KeyOf(c) /\ k # Null
    BY <1>5, <1>6, <1>7, <1>9
  <2>2. Facing(f)
    BY <1>1, <1>2, <1>3, <1>5, <1>9 DEF Facing
  <2> HIDE DEF k, list, c, i, f
  <2>3. \/ Refuse(f)
        \/ SetValue(f, k) \/ SetLabel(f, k) \/ UnsetValue(f, k)
        \/ CreateGroup(f, k) \/ RemoveGroup(f, k)
        \/ GetValue(f, k) \/ GetLabel(f, k) \/ ListNames(f, k)
        \/ RegisterNotification(f, k) \/ UnregisterNotification(f, k)
    BY Zenon, <2>1 DEF Handle, f, list, k
  <2>4. \/ Refuse(f)
        \/ SetValue(f, KeyOf(c)) \/ SetLabel(f, KeyOf(c)) \/ UnsetValue(f, KeyOf(c))
        \/ CreateGroup(f, KeyOf(c)) \/ RemoveGroup(f, KeyOf(c))
        \/ GetValue(f, KeyOf(c)) \/ GetLabel(f, KeyOf(c)) \/ ListNames(f, KeyOf(c))
        \/ RegisterNotification(f, KeyOf(c)) \/ UnregisterNotification(f, KeyOf(c))
    BY Zenon, <2>1, <2>3
  <2> QED
    BY Zenon, <1>1, <1>4, <2>2, <2>4 DEF c, i, f
<1> QED
  BY Zenon, <1>8, <1>9

(* The same, of the request by a name that does not change in the step.     *)
Handled(f, k) ==
  \/ Refuse(f)
  \/ SetValue(f, k) \/ SetLabel(f, k) \/ UnsetValue(f, k)
  \/ CreateGroup(f, k) \/ RemoveGroup(f, k)
  \/ GetValue(f, k) \/ GetLabel(f, k) \/ ListNames(f, k)
  \/ RegisterNotification(f, k) \/ UnregisterNotification(f, k)

LEMMA HandledSame ==
  ASSUME NEW f, f = Head(up), NEW k, k = KeyOf(asked[Head(up).msgid]),
         Handled(Head(up), KeyOf(asked[Head(up).msgid]))
  PROVE  Handled(f, k)
<1> DEFINE h == Head(up)
           j == KeyOf(asked[Head(up).msgid])
<1>1. ASSUME Refuse(h) PROVE Refuse(f)
  BY <1>1 DEF Refuse, Reply
<1>2. ASSUME SetValue(h, j) PROVE SetValue(f, k)
  BY <1>2 DEF SetValue, Reply
<1>3. ASSUME SetLabel(h, j) PROVE SetLabel(f, k)
  BY <1>3 DEF SetLabel, Reply
<1>4. ASSUME UnsetValue(h, j) PROVE UnsetValue(f, k)
  BY <1>4 DEF UnsetValue, Reply
<1>5. ASSUME CreateGroup(h, j) PROVE CreateGroup(f, k)
  BY <1>5 DEF CreateGroup, Reply
<1>6. ASSUME RemoveGroup(h, j) PROVE RemoveGroup(f, k)
  BY <1>6 DEF RemoveGroup, Reply
<1>7. ASSUME GetValue(h, j) PROVE GetValue(f, k)
  BY <1>7 DEF GetValue, Reply, Found
<1>8. ASSUME GetLabel(h, j) PROVE GetLabel(f, k)
  BY <1>8 DEF GetLabel, Reply, Found
<1>9. ASSUME ListNames(h, j) PROVE ListNames(f, k)
  BY <1>9 DEF ListNames, Reply
<1>10. ASSUME RegisterNotification(h, j) PROVE RegisterNotification(f, k)
  BY <1>10 DEF RegisterNotification, Reply, Found
<1>11. ASSUME UnregisterNotification(h, j) PROVE UnregisterNotification(f, k)
  BY <1>11 DEF UnregisterNotification, Reply
<1> HIDE DEF h, j
<1>12. Handled(h, j)
  BY Zenon DEF h, j
<1> QED
  BY Zenon, <1>1, <1>2, <1>3, <1>4, <1>5, <1>6, <1>7, <1>8, <1>9, <1>10, <1>11, <1>12 DEF Handled

LEMMA HandledServes ==
  ASSUME NEW f, Facing(f), Handled(f, KeyOf(asked[f.msgid]))
  PROVE  Served(f.msgid) \/ Dies
<1>1. ASSUME Refuse(f) PROVE Served(f.msgid)
  BY <1>1, RefuseStep
<1>2. ASSUME SetValue(f, KeyOf(asked[f.msgid])) PROVE Served(f.msgid)
  BY <1>2, SetValueStep
<1>3. ASSUME SetLabel(f, KeyOf(asked[f.msgid])) PROVE Served(f.msgid)
  BY <1>3, SetLabelStep
<1>4. ASSUME UnsetValue(f, KeyOf(asked[f.msgid])) PROVE Served(f.msgid)
  BY <1>4, UnsetStep
<1>5. ASSUME CreateGroup(f, KeyOf(asked[f.msgid])) PROVE Served(f.msgid)
  BY <1>5, CreateGroupStep
<1>6. ASSUME RemoveGroup(f, KeyOf(asked[f.msgid])) PROVE Served(f.msgid)
  BY <1>6, RemoveGroupStep
<1>7. ASSUME GetValue(f, KeyOf(asked[f.msgid])) PROVE Served(f.msgid)
  BY <1>7, GetValueStep
<1>8. ASSUME GetLabel(f, KeyOf(asked[f.msgid])) PROVE Served(f.msgid)
  BY <1>8, GetLabelStep
<1>9. ASSUME ListNames(f, KeyOf(asked[f.msgid])) PROVE Served(f.msgid) \/ Dies
  BY <1>9, ListNamesStep
<1>10. ASSUME RegisterNotification(f, KeyOf(asked[f.msgid])) PROVE Served(f.msgid)
  BY <1>10, RegisterStep
<1>11. ASSUME UnregisterNotification(f, KeyOf(asked[f.msgid])) PROVE Served(f.msgid)
  BY <1>11, UnregisterStep
<1> QED
  BY <1>1, <1>2, <1>3, <1>4, <1>5, <1>6, <1>7, <1>8, <1>9, <1>10, <1>11 DEF Handled

LEMMA HandleEffect ==
  ASSUME IInv, Handle, NEW f, f = Head(up)
  PROVE  /\ asked[f.msgid] \in Calls /\ connected /\ up' = Tail(up) /\ UNCHANGED client
         /\ \/ /\ TooLong(asked[f.msgid]) \/ asked[f.msgid].op = "LIST"
               /\ Terminate
            \/ Served(f.msgid)
            \/ Dies
<1> DEFINE h == Head(up)
           c == asked[h.msgid]
<1>1. /\ c \in Calls /\ connected /\ up' = Tail(up) /\ UNCHANGED client
      /\ \/ (TooLong(c) \/ c.op = "LIST") /\ Terminate
         \/ Facing(h) /\ Handled(h, KeyOf(c))
  BY Zenon, RequestRead DEF Handled
<1>2. c = asked[f.msgid]
  OBVIOUS
<1>3. CASE (TooLong(c) \/ c.op = "LIST") /\ Terminate
  BY <1>1, <1>3, <1>2
<1>4. CASE Facing(h) /\ Handled(h, KeyOf(c))
  <2>1. Facing(f)
    BY <1>4 DEF Facing
  <2>2. Handled(f, KeyOf(asked[f.msgid]))
    <3> PICK k : k = KeyOf(asked[h.msgid])
      OBVIOUS
    <3>1. Handled(f, k)
      BY <1>4, HandledSame
    <3>2. k = KeyOf(asked[f.msgid])
      OBVIOUS
    <3> QED
      BY <3>1, <3>2
  <2>3. Served(f.msgid) \/ Dies
    BY <2>1, <2>2, HandledServes
  <2> QED
    BY <1>1, <1>2, <2>3
<1> QED
  BY <1>1, <1>3, <1>4

LEMMA ServedIsNext ==
  ASSUME NEW i \in Ids, asked[i] # Null, Served(i), asked' = asked
  PROVE  ServiceStep
<1>1. AnsweredNow[i] = Null /\ Service!Serve(i, asked[i])
  BY DEF Served
<1>2. asked[i] # Null /\ AnsweredNow[i] = Null /\ Service!Serve(i, asked[i]) /\ asked' = asked
  BY <1>1
<1> QED
  BY Zenon, <1>2 DEF ServiceStep, Service!Next, AnsweredNow

(* What a step leaves alone keeps its part of the invariant.                *)
LEMMA ClientSteady ==
  ASSUME IInv, UNCHANGED client
  PROVE  AskedOK' /\ WaitingOK' /\ asked' = asked /\ broken' = broken /\ got' = got
BY DEF IInv, AskedOK, WaitingOK, client

LEMMA RepliesSteady ==
  ASSUME IInv, UNCHANGED client, UNCHANGED <<down, replied>>
  PROVE  RepliesOK' /\ DownOK' /\ GotOK' /\ AnsweredNow' = AnsweredNow
<1>1. RepliesOK' /\ DownOK' /\ GotOK'
  BY DEF IInv, RepliesOK, DownOK, GotOK, client
<1>2. asked' = asked /\ replied' = replied
  BY DEF client
<1> QED
  BY <1>1, <1>2, AnsweredSteady DEF IInv

LEMMA UpAfter ==
  ASSUME IInv, up # << >>, up' = Tail(up), asked' = asked,
         NEW i, i = Head(up).msgid,
         \A j \in Ids \ {i} : replied'[j] = replied[j]
  PROVE  UpOK'
<1> PICK t : t = Tail(up)
  OBVIOUS
<1>1. /\ t \in Seq(Frame)
      /\ \A n \in 1 .. Len(t) :
           /\ asked[t[n].msgid] # Null /\ replied[t[n].msgid] = Null
           /\ t[n] = Sent(t[n].msgid, asked[t[n].msgid]) /\ t[n].msgid # i
      /\ \A m, n \in 1 .. Len(t) : t[m].msgid = t[n].msgid => m = n
  BY HeadOfUp DEF IsPending
<1>2. \A n \in 1 .. Len(t) : t[n].msgid \in Ids
  <2>1. \A n \in 1 .. Len(t) : t[n] \in Frame
    BY <1>1, ElementOfSeq
  <2> QED
    BY <2>1 DEF Frame
<1>3. ASSUME NEW n \in 1 .. Len(t)
      PROVE  /\ asked'[t[n].msgid] # Null /\ replied'[t[n].msgid] = Null
             /\ t[n] = Sent(t[n].msgid, asked'[t[n].msgid])
  BY <1>1, <1>2, <1>3
<1> QED
  BY <1>1, <1>3 DEF UpOK, IsPending

LEMMA HandleStep ==
  ASSUME IInv, Handle
  PROVE  IInv' /\ ServiceStep
<1> PICK f : f = Head(up)
  OBVIOUS
<1> PICK i : i = f.msgid
  OBVIOUS
<1>1. up # << >> /\ connected
  BY DEF Handle
<1>2. f \in Frame /\ i \in Ids /\ asked[i] # Null /\ replied[i] = Null
  BY <1>1, HeadOfUp DEF IsPending
<1>3. /\ up' = Tail(up) /\ UNCHANGED client
      /\ \/ (TooLong(asked[i]) \/ asked[i].op = "LIST") /\ Terminate
         \/ Served(i)
         \/ Dies
  BY HandleEffect
<1>4. AskedOK' /\ WaitingOK' /\ asked' = asked /\ broken' = broken /\ got' = got
  BY <1>3, ClientSteady
<1>5. broken => \E j \in Ids : MayBeTooLong(asked[j], replied[j])
  BY DEF IInv, EndsForCause
<1>6. ASSUME \A j \in Ids \ {i} : replied'[j] = replied[j]
      PROVE  broken' => \E j \in Ids : MayBeTooLong(asked'[j], replied'[j])
  <2>1. ASSUME NEW j \in Ids, MayBeTooLong(asked[j], replied[j])
        PROVE  MayBeTooLong(asked'[j], replied'[j])
    <3>1. j # i
      BY <1>2, <2>1 DEF MayBeTooLong
    <3> QED
      BY <1>4, <1>6, <2>1, <3>1
  <2> QED
    BY <1>4, <1>5, <2>1
<1>7. CASE (TooLong(asked[i]) \/ asked[i].op = "LIST") /\ Terminate
  <2>1. UNCHANGED <<stored, down, replied, aborted>>
    BY <1>7 DEF Terminate
  <2>2. RepliesOK' /\ DownOK' /\ GotOK' /\ AnsweredNow' = AnsweredNow
    BY <1>3, <2>1, RepliesSteady
  <2>3. UpOK'
    BY <1>1, <1>3, <1>4, <2>1, UpAfter
  <2>4. EndsForCause'
    BY <1>2, <1>4, <1>6, <1>7, <2>1 DEF EndsForCause
  <2>5. GoodStore(stored)' /\ KvNow' = KvNow
    BY <2>1 DEF IInv, KvNow, Entry
  <2> QED
    BY <1>4, <2>2, <2>3, <2>4, <2>5, ServiceSteady DEF IInv
<1>8. CASE Served(i)
  <2>1. /\ RepliesOK' /\ DownOK' /\ GotOK' /\ UNCHANGED <<connected, aborted>>
        /\ \A j \in Ids \ {i} : replied'[j] = replied[j]
        /\ GoodStore(stored)'
    BY <1>8 DEF Served
  <2>2. UpOK'
    BY <1>1, <1>3, <1>4, <2>1, UpAfter
  <2>3. EndsForCause'
    BY <1>1, <1>6, <2>1 DEF EndsForCause
  <2> QED
    BY <1>2, <1>4, <1>8, <2>1, <2>2, <2>3, ServedIsNext DEF IInv
<1>9. CASE Dies
  <2>1. UNCHANGED <<stored, down, replied>> /\ aborted' = TRUE
    BY <1>9 DEF Dies
  <2>2. RepliesOK' /\ DownOK' /\ GotOK' /\ AnsweredNow' = AnsweredNow
    BY <1>3, <2>1, RepliesSteady
  <2>3. UpOK'
    BY <1>1, <1>3, <1>4, <2>1, UpAfter
  <2>4. EndsForCause'
    BY <1>6, <2>1 DEF EndsForCause
  <2>5. GoodStore(stored)' /\ KvNow' = KvNow
    BY <2>1 DEF IInv, KvNow, Entry
  <2> QED
    BY <1>4, <2>2, <2>3, <2>4, <2>5, ServiceSteady DEF IInv
<1> QED
  BY <1>3, <1>7, <1>8, <1>9

(* A call puts its request on the connection.                               *)
LEMMA AskedNew ==
  ASSUME IInv, NEW i \in Ids, NEW c \in Calls, asked[i] = Null, AcceptsCall(c),
         asked' = [asked EXCEPT ![i] = c]
  PROVE  /\ AskedOK' /\ c # Null /\ asked'[i] = c
         /\ \A j \in Ids \ {i} : asked'[j] = asked[j]
         /\ replied[i] = Null /\ got[i] = Null /\ waiting[i] = Null
<1>1. asked \in [Ids -> Calls \cup {Null}]
  BY DEF IInv, AskedOK
<1>2. c # Null
  BY NullAssumption
<1>3. asked' \in [Ids -> Calls \cup {Null}] /\ asked'[i] = c
      /\ \A j \in Ids \ {i} : asked'[j] = asked[j]
  BY <1>1
<1>4. AskedOK'
  BY <1>3 DEF IInv, AskedOK
<1>5. replied[i] = Null
  BY DEF IInv, RepliesOK
<1>6. got[i] = Null
  BY <1>5 DEF IInv, GotOK
<1>7. waiting[i] = Null
  BY DEF IInv, WaitingOK
<1> QED
  BY <1>2, <1>3, <1>4, <1>5, <1>6, <1>7

LEMMA ReapedIsOld ==
  ASSUME NEW w, NEW callbacks \in Reaped(w)
  PROVE  /\ callbacks = [j \in Ids |-> callbacks[j]]
         /\ \A j \in Ids : callbacks[j] # Null => callbacks[j] = w[j]
BY DEF Reaped

LEMMA CallStep ==
  ASSUME IInv, NEW i \in Ids, NEW c \in Calls, Call(i, c)
  PROVE  IInv' /\ ServiceStep
<1> PICK frame : frame = Sent(i, c)
  OBVIOUS
<1> PICK callbacks \in Reaped(waiting) : waiting' = [callbacks EXCEPT ![i] = c]
  BY DEF Call
<1>1. /\ asked[i] = Null /\ AcceptsCall(c) /\ asked' = [asked EXCEPT ![i] = c]
      /\ up' = IF connected THEN Append(up, frame) ELSE up
      /\ UNCHANGED <<stored, connected, aborted, replied, broken, got, down>>
  BY DEF Call, Sent
<1>2. /\ AskedOK' /\ c # Null /\ asked'[i] = c
      /\ \A j \in Ids \ {i} : asked'[j] = asked[j]
      /\ replied[i] = Null /\ got[i] = Null /\ waiting[i] = Null
  BY <1>1, AskedNew
<1>3. frame \in Frame /\ frame.msgid = i
  BY <1>1, SentIsRead
<1>4. UpOK'
  <2>1. CASE connected
    <3> PICK new : new = Append(up, frame)
      OBVIOUS
    <3>1. up \in Seq(Frame) /\ Len(up) \in Nat
      BY LenProperties DEF IInv, UpOK
    <3>2. /\ new \in Seq(Frame) /\ Len(new) = Len(up) + 1
          /\ \A n \in 1 .. Len(up) : new[n] = up[n]
          /\ new[Len(up) + 1] = frame
      BY <1>3, <3>1, AppendProperties
    <3>3. \A n \in 1 .. Len(up) :
            /\ up[n].msgid \in Ids \ {i}
            /\ asked[up[n].msgid] # Null /\ replied[up[n].msgid] = Null
            /\ up[n] = Sent(up[n].msgid, asked[up[n].msgid])
      <4>1. \A n \in 1 .. Len(up) : up[n] \in Frame
        BY <3>1, ElementOfSeq
      <4> QED
        BY <1>1, <4>1 DEF IInv, UpOK, IsPending, Frame
    <3>4. \A n \in 1 .. Len(new) : n \in 1 .. Len(up) \/ n = Len(up) + 1
      BY <3>1, <3>2
    <3>5. \A n \in 1 .. Len(new) :
            /\ asked'[new[n].msgid] # Null /\ replied'[new[n].msgid] = Null
            /\ new[n] = Sent(new[n].msgid, asked'[new[n].msgid])
      <4>1. \A n \in 1 .. Len(up) :
              /\ asked'[up[n].msgid] # Null /\ replied'[up[n].msgid] = Null
              /\ up[n] = Sent(up[n].msgid, asked'[up[n].msgid])
        BY <1>1, <1>2, <3>3
      <4>2. /\ asked'[frame.msgid] # Null /\ replied'[frame.msgid] = Null
            /\ frame = Sent(frame.msgid, asked'[frame.msgid])
        BY <1>1, <1>2, <1>3
      <4> QED
        BY <3>2, <3>4, <4>1, <4>2
    <3>6. \A m, n \in 1 .. Len(new) : new[m].msgid = new[n].msgid => m = n
      <4>1. \A m, n \in 1 .. Len(up) : up[m].msgid = up[n].msgid => m = n
        BY DEF IInv, UpOK
      <4> QED
        BY <1>3, <3>2, <3>3, <3>4, <4>1
    <3> QED
      BY <1>1, <2>1, <3>2, <3>5, <3>6 DEF UpOK, IsPending
  <2>2. CASE ~connected
    <3>1. up' = up
      BY <1>1, <2>2
    <3>2. \A n \in 1 .. Len(up) :
            /\ up[n].msgid \in Ids \ {i}
            /\ asked[up[n].msgid] # Null /\ replied[up[n].msgid] = Null
            /\ up[n] = Sent(up[n].msgid, asked[up[n].msgid])
      <4>1. \A n \in 1 .. Len(up) : up[n] \in Frame
        BY ElementOfSeq DEF IInv, UpOK
      <4> QED
        BY <1>1, <4>1 DEF IInv, UpOK, IsPending, Frame
    <3>3. \A n \in 1 .. Len(up) :
            /\ asked'[up[n].msgid] # Null /\ replied'[up[n].msgid] = Null
            /\ up[n] = Sent(up[n].msgid, asked'[up[n].msgid])
      BY <1>1, <1>2, <3>2
    <3> QED
      BY <3>1, <3>3 DEF IInv, UpOK, IsPending
  <2> QED
    BY <2>1, <2>2
<1>5. RepliesOK'
  BY <1>1, <1>2 DEF IInv, RepliesOK
<1>6. DownOK'
  BY <1>1 DEF IInv, DownOK
<1>7. WaitingOK'
  <2>1. /\ callbacks = [j \in Ids |-> callbacks[j]]
        /\ \A j \in Ids : callbacks[j] # Null => callbacks[j] = waiting[j]
    BY ReapedIsOld
  <2>2. \A j \in Ids : waiting'[j] = IF j = i THEN c ELSE callbacks[j]
    BY <2>1
  <2>3. waiting' = [j \in Ids |-> waiting'[j]]
    BY <2>1
  <2>4. \A j \in Ids : waiting[j] \in Calls \cup {Null} /\ (waiting[j] # Null => waiting[j] = asked[j])
    BY DEF IInv, WaitingOK
  <2>5. \A j \in Ids : /\ waiting'[j] \in Calls \cup {Null}
                       /\ waiting'[j] # Null => waiting'[j] = asked'[j]
    BY <1>2, <2>1, <2>2, <2>4
  <2> QED
    BY <2>3, <2>5 DEF WaitingOK
<1>8. GotOK'
  BY <1>1, <1>2 DEF IInv, GotOK
<1>9. EndsForCause'
  <2>1. ~connected /\ ~aborted =>
          \E j \in Ids : /\ asked[j] # Null /\ replied[j] = Null
                         /\ asked[j].op = "LIST" \/ TooLong(asked[j])
    BY DEF IInv, EndsForCause
  <2>2. broken => \E j \in Ids : MayBeTooLong(asked[j], replied[j])
    BY DEF IInv, EndsForCause
  <2>3. ~connected' /\ ~aborted' =>
          \E j \in Ids : /\ asked'[j] # Null /\ replied'[j] = Null
                         /\ asked'[j].op = "LIST" \/ TooLong(asked'[j])
    BY <1>1, <1>2, <2>1
  <2>4. ASSUME NEW j \in Ids, MayBeTooLong(asked[j], replied[j])
        PROVE  MayBeTooLong(asked'[j], replied'[j])
    <3>1. j # i
      BY <1>2, <2>4 DEF MayBeTooLong
    <3> QED
      BY <1>1, <1>2, <2>4, <3>1
  <2>5. broken' => \E j \in Ids : MayBeTooLong(asked'[j], replied'[j])
    BY <1>1, <2>2, <2>4
  <2> QED
    BY <2>3, <2>5 DEF EndsForCause
<1>10. GoodStore(stored)' /\ KvNow' = KvNow
  BY <1>1 DEF IInv, KvNow, Entry
<1>11. \A j \in Ids : AnswerTo(asked'[j], replied'[j]) = AnswerTo(asked[j], replied[j])
  BY <1>1, <1>2 DEF AnswerTo
<1>12. AnsweredNow' = AnsweredNow
  BY <1>8, <1>11, AnsweredSteady DEF IInv
<1>13. ServiceStep
  <2>1. Service!Ask(i, c)
    BY <1>1, <1>10, <1>12 DEF Service!Ask, KvNow, AnsweredNow
  <2> QED
    BY <2>1 DEF ServiceStep, Service!Next
<1> QED
  BY <1>2, <1>4, <1>5, <1>6, <1>7, <1>8, <1>9, <1>10, <1>13 DEF IInv

(* A callback is given the answer that was sent for its call.               *)
LEMMA HeadOfDown ==
  ASSUME IInv, down # << >>, NEW f, f = Head(down), NEW i, i = f.msgid
  PROVE  /\ i \in Ids /\ replied[i] = f /\ f # Null /\ asked[i] # Null
         /\ IsReplyTo(f, asked[i])
         /\ down' = Tail(down) /\ replied' = replied => DownOK'
<1>1. down \in Seq(Frame) /\ \A n \in 1 .. Len(down) : down[n] = replied[down[n].msgid]
  BY DEF IInv, DownOK
<1>2. Len(down) \in Nat /\ 1 \in 1 .. Len(down) /\ f = down[1]
  BY <1>1, LenProperties
<1>3. f \in Frame
  BY <1>1, <1>2, ElementOfSeq
<1>4. i \in Ids /\ replied[i] = f /\ f # Null
  BY <1>1, <1>2, <1>3, NullAssumption DEF Frame
<1>5. asked[i] # Null /\ IsReplyTo(f, asked[i])
  BY <1>4 DEF IInv, RepliesOK
<1>6. ASSUME down' = Tail(down), replied' = replied
      PROVE  DownOK'
  <2>1. /\ Tail(down) \in Seq(Frame) /\ Len(Tail(down)) = Len(down) - 1
        /\ \A n \in 1 .. Len(Tail(down)) : Tail(down)[n] = down[n + 1]
    BY <1>1, HeadTailProperties
  <2>2. \A n \in 1 .. Len(Tail(down)) : n + 1 \in 1 .. Len(down)
    BY <1>2, <2>1
  <2>3. \A n \in 1 .. Len(Tail(down)) : Tail(down)[n] = replied[Tail(down)[n].msgid]
    BY <1>1, <2>1, <2>2
  <2> QED
    BY <1>6, <2>1, <2>3 DEF DownOK
<1> QED
  BY <1>4, <1>5, <1>6

LEMMA HandleResponseStep ==
  ASSUME IInv, HandleResponse
  PROVE  IInv' /\ ServiceStep
<1> PICK f : f = Head(down)
  OBVIOUS
<1> PICK i : i = f.msgid
  OBVIOUS
<1> PICK list : list = DeserializeMessage(f)
  OBVIOUS
<1>1. /\ down # << >> /\ down' = Tail(down) /\ ~broken
      /\ UNCHANGED <<stored, up, connected, aborted, replied, asked>>
  BY DEF HandleResponse, daemon
<1>2. /\ i \in Ids /\ replied[i] = f /\ f # Null /\ asked[i] # Null
      /\ IsReplyTo(f, asked[i]) /\ DownOK'
  BY <1>1, HeadOfDown
<1>3. PICK callbacks \in Reaped(waiting) :
        \/ /\ f.size > BUXTON_MESSAGE_MAX_LENGTH
           /\ broken' = TRUE /\ waiting' = callbacks /\ got' = got
        \/ /\ broken' = broken
           /\ \/ waiting' = callbacks /\ got' = got
              \/ /\ callbacks[i] # Null
                 /\ waiting' = [callbacks EXCEPT ![i] = Null]
                 /\ got' = [got EXCEPT ![i] = Reading(callbacks[i].op, list)]
  BY DEF HandleResponse
<1>4. /\ callbacks = [j \in Ids |-> callbacks[j]]
      /\ \A j \in Ids : callbacks[j] # Null => callbacks[j] = waiting[j]
  BY ReapedIsOld
<1>5. \A j \in Ids : /\ waiting[j] \in Calls \cup {Null}
                     /\ waiting[j] # Null => waiting[j] = asked[j]
  BY DEF IInv, WaitingOK
<1>6. WaitingOK'
  <2>1. CASE waiting' = callbacks
    BY <1>1, <1>4, <1>5, <2>1 DEF WaitingOK
  <2>2. CASE waiting' = [callbacks EXCEPT ![i] = Null]
    <3>1. /\ waiting' = [j \in Ids |-> waiting'[j]]
          /\ \A j \in Ids : waiting'[j] = Null \/ waiting'[j] = callbacks[j]
      BY <1>2, <1>4, <2>2
    <3>2. \A j \in Ids : /\ waiting'[j] \in Calls \cup {Null}
                         /\ waiting'[j] # Null => waiting'[j] = asked[j]
      BY <1>4, <1>5, <3>1
    <3> QED
      BY <1>1, <3>1, <3>2 DEF WaitingOK
  <2> QED
    BY <1>3, <2>1, <2>2
<1>7. AskedOK' /\ RepliesOK' /\ GoodStore(stored)' /\ KvNow' = KvNow
  BY <1>1 DEF IInv, AskedOK, RepliesOK, KvNow, Entry
<1>8. UpOK'
  BY <1>1 DEF IInv, UpOK, IsPending
<1>9. /\ got = [j \in Ids |-> got[j]]
      /\ \A j \in Ids : got[j] # Null => replied[j] # Null /\ got[j] = AnswerTo(asked[j], replied[j])
  BY DEF IInv, GotOK
<1>10. GotOK'
  <2>1. CASE got' = got
    BY <1>1, <1>9, <2>1 DEF GotOK
  <2>2. CASE callbacks[i] # Null /\ got' = [got EXCEPT ![i] = Reading(callbacks[i].op, list)]
    <3>1. callbacks[i] = asked[i]
      BY <1>2, <1>4, <1>5, <2>2
    <3>2. AnswerTo(asked[i], replied[i]) = Reading(callbacks[i].op, list)
      BY <1>2, <3>1 DEF AnswerTo
    <3>3. /\ got' = [j \in Ids |-> got'[j]]
          /\ \A j \in Ids : got'[j] = IF j = i THEN AnswerTo(asked[i], replied[i]) ELSE got[j]
      BY <1>2, <1>9, <2>2, <3>2
    <3>4. \A j \in Ids :
            got'[j] # Null => replied[j] # Null /\ got'[j] = AnswerTo(asked[j], replied[j])
      BY <1>2, <1>9, <3>3
    <3> QED
      BY <1>1, <3>3, <3>4 DEF GotOK
  <2> QED
    BY <1>3, <2>1, <2>2
<1>11. EndsForCause'
  <2>1. broken' => f.size > BUXTON_MESSAGE_MAX_LENGTH
    BY <1>1, <1>3
  <2>2. f.size \in Nat /\ f.size > BUXTON_MESSAGE_MAX_LENGTH => MayBeTooLong(asked[i], f)
    BY <1>2 DEF IsReplyTo, MayBeTooLong, BUXTON_MESSAGE_MAX_LENGTH
  <2>3. f.size \in Nat
    BY <1>2, NullAssumption DEF IInv, RepliesOK, Frame
  <2>4. broken' => MayBeTooLong(asked'[i], replied'[i])
    BY <1>1, <1>2, <2>1, <2>2, <2>3
  <2>5. ~connected' /\ ~aborted' =>
          \E j \in Ids : /\ asked'[j] # Null /\ replied'[j] = Null
                         /\ asked'[j].op = "LIST" \/ TooLong(asked'[j])
    BY <1>1 DEF IInv, EndsForCause
  <2> QED
    BY <1>2, <2>4, <2>5 DEF EndsForCause
<1>12. AnsweredNow' = AnsweredNow
  BY <1>1, <1>10, AnsweredSteady DEF IInv
<1> QED
  BY <1>1, <1>2, <1>6, <1>7, <1>8, <1>10, <1>11, <1>12, ServiceSteady DEF IInv

LEMMA StutterStep ==
  ASSUME IInv, UNCHANGED vars
  PROVE  IInv' /\ ServiceStep
<1>1. UNCHANGED client /\ UNCHANGED <<stored, up, connected, aborted, replied, down>>
  BY DEF vars, daemon
<1>2. AskedOK' /\ WaitingOK' /\ asked' = asked /\ broken' = broken /\ got' = got
  BY <1>1, ClientSteady
<1>3. RepliesOK' /\ DownOK' /\ GotOK' /\ AnsweredNow' = AnsweredNow
  BY <1>1, RepliesSteady
<1>4. UpOK' /\ EndsForCause' /\ GoodStore(stored)' /\ KvNow' = KvNow
  BY <1>1, <1>2 DEF IInv, UpOK, IsPending, EndsForCause, KvNow, Entry
<1> QED
  BY <1>2, <1>3, <1>4, ServiceSteady DEF IInv

LEMMA InitStep ==
  ASSUME Init
  PROVE  IInv /\ Service!Init
<1>1. PICK installed \in Installed :
        stored = [s \in Slots |-> IF installed[s] = Null THEN Null
                                  ELSE Serialize(installed[s].data, installed[s].label)]
  BY DEF Init
<1>2. /\ installed = [s \in Slots |-> installed[s]]
      /\ \A s \in Slots : installed[s] = Null \/ GoodEntry(installed[s])
  <2>1. /\ installed = [s \in Slots |-> installed[s]]
        /\ \A s \in Slots : installed[s] = Null \/ IsEntry(installed[s])
    BY WireAssumption
  <2>2. ASSUME NEW s \in Slots, installed[s] # Null
        PROVE  GoodEntry(installed[s])
    <3> PICK e : e = installed[s]
      OBVIOUS
    <3>1. IsEntry(e) /\ e.label \in Strings /\ (e.data.type = "STRING" => e.data.value \in Strings)
      BY <2>1, <2>2 DEF IsEntry, IsContent
    <3>2. MayBeStored(e.label)
      BY <2>2, <3>1 DEF MayBeStored, Oversized
    <3>3. e.data.type = "STRING" => MayBeStored(e.data.value)
      BY <2>2, <3>1 DEF MayBeStored, Oversized
    <3> QED
      BY <3>1, <3>2, <3>3 DEF GoodEntry
  <2> QED
    BY <2>1, <2>2
<1>3. /\ up = << >> /\ down = << >> /\ connected = TRUE /\ aborted = FALSE /\ broken = FALSE
      /\ waiting = [i \in Ids |-> Null] /\ asked = [i \in Ids |-> Null]
      /\ replied = [i \in Ids |-> Null] /\ got = [i \in Ids |-> Null]
  BY DEF Init
<1>4. ASSUME NEW s \in Slots, installed[s] # Null
      PROVE  /\ stored[s] # Null
             /\ Deserialize(stored[s]) = installed[s]
  <2> PICK e : e = installed[s]
    OBVIOUS
  <2>1. IsEntry(e) /\ stored[s] = Serialize(e.data, e.label)
    BY <1>1, <1>2, <1>4 DEF GoodEntry
  <2>2. Serialize(e.data, e.label) # Null /\ Deserialize(Serialize(e.data, e.label)) = e
    BY <2>1, RecordBack
  <2> QED
    BY <2>1, <2>2
<1>5. \A s \in Slots : installed[s] = Null => stored[s] = Null
  BY <1>1
<1>6. GoodStore(stored)
  BY <1>1, <1>2, <1>4, <1>5 DEF GoodStore
<1>7. KvNow = installed
  BY <1>2, <1>4, <1>5 DEF KvNow, Entry
<1>8. << >> \in Seq(Frame) /\ Len(<< >>) = 0
  OBVIOUS
<1>9. AskedOK /\ UpOK /\ RepliesOK /\ DownOK /\ WaitingOK /\ GotOK /\ EndsForCause
  BY <1>3, <1>8 DEF AskedOK, UpOK, RepliesOK, DownOK, WaitingOK, GotOK, EndsForCause
<1>10. AnsweredNow = [i \in Ids |-> Null]
  BY <1>3 DEF AnsweredNow
<1>11. Service!Init
  BY <1>3, <1>7, <1>10 DEF Service!Init, KvNow, AnsweredNow
<1> QED
  BY <1>6, <1>9, <1>11 DEF IInv

LEMMA NextStep ==
  ASSUME IInv, [Next]_vars
  PROVE  IInv' /\ ServiceStep
<1>1. ASSUME NEW i \in Ids, NEW c \in Calls, Call(i, c)
      PROVE  IInv' /\ ServiceStep
  BY <1>1, CallStep
<1>2. CASE Handle
  BY <1>2, HandleStep
<1>3. CASE HandleResponse
  BY <1>3, HandleResponseStep
<1>4. CASE UNCHANGED vars
  BY <1>4, StutterStep
<1> QED
  BY <1>1, <1>2, <1>3, <1>4 DEF Next

-----------------------------------------------------------------------------
(* The inductive invariant: requests and replies on the connection are      *)
(* those of the calls that wait for them, replies can be read back, and so  *)
(* can every record of the databases.                                       *)
THEOREM WireInductive == Spec => []IInv
<1>1. Init => IInv
  BY InitStep
<1>2. IInv /\ [Next]_vars => IInv'
  BY NextStep
<1> QED
  BY <1>1, <1>2, PTL DEF Spec

(* The daemon cuts a client off only for a LIST, which parse_list refuses,  *)
(* or a request longer than a message; whatever else the API lets through   *)
(* it accepts.  Of what it sends, only a list of names can be longer than   *)
(* handle_response reads.                                                   *)
THEOREM EndsHaveCause == Spec => []EndsForCause
<1>1. IInv => EndsForCause
  BY DEF IInv
<1> QED
  BY <1>1, WireInductive, PTL

(* Through the parameter lists, the messages and their lengths, parse_list, *)
(* the packed records and the accessors of the replies, every call is       *)
(* carried out at one moment, on the very key and value of the call, and    *)
(* its callback is given what was found at that moment.                     *)
THEOREM ServiceIsImplemented == Spec => ImplementsService
<1>1. Init => Service!Init
  BY InitStep
<1>2. IInv /\ [Next]_vars => [Service!Next]_(Service!vars)
  BY NextStep DEF ServiceStep
<1>3. Spec => Service!Spec
  BY <1>1, <1>2, WireInductive, PTL DEF Spec, Service!Spec
<1> QED
  BY <1>3 DEF ImplementsService
===============================================================================
