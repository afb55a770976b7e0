--------------------------- MODULE BuxtonDaemonProofs ---------------------------
(***************************************************************************)
(* The registry of BuxtonDaemon is consistent, is what the clients were     *)
(* told it is, and misses no change, for any number of connections,         *)
(* descriptors, keys, layers and registrations.                             *)
(*                                                                         *)
(* IInv says that the number of registrations of a live client on a key is *)
(* the number of times the key is in the client's own list (MappingsAgree), *)
(* that a freed client has no registrations (NoDanglingClient) and that a   *)
(* free descriptor has no keys (DescriptorsOK); none of them is inductive   *)
(* without the other two.  ViewInv adds the message ids the clients know,   *)
(* and ToldInv what each registration is waiting for.                       *)
(***************************************************************************)
EXTENDS BuxtonDaemon, FiniteSetTheorems, FunctionTheorems, SequenceTheorems, TLAPS

-----------------------------------------------------------------------------
(* What every request does to the databases: they stay databases of       *)
(* entries, and what is read from them is an entry that is stored.          *)

LEMMA ResourceType ==
  ASSUME NEW l \in Layers, NEW uid \in Uids
  PROVE  Resource(l, uid) \in Resources
BY DEF Resources

LEMMA SlotType ==
  ASSUME NEW l, NEW g \in Groups, NEW n \in Names \cup {Null}, NEW t
  PROVE  /\ Slot(Key(l, g, n, t)) \in Slots
         /\ Slot(Key(l, g, n, t)) = <<g, n>>
BY DEF Slot, Key, Slots

LEMMA ReadFromLayer ==
  ASSUME NEW d \in DB, NEW rules, NEW label, NEW uid \in Uids,
         NEW l, NEW g \in Groups, NEW n \in Names \cup {Null}, NEW t,
         GetValueForLayer(d, rules, uid, Key(l, g, n, t), label).ret = "OK"
  PROVE  /\ l \in Layers
         /\ d[Resource(l, uid)][<<g, n>>] \in Entry
         /\ GetValueForLayer(d, rules, uid, Key(l, g, n, t), label).data
              = d[Resource(l, uid)][<<g, n>>].data
         /\ GetValueForLayer(d, rules, uid, Key(l, g, n, t), label).label
              = d[Resource(l, uid)][<<g, n>>].label
<1> DEFINE key == Key(l, g, n, t)
           v == BackendGet(d, uid, key)
           e == d[Resource(l, uid)][<<g, n>>]
<1>1. key.layer = l /\ Slot(key) = <<g, n>> /\ Slot(key) \in Slots
  BY SlotType DEF Key
<1>2. /\ l \in Layers
      /\ v.ret = "OK"
      /\ GetValueForLayer(d, rules, uid, key, label) = v
  BY <1>1 DEF GetValueForLayer, NoValue
<1>3. v = [ret |-> "OK", data |-> e.data, label |-> e.label] /\ e # Null
  BY <1>1, <1>2 DEF BackendGet, NoValue
<1>4. e \in Entry \cup {Null}
  BY <1>1, <1>2, ResourceType DEF DB
<1> QED
  BY <1>2, <1>3, <1>4

LEMMA ReadIsStored ==
  ASSUME NEW d \in DB, NEW rules, NEW label, NEW uid \in Uids,
         NEW l, NEW g \in Groups, NEW n \in Names \cup {Null}, NEW t,
         GetValue(d, rules, uid, Key(l, g, n, t), label).ret = "OK"
  PROVE  GetValue(d, rules, uid, Key(l, g, n, t), label).data \in Data
<1> DEFINE key == Key(l, g, n, t)
<1>1. \A m : KeyIn(m, key) = Key(m, g, n, t)
  BY DEF KeyIn, Key
<1>2. PICK m : GetValue(d, rules, uid, key, label)
                 = GetValueForLayer(d, rules, uid, Key(m, g, n, t), label)
  BY <1>1 DEF GetValue, NoValue, Key
<1>3. GetValueForLayer(d, rules, uid, Key(m, g, n, t), label).ret = "OK"
  BY <1>2
<1>4. /\ GetValueForLayer(d, rules, uid, Key(m, g, n, t), label).data
           = d[Resource(m, uid)][<<g, n>>].data
      /\ d[Resource(m, uid)][<<g, n>>] \in Entry
  BY <1>3, ReadFromLayer
<1> QED
  BY <1>2, <1>4 DEF Entry

LEMMA BackendSetType ==
  ASSUME NEW d \in DB, NEW uid \in Uids, NEW l \in Layers,
         NEW g \in Groups, NEW n \in Names \cup {Null}, NEW t,
         NEW data \in Data \cup {Null}, NEW label \in Labels,
         BackendCanSet(d, uid, Key(l, g, n, t), data)
  PROVE  BackendSet(d, uid, Key(l, g, n, t), data, label) \in DB
<1> DEFINE r == Resource(l, uid)
           s == <<g, n>>
           kept == IF data = Null THEN d[r][s].data ELSE data
           new == [data |-> kept, label |-> label]
<1>1. r \in Resources /\ s \in Slots /\ d[r] \in [Slots -> Entry \cup {Null}]
  BY ResourceType, SlotType DEF DB
<1>2. data # Null \/ d[r][s] # Null
  BY SlotType DEF BackendCanSet, Key
<1>3. kept \in Data
  BY <1>1, <1>2, MediumAssumption DEF Entry
<1>4. new \in Entry
  BY <1>3 DEF Entry
<1>5. BackendSet(d, uid, Key(l, g, n, t), data, label) = [d EXCEPT ![r][s] = new]
  BY SlotType DEF BackendSet, Key
<1> HIDE DEF new
<1> QED
  BY <1>1, <1>4, <1>5 DEF DB

(* The entry a set leaves, and that it leaves the others alone.             *)
LEMMA SetIsExcept ==
  ASSUME NEW d \in DB, NEW uid \in Uids, NEW l \in Layers, NEW g \in Groups,
         NEW n \in Names \cup {Null}, NEW t, NEW data, NEW label
  PROVE  \E new :
           /\ new = [data |-> IF data = Null THEN d[Resource(l, uid)][<<g, n>>].data ELSE data,
                     label |-> label]
           /\ BackendSet(d, uid, Key(l, g, n, t), data, label)
                = [d EXCEPT ![Resource(l, uid)][<<g, n>>] = new]
<1>1. Key(l, g, n, t).layer = l /\ Slot(Key(l, g, n, t)) = <<g, n>>
  BY SlotType DEF Key
<1> QED
  BY <1>1 DEF BackendSet

LEMMA SetElsewhere ==
  ASSUME NEW d \in DB, NEW uid \in Uids, NEW l \in Layers, NEW g \in Groups,
         NEW n \in Names \cup {Null}, NEW t, NEW data, NEW label,
         NEW r \in Resources, NEW s \in Slots,
         ~(r = Resource(l, uid) /\ s = <<g, n>>)
  PROVE  BackendSet(d, uid, Key(l, g, n, t), data, label)[r][s] = d[r][s]
<1>1. PICK new : BackendSet(d, uid, Key(l, g, n, t), data, label)
                   = [d EXCEPT ![Resource(l, uid)][<<g, n>>] = new]
  BY SetIsExcept
<1>2. d[r] \in [Slots -> Entry \cup {Null}] /\ DOMAIN d = Resources
  BY DEF DB
<1>3. [d EXCEPT ![Resource(l, uid)][<<g, n>>] = new][r][s] = d[r][s]
  BY <1>2
<1> QED
  BY <1>1, <1>3

LEMMA SetHere ==
  ASSUME NEW d \in DB, NEW uid \in Uids, NEW l \in Layers, NEW g \in Groups,
         NEW n \in Names \cup {Null}, NEW t, NEW data, NEW label
  PROVE  BackendSet(d, uid, Key(l, g, n, t), data, label)[Resource(l, uid)][<<g, n>>] =
           [data |-> IF data = Null THEN d[Resource(l, uid)][<<g, n>>].data ELSE data,
            label |-> label]
<1> DEFINE r == Resource(l, uid)
           s == <<g, n>>
<1>1. PICK new :
        /\ new = [data |-> IF data = Null THEN d[r][s].data ELSE data, label |-> label]
        /\ BackendSet(d, uid, Key(l, g, n, t), data, label) = [d EXCEPT ![r][s] = new]
  BY SetIsExcept
<1>2. r \in Resources /\ s \in Slots /\ d[r] \in [Slots -> Entry \cup {Null}] /\ DOMAIN d = Resources
  BY ResourceType, SlotType DEF DB
<1> HIDE DEF r, s
<1>3. [d EXCEPT ![r][s] = new][r][s] = new
  BY <1>2
<1> QED
  BY <1>1, <1>3 DEF r, s

LEMMA UnsetAt ==
  ASSUME NEW d \in DB, NEW uid, NEW key, NEW r \in Resources, NEW s \in Slots
  PROVE  BackendUnset(d, uid, key)[r][s] =
           IF r = Resource(key.layer, uid) /\ s \in Doomed(key) THEN Null ELSE d[r][s]
BY DEF BackendUnset, DB

LEMMA BackendUnsetType ==
  ASSUME NEW d \in DB, NEW uid, NEW key
  PROVE  BackendUnset(d, uid, key) \in DB
BY DEF BackendUnset, DB

LEMMA LabelForSetType ==
  ASSUME NEW d \in DB, NEW rules, NEW label \in Labels \cup {Null}, NEW uid \in Uids,
         NEW l, NEW g \in Groups, NEW n \in Names \cup {Null}, NEW t
  PROVE  LabelForSet(d, rules, uid, Key(l, g, n, t), label) \in Labels
<1> DEFINE any == Key(l, g, n, "UNSET")
           old == GetValueForLayer(d, rules, uid, any, Null)
<1>1. [Key(l, g, n, t) EXCEPT !.type = "UNSET"] = any
  BY DEF Key
<1>2. LabelForSet(d, rules, uid, Key(l, g, n, t), label) =
        IF old.ret = "OK" THEN old.label ELSE IF label = Null THEN Floor ELSE label
  BY <1>1 DEF LabelForSet
<1>3. ASSUME old.ret = "OK"
      PROVE  old.label \in Labels
  <2>1. /\ old.label = d[Resource(l, uid)][<<g, n>>].label
        /\ d[Resource(l, uid)][<<g, n>>] \in Entry
    BY <1>3, ReadFromLayer
  <2> HIDE DEF old
  <2> QED
    BY <2>1 DEF Entry
<1> HIDE DEF old, any
<1> QED
  BY <1>2, <1>3, NullAssumption

LEMMA SetValueType ==
  ASSUME NEW d \in DB, NEW rules, NEW label \in Labels \cup {Null}, NEW uid \in Uids,
         NEW l, NEW g \in Groups, NEW n \in Names \cup {Null}, NEW t, NEW v \in Data,
         CanSetValue(d, rules, uid, Key(l, g, n, t), v, label)
  PROVE  SetValue(d, rules, uid, Key(l, g, n, t), v, label) \in DB
<1> DEFINE key == Key(l, g, n, t)
<1>1. LabelForSet(d, rules, uid, key, label) \in Labels
  BY LabelForSetType
<1>2. l \in Layers /\ BackendCanSet(d, uid, key, v)
  BY DEF CanSetValue, Writable, Key
<1> QED
  BY <1>1, <1>2, BackendSetType DEF SetValue

LEMMA SetLabelType ==
  ASSUME NEW d \in DB, NEW uid \in Uids,
         NEW l, NEW g \in Groups, NEW n \in Names \cup {Null}, NEW t, NEW b \in Labels,
         CanSetLabel(d, uid, Key(l, g, n, t))
  PROVE  SetLabel(d, uid, Key(l, g, n, t), b) \in DB
<1>1. l \in Layers /\ BackendCanSet(d, uid, Key(l, g, n, t), Null)
  BY DEF CanSetLabel, Writable, Key
<1> QED
  BY <1>1, BackendSetType DEF SetLabel

LEMMA CreateGroupType ==
  ASSUME NEW d \in DB, NEW rules, NEW label \in Labels \cup {Null}, NEW uid \in Uids,
         NEW l, NEW g \in Groups, NEW n \in Names \cup {Null}, NEW t,
         CanCreateGroup(d, rules, uid, Key(l, g, n, t))
  PROVE  CreateGroup(d, uid, Key(l, g, n, t), label) \in DB
<1>1. l \in Layers /\ BackendCanSet(d, uid, Key(l, g, n, t), GroupValue)
  BY DEF CanCreateGroup, Writable, Key
<1>2. GroupValue \in Data /\ (IF label = Null THEN Floor ELSE label) \in Labels
  BY NullAssumption DEF Data
<1> QED
  BY <1>1, <1>2, BackendSetType DEF CreateGroup

LEMMA PersistedType ==
  ASSUME NEW d \in DB
  PROVE  Persisted(d) \in DB /\ EmptyDB \in DB
BY DEF Persisted, EmptyDB, DB

-----------------------------------------------------------------------------
(* What appending to a sequence and removing an element from it do to the  *)
(* number of occurrences of an element.                                    *)

LEMMA PositionsFinite ==
  ASSUME NEW S, NEW s \in Seq(S), NEW x
  PROVE  /\ IsFiniteSet(Positions(x, s))
         /\ Positions(x, s) \subseteq 1..Len(s)
         /\ Occurrences(x, s) \in Nat
<1>1. Positions(x, s) \in SUBSET (1..Len(s))
  BY LenProperties DEF Positions
<1>2. IsFiniteSet(1..Len(s))
  BY LenProperties, FS_Interval
<1> QED
  BY <1>1, <1>2, FS_Subset, FS_CardinalityType DEF Occurrences

LEMMA OccursNot ==
  ASSUME NEW S, NEW s \in Seq(S), NEW x
  PROVE  Occurrences(x, s) = 0 <=> \A i \in DOMAIN s : s[i] # x
<1>1. Occurrences(x, s) = 0 <=> Positions(x, s) = {}
  BY PositionsFinite, FS_EmptySet DEF Occurrences
<1> QED
  BY <1>1 DEF Positions

LEMMA OccurrencesEmpty ==
  ASSUME NEW x
  PROVE  Occurrences(x, << >>) = 0
<1>1. Positions(x, << >>) = {}
  BY DEF Positions
<1> QED
  BY <1>1, FS_EmptySet DEF Occurrences

LEMMA OccurrencesAppend ==
  ASSUME NEW S, NEW s \in Seq(S), NEW e \in S, NEW x
  PROVE  Occurrences(x, Append(s, e)) = Occurrences(x, s) + (IF x = e THEN 1 ELSE 0)
<1> DEFINE n == Len(s) + 1
<1>1. /\ Append(s, e) \in Seq(S)
      /\ DOMAIN Append(s, e) = DOMAIN s \cup {n}
      /\ n \notin DOMAIN s
      /\ Append(s, e)[n] = e
      /\ \A i \in DOMAIN s : Append(s, e)[i] = s[i]
  BY AppendProperties, LenProperties
<1>2. Positions(x, Append(s, e)) = Positions(x, s) \cup (IF x = e THEN {n} ELSE {})
  BY <1>1 DEF Positions
<1>3. n \notin Positions(x, s)
  BY <1>1 DEF Positions
<1>4. CASE x = e
  BY <1>2, <1>3, <1>4, PositionsFinite, FS_AddElement DEF Occurrences
<1>5. CASE x # e
  BY <1>2, <1>5, PositionsFinite DEF Occurrences
<1> QED
  BY <1>4, <1>5

(* t is s without its element at position i.                                *)
LEMMA OccurrencesRemoval ==
  ASSUME NEW S, NEW s \in Seq(S), NEW i \in 1..Len(s), NEW x,
         NEW t \in Seq(S), Len(t) = Len(s) - 1,
         \A j \in 1..Len(t) : t[j] = IF j < i THEN s[j] ELSE s[j + 1]
  PROVE  Occurrences(x, t) = Occurrences(x, s) - (IF x = s[i] THEN 1 ELSE 0)
<1> DEFINE P == Positions(x, t)
           Q == Positions(x, s) \ {i}
           f == [j \in P |-> IF j < i THEN j ELSE j + 1]
<1>1. P = {j \in 1..Len(t) : t[j] = x} /\ Positions(x, s) = {j \in 1..Len(s) : s[j] = x}
  BY LenProperties DEF Positions
<1>2. Len(s) \in Nat /\ Len(t) \in Nat
  BY LenProperties
<1>3. f \in [P -> Q]
  BY <1>1, <1>2
<1>4. ASSUME NEW a \in P, NEW b \in P, f[a] = f[b]
      PROVE  a = b
  BY <1>1, <1>2, <1>4
<1>5. ASSUME NEW b \in Q
      PROVE  \E a \in P : f[a] = b
  <2>1. CASE b < i
    <3>1. b \in P
      BY <1>1, <1>2, <2>1
    <3> QED
      BY <3>1, <2>1
  <2>2. CASE ~(b < i)
    <3>1. b - 1 \in P /\ ~(b - 1 < i)
      BY <1>1, <1>2, <2>2
    <3>2. f[b - 1] = b
      BY <3>1, <1>1, <1>2
    <3> QED
      BY <3>1, <3>2
  <2> QED
    BY <2>1, <2>2
<1>6. f \in Bijection(P, Q)
  BY <1>3, <1>4, <1>5 DEF Bijection, Injection, Surjection, IsInjective
<1>7. ExistsBijection(P, Q)
  BY <1>6 DEF ExistsBijection
<1>8. IsFiniteSet(P) /\ Cardinality(Q) = Cardinality(P)
  BY <1>7, PositionsFinite, FS_Bijection
<1>9. Cardinality(Q) = Cardinality(Positions(x, s)) - (IF x = s[i] THEN 1 ELSE 0)
  <2>1. IsFiniteSet(Positions(x, s)) /\ Cardinality(Positions(x, s)) \in Nat
    BY PositionsFinite DEF Occurrences
  <2>2. i \in Positions(x, s) <=> x = s[i]
    BY <1>1
  <2> HIDE DEF Q, P, f
  <2>3. Cardinality(Positions(x, s) \ {i}) =
          IF i \in Positions(x, s) THEN Cardinality(Positions(x, s)) - 1
          ELSE Cardinality(Positions(x, s))
    BY <2>1, FS_RemoveElement
  <2> QED
    BY <2>1, <2>2, <2>3 DEF Q
<1> QED
  BY <1>8, <1>9 DEF Occurrences

LEMMA RemoveAtProperties ==
  ASSUME NEW S, NEW s \in Seq(S), NEW i \in 1..Len(s)
  PROVE  /\ RemoveAt(s, i) \in Seq(S)
         /\ Len(RemoveAt(s, i)) = Len(s) - 1
         /\ \A j \in 1..(Len(s) - 1) : RemoveAt(s, i)[j] = IF j < i THEN s[j] ELSE s[j + 1]
<1> DEFINE a == SubSeq(s, 1, i - 1)
           b == SubSeq(s, i + 1, Len(s))
<1>1. Len(s) \in Nat /\ \A j \in 1..Len(s) : s[j] \in S
  BY LenProperties, ElementOfSeq
<1>2. /\ a \in Seq(S) /\ Len(a) = i - 1
      /\ \A j \in 1..(i - 1) : a[j] = s[j]
  BY <1>1, SubSeqProperties
<1>3. /\ b \in Seq(S) /\ Len(b) = Len(s) - i
      /\ \A j \in 1..(Len(s) - i) : b[j] = s[i + j]
  <2>1. \A j \in (i + 1)..Len(s) : s[j] \in S
    BY <1>1
  <2> QED
    BY <1>1, <2>1, SubSeqProperties
<1>4. RemoveAt(s, i) = a \o b
  BY DEF RemoveAt
<1> HIDE DEF a, b
<1>5. /\ a \o b \in Seq(S)
      /\ Len(a \o b) = Len(a) + Len(b)
      /\ \A j \in 1..(Len(a) + Len(b)) : (a \o b)[j] =
            IF j <= Len(a) THEN a[j] ELSE b[j - Len(a)]
  BY <1>2, <1>3, ConcatProperties
<1> QED
  BY <1>1, <1>2, <1>3, <1>4, <1>5

LEMMA OccurrencesRemoveAt ==
  ASSUME NEW S, NEW s \in Seq(S), NEW i \in 1..Len(s), NEW x
  PROVE  Occurrences(x, RemoveAt(s, i)) = Occurrences(x, s) - (IF x = s[i] THEN 1 ELSE 0)
BY RemoveAtProperties, OccurrencesRemoval

LEMMA OccurrencesTail ==
  ASSUME NEW S, NEW s \in Seq(S), s # << >>, NEW x
  PROVE  Occurrences(x, Tail(s)) = Occurrences(x, s) - (IF x = Head(s) THEN 1 ELSE 0)
<1>1. /\ 1 \in 1..Len(s) /\ Head(s) = s[1]
      /\ Tail(s) \in Seq(S) /\ Len(Tail(s)) = Len(s) - 1
      /\ \A j \in 1..Len(Tail(s)) : Tail(s)[j] = s[j + 1]
  BY EmptySeq, LenProperties, HeadTailProperties
<1>2. \A j \in 1..Len(Tail(s)) : Tail(s)[j] = IF j < 1 THEN s[j] ELSE s[j + 1]
  BY <1>1
<1> DEFINE t == Tail(s)
<1>3. /\ t \in Seq(S) /\ Len(t) = Len(s) - 1 /\ 1 \in 1..Len(s)
      /\ \A j \in 1..Len(t) : t[j] = IF j < 1 THEN s[j] ELSE s[j + 1]
  BY <1>1, <1>2
<1> HIDE DEF t
<1>4. Occurrences(x, t) = Occurrences(x, s) - (IF x = s[1] THEN 1 ELSE 0)
  BY <1>3, OccurrencesRemoval
<1> QED
  BY <1>1, <1>4 DEF t

LEMMA RemoveFirstRemoves ==
  ASSUME NEW S, NEW s \in Seq(S), NEW e
  PROVE  \/ /\ Occurrences(e, s) = 0
            /\ RemoveFirst(s, e) = s
         \/ \E i \in 1..Len(s) : s[i] = e /\ RemoveFirst(s, e) = RemoveAt(s, i)
<1> DEFINE I == {i \in 1..Len(s) : s[i] = e}
<1>1. CASE I = {}
  <2>1. RemoveFirst(s, e) = s
    BY <1>1 DEF RemoveFirst
  <2> QED
    BY <1>1, <2>1, OccursNot, LenProperties
<1>2. CASE I # {}
  <2>1. RemoveFirst(s, e) = RemoveAt(s, Min(I))
    BY <1>2 DEF RemoveFirst, SelectInSeq
  <2>2. \E m \in I : \A k \in I : m <= k
    <3>1. I \subseteq Nat
      OBVIOUS
    <3>2. PICK m \in I : \A k \in I : ~(<<k, m>> \in OpToRel(<, Nat))
      BY <1>2, <3>1, NatLessThanWellFounded, WFMin
    <3>3. \A k \in I : ~(k < m)
      BY <3>1, <3>2 DEF OpToRel
    <3> QED
      BY <3>1, <3>3
  <2>3. Min(I) \in I
    BY <2>2 DEF Min
  <2> QED
    BY <2>1, <2>3
<1> QED
  BY <1>1, <1>2

LEMMA OccurrencesRemoveFirst ==
  ASSUME NEW S, NEW s \in Seq(S), NEW e, NEW x, Occurrences(e, s) # 0
  PROVE  /\ RemoveFirst(s, e) \in Seq(S)
         /\ Occurrences(x, RemoveFirst(s, e)) = Occurrences(x, s) - (IF x = e THEN 1 ELSE 0)
<1>1. PICK i \in 1..Len(s) : s[i] = e /\ RemoveFirst(s, e) = RemoveAt(s, i)
  BY RemoveFirstRemoves
<1> QED
  BY <1>1, OccurrencesRemoveAt, RemoveAtProperties

LEMMA RemoveFirstIsHead ==
  ASSUME NEW S, NEW s \in Seq(S), NEW e, 1 \in 1..Len(s), s[1] = e
  PROVE  RemoveFirst(s, e) = RemoveAt(s, 1)
<1> DEFINE I == {i \in 1..Len(s) : s[i] = e}
<1>1. 1 \in I /\ \A k \in I : 1 <= k
  BY LenProperties
<1>2. RemoveFirst(s, e) = RemoveAt(s, Min(I))
  BY <1>1 DEF RemoveFirst, SelectInSeq
<1>3. Min(I) \in I /\ Min(I) <= 1
  BY <1>1 DEF Min
<1>4. Min(I) = 1
  BY <1>1, <1>3
<1> QED
  BY <1>2, <1>4

IInv == TypeOK /\ RegistryOK /\ NoAbort

-----------------------------------------------------------------------------
(* The tasks.                                                               *)

LEMMA TaskShapes ==
  /\ Idle.op = "idle" /\ Aborted.op = "aborted" /\ Crashed.op = "crashed"
  /\ \A nk, v, i : LET t == Notifying(nk, v, i)
                   IN t.op = "notify" /\ t.key = nk /\ t.value = v /\ t.i = i
  /\ \A c, rest : LET t == Terminating(c, rest)
                  IN t.op = "terminate" /\ t.conn = c /\ t.rest = rest
BY DEF Idle, Aborted, Crashed, Notifying, Terminating

(* A new task is well formed if it is one of the three kinds a step starts. *)
LEMMA NewTask ==
  ASSUME \/ task' = Idle
         \/ task' = Crashed
         \/ \E nk \in NKeys, v \in Values \cup {Null}, i \in Nat \ {0} :
              task' = Notifying(nk, v, i)
         \/ \E c \in client_list', rest \in Seq(NKeys) : task' = Terminating(c, rest)
  PROVE  TaskOK' /\ NoAbort'
<1>1. CASE task' = Idle \/ task' = Crashed
  BY <1>1, TaskShapes DEF TaskOK, NoAbort
<1>2. ASSUME NEW nk \in NKeys, NEW v \in Values \cup {Null}, NEW i \in Nat \ {0},
             task' = Notifying(nk, v, i)
      PROVE  TaskOK' /\ NoAbort'
  BY <1>2, TaskShapes DEF TaskOK, NoAbort
<1>3. ASSUME NEW c \in client_list', NEW rest \in Seq(NKeys), task' = Terminating(c, rest)
      PROVE  TaskOK' /\ NoAbort'
  BY <1>3, TaskShapes DEF TaskOK, NoAbort
<1> QED
  BY <1>1, <1>2, <1>3

-----------------------------------------------------------------------------
(* Lists of registrations, read through ClientsIn.                          *)

LEMMA ClientsInType ==
  ASSUME NEW s \in Seq(Registration)
  PROVE  /\ ClientsIn(s) \in Seq(Conns)
         /\ Len(s) \in Nat /\ Len(ClientsIn(s)) = Len(s)
         /\ DOMAIN s = 1..Len(s) /\ DOMAIN ClientsIn(s) = 1..Len(s)
         /\ \A i \in 1..Len(s) : s[i] \in Registration /\ ClientsIn(s)[i] = s[i].client
<1>1. /\ Len(s) \in Nat /\ DOMAIN s = 1..Len(s)
      /\ \A i \in 1..Len(s) : s[i] \in Registration
  BY LenProperties, ElementOfSeq
<1>2. \A i \in 1..Len(s) : s[i].client \in Conns
  BY <1>1 DEF Registration
<1>3. ClientsIn(s) = [i \in 1..Len(s) |-> s[i].client]
  BY <1>1 DEF ClientsIn
<1>4. ClientsIn(s) \in [1..Len(s) -> Conns]
  BY <1>2, <1>3
<1>5. ClientsIn(s) \in Seq(Conns) /\ Len(ClientsIn(s)) = Len(s)
  BY <1>1, <1>4, SeqDef, LenProperties
<1> QED
  BY <1>1, <1>3, <1>5

LEMMA ClientsInAppend ==
  ASSUME NEW s \in Seq(Registration), NEW n \in Registration
  PROVE  ClientsIn(Append(s, n)) = Append(ClientsIn(s), n.client)
<1> DEFINE a == Append(s, n)
<1>1. /\ a \in Seq(Registration) /\ Len(a) = Len(s) + 1
      /\ \A i \in 1..Len(s) : a[i] = s[i]
      /\ a[Len(s) + 1] = n
  BY AppendProperties
<1>2. n.client \in Conns
  BY DEF Registration
<1> HIDE DEF a
<1>3. /\ ClientsIn(a) \in Seq(Conns) /\ Len(ClientsIn(a)) = Len(s) + 1
      /\ \A i \in 1..(Len(s) + 1) : ClientsIn(a)[i] = a[i].client
  BY <1>1, ClientsInType
<1>4. /\ Append(ClientsIn(s), n.client) \in Seq(Conns)
      /\ Len(Append(ClientsIn(s), n.client)) = Len(s) + 1
      /\ \A i \in 1..Len(s) : Append(ClientsIn(s), n.client)[i] = s[i].client
      /\ Append(ClientsIn(s), n.client)[Len(s) + 1] = n.client
  BY <1>2, ClientsInType, AppendProperties
<1>5. \A i \in 1..(Len(s) + 1) : ClientsIn(a)[i] = Append(ClientsIn(s), n.client)[i]
  BY <1>1, <1>3, <1>4, ClientsInType
<1>6. ClientsIn(a) = Append(ClientsIn(s), n.client)
  BY <1>3, <1>4, <1>5, SeqEqual
<1> QED
  BY <1>6 DEF a

LEMMA ClientsInRemoveAt ==
  ASSUME NEW s \in Seq(Registration), NEW i \in 1..Len(s)
  PROVE  /\ RemoveAt(s, i) \in Seq(Registration)
         /\ ClientsIn(RemoveAt(s, i)) = RemoveAt(ClientsIn(s), i)
<1> DEFINE a == RemoveAt(s, i)
           b == RemoveAt(ClientsIn(s), i)
<1>1. /\ a \in Seq(Registration) /\ Len(a) = Len(s) - 1
      /\ \A j \in 1..(Len(s) - 1) : a[j] = IF j < i THEN s[j] ELSE s[j + 1]
  BY RemoveAtProperties
<1>2. /\ b \in Seq(Conns) /\ Len(b) = Len(s) - 1
      /\ \A j \in 1..(Len(s) - 1) :
           b[j] = IF j < i THEN ClientsIn(s)[j] ELSE ClientsIn(s)[j + 1]
  BY ClientsInType, RemoveAtProperties
<1> HIDE DEF a, b
<1>3. /\ ClientsIn(a) \in Seq(Conns) /\ Len(ClientsIn(a)) = Len(s) - 1
      /\ \A j \in 1..(Len(s) - 1) : ClientsIn(a)[j] = a[j].client
  BY <1>1, ClientsInType
<1>4. ASSUME NEW j \in 1..(Len(s) - 1)
      PROVE  ClientsIn(a)[j] = b[j]
  <2>1. Len(s) \in Nat /\ \A k \in 1..Len(s) : ClientsIn(s)[k] = s[k].client
    BY ClientsInType
  <2>2. j \in 1..Len(s) /\ j + 1 \in 1..Len(s)
    BY <2>1
  <2>3. CASE j < i
    BY <1>1, <1>2, <1>3, <2>1, <2>2, <2>3
  <2>4. CASE ~(j < i)
    BY <1>1, <1>2, <1>3, <2>1, <2>2, <2>4
  <2> QED
    BY <2>3, <2>4
<1>5. ClientsIn(a) = b
  BY <1>2, <1>3, <1>4, SeqEqual
<1> QED
  BY <1>1, <1>5 DEF a, b

(* A step that keeps the clients, the lists of keys and, key by key, the    *)
(* clients registered keeps the registry.                                   *)
LEMMA QuietStep ==
  ASSUME IInv, TypeOK',
         client_list' = client_list, fd' = fd, client_key_mapping' = client_key_mapping,
         \A nk \in NKeys : ClientsIn(notify_mapping'[nk]) = ClientsIn(notify_mapping[nk]),
         \A c \in client_list : KeysOf(c)' = KeysOf(c)
  PROVE  RegistryOK'
<1>1. DescriptorsOK'
  BY DEF IInv, RegistryOK, DescriptorsOK
<1>2. NoDanglingClient'
  <2> SUFFICES ASSUME NEW nk \in NKeys, NEW i \in DOMAIN notify_mapping'[nk]
               PROVE  notify_mapping'[nk][i].client \in client_list'
    BY DEF NoDanglingClient
  <2>1. notify_mapping[nk] \in Seq(Registration) /\ notify_mapping'[nk] \in Seq(Registration)
    BY DEF IInv, TypeOK
  <2>2. /\ i \in DOMAIN notify_mapping[nk]
        /\ notify_mapping'[nk][i].client = notify_mapping[nk][i].client
    BY <2>1, ClientsInType
  <2> QED
    BY <2>2 DEF IInv, RegistryOK, NoDanglingClient
<1>3. MappingsAgree'
  BY DEF IInv, RegistryOK, MappingsAgree
<1> QED
  BY <1>1, <1>2, <1>3 DEF RegistryOK

LEMMA SameClients ==
  ASSUME NEW s \in Seq(Registration), NEW t \in Seq(Registration), Len(t) = Len(s),
         \A i \in 1..Len(s) : t[i].client = s[i].client
  PROVE  ClientsIn(t) = ClientsIn(s)
<1>1. \A i \in 1..Len(s) : ClientsIn(t)[i] = ClientsIn(s)[i]
  BY ClientsInType
<1> QED
  BY <1>1, ClientsInType, SeqEqual

-----------------------------------------------------------------------------
(* Serving a message.                                                       *)

LEMMA ServeFacts ==
  ASSUME IInv, NEW c \in Conns, MaySend(c)
  PROVE  /\ c \in client_list /\ fd[c] \in Fds /\ task = Idle
         /\ client_key_mapping[fd[c]] \in Seq(NKeys)
         /\ \A d \in client_list : KeysOf(d) = client_key_mapping[fd[d]]
<1>1. c \in client_list /\ task = Idle
  BY DEF MaySend
<1>2. \A d \in client_list : fd[d] \in Fds
  BY DEF IInv, RegistryOK, DescriptorsOK
<1>3. \A d \in client_list : KeysOf(d) = client_key_mapping[fd[d]]
  BY <1>1, TaskShapes DEF KeysOf, BeingTerminated
<1> QED
  BY <1>1, <1>2, <1>3 DEF IInv, TypeOK

(* Whether the reply is written or the connection ends, the keys owed to    *)
(* every client are those of its list.                                      *)
LEMMA ReplyStep ==
  ASSUME IInv, NEW c \in Conns, MaySend(c), UNCHANGED connVars,
         client_key_mapping' \in [Fds -> Seq(NKeys)],
         NEW msgid, NEW status, NEW data, NEW next,
         next = Idle \/ \E nk \in NKeys, v \in Values \cup {Null} : next = Notifying(nk, v, 1),
         Reply(c, msgid, status, data, next)
  PROVE  /\ TaskOK' /\ NoAbort'
         /\ \A d \in client_list : KeysOf(d)' = client_key_mapping'[fd[d]]
<1>1. /\ client_list' = client_list /\ fd' = fd
      /\ c \in client_list /\ fd[c] \in Fds
  BY ServeFacts DEF connVars
<1>2. task' = next \/ task' = Terminating(c, client_key_mapping'[fd[c]])
  BY DEF Reply
<1>3. client_key_mapping'[fd[c]] \in Seq(NKeys)
  BY <1>1
<1>4. TaskOK' /\ NoAbort'
  <2>1. CASE task' = next
    BY <2>1, NewTask
  <2>2. CASE task' = Terminating(c, client_key_mapping'[fd[c]])
    BY <2>2, <1>1, <1>3, NewTask
  <2> QED
    BY <1>2, <2>1, <2>2
<1>5. ASSUME NEW d \in client_list
      PROVE  KeysOf(d)' = client_key_mapping'[fd[d]]
  <2>1. CASE task' = next
    <3>1. task'.op # "terminate"
      BY <2>1, TaskShapes
    <3> QED
      BY <3>1, <1>1 DEF KeysOf, BeingTerminated
  <2>2. CASE task' = Terminating(c, client_key_mapping'[fd[c]])
    <3>1. task'.op = "terminate" /\ task'.conn = c /\ task'.rest = client_key_mapping'[fd[c]]
      BY <2>2, TaskShapes
    <3> QED
      BY <3>1, <1>1 DEF KeysOf, BeingTerminated
  <2> QED
    BY <1>2, <2>1, <2>2
<1> QED
  BY <1>4, <1>5

LEMMA MarkStaleStep ==
  ASSUME notify_mapping \in [NKeys -> Seq(Registration)],
         NEW nk, nk = Null \/ nk \in NKeys, NEW value, MarkStale(nk, value)
  PROVE  /\ notify_mapping' \in [NKeys -> Seq(Registration)]
         /\ \A k \in NKeys : ClientsIn(notify_mapping'[k]) = ClientsIn(notify_mapping[k])
<1>1. CASE nk = Null
  BY <1>1 DEF MarkStale
<1>2. CASE nk # Null
  <2> DEFINE s == notify_mapping[nk]
             marked(n) == [n EXCEPT !.stale = n.old_data # SentData(value)]
             t == [i \in DOMAIN s |-> marked(s[i])]
  <2>1. nk \in NKeys /\ notify_mapping' = [notify_mapping EXCEPT ![nk] = t]
    BY <1>2 DEF MarkStale
  <2>2. /\ s \in Seq(Registration) /\ Len(s) \in Nat /\ DOMAIN s = 1..Len(s)
        /\ \A i \in 1..Len(s) : s[i] \in Registration
    BY <2>1, ClientsInType
  <2>3. ASSUME NEW n \in Registration
        PROVE  marked(n) \in Registration /\ marked(n).client = n.client
    BY DEF Registration
  <2>4. /\ t \in Seq(Registration) /\ Len(t) = Len(s)
        /\ \A i \in 1..Len(s) : t[i].client = s[i].client
    <3>1. t = [i \in 1..Len(s) |-> marked(s[i])]
      BY <2>2
    <3> HIDE DEF t, s, marked
    <3>2. t \in [1..Len(s) -> Registration]
      BY <3>1, <2>2, <2>3
    <3> QED
      BY <3>1, <3>2, <2>2, <2>3, SeqDef, LenProperties
  <2> HIDE DEF t
  <2>5. ClientsIn(t) = ClientsIn(s)
    BY <2>2, <2>4, SameClients
  <2> QED
    BY <2>1, <2>4, <2>5
<1> QED
  BY <1>1, <1>2

LEMMA KeyNames ==
  ASSUME NEW l, NEW g \in Groups, NEW n \in Names, NEW t
  PROVE  LET nk == NotifyKeyName(Key(l, g, n, t)) IN nk = Null \/ nk \in NKeys
BY DEF NotifyKeyName, Key, NKeys

LEMMA WriteStep ==
  ASSUME IInv, NEW c \in Conns, NEW l, NEW g \in Groups, NEW n \in Names, NEW t,
         NEW value \in Values \cup {Null}, NEW msgid, NEW granted, NEW newdb,
         granted => newdb \in DB,
         Write(c, Key(l, g, n, t), value, msgid, granted, newdb)
  PROVE  IInv'
<1> DEFINE nk == NotifyKeyName(Key(l, g, n, t))
<1>1. /\ MaySend(c) /\ UNCHANGED connVars /\ known' = known
      /\ client_key_mapping' = client_key_mapping
  BY DEF Write, registryVars
<1>2. nk = Null \/ nk \in NKeys
  BY KeyNames
<1>3. /\ db' \in DB
      /\ notify_mapping' \in [NKeys -> Seq(Registration)]
      /\ \A k \in NKeys : ClientsIn(notify_mapping'[k]) = ClientsIn(notify_mapping[k])
  <2>1. CASE granted
    BY <2>1, <1>2, MarkStaleStep DEF Write, IInv, TypeOK
  <2>2. CASE ~granted
    BY <2>2 DEF Write, IInv, TypeOK, registryVars
  <2> QED
    BY <2>1, <2>2
<1>4. PICK status, next :
        /\ Reply(c, msgid, status, Null, next)
        /\ next = Idle \/ \E k \in NKeys, v \in Values \cup {Null} : next = Notifying(k, v, 1)
  <2>1. WalkOf(nk, value) = Idle
          \/ \E k \in NKeys, v \in Values \cup {Null} : WalkOf(nk, value) = Notifying(k, v, 1)
    BY <1>2 DEF WalkOf
  <2> QED
    BY <2>1 DEF Write
<1>5. client_key_mapping' \in [Fds -> Seq(NKeys)]
  BY <1>1 DEF IInv, TypeOK
<1>6. TaskOK' /\ NoAbort' /\ \A d \in client_list : KeysOf(d)' = client_key_mapping'[fd[d]]
  BY <1>1, <1>4, <1>5, ReplyStep
<1>7. TypeOK'
  BY <1>1, <1>3, <1>5, <1>6 DEF IInv, TypeOK, connVars
<1>8. RegistryOK'
  BY <1>1, <1>3, <1>6, <1>7, ServeFacts, QuietStep DEF connVars
<1> QED
  BY <1>6, <1>7, <1>8 DEF IInv

(* Requests that leave the registry alone.                                  *)
LEMMA RequestStep ==
  ASSUME IInv, NEW c \in Conns, MaySend(c), NEW msgid, NEW status, NEW data,
         Reply(c, msgid, status, data, Idle),
         db' \in DB, UNCHANGED <<connVars, registryVars, known>>
  PROVE  IInv'
<1>1. client_key_mapping' \in [Fds -> Seq(NKeys)] /\ UNCHANGED connVars
  BY DEF IInv, TypeOK, registryVars
<1>2. TaskOK' /\ NoAbort' /\ \A d \in client_list : KeysOf(d)' = client_key_mapping'[fd[d]]
  BY <1>1, ReplyStep
<1>3. TypeOK'
  BY <1>2 DEF IInv, TypeOK, connVars, registryVars
<1>4. RegistryOK'
  BY <1>2, <1>3, ServeFacts, QuietStep DEF connVars, registryVars
<1> QED
  BY <1>2, <1>3, <1>4 DEF IInv

LEMMA AdministerStep ==
  ASSUME IInv, NEW c \in Conns, NEW msgid, NEW granted, NEW newdb,
         granted => newdb \in DB,
         Administer(c, msgid, granted, newdb)
  PROVE  IInv'
<1>1. db' \in DB
  BY DEF Administer, IInv, TypeOK
<1> QED
  BY <1>1, RequestStep DEF Administer

LEMMA AnswerStep ==
  ASSUME IInv, NEW c \in Conns, NEW msgid, NEW granted, NEW data,
         Answer(c, msgid, granted, data)
  PROVE  IInv'
<1>1. db' \in DB /\ UNCHANGED <<connVars, registryVars, known>>
  BY DEF Answer, IInv, TypeOK
<1> QED
  BY <1>1, RequestStep DEF Answer

(* A connection that ends owes what is in its list.                         *)
LEMMA StartTerminateStep ==
  ASSUME IInv, NEW c \in client_list, task = Idle, task' = StartTerminate(c),
         UNCHANGED <<db, connVars, registryVars, known>>
  PROVE  IInv'
<1> DEFINE rest == client_key_mapping[fd[c]]
<1>1. fd[c] \in Fds /\ rest \in Seq(NKeys)
  BY DEF IInv, RegistryOK, DescriptorsOK, TypeOK
<1>2. client_list' = client_list /\ fd' = fd /\ registryVars' = registryVars
  BY DEF connVars
<1>3. task' = Terminating(c, rest)
  BY DEF StartTerminate
<1>4. TaskOK' /\ NoAbort'
  BY <1>1, <1>2, <1>3, NewTask
<1>5. TypeOK'
  BY <1>4 DEF IInv, TypeOK, connVars, registryVars
<1>6. ASSUME NEW d \in client_list
      PROVE  KeysOf(d)' = KeysOf(d)
  <2>1. task'.op = "terminate" /\ task'.conn = c /\ task'.rest = rest
    BY <1>3, TaskShapes
  <2>2. task.op # "terminate"
    BY TaskShapes
  <2> QED
    BY <2>1, <2>2, <1>2 DEF KeysOf, BeingTerminated, registryVars
<1>7. RegistryOK'
  BY <1>2, <1>5, <1>6, QuietStep DEF registryVars
<1> QED
  BY <1>4, <1>5, <1>7 DEF IInv

LEMMA HangupStep ==
  ASSUME IInv, NEW c \in Conns, Hangup(c)
  PROVE  IInv'
<1>1. TypeOK' /\ NoAbort'
  BY DEF Hangup, IInv, TypeOK, TaskOK, NoAbort
<1>2. \A d \in client_list : KeysOf(d)' = KeysOf(d)
  BY DEF Hangup, KeysOf, BeingTerminated
<1>3. RegistryOK'
  BY <1>1, <1>2, QuietStep DEF Hangup
<1> QED
  BY <1>1, <1>3 DEF IInv

-----------------------------------------------------------------------------
(* The walk over the registrations of a key.                                *)

LEMMA NotifyOneStep ==
  ASSUME IInv, NotifyOne
  PROVE  IInv'
<1> DEFINE nk == task.key
           s == notify_mapping[nk]
           i == task.i
           told == [s[i] EXCEPT !.old_data = SentData(task.value), !.stale = FALSE]
           next == Notifying(nk, task.value, i + 1)
<1>1. /\ nk \in NKeys /\ task.value \in Values \cup {Null} /\ i \in Nat \ {0}
      /\ task.op = "notify"
  BY TaskShapes DEF NotifyOne, IInv, TypeOK, TaskOK
<1>2. /\ s \in Seq(Registration) /\ Len(s) \in Nat /\ DOMAIN s = 1..Len(s)
      /\ i \in 1..Len(s) /\ s[i] \in Registration
  BY <1>1, ClientsInType DEF NotifyOne, IInv, TypeOK
<1>3. told \in Registration /\ told.client = s[i].client
  <2>1. SentData(task.value) \in Data \cup {Zeroed}
    BY <1>1 DEF SentData, Data
  <2> QED
    BY <1>2, <2>1 DEF Registration
<1> HIDE DEF told
<1>4. \/ notify_mapping' = notify_mapping
      \/ notify_mapping' = [notify_mapping EXCEPT ![nk][i] = told]
  BY DEF NotifyOne, told
<1>5. /\ notify_mapping' \in [NKeys -> Seq(Registration)]
      /\ \A k \in NKeys : ClientsIn(notify_mapping'[k]) = ClientsIn(notify_mapping[k])
  <2>1. CASE notify_mapping' = notify_mapping
    BY <2>1 DEF IInv, TypeOK
  <2>2. CASE notify_mapping' = [notify_mapping EXCEPT ![nk][i] = told]
    <3> DEFINE t == [s EXCEPT ![i] = told]
    <3>1. notify_mapping' = [notify_mapping EXCEPT ![nk] = t]
      BY <2>2
    <3>2. /\ t \in Seq(Registration) /\ Len(t) = Len(s)
          /\ \A j \in 1..Len(s) : t[j] = IF j = i THEN told ELSE s[j]
      BY <1>2, <1>3, ExceptSeq
    <3> HIDE DEF t
    <3>3. ClientsIn(t) = ClientsIn(s)
      BY <1>2, <1>3, <3>2, SameClients
    <3> QED
      BY <1>1, <3>1, <3>2, <3>3 DEF IInv, TypeOK
  <2> QED
    BY <1>4, <2>1, <2>2
<1>6. TaskOK' /\ NoAbort' /\ task'.op # "terminate"
  <2>1. task' = next \/ task' = Crashed
    BY DEF NotifyOne
  <2>2. next = Notifying(nk, task.value, i + 1) /\ i + 1 \in Nat \ {0}
    BY <1>1
  <2> QED
    BY <1>1, <2>1, <2>2, NewTask, TaskShapes
<1>7. TypeOK'
  BY <1>5, <1>6 DEF NotifyOne, IInv, TypeOK, connVars
<1>8. client_list' = client_list /\ fd' = fd /\ client_key_mapping' = client_key_mapping
  BY DEF NotifyOne, connVars
<1>9. \A d \in client_list : KeysOf(d)' = KeysOf(d)
  BY <1>1, <1>6, <1>8 DEF KeysOf, BeingTerminated
<1>10. RegistryOK'
  BY <1>5, <1>7, <1>8, <1>9, QuietStep
<1> QED
  BY <1>6, <1>7, <1>10 DEF IInv

LEMMA NotifyDoneStep ==
  ASSUME IInv, NotifyDone
  PROVE  IInv'
<1>1. task' = Idle /\ task.op = "notify" /\ UNCHANGED <<db, connVars, registryVars, known>>
  BY DEF NotifyDone
<1>2. TaskOK' /\ NoAbort' /\ task'.op # "terminate"
  BY <1>1, NewTask, TaskShapes
<1>3. TypeOK'
  BY <1>1, <1>2 DEF IInv, TypeOK, connVars, registryVars
<1>4. \A d \in client_list : KeysOf(d)' = KeysOf(d)
  BY <1>1, <1>2 DEF KeysOf, BeingTerminated, connVars, registryVars
<1>5. RegistryOK'
  BY <1>1, <1>3, <1>4, QuietStep DEF connVars, registryVars
<1> QED
  BY <1>2, <1>3, <1>5 DEF IInv

-----------------------------------------------------------------------------
(* Connections.                                                             *)

(* A client that has not been accepted has no registrations.                *)
LEMMA StrangerHasNone ==
  ASSUME IInv, NEW c, c \notin client_list, NEW nk \in NKeys
  PROVE  Occurrences(c, ClientsIn(notify_mapping[nk])) = 0
<1> DEFINE s == notify_mapping[nk]
<1>1. s \in Seq(Registration) /\ \A i \in DOMAIN s : s[i].client \in client_list
  BY DEF IInv, TypeOK, RegistryOK, NoDanglingClient
<1>2. ClientsIn(s) \in Seq(Conns) /\ \A i \in DOMAIN ClientsIn(s) : ClientsIn(s)[i] # c
  BY <1>1, ClientsInType
<1> QED
  BY <1>2, OccursNot

LEMMA AcceptStep ==
  ASSUME IInv, NEW c \in Conns, NEW f \in Fds, Accept(c, f)
  PROVE  IInv'
<1>1. /\ task = Idle /\ task' = Idle
      /\ c \notin client_list /\ client_list' = client_list \cup {c}
      /\ \A d \in client_list : fd[d] # f
      /\ fd' = [fd EXCEPT ![c] = f] /\ registryVars' = registryVars
  BY DEF Accept, IInv, TypeOK, registryVars
<1>2. TaskOK' /\ NoAbort'
  BY <1>1, NewTask
<1>3. TypeOK'
  BY <1>1, <1>2 DEF Accept, IInv, TypeOK, registryVars
<1>4. fd'[c] = f /\ \A d \in client_list : fd'[d] = fd[d] /\ d # c
  BY <1>1 DEF IInv, TypeOK
<1>5. client_key_mapping[f] = << >>
  BY <1>1 DEF IInv, RegistryOK, DescriptorsOK
<1>6. DescriptorsOK'
  BY <1>1, <1>4 DEF IInv, RegistryOK, DescriptorsOK, registryVars
<1>7. NoDanglingClient'
  BY <1>1 DEF IInv, RegistryOK, NoDanglingClient, registryVars
<1>8. ASSUME NEW d \in client_list', NEW nk \in NKeys
      PROVE  Occurrences(d, ClientsIn(notify_mapping'[nk])) = Occurrences(nk, KeysOf(d)')
  <2>1. KeysOf(d)' = client_key_mapping[fd'[d]]
    BY <1>1, TaskShapes DEF KeysOf, BeingTerminated, registryVars
  <2>2. CASE d = c
    BY <1>1, <1>4, <1>5, <2>1, <2>2, StrangerHasNone, OccurrencesEmpty DEF registryVars
  <2>3. CASE d # c
    <3>1. d \in client_list /\ KeysOf(d) = client_key_mapping[fd[d]]
      BY <1>1, <2>3, TaskShapes DEF KeysOf, BeingTerminated
    <3> QED
      BY <1>1, <1>4, <2>1, <3>1 DEF IInv, RegistryOK, MappingsAgree, registryVars
  <2> QED
    BY <2>2, <2>3
<1>9. MappingsAgree'
  BY <1>8 DEF MappingsAgree
<1> QED
  BY <1>2, <1>3, <1>6, <1>7, <1>9 DEF IInv, RegistryOK

LEMMA TerminateDoneStep ==
  ASSUME IInv, TerminateDone
  PROVE  IInv'
<1> DEFINE c == task.conn
<1>1. /\ task.op = "terminate" /\ task.rest = << >>
      /\ c \in client_list /\ c \in Conns /\ fd[c] \in Fds
  BY TaskShapes DEF TerminateDone, IInv, TypeOK, TaskOK, RegistryOK, DescriptorsOK
<1>2. /\ client_key_mapping' = [client_key_mapping EXCEPT ![fd[c]] = << >>]
      /\ client_list' = client_list \ {c} /\ fd' = [fd EXCEPT ![c] = Null]
      /\ task' = Idle /\ notify_mapping' = notify_mapping
  BY DEF TerminateDone
<1>3. TaskOK' /\ NoAbort'
  BY <1>2, NewTask
<1>4. client_key_mapping' \in [Fds -> Seq(NKeys)]
  BY <1>1, <1>2, EmptySeq DEF IInv, TypeOK
<1>5. known' \in [Conns -> [NKeys -> Seq(MsgIds)]]
  BY <1>1, EmptySeq DEF TerminateDone, IInv, TypeOK
<1>6. TypeOK'
  BY <1>1, <1>2, <1>3, <1>4, <1>5 DEF TerminateDone, IInv, TypeOK
<1>7. \A d \in client_list' : d \in client_list /\ d # c /\ fd'[d] = fd[d] /\ fd[d] # fd[c]
  BY <1>1, <1>2 DEF IInv, TypeOK, RegistryOK, DescriptorsOK
<1>8. DescriptorsOK'
  <2>1. \A f \in Fds : client_key_mapping'[f] # << >> =>
          f # fd[c] /\ client_key_mapping[f] # << >>
    BY <1>1, <1>2 DEF IInv, TypeOK
  <2>2. \A f \in Fds : client_key_mapping'[f] # << >> => \E d \in client_list' : fd'[d] = f
    BY <2>1, <1>2, <1>7 DEF IInv, RegistryOK, DescriptorsOK
  <2> QED
    BY <2>2, <1>7 DEF IInv, RegistryOK, DescriptorsOK
<1>9. NoDanglingClient'
  <2> SUFFICES ASSUME NEW nk \in NKeys, NEW i \in DOMAIN notify_mapping[nk]
               PROVE  notify_mapping[nk][i].client \in client_list \ {c}
    BY <1>2 DEF NoDanglingClient
  <2>1. notify_mapping[nk] \in Seq(Registration)
    BY DEF IInv, TypeOK
  <2>2. KeysOf(c) = << >>
    BY <1>1 DEF KeysOf, BeingTerminated
  <2>3. Occurrences(c, ClientsIn(notify_mapping[nk])) = 0
    BY <1>1, <2>2, OccurrencesEmpty DEF IInv, RegistryOK, MappingsAgree
  <2>4. \A j \in DOMAIN ClientsIn(notify_mapping[nk]) : ClientsIn(notify_mapping[nk])[j] # c
    BY <2>1, <2>3, OccursNot, ClientsInType
  <2> QED
    BY <2>1, <2>4, ClientsInType DEF IInv, RegistryOK, NoDanglingClient
<1>10. ASSUME NEW d \in client_list', NEW nk \in NKeys
       PROVE  Occurrences(d, ClientsIn(notify_mapping'[nk])) = Occurrences(nk, KeysOf(d)')
  <2>1. KeysOf(d)' = client_key_mapping'[fd'[d]]
    BY <1>2, TaskShapes DEF KeysOf, BeingTerminated
  <2>2. client_key_mapping'[fd'[d]] = client_key_mapping[fd[d]]
    BY <1>1, <1>2, <1>7 DEF IInv, TypeOK, RegistryOK, DescriptorsOK
  <2>3. KeysOf(d) = client_key_mapping[fd[d]]
    BY <1>7 DEF KeysOf, BeingTerminated
  <2> QED
    BY <1>2, <1>7, <2>1, <2>2, <2>3 DEF IInv, RegistryOK, MappingsAgree
<1>11. MappingsAgree'
  BY <1>10 DEF MappingsAgree
<1> QED
  BY <1>3, <1>6, <1>8, <1>9, <1>11 DEF IInv, RegistryOK

(* One registration goes from the list of a key.                            *)
LEMMA RemoveRegistration ==
  ASSUME IInv, NEW nk \in NKeys, NEW i \in DOMAIN notify_mapping[nk],
         NEW c, notify_mapping[nk][i].client = c,
         notify_mapping'[nk] = RemoveAt(notify_mapping[nk], i),
         \A k \in NKeys : k # nk => notify_mapping'[k] = notify_mapping[k],
         client_list' = client_list
  PROVE  /\ notify_mapping'[nk] \in Seq(Registration)
         /\ NoDanglingClient'
         /\ \A d : \A k \in NKeys : k # nk \/ d # c =>
              Occurrences(d, ClientsIn(notify_mapping'[k])) =
                Occurrences(d, ClientsIn(notify_mapping[k]))
         /\ Occurrences(c, ClientsIn(notify_mapping'[nk])) =
              Occurrences(c, ClientsIn(notify_mapping[nk])) - 1
<1> DEFINE s == notify_mapping[nk]
           t == RemoveAt(s, i)
<1>1. s \in Seq(Registration) /\ i \in 1..Len(s)
  BY ClientsInType DEF IInv, TypeOK
<1>2. /\ t \in Seq(Registration) /\ ClientsIn(t) = RemoveAt(ClientsIn(s), i)
      /\ Len(t) = Len(s) - 1
      /\ \A j \in 1..(Len(s) - 1) : t[j] = IF j < i THEN s[j] ELSE s[j + 1]
  BY <1>1, ClientsInRemoveAt, RemoveAtProperties
<1>3. /\ ClientsIn(s) \in Seq(Conns) /\ i \in 1..Len(ClientsIn(s))
      /\ ClientsIn(s)[i] = s[i].client
  BY <1>1, ClientsInType
<1>4. \A d : /\ Occurrences(d, ClientsIn(t)) =
                 Occurrences(d, ClientsIn(s)) - (IF d = c THEN 1 ELSE 0)
             /\ Occurrences(d, ClientsIn(s)) \in Nat
  BY <1>2, <1>3, OccurrencesRemoveAt, PositionsFinite
<1>5. notify_mapping'[nk] = t
  OBVIOUS
<1> HIDE DEF t
<1>6. NoDanglingClient'
  <2> SUFFICES ASSUME NEW k \in NKeys, NEW j \in DOMAIN notify_mapping'[k]
               PROVE  notify_mapping'[k][j].client \in client_list
    BY DEF NoDanglingClient
  <2>1. CASE k # nk
    BY <2>1 DEF IInv, RegistryOK, NoDanglingClient
  <2>2. CASE k = nk
    <3>1. Len(s) \in Nat /\ DOMAIN s = 1..Len(s) /\ j \in 1..(Len(s) - 1)
      BY <2>2, <1>1, <1>2, <1>5, LenProperties
    <3>2. t[j] = s[j] \/ t[j] = s[j + 1]
      BY <3>1, <1>2
    <3>3. j \in DOMAIN s /\ j + 1 \in DOMAIN s
      BY <3>1
    <3> QED
      BY <2>2, <3>2, <3>3, <1>5 DEF IInv, RegistryOK, NoDanglingClient
  <2> QED
    BY <2>1, <2>2
<1>7. ASSUME NEW d, NEW k \in NKeys, k # nk \/ d # c
      PROVE  Occurrences(d, ClientsIn(notify_mapping'[k])) =
               Occurrences(d, ClientsIn(notify_mapping[k]))
  <2>1. CASE k = nk
    BY <1>7, <2>1, <1>4, <1>5
  <2>2. CASE k # nk
    BY <2>2
  <2> QED
    BY <2>1, <2>2
<1>8. Occurrences(c, ClientsIn(notify_mapping'[nk])) =
        Occurrences(c, ClientsIn(notify_mapping[nk])) - 1
  BY <1>4, <1>5
<1> QED
  BY <1>2, <1>5, <1>6, <1>7, <1>8

(* The abort() of terminate_client is not reached: a key the client is owed *)
(* has a registration of the client.                                        *)
LEMMA TerminateKeyStep ==
  ASSUME IInv, TerminateKey
  PROVE  IInv'
<1> DEFINE c == task.conn
           rest == task.rest
           nk == Head(rest)
           s == notify_mapping[nk]
<1>1. /\ task.op = "terminate" /\ rest \in Seq(NKeys) /\ rest # << >>
      /\ c \in client_list /\ c \in Conns
  BY TaskShapes DEF TerminateKey, IInv, TypeOK, TaskOK
<1>2. /\ nk \in NKeys /\ Tail(rest) \in Seq(NKeys)
      /\ 1 \in DOMAIN rest /\ rest[1] = nk
  BY <1>1, HeadTailProperties, EmptySeq, LenProperties
<1>3. KeysOf(c) = rest
  BY <1>1 DEF KeysOf, BeingTerminated
<1>4. Registered(c, nk)
  <2>1. Occurrences(nk, rest) # 0
    BY <1>1, <1>2, OccursNot
  <2>2. Occurrences(c, ClientsIn(s)) # 0
    BY <1>1, <1>2, <1>3, <2>1 DEF IInv, RegistryOK, MappingsAgree
  <2>3. s \in Seq(Registration)
    BY <1>2 DEF IInv, TypeOK
  <2>4. \E i \in DOMAIN ClientsIn(s) : ClientsIn(s)[i] = c
    BY <2>2, <2>3, ClientsInType, OccursNot
  <2> QED
    BY <2>3, <2>4, ClientsInType DEF Registered
<1>5. PICK i \in DOMAIN s :
        /\ s[i].client = c
        /\ notify_mapping' = [notify_mapping EXCEPT ![nk] = RemoveAt(s, i)]
        /\ task' = Terminating(c, Tail(rest))
  BY <1>4 DEF TerminateKey, FirstOf
<1>6. /\ client_list' = client_list /\ fd' = fd
      /\ client_key_mapping' = client_key_mapping
  BY DEF TerminateKey, connVars
<1>7. TaskOK' /\ NoAbort'
  BY <1>1, <1>2, <1>5, <1>6, NewTask
<1>8. /\ notify_mapping' \in [NKeys -> Seq(Registration)]
      /\ NoDanglingClient'
      /\ \A d : \A k \in NKeys : k # nk \/ d # c =>
           Occurrences(d, ClientsIn(notify_mapping'[k])) =
             Occurrences(d, ClientsIn(notify_mapping[k]))
      /\ Occurrences(c, ClientsIn(notify_mapping'[nk])) =
           Occurrences(c, ClientsIn(notify_mapping[nk])) - 1
  <2>1. /\ notify_mapping'[nk] = RemoveAt(s, i)
        /\ \A k \in NKeys : k # nk => notify_mapping'[k] = notify_mapping[k]
    BY <1>2, <1>5 DEF IInv, TypeOK
  <2>2. s[i].client = c /\ client_list' = client_list
    BY <1>5, <1>6
  <2>3. /\ notify_mapping'[nk] \in Seq(Registration)
        /\ NoDanglingClient'
        /\ \A d : \A k \in NKeys : k # nk \/ d # c =>
             Occurrences(d, ClientsIn(notify_mapping'[k])) =
               Occurrences(d, ClientsIn(notify_mapping[k]))
        /\ Occurrences(c, ClientsIn(notify_mapping'[nk])) =
             Occurrences(c, ClientsIn(notify_mapping[nk])) - 1
    BY <1>2, <2>1, <2>2, RemoveRegistration
  <2>4. notify_mapping' \in [NKeys -> Seq(Registration)]
    BY <1>2, <1>5, <2>1, <2>3 DEF IInv, TypeOK
  <2> QED
    BY <2>3, <2>4
<1>9. TypeOK'
  BY <1>7, <1>8 DEF TerminateKey, connVars, IInv, TypeOK
<1>10. DescriptorsOK'
  BY <1>6 DEF IInv, RegistryOK, DescriptorsOK
<1>11. ASSUME NEW d \in client_list, NEW k \in NKeys
       PROVE  Occurrences(d, ClientsIn(notify_mapping'[k])) = Occurrences(k, KeysOf(d)')
  <2>1. task'.op = "terminate" /\ task'.conn = c /\ task'.rest = Tail(rest)
    BY <1>5, TaskShapes
  <2>2. Occurrences(d, ClientsIn(notify_mapping[k])) = Occurrences(k, KeysOf(d))
    BY DEF IInv, RegistryOK, MappingsAgree
  <2>3. CASE d = c
    <3>1. KeysOf(d)' = Tail(rest) /\ KeysOf(d) = rest
      BY <2>1, <2>3, <1>3 DEF KeysOf, BeingTerminated
    <3>2. /\ Occurrences(k, Tail(rest)) = Occurrences(k, rest) - (IF k = nk THEN 1 ELSE 0)
          /\ Occurrences(k, rest) \in Nat
      BY <1>1, OccurrencesTail, PositionsFinite
    <3>3. CASE k = nk
      BY <2>2, <2>3, <3>1, <3>2, <3>3, <1>8
    <3>4. CASE k # nk
      BY <2>2, <2>3, <3>1, <3>2, <3>4, <1>8
    <3> QED
      BY <3>3, <3>4
  <2>4. CASE d # c
    <3>1. KeysOf(d)' = KeysOf(d)
      BY <2>1, <2>4, <1>1, <1>6 DEF KeysOf, BeingTerminated
    <3> QED
      BY <2>2, <2>4, <3>1, <1>8
  <2> QED
    BY <2>3, <2>4
<1>12. MappingsAgree'
  BY <1>6, <1>11 DEF MappingsAgree
<1> QED
  BY <1>7, <1>8, <1>9, <1>10, <1>12 DEF IInv, RegistryOK

-----------------------------------------------------------------------------
(* Registering and unregistering.                                           *)

(* A request of client c that changes its list of keys and a list of        *)
(* registrations keeps the registry if both change alike.                   *)
LEMMA ListStep ==
  ASSUME IInv, NEW c \in Conns, MaySend(c), UNCHANGED connVars,
         client_key_mapping' \in [Fds -> Seq(NKeys)],
         \A f \in Fds : f # fd[c] => client_key_mapping'[f] = client_key_mapping[f],
         notify_mapping' \in [NKeys -> Seq(Registration)], NoDanglingClient',
         \A d \in client_list : \A k \in NKeys :
           Occurrences(d, ClientsIn(notify_mapping'[k])) =
             Occurrences(d, ClientsIn(notify_mapping[k]))
               + (IF d = c
                  THEN Occurrences(k, client_key_mapping'[fd[c]])
                         - Occurrences(k, client_key_mapping[fd[c]])
                  ELSE 0),
         db' \in DB, known' \in [Conns -> [NKeys -> Seq(MsgIds)]],
         NEW msgid, NEW data, Reply(c, msgid, 0, data, Idle)
  PROVE  IInv'
<1>1. /\ c \in client_list /\ fd[c] \in Fds
      /\ client_list' = client_list /\ fd' = fd
      /\ \A d \in client_list : fd[d] \in Fds /\ (fd[d] = fd[c] => d = c)
      /\ \A d \in client_list : KeysOf(d) = client_key_mapping[fd[d]]
  BY ServeFacts DEF connVars, IInv, RegistryOK, DescriptorsOK
<1>2. TaskOK' /\ NoAbort' /\ \A d \in client_list : KeysOf(d)' = client_key_mapping'[fd[d]]
  BY ReplyStep
<1>3. TypeOK'
  BY <1>2 DEF IInv, TypeOK, connVars
<1>4. DescriptorsOK'
  BY <1>1 DEF IInv, RegistryOK, DescriptorsOK
<1>5. ASSUME NEW d \in client_list, NEW k \in NKeys
      PROVE  Occurrences(d, ClientsIn(notify_mapping'[k])) = Occurrences(k, KeysOf(d)')
  <2>1. Occurrences(d, ClientsIn(notify_mapping[k])) = Occurrences(k, client_key_mapping[fd[d]])
    BY <1>1 DEF IInv, RegistryOK, MappingsAgree
  <2>2. /\ Occurrences(k, client_key_mapping[fd[d]]) \in Nat
        /\ Occurrences(k, client_key_mapping'[fd[d]]) \in Nat
    BY <1>1, PositionsFinite DEF IInv, TypeOK
  <2>3. CASE d = c
    BY <1>1, <1>2, <2>1, <2>2, <2>3
  <2>4. CASE d # c
    BY <1>1, <1>2, <2>1, <2>2, <2>4
  <2> QED
    BY <2>3, <2>4
<1>6. MappingsAgree'
  BY <1>1, <1>5 DEF MappingsAgree
<1> QED
  BY <1>2, <1>3, <1>4, <1>6 DEF IInv, RegistryOK

(* What an accepted NOTIFY changes.                                         *)
Register(c, nk, msgid, r) ==
  /\ notify_mapping' = [notify_mapping EXCEPT ![nk] = Append(@, r)]
  /\ client_key_mapping' = [client_key_mapping EXCEPT ![fd[c]] = Append(@, nk)]
  /\ known' = [known EXCEPT ![c][nk] = Append(@, msgid)]

LEMMA RegisterStep ==
  ASSUME IInv, NEW c \in Conns, MaySend(c), UNCHANGED <<db, connVars>>,
         NEW nk \in NKeys, NEW msgid \in MsgIds,
         NEW r \in Registration, r.client = c, Register(c, nk, msgid, r),
         Reply(c, msgid, 0, Null, Idle)
  PROVE  IInv'
<1> DEFINE s == notify_mapping[nk]
           keys == client_key_mapping[fd[c]]
<1>1. db' \in DB /\ UNCHANGED connVars
  BY DEF IInv, TypeOK
<1>2. /\ c \in client_list /\ fd[c] \in Fds /\ keys \in Seq(NKeys)
      /\ client_list' = client_list
  BY <1>1, ServeFacts DEF connVars
<1>3. /\ s \in Seq(Registration) /\ Append(s, r) \in Seq(Registration)
      /\ Len(Append(s, r)) = Len(s) + 1 /\ Append(s, r)[Len(s) + 1] = r
      /\ \A i \in 1..Len(s) : Append(s, r)[i] = s[i]
  BY AppendProperties DEF IInv, TypeOK
<1>4. /\ notify_mapping'[nk] = Append(s, r)
      /\ \A k \in NKeys : k # nk => notify_mapping'[k] = notify_mapping[k]
      /\ notify_mapping' \in [NKeys -> Seq(Registration)]
  BY <1>3 DEF Register, IInv, TypeOK
<1>5. NoDanglingClient'
  <2> SUFFICES ASSUME NEW k \in NKeys, NEW j \in DOMAIN notify_mapping'[k]
               PROVE  notify_mapping'[k][j].client \in client_list
    BY <1>2 DEF NoDanglingClient
  <2>1. CASE k # nk
    BY <2>1, <1>4 DEF IInv, RegistryOK, NoDanglingClient
  <2>2. CASE k = nk
    <3>1. Len(s) \in Nat /\ DOMAIN s = 1..Len(s) /\ j \in 1..(Len(s) + 1)
      BY <2>2, <1>3, <1>4, LenProperties
    <3> QED
      BY <3>1, <2>2, <1>2, <1>3, <1>4 DEF IInv, RegistryOK, NoDanglingClient
  <2> QED
    BY <2>1, <2>2
<1>6. /\ client_key_mapping'[fd[c]] = Append(keys, nk)
      /\ \A f \in Fds : f # fd[c] => client_key_mapping'[f] = client_key_mapping[f]
      /\ client_key_mapping' \in [Fds -> Seq(NKeys)]
  <2>1. Append(keys, nk) \in Seq(NKeys)
    BY <1>2, AppendProperties
  <2> QED
    BY <1>2, <2>1 DEF Register, IInv, TypeOK
<1>7. known' \in [Conns -> [NKeys -> Seq(MsgIds)]]
  <2>1. known[c][nk] \in Seq(MsgIds) /\ Append(known[c][nk], msgid) \in Seq(MsgIds)
    BY AppendProperties DEF IInv, TypeOK
  <2> QED
    BY <2>1 DEF Register, IInv, TypeOK
<1>8. ASSUME NEW d \in client_list, NEW k \in NKeys
      PROVE  Occurrences(d, ClientsIn(notify_mapping'[k])) =
               Occurrences(d, ClientsIn(notify_mapping[k]))
                 + (IF d = c
                    THEN Occurrences(k, client_key_mapping'[fd[c]])
                           - Occurrences(k, client_key_mapping[fd[c]])
                    ELSE 0)
  <2>1. /\ Occurrences(k, keys) \in Nat
        /\ ClientsIn(notify_mapping[k]) \in Seq(Conns)
        /\ Occurrences(d, ClientsIn(notify_mapping[k])) \in Nat
    BY <1>2, ClientsInType, PositionsFinite DEF IInv, TypeOK
  <2>2. Occurrences(k, client_key_mapping'[fd[c]]) =
          Occurrences(k, keys) + (IF k = nk THEN 1 ELSE 0)
    BY <1>2, <1>6, OccurrencesAppend
  <2>3. CASE k = nk
    <3>1. ClientsIn(Append(s, r)) = Append(ClientsIn(s), c)
      BY <1>3, ClientsInAppend
    <3>2. Occurrences(d, Append(ClientsIn(s), c)) =
            Occurrences(d, ClientsIn(s)) + (IF d = c THEN 1 ELSE 0)
      BY <2>1, <2>3, OccurrencesAppend
    <3>3. Occurrences(d, ClientsIn(notify_mapping'[k])) =
            Occurrences(d, ClientsIn(notify_mapping[k])) + (IF d = c THEN 1 ELSE 0)
      BY <2>3, <3>1, <3>2, <1>4
    <3> QED
      BY <2>1, <2>2, <2>3, <3>3
  <2>4. CASE k # nk
    BY <2>1, <2>2, <2>4, <1>4
  <2> QED
    BY <2>3, <2>4
<1> QED
  BY <1>1, <1>4, <1>5, <1>6, <1>7, <1>8, ListStep

LEMMA NotifyStep ==
  ASSUME IInv, NEW c \in Conns, NEW g \in Groups, NEW n \in Names, NEW t,
         NEW msgid \in MsgIds, Notify(c, Key(Null, g, n, t), msgid)
  PROVE  IInv'
<1> DEFINE key == Key(Null, g, n, t)
           nk == NotifyKeyName(key)
           v == GetValue(db, Rules, ConnUid[c], key, ConnLabel[c])
           r == [client |-> c, old_data |-> v.data, msgid |-> msgid, stale |-> FALSE]
<1>1. MaySend(c) /\ UNCHANGED <<db, connVars>> /\ db \in DB
  BY DEF Notify, IInv, TypeOK
<1>2. CASE UNCHANGED <<registryVars, known>> /\ Reply(c, msgid, -1, Null, Idle)
  BY <1>1, <1>2, RequestStep
<1>3. CASE /\ v.ret = "OK" /\ nk # Null
           /\ Register(c, nk, msgid, r)
           /\ Reply(c, msgid, 0, Null, Idle)
  <2>1. nk \in NKeys
    BY <1>3, KeyNames
  <2>2. v.data \in Data
    BY <1>1, <1>3, ReadIsStored, ConnAssumption
  <2>3. r \in Registration /\ r.client = c
    BY <2>2 DEF Registration
  <2> HIDE DEF r, nk, v
  <2> QED
    BY <1>1, <1>3, <2>1, <2>3, RegisterStep
<1> QED
  BY <1>2, <1>3 DEF Notify, Register

LEMMA UnregisterStep ==
  ASSUME IInv, NEW c \in Conns, NEW nk \in NKeys, NEW msgid, MaySend(c),
         UNCHANGED <<db, connVars>>, Unregister(c, nk, msgid)
  PROVE  IInv'
<1> DEFINE s == notify_mapping[nk]
           keys == client_key_mapping[fd[c]]
<1>1. PICK i \in DOMAIN s :
        /\ s[i].client = c
        /\ notify_mapping' = [notify_mapping EXCEPT ![nk] = RemoveAt(s, i)]
        /\ known' = [known EXCEPT ![c][nk] = RemoveFirst(@, s[i].msgid)]
        /\ client_key_mapping' = [client_key_mapping EXCEPT ![fd[c]] = RemoveFirst(keys, nk)]
        /\ Reply(c, msgid, 0, [msgid |-> s[i].msgid], Idle)
  BY DEF Unregister, ForgetKey, FirstOf
<1>2. db' \in DB /\ UNCHANGED connVars
  BY DEF IInv, TypeOK
<1>3. /\ c \in client_list /\ fd[c] \in Fds /\ keys \in Seq(NKeys)
      /\ KeysOf(c) = keys /\ client_list' = client_list
  BY <1>2, ServeFacts DEF connVars
<1>4. /\ notify_mapping' \in [NKeys -> Seq(Registration)] /\ NoDanglingClient'
      /\ \A d : \A k \in NKeys : k # nk \/ d # c =>
           Occurrences(d, ClientsIn(notify_mapping'[k])) =
             Occurrences(d, ClientsIn(notify_mapping[k]))
      /\ Occurrences(c, ClientsIn(notify_mapping'[nk])) =
           Occurrences(c, ClientsIn(notify_mapping[nk])) - 1
  <2>1. /\ notify_mapping'[nk] = RemoveAt(s, i)
        /\ \A k \in NKeys : k # nk => notify_mapping'[k] = notify_mapping[k]
    BY <1>1 DEF IInv, TypeOK
  <2>2. s[i].client = c /\ client_list' = client_list
    BY <1>1, <1>3
  <2>3. /\ notify_mapping'[nk] \in Seq(Registration)
        /\ NoDanglingClient'
        /\ \A d : \A k \in NKeys : k # nk \/ d # c =>
             Occurrences(d, ClientsIn(notify_mapping'[k])) =
               Occurrences(d, ClientsIn(notify_mapping[k]))
        /\ Occurrences(c, ClientsIn(notify_mapping'[nk])) =
             Occurrences(c, ClientsIn(notify_mapping[nk])) - 1
    <3> HIDE DEF keys
    <3>1. i \in DOMAIN notify_mapping[nk] /\ notify_mapping[nk][i].client = c
      BY <2>2
    <3> QED
      BY <2>1, <2>2, <3>1, RemoveRegistration, Z3T(20)
  <2>4. notify_mapping' \in [NKeys -> Seq(Registration)]
    BY <1>1, <2>1, <2>3 DEF IInv, TypeOK
  <2> QED
    BY <2>3, <2>4
<1>5. Occurrences(nk, keys) # 0
  <2>1. s \in Seq(Registration)
    BY DEF IInv, TypeOK
  <2>2. i \in DOMAIN ClientsIn(s) /\ ClientsIn(s)[i] = c /\ ClientsIn(s) \in Seq(Conns)
    BY <1>1, <2>1, ClientsInType
  <2>3. Occurrences(c, ClientsIn(s)) # 0
    BY <2>2, OccursNot
  <2> QED
    BY <1>3, <2>3 DEF IInv, RegistryOK, MappingsAgree
<1>6. /\ client_key_mapping'[fd[c]] = RemoveFirst(keys, nk)
      /\ \A f \in Fds : f # fd[c] => client_key_mapping'[f] = client_key_mapping[f]
      /\ client_key_mapping' \in [Fds -> Seq(NKeys)]
  <2>1. RemoveFirst(keys, nk) \in Seq(NKeys)
    BY <1>3, <1>5, OccurrencesRemoveFirst
  <2> QED
    BY <1>1, <1>3, <2>1 DEF IInv, TypeOK
<1>7. known' \in [Conns -> [NKeys -> Seq(MsgIds)]]
  <2> DEFINE new == RemoveFirst(known[c][nk], s[i].msgid)
  <2>1. known[c][nk] \in Seq(MsgIds)
    BY DEF IInv, TypeOK
  <2>2. new \in Seq(MsgIds)
    <3>1. CASE new = known[c][nk]
      BY <2>1, <3>1
    <3>2. CASE \E j \in 1..Len(known[c][nk]) : new = RemoveAt(known[c][nk], j)
      BY <2>1, <3>2, RemoveAtProperties
    <3> QED
      BY <2>1, <3>1, <3>2, RemoveFirstRemoves
  <2>3. known' = [known EXCEPT ![c][nk] = new]
    BY <1>1
  <2> HIDE DEF new
  <2> QED
    BY <2>2, <2>3 DEF IInv, TypeOK
<1>8. ASSUME NEW d \in client_list, NEW k \in NKeys
      PROVE  Occurrences(d, ClientsIn(notify_mapping'[k])) =
               Occurrences(d, ClientsIn(notify_mapping[k]))
                 + (IF d = c
                    THEN Occurrences(k, client_key_mapping'[fd[c]])
                           - Occurrences(k, client_key_mapping[fd[c]])
                    ELSE 0)
  <2>1. Occurrences(k, keys) \in Nat
    BY <1>3, PositionsFinite
  <2>2. Occurrences(d, ClientsIn(notify_mapping[k])) \in Nat
    BY ClientsInType, PositionsFinite DEF IInv, TypeOK
  <2>3. Occurrences(k, client_key_mapping'[fd[c]]) =
          Occurrences(k, keys) - (IF k = nk THEN 1 ELSE 0)
    BY <1>3, <1>5, <1>6, OccurrencesRemoveFirst
  <2>4. CASE k = nk
    BY <1>4, <2>1, <2>2, <2>3, <2>4
  <2>5. CASE k # nk
    BY <1>4, <2>1, <2>2, <2>3, <2>5
  <2> QED
    BY <2>4, <2>5
<1>9. \E data : Reply(c, msgid, 0, data, Idle)
  BY <1>1
<1> QED
  BY <1>2, <1>4, <1>6, <1>7, <1>8, <1>9, ListStep

LEMMA UnnotifyStep ==
  ASSUME IInv, NEW c \in Conns, NEW g \in Groups, NEW n \in Names, NEW t,
         NEW msgid \in MsgIds, Unnotify(c, Key(Null, g, n, t), msgid)
  PROVE  IInv'
<1> DEFINE nk == NotifyKeyName(Key(Null, g, n, t))
<1>1. MaySend(c) /\ UNCHANGED <<db, connVars>> /\ db \in DB
  BY DEF Unnotify, IInv, TypeOK
<1>2. CASE nk \in NKeys /\ Unregister(c, nk, msgid)
  BY <1>1, <1>2, UnregisterStep
<1>3. CASE UNCHANGED <<registryVars, known>> /\ Reply(c, msgid, -1, [msgid |-> 0], Idle)
  BY <1>1, <1>3, RequestStep
<1> QED
  BY <1>2, <1>3 DEF Unnotify

-----------------------------------------------------------------------------
(* The requests, one operator of Serve at a time.                           *)

LEMMA ServeDataStep ==
  ASSUME IInv, NEW c \in Conns, NEW m \in MsgIds, ServeData(c, m)
  PROVE  IInv'
<1>1. db \in DB /\ ConnUid[c] \in Uids /\ ConnLabel[c] \in Labels \cup {Null}
  BY ConnAssumption DEF IInv, TypeOK
<1>2. ASSUME NEW l \in Layers, NEW g \in Groups, NEW n \in Names, NEW v \in Values,
             Set(c, Key(l, g, n, v.type), v, m)
      PROVE  IInv'
  <2> DEFINE granted == CanSetValue(db, Rules, ConnUid[c], Key(l, g, n, v.type), v, ConnLabel[c])
             newdb == SetValue(db, Rules, ConnUid[c], Key(l, g, n, v.type), v, ConnLabel[c])
  <2>1. Write(c, Key(l, g, n, v.type), v, m, granted, newdb)
    BY <1>2 DEF Set
  <2>2. v \in Data
    BY DEF Data
  <2>3. granted => newdb \in DB
    BY <1>1, <2>2, SetValueType
  <2> HIDE DEF granted, newdb
  <2> QED
    BY <2>1, <2>3, WriteStep
<1>3. ASSUME NEW l \in Layers, NEW g \in Groups, NEW n \in Names, NEW t,
             Unset(c, Key(l, g, n, t), m)
      PROVE  IInv'
  <2> DEFINE granted == CanUnsetValue(db, Rules, ConnUid[c], Key(l, g, n, t), ConnLabel[c])
             newdb == UnsetValue(db, ConnUid[c], Key(l, g, n, t))
  <2>1. Write(c, Key(l, g, n, t), Null, m, granted, newdb)
    BY <1>3 DEF Unset
  <2>2. newdb \in DB
    BY <1>1, BackendUnsetType DEF UnsetValue
  <2> HIDE DEF granted, newdb
  <2> QED
    BY <2>1, <2>2, WriteStep
<1> QED
  BY <1>2, <1>3 DEF ServeData

LEMMA ServeGroupStep ==
  ASSUME IInv, NEW c \in Conns, NEW m \in MsgIds, ServeGroup(c, m)
  PROVE  IInv'
<1>1. db \in DB /\ ConnUid[c] \in Uids /\ ConnLabel[c] \in Labels \cup {Null}
  BY ConnAssumption DEF IInv, TypeOK
<1>2. ASSUME NEW l \in Layers, NEW g \in Groups,
             CreateKeyGroup(c, Key(l, g, Null, "STRING"), m)
      PROVE  IInv'
  <2> DEFINE key == Key(l, g, Null, "STRING")
             granted == CanCreateGroup(db, Rules, ConnUid[c], key)
             newdb == CreateGroup(db, ConnUid[c], key, ConnLabel[c])
  <2>1. Administer(c, m, granted, newdb)
    BY <1>2 DEF CreateKeyGroup
  <2>2. granted => newdb \in DB
    BY <1>1, CreateGroupType
  <2> HIDE DEF granted, newdb
  <2> QED
    BY <2>1, <2>2, AdministerStep
<1>3. ASSUME NEW l \in Layers, NEW g \in Groups,
             RemoveKeyGroup(c, Key(l, g, Null, "STRING"), m)
      PROVE  IInv'
  <2> DEFINE key == Key(l, g, Null, "STRING")
             granted == CanRemoveGroup(db, Rules, ConnUid[c], key, ConnLabel[c])
             newdb == RemoveGroup(db, ConnUid[c], key)
  <2>1. Administer(c, m, granted, newdb)
    BY <1>3 DEF RemoveKeyGroup
  <2>2. newdb \in DB
    BY <1>1, BackendUnsetType DEF RemoveGroup
  <2> HIDE DEF granted, newdb
  <2> QED
    BY <2>1, <2>2, AdministerStep
<1>4. ASSUME NEW l \in Layers, NEW g \in Groups, NEW n \in Names \cup {Null},
             NEW b \in Labels, SetKeyLabel(c, Key(l, g, n, "UNSET"), b, m)
      PROVE  IInv'
  <2> DEFINE key == Key(l, g, n, "UNSET")
             granted == CanSetLabel(db, ConnUid[c], key)
             newdb == SetLabel(db, ConnUid[c], key, b)
  <2>1. Administer(c, m, granted, newdb)
    BY <1>4 DEF SetKeyLabel
  <2>2. granted => newdb \in DB
    BY <1>1, SetLabelType
  <2> HIDE DEF granted, newdb
  <2> QED
    BY <2>1, <2>2, AdministerStep
<1> QED
  BY <1>2, <1>3, <1>4 DEF ServeGroup

LEMMA ServeReadStep ==
  ASSUME IInv, NEW c \in Conns, NEW m \in MsgIds, ServeRead(c, m)
  PROVE  IInv'
<1>1. ASSUME NEW key, NEW field, Get(c, key, m, field)
      PROVE  IInv'
  <2>1. PICK granted, data : Answer(c, m, granted, data)
    BY <1>1 DEF Get
  <2> QED
    BY <2>1, AnswerStep
<1>2. ASSUME NEW l, NEW g, ListNames(c, l, g, m)
      PROVE  IInv'
  <2>1. PICK granted, data : Answer(c, m, granted, data)
    BY <1>2 DEF ListNames
  <2> QED
    BY <2>1, AnswerStep
<1> QED
  BY <1>1, <1>2 DEF ServeRead

LEMMA ServeStep ==
  ASSUME IInv, NEW c \in Conns, Serve(c)
  PROVE  IInv'
<1>1. CASE BadMessage(c)
  BY <1>1, StartTerminateStep DEF BadMessage, MaySend
<1>2. ASSUME NEW m \in MsgIds, ServeRegistration(c, m)
      PROVE  IInv'
  BY <1>2, NotifyStep, UnnotifyStep DEF ServeRegistration
<1> QED
  BY <1>1, <1>2, ServeDataStep, ServeGroupStep, ServeReadStep DEF Serve

-----------------------------------------------------------------------------
(* A daemon that has just started has no clients and no registrations.      *)
Fresh ==
  /\ client_list = {} /\ fd = [c \in Conns |-> Null]
  /\ notify_mapping = [nk \in NKeys |-> << >>]
  /\ client_key_mapping = [f \in Fds |-> << >>]
  /\ known = [c \in Conns |-> [nk \in NKeys |-> << >>]]
  /\ task = Idle
  /\ db \in DB /\ accepted \subseteq Conns /\ hungup \subseteq accepted

LEMMA FreshRegistry == Fresh => IInv
<1> SUFFICES ASSUME Fresh
             PROVE  IInv
  OBVIOUS
<1>1. TaskOK /\ NoAbort
  BY TaskShapes DEF Fresh, TaskOK, NoAbort
<1>2. TypeOK
  <2>1. \A S : << >> \in Seq(S)
    BY EmptySeq
  <2> QED
    BY <1>1, <2>1 DEF Fresh, TypeOK
<1>3. DescriptorsOK /\ NoDanglingClient /\ MappingsAgree
  BY DEF Fresh, DescriptorsOK, NoDanglingClient, MappingsAgree
<1> QED
  BY <1>1, <1>2, <1>3 DEF IInv, RegistryOK

LEMMA InitStep == Init => IInv
<1>1. EmptyDB \in DB
  BY DEF EmptyDB, DB
<1>2. Init => Fresh
  BY <1>1 DEF Init, Fresh
<1> QED
  BY <1>2, FreshRegistry

LEMMA RestartStep ==
  ASSUME IInv, Restart
  PROVE  IInv'
<1>1. Fresh'
  BY PersistedType DEF Restart, Fresh, IInv, TypeOK
<1>2. Fresh' => IInv'
  BY FreshRegistry, PTL
<1> QED
  BY <1>1, <1>2

-----------------------------------------------------------------------------
LEMMA NextStep ==
  ASSUME IInv, [Next]_vars
  PROVE  IInv'
<1>1. ASSUME NEW c \in Conns, EndOfStream(c)
      PROVE  IInv'
  BY <1>1, StartTerminateStep DEF EndOfStream
<1>2. CASE Walk
  BY <1>2, TerminateKeyStep, TerminateDoneStep, NotifyOneStep, NotifyDoneStep DEF Walk
<1>3. CASE UNCHANGED vars
  BY <1>3 DEF vars, IInv, TypeOK, TaskOK, NoAbort, RegistryOK, DescriptorsOK,
              NoDanglingClient, MappingsAgree, KeysOf, BeingTerminated
<1> QED
  BY <1>1, <1>2, <1>3, AcceptStep, HangupStep, ServeStep, RestartStep DEF Next

(* In every reachable state the inductive invariant holds.                  *)
THEOREM Inductive == Spec => []IInv
BY InitStep, NextStep, PTL DEF Spec

(* Whatever clients connect, request, register and close in whatever order, *)
(* the daemon's tables have their types and a walk is over a key or over    *)
(* the keys of a client that has not been freed.                            *)
THEOREM TypeCorrect == Spec => []TypeOK
<1>1. IInv => TypeOK
  BY DEF IInv
<1> QED
  BY <1>1, Inductive, PTL

(* notify_mapping and client_key_mapping agree, no registration points to a *)
(* freed client, and a descriptor that the kernel hands out again has no    *)
(* keys left of its last owner.  (register_notification,                    *)
(* unregister_notification, terminate_client)                               *)
THEOREM RegistryConsistent == Spec => []RegistryOK
<1>1. IInv => RegistryOK
  BY DEF IInv
<1> QED
  BY <1>1, Inductive, PTL

(* terminate_client never reaches its abort().                              *)
THEOREM NeverAborts == Spec => []NoAbort
<1>1. IInv => NoAbort
  BY DEF IInv
<1> QED
  BY <1>1, Inductive, PTL

-----------------------------------------------------------------------------
(* Lists of message ids.                                                    *)
Own(c, s) == {k \in 1..Len(s) : s[k].client = c}

LEMMA OwnPositions ==
  ASSUME NEW s \in Seq(Registration), NEW c
  PROVE  Positions(c, ClientsIn(s)) = Own(c, s)
BY ClientsInType DEF Positions, Own

(* The list of ids is that of the registrations at these places.            *)
ListedAt(place, ids, c, s) ==
  /\ place \in [1..Len(ids) -> Own(c, s)]
  /\ \A i, j \in 1..Len(ids) : i < j => place[i] < place[j]
  /\ \A k \in Own(c, s) : \E i \in 1..Len(ids) : place[i] = k
  /\ \A i \in 1..Len(ids) : s[place[i]].msgid = ids[i]

LEMMA ListsAt ==
  ASSUME NEW s \in Seq(Registration), NEW c, NEW ids \in Seq(MsgIds)
  PROVE  Lists(ids, c, s) <=> \E place : ListedAt(place, ids, c, s)
<1> DEFINE At(place, D, own) ==
             /\ place \in [D -> own]
             /\ \A i, j \in D : i < j => place[i] < place[j]
             /\ \A k \in own : \E i \in D : place[i] = k
             /\ \A i \in D : s[place[i]].msgid = ids[i]
<1>1. DOMAIN ids = 1..Len(ids) /\ Positions(c, ClientsIn(s)) = Own(c, s)
  BY LenProperties, OwnPositions
<1>2. Lists(ids, c, s) <=> \E place : At(place, DOMAIN ids, Positions(c, ClientsIn(s)))
  BY Zenon DEF Lists
<1>3. \A place : At(place, 1..Len(ids), Own(c, s)) <=> ListedAt(place, ids, c, s)
  BY Zenon DEF ListedAt
<1> HIDE DEF At
<1> QED
  BY <1>1, <1>2, <1>3

LEMMA ListsNone ==
  ASSUME NEW s \in Seq(Registration), NEW c, \A i \in DOMAIN s : s[i].client # c
  PROVE  Lists(<< >>, c, s)
<1>1. Own(c, s) = {} /\ << >> \in Seq(MsgIds) /\ Len(<< >>) = 0
  BY LenProperties, EmptySeq DEF Own
<1>2. ListedAt(<< >>, << >>, c, s)
  BY <1>1 DEF ListedAt
<1> QED
  BY <1>1, <1>2, ListsAt

LEMMA ListsAlike ==
  ASSUME NEW s \in Seq(Registration), NEW t \in Seq(Registration), NEW c,
         NEW ids \in Seq(MsgIds), Len(t) = Len(s),
         \A i \in 1..Len(s) : t[i].client = s[i].client /\ t[i].msgid = s[i].msgid,
         Lists(ids, c, s)
  PROVE  Lists(ids, c, t)
<1>1. PICK place : ListedAt(place, ids, c, s)
  BY ListsAt
<1>2. Own(c, t) = Own(c, s)
  BY DEF Own
<1>3. \A k \in Own(c, s) : t[k].msgid = s[k].msgid
  BY DEF Own
<1>4. ListedAt(place, ids, c, t)
  BY <1>1, <1>2, <1>3 DEF ListedAt
<1> QED
  BY <1>4, ListsAt

LEMMA ListsAppendOther ==
  ASSUME NEW s \in Seq(Registration), NEW r \in Registration, NEW c, r.client # c,
         NEW ids \in Seq(MsgIds), Lists(ids, c, s)
  PROVE  Lists(ids, c, Append(s, r))
<1> DEFINE t == Append(s, r)
<1>1. PICK place : ListedAt(place, ids, c, s)
  BY ListsAt
<1>2. /\ t \in Seq(Registration) /\ Len(t) = Len(s) + 1 /\ Len(s) \in Nat
      /\ \A i \in 1..Len(s) : t[i] = s[i]
      /\ t[Len(s) + 1] = r
  BY AppendProperties, LenProperties
<1> HIDE DEF t
<1>3. Own(c, t) = Own(c, s) /\ \A k \in Own(c, s) : t[k] = s[k]
  BY <1>2 DEF Own
<1>4. ListedAt(place, ids, c, t)
  BY <1>1, <1>3 DEF ListedAt
<1>5. Lists(ids, c, t)
  BY <1>2, <1>4, ListsAt
<1> QED
  BY <1>5 DEF t

LEMMA ListsAppendOwn ==
  ASSUME NEW s \in Seq(Registration), NEW r \in Registration,
         NEW ids \in Seq(MsgIds), Lists(ids, r.client, s)
  PROVE  Lists(Append(ids, r.msgid), r.client, Append(s, r))
<1> DEFINE t == Append(s, r)
           new == Append(ids, r.msgid)
           c == r.client
           n == Len(ids)
<1>1. PICK place : ListedAt(place, ids, c, s)
  BY ListsAt
<1> DEFINE place2 == [i \in 1..(n + 1) |-> IF i <= n THEN place[i] ELSE Len(s) + 1]
<1>2. /\ t \in Seq(Registration) /\ Len(t) = Len(s) + 1 /\ Len(s) \in Nat
      /\ \A i \in 1..Len(s) : t[i] = s[i]
      /\ t[Len(s) + 1] = r
  BY AppendProperties, LenProperties
<1>3. /\ new \in Seq(MsgIds) /\ Len(new) = n + 1 /\ n \in Nat
      /\ \A i \in 1..n : new[i] = ids[i]
      /\ new[n + 1] = r.msgid
  <2>1. r.msgid \in MsgIds
    BY DEF Registration
  <2> QED
    BY <2>1, AppendProperties, LenProperties
<1> HIDE DEF t, new
<1>4. /\ Own(c, t) = Own(c, s) \cup {Len(s) + 1}
      /\ \A k \in Own(c, s) : t[k] = s[k] /\ k < Len(s) + 1 /\ k \in Nat
  BY <1>2 DEF Own
<1>5. /\ place \in [1..n -> Own(c, s)]
      /\ \A i, j \in 1..n : i < j => place[i] < place[j]
      /\ \A k \in Own(c, s) : \E i \in 1..n : place[i] = k
      /\ \A i \in 1..n : s[place[i]].msgid = ids[i]
  BY <1>1 DEF ListedAt
<1> HIDE DEF n, c
<1>6. place2 \in [1..(n + 1) -> Own(c, t)]
  BY <1>3, <1>4, <1>5
<1>7. /\ \A i \in 1..n : place2[i] = place[i] /\ i \in 1..(n + 1)
      /\ place2[n + 1] = Len(s) + 1 /\ n + 1 \in 1..(n + 1)
      /\ \A i \in 1..(n + 1) : i \in 1..n \/ i = n + 1
  BY <1>3, <1>5
<1> HIDE DEF place2
<1>8. ASSUME NEW i \in 1..(n + 1), NEW j \in 1..(n + 1), i < j
      PROVE  place2[i] < place2[j]
  <2>1. i \in 1..n
    BY <1>3, <1>8
  <2>2. CASE j \in 1..n
    BY <1>5, <1>7, <1>8, <2>1, <2>2
  <2>3. CASE j = n + 1
    BY <1>4, <1>5, <1>7, <2>1, <2>3
  <2> QED
    BY <1>7, <2>2, <2>3
<1>9. \A k \in Own(c, t) : \E i \in 1..(n + 1) : place2[i] = k
  BY <1>4, <1>5, <1>7
<1>10. ASSUME NEW i \in 1..(n + 1)
       PROVE  t[place2[i]].msgid = new[i]
  <2>1. CASE i \in 1..n
    <3>1. place2[i] = place[i] /\ place[i] \in Own(c, s)
      BY <1>5, <1>7, <2>1
    <3>2. t[place2[i]] = s[place[i]]
      BY <1>4, <3>1
    <3> QED
      BY <1>3, <1>5, <2>1, <3>2
  <2>2. CASE i = n + 1
    BY <1>2, <1>3, <1>7, <2>2
  <2> QED
    BY <1>7, <2>1, <2>2
<1>11. ListedAt(place2, new, c, t)
  BY <1>3, <1>6, <1>8, <1>9, <1>10 DEF ListedAt
<1>12. Lists(new, c, t)
  BY <1>2, <1>3, <1>11, ListsAt
<1> QED
  BY <1>12 DEF t, new, c

(* t is s without the registration at position p.                           *)
LEMMA ListsRemoveOther ==
  ASSUME NEW s \in Seq(Registration), NEW p \in 1..Len(s), NEW c, s[p].client # c,
         NEW ids \in Seq(MsgIds), Lists(ids, c, s)
  PROVE  Lists(ids, c, RemoveAt(s, p))
<1> DEFINE t == RemoveAt(s, p)
           n == Len(ids)
           Shift(k) == IF k < p THEN k ELSE k - 1
<1>1. PICK place : ListedAt(place, ids, c, s)
  BY ListsAt
<1> DEFINE place2 == [i \in 1..n |-> Shift(place[i])]
<1>2. /\ t \in Seq(Registration) /\ Len(t) = Len(s) - 1 /\ Len(s) \in Nat
      /\ \A j \in 1..(Len(s) - 1) : t[j] = IF j < p THEN s[j] ELSE s[j + 1]
  BY RemoveAtProperties, LenProperties
<1> HIDE DEF t
<1>3. ASSUME NEW k \in Own(c, s)
      PROVE  /\ k # p /\ k \in Nat /\ k \in 1..Len(s)
             /\ Shift(k) \in Own(c, t) /\ t[Shift(k)] = s[k]
  <2>1. k \in 1..Len(s) /\ s[k].client = c /\ k # p
    BY DEF Own
  <2>2. CASE k < p
    BY <1>2, <2>1, <2>2 DEF Own
  <2>3. CASE ~(k < p)
    <3>1. k - 1 \in 1..(Len(s) - 1) /\ ~(k - 1 < p) /\ (k - 1) + 1 = k
      BY <1>2, <2>1, <2>3
    <3>2. t[k - 1] = s[k]
      BY <1>2, <3>1
    <3> QED
      BY <1>2, <2>1, <2>3, <3>1, <3>2 DEF Own
  <2> QED
    BY <2>2, <2>3
<1>4. ASSUME NEW k \in Own(c, t)
      PROVE  \E k2 \in Own(c, s) : Shift(k2) = k
  <2>1. k \in 1..(Len(s) - 1) /\ t[k].client = c
    BY <1>2 DEF Own
  <2>2. CASE k < p
    <3>1. k \in Own(c, s)
      BY <1>2, <2>1, <2>2 DEF Own
    <3> QED
      BY <3>1, <2>2
  <2>3. CASE ~(k < p)
    <3>1. k + 1 \in Own(c, s)
      BY <1>2, <2>1, <2>3 DEF Own
    <3>2. Shift(k + 1) = k
      BY <1>2, <2>1, <2>3
    <3> QED
      BY <3>1, <3>2
  <2> QED
    BY <2>2, <2>3
<1>5. /\ place \in [1..n -> Own(c, s)]
      /\ \A i, j \in 1..n : i < j => place[i] < place[j]
      /\ \A k \in Own(c, s) : \E i \in 1..n : place[i] = k
      /\ \A i \in 1..n : s[place[i]].msgid = ids[i]
  BY <1>1 DEF ListedAt
<1>6. \A k, m \in Own(c, s) : k < m => Shift(k) < Shift(m)
  BY <1>3
<1> HIDE DEF n, Shift
<1>7. place2 \in [1..n -> Own(c, t)] /\ \A i \in 1..n : place2[i] = Shift(place[i])
  BY <1>3, <1>5
<1> HIDE DEF place2
<1>8. \A i, j \in 1..n : i < j => place2[i] < place2[j]
  BY <1>5, <1>6, <1>7
<1>9. \A k \in Own(c, t) : \E i \in 1..n : place2[i] = k
  BY <1>4, <1>5, <1>7
<1>10. \A i \in 1..n : t[place2[i]].msgid = ids[i]
  BY <1>3, <1>5, <1>7
<1>11. ListedAt(place2, ids, c, t)
  BY <1>7, <1>8, <1>9, <1>10 DEF ListedAt, n
<1>12. Lists(ids, c, t)
  BY <1>2, <1>11, ListsAt
<1> QED
  BY <1>12 DEF t

(* The first registration of a client is the first in its list.             *)
LEMMA ListsRemoveFirst ==
  ASSUME NEW s \in Seq(Registration), NEW p \in 1..Len(s), NEW c, FirstOf(c, s, p),
         NEW ids \in Seq(MsgIds), Lists(ids, c, s)
  PROVE  /\ RemoveFirst(ids, s[p].msgid) \in Seq(MsgIds)
         /\ Lists(RemoveFirst(ids, s[p].msgid), c, RemoveAt(s, p))
<1> DEFINE t == RemoveAt(s, p)
           n == Len(ids)
           new == RemoveFirst(ids, s[p].msgid)
<1>1. PICK place : ListedAt(place, ids, c, s)
  BY ListsAt
<1> DEFINE place2 == [i \in 1..(n - 1) |-> place[i + 1] - 1]
<1>2. /\ t \in Seq(Registration) /\ Len(t) = Len(s) - 1 /\ Len(s) \in Nat
      /\ \A j \in 1..(Len(s) - 1) : t[j] = IF j < p THEN s[j] ELSE s[j + 1]
  BY RemoveAtProperties, LenProperties
<1>3. /\ place \in [1..n -> Own(c, s)]
      /\ \A i, j \in 1..n : i < j => place[i] < place[j]
      /\ \A k \in Own(c, s) : \E i \in 1..n : place[i] = k
      /\ \A i \in 1..n : s[place[i]].msgid = ids[i]
      /\ n \in Nat
  BY <1>1, LenProperties DEF ListedAt
<1>4. p \in Own(c, s) /\ \A k \in Own(c, s) : p <= k /\ k \in 1..Len(s) /\ k \in Nat
  BY <1>2 DEF FirstOf, Own
<1>5. 1 \in 1..n /\ place[1] = p
  <2>1. PICK i \in 1..n : place[i] = p
    BY <1>3, <1>4
  <2>2. 1 \in 1..n /\ (i # 1 => 1 < i)
    BY <1>3, <2>1
  <2>3. place[1] \in Own(c, s) /\ (i # 1 => place[1] < p)
    BY <1>3, <2>1, <2>2
  <2>4. p \in Nat /\ place[1] \in Nat /\ p <= place[1]
    BY <1>4, <2>3
  <2>5. i = 1
    BY <2>3, <2>4
  <2> QED
    BY <2>1, <2>2, <2>5
<1>6. ids[1] = s[p].msgid
  BY <1>3, <1>5
<1>7. new = RemoveAt(ids, 1)
  BY <1>5, <1>6, RemoveFirstIsHead
<1>8. /\ new \in Seq(MsgIds) /\ Len(new) = n - 1
      /\ \A i \in 1..(n - 1) : new[i] = ids[i + 1] /\ i \in 1..n /\ i + 1 \in 1..n
  <2>1. /\ new \in Seq(MsgIds) /\ Len(new) = n - 1
        /\ \A i \in 1..(n - 1) : new[i] = IF i < 1 THEN ids[i] ELSE ids[i + 1]
    BY <1>5, <1>7, RemoveAtProperties
  <2> QED
    BY <1>3, <2>1
<1> HIDE DEF t, new, n
<1>9. ASSUME NEW i \in 1..(n - 1)
      PROVE  /\ place2[i] = place[i + 1] - 1 /\ place2[i] \in Own(c, t)
             /\ place[i + 1] \in Nat
             /\ t[place2[i]] = s[place[i + 1]]
  <2> DEFINE k == place[i + 1]
  <2>1. k \in Own(c, s) /\ p < k /\ k \in 1..Len(s)
    <3>1. i + 1 \in 1..n /\ 1 < i + 1
      BY <1>3, <1>8
    <3>2. k \in Own(c, s)
      BY <1>3, <3>1
    <3>3. place[1] < k
      BY <1>3, <1>5, <3>1
    <3> QED
      BY <1>4, <1>5, <3>2, <3>3
  <2>2. k - 1 \in 1..(Len(s) - 1) /\ ~(k - 1 < p) /\ (k - 1) + 1 = k
    BY <1>2, <1>4, <2>1
  <2>3. t[k - 1] = s[k] /\ s[k].client = c
    BY <1>2, <2>1, <2>2 DEF Own
  <2>4. place2[i] = k - 1
    OBVIOUS
  <2> HIDE DEF k, place2
  <2>5. k - 1 \in Own(c, t)
    BY <1>2, <2>2, <2>3 DEF Own
  <2> QED
    BY <2>1, <2>3, <2>4, <2>5 DEF k
<1>10. place2 \in [1..(n - 1) -> Own(c, t)]
  BY <1>9
<1> HIDE DEF place2
<1>11. \A i, j \in 1..(n - 1) : i < j => place2[i] < place2[j]
  <2> SUFFICES ASSUME NEW i \in 1..(n - 1), NEW j \in 1..(n - 1), i < j
               PROVE  place2[i] < place2[j]
    OBVIOUS
  <2>1. place[i + 1] < place[j + 1]
    BY <1>3, <1>8
  <2> QED
    BY <2>1, <1>9
<1>12. ASSUME NEW k \in Own(c, t)
       PROVE  \E i \in 1..(n - 1) : place2[i] = k
  <2>1. k \in 1..(Len(s) - 1) /\ t[k].client = c
    BY <1>2 DEF Own
  <2>2. ~(k < p)
    BY <1>2, <2>1 DEF FirstOf
  <2>3. k + 1 \in Own(c, s) /\ p < k + 1
    BY <1>2, <1>4, <2>1, <2>2 DEF Own
  <2>4. PICK j \in 1..n : place[j] = k + 1
    BY <1>3, <2>3
  <2>5. j # 1
    BY <1>5, <2>3, <2>4, <1>4
  <2>6. j - 1 \in 1..(n - 1) /\ (j - 1) + 1 = j
    BY <1>3, <2>5
  <2>7. place2[j - 1] = k
    BY <1>9, <2>1, <2>4, <2>6
  <2> QED
    BY <2>6, <2>7
<1>13. ASSUME NEW i \in 1..(n - 1)
       PROVE  t[place2[i]].msgid = new[i]
  <2>1. s[place[i + 1]].msgid = ids[i + 1]
    BY <1>3, <1>8
  <2> QED
    BY <1>8, <1>9, <2>1
<1>14. ListedAt(place2, new, c, t)
  BY <1>8, <1>10, <1>11, <1>12, <1>13 DEF ListedAt
<1>15. Lists(new, c, t)
  BY <1>2, <1>8, <1>14, ListsAt
<1> QED
  BY <1>8, <1>15 DEF t, new

-----------------------------------------------------------------------------
(* The view of the clients, strengthened: a connection that is not in       *)
(* client_list was told of nothing, and a CHANGED message leaves the walk   *)
(* it was written by under way.                                             *)
StrangersKnowNothing == \A c \in Conns \ client_list, nk \in NKeys : known[c][nk] = << >>

SentToKnown ==
  out.type = "CHANGED" =>
    /\ task.op = "notify" /\ out.to \in client_list
    /\ \E i \in DOMAIN known[out.to][task.key] : known[out.to][task.key][i] = out.msgid

ViewsOK == ClientViewAgrees /\ StrangersKnowNothing
ViewInv == IInv /\ ViewsOK /\ SentToKnown

(* Two lists of the same registrations, but for what was last sent.         *)
Alike(s, t) ==
  /\ Len(t) = Len(s)
  /\ \A i \in 1..Len(s) : t[i].client = s[i].client /\ t[i].msgid = s[i].msgid

LEMMA AlikeSelf ==
  ASSUME NEW s
  PROVE  Alike(s, s)
BY DEF Alike

(* A step that keeps what the clients know, and the lists but for what was  *)
(* last sent.                                                               *)
LEMMA QuietView ==
  ASSUME ViewInv, IInv', client_list' = client_list, known' = known,
         \A nk \in NKeys : Alike(notify_mapping[nk], notify_mapping'[nk]),
         \A c \in client_list : BeingTerminated(c) => BeingTerminated(c)'
  PROVE  ViewsOK'
<1>1. ClientViewAgrees'
  <2> SUFFICES ASSUME NEW c \in client_list, NEW nk \in NKeys, ~BeingTerminated(c)'
               PROVE  Lists(known[c][nk], c, notify_mapping'[nk])
    BY DEF ClientViewAgrees
  <2>1. Lists(known[c][nk], c, notify_mapping[nk])
    BY DEF ViewInv, ViewsOK, ClientViewAgrees
  <2>2. /\ notify_mapping[nk] \in Seq(Registration) /\ notify_mapping'[nk] \in Seq(Registration)
        /\ known[c][nk] \in Seq(MsgIds)
    BY DEF ViewInv, IInv, TypeOK
  <2> QED
    BY <2>1, <2>2, ListsAlike DEF Alike
<1>2. StrangersKnowNothing'
  BY DEF ViewInv, ViewsOK, StrangersKnowNothing
<1> QED
  BY <1>1, <1>2 DEF ViewsOK

LEMMA SilentView ==
  ASSUME out'.type # "CHANGED"
  PROVE  SentToKnown'
BY DEF SentToKnown

LEMMA NotChanged ==
  /\ Silence.type # "CHANGED"
  /\ \A c, msgid, status, data : StatusMessage(c, msgid, status, data).type # "CHANGED"
BY DEF Silence, StatusMessage

LEMMA ReplyIsNoChange ==
  ASSUME NEW c, NEW msgid, NEW status, NEW data, NEW next, Reply(c, msgid, status, data, next)
  PROVE  SentToKnown'
BY NotChanged, SilentView DEF Reply

LEMMA IdleViews ==
  ASSUME task = Idle, NEW c
  PROVE  ~BeingTerminated(c)
BY TaskShapes DEF BeingTerminated

LEMMA MarkStaleAlike ==
  ASSUME notify_mapping \in [NKeys -> Seq(Registration)],
         NEW nk, nk = Null \/ nk \in NKeys, NEW value, MarkStale(nk, value)
  PROVE  \A k \in NKeys : Alike(notify_mapping[k], notify_mapping'[k])
<1>1. CASE nk = Null
  BY <1>1, AlikeSelf DEF MarkStale
<1>2. CASE nk # Null
  <2> DEFINE s == notify_mapping[nk]
             marked(n) == [n EXCEPT !.stale = n.old_data # SentData(value)]
             t == [i \in DOMAIN s |-> marked(s[i])]
  <2>1. nk \in NKeys /\ notify_mapping' = [notify_mapping EXCEPT ![nk] = t]
    BY <1>2 DEF MarkStale
  <2>2. /\ s \in Seq(Registration) /\ Len(s) \in Nat /\ DOMAIN s = 1..Len(s)
        /\ \A i \in 1..Len(s) : s[i] \in Registration
    BY <2>1, ClientsInType
  <2>3. ASSUME NEW n \in Registration
        PROVE  /\ marked(n) \in Registration
               /\ marked(n).client = n.client /\ marked(n).msgid = n.msgid
    BY DEF Registration
  <2>4. Alike(s, t)
    <3>1. t = [i \in 1..Len(s) |-> marked(s[i])]
      BY <2>2
    <3> HIDE DEF t, s, marked
    <3>2. t \in [1..Len(s) -> Registration]
      BY <3>1, <2>2, <2>3
    <3>3. Len(t) = Len(s)
      BY <3>2, <2>2, SeqDef, LenProperties
    <3> QED
      BY <3>1, <3>3, <2>2, <2>3 DEF Alike
  <2> HIDE DEF t
  <2> QED
    BY <2>1, <2>4, AlikeSelf
<1> QED
  BY <1>1, <1>2

LEMMA WriteView ==
  ASSUME ViewInv, IInv', NEW c \in Conns, NEW l, NEW g \in Groups, NEW n \in Names, NEW t,
         NEW value, NEW msgid, NEW granted, NEW newdb,
         Write(c, Key(l, g, n, t), value, msgid, granted, newdb)
  PROVE  ViewInv'
<1> DEFINE nk == NotifyKeyName(Key(l, g, n, t))
<1>1. /\ task = Idle /\ known' = known /\ client_list' = client_list
  BY DEF Write, MaySend, connVars
<1>2. nk = Null \/ nk \in NKeys
  BY KeyNames
<1>3. \A k \in NKeys : Alike(notify_mapping[k], notify_mapping'[k])
  <2>1. CASE granted
    <3>1. notify_mapping \in [NKeys -> Seq(Registration)]
      BY DEF ViewInv, IInv, TypeOK
    <3> QED
      BY <2>1, <3>1, <1>2, MarkStaleAlike DEF Write
  <2>2. CASE ~granted
    BY <2>2, AlikeSelf DEF Write, registryVars
  <2> QED
    BY <2>1, <2>2
<1>4. SentToKnown'
  BY ReplyIsNoChange DEF Write
<1>5. ViewsOK'
  BY <1>1, <1>3, IdleViews, QuietView
<1> QED
  BY <1>4, <1>5 DEF ViewInv

LEMMA RequestView ==
  ASSUME ViewInv, IInv', task = Idle, client_list' = client_list,
         UNCHANGED <<registryVars, known>>, SentToKnown'
  PROVE  ViewInv'
<1>1. \A k \in NKeys : Alike(notify_mapping[k], notify_mapping'[k])
  BY AlikeSelf DEF registryVars
<1>2. ViewsOK'
  BY <1>1, IdleViews, QuietView
<1> QED
  BY <1>2 DEF ViewInv

LEMMA AdministerView ==
  ASSUME ViewInv, IInv', NEW c \in Conns, NEW msgid, NEW granted, NEW newdb,
         Administer(c, msgid, granted, newdb)
  PROVE  ViewInv'
BY ReplyIsNoChange, RequestView DEF Administer, MaySend, connVars

LEMMA AnswerView ==
  ASSUME ViewInv, IInv', NEW c \in Conns, NEW msgid, NEW granted, NEW data,
         Answer(c, msgid, granted, data)
  PROVE  ViewInv'
BY ReplyIsNoChange, RequestView DEF Answer, MaySend, connVars

LEMMA StartTerminateView ==
  ASSUME ViewInv, IInv', task = Idle, out' = Silence,
         UNCHANGED <<db, connVars, registryVars, known>>
  PROVE  ViewInv'
BY NotChanged, SilentView, RequestView DEF connVars

LEMMA HangupView ==
  ASSUME ViewInv, IInv', NEW c \in Conns, Hangup(c)
  PROVE  ViewInv'
<1>1. \A k \in NKeys : Alike(notify_mapping[k], notify_mapping'[k])
  BY AlikeSelf DEF Hangup
<1>2. ViewsOK'
  BY <1>1, QuietView DEF Hangup, BeingTerminated
<1>3. SentToKnown'
  BY DEF Hangup, ViewInv, SentToKnown
<1> QED
  BY <1>2, <1>3 DEF ViewInv

LEMMA NotifyOneView ==
  ASSUME ViewInv, IInv', NotifyOne
  PROVE  ViewInv'
<1> DEFINE nk == task.key
           s == notify_mapping[nk]
           i == task.i
           told == [s[i] EXCEPT !.old_data = SentData(task.value), !.stale = FALSE]
<1>1. /\ nk \in NKeys /\ task.op = "notify"
      /\ known' = known /\ client_list' = client_list
      /\ \A d : ~BeingTerminated(d)
  BY TaskShapes DEF NotifyOne, ViewInv, IInv, TypeOK, TaskOK, connVars, BeingTerminated
<1>2. /\ s \in Seq(Registration) /\ Len(s) \in Nat /\ DOMAIN s = 1..Len(s)
      /\ i \in 1..Len(s) /\ s[i] \in Registration
  BY <1>1, ClientsInType DEF NotifyOne, ViewInv, IInv, TypeOK
<1>3. told.client = s[i].client /\ told.msgid = s[i].msgid
  BY <1>2 DEF Registration
<1> HIDE DEF told
<1>4. \/ notify_mapping' = notify_mapping
      \/ notify_mapping' = [notify_mapping EXCEPT ![nk][i] = told]
  BY DEF NotifyOne, told
<1>5. \A k \in NKeys : Alike(notify_mapping[k], notify_mapping'[k])
  <2>1. CASE notify_mapping' = notify_mapping
    BY <2>1, AlikeSelf
  <2>2. CASE notify_mapping' = [notify_mapping EXCEPT ![nk][i] = told]
    <3> DEFINE t == [s EXCEPT ![i] = told]
    <3>1. notify_mapping' = [notify_mapping EXCEPT ![nk] = t]
      BY <2>2
    <3>2. notify_mapping'[nk] = t /\ notify_mapping'[nk] \in Seq(Registration)
          /\ \A k \in NKeys : k # nk => notify_mapping'[k] = notify_mapping[k]
      BY <1>1, <3>1 DEF ViewInv, IInv, TypeOK
    <3>3. Alike(s, t)
      BY <1>2, <1>3, <3>2, LenProperties DEF Alike
    <3> HIDE DEF t
    <3> QED
      BY <3>2, <3>3, AlikeSelf
  <2> QED
    BY <1>4, <2>1, <2>2
<1>6. ViewsOK'
  BY <1>1, <1>5, QuietView
<1>7. SentToKnown'
  <2> SUFFICES ASSUME out'.type = "CHANGED"
               PROVE  SentToKnown'
    BY DEF SentToKnown
  <2>1. /\ out' = ChangedMessage(s[i].client, s[i].msgid, task.value)
        /\ task' = Notifying(nk, task.value, i + 1)
    BY NotChanged DEF NotifyOne
  <2>2. /\ out'.to = s[i].client /\ out'.msgid = s[i].msgid
        /\ task'.op = "notify" /\ task'.key = nk
    BY <2>1, TaskShapes DEF ChangedMessage
  <2>3. s[i].client \in client_list
    BY <1>1, <1>2 DEF ViewInv, IInv, RegistryOK, NoDanglingClient
  <2>4. Lists(known[s[i].client][nk], s[i].client, s)
    BY <1>1, <2>3 DEF ViewInv, ViewsOK, ClientViewAgrees
  <2>5. known[s[i].client][nk] \in Seq(MsgIds)
    BY <1>1, <1>2 DEF ViewInv, IInv, TypeOK, Registration
  <2> DEFINE ids == known[s[i].client][nk]
  <2>6. PICK place : ListedAt(place, ids, s[i].client, s)
    BY <1>2, <2>4, <2>5, ListsAt
  <2>7. i \in Own(s[i].client, s)
    BY <1>2 DEF Own
  <2>8. PICK j \in 1..Len(ids) : place[j] = i
    BY <2>6, <2>7 DEF ListedAt
  <2>9. ids[j] = s[i].msgid /\ j \in DOMAIN ids
    BY <2>5, <2>6, <2>8, LenProperties DEF ListedAt
  <2> QED
    BY <1>1, <2>2, <2>3, <2>9 DEF SentToKnown
<1> QED
  BY <1>6, <1>7 DEF ViewInv

LEMMA NotifyDoneView ==
  ASSUME ViewInv, IInv', NotifyDone
  PROVE  ViewInv'
<1>1. \A k \in NKeys : Alike(notify_mapping[k], notify_mapping'[k])
  BY AlikeSelf DEF NotifyDone, registryVars
<1>2. \A d : ~BeingTerminated(d)
  BY DEF NotifyDone, BeingTerminated
<1>3. ViewsOK'
  BY <1>1, <1>2, QuietView DEF NotifyDone, connVars
<1>4. SentToKnown'
  BY NotChanged, SilentView DEF NotifyDone
<1> QED
  BY <1>3, <1>4 DEF ViewInv

LEMMA TerminateKeyView ==
  ASSUME ViewInv, IInv', TerminateKey
  PROVE  ViewInv'
<1> DEFINE c == task.conn
           nk == Head(task.rest)
           s == notify_mapping[nk]
<1>1. /\ known' = known /\ client_list' = client_list /\ task.op = "terminate"
      /\ nk \in NKeys
  <2>1. task.rest \in Seq(NKeys) /\ task.rest # << >>
    BY TaskShapes DEF TerminateKey, ViewInv, IInv, TypeOK, TaskOK
  <2> QED
    BY <2>1, HeadTailProperties DEF TerminateKey, connVars
<1>2. PICK i \in DOMAIN s :
        /\ s[i].client = c
        /\ notify_mapping' = [notify_mapping EXCEPT ![nk] = RemoveAt(s, i)]
        /\ task' = Terminating(c, Tail(task.rest))
  <2>1. task' # Aborted
    BY TaskShapes DEF IInv, NoAbort
  <2> QED
    BY <2>1 DEF TerminateKey, FirstOf
<1>3. /\ s \in Seq(Registration) /\ i \in 1..Len(s)
      /\ notify_mapping'[nk] = RemoveAt(s, i)
      /\ \A k \in NKeys : k # nk => notify_mapping'[k] = notify_mapping[k]
  BY <1>1, <1>2, ClientsInType DEF ViewInv, IInv, TypeOK
<1>4. /\ task'.op = "terminate" /\ task'.conn = c
      /\ \A d : d # c => ~BeingTerminated(d)
  BY <1>1, <1>2, TaskShapes DEF BeingTerminated
<1>5. ClientViewAgrees'
  <2> SUFFICES ASSUME NEW d \in client_list, NEW k \in NKeys, ~BeingTerminated(d)'
               PROVE  Lists(known[d][k], d, notify_mapping'[k])
    BY <1>1 DEF ClientViewAgrees
  <2>1. d # c
    BY <1>4 DEF BeingTerminated
  <2>2. Lists(known[d][k], d, notify_mapping[k]) /\ known[d][k] \in Seq(MsgIds)
    BY <1>4, <2>1 DEF ViewInv, ViewsOK, ClientViewAgrees, IInv, TypeOK
  <2>3. CASE k = nk
    <3>1. s[i].client # d
      BY <1>2, <2>1
    <3> QED
      BY <1>3, <2>2, <2>3, <3>1, ListsRemoveOther
  <2>4. CASE k # nk
    BY <1>3, <2>2, <2>4
  <2> QED
    BY <2>3, <2>4
<1>6. StrangersKnowNothing'
  BY <1>1 DEF ViewInv, ViewsOK, StrangersKnowNothing
<1>7. SentToKnown'
  BY NotChanged, SilentView DEF TerminateKey
<1> QED
  BY <1>5, <1>6, <1>7 DEF ViewInv, ViewsOK

LEMMA TerminateDoneView ==
  ASSUME ViewInv, IInv', TerminateDone
  PROVE  ViewInv'
<1> DEFINE c == task.conn
<1>1. /\ client_list' = client_list \ {c} /\ notify_mapping' = notify_mapping
      /\ known' = [known EXCEPT ![c] = [nk \in NKeys |-> << >>]]
      /\ known \in [Conns -> [NKeys -> Seq(MsgIds)]]
  BY DEF TerminateDone, ViewInv, IInv, TypeOK
<1>2. \A d : d # c => ~BeingTerminated(d)
  BY DEF BeingTerminated
<1>3. ClientViewAgrees'
  <2> SUFFICES ASSUME NEW d \in client_list', NEW k \in NKeys
               PROVE  Lists(known'[d][k], d, notify_mapping[k])
    BY <1>1 DEF ClientViewAgrees
  <2>1. d # c /\ d \in client_list /\ known'[d] = known[d]
    BY <1>1 DEF ViewInv, IInv, TypeOK
  <2> QED
    BY <1>2, <2>1 DEF ViewInv, ViewsOK, ClientViewAgrees
<1>4. StrangersKnowNothing'
  BY <1>1 DEF ViewInv, ViewsOK, StrangersKnowNothing
<1>5. SentToKnown'
  BY NotChanged, SilentView DEF TerminateDone
<1> QED
  BY <1>3, <1>4, <1>5 DEF ViewInv, ViewsOK

LEMMA AcceptView ==
  ASSUME ViewInv, IInv', NEW c \in Conns, NEW f \in Fds, Accept(c, f)
  PROVE  ViewInv'
<1>1. /\ task = Idle /\ client_list' = client_list \cup {c}
      /\ c \notin client_list
      /\ known' = known /\ notify_mapping' = notify_mapping /\ out' = Silence
  BY DEF Accept, ViewInv, IInv, TypeOK
<1>2. ClientViewAgrees'
  <2> SUFFICES ASSUME NEW d \in client_list', NEW k \in NKeys
               PROVE  Lists(known[d][k], d, notify_mapping[k])
    BY <1>1 DEF ClientViewAgrees
  <2>1. CASE d = c
    <3>1. known[d][k] = << >> /\ notify_mapping[k] \in Seq(Registration)
      BY <1>1, <2>1 DEF ViewInv, ViewsOK, StrangersKnowNothing, IInv, TypeOK
    <3>2. \A i \in DOMAIN notify_mapping[k] : notify_mapping[k][i].client # d
      BY <1>1, <2>1 DEF ViewInv, IInv, RegistryOK, NoDanglingClient
    <3> QED
      BY <3>1, <3>2, ListsNone
  <2>2. CASE d # c
    BY <1>1, <2>2, IdleViews DEF ViewInv, ViewsOK, ClientViewAgrees
  <2> QED
    BY <2>1, <2>2
<1>3. StrangersKnowNothing'
  BY <1>1 DEF ViewInv, ViewsOK, StrangersKnowNothing
<1>4. SentToKnown'
  BY <1>1, NotChanged, SilentView
<1> QED
  BY <1>2, <1>3, <1>4 DEF ViewInv, ViewsOK

LEMMA RegisterView ==
  ASSUME ViewInv, IInv', NEW c \in Conns, MaySend(c), UNCHANGED connVars,
         NEW nk \in NKeys, NEW msgid \in MsgIds,
         NEW r \in Registration, r.client = c, r.msgid = msgid, Register(c, nk, msgid, r),
         SentToKnown'
  PROVE  ViewInv'
<1> DEFINE s == notify_mapping[nk]
<1>1. /\ task = Idle /\ c \in client_list /\ client_list' = client_list
  BY DEF MaySend, connVars
<1>2. /\ s \in Seq(Registration)
      /\ notify_mapping'[nk] = Append(s, r)
      /\ \A k \in NKeys : k # nk => notify_mapping'[k] = notify_mapping[k]
  BY DEF Register, ViewInv, IInv, TypeOK
<1>3. /\ known'[c][nk] = Append(known[c][nk], msgid)
      /\ \A d \in Conns, k \in NKeys : d # c \/ k # nk => known'[d][k] = known[d][k]
  <2>1. known \in [Conns -> [NKeys -> Seq(MsgIds)]]
    BY DEF ViewInv, IInv, TypeOK
  <2> QED
    BY <2>1 DEF Register
<1>4. ClientViewAgrees'
  <2> SUFFICES ASSUME NEW d \in client_list, NEW k \in NKeys
               PROVE  Lists(known'[d][k], d, notify_mapping'[k])
    BY <1>1 DEF ClientViewAgrees
  <2>1. /\ Lists(known[d][k], d, notify_mapping[k]) /\ known[d][k] \in Seq(MsgIds)
        /\ d \in Conns
    BY <1>1, IdleViews DEF ViewInv, ViewsOK, ClientViewAgrees, IInv, TypeOK
  <2>2. CASE k # nk
    BY <1>2, <1>3, <2>1, <2>2
  <2>3. CASE k = nk /\ d # c
    BY <1>2, <1>3, <2>1, <2>3, ListsAppendOther
  <2>4. CASE k = nk /\ d = c
    BY <1>2, <1>3, <2>1, <2>4, ListsAppendOwn
  <2> QED
    BY <2>2, <2>3, <2>4
<1>5. StrangersKnowNothing'
  BY <1>1, <1>3 DEF ViewInv, ViewsOK, StrangersKnowNothing
<1> QED
  BY <1>4, <1>5 DEF ViewInv, ViewsOK

LEMMA NotifyView ==
  ASSUME ViewInv, IInv', NEW c \in Conns, NEW g \in Groups, NEW n \in Names, NEW t,
         NEW msgid \in MsgIds, Notify(c, Key(Null, g, n, t), msgid)
  PROVE  ViewInv'
<1> DEFINE key == Key(Null, g, n, t)
           nk == NotifyKeyName(key)
           v == GetValue(db, Rules, ConnUid[c], key, ConnLabel[c])
           r == [client |-> c, old_data |-> v.data, msgid |-> msgid, stale |-> FALSE]
<1>1. MaySend(c) /\ UNCHANGED connVars /\ db \in DB /\ task = Idle /\ client_list' = client_list
  BY DEF Notify, ViewInv, IInv, TypeOK, MaySend, connVars
<1>2. CASE UNCHANGED <<registryVars, known>> /\ Reply(c, msgid, -1, Null, Idle)
  BY <1>1, <1>2, ReplyIsNoChange, RequestView
<1>3. CASE /\ v.ret = "OK" /\ nk # Null
           /\ Register(c, nk, msgid, r)
           /\ Reply(c, msgid, 0, Null, Idle)
  <2>1. nk \in NKeys
    BY <1>3, KeyNames
  <2>2. v.data \in Data
    BY <1>1, <1>3, ReadIsStored, ConnAssumption
  <2>3. r \in Registration /\ r.client = c /\ r.msgid = msgid
    BY <2>2 DEF Registration
  <2>4. SentToKnown'
    BY <1>3, ReplyIsNoChange
  <2> HIDE DEF r, nk, v
  <2> QED
    BY <1>1, <1>3, <2>1, <2>3, <2>4, RegisterView
<1> QED
  BY <1>2, <1>3 DEF Notify, Register

LEMMA UnregisterView ==
  ASSUME ViewInv, IInv', NEW c \in Conns, NEW nk \in NKeys, NEW msgid, MaySend(c),
         UNCHANGED connVars, Unregister(c, nk, msgid)
  PROVE  ViewInv'
<1> DEFINE s == notify_mapping[nk]
<1>1. PICK i \in DOMAIN s :
        /\ FirstOf(c, s, i)
        /\ notify_mapping' = [notify_mapping EXCEPT ![nk] = RemoveAt(s, i)]
        /\ known' = [known EXCEPT ![c][nk] = RemoveFirst(@, s[i].msgid)]
        /\ Reply(c, msgid, 0, [msgid |-> s[i].msgid], Idle)
  BY DEF Unregister
<1>2. /\ task = Idle /\ c \in client_list /\ client_list' = client_list
  BY DEF MaySend, connVars
<1>3. /\ s \in Seq(Registration) /\ i \in 1..Len(s)
      /\ notify_mapping'[nk] = RemoveAt(s, i)
      /\ \A k \in NKeys : k # nk => notify_mapping'[k] = notify_mapping[k]
  BY <1>1, ClientsInType DEF ViewInv, IInv, TypeOK
<1>4. /\ known'[c][nk] = RemoveFirst(known[c][nk], s[i].msgid)
      /\ \A d \in Conns, k \in NKeys : d # c \/ k # nk => known'[d][k] = known[d][k]
  <2>1. known \in [Conns -> [NKeys -> Seq(MsgIds)]]
    BY DEF ViewInv, IInv, TypeOK
  <2> QED
    BY <1>1, <2>1
<1>5. s[i].client = c
  BY <1>1 DEF FirstOf
<1>6. ClientViewAgrees'
  <2> SUFFICES ASSUME NEW d \in client_list, NEW k \in NKeys
               PROVE  Lists(known'[d][k], d, notify_mapping'[k])
    BY <1>2 DEF ClientViewAgrees
  <2>1. /\ Lists(known[d][k], d, notify_mapping[k]) /\ known[d][k] \in Seq(MsgIds)
        /\ d \in Conns
    BY <1>2, IdleViews DEF ViewInv, ViewsOK, ClientViewAgrees, IInv, TypeOK
  <2>2. CASE k # nk
    BY <1>3, <1>4, <2>1, <2>2
  <2>3. CASE k = nk /\ d # c
    BY <1>3, <1>4, <1>5, <2>1, <2>3, ListsRemoveOther
  <2>4. CASE k = nk /\ d = c
    BY <1>1, <1>3, <1>4, <2>1, <2>4, ListsRemoveFirst
  <2> QED
    BY <2>2, <2>3, <2>4
<1>7. StrangersKnowNothing'
  BY <1>2, <1>4 DEF ViewInv, ViewsOK, StrangersKnowNothing
<1>8. SentToKnown'
  BY <1>1, ReplyIsNoChange
<1> QED
  BY <1>6, <1>7, <1>8 DEF ViewInv, ViewsOK

LEMMA UnnotifyView ==
  ASSUME ViewInv, IInv', NEW c \in Conns, NEW g \in Groups, NEW n \in Names, NEW t,
         NEW msgid, Unnotify(c, Key(Null, g, n, t), msgid)
  PROVE  ViewInv'
<1> DEFINE nk == NotifyKeyName(Key(Null, g, n, t))
<1>1. MaySend(c) /\ UNCHANGED connVars /\ task = Idle /\ client_list' = client_list
  BY DEF Unnotify, MaySend, connVars
<1>2. CASE nk \in NKeys /\ Unregister(c, nk, msgid)
  BY <1>1, <1>2, UnregisterView
<1>3. CASE UNCHANGED <<registryVars, known>> /\ Reply(c, msgid, -1, [msgid |-> 0], Idle)
  BY <1>1, <1>3, ReplyIsNoChange, RequestView
<1> QED
  BY <1>2, <1>3 DEF Unnotify

LEMMA ServeView ==
  ASSUME ViewInv, IInv', NEW c \in Conns, Serve(c)
  PROVE  ViewInv'
<1>1. CASE BadMessage(c)
  BY <1>1, StartTerminateView DEF BadMessage, MaySend
<1>2. ASSUME NEW m \in MsgIds, ServeRegistration(c, m)
      PROVE  ViewInv'
  BY <1>2, NotifyView, UnnotifyView DEF ServeRegistration
<1>3. ASSUME NEW m \in MsgIds, ServeData(c, m)
      PROVE  ViewInv'
  <2>1. PICK l \in Layers, g \in Groups, n \in Names :
          \/ \E v \in Values : Set(c, Key(l, g, n, v.type), v, m)
          \/ \E t \in ValueTypes : Unset(c, Key(l, g, n, t), m)
    BY <1>3 DEF ServeData
  <2>2. \E t, v, granted, newdb : Write(c, Key(l, g, n, t), v, m, granted, newdb)
    BY <2>1 DEF Set, Unset
  <2> QED
    BY <2>2, WriteView
<1>4. ASSUME NEW m \in MsgIds, ServeGroup(c, m)
      PROVE  ViewInv'
  <2>1. \E granted, newdb : Administer(c, m, granted, newdb)
    BY <1>4 DEF ServeGroup, CreateKeyGroup, RemoveKeyGroup, SetKeyLabel
  <2> QED
    BY <2>1, AdministerView
<1>5. ASSUME NEW m \in MsgIds, ServeRead(c, m)
      PROVE  ViewInv'
  <2>1. \E granted, data : Answer(c, m, granted, data)
    BY <1>5 DEF ServeRead, Get, ListNames
  <2> QED
    BY <2>1, AnswerView
<1> QED
  BY <1>1, <1>2, <1>3, <1>4, <1>5 DEF Serve

LEMMA FreshView ==
  ASSUME Fresh, out = Silence
  PROVE  ViewsOK /\ SentToKnown
BY NotChanged DEF Fresh, ViewsOK, ClientViewAgrees, StrangersKnowNothing, SentToKnown

LEMMA InitView == Init => ViewInv
<1>1. EmptyDB \in DB
  BY DEF EmptyDB, DB
<1>2. Init => Fresh /\ out = Silence
  BY <1>1 DEF Init, Fresh
<1> QED
  BY <1>2, InitStep, FreshView DEF ViewInv

LEMMA RestartView ==
  ASSUME ViewInv, IInv', Restart
  PROVE  ViewInv'
<1>1. Fresh' /\ out' = Silence
  BY PersistedType DEF Restart, Fresh, ViewInv, IInv, TypeOK
<1>2. (Fresh /\ out = Silence => ViewsOK /\ SentToKnown)'
  BY FreshView, PTL
<1> QED
  BY <1>1, <1>2 DEF ViewInv

LEMMA NextView ==
  ASSUME ViewInv, [Next]_vars
  PROVE  ViewInv'
<1>1. IInv'
  BY NextStep DEF ViewInv
<1>2. ASSUME NEW c \in Conns, EndOfStream(c)
      PROVE  ViewInv'
  BY <1>1, <1>2, StartTerminateView DEF EndOfStream
<1>3. CASE Walk
  BY <1>1, <1>3, TerminateKeyView, TerminateDoneView, NotifyOneView, NotifyDoneView DEF Walk
<1>4. CASE UNCHANGED vars
  BY <1>1, <1>4 DEF vars, ViewInv, ViewsOK, ClientViewAgrees, StrangersKnowNothing, SentToKnown,
                    BeingTerminated
<1> QED
  BY <1>1, <1>2, <1>3, <1>4, AcceptView, HangupView, ServeView, RestartView DEF Next

(* In every reachable state the strengthened view holds.                    *)
THEOREM ViewInductive == Spec => []ViewInv
BY InitView, NextView, PTL DEF Spec

(* Whatever other clients do, a connected client has on each key the        *)
(* registrations that the replies to its NOTIFY and UNNOTIFY messages say,   *)
(* in the order in which it made them.  (register_notification,             *)
(* unregister_notification, terminate_client)                               *)
THEOREM ClientViewsAgree == Spec => []ClientViewAgrees
<1>1. ViewInv => ClientViewAgrees
  BY DEF ViewInv, ViewsOK
<1> QED
  BY <1>1, ViewInductive, PTL

(* A CHANGED message goes to a connected client, under the message id of a  *)
(* NOTIFY it made on this key and has not taken back.                       *)
(* (buxtond_notify_clients)                                                 *)
THEOREM ChangesAreWanted == Spec => []ChangedIsWanted
<1>1. ViewInv => ChangedIsWanted
  BY DEF ViewInv, SentToKnown, ChangedIsWanted
<1> QED
  BY <1>1, ViewInductive, PTL

-----------------------------------------------------------------------------
(* No change is missed.                                                     *)

(* Values of one type, of fixed size, that differ from zeroed memory.       *)
PlainValues ==
  \A v, w \in Values : v.type = w.type /\ v.type # "STRING" /\ v.store # "0"

(* What clients stored is in the entries of keys, and only the label of a   *)
(* group says "BUXTON_GROUP_VALUE".                                         *)
KeysHoldValues(d) ==
  \A r \in Resources, g \in Groups, n \in Names :
    d[r][<<g, n>>] # Null => d[r][<<g, n>>].data \in Values

(* The walk over s, now at i, has yet to come to j, and will write to it.    *)
Waits(s, j, value, i) == j >= i /\ s[j].old_data # SentData(value)

(* Nobody waits for a value but those the walk under way will come to.      *)
StaleOK ==
  \A nk \in NKeys : \A j \in DOMAIN notify_mapping[nk] :
    notify_mapping[nk][j].stale =>
      /\ task.op = "notify" /\ task.key = nk
      /\ Waits(notify_mapping[nk], j, task.value, task.i)

OldDataOK ==
  \A nk \in NKeys : \A j \in DOMAIN notify_mapping[nk] :
    notify_mapping[nk][j].old_data \in Values \cup {Zeroed}

NotCrashed == task.op # "crashed"

ToldInv == IInv /\ KeysHoldValues(db) /\ OldDataOK /\ StaleOK /\ NotCrashed

(* The databases.                                                           *)
LEMMA SetHoldsValues ==
  ASSUME NEW d \in DB, KeysHoldValues(d), NEW uid \in Uids, NEW l \in Layers, NEW g \in Groups,
         NEW n \in Names \cup {Null}, NEW t, NEW data, NEW label,
         \/ data \in Values
         \/ data = Null /\ d[Resource(l, uid)][<<g, n>>] # Null
         \/ n = Null
  PROVE  KeysHoldValues(BackendSet(d, uid, Key(l, g, n, t), data, label))
<1> DEFINE e == BackendSet(d, uid, Key(l, g, n, t), data, label)
<1> SUFFICES ASSUME NEW r \in Resources, NEW g2 \in Groups, NEW n2 \in Names,
                    e[r][<<g2, n2>>] # Null
             PROVE  e[r][<<g2, n2>>].data \in Values
  BY DEF KeysHoldValues
<1>1. <<g2, n2>> \in Slots
  BY DEF Slots
<1>2. CASE ~(r = Resource(l, uid) /\ <<g2, n2>> = <<g, n>>)
  <2>1. e[r][<<g2, n2>>] = d[r][<<g2, n2>>]
    BY <1>1, <1>2, SetElsewhere
  <2> HIDE DEF e
  <2> QED
    BY <2>1 DEF KeysHoldValues
<1>3. CASE r = Resource(l, uid) /\ <<g2, n2>> = <<g, n>>
  <2> DEFINE kept == IF data = Null THEN d[r][<<g, n>>].data ELSE data
  <2>1. n \in Names /\ g2 = g /\ n2 = n /\ n # Null
    BY <1>3, NullAssumption
  <2>2. kept \in Values
    BY <1>3, <2>1, MediumAssumption DEF KeysHoldValues, Data
  <2>3. e[r][<<g, n>>] = [data |-> kept, label |-> label]
    BY <1>3, SetHere
  <2> HIDE DEF e, kept
  <2> QED
    BY <2>1, <2>2, <2>3
<1> QED
  BY <1>2, <1>3

LEMMA UnsetHoldsValues ==
  ASSUME NEW d \in DB, KeysHoldValues(d), NEW uid, NEW key
  PROVE  KeysHoldValues(BackendUnset(d, uid, key))
<1> SUFFICES ASSUME NEW r \in Resources, NEW g \in Groups, NEW n \in Names,
                    BackendUnset(d, uid, key)[r][<<g, n>>] # Null
             PROVE  BackendUnset(d, uid, key)[r][<<g, n>>].data \in Values
  BY DEF KeysHoldValues
<1>1. <<g, n>> \in Slots
  BY DEF Slots
<1>2. BackendUnset(d, uid, key)[r][<<g, n>>] = d[r][<<g, n>>]
  BY <1>1, UnsetAt
<1> QED
  BY <1>2 DEF KeysHoldValues

LEMMA PersistedHoldsValues ==
  ASSUME NEW d \in DB, KeysHoldValues(d)
  PROVE  KeysHoldValues(Persisted(d)) /\ KeysHoldValues(EmptyDB)
<1>1. \A r \in Resources, g \in Groups, n \in Names :
        EmptyDB[r][<<g, n>>] = Null /\ Persisted(d)[r] \in {d[r], EmptyDB[r]}
  BY DEF Persisted, EmptyDB, Slots
<1> QED
  BY <1>1 DEF KeysHoldValues

LEMMA ReadIsValue ==
  ASSUME NEW d \in DB, KeysHoldValues(d), NEW smack, NEW label, NEW uid \in Uids,
         NEW l, NEW g \in Groups, NEW n \in Names, NEW t,
         GetValue(d, smack, uid, Key(l, g, n, t), label).ret = "OK"
  PROVE  GetValue(d, smack, uid, Key(l, g, n, t), label).data \in Values
<1> DEFINE key == Key(l, g, n, t)
<1>1. \A m : KeyIn(m, key) = Key(m, g, n, t)
  BY DEF KeyIn, Key
<1>2. PICK m : GetValue(d, smack, uid, key, label)
                 = GetValueForLayer(d, smack, uid, Key(m, g, n, t), label)
  BY <1>1 DEF GetValue, NoValue, Key
<1>3. GetValueForLayer(d, smack, uid, Key(m, g, n, t), label).ret = "OK"
  BY <1>2
<1>4. /\ m \in Layers
      /\ GetValueForLayer(d, smack, uid, Key(m, g, n, t), label).data
           = d[Resource(m, uid)][<<g, n>>].data
      /\ d[Resource(m, uid)][<<g, n>>] \in Entry
  BY <1>3, ReadFromLayer
<1>5. Resource(m, uid) \in Resources /\ d[Resource(m, uid)][<<g, n>>] # Null
  BY <1>4, ResourceType, MediumAssumption
<1> QED
  BY <1>2, <1>4, <1>5 DEF KeysHoldValues

-----------------------------------------------------------------------------
(* The registrations.                                                       *)

(* With the daemon idle nobody waits.                                       *)
Content(s) ==
  \A j \in DOMAIN s : ~s[j].stale /\ s[j].old_data \in Values \cup {Zeroed}

LEMMA Contented ==
  ASSUME ToldInv, task.op # "notify", NEW nk \in NKeys
  PROVE  Content(notify_mapping[nk])
BY DEF ToldInv, StaleOK, OldDataOK, Content

LEMMA ContentedNext ==
  ASSUME \A nk \in NKeys : Content(notify_mapping'[nk])
  PROVE  OldDataOK' /\ StaleOK'
BY DEF StaleOK, OldDataOK, Content

(* A step that leaves the registrations alone.                              *)
LEMMA RequestTold ==
  ASSUME ToldInv, IInv', task.op # "notify", task'.op # "crashed",
         notify_mapping' = notify_mapping, KeysHoldValues(db')
  PROVE  ToldInv'
BY Contented, ContentedNext DEF ToldInv, NotCrashed

LEMMA ContentAppend ==
  ASSUME NEW s \in Seq(Registration), Content(s), NEW r \in Registration,
         ~r.stale, r.old_data \in Values
  PROVE  Content(Append(s, r))
<1> DEFINE t == Append(s, r)
<1>1. /\ t \in Seq(Registration) /\ Len(t) = Len(s) + 1 /\ Len(s) \in Nat
      /\ \A i \in 1..Len(s) : t[i] = s[i]
      /\ t[Len(s) + 1] = r
      /\ DOMAIN s = 1..Len(s) /\ DOMAIN t = 1..Len(t)
  BY AppendProperties, LenProperties
<1> HIDE DEF t
<1>2. Content(t)
  BY <1>1 DEF Content
<1> QED
  BY <1>2 DEF t

LEMMA ContentRemove ==
  ASSUME NEW s \in Seq(Registration), Content(s), NEW i \in DOMAIN s
  PROVE  Content(RemoveAt(s, i))
<1> DEFINE t == RemoveAt(s, i)
<1>1. DOMAIN s = 1..Len(s) /\ Len(s) \in Nat /\ i \in 1..Len(s)
  BY LenProperties
<1>2. /\ t \in Seq(Registration) /\ Len(t) = Len(s) - 1 /\ DOMAIN t = 1..Len(t)
      /\ \A j \in 1..(Len(s) - 1) : t[j] = IF j < i THEN s[j] ELSE s[j + 1]
  BY <1>1, RemoveAtProperties, LenProperties
<1> HIDE DEF t
<1>3. ASSUME NEW j \in DOMAIN t
      PROVE  \E k \in DOMAIN s : t[j] = s[k]
  <2>1. j \in 1..(Len(s) - 1)
    BY <1>2
  <2>2. j \in DOMAIN s /\ j + 1 \in DOMAIN s
    BY <1>1, <2>1
  <2>3. t[j] = s[j] \/ t[j] = s[j + 1]
    BY <1>2, <2>1
  <2> QED
    BY <2>2, <2>3
<1>4. Content(t)
  BY <1>3 DEF Content
<1> QED
  BY <1>4 DEF t

(* A write to nk leaves stale what differs, on nk only.                     *)
LEMMA MarkedStale ==
  ASSUME ToldInv, task.op # "notify", NEW nk \in NKeys, NEW value, MarkStale(nk, value),
         NEW k \in NKeys, NEW j \in DOMAIN notify_mapping'[k]
  PROVE  /\ notify_mapping'[k][j].old_data \in Values \cup {Zeroed}
         /\ notify_mapping'[k][j].stale =>
              k = nk /\ j \in Nat \ {0}
                /\ notify_mapping'[k][j].old_data # SentData(value)
<1> DEFINE s == notify_mapping[nk]
           marked(n) == [n EXCEPT !.stale = n.old_data # SentData(value)]
           t == [i \in DOMAIN s |-> marked(s[i])]
<1>1. nk # Null \/ notify_mapping' = notify_mapping
  BY DEF MarkStale
<1>2. CASE notify_mapping' = notify_mapping
  <2>1. Content(notify_mapping[k])
    BY Contented
  <2> QED
    BY <1>2, <2>1 DEF Content
<1>3. CASE nk # Null
  <2>1. notify_mapping' = [notify_mapping EXCEPT ![nk] = t]
    BY <1>3 DEF MarkStale
  <2>2. CASE k # nk
    <3>1. notify_mapping'[k] = notify_mapping[k] /\ Content(notify_mapping[k])
      BY <2>1, <2>2, Contented DEF ToldInv, IInv, TypeOK
    <3> QED
      BY <3>1 DEF Content
  <2>3. CASE k = nk
    <3>1. notify_mapping'[k] = t /\ s \in Seq(Registration)
      BY <2>1, <2>3 DEF ToldInv, IInv, TypeOK
    <3>2. /\ j \in DOMAIN s /\ s[j] \in Registration /\ j \in Nat \ {0}
          /\ notify_mapping'[k][j] = marked(s[j])
      <4>1. DOMAIN t = DOMAIN s
        OBVIOUS
      <4>2. j \in DOMAIN s
        BY <3>1, <4>1
      <4> QED
        BY <3>1, <4>2, ClientsInType
    <3>3. Content(s)
      BY Contented
    <3>4. /\ marked(s[j]).old_data = s[j].old_data
          /\ marked(s[j]).stale = (s[j].old_data # SentData(value))
      BY <3>2 DEF Registration
    <3> HIDE DEF marked, t
    <3> QED
      BY <2>3, <3>2, <3>3, <3>4 DEF Content
  <2> QED
    BY <2>2, <2>3
<1> QED
  BY <1>1, <1>2, <1>3

LEMMA PatientReply ==
  ASSUME Patient, NEW c, MaySend(c), NEW msgid, NEW status, NEW data, NEW next,
         UNCHANGED connVars, Reply(c, msgid, status, data, next)
  PROVE  task' = next
BY DEF MaySend, Reply, connVars

LEMMA ReplyNoCrash ==
  ASSUME Patient, NEW c, MaySend(c), NEW msgid, NEW status, NEW data,
         UNCHANGED connVars, Reply(c, msgid, status, data, Idle)
  PROVE  task'.op # "crashed" /\ task.op # "notify"
BY PatientReply, TaskShapes DEF MaySend

LEMMA WriteTold ==
  ASSUME Patient, ToldInv, IInv', NEW c \in Conns,
         NEW l, NEW g \in Groups, NEW n \in Names, NEW t,
         NEW value, NEW msgid, NEW granted, NEW newdb,
         granted => KeysHoldValues(newdb),
         Write(c, Key(l, g, n, t), value, msgid, granted, newdb)
  PROVE  ToldInv'
<1> DEFINE nk == NotifyKeyName(Key(l, g, n, t))
<1>1. MaySend(c) /\ UNCHANGED connVars /\ task.op # "notify"
  BY TaskShapes DEF Write, MaySend
<1>2. nk = Null \/ nk \in NKeys
  BY KeyNames
<1>3. CASE ~granted \/ nk = Null
  <2>1. KeysHoldValues(db')
    BY DEF Write, ToldInv
  <2>2. notify_mapping' = notify_mapping
    BY <1>3 DEF Write, MarkStale, registryVars
  <2>3. \E status : Reply(c, msgid, status, Null, Idle)
    BY <1>3 DEF Write, WalkOf
  <2> QED
    BY <1>1, <2>1, <2>2, <2>3, ReplyNoCrash, RequestTold
<1>4. CASE granted /\ nk # Null
  <2>1. /\ KeysHoldValues(db') /\ nk \in NKeys /\ MarkStale(nk, value)
        /\ task' = Notifying(nk, value, 1)
    BY <1>1, <1>2, <1>4, PatientReply DEF Write, WalkOf
  <2>2. /\ task'.op = "notify" /\ task'.key = nk /\ task'.value = value /\ task'.i = 1
    BY <2>1, TaskShapes
  <2> HIDE DEF nk
  <2>3. OldDataOK'
    BY <1>1, <2>1, MarkedStale DEF OldDataOK
  <2>4. StaleOK'
    <3> SUFFICES ASSUME NEW k \in NKeys, NEW j \in DOMAIN notify_mapping'[k],
                        notify_mapping'[k][j].stale
                 PROVE  k = nk /\ Waits(notify_mapping'[k], j, value, 1)
      BY <2>2 DEF StaleOK, Waits
    <3>1. k = nk /\ j \in Nat \ {0} /\ notify_mapping'[k][j].old_data # SentData(value)
      BY <1>1, <2>1, MarkedStale
    <3> QED
      BY <3>1 DEF Waits
  <2> QED
    BY <2>1, <2>2, <2>3, <2>4 DEF ToldInv, NotCrashed
<1> QED
  BY <1>2, <1>3, <1>4

LEMMA AdministerTold ==
  ASSUME Patient, ToldInv, IInv', NEW c \in Conns, NEW msgid, NEW granted, NEW newdb,
         granted => KeysHoldValues(newdb),
         Administer(c, msgid, granted, newdb)
  PROVE  ToldInv'
<1>1. KeysHoldValues(db') /\ notify_mapping' = notify_mapping
  BY DEF Administer, ToldInv, registryVars
<1>2. task'.op # "crashed" /\ task.op # "notify"
  BY ReplyNoCrash DEF Administer
<1> QED
  BY <1>1, <1>2, RequestTold

LEMMA AnswerTold ==
  ASSUME Patient, ToldInv, IInv', NEW c \in Conns, NEW msgid, NEW granted, NEW data,
         Answer(c, msgid, granted, data)
  PROVE  ToldInv'
<1>1. KeysHoldValues(db') /\ notify_mapping' = notify_mapping
  BY DEF Answer, ToldInv, registryVars
<1>2. task'.op # "crashed" /\ task.op # "notify"
  BY ReplyNoCrash DEF Answer
<1> QED
  BY <1>1, <1>2, RequestTold

LEMMA NotifyTold ==
  ASSUME Patient, ToldInv, IInv', NEW c \in Conns, NEW g \in Groups, NEW n \in Names, NEW t,
         NEW msgid \in MsgIds, Notify(c, Key(Null, g, n, t), msgid)
  PROVE  ToldInv'
<1> DEFINE key == Key(Null, g, n, t)
           nk == NotifyKeyName(key)
           v == GetValue(db, Rules, ConnUid[c], key, ConnLabel[c])
           r == [client |-> c, old_data |-> v.data, msgid |-> msgid, stale |-> FALSE]
<1>1. MaySend(c) /\ UNCHANGED <<db, connVars>> /\ db \in DB /\ KeysHoldValues(db)
  BY DEF Notify, ToldInv, IInv, TypeOK
<1>2. task'.op # "crashed" /\ task.op # "notify"
  <2>1. \E status : Reply(c, msgid, status, Null, Idle)
    BY DEF Notify
  <2> QED
    BY <1>1, <2>1, ReplyNoCrash
<1>3. CASE UNCHANGED <<registryVars, known>>
  BY <1>1, <1>2, <1>3, RequestTold DEF registryVars
<1>4. CASE v.ret = "OK" /\ nk # Null /\ Register(c, nk, msgid, r)
  <2>1. nk \in NKeys
    BY <1>4, KeyNames
  <2>2. v.data \in Values
    BY <1>1, <1>4, ReadIsValue, ConnAssumption
  <2>3. r \in Registration /\ ~r.stale /\ r.old_data \in Values
    BY <2>2 DEF Registration, Data
  <2>4. notify_mapping' = [notify_mapping EXCEPT ![nk] = Append(@, r)]
    BY <1>4 DEF Register
  <2> HIDE DEF nk, r, v
  <2>5. ASSUME NEW k \in NKeys
        PROVE  Content(notify_mapping'[k])
    <3>1. notify_mapping[k] \in Seq(Registration) /\ Content(notify_mapping[k])
      BY <1>2, Contented DEF ToldInv, IInv, TypeOK
    <3>2. notify_mapping'[k] = IF k = nk THEN Append(notify_mapping[k], r) ELSE notify_mapping[k]
      BY <2>1, <2>4 DEF ToldInv, IInv, TypeOK
    <3> QED
      BY <2>3, <3>1, <3>2, ContentAppend
  <2> QED
    BY <1>1, <1>2, <2>5, ContentedNext DEF ToldInv, NotCrashed
<1> QED
  BY <1>3, <1>4 DEF Notify, Register

(* One registration goes.                                                   *)
LEMMA RemovalTold ==
  ASSUME ToldInv, IInv', task.op # "notify", task'.op # "crashed", db' = db,
         NEW nk \in NKeys, NEW i \in DOMAIN notify_mapping[nk],
         notify_mapping' = [notify_mapping EXCEPT ![nk] = RemoveAt(notify_mapping[nk], i)]
  PROVE  ToldInv'
<1>1. ASSUME NEW k \in NKeys
      PROVE  Content(notify_mapping'[k])
  <2>1. notify_mapping[k] \in Seq(Registration) /\ Content(notify_mapping[k])
    BY Contented DEF ToldInv, IInv, TypeOK
  <2>2. notify_mapping'[k] =
          IF k = nk THEN RemoveAt(notify_mapping[k], i) ELSE notify_mapping[k]
    BY DEF ToldInv, IInv, TypeOK
  <2> QED
    BY <2>1, <2>2, ContentRemove
<1> QED
  BY <1>1, ContentedNext DEF ToldInv, NotCrashed

LEMMA UnnotifyTold ==
  ASSUME Patient, ToldInv, IInv', NEW c \in Conns, NEW key, NEW msgid, Unnotify(c, key, msgid)
  PROVE  ToldInv'
<1> DEFINE nk == NotifyKeyName(key)
<1>1. MaySend(c) /\ UNCHANGED <<db, connVars>>
  BY DEF Unnotify
<1>2. CASE nk \in NKeys /\ Unregister(c, nk, msgid)
  <2>1. PICK i \in DOMAIN notify_mapping[nk] :
          /\ notify_mapping' = [notify_mapping EXCEPT ![nk] = RemoveAt(notify_mapping[nk], i)]
          /\ \E data : Reply(c, msgid, 0, data, Idle)
    BY <1>2 DEF Unregister
  <2>2. task'.op # "crashed" /\ task.op # "notify"
    BY <1>1, <2>1, ReplyNoCrash
  <2> QED
    BY <1>1, <1>2, <2>1, <2>2, RemovalTold
<1>3. CASE UNCHANGED <<registryVars, known>> /\ Reply(c, msgid, -1, [msgid |-> 0], Idle)
  <2>1. task'.op # "crashed" /\ task.op # "notify"
    BY <1>1, <1>3, ReplyNoCrash
  <2> QED
    BY <1>1, <1>3, <2>1, RequestTold DEF registryVars, ToldInv
<1> QED
  BY <1>2, <1>3 DEF Unnotify

LEMMA TerminateKeyTold ==
  ASSUME ToldInv, IInv', TerminateKey
  PROVE  ToldInv'
<1>1. task.op # "notify" /\ db' = db /\ Head(task.rest) \in NKeys
  <2>1. task.op = "terminate" /\ task.rest \in Seq(NKeys) /\ task.rest # << >>
    BY TaskShapes DEF TerminateKey, ToldInv, IInv, TypeOK, TaskOK
  <2> QED
    BY <2>1, HeadTailProperties DEF TerminateKey
<1>2. PICK i \in DOMAIN notify_mapping[Head(task.rest)] :
        /\ notify_mapping' = [notify_mapping EXCEPT ![Head(task.rest)] = RemoveAt(@, i)]
        /\ task' = Terminating(task.conn, Tail(task.rest))
  <2>1. task' # Aborted
    BY TaskShapes DEF IInv, NoAbort
  <2> QED
    BY <2>1 DEF TerminateKey
<1>3. task'.op # "crashed"
  BY <1>2, TaskShapes
<1> QED
  BY <1>1, <1>2, <1>3, RemovalTold

(* With plain values the comparison finds what is stale, and never crashes. *)
LEMMA CompareTells ==
  ASSUME PlainValues, NEW old \in Values \cup {Zeroed}, NEW value \in Values \cup {Null},
         NEW outcome \in Compare(old, value)
  PROVE  /\ outcome # "crash"
         /\ outcome = "same" => value \in Values /\ old = SentData(value)
<1>1. CASE value = Null
  BY <1>1 DEF Compare
<1>2. CASE value # Null
  <2>1. value \in Values /\ SentData(value) = value /\ value.type # "STRING" /\ value.store # "0"
    BY <1>2 DEF SentData, PlainValues
  <2>2. CASE old.type = value.type
    BY <1>2, <2>1, <2>2 DEF Compare
  <2>3. CASE old.type # value.type
    <3>1. old = Zeroed
      BY <2>1, <2>3 DEF PlainValues
    <3> QED
      BY <1>2, <2>1, <2>3, <3>1 DEF Compare
  <2> QED
    BY <2>2, <2>3
<1> QED
  BY <1>1, <1>2

LEMMA NotifyOneTold ==
  ASSUME PlainValues, ToldInv, IInv', NotifyOne
  PROVE  ToldInv'
<1> DEFINE nk == task.key
           s == notify_mapping[nk]
           i == task.i
           value == task.value
           told == [s[i] EXCEPT !.old_data = SentData(value), !.stale = FALSE]
           next == Notifying(nk, value, i + 1)
<1>1. /\ nk \in NKeys /\ value \in Values \cup {Null} /\ i \in Nat \ {0}
      /\ task.op = "notify" /\ i \in DOMAIN s /\ db' = db
  BY TaskShapes DEF NotifyOne, ToldInv, IInv, TypeOK, TaskOK
<1>2. s \in Seq(Registration) /\ s[i] \in Registration
      /\ \A k \in NKeys : \A j \in DOMAIN notify_mapping[k] : j \in Nat
  <2>1. \A k \in NKeys : notify_mapping[k] \in Seq(Registration)
    BY DEF ToldInv, IInv, TypeOK
  <2>2. \A k \in NKeys : DOMAIN notify_mapping[k] = 1..Len(notify_mapping[k])
    BY <2>1, ClientsInType
  <2> QED
    BY <1>1, <2>1, <2>2, ClientsInType
<1>3. PICK outcome \in Compare(s[i].old_data, value) :
        \/ outcome = "same" /\ task' = next /\ notify_mapping' = notify_mapping
        \/ /\ outcome = "differ" /\ task' = next
           /\ notify_mapping' = [notify_mapping EXCEPT ![nk][i] = told]
        \/ outcome = "crash"
  BY DEF NotifyOne
<1>4. /\ outcome # "crash"
      /\ outcome = "same" => value \in Values /\ s[i].old_data = SentData(value)
  <2>1. s[i].old_data \in Values \cup {Zeroed}
    BY <1>1 DEF ToldInv, OldDataOK
  <2> QED
    BY <1>1, <2>1, CompareTells
<1>5. /\ told.old_data = SentData(value) /\ ~told.stale
      /\ SentData(value) \in Values \cup {Zeroed}
  BY <1>1, <1>2 DEF Registration, SentData
<1> HIDE DEF told
<1>6. /\ task' = next
      /\ task'.op = "notify" /\ task'.key = nk /\ task'.value = value /\ task'.i = i + 1
  BY <1>3, <1>4, TaskShapes
<1>7. ASSUME NEW k \in NKeys, NEW j \in DOMAIN notify_mapping'[k]
      PROVE  \/ /\ k = nk /\ j = i /\ outcome = "differ"
                /\ notify_mapping'[k][j] = told
             \/ /\ k = nk /\ j = i => outcome = "same"
                /\ j \in DOMAIN notify_mapping[k]
                /\ notify_mapping'[k][j] = notify_mapping[k][j]
  <2>1. CASE outcome = "same"
    BY <1>3, <2>1
  <2>2. CASE outcome = "differ"
    <3> DEFINE t == [s EXCEPT ![i] = told]
    <3>1. notify_mapping' = [notify_mapping EXCEPT ![nk] = t]
      BY <1>3, <2>2
    <3>2. notify_mapping'[k] = IF k = nk THEN t ELSE notify_mapping[k]
      BY <1>1, <3>1 DEF ToldInv, IInv, TypeOK
    <3>3. DOMAIN t = DOMAIN s /\ \A m \in DOMAIN s : t[m] = IF m = i THEN told ELSE s[m]
      OBVIOUS
    <3> HIDE DEF t
    <3> QED
      BY <2>2, <3>2, <3>3
  <2> QED
    BY <1>3, <1>4, <2>1, <2>2
<1>8. OldDataOK'
  <2> SUFFICES ASSUME NEW k \in NKeys, NEW j \in DOMAIN notify_mapping'[k]
               PROVE  notify_mapping'[k][j].old_data \in Values \cup {Zeroed}
    BY DEF OldDataOK
  <2> QED
    BY <1>5, <1>7 DEF ToldInv, OldDataOK
<1>9. StaleOK'
  <2> SUFFICES ASSUME NEW k \in NKeys, NEW j \in DOMAIN notify_mapping'[k],
                      notify_mapping'[k][j].stale
               PROVE  k = nk /\ j >= i + 1 /\ notify_mapping'[k][j].old_data # SentData(value)
    BY <1>6 DEF StaleOK, Waits
  <2>1. /\ k = nk /\ j = i => outcome = "same"
        /\ j \in DOMAIN notify_mapping[k]
        /\ notify_mapping'[k][j] = notify_mapping[k][j]
    BY <1>5, <1>7
  <2>2. /\ k = nk /\ j >= i /\ notify_mapping[k][j].old_data # SentData(value)
    BY <2>1 DEF ToldInv, StaleOK, Waits
  <2>3. j # i
    BY <1>4, <2>1, <2>2
  <2> QED
    BY <1>1, <1>2, <2>1, <2>2, <2>3
<1> QED
  BY <1>1, <1>6, <1>8, <1>9 DEF ToldInv, NotCrashed

LEMMA NotifyDoneTold ==
  ASSUME ToldInv, IInv', NotifyDone
  PROVE  ToldInv'
<1>1. /\ task.op = "notify" /\ task.key \in NKeys /\ task.i \in Nat \ {0}
      /\ task.i \notin DOMAIN notify_mapping[task.key]
      /\ db' = db /\ notify_mapping' = notify_mapping /\ task' = Idle
  BY TaskShapes DEF NotifyDone, ToldInv, IInv, TypeOK, TaskOK, registryVars
<1>2. ASSUME NEW nk \in NKeys, NEW j \in DOMAIN notify_mapping[nk]
      PROVE  ~notify_mapping[nk][j].stale
  <2>1. SUFFICES ASSUME notify_mapping[nk][j].stale
                 PROVE  FALSE
    OBVIOUS
  <2>2. nk = task.key /\ j >= task.i
    BY <2>1 DEF ToldInv, StaleOK, Waits
  <2>3. notify_mapping[nk] \in Seq(Registration)
    BY DEF ToldInv, IInv, TypeOK
  <2>4. DOMAIN notify_mapping[nk] = 1..Len(notify_mapping[nk]) /\ Len(notify_mapping[nk]) \in Nat
    BY <2>3, LenProperties
  <2> QED
    BY <1>1, <2>2, <2>4
<1>3. StaleOK' /\ OldDataOK'
  BY <1>1, <1>2 DEF ToldInv, StaleOK, OldDataOK
<1>4. NotCrashed'
  BY <1>1, TaskShapes DEF NotCrashed
<1> QED
  BY <1>1, <1>3, <1>4 DEF ToldInv

LEMMA ServeTold ==
  ASSUME Patient, ToldInv, IInv', NEW c \in Conns, Serve(c)
  PROVE  ToldInv'
<1>1. db \in DB /\ KeysHoldValues(db) /\ ConnUid[c] \in Uids
  BY ConnAssumption DEF ToldInv, IInv, TypeOK
<1>2. CASE BadMessage(c)
  BY <1>1, <1>2, RequestTold, TaskShapes
  DEF BadMessage, MaySend, StartTerminate, registryVars
<1>3. ASSUME NEW m \in MsgIds, ServeRegistration(c, m)
      PROVE  ToldInv'
  BY <1>3, NotifyTold, UnnotifyTold DEF ServeRegistration
<1>4. ASSUME NEW m \in MsgIds, ServeRead(c, m)
      PROVE  ToldInv'
  <2>1. \E granted, data : Answer(c, m, granted, data)
    BY <1>4 DEF ServeRead, Get, ListNames
  <2> QED
    BY <2>1, AnswerTold
<1>5. ASSUME NEW m, NEW l \in Layers, NEW g \in Groups, NEW n \in Names, NEW v \in Values,
             Set(c, Key(l, g, n, v.type), v, m)
      PROVE  ToldInv'
  <2> DEFINE key == Key(l, g, n, v.type)
             newdb == SetValue(db, Rules, ConnUid[c], key, v, ConnLabel[c])
  <2>1. KeysHoldValues(newdb)
    BY <1>1, SetHoldsValues DEF SetValue
  <2>2. \E granted : Write(c, key, v, m, granted, newdb)
    BY <1>5 DEF Set
  <2> HIDE DEF newdb
  <2> QED
    BY <2>1, <2>2, WriteTold
<1>6. ASSUME NEW m, NEW l \in Layers, NEW g \in Groups, NEW n \in Names, NEW t,
             Unset(c, Key(l, g, n, t), m)
      PROVE  ToldInv'
  <2> DEFINE key == Key(l, g, n, t)
             newdb == UnsetValue(db, ConnUid[c], key)
  <2>1. KeysHoldValues(newdb)
    BY <1>1, UnsetHoldsValues DEF UnsetValue
  <2>2. \E granted : Write(c, key, Null, m, granted, newdb)
    BY <1>6 DEF Unset
  <2> HIDE DEF newdb
  <2> QED
    BY <2>1, <2>2, WriteTold
<1>7. ASSUME NEW m, NEW l \in Layers, NEW g \in Groups,
             CreateKeyGroup(c, Key(l, g, Null, "STRING"), m)
      PROVE  ToldInv'
  <2> DEFINE newdb == CreateGroup(db, ConnUid[c], Key(l, g, Null, "STRING"), ConnLabel[c])
  <2>1. KeysHoldValues(newdb)
    BY <1>1, SetHoldsValues DEF CreateGroup
  <2>2. \E granted : Administer(c, m, granted, newdb)
    BY <1>7 DEF CreateKeyGroup
  <2> HIDE DEF newdb
  <2> QED
    BY <2>1, <2>2, AdministerTold
<1>8. ASSUME NEW m, NEW key, RemoveKeyGroup(c, key, m)
      PROVE  ToldInv'
  <2> DEFINE newdb == RemoveGroup(db, ConnUid[c], key)
  <2>1. KeysHoldValues(newdb)
    BY <1>1, UnsetHoldsValues DEF RemoveGroup
  <2>2. \E granted : Administer(c, m, granted, newdb)
    BY <1>8 DEF RemoveKeyGroup
  <2> HIDE DEF newdb
  <2> QED
    BY <2>1, <2>2, AdministerTold
<1>9. ASSUME NEW m, NEW l \in Layers, NEW g \in Groups, NEW n \in Names \cup {Null},
             NEW b \in Labels, SetKeyLabel(c, Key(l, g, n, "UNSET"), b, m)
      PROVE  ToldInv'
  <2> DEFINE key == Key(l, g, n, "UNSET")
             newdb == SetLabel(db, ConnUid[c], key, b)
             granted == CanSetLabel(db, ConnUid[c], key)
  <2>1. ASSUME granted
        PROVE  KeysHoldValues(newdb)
    <3>1. db[Resource(l, ConnUid[c])][<<g, n>>] # Null
      BY <2>1, SlotType DEF CanSetLabel, BackendCanSet, Key
    <3> QED
      BY <1>1, <3>1, SetHoldsValues DEF SetLabel
  <2>2. Administer(c, m, granted, newdb)
    BY <1>9 DEF SetKeyLabel
  <2> HIDE DEF newdb, granted
  <2> QED
    BY <2>1, <2>2, AdministerTold
<1>10. ASSUME NEW m, ServeData(c, m) \/ ServeGroup(c, m)
       PROVE  ToldInv'
  BY <1>5, <1>6, <1>7, <1>8, <1>9, <1>10 DEF ServeData, ServeGroup
<1> QED
  BY <1>2, <1>3, <1>4, <1>10 DEF Serve

LEMMA FreshTold ==
  ASSUME Fresh, KeysHoldValues(db)
  PROVE  ToldInv
<1>1. OldDataOK /\ StaleOK
  BY DEF Fresh, OldDataOK, StaleOK
<1> QED
  BY <1>1, FreshRegistry, TaskShapes DEF Fresh, ToldInv, NotCrashed

LEMMA InitTold == Init => ToldInv
<1>1. EmptyDB \in DB /\ KeysHoldValues(EmptyDB)
  BY DEF EmptyDB, DB, KeysHoldValues, Slots
<1>2. Init => Fresh /\ KeysHoldValues(db)
  BY <1>1 DEF Init, Fresh
<1> QED
  BY <1>2, FreshTold

LEMMA RestartTold ==
  ASSUME ToldInv, Restart
  PROVE  ToldInv'
<1>1. Fresh'
  BY PersistedType DEF Restart, Fresh, ToldInv, IInv, TypeOK
<1>2. KeysHoldValues(db')
  BY PersistedHoldsValues DEF Restart, ToldInv, IInv, TypeOK
<1>3. (Fresh /\ KeysHoldValues(db) => ToldInv)'
  BY FreshTold, PTL
<1> QED
  BY <1>1, <1>2, <1>3

LEMMA NextTold ==
  ASSUME Patient, PlainValues, ToldInv, [Next]_vars
  PROVE  ToldInv'
<1>1. IInv'
  BY NextStep DEF ToldInv
<1>2. ASSUME NEW c \in Conns, EndOfStream(c)
      PROVE  ToldInv'
  BY <1>1, <1>2, RequestTold, TaskShapes DEF EndOfStream, StartTerminate, registryVars, ToldInv
<1>3. ASSUME NEW c, NEW f, Accept(c, f)
      PROVE  ToldInv'
  BY <1>1, <1>3, RequestTold, TaskShapes DEF Accept, ToldInv
<1>4. CASE (\E c \in Conns : Hangup(c)) \/ UNCHANGED vars
  BY <1>1, <1>4 DEF Hangup, vars, ToldInv, OldDataOK, StaleOK, NotCrashed
<1>5. CASE TerminateDone
  <2>1. task.op # "notify" /\ task'.op # "crashed"
    BY <1>5, TaskShapes DEF TerminateDone
  <2> QED
    BY <1>1, <1>5, <2>1, RequestTold DEF TerminateDone, ToldInv
<1>6. CASE Walk
  BY <1>1, <1>5, <1>6, TerminateKeyTold, NotifyOneTold, NotifyDoneTold DEF Walk
<1> QED
  BY <1>1, <1>2, <1>3, <1>4, <1>6, ServeTold, RestartTold DEF Next

(* In every reachable state whoever waits for a value is ahead of the walk. *)
THEOREM ToldInductive ==
  ASSUME Patient, PlainValues
  PROVE  Spec => []ToldInv
<1>1. Init => ToldInv
  BY InitTold
<1>2. ToldInv /\ [Next]_vars => ToldInv'
  BY NextTold
<1> QED
  BY <1>1, <1>2, PTL DEF Spec

(* If peers close only after their last reply, and values are of one type   *)
(* of fixed size and never zero, every client with a registration has been  *)
(* sent the value last written when the daemon turns to the next message.   *)
(* (buxtond_notify_clients)                                                 *)
THEOREM NoChangeMissed ==
  ASSUME Patient, PlainValues
  PROVE  Spec => []NoMissedChange
<1>1. ToldInv => NoMissedChange
  BY DEF ToldInv, StaleOK, NoMissedChange
<1> QED
  BY <1>1, ToldInductive, PTL
=============================================================================
