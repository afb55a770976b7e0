--------------------------- MODULE BuxtonStoreProofs ---------------------------
(***************************************************************************)
(* The databases and rules stay well typed, keys kept in memory keep their *)
(* group, requests change what they may change, and a read that names no   *)
(* layer is answered by the best one, for any layers, clients, labels and  *)
(* rules.                                                                  *)
(***************************************************************************)
EXTENDS BuxtonStore, WellFoundedInduction, TLAPS

-----------------------------------------------------------------------------
(* What every request does to the databases: they stay databases of       *)
(* entries, and what is read from them is an entry that is stored.          *)

LEMMA ResourceType ==
  ASSUME NEW l \in Layers, NEW uid \in Uids
  PROVE  Resource(l, uid) \in Resources
BY DEF Resources

LEMMA SlotType ==
  ASSUME NEW l, NEW g \in Groups, NEW n \in Names \cup {Null}, NEW t
  PROVE  /\ Slot(Key(l, g, n, t)) \in Slots
         /\ Slot(Key(l, g, n, t)) = <<g, n>>
BY DEF Slot, Key, Slots

LEMMA ReadFromLayer ==
  ASSUME NEW d \in DB, NEW rules, NEW label, NEW uid \in Uids,
         NEW l, NEW g \in Groups, NEW n \in Names \cup {Null}, NEW t,
         GetValueForLayer(d, rules, uid, Key(l, g, n, t), label).ret = "OK"
  PROVE  /\ l \in Layers
         /\ d[Resource(l, uid)][<<g, n>>] \in Entry
         /\ GetValueForLayer(d, rules, uid, Key(l, g, n, t), label).data
              = d[Resource(l, uid)][<<g, n>>].data
         /\ GetValueForLayer(d, rules, uid, Key(l, g, n, t), label).label
              = d[Resource(l, uid)][<<g, n>>].label
<1> DEFINE key == Key(l, g, n, t)
           v == BackendGet(d, uid, key)
           e == d[Resource(l, uid)][<<g, n>>]
<1>1. key.layer = l /\ Slot(key) = <<g, n>> /\ Slot(key) \in Slots
  BY SlotType DEF Key
<1>2. /\ l \in Layers
      /\ v.ret = "OK"
      /\ GetValueForLayer(d, rules, uid, key, label) = v
  BY <1>1 DEF GetValueForLayer, NoValue
<1>3. v = [ret |-> "OK", data |-> e.data, label |-> e.label] /\ e # Null
  BY <1>1, <1>2 DEF BackendGet, NoValue
<1>4. e \in Entry \cup {Null}
  BY <1>1, <1>2, ResourceType DEF DB
<1> QED
  BY <1>2, <1>3, <1>4

LEMMA BackendSetType ==
  ASSUME NEW d \in DB, NEW uid \in Uids, NEW l \in Layers,
         NEW g \in Groups, NEW n \in Names \cup {Null}, NEW t,
         NEW data \in Data \cup {Null}, NEW label \in Labels,
         BackendCanSet(d, uid, Key(l, g, n, t), data)
  PROVE  BackendSet(d, uid, Key(l, g, n, t), data, label) \in DB
<1> DEFINE r == Resource(l, uid)
           s == <<g, n>>
           kept == IF data = Null THEN d[r][s].data ELSE data
           new == [data |-> kept, label |-> label]
<1>1. r \in Resources /\ s \in Slots /\ d[r] \in [Slots -> Entry \cup {Null}]
  BY ResourceType, SlotType DEF DB
<1>2. data # Null \/ d[r][s] # Null
  BY SlotType DEF BackendCanSet, Key
<1>3. kept \in Data
  BY <1>1, <1>2, MediumAssumption DEF Entry
<1>4. new \in Entry
  BY <1>3 DEF Entry
<1>5. BackendSet(d, uid, Key(l, g, n, t), data, label) = [d EXCEPT ![r][s] = new]
  BY SlotType DEF BackendSet, Key
<1> HIDE DEF new
<1> QED
  BY <1>1, <1>4, <1>5 DEF DB

(* The entry a set leaves, and that it leaves the others alone.             *)
LEMMA SetIsExcept ==
  ASSUME NEW d \in DB, NEW uid \in Uids, NEW l \in Layers, NEW g \in Groups,
         NEW n \in Names \cup {Null}, NEW t, NEW data, NEW label
  PROVE  \E new :
           /\ new = [data |-> IF data = Null THEN d[Resource(l, uid)][<<g, n>>].data ELSE data,
                     label |-> label]
           /\ BackendSet(d, uid, Key(l, g, n, t), data, label)
                = [d EXCEPT ![Resource(l, uid)][<<g, n>>] = new]
<1>1. Key(l, g, n, t).layer = l /\ Slot(Key(l, g, n, t)) = <<g, n>>
  BY SlotType DEF Key
<1> QED
  BY <1>1 DEF BackendSet

LEMMA SetElsewhere ==
  ASSUME NEW d \in DB, NEW uid \in Uids, NEW l \in Layers, NEW g \in Groups,
         NEW n \in Names \cup {Null}, NEW t, NEW data, NEW label,
         NEW r \in Resources, NEW s \in Slots,
         ~(r = Resource(l, uid) /\ s = <<g, n>>)
  PROVE  BackendSet(d, uid, Key(l, g, n, t), data, label)[r][s] = d[r][s]
<1>1. PICK new : BackendSet(d, uid, Key(l, g, n, t), data, label)
                   = [d EXCEPT ![Resource(l, uid)][<<g, n>>] = new]
  BY SetIsExcept
<1>2. d[r] \in [Slots -> Entry \cup {Null}] /\ DOMAIN d = Resources
  BY DEF DB
<1>3. [d EXCEPT ![Resource(l, uid)][<<g, n>>] = new][r][s] = d[r][s]
  BY <1>2
<1> QED
  BY <1>1, <1>3

LEMMA SetHere ==
  ASSUME NEW d \in DB, NEW uid \in Uids, NEW l \in Layers, NEW g \in Groups,
         NEW n \in Names \cup {Null}, NEW t, NEW data, NEW label
  PROVE  BackendSet(d, uid, Key(l, g, n, t), data, label)[Resource(l, uid)][<<g, n>>] =
           [data |-> IF data = Null THEN d[Resource(l, uid)][<<g, n>>].data ELSE data,
            label |-> label]
<1> DEFINE r == Resource(l, uid)
           s == <<g, n>>
<1>1. PICK new :
        /\ new = [data |-> IF data = Null THEN d[r][s].data ELSE data, label |-> label]
        /\ BackendSet(d, uid, Key(l, g, n, t), data, label) = [d EXCEPT ![r][s] = new]
  BY SetIsExcept
<1>2. r \in Resources /\ s \in Slots /\ d[r] \in [Slots -> Entry \cup {Null}] /\ DOMAIN d = Resources
  BY ResourceType, SlotType DEF DB
<1> HIDE DEF r, s
<1>3. [d EXCEPT ![r][s] = new][r][s] = new
  BY <1>2
<1> QED
  BY <1>1, <1>3 DEF r, s

LEMMA SetHereFields ==
  ASSUME NEW d \in DB, NEW uid \in Uids, NEW l \in Layers, NEW g \in Groups,
         NEW n \in Names \cup {Null}, NEW t, NEW data, NEW label
  PROVE  LET e == BackendSet(d, uid, Key(l, g, n, t), data, label)[Resource(l, uid)][<<g, n>>]
         IN e.label = label /\ (data # Null => e.data = data)
<1> DEFINE e == BackendSet(d, uid, Key(l, g, n, t), data, label)[Resource(l, uid)][<<g, n>>]
           kept == IF data = Null THEN d[Resource(l, uid)][<<g, n>>].data ELSE data
<1>1. e = [data |-> kept, label |-> label]
  BY SetHere
<1> HIDE DEF e
<1>2. e.label = label /\ e.data = kept
  BY <1>1
<1> QED
  BY <1>2 DEF e

LEMMA SetEntry ==
  ASSUME NEW d \in DB, NEW uid \in Uids, NEW l \in Layers, NEW g \in Groups,
         NEW n \in Names \cup {Null}, NEW t, NEW data \in Data \cup {Null}, NEW label \in Labels,
         BackendCanSet(d, uid, Key(l, g, n, t), data)
  PROVE  BackendSet(d, uid, Key(l, g, n, t), data, label)[Resource(l, uid)][<<g, n>>] # Null
<1> DEFINE r == Resource(l, uid)
           s == <<g, n>>
           kept == IF data = Null THEN d[r][s].data ELSE data
<1>1. r \in Resources /\ s \in Slots /\ d[r] \in [Slots -> Entry \cup {Null}]
  BY ResourceType, SlotType DEF DB
<1>2. data # Null \/ d[r][s] # Null
  BY SlotType DEF BackendCanSet, Key
<1>3. kept \in Data
  BY <1>1, <1>2, MediumAssumption DEF Entry
<1>4. [data |-> kept, label |-> label] \in Entry
  BY <1>3 DEF Entry
<1>5. BackendSet(d, uid, Key(l, g, n, t), data, label)[r][s] = [data |-> kept, label |-> label]
  BY SetHere
<1> HIDE DEF kept
<1> QED
  BY <1>4, <1>5, MediumAssumption

LEMMA UnsetAt ==
  ASSUME NEW d \in DB, NEW uid, NEW key, NEW r \in Resources, NEW s \in Slots
  PROVE  BackendUnset(d, uid, key)[r][s] =
           IF r = Resource(key.layer, uid) /\ s \in Doomed(key) THEN Null ELSE d[r][s]
BY DEF BackendUnset, DB

LEMMA GroupKeyOf ==
  ASSUME NEW l, NEW g, NEW n, NEW t
  PROVE  GroupKey(Key(l, g, n, t)) = Key(l, g, Null, "STRING")
<1>1. [Key(l, g, n, t) EXCEPT !.name = Null] = Key(l, g, Null, t)
  BY DEF Key
<1>2. [Key(l, g, Null, t) EXCEPT !.type = "STRING"] = Key(l, g, Null, "STRING")
  BY DEF Key
<1> QED
  BY <1>1, <1>2 DEF GroupKey

LEMMA BackendUnsetType ==
  ASSUME NEW d \in DB, NEW uid, NEW key
  PROVE  BackendUnset(d, uid, key) \in DB
BY DEF BackendUnset, DB

LEMMA LabelForSetType ==
  ASSUME NEW d \in DB, NEW rules, NEW label \in Labels \cup {Null}, NEW uid \in Uids,
         NEW l, NEW g \in Groups, NEW n \in Names \cup {Null}, NEW t
  PROVE  LabelForSet(d, rules, uid, Key(l, g, n, t), label) \in Labels
<1> DEFINE any == Key(l, g, n, "UNSET")
           old == GetValueForLayer(d, rules, uid, any, Null)
<1>1. [Key(l, g, n, t) EXCEPT !.type = "UNSET"] = any
  BY DEF Key
<1>2. LabelForSet(d, rules, uid, Key(l, g, n, t), label) =
        IF old.ret = "OK" THEN old.label ELSE IF label = Null THEN Floor ELSE label
  BY <1>1 DEF LabelForSet
<1>3. ASSUME old.ret = "OK"
      PROVE  old.label \in Labels
  <2>1. /\ old.label = d[Resource(l, uid)][<<g, n>>].label
        /\ d[Resource(l, uid)][<<g, n>>] \in Entry
    BY <1>3, ReadFromLayer
  <2> HIDE DEF old
  <2> QED
    BY <2>1 DEF Entry
<1> HIDE DEF old, any
<1> QED
  BY <1>2, <1>3, NullAssumption

LEMMA SetValueType ==
  ASSUME NEW d \in DB, NEW rules, NEW label \in Labels \cup {Null}, NEW uid \in Uids,
         NEW l, NEW g \in Groups, NEW n \in Names \cup {Null}, NEW t, NEW v \in Data,
         CanSetValue(d, rules, uid, Key(l, g, n, t), v, label)
  PROVE  SetValue(d, rules, uid, Key(l, g, n, t), v, label) \in DB
<1> DEFINE key == Key(l, g, n, t)
<1>1. LabelForSet(d, rules, uid, key, label) \in Labels
  BY LabelForSetType
<1>2. l \in Layers /\ BackendCanSet(d, uid, key, v)
  BY DEF CanSetValue, Writable, Key
<1> QED
  BY <1>1, <1>2, BackendSetType DEF SetValue

LEMMA SetLabelType ==
  ASSUME NEW d \in DB, NEW uid \in Uids,
         NEW l, NEW g \in Groups, NEW n \in Names \cup {Null}, NEW t, NEW b \in Labels,
         CanSetLabel(d, uid, Key(l, g, n, t))
  PROVE  SetLabel(d, uid, Key(l, g, n, t), b) \in DB
<1>1. l \in Layers /\ BackendCanSet(d, uid, Key(l, g, n, t), Null)
  BY DEF CanSetLabel, Writable, Key
<1> QED
  BY <1>1, BackendSetType DEF SetLabel

LEMMA CreateGroupType ==
  ASSUME NEW d \in DB, NEW rules, NEW label \in Labels \cup {Null}, NEW uid \in Uids,
         NEW l, NEW g \in Groups, NEW n \in Names \cup {Null}, NEW t,
         CanCreateGroup(d, rules, uid, Key(l, g, n, t))
  PROVE  CreateGroup(d, uid, Key(l, g, n, t), label) \in DB
<1>1. l \in Layers /\ BackendCanSet(d, uid, Key(l, g, n, t), GroupValue)
  BY DEF CanCreateGroup, Writable, Key
<1>2. GroupValue \in Data /\ (IF label = Null THEN Floor ELSE label) \in Labels
  BY NullAssumption DEF Data
<1> QED
  BY <1>1, <1>2, BackendSetType DEF CreateGroup

LEMMA PersistedType ==
  ASSUME NEW d \in DB
  PROVE  Persisted(d) \in DB /\ EmptyDB \in DB
BY DEF Persisted, EmptyDB, DB

-----------------------------------------------------------------------------
(* The loop over the layers                                                 *)

NoChoice == [layer |-> Null, priority |-> 0]
Choice(l) == [layer |-> l, priority |-> LayerConf[l].priority]

Turn(readable, before, l) ==
  IF l \in readable /\ Supersedes(l, before) THEN Choice(l) ELSE before

(* chosen holds what n turns of the loop have chosen.                       *)
IsLoop(readable, chosen, n) ==
  chosen = [i \in 0 .. n |->
              IF i = 0 THEN NoChoice ELSE Turn(readable, chosen[i - 1], LayerOrder[i])]

(* The layer at j does not come before the one at k.                        *)
Beats(k, j) ==
  LET a == LayerOrder[k]
      b == LayerOrder[j]
  IN  \/ ~IsUserLayer(a) /\ IsUserLayer(b)
      \/ /\ IsUserLayer(a) <=> IsUserLayer(b)
         /\ \/ LayerConf[a].priority > LayerConf[b].priority
            \/ LayerConf[a].priority = LayerConf[b].priority /\ k >= j

(* What is chosen after i turns.                                            *)
NoneBest(readable, before, i) ==
  before = NoChoice /\ \A j \in 1 .. i : LayerOrder[j] \notin readable
SomeBest(readable, before, i) ==
  \E k \in 1 .. i :
    /\ LayerOrder[k] \in readable /\ before = Choice(LayerOrder[k])
    /\ \A j \in 1 .. i : LayerOrder[j] \in readable => Beats(k, j)

LEMMA LayerAt ==
  /\ Len(LayerOrder) \in Nat /\ DOMAIN LayerOrder = 1 .. Len(LayerOrder)
  /\ \A i \in 1 .. Len(LayerOrder) :
       /\ LayerOrder[i] \in Layers /\ LayerOrder[i] # Null
       /\ LayerConf[LayerOrder[i]].priority \in Nat
       /\ IsUserLayer(LayerOrder[i]) \in BOOLEAN
  /\ \A l \in Layers : \E i \in 1 .. Len(LayerOrder) : LayerOrder[i] = l
<1>1. Len(LayerOrder) \in Nat /\ DOMAIN LayerOrder = 1 .. Len(LayerOrder)
  BY LayerAssumption
<1>2. \A i \in 1 .. Len(LayerOrder) : LayerOrder[i] \in Layers
  BY <1>1 DEF Layers
<1>3. \A l \in Layers : \E i \in 1 .. Len(LayerOrder) : LayerOrder[i] = l
  BY <1>1 DEF Layers
<1>4. \A l \in Layers : l # Null /\ LayerConf[l].priority \in Nat
  BY LayerAssumption, NullAssumption
<1> QED
  BY <1>1, <1>2, <1>3, <1>4 DEF IsUserLayer

(* Such a record of the loop exists, whatever the number of turns.          *)
LEMMA LoopExists ==
  ASSUME NEW readable, NEW n \in Nat
  PROVE  \E chosen : IsLoop(readable, chosen, n)
<1> DEFINE S == {m \in Nat : ~\E chosen : IsLoop(readable, chosen, m)}
<1> SUFFICES ASSUME S # {} PROVE FALSE
  OBVIOUS
<1>1. PICK m \in S : \A k \in S : ~(<<k, m>> \in OpToRel(<, Nat))
  BY NatLessThanWellFounded, WFMin
<1>2. m \in Nat /\ \A k \in Nat : k < m => k \notin S
  BY <1>1 DEF OpToRel
<1>3. CASE m = 0
  <2> DEFINE f == [i \in 0 .. 0 |-> NoChoice]
  <2>1. IsLoop(readable, f, 0)
    BY DEF IsLoop
  <2> QED
    BY <1>3, <2>1
<1>4. CASE m # 0
  <2>1. m - 1 \in Nat /\ m - 1 < m /\ m - 1 \notin S
    BY <1>2, <1>4
  <2> PICK f : IsLoop(readable, f, m - 1)
    BY <2>1
  <2> DEFINE last == Turn(readable, f[m - 1], LayerOrder[m])
             g == [i \in 0 .. m |-> IF i < m THEN f[i] ELSE last]
             step(i) == IF i = 0 THEN NoChoice ELSE Turn(readable, g[i - 1], LayerOrder[i])
  <2>2. \A i \in 0 .. m - 1 :
          f[i] = IF i = 0 THEN NoChoice ELSE Turn(readable, f[i - 1], LayerOrder[i])
    BY DEF IsLoop
  <2>3. \A i \in 0 .. m : i < m => g[i] = f[i] /\ i \in 0 .. m - 1
    BY <1>2
  <2>4. g[m] = last
    BY <1>2
  <2> HIDE DEF last
  <2>5. ASSUME NEW i \in 0 .. m
        PROVE  g[i] = step(i)
    <3>1. CASE i = 0
      <4>1. 0 \in 0 .. m - 1 /\ 0 < m
        BY <2>1
      <4> QED
        BY <3>1, <4>1, <2>2, <2>3
    <3>2. CASE i # 0 /\ i < m
      <4>1. i - 1 \in 0 .. m /\ i - 1 < m /\ i \in 0 .. m - 1
        BY <1>2, <3>2
      <4>2. g[i] = f[i] /\ g[i - 1] = f[i - 1]
        BY <2>3, <3>2, <4>1
      <4>3. f[i] = Turn(readable, f[i - 1], LayerOrder[i])
        BY <2>2, <3>2, <4>1
      <4> HIDE DEF g
      <4> QED
        BY <3>2, <4>2, <4>3
    <3>3. CASE i = m
      <4>1. m - 1 \in 0 .. m /\ m - 1 < m
        BY <2>1
      <4>2. g[m - 1] = f[m - 1]
        BY <2>3, <4>1
      <4> HIDE DEF g
      <4> QED
        BY <1>4, <2>4, <3>3, <4>2 DEF last
    <3>4. i = m \/ i < m
      BY <1>2
    <3> QED
      BY <3>1, <3>2, <3>3, <3>4
  <2>6. g = [i \in 0 .. m |-> step(i)]
    <3>1. g = [i \in 0 .. m |-> g[i]]
      OBVIOUS
    <3> HIDE DEF g
    <3> QED
      BY <2>5, <3>1
  <2>7. IsLoop(readable, g, m)
    BY <2>6 DEF IsLoop
  <2> QED
    BY <1>1, <2>7
<1> QED
  BY <1>3, <1>4

(* One turn keeps the best of the layers seen.                              *)
LEMMA TurnBest ==
  ASSUME NEW readable \in SUBSET Layers, NEW before, NEW i \in Nat, i + 1 \in 1 .. Len(LayerOrder),
         NoneBest(readable, before, i) \/ SomeBest(readable, before, i)
  PROVE  LET after == Turn(readable, before, LayerOrder[i + 1])
         IN  NoneBest(readable, after, i + 1) \/ SomeBest(readable, after, i + 1)
<1> DEFINE l == LayerOrder[i + 1]
           after == Turn(readable, before, l)
<1>0. /\ l \in Layers /\ l # Null /\ LayerConf[l].priority \in Nat
      /\ \A j \in 1 .. i + 1 : j \in 1 .. i \/ j = i + 1
      /\ i + 1 \in 1 .. i + 1
      /\ \A j \in 1 .. i : j \in 1 .. i + 1 /\ j \in 1 .. Len(LayerOrder) /\ i + 1 >= j
      /\ Beats(i + 1, i + 1)
  <2>1. Len(LayerOrder) \in Nat /\ l \in Layers /\ l # Null /\ LayerConf[l].priority \in Nat
    BY LayerAt
  <2>2. Beats(i + 1, i + 1)
    BY <2>1 DEF Beats
  <2> QED
    BY <2>1, <2>2
<1>1. CASE l \notin readable
  <2>1. after = before
    BY <1>1 DEF Turn
  <2>2. CASE NoneBest(readable, before, i)
    BY <1>0, <1>1, <2>1, <2>2 DEF NoneBest
  <2>3. CASE SomeBest(readable, before, i)
    BY <1>0, <1>1, <2>1, <2>3 DEF SomeBest
  <2> QED
    BY <2>2, <2>3
<1>2. CASE l \in readable /\ NoneBest(readable, before, i)
  <2>1. Supersedes(l, before)
    BY <1>0, <1>2 DEF NoneBest, NoChoice, Supersedes
  <2>2. after = Choice(l)
    BY <1>2, <2>1 DEF Turn
  <2> QED
    BY <1>0, <1>2, <2>2 DEF SomeBest, NoneBest
<1>3. CASE l \in readable /\ SomeBest(readable, before, i)
  <2> PICK k \in 1 .. i :
         /\ LayerOrder[k] \in readable /\ before = Choice(LayerOrder[k])
         /\ \A j \in 1 .. i : LayerOrder[j] \in readable => Beats(k, j)
    BY <1>3 DEF SomeBest
  <2>0. /\ before.layer = LayerOrder[k] /\ before.priority = LayerConf[LayerOrder[k]].priority
        /\ before.layer # Null /\ before.priority \in Nat
        /\ k \in 1 .. i + 1 /\ k \in 1 .. Len(LayerOrder)
    BY <1>0, LayerAt DEF Choice
  <2>1. CASE Supersedes(l, before)
    <3>1. after = Choice(l)
      BY <1>3, <2>1 DEF Turn
    <3>2. ASSUME NEW j \in 1 .. i, LayerOrder[j] \in readable
          PROVE  Beats(i + 1, j)
      <4>1. Beats(k, j)
        BY <3>2
      <4>2. LayerConf[LayerOrder[j]].priority \in Nat
        BY <1>0, LayerAt
      <4>3. i + 1 >= j
        BY <1>0
      <4> QED
        BY <1>0, <2>0, <2>1, <4>1, <4>2, <4>3 DEF Beats, Supersedes
    <3>3. \A j \in 1 .. i + 1 : LayerOrder[j] \in readable => Beats(i + 1, j)
      BY <1>0, <3>2
    <3> QED
      BY <1>0, <1>3, <3>1, <3>3 DEF SomeBest
  <2>2. CASE ~Supersedes(l, before)
    <3>1. after = before
      BY <2>2 DEF Turn
    <3>2. Beats(k, i + 1)
      BY <1>0, <2>0, <2>2 DEF Beats, Supersedes
    <3>3. \A j \in 1 .. i + 1 : LayerOrder[j] \in readable => Beats(k, j)
      BY <1>0, <3>2
    <3> QED
      BY <2>0, <3>1, <3>3 DEF SomeBest
  <2> QED
    BY <2>1, <2>2
<1> QED
  BY <1>1, <1>2, <1>3

(* The layer the loop ends with: none when the key can be read in none, and *)
(* else one it can be read in that no other comes before.                   *)
LEMMA ChosenIsBest ==
  ASSUME NEW readable \in SUBSET Layers
  PROVE  /\ readable = {} => ChosenOf(readable) = Null
         /\ readable # {} =>
              \E k \in 1 .. Len(LayerOrder) :
                /\ LayerOrder[k] \in readable /\ ChosenOf(readable) = LayerOrder[k]
                /\ \A j \in 1 .. Len(LayerOrder) : LayerOrder[j] \in readable => Beats(k, j)
<1> DEFINE N == Len(LayerOrder)
           g == CHOOSE f : IsLoop(readable, f, N)
           best(i) == NoneBest(readable, g[i], i) \/ SomeBest(readable, g[i], i)
           S == {i \in 0 .. N : ~best(i)}
<1>0. N \in Nat
  BY LayerAt
<1>1. IsLoop(readable, g, N)
  BY <1>0, LoopExists
<1>2. ChosenOf(readable) = g[N].layer
  BY Zenon DEF ChosenOf, IsLoop, Turn, NoChoice, Choice
<1> HIDE DEF g
<1>3. /\ g[0] = NoChoice
      /\ \A i \in 1 .. N : g[i] = Turn(readable, g[i - 1], LayerOrder[i])
  <2>1. \A i \in 0 .. N :
          g[i] = IF i = 0 THEN NoChoice ELSE Turn(readable, g[i - 1], LayerOrder[i])
    BY <1>1 DEF IsLoop
  <2>2. 0 \in 0 .. N /\ \A i \in 1 .. N : i \in 0 .. N /\ i # 0
    BY <1>0
  <2> QED
    BY <2>1, <2>2
<1>4. S = {}
  <2> SUFFICES ASSUME S # {} PROVE FALSE
    OBVIOUS
  <2>1. S \subseteq Nat
    OBVIOUS
  <2> HIDE DEF S
  <2>2. PICK m \in S : \A k \in S : ~(<<k, m>> \in OpToRel(<, Nat))
    BY <2>1, NatLessThanWellFounded, WFMin
  <2>3. m \in 0 .. N /\ ~best(m)
    BY <2>2 DEF S
  <2>4. CASE m = 0
    <3>1. NoneBest(readable, g[0], 0)
      BY <1>3 DEF NoneBest
    <3> QED
      BY <2>3, <2>4, <3>1
  <2>5. CASE m # 0
    <3> PICK i : i = m - 1
      OBVIOUS
    <3>1. i \in Nat /\ i \in 0 .. N /\ i < m /\ m = i + 1 /\ m \in 1 .. N
      BY <1>0, <2>3, <2>5
    <3>2. i \notin S
      BY <2>1, <2>2, <3>1 DEF OpToRel
    <3>3. best(i)
      BY <3>1, <3>2 DEF S
    <3>4. g[m] = Turn(readable, g[i], LayerOrder[i + 1])
      BY <1>3, <3>1
    <3> QED
      BY <2>3, <3>1, <3>3, <3>4, TurnBest
  <2> QED
    BY <2>4, <2>5
<1>5. best(N)
  BY <1>0, <1>4
<1>6. CASE NoneBest(readable, g[N], N)
  <2>1. ChosenOf(readable) = Null
    BY <1>2, <1>6 DEF NoneBest, NoChoice
  <2>2. readable = {}
    BY <1>6, LayerAt DEF NoneBest
  <2> QED
    BY <2>1, <2>2
<1>7. CASE SomeBest(readable, g[N], N)
  <2> PICK k \in 1 .. N :
         /\ LayerOrder[k] \in readable /\ g[N] = Choice(LayerOrder[k])
         /\ \A j \in 1 .. N : LayerOrder[j] \in readable => Beats(k, j)
    BY <1>7 DEF SomeBest
  <2>1. ChosenOf(readable) = LayerOrder[k]
    BY <1>2 DEF Choice
  <2> QED
    BY <2>1
<1> QED
  BY <1>5, <1>6, <1>7

-----------------------------------------------------------------------------
(* The requests of clients.                                                 *)

(* A set or an unset needs a group, and one this client may write.          *)
LEMMA SetNeedsGroup ==
  ASSUME NEW d \in DB, NEW rules, NEW uid \in Uids, NEW l, NEW g \in Groups,
         NEW n, NEW t, NEW v, NEW label,
         CanSetValue(d, rules, uid, Key(l, g, n, t), v, label)
  PROVE  /\ l \in Layers
         /\ d[Resource(l, uid)][<<g, Null>>] \in Entry
         /\ MayWrite(rules, label, d[Resource(l, uid)][<<g, Null>>].label)
<1>1. GroupKey(Key(l, g, n, t)) = Key(l, g, Null, "STRING")
  BY GroupKeyOf
<1>2. /\ GetValueForLayer(d, rules, uid, Key(l, g, Null, "STRING"), Null).ret = "OK"
      /\ MayWrite(rules, label,
           GetValueForLayer(d, rules, uid, Key(l, g, Null, "STRING"), Null).label)
  BY <1>1 DEF CanSetValue
<1> QED
  BY <1>2, ReadFromLayer

LEMMA UnsetNeedsGroup ==
  ASSUME NEW d \in DB, NEW rules, NEW uid \in Uids, NEW l, NEW g \in Groups,
         NEW n, NEW t, NEW label,
         CanUnsetValue(d, rules, uid, Key(l, g, n, t), label)
  PROVE  /\ l \in Layers
         /\ d[Resource(l, uid)][<<g, Null>>] \in Entry
         /\ MayWrite(rules, label, d[Resource(l, uid)][<<g, Null>>].label)
<1>1. GroupKey(Key(l, g, n, t)) = Key(l, g, Null, "STRING")
  BY GroupKeyOf
<1>2. /\ GetValueForLayer(d, rules, uid, Key(l, g, Null, "STRING"), Null).ret = "OK"
      /\ MayWrite(rules, label,
           GetValueForLayer(d, rules, uid, Key(l, g, Null, "STRING"), Null).label)
  BY <1>1 DEF CanUnsetValue
<1> QED
  BY <1>2, ReadFromLayer

-----------------------------------------------------------------------------
(* Every request keeps TypeOK.                                              *)

LEMMA SeqItem ==
  ASSUME NEW S, NEW s \in Seq(S), NEW i \in DOMAIN s
  PROVE  s[i] \in S
OBVIOUS

LEMMA RulesType ==
  ASSUME NEW f \in RuleFiles, NEW p \in DOMAIN RulesOf(f)
  PROVE  RulesOf(f)[p] \subseteq {"r", "w"}
<1> DEFINE Pair(i) == <<f[i].subject, f[i].object>>
           first == CHOOSE i \in DOMAIN f : Pair(i) = p /\ \A j \in 1..(i - 1) : Pair(j) # p
           S == {i \in DOMAIN f : Pair(i) = p}
<1>1. f \in Seq([subject : Labels, object : Labels, access : SUBSET {"r", "w"}])
  BY ClientAssumption
<1>2. PICK k \in DOMAIN f : Pair(k) = p
  BY DEF RulesOf
<1>3. \E i \in S : \A j \in S : ~(<<j, i>> \in OpToRel(<, Nat))
  <2>1. S \subseteq Nat /\ S # {}
    BY <1>1, <1>2
  <2> HIDE DEF S
  <2> QED
    BY <2>1, NatLessThanWellFounded, WFMin
<1>4. PICK i \in DOMAIN f : Pair(i) = p /\ \A j \in 1..(i - 1) : Pair(j) # p
  <2>1. PICK i \in S : \A j \in S : ~(<<j, i>> \in OpToRel(<, Nat))
    BY <1>3
  <2>2. ASSUME NEW j \in 1..(i - 1), Pair(j) = p
        PROVE  FALSE
    <3>1. j \in S /\ j < i /\ i \in Nat /\ j \in Nat
      BY <1>1, <2>2
    <3>2. <<j, i>> \in OpToRel(<, Nat)
      BY <3>1 DEF OpToRel
    <3> QED
      BY <2>1, <3>1, <3>2
  <2> QED
    BY <2>1, <2>2
<1>5. first \in DOMAIN f
  BY <1>4
<1>6. f[first] \in [subject : Labels, object : Labels, access : SUBSET {"r", "w"}]
  BY <1>1, <1>5, SeqItem
<1>7. RulesOf(f)[p] = f[first].access
  BY DEF RulesOf
<1> HIDE DEF first
<1>8. f[first].access \subseteq {"r", "w"}
  BY <1>6
<1> HIDE DEF Pair, S
<1> QED
  BY <1>7, <1>8, Zenon

RulesOK(c) ==
  c.have \in BOOLEAN /\ \A p \in DOMAIN c.rules : c.rules[p] \subseteq {"r", "w"}

LEMMA LoadedType ==
  ASSUME NEW c \in LoadedCaches
  PROVE  RulesOK(c)
<1>1. CASE SmackMounted
  <2>1. PICK f \in RuleFiles : c = [have |-> TRUE, rules |-> RulesOf(f)]
    BY <1>1 DEF LoadedCaches
  <2>2. c.have = TRUE /\ c.rules = RulesOf(f)
    BY <2>1
  <2> QED
    BY <2>2, RulesType DEF RulesOK
<1>2. CASE ~SmackMounted
  <2>1. c.have = FALSE /\ c.rules = << >>
    BY <1>2 DEF LoadedCaches, SmackDisabled
  <2>2. DOMAIN << >> = {}
    OBVIOUS
  <2> QED
    BY <2>1, <2>2 DEF RulesOK
<1> QED
  BY <1>1, <1>2

LEMMA ReloadType ==
  ASSUME RulesOK(smack), ReloadRules
  PROVE  RulesOK(smack')
<1>1. PICK f \in RuleFiles : smack' = [smack EXCEPT !.rules = RulesOf(f)]
  BY DEF ReloadRules, CacheSmackRules
<1>2. smack'.have = smack.have /\ smack'.rules = RulesOf(f)
  BY <1>1
<1> QED
  BY <1>2, RulesType DEF RulesOK

-----------------------------------------------------------------------------
(* Keys and their groups, in the layers kept in memory.                     *)

InMemory(r) == LayerConf[r[1]].backend = "memory"
KeysHaveGroup(d) ==
  \A r \in Resources : InMemory(r) =>
    \A g \in Groups, n \in Names : d[r][<<g, n>>] # Null => d[r][<<g, Null>>] # Null

LEMMA SetKeepsGroups ==
  ASSUME NEW d \in DB, NEW uid \in Uids, NEW l \in Layers, NEW g \in Groups,
         NEW n \in Names \cup {Null}, NEW t, NEW data \in Data \cup {Null}, NEW label \in Labels,
         BackendCanSet(d, uid, Key(l, g, n, t), data),
         KeysHaveGroup(d),
         n # Null => d[Resource(l, uid)][<<g, Null>>] # Null \/ d[Resource(l, uid)][<<g, n>>] # Null
  PROVE  KeysHaveGroup(BackendSet(d, uid, Key(l, g, n, t), data, label))
<1> DEFINE new == BackendSet(d, uid, Key(l, g, n, t), data, label)
           res == Resource(l, uid)
<1>0. ASSUME NEW r \in Resources, NEW s \in Slots, ~(r = res /\ s = <<g, n>>)
      PROVE  new[r][s] = d[r][s]
  BY <1>0, SetElsewhere
<1> SUFFICES ASSUME NEW r \in Resources, InMemory(r), NEW h \in Groups, NEW m \in Names,
                    new[r][<<h, m>>] # Null
             PROVE  new[r][<<h, Null>>] # Null
  BY DEF KeysHaveGroup
<1>1. <<h, m>> \in Slots /\ <<h, Null>> \in Slots
  BY DEF Slots
<1>2. new[res][<<g, n>>] # Null
  BY SetEntry
<1>3. CASE r = res /\ h = g /\ n = Null
  BY <1>2, <1>3
<1>4. CASE ~(r = res /\ h = g /\ n = Null)
  <2> HIDE DEF new, res
  <2>1. new[r][<<h, Null>>] = d[r][<<h, Null>>]
    BY <1>0, <1>1, <1>4
  <2>2. d[r][<<h, m>>] # Null \/ (r = res /\ h = g /\ m = n)
    BY <1>0, <1>1
  <2>3. d[r][<<h, m>>] # Null => d[r][<<h, Null>>] # Null
    BY DEF KeysHaveGroup
  <2> QED
    BY <2>1, <2>2, <2>3, NullAssumption DEF res
<1> QED
  BY <1>3, <1>4

LEMMA UnsetKeepsGroups ==
  ASSUME NEW d \in DB, NEW uid \in Uids, NEW l \in Layers, NEW g \in Groups,
         NEW n \in Names \cup {Null}, NEW t, KeysHaveGroup(d)
  PROVE  KeysHaveGroup(BackendUnset(d, uid, Key(l, g, n, t)))
<1> DEFINE key == Key(l, g, n, t)
           new == BackendUnset(d, uid, key)
           res == Resource(l, uid)
<1> SUFFICES ASSUME NEW r \in Resources, InMemory(r), NEW h \in Groups, NEW m \in Names,
                    new[r][<<h, m>>] # Null
             PROVE  new[r][<<h, Null>>] # Null
  BY DEF KeysHaveGroup
<1>1. <<h, m>> \in Slots /\ <<h, Null>> \in Slots
  BY DEF Slots
<1>2. key.layer = l /\ key.name = n /\ key.group = g /\ Slot(key) = <<g, n>>
  BY DEF Key, Slot
<1>3. d[r][<<h, m>>] # Null /\ ~(r = res /\ <<h, m>> \in Doomed(key))
  BY <1>1, <1>2, UnsetAt
<1>4. d[r][<<h, Null>>] # Null
  BY <1>3 DEF KeysHaveGroup
<1>5. ASSUME r = res, <<h, Null>> \in Doomed(key)
      PROVE  FALSE
  <2>1. LayerConf[l].backend = "memory"
    BY <1>5 DEF InMemory, Resource
  <2>2. CASE n = Null
    <3>1. Doomed(key) = {s \in Slots : s[1] = g}
      BY <1>2, <2>1, <2>2 DEF Doomed
    <3> QED
      BY <1>1, <1>3, <1>5, <3>1
  <2>3. CASE n # Null
    <3>1. Doomed(key) = {<<g, n>>}
      BY <1>2, <2>3 DEF Doomed
    <3> QED
      BY <1>5, <2>3, <3>1
  <2> QED
    BY <2>2, <2>3
<1> QED
  BY <1>1, <1>2, <1>4, <1>5, UnsetAt

-----------------------------------------------------------------------------
(* The inductive invariant.                                                 *)

IInv == db \in DB /\ RulesOK(smack) /\ KeysHaveGroup(db)

LEMMA ClientType ==
  ASSUME NEW c \in Clients
  PROVE  ClientUid[c] \in Uids /\ ClientLabel[c] \in Labels \cup {Null}
BY ClientAssumption

LEMMA ServedKeeps ==
  ASSUME IInv, NEW granted, NEW new, Serve(granted, new),
         granted => new \in DB /\ KeysHaveGroup(new)
  PROVE  IInv'
BY DEF Serve, IInv

LEMMA SetValueKeeps ==
  ASSUME IInv, NEW c \in Clients, NEW l \in Layers, NEW g \in Groups, NEW n \in Names,
         NEW v \in Values, SetValueRequest(c, Key(l, g, n, v.type), v)
  PROVE  IInv'
<1> DEFINE uid == ClientUid[c]
           label == ClientLabel[c]
           key == Key(l, g, n, v.type)
           granted == CanSetValue(db, smack, uid, key, v, label)
           new == SetValue(db, smack, uid, key, v, label)
<1>1. v \in Data /\ db \in DB /\ KeysHaveGroup(db)
  BY DEF IInv, Data
<1>2. ASSUME granted
      PROVE  new \in DB /\ KeysHaveGroup(new)
  <2>1. new \in DB
    BY <1>1, <1>2, ClientType, SetValueType
  <2>2. db[Resource(l, uid)][<<g, Null>>] # Null
    BY <1>1, <1>2, ClientType, SetNeedsGroup, MediumAssumption
  <2>3. BackendCanSet(db, uid, key, v)
    BY <1>2 DEF CanSetValue
  <2>4. LabelForSet(db, smack, uid, key, label) \in Labels
    BY <1>1, ClientType, LabelForSetType
  <2>5. KeysHaveGroup(BackendSet(db, uid, key, v, LabelForSet(db, smack, uid, key, label)))
    BY <1>1, <2>2, <2>3, <2>4, ClientType, SetKeepsGroups
  <2> QED
    BY <2>1, <2>5 DEF SetValue
<1> HIDE DEF granted, new
<1>3. Serve(granted, new)
  BY DEF SetValueRequest, granted, new
<1> QED
  BY <1>2, <1>3, ServedKeeps

LEMMA SetLabelKeeps ==
  ASSUME IInv, NEW c \in Clients, NEW l \in Layers, NEW g \in Groups,
         NEW n \in Names \cup {Null}, NEW t, NEW b \in Labels,
         SetLabelRequest(c, Key(l, g, n, t), b)
  PROVE  IInv'
<1> DEFINE uid == ClientUid[c]
           key == Key(l, g, n, t)
           granted == CanSetLabel(db, uid, key)
           new == SetLabel(db, uid, key, b)
<1>1. db \in DB /\ KeysHaveGroup(db)
  BY DEF IInv
<1>2. ASSUME granted
      PROVE  new \in DB /\ KeysHaveGroup(new)
  <2>1. new \in DB
    BY <1>1, <1>2, ClientType, SetLabelType
  <2>2. BackendCanSet(db, uid, key, Null)
    BY <1>2 DEF CanSetLabel
  <2>3. db[Resource(l, uid)][<<g, n>>] # Null
    BY <2>2, SlotType DEF BackendCanSet, Key
  <2>4. KeysHaveGroup(BackendSet(db, uid, key, Null, b))
    BY <1>1, <2>2, <2>3, ClientType, SetKeepsGroups
  <2> QED
    BY <2>1, <2>4 DEF SetLabel
<1> HIDE DEF granted, new
<1>3. Serve(granted, new)
  BY DEF SetLabelRequest, granted, new
<1> QED
  BY <1>2, <1>3, ServedKeeps

LEMMA CreateGroupKeeps ==
  ASSUME IInv, NEW c \in Clients, NEW l \in Layers, NEW g \in Groups,
         CreateGroupRequest(c, Key(l, g, Null, "STRING"))
  PROVE  IInv'
<1> DEFINE uid == ClientUid[c]
           label == ClientLabel[c]
           key == Key(l, g, Null, "STRING")
           own == IF label = Null THEN Floor ELSE label
           granted == CanCreateGroup(db, smack, uid, key)
           new == CreateGroup(db, uid, key, label)
<1>1. db \in DB /\ KeysHaveGroup(db)
  BY DEF IInv
<1>2. ASSUME granted
      PROVE  new \in DB /\ KeysHaveGroup(new)
  <2>1. new \in DB
    BY <1>1, <1>2, ClientType, CreateGroupType
  <2>2. BackendCanSet(db, uid, key, GroupValue)
    BY <1>2 DEF CanCreateGroup
  <2>3. own \in Labels /\ GroupValue \in Data
    BY ClientType, NullAssumption DEF Data
  <2>4. KeysHaveGroup(BackendSet(db, uid, key, GroupValue, own))
    BY <1>1, <2>2, <2>3, ClientType, SetKeepsGroups
  <2> QED
    BY <2>1, <2>4 DEF CreateGroup
<1> HIDE DEF granted, new
<1>3. Serve(granted, new)
  BY DEF CreateGroupRequest, granted, new
<1> QED
  BY <1>2, <1>3, ServedKeeps

(* Requests that unset one record or, for a group in memory, all of it.     *)
LEMMA UnsetKeeps ==
  ASSUME IInv, NEW c \in Clients, NEW l \in Layers, NEW g \in Groups,
         NEW n \in Names \cup {Null}, NEW t,
         RemoveGroupRequest(c, Key(l, g, n, t)) \/ UnsetValueRequest(c, Key(l, g, n, t))
  PROVE  IInv'
<1> DEFINE new == BackendUnset(db, ClientUid[c], Key(l, g, n, t))
<1>1. db \in DB /\ KeysHaveGroup(db)
  BY DEF IInv
<1>2. new \in DB /\ KeysHaveGroup(new)
  BY <1>1, ClientType, BackendUnsetType, UnsetKeepsGroups
<1>3. PICK granted : Serve(granted, new)
  BY DEF RemoveGroupRequest, UnsetValueRequest, RemoveGroup, UnsetValue
<1> HIDE DEF new
<1> QED
  BY <1>2, <1>3, ServedKeeps

LEMMA PersistedKeeps ==
  ASSUME NEW d \in DB
  PROVE  KeysHaveGroup(Persisted(d))
<1> SUFFICES ASSUME NEW r \in Resources, InMemory(r), NEW g \in Groups, NEW n \in Names
             PROVE  Persisted(d)[r][<<g, n>>] = Null
  BY DEF KeysHaveGroup
<1>1. Persisted(d)[r] = EmptyDB[r]
  BY DEF Persisted, InMemory
<1>2. <<g, n>> \in Slots
  BY DEF Slots
<1> QED
  BY <1>1, <1>2 DEF EmptyDB

LEMMA InitKeeps == Init => IInv
<1> SUFFICES ASSUME Init PROVE IInv
  OBVIOUS
<1>1. db \in DB /\ Persisted(db) = db
  BY ClientAssumption DEF Init
<1>2. RulesOK(smack)
  BY LoadedType DEF Init
<1> QED
  BY <1>1, <1>2, PersistedKeeps DEF IInv

LEMMA NextKeeps ==
  ASSUME IInv, [Next]_vars
  PROVE  IInv'
<1>1. CASE UNCHANGED vars
  BY <1>1 DEF vars, IInv
<1>2. ASSUME NEW c \in Clients, NEW l \in Layers, NEW g \in Groups, NEW n \in Names,
             NEW v \in Values, SetValueRequest(c, Key(l, g, n, v.type), v)
      PROVE  IInv'
  BY <1>2, SetValueKeeps
<1>3. ASSUME NEW c \in Clients, NEW l \in Layers, NEW g \in Groups, NEW n \in Names,
             NEW t \in ValueTypes, UnsetValueRequest(c, Key(l, g, n, t))
      PROVE  IInv'
  BY <1>3, UnsetKeeps
<1>4. ASSUME NEW c \in Clients, NEW l \in Layers, NEW g \in Groups,
             NEW n \in Names \cup {Null}, NEW b \in Labels,
             SetLabelRequest(c, Key(l, g, n, "UNSET"), b)
      PROVE  IInv'
  BY <1>4, SetLabelKeeps
<1>5. ASSUME NEW c \in Clients, NEW k \in GroupKeys,
             CreateGroupRequest(c, k) \/ RemoveGroupRequest(c, k)
      PROVE  IInv'
  <2>1. PICK l \in Layers, g \in Groups : k = Key(l, g, Null, "STRING")
    BY DEF GroupKeys
  <2> QED
    BY <1>5, <2>1, CreateGroupKeeps, UnsetKeeps
<1>6. CASE ReloadRules
  <2>1. RulesOK(smack')
    BY <1>6, ReloadType DEF IInv
  <2>2. db' = db
    BY <1>6 DEF ReloadRules
  <2> QED
    BY <2>1, <2>2 DEF IInv, RulesOK
<1>7. CASE Restart
  <2>1. db' = Persisted(db) /\ smack' \in LoadedCaches /\ db \in DB
    BY <1>7 DEF Restart, IInv
  <2>2. db' \in DB /\ KeysHaveGroup(db')
    BY <2>1, PersistedType, PersistedKeeps
  <2>3. RulesOK(smack')
    BY <2>1, LoadedType
  <2> QED
    BY <2>2, <2>3 DEF IInv, KeysHaveGroup, RulesOK
<1> QED
  BY <1>1, <1>2, <1>3, <1>4, <1>5, <1>6, <1>7 DEF Next

THEOREM StoreInductive == Spec => []IInv
<1>1. Init => IInv
  BY InitKeeps
<1>2. IInv /\ [Next]_vars => IInv'
  BY NextKeeps
<1> QED
  BY <1>1, <1>2, PTL DEF Spec

(* The databases hold entries of the right type and the cache holds rules,  *)
(* after any requests, reloads and restarts.                                *)
THEOREM StoreTypeCorrect == Spec => []TypeOK
<1>1. IInv => TypeOK
  BY DEF IInv, TypeOK, RulesOK
<1> QED
  BY <1>1, StoreInductive, PTL

(* memory.c: in a layer kept in memory, no key is without its group.        *)
THEOREM MemoryKeepsGroups == Spec => []MemoryKeysHaveGroup
<1>1. IInv => MemoryKeysHaveGroup
  <2> SUFFICES ASSUME IInv, NEW r \in Resources, InMemory(r), NEW s \in Orphans(r)
               PROVE  FALSE
    BY DEF MemoryKeysHaveGroup, InMemory
  <2>1. /\ s \in Slots /\ s[2] # Null
        /\ db[r][s] # Null /\ db[r][<<s[1], Null>>] = Null
    BY DEF Orphans
  <2>2. PICK g \in Groups, n \in Names : s = <<g, n>>
    BY <2>1 DEF Slots
  <2> QED
    BY <2>1, <2>2 DEF IInv, KeysHaveGroup
<1> QED
  BY <1>1, StoreInductive, PTL

-----------------------------------------------------------------------------
(* What a request may change.                                               *)

(* Without a label to check, a key in a layer that has its group is read.   *)
LEMMA UncheckedRead ==
  ASSUME NEW d \in DB, NEW rules, NEW uid \in Uids, NEW l \in Layers,
         NEW g \in Groups, NEW n \in Names \cup {Null}, NEW t,
         GetValueForLayer(d, rules, uid, Key(l, g, Null, "STRING"), Null).ret = "OK",
         d[Resource(l, uid)][<<g, n>>] # Null,
         t \in {d[Resource(l, uid)][<<g, n>>].data.type, "UNSET"}
  PROVE  GetValueForLayer(d, rules, uid, Key(l, g, n, t), Null) =
           [ret |-> "OK", data |-> d[Resource(l, uid)][<<g, n>>].data,
            label |-> d[Resource(l, uid)][<<g, n>>].label]
<1> DEFINE group == Key(l, g, Null, "STRING")
           key == Key(l, g, n, t)
           e == d[Resource(l, uid)][<<g, n>>]
           v == [ret |-> "OK", data |-> e.data, label |-> e.label]
<1>1. GroupKey(group) = group /\ GroupKey(key) = group
  BY GroupKeyOf
<1>2. /\ group.layer = l /\ group.name = Null
      /\ key.layer = l /\ key.name = n /\ key.type = t /\ Slot(key) = <<g, n>>
  BY DEF Key, Slot
<1>3. BackendGet(d, uid, group).ret = "OK"
  BY <1>2 DEF GetValueForLayer, NoValue, MayRead
<1>4. Medium[Resource(l, uid)] # "none"
  BY <1>2, <1>3 DEF BackendGet, NoValue
<1>5. BackendGet(d, uid, key) = v
  BY <1>2, <1>4 DEF BackendGet
<1>6. v.ret = "OK"
  OBVIOUS
<1> HIDE DEF v, key, group
<1> QED
  BY <1>1, <1>2, <1>3, <1>5, <1>6 DEF GetValueForLayer, MayRead, v, key

(* A set that is granted may write the value it replaces, and keeps its     *)
(* label.                                                                   *)
LEMMA SetMayReplace ==
  ASSUME NEW d \in DB, NEW rules, NEW uid \in Uids, NEW l, NEW g \in Groups,
         NEW n \in Names, NEW t, NEW v, NEW label,
         CanSetValue(d, rules, uid, Key(l, g, n, t), v, label),
         d[Resource(l, uid)][<<g, n>>] # Null
  PROVE  /\ MayWrite(rules, label, d[Resource(l, uid)][<<g, n>>].label)
         /\ LabelForSet(d, rules, uid, Key(l, g, n, t), label)
              = d[Resource(l, uid)][<<g, n>>].label
<1> DEFINE any == Key(l, g, n, "UNSET")
           old == GetValueForLayer(d, rules, uid, any, Null)
<1>1. [Key(l, g, n, t) EXCEPT !.type = "UNSET"] = any
  BY DEF Key
<1>2. GetValueForLayer(d, rules, uid, Key(l, g, Null, "STRING"), Null).ret = "OK"
  BY GroupKeyOf DEF CanSetValue
<1>3. l \in Layers
  BY SetNeedsGroup
<1>4. old.ret = "OK" /\ old.label = d[Resource(l, uid)][<<g, n>>].label
  BY <1>2, <1>3, UncheckedRead
<1>5. old.ret = "OK" => MayWrite(rules, label, old.label)
  BY <1>1 DEF CanSetValue
<1>6. old.ret = "OK" => LabelForSet(d, rules, uid, Key(l, g, n, t), label) = old.label
  BY <1>1 DEF LabelForSet
<1> QED
  BY <1>4, <1>5, <1>6

LEMMA UnsetMayRemove ==
  ASSUME NEW d \in DB, NEW rules, NEW uid \in Uids, NEW l, NEW g \in Groups,
         NEW n \in Names, NEW t, NEW label,
         CanUnsetValue(d, rules, uid, Key(l, g, n, t), label)
  PROVE  MayWrite(rules, label, d[Resource(l, uid)][<<g, n>>].label)
<1>1. CASE label = Null
  BY <1>1 DEF MayWrite
<1>2. CASE label # Null
  BY <1>2, ReadFromLayer DEF CanUnsetValue
<1> QED
  BY <1>1, <1>2

(* Setting or unsetting a key needs the rights WritersAreAllowed names.     *)
LEMMA WriterIsAllowed ==
  ASSUME db \in DB, db' # db, NEW c \in Clients, NEW l \in Layers, NEW g \in Groups,
         NEW n \in Names, NEW t \in ValueTypes,
         \/ \E v \in Values : v.type = t /\ SetValueRequest(c, Key(l, g, n, t), v)
         \/ UnsetValueRequest(c, Key(l, g, n, t)),
         NEW r \in Resources, NEW s \in Slots, db'[r][s] # db[r][s]
  PROVE  /\ r = Resource(l, ClientUid[c]) /\ s = <<g, n>>
         /\ db[r][<<g, Null>>] # Null
         /\ MayWrite(smack, ClientLabel[c], db[r][<<g, Null>>].label)
         /\ db[r][s] # Null => MayWrite(smack, ClientLabel[c], db[r][s].label)
         /\ db[r][s] # Null /\ db'[r][s] # Null => db'[r][s].label = db[r][s].label
<1> DEFINE uid == ClientUid[c]
           label == ClientLabel[c]
           key == Key(l, g, n, t)
           res == Resource(l, uid)
<1>1. uid \in Uids
  BY ClientType
<1>2. ASSUME NEW v \in Values, SetValueRequest(c, key, v)
      PROVE  /\ r = res /\ s = <<g, n>>
             /\ db[res][<<g, Null>>] # Null /\ MayWrite(smack, label, db[res][<<g, Null>>].label)
             /\ db[res][<<g, n>>] # Null => MayWrite(smack, label, db[res][<<g, n>>].label)
             /\ db[res][<<g, n>>] # Null =>
                  db'[res][<<g, n>>].label = db[res][<<g, n>>].label
  <2> DEFINE kept == LabelForSet(db, smack, uid, key, label)
  <2>1. CanSetValue(db, smack, uid, key, v, label)
    BY <1>2 DEF SetValueRequest, Serve
  <2>2. db' = BackendSet(db, uid, key, v, kept)
    BY <1>2, <2>1 DEF SetValueRequest, Serve, SetValue
  <2> HIDE DEF kept
  <2>3. r = res /\ s = <<g, n>>
    BY <1>1, <2>2, SetElsewhere
  <2>4. /\ db[res][<<g, Null>>] # Null
        /\ MayWrite(smack, label, db[res][<<g, Null>>].label)
    BY <1>1, <2>1, SetNeedsGroup, MediumAssumption
  <2>5. db'[res][<<g, n>>].label = kept
    BY <1>1, <2>2, SetHereFields
  <2>6. db[res][<<g, n>>] # Null =>
          MayWrite(smack, label, db[res][<<g, n>>].label) /\ kept = db[res][<<g, n>>].label
    BY <1>1, <2>1, SetMayReplace DEF kept
  <2> QED
    BY <2>3, <2>4, <2>5, <2>6
<1>3. ASSUME UnsetValueRequest(c, key)
      PROVE  /\ r = res /\ s = <<g, n>>
             /\ db[res][<<g, Null>>] # Null /\ MayWrite(smack, label, db[res][<<g, Null>>].label)
             /\ MayWrite(smack, label, db[res][<<g, n>>].label)
             /\ db'[res][<<g, n>>] = Null
  <2>1. CanUnsetValue(db, smack, uid, key, label) /\ db' = BackendUnset(db, uid, key)
    BY <1>3 DEF UnsetValueRequest, Serve, UnsetValue
  <2>2. key.layer = l /\ Doomed(key) = {<<g, n>>}
    BY NullAssumption DEF Doomed, Slot, Key
  <2>3. r = res /\ s = <<g, n>> /\ db'[r][s] = Null
    BY <2>1, <2>2, UnsetAt
  <2>4. /\ db[res][<<g, Null>>] # Null
        /\ MayWrite(smack, label, db[res][<<g, Null>>].label)
    BY <1>1, <2>1, UnsetNeedsGroup, MediumAssumption
  <2>5. MayWrite(smack, label, db[res][<<g, n>>].label)
    BY <1>1, <2>1, UnsetMayRemove
  <2> QED
    BY <2>3, <2>4, <2>5
<1> HIDE DEF key, res
<1> QED
  BY <1>2, <1>3 DEF key, res

(* direct.c: nobody sets or unsets a key without the right to write it and  *)
(* its group, and a value that is replaced keeps its label.                 *)
THEOREM WritersNeedRights == Spec => WritersAreAllowed
<1>1. ASSUME IInv, [Next]_vars, db' # db,
             NEW c \in Clients, NEW l \in Layers, NEW g \in Groups, NEW n \in Names,
             NEW t \in ValueTypes,
             \/ \E v \in Values : v.type = t /\ SetValueRequest(c, Key(l, g, n, t), v)
             \/ UnsetValueRequest(c, Key(l, g, n, t)),
             NEW rs \in Changed
      PROVE  LET r == Resource(l, ClientUid[c])
                 may(s) == MayWrite(smack, ClientLabel[c], LabelOf(<<r, s>>))
             IN /\ rs = <<r, <<g, n>>>>
                /\ Existed(<<r, <<g, Null>>>>) /\ may(<<g, Null>>)
                /\ Existed(rs) => may(<<g, n>>)
                /\ Existed(rs) /\ db'[r][rs[2]] # Null => db'[r][rs[2]].label = LabelOf(rs)
  <2>1. PICK r \in Resources, s \in Slots : rs = <<r, s>> /\ db'[r][s] # db[r][s]
    BY DEF Changed
  <2>2. /\ r = Resource(l, ClientUid[c]) /\ s = <<g, n>>
        /\ db[r][<<g, Null>>] # Null
        /\ MayWrite(smack, ClientLabel[c], db[r][<<g, Null>>].label)
        /\ db[r][s] # Null => MayWrite(smack, ClientLabel[c], db[r][s].label)
        /\ db[r][s] # Null /\ db'[r][s] # Null => db'[r][s].label = db[r][s].label
    BY <1>1, <2>1, WriterIsAllowed DEF IInv
  <2> QED
    BY <2>1, <2>2 DEF Existed, LabelOf
<1>2. IInv /\ [Next]_vars =>
        [db' # db =>
           \A c \in Clients, l \in Layers, g \in Groups, n \in Names, t \in ValueTypes :
             LET key == Key(l, g, n, t)
                 r == Resource(l, ClientUid[c])
                 may(s) == MayWrite(smack, ClientLabel[c], LabelOf(<<r, s>>))
             IN (\/ \E v \in Values : v.type = t /\ SetValueRequest(c, key, v)
                 \/ UnsetValueRequest(c, key)) =>
                \A rs \in Changed :
                  /\ rs = <<r, <<g, n>>>>
                  /\ Existed(<<r, <<g, Null>>>>) /\ may(<<g, Null>>)
                  /\ Existed(rs) => may(<<g, n>>)
                  /\ Existed(rs) /\ db'[r][rs[2]] # Null => db'[r][rs[2]].label = LabelOf(rs)]_vars
  BY <1>1
<1> QED
  BY <1>2, StoreInductive, PTL DEF Spec, WritersAreAllowed

(* The requests of administrators, one by one.                              *)
LEMMA RelabelIsAllowed ==
  ASSUME db \in DB, db' # db, NEW c \in Clients, NEW l \in Layers, NEW g \in Groups,
         NEW n \in Names \cup {Null}, NEW b \in Labels,
         SetLabelRequest(c, Key(l, g, n, "UNSET"), b),
         NEW r \in Resources, NEW s \in Slots
  PROVE  /\ ~IsUserLayer(l) /\ ClientUid[c] = 0
         /\ db'[r][s] # db[r][s] => r = Resource(l, ClientUid[c]) /\ s = <<g, n>>
<1> DEFINE key == Key(l, g, n, "UNSET")
<1>1. CanSetLabel(db, ClientUid[c], key) /\ db' = BackendSet(db, ClientUid[c], key, Null, b)
  BY DEF SetLabelRequest, Serve, SetLabel
<1>2. ~IsUserLayer(l) /\ ClientUid[c] = 0
  BY <1>1 DEF CanSetLabel, Key
<1> HIDE DEF key
<1> QED
  BY <1>1, <1>2, ClientType, SetElsewhere DEF key

LEMMA CreationIsAllowed ==
  ASSUME db \in DB, db' # db, NEW c \in Clients, NEW l \in Layers, NEW g \in Groups,
         CreateGroupRequest(c, Key(l, g, Null, "STRING")),
         NEW r \in Resources, NEW s \in Slots
  PROVE  /\ IsUserLayer(l) \/ ClientUid[c] = 0
         /\ db'[r][s] # db[r][s] =>
              r = Resource(l, ClientUid[c]) /\ s = <<g, Null>> /\ db[r][s] = Null
<1> DEFINE uid == ClientUid[c]
           key == Key(l, g, Null, "STRING")
           res == Resource(l, uid)
           own == IF ClientLabel[c] = Null THEN Floor ELSE ClientLabel[c]
<1>1. /\ CanCreateGroup(db, smack, uid, key)
      /\ db' = BackendSet(db, uid, key, GroupValue, own)
  BY DEF CreateGroupRequest, Serve, CreateGroup
<1>2. IsUserLayer(l) \/ uid = 0
  BY <1>1 DEF CanCreateGroup, RootIfSystem, Key
<1>3. ASSUME ~(r = res /\ s = <<g, Null>>)
      PROVE  db'[r][s] = db[r][s]
  <2>1. uid \in Uids /\ Null \in Names \cup {Null} /\ db \in DB
    BY ClientType
  <2> HIDE DEF own, uid
  <2>2. BackendSet(db, uid, Key(l, g, Null, "STRING"), GroupValue, own)[r][s] = db[r][s]
    BY <1>3, <2>1, SetElsewhere DEF res
  <2> QED
    BY <1>1, <2>2
<1>4. db[res][<<g, Null>>] = Null
  <2>1. GetValueForLayer(db, smack, uid, key, Null).ret = "ENOENT"
    BY <1>1 DEF CanCreateGroup
  <2>2. key.layer = l /\ key.name = Null /\ Slot(key) = <<g, Null>>
    BY DEF Key, Slot
  <2>3. BackendGet(db, uid, key).ret = "ENOENT"
    BY <2>1, <2>2 DEF GetValueForLayer, NoValue, MayRead
  <2> QED
    BY <2>2, <2>3 DEF BackendGet, NoValue
<1> QED
  BY <1>2, <1>3, <1>4

LEMMA RemovalIsAllowed ==
  ASSUME db \in DB, db' # db, NEW c \in Clients, NEW l \in Layers, NEW g \in Groups,
         RemoveGroupRequest(c, Key(l, g, Null, "STRING")),
         NEW r \in Resources, NEW s \in Slots
  PROVE  /\ IsUserLayer(l) \/ ClientUid[c] = 0
         /\ db'[r][s] # db[r][s] => r = Resource(l, ClientUid[c]) /\ s[1] = g
         /\ IsUserLayer(l) =>
              LET e == db[Resource(l, ClientUid[c])][<<g, Null>>]
              IN e # Null /\ MayWrite(smack, ClientLabel[c], e.label)
<1> DEFINE uid == ClientUid[c]
           key == Key(l, g, Null, "STRING")
           res == Resource(l, uid)
<1>1. /\ CanRemoveGroup(db, smack, uid, key, ClientLabel[c])
      /\ db' = BackendUnset(db, uid, key)
  BY DEF RemoveGroupRequest, Serve, RemoveGroup
<1>2. key.layer = l /\ key.group = g /\ Slot(key) = <<g, Null>>
  BY DEF Key, Slot
<1>3. IsUserLayer(l) \/ uid = 0
  BY <1>1, <1>2 DEF CanRemoveGroup, RootIfSystem
<1>4. db'[r][s] # db[r][s] => r = res /\ s \in Doomed(key)
  BY <1>1, <1>2, UnsetAt
<1>5. s \in Doomed(key) => s[1] = g
  BY <1>2 DEF Doomed
<1>6. /\ GetValueForLayer(db, smack, uid, key, Null).ret = "OK"
      /\ IsUserLayer(l) =>
           MayWrite(smack, ClientLabel[c], GetValueForLayer(db, smack, uid, key, Null).label)
  BY <1>1, <1>2 DEF CanRemoveGroup
<1>7. /\ db[res][<<g, Null>>] \in Entry
      /\ GetValueForLayer(db, smack, uid, key, Null).label = db[res][<<g, Null>>].label
  BY <1>6, ClientType, ReadFromLayer
<1> HIDE DEF key, res
<1> QED
  BY <1>3, <1>4, <1>5, <1>6, <1>7, MediumAssumption DEF res

(* direct.c: groups and labels of System layers are for uid 0, and those of *)
(* a User layer for their owner, who needs the right to remove a group.     *)
THEOREM AdministratorsNeedRights == Spec => AdministratorsAreAllowed
<1>1. ASSUME IInv, [Next]_vars, db' # db, NEW c \in Clients, NEW l \in Layers, NEW g \in Groups
      PROVE  LET r == Resource(l, ClientUid[c])
                 group == <<g, Null>>
                 remove == RemoveGroupRequest(c, Key(l, g, Null, "STRING"))
                 create == CreateGroupRequest(c, Key(l, g, Null, "STRING"))
                 label == \E n \in Names \cup {Null}, b \in Labels :
                            SetLabelRequest(c, Key(l, g, n, "UNSET"), b)
             IN remove \/ create \/ label =>
                \A rs \in Changed :
                  /\ rs[1] = r /\ rs[2][1] = g
                  /\ IF IsUserLayer(l) THEN ~label ELSE ClientUid[c] = 0
                  /\ create => rs[2] = group /\ ~Existed(rs)
                  /\ remove /\ IsUserLayer(l) =>
                       Existed(<<r, group>>) /\ MayWrite(smack, ClientLabel[c], LabelOf(<<r, group>>))
  <2> DEFINE res == Resource(l, ClientUid[c])
             remove == RemoveGroupRequest(c, Key(l, g, Null, "STRING"))
             create == CreateGroupRequest(c, Key(l, g, Null, "STRING"))
             label == \E n \in Names \cup {Null}, b \in Labels :
                        SetLabelRequest(c, Key(l, g, n, "UNSET"), b)
  <2>1. ASSUME remove \/ create \/ label, NEW rs \in Changed
        PROVE  /\ rs[1] = res /\ rs[2][1] = g
               /\ IF IsUserLayer(l) THEN ~label ELSE ClientUid[c] = 0
               /\ create => rs[2] = <<g, Null>> /\ db[rs[1]][rs[2]] = Null
               /\ remove /\ IsUserLayer(l) =>
                    /\ db[res][<<g, Null>>] # Null
                    /\ MayWrite(smack, ClientLabel[c], db[res][<<g, Null>>].label)
    <3>1. PICK r \in Resources, s \in Slots :
            rs = <<r, s>> /\ rs[1] = r /\ rs[2] = s /\ db'[r][s] # db[r][s]
      BY DEF Changed
    <3>2. db \in DB
      BY <1>1 DEF IInv
    <3>3. ASSUME label
          PROVE  ~IsUserLayer(l) /\ ClientUid[c] = 0 /\ r = res /\ s[1] = g
      BY <1>1, <3>1, <3>2, <3>3, RelabelIsAllowed
    <3>4. ASSUME create
          PROVE  /\ IsUserLayer(l) \/ ClientUid[c] = 0
                 /\ r = res /\ s = <<g, Null>> /\ s[1] = g /\ db[r][s] = Null
      BY <1>1, <3>1, <3>2, <3>4, CreationIsAllowed
    <3>5. ASSUME remove
          PROVE  /\ IsUserLayer(l) \/ ClientUid[c] = 0
                 /\ r = res /\ s[1] = g
                 /\ IsUserLayer(l) =>
                      /\ db[res][<<g, Null>>] # Null
                      /\ MayWrite(smack, ClientLabel[c], db[res][<<g, Null>>].label)
      BY <1>1, <3>1, <3>2, <3>5, RemovalIsAllowed
    <3> HIDE DEF remove, create, label, res
    <3> QED
      BY <2>1, <3>1, <3>3, <3>4, <3>5
  <2> HIDE DEF remove, create, label, res
  <2> QED
    BY <2>1 DEF Existed, LabelOf, remove, create, label, res
<1>2. IInv /\ [Next]_vars =>
        [db' # db =>
           \A c \in Clients, l \in Layers, g \in Groups :
             LET r == Resource(l, ClientUid[c])
                 group == <<g, Null>>
                 remove == RemoveGroupRequest(c, Key(l, g, Null, "STRING"))
                 create == CreateGroupRequest(c, Key(l, g, Null, "STRING"))
                 label == \E n \in Names \cup {Null}, b \in Labels :
                            SetLabelRequest(c, Key(l, g, n, "UNSET"), b)
             IN remove \/ create \/ label =>
                \A rs \in Changed :
                  /\ rs[1] = r /\ rs[2][1] = g
                  /\ IF IsUserLayer(l) THEN ~label ELSE ClientUid[c] = 0
                  /\ create => rs[2] = group /\ ~Existed(rs)
                  /\ remove /\ IsUserLayer(l) =>
                       Existed(<<r, group>>) /\ MayWrite(smack, ClientLabel[c], LabelOf(<<r, group>>))]_vars
  BY <1>1
<1> QED
  BY <1>2, StoreInductive, PTL DEF Spec, AdministratorsAreAllowed

-----------------------------------------------------------------------------
(* Reading what was written.                                                *)

LEMMA WriteImpliesRead ==
  ASSUME NEW rules, NEW label, NEW object, MayWrite(rules, label, object)
  PROVE  MayRead(rules, label, object)
BY DEF MayWrite, MayRead, CheckSmackAccess, READ, WRITE

(* A client that may write anything may read what has its own label.        *)
LEMMA OwnLabelIsRead ==
  ASSUME NEW rules, NEW label, NEW object, MayWrite(rules, label, object)
  PROVE  MayRead(rules, label, IF label = Null THEN Floor ELSE label)
BY DEF MayWrite, MayRead, CheckSmackAccess, READ, WRITE

LEMMA SetIsRead ==
  ASSUME db \in DB, db' # db, NEW c \in Clients, NEW l \in Layers, NEW g \in Groups,
         NEW n \in Names, NEW v \in Values, SetValueRequest(c, Key(l, g, n, v.type), v)
  PROVE  LET answer == GetValue(db', smack', ClientUid[c], Key(l, g, n, v.type), ClientLabel[c])
         IN answer.ret = "OK" /\ answer.data = v
<1> DEFINE uid == ClientUid[c]
           label == ClientLabel[c]
           key == Key(l, g, n, v.type)
           group == Key(l, g, Null, "STRING")
           res == Resource(l, uid)
           kept == LabelForSet(db, smack, uid, key, label)
           new == db'[res][<<g, n>>]
           old == db[res][<<g, Null>>]
<1>1. /\ CanSetValue(db, smack, uid, key, v, label)
      /\ db' = BackendSet(db, uid, key, v, kept) /\ smack' = smack
  BY DEF SetValueRequest, Serve, SetValue
<1>2. uid \in Uids /\ v \in Data /\ v # Null /\ n # Null
  BY ClientType, MediumAssumption, NullAssumption DEF Data
<1>3. /\ key.layer = l /\ key.name = n /\ key.type = v.type /\ Slot(key) = <<g, n>>
      /\ group.layer = l /\ group.name = Null /\ group.type = "STRING" /\ Slot(group) = <<g, Null>>
      /\ GroupKey(key) = group /\ l # Null
  BY GroupKeyOf, NullAssumption DEF Key, Slot
<1>4. /\ old # Null /\ MayWrite(smack, label, old.label)
      /\ GetValueForLayer(db, smack, uid, group, Null).ret = "OK"
  BY <1>1, <1>2, <1>3, SetNeedsGroup, MediumAssumption DEF CanSetValue
<1>5. /\ Medium[res] # "none"
      /\ "STRING" \in {old.data.type, "UNSET"}
  <2>1. BackendGet(db, uid, group).ret = "OK"
    BY <1>3, <1>4 DEF GetValueForLayer, NoValue, MayRead
  <2> QED
    BY <1>3, <2>1 DEF BackendGet, NoValue
<1>6. db'[res][<<g, Null>>] = old
  <2>1. res \in Resources /\ <<g, Null>> \in Slots /\ <<g, Null>> # <<g, n>>
    BY <1>2, ResourceType DEF Slots
  <2> HIDE DEF kept
  <2> QED
    BY <1>1, <1>2, <2>1, SetElsewhere
<1>7. new # Null /\ new.data = v /\ new.label = kept
  <2>1. BackendCanSet(db, uid, key, v) /\ kept \in Labels
    BY <1>1, <1>2, ClientType, LabelForSetType DEF CanSetValue
  <2> HIDE DEF kept
  <2> QED
    BY <1>1, <1>2, <2>1, SetEntry, SetHereFields
<1>8. MayRead(smack, label, old.label) /\ MayRead(smack, label, kept)
  <2>1. MayRead(smack, label, old.label)
    BY <1>4, WriteImpliesRead
  <2>2. CASE db[res][<<g, n>>] # Null
    BY <1>1, <1>2, <2>1, <2>2, SetMayReplace, WriteImpliesRead
  <2>3. CASE db[res][<<g, n>>] = Null
    <3>1. GetValueForLayer(db, smack, uid, Key(l, g, n, "UNSET"), Null).ret # "OK"
      BY <1>2, <2>3, ReadFromLayer, MediumAssumption
    <3>2. [key EXCEPT !.type = "UNSET"] = Key(l, g, n, "UNSET")
      BY DEF Key
    <3>3. kept = IF label = Null THEN Floor ELSE label
      BY <3>1, <3>2 DEF LabelForSet
    <3> QED
      BY <1>4, <2>1, <3>3, OwnLabelIsRead
  <2> QED
    BY <2>1, <2>2, <2>3
<1>9. /\ BackendGet(db', uid, group) = [ret |-> "OK", data |-> old.data, label |-> old.label]
      /\ BackendGet(db', uid, key) = [ret |-> "OK", data |-> v, label |-> kept]
  <2> HIDE DEF kept, old, new, key, group
  <2>1. db'[Resource(key.layer, uid)][Slot(key)] = new /\ db'[Resource(group.layer, uid)][Slot(group)] = old
    BY <1>3, <1>6 DEF new
  <2>2. BackendGet(db', uid, group) = [ret |-> "OK", data |-> old.data, label |-> old.label]
    BY <1>3, <1>4, <1>5, <2>1 DEF BackendGet
  <2>3. BackendGet(db', uid, key) = [ret |-> "OK", data |-> v, label |-> kept]
    BY <1>3, <1>5, <1>7, <2>1 DEF BackendGet
  <2> QED
    BY <2>2, <2>3
<1> HIDE DEF kept, old, new, key, group
<1>10. GetValueForLayer(db', smack', uid, key, label) = BackendGet(db', uid, key)
  BY <1>1, <1>3, <1>8, <1>9 DEF GetValueForLayer
<1>11. GetValue(db', smack', uid, key, label) = BackendGet(db', uid, key)
  BY <1>3, <1>10 DEF GetValue
<1> QED
  BY <1>9, <1>11 DEF key

(* direct.c: what a set stored is what its client then reads, whatever      *)
(* labels the group, the key and the client have.                           *)
THEOREM WritesAreRead == Spec => ReadYourWrite
<1>1. ASSUME IInv, [Next]_vars, db' # db, NEW c \in Clients, NEW l \in Layers,
             NEW g \in Groups, NEW n \in Names, NEW v \in Values,
             SetValueRequest(c, Key(l, g, n, v.type), v)
      PROVE  LET answer == GetValue(db', smack', ClientUid[c], Key(l, g, n, v.type), ClientLabel[c])
             IN answer.ret = "OK" /\ answer.data = v
  BY <1>1, SetIsRead DEF IInv
<1>2. IInv /\ [Next]_vars =>
        [db' # db =>
           \A c \in Clients, l \in Layers, g \in Groups, n \in Names, v \in Values :
             LET key == Key(l, g, n, v.type)
             IN SetValueRequest(c, key, v)
                /\ CanSetValue(db, smack, ClientUid[c], key, v, ClientLabel[c]) =>
                  LET answer == GetValue(db', smack', ClientUid[c], key, ClientLabel[c])
                  IN answer.ret = "OK" /\ answer.data = v]_vars
  BY <1>1
<1> QED
  BY <1>2, StoreInductive, PTL DEF Spec, ReadYourWrite

-----------------------------------------------------------------------------
(* Reading across layers.                                                   *)

LEMMA ReadableIs ==
  ASSUME NEW c \in Clients, NEW k \in LayerlessKeys
  PROVE  /\ k.layer = Null
         /\ Readable(c, k) = {l \in Layers :
              GetValueForLayer(db, smack, ClientUid[c], KeyIn(l, k), ClientLabel[c]).ret = "OK"}
         /\ \A l \in Layers :
              ClientGet(c, KeyIn(l, k))
                = GetValueForLayer(db, smack, ClientUid[c], KeyIn(l, k), ClientLabel[c])
<1>1. k.layer = Null /\ DOMAIN k = {"layer", "group", "name", "type"}
  BY DEF LayerlessKeys, Key
<1>2. ASSUME NEW l \in Layers
      PROVE  ClientGet(c, KeyIn(l, k))
               = GetValueForLayer(db, smack, ClientUid[c], KeyIn(l, k), ClientLabel[c])
  <2>1. KeyIn(l, k).layer = l /\ l # Null
    BY <1>1, NullAssumption DEF KeyIn
  <2> QED
    BY <2>1 DEF ClientGet, GetValue
<1> QED
  BY <1>1, <1>2 DEF Readable

(* A layer's index in the order is its position.                            *)
LEMMA PositionOf ==
  ASSUME NEW i \in 1 .. Len(LayerOrder)
  PROVE  Position(LayerOrder[i]) = i
<1>1. i \in DOMAIN LayerOrder
  BY LayerAt
<1> QED
  BY <1>1, LayerAssumption DEF Position

LEMMA ReadsBest == LayerlessReadsBest
<1> SUFFICES ASSUME NEW c \in Clients, NEW k \in LayerlessKeys
             PROVE  IF Readable(c, k) = {} THEN ClientGet(c, k).ret = "ENOENT"
                    ELSE \E best \in Readable(c, k) :
                           /\ \A l \in Readable(c, k) : Outranks(best, l)
                           /\ ClientGet(c, k) = ClientGet(c, KeyIn(best, k))
  BY DEF LayerlessReadsBest
<1> DEFINE R == Readable(c, k)
           chosen == ChosenOf(R)
<1>1. /\ R \subseteq Layers
      /\ ClientGet(c, k) =
           IF chosen = Null THEN NoValue("ENOENT")
           ELSE GetValueForLayer(db, smack, ClientUid[c], KeyIn(chosen, k), ClientLabel[c])
  BY ReadableIs DEF ClientGet, GetValue, ChosenLayer
<1>2. CASE R = {}
  BY <1>1, <1>2, ChosenIsBest DEF NoValue
<1>3. CASE R # {}
  <2> HIDE DEF R
  <2> PICK i \in 1 .. Len(LayerOrder) :
         /\ LayerOrder[i] \in R /\ chosen = LayerOrder[i]
         /\ \A j \in 1 .. Len(LayerOrder) : LayerOrder[j] \in R => Beats(i, j)
    BY <1>1, <1>3, ChosenIsBest
  <2> DEFINE best == LayerOrder[i]
  <2>1. best \in R /\ best \in Layers /\ best # Null
    BY LayerAt
  <2>2. ASSUME NEW l \in R
        PROVE  Outranks(best, l)
    <3> PICK j \in 1 .. Len(LayerOrder) : LayerOrder[j] = l
      BY <1>1, LayerAt
    <3>1. Beats(i, j) /\ Position(best) = i /\ Position(l) = j
      BY PositionOf
    <3> QED
      BY <3>1 DEF Beats, Outranks
  <2>3. ClientGet(c, k) = ClientGet(c, KeyIn(best, k))
    BY <1>1, <2>1, ReadableIs DEF R
  <2> QED
    BY <2>1, <2>2, <2>3 DEF R
<1> QED
  BY <1>2, <1>3

(* A read that names no layer answers from the one layer that outranks all  *)
(* others in which the client can read the key, whatever the order, types   *)
(* and priorities of the layers and whatever is stored in them.             *)
THEOREM LayerlessReadsAreBest == Spec => []LayerlessReadsBest
BY ReadsBest, PTL
=============================================================================
