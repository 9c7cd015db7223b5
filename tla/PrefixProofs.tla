---------------------------- MODULE PrefixProofs ----------------------------
(***************************************************************************)
(* Proofs about Headers and Prefix.                                        *)
(*                                                                         *)
(*   1. Tables: an edit finds room for its copy, and changes the table of  *)
(*      one handle only, whoever shares it; hence every holder might as    *)
(*      well have a table of its own;                                      *)
(*   2. the prefix on its way, one lemma per action;                       *)
(*   3. the theorems.                                                      *)
(***************************************************************************)
EXTENDS Prefix, FiniteSetTheorems, TLAPS

-----------------------------------------------------------------------------
(* Tables.                                                                 *)

LEMMA EditedTables ==
    ASSUME NEW t \in Tables, NEW k \in Keys
    PROVE  (\A v \in Vals : Insert(t, k, v) \in Tables) /\ Delete(t, k) \in Tables
<1>1. PICK K \in SUBSET Keys : t \in [K -> Vals]
    BY DEF Tables
<1>2. \A v \in Vals : Insert(t, k, v) \in [K \cup {k} -> Vals]
    BY <1>1 DEF Insert
<1>3. Delete(t, k) \in [K \ {k} -> Vals]
    BY <1>1 DEF Delete
<1>4. QED
    BY <1>2, <1>3 DEF Tables

LEMMA EmptyIsTable == EmptyTable \in Tables
<1>1. EmptyTable \in [{} -> Vals]
    BY DEF EmptyTable
<1>2. QED
    BY <1>1 DEF Tables

\* Were every allocation owned by another handle than h, there would be more
\* handles than allocations.
LEMMA Room ==
    ASSUME HeadersTypeOK, NEW h \in Handles, \A s \in Storages : Owners(s) # {h}
    PROVE  Unused # {}
<1>1. SUFFICES ASSUME Unused = {} PROVE FALSE
    OBVIOUS
<1>2. \A s \in Storages : \E g \in Handles \ {h} : at[g] = s
    BY <1>1 DEF Unused, Owners
<1>. DEFINE owner == [s \in Storages |-> CHOOSE g \in Handles \ {h} : at[g] = s]
<1>3. \A s \in Storages : owner[s] \in Handles \ {h} /\ at[owner[s]] = s
    BY <1>2
<1>4. owner \in Injection(Storages, Handles \ {h})
    <2>1. owner \in [Storages -> Handles \ {h}]
        BY <1>3
    <2>2. ASSUME NEW r \in Storages, NEW s \in Storages, owner[r] = owner[s] PROVE r = s
        BY <1>3, <2>2
    <2>3. DOMAIN owner = Storages
        OBVIOUS
    <2>. HIDE DEF owner
    <2>4. QED
        BY <2>1, <2>2, <2>3 DEF Injection, IsInjective
<1>5. IsFiniteSet(Handles \ {h}) /\ Cardinality(Handles \ {h}) = Cardinality(Handles) - 1
    BY FS_RemoveElement, HeadersAssumption
<1>. HIDE DEF owner
<1>6. Cardinality(Storages) <= Cardinality(Handles) - 1
    BY <1>4, <1>5, FS_Injection
<1>7. Cardinality(Handles) \in Nat /\ Cardinality(Storages) \in Nat
    BY HeadersAssumption, FS_CardinalityType
<1>8. QED
    BY <1>6, <1>7, HeadersAssumption

\* One handle's table has changed, and nothing else can be seen to.
Only(h, t) ==
    /\ HeadersTypeOK'
    /\ \A g \in Handles : TableOf(g)' = IF g = h THEN t ELSE TableOf(g)

LEMMA TableOfType ==
    ASSUME HeadersTypeOK, NEW h \in Handles
    PROVE  /\ Holds(h) => Table(h) \in Tables /\ TableOf(h) = Table(h)
           /\ TableOf(h) \in Tables \cup {NoTable}
           /\ Holds(h) <=> TableOf(h) # NoTable
<1>1. at[h] \in Storages \cup {NoTable} /\ NoTable \notin Storages /\ NoTable \notin Tables
    BY HeadersAssumption DEF HeadersTypeOK
<1>2. Holds(h) => Table(h) \in Tables
    BY <1>1 DEF HeadersTypeOK, Holds, Table
<1>3. QED
    BY <1>1, <1>2 DEF TableOf, Holds

\* A table is put where no handle points.
LEMMA PutOnly ==
    ASSUME HeadersTypeOK, NEW h \in Handles, NEW t \in Tables, Unused # {},
           at' = [at EXCEPT ![h] = CHOOSE u \in Unused : TRUE],
           heap' = [heap EXCEPT ![CHOOSE u \in Unused : TRUE] = t]
    PROVE  Only(h, t)
<1>. DEFINE s == CHOOSE u \in Unused : TRUE
<1>1. s \in Unused
    OBVIOUS
<1>. HIDE DEF s
<1>2. s \in Storages /\ \A g \in Handles : at[g] # s
    BY <1>1 DEF Unused, Owners
<1>3. at' = [at EXCEPT ![h] = s] /\ heap' = [heap EXCEPT ![s] = t]
    BY DEF s
<1>4. HeadersTypeOK'
    <2>1. at' \in [Handles -> Storages \cup {NoTable}]
        BY <1>2, <1>3 DEF HeadersTypeOK
    <2>2. heap' \in [Storages -> Tables]
        BY <1>2, <1>3 DEF HeadersTypeOK
    <2>3. QED
        BY <2>1, <2>2 DEF HeadersTypeOK
<1>5. TableOf(h)' = t
    <2>1. at'[h] = s /\ heap'[s] = t /\ s # NoTable
        BY <1>2, <1>3, HeadersAssumption DEF HeadersTypeOK
    <2>2. QED
        BY <2>1 DEF TableOf, Table, Holds
<1>6. ASSUME NEW g \in Handles, g # h PROVE TableOf(g)' = TableOf(g)
    <2>1. at'[g] = at[g]
        BY <1>3, <1>6 DEF HeadersTypeOK
    <2>2. at[g] # NoTable => at[g] \in Storages /\ at[g] # s
        BY <1>2 DEF HeadersTypeOK
    <2>3. at[g] # NoTable => heap'[at[g]] = heap[at[g]]
        BY <2>2, <1>3 DEF HeadersTypeOK
    <2>4. QED
        BY <2>1, <2>3 DEF TableOf, Table, Holds
<1>7. QED
    BY <1>4, <1>5, <1>6 DEF Only

LEMMA AllocateOnly ==
    ASSUME HeadersTypeOK, NEW h \in Handles, NEW t \in Tables, Allocate(h, t)
    PROVE  Only(h, t) /\ TableOf(h) = NoTable /\ reply' = reply
<1>1. \A s \in Storages : Owners(s) # {h}
    BY HeadersAssumption DEF Allocate, Holds, Owners
<1>2. Unused # {}
    BY <1>1, Room
<1>3. QED
    BY <1>2, PutOnly DEF Allocate, TableOf

LEMMA CloneOnly ==
    ASSUME HeadersTypeOK, NEW g \in Handles, NEW h \in Handles, CloneHandle(g, h)
    PROVE  /\ Only(h, Table(g)) /\ TableOf(h) = NoTable /\ reply' = reply
           /\ Table(g) \in Tables /\ TableOf(g) = Table(g)
<1>1. Table(g) \in Tables /\ TableOf(g) = Table(g) /\ TableOf(h) = NoTable
    BY TableOfType DEF CloneHandle
<1>2. at' = [at EXCEPT ![h] = at[g]] /\ heap' = heap /\ at[g] # NoTable /\ reply' = reply
    BY DEF CloneHandle, Holds
<1>3. HeadersTypeOK'
    BY <1>2 DEF HeadersTypeOK
<1>4. TableOf(h)' = Table(g)
    <2>1. at'[h] = at[g]
        BY <1>2 DEF HeadersTypeOK
    <2>2. QED
        BY <1>2, <2>1 DEF TableOf, Table, Holds
<1>5. ASSUME NEW f \in Handles, f # h PROVE TableOf(f)' = TableOf(f)
    <2>1. at'[f] = at[f]
        BY <1>2, <1>5 DEF HeadersTypeOK
    <2>2. QED
        BY <1>2, <2>1 DEF TableOf, Table, Holds
<1>6. QED
    BY <1>1, <1>2, <1>3, <1>4, <1>5 DEF Only

\* The handle goes; its table goes with it or stays with its other owners.
LEMMA GoneOnly ==
    ASSUME HeadersTypeOK, NEW h \in Handles, at' = [at EXCEPT ![h] = NoTable], heap' = heap
    PROVE  Only(h, NoTable)
<1>1. HeadersTypeOK'
    BY DEF HeadersTypeOK
<1>2. TableOf(h)' = NoTable
    <2>1. at'[h] = NoTable
        BY DEF HeadersTypeOK
    <2>2. QED
        BY <2>1 DEF TableOf, Holds
<1>3. ASSUME NEW f \in Handles, f # h PROVE TableOf(f)' = TableOf(f)
    <2>1. at'[f] = at[f]
        BY <1>3 DEF HeadersTypeOK
    <2>2. QED
        BY <2>1 DEF TableOf, Table, Holds
<1>4. QED
    BY <1>1, <1>2, <1>3 DEF Only

\* Copy on write: in place for the one owner, in a copy for one of several.
LEMMA EditOnly ==
    ASSUME HeadersTypeOK, NEW h \in Handles, Holds(h), NEW t \in Tables, Edit(h, t)
    PROVE  Only(h, t)
<1>1. at[h] \in Storages /\ h \in Owners(at[h])
    BY DEF HeadersTypeOK, Holds, Owners
<1>2. CASE Owners(at[h]) = {h}
    <2>1. at' = at /\ heap' = [heap EXCEPT ![at[h]] = t]
        BY <1>2 DEF Edit
    <2>2. HeadersTypeOK'
        BY <1>1, <2>1 DEF HeadersTypeOK
    <2>3. TableOf(h)' = t
        <3>1. heap'[at[h]] = t
            BY <1>1, <2>1 DEF HeadersTypeOK
        <3>2. QED
            BY <2>1, <3>1 DEF TableOf, Table, Holds
    <2>4. ASSUME NEW g \in Handles, g # h PROVE TableOf(g)' = TableOf(g)
        <3>1. at[g] # at[h]
            BY <1>2, <2>4 DEF Owners
        <3>2. at[g] # NoTable => heap'[at[g]] = heap[at[g]]
            BY <2>1, <3>1 DEF HeadersTypeOK
        <3>3. QED
            BY <2>1, <3>2 DEF TableOf, Table, Holds
    <2>5. QED
        BY <2>2, <2>3, <2>4 DEF Only
<1>3. CASE Owners(at[h]) # {h}
    <2>1. \A s \in Storages : Owners(s) # {h}
        BY <1>3 DEF Owners
    <2>2. Unused # {}
        BY <2>1, Room
    <2>3. QED
        BY <1>3, <2>2, PutOnly DEF Edit
<1>4. QED
    BY <1>2, <1>3

LEMMA SetOnly ==
    ASSUME HeadersTypeOK, NEW h \in Handles, NEW k \in Keys, NEW v \in Vals, SetHeader(h, k, v)
    PROVE  /\ TableOf(h) # NoTable /\ reply' = reply
           /\ Only(h, Insert(TableOf(h), k, v)) /\ Insert(TableOf(h), k, v) \in Tables
<1>1. Holds(h) /\ TableOf(h) = Table(h) /\ TableOf(h) \in Tables /\ TableOf(h) # NoTable
    BY TableOfType DEF SetHeader
<1>2. Insert(TableOf(h), k, v) \in Tables
    BY <1>1, EditedTables
<1>3. QED
    BY <1>1, <1>2, EditOnly DEF SetHeader

LEMMA RemoveOnly ==
    ASSUME HeadersTypeOK, NEW h \in Handles, NEW k \in Keys, RemoveKey(h, k)
    PROVE  /\ TableOf(h) # NoTable /\ reply' = Lookup(TableOf(h), k)
           /\ Only(h, Delete(TableOf(h), k)) /\ Delete(TableOf(h), k) \in Tables
<1>1. Holds(h) /\ TableOf(h) = Table(h) /\ TableOf(h) \in Tables /\ TableOf(h) # NoTable
    BY TableOfType DEF RemoveKey
<1>2. Delete(TableOf(h), k) \in Tables
    BY <1>1, EditedTables
<1>3. QED
    BY <1>1, <1>2, EditOnly DEF RemoveKey

Spends(h, k) == TryAddHeader(h, k) \/ AddOrSetHeader(h, k) \/ RemoveHeader(h, k)

LEMMA SpendOnly ==
    ASSUME HeadersTypeOK, NEW h \in Handles, NEW k \in Keys, Spends(h, k)
    PROVE  /\ TableOf(h) # NoTable /\ Only(h, NoTable)
           /\ reply' \in { Lookup(TableOf(h), k), IF k \in DOMAIN TableOf(h) THEN Refused ELSE Added }
<1>1. Holds(h) /\ at' = [at EXCEPT ![h] = NoTable] /\ heap' = heap
    BY DEF Spends, TryAddHeader, AddOrSetHeader, RemoveHeader, Consume
<1>2. TableOf(h) = Table(h) /\ TableOf(h) # NoTable
    BY <1>1, TableOfType
<1>3. QED
    BY <1>1, <1>2, GoneOnly DEF Spends, TryAddHeader, AddOrSetHeader, RemoveHeader, Consume

LEMMA DropOnly ==
    ASSUME HeadersTypeOK, NEW h \in Handles, DropHandle(h)
    PROVE  TableOf(h) # NoTable /\ Only(h, NoTable) /\ reply' = reply
BY GoneOnly, TableOfType DEF DropHandle

-----------------------------------------------------------------------------
(* Every holder might as well have a table of its own.                     *)

TablesHeld == [h \in Handles |-> TableOf(h)]

LEMMA OnlyOneMoves ==
    ASSUME NEW h \in Handles, NEW t, Only(h, t)
    PROVE  TablesHeld' = [TablesHeld EXCEPT ![h] = t] /\ TablesHeld'[h] = t /\ TablesHeld[h] = TableOf(h)
<1>1. TablesHeld' = [g \in Handles |-> TableOf(g)']
    BY DEF TablesHeld
<1>2. \A g \in Handles : TableOf(g)' = IF g = h THEN t ELSE TableOf(g)
    BY DEF Only
<1>3. QED
    BY <1>1, <1>2 DEF TablesHeld

LEMMA ObtainStep ==
    ASSUME NEW h \in Handles, NEW t \in Tables, Only(h, t), TableOf(h) = NoTable, reply' = reply
    PROVE  Values!Next
<1>1. Values!Obtain(h)
    BY OnlyOneMoves DEF Values!Obtain, Values!Holds, Values!Tables, Tables, TablesHeld
<1>2. QED
    BY <1>1 DEF Values!Next

LEMMA EditStep ==
    ASSUME HeadersTypeOK, NEW h \in Handles, NEW k \in Keys,
           (\E v \in Vals : SetHeader(h, k, v)) \/ RemoveKey(h, k) \/ Spends(h, k)
    PROVE  Values!Next
<1>1. CASE \E v \in Vals : SetHeader(h, k, v)
    <2>1. PICK v \in Vals : SetHeader(h, k, v)
        BY <1>1
    <2>2. Values!Put(h, k, v)
        BY <2>1, SetOnly, OnlyOneMoves DEF Values!Put, Values!Holds, Values!Insert, Insert, TablesHeld
    <2>3. QED
        BY <2>2 DEF Values!Next
<1>2. CASE RemoveKey(h, k)
    <2>. DEFINE t == TableOf(h)
    <2>0. t # NoTable /\ reply' = Lookup(t, k) /\ TablesHeld' = [TablesHeld EXCEPT ![h] = Delete(t, k)]
        BY <1>2, RemoveOnly, OnlyOneMoves
    <2>. HIDE DEF t
    <2>1. Values!Take(h, k)
        <3>1. TablesHeld[h] = t
            BY DEF TablesHeld, t
        <3>2. TablesHeld' = [TablesHeld EXCEPT ![h] = Delete(TablesHeld[h], k)]
            BY <2>0, <3>1
        <3>3. reply' = Lookup(TablesHeld[h], k)
            BY <2>0, <3>1
        <3>4. Delete(TablesHeld[h], k) = Values!Delete(TablesHeld[h], k)
            BY DEF Delete, Values!Delete
        <3>5. Lookup(TablesHeld[h], k) = Values!Old(TablesHeld[h], k)
            BY DEF Values!Old, Lookup, Values!NoVal, NoVal
        <3>6. QED
            BY <2>0, <3>1, <3>2, <3>3, <3>4, <3>5 DEF Values!Take, Values!Holds, TablesHeld
    <2>2. QED
        BY <2>1 DEF Values!Next
<1>3. CASE Spends(h, k)
    <2>1. Values!Spend(h, k)
        BY <1>3, SpendOnly, OnlyOneMoves
           DEF Values!Spend, Values!Holds, Values!Old, Lookup, Values!NoVal, NoVal, Values!Refused,
               Refused, Values!Added, Added, TablesHeld
    <2>2. QED
        BY <2>1 DEF Values!Next
<1>4. QED
    BY <1>1, <1>2, <1>3

LEMMA DropStep ==
    ASSUME HeadersTypeOK, NEW h \in Handles, DropHandle(h)
    PROVE  Values!Next
<1>1. Values!Release(h)
    BY DropOnly, OnlyOneMoves DEF Values!Release, Values!Holds, TablesHeld
<1>2. QED
    BY <1>1 DEF Values!Next

-----------------------------------------------------------------------------
(* The prefix on its way.                                                  *)

\* All of the invariant but what it is for.
OnItsWay ==
    PrefixTypeOK /\ HeadSent /\ MapSent /\ HeadRead /\ EntriesRead /\ ForeignRead /\ TablesKept

LEMMA KeysFinite ==
    ASSUME PrefixTypeOK
    PROVE  /\ IsFiniteSet(KeysOf(wrote)) /\ Cardinality(KeysOf(wrote)) \in Nat
           /\ KeysOf(wrote) \subseteq Keys
           /\ Sent \in 0 .. Cardinality(KeysOf(wrote))
           /\ Sent = Cardinality(KeysOf(wrote)) => wkeys = {}
           /\ HeadLen \in {1, 2}
<1>1. KeysOf(wrote) \subseteq Keys
    BY DEF PrefixTypeOK, KeysOf, Tables
<1>2. IsFiniteSet(KeysOf(wrote)) /\ Cardinality(KeysOf(wrote)) \in Nat
    BY <1>1, HeadersAssumption, FS_Subset, FS_CardinalityType
<1>3. KeysOf(wrote) \ wkeys \in SUBSET KeysOf(wrote)
    OBVIOUS
<1>4. /\ IsFiniteSet(KeysOf(wrote) \ wkeys) /\ Cardinality(KeysOf(wrote) \ wkeys) <= Cardinality(KeysOf(wrote))
      /\ Cardinality(KeysOf(wrote)) = Cardinality(KeysOf(wrote) \ wkeys) => KeysOf(wrote) = KeysOf(wrote) \ wkeys
    BY <1>2, <1>3, FS_Subset
<1>5. Sent \in Nat
    BY <1>4, FS_CardinalityType DEF Sent
<1>6. Sent = Cardinality(KeysOf(wrote)) => wkeys = {}
    BY <1>4 DEF Sent, PrefixTypeOK
<1>7. HeadLen \in {1, 2}
    BY DEF HeadLen
<1>8. QED
    BY <1>1, <1>2, <1>4, <1>5, <1>6, <1>7 DEF Sent

\* Once the receiver has consumed as much as was written, nothing is to come.
LEMMA AllSent ==
    ASSUME PrefixTypeOK, MapSent, genuine, Len(wire) >= PrefixEnd
    PROVE  wkeys = {} /\ Sent = Cardinality(KeysOf(wrote)) /\ SentEnd = PrefixEnd /\ Len(wire) > HeadLen
<1>. DEFINE n == Cardinality(KeysOf(wrote))
<1>1. n \in Nat /\ Sent \in 0 .. n /\ HeadLen \in {1, 2} /\ Len(wire) \in Nat
    BY KeysFinite DEF PrefixTypeOK
<1>2. PrefixEnd = HeadLen + 1 + 2 * n /\ SentEnd = HeadLen + 1 + 2 * Sent
    BY DEF PrefixEnd, SentEnd
<1>3. Len(wire) > HeadLen
    BY <1>1, <1>2
<1>4. Len(wire) <= SentEnd + 1
    BY <1>1, <1>2, <1>3 DEF MapSent
<1>5. Sent = n
    BY <1>1, <1>2, <1>4
<1>6. QED
    BY <1>2, <1>3, <1>5, KeysFinite

LEMMA KindsOfValues ==
    /\ \A n : Uint(n).t = "uint" /\ Uint(n).n = n
    /\ \A s : Text(s).t = "text" /\ Text(s).s = s
    /\ \A n : MapOf(n).t = "map" /\ MapOf(n).n = n
    /\ Nil.t = "nil" /\ BodyValue.t = "body"
    /\ \A k : EncodeKey(k).t \in {"uint", "text"} /\ EncodeKey(k).s = k
    /\ \A v : EncodeVal(v).t \in {"uint", "text"} /\ EncodeVal(v).v = v
BY DEF Uint, Text, MapOf, Nil, BodyValue, EncodeKey, EncodeVal, Value

LEMMA NoBodyBefore ==
    ASSUME PrefixTypeOK, HeadSent, MapSent, genuine, Len(wire) >= SentEnd, NEW p \in 1 .. SentEnd
    PROVE  wire[p] # BodyValue
<1>1. Sent \in Nat /\ HeadLen \in {1, 2} /\ Len(wire) \in Nat /\ SentEnd = HeadLen + 1 + 2 * Sent
    BY KeysFinite DEF PrefixTypeOK, SentEnd
<1>2. CASE p = 1
    BY <1>1, <1>2, KindsOfValues DEF HeadSent
<1>3. CASE p = 2 /\ head.kind = "request"
    BY <1>1, <1>3, KindsOfValues DEF HeadSent
<1>4. CASE p = HeadLen + 1
    <2>1. wire[p] = OptionValue(wrote)
        BY <1>1, <1>4 DEF MapSent
    <2>2. QED
        BY <2>1, KindsOfValues DEF OptionValue
<1>5. CASE p > HeadLen + 1
    <2>. DEFINE q == (p - HeadLen) \div 2
    <2>1. q \in 1 .. Sent /\ (p = HeadLen + 2 * q \/ p = HeadLen + 2 * q + 1)
        BY <1>1, <1>5
    <2>. HIDE DEF q
    <2>2. KeyAt(q) = EncodeKey(KeyAt(q).s) /\ ValAt(q) = EncodeVal(wrote[KeyAt(q).s])
        BY <1>1, <2>1 DEF MapSent
    <2>3. QED
        BY <2>1, <2>2, KindsOfValues DEF KeyAt, ValAt
<1>6. QED
    BY <1>1, <1>2, <1>3, <1>4, <1>5 DEF HeadLen

\* What has been read is what was written, to the last value and no further.
LEMMA WholeArrives ==
    ASSUME OnItsWay
    PROVE  PrefixArrives
<1>1. SUFFICES ASSUME rstage = "done", genuine
      PROVE  /\ rhead = head /\ rmap = wrote /\ wkeys = {}
             /\ \A i \in 1 .. Len(wire) : wire[i] = BodyValue <=> i > rpos
    BY DEF PrefixArrives
<1>2. rhead = head /\ rmap = wrote /\ rpos = PrefixEnd /\ Len(wire) >= rpos
    BY <1>1 DEF OnItsWay, HeadRead, EntriesRead, PrefixTypeOK
<1>3. wkeys = {} /\ SentEnd = rpos /\ Len(wire) > HeadLen
    BY <1>1, <1>2, AllSent DEF OnItsWay
<1>4. \A i \in 1 .. rpos : wire[i] # BodyValue
    BY <1>1, <1>2, <1>3, NoBodyBefore DEF OnItsWay
<1>5. rpos \in Nat /\ Len(wire) \in Nat /\ Len(wire) \in rpos .. rpos + 1
    BY <1>1, <1>3 DEF OnItsWay, MapSent, PrefixTypeOK
<1>6. Len(wire) = rpos + 1 => wire[Len(wire)] = BodyValue
    BY <1>1, <1>3 DEF OnItsWay, MapSent
<1>7. QED
    BY <1>2, <1>3, <1>4, <1>5, <1>6

-----------------------------------------------------------------------------
(* What the sender does.                                                   *)

LEMMA AppendIs ==
    ASSUME NEW q \in Seq(WireValues), NEW v \in WireValues
    PROVE  /\ Append(q, v) \in Seq(WireValues) /\ Len(q) \in Nat /\ Len(Append(q, v)) = Len(q) + 1
           /\ \A i \in 1 .. Len(q) : Append(q, v)[i] = q[i]
           /\ Append(q, v)[Len(q) + 1] = v
OBVIOUS

LEMMA ValuesTyped ==
    /\ \A n \in Nat : Uint(n) \in WireValues /\ MapOf(n) \in WireValues
    /\ \A s \in Texts : Text(s) \in WireValues
    /\ Nil \in WireValues /\ BodyValue \in WireValues
    /\ \A k \in Keys : EncodeKey(k) \in WireValues
    /\ \A v \in Vals : EncodeVal(v) \in WireValues
<1>1. /\ NoText \in Texts /\ 0 \in Nat /\ NoVal \in Vals \cup {NoVal} /\ Keys \subseteq Texts
      /\ \A v \in Vals : v \in Vals \cup {NoVal}
    BY PrefixAssumption
<1>2. \A t \in {"uint", "text", "map", "nil", "wide", "body"}, n \in Nat, s \in Texts, v \in Vals \cup {NoVal} :
         Value(t, n, s, v) \in WireValues
    BY DEF WireValues, Value
<1>3. QED
    BY <1>1, <1>2 DEF Uint, MapOf, Text, Nil, BodyValue, EncodeKey, EncodeVal

LEMMA HandleNames ==
    /\ {"draft", "spare", "prefix", "handler", "job"} \subseteq Handles
    /\ NoTable \notin Tables /\ EmptyTable \in Tables
BY PrefixAssumption, HeadersAssumption, EmptyIsTable

LEMMA HeadTyped ==
    ASSUME head \in Heads
    PROVE  /\ head.code \in Nat /\ head.loc \in Texts /\ head.kind \in {"request", "response"}
           /\ head = [kind |-> head.kind, code |-> head.code, loc |-> head.loc]
           /\ head.kind = "request" => head.code \in MethodFromU8
           /\ head.kind = "response" => head.loc = NoText
<1>0. AccessMethods = MethodFromU8 /\ AccessMethods \subseteq Nat
    BY DEF AccessMethods, MethodFromU8
<1>1. /\ Codes \subseteq MethodFromU8 /\ MethodFromU8 \subseteq Nat
      /\ StatusCodes \subseteq Nat /\ Locations \subseteq Texts /\ NoText \in Texts
    BY <1>0, PrefixAssumption
<1>2. CASE head \in [kind : {"request"}, code : Codes, loc : Locations]
    BY <1>1, <1>2
<1>3. CASE head \in [kind : {"response"}, code : StatusCodes, loc : {NoText}]
    BY <1>1, <1>3
<1>4. QED
    BY <1>2, <1>3 DEF Heads

\* Handles that are left alone keep their tables.
LEMMA TablesStand ==
    ASSUME HeadersTypeOK, UNCHANGED headerVars
    PROVE  HeadersTypeOK' /\ \A g \in Handles : TableOf(g)' = TableOf(g)
BY DEF headerVars, HeadersTypeOK, TableOf, Table, Holds

LEMMA SenderTables ==
    ASSUME OnItsWay, UNCHANGED <<headerVars, readerVars>>,
           Writing' => TableOf("draft") = wrote'
    PROVE  TablesKept' /\ HeadersTypeOK'
<1>1. HeadersTypeOK' /\ \A g \in Handles : TableOf(g)' = TableOf(g)
    BY TablesStand DEF OnItsWay, PrefixTypeOK
<1>2. QED
    BY <1>1, HandleNames DEF OnItsWay, TablesKept, readerVars, Decoded

\* Only tables have changed hands or contents.
LEMMA OthersKeep ==
    ASSUME OnItsWay, UNCHANGED <<senderVars, readerVars>>, HeadersTypeOK', TablesKept'
    PROVE  OnItsWay'
<1>1. HeadLen' = HeadLen /\ KeysOf(wrote)' = KeysOf(wrote) /\ \A i : KeyAt(i)' = KeyAt(i) /\ ValAt(i)' = ValAt(i)
    BY DEF senderVars, HeadLen, KeysOf, KeyAt, ValAt
<1>2. Sent' = Sent /\ SentEnd' = SentEnd /\ PrefixEnd' = PrefixEnd /\ \A k : IsNext(k)' = IsNext(k)
    BY <1>1 DEF senderVars, Sent, SentEnd, PrefixEnd, IsNext
<1>3. PrefixTypeOK'
    BY <1>1 DEF OnItsWay, PrefixTypeOK, senderVars, readerVars
<1>4. HeadSent' /\ HeadRead' /\ ForeignRead'
    BY <1>1, <1>2 DEF OnItsWay, HeadSent, HeadRead, ForeignRead, senderVars, readerVars
<1>5. MapSent'
    BY <1>1, <1>2 DEF OnItsWay, MapSent, senderVars
<1>6. EntriesRead'
    BY <1>1, <1>2 DEF OnItsWay, EntriesRead, senderVars, readerVars
<1>7. QED
    BY <1>3, <1>4, <1>5, <1>6 DEF OnItsWay

\* One handle's table is made, edited or given away when it may be.
LEMMA OneTableKeeps ==
    ASSUME OnItsWay, UNCHANGED <<senderVars, readerVars>>, NEW h \in Handles, NEW t, Only(h, t),
           \/ h = "draft" /\ ~Writing
           \/ h = "spare"
           \/ h = "handler" /\ t = Decoded /\ rstage = "done" /\ TableOf("handler") = NoTable
           \/ h = "handler" /\ t # NoTable /\ TableOf("job") # NoTable
           \/ h = "job" /\ t = Decoded /\ TableOf("handler") # NoTable /\ TableOf("job") = NoTable
    PROVE  OnItsWay'
<1>1. HeadersTypeOK' /\ \A g \in Handles : TableOf(g)' = IF g = h THEN t ELSE TableOf(g)
    BY DEF Only
<1>2. Decoded' = Decoded /\ Decoded # NoTable /\ (Writing' <=> Writing) /\ rstage' = rstage /\ rmap' = rmap /\ wrote' = wrote
    BY HandleNames DEF Decoded, Writing, senderVars, readerVars
<1>3. TablesKept
    BY DEF OnItsWay
<1>4. /\ "draft" \in Handles /\ "prefix" \in Handles /\ "handler" \in Handles /\ "job" \in Handles
    BY HandleNames
<1>5. TablesKept'
    BY <1>1, <1>2, <1>3, <1>4 DEF TablesKept
<1>6. QED
    BY <1>1, <1>5, OthersKeep

\* What has been consumed stays where it is when more is written.
LEMMA ReaderKeeps ==
    ASSUME OnItsWay, genuine, genuine' = genuine, head' = head, wrote' = wrote,
           NEW v, wire' = wire \/ wire' = Append(wire, v), UNCHANGED readerVars
    PROVE  HeadRead' /\ EntriesRead' /\ ForeignRead'
<1>1. /\ wire \in Seq(WireValues) /\ rpos \in 0 .. Len(wire)
      /\ \A i \in 1 .. Len(wire) : wire'[i] = wire[i]
    BY DEF OnItsWay, PrefixTypeOK
<1>2. HeadLen' = HeadLen /\ HeadLen \in {1, 2} /\ PrefixEnd' = PrefixEnd /\ KeysOf(wrote)' = KeysOf(wrote)
    BY DEF HeadLen, PrefixEnd, KeysOf
<1>3. HeadRead'
    BY <1>2 DEF OnItsWay, HeadRead, readerVars
<1>4. ForeignRead'
    BY DEF ForeignRead
<1>r. rstage' = rstage /\ rpos' = rpos /\ rhead' = rhead /\ rleft' = rleft /\ rmap' = rmap
    BY DEF readerVars
<1>s. EntriesRead
    BY DEF OnItsWay
<1>5. CASE rstage # "entries"
    <2>1. rstage' \in {"code", "loc", "option"} => rmap' = NoTable
        BY <1>r, <1>s DEF EntriesRead
    <2>2. genuine' /\ rstage' = "done" => rpos' = PrefixEnd' /\ rmap' = wrote'
        BY <1>r, <1>s, <1>2 DEF EntriesRead
    <2>3. rstage' # "entries"
        BY <1>5, <1>r
    <2>4. QED
        BY <1>3, <1>4, <2>1, <2>2, <2>3 DEF EntriesRead
<1>6. CASE rstage = "entries"
    <2>. DEFINE c == Cardinality(KeysOf(wrote)) - rleft
    <2>1. c \in Int /\ rpos = HeadLen + 1 + 2 * c
        BY <1>2, <1>6, KeysFinite DEF OnItsWay, EntriesRead, PrefixEnd, PrefixTypeOK
    <2>. HIDE DEF c
    <2>2. \A i \in 1 .. c : KeyAt(i)' = KeyAt(i)
        <3>1. \A i \in 1 .. c : HeadLen + 2 * i \in 1 .. Len(wire)
            BY <1>1, <1>2, <2>1
        <3>2. QED
            BY <1>1, <1>2, <3>1 DEF KeyAt
    <2>3. { KeyAt(i)'.s : i \in 1 .. c } = { KeyAt(i).s : i \in 1 .. c }
        BY <2>2
    <2>4. /\ wrote # NoTable /\ rmap # NoTable /\ rpos > HeadLen /\ rpos = PrefixEnd - 2 * rleft
          /\ DOMAIN rmap = { KeyAt(i).s : i \in 1 .. c }
          /\ \A k \in DOMAIN rmap : k \in DOMAIN wrote /\ rmap[k] = wrote[k]
        BY <1>6, <1>s DEF EntriesRead, c
    <2>5. /\ wrote' # NoTable /\ rmap' # NoTable /\ rpos' > HeadLen' /\ rpos' = PrefixEnd' - 2 * rleft'
          /\ \A k \in DOMAIN rmap' : k \in DOMAIN wrote' /\ rmap'[k] = wrote'[k]
        BY <1>2, <1>r, <2>4
    <2>6. DOMAIN rmap' = { KeyAt(i)'.s : i \in 1 .. c }
        BY <1>r, <2>3, <2>4
    <2>7. c = Cardinality(KeysOf(wrote)') - rleft'
        BY <1>2, <1>r DEF c
    <2>8. QED
        BY <1>3, <1>4, <1>6, <1>r, <2>5, <2>6, <2>7 DEF EntriesRead
<1>7. QED
    BY <1>3, <1>4, <1>5, <1>6

\* One value goes out while a prefix is being written.
LEMMA EncodedKeeps ==
    ASSUME OnItsWay, NEW stage, NEW value \in WireValues, NEW next, Encoded(stage, value, next),
           stage \in {"code", "loc", "option", "key", "value"},
           next \in {"loc", "option", "key", "value", "end"}, wkeys' \in SUBSET KeysOf(wrote)
    PROVE  /\ PrefixTypeOK' /\ HeadRead' /\ EntriesRead' /\ ForeignRead' /\ TablesKept'
           /\ genuine /\ TableOf("draft") = wrote
<1>1. genuine /\ Writing
    BY DEF OnItsWay, ForeignRead, Encoded, Writing
<1>2. HeadRead' /\ EntriesRead' /\ ForeignRead'
    BY <1>1, ReaderKeeps DEF Encoded
<1>3. TableOf("draft") = wrote
    BY <1>1 DEF OnItsWay, TablesKept
<1>4. TablesKept' /\ HeadersTypeOK'
    BY <1>3, SenderTables DEF Encoded
<1>5. wire' \in Seq(WireValues) /\ Len(wire') = Len(wire) + 1 /\ Len(wire) \in Nat
    BY DEF Encoded, OnItsWay, PrefixTypeOK
<1>6. PrefixTypeOK'
    BY <1>4, <1>5 DEF PrefixTypeOK, OnItsWay, Encoded, readerVars, KeysOf
<1>7. QED
    BY <1>1, <1>2, <1>3, <1>4, <1>6

LEMMA EncodeCodeKeeps ==
    ASSUME OnItsWay, EncodeCode
    PROVE  OnItsWay'
<1>1. head.code \in Nat /\ head.kind \in {"request", "response"}
    BY HeadTyped DEF OnItsWay, PrefixTypeOK
<1>2. wkeys' \in SUBSET KeysOf(wrote)
    BY DEF OnItsWay, PrefixTypeOK, EncodeCode
<1>3. /\ PrefixTypeOK' /\ HeadRead' /\ EntriesRead' /\ ForeignRead' /\ TablesKept' /\ genuine
    BY <1>1, <1>2, ValuesTyped, EncodedKeeps DEF EncodeCode
<1>4. /\ wire = <<>> /\ wire' = <<Uint(head.code)>> /\ wkeys' = {} /\ head' = head
      /\ wstage' = IF head.kind = "request" THEN "loc" ELSE "option"
    BY <1>3 DEF OnItsWay, HeadSent, EncodeCode, Encoded, HeadLen
<1>5. HeadLen' = IF head.kind = "request" THEN 2 ELSE 1
    BY <1>4 DEF HeadLen
<1>6. HeadSent'
    BY <1>1, <1>4, <1>5 DEF HeadSent
<1>7. MapSent'
    BY <1>4, <1>5 DEF MapSent
<1>8. QED
    BY <1>3, <1>6, <1>7 DEF OnItsWay

LEMMA EncodeLocationKeeps ==
    ASSUME OnItsWay, EncodeLocation
    PROVE  OnItsWay'
<1>1. head.loc \in Texts
    BY HeadTyped DEF OnItsWay, PrefixTypeOK
<1>2. wkeys' \in SUBSET KeysOf(wrote)
    BY DEF OnItsWay, PrefixTypeOK, EncodeLocation
<1>3. /\ PrefixTypeOK' /\ HeadRead' /\ EntriesRead' /\ ForeignRead' /\ TablesKept' /\ genuine
    BY <1>1, <1>2, ValuesTyped, EncodedKeeps DEF EncodeLocation
<1>0. /\ wstage = "loc" /\ wire' = Append(wire, Text(head.loc)) /\ wkeys' = wkeys
      /\ head' = head /\ wstage' = "option" /\ wire \in Seq(WireValues)
    BY DEF OnItsWay, PrefixTypeOK, EncodeLocation, Encoded
<1>a. head.kind = "request" /\ Len(wire) = 1
    BY <1>0, <1>3 DEF OnItsWay, HeadSent
<1>b. wire # <<>> /\ HeadLen = 2
    BY <1>a DEF HeadLen
<1>c. wire[1] = Uint(head.code) /\ wkeys = {}
    BY <1>a, <1>b, <1>3 DEF OnItsWay, HeadSent
<1>4. /\ head.kind = "request" /\ Len(wire) = 1 /\ wire \in Seq(WireValues) /\ wire[1] = Uint(head.code)
      /\ wire' = Append(wire, Text(head.loc)) /\ wkeys = {} /\ wkeys' = {} /\ head' = head /\ wstage' = "option"
    BY <1>0, <1>a, <1>c
<1>5. HeadLen' = 2
    <2>1. head'.kind = "request"
        BY <1>4
    <2>2. QED
        BY <2>1 DEF HeadLen
<1>6. Len(wire') = 2 /\ wire'[1] = Uint(head.code) /\ wire'[2] = Text(head.loc)
    <2>1. Text(head.loc) \in WireValues
        BY <1>1, ValuesTyped
    <2>2. /\ Len(wire') = Len(wire) + 1 /\ \A i \in 1 .. Len(wire) : wire'[i] = wire[i]
          /\ wire'[Len(wire) + 1] = Text(head.loc)
        BY <1>4, <2>1, AppendIs
    <2>3. QED
        BY <1>4, <2>2
<1>7. HeadSent'
    BY <1>4, <1>5, <1>6 DEF HeadSent
<1>8. MapSent'
    BY <1>5, <1>6 DEF MapSent
<1>9. QED
    BY <1>3, <1>7, <1>8 DEF OnItsWay

LEMMA EncodeOptionKeeps ==
    ASSUME OnItsWay, EncodeOption
    PROVE  OnItsWay'
<1>1. TableOf("draft") = wrote
    BY DEF OnItsWay, TablesKept, EncodeOption, Encoded, Writing
<1>2. OptionValue(wrote) \in WireValues
    <2>1. wrote # NoTable => Cardinality(DOMAIN wrote) \in Nat
        BY KeysFinite DEF OnItsWay, KeysOf
    <2>2. QED
        BY <2>1, ValuesTyped DEF OptionValue
<1>3. wkeys' = KeysOf(wrote)
    BY <1>1 DEF EncodeOption
<1>4. /\ PrefixTypeOK' /\ HeadRead' /\ EntriesRead' /\ ForeignRead' /\ TablesKept' /\ genuine
    BY <1>1, <1>2, <1>3, EncodedKeeps DEF EncodeOption
<1>5. /\ wire \in Seq(WireValues) /\ Len(wire) = HeadLen /\ wire' = Append(wire, OptionValue(wrote))
      /\ head' = head /\ wrote' = wrote /\ wstage' = IF wkeys' = {} THEN "end" ELSE "key"
    BY <1>1, <1>4 DEF OnItsWay, PrefixTypeOK, HeadSent, EncodeOption, Encoded
<1>6. HeadLen' = HeadLen /\ HeadLen \in {1, 2}
    BY <1>5 DEF HeadLen
<1>7. Len(wire') = HeadLen + 1 /\ wire'[HeadLen + 1] = OptionValue(wrote) /\ \A i \in 1 .. HeadLen : wire'[i] = wire[i]
    BY <1>5, <1>6
<1>8. HeadSent'
    BY <1>4, <1>5, <1>6, <1>7 DEF OnItsWay, HeadSent, HeadLen
<1>9. KeysOf(wrote)' \ wkeys' = {} /\ Sent' = 0 /\ SentEnd' = HeadLen + 1
    <2>1. KeysOf(wrote)' \ wkeys' = {}
        BY <1>3, <1>5
    <2>2. QED
        BY <1>6, <2>1, FS_EmptySet DEF Sent, SentEnd
<1>10. MapSent'
    BY <1>5, <1>6, <1>7, <1>9 DEF MapSent
<1>11. QED
    BY <1>4, <1>8, <1>10 DEF OnItsWay

\* More may be written behind the beginning of the map.
MapExtends ==
    /\ Len(wire) > HeadLen /\ wire' \in Seq(WireValues) /\ Len(wire') >= Len(wire)
    /\ \A i \in 1 .. Len(wire) : wire'[i] = wire[i]

EntriesSame ==
    /\ HeadLen' = HeadLen /\ KeysOf(wrote)' = KeysOf(wrote)
    /\ wire'[HeadLen + 1] = OptionValue(wrote)
    /\ \A i \in 1 .. Sent : KeyAt(i)' = KeyAt(i) /\ ValAt(i)' = ValAt(i)
    /\ \A i \in 1 .. Sent :
          LET k == KeyAt(i).s IN
              k \in KeysOf(wrote) /\ KeyAt(i) = EncodeKey(k) /\ ValAt(i) = EncodeVal(wrote[k])
    /\ \A k \in KeysOf(wrote) \ wkeys : \E i \in 1 .. Sent : KeyAt(i).s = k

\* Where the entries are does not change when more is written, nor which they
\* are as long as none is completed.
LEMMA EntriesStay ==
    ASSUME OnItsWay, genuine, MapExtends, head' = head, wrote' = wrote
    PROVE  EntriesSame
<1>0. Len(wire) > HeadLen /\ \A i \in 1 .. Len(wire) : wire'[i] = wire[i]
    BY DEF MapExtends
<1>1. MapSent /\ Sent \in Nat /\ HeadLen \in {1, 2} /\ Len(wire) \in Nat
    BY KeysFinite DEF OnItsWay, PrefixTypeOK
<1>2. HeadLen' = HeadLen /\ KeysOf(wrote)' = KeysOf(wrote)
    BY DEF HeadLen, KeysOf
<1>3. Len(wire) >= SentEnd /\ SentEnd = HeadLen + 1 + 2 * Sent
    <2>1. SentEnd = HeadLen + 1 + 2 * Sent /\ Len(wire) \in SentEnd .. SentEnd + 1
        BY <1>1, <1>0 DEF MapSent, SentEnd
    <2>2. QED
        BY <1>1, <2>1
<1>4. \A i \in 1 .. Sent : HeadLen + 2 * i \in 1 .. Len(wire) /\ HeadLen + 2 * i + 1 \in 1 .. Len(wire)
    BY <1>1, <1>3
<1>5. \A i \in 1 .. Sent : KeyAt(i)' = KeyAt(i) /\ ValAt(i)' = ValAt(i)
    BY <1>0, <1>2, <1>4 DEF KeyAt, ValAt
<1>6. wire'[HeadLen + 1] = OptionValue(wrote)
    BY <1>0, <1>1 DEF MapSent
<1>7. QED
    BY <1>0, <1>1, <1>2, <1>5, <1>6 DEF MapSent, EntriesSame

\* The head stays when more is written behind it.
LEMMA HeadStays ==
    ASSUME OnItsWay, genuine, MapExtends, head' = head,
           wstage' \in {"key", "value", "end", "done", "cut"}
    PROVE  HeadSent'
<1>1. /\ HeadSent /\ HeadLen \in {1, 2} /\ Len(wire) \in Nat /\ Len(wire') \in Nat /\ head \in Heads
      /\ Len(wire) > HeadLen /\ Len(wire') >= Len(wire) /\ \A i \in 1 .. Len(wire) : wire'[i] = wire[i]
    BY KeysFinite DEF OnItsWay, PrefixTypeOK, MapExtends
<1>2. HeadLen' = HeadLen /\ Len(wire') > HeadLen
    BY <1>1 DEF HeadLen
<1>3. wire # <<>> /\ wire'[1] = wire[1]
    BY <1>1
<1>4. head.kind = "request" => HeadLen = 2 /\ wire'[2] = wire[2]
    BY <1>1 DEF HeadLen
<1>5. wire'[1] = Uint(head.code)
    BY <1>1, <1>3 DEF HeadSent
<1>6. head.kind = "request" => wire'[2] = Text(head.loc)
    BY <1>1, <1>4 DEF HeadSent
<1>7. wire' # <<>> /\ ~(Len(wire') <= HeadLen')
    BY <1>1, <1>2
<1>8. QED
    BY <1>2, <1>5, <1>6, <1>7 DEF HeadSent

LEMMA EncodeNextKeyKeeps ==
    ASSUME OnItsWay, EncodeNextKey
    PROVE  OnItsWay'
<1>1. PICK k \in wkeys : IsNext(k) /\ Encoded("key", EncodeKey(k), "value") /\ wkeys' = wkeys
    BY DEF EncodeNextKey
<1>2. k \in Keys /\ wkeys \in SUBSET KeysOf(wrote)
    BY KeysFinite DEF OnItsWay, PrefixTypeOK
<1>3. /\ PrefixTypeOK' /\ HeadRead' /\ EntriesRead' /\ ForeignRead' /\ TablesKept' /\ genuine
    BY <1>1, <1>2, ValuesTyped, EncodedKeeps
<1>4. /\ wstage = "key" /\ wstage' = "value" /\ wire' = Append(wire, EncodeKey(k))
      /\ head' = head /\ wrote' = wrote /\ wire \in Seq(WireValues) /\ EncodeKey(k) \in WireValues
    BY <1>1, <1>2, ValuesTyped DEF Encoded, OnItsWay, PrefixTypeOK
<1>5. Len(wire) > HeadLen /\ Len(wire) = SentEnd
    BY <1>3, <1>4 DEF OnItsWay, HeadSent, MapSent
<1>6. /\ wire' \in Seq(WireValues) /\ Len(wire) \in Nat /\ Len(wire') = Len(wire) + 1
      /\ \A i \in 1 .. Len(wire) : wire'[i] = wire[i]
      /\ wire'[Len(wire')] = EncodeKey(k)
    BY <1>4, AppendIs
<1>m. MapExtends
    BY <1>5, <1>6 DEF MapExtends
<1>7. HeadSent'
    BY <1>3, <1>4, <1>m, HeadStays
<1>8. MapSent'
    <2>1. EntriesSame
        BY <1>3, <1>4, <1>m, EntriesStay
    <2>2. Sent' = Sent /\ SentEnd' = SentEnd
        BY <1>1, <2>1 DEF Sent, SentEnd, EntriesSame
    <2>3. /\ \A i \in 1 .. Sent' :
                LET j == KeyAt(i)'.s IN
                    j \in KeysOf(wrote)' /\ KeyAt(i)' = EncodeKey(j) /\ ValAt(i)' = EncodeVal(wrote'[j])
          /\ \A j \in KeysOf(wrote)' \ wkeys' : \E i \in 1 .. Sent' : KeyAt(i)'.s = j
        BY <1>1, <1>4, <2>1, <2>2 DEF EntriesSame
    <2>4. IsNext(k)' /\ k \in wkeys'
        BY <1>1 DEF IsNext
    <2>5. Len(wire') = SentEnd' + 1 /\ SentEnd' \in Nat
        BY <1>5, <1>6, <2>2
    <2>6. QED
        BY <1>4, <1>6, <2>1, <2>3, <2>4, <2>5 DEF MapSent, EntriesSame
<1>9. QED
    BY <1>3, <1>7, <1>8 DEF OnItsWay

\* The map's order is total, so the value that goes out is that of the key
\* that went before it.
LEMMA NextIsOne ==
    ASSUME PrefixTypeOK, NEW j \in wkeys, NEW k \in wkeys, IsNext(j), IsNext(k)
    PROVE  j = k
<1>1. j \in Keys /\ k \in Keys
    BY KeysFinite DEF PrefixTypeOK
<1>2. KeyRank[j] <= KeyRank[k] /\ KeyRank[k] <= KeyRank[j] /\ KeyRank[j] \in Nat /\ KeyRank[k] \in Nat
    BY <1>1, PrefixAssumption DEF IsNext
<1>3. KeyRank[j] = KeyRank[k]
    BY <1>2
<1>4. QED
    BY <1>1, <1>3, PrefixAssumption

LEMMA EncodeItsValKeeps ==
    ASSUME OnItsWay, EncodeItsVal
    PROVE  OnItsWay'
<1>1. PICK k \in wkeys :
         /\ IsNext(k) /\ wkeys' = wkeys \ {k}
         /\ Encoded("value", EncodeVal(Lookup(Table("draft"), k)), IF wkeys' = {} THEN "end" ELSE "key")
    BY DEF EncodeItsVal
<1>2. /\ wkeys \in SUBSET KeysOf(wrote) /\ k \in KeysOf(wrote) /\ k \in Keys /\ wrote # NoTable
      /\ wrote \in Tables /\ k \in DOMAIN wrote
    BY KeysFinite DEF OnItsWay, PrefixTypeOK, KeysOf
<1>3. Lookup(Table("draft"), k) = wrote[k] /\ wrote[k] \in Vals
    <2>1. TableOf("draft") = wrote
        BY <1>1 DEF OnItsWay, TablesKept, Encoded, Writing
    <2>2. Table("draft") = wrote
        BY <1>2, <2>1 DEF TableOf
    <2>3. QED
        BY <1>2, <2>2 DEF Lookup, Tables
<1>4. /\ wstage = "value" /\ wstage' = IF wkeys' = {} THEN "end" ELSE "key"
      /\ wire' = Append(wire, EncodeVal(wrote[k])) /\ EncodeVal(wrote[k]) \in WireValues
      /\ head' = head /\ wrote' = wrote /\ wire \in Seq(WireValues)
    BY <1>1, <1>3, ValuesTyped DEF Encoded, OnItsWay, PrefixTypeOK
<1>5. wkeys' \in SUBSET KeysOf(wrote) /\ wstage' \in {"end", "key"}
    BY <1>1, <1>2, <1>4
<1>6. /\ PrefixTypeOK' /\ HeadRead' /\ EntriesRead' /\ ForeignRead' /\ TablesKept' /\ genuine
    BY <1>1, <1>3, <1>4, <1>5, EncodedKeeps
<1>7. Len(wire) > HeadLen /\ Len(wire) = SentEnd + 1 /\ wire[Len(wire)] = EncodeKey(k)
    <2>1. Len(wire) > HeadLen /\ Len(wire) = SentEnd + 1
        BY <1>4, <1>6 DEF OnItsWay, HeadSent, MapSent
    <2>2. PICK j \in wkeys : IsNext(j) /\ wire[Len(wire)] = EncodeKey(j)
        BY <1>4, <1>6, <2>1 DEF OnItsWay, MapSent
    <2>3. j = k
        BY <1>1, <2>2, NextIsOne DEF OnItsWay
    <2>4. QED
        BY <2>1, <2>2, <2>3
<1>8. /\ wire' \in Seq(WireValues) /\ Len(wire) \in Nat /\ Len(wire') = Len(wire) + 1
      /\ \A i \in 1 .. Len(wire) : wire'[i] = wire[i]
      /\ wire'[Len(wire')] = EncodeVal(wrote[k])
    BY <1>4, AppendIs
<1>m. MapExtends
    BY <1>7, <1>8 DEF MapExtends
<1>9. HeadSent'
    BY <1>4, <1>5, <1>6, <1>m, HeadStays
<1>10. EntriesSame /\ Sent \in Nat /\ HeadLen \in {1, 2} /\ SentEnd = HeadLen + 1 + 2 * Sent
    BY <1>4, <1>6, <1>m, EntriesStay, KeysFinite DEF OnItsWay, SentEnd
<1>11. Sent' = Sent + 1 /\ SentEnd' = SentEnd + 2
    <2>1. KeysOf(wrote)' \ wkeys' = (KeysOf(wrote) \ wkeys) \cup {k} /\ k \notin KeysOf(wrote) \ wkeys
        BY <1>1, <1>2, <1>10 DEF EntriesSame
    <2>2. IsFiniteSet(KeysOf(wrote) \ wkeys)
        BY KeysFinite, FS_Subset DEF OnItsWay
    <2>3. Sent' = Sent + 1
        BY <2>1, <2>2, FS_AddElement DEF Sent
    <2>4. QED
        BY <1>10, <2>3 DEF SentEnd, EntriesSame
<1>12. ASSUME NEW i, i = Sent + 1
       PROVE  KeyAt(i)' = EncodeKey(k) /\ ValAt(i)' = EncodeVal(wrote[k]) /\ EncodeKey(k).s = k
    <2>1. HeadLen' + 2 * i = Len(wire) /\ HeadLen' + 2 * i + 1 = Len(wire')
        BY <1>12,  <1>7, <1>8, <1>10, SMTT(30) DEF EntriesSame
    <2>2. wire'[Len(wire)] = wire[Len(wire)]
        BY <1>7, <1>8, <1>10
    <2>3. QED
        BY <1>7, <1>8, <2>1, <2>2, KindsOfValues DEF KeyAt, ValAt
<1>13. ASSUME NEW i \in 1 .. Sent'
       PROVE  /\ KeyAt(i)'.s \in KeysOf(wrote)' /\ KeyAt(i)' = EncodeKey(KeyAt(i)'.s)
              /\ ValAt(i)' = EncodeVal(wrote'[KeyAt(i)'.s])
    <2>1. CASE i \in 1 .. Sent
        BY <1>4, <1>10, <2>1 DEF EntriesSame
    <2>2. CASE i = Sent + 1
        BY <1>2, <1>4, <1>10, <1>12, <2>2 DEF EntriesSame
    <2>3. QED
        BY <1>10, <1>11, <2>1, <2>2
<1>14. ASSUME NEW j \in KeysOf(wrote)' \ wkeys'
       PROVE  \E i \in 1 .. Sent' : KeyAt(i)'.s = j
    <2>1. CASE j = k
        <3>1. PICK i : i = Sent + 1
            OBVIOUS
        <3>2. i \in 1 .. Sent'
            BY <1>10, <1>11, <3>1
        <3>3. KeyAt(i)'.s = j
            BY <1>12, <2>1, <3>1
        <3>4. QED
            BY <3>2, <3>3
    <2>2. CASE j # k
        <3>1. j \in KeysOf(wrote) \ wkeys
            BY <1>1, <1>10, <2>2 DEF EntriesSame
        <3>2. PICK i \in 1 .. Sent : KeyAt(i).s = j
            BY <1>10, <3>1 DEF EntriesSame
        <3>3. i \in 1 .. Sent' /\ KeyAt(i)'.s = j
            BY <1>10, <1>11, <3>2 DEF EntriesSame
        <3>4. QED
            BY <3>3
    <2>3. QED
        BY <2>1, <2>2
<1>15. MapSent'
    <2>1. Len(wire') = SentEnd' /\ SentEnd' \in Nat
        BY <1>7, <1>8, <1>10, <1>11
    <2>2. wire'[HeadLen' + 1] = OptionValue(wrote')
        BY <1>4, <1>10 DEF EntriesSame
    <2>3. wstage' \in {"end", "key"} /\ (wstage' = "end" => wkeys' = {})
        BY <1>4
    <2>4. /\ wstage' # "value" /\ wstage' # "done" /\ Len(wire') \in SentEnd' .. SentEnd' + 1
          /\ Len(wire') # SentEnd' + 1
        <3>1. wstage' # "value" /\ wstage' # "done"
            BY <2>3
        <3>2. ASSUME NEW l, NEW e \in Nat, l = e PROVE l \in e .. e + 1 /\ l # e + 1
            BY <3>2
        <3>3. Len(wire') \in SentEnd' .. SentEnd' + 1 /\ Len(wire') # SentEnd' + 1
            BY <2>1, <3>2
        <3>4. QED
            BY <3>1, <3>3
    <2>5. wstage' \in {"end", "done"} => wkeys' = {}
        BY <2>3
    <2>6. wstage' \in {"key", "value", "end", "done", "cut"}
        BY <2>3
    <2>7. \A i \in 1 .. Sent' :
             LET j == KeyAt(i)'.s IN
                 j \in KeysOf(wrote)' /\ KeyAt(i)' = EncodeKey(j) /\ ValAt(i)' = EncodeVal(wrote'[j])
        BY <1>13
    <2>8. \A j \in KeysOf(wrote)' \ wkeys' : \E i \in 1 .. Sent' : KeyAt(i)'.s = j
        BY <1>14
    <2>9. QED
        BY <2>1, <2>2, <2>4, <2>5, <2>6, <2>7, <2>8 DEF MapSent
<1>16. QED
    BY <1>6, <1>9, <1>15 DEF OnItsWay

\* Before a prefix is written there is nothing to read.
LEMMA NothingYet ==
    ASSUME OnItsWay, wstage = "draft"
    PROVE  /\ genuine /\ wire = <<>> /\ wkeys = {} /\ HeadLen \in {1, 2} /\ rpos = 0
           /\ rstage \in {"code", "failed"}
<1>1. genuine /\ wire = <<>> /\ HeadLen \in {1, 2}
    BY KeysFinite DEF OnItsWay, ForeignRead, HeadSent
<1>2. wkeys = {}
    BY <1>1 DEF OnItsWay, HeadSent
<1>3. rpos = 0
    BY <1>1 DEF OnItsWay, PrefixTypeOK
<1>4. rstage # "loc" /\ rstage # "option" /\ rstage # "entries"
    <2>1. rstage = "loc" => rpos = 1
        BY <1>1 DEF OnItsWay, HeadRead
    <2>2. rstage = "option" => rpos = HeadLen
        BY <1>1 DEF OnItsWay, HeadRead
    <2>3. rstage = "entries" => rpos > HeadLen
        BY <1>1 DEF OnItsWay, EntriesRead
    <2>4. QED
        BY <1>1, <1>3, <2>1, <2>2, <2>3
<1>5. rstage # "done"
    <2>1. rstage = "done" => rpos = PrefixEnd
        BY <1>1 DEF OnItsWay, EntriesRead
    <2>2. PrefixEnd > 0
        BY <1>1, KeysFinite DEF OnItsWay, PrefixEnd
    <2>3. QED
        BY <1>3, <2>1, <2>2
<1>6. QED
    BY <1>1, <1>2, <1>3, <1>4, <1>5 DEF OnItsWay, PrefixTypeOK

LEMMA StartWriteKeeps ==
    ASSUME OnItsWay, StartWrite
    PROVE  OnItsWay'
<1>1. /\ genuine /\ wire = <<>> /\ wkeys = {} /\ HeadLen \in {1, 2} /\ rpos = 0
      /\ rstage \in {"code", "failed"}
    BY NothingYet DEF StartWrite
<1>2. /\ wrote' = TableOf("draft") /\ wstage' = "code" /\ head' = head /\ genuine' = genuine
      /\ wkeys' = wkeys /\ wire' = wire /\ edits' = edits
      /\ UNCHANGED headerVars /\ UNCHANGED readerVars
    BY DEF StartWrite
<1>3. TablesKept' /\ HeadersTypeOK'
    BY <1>2, SenderTables
<1>4. wrote' \in Tables \cup {NoTable}
    BY <1>2, TableOfType, HandleNames DEF OnItsWay, PrefixTypeOK
<1>5. PrefixTypeOK'
    BY <1>1, <1>2, <1>3, <1>4 DEF OnItsWay, PrefixTypeOK, readerVars
<1>6. HeadSent'
    BY <1>1, <1>2 DEF HeadSent
<1>7. MapSent'
    <2>1. Len(wire') = 0 /\ HeadLen' \in {1, 2}
        BY <1>1, <1>2 DEF HeadLen
    <2>2. QED
        BY <2>1 DEF MapSent
<1>8. HeadRead'
    BY <1>2 DEF OnItsWay, HeadRead, readerVars, HeadLen
<1>9. EntriesRead'
    BY <1>1, <1>2 DEF OnItsWay, EntriesRead, readerVars
<1>10. ForeignRead'
    BY <1>1, <1>2 DEF ForeignRead
<1>11. QED
    BY <1>3, <1>5, <1>6, <1>7, <1>8, <1>9, <1>10 DEF OnItsWay

LEMMA GetHeadersKeeps ==
    ASSUME OnItsWay, GetHeaders
    PROVE  OnItsWay'
<1>1. PICK t \in Drafts : Allocate("draft", t)
    BY DEF GetHeaders
<1>2. Only("draft", t)
    BY <1>1, AllocateOnly, HandleNames, PrefixAssumption DEF OnItsWay, PrefixTypeOK
<1>3. UNCHANGED <<senderVars, readerVars>> /\ ~Writing
    BY DEF GetHeaders, Writing
<1>4. QED
    BY <1>2, <1>3, OneTableKeeps, HandleNames

LEMMA WriteDoneKeeps ==
    ASSUME OnItsWay, WriteDone
    PROVE  OnItsWay'
<1>1. /\ genuine /\ wire \in Seq(WireValues) /\ wkeys = {} /\ Len(wire) = SentEnd /\ Len(wire) > HeadLen
    BY DEF OnItsWay, WriteDone, ForeignRead, HeadSent, MapSent, PrefixTypeOK
<1>2. /\ wstage' = "done" /\ head' = head /\ genuine' = genuine /\ wrote' = wrote
      /\ wkeys' = wkeys /\ edits' = edits /\ UNCHANGED headerVars /\ UNCHANGED readerVars
      /\ wire' = wire \/ wire' = Append(wire, BodyValue)
    BY DEF WriteDone
<1>3. TablesKept' /\ HeadersTypeOK'
    BY <1>2, SenderTables DEF Writing
<1>4. HeadRead' /\ EntriesRead' /\ ForeignRead'
    BY <1>1, <1>2, ReaderKeeps
<1>5. /\ wire' \in Seq(WireValues) /\ Len(wire) \in Nat /\ \A i \in 1 .. Len(wire) : wire'[i] = wire[i]
      /\ \/ Len(wire') = Len(wire)
         \/ Len(wire') = Len(wire) + 1 /\ wire'[Len(wire')] = BodyValue
    <2>1. CASE wire' = wire
        BY <1>1, <2>1
    <2>2. CASE wire' = Append(wire, BodyValue)
        BY <1>1, <2>2, AppendIs, ValuesTyped
    <2>3. QED
        BY <1>2, <2>1, <2>2
<1>6. MapExtends
    BY <1>1, <1>5 DEF MapExtends
<1>7. HeadSent'
    BY <1>1, <1>2, <1>6, HeadStays
<1>8. EntriesSame
    BY <1>1, <1>2, <1>6, EntriesStay
<1>9. MapSent'
    <2>1. Sent' = Sent /\ SentEnd' = SentEnd
        BY <1>2, <1>8 DEF Sent, SentEnd, EntriesSame
    <2>2. Len(wire') \in SentEnd' .. SentEnd' + 1
        BY <1>1, <1>5, <2>1
    <2>3. Len(wire') = SentEnd' + 1 => wire'[Len(wire')] = BodyValue
        BY <1>1, <1>5, <2>1
    <2>4. QED
        BY <1>1, <1>2, <1>8, <2>1, <2>2, <2>3 DEF MapSent, EntriesSame
<1>10. PrefixTypeOK'
    BY <1>2, <1>3, <1>5 DEF OnItsWay, PrefixTypeOK, readerVars
<1>11. QED
    BY <1>3, <1>4, <1>7, <1>9, <1>10 DEF OnItsWay

LEMMA WriteCutKeeps ==
    ASSUME OnItsWay, WriteCut
    PROVE  OnItsWay'
<1>1. genuine /\ wire \in Seq(WireValues) /\ Writing
    BY DEF OnItsWay, WriteCut, ForeignRead, PrefixTypeOK, Writing
<1>2. /\ wstage' = "cut" /\ head' = head /\ genuine' = genuine /\ wrote' = wrote
      /\ wkeys' = wkeys /\ edits' = edits /\ UNCHANGED headerVars /\ UNCHANGED readerVars
      /\ wire' = wire
    BY DEF WriteCut
<1>3. TablesKept' /\ HeadersTypeOK'
    BY <1>2, SenderTables DEF Writing
<1>4. HeadRead' /\ EntriesRead' /\ ForeignRead'
    BY <1>1, <1>2, ReaderKeeps
<1>5. HeadSent'
    BY <1>1, <1>2 DEF OnItsWay, HeadSent, HeadLen
<1>6. MapSent'
    <2>1. HeadLen' = HeadLen /\ KeysOf(wrote)' = KeysOf(wrote) /\ Sent' = Sent /\ SentEnd' = SentEnd
        BY <1>2 DEF HeadLen, KeysOf, Sent, SentEnd
    <2>2. CASE Len(wire) <= HeadLen
        BY <1>2, <2>1, <2>2, KeysFinite DEF MapSent, OnItsWay, PrefixTypeOK
    <2>3. CASE Len(wire) > HeadLen
        <3>1. MapExtends
            BY <1>1, <1>2, <2>3 DEF MapExtends
        <3>2. EntriesSame
            BY <1>1, <1>2, <3>1, EntriesStay
        <3>3. Len(wire) = SentEnd + 1 => wstage = "value"
            BY <1>1, <2>3 DEF OnItsWay, MapSent, Writing
        <3>4. /\ Len(wire) \in SentEnd .. SentEnd + 1
              /\ Len(wire) = SentEnd + 1 => \E k \in wkeys : IsNext(k) /\ wire[Len(wire)] = EncodeKey(k)
            BY <1>1, <2>3, <3>3 DEF OnItsWay, MapSent
        <3>5. Len(wire') = SentEnd' + 1 => \E k \in wkeys' : IsNext(k)' /\ wire'[Len(wire')] = EncodeKey(k)
            BY <1>2, <2>1, <3>4 DEF IsNext
        <3>6. QED
            BY <1>2, <2>1, <3>2, <3>4, <3>5 DEF MapSent, EntriesSame
    <2>4. QED
        BY <2>2, <2>3, KeysFinite DEF OnItsWay, PrefixTypeOK
<1>7. PrefixTypeOK'
    BY <1>2, <1>3 DEF OnItsWay, PrefixTypeOK, readerVars
<1>8. QED
    BY <1>3, <1>4, <1>5, <1>6, <1>7 DEF OnItsWay

LEMMA ForeignPrefixKeeps ==
    ASSUME OnItsWay, ForeignPrefix
    PROVE  OnItsWay'
<1>1. PICK seq \in Foreign : wire' = Append(seq, BodyValue)
    BY DEF ForeignPrefix
<1>2. /\ wstage = "draft" /\ wstage' = "done" /\ head' = head /\ genuine' = FALSE /\ wrote' = wrote
      /\ wkeys' = wkeys /\ edits' = edits /\ UNCHANGED headerVars /\ UNCHANGED readerVars
    BY DEF ForeignPrefix
<1>3. rpos = 0 /\ rstage \in {"code", "failed"}
    BY <1>2, NothingYet
<1>4. TablesKept' /\ HeadersTypeOK'
    BY <1>2, SenderTables DEF Writing
<1>5. wire' \in Seq(WireValues) /\ Len(wire') \in Nat
    <2>1. seq \in Seq(WireValues)
        BY PrefixAssumption
    <2>2. QED
        BY <1>1, <2>1, ValuesTyped
<1>a. rpos' \in 0 .. Len(wire') /\ genuine' \in BOOLEAN /\ wkeys' \in SUBSET KeysOf(wrote)'
    <2>1. rpos' = 0
        BY <1>2, <1>3 DEF readerVars
    <2>2. rpos' \in 0 .. Len(wire')
        BY <1>5, <2>1
    <2>3. wkeys' \in SUBSET KeysOf(wrote)'
        BY <1>2 DEF OnItsWay, PrefixTypeOK, KeysOf
    <2>4. QED
        BY <1>2, <2>2, <2>3
<1>6. PrefixTypeOK'
    BY <1>2, <1>4, <1>5, <1>a DEF OnItsWay, PrefixTypeOK, readerVars
<1>7. HeadSent' /\ MapSent' /\ HeadRead'
    BY <1>2 DEF HeadSent, MapSent, HeadRead
<1>8. EntriesRead'
    BY <1>2, <1>3 DEF OnItsWay, EntriesRead, readerVars
<1>9. ForeignRead'
    BY <1>1, <1>2, <1>3 DEF ForeignRead, readerVars
<1>10. QED
    BY <1>4, <1>6, <1>7, <1>8, <1>9 DEF OnItsWay

-----------------------------------------------------------------------------
(* What the receiver does.                                                 *)

LEMMA SenderStands ==
    ASSUME OnItsWay, UNCHANGED senderVars
    PROVE  /\ HeadSent' /\ MapSent' /\ HeadLen' = HeadLen /\ PrefixEnd' = PrefixEnd
           /\ KeysOf(wrote)' = KeysOf(wrote) /\ \A i : KeyAt(i)' = KeyAt(i)
<1>1. HeadLen' = HeadLen /\ KeysOf(wrote)' = KeysOf(wrote) /\ \A i : KeyAt(i)' = KeyAt(i) /\ ValAt(i)' = ValAt(i)
    BY DEF senderVars, HeadLen, KeysOf, KeyAt, ValAt
<1>2. Sent' = Sent /\ SentEnd' = SentEnd /\ PrefixEnd' = PrefixEnd /\ \A k : IsNext(k)' = IsNext(k)
    BY <1>1 DEF senderVars, Sent, SentEnd, PrefixEnd, IsNext
<1>3. HeadSent'
    BY <1>1 DEF OnItsWay, HeadSent, senderVars
<1>4. MapSent'
    BY <1>1, <1>2 DEF OnItsWay, MapSent, senderVars
<1>5. QED
    BY <1>1, <1>2, <1>3, <1>4

ReaderTyped ==
    /\ rstage \in {"code", "loc", "option", "entries", "done", "failed"}
    /\ rpos \in 0 .. Len(wire) /\ rleft \in Nat /\ rmap \in Tables \cup {NoTable}
    /\ rhead \in [kind : {head.kind}, code : Nat, loc : Texts]

\* A step of the receiver before it hands anything out.
LEMMA ReaderMoves ==
    ASSUME OnItsWay, UNCHANGED <<headerVars, senderVars>>, rstage # "done",
           rstage' = "done" => rmap' = NoTable,
           ReaderTyped', HeadRead', EntriesRead', ForeignRead'
    PROVE  OnItsWay'
<1>1. HeadersTypeOK' /\ \A g \in Handles : TableOf(g)' = TableOf(g)
    BY TablesStand DEF OnItsWay, PrefixTypeOK
<1>2. TableOf("prefix") = NoTable /\ TableOf("handler") = NoTable /\ TableOf("job") = NoTable
    BY DEF OnItsWay, TablesKept
<1>3. TableOf("prefix")' = NoTable /\ TableOf("handler")' = NoTable /\ TableOf("job")' = NoTable
    BY <1>1, <1>2, HandleNames
<1>4. Writing' => TableOf("draft")' = wrote'
    BY <1>1, HandleNames DEF OnItsWay, TablesKept, Writing, senderVars
<1>5. TablesKept'
    BY <1>3, <1>4 DEF TablesKept
<1>6. PrefixTypeOK'
    BY <1>1, SenderStands DEF OnItsWay, PrefixTypeOK, ReaderTyped, senderVars
<1>7. QED
    BY <1>5, <1>6, SenderStands DEF OnItsWay

LEMMA FailKeeps ==
    ASSUME OnItsWay, Fail, rstage # "done"
    PROVE  OnItsWay'
<1>1. UNCHANGED <<headerVars, senderVars>> /\ rstage' = "failed"
    BY DEF Fail
<1>2. ReaderTyped'
    BY DEF OnItsWay, PrefixTypeOK, ReaderTyped, Fail, senderVars
<1>3. HeadRead' /\ EntriesRead'
    BY <1>1 DEF HeadRead, EntriesRead
<1>4. ForeignRead'
    BY <1>1 DEF OnItsWay, ForeignRead, senderVars
<1>5. QED
    BY <1>1, <1>2, <1>3, <1>4, ReaderMoves

\* What is next on the wire, and that it is there.
LEMMA NextThere ==
    ASSUME OnItsWay, Arrived(1)
    PROVE  /\ rpos \in Nat /\ Len(wire) \in Nat /\ rpos + 1 \in 1 .. Len(wire)
           /\ Next1 \in WireValues /\ Next1.n \in Nat /\ Next1.s \in Texts
<1>1. /\ rpos \in Nat /\ Len(wire) \in Nat /\ Len(wire) >= rpos + 1 /\ wire \in Seq(WireValues)
    BY DEF OnItsWay, PrefixTypeOK, Arrived
<1>2. rpos + 1 \in 1 .. Len(wire)
    BY <1>1
<1>3. wire[rpos + 1] \in WireValues
    BY <1>1, <1>2
<1>4. QED
    BY <1>1, <1>2, <1>3 DEF Next1, WireValues

LEMMA ReadMethodKeeps ==
    ASSUME OnItsWay, ReadMethod
    PROVE  OnItsWay'
<1>1. CASE ~(Next1.t = "uint" /\ Next1.n \in MethodFromU8)
    BY <1>1, FailKeeps DEF ReadMethod
<1>2. CASE Next1.t = "uint" /\ Next1.n \in MethodFromU8
    <2>1. /\ rstage = "code" /\ rhead.kind = "request" /\ Arrived(1)
          /\ rhead' = [rhead EXCEPT !.code = Next1.n] /\ rstage' = "loc" /\ rpos' = rpos + 1
          /\ UNCHANGED <<headerVars, senderVars>> /\ rleft' = rleft /\ rmap' = rmap
        BY <1>2 DEF ReadMethod
    <2>2. /\ rpos \in Nat /\ Len(wire) \in Nat /\ rpos + 1 \in 1 .. Len(wire) /\ Next1.n \in Nat
          /\ wire' = wire /\ head' = head /\ genuine' = genuine
        BY <2>1, NextThere DEF senderVars
    <2>3. rhead \in [kind : {head.kind}, code : Nat, loc : Texts] /\ head.kind = "request"
        BY <2>1 DEF OnItsWay, PrefixTypeOK
    <2>4. rhead' \in [kind : {head.kind}, code : Nat, loc : Texts] /\ rhead'.code = Next1.n
        BY <2>1, <2>2, <2>3
    <2>5. ReaderTyped'
        BY <2>1, <2>2, <2>4 DEF OnItsWay, PrefixTypeOK, ReaderTyped
    <2>6. genuine => rpos' = 1 /\ rhead'.code = head.code
        <3>1. genuine => rpos = 0
            BY <2>1 DEF OnItsWay, HeadRead
        <3>2. genuine => wire[1] = Uint(head.code)
            BY <2>2 DEF OnItsWay, HeadSent
        <3>3. QED
            BY <2>1, <2>4, <3>1, <3>2, KindsOfValues DEF Next1
    <2>7. HeadRead'
        BY <2>1, <2>2, <2>3, <2>6 DEF HeadRead
    <2>8. EntriesRead'
        BY <2>1 DEF OnItsWay, EntriesRead
    <2>9. ForeignRead'
        BY <2>1 DEF OnItsWay, ForeignRead, senderVars
    <2>10. QED
        BY <2>1, <2>5, <2>7, <2>8, <2>9, ReaderMoves
<1>3. QED
    BY <1>1, <1>2

LEMMA ReadStatusKeeps ==
    ASSUME OnItsWay, ReadStatus
    PROVE  OnItsWay'
<1>1. CASE Next1.t # "uint"
    BY <1>1, FailKeeps DEF ReadStatus
<1>2. CASE Next1.t = "uint"
    <2>1. /\ rstage = "code" /\ rhead.kind = "response" /\ Arrived(1)
          /\ rhead' = [rhead EXCEPT !.code = Next1.n] /\ rstage' = "option" /\ rpos' = rpos + 1
          /\ UNCHANGED <<headerVars, senderVars>> /\ rleft' = rleft /\ rmap' = rmap
        BY <1>2 DEF ReadStatus
    <2>2. /\ rpos \in Nat /\ Len(wire) \in Nat /\ rpos + 1 \in 1 .. Len(wire) /\ Next1.n \in Nat
          /\ wire' = wire /\ head' = head /\ genuine' = genuine
        BY <2>1, NextThere DEF senderVars
    <2>3. rhead \in [kind : {head.kind}, code : Nat, loc : Texts] /\ head.kind = "response"
        BY <2>1 DEF OnItsWay, PrefixTypeOK
    <2>4. /\ rhead' \in [kind : {head.kind}, code : Nat, loc : Texts]
          /\ rhead' = [kind |-> head.kind, code |-> Next1.n, loc |-> rhead.loc]
        BY <2>1, <2>2, <2>3
    <2>5. ReaderTyped'
        BY <2>1, <2>2, <2>4 DEF OnItsWay, PrefixTypeOK, ReaderTyped
    <2>6. ASSUME genuine PROVE rpos' = 1 /\ rhead' = head
        <3>1. rpos = 0 /\ rhead.loc = NoText
            BY <2>1, <2>6 DEF OnItsWay, HeadRead
        <3>2. wire[1] = Uint(head.code)
            BY <2>2, <2>6 DEF OnItsWay, HeadSent
        <3>3. head = [kind |-> head.kind, code |-> head.code, loc |-> NoText]
            BY <2>3, HeadTyped DEF OnItsWay, PrefixTypeOK
        <3>r. rpos + 1 = 1
            BY <2>2, <3>1
        <3>4. Next1 = wire[1]
            BY <3>r DEF Next1
        <3>5. Next1.n = head.code
            BY <3>2, <3>4, KindsOfValues
        <3>6. QED
            BY <2>1, <2>4, <3>1, <3>r, <3>3, <3>5
    <2>a. HeadLen' = 1
        BY <2>2, <2>3 DEF HeadLen
    <2>7. HeadRead'
        BY <2>1, <2>2, <2>a, <2>6 DEF HeadRead
    <2>8. EntriesRead'
        BY <2>1 DEF OnItsWay, EntriesRead
    <2>9. ForeignRead'
        BY <2>1 DEF OnItsWay, ForeignRead, senderVars
    <2>10. QED
        BY <2>1, <2>5, <2>7, <2>8, <2>9, ReaderMoves
<1>3. QED
    BY <1>1, <1>2

LEMMA ReadLocationKeeps ==
    ASSUME OnItsWay, ReadLocation
    PROVE  OnItsWay'
<1>1. CASE Next1.t # "text"
    BY <1>1, FailKeeps DEF ReadLocation
<1>2. CASE Next1.t = "text"
    <2>1. /\ rstage = "loc" /\ Arrived(1)
          /\ rhead' = [rhead EXCEPT !.loc = Next1.s] /\ rstage' = "option" /\ rpos' = rpos + 1
          /\ UNCHANGED <<headerVars, senderVars>> /\ rleft' = rleft /\ rmap' = rmap
        BY <1>2 DEF ReadLocation
    <2>2. /\ rpos \in Nat /\ Len(wire) \in Nat /\ rpos + 1 \in 1 .. Len(wire) /\ Next1.s \in Texts
          /\ wire' = wire /\ head' = head /\ genuine' = genuine
        BY <2>1, NextThere DEF senderVars
    <2>3. rhead \in [kind : {head.kind}, code : Nat, loc : Texts]
        BY DEF OnItsWay, PrefixTypeOK
    <2>4. /\ rhead' \in [kind : {head.kind}, code : Nat, loc : Texts]
          /\ rhead' = [kind |-> head.kind, code |-> rhead.code, loc |-> Next1.s]
        BY <2>1, <2>2, <2>3
    <2>5. ReaderTyped'
        BY <2>1, <2>2, <2>4 DEF OnItsWay, PrefixTypeOK, ReaderTyped
    <2>6. ASSUME genuine PROVE rpos' = 2 /\ rhead' = head /\ HeadLen' = 2
        <3>1. rpos = 1 /\ head.kind = "request" /\ rhead.code = head.code
            BY <2>1, <2>6 DEF OnItsWay, HeadRead
        <3>2. Next1 = Text(head.loc)
            BY <2>2, <2>6, <3>1 DEF OnItsWay, HeadSent, Next1
        <3>3. head = [kind |-> head.kind, code |-> head.code, loc |-> head.loc]
            BY HeadTyped DEF OnItsWay, PrefixTypeOK
        <3>4. Next1.s = head.loc
            BY <3>2, KindsOfValues
        <3>5. HeadLen' = 2
            BY <2>2, <3>1 DEF HeadLen
        <3>6. QED
            BY <2>1, <2>4, <3>1, <3>3, <3>4, <3>5
    <2>7. HeadRead'
        BY <2>1, <2>2, <2>6 DEF HeadRead
    <2>8. EntriesRead'
        BY <2>1 DEF OnItsWay, EntriesRead
    <2>9. ForeignRead'
        BY <2>1 DEF OnItsWay, ForeignRead, senderVars
    <2>10. QED
        BY <2>1, <2>5, <2>7, <2>8, <2>9, ReaderMoves
<1>3. QED
    BY <1>1, <1>2

LEMMA ReadOptionKeeps ==
    ASSUME OnItsWay, ReadOption
    PROVE  OnItsWay'
<1>. rstage = "option" /\ Arrived(1) /\ DecodeOption
    BY DEF ReadOption
<1>1. /\ rpos \in Nat /\ Len(wire) \in Nat /\ rpos + 1 \in 1 .. Len(wire) /\ Next1.n \in Nat
      /\ rhead \in [kind : {head.kind}, code : Nat, loc : Texts] /\ rleft \in Nat
      /\ rmap = NoTable
    BY NextThere DEF OnItsWay, PrefixTypeOK, EntriesRead
<1>2. ASSUME genuine
      PROVE  /\ rhead = head /\ rpos = HeadLen /\ Next1 = OptionValue(wrote)
             /\ HeadLen \in {1, 2} /\ Cardinality(KeysOf(wrote)) \in Nat
    <2>1. rhead = head /\ rpos = HeadLen
        BY <1>2 DEF OnItsWay, HeadRead
    <2>2. Len(wire) > HeadLen
        BY <1>1, <2>1
    <2>3. wire[HeadLen + 1] = OptionValue(wrote)
        BY <1>2, <2>2 DEF OnItsWay, MapSent
    <2>4. QED
        BY <2>1, <2>3, KeysFinite DEF OnItsWay, Next1
<1>3. CASE Next1.t = "nil"
    <2>1. /\ rstage' = "done" /\ rpos' = rpos + 1 /\ UNCHANGED <<headerVars, senderVars>>
          /\ rhead' = rhead /\ rleft' = rleft /\ rmap' = rmap
        BY <1>3 DEF DecodeOption
    <2>2. wire' = wire /\ head' = head /\ genuine' = genuine /\ wrote' = wrote
        BY <2>1 DEF senderVars
    <2>3. ReaderTyped'
        BY <1>1, <2>1, <2>2 DEF ReaderTyped
    <2>4. HeadRead'
        BY <1>2, <2>1, <2>2 DEF HeadRead
    <2>5. ASSUME genuine PROVE rpos' = PrefixEnd /\ wrote = NoTable
        <3>1. wrote = NoTable
            BY <1>2, <1>3, <2>5, KindsOfValues DEF OptionValue
        <3>2. Cardinality(KeysOf(wrote)) = 0
            BY <3>1, FS_EmptySet DEF KeysOf
        <3>3. QED
            BY <1>2, <2>1, <2>5, <3>1, <3>2 DEF PrefixEnd
    <2>6. EntriesRead'
        BY <1>1, <2>1, <2>2, <2>5, SenderStands DEF EntriesRead
    <2>7. ForeignRead'
        BY <2>1 DEF OnItsWay, ForeignRead, senderVars
    <2>8. QED
        BY <1>1, <2>1, <2>3, <2>4, <2>6, <2>7, ReaderMoves
<1>4. CASE Next1.t = "map"
    <2>1. /\ rstage' = "entries" /\ rpos' = rpos + 1 /\ UNCHANGED <<headerVars, senderVars>>
          /\ rhead' = rhead /\ rleft' = Next1.n /\ rmap' = EmptyTable
        BY <1>4 DEF DecodeOption
    <2>2. wire' = wire /\ head' = head /\ genuine' = genuine /\ wrote' = wrote
        BY <2>1 DEF senderVars
    <2>3. ReaderTyped'
        BY <1>1, <2>1, <2>2, HandleNames DEF ReaderTyped
    <2>4. HeadRead'
        BY <1>2, <2>1, <2>2 DEF HeadRead
    <2>5. ASSUME genuine
          PROVE  /\ wrote # NoTable /\ rpos' = PrefixEnd - 2 * rleft' /\ rpos' > HeadLen
                 /\ Cardinality(KeysOf(wrote)) - rleft' = 0
        <3>1. wrote # NoTable
            BY <1>2, <1>4, <2>5, KindsOfValues DEF OptionValue
        <3>2. rleft' = Cardinality(KeysOf(wrote))
            BY <1>2, <2>1, <2>5, <3>1, KindsOfValues DEF OptionValue, KeysOf
        <3>3. QED
            BY <1>2, <2>1, <2>5, <3>1, <3>2 DEF PrefixEnd
    <2>6. EntriesRead'
        <3>1. rmap' # NoTable /\ DOMAIN rmap' = {}
            BY <2>1, HandleNames DEF EmptyTable
        <3>2. 1 .. 0 = {}
            OBVIOUS
        <3>3. SUFFICES ASSUME genuine
              PROVE  /\ wrote' # NoTable /\ rpos' = PrefixEnd' - 2 * rleft' /\ rpos' > HeadLen'
                     /\ DOMAIN rmap' = { KeyAt(i)'.s : i \in 1 .. Cardinality(KeysOf(wrote)') - rleft' }
                     /\ \A k \in DOMAIN rmap' : k \in DOMAIN wrote' /\ rmap'[k] = wrote'[k]
            BY <2>1, <2>2, <3>1 DEF EntriesRead
        <3>4. 1 .. Cardinality(KeysOf(wrote)') - rleft' = {}
            BY <2>1, <2>5, <3>2, <3>3, SenderStands
        <3>5. QED
            BY <2>1, <2>2, <2>5, <3>1, <3>3, <3>4, SenderStands
    <2>7. ForeignRead'
        <3>1. SUFFICES ASSUME ~genuine
              PROVE  /\ wstage' = "done"
                     /\ \E seq \in Foreign :
                           /\ wire' = Append(seq, BodyValue)
                           /\ \E m \in DOMAIN seq, j \in 0 .. Len(seq) : seq[m].t = "map" /\ rpos' = m + 2 * j
            BY <2>1, <2>2 DEF ForeignRead
        <3>2. PICK seq \in Foreign : wire = Append(seq, BodyValue)
            BY <3>1 DEF OnItsWay, ForeignRead
        <3>s. seq \in Seq(WireValues)
            BY PrefixAssumption
        <3>3. seq \in Seq(WireValues) /\ Len(seq) \in Nat /\ BodyValue \in WireValues
            BY <3>s, ValuesTyped
        <3>4. /\ Len(wire) = Len(seq) + 1 /\ wire[Len(seq) + 1] = BodyValue
              /\ \A i \in 1 .. Len(seq) : wire[i] = seq[i]
            BY <3>2, <3>3, AppendIs
        <3>5. wire[rpos + 1].t = "map" /\ wire[Len(seq) + 1].t = "body"
            BY <1>4, <3>4, KindsOfValues DEF Next1
        <3>6. rpos + 1 # Len(seq) + 1
            BY <3>5
        <3>7. rpos + 1 \in 1 .. Len(seq)
            BY <1>1, <3>3, <3>4, <3>6
        <3>8. rpos + 1 \in DOMAIN seq /\ 0 \in 0 .. Len(seq) /\ seq[rpos + 1].t = "map" /\ rpos' = rpos + 1 + 2 * 0
            BY <1>1, <2>1, <3>3, <3>4, <3>5, <3>7
        <3>9. wstage' = "done"
            BY <2>1, <3>1 DEF OnItsWay, ForeignRead, senderVars
        <3>10. QED
            BY <2>2, <3>2, <3>8, <3>9
    <2>8. QED
        BY <2>1, <2>3, <2>4, <2>6, <2>7, ReaderMoves
<1>5. CASE Next1.t # "nil" /\ Next1.t # "map"
    BY <1>5, FailKeeps DEF DecodeOption
<1>6. QED
    BY <1>3, <1>4, <1>5

LEMMA ReadEntryKeeps ==
    ASSUME OnItsWay, ReadEntry
    PROVE  OnItsWay'
<1>. DEFINE k == Next1.s
            v == Next2.v
            c == Cardinality(KeysOf(wrote)) - rleft
<1>1. rstage = "entries" /\ rleft > 0 /\ Arrived(2)
    BY DEF ReadEntry
<1>2. /\ rpos \in Nat /\ Len(wire) \in Nat /\ rpos + 2 <= Len(wire) /\ rleft \in Nat /\ rleft - 1 \in Nat
      /\ rmap \in Tables /\ rmap # NoTable
    BY <1>1 DEF OnItsWay, PrefixTypeOK, EntriesRead, Arrived
<1>3. CASE ~(Decodable(Next1) /\ Decodable(Next2))
    BY <1>1, <1>3, FailKeeps DEF ReadEntry
<1>4. CASE Decodable(Next1) /\ Decodable(Next2)
    <2>1. /\ rmap' = Insert(rmap, k, v) /\ rleft' = rleft - 1 /\ rpos' = rpos + 2
          /\ UNCHANGED <<headerVars, senderVars>> /\ rstage' = "entries" /\ rhead' = rhead
        BY <1>1, <1>4 DEF ReadEntry
    <2>2. wire' = wire /\ head' = head /\ genuine' = genuine /\ wrote' = wrote /\ wstage' = wstage
        BY <2>1 DEF senderVars
    <2>3. DOMAIN rmap' = DOMAIN rmap \cup {k} /\ \A x \in DOMAIN rmap' : rmap'[x] = IF x = k THEN v ELSE rmap[x]
        BY <2>1 DEF Insert
    <2>4. ASSUME genuine
          PROVE  /\ rpos = HeadLen + 1 + 2 * c /\ c \in Nat /\ c + 1 \in 1 .. Sent
                 /\ Next1 = KeyAt(c + 1) /\ Next2 = ValAt(c + 1)
                 /\ k \in KeysOf(wrote) /\ v = wrote[k] /\ wrote # NoTable
        <3>1. /\ wrote # NoTable /\ rpos = PrefixEnd - 2 * rleft /\ rpos > HeadLen
            BY <1>1, <2>4 DEF OnItsWay, EntriesRead
        <3>2. /\ HeadLen \in {1, 2} /\ Cardinality(KeysOf(wrote)) \in Nat /\ Sent \in Nat
            BY KeysFinite DEF OnItsWay
        <3>3. rpos = HeadLen + 1 + 2 * c /\ c \in Nat
            <4>1. PICK n \in Nat : n = Cardinality(KeysOf(wrote))
                BY <3>2
            <4>2. rpos = HeadLen + 1 + 2 * n - 2 * rleft /\ c = n - rleft
                BY <1>2, <3>1, <3>2, <4>1 DEF PrefixEnd
            <4>. HIDE DEF c
            <4>3. QED
                BY <1>2, <3>1, <3>2, <4>2
        <3>4. Len(wire) <= HeadLen + 2 + 2 * Sent
            <4>1. Len(wire) > HeadLen
                BY <1>2, <3>1, <3>2
            <4>2. Len(wire) \in SentEnd .. SentEnd + 1
                BY <2>4, <4>1 DEF OnItsWay, MapSent
            <4>3. QED
                BY <3>2, <4>2 DEF SentEnd
        <3>. HIDE DEF c
        <3>5. c + 1 \in 1 .. Sent
            BY <1>2, <3>2, <3>3, <3>4
        <3>6. rpos + 1 = HeadLen + 2 * (c + 1) /\ rpos + 2 = HeadLen + 2 * (c + 1) + 1
            BY <3>2, <3>3
        <3>7. Next1 = KeyAt(c + 1) /\ Next2 = ValAt(c + 1)
            BY <3>6 DEF Next1, Next2, KeyAt, ValAt
        <3>8. /\ KeyAt(c + 1).s \in KeysOf(wrote)
              /\ ValAt(c + 1) = EncodeVal(wrote[KeyAt(c + 1).s])
            <4>1. Len(wire) > HeadLen
                BY <1>2, <3>1, <3>2
            <4>2. QED
                BY <2>4, <3>5, <4>1 DEF OnItsWay, MapSent
        <3>9. QED
            BY <3>1, <3>3, <3>5, <3>7, <3>8, KindsOfValues
    <2>5. ASSUME ~genuine
          PROVE  /\ k \in Keys /\ v \in Vals /\ wstage = "done"
                 /\ \E seq \in Foreign :
                       /\ wire = Append(seq, BodyValue)
                       /\ \E m \in DOMAIN seq, j \in 0 .. Len(seq) : seq[m].t = "map" /\ rpos + 2 = m + 2 * j
        <3>1. PICK seq \in Foreign :
                 /\ wire = Append(seq, BodyValue)
                 /\ \E m \in DOMAIN seq, j \in 0 .. Len(seq) : seq[m].t = "map" /\ rpos = m + 2 * j
            BY <1>1, <2>5 DEF OnItsWay, ForeignRead
        <3>2. PICK m \in DOMAIN seq, j \in 0 .. Len(seq) : seq[m].t = "map" /\ rpos = m + 2 * j
            BY <3>1
        <3>s. seq \in Seq(WireValues)
            BY PrefixAssumption
        <3>l. Len(seq) \in Nat /\ DOMAIN seq = 1 .. Len(seq)
            BY <3>s
        <3>3. seq \in Seq(WireValues) /\ Len(seq) \in Nat /\ BodyValue \in WireValues /\ m \in Nat /\ m >= 1 /\ j \in Nat
            BY <3>s, <3>l, ValuesTyped
        <3>4. /\ Len(wire) = Len(seq) + 1 /\ wire[Len(seq) + 1] = BodyValue
              /\ \A i \in 1 .. Len(seq) : wire[i] = seq[i]
            BY <3>1, <3>3, AppendIs
        <3>5. rpos + 2 # Len(seq) + 1
            BY <1>4, <3>4, KindsOfValues DEF Next2, Decodable
        <3>6. rpos + 1 \in 1 .. Len(seq) /\ rpos + 2 \in 1 .. Len(seq)
            BY <1>2, <3>3, <3>4, <3>5
        <3>7. Next1 = seq[m + 2 * j + 1] /\ Next2 = seq[m + 2 * j + 1 + 1] /\ m + 2 * j + 1 < Len(seq)
            <4>0. rpos + 1 < Len(seq)
                BY <1>2, <3>3, <3>6
            <4>1. Next1 = seq[rpos + 1] /\ Next2 = seq[rpos + 2] /\ rpos + 1 < Len(seq)
                BY <4>0, <3>4, <3>6 DEF Next1, Next2
            <4>2. rpos + 1 = m + 2 * j + 1 /\ rpos + 2 = m + 2 * j + 1 + 1
                BY <3>2, <3>3
            <4>3. QED
                BY <4>1, <4>2
        <3>8. k \in Keys /\ v \in Vals
            BY <1>4, <3>2, <3>7, PrefixAssumption DEF ForeignMaps
        <3>9. j + 1 \in 0 .. Len(seq) /\ rpos + 2 = m + 2 * (j + 1)
            BY <3>2, <3>3, <3>6, SMTT(30)
        <3>10. wstage = "done"
            BY <2>5 DEF OnItsWay, ForeignRead
        <3>11. QED
            BY <3>1, <3>2, <3>8, <3>9, <3>10
    <2>6. k \in Keys /\ v \in Vals
        <3>1. CASE genuine
            <4>1. k \in KeysOf(wrote) /\ v = wrote[k] /\ wrote # NoTable
                BY <2>4, <3>1
            <4>2. QED
                BY <4>1, KeysFinite DEF OnItsWay, PrefixTypeOK, KeysOf, Tables
        <3>2. QED
            BY <2>5, <3>1
    <2>7. rmap' \in Tables
        BY <1>2, <2>1, <2>6, EditedTables
    <2>8. ReaderTyped'
        <3>1. rhead' \in [kind : {head'.kind}, code : Nat, loc : Texts]
            BY <2>1, <2>2 DEF OnItsWay, PrefixTypeOK
        <3>2. rpos' \in 0 .. Len(wire') /\ rleft' \in Nat
            BY <1>2, <2>1, <2>2
        <3>3. QED
            BY <2>1, <2>7, <3>1, <3>2 DEF ReaderTyped
    <2>9. HeadRead'
        BY <1>1, <2>1, <2>2 DEF OnItsWay, HeadRead
    <2>10. EntriesRead'
        <3>1. rmap' # NoTable
            BY <2>7, HandleNames
        <3>2. SUFFICES ASSUME genuine
              PROVE  /\ wrote' # NoTable /\ rpos' = PrefixEnd' - 2 * rleft' /\ rpos' > HeadLen'
                     /\ DOMAIN rmap' = { KeyAt(i)'.s : i \in 1 .. Cardinality(KeysOf(wrote)') - rleft' }
                     /\ \A x \in DOMAIN rmap' : x \in DOMAIN wrote' /\ rmap'[x] = wrote'[x]
            BY <2>1, <2>2, <3>1 DEF EntriesRead
        <3>3. /\ HeadLen' = HeadLen /\ PrefixEnd' = PrefixEnd /\ KeysOf(wrote)' = KeysOf(wrote)
              /\ \A i : KeyAt(i)' = KeyAt(i)
            BY <2>1, SenderStands
        <3>4. /\ wrote # NoTable /\ rpos = PrefixEnd - 2 * rleft /\ rpos > HeadLen
              /\ DOMAIN rmap = { KeyAt(i).s : i \in 1 .. c }
              /\ \A x \in DOMAIN rmap : x \in DOMAIN wrote /\ rmap[x] = wrote[x]
            BY <1>1, <3>2 DEF OnItsWay, EntriesRead
        <3>5. /\ PrefixEnd \in Nat /\ HeadLen \in Nat /\ Cardinality(KeysOf(wrote)) \in Nat /\ c \in Nat
            BY <2>4, <3>2, KeysFinite DEF OnItsWay, PrefixEnd
        <3>6. rpos' = PrefixEnd' - 2 * rleft' /\ rpos' > HeadLen'
            BY <1>2, <2>1, <3>3, <3>4, <3>5, SMTT(30)
        <3>7. Cardinality(KeysOf(wrote)') - rleft' = c + 1
            BY <1>2, <2>1, <3>3, <3>5
        <3>8. k = KeyAt(c + 1).s /\ k \in DOMAIN wrote /\ v = wrote[k]
            BY <2>4, <3>2 DEF KeysOf
        <3>. HIDE DEF c, k, v
        <3>9. \A x \in DOMAIN rmap' : x \in DOMAIN wrote' /\ rmap'[x] = wrote'[x]
            BY <2>2, <2>3, <3>4, <3>8
        <3>10. DOMAIN rmap' = { KeyAt(i)'.s : i \in 1 .. c + 1 }
            <4>1. { KeyAt(i)'.s : i \in 1 .. c + 1 } = { KeyAt(i).s : i \in 1 .. c + 1 }
                BY <3>3
            <4>2. { KeyAt(i).s : i \in 1 .. c + 1 } = { KeyAt(i).s : i \in 1 .. c } \cup { KeyAt(c + 1).s }
                <5>1. 1 .. c + 1 = (1 .. c) \cup {c + 1}
                    BY <3>5
                <5>2. QED
                    BY <5>1
            <4>3. QED
                BY <2>3, <3>4, <3>8, <4>1, <4>2
        <3>11. QED
            BY <2>2, <3>4, <3>6, <3>7, <3>9, <3>10
    <2>11. ForeignRead'
        BY <2>1, <2>2, <2>5 DEF ForeignRead
    <2>12. QED
        BY <1>1, <2>1, <2>8, <2>9, <2>10, <2>11, ReaderMoves
<1>5. QED
    BY <1>3, <1>4

LEMMA ReadHeadersEndKeeps ==
    ASSUME OnItsWay, ReadHeadersEnd
    PROVE  OnItsWay'
<1>1. /\ rstage = "entries" /\ rleft = 0 /\ Allocate("prefix", rmap) /\ rstage' = "done"
      /\ UNCHANGED senderVars /\ rpos' = rpos /\ rhead' = rhead /\ rleft' = rleft /\ rmap' = rmap
    BY DEF ReadHeadersEnd
<1>2. rmap \in Tables /\ rmap # NoTable
    BY <1>1 DEF OnItsWay, PrefixTypeOK, EntriesRead
<1>3. Only("prefix", rmap)
    BY <1>1, <1>2, AllocateOnly, HandleNames DEF OnItsWay, PrefixTypeOK
<1>4. HeadersTypeOK' /\ \A g \in Handles : TableOf(g)' = IF g = "prefix" THEN rmap ELSE TableOf(g)
    BY <1>3 DEF Only
<1>5. TableOf("prefix")' = rmap /\ TableOf("handler")' = NoTable /\ TableOf("job")' = NoTable
    BY <1>1, <1>4, HandleNames DEF OnItsWay, TablesKept
<1>6. Writing' => TableOf("draft")' = wrote'
    BY <1>1, <1>4, HandleNames DEF OnItsWay, TablesKept, Writing, senderVars
<1>7. TablesKept'
    BY <1>1, <1>5, <1>6 DEF TablesKept
<1>8. PrefixTypeOK'
    BY <1>1, <1>4, SenderStands DEF OnItsWay, PrefixTypeOK, senderVars
<1>9. HeadRead'
    BY <1>1 DEF OnItsWay, HeadRead, senderVars
<1>10. ASSUME genuine PROVE rpos = PrefixEnd /\ rmap = wrote
    <2>1. /\ wrote # NoTable /\ rpos = PrefixEnd - 2 * rleft
          /\ DOMAIN rmap = { KeyAt(i).s : i \in 1 .. Cardinality(KeysOf(wrote)) - rleft }
          /\ \A k \in DOMAIN rmap : k \in DOMAIN wrote /\ rmap[k] = wrote[k]
        BY <1>1, <1>10 DEF OnItsWay, EntriesRead
    <2>2. PrefixEnd \in Nat /\ Cardinality(KeysOf(wrote)) \in Nat
        BY KeysFinite DEF OnItsWay, PrefixEnd
    <2>3. /\ rpos = PrefixEnd
          /\ DOMAIN rmap = { KeyAt(i).s : i \in 1 .. Cardinality(KeysOf(wrote)) }
        BY <1>1, <2>1, <2>2
    <2>4. Len(wire) >= PrefixEnd
        BY <2>3 DEF OnItsWay, PrefixTypeOK
    <2>5. wkeys = {} /\ Sent = Cardinality(KeysOf(wrote)) /\ Len(wire) > HeadLen
        BY <1>10, <2>4, AllSent DEF OnItsWay
    <2>6. \A k \in KeysOf(wrote) : \E i \in 1 .. Sent : KeyAt(i).s = k
        BY <1>10, <2>5 DEF OnItsWay, MapSent
    <2>7. DOMAIN rmap = DOMAIN wrote
        BY <2>1, <2>3, <2>5, <2>6 DEF KeysOf
    <2>8. wrote \in Tables
        BY <2>1 DEF OnItsWay, PrefixTypeOK
    <2>9. rmap = [k \in DOMAIN rmap |-> rmap[k]] /\ wrote = [k \in DOMAIN wrote |-> wrote[k]]
        BY <1>2, <2>8 DEF Tables
    <2>10. rmap = wrote
        BY <2>1, <2>7, <2>9
    <2>11. QED
        BY <2>3, <2>10
<1>11. EntriesRead'
    BY <1>1, <1>10, SenderStands DEF EntriesRead, senderVars
<1>12. ForeignRead'
    BY <1>1 DEF OnItsWay, ForeignRead, senderVars
<1>13. QED
    BY <1>1, <1>7, <1>8, <1>9, <1>11, <1>12, SenderStands DEF OnItsWay

LEMMA HandlerHeadersKeeps ==
    ASSUME OnItsWay, HandlerHeaders
    PROVE  OnItsWay' /\ TableOf("handler") = NoTable /\ reply' = reply /\ \E t \in Tables : Only("handler", t)
<1>1. HeadersTypeOK /\ rstage = "done" /\ TableOf("prefix") = rmap /\ UNCHANGED <<senderVars, readerVars>>
    BY DEF OnItsWay, PrefixTypeOK, TablesKept, HandlerHeaders
<1>2. CASE Holds("prefix")
    <2>1. CloneHandle("prefix", "handler")
        BY <1>2 DEF HandlerHeaders
    <2>2. /\ Only("handler", Table("prefix")) /\ TableOf("handler") = NoTable /\ reply' = reply
          /\ Table("prefix") \in Tables /\ Table("prefix") = rmap
        BY <1>1, <2>1, CloneOnly, HandleNames
    <2>3. Table("prefix") = Decoded
        BY <2>2, HandleNames DEF Decoded
    <2>4. QED
        BY <1>1, <2>2, <2>3, OneTableKeeps, HandleNames
<1>3. CASE ~Holds("prefix")
    <2>1. Allocate("handler", EmptyTable)
        BY <1>3 DEF HandlerHeaders
    <2>2. Only("handler", EmptyTable) /\ TableOf("handler") = NoTable /\ reply' = reply
        BY <1>1, <2>1, AllocateOnly, HandleNames
    <2>3. EmptyTable = Decoded
        BY <1>1, <1>3 DEF Decoded, TableOf
    <2>4. QED
        BY <1>1, <2>2, <2>3, OneTableKeeps, HandleNames
<1>4. QED
    BY <1>2, <1>3

LEMMA JobHeadersKeeps ==
    ASSUME OnItsWay, JobHeaders
    PROVE  OnItsWay' /\ TableOf("job") = NoTable /\ reply' = reply /\ \E t \in Tables : Only("job", t)
<1>1. HeadersTypeOK /\ CloneHandle("handler", "job") /\ UNCHANGED <<senderVars, readerVars>>
    BY DEF OnItsWay, PrefixTypeOK, JobHeaders
<1>2. /\ Only("job", Table("handler")) /\ TableOf("job") = NoTable /\ reply' = reply
      /\ Table("handler") \in Tables /\ Table("handler") = TableOf("handler")
    BY <1>1, CloneOnly, HandleNames
<1>3. TableOf("handler") = Decoded /\ TableOf("handler") # NoTable
    BY <1>2, HandleNames DEF OnItsWay, TablesKept
<1>4. QED
    BY <1>1, <1>2, <1>3, OneTableKeeps, HandleNames

\* Whoever may edit a table edits one that nobody reads from.
LEMMA EditHeadersKeeps ==
    ASSUME OnItsWay, EditHeaders
    PROVE  OnItsWay' /\ Values!Next
<1>1. PICK h \in Handles, k \in Keys :
         /\ MayEdit(h)
         /\ \/ \E v \in EditVals : SetHeader(h, k, v)
            \/ RemoveKey(h, k)
            \/ h = "spare" /\ (TryAddHeader(h, k) \/ AddOrSetHeader(h, k) \/ RemoveHeader(h, k))
    BY DEF EditHeaders
<1>2. HeadersTypeOK /\ UNCHANGED <<senderVars, readerVars>> /\ EditVals \subseteq Vals
    BY PrefixAssumption DEF OnItsWay, PrefixTypeOK, EditHeaders
<1>3. Values!Next
    BY <1>1, <1>2, EditStep DEF Spends
<1>4. \E t : Only(h, t) /\ (h = "spare" \/ t # NoTable)
    <2>1. CASE \E v \in EditVals : SetHeader(h, k, v)
        BY <1>2, <2>1, SetOnly, HandleNames
    <2>2. CASE RemoveKey(h, k)
        BY <1>2, <2>2, RemoveOnly, HandleNames
    <2>3. CASE h = "spare" /\ Spends(h, k)
        BY <1>2, <2>3, SpendOnly
    <2>4. QED
        BY <1>1, <2>1, <2>2, <2>3 DEF Spends
<1>5. h = "handler" => TableOf("job") # NoTable
    BY <1>1, <1>2, TableOfType, HandleNames DEF MayEdit
<1>6. OnItsWay'
    BY <1>1, <1>2, <1>4, <1>5, OneTableKeeps DEF MayEdit
<1>7. QED
    BY <1>3, <1>6

LEMMA CloneDraftKeeps ==
    ASSUME OnItsWay, CloneDraft
    PROVE  OnItsWay' /\ TableOf("spare") = NoTable /\ reply' = reply /\ \E t \in Tables : Only("spare", t)
<1>1. HeadersTypeOK /\ CloneHandle("draft", "spare") /\ UNCHANGED <<senderVars, readerVars>>
    BY DEF OnItsWay, PrefixTypeOK, CloneDraft
<1>2. /\ Only("spare", Table("draft")) /\ TableOf("spare") = NoTable /\ reply' = reply
      /\ Table("draft") \in Tables
    BY <1>1, CloneOnly, HandleNames
<1>3. QED
    BY <1>1, <1>2, OneTableKeeps, HandleNames

LEMMA DropSpareKeeps ==
    ASSUME OnItsWay, DropSpare
    PROVE  OnItsWay' /\ Values!Next
<1>1. HeadersTypeOK /\ DropHandle("spare") /\ UNCHANGED <<senderVars, readerVars>>
    BY DEF OnItsWay, PrefixTypeOK, DropSpare
<1>2. Only("spare", NoTable)
    BY <1>1, DropOnly, HandleNames
<1>3. QED
    BY <1>1, <1>2, DropStep, OneTableKeeps, HandleNames

-----------------------------------------------------------------------------
(* The theorems.                                                           *)

LEMMA InitOnItsWay ==
    ASSUME Init
    PROVE  OnItsWay
<1>1. /\ head \in Heads /\ genuine = TRUE /\ wrote = NoTable /\ wstage = "draft" /\ wkeys = {} /\ wire = <<>>
      /\ rstage = "code" /\ rpos = 0 /\ rhead = [kind |-> head.kind, code |-> 0, loc |-> NoText]
      /\ rleft = 0 /\ rmap = NoTable
    BY DEF Init
<1>2. HeadersTypeOK /\ \A h \in Handles : TableOf(h) = NoTable
    BY HandleNames DEF Init, HeadersTypeOK, TableOf, Holds
<1>3. NoText \in Texts /\ HeadLen \in {1, 2}
    BY PrefixAssumption DEF HeadLen
<1>4. rhead \in [kind : {head.kind}, code : Nat, loc : Texts]
    BY <1>1, <1>3
<1>5. PrefixTypeOK
    BY <1>1, <1>2, <1>4 DEF PrefixTypeOK
<1>6. HeadSent /\ MapSent
    BY <1>1, <1>3 DEF HeadSent, MapSent
<1>7. HeadRead /\ EntriesRead /\ ForeignRead
    BY <1>1 DEF HeadRead, EntriesRead, ForeignRead
<1>8. TablesKept
    BY <1>1, <1>2, HandleNames DEF TablesKept, Writing
<1>9. QED
    BY <1>5, <1>6, <1>7, <1>8 DEF OnItsWay

LEMMA NextOnItsWay ==
    ASSUME OnItsWay, [Next]_vars
    PROVE  OnItsWay'
<1>1. CASE Sender
    BY <1>1, GetHeadersKeeps, StartWriteKeeps, EncodeCodeKeeps, EncodeLocationKeeps, EncodeOptionKeeps,
       EncodeNextKeyKeeps, EncodeItsValKeeps, WriteDoneKeeps, WriteCutKeeps, ForeignPrefixKeeps
       DEF Sender, Encode
<1>2. CASE Decode
    BY <1>2, ReadMethodKeeps, ReadStatusKeeps, ReadLocationKeeps, ReadOptionKeeps, ReadEntryKeeps,
       ReadHeadersEndKeeps DEF Decode
<1>3. CASE ReadClosed \/ ReadCancelled
    BY <1>3, FailKeeps DEF ReadClosed, ReadCancelled, Waiting, Ended
<1>4. CASE HandlerHeaders \/ JobHeaders \/ EditHeaders \/ CloneDraft \/ DropSpare
    BY <1>4, HandlerHeadersKeeps, JobHeadersKeeps, EditHeadersKeeps, CloneDraftKeeps, DropSpareKeeps
<1>5. CASE UNCHANGED vars
    <2>1. UNCHANGED <<headerVars, senderVars, readerVars>>
        BY <1>5 DEF vars
    <2>2. HeadersTypeOK' /\ TablesKept'
        BY <2>1, SenderTables DEF OnItsWay, TablesKept, Writing, senderVars
    <2>3. QED
        BY <2>1, <2>2, OthersKeep
<1>6. QED
    BY <1>1, <1>2, <1>3, <1>4, <1>5 DEF Next, Receiver

LEMMA AlwaysOnItsWay == Spec => []OnItsWay
<1>1. Init => OnItsWay
    BY InitOnItsWay
<1>2. OnItsWay /\ [Next]_vars => OnItsWay'
    BY NextOnItsWay
<1>3. QED
    BY <1>1, <1>2, PTL DEF Spec

(***************************************************************************)
(* What is decoded is what was written, with not a value more consumed, at *)
(* every stage of either end (write_*_prefix_async_, read_*_prefix_async_, *)
(* encode_headers_async_, decode_headers_map_async_), for any tables, keys *)
(* and streams of other implementations, and however the prefix is cut.    *)
(***************************************************************************)
THEOREM PrefixCorrect == Spec => []PrefixInv
<1>1. OnItsWay => PrefixInv
    BY WholeArrives DEF OnItsWay, PrefixInv
<1>2. QED
    BY <1>1, AlwaysOnItsWay, PTL

\* A plain declaration means the same body to a session and to a worker.
LEMMA PlainPlans ==
    ASSUME NEW t, Plain(t)
    PROVE  DecodePlan(t) = BodyInfo(t)
<1>1. CASE "Body_Size" \in DOMAIN t
    <2>1. AsU64(t["Body_Size"]) = t["Body_Size"].n /\ AsDecimal(t["Body_Size"]) = t["Body_Size"].n
        BY <1>1 DEF Plain, AsU64, AsDecimal
    <2>2. ~IsChunked(t)
        BY <1>1 DEF Plain, IsChunked
    <2>3. QED
        BY <1>1, <2>1, <2>2 DEF DecodePlan, BodyInfo, BodySize
<1>2. CASE "Body_Size" \notin DOMAIN t
    BY <1>2 DEF DecodePlan, BodyInfo, BodySize
<1>3. QED
    BY <1>1, <1>2

LEMMA EmptyPlan == DecodePlan(EmptyTable) = Absent
<1>1. DOMAIN EmptyTable = {}
    BY DEF EmptyTable
<1>2. QED
    BY <1>1 DEF DecodePlan, IsChunked, BodySize

(***************************************************************************)
(* Both ends derive the same body from a prefix (TrMsgPrefix::body_info,   *)
(* decode_call_async_): no edit through shared storage comes between.      *)
(***************************************************************************)
THEOREM PlansAlike == Spec => []PlansAgree
<1>1. OnItsWay => PlansAgree
    <2>1. SUFFICES ASSUME OnItsWay, rstage = "done", genuine
          PROVE  /\ Declared(TableOf("prefix")) = Declared(wrote)
                 /\ Holds("job") /\ (wrote # NoTable => Plain(wrote)) => DecodePlan(Table("job")) = Declared(wrote)
        BY DEF PlansAgree
    <2>2. TableOf("prefix") = rmap /\ rmap = wrote
        BY <2>1 DEF OnItsWay, TablesKept, EntriesRead
    <2>3. ASSUME Holds("job"), wrote # NoTable => Plain(wrote)
          PROVE  DecodePlan(Table("job")) = Declared(wrote)
        <3>1. Table("job") = IF wrote = NoTable THEN EmptyTable ELSE wrote
            BY <2>1, <2>2, <2>3, TableOfType, HandleNames DEF OnItsWay, PrefixTypeOK, TablesKept, Decoded
        <3>2. CASE wrote = NoTable
            BY <3>1, <3>2, EmptyPlan DEF Declared
        <3>3. CASE wrote # NoTable
            BY <2>3, <3>1, <3>3, PlainPlans DEF Declared
        <3>4. QED
            BY <3>2, <3>3
    <2>4. QED
        BY <2>2, <2>3
<1>2. QED
    BY <1>1, AlwaysOnItsWay, PTL

LEMMA StepIsValueStep ==
    ASSUME OnItsWay, [Next]_vars
    PROVE  [Values!Next]_<<at, heap, reply>>
<1>1. HeadersTypeOK
    BY DEF OnItsWay, PrefixTypeOK
<1>2. CASE GetHeaders
    <2>1. PICK t \in Tables : Allocate("draft", t)
        BY <1>2, PrefixAssumption DEF GetHeaders
    <2>2. QED
        BY <1>1, <2>1, AllocateOnly, ObtainStep, HandleNames
<1>3. CASE ReadHeadersEnd
    <2>1. Allocate("prefix", rmap) /\ rmap \in Tables
        BY <1>3 DEF ReadHeadersEnd, OnItsWay, PrefixTypeOK, EntriesRead
    <2>2. QED
        BY <1>1, <2>1, AllocateOnly, ObtainStep, HandleNames
<1>4. CASE HandlerHeaders
    BY <1>4, HandlerHeadersKeeps, ObtainStep, HandleNames
<1>5. CASE JobHeaders
    BY <1>5, JobHeadersKeeps, ObtainStep, HandleNames
<1>6. CASE CloneDraft
    BY <1>6, CloneDraftKeeps, ObtainStep, HandleNames
<1>7. CASE EditHeaders
    BY <1>7, EditHeadersKeeps
<1>8. CASE DropSpare
    BY <1>8, DropSpareKeeps
<1>9. CASE UNCHANGED headerVars
    BY <1>9 DEF headerVars
<1>10. CASE StartWrite \/ Encode \/ WriteDone \/ WriteCut \/ ForeignPrefix
    BY <1>9, <1>10 DEF StartWrite, Encode, EncodeCode, EncodeLocation, EncodeOption, EncodeNextKey, EncodeItsVal,
       Encoded, WriteDone, WriteCut, ForeignPrefix
<1>11. CASE ReadMethod \/ ReadStatus \/ ReadLocation \/ ReadOption \/ ReadEntry \/ ReadClosed \/ ReadCancelled
    BY <1>9, <1>11 DEF ReadMethod, ReadStatus, ReadLocation, ReadOption, DecodeOption, ReadEntry, ReadClosed,
       ReadCancelled, Fail
<1>12. CASE UNCHANGED vars
    BY <1>9, <1>12 DEF vars
<1>13. QED
    BY <1>2, <1>3, <1>4, <1>5, <1>6, <1>7, <1>8, <1>10, <1>11, <1>12 DEF Next, Sender, Receiver, Decode

(***************************************************************************)
(* Copy on write is as good as a table of one's own (Headers::set,         *)
(* remove_key, the TrHeadersMut calls): whoever shares storage with whom,  *)
(* an edit through one handle is seen through no other.                    *)
(***************************************************************************)
THEOREM TablesAreValues == Spec => HeadersAreValues
<1>1. Init => Values!Init
    <2>1. SUFFICES ASSUME Init PROVE Values!Init
        OBVIOUS
    <2>2. reply = NoVal /\ \A h \in Handles : TableOf(h) = NoTable
        BY <2>1 DEF Init, TableOf, Holds
    <2>3. QED
        BY <2>2 DEF Values!Init, Values!NoVal, NoVal
<1>2. OnItsWay /\ [Next]_vars => [Values!Next]_<<at, heap, reply>>
    BY StepIsValueStep
<1>3. QED
    BY <1>1, <1>2, AlwaysOnItsWay, PTL DEF Spec, HeadersAreValues
=============================================================================
