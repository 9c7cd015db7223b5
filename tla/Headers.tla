------------------------------ MODULE Headers ------------------------------
(***************************************************************************)
(* The header table (mptp_smux/src/messaging/headers_.rs): handles on      *)
(* shared storage, copied when it is edited through one of several owners. *)
(*                                                                         *)
(* Also what is read out of a table: the declared body (cs_.rs body_info,  *)
(* headers_.rs body_size and is_chunked).                                  *)
(***************************************************************************)
EXTENDS Naturals, FiniteSets

CONSTANTS
    Handles,    \* who may hold a table
    Storages,   \* the Arc's allocations
    Keys, Vals, \* header keys and values
    NoTable     \* the handle holds none

VARIABLES
    at,         \* Handles -> Storages \cup {NoTable}: where a handle points
    heap,       \* Storages -> the map in that allocation
    reply       \* what the last edit answered

headerVars == <<at, heap, reply>>

-----------------------------------------------------------------------------
(* Values: a number, or a text.  Of a text only what the code can make of  *)
(* it matters: a decimal or 0x number, the word "chunked", or neither.     *)

Num(n) == [form |-> "num", n |-> n]
Dec(n) == [form |-> "dec", n |-> n]
Hex(n) == [form |-> "hex", n |-> n]
Chunked == [form |-> "chunked", n |-> 0]
Word == [form |-> "word", n |-> 0]

BodyTransferChunked == 32

EmptyTable == <<>>
NoVal == [form |-> "none", n |-> 0]
Added == [form |-> "added", n |-> 0]
Refused == [form |-> "refused", n |-> 0]
Insert(t, k, v) == [x \in DOMAIN t \cup {k} |-> IF x = k THEN v ELSE t[x]]
Delete(t, k) == [x \in DOMAIN t \ {k} |-> t[x]]
Lookup(t, k) == IF k \in DOMAIN t THEN t[k] ELSE NoVal
Tables == UNION { [K -> Vals] : K \in SUBSET Keys }

\* An allocation finds room: there is storage for a table of every holder.
ASSUME HeadersAssumption ==
    /\ IsFiniteSet(Handles) /\ IsFiniteSet(Storages) /\ IsFiniteSet(Keys)
    /\ Cardinality(Handles) <= Cardinality(Storages)
    /\ NoTable \notin Storages \cup Tables

-----------------------------------------------------------------------------
(* The body a table declares.                                              *)

Absent == [kind |-> "absent", size |-> 0]
Sized(n) == [kind |-> "sized", size |-> n]
InChunks == [kind |-> "chunked", size |-> 0]

\* HeaderVal::as_u64, and a number that usize::from_str accepts.
AsU64(v) == IF v.form \in {"num", "dec", "hex"} THEN v.n ELSE 0
AsDecimal(v) == IF v.form \in {"num", "dec"} THEN v.n ELSE 0

IsChunked(t) ==
    "Body_Transfer" \in DOMAIN t /\ t["Body_Transfer"] \in {Num(BodyTransferChunked), Chunked}

\* body_size().unwrap_or(0)
BodySizeTextOnly(t) == IF "Body_Size" \in DOMAIN t /\ t["Body_Size"].form # "num" THEN AsU64(t["Body_Size"]) ELSE 0
BodySize(t) == IF "Body_Size" \in DOMAIN t THEN AsU64(t["Body_Size"]) ELSE 0

\* TrMsgPrefix::body_info: a Body_Size settles it, even one that says nothing.
BodyInfo(t) ==
    IF "Body_Size" \in DOMAIN t
    THEN IF AsDecimal(t["Body_Size"]) = 0 THEN Absent ELSE Sized(AsDecimal(t["Body_Size"]))
    ELSE IF IsChunked(t) THEN InChunks ELSE Absent

\* What the RPC context decodes a request body by.
DecodePlan(t) ==
    IF IsChunked(t) THEN InChunks
    ELSE IF BodySize(t) = 0 THEN Absent ELSE Sized(BodySize(t))

-----------------------------------------------------------------------------
(* Handles.                                                                *)

Holds(h) == at[h] # NoTable
Owners(s) == { h \in Handles : at[h] = s }
Unused == { s \in Storages : Owners(s) = {} }
Table(h) == heap[at[h]]
TableOf(h) == IF Holds(h) THEN Table(h) ELSE NoTable

\* A new allocation for a handle that has none.
Allocate(h, t) ==
    /\ ~Holds(h)
    /\ LET s == CHOOSE u \in Unused : TRUE IN
          /\ at' = [at EXCEPT ![h] = s]
          /\ heap' = [heap EXCEPT ![s] = t]
    /\ UNCHANGED reply

CloneHandle(g, h) ==
    /\ Holds(g) /\ ~Holds(h)
    /\ at' = [at EXCEPT ![h] = at[g]]
    /\ UNCHANGED <<heap, reply>>

DropHandle(h) ==
    /\ Holds(h)
    /\ at' = [at EXCEPT ![h] = NoTable]
    /\ UNCHANGED <<heap, reply>>

\* Arc::make_mut, then the edit: in place for a sole owner, else in a copy.
EditInPlace(h, t) == heap' = [heap EXCEPT ![at[h]] = t] /\ UNCHANGED at

Edit(h, t) ==
    IF Owners(at[h]) = {h}
    THEN heap' = [heap EXCEPT ![at[h]] = t] /\ UNCHANGED at
    ELSE LET s == CHOOSE u \in Unused : TRUE IN
         /\ at' = [at EXCEPT ![h] = s]
         /\ heap' = [heap EXCEPT ![s] = t]

SetHeader(h, k, v) ==
    /\ Holds(h)
    /\ Edit(h, Insert(Table(h), k, v))
    /\ UNCHANGED reply

RemoveKey(h, k) ==
    /\ Holds(h)
    /\ Edit(h, Delete(Table(h), k))
    /\ reply' = Lookup(Table(h), k)

(***************************************************************************)
(* TrHeadersMut takes the handle by value: the edit is made where make_mut *)
(* says, and that handle goes out of scope with it.                        *)
(***************************************************************************)
Consume(h, answer) ==
    /\ at' = [at EXCEPT ![h] = NoTable]
    /\ reply' = answer
    /\ UNCHANGED heap

TryAddHeader(h, k) ==
    /\ Holds(h)
    /\ Consume(h, IF k \in DOMAIN Table(h) THEN Refused ELSE Added)

AddOrSetHeader(h, k) == Holds(h) /\ Consume(h, Lookup(Table(h), k))
RemoveHeader(h, k) == Holds(h) /\ Consume(h, Lookup(Table(h), k))

(***************************************************************************)
(* Every handle might as well have a table of its own.                     *)
(***************************************************************************)
Values == INSTANCE HeaderTables
    WITH table <- [h \in Handles |-> TableOf(h)]

HeadersTypeOK ==
    /\ at \in [Handles -> Storages \cup {NoTable}]
    /\ heap \in [Storages -> Tables]
=============================================================================
