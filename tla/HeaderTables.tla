---------------------------- MODULE HeaderTables ----------------------------
(***************************************************************************)
(* What a header table promises to those who hold one: a value of one's    *)
(* own.  An edit through one holder shows in that holder's table and in no *)
(* other, and a call that takes the table by value leaves its caller with  *)
(* nothing but the answer.                                                 *)
(***************************************************************************)
CONSTANTS
    Handles,    \* who may hold a table
    Keys, Vals, \* header keys and values
    NoTable     \* the handle holds none

VARIABLES
    table,      \* Handles -> a table or NoTable
    reply       \* what the last edit answered

EmptyTable == <<>>
NoVal == [form |-> "none", n |-> 0]
Added == [form |-> "added", n |-> 0]
Refused == [form |-> "refused", n |-> 0]
Tables == UNION { [K -> Vals] : K \in SUBSET Keys }

Insert(t, k, v) == [x \in DOMAIN t \cup {k} |-> IF x = k THEN v ELSE t[x]]
Delete(t, k) == [x \in DOMAIN t \ {k} |-> t[x]]
Old(t, k) == IF k \in DOMAIN t THEN t[k] ELSE NoVal

Init ==
    /\ table \in [Handles -> Tables \cup {NoTable}]
    /\ reply = NoVal

Holds(h) == table[h] # NoTable

\* A table of one's own, new or a copy of another holder's.
Obtain(h) ==
    /\ ~Holds(h) /\ table'[h] \in Tables
    /\ table' = [table EXCEPT ![h] = table'[h]] /\ UNCHANGED reply

Put(h, k, v) ==
    /\ Holds(h)
    /\ table' = [table EXCEPT ![h] = Insert(@, k, v)] /\ UNCHANGED reply

Take(h, k) ==
    /\ Holds(h)
    /\ table' = [table EXCEPT ![h] = Delete(@, k)]
    /\ reply' = Old(table[h], k)

\* The table is given away together with whatever is done to it.
Spend(h, k) ==
    /\ Holds(h)
    /\ table' = [table EXCEPT ![h] = NoTable]
    /\ reply' \in {Old(table[h], k), IF k \in DOMAIN table[h] THEN Refused ELSE Added}

Release(h) ==
    /\ Holds(h)
    /\ table' = [table EXCEPT ![h] = NoTable] /\ UNCHANGED reply

Next ==
    \E h \in Handles :
        \/ Obtain(h)
        \/ \E k \in Keys : Take(h, k) \/ Spend(h, k) \/ \E v \in Vals : Put(h, k, v)
        \/ Release(h)

Spec == Init /\ [][Next]_<<table, reply>>
=============================================================================
