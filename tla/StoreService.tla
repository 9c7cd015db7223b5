---------------------------- MODULE StoreService ----------------------------
(***************************************************************************)
(* What the demo's services promise a client: a call takes effect at most  *)
(* once, at one moment between its being made and its being answered, and  *)
(* the answer is that of this one effect.  A call may be refused without   *)
(* any effect, and a client may give up and never learn what became of it. *)
(***************************************************************************)
EXTENDS Store

CONSTANTS Clients, Calls

VARIABLES
    db,       \* the store
    made,     \* calls made so far; a call's number is its ticket
    pending,  \* [ticket, call]: the calls that had no effect yet
    waits,    \* client -> the ticket of the call it waits for, or 0
    given     \* client -> the answer to that call, or NoAnswer

vars == <<db, made, pending, waits, given>>

Init ==
    /\ db = EmptyStore
    /\ made = 0 /\ pending = {}
    /\ waits = [c \in Clients |-> 0]
    /\ given = [c \in Clients |-> NoAnswer]

Ask(c) ==
    /\ waits[c] = 0
    /\ made' = made + 1
    /\ \E call \in Calls : pending' = pending \cup {[ticket |-> made', call |-> call]}
    /\ waits' = [waits EXCEPT ![c] = made']
    /\ UNCHANGED <<db, given>>

\* The answer goes to whoever still waits for it.
Settled(p, answer) ==
    /\ pending' = pending \ {p}
    /\ given' = [c \in Clients |-> IF waits[c] = p.ticket THEN answer ELSE given[c]]
    /\ UNCHANGED <<made, waits>>

TakeEffect(p) ==
    LET run == Run(db, p.call) IN
    /\ db' = run.db
    /\ Settled(p, [status |-> run.status, value |-> run.value])

TurnDown(p) ==
    /\ \E status \in {400, 404, 405} : Settled(p, [status |-> status, value |-> {}])
    /\ UNCHANGED db

\* Answered, or given up: in either case the call is no longer waited for.
Return(c) ==
    /\ waits[c] # 0
    /\ waits' = [waits EXCEPT ![c] = 0]
    /\ given' = [given EXCEPT ![c] = NoAnswer]
    /\ UNCHANGED <<db, made, pending>>

Next ==
    \/ \E c \in Clients : Ask(c) \/ Return(c)
    \/ \E p \in pending : TakeEffect(p) \/ TurnDown(p)

Spec == Init /\ [][Next]_vars
=============================================================================
