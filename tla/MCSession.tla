----------------------------- MODULE MCSession -----------------------------
(* Session for TLC: the bodies a response may have, and a bound.            *)
EXTENDS Session

(* No chunk, one of one byte, and one of one byte before one of two.        *)
MCBodies == {<< >>, <<1>>, <<1, 3>>}

(* The two directions share no more than the state: a request with a body   *)
(* comes with the shortest response, one byte of body.                      *)
OneWayLarge ==
  \/ rx = [chunks |-> <<1>>, suffix |-> 0]
  \/ /\ req.plan = "absent" /\ source = 0
     /\ Cardinality({i \in DOMAIN wire : wire[i] = "suffix"}) <= 1
=============================================================================
