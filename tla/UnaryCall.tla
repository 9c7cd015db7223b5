----------------------------- MODULE UnaryCall -----------------------------
(***************************************************************************)
(* What a unary call promises its caller: the method runs at most once; a  *)
(* call returns once, with Ok only of a method that ran and never against  *)
(* the reply that the server gave; and a reply given to its end is what a  *)
(* caller gets that has sent its request, waits and is not cancelled.      *)
(***************************************************************************)

VARIABLES
  ran,        \* the method has run
  reply,      \* the reply the server has given to its end: "none", "ok", "err"
  waiting,    \* the caller has sent its request and waits
  cancelled,  \* the caller's token has fired
  outcome     \* what the caller was told, "none" before it returns

vars == <<ran, reply, waiting, cancelled, outcome>>

Outcomes == {"ok", "remote", "transport", "encode", "decode", "abandoned"}

(* What a caller may have been told of a reply: it may have read all of it  *)
(* before the server knows that it is through.                              *)
Fits(how, given) ==
  /\ how = "ok" => given # "err"
  /\ how = "remote" => given # "ok"

Init ==
  /\ ran = FALSE /\ reply = "none"
  /\ waiting = FALSE /\ cancelled = FALSE /\ outcome = "none"

Send ==
  /\ outcome = "none" /\ ~waiting
  /\ waiting' = TRUE
  /\ UNCHANGED <<ran, reply, cancelled, outcome>>

Cancel ==
  /\ cancelled' = TRUE
  /\ UNCHANGED <<ran, reply, waiting, outcome>>

Run ==
  /\ ~ran /\ reply = "none"
  /\ ran' = TRUE
  /\ UNCHANGED <<reply, waiting, cancelled, outcome>>

Reply(kind) ==
  /\ reply = "none"
  /\ kind = "ok" => ran
  /\ Fits(outcome, kind)
  /\ reply' = kind
  /\ UNCHANGED <<ran, waiting, cancelled, outcome>>

Return(how) ==
  /\ outcome = "none"
  /\ how \in {"ok", "remote"} => waiting
  /\ how = "ok" => ran
  /\ Fits(how, reply)
  /\ reply # "none" /\ waiting /\ ~cancelled => how \in {"ok", "remote", "abandoned"}
  /\ outcome' = how /\ waiting' = FALSE
  /\ UNCHANGED <<ran, reply, cancelled>>

Next ==
  \/ Send \/ Cancel \/ Run
  \/ \E kind \in {"ok", "err"} : Reply(kind)
  \/ \E how \in Outcomes : Return(how)

Spec == Init /\ [][Next]_vars
=============================================================================
