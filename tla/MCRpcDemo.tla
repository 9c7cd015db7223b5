----------------------------- MODULE MCRpcDemo -----------------------------
(* The demo with two clients and three calls. *)
EXTENDS RpcDemo

CONSTANTS c1, c2

MCClients == {c1, c2}

Request(flaw, call) == [flaw |-> flaw, call |-> call]
Call(service, method, id, text) ==
    [service |-> service, method |-> method, id |-> id, text |-> text]
CreateFirst == Call("session", "create", 1, "first")

\* The calls that meet each other in the store, one of them garbled, and
\* one that nobody serves.
MCRequests ==
    { Request("none", Call("workspace", "create", 0, "alpha")),
      Request("none", Call("workspace2", "delete", 1, "")),
      Request("none", CreateFirst), Request("body", CreateFirst),
      Request("none", Call("nowhere", "list", 0, "")) }

\* Clients differ in name only: it is c1 that makes the first call.
FirstCallIsC1 == made = 0 /\ made' = 1 => waits'[c1] = 1

=============================================================================
