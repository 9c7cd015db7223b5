------------------------------ MODULE Serving ------------------------------
(***************************************************************************)
(* A server and its calls: MptpServer.serve_listener_async takes channels   *)
(* one at a time, decodes a prefix, routes it and runs the handler to its   *)
(* end (mptp_smux/src/serving/server_.rs).  Two handlers are modelled: the  *)
(* inline RpcRouter, which runs the method itself, and RpcRouterHandler,    *)
(* which hands the channel to the bounded queue of a worker (rpc_core_v1    *)
(* serving/).  The worker is the user's; it does what rpc_demo's does.      *)
(* What happens inside one call is RpcCall's business: here a reply is one  *)
(* step, which fails when the client has gone.                              *)
(***************************************************************************)
EXTENDS Integers, Sequences, FiniteSets, SequencesExt

CONSTANTS
  NumCalls,   \* calls, numbered in the order they come; one channel each
  Handlers,   \* which handlers: a subset of {"inline", "queued"}
  QueueCap,   \* capacity of the service queue, K_DEFAULT_SERVICE_QUEUE_CAP
  Reserve,    \* invitations the listener keeps waiting
  Faults      \* "cancel": the listener's token fires; "worker": it dies

(* What a client sends: a call of a registered service, a method other than *)
(* Call or a location no service has ("refused"), a location no top-level   *)
(* route has, or bytes that are no prefix.                                  *)
Kinds == {"call", "refused", "noroute", "garbage"}
Calls == 1 .. NumCalls
NoCall == 0

ASSUME ServingAssumption ==
  /\ NumCalls \in Nat
  /\ Handlers \subseteq {"inline", "queued"}
  /\ QueueCap \in Nat
  /\ Reserve \in Nat \ {0}
  /\ Faults \subseteq {"cancel", "worker"}

VARIABLES
  handler,    \* the handler of this server
  kind,       \* what each client sends
  client,     \* "out" (has not called), "in" (holds its channel) or "gone"
  place,      \* who holds the server's two halves of a channel
  reply,      \* the reply written to it: "none", "ok" or "err"
  backlog,    \* invitations, oldest first
  listener,   \* where serve_listener_async stands
  cur,        \* the channel it serves
  failed,     \* the reply to cur could not be written
  queue,      \* jobs of the service, oldest first
  worker,     \* "idle", "reply", "close" or "dead"
  job,        \* the channel the worker holds
  cancelled,  \* the listener's token has fired
  came,       \* how many calls have come
  taken       \* history: calls in the order the worker took them

callVars == <<kind, client, place, reply>>
lisVars  == <<backlog, listener, cur, failed>>
wrkVars  == <<queue, worker, job>>
vars     == <<handler, callVars, lisVars, wrkVars, cancelled, came, taken>>

(* Every half of a channel has one owner, and it is the one place says.     *)
TypeOK ==
  /\ handler \in Handlers
  /\ kind \in [Calls -> Kinds]
  /\ client \in [Calls -> {"out", "in", "gone"}]
  /\ place \in [Calls -> {"none", "backlog", "listener", "queue", "worker", "closed"}]
  /\ reply \in [Calls -> {"none", "ok", "err"}]
  /\ listener \in {"income", "prefix", "route", "reply", "close", "enqueue", "flush", "down"}
  /\ worker \in {"idle", "reply", "close", "dead"}
  /\ failed \in BOOLEAN /\ cancelled \in BOOLEAN
  /\ came \in 0 .. NumCalls
  /\ cur \in 0 .. NumCalls /\ job \in 0 .. NumCalls
  /\ backlog \in Seq(Calls) /\ queue \in Seq(Calls) /\ taken \in Seq(Calls)
  /\ cur = NoCall <=> listener \in {"income", "flush", "down"}
  /\ job = NoCall <=> worker \in {"idle", "dead"}
  /\ \A c \in Calls :
       /\ place[c] = "backlog" <=> c \in ToSet(backlog)
       /\ place[c] = "listener" <=> c = cur
       /\ place[c] = "queue" <=> c \in ToSet(queue)
       /\ place[c] = "worker" <=> c = job

Init ==
  /\ handler \in Handlers
  /\ kind = [c \in Calls |-> "call"]
  /\ client = [c \in Calls |-> "out"]
  /\ place = [c \in Calls |-> "none"]
  /\ reply = [c \in Calls |-> "none"]
  /\ backlog = << >> /\ listener = "income" /\ cur = NoCall /\ failed = FALSE
  /\ queue = << >> /\ worker = "idle" /\ job = NoCall
  /\ cancelled = FALSE
  /\ came = 0 /\ taken = << >>

-----------------------------------------------------------------------------
(* Clients. *)

Invite(c) ==
  /\ c = came + 1 /\ listener # "down"
  /\ Len(backlog) < Reserve
  /\ \E k \in Kinds : kind' = [kind EXCEPT ![c] = k]
  /\ client' = [client EXCEPT ![c] = "in"]
  /\ place' = [place EXCEPT ![c] = "backlog"]
  /\ backlog' = Append(backlog, c)
  /\ came' = c
  /\ UNCHANGED <<handler, reply, listener, cur, failed, wrkVars, cancelled, taken>>

(* A client drops its session when its call is over, or whenever it likes.  *)
Leave(c) ==
  /\ client[c] = "in"
  /\ client' = [client EXCEPT ![c] = "gone"]
  /\ UNCHANGED <<handler, kind, place, reply, lisVars, wrkVars, cancelled, came, taken>>

(* It has its reply, or has seen the end of the channel without one.        *)
Over(c) ==
  \/ reply[c] # "none" \/ place[c] = "closed"
  \/ c = cur /\ listener = "close"
  \/ c = job /\ worker = "close"

-----------------------------------------------------------------------------
(* serve_listener_async_ and serve_channel_async_. *)

To(stage) ==
  /\ listener' = stage
  /\ UNCHANGED <<handler, callVars, backlog, cur, failed, wrkVars, cancelled, came, taken>>

(* The channel in hand is over: its halves are dropped.                     *)
Finish(stage) ==
  /\ place' = [place EXCEPT ![cur] = "closed"]
  /\ cur' = NoCall
  /\ listener' = stage
  /\ failed' = FALSE
  /\ UNCHANGED <<handler, kind, client, reply, backlog, wrkVars, cancelled, came, taken>>

(* Whatever serve_channel_async_ fails with ends the loop as well.          *)
ServeFails == Finish("down")

Income ==
  /\ listener = "income" /\ backlog # << >>
  /\ cur' = Head(backlog)
  /\ backlog' = Tail(backlog)
  /\ place' = [place EXCEPT ![Head(backlog)] = "listener"]
  /\ listener' = "prefix"
  /\ UNCHANGED <<handler, kind, client, reply, failed, wrkVars, cancelled, came, taken>>

IncomeBlindToToken == FALSE
IncomeFails == listener = "income" /\ cancelled /\ To("down")

(* A client that has gone may have sent its prefix before.                  *)
Prefix == listener = "prefix" /\ kind[cur] # "garbage" /\ To("route")

PrefixFails ==
  /\ listener = "prefix"
  /\ kind[cur] = "garbage" \/ client[cur] = "gone" \/ cancelled
  /\ ServeFails

Route ==
  /\ listener = "route" /\ kind[cur] # "noroute"
  /\ To(IF kind[cur] = "call" /\ handler = "queued" THEN "enqueue" ELSE "reply")

(* No reply: the layer below RPC has no format for one.                     *)
NoRoute == listener = "route" /\ kind[cur] = "noroute" /\ ServeFails

(* A refusal or, inline, what the method returned.  The token may fire in   *)
(* the middle of it, or the value the method returned may not encode: the   *)
(* reply then fails, with its client still there, and the close goes on.    *)
Reply ==
  /\ listener = "reply"
  /\ \/ /\ client[cur] = "in"
        /\ \E r \in IF kind[cur] = "call" THEN {"ok", "err"} ELSE {"err"} :
             reply' = [reply EXCEPT ![cur] = r]
        /\ UNCHANGED failed
     \/ /\ client[cur] = "gone" \/ cancelled \/ kind[cur] = "call"
        /\ failed' = TRUE
        /\ UNCHANGED reply
  /\ listener' = "close"
  /\ UNCHANGED <<handler, kind, client, place, backlog, cur, wrkVars, cancelled, came, taken>>

(* close_channel_async: the sending half is dropped, which ends the call of *)
(* a client still there, and the client's end is waited for.                *)
CloseChannel ==
  /\ listener = "close" /\ client[cur] = "gone"
  /\ Finish(IF failed THEN "down" ELSE "income")

-----------------------------------------------------------------------------
(* RpcRouterHandler: enqueue_job_async_.  futures::mpsc::Sender::send puts  *)
(* the job into the queue and then waits, in its flush, while there are     *)
(* more of them than the queue's capacity: the wait comes after the job is  *)
(* delivered.                                                               *)

Deliver(next) ==
  /\ queue' = Append(queue, cur)
  /\ place' = [place EXCEPT ![cur] = "queue"]
  /\ cur' = NoCall
  /\ listener' = next
  /\ UNCHANGED <<handler, kind, client, reply, backlog, failed, worker, job, cancelled, came, taken>>

EnqueueOrDrop ==
  /\ listener = "enqueue" /\ ~cancelled /\ worker # "dead"
  /\ IF Len(queue) >= QueueCap THEN Finish("income") ELSE Deliver("income")

(* Mutant: the job is handed over without a wait in the flush.              *)
EnqueueAtOnce ==
  listener = "enqueue" /\ ~cancelled /\ worker # "dead" /\ Deliver("income")

Enqueue ==
  /\ listener = "enqueue" /\ ~cancelled /\ worker # "dead"
  /\ Deliver(IF Len(queue) + 1 > QueueCap THEN "flush" ELSE "income")

EnqueueFails ==
  /\ listener = "enqueue"
  /\ cancelled \/ worker = "dead"
  /\ ServeFails

Flush ==
  /\ listener = "flush"
  /\ Len(queue) <= QueueCap \/ worker = "dead"
  /\ To("income")

(* The router reports Cancelled for a job the worker will take all the same. *)
FlushCancelled ==
  /\ listener = "flush" /\ cancelled
  /\ Len(queue) > QueueCap /\ worker # "dead"
  /\ To("down")

-----------------------------------------------------------------------------
(* The worker. *)

WorkerTakes ==
  /\ worker = "idle" /\ queue # << >>
  /\ job' = Head(queue) /\ queue' = Tail(queue)
  /\ place' = [place EXCEPT ![Head(queue)] = "worker"]
  /\ taken' = Append(taken, Head(queue))
  /\ worker' = "reply"
  /\ UNCHANGED <<handler, kind, client, reply, lisVars, cancelled, came>>

WorkerRepliesToPresent ==
  /\ worker = "reply" /\ client[job] = "in"
  /\ \E r \in {"none", "ok", "err"} : reply' = [reply EXCEPT ![job] = r]
  /\ worker' = "close"
  /\ UNCHANGED <<handler, kind, client, place, lisVars, queue, job, cancelled, came, taken>>

(* A reply that cannot be written, or encoded, is logged and forgotten.     *)
WorkerReplies ==
  /\ worker = "reply"
  /\ IF client[job] = "in"
     THEN \E r \in {"none", "ok", "err"} : reply' = [reply EXCEPT ![job] = r]
     ELSE UNCHANGED reply
  /\ worker' = "close"
  /\ UNCHANGED <<handler, kind, client, place, lisVars, queue, job, cancelled, came, taken>>

WorkerCloses ==
  /\ worker = "close" /\ client[job] = "gone"
  /\ place' = [place EXCEPT ![job] = "closed"]
  /\ job' = NoCall
  /\ worker' = "idle"
  /\ UNCHANGED <<handler, kind, client, reply, lisVars, queue, cancelled, came, taken>>

(* Its queue goes with it, and the channels in it.                          *)
WorkerDies ==
  /\ "worker" \in Faults /\ worker # "dead"
  /\ worker' = "dead" /\ job' = NoCall /\ queue' = << >>
  /\ place' = [c \in Calls |-> IF place[c] \in {"queue", "worker"} THEN "closed" ELSE place[c]]
  /\ UNCHANGED <<handler, kind, client, reply, lisVars, cancelled, came, taken>>

Cancel ==
  /\ "cancel" \in Faults /\ ~cancelled
  /\ cancelled' = TRUE
  /\ UNCHANGED <<handler, callVars, lisVars, wrkVars, came, taken>>

Listener ==
  \/ Income \/ IncomeFails \/ Prefix \/ PrefixFails \/ Route \/ NoRoute
  \/ Reply \/ CloseChannel \/ Enqueue \/ EnqueueFails \/ Flush \/ FlushCancelled
Worker == WorkerTakes \/ WorkerReplies \/ WorkerCloses

Next ==
  \/ \E c \in Calls : Invite(c) \/ Leave(c)
  \/ Listener \/ Worker \/ WorkerDies \/ Cancel

Spec == Init /\ [][Next]_vars

(* The listener and the worker are polled, and a method returns.  Nothing   *)
(* is asked of the clients: each may keep its session for ever.             *)
FairSpec ==
  /\ Spec
  /\ WF_vars(Listener)
  /\ WF_vars(Worker)

-----------------------------------------------------------------------------
(* The queue holds its capacity and one job more: the one whose delivery    *)
(* the listener is waiting out, which is also what makes it wait.           *)
QueueBounded ==
  /\ Len(queue) <= QueueCap + 1
  /\ Len(queue) > QueueCap => listener \in {"flush", "down"}

Increasing(seq) == \A i, j \in DOMAIN seq : i < j => seq[i] < seq[j]

(* Calls of one service are worked on in the order they came, whatever the  *)
(* listener refused or dropped in between.                                  *)
FirstComeFirstServed == Increasing(taken)

(* What makes them so: the worker's calls, the queue's, the listener's and  *)
(* the backlog's come one after the other, and all of them have come.       *)
Before(S, T) == \A a \in S, b \in T : a < b
InHand == {cur} \ {NoCall}

InLine ==
  /\ Increasing(queue) /\ Increasing(backlog)
  /\ Before(ToSet(taken), ToSet(queue) \cup InHand \cup ToSet(backlog))
  /\ Before(ToSet(queue), InHand \cup ToSet(backlog))
  /\ Before(InHand, ToSet(backlog))
  /\ ToSet(taken) \cup ToSet(queue) \cup InHand \cup ToSet(backlog) \subseteq 1 .. came

(* The worker's job is one it took, and its queue goes with it.             *)
JobTaken ==
  /\ job # NoCall => job \in ToSet(taken)
  /\ worker = "dead" => queue = << >>

(* What is known of a call where its channel is: the service's queue and    *)
(* worker have calls of the service only, and a channel has no answer       *)
(* before somebody is there to write it.                                    *)
Unanswered(c) ==
  \/ place[c] \in {"none", "backlog", "queue"}
  \/ c = cur /\ listener # "close"
  \/ c = job /\ worker = "reply"

ForWorker(c) == kind[c] = "call" /\ handler = "queued"

PlaceTells(c) ==
  /\ client[c] = "out" <=> c > came
  /\ place[c] = "none" <=> c > came
  /\ Unanswered(c) => reply[c] = "none"
  /\ place[c] \in {"queue", "worker"} => ForWorker(c)
  /\ c = cur => /\ listener = "route" => kind[c] # "garbage"
                /\ listener = "enqueue" => ForWorker(c)
                /\ listener = "reply" => kind[c] \in {"call", "refused"} /\ ~ForWorker(c)

(* Only a call of a registered service is run, what no route has is not     *)
(* answered at all.                                                         *)
AnswerTells(c) ==
  /\ reply[c] = "ok" => kind[c] = "call"
  /\ reply[c] # "none" => kind[c] \in {"call", "refused"}

(* What listener and worker wait for: an invitation, room in the queue, and *)
(* the client's end of the channel that each of them closes.                *)
ListenerGoesOn ==
  /\ listener # "down"
  /\ listener = "income" => backlog # << >> \/ cancelled
  /\ listener = "reply" => client[cur] # "out" \/ cancelled
  /\ listener = "close" => client[cur] = "gone"
  /\ listener = "flush" => Len(queue) <= QueueCap \/ worker = "dead" \/ cancelled
WorkerGoesOn ==
  /\ worker # "dead"
  /\ worker = "idle" => queue # << >>
  /\ worker = "close" => client[job] = "gone"
ClientGoesOn(c) == client[c] = "in" /\ Over(c)

(* The server still has the channel, and its loop can get to it.            *)
Unsettled(c) ==
  \/ place[c] \in {"listener", "queue", "worker"}
  \/ place[c] = "backlog" /\ listener # "down"

(* While a channel is unsettled somebody goes on: the listener waits for    *)
(* the worker, or either for a client whose call is over, but never all of  *)
(* them for each other.                                                     *)
SomebodyGoesOn ==
  (\E c \in Calls : Unsettled(c)) =>
    ListenerGoesOn \/ WorkerGoesOn \/ \E c \in Calls : ClientGoesOn(c)

(* Every channel's halves have the one owner its place tells, the queue     *)
(* keeps to its capacity and dies with its worker, and calls are worked on  *)
(* in the order they came through a listener that refuses and drops some    *)
(* and a queue that waits.                                                  *)
LineSound ==
  /\ TypeOK /\ QueueBounded /\ FirstComeFirstServed /\ InLine
  /\ JobTaken

(* And what is answered is what was asked, by one who was to answer it,     *)
(* while nobody is stuck.                                                   *)
ServingInv ==
  /\ LineSound
  /\ \A c \in Calls : PlaceTells(c) /\ AnswerTells(c)
  /\ SomebodyGoesOn

(* An answer stands: of listener and worker, one writes it, and once.       *)
AnswersStand == [][\A c \in Calls : reply[c] # "none" => reply'[c] = reply[c]]_vars

(* A client that is still there loses its channel unanswered only if it     *)
(* sent nothing routable, or the server was cancelled or its worker died:   *)
(* never because the queue was full.                                        *)
DroppedForCause ==
  [][\A c \in Calls :
       (place[c] # "closed" /\ place'[c] = "closed" /\ reply[c] = "none" /\ client[c] = "in")
       => kind[c] \in {"noroute", "garbage"} \/ cancelled \/ worker' = "dead"]_vars

(* A channel that is being closed waits for its client, and a client may    *)
(* keep it: the drain of close_channel_async takes no token.                *)
KeptFromListener == listener = "close" /\ client[cur] = "in"
KeptFromWorker   == worker = "close" /\ client[job] = "in"

(* Every invitation comes to an end, whoever is slow, refused or gone ahead *)
(* of it: unless the loop has ended with it still in the backlog, or one    *)
(* client keeps for good a channel that the loop or its worker is closing.  *)
EveryCallSettled ==
  \A c \in Calls :
    (place[c] = "backlog") ~>
      \/ reply[c] # "none" \/ place[c] = "closed"
      \/ listener = "down" /\ place[c] = "backlog"
      \/ []KeptFromListener \/ []KeptFromWorker

(* A cancelled listener returns, even out of a full queue and whatever the  *)
(* worker waits for: only the client of the channel it is closing itself    *)
(* can hold it, by keeping that channel for good.                           *)
CancelStopsListener == cancelled ~> (listener = "down" \/ []KeptFromListener)
=============================================================================
