------------------------------ MODULE RpcDemo ------------------------------
(***************************************************************************)
(* The demo (rpc_demo): clients call services of one shared store.  The    *)
(* listener routes a channel to the queue of its service or refuses it;    *)
(* one worker thread per queue decodes, runs the method under the store's  *)
(* mutex, replies, and reads the channel to its end before it counts the   *)
(* job.  The server leaves when it has counted the jobs it expects.        *)
(***************************************************************************)
EXTENDS Store, Sequences

CONSTANTS
    Clients,
    Requests,     \* [call, flaw]: calls, and what is wrong with the request:
                  \* "none", "method" (not a Call), "body" (not decodable)
    QueueCap,     \* K_QUEUE_CAP
    ExpectedJobs, \* K_EXPECTED_JOBS
    MaxCalls      \* bound on the calls made

Flaws == {"none", "method", "body"}

ASSUME DemoAssumption ==
    /\ QueueCap \in Nat \ {0} /\ MaxCalls \in Nat
    /\ \A r \in Requests : r.flaw \in Flaws /\ r.call.method \in Methods

Calls == { r.call : r \in Requests }

\* The queues: one worker each.  A call of any other service has no route.
Services == {"workspace", "session", "workspace2"}

VARIABLES
    db, made,
    job,      \* ticket -> [client, call, flaw, stage, answer]
    waits,    \* client -> the ticket of the call it waits for, or 0
    inbox,    \* channels the listener has not accepted, in order
    refusing, \* the channel the listener is refusing, or 0
    queue,    \* service -> tickets
    worker,   \* service -> the job its worker has, or 0
    count,    \* metrics_
    running   \* "yes", or what ended the server: "counted", "listener"

server == <<db, inbox, refusing, queue, worker, count, running>>
vars == <<server, made, job, waits>>

Tickets == DOMAIN job
Gone(t) == waits[job[t].client] # t
At(t, stage) == job' = [job EXCEPT ![t].stage = stage]
Answered(t, stage, status, value) ==
    job' = [job EXCEPT ![t].stage = stage, ![t].answer = [status |-> status, value |-> value]]

Init ==
    /\ db = EmptyStore
    /\ made = 0 /\ job = <<>>
    /\ waits = [c \in Clients |-> 0]
    /\ inbox = <<>> /\ refusing = 0
    /\ queue = [s \in Services |-> <<>>]
    /\ worker = [s \in Services |-> 0]
    /\ count = 0 /\ running = "yes"

-----------------------------------------------------------------------------
(* Clients.                                                                *)

\* rpc_call: the channel is opened and the request written.
RpcCall(c) ==
    /\ waits[c] = 0 /\ made < MaxCalls /\ running = "yes"
    /\ made' = made + 1
    /\ waits' = [waits EXCEPT ![c] = made']
    /\ \E r \in Requests :
          job' = Append(job, [client |-> c, call |-> r.call, flaw |-> r.flaw,
                              stage |-> "sent", answer |-> NoAnswer])
    /\ inbox' = Append(inbox, made')
    /\ UNCHANGED <<db, refusing, queue, worker, count, running>>

\* The reply is read, and the session dropped with the call's return.
GetReply(c) ==
    /\ waits[c] # 0 /\ job[waits[c]].stage \in {"replied", "closed"}
    /\ waits' = [waits EXCEPT ![c] = 0]
    /\ UNCHANGED <<server, made, job>>

\* A cancelled or failed call drops its session wherever it is: a request
\* that was not whole yet stays cut, in its body here or in its prefix (then
\* ListenerFails).
GiveUp(c) ==
    /\ waits[c] # 0
    /\ waits' = [waits EXCEPT ![c] = 0]
    /\ \/ UNCHANGED job
       \/ /\ job[waits[c]].stage \in {"sent", "queued"} /\ job[waits[c]].flaw = "none"
          /\ job' = [job EXCEPT ![waits[c]].flaw = "body"]
    /\ UNCHANGED <<server, made>>

\* The server's process is gone, and the connection with it.
LosesServer(c) ==
    /\ waits[c] # 0 /\ running # "yes"
    /\ waits' = [waits EXCEPT ![c] = 0]
    /\ UNCHANGED <<server, made, job>>

-----------------------------------------------------------------------------
(* The listener: one channel at a time.                                    *)

Routed(t) == job[t].flaw # "method" /\ job[t].call.service \in Services

\* router_handle_async_: a clone of the headers and both halves are queued.
Enqueue ==
    /\ running = "yes" /\ refusing = 0 /\ inbox # <<>>
    /\ LET t == Head(inbox)  s == job[t].call.service IN
          /\ Routed(t) /\ Len(queue[s]) < QueueCap
          /\ queue' = [queue EXCEPT ![s] = Append(@, t)]
          /\ At(t, "queued")
    /\ inbox' = Tail(inbox)
    /\ UNCHANGED <<db, made, waits, refusing, worker, count, running>>

\* reject_: the refusal is written, then the channel read to its end.
Reject ==
    /\ running = "yes" /\ refusing = 0 /\ inbox # <<>>
    /\ LET t == Head(inbox) IN
          /\ ~Routed(t)
          /\ Answered(t, "replied", IF job[t].flaw = "method" THEN 405 ELSE 404, {})
          /\ refusing' = t
    /\ inbox' = Tail(inbox)
    /\ UNCHANGED <<db, made, waits, queue, worker, count, running>>

RejectClosed ==
    /\ running = "yes" /\ refusing # 0 /\ Gone(refusing)
    /\ refusing' = 0
    /\ At(refusing, "closed")
    /\ UNCHANGED <<db, made, waits, inbox, queue, worker, count, running>>

\* A client that gave up has cut its prefix, or is gone before its refusal is
\* written: either ends the listener.
ListenerFails ==
    /\ running = "yes" /\ refusing = 0 /\ inbox # <<>>
    /\ Gone(Head(inbox))
    /\ running' = "listener"
    /\ UNCHANGED <<db, made, job, waits, inbox, refusing, queue, worker, count>>

-----------------------------------------------------------------------------
(* The worker of a queue: one job at a time.                               *)

TakeJob(s) ==
    /\ running = "yes" /\ worker[s] = 0 /\ queue[s] # <<>>
    /\ worker' = [worker EXCEPT ![s] = Head(queue[s])]
    /\ queue' = [queue EXCEPT ![s] = Tail(@)]
    /\ UNCHANGED <<db, made, job, waits, inbox, refusing, count, running>>

Serves(s, stage) == running = "yes" /\ worker[s] # 0 /\ job[worker[s]].stage = stage

\* read_call_ fails: BadRequest, and the service is not called.
DecodeFailsSilent(s) ==
    /\ Serves(s, "queued") /\ job[worker[s]].flaw = "body"
    /\ At(worker[s], "queued")
    /\ UNCHANGED <<db, made, waits, inbox, refusing, queue, worker, count, running>>
DecodeFails(s) ==
    /\ Serves(s, "queued") /\ job[worker[s]].flaw = "body"
    /\ Answered(worker[s], "ran", 400, {})
    /\ UNCHANGED <<db, made, waits, inbox, refusing, queue, worker, count, running>>

\* The method, under the store's mutex.
RunCall(s) ==
    /\ Serves(s, "queued") /\ job[worker[s]].flaw # "body"
    /\ LET t == worker[s]  run == Run(db, job[t].call) IN
          /\ db' = run.db
          /\ Answered(t, "ran", run.status, run.value)
    /\ UNCHANGED <<made, waits, inbox, refusing, queue, worker, count, running>>

\* finish_ and the shutdown of the sending half; a client that is gone
\* makes the write fail, which is logged and changes nothing.
WriteReplyRetried(s) ==
    /\ Serves(s, "ran")
    /\ At(worker[s], IF Gone(worker[s]) THEN "queued" ELSE "replied")
    /\ UNCHANGED <<db, made, waits, inbox, refusing, queue, worker, count, running>>
WriteReply(s) ==
    /\ Serves(s, "ran")
    /\ At(worker[s], "replied")
    /\ UNCHANGED <<db, made, waits, inbox, refusing, queue, worker, count, running>>

\* The channel read to its end, which the client makes by dropping its
\* session; then the job is counted.
JobClosedEarly(s) ==
    /\ Serves(s, "replied")
    /\ At(worker[s], "closed")
    /\ count' = count + 1
    /\ worker' = [worker EXCEPT ![s] = 0]
    /\ UNCHANGED <<db, made, waits, inbox, refusing, queue, running>>
JobClosed(s) ==
    /\ Serves(s, "replied") /\ Gone(worker[s])
    /\ At(worker[s], "closed")
    /\ count' = count + 1
    /\ worker' = [worker EXCEPT ![s] = 0]
    /\ UNCHANGED <<db, made, waits, inbox, refusing, queue, running>>

\* wait_for_count_ wins the select: the server returns.
Leave ==
    /\ running = "yes" /\ count >= ExpectedJobs
    /\ running' = "counted"
    /\ UNCHANGED <<db, made, job, waits, inbox, refusing, queue, worker, count>>

-----------------------------------------------------------------------------
Listener == Enqueue \/ Reject \/ RejectClosed \/ ListenerFails
Worker(s) ==
    TakeJob(s) \/ DecodeFails(s) \/ RunCall(s) \/ WriteReply(s) \/ JobClosed(s)

Next ==
    \/ \E c \in Clients : RpcCall(c) \/ GetReply(c) \/ GiveUp(c) \/ LosesServer(c)
    \/ Listener
    \/ \E s \in Services : Worker(s)
    \/ Leave

\* Server threads run, and a client reads the reply it waits for; nobody
\* has to call, and nobody has to give up.
Fairness ==
    /\ \A c \in Clients : WF_vars(GetReply(c)) /\ WF_vars(LosesServer(c))
    /\ WF_vars(Listener)
    /\ \A s \in Services : WF_vars(Worker(s))

Spec == Init /\ [][Next]_vars /\ Fairness

-----------------------------------------------------------------------------
Stages == {"sent", "queued", "ran", "replied", "closed"}

IsJob(j) ==
    /\ j = [client |-> j.client, call |-> j.call, flaw |-> j.flaw, stage |-> j.stage, answer |-> j.answer]
    /\ j.client \in Clients /\ j.call \in Calls /\ j.flaw \in Flaws /\ j.stage \in Stages
    /\ j.stage \in {"sent", "queued"} => j.answer = NoAnswer

TypeOK ==
    /\ made \in 0 .. MaxCalls /\ job = [t \in 1 .. made |-> job[t]]
    /\ \A t \in Tickets : IsJob(job[t])
    /\ waits \in [Clients -> 0 .. made]
    /\ inbox \in Seq(Tickets) /\ refusing \in 0 .. made
    /\ queue \in [Services -> Seq(Tickets)] /\ worker \in [Services -> 0 .. made]

Distinct(seq) == \A i, j \in DOMAIN seq : seq[i] = seq[j] => i = j

\* Where a job is tells how far it is, and a queue has its service's only.
QueueSound(s) ==
    /\ Len(queue[s]) <= QueueCap /\ Distinct(queue[s])
    /\ \A i \in DOMAIN queue[s] :
          LET t == queue[s][i] IN
          job[t].stage = "queued" /\ Routed(t) /\ job[t].call.service = s /\ worker[s] # t

WorkerSound(s) ==
    worker[s] # 0 => LET t == worker[s] IN
                     /\ job[t].stage \in {"queued", "ran", "replied"}
                     /\ Routed(t) /\ job[t].call.service = s

ListenerSound ==
    /\ Distinct(inbox)
    /\ \A i \in DOMAIN inbox : job[inbox[i]].stage = "sent"
    /\ refusing # 0 => ~Routed(refusing) /\ job[refusing].stage = "replied"

\* The jobs that were served to the end of their channels.
Counted == { t \in Tickets : job[t].stage = "closed" /\ Routed(t) }

\* The integrity of the store whatever the three workers interleave
\* (delete_workspace_ against create_session_): no session is without its
\* workspace, and no id is given twice.  The count the server leaves on is
\* that of the jobs served, each of which had one owner at a time.
JobsSound ==
    /\ TypeOK /\ ListenerSound
    /\ \A s \in Services : QueueSound(s) /\ WorkerSound(s)
    /\ count = Cardinality(Counted)
    /\ StoreSound(db)

\* A job that is not done is in somebody's hands, whoever gave up or left.
In(seq, t) == \E i \in DOMAIN seq : seq[i] = t
Held(t) == \E s \in Services : worker[s] = t
InHand(t) ==
    /\ job[t].stage = "sent" => In(inbox, t)
    /\ job[t].stage = "queued" => Held(t) \/ \E s \in Services : In(queue[s], t)
    /\ job[t].stage = "ran" => Held(t)
    /\ job[t].stage = "replied" => Held(t) \/ refusing = t

\* What each of them waits for: a listener for room in the queue of the
\* channel it has, and as a worker does, for the client to leave.
ClientGoesOn(c) ==
    waits[c] # 0 /\ (running # "yes" \/ job[waits[c]].stage \in {"replied", "closed"})
ListenerGoesOn ==
    /\ running = "yes"
    /\ IF refusing # 0 THEN Gone(refusing)
       ELSE inbox # <<>> /\ (Routed(Head(inbox)) =>
                                 Len(queue[job[Head(inbox)].call.service]) < QueueCap)
WorkerGoesOn(s) ==
    /\ running = "yes"
    /\ IF worker[s] = 0 THEN queue[s] # <<>>
       ELSE job[worker[s]].stage = "replied" => Gone(worker[s])

\* While a client waits somebody goes on, though a full queue stops the
\* listener for every service, and a client that stays stops a worker.
SomebodyGoesOn ==
    (\E c \in Clients : waits[c] # 0) =>
        \/ ListenerGoesOn
        \/ \E c \in Clients : ClientGoesOn(c)
        \/ \E s \in Services : WorkerGoesOn(s)

\* What is true together, and stays so (read_call_ to the count of the job):
\* the store and its jobs are sound, none is lost, and nobody is stuck.
StoreInv == JobsSound /\ (\A t \in Tickets : InHand(t)) /\ SomebodyGoesOn

\* The demo implements StoreService: through queues, refusals, cut requests
\* and clients that leave, a call takes effect at most once, and what its
\* client reads is the answer of that effect.
Promise == INSTANCE StoreService WITH
    pending <- { [ticket |-> t, call |-> job[t].call] :
                     t \in { u \in Tickets : job[u].answer = NoAnswer } },
    given <- [c \in Clients |-> IF waits[c] = 0 THEN NoAnswer ELSE job[waits[c]].answer]
AtMostOnce == Promise!Spec

\* The server never leaves on its count while a client still waits for a
\* reply (serve_: K_EXPECTED_JOBS is the number of calls of the script, and
\* a job is counted after its channel ended).
ServerOutlivesCalls ==
    [][running' = "counted" /\ running = "yes" => \A c \in Clients : waits[c] = 0]_vars

\* Every call comes back: each of the one-job-at-a-time loops gets past the
\* job at its head (a full queue holds up the listener, and with it the
\* channels of the other services, but not for good).
EveryCallReturns == \A c \in Clients : waits[c] # 0 ~> waits[c] = 0
=============================================================================
