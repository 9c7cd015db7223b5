--------------------------- MODULE RpcDemoProofs ---------------------------
(***************************************************************************)
(* The demo's server for any clients, calls, queue capacity and expected   *)
(* count: the jobs have one owner at a time and are not lost, the store    *)
(* stays sound, the count is that of the jobs served, somebody goes on     *)
(* while a client waits, and all of it is what StoreService promises.      *)
(***************************************************************************)
EXTENDS RpcDemo, Integers, FiniteSetTheorems, TLAPS

-----------------------------------------------------------------------------
(* The store keeps its integrity, whatever its methods are called with and *)
(* in whatever order.                                                      *)

\* No table is the whole of a store's beginning.
LEMMA EmptySound == StoreSound(EmptyStore)
BY DEF StoreSound, EmptyStore

\* A workspace is added under an id of its own, changed in place, or removed
\* when no session is in it.
LEMMA WorkspaceMethodsSound ==
    ASSUME NEW store, StoreSound(store), NEW w, NEW name
    PROVE  /\ StoreSound(CreateWorkspace(store, name).db)
           /\ StoreSound(RenameWorkspace(store, w, name).db)
           /\ StoreSound(DeleteWorkspace(store, w).db)
<1>1. StoreSound(CreateWorkspace(store, name).db)
  <2>. DEFINE more == With(store.workspaces, store.nextW, name)
              e == [nextW |-> store.nextW + 1, nextS |-> store.nextS, workspaces |-> more, sessions |-> store.sessions]
  <2>1. CreateWorkspace(store, name).db = e
    <3>1. CreateWorkspace(store, name).db = [store EXCEPT !.nextW = store.nextW + 1, !.workspaces = more]
      BY DEF CreateWorkspace, Reply
    <3>2. store = [nextW |-> store.nextW, nextS |-> store.nextS, workspaces |-> store.workspaces, sessions |-> store.sessions]
      BY DEF StoreSound
    <3>. HIDE DEF more
    <3>3. QED
      BY <3>1, <3>2
  <2>2. DOMAIN more = DOMAIN store.workspaces \cup {store.nextW} /\ DOMAIN more \subseteq 1 .. store.nextW
    <3>1. store.nextW \in Nat \ {0} /\ DOMAIN store.workspaces \subseteq 1 .. store.nextW - 1
      BY DEF StoreSound
    <3>2. QED
      BY <3>1 DEF With
  <2>. HIDE DEF more
  <2>3. StoreSound(e)
    BY <2>2 DEF StoreSound
  <2>4. QED
    BY <2>1, <2>3
<1>2. StoreSound(RenameWorkspace(store, w, name).db)
  BY DEF RenameWorkspace, StoreSound, Reply, Refuse
<1>3. StoreSound(DeleteWorkspace(store, w).db)
  BY DEF DeleteWorkspace, Without, SessionsOf, StoreSound, Reply, Refuse
<1>4. QED
  BY <1>1, <1>2, <1>3

\* A session is added to a workspace that is there, keeps it when it is
\* renamed, or is removed.
LEMMA SessionMethodsSound ==
    ASSUME NEW store, StoreSound(store), NEW w, NEW s, NEW title
    PROVE  /\ StoreSound(CreateSession(store, w, title).db)
           /\ StoreSound(RenameSession(store, s, title).db)
           /\ StoreSound(DeleteSession(store, s).db)
<1>1. StoreSound(CreateSession(store, w, title).db)
  <2>. DEFINE row == [workspace |-> w, title |-> title]
              more == With(store.sessions, store.nextS, row)
              e == [nextW |-> store.nextW, nextS |-> store.nextS + 1, workspaces |-> store.workspaces, sessions |-> more]
  <2>1. CASE w \notin DOMAIN store.workspaces
    BY <2>1 DEF CreateSession, Refuse
  <2>2. CASE w \in DOMAIN store.workspaces
    <3>1. CreateSession(store, w, title).db = e
      <4>1. CreateSession(store, w, title).db = [store EXCEPT !.nextS = store.nextS + 1, !.sessions = more]
        BY <2>2 DEF CreateSession, Reply
      <4>2. store = [nextW |-> store.nextW, nextS |-> store.nextS, workspaces |-> store.workspaces, sessions |-> store.sessions]
        BY DEF StoreSound
      <4>. HIDE DEF more
      <4>3. QED
        BY <4>1, <4>2
    <3>2. /\ DOMAIN more = DOMAIN store.sessions \cup {store.nextS} /\ DOMAIN more \subseteq 1 .. store.nextS
          /\ more[store.nextS] = row /\ \A x \in DOMAIN store.sessions : more[x] = store.sessions[x]
      <4>1. store.nextS \in Nat \ {0} /\ DOMAIN store.sessions \subseteq 1 .. store.nextS - 1
        BY DEF StoreSound
      <4>2. QED
        BY <4>1 DEF With
    <3>. HIDE DEF more
    <3>3. ASSUME NEW x \in DOMAIN more
          PROVE  /\ more[x] = [workspace |-> more[x].workspace, title |-> more[x].title]
                 /\ more[x].workspace \in DOMAIN store.workspaces
      BY <2>2, <3>2 DEF StoreSound
    <3>4. StoreSound(e)
      BY <3>2, <3>3 DEF StoreSound
    <3>5. QED
      BY <3>1, <3>4
  <2>3. QED
    BY <2>1, <2>2
<1>2. StoreSound(RenameSession(store, s, title).db)
  BY DEF RenameSession, StoreSound, Reply, Refuse
<1>3. StoreSound(DeleteSession(store, s).db)
  BY DEF DeleteSession, Without, StoreSound, Reply
<1>4. QED
  BY <1>1, <1>2, <1>3

\* Whatever is called leaves the store sound.
LEMMA RunSound ==
    ASSUME NEW store, StoreSound(store), NEW call, call.method \in Methods
    PROVE  StoreSound(Run(store, call).db)
<1>1. StoreSound(DispatchWorkspace(store, call).db)
  BY WorkspaceMethodsSound DEF DispatchWorkspace, ListWorkspaces, GetWorkspace, Reply, Methods
<1>2. StoreSound(DispatchSession(store, call).db)
  BY SessionMethodsSound DEF DispatchSession, ListSessions, GetSession, Reply, Methods
<1>3. QED
  BY <1>1, <1>2 DEF Run

-----------------------------------------------------------------------------
(* The service around it.                                                  *)

\* A step that moves the job of one ticket to a stage and leaves its call.
Moves(t, stage) ==
    /\ made' = made /\ DOMAIN job' = DOMAIN job
    /\ \A u \in Tickets : u # t => job'[u] = job[u]
    /\ job'[t].stage = stage /\ job'[t].call = job[t].call
    /\ job'[t].client = job[t].client
    /\ (job'[t].flaw = "method") = (job[t].flaw = "method")

\* The service has nothing to do with the ticket.
Free(s, t) == worker[s] # t /\ \A i \in DOMAIN queue[s] : queue[s][i] # t

LEMMA SeqMember == ASSUME NEW S, NEW q \in Seq(S), NEW i \in DOMAIN q PROVE q[i] \in S
OBVIOUS

\* At and Answered move a job and keep it one.
LEMMA StageMoves ==
    ASSUME TypeOK, NEW t \in Tickets, NEW stage \in Stages \ {"sent"}, NEW a, made' = made,
           stage = "queued" => job[t].stage = "sent" /\ job' = [job EXCEPT ![t].stage = stage],
           \/ job' = [job EXCEPT ![t].stage = stage]
           \/ job' = [job EXCEPT ![t].stage = stage, ![t].answer = a]
    PROVE  Moves(t, stage) /\ job' = [u \in 1 .. made |-> job'[u]] /\ \A u \in Tickets' : IsJob(job'[u])
<1>1. job = [u \in 1 .. made |-> job[u]] /\ IsJob(job[t]) /\ Tickets = 1 .. made
  BY DEF TypeOK, Tickets
<1>. DEFINE j == job[t]
            k == job'[t]
<1>2. j = [client |-> j.client, call |-> j.call, flaw |-> j.flaw, stage |-> j.stage, answer |-> j.answer]
  BY <1>1 DEF IsJob
<1>3. k = [j EXCEPT !.stage = stage] \/ k = [j EXCEPT !.stage = stage, !.answer = a]
  BY <1>1
<1>4. job' = [u \in 1 .. made |-> job'[u]] /\ \A u \in 1 .. made : u # t => job'[u] = job[u]
  BY <1>1
<1>. HIDE DEF j, k
<1>5. /\ k.stage = stage /\ k.call = j.call /\ k.flaw = j.flaw /\ k.client = j.client
      /\ k = [client |-> k.client, call |-> k.call, flaw |-> k.flaw, stage |-> k.stage, answer |-> k.answer]
  BY <1>2, <1>3
<1>6. IsJob(k)
  <2>1. stage = "queued" => k.answer = NoAnswer
    <3>1. stage = "queued" => k = [j EXCEPT !.stage = stage] /\ j.stage = "sent"
      BY <1>1 DEF j, k
    <3>2. k = [j EXCEPT !.stage = stage] => k.answer = j.answer
      BY <1>2
    <3>3. j.stage = "sent" => j.answer = NoAnswer
      BY <1>1 DEF IsJob, j
    <3>4. QED
      BY <3>1, <3>2, <3>3
  <2>2. QED
    BY <1>1, <1>5, <2>1 DEF IsJob, j
<1>7. \A u \in 1 .. made : IsJob(job'[u])
  BY <1>1, <1>4, <1>6 DEF TypeOK, k
<1>8. Tickets' = 1 .. made /\ DOMAIN job' = DOMAIN job
  BY <1>1, <1>4 DEF Tickets
<1>9. Moves(t, stage)
  BY <1>1, <1>4, <1>5, <1>8 DEF Moves, j, k
<1>10. QED
  BY <1>4, <1>7, <1>8, <1>9

\* A service that has nothing to do with a ticket stays sound when it moves.
LEMMA FreeStaysSound ==
    ASSUME TypeOK, NEW t \in Tickets, NEW stage, Moves(t, stage), NEW s \in Services,
           QueueSound(s), WorkerSound(s), Free(s, t),
           queue'[s] = queue[s], worker'[s] = worker[s]
    PROVE  QueueSound(s)' /\ WorkerSound(s)'
<1>1. /\ queue[s] \in Seq(Tickets) /\ worker[s] \in 0 .. made /\ Tickets = 1 .. made
      /\ Tickets' = Tickets
  BY DEF TypeOK, Tickets, Moves
<1>2. ASSUME NEW i \in DOMAIN queue[s]
      PROVE  /\ job'[queue[s][i]].stage = "queued" /\ job'[queue[s][i]].flaw # "method"
             /\ job'[queue[s][i]].call.service = s /\ worker'[s] # queue[s][i]
  <2>1. queue[s][i] \in Tickets /\ queue[s][i] # t
    BY <1>1, SeqMember DEF Free
  <2>2. job'[queue[s][i]] = job[queue[s][i]]
    BY <2>1 DEF Moves
  <2>3. QED
    BY <1>1, <2>1, <2>2 DEF QueueSound, Routed
<1>3. QueueSound(s)'
  BY <1>1, <1>2 DEF QueueSound, Distinct, Routed
<1>4. WorkerSound(s)'
  BY <1>1 DEF WorkerSound, Free, Moves, Routed
<1>5. QED
  BY <1>3, <1>4

\* A job that was sent or cannot be routed is nobody's, and a worker's job is
\* nobody else's.
LEMMA OneOwner ==
    ASSUME JobsSound, NEW t \in Tickets, NEW s \in Services
    PROVE  /\ job[t].stage = "sent" \/ ~Routed(t) => Free(s, t)
           /\ worker[s] = t => /\ \A i \in DOMAIN queue[s] : queue[s][i] # t
                               /\ \A q \in Services \ {s} : Free(q, t)
                               /\ refusing # t /\ \A i \in DOMAIN inbox : inbox[i] # t
           /\ job[t].stage = "sent" => refusing # t
<1>1. t # 0 /\ ListenerSound /\ \A q \in Services : QueueSound(q) /\ WorkerSound(q)
  BY DEF JobsSound, TypeOK, Tickets
<1>2. QED
  BY <1>1 DEF QueueSound, WorkerSound, ListenerSound, Free

\* The queues and the inbox are used first in, first out.
LEMMA TailDistinct ==
    ASSUME NEW S, NEW q \in Seq(S), q # <<>>, Distinct(q)
    PROVE  /\ Tail(q) \in Seq(S) /\ Head(q) \in S /\ Distinct(Tail(q)) /\ Len(Tail(q)) = Len(q) - 1
           /\ \A i \in DOMAIN Tail(q) : \E j \in DOMAIN q : Tail(q)[i] = q[j] /\ q[j] # Head(q)
           /\ \E i \in DOMAIN q : Head(q) = q[i]
<1>1. /\ Len(q) \in Nat \ {0} /\ Tail(q) \in Seq(S) /\ Len(Tail(q)) = Len(q) - 1 /\ Head(q) = q[1]
      /\ \A i \in 1 .. Len(q) - 1 : Tail(q)[i] = q[i + 1]
  OBVIOUS
<1>2. DOMAIN Tail(q) = 1 .. Len(q) - 1 /\ DOMAIN q = 1 .. Len(q)
  BY <1>1
<1>3. \A i, j \in 1 .. Len(q) : q[i] = q[j] => i = j
  BY <1>2 DEF Distinct
<1>4. \A i \in 1 .. Len(q) - 1 : Tail(q)[i] = q[i + 1] /\ q[i + 1] # Head(q) /\ i + 1 \in 1 .. Len(q)
  BY <1>1, <1>3
<1>5. Distinct(Tail(q))
  <2>1. ASSUME NEW i \in 1 .. Len(q) - 1, NEW j \in 1 .. Len(q) - 1, Tail(q)[i] = Tail(q)[j] PROVE i = j
    <3>1. q[i + 1] = q[j + 1]
      BY <1>1, <2>1
    <3>2. i + 1 = j + 1
      BY <1>3, <1>4, <3>1
    <3>3. QED
      BY <1>1, <3>2
  <2>2. QED
    BY <1>2, <2>1 DEF Distinct
<1>6. Head(q) \in S /\ 1 \in DOMAIN q
  BY <1>1, <1>2
<1>7. QED
  BY <1>1, <1>2, <1>4, <1>5, <1>6

LEMMA AppendDistinct ==
    ASSUME NEW S, NEW q \in Seq(S), NEW e \in S, Distinct(q), \A i \in DOMAIN q : q[i] # e
    PROVE  /\ Append(q, e) \in Seq(S) /\ Distinct(Append(q, e)) /\ Len(Append(q, e)) = Len(q) + 1
           /\ \A i \in DOMAIN Append(q, e) :
                 Append(q, e)[i] = e \/ (i \in DOMAIN q /\ Append(q, e)[i] = q[i])
<1>. DEFINE a == Append(q, e)
<1>1. /\ Len(q) \in Nat /\ a \in Seq(S) /\ Len(a) = Len(q) + 1 /\ a[Len(q) + 1] = e
      /\ \A i \in 1 .. Len(q) : a[i] = q[i]
  OBVIOUS
<1>. HIDE DEF a
<1>2. DOMAIN a = 1 .. Len(q) + 1 /\ DOMAIN q = 1 .. Len(q)
  BY <1>1
<1>3. \A i \in DOMAIN a : (i = Len(q) + 1 /\ a[i] = e) \/ (i \in DOMAIN q /\ a[i] = q[i])
  BY <1>1, <1>2
<1>4. Distinct(a)
  BY <1>1, <1>2, <1>3 DEF Distinct
<1>5. QED
  BY <1>1, <1>2, <1>3, <1>4 DEF a

\* The count is untouched by a step that closes no job that has a service.
LEMMA CountKept ==
    ASSUME TypeOK, NEW t \in Tickets, NEW stage, Moves(t, stage),
           ~Routed(t) \/ (stage # "closed" /\ job[t].stage # "closed")
    PROVE  Counted' = Counted
<1>1. Tickets' = Tickets
  BY DEF Tickets, Moves
<1>2. \A u \in Tickets : (job'[u].stage = "closed" /\ Routed(u)') <=> (job[u].stage = "closed" /\ Routed(u))
  BY DEF Moves, Routed
<1>3. QED
  BY <1>1, <1>2 DEF Counted

\* The worker's own steps: the job it has moves on, and nothing else does.
LEMMA WorkerMoves ==
    ASSUME JobsSound, NEW s \in Services, worker[s] # 0,
           NEW stage \in {"ran", "replied"}, NEW a,
           job[worker[s]].stage # "closed",
           UNCHANGED <<made, waits, inbox, refusing, queue, worker, count>>,
           \/ job' = [job EXCEPT ![worker[s]].stage = stage]
           \/ job' = [job EXCEPT ![worker[s]].stage = stage, ![worker[s]].answer = a],
           StoreSound(db)'
    PROVE  JobsSound'
<1>. DEFINE t == worker[s]
<1>1. /\ TypeOK /\ t \in Tickets /\ Tickets = 1 .. made
      /\ ListenerSound /\ \A q \in Services : QueueSound(q) /\ WorkerSound(q)
  <2>1. TypeOK /\ Tickets = 1 .. made /\ t \in 0 .. made
    BY DEF JobsSound, TypeOK, Tickets
  <2>2. QED
    BY <2>1 DEF JobsSound
<1>2. Moves(t, stage) /\ job' = [u \in 1 .. made |-> job'[u]] /\ \A u \in Tickets' : IsJob(job'[u])
  BY <1>1, StageMoves DEF Stages
<1>3. /\ \A i \in DOMAIN queue[s] : queue[s][i] # t
      /\ \A q \in Services \ {s} : Free(q, t)
      /\ refusing # t /\ \A i \in DOMAIN inbox : inbox[i] # t
  BY <1>1, OneOwner
<1>. HIDE DEF t
<1>4. Tickets' = Tickets
  BY <1>2 DEF Moves, Tickets
<1>5. TypeOK'
  BY <1>1, <1>2, <1>4 DEF TypeOK
<1>6. ListenerSound'
  <2>1. inbox \in Seq(Tickets) /\ refusing \in 0 .. made
    BY <1>1 DEF TypeOK
  <2>2. ASSUME NEW i \in DOMAIN inbox PROVE job'[inbox[i]].stage = "sent"
    <3>1. inbox[i] \in Tickets /\ inbox[i] # t
      BY <1>3, <2>1, SeqMember
    <3>2. QED
      BY <1>1, <1>2, <3>1 DEF Moves, ListenerSound
  <2>3. refusing # 0 => job'[refusing] = job[refusing]
    BY <1>1, <1>2, <1>3, <2>1 DEF Moves
  <2>4. QED
    BY <1>1, <2>2, <2>3 DEF ListenerSound, Routed
<1>7. ASSUME NEW q \in Services, q # s PROVE QueueSound(q)' /\ WorkerSound(q)'
  BY <1>1, <1>2, <1>3, <1>7, FreeStaysSound
<1>8. QueueSound(s)'
  <2>1. ASSUME NEW i \in DOMAIN queue[s] PROVE job'[queue[s][i]] = job[queue[s][i]]
    <3>1. queue[s] \in Seq(Tickets)
      BY <1>1 DEF TypeOK
    <3>2. queue[s][i] \in Tickets
      BY <3>1, SeqMember
    <3>3. QED
      BY <1>2, <1>3, <3>2 DEF Moves
  <2>2. QED
    BY <1>1, <2>1 DEF QueueSound, Routed
<1>9. WorkerSound(s)'
  BY <1>1, <1>2 DEF WorkerSound, Moves, Routed, t
<1>10. Counted' = Counted
  BY <1>1, <1>2, CountKept DEF t
<1>11. count' = Cardinality(Counted')
  BY <1>10 DEF JobsSound
<1>12. QED
  BY <1>5, <1>6, <1>7, <1>8, <1>9, <1>11 DEF JobsSound

LEMMA ServingKeeps ==
    ASSUME JobsSound, NEW s \in Services, DecodeFails(s) \/ RunCall(s) \/ WriteReply(s)
    PROVE  JobsSound'
<1>1. CASE DecodeFails(s)
  <2>1. StoreSound(db)'
    BY <1>1 DEF DecodeFails, JobsSound, StoreSound
  <2>2. QED
    BY <1>1, <2>1, WorkerMoves DEF DecodeFails, Serves, Answered
<1>2. CASE RunCall(s)
  <2>. DEFINE t == worker[s]
              run == Run(db, job[t].call)
  <2>1. t \in Tickets /\ TypeOK
    BY <1>2 DEF RunCall, Serves, JobsSound, TypeOK, Tickets
  <2>2. job[t].call.method \in Methods
    BY <2>1, DemoAssumption DEF TypeOK, IsJob, Calls
  <2>3. StoreSound(run.db)
    BY <2>2, RunSound DEF JobsSound
  <2>. HIDE DEF run
  <2>4. StoreSound(db)'
    BY <1>2, <2>3 DEF RunCall, StoreSound, run
  <2>5. QED
    BY <1>2, <2>4, WorkerMoves DEF RunCall, Serves, Answered
<1>3. CASE WriteReply(s)
  <2>1. StoreSound(db)'
    BY <1>3 DEF WriteReply, JobsSound, StoreSound
  <2>2. QED
    BY <1>3, <2>1, WorkerMoves DEF WriteReply, Serves, At
<1>4. QED
  BY <1>1, <1>2, <1>3

\* The job is counted when its channel ended, and leaves its worker.
LEMMA JobClosedKeeps ==
    ASSUME JobsSound, NEW s \in Services, JobClosed(s)
    PROVE  JobsSound'
<1>. DEFINE t == worker[s]
<1>1. /\ TypeOK /\ t \in Tickets /\ Tickets = 1 .. made
      /\ ListenerSound /\ \A q \in Services : QueueSound(q) /\ WorkerSound(q)
  BY DEF JobsSound, TypeOK, Tickets, JobClosed, Serves
<1>2. UNCHANGED <<db, made, waits, inbox, refusing, queue, running>>
  BY DEF JobClosed
<1>3. Moves(t, "closed") /\ job' = [u \in 1 .. made |-> job'[u]] /\ \A u \in Tickets' : IsJob(job'[u])
  <2>1. "closed" \in Stages \ {"sent"} /\ "closed" # "queued"
    BY DEF Stages
  <2>2. QED
    BY <1>1, <1>2, <2>1, StageMoves DEF JobClosed, At
<1>4. /\ \A i \in DOMAIN queue[s] : queue[s][i] # t
      /\ \A q \in Services \ {s} : Free(q, t)
      /\ refusing # t /\ \A i \in DOMAIN inbox : inbox[i] # t
  BY <1>1, OneOwner
<1>5. worker' = [worker EXCEPT ![s] = 0] /\ worker \in [Services -> 0 .. made]
  BY <1>1 DEF JobClosed, TypeOK
<1>6. Routed(t) /\ job[t].stage = "replied"
  BY <1>1 DEF WorkerSound, JobClosed, Serves
<1>. HIDE DEF t
<1>7. Tickets' = Tickets
  BY <1>3 DEF Moves, Tickets
<1>8. TypeOK'
  BY <1>1, <1>2, <1>3, <1>5, <1>7 DEF TypeOK
<1>9. ListenerSound'
  <2>1. inbox \in Seq(Tickets) /\ refusing \in 0 .. made
    BY <1>1 DEF TypeOK
  <2>2. ASSUME NEW i \in DOMAIN inbox PROVE job'[inbox[i]].stage = "sent"
    <3>1. inbox[i] \in Tickets /\ inbox[i] # t
      BY <1>4, <2>1, SeqMember
    <3>2. QED
      BY <1>1, <1>3, <3>1 DEF Moves, ListenerSound
  <2>3. refusing # 0 => job'[refusing] = job[refusing]
    BY <1>1, <1>3, <1>4, <2>1 DEF Moves
  <2>4. QED
    BY <1>1, <1>2, <2>2, <2>3 DEF ListenerSound, Routed
<1>10. ASSUME NEW q \in Services, q # s PROVE QueueSound(q)' /\ WorkerSound(q)'
  <2>1. worker'[q] = worker[q] /\ queue'[q] = queue[q] /\ Free(q, t)
    BY <1>2, <1>4, <1>5, <1>10
  <2>2. QED
    BY <1>1, <1>3, <2>1, FreeStaysSound
<1>11. QueueSound(s)' /\ WorkerSound(s)'
  <2>1. ASSUME NEW i \in DOMAIN queue[s]
        PROVE  job'[queue[s][i]] = job[queue[s][i]] /\ queue[s][i] # 0
    <3>1. queue[s] \in Seq(Tickets)
      BY <1>1 DEF TypeOK
    <3>2. queue[s][i] \in Tickets
      BY <3>1, SeqMember
    <3>3. QED
      BY <1>1, <1>3, <1>4, <3>2 DEF Moves
  <2>2. worker'[s] = 0
    BY <1>5
  <2>3. QED
    BY <1>1, <1>2, <2>1, <2>2 DEF QueueSound, WorkerSound, Routed
<1>12. count' = Cardinality(Counted')
  <2>1. Counted' = Counted \cup {t} /\ t \notin Counted
    BY <1>1, <1>3, <1>6, <1>7 DEF Counted, Moves, Routed
  <2>2. IsFiniteSet(Counted)
    <3>1. made \in Int /\ 1 \in Int
      BY <1>1, DemoAssumption DEF TypeOK
    <3>2. IsFiniteSet(1 .. made)
      BY <3>1, FS_Interval
    <3>3. Counted \subseteq 1 .. made
      BY <1>1 DEF Counted
    <3>4. QED
      BY <3>2, <3>3, FS_Subset
  <2>3. QED
    BY <2>1, <2>2, FS_AddElement DEF JobClosed, JobsSound
<1>13. StoreSound(db)'
  BY <1>2 DEF JobsSound, StoreSound
<1>14. QED
  BY <1>8, <1>9, <1>10, <1>11, <1>12, <1>13 DEF JobsSound

\* A job is one owner's before and after a worker takes it.
LEMMA TakeJobKeeps ==
    ASSUME JobsSound, NEW s \in Services, TakeJob(s)
    PROVE  JobsSound'
<1>. DEFINE t == Head(queue[s])
<1>1. /\ TypeOK /\ Tickets = 1 .. made /\ queue[s] \in Seq(Tickets) /\ queue[s] # <<>>
      /\ ListenerSound /\ \A q \in Services : QueueSound(q) /\ WorkerSound(q)
  BY DEF JobsSound, TypeOK, Tickets, TakeJob
<1>2. UNCHANGED <<db, made, job, waits, inbox, refusing, count, running>>
  BY DEF TakeJob
<1>3. Distinct(queue[s]) /\ Len(queue[s]) \in Nat
  BY <1>1 DEF QueueSound
<1>4. /\ Tail(queue[s]) \in Seq(Tickets) /\ t \in Tickets /\ Distinct(Tail(queue[s]))
      /\ Len(Tail(queue[s])) = Len(queue[s]) - 1
      /\ \A i \in DOMAIN Tail(queue[s]) :
            \E j \in DOMAIN queue[s] : Tail(queue[s])[i] = queue[s][j] /\ queue[s][j] # t
      /\ \E i \in DOMAIN queue[s] : t = queue[s][i]
  BY <1>1, <1>3, TailDistinct
<1>5. /\ worker' = [worker EXCEPT ![s] = t] /\ worker \in [Services -> 0 .. made]
      /\ queue' = [queue EXCEPT ![s] = Tail(queue[s])] /\ queue \in [Services -> Seq(Tickets)]
  BY <1>1 DEF TakeJob, TypeOK
<1>6. job[t].stage = "queued" /\ Routed(t) /\ job[t].call.service = s
  BY <1>1, <1>4 DEF QueueSound
<1>. HIDE DEF t
<1>7. Tickets' = Tickets
  BY <1>2 DEF Tickets
<1>8. TypeOK'
  BY <1>1, <1>2, <1>4, <1>5, <1>7 DEF TypeOK, IsJob
<1>9. ListenerSound'
  BY <1>1, <1>2 DEF ListenerSound, Routed
<1>10. ASSUME NEW q \in Services, q # s PROVE QueueSound(q)' /\ WorkerSound(q)'
  <2>1. worker'[q] = worker[q] /\ queue'[q] = queue[q]
    BY <1>5, <1>10
  <2>2. QED
    BY <1>1, <1>2, <2>1 DEF QueueSound, WorkerSound, Routed
<1>11. QueueSound(s)'
  <2>1. queue'[s] = Tail(queue[s]) /\ worker'[s] = t
    BY <1>5
  <2>2. ASSUME NEW i \in DOMAIN Tail(queue[s])
        PROVE  /\ job[Tail(queue[s])[i]].stage = "queued" /\ Routed(Tail(queue[s])[i])
               /\ job[Tail(queue[s])[i]].call.service = s /\ Tail(queue[s])[i] # t
    BY <1>1, <1>4 DEF QueueSound
  <2>3. Len(Tail(queue[s])) <= QueueCap
    BY <1>1, <1>3, <1>4, DemoAssumption DEF QueueSound
  <2>4. QED
    BY <1>2, <1>4, <2>1, <2>2, <2>3 DEF QueueSound, Routed
<1>12. WorkerSound(s)'
  BY <1>2, <1>5, <1>6 DEF WorkerSound, Routed
<1>13. StoreSound(db)' /\ count' = Cardinality(Counted')
  <2>1. Counted' = Counted
    BY <1>2, <1>7 DEF Counted, Routed
  <2>2. QED
    BY <1>2, <2>1 DEF JobsSound, StoreSound
<1>14. QED
  BY <1>8, <1>9, <1>10, <1>11, <1>12, <1>13 DEF JobsSound

\* The channel the listener accepts is in nobody's hands yet.
LEMMA InboxHead ==
    ASSUME JobsSound, inbox # <<>>
    PROVE  /\ Head(inbox) \in Tickets /\ job[Head(inbox)].stage = "sent" /\ refusing # Head(inbox)
           /\ \A s \in Services : Free(s, Head(inbox))
           /\ Tail(inbox) \in Seq(Tickets) /\ Distinct(Tail(inbox))
           /\ \A i \in DOMAIN Tail(inbox) :
                 /\ Tail(inbox)[i] \in Tickets /\ Tail(inbox)[i] # Head(inbox)
                 /\ job[Tail(inbox)[i]].stage = "sent"
<1>1. /\ inbox \in Seq(Tickets) /\ Distinct(inbox)
      /\ \A i \in DOMAIN inbox : job[inbox[i]].stage = "sent"
  BY DEF JobsSound, TypeOK, ListenerSound
<1>2. /\ Tail(inbox) \in Seq(Tickets) /\ Head(inbox) \in Tickets /\ Distinct(Tail(inbox))
      /\ \A i \in DOMAIN Tail(inbox) :
            \E j \in DOMAIN inbox : Tail(inbox)[i] = inbox[j] /\ inbox[j] # Head(inbox)
      /\ \E i \in DOMAIN inbox : Head(inbox) = inbox[i]
  BY <1>1, TailDistinct
<1>3. job[Head(inbox)].stage = "sent"
  BY <1>1, <1>2
<1>4. ASSUME NEW i \in DOMAIN Tail(inbox)
      PROVE  /\ Tail(inbox)[i] \in Tickets /\ Tail(inbox)[i] # Head(inbox)
             /\ job[Tail(inbox)[i]].stage = "sent"
  BY <1>1, <1>2, SeqMember
<1>5. ASSUME NEW s \in Services PROVE Free(s, Head(inbox)) /\ refusing # Head(inbox)
  BY <1>2, <1>3, OneOwner
<1>6. refusing # Head(inbox)
  BY <1>5 DEF Services
<1>7. QED
  BY <1>2, <1>3, <1>4, <1>5, <1>6

\* What the listener leaves when the head of its inbox moves to a stage.
LEMMA AcceptKeeps ==
    ASSUME JobsSound, inbox # <<>>, NEW stage, stage # "closed", Moves(Head(inbox), stage),
           inbox' = Tail(inbox), refusing' = refusing \/ (refusing = 0 /\ refusing' = Head(inbox)),
           refusing' # refusing => ~Routed(Head(inbox)) /\ stage = "replied"
    PROVE  ListenerSound' /\ Counted' = Counted /\ inbox' \in Seq(Tickets')
<1>. DEFINE t == Head(inbox)
            rest == Tail(inbox)
<1>1. /\ TypeOK /\ ListenerSound /\ Tickets = 1 .. made /\ refusing \in 0 .. made
  BY DEF JobsSound, TypeOK, Tickets
<1>2. /\ t \in Tickets /\ job[t].stage = "sent" /\ refusing # t
      /\ rest \in Seq(Tickets) /\ Distinct(rest)
      /\ \A i \in DOMAIN rest : rest[i] \in Tickets /\ rest[i] # t /\ job[rest[i]].stage = "sent"
  BY InboxHead
<1>. HIDE DEF t, rest
<1>3. Moves(t, stage) /\ inbox' = rest /\ Tickets' = Tickets
  BY DEF t, rest, Moves, Tickets
<1>4. \A i \in DOMAIN rest : job'[rest[i]].stage = "sent"
  BY <1>2, <1>3 DEF Moves
<1>5. refusing' # 0 => ~Routed(refusing)' /\ job'[refusing'].stage = "replied"
  <2>1. CASE refusing' = refusing
    <3>1. refusing # 0 => job'[refusing] = job[refusing]
      BY <1>1, <1>2, <1>3 DEF Moves
    <3>2. QED
      BY <1>1, <2>1, <3>1 DEF ListenerSound, Routed
  <2>2. CASE refusing' # refusing
    <3>1. refusing' = t /\ ~Routed(t) /\ stage = "replied"
      BY <2>2 DEF t
    <3>2. QED
      BY <1>3, <3>1 DEF Moves, Routed
  <2>3. QED
    BY <2>1, <2>2
<1>6. ListenerSound'
  BY <1>2, <1>3, <1>4, <1>5 DEF ListenerSound
<1>7. Counted' = Counted
  BY <1>1, <1>2, <1>3, CountKept
<1>8. QED
  BY <1>2, <1>3, <1>6, <1>7

LEMMA EnqueueKeeps ==
    ASSUME JobsSound, Enqueue
    PROVE  JobsSound'
<1>t. PICK t \in Tickets : t = Head(inbox)
  BY InboxHead DEF Enqueue
<1>s. PICK s \in Services : s = job[t].call.service
  BY <1>t DEF Enqueue, Routed
<1>1. /\ TypeOK /\ Tickets = 1 .. made
      /\ \A q \in Services : QueueSound(q) /\ WorkerSound(q)
  BY DEF JobsSound, TypeOK, Tickets
<1>2. /\ UNCHANGED <<db, made, waits, refusing, worker, count>> /\ inbox # <<>> /\ inbox' = Tail(inbox)
      /\ Routed(t) /\ Len(queue[s]) < QueueCap
      /\ queue' = [queue EXCEPT ![s] = Append(queue[s], t)] /\ job' = [job EXCEPT ![t].stage = "queued"]
  BY <1>t, <1>s DEF Enqueue, At
<1>3. t \in Tickets /\ job[t].stage = "sent" /\ \A q \in Services : Free(q, t)
  BY <1>2, <1>t, InboxHead
<1>4. Moves(t, "queued") /\ job' = [u \in 1 .. made |-> job'[u]] /\ \A u \in Tickets' : IsJob(job'[u])
  BY <1>1, <1>2, <1>3, StageMoves DEF Stages
<1>5. ListenerSound' /\ Counted' = Counted /\ inbox' \in Seq(Tickets')
  BY <1>2, <1>4, <1>t, AcceptKeeps
<1>6. s \in Services /\ queue \in [Services -> Seq(Tickets)] /\ queue[s] \in Seq(Tickets)
  BY <1>1, <1>2 DEF Routed, TypeOK
<1>7. Distinct(queue[s]) /\ \A i \in DOMAIN queue[s] : queue[s][i] # t
  BY <1>1, <1>3, <1>6 DEF QueueSound, Free
<1>8. /\ Append(queue[s], t) \in Seq(Tickets) /\ Distinct(Append(queue[s], t))
      /\ Len(Append(queue[s], t)) = Len(queue[s]) + 1
      /\ \A i \in DOMAIN Append(queue[s], t) :
            Append(queue[s], t)[i] = t \/ (i \in DOMAIN queue[s] /\ Append(queue[s], t)[i] = queue[s][i])
  BY <1>3, <1>6, <1>7, AppendDistinct
<1>. DEFINE more == Append(queue[s], t)
<1>9. job[t].call.service = s
  BY <1>s
<1>. HIDE DEF more
<1>10. Tickets' = Tickets
  BY <1>4 DEF Moves, Tickets
<1>11. queue' = [queue EXCEPT ![s] = more] /\ more \in Seq(Tickets)
  BY <1>2, <1>8 DEF more
<1>12. TypeOK'
  BY <1>1, <1>2, <1>4, <1>5, <1>6, <1>10, <1>11, ZenonT(40) DEF TypeOK
<1>13. ASSUME NEW q \in Services, q # s PROVE QueueSound(q)' /\ WorkerSound(q)'
  <2>1. worker'[q] = worker[q] /\ queue'[q] = queue[q] /\ Free(q, t)
    BY <1>2, <1>3, <1>6, <1>11, <1>13
  <2>2. QED
    BY <1>1, <1>3, <1>4, <2>1, FreeStaysSound
<1>14. QueueSound(s)'
  <2>1. queue'[s] = more
    BY <1>6, <1>11
  <2>2. ASSUME NEW i \in DOMAIN more
        PROVE  /\ job'[more[i]].stage = "queued" /\ job'[more[i]].flaw # "method"
               /\ job'[more[i]].call.service = s /\ worker[s] # more[i]
    <3>1. CASE more[i] = t
      BY <1>2, <1>3, <1>4, <1>6, <1>9, <3>1 DEF Moves, Routed, Free
    <3>2. CASE i \in DOMAIN queue[s] /\ more[i] = queue[s][i]
      <4>1. queue[s][i] \in Tickets /\ queue[s][i] # t
        BY <1>6, <1>7, <3>2, SeqMember
      <4>2. job'[queue[s][i]] = job[queue[s][i]]
        BY <1>4, <4>1 DEF Moves
      <4>3. QED
        BY <1>1, <1>6, <3>2, <4>2 DEF QueueSound, Routed
    <3>3. QED
      BY <1>8, <3>1, <3>2 DEF more
  <2>3. Len(more) <= QueueCap /\ Distinct(more)
    <3>1. Len(queue[s]) \in Nat /\ QueueCap \in Nat
      BY <1>6, DemoAssumption
    <3>2. QED
      BY <1>2, <1>8, <3>1 DEF more
  <2>4. worker' = worker
    BY <1>2
  <2>. HIDE DEF more
  <2>5. QED
    BY <2>1, <2>2, <2>3, <2>4 DEF QueueSound, Routed
<1>15. WorkerSound(s)'
  <2>1. worker[s] \in 0 .. made /\ worker[s] # t
    BY <1>1, <1>3, <1>6 DEF TypeOK, Free
  <2>2. worker[s] # 0 => job'[worker[s]] = job[worker[s]]
    BY <1>1, <1>4, <2>1 DEF Moves
  <2>3. QED
    BY <1>1, <1>2, <1>6, <2>2 DEF WorkerSound, Routed
<1>16. StoreSound(db)' /\ count' = Cardinality(Counted')
  BY <1>2, <1>5 DEF JobsSound, StoreSound
<1>17. QED
  BY <1>5, <1>12, <1>13, <1>14, <1>15, <1>16 DEF JobsSound

LEMMA RejectKeeps ==
    ASSUME JobsSound, Reject
    PROVE  JobsSound'
<1>t. PICK t \in Tickets : t = Head(inbox)
  BY InboxHead DEF Reject
<1>1. /\ TypeOK /\ Tickets = 1 .. made
      /\ \A q \in Services : QueueSound(q) /\ WorkerSound(q)
  BY DEF JobsSound, TypeOK, Tickets
<1>2. /\ UNCHANGED <<db, made, waits, queue, worker, count>> /\ inbox # <<>> /\ inbox' = Tail(inbox)
      /\ ~Routed(t) /\ refusing = 0 /\ refusing' = t
  BY <1>t DEF Reject
<1>3. \A q \in Services : Free(q, t)
  BY <1>2, <1>t, InboxHead
<1>a. PICK a : job' = [job EXCEPT ![t].stage = "replied", ![t].answer = a]
  BY <1>t DEF Reject, Answered
<1>4. Moves(t, "replied") /\ job' = [u \in 1 .. made |-> job'[u]] /\ \A u \in Tickets' : IsJob(job'[u])
  <2>1. "replied" \in Stages \ {"sent"} /\ "replied" # "queued"
    BY DEF Stages
  <2>2. QED
    BY <1>1, <1>2, <1>a, <2>1, StageMoves
<1>5. ListenerSound' /\ Counted' = Counted /\ inbox' \in Seq(Tickets')
  BY <1>2, <1>4, <1>t, AcceptKeeps
<1>6. Tickets' = Tickets
  BY <1>4 DEF Moves, Tickets
<1>7. TypeOK'
  BY <1>1, <1>2, <1>4, <1>5, <1>6 DEF TypeOK
<1>8. ASSUME NEW q \in Services PROVE QueueSound(q)' /\ WorkerSound(q)'
  BY <1>1, <1>2, <1>3, <1>4, FreeStaysSound
<1>9. StoreSound(db)' /\ count' = Cardinality(Counted')
  BY <1>2, <1>5 DEF JobsSound, StoreSound
<1>10. QED
  BY <1>5, <1>7, <1>8, <1>9 DEF JobsSound

\* A refused channel was never a worker's, and is not counted when it closes.
LEMMA RejectClosedKeeps ==
    ASSUME JobsSound, RejectClosed
    PROVE  JobsSound'
<1>1. /\ TypeOK /\ Tickets = 1 .. made /\ ListenerSound
      /\ \A q \in Services : QueueSound(q) /\ WorkerSound(q)
  BY DEF JobsSound, TypeOK, Tickets
<1>t. PICK t \in Tickets : t = refusing
  BY <1>1 DEF RejectClosed, TypeOK
<1>2. /\ UNCHANGED <<db, made, waits, inbox, queue, worker, count>> /\ refusing' = 0
      /\ ~Routed(t) /\ job[t].stage = "replied" /\ job' = [job EXCEPT ![t].stage = "closed"]
  BY <1>1, <1>t DEF RejectClosed, At, ListenerSound
<1>3. \A q \in Services : Free(q, t)
  BY <1>2, OneOwner
<1>4. Moves(t, "closed") /\ job' = [u \in 1 .. made |-> job'[u]] /\ \A u \in Tickets' : IsJob(job'[u])
  <2>1. "closed" \in Stages \ {"sent"} /\ "closed" # "queued"
    BY DEF Stages
  <2>2. QED
    BY <1>1, <1>2, <2>1, StageMoves
<1>5. Tickets' = Tickets
  BY <1>4 DEF Moves, Tickets
<1>6. TypeOK'
  <2>1. made \in Nat /\ refusing' \in 0 .. made
    BY <1>1, <1>2, DemoAssumption DEF TypeOK
  <2>2. QED
    BY <1>1, <1>2, <1>4, <1>5, <2>1 DEF TypeOK
<1>7. ListenerSound'
  <2>1. inbox \in Seq(Tickets)
    BY <1>1 DEF TypeOK
  <2>2. ASSUME NEW i \in DOMAIN inbox PROVE job'[inbox[i]].stage = "sent"
    <3>1. inbox[i] \in Tickets /\ job[inbox[i]].stage = "sent"
      BY <1>1, <2>1, SeqMember DEF ListenerSound
    <3>2. QED
      BY <1>2, <1>4, <3>1 DEF Moves
  <2>3. QED
    BY <1>1, <1>2, <2>2 DEF ListenerSound
<1>8. ASSUME NEW q \in Services PROVE QueueSound(q)' /\ WorkerSound(q)'
  BY <1>1, <1>2, <1>3, <1>4, FreeStaysSound
<1>9. Counted' = Counted
  BY <1>1, <1>2, <1>4, CountKept
<1>10. StoreSound(db)' /\ count' = Cardinality(Counted')
  BY <1>2, <1>9 DEF JobsSound, StoreSound
<1>11. QED
  BY <1>6, <1>7, <1>8, <1>10 DEF JobsSound

\* A service stays sound when no job's stage, call or routing changes.
LEMMA KeptStaysSound ==
    ASSUME TypeOK, NEW q \in Services, QueueSound(q), WorkerSound(q),
           queue' = queue, worker' = worker,
           \A u \in Tickets : /\ job'[u].stage = job[u].stage /\ job'[u].call = job[u].call
                              /\ (job'[u].flaw = "method") = (job[u].flaw = "method")
    PROVE  QueueSound(q)' /\ WorkerSound(q)'
<1>1. /\ queue[q] \in Seq(Tickets) /\ worker[q] \in 0 .. made /\ Tickets = 1 .. made
  BY DEF TypeOK, Tickets
<1>2. ASSUME NEW i \in DOMAIN queue[q]
      PROVE  /\ job'[queue[q][i]].stage = "queued" /\ job'[queue[q][i]].flaw # "method"
             /\ job'[queue[q][i]].call.service = q
  <2>1. queue[q][i] \in Tickets
    BY <1>1, SeqMember
  <2>2. QED
    BY <2>1 DEF QueueSound, Routed
<1>3. QueueSound(q)'
  BY <1>2 DEF QueueSound, Routed
<1>4. WorkerSound(q)'
  BY <1>1 DEF WorkerSound, Routed
<1>5. QED
  BY <1>3, <1>4

\* A step that changes no more than who waits, how far the server runs, or
\* that a request stays cut.
LEMMA OthersKeep ==
    ASSUME JobsSound, UNCHANGED <<db, made, inbox, refusing, queue, worker, count>>,
           waits' \in [Clients -> 0 .. made],
           \/ job' = job
           \/ \E t \in Tickets : job[t].flaw = "none" /\ job' = [job EXCEPT ![t].flaw = "body"]
    PROVE  JobsSound'
<1>1. /\ TypeOK /\ Tickets = 1 .. made /\ job = [u \in 1 .. made |-> job[u]]
      /\ \A u \in Tickets : IsJob(job[u])
      /\ ListenerSound /\ \A q \in Services : QueueSound(q) /\ WorkerSound(q)
  BY DEF JobsSound, TypeOK, Tickets
<1>2. /\ job' = [u \in 1 .. made |-> job'[u]]
      /\ \A u \in Tickets : /\ job'[u].stage = job[u].stage /\ job'[u].call = job[u].call
                            /\ (job'[u].flaw = "method") = (job[u].flaw = "method")
                            /\ IsJob(job'[u])
  <2>1. CASE job' = job
    BY <1>1, <2>1
  <2>2. ASSUME NEW t \in Tickets, job[t].flaw = "none", job' = [job EXCEPT ![t].flaw = "body"]
        PROVE  <1>2!:
    <3>. DEFINE j == job[t]
                k == job'[t]
    <3>1. j = [client |-> j.client, call |-> j.call, flaw |-> j.flaw, stage |-> j.stage, answer |-> j.answer]
      BY <1>1 DEF IsJob
    <3>2. k = [j EXCEPT !.flaw = "body"]
      BY <1>1, <2>2
    <3>3. job' = [u \in 1 .. made |-> job'[u]] /\ \A u \in Tickets : u # t => job'[u] = job[u]
      BY <1>1, <2>2
    <3>. HIDE DEF j, k
    <3>4. /\ k.stage = j.stage /\ k.call = j.call /\ k.flaw = "body" /\ k.client = j.client /\ k.answer = j.answer
          /\ k = [client |-> k.client, call |-> k.call, flaw |-> k.flaw, stage |-> k.stage, answer |-> k.answer]
      BY <3>1, <3>2
    <3>5. IsJob(k)
      BY <1>1, <3>4 DEF IsJob, j, Flaws
    <3>6. QED
      BY <1>1, <2>2, <3>3, <3>4, <3>5 DEF j, k
  <2>3. QED
    BY <2>1, <2>2
<1>3. Tickets' = Tickets
  <2>1. DOMAIN job' = 1 .. made
    BY <1>2
  <2>2. QED
    BY <1>1, <2>1 DEF Tickets
<1>4. \A u \in Tickets : Routed(u)' <=> Routed(u)
  BY <1>2 DEF Routed
<1>5. TypeOK'
  BY <1>1, <1>2, <1>3 DEF TypeOK
<1>6. ListenerSound'
  <2>1. inbox \in Seq(Tickets) /\ refusing \in 0 .. made
    BY <1>1 DEF TypeOK
  <2>2. ASSUME NEW i \in DOMAIN inbox PROVE job'[inbox[i]].stage = "sent"
    BY <1>1, <1>2, <2>1, SeqMember DEF ListenerSound
  <2>3. refusing # 0 => ~Routed(refusing)' /\ job'[refusing].stage = "replied"
    BY <1>1, <1>2, <2>1 DEF ListenerSound, Routed
  <2>4. QED
    BY <1>1, <2>2, <2>3 DEF ListenerSound
<1>7. ASSUME NEW q \in Services PROVE QueueSound(q)' /\ WorkerSound(q)'
  BY <1>1, <1>2, KeptStaysSound
<1>8. Counted' = Counted
  BY <1>2, <1>3, <1>4 DEF Counted
<1>9. StoreSound(db)' /\ count' = Cardinality(Counted')
  BY <1>8 DEF JobsSound, StoreSound
<1>10. QED
  BY <1>5, <1>6, <1>7, <1>9 DEF JobsSound

\* A ticket more, and the old ones as they are.
LEMMA AppendJob ==
    ASSUME NEW n \in Nat, NEW f, f = [t \in 1 .. n |-> f[t]], NEW e
    PROVE  LET g == Append(f, e) IN
           /\ g = [t \in 1 .. n + 1 |-> g[t]] /\ g[n + 1] = e /\ \A t \in 1 .. n : g[t] = f[t]
<1>. DEFINE S == { f[t] : t \in 1 .. n } \cup {e}
<1>1. f \in Seq(S) /\ Len(f) = n
  BY SMTT(30)
<1>. HIDE DEF S
<1>2. e \in S
  BY DEF S
<1>. DEFINE g == Append(f, e)
<1>3. /\ g \in Seq(S) /\ Len(g) = n + 1 /\ g[n + 1] = e
      /\ \A t \in 1 .. n : g[t] = f[t]
  BY <1>1, <1>2
<1>. HIDE DEF g
<1>4. g = [t \in 1 .. n + 1 |-> g[t]]
  BY <1>3
<1>5. QED
  BY <1>3, <1>4 DEF g

LEMMA RpcCallKeeps ==
    ASSUME JobsSound, NEW c \in Clients, RpcCall(c)
    PROVE  JobsSound'
<1>. DEFINE n == made + 1
<1>1. /\ TypeOK /\ Tickets = 1 .. made /\ job = [u \in 1 .. made |-> job[u]]
      /\ \A u \in Tickets : IsJob(job[u]) /\ made \in Nat
      /\ ListenerSound /\ \A q \in Services : QueueSound(q) /\ WorkerSound(q)
  BY DemoAssumption DEF JobsSound, TypeOK, Tickets
<1>2. /\ UNCHANGED <<db, refusing, queue, worker, count>> /\ made' = n /\ n \in 1 .. MaxCalls
      /\ waits' = [waits EXCEPT ![c] = n] /\ inbox' = Append(inbox, n)
  BY <1>1, DemoAssumption DEF RpcCall, TypeOK
<1>3. PICK r \in Requests :
          job' = Append(job, [client |-> c, call |-> r.call, flaw |-> r.flaw,
                              stage |-> "sent", answer |-> NoAnswer])
  BY DEF RpcCall
<1>. DEFINE e == [client |-> c, call |-> r.call, flaw |-> r.flaw, stage |-> "sent", answer |-> NoAnswer]
<1>4. job' = [u \in 1 .. n |-> job'[u]] /\ job'[n] = e /\ \A u \in 1 .. made : job'[u] = job[u]
  <2>1. made \in Nat
    BY <1>1, DemoAssumption DEF TypeOK
  <2>2. QED
    BY <1>1, <1>3, <2>1, AppendJob
<1>5. IsJob(e) /\ e.stage = "sent"
  BY DemoAssumption DEF IsJob, Calls, Stages
<1>. HIDE DEF e
<1>6. Tickets' = 1 .. n /\ 1 .. n = 1 .. made \cup {n} /\ made \in Nat /\ n \notin 1 .. made
  <2>1. made \in Nat
    BY <1>1, DemoAssumption DEF TypeOK
  <2>2. QED
    BY <1>4, <2>1 DEF Tickets
<1>. HIDE DEF n
<1>7. inbox \in Seq(Tickets) /\ inbox \in Seq(Tickets')
  <2>1. inbox \in Seq(Tickets) /\ Tickets \subseteq Tickets'
    BY <1>1, <1>6 DEF TypeOK
  <2>2. QED
    BY <2>1
<1>8. /\ Append(inbox, n) \in Seq(Tickets') /\ Distinct(Append(inbox, n))
      /\ \A i \in DOMAIN Append(inbox, n) :
            \/ Append(inbox, n)[i] = n
            \/ i \in DOMAIN inbox /\ Append(inbox, n)[i] = inbox[i]
  <2>1. \A i \in DOMAIN inbox : inbox[i] # n
    BY <1>1, <1>6, <1>7, SeqMember
  <2>2. n \in Tickets' /\ Distinct(inbox)
    BY <1>1, <1>6 DEF ListenerSound
  <2>3. QED
    BY <1>7, <2>1, <2>2, AppendDistinct
<1>9. TypeOK'
  <2>1. queue' \in [Services -> Seq(Tickets')]
    <3>1. ASSUME NEW q \in Services PROVE queue[q] \in Seq(Tickets')
      <4>1. queue[q] \in Seq(Tickets) /\ Tickets \subseteq Tickets'
        BY <1>1, <1>6 DEF TypeOK
      <4>2. QED
        BY <4>1
    <3>2. queue \in [Services -> Seq(Tickets)]
      BY <1>1 DEF TypeOK
    <3>3. QED
      BY <1>2, <3>1, <3>2
  <2>2. worker' \in [Services -> 0 .. n] /\ refusing' \in 0 .. n /\ waits' \in [Clients -> 0 .. n]
    <3>1. worker \in [Services -> 0 .. made] /\ refusing \in 0 .. made /\ waits \in [Clients -> 0 .. made]
      BY <1>1 DEF TypeOK
    <3>2. 0 .. made \subseteq 0 .. n /\ n \in 0 .. n
      BY <1>6 DEF n
    <3>3. QED
      BY <1>2, <3>1, <3>2
  <2>3. \A u \in Tickets' : IsJob(job'[u])
    BY <1>1, <1>4, <1>5, <1>6
  <2>4. made' \in 0 .. MaxCalls /\ inbox' \in Seq(Tickets')
    BY <1>2, <1>8
  <2>5. QED
    BY <1>2, <1>4, <2>1, <2>2, <2>3, <2>4 DEF TypeOK, IsJob
<1>10. ListenerSound'
  <2>1. ASSUME NEW i \in DOMAIN Append(inbox, n) PROVE job'[Append(inbox, n)[i]].stage = "sent"
    <3>1. CASE Append(inbox, n)[i] = n
      BY <1>4, <1>5, <3>1
    <3>2. CASE i \in DOMAIN inbox /\ Append(inbox, n)[i] = inbox[i]
      <4>1. inbox[i] \in Tickets
        BY <1>7, <3>2, SeqMember
      <4>2. QED
        BY <1>1, <1>4, <3>2, <4>1 DEF ListenerSound
    <3>3. QED
      BY <1>8, <3>1, <3>2
  <2>2. refusing # 0 => job'[refusing] = job[refusing]
    BY <1>1, <1>4 DEF TypeOK
  <2>3. QED
    BY <1>1, <1>2, <1>8, <2>1, <2>2 DEF ListenerSound, Routed
<1>11. ASSUME NEW q \in Services PROVE QueueSound(q)' /\ WorkerSound(q)'
  <2>1. \A u \in Tickets : job'[u] = job[u]
    BY <1>1, <1>4
  <2>2. QED
    BY <1>1, <1>2, <2>1, KeptStaysSound
<1>12. Counted' = Counted
  BY <1>1, <1>4, <1>5, <1>6 DEF Counted, Routed
<1>13. StoreSound(db)' /\ count' = Cardinality(Counted')
  BY <1>2, <1>12 DEF JobsSound, StoreSound
<1>14. QED
  BY <1>9, <1>10, <1>11, <1>13 DEF JobsSound

\* The integrity of the store and of the count, whatever the services'
\* threads, the listener and the clients interleave.
LEMMA JobsKept == Spec => []JobsSound
<1>1. Init => JobsSound
  <2>. SUFFICES ASSUME Init PROVE JobsSound
    OBVIOUS
  <2>1. /\ made = 0 /\ job = <<>> /\ refusing = 0 /\ inbox = <<>> /\ count = 0
        /\ waits = [c \in Clients |-> 0] /\ db = EmptyStore
        /\ queue = [s \in Services |-> <<>>] /\ worker = [s \in Services |-> 0]
    BY DEF Init
  <2>2. Tickets = {} /\ job = [t \in 1 .. 0 |-> job[t]]
    BY <2>1 DEF Tickets
  <2>3. TypeOK
    BY <2>1, <2>2, DemoAssumption DEF TypeOK
  <2>4. ListenerSound /\ \A s \in Services : QueueSound(s) /\ WorkerSound(s)
    BY <2>1, DemoAssumption DEF ListenerSound, QueueSound, WorkerSound, Distinct
  <2>5. count = Cardinality(Counted)
    <3>1. Counted = {}
      BY <2>2 DEF Counted
    <3>2. QED
      BY <2>1, <3>1, FS_EmptySet
  <2>6. StoreSound(db)
    BY <2>1, EmptySound
  <2>7. QED
    BY <2>3, <2>4, <2>5, <2>6 DEF JobsSound
<1>2. JobsSound /\ [Next]_vars => JobsSound'
  <2>. SUFFICES ASSUME JobsSound, [Next]_vars PROVE JobsSound'
    OBVIOUS
  <2>0. waits \in [Clients -> 0 .. made] /\ made \in Nat /\ Tickets = 1 .. made
    BY DemoAssumption DEF JobsSound, TypeOK, Tickets
  <2>1. ASSUME NEW c \in Clients, RpcCall(c) PROVE JobsSound'
    BY <2>1, RpcCallKeeps
  <2>2. ASSUME NEW c \in Clients, GetReply(c) \/ LosesServer(c) PROVE JobsSound'
    BY <2>0, <2>2, OthersKeep DEF GetReply, LosesServer, server
  <2>3. ASSUME NEW c \in Clients, GiveUp(c) PROVE JobsSound'
    <3>1. waits[c] \in Tickets
      BY <2>0, <2>3 DEF GiveUp
    <3>2. waits' \in [Clients -> 0 .. made]
      BY <2>0, <2>3 DEF GiveUp
    <3>3. UNCHANGED <<db, made, inbox, refusing, queue, worker, count>>
      BY <2>3 DEF GiveUp, server
    <3>4. \/ job' = job
          \/ \E t \in Tickets : job[t].flaw = "none" /\ job' = [job EXCEPT ![t].flaw = "body"]
      BY <2>3, <3>1 DEF GiveUp
    <3>5. QED
      BY <3>2, <3>3, <3>4, OthersKeep
  <2>4. CASE ListenerFails \/ Leave \/ UNCHANGED vars
    BY <2>0, <2>4, OthersKeep DEF ListenerFails, Leave, vars, server
  <2>5. CASE Enqueue \/ Reject \/ RejectClosed
    BY <2>5, EnqueueKeeps, RejectKeeps, RejectClosedKeeps
  <2>6. ASSUME NEW s \in Services, Worker(s) PROVE JobsSound'
    BY <2>6, TakeJobKeeps, ServingKeeps, JobClosedKeeps DEF Worker
  <2>7. QED
    BY <2>1, <2>2, <2>3, <2>4, <2>5, <2>6 DEF Next, Listener
<1>3. QED
  BY <1>1, <1>2, PTL DEF Spec

-----------------------------------------------------------------------------
(* No job is lost, and nobody waits for ever.                              *)

NoJobLost == \A t \in Tickets : InHand(t)

\* Who is in line stays in it, or is its head.
LEMMA InLine ==
    ASSUME NEW S, NEW q \in Seq(S), NEW t
    PROVE  /\ q # <<>> /\ In(q, t) => t = Head(q) \/ In(Tail(q), t)
           /\ \A e \in S : (In(q, t) => In(Append(q, e), t)) /\ In(Append(q, e), e)
           /\ In(q, t) => q # <<>>
<1>1. ASSUME q # <<>>, NEW i \in DOMAIN q, q[i] = t PROVE t = Head(q) \/ In(Tail(q), t)
  <2>1. /\ Len(q) \in Nat \ {0} /\ Tail(q) \in Seq(S) /\ Len(Tail(q)) = Len(q) - 1 /\ Head(q) = q[1]
        /\ \A j \in 1 .. Len(q) - 1 : Tail(q)[j] = q[j + 1]
    BY <1>1
  <2>2. DOMAIN q = 1 .. Len(q) /\ DOMAIN Tail(q) = 1 .. Len(q) - 1
    BY <2>1
  <2>3. i = 1 \/ (i - 1 \in 1 .. Len(q) - 1 /\ Tail(q)[i - 1] = q[i])
    BY <1>1, <2>1, <2>2
  <2>4. QED
    BY <1>1, <2>1, <2>2, <2>3 DEF In
<1>2. ASSUME NEW e \in S PROVE (In(q, t) => In(Append(q, e), t)) /\ In(Append(q, e), e)
  <2>. DEFINE a == Append(q, e)
  <2>1. /\ Len(q) \in Nat /\ a \in Seq(S) /\ Len(a) = Len(q) + 1 /\ a[Len(q) + 1] = e
        /\ \A i \in 1 .. Len(q) : a[i] = q[i]
    OBVIOUS
  <2>. HIDE DEF a
  <2>2. DOMAIN a = 1 .. Len(q) + 1 /\ DOMAIN q = 1 .. Len(q)
    BY <2>1
  <2>3. (In(q, t) => In(a, t)) /\ In(a, e)
    BY <2>1, <2>2 DEF In
  <2>4. QED
    BY <2>3 DEF a
<1>3. In(q, t) => q # <<>>
  BY DEF In
<1>4. QED
  BY <1>1, <1>2, <1>3 DEF In

\* A job that nobody moves stays in hand, if who has it lets it go to no one
\* but a worker.
LEMMA StaysInHand ==
    ASSUME NEW u, InHand(u), job'[u].stage = job[u].stage,
           In(inbox, u) => In(inbox, u)',
           Held(u) => Held(u)',
           \A s \in Services : In(queue[s], u) => In(queue[s], u)' \/ Held(u)',
           refusing = u => refusing' = u
    PROVE  InHand(u)'
BY DEF InHand

\* A worker's step on its own job.
LEMMA WorkerLosesNone ==
    ASSUME JobsSound, NoJobLost, NEW s \in Services, Worker(s)
    PROVE  NoJobLost'
<1>1. /\ TypeOK /\ Tickets = 1 .. made /\ worker \in [Services -> 0 .. made]
      /\ queue \in [Services -> Seq(Tickets)] /\ 0 \notin Tickets /\ \A u \in Tickets : InHand(u)
  BY DemoAssumption DEF JobsSound, TypeOK, Tickets, NoJobLost
<1>2. CASE TakeJob(s)
  <2>1. UNCHANGED <<job, inbox, refusing>> /\ worker[s] = 0 /\ queue[s] # <<>>
    BY <1>2 DEF TakeJob
  <2>2. /\ worker' = [worker EXCEPT ![s] = Head(queue[s])]
        /\ queue' = [queue EXCEPT ![s] = Tail(queue[s])]
    BY <1>2 DEF TakeJob
  <2>3. ASSUME NEW u \in Tickets PROVE InHand(u)'
    <3>1. Held(u) => Held(u)'
      BY <1>1, <2>1, <2>2 DEF Held
    <3>2. ASSUME NEW q \in Services, In(queue[q], u) PROVE In(queue[q], u)' \/ Held(u)'
      <4>1. CASE q = s
        <5>1. u = Head(queue[s]) \/ In(Tail(queue[s]), u)
          BY <1>1, <2>1, <3>2, <4>1, InLine
        <5>2. queue'[q] = Tail(queue[s]) /\ worker'[s] = Head(queue[s])
          BY <1>1, <2>2, <4>1
        <5>3. QED
          BY <5>1, <5>2 DEF Held, In
      <4>2. CASE q # s
        BY <1>1, <2>2, <3>2, <4>2 DEF In
      <4>3. QED
        BY <4>1, <4>2
    <3>3. In(inbox, u) => In(inbox, u)'
      BY <2>1 DEF In
    <3>4. QED
      BY <1>1, <2>1, <3>1, <3>2, <3>3, StaysInHand
  <2>4. QED
    BY <2>1, <2>3 DEF NoJobLost, Tickets
<1>3. ASSUME DecodeFails(s) \/ RunCall(s) \/ WriteReply(s) \/ JobClosed(s) PROVE NoJobLost'
  <2>t. PICK t \in Tickets : t = worker[s]
    BY <1>1, <1>3 DEF DecodeFails, RunCall, WriteReply, JobClosed, Serves
  <2>1. UNCHANGED <<made, inbox, refusing, queue>>
    BY <1>3 DEF DecodeFails, RunCall, WriteReply, JobClosed
  <2>a. PICK stage \in {"ran", "replied", "closed"} :
          /\ \/ job' = [job EXCEPT ![t].stage = stage]
             \/ \E a : job' = [job EXCEPT ![t].stage = stage, ![t].answer = a]
          /\ worker' = worker \/ (stage = "closed" /\ worker' = [worker EXCEPT ![s] = 0])
    BY <1>3, <2>t DEF DecodeFails, RunCall, WriteReply, JobClosed, At, Answered
  <2>2. Moves(t, stage)
    <3>1. stage \in Stages \ {"sent"} /\ stage # "queued"
      BY DEF Stages
    <3>2. CASE job' = [job EXCEPT ![t].stage = stage]
      BY <1>1, <2>1, <3>1, <3>2, StageMoves
    <3>3. ASSUME NEW a, job' = [job EXCEPT ![t].stage = stage, ![t].answer = a] PROVE Moves(t, stage)
      BY <1>1, <2>1, <3>1, <3>3, StageMoves
    <3>4. QED
      BY <2>a, <3>2, <3>3
  <2>3. InHand(t)'
    BY <2>t, <2>a, <2>2 DEF InHand, Moves, Held
  <2>4. ASSUME NEW u \in Tickets, u # t PROVE InHand(u)'
    <3>1. job'[u] = job[u]
      BY <2>2, <2>4 DEF Moves
    <3>2. Held(u) => Held(u)'
      BY <1>1, <2>t, <2>a, <2>4 DEF Held
    <3>3. /\ In(inbox, u) => In(inbox, u)'
          /\ \A q \in Services : In(queue[q], u) => In(queue[q], u)'
      BY <2>1 DEF In
    <3>4. QED
      BY <1>1, <2>1, <3>1, <3>2, <3>3, StaysInHand
  <2>5. QED
    BY <2>2, <2>3, <2>4 DEF NoJobLost, Tickets, Moves
<1>4. QED
  BY <1>2, <1>3 DEF Worker

\* The listener hands the head of its inbox on, or refuses it to its end.
LEMMA ListenerLosesNone ==
    ASSUME JobsSound, NoJobLost, Listener
    PROVE  NoJobLost'
<1>1. /\ TypeOK /\ Tickets = 1 .. made /\ inbox \in Seq(Tickets)
      /\ queue \in [Services -> Seq(Tickets)] /\ 0 \notin Tickets /\ \A u \in Tickets : InHand(u)
  BY DemoAssumption DEF JobsSound, TypeOK, Tickets, NoJobLost
<1>2. CASE Enqueue
  <2>t. PICK t \in Tickets : t = Head(inbox) /\ job[t].stage = "sent"
    BY <1>2, InboxHead DEF Enqueue
  <2>s. PICK s \in Services : s = job[t].call.service
    BY <1>2, <2>t DEF Enqueue, Routed
  <2>1. /\ UNCHANGED <<made, refusing, worker>> /\ inbox # <<>> /\ inbox' = Tail(inbox)
        /\ queue' = [queue EXCEPT ![s] = Append(queue[s], t)] /\ job' = [job EXCEPT ![t].stage = "queued"]
    BY <1>2, <2>t, <2>s DEF Enqueue, At
  <2>2. Moves(t, "queued")
    BY <1>1, <2>1, <2>t, StageMoves DEF Stages
  <2>3. /\ In(queue'[s], t) /\ \A u : In(queue[s], u) => In(queue'[s], u)
        /\ \A q \in Services \ {s} : queue'[q] = queue[q]
    <3>1. queue'[s] = Append(queue[s], t) /\ queue[s] \in Seq(Tickets)
      BY <1>1, <2>1
    <3>2. QED
      BY <1>1, <2>1, <3>1, InLine
  <2>4. InHand(t)'
    BY <2>2, <2>3 DEF InHand, Moves, In
  <2>5. ASSUME NEW u \in Tickets, u # t PROVE InHand(u)'
    <3>1. job'[u] = job[u]
      BY <2>2, <2>5 DEF Moves
    <3>2. In(inbox, u) => In(inbox, u)'
      <4>1. In(inbox, u) => In(Tail(inbox), u)
        BY <1>1, <2>t, <2>1, <2>5, InLine
      <4>2. QED
        BY <2>1, <4>1 DEF In
    <3>3. \A q \in Services : In(queue[q], u) => In(queue[q], u)'
      BY <2>3 DEF In
    <3>4. Held(u) => Held(u)'
      BY <2>1 DEF Held
    <3>5. QED
      BY <1>1, <2>1, <3>1, <3>2, <3>3, <3>4, StaysInHand
  <2>6. QED
    BY <2>2, <2>4, <2>5 DEF NoJobLost, Tickets, Moves
<1>3. CASE Reject
  <2>t. PICK t \in Tickets : t = Head(inbox)
    BY <1>3, InboxHead DEF Reject
  <2>1. /\ UNCHANGED <<made, queue, worker>> /\ inbox # <<>> /\ inbox' = Tail(inbox)
        /\ refusing = 0 /\ refusing' = t
    BY <1>3, <2>t DEF Reject
  <2>a. PICK a : job' = [job EXCEPT ![t].stage = "replied", ![t].answer = a]
    BY <1>3, <2>t DEF Reject, Answered
  <2>2. Moves(t, "replied")
    <3>1. "replied" \in Stages \ {"sent"} /\ "replied" # "queued"
      BY DEF Stages
    <3>2. QED
      BY <1>1, <2>1, <2>a, <3>1, StageMoves
  <2>3. InHand(t)'
    BY <2>1, <2>2 DEF InHand, Moves
  <2>4. ASSUME NEW u \in Tickets, u # t PROVE InHand(u)'
    <3>1. job'[u] = job[u]
      BY <2>2, <2>4 DEF Moves
    <3>2. In(inbox, u) => In(inbox, u)'
      <4>1. In(inbox, u) => In(Tail(inbox), u)
        BY <1>1, <2>t, <2>1, <2>4, InLine
      <4>2. QED
        BY <2>1, <4>1 DEF In
    <3>3. /\ \A q \in Services : In(queue[q], u) => In(queue[q], u)'
          /\ Held(u) => Held(u)'
      BY <2>1 DEF In, Held
    <3>4. QED
      BY <1>1, <2>1, <3>1, <3>2, <3>3, StaysInHand
  <2>5. QED
    BY <2>2, <2>3, <2>4 DEF NoJobLost, Tickets, Moves
<1>4. CASE RejectClosed
  <2>t. PICK t \in Tickets : t = refusing
    BY <1>1, <1>4 DEF RejectClosed, TypeOK
  <2>1. UNCHANGED <<made, inbox, queue, worker>> /\ job' = [job EXCEPT ![t].stage = "closed"]
    BY <1>4, <2>t DEF RejectClosed, At
  <2>2. Moves(t, "closed")
    <3>1. "closed" \in Stages \ {"sent"} /\ "closed" # "queued"
      BY DEF Stages
    <3>2. QED
      BY <1>1, <2>1, <3>1, StageMoves
  <2>3. InHand(t)'
    BY <2>2 DEF InHand, Moves
  <2>4. ASSUME NEW u \in Tickets, u # t PROVE InHand(u)'
    <3>1. job'[u] = job[u]
      BY <2>2, <2>4 DEF Moves
    <3>2. /\ \A q \in Services : In(queue[q], u) => In(queue[q], u)'
          /\ Held(u) => Held(u)'
          /\ In(inbox, u) => In(inbox, u)'
      BY <2>1 DEF In, Held
    <3>3. QED
      BY <1>1, <2>t, <2>4, <3>1, <3>2, StaysInHand
  <2>5. QED
    BY <2>2, <2>3, <2>4 DEF NoJobLost, Tickets, Moves
<1>5. CASE ListenerFails
  <2>1. UNCHANGED <<job, inbox, refusing, queue, worker>>
    BY <1>5 DEF ListenerFails
  <2>2. QED
    BY <1>1, <2>1 DEF NoJobLost, Tickets, InHand, In, Held
<1>6. QED
  BY <1>2, <1>3, <1>4, <1>5 DEF Listener

\* A call made is in the listener's inbox; a client that leaves, or a server
\* that does, moves no job.
LEMMA ClientLosesNone ==
    ASSUME JobsSound, NoJobLost,
           \/ \E c \in Clients : RpcCall(c) \/ GetReply(c) \/ GiveUp(c) \/ LosesServer(c)
           \/ Leave \/ UNCHANGED vars
    PROVE  NoJobLost'
<1>1. /\ Tickets = 1 .. made /\ inbox \in Seq(Tickets) /\ made \in Nat
      /\ waits \in [Clients -> 0 .. made]
      /\ job = [u \in 1 .. made |-> job[u]] /\ \A u \in Tickets : InHand(u) /\ IsJob(job[u])
  BY DemoAssumption DEF JobsSound, TypeOK, Tickets, NoJobLost
<1>2. ASSUME NEW c \in Clients, RpcCall(c) PROVE NoJobLost'
  <2>n. PICK n \in Nat : n = made + 1
    BY <1>1
  <2>1. PICK r \in Requests :
            job' = Append(job, [client |-> c, call |-> r.call, flaw |-> r.flaw,
                                stage |-> "sent", answer |-> NoAnswer])
    BY <1>2 DEF RpcCall
  <2>2. /\ job' = [u \in 1 .. n |-> job'[u]] /\ job'[n].stage = "sent"
        /\ \A u \in 1 .. made : job'[u] = job[u]
    BY <1>1, <2>n, <2>1, AppendJob
  <2>3. inbox' = Append(inbox, n) /\ UNCHANGED <<refusing, queue, worker>>
    BY <1>2, <2>n DEF RpcCall
  <2>4. /\ In(inbox', n) /\ \A u : In(inbox, u) => In(inbox', u)
        /\ Tickets' = 1 .. made \cup {n}
    <3>1. inbox \in Seq(1 .. n) /\ n \in 1 .. n /\ 1 .. n = 1 .. made \cup {n}
      BY <1>1, <2>n
    <3>2. QED
      BY <2>2, <2>3, <3>1, InLine DEF Tickets
  <2>5. InHand(n)'
    BY <2>2, <2>4 DEF InHand, In
  <2>6. ASSUME NEW u \in Tickets PROVE InHand(u)'
    <3>1. job'[u] = job[u] /\ (In(inbox, u) => In(inbox, u)')
      BY <1>1, <2>2, <2>4 DEF In
    <3>2. /\ \A q \in Services : In(queue[q], u) => In(queue[q], u)'
          /\ Held(u) => Held(u)'
      BY <2>3 DEF In, Held
    <3>3. QED
      BY <1>1, <2>3, <3>1, <3>2, StaysInHand
  <2>7. QED
    BY <1>1, <2>4, <2>5, <2>6 DEF NoJobLost
<1>3. ASSUME UNCHANGED <<inbox, refusing, queue, worker>>, DOMAIN job' = DOMAIN job,
             \A u \in Tickets : job'[u].stage = job[u].stage
      PROVE  NoJobLost'
  BY <1>1, <1>3 DEF NoJobLost, Tickets, InHand, In, Held
<1>4. ASSUME NEW c \in Clients, GiveUp(c) PROVE NoJobLost'
  <2>1. waits[c] \in Tickets
    BY <1>1, <1>4 DEF GiveUp
  <2>2. CASE job' = job
    BY <1>3, <1>4, <2>2 DEF GiveUp, server
  <2>3. CASE job' = [job EXCEPT ![waits[c]].flaw = "body"]
    <3>. DEFINE j == job[waits[c]]
                k == job'[waits[c]]
    <3>1. j = [client |-> j.client, call |-> j.call, flaw |-> j.flaw, stage |-> j.stage, answer |-> j.answer]
      BY <1>1, <2>1 DEF IsJob
    <3>2. k = [j EXCEPT !.flaw = "body"] /\ DOMAIN job' = DOMAIN job
      BY <1>1, <2>1, <2>3
    <3>3. \A u \in Tickets : u # waits[c] => job'[u] = job[u]
      BY <1>1, <2>3
    <3>. HIDE DEF j, k
    <3>4. k.stage = j.stage
      BY <3>1, <3>2
    <3>5. \A u \in Tickets : job'[u].stage = job[u].stage
      BY <3>3, <3>4 DEF j, k
    <3>6. QED
      BY <1>3, <1>4, <3>2, <3>5 DEF GiveUp, server
  <2>4. QED
    BY <1>4, <2>2, <2>3 DEF GiveUp
<1>5. ASSUME NEW c \in Clients, GetReply(c) \/ LosesServer(c) PROVE NoJobLost'
  BY <1>3, <1>5 DEF GetReply, LosesServer, server
<1>6. CASE Leave \/ UNCHANGED vars
  BY <1>3, <1>6 DEF Leave, vars, server
<1>7. QED
  BY <1>2, <1>4, <1>5, <1>6

\* The client of a channel that is not closed has a reply to read, so that
\* whoever waits for it to leave does not wait alone.
LEMMA ReplyIsRead ==
    ASSUME JobsSound, NEW t \in Tickets, job[t].stage = "replied", ~Gone(t)
    PROVE  \E c \in Clients : ClientGoesOn(c)
<1>1. job[t].client \in Clients /\ waits[job[t].client] = t /\ t # 0
  BY DEF JobsSound, TypeOK, Tickets, IsJob, Gone
<1>2. QED
  BY <1>1 DEF ClientGoesOn

\* A worker with a job or a queue goes on, or its job's client does.
LEMMA ServiceGoesOn ==
    ASSUME JobsSound, running = "yes", NEW s \in Services, worker[s] # 0 \/ queue[s] # <<>>
    PROVE  WorkerGoesOn(s) \/ \E c \in Clients : ClientGoesOn(c)
<1>1. worker[s] # 0 => worker[s] \in Tickets
  BY DEF JobsSound, TypeOK, Tickets
<1>2. QED
  BY <1>1, ReplyIsRead DEF WorkerGoesOn

LEMMA JobsGoOn ==
    ASSUME JobsSound, NoJobLost
    PROVE  SomebodyGoesOn
<1>. DEFINE Goal == \/ ListenerGoesOn
                    \/ \E c \in Clients : ClientGoesOn(c)
                    \/ \E s \in Services : WorkerGoesOn(s)
<1>. SUFFICES ASSUME NEW c \in Clients, waits[c] # 0, running = "yes" PROVE Goal
  BY DEF SomebodyGoesOn, ClientGoesOn
<1>t. PICK t \in Tickets : t = waits[c]
  BY DEF JobsSound, TypeOK, Tickets
<1>1. /\ job[t].stage \in Stages /\ InHand(t) /\ refusing \in 0 .. made /\ Tickets = 1 .. made
      /\ inbox \in Seq(Tickets) /\ queue \in [Services -> Seq(Tickets)] /\ 0 \notin Tickets
      /\ ListenerSound
  BY DemoAssumption DEF JobsSound, TypeOK, Tickets, IsJob, NoJobLost
<1>2. ASSUME NEW s \in Services, worker[s] # 0 \/ queue[s] # <<>> PROVE Goal
  BY <1>2, ServiceGoesOn
<1>3. CASE job[t].stage = "sent"
  <2>1. inbox # <<>>
    BY <1>1, <1>3, InLine DEF InHand
  <2>2. CASE refusing # 0
    <3>1. refusing \in Tickets /\ job[refusing].stage = "replied"
      BY <1>1, <2>2 DEF ListenerSound
    <3>2. QED
      BY <2>2, <3>1, ReplyIsRead DEF ListenerGoesOn
  <2>3. CASE refusing = 0 /\ Routed(Head(inbox))
    <3>1. PICK s \in Services : s = job[Head(inbox)].call.service
      BY <2>3 DEF Routed
    <3>2. queue[s] = <<>> => Len(queue[s]) = 0 /\ 0 < QueueCap
      BY DemoAssumption
    <3>3. QED
      BY <1>2, <2>1, <2>3, <3>1, <3>2 DEF ListenerGoesOn
  <2>4. CASE refusing = 0 /\ ~Routed(Head(inbox))
    BY <2>1, <2>4 DEF ListenerGoesOn
  <2>5. QED
    BY <2>2, <2>3, <2>4
<1>4. CASE job[t].stage \in {"queued", "ran"}
  <2>1. \E s \in Services : worker[s] = t \/ In(queue[s], t)
    BY <1>1, <1>4 DEF InHand, Held
  <2>2. \E s \in Services : worker[s] # 0 \/ queue[s] # <<>>
    BY <1>1, <2>1, InLine
  <2>3. QED
    BY <1>2, <2>2
<1>5. CASE job[t].stage \in {"replied", "closed"}
  BY <1>t, <1>5 DEF ClientGoesOn
<1>6. QED
  BY <1>1, <1>3, <1>4, <1>5 DEF Stages

\* The invariant the run checks: the integrity of the store and of the
\* count, and no job out of everybody's hands.
THEOREM StoreKept == Spec => []StoreInv
<1>1. Init => NoJobLost
  BY DEF Init, NoJobLost, Tickets
<1>2. JobsSound /\ NoJobLost /\ [Next]_vars => NoJobLost'
  BY WorkerLosesNone, ListenerLosesNone, ClientLosesNone DEF Next
<1>3. JobsSound /\ NoJobLost => StoreInv
  BY JobsGoOn DEF StoreInv, NoJobLost
<1>4. QED
  BY <1>1, <1>2, <1>3, JobsKept, PTL DEF Spec

\* While a client waits, the listener, a worker or a client goes on, for any
\* number of clients and any capacity of the queues but none: a full queue,
\* a refusal or a client that does not leave never stops the whole demo.
THEOREM NobodyLeftBehind == Spec => []SomebodyGoesOn
<1>1. StoreInv => SomebodyGoesOn
  BY DEF StoreInv
<1>2. QED
  BY <1>1, StoreKept, PTL

-----------------------------------------------------------------------------
\* The call a client waits for is its own, and its channel is not over.
Waiting == \A c \in Clients : waits[c] # 0 => job[waits[c]].client = c /\ job[waits[c]].stage # "closed"

\* A channel is over when its client has gone.
LEMMA MovesWait ==
    ASSUME JobsSound, Waiting, NEW t \in Tickets, NEW stage, Moves(t, stage), waits' = waits,
           stage = "closed" => Gone(t)
    PROVE  Waiting'
<1>. SUFFICES ASSUME NEW c \in Clients, waits[c] # 0
              PROVE  job'[waits[c]].client = c /\ job'[waits[c]].stage # "closed"
  BY DEF Waiting
<1>1. waits[c] \in Tickets /\ job[waits[c]].client = c /\ job[waits[c]].stage # "closed"
  <2>1. /\ waits \in [Clients -> 0 .. made] /\ made \in Nat /\ Tickets = 1 .. made
    BY DemoAssumption DEF JobsSound, TypeOK, Tickets
  <2>2. QED
    BY <2>1 DEF Waiting
<1>2. CASE waits[c] = t
  BY <1>1, <1>2 DEF Moves, Gone
<1>3. CASE waits[c] # t
  BY <1>1, <1>3 DEF Moves
<1>4. QED
  BY <1>2, <1>3

\* At and Answered, of the listener and the workers.
LEMMA ServerWaits ==
    ASSUME JobsSound, Waiting, Listener \/ \E s \in Services : Worker(s)
    PROVE  Waiting'
<1>1. TypeOK /\ Tickets = 1 .. made
  BY DEF JobsSound, TypeOK, Tickets
<1>2. CASE Enqueue
  <2>t. PICK t \in Tickets : t = Head(inbox) /\ job[t].stage = "sent"
    BY <1>2, InboxHead DEF Enqueue
  <2>1. UNCHANGED <<made, waits>> /\ job' = [job EXCEPT ![t].stage = "queued"]
    BY <1>2, <2>t DEF Enqueue, At
  <2>2. Moves(t, "queued")
    BY <1>1, <2>1, <2>t, StageMoves DEF Stages
  <2>3. QED
    BY <2>1, <2>2, MovesWait
<1>3. CASE Reject
  <2>t. PICK t \in Tickets : t = Head(inbox)
    BY <1>3, InboxHead DEF Reject
  <2>a. PICK a : job' = [job EXCEPT ![t].stage = "replied", ![t].answer = a]
    BY <1>3, <2>t DEF Reject, Answered
  <2>1. UNCHANGED <<made, waits>> /\ "replied" \in Stages \ {"sent"} /\ "replied" # "queued"
    BY <1>3 DEF Reject, Stages
  <2>2. Moves(t, "replied")
    BY <1>1, <2>1, <2>a, StageMoves
  <2>3. QED
    BY <2>1, <2>2, MovesWait
<1>4. CASE RejectClosed
  <2>t. PICK t \in Tickets : t = refusing
    BY <1>1, <1>4 DEF RejectClosed, TypeOK
  <2>1. /\ UNCHANGED <<made, waits>> /\ job' = [job EXCEPT ![t].stage = "closed"] /\ Gone(t)
        /\ "closed" \in Stages \ {"sent"} /\ "closed" # "queued"
    BY <1>4, <2>t DEF RejectClosed, At, Stages
  <2>2. Moves(t, "closed")
    BY <1>1, <2>1, StageMoves
  <2>3. QED
    BY <2>1, <2>2, MovesWait
<1>5. CASE ListenerFails
  BY <1>5 DEF ListenerFails, Waiting
<1>6. ASSUME NEW s \in Services, TakeJob(s) PROVE Waiting'
  BY <1>6 DEF TakeJob, Waiting
<1>7. ASSUME NEW s \in Services, DecodeFails(s) \/ RunCall(s) \/ WriteReply(s) \/ JobClosed(s) PROVE Waiting'
  <2>t. PICK t \in Tickets : t = worker[s]
    BY <1>1, <1>7 DEF DecodeFails, RunCall, WriteReply, JobClosed, Serves, TypeOK
  <2>a. PICK stage \in {"ran", "replied", "closed"} :
          /\ \/ job' = [job EXCEPT ![t].stage = stage]
             \/ \E a : job' = [job EXCEPT ![t].stage = stage, ![t].answer = a]
          /\ stage = "closed" => Gone(t)
    BY <1>7, <2>t DEF DecodeFails, RunCall, WriteReply, JobClosed, At, Answered
  <2>1. UNCHANGED <<made, waits>>
    BY <1>7 DEF DecodeFails, RunCall, WriteReply, JobClosed
  <2>2. stage \in Stages \ {"sent"} /\ stage # "queued"
    BY DEF Stages
  <2>3. Moves(t, stage)
    <3>1. CASE job' = [job EXCEPT ![t].stage = stage]
      BY <1>1, <2>1, <2>2, <3>1, StageMoves
    <3>2. ASSUME NEW a, job' = [job EXCEPT ![t].stage = stage, ![t].answer = a] PROVE Moves(t, stage)
      BY <1>1, <2>1, <2>2, <3>2, StageMoves
    <3>3. QED
      BY <2>a, <3>1, <3>2
  <2>4. QED
    BY <2>1, <2>3, <2>a, MovesWait
<1>8. QED
  BY <1>2, <1>3, <1>4, <1>5, <1>6, <1>7 DEF Listener, Worker

\* Nobody waits for the server that leaves on its count (ServerOutlivesCalls),
\* when it expects no fewer jobs than calls are made.
THEOREM ServerStays ==
    ASSUME ExpectedJobs \in Nat, ExpectedJobs >= MaxCalls
    PROVE  Spec => ServerOutlivesCalls
<1>1. Init => Waiting
  BY DEF Init, Waiting
<1>2. JobsSound /\ Waiting /\ [Next]_vars => Waiting'
  <2>. SUFFICES ASSUME JobsSound, Waiting, [Next]_vars PROVE Waiting'
    OBVIOUS
  <2>0. /\ waits \in [Clients -> 0 .. made] /\ made \in Nat /\ Tickets = 1 .. made
        /\ job = [u \in 1 .. made |-> job[u]] /\ \A t \in Tickets : IsJob(job[t])
    BY DemoAssumption DEF JobsSound, TypeOK, Tickets
  <2>1. ASSUME NEW c \in Clients, RpcCall(c) PROVE Waiting'
    <3>1. PICK r \in Requests :
              job' = Append(job, [client |-> c, call |-> r.call, flaw |-> r.flaw,
                                  stage |-> "sent", answer |-> NoAnswer])
      BY <2>1 DEF RpcCall
    <3>2. /\ job'[made + 1] = [client |-> c, call |-> r.call, flaw |-> r.flaw,
                               stage |-> "sent", answer |-> NoAnswer]
          /\ \A u \in 1 .. made : job'[u] = job[u]
      BY <2>0, <3>1, AppendJob
    <3>3. waits' = [waits EXCEPT ![c] = made + 1]
      BY <2>1 DEF RpcCall
    <3>4. ASSUME NEW d \in Clients, waits'[d] # 0
          PROVE  job'[waits'[d]].client = d /\ job'[waits'[d]].stage # "closed"
      <4>1. CASE d = c
        BY <2>0, <3>2, <3>3, <4>1
      <4>2. CASE d # c
        <5>1. waits'[d] = waits[d] /\ waits[d] # 0 /\ waits[d] \in 1 .. made
          BY <2>0, <3>3, <3>4, <4>2
        <5>2. job[waits[d]].client = d /\ job[waits[d]].stage # "closed"
          BY <5>1 DEF Waiting
        <5>3. QED
          BY <3>2, <5>1, <5>2
      <4>3. QED
        BY <4>1, <4>2
    <3>5. QED
      BY <3>4 DEF Waiting
  <2>2. ASSUME NEW c \in Clients, GetReply(c) \/ GiveUp(c) \/ LosesServer(c) PROVE Waiting'
    <3>1. waits' = [waits EXCEPT ![c] = 0] /\ waits[c] \in Tickets
      BY <2>0, <2>2 DEF GetReply, GiveUp, LosesServer
    <3>2. job' = job \/ job' = [job EXCEPT ![waits[c]].flaw = "body"]
      BY <2>2 DEF GetReply, GiveUp, LosesServer
    <3>3. ASSUME NEW d \in Clients, d # c, waits[d] # 0 PROVE waits[d] # waits[c] /\ waits[d] \in Tickets
      <4>1. waits[c] # 0 /\ waits[d] \in Tickets
        BY <2>0, <3>1, <3>3
      <4>2. job[waits[d]].client = d /\ job[waits[c]].client = c
        BY <3>3, <4>1 DEF Waiting
      <4>3. QED
        BY <3>3, <4>1, <4>2
    <3>4. \A u \in Tickets : u # waits[c] => job'[u] = job[u]
      BY <2>0, <3>1, <3>2
    <3>5. QED
      BY <2>0, <3>1, <3>3, <3>4 DEF Waiting
  <2>3. CASE Listener \/ \E s \in Services : Worker(s)
    BY <2>3, ServerWaits
  <2>4. CASE Leave \/ UNCHANGED vars
    BY <2>4 DEF Leave, vars, Waiting
  <2>5. QED
    BY <2>1, <2>2, <2>3, <2>4 DEF Next
<1>3. JobsSound /\ Waiting /\ [Next]_vars =>
          [running' = "counted" /\ running = "yes" => \A c \in Clients : waits[c] = 0]_vars
  <2>. SUFFICES ASSUME JobsSound, Waiting, [Next]_vars, running' = "counted", running = "yes",
                       NEW c \in Clients, waits[c] # 0
                PROVE  FALSE
    OBVIOUS
  <2>1. count >= ExpectedJobs
    BY DEF Next, RpcCall, GetReply, GiveUp, LosesServer, Listener, Enqueue, Reject, RejectClosed,
           ListenerFails, Worker, TakeJob, DecodeFails, RunCall, WriteReply, JobClosed, Leave, vars, server
  <2>2. /\ Tickets = 1 .. made /\ made \in 0 .. MaxCalls /\ waits[c] \in 1 .. made
        /\ made \in Int /\ MaxCalls \in Nat
    BY DemoAssumption DEF JobsSound, TypeOK, Tickets
  <2>3. Counted \subseteq (1 .. made) \ {waits[c]}
    BY <2>2 DEF Counted, Waiting
  <2>4. IsFiniteSet(1 .. made) /\ Cardinality(1 .. made) = made
    <3>1. 1 \in Int /\ made >= 1
      BY <2>2
    <3>2. QED
      BY <2>2, <3>1, FS_Interval
  <2>. DEFINE others == (1 .. made) \ {waits[c]}
  <2>5. IsFiniteSet(others) /\ Cardinality(others) = made - 1
    BY <2>2, <2>4, FS_RemoveElement
  <2>p. Counted \in SUBSET others
    BY <2>3
  <2>. HIDE DEF others
  <2>6. IsFiniteSet(Counted) /\ Cardinality(Counted) <= made - 1
    <3>1. IsFiniteSet(Counted) /\ Cardinality(Counted) <= Cardinality(others)
      BY <2>5, <2>p, FS_Subset
    <3>2. QED
      BY <2>5, <3>1
  <2>7. count = Cardinality(Counted) /\ count \in Nat
    <3>1. IsFiniteSet(Counted)
      BY <2>6
    <3>2. QED
      BY <3>1, FS_CardinalityType DEF JobsSound
  <2>8. QED
    BY <2>1, <2>2, <2>6, <2>7
<1>4. QED
  BY <1>1, <1>2, <1>3, JobsKept, PTL DEF Spec, ServerOutlivesCalls

-----------------------------------------------------------------------------
(* The demo keeps the promise of StoreService: a call takes effect at most *)
(* once, and its client reads the answer of that effect.                   *)

\* What the promise's pending and given stand for (RpcDemo!Promise).
Pending == { [ticket |-> t, call |-> job[t].call] : t \in { u \in Tickets : job[u].answer = NoAnswer } }
Given == [c \in Clients |-> IF waits[c] = 0 THEN NoAnswer ELSE job[waits[c]].answer]

\* A method answers with a status that is not NoAnswer's.
LEMMA RunStatus ==
    ASSUME NEW store, NEW call, call.method \in Methods
    PROVE  Run(store, call).status \in {200, 400, 404}
<1>1. \A error \in {"WorkspaceNotFound", "SessionNotFound", "WorkspaceNotEmpty"} :
          StatusOf(error) \in {400, 404}
  BY DEF StatusOf
<1>2. DispatchWorkspace(store, call).status \in {200, 400, 404}
  BY <1>1 DEF DispatchWorkspace, Methods, CreateWorkspace, ListWorkspaces, GetWorkspace,
              RenameWorkspace, DeleteWorkspace, Reply, Refuse
<1>3. DispatchSession(store, call).status \in {200, 400, 404}
  BY <1>1 DEF DispatchSession, Methods, CreateSession, ListSessions, GetSession,
              RenameSession, DeleteSession, Reply, Refuse
<1>4. QED
  BY <1>2, <1>3 DEF Run

\* Steps that answer nothing are not seen.
LEMMA Unseen ==
    ASSUME JobsSound, UNCHANGED <<made, waits>>, DOMAIN job' = DOMAIN job,
           \A t \in Tickets : job'[t].call = job[t].call /\ job'[t].answer = job[t].answer
    PROVE  Pending' = Pending /\ Given' = Given
<1>1. Tickets' = Tickets /\ Tickets = 1 .. made /\ waits \in [Clients -> 0 .. made] /\ made \in Nat
  BY DemoAssumption DEF Tickets, JobsSound, TypeOK
<1>2. Pending' = Pending
  BY <1>1 DEF Pending
<1>3. Given' = Given
  BY <1>1 DEF Given
<1>4. QED
  BY <1>2, <1>3

\* The one step that answers a call settles it.
LEMMA Settles ==
    ASSUME JobsSound, NEW t \in Tickets, job[t].answer = NoAnswer, NEW a, a # NoAnswer, NEW stage,
           job' = [job EXCEPT ![t].stage = stage, ![t].answer = a], UNCHANGED <<made, waits>>
    PROVE  LET p == [ticket |-> t, call |-> job[t].call] IN
           /\ p \in Pending /\ Pending' = Pending \ {p}
           /\ Given' = [c \in Clients |-> IF waits[c] = t THEN a ELSE Given[c]]
<1>. DEFINE p == [ticket |-> t, call |-> job[t].call]
            j == job[t]
            k == job'[t]
<1>1. /\ Tickets = 1 .. made /\ waits \in [Clients -> 0 .. made] /\ made \in Nat
      /\ job = [u \in 1 .. made |-> job[u]] /\ IsJob(j)
  BY DemoAssumption DEF Tickets, JobsSound, TypeOK
<1>2. /\ Tickets' = Tickets /\ \A u \in Tickets : u # t => job'[u] = job[u]
  BY <1>1 DEF Tickets
<1>3. k = [j EXCEPT !.stage = stage, !.answer = a]
  BY <1>1
<1>4. j = [client |-> j.client, call |-> j.call, flaw |-> j.flaw, stage |-> j.stage, answer |-> j.answer]
  BY <1>1 DEF IsJob
<1>. HIDE DEF k
<1>5. k.answer = a /\ k.call = j.call
  BY <1>3, <1>4
<1>6. p \in Pending
  BY DEF Pending
<1>7. Pending' = Pending \ {p}
  <2>1. \A u \in Tickets : u # t => [ticket |-> u, call |-> job[u].call] # p
    OBVIOUS
  <2>2. \A u \in Tickets : job'[u].answer = NoAnswer <=> u # t /\ job[u].answer = NoAnswer
    BY <1>2, <1>5 DEF k
  <2>3. \A u \in Tickets : u # t => job'[u].call = job[u].call
    BY <1>2
  <2>4. ASSUME NEW x
        PROVE  x \in Pending' <=> x \in Pending /\ x # p
    <3>1. x \in Pending' <=> \E u \in Tickets : /\ u # t /\ job[u].answer = NoAnswer
                                                /\ x = [ticket |-> u, call |-> job[u].call]
      <4>1. x \in Pending' <=> \E u \in Tickets : /\ job'[u].answer = NoAnswer
                                                  /\ x = [ticket |-> u, call |-> job'[u].call]
        BY <1>2 DEF Pending
      <4>2. QED
        BY <2>2, <2>3, <4>1
    <3>2. x \in Pending <=> \E u \in Tickets : /\ job[u].answer = NoAnswer
                                               /\ x = [ticket |-> u, call |-> job[u].call]
      BY DEF Pending
    <3>3. QED
      BY <2>1, <3>1, <3>2
  <2>5. QED
    BY <2>4
<1>8. Given' = [c \in Clients |-> IF waits[c] = t THEN a ELSE Given[c]]
  <2>1. ASSUME NEW c \in Clients
        PROVE  (IF waits[c] = 0 THEN NoAnswer ELSE job'[waits[c]].answer)
               = (IF waits[c] = t THEN a ELSE IF waits[c] = 0 THEN NoAnswer ELSE job[waits[c]].answer)
    <3>1. waits[c] = 0 \/ waits[c] \in Tickets
      BY <1>1
    <3>2. QED
      BY <1>1, <1>2, <1>5, <3>1 DEF k
  <2>2. QED
    BY <2>1 DEF Given
<1>9. QED
  BY <1>6, <1>7, <1>8

\* A call made is one that can take effect.
LEMMA Asks ==
    ASSUME JobsSound, NEW c \in Clients, RpcCall(c)
    PROVE  /\ \E call \in Calls : Pending' = Pending \cup {[ticket |-> made', call |-> call]}
           /\ Given' = Given
<1>. DEFINE n == made + 1
<1>1. /\ Tickets = 1 .. made /\ waits \in [Clients -> 0 .. made] /\ made \in Nat
      /\ job = [u \in 1 .. made |-> job[u]] /\ waits[c] = 0
  BY DemoAssumption DEF Tickets, JobsSound, TypeOK, RpcCall
<1>2. PICK r \in Requests :
          job' = Append(job, [client |-> c, call |-> r.call, flaw |-> r.flaw,
                              stage |-> "sent", answer |-> NoAnswer])
  BY DEF RpcCall
<1>. DEFINE e == [client |-> c, call |-> r.call, flaw |-> r.flaw, stage |-> "sent", answer |-> NoAnswer]
<1>3. job' = [u \in 1 .. n |-> job'[u]] /\ job'[n] = e /\ \A u \in 1 .. made : job'[u] = job[u]
  BY <1>1, <1>2, AppendJob
<1>4. e.call = r.call /\ e.answer = NoAnswer /\ r.call \in Calls
  BY DEF Calls
<1>. HIDE DEF e
<1>5. Tickets' = Tickets \cup {n} /\ n \notin Tickets /\ n # 0 /\ made' = n
  BY <1>1, <1>3 DEF Tickets, RpcCall
<1>6. waits' = [waits EXCEPT ![c] = n]
  BY <1>5 DEF RpcCall
<1>. HIDE DEF n
<1>7. Pending' = Pending \cup {[ticket |-> n, call |-> r.call]}
  <2>1. ASSUME NEW x
        PROVE  x \in Pending' <=> x \in Pending \/ x = [ticket |-> n, call |-> r.call]
    <3>1. x \in Pending' <=> \E u \in Tickets' : /\ job'[u].answer = NoAnswer
                                                 /\ x = [ticket |-> u, call |-> job'[u].call]
      BY DEF Pending
    <3>2. x \in Pending <=> \E u \in Tickets : /\ job[u].answer = NoAnswer
                                               /\ x = [ticket |-> u, call |-> job[u].call]
      BY DEF Pending
    <3>3. QED
      BY <1>1, <1>3, <1>4, <1>5, <3>1, <3>2
  <2>2. QED
    BY <2>1
<1>8. Given' = Given
  <2>1. ASSUME NEW d \in Clients
        PROVE  (IF waits'[d] = 0 THEN NoAnswer ELSE job'[waits'[d]].answer)
               = (IF waits[d] = 0 THEN NoAnswer ELSE job[waits[d]].answer)
    <3>1. CASE d = c
      BY <1>1, <1>3, <1>4, <1>5, <1>6, <3>1
    <3>2. CASE d # c
      BY <1>1, <1>3, <1>6, <3>2
    <3>3. QED
      BY <3>1, <3>2
  <2>2. QED
    BY <2>1 DEF Given
<1>9. QED
  BY <1>4, <1>5, <1>7, <1>8

\* Whatever ends a call's wait, its client no longer has an answer to read.
LEMMA Returns ==
    ASSUME JobsSound, NEW c \in Clients, waits' = [waits EXCEPT ![c] = 0], made' = made,
           DOMAIN job' = DOMAIN job,
           \A t \in Tickets : job'[t].call = job[t].call /\ job'[t].answer = job[t].answer
    PROVE  Pending' = Pending /\ Given' = [Given EXCEPT ![c] = NoAnswer]
<1>1. Tickets' = Tickets /\ Tickets = 1 .. made /\ waits \in [Clients -> 0 .. made] /\ made \in Nat
  BY DemoAssumption DEF Tickets, JobsSound, TypeOK
<1>2. Pending' = Pending
  BY <1>1 DEF Pending
<1>3. Given' = [Given EXCEPT ![c] = NoAnswer]
  <2>1. ASSUME NEW d \in Clients
        PROVE  (IF waits'[d] = 0 THEN NoAnswer ELSE job'[waits'[d]].answer)
               = (IF d = c THEN NoAnswer ELSE IF waits[d] = 0 THEN NoAnswer ELSE job[waits[d]].answer)
    BY <1>1
  <2>2. Given' = [d \in Clients |-> IF d = c THEN NoAnswer ELSE Given[d]]
    BY <2>1 DEF Given
  <2>3. Given = [d \in Clients |-> Given[d]]
    BY DEF Given
  <2>4. QED
    BY <2>2, <2>3
<1>4. QED
  BY <1>2, <1>3

LEMMA CallAsks ==
    ASSUME JobsSound, NEW c \in Clients, RpcCall(c)
    PROVE  Promise!Ask(c)
<1>1. /\ waits[c] = 0 /\ made' = made + 1 /\ waits' = [waits EXCEPT ![c] = made'] /\ db' = db
  BY DEF RpcCall
<1>2. /\ \E call \in Calls : Pending' = Pending \cup {[ticket |-> made', call |-> call]}
      /\ Given' = Given
  BY Asks
<1>3. QED
  BY <1>1, <1>2 DEF Promise!Ask, Pending, Given

LEMMA EndReturns ==
    ASSUME JobsSound, NEW c \in Clients, GetReply(c) \/ GiveUp(c) \/ LosesServer(c)
    PROVE  Promise!Return(c)
<1>1. /\ waits[c] # 0 /\ waits' = [waits EXCEPT ![c] = 0] /\ made' = made /\ db' = db
  BY DEF GetReply, GiveUp, LosesServer, server
<1>2. DOMAIN job' = DOMAIN job /\ \A t \in Tickets : job'[t].call = job[t].call /\ job'[t].answer = job[t].answer
  <2>1. CASE job' = job
    BY <2>1
  <2>2. CASE job' = [job EXCEPT ![waits[c]].flaw = "body"]
    <3>1. job = [u \in 1 .. made |-> job[u]] /\ Tickets = 1 .. made /\ \A t \in Tickets : IsJob(job[t])
      BY DEF JobsSound, TypeOK, Tickets
    <3>2. DOMAIN job' = DOMAIN job /\ \A t \in Tickets : t # waits[c] => job'[t] = job[t]
      BY <2>2, <3>1
    <3>3. ASSUME waits[c] \in Tickets
          PROVE  job'[waits[c]].call = job[waits[c]].call /\ job'[waits[c]].answer = job[waits[c]].answer
      <4>. DEFINE j == job[waits[c]]
                  k == job'[waits[c]]
      <4>1. j = [client |-> j.client, call |-> j.call, flaw |-> j.flaw, stage |-> j.stage, answer |-> j.answer]
        BY <3>1, <3>3 DEF IsJob
      <4>2. k = [j EXCEPT !.flaw = "body"]
        BY <2>2, <3>1, <3>3
      <4>. HIDE DEF j, k
      <4>3. k.call = j.call /\ k.answer = j.answer
        BY <4>1, <4>2
      <4>4. QED
        BY <4>3 DEF j, k
    <3>4. QED
      BY <3>2, <3>3
  <2>3. QED
    BY <2>1, <2>2 DEF GetReply, GiveUp, LosesServer
<1>3. Pending' = Pending /\ Given' = [Given EXCEPT ![c] = NoAnswer]
  BY <1>1, <1>2, Returns
<1>4. QED
  BY <1>1, <1>3 DEF Promise!Return, Promise!NoAnswer, NoAnswer, Pending, Given

\* Moving a job on is unseen.
LEMMA AtUnseen ==
    ASSUME JobsSound, NEW t \in Tickets, NEW stage, At(t, stage), UNCHANGED <<db, made, waits>>
    PROVE  UNCHANGED Promise!vars
<1>1. job = [u \in 1 .. made |-> job[u]] /\ Tickets = 1 .. made /\ IsJob(job[t])
  BY DEF JobsSound, TypeOK, Tickets
<1>2. DOMAIN job' = DOMAIN job /\ \A u \in Tickets : u # t => job'[u] = job[u]
  BY <1>1 DEF At
<1>3. job'[t].call = job[t].call /\ job'[t].answer = job[t].answer
  <2>. DEFINE j == job[t]
              k == job'[t]
  <2>1. j = [client |-> j.client, call |-> j.call, flaw |-> j.flaw, stage |-> j.stage, answer |-> j.answer]
    BY <1>1 DEF IsJob
  <2>2. k = [j EXCEPT !.stage = stage]
    BY <1>1 DEF At
  <2>. HIDE DEF j, k
  <2>3. k.call = j.call /\ k.answer = j.answer
    BY <2>1, <2>2
  <2>4. QED
    BY <2>3 DEF j, k
<1>4. Pending' = Pending /\ Given' = Given
  BY <1>2, <1>3, Unseen
<1>5. QED
  BY <1>4 DEF Promise!vars, Pending, Given

\* The promise speaks of the same methods.
LEMMA SameRun == ASSUME NEW store, NEW call PROVE Promise!Run(store, call) = Run(store, call)
  BY DEF Run, DispatchWorkspace, DispatchSession, CreateWorkspace,
         ListWorkspaces, GetWorkspace, RenameWorkspace, DeleteWorkspace,
         CreateSession, ListSessions, GetSession, RenameSession, DeleteSession,
         Reply, Refuse, StatusOf, RowIfAny, All, With, Without, SessionsOf,
         Promise!Run, Promise!DispatchWorkspace, Promise!DispatchSession,
         Promise!CreateWorkspace, Promise!ListWorkspaces, Promise!GetWorkspace,
         Promise!RenameWorkspace, Promise!DeleteWorkspace,
         Promise!CreateSession, Promise!ListSessions, Promise!GetSession,
         Promise!RenameSession, Promise!DeleteSession, Promise!Reply,
         Promise!Refuse, Promise!StatusOf, Promise!RowIfAny, Promise!All,
         Promise!With, Promise!Without, Promise!SessionsOf

LEMMA SameEmpty == Promise!EmptyStore = EmptyStore /\ Promise!NoAnswer = NoAnswer
BY DEF EmptyStore, Promise!EmptyStore, NoAnswer, Promise!NoAnswer

\* Refusals without effect: of the listener, or of a worker that cannot
\* decode.
Refusals == { [status |-> status, value |-> {}] : status \in {400, 404, 405} }

\* An answer to a call that had none settles it.
LEMMA AnswerSettles ==
    ASSUME JobsSound, NEW t \in Tickets, job[t].stage \in {"sent", "queued"},
           NEW a, a # NoAnswer, NEW stage,
           job' = [job EXCEPT ![t].stage = stage, ![t].answer = a], UNCHANGED <<made, waits>>
    PROVE  \E p \in Pending : p.ticket = t /\ p.call = job[t].call /\ Promise!Settled(p, a)
<1>1. job[t].answer = NoAnswer
  BY DEF JobsSound, TypeOK, Tickets, IsJob
<1>p. PICK p \in Pending : p = [ticket |-> t, call |-> job[t].call]
  BY <1>1 DEF Pending
<1>2. /\ Pending' = Pending \ {p}
      /\ Given' = [c \in Clients |-> IF waits[c] = t THEN a ELSE Given[c]]
  BY <1>1, <1>p, Settles
<1>3. p.ticket = t /\ p.call = job[t].call
  BY <1>p
<1>4. Promise!Settled(p, a)
  BY <1>2, <1>3 DEF Promise!Settled, Pending, Given
<1>5. QED
  BY <1>3, <1>4

LEMMA RefusalTurnsDown ==
    ASSUME JobsSound, NEW t \in Tickets, job[t].stage \in {"sent", "queued"},
           NEW a \in Refusals, NEW stage,
           job' = [job EXCEPT ![t].stage = stage, ![t].answer = a], UNCHANGED <<db, made, waits>>
    PROVE  Promise!Next
<1>1. a # NoAnswer
  BY DEF NoAnswer, Refusals
<1>2. PICK p \in Pending : Promise!Settled(p, a)
  BY <1>1, AnswerSettles
<1>3. \E status \in {400, 404, 405} : Promise!Settled(p, [status |-> status, value |-> {}])
  BY <1>2 DEF Refusals
<1>4. Promise!TurnDown(p)
  BY <1>3 DEF Promise!TurnDown
<1>5. QED
  BY <1>4 DEF Promise!Next, Pending

\* The method's run is the call's effect.
LEMMA RunTakesEffect ==
    ASSUME JobsSound, NEW s \in Services, RunCall(s)
    PROVE  Promise!Next
<1>1. /\ worker[s] \in Tickets /\ job[worker[s]].stage = "queued"
      /\ job[worker[s]].answer = NoAnswer /\ job[worker[s]].call.method \in Methods
  BY DemoAssumption, SMTT(30) DEF JobsSound, TypeOK, Tickets, IsJob, RunCall, Serves, Calls
<1>t. PICK t \in Tickets : t = worker[s]
  BY <1>1
<1>r. PICK run : run = Run(db, job[t].call)
  OBVIOUS
<1>. DEFINE a == [status |-> run.status, value |-> run.value]
<1>2. run.status \in {200, 400, 404}
  BY <1>1, <1>t, <1>r, RunStatus
<1>3. /\ job' = [job EXCEPT ![t].stage = "ran", ![t].answer = a]
      /\ db' = run.db /\ UNCHANGED <<made, waits>>
  BY <1>t, <1>r DEF RunCall, Answered
<1>4. a # NoAnswer
  BY <1>2 DEF NoAnswer
<1>. HIDE DEF a
<1>5. PICK p \in Pending : p.ticket = t /\ p.call = job[t].call /\ Promise!Settled(p, a)
  BY <1>1, <1>t, <1>3, <1>4, AnswerSettles
<1>6. run = Promise!Run(db, p.call)
  BY <1>r, <1>5, SameRun
<1>7. Promise!TakeEffect(p)
  BY <1>3, <1>5, <1>6 DEF Promise!TakeEffect, Promise!Settled, a
<1>8. QED
  BY <1>7 DEF Promise!Next, Pending

\* Every step of the demo is one of the promise, or unseen.
LEMMA StepKeepsPromise ==
    ASSUME JobsSound, [Next]_vars
    PROVE  [Promise!Next]_(Promise!vars)
<1>1. ASSUME NEW c \in Clients, RpcCall(c) PROVE Promise!Next
  BY <1>1, CallAsks DEF Promise!Next
<1>2. ASSUME NEW c \in Clients, GetReply(c) \/ GiveUp(c) \/ LosesServer(c) PROVE Promise!Next
  BY <1>2, EndReturns DEF Promise!Next
<1>3. CASE Enqueue
  <2>1. Head(inbox) \in Tickets
    BY <1>3, InboxHead DEF Enqueue
  <2>2. At(Head(inbox), "queued") /\ UNCHANGED <<db, made, waits>>
    BY <1>3 DEF Enqueue
  <2>3. QED
    BY <2>1, <2>2, AtUnseen
<1>4. CASE Reject
  <2>t. PICK t \in Tickets : t = Head(inbox) /\ job[t].stage = "sent"
    BY <1>4, InboxHead DEF Reject
  <2>1. UNCHANGED <<db, made, waits>>
    BY <1>4 DEF Reject
  <2>2. PICK a \in Refusals : job' = [job EXCEPT ![t].stage = "replied", ![t].answer = a]
    <3>. DEFINE status == IF job[t].flaw = "method" THEN 405 ELSE 404
    <3>1. job' = [job EXCEPT ![t].stage = "replied", ![t].answer = [status |-> status, value |-> {}]]
      BY <1>4, <2>t DEF Reject, Answered
    <3>2. status \in {404, 405}
      OBVIOUS
    <3>. HIDE DEF status
    <3>3. [status |-> status, value |-> {}] \in Refusals
      BY <3>2 DEF Refusals
    <3>4. QED
      BY <3>1, <3>3
  <2>3. QED
    BY <2>t, <2>1, <2>2, RefusalTurnsDown
<1>5. CASE RejectClosed
  <2>1. refusing \in Tickets
    BY <1>5 DEF RejectClosed, JobsSound, TypeOK, Tickets
  <2>2. At(refusing, "closed") /\ UNCHANGED <<db, made, waits>>
    BY <1>5 DEF RejectClosed
  <2>3. QED
    BY <2>1, <2>2, AtUnseen
<1>6. ASSUME NEW s \in Services, DecodeFails(s) PROVE Promise!Next
  <2>1. worker[s] \in Tickets /\ job[worker[s]].stage = "queued"
    BY <1>6 DEF DecodeFails, Serves, JobsSound, TypeOK, Tickets
  <2>2. UNCHANGED <<db, made, waits>>
    BY <1>6 DEF DecodeFails
  <2>3. PICK a \in Refusals : job' = [job EXCEPT ![worker[s]].stage = "ran", ![worker[s]].answer = a]
    BY <1>6, ZenonT(40) DEF DecodeFails, Answered, Refusals
  <2>4. QED
    BY <2>1, <2>2, <2>3, RefusalTurnsDown
<1>7. ASSUME NEW s \in Services, RunCall(s) PROVE Promise!Next
  BY <1>7, RunTakesEffect
<1>8. ASSUME NEW s \in Services, WriteReply(s) \/ JobClosed(s) PROVE UNCHANGED Promise!vars
  <2>1. worker[s] \in Tickets
    BY <1>8 DEF WriteReply, JobClosed, Serves, JobsSound, TypeOK, Tickets
  <2>2. /\ At(worker[s], "replied") \/ At(worker[s], "closed")
        /\ UNCHANGED <<db, made, waits>>
    BY <1>8 DEF WriteReply, JobClosed
  <2>3. QED
    BY <2>1, <2>2, AtUnseen
<1>9. ASSUME UNCHANGED <<db, made, job, waits>> PROVE UNCHANGED Promise!vars
  BY <1>9 DEF Promise!vars, Tickets
<1>10. CASE ListenerFails \/ Leave \/ UNCHANGED vars
  BY <1>9, <1>10 DEF ListenerFails, Leave, vars, server
<1>11. ASSUME NEW s \in Services, TakeJob(s) PROVE UNCHANGED Promise!vars
  BY <1>9, <1>11 DEF TakeJob
<1>12. QED
  BY <1>1, <1>2, <1>3, <1>4, <1>5, <1>6, <1>7, <1>8, <1>10, <1>11 DEF Next, Listener, Worker

\* The refinement the run checks (AtMostOnce): through queues, refusals, cut
\* requests and clients that leave, a call takes effect at most once and its
\* answer is that of the effect, for any number of clients and calls.
THEOREM PromiseKept == Spec => AtMostOnce
<1>1. Init => Promise!Init
  <2>1. Init => /\ db = EmptyStore /\ made = 0 /\ waits = [c \in Clients |-> 0]
                /\ Pending = {} /\ Given = [c \in Clients |-> NoAnswer]
    BY DEF Init, Pending, Given, Tickets
  <2>2. QED
    BY <2>1, SameEmpty DEF Promise!Init, Pending, Given
<1>2. JobsSound /\ [Next]_vars => [Promise!Next]_(Promise!vars)
  BY StepKeepsPromise
<1>3. QED
  BY <1>1, <1>2, JobsKept, PTL DEF Spec, AtMostOnce, Promise!Spec
=============================================================================
