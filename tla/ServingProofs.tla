--------------------------- MODULE ServingProofs ---------------------------
(***************************************************************************)
(* Serving for every number of calls, queue capacity and backlog: one      *)
(* owner for every channel, calls in line, answers to what was asked, and  *)
(* nobody stuck.                                                           *)
(***************************************************************************)
EXTENDS Serving, SequenceTheorems, TLAPS

(* Appending adds one element, which ends an increasing sequence when it is *)
(* above all the others.                                                    *)
LEMMA Appended ==
  ASSUME NEW seq \in Seq(Calls), NEW c \in Calls
  PROVE  /\ Append(seq, c) \in Seq(Calls)
         /\ Len(Append(seq, c)) = Len(seq) + 1
         /\ ToSet(Append(seq, c)) = ToSet(seq) \cup {c}
         /\ Increasing(seq) /\ Before(ToSet(seq), {c}) => Increasing(Append(seq, c))
<1>. DEFINE t == Append(seq, c)
<1>1. /\ t \in Seq(Calls) /\ Len(t) = Len(seq) + 1 /\ t[Len(seq) + 1] = c
      /\ \A i \in 1 .. Len(seq) : t[i] = seq[i]
  OBVIOUS
<1>2. DOMAIN t = 1 .. Len(seq) + 1 /\ DOMAIN seq = 1 .. Len(seq) /\ Len(seq) \in Nat
  BY <1>1
<1>3. ToSet(t) = ToSet(seq) \cup {c}
  BY <1>1, <1>2 DEF ToSet
<1>4. ASSUME Increasing(seq), Before(ToSet(seq), {c}) PROVE Increasing(t)
  <2>1. \A i \in 1 .. Len(seq) : seq[i] < c
    BY <1>2, <1>4 DEF Before, ToSet
  <2>2. SUFFICES ASSUME NEW i \in DOMAIN t, NEW j \in DOMAIN t, i < j PROVE t[i] < t[j]
    BY DEF Increasing
  <2>3. i \in 1 .. Len(seq)
    BY <1>2, <2>2
  <2>4. CASE j = Len(seq) + 1
    BY <1>1, <2>1, <2>3, <2>4
  <2>5. CASE j \in 1 .. Len(seq)
    BY <1>1, <1>2, <1>4, <2>2, <2>3, <2>5 DEF Increasing
  <2>6. QED
    BY <1>2, <2>4, <2>5
<1>5. QED
  BY <1>1, <1>3, <1>4

(* Of an increasing sequence the head is below all the rest.                *)
LEMMA Served ==
  ASSUME NEW seq \in Seq(Calls), seq # << >>, Increasing(seq)
  PROVE  /\ Tail(seq) \in Seq(Calls) /\ Head(seq) \in Calls
         /\ Len(Tail(seq)) = Len(seq) - 1 /\ Len(seq) \in Nat \ {0}
         /\ ToSet(Tail(seq)) = ToSet(seq) \ {Head(seq)} /\ Head(seq) \in ToSet(seq)
         /\ Increasing(Tail(seq))
         /\ Before({Head(seq)}, ToSet(Tail(seq)))
<1>. DEFINE t == Tail(seq)
<1>1. /\ t \in Seq(Calls) /\ Len(t) = Len(seq) - 1 /\ Len(seq) \in Nat \ {0}
      /\ \A i \in 1 .. Len(t) : t[i] = seq[i + 1]
      /\ Head(seq) = seq[1]
  OBVIOUS
<1>2. DOMAIN t = 1 .. Len(t) /\ DOMAIN seq = 1 .. Len(seq) /\ Len(t) \in Nat
  BY <1>1
<1>3. Increasing(t)
  BY <1>1, <1>2 DEF Increasing
<1>4. ASSUME NEW i \in 1 .. Len(t) PROVE Head(seq) < t[i]
  <2>1. 1 \in DOMAIN seq /\ i + 1 \in DOMAIN seq /\ 1 < i + 1
    BY <1>1, <1>2
  <2>2. seq[1] < seq[i + 1]
    BY <2>1 DEF Increasing
  <2>3. QED
    BY <1>1, <2>2
<1>5. Before({Head(seq)}, ToSet(t))
  BY <1>2, <1>4 DEF Before, ToSet
<1>6. Head(seq) \in Calls
  BY <1>1
<1>7. ToSet(t) = ToSet(seq) \ {Head(seq)}
  <2>1. ASSUME NEW c \in ToSet(t) PROVE c \in ToSet(seq) \ {Head(seq)}
    <3>1. PICK i \in 1 .. Len(t) : c = t[i]
      BY <1>2, <2>1 DEF ToSet
    <3>2. c = seq[i + 1] /\ i + 1 \in DOMAIN seq
      BY <1>1, <1>2, <3>1
    <3>3. Head(seq) < c /\ Head(seq) \in Nat
      BY <1>4, <1>6, <3>1 DEF Calls
    <3>4. QED
      BY <3>2, <3>3 DEF ToSet
  <2>2. ASSUME NEW c \in ToSet(seq) \ {Head(seq)} PROVE c \in ToSet(t)
    <3>1. PICK i \in 1 .. Len(seq) : c = seq[i]
      BY <1>2, <2>2 DEF ToSet
    <3>2. i - 1 \in 1 .. Len(t) /\ i = (i - 1) + 1
      BY <1>1, <2>2, <3>1
    <3>3. c = t[i - 1]
      BY <1>1, <3>1, <3>2
    <3>4. QED
      BY <1>2, <3>2, <3>3 DEF ToSet
  <2>3. QED
    BY <2>1, <2>2
<1>8. Head(seq) \in ToSet(seq)
  <2>1. 1 \in DOMAIN seq
    BY <1>1, <1>2
  <2>2. QED
    BY <1>1, <2>1 DEF ToSet
<1>9. QED
  BY <1>1, <1>3, <1>5, <1>6, <1>7, <1>8

(* A server that nobody has called.                                         *)
LEMMA InitSound == Init => LineSound
<1>. SUFFICES ASSUME Init PROVE LineSound
  OBVIOUS
<1>. USE DEF Init
<1>1. ToSet(<< >>) = {} /\ << >> \in Seq(Calls) /\ Increasing(<< >>) /\ Len(<< >>) = 0
  BY DEF ToSet, Increasing
<1>2. TypeOK
  <2>1. \A c \in Calls : c # NoCall /\ place[c] = "none"
    BY ServingAssumption DEF Calls, NoCall
  <2>2. 0 \in 0 .. NumCalls
    BY ServingAssumption
  <2>3. kind \in [Calls -> Kinds]
    BY DEF Kinds
  <2>4. QED
    BY <1>1, <2>1, <2>2, <2>3 DEF TypeOK, NoCall
<1>3. QueueBounded /\ FirstComeFirstServed
  BY <1>1, ServingAssumption DEF QueueBounded, FirstComeFirstServed
<1>4. InLine
  BY <1>1 DEF InLine, Before, InHand
<1>5. QED
  BY <1>2, <1>3, <1>4 DEF LineSound, JobTaken

(* Steps that hand no channel from one owner to another.                    *)
LEMMA StillSound ==
  ASSUME LineSound,
         handler' \in Handlers, kind' \in [Calls -> Kinds], client' \in [Calls -> {"out", "in", "gone"}],
         reply' \in [Calls -> {"none", "ok", "err"}], failed' \in BOOLEAN, cancelled' \in BOOLEAN,
         UNCHANGED <<place, backlog, cur, queue, job, came, taken>>,
         listener' \in {"income", "prefix", "route", "reply", "close", "enqueue", "flush", "down"},
         worker' \in {"idle", "reply", "close", "dead"},
         cur = NoCall <=> listener' \in {"income", "flush", "down"},
         job = NoCall <=> worker' \in {"idle", "dead"},
         Len(queue) > QueueCap => listener' \in {"flush", "down"},
         worker' = "dead" => queue = << >>
  PROVE  LineSound'
<1>1. TypeOK'
  BY DEF LineSound, TypeOK
<1>2. QueueBounded' /\ FirstComeFirstServed' /\ InLine'
  BY DEF LineSound, QueueBounded, FirstComeFirstServed, InLine, InHand
<1>3. QED
  BY <1>1, <1>2 DEF LineSound, JobTaken

(* The channel in hand is dropped, whatever for.                            *)
LEMMA FinishSound ==
  ASSUME LineSound, NEW stage \in {"income", "down"}, Finish(stage),
         listener \in {"prefix", "route", "reply", "close", "enqueue"}
  PROVE  LineSound'
<1>1. cur \in Calls /\ cur # NoCall
  BY DEF LineSound, TypeOK, Calls, NoCall
<1>2. /\ place' = [place EXCEPT ![cur] = "closed"] /\ cur' = NoCall /\ listener' = stage /\ failed' = FALSE
      /\ UNCHANGED <<handler, kind, client, reply, backlog, queue, worker, job, cancelled, came, taken>>
  BY DEF Finish, wrkVars
<1>3. \A c \in Calls : place'[c] = IF c = cur THEN "closed" ELSE place[c]
  BY <1>2 DEF LineSound, TypeOK
<1>4. TypeOK'
  <2>1. place' \in [Calls -> {"none", "backlog", "listener", "queue", "worker", "closed"}]
    BY <1>2 DEF LineSound, TypeOK
  <2>2. NoCall \in 0 .. NumCalls /\ \A c \in Calls : c # NoCall
    BY ServingAssumption DEF NoCall, Calls
  <2>3. \A c \in Calls : /\ place'[c] = "backlog" <=> c \in ToSet(backlog')
                         /\ place'[c] = "listener" <=> c = cur'
                         /\ place'[c] = "queue" <=> c \in ToSet(queue')
                         /\ place'[c] = "worker" <=> c = job'
    BY <1>1, <1>2, <1>3, <2>2 DEF LineSound, TypeOK
  <2>4. QED
    BY <1>2, <2>1, <2>2, <2>3 DEF LineSound, TypeOK
<1>5. QueueBounded' /\ FirstComeFirstServed'
  BY <1>2 DEF LineSound, QueueBounded, FirstComeFirstServed
<1>6. InLine'
  <2>1. InHand' = {}
    BY <1>2 DEF InHand
  <2>2. QED
    BY <1>2, <2>1 DEF LineSound, InLine, Before
<1>7. QED
  BY <1>2, <1>4, <1>5, <1>6 DEF LineSound, JobTaken

(* The channel in hand goes to the queue: of a living worker, with room or  *)
(* with the wait still to come.                                             *)
LEMMA DeliverSound ==
  ASSUME LineSound, listener = "enqueue", worker # "dead",
         NEW next, next = IF Len(queue) + 1 > QueueCap THEN "flush" ELSE "income",
         Deliver(next)
  PROVE  LineSound'
<1>1. cur \in Calls /\ cur # NoCall
  BY DEF LineSound, TypeOK, Calls, NoCall
<1>2. /\ place' = [place EXCEPT ![cur] = "queue"] /\ cur' = NoCall /\ listener' = next
      /\ queue' = Append(queue, cur)
      /\ UNCHANGED <<handler, kind, client, reply, backlog, failed, worker, job, cancelled, came, taken>>
  BY DEF Deliver
<1>3. \A c \in Calls : place'[c] = IF c = cur THEN "queue" ELSE place[c]
  BY <1>2 DEF LineSound, TypeOK
<1>4. InHand = {cur} /\ InHand' = {}
  BY <1>1, <1>2 DEF InHand
<1>5. queue \in Seq(Calls) /\ Before(ToSet(queue), {cur}) /\ Increasing(queue)
  BY <1>4 DEF LineSound, TypeOK, InLine, Before
<1>6. /\ queue' \in Seq(Calls) /\ Len(queue') = Len(queue) + 1 /\ Increasing(queue')
      /\ ToSet(queue') = ToSet(queue) \cup {cur}
  BY <1>1, <1>2, <1>5, Appended
<1>7. TypeOK'
  <2>1. place' \in [Calls -> {"none", "backlog", "listener", "queue", "worker", "closed"}]
    BY <1>2 DEF LineSound, TypeOK
  <2>2. NoCall \in 0 .. NumCalls /\ \A c \in Calls : c # NoCall
    BY ServingAssumption DEF NoCall, Calls
  <2>3. \A c \in Calls : /\ place'[c] = "backlog" <=> c \in ToSet(backlog')
                         /\ place'[c] = "listener" <=> c = cur'
                         /\ place'[c] = "queue" <=> c \in ToSet(queue')
                         /\ place'[c] = "worker" <=> c = job'
    BY <1>1, <1>2, <1>3, <1>6, <2>2 DEF LineSound, TypeOK
  <2>4. QED
    BY <1>2, <1>6, <2>1, <2>2, <2>3 DEF LineSound, TypeOK
<1>8. Len(queue) \in Nat /\ Len(queue) <= QueueCap /\ QueueCap \in Nat
  BY <1>5, ServingAssumption DEF LineSound, QueueBounded
<1>9. QueueBounded' /\ FirstComeFirstServed'
  BY <1>2, <1>6, <1>8 DEF LineSound, QueueBounded, FirstComeFirstServed
<1>10. InLine'
  BY <1>2, <1>4, <1>6 DEF LineSound, InLine, Before
<1>11. QED
  BY <1>2, <1>7, <1>9, <1>10 DEF LineSound, JobTaken

(* The oldest invitation is taken in hand.                                  *)
LEMMA IncomeSound == ASSUME LineSound, Income PROVE LineSound'
<1>. DEFINE c0 == Head(backlog)
<1>1. /\ place' = [place EXCEPT ![c0] = "listener"] /\ cur' = c0 /\ listener' = "prefix"
      /\ backlog' = Tail(backlog) /\ listener = "income" /\ backlog # << >>
      /\ UNCHANGED <<handler, kind, client, reply, queue, worker, failed, job, cancelled, came, taken>>
  BY DEF Income, wrkVars
<1>2. backlog \in Seq(Calls) /\ Increasing(backlog) /\ cur = NoCall
  BY <1>1 DEF LineSound, TypeOK, InLine
<1>3. /\ backlog' \in Seq(Calls) /\ c0 \in Calls /\ c0 \in ToSet(backlog)
      /\ ToSet(backlog') = ToSet(backlog) \ {c0} /\ Increasing(backlog')
      /\ Before({c0}, ToSet(backlog'))
  BY <1>1, <1>2, Served
<1>4. \A c \in Calls : place'[c] = IF c = c0 THEN "listener" ELSE place[c]
  BY <1>1 DEF LineSound, TypeOK
<1>5. c0 # NoCall /\ c0 \in 0 .. NumCalls /\ \A c \in Calls : c # NoCall
  BY <1>3 DEF NoCall, Calls
<1>6. InHand = {} /\ InHand' = {c0}
  BY <1>1, <1>2, <1>5 DEF InHand
<1>7. TypeOK'
  <2>1. place' \in [Calls -> {"none", "backlog", "listener", "queue", "worker", "closed"}]
    BY <1>1 DEF LineSound, TypeOK
  <2>2. \A c \in Calls : /\ place'[c] = "backlog" <=> c \in ToSet(backlog')
                         /\ place'[c] = "listener" <=> c = cur'
                         /\ place'[c] = "queue" <=> c \in ToSet(queue')
                         /\ place'[c] = "worker" <=> c = job'
    BY <1>1, <1>2, <1>3, <1>4, <1>5 DEF LineSound, TypeOK
  <2>3. QED
    BY <1>1, <1>3, <1>5, <2>1, <2>2 DEF LineSound, TypeOK
<1>8. QueueBounded' /\ FirstComeFirstServed'
  BY <1>1 DEF LineSound, QueueBounded, FirstComeFirstServed
<1>9. InLine'
  BY <1>1, <1>3, <1>6 DEF LineSound, InLine, Before
<1>10. QED
  BY <1>1, <1>7, <1>8, <1>9 DEF LineSound, JobTaken

(* A new call is later than all the others.                                 *)
LEMMA InviteSound == ASSUME LineSound, NEW c0 \in Calls, Invite(c0) PROVE LineSound'
<1>1. /\ c0 = came + 1 /\ came' = c0 /\ place' = [place EXCEPT ![c0] = "backlog"]
      /\ backlog' = Append(backlog, c0) /\ client' = [client EXCEPT ![c0] = "in"]
      /\ kind' \in [Calls -> Kinds]
      /\ UNCHANGED <<handler, reply, listener, cur, failed, queue, worker, job, cancelled, taken>>
  BY DEF Invite, wrkVars, LineSound, TypeOK
<1>2. came \in Nat /\ NumCalls \in Nat /\ c0 \in Nat
  BY ServingAssumption DEF LineSound, TypeOK, Calls
<1>3. \A a \in ToSet(taken) \cup ToSet(queue) \cup InHand \cup ToSet(backlog) : a < c0
  BY <1>1, <1>2 DEF LineSound, InLine
<1>4. backlog \in Seq(Calls) /\ Increasing(backlog) /\ Before(ToSet(backlog), {c0})
  BY <1>3 DEF LineSound, TypeOK, InLine, Before
<1>5. /\ backlog' \in Seq(Calls) /\ Increasing(backlog')
      /\ ToSet(backlog') = ToSet(backlog) \cup {c0}
  BY <1>1, <1>4, Appended
<1>6. \A c \in Calls : place'[c] = IF c = c0 THEN "backlog" ELSE place[c]
  BY <1>1 DEF LineSound, TypeOK
<1>7. cur # c0 /\ job # c0 /\ c0 \notin ToSet(queue)
  <2>1. c0 \notin ToSet(queue) /\ c0 \notin ToSet(taken) /\ cur # c0
    <3>1. ~(c0 < c0) /\ c0 # NoCall
      BY <1>2 DEF NoCall, Calls
    <3>2. QED
      BY <1>3, <3>1 DEF InHand
  <2>4. job # c0
    <3>1. c0 # NoCall
      BY <1>2 DEF NoCall, Calls
    <3>2. QED
      BY <2>1, <3>1 DEF LineSound, JobTaken
  <2>5. QED
    BY <2>1, <2>4
<1>8. TypeOK'
  <2>1. /\ place' \in [Calls -> {"none", "backlog", "listener", "queue", "worker", "closed"}]
        /\ client' \in [Calls -> {"out", "in", "gone"}]
    BY <1>1 DEF LineSound, TypeOK
  <2>2. came' \in 0 .. NumCalls
    BY <1>1, <1>2 DEF Calls
  <2>3. \A c \in Calls : /\ place'[c] = "backlog" <=> c \in ToSet(backlog')
                         /\ place'[c] = "listener" <=> c = cur'
                         /\ place'[c] = "queue" <=> c \in ToSet(queue')
                         /\ place'[c] = "worker" <=> c = job'
    BY <1>1, <1>5, <1>6, <1>7 DEF LineSound, TypeOK
  <2>4. QED
    BY <1>1, <1>5, <2>1, <2>2, <2>3 DEF LineSound, TypeOK
<1>9. QueueBounded' /\ FirstComeFirstServed'
  BY <1>1 DEF LineSound, QueueBounded, FirstComeFirstServed
<1>10. InLine'
  <2>1. InHand' = InHand
    BY <1>1 DEF InHand
  <2>2. QED
    BY <1>1, <1>2, <1>3, <1>5, <2>1 DEF LineSound, InLine, Before
<1>11. QED
  BY <1>1, <1>8, <1>9, <1>10 DEF LineSound, JobTaken

(* The worker takes the oldest job.                                         *)
LEMMA WorkerTakesSound == ASSUME LineSound, WorkerTakes PROVE LineSound'
<1>. DEFINE c0 == Head(queue)
<1>1. /\ worker = "idle" /\ worker' = "reply" /\ queue # << >>
      /\ job' = c0 /\ queue' = Tail(queue) /\ taken' = Append(taken, c0)
      /\ place' = [place EXCEPT ![c0] = "worker"]
      /\ UNCHANGED <<handler, kind, client, reply, backlog, listener, cur, failed, cancelled, came>>
  BY DEF WorkerTakes, lisVars
<1>2. queue \in Seq(Calls) /\ Increasing(queue) /\ taken \in Seq(Calls) /\ Increasing(taken) /\ job = NoCall
  BY <1>1 DEF LineSound, TypeOK, InLine, FirstComeFirstServed
<1>3. /\ queue' \in Seq(Calls) /\ c0 \in Calls /\ c0 \in ToSet(queue)
      /\ ToSet(queue') = ToSet(queue) \ {c0} /\ Increasing(queue')
      /\ Before({c0}, ToSet(queue'))
      /\ Len(queue') = Len(queue) - 1 /\ Len(queue) \in Nat
  BY <1>1, <1>2, Served
<1>4. Before(ToSet(taken), {c0})
  BY <1>3 DEF LineSound, InLine, Before
<1>5. /\ taken' \in Seq(Calls) /\ Increasing(taken') /\ ToSet(taken') = ToSet(taken) \cup {c0}
  BY <1>1, <1>2, <1>3, <1>4, Appended
<1>6. \A c \in Calls : place'[c] = IF c = c0 THEN "worker" ELSE place[c]
  BY <1>1 DEF LineSound, TypeOK
<1>7. c0 # NoCall /\ c0 \in 0 .. NumCalls /\ \A c \in Calls : c # NoCall
  BY <1>3 DEF NoCall, Calls
<1>8. TypeOK'
  <2>1. place' \in [Calls -> {"none", "backlog", "listener", "queue", "worker", "closed"}]
    BY <1>1 DEF LineSound, TypeOK
  <2>2. \A c \in Calls : /\ place'[c] = "backlog" <=> c \in ToSet(backlog')
                         /\ place'[c] = "listener" <=> c = cur'
                         /\ place'[c] = "queue" <=> c \in ToSet(queue')
                         /\ place'[c] = "worker" <=> c = job'
    BY <1>1, <1>2, <1>3, <1>6, <1>7 DEF LineSound, TypeOK
  <2>3. QED
    BY <1>1, <1>3, <1>5, <1>7, <2>1, <2>2 DEF LineSound, TypeOK
<1>9. QueueBounded' /\ FirstComeFirstServed'
  BY <1>1, <1>3, <1>5, ServingAssumption DEF LineSound, QueueBounded, FirstComeFirstServed
<1>10. InLine'
  <2>1. InHand' = InHand
    BY <1>1 DEF InHand
  <2>2. QED
    BY <1>1, <1>3, <1>5, <2>1, ZenonT(40) DEF LineSound, InLine, Before
<1>11. JobTaken'
  BY <1>1, <1>5 DEF JobTaken
<1>12. QED
  BY <1>8, <1>9, <1>10, <1>11 DEF LineSound

(* The worker drops a finished channel, or dies and drops all it has.       *)
LEMMA WorkerLeavesSound ==
  ASSUME LineSound, WorkerCloses \/ WorkerDies
  PROVE  LineSound'
<1>1. /\ UNCHANGED <<handler, kind, client, reply, backlog, listener, cur, failed, cancelled, came, taken>>
      /\ job' = NoCall
  BY DEF WorkerCloses, WorkerDies, lisVars
<1>2. NoCall \in 0 .. NumCalls /\ \A c \in Calls : c # NoCall
  BY ServingAssumption DEF NoCall, Calls
<1>3. /\ place' \in [Calls -> {"none", "backlog", "listener", "queue", "worker", "closed"}]
      /\ \A c \in Calls : /\ place'[c] = "backlog" <=> c \in ToSet(backlog')
                          /\ place'[c] = "listener" <=> c = cur'
                          /\ place'[c] = "queue" <=> c \in ToSet(queue')
                          /\ place'[c] = "worker" <=> c = job'
      /\ \/ queue' = queue /\ worker' = "idle"
         \/ queue' = << >> /\ worker' = "dead"
  <2>1. CASE WorkerCloses
    <3>1. /\ queue' = queue /\ worker' = "idle" /\ worker = "close"
          /\ place' = [place EXCEPT ![job] = "closed"]
      BY <2>1 DEF WorkerCloses
    <3>2. job \in Calls
      BY <3>1 DEF LineSound, TypeOK, Calls, NoCall
    <3>3. \A c \in Calls : place'[c] = IF c = job THEN "closed" ELSE place[c]
      BY <3>1 DEF LineSound, TypeOK
    <3>4. place[job] = "worker"
      BY <3>2 DEF LineSound, TypeOK
    <3>5. place' \in [Calls -> {"none", "backlog", "listener", "queue", "worker", "closed"}]
      BY <3>1 DEF LineSound, TypeOK
    <3>6. ASSUME NEW c \in Calls
          PROVE  /\ place'[c] = "backlog" <=> c \in ToSet(backlog')
                 /\ place'[c] = "listener" <=> c = cur'
                 /\ place'[c] = "queue" <=> c \in ToSet(queue')
                 /\ place'[c] = "worker" <=> c = job'
      <4>1. /\ place[c] = "backlog" <=> c \in ToSet(backlog)
            /\ place[c] = "listener" <=> c = cur
            /\ place[c] = "queue" <=> c \in ToSet(queue)
            /\ place[c] = "worker" <=> c = job
        BY DEF LineSound, TypeOK
      <4>2. backlog' = backlog /\ cur' = cur /\ queue' = queue /\ c # job'
        BY <1>1, <1>2, <3>1
      <4>3. CASE c = job
        <5>1. place'[c] = "closed" /\ place[c] = "worker"
          BY <3>3, <3>4, <4>3
        <5>2. QED
          BY <4>1, <4>2, <5>1
      <4>4. CASE c # job
        BY <3>3, <4>1, <4>2, <4>4
      <4>5. QED
        BY <4>3, <4>4
    <3>7. queue' = queue /\ worker' = "idle"
      BY <3>1
    <3>8. QED
      BY <3>5, <3>6, <3>7
  <2>2. CASE WorkerDies
    <3>1. /\ queue' = << >> /\ worker' = "dead"
          /\ place' = [c \in Calls |-> IF place[c] \in {"queue", "worker"} THEN "closed" ELSE place[c]]
      BY <2>2 DEF WorkerDies
    <3>2. ToSet(queue') = {}
      BY <3>1 DEF ToSet
    <3>3. \A c \in Calls : place'[c] = IF place[c] \in {"queue", "worker"} THEN "closed" ELSE place[c]
      BY <3>1
    <3>4. place' \in [Calls -> {"none", "backlog", "listener", "queue", "worker", "closed"}]
      BY <3>1 DEF LineSound, TypeOK
    <3>5. ASSUME NEW c \in Calls
          PROVE  /\ place'[c] = "backlog" <=> c \in ToSet(backlog')
                 /\ place'[c] = "listener" <=> c = cur'
                 /\ place'[c] = "queue" <=> c \in ToSet(queue')
                 /\ place'[c] = "worker" <=> c = job'
      BY <1>1, <1>2, <3>2, <3>3 DEF LineSound, TypeOK
    <3>6. QED
      BY <3>1, <3>4, <3>5
  <2>3. QED
    BY <2>1, <2>2
<1>4. TypeOK'
  <2>1. queue' \in Seq(Calls) /\ worker' \in {"idle", "dead"}
    <3>1. queue \in Seq(Calls) /\ << >> \in Seq(Calls)
      BY DEF LineSound, TypeOK
    <3>2. (queue' = queue /\ worker' = "idle") \/ (queue' = << >> /\ worker' = "dead")
      BY <1>3
    <3>3. QED
      BY <3>1, <3>2
  <2>2. \A c \in Calls : /\ place'[c] = "backlog" <=> c \in ToSet(backlog')
                         /\ place'[c] = "listener" <=> c = cur'
                         /\ place'[c] = "queue" <=> c \in ToSet(queue')
                         /\ place'[c] = "worker" <=> c = job'
    BY <1>3
  <2>3. place' \in [Calls -> {"none", "backlog", "listener", "queue", "worker", "closed"}]
    BY <1>3
  <2>4. QED
    BY <1>1, <1>2, <2>1, <2>2, <2>3 DEF LineSound, TypeOK
<1>5. ToSet(queue') \subseteq ToSet(queue) /\ Increasing(queue') /\ InHand' = InHand
  <2>1. InHand' = InHand
    BY <1>1 DEF InHand
  <2>2. CASE queue' = queue
    BY <2>1, <2>2 DEF LineSound, InLine
  <2>3. CASE queue' = << >>
    BY <2>1, <2>3 DEF Increasing, ToSet
  <2>4. QED
    BY <1>3, <2>2, <2>3
<1>6. QueueBounded' /\ FirstComeFirstServed'
  BY <1>1, <1>3, ServingAssumption DEF LineSound, QueueBounded, FirstComeFirstServed
<1>7. InLine'
  BY <1>1, <1>5 DEF LineSound, InLine, Before
<1>8. QED
  BY <1>1, <1>3, <1>4, <1>6, <1>7 DEF LineSound, JobTaken

(* Every step of the server, its worker and its clients.                    *)
LEMMA StepSound == LineSound /\ [Next]_vars => LineSound'
<1>. SUFFICES ASSUME LineSound, [Next]_vars PROVE LineSound'
  OBVIOUS
<1>. DEFINE Still == UNCHANGED <<place, backlog, cur, queue, job, came, taken>>
<1>1. cur # NoCall <=> listener \in {"prefix", "route", "reply", "close", "enqueue"}
  BY DEF LineSound, TypeOK
<1>2. ASSUME UNCHANGED vars PROVE LineSound'
  <2>1. Still /\ UNCHANGED <<handler, kind, client, reply, failed, cancelled, listener, worker>>
    BY <1>2 DEF vars, callVars, lisVars, wrkVars
  <2>2. QED
    BY <2>1, StillSound DEF LineSound, TypeOK, QueueBounded, JobTaken
<1>3. ASSUME NEW c \in Calls, Leave(c) PROVE LineSound'
  <2>1. Still /\ UNCHANGED <<handler, kind, reply, failed, cancelled, listener, worker>>
        /\ client' \in [Calls -> {"out", "in", "gone"}]
    BY <1>3 DEF Leave, lisVars, wrkVars, LineSound, TypeOK
  <2>2. QED
    BY <2>1, StillSound DEF LineSound, TypeOK, QueueBounded, JobTaken
<1>4. ASSUME NEW stage, To(stage),
             \/ listener = "income" /\ stage = "down"
             \/ listener \in {"prefix", "route"} /\ stage \in {"route", "enqueue", "reply"}
             \/ listener = "flush" /\ stage = "income" /\ (Len(queue) <= QueueCap \/ worker = "dead")
             \/ listener = "flush" /\ stage = "down"
      PROVE  LineSound'
  <2>1. Still /\ UNCHANGED <<handler, kind, client, reply, failed, cancelled, worker>> /\ listener' = stage
    BY <1>4 DEF To, callVars, wrkVars
  <2>2. worker = "dead" => Len(queue) <= QueueCap
    BY ServingAssumption DEF LineSound, JobTaken
  <2>3. Len(queue) \in Nat /\ QueueCap \in Nat
    BY ServingAssumption DEF LineSound, TypeOK
  <2>4. Len(queue) > QueueCap => listener' \in {"flush", "down"}
    BY <1>4, <2>1, <2>2, <2>3 DEF LineSound, QueueBounded
  <2>5. QED
    BY <1>1, <1>4, <2>1, <2>4, StillSound DEF LineSound, TypeOK, JobTaken
<1>5. ASSUME IncomeFails \/ Prefix \/ Route \/ Flush \/ FlushCancelled PROVE LineSound'
  <2>1. CASE IncomeFails
    BY <1>4, <2>1 DEF IncomeFails
  <2>2. CASE Prefix
    BY <1>4, <2>2 DEF Prefix
  <2>3. CASE Route
    <3>. DEFINE stage == IF kind[cur] = "call" /\ handler = "queued" THEN "enqueue" ELSE "reply"
    <3>1. To(stage) /\ listener = "route" /\ stage \in {"enqueue", "reply"}
      BY <2>3 DEF Route
    <3>. HIDE DEF stage
    <3>2. QED
      BY <1>4, <3>1
  <2>4. CASE Flush
    BY <1>4, <2>4 DEF Flush
  <2>5. CASE FlushCancelled
    BY <1>4, <2>5 DEF FlushCancelled
  <2>6. QED
    BY <1>5, <2>1, <2>2, <2>3, <2>4, <2>5
<1>6. ASSUME PrefixFails \/ NoRoute \/ EnqueueFails \/ CloseChannel PROVE LineSound'
  BY <1>6, FinishSound DEF PrefixFails, NoRoute, EnqueueFails, CloseChannel, ServeFails
<1>7. ASSUME Enqueue PROVE LineSound'
  BY <1>7, DeliverSound DEF Enqueue
<1>8. ASSUME Reply PROVE LineSound'
  <2>1. Still /\ UNCHANGED <<handler, kind, client, cancelled, worker>> /\ listener = "reply" /\ listener' = "close"
        /\ failed' \in BOOLEAN /\ reply' \in [Calls -> {"none", "ok", "err"}]
    BY <1>8 DEF Reply, wrkVars, LineSound, TypeOK
  <2>2. QED
    BY <1>1, <2>1, StillSound DEF LineSound, TypeOK, QueueBounded, JobTaken
<1>9. ASSUME WorkerReplies PROVE LineSound'
  <2>1. Still /\ UNCHANGED <<handler, kind, client, failed, cancelled, listener>> /\ worker = "reply" /\ worker' = "close"
        /\ reply' \in [Calls -> {"none", "ok", "err"}]
    BY <1>9 DEF WorkerReplies, lisVars, LineSound, TypeOK
  <2>2. QED
    BY <2>1, StillSound DEF LineSound, TypeOK, QueueBounded, JobTaken
<1>10. ASSUME Cancel PROVE LineSound'
  <2>1. Still /\ UNCHANGED <<handler, kind, client, reply, failed, listener, worker>> /\ cancelled' = TRUE
    BY <1>10 DEF Cancel, callVars, lisVars, wrkVars
  <2>2. QED
    BY <2>1, StillSound DEF LineSound, TypeOK, QueueBounded, JobTaken
<1>11. QED
  BY <1>2, <1>3, <1>5, <1>6, <1>7, <1>8, <1>9, <1>10, InviteSound, IncomeSound, WorkerTakesSound,
     WorkerLeavesSound DEF Next, Listener, Worker

(* One owner for every channel, a bounded queue, first come first served.   *)
LEMMA LineKept == Spec => []LineSound
BY InitSound, StepSound, PTL DEF Spec

(* Calls of a service are worked on in the order they came.                 *)
THEOREM OrderKept == Spec => []FirstComeFirstServed
<1>1. LineSound => FirstComeFirstServed
  BY DEF LineSound
<1>2. QED
  BY <1>1, LineKept, PTL

(* Nobody loses a channel unanswered for a full queue, or for another       *)
(* client's doing: only for what it sent itself, a cancelled server or a    *)
(* dead worker.                                                             *)
THEOREM NobodyDroppedIdly == Spec => DroppedForCause
<1>. DEFINE Dropped(c) == place[c] # "closed" /\ place'[c] = "closed" /\ reply[c] = "none" /\ client[c] = "in"
            Cause(c) == kind[c] \in {"noroute", "garbage"} \/ cancelled \/ worker' = "dead"
            Body == \A c \in Calls : Dropped(c) => Cause(c)
<1>1. ASSUME LineSound, Next PROVE Body
  <2>. SUFFICES ASSUME NEW c \in Calls, Dropped(c) PROVE Cause(c)
    OBVIOUS
  <2>. USE DEF LineSound, TypeOK
  <2>1. ASSUME NEW d \in Calls, NEW where, where # "closed", place' = [place EXCEPT ![d] = where] PROVE FALSE
    BY <1>1, <2>1
  <2>2. ASSUME NEW d \in Calls, place' = [place EXCEPT ![d] = "closed"] PROVE c = d
    BY <1>1, <2>2
  <2>3. cur # NoCall => cur \in Calls
    <3>1. cur \in 0 .. NumCalls /\ NumCalls \in Nat
      BY <1>1, ServingAssumption
    <3>2. QED
      BY ONLY <3>1 DEF Calls, NoCall
  <2>4. place' # place
    OBVIOUS
  <2>5. ASSUME NEW d \in Calls, Invite(d) \/ Leave(d) PROVE FALSE
    BY <2>1, <2>4, <2>5 DEF Invite, Leave
  <2>6. CASE PrefixFails \/ NoRoute \/ EnqueueFails \/ CloseChannel
    <3>1. listener \in {"prefix", "route", "enqueue", "close"} /\ place' = [place EXCEPT ![cur] = "closed"]
          /\ worker' = worker
      BY <2>6 DEF PrefixFails, NoRoute, EnqueueFails, CloseChannel, ServeFails, Finish, wrkVars
    <3>2. c = cur
      BY <1>1, <2>2, <2>3, <3>1
    <3>3. QED
      BY <2>6, <3>1, <3>2 DEF PrefixFails, NoRoute, EnqueueFails, CloseChannel
  <2>7. ~Income
    <3>1. ASSUME Income PROVE FALSE
      <4>1. Head(backlog) \in Calls /\ place' = [place EXCEPT ![Head(backlog)] = "listener"]
        BY <1>1, <3>1 DEF Income
      <4>2. QED
        BY <2>1, <4>1
    <3>2. QED
      BY <3>1
  <2>8. ~Enqueue
    <3>1. ASSUME Enqueue PROVE FALSE
      <4>1. cur \in Calls /\ place' = [place EXCEPT ![cur] = "queue"]
        BY <1>1, <2>3, <3>1 DEF Enqueue, Deliver
      <4>2. QED
        BY <2>1, <4>1
    <3>2. QED
      BY <3>1
  <2>9. ~WorkerTakes
    <3>1. ASSUME WorkerTakes PROVE FALSE
      <4>1. Head(queue) \in Calls /\ place' = [place EXCEPT ![Head(queue)] = "worker"]
        BY <1>1, <3>1 DEF WorkerTakes
      <4>2. QED
        BY <2>1, <4>1
    <3>2. QED
      BY <3>1
  <2>10. ~WorkerCloses
    <3>1. ASSUME WorkerCloses PROVE FALSE
      <4>1. job \in Calls /\ place' = [place EXCEPT ![job] = "closed"] /\ client[job] = "gone"
        BY <1>1, <3>1, ServingAssumption DEF WorkerCloses, Calls, NoCall
      <4>2. QED
        BY <2>2, <4>1
    <3>2. QED
      BY <3>1
  <2>11. WorkerDies => Cause(c)
    BY DEF WorkerDies
  <2>12. ~(IncomeFails \/ Prefix \/ Route \/ Flush \/ FlushCancelled)
    BY <2>4 DEF IncomeFails, Prefix, Route, Flush, FlushCancelled, To, callVars
  <2>13. ~Reply /\ ~WorkerReplies /\ ~Cancel
    <3>1. Reply \/ WorkerReplies \/ Cancel => UNCHANGED place
      BY DEF Reply, WorkerReplies, Cancel, callVars
    <3>2. QED
      BY <2>4, <3>1
  <2>14. QED
    BY <1>1, <2>5, <2>6, <2>7, <2>8, <2>9, <2>10, <2>11, <2>12, <2>13 DEF Next, Listener, Worker
<1>2. LineSound /\ [Next]_vars => [Body]_vars
  BY <1>1
<1>3. QED
  BY <1>2, LineKept, PTL DEF Spec, DroppedForCause

-----------------------------------------------------------------------------
(* What is answered is what was asked, and nobody is stuck.                *)

CallsTell == \A c \in Calls : PlaceTells(c) /\ AnswerTells(c)

(* The owners of a call, one at a time.                                     *)
LEMMA OwnersApart ==
  ASSUME LineSound
  PROVE  /\ \A c \in Calls :
               /\ c # NoCall
               /\ place[c] \in {"none", "backlog", "listener", "queue", "worker", "closed"}
               /\ place[c] = "listener" <=> c = cur
               /\ place[c] = "worker" <=> c = job
               /\ kind[c] \in Kinds /\ client[c] \in {"out", "in", "gone"}
         /\ cur # NoCall => cur \in Calls
         /\ job # NoCall => job \in Calls
         /\ cur = NoCall <=> listener \in {"income", "flush", "down"}
         /\ job = NoCall <=> worker \in {"idle", "dead"}
         /\ listener \in {"income", "prefix", "route", "reply", "close", "enqueue", "flush", "down"}
         /\ worker \in {"idle", "reply", "close", "dead"}
BY ServingAssumption DEF LineSound, TypeOK, Calls, NoCall

(* Steps of the listener that hand nothing over.                            *)
LEMMA ListenerStaysTells ==
  ASSUME LineSound, CallsTell, IncomeFails \/ Prefix \/ Route \/ Flush \/ FlushCancelled
  PROVE  CallsTell'
<1>1. /\ UNCHANGED <<handler, kind, client, place, reply, cur, worker, job, came>>
      /\ \/ listener \in {"income", "flush"} /\ listener' \in {"income", "down"}
         \/ listener = "prefix" /\ listener' = "route" /\ kind[cur] # "garbage"
         \/ /\ listener = "route" /\ kind[cur] # "noroute"
            /\ listener' = IF ForWorker(cur) THEN "enqueue" ELSE "reply"
  BY DEF IncomeFails, Prefix, Route, Flush, FlushCancelled, To, callVars, wrkVars, ForWorker
<1>2. ASSUME NEW c \in Calls PROVE PlaceTells(c)' /\ AnswerTells(c)'
  <2>1. PlaceTells(c) /\ AnswerTells(c)
    BY DEF CallsTell
  <2>2. CASE c # cur
    BY <1>1, <2>1, <2>2 DEF PlaceTells, AnswerTells, Unanswered, ForWorker
  <2>3. CASE c = cur
    BY <1>1, <2>1, <2>3, OwnersApart DEF PlaceTells, AnswerTells, Unanswered, ForWorker, Kinds
  <2>4. QED
    BY <2>2, <2>3
<1>3. QED
  BY <1>2 DEF CallsTell

(* One call changes its owner, and its answer and what is asked of it stay. *)
LEMMA HandoverTells ==
  ASSUME LineSound, CallsTell, NEW d \in Calls, place[d] # "none", NEW where,
         where \in {"listener", "queue", "worker", "closed"},
         place' = [place EXCEPT ![d] = where],
         UNCHANGED <<handler, kind, client, reply, came>>,
         where = "closed" \/ Unanswered(d),
         where = "closed" => cur' # d /\ job' # d,
         where \in {"queue", "worker"} => ForWorker(d),
         cur' \in {cur, NoCall} \/ (cur' = d /\ listener' = "prefix"),
         cur' = cur => listener' = listener /\ cur # d,
         job' \in {job, NoCall} \/ (job' = d /\ worker' = "reply"),
         job' = job => worker' = worker /\ job # d
  PROVE  CallsTell'
<1>1. ASSUME NEW c \in Calls PROVE PlaceTells(c)' /\ AnswerTells(c)'
  <2>1. PlaceTells(c) /\ AnswerTells(c)
    BY DEF CallsTell
  <2>2. place' \in [Calls -> {"none", "backlog", "listener", "queue", "worker", "closed"}]
        /\ place'[c] = IF c = d THEN where ELSE place[c]
    BY DEF LineSound, TypeOK
  <2>3. c # NoCall
    BY OwnersApart
  <2>4. CASE c = d
    BY <2>1, <2>2, <2>3, <2>4 DEF PlaceTells, AnswerTells, Unanswered, ForWorker
  <2>5. CASE c # d
    BY <2>1, <2>2, <2>3, <2>5 DEF PlaceTells, AnswerTells, Unanswered, ForWorker
  <2>6. QED
    BY <2>4, <2>5
<1>2. QED
  BY <1>1 DEF CallsTell

(* The listener takes a channel, passes it on or drops it.                  *)
LEMMA ListenerHandsTells ==
  ASSUME LineSound, CallsTell,
         Income \/ Enqueue \/ PrefixFails \/ NoRoute \/ EnqueueFails \/ CloseChannel
  PROVE  CallsTell'
<1>1. CASE Income
  <2>d. PICK d \in Calls : d = Head(backlog) /\ d \in ToSet(backlog)
    <3>1. backlog \in Seq(Calls) /\ Increasing(backlog) /\ backlog # << >>
      BY <1>1 DEF Income, LineSound, TypeOK, InLine
    <3>2. QED
      BY <3>1, Served
  <2>1. place[d] = "backlog"
    BY <2>d DEF LineSound, TypeOK
  <2>2. /\ place' = [place EXCEPT ![d] = "listener"] /\ cur' = d /\ listener' = "prefix"
        /\ UNCHANGED <<handler, kind, client, reply, job, worker, came>> /\ listener = "income"
    BY <1>1, <2>d DEF Income, wrkVars
  <2>3. Unanswered(d) /\ cur = NoCall /\ d # NoCall /\ job # d
    BY <2>1, <2>2, OwnersApart DEF Unanswered
  <2>4. QED
    BY <2>1, <2>2, <2>3, HandoverTells
<1>2. CASE Enqueue
  <2>1. /\ listener = "enqueue" /\ place' = [place EXCEPT ![cur] = "queue"] /\ cur' = NoCall
        /\ UNCHANGED <<handler, kind, client, reply, job, worker, came>>
    BY <1>2 DEF Enqueue, Deliver
  <2>2. cur \in Calls /\ cur # NoCall /\ place[cur] = "listener" /\ job # cur
    BY <2>1, OwnersApart
  <2>3. Unanswered(cur) /\ ForWorker(cur)
    BY <2>1, <2>2 DEF Unanswered, CallsTell, PlaceTells
  <2>4. QED
    BY <2>1, <2>2, <2>3, HandoverTells
<1>3. CASE PrefixFails \/ NoRoute \/ EnqueueFails \/ CloseChannel
  <2>1. /\ listener \in {"prefix", "route", "enqueue", "close"}
        /\ place' = [place EXCEPT ![cur] = "closed"] /\ cur' = NoCall
        /\ UNCHANGED <<handler, kind, client, reply, job, worker, came>>
    BY <1>3 DEF PrefixFails, NoRoute, EnqueueFails, CloseChannel, ServeFails, Finish, wrkVars
  <2>2. cur \in Calls /\ cur # NoCall /\ place[cur] = "listener" /\ job # cur
    BY <2>1, OwnersApart
  <2>3. QED
    BY <2>1, <2>2, HandoverTells
<1>4. QED
  BY <1>1, <1>2, <1>3

(* The reply, by the listener or the worker: what is asked allows it, and   *)
(* nobody replied before.                                                   *)
LEMMA ReplyTells == ASSUME LineSound, CallsTell, Reply \/ WorkerReplies PROVE CallsTell'
<1>1. CASE Reply
  <2>1. /\ listener = "reply" /\ listener' = "close"
        /\ UNCHANGED <<handler, kind, client, place, cur, job, worker, came>>
        /\ \/ reply' = reply
           \/ \E r \in {"ok", "err"} :
                 reply' = [reply EXCEPT ![cur] = r] /\ (r = "ok" => kind[cur] = "call")
    BY <1>1 DEF Reply, wrkVars
  <2>2. cur \in Calls /\ reply \in [Calls -> {"none", "ok", "err"}]
    BY <2>1, OwnersApart DEF LineSound, TypeOK
  <2>3. ASSUME NEW c \in Calls PROVE PlaceTells(c)' /\ AnswerTells(c)'
    <3>1. PlaceTells(c) /\ AnswerTells(c)
      BY DEF CallsTell
    <3>2. CASE c = cur
      <4>1. place[c] = "listener" /\ c # job
        BY <3>2, OwnersApart
      <4>2. QED
        BY <2>1, <2>2, <3>1, <3>2, <4>1 DEF PlaceTells, AnswerTells, Unanswered, ForWorker
    <3>3. CASE c # cur
      <4>1. reply'[c] = reply[c]
        BY <2>1, <2>2, <3>3
      <4>2. QED
        BY <2>1, <3>1, <3>3, <4>1 DEF PlaceTells, AnswerTells, Unanswered, ForWorker
    <3>4. QED
      BY <3>2, <3>3
  <2>4. QED
    BY <2>3 DEF CallsTell
<1>2. CASE WorkerReplies
  <2>1. /\ worker = "reply" /\ worker' = "close"
        /\ UNCHANGED <<handler, kind, client, place, cur, job, listener, came>>
        /\ reply' = reply
           \/ \E r \in {"none", "ok", "err"} : reply' = [reply EXCEPT ![job] = r]
    BY <1>2 DEF WorkerReplies, lisVars
  <2>2. job \in Calls /\ reply \in [Calls -> {"none", "ok", "err"}]
    BY <2>1, OwnersApart DEF LineSound, TypeOK
  <2>3. ASSUME NEW c \in Calls PROVE PlaceTells(c)' /\ AnswerTells(c)'
    <3>1. PlaceTells(c) /\ AnswerTells(c)
      BY DEF CallsTell
    <3>2. CASE c = job
      <4>1. place[c] = "worker" /\ c # cur
        BY <3>2, OwnersApart
      <4>2. QED
        BY <2>1, <2>2, <3>1, <3>2, <4>1 DEF PlaceTells, AnswerTells, Unanswered, ForWorker
    <3>3. CASE c # job
      <4>1. reply'[c] = reply[c]
        BY <2>1, <2>2, <3>3
      <4>2. QED
        BY <2>1, <3>1, <3>3, <4>1 DEF PlaceTells, AnswerTells, Unanswered, ForWorker
    <3>4. QED
      BY <3>2, <3>3
  <2>4. QED
    BY <2>3 DEF CallsTell
<1>3. QED
  BY <1>1, <1>2

(* The worker takes a call, drops it, or dies with all it has.              *)
LEMMA WorkerHandsTells ==
  ASSUME LineSound, CallsTell, WorkerTakes \/ WorkerCloses \/ WorkerDies
  PROVE  CallsTell'
<1>1. CASE WorkerTakes
  <2>d. PICK d \in Calls : d = Head(queue) /\ d \in ToSet(queue)
    <3>1. queue \in Seq(Calls) /\ Increasing(queue) /\ queue # << >>
      BY <1>1 DEF WorkerTakes, LineSound, TypeOK, InLine
    <3>2. QED
      BY <3>1, Served
  <2>1. place[d] = "queue"
    BY <2>d DEF LineSound, TypeOK
  <2>2. /\ place' = [place EXCEPT ![d] = "worker"] /\ job' = d /\ worker' = "reply"
        /\ UNCHANGED <<handler, kind, client, reply, cur, listener, came>> /\ worker = "idle"
    BY <1>1, <2>d DEF WorkerTakes, lisVars
  <2>3. /\ Unanswered(d) /\ ForWorker(d) /\ job = NoCall /\ d # NoCall /\ cur # d
    BY <2>1, <2>2, OwnersApart DEF Unanswered, CallsTell, PlaceTells
  <2>4. QED
    BY <2>1, <2>2, <2>3, HandoverTells
<1>2. CASE WorkerCloses
  <2>1. /\ worker = "close" /\ place' = [place EXCEPT ![job] = "closed"] /\ job' = NoCall
        /\ UNCHANGED <<handler, kind, client, reply, cur, listener, came>>
    BY <1>2 DEF WorkerCloses, lisVars
  <2>2. job \in Calls /\ job # NoCall /\ place[job] = "worker" /\ cur # job
    BY <2>1, OwnersApart
  <2>3. QED
    BY <2>1, <2>2, HandoverTells
<1>3. CASE WorkerDies
  <2>1. /\ job' = NoCall /\ UNCHANGED <<handler, kind, client, reply, cur, listener, came>>
        /\ place' = [c \in Calls |-> IF place[c] \in {"queue", "worker"} THEN "closed" ELSE place[c]]
    BY <1>3 DEF WorkerDies, lisVars
  <2>2. ASSUME NEW c \in Calls PROVE PlaceTells(c)' /\ AnswerTells(c)'
    <3>1. PlaceTells(c) /\ AnswerTells(c) /\ c # NoCall
      BY OwnersApart DEF CallsTell
    <3>2. place'[c] = IF place[c] \in {"queue", "worker"} THEN "closed" ELSE place[c]
      BY <2>1
    <3>3. QED
      BY <2>1, <3>1, <3>2 DEF PlaceTells, AnswerTells, Unanswered, ForWorker
  <2>3. QED
    BY <2>2 DEF CallsTell
<1>4. QED
  BY <1>1, <1>2, <1>3

(* A call comes as it likes, and a client leaves when it likes.             *)
LEMMA ClientTells ==
  ASSUME LineSound, CallsTell, NEW d \in Calls, Invite(d) \/ Leave(d)
  PROVE  CallsTell'
<1>1. /\ UNCHANGED <<handler, reply, cur, listener, job, worker>>
      /\ \A c \in Calls \ {d} : UNCHANGED <<kind[c], client[c], place[c]>>
      /\ came \in Nat /\ Calls \subseteq Int
  BY ServingAssumption DEF Invite, Leave, lisVars, wrkVars, LineSound, TypeOK, Calls
<1>2. ASSUME NEW c \in Calls, c # d PROVE PlaceTells(c)' /\ AnswerTells(c)'
  <2>1. c > came' <=> c > came
    BY <1>1, <1>2 DEF Invite, Leave
  <2>2. PlaceTells(c) /\ AnswerTells(c)
    BY DEF CallsTell
  <2>3. QED
    BY <1>1, <1>2, <2>1, <2>2 DEF PlaceTells, AnswerTells, Unanswered, ForWorker
<1>3. PlaceTells(d)' /\ AnswerTells(d)'
  <2>1. PlaceTells(d) /\ AnswerTells(d)
    BY DEF CallsTell
  <2>2. CASE Leave(d)
    <3>1. client[d] = "in" /\ client'[d] = "gone" /\ UNCHANGED <<kind, place, came>>
      BY <2>2 DEF Leave, LineSound, TypeOK
    <3>2. QED
      BY <1>1, <2>1, <3>1 DEF PlaceTells, AnswerTells, Unanswered, ForWorker
  <2>3. CASE Invite(d)
    <3>1. client'[d] = "in" /\ place'[d] = "backlog" /\ ~(d > came') /\ d > came
      BY <1>1, <2>3 DEF Invite, LineSound, TypeOK
    <3>2. place[d] = "none" /\ reply[d] = "none" /\ cur # d /\ job # d
      BY <2>1, <3>1, OwnersApart DEF PlaceTells, Unanswered
    <3>3. QED
      BY <1>1, <3>1, <3>2 DEF PlaceTells, AnswerTells, Unanswered
  <2>4. QED
    BY <2>2, <2>3
<1>4. QED
  BY <1>2, <1>3 DEF CallsTell

(* What a channel's place tells of its call, in every step.                 *)
LEMMA StepTells == LineSound /\ CallsTell /\ [Next]_vars => CallsTell'
<1>. SUFFICES ASSUME LineSound, CallsTell, [Next]_vars PROVE CallsTell'
  OBVIOUS
<1>1. ASSUME UNCHANGED <<handler, callVars, lisVars, wrkVars, came>> PROVE CallsTell'
  BY <1>1 DEF CallsTell, PlaceTells, AnswerTells, Unanswered, ForWorker, callVars, lisVars, wrkVars
<1>2. CASE Cancel \/ UNCHANGED vars
  BY <1>1, <1>2 DEF Cancel, vars
<1>3. QED
  BY <1>2, ClientTells, ListenerStaysTells, ListenerHandsTells, ReplyTells, WorkerHandsTells
     DEF Next, Listener, Worker

(* A worker that is alive and has a job or a queue goes on, or the client   *)
(* of the channel it closes does.                                           *)
LEMMA WorkerOrClient ==
  ASSUME LineSound, CallsTell, worker # "dead", worker # "idle" \/ queue # << >>
  PROVE  WorkerGoesOn \/ \E c \in Calls : ClientGoesOn(c)
<1>1. CASE worker = "close" /\ client[job] # "gone"
  <2>1. job \in Calls /\ client[job] = "in"
    <3>1. job \in Calls /\ place[job] = "worker" /\ client[job] \in {"out", "in", "gone"}
      BY <1>1, OwnersApart
    <3>2. QED
      BY <1>1, <3>1 DEF CallsTell, PlaceTells
  <2>2. QED
    BY <1>1, <2>1 DEF ClientGoesOn, Over
<1>2. QED
  BY <1>1 DEF WorkerGoesOn

(* So does a listener that has a channel or waits for room.                 *)
LEMMA ListenerOrAnother ==
  ASSUME LineSound, CallsTell, listener \notin {"income", "down"}
  PROVE  ListenerGoesOn \/ WorkerGoesOn \/ \E c \in Calls : ClientGoesOn(c)
<1>1. CASE listener = "flush"
  <2>1. Len(queue) \in Nat /\ QueueCap \in Nat /\ (Len(queue) > QueueCap => queue # << >>)
    BY ServingAssumption DEF LineSound, TypeOK
  <2>2. QED
    BY <1>1, <2>1, WorkerOrClient DEF ListenerGoesOn
<1>2. CASE listener # "flush"
  <2>1. /\ cur \in Calls /\ place[cur] = "listener" /\ client[cur] \in {"out", "in", "gone"}
    BY <1>2, OwnersApart
  <2>2. client[cur] \in {"in", "gone"}
    BY <2>1 DEF CallsTell, PlaceTells
  <2>3. CASE listener = "close" /\ client[cur] = "in"
    BY <2>1, <2>3 DEF ClientGoesOn, Over
  <2>4. QED
    BY <1>2, <2>2, <2>3 DEF ListenerGoesOn
<1>3. QED
  BY <1>1, <1>2

LEMMA NobodyStuck ==
  ASSUME LineSound, CallsTell
  PROVE  SomebodyGoesOn
<1>. SUFFICES ASSUME NEW c \in Calls, Unsettled(c)
              PROVE  ListenerGoesOn \/ WorkerGoesOn \/ \E d \in Calls : ClientGoesOn(d)
  BY DEF SomebodyGoesOn
<1>1. CASE place[c] = "backlog" /\ listener # "down"
  <2>1. backlog # << >>
    BY <1>1 DEF LineSound, TypeOK, ToSet
  <2>2. CASE listener = "income"
    BY <2>1, <2>2 DEF ListenerGoesOn
  <2>3. QED
    BY <1>1, <2>2, ListenerOrAnother
<1>2. CASE place[c] = "listener"
  BY <1>2, OwnersApart, ListenerOrAnother
<1>3. CASE place[c] \in {"queue", "worker"}
  <2>1. CASE place[c] = "queue"
    <3>1. queue # << >> /\ worker # "dead"
      BY <2>1 DEF LineSound, TypeOK, ToSet, JobTaken
    <3>2. QED
      BY <3>1, WorkerOrClient
  <2>2. CASE place[c] = "worker"
    <3>1. worker \notin {"dead", "idle"}
      BY <2>2, OwnersApart
    <3>2. QED
      BY <3>1, WorkerOrClient
  <2>3. QED
    BY <1>3, <2>1, <2>2
<1>4. QED
  BY <1>1, <1>2, <1>3 DEF Unsettled

(* What the run checks: one owner for every channel, a bounded queue, first *)
(* come first served, answers to what was asked, and nobody stuck.          *)
THEOREM ServingCorrect == Spec => []ServingInv
<1>1. Init => CallsTell
  <2>. SUFFICES ASSUME Init PROVE CallsTell
    OBVIOUS
  <2>1. \A c \in Calls : c > 0 /\ c # NoCall
    BY ServingAssumption DEF Calls, NoCall
  <2>2. QED
    BY <2>1 DEF Init, CallsTell, PlaceTells, AnswerTells, Unanswered, ForWorker
<1>2. LineSound /\ CallsTell => ServingInv
  BY NobodyStuck DEF ServingInv, CallsTell
<1>3. QED
  BY <1>1, <1>2, StepTells, LineKept, PTL DEF Spec

(* While a channel is unsettled the listener, the worker or a client goes   *)
(* on, for any number of calls and capacity: a full queue or a slow client  *)
(* holds the server up, but nobody waits for one who waits for him.         *)
THEOREM NobodyHeldUp == Spec => []SomebodyGoesOn
<1>1. ServingInv => SomebodyGoesOn
  BY DEF ServingInv
<1>2. QED
  BY <1>1, ServingCorrect, PTL

(* A call is answered once, by the listener or by the worker.               *)
THEOREM AnsweredOnce == Spec => AnswersStand
<1>. DEFINE Body == \A c \in Calls : reply[c] # "none" => reply'[c] = reply[c]
<1>1. ASSUME ServingInv, [Next]_vars PROVE Body
  <2>0. reply \in [Calls -> {"none", "ok", "err"}] /\ LineSound /\ CallsTell
    BY <1>1 DEF ServingInv, LineSound, TypeOK, CallsTell
  <2>1. ASSUME UNCHANGED reply PROVE Body
    BY <2>1
  <2>2. ASSUME NEW d \in Calls, Unanswered(d), NEW r, reply' = [reply EXCEPT ![d] = r] PROVE Body
    <3>1. reply[d] = "none"
      BY <2>0, <2>2 DEF CallsTell, PlaceTells
    <3>2. QED
      BY <2>0, <2>2, <3>1
  <2>3. CASE Reply
    <3>1. listener = "reply" /\ (reply' = reply \/ \E r : reply' = [reply EXCEPT ![cur] = r])
      BY <2>3 DEF Reply
    <3>2. cur \in Calls /\ Unanswered(cur)
      BY <2>0, <3>1, OwnersApart DEF Unanswered
    <3>3. QED
      BY <2>1, <2>2, <3>1, <3>2
  <2>4. CASE WorkerReplies
    <3>1. worker = "reply" /\ (reply' = reply \/ \E r : reply' = [reply EXCEPT ![job] = r])
      BY <2>4 DEF WorkerReplies
    <3>2. job \in Calls /\ Unanswered(job)
      BY <2>0, <3>1, OwnersApart DEF Unanswered
    <3>3. QED
      BY <2>1, <2>2, <3>1, <3>2
  <2>5. QED
    BY <1>1, <2>1, <2>3, <2>4
       DEF Next, Invite, Leave, Listener, Income, IncomeFails, Prefix, PrefixFails, Route, NoRoute,
           CloseChannel, Enqueue, Deliver, EnqueueFails, Flush, FlushCancelled, ServeFails, Finish, To,
           Worker, WorkerTakes, WorkerCloses, WorkerDies, Cancel, callVars, vars
<1>2. ServingInv /\ [Next]_vars => [Body]_vars
  BY <1>1
<1>3. QED
  BY <1>2, ServingCorrect, PTL DEF Spec, AnswersStand
=============================================================================
