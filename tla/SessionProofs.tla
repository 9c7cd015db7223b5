--------------------------- MODULE SessionProofs ---------------------------
(***************************************************************************)
(* Proofs about Session.  The request and the response share the session's  *)
(* state but no part of the invariant (Requests, Responses): a sending step *)
(* finds no reader out, and a receiving step nothing left to send.          *)
(*                                                                          *)
(*   1. the response's layout: where chunks start, which byte is of which   *)
(*      kind, and how what has been taken grows;                            *)
(*   2. one lemma per sending action, then one per receiving action, with a *)
(*      frame lemma for what the actions of a group leave alone;            *)
(*   3. the theorems.                                                       *)
(***************************************************************************)
EXTENDS Session, TLAPS

-----------------------------------------------------------------------------
(* The response's layout. *)

Laid == rx \in [chunks : Bodies, suffix : 0 .. MaxSuffix] /\ Declares(resp)

LEMMA PayloadGrows ==
  ASSUME Laid
  PROVE  /\ Len(rx.chunks) \in Nat /\ DOMAIN rx.chunks = 1 .. Len(rx.chunks)
         /\ \A k \in 0 .. Len(rx.chunks) : Payload(k) \in Nat
         /\ \A j, k \in 0 .. Len(rx.chunks) : j < k => Payload(j) < Payload(k)
<1>1. /\ rx.chunks \in Seq(Nat \ {0})
      /\ \A i, j \in DOMAIN rx.chunks : i < j => rx.chunks[i] < rx.chunks[j]
  BY SessionAssumption DEF Laid
<1>2. Len(rx.chunks) \in Nat /\ DOMAIN rx.chunks = 1 .. Len(rx.chunks)
  BY <1>1
<1>3. \A k \in 1 .. Len(rx.chunks) : rx.chunks[k] \in Nat /\ rx.chunks[k] > 0
  BY <1>1
<1>4. /\ Payload(0) = 0
      /\ \A k \in 1 .. Len(rx.chunks) : Payload(k) = rx.chunks[k]
  BY DEF Payload
<1> DEFINE n == Len(rx.chunks)
<1>5. \A k \in 0 .. n : k = 0 \/ k \in 1 .. n
  BY <1>2
<1>6. \A k \in 0 .. n : Payload(k) \in Nat
  BY <1>3, <1>4, <1>5
<1>7. ASSUME NEW j \in 0 .. n, NEW k \in 0 .. n, j < k
      PROVE  Payload(j) < Payload(k)
  <2>1. k \in 1 .. n /\ k \in DOMAIN rx.chunks
    BY <1>2, <1>7
  <2>2. CASE j = 0
    BY <1>3, <1>4, <2>1, <2>2
  <2>3. CASE j # 0
    <3>1. j \in 1 .. n /\ j \in DOMAIN rx.chunks
      BY <1>2, <2>3
    <3>2. rx.chunks[j] < rx.chunks[k]
      BY <1>1, <1>7, <2>1, <3>1
    <3> QED
      BY <1>4, <2>1, <3>1, <3>2
  <2> QED
    BY <2>2, <2>3
<1> QED
  BY <1>2, <1>6, <1>7

LEMMA StartsGrow ==
  ASSUME Laid
  PROVE  /\ Terminator \in Chunks
         /\ \A k \in Chunks : Start(k) \in Nat /\ Start(k) >= PrefixLen
         /\ \A j, k \in Chunks : j < k => Start(j) + 2 < Start(k)
         /\ \A k \in DOMAIN rx.chunks :
              /\ k \in Chunks /\ k + 1 \in Chunks
              /\ ChunkLen(k) \in Nat \ {0} /\ Start(k + 1) = Start(k) + 2 + ChunkLen(k)
         /\ ChunkLen(Terminator) = 0
         /\ \A k \in Chunks : k = Terminator \/ k \in DOMAIN rx.chunks
<1> DEFINE n == Len(rx.chunks)
<1>1. /\ n \in Nat /\ DOMAIN rx.chunks = 1 .. n
      /\ \A k \in 0 .. n : Payload(k) \in Nat
      /\ \A j, k \in 0 .. n : j < k => Payload(j) < Payload(k)
  BY PayloadGrows
<1>2. Chunks = 1 .. n + 1 /\ Terminator = n + 1 /\ PrefixLen = 2
  BY DEF Chunks, Terminator, PrefixLen
<1> HIDE DEF n
<1>3. Terminator \in Chunks /\ \A k \in Chunks : k = Terminator \/ k \in DOMAIN rx.chunks
  BY <1>1, <1>2
<1>4. \A k \in Chunks : Start(k) \in Nat /\ Start(k) >= PrefixLen
  <2> SUFFICES ASSUME NEW k \in Chunks
               PROVE  Start(k) \in Nat /\ Start(k) >= PrefixLen
    OBVIOUS
  <2>1. k - 1 \in 0 .. n /\ Payload(k - 1) \in Nat
    BY <1>1, <1>2
  <2> QED
    BY <1>2, <2>1 DEF Start
<1>5. ASSUME NEW j \in Chunks, NEW k \in Chunks, j < k
      PROVE  Start(j) + 2 < Start(k)
  <2>1. j - 1 \in 0 .. n /\ k - 1 \in 0 .. n /\ j - 1 < k - 1
    BY <1>1, <1>2, <1>5
  <2>2. Payload(j - 1) \in Nat /\ Payload(k - 1) \in Nat /\ Payload(j - 1) < Payload(k - 1)
    BY <1>1, <2>1
  <2> QED
    BY <1>1, <1>2, <1>5, <2>2 DEF Start
<1>6. ASSUME NEW k \in DOMAIN rx.chunks
      PROVE  /\ k \in Chunks /\ k + 1 \in Chunks
             /\ ChunkLen(k) \in Nat \ {0} /\ Start(k + 1) = Start(k) + 2 + ChunkLen(k)
  <2>1. k \in 1 .. n /\ k - 1 \in 0 .. n /\ k \in 0 .. n /\ k - 1 < k /\ k + 1 - 1 = k
    BY <1>1, <1>6
  <2>2. Payload(k - 1) \in Nat /\ Payload(k) \in Nat /\ Payload(k - 1) < Payload(k)
    BY <1>1, <2>1
  <2>3. ChunkLen(k) = Payload(k) - Payload(k - 1)
    BY <1>6 DEF ChunkLen
  <2>4. Start(k + 1) = PrefixLen + 2 * k + Payload(k)
    BY <2>1 DEF Start
  <2>5. Start(k) = PrefixLen + 2 * (k - 1) + Payload(k - 1)
    BY DEF Start
  <2>6. k \in Chunks /\ k + 1 \in Chunks
    BY <1>1, <1>2, <2>1
  <2>7. k \in Nat /\ PrefixLen \in Nat
    BY <1>1, <1>2, <2>1
  <2> QED
    BY <2>2, <2>3, <2>4, <2>5, <2>6, <2>7
<1>7. ChunkLen(Terminator) = 0
  BY <1>1, <1>2 DEF ChunkLen
<1> QED
  BY <1>3, <1>4, <1>5, <1>6, <1>7

LEMMA BodyEnds ==
  ASSUME Laid
  PROVE  /\ BodyEnd \in Nat /\ RxLen \in Nat
         /\ PrefixLen <= BodyEnd /\ BodyEnd <= RxLen
         /\ resp.plan = "chunked" =>
              /\ Start(Terminator) + 2 = BodyEnd
              /\ \A k \in Chunks : Start(k) + 2 <= BodyEnd
         /\ resp.plan \in {"sized", "absent"} =>
              resp.size \in Nat /\ BodyEnd = PrefixLen + resp.size
         /\ resp.plan = "absent" => BodyEnd = PrefixLen
         /\ resp \in [plan : Plans, size : Nat]
<1>1. /\ Terminator \in Chunks
      /\ \A k \in Chunks : Start(k) \in Nat /\ Start(k) >= PrefixLen
      /\ \A j, k \in Chunks : j < k => Start(j) + 2 < Start(k)
  BY StartsGrow
<1>2. /\ resp \in [plan : Plans, size : Nat]
      /\ resp.plan = "absent" => resp.size = 0
  <2>1. rx.chunks # << >> => Payload(Len(rx.chunks)) \in Nat
    BY PayloadGrows
  <2> QED
    BY <2>1 DEF Laid, Declares, Plans
<1>3. rx.suffix \in Nat
  BY SessionAssumption DEF Laid
<1>4. resp.plan = "chunked" =>
        /\ BodyEnd = Start(Terminator) + 2
        /\ \A k \in Chunks : Start(k) + 2 <= BodyEnd
  <2> SUFFICES ASSUME resp.plan = "chunked", NEW k \in Chunks
               PROVE  BodyEnd = Start(Terminator) + 2 /\ Start(k) + 2 <= BodyEnd
    BY <1>1
  <2>1. BodyEnd = Start(Terminator) + 2
    BY DEF BodyEnd
  <2>2. k = Terminator \/ k < Terminator
    BY PayloadGrows DEF Chunks, Terminator
  <2> QED
    BY <1>1, <2>1, <2>2
<1>5. resp.plan # "chunked" => BodyEnd = PrefixLen + resp.size
  BY DEF BodyEnd
<1>6. BodyEnd \in Nat /\ PrefixLen <= BodyEnd
  BY <1>1, <1>2, <1>4, <1>5 DEF PrefixLen
<1>7. RxLen \in Nat /\ BodyEnd <= RxLen
  BY <1>3, <1>6 DEF RxLen
<1> QED
  BY <1>2, <1>4, <1>5, <1>6, <1>7 DEF PrefixLen

LEMMA KindsLaid ==
  ASSUME Laid, NEW i \in Nat
  PROVE  /\ i <= PrefixLen => Kind(i) = "prefix"
         /\ i > BodyEnd <=> Kind(i) = "suffix"
         /\ PrefixLen < i /\ i <= BodyEnd /\ resp.plan # "chunked" => Kind(i) = "body"
         /\ resp.plan = "chunked" =>
              /\ \A k \in Chunks : i \in {Start(k) + 1, Start(k) + 2} => Kind(i) = "length"
              /\ \A k \in DOMAIN rx.chunks :
                   Start(k) + 2 < i /\ i <= Start(k + 1) => Kind(i) = "body"
<1>1. /\ BodyEnd \in Nat /\ PrefixLen \in Nat /\ PrefixLen <= BodyEnd
      /\ resp.plan = "chunked" => \A k \in Chunks : Start(k) + 2 <= BodyEnd
  BY BodyEnds DEF PrefixLen
<1>2. /\ \A k \in Chunks : Start(k) \in Nat /\ Start(k) >= PrefixLen
      /\ \A j, k \in Chunks : j < k => Start(j) + 2 < Start(k)
      /\ \A k \in DOMAIN rx.chunks : k \in Chunks /\ k + 1 \in Chunks
  BY StartsGrow
<1>3. i <= PrefixLen => Kind(i) = "prefix"
  BY <1>1 DEF Kind
<1>4. i > BodyEnd <=> Kind(i) = "suffix"
  BY <1>1 DEF Kind
<1>5. PrefixLen < i /\ i <= BodyEnd /\ resp.plan # "chunked" => Kind(i) = "body"
  BY <1>1 DEF Kind
<1>6. ASSUME resp.plan = "chunked", NEW k \in Chunks, i \in {Start(k) + 1, Start(k) + 2}
      PROVE  Kind(i) = "length"
  <2>1. PrefixLen < i /\ i <= BodyEnd /\ i - Start(k) \in {1, 2}
    BY <1>1, <1>2, <1>6
  <2> QED
    BY <1>1, <1>6, <2>1 DEF Kind
<1>7. ASSUME resp.plan = "chunked", NEW k \in DOMAIN rx.chunks,
             Start(k) + 2 < i, i <= Start(k + 1)
      PROVE  Kind(i) = "body"
  <2>1. k \in Chunks /\ k + 1 \in Chunks
    BY <1>2
  <2>2. PrefixLen < i /\ i <= BodyEnd
    BY <1>1, <1>2, <1>7, <2>1
  <2>3. ASSUME NEW j \in Chunks
        PROVE  i - Start(j) \notin {1, 2}
    <3>1. j \in Nat /\ k \in Nat
      BY <2>1 DEF Chunks
    <3>2. CASE j <= k
      <4>1. Start(j) <= Start(k)
        BY <1>2, <2>1, <3>1, <3>2
      <4> QED
        BY <1>2, <1>7, <2>1, <4>1
    <3>3. CASE k < j
      <4>1. Start(k + 1) <= Start(j)
        BY <1>2, <2>1, <3>1, <3>3
      <4> QED
        BY <1>2, <1>7, <2>1, <4>1
    <3> QED
      BY <3>1, <3>2, <3>3
  <2> QED
    BY <1>1, <1>7, <2>2, <2>3 DEF Kind
<1> QED
  BY <1>3, <1>4, <1>5, <1>6, <1>7

(* At the start of a chunk its length is read, elsewhere some number.       *)
LEMMA LengthsLaid ==
  ASSUME Laid, pos \in Nat
  PROVE  /\ LengthsHere \subseteq Nat
         /\ resp.plan = "chunked" =>
              \A k \in Chunks : pos = Start(k) => LengthsHere = {ChunkLen(k)}
<1> DEFINE here == {k \in Chunks : resp.plan = "chunked" /\ Start(k) = pos}
<1>1. \A k \in Chunks : ChunkLen(k) \in Nat
  BY StartsGrow
<1>2. LengthsHere \subseteq Nat
  BY <1>1, SessionAssumption DEF LengthsHere
<1>3. ASSUME resp.plan = "chunked", NEW k \in Chunks, pos = Start(k)
      PROVE  LengthsHere = {ChunkLen(k)}
  <2>1. here = {k}
    <3> SUFFICES ASSUME NEW j \in Chunks, Start(j) = Start(k)
                 PROVE  j = k
      BY <1>3
    <3>1. j \in Nat /\ k \in Nat
      BY PayloadGrows DEF Chunks
    <3>2. Start(j) \in Nat /\ ~ (Start(j) + 2 < Start(k)) /\ ~ (Start(k) + 2 < Start(j))
      BY StartsGrow
    <3>3. ~ (j < k) /\ ~ (k < j)
      BY <3>2, StartsGrow
    <3> QED
      BY <3>1, <3>3
  <2> QED
    BY <2>1 DEF LengthsHere
<1> QED
  BY <1>2, <1>3

(* Neither the response nor what it declares changes behind a prefix.       *)
LEMMA LayoutKept ==
  ASSUME rx' = rx, resp' = resp
  PROVE  /\ Laid' <=> Laid
         /\ Declares(resp)' <=> Declares(resp)
         /\ Chunks' = Chunks
         /\ \A k : Start(k)' = Start(k)
         /\ BodyEnd' = BodyEnd /\ RxLen' = RxLen
         /\ \A kind : Positions(kind)' = Positions(kind)
         /\ \A taken, kind : InOrder(taken, kind)' <=> InOrder(taken, kind)
<1>1. \A k : Payload(k)' = Payload(k)
  BY DEF Payload
<1>2. \A k : Start(k)' = Start(k)
  BY <1>1 DEF Start, PrefixLen
<1>3. Chunks' = Chunks /\ Terminator' = Terminator
  BY DEF Chunks, Terminator
<1>4. BodyEnd' = BodyEnd
  BY <1>2, <1>3 DEF BodyEnd, PrefixLen, Start, Payload, Terminator
<1>5. RxLen' = RxLen
  BY <1>4 DEF RxLen
<1>6. \A i : Kind(i)' = Kind(i)
  BY <1>2, <1>3, <1>4 DEF Kind, PrefixLen
<1>7. \A kind : Positions(kind)' = Positions(kind)
  BY <1>5, <1>6 DEF Positions
<1>8. \A taken, kind : InOrder(taken, kind)' <=> InOrder(taken, kind)
  BY <1>7 DEF InOrder
<1>9. (Laid' <=> Laid) /\ (Declares(resp)' <=> Declares(resp))
  BY DEF Laid, Declares, Payload
<1> QED
  BY <1>2, <1>3, <1>4, <1>5, <1>7, <1>8, <1>9

(* The bytes of a kind up to a position have been taken, and nothing else.  *)
UpTo(taken, kind, p) ==
  /\ InOrder(taken, kind)
  /\ \A i \in DOMAIN taken : taken[i] <= p
  /\ \A q \in Positions(kind) : q <= p => \E i \in DOMAIN taken : taken[i] = q

(* They stay in order as the next bytes of the kind come.                   *)
LEMMA InOrderGrows ==
  ASSUME Laid, pos \in Nat, NEW m \in Nat, cut \in Nat, pos + m <= cut,
         NEW kind, NEW taken \in Seq(1 .. cut),
         UpTo(taken, kind, pos), pos + 1 .. pos + m \subseteq Positions(kind)
  PROVE  Take(taken, m) \in Seq(1 .. cut) /\ UpTo(Take(taken, m), kind, pos + m)
<1> DEFINE n    == Len(taken)
           more == Take(taken, m)
<1>0. /\ InOrder(taken, kind)
      /\ \A i \in DOMAIN taken : taken[i] <= pos
      /\ \A p \in Positions(kind) : p <= pos => \E i \in DOMAIN taken : taken[i] = p
  BY DEF UpTo
<1>1. n \in Nat /\ DOMAIN taken = 1 .. n /\ \A i \in 1 .. n : taken[i] \in 1 .. cut
  OBVIOUS
<1>2. [i \in 1 .. m |-> pos + i] \in Seq(1 .. cut)
  <2>1. \A i \in 1 .. m : pos + i \in 1 .. cut
    OBVIOUS
  <2> QED
    BY <2>1
<1>3. /\ more \in Seq(1 .. cut)
      /\ Len(more) = n + m /\ DOMAIN more = 1 .. n + m
      /\ \A i \in 1 .. n : more[i] = taken[i]
      /\ \A i \in n + 1 .. n + m : more[i] = pos + (i - n)
  BY <1>1, <1>2 DEF Take
<1> HIDE DEF n, more
<1>4. \A i \in 1 .. n + m : i \in 1 .. n \/ i \in n + 1 .. n + m
  BY <1>1
<1>5. \A i \in n + 1 .. n + m : more[i] \in pos + 1 .. pos + m
  BY <1>1, <1>3
<1>6. \A i \in DOMAIN more : more[i] \in Positions(kind) /\ more[i] <= pos + m
  <2> TAKE i \in DOMAIN more
  <2>1. CASE i \in 1 .. n
    BY <1>0, <1>1, <1>3, <2>1 DEF InOrder
  <2>2. CASE i \in n + 1 .. n + m
    BY <1>5, <2>2
  <2> QED
    BY <1>3, <1>4, <2>1, <2>2
<1>7. ASSUME NEW i \in DOMAIN more, NEW j \in DOMAIN more, i < j
      PROVE  more[i] < more[j]
  <2> DEFINE sorted == \A k, l \in 1 .. n : k < l => taken[k] < taken[l]
             low    == \A k \in 1 .. n : taken[k] <= pos /\ taken[k] \in Nat
  <2>s. sorted
    BY <1>0, <1>1 DEF InOrder
  <2>l. low
    BY <1>0, <1>1
  <2> HIDE DEF sorted, low
  <2>1. CASE j \in 1 .. n
    <3>1. i \in 1 .. n
      BY <1>1, <1>3, <1>7, <2>1
    <3>2. taken[i] < taken[j]
      BY <1>7, <2>1, <2>s, <3>1 DEF sorted
    <3> QED
      BY <1>3, <2>1, <3>1, <3>2
  <2>2. CASE i \in 1 .. n /\ j \in n + 1 .. n + m
    <3>1. more[i] <= pos /\ more[i] \in Nat
      BY <1>3, <2>2, <2>l DEF low
    <3>2. more[j] \in pos + 1 .. pos + m
      BY <1>5, <2>2
    <3> QED
      BY <3>1, <3>2
  <2>3. CASE i \in n + 1 .. n + m /\ j \in n + 1 .. n + m
    BY <1>1, <1>3, <1>7, <2>3
  <2> QED
    BY <1>1, <1>3, <1>4, <1>7, <2>1, <2>2, <2>3
<1>8. ASSUME NEW p \in Positions(kind), p <= pos + m
      PROVE  \E i \in DOMAIN more : more[i] = p
  <2>1. p \in Nat
    BY BodyEnds DEF Positions
  <2>2. CASE p <= pos
    <3>1. PICK i \in 1 .. n : taken[i] = p
      BY <1>0, <1>1, <2>2
    <3>2. i \in DOMAIN more /\ more[i] = p
      BY <1>1, <1>3, <3>1
    <3> QED
      BY <3>2
  <2>3. CASE p > pos
    <3>1. n + (p - pos) \in n + 1 .. n + m /\ n + (p - pos) \in 1 .. n + m
      BY <1>1, <1>8, <2>1, <2>3
    <3>2. more[n + (p - pos)] = pos + ((n + (p - pos)) - n)
      BY <1>3, <3>1
    <3>3. pos + ((n + (p - pos)) - n) = p
      BY <1>1, <2>1
    <3> QED
      BY <1>3, <3>1, <3>2, <3>3
  <2> QED
    BY <2>1, <2>2, <2>3
<1>9. InOrder(more, kind)
  <2>1. ASSUME NEW p \in Positions(kind), NEW i \in DOMAIN more, p < more[i]
        PROVE  \E j \in DOMAIN more : more[j] = p
    <3>1. p \in Nat /\ more[i] \in Nat /\ more[i] <= pos + m
      BY <1>3, <1>6 DEF Positions
    <3> QED
      BY <1>8, <2>1, <3>1
  <2> QED
    BY <1>6, <1>7, <2>1 DEF InOrder
<1> QED
  BY <1>3, <1>6, <1>8, <1>9 DEF more, UpTo

-----------------------------------------------------------------------------
(* Sending: the response is not touched.                                    *)

TypesSent ==
  /\ method \in {"View", "Head"}
  /\ req \in [plan : Plans, size : Nat]
  /\ source \in Nat /\ total \in 0 .. req.size
  /\ wire \in Seq({"body", "term", "suffix"})
  /\ state_ \in SessionStates /\ call \in Calls
  /\ failed \in BOOLEAN
  /\ habits \subseteq Habits \cup {"early"}

TypesRead ==
  /\ pos \in 0 .. cut
  /\ view \in {"none", "view", "taken", "suffix"}
  /\ left \in Nat /\ chunk_left \in Nat /\ ended \in BOOLEAN
  /\ bodyTaken \in Seq(1 .. cut) /\ suffixTaken \in Seq(1 .. cut)

TypesSlot ==
  /\ body_plan_ \in [plan : Plans \cup {"none"}, size : Nat]
  /\ body_ \in {Fresh} \cup [kind : {"Sized"}, left : Nat]
               \cup [kind : {"Chunked"}, ended : BOOLEAN]
  /\ astray \in BOOLEAN

TypesResp ==
  /\ resp \in [plan : Plans, size : Nat]
  /\ rx \in [chunks : Bodies, suffix : 0 .. MaxSuffix]
  /\ cut \in 0 .. RxLen

LEMMA TypesApart == TypeOK <=> TypesSent /\ TypesRead /\ TypesSlot /\ TypesResp
BY DEF TypeOK, TypesSent, TypesRead, TypesSlot, TypesResp

LEMMA RespKept ==
  ASSUME TypesResp, UNCHANGED respVars
  PROVE  TypesResp'
BY LayoutKept DEF TypesResp, respVars

(* The request's part of the invariant, and the response's.  The first      *)
(* holds whoever calls, with what a Head gets; the second of callers in     *)
(* step.                                                                    *)
Requests  == SentIsCounted /\ RequestFramed
Standing  == TypeOK /\ Phases /\ HeadIsBare /\ Requests
Responses == /\ Placed /\ ReaderAligned /\ InOrder(bodyTaken, "body")
             /\ SlotAligned /\ SlotNotShort /\ SuffixBegins

Core == Standing /\ (InStep => Responses)

LEMMA LaidHere ==
  ASSUME TypeOK, Phases
  PROVE  Laid /\ cut \in Nat /\ pos \in Nat /\ pos <= cut /\ cut <= RxLen
BY BodyEnds DEF Laid, TypeOK, Phases

(* No reader has been out.                                                  *)
LEMMA QuietFrame ==
  ASSUME view' = "none", bodyTaken' = << >>, state_' # "BodyReady",
         state_' = "PrefixReady" => call' # "drain", Placed'
  PROVE  Responses'
<1>3. ReaderAligned'
  BY DEF ReaderAligned, Reading
<1>4. InOrder(bodyTaken, "body")'
  BY DEF InOrder
<1>5. SlotAligned' /\ SlotNotShort'
  BY DEF SlotAligned, SlotNotShort
<1>6. SuffixBegins'
  BY DEF SuffixBegins
<1> QED
  BY <1>3, <1>4, <1>5, <1>6 DEF Responses

LEMMA SendingFrame ==
  ASSUME Core, BeforeResp, BeforeResp', call' # "drain",
         UNCHANGED <<method, respVars, readVars, body_plan_, body_, astray>>,
         habits \subseteq habits'
  PROVE  HeadIsBare' /\ (InStep' => Responses')
<1>1. /\ view = "none" /\ bodyTaken = << >>
      /\ UNCHANGED <<pos, view, left, bodyTaken>>
  BY DEF Core, Standing, Phases, readVars
<1>2. HeadIsBare'
  BY <1>1 DEF Core, Standing, HeadIsBare, Reading
<1>3. ASSUME InStep' PROVE Responses'
  <2>1. Placed
    BY <1>3 DEF Core, Responses, InStep
  <2>2. Placed'
    BY <1>1, <2>1 DEF Placed, BeforeResp
  <2> QED
    BY <1>1, <2>2, QuietFrame DEF BeforeResp
<1> QED
  BY <1>2, <1>3

(* A piece of a body, or of a suffix, on the wire.                          *)
LEMMA WireGrows ==
  ASSUME NEW w \in Seq({"body", "term", "suffix"}), NEW m \in Nat,
         NEW item \in {"body", "term", "suffix"},
         NEW w2, w2 = w \o [i \in 1 .. m |-> item]
  PROVE  /\ w2 \in Seq({"body", "term", "suffix"})
         /\ Len(w2) = Len(w) + m
         /\ \A i \in 1 .. Len(w) : w2[i] = w[i]
         /\ \A i \in Len(w) + 1 .. Len(w) + m : w2[i] = item
<1>1. [i \in 1 .. m |-> item] \in Seq({"body", "term", "suffix"})
  OBVIOUS
<1> QED
  BY <1>1

LEMMA BodyGrows ==
  ASSUME TypesSent, NEW m \in Nat, wire' = wire \o [i \in 1 .. m |-> "body"],
         \A i \in DOMAIN wire : wire[i] = "body"
  PROVE  /\ wire' \in Seq({"body", "term", "suffix"})
         /\ Len(wire') = Len(wire) + m
         /\ \A i \in DOMAIN wire' : wire'[i] = "body"
<1>1. wire \in Seq({"body", "term", "suffix"}) /\ Len(wire) \in Nat
  BY DEF TypesSent
<1>2. /\ wire' \in Seq({"body", "term", "suffix"})
      /\ Len(wire') = Len(wire) + m
      /\ \A i \in 1 .. Len(wire) : wire'[i] = wire[i]
      /\ \A i \in Len(wire) + 1 .. Len(wire) + m : wire'[i] = "body"
  BY <1>1, WireGrows
<1>3. DOMAIN wire' = 1 .. Len(wire) + m /\ DOMAIN wire = 1 .. Len(wire)
  BY <1>1, <1>2
<1>4. \A i \in 1 .. Len(wire) + m : i \in 1 .. Len(wire) \/ i \in Len(wire) + 1 .. Len(wire) + m
  BY <1>1
<1> QED
  BY <1>1, <1>2, <1>3, <1>4

LEMMA StepSendReqBody == Core /\ SendReqBody => Core'
<1> SUFFICES ASSUME Core, SendReqBody PROVE Core'
  OBVIOUS
<1>1. /\ TypesSent /\ TypesRead /\ TypesSlot /\ TypesResp
      /\ state_ = "SendingBody" /\ state_' = "SendingBody"
      /\ UNCHANGED <<method, req, source, wire, respVars, readVars, body_plan_, body_,
                     astray>>
      /\ call = "none" /\ call' = req.plan /\ req.plan # "absent" /\ total' = 0
      /\ failed' = FALSE /\ habits \subseteq habits'
      /\ failed => "retry" \in habits'
  BY TypesApart DEF Core, Standing, Phases, SendReqBody, StartSend, Shows, Idle
<1>2. TypeOK'
  <2>1. TypesSent'
    <3>1. req.plan # "absent"
      BY <1>1 DEF Core, Standing, Phases
    <3>2. call' \in Calls
      BY <1>1, <3>1 DEF SendReqBody, StartSend, Shows, TypesSent, Plans, Calls
    <3>3. total' \in 0 .. req.size
      BY <1>1 DEF SendReqBody, TypesSent
    <3>4. habits' \subseteq Habits \cup {"early"}
      BY <1>1 DEF SendReqBody, StartSend, Shows, TypesSent
    <3> QED
      BY <1>1, <3>2, <3>3, <3>4 DEF SendReqBody, StartSend, Shows, TypesSent
  <2>2. TypesRead' /\ TypesSlot' /\ TypesResp'
    BY <1>1, RespKept DEF SendReqBody, TypesRead, TypesSlot, readVars, respVars
  <2> QED
    BY <2>1, <2>2, TypesApart, PTL
<1>3. Phases'
  BY <1>1, LayoutKept DEF Core, Standing, Phases, SendReqBody, StartSend, Shows, BeforeResp, Reading, TypesSent,
     Plans, readVars, respVars
<1>4. Requests'
  <2>1. Len(wire) \in Nat /\ (wire = << >> => Len(wire) = 0)
    BY <1>1 DEF TypesSent
  <2>2. total' <= Len(wire') /\ total' = 0 /\ wire' = wire
    BY <1>1, <2>1
  <2>3. "retry" \notin habits' => ~ failed /\ "retry" \notin habits
    BY <1>1
  <2>4. /\ RequestFramed
        /\ req.plan = "sized" /\ "retry" \notin habits /\ ~ failed => wire = << >>
    BY <1>1 DEF Core, Standing, Requests, SentIsCounted
  <2>5. SentIsCounted'
    BY <1>1, <2>1, <2>2, <2>3, <2>4 DEF SentIsCounted
  <2>6. RequestFramed'
    BY <1>1, <2>4 DEF RequestFramed
  <2> QED
    BY <2>5, <2>6 DEF Requests
<1>5. HeadIsBare' /\ (InStep' => Responses')
  <2>1. call' # "drain"
    BY <1>1 DEF TypesSent, Plans
  <2> QED
    BY <1>1, <2>1, SendingFrame DEF BeforeResp
<1> QED
  BY <1>2, <1>3, <1>4, <1>5 DEF Core, Standing

(* A request that keeps its phase: the rest of Phases is untouched.         *)
LEMMA PhasesSent ==
  ASSUME Core, BeforeResp, BeforeResp',
         UNCHANGED <<method, req, respVars, readVars, body_plan_, body_>>,
         call' \in {"sized", "chunked"} => state_' = "SendingBody" /\ call' = req.plan,
         call' = "suffix" => state_' = "SendingSuffix",
         call' # "drain",
         state_' = "SendingBody" => state_ = "SendingBody"
  PROVE  Phases'
BY LayoutKept DEF Core, Standing, Phases, BeforeResp, Reading, readVars, respVars

LEMMA StepCopySome == Core /\ CopySome => Core'
<1> SUFFICES ASSUME Core, CopySome PROVE Core'
  OBVIOUS
<1>1. /\ TypesSent /\ TypesRead /\ TypesSlot /\ TypesResp
      /\ call = "sized" /\ state_ = "SendingBody"
      /\ UNCHANGED <<method, req, respVars, readVars, sessVars>>
      /\ \A i \in DOMAIN wire : wire[i] = "body"
  BY TypesApart DEF Core, Standing, CopySome, Phases, Requests, RequestFramed, Framed
<1>2. PICK m \in 1 .. source : /\ m <= req.size - total
                               /\ wire' = wire \o [i \in 1 .. m |-> "body"]
                               /\ source' = source - m
                               /\ total' = total + m
  BY DEF CopySome
<1>3. source \in Nat /\ total \in Nat /\ req.size \in Nat /\ m \in Nat
  BY <1>1 DEF TypesSent
<1>4. /\ wire' \in Seq({"body", "term", "suffix"})
      /\ Len(wire') = Len(wire) + m
      /\ \A i \in DOMAIN wire' : wire'[i] = "body"
  BY <1>1, <1>2, <1>3, BodyGrows
<1>5. source' \in Nat /\ total' \in 0 .. req.size
  BY <1>2, <1>3
<1>6. TypeOK'
  <2>1. TypesSent'
    BY <1>1, <1>4, <1>5 DEF TypesSent, sessVars, ctlVars
  <2>2. TypesRead' /\ TypesSlot' /\ TypesResp'
    BY <1>1, RespKept DEF TypesRead, TypesSlot, readVars, respVars, sessVars, ctlVars
  <2> QED
    BY <2>1, <2>2, TypesApart, PTL
<1>7. Phases'
  BY <1>1, PhasesSent DEF BeforeResp, sessVars, ctlVars, Core, Standing, Phases
<1>8. Requests'
  <2>1. RequestFramed'
    BY <1>1, <1>4 DEF RequestFramed, Framed, sessVars, ctlVars
  <2>2. /\ req.plan = "sized" => total <= Len(wire)
        /\ "retry" \notin habits /\ req.plan = "sized" => Len(wire) = total
        /\ Len(wire) \in Nat
    BY <1>1 DEF Core, Standing, Requests, SentIsCounted, TypesSent
  <2>3. /\ req.plan = "sized" => total' <= Len(wire')
        /\ "retry" \notin habits /\ req.plan = "sized" => Len(wire') = total'
    <3>1. total' = total + m /\ Len(wire') = Len(wire) + m
      BY <1>2, <1>4
    <3> QED
      BY <1>3, <2>2, <3>1
  <2>4. SentIsCounted'
    BY <1>1, <2>3 DEF SentIsCounted, sessVars, ctlVars
  <2> QED
    BY <2>1, <2>4 DEF Requests
<1>9. HeadIsBare' /\ (InStep' => Responses')
  BY <1>1, SendingFrame DEF BeforeResp, sessVars, ctlVars
<1> QED
  BY <1>6, <1>7, <1>8, <1>9 DEF Core, Standing

LEMMA StepEncodeSome == Core /\ EncodeSome => Core'
<1> SUFFICES ASSUME Core, EncodeSome PROVE Core'
  OBVIOUS
<1>1. /\ TypesSent /\ TypesRead /\ TypesSlot /\ TypesResp
      /\ call = "chunked" /\ state_ = "SendingBody" /\ req.plan = "chunked"
      /\ UNCHANGED <<method, req, total, respVars, readVars, sessVars>>
      /\ \A i \in DOMAIN wire : wire[i] = "body"
  BY TypesApart DEF Core, Standing, EncodeSome, Phases, Requests, RequestFramed, Framed
<1>2. PICK m \in 1 .. source : /\ wire' = wire \o [i \in 1 .. m |-> "body"]
                               /\ source' = source - m
  BY DEF EncodeSome
<1>3. source \in Nat /\ m \in Nat /\ source - m \in Nat
  BY <1>1 DEF TypesSent
<1>4. /\ wire' \in Seq({"body", "term", "suffix"})
      /\ \A i \in DOMAIN wire' : wire'[i] = "body"
  BY <1>1, <1>2, <1>3, BodyGrows
<1>6. TypeOK'
  <2>1. TypesSent'
    BY <1>1, <1>2, <1>3, <1>4 DEF TypesSent, sessVars, ctlVars
  <2>2. TypesRead' /\ TypesSlot' /\ TypesResp'
    BY <1>1, RespKept DEF TypesRead, TypesSlot, readVars, respVars, sessVars, ctlVars
  <2> QED
    BY <2>1, <2>2, TypesApart, PTL
<1>7. Phases'
  BY <1>1, PhasesSent DEF BeforeResp, sessVars, ctlVars, Core, Standing, Phases
<1>8. Requests'
  BY <1>1, <1>4 DEF Requests, RequestFramed, Framed, SentIsCounted, sessVars, ctlVars
<1>9. HeadIsBare' /\ (InStep' => Responses')
  BY <1>1, SendingFrame DEF BeforeResp, sessVars, ctlVars
<1> QED
  BY <1>6, <1>7, <1>8, <1>9 DEF Core, Standing

LEMMA StepCopyDone == Core /\ CopyDone => Core'
<1> SUFFICES ASSUME Core, CopyDone PROVE Core'
  OBVIOUS
<1>1. /\ TypesSent /\ TypesRead /\ TypesSlot /\ TypesResp
      /\ call = "sized" /\ state_ = "SendingBody" /\ req.plan = "sized"
      /\ UNCHANGED <<reqVars, respVars, readVars, body_plan_, body_, failed, astray, habits>>
      /\ total = req.size /\ state_' = "WaitingResp" /\ call' = "none"
      /\ \A i \in DOMAIN wire : wire[i] = "body"
      /\ total <= Len(wire)
      /\ "retry" \notin habits => Len(wire) = total
  BY TypesApart DEF Core, Standing, CopyDone, Phases, Requests, RequestFramed, Framed, SentIsCounted
<1>6. TypeOK'
  <2>1. TypesSent'
    BY <1>1 DEF TypesSent, reqVars, SessionStates, Calls
  <2>2. TypesRead' /\ TypesSlot' /\ TypesResp'
    BY <1>1, RespKept DEF TypesRead, TypesSlot, readVars, respVars
  <2> QED
    BY <2>1, <2>2, TypesApart, PTL
<1>7. Phases'
  BY <1>1, PhasesSent DEF BeforeResp, reqVars
<1>8. Requests'
  <2>1. Len(wire) \in Nat /\ DOMAIN wire = 1 .. Len(wire)
    BY <1>1 DEF TypesSent
  <2>2. /\ Len(wire) \in 0 .. Len(wire) /\ Len(wire) >= req.size
        /\ "retry" \notin habits => Len(wire) = req.size
        /\ \A i \in 1 .. Len(wire) : wire[i] = "body"
        /\ \A i \in Len(wire) + 1 .. Len(wire) : wire[i] = "suffix"
    BY <1>1, <2>1
  <2>3. Framed(Len(wire))'
    BY <1>1, <2>2 DEF Framed, reqVars
  <2> QED
    BY <1>1, <2>2, <2>3 DEF Requests, RequestFramed, SentIsCounted, reqVars
<1>9. HeadIsBare' /\ (InStep' => Responses')
  BY <1>1, SendingFrame DEF BeforeResp, reqVars
<1> QED
  BY <1>6, <1>7, <1>8, <1>9 DEF Core, Standing

LEMMA StepEncodeDone == Core /\ EncodeDone => Core'
<1> SUFFICES ASSUME Core, EncodeDone PROVE Core'
  OBVIOUS
<1>1. /\ TypesSent /\ TypesRead /\ TypesSlot /\ TypesResp
      /\ call = "chunked" /\ state_ = "SendingBody" /\ req.plan = "chunked"
      /\ UNCHANGED <<method, req, source, total, respVars, readVars, body_plan_,
                     body_, failed, astray, habits>>
      /\ state_' = "WaitingResp" /\ call' = "none"
      /\ wire' = Append(wire, "term")
      /\ \A i \in DOMAIN wire : wire[i] = "body"
  BY TypesApart DEF Core, Standing, EncodeDone, Phases, Requests, RequestFramed, Framed
<1>2. wire \in Seq({"body", "term", "suffix"})
  BY <1>1 DEF TypesSent
<1>3. /\ wire' \in Seq({"body", "term", "suffix"})
      /\ Len(wire) \in Nat /\ Len(wire') = Len(wire) + 1
      /\ \A i \in 1 .. Len(wire) : wire'[i] = wire[i]
      /\ wire'[Len(wire) + 1] = "term"
  BY <1>1, <1>2
<1>6. TypeOK'
  <2>1. TypesSent'
    BY <1>1, <1>3 DEF TypesSent, SessionStates, Calls
  <2>2. TypesRead' /\ TypesSlot' /\ TypesResp'
    BY <1>1, RespKept DEF TypesRead, TypesSlot, readVars, respVars
  <2> QED
    BY <2>1, <2>2, TypesApart, PTL
<1>7. Phases'
  BY <1>1, PhasesSent DEF BeforeResp
<1>8. Requests'
  <2>1. /\ Len(wire) \in 0 .. Len(wire') /\ Len(wire) < Len(wire')
        /\ \A i \in 1 .. Len(wire) : wire'[i] = "body"
        /\ \A i \in Len(wire) + 2 .. Len(wire') : wire'[i] = "suffix"
    BY <1>1, <1>2, <1>3
  <2>2. RequestFramed'
    <3>1. PICK n \in Nat : n = Len(wire)
      BY <1>3
    <3>2. Framed(n)'
      BY <1>1, <1>3, <2>1, <3>1 DEF Framed
    <3> QED
      BY <1>1, <2>1, <3>1, <3>2 DEF RequestFramed
  <2> QED
    BY <1>1, <2>2 DEF Requests, SentIsCounted
<1>9. HeadIsBare' /\ (InStep' => Responses')
  BY <1>1, SendingFrame DEF BeforeResp, reqVars
<1> QED
  BY <1>6, <1>7, <1>8, <1>9 DEF Core, Standing

LEMMA StepSendReqSuffix == Core /\ SendReqSuffix => Core'
<1> SUFFICES ASSUME Core, SendReqSuffix PROVE Core'
  OBVIOUS
<1>1. /\ TypesSent /\ TypesRead /\ TypesSlot /\ TypesResp
      /\ state_ \in {"WaitingResp", "SendingSuffix"} /\ state_' = "SendingSuffix"
      /\ UNCHANGED <<reqVars, respVars, readVars, body_plan_, body_, astray>>
      /\ call' = "suffix" /\ failed' = FALSE
  BY TypesApart DEF Core, Standing, SendReqSuffix, StartSend, Shows
<1>2. /\ habits \subseteq habits'
      /\ habits' \subseteq Habits \cup {"early"}
  BY <1>1 DEF SendReqSuffix, StartSend, Shows, TypesSent
<1>6. TypeOK'
  <2>1. TypesSent'
    BY <1>1, <1>2 DEF TypesSent, reqVars, SessionStates, Calls
  <2>2. TypesRead' /\ TypesSlot' /\ TypesResp'
    BY <1>1, RespKept DEF TypesRead, TypesSlot, readVars, respVars
  <2> QED
    BY <2>1, <2>2, TypesApart, PTL
<1>7. Phases'
  BY <1>1, PhasesSent DEF BeforeResp, reqVars
<1>8. Requests'
  BY <1>1, <1>2 DEF Core, Standing, Requests, RequestFramed, Framed, SentIsCounted, reqVars
<1>9. HeadIsBare' /\ (InStep' => Responses')
  BY <1>1, <1>2, SendingFrame DEF BeforeResp, reqVars
<1> QED
  BY <1>6, <1>7, <1>8, <1>9 DEF Core, Standing

LEMMA StepSuffixSome == Core /\ SuffixSome => Core'
<1> SUFFICES ASSUME Core, SuffixSome PROVE Core'
  OBVIOUS
<1>1. /\ TypesSent /\ TypesRead /\ TypesSlot /\ TypesResp
      /\ call = "suffix" /\ state_ = "SendingSuffix"
      /\ UNCHANGED <<method, req, source, total, respVars, readVars, sessVars>>
      /\ wire' = Append(wire, "suffix")
  BY TypesApart DEF Core, Standing, SuffixSome, Phases
<1>2. wire \in Seq({"body", "term", "suffix"})
  BY <1>1 DEF TypesSent
<1>3. /\ wire' \in Seq({"body", "term", "suffix"})
      /\ Len(wire) \in Nat /\ Len(wire') = Len(wire) + 1
      /\ \A i \in 1 .. Len(wire) : wire'[i] = wire[i]
      /\ wire'[Len(wire) + 1] = "suffix"
  BY <1>1, <1>2
<1>6. TypeOK'
  <2>1. TypesSent'
    BY <1>1, <1>3 DEF TypesSent, sessVars, ctlVars
  <2>2. TypesRead' /\ TypesSlot' /\ TypesResp'
    BY <1>1, RespKept DEF TypesRead, TypesSlot, readVars, respVars, sessVars, ctlVars
  <2> QED
    BY <2>1, <2>2, TypesApart, PTL
<1>7. Phases'
  BY <1>1, PhasesSent DEF BeforeResp, sessVars, ctlVars, Core, Standing, Phases
<1>8. Requests'
  <2>1. RequestFramed'
    <3>1. PICK n \in 0 .. Len(wire) : Framed(n)
      BY <1>1 DEF Core, Standing, Requests, RequestFramed
    <3>2. n \in 0 .. Len(wire') /\ \A i \in 1 .. n : wire'[i] = "body"
      BY <1>3, <3>1 DEF Framed
    <3>3. /\ req.plan = "absent" => n = 0
          /\ req.plan = "sized" => n >= req.size /\ ("retry" \notin habits => n = req.size)
      BY <3>1 DEF Framed
    <3>4. CASE req.plan = "chunked"
      <4>1. n < Len(wire') /\ wire'[n + 1] = "term"
        BY <1>3, <3>1, <3>4 DEF Framed
      <4>2. \A i \in n + 2 .. Len(wire') : wire'[i] = "suffix"
        BY <1>3, <3>1, <3>4 DEF Framed
      <4>3. Framed(n)'
        BY <1>1, <3>2, <3>4, <4>1, <4>2 DEF Framed, sessVars
      <4> QED
        BY <1>1, <3>2, <4>3 DEF RequestFramed, sessVars, ctlVars
    <3>5. CASE req.plan # "chunked"
      <4>1. \A i \in n + 1 .. Len(wire') : wire'[i] = "suffix"
        BY <1>3, <3>1, <3>5 DEF Framed
      <4>2. Framed(n)'
        BY <1>1, <3>2, <3>3, <3>5, <4>1 DEF Framed, sessVars
      <4> QED
        BY <1>1, <3>2, <4>2 DEF RequestFramed, sessVars, ctlVars
    <3> QED
      BY <3>4, <3>5
  <2> QED
    BY <1>1, <2>1 DEF Requests, SentIsCounted, sessVars, ctlVars
<1>9. HeadIsBare' /\ (InStep' => Responses')
  BY <1>1, SendingFrame DEF BeforeResp, sessVars, ctlVars
<1> QED
  BY <1>6, <1>7, <1>8, <1>9 DEF Core, Standing

LEMMA StepSuffixDone == Core /\ SuffixDone => Core'
<1> SUFFICES ASSUME Core, SuffixDone PROVE Core'
  OBVIOUS
<1>1. /\ TypesSent /\ TypesRead /\ TypesSlot /\ TypesResp
      /\ state_ = "SendingSuffix" /\ state_' = "WaitingResp" /\ call' = "none"
      /\ UNCHANGED <<reqVars, respVars, readVars, body_plan_, body_, failed, astray, habits>>
  BY TypesApart DEF Core, Standing, SuffixDone, Phases
<1>6. TypeOK'
  <2>1. TypesSent'
    BY <1>1 DEF TypesSent, reqVars, SessionStates, Calls
  <2>2. TypesRead' /\ TypesSlot' /\ TypesResp'
    BY <1>1, RespKept DEF TypesRead, TypesSlot, readVars, respVars
  <2> QED
    BY <2>1, <2>2, TypesApart, PTL
<1>7. Phases'
  BY <1>1, PhasesSent DEF BeforeResp, reqVars
<1>8. Requests'
  BY <1>1 DEF Core, Standing, Requests, RequestFramed, Framed, SentIsCounted, reqVars
<1>9. HeadIsBare' /\ (InStep' => Responses')
  BY <1>1, SendingFrame DEF BeforeResp, reqVars
<1> QED
  BY <1>6, <1>7, <1>8, <1>9 DEF Core, Standing

LEMMA StepSendFails == Core /\ SendFails => Core'
<1> SUFFICES ASSUME Core, SendFails PROVE Core'
  OBVIOUS
<1>1. /\ TypesSent /\ TypesRead /\ TypesSlot /\ TypesResp
      /\ state_ \in {"SendingBody", "SendingSuffix"} /\ state_' = state_
      /\ call' = "none" /\ failed' = TRUE
      /\ UNCHANGED <<reqVars, respVars, readVars, body_plan_, body_, astray, habits>>
  BY TypesApart DEF Core, Standing, SendFails, Phases
<1>6. TypeOK'
  <2>1. TypesSent'
    BY <1>1 DEF TypesSent, reqVars, Calls
  <2>2. TypesRead' /\ TypesSlot' /\ TypesResp'
    BY <1>1, RespKept DEF TypesRead, TypesSlot, readVars, respVars
  <2> QED
    BY <2>1, <2>2, TypesApart, PTL
<1>7. Phases'
  BY <1>1, PhasesSent DEF BeforeResp, reqVars
<1>8. Requests'
  BY <1>1 DEF Core, Standing, Requests, RequestFramed, Framed, SentIsCounted, reqVars
<1>9. HeadIsBare' /\ (InStep' => Responses')
  BY <1>1, SendingFrame DEF BeforeResp, reqVars
<1> QED
  BY <1>6, <1>7, <1>8, <1>9 DEF Core, Standing

-----------------------------------------------------------------------------
(* Receiving: the request is not touched.                                   *)

LEMMA ReceivingFrame ==
  ASSUME Core, state_ # "SendingBody", state_' # "SendingBody",
         habits \subseteq habits', UNCHANGED reqVars
  PROVE  Requests'
BY DEF Core, Standing, Requests, SentIsCounted, RequestFramed, Framed, reqVars

(* What is taken are positions before the cut.                              *)
LEMMA TakenInRange ==
  ASSUME pos \in Nat, cut \in Nat, NEW m \in Nat, pos + m <= cut,
         NEW taken \in Seq(1 .. cut)
  PROVE  Take(taken, m) \in Seq(1 .. cut)
<1>1. \A i \in 1 .. m : pos + i \in 1 .. cut
  OBVIOUS
<1>2. [i \in 1 .. m |-> pos + i] \in Seq(1 .. cut)
  BY <1>1
<1> QED
  BY <1>2 DEF Take

(* A caller that reads the body stands in it.                               *)
LEMMA ReadingIs ==
  ASSUME Core, Reading
  PROVE  /\ state_ = "BodyReady" /\ call = "none"
         /\ body_plan_.plan \in Plans
         /\ view # "none" /\ view # "suffix" /\ suffixTaken = << >>
         /\ method = "Head" => body_plan_.plan = "absent" /\ left = 0 /\ bodyTaken = << >>
         /\ InStep => body_plan_ = resp /\ PrefixLen <= pos
BY DEF Core, Standing, Phases, HeadIsBare, Responses, Placed, Reading, BeforeResp, TypeOK

LEMMA ReadingFrame ==
  ASSUME Core, Reading,
         UNCHANGED <<reqVars, respVars, view, suffixTaken, state_, call, body_plan_,
                     body_, failed>>,
         astray' \in BOOLEAN, habits \subseteq habits', habits' \subseteq Habits \cup {"early"},
         pos' \in pos .. cut, left' \in Nat, chunk_left' \in Nat, ended' \in BOOLEAN,
         bodyTaken' \in Seq(1 .. cut),
         method = "Head" => left' = 0 /\ bodyTaken' = << >>,
         InStep' => /\ ReaderAligned' /\ InOrder(bodyTaken, "body")'
                    /\ body_plan_.plan = "chunked" /\ ended => ended' /\ pos' = pos
  PROVE  Core'
<1>1. /\ TypesSent /\ TypesRead /\ TypesSlot /\ TypesResp
  BY TypesApart DEF Core, Standing
<1>2. /\ state_ = "BodyReady" /\ call = "none"
      /\ view # "none" /\ view # "suffix"
      /\ InStep => body_plan_ = resp /\ PrefixLen <= pos
  BY ReadingIs
<1>3. cut \in Nat /\ pos \in Nat
  BY LaidHere DEF Core, Standing
<1>4. TypeOK'
  <2>1. TypesSent'
    BY <1>1 DEF TypesSent, reqVars
  <2>2. TypesRead'
    BY <1>1, <1>3 DEF TypesRead, respVars
  <2>3. TypesSlot' /\ TypesResp'
    BY <1>1, RespKept DEF TypesSlot
  <2> QED
    BY <2>1, <2>2, <2>3, TypesApart, PTL
<1>5. Phases'
  BY <1>2, LayoutKept DEF Core, Standing, Phases, Reading, BeforeResp, reqVars, respVars
<1>6. Requests'
  BY <1>2, ReceivingFrame
<1>7. HeadIsBare'
  BY DEF Core, Standing, HeadIsBare, Reading, reqVars
<1>8. ASSUME InStep' PROVE Responses'
  <2>1. InStep
    BY <1>8 DEF InStep
  <2>2. Placed'
    <3>1. pos' >= PrefixLen
      BY <1>2, <1>3, <2>1 DEF PrefixLen
    <3> QED
      BY <1>2, <2>1, <3>1 DEF Placed, BeforeResp, respVars
  <2>3. SlotAligned'
    BY <1>2, <2>1 DEF Core, Standing, Responses, SlotAligned
  <2>4. SuffixBegins'
    BY <1>2 DEF SuffixBegins
  <2>5. SlotNotShort'
    <3>1. SlotNotShort /\ BodyEnd' = BodyEnd /\ BodyEnd \in Nat
      BY <2>1, LayoutKept, LaidHere, BodyEnds DEF Core, Standing, Responses, respVars
    <3>2. CASE body_plan_.plan = "chunked"
      <4>1. CASE view = "view"
        BY <4>1 DEF SlotNotShort
      <4>2. CASE view = "taken"
        <5>1. body_.kind = "Chunked" /\ (body_.ended => pos = BodyEnd /\ ended)
          BY <1>2, <3>1, <3>2, <4>2 DEF SlotNotShort
        <5>2. body_.ended => pos' = BodyEnd /\ ended'
          BY <1>8, <3>2, <5>1, Zenon
        <5> QED
          BY <3>1, <3>2, <4>2, <5>1, <5>2, Zenon DEF SlotNotShort
      <4> QED
        BY <4>1, <4>2 DEF Reading
    <3>3. CASE body_plan_.plan # "chunked"
      <4>1. body_.kind = "Sized" => body_.left \in Nat
        BY <1>1 DEF TypesSlot, Fresh
      <4> QED
        BY <1>2, <1>3, <3>1, <3>3, <4>1 DEF SlotNotShort
    <3> QED
      BY <3>2, <3>3
  <2> QED
    BY <1>8, <2>2, <2>3, <2>4, <2>5 DEF Responses
<1> QED
  BY <1>4, <1>5, <1>6, <1>7, <1>8 DEF Core, Standing

(* A read from a stream out of step is recorded.                            *)
LEMMA Recorded ==
  ASSUME TypeOK, Shows(Again)
  PROVE  /\ habits \subseteq habits' /\ habits' \subseteq Habits \cup {"early"}
         /\ InStep' => InStep /\ ~ astray
BY DEF TypeOK, Shows, Again, InStep

(* What a prefix may declare, wherever it is read.                          *)
LEMMA PlansRead ==
  ASSUME TypeOK, Phases,
         NEW plan \in IF pos = 0 THEN {resp} ELSE Misread
  PROVE  /\ plan \in [plan : Plans, size : Nat]
         /\ plan.plan # "sized" => plan.size = 0
<1>1. CASE pos = 0
  BY <1>1 DEF TypeOK, Phases, Declares
<1>2. CASE pos # 0
  <2>1. plan \in Misread
    BY <1>2
  <2>2. \/ plan \in [plan : {"absent", "chunked"}, size : {0}]
        \/ plan \in [plan : {"sized"}, size : {1, DrainBlock}]
    BY <2>1 DEF Misread
  <2> QED
    BY <2>2, SessionAssumption DEF Plans
<1> QED
  BY <1>1, <1>2

LEMMA StepRecvRespPrefix == Core /\ RecvRespPrefix => Core'
<1> SUFFICES ASSUME Core, RecvRespPrefix PROVE Core'
  OBVIOUS
<1>1. /\ TypesSent /\ TypesRead /\ TypesSlot /\ TypesResp
      /\ BeforeResp /\ state_ # "SendingBody"
      /\ pos' = pos + PrefixLen /\ pos' <= cut
      /\ call = "none" /\ view = "none"
      /\ bodyTaken = << >> /\ suffixTaken = << >>
      /\ Shows(Again)
      /\ UNCHANGED <<reqVars, respVars, view, left, chunk_left, ended, bodyTaken,
                     suffixTaken, call, failed>>
  BY TypesApart DEF Core, Standing, Phases, RecvRespPrefix, BeforeResp, Idle
<1>2. PICK plan \in IF pos = 0 THEN {resp} ELSE Misread :
        \/ /\ method = "Head" /\ astray' = TRUE
           /\ UNCHANGED <<state_, body_plan_, body_>>
        \/ /\ method = "Head" => plan.plan = "absent"
           /\ body_plan_' = plan /\ body_' = Fresh /\ state_' = "PrefixReady"
           /\ UNCHANGED astray
  BY DEF RecvRespPrefix
<1>3. cut \in Nat /\ pos \in Nat
  BY LaidHere DEF Core, Standing
<1>4. /\ plan \in [plan : Plans, size : Nat] /\ plan.plan # "none"
      /\ plan.plan # "sized" => plan.size = 0
  <2>1. /\ plan \in [plan : Plans, size : Nat]
        /\ plan.plan # "sized" => plan.size = 0
    BY PlansRead DEF Core, Standing
  <2> QED
    BY <2>1 DEF Plans
<1>5. /\ habits \subseteq habits' /\ habits' \subseteq Habits \cup {"early"}
      /\ InStep' => InStep /\ ~ astray
  BY <1>1, Recorded DEF Core, Standing
<1>6. TypeOK'
  <2>1. TypesSent'
    BY <1>1, <1>2, <1>5 DEF TypesSent, reqVars, SessionStates
  <2>2. TypesRead'
    BY <1>1, <1>3 DEF TypesRead, respVars, PrefixLen
  <2>3. TypesSlot'
    BY <1>1, <1>2, <1>4 DEF TypesSlot
  <2>4. TypesResp'
    BY <1>1, RespKept
  <2> QED
    BY <2>1, <2>2, <2>3, <2>4, TypesApart, PTL
<1>7. Phases'
  <2>1. CASE UNCHANGED <<state_, body_plan_, body_>>
    BY <1>1, <2>1, LayoutKept DEF Core, Standing, Phases, BeforeResp, Reading, reqVars, respVars
  <2>2. CASE body_plan_' = plan /\ body_' = Fresh /\ state_' = "PrefixReady"
    BY <1>1, <1>4, <2>2, LayoutKept
       DEF Core, Standing, Phases, BeforeResp, Reading, reqVars, respVars, Fresh
  <2> QED
    BY <1>2, <2>1, <2>2
<1>8. Requests' /\ HeadIsBare'
  <2>1. Requests'
    BY <1>1, <1>2, <1>5, ReceivingFrame
  <2>2. HeadIsBare'
    BY <1>1, <1>2 DEF Core, Standing, HeadIsBare, Reading, reqVars
  <2> QED
    BY <2>1, <2>2
<1>9. ASSUME InStep' PROVE Responses'
  <2>1. pos = 0 /\ ~ astray
    BY <1>1, <1>5, <1>9 DEF Core, Responses, Placed
  <2>2. plan = resp /\ resp' = resp /\ pos' = PrefixLen
    BY <1>1, <2>1 DEF respVars, PrefixLen
  <2>3. Placed'
    BY <1>1, <1>2, <2>1, <2>2 DEF Placed, BeforeResp, PrefixLen
  <2> QED
    BY <1>1, <1>2, <2>3, QuietFrame DEF BeforeResp
<1> QED
  BY <1>6, <1>7, <1>8, <1>9 DEF Core, Standing

LEMMA StepRecvRespPrefixFails == Core /\ RecvRespPrefixFails => Core'
<1> SUFFICES ASSUME Core, RecvRespPrefixFails PROVE Core'
  OBVIOUS
<1>1. /\ TypesSent /\ TypesRead /\ TypesSlot /\ TypesResp
      /\ BeforeResp /\ state_ # "SendingBody"
      /\ pos' \in pos .. pos + PrefixLen /\ pos' <= cut
      /\ astray' = (astray \/ pos' # pos)
      /\ call = "none" /\ view = "none" /\ bodyTaken = << >>
      /\ Shows(Again)
      /\ UNCHANGED <<reqVars, respVars, view, left, chunk_left, ended, bodyTaken,
                     suffixTaken, state_, call, body_plan_, body_, failed>>
  BY TypesApart DEF Core, Standing, Phases, RecvRespPrefixFails, BeforeResp, Idle
<1>2. cut \in Nat /\ pos \in Nat
  BY LaidHere DEF Core, Standing
<1>3. /\ habits \subseteq habits' /\ habits' \subseteq Habits \cup {"early"}
      /\ InStep' => InStep /\ ~ astray
  BY <1>1, Recorded DEF Core, Standing
<1>4. TypeOK'
  <2>1. TypesSent'
    BY <1>1, <1>3 DEF TypesSent, reqVars
  <2>2. TypesRead'
    BY <1>1, <1>2 DEF TypesRead, respVars, PrefixLen
  <2>3. TypesSlot' /\ TypesResp'
    BY <1>1, RespKept DEF TypesSlot
  <2> QED
    BY <2>1, <2>2, <2>3, TypesApart, PTL
<1>5. Phases'
  BY <1>1, LayoutKept DEF Core, Standing, Phases, BeforeResp, Reading, reqVars, respVars
<1>6. Requests' /\ HeadIsBare'
  <2>1. Requests'
    BY <1>1, <1>3, ReceivingFrame
  <2>2. HeadIsBare'
    BY <1>1 DEF Core, Standing, HeadIsBare, Reading, reqVars
  <2> QED
    BY <2>1, <2>2
<1>7. ASSUME InStep' PROVE Responses'
  <2>1. pos = 0 \/ astray
    BY <1>1, <1>3, <1>7 DEF Core, Responses, Placed
  <2>2. Placed'
    BY <1>1, <2>1 DEF Placed, BeforeResp
  <2> QED
    BY <1>1, <2>2, QuietFrame DEF BeforeResp
<1> QED
  BY <1>4, <1>5, <1>6, <1>7 DEF Core, Standing

(* Which bytes are payload, and which are not.                              *)
LEMMA BodyHere ==
  ASSUME Laid
  PROVE  /\ \A p \in Positions("body") : p \in Nat /\ PrefixLen < p
         /\ resp.plan # "chunked" =>
              \A a, b \in Nat :
                PrefixLen <= a /\ b <= BodyEnd => a + 1 .. b \subseteq Positions("body")
         /\ resp.plan = "chunked" =>
              /\ \A k \in Chunks :
                   Start(k) + 1 \notin Positions("body") /\ Start(k) + 2 \notin Positions("body")
              /\ \A k \in DOMAIN rx.chunks, a, b \in Nat :
                   Start(k) + 2 <= a /\ b <= Start(k + 1)
                     => a + 1 .. b \subseteq Positions("body")
<1>1. /\ BodyEnd \in Nat /\ RxLen \in Nat /\ PrefixLen \in Nat /\ BodyEnd <= RxLen
      /\ resp.plan = "chunked" => \A k \in Chunks : Start(k) + 2 <= BodyEnd
  BY BodyEnds DEF PrefixLen
<1>2. /\ \A k \in Chunks : Start(k) \in Nat /\ Start(k) >= PrefixLen
      /\ \A k \in DOMAIN rx.chunks : k \in Chunks /\ k + 1 \in Chunks
  BY StartsGrow
<1>3. ASSUME NEW p \in Positions("body")
      PROVE  p \in Nat /\ PrefixLen < p
  <2>1. p \in Nat /\ Kind(p) = "body"
    BY <1>1 DEF Positions
  <2> QED
    BY <1>1, <2>1, KindsLaid
<1>4. ASSUME resp.plan # "chunked", NEW a \in Nat, NEW b \in Nat,
             PrefixLen <= a, b <= BodyEnd, NEW p \in a + 1 .. b
      PROVE  p \in Positions("body")
  <2>1. p \in Nat /\ PrefixLen < p /\ p <= BodyEnd /\ p \in 1 .. RxLen
    BY <1>1, <1>4
  <2>2. Kind(p) = "body"
    BY <1>4, <2>1, KindsLaid
  <2> QED
    BY <2>1, <2>2 DEF Positions
<1>5. ASSUME resp.plan = "chunked", NEW k \in Chunks
      PROVE  Start(k) + 1 \notin Positions("body") /\ Start(k) + 2 \notin Positions("body")
  <2>1. Start(k) + 1 \in Nat /\ Start(k) + 2 \in Nat
    BY <1>2
  <2>2. Kind(Start(k) + 1) = "length" /\ Kind(Start(k) + 2) = "length"
    BY <1>5, <2>1, KindsLaid
  <2> QED
    BY <2>2 DEF Positions
<1>6. ASSUME resp.plan = "chunked", NEW k \in DOMAIN rx.chunks, NEW a \in Nat, NEW b \in Nat,
             Start(k) + 2 <= a, b <= Start(k + 1), NEW p \in a + 1 .. b
      PROVE  p \in Positions("body")
  <2>0. Start(k) \in Nat /\ Start(k + 1) \in Nat /\ Start(k + 1) <= BodyEnd
    BY <1>1, <1>2, <1>6
  <2>1. p \in Nat /\ Start(k) + 2 < p /\ p <= Start(k + 1) /\ p \in 1 .. RxLen
    BY <1>1, <1>6, <2>0
  <2>2. Kind(p) = "body"
    BY <1>6, <2>1, KindsLaid
  <2> QED
    BY <2>1, <2>2 DEF Positions
<1> QED
  BY <1>3, <1>4, <1>5, <1>6

LEMMA StepRecvRespBody == Core /\ RecvRespBody => Core'
<1> SUFFICES ASSUME Core, RecvRespBody PROVE Core'
  OBVIOUS
<1>1. /\ TypesSent /\ TypesRead /\ TypesSlot /\ TypesResp
      /\ Laid /\ call = "none" /\ state_ = "PrefixReady" /\ bodyTaken = << >>
      /\ body_plan_.plan # "none"
      /\ state_' = "BodyReady" /\ view' = "view" /\ left' = body_plan_.size
      /\ chunk_left' = 0 /\ ended' = FALSE
      /\ UNCHANGED <<reqVars, respVars, pos, bodyTaken, suffixTaken, call,
                     body_plan_, body_, failed, astray, habits>>
  BY TypesApart, LaidHere DEF Core, Standing, Phases, RecvRespBody, Idle, BeforeResp
<1>2. TypeOK'
  <2>1. TypesSent'
    BY <1>1 DEF TypesSent, reqVars, SessionStates
  <2>2. TypesRead'
    BY <1>1 DEF TypesRead, TypesSlot, respVars
  <2>3. TypesSlot' /\ TypesResp'
    BY <1>1, RespKept DEF TypesSlot
  <2> QED
    BY <2>1, <2>2, <2>3, TypesApart, PTL
<1>3. Phases'
  BY <1>1, LayoutKept DEF Core, Standing, Phases, BeforeResp, Reading, reqVars, respVars
<1>4. Requests' /\ HeadIsBare'
  <2>1. Requests'
    BY <1>1, ReceivingFrame
  <2>2. HeadIsBare'
    BY <1>1 DEF Core, Standing, HeadIsBare, Phases, Reading, reqVars
  <2> QED
    BY <2>1, <2>2
<1>5. ASSUME InStep' PROVE Responses'
  <2>0. pos = PrefixLen /\ ~ astray /\ body_plan_ = resp /\ ~ astray'
    BY <1>1, <1>5 DEF InStep, Core, Responses, Placed, BeforeResp
  <2>1. Placed' /\ InOrder(bodyTaken, "body")'
    BY <1>1, <2>0 DEF Placed, BeforeResp, PrefixLen, InOrder, respVars
  <2>2. /\ \A i \in DOMAIN bodyTaken' : bodyTaken'[i] <= pos'
        /\ \A p \in Positions("body") : ~ (p <= pos')
    BY <1>1, <2>0, BodyHere DEF PrefixLen
  <2>3. ReaderAligned'
    <3>1. CASE resp.plan # "chunked"
      <4>1. pos + resp.size = BodyEnd
        BY <1>1, <2>0, <3>1 DEF BodyEnd
      <4> QED
        BY <1>1, <2>0, <2>2, <3>1, <4>1, LayoutKept DEF ReaderAligned, respVars
    <3>2. CASE resp.plan = "chunked"
      <4>1. 1 \in Chunks
        BY <1>1, PayloadGrows DEF Chunks
      <4>2. Start(1) = PrefixLen /\ pos + 0 = pos /\ Start(1) + 0 = Start(1)
        BY <2>0 DEF Start, Payload, PrefixLen
      <4> QED
        BY <1>1, <2>0, <2>2, <3>2, <4>1, <4>2, LayoutKept DEF ReaderAligned, respVars
    <3> QED
      BY <3>1, <3>2
  <2>4. SlotAligned' /\ SlotNotShort' /\ SuffixBegins'
    BY <1>1 DEF SlotAligned, SlotNotShort, SuffixBegins
  <2> QED
    BY <2>1, <2>3, <2>4 DEF Responses
<1> QED
  BY <1>2, <1>3, <1>4, <1>5 DEF Core, Standing

LEMMA StepReadLimited == Core /\ ReadLimited => Core'
<1> SUFFICES ASSUME Core, ReadLimited PROVE Core'
  OBVIOUS
<1>1. /\ Reading /\ Reading' /\ body_plan_.plan # "chunked"
      /\ UNCHANGED <<reqVars, respVars, view, chunk_left, ended, suffixTaken, sessVars>>
  BY DEF ReadLimited, Reading
<1>2. PICK m \in 1 .. left : /\ pos + m <= cut
                             /\ bodyTaken' = Take(bodyTaken, m)
                             /\ left' = left - m
                             /\ pos' = pos + m
  BY DEF ReadLimited
<1>3. /\ Laid /\ pos \in Nat /\ cut \in Nat /\ left \in Nat /\ BodyEnd \in Nat
      /\ bodyTaken \in Seq(1 .. cut) /\ chunk_left \in Nat /\ ended \in BOOLEAN
      /\ astray \in BOOLEAN /\ habits \subseteq Habits \cup {"early"}
  BY LaidHere, BodyEnds DEF Core, Standing, TypeOK
<1>4. m \in Nat /\ m # 0 /\ pos + m \in Nat /\ pos' \in pos .. cut /\ left' \in Nat
  BY <1>2, <1>3
<1>5. bodyTaken' \in Seq(1 .. cut)
  BY <1>2, <1>3, <1>4, TakenInRange
<1>6. method # "Head"
  BY <1>1, <1>2, <1>3, <1>4, ReadingIs
<1>7. ASSUME InStep'
      PROVE  /\ ReaderAligned' /\ InOrder(bodyTaken, "body")'
             /\ body_plan_.plan = "chunked" /\ ended => ended' /\ pos' = pos
  <2>1. InStep /\ Responses /\ resp.plan # "chunked" /\ PrefixLen <= pos /\ ~ astray
    BY <1>1, <1>7, ReadingIs DEF InStep, Core, Responses, ReaderAligned, sessVars
  <2>2. UpTo(bodyTaken, "body", pos) /\ pos + left = BodyEnd
    BY <1>1, <2>1 DEF Responses, ReaderAligned, UpTo
  <2>3. pos + m <= BodyEnd /\ pos' + left' = BodyEnd
    BY <1>2, <1>3, <1>4, <2>2
  <2>4. pos + 1 .. pos + m \subseteq Positions("body")
    BY <1>3, <1>4, <2>1, <2>3, BodyHere
  <2>5. UpTo(bodyTaken', "body", pos')
    BY <1>2, <1>3, <1>4, <2>2, <2>4, InOrderGrows
  <2>6. InOrder(bodyTaken, "body")'
    BY <1>1, <2>5, LayoutKept DEF UpTo, InOrder, respVars
  <2>7. ReaderAligned'
    BY <1>1, <2>1, <2>3, <2>5, LayoutKept DEF ReaderAligned, UpTo, respVars, sessVars, ctlVars
  <2> QED
    BY <1>1, <2>6, <2>7
<1> QED
  BY <1>1, <1>3, <1>4, <1>5, <1>6, <1>7, ReadingFrame DEF sessVars, ctlVars

(* Where a reader of chunks stands.                                         *)
LEMMA ChunkReaderIs ==
  ASSUME Core, InStep, Reading, body_plan_.plan = "chunked"
  PROVE  /\ resp.plan = "chunked"
         /\ astray => ~ ended /\ chunk_left = 0
         /\ ended => pos = BodyEnd /\ chunk_left = 0
         /\ ~ ended /\ chunk_left = 0 =>
              \E k \in Chunks : pos = Start(k) + IF astray THEN 1 ELSE 0
         /\ ~ ended /\ chunk_left # 0 =>
              \E k \in DOMAIN rx.chunks :
                Start(k) + 2 <= pos /\ pos + chunk_left = Start(k + 1)
BY ReadingIs DEF Core, Responses, ReaderAligned

(* Inside a chunk's length nothing is handed out.                           *)
LEMMA LengthIsNotBody ==
  ASSUME Laid, resp.plan = "chunked", NEW k \in Chunks, NEW n \in {1, 2}, pos = Start(k),
         cut \in Nat, bodyTaken \in Seq(1 .. cut), UpTo(bodyTaken, "body", pos)
  PROVE  UpTo(bodyTaken, "body", pos + n)
<1>1. pos \in Nat
  BY StartsGrow
<1>2. \A i \in DOMAIN bodyTaken : bodyTaken[i] <= pos + n
  <2>1. \A i \in DOMAIN bodyTaken : bodyTaken[i] <= pos /\ bodyTaken[i] \in Nat
    BY DEF UpTo
  <2> QED
    BY <1>1, <2>1
<1>3. pos + 1 \notin Positions("body") /\ pos + 2 \notin Positions("body")
  BY <1>1, BodyHere
<1>4. ASSUME NEW p \in Positions("body"), p <= pos + n
      PROVE  \E i \in DOMAIN bodyTaken : bodyTaken[i] = p
  <2>1. p \in Nat /\ p # pos + 1 /\ p # pos + 2
    BY <1>1, <1>3, <1>4, BodyHere
  <2>2. p <= pos
    BY <1>1, <1>4, <2>1
  <2> QED
    BY <1>4, <2>2 DEF UpTo
<1> QED
  BY <1>2, <1>4 DEF UpTo

LEMMA StepReadChunkLength == Core /\ ReadChunkLength => Core'
<1> SUFFICES ASSUME Core, ReadChunkLength PROVE Core'
  OBVIOUS
<1>1. /\ Reading /\ Reading' /\ body_plan_.plan = "chunked" /\ ~ ended /\ chunk_left = 0
      /\ pos + 2 <= cut /\ pos' = pos + 2
      /\ chunk_left' \in LengthsHere /\ ended' = (chunk_left' = 0)
      /\ Shows(Again)
      /\ UNCHANGED <<reqVars, respVars, view, left, bodyTaken, suffixTaken, ctlVars>>
  BY DEF ReadChunkLength, ReadLength, Reading
<1>2. /\ Laid /\ pos \in Nat /\ cut \in Nat /\ left \in Nat
      /\ bodyTaken \in Seq(1 .. cut) /\ astray \in BOOLEAN
  BY LaidHere DEF Core, Standing, TypeOK
<1>3. /\ habits \subseteq habits' /\ habits' \subseteq Habits \cup {"early"}
      /\ InStep' => InStep /\ ~ astray
  BY <1>1, Recorded DEF Core, Standing
<1>4. /\ pos' \in pos .. cut /\ pos' \in Nat
      /\ chunk_left' \in Nat /\ ended' \in BOOLEAN
  <2>1. chunk_left' \in Nat
    BY <1>1, <1>2, LengthsLaid
  <2> QED
    BY <1>1, <1>2, <2>1
<1>5. ASSUME InStep'
      PROVE  /\ ReaderAligned' /\ InOrder(bodyTaken, "body")'
             /\ body_plan_.plan = "chunked" /\ ended => ended' /\ pos' = pos
  <2>1. InStep /\ Responses /\ ~ astray
    BY <1>3, <1>5 DEF Core
  <2>2. resp.plan = "chunked" /\ UpTo(bodyTaken, "body", pos)
    BY <1>1, <2>1, ChunkReaderIs DEF Responses, ReaderAligned, UpTo
  <2>3. PICK k \in Chunks : pos = Start(k)
    <3>1. \E k \in Chunks : pos = Start(k) + 0
      BY <1>1, <2>1, ChunkReaderIs
    <3>2. \A k \in Chunks : Start(k) + 0 = Start(k)
      BY <1>2, StartsGrow
    <3> QED
      BY <3>1, <3>2
  <2>4. chunk_left' = ChunkLen(k)
    BY <1>1, <1>2, <2>2, <2>3, LengthsLaid
  <2>5. UpTo(bodyTaken, "body", pos')
    BY <1>1, <1>2, <2>2, <2>3, LengthIsNotBody
  <2>6. InOrder(bodyTaken, "body")'
    BY <1>1, <2>2, LayoutKept DEF UpTo, InOrder, respVars
  <2>7. IF ended' THEN pos' = BodyEnd /\ chunk_left' = 0
        ELSE /\ chunk_left' # 0
             /\ \E j \in DOMAIN rx.chunks :
                  Start(j) + 2 <= pos' /\ pos' + chunk_left' = Start(j + 1)
    <3>1. CASE k = Terminator
      BY <1>1, <1>2, <2>2, <2>3, <2>4, <3>1, StartsGrow, BodyEnds
    <3>2. CASE k \in DOMAIN rx.chunks
      <4>1. /\ ChunkLen(k) \in Nat \ {0} /\ Start(k + 1) = Start(k) + 2 + ChunkLen(k)
            /\ Start(k) \in Nat
        BY <1>2, <3>2, StartsGrow
      <4>2. chunk_left' # 0 /\ pos' = Start(k) + 2
        BY <1>1, <2>3, <2>4, <4>1
      <4>3. ~ ended'
        BY <1>1, <4>2
      <4>4. Start(k) + 2 <= pos' /\ pos' + chunk_left' = Start(k + 1)
        BY <2>4, <4>1, <4>2
      <4> QED
        BY <3>2, <4>2, <4>3, <4>4
    <3> QED
      BY <1>2, <3>1, <3>2, StartsGrow
  <2>8. ReaderAligned'
    BY <1>1, <2>1, <2>5, <2>7, LayoutKept DEF ReaderAligned, UpTo, respVars, ctlVars
  <2> QED
    BY <1>1, <2>6, <2>8
<1>6. method = "Head" => left' = 0 /\ bodyTaken' = << >>
  BY <1>1, ReadingIs
<1> QED
  BY <1>1, <1>2, <1>3, <1>4, <1>5, <1>6, ReadingFrame DEF ctlVars

LEMMA StepReadChunkLengthFails == Core /\ ReadChunkLengthFails => Core'
<1> SUFFICES ASSUME Core, ReadChunkLengthFails PROVE Core'
  OBVIOUS
<1>1. /\ Reading /\ Reading' /\ body_plan_.plan = "chunked" /\ ~ ended /\ chunk_left = 0
      /\ pos' \in pos .. pos + 1 /\ pos' <= cut
      /\ astray' = (astray \/ pos' # pos)
      /\ Shows(Again)
      /\ UNCHANGED <<reqVars, respVars, view, left, chunk_left, ended, bodyTaken,
                     suffixTaken, state_, call, body_plan_, body_, failed>>
  BY DEF ReadChunkLengthFails, Reading
<1>2. /\ Laid /\ pos \in Nat /\ cut \in Nat /\ left \in Nat /\ chunk_left \in Nat
      /\ bodyTaken \in Seq(1 .. cut) /\ ended \in BOOLEAN
  BY LaidHere DEF Core, Standing, TypeOK
<1>3. /\ habits \subseteq habits' /\ habits' \subseteq Habits \cup {"early"}
      /\ InStep' => InStep /\ ~ astray
  BY <1>1, Recorded DEF Core, Standing
<1>4. pos' \in pos .. cut /\ (pos' = pos \/ pos' = pos + 1) /\ astray' \in BOOLEAN
  BY <1>1, <1>2
<1>5. ASSUME InStep'
      PROVE  /\ ReaderAligned' /\ InOrder(bodyTaken, "body")'
             /\ body_plan_.plan = "chunked" /\ ended => ended' /\ pos' = pos
  <2>1. InStep /\ Responses /\ ~ astray
    BY <1>3, <1>5 DEF Core
  <2>2. resp.plan = "chunked" /\ UpTo(bodyTaken, "body", pos)
    BY <1>1, <2>1, ChunkReaderIs DEF Responses, ReaderAligned, UpTo
  <2>3. PICK k \in Chunks : pos = Start(k)
    <3>1. \E k \in Chunks : pos = Start(k) + 0
      BY <1>1, <2>1, ChunkReaderIs
    <3>2. \A k \in Chunks : Start(k) + 0 = Start(k)
      BY <1>2, StartsGrow
    <3> QED
      BY <3>1, <3>2
  <2>4. UpTo(bodyTaken, "body", pos')
    <3>1. UpTo(bodyTaken, "body", pos + 1)
      BY <1>2, <2>2, <2>3, LengthIsNotBody
    <3> QED
      BY <1>4, <2>2, <3>1
  <2>5. pos' = Start(k) + IF astray' THEN 1 ELSE 0
    <3>1. CASE pos' = pos
      <4>1. Start(k) = Start(k) + 0
        BY <1>2, StartsGrow
      <4> QED
        BY <1>1, <2>1, <2>3, <3>1, <4>1
    <3>2. CASE pos' = pos + 1
      <4>1. pos' # pos
        BY <1>2, <3>2
      <4>2. astray'
        BY <1>1, <4>1
      <4> QED
        BY <2>3, <3>2, <4>2
    <3> QED
      BY <1>4, <3>1, <3>2
  <2>6. InOrder(bodyTaken, "body")'
    BY <1>1, <2>2, LayoutKept DEF UpTo, InOrder, respVars
  <2>7. ReaderAligned'
    BY <1>1, <2>4, <2>5, LayoutKept DEF ReaderAligned, UpTo, respVars
  <2> QED
    BY <1>1, <2>6, <2>7
<1>6. method = "Head" => left' = 0 /\ bodyTaken' = << >>
  BY <1>1, ReadingIs
<1> QED
  BY <1>1, <1>2, <1>3, <1>4, <1>5, <1>6, ReadingFrame

LEMMA StepReadChunk == Core /\ ReadChunk => Core'
<1> SUFFICES ASSUME Core, ReadChunk PROVE Core'
  OBVIOUS
<1>1. /\ Reading /\ Reading' /\ body_plan_.plan = "chunked"
      /\ UNCHANGED <<reqVars, respVars, view, left, ended, suffixTaken, sessVars>>
  BY DEF ReadChunk, Reading
<1>2. PICK m \in 1 .. chunk_left : /\ pos + m <= cut
                                   /\ bodyTaken' = Take(bodyTaken, m)
                                   /\ chunk_left' = chunk_left - m
                                   /\ pos' = pos + m
  BY DEF ReadChunk
<1>3. /\ Laid /\ pos \in Nat /\ cut \in Nat /\ left \in Nat /\ chunk_left \in Nat
      /\ bodyTaken \in Seq(1 .. cut) /\ ended \in BOOLEAN
      /\ astray \in BOOLEAN /\ habits \subseteq Habits \cup {"early"}
  BY LaidHere DEF Core, Standing, TypeOK
<1>4. /\ chunk_left # 0 /\ m \in Nat /\ pos + m \in Nat /\ chunk_left' \in Nat
      /\ pos' \in pos .. cut
  BY <1>2, <1>3
<1>5. bodyTaken' \in Seq(1 .. cut)
  BY <1>2, <1>3, <1>4, TakenInRange
<1>6. method # "Head"
  BY <1>1, ReadingIs
<1>7. ASSUME InStep'
      PROVE  /\ ReaderAligned' /\ InOrder(bodyTaken, "body")'
             /\ body_plan_.plan = "chunked" /\ ended => ended' /\ pos' = pos
  <2>1. InStep /\ Responses
    BY <1>1, <1>7 DEF InStep, Core, sessVars
  <2>2. ~ ended /\ resp.plan = "chunked" /\ ~ astray
    BY <1>1, <1>4, <2>1, ChunkReaderIs
  <2>3. UpTo(bodyTaken, "body", pos)
    BY <1>1, <2>1 DEF Responses, ReaderAligned, UpTo
  <2>4. PICK k \in DOMAIN rx.chunks :
          Start(k) + 2 <= pos /\ pos + chunk_left = Start(k + 1)
    BY <1>1, <1>4, <2>1, <2>2, ChunkReaderIs
  <2>5. /\ k + 1 \in Chunks /\ Start(k) \in Nat /\ Start(k + 1) \in Nat
    BY <1>3, StartsGrow
  <2>6. pos + m <= Start(k + 1)
    BY <1>2, <1>3, <2>4
  <2>7. pos + 1 .. pos + m \subseteq Positions("body")
    BY <1>3, <1>4, <2>2, <2>4, <2>5, <2>6, BodyHere
  <2>8. UpTo(bodyTaken', "body", pos')
    BY <1>2, <1>3, <1>4, <2>3, <2>7, InOrderGrows
  <2>9. Start(k) + 2 <= pos' /\ pos' + chunk_left' = Start(k + 1)
    BY <1>2, <1>3, <2>4, <2>5
  <2>10. InOrder(bodyTaken, "body")'
    BY <1>1, <2>8, LayoutKept DEF UpTo, InOrder, respVars
  <2>11. IF chunk_left' = 0 THEN \E j \in Chunks : pos' = Start(j) + 0
         ELSE \E j \in DOMAIN rx.chunks :
                Start(j) + 2 <= pos' /\ pos' + chunk_left' = Start(j + 1)
    <3>1. CASE chunk_left' = 0
      <4>1. pos' = Start(k + 1) + 0
        BY <1>2, <1>4, <2>5, <2>9, <3>1
      <4> QED
        BY <2>5, <3>1, <4>1
    <3>2. CASE chunk_left' # 0
      BY <2>9, <3>2
    <3> QED
      BY <3>1, <3>2
  <2>12. ReaderAligned'
    BY <1>1, <2>2, <2>8, <2>11, LayoutKept
       DEF ReaderAligned, UpTo, respVars, sessVars, ctlVars
  <2> QED
    BY <2>2, <2>10, <2>12
<1> QED
  BY <1>1, <1>3, <1>4, <1>5, <1>6, <1>7, ReadingFrame DEF sessVars, ctlVars

(* The view goes: put back, or turned into a reader.                        *)
LEMMA LeavingFrame ==
  ASSUME Core, Reading,
         UNCHANGED <<reqVars, respVars, pos, left, chunk_left, ended, bodyTaken,
                     suffixTaken, state_, call, body_plan_, failed, astray>>,
         body_' \in {body_, Progress},
         view' \in {"none", "taken"},
         habits \subseteq habits', habits' \subseteq Habits \cup {"early"}
  PROVE  /\ Standing'
         /\ InStep' => InStep /\ Responses /\ Placed' /\ InOrder(bodyTaken, "body")'
<1>1. /\ TypesSent /\ TypesRead /\ TypesSlot /\ TypesResp
  BY TypesApart DEF Core, Standing
<1>2. /\ state_ = "BodyReady" /\ call = "none" /\ suffixTaken = << >>
  BY ReadingIs
<1>3. TypeOK'
  <2>1. TypesSent'
    BY <1>1 DEF TypesSent, reqVars
  <2>2. TypesRead'
    BY <1>1 DEF TypesRead, respVars
  <2>3. TypesSlot'
    BY <1>1 DEF TypesSlot, TypesRead, Progress
  <2>4. TypesResp'
    BY <1>1, RespKept
  <2> QED
    BY <2>1, <2>2, <2>3, <2>4, TypesApart, PTL
<1>4. Phases'
  BY <1>2, LayoutKept DEF Core, Standing, Phases, Reading, BeforeResp, reqVars, respVars
<1>5. Requests' /\ HeadIsBare'
  <2>1. Requests'
    BY <1>2, ReceivingFrame
  <2>2. HeadIsBare'
    BY DEF Core, Standing, HeadIsBare, reqVars
  <2> QED
    BY <2>1, <2>2
<1>6. ASSUME InStep'
      PROVE  InStep /\ Responses /\ Placed' /\ InOrder(bodyTaken, "body")'
  <2>1. InStep /\ Responses
    BY <1>6 DEF InStep, Core
  <2>2. Placed'
    BY <1>2, <2>1 DEF Responses, Placed, BeforeResp, respVars
  <2>3. InOrder(bodyTaken, "body")'
    BY <2>1, LayoutKept DEF Responses, InOrder, respVars
  <2> QED
    BY <2>1, <2>2, <2>3
<1> QED
  BY <1>3, <1>4, <1>5, <1>6 DEF Standing

LEMMA StepViewDrop == Core /\ ViewDrop => Core'
<1> SUFFICES ASSUME Core, ViewDrop PROVE Core'
  OBVIOUS
<1>1. /\ view = "view" /\ Reading /\ body_' = Progress /\ view' = "none"
      /\ habits' = IF Finished THEN habits ELSE habits \cup {"early"}
      /\ UNCHANGED <<reqVars, respVars, pos, left, chunk_left, ended, bodyTaken,
                     suffixTaken, state_, call, body_plan_, failed, astray>>
  BY DEF ViewDrop, LeaveBody, Reading
<1>2. /\ pos \in Nat /\ Laid
      /\ habits \subseteq Habits \cup {"early"} /\ ended \in BOOLEAN
      /\ left \in Nat /\ chunk_left \in Nat
  BY LaidHere DEF Core, Standing, TypeOK
<1>3. /\ Standing'
      /\ InStep' => InStep /\ Responses /\ Placed' /\ InOrder(bodyTaken, "body")'
  <2>1. habits \subseteq habits' /\ habits' \subseteq Habits \cup {"early"}
    BY <1>1, <1>2
  <2> QED
    BY <1>1, <2>1, LeavingFrame
<1>4. ReaderAligned'
  BY <1>1 DEF ReaderAligned, Reading
<1>5. BodyEnd' = BodyEnd /\ BodyEnd \in Nat /\ call' = "none" /\ state_' = "BodyReady"
  BY <1>1, <1>2, LayoutKept, ReadingIs, BodyEnds DEF respVars
<1>6. ASSUME InStep' PROVE SlotAligned' /\ SlotNotShort' /\ SuffixBegins'
  <2>0. InStep /\ Responses
    BY <1>3, <1>6
  <2>1. CASE body_plan_.plan # "chunked"
    <3>1. pos + left = BodyEnd /\ body_' = [kind |-> "Sized", left |-> left] /\ ~ astray
      BY <1>1, <2>0, <2>1 DEF Responses, ReaderAligned, Progress
    <3>2. SlotAligned' /\ SlotNotShort'
      BY <1>1, <1>2, <1>5, <2>1, <3>1 DEF SlotAligned, SlotNotShort
    <3>3. ByTheBook' => left = 0
      BY <1>1, <2>1 DEF ByTheBook, Finished
    <3>4. left = 0 => pos = BodyEnd
      BY <1>2, <3>1
    <3>5. SuffixBegins'
      BY <1>1, <1>5, <3>3, <3>4 DEF SuffixBegins
    <3> QED
      BY <3>2, <3>5
  <2>2. CASE body_plan_.plan = "chunked"
    <3>1. body_' = [kind |-> "Chunked", ended |-> ended]
      BY <1>1, <2>2 DEF Progress
    <3>2. ended => pos = BodyEnd
      BY <1>1, <2>0, <2>2, ChunkReaderIs
    <3>3. ASSUME ~ ended
          PROVE  pos < BodyEnd /\ (~ astray => pos + 2 <= BodyEnd)
      <4>1. CASE chunk_left = 0
        <5>1. PICK k \in Chunks : pos = Start(k) + IF astray THEN 1 ELSE 0
          BY <1>1, <2>0, <2>2, <3>3, <4>1, ChunkReaderIs
        <5>2. Start(k) \in Nat /\ Start(k) + 2 <= BodyEnd
          BY <1>1, <1>2, <2>0, <2>2, ChunkReaderIs, StartsGrow, BodyEnds
        <5> QED
          BY <1>5, <5>1, <5>2
      <4>2. CASE chunk_left # 0
        <5>1. PICK k \in DOMAIN rx.chunks : pos + chunk_left = Start(k + 1)
          BY <1>1, <2>0, <2>2, <3>3, <4>2, ChunkReaderIs
        <5>2. Start(k + 1) \in Nat /\ Start(k + 1) + 2 <= BodyEnd
          BY <1>1, <1>2, <2>0, <2>2, ChunkReaderIs, StartsGrow, BodyEnds
        <5> QED
          BY <1>2, <1>5, <5>1, <5>2
      <4> QED
        BY <4>1, <4>2
    <3>4. SlotAligned' /\ SlotNotShort'
      BY <1>1, <1>5, <2>2, <3>1, <3>2, <3>3 DEF SlotAligned, SlotNotShort
    <3>5. ByTheBook' => ended
      BY <1>1, <2>2 DEF ByTheBook, Finished
    <3>6. SuffixBegins'
      BY <1>1, <1>5, <3>2, <3>5 DEF SuffixBegins
    <3> QED
      BY <3>4, <3>6
  <2> QED
    BY <2>1, <2>2
<1> QED
  BY <1>3, <1>4, <1>6 DEF Core, Responses

LEMMA StepTakenDrop == Core /\ TakenDrop => Core'
<1> SUFFICES ASSUME Core, TakenDrop PROVE Core'
  OBVIOUS
<1>1. /\ view = "taken" /\ Reading /\ body_' = body_ /\ view' = "none"
      /\ habits' = IF Finished THEN habits ELSE habits \cup {"early"}
      /\ UNCHANGED <<reqVars, respVars, pos, left, chunk_left, ended, bodyTaken,
                     suffixTaken, state_, call, body_plan_, failed, astray>>
  BY DEF TakenDrop, LeaveBody, Reading
<1>2. habits \subseteq habits' /\ habits' \subseteq Habits \cup {"early"}
  BY <1>1 DEF Core, Standing, TypeOK
<1>3. /\ Standing'
      /\ InStep' => InStep /\ Responses /\ Placed' /\ InOrder(bodyTaken, "body")'
  BY <1>1, <1>2, LeavingFrame
<1>4. ASSUME InStep'
      PROVE  ReaderAligned' /\ SlotAligned' /\ SlotNotShort' /\ SuffixBegins'
  <2>1. "take" \in habits'
    BY <1>1, <1>2, <1>3, <1>4 DEF Responses, SlotAligned
  <2>2. SlotNotShort'
    BY <1>1, <1>3, <1>4, LayoutKept, ReadingIs DEF Responses, SlotNotShort, respVars
  <2> QED
    BY <1>1, <2>1, <2>2 DEF ReaderAligned, Reading, SlotAligned, SuffixBegins, ByTheBook
<1> QED
  BY <1>3, <1>4 DEF Core, Responses

LEMMA StepTryInto == Core /\ TryInto => Core'
<1> SUFFICES ASSUME Core, TryInto PROVE Core'
  OBVIOUS
<1>1. /\ view = "view" /\ Reading /\ Reading' /\ body_' = Progress /\ view' = "taken"
      /\ "take" \in Habits /\ habits' = habits \cup {"take"}
      /\ UNCHANGED <<reqVars, respVars, pos, left, chunk_left, ended, bodyTaken,
                     suffixTaken, state_, call, body_plan_, failed, astray>>
  BY DEF TryInto, Reading, Shows
<1>2. habits \subseteq habits' /\ habits' \subseteq Habits \cup {"early"}
  BY <1>1 DEF Core, Standing, TypeOK
<1>3. /\ Standing'
      /\ InStep' => InStep /\ Responses /\ Placed' /\ InOrder(bodyTaken, "body")'
  BY <1>1, <1>2, LeavingFrame
<1>4. ASSUME InStep' PROVE ReaderAligned'
  BY <1>1, <1>3, <1>4, LayoutKept DEF Responses, ReaderAligned, respVars
<1>5. SlotAligned' /\ SuffixBegins'
  BY <1>1 DEF SlotAligned, SuffixBegins, ByTheBook
<1>6. ASSUME InStep' PROVE SlotNotShort'
  <2>1. InStep /\ BodyEnd' = BodyEnd /\ BodyEnd \in Nat
    BY <1>1, <1>3, <1>6, LaidHere, LayoutKept, BodyEnds DEF Core, Standing, respVars
  <2>2. CASE body_plan_.plan = "chunked"
    <3>1. body_' = [kind |-> "Chunked", ended |-> ended]
      BY <1>1, <2>2 DEF Progress
    <3>2. ended => pos = BodyEnd
      BY <1>1, <2>1, <2>2, ChunkReaderIs
    <3> QED
      BY <1>1, <2>1, <2>2, <3>1, <3>2 DEF SlotNotShort
  <2>3. CASE body_plan_.plan # "chunked"
    <3>1. pos + left = BodyEnd /\ body_' = [kind |-> "Sized", left |-> left]
      BY <1>1, <1>3, <1>6, <2>3 DEF Responses, ReaderAligned, Progress
    <3> QED
      BY <1>1, <2>1, <2>3, <3>1 DEF SlotNotShort
  <2> QED
    BY <2>2, <2>3
<1> QED
  BY <1>3, <1>4, <1>5, <1>6 DEF Core, Responses

(* A drain: what it stands on, and what it cannot touch.                    *)
LEMMA DrainIs ==
  ASSUME Core, call = "drain"
  PROVE  /\ view = "none" /\ suffixTaken = << >>
         /\ state_ \in {"PrefixReady", "BodyReady"} /\ body_plan_.plan # "none"
         /\ state_ = "PrefixReady" => body_ = Fresh /\ bodyTaken = << >>
         /\ InStep => body_plan_ = resp /\ PrefixLen <= pos /\ ~ astray
         /\ InStep /\ state_ = "PrefixReady" => pos = PrefixLen
BY DEF Core, Standing, Phases, Reading, BeforeResp, Responses, Placed

(* With nobody reading the body, what a Head gets stays as it was, and so   *)
(* does what has been read.                                                 *)
LEMMA UnreadFrame ==
  ASSUME Core, ~ Reading', UNCHANGED <<method, respVars, body_plan_, bodyTaken>>,
         habits \subseteq habits'
  PROVE  /\ HeadIsBare'
         /\ InStep' => /\ InStep /\ Responses
                       /\ InOrder(bodyTaken, "body")' /\ ReaderAligned'
<1>1. HeadIsBare'
  BY DEF Core, Standing, HeadIsBare
<1>2. InStep' => InStep /\ Responses
  BY DEF InStep, Core
<1>3. Responses => InOrder(bodyTaken, "body")'
  BY LayoutKept DEF Responses, InOrder, respVars
<1>4. ReaderAligned'
  BY DEF ReaderAligned
<1> QED
  BY <1>1, <1>2, <1>3, <1>4

LEMMA StepRecvRespSuffix == Core /\ RecvRespSuffix => Core'
<1> SUFFICES ASSUME Core, RecvRespSuffix PROVE Core'
  OBVIOUS
<1>1. /\ TypesSent /\ TypesRead /\ TypesSlot /\ TypesResp
      /\ call = "none" /\ view = "none"
      /\ state_ \in {"PrefixReady", "BodyReady"} /\ call' = "drain"
      /\ left' = IF body_.kind = "Sized" THEN body_.left ELSE 0
      /\ ended' = IF body_.kind = "Chunked" THEN body_.ended ELSE FALSE
      /\ chunk_left' = 0
      /\ UNCHANGED <<reqVars, respVars, pos, view, bodyTaken, suffixTaken, state_,
                     body_plan_, body_, failed, astray>>
  BY TypesApart DEF Core, Standing, RecvRespSuffix, Idle
<1>2. /\ habits \subseteq habits' /\ habits' \subseteq Habits \cup {"early"}
      /\ InStep' => ~ astray
      /\ state_ = "PrefixReady" /\ body_plan_.plan # "absent" => "skip" \in habits'
  BY <1>1 DEF RecvRespSuffix, Shows, Again, InStep, TypesSent
<1>3. TypeOK'
  <2>1. TypesSent'
    BY <1>1, <1>2 DEF TypesSent, reqVars, Calls
  <2>2. left' \in Nat /\ ended' \in BOOLEAN
    <3>1. /\ body_.kind = "Sized" => body_.left \in Nat
          /\ body_.kind = "Chunked" => body_.ended \in BOOLEAN
      BY <1>1 DEF TypesSlot, Fresh
    <3>2. left' \in Nat
      BY <1>1, <3>1
    <3>3. ended' \in BOOLEAN
      BY <1>1, <3>1
    <3> QED
      BY <3>2, <3>3
  <2>3. TypesRead'
    BY <1>1, <2>2 DEF TypesRead, respVars
  <2>4. TypesSlot' /\ TypesResp'
    BY <1>1, RespKept DEF TypesSlot
  <2> QED
    BY <2>1, <2>3, <2>4, TypesApart, PTL
<1>4. Phases'
  BY <1>1, LayoutKept DEF Core, Standing, Phases, Reading, BeforeResp, reqVars, respVars
<1>5. Requests'
  BY <1>1, <1>2, ReceivingFrame
<1>6. /\ HeadIsBare'
      /\ InStep' => /\ InStep /\ Responses
                    /\ InOrder(bodyTaken, "body")' /\ ReaderAligned'
  BY <1>1, <1>2, UnreadFrame DEF Reading, reqVars
<1>7. BodyEnd' = BodyEnd /\ BodyEnd \in Nat /\ pos \in Nat
  BY <1>1, LaidHere, BodyEnds, LayoutKept DEF Core, Standing, respVars
<1>8. ASSUME InStep' PROVE Placed' /\ SlotAligned' /\ SlotNotShort' /\ SuffixBegins'
  <2>0. InStep /\ Responses /\ ~ astray
    BY <1>2, <1>6, <1>8
  <2>s. SlotNotShort'
    BY <1>1, <1>7, <2>0 DEF Responses, SlotNotShort
  <2>1. Placed'
    BY <1>1, <2>0 DEF Responses, Placed, BeforeResp, respVars
  <2>2. CASE "take" \in habits'
    <3>1. SlotAligned'
      BY <1>1, <2>2 DEF SlotAligned
    <3> QED
      BY <1>1, <2>1, <2>2, <2>s, <3>1 DEF SuffixBegins, ByTheBook
  <2>3. CASE "take" \notin habits'
    <3>1. SlotAligned'
      <4>1. CASE state_ = "BodyReady"
        <5>1. IF body_plan_.plan # "chunked"
              THEN body_.kind = "Sized" /\ pos + body_.left = BodyEnd
              ELSE /\ body_.kind = "Chunked"
                   /\ body_.ended => pos = BodyEnd
                   /\ ~ body_.ended => pos < BodyEnd /\ pos + 2 <= BodyEnd
          BY <1>1, <1>2, <2>0, <2>3, <4>1 DEF Responses, SlotAligned
        <5>2. CASE body_plan_.plan # "chunked"
          BY <1>1, <1>7, <2>0, <4>1, <5>1, <5>2 DEF SlotAligned
        <5>3. CASE body_plan_.plan = "chunked"
          BY <1>1, <1>7, <2>0, <4>1, <5>1, <5>3 DEF SlotAligned
        <5> QED
          BY <5>2, <5>3
      <4>2. CASE state_ = "PrefixReady"
        BY <1>1, <4>2 DEF SlotAligned
      <4> QED
        BY <1>1, <4>1, <4>2
    <3>2. SuffixBegins'
      <4>1. ByTheBook' => ByTheBook /\ "skip" \notin habits'
        BY <1>2 DEF ByTheBook
      <4>2. body_plan_ = resp /\ resp' = resp
        BY <1>1, <2>0 DEF Responses, Placed, BeforeResp, respVars
      <4> QED
        BY <1>1, <1>2, <1>7, <2>0, <4>1, <4>2 DEF Responses, SuffixBegins
    <3> QED
      BY <2>1, <2>s, <3>1, <3>2
  <2> QED
    BY <2>2, <2>3
<1> QED
  BY <1>3, <1>4, <1>5, <1>6, <1>8 DEF Core, Standing, Responses

LEMMA StepDrainChunkLength == Core /\ DrainChunkLength => Core'
<1> SUFFICES ASSUME Core, DrainChunkLength PROVE Core'
  OBVIOUS
<1>1. /\ TypesSent /\ TypesRead /\ TypesSlot /\ TypesResp
      /\ call = "drain" /\ body_.kind = "Chunked" /\ ~ ended /\ chunk_left = 0
      /\ pos + 2 <= cut /\ pos' = pos + 2
      /\ chunk_left' \in LengthsHere /\ ended' = (chunk_left' = 0)
      /\ UNCHANGED <<reqVars, respVars, view, left, bodyTaken, suffixTaken, sessVars>>
  BY TypesApart DEF Core, Standing, DrainChunkLength, ReadLength, sessVars
<1>2. view = "none" /\ state_ = "BodyReady"
  BY <1>1, DrainIs DEF Fresh
<1>3. Laid /\ pos \in Nat /\ cut \in Nat /\ BodyEnd \in Nat
  BY LaidHere, BodyEnds DEF Core, Standing
<1>4. chunk_left' \in Nat /\ ended' \in BOOLEAN /\ pos' \in 0 .. cut
  <2>1. chunk_left' \in Nat
    BY <1>1, <1>3, LengthsLaid
  <2> QED
    BY <1>1, <1>3, <2>1
<1>5. TypeOK'
  <2>1. TypesSent' /\ TypesSlot' /\ TypesResp'
    BY <1>1, RespKept DEF TypesSent, TypesSlot, reqVars, sessVars, ctlVars
  <2>2. TypesRead'
    BY <1>1, <1>4 DEF TypesRead, respVars
  <2> QED
    BY <2>1, <2>2, TypesApart, PTL
<1>6. Phases'
  BY <1>1, <1>2, LayoutKept
     DEF Core, Standing, Phases, Reading, BeforeResp, reqVars, respVars, sessVars, ctlVars
<1>7. Requests'
  BY <1>1, <1>2, ReceivingFrame DEF sessVars, ctlVars
<1>8. /\ HeadIsBare'
      /\ InStep' => /\ InStep /\ Responses
                    /\ InOrder(bodyTaken, "body")' /\ ReaderAligned'
  BY <1>1, <1>2, UnreadFrame DEF Reading, reqVars, sessVars, ctlVars
<1>9. ASSUME InStep' PROVE Placed' /\ SlotAligned' /\ SlotNotShort' /\ SuffixBegins'
  <2>0. InStep /\ Responses /\ body_plan_ = resp /\ PrefixLen <= pos /\ ~ astray
    BY <1>1, <1>8, <1>9, DrainIs
  <2>1. "take" \notin habits =>
          body_plan_.plan = "chunked" /\ ~ body_.ended /\ pos + 2 <= BodyEnd
    BY <1>1, <1>2, <2>0 DEF Responses, SlotAligned
  <2>2. Placed'
    <3>1. pos' >= PrefixLen
      BY <1>1, <1>3, <2>0 DEF PrefixLen
    <3> QED
      BY <1>1, <1>2, <2>0, <3>1 DEF Placed, BeforeResp, respVars, sessVars, ctlVars
  <2>3. SlotAligned'
    <3>1. CASE "take" \in habits
      BY <1>1, <1>2, <3>1 DEF SlotAligned, sessVars, ctlVars
    <3>2. CASE "take" \notin habits
      <4>1. resp.plan = "chunked" /\ pos + 2 <= BodyEnd /\ Start(Terminator) + 2 = BodyEnd
            /\ Terminator \in Chunks /\ Start(Terminator) \in Nat
        BY <1>3, <2>0, <2>1, <3>2, BodyEnds, StartsGrow
      <4>2. CASE pos = Start(Terminator)
        <5>1. chunk_left' = 0
          BY <1>1, <1>3, <4>1, <4>2, LengthsLaid, StartsGrow
        <5>2. ended' /\ ~ (call' # "drain") /\ ~ body_'.ended /\ body_plan_'.plan = "chunked"
          BY <1>1, <2>1, <3>2, <5>1 DEF sessVars, ctlVars
        <5> QED
          BY <1>1, <1>2, <2>0, <5>2 DEF SlotAligned, sessVars, ctlVars
      <4>3. CASE pos # Start(Terminator)
        <5>1. pos' < BodyEnd
          BY <1>1, <1>3, <4>1, <4>3
        <5>2. ~ (~ ended' /\ chunk_left' = 0)
          BY <1>1
        <5>3. /\ BodyEnd' = BodyEnd /\ call' = "drain" /\ ~ body_'.ended
              /\ body_plan_'.plan = "chunked" /\ body_'.kind = "Chunked"
          BY <1>1, <2>1, <3>2, LayoutKept DEF sessVars, ctlVars, respVars
        <5> QED
          BY <1>1, <1>2, <5>1, <5>2, <5>3 DEF SlotAligned, sessVars, ctlVars
      <4> QED
        BY <4>2, <4>3
    <3> QED
      BY <3>1, <3>2
  <2>4. ~ ByTheBook
    <3> SUFFICES ASSUME ByTheBook PROVE FALSE
      OBVIOUS
    <3>1. pos = BodyEnd /\ "take" \notin habits
      BY <1>2, <2>0 DEF Responses, SuffixBegins, ByTheBook
    <3> QED
      BY <1>3, <2>1, <3>1
  <2>5. SuffixBegins'
    BY <1>1, <2>4 DEF SuffixBegins, ByTheBook, sessVars, ctlVars
  <2>6. SlotNotShort'
    <3>1. body_plan_.plan = "chunked" /\ ~ body_.ended
      BY <1>1, <1>2, <2>0 DEF Responses, SlotNotShort
    <3> QED
      BY <1>1, <3>1 DEF SlotNotShort, sessVars, ctlVars
  <2> QED
    BY <2>2, <2>3, <2>5, <2>6
<1> QED
  BY <1>5, <1>6, <1>7, <1>8, <1>9 DEF Core, Standing, Responses

LEMMA StepDrainDone == Core /\ DrainDone => Core'
<1> SUFFICES ASSUME Core, DrainDone PROVE Core'
  OBVIOUS
<1>1. /\ TypesSent /\ TypesRead /\ TypesSlot /\ TypesResp
      /\ call = "drain" /\ body_' = Fresh /\ state_' = "SuffixReady" /\ view' = "suffix"
      /\ call' = "none"
      /\ UNCHANGED <<reqVars, respVars, pos, left, chunk_left, ended, bodyTaken,
                     suffixTaken, body_plan_, failed, astray, habits>>
  BY TypesApart DEF Core, Standing, DrainDone
<1>2. /\ view = "none" /\ suffixTaken = << >> /\ body_plan_.plan # "none"
      /\ state_ \in {"PrefixReady", "BodyReady"}
  BY <1>1, DrainIs
<1>3. Laid /\ BodyEnd' = BodyEnd /\ BodyEnd \in Nat /\ pos \in Nat
  BY <1>1, LaidHere, LayoutKept, BodyEnds DEF Core, Standing, respVars
<1>4. TypeOK'
  <2>1. TypesSent'
    BY <1>1 DEF TypesSent, reqVars, SessionStates, Calls
  <2>2. TypesRead'
    BY <1>1 DEF TypesRead, respVars
  <2>3. TypesSlot' /\ TypesResp'
    BY <1>1, RespKept DEF TypesSlot
  <2> QED
    BY <2>1, <2>2, <2>3, TypesApart, PTL
<1>5. Phases'
  BY <1>1, <1>2, LayoutKept DEF Core, Standing, Phases, Reading, BeforeResp, reqVars, respVars
<1>6. Requests'
  BY <1>1, <1>2, ReceivingFrame
<1>7. /\ HeadIsBare'
      /\ InStep' => /\ InStep /\ Responses
                    /\ InOrder(bodyTaken, "body")' /\ ReaderAligned'
  BY <1>1, UnreadFrame DEF Reading, reqVars
<1>8. ASSUME InStep' PROVE Placed' /\ SlotAligned' /\ SlotNotShort' /\ SuffixBegins'
  <2>0. /\ InStep /\ Responses /\ body_plan_ = resp /\ PrefixLen <= pos
        /\ state_ = "PrefixReady" => pos = PrefixLen
    BY <1>1, <1>7, <1>8, DrainIs
  <2>1. Placed' /\ SlotAligned' /\ SlotNotShort'
    BY <1>1, <2>0 DEF Placed, BeforeResp, SlotAligned, SlotNotShort, respVars
  <2>2. ByTheBook => pos = BodyEnd
    <3>1. CASE state_ = "BodyReady"
      BY <1>2, <2>0, <3>1 DEF Responses, SuffixBegins
    <3>2. CASE state_ = "PrefixReady"
      BY <1>1, <1>3, <2>0, <3>2, BodyEnds DEF Responses, SuffixBegins
    <3> QED
      BY <1>2, <3>1, <3>2
  <2>3. ByTheBook => Len(suffixTaken) = pos - BodyEnd
    BY <1>2, <1>3, <2>2
  <2>4. SuffixBegins'
    BY <1>1, <1>2, <1>3, <2>3 DEF SuffixBegins, ByTheBook
  <2> QED
    BY <2>1, <2>4
<1> QED
  BY <1>4, <1>5, <1>6, <1>7, <1>8 DEF Core, Standing, Responses

LEMMA StepDrainFails == Core /\ DrainFails => Core'
<1> SUFFICES ASSUME Core, DrainFails PROVE Core'
  OBVIOUS
<1>1. /\ TypesSent /\ TypesRead /\ TypesSlot /\ TypesResp
      /\ call = "drain" /\ call' = "none"
      /\ \/ body_.kind = "Sized" /\ left > 0
         \/ body_.kind = "Chunked" /\ ~ ended
      /\ pos' \in pos .. pos + 1 /\ pos' <= cut
      /\ pos' = pos \/ (body_.kind = "Chunked" /\ chunk_left = 0)
      /\ astray' = (astray \/ pos' # pos \/ (body_.kind = "Chunked" /\ chunk_left > 0))
      /\ UNCHANGED <<reqVars, respVars, view, left, chunk_left, ended, bodyTaken,
                     suffixTaken, state_, body_plan_, body_, failed, habits>>
  BY TypesApart DEF Core, Standing, DrainFails
<1>2. /\ view = "none" /\ state_ = "BodyReady" /\ suffixTaken = << >>
      /\ body_plan_.plan # "none"
  BY <1>1, DrainIs DEF Fresh
<1>3. Laid /\ pos \in Nat /\ cut \in Nat /\ BodyEnd \in Nat /\ BodyEnd' = BodyEnd
      /\ left \in Nat /\ chunk_left \in Nat
  BY <1>1, LaidHere, BodyEnds, LayoutKept DEF Core, Standing, TypesRead, respVars
<1>4. pos' \in 0 .. cut
  BY <1>1, <1>3
<1>5. TypeOK'
  <2>1. TypesSent' /\ TypesSlot' /\ TypesResp'
    BY <1>1, RespKept DEF TypesSent, TypesSlot, reqVars, Calls
  <2>2. TypesRead'
    BY <1>1, <1>4 DEF TypesRead, respVars
  <2> QED
    BY <2>1, <2>2, TypesApart, PTL
<1>6. Phases'
  BY <1>1, <1>2, LayoutKept DEF Core, Standing, Phases, Reading, BeforeResp, reqVars, respVars
<1>7. Requests'
  BY <1>1, <1>2, ReceivingFrame
<1>8. /\ HeadIsBare'
      /\ InStep' => /\ InStep /\ Responses
                    /\ InOrder(bodyTaken, "body")' /\ ReaderAligned'
  BY <1>1, <1>2, UnreadFrame DEF Reading, reqVars
<1>9. ASSUME InStep' PROVE Placed' /\ SlotAligned' /\ SlotNotShort' /\ SuffixBegins'
  <2>0. InStep /\ Responses /\ body_plan_ = resp /\ PrefixLen <= pos /\ ~ astray
    BY <1>1, <1>8, <1>9, DrainIs
  <2>1. Placed'
    <3>1. pos' >= PrefixLen
      BY <1>1, <1>3, <2>0 DEF PrefixLen
    <3> QED
      BY <1>1, <1>2, <2>0, <3>1 DEF Placed, BeforeResp, respVars
  <2>s. SlotNotShort'
    <3>1. CASE body_plan_.plan = "chunked"
      <4>1. body_.kind = "Chunked" /\ (body_.ended => ended)
        BY <1>1, <1>2, <2>0, <3>1 DEF Responses, SlotNotShort
      <4>2. ~ body_.ended
        BY <1>1, <4>1
      <4> QED
        BY <1>1, <3>1, <4>1, <4>2 DEF SlotNotShort
    <3>2. CASE body_plan_.plan # "chunked"
      <4>1. body_.kind = "Sized" /\ BodyEnd <= pos + body_.left
        BY <1>1, <1>2, <2>0, <3>2 DEF Responses, SlotNotShort
      <4>2. pos' = pos
        BY <1>1, <4>1
      <4> QED
        BY <1>1, <1>3, <3>2, <4>1, <4>2 DEF SlotNotShort
    <3> QED
      BY <3>1, <3>2
  <2>2. CASE "take" \in habits
    BY <1>1, <1>2, <2>1, <2>2, <2>s DEF SlotAligned, SuffixBegins, ByTheBook
  <2>3. CASE "take" \notin habits /\ body_plan_.plan # "chunked"
    <3>1. body_.kind = "Sized" /\ pos + body_.left = BodyEnd /\ left = body_.left
      BY <1>1, <1>2, <2>0, <2>3 DEF Responses, SlotAligned
    <3>2. pos' = pos /\ ~ astray' /\ left > 0
      BY <1>1, <2>0, <3>1
    <3>3. SlotAligned'
      BY <1>1, <1>2, <1>3, <2>3, <3>1, <3>2 DEF SlotAligned
    <3>4. pos # BodyEnd
      BY <1>3, <3>1, <3>2
    <3>5. ~ ByTheBook
      BY <1>2, <2>0, <3>4 DEF Responses, SuffixBegins
    <3> QED
      BY <1>1, <2>1, <2>s, <3>3, <3>5 DEF SuffixBegins, ByTheBook
  <2>4. CASE "take" \notin habits /\ body_plan_.plan = "chunked"
    <3>1. /\ body_.kind = "Chunked" /\ (body_.ended => ended)
          /\ ~ body_.ended => /\ ~ ended => pos < BodyEnd
                              /\ ~ ended /\ chunk_left = 0 => pos + 2 <= BodyEnd
      BY <1>1, <1>2, <2>0, <2>4 DEF Responses, SlotAligned
    <3>2. ~ ended /\ ~ body_.ended
      BY <1>1, <3>1
    <3>3. pos < BodyEnd /\ (chunk_left = 0 => pos + 2 <= BodyEnd)
      BY <3>1, <3>2
    <3>4. pos' < BodyEnd
      BY <1>1, <1>3, <3>3
    <3>5. ~ astray' => pos' + 2 <= BodyEnd
      <4>1. ~ astray' => pos' = pos /\ ~ (chunk_left > 0)
        BY <1>1, <3>1, Zenon
      <4> QED
        BY <1>3, <3>3, <4>1
    <3>6. SlotAligned'
      BY <1>1, <1>2, <1>3, <2>4, <3>1, <3>2, <3>4, <3>5 DEF SlotAligned
    <3>7. ~ ByTheBook
      BY <1>2, <1>3, <2>0, <3>3 DEF Responses, SuffixBegins
    <3> QED
      BY <1>1, <2>1, <2>s, <3>6, <3>7 DEF SuffixBegins, ByTheBook
  <2> QED
    BY <2>2, <2>3, <2>4
<1> QED
  BY <1>5, <1>6, <1>7, <1>8, <1>9 DEF Core, Standing, Responses

LEMMA StepReadSuffix == Core /\ ReadSuffix => Core'
<1> SUFFICES ASSUME Core, ReadSuffix PROVE Core'
  OBVIOUS
<1>1. /\ TypesSent /\ TypesRead /\ TypesSlot /\ TypesResp
      /\ view = "suffix" /\ state_ = "SuffixReady" /\ body_plan_.plan # "none"
      /\ UNCHANGED <<reqVars, respVars, view, left, chunk_left, ended, bodyTaken, sessVars>>
  BY TypesApart DEF Core, Standing, Phases, BeforeResp, ReadSuffix
<1>2. PICK m \in 1 .. cut - pos : /\ suffixTaken' = Take(suffixTaken, m)
                                  /\ pos' = pos + m
  BY DEF ReadSuffix
<1>3. /\ Laid /\ pos \in Nat /\ cut \in Nat /\ BodyEnd \in Nat /\ BodyEnd' = BodyEnd
      /\ suffixTaken \in Seq(1 .. cut)
  BY <1>1, LaidHere, BodyEnds, LayoutKept DEF Core, Standing, TypesRead, respVars
<1>4. m \in Nat /\ pos + m <= cut
  BY <1>2, <1>3
<1> DEFINE n == Len(suffixTaken)
<1>5. /\ n \in Nat
      /\ suffixTaken' \in Seq(1 .. cut) /\ Len(suffixTaken') = n + m
      /\ \A i \in 1 .. n : suffixTaken'[i] = suffixTaken[i]
      /\ \A i \in n + 1 .. n + m : suffixTaken'[i] = pos + (i - n)
  <2>1. [i \in 1 .. m |-> pos + i] \in Seq(1 .. cut)
    <3>1. \A i \in 1 .. m : pos + i \in 1 .. cut
      BY <1>3, <1>4
    <3> QED
      BY <1>4, <3>1
  <2> QED
    BY <1>2, <1>3, <1>4, <2>1 DEF Take
<1> HIDE DEF n
<1>6. pos' \in 0 .. cut
  BY <1>2, <1>3, <1>4
<1>7. TypeOK'
  <2>1. TypesSent' /\ TypesSlot' /\ TypesResp'
    BY <1>1, RespKept DEF TypesSent, TypesSlot, reqVars, sessVars, ctlVars
  <2>2. TypesRead'
    BY <1>1, <1>5, <1>6 DEF TypesRead, respVars
  <2> QED
    BY <2>1, <2>2, TypesApart, PTL
<1>8. Phases'
  BY <1>1, LayoutKept
     DEF Core, Standing, Phases, Reading, BeforeResp, reqVars, respVars, sessVars, ctlVars
<1>9. Requests'
  BY <1>1, ReceivingFrame DEF sessVars, ctlVars
<1>10. /\ HeadIsBare'
       /\ InStep' => /\ InStep /\ Responses
                     /\ InOrder(bodyTaken, "body")' /\ ReaderAligned'
  BY <1>1, UnreadFrame DEF Reading, reqVars, sessVars, ctlVars
<1>11. ASSUME InStep' PROVE Placed' /\ SlotAligned' /\ SlotNotShort' /\ SuffixBegins'
  <2>0. InStep /\ Responses /\ body_plan_ = resp /\ PrefixLen <= pos
    BY <1>1, <1>10, <1>11 DEF Responses, Placed, BeforeResp
  <2>1. Placed' /\ SlotAligned'
    <3>1. pos' >= PrefixLen
      BY <1>2, <1>3, <1>4, <2>0 DEF PrefixLen
    <3> QED
      BY <1>1, <2>0, <3>1 DEF Placed, BeforeResp, SlotAligned, Responses, respVars, sessVars,
         ctlVars, Standing, Core, Phases
  <2>2. SuffixBegins'
    <3> SUFFICES ASSUME ByTheBook
                 PROVE  /\ Len(suffixTaken') = pos' - BodyEnd
                        /\ \A i \in DOMAIN suffixTaken' : suffixTaken'[i] = BodyEnd + i
      BY <1>1, <1>3 DEF SuffixBegins, ByTheBook, sessVars, ctlVars
    <3>1. n = pos - BodyEnd /\ \A i \in 1 .. n : suffixTaken[i] = BodyEnd + i
      BY <1>1, <1>3, <2>0 DEF Responses, SuffixBegins, n
    <3>2. Len(suffixTaken') = pos' - BodyEnd
      BY <1>2, <1>3, <1>4, <1>5, <3>1
    <3>3. ASSUME NEW i \in 1 .. n + m
          PROVE  suffixTaken'[i] = BodyEnd + i
      <4>1. CASE i \in 1 .. n
        BY <1>5, <3>1, <4>1
      <4>2. CASE i \in n + 1 .. n + m
        <5>1. suffixTaken'[i] = pos + (i - n)
          BY <1>5, <4>2
        <5> QED
          BY <1>3, <1>4, <1>5, <3>1, <5>1
      <4> QED
        BY <1>4, <1>5, <4>1, <4>2
    <3> QED
      BY <1>5, <3>2, <3>3
  <2>3. SlotNotShort'
    BY <1>1 DEF SlotNotShort, sessVars, ctlVars
  <2> QED
    BY <2>1, <2>2, <2>3
<1> QED
  BY <1>7, <1>8, <1>9, <1>10, <1>11 DEF Core, Standing, Responses

-----------------------------------------------------------------------------
(* The whole.                                                               *)

LEMMA InitCore == Init => Core
<1> SUFFICES ASSUME Init PROVE Core
  OBVIOUS
<1>1. Laid
  BY DEF Init, Laid
<1>2. RxLen \in Nat /\ resp \in [plan : Plans, size : Nat]
  BY <1>1, BodyEnds
<1>3. TypeOK
  <2>1. TypesSent
    <3>1. req \in [plan : Plans, size : Nat]
      BY SessionAssumption DEF Init, Plans
    <3>2. source \in Nat
      BY SessionAssumption DEF Init
    <3>3. total \in 0 .. req.size /\ wire \in Seq({"body", "term", "suffix"})
      BY <3>1 DEF Init
    <3>4. state_ \in SessionStates /\ call \in Calls
      BY DEF Init, SessionStates, Calls
    <3>5. failed \in BOOLEAN
      BY Zenon DEF Init
    <3> QED
      BY <3>1, <3>2, <3>3, <3>4, <3>5 DEF Init, TypesSent
  <2>2. cut \in 0 .. RxLen /\ cut \in Nat
    BY <1>2 DEF Init
  <2>3. TypesRead
    <3>1. /\ view = "none" /\ ended = FALSE /\ bodyTaken = << >> /\ suffixTaken = << >>
          /\ left = 0 /\ chunk_left = 0
      BY DEF Init
    <3>2. pos \in 0 .. cut
      BY <2>2 DEF Init
    <3>3. bodyTaken \in Seq(1 .. cut) /\ suffixTaken \in Seq(1 .. cut)
      BY <3>1
    <3>4. left \in Nat /\ chunk_left \in Nat
      BY <3>1
    <3>5. ended \in BOOLEAN
      BY <3>1
    <3> QED
      BY <3>1, <3>2, <3>3, <3>4, <3>5 DEF TypesRead
  <2>4. TypesSlot /\ TypesResp
    BY <1>2, <2>2 DEF Init, TypesSlot, TypesResp, NoPlan
  <2> QED
    BY <2>1, <2>3, <2>4, TypesApart
<1>4. Phases
  BY DEF Init, Phases, BeforeResp, Reading, NoPlan
<1>5. Requests
  <2>1. CASE req.plan = "absent"
    <3>1. req.size = 0 /\ wire = << >> /\ state_ = "WaitingResp"
      BY <2>1 DEF Init
    <3>2. RequestFramed
      BY <2>1, <3>1 DEF RequestFramed, Framed
    <3> QED
      BY <2>1, <3>1, <3>2 DEF Requests, SentIsCounted
  <2>2. CASE req.plan # "absent"
    BY <2>2 DEF Init, Requests, SentIsCounted, RequestFramed, Framed
  <2> QED
    BY <2>1, <2>2
<1>6. HeadIsBare
  BY DEF Init, HeadIsBare, Reading, NoPlan
<1>7. Responses
  BY DEF Init, Responses, Placed, BeforeResp, ReaderAligned, Reading, InOrder, SlotAligned,
     SlotNotShort, SuffixBegins
<1> QED
  BY <1>3, <1>4, <1>5, <1>6, <1>7 DEF Core, Standing

LEMMA NextCore == Core /\ [Next]_vars => Core'
<1> SUFFICES ASSUME Core, [Next]_vars PROVE Core'
  OBVIOUS
<1>1. CASE Sending
  BY <1>1, StepSendReqBody, StepCopySome, StepCopyDone, StepEncodeSome, StepEncodeDone,
     StepSendReqSuffix, StepSuffixSome, StepSuffixDone, StepSendFails DEF Sending
<1>2. CASE Receiving
  <2>1. CASE ReadBody
    BY <2>1, StepReadLimited, StepReadChunkLength, StepReadChunk, StepReadChunkLengthFails
       DEF ReadBody
  <2> QED
    BY <1>2, <2>1, StepRecvRespPrefix, StepRecvRespPrefixFails, StepRecvRespBody,
       StepViewDrop, StepTakenDrop, StepTryInto, StepRecvRespSuffix, StepDrainChunkLength,
       StepDrainDone, StepDrainFails, StepReadSuffix DEF Receiving
<1>3. CASE UNCHANGED vars
  <2>1. /\ TypesSent /\ TypesRead /\ TypesSlot /\ TypesResp
        /\ UNCHANGED <<reqVars, respVars, readVars, sessVars>>
    BY <1>3, TypesApart DEF Core, Standing, vars
  <2>2. TypesSent' /\ TypesRead' /\ TypesSlot' /\ TypesResp'
    BY <2>1, RespKept DEF TypesSent, TypesRead, TypesSlot, reqVars, respVars, readVars, sessVars, ctlVars
  <2>3. TypeOK'
    BY <2>2, TypesApart, PTL
  <2>4. Phases'
    BY <2>1, LayoutKept DEF Core, Standing, Phases, BeforeResp, Reading, reqVars, respVars, readVars, sessVars, ctlVars
  <2>5. Requests'
    BY <2>1 DEF Core, Standing, Requests, SentIsCounted, RequestFramed, Framed, reqVars, sessVars, ctlVars
  <2>6. HeadIsBare'
    BY <2>1 DEF Core, Standing, HeadIsBare, Reading, reqVars, readVars, sessVars, ctlVars
  <2>7. ASSUME InStep' PROVE Responses'
    <3>1. InStep /\ Responses
      BY <2>1, <2>7 DEF InStep, Core, sessVars
    <3>2. /\ Placed' /\ InOrder(bodyTaken, "body")' /\ SlotAligned' /\ SlotNotShort'
          /\ SuffixBegins'
      BY <2>1, <3>1, LayoutKept DEF Responses, Placed, BeforeResp, InOrder, SlotAligned,
         SlotNotShort, SuffixBegins, ByTheBook, respVars, readVars, sessVars, ctlVars
    <3>3. ReaderAligned'
      BY <2>1, <3>1, LayoutKept DEF Responses, ReaderAligned, Reading, respVars, readVars,
         sessVars, ctlVars
    <3> QED
      BY <3>2, <3>3 DEF Responses
  <2> QED
    BY <2>3, <2>4, <2>5, <2>6, <2>7 DEF Core, Standing
<1> QED
  BY <1>1, <1>2, <1>3 DEF Next

LEMMA CoreIsKept == Spec => []Core
<1>1. Init => Core
  BY InitCore
<1>2. Core /\ [Next]_vars => Core'
  BY NextCore
<1> QED
  BY <1>1, <1>2, PTL DEF Spec

(* What the slot says, as the caller of recv_resp_suffix_async finds it.    *)
LEMMA SlotIsTrue == Core /\ InStep => SlotTellsTheRest
<1> SUFFICES ASSUME Core, InStep, state_ = "BodyReady", view = "none", call # "drain"
             PROVE  SlotTellsTheRest
  BY DEF SlotTellsTheRest
<1>1. /\ Laid /\ pos \in Nat /\ BodyEnd \in Nat /\ RxLen \in Nat /\ BodyEnd <= RxLen
      /\ PrefixLen <= pos /\ body_plan_ = resp /\ PrefixLen \in Nat
  BY LaidHere, BodyEnds DEF Core, Standing, Responses, Placed, BeforeResp, PrefixLen
<1>2. CASE body_plan_.plan = "chunked"
  <2>1. /\ body_.kind = "Chunked" /\ (body_.ended => pos = BodyEnd)
        /\ "take" \notin habits /\ ~ body_.ended => pos < BodyEnd
    BY <1>2 DEF Core, Standing, Responses, SlotNotShort, SlotAligned
  <2> DEFINE over == \A i \in pos + 1 .. RxLen : Kind(i) = "suffix"
  <2>2. body_.ended => over
    <3> SUFFICES ASSUME body_.ended, NEW i \in pos + 1 .. RxLen
                 PROVE  Kind(i) = "suffix"
      OBVIOUS
    <3>1. i \in Nat /\ i > BodyEnd
      BY <1>1, <2>1
    <3> QED
      BY <1>1, <3>1, KindsLaid
  <2>3. over /\ "take" \notin habits => body_.ended
    <3> SUFFICES ASSUME ~ body_.ended, "take" \notin habits
                 PROVE  ~ over
      OBVIOUS
    <3>1. pos + 1 \in pos + 1 .. RxLen /\ pos + 1 \in Nat /\ ~ (pos + 1 > BodyEnd)
      BY <1>1, <2>1
    <3>2. Kind(pos + 1) # "suffix"
      BY <1>1, <3>1, KindsLaid
    <3> QED
      BY <3>1, <3>2
  <2> HIDE DEF over
  <2> QED
    BY <1>2, <2>2, <2>3 DEF SlotTellsTheRest, over
<1>3. CASE body_plan_.plan # "chunked"
  <2>1. /\ body_.kind = "Sized" /\ BodyEnd <= pos + body_.left
        /\ "take" \notin habits => pos + body_.left = BodyEnd
    BY <1>3 DEF Core, Standing, Responses, SlotNotShort, SlotAligned
  <2>2. body_.left \in Nat
    BY <2>1 DEF Core, Standing, TypeOK, Fresh
  <2>3. pos + 1 .. BodyEnd \subseteq Positions("body")
    <3>1. resp.plan # "chunked" /\ PrefixLen <= pos /\ BodyEnd <= BodyEnd
      BY <1>1, <1>3
    <3>2. \A a, b \in Nat :
            PrefixLen <= a /\ b <= BodyEnd => a + 1 .. b \subseteq Positions("body")
      BY <1>1, <3>1, BodyHere
    <3> QED
      BY <1>1, <3>1, <3>2
  <2>4. ASSUME NEW i \in Positions("body"), i > pos
        PROVE  i \in pos + 1 .. BodyEnd
    <3>1. i \in Nat /\ Kind(i) = "body"
      BY <1>1 DEF Positions
    <3>2. ~ (i > BodyEnd)
      BY <1>1, <3>1, KindsLaid
    <3> QED
      BY <1>1, <2>4, <3>1, <3>2
  <2>5. \A i \in pos + 1 .. BodyEnd : i > pos
    BY <1>1
  <2>6. {i \in Positions("body") : i > pos} = pos + 1 .. BodyEnd
    BY <2>3, <2>4, <2>5
  <2>7. pos + 1 .. BodyEnd \subseteq pos + 1 .. pos + body_.left
    BY <1>1, <2>1, <2>2
  <2> QED
    BY <1>3, <2>1, <2>6, <2>7 DEF SlotTellsTheRest
<1> QED
  BY <1>2, <1>3

(* Nothing but payload is read as body.                                     *)
LEMMA BodyIsTrue == Core => BodyIsBody
BY DEF Core, Standing, Responses, HeadIsBare, BodyIsBody

(* The inductive invariant of one request and its response, for any bodies, *)
(* any places where the peer's stream is cut and any habits of the caller:  *)
(* a caller that receives on from inside a failed read loses the part about *)
(* the stream's alignment, and that alone.                                  *)
THEOREM SessionCorrect == Spec => []SessionInv
<1>1. Core => SessionInv
  BY SlotIsTrue, BodyIsTrue DEF Core, Standing, Requests, Responses, SessionInv
<1> QED
  BY <1>1, CoreIsKept, PTL

(* send_req_body_async and send_req_suffix_async frame the request: all of  *)
(* the declared body, its terminator, then the suffix, whatever failed on   *)
(* the way; a sized body that is sent again is there as a whole, behind     *)
(* what had moved before.                                                   *)
THEOREM RequestIsFramed == Spec => []RequestFramed
<1>1. Core => RequestFramed
  BY DEF Core, Standing, Requests
<1> QED
  BY <1>1, CoreIsKept, PTL

(* The views of recv_resp_body_async hand out payload only, and in order,   *)
(* to every caller that does not receive on from inside a failed read, and  *)
(* nothing at all in answer to a Head, to any caller.                       *)
THEOREM OnlyBodyIsRead == Spec => []BodyIsBody
<1>1. Core => BodyIsBody
  BY BodyIsTrue
<1> QED
  BY <1>1, CoreIsKept, PTL

(* A reader at its end has handed out every byte of the body, to every      *)
(* caller in step (RespBodyRead::is_finished).                              *)
THEOREM WholeBodyIsRead == Spec => []FinishedIsWhole
<1>1. Core => FinishedIsWhole
  <2> SUFFICES ASSUME Core, InStep, Reading, Finished, NEW p \in Positions("body")
               PROVE  \E i \in DOMAIN bodyTaken : bodyTaken[i] = p
    BY DEF FinishedIsWhole
  <2>1. /\ Laid /\ pos \in Nat /\ BodyEnd \in Nat /\ RxLen \in Nat
    BY LaidHere, BodyEnds DEF Core, Standing
  <2>2. pos = BodyEnd
    <3>1. CASE body_plan_.plan = "chunked"
      BY <3>1, ChunkReaderIs DEF Finished
    <3>2. CASE body_plan_.plan # "chunked"
      BY <2>1, <3>2 DEF Finished, Core, Standing, Responses, ReaderAligned
    <3> QED
      BY <3>1, <3>2
  <2>3. p \in Nat /\ Kind(p) = "body"
    BY <2>1 DEF Positions
  <2>4. p <= pos
    BY <2>1, <2>2, <2>3, KindsLaid
  <2> QED
    BY <2>4 DEF Core, Standing, Responses, ReaderAligned
<1> QED
  BY <1>1, CoreIsKept, PTL

(* A caller in step that reads the body through the view and to its end     *)
(* gets the suffix from its first byte (recv_resp_suffix_async).            *)
THEOREM SuffixIsSuffix == Spec => []SuffixAligned
<1>1. Core => SuffixAligned
  <2> SUFFICES ASSUME Core, InStep, ByTheBook
               PROVE  InOrder(suffixTaken, "suffix")
    BY DEF SuffixAligned
  <2>1. CASE view # "suffix"
    <3>1. suffixTaken = << >>
      BY <2>1 DEF Core, Standing, Phases
    <3> QED
      BY <3>1 DEF InOrder
  <2>2. CASE view = "suffix"
    <3>1. /\ Laid /\ pos \in Nat /\ BodyEnd \in Nat /\ RxLen \in Nat /\ cut \in Nat
          /\ pos <= cut /\ cut <= RxLen
      BY LaidHere, BodyEnds DEF Core, Standing
    <3> DEFINE n == Len(suffixTaken)
    <3>2. n \in Nat /\ DOMAIN suffixTaken = 1 .. n
      BY DEF Core, Standing, TypeOK
    <3>3. n = pos - BodyEnd /\ \A i \in 1 .. n : suffixTaken[i] = BodyEnd + i
      BY <2>2, <3>2 DEF Core, Standing, Responses, SuffixBegins
    <3> HIDE DEF n
    <3>4. \A p \in Positions("suffix") : p \in Nat /\ BodyEnd < p
      <4> TAKE p \in Positions("suffix")
      <4>1. p \in Nat /\ Kind(p) = "suffix"
        BY <3>1 DEF Positions
      <4> QED
        BY <3>1, <4>1, KindsLaid
    <3>5. \A i \in 1 .. n : suffixTaken[i] \in Positions("suffix")
      <4> TAKE i \in 1 .. n
      <4>1. BodyEnd + i \in Nat /\ BodyEnd + i > BodyEnd /\ BodyEnd + i \in 1 .. RxLen
        BY <3>1, <3>2, <3>3
      <4>2. Kind(BodyEnd + i) = "suffix"
        BY <3>1, <4>1, KindsLaid
      <4> QED
        BY <3>3, <4>1, <4>2 DEF Positions
    <3>6. \A i, j \in 1 .. n : i < j => suffixTaken[i] < suffixTaken[j]
      BY <3>1, <3>2, <3>3
    <3>7. ASSUME NEW p \in Positions("suffix"), NEW i \in 1 .. n, p < suffixTaken[i]
          PROVE  \E j \in 1 .. n : suffixTaken[j] = p
      <4>1. p \in Nat /\ BodyEnd < p /\ p < BodyEnd + i
        BY <3>3, <3>4, <3>7
      <4>2. p - BodyEnd \in 1 .. n /\ BodyEnd + (p - BodyEnd) = p
        BY <3>1, <3>2, <4>1
      <4> QED
        BY <3>3, <4>2
    <3> QED
      BY <3>2, <3>5, <3>6, <3>7 DEF InOrder
  <2> QED
    BY <2>1, <2>2
<1> QED
  BY <1>1, CoreIsKept, PTL
=============================================================================
