--------------------------- MODULE RpcCallProofs ---------------------------
(***************************************************************************)
(* Proofs about RpcCall.  The account of a call (CallInv) is inductive: it  *)
(* counts the pieces of a value wherever they are, not yet encoded, in the  *)
(* ring, on the wire or read, so that every step either moves a piece or    *)
(* loses pieces nobody waits for any more.                                  *)
(*                                                                          *)
(*   1. lemmas about a wire: what Append and Tail do to its framing;        *)
(*   2. senders move pieces; the channel's operations;                      *)
(*   3. one lemma per action, or per group of actions with the same effect; *)
(*   4. the account holds; where the two stand (Stations), on top of it,    *)
(*      tells what they find there, so that nobody waits for ever;          *)
(*   5. the theorems.                                                       *)
(***************************************************************************)
EXTENDS RpcCall, TLAPS

(* A framed wire holds as many pieces as its length without the ends.       *)
LEMMA PiecesAreCounted ==
  ASSUME NEW w \in Seq(Items), Framed(w)
  PROVE  /\ PiecesIn(w) \in Nat
         /\ w # << >> /\ w[1] = "end" => PiecesIn(w) = 0
         /\ w # << >> /\ w[1] = "piece" => PiecesIn(w) > 0
<1>1. /\ Len(w) \in Nat
      /\ w # << >> => Len(w) > 0 /\ 1 \in 1 .. Len(w)
  OBVIOUS
<1>2. "end" \notin Heads /\ "piece" \notin Heads
  BY DEF Heads
<1>3. Headed(w) /\ Ended(w) => Len(w) > 1
  BY <1>1, <1>2 DEF Headed, Ended
<1>4. (Headed(w) => Len(w) > 0) /\ (Ended(w) => Len(w) > 0)
  BY <1>1 DEF Headed, Ended
<1>5. PiecesIn(w) \in Nat
  BY <1>1, <1>3, <1>4 DEF PiecesIn
<1>6. ASSUME w # << >>, w[1] = "end"
      PROVE  PiecesIn(w) = 0
  <2>1. Len(w) = 1
    BY <1>1, <1>6 DEF Framed
  <2>2. ~Headed(w) /\ Ended(w)
    BY <1>2, <1>6, <2>1 DEF Headed, Ended
  <2> QED
    BY <2>1, <2>2 DEF PiecesIn
<1>7. ASSUME w # << >>, w[1] = "piece"
      PROVE  PiecesIn(w) > 0
  <2>1. ~Headed(w) /\ (Ended(w) => Len(w) > 1)
    BY <1>1, <1>2, <1>7 DEF Headed, Ended
  <2> QED
    BY <1>1, <1>7, <2>1 DEF PiecesIn
<1> QED
  BY <1>5, <1>6, <1>7

LEMMA EmptyWire ==
  /\ << >> \in Seq(Items)
  /\ Framed(<< >>) /\ PiecesIn(<< >>) = 0
  /\ ~Ended(<< >>) /\ \A h \in Heads : ~Begins(<< >>, h)
BY DEF PiecesIn, Framed, Begins, Headed, Ended

(* A prefix goes out first of all. *)
LEMMA PutHead ==
  ASSUME NEW w, w = << >>, NEW h \in Heads
  PROVE  /\ Append(w, h) \in Seq(Items) /\ Framed(Append(w, h))
         /\ PiecesIn(Append(w, h)) = 0 /\ ~Ended(Append(w, h))
         /\ \A g \in Heads : Begins(Append(w, h), g) <=> g = h
<1> DEFINE v == Append(w, h)
<1>1. h \in Items /\ h # "end"
  BY DEF Heads, Items
<1>2. v \in Seq(Items) /\ v # << >> /\ Len(v) = 1 /\ v[1] = h
  <2>1. << >> \in Seq(Items)
    OBVIOUS
  <2> QED
    BY <1>1, <2>1
<1>3. Framed(v)
  BY <1>2 DEF Framed
<1>4. Headed(v) /\ ~Ended(v)
  BY <1>1, <1>2 DEF Headed, Ended
<1>5. PiecesIn(v) = 0
  BY <1>2, <1>4 DEF PiecesIn
<1> QED
  BY <1>2, <1>3, <1>4, <1>5 DEF Begins

(* Pieces, and the terminator after the last of them, go behind the rest.   *)
LEMMA PutBehind ==
  ASSUME NEW w \in Seq(Items), Framed(w), ~Ended(w), NEW x \in {"piece", "end"}
  PROVE  /\ Append(w, x) \in Seq(Items) /\ Framed(Append(w, x))
         /\ PiecesIn(Append(w, x)) = PiecesIn(w) + (IF x = "piece" THEN 1 ELSE 0)
         /\ Ended(Append(w, x)) <=> x = "end"
         /\ \A h \in Heads : Begins(Append(w, x), h) <=> Begins(w, h)
<1> DEFINE v == Append(w, x)
<1>1. /\ v \in Seq(Items) /\ Len(v) = Len(w) + 1 /\ v # << >>
      /\ v[Len(v)] = x /\ Len(w) \in Nat
      /\ \A i \in 1 .. Len(w) : v[i] = w[i]
  BY DEF Items
<1>2. (w = << >> => v[1] = x) /\ (w # << >> => v[1] = w[1])
  BY <1>1
<1> HIDE DEF v
<1>3. x \notin Heads
  BY DEF Heads
<1>4. \A h \in Heads : Begins(v, h) <=> Begins(w, h)
  BY <1>1, <1>2, <1>3 DEF Begins
<1>5. Headed(v) <=> Headed(w)
  BY <1>1, <1>2, <1>3 DEF Headed
<1>6. Ended(v) <=> x = "end"
  BY <1>1 DEF Ended
<1>7. Framed(v)
  <2> SUFFICES ASSUME NEW i \in 1 .. Len(v)
               PROVE  /\ v[i] \in Heads => i = 1
                      /\ v[i] = "end" => i = Len(v)
    BY DEF Framed
  <2>1. CASE i = Len(w) + 1
    BY <1>1, <1>3, <2>1
  <2>2. CASE i \in 1 .. Len(w)
    <3>1. v[i] = w[i] /\ (w[i] \in Heads => i = 1)
      BY <1>1, <2>2 DEF Framed
    <3>2. w[i] # "end"
      BY <2>2 DEF Framed, Ended
    <3> QED
      BY <3>1, <3>2
  <2> QED
    BY <1>1, <2>1, <2>2
<1>8. PiecesIn(v) = PiecesIn(w) + (IF x = "piece" THEN 1 ELSE 0)
  <2>1. CASE x = "piece"
    BY <1>1, <1>5, <1>6, <2>1 DEF PiecesIn
  <2>2. CASE x = "end"
    BY <1>1, <1>5, <1>6, <2>2 DEF PiecesIn
  <2> QED
    BY <2>1, <2>2
<1> QED
  BY <1>1, <1>4, <1>6, <1>7, <1>8 DEF v

(* What is read is a prefix or a piece, and it is what comes first.         *)
LEMMA TakeFront ==
  ASSUME NEW w \in Seq(Items), Framed(w), w # << >>, Head(w) \in Heads \cup {"piece"}
  PROVE  /\ Tail(w) \in Seq(Items) /\ Framed(Tail(w))
         /\ PiecesIn(Tail(w)) = PiecesIn(w) - (IF Head(w) = "piece" THEN 1 ELSE 0)
         /\ Ended(Tail(w)) <=> Ended(w)
         /\ \A h \in Heads : ~Begins(Tail(w), h)
         /\ \A h \in Heads : Begins(w, h) <=> Head(w) = h
<1> DEFINE v == Tail(w)
<1>1. /\ v \in Seq(Items) /\ Len(v) \in Nat /\ Len(w) = Len(v) + 1
      /\ \A i \in 1 .. Len(v) : v[i] = w[i + 1]
      /\ Head(w) = w[1]
  <2>1. Len(w) \in Nat \ {0}
    OBVIOUS
  <2>2. v \in Seq(Items) /\ Len(v) = Len(w) - 1
    OBVIOUS
  <2>3. \A i \in 1 .. Len(v) : v[i] = w[i + 1]
    OBVIOUS
  <2>4. Head(w) = w[1]
    OBVIOUS
  <2> HIDE DEF v
  <2> QED
    BY <2>1, <2>2, <2>3, <2>4
<1>2. v # << >> => Len(v) > 0
  BY <1>1
<1> HIDE DEF v
<1>3. v = << >> => Len(v) = 0
  OBVIOUS
<1>4. "end" \notin Heads /\ "piece" \notin Heads
  BY DEF Heads
<1>5. Framed(v)
  <2> SUFFICES ASSUME NEW i \in 1 .. Len(v)
               PROVE  v[i] \notin Heads /\ (v[i] = "end" => i = Len(v))
    BY DEF Framed
  <2>1. i + 1 \in 1 .. Len(w) /\ v[i] = w[i + 1] /\ i + 1 # 1
    BY <1>1
  <2> QED
    BY <1>1, <2>1 DEF Framed
<1>6. v # << >> => v[1] \notin Heads
  <2> SUFFICES ASSUME v # << >>
               PROVE  v[1] \notin Heads
    OBVIOUS
  <2>1. 2 \in 1 .. Len(w) /\ v[1] = w[2]
    BY <1>1, <1>2
  <2> QED
    BY <2>1 DEF Framed
<1>7. Ended(v) <=> Ended(w)
  <2>1. CASE v = << >>
    BY <1>1, <1>3, <1>4, <2>1 DEF Ended
  <2>2. CASE v # << >>
    <3>1. v[Len(v)] = w[Len(w)]
      BY <1>1, <1>2, <2>2
    <3> QED
      BY <2>2, <3>1 DEF Ended
  <2> QED
    BY <2>1, <2>2
<1>8. ~Headed(v) /\ (Headed(w) <=> Head(w) # "piece")
  BY <1>1, <1>4, <1>6 DEF Headed
<1>9. PiecesIn(v) = PiecesIn(w) - (IF Head(w) = "piece" THEN 1 ELSE 0)
  <2>1. CASE Head(w) = "piece"
    BY <1>1, <1>7, <1>8, <2>1 DEF PiecesIn
  <2>2. CASE Head(w) # "piece"
    <3>1. Headed(w) /\ ~Headed(v)
      BY <1>8, <2>2
    <3> QED
      BY <1>1, <1>7, <2>2, <3>1 DEF PiecesIn
  <2> QED
    BY <2>1, <2>2
<1> QED
  BY <1>1, <1>5, <1>6, <1>7, <1>9 DEF Begins, v
-----------------------------------------------------------------------------
(* The account of a call, CallInv without the outcome it explains.          *)
Account == TypeOK /\ WiresFramed /\ RequestAddsUp /\ ReplyAddsUp /\ NothingLost

(* What the account says of either side in numbers. *)
Counts ==
  \A s \in Sides :
    /\ wire[s] \in Seq(Items) /\ Framed(wire[s]) /\ PiecesIn(wire[s]) \in Nat
    /\ ring[s] \in Nat /\ left[s] \in Nat /\ UnderWay(s) \in Nat

LEMMA CountsHold == TypeOK /\ WiresFramed => Counts
<1> SUFFICES ASSUME TypeOK, WiresFramed, NEW s \in Sides
             PROVE  /\ wire[s] \in Seq(Items) /\ Framed(wire[s])
                    /\ PiecesIn(wire[s]) \in Nat
                    /\ ring[s] \in Nat /\ left[s] \in Nat /\ UnderWay(s) \in Nat
  BY DEF Counts
<1>1. wire[s] \in Seq(Items) /\ Framed(wire[s])
  BY DEF TypeOK, WiresFramed
<1>2. ring[s] \in Nat /\ left[s] \in Nat
  BY RpcCallAssumption DEF TypeOK
<1>3. PiecesIn(wire[s]) \in Nat
  BY <1>1, PiecesAreCounted
<1> QED
  BY <1>1, <1>2, <1>3 DEF UnderWay

-----------------------------------------------------------------------------
(* What an encoder or a pump does to either side: pieces only move, nothing *)
(* starts that was idle, and nothing that is through goes on.               *)
SendersMove ==
  /\ \A t \in Sides :
       /\ UnderWay(t)' = UnderWay(t) /\ left'[t] <= left[t]
       /\ enc'[t] = "idle" <=> enc[t] = "idle"
       /\ pump'[t] = "idle" <=> pump[t] = "idle"
       /\ enc[t] = "ok" => enc'[t] = "ok"
       /\ pump[t] = "ok" => pump'[t] = "ok"
       /\ pump'[t] = "ok" => Ended(wire'[t]) \/ (pump[t] = "ok" /\ wire'[t] = wire[t])
       /\ enc[t] = "idle" => left'[t] = left[t]
       /\ enc[t] = "idle" /\ pump[t] = "idle" =>
            ring'[t] = ring[t] /\ wire'[t] = wire[t]
       /\ \A h \in Heads : Begins(wire'[t], h) <=> Begins(wire[t], h)
  /\ UNCHANGED <<fin, gone, clientVars, serverVars>>

LEMMA SendersKeep ==
  ASSUME Account, TypeOK', WiresFramed', SendersMove
  PROVE  Account'
<1> USE DEF Sides, clientVars, serverVars
<1>1. Counts
  BY CountsHold DEF Account
<1>2. Counts'
  BY CountsHold, PTL
<1>3. "ok" \in Heads /\ "err" \in Heads
  BY DEF Heads
<1>4. RequestAddsUp'
  BY <1>1 DEF Account, RequestAddsUp, SendersMove, Counts
<1>5. ReplyPieces' = ReplyPieces
  BY DEF ReplyPieces, SendersMove
<1>6. ReplyAddsUp'
  BY <1>1, <1>3, <1>5 DEF Account, ReplyAddsUp, Unanswered, NoAnswer, ErrorAnswer,
     ValueAnswer, SendersMove, Counts
<1>7. NothingLost'
  <2>1. left["server"] = 0 => left'["server"] = 0
    BY <1>1, <1>2 DEF SendersMove, Counts
  <2> QED
    BY <1>3, <1>5, <2>1 DEF Account, NothingLost, SendersMove
<1> QED
  BY <1>4, <1>6, <1>7 DEF Account

(* The encoder's and the pump's steps, and a token that fires.              *)
LEMMA EncodeKeeps ==
  ASSUME Account, NEW s \in Sides, Encode(s)
  PROVE  Account' /\ SendersMove
<1>1. Counts
  BY CountsHold DEF Account
<1>2. /\ ring' = [ring EXCEPT ![s] = @ + 1] /\ left' = [left EXCEPT ![s] = @ - 1]
      /\ enc[s] = "run" /\ left[s] > 0 /\ ring[s] < RingCap
      /\ UNCHANGED <<enc, pump, chanVars, token, clientVars, serverVars>>
  BY DEF Encode
<1>3. TypeOK'
  BY <1>1, <1>2, RpcCallAssumption, SMTT(30)
  DEF Account, TypeOK, Counts, chanVars, clientVars, serverVars
<1>4. \A t \in Sides :
        /\ ring'[t] = ring[t] + (IF t = s THEN 1 ELSE 0)
        /\ left'[t] = left[t] - (IF t = s THEN 1 ELSE 0)
  BY <1>1, <1>2 DEF Account, TypeOK, Counts
<1>5. WiresFramed'
  BY <1>2, <1>4 DEF Account, WiresFramed, chanVars
<1>6. SendersMove
  <2> SUFFICES ASSUME NEW t \in Sides
               PROVE  /\ UnderWay(t)' = UnderWay(t) /\ left'[t] <= left[t]
                      /\ enc[t] = "idle" => left'[t] = left[t]
                      /\ enc[t] = "idle" /\ pump[t] = "idle" => ring'[t] = ring[t]
    BY <1>2 DEF SendersMove, chanVars
  <2>1. PiecesIn(wire[t]) \in Nat /\ ring[t] \in Nat /\ left[t] \in Nat
    BY <1>1 DEF Counts
  <2>2. wire'[t] = wire[t]
    BY <1>2 DEF chanVars
  <2>3. CASE t = s
    BY <1>2, <1>4, <2>1, <2>2, <2>3 DEF UnderWay
  <2>4. CASE t # s
    BY <1>4, <2>1, <2>2, <2>4 DEF UnderWay
  <2> QED
    BY <2>3, <2>4
<1> QED
  BY <1>3, <1>5, <1>6, SendersKeep

LEMMA EncoderStops ==
  ASSUME Account, NEW s \in Sides, EncodeDone(s) \/ EncodeFails(s) \/ EncodeCancelled(s)
  PROVE  Account' /\ SendersMove
<1>1. Counts
  BY CountsHold DEF Account
<1>2. PICK e \in {"ok", "err"} :
        /\ enc' = [enc EXCEPT ![s] = e] /\ enc[s] = "run"
        /\ e = "ok" => left[s] = 0
        /\ UNCHANGED <<left, ring, pump, chanVars, token, clientVars, serverVars>>
  BY DEF EncodeDone, EncodeFails, EncodeCancelled, EncodeEnds
<1>3. TypeOK'
  BY <1>2 DEF Account, TypeOK, chanVars, clientVars, serverVars
<1>4. \A t \in Sides : enc'[t] = IF t = s THEN e ELSE enc[t]
  BY <1>2 DEF Account, TypeOK
<1>5. WiresFramed'
  BY <1>2, <1>4 DEF Account, WiresFramed, chanVars
<1>6. SendersMove
  BY <1>1, <1>2, <1>4 DEF SendersMove, UnderWay, Counts, chanVars
<1> QED
  BY <1>3, <1>5, <1>6, SendersKeep

LEMMA PumpPuts ==
  ASSUME Account, NEW s \in Sides, PumpPiece(s) \/ PumpEnd(s)
  PROVE  Account' /\ SendersMove
<1>1. Counts
  BY CountsHold DEF Account
<1>2. PICK x \in {"piece", "end"} :
        /\ wire' = [wire EXCEPT ![s] = Append(@, x)]
        /\ pump[s] = "run"
        /\ x = "piece" => /\ ring[s] > 0 /\ ring' = [ring EXCEPT ![s] = @ - 1]
                          /\ pump' = pump
        /\ x = "end" => /\ ring[s] = 0 /\ enc[s] \in {"ok", "err"} /\ ring' = ring
                        /\ pump' = [pump EXCEPT ![s] = "ok"]
        /\ UNCHANGED <<left, enc, fin, gone, token, clientVars, serverVars>>
  <2>1. CASE PumpPiece(s)
    BY <2>1 DEF PumpPiece, Put, HasSomething
  <2>2. CASE PumpEnd(s)
    BY <1>1, <2>2 DEF PumpEnd, Put, HasSomething, RingShut, Counts
  <2> QED
    BY <2>1, <2>2
<1>3. /\ \A t \in Sides : wire'[t] = IF t = s THEN Append(wire[t], x) ELSE wire[t]
      /\ \A t \in Sides : ring'[t] = ring[t] - (IF t = s /\ x = "piece" THEN 1 ELSE 0)
      /\ \A t \in Sides : pump'[t] = IF t = s /\ x = "end" THEN "ok" ELSE pump[t]
  BY <1>1, <1>2, SMTT(30) DEF Account, TypeOK, Counts
<1>4. /\ Append(wire[s], x) \in Seq(Items) /\ Framed(Append(wire[s], x))
      /\ PiecesIn(Append(wire[s], x)) = PiecesIn(wire[s]) + (IF x = "piece" THEN 1 ELSE 0)
      /\ Ended(Append(wire[s], x)) <=> x = "end"
      /\ \A h \in Heads : Begins(Append(wire[s], x), h) <=> Begins(wire[s], h)
  <2>1. ~Ended(wire[s])
    BY <1>2 DEF Account, WiresFramed
  <2> QED
    BY <1>1, <2>1, PutBehind DEF Counts
<1>5. TypeOK'
  <2>1. wire' \in [Sides -> Seq(Items)]
    BY <1>2, <1>4 DEF Account, TypeOK
  <2>2. ring' \in [Sides -> 0 .. RingCap]
    <3>1. CASE x = "piece"
      <4>1. ring \in [Sides -> 0 .. RingCap] /\ RingCap \in Nat
        BY RpcCallAssumption DEF Account, TypeOK
      <4>2. ring[s] > 0 /\ ring' = [ring EXCEPT ![s] = @ - 1]
        BY <1>2, <3>1
      <4> QED
        BY <4>1, <4>2
    <3>2. CASE x = "end"
      BY <1>2, <3>2 DEF Account, TypeOK
    <3> QED
      BY <3>1, <3>2
  <2>3. pump' \in [Sides -> {"idle", "run", "ok", "err"}]
    BY <1>2 DEF Account, TypeOK
  <2> QED
    BY <1>2, <2>1, <2>2, <2>3 DEF Account, TypeOK, clientVars, serverVars
<1>6. WiresFramed'
  BY <1>1, <1>2, <1>3, <1>4 DEF Account, WiresFramed, Counts
<1>7. SendersMove
  <2> SUFFICES ASSUME NEW t \in Sides
               PROVE  /\ UnderWay(t)' = UnderWay(t)
                      /\ pump'[t] = "idle" <=> pump[t] = "idle"
                      /\ pump[t] = "ok" => pump'[t] = "ok"
                      /\ pump'[t] = "ok" =>
                           Ended(wire'[t]) \/ (pump[t] = "ok" /\ wire'[t] = wire[t])
                      /\ enc[t] = "idle" /\ pump[t] = "idle" =>
                           ring'[t] = ring[t] /\ wire'[t] = wire[t]
                      /\ \A h \in Heads : Begins(wire'[t], h) <=> Begins(wire[t], h)
    BY <1>1, <1>2 DEF SendersMove, Counts
  <2>1. CASE t = s /\ x = "piece"
    <3>1. /\ wire'[t] = Append(wire[s], x) /\ ring'[t] = ring[t] - 1
          /\ left'[t] = left[t] /\ pump'[t] = pump[t]
      BY <1>2, <1>3, <2>1
    <3>2. PiecesIn(wire'[t]) = PiecesIn(wire[t]) + 1
      BY <1>4, <2>1, <3>1
    <3>3. UnderWay(t)' = UnderWay(t)
      <4>1. PiecesIn(wire[t]) \in Nat /\ ring[t] \in Nat /\ left[t] \in Nat
        BY <1>1 DEF Counts
      <4> QED
        BY <3>1, <3>2, <4>1 DEF UnderWay
    <3> QED
      BY <1>2, <1>4, <2>1, <3>1, <3>3
  <2>2. CASE t = s /\ x = "end"
    BY <1>1, <1>2, <1>3, <1>4, <2>2 DEF UnderWay, Counts
  <2>3. CASE t # s
    BY <1>1, <1>2, <1>3, <2>3 DEF UnderWay, Counts
  <2> QED
    BY <2>1, <2>2, <2>3
<1> QED
  BY <1>5, <1>6, <1>7, SendersKeep

LEMMA PumpOrTokenStops ==
  ASSUME Account, NEW s \in Sides, PumpFails(s) \/ Cancel(s)
  PROVE  Account' /\ SendersMove
<1>1. Counts
  BY CountsHold DEF Account
<1>2. /\ pump' = pump \/ (pump[s] = "run" /\ pump' = [pump EXCEPT ![s] = "err"])
      /\ token' \in [Sides -> BOOLEAN]
      /\ UNCHANGED <<left, enc, ring, chanVars, clientVars, serverVars>>
  BY DEF PumpFails, PumpFailsIf, Cancel, sendVars, Account, TypeOK
<1>3. \A t \in Sides :
        \/ pump'[t] = pump[t]
        \/ pump[t] = "run" /\ pump'[t] = "err"
  BY <1>2 DEF Account, TypeOK
<1>4. TypeOK'
  <2>1. pump' \in [Sides -> {"idle", "run", "ok", "err"}]
    BY <1>2 DEF Account, TypeOK
  <2> QED
    BY <1>2, <2>1 DEF Account, TypeOK, chanVars, clientVars, serverVars
<1>5. WiresFramed'
  BY <1>2, <1>3 DEF Account, WiresFramed, chanVars
<1>6. SendersMove
  BY <1>1, <1>2, <1>3 DEF SendersMove, UnderWay, Counts, chanVars
<1> QED
  BY <1>4, <1>5, <1>6, SendersKeep

-----------------------------------------------------------------------------
(* The channel's operations. *)

(* A wire stays as it is or is thrown away.                                 *)
WiresShrink ==
  /\ wire' \in [Sides -> Seq(Items)]
  /\ \A t \in Sides : wire'[t] \in {wire[t], << >>}

LEMMA LetGoShrinks ==
  ASSUME TypeOK, NEW s \in Sides, LetGo(s)
  PROVE  /\ WiresShrink
         /\ fin' = [fin EXCEPT ![s] = TRUE]
         /\ gone' = [gone EXCEPT ![s] = TRUE]
<1>1. PICK kept \in {wire[s], << >>} :
        wire' = [wire EXCEPT ![s] = kept, ![Peer(s)] = << >>]
  BY DEF LetGo
<1>2. kept \in Seq(Items) /\ << >> \in Seq(Items)
  BY EmptyWire DEF TypeOK
<1>3. wire \in [Sides -> Seq(Items)]
  BY DEF TypeOK
<1>4. WiresShrink
  <2>1. wire' \in [Sides -> Seq(Items)]
    BY <1>1, <1>2, <1>3
  <2>2. \A t \in Sides : wire'[t] \in {wire[t], << >>}
    BY <1>1, <1>3
  <2> QED
    BY <2>1, <2>2 DEF WiresShrink
<1> QED
  BY <1>4 DEF LetGo

(* What is thrown away takes nothing with it but pieces.                    *)
LEMMA ShrinkKeeps ==
  ASSUME Counts, WiresFramed, WiresShrink, UNCHANGED <<left, ring>>,
         \A t \in Sides : /\ pump[t] = "ok" <=> pump'[t] = "ok"
                          /\ enc[t] \in {"ok", "err"} => enc'[t] \in {"ok", "err"}
                          /\ enc'[t] = "ok" => enc[t] = "ok"
  PROVE  /\ WiresFramed'
         /\ \A t \in Sides :
              /\ UnderWay(t)' \in Nat /\ UnderWay(t)' <= UnderWay(t)
              /\ \A h \in Heads : Begins(wire'[t], h) => Begins(wire[t], h)
<1> SUFFICES ASSUME NEW t \in Sides
             PROVE  /\ Framed(wire'[t]) /\ PiecesIn(wire'[t]) \in Nat
                    /\ PiecesIn(wire'[t]) <= PiecesIn(wire[t])
                    /\ Ended(wire'[t]) => Ended(wire[t])
                    /\ \A h \in Heads : Begins(wire'[t], h) => Begins(wire[t], h)
  BY DEF WiresFramed, UnderWay, Counts
<1>1. CASE wire'[t] = wire[t]
  BY <1>1 DEF Counts
<1>2. CASE wire'[t] = << >>
  BY <1>2, EmptyWire DEF Counts
<1> QED
  BY <1>1, <1>2 DEF WiresShrink

(* A reader takes a prefix or a piece, and the rest of the wire stays.      *)
LEMMA TakeKeeps ==
  ASSUME TypeOK, WiresFramed, NEW s \in Sides, NEW x \in Heads \cup {"piece"},
         Next1(s, x), Take(s), UNCHANGED sendVars
  PROVE  /\ wire' \in [Sides -> Seq(Items)] /\ WiresFramed'
         /\ \A t \in Sides : t # s => wire'[t] = wire[t] /\ UnderWay(t)' = UnderWay(t)
         /\ UnderWay(s)' = UnderWay(s) - (IF x = "piece" THEN 1 ELSE 0)
         /\ \A h \in Heads : ~Begins(wire'[s], h) /\ (Begins(wire[s], h) <=> x = h)
         /\ Ended(wire'[s]) <=> Ended(wire[s])
<1>1. Counts
  BY CountsHold
<1>2. /\ wire[s] # << >> /\ Head(wire[s]) = x
      /\ wire' = [wire EXCEPT ![s] = Tail(@)] /\ wire \in [Sides -> Seq(Items)]
  BY DEF Next1, Empty, Take, TypeOK
<1>3. /\ Tail(wire[s]) \in Seq(Items) /\ Framed(Tail(wire[s]))
      /\ PiecesIn(Tail(wire[s])) = PiecesIn(wire[s]) - (IF x = "piece" THEN 1 ELSE 0)
      /\ Ended(Tail(wire[s])) <=> Ended(wire[s])
      /\ \A h \in Heads : ~Begins(Tail(wire[s]), h) /\ (Begins(wire[s], h) <=> x = h)
  BY <1>1, <1>2, TakeFront DEF Counts
<1>4. wire' \in [Sides -> Seq(Items)]
  BY <1>2, <1>3
<1>5. \A t \in Sides : wire'[t] = IF t = s THEN Tail(wire[t]) ELSE wire[t]
  BY <1>2
<1>6. WiresFramed'
  BY <1>3, <1>5 DEF WiresFramed, sendVars
<1>7. \A t \in Sides : t # s => wire'[t] = wire[t] /\ UnderWay(t)' = UnderWay(t)
  BY <1>5 DEF UnderWay, sendVars
<1>8. UnderWay(s)' = UnderWay(s) - (IF x = "piece" THEN 1 ELSE 0)
  <2>1. PiecesIn(wire[s]) \in Nat /\ ring[s] \in Nat /\ left[s] \in Nat
    BY <1>1 DEF Counts
  <2> QED
    BY <1>3, <1>5, <2>1 DEF UnderWay, sendVars
<1> QED
  BY <1>3, <1>4, <1>5, <1>6, <1>7, <1>8

(* A side's first write puts its prefix on an empty wire.                   *)
LEMMA PutHeadKeeps ==
  ASSUME TypeOK, NEW s \in Sides, NEW h \in Heads, wire[s] = << >>, Put(s, h)
  PROVE  /\ wire' \in [Sides -> Seq(Items)]
         /\ \A t \in Sides : t # s => wire'[t] = wire[t]
         /\ Framed(wire'[s]) /\ PiecesIn(wire'[s]) = 0 /\ ~Ended(wire'[s])
         /\ \A g \in Heads : Begins(wire'[s], g) <=> g = h
<1>1. wire' = [wire EXCEPT ![s] = Append(wire[s], h)] /\ wire \in [Sides -> Seq(Items)]
  BY DEF Put, TypeOK
<1>2. wire'[s] = Append(wire[s], h)
  BY <1>1
<1>3. /\ Append(wire[s], h) \in Seq(Items) /\ Framed(Append(wire[s], h))
      /\ PiecesIn(Append(wire[s], h)) = 0 /\ ~Ended(Append(wire[s], h))
      /\ \A g \in Heads : Begins(Append(wire[s], h), g) <=> g = h
  BY PutHead
<1> QED
  BY <1>1, <1>2, <1>3

-----------------------------------------------------------------------------
(* The caller's steps.                                                      *)
LEMMA OpenKeeps ==
  ASSUME Account, Open
  PROVE  Account'
<1> USE DEF Sides
<1>1. Counts
  BY CountsHold DEF Account
<1>2. /\ cl = "open" /\ cl' = "send" /\ Put("client", "prefix")
      /\ left' = [left EXCEPT !["client"] = ReqLen]
      /\ enc' = [enc EXCEPT !["client"] = "run"]
      /\ pump' = [pump EXCEPT !["client"] = "run"]
      /\ UNCHANGED <<ring, fin, gone, token, outcome, read, serverVars>>
  BY DEF Open, StartSending
<1>3. /\ got = 0 /\ sv \in {"prefix", "dropped"}
      /\ wire["client"] = << >> /\ ring["client"] = 0 /\ left["client"] = 0
  BY <1>2 DEF Account, RequestAddsUp
<1>4. /\ wire' \in [Sides -> Seq(Items)] /\ wire'["server"] = wire["server"]
      /\ Framed(wire'["client"]) /\ PiecesIn(wire'["client"]) = 0
      /\ ~Ended(wire'["client"])
  BY <1>2, <1>3, PutHeadKeeps DEF Account, Heads
<1>5. TypeOK'
  BY <1>2, <1>4, RpcCallAssumption DEF Account, TypeOK, serverVars
<1>6. /\ left'["client"] = ReqLen /\ left'["server"] = left["server"]
      /\ enc'["client"] = "run" /\ enc'["server"] = enc["server"]
      /\ pump'["client"] = "run" /\ pump'["server"] = pump["server"]
  BY <1>2 DEF Account, TypeOK
<1>7. WiresFramed'
  BY <1>2, <1>4, <1>6 DEF Account, WiresFramed
<1>8. UnderWay("client")' = ReqLen /\ UnderWay("server")' = UnderWay("server")
  BY <1>2, <1>3, <1>4, <1>6, RpcCallAssumption DEF UnderWay
<1>9. RequestAddsUp'
  BY <1>2, <1>3, <1>8, RpcCallAssumption DEF Account, RequestAddsUp, serverVars
<1>10. ReplyAddsUp'
  BY <1>2, <1>4, <1>6, <1>8 DEF Account, ReplyAddsUp, Unanswered, NoAnswer,
     ErrorAnswer, ValueAnswer, ReplyPieces, serverVars
<1>11. NothingLost'
  BY <1>2, <1>4, <1>6, <1>8 DEF Account, NothingLost, ReplyPieces, serverVars
<1> QED
  BY <1>5, <1>7, <1>9, <1>10, <1>11 DEF Account

(* However a call ends for the caller: it keeps what it has read, and lets  *)
(* go of the channel or never had one.                                      *)
CallerIsOut ==
  /\ cl # "done" /\ cl' = "done"
  /\ outcome' \in {"ok", "remote", "transport", "encode", "decode", "abandoned"}
  /\ outcome' = "ok" => cl = "value" /\ read = RepLen
  /\ outcome' = "remote" => cl = "text" /\ read = ErrLen
  /\ WiresShrink
  /\ fin' \in [Sides -> BOOLEAN] /\ gone' \in [Sides -> BOOLEAN]
  /\ \/ UNCHANGED <<enc, pump>>
     \/ /\ enc' = [enc EXCEPT !["client"] = IF @ = "run" THEN "err" ELSE @]
        /\ pump' = [pump EXCEPT !["client"] = IF @ = "run" THEN "err" ELSE @]
  /\ UNCHANGED <<left, ring, read, token, serverVars>>

LEMMA CallerIsOutKeeps ==
  ASSUME Account, CallerIsOut
  PROVE  Account'
<1> USE DEF Sides
<1>1. Counts
  BY CountsHold DEF Account
<1>2. TypeOK'
  <2>1. /\ enc' \in [Sides -> {"idle", "run", "ok", "err"}]
        /\ pump' \in [Sides -> {"idle", "run", "ok", "err"}]
    BY DEF CallerIsOut, Account, TypeOK
  <2> QED
    BY <2>1 DEF CallerIsOut, WiresShrink, Account, TypeOK, serverVars
<1>3. /\ enc'["server"] = enc["server"] /\ pump'["server"] = pump["server"]
      /\ enc'["client"] = enc["client"] \/ (enc["client"] = "run" /\ enc'["client"] = "err")
      /\ pump'["client"] = pump["client"]
           \/ (pump["client"] = "run" /\ pump'["client"] = "err")
  BY DEF CallerIsOut, Account, TypeOK
<1>4. /\ WiresFramed'
      /\ \A t \in Sides :
           /\ UnderWay(t)' \in Nat /\ UnderWay(t)' <= UnderWay(t)
           /\ \A h \in Heads : Begins(wire'[t], h) => Begins(wire[t], h)
  BY <1>1, <1>3, ShrinkKeeps DEF CallerIsOut, Account
<1>5. RequestAddsUp'
  BY <1>1, <1>4, RpcCallAssumption, SMTT(30)
  DEF CallerIsOut, Account, TypeOK, Counts, RequestAddsUp, serverVars
<1>6. ReplyAddsUp'
  <2>1. ReplyPieces' \in Int /\ ReplyPieces \in Int /\ ReplyPieces' <= ReplyPieces
    BY <1>1, <1>4, SMTT(30) DEF CallerIsOut, Account, TypeOK, Counts, ReplyPieces
  <2>2. Unanswered' => NoAnswer'
    BY <1>3 DEF CallerIsOut, WiresShrink, Account, ReplyAddsUp, Unanswered, NoAnswer,
       serverVars
  <2>3. ASSUME enc["server"] = "idle" PROVE ErrorAnswer'
    BY <1>3, <1>4, <2>1, <2>3, RpcCallAssumption
    DEF CallerIsOut, Account, ReplyAddsUp, ErrorAnswer, ValueAnswer, Heads, serverVars
  <2>4. ASSUME enc["server"] # "idle" PROVE ValueAnswer'
    BY <1>3, <1>4, <2>1, <2>4, RpcCallAssumption
    DEF CallerIsOut, Account, ReplyAddsUp, ErrorAnswer, ValueAnswer, Heads, serverVars
  <2> QED
    BY <1>3, <2>2, <2>3, <2>4 DEF CallerIsOut, Account, ReplyAddsUp
<1>7. NothingLost'
  BY <1>3 DEF CallerIsOut, Account, NothingLost, serverVars
<1> QED
  BY <1>2, <1>4, <1>5, <1>6, <1>7 DEF Account

LEMMA CallerLeaves ==
  ASSUME Account, SendFails \/ RecvDone \/ RecvFails \/ OpenFails \/ Abandon
  PROVE  Account'
<1> USE DEF Sides
<1>1. ASSUME NEW how, CallEnds(how), cl \in {"send", "prefix", "value", "text"},
             \/ how \in {"transport", "encode", "decode"}
             \/ how = "ok" /\ cl = "value" /\ read = RepLen
             \/ how = "remote" /\ cl = "text" /\ read = ErrLen
      PROVE  CallerIsOut
  <2>1. /\ WiresShrink /\ fin' = [fin EXCEPT !["client"] = TRUE]
        /\ gone' = [gone EXCEPT !["client"] = TRUE]
    BY <1>1, LetGoShrinks DEF CallEnds, Account
  <2> QED
    BY <1>1, <2>1 DEF CallEnds, CallerIsOut, sendVars, Account, TypeOK
<1>2. CASE SendFails
  BY <1>1, <1>2, CallerIsOutKeeps DEF SendFails
<1>3. CASE RecvDone
  BY <1>1, <1>3, CallerIsOutKeeps DEF RecvDone, ValueWhole
<1>4. CASE RecvFails
  BY <1>1, <1>4, CallerIsOutKeeps DEF RecvFails
<1>5. CASE OpenFails
  <2>1. WiresShrink
    BY <1>5 DEF OpenFails, chanVars, WiresShrink, Account, TypeOK
  <2>2. CallerIsOut
    BY <1>5, <2>1 DEF OpenFails, CallerIsOut, chanVars, sendVars, Account, TypeOK
  <2> QED
    BY <2>2, CallerIsOutKeeps
<1>6. CASE Abandon
  <2>1. /\ WiresShrink /\ fin' = [fin EXCEPT !["client"] = TRUE]
        /\ gone' = [gone EXCEPT !["client"] = TRUE]
    BY <1>6, LetGoShrinks DEF Abandon, Account
  <2>2. CallerIsOut
    BY <1>6, <2>1 DEF Abandon, CallerIsOut, Account, TypeOK
  <2> QED
    BY <2>2, CallerIsOutKeeps
<1> QED
  BY <1>2, <1>3, <1>4, <1>5, <1>6

LEMMA SentKeeps ==
  ASSUME Account, Sent
  PROVE  Account'
<1>1. /\ cl = "send" /\ cl' = "prefix"
      /\ UNCHANGED <<outcome, read, sendVars, chanVars, token, serverVars>>
  BY DEF Sent
<1>2. TypeOK' /\ WiresFramed'
  BY <1>1 DEF Account, TypeOK, WiresFramed, sendVars, chanVars, serverVars
<1>3. RequestAddsUp'
  BY <1>1 DEF Account, RequestAddsUp, UnderWay, sendVars, chanVars, serverVars
<1>4. ReplyAddsUp'
  BY <1>1 DEF Account, ReplyAddsUp, Unanswered, NoAnswer, ErrorAnswer, ValueAnswer,
     ReplyPieces, UnderWay, sendVars, chanVars, serverVars
<1>5. NothingLost'
  BY <1>1 DEF Account, NothingLost, ReplyPieces, UnderWay, sendVars, chanVars,
     serverVars
<1> QED
  BY <1>2, <1>3, <1>4, <1>5 DEF Account

LEMMA RecvPrefixKeeps ==
  ASSUME Account, RecvPrefix
  PROVE  Account'
<1> USE DEF Sides
<1>1. Counts
  BY CountsHold DEF Account
<1>2. PICK h \in {"ok", "err"} :
        /\ cl = "prefix" /\ Next1("server", h) /\ Take("server")
        /\ cl' = IF h = "ok" THEN "value" ELSE "text"
        /\ UNCHANGED <<outcome, read, sendVars, fin, gone, token, serverVars>>
  BY DEF RecvPrefix
<1>3. h \in Heads /\ h # "piece" /\ "ok" \in Heads /\ "err" \in Heads
  BY DEF Heads
<1>4. /\ wire' \in [Sides -> Seq(Items)] /\ WiresFramed'
      /\ wire'["client"] = wire["client"]
      /\ UnderWay("client")' = UnderWay("client")
      /\ UnderWay("server")' = UnderWay("server")
      /\ \A g \in Heads : /\ ~Begins(wire'["server"], g)
                          /\ Begins(wire["server"], g) <=> h = g
  BY <1>1, <1>2, <1>3, TakeKeeps DEF Account, Counts
<1>5. wire["server"] # << >>
  BY <1>2 DEF Next1, Empty
<1>6. TypeOK'
  BY <1>2, <1>4 DEF Account, TypeOK, sendVars, serverVars
<1>7. RequestAddsUp'
  BY <1>2, <1>4 DEF Account, RequestAddsUp, sendVars, serverVars
<1>8. ReplyAddsUp'
  BY <1>2, <1>3, <1>4, <1>5 DEF Account, ReplyAddsUp, Unanswered, NoAnswer,
     ErrorAnswer, ValueAnswer, ReplyPieces, sendVars, serverVars
<1>9. NothingLost'
  BY <1>2, <1>4 DEF Account, NothingLost, ReplyPieces, sendVars, serverVars
<1> QED
  BY <1>4, <1>6, <1>7, <1>8, <1>9 DEF Account

LEMMA RecvPieceKeeps ==
  ASSUME Account, RecvPiece
  PROVE  Account'
<1> USE DEF Sides
<1>1. Counts
  BY CountsHold DEF Account
<1>2. /\ (cl = "value" /\ read < RepLen) \/ (cl = "text" /\ read < ErrLen)
      /\ Next1("server", "piece") /\ Take("server")
      /\ read' = read + 1
      /\ UNCHANGED <<cl, outcome, sendVars, fin, gone, token, serverVars>>
  BY DEF RecvPiece
<1>3. "piece" \notin Heads /\ "ok" \in Heads /\ "err" \in Heads
  BY DEF Heads
<1>4. /\ wire' \in [Sides -> Seq(Items)] /\ WiresFramed'
      /\ wire'["client"] = wire["client"]
      /\ UnderWay("client")' = UnderWay("client")
      /\ UnderWay("server")' = UnderWay("server") - 1
      /\ \A g \in Heads : ~Begins(wire'["server"], g)
  BY <1>1, <1>2, <1>3, TakeKeeps DEF Account
<1>5. wire["server"] # << >>
  BY <1>2 DEF Next1, Empty
<1>6. TypeOK'
  BY <1>2, <1>4, RpcCallAssumption DEF Account, TypeOK, sendVars, serverVars
<1>7. RequestAddsUp'
  BY <1>2, <1>4 DEF Account, RequestAddsUp, sendVars, serverVars
<1>8. ReplyPieces' = ReplyPieces
  BY <1>1, <1>2, <1>4 DEF Account, TypeOK, Counts, ReplyPieces
<1>9. ReplyAddsUp'
  BY <1>2, <1>3, <1>4, <1>5, <1>8 DEF Account, ReplyAddsUp, Unanswered, NoAnswer,
     ErrorAnswer, ValueAnswer, sendVars, serverVars
<1>10. NothingLost'
  BY <1>2, <1>4, <1>8 DEF Account, NothingLost, sendVars, serverVars
<1> QED
  BY <1>4, <1>6, <1>7, <1>9, <1>10 DEF Account

-----------------------------------------------------------------------------
(* The handler's steps.  Some only read: the channel stays as it is.        *)
HandlerReads ==
  /\ sv' \in {"run", "okprefix", "errprefix", "held", "close", "drain"}
  /\ sv' \in {"run", "okprefix", "errprefix", "held"} => Unanswered
  /\ sv \notin {"prefix", "dropped"}
  /\ sv' = "run" => got = ReqLen
  /\ sv' = "okprefix" => ran'
  /\ ran' \in BOOLEAN /\ (ran => ran') /\ (ran' => ran \/ sv = "run")
  /\ said' \in {said, "none", "ok", "err"}
  /\ said' # "none" => sv' \in {"close", "drain"}
  /\ said' = "ok" => said = "ok" \/ (enc["server"] = "ok" /\ pump["server"] = "ok")
  /\ said' = "err" => said = "err" \/ (sv = "text" /\ left["server"] = 0)
  /\ said' = "ok" => said = "ok" \/ sv = "value"
  /\ fin' \in [Sides -> BOOLEAN] /\ fin'["client"] = fin["client"]
  /\ UNCHANGED <<sendVars, wire, gone, token, clientVars, got>>

LEMMA HandlerReadsKeeps ==
  ASSUME Account, HandlerReads
  PROVE  Account'
<1> USE DEF Sides
<1>1. TypeOK' /\ WiresFramed'
  BY DEF HandlerReads, Account, TypeOK, WiresFramed, sendVars, clientVars
<1>2. /\ UnderWay("client")' = UnderWay("client") /\ ReplyPieces' = ReplyPieces
  BY DEF HandlerReads, UnderWay, ReplyPieces, sendVars, clientVars
<1>3. RequestAddsUp'
  BY <1>2 DEF HandlerReads, Account, RequestAddsUp, sendVars, clientVars
<1>4. ReplyAddsUp'
  BY <1>2 DEF HandlerReads, Account, ReplyAddsUp, Unanswered, NoAnswer, ErrorAnswer,
     ValueAnswer, sendVars, clientVars
<1>5. NothingLost'
  BY <1>2 DEF HandlerReads, Account, NothingLost, sendVars, clientVars
<1> QED
  BY <1>1, <1>3, <1>4, <1>5 DEF Account

LEMMA HandlerMoves ==
  ASSUME Account,
         DecodeDone \/ DecodeFails \/ RunMethod \/ ReplyFails \/ Replied \/ Close
  PROVE  Account' /\ HandlerReads
<1> USE DEF Sides, sendVars, chanVars, clientVars
<1> SUFFICES HandlerReads
  BY HandlerReadsKeeps
<1>1. fin \in [Sides -> BOOLEAN] /\ ran \in BOOLEAN
  BY DEF Account, TypeOK
<1>2. CASE DecodeDone
  BY <1>1, <1>2 DEF DecodeDone, RequestWhole, ServerMoves, HandlerReads, Unanswered,
     Account, RequestAddsUp, ReplyAddsUp, NoAnswer
<1>3. CASE DecodeFails
  BY <1>1, <1>3 DEF DecodeFails, ServerMoves, HandlerReads, Unanswered,
     Account, RequestAddsUp, ReplyAddsUp, NoAnswer
<1>4. CASE RunMethod
  BY <1>1, <1>4 DEF RunMethod, HandlerReads, Unanswered,
     Account, RequestAddsUp, ReplyAddsUp, NoAnswer
<1>5. CASE ReplyFails
  BY <1>1, <1>5 DEF ReplyFails, ServerMoves, HandlerReads, Account, NothingLost
<1>6. CASE Replied
  <2>1. CASE sv = "value"
    <3>1. \/ said' = "ok" /\ enc["server"] = "ok" /\ pump["server"] = "ok"
          \/ said' = "none"
      BY <1>6, <2>1 DEF Replied
    <3> QED
      BY <1>1, <1>6, <2>1, <3>1 DEF Replied, HandlerReads
  <2>2. CASE sv = "text"
    <3>1. said' = "err" /\ left["server"] = 0
      <4>1. enc["server"] = "idle"
        BY <2>2 DEF Account, ReplyAddsUp, ValueAnswer
      <4> QED
        BY <1>6, <2>2, <4>1 DEF Replied
    <3> QED
      BY <1>1, <1>6, <2>2, <3>1 DEF Replied, HandlerReads
  <2> QED
    BY <1>6, <2>1, <2>2 DEF Replied
<1>7. CASE Close
  BY <1>1, <1>7 DEF Close, HandlerReads, Account, NothingLost
<1> QED
  BY <1>2, <1>3, <1>4, <1>5, <1>6, <1>7

LEMMA RecvRequestKeeps ==
  ASSUME Account, RecvRequest
  PROVE  Account'
<1> USE DEF Sides
<1>1. /\ sv = "prefix" /\ sv' \in {"decode", "errprefix", "held"}
      /\ Next1("client", "prefix") /\ Take("client")
      /\ UNCHANGED <<sendVars, fin, gone, token, clientVars, got, ran, said>>
  BY DEF RecvRequest
<1>2. "prefix" \in Heads /\ "prefix" # "piece"
  BY DEF Heads
<1>3. /\ wire' \in [Sides -> Seq(Items)] /\ WiresFramed'
      /\ wire'["server"] = wire["server"]
      /\ UnderWay("client")' = UnderWay("client")
      /\ UnderWay("server")' = UnderWay("server")
  <2>1. UnderWay("client") \in Nat
    BY CountsHold DEF Account, Counts
  <2>2. UnderWay("client")' = UnderWay("client") - 0
    BY <1>1, <1>2, TakeKeeps DEF Account
  <2> QED
    BY <1>1, <1>2, <2>1, <2>2, TakeKeeps DEF Account
<1>4. wire["client"] # << >>
  BY <1>1 DEF Next1, Empty
<1>5. TypeOK'
  BY <1>1, <1>3 DEF Account, TypeOK, sendVars, clientVars
<1>6. RequestAddsUp'
  BY <1>1, <1>3, <1>4 DEF Account, RequestAddsUp, sendVars, clientVars
<1>7. ReplyAddsUp'
  BY <1>1, <1>3 DEF Account, ReplyAddsUp, Unanswered, NoAnswer, ErrorAnswer,
     ValueAnswer, ReplyPieces, sendVars, clientVars
<1>8. NothingLost'
  BY <1>1, <1>3 DEF Account, NothingLost, ReplyPieces, sendVars, clientVars
<1> QED
  BY <1>3, <1>5, <1>6, <1>7, <1>8 DEF Account

LEMMA DecodePieceKeeps ==
  ASSUME Account, DecodePiece
  PROVE  Account'
<1> USE DEF Sides
<1>1. Counts
  BY CountsHold DEF Account
<1>2. /\ sv = "decode" /\ got < ReqLen /\ got' = got + 1
      /\ Next1("client", "piece") /\ Take("client")
      /\ UNCHANGED <<sendVars, fin, gone, token, clientVars, sv, ran, said>>
  BY DEF DecodePiece
<1>3. /\ wire' \in [Sides -> Seq(Items)] /\ WiresFramed'
      /\ wire'["server"] = wire["server"]
      /\ UnderWay("client")' = UnderWay("client") - 1
      /\ UnderWay("server")' = UnderWay("server")
  BY <1>2, TakeKeeps DEF Account
<1>4. wire["client"] # << >>
  BY <1>2 DEF Next1, Empty
<1>5. TypeOK'
  BY <1>2, <1>3, RpcCallAssumption DEF Account, TypeOK, sendVars, clientVars
<1>6. RequestAddsUp'
  <2>1. got' + UnderWay("client")' = got + UnderWay("client")
    BY <1>1, <1>2, <1>3 DEF Counts, Account, TypeOK
  <2> QED
    BY <1>2, <1>4, <2>1, RpcCallAssumption
    DEF Account, TypeOK, RequestAddsUp, sendVars, clientVars
<1>7. ReplyAddsUp'
  BY <1>2, <1>3 DEF Account, ReplyAddsUp, Unanswered, NoAnswer, ErrorAnswer,
     ValueAnswer, ReplyPieces, sendVars, clientVars
<1>8. NothingLost'
  BY <1>2, <1>3 DEF Account, NothingLost, ReplyPieces, sendVars, clientVars
<1> QED
  BY <1>3, <1>5, <1>6, <1>7, <1>8 DEF Account

(* Others throw away what is on a wire: one nobody has answered yet, or one *)
(* whose caller is gone.                                                    *)
HandlerThrowsAway ==
  /\ WiresShrink
  /\ fin' \in [Sides -> BOOLEAN] /\ fin'["client"] = fin["client"]
  /\ gone' \in [Sides -> BOOLEAN] /\ gone'["client"] = gone["client"]
  /\ \/ sv = "prefix" /\ sv' = "dropped"
     \/ sv = "drain" /\ sv' = "done" /\ cl = "done"
     \/ sv = "drain" /\ sv' = "drain" /\ wire'["server"] = wire["server"]
  /\ UNCHANGED <<sendVars, token, clientVars, got, ran, said>>

LEMMA HandlerThrowsAwayKeeps ==
  ASSUME Account, HandlerThrowsAway
  PROVE  Account'
<1> USE DEF Sides
<1>1. Counts
  BY CountsHold DEF Account
<1>2. TypeOK'
  BY DEF HandlerThrowsAway, WiresShrink, Account, TypeOK, sendVars, clientVars
<1>3. /\ WiresFramed'
      /\ \A t \in Sides :
           /\ UnderWay(t)' \in Nat /\ UnderWay(t)' <= UnderWay(t)
           /\ \A h \in Heads : Begins(wire'[t], h) => Begins(wire[t], h)
  BY <1>1, ShrinkKeeps DEF HandlerThrowsAway, sendVars, Account
<1>4. RequestAddsUp'
  <2>1. got + UnderWay("client")' <= ReqLen
    BY <1>1, <1>3, RpcCallAssumption, SMTT(30) DEF Account, TypeOK, Counts, RequestAddsUp
  <2>2. cl = "open" => wire'["client"] = << >>
    BY DEF HandlerThrowsAway, WiresShrink, Account, RequestAddsUp
  <2> QED
    BY <2>1, <2>2 DEF HandlerThrowsAway, Account, RequestAddsUp, sendVars, clientVars
<1>5. /\ ReplyPieces' \in Int /\ ReplyPieces \in Int /\ ReplyPieces' <= ReplyPieces
      /\ wire'["server"] = wire["server"] => ReplyPieces' = ReplyPieces
      /\ sv = "prefix" => wire'["server"] = wire["server"]
  <2>1. read \in Nat /\ read' = read
    BY RpcCallAssumption DEF HandlerThrowsAway, Account, TypeOK, clientVars
  <2>2. wire'["server"] = wire["server"] => UnderWay("server")' = UnderWay("server")
    BY DEF HandlerThrowsAway, UnderWay, sendVars
  <2>3. sv = "prefix" => wire'["server"] = wire["server"]
    BY DEF HandlerThrowsAway, WiresShrink, Account, ReplyAddsUp, Unanswered, NoAnswer
  <2> QED
    BY <1>1, <1>3, <2>1, <2>2, <2>3, SMTT(30) DEF Counts, ReplyPieces
<1>6. ReplyAddsUp'
  <2>1. Unanswered' => NoAnswer'
    BY <1>5 DEF HandlerThrowsAway, Account, ReplyAddsUp, Unanswered, NoAnswer,
       sendVars, clientVars
  <2>2. ASSUME enc["server"] = "idle" PROVE ErrorAnswer'
    BY <1>3, <1>5, <2>2, RpcCallAssumption
    DEF HandlerThrowsAway, Account, ReplyAddsUp, ErrorAnswer, Heads, sendVars, clientVars
  <2>3. ASSUME enc["server"] # "idle" PROVE ValueAnswer'
    BY <1>3, <1>5, <2>3, RpcCallAssumption
    DEF HandlerThrowsAway, Account, ReplyAddsUp, ValueAnswer, Heads, sendVars, clientVars
  <2> QED
    BY <2>1, <2>2, <2>3 DEF HandlerThrowsAway, Account, ReplyAddsUp, sendVars, clientVars
<1>7. NothingLost'
  BY <1>5 DEF HandlerThrowsAway, Account, NothingLost, ReplyAddsUp, Unanswered, NoAnswer,
     sendVars, clientVars
<1> QED
  BY <1>2, <1>3, <1>4, <1>6, <1>7 DEF Account

LEMMA HandlerLeaves ==
  ASSUME Account, DropRequest \/ Drain \/ DrainDone
  PROVE  Account'
<1> USE DEF Sides, sendVars, clientVars
<1> SUFFICES HandlerThrowsAway
  BY HandlerThrowsAwayKeeps
<1>1. /\ fin \in [Sides -> BOOLEAN] /\ gone \in [Sides -> BOOLEAN]
      /\ wire \in [Sides -> Seq(Items)] /\ << >> \in Seq(Items)
  BY EmptyWire DEF Account, TypeOK
<1>2. CASE DropRequest
  <2>1. /\ WiresShrink /\ fin' = [fin EXCEPT !["server"] = TRUE]
        /\ gone' = [gone EXCEPT !["server"] = TRUE]
    BY <1>2, LetGoShrinks DEF DropRequest, Drops, Account
  <2> QED
    BY <1>1, <1>2, <2>1 DEF DropRequest, Drops, HandlerThrowsAway
<1>3. CASE Drain
  <2>1. WiresShrink
    BY <1>1, <1>3 DEF Drain, WiresShrink
  <2> QED
    BY <1>1, <1>3, <2>1 DEF Drain, HandlerThrowsAway, serverVars
<1>4. CASE DrainDone
  <2>1. /\ WiresShrink /\ fin' = [fin EXCEPT !["server"] = TRUE]
        /\ gone' = [gone EXCEPT !["server"] = TRUE]
    BY <1>4, LetGoShrinks DEF DrainDone, Account
  <2>2. cl = "done"
    BY <1>4 DEF DrainDone, Account, NothingLost
  <2> QED
    BY <1>1, <1>4, <2>1, <2>2 DEF DrainDone, HandlerThrowsAway
<1> QED
  BY <1>2, <1>3, <1>4

(* The rest write the reply.                                                *)
LEMMA ReplyOkKeeps ==
  ASSUME Account, ReplyOk
  PROVE  Account'
<1> USE DEF Sides
<1>1. Counts
  BY CountsHold DEF Account
<1>2. /\ sv = "okprefix" /\ sv' = "value" /\ Put("server", "ok")
      /\ left' = [left EXCEPT !["server"] = RepLen]
      /\ enc' = [enc EXCEPT !["server"] = "run"]
      /\ pump' = [pump EXCEPT !["server"] = "run"]
      /\ UNCHANGED <<ring, fin, gone, token, clientVars, got, ran, said>>
  BY DEF ReplyOk, StartSending
<1>3. /\ enc["server"] = "idle" /\ wire["server"] = << >> /\ left["server"] = 0
      /\ ring["server"] = 0 /\ read = 0 /\ said = "none" /\ ran
      /\ cl \notin {"value", "text"} /\ outcome \notin {"ok", "remote"}
  BY <1>2 DEF Account, RequestAddsUp, ReplyAddsUp, Unanswered, NoAnswer, ErrorAnswer
<1>4. "ok" \in Heads /\ "err" \in Heads
  BY DEF Heads
<1>5. /\ wire' \in [Sides -> Seq(Items)] /\ wire'["client"] = wire["client"]
      /\ Framed(wire'["server"]) /\ PiecesIn(wire'["server"]) = 0
      /\ ~Ended(wire'["server"])
      /\ \A g \in Heads : Begins(wire'["server"], g) <=> g = "ok"
  BY <1>2, <1>3, <1>4, PutHeadKeeps DEF Account
<1>6. TypeOK'
  BY <1>2, <1>5, RpcCallAssumption DEF Account, TypeOK, clientVars
<1>7. /\ left'["server"] = RepLen /\ left'["client"] = left["client"]
      /\ enc'["server"] = "run" /\ enc'["client"] = enc["client"]
      /\ pump'["server"] = "run" /\ pump'["client"] = pump["client"]
  BY <1>2 DEF Account, TypeOK
<1>8. WiresFramed'
  BY <1>2, <1>5, <1>7 DEF Account, WiresFramed
<1>9. UnderWay("server")' = RepLen /\ UnderWay("client")' = UnderWay("client")
  BY <1>2, <1>3, <1>5, <1>7, RpcCallAssumption DEF UnderWay
<1>10. RequestAddsUp'
  BY <1>2, <1>3, <1>5, <1>7, <1>9 DEF Account, RequestAddsUp, clientVars
<1>11. ReplyPieces' = RepLen
  BY <1>2, <1>3, <1>9, RpcCallAssumption DEF ReplyPieces, clientVars
<1>12. ReplyAddsUp'
  BY <1>2, <1>3, <1>4, <1>5, <1>7, <1>11, RpcCallAssumption
  DEF Account, ReplyAddsUp, Unanswered, ValueAnswer, clientVars
<1>13. NothingLost'
  BY <1>2, <1>3, <1>4, <1>5, <1>7, <1>11 DEF Account, NothingLost, clientVars
<1> QED
  BY <1>6, <1>8, <1>10, <1>12, <1>13 DEF Account

LEMMA ReplyErrorKeeps ==
  ASSUME Account, ReplyError
  PROVE  Account'
<1> USE DEF Sides
<1>1. Counts
  BY CountsHold DEF Account
<1>2. /\ sv = "errprefix" /\ sv' = "text" /\ Put("server", "err")
      /\ left' = [left EXCEPT !["server"] = ErrLen]
      /\ UNCHANGED <<enc, ring, pump, fin, gone, token, clientVars, got, ran, said>>
  BY DEF ReplyError
<1>3. /\ enc["server"] = "idle" /\ pump["server"] = "idle"
      /\ wire["server"] = << >> /\ left["server"] = 0
      /\ ring["server"] = 0 /\ read = 0 /\ said = "none"
      /\ cl \notin {"value", "text"} /\ outcome \notin {"ok", "remote"}
  BY <1>2 DEF Account, ReplyAddsUp, Unanswered, NoAnswer, ErrorAnswer
<1>4. "ok" \in Heads /\ "err" \in Heads
  BY DEF Heads
<1>5. /\ wire' \in [Sides -> Seq(Items)] /\ wire'["client"] = wire["client"]
      /\ Framed(wire'["server"]) /\ PiecesIn(wire'["server"]) = 0
      /\ ~Ended(wire'["server"])
      /\ \A g \in Heads : Begins(wire'["server"], g) <=> g = "err"
  BY <1>2, <1>3, <1>4, PutHeadKeeps DEF Account
<1>6. TypeOK'
  BY <1>2, <1>5, RpcCallAssumption DEF Account, TypeOK, clientVars
<1>7. left'["server"] = ErrLen /\ left'["client"] = left["client"]
  BY <1>2 DEF Account, TypeOK
<1>8. WiresFramed'
  BY <1>2, <1>3, <1>5, <1>7 DEF Account, WiresFramed
<1>9. UnderWay("server")' = ErrLen /\ UnderWay("client")' = UnderWay("client")
  BY <1>2, <1>3, <1>5, <1>7, RpcCallAssumption DEF UnderWay
<1>10. RequestAddsUp'
  BY <1>2, <1>3, <1>5, <1>7, <1>9 DEF Account, RequestAddsUp, clientVars
<1>11. ReplyPieces' = ErrLen
  BY <1>2, <1>3, <1>9, RpcCallAssumption DEF ReplyPieces, clientVars
<1>12. ReplyAddsUp'
  BY <1>2, <1>3, <1>4, <1>5, <1>11, RpcCallAssumption
  DEF Account, ReplyAddsUp, Unanswered, ErrorAnswer, clientVars
<1>13. NothingLost'
  BY <1>2, <1>3, <1>4, <1>5, <1>11 DEF Account, NothingLost, clientVars
<1> QED
  BY <1>6, <1>8, <1>10, <1>12, <1>13 DEF Account

LEMMA ReplyTextKeeps ==
  ASSUME Account, ReplyText
  PROVE  Account'
<1> USE DEF Sides
<1>1. Counts
  BY CountsHold DEF Account
<1>2. /\ sv = "text" /\ left["server"] > 0
      /\ wire' = [wire EXCEPT !["server"] = Append(@, "piece")]
      /\ left' = [left EXCEPT !["server"] = @ - 1]
      /\ UNCHANGED <<enc, ring, pump, fin, gone, token, clientVars, serverVars>>
  BY DEF ReplyText, Put
<1>3. enc["server"] = "idle" /\ pump["server"] = "idle"
  BY <1>2 DEF Account, ReplyAddsUp, ErrorAnswer, ValueAnswer
<1>4. "ok" \in Heads /\ "err" \in Heads
  BY DEF Heads
<1>5. LET w == Append(wire["server"], "piece")
      IN  /\ w \in Seq(Items) /\ Framed(w)
          /\ PiecesIn(w) = PiecesIn(wire["server"]) + 1
          /\ ~Ended(w)
          /\ \A h \in Heads : Begins(w, h) <=> Begins(wire["server"], h)
  <2>1. ~Ended(wire["server"])
    BY <1>3 DEF Account, WiresFramed
  <2> QED
    BY <1>1, <2>1, PutBehind DEF Counts
<1>6. /\ wire'["server"] = Append(wire["server"], "piece")
      /\ wire'["client"] = wire["client"]
      /\ left'["server"] = left["server"] - 1 /\ left'["client"] = left["client"]
  BY <1>2 DEF Account, TypeOK
<1>7. TypeOK'
  <2>1. wire' \in [Sides -> Seq(Items)]
    BY <1>2, <1>5 DEF Account, TypeOK
  <2>2. left' \in [Sides -> 0 .. ReqLen + RepLen + ErrLen]
    BY <1>2, RpcCallAssumption DEF Account, TypeOK
  <2> QED
    BY <1>2, <2>1, <2>2 DEF Account, TypeOK, clientVars, serverVars
<1>8. WiresFramed'
  BY <1>2, <1>3, <1>5, <1>6 DEF Account, WiresFramed
<1>9. UnderWay("server")' = UnderWay("server") /\ UnderWay("client")' = UnderWay("client")
  <2>1. PiecesIn(wire["server"]) \in Nat /\ ring["server"] \in Nat /\ left["server"] \in Nat
    BY <1>1 DEF Counts
  <2>2. PiecesIn(wire'["server"]) = PiecesIn(wire["server"]) + 1
    BY <1>5, <1>6
  <2>3. UnderWay("server")' = UnderWay("server")
    <3>1. ring'["server"] = ring["server"]
      BY <1>2
    <3> QED
      BY <1>6, <2>1, <2>2, <3>1 DEF UnderWay
  <2>4. UnderWay("client")' = UnderWay("client")
    BY <1>2, <1>6 DEF UnderWay
  <2> QED
    BY <2>3, <2>4
<1>10. ReplyPieces' = ReplyPieces
  BY <1>2, <1>9 DEF ReplyPieces, clientVars
<1>11. \A h \in Heads : Begins(wire'["server"], h) <=> Begins(wire["server"], h)
  BY <1>5, <1>6
<1>12. RequestAddsUp'
  BY <1>2, <1>6, <1>9 DEF Account, RequestAddsUp, clientVars, serverVars
<1>13. ReplyAddsUp'
  BY <1>2, <1>3, <1>4, <1>10, <1>11 DEF Account, ReplyAddsUp, Unanswered, ErrorAnswer,
     clientVars, serverVars
<1>14. NothingLost'
  BY <1>2, <1>3, <1>4, <1>10, <1>11 DEF Account, NothingLost, clientVars, serverVars
<1> QED
  BY <1>7, <1>8, <1>12, <1>13, <1>14 DEF Account

-----------------------------------------------------------------------------
(* The account holds. *)

LEMMA AccountHolds == Spec => []Account
<1>1. Init => Account
  <2> SUFFICES ASSUME Init
               PROVE  Account
    OBVIOUS
  <2>1. \A s \in Sides : UnderWay(s) = 0
    BY EmptyWire DEF Init, UnderWay
  <2>2. TypeOK
    <3>1. wire \in [Sides -> Seq(Items)]
      BY EmptyWire DEF Init
    <3>2. left \in [Sides -> 0 .. ReqLen + RepLen + ErrLen] /\ ring \in [Sides -> 0 .. RingCap]
      BY RpcCallAssumption DEF Init
    <3>3. /\ enc \in [Sides -> {"idle", "run", "ok", "err"}]
          /\ pump \in [Sides -> {"idle", "run", "ok", "err"}]
          /\ fin \in [Sides -> BOOLEAN] /\ gone \in [Sides -> BOOLEAN]
          /\ token \in [Sides -> BOOLEAN]
      BY DEF Init
    <3>4. read \in 0 .. RepLen + ErrLen /\ got \in 0 .. ReqLen
      <4>1. read = 0 /\ got = 0
        BY DEF Init
      <4> QED
        BY <4>1, RpcCallAssumption
    <3> QED
      BY <3>1, <3>2, <3>3, <3>4 DEF Init, TypeOK
  <2>3. WiresFramed
    BY EmptyWire DEF Init, WiresFramed
  <2>4. RequestAddsUp
    BY <2>1, RpcCallAssumption DEF Init, RequestAddsUp, Sides
  <2>5. ReplyAddsUp
    BY <2>1, EmptyWire, RpcCallAssumption
    DEF Init, ReplyAddsUp, ReplyPieces, NoAnswer, ErrorAnswer, Sides, Heads
  <2>6. NothingLost
    BY DEF Init, NothingLost, Sides
  <2> QED
    BY <2>2, <2>3, <2>4, <2>5, <2>6 DEF Account
<1>2. Account /\ [Next]_vars => Account'
  <2> SUFFICES ASSUME Account, [Next]_vars
               PROVE  Account'
    OBVIOUS
  <2>1. CASE Next
    <3>1. CASE \E s \in Sides : Encoder(s) \/ EncodeFails(s) \/ Pump(s) \/ Cancel(s)
      BY <3>1, EncodeKeeps, EncoderStops, PumpPuts, PumpOrTokenStops DEF Encoder, Pump
    <3>2. CASE Caller \/ OpenFails \/ Abandon
      BY <3>2, OpenKeeps, SentKeeps, RecvPrefixKeeps, RecvPieceKeeps, CallerLeaves DEF Caller
    <3>3. CASE Handler
      BY <3>3, RecvRequestKeeps, DecodePieceKeeps, HandlerMoves, HandlerLeaves,
         ReplyOkKeeps, ReplyErrorKeeps, ReplyTextKeeps DEF Handler
    <3> QED
      BY <2>1, <3>1, <3>2, <3>3 DEF Next
  <2>2. CASE UNCHANGED vars
    BY <2>2 DEF Account, TypeOK, WiresFramed, RequestAddsUp, ReplyAddsUp, NothingLost,
       Unanswered, NoAnswer, ErrorAnswer, ValueAnswer, ReplyPieces, UnderWay,
       vars, sendVars, chanVars, clientVars, serverVars
  <2> QED
    BY <2>1, <2>2
<1> QED
  BY <1>1, <1>2, PTL DEF Spec

-----------------------------------------------------------------------------
(* What the two may take from where they stand.                             *)
Stations == FrontsTell /\ EndsTell

LEMMA HeadedIsBegun == \A w : Headed(w) <=> \E h \in Heads : Begins(w, h)
BY DEF Headed, Begins

LEMMA SendersKeepStations ==
  ASSUME Account, Account', Stations, SendersMove
  PROVE  Stations'
<1> USE DEF Sides, clientVars, serverVars
<1>1. \A t \in Sides : Headed(wire'[t]) <=> Headed(wire[t])
  BY HeadedIsBegun DEF SendersMove
<1>2. \A h \in {"prefix", "ok", "err"}, t \in Sides : Begins(wire'[t], h) <=> Begins(wire[t], h)
  BY DEF SendersMove, Heads
<1>3. FrontsTell'
  <2>1. ASSUME cl \in {"open", "send", "prefix"}
        PROVE  Empty("server")' \/ Begins(wire'["server"], "ok") \/ Begins(wire'["server"], "err")
    <3>1. CASE enc["server"] = "idle"
      <4>1. wire'["server"] = wire["server"]
        BY <3>1 DEF Account, ReplyAddsUp, ErrorAnswer, SendersMove
      <4> QED
        BY <2>1, <4>1 DEF Stations, FrontsTell, Empty
    <3>2. CASE enc["server"] # "idle"
      <4>1. Begins(wire["server"], "ok")
        BY <2>1, <3>2 DEF Account, NothingLost
      <4> QED
        BY <1>2, <4>1
    <3> QED
      BY <3>1, <3>2
  <2> QED
    BY <1>1, <1>2, <2>1 DEF Stations, FrontsTell, SendersMove
<1>4. EndsTell'
  BY DEF Stations, EndsTell, NoChannel, Empty, SendersMove
<1> QED
  BY <1>3, <1>4 DEF Stations

LEMMA OpenKeepsStations ==
  ASSUME Account, Stations, Open
  PROVE  Stations'
<1> USE DEF Sides
<1>1. /\ cl = "open" /\ cl' = "send" /\ sv' = sv /\ Put("client", "prefix")
      /\ enc' = [enc EXCEPT !["client"] = "run"]
      /\ pump' = [pump EXCEPT !["client"] = "run"]
      /\ UNCHANGED <<fin, gone>>
  BY DEF Open, StartSending, serverVars
<1>2. sv \in {"prefix", "dropped"} /\ wire["client"] = << >>
  BY <1>1 DEF Account, RequestAddsUp
<1>3. /\ wire'["server"] = wire["server"]
      /\ Begins(wire'["client"], "prefix") /\ ~Ended(wire'["client"])
  BY <1>1, <1>2, PutHeadKeeps DEF Account, Heads
<1>4. enc'["client"] = "run" /\ pump'["client"] = "run"
  BY <1>1 DEF Account, TypeOK
<1> QED
  BY <1>1, <1>2, <1>3, <1>4 DEF Stations, FrontsTell, EndsTell, Empty

(* The caller goes on with its whole request sent, and reads what comes.    *)
LEMMA CallerKeepsStations ==
  ASSUME Account, Stations, Sent \/ RecvPrefix \/ RecvPiece
  PROVE  Stations'
<1> USE DEF Sides
<1>1. CASE Sent
  BY <1>1 DEF Sent, Joined, Account, WiresFramed, RequestAddsUp, Stations, FrontsTell,
     EndsTell, Empty, sendVars, chanVars, serverVars
<1>2. CASE RecvPrefix \/ RecvPiece
  <2>1. PICK x \in Heads \cup {"piece"} : Next1("server", x) /\ Take("server")
    BY <1>2 DEF RecvPrefix, RecvPiece, Heads
  <2>2. /\ sv' = sv /\ cl \in {"prefix", "value", "text"} /\ cl' \in {"value", "text"}
        /\ UNCHANGED <<sendVars, fin, gone>>
    BY <1>2 DEF RecvPrefix, RecvPiece, serverVars
  <2>3. wire'["client"] = wire["client"] /\ \A h \in Heads : ~Begins(wire'["server"], h)
    BY <2>1, <2>2, TakeKeeps DEF Account
  <2>4. ~Headed(wire'["server"])
    BY <2>3, HeadedIsBegun
  <2> QED
    BY <2>2, <2>3, <2>4 DEF Stations, FrontsTell, EndsTell, sendVars
<1> QED
  BY <1>1, <1>2

LEMMA CallerLeavesStations ==
  ASSUME Account, Stations, SendFails \/ RecvDone \/ RecvFails \/ OpenFails \/ Abandon
  PROVE  Stations'
<1> USE DEF Sides
<1>1. CASE OpenFails
  BY <1>1 DEF OpenFails, Account, RequestAddsUp, Stations, FrontsTell, EndsTell,
     NoChannel, Empty, chanVars, sendVars, serverVars
<1>2. CASE SendFails \/ RecvDone \/ RecvFails \/ Abandon
  <2>1. cl' = "done" /\ sv' = sv /\ LetGo("client")
    BY <1>2 DEF SendFails, RecvDone, RecvFails, Abandon, CallEnds, serverVars
  <2>2. /\ WiresShrink /\ fin' = [fin EXCEPT !["client"] = TRUE]
        /\ gone' = [gone EXCEPT !["client"] = TRUE]
    BY <2>1, LetGoShrinks DEF Account
  <2>3. /\ fin'["client"] /\ gone'["client"]
        /\ fin'["server"] = fin["server"] /\ gone'["server"] = gone["server"]
    BY <2>2 DEF Account, TypeOK
  <2>4. Headed(wire'["client"]) => Headed(wire["client"])
    BY <2>2 DEF WiresShrink, Headed
  <2> QED
    BY <2>1, <2>3, <2>4 DEF Stations, FrontsTell, EndsTell
<1> QED
  BY <1>1, <1>2

(* The handler takes the prefix and the pieces off the wire it reads.       *)
LEMMA HandlerTakesStations ==
  ASSUME Account, Stations, RecvRequest \/ DecodePiece
  PROVE  Stations'
<1> USE DEF Sides
<1>1. PICK x \in Heads \cup {"piece"} : Next1("client", x) /\ Take("client")
  BY DEF RecvRequest, DecodePiece, Heads
<1>2. /\ sv' \in {"decode", "errprefix", "held"} /\ sv \in {"prefix", "decode"}
      /\ UNCHANGED <<cl, sendVars, fin, gone>>
  BY DEF RecvRequest, DecodePiece, clientVars
<1>3. /\ wire'["server"] = wire["server"]
      /\ Ended(wire'["client"]) <=> Ended(wire["client"])
      /\ \A h \in Heads : ~Begins(wire'["client"], h)
  BY <1>1, <1>2, TakeKeeps DEF Account
<1>4. ~Headed(wire'["client"])
  BY <1>3, HeadedIsBegun
<1>5. ~NoChannel
  <2>1. wire["client"] # << >>
    BY <1>1 DEF Next1, Empty
  <2> QED
    BY <2>1 DEF NoChannel, Empty
<1> QED
  BY <1>2, <1>3, <1>4, <1>5 DEF Stations, FrontsTell, EndsTell, Empty, sendVars

(* What the handler does without the channel, and its half that goes first. *)
LEMMA HandlerReadsStations ==
  ASSUME Account, Stations, HandlerReads,
         sv' = "drain" => fin'["server"], fin["server"] => fin'["server"]
  PROVE  Stations'
BY DEF HandlerReads, Unanswered, Stations, FrontsTell, EndsTell, NoChannel, Empty, sendVars,
   clientVars

(* Whoever lets go of the channel has let go of both halves.                *)
LEMMA HandlerLeavesStations ==
  ASSUME Account, Stations, DropRequest \/ Drain \/ DrainDone
  PROVE  Stations'
<1> USE DEF Sides
<1>1. CASE Drain
  <2>1. wire'["client"] = << >> /\ wire'["server"] = wire["server"]
    BY <1>1 DEF Drain, Account, TypeOK
  <2>2. ~Headed(wire'["client"])
    BY <2>1 DEF Headed
  <2> QED
    BY <1>1, <2>1, <2>2 DEF Drain, Stations, FrontsTell, EndsTell, NoChannel, Empty, sendVars,
       clientVars, serverVars
<1>2. CASE DropRequest \/ DrainDone
  <2>1. /\ LetGo("server") /\ UNCHANGED <<sendVars, cl>>
        /\ \/ sv = "prefix" /\ sv' = "dropped"
           \/ sv = "drain" /\ sv' = "done" /\ cl = "done"
    BY <1>2 DEF DropRequest, Drops, DrainDone, clientVars, Account, NothingLost
  <2>2. /\ WiresShrink /\ fin' = [fin EXCEPT !["server"] = TRUE]
        /\ gone' = [gone EXCEPT !["server"] = TRUE]
    BY <2>1, LetGoShrinks DEF Account
  <2>3. /\ fin'["server"] /\ gone'["server"]
        /\ fin'["client"] = fin["client"] /\ gone'["client"] = gone["client"]
    BY <2>2 DEF Account, TypeOK
  <2>4. wire'["client"] = << >>
    BY <2>1 DEF LetGo, Peer, Account, TypeOK
  <2>5. /\ sv = "prefix" => wire'["server"] = << >> /\ cl \notin {"value", "text"}
    BY <2>1, <2>2 DEF WiresShrink, Account, ReplyAddsUp, Unanswered, NoAnswer
  <2>6. ~Headed(wire'["client"]) /\ (wire'["server"] = << >> => ~Headed(wire'["server"]))
    BY <2>4 DEF Headed
  <2> QED
    BY <2>1, <2>3, <2>4, <2>5, <2>6
    DEF Stations, FrontsTell, EndsTell, NoChannel, Empty, sendVars
<1> QED
  BY <1>1, <1>2

(* The first of a reply is its prefix.                                      *)
LEMMA ReplyKeepsStations ==
  ASSUME Account, Stations, ReplyOk \/ ReplyError \/ ReplyText
  PROVE  Stations'
<1> USE DEF Sides
<1>1. \A h \in {"ok", "err"} : h \in Heads
  BY DEF Heads
<1>2. /\ sv \in {"okprefix", "errprefix", "text"} /\ sv' \in {"value", "text"}
      /\ UNCHANGED <<cl, fin, gone>>
  BY DEF ReplyOk, ReplyError, ReplyText, clientVars, serverVars
<1>3. /\ enc'["client"] = enc["client"] /\ pump'["client"] = pump["client"]
      /\ wire'["client"] = wire["client"]
  BY DEF ReplyOk, ReplyError, ReplyText, StartSending, Put, Account, TypeOK
<1>4. /\ cl \in {"open", "send", "prefix"} =>
           Begins(wire'["server"], "ok") \/ Begins(wire'["server"], "err")
      /\ cl \in {"value", "text"} => ~Headed(wire'["server"])
  <2>1. CASE ReplyOk \/ ReplyError
    <3>1. PICK h \in {"ok", "err"} : Put("server", h)
      BY <2>1 DEF ReplyOk, ReplyError
    <3>2. wire["server"] = << >> /\ cl \notin {"value", "text"}
      BY <2>1 DEF ReplyOk, ReplyError, Account, ReplyAddsUp, Unanswered, NoAnswer
    <3>3. Begins(wire'["server"], h)
      BY <1>1, <3>1, <3>2, PutHeadKeeps DEF Account
    <3> QED
      BY <3>2, <3>3
  <2>2. CASE ReplyText
    <3>1. /\ sv = "text" /\ wire'["server"] = Append(wire["server"], "piece")
          /\ pump["server"] = "idle"
      BY <2>2 DEF ReplyText, Put, Account, TypeOK, ReplyAddsUp, ErrorAnswer, ValueAnswer
    <3>2. wire["server"] \in Seq(Items) /\ Framed(wire["server"]) /\ ~Ended(wire["server"])
      BY <3>1 DEF Account, TypeOK, WiresFramed
    <3>3. \A h \in Heads : Begins(wire'["server"], h) <=> Begins(wire["server"], h)
      BY <3>1, <3>2, PutBehind
    <3>4. Headed(wire'["server"]) <=> Headed(wire["server"])
      BY <3>3, HeadedIsBegun
    <3>5. cl \in {"open", "send", "prefix"} => Begins(wire["server"], "err")
      BY <3>1 DEF Account, NothingLost
    <3> QED
      BY <1>1, <3>3, <3>4, <3>5 DEF Stations, FrontsTell
  <2> QED
    BY <2>1, <2>2
<1> QED
  BY <1>2, <1>3, <1>4 DEF Stations, FrontsTell, EndsTell, NoChannel, Empty

LEMMA StationsHold == Spec => []Stations
<1>1. Init => Stations
  BY EmptyWire DEF Init, Stations, FrontsTell, EndsTell, NoChannel, Empty, Sides
<1>2. Account /\ Account' /\ Stations /\ [Next]_vars => Stations'
  <2> SUFFICES ASSUME Account, Account', Stations, [Next]_vars
               PROVE  Stations'
    OBVIOUS
  <2>1. CASE UNCHANGED vars
    BY <2>1 DEF Stations, FrontsTell, EndsTell, NoChannel, Empty, vars, sendVars, chanVars,
       clientVars, serverVars
  <2>2. CASE \E s \in Sides : Encoder(s) \/ EncodeFails(s) \/ Pump(s) \/ Cancel(s)
    <3>1. SendersMove
      BY <2>2, EncodeKeeps, EncoderStops, PumpPuts, PumpOrTokenStops DEF Encoder, Pump
    <3> QED
      BY <3>1, SendersKeepStations
  <2>3. CASE Caller \/ OpenFails \/ Abandon
    BY <2>3, OpenKeepsStations, CallerKeepsStations, CallerLeavesStations DEF Caller
  <2>4. CASE RecvRequest \/ DropRequest \/ DecodePiece \/ Drain \/ DrainDone
             \/ ReplyOk \/ ReplyError \/ ReplyText
    BY <2>4, HandlerTakesStations, HandlerLeavesStations, ReplyKeepsStations
  <2>5. CASE DecodeDone \/ DecodeFails \/ RunMethod \/ ReplyFails \/ Replied \/ Close
    <3>1. HandlerReads
      BY <2>5, HandlerMoves
    <3>2. sv' = "drain" => fin'["server"]
      BY <2>5 DEF DecodeDone, DecodeFails, RunMethod, ReplyFails, Replied, Close, ServerMoves,
         Account, TypeOK, Sides
    <3>3. fin["server"] => fin'["server"]
      BY <2>5 DEF DecodeDone, DecodeFails, RunMethod, ReplyFails, Replied, Close, ServerMoves,
         chanVars, Account, TypeOK, Sides
    <3> QED
      BY <3>1, <3>2, <3>3, HandlerReadsStations
  <2> QED
    BY <2>1, <2>2, <2>3, <2>4, <2>5 DEF Next, Handler
<1> QED
  BY <1>1, <1>2, AccountHolds, PTL DEF Spec

(* What stands first on a wire without a prefix is a piece or the end.      *)
LEMMA FrontOfTheRest ==
  ASSUME NEW w \in Seq(Items), w # << >>
  PROVE  /\ Head(w) = w[1] /\ (~Headed(w) => w[1] \in {"piece", "end"})
         /\ Framed(w) /\ w[1] = "end" => Ended(w)
         /\ Framed(w) /\ ~Headed(w) /\ PiecesIn(w) = 0 => Ended(w)
<1>1. Len(w) \in Nat /\ Len(w) > 0 /\ 1 \in 1 .. Len(w) /\ w[1] \in Items /\ Head(w) = w[1]
  OBVIOUS
<1>2. ~Headed(w) => w[1] \in {"piece", "end"}
  BY <1>1 DEF Headed, Heads, Items
<1>3. Framed(w) /\ w[1] = "end" => Ended(w)
  BY <1>1 DEF Framed, Ended
<1>4. ~Headed(w) /\ PiecesIn(w) = 0 => Ended(w)
  BY <1>1 DEF PiecesIn
<1> QED
  BY <1>1, <1>2, <1>3, <1>4

(* A side that sends and cannot go on is through or waits for room.         *)
LEMMA SenderWaits ==
  ASSUME Account, NEW s \in Sides, enc[s] # "idle", pump[s] # "idle",
         ~EncoderGoesOn(s), ~PumpGoesOn(s), ~Stuck(s)
  PROVE  Joined(s) \/ (~Room(s) /\ ~gone[Peer(s)])
<1>1. /\ enc[s] \in {"run", "ok", "err"} /\ pump[s] \in {"run", "ok", "err"}
      /\ ring[s] \in 0 .. RingCap /\ left[s] \in Nat /\ RingCap > 0
      /\ pump[s] = "ok" => enc[s] \in {"ok", "err"}
  BY RpcCallAssumption DEF Account, TypeOK, WiresFramed
<1>2. CASE enc[s] = "run"
  <2>1. left[s] > 0 /\ ring[s] = RingCap
    BY <1>1, <1>2, RpcCallAssumption DEF EncoderGoesOn
  <2>2. pump[s] = "run"
    BY <1>1, <1>2, <2>1 DEF Stuck
  <2>3. HasSomething(s)
    BY <1>1, <2>1, <2>2, RpcCallAssumption DEF HasSomething
  <2> QED
    BY <2>2, <2>3 DEF PumpGoesOn, WriteFails
<1>3. CASE enc[s] # "run" /\ pump[s] = "run"
  <2>1. HasSomething(s)
    BY <1>1, <1>3 DEF HasSomething, RingShut
  <2> QED
    BY <1>3, <2>1 DEF PumpGoesOn, WriteFails
<1> QED
  BY <1>1, <1>2, <1>3 DEF Joined

(* The handler goes on with what it finds where it reads.                   *)
LEMMA HandlerReadsOn ==
  ASSUME Account, Stations, sv \in {"prefix", "decode", "drain"}, wire["client"] # << >>,
         sv = "prefix" => cl \notin {"open", "done"}
  PROVE  HandlerGoesOn
<1>1. wire["client"] \in Seq(Items)
  BY DEF Account, TypeOK, Sides
<1>2. /\ Head(wire["client"]) = wire["client"][1]
      /\ ~Headed(wire["client"]) => wire["client"][1] \in {"piece", "end"}
  BY <1>1, FrontOfTheRest
<1> QED
  BY <1>2 DEF HandlerGoesOn, Next1, Empty, Stations, FrontsTell, Begins

(* One that writes an error has room for it.                                *)
LEMMA ErrorHasRoom ==
  ASSUME Account, cl = "send", sv \in {"okprefix", "errprefix", "text"}
  PROVE  HandlerGoesOn
<1> USE DEF Sides
<1>1. CASE sv \in {"okprefix", "errprefix"}
  <2>1. wire["server"] = << >>
    BY <1>1 DEF Account, ReplyAddsUp, Unanswered, NoAnswer
  <2>2. Room("server")
    BY <2>1, EmptyWire, RpcCallAssumption DEF Room
  <2> QED
    BY <1>1, <2>2 DEF HandlerGoesOn
<1>2. CASE sv = "text"
  <2>1. Counts
    BY CountsHold DEF Account
  <2>2. pump["server"] = "idle" /\ ReplyPieces <= ErrLen /\ read = 0
    BY <1>2 DEF Account, ReplyAddsUp, ErrorAnswer, ValueAnswer
  <2>3. ~Ended(wire["server"])
    BY <2>2 DEF Account, WiresFramed
  <2>4. /\ wire["server"] \in Seq(Items) /\ PiecesIn(wire["server"]) \in Nat
        /\ ring["server"] \in Nat /\ left["server"] \in Nat
    BY <2>1 DEF Counts
  <2>5. /\ Len(wire["server"]) \in Nat
        /\ PiecesIn(wire["server"]) >= Len(wire["server"]) - 1
    <3>1. Len(wire["server"]) \in Nat
      BY <2>4
    <3>2. PiecesIn(wire["server"]) = Len(wire["server"])
            - (IF Headed(wire["server"]) THEN 1 ELSE 0) - 0
      BY <2>3 DEF PiecesIn
    <3> QED
      BY <3>1, <3>2
  <2>6. left["server"] # 0 => Len(wire["server"]) < Window
    BY <2>2, <2>4, <2>5, RpcCallAssumption DEF ReplyPieces, UnderWay
  <2> QED
    BY <1>2, <2>6 DEF HandlerGoesOn, Room
<1> QED
  BY <1>1, <1>2

(* Nobody waits for each other.  A caller that sends waits for room: the    *)
(* handler reads, or has read everything, or its whole error fits.  One     *)
(* that waits for the reply has sent its request to the end.                *)
LEMMA NobodyWaitsForEver == Account /\ Stations => SomebodyGoesOn
<1> USE DEF Sides
<1> SUFFICES ASSUME Account, Stations, cl # "done" \/ sv \notin {"prefix", "done", "dropped"},
                    ~CallerGoesOn, ~HandlerGoesOn,
                    \A s \in Sides : ~EncoderGoesOn(s) /\ ~PumpGoesOn(s) /\ ~Stuck(s),
                    sv # "held"
             PROVE  FALSE
  BY DEF SomebodyGoesOn
<1>1. Counts
  BY CountsHold DEF Account
<1>2. wire["client"] \in Seq(Items) /\ wire["server"] \in Seq(Items)
  BY <1>1 DEF Counts
<1>3. << >> \in Seq(Items) /\ Len(<< >>) = 0 /\ Window > 0 /\ Window \in Nat
  BY EmptyWire, RpcCallAssumption
<1>4. sv = "value" => Joined("server") \/ (~Room("server") /\ ~gone["client"])
  <2>1. sv = "value" => enc["server"] # "idle" /\ pump["server"] # "idle"
    BY DEF Account, ReplyAddsUp, ErrorAnswer, ValueAnswer
  <2> QED
    BY <2>1, SenderWaits DEF Peer
<1>5. /\ sv \in {"prefix", "decode", "okprefix", "errprefix", "value", "text", "drain",
                 "done", "dropped"}
      /\ cl \in {"send", "prefix", "value", "text", "done"}
  BY DEF Account, TypeOK, HandlerGoesOn, CallerGoesOn
<1>6. CASE cl = "send"
  <2>1. ~Joined("client") /\ ~Room("client") /\ ~gone["server"]
    BY <1>6, SenderWaits DEF Stations, EndsTell, CallerGoesOn, Peer
  <2>2. wire["client"] # << >>
    BY <1>3, <2>1 DEF Room
  <2>3. sv = "value"
    BY <1>5, <1>6, <2>1, <2>2, HandlerReadsOn, ErrorHasRoom DEF Stations, EndsTell
  <2>4. UnderWay("client") = 0
    <3>1. got = ReqLen /\ got + UnderWay("client") <= ReqLen
      BY <2>3 DEF Account, ReplyAddsUp, RequestAddsUp, ErrorAnswer, ValueAnswer
    <3> QED
      BY <1>1, <3>1, RpcCallAssumption DEF Counts
  <2>5. PiecesIn(wire["client"]) = 0
    BY <1>1, <2>4 DEF UnderWay, Counts
  <2>6. ~Headed(wire["client"])
    BY <2>3 DEF Stations, FrontsTell
  <2>7. Ended(wire["client"])
    BY <1>1, <2>2, <2>5, <2>6, FrontOfTheRest DEF Counts
  <2>8. Joined("client")
    BY <2>7 DEF Account, WiresFramed, Joined
  <2> QED
    BY <2>1, <2>8
<1>7. CASE cl \in {"prefix", "value", "text"} /\ wire["server"] # << >>
  <2>1. /\ Head(wire["server"]) = wire["server"][1]
        /\ ~Headed(wire["server"]) => wire["server"][1] \in {"piece", "end"}
        /\ wire["server"][1] = "end" => Ended(wire["server"])
    BY <1>1, <1>7, FrontOfTheRest DEF Counts
  <2>2. cl = "text" => ~Ended(wire["server"])
    BY DEF Account, WiresFramed, ReplyAddsUp, ErrorAnswer, ValueAnswer
  <2> QED
    BY <1>7, <2>1, <2>2 DEF CallerGoesOn, Next1, Empty, Stations, FrontsTell, Begins
<1>8. CASE cl \in {"prefix", "value", "text"} /\ wire["server"] = << >>
  <2>1. Room("server")
    BY <1>3, <1>8 DEF Room
  <2>2. sv \notin {"drain", "done", "dropped"}
    BY <1>8 DEF Stations, EndsTell, CallerGoesOn, ReadFails, Empty, Peer
  <2>3. sv \notin {"okprefix", "errprefix", "value", "text"}
    BY <1>4, <2>1 DEF HandlerGoesOn
  <2>4. sv \in {"prefix", "decode"}
    BY <1>5, <2>2, <2>3
  <2>5. wire["client"] # << >>
    BY <1>8, <2>4 DEF Stations, EndsTell, Ended
  <2> QED
    BY <1>8, <2>4, <2>5, HandlerReadsOn
<1>9. CASE cl = "done"
  <2>1. fin["client"] /\ gone["client"]
    BY <1>5, <1>9 DEF Stations, EndsTell, NoChannel
  <2>2. sv \in {"decode", "okprefix", "errprefix", "value", "text", "drain"}
    BY <1>5, <1>9
  <2>3. CASE sv \in {"decode", "drain"}
    BY <2>1, <2>3, HandlerReadsOn DEF HandlerGoesOn, ReadFails, Empty, Peer
  <2>4. CASE sv \in {"okprefix", "errprefix", "value", "text"}
    BY <1>4, <2>1, <2>4 DEF HandlerGoesOn, WriteFails, Peer
  <2> QED
    BY <2>2, <2>3, <2>4
<1> QED
  BY <1>5, <1>6, <1>7, <1>8, <1>9

-----------------------------------------------------------------------------
(* The theorems. *)

(* No method runs on a request that was cut short, whatever fails, is       *)
(* cancelled or abandoned on either side (encode_into_async_ and the pump   *)
(* end a body that failed the way they end a whole one).                    *)
THEOREM OnlyWhole == Spec => []OnlyWholeRequestsRun
<1>1. Account => OnlyWholeRequestsRun
  <2> SUFFICES ASSUME Account, ran
               PROVE  got = ReqLen /\ left["client"] = 0
    BY DEF OnlyWholeRequestsRun
  <2>1. Counts
    BY CountsHold DEF Account
  <2>2. got = ReqLen /\ got + UnderWay("client") <= ReqLen
    BY DEF Account, RequestAddsUp
  <2>3. PiecesIn(wire["client"]) \in Nat /\ ring["client"] \in Nat /\ left["client"] \in Nat
    BY <2>1 DEF Counts, Sides
  <2> QED
    BY <2>2, <2>3, RpcCallAssumption DEF UnderWay
<1> QED
  BY <1>1, AccountHolds, PTL

(* The account of every call, and with it what its caller is told: Ok only  *)
(* of the whole value of a method that ran, an error only with the whole    *)
(* text of a server that sent no value (unary_call_async_); and that no two *)
(* wait for each other.                                                     *)
THEOREM CallCorrect == Spec => []CallInv
<1>1. Account /\ Stations => CallInv
  <2> SUFFICES ASSUME Account, Stations
               PROVE  OutcomeIsTheReply
    BY NobodyWaitsForEver DEF Account, Stations, CallInv
  <2>1. Counts
    BY CountsHold DEF Account
  <2>2. /\ read \in Nat /\ PiecesIn(wire["server"]) \in Nat
        /\ ring["server"] \in Nat /\ left["server"] \in Nat
    BY <2>1, RpcCallAssumption DEF Account, TypeOK, Counts, Sides
  <2>3. ASSUME outcome = "ok"
        PROVE  ran /\ read = RepLen /\ left["server"] = 0
    <3>1. ran /\ read = RepLen /\ ReplyPieces <= RepLen
      BY <2>3 DEF Account, ReplyAddsUp, ErrorAnswer, ValueAnswer
    <3> QED
      BY <2>2, <3>1, RpcCallAssumption DEF ReplyPieces, UnderWay
  <2>4. ASSUME outcome = "remote"
        PROVE  read = ErrLen /\ left["server"] = 0 /\ enc["server"] = "idle"
    <3>1. enc["server"] = "idle" /\ read = ErrLen /\ ReplyPieces <= ErrLen
      BY <2>4 DEF Account, ReplyAddsUp, ErrorAnswer, ValueAnswer
    <3> QED
      BY <2>2, <3>1, RpcCallAssumption DEF ReplyPieces, UnderWay
  <2> QED
    BY <2>3, <2>4 DEF OutcomeIsTheReply
<1> QED
  BY <1>1, AccountHolds, StationsHold, PTL

(* Neither side ever waits for the other for good: as long as one of them   *)
(* has not returned some future can go on, unless the server holds the call *)
(* or an encoder is stuck.  It needs an error reply that fits the window    *)
(* (RpcCallAssumption), where the router answers before it reads the body.  *)
THEOREM NobodyWaits == Spec => []SomebodyGoesOn
<1>1. CallInv => SomebodyGoesOn
  BY DEF CallInv
<1> QED
  BY <1>1, CallCorrect, PTL

(* Where a reply was written out to its end, a failed read of it is the     *)
(* token's doing: what the caller waits for is on the wire.                 *)
LEMMA FailsOnlyUnreplied ==
  ASSUME Account, RecvFails, said # "none", ~token["client"]
  PROVE  FALSE
<1>1. Counts
  BY CountsHold DEF Account
<1>2. /\ read \in Nat /\ PiecesIn(wire["server"]) \in Nat /\ Framed(wire["server"])
      /\ ring["server"] \in Nat /\ left["server"] \in Nat
      /\ wire["server"] \in Seq(Items)
  BY <1>1, RpcCallAssumption DEF Account, TypeOK, Counts, Sides
<1>3. cl \in {"prefix", "value", "text"} /\ cl # "done"
  BY DEF RecvFails
<1>4. CASE cl = "prefix"
  <2>1. wire["server"] = << >>
    BY <1>4 DEF RecvFails, ReadFails, Empty, Peer
  <2>2. said = "ok" \/ said = "err"
    BY DEF Account, TypeOK
  <2>3. Begins(wire["server"], "ok") \/ Begins(wire["server"], "err")
    BY <1>4, <2>2 DEF Account, NothingLost
  <2> QED
    BY <2>1, <2>3, EmptyWire DEF Heads
<1>5. CASE cl = "value"
  <2>1. enc["server"] = "ok" /\ pump["server"] = "ok" /\ ReplyPieces = RepLen
    BY <1>5 DEF Account, TypeOK, ReplyAddsUp, ErrorAnswer, ValueAnswer, NothingLost
  <2>2. ring["server"] = 0 /\ left["server"] = 0
    BY <2>1 DEF Account, WiresFramed, Sides
  <2>3. read < RepLen /\ (Next1("server", "end") \/ ReadFails("client"))
    BY <1>5 DEF RecvFails
  <2>4. PiecesIn(wire["server"]) > 0
    BY <1>2, <2>1, <2>2, <2>3, RpcCallAssumption DEF ReplyPieces, UnderWay
  <2>5. wire["server"] # << >> /\ wire["server"][1] # "end"
    BY <1>2, <2>4, EmptyWire, PiecesAreCounted
  <2> QED
    BY <1>2, <2>3, <2>5 DEF Next1, ReadFails, Empty, Peer
<1>6. CASE cl = "text"
  <2>1. /\ said = "err" /\ left["server"] = 0 /\ ring["server"] = 0
        /\ ReplyPieces = ErrLen
    BY <1>6 DEF Account, TypeOK, ReplyAddsUp, ErrorAnswer, ValueAnswer, NothingLost
  <2>2. read < ErrLen /\ ReadFails("client")
    BY <1>6 DEF RecvFails
  <2>3. PiecesIn(wire["server"]) > 0
    BY <1>2, <2>1, <2>2, RpcCallAssumption DEF ReplyPieces, UnderWay
  <2> QED
    BY <2>2, <2>3, EmptyWire DEF ReadFails, Empty, Peer
<1> QED
  BY <1>3, <1>4, <1>5, <1>6

(* The method has not run before the handler gets there.                    *)
RunsOnce == sv \in {"prefix", "decode", "run"} => ~ran

LEMMA RunsOnceHolds == Spec => []RunsOnce
<1>1. Init => RunsOnce
  BY DEF Init, RunsOnce
<1>2. RunsOnce /\ [Next]_vars => RunsOnce'
  <2> SUFFICES ASSUME RunsOnce, [Next]_vars
               PROVE  RunsOnce'
    OBVIOUS
  <2>1. CASE ran' = ran /\ (sv' = sv \/ sv' \notin {"prefix", "decode", "run"}
                            \/ sv \in {"prefix", "decode", "run"})
    BY <2>1 DEF RunsOnce
  <2>2. CASE RunMethod
    BY <2>2 DEF RunMethod, RunsOnce
  <2>3. CASE UNCHANGED vars
    BY <2>1, <2>3 DEF vars, serverVars
  <2>4. CASE \E s \in Sides : Encoder(s) \/ EncodeFails(s) \/ Pump(s) \/ Cancel(s)
    BY <2>1, <2>4 DEF Encoder, Encode, EncodeDone, EncodeFails, EncodeCancelled, EncodeEnds,
       Pump, PumpPiece, PumpEnd, PumpFails, PumpFailsIf, Cancel, serverVars
  <2>5. CASE Caller \/ OpenFails \/ Abandon
    BY <2>1, <2>5 DEF Caller, Open, OpenFails, Sent, SendFails, RecvPrefix, RecvPiece,
       RecvDone, RecvFails, CallEnds, Abandon, serverVars
  <2>6. CASE Handler /\ ~RunMethod
    BY <2>1, <2>6 DEF Handler, RecvRequest, DropRequest, Drops, DecodePiece, DecodeDone,
       DecodeFails, ServerMoves, ReplyOk, ReplyError, ReplyText, ReplyFails, Replied, Close,
       Drain, DrainDone, serverVars
  <2> QED
    BY <2>2, <2>3, <2>4, <2>5, <2>6 DEF Next
<1> QED
  BY <1>1, <1>2, PTL DEF Spec

(* A caller returns as it is promised.                                      *)
LEMMA CallerReturnsAsPromised ==
  ASSUME Account, NEW how, CallEnds(how) \/ OpenFails \/ Abandon, outcome' = how,
         how \in Call!Outcomes, outcome = "none",
         how \in {"ok", "remote"} => Waits,
         how = "ok" => ran /\ said # "err",
         how = "remote" => said # "ok",
         said # "none" /\ Waits /\ ~token["client"] => how \in {"ok", "remote", "abandoned"}
  PROVE  Call!Next
<1>1. cl' = "done" /\ token' = token /\ said' = said /\ ran' = ran
  BY DEF CallEnds, OpenFails, Abandon, serverVars
<1>2. ~Waits'
  BY <1>1 DEF Waits
<1>3. Waits' = FALSE
  BY <1>2 DEF Waits
<1>4. Call!Return(how)
  BY <1>1, <1>3 DEF Call!Return, Call!Fits
<1> QED
  BY <1>4 DEF Call!Next

(* Either side's steps are those of the promise: the method runs once, the  *)
(* caller returns once, what it is told fits the reply, and a reply written *)
(* out to its end is what it is told when it waits for it (unary_call_async_*)
(* against the handler and close_channel_async).                            *)
THEOREM ImplementsCall == Spec => CallSpec
<1>1. Init => Call!Init
  BY DEF Init, Call!Init, Waits, Sides
<1>2. Account /\ RunsOnce /\ [Next]_vars => [Call!Next]_(Call!vars)
  <2> SUFFICES ASSUME Account, RunsOnce, [Next]_vars
               PROVE  Call!Next \/ UNCHANGED Call!vars
    OBVIOUS
  <2>1. CASE /\ said' = said /\ ran' = ran /\ outcome' = outcome
             /\ token'["client"] = token["client"] /\ Waits' = Waits
    BY <2>1 DEF Call!vars
  <2>2. CASE UNCHANGED vars
    BY <2>1, <2>2 DEF vars, serverVars, clientVars, Waits
  <2>3. CASE \E s \in Sides : Encoder(s) \/ EncodeFails(s) \/ Pump(s)
    BY <2>1, <2>3 DEF Encoder, Encode, EncodeDone, EncodeFails, EncodeCancelled, EncodeEnds,
       Pump, PumpPiece, PumpEnd, PumpFails, PumpFailsIf, serverVars, clientVars, Waits
  <2>4. ASSUME NEW s \in Sides, Cancel(s)
        PROVE  Call!Next \/ UNCHANGED Call!vars
    <3>1. said' = said /\ ran' = ran /\ outcome' = outcome /\ Waits' = Waits
      BY <2>4 DEF Cancel, serverVars, clientVars, Waits
    <3>2. token' = [token EXCEPT ![s] = TRUE] /\ token \in [Sides -> BOOLEAN]
      BY <2>4 DEF Cancel, Account, TypeOK
    <3>3. CASE s = "client"
      <4>1. token'["client"] = TRUE
        BY <3>2, <3>3 DEF Sides
      <4>2. Call!Cancel
        BY <3>1, <4>1 DEF Call!Cancel
      <4> QED
        BY <4>2 DEF Call!Next
    <3>4. CASE s # "client"
      <4>1. "client" \in Sides
        BY DEF Sides
      <4>2. token'["client"] = token["client"]
        BY <3>2, <3>4, <4>1
      <4> QED
        BY <2>1, <3>1, <4>2
    <3> QED
      BY <3>3, <3>4
  <2>5. CASE Open \/ RecvPrefix \/ RecvPiece
    <3>1. Waits' = Waits
      BY <2>5 DEF Open, RecvPrefix, RecvPiece, Waits
    <3> QED
      BY <2>1, <2>5, <3>1 DEF Open, RecvPrefix, RecvPiece, serverVars
  <2>6. CASE Sent
    <3>1. outcome = "none" /\ ~Waits
      BY <2>6 DEF Sent, Waits, Account, ReplyAddsUp
    <3>2. Waits' = TRUE
      BY <2>6 DEF Sent, Waits
    <3>3. Call!Send
      BY <2>6, <3>1, <3>2 DEF Sent, Call!Send, serverVars
    <3> QED
      BY <3>3 DEF Call!Next
  <2>7. CASE SendFails
    <3>1. ~Waits /\ outcome = "none"
      BY <2>7 DEF SendFails, Waits, Account, ReplyAddsUp
    <3>2. PICK how \in {"encode", "transport"} : CallEnds(how)
      BY <2>7 DEF SendFails
    <3>3. how \in Call!Outcomes /\ how \notin {"ok", "remote"} /\ outcome' = how
      BY <3>2 DEF Call!Outcomes, CallEnds
    <3> QED
      BY <3>1, <3>2, <3>3, CallerReturnsAsPromised
  <2>8. CASE RecvDone
    <3>1. Waits /\ outcome = "none"
      BY <2>8 DEF RecvDone, ValueWhole, Waits, Account, ReplyAddsUp
    <3>2. CASE ValueWhole /\ CallEnds("ok")
      <4>1. ran /\ said # "err"
        BY <3>2 DEF ValueWhole, Account, ReplyAddsUp, ErrorAnswer, ValueAnswer
      <4>2. outcome' = "ok" /\ "ok" \in Call!Outcomes
        BY <3>2 DEF CallEnds, Call!Outcomes
      <4> QED
        BY <3>1, <3>2, <4>1, <4>2, CallerReturnsAsPromised
    <3>3. CASE cl = "text" /\ read = ErrLen /\ CallEnds("remote")
      <4>1. said # "ok"
        BY <3>3 DEF Account, ReplyAddsUp, ErrorAnswer, ValueAnswer
      <4>2. outcome' = "remote" /\ "remote" \in Call!Outcomes
        BY <3>3 DEF CallEnds, Call!Outcomes
      <4> QED
        BY <3>1, <3>3, <4>1, <4>2, CallerReturnsAsPromised
    <3> QED
      BY <2>8, <3>2, <3>3 DEF RecvDone
  <2>9. CASE RecvFails
    <3>1. outcome = "none"
      BY <2>9 DEF RecvFails, Account, ReplyAddsUp
    <3>2. PICK how \in {"transport", "decode"} : CallEnds(how)
      BY <2>9 DEF RecvFails
    <3>3. how \in Call!Outcomes /\ how \notin {"ok", "remote"} /\ outcome' = how
      BY <3>2 DEF Call!Outcomes, CallEnds
    <3>4. said = "none" \/ token["client"]
      BY <2>9, FailsOnlyUnreplied
    <3> QED
      BY <3>1, <3>2, <3>3, <3>4, CallerReturnsAsPromised
  <2>10. CASE OpenFails \/ Abandon
    <3>1. outcome = "none"
      BY <2>10 DEF OpenFails, Abandon, Account, ReplyAddsUp
    <3>2. CASE OpenFails
      <4>1. ~Waits /\ outcome' = "transport" /\ "transport" \in Call!Outcomes
        BY <3>2 DEF OpenFails, Waits, Call!Outcomes
      <4> QED
        BY <3>1, <3>2, <4>1, CallerReturnsAsPromised
    <3>3. CASE Abandon
      <4>1. outcome' = "abandoned" /\ "abandoned" \in Call!Outcomes
        BY <3>3 DEF Abandon, Call!Outcomes
      <4> QED
        BY <3>1, <3>3, <4>1, CallerReturnsAsPromised
    <3> QED
      BY <2>10, <3>2, <3>3
  <2>11. CASE RunMethod
    <3>1. ~ran /\ said = "none"
      BY <2>11 DEF RunMethod, RunsOnce, Account, ReplyAddsUp, Unanswered, NoAnswer
    <3>2. Call!Run
      BY <2>11, <3>1 DEF RunMethod, Call!Run, Waits, clientVars
    <3> QED
      BY <3>2 DEF Call!Next
  <2>12. CASE Replied
    <3>1. /\ ran' = ran /\ outcome' = outcome /\ token' = token /\ Waits' = Waits
          /\ said = "none" /\ said' \in {"none", "ok", "err"} /\ sv \in {"value", "text"}
      BY <2>12 DEF Replied, Waits, clientVars, Account, NothingLost
    <3>2. CASE said' = "none"
      BY <2>1, <3>1, <3>2
    <3>3. CASE said' = "ok"
      <4>1. sv = "value"
        BY <2>12, <3>3 DEF Replied
      <4>2. ran /\ outcome # "remote"
        BY <4>1 DEF Account, ReplyAddsUp, ErrorAnswer, ValueAnswer
      <4>3. Call!Reply("ok")
        BY <3>1, <3>3, <4>2 DEF Call!Reply, Call!Fits
      <4> QED
        BY <4>3 DEF Call!Next
    <3>4. CASE said' = "err"
      <4>1. sv = "text"
        BY <2>12, <3>4 DEF Replied
      <4>2. outcome # "ok"
        BY <4>1 DEF Account, ReplyAddsUp, ErrorAnswer, ValueAnswer
      <4>3. Call!Reply("err")
        BY <3>1, <3>4, <4>2 DEF Call!Reply, Call!Fits
      <4> QED
        BY <4>3 DEF Call!Next
    <3> QED
      BY <3>1, <3>2, <3>3, <3>4
  <2>13. CASE Handler /\ ~RunMethod /\ ~Replied
    <3>1. cl' = cl /\ outcome' = outcome /\ token' = token /\ said' = said /\ ran' = ran
      <4>1. CASE RecvRequest \/ DropRequest \/ DecodePiece \/ DecodeDone \/ DecodeFails
        BY <4>1 DEF RecvRequest, DropRequest, Drops, DecodePiece, DecodeDone, DecodeFails,
           ServerMoves, clientVars
      <4>2. CASE ReplyOk \/ ReplyError \/ ReplyText \/ ReplyFails
        BY <4>2 DEF ReplyOk, ReplyError, ReplyText, ReplyFails, ServerMoves, clientVars,
           serverVars
      <4>3. CASE Close \/ Drain \/ DrainDone
        BY <4>3 DEF Close, Drain, DrainDone, clientVars, serverVars
      <4> QED
        BY <2>13, <4>1, <4>2, <4>3 DEF Handler
    <3> QED
      BY <2>1, <3>1 DEF Waits
  <2> QED
    BY <2>2, <2>3, <2>4, <2>5, <2>6, <2>7, <2>8, <2>9, <2>10, <2>11, <2>12, <2>13
    DEF Next, Caller
<1> QED
  BY <1>1, <1>2, AccountHolds, RunsOnceHolds, PTL DEF Spec, CallSpec, Call!Spec

(* A reply that was written out to its end reaches a caller that waits for  *)
(* it and is not cancelled: close_channel_async lets go of what it sent     *)
(* only when the caller has let go too.                                     *)
THEOREM FinishedReplyIsRead == Spec => FinishedReplyArrives
<1> DEFINE Waiting == /\ cl \in {"prefix", "value", "text"} /\ cl' = "done"
                      /\ said # "none" /\ ~token["client"]
           Told == outcome' \in {"ok", "remote", "abandoned"}
<1>1. Account /\ [Next]_vars => [Waiting => Told]_vars
  <2> SUFFICES ASSUME Account, Next, Waiting
               PROVE  Told
    OBVIOUS
  <2>1. RecvDone \/ RecvFails \/ Abandon
    BY DEF Next, Encoder, Encode, EncodeDone, EncodeFails, EncodeCancelled, EncodeEnds,
       Pump, PumpPiece, PumpEnd, PumpFails, PumpFailsIf, Cancel, Caller, Open, OpenFails,
       Sent, SendFails, RecvPrefix, RecvPiece, Handler, RecvRequest, DropRequest, Drops,
       DecodePiece, DecodeDone, DecodeFails, ServerMoves, RunMethod, ReplyOk, ReplyError,
       ReplyText, ReplyFails, Replied, Close, Drain, DrainDone, clientVars
  <2>2. CASE RecvDone
    BY <2>2 DEF RecvDone, CallEnds
  <2>3. CASE Abandon
    BY <2>3 DEF Abandon
  <2>4. CASE RecvFails
    BY <2>4, FailsOnlyUnreplied
  <2> QED
    BY <2>1, <2>2, <2>3, <2>4
<1> QED
  BY <1>1, AccountHolds, PTL DEF Spec, FinishedReplyArrives
=============================================================================
