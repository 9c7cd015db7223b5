--------------------------- MODULE LimitedProofs ---------------------------
(***************************************************************************)
(* Limited for every window, every choice of quotas and every demand.      *)
(***************************************************************************)
EXTENDS Limited, TLAPS

Demand == [lo : Nat, hi : Nat]
Segm == [total : Nat, rest : Nat]

\* A narrowed demand is empty or asks for the same least, within the quota.
LEMMA NarrowWithin ==
    ASSUME NEW d \in Demand, NEW q \in Nat
    PROVE  /\ NarrowDemand(d, q) \in Demand
           /\ \/ IsEmpty(NarrowDemand(d, q))
              \/ /\ NarrowDemand(d, q).lo = d.lo
                 /\ NarrowDemand(d, q).hi <= q
                 /\ NarrowDemand(d, q).hi <= d.hi
BY DEF NarrowDemand, NoDemand, IsEmpty, Min2, Demand

\* Through both readers: what is lent fits both quotas and the demand.
LEMMA NarrowBothWithin ==
    ASSUME NEW d \in Demand, TypeOK, NEW n \in Lendable(NarrowBoth(d), Avail)
    PROVE  /\ n \in Nat /\ d.lo <= n /\ n <= d.hi
           /\ n <= rleft /\ n <= oleft /\ n <= Avail
<1>1. rleft \in Nat /\ oleft \in Nat
  BY DEF TypeOK
<1>. DEFINE e == NarrowDemand(d, oleft)
            f == NarrowDemand(e, rleft)
<1>2. e \in Demand /\ f \in Demand
  BY <1>1, NarrowWithin
<1>3. n \in f.lo .. f.hi /\ n <= Avail
  BY DEF Lendable, NarrowBoth
<1>4. ~IsEmpty(f) /\ n \in Nat
  BY <1>2, <1>3 DEF IsEmpty, Demand
<1>5. f.lo = e.lo /\ f.hi <= rleft /\ f.hi <= e.hi
  BY <1>1, <1>2, <1>4, NarrowWithin
<1>6. ~IsEmpty(e)
  BY <1>2, <1>4, <1>5 DEF IsEmpty, Demand
<1>7. e.lo = d.lo /\ e.hi <= oleft /\ e.hi <= d.hi
  BY <1>1, <1>6, NarrowWithin
<1>8. QED
  BY <1>1, <1>2, <1>3, <1>4, <1>5, <1>7 DEF Demand

\* What a segment settles is what was moved, when it fits the quota.
LEMMA SettleMoved ==
    ASSUME NEW segm \in Segm, NEW q \in Nat, segm.rest <= segm.total, segm.total <= q
    PROVE  /\ Moved(segm) \in Nat /\ Moved(segm) <= segm.total
           /\ Settle(q, segm) = q - Moved(segm)
BY DEF Moved, Settle, Min2, Segm

\* The numbers a state is made of.
LEMMA Numbers ==
    ASSUME LimitedInv
    PROVE  /\ limits.w \in Nat /\ limits.r \in Nat /\ limits.o \in Nat
           /\ wleft \in Nat /\ rleft \in Nat /\ oleft \in Nat /\ sent \in Nat /\ taken \in Nat
           /\ dst \in Nat /\ filled \in Nat /\ Window \in Nat
           /\ Avail \in Nat /\ Free \in Nat /\ Free = Window - Avail
           /\ wdemand \in Demand /\ rdemand \in Demand
           /\ wsegm \in Segm /\ rsegm \in Segm
BY LimitedAssumption DEF LimitedInv, TypeOK, Avail, Free, Demand, Segm

\* Nothing was lent, moved or asked for yet.
LEMMA InitSound == Init => LimitedInv
<1>. SUFFICES ASSUME Init PROVE LimitedInv
  OBVIOUS
<1>. USE DEF Init, InitWriter, InitReader
<1>1. limits.w \in Nat /\ limits.r \in Nat /\ limits.o \in Nat
  BY LimitedAssumption
<1>2. TypeOK
  <2>1. NoDemand \in [lo : Nat, hi : Nat] /\ NoSegm \in [total : Nat, rest : Nat]
    BY DEF NoDemand, NoSegm
  <2>2. wleft \in Nat /\ rleft \in Nat /\ oleft \in Nat /\ dst \in Nat /\ filled \in Nat
        /\ sent \in Nat /\ taken \in Nat
    BY <1>1
  <2>3. QED
    BY <2>1, <2>2 DEF TypeOK
<1>3. WriterQuota /\ ReaderQuota
  BY <1>1 DEF WriterQuota, ReaderQuota, NoSegm
<1>4. ExactProgress
  BY DEF ExactProgress
<1>5. QED
  BY <1>2, <1>3, <1>4, LimitedAssumption DEF LimitedInv

\* What the writer's steps leave to the reader, and the reverse.
LEMMA WriterKeeps ==
    ASSUME LimitedInv, UNCHANGED reader, UNCHANGED limits, UNCHANGED taken,
           sent' \in Nat, sent <= sent', sent' - taken <= Window
    PROVE  ReaderQuota' /\ ExactProgress' /\ taken' <= sent' /\ sent' - taken' <= Window
<1>1. UNCHANGED <<rleft, oleft, rcall, rdemand, rsegm, rsaid, dst, filled>>
  BY DEF reader
<1>2. ExactProgress'
  BY <1>1 DEF LimitedInv, ExactProgress, Moved
<1>3. ReaderQuota'
  <2>1. Avail' \in Nat /\ Avail <= Avail'
    BY Numbers DEF Avail, LimitedInv
  <2>2. rsegm.total \in Nat
    BY Numbers DEF Segm
  <2>3. ReaderQuota
    BY DEF LimitedInv
  <2>4. QED
    BY <1>1, <2>1, <2>2, <2>3, Numbers DEF ReaderQuota, Min2
<1>4. QED
  BY <1>2, <1>3, Numbers DEF LimitedInv

LEMMA ReaderKeeps ==
    ASSUME LimitedInv, UNCHANGED writer, UNCHANGED limits, UNCHANGED <<sent, closed>>,
           taken' \in Nat, taken <= taken', taken' <= sent
    PROVE  WriterQuota' /\ taken' <= sent' /\ sent' - taken' <= Window
<1>1. UNCHANGED <<wleft, wcall, wdemand, wsegm, wsaid>>
  BY DEF writer
<1>2. Free' \in Nat /\ Free <= Free'
  BY Numbers DEF Free, Avail, LimitedInv
<1>3. WriterQuota
  BY DEF LimitedInv
<1>4. wsegm.total \in Nat
  BY Numbers DEF Segm
<1>5. WriterQuota'
  BY <1>1, <1>2, <1>3, <1>4, Numbers DEF WriterQuota, Min2, IsEmpty
<1>6. QED
  BY <1>5, Numbers DEF LimitedInv

\* The invariant without the parts the other side keeps for a writer's step.
LEMMA WriterStepSound == ASSUME LimitedInv, WriterNext PROVE LimitedInv'
<1>. USE Numbers
<1>. USE DEF Demand, Segm
<1>1. ASSUME NEW d \in Demands, WriteAsync(d) PROVE LimitedInv'
  <2>1. d \in Demand /\ UNCHANGED <<limits, wleft, wsegm, wsaid, sent, taken, closed>> /\ UNCHANGED reader
    BY <1>1, LimitedAssumption DEF WriteAsync
  <2>2. wdemand' = NarrowDemand(d, wleft) /\ wcall' = "wait" /\ wcall = "idle" /\ ~closed
    BY <1>1 DEF WriteAsync
  <2>3. wdemand' \in Demand /\ (IsEmpty(wdemand') \/ wdemand'.hi <= wleft')
    BY <2>1, <2>2, NarrowWithin
  <2>4. TypeOK'
    BY <2>1, <2>2, <2>3 DEF LimitedInv, TypeOK, reader
  <2>5. WriterQuota'
    BY <2>1, <2>2, <2>3 DEF LimitedInv, WriterQuota, Free, Avail
  <2>6. QED
    BY <2>1, <2>4, <2>5, WriterKeeps DEF LimitedInv
<1>2. ASSUME WriteExhausted \/ WriteCancelled PROVE LimitedInv'
  <2>1. UNCHANGED <<limits, wleft, wdemand, wsegm, sent, taken, closed>> /\ UNCHANGED reader
        /\ wcall' = "idle" /\ wsaid' \in WriterSays /\ wcall = "wait"
    BY <1>2 DEF WriteExhausted, WriteCancelled, WriterSays
  <2>2. TypeOK'
    BY <2>1 DEF LimitedInv, TypeOK, reader
  <2>3. WriterQuota'
    BY <2>1 DEF LimitedInv, WriterQuota, Free, Avail
  <2>4. QED
    BY <2>1, <2>2, <2>3, WriterKeeps DEF LimitedInv
<1>3. ASSUME NEW n \in Nat, n <= wleft, n <= Free, ~closed, wsegm' = Lend(n), wcall' = "lent", wsaid' = "ok",
             wdemand' \in Demand, UNCHANGED <<limits, wleft, sent, taken, closed>>, UNCHANGED reader
      PROVE  LimitedInv'
  <2>1. wsegm' = [total |-> n, rest |-> n]
    BY <1>3 DEF Lend
  <2>2. TypeOK'
    BY <1>3, <2>1 DEF LimitedInv, TypeOK, reader
  <2>3. WriterQuota'
    BY <1>3, <2>1 DEF LimitedInv, WriterQuota, Free, Avail, Min2
  <2>4. QED
    BY <1>3, <2>2, <2>3, WriterKeeps DEF LimitedInv
<1>4. ASSUME WriteLent PROVE LimitedInv'
  <2>1. PICK n \in Lendable(wdemand, Free) : wsegm' = Lend(n) /\ wcall' = "lent" /\ wsaid' = "ok"
    BY <1>4 DEF WriteLent
  <2>2. n \in Nat /\ n <= Free /\ n <= wdemand.hi /\ ~IsEmpty(wdemand)
    BY DEF Lendable, IsEmpty
  <2>3. wcall = "wait" /\ UNCHANGED <<limits, wleft, wdemand, sent, taken, closed>> /\ UNCHANGED reader
    BY <1>4 DEF WriteLent
  <2>4. ~closed /\ wdemand.hi <= wleft
    BY <2>2, <2>3 DEF LimitedInv, WriterQuota
  <2>5. QED
    BY <1>3, <2>1, <2>2, <2>3, <2>4
<1>5. ASSUME NEW d \in Demands, TryWrite(d) PROVE LimitedInv'
  <2>. DEFINE e == NarrowDemand(d, wleft)
  <2>1. d \in Demand /\ e \in Demand /\ (IsEmpty(e) \/ e.hi <= wleft)
    BY LimitedAssumption, NarrowWithin
  <2>2. UNCHANGED <<limits, wleft, sent, taken, closed>> /\ UNCHANGED reader /\ wcall = "idle" /\ ~closed
    BY <1>5 DEF TryWrite
  <2>3. CASE wsaid' \in WriterSays /\ wdemand' \in Demand /\ UNCHANGED <<wcall, wsegm>>
    <3>1. TypeOK'
      BY <2>2, <2>3 DEF LimitedInv, TypeOK, reader
    <3>2. WriterQuota'
      BY <2>2, <2>3 DEF LimitedInv, WriterQuota, Free, Avail
    <3>3. QED
      BY <2>2, <3>1, <3>2, WriterKeeps DEF LimitedInv
  <2>4. CASE \E n \in Lendable(e, Free) : wsegm' = Lend(n) /\ wcall' = "lent" /\ wsaid' = "ok" /\ wdemand' = e
    <3>1. PICK n \in Lendable(e, Free) : wsegm' = Lend(n) /\ wcall' = "lent" /\ wsaid' = "ok" /\ wdemand' = e
      BY <2>4
    <3>2. n \in Nat /\ n <= Free /\ n <= e.hi /\ ~IsEmpty(e)
      BY <2>1 DEF Lendable, IsEmpty
    <3>3. QED
      BY <1>3, <2>1, <2>2, <3>1, <3>2
  <2>5. QED
    BY <1>5, <2>1, <2>3, <2>4 DEF TryWrite, WriterSays
<1>6. ASSUME NEW k \in 1 .. wsegm.rest, WriteInto(k) PROVE LimitedInv'
  <2>1. UNCHANGED <<limits, wleft, wcall, wdemand, wsaid, sent, taken, closed>> /\ UNCHANGED reader
        /\ wcall = "lent" /\ wsegm' = [wsegm EXCEPT !.rest = @ - k]
    BY <1>6 DEF WriteInto
  <2>2. wsegm' \in Segm /\ wsegm'.total = wsegm.total /\ wsegm'.rest <= wsegm.rest
    BY <2>1
  <2>3. TypeOK'
    BY <2>1, <2>2 DEF LimitedInv, TypeOK, reader
  <2>4. WriterQuota'
    BY <2>1, <2>2 DEF LimitedInv, WriterQuota, Free, Avail
  <2>5. QED
    BY <2>1, <2>3, <2>4, WriterKeeps DEF LimitedInv
<1>7. ASSUME DropMutSegm PROVE LimitedInv'
  <2>. DEFINE k == Moved(wsegm)
  <2>1. wcall = "lent" /\ wleft' = Settle(wleft, wsegm) /\ sent' = sent + k /\ wcall' = "idle" /\ wsegm' = NoSegm
        /\ UNCHANGED <<limits, wdemand, wsaid, taken, closed>> /\ UNCHANGED reader
    BY <1>7 DEF DropMutSegm
  <2>2. wsegm.rest <= wsegm.total /\ wsegm.total <= wleft /\ wsegm.total <= Free
    BY <2>1 DEF LimitedInv, WriterQuota, Min2
  <2>3. k \in Nat /\ k <= wsegm.total /\ wleft' = wleft - k
    BY <2>1, <2>2, SettleMoved
  <2>4. sent' \in Nat /\ sent <= sent' /\ sent' - taken <= Window /\ wleft' \in Nat
    BY <2>1, <2>2, <2>3 DEF Avail
  <2>5. TypeOK'
    BY <2>1, <2>4 DEF LimitedInv, TypeOK, reader, NoSegm
  <2>6. WriterQuota'
    BY <2>1, <2>2, <2>3, <2>4 DEF LimitedInv, WriterQuota, NoSegm
  <2>7. QED
    BY <2>1, <2>4, <2>5, <2>6, WriterKeeps DEF LimitedInv
<1>8. ASSUME WriteSuffix PROVE LimitedInv'
  <2>1. wcall = "idle" /\ wleft = 0 /\ Free > 0 /\ sent' = sent + 1
        /\ UNCHANGED <<limits, wleft, wcall, wdemand, wsegm, wsaid, taken, closed>> /\ UNCHANGED reader
    BY <1>8 DEF WriteSuffix, writer
  <2>2. TypeOK'
    BY <2>1 DEF LimitedInv, TypeOK, reader
  <2>3. WriterQuota'
    BY <2>1 DEF LimitedInv, WriterQuota
  <2>4. QED
    BY <2>1, <2>2, <2>3, WriterKeeps DEF LimitedInv, Avail
<1>9. ASSUME SenderCloses PROVE LimitedInv'
  <2>1. wcall = "idle" /\ closed' = TRUE
        /\ UNCHANGED <<limits, wleft, wcall, wdemand, wsegm, wsaid, sent, taken>> /\ UNCHANGED reader
    BY <1>9 DEF SenderCloses, writer
  <2>2. TypeOK'
    BY <2>1 DEF LimitedInv, TypeOK, reader
  <2>3. WriterQuota'
    BY <2>1 DEF LimitedInv, WriterQuota, Free, Avail
  <2>4. QED
    BY <2>1, <2>2, <2>3, WriterKeeps DEF LimitedInv
<1>10. QED
  BY <1>1, <1>2, <1>4, <1>5, <1>6, <1>7, <1>8, <1>9 DEF WriterNext

\* The same for the receiver's side.
LEMMA ReaderStepSound == ASSUME LimitedInv, ReaderNext PROVE LimitedInv'
<1>. USE Numbers
<1>. USE DEF Demand, Segm
<1>1. ASSUME NEW d \in Demands, ReadAsync(d) PROVE LimitedInv'
  <2>1. d \in Demand /\ rcall = "idle" /\ dst = 0 /\ rdemand' = d /\ rcall' = "wait"
        /\ UNCHANGED <<limits, rleft, oleft, rsegm, rsaid, dst, filled, sent, taken, closed>> /\ UNCHANGED writer
    BY <1>1, LimitedAssumption DEF ReadAsync, Idle
  <2>2. TypeOK'
    BY <2>1 DEF LimitedInv, TypeOK, writer
  <2>3. ReaderQuota' /\ ExactProgress'
    BY <2>1 DEF LimitedInv, ReaderQuota, ExactProgress, Avail
  <2>4. QED
    BY <2>1, <2>2, <2>3, ReaderKeeps DEF LimitedInv
<1>2. ASSUME NEW n \in {d.hi : d \in Demands}, ReadExact(n) PROVE LimitedInv'
  <2>1. n \in Nat \ {0}
    BY <1>2, LimitedAssumption
  <2>2. rcall = "idle" /\ dst' = n /\ filled' = 0 /\ rdemand' = [lo |-> 1, hi |-> n] /\ rcall' = "wait"
        /\ UNCHANGED <<limits, rleft, oleft, rsegm, rsaid, sent, taken, closed>> /\ UNCHANGED writer
    BY <1>2 DEF ReadExact, Idle
  <2>3. TypeOK'
    BY <2>1, <2>2 DEF LimitedInv, TypeOK, writer
  <2>4. ReaderQuota' /\ ExactProgress'
    BY <2>1, <2>2 DEF LimitedInv, ReaderQuota, ExactProgress, Avail
  <2>5. QED
    BY <2>2, <2>3, <2>4, ReaderKeeps DEF LimitedInv
<1>3. ASSUME ReadExhausted \/ ReadInnerClosing \/ ReadCancelled PROVE LimitedInv'
  <2>1. rcall = "wait" /\ rcall' = "idle" /\ rsaid' \in ReaderSays /\ dst' = 0 /\ filled' = 0
        /\ UNCHANGED <<limits, rleft, oleft, rdemand, rsegm, sent, taken, closed>> /\ UNCHANGED writer
    BY <1>3 DEF ReadExhausted, ReadInnerClosing, ReadCancelled, Starved, ReadFails, ReaderSays
  <2>2. TypeOK'
    BY <2>1 DEF LimitedInv, TypeOK, writer
  <2>3. ReaderQuota' /\ ExactProgress'
    BY <2>1 DEF LimitedInv, ReaderQuota, ExactProgress, Avail
  <2>4. QED
    BY <2>1, <2>2, <2>3, ReaderKeeps DEF LimitedInv
<1>4. ASSUME NEW n \in Nat, n <= rleft, n <= oleft, n <= Avail, dst > 0 => filled + n <= dst,
             rsegm' = Lend(n), rcall' = "lent", rsaid' = "ok", rdemand' \in Demand,
             UNCHANGED <<limits, rleft, oleft, dst, filled, sent, taken, closed>>, UNCHANGED writer
      PROVE  LimitedInv'
  <2>1. rsegm' = [total |-> n, rest |-> n]
    BY <1>4 DEF Lend
  <2>2. TypeOK'
    BY <1>4, <2>1 DEF LimitedInv, TypeOK, writer
  <2>3. ReaderQuota'
    BY <1>4, <2>1 DEF LimitedInv, ReaderQuota, Min2, Avail
  <2>4. ExactProgress'
    BY <1>4, <2>1 DEF LimitedInv, ExactProgress, Moved
  <2>5. QED
    BY <1>4, <2>2, <2>3, <2>4, ReaderKeeps DEF LimitedInv
<1>5. ASSUME ReadLent PROVE LimitedInv'
  <2>1. PICK n \in Lendable(NarrowBoth(rdemand), Avail) : rsegm' = Lend(n)
    BY <1>5 DEF ReadLent
  <2>2. n \in Nat /\ n <= rdemand.hi /\ n <= rleft /\ n <= oleft /\ n <= Avail
    BY <2>1, NarrowBothWithin DEF LimitedInv
  <2>3. rcall = "wait" /\ rcall' = "lent" /\ rsaid' = "ok"
        /\ UNCHANGED <<limits, rleft, oleft, rdemand, dst, filled, sent, taken, closed>> /\ UNCHANGED writer
    BY <1>5 DEF ReadLent
  <2>4. dst > 0 => filled + n <= dst
    BY <2>2, <2>3 DEF LimitedInv, ExactProgress
  <2>5. QED
    BY <1>4, <2>1, <2>2, <2>3, <2>4
<1>6. ASSUME NEW d \in Demands, TryRead(d) PROVE LimitedInv'
  <2>1. d \in Demand /\ rcall = "idle" /\ dst = 0 /\ rdemand' = d
        /\ UNCHANGED <<limits, rleft, oleft, dst, filled, sent, taken, closed>> /\ UNCHANGED writer
    BY <1>6, LimitedAssumption DEF TryRead, Idle
  <2>2. CASE rsaid' \in ReaderSays /\ UNCHANGED <<rcall, rsegm>>
    <3>1. TypeOK'
      BY <2>1, <2>2 DEF LimitedInv, TypeOK, writer
    <3>2. ReaderQuota' /\ ExactProgress'
      BY <2>1, <2>2 DEF LimitedInv, ReaderQuota, ExactProgress, Avail
    <3>3. QED
      BY <2>1, <3>1, <3>2, ReaderKeeps DEF LimitedInv
  <2>3. CASE \E n \in Lendable(NarrowBoth(d), Avail) : rsegm' = Lend(n) /\ rcall' = "lent" /\ rsaid' = "ok"
    <3>1. PICK n \in Lendable(NarrowBoth(d), Avail) : rsegm' = Lend(n) /\ rcall' = "lent" /\ rsaid' = "ok"
      BY <2>3
    <3>2. n \in Nat /\ n <= rleft /\ n <= oleft /\ n <= Avail
      BY <2>1, <3>1, NarrowBothWithin DEF LimitedInv
    <3>3. QED
      BY <1>4, <2>1, <3>1, <3>2
  <2>4. QED
    BY <1>6, <2>2, <2>3 DEF TryRead, ReaderSays
<1>7. ASSUME NEW k \in 1 .. rsegm.rest, MoveOut(k) PROVE LimitedInv'
  <2>1. rcall = "lent" /\ dst = 0 /\ rsegm' = [rsegm EXCEPT !.rest = @ - k]
        /\ UNCHANGED <<limits, rleft, oleft, rcall, rdemand, rsaid, dst, filled, sent, taken, closed>>
        /\ UNCHANGED writer
    BY <1>7 DEF MoveOut
  <2>2. rsegm' \in Segm /\ rsegm'.total = rsegm.total /\ rsegm'.rest <= rsegm.rest
    BY <2>1
  <2>3. TypeOK'
    BY <2>1, <2>2 DEF LimitedInv, TypeOK, writer
  <2>4. ReaderQuota' /\ ExactProgress'
    BY <2>1, <2>2 DEF LimitedInv, ReaderQuota, ExactProgress, Avail
  <2>5. QED
    BY <2>1, <2>3, <2>4, ReaderKeeps DEF LimitedInv
<1>8. ASSUME MoveAll PROVE LimitedInv'
  <2>1. rcall = "lent" /\ dst > 0 /\ filled' = filled + rsegm.rest /\ rsegm' = [rsegm EXCEPT !.rest = 0]
        /\ UNCHANGED <<limits, rleft, oleft, rcall, rdemand, rsaid, dst, sent, taken, closed>> /\ UNCHANGED writer
    BY <1>8 DEF MoveAll
  <2>2. rsegm' \in Segm /\ rsegm'.total = rsegm.total /\ rsegm'.rest = 0
    BY <2>1
  <2>3. TypeOK'
    BY <2>1, <2>2 DEF LimitedInv, TypeOK, writer
  <2>4. ReaderQuota'
    BY <2>1, <2>2 DEF LimitedInv, ReaderQuota, Avail
  <2>5. ExactProgress'
    BY <2>1, <2>2 DEF LimitedInv, ExactProgress
  <2>6. QED
    BY <2>1, <2>3, <2>4, <2>5, ReaderKeeps DEF LimitedInv
<1>9. ASSUME rcall = "lent", DropBoth PROVE
        /\ taken' \in Nat /\ taken <= taken' /\ taken' <= sent
        /\ rleft' \in Nat /\ oleft' \in Nat /\ rsegm' = NoSegm
        /\ rleft' + taken' = rleft + taken /\ oleft' + taken' = oleft + taken
  <2>1. rsegm.rest <= rsegm.total /\ rsegm.total <= rleft /\ rsegm.total <= oleft /\ rsegm.total <= Avail
    BY <1>9 DEF LimitedInv, ReaderQuota, Min2
  <2>2. /\ Moved(rsegm) \in Nat /\ Moved(rsegm) <= rsegm.total
        /\ Settle(rleft, rsegm) = rleft - Moved(rsegm) /\ Settle(oleft, rsegm) = oleft - Moved(rsegm)
    BY <2>1, SettleMoved
  <2>3. QED
    BY <1>9, <2>1, <2>2 DEF DropBoth, Avail
<1>10. ASSUME DropRefSegm PROVE LimitedInv'
  <2>1. rcall = "lent" /\ dst = 0 /\ DropBoth /\ rcall' = "idle"
        /\ UNCHANGED <<limits, rdemand, rsaid, dst, filled, sent, closed>> /\ UNCHANGED writer
    BY <1>10 DEF DropRefSegm
  <2>2. TypeOK'
    BY <1>9, <2>1 DEF LimitedInv, TypeOK, writer, NoSegm
  <2>3. ReaderQuota' /\ ExactProgress'
    BY <1>9, <2>1 DEF LimitedInv, ReaderQuota, ExactProgress, NoSegm
  <2>4. QED
    BY <1>9, <2>1, <2>2, <2>3, ReaderKeeps DEF LimitedInv
<1>11. ASSUME NextRound PROVE LimitedInv'
  <2>1. rcall = "lent" /\ dst > 0 /\ DropBoth /\ UNCHANGED <<limits, sent, closed>> /\ UNCHANGED writer
    BY <1>11 DEF NextRound
  <2>2. \/ /\ filled < dst /\ rdemand' = [lo |-> 1, hi |-> dst - filled] /\ rcall' = "wait"
           /\ UNCHANGED <<rsaid, dst, filled>>
        \/ rcall' = "idle" /\ rsaid' = "full" /\ dst' = 0 /\ filled' = 0 /\ UNCHANGED rdemand
    BY <1>11 DEF NextRound
  <2>3. TypeOK'
    BY <1>9, <2>1, <2>2 DEF LimitedInv, TypeOK, writer, NoSegm
  <2>4. ReaderQuota' /\ ExactProgress'
    BY <1>9, <2>1, <2>2 DEF LimitedInv, ReaderQuota, ExactProgress, NoSegm
  <2>5. QED
    BY <1>9, <2>1, <2>3, <2>4, ReaderKeeps DEF LimitedInv
<1>12. QED
  BY <1>1, <1>2, <1>3, <1>5, <1>6, <1>7, <1>8, <1>10, <1>11 DEF ReaderNext

\* Quotas are exact at every moment: what the body of Limited promises both ends.
THEOREM QuotasExact == Spec => []LimitedInv
<1>1. LimitedInv /\ [Next]_vars => LimitedInv'
  <2>1. LimitedInv /\ UNCHANGED vars => LimitedInv'
    BY DEF vars, writer, reader, LimitedInv, TypeOK, WriterQuota, ReaderQuota, ExactProgress, Avail, Free
  <2>2. QED
    BY <2>1, WriterStepSound, ReaderStepSound DEF Next
<1>2. QED
  BY <1>1, InitSound, PTL DEF Spec

\* Both ends can borrow at once, and as a whole, what they report.
THEOREM ReportsHold == Spec => []PromisedIsLendable
<1>1. LimitedInv => PromisedIsLendable
  <2>. SUFFICES ASSUME LimitedInv PROVE PromisedIsLendable
    OBVIOUS
  <2>. USE Numbers
  <2>. DEFINE n == ConsumerState[1]
              m == ProducerState[1]
  <2>1. n \in Nat /\ n <= Avail /\ n <= rleft /\ n <= oleft
    BY DEF ConsumerState, Min2
  <2>2. m \in Nat /\ m <= Free /\ m <= wleft
    BY DEF ProducerState, Min2
  <2>3. ASSUME NEW k \in Nat \ {0}, NEW q \in Nat, k <= q
        PROVE  NarrowDemand([lo |-> k, hi |-> k], q) = [lo |-> k, hi |-> k]
    BY <2>3 DEF NarrowDemand, Min2
  <2>4. ASSUME NEW k \in Nat, NEW q \in Nat, k <= q
        PROVE  k \in Lendable([lo |-> k, hi |-> k], q)
    BY <2>4 DEF Lendable
  <2>5. n > 0 => n \in Lendable(NarrowBoth([lo |-> n, hi |-> n]), Avail)
    BY <2>1, <2>3, <2>4 DEF NarrowBoth
  <2>6. m > 0 => m \in Lendable(NarrowDemand([lo |-> m, hi |-> m], wleft), Free)
    BY <2>2, <2>3, <2>4
  <2>7. QED
    BY <2>5, <2>6 DEF PromisedIsLendable
<1>2. QED
  BY <1>1, QuotasExact, PTL

\* At a reported end there is nothing in the reader's hands, and no step of
\* anybody gives it more.
LEMMA EndIsQuiet ==
    ASSUME LimitedInv, SaysEnd, Next
    PROVE  /\ UNCHANGED <<limits, taken, rleft, oleft>>
           /\ closed => closed' /\ sent' = sent
<1>. USE Numbers
<1>1. rcall = "lent" => Moved(rsegm) = 0
  <2>1. Min2(Min2(rleft, oleft), Avail) = 0
    BY DEF SaysEnd, ConsumerState, Min2
  <2>2. rcall = "lent" => rsegm.total <= 0 /\ rsegm.rest <= rsegm.total
    BY <2>1 DEF LimitedInv, ReaderQuota
  <2>3. QED
    BY <2>2 DEF Moved, Segm
<1>2. rcall = "lent" /\ DropBoth => UNCHANGED <<taken, rleft, oleft>>
  BY <1>1 DEF DropBoth, Settle, Min2
<1>3. ReaderNext => UNCHANGED <<limits, taken, rleft, oleft, sent, closed>>
  BY <1>2 DEF ReaderNext, ReadAsync, TryRead, ReadExact, ReadExhausted, ReadLent, ReadInnerClosing,
     ReadCancelled, ReadFails, MoveOut, DropRefSegm, MoveAll, NextRound
<1>4. closed => wcall = "idle"
  BY DEF LimitedInv, WriterQuota, TypeOK
<1>5. WriterNext => UNCHANGED <<limits, taken, rleft, oleft>>
  BY DEF WriterNext, WriteAsync, TryWrite, WriteExhausted, WriteLent, WriteCancelled, WriteInto,
     DropMutSegm, WriteSuffix, SenderCloses, reader
<1>6. WriterNext /\ closed => closed' /\ sent' = sent
  BY <1>4 DEF WriterNext, WriteAsync, TryWrite, WriteExhausted, WriteLent, WriteCancelled, WriteInto,
     DropMutSegm, WriteSuffix, SenderCloses
<1>7. QED
  BY <1>3, <1>5, <1>6 DEF Next

\* What the reported state says.
LEMMA EndMeans ==
    LimitedInv => (SaysEnd <=> /\ Avail = 0 \/ rleft = 0 \/ oleft = 0
                               /\ closed \/ rleft = 0 \/ oleft = 0)
<1>. SUFFICES ASSUME LimitedInv
              PROVE  SaysEnd <=> /\ Avail = 0 \/ rleft = 0 \/ oleft = 0
                                 /\ closed \/ rleft = 0 \/ oleft = 0
  OBVIOUS
<1>1. Min2(Min2(Avail, rleft), oleft) = 0 <=> Avail = 0 \/ rleft = 0 \/ oleft = 0
  BY Numbers DEF Min2
<1>2. SaysEnd <=> /\ Min2(Min2(Avail, rleft), oleft) = 0
                  /\ (closed \/ rleft = 0 \/ oleft = 0) = TRUE
  BY DEF SaysEnd, ConsumerState
<1>3. QED
  BY <1>1, <1>2

\* An end that was reported is one, and stays: a transfer may stop there.
THEOREM EndStays == Spec => StateSaysEnd
<1>. DEFINE Over == \/ taken = Min2(limits.r, limits.o)
                    \/ closed /\ taken = sent
            Step == SaysEnd' /\ taken' = taken /\ Over
<1>0. (LimitedInv => (SaysEnd <=> /\ Avail = 0 \/ rleft = 0 \/ oleft = 0
                                  /\ closed \/ rleft = 0 \/ oleft = 0))'
  BY EndMeans, PTL
<1>1. LimitedInv /\ SaysEnd => Over
  <2>. SUFFICES ASSUME LimitedInv, SaysEnd PROVE Over
    OBVIOUS
  <2>1. rleft + taken = limits.r /\ oleft + taken = limits.o
    BY DEF LimitedInv, ReaderQuota
  <2>2. CASE rleft = 0 \/ oleft = 0
    BY <2>1, <2>2, Numbers DEF Min2
  <2>3. CASE closed /\ Avail = 0
    BY <2>3, Numbers DEF Avail
  <2>4. QED
    BY <2>2, <2>3, EndMeans
<1>2. LimitedInv /\ SaysEnd /\ Next => SaysEnd' /\ taken' = taken
  <2>. SUFFICES ASSUME LimitedInv, SaysEnd, Next PROVE SaysEnd' /\ taken' = taken
    OBVIOUS
  <2>1. UNCHANGED <<taken, rleft, oleft>> /\ (closed => closed' /\ sent' = sent)
    BY EndIsQuiet
  <2>2. LimitedInv'
    BY WriterStepSound, ReaderStepSound DEF Next
  <2>3. SaysEnd' <=> /\ Avail' = 0 \/ rleft' = 0 \/ oleft' = 0
                     /\ closed' \/ rleft' = 0 \/ oleft' = 0
    BY <1>0, <2>2
  <2>4. closed => Avail' = Avail
    BY <2>1 DEF Avail
  <2>5. QED
    BY <2>1, <2>3, <2>4, EndMeans
<1>3. LimitedInv /\ [Next]_vars => [SaysEnd => Step]_vars
  BY <1>1, <1>2
<1>4. QED
  BY <1>3, QuotasExact, PTL DEF Spec, StateSaysEnd
=============================================================================
