------------------------------ MODULE Limited ------------------------------
(***************************************************************************)
(* Limited readers and writers (abs_mptp/src/messaging/limited.rs).        *)
(*                                                                         *)
(* A sized body crosses one direction of a channel.  The sender writes it  *)
(* through a LimitedWriter and its suffix behind it without one.  The      *)
(* receiver reads it through a LimitedReader, and reads that through a     *)
(* second one, as a decoder does with the body view of a session.          *)
(*                                                                         *)
(* Bytes are counted, not named: the channel is first in, first out, so    *)
(* the first limits.w bytes are the body and all later ones the suffix.    *)
(* A segment is what it had when it was lent (total) and what is still in  *)
(* it (rest); quota and channel learn of it only when it is dropped.       *)
(***************************************************************************)
EXTENDS Integers

CONSTANTS
    Limits,     \* the quotas to choose from: [w, r, o] of writer, reader and outer reader
    Window,     \* bytes the channel holds
    SuffixLen,  \* bytes the sender has for after the body
    Demands     \* what callers ask for: [lo, hi], at least lo and at most hi items

ASSUME LimitedAssumption ==
    /\ Window \in Nat \ {0}
    /\ SuffixLen \in Nat
    /\ Limits \subseteq [w : Nat, r : Nat, o : Nat]
    /\ Demands \subseteq [lo : Nat \ {0}, hi : Nat \ {0}]

VARIABLES
    limits,                                \* the quotas of this behaviour
    wleft, wcall, wdemand, wsegm, wsaid,   \* LimitedWriter and its user
    rleft, oleft,                          \* the two LimitedReaders
    rcall, rdemand, rsegm, rsaid,          \* the outer one's user
    dst, filled,                           \* read_exact_into_async_: buffer length, filled so far
    sent, taken, closed                    \* the channel: written, consumed, sender gone

writer == <<wleft, wcall, wdemand, wsegm, wsaid>>
reader == <<rleft, oleft, rcall, rdemand, rsegm, rsaid, dst, filled>>
vars == <<limits, writer, reader, sent, taken, closed>>

NoDemand == [lo |-> 1, hi |-> 0]
NoSegm == [total |-> 0, rest |-> 0]
Lend(n) == [total |-> n, rest |-> n]
Min2(a, b) == IF a < b THEN a ELSE b

(***************************************************************************)
(* narrow_demand_: the demand met with "at most left"; nothing is left of  *)
(* it when the quota is used up or smaller than the least that is asked.   *)
(***************************************************************************)
NarrowDemandUnmet(d, left) == [lo |-> Min2(d.lo, left), hi |-> d.hi]
NarrowDemand(d, left) ==
    IF left = 0 \/ d.lo > left THEN NoDemand
    ELSE [lo |-> d.lo, hi |-> Min2(d.hi, left)]

IsEmpty(d) == d.hi < d.lo

\* What the outer reader asks of the inner one, and that one of the channel.
NarrowBoth(d) == NarrowDemand(NarrowDemand(d, oleft), rleft)

(***************************************************************************)
(* What the segment's Drop takes off a quota: what was moved out of it or  *)
(* into it, however much of it was lent.                                   *)
(***************************************************************************)
Moved(segm) == segm.total - segm.rest
MonusAll(left, segm) == left - Min2(left, segm.total)
Settle(left, segm) == left - Min2(left, Moved(segm))

\* LimitedWriter::new and LimitedReader::new: the limit is the quota.
InitWriter ==
    /\ wleft = limits.w /\ wcall = "idle" /\ wdemand = NoDemand /\ wsegm = NoSegm
    /\ wsaid = "none"

InitReader ==
    /\ rleft = limits.r /\ oleft = limits.o
    /\ rcall = "idle" /\ rdemand = NoDemand /\ rsegm = NoSegm /\ rsaid = "none"
    /\ dst = 0 /\ filled = 0

Init ==
    /\ limits \in Limits
    /\ InitWriter /\ InitReader
    /\ sent = 0 /\ taken = 0 /\ closed = FALSE

-----------------------------------------------------------------------------
(* The channel, as a ring with a window.                                   *)

Avail == sent - taken
Free == Window - Avail

\* The lengths a ring may lend for a demand, out of n items.
Lendable(d, n) == { k \in d.lo .. d.hi : k <= n }

-----------------------------------------------------------------------------
(* LimitedWriter.                                                          *)

\* write_async: the demand is narrowed when the future is made.
WriteAsync(d) ==
    /\ wcall = "idle" /\ ~closed
    /\ wdemand' = NarrowDemand(d, wleft)
    /\ wcall' = "wait"
    /\ UNCHANGED <<limits, wleft, wsegm, wsaid, reader, sent, taken, closed>>

\* limited_write_async_: nothing to lend within the quota.
WriteExhausted ==
    /\ wcall = "wait"
    /\ IsEmpty(wdemand) \/ wleft = 0
    /\ wcall' = "idle" /\ wsaid' = "exhausted"
    /\ UNCHANGED <<limits, wleft, wdemand, wsegm, reader, sent, taken, closed>>

\* limited_write_async_: the channel lends room.
WriteLent ==
    /\ wcall = "wait" /\ wleft > 0
    /\ \E n \in Lendable(wdemand, Free) :
          /\ wsegm' = Lend(n)
          /\ wcall' = "lent" /\ wsaid' = "ok"
    /\ UNCHANGED <<limits, wleft, wdemand, reader, sent, taken, closed>>

\* The token fires while room is awaited; the operation is polled before it.
WriteCancelled ==
    /\ wcall = "wait" /\ wleft > 0 /\ ~IsEmpty(wdemand)
    /\ Lendable(wdemand, Free) = {}
    /\ wcall' = "idle" /\ wsaid' = "cancelled"
    /\ UNCHANGED <<limits, wleft, wdemand, wsegm, reader, sent, taken, closed>>

\* try_write: the same without waiting; a channel without room says so.
TryWrite(d) ==
    LET narrowed == NarrowDemand(d, wleft) IN
    /\ wcall = "idle" /\ ~closed
    /\ \/ /\ IsEmpty(narrowed)
          /\ wsaid' = "exhausted"
          /\ UNCHANGED <<wcall, wdemand, wsegm>>
       \/ /\ ~IsEmpty(narrowed)
          /\ wdemand' = narrowed
          /\ \/ /\ Lendable(narrowed, Free) = {}
                /\ wsaid' = "inner"
                /\ UNCHANGED <<wcall, wsegm>>
             \/ \E n \in Lendable(narrowed, Free) :
                   /\ wsegm' = Lend(n)
                   /\ wcall' = "lent" /\ wsaid' = "ok"
    /\ UNCHANGED <<limits, wleft, reader, sent, taken, closed>>

\* The user fills a part of the segment, through it or a child of it.
WriteInto(k) ==
    /\ wcall = "lent" /\ k \in 1 .. wsegm.rest
    /\ wsegm' = [wsegm EXCEPT !.rest = @ - k]
    /\ UNCHANGED <<limits, wleft, wcall, wdemand, wsaid, reader, sent, taken, closed>>

\* LimitedMutSegm is dropped: quota and channel are told what was written.
DropMutSegm ==
    /\ wcall = "lent"
    /\ wleft' = Settle(wleft, wsegm)
    /\ sent' = sent + Moved(wsegm)
    /\ wcall' = "idle" /\ wsegm' = NoSegm
    /\ UNCHANGED <<limits, wdemand, wsaid, reader, taken, closed>>

\* After the body the sender goes on with the channel itself.
WriteSuffix ==
    /\ wcall = "idle" /\ wleft = 0 /\ ~closed
    /\ sent < limits.w + SuffixLen /\ Free > 0
    /\ sent' = sent + 1
    /\ UNCHANGED <<limits, writer, reader, taken, closed>>

SenderCloses ==
    /\ wcall = "idle" /\ ~closed
    /\ closed' = TRUE
    /\ UNCHANGED <<limits, writer, reader, sent, taken>>

\* producer_state: room within the quota, and closed when that is used up.
ProducerState == <<Min2(Free, wleft), wleft = 0>>

-----------------------------------------------------------------------------
(* The outer LimitedReader over the inner one.                             *)

Idle == rcall = "idle" /\ dst = 0

\* read_async: nothing is asked of the channel before the first poll.
ReadAsync(d) ==
    /\ Idle
    /\ rdemand' = d /\ rcall' = "wait"
    /\ UNCHANGED <<limits, writer, rleft, oleft, rsegm, rsaid, dst, filled, sent, taken, closed>>

\* The call is over without a segment, and the user knows why.
ReadFails(why) ==
    /\ rcall' = "idle" /\ rsaid' = why /\ dst' = 0 /\ filled' = 0
    /\ UNCHANGED <<limits, writer, rleft, oleft, rdemand, rsegm, sent, taken, closed>>

\* limited_read_step_: one of the two quotas leaves nothing of the demand.
ReadExhausted ==
    /\ rcall = "wait" /\ IsEmpty(NarrowBoth(rdemand))
    /\ ReadFails("exhausted")

\* limited_read_step_: the channel lends what is there.
ReadLent ==
    /\ rcall = "wait"
    /\ \E n \in Lendable(NarrowBoth(rdemand), Avail) : rsegm' = Lend(n)
    /\ rcall' = "lent" /\ rsaid' = "ok"
    /\ UNCHANGED <<limits, writer, rleft, oleft, rdemand, dst, filled, sent, taken, closed>>

Starved ==
    /\ rcall = "wait" /\ ~IsEmpty(NarrowBoth(rdemand))
    /\ Lendable(NarrowBoth(rdemand), Avail) = {}

\* The sender is gone and what it left is too little: the channel's own error.
ReadInnerClosing == Starved /\ closed /\ ReadFails("closing")

\* The token fires while bytes are awaited; the operation is polled before it.
ReadCancelled == Starved /\ ~closed /\ ReadFails("cancelled")

\* limited_try_read_: the same at once, from the outermost reader inwards.
TryRead(d) ==
    /\ Idle
    /\ rdemand' = d
    /\ \/ /\ IsEmpty(NarrowBoth(d))
          /\ rsaid' = "exhausted" /\ UNCHANGED <<rcall, rsegm>>
       \/ /\ ~IsEmpty(NarrowBoth(d)) /\ Lendable(NarrowBoth(d), Avail) = {}
          /\ rsaid' = "inner" /\ UNCHANGED <<rcall, rsegm>>
       \/ \E n \in Lendable(NarrowBoth(d), Avail) :
             rsegm' = Lend(n) /\ rcall' = "lent" /\ rsaid' = "ok"
    /\ UNCHANGED <<limits, writer, rleft, oleft, dst, filled, sent, taken, closed>>

\* The user moves a part of the segment out, through it or a child of it.
MoveOut(k) ==
    /\ rcall = "lent" /\ dst = 0 /\ k \in 1 .. rsegm.rest
    /\ rsegm' = [rsegm EXCEPT !.rest = @ - k]
    /\ UNCHANGED <<limits, writer, rleft, oleft, rcall, rdemand, rsaid, dst, filled, sent, taken, closed>>

\* The wrapped segments are dropped from the outside in, each settling its own quota.
DropBoth ==
    /\ oleft' = Settle(oleft, rsegm) /\ rleft' = Settle(rleft, rsegm)
    /\ taken' = taken + Moved(rsegm)
    /\ rsegm' = NoSegm

DropRefSegm ==
    /\ rcall = "lent" /\ dst = 0
    /\ DropBoth /\ rcall' = "idle"
    /\ UNCHANGED <<limits, writer, rdemand, rsaid, dst, filled, sent, closed>>

\* consumer_state of the outer reader, which asks the inner one.
ConsumerStateInner == <<Avail, closed \/ rleft = 0 \/ oleft = 0>>
ConsumerState ==
    <<Min2(Min2(Avail, rleft), oleft), closed \/ rleft = 0 \/ oleft = 0>>

-----------------------------------------------------------------------------
(* read_exact_into_async_: a loop of reads of "what is there, up to the    *)
(* rest of the buffer", each moved out as a whole.                         *)

ReadExactWhole(n) ==
    /\ Idle
    /\ dst' = n /\ filled' = 0 /\ rdemand' = [lo |-> n, hi |-> n] /\ rcall' = "wait"
    /\ UNCHANGED <<limits, writer, rleft, oleft, rsegm, rsaid, sent, taken, closed>>

ReadExact(n) ==
    /\ Idle
    /\ dst' = n /\ filled' = 0 /\ rdemand' = [lo |-> 1, hi |-> n] /\ rcall' = "wait"
    /\ UNCHANGED <<limits, writer, rleft, oleft, rsegm, rsaid, sent, taken, closed>>

MoveAll ==
    /\ rcall = "lent" /\ dst > 0 /\ rsegm.rest > 0
    /\ filled' = filled + rsegm.rest
    /\ rsegm' = [rsegm EXCEPT !.rest = 0]
    /\ UNCHANGED <<limits, writer, rleft, oleft, rcall, rdemand, rsaid, dst, sent, taken, closed>>

NextRound ==
    /\ rcall = "lent" /\ dst > 0 /\ rsegm.rest = 0
    /\ DropBoth
    /\ IF filled < dst
       THEN /\ rdemand' = [lo |-> 1, hi |-> dst - filled] /\ rcall' = "wait"
            /\ UNCHANGED <<rsaid, dst, filled>>
       ELSE /\ rcall' = "idle" /\ rsaid' = "full" /\ dst' = 0 /\ filled' = 0
            /\ UNCHANGED rdemand
    /\ UNCHANGED <<limits, writer, sent, closed>>

-----------------------------------------------------------------------------
WriterNext ==
    \/ \E d \in Demands : WriteAsync(d) \/ TryWrite(d)
    \/ WriteExhausted \/ WriteLent \/ WriteCancelled
    \/ \E k \in 1 .. wsegm.rest : WriteInto(k)
    \/ DropMutSegm \/ WriteSuffix \/ SenderCloses

ReaderNext ==
    \/ \E d \in Demands : ReadAsync(d) \/ TryRead(d)
    \/ \E d \in Demands : ReadExact(d.hi)
    \/ ReadExhausted \/ ReadLent \/ ReadInnerClosing \/ ReadCancelled
    \/ \E k \in 1 .. rsegm.rest : MoveOut(k)
    \/ DropRefSegm \/ MoveAll \/ NextRound

Next == WriterNext \/ ReaderNext

(***************************************************************************)
(* Both sides keep polling what they started and drop what they were lent. *)
(* The task that owns the sending end ends at last, which drops that end.  *)
(***************************************************************************)
Fairness ==
    /\ WF_vars(WriteExhausted \/ WriteLent) /\ WF_vars(DropMutSegm)
    /\ SF_vars(SenderCloses)
    /\ WF_vars(ReadExhausted \/ ReadLent \/ ReadInnerClosing)
    /\ WF_vars(MoveAll \/ NextRound)

Spec == Init /\ [][Next]_vars /\ Fairness

-----------------------------------------------------------------------------
(* Properties.                                                             *)

\* What a call without a segment ends with: the wrapper's own errors, or the channel's.
WriterSays == {"exhausted", "cancelled", "inner"}
ReaderSays == {"exhausted", "cancelled", "inner", "closing"}

TypeOK ==
    /\ limits \in Limits
    /\ {wleft, rleft, oleft, dst, filled, sent, taken} \subseteq Nat
    /\ wcall \in {"idle", "wait", "lent"} /\ rcall \in {"idle", "wait", "lent"}
    /\ {wdemand, rdemand} \subseteq [lo : Nat, hi : Nat]
    /\ {wsegm, rsegm} \subseteq [total : Nat, rest : Nat]
    /\ closed \in BOOLEAN
    /\ wsaid \in WriterSays \cup {"none", "ok"}
    /\ rsaid \in ReaderSays \cup {"none", "ok", "full"}

\* The writer's quota is what the body still lacks.
WriterQuota ==
    /\ wleft = IF sent <= limits.w THEN limits.w - sent ELSE 0
    /\ wcall = "lent" => wsegm.total <= Min2(wleft, Free)
    /\ wcall = "wait" => IsEmpty(wdemand) \/ wdemand.hi <= wleft
    /\ wcall # "lent" => wsegm = NoSegm
    /\ wsegm.rest <= wsegm.total
    /\ wcall = "lent" \/ wcall = "wait" => ~closed

\* Both of the receiver's quotas are what was not yet consumed of them.
ReaderQuota ==
    /\ rleft + taken = limits.r /\ oleft + taken = limits.o
    /\ rcall = "lent" => rsegm.total <= Min2(Min2(rleft, oleft), Avail)
    /\ rcall # "lent" => rsegm = NoSegm
    /\ rsegm.rest <= rsegm.total

\* What read_exact_into_async_ has in its buffer, and what it may still ask for.
ExactProgress ==
    /\ dst > 0 =>
          /\ rcall = "wait" => filled < dst /\ rdemand = [lo |-> 1, hi |-> dst - filled]
          /\ rcall = "lent" => filled + rsegm.rest <= dst
          /\ rcall # "idle"
          /\ rcall = "lent" /\ Moved(rsegm) # 0 => rsegm.rest = 0
    /\ dst = 0 => filled = 0

(***************************************************************************)
(* At every moment, in the middle of a borrow or after a cancelled one,    *)
(* each quota is exactly the limit less what crossed the channel, a        *)
(* segment never holds more than its quotas allow, so the suffix behind a  *)
(* body is neither written as a part of it nor consumed with it.           *)
(***************************************************************************)
LimitedInv ==
    /\ TypeOK
    /\ taken <= sent /\ sent - taken <= Window
    /\ WriterQuota /\ ReaderQuota /\ ExactProgress

(***************************************************************************)
(* What consumer_state and producer_state report can be borrowed at once   *)
(* and as a whole: the chunk encoder sizes a chunk by both and then asks   *)
(* for exactly that much.                                                  *)
(***************************************************************************)
PromisedIsLendable ==
    LET n == ConsumerState[1]  m == ProducerState[1] IN
    /\ Idle /\ n > 0 => n \in Lendable(NarrowBoth([lo |-> n, hi |-> n]), Avail)
    /\ wcall = "idle" /\ m > 0 => m \in Lendable(NarrowDemand([lo |-> m, hi |-> m], wleft), Free)

(***************************************************************************)
(* Once consumer_state says "nothing there, and closed" it says so for     *)
(* good: nothing is consumed any more, and either a quota is used up or    *)
(* the sender's last byte was read.  The chunk encoder ends its body here. *)
(***************************************************************************)
SaysEnd == ConsumerState = <<0, TRUE>>
StateSaysEnd ==
    [][SaysEnd => /\ SaysEnd' /\ taken' = taken
                  /\ \/ taken = Min2(limits.r, limits.o)
                     \/ closed /\ taken = sent]_vars

(***************************************************************************)
(* read_exact_into_async_ returns: it asks for one byte at least, so it    *)
(* waits only while the channel is empty, when a writer finds all of the   *)
(* window free.  A read of "exactly n" may wait with a writer for good.    *)
(***************************************************************************)
ReadExactReturns == dst > 0 ~> dst = 0
=============================================================================
