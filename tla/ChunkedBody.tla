---------------------------- MODULE ChunkedBody ----------------------------
(***************************************************************************)
(* One chunked body on its way from a source to a receiver:                 *)
(*                                                                          *)
(*   source  --ChunkedEncode-->  channel window  --ChunkedReader-->  taken  *)
(*                                                                          *)
(* (abs_mptp/src/messaging/chunked.rs, with the borrowing, the quota and    *)
(* read_exact_into_async_ of limited.rs).  Byte i of the source is the      *)
(* number i.  A chunk on the wire is [first, len, size]: its payload is     *)
(* bytes first+1 .. first+len, and `size` is what its two-byte prefix says. *)
(* The encoder commits a chunk whole, in one segment; the receiver may see  *)
(* it byte by byte, so `got` counts the bytes of the oldest chunk already   *)
(* taken, prefix included.  The source and the channel are not in this      *)
(* repository: they are modelled by what chunked.rs asks of them.           *)
(***************************************************************************)
EXTENDS Integers, Sequences

CONSTANTS
  MaxBytes,             \* bound: bytes a source makes
  K_MAX_CHUNK_PAYLOAD,  \* largest payload of a chunk, 2^16 - 1 in the code
  Window,               \* bytes the channel holds between its two ends
  SourceKind,           \* "ring" or "chunked": whose consumer_state is asked
  Faults                \* the faults that may happen, from FaultKinds

FaultKinds == {"cancel", "srcfail", "overlend", "rxdrop"}

ASSUME ChunkedBodyAssumption ==
  /\ MaxBytes \in Nat
  /\ K_MAX_CHUNK_PAYLOAD \in Nat \ {0}
  /\ Window \in Nat
  /\ SourceKind \in {"ring", "chunked"}
  /\ Faults \subseteq FaultKinds

VARIABLES
  made,       \* bytes the source has made
  src,        \* "open", "closed" or "failed"
  settled,    \* bytes of the source the encoder has consumed (segments reclaimed)
  enc,        \* where chunked_write_all_async_ stands
  cap,        \* bound of the chunk in hand, fixed before it is borrowed
  lent,       \* length of the source segment in hand
  token,      \* the encoder's cancellation token has fired
  frames,     \* chunks on the wire, oldest first
  got,        \* bytes of Head(frames) the reader has taken
  inflight,   \* bytes on the wire
  rd,         \* the reader: see ReaderStates
  filled,     \* prefix bytes read_exact_into_async_ holds so far
  chunk_left, \* ChunkedReader.chunk_left_
  delivered,  \* payload bytes handed to the reader's caller, in order
  tx          \* "open" or "fin": the sending half

srcVars  == <<made, src>>
encVars  == <<settled, enc, cap, lent, token>>
rdVars   == <<got, rd, filled, chunk_left, delivered>>
vars     == <<srcVars, encVars, frames, inflight, rdVars, tx>>

EncStates ==
  {"look", "read", "write", "term", "done", "cancelled", "source", "empty",
   "unsatisfied", "target"}

EncFailed == {"source", "empty", "unsatisfied", "target"}

(* "ended" is ChunkedReader.ended_; "malformed" is the error of that name;  *)
(* "misframed" says a prefix was read from bytes that are not one; "gone"   *)
(* says the receiving half was dropped.                                     *)
ReaderStates == {"reading", "ended", "malformed", "misframed", "gone"}

AtMost(a, b) == IF a <= b THEN a ELSE b
AtLeast(a, b) == IF a >= b THEN a ELSE b

avail == made - settled
free  == Window - inflight

Init ==
  /\ made = 0 /\ src = "open"
  /\ settled = 0 /\ enc = "look" /\ cap = 0 /\ lent = 0 /\ token = FALSE
  /\ frames = << >> /\ got = 0 /\ inflight = 0
  /\ rd = "reading" /\ filled = 0 /\ chunk_left = 0 /\ delivered = << >>
  /\ tx = "open"

-----------------------------------------------------------------------------
(* The source.                                                              *)

SourceMake ==
  /\ src = "open"
  /\ made' \in made + 1 .. MaxBytes
  /\ UNCHANGED <<src, encVars, frames, inflight, rdVars, tx>>

SourceClose ==
  /\ src = "open"
  /\ src' \in {"closed"} \cup (IF "srcfail" \in Faults THEN {"failed"} ELSE {})
  /\ UNCHANGED <<made, encVars, frames, inflight, rdVars, tx>>

(* What consumer_state may answer: so many bytes now, and whether that is   *)
(* all there will be.  A ring answers what it holds, and tells a failure    *)
(* only when it is read.  A ChunkedReader as the source answers what is     *)
(* left of its current chunk and always says that is all.                   *)
ReportedBytes == IF SourceKind = "ring" THEN {avail} ELSE 0 .. avail
(* Mutant: an empty source is taken for one that is over.                   *)
EmptyMeansClosed == TRUE

ReportedClosed == SourceKind = "chunked" \/ src = "closed"

-----------------------------------------------------------------------------
(* ChunkedEncode: chunked_write_all_async_.                                 *)

(* How much the next chunk may hold: room at the target (one byte when it   *)
(* reports none: write_async then waits), what the source can lend now.     *)
ChunkCap(lendable) ==
  LET room == AtLeast(free - 2, 1)
      want == IF lendable > 0 THEN AtMost(lendable, room) ELSE room
  IN  AtMost(want, K_MAX_CHUNK_PAYLOAD)

(* Steps 1 and 2: is the source at its end, and how big may the chunk be.   *)
EncLook ==
  /\ enc = "look"
  /\ \E bytes \in ReportedBytes :
       LET over == bytes = 0 /\ ReportedClosed
       IN  \/ over /\ enc' = "term" /\ UNCHANGED cap
           \/ ~ over /\ enc' = "read" /\ cap' = ChunkCap(bytes)
  /\ UNCHANGED <<srcVars, settled, lent, token, frames, inflight, rdVars, tx>>

(* The lengths a source may lend for no_more_than(cap).                     *)
Lendable ==
  IF "overlend" \in Faults THEN 0 .. avail ELSE 1 .. AtMost(cap, avail)

(* Mutant: what the source lends is written, however long it is.            *)
BorrowUnchecked ==
  /\ enc = "read"
  /\ \E len \in Lendable \cap 1 .. avail : lent' = len
  /\ enc' = "write"
  /\ UNCHANGED <<srcVars, settled, cap, token, frames, inflight, rdVars, tx>>

(* Step 3: borrow a source segment; a source that lends nothing, or more    *)
(* than was asked, stops the transfer before a bad frame is written.        *)
EncBorrow ==
  /\ enc = "read"
  /\ avail > 0
  /\ \E len \in Lendable :
       \/ /\ len = 0
          /\ enc' = "empty"
          /\ UNCHANGED lent
       \/ /\ len > cap
          /\ enc' = "unsatisfied"
          /\ UNCHANGED lent
       \/ /\ len \in 1 .. cap
          /\ lent' = len
          /\ enc' = "write"
  /\ UNCHANGED <<srcVars, settled, cap, token, frames, inflight, rdVars, tx>>

(* Mutant: an end that comes while the encoder waits for bytes is not seen. *)
EndWhileWaitingUnseen ==
  /\ enc = "read" /\ src = "failed" /\ enc' = "source"
  /\ UNCHANGED <<srcVars, settled, cap, lent, token, frames, inflight, rdVars,
                 tx>>

EncSourceOver ==
  /\ enc = "read"
  /\ \/ src = "closed" /\ avail = 0 /\ enc' = "term"
     \/ src = "failed" /\ enc' = "source"
  /\ UNCHANGED <<srcVars, settled, cap, lent, token, frames, inflight, rdVars,
                 tx>>

(* `len as u16`: the prefix keeps sixteen bits.                             *)
PrefixOf(len) == len % (K_MAX_CHUNK_PAYLOAD + 1)

Frame(len) == [first |-> settled, len |-> len, size |-> PrefixOf(len)]

(* Step 4: prefix and payload go into one target segment; reclaiming the    *)
(* two segments settles both ends at once.                                  *)
EncWrite ==
  /\ enc = "write"
  /\ rd # "gone"
  /\ free >= 2 + lent
  /\ frames' = Append(frames, Frame(lent))
  /\ inflight' = inflight + 2 + lent
  /\ settled' = settled + lent
  /\ lent' = 0
  /\ enc' = "look"
  /\ UNCHANGED <<srcVars, cap, token, rdVars, tx>>

(* Step 5: the chunk of length 0.                                           *)
EncTerminate ==
  /\ enc = "term"
  /\ rd # "gone"
  /\ free >= 2
  /\ frames' = Append(frames, Frame(0))
  /\ inflight' = inflight + 2
  /\ enc' = "done"
  /\ UNCHANGED <<srcVars, settled, cap, lent, token, rdVars, tx>>

(* Mutant: a write that waits for room is not told the target went away.    *)
TargetGoneUnseen ==
  /\ enc = "term" /\ rd = "gone"
  /\ enc' = "target" /\ lent' = 0
  /\ UNCHANGED <<srcVars, settled, cap, token, frames, inflight, rdVars, tx>>

EncTargetGone ==
  /\ enc \in {"write", "term"}
  /\ rd = "gone"
  /\ enc' = "target"
  /\ lent' = 0
  /\ UNCHANGED <<srcVars, settled, cap, token, frames, inflight, rdVars, tx>>

EncWaits ==
  \/ enc = "read" /\ avail = 0 /\ src = "open"
  \/ enc = "write" /\ rd # "gone" /\ free < 2 + lent
  \/ enc = "term" /\ rd # "gone" /\ free < 2

TokenFires ==
  /\ "cancel" \in Faults
  /\ ~ token
  /\ token' = TRUE
  /\ UNCHANGED <<srcVars, settled, enc, cap, lent, frames, inflight, rdVars, tx>>

(* Mutant: the segment of a cancelled write counts as consumed.             *)
CancelledConsumes ==
  /\ token /\ EncWaits
  /\ enc' = "cancelled" /\ lent' = 0
  /\ settled' = settled + lent
  /\ UNCHANGED <<srcVars, cap, token, frames, inflight, rdVars, tx>>

(* OkOr polls the operation first: the token wins only where the encoder    *)
(* would wait.  The source segment is dropped with nothing moved out of it. *)
EncCancelled ==
  /\ token
  /\ EncWaits
  /\ enc' = "cancelled"
  /\ lent' = 0
  /\ UNCHANGED <<srcVars, settled, cap, token, frames, inflight, rdVars, tx>>

(* The caller calls write_all_async again with the same ends and a fresh    *)
(* token (MptpSession leaves its state at SendingBody after a failure).     *)
EncRetry ==
  /\ enc = "cancelled"
  /\ tx = "open"
  /\ enc' = "look"
  /\ token' = FALSE
  /\ UNCHANGED <<srcVars, settled, cap, lent, frames, inflight, rdVars, tx>>

(* The caller lets the sending half go.                                     *)
TxClose ==
  /\ tx = "open"
  /\ enc \in {"done", "cancelled"} \cup EncFailed
  /\ tx' = "fin"
  /\ UNCHANGED <<srcVars, encVars, frames, inflight, rdVars>>

-----------------------------------------------------------------------------
(* ChunkedReader: chunked_read_step_.                                       *)

Prefix == 2

(* One byte of a prefix, by read_exact_into_async_: with the second the     *)
(* length is known, and length 0 is the end.                                *)
ReadHead ==
  /\ rd = "reading" /\ chunk_left = 0
  /\ frames # << >>
  /\ LET chunk == Head(frames)
         last  == filled + 1 = Prefix
         whole == got + 1 = Prefix + chunk.len
     IN  /\ filled' = IF last THEN 0 ELSE filled + 1
         /\ rd' = IF got # filled THEN "misframed"
                  ELSE IF last /\ chunk.size = 0 THEN "ended"
                  ELSE "reading"
         /\ chunk_left' = IF last /\ got = filled THEN chunk.size ELSE 0
         /\ frames' = IF whole THEN Tail(frames) ELSE frames
         /\ got' = IF whole THEN 0 ELSE got + 1
  /\ inflight' = inflight - 1
  /\ UNCHANGED <<srcVars, encVars, delivered, tx>>

(* Mutant: a segment settles what was borrowed, not what was moved.         *)
PayloadSettlesBorrowed ==
  /\ rd = "reading" /\ chunk_left > 0 /\ frames # << >>
  /\ LET chunk == Head(frames)
         here  == Prefix + chunk.len - got
     IN  \E m \in 1 .. AtMost(chunk_left, here) :
           /\ delivered' = delivered \o
                [j \in 1 .. m |-> chunk.first + (got - Prefix) + j]
           /\ chunk_left' = 0
           /\ inflight' = inflight - m
           /\ frames' = IF m = here THEN Tail(frames) ELSE frames
           /\ got' = IF m = here THEN 0 ELSE got + m
  /\ UNCHANGED <<srcVars, encVars, rd, filled, tx>>

(* The caller borrows a segment inside the chunk, moves m bytes out of it   *)
(* and drops it: LimitedRefSegm settles chunk_left by m.  The bytes moved   *)
(* stop at the end of what is there.                                        *)
ReadPayload ==
  /\ rd = "reading" /\ chunk_left > 0
  /\ frames # << >>
  /\ LET chunk == Head(frames)
         here  == Prefix + chunk.len - got
     IN  \E m \in 1 .. AtMost(chunk_left, here) :
           /\ delivered' = delivered \o
                [j \in 1 .. m |-> chunk.first + (got - Prefix) + j]
           /\ chunk_left' = chunk_left - m
           /\ inflight' = inflight - m
           /\ frames' = IF m = here THEN Tail(frames) ELSE frames
           /\ got' = IF m = here THEN 0 ELSE got + m
  /\ UNCHANGED <<srcVars, encVars, rd, filled, tx>>

(* The stream is over where a prefix should be; or the caller's token fires *)
(* while the prefix is awaited, which read_exact_into_async_ reports as the *)
(* same truncation, before the token of the outer wait is looked at.  (A    *)
(* token that fires inside a chunk changes nothing here: the caller reads   *)
(* again where it was.)                                                     *)
ReadHeadFails ==
  /\ rd = "reading" /\ chunk_left = 0
  /\ frames = << >>
  /\ \/ tx = "fin"
     \/ tx = "open" /\ "cancel" \in Faults
  /\ rd' = "malformed"
  /\ filled' = 0
  /\ UNCHANGED <<srcVars, encVars, frames, inflight, got, chunk_left, delivered,
                 tx>>

(* The receiving half is dropped: what is in flight is discarded.           *)
RxDrop ==
  /\ rd = "malformed" \/ (rd = "reading" /\ "rxdrop" \in Faults)
  /\ rd' = "gone"
  /\ frames' = << >> /\ got' = 0 /\ inflight' = 0
  /\ filled' = 0 /\ chunk_left' = 0
  /\ UNCHANGED <<srcVars, encVars, delivered, tx>>

-----------------------------------------------------------------------------
Source == SourceMake \/ SourceClose

Encoder ==
  \/ EncLook \/ EncBorrow \/ EncSourceOver \/ EncWrite \/ EncTerminate
  \/ EncTargetGone \/ EncCancelled

Reader == ReadHead \/ ReadPayload \/ ReadHeadFails

Next == Source \/ Encoder \/ TokenFires \/ EncRetry \/ TxClose \/ Reader \/ RxDrop

Spec == Init /\ [][Next]_vars

(* The executor polls a future that can proceed, a caller that reads goes   *)
(* on reading and lets go of a stream it found malformed, and a caller does *)
(* not retry a cancelled transfer for ever.  No token has to fire.          *)
FairSpec ==
  /\ Spec
  /\ WF_vars(Encoder)
  /\ WF_vars(ReadHead \/ ReadPayload \/ (tx = "fin" /\ ReadHeadFails))
  /\ WF_vars(rd = "malformed" /\ RxDrop)
  /\ SF_vars(TxClose)

-----------------------------------------------------------------------------
TypeOK ==
  /\ made \in 0 .. MaxBytes
  /\ src \in {"open", "closed", "failed"}
  /\ settled \in Nat
  /\ enc \in EncStates
  /\ cap \in Nat /\ lent \in Nat
  /\ token \in BOOLEAN
  /\ frames \in Seq([first : Nat, len : Nat, size : Nat])
  /\ got \in Nat /\ inflight \in Int
  /\ rd \in ReaderStates
  /\ filled \in {0, 1}
  /\ chunk_left \in Nat
  /\ delivered \in Seq(Nat)
  /\ tx \in {"open", "fin"}

(* The receiver's caller gets the source's bytes in order, none twice and   *)
(* none skipped, whatever segments, chunks, cancellations and retries they  *)
(* went through (chunked_write_all_async_, chunked_read_step_).             *)
DeliveredInOrder == \A i \in DOMAIN delivered : delivered[i] = i

(* A receiver told "the body ended" (ChunkedReadError::Ended) holds all of  *)
(* a source that closed cleanly: a transfer that was cancelled, failed or   *)
(* abandoned half-way is never taken for a short body.                      *)
EndedIsComplete ==
  rd = "ended" => src = "closed" /\ Len(delivered) = made

(* The reader never takes payload, or half a prefix, for a chunk's length.  *)
NeverMisframed == rd # "misframed"

(* The chunks on the wire are consecutive pieces of the source, each under  *)
(* a prefix that tells its length, up to what the encoder has consumed: a   *)
(* cancelled or failed write consumes nothing, so write_all_async can be    *)
(* called again and repeats and skips no byte.  Only a finished encoder has *)
(* written the chunk of length 0.                                           *)
ChunksSound ==
  \A i \in 1 .. Len(frames) :
    /\ frames[i].size = frames[i].len
    /\ frames[i].first + frames[i].len <= settled
    /\ frames[i].len = 0 => enc = "done"
    /\ IF i < Len(frames)
       THEN /\ frames[i].len > 0
            /\ frames[i + 1].first = frames[i].first + frames[i].len
       ELSE frames[i].first + frames[i].len = settled

(* The encoder asks for a byte at least, and never has in hand more than    *)
(* the source holds or a prefix can tell; it terminates a body only at the  *)
(* source's clean end.                                                      *)
EncoderSound ==
  /\ settled <= made
  /\ enc = "read" => cap \in 1 .. K_MAX_CHUNK_PAYLOAD
  /\ enc = "write" => lent \in 1 .. AtMost(avail, K_MAX_CHUNK_PAYLOAD)
  /\ enc \in {"term", "done"} => src = "closed" /\ settled = made

(* Where the reader believes to be in the oldest chunk is where it is.      *)
ReaderSound ==
  /\ frames = << >> => got = 0
  /\ frames # << >> => got < Prefix + Head(frames).len
  /\ rd = "gone" => frames = << >>
  /\ rd \in {"reading", "malformed"} /\ chunk_left = 0 => got = filled
  /\ rd = "reading" /\ chunk_left > 0 =>
       /\ frames # << >>
       /\ filled = 0
       /\ got >= Prefix
       /\ chunk_left = Prefix + Head(frames).len - got
  /\ rd = "malformed" => chunk_left = 0
  /\ rd = "ended" => frames = << >> /\ enc = "done"
  /\ rd # "gone" =>
       Len(delivered) =
         IF frames = << >> THEN settled
         ELSE Head(frames).first + AtLeast(got - Prefix, 0)

(* The inductive invariant: the three views of the transfer agree.          *)
TransferInv ==
  TypeOK /\ ChunksSound /\ EncoderSound /\ ReaderSound /\ NeverMisframed
  /\ DeliveredInOrder

(* A clean end of the source reaches the receiver as the end of the body,   *)
(* unless somebody cancelled, broke or dropped the transfer on the way.     *)
ClosedLeadsToEnded ==
  (src = "closed") ~>
    (rd = "ended" \/ token \/ enc \in EncFailed \/ rd = "gone")

(* Whatever fails, neither end waits for the other for ever: once the       *)
(* source is over, encoder and reader both come to a stop.                  *)
BothEndsStop ==
  (src # "open") ~>
    (enc \in {"done", "cancelled"} \cup EncFailed /\ rd # "reading")

(* What the receiver's caller has been told.                                *)
Outcome ==
  CASE rd = "reading" -> "reading"
    [] rd = "ended"   -> "ended"
    [] OTHER          -> "stopped"

Stream == INSTANCE ByteStream WITH outcome <- Outcome

(* The transfer implements the abstract stream: every step of encoder,      *)
(* channel and reader is a step of the stream or changes nothing of it.     *)
StreamSpec == Stream!Spec
=============================================================================
