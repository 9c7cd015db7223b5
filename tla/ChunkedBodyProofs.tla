------------------------- MODULE ChunkedBodyProofs -------------------------
(***************************************************************************)
(* ChunkedBody for every window, chunk limit and length of body, with a     *)
(* source that reports its own end (SourceKind = "ring").                   *)
(***************************************************************************)
EXTENDS ChunkedBody, SequenceTheorems, TLAPS

Chunk == [first : Nat, len : Nat, size : Nat]

(* A length the prefix has room for is told as it is.                       *)
LEMMA PrefixTellsLength ==
  ASSUME NEW len \in Nat, len <= K_MAX_CHUNK_PAYLOAD
  PROVE  PrefixOf(len) = len
  BY ChunkedBodyAssumption DEF PrefixOf

(* A transfer that has not begun satisfies the invariant.                   *)
LEMMA InitSound == Init => TransferInv
<1>. SUFFICES ASSUME Init PROVE TransferInv
  OBVIOUS
<1>. USE DEF Init
<1>1. frames \in Seq(Chunk) /\ delivered \in Seq(Nat)
  OBVIOUS
<1>2. token \in BOOLEAN
  OBVIOUS
<1>3. TypeOK
  BY <1>1, <1>2, ChunkedBodyAssumption DEF TypeOK, EncStates, ReaderStates, Chunk
<1>4. ChunksSound /\ EncoderSound /\ ReaderSound /\ NeverMisframed
  BY DEF ChunksSound, EncoderSound, ReaderSound, NeverMisframed
<1>5. DeliveredInOrder
  BY DEF DeliveredInOrder
<1>6. QED
  BY <1>3, <1>4, <1>5 DEF TransferInv

(* A chunk is at least one byte long and no longer than a prefix can tell,  *)
(* whatever the source and the target report.                               *)
LEMMA ChunkCapBounds ==
  ASSUME TypeOK, NEW lendable \in Int
  PROVE  ChunkCap(lendable) \in 1 .. K_MAX_CHUNK_PAYLOAD
<1>1. free \in Int
  BY ChunkedBodyAssumption DEF free, TypeOK
<1>2. AtLeast(free - 2, 1) \in Nat \ {0}
  BY <1>1 DEF AtLeast
<1>3. QED
  BY <1>2, ChunkedBodyAssumption DEF ChunkCap, AtMost

(* What the encoder learns from a ring: the clean end, or room for a chunk. *)
LEMMA EncLookOutcome ==
  ASSUME TypeOK, EncLook, SourceKind = "ring"
  PROVE  \/ avail = 0 /\ src = "closed" /\ enc' = "term" /\ UNCHANGED cap
         \/ cap' \in 1 .. K_MAX_CHUNK_PAYLOAD /\ enc' = "read"
<1>1. avail \in Int
  BY DEF avail, TypeOK
<1>2. \/ avail = 0 /\ ReportedClosed /\ enc' = "term" /\ UNCHANGED cap
      \/ enc' = "read" /\ cap' = ChunkCap(avail)
  BY DEF EncLook, ReportedBytes
<1>3. ReportedClosed => src = "closed"
  BY DEF ReportedClosed
<1>4. QED
  BY <1>1, <1>2, <1>3, ChunkCapBounds

(* The steps that leave the wire and the reader alone: of the source, of    *)
(* the encoder up to a write, of the two tokens.                            *)
QuietStep ==
  \/ SourceMake \/ SourceClose
  \/ EncLook \/ EncBorrow \/ EncSourceOver \/ EncTargetGone
  \/ TokenFires \/ EncCancelled \/ EncRetry \/ TxClose

(* Such a step keeps the invariant: what it may change is bounded by        *)
(* Lendable and ChunkCap, and the wire still tells what was settled.        *)
LEMMA QuietStepSound ==
  ASSUME TransferInv, QuietStep, SourceKind = "ring"
  PROVE  TransferInv'
<1>. USE DEF TransferInv
<1>1. UNCHANGED <<frames, inflight, rdVars>>
  BY DEF QuietStep, SourceMake, SourceClose, EncLook, EncBorrow, EncSourceOver,
         EncTargetGone, TokenFires, EncCancelled, EncRetry, TxClose
<1>2. /\ UNCHANGED settled
      /\ made \in Nat /\ made' \in made .. MaxBytes
      /\ src # "open" => UNCHANGED srcVars
  <2>1. CASE SourceMake
    BY <2>1, ChunkedBodyAssumption DEF SourceMake, encVars, TypeOK
  <2>2. CASE ~ SourceMake
    <3>1. UNCHANGED <<settled, made>> /\ (src # "open" => UNCHANGED srcVars)
      BY <2>2 DEF QuietStep, SourceClose, EncLook, EncBorrow, EncSourceOver,
         EncTargetGone, TokenFires, EncCancelled, EncRetry, TxClose, srcVars,
         encVars
    <3>2. QED
      BY <3>1, ChunkedBodyAssumption DEF TypeOK
  <2>3. QED
    BY <2>1, <2>2
<1>3. TypeOK'
  <2>1. token' \in BOOLEAN
    BY DEF QuietStep, SourceMake, SourceClose, EncLook, EncBorrow,
           EncSourceOver, EncTargetGone, TokenFires, EncCancelled, EncRetry,
           TxClose, TypeOK, encVars
  <2>2. made' \in 0 .. MaxBytes /\ src' \in {"open", "closed", "failed"}
    <3>1. made' \in 0 .. MaxBytes
      BY <1>2, ChunkedBodyAssumption
    <3>2. src' \in {"open", "closed", "failed"}
      BY DEF QuietStep, SourceMake, SourceClose, EncLook, EncBorrow,
           EncSourceOver, EncTargetGone, TokenFires, EncCancelled, EncRetry,
           TxClose, TypeOK, srcVars
    <3>3. QED
      BY <3>1, <3>2
  <2>3. enc' \in EncStates /\ tx' \in {"open", "fin"}
    BY DEF QuietStep, SourceMake, SourceClose, EncLook, EncBorrow,
           EncSourceOver, EncTargetGone, TokenFires, EncCancelled, EncRetry,
           TxClose, TypeOK, encVars, EncStates
  <2>4. cap' \in Nat /\ lent' \in Nat
    <3>1. CASE EncLook
      BY <3>1, EncLookOutcome, ChunkedBodyAssumption DEF EncLook, TypeOK
    <3>2. CASE EncBorrow
      BY <3>2 DEF EncBorrow, Lendable, AtMost, avail, TypeOK
    <3>3. CASE ~ EncLook /\ ~ EncBorrow
      BY <3>3 DEF QuietStep, SourceMake, SourceClose, EncSourceOver,
           EncTargetGone, TokenFires, EncCancelled, EncRetry, TxClose, TypeOK,
           encVars
    <3>4. QED
      BY <3>1, <3>2, <3>3
  <2>5. QED
    BY <1>1, <1>2, <2>1, <2>2, <2>3, <2>4 DEF TypeOK, rdVars
<1>4. (enc = "done") => (enc' = "done")
  BY DEF QuietStep, SourceMake, SourceClose, EncLook, EncBorrow, EncSourceOver,
         EncTargetGone, TokenFires, EncCancelled, EncRetry, TxClose, encVars,
         EncWaits
<1>5. ChunksSound'
  BY <1>1, <1>2, <1>4 DEF ChunksSound
<1>6. ReaderSound' /\ NeverMisframed' /\ DeliveredInOrder'
  BY <1>1, <1>2, <1>4 DEF ReaderSound, NeverMisframed, DeliveredInOrder, rdVars
<1>7. EncoderSound'
  <2>1. CASE EncLook
    BY <2>1, EncLookOutcome, ChunkedBodyAssumption
    DEF EncLook, avail, TypeOK, EncoderSound, srcVars
  <2>2. CASE EncBorrow
    BY <2>2, <1>2, ChunkedBodyAssumption
    DEF EncBorrow, Lendable, AtMost, avail, TypeOK, EncoderSound, srcVars
  <2>3. CASE EncSourceOver
    BY <2>3, ChunkedBodyAssumption
    DEF EncSourceOver, TypeOK, EncoderSound, avail, srcVars
  <2>4. CASE SourceMake \/ SourceClose
    <3>1. src = "open" /\ UNCHANGED <<settled, enc, cap, lent>>
      BY <2>4 DEF SourceMake, SourceClose, encVars
    <3>2. made \in Nat /\ settled \in Nat /\ made' \in Nat /\ made <= made'
      BY <1>2, ChunkedBodyAssumption DEF TypeOK
    <3>3. settled <= made /\ ~ enc \in {"term", "done"}
      BY <3>1 DEF EncoderSound
    <3>4. ASSUME enc = "write"
          PROVE  lent \in 1 .. AtMost(avail', K_MAX_CHUNK_PAYLOAD)
      <4>1. lent \in 1 .. AtMost(avail, K_MAX_CHUNK_PAYLOAD)
        BY <3>1, <3>4 DEF EncoderSound
      <4>2. made - settled <= made' - settled' /\ made' - settled' \in Int
        <5>1. \A a, b, c \in Nat : a <= b => a - c <= b - c /\ b - c \in Int
          OBVIOUS
        <5>2. QED
          BY <3>1, <3>2, <5>1
      <4>3. QED
        BY <3>2, <4>1, <4>2, ChunkedBodyAssumption DEF avail, AtMost
    <3>5. QED
      BY <3>1, <3>2, <3>3, <3>4 DEF EncoderSound
  <2>5. CASE EncTargetGone \/ TokenFires \/ EncCancelled \/ EncRetry \/ TxClose
    <3>1. UNCHANGED <<made, src, settled, cap>>
      BY <2>5 DEF EncTargetGone, TokenFires, EncCancelled, EncRetry, TxClose,
         srcVars, encVars
    <3>2. UNCHANGED <<enc, lent>> \/ enc' \in {"target", "cancelled", "look"}
      BY <2>5 DEF EncTargetGone, TokenFires, EncCancelled, EncRetry, TxClose,
         encVars
    <3>3. QED
      BY <3>1, <3>2 DEF EncoderSound, avail
  <2>6. QED
    BY <2>1, <2>2, <2>3, <2>4, <2>5 DEF QuietStep
<1>8. QED
  BY <1>3, <1>5, <1>6, <1>7

(* A chunk, or the terminator, goes onto the wire.                          *)
LEMMA WriteStepSound ==
  ASSUME TransferInv, NEW len \in Nat, len <= avail, len <= K_MAX_CHUNK_PAYLOAD,
         rd # "gone", rd # "ended",
         frames = << >> \/ frames[Len(frames)].len > 0,
         frames' = Append(frames, Frame(len)),
         settled' = settled + len,
         len = 0 => enc' = "done",
         UNCHANGED <<rdVars, made>>
  PROVE  /\ frames' \in Seq(Chunk)
         /\ ChunksSound' /\ ReaderSound' /\ NeverMisframed' /\ DeliveredInOrder'
<1>. USE DEF TransferInv
<1>1. frames \in Seq(Chunk) /\ settled \in Nat /\ made \in Nat
  BY ChunkedBodyAssumption DEF TypeOK, Chunk
<1>2. /\ Frame(len) \in Chunk /\ Frame(len).first = settled
      /\ Frame(len).len = len /\ Frame(len).size = len
  BY <1>1, PrefixTellsLength DEF Frame, Chunk
<1>3. /\ frames' \in Seq(Chunk)
      /\ Len(frames') = Len(frames) + 1
      /\ \A i \in 1 .. Len(frames) : frames'[i] = frames[i]
      /\ frames'[Len(frames) + 1] = Frame(len)
  BY <1>1, <1>2
<1>4. ChunksSound'
  <2>1. ASSUME NEW i \in 1 .. Len(frames), i < Len(frames)
        PROVE  /\ frames'[i].size = frames'[i].len
               /\ frames'[i].first + frames'[i].len <= settled'
               /\ frames'[i].len > 0
               /\ frames'[i + 1].first = frames'[i].first + frames'[i].len
    <3>1. i + 1 \in 1 .. Len(frames)
      BY <2>1, <1>1
    <3>2. frames'[i] = frames[i] /\ frames'[i + 1] = frames[i + 1]
      BY <3>1, <1>3
    <3>3. frames[i] \in Chunk
      BY <1>1
    <3>4. len \in Nat /\ settled' >= settled
      BY <1>1
    <3>5. /\ frames[i].size = frames[i].len
          /\ frames[i].first + frames[i].len <= settled
          /\ frames[i].len > 0
          /\ frames[i + 1].first = frames[i].first + frames[i].len
      BY <2>1 DEF ChunksSound
    <3>6. frames[i].first + frames[i].len \in Nat
      BY <3>3 DEF Chunk
    <3>7. frames[i].first + frames[i].len <= settled'
      BY <3>4, <3>5, <3>6, <1>1
    <3>8. QED
      BY <3>2, <3>5, <3>7
  <2>2. ASSUME frames # << >>
        PROVE  LET i == Len(frames)
               IN  /\ frames'[i].size = frames'[i].len
                   /\ frames'[i].first + frames'[i].len <= settled'
                   /\ frames'[i].len > 0
                   /\ frames'[i + 1].first = frames'[i].first + frames'[i].len
    BY <2>2, <1>1, <1>2, <1>3 DEF ChunksSound, Chunk
  <2>3. LET i == Len(frames) + 1
        IN  /\ frames'[i].size = frames'[i].len
            /\ frames'[i].first + frames'[i].len = settled'
            /\ frames'[i].len = 0 => enc' = "done"
    BY <1>1, <1>2, <1>3
  <2>4. QED
    BY <2>1, <2>2, <2>3, <1>1, <1>3 DEF ChunksSound
<1>5. ReaderSound'
  <2>1. CASE frames = << >>
    BY <2>1, <1>1, <1>2, <1>3 DEF ReaderSound, TypeOK, Prefix, AtLeast, rdVars
  <2>2. CASE frames # << >>
    <3>1. Head(frames') = Head(frames) /\ frames' # << >>
      BY <2>2, <1>1, <1>2, <1>3
    <3>2. QED
      BY <2>2, <3>1 DEF ReaderSound, rdVars
  <2>3. QED
    BY <2>1, <2>2
<1>6. NeverMisframed' /\ DeliveredInOrder'
  BY DEF NeverMisframed, DeliveredInOrder, rdVars
<1>7. QED
  BY <1>3, <1>4, <1>5, <1>6

(* A chunk goes onto the wire as the source segment is consumed.            *)
LEMMA EncWriteSound ==
  ASSUME TransferInv, EncWrite
  PROVE  TransferInv'
<1>. USE DEF TransferInv
<1>1. made \in Nat /\ settled \in Nat /\ lent \in Nat /\ lent >= 1 /\ lent <= avail
      /\ lent <= K_MAX_CHUNK_PAYLOAD /\ settled + lent <= made
  BY ChunkedBodyAssumption DEF EncWrite, EncoderSound, AtMost, avail, TypeOK
<1>2. rd # "ended" /\ (frames = << >> \/ frames[Len(frames)].len > 0)
  <2>1. enc # "done" /\ frames \in Seq(Chunk)
    BY DEF EncWrite, TypeOK, Chunk
  <2>2. ASSUME frames # << >>
        PROVE  frames[Len(frames)].len > 0
    <3>1. Len(frames) \in 1 .. Len(frames)
      BY <2>1, <2>2
    <3>2. frames[Len(frames)] \in Chunk /\ frames[Len(frames)].len # 0
      BY <2>1, <3>1 DEF ChunksSound
    <3>3. QED
      BY <3>2 DEF Chunk
  <2>3. QED
    BY <2>1, <2>2 DEF ReaderSound
<1>3. /\ frames' \in Seq(Chunk)
      /\ ChunksSound' /\ ReaderSound' /\ NeverMisframed' /\ DeliveredInOrder'
  BY <1>1, <1>2, WriteStepSound DEF EncWrite, srcVars
<1>4. TypeOK'
  BY <1>1, <1>3 DEF EncWrite, TypeOK, EncStates, srcVars, rdVars, Chunk
<1>5. EncoderSound'
  BY <1>1 DEF EncWrite, EncoderSound, srcVars
<1>6. QED
  BY <1>3, <1>4, <1>5

(* The terminator follows the last chunk of a source that closed.           *)
LEMMA EncTerminateSound ==
  ASSUME TransferInv, EncTerminate
  PROVE  TransferInv'
<1>. USE DEF TransferInv
<1>1. made \in Nat /\ settled = made /\ src = "closed" /\ avail = 0
  BY ChunkedBodyAssumption DEF EncTerminate, EncoderSound, avail, TypeOK
<1>2. rd # "ended" /\ (frames = << >> \/ frames[Len(frames)].len > 0)
  <2>1. enc # "done" /\ frames \in Seq(Chunk)
    BY DEF EncTerminate, TypeOK, Chunk
  <2>2. ASSUME frames # << >>
        PROVE  frames[Len(frames)].len > 0
    <3>1. Len(frames) \in 1 .. Len(frames)
      BY <2>1, <2>2
    <3>2. frames[Len(frames)] \in Chunk /\ frames[Len(frames)].len # 0
      BY <2>1, <3>1 DEF ChunksSound
    <3>3. QED
      BY <3>2 DEF Chunk
  <2>3. QED
    BY <2>1, <2>2 DEF ReaderSound
<1>3. /\ frames' \in Seq(Chunk)
      /\ ChunksSound' /\ ReaderSound' /\ NeverMisframed' /\ DeliveredInOrder'
  <2>1. settled' = settled + 0
    BY <1>1 DEF EncTerminate
  <2>2. QED
    BY <1>1, <1>2, <2>1, WriteStepSound, ChunkedBodyAssumption
    DEF EncTerminate, srcVars
<1>4. TypeOK'
  BY <1>1, <1>3 DEF EncTerminate, TypeOK, EncStates, srcVars, rdVars, Chunk
<1>5. EncoderSound'
  BY <1>1 DEF EncTerminate, EncoderSound, srcVars
<1>6. QED
  BY <1>3, <1>4, <1>5

(* The oldest chunk: what the invariant says of it.                         *)
LEMMA OldestChunk ==
  ASSUME TransferInv, frames # << >>
  PROVE  /\ frames \in Seq(Chunk) /\ Len(frames) \in Nat \ {0}
         /\ Head(frames) = frames[1] /\ Head(frames) \in Chunk
         /\ Head(frames).size = Head(frames).len
         /\ Head(frames).first + Head(frames).len <= settled
         /\ Head(frames).len = 0 => Len(frames) = 1 /\ enc = "done"
<1>1. frames \in Seq(Chunk) /\ Len(frames) \in Nat \ {0}
  BY DEF TransferInv, TypeOK, Chunk
<1>2. Head(frames) = frames[1] /\ frames[1] \in Chunk /\ 1 \in 1 .. Len(frames)
  BY <1>1
<1>3. ChunksSound
  BY DEF TransferInv
<1>4. /\ frames[1].size = frames[1].len
      /\ frames[1].first + frames[1].len <= settled
      /\ frames[1].len = 0 => enc = "done"
      /\ 1 < Len(frames) => frames[1].len > 0
  BY <1>2, <1>3 DEF ChunksSound
<1>5. frames[1].len = 0 => Len(frames) = 1
  <2>1. Len(frames) = 1 \/ 1 < Len(frames)
    BY <1>1
  <2>2. frames[1].len \in Nat
    BY <1>2 DEF Chunk
  <2>3. QED
    BY <1>4, <2>1, <2>2
<1>6. QED
  BY <1>1, <1>2, <1>4, <1>5

(* Taking the last byte of the oldest chunk leaves the rest of the wire as  *)
(* it was, beginning where that chunk ended.                                *)
LEMMA TailSound ==
  ASSUME TransferInv, frames # << >>, frames' = Tail(frames),
         UNCHANGED <<settled, enc>>
  PROVE  /\ frames' \in Seq(Chunk)
         /\ ChunksSound'
         /\ IF frames' = << >>
            THEN settled = Head(frames).first + Head(frames).len
            ELSE Head(frames').first = Head(frames).first + Head(frames).len
<1>1. /\ frames \in Seq(Chunk) /\ Len(frames) \in Nat \ {0}
      /\ Head(frames) = frames[1]
  BY OldestChunk
<1>2. /\ frames' \in Seq(Chunk)
      /\ Len(frames') = Len(frames) - 1
      /\ \A i \in 1 .. Len(frames') : frames'[i] = frames[i + 1]
  BY <1>1
<1>3. ChunksSound
  BY DEF TransferInv
<1>4. ChunksSound'
  <2>1. ASSUME NEW i \in 1 .. Len(frames')
        PROVE  /\ frames'[i].size = frames'[i].len
               /\ frames'[i].first + frames'[i].len <= settled'
               /\ frames'[i].len = 0 => enc' = "done"
               /\ IF i < Len(frames')
                  THEN /\ frames'[i].len > 0
                       /\ frames'[i + 1].first = frames'[i].first + frames'[i].len
                  ELSE frames'[i].first + frames'[i].len = settled'
    <3>1. i + 1 \in 1 .. Len(frames) /\ frames'[i] = frames[i + 1]
          /\ (i < Len(frames') <=> i + 1 < Len(frames))
      BY <1>1, <1>2
    <3>2. i < Len(frames') => frames'[i + 1] = frames[(i + 1) + 1]
      BY <1>1, <1>2
    <3>3. QED
      BY <1>3, <3>1, <3>2 DEF ChunksSound
  <2>2. QED
    BY <2>1 DEF ChunksSound
<1>5. CASE frames' = << >>
  <2>1. Len(frames') = 0
    BY <1>2, <1>5
  <2>2. Len(frames) = 1 /\ 1 \in 1 .. Len(frames) /\ ~ 1 < Len(frames)
    BY <1>1, <1>2, <2>1
  <2>3. frames[1].first + frames[1].len = settled
    BY <1>3, <2>2 DEF ChunksSound
  <2>4. QED
    BY <1>1, <1>2, <1>4, <1>5, <2>3
<1>6. CASE frames' # << >>
  <2>1. 1 \in 1 .. Len(frames') /\ 1 < Len(frames) /\ Head(frames') = frames[2]
    BY <1>1, <1>2, <1>6
  <2>2. frames[1 + 1].first = frames[1].first + frames[1].len
    BY <1>3, <1>1, <2>1 DEF ChunksSound
  <2>3. QED
    BY <1>1, <1>2, <1>4, <1>6, <2>1, <2>2
<1>7. QED
  BY <1>5, <1>6

(* A byte of a prefix: the reader stays where it believes to be.            *)
LEMMA ReadHeadSound ==
  ASSUME TransferInv, ReadHead
  PROVE  TransferInv'
<1>. USE DEF TransferInv
<1>1. /\ rd = "reading" /\ chunk_left = 0 /\ frames # << >> /\ got = filled
      /\ filled \in {0, 1}
      /\ UNCHANGED <<srcVars, encVars, delivered, tx>>
      /\ inflight' = inflight - 1
  BY DEF ReadHead, ReaderSound, TypeOK
<1>2. /\ frames \in Seq(Chunk) /\ Head(frames) \in Chunk
      /\ Head(frames).size = Head(frames).len
      /\ Head(frames).len = 0 => Len(frames) = 1 /\ enc = "done"
  BY <1>1, OldestChunk
<1>3. Head(frames).len \in Nat /\ Head(frames).first \in Nat
  BY <1>2 DEF Chunk
<1>4. Len(delivered) = Head(frames).first
  BY <1>1, <1>3 DEF ReaderSound, Prefix, AtLeast
<1>5. EncoderSound' /\ DeliveredInOrder'
  BY <1>1 DEF EncoderSound, DeliveredInOrder, avail, srcVars, encVars
<1>6. CASE filled = 0
  <2>1. /\ filled' = 1 /\ rd' = "reading" /\ chunk_left' = 0
        /\ frames' = frames /\ got' = 1
    BY <1>1, <1>3, <1>6 DEF ReadHead, Prefix
  <2>2. ChunksSound'
    BY <1>1, <2>1 DEF ChunksSound, encVars
  <2>3. ReaderSound' /\ NeverMisframed'
    BY <1>1, <1>3, <1>4, <2>1 DEF ReaderSound, NeverMisframed, Prefix, AtLeast
  <2>4. TypeOK'
    BY <1>1, <1>2, <2>1 DEF TypeOK, ReaderStates, srcVars, encVars
  <2>5. QED
    BY <1>5, <2>2, <2>3, <2>4
<1>7. CASE filled = 1 /\ Head(frames).len = 0
  <2>1. /\ filled' = 0 /\ rd' = "ended" /\ chunk_left' = 0
        /\ frames' = Tail(frames) /\ got' = 0
    BY <1>1, <1>2, <1>3, <1>7 DEF ReadHead, Prefix
  <2>2. frames' = << >> /\ enc = "done"
    BY <1>1, <1>2, <1>7, <2>1
  <2>3. ChunksSound' /\ settled = Head(frames).first + Head(frames).len
        /\ frames' \in Seq(Chunk)
    BY <1>1, <2>1, <2>2, TailSound DEF encVars
  <2>4. ReaderSound' /\ NeverMisframed'
    BY <1>1, <1>3, <1>4, <1>7, <2>1, <2>2, <2>3
    DEF ReaderSound, NeverMisframed, encVars
  <2>5. TypeOK'
    BY <1>1, <2>1, <2>3 DEF TypeOK, ReaderStates, srcVars, encVars, Chunk
  <2>6. QED
    BY <1>5, <2>3, <2>4, <2>5
<1>8. CASE filled = 1 /\ Head(frames).len > 0
  <2>1. /\ filled' = 0 /\ rd' = "reading" /\ chunk_left' = Head(frames).len
        /\ frames' = frames /\ got' = 2
    BY <1>1, <1>2, <1>3, <1>8 DEF ReadHead, Prefix
  <2>2. ChunksSound'
    BY <1>1, <2>1 DEF ChunksSound, encVars
  <2>3. ReaderSound' /\ NeverMisframed'
    BY <1>1, <1>3, <1>4, <1>8, <2>1
    DEF ReaderSound, NeverMisframed, Prefix, AtLeast
  <2>4. TypeOK'
    BY <1>1, <1>2, <1>3, <2>1 DEF TypeOK, ReaderStates, srcVars, encVars
  <2>5. QED
    BY <1>5, <2>2, <2>3, <2>4
<1>9. QED
  BY <1>1, <1>3, <1>6, <1>7, <1>8

(* Payload in hand: chunk_left settles by what was moved out.               *)
LEMMA ReadPayloadSound ==
  ASSUME TransferInv, ReadPayload
  PROVE  TransferInv'
<1>. USE DEF TransferInv
<1>1. /\ rd = "reading" /\ chunk_left > 0 /\ frames # << >> /\ filled = 0
      /\ got >= Prefix /\ got \in Nat
      /\ chunk_left = Prefix + Head(frames).len - got
      /\ UNCHANGED <<srcVars, encVars, rd, filled, tx>>
  BY DEF ReadPayload, ReaderSound, TypeOK
<1>2. /\ frames \in Seq(Chunk) /\ Head(frames) \in Chunk
      /\ Head(frames).first \in Nat /\ Head(frames).len \in Nat
  BY <1>1, OldestChunk DEF Chunk
<1>. DEFINE chunk == Head(frames)
            here  == Prefix + chunk.len - got
            New(m) == [j \in 1 .. m |-> chunk.first + (got - Prefix) + j]
<1>3. PICK m \in 1 .. AtMost(chunk_left, here) :
        /\ delivered' = delivered \o New(m)
        /\ chunk_left' = chunk_left - m
        /\ inflight' = inflight - m
        /\ frames' = IF m = here THEN Tail(frames) ELSE frames
        /\ got' = IF m = here THEN 0 ELSE got + m
  BY DEF ReadPayload
<1>4. m \in Nat \ {0} /\ m <= here /\ here = chunk_left /\ here \in Nat
  <2>1. here \in Int /\ here = chunk_left /\ here \in Nat
    BY <1>1, <1>2 DEF Prefix
  <2>2. AtMost(chunk_left, here) = here
    BY <2>1 DEF AtMost
  <2>3. m \in 1 .. here
    BY <1>3, <2>2
  <2>4. QED
    BY <2>1, <2>3
<1>5. Len(delivered) = chunk.first + (got - Prefix) /\ delivered \in Seq(Nat)
  BY <1>1, <1>2 DEF ReaderSound, Prefix, AtLeast, TypeOK
<1>6. /\ New(m) \in Seq(Nat) /\ Len(New(m)) = m
      /\ \A j \in 1 .. m : New(m)[j] = Len(delivered) + j
  BY <1>1, <1>2, <1>4, <1>5 DEF Prefix
<1>7. /\ delivered' \in Seq(Nat) /\ Len(delivered') = Len(delivered) + m
      /\ DeliveredInOrder'
  <2>. HIDE DEF New, here, chunk
  <2>1. /\ delivered' \in Seq(Nat) /\ Len(delivered') = Len(delivered) + m
        /\ \A i \in 1 .. Len(delivered) + m : delivered'[i] =
             IF i <= Len(delivered) THEN delivered[i]
             ELSE New(m)[i - Len(delivered)]
    <3>1. New(m) \in Seq(Nat) /\ Len(New(m)) = m
      BY <1>6
    <3>2. delivered' = delivered \o New(m) /\ delivered \in Seq(Nat)
      BY <1>3, <1>5
    <3>3. QED
      BY <3>1, <3>2, ConcatProperties
  <2>2. \A i \in 1 .. Len(delivered) : delivered[i] = i
    BY <1>5 DEF DeliveredInOrder
  <2>3. ASSUME NEW i \in 1 .. Len(delivered) + m
        PROVE  delivered'[i] = i
    <3>1. CASE i <= Len(delivered)
      <4>1. i \in 1 .. Len(delivered)
        BY <1>5, <3>1
      <4>2. QED
        BY <2>1, <2>2, <3>1, <4>1
    <3>2. CASE ~ i <= Len(delivered)
      <4>1. /\ i - Len(delivered) \in 1 .. m
            /\ Len(delivered) + (i - Len(delivered)) = i
        BY <1>4, <1>5, <3>2
      <4>2. QED
        BY <1>6, <2>1, <3>2, <4>1
    <3>3. QED
      BY <3>1, <3>2
  <2>4. QED
    BY <2>1, <2>3 DEF DeliveredInOrder
<1>8. EncoderSound' /\ NeverMisframed'
  BY <1>1 DEF EncoderSound, NeverMisframed, avail, srcVars, encVars
<1>9. CASE m = here
  <2>1. frames' = Tail(frames) /\ got' = 0 /\ chunk_left' = 0
    BY <1>3, <1>4, <1>9
  <2>2. /\ frames' \in Seq(Chunk) /\ ChunksSound'
        /\ IF frames' = << >> THEN settled = chunk.first + chunk.len
           ELSE Head(frames').first = chunk.first + chunk.len
    BY <1>1, <2>1, TailSound DEF encVars
  <2>3. Len(delivered') = chunk.first + chunk.len
    <3>1. \A f, l, g \in Int : f + (g - 2) + (2 + l - g) = f + l
      OBVIOUS
    <3>2. Len(delivered') = chunk.first + (got - 2) + (2 + chunk.len - got)
      BY <1>5, <1>7, <1>9 DEF Prefix
    <3>3. QED
      BY <1>1, <1>2, <3>1, <3>2, SMTT(30)
  <2>4. frames' # << >> => Head(frames') \in Chunk
    BY <2>2
  <2>5. ReaderSound'
    <3>1. frames' # << >> => 0 < Prefix + Head(frames').len
                             /\ Head(frames').first \in Nat
      BY <2>4 DEF Chunk, Prefix
    <3>2. AtLeast(0 - Prefix, 0) = 0
      BY DEF AtLeast, Prefix
    <3>3. Len(delivered') = IF frames' = << >> THEN settled'
                            ELSE Head(frames').first + AtLeast(got' - Prefix, 0)
      BY <1>1, <2>1, <2>2, <2>3, <3>1, <3>2 DEF encVars
    <3>4. rd' = "reading" /\ filled' = 0
      BY <1>1
    <3>5. QED
      BY <2>1, <3>1, <3>3, <3>4 DEF ReaderSound
  <2>6. TypeOK'
    <3>1. inflight' \in Int
      BY <1>3, <1>4 DEF TypeOK
    <3>2. QED
      BY <1>1, <1>7, <2>1, <2>2, <3>1 DEF TypeOK, srcVars, encVars, Chunk
  <2>7. QED
    BY <1>7, <1>8, <2>2, <2>5, <2>6
<1>10. CASE m # here
  <2>1. /\ frames' = frames /\ got' = got + m /\ chunk_left' = chunk_left - m
        /\ chunk_left - m \in Nat \ {0}
    BY <1>3, <1>4, <1>10
  <2>2. ChunksSound'
    BY <1>1, <2>1 DEF ChunksSound, encVars
  <2>3. ReaderSound'
    <3>1. \A f, l, g, k \in Int :
            /\ k < 2 + l - g => g + k < 2 + l
            /\ (2 + l - g) - k = 2 + l - (g + k)
            /\ f + (g - 2) + k = f + ((g + k) - 2)
      OBVIOUS
    <3>2. /\ got' < Prefix + chunk.len /\ got' >= Prefix
          /\ chunk_left' = Prefix + chunk.len - got'
      <4>1. m < Prefix + chunk.len - got
        BY <1>4, <1>10
      <4>2. QED
        BY <1>1, <1>2, <1>4, <2>1, <3>1, <4>1, SMTT(30) DEF Prefix
    <3>3. Len(delivered') = chunk.first + (got' - Prefix)
      <4>1. Len(delivered') = chunk.first + (got - 2) + m
        BY <1>5, <1>7 DEF Prefix
      <4>2. chunk.first \in Int /\ got \in Int /\ m \in Int /\ chunk.len \in Int
        BY <1>1, <1>2, <1>4
      <4>3. chunk.first + (got - 2) + m = chunk.first + ((got + m) - 2)
        BY <3>1, <4>2
      <4>4. got' - Prefix = (got + m) - 2
        BY <2>1 DEF Prefix
      <4>5. QED
        BY <4>1, <4>3, <4>4
    <3>4. got' - Prefix >= 0 /\ AtLeast(got' - Prefix, 0) = got' - Prefix
      BY <1>1, <1>4, <2>1 DEF AtLeast, Prefix
    <3>5. rd' = "reading" /\ filled' = 0 /\ chunk_left' > 0
      BY <1>1, <2>1
    <3>6. QED
      BY <1>1, <2>1, <3>2, <3>3, <3>4, <3>5 DEF ReaderSound
  <2>4. TypeOK'
    BY <1>1, <1>2, <1>3, <1>4, <1>7, <2>1 DEF TypeOK, srcVars, encVars
  <2>5. QED
    BY <1>7, <1>8, <2>2, <2>3, <2>4
<1>11. QED
  BY <1>9, <1>10

(* A reader that gives up, or goes away, leaves a consistent transfer       *)
(* behind.                                                                  *)
LEMMA ReaderLeavesSound ==
  ASSUME TransferInv, ReadHeadFails \/ RxDrop
  PROVE  TransferInv'
<1>. USE DEF TransferInv
<1>1. UNCHANGED <<srcVars, encVars, delivered, tx>>
  BY DEF ReadHeadFails, RxDrop
<1>2. /\ frames' = frames \/ frames' = << >>
      /\ rd' \in {"malformed", "gone"} /\ filled' = 0
      /\ got' \in {got, 0} /\ inflight' \in {inflight, 0}
      /\ chunk_left' \in {chunk_left, 0}
  BY DEF ReadHeadFails, RxDrop
<1>3. TypeOK' /\ ChunksSound'
  <2>1. frames' \in Seq([first : Nat, len : Nat, size : Nat])
    <3>1. << >> \in Seq([first : Nat, len : Nat, size : Nat])
      OBVIOUS
    <3>2. frames \in Seq([first : Nat, len : Nat, size : Nat])
      BY DEF TypeOK
    <3>3. QED
      BY <1>2, <3>1, <3>2
  <2>2. TypeOK'
    BY <1>1, <1>2, <2>1 DEF TypeOK, ReaderStates, srcVars, encVars
  <2>3. ChunksSound'
    <3>1. CASE frames' = frames
      BY <1>1, <3>1 DEF ChunksSound, encVars
    <3>2. CASE frames' = << >>
      BY <3>2 DEF ChunksSound
    <3>3. QED
      BY <1>2, <3>1, <3>2
  <2>4. QED
    BY <2>2, <2>3
<1>4. EncoderSound' /\ NeverMisframed' /\ DeliveredInOrder'
  BY <1>1 DEF ReadHeadFails, RxDrop, EncoderSound, NeverMisframed,
              DeliveredInOrder, avail, srcVars, encVars
<1>5. ReaderSound'
  BY <1>1 DEF ReadHeadFails, RxDrop, ReaderSound, srcVars, encVars
<1>6. QED
  BY <1>3, <1>4, <1>5

(* Every step keeps the invariant.                                          *)
LEMMA StepSound ==
  ASSUME TransferInv, [Next]_vars, SourceKind = "ring"
  PROVE  TransferInv'
<1>1. CASE QuietStep
  BY <1>1, QuietStepSound
<1>2. CASE EncWrite
  BY <1>2, EncWriteSound
<1>3. CASE EncTerminate
  BY <1>3, EncTerminateSound
<1>4. CASE ReadHead
  BY <1>4, ReadHeadSound
<1>5. CASE ReadPayload
  BY <1>5, ReadPayloadSound
<1>6. CASE ReadHeadFails \/ RxDrop
  BY <1>6, ReaderLeavesSound
<1>7. CASE UNCHANGED vars
  BY <1>7 DEF vars, srcVars, encVars, rdVars, TransferInv, TypeOK, ChunksSound,
     EncoderSound, ReaderSound, NeverMisframed, DeliveredInOrder, avail
<1>8. QED
  BY <1>1, <1>2, <1>3, <1>4, <1>5, <1>6, <1>7
  DEF Next, Source, Encoder, Reader, QuietStep

(* The three views of a transfer - what the encoder consumed, what is on    *)
(* the wire, what the reader took - agree at every step, for every window,  *)
(* chunk limit and body, through cancellations, retries and failures.       *)
THEOREM TransferCorrect ==
  ASSUME SourceKind = "ring"
  PROVE  Spec => []TransferInv
<1>1. TransferInv /\ [Next]_vars => TransferInv'
  BY StepSound
<1>2. QED
  BY <1>1, InitSound, PTL DEF Spec

(* The receiver gets the source's bytes in order, none twice, none skipped. *)
THEOREM InOrder ==
  ASSUME SourceKind = "ring"
  PROVE  Spec => []DeliveredInOrder
<1>1. TransferInv => DeliveredInOrder
  BY DEF TransferInv
<1>2. QED
  BY <1>1, TransferCorrect, PTL

(* No byte of payload is ever taken for a chunk's length.                   *)
THEOREM FramingKept ==
  ASSUME SourceKind = "ring"
  PROVE  Spec => []NeverMisframed
<1>1. TransferInv => NeverMisframed
  BY DEF TransferInv
<1>2. QED
  BY <1>1, TransferCorrect, PTL

(* A receiver that was told "ended" has the whole of a cleanly closed body. *)
THEOREM EndedComplete ==
  ASSUME SourceKind = "ring"
  PROVE  Spec => []EndedIsComplete
<1>1. TransferInv => EndedIsComplete
  BY DEF TransferInv, EndedIsComplete, ReaderSound, EncoderSound
<1>2. QED
  BY <1>1, TransferCorrect, PTL

(* A piece of payload is the stream's next piece.                           *)
LEMMA PayloadIsDelivery ==
  ASSUME TransferInv, ReadPayload
  PROVE  Stream!Deliver
<1>1. /\ rd = "reading" /\ chunk_left > 0 /\ frames # << >>
      /\ got >= Prefix /\ got \in Nat
      /\ chunk_left = Prefix + Head(frames).len - got
      /\ UNCHANGED <<srcVars, rd>>
  BY DEF ReadPayload, ReaderSound, TypeOK, TransferInv
<1>2. /\ Head(frames).first \in Nat /\ Head(frames).len \in Nat
      /\ Head(frames).first + Head(frames).len <= settled
  BY <1>1, OldestChunk DEF Chunk
<1>3. settled \in Nat /\ made \in Nat /\ settled <= made
  BY ChunkedBodyAssumption DEF TransferInv, TypeOK, EncoderSound
<1>4. Len(delivered) = Head(frames).first + (got - Prefix)
  BY <1>1, <1>2 DEF TransferInv, ReaderSound, Prefix, AtLeast
<1>. DEFINE here == Prefix + Head(frames).len - got
<1>5. PICK m \in 1 .. AtMost(chunk_left, here) :
        delivered' = delivered \o
          [j \in 1 .. m |-> Head(frames).first + (got - Prefix) + j]
  BY DEF ReadPayload
<1>6. m \in Nat \ {0} /\ m <= here
  <2>1. here = chunk_left /\ here \in Nat
    BY <1>1, <1>2 DEF Prefix
  <2>2. AtMost(chunk_left, here) = here
    BY <2>1 DEF AtMost
  <2>3. m \in 1 .. here
    BY <1>5, <2>2
  <2>4. QED
    BY <2>1, <2>3
<1>7. m \in 1 .. made - Len(delivered)
  <2>1. \A f, l, g, s, n, k \in Int :
          f + l <= s /\ s <= n /\ k <= 2 + l - g => k <= n - (f + (g - 2))
    OBVIOUS
  <2>2. m <= made - (Head(frames).first + (got - 2))
    BY <1>1, <1>2, <1>3, <1>6, <2>1 DEF Prefix
  <2>3. Head(frames).first + (got - 2) \in Int
    BY <1>1, <1>2
  <2>4. QED
    BY <1>3, <1>4, <1>6, <2>2, <2>3 DEF Prefix
<1>8. delivered' = delivered \o [j \in 1 .. m |-> Len(delivered) + j]
  BY <1>4, <1>5
<1>9. Outcome = "reading" /\ Outcome' = Outcome
  BY <1>1 DEF Outcome
<1>10. QED
  BY <1>1, <1>7, <1>8, <1>9 DEF Stream!Deliver, srcVars

(* Every chunked transfer is a byte stream: nothing the frames, the window, *)
(* a cancellation or a retry does is visible to the receiver except as the  *)
(* stream's next bytes, its end, or its being given up.                     *)
THEOREM ImplementsStream ==
  ASSUME SourceKind = "ring"
  PROVE  Spec => StreamSpec
<1>1. Init => Stream!Init
  BY DEF Init, Stream!Init, Outcome
<1>2. TransferInv /\ [Next]_vars => [Stream!Next]_(Stream!streamVars)
  <2>. SUFFICES ASSUME TransferInv, [Next]_vars
                PROVE  Stream!Next \/ UNCHANGED Stream!streamVars
    OBVIOUS
  <2>. USE DEF Stream!Next, Stream!streamVars
  <2>1. CASE SourceMake
    BY <2>1 DEF SourceMake, rdVars, Outcome, Stream!Make
  <2>2. CASE SourceClose
    <3>1. src = "open" /\ src' \in {"closed", "failed"} /\ made' = made
          /\ delivered' = delivered /\ rd' = rd
      BY <2>2 DEF SourceClose, rdVars
    <3>2. QED
      BY <3>1 DEF Outcome, Stream!Finish
  <2>3. CASE EncWrite \/ EncTerminate \/ EncLook \/ EncBorrow \/ EncSourceOver
             \/ EncTargetGone \/ TokenFires \/ EncCancelled \/ EncRetry \/ TxClose
    BY <2>3 DEF EncWrite, EncTerminate, EncLook, EncBorrow, EncSourceOver,
       EncTargetGone, TokenFires, EncCancelled, EncRetry, TxClose, srcVars,
       rdVars, Outcome
  <2>4. CASE ReadPayload
    BY <2>4, PayloadIsDelivery
  <2>5. CASE ReadHead
    <3>1. UNCHANGED <<made, src, delivered>> /\ rd = "reading"
      BY <2>5 DEF ReadHead, srcVars
    <3>2. TransferInv'
      BY <2>5, ReadHeadSound
    <3>3. rd' = "reading" \/ rd' = "ended"
      BY <2>5, <3>2 DEF ReadHead, TransferInv, NeverMisframed
    <3>4. CASE rd' = "reading"
      BY <3>1, <3>4 DEF Outcome
    <3>5. CASE rd' = "ended"
      <4>1. src = "closed" /\ Len(delivered) = made
        BY <3>1, <3>2, <3>5 DEF TransferInv, ReaderSound, EncoderSound
      <4>2. QED
        BY <3>1, <3>5, <4>1 DEF Outcome, Stream!End
    <3>6. QED
      BY <3>3, <3>4, <3>5
  <2>6. CASE ReadHeadFails \/ RxDrop
    <3>1. /\ UNCHANGED <<made, src, delivered>>
          /\ rd \in {"reading", "malformed"} /\ rd' \in {"malformed", "gone"}
      BY <2>6 DEF ReadHeadFails, RxDrop, srcVars
    <3>2. QED
      BY <3>1 DEF Outcome, Stream!Stop
  <2>7. CASE UNCHANGED vars
    BY <2>7 DEF vars, srcVars, rdVars, Outcome
  <2>8. QED
    BY <2>1, <2>2, <2>3, <2>4, <2>5, <2>6, <2>7 DEF Next, Source, Encoder, Reader
<1>3. QED
  BY <1>1, <1>2, TransferCorrect, PTL DEF Spec, StreamSpec, Stream!Spec
=============================================================================
