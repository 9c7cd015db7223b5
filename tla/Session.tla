------------------------------ MODULE Session ------------------------------
(***************************************************************************)
(* MptpSession: one request and its response over one channel               *)
(* (mptp_smux/src/client/session.rs).                                       *)
(*                                                                          *)
(* The request is what the calls put on the wire: `wire` has one element    *)
(* for each byte of body or suffix and one for the terminator of a chunked  *)
(* body (ChunkedBody says how a chunked body travels).  The response is     *)
(* `rx`, what the peer means to send behind its prefix: two bytes of that,  *)
(* the body with the two-byte length of each chunk, and the suffix; Kind    *)
(* says which byte is what.  The peer ends the stream after `cut` bytes,    *)
(* and `pos` bytes have left the receiving half.  When the bytes arrive     *)
(* makes no difference to a reader that waits for them, so arrival is not   *)
(* modelled.                                                                *)
(***************************************************************************)
EXTENDS Integers, Sequences, FiniteSets

CONSTANTS
  Bodies,      \* bodies: how many bytes of payload each chunk ends after
  MaxReq,      \* bound: bytes of request body, declared or at hand, and of suffix
  MaxSuffix,   \* bound: bytes of the response suffix
  DrainBlock,  \* what drain_to_end_async_ demands at a time, 4096 in the code
  Habits       \* what callers may do, from HabitKinds

(* skip:  go on to the suffix without asking for the body                   *)
(* early: put the body view back before its end                             *)
(* take:  take the reader out of the view with try_into_*                   *)
(* retry: send the rest of a request again after the call failed            *)
(* again: receive on after a failure that had consumed a part               *)
HabitKinds == {"skip", "early", "take", "retry", "again"}

Plans == {"absent", "sized", "chunked"}

ASSUME SessionAssumption ==
  /\ \A b \in Bodies : /\ b \in Seq(Nat \ {0})
                       /\ \A i, j \in DOMAIN b : i < j => b[i] < b[j]
  /\ MaxReq \in Nat /\ MaxSuffix \in Nat
  /\ DrainBlock \in Nat \ {0}
  /\ Habits \subseteq HabitKinds

VARIABLES
  method,    \* "View" stands for the methods whose response may have a body
  req,       \* what the request prefix declares: [plan, size]
  source,    \* bytes the request body's source still has
  state_,    \* SessionState
  call,      \* the call in progress: see Calls
  total,     \* bytes copy_sized_async_ has moved in this call
  wire,      \* what the session wrote after the request prefix
  resp,      \* what the response prefix declares: [plan, size]
  rx, cut, pos, \* rx: what follows the response prefix, [chunks, suffix]
  body_plan_, \* the plan the session decoded: [plan, size]
  body_,     \* BodyState: the progress slot
  view,      \* who reads rx: "none", "view" (RespBodyRead), "taken", "suffix"
  left,      \* quota of the limited reader in use
  chunk_left, ended,  \* state of the chunked reader in use
  bodyTaken, suffixTaken, \* positions handed out as body, as suffix
  failed,    \* the last sending call failed
  astray,    \* history: a failed call has left the stream inside what it read
  habits     \* history: the habits the caller has shown

reqVars  == <<method, req, source, total, wire>>
respVars == <<resp, rx, cut>>
readVars == <<pos, view, left, chunk_left, ended, bodyTaken, suffixTaken>>
ctlVars  == <<state_, call, body_plan_, body_, failed, astray>>
sessVars == <<ctlVars, habits>>
vars     == <<reqVars, respVars, readVars, sessVars>>

SessionStates ==
  {"SendingBody", "SendingSuffix", "WaitingResp", "PrefixReady", "BodyReady",
   "SuffixReady"}

Calls == {"none", "sized", "chunked", "suffix", "drain"}

-----------------------------------------------------------------------------
(* The response on the wire.                                                *)

PrefixLen == 2

(* Chunk k, the last of which is the terminator, starts after Start(k)      *)
(* bytes: its length, then its payload.                                     *)
Chunks       == 1 .. Len(rx.chunks) + 1
Payload(k)   == IF k = 0 THEN 0 ELSE rx.chunks[k]
Start(k)     == PrefixLen + 2 * (k - 1) + Payload(k - 1)
ChunkLen(k)  == IF k \in DOMAIN rx.chunks THEN Payload(k) - Payload(k - 1) ELSE 0
Terminator   == Len(rx.chunks) + 1

BodyEnd ==
  IF resp.plan = "chunked" THEN Start(Terminator) + 2 ELSE PrefixLen + resp.size
RxLen == BodyEnd + rx.suffix

Kind(i) ==
  CASE i <= PrefixLen -> "prefix"
    [] i > BodyEnd -> "suffix"
    [] PrefixLen < i /\ i <= BodyEnd ->
         IF resp.plan = "chunked" /\ \E k \in Chunks : i - Start(k) \in {1, 2}
         THEN "length" ELSE "body"

Positions(kind) == {i \in 1 .. RxLen : Kind(i) = kind}

(* A first part of the bytes of a kind, in their order.                     *)
InOrder(taken, kind) ==
  /\ \A i, j \in DOMAIN taken : i < j => taken[i] < taken[j]
  /\ \A i \in DOMAIN taken : taken[i] \in Positions(kind)
  /\ \A p \in Positions(kind), i \in DOMAIN taken :
       p < taken[i] => \E j \in DOMAIN taken : taken[j] = p

(* The values a two-byte length read at pos may have: bytes that are not a  *)
(* length may be anything.                                                  *)
LengthsHere ==
  LET here == {k \in Chunks : resp.plan = "chunked" /\ Start(k) = pos}
  IN  IF here # {} THEN {ChunkLen(k) : k \in here} ELSE {0, 1, DrainBlock}

-----------------------------------------------------------------------------
Fresh == [kind |-> "Fresh"]
NoPlan == [plan |-> "none", size |-> 0]

(* A response prefix says how its body is bounded, and what it says is so.  *)
(* An empty body is absent, or a terminator and nothing else.               *)
Declares(r) ==
  \/ r = [plan |-> "absent", size |-> 0] /\ rx.chunks = << >>
  \/ r = [plan |-> "chunked", size |-> 0]
  \/ /\ rx.chunks # << >>
     /\ r = [plan |-> "sized", size |-> Payload(Len(rx.chunks))]

(* new_: a request without body waits for its response at once.             *)
Init ==
  /\ method \in {"View", "Head"}
  /\ req \in [plan : {"sized"}, size : 1 .. MaxReq]
             \cup [plan : {"absent", "chunked"}, size : {0}]
  /\ source \in 0 .. MaxReq
  /\ state_ = IF req.plan = "absent" THEN "WaitingResp" ELSE "SendingBody"
  /\ call = "none" /\ total = 0 /\ wire = << >>
  /\ rx \in [chunks : Bodies, suffix : 0 .. MaxSuffix]
  /\ Declares(resp)
  /\ cut \in 0 .. RxLen
  /\ pos = 0
  /\ body_plan_ = NoPlan /\ body_ = Fresh
  /\ view = "none" /\ left = 0 /\ chunk_left = 0 /\ ended = FALSE
  /\ bodyTaken = << >> /\ suffixTaken = << >>
  /\ failed = FALSE /\ astray = FALSE /\ habits = {}

(* The session is borrowed by one call or view at a time.                   *)
Idle == call = "none" /\ view = "none"

(* What the caller may do is recorded as it does it.                        *)
Shows(shown) == shown \subseteq Habits /\ habits' = habits \cup shown

-----------------------------------------------------------------------------
(* The request.                                                             *)

StartSend(kind) ==
  /\ Idle
  /\ call' = kind
  /\ failed' = FALSE
  /\ Shows(IF failed THEN {"retry"} ELSE {})

(* send_req_body_async: the plan comes from the prefix, and every call      *)
(* counts from zero.                                                        *)
SendReqBody ==
  /\ state_ = "SendingBody"
  /\ StartSend(req.plan)
  /\ total' = 0
  /\ UNCHANGED <<method, req, source, wire, respVars, readVars, state_,
                 body_plan_, body_, astray>>

(* copy_sized_async_: one segment, of which what fits the quota moves.      *)
CopySome ==
  /\ call = "sized"
  /\ \E m \in 1 .. source :
       /\ m <= req.size - total
       /\ wire' = wire \o [i \in 1 .. m |-> "body"]
       /\ source' = source - m
       /\ total' = total + m
  /\ UNCHANGED <<method, req, respVars, readVars, sessVars>>

(* Mutant: the end of the source is the end of the body.                    *)
CopyDoneWithSource ==
  /\ call = "sized"
  /\ total = req.size \/ source = 0
  /\ state_' = "WaitingResp"
  /\ call' = "none"
  /\ UNCHANGED <<reqVars, respVars, readVars, body_plan_, body_, failed, astray,
                 habits>>

CopyDone ==
  /\ call = "sized"
  /\ total = req.size
  /\ state_' = "WaitingResp"
  /\ call' = "none"
  /\ UNCHANGED <<reqVars, respVars, readVars, body_plan_, body_, failed, astray,
                 habits>>

(* ChunkedEncode: pieces of the source, then the terminator.                *)
EncodeSome ==
  /\ call = "chunked"
  /\ \E m \in 1 .. source :
       /\ wire' = wire \o [i \in 1 .. m |-> "body"]
       /\ source' = source - m
  /\ UNCHANGED <<method, req, total, respVars, readVars, sessVars>>

EncodeDone ==
  /\ call = "chunked"
  /\ source = 0
  /\ wire' = Append(wire, "term")
  /\ state_' = "WaitingResp"
  /\ call' = "none"
  /\ UNCHANGED <<method, req, source, total, respVars, readVars, body_plan_,
                 body_, failed, astray, habits>>

(* send_req_suffix_async.                                                   *)
SendReqSuffix ==
  /\ state_ \in {"WaitingResp", "SendingSuffix"}
  /\ StartSend("suffix")
  /\ state_' = "SendingSuffix"
  /\ UNCHANGED <<reqVars, respVars, readVars, body_plan_, body_, astray>>

SuffixSome ==
  /\ call = "suffix"
  /\ Cardinality({i \in DOMAIN wire : wire[i] = "suffix"}) < MaxReq
  /\ wire' = Append(wire, "suffix")
  /\ UNCHANGED <<method, req, source, total, respVars, readVars, sessVars>>

SuffixDone ==
  /\ call = "suffix"
  /\ state_' = "WaitingResp"
  /\ call' = "none"
  /\ UNCHANGED <<reqVars, respVars, readVars, body_plan_, body_, failed, astray,
                 habits>>

(* A token, the source's early end, the channel: what moved has moved, and  *)
(* the state is what it was when the call began.                            *)
SendFails ==
  /\ call \in {"chunked", "suffix"} \/ (call = "sized" /\ total < req.size)
  /\ call' = "none" /\ failed' = TRUE
  /\ UNCHANGED <<reqVars, respVars, readVars, state_, body_plan_, body_, astray,
                 habits>>

-----------------------------------------------------------------------------
(* The response.                                                            *)

(* The calls look at state_ alone.  One that follows a failure which had    *)
(* consumed a part of what it read goes on from there.                      *)
Again == IF astray THEN {"again"} ELSE {}

(* What a prefix may declare that is read where none begins.                *)
Misread == [plan : {"absent", "chunked"}, size : {0}]
           \cup [plan : {"sized"}, size : {1, DrainBlock}]

(* The prefix is read and the body's bounds are fixed with it; the response *)
(* to a Head may have no body, and one that declares it is refused.         *)
RecvRespPrefix ==
  /\ Idle
  /\ state_ \in {"WaitingResp", "SendingSuffix"}
  /\ Shows(Again)
  /\ \E plan \in IF pos = 0 THEN {resp} ELSE Misread :
       IF method = "Head" /\ plan.plan # "absent"
       THEN astray' = TRUE /\ UNCHANGED <<state_, body_plan_, body_>>
       ELSE /\ body_plan_' = plan
            /\ body_' = Fresh
            /\ state_' = "PrefixReady"
            /\ UNCHANGED astray
  /\ pos' = pos + PrefixLen /\ pos' <= cut
  /\ UNCHANGED <<reqVars, respVars, view, left, chunk_left, ended, bodyTaken,
                 suffixTaken, call, failed>>

(* A token, the stream's end, bytes that do not decode, or a Body_Size that *)
(* is no number in a prefix that does.                                      *)
RecvRespPrefixFails ==
  /\ Idle
  /\ state_ \in {"WaitingResp", "SendingSuffix"}
  /\ Shows(Again)
  /\ pos' \in pos .. pos + PrefixLen /\ pos' <= cut
  /\ astray' = (astray \/ pos' # pos)
  /\ UNCHANGED <<reqVars, respVars, view, left, chunk_left, ended, bodyTaken,
                 suffixTaken, state_, call, body_plan_, body_, failed>>

(* recv_resp_body_async: the view the prefix decided.                       *)
RecvRespBody ==
  /\ Idle
  /\ state_ = "PrefixReady"
  /\ state_' = "BodyReady"
  /\ view' = "view"
  /\ left' = body_plan_.size
  /\ chunk_left' = 0 /\ ended' = FALSE
  /\ UNCHANGED <<reqVars, respVars, pos, bodyTaken, suffixTaken, call,
                 body_plan_, body_, failed, astray, habits>>

Reading == view \in {"view", "taken"}

Take(taken, m) == taken \o [i \in 1 .. m |-> pos + i]

(* Mutant: the demand is not narrowed to the quota.                         *)
ReadUnlimited ==
  /\ Reading /\ body_plan_.plan # "chunked" /\ left > 0
  /\ \E m \in 1 .. cut - pos :
       /\ bodyTaken' = Take(bodyTaken, m)
       /\ left' = IF m <= left THEN left - m ELSE 0
       /\ pos' = pos + m
  /\ UNCHANGED <<reqVars, respVars, view, chunk_left, ended, suffixTaken,
                 sessVars>>

(* Mutant: the quota settles by what was borrowed.                          *)
ReadSettlesBorrowed ==
  /\ Reading /\ body_plan_.plan # "chunked"
  /\ \E m \in 1 .. left :
       /\ pos + m <= cut
       /\ bodyTaken' = Take(bodyTaken, m)
       /\ pos' = pos + m
  /\ left' = 0
  /\ UNCHANGED <<reqVars, respVars, view, chunk_left, ended, suffixTaken,
                 sessVars>>

(* A segment of the limited reader, moved out and settled.                  *)
ReadLimited ==
  /\ Reading /\ body_plan_.plan # "chunked"
  /\ \E m \in 1 .. left :
       /\ pos + m <= cut
       /\ bodyTaken' = Take(bodyTaken, m)
       /\ left' = left - m
       /\ pos' = pos + m
  /\ UNCHANGED <<reqVars, respVars, view, chunk_left, ended, suffixTaken,
                 sessVars>>

(* The length of the next chunk.                                            *)
ReadLength ==
  /\ ~ ended /\ chunk_left = 0
  /\ pos + 2 <= cut
  /\ chunk_left' \in LengthsHere
  /\ ended' = (chunk_left' = 0)
  /\ pos' = pos + 2
  /\ UNCHANGED <<reqVars, respVars, view, left, bodyTaken, suffixTaken, ctlVars>>

ReadChunkLength ==
  Reading /\ body_plan_.plan = "chunked" /\ ReadLength /\ Shows(Again)

ReadChunk ==
  /\ Reading /\ body_plan_.plan = "chunked"
  /\ \E m \in 1 .. chunk_left :
       /\ pos + m <= cut
       /\ bodyTaken' = Take(bodyTaken, m)
       /\ chunk_left' = chunk_left - m
       /\ pos' = pos + m
  /\ UNCHANGED <<reqVars, respVars, view, left, ended, suffixTaken, sessVars>>

Finished == IF body_plan_.plan = "chunked" THEN ended ELSE left = 0

(* Mutants: the slot is given what the body was, not what is left of it.    *)
ProgressOfWhole ==
  IF body_plan_.plan = "chunked" THEN [kind |-> "Chunked", ended |-> ended]
                            ELSE [kind |-> "Sized", left |-> body_plan_.size]

ProgressUnended ==
  IF body_plan_.plan = "chunked" THEN [kind |-> "Chunked", ended |-> FALSE]
                            ELSE [kind |-> "Sized", left |-> left]

(* write_back_: what the view knows of the body goes into the slot.         *)
Progress ==
  IF body_plan_.plan = "chunked" THEN [kind |-> "Chunked", ended |-> ended]
                            ELSE [kind |-> "Sized", left |-> left]

(* A token fires, or the stream ends, before or inside a chunk's length;    *)
(* the reader forgets the part it had, and would read on behind it.         *)
ReadChunkLengthFails ==
  /\ Reading /\ body_plan_.plan = "chunked" /\ ~ ended /\ chunk_left = 0
  /\ Shows(Again)
  /\ pos' \in pos .. pos + 1 /\ pos' <= cut
  /\ astray' = (astray \/ pos' # pos)
  /\ UNCHANGED <<reqVars, respVars, view, left, chunk_left, ended, bodyTaken,
                 suffixTaken, state_, call, body_plan_, body_, failed>>

(* The view reads through the reader of its kind, as does one taken from it. *)
ReadBody == ReadLimited \/ ReadChunkLength \/ ReadChunk \/ ReadChunkLengthFails

(* The view is put back: by a caller that is done, or finds the stream over *)
(* or out of step - or before that.                                         *)
LeaveBody ==
  /\ Finished \/ pos = cut \/ astray \/ "early" \in Habits
  /\ view' = "none"
  /\ habits' = IF Finished THEN habits ELSE habits \cup {"early"}
  /\ UNCHANGED <<reqVars, respVars, pos, left, chunk_left, ended, bodyTaken,
                 suffixTaken, state_, call, body_plan_, failed, astray>>

ViewDrop  == view = "view" /\ body_' = Progress /\ LeaveBody
TakenDrop == view = "taken" /\ UNCHANGED body_ /\ LeaveBody

(* try_into_chunked, try_into_limited: the slot is written now, and the     *)
(* reader that goes out writes nothing back.                                *)
TryInto ==
  /\ view = "view"
  /\ view' = "taken"
  /\ body_' = Progress
  /\ Shows({"take"})
  /\ UNCHANGED <<reqVars, respVars, pos, left, chunk_left, ended, bodyTaken,
                 suffixTaken, state_, call, body_plan_, failed, astray>>

(* recv_resp_suffix_async: what the slot says is left has to be drained.    *)
RecvRespSuffix ==
  /\ Idle
  /\ state_ \in {"PrefixReady", "BodyReady"}
  /\ Shows(Again \cup IF state_ = "PrefixReady" /\ body_plan_.plan # "absent"
                       THEN {"skip"} ELSE {})
  /\ call' = "drain"
  /\ left' = IF body_.kind = "Sized" THEN body_.left ELSE 0
  /\ ended' = IF body_.kind = "Chunked" THEN body_.ended ELSE FALSE
  /\ chunk_left' = 0
  /\ UNCHANGED <<reqVars, respVars, pos, view, bodyTaken, suffixTaken, state_,
                 body_plan_, body_, failed, astray>>

DrainChunkLength ==
  call = "drain" /\ body_.kind = "Chunked" /\ ReadLength /\ UNCHANGED habits

(* drain_to_end_async_ asks for exactly DrainBlock bytes, drops the segment *)
(* with nothing moved out of it, and asks again (so a step that gets one    *)
(* changes nothing) until the reader answers with a Closing error.  A quota *)
(* too small for the demand is such an answer.                              *)
DrainDone ==
  /\ call = "drain"
  /\ CASE body_.kind = "Fresh"   -> TRUE
       [] body_.kind = "Sized"   -> left < DrainBlock \/ cut - pos < DrainBlock
       [] body_.kind = "Chunked" ->
            ended \/ (chunk_left >= DrainBlock /\ cut - pos < DrainBlock)
  /\ body_' = Fresh
  /\ state_' = "SuffixReady"
  /\ view' = "suffix"
  /\ call' = "none"
  /\ UNCHANGED <<reqVars, respVars, pos, left, chunk_left, ended, bodyTaken,
                 suffixTaken, body_plan_, failed, astray, habits>>

(* A token fires, a length is cut short, or a chunk is too small for the    *)
(* demand.  The reader is dropped, and with it what it knew of a chunk.     *)
DrainFails ==
  /\ call = "drain"
  /\ \/ body_.kind = "Sized" /\ left > 0
     \/ body_.kind = "Chunked" /\ ~ ended
  /\ pos' \in pos .. pos + 1 /\ pos' <= cut
  /\ pos' = pos \/ (body_.kind = "Chunked" /\ chunk_left = 0)
  /\ call' = "none"
  /\ astray' = (astray \/ pos' # pos
                \/ (body_.kind = "Chunked" /\ chunk_left > 0))
  /\ UNCHANGED <<reqVars, respVars, view, left, chunk_left, ended, bodyTaken,
                 suffixTaken, state_, body_plan_, body_, failed, habits>>

ReadSuffix ==
  /\ view = "suffix"
  /\ \E m \in 1 .. cut - pos :
       suffixTaken' = Take(suffixTaken, m) /\ pos' = pos + m
  /\ UNCHANGED <<reqVars, respVars, view, left, chunk_left, ended, bodyTaken,
                 sessVars>>

-----------------------------------------------------------------------------
Sending ==
  \/ SendReqBody \/ CopySome \/ CopyDone \/ EncodeSome \/ EncodeDone
  \/ SendReqSuffix \/ SuffixSome \/ SuffixDone \/ SendFails

Receiving ==
  \/ RecvRespPrefix \/ RecvRespPrefixFails \/ RecvRespBody \/ ReadBody
  \/ ViewDrop \/ TakenDrop \/ TryInto
  \/ RecvRespSuffix \/ DrainChunkLength \/ DrainDone \/ DrainFails \/ ReadSuffix

Next == Sending \/ Receiving

Spec == Init /\ [][Next]_vars

-----------------------------------------------------------------------------
TypeOK ==
  /\ method \in {"View", "Head"}
  /\ req \in [plan : Plans, size : Nat]
  /\ source \in Nat /\ total \in 0 .. req.size
  /\ wire \in Seq({"body", "term", "suffix"})
  /\ state_ \in SessionStates /\ call \in Calls
  /\ resp \in [plan : Plans, size : Nat]
  /\ rx \in [chunks : Bodies, suffix : 0 .. MaxSuffix]
  /\ cut \in 0 .. RxLen /\ pos \in 0 .. cut
  /\ body_plan_ \in [plan : Plans \cup {"none"}, size : Nat]
  /\ body_ \in {Fresh} \cup [kind : {"Sized"}, left : Nat]
               \cup [kind : {"Chunked"}, ended : BOOLEAN]
  /\ view \in {"none", "view", "taken", "suffix"}
  /\ left \in Nat /\ chunk_left \in Nat /\ ended \in BOOLEAN
  /\ bodyTaken \in Seq(1 .. cut) /\ suffixTaken \in Seq(1 .. cut)
  /\ failed \in BOOLEAN /\ astray \in BOOLEAN
  /\ habits \subseteq Habits \cup {"early"}

(* Callers whose receiving never follows a failure that had consumed a part *)
(* of what it read.  Those whose call failed before it consumed anything    *)
(* may call again and are among them.                                       *)
InStep == "again" \notin habits

(* Once the session waits for the response, the request on the wire is what *)
(* its prefix declared - the whole body, terminated if it is chunked, and   *)
(* only then a suffix - whatever failed on the way (send_req_body_async,    *)
(* send_req_suffix_async).  A sized body sent again after a failure is sent *)
(* from the start and as a whole: what had moved before comes on top of it, *)
(* and never counts for a part of it.                                       *)
Framed(n) ==
  /\ \A i \in 1 .. n : wire[i] = "body"
  /\ req.plan = "absent" => n = 0
  /\ req.plan = "sized" => /\ n >= req.size
                           /\ "retry" \notin habits => n = req.size
  /\ IF req.plan = "chunked"
     THEN /\ n < Len(wire) /\ wire[n + 1] = "term"
          /\ \A i \in n + 2 .. Len(wire) : wire[i] = "suffix"
     ELSE \A i \in n + 1 .. Len(wire) : wire[i] = "suffix"

RequestFramed ==
  IF state_ = "SendingBody" THEN \A i \in DOMAIN wire : wire[i] = "body"
  ELSE \E n \in 0 .. Len(wire) : Framed(n)

(* Nothing but the payload of the body is ever read as body, in order: no   *)
(* chunk length and no byte of the suffix, through the view or through the  *)
(* reader taken out of it, whatever failed before - but for callers that    *)
(* receive on from inside a failed read.  Even those read no body in answer *)
(* to a Head (recv_resp_prefix_async, recv_resp_body_async, TrMptpBuffRead).*)
BodyIsBody ==
  /\ InStep => InOrder(bodyTaken, "body")
  /\ method = "Head" => bodyTaken = << >>

(* A body reader that is at its end has handed out the whole body, also     *)
(* when the peer's stream was cut and calls failed, for callers in step.    *)
FinishedIsWhole ==
  InStep /\ Reading /\ Finished =>
    \A p \in Positions("body") : \E i \in DOMAIN bodyTaken : bodyTaken[i] = p

(* With no reader out, the progress slot says what is left of the body in   *)
(* the stream (write_back_, RespBodyRead::drop): recv_resp_suffix_async     *)
(* relies on it.  A reader taken out of the view writes nothing back, so    *)
(* that the slot may tell of more than is left, but never of less.          *)
SlotTellsTheRest ==
  (state_ = "BodyReady" /\ view = "none" /\ call # "drain") =>
    IF body_plan_.plan = "chunked"
    THEN LET over == \A i \in pos + 1 .. RxLen : Kind(i) = "suffix"
         IN  /\ body_.ended => over
             /\ over /\ "take" \notin habits => body_.ended
    ELSE LET rest == {i \in Positions("body") : i > pos}
             told == pos + 1 .. pos + body_.left
         IN  /\ rest \subseteq told
             /\ "take" \notin habits => rest = told

(* What each call and each view may find, whoever calls.                    *)
BeforeResp == state_ \in {"SendingBody", "SendingSuffix", "WaitingResp"}

Phases ==
  /\ Declares(resp)
  /\ call \in {"sized", "chunked"} => state_ = "SendingBody" /\ call = req.plan
  /\ call = "suffix" => state_ = "SendingSuffix"
  /\ call = "drain" => state_ \in {"PrefixReady", "BodyReady"}
  /\ state_ = "SendingBody" => req.plan # "absent"
  /\ IF BeforeResp \/ state_ = "PrefixReady"
     THEN view = "none" /\ bodyTaken = << >>
     ELSE call # "none" => view = "none"
  /\ Reading => state_ = "BodyReady"
  /\ view = "suffix" <=> state_ = "SuffixReady"
  /\ BeforeResp <=> body_plan_.plan = "none"
  /\ body_plan_.plan # "sized" => body_plan_.size = 0
  /\ state_ = "PrefixReady" => body_ = Fresh
  /\ state_ # "SuffixReady" => suffixTaken = << >>

(* The answer to a Head that declares a body is refused, and nothing the    *)
(* session accepts for one lets a byte of body out.                         *)
HeadIsBare ==
  method = "Head" =>
    /\ body_plan_.plan \in {"none", "absent"}
    /\ Reading => left = 0
    /\ bodyTaken = << >>

(* A sized body has moved what its call has counted, and before that only   *)
(* what calls that failed had moved.                                        *)
SentIsCounted ==
  state_ = "SendingBody" /\ req.plan = "sized" =>
    /\ call = "sized" => total <= Len(wire)
    /\ "retry" \notin habits =>
         IF call = "sized" THEN Len(wire) = total ELSE ~ failed => wire = << >>

(* Where the receiving half stands between the calls.                       *)
Placed ==
  /\ BeforeResp => astray \/ pos = 0
  /\ ~ BeforeResp => body_plan_ = resp /\ pos >= PrefixLen
  /\ state_ = "PrefixReady" => pos = PrefixLen /\ ~ astray
  /\ call = "drain" => ~ astray

(* The reader of the body stands where its quota, or the chunk it is in,    *)
(* says, and everything before that has been handed out.  A length that was *)
(* cut short leaves it inside that length.                                  *)
ReaderAligned ==
  Reading =>
    /\ \A i \in DOMAIN bodyTaken : bodyTaken[i] <= pos
    /\ \A p \in Positions("body") :
         p <= pos => \E i \in DOMAIN bodyTaken : bodyTaken[i] = p
    /\ astray => body_plan_.plan = "chunked" /\ ~ ended /\ chunk_left = 0
    /\ IF body_plan_.plan # "chunked" THEN pos + left = BodyEnd
       ELSE IF ended THEN pos = BodyEnd /\ chunk_left = 0
       ELSE IF chunk_left = 0
       THEN \E k \in Chunks : pos = Start(k) + IF astray THEN 1 ELSE 0
       ELSE \E k \in DOMAIN rx.chunks :
              Start(k) + 2 <= pos /\ pos + chunk_left = Start(k + 1)

(* What the slot says of a body the view read, until something else reads   *)
(* on: a chunked body that has not ended is not even at its end but for the *)
(* terminator, unless a length was cut short.                               *)
SlotAligned ==
  /\ "take" \notin habits => view # "taken"
  /\ state_ = "BodyReady" /\ view = "none" /\ "take" \notin habits =>
       IF body_plan_.plan # "chunked"
       THEN /\ body_.kind = "Sized" /\ pos + body_.left = BodyEnd /\ ~ astray
            /\ call = "drain" => left = body_.left
       ELSE /\ body_.kind = "Chunked"
            /\ body_.ended => pos = BodyEnd /\ (call = "drain" => ended)
            /\ ~ body_.ended =>
                 /\ call # "drain" \/ ~ ended => pos < BodyEnd
                 /\ ~ astray /\ call # "drain" => pos + 2 <= BodyEnd
                 /\ call = "drain" /\ ~ ended /\ chunk_left = 0 => pos + 2 <= BodyEnd

(* Who took the reader out of the view leaves a slot that is behind: it     *)
(* tells of the end only where the reader, or the drain, began at it.       *)
SlotNotShort ==
  state_ = "BodyReady" /\ view # "view" =>
    IF body_plan_.plan # "chunked"
    THEN body_.kind = "Sized" /\ BodyEnd <= pos + body_.left
    ELSE /\ body_.kind = "Chunked"
         /\ body_.ended => /\ pos = BodyEnd
                           /\ view = "taken" \/ call = "drain" => ended

(* A caller who reads the body through the view, and to its end.            *)
ByTheBook == habits \cap {"skip", "early", "take"} = {}

SuffixBegins ==
  ByTheBook =>
    /\ state_ = "BodyReady" /\ view = "none" => pos = BodyEnd
    /\ state_ = "PrefixReady" /\ call = "drain" => resp.plan = "absent"
    /\ view = "suffix" =>
         /\ Len(suffixTaken) = pos - BodyEnd
         /\ \A i \in DOMAIN suffixTaken : suffixTaken[i] = BodyEnd + i

(* A caller in step that read the body through the view to its end gets the *)
(* suffix from its first byte.                                              *)
SuffixAligned ==
  InStep /\ ByTheBook => InOrder(suffixTaken, "suffix")

(* All of it, inductive as it stands: what has moved either way, and what   *)
(* the slot and the readers know of it.                                     *)
SessionInv ==
  /\ TypeOK
  /\ Phases /\ HeadIsBare
  /\ SentIsCounted /\ RequestFramed
  /\ BodyIsBody
  /\ InStep => /\ Placed /\ ReaderAligned
               /\ SlotAligned /\ SlotNotShort /\ SlotTellsTheRest
               /\ SuffixBegins

(* What the documentation of recv_resp_suffix_async promises every caller:  *)
(* the rest of the body is read and dropped, so that the suffix never       *)
(* begins inside the body.                                                  *)
SuffixStartsAfterBody == InOrder(suffixTaken, "suffix")
=============================================================================
