------------------------------ MODULE RpcCall ------------------------------
(***************************************************************************)
(* One unary RPC call, from the caller's future to the handler's return     *)
(* (rpc_core_v1: client/proxy_.rs, serving/ctx_.rs, serving/router_.rs,     *)
(* messaging/body_.rs; close_channel_async of mptp_smux).                   *)
(*                                                                          *)
(* Either side sends its value the same way, by joining two futures: an     *)
(* encoder that fills a 64-byte ring and a pump (ChunkedEncode) that moves  *)
(* the ring into the channel.  ChunkedBody says what a pump does to bytes;  *)
(* here a value is a number of pieces, and the channel carries pieces,      *)
(* prefixes and terminators, each taking one place of its window.           *)
(***************************************************************************)
EXTENDS Integers, Sequences

CONSTANTS
  ReqLen, RepLen,  \* pieces of the encoded request and of the encoded reply
  ErrLen,          \* pieces of the text of an error reply
  RingCap,         \* pieces the ring holds, K_BODY_RING_CAP_
  Window,          \* places of the channel, in each direction
  Faults           \* the faults that may happen, from FaultKinds

(* "open": no channel can be opened; "encode": a value has no encoding;     *)
(* "mismatch": the server's types do not fit the bytes; "reject": a method  *)
(* or a location the router refuses; "srvdrop": the server lets go of the   *)
(* channel unanswered; "hold": it holds on to it, a job behind one that     *)
(* never ends or a method that does not return; "abandon": the caller drops *)
(* its future; "cancel": a token fires, on either side.                     *)
FaultKinds ==
  {"open", "encode", "mismatch", "reject", "srvdrop", "hold", "abandon", "cancel"}

(* An error reply fits the window: both sides writing at once otherwise     *)
(* wait for each other (README, hazards).                                   *)
ASSUME RpcCallAssumption ==
  /\ ReqLen \in Nat \ {0}
  /\ RepLen \in Nat \ {0}
  /\ ErrLen \in Nat
  /\ RingCap \in Nat \ {0}
  /\ Window \in Nat
  /\ ErrLen + 1 <= Window
  /\ Faults \subseteq FaultKinds

Sides == {"client", "server"}
Peer(s) == IF s = "client" THEN "server" ELSE "client"

VARIABLES
  left,     \* pieces of a side's value that are not encoded yet
  enc,      \* a side's encoder: "idle", "run", "ok" or "err"
  ring,     \* pieces in a side's ring
  pump,     \* a side's ChunkedEncode: "idle", "run", "ok" or "err"
  wire,     \* what a side has sent and its peer has not read
  fin,      \* a side has let go of its sending half
  gone,     \* a side has let go of its receiving half
  token,    \* a side's cancellation token has fired
  cl,       \* where unary_call_async_ stands
  outcome,  \* what the caller was told
  read,     \* pieces of the reply the client has read
  sv,       \* where the handler stands
  got,      \* pieces of the request the server has decoded
  ran,      \* the service method has run
  said      \* the reply the server wrote out to its end: "none", "ok", "err"

sendVars   == <<left, enc, ring, pump>>
chanVars   == <<wire, fin, gone>>
clientVars == <<cl, outcome, read>>
serverVars == <<sv, got, ran, said>>
vars       == <<sendVars, chanVars, token, clientVars, serverVars>>

Items == {"prefix", "ok", "err", "piece", "end"}

TypeOK ==
  /\ left \in [Sides -> 0 .. ReqLen + RepLen + ErrLen]
  /\ enc \in [Sides -> {"idle", "run", "ok", "err"}]
  /\ ring \in [Sides -> 0 .. RingCap]
  /\ pump \in [Sides -> {"idle", "run", "ok", "err"}]
  /\ wire \in [Sides -> Seq(Items)]
  /\ fin \in [Sides -> BOOLEAN] /\ gone \in [Sides -> BOOLEAN]
  /\ token \in [Sides -> BOOLEAN]
  /\ cl \in {"open", "send", "prefix", "value", "text", "done"}
  /\ outcome \in {"none", "ok", "remote", "transport", "encode", "decode", "abandoned"}
  /\ read \in 0 .. RepLen + ErrLen
  /\ sv \in {"prefix", "decode", "run", "okprefix", "value", "errprefix", "text",
             "close", "drain", "done", "dropped", "held"}
  /\ got \in 0 .. ReqLen
  /\ ran \in BOOLEAN
  /\ said \in {"none", "ok", "err"}

Init ==
  /\ left = [s \in Sides |-> 0] /\ ring = [s \in Sides |-> 0]
  /\ enc = [s \in Sides |-> "idle"] /\ pump = [s \in Sides |-> "idle"]
  /\ wire = [s \in Sides |-> << >>]
  /\ fin = [s \in Sides |-> FALSE] /\ gone = [s \in Sides |-> FALSE]
  /\ token = [s \in Sides |-> FALSE]
  /\ cl = "open" /\ outcome = "none" /\ read = 0
  /\ sv = "prefix" /\ got = 0 /\ ran = FALSE /\ said = "none"

-----------------------------------------------------------------------------
(* The channel. *)

Room(s) == Len(wire[s]) < Window
Empty(s) == wire[s] = << >>
Next1(s, item) == ~Empty(s) /\ Head(wire[s]) = item

Put(s, item) == wire' = [wire EXCEPT ![s] = Append(@, item)]
Take(s) == wire' = [wire EXCEPT ![s] = Tail(@)]

(* A write that cannot succeed any more, and a read that finds nothing and  *)
(* never will: the peer is gone or the token fired.  A future polls its     *)
(* operation before the token (OkOr), so the token only ends a wait.        *)
WriteFails(s) == gone[Peer(s)] \/ (token[s] /\ ~Room(s))
ReadFails(s) == Empty(Peer(s)) /\ (fin[Peer(s)] \/ token[s])

(* Letting go of both halves: what is on its way here is thrown away, and   *)
(* the RESET of the receiving half may throw away what this side has sent   *)
(* and the peer has not read (server_.rs, module comment).                  *)
LetGo(s) ==
  /\ fin' = [fin EXCEPT ![s] = TRUE]
  /\ gone' = [gone EXCEPT ![s] = TRUE]
  /\ \E kept \in {wire[s], << >>} :
       wire' = [wire EXCEPT ![s] = kept, ![Peer(s)] = << >>]

-----------------------------------------------------------------------------
(* One side's value on its way out: join(encode_fut, send_fut).             *)

StartSending(s, len) ==
  /\ left' = [left EXCEPT ![s] = len]
  /\ enc' = [enc EXCEPT ![s] = "run"]
  /\ pump' = [pump EXCEPT ![s] = "run"]
  /\ UNCHANGED ring

(* The writer is closed when the encoder is through, whichever way.         *)
RingShutOnSuccess(s) == enc[s] = "ok"
RingShut(s) == enc[s] \in {"ok", "err"}

Encode(s) ==
  /\ enc[s] = "run"
  /\ left[s] > 0 /\ ring[s] < RingCap
  /\ left' = [left EXCEPT ![s] = @ - 1]
  /\ ring' = [ring EXCEPT ![s] = @ + 1]
  /\ UNCHANGED <<enc, pump, chanVars, token, clientVars, serverVars>>

EncodeDone(s) ==
  /\ enc[s] = "run" /\ left[s] = 0
  /\ enc' = [enc EXCEPT ![s] = "ok"]
  /\ UNCHANGED <<left, ring, pump, chanVars, token, clientVars, serverVars>>

EncodeEnds(s) ==
  /\ enc' = [enc EXCEPT ![s] = "err"]
  /\ UNCHANGED <<left, ring, pump, chanVars, token, clientVars, serverVars>>

EncodeFails(s) ==
  /\ "encode" \in Faults
  /\ enc[s] = "run" /\ left[s] > 0
  /\ EncodeEnds(s)

EncodeCancelled(s) ==
  /\ token[s]
  /\ enc[s] = "run" /\ left[s] > 0 /\ ring[s] = RingCap
  /\ EncodeEnds(s)

(* The pump looks at the channel only once the ring has something for it:   *)
(* while the ring is empty and open it waits for the encoder.               *)
HasSomething(s) == pump[s] = "run" /\ (ring[s] > 0 \/ RingShut(s))

PumpPiece(s) ==
  /\ HasSomething(s) /\ ring[s] > 0
  /\ ~gone[Peer(s)] /\ Room(s)
  /\ Put(s, "piece")
  /\ ring' = [ring EXCEPT ![s] = @ - 1]
  /\ UNCHANGED <<left, enc, pump, fin, gone, token, clientVars, serverVars>>

(* A shut and empty ring is the end of the body, whatever the encoder said. *)
PumpEnd(s) ==
  /\ HasSomething(s) /\ ring[s] = 0
  /\ ~gone[Peer(s)] /\ Room(s)
  /\ Put(s, "end")
  /\ pump' = [pump EXCEPT ![s] = "ok"]
  /\ UNCHANGED <<left, enc, ring, fin, gone, token, clientVars, serverVars>>

(* ChunkedEncode returns, but its source, the ring's reader, belongs to the *)
(* function that joins the two futures and stays where it is.               *)
PumpFailsIf(s, failed) ==
  /\ pump[s] = "run" /\ failed
  /\ pump' = [pump EXCEPT ![s] = "err"]
  /\ UNCHANGED <<left, enc, ring, chanVars, token, clientVars, serverVars>>

PumpBlindToPeer(s) ==
  PumpFailsIf(s, token[s] /\ (HasSomething(s) => ~Room(s)))

PumpBlindToToken(s) ==
  PumpFailsIf(s, HasSomething(s) /\ gone[Peer(s)])

PumpFails(s) ==
  PumpFailsIf(s, IF HasSomething(s) THEN WriteFails(s) ELSE token[s])

Joined(s) == enc[s] \in {"ok", "err"} /\ pump[s] \in {"ok", "err"}

-----------------------------------------------------------------------------
(* The caller: unary_call_async_.                                           *)

CallEnds(how) ==
  /\ cl' = "done" /\ outcome' = how
  /\ LetGo("client")
  /\ UNCHANGED <<read, sendVars, token, serverVars>>

Open ==
  /\ cl = "open"
  /\ Put("client", "prefix")
  /\ StartSending("client", ReqLen)
  /\ cl' = "send"
  /\ UNCHANGED <<fin, gone, token, outcome, read, serverVars>>

OpenFails ==
  /\ cl = "open" /\ ("open" \in Faults \/ token["client"])
  /\ cl' = "done" /\ outcome' = "transport"
  /\ UNCHANGED <<read, sendVars, chanVars, token, serverVars>>

Sent ==
  /\ cl = "send" /\ Joined("client")
  /\ enc["client"] = "ok" /\ pump["client"] = "ok"
  /\ cl' = "prefix"
  /\ UNCHANGED <<outcome, read, sendVars, chanVars, token, serverVars>>

(* The encoder's error is looked at before the pump's.                      *)
SendFails ==
  /\ cl = "send" /\ Joined("client")
  /\ \/ enc["client"] = "err" /\ CallEnds("encode")
     \/ enc["client"] = "ok" /\ pump["client"] = "err" /\ CallEnds("transport")

RecvPrefix ==
  /\ cl = "prefix"
  /\ \/ Next1("server", "ok") /\ cl' = "value"
     \/ Next1("server", "err") /\ cl' = "text"
  /\ Take("server")
  /\ UNCHANGED <<outcome, read, sendVars, fin, gone, token, serverVars>>

(* decode_from_async_ stops with the value: the terminator stays unread.    *)
RecvPiece ==
  /\ \/ cl = "value" /\ read < RepLen
     \/ cl = "text" /\ read < ErrLen
  /\ Next1("server", "piece")
  /\ Take("server")
  /\ read' = read + 1
  /\ UNCHANGED <<cl, outcome, sendVars, fin, gone, token, serverVars>>

ValueToTheEnd == cl = "value" /\ (read = RepLen \/ Next1("server", "end"))
ValueWhole == cl = "value" /\ read = RepLen

RecvDone ==
  \/ ValueWhole /\ CallEnds("ok")
  \/ cl = "text" /\ read = ErrLen /\ CallEnds("remote")

(* read_body_async_ looks at the token before it reads, a decoder does not. *)
RecvFails ==
  \/ cl = "prefix" /\ ReadFails("client") /\ CallEnds("transport")
  \/ /\ cl = "value" /\ read < RepLen
     /\ Next1("server", "end") \/ ReadFails("client")
     /\ CallEnds("decode")
  \/ /\ cl = "text" /\ read < ErrLen
     /\ token["client"] \/ ReadFails("client")
     /\ CallEnds("transport")

(* A caller may drop the future at any of its waits. *)
Abandon ==
  /\ "abandon" \in Faults
  /\ cl \notin {"open", "done"}
  /\ cl' = "done" /\ outcome' = "abandoned"
  /\ enc' = [enc EXCEPT !["client"] = IF @ = "run" THEN "err" ELSE @]
  /\ pump' = [pump EXCEPT !["client"] = IF @ = "run" THEN "err" ELSE @]
  /\ LetGo("client")
  /\ UNCHANGED <<left, ring, read, token, serverVars>>

-----------------------------------------------------------------------------
(* The handler: serve_channel_async_, the router, RpcCallCtx, and the close *)
(* that whoever holds the channel owes it.                                  *)

ServerMoves(to) ==
  /\ sv' = to
  /\ UNCHANGED <<sendVars, chanVars, token, clientVars, got, ran, said>>

Drops ==
  /\ sv' = "dropped"
  /\ LetGo("server")
  /\ UNCHANGED <<sendVars, token, clientVars, got, ran, said>>

(* The prefix decides: a handler, or a refusal the router writes itself.    *)
RecvRequest ==
  /\ sv = "prefix" /\ Next1("client", "prefix")
  /\ \/ sv' = "decode"
     \/ "reject" \in Faults /\ sv' = "errprefix"
     \/ "hold" \in Faults /\ sv' = "held"
  /\ Take("client")
  /\ UNCHANGED <<sendVars, fin, gone, token, clientVars, got, ran, said>>

(* No prefix, no route, a closed queue: both halves are dropped unanswered. *)
DropRequest ==
  /\ sv = "prefix"
  /\ ReadFails("server") \/ ("srvdrop" \in Faults /\ ~Empty("client"))
  /\ Drops

RequestToTheEnd == got = ReqLen \/ Next1("client", "end")
RequestWhole == got = ReqLen

DecodePiece ==
  /\ sv = "decode" /\ got < ReqLen
  /\ Next1("client", "piece")
  /\ Take("client")
  /\ got' = got + 1
  /\ UNCHANGED <<sendVars, fin, gone, token, clientVars, sv, ran, said>>

DecodeDone == sv = "decode" /\ RequestWhole /\ ServerMoves("run")

(* A body that ends early, that does not come or that does not fit the      *)
(* types is answered with an error.                                         *)
DecodeFails ==
  /\ sv = "decode" /\ got < ReqLen
  /\ \/ Next1("client", "end") \/ ReadFails("server")
     \/ "mismatch" \in Faults /\ Next1("client", "piece")
  /\ ServerMoves("errprefix")

RunMethod ==
  /\ sv = "run"
  /\ ran' = TRUE
  /\ sv' \in {"okprefix", "errprefix"} \cup (IF "hold" \in Faults THEN {"held"} ELSE {})
  /\ UNCHANGED <<sendVars, chanVars, token, clientVars, got, said>>

ReplyOk ==
  /\ sv = "okprefix"
  /\ ~gone["client"] /\ Room("server")
  /\ Put("server", "ok")
  /\ StartSending("server", RepLen)
  /\ sv' = "value"
  /\ UNCHANGED <<fin, gone, token, clientVars, got, ran, said>>

ReplyError ==
  /\ sv = "errprefix"
  /\ ~gone["client"] /\ Room("server")
  /\ Put("server", "err")
  /\ left' = [left EXCEPT !["server"] = ErrLen]
  /\ sv' = "text"
  /\ UNCHANGED <<enc, ring, pump, fin, gone, token, clientVars, got, ran, said>>

(* write_body_async_ looks at the token before every piece. *)
ReplyText ==
  /\ sv = "text" /\ left["server"] > 0
  /\ ~token["server"] /\ ~gone["client"] /\ Room("server")
  /\ Put("server", "piece")
  /\ left' = [left EXCEPT !["server"] = @ - 1]
  /\ UNCHANGED <<enc, ring, pump, fin, gone, token, clientVars, serverVars>>

ReplyFails ==
  /\ \/ sv \in {"okprefix", "errprefix"} /\ WriteFails("server")
     \/ sv = "text" /\ left["server"] > 0 /\ (token["server"] \/ WriteFails("server"))
  /\ ServerMoves("close")

Replied ==
  /\ \/ sv = "value" /\ Joined("server")
     \/ sv = "text" /\ left["server"] = 0
  /\ said' = IF sv = "text" THEN "err"
             ELSE IF enc["server"] = "ok" /\ pump["server"] = "ok" THEN "ok"
             ELSE "none"
  /\ sv' = "close"
  /\ UNCHANGED <<sendVars, chanVars, token, clientVars, got, ran>>

(* close_channel_async: the sending half goes first, the receiving half     *)
(* only when the peer has closed.  It takes no token.                       *)
CloseBothAtOnce ==
  /\ sv = "close"
  /\ sv' = "done"
  /\ LetGo("server")
  /\ UNCHANGED <<sendVars, token, clientVars, got, ran, said>>

Close ==
  /\ sv = "close"
  /\ fin' = [fin EXCEPT !["server"] = TRUE]
  /\ sv' = "drain"
  /\ UNCHANGED <<sendVars, wire, gone, token, clientVars, got, ran, said>>

Drain ==
  /\ sv = "drain" /\ ~Empty("client")
  /\ wire' = [wire EXCEPT !["client"] = << >>]
  /\ UNCHANGED <<sendVars, fin, gone, token, clientVars, serverVars>>

DrainDone ==
  /\ sv = "drain" /\ Empty("client") /\ fin["client"]
  /\ sv' = "done"
  /\ LetGo("server")
  /\ UNCHANGED <<sendVars, token, clientVars, got, ran, said>>

Cancel(s) ==
  /\ "cancel" \in Faults
  /\ ~token[s]
  /\ token' = [token EXCEPT ![s] = TRUE]
  /\ UNCHANGED <<sendVars, chanVars, clientVars, serverVars>>

Encoder(s) == Encode(s) \/ EncodeDone(s) \/ EncodeCancelled(s)
Pump(s) == PumpPiece(s) \/ PumpEnd(s) \/ PumpFails(s)
Caller == Open \/ Sent \/ SendFails \/ RecvPrefix \/ RecvPiece \/ RecvDone \/ RecvFails
Handler ==
  \/ RecvRequest \/ DropRequest \/ DecodePiece \/ DecodeDone \/ DecodeFails
  \/ RunMethod \/ ReplyOk \/ ReplyError \/ ReplyText \/ ReplyFails \/ Replied
  \/ Close \/ Drain \/ DrainDone

Next ==
  \/ \E s \in Sides : Encoder(s) \/ EncodeFails(s) \/ Pump(s) \/ Cancel(s)
  \/ Caller \/ OpenFails \/ Abandon
  \/ Handler

Spec == Init /\ [][Next]_vars

(* Every future that can go on is polled; a method that does not return is  *)
(* the fault "hold".                                                        *)
FairSpec ==
  /\ Spec
  /\ \A s \in Sides : WF_vars(Encoder(s)) /\ WF_vars(Pump(s))
  /\ WF_vars(Caller)
  /\ WF_vars(Handler)

-----------------------------------------------------------------------------
(* A method runs only on a request the client encoded to its end: a body    *)
(* cut short is closed with a terminator all the same, so that only the     *)
(* decoder tells the part from the whole.                                   *)
OnlyWholeRequestsRun ==
  ran => /\ got = ReqLen
         /\ left["client"] = 0

(* A caller is told Ok only of the whole value of a method that ran, and of *)
(* an error only with the whole text of a server that sent no value.        *)
OutcomeIsTheReply ==
  /\ outcome = "ok" => ran /\ read = RepLen /\ left["server"] = 0
  /\ outcome = "remote" =>
       read = ErrLen /\ left["server"] = 0 /\ enc["server"] = "idle"

(* What is on a wire: at most one prefix, in front of everything, and at    *)
(* most one terminator, behind everything; all between them are pieces.     *)
Heads == {"prefix", "ok", "err"}
Begins(w, item) == w # << >> /\ w[1] = item
Headed(w) == w # << >> /\ w[1] \in Heads
Ended(w) == w # << >> /\ w[Len(w)] = "end"
Framed(w) ==
  \A i \in 1 .. Len(w) : /\ w[i] \in Heads => i = 1
                         /\ w[i] = "end" => i = Len(w)
PiecesIn(w) ==
  Len(w) - (IF Headed(w) THEN 1 ELSE 0) - (IF Ended(w) THEN 1 ELSE 0)

(* What a side has sent or will send, as long as nothing cuts it short.     *)
UnderWay(s) == PiecesIn(wire[s]) + ring[s] + left[s]

(* A terminator is the pump's last act, a pump that is through has emptied  *)
(* the ring behind its encoder.                                             *)
WiresFramed ==
  \A s \in Sides :
    /\ Framed(wire[s])
    /\ Ended(wire[s]) => pump[s] = "ok"
    /\ pump[s] = "ok" => ring[s] = 0 /\ enc[s] \in {"ok", "err"}
    /\ enc[s] = "ok" => left[s] = 0

(* Pieces of the request: what is decoded, on the wire, in the ring and not *)
(* encoded yet is never more than the value, so a whole one leaves nothing. *)
RequestAddsUp ==
  /\ got + UnderWay("client") <= ReqLen
  /\ cl = "open" =>
       /\ got = 0 /\ sv \in {"prefix", "dropped"}
       /\ wire["client"] = << >> /\ ring["client"] = 0 /\ left["client"] = 0
       /\ enc["client"] = "idle" /\ pump["client"] = "idle"
  /\ ran \/ sv \in {"run", "okprefix"} => got = ReqLen
  /\ sv = "okprefix" => ran

(* A server answers once, with a value or with an error, and nobody reads   *)
(* an answer before there is one.  The value's encoder tells which it is.   *)
Unanswered ==
  sv \in {"prefix", "decode", "run", "okprefix", "errprefix", "held", "dropped"}
ReplyPieces == read + UnderWay("server")

NoAnswer ==
  /\ enc["server"] = "idle" /\ wire["server"] = << >> /\ left["server"] = 0
  /\ read = 0 /\ said = "none"
  /\ cl \notin {"value", "text"} /\ outcome \notin {"ok", "remote"}

ErrorAnswer ==
  /\ pump["server"] = "idle" /\ ring["server"] = 0
  /\ sv # "value" /\ said # "ok" /\ ~Begins(wire["server"], "ok")
  /\ cl # "value" /\ outcome # "ok"
  /\ ReplyPieces <= ErrLen

ValueAnswer ==
  /\ ran /\ pump["server"] # "idle"
  /\ sv # "text" /\ said # "err" /\ ~Begins(wire["server"], "err")
  /\ cl # "text" /\ outcome # "remote"
  /\ ReplyPieces <= RepLen

ReplyAddsUp ==
  /\ Unanswered => NoAnswer
  /\ IF enc["server"] = "idle" THEN ErrorAnswer ELSE ValueAnswer
  /\ cl \in {"open", "send", "prefix"} => read = 0
  /\ outcome # "none" <=> cl = "done"
  /\ outcome = "ok" => read = RepLen
  /\ outcome = "remote" => read = ErrLen

(* Until the caller has returned nothing of a reply is lost: every piece is *)
(* read, under way or still to come, and the prefix is read or comes first. *)
NothingLost ==
  /\ fin["client"] \/ gone["client"] => cl = "done"
  /\ said # "none" => sv \in {"close", "drain", "done"}
  /\ said = "ok" => enc["server"] = "ok" /\ pump["server"] = "ok"
  /\ said = "err" => left["server"] = 0
  /\ cl # "done" /\ enc["server"] # "idle" =>
       /\ ReplyPieces = RepLen
       /\ cl \notin {"value", "text"} => Begins(wire["server"], "ok")
  /\ cl # "done" /\ (sv = "text" \/ said = "err") =>
       /\ ReplyPieces = ErrLen
       /\ cl \notin {"value", "text"} => Begins(wire["server"], "err")

(* Where the two stand says what comes first and last on the wires, and     *)
(* which halves are left.  (Without a channel there is nothing to let go.)  *)
FrontsTell ==
  /\ sv = "prefix" /\ cl \notin {"open", "done"} => Begins(wire["client"], "prefix")
  /\ sv \notin {"prefix", "dropped"} => ~Headed(wire["client"])
  /\ cl \in {"open", "send", "prefix"} =>
       Empty("server") \/ Begins(wire["server"], "ok") \/ Begins(wire["server"], "err")
  /\ cl \in {"value", "text"} => ~Headed(wire["server"])

NoChannel ==
  /\ sv \in {"prefix", "dropped"} /\ Empty("client")
  /\ enc["client"] = "idle" /\ pump["client"] = "idle"

EndsTell ==
  /\ cl \notin {"open", "done"} => enc["client"] # "idle" /\ pump["client"] # "idle"
  /\ cl \in {"prefix", "value", "text"} => pump["client"] = "ok"
  /\ cl \notin {"open", "done"} /\ pump["client"] = "ok" /\ sv \in {"prefix", "decode"} =>
       Ended(wire["client"])
  /\ sv \in {"drain", "done", "dropped"} => fin["server"]
  /\ sv \in {"done", "dropped"} => gone["server"]
  /\ cl = "done" => (fin["client"] /\ gone["client"]) \/ NoChannel

(* An encoder whose pump has given up while the ring is full waits for room *)
(* nobody makes, and join waits for the encoder; only the token ends it.    *)
Stuck(s) ==
  /\ enc[s] = "run" /\ pump[s] = "err"
  /\ left[s] > 0 /\ ring[s] = RingCap

(* What each of the futures waits for has come.                             *)
EncoderGoesOn(s) == enc[s] = "run" /\ (left[s] = 0 \/ ring[s] < RingCap \/ token[s])
PumpGoesOn(s) ==
  pump[s] = "run" /\ IF HasSomething(s) THEN Room(s) \/ WriteFails(s) ELSE token[s]
CallerGoesOn ==
  \/ cl = "open"
  \/ cl = "send" /\ Joined("client")
  \/ cl = "prefix" /\ (Next1("server", "ok") \/ Next1("server", "err"))
  \/ cl = "value" /\ (read = RepLen \/ Next1("server", "piece") \/ Next1("server", "end"))
  \/ cl = "text" /\ (read = ErrLen \/ Next1("server", "piece"))
  \/ cl \in {"prefix", "value", "text"} /\ ReadFails("client")
HandlerGoesOn ==
  \/ sv = "prefix" /\ (Next1("client", "prefix") \/ ReadFails("server"))
  \/ /\ sv = "decode"
     /\ got = ReqLen \/ Next1("client", "piece") \/ Next1("client", "end") \/ ReadFails("server")
  \/ sv \in {"run", "close"}
  \/ sv \in {"okprefix", "errprefix"} /\ (Room("server") \/ WriteFails("server"))
  \/ sv = "value" /\ Joined("server")
  \/ sv = "text" /\ (left["server"] = 0 \/ Room("server") \/ WriteFails("server"))
  \/ sv = "drain" /\ (~Empty("client") \/ fin["client"])

(* The two never wait for each other: as long as either has not returned    *)
(* there is a future that can go on, unless the server holds the call or an *)
(* encoder is stuck.                                                        *)
SomebodyGoesOn ==
  cl # "done" \/ sv \notin {"prefix", "done", "dropped"} =>
    \/ CallerGoesOn \/ HandlerGoesOn
    \/ \E s \in Sides : EncoderGoesOn(s) \/ PumpGoesOn(s)
    \/ sv = "held" \/ \E s \in Sides : Stuck(s)

(* The whole account of a call: types, framing, the pieces of the request   *)
(* and of the reply wherever they are, what either side may take from where *)
(* it stands; hence an outcome that tells what the server did, and no two   *)
(* that wait for each other.                                                *)
CallInv ==
  /\ TypeOK
  /\ WiresFramed
  /\ RequestAddsUp
  /\ ReplyAddsUp
  /\ NothingLost
  /\ FrontsTell /\ EndsTell
  /\ OutcomeIsTheReply
  /\ SomebodyGoesOn

(* Once the server has written a reply out, a caller that waits for it and  *)
(* is not cancelled gets it: no close on either side erases it.             *)
FinishedReplyArrives ==
  [][(/\ cl \in {"prefix", "value", "text"} /\ cl' = "done"
      /\ said # "none" /\ ~token["client"])
     => outcome' \in {"ok", "remote", "abandoned"}]_vars

(* The call implements what a caller is promised of it: every step of       *)
(* either side is a step of UnaryCall or changes nothing of it.             *)
Waits == cl \in {"prefix", "value", "text"}

Call == INSTANCE UnaryCall WITH reply <- said, waiting <- Waits, cancelled <- token["client"]

CallSpec == Call!Spec

(* Every call ends, one that is not held: for the caller unless its own     *)
(* encoder is stuck, for the handler unless either encoder is.              *)
CallerReturns == (cl # "open") ~> (cl = "done" \/ sv = "held" \/ Stuck("client"))
HandlerReturns ==
  (sv # "prefix") ~>
    (sv \in {"done", "dropped", "held"} \/ Stuck("server") \/ Stuck("client"))

(* A cancelled caller returns however far it got and whatever its peer does, *)
(* a peer that reads and writes no more included.                           *)
CancelledCallerReturns == token["client"] ~> (cl = "done")

(* What reply_ok_async says of itself (ctx_.rs): writing the reply's body   *)
(* ends, with an error if the channel fails.                                *)
ReplyOkReturns == (sv = "value") ~> (sv # "value")
=============================================================================
