------------------------------- MODULE Prefix -------------------------------
(***************************************************************************)
(* Message prefixes on the wire (mptp_smux/src/messaging/wire_.rs,         *)
(* prefix_.rs, num_or_str_.rs): one sender writes a prefix and then the    *)
(* first of its body, one receiver decodes the prefix value by value.      *)
(*                                                                         *)
(* The wire carries encoded values, each with what the decoder sees it as. *)
(* The sender's table is a "draft" of which a caller may keep a clone      *)
(* ("spare"); the server clones what it decoded ("prefix") for the         *)
(* handler, and that one's table for the job a worker decodes the body by. *)
(* All but the last two are edited while prefixes are under way.           *)
(***************************************************************************)
EXTENDS Headers, Sequences

CONSTANTS
    KeyRank,      \* the order of the BTreeMap: Keys -> Nat
    Codes,        \* the methods of the requests that are sent
    Locations, StatusCodes,
    Texts,        \* what a text on the wire may be
    Drafts,       \* the tables a sender starts from
    Foreign,      \* what other implementations put on the wire: sequences of values
    EditVals,     \* what edits write
    MaxEdits      \* bound on the edits of all handles

VARIABLES
    head,         \* the sender's prefix but for its headers
    genuine,      \* written by this library
    wrote,        \* the table written, as it was when writing began
    wstage, wkeys, \* what the sender encodes next; keys of the table to come
    wire,         \* values that crossed the channel
    rstage, rpos, \* what the receiver decodes next; values consumed
    rhead, rleft, \* decoded so far; entries of the map to come
    rmap,         \* the table decoded so far
    edits

senderVars == <<head, genuine, wrote, wstage, wkeys, wire>>
readerVars == <<rstage, rpos, rhead, rleft, rmap>>
vars == <<headerVars, senderVars, readerVars, edits>>

NoText == "none"

\* A value on the wire: as what it is encoded, and the number, name or header value it is.
Value(t, n, s, v) == [t |-> t, n |-> n, s |-> s, v |-> v]
Uint(n) == Value("uint", n, NoText, NoVal)
Text(s) == Value("text", 0, s, NoVal)
MapOf(n) == Value("map", n, NoText, NoVal)
Nil == Value("nil", 0, NoText, NoVal)
BodyValue == Value("body", 0, NoText, NoVal)

\* AccessMethod's bits, and the ones method_from_u8_ takes back.
AccessMethods == {0, 1, 2, 4, 16, 32, 64}
MethodFromU8 == {0, 1, 2, 4, 16, 32, 64}

\* KeyVisitor: a number that fits 16 bits, or a text.
Decodable(val) == val.t \in {"uint", "text"}

WireValues ==
    [t : {"uint", "text", "map", "nil", "wide", "body"}, n : Nat, s : Texts, v : Vals \cup {NoVal}]

\* Where a key is expected in a foreign map, what decodes is one, and a value likewise.
ForeignMaps ==
    \A seq \in Foreign : \A m \in DOMAIN seq, j \in 0 .. Len(seq) :
        LET key == m + 2 * j + 1 IN
            (seq[m].t = "map" /\ key < Len(seq) /\ Decodable(seq[key]) /\ Decodable(seq[key + 1]))
                => seq[key].s \in Keys /\ seq[key + 1].v \in Vals

ASSUME PrefixAssumption ==
    /\ {"draft", "spare", "prefix", "handler", "job"} \subseteq Handles
    /\ Keys \cup Locations \cup {NoText} \subseteq Texts /\ KeyRank \in [Keys -> Nat]
    /\ \A j, k \in Keys : KeyRank[j] = KeyRank[k] => j = k
    /\ Codes \subseteq AccessMethods /\ StatusCodes \subseteq Nat
    /\ Drafts \subseteq Tables /\ EditVals \subseteq Vals /\ MaxEdits \in Nat
    /\ Foreign \subseteq Seq(WireValues) /\ ForeignMaps

Heads == [kind : {"request"}, code : Codes, loc : Locations]
    \cup [kind : {"response"}, code : StatusCodes, loc : {NoText}]

-----------------------------------------------------------------------------
(* Encoding.  Values are encoded one by one, headers out of the table.     *)

\* Option<Headers>: an absent table and an empty one are different values.
OptionValueMerged(t) == IF t = NoTable \/ t = EmptyTable THEN Nil ELSE MapOf(Cardinality(DOMAIN t))
OptionValue(t) == IF t = NoTable THEN Nil ELSE MapOf(Cardinality(DOMAIN t))

KeysOf(t) == IF t = NoTable THEN {} ELSE DOMAIN t

\* A key is a number or a text, and so is a value.
EncodeKey(k) == Value(IF k \in {"Body_Size", "Body_Transfer"} THEN "uint" ELSE "text", 0, k, NoVal)
EncodeVal(v) == Value(IF v.form = "num" THEN "uint" ELSE "text", 0, NoText, v)

\* The key the BTreeMap's iterator gives.
IsNext(k) == k \in wkeys /\ \A j \in wkeys : KeyRank[k] <= KeyRank[j]

Declared(t) == IF t = NoTable THEN Absent ELSE BodyInfo(t)

Init ==
    /\ head \in Heads
    /\ at = [h \in Handles |-> NoTable]
    /\ heap = [s \in Storages |-> EmptyTable]
    /\ reply = NoVal
    /\ genuine = TRUE /\ wrote = NoTable /\ wstage = "draft" /\ wkeys = {} /\ wire = <<>>
    /\ rstage = "code" /\ rpos = 0 /\ rhead = [kind |-> head.kind, code |-> 0, loc |-> NoText]
    /\ rleft = 0 /\ rmap = NoTable /\ edits = 0

-----------------------------------------------------------------------------
(* The sender.                                                             *)

\* with_headers, and headers_mut, which makes the table it has not got.
GetHeaders ==
    /\ wstage = "draft"
    /\ \E t \in Drafts : Allocate("draft", t)
    /\ UNCHANGED <<senderVars, readerVars, edits>>

StartWrite ==
    /\ wstage = "draft"
    /\ wrote' = TableOf("draft")
    /\ wstage' = "code"
    /\ UNCHANGED <<headerVars, head, genuine, wkeys, wire, readerVars, edits>>

\* One value goes out; then comes the next stage.
Encoded(stage, value, next) ==
    /\ wstage = stage /\ wstage' = next
    /\ wire' = Append(wire, value)
    /\ UNCHANGED <<headerVars, head, genuine, wrote, readerVars, edits>>

EncodeCode ==
    /\ Encoded("code", Uint(head.code), IF head.kind = "request" THEN "loc" ELSE "option")
    /\ UNCHANGED wkeys

EncodeLocation == Encoded("loc", Text(head.loc), "option") /\ UNCHANGED wkeys

EncodeOption ==
    /\ wkeys' = KeysOf(TableOf("draft"))
    /\ Encoded("option", OptionValue(TableOf("draft")), IF wkeys' = {} THEN "end" ELSE "key")

EncodeNextKey ==
    \E k \in wkeys : IsNext(k) /\ Encoded("key", EncodeKey(k), "value") /\ UNCHANGED wkeys

EncodeItsVal ==
    \E k \in wkeys :
        /\ IsNext(k)
        /\ wkeys' = wkeys \ {k}
        /\ Encoded("value", EncodeVal(Lookup(Table("draft"), k)), IF wkeys' = {} THEN "end" ELSE "key")

Encode == EncodeCode \/ EncodeLocation \/ EncodeOption \/ EncodeNextKey \/ EncodeItsVal

\* The prefix is out; the body the sender's own table declares follows.
WriteDone ==
    /\ wstage = "end"
    /\ wstage' = "done"
    /\ wire' = IF Declared(wrote) = Absent THEN wire ELSE Append(wire, BodyValue)
    /\ UNCHANGED <<headerVars, head, genuine, wrote, wkeys, readerVars, edits>>

Writing == wstage \in {"code", "loc", "option", "key", "value", "end"}

\* Encoding fails or is cancelled, maybe when there is nothing left to encode
\* but the map's end: the channel is dropped.
WriteCut ==
    /\ Writing
    /\ wstage' = "cut"
    /\ UNCHANGED <<headerVars, head, genuine, wrote, wkeys, wire, readerVars, edits>>

\* Another implementation's prefix, and the start of what follows it.
ForeignPrefix ==
    /\ wstage = "draft"
    /\ \E seq \in Foreign : wire' = Append(seq, BodyValue)
    /\ genuine' = FALSE /\ wstage' = "done"
    /\ UNCHANGED <<headerVars, head, wrote, wkeys, readerVars, edits>>

-----------------------------------------------------------------------------
(* The receiver, one value per step; each step waits for what it decodes.  *)

Arrived(n) == Len(wire) >= rpos + n
Next1 == wire[rpos + 1]
Next2 == wire[rpos + 2]

Fail == rstage' = "failed" /\ UNCHANGED <<headerVars, senderVars, rpos, rhead, rleft, rmap, edits>>

\* read_request_prefix_async_: the method code must be one it knows.
ReadMethod ==
    /\ rstage = "code" /\ rhead.kind = "request" /\ Arrived(1)
    /\ IF Next1.t = "uint" /\ Next1.n \in MethodFromU8
       THEN /\ rhead' = [rhead EXCEPT !.code = Next1.n]
            /\ rstage' = "loc" /\ rpos' = rpos + 1
            /\ UNCHANGED <<headerVars, senderVars, rleft, rmap, edits>>
       ELSE Fail

\* read_response_prefix_async_: any status is one.
ReadStatus ==
    /\ rstage = "code" /\ rhead.kind = "response" /\ Arrived(1)
    /\ IF Next1.t = "uint"
       THEN /\ rhead' = [rhead EXCEPT !.code = Next1.n]
            /\ rstage' = "option" /\ rpos' = rpos + 1
            /\ UNCHANGED <<headerVars, senderVars, rleft, rmap, edits>>
       ELSE Fail

ReadLocation ==
    /\ rstage = "loc" /\ Arrived(1)
    /\ IF Next1.t = "text"
       THEN /\ rhead' = [rhead EXCEPT !.loc = Next1.s]
            /\ rstage' = "option" /\ rpos' = rpos + 1
            /\ UNCHANGED <<headerVars, senderVars, rleft, rmap, edits>>
       ELSE Fail

\* Option::<Headers>: nothing, or a map of so many entries.
DecodeOption ==
    IF Next1.t = "nil"
    THEN /\ rstage' = "done" /\ rpos' = rpos + 1
         /\ UNCHANGED <<headerVars, senderVars, rhead, rleft, rmap, edits>>
    ELSE IF Next1.t = "map"
    THEN /\ rstage' = "entries" /\ rpos' = rpos + 1
         /\ rleft' = Next1.n /\ rmap' = EmptyTable
         /\ UNCHANGED <<headerVars, senderVars, rhead, edits>>
    ELSE Fail

ReadOptionAhead == rstage = "option" /\ Arrived(2) /\ DecodeOption
ReadOption == rstage = "option" /\ Arrived(1) /\ DecodeOption

\* decode_headers_map_async_: one entry; a key met before is overwritten.
ReadEntry ==
    /\ rstage = "entries" /\ rleft > 0 /\ Arrived(2)
    /\ IF Decodable(Next1) /\ Decodable(Next2)
       THEN /\ rmap' = Insert(rmap, Next1.s, Next2.v)
            /\ rleft' = rleft - 1 /\ rpos' = rpos + 2
            /\ UNCHANGED <<headerVars, senderVars, rstage, rhead, edits>>
       ELSE Fail

\* The map is whole: the prefix holds it in a table of its own.
ReadHeadersEnd ==
    /\ rstage = "entries" /\ rleft = 0
    /\ Allocate("prefix", rmap)
    /\ rstage' = "done"
    /\ UNCHANGED <<senderVars, rpos, rhead, rleft, rmap, edits>>

Ended == rstage \in {"done", "failed"}
Waiting ==
    /\ ~Ended /\ ~(rstage = "entries" /\ rleft = 0)
    /\ ~Arrived(IF rstage = "entries" THEN 2 ELSE 1)

\* The sender's end is gone before the prefix is whole.
ReadClosed == Waiting /\ wstage = "cut" /\ Fail

\* The token fires while the decoder waits.
ReadCancelled == Waiting /\ wstage # "cut" /\ Fail

\* handle_channel: the handler gets a table of its own, an empty one for none.
HandlerHeaders ==
    /\ rstage = "done"
    /\ IF Holds("prefix") THEN CloneHandle("prefix", "handler")
       ELSE Allocate("handler", EmptyTable)
    /\ UNCHANGED <<senderVars, readerVars, edits>>

\* router_handle: the job takes a clone of the handler's table.
JobHeaders ==
    /\ CloneHandle("handler", "job")
    /\ UNCHANGED <<senderVars, readerVars, edits>>

-----------------------------------------------------------------------------
(* Whoever holds a table may edit it: the sender before and after it is    *)
(* written, its caller's clone and the handler's at any time.              *)

MayEdit(h) ==
    \/ h = "draft" /\ ~Writing
    \/ h = "spare"
    \/ h = "handler" /\ Holds("job")

EditHeaders ==
    /\ edits < MaxEdits /\ edits' = edits + 1
    /\ \E h \in Handles, k \in Keys :
          /\ MayEdit(h)
          /\ \/ \E v \in EditVals : SetHeader(h, k, v)
             \/ RemoveKey(h, k)
             \/ h = "spare" /\ (TryAddHeader(h, k) \/ AddOrSetHeader(h, k) \/ RemoveHeader(h, k))
    /\ UNCHANGED <<senderVars, readerVars>>

CloneDraft ==
    /\ edits < MaxEdits /\ edits' = edits + 1
    /\ CloneHandle("draft", "spare")
    /\ UNCHANGED <<senderVars, readerVars>>

DropSpare ==
    /\ DropHandle("spare")
    /\ UNCHANGED <<senderVars, readerVars, edits>>

-----------------------------------------------------------------------------
Sender == GetHeaders \/ StartWrite \/ Encode \/ WriteDone \/ WriteCut \/ ForeignPrefix
Decode == ReadMethod \/ ReadStatus \/ ReadLocation \/ ReadOption \/ ReadEntry \/ ReadHeadersEnd
Receiver == Decode \/ ReadClosed \/ ReadCancelled \/ HandlerHeaders \/ JobHeaders
Next == Sender \/ Receiver \/ EditHeaders \/ CloneDraft \/ DropSpare

\* A future that was started is polled on both sides.
Fairness ==
    /\ WF_vars(Encode \/ WriteDone)
    /\ WF_vars(Decode) /\ WF_vars(ReadClosed)

Spec == Init /\ [][Next]_vars /\ Fairness

-----------------------------------------------------------------------------
(* Properties.                                                             *)

(***************************************************************************)
(* What is decoded is what was written, an absent table apart from an      *)
(* empty one, and not one value more is consumed: the body is untouched.   *)
(* A prefix of which only a part was written is never taken for a whole.   *)
(***************************************************************************)
PrefixArrives ==
    rstage = "done" /\ genuine =>
        /\ rhead = head /\ rmap = wrote
        /\ wkeys = {}
        /\ \A i \in 1 .. Len(wire) : wire[i] = BodyValue <=> i > rpos

-----------------------------------------------------------------------------
(* What the prefix's way rests on.                                         *)

HeadLen == IF head.kind = "request" THEN 2 ELSE 1
Sent == Cardinality(KeysOf(wrote) \ wkeys)
SentEnd == HeadLen + 1 + 2 * Sent
PrefixEnd == HeadLen + 1 + 2 * Cardinality(KeysOf(wrote))
KeyAt(i) == wire[HeadLen + 2 * i]
ValAt(i) == wire[HeadLen + 2 * i + 1]

PrefixTypeOK ==
    /\ HeadersTypeOK
    /\ head \in Heads /\ genuine \in BOOLEAN
    /\ wrote \in Tables \cup {NoTable} /\ wkeys \in SUBSET KeysOf(wrote)
    /\ wstage \in {"draft", "code", "loc", "option", "key", "value", "end", "done", "cut"}
    /\ wire \in Seq(WireValues)
    /\ rstage \in {"code", "loc", "option", "entries", "done", "failed"}
    /\ rpos \in 0 .. Len(wire) /\ rleft \in Nat /\ rmap \in Tables \cup {NoTable}
    /\ rhead \in [kind : {head.kind}, code : Nat, loc : Texts]

\* The head of the prefix goes out first, and nothing of the map before it.
HeadSent ==
    genuine =>
        /\ wstage \in {"draft", "code"} => wire = <<>>
        /\ wstage = "loc" => head.kind = "request" /\ Len(wire) = 1
        /\ wstage = "option" => Len(wire) = HeadLen
        /\ wstage \in {"key", "value", "end", "done"} => Len(wire) > HeadLen
        /\ Len(wire) <= HeadLen => wkeys = {}
        /\ wire # <<>> => wire[1] = Uint(head.code)
        /\ head.kind = "request" /\ Len(wire) > 1 => wire[2] = Text(head.loc)

\* Then the table that was written: whether there is one, and the entries of
\* the keys that are no longer to come, each whole; a key may wait for its value.
MapSent ==
    genuine /\ Len(wire) > HeadLen =>
        /\ wstage \in {"key", "value", "end", "done", "cut"}
        /\ wire[HeadLen + 1] = OptionValue(wrote)
        /\ Len(wire) \in SentEnd .. SentEnd + 1
        /\ wstage \in {"key", "end"} => Len(wire) = SentEnd
        /\ wstage = "value" => Len(wire) = SentEnd + 1
        /\ wstage \in {"end", "done"} => wkeys = {}
        /\ Len(wire) = SentEnd + 1 =>
              \/ wstage = "done" /\ wire[Len(wire)] = BodyValue
              \/ wstage \in {"value", "cut"} /\ \E k \in wkeys : IsNext(k) /\ wire[Len(wire)] = EncodeKey(k)
        /\ \A i \in 1 .. Sent :
              LET k == KeyAt(i).s IN
                  k \in KeysOf(wrote) /\ KeyAt(i) = EncodeKey(k) /\ ValAt(i) = EncodeVal(wrote[k])
        /\ \A k \in KeysOf(wrote) \ wkeys : \E i \in 1 .. Sent : KeyAt(i).s = k

\* What the receiver has decoded is what it has consumed.
HeadRead ==
    genuine =>
        /\ rstage = "code" => rpos = 0 /\ rhead.loc = NoText
        /\ rstage = "loc" => head.kind = "request" /\ rpos = 1 /\ rhead.code = head.code
        /\ rstage \in {"option", "entries", "done"} => rhead = head
        /\ rstage = "option" => rpos = HeadLen

EntriesRead ==
    /\ rstage \in {"code", "loc", "option"} => rmap = NoTable
    /\ rstage = "entries" => rmap # NoTable
    /\ genuine /\ rstage = "done" => rpos = PrefixEnd /\ rmap = wrote
    /\ genuine /\ rstage = "entries" =>
          /\ wrote # NoTable
          /\ rpos = PrefixEnd - 2 * rleft /\ rpos > HeadLen
          /\ DOMAIN rmap = { KeyAt(i).s : i \in 1 .. Cardinality(KeysOf(wrote)) - rleft }
          /\ \A k \in DOMAIN rmap : k \in DOMAIN wrote /\ rmap[k] = wrote[k]

\* Of a foreign map nothing is known but that it is read from its beginning.
ForeignRead ==
    ~genuine =>
        /\ wstage = "done"
        /\ \E seq \in Foreign :
              /\ wire = Append(seq, BodyValue)
              /\ rstage = "entries" =>
                    \E m \in DOMAIN seq, j \in 0 .. Len(seq) : seq[m].t = "map" /\ rpos = m + 2 * j

\* Who holds which table: the sender's as it is written, the receiver's as decoded.
Decoded == IF rmap = NoTable THEN EmptyTable ELSE rmap

TablesKept ==
    /\ Writing => TableOf("draft") = wrote
    /\ TableOf("prefix") = IF rstage = "done" THEN rmap ELSE NoTable
    /\ rstage # "done" => TableOf("handler") = NoTable
    /\ TableOf("job") = NoTable => TableOf("handler") \in {NoTable, Decoded}
    /\ TableOf("job") # NoTable => TableOf("handler") # NoTable /\ TableOf("job") = Decoded

(***************************************************************************)
(* The way of a prefix as a whole: what has been written and what has been *)
(* decoded at every stage of either end, and what that comes to.           *)
(***************************************************************************)
PrefixInv ==
    /\ PrefixTypeOK
    /\ HeadSent /\ MapSent /\ HeadRead /\ EntriesRead /\ ForeignRead /\ TablesKept
    /\ PrefixArrives

(***************************************************************************)
(* Both ends derive the same body from the prefix: the client's session    *)
(* from the prefix it decoded, a worker from the job's clone of it, when   *)
(* the length is in decimal and not declared beside chunks.  No edit of    *)
(* another holder's table, before or after, moves either of them.          *)
(***************************************************************************)
Plain(t) ==
    "Body_Size" \in DOMAIN t =>
        /\ t["Body_Size"].form \in {"num", "dec"}
        /\ "Body_Transfer" \notin DOMAIN t

PlansAgree ==
    rstage = "done" /\ genuine =>
        /\ Declared(TableOf("prefix")) = Declared(wrote)
        /\ Holds("job") /\ (wrote # NoTable => Plain(wrote)) =>
              DecodePlan(Table("job")) = Declared(wrote)

(***************************************************************************)
(* A receiver of a prefix that is being written is done, one way or the    *)
(* other, with no byte of a body and no close to tell it so.               *)
(***************************************************************************)
PrefixSettles == genuine /\ Writing ~> Ended

(***************************************************************************)
(* Editing through shared storage is as good as a table for every holder.  *)
(***************************************************************************)
HeadersAreValues == Values!Init /\ [][Values!Next]_<<at, heap, reply>>
=============================================================================
