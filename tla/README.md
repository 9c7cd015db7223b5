# A TLA+ model of mptp_rpc

mptp_rpc is a message protocol (MPTP) and an RPC framework on top of it, written
in Rust over a stream multiplexer. A *channel* is a pair of byte streams with a
bounded window in each direction; it carries one request and one response, each
a prefix (method and location, or status, with a header table), a body (absent,
sized or chunked) and possibly a suffix. This directory holds TLA+ modules for
the parts of it where order, failure and concurrency matter, configurations that
check them with TLC, and proofs that TLAPS checks.

Paths below are relative to the repository. `PROJECT.json` maps every definition
to the lines it models.

## 1. Inventory

| Component | State | Operations | Hard part | What makes it correct |
|---|---|---|---|---|
| Chunked body (`abs_mptp/.../chunked.rs`) | segment in hand, chunk bound, `chunk_left_`, `ended_`, bytes in the window | `write_all_async`, `read_async`, cancel, retry | data is borrowed across awaits; a token fires at any of them; the peer goes | bytes in order, framing kept, "ended" only when whole |
| Limited readers and writers (`abs_mptp/.../limited.rs`) | a quota per level, the segment lent | `write_async`, `read_async`, drop of a segment, `producer_state`, `consumer_state`, `read_exact_into_async_` | quotas are settled when a segment is dropped, by what was used; levels nest | no byte past the quota, reports that can be relied on |
| Client session (`mptp_smux/.../session.rs`) | `SessionState`, body plan, progress slot `BodyState`, who holds the receiving half | send body and suffix, receive prefix, body view, suffix, drain | legal call orders that leave slot and stream apart | request framed as declared, only body read as body, suffix begins after the body |
| Prefix and header codec (`wire_.rs`, `prefix_.rs`, `headers_.rs`, `num_or_str_.rs`, `cs_.rs`) | header tables on shared copy-on-write storage, the value to decode next | edit, clone, encode, decode, `body_info`, `body_size`, `is_chunked` | edits while others hold the table; prefixes cut anywhere; two declarations of one body | what is decoded is what was written; both ends derive the same body |
| Unary RPC call (`rpc_core_v1`: `proxy_.rs`, `ctx_.rs`, `body_.rs`) | on each side an encoder, a 64-byte ring, a pump, the channel | encode and pump joined, decode, reply, close | four futures on two hosts; either side may fail, leave or be cancelled | methods run on whole requests, outcomes are true, replies are not erased, everybody returns |
| Server loop (`mptp_smux/.../server_.rs`) | channel being served, invitations waiting | income, decode prefix, route, handle, close, drain | one loop for all channels | every invitation is settled; cancellation ends the loop |
| RPC handlers and queues (`router_.rs`, `rpc_router_.rs`, `route_.rs`) | bounded queue to a worker | refuse, enqueue, run inline | back-pressure against cancellation against a dead worker | nobody dropped for a full queue; order kept |
| Routing (`rpc_router_trie`, `Router`, inline `RpcRouter`) | trie of tries; lists of prefixes | register, resolve | where a segment ends, partial registration | longest prefix by segments; refused means unchanged |
| Service macro (`rpc_svc_macro`) | at compile time: the arguments read, the members analysed | parse arguments, analyse an item, expand | two halves generated apart; arguments in any order | what is accepted expands into halves that fit |
| Demo workers and store (`rpc_demo`) | one store under a mutex, three queues with a worker each, a count | receive job, decode, dispatch, reply, close, count; CRUD | check and change by two workers; leaving clients; leaving on a count | sessions have workspaces, calls take effect at most once, nobody is left behind |
| Ring preparation, configuration, error tables, trait crates, MPTP demo | none shared | - | - | not modelled: section 7 |

How they interact: a client proxy opens a channel and a `MptpSession` on it; its
body goes through a ring and a `ChunkedEncode` into the channel's window. On the
other side the server loop accepts the channel, decodes the prefix, routes the
location and hands both halves *by value* to a handler. An inline handler runs
the method within the loop; a queueing handler moves the halves, with a clone of
the header table, into the queue of a worker, which replies and closes. Whoever
holds the halves owes the close: drop the sending half, drain until the client
ends, drop the receiving half. Cancellation tokens form a tree; each await gets a
child of its caller's token and polls its operation before the token.

The hazards list of `PROJECT.json` says, line by line, what can go wrong and
which property would show it.

## 2. Modules

| Module | Models | Abstraction |
|---|---|---|
| `ByteStream` | what a body transfer promises | specification only |
| `ChunkedBody` | `ChunkedEncode`, channel window, `ChunkedReader` | byte *i* is the number *i*; a chunk is `[first, len, size]` |
| `Limited` | `LimitedWriter`, two nested `LimitedReader`s, `read_exact_into_async_` | bytes are counted, not named |
| `Session` | `MptpSession` | bytes of the response by kind; the request as what was written |
| `HeaderTables` | what a header table promises: a map per holder | specification only |
| `Headers` | `MptpHeaders`: handles on shared storage; what is read out of a table | a text is what the code can make of it: number, `chunked`, neither |
| `Prefix` | request and response prefixes, value by value; extends `Headers` | a MessagePack value is one item of the wire |
| `UnaryCall` | what a unary call promises its caller | specification only |
| `RpcCall` | one unary call, both ends | a value is a number of pieces; one piece, prefix or terminator per place of the window |
| `Serving` | listener loop, handlers, queue, worker, for several channels | what happens inside a call is one step |
| `Paths` | splitting, trimming and joining of paths | texts are sequences of characters (`Chars`), one of them the slash |
| `Routing` | the trie router and the inline routers | as `Paths` |
| `SvcMacro` | `#[rpc]`: arguments, analysis, expansion | syntax as what the analysis tells apart |
| `Store` | the demo's `AppState` | texts as values |
| `StoreService` | what the demo's services promise a client | specification only |
| `RpcDemo` | clients, listener, three queues and workers over one `Store` | a request fits the ring; see below |
| `MC*` | values for TLC | - |
| `ChunkedBodyProofs`, `LimitedProofs`, `SessionProofs`, `PrefixProofs`, `RpcCallProofs`, `ServingProofs`, `RoutingProofs`, `RpcDemoProofs` | theorems: section 4 | - |

The modules stack: `Session` and `ChunkedBody` take from `Limited` that a quota
lets exactly so many bytes through; `RpcCall` takes from `ChunkedBody` that a
pump moves a body in order and closes it with a terminator, and from `Prefix`
that a prefix arrives whole or not at all; `Serving` takes from `RpcCall` that a
reply either happens or fails when the client has gone or the token has fired,
and that a close waits for the client; `RpcDemo` takes from both that one call
is served by one worker at a time, and puts the store under it.

**ChunkedBody.** `enc` is where `chunked_write_all_async_` stands: `look` (both
ends' state, chunk size), `read` (the source segment is awaited), `write` (the
target segment is awaited while the source segment is held), `term`, and the
ways it returns. A source segment is settled only when it is reclaimed
(`settled`). The reader's `chunk_left` and `filled` are its own idea of where it
is; `frames` and `got` are where it really is; `misframed` is the state in which
the two have parted. `SourceKind` says whose `consumer_state` the encoder asks.

**Limited.** A call (`WriteAsync`, `ReadAsync`) is lent a segment, exhausted,
closed or cancelled; the segment stays with its user (`WriteInto`, `MoveOut`)
until `DropMutSegm` or `DropRefSegm` settles quota and channel by what was used.
`NarrowDemand` meets a demand with what is left, `NarrowBoth` through two levels,
and `ConsumerState` is what the outer reader makes of both quotas and the ring.
`ReadExact`, `MoveAll` and `NextRound` are the loop that fills a buffer.

**Session.** Each public call is an action with the code's guard, which is on
`state_` and nothing else; a call that awaits in a loop (`copy_sized_async_`,
`copy_all_async_`, the drain) leaves `call` set and has one action per turn of
the loop. `Habits` names what callers may do: skip the body, put the view back
early, take the reader out of the view, send the rest of a request again after a
failure, and receive on after a failure that had consumed a part of what it read
(`again`). The last is what `state_` lets them do when a prefix or a chunk's
length was cut, a prefix did not decode or its plan was refused: `astray` says
that the stream stands inside what was read, `Misread` and `LengthsHere` what
may be read there. `habits` records which of them a caller has shown, and
properties name those they except. `InStep` is a caller that never received on
from there (one whose call failed with nothing consumed may call again and is in
step): the claims about which byte of the stream is which are of those callers,
since for the others they are false (section 5); everything else is of all
callers. Between two views the slot may tell of more than is left of the body
(a reader taken out of the view writes nothing back), but never of less
(`SlotNotShort`). A body of the response (`Bodies`) is a sequence of increasing numbers:
how many bytes of payload the stream has given at the end of each chunk.

**Headers and Prefix.** `at` says which allocation a handle points to, `heap`
what is in it. `Edit` writes in place when the handle is its only owner and into
a copy otherwise (`Arc::make_mut`). In `Prefix` the sender's table may be cloned
(`spare`) and edited while the prefix is on its way; the receiver decodes by
`rstage`, hands a clone to the handler and another to the job. `wstage` is what
the sender encodes next, `wkeys` the keys of the map still to come, given in the
order `KeyRank` (the code's is a `BTreeMap`). A sender may be cut at any value
(`WriteCut`), after the last of the map as well. A foreign sender writes what
other implementations may: an unknown method, a missing or repeated key, a
number too wide. `HeadersAssumption` says that an allocation finds room: there
are as many `Storages` as `Handles`.

**RpcCall.** Every side has the same sender, `join(encode_fut, send_fut)`:
`Encode*` against `Pump*`, with the ring between them. `cl` and `sv` are where
caller and handler stand. `LetGo` is dropping both halves: what was on its way
here is gone, and the RESET of the receiving half *may* erase what this side had
sent and the peer not yet read, which is what the module comment of
`server_.rs` gives as the reason for the order of a close.

**Serving.** `place` says who owns a channel's halves; `listener` and `worker`
are program counters. `Enqueue` and `Flush` are `futures::mpsc`'s `send`: with a
freshly cloned sender the item is pushed first, and the wait for room comes in
the flush. A reply fails when its client has gone, when the token fires, or when
the value of a method does not encode, with its client still there: inline that
ends the loop after the close, at a worker it is logged.

**Routing.** `interfaces` is the trie, `routes` the cons list of the inline
routers, and both are given the same registrations. `split`, `trim_matches` and
`strip_prefix` are modelled by what they do to characters: `Reading` is the state
of `split_segments_` after each of them. The loops and recursions of the code are
recursive functions: `Reading` over a text, `Building` (`build_service_trie_`)
over a list of services, `Matching` (`match_route`) over the cons list from its
end.

**SvcMacro.** The phases are those of the macro: arguments are read one by one
into `form`, then the item is analysed, a trait member by member into `methods`,
and what is left expands into a client half, a wire type and a server half.
`Parts` is what `syn::visit` walks over: level by level below a type, to the
depth `MaxDepth` that no type of an argument exceeds (`MacroAssumption`, which
also says that `str`, `String` and the scalars take no type arguments). The
rules of the compiler that decide whether the halves fit (which types are owned,
what a conversion makes of them) are external.

**RpcDemo.** `job` says where each call stands: sent, queued, ran, replied,
closed. The listener routes the head of `inbox` into the queue of its service
(`workspace` and `session` of the first interface, `workspace2` of the second:
the same implementation behind a queue of its own) or refuses
it and waits for the client's end (`Reject`, `RejectClosed`). A worker takes,
decodes, runs the method under the mutex (one step: nothing is awaited while it
is held), replies, drains and only then counts. A client that gives up cuts its
request in the body (the worker's decoding fails) or in the prefix
(`ListenerFails`, as when a refusal cannot be written). Abstractions: a request body
fits the ring, so that a client has sent it when it waits; the encoding of a
reply does not fail (`WorkerError` of an encoder is not modelled); the scripted
sequence of `client_.rs` is not replayed, the clients call anything in any
order and may give up at any time.

## 3. Runs

| Run | Question | Result |
|---|---|---|
| `chunk_safety` | Does a chunked transfer keep order, framing and completeness under cancellation, retry, source failure, over-lending and a dropped receiver; does it implement `ByteStream`; do both ends stop? | holds |
| `chunk_relay` | Can a `ChunkedReader` be the source of a `ChunkedEncode`, as its documentation says? | no: finding 1 |
| `limited` | Do quotas stay exact through partial use, cancelled borrows, nesting and an early close; can what `consumer_state` says be relied on; does an exact read return? | holds |
| `session_safety` | Whatever the caller's habits: is the request on the wire what its prefix declares, is only body read as body, does a finished view mean a whole body, does the slot never tell of less than is left, is the suffix aligned for those who finish the body? Of those who receive on from inside a failed read: do they at least read no body in answer to a `Head`? | holds |
| `session_early` | Does the suffix always begin after the body, when the view is put back early? | no: finding 2 |
| `prefix` | Is what is decoded what was written, do both ends derive the same body, is shared storage as good as a table of one's own, is every prefix settled? | holds |
| `rpc_call` | Over every fault on either side: section 1, row "Unary RPC call"; does the call implement `UnaryCall`; do the two ever wait for each other? | holds; they do not |
| `rpc_stuck` | Does `reply_ok_async` always return? | no: finding 3 |
| `serving` | Over several channels: order, bound, cause of every drop; can anything but a client that keeps a closing channel hold up an invitation, or a cancelled listener? | holds; nothing else can |
| `routing` | Is the longest prefix found, do the two routers agree, does the trie hold what it took and nothing of what it refused? | holds |
| `svc_macro` | Do the halves of whatever is accepted fit, do arguments mean the same in any order, do accepted paths survive joining and routing? | holds |
| `demo` | Does the store keep its integrity under three workers; does the demo implement `StoreService`; does the server leave nobody waiting; does every call come back? | holds |

Seven invariants are conjunctions, so that one name stands for what must be true
together: the type invariant of the module and all that the proofs of section 4
rest on, so that TLC checks each of them on a small instance. `TransferInv` and
`LimitedInv` say where every byte is; `SessionInv`, what has moved either way
and what state, slot and readers know of it; `PrefixInv`, what has been written
and decoded at every stage, and that a prefix decoded whole is the one that was
written (`PrefixArrives`); `CallInv`, the account of a call's pieces, what
either side finds on the wires from where it stands, that a caller is told what
the server replied, and that some future can go on until both have returned;
`ServingInv`, the bound of the queue, first come first served, jobs in line, one
taker per job, what a channel's place and answer tell of its call, and that
somebody goes on while a channel is unsettled; `StoreInv`, one owner per job and
no job without, the count, referential integrity, and that somebody goes on
while a client waits.

`CHECK_DEADLOCK` is off except in `limited`: a body, a call, a script of calls or
a server that was cancelled does come to an end, and that is a state without
successors. In `limited` a caller may always call again, so deadlock is checked.

### Bounds

- *chunk_safety*: four bytes, chunks of at most two, a window of six: a window
  holds one full chunk and a terminator, so that the encoder waits for room
  between chunks and meets every remainder of free space (0 to 6), and a body
  takes two to four chunks.
- *limited*: a ring of two, a body of three and one byte of suffix: the body does
  not fit the ring, and the byte behind it is there to be taken by mistake. The
  outer quota is one below or one above the inner one. Demands of one, of one to
  three (more than ring or quota) and of exactly two (which the last byte cannot
  meet).
- *session_safety*: bodies of no byte, of one, and of one before two (`MCBodies`),
  suffixes up to three bytes (a drain that takes two of them for a length leaves
  one to be read), a drain block of two, so that it is smaller than,
  equal to and larger than what is left. Every prefix of the response is a
  possible cut. Up to three bytes of request are declared and up to three at
  hand, in any pairing; since the two directions share only the session's
  state, a request with a body comes with the shortest response (`OneWayLarge`).
- *prefix*: every form of `Body_Size` (number, decimal, hexadecimal, word) and of
  `Body_Transfer` (number, text, wrong number, wrong text), alone and together,
  six streams of foreign senders, two edits, five handles and as many
  allocations, which `HeadersAssumption` asks for and the proofs show to be
  enough.
- *rpc_call*: values of three pieces, a ring of one, a window of two: an encoder
  can be full, pumping and waiting at once. Both directions may be full.
- *serving*: three calls, numbered in the order they come (their identities do
  not matter otherwise), a queue of one and two waiting invitations: one call
  with the worker, one in the queue and one that has to wait is the smallest
  full queue.
- *routing*: two interfaces with two services, from texts that begin one another
  as texts but not as segments, with spare slashes at either end and inside.
- *svc_macro*: every form of every argument in every order of up to three,
  every feature the analysis refuses, types to a depth of three (`MaxDepth`; a reference to
  a vector of bytes, an option of a borrowed text), traits of up to two members,
  so that names can clash.
- *demo*: two clients, three calls, five requests: one creates a workspace, one
  deletes it through the other queue, one creates a session in it (sound or
  garbled), one has no route. Create, create and delete is the shortest order
  that can break integrity; a queue of one is full with two calls; the server
  expects as many jobs as calls are made, as the demo's constant is chosen.
  That `c1` makes the first call (`FirstCallIsC1`) loses nothing: the clients differ
  in name only, the properties speak of all of them, and no client has to call.

### Fairness, and why the code justifies it

Weak fairness on the futures: an executor polls a future that was woken, and the
operations wake it. In `RpcCall` it is per future (`Encoder`, `Pump`, `Caller`,
`Handler`), since `join` polls both of its parts; a server that never goes on (a
job behind one that does not end, a method that does not return) is the fault
`hold`, under which a cancelled caller must still return. `ChunkedBody` adds
that a reader goes on reading (not that its token fires), that it lets go of a
malformed stream, and strong fairness on `TxClose`: a caller does not retry a
cancelled transfer for ever. `Limited` has weak fairness on a call in progress
and on the moves of an exact read, and the strong fairness that a writer at last
closes; nobody is made to begin a call. `Prefix` has it on the encoder, the
decoder and the close behind a prefix. `Serving` has it on the listener and the
worker, and assumes that a method returns. Nothing is assumed of its clients,
except that they send their prefix (section 6): any of them may keep its channel
for ever, and the properties say what that holds up (`KeptFromListener`,
`KeptFromWorker`). `RpcDemo` has it on the listener, on each worker (they are
threads of their own), and on a client that takes the answer it was given or
finds its server gone; nobody has to call or to give up. No fairness is assumed
of faults and cancellation anywhere.

## 4. Proofs

Each theorem holds for every value of the constants that satisfies the module's
assumption, which TLC evaluates in the module's runs.

| Module | Theorem | Statement |
|---|---|---|
| `ChunkedBodyProofs` | `TransferCorrect` | `Spec => []TransferInv` |
| | `InOrder` | `Spec => []DeliveredInOrder` |
| | `FramingKept` | `Spec => []NeverMisframed` |
| | `EndedComplete` | `Spec => []EndedIsComplete` |
| | `ImplementsStream` | `Spec => StreamSpec` |
| `LimitedProofs` | `QuotasExact` | `Spec => []LimitedInv` |
| | `ReportsHold` | `Spec => []PromisedIsLendable` |
| | `EndStays` | `Spec => StateSaysEnd` |
| `SessionProofs` | `SessionCorrect` | `Spec => []SessionInv` |
| | `RequestIsFramed` | `Spec => []RequestFramed` |
| | `OnlyBodyIsRead` | `Spec => []BodyIsBody` |
| | `WholeBodyIsRead` | `Spec => []FinishedIsWhole` |
| | `SuffixIsSuffix` | `Spec => []SuffixAligned` |
| `PrefixProofs` | `PrefixCorrect` | `Spec => []PrefixInv` |
| | `PlansAlike` | `Spec => []PlansAgree` |
| | `TablesAreValues` | `Spec => HeadersAreValues` |
| `RpcCallProofs` | `OnlyWhole` | `Spec => []OnlyWholeRequestsRun` |
| | `CallCorrect` | `Spec => []CallInv` |
| | `NobodyWaits` | `Spec => []SomebodyGoesOn` |
| | `ImplementsCall` | `Spec => CallSpec` |
| | `FinishedReplyIsRead` | `Spec => FinishedReplyArrives` |
| `ServingProofs` | `ServingCorrect` | `Spec => []ServingInv` |
| | `OrderKept` | `Spec => []FirstComeFirstServed` |
| | `NobodyDroppedIdly` | `Spec => DroppedForCause` |
| | `NobodyHeldUp` | `Spec => []SomebodyGoesOn` |
| | `AnsweredOnce` | `Spec => AnswersStand` |
| `RoutingProofs` | `TrieIsWhatItTook` | `Spec => []TrieHolds` |
| | `RefusalsLeaveNothing` | `Spec => RefusedChangesNothing` |
| | `ResolvesLongestPrefix` | `Spec => []ResolveIsLongestPrefix` |
| | `InlineAgrees` | `Spec => []RoutersAgree` |
| | `MacroHalvesFit` | `MacroSpec => []HalvesFit` |
| | `MacroArgumentsDecide` | `MacroSpec => []ArgumentsDecide` |
| | `MacroPathsComeApart` | `MacroSpec => []PathsComeApart` |
| `RpcDemoProofs` | `StoreKept` | `Spec => []StoreInv` |
| | `NobodyLeftBehind` | `Spec => []SomebodyGoesOn` |
| | `ServerStays` | `Spec => ServerOutlivesCalls`, when `ExpectedJobs >= MaxCalls` |
| | `PromiseKept` | `Spec => AtMostOnce` |

**Chunked body** (with a source that reports its state as a ring does,
`SourceKind = "ring"`; for the other kind the statement is false, finding 1).
`TransferInv` is inductive. *InOrder* is not by itself: that the reader hands out
the right byte depends on its being where it believes to be (`ReaderSound`),
which depends on every prefix telling the length of its chunk and on chunks
being consecutive pieces of the source (`ChunksSound`), which depends on the
encoder's never holding more than the source has nor more than a prefix can tell
(`EncoderSound`). The proof goes by action: the steps that touch neither wire nor
reader (`QuietStepSound`), the write of a frame (`WriteStepSound`, used for chunk
and terminator), and the reader's steps (`ReadHeadSound`, `ReadPayloadSound`,
with `TailSound` for the removal of a finished chunk). *EndedComplete* follows
from the invariant: a reader that has seen the terminator has an empty wire and a
finished encoder, whose source is closed and settled. *ImplementsStream* maps
reading a payload to `Deliver`, the terminator to `End`, and everything else to
the source's steps or a stutter.

**Limited.** `LimitedInv` is inductive: what is left of a quota, what is in the
segment and what crossed the channel add up, at the writer (`WriterQuota`) and at
both readers (`ReaderQuota`), and a buffer being filled has in it what the reader
consumed (`ExactProgress`). The parts need each other: a reader's sum is kept by
a drop only because a segment is never larger than either quota, which holds
because both narrowed the demand it was lent for. *ReportsHold* and *EndStays*
follow from it and from lemmas about narrowing.

**Session.** `SessionInv` is inductive up to `SlotTellsTheRest` and
`BodyIsBody`, which follow from the rest of it (`SlotIsTrue`, `BodyIsTrue`). It
has two parts: what holds of every caller (`Standing`: types, phases, the
request, nothing read in answer to a `Head`) and what holds of callers in step
(`Responses`, under `InStep`). Every step keeps the first without help of the
second, so that a caller which receives on from inside a failed read loses the
second part and that alone; a step that leaves a caller in step was made with
nothing consumed before it, which `Recorded` gets from `Shows`. None of the
three claims about the response is inductive: that the reader hands out body
depends on where in the stream it stands, which its quota, its chunk and,
between two views, the slot say (`ReaderAligned`, `SlotAligned`, `SlotNotShort`), and on a
stream that is laid out as its prefix declares (`Phases`). What the stream is at
each position is data and not state: a first group of lemmas derives it from
`Bodies` alone (`StartsGrow`, `KindsLaid`, `LengthsLaid`), and `InOrderGrows`
says when a list of positions read in order stays one. The two directions share
no conjunct but the phase, so that a step of one leaves the other's part as it
is (`SendingFrame`, `ReceivingFrame`); one lemma per action follows.
*SuffixIsSuffix* is of the callers that keep to `ByTheBook` and are in step: for
the habits left out it is false (finding 2 and section 5). Of a sized body that is
sent again after a failure `RequestFramed` claims that the second sending is
there whole: what a call counts is never more than what stands on the wire
(`SentIsCounted`), so that a call that has counted the declared size has written
it, behind whatever the first one left.

**Headers and Prefix.** The theorems hold for any keys in any order, any tables
and foreign streams, and any number of edits. *PrefixCorrect*: what the receiver
has decoded is a prefix of what was written, entry by entry, since the entries on
the wire are those of the keys not to come (`MapSent`), no key twice, and the
receiver has decoded as many as it counted (`EntriesRead`); a table of as many
keys as there are entries is the whole table (`WholeArrives`). Where the sender
is cut, the entry under way is neither (`NextIsOne`: which key it is is settled by
`KeyRank`). Of a foreign stream only that its keys are read where keys are is
known, which keeps the types. *TablesAreValues*, the refinement of
`HeaderTables`, maps every operation to the one handle whose table it changes
(`PutOnly`, `GoneOnly`: with no other owner in place, else in unused storage);
that there is some is a matter of counting (`Room`: a shared allocation has two
owners, so the handles cannot fill the storages). The same lemmas give `TablesKept`, by
which the table a job is decoded by is the one that was decoded, and
*PlansAlike* follows.

**RPC call.** `CallInv` is inductive up to `OutcomeIsTheReply` and
`SomebodyGoesOn`, which follow. Whole values rest
on an account: what a side has read, what is on the wire, in the ring and not yet
encoded never exceeds the value (`RequestAddsUp`, `ReplyAddsUp`), so that who has
read it whole knows that nothing is left behind. It depends on the frame of a
wire (`WiresFramed`: a prefix only in front, a terminator only behind, pieces
between), on a server's answering once, with a value or an error
(`NoAnswer`, `ErrorAnswer`, `ValueAnswer`), and on
nothing being lost until the caller has returned (`NothingLost`): whoever drops
halves first has waited for the other. The lemmas say what each way of touching
a wire does to the account (`PutHead`, `PutBehind`, `TakeFront`, `ShrinkKeeps`);
the actions of both sides are instances.

*NobodyWaits* is freedom from deadlock as an invariant. `EncoderGoesOn`,
`PumpGoesOn`, `CallerGoesOn` and `HandlerGoesOn` say what each future waits for, in
the place of `ENABLED`, of which the prover knows nothing. `FrontsTell` and
`EndsTell` add to the account what is first and last on the wires while either
side stands where it does (a client that waits for a reply has put a terminator
behind its request; only a server that has not read the prefix has one before it).
Then a caller that waits for room has a handler that reads, or has read the whole
request, so that only a terminator is on the wire and the caller is through
(`FrontOfTheRest`), or writes an error, which fits (`ErrorHasRoom`). It is here
that `ErrLen + 1 <= Window` is needed: with a longer text and no such assumption
TLC finds the two waiting for each other. A caller that waits for a reply has
either something to read or a handler with room to write. What is left is the
server that holds the call and the stuck encoder of finding 3.

*ImplementsCall* is the refinement of `UnaryCall`: the reply given is `said`, the
caller waits in `prefix`, `value` and `text`, and every step of encoders, pumps and
wires is a stutter. That a reply given to its end is what a waiting caller gets is
`FailsOnlyUnreplied`: each way a read can fail contradicts the account once
`said` is set, unless the token fired. That the method runs once is a small
invariant of its own (`RunsOnce`). *FinishedReplyIsRead* states the same of
the caller's last step alone.

**Serving.** `ServingInv` has three parts. `LineSound` is inductive. Order in the
queue alone is not: that the next job enqueued is younger than all others depends
on where the others are, so the invariant speaks of the whole line of those taken,
with the worker, in the queue, with the listener and in the backlog, and of `place`
agreeing with it. *NobodyDroppedIdly* is an action property proved from it.

`PlaceTells` and `AnswerTells` are inductive beside it: a channel in the queue or
with the worker is a call of the service, one in hand to be refused or run inline
is not for the worker, and none is answered before it is with somebody who is to
answer it. Most steps hand one channel from one owner to another (`HandoverTells`).
*AnsweredOnce* follows: whoever writes a reply has a channel that is `Unanswered`,
and no longer afterwards.

`SomebodyGoesOn` follows from both. A worker with a job or a queue goes on, or waits
for a client whose call is over (`WorkerOrClient`); a listener that has a channel
goes on or waits for such a client, and one that waits for room has a worker with
a queue, or a dead one, which lets it go (`ListenerOrAnother`). That no one waits
for a client that has not called comes of `PlaceTells`. The server that was
cancelled or failed keeps the invitations of its backlog, which `Unsettled` excepts.

**Routing.** `TrieHolds` is inductive and tells the trie from the history of
registrations: which paths have a value, of which registration it is, and which
nodes there are. That no path is taken twice comes of two texts of one path
being the same to `contains`, though `add_interface` only sees the trie.
*RefusalsLeaveNothing* is the action property: the trie does not change at a
refusal (`add_interface` returns before it inserts).

*ResolvesLongestPrefix* and *InlineAgrees* are about what recursive functions
compute for data of any length. The library's induction theorems take an operator
and no prover here can give them one; the proofs use the form of induction that
needs a set only: a set of natural numbers that holds 0 and every successor of
what it holds is `Nat` (`Counting`), because the numbers missing would have a
least one (`WFMin`). `Iterates` has from it, once, that a function may be
defined step by step; `ReadingIs`, `BuildingIs`, `MatchingIs` and, for the macro,
`PartsWithin` are that each recursive definition is the function it describes.
Then, bottom up:

- *texts*: reading begins anew at a slash (`SplitAtSlash`), trimming keeps the
  segments (`TrimKeepsSegments`), and the segments of a plain text begin those of
  another exactly when the text begins the other and ends where a segment ends
  (`BeginsBySegments`, by induction on the first segment). It is the reason for
  the check of the next character in `path_prefix_len_`, and without "plain", no
  empty segment inside, it is false, which is the hypothesis of `RoutersAgree`;
- *tries*: `match_longest` stops at the first segment that is no child, the
  reference looks at the values only. They agree because every value's way is
  there (`Tries`, kept by `InsertIsTrie`), so `FoundIs` is the longest registered
  prefix, one at most (`LongestIsOne`);
- *lists*: what the recursion of `match_route` keeps is the longest hit and of
  two equal ones the first (`KeepsBest`, `MatchListIs`), which is the same prefix
  (`MatchIsLongest`);
- *both*: `RoutesHold` (the list is the history backwards, TLC agrees) goes with
  `TrieHolds`; `InterfaceMatched`, `StripLeavesSegments` and `ServiceMatched` take the
  inline router through its two levels, and `InlineFinds` puts them side by side.

**Service macro.** Its theorems are in `RoutingProofs` because they rest on the
lemmas about texts. Two invariants are inductive: `ArgumentsRead` (while
arguments are read, each is fine and no name comes twice; afterwards there is a
form exactly if they are well formed) and `MethodsAnalysed` (a method recorded is
what the analysis makes of some member). *MacroArgumentsDecide* turns on counting:
names as many as arguments means none twice (`NamesCount`), and the sets of names
that make a form are those of one or two arguments (`FormNeeds`).
*MacroHalvesFit* is case by case over `borrowed_to_owned_` (`BorrowFits`); that
nothing owned has a borrow inside needs what is below a type, at any depth
(`PartsWithin`, `OwnedParts`). *MacroPathsComeApart* joins the two valid paths
into a plain one (`JoinIsPlain`), and takes it apart with the lemmas of the
routers (`JoinComesApart`).

Proving found one thing wrong with the models: three definitions were written with
a `CASE` whose guards overlap (`StripInterfacePrefix` for an interface of slashes
only; the reader's next state in `ChunkedBody`; what a caller is told in
`RpcCall`), where the code is an `if` chain. TLC takes the first guard, the
language takes any. They are now `IF` chains in the code's order.

**Demo.** `StoreInv` rests on `JobsSound`: `TypeOK`, at most one owner for a job
(`QueueSound`, `WorkerSound`, `ListenerSound`: what holds a ticket agrees with
the job's stage, and no two hold it), the count (`count` is the number of routed
jobs that are closed) and the store's own integrity (`StoreSound`: a session has
its workspace, ids are below the next one). That every method keeps `StoreSound`
is `RunSound`. One lemma per action; they rest on `StageMoves` (a step of one
job leaves the others), `OneOwner` (a job held by one is free of the others) and
`FreeStaysSound`. *ServerStays* adds that the client of a waiting call is not
counted, so that the count of a server that may leave would exceed the number of
calls; it needs the demo's choice `ExpectedJobs >= MaxCalls`.

The second part of `StoreInv` is that a job has an owner until it is closed
(`InHand`), by one lemma for the steps of worker, listener and client each
(`WorkerLosesNone`, `ListenerLosesNone`, `ClientLosesNone`). *NobodyLeftBehind*
follows: a job that was sent is behind the head of the inbox, which the listener
can accept or refuse unless it refuses another or the queue is full; a full queue
has a worker with a job; and whoever waits for the end of a channel waits for a
client that has its reply to read (`ReplyIsRead`). It needs a queue that holds at
least one job (`DemoAssumption`). The three *GoesOn* predicates of either module
stand for `ENABLED`: on the instances of the runs they were compared with TLC's and
are true exactly where the actions are enabled.

*PromiseKept* is the refinement. `StoreService` is what a client may rely on: a
call is made, takes effect at one moment or is refused without effect, and is
answered by that one effect. The mapping takes `pending` to the jobs without an
answer and `given` to the answer of the job a client waits for. `RunCall` is the
effect, refusals and failed decodings are refusals, `GetReply` and `LosesServer`
are the client's; queueing, replying and closing are stutters (`AtUnseen`). That a
client that gave up and calls again never gets the old answer comes from the
invariant: it waits for a newer ticket.

Every invariant, action property and refinement that a passing run checks is proved. Only
model-checked is liveness (`ClosedLeadsToEnded`, `BothEndsStop`,
`ReadExactReturns`, `PrefixSettles`, `CallerReturns`, `HandlerReturns`,
`CancelledCallerReturns`, `EveryCallSettled`, `CancelStopsListener`,
`EveryCallReturns`): it needs fairness and `ENABLED`, which the prover does not
reach.

## 5. Findings

1. **A chunked reader cannot be relayed** (`chunked.rs:538`). Its
   `consumer_state` always says "closed", with 0 bytes at each chunk boundary; an
   encoder that has it for a source stops there.
2. **Early put-back** (`session.rs:726`). The drain demands exactly 4096 items:
   with fewer left it consumes nothing, with more it borrows for ever.
3. **Stuck join** (`ctx_.rs:293`, also `proxy_.rs:202`). When the pump fails,
   the encoder with more than a ring left waits for ever; with an inline router
   so does the server's loop. `CallerReturns` and `HandlerReturns` state that
   this is the only way a call does not return.

Further places where code and documentation part, met while modelling. The
models do what the code does; no run is spent on them:

- *Chunked reader*: a token that fires while a length is awaited comes back as
  `Malformed` (`chunked.rs:587`, against `:351` and `:360`); one that fires
  between the two bytes of a length loses the first (`chunked.rs:583`).
- *Session, reader taken from the view* (`session.rs:868`): `try_into_*` writes
  the slot before the reader it returns has read, and that reader writes nothing
  back. A chunked body read to its end through it leaves the slot at
  `ended_: false`, and the drain takes the head of the suffix for chunk lengths
  (`:670` says the suffix begins where the body ends). The error is one-sided,
  see `SlotNotShort`.
- *Session, sized body sent again* (`session.rs:375`): a failed or cancelled
  transfer leaves `SendingBody` and its bytes on the wire; the next call has a new
  quota of the whole size (`:395-396` says surplus bytes are held back). The
  protocol notes (`dev-notes/mptp-protocol-20261020-0200.md:540`) want any error to
  end the session.
- *Session, prefix received again* (`session.rs:599`, guard at `:592`): a prefix that
  was cut, did not decode or whose plan was refused (`:607`) leaves `WaitingResp`
  with its bytes consumed; the next call decodes from the middle of the response,
  and what it finds there decides where the body ends, against `:29`, `:166` and
  the same line of the notes. A chunk's length that was cut is read on likewise.
- *Session*: in `PrefixReady` the suffix is read without draining, whatever the
  plan says (`session.rs:692`); with 4096 items or more in the stream and no
  token the drain does not return (`session.rs:731`).
- *Server, one channel ends the loop* (`server_.rs:332`): a prefix that does not
  decode, a location without a route and an error of a handler end the loop of all
  channels and leave the others in the backlog, against the isolation that the
  repository's README lists as a principle (`README.md:38`).
- *Server*: the drain of a close takes no token (`server_.rs:229`): a client that
  keeps its channel keeps a cancelled listener, and the property
  `CancelStopsListener` says that nothing else does; a drain demands
  exactly 4096 items whatever the ring can hold (`server_.rs:247`); an enqueue
  cancelled in its flush is reported as cancelled while its job is in the queue
  (`route_.rs:238`, doc at `:122`).
- *Body declarations*: with both `Body_Size` and `Body_Transfer` a sender goes by
  the size (`cs_.rs:66-78`) and an RPC worker decodes chunks (`ctx_.rs:238`).
  A `Body_Size` that is not a number makes `body_info` give no body even when
  the transfer is chunked, unlike `session.rs:142-146`. `body_size()` takes
  hexadecimal text, `body_info` decimal only. `PlansAgree` is stated of
  the table both ends read, and of the worker's plan for tables with a single
  declaration in decimal.
- *Limited*: `Exhausted` is also said when a demand asks for more than is left
  (`limited.rs:58-59` speaks of a used-up quota only); a read that demands
  exactly *n* items and a writer that demands more room than those leave wait for
  each other for good (`read_exact_into_async_` asks for one at least, and returns).
- *Header tables*: `TrHeadersMut` takes `self` by value (`headers_.rs:506-520`): an
  edit through it is an edit of that handle's copy.
- *Routing*: a service does not answer to its own location where a longer
  interface shadows it or its prefix holds a doubled slash
  (`rpc_router_.rs:292`).
- *RPC errors*: whatever makes decoding fail, a fired token or a lost transport
  included, is answered 400 (`body_.rs:73`), where `error_.rs` has 504 and 500.
- *Macro*: an argument named `service`, `ctx` or `cancel` shadows a generated name
  (`expand_.rs:334`); types are told by the last segment of their path.

## 6. What the models assume of code outside the repository

- A channel is reliable and ordered; a write at a peer that has gone fails; a
  read after the peer's end fails with a closing tag; dropping the receiving
  half may reset the channel.
- A ring lends at most what is asked, except in the `overlend` fault, where the
  source does not keep to `no_more_than`. It lends any number of items within a
  demand that it has.
- A window holds at least three bytes: a chunk with one byte of payload is
  written as a whole.
- `futures::mpsc::Sender::send` pushes and then waits in its flush while the
  queue is over its capacity; a clone of a sender has a place of its own.
- MessagePack is self-delimiting: a decoder knows when its value is whole, and
  of which kind it is. Its bytes are not modelled.
- The drain of a close consumes what it borrows (`Demand::exactly(4096)` can be
  met by the ring, or the end is reported).
- `ErrLen + 1 <= Window`: the text of a refusal fits the window. Without it a
  refusal and a request body may wait for each other (hazards).
- A client that opened a channel sends its prefix or leaves. A silent client
  holds the server's loop until the token fires (hazards).
- A demo request fits the ring, so that sending it needs no server.
- What the Rust compiler makes of the macro's expansion: which types are owned,
  which conversions exist, that a reference in a wire type does not compile.

## 7. Not modelled

- *Ring preparation, configuration*: allocation for one request, nothing shared
  between two operations; `Income` and `Open` fold it in. Where preparing or
  accepting fails (`server_.rs:318`, `:326`) the loop ends as with `IncomeFails`, and the
  channel in hand is dropped; `DroppedForCause` does not speak of these drops, nor
  of invitations that a loop which has ended leaves in its backlog.
- *Handler cancellation adaptors* (`cancel_future_.rs`): they forward poll and
  token and keep no state; what a cancelled handler leaves behind is in
  `Serving`, `RpcCall` and `Limited`.
- *Client connection*: binding and docks. The opening of a channel, and that it
  may fail, is in `RpcCall`.
- *Error and status tables, methods, standard headers, read helpers*: constants
  and wrappers.
- *Interface crates*: traits without behaviour.
- *MPTP demo*: a second program over the same library; its listener loop and its
  bodies are those of `Serving` and `Session`, what it adds is its data types and
  a timeout around the whole program. Command lines and logging likewise.
- *The demo's script*: `client_.rs` makes a fixed sequence of calls and prints
  what it gets; `RpcDemo` has clients that call anything in any order.

## 8. Plan

Written, in this order: `ByteStream`, `ChunkedBody` and its proofs, `Session`,
`RpcCall`, `Serving`, `Routing`; then `Limited`, `Headers` and `Prefix`, `SvcMacro`,
`Store` and `RpcDemo`, and the proofs about `Limited`, `Serving` and the demo.

Then the proofs about `RpcCall`, `Session`, `Prefix` and `Routing`, each with the
inductive invariant its run now checks; last, what the routers resolve, the macro,
`UnaryCall` with its refinement, and that nobody in a call, a server or the demo
waits for ever.

To extend: cancellation and a dying worker in `RpcDemo`, which only `Serving` has.
