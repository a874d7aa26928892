------------------------------ MODULE Dispatch ------------------------------
(***************************************************************************)
(* handleMessage (handler.go) with handleConfirmable and handleNotify:     *)
(* what is sent because of one datagram, and because of what was sent.     *)
(*                                                                         *)
(* Two endpoints run this library and talk about one resource, so that     *)
(* each has one key in its block cache.  The first message comes from      *)
(* anywhere; messages arrive in any order or never (copies are the subject *)
(* of Dedup).  What the pending tables, the observations, the routes and   *)
(* the application answer is chosen freely at each lookup.                 *)
(***************************************************************************)
EXTENDS Naturals

CONSTANTS
  Endpoints,      \* two of them
  FirstMessages,  \* what may start it all
  Cached,         \* what earlier transfers may have left in a cache
  Replied,        \* entries that earlier messages may have left in deduplication
  MaxHops,        \* bound: messages in a row, each sent because of the one before
  None            \* a nil pointer, an absent option or entry

Types  == {"CON", "NON", "ACK", "RST"}
Codes  == {"empty", "request", "response"}
Block1 == {None, "only", "first", "middle", "last"}
Block2 == {None, "first", "only", "later"}

Messages == [type : Types, code : Codes, mid : Nat, observe : BOOLEAN, block1 : Block1, block2 : Block2]
Replies  == [mid : Nat, rsp : Messages \cup {None}, of : Codes]

\* A reply has the ID of the message it was made for, and no handler makes a
\* confirmable one.
ASSUME DispatchAssumption ==
  /\ \E a, b \in Endpoints : a # b /\ Endpoints = {a, b}
  /\ MaxHops \in Nat
  /\ FirstMessages \subseteq Messages
  /\ Cached \subseteq Messages
  /\ \A m \in Cached : m.code = "response" => m.type \in {"ACK", "NON"}
  /\ Replied \subseteq Replies
  /\ \A x \in Replied : x.rsp # None => x.rsp.mid = x.mid
  /\ None \notin Messages \cup Replies \cup {"only", "first", "middle", "last", "later"}

VARIABLES
  wire,     \* datagrams under way: [msg, to, hop, blocks, via], with (history) the number
            \* of messages before it, of blocks a retrieval fetched, and special causes
  last,     \* what was handled last: [packet, sent, cause], None before (history)
  dedup,    \* endpoint -> entries of its peer: [mid, rsp, of], rsp None while pending,
            \* of the code of the message it was made for (history)
  cache,    \* endpoint -> the message in its block cache, None without one
  fetching, \* handlers in blockRetreive: [packet, block, sent, waits], block the one that
            \* came last, sent the early ACK, waits for the answer to a request
  crashed   \* endpoints that have panicked

vars == <<wire, last, dedup, cache, fetching, crashed>>

-----------------------------------------------------------------------------
(* Messages.  Of a block option only what the handlers ask is kept: "first"    *)
(* (number 0, more to come), "only" (number 0, no more) and later blocks.      *)

Message(type, code, mid) ==
  [type |-> type, code |-> code, mid |-> mid, observe |-> FALSE, block1 |-> None, block2 |-> None]

\* Code < 10: an empty message counts as a request.
IsRequest(m)    == m.code # "response"
Deduplicated(m) == m.type \in {"CON", "NON"}

MakeReply(m, code) == Message("ACK", code, m.mid)
EmptyAck(m)        == MakeReply(m, "empty")
Error(m)           == MakeReply(m, "response")
Continue(m)        == [MakeReply(m, "response") EXCEPT !.block1 = m.block1]
\* Only the type makes it a reset: the code is that of the message rejected.
Reset(m)           == Message("RST", m.code, m.mid)

\* The ID drawn for a message that comes after so many; no other such message has it.
FreshMid(hop) == 10 + hop

Peer(e)    == CHOOSE x \in Endpoints : x # e
Entries(p) == {x \in dedup[p.to] : x.mid = p.msg.mid}

-----------------------------------------------------------------------------
Init ==
  /\ \E earlier \in [Endpoints -> Replied \cup {None}] :
       dedup = [e \in Endpoints |-> {earlier[e]} \ {None}]
  /\ \E m \in FirstMessages, e \in Endpoints :
       \* The peer does not use an ID of its own again.
       /\ \A x \in dedup[e] : x.mid # m.mid
       /\ wire = {[msg |-> m, to |-> e, hop |-> 0, blocks |-> 0, via |-> {}]}
  /\ last = None
  /\ cache \in [Endpoints -> Cached \cup {None}]
  /\ fetching = {}
  /\ crashed = {}

\* Fault: resets are not told apart.
AdmittedWithResets(p) ==
  /\ p \in wire /\ p.hop < MaxHops
  /\ p.to \notin crashed
  /\ Deduplicated(p.msg) => Entries(p) = {}

\* A message that is handled: no Reset, and no copy of what was handled before.
Admitted(p) ==
  /\ p \in wire /\ p.hop < MaxHops
  /\ p.to \notin crashed
  /\ p.msg.type # "RST"
  /\ Deduplicated(p.msg) => Entries(p) = {}

\* These messages, sent because of p.
Sent(p, messages, cause) ==
  {[msg |-> m, to |-> Peer(p.to), hop |-> p.hop + 1, blocks |-> p.blocks,
    via |-> p.via \cup ({cause} \cap {"replayed", "half cached"})] : m \in messages}

\* The handler of p sends these messages.
Sends(p, messages, cause) ==
  /\ wire' = (wire \ {p}) \cup Sent(p, messages, cause)
  /\ last' = [packet |-> p, sent |-> Sent(p, messages, cause), cause |-> cause]

\* deduplicate leaves an entry, save puts the reply into it.
Entered(p, rsp) ==
  [dedup EXCEPT ![p.to] = @ \cup {[mid |-> p.msg.mid, rsp |-> rsp, of |-> p.msg.code]}]
Saved(p, rsp) ==
  [dedup EXCEPT ![p.to] = {IF x.mid = p.msg.mid THEN [x EXCEPT !.rsp = rsp] ELSE x : x \in @}]

\* Fault: every message leaves an entry.
EndsRecorded(p, rsp, cause) ==
  /\ Sends(p, {rsp} \ {None}, cause)
  /\ dedup' = Entered(p, rsp)

\* The handler of p ends with reply rsp (None: without).
Ends(p, rsp, cause) ==
  /\ Sends(p, {rsp} \ {None}, cause)
  /\ dedup' = IF Deduplicated(p.msg) THEN Entered(p, rsp) ELSE dedup

Returned(p, rsp, cause) == Ends(p, rsp, cause) /\ UNCHANGED <<cache, fetching, crashed>>

CachePut(e, m) == cache' = [cache EXCEPT ![e] = m]

-----------------------------------------------------------------------------
(* handleMessage, up to the dispatch *)

\* The entry is found under address and message ID, whatever the message says.
Replay(p) ==
  /\ p \in wire /\ p.hop < MaxHops
  /\ p.to \notin crashed
  /\ Deduplicated(p.msg)
  /\ \E x \in Entries(p) :
       /\ x.rsp # None
       /\ Sends(p, {x.rsp}, "replayed")
  /\ UNCHANGED <<dedup, cache, fetching, crashed>>

UploadBlock(m) == IsRequest(m) /\ m.block1 \notin {None, "only"}

StoreFirst(p) ==
  /\ Admitted(p) /\ UploadBlock(p.msg) /\ p.msg.block1 = "first"
  /\ CachePut(p.to, p.msg)
  /\ Ends(p, Continue(p.msg), "block1")
  /\ UNCHANGED <<fetching, crashed>>

AppendMiddle(p) ==
  /\ Admitted(p) /\ UploadBlock(p.msg) /\ p.msg.block1 = "middle"
  /\ cache[p.to] # None
  /\ Returned(p, Continue(p.msg), "block1")

\* Without its predecessors, or out of order.
RefuseBlock(p) ==
  /\ Admitted(p) /\ UploadBlock(p.msg) /\ p.msg.block1 # "first"
  /\ p.msg.block1 = "last" => cache[p.to] = None
  /\ Returned(p, Error(p.msg), "block1")

Reassembled(p) == UploadBlock(p.msg) => p.msg.block1 = "last" /\ cache[p.to] # None

\* handleAcknowledgement: p goes to a Send, which may be that of a retrieval among
\* these. It has the token of a request, so it was sent because of that. An empty one
\* would tell a retrieval to go on waiting.
Claimed(p, running) ==
  fetching' \in {running} \cup
    { (running \ {f}) \cup {[f EXCEPT !.block = [p EXCEPT !.blocks = @ + 1], !.waits = FALSE]} :
        f \in {f \in running : /\ f.waits /\ f.packet.to = p.to /\ p.hop = f.block.hop + 2
                               /\ p.msg.code # "empty"} }

AckClaimed(p) ==
  /\ Admitted(p) /\ p.msg.type = "ACK"
  /\ Ends(p, None, "claimed")
  /\ Claimed(p, fetching)
  /\ UNCHANGED <<cache, crashed>>

\* The number of a block of a reply is the one asked for.
Block2s(asked) == IF asked = "later" THEN {"later"} ELSE {"first", "only"}

\* The block of what is cached, with the type and code of that: a reply, or a
\* request whose upload is not complete.
CachedBlock(x, mid, b) ==
  [x EXCEPT !.mid = mid, !.block2 = b, !.block1 = IF b = "later" THEN None ELSE @]

ServeCached(p) ==
  LET m == p.msg IN
  /\ Admitted(p) /\ Reassembled(p)
  /\ IsRequest(m) /\ m.block2 # None /\ cache[p.to] # None
  /\ \E b \in Block2s(m.block2) :
       Returned(p, CachedBlock(cache[p.to], m.mid, b),
               IF IsRequest(cache[p.to]) THEN "half cached" ELSE "cached")

\* Past all of that; only a later block may lie beyond the end of what is cached.
Dispatched(p) ==
  /\ Admitted(p) /\ Reassembled(p)
  /\ IsRequest(p.msg) /\ p.msg.block2 \in {"first", "only"} => cache[p.to] = None

\* Whatever the dispatch returns gets the block1 option of the message handled.
Returns(m, replies) == {IF r = None THEN None ELSE [r EXCEPT !.block1 = m.block1] : r \in replies}

-----------------------------------------------------------------------------
(* handleNotify, for a message that is of this type by now: what it may return *)

HandleNotify(m, type) ==
  Returns(m, {Reset(m), IF type = "CON" THEN EmptyAck(m) ELSE None})

\* The reply of handleMessage to a response; rsp is what it holds before.
ReplyToResponse(m, rsp) ==
  IF m.type = "CON" /\ ~m.observe THEN Returns(m, {EmptyAck(m), rsp}) ELSE HandleNotify(m, m.type)

BigNotification(m) == m.code = "response" /\ m.block2 = "first"

\* A response, or what is not one but an acknowledgement.
Response(p) ==
  /\ Dispatched(p)
  /\ ~BigNotification(p.msg)
  /\ ~(IsRequest(p.msg) /\ Deduplicated(p.msg))
  /\ \E rsp \in ReplyToResponse(p.msg, None) :
       /\ Ends(p, rsp, IF rsp = None THEN "no waiter" ELSE "response")
       /\ IF rsp = None THEN Claimed(p, fetching) ELSE UNCHANGED fetching
  /\ UNCHANGED <<cache, crashed>>

-----------------------------------------------------------------------------
(* blockRetreive *)

\* The first block of a large notification: an empty ACK goes out ahead, through
\* send(), which replaces the ID 0 ...
EarlyAck(p) ==
  IF p.msg.mid = 0 THEN Message("ACK", "empty", FreshMid(p.hop)) ELSE EmptyAck(p.msg)

\* ... and if it cannot be written, that is only logged.
Retrieve(p) ==
  /\ Dispatched(p) /\ BigNotification(p.msg)
  /\ \E early \in {Sent(p, {EarlyAck(p)}, "early"), {}} :
       /\ wire' = (wire \ {p}) \cup early
       /\ fetching' = fetching \cup {[packet |-> p, block |-> p, sent |-> early, waits |-> FALSE]}
  /\ dedup' = IF Deduplicated(p.msg) THEN Entered(p, None) ELSE dedup
  /\ UNCHANGED <<last, cache, crashed>>

Runs(f)    == f.block.hop < MaxHops /\ f.packet.to \notin crashed
HasMore(m) == m.block2 \in {"first", "later"}

\* One request for each further block, after the block before.
NextBlockRequest(f) ==
  [Message("CON", "request", FreshMid(f.block.hop + 1)) EXCEPT !.block2 = "later"]

Ask(f) ==
  /\ Runs(f) /\ ~f.waits /\ HasMore(f.block.msg)
  /\ wire' = wire \cup Sent(f.block, {NextBlockRequest(f)}, "asked")
  /\ fetching' = (fetching \ {f}) \cup {[f EXCEPT !.waits = TRUE]}
  /\ UNCHANGED <<last, dedup, cache, crashed>>

\* The handler that was in blockRetreive ends with this reply.
Concludes(f, rsp, cause) ==
  LET reply == Sent(f.block, {rsp} \ {None}, cause) IN
  /\ wire' = wire \cup reply
  /\ last' = [packet |-> f.packet, sent |-> f.sent \cup reply, cause |-> cause]
  /\ dedup' = IF Deduplicated(f.packet.msg) THEN Saved(f.packet, rsp) ELSE dedup
  /\ IF rsp = None THEN Claimed(f.packet, fetching \ {f}) ELSE fetching' = fetching \ {f}
  /\ UNCHANGED <<cache, crashed>>

\* The message is a notification as an acknowledgement would be one.
Retrieved(f) ==
  /\ Runs(f) /\ ~f.waits /\ f.block # f.packet /\ f.block.msg.block2 # "first"
  /\ \E rsp \in HandleNotify(f.packet.msg, "ACK") :
       Concludes(f, rsp, IF f.sent = {} THEN "unacknowledged" ELSE "retrieved")

\* Fault: the failure is the end.
RetrievalGivesUp(f) ==
  /\ Runs(f) /\ (f.waits \/ HasMore(f.block.msg))
  /\ Concludes(f, None, "not retrieved")

\* There is no observation, or a request fails; the dispatch overrules the Reset made
\* for that, but where no one waits for a response.
RetrievalFails(f) ==
  /\ Runs(f) /\ (f.waits \/ HasMore(f.block.msg))
  /\ \E rsp \in ReplyToResponse(f.packet.msg, Reset(f.packet.msg)) :
       Concludes(f, rsp, "not retrieved")

-----------------------------------------------------------------------------
(* handleConfirmable *)

Request(p, code) == Dispatched(p) /\ Deduplicated(p.msg) /\ p.msg.code = code

\* A keepalive is rejected.
Keepalive(p) ==
  /\ Request(p, "empty")
  /\ \E rsp \in Returns(p.msg, {Reset(p.msg)}) : Returned(p, rsp, "keepalive")

\* The reply of a callback, or NotFound: with MakeReply an acknowledgement.
CallbackReply(m, observe, block2) ==
  [ type |-> IF m.type = "NON" THEN "NON" ELSE "ACK", code |-> "response", mid |-> m.mid,
    observe |-> observe, block1 |-> m.block1, block2 |-> block2 ]

Answer(p) ==
  /\ Request(p, "request")
  /\ \E observe \in BOOLEAN : Returned(p, CallbackReply(p.msg, observe, None), "answered")

\* A large reply goes into the cache, and its block out.
AnswerBlockwise(p) ==
  LET m == p.msg IN
  /\ Request(p, "request")
  /\ \E observe \in BOOLEAN, b \in Block2s(m.block2) :
       /\ CachePut(p.to, CallbackReply(m, observe, None))
       /\ Ends(p, CallbackReply(m, observe, b), "answered")
  /\ UNCHANGED <<fetching, crashed>>

\* The block asked for lies beyond the end.
BlockOverflow(p) ==
  /\ Request(p, "request") /\ p.msg.block2 = "later"
  /\ \E observe \in BOOLEAN : CachePut(p.to, CallbackReply(p.msg, observe, None))
  /\ Ends(p, Error(p.msg), "answered")
  /\ UNCHANGED <<fetching, crashed>>

\* A callback without a reply; rsp.Type of a non-confirmable one is dereferenced.
NilReply(p) ==
  /\ Request(p, "request")
  /\ Ends(p, None, "nil reply")
  /\ crashed' = IF p.msg.type = "NON" THEN crashed \cup {p.to} ELSE crashed
  /\ UNCHANGED <<cache, fetching>>

\* expireBlocks
Expire(e) ==
  /\ cache[e] # None
  /\ cache' = [cache EXCEPT ![e] = None]
  /\ UNCHANGED <<wire, last, dedup, fetching, crashed>>

Handle(p) ==
  \/ Replay(p)
  \/ StoreFirst(p) \/ AppendMiddle(p) \/ RefuseBlock(p)
  \/ AckClaimed(p) \/ ServeCached(p)
  \/ Response(p) \/ Retrieve(p)
  \/ Keepalive(p) \/ Answer(p) \/ AnswerBlockwise(p) \/ BlockOverflow(p) \/ NilReply(p)

Next ==
  \/ \E p \in wire : Handle(p)
  \/ \E f \in fetching : Ask(f) \/ Retrieved(f) \/ RetrievalFails(f)
  \/ \E e \in Endpoints : Expire(e)

Spec == Init /\ [][Next]_vars

-----------------------------------------------------------------------------
(* Properties *)

Causes  == {"replayed", "half cached"}
Packets == [msg : Messages, to : Endpoints, hop : 0 .. MaxHops, blocks : Nat, via : SUBSET Causes]
Fetches == [packet : Packets, block : Packets, sent : SUBSET Packets, waits : BOOLEAN]

\* Messages keep their form, whatever was copied from a message or out of the cache,
\* and no two entries of deduplication are for one ID.
TypeOK ==
  /\ wire \subseteq Packets
  /\ dedup \in [Endpoints -> SUBSET Replies]
  /\ cache \in [Endpoints -> Messages \cup {None}]
  /\ fetching \subseteq Fetches
  /\ \A e \in Endpoints : \A x, y \in dedup[e] : x.mid = y.mid => x = y

\* What one message sets off dies out after four more, and two more for each further
\* block that a retrieval has fetched, although both sides answer what they do not
\* expect with Resets, early acknowledgements and requests for blocks; unless
\* deduplication has taken a message for a copy of another one that went by its ID, or
\* half an upload has gone out as if it were a reply.
EchoEnds == \A p \in wire : p.hop > 4 + 2 * p.blocks => p.via # {}

Verdicts(x) == {q.msg : q \in {q \in x.sent : q.msg.type \in {"ACK", "RST"}}}

\* A confirmable message is acknowledged or rejected under its own ID, on every path
\* of the handler, failed retrievals included; but for a callback without a reply, a
\* response no one waits for, and a notification whose blocks are fetched although its
\* early acknowledgement has failed, or has got another ID than 0. A block out of the
\* cache has the ID, and the type of what was cached.
ConfirmableAnswered ==
  last # None /\ last.packet.msg.type = "CON" =>
    LET mid == last.packet.msg.mid IN
    \/ \E v \in Verdicts(last) : v.mid = mid
    \/ last.cause \in {"nil reply", "no waiter", "unacknowledged"}
    \/ last.cause = "retrieved" /\ mid = 0
    \/ last.cause \in {"cached", "half cached", "replayed"} /\ \E q \in last.sent : q.msg.mid = mid

\* (refuted) "duplicate message, cached response returned": a cached reply answers
\* a copy of the message it was made for.
ReplayAnswersCopy ==
  last # None /\ last.cause = "replayed" =>
    \E x \in Entries(last.packet) : x.of = last.packet.msg.code
=============================================================================
