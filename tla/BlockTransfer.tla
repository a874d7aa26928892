--------------------------- MODULE BlockTransfer ---------------------------
(***************************************************************************)
(* Block-wise transfer end to end: the two loops of Send (send.go) against *)
(* the block branches of handleMessage (handler.go) and the block cache.   *)
(*                                                                         *)
(* A Send is a sequence of calls (send()), each a message with an ID of    *)
(* its own.  The server handles each in a goroutine, twice when two copies *)
(* pass deduplication before either is recorded.  As Exchange shows, a     *)
(* call may be answered by the response to it or to an earlier call of the *)
(* same Send, and may fail at any moment.  A message that is not           *)
(* confirmable is sent without waiting.  All Sends use one cache key.      *)
(***************************************************************************)
EXTENDS BlockCache, FiniteSets

CONSTANTS
  Sends,       \* Send invocations
  Confirmable, \* those whose messages are confirmable
  Size,        \* Send -> the blocks of its body; 1: sent whole
  ReplySizes,  \* the blocks a callback's reply may have; 1: sent whole
  MaxCalls,    \* bound: calls of each Send
  MaxFaults    \* bound: copies that pass deduplication, and removals by the watcher

Calls    == UNION {{s} \X (1 .. MaxCalls[s]) : s \in Sends}
Handlers == Calls \X {1, 2}

Messages == [kind : {"plain", "block1", "block2"}, num : Nat, more : BOOLEAN]
Options  == [num : Nat, more : BOOLEAN]

ASSUME TransferAssumption ==
  /\ Confirmable \subseteq Sends
  /\ Size \in [Sends -> Nat \ {0}]
  /\ ReplySizes \subseteq Nat \ {0}
  /\ MaxCalls \in [Sends -> Nat] /\ MaxFaults \in Nat
  /\ None \notin Nat \cup Messages \cup Options

VARIABLES
  phase,     \* where each Send stands
  idx,       \* Send -> calls it has made
  num,       \* Send -> number of the block it sends or asks for
  data,      \* Send -> the pieces of the reply it has put together
  wire,      \* Call -> its message, None before it is sent
  responses, \* every response the server has written
  pc,        \* Handler -> where it stands, with its local variables
  runs,      \* the callback's executions: [send, call, body, size] (history)
  trouble,   \* Send -> the kinds of disturbance it met (history): a stale response, a
             \* copied message, a swept cache, others at work in the cache, blocks
             \* appended at the same time (raced) or to a reply (mixed)
  faults     \* counter for the bound

clientVars == <<phase, idx, num, data, wire>>
serverVars == <<responses, pc, runs>>
vars       == <<cacheVars, clientVars, serverVars, trouble, faults>>

-----------------------------------------------------------------------------
(* Messages *)

Plain        == [kind |-> "plain",  num |-> 0, more |-> FALSE]
Block1(s, n) == [kind |-> "block1", num |-> n, more |-> n < Size[s] - 1]
Block2(n)    == [kind |-> "block2", num |-> n, more |-> FALSE]

Piece(c)     == <<c[1], wire[c].num>>           \* the part of the body in a call
Body(s)      == [n \in 1 .. Size[s] |-> <<s, n - 1>>]
Reply(r, n)  == [k \in 1 .. n |-> <<r, k - 1>>] \* the reply of run r

Response(c, code, block1, block2, pieces) ==
  [to |-> c, code |-> code, block1 |-> block1, block2 |-> block2, pieces |-> pieces]
Continue(c) == Response(c, "continue", wire[c].num, None, <<>>)
\* MakeReply alone: no option of the request comes back.
Error(c)    == Response(c, "error", None, None, <<>>)

Begun(s)   == idx[s] > 0
Current(s) == <<s, idx[s]>>

Init ==
  /\ cache = None
  /\ entries = <<>>
  /\ phase = [s \in Sends |-> "idle"]
  /\ idx   = [s \in Sends |-> 0]
  /\ num   = [s \in Sends |-> 0]
  /\ data  = [s \in Sends |-> <<>>]
  /\ wire  = [c \in Calls |-> None]
  /\ responses = {}
  /\ pc = [h \in Handlers |-> [at |-> "none"]]
  /\ runs = <<>>
  /\ trouble = [s \in Sends |-> {}]
  /\ faults = 0

-----------------------------------------------------------------------------
(* Send *)

Call(s, m) ==
  /\ idx[s] < MaxCalls[s]
  /\ idx'  = [idx EXCEPT ![s] = @ + 1]
  /\ num'  = [num EXCEPT ![s] = m.num]
  /\ wire' = [wire EXCEPT ![<<s, idx[s] + 1>>] = m]

Ends(s, how) ==
  /\ phase' = [phase EXCEPT ![s] = how]
  /\ UNCHANGED <<idx, num, wire>>

Begin(s) ==
  /\ phase[s] = "idle"
  /\ Call(s, IF Size[s] = 1 THEN Plain ELSE Block1(s, 0))
  /\ phase' = [phase EXCEPT ![s] = IF Size[s] = 1 THEN "plain" ELSE "upload"]
  /\ UNCHANGED <<cacheVars, data, serverVars, trouble, faults>>

\* A response to the call that waits, or a late copy of one to an earlier call.
Takes(s, r) ==
  /\ s \in Confirmable
  /\ r \in responses
  /\ r.to[1] = s
  /\ trouble' = [trouble EXCEPT ![s] = IF r.to = Current(s) THEN @ ELSE @ \cup {"stale"}]
  /\ UNCHANGED <<cacheVars, serverVars, faults>>

\* The reply to the whole request is here: its first block, or all of it.
Replied(s, r) ==
  /\ data' = [data EXCEPT ![s] = r.pieces]
  /\ IF r.block2 # None /\ r.block2.more
     THEN Call(s, Block2(1)) /\ phase' = [phase EXCEPT ![s] = "download"]
     ELSE Ends(s, "done")

PlainAnswered(s, r) ==
  /\ phase[s] = "plain"
  /\ Takes(s, r)
  /\ Replied(s, r)

\* The final block is accepted with any code; the others only with Continue.
BlockRefused(s, r) ==
  /\ phase[s] = "upload"
  /\ (wire[Current(s)].more /\ r.code # "continue") \/ r.block1 = None
  /\ Takes(s, r)
  /\ Ends(s, "refused")
  /\ UNCHANGED data

\* The next number follows the one in the response.
BlockAccepted(s, r) ==
  /\ phase[s] = "upload"
  /\ wire[Current(s)].more /\ r.code = "continue" /\ r.block1 # None
  /\ Takes(s, r)
  /\ Call(s, Block1(s, r.block1 + 1))
  /\ UNCHANGED <<phase, data>>

LastBlockAccepted(s, r) ==
  /\ phase[s] = "upload"
  /\ ~wire[Current(s)].more /\ r.block1 # None
  /\ Takes(s, r)
  /\ Replied(s, r)

\* The loop counts by itself and appends whatever comes.
NextBlock(s, r) ==
  /\ phase[s] = "download"
  /\ r.block2 # None
  /\ Takes(s, r)
  /\ data' = [data EXCEPT ![s] = @ \o r.pieces]
  /\ IF r.block2.more THEN Call(s, Block2(num[s] + 1)) /\ UNCHANGED phase ELSE Ends(s, "done")

\* block2 is nil and is dereferenced: the program panics.
NextBlockMissing(s, r) ==
  /\ phase[s] = "download"
  /\ r.block2 = None
  /\ Takes(s, r)
  /\ Ends(s, "crashed")
  /\ UNCHANGED data

\* send() ends in an error.
CallFails(s) ==
  /\ phase[s] \in {"plain", "upload", "download"}
  /\ Ends(s, "failed")
  /\ UNCHANGED <<cacheVars, data, serverVars, trouble, faults>>

\* send() of a message that is not confirmable returns at once, without a response and
\* without an error. A message sent whole is done with that; behind the first block
\* the response is dereferenced, and the program panics.
NotAwaited(s) ==
  /\ s \notin Confirmable
  /\ phase[s] \in {"plain", "upload"}
  /\ Ends(s, IF phase[s] = "plain" THEN "unanswered" ELSE "crashed")
  /\ UNCHANGED <<cacheVars, data, serverVars, trouble, faults>>

-----------------------------------------------------------------------------
(* handleMessage *)

Goes(h, state) == pc' = [pc EXCEPT ![h] = state]

Answers(h, r) ==
  /\ responses' = responses \cup {r}
  /\ Goes(h, [at |-> "done"])

\* A handler of c changes the cache: that disturbs every other Send under way, and
\* its own in the ways given.
Disturbs(c, kinds) ==
  trouble' = [s \in Sends |-> trouble[s] \cup
    (IF s = c[1] THEN kinds ELSE IF Begun(s) THEN kinds \cup {"others"} ELSE {})]

\* deduplicate(): a second copy passes when both looked before either recorded.
AdmitCopy(c) ==
  /\ faults < MaxFaults
  /\ wire[c] # None /\ pc[<<c, 1>>].at = "none"
  /\ pc' = [pc EXCEPT ![<<c, 1>>] = [at |-> "admitted"], ![<<c, 2>>] = [at |-> "admitted"]]
  /\ faults' = faults + 1
  /\ trouble' = [trouble EXCEPT ![c[1]] = @ \cup {"copied"}]
  /\ UNCHANGED <<cacheVars, clientVars, responses, runs>>

\* A copy without a rival is admitted and goes on at once: what delays it may as
\* well be the network.
Starts(h, kind) ==
  /\ pc[h].at = "admitted" \/ (pc[h].at = "none" /\ h[2] = 1)
  /\ wire[h[1]] # None /\ wire[h[1]].kind = kind

\* The first block of an upload.
StoreFirst(h) ==
  LET c == h[1] IN
  /\ Starts(h, "block1") /\ wire[c].num = 0
  /\ Put("request", <<Piece(c)>>, None)
  /\ Disturbs(c, {})
  /\ Answers(h, Continue(c))
  /\ UNCHANGED <<clientVars, runs, faults>>

\* A middle block, if it is the next: the entry and its payload are read, ...
LoadForAppend(h) ==
  LET c == h[1] IN
  /\ Starts(h, "block1") /\ wire[c].num > 0 /\ wire[c].more
  /\ Appends(wire[c].num)
  /\ Goes(h, [at |-> "loaded", entry |-> cache, read |-> entries[cache].pieces])
  /\ UNCHANGED <<cacheVars, clientVars, responses, runs, trouble, faults>>

\* ... and written.
AppendMiddle(h) ==
  LET c == h[1]
      e == pc[h].entry
  IN
  /\ pc[h].at = "loaded"
  /\ AppendPiece(e, wire[c].num, pc[h].read, Piece(c))
  /\ Disturbs(c, (IF entries[e].pieces # pc[h].read THEN {"raced"} ELSE {})
                 \cup (IF entries[e].kind = "reply" THEN {"mixed"} ELSE {}))
  /\ Answers(h, Continue(c))
  /\ UNCHANGED <<clientVars, runs, faults>>

\* The last block, whatever its number: with the body in the cache it is run.
Reassemble(h) ==
  LET c == h[1] IN
  /\ Starts(h, "block1") /\ wire[c].num > 0 /\ ~wire[c].more
  /\ cache # None
  /\ Goes(h, [at |-> "ready", body |-> Assembled(Piece(c))])
  /\ UNCHANGED <<cacheVars, clientVars, responses, runs, trouble, faults>>

\* A block without its predecessors.
RefuseBlock(h) ==
  LET c == h[1] IN
  /\ Starts(h, "block1") /\ wire[c].num > 0
  /\ IF wire[c].more THEN ~Appends(wire[c].num) ELSE cache = None
  /\ Answers(h, Error(c))
  /\ UNCHANGED <<cacheVars, clientVars, runs, trouble, faults>>

\* A request for a block of a reply is served from what is in the cache. A cached
\* request goes out as a request, in which the client sees no answer.
ServeCached(h) ==
  LET c == h[1]
      b == Block(wire[c].num)
      r == Response(c, "ok", b.block1, b.block2, b.pieces)
  IN
  /\ Starts(h, "block2") /\ Holds(wire[c].num)
  /\ responses' = IF entries[cache].kind = "reply" THEN responses \cup {r} ELSE responses
  /\ Goes(h, [at |-> "done"])
  /\ UNCHANGED <<cacheVars, clientVars, runs, trouble, faults>>

\* Fault: the reply lacks the block1 option of the request.
ReplyBlock1Never(c) == None

ReplyBlock1(c) == IF wire[c].kind = "block1" THEN wire[c].num ELSE None

\* The callback has run. A reply that fits goes out with the block1 option of the
\* request; one that does not is cached, ...
Run(h, body) ==
  \E n \in ReplySizes :
    LET c == h[1]
        r == Len(runs) + 1
    IN
    /\ runs' = Append(runs, [send |-> c[1], call |-> c, body |-> body, size |-> n])
    /\ IF n = 1
       THEN /\ Answers(h, Response(c, "ok", ReplyBlock1(c), None, Reply(r, 1)))
            /\ UNCHANGED <<cacheVars, trouble>>
       ELSE /\ Put("reply", Reply(r, n), ReplyBlock1(c))
            /\ Disturbs(c, {})
            /\ Goes(h, [at |-> "stored"])
            /\ UNCHANGED responses
    /\ UNCHANGED <<clientVars, faults>>

\* A request sent whole, and one reassembled.
RunPlain(h) == Starts(h, "plain") /\ Run(h, <<Piece(h[1])>>)
RunReady(h) == pc[h].at = "ready" /\ Run(h, pc[h].body)

\* A block that is not in the cache: the route is asked, with an empty body.
RunAgain(h) ==
  /\ Starts(h, "block2") /\ Lacks(wire[h[1]].num)
  /\ Run(h, <<>>)

\* ... and the block asked for, or the first, is then looked up there.
ServeStored(h) ==
  LET c == h[1]
      n == IF wire[c].kind = "block2" THEN wire[c].num ELSE 0
      b == Block(n)
  IN
  /\ pc[h].at = "stored"
  /\ \/ Lacks(n) /\ Answers(h, Error(c))
     \/ /\ Holds(n) /\ entries[cache].kind = "reply"
        /\ Answers(h, Response(c, "ok", b.block1, b.block2, b.pieces))
     \/ /\ Holds(n) /\ entries[cache].kind = "request"
        /\ Goes(h, [at |-> "done"]) /\ UNCHANGED responses
  /\ UNCHANGED <<cacheVars, clientVars, runs, trouble, faults>>

Watch ==
  /\ faults < MaxFaults
  /\ Sweep
  /\ faults' = faults + 1
  /\ trouble' = [s \in Sends |-> IF Begun(s) THEN trouble[s] \cup {"swept"} ELSE trouble[s]]
  /\ UNCHANGED <<clientVars, serverVars>>

-----------------------------------------------------------------------------
Client(s) ==
  \/ Begin(s) \/ CallFails(s) \/ NotAwaited(s)
  \/ \E r \in responses :
       \/ PlainAnswered(s, r) \/ BlockRefused(s, r) \/ BlockAccepted(s, r)
       \/ LastBlockAccepted(s, r) \/ NextBlock(s, r) \/ NextBlockMissing(s, r)

Handler(h) ==
  \/ StoreFirst(h) \/ LoadForAppend(h) \/ AppendMiddle(h) \/ Reassemble(h)
  \/ RefuseBlock(h) \/ ServeCached(h) \/ RunPlain(h) \/ RunReady(h) \/ RunAgain(h)
  \/ ServeStored(h)

Next ==
  \/ \E s \in Sends : Client(s)
  \/ \E c \in Calls : AdmitCopy(c)
  \/ \E h \in Handlers : Handler(h)
  \/ Watch

Spec == Init /\ [][Next]_vars

-----------------------------------------------------------------------------
(* Properties *)

RunsOf(s) == {i \in DOMAIN runs : runs[i].send = s}

Phases    == {"idle", "plain", "upload", "download", "done", "refused", "crashed", "failed", "unanswered"}
Kinds     == {"stale", "copied", "swept", "others", "raced", "mixed"}
Pieces    == (Sends \cup Nat) \X Nat
Entries   == [kind : {"request", "reply"}, pieces : Seq(Pieces), last : Nat, block1 : Nat \cup {None}]
Responses == [ to : Calls, code : {"continue", "error", "ok"}, block1 : Nat \cup {None},
               block2 : Options \cup {None}, pieces : Seq(Pieces) ]
States    == [at : {"none", "admitted", "stored", "done"}]
               \cup [at : {"loaded"}, entry : Nat, read : Seq(Pieces)]
               \cup [at : {"ready"}, body : Seq(Pieces)]
Executed  == [send : Sends, call : Calls, body : Seq(Pieces), size : ReplySizes]

\* Messages, entries and handlers keep their form, counters stay within their bounds,
\* and pointers lead somewhere.
TypeOK ==
  /\ entries \in Seq(Entries) /\ cache \in DOMAIN entries \cup {None}
  /\ phase \in [Sends -> Phases]
  /\ idx \in [Sends -> Nat] /\ num \in [Sends -> Nat]
  /\ \A s \in Sends : idx[s] <= MaxCalls[s] /\ num[s] <= MaxCalls[s]
  /\ data \in [Sends -> Seq(Pieces)]
  /\ wire \in [Calls -> Messages \cup {None}]
  /\ responses \subseteq Responses
  /\ pc \in [Handlers -> States]
  /\ \A h \in Handlers : pc[h].at = "loaded" => pc[h].entry \in DOMAIN entries
  /\ runs \in Seq(Executed)
  /\ trouble \in [Sends -> SUBSET Kinds]
  /\ faults \in 0 .. MaxFaults

\* The callback gets a body in blocks whole and in order, although the last block
\* is taken whatever its number, and whatever calls are answered late, repeated,
\* lost, or find the cache swept: unless copies of one block pass deduplication,
\* a block sent again after a late response is appended at the same time as its
\* first sending, or another Send uses the same key.
UploadWhole ==
  \A i \in DOMAIN runs :
    LET s == runs[i].send IN
    wire[runs[i].call].kind = "block1" /\ trouble[s] \cap {"copied", "raced", "others"} = {} =>
      runs[i].body = Body(s)

\* Send puts the blocks of a reply together without a look at their numbers. With
\* no late response among them they are in order and without gaps, although
\* sweeps, copies and other Sends may make them blocks of different replies:
\* unless a delayed middle block of an upload has been appended to the reply.
DownloadInOrder ==
  \A s \in Sends :
    trouble[s] \cap {"stale", "mixed"} = {} => \A k \in DOMAIN data[s] : data[s][k][2] = k - 1

\* The callback runs twice for one Send only if copies pass deduplication, or the
\* blocks of its reply are swept or replaced before they are asked for, or a late
\* response makes the client ask for a block beyond the end.
RunsOnce == \A s \in Sends : trouble[s] = {} => Cardinality(RunsOf(s)) <= 1

\* An undisturbed confirmable Send is never refused and never panics, and when it
\* returns the callback has run on the whole body and the whole reply is here. One that
\* is not confirmable gets no response to rely on, and panics if it goes in blocks.
UndisturbedSucceeds ==
  \A s \in Confirmable :
    trouble[s] = {} =>
      /\ phase[s] \notin {"refused", "crashed", "unanswered"}
      /\ phase[s] = "done" =>
           \E i \in RunsOf(s) : runs[i].body = Body(s) /\ data[s] = Reply(i, runs[i].size)
=============================================================================
