------------------------ MODULE BlockTransferProofs ------------------------
(***************************************************************************)
(* Proofs about block-wise transfer: for any number of Sends, any sizes of *)
(* bodies and replies, and any number of calls, copies and sweeps.         *)
(***************************************************************************)
EXTENDS BlockTransfer, FiniteSetTheorems, TLAPS

-----------------------------------------------------------------------------
(* What the safety properties rest on: with them, an invariant that every step *)
(* preserves.                                                                   *)

Sent(c)   == wire[c] # None
IsLast(c) == wire[c].kind = "block1" /\ ~wire[c].more

\* The calls of a Send are numbered, blocks are of its body, one follows when the server
\* has accepted the one before it, and blocks of a reply are asked for once a response
\* has had one.
WireSound ==
  \A c \in Calls :
    LET s == c[1]
        m == wire[c]
    IN
    /\ Sent(c) <=> c[2] <= idx[s]
    /\ Sent(c) =>
         /\ m.num < c[2]
         /\ m.kind = "plain" => m.num = 0 /\ Size[s] = 1
         /\ m.kind = "block1" =>
              /\ Size[s] > 1 /\ m.num < Size[s]
              /\ m.more <=> m.num < Size[s] - 1
              /\ IF m.num = 0
                 THEN c[2] = 1
                 ELSE \E r \in responses :
                        r.to[1] = s /\ r.code = "continue" /\ r.block1 = m.num - 1
         /\ m.kind = "block2" => \E r \in responses : r.to[1] = s /\ r.block2 # None

PhaseSound ==
  \A s \in Sends :
    /\ phase[s] = "idle" <=> ~Begun(s)
    /\ num[s] = IF Begun(s) THEN wire[Current(s)].num ELSE 0
    /\ phase[s] = "plain"    => wire[Current(s)].kind = "plain"
    /\ phase[s] = "upload"   => wire[Current(s)].kind = "block1"
    /\ phase[s] = "download" => wire[Current(s)].kind = "block2"

\* Handlers, responses and runs are of calls that were made, and where a handler
\* stands goes with what it handles.
ServerSound ==
  /\ \A h \in Handlers :
       /\ pc[h].at # "none"  => Sent(h[1])
       /\ pc[h].at = "loaded" => wire[h[1]].kind = "block1" /\ wire[h[1]].more /\ wire[h[1]].num > 0
       /\ pc[h].at = "ready"  => IsLast(h[1])
  /\ \A r \in responses :
       /\ Sent(r.to)
       /\ r.code = "continue" =>
            wire[r.to].kind = "block1" /\ wire[r.to].more /\ r.block1 = wire[r.to].num
  /\ \A i \in DOMAIN runs : Sent(runs[i].call) /\ runs[i].call[1] = runs[i].send

Sound == WireSound /\ PhaseSound /\ ServerSound

(* For DownloadInOrder *)

InPlace(pieces) == \A k \in DOMAIN pieces : pieces[k][2] = k - 1

\* A reply to s has been in the cache.
Cached(s) ==
  \/ \E h \in Handlers : h[1][1] = s /\ pc[h].at = "stored"
  \/ \E r \in responses : r.to[1] = s /\ r.block2 # None

\* Once its own was there, a Send finds only replies in the cache that are as they were
\* put there; what was mixed before it began has been replaced.
RepliesInPlace ==
  \A s \in Sends :
    Cached(s) /\ "mixed" \notin trouble[s] =>
      (cache # None /\ entries[cache].kind = "reply" => InPlace(entries[cache].pieces))

\* A response has at most one piece: of a block, the one asked for or the first.
ResponsesInPlace ==
  \A r \in responses :
    "mixed" \notin trouble[r.to[1]] =>
      /\ \A k \in DOMAIN r.pieces :
           k = 1 /\ r.pieces[k][2] =
             IF wire[r.to].kind = "block2" /\ r.block2 # None THEN wire[r.to].num ELSE 0
      /\ r.block2 # None /\ r.block2.more => Len(r.pieces) = 1

DataInPlace ==
  \A s \in Sends :
    trouble[s] \cap {"stale", "mixed"} = {} =>
      InPlace(data[s]) /\ (phase[s] = "download" => Len(data[s]) = num[s])

(* For UploadWhole *)

Calm(s) == trouble[s] \cap {"copied", "raced", "others"} = {}

\* No block follows the last one.
BlocksInOrder ==
  \A c, d \in Calls :
    Sent(c) /\ Sent(d) /\ c[1] = d[1] /\ c[2] < d[2] /\ IsLast(c) => wire[d].kind # "block1"

OneHandler ==
  \A h \in Handlers :
    "copied" \notin trouble[h[1][1]] => pc[h].at # "admitted" /\ (h[2] = 2 => pc[h].at = "none")

LastStarted(s) ==
  \E c \in Calls : c[1] = s /\ Sent(c) /\ IsLast(c) /\ pc[<<c, 1>>].at # "none"

\* What is fetched or asked for in blocks is the reply to the whole.
CachedAfterLast == \A s \in Sends : Size[s] > 1 /\ Calm(s) /\ Cached(s) => LastStarted(s)

\* Entry e holds the blocks of the body up to its last, and whatever the server has
\* accepted; no handler works on another request, and until the last block comes there
\* is no other entry.
Uploads(s, e) ==
  /\ entries[e].kind = "request"
  /\ entries[e].last < Size[s] - 1
  /\ Len(entries[e].pieces) = entries[e].last + 1
  /\ \A k \in DOMAIN entries[e].pieces : entries[e].pieces[k] = <<s, k - 1>>
  /\ \A r \in responses : r.to[1] = s /\ r.code = "continue" => r.block1 <= entries[e].last
  /\ \A h \in Handlers :
       h[1][1] = s /\ pc[h].at = "loaded" =>
         \/ /\ pc[h].entry = e
            /\ Len(pc[h].read) = wire[h[1]].num
            /\ \A k \in DOMAIN pc[h].read : pc[h].read[k] = <<s, k - 1>>
         \/ entries[pc[h].entry].kind = "reply" /\ LastStarted(s)
  /\ cache # None => cache = e \/ (entries[cache].kind = "reply" /\ LastStarted(s))

UploadKept ==
  \A s \in Sends :
    Calm(s) /\ (\E r \in responses : r.to[1] = s /\ r.code = "continue") =>
      /\ pc[<<<<s, 1>>, 1>>].at = "done"
      /\ \E e \in DOMAIN entries : Uploads(s, e)

BodiesWhole ==
  \A h \in Handlers : pc[h].at = "ready" /\ Calm(h[1][1]) => pc[h].body = Body(h[1][1])

(* For RunsOnce and UndisturbedSucceeds: what an undisturbed Send does, call by call *)

Quiet(s) == Begun(s) /\ trouble[s] = {}

At(s, i) == pc[<<<<s, i>>, 1>>].at

\* Call i: a block of the body, or one of the reply.
Planned(s, i) ==
  IF i > Size[s] THEN Block2(i - Size[s]) ELSE IF Size[s] = 1 THEN Plain ELSE Block1(s, i - 1)

\* The call that brings the last of the body has been handled.
HasRun(s) == idx[s] >= Size[s] /\ At(s, Size[s]) \in {"stored", "done"}

\* One call after the other, each as planned and answered before the next.
CallsInLine ==
  \A s \in Sends :
    /\ ~Begun(s) => data[s] = <<>>
    /\ Quiet(s) =>
         /\ \A i \in 1 .. idx[s] :
              /\ wire[<<s, i>>] = Planned(s, i)
              /\ i < idx[s] => At(s, i) = "done"
              /\ At(s, i) = "stored" => i = Size[s]
         /\ \A r \in responses : r.to[1] = s =>
              At(s, r.to[2]) = "done" /\ (r.to[2] < Size[s] => r.code = "continue")

\* What a Send may come to without any disturbance.
Halts(s) == {"failed"} \cup (IF s \in Confirmable THEN {} ELSE {"unanswered", "crashed"})

\* Until the callback runs, the cache holds the blocks of the calls handled so far.
BodyInLine ==
  \A s \in Sends :
    Quiet(s) /\ ~HasRun(s) =>
      LET handled == IF At(s, idx[s]) = "done" THEN idx[s] ELSE idx[s] - 1 IN
      /\ handled > 0 =>
           /\ cache # None /\ entries[cache].kind = "request" /\ entries[cache].last = handled - 1
           /\ At(s, idx[s]) = "loaded" => pc[<<Current(s), 1>>].entry = cache
      /\ RunsOf(s) = {}
      /\ \A r \in responses : r.to[1] = s => r.to[2] < Size[s]
      /\ data[s] = <<>> /\ phase[s] \in {"plain", "upload"} \cup Halts(s)

\* Run i is the one of s: its reply is in the cache unless it went out whole, the
\* responses are of it, and so is what the client has put together.
Fulfils(s, i) ==
  LET size == runs[i].size IN
  /\ RunsOf(s) = {i} /\ runs[i].body = Body(s)
  /\ IF size = 1
     THEN idx[s] = Size[s] /\ At(s, idx[s]) = "done"
     ELSE /\ idx[s] - Size[s] < size
          /\ cache # None
          /\ entries[cache].kind = "reply" /\ entries[cache].pieces = Reply(i, size)
          /\ Size[s] > 1 => entries[cache].block1 # None
  /\ \A r \in responses :
       r.to[1] = s /\ r.to[2] >= Size[s] =>
         LET m == r.to[2] - Size[s] IN
         /\ r.code = "ok" /\ r.pieces = <<<<i, m>>>>
         /\ r.block2 = IF size = 1 THEN None ELSE [num |-> m, more |-> m + 1 < size]
         /\ m = 0 /\ Size[s] > 1 => r.block1 # None
  /\ \A k \in DOMAIN data[s] : data[s][k] = <<i, k - 1>>
  /\ phase[s] \in {"refused", "crashed", "unanswered"} => phase[s] \in Halts(s)
  /\ phase[s] = "download" => idx[s] > Size[s] /\ Len(data[s]) = idx[s] - Size[s]
  /\ phase[s] = "done" => Len(data[s]) = size

ReplyInLine ==
  \A s \in Sends : Quiet(s) /\ HasRun(s) => \E i \in DOMAIN runs : Fulfils(s, i)

Inductive ==
  /\ TypeOK /\ Sound /\ CallsInLine /\ BodyInLine /\ ReplyInLine
  /\ RepliesInPlace /\ ResponsesInPlace /\ DataInPlace
  /\ BlocksInOrder /\ OneHandler /\ CachedAfterLast /\ UploadKept /\ BodiesWhole /\ UploadWhole

-----------------------------------------------------------------------------
(* Calls, and what the operators on messages return *)

LEMMA CallForm ==
  ASSUME NEW c \in Calls
  PROVE  c[1] \in Sends /\ c[2] \in 1 .. MaxCalls[c[1]] /\ c = <<c[1], c[2]>>
BY DEF Calls

LEMMA CallOf ==
  ASSUME NEW s \in Sends, NEW i \in 1 .. MaxCalls[s]
  PROVE  <<s, i>> \in Calls
BY DEF Calls

LEMMA HandlerForm ==
  ASSUME NEW h \in Handlers
  PROVE  h[1] \in Calls /\ h[2] \in {1, 2} /\ h = <<h[1], h[2]>>
BY DEF Handlers

LEMMA HandlerOf ==
  ASSUME NEW c \in Calls, NEW n \in {1, 2}
  PROVE  <<c, n>> \in Handlers
BY DEF Handlers

LEMMA SizeForm ==
  ASSUME NEW s \in Sends
  PROVE  Size[s] \in Nat /\ Size[s] > 0 /\ MaxCalls[s] \in Nat
BY TransferAssumption DEF TransferAssumption

LEMMA NoneForm == None \notin Nat /\ None \notin Messages /\ None \notin Options
BY TransferAssumption DEF TransferAssumption

LEMMA MessageForm ==
  ASSUME NEW s \in Sends, NEW n \in Nat
  PROVE  Plain \in Messages /\ Block1(s, n) \in Messages /\ Block2(n) \in Messages
<1>1. (n < Size[s] - 1) \in BOOLEAN
  BY SizeForm
<1> QED  BY <1>1 DEF Plain, Block1, Block2, Messages

LEMMA PieceForm ==
  ASSUME TypeOK, NEW c \in Calls, wire[c] # None
  PROVE  wire[c] \in Messages /\ Piece(c) \in Pieces
<1>1. wire[c] \in Messages
  BY DEF TypeOK
<1>2. wire[c].num \in Nat /\ c[1] \in Sends
  BY <1>1, CallForm DEF Messages
<1> QED  BY <1>1, <1>2 DEF Piece, Pieces

LEMMA ReplyForm ==
  ASSUME NEW r \in Nat, NEW n \in Nat
  PROVE  /\ Reply(r, n) \in Seq(Pieces) /\ Len(Reply(r, n)) = n
         /\ \A k \in 1 .. n : Reply(r, n)[k] = <<r, k - 1>>
<1>1. \A k \in 1 .. n : <<r, k - 1>> \in Pieces
  BY DEF Pieces
<1> QED  BY <1>1 DEF Reply

LEMMA BodyForm ==
  ASSUME NEW s \in Sends
  PROVE  /\ Body(s) \in Seq(Pieces) /\ Len(Body(s)) = Size[s]
         /\ \A k \in 1 .. Size[s] : Body(s)[k] = <<s, k - 1>>
<1>1. \A k \in 1 .. Size[s] : <<s, k - 1>> \in Pieces
  BY SizeForm DEF Pieces
<1> QED  BY <1>1, SizeForm DEF Body

LEMMA ResponseForm ==
  ASSUME NEW c \in Calls, NEW code \in {"continue", "error", "ok"},
         NEW block1 \in Nat \cup {None}, NEW block2 \in Options \cup {None},
         NEW pieces \in Seq(Pieces)
  PROVE  Response(c, code, block1, block2, pieces) \in Responses
BY DEF Response, Responses

LEMMA ShortResponseForm ==
  ASSUME TypeOK, NEW c \in Calls, wire[c] # None
  PROVE  Continue(c) \in Responses /\ Error(c) \in Responses
<1>1. wire[c].num \in Nat
  BY PieceForm DEF Messages
<1>2. <<>> \in Seq(Pieces)
  OBVIOUS
<1> QED  BY <1>1, <1>2, ResponseForm DEF Continue, Error

\* Block num of the entry in the cache.
LEMMA BlockForm ==
  ASSUME TypeOK, NEW n \in Nat, Holds(n)
  PROVE  /\ cache \in DOMAIN entries /\ entries[cache] \in Entries
         /\ Block(n).block1 \in Nat \cup {None}
         /\ Block(n).block2 \in Options
         /\ Block(n).pieces \in Seq(Pieces)
         /\ Block(n).block2.more <=> n + 1 < Len(entries[cache].pieces)
         /\ IF n < Len(entries[cache].pieces)
            THEN Len(Block(n).pieces) = 1 /\ Block(n).pieces[1] = entries[cache].pieces[n + 1]
            ELSE Block(n).pieces = <<>>
<1> DEFINE e == entries[cache]
           len == Len(e.pieces)
<1>1. cache \in DOMAIN entries /\ e \in Entries
  BY DEF TypeOK, Holds
<1>2. e.pieces \in Seq(Pieces) /\ e.block1 \in Nat \cup {None}
  BY <1>1 DEF Entries
<1>3. len \in Nat /\ (n + 1 < len) \in BOOLEAN
  <2>1. len \in Nat
    BY <1>2
  <2> HIDE DEF len
  <2> QED  BY <2>1
<1>4. Block(n) = [ pieces |-> IF n < len THEN <<e.pieces[n + 1]>> ELSE <<>>,
                   block1 |-> IF n = 0 THEN e.block1 ELSE None,
                   block2 |-> [num |-> n, more |-> n + 1 < len] ]
  BY DEF Block
<1>5. n < len => e.pieces[n + 1] \in Pieces
  BY <1>2, <1>3
<1> HIDE DEF e, len
<1>6. /\ Block(n).block2 \in Options
      /\ Block(n).block2.more <=> n + 1 < len
  <2>1. Block(n).block2 = [num |-> n, more |-> n + 1 < len]
    BY <1>4
  <2>2. [num |-> n, more |-> n + 1 < len] \in Options
    BY <1>3 DEF Options
  <2>3. [num |-> n, more |-> n + 1 < len].more <=> n + 1 < len
    BY <1>3, Zenon
  <2> QED  BY <2>1, <2>2, <2>3
<1>7. Block(n).block1 \in Nat \cup {None}
  BY <1>2, <1>4
<1>8. /\ Block(n).pieces \in Seq(Pieces)
      /\ IF n < len
         THEN Len(Block(n).pieces) = 1 /\ Block(n).pieces[1] = e.pieces[n + 1]
         ELSE Block(n).pieces = <<>>
  BY <1>4, <1>5
<1> QED  BY <1>1, <1>6, <1>7, <1>8 DEF e, len

-----------------------------------------------------------------------------
(* Types *)

ClientTyped ==
  /\ phase \in [Sends -> Phases]
  /\ idx \in [Sends -> Nat] /\ num \in [Sends -> Nat]
  /\ \A s \in Sends : idx[s] <= MaxCalls[s] /\ num[s] <= MaxCalls[s]
  /\ data \in [Sends -> Seq(Pieces)]
  /\ wire \in [Calls -> Messages \cup {None}]

CacheTyped == entries \in Seq(Entries) /\ cache \in DOMAIN entries \cup {None}

ServerTyped ==
  /\ responses \subseteq Responses
  /\ pc \in [Handlers -> States]
  /\ \A h \in Handlers : pc[h].at = "loaded" => pc[h].entry \in DOMAIN entries
  /\ runs \in Seq(Executed)

HistoryTyped == trouble \in [Sends -> SUBSET Kinds] /\ faults \in 0 .. MaxFaults

LEMMA TypeParts == TypeOK <=> ClientTyped /\ CacheTyped /\ ServerTyped /\ HistoryTyped
BY Zenon DEF TypeOK, ClientTyped, CacheTyped, ServerTyped, HistoryTyped

\* Another call of a Send.
LEMMA CallTyped ==
  ASSUME ClientTyped, NEW s \in Sends, NEW m \in Messages, m.num <= idx[s], Call(s, m),
         phase' \in [Sends -> Phases], data' \in [Sends -> Seq(Pieces)]
  PROVE  ClientTyped'
<1>1. /\ idx[s] \in Nat /\ idx[s] + 1 \in 1 .. MaxCalls[s] /\ MaxCalls[s] \in Nat
      /\ m.num \in Nat /\ m.num <= MaxCalls[s]
  BY SizeForm DEF ClientTyped, Call, Messages
<1>2. idx' = [idx EXCEPT ![s] = idx[s] + 1] /\ num' = [num EXCEPT ![s] = m.num]
      /\ wire' = [wire EXCEPT ![<<s, idx[s] + 1>>] = m]
  BY DEF Call
<1>3. idx' \in [Sends -> Nat] /\ num' \in [Sends -> Nat]
  BY <1>1, <1>2 DEF ClientTyped
<1>4. \A x \in Sends : idx'[x] <= MaxCalls[x] /\ num'[x] <= MaxCalls[x]
  BY <1>1, <1>2 DEF ClientTyped
<1>5. wire' \in [Calls -> Messages \cup {None}]
  BY <1>2 DEF ClientTyped
<1> QED  BY <1>3, <1>4, <1>5 DEF ClientTyped

LEMMA EndsTyped ==
  ASSUME ClientTyped, NEW s \in Sends, NEW how \in Phases, Ends(s, how),
         data' \in [Sends -> Seq(Pieces)]
  PROVE  ClientTyped'
<1>1. phase' = [phase EXCEPT ![s] = how] /\ idx' = idx /\ num' = num /\ wire' = wire
  BY DEF Ends
<1>2. phase' \in [Sends -> Phases]
  BY <1>1 DEF ClientTyped
<1> QED  BY <1>1, <1>2 DEF ClientTyped

\* Where a Send stands, its number is below its calls.
LEMMA NumBelow ==
  ASSUME ClientTyped, WireSound, PhaseSound, NEW s \in Sends, Begun(s)
  PROVE  /\ Current(s) \in Calls /\ Sent(Current(s)) /\ num[s] = wire[Current(s)].num
         /\ num[s] < idx[s]
<1>1. idx[s] \in 1 .. MaxCalls[s]
  BY SizeForm DEF ClientTyped, Begun
<1>2. Current(s) \in Calls /\ Current(s)[1] = s /\ Current(s)[2] = idx[s]
  BY <1>1, CallOf DEF Current
<1>3. num[s] = wire[Current(s)].num
  BY DEF PhaseSound
<1>4. Sent(Current(s))
  BY <1>1, <1>2 DEF WireSound
<1>5. wire[Current(s)].num < Current(s)[2]
  BY <1>2, <1>4 DEF WireSound
<1> QED  BY <1>2, <1>3, <1>4, <1>5

\* The number in a Continue is that of a call before.
LEMMA ContinueBelow ==
  ASSUME ClientTyped, ServerTyped, WireSound, ServerSound,
         NEW s \in Sends, NEW r \in responses, r.to[1] = s, r.code = "continue"
  PROVE  r.block1 \in Nat /\ r.block1 < idx[s] /\ r.block1 < Size[s] - 1 /\ Begun(s)
<1>1. /\ r.to \in Calls /\ Sent(r.to) /\ wire[r.to].kind = "block1" /\ wire[r.to].more
      /\ r.block1 = wire[r.to].num
  BY DEF ServerSound, ServerTyped, Responses
<1>2. /\ r.to[2] <= idx[s] /\ wire[r.to].num < r.to[2]
      /\ wire[r.to].more <=> wire[r.to].num < Size[s] - 1
  BY <1>1 DEF WireSound
<1>3. wire[r.to].num \in Nat
  BY <1>1 DEF ClientTyped, Sent, Messages
<1>4. idx[s] \in Nat /\ r.to[2] \in Nat
  BY <1>1, CallForm, SizeForm DEF ClientTyped
<1> QED  BY <1>1, <1>2, <1>3, <1>4 DEF Begun

-----------------------------------------------------------------------------
(* What a step of Send is: another call, or the end *)

MayCall(s, m, p) ==
  \/ ~Begun(s) /\ Size[s] = 1 /\ m = Plain /\ p = "plain"
  \/ ~Begun(s) /\ Size[s] > 1 /\ m = Block1(s, 0) /\ p = "upload"
  \/ /\ phase[s] = "upload" /\ wire[Current(s)].more /\ p = "upload"
     /\ \E r \in responses : r.to[1] = s /\ r.code = "continue" /\ m = Block1(s, r.block1 + 1)
  \/ /\ Begun(s) /\ p = "download"
     /\ \E r \in responses : r.to[1] = s /\ r.block2 # None
     /\ m \in {Block2(1), Block2(num[s] + 1)}

Endings == {"done", "refused", "crashed", "failed", "unanswered"}

Calling(s, m, p) == MayCall(s, m, p) /\ Call(s, m) /\ phase' = [phase EXCEPT ![s] = p]

Ending(s) == Begun(s) /\ \E how \in Endings : Ends(s, how)

Aside(s) ==
  /\ UNCHANGED <<cache, entries, responses, pc, runs, faults>>
  /\ trouble' = trouble \/ trouble' = [trouble EXCEPT ![s] = @ \cup {"stale"}]

LEMMA TakesAside ==
  ASSUME HistoryTyped, NEW s \in Sends, NEW r, Takes(s, r)
  PROVE  Aside(s) /\ r \in responses /\ r.to[1] = s
<1>1. UNCHANGED <<cache, entries, responses, pc, runs, faults>> /\ r \in responses /\ r.to[1] = s
  BY DEF Takes, cacheVars, serverVars
<1>2. trouble' = [trouble EXCEPT ![s] = IF r.to = Current(s) THEN @ ELSE @ \cup {"stale"}]
  BY DEF Takes
<1>3. CASE r.to = Current(s)
  <2>1. trouble' = trouble
    BY <1>2, <1>3 DEF HistoryTyped
  <2> QED  BY <1>1, <2>1 DEF Aside
<1>4. CASE r.to # Current(s)
  BY <1>1, <1>2, <1>4 DEF Aside
<1> QED  BY <1>3, <1>4

LEMMA RepliedKinds ==
  ASSUME ServerTyped, ClientTyped, NEW s \in Sends, Begun(s),
         NEW r \in responses, r.to[1] = s, Replied(s, r)
  PROVE  /\ Ending(s) \/ \E m, p : Calling(s, m, p)
         /\ data' \in [Sends -> Seq(Pieces)]
<1>1. data' \in [Sends -> Seq(Pieces)]
  BY DEF Replied, ServerTyped, Responses, ClientTyped
<1>2. CASE r.block2 # None /\ r.block2.more
  <2>1. Call(s, Block2(1)) /\ phase' = [phase EXCEPT ![s] = "download"]
    BY <1>2 DEF Replied
  <2>2. MayCall(s, Block2(1), "download")
    BY <1>2 DEF MayCall
  <2> QED  BY <1>1, <2>1, <2>2 DEF Calling
<1>3. CASE ~(r.block2 # None /\ r.block2.more)
  BY <1>1, <1>3 DEF Replied, Ending, Endings
<1> QED  BY <1>2, <1>3

LEMMA ClientKinds ==
  ASSUME TypeOK, Sound, NEW s \in Sends, Client(s)
  PROVE  /\ Aside(s)
         /\ data' \in [Sends -> Seq(Pieces)]
         /\ Ending(s) \/ \E m, p : Calling(s, m, p)
<1>0. ClientTyped /\ ServerTyped /\ HistoryTyped /\ PhaseSound /\ ServerSound
  BY TypeParts DEF Sound
<1>1. CASE Begin(s)
  <2>1. Aside(s) /\ data' = data /\ ~Begun(s)
    BY <1>0, <1>1 DEF Begin, Aside, cacheVars, serverVars, PhaseSound
  <2>2. Size[s] = 1 \/ Size[s] > 1
    BY SizeForm
  <2>3. CASE Size[s] = 1
    BY <1>0, <1>1, <2>1, <2>3 DEF Begin, Calling, MayCall, ClientTyped
  <2>4. CASE Size[s] > 1
    <3>0. Size[s] # 1
      BY <2>4, SizeForm
    <3>1. Call(s, Block1(s, 0)) /\ phase' = [phase EXCEPT ![s] = "upload"]
      BY <1>1, <3>0, Zenon DEF Begin
    <3> QED  BY <1>0, <2>1, <2>4, <3>1 DEF Calling, MayCall, ClientTyped
  <2> QED  BY <2>2, <2>3, <2>4
<1>2. CASE CallFails(s)
  <2>1. Aside(s) /\ data' = data /\ Begun(s) /\ Ends(s, "failed")
    BY <1>0, <1>2 DEF CallFails, Aside, cacheVars, serverVars, PhaseSound
  <2> QED  BY <1>0, <2>1 DEF Ending, Endings, ClientTyped
<1>9. CASE NotAwaited(s)
  <2>1. /\ Aside(s) /\ data' = data /\ Begun(s)
        /\ Ends(s, IF phase[s] = "plain" THEN "unanswered" ELSE "crashed")
    BY <1>0, <1>9 DEF NotAwaited, Aside, cacheVars, serverVars, PhaseSound
  <2> QED  BY <1>0, <2>1 DEF Ending, Endings, ClientTyped
<1>3. ASSUME NEW r \in responses, PlainAnswered(s, r)
      PROVE  Aside(s) /\ data' \in [Sends -> Seq(Pieces)] /\ (Ending(s) \/ \E m, p : Calling(s, m, p))
  <2>1. Takes(s, r) /\ Replied(s, r) /\ Begun(s)
    BY <1>0, <1>3 DEF PlainAnswered, PhaseSound
  <2> QED  BY <1>0, <2>1, TakesAside, RepliedKinds
<1>4. ASSUME NEW r \in responses, BlockRefused(s, r)
      PROVE  Aside(s) /\ data' \in [Sends -> Seq(Pieces)] /\ Ending(s)
  <2>1. Takes(s, r) /\ Ends(s, "refused") /\ Begun(s) /\ data' = data
    BY <1>0, <1>4 DEF BlockRefused, PhaseSound
  <2> QED  BY <1>0, <2>1, TakesAside DEF Ending, Endings, ClientTyped
<1>5. ASSUME NEW r \in responses, BlockAccepted(s, r)
      PROVE  Aside(s) /\ data' \in [Sends -> Seq(Pieces)] /\ \E m, p : Calling(s, m, p)
  <2>1. Takes(s, r) /\ data' = data /\ phase' = phase /\ Call(s, Block1(s, r.block1 + 1))
    BY <1>5 DEF BlockAccepted
  <2>2. Aside(s) /\ r.to[1] = s
    BY <1>0, <2>1, TakesAside
  <2>3. MayCall(s, Block1(s, r.block1 + 1), "upload")
    BY <1>5, <2>2 DEF BlockAccepted, MayCall
  <2>4. phase' = [phase EXCEPT ![s] = "upload"]
    BY <1>0, <1>5, <2>1 DEF BlockAccepted, ClientTyped
  <2> QED  BY <1>0, <2>1, <2>2, <2>3, <2>4 DEF Calling, ClientTyped
<1>6. ASSUME NEW r \in responses, LastBlockAccepted(s, r)
      PROVE  Aside(s) /\ data' \in [Sends -> Seq(Pieces)] /\ (Ending(s) \/ \E m, p : Calling(s, m, p))
  <2>1. Takes(s, r) /\ Replied(s, r) /\ Begun(s)
    BY <1>0, <1>6 DEF LastBlockAccepted, PhaseSound
  <2> QED  BY <1>0, <2>1, TakesAside, RepliedKinds
<1>7. ASSUME NEW r \in responses, NextBlock(s, r)
      PROVE  Aside(s) /\ data' \in [Sends -> Seq(Pieces)] /\ (Ending(s) \/ \E m, p : Calling(s, m, p))
  <2>1. Takes(s, r) /\ Begun(s) /\ phase[s] = "download" /\ r.block2 # None
    BY <1>0, <1>7 DEF NextBlock, PhaseSound
  <2>2. Aside(s) /\ r.to[1] = s
    BY <1>0, <2>1, TakesAside
  <2>3. data[s] \in Seq(Pieces) /\ r.pieces \in Seq(Pieces)
    BY <1>0 DEF ClientTyped, ServerTyped, Responses
  <2>4. data[s] \o r.pieces \in Seq(Pieces)
    BY <2>3
  <2>5. data' \in [Sends -> Seq(Pieces)]
    BY <1>0, <1>7, <2>4 DEF NextBlock, ClientTyped
  <2>6. CASE r.block2.more
    <3>1. Call(s, Block2(num[s] + 1)) /\ phase' = [phase EXCEPT ![s] = "download"]
      BY <1>0, <1>7, <2>1, <2>6 DEF NextBlock, ClientTyped
    <3>2. MayCall(s, Block2(num[s] + 1), "download")
      BY <2>1, <2>2 DEF MayCall
    <3> QED  BY <2>2, <2>5, <3>1, <3>2 DEF Calling
  <2>7. CASE ~r.block2.more
    BY <1>7, <2>1, <2>2, <2>5, <2>7 DEF NextBlock, Ending, Endings
  <2> QED  BY <2>6, <2>7
<1>8. ASSUME NEW r \in responses, NextBlockMissing(s, r)
      PROVE  Aside(s) /\ data' \in [Sends -> Seq(Pieces)] /\ Ending(s)
  <2>1. Takes(s, r) /\ Ends(s, "crashed") /\ Begun(s) /\ data' = data
    BY <1>0, <1>8 DEF NextBlockMissing, PhaseSound
  <2> QED  BY <1>0, <2>1, TakesAside DEF Ending, Endings, ClientTyped
<1> QED  BY <1>1, <1>2, <1>3, <1>4, <1>5, <1>6, <1>7, <1>8, <1>9 DEF Client

Accepted(s, n) == \E r \in responses : r.to[1] = s /\ r.code = "continue" /\ r.block1 = n

\* The next message of a Send fits its place.
LEMMA MayCallForm ==
  ASSUME TypeOK, Sound, NEW s \in Sends, NEW m, NEW p, MayCall(s, m, p)
  PROVE  /\ m \in Messages /\ m.num <= idx[s]
         /\ p \in {"plain", "upload", "download"}
         /\ p = "plain" => m.kind = "plain" /\ m.num = 0 /\ Size[s] = 1
         /\ p = "upload" => /\ m.kind = "block1" /\ Size[s] > 1 /\ m.num < Size[s]
                            /\ m.more <=> m.num < Size[s] - 1
                            /\ IF m.num = 0 THEN idx[s] = 0 ELSE Accepted(s, m.num - 1)
         /\ p = "download" => m.kind = "block2" /\ \E r \in responses : r.to[1] = s /\ r.block2 # None
<1>0. ClientTyped /\ ServerTyped /\ WireSound /\ PhaseSound /\ ServerSound
  BY TypeParts DEF Sound
<1>1. idx[s] \in Nat /\ num[s] \in Nat /\ Size[s] \in Nat /\ Size[s] > 0
  BY <1>0, SizeForm DEF ClientTyped
<1>2. CASE ~Begun(s) /\ Size[s] = 1 /\ m = Plain /\ p = "plain"
  BY <1>1, <1>2 DEF Plain, Messages
<1>3. ASSUME NEW n \in Nat, Size[s] > 1, n < Size[s], m = Block1(s, n)
      PROVE  /\ m \in Messages /\ m.kind = "block1" /\ m.num = n
             /\ m.more <=> m.num < Size[s] - 1
  <2>1. m \in Messages
    BY <1>3, MessageForm
  <2>2. m = [kind |-> "block1", num |-> n, more |-> n < Size[s] - 1]
    BY <1>3 DEF Block1
  <2>3. m.kind = "block1" /\ m.num = n
    BY <2>2
  <2>4. m.more <=> n < Size[s] - 1
    BY <2>2, Zenon
  <2> QED  BY <2>1, <2>3, <2>4
<1>4. CASE ~Begun(s) /\ Size[s] > 1 /\ m = Block1(s, 0) /\ p = "upload"
  <2>1. m \in Messages /\ m.kind = "block1" /\ m.num = 0 /\ (m.more <=> m.num < Size[s] - 1)
    BY <1>1, <1>3, <1>4
  <2>2. idx[s] = 0
    BY <1>1, <1>4 DEF Begun
  <2> QED  BY <1>1, <1>4, <2>1, <2>2
<1>5. ASSUME NEW r \in responses, r.to[1] = s, r.code = "continue", m = Block1(s, r.block1 + 1),
             p = "upload"
      PROVE  /\ m \in Messages /\ m.num <= idx[s]
             /\ m.kind = "block1" /\ Size[s] > 1 /\ m.num < Size[s]
             /\ m.more <=> m.num < Size[s] - 1
             /\ m.num # 0 /\ Accepted(s, m.num - 1)
  <2>1. r.block1 \in Nat /\ r.block1 < idx[s] /\ r.block1 < Size[s] - 1
    BY <1>0, <1>5, ContinueBelow
  <2> DEFINE n == r.block1 + 1
  <2>2. n \in Nat /\ n > 0 /\ n <= idx[s] /\ n < Size[s] /\ Size[s] > 1
    BY <1>1, <2>1
  <2> HIDE DEF n
  <2>3. m \in Messages /\ m.kind = "block1" /\ m.num = n /\ (m.more <=> m.num < Size[s] - 1)
    BY <1>3, <1>5, <2>2 DEF n
  <2>4. m.num - 1 = r.block1
    BY <2>1, <2>3 DEF n
  <2>5. Accepted(s, m.num - 1)
    BY <1>5, <2>4 DEF Accepted
  <2> QED  BY <2>2, <2>3, <2>5
<1>6. ASSUME Begun(s), p = "download", m \in {Block2(1), Block2(num[s] + 1)}
      PROVE  m \in Messages /\ m.num <= idx[s] /\ m.kind = "block2"
  <2>1. num[s] < idx[s]
    BY <1>0, <1>6, NumBelow
  <2>2. PICK n \in {1, num[s] + 1} : m = Block2(n)
    BY <1>6
  <2>3. n \in Nat /\ n <= idx[s]
    BY <1>1, <2>1, <2>2
  <2>4. m \in Messages /\ m.kind = "block2" /\ m.num = n
    BY <2>2, <2>3, MessageForm DEF Block2
  <2> QED  BY <2>3, <2>4
<1> QED  BY <1>2, <1>4, <1>5, <1>6 DEF MayCall

LEMMA ClientType ==
  ASSUME TypeOK, Sound, NEW s \in Sends, Client(s)
  PROVE  TypeOK'
<1>0. ClientTyped /\ CacheTyped /\ ServerTyped /\ HistoryTyped
  BY TypeParts
<1>1. /\ Aside(s)
      /\ data' \in [Sends -> Seq(Pieces)]
      /\ Ending(s) \/ \E m, p : Calling(s, m, p)
  BY ClientKinds
<1>2. ClientTyped'
  <2>1. ASSUME NEW m, NEW p, Calling(s, m, p) PROVE ClientTyped'
    <3>1. m \in Messages /\ m.num <= idx[s] /\ p \in Phases
      BY <2>1, MayCallForm DEF Calling, Phases
    <3>2. Call(s, m) /\ phase' = [phase EXCEPT ![s] = p]
      BY <2>1 DEF Calling
    <3>3. phase' \in [Sends -> Phases]
      BY <1>0, <3>1, <3>2 DEF ClientTyped
    <3> QED  BY <1>0, <1>1, <3>1, <3>2, <3>3, CallTyped
  <2>2. CASE Ending(s)
    <3>1. PICK how \in Endings : Ends(s, how)
      BY <2>2 DEF Ending
    <3>2. how \in Phases
      BY DEF Phases, Endings
    <3> QED  BY <1>0, <1>1, <3>1, <3>2, EndsTyped
  <2> QED  BY <1>1, <2>1, <2>2
<1>3. CacheTyped'
  BY <1>0, <1>1 DEF Aside, CacheTyped
<1>4. ServerTyped'
  BY <1>0, <1>1 DEF Aside, ServerTyped
<1>5. HistoryTyped'
  BY <1>0, <1>1 DEF Aside, HistoryTyped, Kinds
<1> QED  BY <1>2, <1>3, <1>4, <1>5 DEF TypeOK, ClientTyped, CacheTyped, ServerTyped, HistoryTyped

-----------------------------------------------------------------------------
(* Types, the handlers *)

LEMMA StateForm ==
  /\ \A at \in {"none", "admitted", "stored", "done"} : [at |-> at] \in States
  /\ \A e \in Nat, p \in Seq(Pieces) : [at |-> "loaded", entry |-> e, read |-> p] \in States
  /\ \A p \in Seq(Pieces) : [at |-> "ready", body |-> p] \in States
BY DEF States

LEMMA LoadedForm ==
  ASSUME TypeOK, NEW h \in Handlers, pc[h].at = "loaded"
  PROVE  pc[h].entry \in DOMAIN entries /\ pc[h].read \in Seq(Pieces)
<1>1. pc[h] \in States
  BY DEF TypeOK
<1> QED  BY <1>1 DEF States, TypeOK

LEMMA ReadyForm ==
  ASSUME TypeOK, NEW h \in Handlers, pc[h].at = "ready"
  PROVE  pc[h].body \in Seq(Pieces)
<1>1. pc[h] \in States
  BY DEF TypeOK
<1> QED  BY <1>1 DEF States

LEMMA EntryForm ==
  ASSUME TypeOK, NEW e \in DOMAIN entries
  PROVE  /\ entries[e] \in Entries /\ entries[e].pieces \in Seq(Pieces) /\ entries[e].last \in Nat
         /\ entries[e].block1 \in Nat \cup {None}
<1>1. entries[e] \in Entries
  BY DEF TypeOK
<1> QED  BY <1>1 DEF Entries

LEMMA GoesTyped ==
  ASSUME ServerTyped, NEW h \in Handlers, NEW st \in States, Goes(h, st),
         st.at = "loaded" => st.entry \in DOMAIN entries',
         DOMAIN entries \subseteq DOMAIN entries',
         responses' \subseteq Responses, runs' \in Seq(Executed)
  PROVE  ServerTyped'
<1>1. pc' = [pc EXCEPT ![h] = st]
  BY DEF Goes
<1>2. pc' \in [Handlers -> States]
  BY <1>1 DEF ServerTyped
<1>3. ASSUME NEW g \in Handlers, pc'[g].at = "loaded" PROVE pc'[g].entry \in DOMAIN entries'
  BY <1>1, <1>3 DEF ServerTyped
<1> QED  BY <1>2, <1>3 DEF ServerTyped

LEMMA AnswersTyped ==
  ASSUME ServerTyped, NEW h \in Handlers, NEW r \in Responses, Answers(h, r),
         DOMAIN entries \subseteq DOMAIN entries', runs' \in Seq(Executed)
  PROVE  ServerTyped'
<1>1. responses' \subseteq Responses
  BY DEF Answers, ServerTyped
<1>2. Goes(h, [at |-> "done"]) /\ [at |-> "done"] \in States
  BY StateForm DEF Answers
<1>3. [at |-> "done"].at # "loaded"
  OBVIOUS
<1> QED  BY <1>1, <1>2, <1>3, GoesTyped

LEMMA PutForm ==
  ASSUME CacheTyped, NEW kind \in {"request", "reply"}, NEW pieces \in Seq(Pieces),
         NEW block1 \in Nat \cup {None}, Put(kind, pieces, block1)
  PROVE  LET e == [kind |-> kind, pieces |-> pieces, last |-> 0, block1 |-> block1] IN
         /\ CacheTyped'
         /\ entries' = Append(entries, e) /\ cache' = Len(entries) + 1
         /\ cache' \in DOMAIN entries' /\ cache' # None /\ cache' \notin DOMAIN entries
         /\ entries'[cache'] = e
         /\ DOMAIN entries \subseteq DOMAIN entries'
         /\ \A x \in DOMAIN entries : entries'[x] = entries[x]
<1> DEFINE e == [kind |-> kind, pieces |-> pieces, last |-> 0, block1 |-> block1]
<1>1. e \in Entries
  BY DEF Entries
<1>2. entries' = Append(entries, e) /\ cache' = Len(entries) + 1
  BY DEF Put
<1> HIDE DEF e
<1>3. entries \in Seq(Entries)
  BY DEF CacheTyped
<1>4. /\ entries' \in Seq(Entries) /\ cache' \in DOMAIN entries'
      /\ cache' \notin DOMAIN entries
      /\ entries'[cache'] = e
      /\ DOMAIN entries \subseteq DOMAIN entries'
      /\ \A x \in DOMAIN entries : entries'[x] = entries[x]
  BY <1>1, <1>2, <1>3
<1>5. cache' # None
  BY <1>2, <1>3, NoneForm
<1> QED  BY <1>2, <1>4, <1>5 DEF e, CacheTyped

LEMMA DisturbsForm ==
  ASSUME HistoryTyped, NEW c \in Calls, NEW kinds \in SUBSET {"raced", "mixed"}, Disturbs(c, kinds)
  PROVE  /\ trouble' \in [Sends -> SUBSET Kinds]
         /\ \A s \in Sends : trouble[s] \subseteq trouble'[s]
         /\ trouble'[c[1]] = trouble[c[1]] \cup kinds
         /\ \A s \in Sends \ {c[1]} :
              trouble'[s] = IF Begun(s) THEN trouble[s] \cup kinds \cup {"others"} ELSE trouble[s]
<1>1. c[1] \in Sends
  BY CallForm
<1>2. \A s \in Sends : trouble'[s] = trouble[s] \cup
        (IF s = c[1] THEN kinds ELSE IF Begun(s) THEN kinds \cup {"others"} ELSE {})
  BY DEF Disturbs
<1>3. \A s \in Sends : trouble'[s] \subseteq Kinds
  BY <1>2 DEF HistoryTyped, Kinds
<1>4. trouble' \in [Sends -> SUBSET Kinds]
  BY <1>3 DEF Disturbs
<1>5. \A s \in Sends \ {c[1]} :
              trouble'[s] = IF Begun(s) THEN trouble[s] \cup kinds \cup {"others"} ELSE trouble[s]
  <2> TAKE s \in Sends \ {c[1]}
  <2>1. CASE Begun(s)
    BY <1>2, <2>1
  <2>2. CASE ~Begun(s)
    BY <1>2, <2>2
  <2> QED  BY <2>1, <2>2
<1> QED  BY <1>1, <1>2, <1>4, <1>5

\* A handler leaves the client alone.
LEMMA HandlerAside ==
  ASSUME NEW h \in Handlers, Handler(h)
  PROVE  UNCHANGED <<phase, idx, num, data, wire, faults>>
BY DEF Handler, StoreFirst, LoadForAppend, AppendMiddle, Reassemble, RefuseBlock, ServeCached,
       RunPlain, RunReady, RunAgain, Run, ServeStored, clientVars

LEMMA StartsForm ==
  ASSUME TypeOK, NEW h \in Handlers, NEW kind, Starts(h, kind)
  PROVE  /\ h[1] \in Calls /\ h[1][1] \in Sends /\ Sent(h[1]) /\ wire[h[1]] \in Messages
         /\ wire[h[1]].num \in Nat /\ wire[h[1]].kind = kind /\ Piece(h[1]) \in Pieces
         /\ pc[h].at \in {"none", "admitted"} /\ (h[2] = 2 => pc[h].at = "admitted")
<1>1. h[1] \in Calls /\ wire[h[1]] # None
  BY HandlerForm DEF Starts
<1>2. wire[h[1]] \in Messages /\ Piece(h[1]) \in Pieces
  BY <1>1, PieceForm
<1> QED  BY <1>1, <1>2, CallForm DEF Starts, Sent, Messages

\* The callback's reply, one piece or stored.
LEMMA RunForm ==
  ASSUME TypeOK, NEW h \in Handlers, Sent(h[1]), NEW body \in Seq(Pieces), Run(h, body)
  PROVE  \E n \in ReplySizes :
           LET c == h[1]
               i == Len(runs) + 1
           IN
           /\ n \in Nat /\ n > 0 /\ i \in Nat
           /\ ReplyBlock1(c) \in Nat \cup {None}
           /\ runs' = Append(runs, [send |-> c[1], call |-> c, body |-> body, size |-> n])
           /\ runs' \in Seq(Executed)
           /\ \/ /\ n = 1
                 /\ Answers(h, Response(c, "ok", ReplyBlock1(c), None, Reply(i, 1)))
                 /\ Response(c, "ok", ReplyBlock1(c), None, Reply(i, 1)) \in Responses
                 /\ UNCHANGED <<cache, entries, trouble>>
              \/ /\ n > 1
                 /\ Put("reply", Reply(i, n), ReplyBlock1(c))
                 /\ Disturbs(c, {})
                 /\ Goes(h, [at |-> "stored"])
                 /\ responses' = responses
<1> DEFINE c == h[1]
           i == Len(runs) + 1
<1>1. c \in Calls /\ c[1] \in Sends /\ wire[c] \in Messages /\ wire[c].num \in Nat
  BY HandlerForm, CallForm, PieceForm DEF Sent, Messages
<1>2. ReplyBlock1(c) \in Nat \cup {None}
  BY <1>1 DEF ReplyBlock1
<1>3. i \in Nat
  BY DEF TypeOK
<1>4. PICK n \in ReplySizes :
        /\ runs' = Append(runs, [send |-> c[1], call |-> c, body |-> body, size |-> n])
        /\ IF n = 1
           THEN /\ Answers(h, Response(c, "ok", ReplyBlock1(c), None, Reply(i, 1)))
                /\ UNCHANGED <<cacheVars, trouble>>
           ELSE /\ Put("reply", Reply(i, n), ReplyBlock1(c))
                /\ Disturbs(c, {})
                /\ Goes(h, [at |-> "stored"])
                /\ UNCHANGED responses
  BY DEF Run
<1>5. n \in Nat /\ n > 0
  BY TransferAssumption DEF TransferAssumption
<1>6. runs' \in Seq(Executed)
  <2>1. [send |-> c[1], call |-> c, body |-> body, size |-> n] \in Executed
    BY <1>1 DEF Executed
  <2> QED  BY <1>4, <2>1 DEF TypeOK
<1> HIDE DEF i, c
<1>7. Response(c, "ok", ReplyBlock1(c), None, Reply(i, 1)) \in Responses
  BY <1>1, <1>2, <1>3, ReplyForm, ResponseForm
<1>8. CASE n = 1
  <2>1. /\ Answers(h, Response(c, "ok", ReplyBlock1(c), None, Reply(i, 1)))
        /\ UNCHANGED <<cache, entries, trouble>>
    BY <1>4, <1>8 DEF cacheVars
  <2> QED  BY <1>2, <1>3, <1>4, <1>5, <1>6, <1>7, <1>8, <2>1 DEF i, c
<1>9. CASE n # 1
  <2>1. n > 1
    BY <1>5, <1>9
  <2> QED  BY <1>2, <1>3, <1>4, <1>5, <1>6, <1>9, <2>1 DEF i, c
<1> QED  BY <1>8, <1>9

Extends(e, n, pieces) == entries' = [entries EXCEPT ![e].last = n, ![e].pieces = pieces]

LEMMA AppendForm ==
  ASSUME TypeOK, Sound, NEW h \in Handlers, AppendMiddle(h)
  PROVE  LET c == h[1]
             e == pc[h].entry
         IN
         /\ c \in Calls /\ Sent(c) /\ wire[c] \in Messages /\ wire[c].num \in Nat /\ Piece(c) \in Pieces
         /\ wire[c].kind = "block1" /\ wire[c].more /\ wire[c].num > 0
         /\ pc[h].at = "loaded" /\ pc[h].read \in Seq(Pieces)
         /\ e \in DOMAIN entries /\ entries[e].pieces \in Seq(Pieces)
         /\ \E base \in {pc[h].read, entries[e].pieces} :
              /\ Extends(e, wire[c].num, Append(base, Piece(c)))
              /\ Append(base, Piece(c)) \in Seq(Pieces)
         /\ cache' = cache /\ runs' = runs
         /\ \E kinds \in SUBSET {"raced", "mixed"} :
              /\ Disturbs(c, kinds)
              /\ "raced" \in kinds <=> entries[e].pieces # pc[h].read
              /\ "mixed" \in kinds <=> entries[e].kind = "reply"
         /\ Answers(h, Continue(c)) /\ Continue(c) \in Responses
<1> DEFINE c == h[1]
           e == pc[h].entry
           kinds == (IF entries[e].pieces # pc[h].read THEN {"raced"} ELSE {})
                      \cup (IF entries[e].kind = "reply" THEN {"mixed"} ELSE {})
<1>1. /\ pc[h].at = "loaded"
      /\ AppendPiece(e, wire[c].num, pc[h].read, Piece(c))
      /\ Disturbs(c, kinds)
      /\ Answers(h, Continue(c))
      /\ runs' = runs
  BY DEF AppendMiddle
<1>2. c \in Calls /\ Sent(c) /\ wire[c].kind = "block1" /\ wire[c].more /\ wire[c].num > 0
  BY <1>1, HandlerForm DEF Sound, ServerSound
<1>3. wire[c] \in Messages /\ wire[c].num \in Nat /\ Piece(c) \in Pieces /\ Continue(c) \in Responses
  BY <1>2, PieceForm, ShortResponseForm DEF Sent, Messages
<1>4. e \in DOMAIN entries /\ pc[h].read \in Seq(Pieces) /\ entries[e].pieces \in Seq(Pieces)
  BY <1>1, LoadedForm, EntryForm
<1>5. /\ \E base \in {pc[h].read, entries[e].pieces} :
           Extends(e, wire[c].num, Append(base, Piece(c)))
      /\ cache' = cache
  BY <1>1 DEF AppendPiece, Extends
<1>6. \A base \in {pc[h].read, entries[e].pieces} : Append(base, Piece(c)) \in Seq(Pieces)
  BY <1>3, <1>4
<1>7. /\ kinds \in SUBSET {"raced", "mixed"}
      /\ "raced" \in kinds <=> entries[e].pieces # pc[h].read
      /\ "mixed" \in kinds <=> entries[e].kind = "reply"
  OBVIOUS
<1> HIDE DEF kinds, c, e
<1> QED  BY <1>1, <1>2, <1>3, <1>4, <1>5, <1>6, <1>7, Zenon DEF c, e

LEMMA SequenceOf ==
  ASSUME NEW S, NEW n \in Nat, NEW f \in [1 .. n -> S]
  PROVE  f \in Seq(S) /\ DOMAIN f = 1 .. n
OBVIOUS

LEMMA AppendTyped ==
  ASSUME CacheTyped, NEW e \in DOMAIN entries, NEW n \in Nat, NEW pieces \in Seq(Pieces),
         Extends(e, n, pieces)
  PROVE  /\ entries' \in Seq(Entries) /\ DOMAIN entries' = DOMAIN entries
         /\ \A x \in DOMAIN entries \ {e} : entries'[x] = entries[x]
         /\ entries'[e].kind = entries[e].kind
         /\ entries'[e].last = n /\ entries'[e].pieces = pieces
<1>1. entries[e] \in Entries
  BY DEF CacheTyped
<1> DEFINE y == [entries[e] EXCEPT !.last = n, !.pieces = pieces]
<1>2. y \in Entries /\ y.kind = entries[e].kind /\ y.last = n /\ y.pieces = pieces
  BY <1>1 DEF Entries
<1>3. entries' = [entries EXCEPT ![e] = y]
  BY DEF Extends
<1> HIDE DEF y
<1>4. entries \in [1 .. Len(entries) -> Entries] /\ Len(entries) \in Nat /\ e \in 1 .. Len(entries)
  BY DEF CacheTyped
<1>5. /\ entries' \in [1 .. Len(entries) -> Entries]
      /\ entries'[e] = y
      /\ \A x \in DOMAIN entries \ {e} : entries'[x] = entries[x]
  BY <1>2, <1>3, <1>4
<1>6. entries' \in Seq(Entries) /\ DOMAIN entries' = DOMAIN entries
  <2>1. DOMAIN entries = 1 .. Len(entries)
    BY <1>4
  <2> QED  BY <1>4, <1>5, <2>1, SequenceOf, Zenon
<1> QED  BY <1>2, <1>5, <1>6

LEMMA HandlerType ==
  ASSUME TypeOK, Sound, NEW h \in Handlers, Handler(h)
  PROVE  TypeOK'
<1> DEFINE c == h[1]
<1>0. ClientTyped /\ CacheTyped /\ ServerTyped /\ HistoryTyped
  BY TypeParts
<1>1. ClientTyped'
  BY <1>0, HandlerAside DEF ClientTyped
<1>2. SUFFICES CacheTyped' /\ ServerTyped' /\ HistoryTyped'
  BY <1>1, TypeParts, PTL
<1>3. faults' \in 0 .. MaxFaults
  BY <1>0, HandlerAside DEF HistoryTyped
<1>4. responses' = responses => responses' \subseteq Responses
  BY <1>0 DEF ServerTyped
<1>5. runs' = runs => runs' \in Seq(Executed)
  BY <1>0 DEF ServerTyped
<1>6. UNCHANGED <<cache, entries>> => CacheTyped' /\ DOMAIN entries \subseteq DOMAIN entries'
  BY <1>0 DEF CacheTyped
<1>7. trouble' = trouble => HistoryTyped'
  BY <1>0, <1>3 DEF HistoryTyped
<1>8. ASSUME NEW kinds \in SUBSET {"raced", "mixed"}, Disturbs(c, kinds) PROVE HistoryTyped'
  BY <1>0, <1>3, <1>8, HandlerForm, DisturbsForm DEF HistoryTyped
<1>9. CASE StoreFirst(h)
  <2>1. Starts(h, "block1") /\ Put("request", <<Piece(c)>>, None) /\ Disturbs(c, {})
        /\ Answers(h, Continue(c)) /\ runs' = runs
    BY <1>9 DEF StoreFirst
  <2>2. c \in Calls /\ Sent(c) /\ Piece(c) \in Pieces
    BY <2>1, StartsForm
  <2>3. <<Piece(c)>> \in Seq(Pieces)
    BY <2>2
  <2>4. CacheTyped' /\ DOMAIN entries \subseteq DOMAIN entries'
    BY <1>0, <2>1, <2>3, PutForm
  <2>5. Continue(c) \in Responses
    BY <2>2, ShortResponseForm DEF Sent
  <2> QED  BY <1>0, <1>5, <1>8, <2>1, <2>4, <2>5, AnswersTyped
<1>10. CASE LoadForAppend(h)
  <2>1. /\ Appends(wire[c].num) /\ UNCHANGED <<cache, entries, responses, runs, trouble>>
        /\ Goes(h, [at |-> "loaded", entry |-> cache, read |-> entries[cache].pieces])
    BY <1>10 DEF LoadForAppend, cacheVars
  <2>2. cache \in DOMAIN entries
    BY <2>1 DEF Appends, TypeOK
  <2>3. cache \in Nat /\ entries[cache].pieces \in Seq(Pieces)
    BY <2>2, EntryForm DEF TypeOK
  <2> DEFINE st == [at |-> "loaded", entry |-> cache, read |-> entries[cache].pieces]
  <2>4. st \in States /\ st.entry = cache
    BY <2>3, StateForm
  <2> HIDE DEF st
  <2> QED  BY <1>0, <1>4, <1>5, <1>6, <1>7, <2>1, <2>2, <2>4, GoesTyped DEF st
<1>11. CASE AppendMiddle(h)
  <2> DEFINE e == pc[h].entry
  <2>1. /\ wire[c].num \in Nat /\ e \in DOMAIN entries
        /\ cache' = cache /\ runs' = runs
        /\ Answers(h, Continue(c)) /\ Continue(c) \in Responses
    BY <1>11, AppendForm
  <2>2. \E kinds \in SUBSET {"raced", "mixed"} : Disturbs(c, kinds)
    BY <1>11, AppendForm
  <2>3. PICK pieces \in Seq(Pieces) :
          Extends(e, wire[c].num, pieces)
    BY <1>11, AppendForm
  <2> HIDE DEF e
  <2>4. entries' \in Seq(Entries) /\ DOMAIN entries' = DOMAIN entries
    BY <1>0, <2>1, <2>3, AppendTyped
  <2>5. CacheTyped'
    BY <1>0, <2>1, <2>4 DEF CacheTyped
  <2> QED  BY <1>0, <1>5, <1>8, <2>1, <2>2, <2>4, <2>5, AnswersTyped
<1>12. CASE Reassemble(h)
  <2>1. /\ Starts(h, "block1") /\ cache # None /\ UNCHANGED <<cache, entries, responses, runs, trouble>>
        /\ Goes(h, [at |-> "ready", body |-> Assembled(Piece(c))])
    BY <1>12 DEF Reassemble, cacheVars
  <2>2. cache \in DOMAIN entries /\ Piece(c) \in Pieces
    BY <2>1, StartsForm DEF TypeOK
  <2>3. Assembled(Piece(c)) \in Seq(Pieces)
    BY <2>2, EntryForm DEF Assembled
  <2> DEFINE st == [at |-> "ready", body |-> Assembled(Piece(c))]
  <2>4. st \in States /\ st.at # "loaded"
    BY <2>3, StateForm
  <2> HIDE DEF st
  <2> QED  BY <1>0, <1>4, <1>5, <1>6, <1>7, <2>1, <2>4, GoesTyped DEF st
<1>13. CASE RefuseBlock(h)
  <2>1. Starts(h, "block1") /\ Answers(h, Error(c)) /\ UNCHANGED <<cache, entries, runs, trouble>>
    BY <1>13 DEF RefuseBlock, cacheVars
  <2>2. Error(c) \in Responses
    BY <2>1, StartsForm, ShortResponseForm DEF Sent
  <2> QED  BY <1>0, <1>5, <1>6, <1>7, <2>1, <2>2, AnswersTyped
<1>14. [at |-> "done"] \in States /\ [at |-> "stored"] \in States
       /\ [at |-> "done"].at # "loaded" /\ [at |-> "stored"].at # "loaded"
  BY StateForm
<1>15. ASSUME NEW n \in Nat, Holds(n), c \in Calls
       PROVE  Response(c, "ok", Block(n).block1, Block(n).block2, Block(n).pieces) \in Responses
  BY <1>15, BlockForm, ResponseForm
<1>16. CASE ServeCached(h)
  <2>1. /\ Starts(h, "block2") /\ Holds(wire[c].num)
        /\ Goes(h, [at |-> "done"]) /\ UNCHANGED <<cache, entries, runs, trouble>>
        /\ \/ responses' = responses
           \/ responses' = responses \cup {Response(c, "ok", Block(wire[c].num).block1, Block(wire[c].num).block2, Block(wire[c].num).pieces)}
    BY <1>16 DEF ServeCached, cacheVars
  <2>2. responses' \subseteq Responses
    BY <1>0, <1>15, <2>1, StartsForm DEF ServerTyped
  <2> QED  BY <1>0, <1>5, <1>6, <1>7, <1>14, <2>1, <2>2, GoesTyped
<1>17. ASSUME NEW body \in Seq(Pieces), Sent(c), Run(h, body)
       PROVE  CacheTyped' /\ ServerTyped' /\ HistoryTyped'
  <2>1. c \in Calls
    BY HandlerForm
  <2>2. PICK n \in ReplySizes :
           LET i == Len(runs) + 1
           IN
           /\ n \in Nat /\ i \in Nat
           /\ ReplyBlock1(c) \in Nat \cup {None}
           /\ runs' \in Seq(Executed)
           /\ \/ /\ Answers(h, Response(c, "ok", ReplyBlock1(c), None, Reply(i, 1)))
                 /\ Response(c, "ok", ReplyBlock1(c), None, Reply(i, 1)) \in Responses
                 /\ UNCHANGED <<cache, entries, trouble>>
              \/ /\ Put("reply", Reply(i, n), ReplyBlock1(c))
                 /\ Disturbs(c, {})
                 /\ Goes(h, [at |-> "stored"])
                 /\ responses' = responses
    BY <1>17, RunForm
  <2> DEFINE i == Len(runs) + 1
  <2>3. i \in Nat /\ n \in Nat /\ ReplyBlock1(c) \in Nat \cup {None} /\ runs' \in Seq(Executed)
    BY <2>2
  <2>4. Reply(i, n) \in Seq(Pieces)
    BY <2>3, ReplyForm
  <2>5. CASE /\ Answers(h, Response(c, "ok", ReplyBlock1(c), None, Reply(i, 1)))
             /\ Response(c, "ok", ReplyBlock1(c), None, Reply(i, 1)) \in Responses
             /\ UNCHANGED <<cache, entries, trouble>>
    BY <1>0, <1>6, <1>7, <2>3, <2>5, AnswersTyped
  <2>6. CASE /\ Put("reply", Reply(i, n), ReplyBlock1(c))
             /\ Disturbs(c, {})
             /\ Goes(h, [at |-> "stored"])
             /\ responses' = responses
    <3>1. CacheTyped' /\ DOMAIN entries \subseteq DOMAIN entries'
      BY <1>0, <2>3, <2>4, <2>6, PutForm
    <3> QED  BY <1>0, <1>4, <1>8, <1>14, <2>3, <2>6, <3>1, GoesTyped
  <2> QED  BY <2>2, <2>5, <2>6
<1>18. CASE RunPlain(h)
  <2>1. Starts(h, "plain") /\ Run(h, <<Piece(c)>>)
    BY <1>18 DEF RunPlain
  <2>2. Sent(c) /\ Piece(c) \in Pieces
    BY <2>1, StartsForm
  <2>3. <<Piece(c)>> \in Seq(Pieces)
    BY <2>2
  <2> QED  BY <1>17, <2>1, <2>2, <2>3
<1>19. CASE RunReady(h)
  <2>1. pc[h].at = "ready" /\ Run(h, pc[h].body) /\ Sent(c)
    BY <1>19 DEF RunReady, Sound, ServerSound
  <2> QED  BY <1>17, <2>1, ReadyForm
<1>20. CASE RunAgain(h)
  <2>1. Starts(h, "block2") /\ Run(h, <<>>) /\ <<>> \in Seq(Pieces)
    BY <1>20 DEF RunAgain
  <2> QED  BY <1>17, <2>1, StartsForm
<1>21. CASE ServeStored(h)
  <2> DEFINE n == IF wire[c].kind = "block2" THEN wire[c].num ELSE 0
  <2>1. /\ pc[h].at = "stored" /\ UNCHANGED <<cache, entries, runs, trouble>>
        /\ \/ Answers(h, Error(c))
           \/ /\ Holds(n)
              /\ Answers(h, Response(c, "ok", Block(n).block1, Block(n).block2, Block(n).pieces))
           \/ Goes(h, [at |-> "done"]) /\ responses' = responses
    BY <1>21 DEF ServeStored, cacheVars
  <2>2. c \in Calls /\ Sent(c)
    BY <2>1, HandlerForm DEF Sound, ServerSound
  <2>3. n \in Nat /\ Error(c) \in Responses
    BY <2>2, PieceForm, ShortResponseForm DEF Sent, Messages
  <2> HIDE DEF n
  <2>4. Holds(n) => Response(c, "ok", Block(n).block1, Block(n).block2, Block(n).pieces) \in Responses
    BY <1>15, <2>2, <2>3
  <2> QED  BY <1>0, <1>4, <1>5, <1>6, <1>7, <1>14, <2>1, <2>3, <2>4, AnswersTyped, GoesTyped
<1> QED  BY <1>9, <1>10, <1>11, <1>12, <1>13, <1>16, <1>18, <1>19, <1>20, <1>21 DEF Handler

LEMMA AdmitForm ==
  ASSUME TypeOK, NEW c \in Calls, AdmitCopy(c)
  PROVE  /\ UNCHANGED <<cache, entries, phase, idx, num, data, wire, responses, runs>>
         /\ Sent(c) /\ c[1] \in Sends
         /\ pc' \in [Handlers -> States]
         /\ pc'[<<c, 1>>] = [at |-> "admitted"] /\ pc'[<<c, 2>>] = [at |-> "admitted"]
         /\ pc[<<c, 1>>].at = "none"
         /\ \A h \in Handlers : h[1] # c => pc'[h] = pc[h]
         /\ \A h \in Handlers : h[1] = c => pc'[h].at = "admitted"
         /\ trouble' = [trouble EXCEPT ![c[1]] = trouble[c[1]] \cup {"copied"}]
         /\ trouble' \in [Sends -> SUBSET Kinds]
         /\ \A s \in Sends : trouble[s] \subseteq trouble'[s]
         /\ faults' \in 0 .. MaxFaults
<1>1. <<c, 1>> \in Handlers /\ <<c, 2>> \in Handlers /\ <<c, 1>> # <<c, 2>>
  BY HandlerOf
<1>2. c[1] \in Sends
  BY CallForm
<1>3. /\ UNCHANGED <<cache, entries, phase, idx, num, data, wire, responses, runs>> /\ Sent(c)
      /\ pc[<<c, 1>>].at = "none"
  BY DEF AdmitCopy, cacheVars, clientVars, Sent
<1>4. pc' = [pc EXCEPT ![<<c, 1>>] = [at |-> "admitted"], ![<<c, 2>>] = [at |-> "admitted"]]
      /\ trouble' = [trouble EXCEPT ![c[1]] = trouble[c[1]] \cup {"copied"}]
  BY DEF AdmitCopy
<1>5. faults' \in 0 .. MaxFaults
  BY TransferAssumption DEF AdmitCopy, TypeOK, TransferAssumption
<1>6. /\ pc' \in [Handlers -> States]
      /\ pc'[<<c, 1>>] = [at |-> "admitted"] /\ pc'[<<c, 2>>] = [at |-> "admitted"]
      /\ \A h \in Handlers : h \notin {<<c, 1>>, <<c, 2>>} => pc'[h] = pc[h]
  BY <1>1, <1>4, StateForm DEF TypeOK
<1>7. \A h \in Handlers : h \in {<<c, 1>>, <<c, 2>>} <=> h[1] = c
  BY <1>1, HandlerForm
<1>8. \A h \in Handlers : h[1] = c => pc'[h].at = "admitted"
  BY <1>6, <1>7
<1>9. /\ trouble' \in [Sends -> SUBSET Kinds]
      /\ \A s \in Sends : trouble[s] \subseteq trouble'[s]
  BY <1>2, <1>4 DEF TypeOK, Kinds
<1> QED  BY <1>2, <1>3, <1>4, <1>5, <1>6, <1>7, <1>8, <1>9

LEMMA WatchForm ==
  ASSUME TypeOK, Watch
  PROVE  /\ UNCHANGED <<entries, phase, idx, num, data, wire, responses, pc, runs>>
         /\ cache' = None
         /\ trouble' \in [Sends -> SUBSET Kinds]
         /\ \A s \in Sends : trouble[s] \subseteq trouble'[s]
         /\ \A s \in Sends : Begun(s) => "swept" \in trouble'[s]
         /\ faults' \in 0 .. MaxFaults
<1>1. /\ UNCHANGED <<entries, phase, idx, num, data, wire, responses, pc, runs>> /\ cache' = None
  BY DEF Watch, Sweep, clientVars, serverVars
<1>2. trouble' = [s \in Sends |-> IF Begun(s) THEN trouble[s] \cup {"swept"} ELSE trouble[s]]
  BY DEF Watch
<1>3. faults' \in 0 .. MaxFaults
  BY TransferAssumption DEF Watch, TypeOK, TransferAssumption
<1>4. \A s \in Sends : trouble[s] \in SUBSET Kinds /\ "swept" \in Kinds
  BY DEF TypeOK, Kinds
<1>5. trouble' \in [Sends -> SUBSET Kinds]
  BY <1>2, <1>4
<1> QED  BY <1>1, <1>2, <1>3, <1>5

\* The five kinds of steps.
LEMMA NextKinds ==
  ASSUME [Next]_vars
  PROVE  \/ \E s \in Sends : Client(s)
         \/ \E h \in Handlers : Handler(h)
         \/ \E c \in Calls : AdmitCopy(c)
         \/ Watch
         \/ UNCHANGED <<cache, entries, phase, idx, num, data, wire, responses, pc, runs, trouble, faults>>
BY DEF Next, vars, cacheVars, clientVars, serverVars

LEMMA TypeNext == TypeOK /\ Sound /\ [Next]_vars => TypeOK'
<1> SUFFICES ASSUME TypeOK, Sound, [Next]_vars PROVE TypeOK'
  OBVIOUS
<1>1. ASSUME NEW c \in Calls, AdmitCopy(c) PROVE TypeOK'
  <2>1. \A h \in Handlers : pc'[h].at = "loaded" => pc'[h].entry \in DOMAIN entries
    BY <1>1, AdmitForm DEF TypeOK
  <2> QED  BY <1>1, <2>1, AdmitForm DEF TypeOK
<1>2. CASE Watch
  BY <1>2, WatchForm DEF TypeOK
<1>3. CASE UNCHANGED <<cache, entries, phase, idx, num, data, wire, responses, pc, runs, trouble, faults>>
  BY <1>3 DEF TypeOK
<1> QED  BY <1>1, <1>2, <1>3, NextKinds, ClientType, HandlerType

-----------------------------------------------------------------------------
(* Calls, phases and handlers agree *)

LEMMA CallingForm ==
  ASSUME TypeOK, NEW s \in Sends, NEW m, NEW p, Calling(s, m, p)
  PROVE  LET d == <<s, idx[s] + 1>> IN
         /\ d \in Calls /\ idx[s] \in Nat
         /\ wire' = [wire EXCEPT ![d] = m] /\ wire'[d] = m
         /\ \A c \in Calls : c # d => wire'[c] = wire[c]
         /\ idx'[s] = idx[s] + 1 /\ num'[s] = m.num /\ phase'[s] = p
         /\ \A x \in Sends \ {s} : idx'[x] = idx[x] /\ num'[x] = num[x] /\ phase'[x] = phase[x]
<1>1. idx[s] \in Nat /\ idx[s] + 1 \in 1 .. MaxCalls[s]
  BY SizeForm DEF Calling, Call, TypeOK
<1>2. <<s, idx[s] + 1>> \in Calls
  BY <1>1, CallOf
<1>3. /\ idx' = [idx EXCEPT ![s] = idx[s] + 1] /\ num' = [num EXCEPT ![s] = m.num]
      /\ wire' = [wire EXCEPT ![<<s, idx[s] + 1>>] = m] /\ phase' = [phase EXCEPT ![s] = p]
  BY DEF Calling, Call
<1> QED  BY <1>1, <1>2, <1>3 DEF TypeOK

LEMMA CallingSound ==
  ASSUME TypeOK, Sound, NEW s \in Sends, NEW m, NEW p, Calling(s, m, p),
         UNCHANGED responses
  PROVE  WireSound' /\ PhaseSound'
<1> DEFINE d == <<s, idx[s] + 1>>
<1>1. /\ m \in Messages /\ m.num <= idx[s]
      /\ p \in {"plain", "upload", "download"}
      /\ p = "plain" => m.kind = "plain" /\ m.num = 0 /\ Size[s] = 1
      /\ p = "upload" => /\ m.kind = "block1" /\ Size[s] > 1 /\ m.num < Size[s]
                         /\ m.more <=> m.num < Size[s] - 1
                         /\ IF m.num = 0 THEN idx[s] = 0 ELSE Accepted(s, m.num - 1)
      /\ p = "download" => m.kind = "block2" /\ \E r \in responses : r.to[1] = s /\ r.block2 # None
  BY MayCallForm DEF Calling
<1>2. /\ d \in Calls /\ idx[s] \in Nat
      /\ wire'[d] = m
      /\ \A c \in Calls : c # d => wire'[c] = wire[c]
      /\ idx'[s] = idx[s] + 1 /\ num'[s] = m.num /\ phase'[s] = p
      /\ \A x \in Sends \ {s} : idx'[x] = idx[x] /\ num'[x] = num[x] /\ phase'[x] = phase[x]
  BY CallingForm
<1>3. d[1] = s /\ d[2] = idx[s] + 1
  OBVIOUS
<1> HIDE DEF d
<1>4. m # None /\ m.num \in Nat
  BY <1>1, NoneForm DEF Messages
<1>5. WireSound'
  <2> SUFFICES ASSUME NEW c \in Calls
               PROVE  /\ wire'[c] # None <=> c[2] <= idx'[c[1]]
                      /\ wire'[c] # None =>
                           /\ wire'[c].num < c[2]
                           /\ wire'[c].kind = "plain" => wire'[c].num = 0 /\ Size[c[1]] = 1
                           /\ wire'[c].kind = "block1" =>
                                /\ Size[c[1]] > 1 /\ wire'[c].num < Size[c[1]]
                                /\ wire'[c].more <=> wire'[c].num < Size[c[1]] - 1
                                /\ IF wire'[c].num = 0 THEN c[2] = 1 ELSE Accepted(c[1], wire'[c].num - 1)
                           /\ wire'[c].kind = "block2" => \E r \in responses : r.to[1] = c[1] /\ r.block2 # None
    BY DEF WireSound, Sent, Accepted
  <2>1. CASE c = d
    BY <1>1, <1>2, <1>3, <1>4, <2>1
  <2>2. CASE c # d
    <3>1. wire'[c] = wire[c]
      BY <1>2, <2>2
    <3>2. c[1] \in Sends /\ c[2] \in Nat /\ c = <<c[1], c[2]>>
      BY CallForm, SizeForm
    <3>3. c[2] <= idx'[c[1]] <=> c[2] <= idx[c[1]]
      <4>1. CASE c[1] = s
        <5>1. c[2] # idx[s] + 1
          BY <2>2, <3>2, <4>1 DEF d
        <5> QED  BY <1>2, <3>2, <4>1, <5>1
      <4>2. CASE c[1] # s
        BY <1>2, <3>2, <4>2
      <4> QED  BY <4>1, <4>2
    <3> QED  BY <3>1, <3>3 DEF Sound, WireSound, Sent, Accepted
  <2> QED  BY <2>1, <2>2
<1>6. PhaseSound'
  <2> SUFFICES ASSUME NEW x \in Sends
               PROVE  /\ phase'[x] = "idle" <=> ~(idx'[x] > 0)
                      /\ num'[x] = IF idx'[x] > 0 THEN wire'[<<x, idx'[x]>>].num ELSE 0
                      /\ phase'[x] = "plain"    => wire'[<<x, idx'[x]>>].kind = "plain"
                      /\ phase'[x] = "upload"   => wire'[<<x, idx'[x]>>].kind = "block1"
                      /\ phase'[x] = "download" => wire'[<<x, idx'[x]>>].kind = "block2"
    BY DEF PhaseSound, Begun, Current
  <2>1. CASE x = s
    <3>1. <<x, idx'[x]>> = d
      BY <1>2, <2>1 DEF d
    <3> QED  BY <1>1, <1>2, <2>1, <3>1
  <2>2. CASE x # s
    <3>1. idx'[x] = idx[x] /\ num'[x] = num[x] /\ phase'[x] = phase[x]
      BY <1>2, <2>2
    <3>2. Begun(x) => wire'[<<x, idx[x]>>] = wire[<<x, idx[x]>>]
      <4>1. Begun(x) => <<x, idx[x]>> \in Calls
        <5>1. Begun(x) => idx[x] \in 1 .. MaxCalls[x]
          BY SizeForm DEF Begun, TypeOK
        <5> QED  BY <5>1, CallOf
      <4>2. <<x, idx[x]>> # d
        BY <2>2 DEF d
      <4> QED  BY <1>2, <4>1, <4>2
    <3> QED  BY <3>1, <3>2 DEF Sound, PhaseSound, Begun, Current
  <2> QED  BY <2>1, <2>2
<1> QED  BY <1>5, <1>6

\* Handlers, responses and runs do not mind another call.
LEMMA ClientSound ==
  ASSUME TypeOK, Sound, NEW s \in Sends, Client(s)
  PROVE  Sound'
<1>1. Aside(s) /\ (Ending(s) \/ \E m, p : Calling(s, m, p))
  BY ClientKinds
<1>2. ASSUME \A c \in Calls : Sent(c) => wire'[c] = wire[c]
      PROVE  ServerSound'
  <2>1. \A c \in Calls : Sent(c) => wire'[c] # None
    BY <1>2 DEF Sent
  <2>2. \A h \in Handlers : h[1] \in Calls
    BY HandlerForm
  <2>3. \A r \in responses : r.to \in Calls
    BY DEF TypeOK, Responses
  <2>4. \A i \in DOMAIN runs : runs[i].call \in Calls
    <3>1. \A i \in DOMAIN runs : runs[i] \in Executed
      BY DEF TypeOK
    <3> QED  BY <3>1 DEF Executed
  <2>5. \A h \in Handlers :
          /\ pc[h].at # "none"  => wire'[h[1]] # None
          /\ pc[h].at = "loaded" => wire'[h[1]].kind = "block1" /\ wire'[h[1]].more /\ wire'[h[1]].num > 0
          /\ pc[h].at = "ready"  => wire'[h[1]].kind = "block1" /\ ~wire'[h[1]].more
    BY <1>2, <2>1, <2>2 DEF Sound, ServerSound, IsLast
  <2>6. \A r \in responses :
          /\ wire'[r.to] # None
          /\ r.code = "continue" =>
               wire'[r.to].kind = "block1" /\ wire'[r.to].more /\ r.block1 = wire'[r.to].num
    BY <1>2, <2>1, <2>3 DEF Sound, ServerSound
  <2>7. \A i \in DOMAIN runs : wire'[runs[i].call] # None /\ runs[i].call[1] = runs[i].send
    BY <2>1, <2>4 DEF Sound, ServerSound
  <2> QED  BY <1>1, <2>5, <2>6, <2>7 DEF Aside, ServerSound, Sent, IsLast
<1>3. ASSUME NEW m, NEW p, Calling(s, m, p) PROVE Sound'
  <2>1. WireSound' /\ PhaseSound'
    BY <1>1, <1>3, CallingSound DEF Aside
  <2>2. \A c \in Calls : Sent(c) => wire'[c] = wire[c]
    <3>1. ~Sent(<<s, idx[s] + 1>>)
      <4>1. <<s, idx[s] + 1>> \in Calls /\ idx[s] \in Nat
        BY <1>3, CallingForm
      <4> QED  BY <4>1 DEF Sound, WireSound
    <3> QED  BY <1>3, <3>1, CallingForm
  <2> QED  BY <1>2, <2>1, <2>2 DEF Sound
<1>4. CASE Ending(s)
  <2>1. UNCHANGED <<idx, num, wire>>
    BY <1>4 DEF Ending, Ends
  <2>2. PICK how \in Endings : phase' = [phase EXCEPT ![s] = how]
    BY <1>4 DEF Ending, Ends
  <2>3. WireSound'
    BY <1>1, <2>1 DEF Aside, Sound, WireSound, Sent
  <2>4. PhaseSound'
    <3>1. Begun(s)
      BY <1>4 DEF Ending
    <3>0. how \notin {"idle", "plain", "upload", "download"}
      BY DEF Endings
    <3>2. \A x \in Sends : phase'[x] = IF x = s THEN how ELSE phase[x]
      BY <2>2 DEF TypeOK
    <3>3. \A x \in Sends : phase'[x] = "idle" <=> ~Begun(x)
      BY <3>0, <3>1, <3>2 DEF Sound, PhaseSound
    <3> QED  BY <2>1, <3>0, <3>2, <3>3 DEF Sound, PhaseSound, Begun, Current
  <2>5. ServerSound'
    BY <1>2, <2>1
  <2> QED  BY <2>3, <2>4, <2>5 DEF Sound
<1> QED  BY <1>1, <1>3, <1>4

-----------------------------------------------------------------------------
(* What a step of a handler is: one of the four of an upload, an answer, or a *)
(* reply put in the cache                                                     *)

LEMMA GoesForm ==
  ASSUME TypeOK, NEW h \in Handlers, NEW st, Goes(h, st)
  PROVE  pc'[h] = st /\ \A g \in Handlers \ {h} : pc'[g] = pc[g]
BY DEF Goes, TypeOK

\* The block of a reply that is looked up for c.
Asked(c) == IF wire[c].kind = "block2" THEN wire[c].num ELSE 0

\* A response from the handler h: an error, a whole reply, or a block from the cache.
Fits(h, r) ==
  \/ r.block2 = None /\ \A k \in DOMAIN r.pieces : k = 1 /\ r.pieces[k][2] = 0
  \/ /\ r.block2 # None
     /\ pc[h].at = "stored" \/ wire[h[1]].kind = "block2"
     /\ cache \in DOMAIN entries /\ entries[cache].kind = "reply"
     /\ IF Asked(h[1]) < Len(entries[cache].pieces)
        THEN Len(r.pieces) = 1 /\ r.pieces[1] = entries[cache].pieces[Asked(h[1]) + 1]
        ELSE r.pieces = <<>>
     /\ r.block2.more => Asked(h[1]) + 1 < Len(entries[cache].pieces)

Replies(h) ==
  /\ UNCHANGED <<cache, entries, trouble>>
  /\ Goes(h, [at |-> "done"])
  /\ \/ responses' = responses
     \/ \E r \in Responses :
          /\ responses' = responses \cup {r}
          /\ r.to = h[1] /\ r.code # "continue" /\ Fits(h, r)

Caches(h) ==
  /\ \E i, n \in Nat, b \in Nat \cup {None} : Put("reply", Reply(i, n), b)
  /\ Disturbs(h[1], {})
  /\ Goes(h, [at |-> "stored"])
  /\ responses' = responses
  /\ pc[h].at = "ready" \/ wire[h[1]].kind \in {"plain", "block2"}

\* The callback runs on the body put together, or on something sent whole.
RunsFor(h) ==
  \/ runs' = runs
  \/ \E x \in Executed :
       /\ runs' = Append(runs, x) /\ x.call = h[1] /\ x.send = h[1][1]
       /\ wire[h[1]].kind = "block1" => pc[h].at = "ready" /\ x.body = pc[h].body

LEMMA ErrorFits ==
  ASSUME NEW h
  PROVE  Error(h[1]).to = h[1] /\ Error(h[1]).code # "continue" /\ Fits(h, Error(h[1]))
BY DEF Error, Response, Fits

LEMMA BlockFits ==
  ASSUME TypeOK, NEW h \in Handlers, NEW n \in Nat, n = Asked(h[1]), Holds(n),
         entries[cache].kind = "reply",
         pc[h].at = "stored" \/ wire[h[1]].kind = "block2"
  PROVE  LET r == Response(h[1], "ok", Block(n).block1, Block(n).block2, Block(n).pieces) IN
         r \in Responses /\ r.to = h[1] /\ r.code # "continue" /\ Fits(h, r)
<1> DEFINE r == Response(h[1], "ok", Block(n).block1, Block(n).block2, Block(n).pieces)
<1>1. /\ cache \in DOMAIN entries
      /\ Block(n).block1 \in Nat \cup {None} /\ Block(n).block2 \in Options
      /\ Block(n).pieces \in Seq(Pieces)
      /\ Block(n).block2.more => n + 1 < Len(entries[cache].pieces)
      /\ IF n < Len(entries[cache].pieces)
         THEN Len(Block(n).pieces) = 1 /\ Block(n).pieces[1] = entries[cache].pieces[n + 1]
         ELSE Block(n).pieces = <<>>
  BY BlockForm
<1>2. h[1] \in Calls
  BY HandlerForm
<1>3. r \in Responses
  BY <1>1, <1>2, ResponseForm
<1>4. r.to = h[1] /\ r.code = "ok" /\ r.block2 = Block(n).block2 /\ r.pieces = Block(n).pieces
  BY DEF Response
<1>5. r.block2 # None
  BY <1>1, <1>4, NoneForm
<1> HIDE DEF r
<1> QED  BY <1>1, <1>3, <1>4, <1>5 DEF Fits, r

LEMMA RunKinds ==
  ASSUME TypeOK, NEW h \in Handlers, Sent(h[1]), NEW body \in Seq(Pieces), Run(h, body),
         pc[h].at = "ready" \/ wire[h[1]].kind \in {"plain", "block2"},
         wire[h[1]].kind = "block1" => pc[h].at = "ready" /\ body = pc[h].body
  PROVE  RunsFor(h) /\ (Replies(h) \/ Caches(h))
<1> DEFINE c == h[1]
           i == Len(runs) + 1
<1>1. c \in Calls /\ c[1] \in Sends
  BY HandlerForm, CallForm
<1>2. PICK n \in ReplySizes :
         /\ n \in Nat /\ n > 0 /\ i \in Nat
         /\ ReplyBlock1(c) \in Nat \cup {None}
         /\ runs' = Append(runs, [send |-> c[1], call |-> c, body |-> body, size |-> n])
         /\ \/ /\ n = 1
               /\ Answers(h, Response(c, "ok", ReplyBlock1(c), None, Reply(i, 1)))
               /\ Response(c, "ok", ReplyBlock1(c), None, Reply(i, 1)) \in Responses
               /\ UNCHANGED <<cache, entries, trouble>>
            \/ /\ n > 1
               /\ Put("reply", Reply(i, n), ReplyBlock1(c))
               /\ Disturbs(c, {})
               /\ Goes(h, [at |-> "stored"])
               /\ responses' = responses
  BY RunForm
<1>3. RunsFor(h)
  <2> DEFINE x == [send |-> c[1], call |-> c, body |-> body, size |-> n]
  <2>1. x \in Executed
    BY <1>1 DEF Executed
  <2>2. x.send = c[1] /\ x.call = c /\ x.body = body /\ runs' = Append(runs, x)
    BY <1>2
  <2> HIDE DEF x
  <2> QED  BY <2>1, <2>2 DEF RunsFor
<1>4. CASE /\ n = 1
           /\ Answers(h, Response(c, "ok", ReplyBlock1(c), None, Reply(i, 1)))
           /\ Response(c, "ok", ReplyBlock1(c), None, Reply(i, 1)) \in Responses
           /\ UNCHANGED <<cache, entries, trouble>>
  <2> DEFINE r == Response(c, "ok", ReplyBlock1(c), None, Reply(i, 1))
  <2>1. r.to = c /\ r.code = "ok" /\ r.block2 = None /\ r.pieces = Reply(i, 1)
    BY DEF Response
  <2>2. DOMAIN Reply(i, 1) = 1 .. 1 /\ Reply(i, 1)[1][2] = 0
    BY <1>2 DEF Reply
  <2>3. Fits(h, r)
    BY <2>1, <2>2 DEF Fits
  <2>4. r \in Responses /\ responses' = responses \cup {r} /\ Goes(h, [at |-> "done"])
    BY <1>4 DEF Answers
  <2> HIDE DEF r
  <2> QED  BY <1>3, <1>4, <2>1, <2>3, <2>4 DEF Replies
<1>5. CASE /\ Put("reply", Reply(i, n), ReplyBlock1(c))
           /\ Disturbs(c, {})
           /\ Goes(h, [at |-> "stored"])
           /\ responses' = responses
  BY <1>2, <1>3, <1>5 DEF Caches
<1> QED  BY <1>2, <1>4, <1>5

LEMMA HandlerKinds ==
  ASSUME TypeOK, Sound, NEW h \in Handlers, Handler(h)
  PROVE  /\ h[1] \in Calls /\ Sent(h[1]) /\ h[1][1] \in Sends
         /\ pc[h].at # "done" /\ (h[2] = 2 => pc[h].at # "none")
         /\ RunsFor(h)
         /\ StoreFirst(h) \/ LoadForAppend(h) \/ AppendMiddle(h) \/ Reassemble(h) \/ Replies(h) \/ Caches(h)
<1> DEFINE c == h[1]
<1>0. c \in Calls /\ c[1] \in Sends
  BY HandlerForm, CallForm
<1>1. ASSUME NEW kind, Starts(h, kind)
      PROVE  /\ pc[h].at # "done" /\ (h[2] = 2 => pc[h].at # "none")
             /\ Sent(c) /\ wire[c].kind = kind /\ wire[c].num \in Nat
  BY <1>1, StartsForm
<1>2. CASE StoreFirst(h)
  BY <1>0, <1>1, <1>2 DEF StoreFirst, RunsFor
<1>3. CASE LoadForAppend(h)
  BY <1>0, <1>1, <1>3 DEF LoadForAppend, RunsFor
<1>4. CASE AppendMiddle(h)
  BY <1>0, <1>4 DEF AppendMiddle, RunsFor, Sound, ServerSound
<1>5. CASE Reassemble(h)
  BY <1>0, <1>1, <1>5 DEF Reassemble, RunsFor
<1>6. CASE RefuseBlock(h)
  <2>1. Starts(h, "block1") /\ Answers(h, Error(c)) /\ UNCHANGED <<cache, entries, runs, trouble>>
    BY <1>6 DEF RefuseBlock, cacheVars
  <2>2. Error(c) \in Responses
    BY <2>1, StartsForm, ShortResponseForm DEF Sent
  <2>3. Replies(h)
    BY <2>1, <2>2, ErrorFits DEF Replies, Answers
  <2> QED  BY <1>0, <1>1, <2>1, <2>3 DEF RunsFor
<1>7. CASE ServeCached(h)
  <2> DEFINE n == wire[c].num
             r == Response(c, "ok", Block(n).block1, Block(n).block2, Block(n).pieces)
  <2>1. /\ Starts(h, "block2") /\ Holds(n)
        /\ Goes(h, [at |-> "done"]) /\ UNCHANGED <<cache, entries, runs, trouble>>
        /\ responses' = responses \/ (entries[cache].kind = "reply" /\ responses' = responses \cup {r})
    BY <1>7 DEF ServeCached, cacheVars
  <2>2. wire[c].kind = "block2" /\ n \in Nat /\ n = Asked(c)
    BY <1>1, <2>1 DEF Asked
  <2> HIDE DEF n
  <2>3. entries[cache].kind = "reply" => r \in Responses /\ r.to = c /\ r.code # "continue" /\ Fits(h, r)
    BY <2>1, <2>2, BlockFits
  <2> HIDE DEF r
  <2>4. Replies(h)
    BY <2>1, <2>3 DEF Replies
  <2> QED  BY <1>0, <1>1, <2>1, <2>4 DEF RunsFor
<1>8. CASE RunPlain(h)
  <2>1. Starts(h, "plain") /\ Run(h, <<Piece(c)>>)
    BY <1>8 DEF RunPlain
  <2>2. <<Piece(c)>> \in Seq(Pieces) /\ wire[c].kind = "plain" /\ Sent(c)
    <3>1. Piece(c) \in Pieces /\ wire[c].kind = "plain" /\ Sent(c)
      BY <2>1, StartsForm
    <3> QED  BY <3>1
  <2> QED  BY <1>0, <1>1, <2>1, <2>2, RunKinds
<1>9. CASE RunReady(h)
  <2>1. pc[h].at = "ready" /\ Run(h, pc[h].body) /\ Sent(c)
    BY <1>9 DEF RunReady, Sound, ServerSound
  <2>2. pc[h].body \in Seq(Pieces)
    BY <2>1, ReadyForm
  <2> QED  BY <1>0, <2>1, <2>2, RunKinds
<1>10. CASE RunAgain(h)
  <2>1. Starts(h, "block2") /\ Run(h, <<>>) /\ <<>> \in Seq(Pieces)
    BY <1>10 DEF RunAgain
  <2>2. wire[c].kind = "block2" /\ Sent(c) /\ pc[h].at # "done" /\ (h[2] = 2 => pc[h].at # "none")
    BY <1>1, <2>1
  <2>3. RunsFor(h) /\ (Replies(h) \/ Caches(h))
    BY <2>1, <2>2, RunKinds
  <2> QED  BY <1>0, <2>2, <2>3
<1>11. CASE ServeStored(h)
  <2> DEFINE n == IF wire[c].kind = "block2" THEN wire[c].num ELSE 0
             r == Response(c, "ok", Block(n).block1, Block(n).block2, Block(n).pieces)
  <2>1. /\ pc[h].at = "stored" /\ UNCHANGED <<cache, entries, runs, trouble>>
        /\ \/ Answers(h, Error(c))
           \/ Holds(n) /\ entries[cache].kind = "reply" /\ Answers(h, r)
           \/ Goes(h, [at |-> "done"]) /\ responses' = responses
    BY <1>11 DEF ServeStored, cacheVars
  <2>2. Sent(c)
    BY <2>1 DEF Sound, ServerSound
  <2>3. n \in Nat /\ n = Asked(c) /\ Error(c) \in Responses
    <3>1. wire[c].num \in Nat /\ Error(c) \in Responses
      BY <1>0, <2>2, PieceForm, ShortResponseForm DEF Sent, Messages
    <3> QED  BY <3>1 DEF Asked
  <2> HIDE DEF n
  <2>4. Holds(n) /\ entries[cache].kind = "reply" => r \in Responses /\ r.to = c /\ r.code # "continue" /\ Fits(h, r)
    BY <2>1, <2>3, BlockFits
  <2> HIDE DEF r
  <2>5. Replies(h)
    BY <2>1, <2>3, <2>4, ErrorFits DEF Replies, Answers
  <2> QED  BY <1>0, <2>1, <2>2, <2>5 DEF RunsFor
<1> QED  BY <1>2, <1>3, <1>4, <1>5, <1>6, <1>7, <1>8, <1>9, <1>10, <1>11 DEF Handler

\* What every step of a handler keeps, and what it may add.
LEMMA HandlerFrame ==
  ASSUME TypeOK, Sound, NEW h \in Handlers, Handler(h)
  PROVE  /\ \A g \in Handlers \ {h} : pc'[g] = pc[g]
         /\ pc'[h].at \in {"loaded", "ready", "stored", "done"}
         /\ pc'[h].at = "loaded" => LoadForAppend(h)
         /\ pc'[h].at = "ready" => Reassemble(h)
         /\ pc'[h].at = "stored" => Caches(h)
         /\ responses \subseteq responses'
         /\ \A r \in responses' \ responses :
              \/ r = Continue(h[1]) /\ (StoreFirst(h) \/ AppendMiddle(h))
              \/ Replies(h) /\ r.to = h[1] /\ r.code # "continue" /\ Fits(h, r)
         /\ \A s \in Sends : trouble[s] \subseteq trouble'[s]
<1> DEFINE c == h[1]
<1>0. HistoryTyped /\ c \in Calls
  BY TypeParts, HandlerForm
<1>1. ASSUME NEW kinds \in SUBSET {"raced", "mixed"}, Disturbs(c, kinds)
      PROVE  \A s \in Sends : trouble[s] \subseteq trouble'[s]
  BY <1>0, <1>1, DisturbsForm
<1>2. \A st : Goes(h, st) => pc'[h] = st /\ \A g \in Handlers \ {h} : pc'[g] = pc[g]
  BY GoesForm
<1>3. CASE StoreFirst(h) \/ AppendMiddle(h)
  <2>1. Answers(h, Continue(c)) /\ \E kinds \in SUBSET {"raced", "mixed"} : Disturbs(c, kinds)
    <3>1. CASE StoreFirst(h)
      BY <3>1 DEF StoreFirst
    <3>2. CASE AppendMiddle(h)
      BY <3>2, AppendForm
    <3> QED  BY <1>3, <3>1, <3>2
  <2>2. responses' = responses \cup {Continue(c)} /\ Goes(h, [at |-> "done"])
    BY <2>1 DEF Answers
  <2>3. pc'[h] = [at |-> "done"]
    BY <1>2, <2>2
  <2>4. pc'[h].at = "done"
    BY <2>3
  <2> QED  BY <1>1, <1>2, <1>3, <2>1, <2>2, <2>4
<1>4. CASE LoadForAppend(h)
  <2>1. /\ UNCHANGED <<responses, trouble>>
        /\ Goes(h, [at |-> "loaded", entry |-> cache, read |-> entries[cache].pieces])
    BY <1>4 DEF LoadForAppend
  <2>2. pc'[h] = [at |-> "loaded", entry |-> cache, read |-> entries[cache].pieces]
    BY <1>2, <2>1
  <2>3. pc'[h].at = "loaded"
    BY <2>2
  <2> QED  BY <1>2, <1>4, <2>1, <2>3
<1>5. CASE Reassemble(h)
  <2>1. UNCHANGED <<responses, trouble>> /\ Goes(h, [at |-> "ready", body |-> Assembled(Piece(c))])
    BY <1>5 DEF Reassemble
  <2>2. pc'[h] = [at |-> "ready", body |-> Assembled(Piece(c))]
    BY <1>2, <2>1
  <2>3. pc'[h].at = "ready"
    BY <2>2
  <2> QED  BY <1>2, <1>5, <2>1, <2>3
<1>6. CASE Replies(h)
  <2>1. Goes(h, [at |-> "done"]) /\ trouble' = trouble
    BY <1>6 DEF Replies
  <2>2. pc'[h] = [at |-> "done"]
    BY <1>2, <2>1
  <2>3. pc'[h].at = "done"
    BY <2>2
  <2>4. /\ responses \subseteq responses'
        /\ \A r \in responses' \ responses : r.to = h[1] /\ r.code # "continue" /\ Fits(h, r)
    BY <1>6 DEF Replies
  <2> QED  BY <1>2, <1>6, <2>1, <2>3, <2>4
<1>7. CASE Caches(h)
  <2>1. Goes(h, [at |-> "stored"]) /\ responses' = responses /\ Disturbs(c, {})
    BY <1>7 DEF Caches
  <2>2. pc'[h] = [at |-> "stored"]
    BY <1>2, <2>1
  <2>3. pc'[h].at = "stored"
    BY <2>2
  <2> QED  BY <1>1, <1>2, <1>7, <2>1, <2>3
<1> QED  BY <1>3, <1>4, <1>5, <1>6, <1>7, HandlerKinds

LEMMA RunsGrow ==
  ASSUME TypeOK, NEW h \in Handlers, RunsFor(h)
  PROVE  \A i \in DOMAIN runs' :
           \/ i \in DOMAIN runs /\ runs'[i] = runs[i]
           \/ /\ runs'[i].call = h[1] /\ runs'[i].send = h[1][1]
              /\ wire[h[1]].kind = "block1" => pc[h].at = "ready" /\ runs'[i].body = pc[h].body
<1>1. runs \in Seq(Executed)
  BY DEF TypeOK
<1>2. CASE runs' = runs
  BY <1>2
<1>3. ASSUME NEW x \in Executed, runs' = Append(runs, x)
      PROVE  \A i \in DOMAIN runs' : (i \in DOMAIN runs /\ runs'[i] = runs[i]) \/ runs'[i] = x
  BY <1>1, <1>3
<1> QED  BY <1>2, <1>3 DEF RunsFor

LEMMA HandlerSound ==
  ASSUME TypeOK, Sound, NEW h \in Handlers, Handler(h)
  PROVE  Sound'
<1> DEFINE c == h[1]
<1>0. UNCHANGED <<phase, idx, num, data, wire>>
  BY HandlerAside
<1>1. c \in Calls /\ Sent(c) /\ c[1] \in Sends /\ RunsFor(h)
  BY HandlerKinds
<1>2. /\ \A g \in Handlers \ {h} : pc'[g] = pc[g]
      /\ pc'[h].at \in {"loaded", "ready", "stored", "done"}
      /\ pc'[h].at = "loaded" => LoadForAppend(h)
      /\ pc'[h].at = "ready" => Reassemble(h)
      /\ responses \subseteq responses'
      /\ \A r \in responses' \ responses :
           (r = Continue(c) /\ (StoreFirst(h) \/ AppendMiddle(h))) \/ (r.to = c /\ r.code # "continue")
  BY HandlerFrame
<1>3. WireSound'
  <2>1. \A x \in Calls : wire'[x] = wire[x] /\ idx'[x[1]] = idx[x[1]]
    BY <1>0
  <2> QED  BY <1>2, <2>1 DEF Sound, WireSound, Sent
<1>4. PhaseSound'
  BY <1>0 DEF Sound, PhaseSound, Begun, Current
<1>5. LoadForAppend(h) => wire[c].kind = "block1" /\ wire[c].more /\ wire[c].num > 0
  BY DEF LoadForAppend, Starts
<1>6. Reassemble(h) => IsLast(c)
  BY DEF Reassemble, Starts, IsLast
<1>7. /\ Continue(c).to = c /\ Continue(c).block1 = wire[c].num
      /\ StoreFirst(h) \/ AppendMiddle(h) => wire[c].kind = "block1" /\ wire[c].more
  <2>1. Continue(c).to = c /\ Continue(c).block1 = wire[c].num
    BY DEF Continue, Response
  <2>2. CASE AppendMiddle(h)
    BY <2>1, <2>2, AppendForm
  <2>3. CASE StoreFirst(h)
    <3>1. wire[c].kind = "block1" /\ wire[c].num = 0
      BY <2>3 DEF StoreFirst, Starts
    <3>2. /\ Size[c[1]] > 1 /\ Size[c[1]] \in Nat
          /\ wire[c].more <=> wire[c].num < Size[c[1]] - 1
      BY <1>1, <3>1, SizeForm DEF Sound, WireSound
    <3> QED  BY <2>1, <3>1, <3>2
  <2> QED  BY <2>1, <2>2, <2>3
<1>8. \A g \in Handlers :
        /\ pc'[g].at # "none"  => Sent(g[1])
        /\ pc'[g].at = "loaded" => wire[g[1]].kind = "block1" /\ wire[g[1]].more /\ wire[g[1]].num > 0
        /\ pc'[g].at = "ready"  => IsLast(g[1])
  <2> TAKE g \in Handlers
  <2>1. CASE g = h
    BY <1>1, <1>2, <1>5, <1>6, <2>1
  <2>2. CASE g # h
    BY <1>2, <2>2 DEF Sound, ServerSound
  <2> QED  BY <2>1, <2>2
<1>9. \A r \in responses' :
        /\ Sent(r.to)
        /\ r.code = "continue" =>
             wire[r.to].kind = "block1" /\ wire[r.to].more /\ r.block1 = wire[r.to].num
  <2> TAKE r \in responses'
  <2>1. CASE r \in responses
    BY <2>1 DEF Sound, ServerSound
  <2>2. CASE r \notin responses
    BY <1>1, <1>2, <1>7, <2>2
  <2> QED  BY <2>1, <2>2
<1>10. \A i \in DOMAIN runs' : Sent(runs'[i].call) /\ runs'[i].call[1] = runs'[i].send
  BY <1>1, RunsGrow DEF Sound, ServerSound
<1>11. ServerSound'
  <2>1. \A x : Sent(x) <=> wire'[x] # None
    BY <1>0 DEF Sent
  <2>2. \A x : IsLast(x) <=> (wire'[x].kind = "block1" /\ ~wire'[x].more)
    BY <1>0 DEF IsLast
  <2> QED  BY <1>0, <1>8, <1>9, <1>10, <2>1, <2>2 DEF ServerSound, Sent, IsLast
<1> QED  BY <1>3, <1>4, <1>11 DEF Sound

LEMMA SoundNext == TypeOK /\ Sound /\ [Next]_vars => Sound'
<1> SUFFICES ASSUME TypeOK, Sound, [Next]_vars PROVE Sound'
  OBVIOUS
<1>0. ASSUME UNCHANGED <<idx, wire, phase, num, responses, runs>>
      PROVE  /\ WireSound' /\ PhaseSound'
             /\ (\A h \in Handlers : pc'[h] = pc[h] \/ (pc'[h].at = "admitted" /\ Sent(h[1]))) => ServerSound'
  <2>1. WireSound' /\ PhaseSound'
    BY <1>0 DEF Sound, WireSound, PhaseSound, Sent, Begun, Current
  <2>2. ASSUME \A h \in Handlers : pc'[h] = pc[h] \/ (pc'[h].at = "admitted" /\ Sent(h[1]))
        PROVE  ServerSound'
    <3>1. \A h \in Handlers :
           /\ pc'[h].at # "none"  => Sent(h[1])
           /\ pc'[h].at = "loaded" => wire[h[1]].kind = "block1" /\ wire[h[1]].more /\ wire[h[1]].num > 0
           /\ pc'[h].at = "ready"  => IsLast(h[1])
      BY <2>2 DEF Sound, ServerSound
    <3> QED  BY <1>0, <3>1 DEF Sound, ServerSound, Sent, IsLast
  <2> QED  BY <2>1, <2>2
<1>1. ASSUME NEW c \in Calls, AdmitCopy(c) PROVE Sound'
  <2>1. /\ UNCHANGED <<idx, wire, phase, num, responses, runs>> /\ Sent(c)
        /\ \A h \in Handlers : h[1] # c => pc'[h] = pc[h]
        /\ \A h \in Handlers : h[1] = c => pc'[h].at = "admitted"
    BY <1>1, AdmitForm
  <2>2. \A h \in Handlers : pc'[h] = pc[h] \/ (pc'[h].at = "admitted" /\ Sent(h[1]))
    BY <2>1
  <2> QED  BY <1>0, <2>1, <2>2 DEF Sound
<1>2. CASE Watch
  BY <1>0, <1>2, WatchForm DEF Sound
<1>3. CASE UNCHANGED <<cache, entries, phase, idx, num, data, wire, responses, pc, runs, trouble, faults>>
  BY <1>0, <1>3 DEF Sound
<1> QED  BY <1>1, <1>2, <1>3, NextKinds, ClientSound, HandlerSound

-----------------------------------------------------------------------------
(* What no step takes back *)

LEMMA ClientWire ==
  ASSUME TypeOK, Sound, NEW s \in Sends, Client(s)
  PROVE  Aside(s) /\ \A c \in Calls : Sent(c) => wire'[c] = wire[c]
<1>1. Aside(s) /\ (Ending(s) \/ \E m, p : Calling(s, m, p))
  BY ClientKinds
<1>2. CASE Ending(s)
  BY <1>1, <1>2 DEF Ending, Ends
<1>3. ASSUME NEW m, NEW p, Calling(s, m, p)
      PROVE  \A c \in Calls : Sent(c) => wire'[c] = wire[c]
  <2>1. ~Sent(<<s, idx[s] + 1>>)
    <3>1. <<s, idx[s] + 1>> \in Calls /\ idx[s] \in Nat
      BY <1>3, CallingForm
    <3> QED  BY <3>1 DEF Sound, WireSound
  <2> QED  BY <1>3, <2>1, CallingForm
<1> QED  BY <1>1, <1>2, <1>3

LEMMA NextMonotone ==
  ASSUME TypeOK, Sound, [Next]_vars
  PROVE  /\ \A s \in Sends : trouble[s] \subseteq trouble'[s]
         /\ responses \subseteq responses'
         /\ \A c \in Calls : Sent(c) => wire'[c] = wire[c]
         /\ \A h \in Handlers : pc[h].at # "none" => pc'[h].at # "none"
<1>1. ASSUME NEW s \in Sends, Client(s)
      PROVE  /\ UNCHANGED <<responses, pc>> /\ \A c \in Calls : Sent(c) => wire'[c] = wire[c]
             /\ \A x \in Sends : trouble[x] \subseteq trouble'[x]
  <2>1. Aside(s) /\ \A c \in Calls : Sent(c) => wire'[c] = wire[c]
    BY <1>1, ClientWire
  <2> QED  BY <2>1 DEF Aside, TypeOK
<1>2. ASSUME NEW h \in Handlers, Handler(h)
      PROVE  /\ \A s \in Sends : trouble[s] \subseteq trouble'[s]
             /\ responses \subseteq responses' /\ wire' = wire
             /\ \A g \in Handlers : pc[g].at # "none" => pc'[g].at # "none"
  <2>1. \A g \in Handlers \ {h} : pc'[g] = pc[g]
    BY <1>2, HandlerFrame
  <2>2. pc'[h].at # "none" /\ responses \subseteq responses' /\ \A s \in Sends : trouble[s] \subseteq trouble'[s]
    BY <1>2, HandlerFrame
  <2>3. wire' = wire
    BY <1>2, HandlerAside
  <2> QED  BY <2>1, <2>2, <2>3
<1>3. ASSUME NEW c \in Calls, AdmitCopy(c)
      PROVE  /\ \A s \in Sends : trouble[s] \subseteq trouble'[s]
             /\ UNCHANGED <<responses, wire>>
             /\ \A g \in Handlers : pc[g].at # "none" => pc'[g].at # "none"
  <2>1. /\ \A h \in Handlers : h[1] # c => pc'[h] = pc[h]
        /\ \A h \in Handlers : h[1] = c => pc'[h].at = "admitted"
    BY <1>3, AdmitForm
  <2>2. UNCHANGED <<responses, wire>> /\ \A s \in Sends : trouble[s] \subseteq trouble'[s]
    BY <1>3, AdmitForm
  <2> QED  BY <2>1, <2>2
<1>4. CASE Watch
  BY <1>4, WatchForm
<1> QED  BY <1>1, <1>2, <1>3, <1>4, NextKinds

LEMMA CalmBefore ==
  ASSUME TypeOK, Sound, [Next]_vars, NEW s \in Sends, Calm(s)'
  PROVE  Calm(s)
BY NextMonotone DEF Calm

LEMMA LastStartedStays ==
  ASSUME TypeOK, Sound, [Next]_vars, NEW s \in Sends, LastStarted(s)
  PROVE  LastStarted(s)'
<1>1. PICK c \in Calls : c[1] = s /\ Sent(c) /\ IsLast(c) /\ pc[<<c, 1>>].at # "none"
  BY DEF LastStarted
<1>2. wire'[c] = wire[c]
  BY <1>1, NextMonotone
<1>3. <<c, 1>> \in Handlers
  BY HandlerOf
<1>4. pc'[<<c, 1>>].at # "none"
  BY <1>1, <1>3, NextMonotone
<1> QED  BY <1>1, <1>2, <1>4 DEF LastStarted, Sent, IsLast

\* Only the reply of a callback makes a Send one whose reply has been cached.
LEMMA CachedBefore ==
  ASSUME TypeOK, Sound, NEW h \in Handlers, Handler(h), NEW s \in Sends, Cached(s)'
  PROVE  Cached(s) \/ (Caches(h) /\ h[1][1] = s)
<1>1. CASE \E g \in Handlers : g[1][1] = s /\ pc'[g].at = "stored"
  BY <1>1, HandlerFrame DEF Cached
<1>2. ASSUME NEW r \in responses', r.to[1] = s, r.block2 # None, r \notin responses
      PROVE  Cached(s)
  <2>1. Continue(h[1]).block2 = None
    BY DEF Continue, Response
  <2>2. r.to = h[1] /\ Fits(h, r)
    BY <1>2, <2>1, HandlerFrame
  <2>3. CASE pc[h].at = "stored"
    BY <1>2, <2>2, <2>3 DEF Cached
  <2>4. CASE wire[h[1]].kind = "block2"
    <3>1. h[1] \in Calls /\ Sent(h[1])
      BY HandlerKinds
    <3> QED  BY <1>2, <2>2, <2>4, <3>1 DEF Cached, Sound, WireSound
  <2> QED  BY <1>2, <2>2, <2>3, <2>4 DEF Fits
<1> QED  BY <1>1, <1>2 DEF Cached

LEMMA CachedBegun ==
  ASSUME TypeOK, Sound, NEW s \in Sends, Cached(s)
  PROVE  Begun(s)
<1>1. ASSUME NEW c \in Calls, c[1] = s, Sent(c) PROVE Begun(s)
  BY <1>1, CallForm, SizeForm DEF Sound, WireSound, Begun, TypeOK
<1>2. CASE \E h \in Handlers : h[1][1] = s /\ pc[h].at = "stored"
  BY <1>1, <1>2, HandlerForm DEF Sound, ServerSound
<1>3. CASE \E r \in responses : r.to[1] = s /\ r.block2 # None
  <2>1. \A r \in responses : r.to \in Calls /\ Sent(r.to)
    BY DEF Sound, ServerSound, TypeOK, Responses
  <2> QED  BY <1>1, <1>3, <2>1
<1> QED  BY <1>2, <1>3 DEF Cached

-----------------------------------------------------------------------------
(* The order of blocks and handlers *)

LEMMA OneHandlerNext ==
  ASSUME TypeOK, Sound, OneHandler, [Next]_vars
  PROVE  OneHandler'
<1>0. \A s \in Sends : trouble[s] \subseteq trouble'[s]
  BY NextMonotone
<1>1. ASSUME pc' = pc PROVE OneHandler'
  <2>1. \A h \in Handlers : h[1][1] \in Sends
    BY HandlerForm, CallForm
  <2> QED  BY <1>0, <1>1, <2>1 DEF OneHandler
<1>2. ASSUME NEW s \in Sends, Client(s) PROVE OneHandler'
  BY <1>1, <1>2, ClientWire DEF Aside
<1>3. ASSUME NEW h \in Handlers, Handler(h) PROVE OneHandler'
  <2> SUFFICES ASSUME NEW g \in Handlers, "copied" \notin trouble'[g[1][1]]
               PROVE  pc'[g].at # "admitted" /\ (g[2] = 2 => pc'[g].at = "none")
    BY DEF OneHandler
  <2>1. "copied" \notin trouble[g[1][1]]
    BY <1>0, HandlerForm, CallForm
  <2>2. pc[g].at # "admitted" /\ (g[2] = 2 => pc[g].at = "none")
    BY <2>1 DEF OneHandler
  <2>3. CASE g = h
    <3>1. pc'[h].at # "admitted"
      BY <1>3, HandlerFrame
    <3>2. h[2] = 2 => pc[h].at # "none"
      BY <1>3, HandlerKinds
    <3> QED  BY <2>2, <2>3, <3>1, <3>2
  <2>4. CASE g # h
    BY <1>3, <2>2, <2>4, HandlerFrame
  <2> QED  BY <2>3, <2>4
<1>4. ASSUME NEW c \in Calls, AdmitCopy(c) PROVE OneHandler'
  <2> SUFFICES ASSUME NEW g \in Handlers, "copied" \notin trouble'[g[1][1]]
               PROVE  pc'[g].at # "admitted" /\ (g[2] = 2 => pc'[g].at = "none")
    BY DEF OneHandler
  <2>1. "copied" \notin trouble[g[1][1]]
    BY <1>0, HandlerForm, CallForm
  <2>2. "copied" \in trouble'[c[1]]
    <3>1. c[1] \in Sends /\ trouble' = [trouble EXCEPT ![c[1]] = trouble[c[1]] \cup {"copied"}]
      BY <1>4, AdmitForm
    <3> QED  BY <3>1 DEF TypeOK
  <2>3. pc'[g] = pc[g]
    <3>1. \A f \in Handlers : f[1] # c => pc'[f] = pc[f]
      BY <1>4, AdmitForm
    <3>2. g[1] # c
      BY <2>2
    <3> QED  BY <3>1, <3>2
  <2> QED  BY <2>1, <2>3 DEF OneHandler
<1>5. CASE Watch
  BY <1>1, <1>5, WatchForm
<1>6. CASE UNCHANGED <<cache, entries, phase, idx, num, data, wire, responses, pc, runs, trouble, faults>>
  BY <1>1, <1>6
<1> QED  BY <1>2, <1>3, <1>4, <1>5, <1>6, NextKinds

LEMMA BlocksInOrderNext ==
  ASSUME TypeOK, Sound, BlocksInOrder, [Next]_vars
  PROVE  BlocksInOrder'
<1>1. CASE wire' = wire
  BY <1>1 DEF BlocksInOrder, Sent, IsLast
<1>2. ASSUME NEW s \in Sends, NEW m, NEW p, Calling(s, m, p) PROVE BlocksInOrder'
  <2> DEFINE n == <<s, idx[s] + 1>>
  <2>1. /\ n \in Calls /\ idx[s] \in Nat /\ wire'[n] = m
        /\ \A c \in Calls : c # n => wire'[c] = wire[c]
    BY <1>2, CallingForm
  <2>2. n[1] = s /\ n[2] = idx[s] + 1
    OBVIOUS
  <2> HIDE DEF n
  <2>3. \A c \in Calls : Sent(c) <=> c[2] <= idx[c[1]]
    BY DEF Sound, WireSound
  <2> SUFFICES ASSUME NEW c \in Calls, NEW d \in Calls, wire'[c] # None, wire'[d] # None,
                      c[1] = d[1], c[2] < d[2], wire'[c].kind = "block1", ~wire'[c].more
               PROVE  wire'[d].kind # "block1"
    BY DEF BlocksInOrder, Sent, IsLast
  <2>4. CASE c # n /\ d # n
    BY <2>1, <2>4 DEF BlocksInOrder, Sent, IsLast
  <2>5. c # n
    <3> SUFFICES ASSUME c = n PROVE FALSE
      OBVIOUS
    <3>1. d # n /\ d[1] = s /\ d[2] > idx[s] + 1 /\ d[2] \in Nat
      BY <2>1, <2>2, CallForm, SizeForm
    <3>2. Sent(d)
      BY <2>1, <3>1 DEF Sent
    <3> QED  BY <2>1, <2>3, <3>1, <3>2
  <2>6. CASE d = n
    <3>1. Sent(c) /\ IsLast(c) /\ c[1] = s
      BY <2>1, <2>2, <2>5, <2>6 DEF Sent, IsLast
    <3>2. c[2] <= idx[s] /\ c[2] \in Nat /\ c[2] > 0
      BY <2>3, <3>1, CallForm, SizeForm
    <3>3. Begun(s)
      BY <2>1, <3>2 DEF Begun
    <3>4. SUFFICES ASSUME m.kind = "block1" PROVE FALSE
      BY <2>1, <2>6
    <3>5. MayCall(s, m, p)
      BY <1>2 DEF Calling
    <3>6. phase[s] = "upload" /\ wire[Current(s)].more
      BY <3>3, <3>4, <3>5 DEF MayCall, Block2
    <3>7. Current(s) \in Calls /\ Sent(Current(s)) /\ wire[Current(s)].kind = "block1"
      BY <3>3, <3>6, NumBelow, TypeParts DEF Sound, PhaseSound
    <3>8. Current(s)[1] = s /\ Current(s)[2] = idx[s]
      BY DEF Current
    <3>9. c[2] # idx[s]
      <4> SUFFICES ASSUME c[2] = idx[s] PROVE FALSE
        OBVIOUS
      <4>1. c = Current(s)
        BY <3>1, CallForm DEF Current
      <4> QED  BY <3>1, <3>6, <4>1 DEF IsLast
    <3>10. c[2] < idx[s]
      BY <2>1, <3>2, <3>9
    <3> QED  BY <3>1, <3>7, <3>8, <3>10 DEF BlocksInOrder
  <2> QED  BY <2>4, <2>5, <2>6
<1>3. ASSUME NEW s \in Sends, Client(s) PROVE BlocksInOrder'
  BY <1>1, <1>2, <1>3, ClientKinds DEF Ending, Ends
<1>4. ASSUME NEW c \in Calls, AdmitCopy(c) PROVE wire' = wire
  BY <1>4, AdmitForm
<1> QED  BY <1>1, <1>3, <1>4, NextKinds, HandlerAside, WatchForm

LEMMA CachedAfterLastNext ==
  ASSUME TypeOK, Sound, OneHandler, CachedAfterLast, [Next]_vars
  PROVE  CachedAfterLast'
<1> SUFFICES ASSUME NEW s \in Sends, Size[s] > 1, Calm(s)', Cached(s)'
             PROVE  LastStarted(s)'
  BY DEF CachedAfterLast
<1>1. Calm(s)
  BY CalmBefore
<1>2. ASSUME Cached(s) PROVE LastStarted(s)'
  BY <1>1, <1>2, LastStartedStays DEF CachedAfterLast
<1>3. ASSUME responses' = responses, \A h \in Handlers : pc'[h] = pc[h] \/ pc'[h].at = "admitted"
      PROVE  LastStarted(s)'
  <2>1. Cached(s)
    BY <1>3 DEF Cached
  <2> QED  BY <1>2, <2>1
<1>4. ASSUME NEW x \in Sends, Client(x) PROVE LastStarted(s)'
  BY <1>3, <1>4, ClientWire DEF Aside
<1>5. ASSUME NEW h \in Handlers, Handler(h) PROVE LastStarted(s)'
  <2>1. SUFFICES ASSUME Caches(h), h[1][1] = s, ~Cached(s) PROVE LastStarted(s)'
    BY <1>2, <1>5, CachedBefore
  <2>2. h[1] \in Calls /\ Sent(h[1])
    BY <1>5, HandlerKinds
  <2>3. wire[h[1]].kind # "plain"
    BY <2>1, <2>2, SizeForm DEF Sound, WireSound
  <2>4. wire[h[1]].kind # "block2"
    BY <2>1, <2>2 DEF Cached, Sound, WireSound
  <2>5. pc[h].at = "ready" /\ IsLast(h[1])
    BY <2>1, <2>3, <2>4 DEF Caches, Sound, ServerSound
  <2>6. h = <<h[1], 1>>
    <3>1. "copied" \notin trouble[h[1][1]]
      BY <1>1, <2>1 DEF Calm
    <3>2. h[2] # 2
      BY <2>5, <3>1 DEF OneHandler
    <3> QED  BY <3>2, HandlerForm
  <2>7. LastStarted(s)
    BY <2>1, <2>2, <2>5, <2>6 DEF LastStarted
  <2> QED  BY <2>7, LastStartedStays
<1>6. ASSUME NEW c \in Calls, AdmitCopy(c) PROVE LastStarted(s)'
  BY <1>3, <1>6, AdmitForm
<1>7. CASE Watch
  BY <1>3, <1>7, WatchForm
<1>8. CASE UNCHANGED <<cache, entries, phase, idx, num, data, wire, responses, pc, runs, trouble, faults>>
  BY <1>3, <1>8
<1> QED  BY <1>4, <1>5, <1>6, <1>7, <1>8, NextKinds

-----------------------------------------------------------------------------
(* The blocks of replies *)

\* What AppendMiddle does to the entries.
LEMMA AppendEntries ==
  ASSUME TypeOK, Sound, NEW h \in Handlers, AppendMiddle(h)
  PROVE  LET c == h[1]
             e == pc[h].entry
         IN
         /\ cache' = cache /\ DOMAIN entries' = DOMAIN entries
         /\ \A x \in DOMAIN entries \ {e} : entries'[x] = entries[x]
         /\ entries'[e].kind = entries[e].kind /\ entries'[e].last = wire[c].num
         /\ \E base \in {pc[h].read, entries[e].pieces} : entries'[e].pieces = Append(base, Piece(c))
<1> DEFINE c == h[1]
           e == pc[h].entry
<1>1. CacheTyped /\ e \in DOMAIN entries /\ wire[c].num \in Nat /\ cache' = cache
  BY AppendForm, TypeParts
<1>2. PICK base \in {pc[h].read, entries[e].pieces} :
        /\ Extends(e, wire[c].num, Append(base, Piece(c)))
        /\ Append(base, Piece(c)) \in Seq(Pieces)
  BY AppendForm
<1> DEFINE p == Append(base, Piece(c))
<1>3. p \in Seq(Pieces) /\ Extends(e, wire[c].num, p)
  BY <1>2
<1> HIDE DEF p, e, c
<1>4. /\ DOMAIN entries' = DOMAIN entries
      /\ \A x \in DOMAIN entries \ {e} : entries'[x] = entries[x]
      /\ entries'[e].kind = entries[e].kind
      /\ entries'[e].last = wire[c].num /\ entries'[e].pieces = p
  BY <1>1, <1>3, AppendTyped
<1> QED  BY <1>1, <1>4 DEF p, e, c

\* What is put in the cache.
LEMMA CachesForm ==
  ASSUME TypeOK, NEW h \in Handlers, Caches(h)
  PROVE  /\ cache' \in DOMAIN entries' /\ cache' # None
         /\ DOMAIN entries \subseteq DOMAIN entries'
         /\ \A x \in DOMAIN entries : entries'[x] = entries[x]
         /\ entries'[cache'].kind = "reply" /\ InPlace(entries'[cache'].pieces)
<1>1. PICK i \in Nat, n \in Nat, b \in Nat \cup {None} : Put("reply", Reply(i, n), b)
  BY DEF Caches
<1>2. CacheTyped /\ Reply(i, n) \in Seq(Pieces)
  BY TypeParts, ReplyForm
<1>3. /\ cache' \in DOMAIN entries' /\ cache' # None
      /\ DOMAIN entries \subseteq DOMAIN entries'
      /\ \A x \in DOMAIN entries : entries'[x] = entries[x]
      /\ entries'[cache'] = [kind |-> "reply", pieces |-> Reply(i, n), last |-> 0, block1 |-> b]
  BY <1>1, <1>2, PutForm
<1>4. InPlace(Reply(i, n))
  BY DEF InPlace, Reply
<1> QED  BY <1>3, <1>4

LEMMA FirstForm ==
  ASSUME TypeOK, NEW h \in Handlers, StoreFirst(h)
  PROVE  /\ cache' \in DOMAIN entries' /\ cache' # None
         /\ DOMAIN entries \subseteq DOMAIN entries'
         /\ \A x \in DOMAIN entries : entries'[x] = entries[x]
         /\ entries'[cache'] = [kind |-> "request", pieces |-> <<Piece(h[1])>>, last |-> 0, block1 |-> None]
<1>1. Put("request", <<Piece(h[1])>>, None) /\ Starts(h, "block1")
  BY DEF StoreFirst
<1>2. CacheTyped /\ Piece(h[1]) \in Pieces
  BY <1>1, TypeParts, StartsForm
<1>3. <<Piece(h[1])>> \in Seq(Pieces)
  BY <1>2
<1> QED  BY <1>1, <1>2, <1>3, PutForm

LEMMA RepliesInPlaceNext ==
  ASSUME TypeOK, Sound, RepliesInPlace, [Next]_vars
  PROVE  RepliesInPlace'
<1> SUFFICES ASSUME NEW s \in Sends, Cached(s)', "mixed" \notin trouble'[s],
                    cache' # None, entries'[cache'].kind = "reply"
             PROVE  InPlace(entries'[cache'].pieces)
  BY DEF RepliesInPlace, InPlace
<1>1. "mixed" \notin trouble[s]
  BY NextMonotone
<1>2. ASSUME Cached(s), UNCHANGED <<cache, entries>> PROVE InPlace(entries'[cache'].pieces)
  BY <1>1, <1>2 DEF RepliesInPlace
<1>3. ASSUME responses' = responses, \A h \in Handlers : pc'[h] = pc[h] \/ pc'[h].at = "admitted"
      PROVE  Cached(s)
  BY <1>3 DEF Cached
<1>4. ASSUME NEW x \in Sends, Client(x) PROVE InPlace(entries'[cache'].pieces)
  BY <1>2, <1>3, <1>4, ClientWire DEF Aside
<1>5. ASSUME NEW h \in Handlers, Handler(h) PROVE InPlace(entries'[cache'].pieces)
  <2>1. CASE Caches(h)
    BY <2>1, CachesForm
  <2>2. SUFFICES ASSUME ~Caches(h) PROVE InPlace(entries'[cache'].pieces)
    BY <2>1
  <2>3. Cached(s) /\ Begun(s)
    BY <1>5, <2>2, CachedBefore, CachedBegun
  <2>4. CASE StoreFirst(h)
    <3>1. entries'[cache'] = [kind |-> "request", pieces |-> <<Piece(h[1])>>, last |-> 0, block1 |-> None]
      BY <2>4, FirstForm
    <3>2. entries'[cache'].kind = "request"
      BY <3>1
    <3> QED  BY <3>2
  <2>5. CASE LoadForAppend(h) \/ Reassemble(h) \/ Replies(h)
    <3>1. UNCHANGED <<cache, entries>>
      BY <2>5 DEF LoadForAppend, Reassemble, Replies, cacheVars
    <3> QED  BY <1>2, <2>3, <3>1
  <2>6. CASE AppendMiddle(h)
    <3> DEFINE e == pc[h].entry
    <3>1. /\ cache' = cache
          /\ cache # e => entries'[cache] = entries[cache]
          /\ entries'[e].kind = entries[e].kind
      BY <2>6, AppendEntries DEF TypeOK
    <3>2. CASE cache # e
      BY <1>1, <2>3, <3>1, <3>2 DEF RepliesInPlace
    <3>3. CASE cache = e
      <4>1. entries[e].kind = "reply"
        BY <3>1, <3>3
      <4>2. PICK kinds \in SUBSET {"raced", "mixed"} : Disturbs(h[1], kinds) /\ "mixed" \in kinds
        BY <2>6, <4>1, AppendForm
      <4>3. h[1] \in Calls /\ HistoryTyped
        BY HandlerForm, TypeParts
      <4>4. /\ trouble'[h[1][1]] = trouble[h[1][1]] \cup kinds
            /\ \A x \in Sends \ {h[1][1]} :
                 trouble'[x] = IF Begun(x) THEN trouble[x] \cup kinds \cup {"others"} ELSE trouble[x]
        BY <4>2, <4>3, DisturbsForm
      <4>5. "mixed" \in trouble'[s]
        BY <2>3, <4>2, <4>4
      <4> QED  BY <4>5
    <3> QED  BY <3>2, <3>3
  <2> QED  BY <1>5, <2>2, <2>4, <2>5, <2>6, HandlerKinds
<1>6. ASSUME NEW c \in Calls, AdmitCopy(c) PROVE InPlace(entries'[cache'].pieces)
  BY <1>2, <1>3, <1>6, AdmitForm
<1>7. CASE Watch
  BY <1>7, WatchForm
<1>8. CASE UNCHANGED <<cache, entries, phase, idx, num, data, wire, responses, pc, runs, trouble, faults>>
  BY <1>2, <1>3, <1>8
<1> QED  BY <1>4, <1>5, <1>6, <1>7, <1>8, NextKinds

\* The one piece of a response is the one asked for.
OneInPlace(r) ==
  /\ \A k \in DOMAIN r.pieces :
       k = 1 /\ r.pieces[k][2] =
         IF wire[r.to].kind = "block2" /\ r.block2 # None THEN wire[r.to].num ELSE 0
  /\ r.block2 # None /\ r.block2.more => Len(r.pieces) = 1

LEMMA FitsInPlace ==
  ASSUME TypeOK, Sound, RepliesInPlace, NEW h \in Handlers, NEW r \in Responses,
         r.to = h[1], Sent(h[1]), Fits(h, r), "mixed" \notin trouble[h[1][1]]
  PROVE  OneInPlace(r)
<1> DEFINE c == h[1]
           p == entries[cache].pieces
           n == Asked(c)
<1>1. c \in Calls /\ c[1] \in Sends /\ wire[c].num \in Nat
  BY HandlerForm, CallForm, PieceForm DEF Sent, Messages
<1>2. CASE r.block2 = None /\ \A k \in DOMAIN r.pieces : k = 1 /\ r.pieces[k][2] = 0
  BY <1>2 DEF OneInPlace
<1>3. CASE /\ r.block2 # None
           /\ pc[h].at = "stored" \/ wire[h[1]].kind = "block2"
           /\ cache \in DOMAIN entries /\ entries[cache].kind = "reply"
           /\ IF n < Len(p)
              THEN Len(r.pieces) = 1 /\ r.pieces[1] = p[n + 1]
              ELSE r.pieces = <<>>
           /\ r.block2.more => n + 1 < Len(p)
  <2>1. Cached(c[1])
    BY <1>1, <1>3 DEF Cached, Sound, WireSound
  <2>2. cache # None
    BY <1>3, NoneForm DEF TypeOK
  <2>3. InPlace(p)
    BY <1>1, <1>3, <2>1, <2>2 DEF RepliesInPlace
  <2>4. n \in Nat /\ n = IF wire[c].kind = "block2" THEN wire[c].num ELSE 0
    BY <1>1 DEF Asked
  <2>5. p \in Seq(Pieces) /\ r.pieces \in Seq(Pieces)
    BY <1>3, EntryForm DEF Responses
  <2> HIDE DEF n, p
  <2>6. CASE n < Len(p)
    <3>1. n + 1 \in DOMAIN p /\ n + 1 - 1 = n
      BY <2>4, <2>5, <2>6
    <3>2. p[n + 1][2] = n
      <4> DEFINE j == n + 1
      <4>1. j \in DOMAIN p /\ j - 1 = n
        BY <2>4, <3>1
      <4> HIDE DEF j
      <4>2. p[j][2] = j - 1
        BY <2>3, <4>1 DEF InPlace
      <4> QED  BY <4>1, <4>2 DEF j
    <3>3. Len(r.pieces) = 1 /\ r.pieces[1] = p[n + 1]
      BY <1>3, <2>6
    <3>4. DOMAIN r.pieces = {1}
      BY <2>5, <3>3
    <3> QED  BY <1>3, <2>4, <3>2, <3>3, <3>4 DEF OneInPlace
  <2>7. CASE ~(n < Len(p))
    <3>1. r.pieces = <<>> /\ ~(n + 1 < Len(p))
      <4>1. Len(p) \in Nat
        BY <2>5
      <4> QED  BY <1>3, <2>4, <2>7, <4>1
    <3>2. DOMAIN r.pieces = {}
      BY <3>1
    <3> QED  BY <1>3, <3>1, <3>2 DEF OneInPlace
  <2> QED  BY <2>6, <2>7
<1> QED  BY <1>2, <1>3 DEF Fits

LEMMA ResponsesInPlaceNext ==
  ASSUME TypeOK, Sound, RepliesInPlace, ResponsesInPlace, [Next]_vars
  PROVE  ResponsesInPlace'
<1>1. \A r \in responses : r.to \in Calls /\ Sent(r.to) /\ r.to[1] \in Sends
  BY CallForm DEF TypeOK, Responses, Sound, ServerSound
<1>2. \A r \in responses : "mixed" \notin trouble'[r.to[1]] =>
        /\ wire'[r.to] = wire[r.to]
        /\ OneInPlace(r)
  BY <1>1, NextMonotone DEF ResponsesInPlace, OneInPlace
<1>3. ASSUME responses' = responses PROVE ResponsesInPlace'
  BY <1>2, <1>3 DEF ResponsesInPlace, OneInPlace
<1>4. ASSUME NEW h \in Handlers, Handler(h) PROVE ResponsesInPlace'
  <2>0. wire' = wire /\ h[1] \in Calls /\ Sent(h[1]) /\ h[1][1] \in Sends
    BY <1>4, HandlerAside, HandlerKinds
  <2>1. SUFFICES ASSUME NEW r \in responses', r \notin responses, "mixed" \notin trouble'[r.to[1]]
                 PROVE  OneInPlace(r)
    <3>1. \A r \in responses' : "mixed" \notin trouble'[r.to[1]] => OneInPlace(r)
      BY <1>2, <2>1
    <3> QED  BY <2>0, <3>1 DEF ResponsesInPlace, OneInPlace
  <2>2. CASE r = Continue(h[1])
    <3>1. r.block2 = None /\ r.pieces = <<>>
      BY <2>2 DEF Continue, Response
    <3>2. DOMAIN r.pieces = {}
      BY <3>1
    <3> QED  BY <3>1, <3>2 DEF OneInPlace
  <2>3. CASE Replies(h) /\ r.to = h[1] /\ r.code # "continue" /\ Fits(h, r)
    <3>1. r \in Responses
      BY <2>1, <2>3 DEF Replies, TypeOK
    <3>2. "mixed" \notin trouble[h[1][1]]
      BY <2>0, <2>1, <2>3, NextMonotone
    <3> QED  BY <2>0, <2>3, <3>1, <3>2, FitsInPlace
  <2> QED  BY <1>4, <2>1, <2>2, <2>3, HandlerFrame
<1>5. ASSUME NEW s \in Sends, Client(s) PROVE responses' = responses
  BY <1>5, ClientWire DEF Aside
<1>6. ASSUME NEW c \in Calls, AdmitCopy(c) PROVE responses' = responses
  BY <1>6, AdmitForm
<1> QED  BY <1>3, <1>4, <1>5, <1>6, NextKinds, WatchForm

\* The pieces of a reply are where they belong, and as many as the client has asked for.
DataSound(s) == InPlace(data[s]) /\ (phase[s] = "download" => Len(data[s]) = num[s])

LEMMA TakesOwn ==
  ASSUME TypeOK, ResponsesInPlace, NEW s \in Sends, NEW r \in responses, Takes(s, r),
         trouble'[s] \cap {"stale", "mixed"} = {}
  PROVE  r.to = Current(s) /\ OneInPlace(r) /\ trouble[s] \cap {"stale", "mixed"} = {}
<1>1. trouble' = [trouble EXCEPT ![s] = IF r.to = Current(s) THEN @ ELSE @ \cup {"stale"}] /\ r.to[1] = s
  BY DEF Takes
<1>2. trouble'[s] = IF r.to = Current(s) THEN trouble[s] ELSE trouble[s] \cup {"stale"}
  BY <1>1 DEF TypeOK
<1>3. r.to = Current(s) /\ trouble[s] \cap {"stale", "mixed"} = {}
  BY <1>2
<1> QED  BY <1>1, <1>3 DEF ResponsesInPlace, OneInPlace

LEMMA RepliedInPlace ==
  ASSUME TypeOK, NEW s \in Sends, wire[Current(s)].kind # "block2",
         NEW r \in responses, r.to = Current(s), OneInPlace(r), Replied(s, r)
  PROVE  DataSound(s)'
<1>1. data'[s] = r.pieces /\ r.pieces \in Seq(Pieces)
  BY DEF Replied, TypeOK, Responses
<1>2. \A k \in DOMAIN r.pieces : k = 1 /\ r.pieces[k][2] = 0
  BY DEF OneInPlace
<1>3. InPlace(data'[s])
  BY <1>1, <1>2 DEF InPlace
<1>4. CASE r.block2 # None /\ r.block2.more
  <2>1. num'[s] = Block2(1).num
    BY <1>4 DEF Replied, Call, TypeOK
  <2>2. num'[s] = 1 /\ Len(r.pieces) = 1
    BY <1>4, <2>1 DEF OneInPlace, Block2
  <2> QED  BY <1>1, <1>3, <2>2 DEF DataSound, InPlace
<1>5. CASE ~(r.block2 # None /\ r.block2.more)
  <2>1. phase'[s] = "done"
    BY <1>5 DEF Replied, Ends, TypeOK
  <2> QED  BY <1>3, <2>1 DEF DataSound, InPlace
<1> QED  BY <1>4, <1>5

LEMMA NextBlockInPlace ==
  ASSUME TypeOK, Sound, NEW s \in Sends, NEW r \in responses, r.to = Current(s), OneInPlace(r),
         NextBlock(s, r), DataSound(s)
  PROVE  DataSound(s)'
<1>1. /\ phase[s] = "download" /\ r.block2 # None
      /\ data' = [data EXCEPT ![s] = @ \o r.pieces]
      /\ IF r.block2.more THEN Call(s, Block2(num[s] + 1)) /\ phase' = phase ELSE Ends(s, "done")
  BY DEF NextBlock
<1>2. wire[Current(s)].kind = "block2" /\ Begun(s)
  BY <1>1 DEF Sound, PhaseSound
<1>3. num[s] = wire[Current(s)].num /\ num[s] \in Nat
  BY <1>2 DEF Sound, PhaseSound, TypeOK
<1>4. \A k \in DOMAIN r.pieces : k = 1 /\ r.pieces[k][2] = num[s]
  BY <1>1, <1>2, <1>3 DEF OneInPlace
<1>5. data[s] \in Seq(Pieces) /\ r.pieces \in Seq(Pieces) /\ Len(data[s]) = num[s] /\ InPlace(data[s])
  BY <1>1 DEF DataSound, TypeOK, Responses
<1>6. data'[s] = data[s] \o r.pieces
  BY <1>1 DEF TypeOK
<1>7. Len(r.pieces) \in {0, 1}
  <2> DEFINE n == Len(r.pieces)
  <2>1. DOMAIN r.pieces = 1 .. n /\ n \in Nat
    BY <1>5
  <2> HIDE DEF n
  <2>2. 2 \notin 1 .. n
    BY <1>4, <2>1
  <2>3. n \in {0, 1}
    BY <2>1, <2>2
  <2> QED  BY <2>3 DEF n
<1>8. InPlace(data[s] \o r.pieces) /\ Len(data[s] \o r.pieces) = num[s] + Len(r.pieces)
  <2> DEFINE d == data[s]
             p == r.pieces
  <2>1. d \in Seq(Pieces) /\ p \in Seq(Pieces) /\ Len(d) = num[s] /\ Len(p) \in {0, 1}
    BY <1>5, <1>7
  <2>2. \A k \in 1 .. Len(d) : d[k][2] = k - 1
    BY <1>5 DEF InPlace
  <2>3. Len(p) = 1 => p[1][2] = Len(d)
    BY <1>4, <2>1
  <2> HIDE DEF d, p
  <2>4. Len(d \o p) = Len(d) + Len(p) /\ DOMAIN (d \o p) = 1 .. Len(d) + Len(p)
    BY <2>1
  <2>5. ASSUME NEW k \in DOMAIN (d \o p) PROVE (d \o p)[k][2] = k - 1
    <3>1. CASE k <= Len(d)
      BY <2>1, <2>2, <2>4, <3>1
    <3>2. CASE k > Len(d)
      <4>0. k \in 1 .. Len(d) + Len(p) /\ Len(d) \in Nat
        BY <2>1, <2>4
      <4>1. Len(p) = 1 /\ k = Len(d) + 1
        <5> DEFINE a == Len(d)
                   b == Len(p)
        <5>1. b \in {0, 1} /\ a \in Nat /\ k \in 1 .. a + b /\ k > a
          BY <2>1, <3>2, <4>0
        <5> HIDE DEF a, b
        <5>2. b = 1 /\ k = a + 1
          BY <5>1
        <5> QED  BY <5>2 DEF a, b
      <4>2. (d \o p)[k] = p[1]
        BY <2>1, <4>1
      <4> QED  BY <1>3, <2>1, <2>3, <4>1, <4>2
    <3> QED  BY <2>1, <2>4, <3>1, <3>2
  <2> QED  BY <2>1, <2>4, <2>5 DEF InPlace, d, p
<1>9. CASE r.block2.more
  <2>1. Len(r.pieces) = 1
    BY <1>1, <1>9 DEF OneInPlace
  <2>2. num'[s] = Block2(num[s] + 1).num
    BY <1>1, <1>9 DEF Call, TypeOK
  <2>3. num'[s] = num[s] + 1
    BY <2>2 DEF Block2
  <2> QED  BY <1>6, <1>8, <2>1, <2>3 DEF DataSound, InPlace
<1>10. CASE ~r.block2.more
  <2>1. phase'[s] = "done"
    BY <1>1, <1>10 DEF Ends, TypeOK
  <2> QED  BY <1>6, <1>8, <2>1 DEF DataSound, InPlace
<1> QED  BY <1>9, <1>10

\* A Send changes what is its own.
LEMMA ClientOwn ==
  ASSUME TypeOK, Sound, NEW s \in Sends, Client(s)
  PROVE  \A x \in Sends \ {s} : /\ data'[x] = data[x] /\ phase'[x] = phase[x] /\ num'[x] = num[x]
                                /\ idx'[x] = idx[x] /\ trouble'[x] = trouble[x]
<1>1. Aside(s) /\ (Ending(s) \/ \E m, p : Calling(s, m, p))
  BY ClientKinds
<1>2. \A x \in Sends \ {s} : trouble'[x] = trouble[x]
  BY <1>1 DEF Aside, TypeOK
<1>3. \A x \in Sends \ {s} : phase'[x] = phase[x] /\ num'[x] = num[x] /\ idx'[x] = idx[x]
  <2>1. CASE Ending(s)
    BY <2>1 DEF Ending, Ends, TypeOK
  <2>2. ASSUME NEW m, NEW p, Calling(s, m, p)
        PROVE  \A x \in Sends \ {s} : phase'[x] = phase[x] /\ num'[x] = num[x] /\ idx'[x] = idx[x]
    BY <2>2, CallingForm
  <2> QED  BY <1>1, <2>1, <2>2
<1>4. data' = data \/ \E d : data' = [data EXCEPT ![s] = d]
  BY DEF Client, Begin, CallFails, NotAwaited, PlainAnswered, BlockRefused, BlockAccepted, LastBlockAccepted,
         NextBlock, NextBlockMissing, Replied
<1>5. \A x \in Sends \ {s} : data'[x] = data[x]
  BY <1>4 DEF TypeOK
<1> QED  BY <1>2, <1>3, <1>5

LEMMA DataInPlaceNext ==
  ASSUME TypeOK, Sound, ResponsesInPlace, DataInPlace, [Next]_vars
  PROVE  DataInPlace'
<1>0. \A s \in Sends : trouble[s] \subseteq trouble'[s]
  BY NextMonotone
<1>1. ASSUME UNCHANGED <<data, phase, num>> PROVE DataInPlace'
  BY <1>0, <1>1 DEF DataInPlace, InPlace
<1>2. ASSUME NEW x \in Sends, Client(x) PROVE DataInPlace'
  <2> SUFFICES ASSUME NEW s \in Sends, trouble'[s] \cap {"stale", "mixed"} = {}
               PROVE  DataSound(s)'
    BY DEF DataInPlace, DataSound
  <2>1. DataSound(s)
    BY <1>0 DEF DataInPlace, DataSound
  <2>2. CASE s # x
    BY <1>2, <2>1, <2>2, ClientOwn DEF DataSound, InPlace
  <2>3. SUFFICES ASSUME s = x PROVE DataSound(s)'
    BY <2>2
  <2>4. ASSUME data'[s] = data[s], phase'[s] # "download" PROVE DataSound(s)'
    BY <2>1, <2>4 DEF DataSound, InPlace
  <2>5. CASE Begin(s) \/ CallFails(s) \/ NotAwaited(s)
    BY <2>4, <2>5 DEF Begin, CallFails, NotAwaited, Ends, TypeOK
  <2>6. ASSUME NEW r \in responses, PlainAnswered(s, r) PROVE DataSound(s)'
    <3>1. Takes(s, r) /\ Replied(s, r) /\ wire[Current(s)].kind # "block2"
      BY <2>6 DEF PlainAnswered, Sound, PhaseSound
    <3> QED  BY <3>1, TakesOwn, RepliedInPlace
  <2>7. ASSUME NEW r \in responses, BlockRefused(s, r) \/ NextBlockMissing(s, r) PROVE DataSound(s)'
    BY <2>4, <2>7 DEF BlockRefused, NextBlockMissing, Ends, TypeOK
  <2>8. ASSUME NEW r \in responses, BlockAccepted(s, r) PROVE DataSound(s)'
    BY <2>4, <2>8 DEF BlockAccepted
  <2>9. ASSUME NEW r \in responses, LastBlockAccepted(s, r) PROVE DataSound(s)'
    <3>1. Takes(s, r) /\ Replied(s, r) /\ wire[Current(s)].kind # "block2"
      BY <2>9 DEF LastBlockAccepted, Sound, PhaseSound
    <3> QED  BY <3>1, TakesOwn, RepliedInPlace
  <2>10. ASSUME NEW r \in responses, NextBlock(s, r) PROVE DataSound(s)'
    <3>1. Takes(s, r)
      BY <2>10 DEF NextBlock
    <3> QED  BY <2>1, <2>10, <3>1, TakesOwn, NextBlockInPlace
  <2> QED  BY <1>2, <2>3, <2>5, <2>6, <2>7, <2>8, <2>9, <2>10 DEF Client
<1>3. ASSUME NEW h \in Handlers, Handler(h) PROVE DataInPlace'
  BY <1>1, <1>3, HandlerAside
<1>4. ASSUME NEW c \in Calls, AdmitCopy(c) PROVE DataInPlace'
  BY <1>1, <1>4, AdmitForm
<1>5. CASE Watch
  BY <1>1, <1>5, WatchForm
<1>6. CASE UNCHANGED <<cache, entries, phase, idx, num, data, wire, responses, pc, runs, trouble, faults>>
  BY <1>1, <1>6
<1> QED  BY <1>2, <1>3, <1>4, <1>5, <1>6, NextKinds

-----------------------------------------------------------------------------
(* The blocks of bodies *)

Continued(s) == \E r \in responses : r.to[1] = s /\ r.code = "continue"

InBody(s, pieces) == \A k \in DOMAIN pieces : pieces[k] = <<s, k - 1>>

HoldsBody(s, x) ==
  /\ x.kind = "request" /\ x.last < Size[s] - 1
  /\ Len(x.pieces) = x.last + 1 /\ InBody(s, x.pieces)

LEMMA FollowsContinue ==
  ASSUME TypeOK, Sound, NEW c \in Calls, Sent(c), wire[c].kind = "block1", wire[c].num # 0
  PROVE  /\ Continued(c[1])
         /\ \E r \in responses : r.to[1] = c[1] /\ r.code = "continue" /\ r.block1 = wire[c].num - 1
BY DEF Sound, WireSound, Continued

LEMMA LastForm ==
  ASSUME TypeOK, Sound, NEW c \in Calls, Sent(c), IsLast(c)
  PROVE  /\ Size[c[1]] \in Nat /\ Size[c[1]] > 1 /\ wire[c].num = Size[c[1]] - 1
         /\ \E r \in responses : r.to[1] = c[1] /\ r.code = "continue" /\ r.block1 = Size[c[1]] - 2
<1>1. c[1] \in Sends /\ wire[c].num \in Nat
  BY CallForm, PieceForm DEF Sent, Messages
<1>2. /\ Size[c[1]] \in Nat /\ Size[c[1]] > 1 /\ wire[c].num < Size[c[1]]
      /\ wire[c].more <=> wire[c].num < Size[c[1]] - 1
  BY <1>1, SizeForm DEF Sound, WireSound, IsLast
<1>3. wire[c].num = Size[c[1]] - 1 /\ wire[c].num # 0
  <2>1. ~(wire[c].num < Size[c[1]] - 1)
    BY <1>2 DEF IsLast
  <2> QED  BY <1>1, <1>2, <2>1
<1>4. PICK r \in responses : r.to[1] = c[1] /\ r.code = "continue" /\ r.block1 = wire[c].num - 1
  BY <1>3, FollowsContinue DEF IsLast
<1>5. wire[c].num - 1 = Size[c[1]] - 2
  BY <1>2, <1>3
<1> QED  BY <1>2, <1>3, <1>4, <1>5

\* While no copy has passed, a last block that starts is the only one.
LEMMA LastIsFirst ==
  ASSUME TypeOK, Sound, OneHandler, BlocksInOrder, NEW h \in Handlers, Reassemble(h), Calm(h[1][1])
  PROVE  ~LastStarted(h[1][1]) /\ IsLast(h[1]) /\ Sent(h[1])
<1>1. Starts(h, "block1") /\ ~wire[h[1]].more
  BY DEF Reassemble
<1>2. /\ h[1] \in Calls /\ Sent(h[1]) /\ IsLast(h[1])
      /\ pc[h].at \in {"none", "admitted"} /\ (h[2] = 2 => pc[h].at = "admitted")
  BY <1>1, StartsForm DEF IsLast
<1>3. pc[h].at # "admitted"
  BY DEF OneHandler, Calm
<1>4. h = <<h[1], 1>> /\ pc[h].at = "none"
  BY <1>2, <1>3, HandlerForm
<1>5. ASSUME NEW d \in Calls, d[1] = h[1][1], Sent(d), IsLast(d) PROVE d = h[1]
  <2>1. d[2] \in Nat /\ h[1][2] \in Nat /\ d = <<d[1], d[2]>> /\ h[1] = <<h[1][1], h[1][2]>>
    BY <1>2, CallForm, SizeForm
  <2>2. ~(d[2] < h[1][2]) /\ ~(h[1][2] < d[2])
    BY <1>2, <1>5 DEF BlocksInOrder, IsLast
  <2> QED  BY <1>5, <2>1, <2>2
<1> QED  BY <1>2, <1>4, <1>5 DEF LastStarted

\* How an upload is kept over a step.
LEMMA UploadsNext ==
  ASSUME TypeOK, Sound, [Next]_vars, NEW s \in Sends, NEW e \in DOMAIN entries, Uploads(s, e),
         DOMAIN entries \subseteq DOMAIN entries',
         \A x \in DOMAIN entries : entries'[x].kind = entries[x].kind,
         HoldsBody(s, entries'[e]),
         \A r \in responses' : r.to[1] = s /\ r.code = "continue" => r.block1 <= entries'[e].last,
         \A h \in Handlers : h[1][1] = s /\ pc'[h].at = "loaded" =>
           \/ pc'[h] = pc[h]
           \/ pc'[h].entry = e /\ Len(pc'[h].read) = wire[h[1]].num /\ InBody(s, pc'[h].read)
           \/ /\ pc'[h].entry \in DOMAIN entries /\ entries[pc'[h].entry].kind = "reply"
              /\ LastStarted(s),
         \A h \in Handlers : h[1][1] = s /\ pc'[h].at = "loaded" => Sent(h[1]),
         cache' = cache \/ cache' = None \/ (entries'[cache'].kind = "reply" /\ LastStarted(s)')
  PROVE  \E x \in DOMAIN entries' : Uploads(s, x)'
<1>1. LastStarted(s) => LastStarted(s)'
  BY LastStartedStays
<1>2. ASSUME NEW h \in Handlers, h[1][1] = s, pc'[h].at = "loaded"
      PROVE  \/ pc'[h].entry = e /\ Len(pc'[h].read) = wire'[h[1]].num /\ InBody(s, pc'[h].read)
             \/ entries'[pc'[h].entry].kind = "reply" /\ LastStarted(s)'
  <2>0. wire'[h[1]] = wire[h[1]]
    BY <1>2, HandlerForm, NextMonotone
  <2>1. CASE pc'[h] = pc[h]
    <3>1. pc[h].at = "loaded" /\ pc[h].entry \in DOMAIN entries
      BY <1>2, <2>1, LoadedForm
    <3>2. \/ pc[h].entry = e /\ Len(pc[h].read) = wire[h[1]].num /\ InBody(s, pc[h].read)
          \/ entries[pc[h].entry].kind = "reply" /\ LastStarted(s)
      BY <1>2, <3>1 DEF Uploads, InBody
    <3> QED  BY <1>1, <2>0, <2>1, <3>1, <3>2
  <2>2. CASE pc'[h].entry = e /\ Len(pc'[h].read) = wire[h[1]].num /\ InBody(s, pc'[h].read)
    BY <2>0, <2>2
  <2>3. CASE /\ pc'[h].entry \in DOMAIN entries /\ entries[pc'[h].entry].kind = "reply"
             /\ LastStarted(s)
    BY <1>1, <2>3
  <2> QED  BY <1>2, <2>1, <2>2, <2>3
<1>3. cache' # None => cache' = e \/ (entries'[cache'].kind = "reply" /\ LastStarted(s)')
  <2>1. CASE cache' = cache /\ cache # None
    <3>1. cache = e \/ (entries[cache].kind = "reply" /\ LastStarted(s))
      BY <2>1 DEF Uploads
    <3>2. cache \in DOMAIN entries
      BY <2>1 DEF TypeOK
    <3> QED  BY <1>1, <2>1, <3>1, <3>2
  <2> QED  BY <2>1
<1>4. e \in DOMAIN entries'
  OBVIOUS
<1>5. Uploads(s, e)'
  BY <1>2, <1>3 DEF Uploads, HoldsBody, InBody
<1> QED  BY <1>4, <1>5

LEMMA UploadsForm ==
  ASSUME NEW s \in Sends, NEW e \in DOMAIN entries, Uploads(s, e)
  PROVE  /\ HoldsBody(s, entries[e])
         /\ \A r \in responses : r.to[1] = s /\ r.code = "continue" => r.block1 <= entries[e].last
         /\ cache # None => cache = e \/ (entries[cache].kind = "reply" /\ LastStarted(s))
         /\ \A h \in Handlers : h[1][1] = s /\ pc[h].at = "loaded" =>
              \/ pc[h].entry = e /\ Len(pc[h].read) = wire[h[1]].num /\ InBody(s, pc[h].read)
              \/ entries[pc[h].entry].kind = "reply" /\ LastStarted(s)
BY DEF Uploads, HoldsBody, InBody

Kept(s) == pc[<<<<s, 1>>, 1>>].at = "done" /\ \E e \in DOMAIN entries : Uploads(s, e)

LEMMA FirstCall ==
  ASSUME TypeOK, Sound, NEW s \in Sends, Begun(s)
  PROVE  <<s, 1>> \in Calls /\ <<<<s, 1>>, 1>> \in Handlers
<1>1. 1 \in 1 .. MaxCalls[s]
  BY SizeForm DEF Begun, TypeOK
<1>2. <<s, 1>> \in Calls
  BY <1>1, CallOf
<1> QED  BY <1>2, HandlerOf

LEMMA ContinuedBegun ==
  ASSUME TypeOK, Sound, NEW s \in Sends, Continued(s)
  PROVE  Begun(s)
BY TypeParts, ContinueBelow DEF Continued, Sound

\* A step that leaves the entries and the handlers of s where they are.
LEMMA QuietStep ==
  ASSUME TypeOK, Sound, [Next]_vars, NEW s \in Sends, Continued(s), Kept(s),
         DOMAIN entries \subseteq DOMAIN entries', \A x \in DOMAIN entries : entries'[x] = entries[x],
         \A r \in responses' : r.to[1] = s /\ r.code = "continue" => r \in responses,
         \A h \in Handlers : h[1][1] = s =>
           pc'[h] = pc[h] \/ (pc[h].at # "done" /\ pc'[h].at # "loaded"),
         cache' = cache \/ cache' = None \/ (entries'[cache'].kind = "reply" /\ LastStarted(s)')
  PROVE  Kept(s)'
<1>1. PICK e \in DOMAIN entries : Uploads(s, e)
  BY DEF Kept
<1>2. <<<<s, 1>>, 1>> \in Handlers
  BY ContinuedBegun, FirstCall
<1>3. pc'[<<<<s, 1>>, 1>>].at = "done"
  BY <1>2 DEF Kept
<1>4. /\ HoldsBody(s, entries[e])
      /\ \A r \in responses : r.to[1] = s /\ r.code = "continue" => r.block1 <= entries[e].last
  BY <1>1, UploadsForm
<1>5. \A h \in Handlers : h[1][1] = s /\ pc'[h].at = "loaded" => pc'[h] = pc[h]
  OBVIOUS
<1>6. \A h \in Handlers : h[1][1] = s /\ pc'[h].at = "loaded" => Sent(h[1])
  BY <1>5 DEF Sound, ServerSound
<1>7. entries'[e] = entries[e]
  OBVIOUS
<1>8. \E x \in DOMAIN entries' : Uploads(s, x)'
  BY <1>1, <1>4, <1>5, <1>6, <1>7, UploadsNext
<1> QED  BY <1>3, <1>8 DEF Kept

LEMMA FirstKept ==
  ASSUME TypeOK, Sound, OneHandler, UploadKept, [Next]_vars,
         NEW h \in Handlers, Handler(h), StoreFirst(h), Calm(h[1][1])
  PROVE  Kept(h[1][1])'
<1> DEFINE c == h[1]
           s == c[1]
<1>1. /\ Starts(h, "block1") /\ wire[c].num = 0
      /\ Answers(h, Continue(c))
  BY DEF StoreFirst
<1>2. /\ c \in Calls /\ Sent(c) /\ wire[c].kind = "block1" /\ s \in Sends
      /\ pc[h].at \in {"none", "admitted"} /\ (h[2] = 2 => pc[h].at = "admitted")
  BY <1>1, StartsForm
<1>3. c[2] = 1 /\ Size[s] > 1 /\ Size[s] \in Nat
  BY <1>1, <1>2, SizeForm DEF Sound, WireSound
<1>4. pc[h].at # "admitted"
  BY DEF OneHandler, Calm
<1>5. h = <<<<s, 1>>, 1>> /\ pc[h].at = "none"
  BY <1>2, <1>3, <1>4, HandlerForm, CallForm
<1>6. ~Continued(s)
  <2>1. pc[<<<<s, 1>>, 1>>].at # "done"
    BY <1>5
  <2> QED  BY <1>2, <2>1 DEF UploadKept, Continued
<1>7. /\ cache' \in DOMAIN entries'
      /\ entries'[cache'] = [kind |-> "request", pieces |-> <<Piece(c)>>, last |-> 0, block1 |-> None]
  BY FirstForm
<1>8. Piece(c) = <<s, 0>>
  BY <1>1 DEF Piece
<1>9. HoldsBody(s, entries'[cache'])
  <2>1. InBody(s, <<Piece(c)>>) /\ Len(<<Piece(c)>>) = 0 + 1
    BY <1>8 DEF InBody
  <2>2. /\ entries'[cache'].kind = "request" /\ entries'[cache'].last = 0
        /\ entries'[cache'].pieces = <<Piece(c)>>
    BY <1>7
  <2> QED  BY <1>3, <2>1, <2>2 DEF HoldsBody
<1>10. \A r \in responses' : r.to[1] = s /\ r.code = "continue" => r.block1 <= entries'[cache'].last
  <2>1. responses' = responses \cup {Continue(c)} /\ Continue(c).block1 = 0
    BY <1>1 DEF Answers, Continue, Response
  <2>2. entries'[cache'].last = 0
    BY <1>7
  <2> QED  BY <1>6, <2>1, <2>2 DEF Continued
<1>11. pc'[h].at = "done" /\ \A g \in Handlers \ {h} : pc'[g] = pc[g]
  <2>1. pc'[h] = [at |-> "done"] /\ \A g \in Handlers \ {h} : pc'[g] = pc[g]
    BY <1>1, GoesForm DEF Answers
  <2> QED  BY <2>1
<1>12. \A g \in Handlers : g[1][1] = s => pc'[g].at # "loaded"
  <2> SUFFICES ASSUME NEW g \in Handlers, g[1][1] = s, pc'[g].at = "loaded" PROVE FALSE
    OBVIOUS
  <2>1. pc[g].at = "loaded"
    BY <1>11
  <2>2. g[1] \in Calls /\ Sent(g[1]) /\ wire[g[1]].kind = "block1" /\ wire[g[1]].num > 0
    BY <2>1, HandlerForm DEF Sound, ServerSound
  <2>3. wire[g[1]].num # 0
    BY <2>2
  <2> QED  BY <1>6, <2>2, <2>3, FollowsContinue
<1>13. PICK e \in DOMAIN entries' : e = cache'
  BY <1>7
<1>14. Uploads(s, e)'
  BY <1>9, <1>10, <1>12, <1>13 DEF Uploads, HoldsBody, InBody
<1> QED  BY <1>5, <1>11, <1>13, <1>14 DEF Kept

LEMMA LoadKept ==
  ASSUME TypeOK, Sound, UploadKept, [Next]_vars,
         NEW h \in Handlers, Handler(h), LoadForAppend(h), Calm(h[1][1])
  PROVE  Kept(h[1][1])'
<1> DEFINE c == h[1]
           s == c[1]
<1>1. /\ Starts(h, "block1") /\ wire[c].num > 0 /\ Appends(wire[c].num)
      /\ Goes(h, [at |-> "loaded", entry |-> cache, read |-> entries[cache].pieces])
      /\ UNCHANGED <<cache, entries, responses>>
  BY DEF LoadForAppend, cacheVars
<1>2. /\ c \in Calls /\ Sent(c) /\ wire[c].kind = "block1" /\ s \in Sends
      /\ pc[h].at \in {"none", "admitted"}
  BY <1>1, StartsForm
<1>3. Continued(s)
  <2>1. wire[c].num # 0
    BY <1>1
  <2> QED  BY <1>2, <2>1, FollowsContinue
<1>4. Kept(s)
  BY <1>2, <1>3 DEF UploadKept, Continued, Kept
<1>5. PICK e \in DOMAIN entries : Uploads(s, e)
  BY <1>4 DEF Kept
<1>6. /\ HoldsBody(s, entries[e])
      /\ \A r \in responses : r.to[1] = s /\ r.code = "continue" => r.block1 <= entries[e].last
      /\ cache # None => cache = e \/ (entries[cache].kind = "reply" /\ LastStarted(s))
  BY <1>2, <1>5, UploadsForm
<1>7. /\ pc'[h].entry = cache /\ pc'[h].read = entries[cache].pieces
      /\ \A g \in Handlers \ {h} : pc'[g] = pc[g]
  <2>1. /\ pc'[h] = [at |-> "loaded", entry |-> cache, read |-> entries[cache].pieces]
        /\ \A g \in Handlers \ {h} : pc'[g] = pc[g]
    BY <1>1, GoesForm
  <2> QED  BY <2>1
<1>8. cache # None /\ wire[c].num = entries[cache].last + 1 /\ cache \in DOMAIN entries
  BY <1>1 DEF Appends, TypeOK
<1>9. \/ pc'[h].entry = e /\ Len(pc'[h].read) = wire[c].num /\ InBody(s, pc'[h].read)
      \/ /\ pc'[h].entry \in DOMAIN entries /\ entries[pc'[h].entry].kind = "reply"
         /\ LastStarted(s)
  BY <1>6, <1>7, <1>8 DEF HoldsBody
<1>10. \A g \in Handlers : g[1][1] = s /\ pc'[g].at = "loaded" =>
           \/ pc'[g] = pc[g]
           \/ pc'[g].entry = e /\ Len(pc'[g].read) = wire[g[1]].num /\ InBody(s, pc'[g].read)
           \/ /\ pc'[g].entry \in DOMAIN entries /\ entries[pc'[g].entry].kind = "reply"
              /\ LastStarted(s)
  BY <1>7, <1>9
<1>11. \A g \in Handlers : g[1][1] = s /\ pc'[g].at = "loaded" => Sent(g[1])
  <2> TAKE g \in Handlers
  <2>1. CASE g = h
    BY <1>2, <2>1
  <2>2. CASE g # h
    BY <1>7, <2>2 DEF Sound, ServerSound
  <2> QED  BY <2>1, <2>2
<1>12. \E x \in DOMAIN entries' : Uploads(s, x)'
  BY <1>1, <1>2, <1>5, <1>6, <1>10, <1>11, UploadsNext
<1>13. pc'[<<<<s, 1>>, 1>>].at = "done"
  <2>1. <<<<s, 1>>, 1>> \in Handlers
    BY <1>2, <1>3, ContinuedBegun, FirstCall
  <2>2. pc[<<<<s, 1>>, 1>>].at = "done"
    BY <1>4 DEF Kept
  <2> QED  BY <1>2, <1>7, <2>1, <2>2
<1> QED  BY <1>12, <1>13 DEF Kept

LEMMA AppendKept ==
  ASSUME TypeOK, Sound, UploadKept, [Next]_vars,
         NEW h \in Handlers, Handler(h), AppendMiddle(h), Calm(h[1][1]), Calm(h[1][1])'
  PROVE  Kept(h[1][1])'
<1> DEFINE c == h[1]
           s == c[1]
           y == pc[h].entry
<1>1. /\ c \in Calls /\ Sent(c) /\ wire[c].num \in Nat
      /\ wire[c].kind = "block1" /\ wire[c].more /\ wire[c].num > 0
      /\ pc[h].at = "loaded" /\ pc[h].read \in Seq(Pieces)
      /\ y \in DOMAIN entries
      /\ Answers(h, Continue(c))
  BY AppendForm
<1>2. s \in Sends /\ Size[s] \in Nat /\ wire[c].num < Size[s] - 1
  <2>1. s \in Sends /\ Size[s] \in Nat
    BY <1>1, CallForm, SizeForm
  <2>2. wire[c].more <=> wire[c].num < Size[s] - 1
    BY <1>1 DEF Sound, WireSound
  <2> QED  BY <1>1, <2>1, <2>2
<1>3. entries[y].pieces = pc[h].read
  <2>1. PICK kinds \in SUBSET {"raced", "mixed"} :
          Disturbs(c, kinds) /\ ("raced" \in kinds <=> entries[y].pieces # pc[h].read)
    BY AppendForm
  <2>2. trouble'[s] = trouble[s] \cup kinds
    BY <1>1, <2>1, TypeParts, DisturbsForm
  <2> QED  BY <2>1, <2>2 DEF Calm
<1>4. /\ cache' = cache /\ DOMAIN entries' = DOMAIN entries
      /\ \A x \in DOMAIN entries \ {y} : entries'[x] = entries[x]
      /\ entries'[y].kind = entries[y].kind /\ entries'[y].last = wire[c].num
      /\ entries'[y].pieces = Append(pc[h].read, Piece(c))
  <2>1. /\ cache' = cache /\ DOMAIN entries' = DOMAIN entries
        /\ \A x \in DOMAIN entries \ {y} : entries'[x] = entries[x]
        /\ entries'[y].kind = entries[y].kind /\ entries'[y].last = wire[c].num
        /\ \E base \in {pc[h].read, entries[y].pieces} :
             entries'[y].pieces = Append(base, Piece(c))
    BY AppendEntries
  <2>2. PICK base \in {pc[h].read, entries[y].pieces} :
          entries'[y].pieces = Append(base, Piece(c))
    BY <2>1
  <2> HIDE DEF c, y
  <2>3. base = pc[h].read
    BY <1>3, <2>2
  <2> QED  BY <2>1, <2>2, <2>3, Zenon
<1>5. Kept(s) /\ Continued(s)
  <2>1. wire[c].num # 0
    BY <1>1
  <2>2. Continued(s)
    BY <1>1, <2>1, FollowsContinue
  <2> QED  BY <1>2, <2>2 DEF UploadKept, Continued, Kept
<1>6. PICK e \in DOMAIN entries : Uploads(s, e)
  BY <1>5 DEF Kept
<1>7. /\ HoldsBody(s, entries[e])
      /\ \A r \in responses : r.to[1] = s /\ r.code = "continue" => r.block1 <= entries[e].last
      /\ \A g \in Handlers : g[1][1] = s /\ pc[g].at = "loaded" =>
           \/ pc[g].entry = e /\ Len(pc[g].read) = wire[g[1]].num /\ InBody(s, pc[g].read)
           \/ entries[pc[g].entry].kind = "reply" /\ LastStarted(s)
  BY <1>2, <1>6, UploadsForm
<1>8. /\ responses' = responses \cup {Continue(c)}
      /\ pc'[h].at = "done" /\ \A g \in Handlers \ {h} : pc'[g] = pc[g]
  <2>1. pc'[h] = [at |-> "done"] /\ \A g \in Handlers \ {h} : pc'[g] = pc[g]
    BY <1>1, GoesForm DEF Answers
  <2> QED  BY <1>1, <2>1 DEF Answers
<1>9. Continue(c).to = c /\ Continue(c).block1 = wire[c].num
  BY DEF Continue, Response
<1>10. entries[e].last \in Nat /\ \A r \in responses : r.to[1] = s /\ r.code = "continue" => r.block1 \in Nat
  <2>1. \A r \in responses : r.to[1] = s /\ r.code = "continue" => r.block1 \in Nat
    BY <1>2, TypeParts, ContinueBelow DEF Sound
  <2> QED  BY <2>1, EntryForm
<1>11. /\ HoldsBody(s, entries'[e])
       /\ \A r \in responses' : r.to[1] = s /\ r.code = "continue" => r.block1 <= entries'[e].last
  <2>1. CASE y = e
    <3>1. Len(pc[h].read) = wire[c].num /\ InBody(s, pc[h].read)
      <4>1. entries[e].kind # "reply"
        BY <1>7 DEF HoldsBody
      <4> QED  BY <1>1, <1>7, <2>1, <4>1
    <3>2. entries[e].last + 1 = wire[c].num
      BY <1>3, <1>7, <2>1, <3>1 DEF HoldsBody
    <3> DEFINE p == pc[h].read
    <3>3. p \in Seq(Pieces) /\ Len(p) = wire[c].num /\ \A k \in DOMAIN p : p[k] = <<s, k - 1>>
      BY <1>1, <3>1 DEF InBody
    <3>4. Piece(c) = <<s, wire[c].num>>
      BY DEF Piece
    <3> HIDE DEF p
    <3>5. Len(Append(p, Piece(c))) = wire[c].num + 1 /\ InBody(s, Append(p, Piece(c)))
      <4>1. Len(Append(p, Piece(c))) = Len(p) + 1 /\ DOMAIN Append(p, Piece(c)) = 1 .. Len(p) + 1
        BY <3>3
      <4>2. ASSUME NEW k \in 1 .. Len(p) + 1 PROVE Append(p, Piece(c))[k] = <<s, k - 1>>
        <5>1. CASE k = Len(p) + 1
          BY <1>1, <3>3, <3>4, <5>1
        <5>2. CASE k # Len(p) + 1
          <6>1. k \in DOMAIN p
            BY <1>1, <3>3, <5>2
          <6>2. Append(p, Piece(c))[k] = p[k]
            BY <3>3, <6>1
          <6> QED  BY <3>3, <6>1, <6>2
        <5> QED  BY <5>1, <5>2
      <4> QED  BY <3>3, <4>1, <4>2 DEF InBody
    <3>6. HoldsBody(s, entries'[e])
      BY <1>2, <1>4, <1>7, <2>1, <3>5 DEF HoldsBody, p
    <3>7. \A r \in responses : r.to[1] = s /\ r.code = "continue" => r.block1 <= wire[c].num
      BY <1>1, <1>7, <1>10, <3>2
    <3> QED  BY <1>1, <1>4, <1>8, <1>9, <2>1, <3>6, <3>7
  <2>2. CASE y # e
    <3>1. entries'[e] = entries[e]
      BY <1>4, <1>6, <2>2
    <3>2. LastStarted(s)
      BY <1>1, <1>7, <2>2
    <3>3. PICK d \in Calls : d[1] = s /\ Sent(d) /\ IsLast(d)
      BY <3>2 DEF LastStarted
    <3>4. PICK r \in responses : r.to[1] = s /\ r.code = "continue" /\ r.block1 = Size[s] - 2
      BY <3>3, LastForm
    <3>5. Size[s] - 2 <= entries[e].last
      BY <1>7, <3>4
    <3>6. wire[c].num <= entries[e].last
      BY <1>1, <1>2, <1>10, <3>5
    <3> QED  BY <1>7, <1>8, <1>9, <3>1, <3>6
  <2> QED  BY <2>1, <2>2
<1>12. \A x \in DOMAIN entries : entries'[x].kind = entries[x].kind
  BY <1>4
<1>13. /\ \A g \in Handlers : g[1][1] = s /\ pc'[g].at = "loaded" => pc'[g] = pc[g]
       /\ \A g \in Handlers : g[1][1] = s /\ pc'[g].at = "loaded" => Sent(g[1])
  BY <1>8 DEF Sound, ServerSound
<1>14. \E x \in DOMAIN entries' : Uploads(s, x)'
  BY <1>2, <1>4, <1>6, <1>11, <1>12, <1>13, UploadsNext
<1>15. pc'[<<<<s, 1>>, 1>>].at = "done"
  <2>1. <<<<s, 1>>, 1>> \in Handlers
    BY <1>2, <1>5, ContinuedBegun, FirstCall
  <2>2. pc[<<<<s, 1>>, 1>>].at = "done"
    BY <1>5 DEF Kept
  <2> QED  BY <1>8, <2>1, <2>2
<1> QED  BY <1>14, <1>15 DEF Kept

\* A change to the cache disturbs every other Send under way.
LEMMA OthersDisturb ==
  ASSUME TypeOK, Sound, NEW h \in Handlers, StoreFirst(h) \/ AppendMiddle(h) \/ Caches(h),
         NEW s \in Sends, Begun(s), s # h[1][1]
  PROVE  "others" \in trouble'[s]
<1>1. h[1] \in Calls /\ HistoryTyped
  BY HandlerForm, TypeParts
<1>2. PICK kinds \in SUBSET {"raced", "mixed"} : Disturbs(h[1], kinds)
  <2>1. CASE StoreFirst(h) \/ Caches(h)
    BY <2>1 DEF StoreFirst, Caches
  <2>2. CASE AppendMiddle(h)
    BY <2>2, AppendForm
  <2> QED  BY <2>1, <2>2
<1>3. \A x \in Sends \ {h[1][1]} :
        trouble'[x] = IF Begun(x) THEN trouble[x] \cup kinds \cup {"others"} ELSE trouble[x]
  BY <1>1, <1>2, DisturbsForm
<1>4. trouble'[s] = trouble[s] \cup kinds \cup {"others"}
  BY <1>3
<1> QED  BY <1>4

LEMMA UploadKeptNext ==
  ASSUME TypeOK, Sound, OneHandler, CachedAfterLast, UploadKept, [Next]_vars
  PROVE  UploadKept'
<1> SUFFICES ASSUME NEW s \in Sends, Calm(s)', Continued(s)'
             PROVE  Kept(s)'
  BY DEF UploadKept, Continued, Kept
<1>1. Calm(s)
  BY CalmBefore
<1>2. Continued(s) => Kept(s) /\ Begun(s)
  BY <1>1, ContinuedBegun DEF UploadKept, Continued, Kept
<1>3. ASSUME UNCHANGED <<entries, responses>>, cache' = cache \/ cache' = None,
             \A h \in Handlers : h[1][1] = s => pc'[h] = pc[h]
      PROVE  Kept(s)'
  <2>1. Continued(s)
    BY <1>3 DEF Continued
  <2> QED  BY <1>2, <1>3, <2>1, QuietStep
<1>4. ASSUME NEW x \in Sends, Client(x) PROVE Kept(s)'
  BY <1>3, <1>4, ClientWire DEF Aside
<1>5. ASSUME NEW c \in Calls, AdmitCopy(c) PROVE Kept(s)'
  <2>1. c[1] # s
    <3>1. c[1] \in Sends /\ trouble' = [trouble EXCEPT ![c[1]] = trouble[c[1]] \cup {"copied"}]
      BY <1>5, AdmitForm
    <3>2. "copied" \in trouble'[c[1]]
      BY <3>1 DEF TypeOK
    <3> QED  BY <3>2 DEF Calm
  <2>2. \A h \in Handlers : h[1][1] = s => pc'[h] = pc[h]
    BY <1>5, <2>1, AdmitForm
  <2> QED  BY <1>3, <1>5, <2>2, AdmitForm
<1>6. CASE Watch
  BY <1>3, <1>6, WatchForm
<1>7. CASE UNCHANGED <<cache, entries, phase, idx, num, data, wire, responses, pc, runs, trouble, faults>>
  BY <1>3, <1>7
<1>8. ASSUME NEW h \in Handlers, Handler(h) PROVE Kept(s)'
  <2>0. /\ h[1] \in Calls /\ Sent(h[1]) /\ pc[h].at # "done"
        /\ StoreFirst(h) \/ LoadForAppend(h) \/ AppendMiddle(h) \/ Reassemble(h) \/ Replies(h) \/ Caches(h)
    BY <1>8, HandlerKinds
  <2>1. /\ \A g \in Handlers \ {h} : pc'[g] = pc[g]
        /\ pc'[h].at = "loaded" => LoadForAppend(h)
        /\ pc'[h].at = "stored" => Caches(h)
    BY <1>8, HandlerFrame
  <2>2. \A r \in responses' \ responses :
          \/ r = Continue(h[1]) /\ (StoreFirst(h) \/ AppendMiddle(h))
          \/ r.to = h[1] /\ r.code # "continue"
    BY <1>8, HandlerFrame
  <2>3. Continue(h[1]).to = h[1]
    BY DEF Continue, Response
  <2>4. CASE StoreFirst(h) /\ h[1][1] = s
    BY <1>1, <1>8, <2>4, FirstKept
  <2>5. CASE AppendMiddle(h) /\ h[1][1] = s
    BY <1>1, <1>8, <2>5, AppendKept
  <2>6. CASE LoadForAppend(h) /\ h[1][1] = s
    BY <1>1, <1>8, <2>6, LoadKept
  <2>7. SUFFICES ASSUME ~(StoreFirst(h) /\ h[1][1] = s), ~(AppendMiddle(h) /\ h[1][1] = s),
                        ~(LoadForAppend(h) /\ h[1][1] = s)
                 PROVE  Kept(s)'
    BY <2>4, <2>5, <2>6
  <2>8. \A r \in responses' : r.to[1] = s /\ r.code = "continue" => r \in responses
    BY <2>2, <2>3, <2>7
  <2>9. Continued(s)
    BY <2>8 DEF Continued
  <2>10. ~StoreFirst(h) /\ ~AppendMiddle(h)
    BY <1>2, <2>7, <2>9, OthersDisturb DEF Calm
  <2>11. \A g \in Handlers : g[1][1] = s => pc'[g] = pc[g] \/ (pc[g].at # "done" /\ pc'[g].at # "loaded")
    BY <2>0, <2>1, <2>7
  <2>12. CASE LoadForAppend(h) \/ Reassemble(h) \/ Replies(h)
    <3>1. UNCHANGED <<cache, entries>>
      BY <2>12 DEF LoadForAppend, Reassemble, Replies, cacheVars
    <3> QED  BY <1>2, <2>8, <2>9, <2>11, <3>1, QuietStep
  <2>13. CASE Caches(h)
    <3>1. h[1][1] = s
      BY <1>2, <2>9, <2>13, OthersDisturb DEF Calm
    <3>2. pc'[h].at = "stored"
      <4>1. pc'[h] = [at |-> "stored"]
        BY <2>13, GoesForm DEF Caches
      <4> QED  BY <4>1
    <3>3. Cached(s)'
      BY <3>1, <3>2 DEF Cached
    <3>4. Size[s] > 1
      <4>1. PICK r \in responses : r.to[1] = s /\ r.code = "continue"
        BY <2>9 DEF Continued
      <4>2. r.block1 \in Nat /\ r.block1 < Size[s] - 1 /\ Size[s] \in Nat
        BY <4>1, SizeForm, TypeParts, ContinueBelow DEF Sound
      <4> QED  BY <4>2
    <3>5. CachedAfterLast'
      BY CachedAfterLastNext
    <3>6. LastStarted(s)'
      BY <3>3, <3>4, <3>5 DEF CachedAfterLast
    <3>7. /\ DOMAIN entries \subseteq DOMAIN entries'
          /\ \A x \in DOMAIN entries : entries'[x] = entries[x]
          /\ entries'[cache'].kind = "reply"
      BY <2>13, CachesForm
    <3> QED  BY <1>2, <2>8, <2>9, <2>11, <3>6, <3>7, QuietStep
  <2> QED  BY <2>0, <2>10, <2>12, <2>13
<1> QED  BY <1>4, <1>5, <1>6, <1>7, <1>8, NextKinds

\* The last piece on what the server has kept makes the body.
LEMMA ReassembledWhole ==
  ASSUME TypeOK, Sound, OneHandler, BlocksInOrder, UploadKept,
         NEW h \in Handlers, Reassemble(h), Calm(h[1][1])
  PROVE  Assembled(Piece(h[1])) = Body(h[1][1])
<1> DEFINE c == h[1]
           s == c[1]
<1>1. ~LastStarted(s) /\ IsLast(c) /\ Sent(c)
  BY LastIsFirst
<1>2. c \in Calls /\ s \in Sends
  BY HandlerForm, CallForm
<1>3. /\ Size[s] \in Nat /\ Size[s] > 1 /\ wire[c].num = Size[s] - 1
      /\ \E r \in responses : r.to[1] = s /\ r.code = "continue" /\ r.block1 = Size[s] - 2
  BY <1>1, <1>2, LastForm
<1>4. PICK e \in DOMAIN entries : Uploads(s, e)
  BY <1>2, <1>3 DEF UploadKept
<1>5. /\ HoldsBody(s, entries[e]) /\ Size[s] - 2 <= entries[e].last
      /\ cache # None => cache = e
  BY <1>1, <1>2, <1>3, <1>4, UploadsForm
<1>6. cache = e
  BY <1>5 DEF Reassemble
<1> DEFINE p == entries[e].pieces
           q == Piece(c)
<1>7. p \in Seq(Pieces) /\ entries[e].last \in Nat
  BY EntryForm
<1>8. Len(p) = Size[s] - 1 /\ \A k \in DOMAIN p : p[k] = <<s, k - 1>>
  BY <1>3, <1>5, <1>7 DEF HoldsBody, InBody
<1>9. q = <<s, Size[s] - 1>>
  BY <1>3 DEF Piece
<1>10. q \in Pieces
  BY <1>1, <1>2, PieceForm DEF Sent
<1> HIDE DEF p, q
<1>11. Append(p, q) = Body(s)
  <2>1. Append(p, q) \in Seq(Pieces) /\ Len(Append(p, q)) = Size[s]
    BY <1>3, <1>7, <1>8, <1>10
  <2>2. Body(s) \in Seq(Pieces) /\ Len(Body(s)) = Size[s]
        /\ \A k \in 1 .. Size[s] : Body(s)[k] = <<s, k - 1>>
    BY <1>2, BodyForm
  <2>3. ASSUME NEW k \in 1 .. Size[s] PROVE Append(p, q)[k] = Body(s)[k]
    <3>1. CASE k = Size[s]
      <4>1. k = Len(p) + 1
        BY <1>3, <1>8, <3>1
      <4>2. Append(p, q)[k] = q
        BY <1>7, <4>1
      <4> QED  BY <1>9, <2>2, <3>1, <4>2
    <3>2. CASE k # Size[s]
      <4>1. k \in DOMAIN p
        BY <1>3, <1>7, <1>8, <3>2
      <4>2. Append(p, q)[k] = p[k]
        BY <1>7, <4>1
      <4> QED  BY <1>8, <2>2, <4>1, <4>2
    <3> QED  BY <3>1, <3>2
  <2> QED  BY <2>1, <2>2, <2>3
<1> QED  BY <1>6, <1>11 DEF Assembled, p, q

LEMMA BodiesWholeNext ==
  ASSUME TypeOK, Sound, OneHandler, BlocksInOrder, UploadKept, BodiesWhole, [Next]_vars
  PROVE  BodiesWhole'
<1> SUFFICES ASSUME NEW g \in Handlers, pc'[g].at = "ready", Calm(g[1][1])'
             PROVE  pc'[g].body = Body(g[1][1])
  BY DEF BodiesWhole, Body
<1>1. Calm(g[1][1])
  BY HandlerForm, CallForm, CalmBefore
<1>2. ASSUME pc'[g] = pc[g] PROVE pc'[g].body = Body(g[1][1])
  BY <1>1, <1>2 DEF BodiesWhole
<1>3. ASSUME NEW x \in Sends, Client(x) PROVE pc'[g] = pc[g]
  BY <1>3, ClientWire DEF Aside
<1>4. ASSUME NEW h \in Handlers, Handler(h) PROVE pc'[g].body = Body(g[1][1])
  <2>1. CASE g # h
    BY <1>2, <1>4, <2>1, HandlerFrame
  <2>2. CASE g = h
    <3>1. Reassemble(h)
      BY <1>4, <2>2, HandlerFrame
    <3>2. pc'[h] = [at |-> "ready", body |-> Assembled(Piece(h[1]))]
      BY <3>1, GoesForm DEF Reassemble
    <3>3. pc'[h].body = Assembled(Piece(h[1]))
      BY <3>2
    <3> QED  BY <1>1, <2>2, <3>1, <3>3, ReassembledWhole
  <2> QED  BY <2>1, <2>2
<1>5. ASSUME NEW c \in Calls, AdmitCopy(c) PROVE pc'[g] = pc[g]
  BY <1>5, AdmitForm
<1>6. Watch => pc'[g] = pc[g]
  BY WatchForm
<1> QED  BY <1>2, <1>3, <1>4, <1>5, <1>6, NextKinds

LEMMA UploadWholeNext ==
  ASSUME TypeOK, Sound, BodiesWhole, UploadWhole, [Next]_vars
  PROVE  UploadWhole'
<1> SUFFICES ASSUME NEW i \in DOMAIN runs', wire'[runs'[i].call].kind = "block1",
                    trouble'[runs'[i].send] \cap {"copied", "raced", "others"} = {}
             PROVE  runs'[i].body = Body(runs'[i].send)
  BY DEF UploadWhole, Body
<1>1. ASSUME i \in DOMAIN runs, runs'[i] = runs[i] PROVE runs'[i].body = Body(runs'[i].send)
  <2>1. runs[i].call \in Calls /\ Sent(runs[i].call) /\ runs[i].send \in Sends
    <3>1. runs[i] \in Executed
      BY <1>1 DEF TypeOK
    <3> QED  BY <1>1, <3>1 DEF Executed, Sound, ServerSound
  <2>2. wire'[runs[i].call] = wire[runs[i].call]
    BY <2>1, NextMonotone
  <2>3. Calm(runs[i].send)
    BY <1>1, <2>1, NextMonotone DEF Calm
  <2> QED  BY <1>1, <2>2, <2>3 DEF UploadWhole, Calm
<1>2. ASSUME NEW h \in Handlers, Handler(h) PROVE runs'[i].body = Body(runs'[i].send)
  <2>1. RunsFor(h) /\ wire' = wire /\ h[1][1] \in Sends
    BY <1>2, HandlerKinds, HandlerAside
  <2>2. CASE /\ runs'[i].call = h[1] /\ runs'[i].send = h[1][1]
             /\ wire[h[1]].kind = "block1" => pc[h].at = "ready" /\ runs'[i].body = pc[h].body
    <3>1. Calm(h[1][1])
      BY <2>1, <2>2, NextMonotone DEF Calm
    <3> QED  BY <2>1, <2>2, <3>1 DEF BodiesWhole
  <2> QED  BY <1>1, <2>1, <2>2, RunsGrow
<1>3. ASSUME NEW x \in Sends, Client(x) PROVE runs' = runs
  BY <1>3, ClientWire DEF Aside
<1>4. ASSUME NEW c \in Calls, AdmitCopy(c) PROVE runs' = runs
  BY <1>4, AdmitForm
<1> QED  BY <1>1, <1>2, <1>3, <1>4, NextKinds, WatchForm

-----------------------------------------------------------------------------
(* A Send that nothing disturbs *)

Handled(s) == IF At(s, idx[s]) = "done" THEN idx[s] ELSE idx[s] - 1

CallsOf(s) ==
  \A i \in 1 .. idx[s] :
    /\ wire[<<s, i>>] = Planned(s, i)
    /\ i < idx[s] => At(s, i) = "done"
    /\ At(s, i) = "stored" => i = Size[s]

ResponsesOf(s) ==
  \A r \in responses : r.to[1] = s =>
    At(s, r.to[2]) = "done" /\ (r.to[2] < Size[s] => r.code = "continue")

BodyOf(s) ==
  /\ Handled(s) > 0 =>
       /\ cache # None /\ entries[cache].kind = "request" /\ entries[cache].last = Handled(s) - 1
       /\ At(s, idx[s]) = "loaded" => pc[<<Current(s), 1>>].entry = cache
  /\ RunsOf(s) = {}
  /\ \A r \in responses : r.to[1] = s => r.to[2] < Size[s]
  /\ data[s] = <<>> /\ phase[s] \in {"plain", "upload"} \cup Halts(s)

\* The parts of Fulfils.
RanOnce(s, i) == RunsOf(s) = {i} /\ runs[i].body = Body(s)

CacheHolds(s, i) ==
  IF runs[i].size = 1
  THEN idx[s] = Size[s] /\ At(s, idx[s]) = "done"
  ELSE /\ idx[s] - Size[s] < runs[i].size
       /\ cache # None
       /\ entries[cache].kind = "reply" /\ entries[cache].pieces = Reply(i, runs[i].size)
       /\ Size[s] > 1 => entries[cache].block1 # None

\* The response to call Size[s] + m of s.
Brings(r, s, i, m, size) ==
  /\ r.code = "ok" /\ r.pieces = <<<<i, m>>>>
  /\ r.block2 = IF size = 1 THEN None ELSE [num |-> m, more |-> m + 1 < size]
  /\ m = 0 /\ Size[s] > 1 => r.block1 # None

AnswersFit(s, i) ==
  \A r \in responses :
    r.to[1] = s /\ r.to[2] >= Size[s] => Brings(r, s, i, r.to[2] - Size[s], runs[i].size)

DataFits(s, i) ==
  /\ \A k \in DOMAIN data[s] : data[s][k] = <<i, k - 1>>
  /\ phase[s] \in {"refused", "crashed", "unanswered"} => phase[s] \in Halts(s)
  /\ phase[s] = "download" => idx[s] > Size[s] /\ Len(data[s]) = idx[s] - Size[s]
  /\ phase[s] = "done" => Len(data[s]) = runs[i].size

LEMMA FulfilsParts ==
  ASSUME NEW s, NEW i
  PROVE  Fulfils(s, i) <=> RanOnce(s, i) /\ CacheHolds(s, i) /\ AnswersFit(s, i) /\ DataFits(s, i)
BY Zenon DEF Fulfils, RanOnce, CacheHolds, AnswersFit, DataFits, Brings

Served(s) == \E i \in DOMAIN runs : Fulfils(s, i)

Line(s) ==
  /\ CallsOf(s) /\ ResponsesOf(s)
  /\ ~HasRun(s) => BodyOf(s)
  /\ HasRun(s) => Served(s)

InLine(s) == (~Begun(s) => data[s] = <<>>) /\ (Quiet(s) => Line(s))

LEMMA InLineParts == CallsInLine /\ BodyInLine /\ ReplyInLine <=> \A s \in Sends : InLine(s)
BY Zenon DEF CallsInLine, BodyInLine, ReplyInLine, InLine, Line, CallsOf, ResponsesOf, BodyOf, Handled,
       Served

\* The callback's runs for s when those of other Sends are added.
LEMMA RunsSame ==
  ASSUME NEW s \in Sends, DOMAIN runs \subseteq DOMAIN runs',
         \A j \in DOMAIN runs : runs'[j] = runs[j],
         \A j \in DOMAIN runs' \ DOMAIN runs : runs'[j].send # s
  PROVE  RunsOf(s)' = RunsOf(s)
BY DEF RunsOf

\* A step aside leaves a Send where it was.
LEMMA LineOther ==
  ASSUME TypeOK, Sound, NEW s \in Sends, Begun(s), Line(s),
         idx'[s] = idx[s], data'[s] = data[s], phase'[s] = phase[s] \/ phase'[s] \in Halts(s),
         \A i \in 1 .. idx[s] : wire'[<<s, i>>] = wire[<<s, i>>],
         \A i \in 1 .. idx[s] : pc'[<<<<s, i>>, 1>>] = pc[<<<<s, i>>, 1>>],
         responses \subseteq responses', \A r \in responses' : r.to[1] = s => r \in responses,
         UNCHANGED <<cache, entries>>,
         DOMAIN runs \subseteq DOMAIN runs', \A j \in DOMAIN runs : runs'[j] = runs[j],
         \A j \in DOMAIN runs' \ DOMAIN runs : runs'[j].send # s
  PROVE  Line(s)'
<1>0. idx[s] \in Nat /\ idx[s] > 0 /\ Size[s] \in Nat /\ Size[s] > 0
  BY SizeForm DEF TypeOK, Begun
<1>1. \A i \in 1 .. idx[s] : At(s, i)' = At(s, i)
  BY DEF At
<1>2. \A r \in responses : r.to[1] = s => r.to[2] \in 1 .. idx[s]
  <2>1. \A r \in responses : r.to \in Calls /\ Sent(r.to)
    BY DEF Sound, ServerSound, TypeOK, Responses
  <2> QED  BY <1>0, <2>1, CallForm, SizeForm DEF Sound, WireSound
<1>3. CallsOf(s)' /\ ResponsesOf(s)'
  <2>1. CallsOf(s)'
    BY <1>1 DEF Line, CallsOf, Planned, Block1, Block2, Plain
  <2>2. ResponsesOf(s)'
    BY <1>1, <1>2 DEF Line, ResponsesOf
  <2> QED  BY <2>1, <2>2
<1>4. HasRun(s)' <=> HasRun(s)
  BY <1>0, <1>1 DEF HasRun
<1>5. RunsOf(s)' = RunsOf(s)
  BY RunsSame
<1>6. ASSUME BodyOf(s) PROVE BodyOf(s)'
  <2>1. Handled(s)' = Handled(s) /\ At(s, idx[s])' = At(s, idx[s])
    BY <1>0, <1>1 DEF Handled
  <2>2. pc'[<<Current(s), 1>>] = pc[<<Current(s), 1>>] /\ Current(s)' = Current(s)
    BY <1>0 DEF Current
  <2> QED  BY <1>5, <1>6, <2>1, <2>2 DEF BodyOf
<1>7. ASSUME NEW i \in DOMAIN runs, Fulfils(s, i) PROVE i \in DOMAIN runs' /\ Fulfils(s, i)'
  <2>1. RanOnce(s, i) /\ CacheHolds(s, i) /\ AnswersFit(s, i) /\ DataFits(s, i)
    BY <1>7, FulfilsParts
  <2>2. runs'[i] = runs[i]
    OBVIOUS
  <2>3. RanOnce(s, i)'
    BY <1>5, <2>1, <2>2 DEF RanOnce, Body
  <2>4. CacheHolds(s, i)'
    <3>1. At(s, idx[s])' = At(s, idx[s])
      BY <1>0 DEF At
    <3> QED  BY <2>1, <2>2, <3>1 DEF CacheHolds, Reply
  <2>5. AnswersFit(s, i)'
    BY <2>1, <2>2 DEF AnswersFit, Brings
  <2>6. DataFits(s, i)'
    BY <2>1, <2>2 DEF DataFits, Halts
  <2>7. Fulfils(s, i)'
    BY <2>3, <2>4, <2>5, <2>6, FulfilsParts, PTL
  <2> QED  BY <2>7
<1>8. Served(s) => Served(s)'
  BY <1>7 DEF Served
<1> QED  BY <1>3, <1>4, <1>6, <1>8 DEF Line
\* A Send that is not disturbed after a step was not before it.
LEMMA QuietBefore ==
  ASSUME TypeOK, Sound, [Next]_vars, NEW s \in Sends, Begun(s), Quiet(s)'
  PROVE  Quiet(s)
BY NextMonotone DEF Quiet

\* A call that was not made has left no trace.
LEMMA NotMade ==
  ASSUME TypeOK, Sound, NEW s \in Sends, NEW i \in 1 .. MaxCalls[s], i > idx[s]
  PROVE  /\ <<s, i>> \in Calls /\ <<<<s, i>>, 1>> \in Handlers
         /\ ~Sent(<<s, i>>) /\ At(s, i) = "none"
<1>1. <<s, i>> \in Calls /\ <<<<s, i>>, 1>> \in Handlers
  BY CallOf, HandlerOf
<1>2. ~(i <= idx[s])
  BY SizeForm DEF TypeOK
<1>3. ~Sent(<<s, i>>)
  BY <1>1, <1>2 DEF Sound, WireSound
<1> QED  BY <1>1, <1>3 DEF At, Sound, ServerSound

\* The calls that were made.
LEMMA Made ==
  ASSUME TypeOK, Sound, NEW s \in Sends, NEW i \in 1 .. idx[s]
  PROVE  /\ i \in 1 .. MaxCalls[s] /\ <<s, i>> \in Calls /\ <<<<s, i>>, 1>> \in Handlers
         /\ Sent(<<s, i>>)
<1>1. i \in 1 .. MaxCalls[s]
  BY SizeForm DEF TypeOK
<1>2. <<s, i>> \in Calls /\ <<<<s, i>>, 1>> \in Handlers
  BY <1>1, CallOf, HandlerOf
<1>3. i <= idx[s]
  BY DEF TypeOK
<1>4. Sent(<<s, i>>)
  BY <1>2, <1>3 DEF Sound, WireSound
<1> QED  BY <1>1, <1>2, <1>4

\* Responses and runs are of calls that were made.
LEMMA OfMade ==
  ASSUME TypeOK, Sound, NEW s \in Sends
  PROVE  /\ \A r \in responses : r.to[1] = s => r.to[2] \in 1 .. idx[s] /\ r.to = <<s, r.to[2]>>
         /\ ~Begun(s) => RunsOf(s) = {}
<1>1. \A c \in Calls : Sent(c) => c[2] \in 1 .. idx[c[1]] /\ c = <<c[1], c[2]>>
  BY CallForm, SizeForm DEF Sound, WireSound, TypeOK
<1>2. \A r \in responses : r.to \in Calls /\ Sent(r.to)
  BY DEF Sound, ServerSound, TypeOK, Responses
<1>3. \A i \in DOMAIN runs : runs[i].call \in Calls /\ Sent(runs[i].call) /\ runs[i].call[1] = runs[i].send
  <2>1. \A i \in DOMAIN runs : runs[i] \in Executed
    BY DEF TypeOK
  <2> QED  BY <2>1 DEF Sound, ServerSound, Executed
<1>4. ASSUME NEW i \in RunsOf(s) PROVE Begun(s)
  <2>1. i \in DOMAIN runs /\ runs[i].send = s
    BY DEF RunsOf
  <2>2. runs[i].call[2] \in 1 .. idx[s]
    BY <1>1, <1>3, <2>1
  <2> QED  BY <2>2 DEF Begun, TypeOK
<1> QED  BY <1>1, <1>2, <1>4 DEF RunsOf

LEMMA BeginLine ==
  ASSUME TypeOK, Sound, NEW s \in Sends, InLine(s), Begin(s)
  PROVE  Line(s)'
<1> DEFINE m == IF Size[s] = 1 THEN Plain ELSE Block1(s, 0)
<1>1. /\ ~Begun(s) /\ idx[s] = 0 /\ data[s] = <<>> /\ Size[s] \in Nat /\ Size[s] > 0
      /\ phase'[s] \in {"plain", "upload"} /\ data' = data
      /\ UNCHANGED <<cache, entries, responses, pc, runs>>
      /\ Call(s, m)
  BY SizeForm DEF Begin, Sound, PhaseSound, Begun, TypeOK, InLine, cacheVars, serverVars
<1>2. idx'[s] = 1 /\ wire'[<<s, 1>>] = m /\ 1 \in 1 .. MaxCalls[s]
  BY <1>1, SizeForm, CallOf DEF Call, TypeOK
<1>3. At(s, 1)' = "none" /\ \A i \in 1 .. idx'[s] : i = 1
  BY <1>1, <1>2, NotMade DEF At
<1>4. RunsOf(s)' = {} /\ \A r \in responses' : r.to[1] # s
  BY <1>1, OfMade DEF RunsOf
<1>5. CallsOf(s)'
  <2>1. Planned(s, 1) = m
    BY <1>1 DEF Planned
  <2> QED  BY <1>2, <1>3, <2>1 DEF CallsOf, Planned, Plain, Block1, Block2
<1>6. ResponsesOf(s)'
  BY <1>4 DEF ResponsesOf
<1>7. ~HasRun(s)'
  BY <1>1, <1>2, <1>3 DEF HasRun
<1>8. BodyOf(s)'
  BY <1>1, <1>2, <1>3, <1>4 DEF BodyOf, Handled
<1> QED  BY <1>5, <1>6, <1>7, <1>8 DEF Line

LEMMA FailLine ==
  ASSUME TypeOK, Sound, NEW s \in Sends, Line(s), CallFails(s) \/ NotAwaited(s)
  PROVE  Line(s)'
<1>1. Begun(s)
  BY DEF CallFails, NotAwaited, Sound, PhaseSound
<1>2. UNCHANGED <<cache, entries, idx, wire, data, responses, pc, runs>> /\ phase'[s] \in Halts(s)
  BY DEF CallFails, NotAwaited, Ends, cacheVars, serverVars, TypeOK, Halts
<1> QED  BY <1>1, <1>2, LineOther
LEMMA BlockOfBody ==
  ASSUME NEW s \in Sends, NEW n \in Nat
  PROVE  /\ Block1(s, n).kind = "block1" /\ Block1(s, n).num = n
         /\ Block1(s, n).more <=> n < Size[s] - 1
<1>1. (n < Size[s] - 1) \in BOOLEAN
  BY SizeForm
<1>2. Block1(s, n).more <=> n < Size[s] - 1
  BY <1>1, Zenon DEF Block1
<1> QED  BY <1>2 DEF Block1

LEMMA PlannedForm ==
  ASSUME NEW s \in Sends, NEW i \in Nat \ {0}
  PROVE  /\ i > Size[s] => Planned(s, i) = Block2(i - Size[s])
         /\ i <= Size[s] /\ Size[s] = 1 => Planned(s, i) = Plain
         /\ i <= Size[s] /\ Size[s] > 1 => Planned(s, i) = Block1(s, i - 1)
BY SizeForm DEF Planned

\* The next call, and the end, as they leave what was planned before.
LEMMA CallLine ==
  ASSUME TypeOK, Sound, NEW s \in Sends, Begun(s), CallsOf(s), ResponsesOf(s),
         At(s, idx[s]) = "done", Call(s, Planned(s, idx[s] + 1)), UNCHANGED <<responses, pc>>
  PROVE  /\ CallsOf(s)' /\ ResponsesOf(s)' /\ (HasRun(s)' <=> HasRun(s))
         /\ idx'[s] = idx[s] + 1 /\ At(s, idx[s])' = "none"
<1>0. idx[s] \in Nat /\ idx[s] > 0 /\ Size[s] \in Nat /\ Size[s] > 0
  BY SizeForm DEF TypeOK, Begun
<1>1. /\ idx'[s] = idx[s] + 1 /\ idx[s] + 1 \in 1 .. MaxCalls[s]
      /\ wire' = [wire EXCEPT ![<<s, idx[s] + 1>>] = Planned(s, idx[s] + 1)]
  BY <1>0, SizeForm DEF Call, TypeOK
<1>2. At(s, idx[s] + 1) = "none" /\ <<s, idx[s] + 1>> \in Calls
  <2> DEFINE j == idx[s] + 1
  <2>1. j \in 1 .. MaxCalls[s] /\ j > idx[s]
    BY <1>0, <1>1
  <2> HIDE DEF j
  <2>2. At(s, j) = "none" /\ <<s, j>> \in Calls
    BY <2>1, NotMade
  <2> QED  BY <2>2 DEF j
<1>3. wire'[<<s, idx[s] + 1>>] = Planned(s, idx[s] + 1)
  BY <1>1, <1>2 DEF TypeOK
<1>4. \A i \in 1 .. idx[s] : wire'[<<s, i>>] = wire[<<s, i>>]
  BY <1>0, <1>1, Made DEF TypeOK
<1>5. \A i \in Nat : At(s, i)' = At(s, i)
  BY DEF At
<1>6. \A i \in 1 .. idx'[s] : i \in 1 .. idx[s] \/ i = idx[s] + 1
  BY <1>0, <1>1
<1>7. CallsOf(s)'
  <2> SUFFICES ASSUME NEW i \in 1 .. idx'[s]
               PROVE  /\ wire'[<<s, i>>] = Planned(s, i)
                      /\ i < idx'[s] => At(s, i)' = "done"
                      /\ At(s, i)' = "stored" => i = Size[s]
    BY DEF CallsOf, Planned, Plain, Block1, Block2
  <2>1. CASE i \in 1 .. idx[s]
    <3>1. wire'[<<s, i>>] = Planned(s, i) /\ (At(s, i)' = "stored" => i = Size[s])
      BY <1>4, <1>5, <2>1 DEF CallsOf
    <3>2. At(s, i) = "done"
      <4>1. CASE i = idx[s]
        BY <4>1
      <4>2. CASE i # idx[s]
        <5>1. i < idx[s]
          BY <1>0, <2>1, <4>2
        <5> QED  BY <2>1, <5>1 DEF CallsOf
      <4> QED  BY <4>1, <4>2
    <3> QED  BY <1>5, <2>1, <3>1, <3>2
  <2>2. CASE i = idx[s] + 1
    BY <1>0, <1>1, <1>2, <1>3, <1>5, <2>2
  <2> QED  BY <1>6, <2>1, <2>2
<1>8. ResponsesOf(s)'
  BY <1>5 DEF ResponsesOf, At
<1>9. HasRun(s)' <=> HasRun(s)
  <2>1. CASE idx[s] >= Size[s]
    BY <1>0, <1>1, <1>5, <2>1 DEF HasRun
  <2>2. CASE idx[s] + 1 = Size[s]
    BY <1>0, <1>2, <1>5, <2>2 DEF HasRun
  <2>3. CASE idx[s] + 1 < Size[s]
    BY <1>0, <1>1, <2>3 DEF HasRun
  <2> QED  BY <1>0, <2>1, <2>2, <2>3
<1>10. At(s, idx[s])' = "none"
  BY <1>1, <1>2 DEF At
<1> QED  BY <1>1, <1>7, <1>8, <1>9, <1>10

LEMMA EndLine ==
  ASSUME TypeOK, NEW s \in Sends, CallsOf(s), ResponsesOf(s), UNCHANGED <<idx, wire, responses, pc>>
  PROVE  CallsOf(s)' /\ ResponsesOf(s)' /\ (HasRun(s)' <=> HasRun(s))
<1>1. CallsOf(s)'
  BY DEF CallsOf, At, Planned, Plain, Block1, Block2
<1>2. ResponsesOf(s)'
  BY DEF ResponsesOf, At
<1> QED  BY <1>1, <1>2 DEF HasRun, At

\* A step of the client leaves the run that serves it.
LEMMA ServedStays ==
  ASSUME NEW s \in Sends, NEW i \in DOMAIN runs, Fulfils(s, i),
         UNCHANGED <<cache, entries, responses, pc, runs>>,
         IF runs[i].size = 1 THEN idx'[s] = idx[s] ELSE idx'[s] - Size[s] < runs[i].size,
         DataFits(s, i)'
  PROVE  Served(s)'
<1>1. RanOnce(s, i) /\ CacheHolds(s, i) /\ AnswersFit(s, i)
  BY FulfilsParts
<1>2. RanOnce(s, i)'
  BY <1>1 DEF RanOnce, RunsOf, Body
<1>3. CacheHolds(s, i)'
  BY <1>1 DEF CacheHolds, Reply, At
<1>4. AnswersFit(s, i)'
  BY <1>1 DEF AnswersFit, Brings
<1>5. Fulfils(s, i)'
  BY <1>2, <1>3, <1>4, FulfilsParts, PTL
<1> QED  BY <1>5 DEF Served

\* The response an undisturbed Send takes is the one to the call that waits.
LEMMA TakesCurrent ==
  ASSUME TypeOK, NEW s \in Sends, NEW r, Takes(s, r), trouble'[s] = {}
  PROVE  r \in responses /\ r.to = Current(s) /\ UNCHANGED <<cache, entries, responses, pc, runs>>
<1>1. /\ trouble' = [trouble EXCEPT ![s] = IF r.to = Current(s) THEN @ ELSE @ \cup {"stale"}]
      /\ r \in responses /\ UNCHANGED <<cache, entries, responses, pc, runs>>
  BY DEF Takes, cacheVars, serverVars
<1> QED  BY <1>1 DEF TypeOK
\* Where a Send stands, its last call is one of the plan.
LEMMA PhaseLine ==
  ASSUME TypeOK, Sound, NEW s \in Sends, Begun(s), CallsOf(s)
  PROVE  /\ idx[s] \in Nat /\ idx[s] > 0 /\ Size[s] \in Nat /\ Size[s] > 0
         /\ phase[s] = "plain" => idx[s] = Size[s] /\ Size[s] = 1
         /\ phase[s] = "upload" =>
              Size[s] > 1 /\ idx[s] <= Size[s] /\ wire[Current(s)] = Block1(s, idx[s] - 1)
         /\ phase[s] = "download" =>
              idx[s] > Size[s] /\ num[s] = idx[s] - Size[s] /\ wire[Current(s)] = Block2(num[s])
<1>1. idx[s] \in Nat /\ idx[s] > 0 /\ Size[s] \in Nat /\ Size[s] > 0
  BY SizeForm DEF TypeOK, Begun
<1>2. wire[Current(s)] = Planned(s, idx[s])
  BY <1>1 DEF CallsOf, Current
<1>3. num[s] = wire[Current(s)].num
  BY DEF Sound, PhaseSound
<1>4. CASE idx[s] > Size[s]
  <2>1. wire[Current(s)] = Block2(idx[s] - Size[s])
    BY <1>1, <1>2, <1>4, PlannedForm
  <2>2. wire[Current(s)].kind = "block2" /\ wire[Current(s)].num = idx[s] - Size[s]
    BY <2>1 DEF Block2
  <2> QED  BY <1>1, <1>3, <1>4, <2>1, <2>2 DEF Sound, PhaseSound
<1>5. CASE idx[s] <= Size[s] /\ Size[s] = 1
  <2>1. wire[Current(s)].kind = "plain"
    BY <1>1, <1>2, <1>5, PlannedForm DEF Plain
  <2> QED  BY <1>1, <1>5, <2>1 DEF Sound, PhaseSound
<1>6. CASE idx[s] <= Size[s] /\ Size[s] > 1
  <2>1. wire[Current(s)] = Block1(s, idx[s] - 1)
    BY <1>1, <1>2, <1>6, PlannedForm
  <2>2. wire[Current(s)].kind = "block1"
    BY <2>1 DEF Block1
  <2> QED  BY <1>1, <1>6, <2>1, <2>2 DEF Sound, PhaseSound
<1> QED  BY <1>1, <1>4, <1>5, <1>6

\* While the body goes out the server accepts every block, and the next one follows.
LEMMA UploadLine ==
  ASSUME TypeOK, Sound, NEW s \in Sends, Line(s), ~HasRun(s), NEW r \in responses, r.to = Current(s),
         UNCHANGED <<cache, entries, responses, pc, runs>>,
         \/ PlainAnswered(s, r) \/ BlockRefused(s, r) \/ BlockAccepted(s, r)
         \/ LastBlockAccepted(s, r) \/ NextBlock(s, r) \/ NextBlockMissing(s, r)
  PROVE  Line(s)'
<1>0. Begun(s)
  BY DEF PlainAnswered, BlockRefused, BlockAccepted, LastBlockAccepted, NextBlock, NextBlockMissing,
         Sound, PhaseSound
<1>1. CallsOf(s) /\ ResponsesOf(s) /\ BodyOf(s)
  BY DEF Line
<1>2. r.to[1] = s /\ r.to[2] = idx[s]
  BY DEF Current
<1>3. idx[s] < Size[s] /\ r.code = "continue" /\ At(s, idx[s]) = "done"
  BY <1>1, <1>2 DEF BodyOf, ResponsesOf
<1>4. /\ idx[s] \in Nat /\ idx[s] > 0 /\ Size[s] \in Nat /\ Size[s] > 0
      /\ phase[s] = "upload" => Size[s] > 1 /\ wire[Current(s)] = Block1(s, idx[s] - 1)
      /\ phase[s] \notin {"plain", "download"}
  BY <1>0, <1>1, <1>3, PhaseLine
<1>5. phase[s] = "upload"
  BY <1>4 DEF PlainAnswered, BlockRefused, BlockAccepted, LastBlockAccepted, NextBlock, NextBlockMissing
<1>6. wire[Current(s)].num = idx[s] - 1 /\ wire[Current(s)].more
  <2>1. wire[Current(s)] = Block1(s, idx[s] - 1)
    BY <1>4, <1>5
  <2>2. idx[s] - 1 \in Nat /\ idx[s] - 1 < Size[s] - 1
    BY <1>3, <1>4
  <2> QED  BY <2>1, <2>2, BlockOfBody
<1>7. r.block1 = idx[s] - 1 /\ r.block1 # None
  BY <1>3, <1>4, <1>6, NoneForm DEF Sound, ServerSound
<1>8. BlockAccepted(s, r)
  BY <1>3, <1>5, <1>6, <1>7
     DEF PlainAnswered, BlockRefused, LastBlockAccepted, NextBlock, NextBlockMissing
<1>9. Call(s, Planned(s, idx[s] + 1)) /\ phase' = phase /\ data' = data
  <2>1. Call(s, Block1(s, r.block1 + 1)) /\ phase' = phase /\ data' = data
    BY <1>8 DEF BlockAccepted
  <2>2. r.block1 + 1 = idx[s]
    BY <1>4, <1>7
  <2>3. Planned(s, idx[s] + 1) = Block1(s, idx[s])
    BY <1>3, <1>4 DEF Planned
  <2> QED  BY <2>1, <2>2, <2>3
<1>10. /\ CallsOf(s)' /\ ResponsesOf(s)' /\ ~HasRun(s)'
       /\ idx'[s] = idx[s] + 1 /\ At(s, idx[s])' = "none"
  BY <1>0, <1>1, <1>3, <1>9, CallLine
<1>11. BodyOf(s)'
  <2>1. Handled(s) = idx[s] /\ Handled(s)' = idx[s]
    BY <1>3, <1>4, <1>10 DEF Handled
  <2>2. RunsOf(s)' = {}
    BY <1>1 DEF BodyOf, RunsOf
  <2> QED  BY <1>1, <1>9, <1>10, <2>1, <2>2 DEF BodyOf
<1> QED  BY <1>10, <1>11 DEF Line
LEMMA RunSize ==
  ASSUME TypeOK, NEW i \in DOMAIN runs
  PROVE  runs[i].size \in Nat /\ runs[i].size > 0 /\ runs[i].send \in Sends /\ i \in Nat
<1>1. runs[i] \in Executed /\ i \in Nat
  BY DEF TypeOK
<1>2. runs[i].size \in ReplySizes /\ runs[i].send \in Sends
  BY <1>1 DEF Executed
<1>3. runs[i].size \in Nat \ {0}
  BY <1>2, TransferAssumption DEF TransferAssumption
<1> DEFINE n == runs[i].size
<1> HIDE DEF n
<1>4. n \in Nat /\ n > 0
  BY <1>3 DEF n
<1> QED  BY <1>1, <1>2, <1>4 DEF n

\* Pieces put together up to piece m of run i.
FirstPieces(d, i, m) == Len(d) = m /\ \A k \in DOMAIN d : d[k] = <<i, k - 1>>

\* The client has taken the response to its call Size[s] + m: with more to come it asks
\* for the next block of the reply, without it is done.
LEMMA TakenLine ==
  ASSUME TypeOK, Sound, NEW s \in Sends, Begun(s), CallsOf(s), ResponsesOf(s), HasRun(s),
         NEW i \in DOMAIN runs, Fulfils(s, i), NEW m \in Nat, m = idx[s] - Size[s],
         At(s, idx[s]) = "done", NEW r \in responses, Brings(r, s, i, m, runs[i].size),
         FirstPieces(data'[s], i, m + 1), UNCHANGED <<cache, entries, responses, pc, runs>>,
         IF r.block2 # None /\ r.block2.more
         THEN Call(s, Block2(m + 1)) /\ phase'[s] = "download"
         ELSE phase'[s] = "done" /\ UNCHANGED <<idx, wire>>
  PROVE  Line(s)'
<1>0. /\ idx[s] \in Nat /\ idx[s] > 0 /\ Size[s] \in Nat /\ Size[s] > 0
      /\ runs[i].size \in Nat /\ runs[i].size > 0
  BY SizeForm, RunSize DEF TypeOK, Begun
<1>1. r.block2 # None /\ r.block2.more <=> m + 1 < runs[i].size
  <2> DEFINE size == runs[i].size
  <2>1. r.block2 = IF size = 1 THEN None ELSE [num |-> m, more |-> m + 1 < size]
    BY DEF Brings
  <2>2. size = 1 => ~(m + 1 < size)
    BY <1>0
  <2>3. [num |-> m, more |-> m + 1 < size].more <=> m + 1 < size
    <3>1. (m + 1 < size) \in BOOLEAN
      BY <1>0
    <3> QED  BY <3>1, Zenon
  <2>4. [num |-> m, more |-> m + 1 < size] \in Options
    <3>1. (m + 1 < size) \in BOOLEAN
      BY <1>0
    <3> QED  BY <3>1 DEF Options
  <2> HIDE DEF size
  <2>5. CASE size = 1
    BY <2>1, <2>2, <2>5 DEF size
  <2>6. CASE size # 1
    <3>1. r.block2 = [num |-> m, more |-> m + 1 < size]
      BY <2>1, <2>6
    <3>2. r.block2 # None
      BY <2>4, <3>1, NoneForm
    <3> QED  BY <2>3, <3>1, <3>2, Zenon DEF size
  <2> QED  BY <2>5, <2>6
<1>2. CASE m + 1 < runs[i].size
  <2>1. Call(s, Planned(s, idx[s] + 1)) /\ phase'[s] = "download"
    <3>1. Planned(s, idx[s] + 1) = Block2(m + 1)
      BY <1>0 DEF Planned
    <3> QED  BY <1>1, <1>2, <3>1
  <2>2. CallsOf(s)' /\ ResponsesOf(s)' /\ HasRun(s)' /\ idx'[s] = idx[s] + 1
    BY <2>1, CallLine
  <2>3. DataFits(s, i)'
    BY <1>0, <2>1, <2>2 DEF DataFits, FirstPieces
  <2>4. Served(s)'
    BY <1>0, <1>2, <2>2, <2>3, ServedStays
  <2> QED  BY <2>2, <2>4 DEF Line
<1>3. CASE ~(m + 1 < runs[i].size)
  <2>1. phase'[s] = "done" /\ UNCHANGED <<idx, wire>>
    BY <1>1, <1>3
  <2>2. CallsOf(s)' /\ ResponsesOf(s)' /\ HasRun(s)'
    BY <2>1, EndLine
  <2>3. IF runs[i].size = 1 THEN m = 0 ELSE m < runs[i].size
    BY <1>0, FulfilsParts DEF CacheHolds
  <2>4. m + 1 = runs[i].size
    BY <1>0, <1>3, <2>3
  <2>5. DataFits(s, i)'
    BY <2>1, <2>4 DEF DataFits, FirstPieces
  <2>6. Served(s)'
    BY <2>1, <2>3, <2>5, ServedStays
  <2> QED  BY <2>2, <2>6 DEF Line
<1> QED  BY <1>2, <1>3

\* From the run on the client is brought the reply piece by piece.
LEMMA DownloadLine ==
  ASSUME TypeOK, Sound, NEW s \in Sends, Line(s), HasRun(s), NEW r \in responses, r.to = Current(s),
         UNCHANGED <<cache, entries, responses, pc, runs>>,
         \/ PlainAnswered(s, r) \/ BlockRefused(s, r) \/ BlockAccepted(s, r)
         \/ LastBlockAccepted(s, r) \/ NextBlock(s, r) \/ NextBlockMissing(s, r)
  PROVE  Line(s)'
<1>0. Begun(s)
  BY DEF PlainAnswered, BlockRefused, BlockAccepted, LastBlockAccepted, NextBlock, NextBlockMissing,
         Sound, PhaseSound
<1>1. CallsOf(s) /\ ResponsesOf(s)
  BY DEF Line
<1>2. PICK i \in DOMAIN runs : Fulfils(s, i)
  BY DEF Line, Served
<1> DEFINE m == idx[s] - Size[s]
           size == runs[i].size
<1>3. /\ idx[s] \in Nat /\ idx[s] > 0 /\ Size[s] \in Nat /\ Size[s] > 0
      /\ phase[s] = "plain" => idx[s] = Size[s] /\ Size[s] = 1
      /\ phase[s] = "upload" => Size[s] > 1 /\ idx[s] <= Size[s] /\ wire[Current(s)] = Block1(s, idx[s] - 1)
      /\ phase[s] = "download" => idx[s] > Size[s] /\ num[s] = idx[s] - Size[s]
  BY <1>0, <1>1, PhaseLine
<1>4. r.to[1] = s /\ r.to[2] = idx[s] /\ idx[s] >= Size[s]
  BY DEF Current, HasRun
<1>5. At(s, idx[s]) = "done" /\ Brings(r, s, i, m, size) /\ m \in Nat
  BY <1>1, <1>2, <1>3, <1>4, FulfilsParts DEF ResponsesOf, AnswersFit
<1>6. r.pieces = <<<<i, m>>>> /\ (size # 1 => r.block2 # None) /\ (m = 0 /\ Size[s] > 1 => r.block1 # None)
  <2>1. size \in Nat /\ (m + 1 < size) \in BOOLEAN
    BY <1>2, <1>5, RunSize
  <2>2. [num |-> m, more |-> m + 1 < size] \in Options
    BY <1>5, <2>1 DEF Options
  <2> QED  BY <1>5, <2>2, NoneForm DEF Brings
<1>7. phase[s] = "upload" => m = 0 /\ ~wire[Current(s)].more /\ r.block1 # None
  <2> SUFFICES ASSUME phase[s] = "upload" PROVE m = 0 /\ ~wire[Current(s)].more /\ r.block1 # None
    OBVIOUS
  <2>1. m = 0 /\ Size[s] > 1 /\ idx[s] - 1 \in Nat /\ ~(idx[s] - 1 < Size[s] - 1)
    BY <1>3, <1>4
  <2> QED  BY <1>3, <1>6, <2>1, BlockOfBody
<1>8. phase[s] = "download" => size # 1 /\ num[s] = m
  BY <1>2, <1>3, FulfilsParts DEF CacheHolds
<1>9. ASSUME Replied(s, r), m = 0 PROVE Line(s)'
  <2>1. data'[s] = <<<<i, m>>>>
    BY <1>6, <1>9 DEF Replied, TypeOK
  <2>2. FirstPieces(data'[s], i, m + 1)
    BY <1>9, <2>1 DEF FirstPieces
  <2>3. IF r.block2 # None /\ r.block2.more
        THEN Call(s, Block2(m + 1)) /\ phase'[s] = "download"
        ELSE phase'[s] = "done" /\ UNCHANGED <<idx, wire>>
    BY <1>9 DEF Replied, Ends, TypeOK
  <2> HIDE DEF m
  <2> QED  BY <1>0, <1>1, <1>2, <1>5, <2>2, <2>3, TakenLine DEF m
<1>10. ASSUME NextBlock(s, r) PROVE Line(s)'
  <2>1. phase[s] = "download" /\ num[s] = m
    BY <1>8, <1>10 DEF NextBlock
  <2>2. Len(data[s]) = m /\ (\A k \in DOMAIN data[s] : data[s][k] = <<i, k - 1>>) /\ data[s] \in Seq(Pieces)
    BY <1>2, <2>1, FulfilsParts DEF DataFits, TypeOK
  <2>3. data'[s] = data[s] \o <<<<i, m>>>>
    BY <1>6, <1>10 DEF NextBlock, TypeOK
  <2>4. FirstPieces(data'[s], i, m + 1)
    <3> DEFINE d == data[s]
               p == <<i, m>>
    <3> HIDE DEF d, p, m
    <3>1. d \o <<p>> = Append(d, p)
      BY <2>2 DEF d
    <3>2. Len(Append(d, p)) = m + 1 /\ DOMAIN Append(d, p) = 1 .. m + 1
      BY <2>2 DEF d
    <3>3. ASSUME NEW k \in 1 .. m + 1 PROVE Append(d, p)[k] = <<i, k - 1>>
      <4>1. CASE k = m + 1
        BY <1>5, <2>2, <4>1 DEF d, p
      <4>2. CASE k # m + 1
        <5>1. k \in DOMAIN d
          BY <1>5, <2>2, <4>2 DEF d
        <5> QED  BY <2>2, <5>1 DEF d
      <4> QED  BY <4>1, <4>2
    <3> QED  BY <2>3, <3>1, <3>2, <3>3 DEF FirstPieces, d, p
  <2>5. IF r.block2 # None /\ r.block2.more
        THEN Call(s, Block2(m + 1)) /\ phase'[s] = "download"
        ELSE phase'[s] = "done" /\ UNCHANGED <<idx, wire>>
    BY <1>10, <2>1 DEF NextBlock, Ends, TypeOK
  <2> HIDE DEF m
  <2> QED  BY <1>0, <1>1, <1>2, <1>5, <2>4, <2>5, TakenLine DEF m
<1>11. CASE PlainAnswered(s, r)
  <2>1. Replied(s, r) /\ m = 0
    BY <1>3, <1>11 DEF PlainAnswered
  <2> QED  BY <1>9, <2>1
<1>12. CASE LastBlockAccepted(s, r)
  <2>1. Replied(s, r) /\ m = 0
    BY <1>7, <1>12 DEF LastBlockAccepted
  <2> QED  BY <1>9, <2>1
<1>13. ~BlockRefused(s, r) /\ ~BlockAccepted(s, r) /\ ~NextBlockMissing(s, r)
  BY <1>6, <1>7, <1>8 DEF BlockRefused, BlockAccepted, NextBlockMissing
<1> QED  BY <1>10, <1>11, <1>12, <1>13

LEMMA ClientLine ==
  ASSUME TypeOK, Sound, NEW s \in Sends, InLine(s), Client(s), Quiet(s)', [Next]_vars
  PROVE  Line(s)'
<1>1. CASE Begin(s)
  BY <1>1, BeginLine
<1>2. CASE CallFails(s) \/ NotAwaited(s)
  <2>1. Begun(s)
    BY <1>2 DEF CallFails, NotAwaited, Sound, PhaseSound
  <2>2. Line(s)
    BY <2>1, QuietBefore DEF InLine
  <2> QED  BY <1>2, <2>2, FailLine
<1>3. ASSUME NEW r \in responses,
             \/ PlainAnswered(s, r) \/ BlockRefused(s, r) \/ BlockAccepted(s, r)
             \/ LastBlockAccepted(s, r) \/ NextBlock(s, r) \/ NextBlockMissing(s, r)
      PROVE  Line(s)'
  <2>1. Begun(s) /\ Takes(s, r)
    BY <1>3 DEF PlainAnswered, BlockRefused, BlockAccepted, LastBlockAccepted, NextBlock,
                NextBlockMissing, Sound, PhaseSound
  <2>2. Line(s)
    BY <2>1, QuietBefore DEF InLine
  <2>3. r.to = Current(s) /\ UNCHANGED <<cache, entries, responses, pc, runs>>
    BY <2>1, TakesCurrent DEF Quiet
  <2>4. CASE HasRun(s)
    BY <1>3, <2>2, <2>3, <2>4, DownloadLine
  <2>5. CASE ~HasRun(s)
    BY <1>3, <2>2, <2>3, <2>5, UploadLine
  <2> QED  BY <2>4, <2>5
<1> QED  BY <1>1, <1>2, <1>3 DEF Client
LEMMA RunsForMore ==
  ASSUME TypeOK, NEW h \in Handlers, RunsFor(h)
  PROVE  /\ DOMAIN runs \subseteq DOMAIN runs' /\ \A j \in DOMAIN runs : runs'[j] = runs[j]
         /\ \A j \in DOMAIN runs' \ DOMAIN runs : runs'[j].send = h[1][1]
<1>1. CASE runs' = runs
  BY <1>1
<1>2. ASSUME NEW x \in Executed, runs' = Append(runs, x), x.send = h[1][1]
      PROVE  /\ DOMAIN runs \subseteq DOMAIN runs' /\ \A j \in DOMAIN runs : runs'[j] = runs[j]
             /\ \A j \in DOMAIN runs' \ DOMAIN runs : runs'[j].send = h[1][1]
  <2>1. /\ DOMAIN runs = 1 .. Len(runs) /\ Len(runs) \in Nat /\ DOMAIN runs' = 1 .. Len(runs) + 1
        /\ runs'[Len(runs) + 1] = x /\ \A j \in DOMAIN runs : runs'[j] = runs[j]
    BY <1>2 DEF TypeOK
  <2> QED  BY <1>2, <2>1
<1> QED  BY <1>1, <1>2 DEF RunsFor

\* The steps of others that leave a Send undisturbed leave it where it was.
LEMMA OthersLine ==
  ASSUME TypeOK, Sound, NEW s \in Sends, InLine(s), Quiet(s)', [Next]_vars,
         ~Client(s), \A h \in Handlers : Handler(h) => h[1][1] # s
  PROVE  Line(s)'
<1>1. ASSUME Begun(s) PROVE Line(s)
  BY <1>1, QuietBefore DEF InLine
<1>2. \A i \in 1 .. idx[s] : <<s, i>> \in Calls /\ Sent(<<s, i>>) /\ <<<<s, i>>, 1>> \in Handlers
  BY Made
<1>3. ASSUME NEW x \in Sends, Client(x) PROVE Line(s)'
  <2>1. x # s
    BY <1>3
  <2>2. data'[s] = data[s] /\ phase'[s] = phase[s] /\ idx'[s] = idx[s]
    BY <1>3, <2>1, ClientOwn
  <2>3. Aside(x) /\ \A c \in Calls : Sent(c) => wire'[c] = wire[c]
    BY <1>3, ClientWire
  <2>4. Begun(s)
    BY <2>2 DEF Quiet, Begun
  <2>5. \A i \in 1 .. idx[s] : wire'[<<s, i>>] = wire[<<s, i>>]
    BY <1>2, <2>3
  <2>6. UNCHANGED <<cache, entries, responses, pc, runs>>
    BY <2>3 DEF Aside
  <2> QED  BY <1>1, <2>2, <2>4, <2>5, <2>6, LineOther
<1>4. ASSUME NEW h \in Handlers, Handler(h) PROVE Line(s)'
  <2>1. UNCHANGED <<phase, idx, data, wire>> /\ h[1][1] # s
    BY <1>4, HandlerAside
  <2>2. Begun(s)
    BY <2>1 DEF Quiet, Begun
  <2>3. ~StoreFirst(h) /\ ~AppendMiddle(h) /\ ~Caches(h)
    BY <2>1, <2>2, OthersDisturb DEF Quiet
  <2>4. RunsFor(h) /\ (LoadForAppend(h) \/ Reassemble(h) \/ Replies(h))
    BY <1>4, <2>3, HandlerKinds
  <2>5. UNCHANGED <<cache, entries>>
    BY <2>4 DEF LoadForAppend, Reassemble, Replies, cacheVars
  <2>6. /\ responses \subseteq responses'
        /\ \A r \in responses' \ responses : r.to = h[1]
    BY <1>4, <2>3, HandlerFrame
  <2>7. \A i \in 1 .. idx[s] : pc'[<<<<s, i>>, 1>>] = pc[<<<<s, i>>, 1>>]
    BY <1>2, <1>4, <2>1, HandlerFrame
  <2>8. /\ DOMAIN runs \subseteq DOMAIN runs' /\ \A j \in DOMAIN runs : runs'[j] = runs[j]
        /\ \A j \in DOMAIN runs' \ DOMAIN runs : runs'[j].send # s
    BY <2>1, <2>4, RunsForMore
  <2> QED  BY <1>1, <2>1, <2>2, <2>5, <2>6, <2>7, <2>8, LineOther
<1>5. ASSUME NEW c \in Calls, AdmitCopy(c) PROVE Line(s)'
  <2>1. /\ UNCHANGED <<cache, entries, phase, idx, data, wire, responses, runs>>
        /\ trouble' = [trouble EXCEPT ![c[1]] = trouble[c[1]] \cup {"copied"}]
        /\ \A h \in Handlers : h[1] # c => pc'[h] = pc[h]
    BY <1>5, AdmitForm
  <2>2. c[1] # s
    BY <2>1 DEF Quiet, TypeOK
  <2>3. \A i \in 1 .. idx[s] : pc'[<<<<s, i>>, 1>>] = pc[<<<<s, i>>, 1>>]
    BY <1>2, <2>1, <2>2
  <2>4. Begun(s)
    BY <2>1 DEF Quiet, Begun
  <2> QED  BY <1>1, <2>1, <2>3, <2>4, LineOther
<1>6. ~Watch
  BY WatchForm DEF Quiet, Begun
<1>7. CASE UNCHANGED <<cache, entries, phase, idx, num, data, wire, responses, pc, runs, trouble, faults>>
  <2>1. Begun(s)
    BY <1>7 DEF Quiet, Begun
  <2> QED  BY <1>1, <1>7, <2>1, LineOther
<1> QED  BY <1>3, <1>4, <1>5, <1>6, <1>7, NextKinds
\* The server works on the call that waits, and on no other.
Works(h, s) ==
  /\ Begun(s) /\ Line(s) /\ h[1] = Current(s) /\ h = <<Current(s), 1>>
  /\ idx[s] \in Nat /\ idx[s] > 0 /\ Size[s] \in Nat /\ Size[s] > 0
  /\ Current(s) \in Calls /\ wire[Current(s)] = Planned(s, idx[s])
  /\ pc[h].at = At(s, idx[s]) /\ pc[h].at \notin {"done", "admitted"}

LEMMA OwnWorks ==
  ASSUME TypeOK, Sound, OneHandler, NEW h \in Handlers, Handler(h), NEW s \in Sends, h[1][1] = s,
         InLine(s), Quiet(s)', [Next]_vars
  PROVE  Works(h, s)
<1>1. /\ h[1] \in Calls /\ Sent(h[1]) /\ pc[h].at # "done" /\ (h[2] = 2 => pc[h].at # "none")
      /\ h[1] = <<s, h[1][2]>> /\ h[2] \in {1, 2} /\ h = <<h[1], h[2]>>
  BY HandlerKinds, HandlerForm, CallForm
<1>2. h[1][2] \in 1 .. idx[s] /\ idx[s] \in Nat /\ Size[s] \in Nat /\ Size[s] > 0
  BY <1>1, CallForm, SizeForm DEF Sound, WireSound, TypeOK
<1>3. Begun(s) /\ idx[s] > 0
  BY <1>2 DEF Begun
<1>4. Quiet(s) /\ Line(s)
  BY <1>3, QuietBefore DEF InLine
<1>5. h[2] = 1 /\ pc[h].at # "admitted"
  BY <1>1, <1>4 DEF OneHandler, Quiet
<1>6. h = <<<<s, h[1][2]>>, 1>> /\ pc[h].at = At(s, h[1][2])
  BY <1>1, <1>5 DEF At
<1>7. h[1][2] = idx[s]
  BY <1>1, <1>2, <1>4, <1>6 DEF Line, CallsOf
<1>8. wire[<<s, idx[s]>>] = Planned(s, idx[s])
  BY <1>2, <1>4, <1>7 DEF Line, CallsOf
<1> QED  BY <1>1, <1>2, <1>3, <1>4, <1>5, <1>6, <1>7, <1>8 DEF Works, Current

\* What the plan says of the message at work.
LEMMA WorksForm ==
  ASSUME NEW h \in Handlers, NEW s \in Sends, Works(h, s)
  PROVE  /\ wire[h[1]].kind = "plain"  => idx[s] = 1 /\ Size[s] = 1
         /\ wire[h[1]].kind = "block1" =>
              /\ Size[s] > 1 /\ idx[s] <= Size[s] /\ wire[h[1]].num = idx[s] - 1
              /\ wire[h[1]].more <=> idx[s] < Size[s]
         /\ wire[h[1]].kind = "block2" => idx[s] > Size[s] /\ wire[h[1]].num = idx[s] - Size[s]
         /\ wire[h[1]].kind \in {"plain", "block1", "block2"}
<1>0. idx[s] \in Nat /\ idx[s] > 0 /\ Size[s] \in Nat /\ Size[s] > 0 /\ wire[h[1]] = Planned(s, idx[s])
  BY DEF Works
<1>1. CASE idx[s] > Size[s]
  <2>1. wire[h[1]] = Block2(idx[s] - Size[s])
    BY <1>0, <1>1, PlannedForm
  <2>2. wire[h[1]].kind = "block2" /\ wire[h[1]].num = idx[s] - Size[s]
    BY <2>1 DEF Block2
  <2> QED  BY <1>1, <2>2
<1>2. CASE idx[s] <= Size[s] /\ Size[s] = 1
  <2>1. wire[h[1]].kind = "plain"
    BY <1>0, <1>2, PlannedForm DEF Plain
  <2> QED  BY <1>0, <1>2, <2>1
<1>3. CASE idx[s] <= Size[s] /\ Size[s] > 1
  <2>1. wire[h[1]] = Block1(s, idx[s] - 1) /\ idx[s] - 1 \in Nat
    BY <1>0, <1>3, PlannedForm
  <2>2. /\ wire[h[1]].kind = "block1" /\ wire[h[1]].num = idx[s] - 1
        /\ wire[h[1]].more <=> idx[s] - 1 < Size[s] - 1
    BY <2>1, BlockOfBody
  <2>3. idx[s] - 1 < Size[s] - 1 <=> idx[s] < Size[s]
    BY <1>0
  <2> QED  BY <1>3, <2>2, <2>3
<1> QED  BY <1>0, <1>1, <1>2, <1>3

\* The handler at work goes on: the calls stay in line.
LEMMA WorksLine ==
  ASSUME TypeOK, Sound, NEW h \in Handlers, NEW s \in Sends, Works(h, s), Handler(h),
         pc'[h].at = "stored" => idx[s] = Size[s],
         \A r \in responses' \ responses : r.to[1] = s =>
           r.to[2] = idx[s] /\ pc'[h].at = "done" /\ (idx[s] < Size[s] => r.code = "continue")
  PROVE  /\ CallsOf(s)' /\ ResponsesOf(s)' /\ idx' = idx /\ data' = data /\ phase' = phase
         /\ At(s, idx[s])' = pc'[h].at
         /\ \A i \in 1 .. idx[s] - 1 : At(s, i)' = "done"
<1>0. /\ idx[s] \in Nat /\ idx[s] > 0 /\ CallsOf(s) /\ ResponsesOf(s) /\ h = <<<<s, idx[s]>>, 1>>
      /\ Size[s] \in Nat /\ h[1] = <<s, idx[s]>>
  BY DEF Works, Current, Line
<1>1. UNCHANGED <<phase, idx, data, wire>>
  BY HandlerAside
<1>2. At(s, idx[s])' = pc'[h].at
  BY <1>0, <1>1 DEF At
<1>3. ASSUME NEW i \in 1 .. idx[s] - 1 PROVE At(s, i)' = "done"
  <2>1. i \in 1 .. idx[s] /\ i < idx[s]
    BY <1>0
  <2>2. <<<<s, i>>, 1>> \in Handlers /\ <<<<s, i>>, 1>> # h
    BY <1>0, <2>1, Made
  <2>3. pc'[<<<<s, i>>, 1>>] = pc[<<<<s, i>>, 1>>]
    BY <2>2, HandlerFrame
  <2> QED  BY <1>0, <2>1, <2>3 DEF CallsOf, At
<1>4. \A i \in 1 .. idx[s] : i \in 1 .. idx[s] - 1 \/ i = idx[s]
  BY <1>0
<1>5. CallsOf(s)'
  <2> SUFFICES ASSUME NEW i \in 1 .. idx[s]
               PROVE  /\ wire[<<s, i>>] = Planned(s, i)
                      /\ i < idx[s] => At(s, i)' = "done"
                      /\ At(s, i)' = "stored" => i = Size[s]
    BY <1>1 DEF CallsOf, Planned, Plain, Block1, Block2
  <2>1. wire[<<s, i>>] = Planned(s, i)
    BY <1>0 DEF CallsOf
  <2>2. CASE i \in 1 .. idx[s] - 1
    BY <1>3, <2>1, <2>2
  <2>3. CASE i = idx[s]
    <3>1. At(s, i)' = pc'[h].at
      BY <1>0, <2>3 DEF At
    <3> QED  BY <1>0, <2>1, <2>3, <3>1
  <2> QED  BY <1>4, <2>2, <2>3
<1>6. ResponsesOf(s)'
  <2> SUFFICES ASSUME NEW r \in responses', r.to[1] = s
               PROVE  At(s, r.to[2])' = "done" /\ (r.to[2] < Size[s] => r.code = "continue")
    BY DEF ResponsesOf
  <2>1. CASE r \in responses
    <3>1. At(s, r.to[2]) = "done" /\ (r.to[2] < Size[s] => r.code = "continue") /\ r.to[2] \in 1 .. idx[s]
      BY <1>0, <2>1, OfMade DEF ResponsesOf
    <3>2. r.to[2] # idx[s]
      BY <3>1 DEF Works
    <3>3. r.to[2] \in 1 .. idx[s] - 1
      BY <1>4, <3>1, <3>2
    <3> QED  BY <1>3, <3>1, <3>3
  <2>2. CASE r \notin responses
    <3>1. r.to[2] = idx[s] /\ pc'[h].at = "done" /\ (idx[s] < Size[s] => r.code = "continue")
      BY <2>2
    <3> QED  BY <1>0, <3>1 DEF At
  <2> QED  BY <2>1, <2>2
<1> QED  BY <1>1, <1>2, <1>3, <1>5, <1>6
LEMMA NotRunForm ==
  ASSUME NEW h \in Handlers, NEW s \in Sends, Works(h, s), ~HasRun(s)
  PROVE  /\ idx[s] <= Size[s] /\ BodyOf(s) /\ wire[h[1]].kind # "block2" /\ pc[h].at # "stored"
         /\ idx[s] > 1 => /\ cache # None /\ entries[cache].kind = "request"
                          /\ entries[cache].last = idx[s] - 2
                          /\ pc[h].at = "loaded" => pc[h].entry = cache
<1>0. /\ idx[s] \in Nat /\ idx[s] > 0 /\ Size[s] \in Nat /\ Size[s] > 0
      /\ CallsOf(s) /\ BodyOf(s) /\ pc[h].at = At(s, idx[s]) /\ pc[h].at # "done"
      /\ h = <<Current(s), 1>>
  BY DEF Works, Line
<1>1. idx[s] <= Size[s]
  <2> SUFFICES ASSUME idx[s] > Size[s] PROVE FALSE
    BY <1>0
  <2>1. Size[s] \in 1 .. idx[s] /\ Size[s] < idx[s]
    BY <1>0
  <2>2. At(s, Size[s]) = "done"
    BY <1>0, <2>1 DEF CallsOf
  <2> QED  BY <2>1, <2>2, <1>0 DEF HasRun
<1>2. wire[h[1]].kind # "block2"
  BY <1>0, <1>1, WorksForm
<1>3. pc[h].at # "stored"
  <2> SUFFICES ASSUME At(s, idx[s]) = "stored" PROVE FALSE
    BY <1>0
  <2>0. idx[s] \in 1 .. idx[s]
    BY <1>0
  <2>1. idx[s] = Size[s]
    BY <1>0, <2>0 DEF CallsOf
  <2> QED  BY <1>0, <2>1 DEF HasRun
<1>4. Handled(s) = idx[s] - 1
  BY <1>0 DEF Handled
<1>5. Handled(s) > 0 =>
        /\ cache # None /\ entries[cache].kind = "request" /\ entries[cache].last = Handled(s) - 1
        /\ pc[h].at = "loaded" => pc[h].entry = cache
  BY <1>0 DEF BodyOf
<1>6. idx[s] > 1 => Handled(s) > 0 /\ Handled(s) - 1 = idx[s] - 2
  BY <1>0, <1>4
<1> QED  BY <1>0, <1>1, <1>2, <1>3, <1>5, <1>6

\* A block of the body has gone a step further, and the callback has not run.
LEMMA BodyStep ==
  ASSUME TypeOK, Sound, NEW h \in Handlers, NEW s \in Sends, Works(h, s), ~HasRun(s), Handler(h),
         runs' = runs, pc'[h].at \in {"loaded", "ready", "done"},
         pc'[h].at = "done" => idx[s] < Size[s],
         \A r \in responses' \ responses : pc'[h].at = "done" /\ r.to = h[1] /\ r.code = "continue",
         NEW n \in Nat, n = IF pc'[h].at = "done" THEN idx[s] ELSE idx[s] - 1,
         n > 0 => /\ cache' # None /\ entries'[cache'].kind = "request" /\ entries'[cache'].last = n - 1
                  /\ pc'[h].at = "loaded" => pc'[h].entry = cache'
  PROVE  Line(s)'
<1>0. /\ idx[s] \in Nat /\ idx[s] > 0 /\ Size[s] \in Nat /\ Size[s] > 0
      /\ h = <<Current(s), 1>> /\ h[1] = Current(s) /\ h[1][1] = s /\ h[1][2] = idx[s]
  BY DEF Works, Current
<1>1. idx[s] <= Size[s] /\ BodyOf(s)
  BY NotRunForm
<1>2. /\ CallsOf(s)' /\ ResponsesOf(s)' /\ idx' = idx /\ data' = data /\ phase' = phase
      /\ At(s, idx[s])' = pc'[h].at
  BY <1>0, WorksLine
<1>3. ~HasRun(s)'
  <2>1. CASE idx[s] < Size[s]
    BY <1>0, <1>2, <2>1 DEF HasRun
  <2>2. CASE idx[s] = Size[s]
    <3>1. At(s, Size[s])' = pc'[h].at
      BY <1>2, <2>2 DEF At
    <3> QED  BY <1>0, <2>2, <3>1 DEF HasRun
  <2> QED  BY <1>0, <1>1, <2>1, <2>2
<1>4. Handled(s)' = n
  BY <1>2 DEF Handled
<1>5. RunsOf(s)' = {}
  BY <1>1 DEF BodyOf, RunsOf
<1>6. \A r \in responses' : r.to[1] = s => r.to[2] < Size[s]
  <2>1. \A r \in responses : r.to[1] = s => r.to[2] < Size[s]
    BY <1>1 DEF BodyOf
  <2> QED  BY <1>0, <2>1
<1>7. pc'[<<Current(s)', 1>>] = pc'[h]
  BY <1>0, <1>2 DEF Current
<1>8. BodyOf(s)'
  <2>1. data'[s] = <<>> /\ phase'[s] \in {"plain", "upload"} \cup Halts(s)
    BY <1>1, <1>2 DEF BodyOf
  <2> QED  BY <1>2, <1>4, <1>5, <1>6, <1>7, <2>1 DEF BodyOf
<1> QED  BY <1>2, <1>3, <1>8 DEF Line

\* The blocks of the body are stored, appended and put together one by one.
LEMMA BlockLine ==
  ASSUME TypeOK, Sound, NEW h \in Handlers, NEW s \in Sends, Works(h, s), ~HasRun(s), Handler(h),
         \/ StoreFirst(h) \/ LoadForAppend(h) \/ AppendMiddle(h) \/ Reassemble(h) \/ RefuseBlock(h)
  PROVE  Line(s)'
<1>0. /\ idx[s] \in Nat /\ idx[s] > 0 /\ Size[s] \in Nat /\ h[1][2] = idx[s] /\ h[1] \in Calls
      /\ idx[s] <= Size[s]
      /\ idx[s] > 1 => /\ cache # None /\ entries[cache].kind = "request"
                       /\ entries[cache].last = idx[s] - 2
                       /\ pc[h].at = "loaded" => pc[h].entry = cache
  BY NotRunForm DEF Works, Current
<1>1. /\ wire[h[1]].kind = "block1" => /\ wire[h[1]].num = idx[s] - 1
                                       /\ wire[h[1]].more <=> idx[s] < Size[s]
  BY WorksForm
<1>2. Continue(h[1]).to = h[1] /\ Continue(h[1]).code = "continue"
  BY DEF Continue, Response
<1>3. CASE StoreFirst(h)
  <2>1. wire[h[1]].kind = "block1" /\ wire[h[1]].num = 0
    BY <1>3 DEF StoreFirst, Starts
  <2>2. idx[s] = 1 /\ Size[s] > 1
    BY <1>0, <1>1, <2>1, WorksForm
  <2>3. runs' = runs /\ responses' = responses \cup {Continue(h[1])} /\ pc'[h] = [at |-> "done"]
    BY <1>3, GoesForm DEF StoreFirst, Answers
  <2>4. /\ cache' # None
        /\ entries'[cache'] = [kind |-> "request", pieces |-> <<Piece(h[1])>>, last |-> 0, block1 |-> None]
    BY <1>3, FirstForm
  <2>5. entries'[cache'].kind = "request" /\ entries'[cache'].last = 0
    BY <2>4
  <2>6. pc'[h].at = "done"
    BY <2>3
  <2> QED  BY <1>2, <2>2, <2>3, <2>4, <2>5, <2>6, BodyStep
<1>4. CASE LoadForAppend(h)
  <2>1. /\ wire[h[1]].kind = "block1" /\ wire[h[1]].num > 0
        /\ UNCHANGED <<cache, entries, responses, runs>>
        /\ pc'[h] = [at |-> "loaded", entry |-> cache, read |-> entries[cache].pieces]
    BY <1>4, GoesForm DEF LoadForAppend, Starts, cacheVars
  <2>2. pc'[h].at = "loaded" /\ pc'[h].entry = cache
    BY <2>1
  <2>3. idx[s] > 1 /\ idx[s] - 1 \in Nat /\ idx[s] - 2 = (idx[s] - 1) - 1
    BY <1>0, <1>1, <2>1
  <2> QED  BY <1>0, <2>1, <2>2, <2>3, BodyStep
<1>5. CASE AppendMiddle(h)
  <2>1. /\ wire[h[1]].kind = "block1" /\ wire[h[1]].more /\ wire[h[1]].num > 0
        /\ pc[h].at = "loaded" /\ runs' = runs /\ Answers(h, Continue(h[1]))
    BY <1>5, AppendForm
  <2>2. idx[s] > 1 /\ idx[s] < Size[s]
    BY <1>0, <1>1, <2>1
  <2>3. pc[h].entry = cache /\ cache # None /\ entries[cache].kind = "request"
    BY <1>0, <2>1, <2>2
  <2>4. cache' = cache /\ entries'[cache].kind = entries[cache].kind
        /\ entries'[cache].last = idx[s] - 1
    BY <1>1, <1>5, <2>1, <2>3, AppendEntries
  <2>5. responses' = responses \cup {Continue(h[1])} /\ pc'[h].at = "done"
    <3>1. responses' = responses \cup {Continue(h[1])} /\ pc'[h] = [at |-> "done"]
      BY <2>1, GoesForm DEF Answers
    <3> QED  BY <3>1
  <2> QED  BY <1>0, <1>2, <2>1, <2>2, <2>3, <2>4, <2>5, BodyStep
<1>6. CASE Reassemble(h)
  <2>1. /\ wire[h[1]].kind = "block1" /\ wire[h[1]].num > 0
        /\ UNCHANGED <<cache, entries, responses, runs>>
        /\ pc'[h] = [at |-> "ready", body |-> Assembled(Piece(h[1]))]
    BY <1>6, GoesForm DEF Reassemble, Starts, cacheVars
  <2>2. pc'[h].at = "ready"
    BY <2>1
  <2>3. idx[s] > 1 /\ idx[s] - 1 \in Nat /\ idx[s] - 2 = (idx[s] - 1) - 1
    BY <1>0, <1>1, <2>1
  <2> QED  BY <1>0, <2>1, <2>2, <2>3, BodyStep
<1>7. ~RefuseBlock(h)
  <2> SUFFICES ASSUME RefuseBlock(h) PROVE FALSE
    OBVIOUS
  <2>1. /\ wire[h[1]].kind = "block1" /\ wire[h[1]].num > 0
        /\ IF wire[h[1]].more THEN ~Appends(wire[h[1]].num) ELSE cache = None
    BY DEF RefuseBlock, Starts
  <2>2. idx[s] > 1 /\ wire[h[1]].num = idx[s] - 1
    BY <1>0, <1>1, <2>1
  <2>3. wire[h[1]].num = entries[cache].last + 1
    BY <1>0, <2>2
  <2> QED  BY <1>0, <2>1, <2>2, <2>3 DEF Appends
<1> QED  BY <1>3, <1>4, <1>5, <1>6, <1>7
\* The callback runs on the whole body, for the first time.
LEMMA RunLine ==
  ASSUME TypeOK, Sound, NEW h \in Handlers, NEW s \in Sends, Works(h, s), ~HasRun(s), Handler(h),
         idx[s] = Size[s], Sent(h[1]), Run(h, Body(s))
  PROVE  Line(s)'
<1> DEFINE c == h[1]
<1>i. PICK i \in Nat : i = Len(runs) + 1
  BY DEF TypeOK
<1>0. /\ idx[s] \in Nat /\ Size[s] \in Nat /\ Size[s] > 0 /\ c = <<s, idx[s]>> /\ c \in Calls
      /\ c[1] = s /\ c[2] = idx[s] /\ BodyOf(s)
  BY NotRunForm DEF Works, Current
<1>1. PICK n \in ReplySizes :
        /\ n \in Nat /\ n > 0
        /\ ReplyBlock1(c) \in Nat \cup {None}
        /\ runs' = Append(runs, [send |-> c[1], call |-> c, body |-> Body(s), size |-> n])
        /\ runs' \in Seq(Executed)
        /\ \/ /\ n = 1
              /\ Answers(h, Response(c, "ok", ReplyBlock1(c), None, Reply(i, 1)))
              /\ Response(c, "ok", ReplyBlock1(c), None, Reply(i, 1)) \in Responses
              /\ UNCHANGED <<cache, entries, trouble>>
           \/ /\ n > 1
              /\ Put("reply", Reply(i, n), ReplyBlock1(c))
              /\ Disturbs(c, {})
              /\ Goes(h, [at |-> "stored"])
              /\ responses' = responses
  BY <1>i, BodyForm, RunForm
<1> DEFINE r == Response(c, "ok", ReplyBlock1(c), None, Reply(i, 1))
<1>2. /\ DOMAIN runs' = DOMAIN runs \cup {i} /\ i \notin DOMAIN runs
      /\ runs'[i] = [send |-> c[1], call |-> c, body |-> Body(s), size |-> n]
      /\ \A j \in DOMAIN runs : runs'[j] = runs[j]
  <2> DEFINE x == [send |-> c[1], call |-> c, body |-> Body(s), size |-> n]
  <2>1. runs \in Seq(Executed) /\ runs' = Append(runs, x)
    BY <1>1 DEF TypeOK
  <2> HIDE DEF x
  <2>2. /\ DOMAIN runs' = DOMAIN runs \cup {Len(runs) + 1} /\ Len(runs) + 1 \notin DOMAIN runs
        /\ runs'[Len(runs) + 1] = x /\ \A j \in DOMAIN runs : runs'[j] = runs[j]
    BY <2>1
  <2> QED  BY <1>i, <2>2 DEF x
<1>3. runs'[i].send = s /\ runs'[i].body = Body(s) /\ runs'[i].size = n
  BY <1>0, <1>2
<1>4. RunsOf(s)' = {i} /\ i \in DOMAIN runs'
  <2>1. \A j \in DOMAIN runs : runs[j].send # s
    BY <1>0 DEF BodyOf, RunsOf
  <2>2. {j \in DOMAIN runs' : runs'[j].send = s} = {i}
    BY <1>2, <1>3, <2>1
  <2> QED  BY <1>2, <2>2 DEF RunsOf
<1>5. Size[s] > 1 => ReplyBlock1(c) # None
  <2>1. Size[s] > 1 => wire[c].kind = "block1" /\ wire[c].num \in Nat
    BY <1>0, WorksForm
  <2> QED  BY <2>1, NoneForm DEF ReplyBlock1
<1>6. /\ n = 1 => /\ responses' = responses \cup {r} /\ pc'[h].at = "done"
      /\ n > 1 => /\ responses' = responses /\ pc'[h].at = "stored"
                  /\ cache' # None /\ entries'[cache'].kind = "reply"
                  /\ entries'[cache'].pieces = Reply(i, n)
                  /\ entries'[cache'].block1 = ReplyBlock1(c)
  <2>1. CASE n = 1
    <3>1. responses' = responses \cup {r} /\ pc'[h] = [at |-> "done"]
      BY <1>1, <2>1, GoesForm DEF Answers
    <3> QED  BY <2>1, <3>1
  <2>2. CASE n > 1
    <3>1. Goes(h, [at |-> "stored"]) /\ responses' = responses /\ Put("reply", Reply(i, n), ReplyBlock1(c))
      BY <1>1, <2>2
    <3>2. pc'[h] = [at |-> "stored"]
      BY <3>1, GoesForm
    <3>3. Reply(i, n) \in Seq(Pieces)
      BY <1>1, ReplyForm
    <3>4. /\ cache' # None
          /\ entries'[cache'] = [kind |-> "reply", pieces |-> Reply(i, n), last |-> 0, block1 |-> ReplyBlock1(c)]
      BY <1>1, <3>1, <3>3, PutForm, TypeParts
    <3>5. /\ entries'[cache'].kind = "reply" /\ entries'[cache'].pieces = Reply(i, n)
          /\ entries'[cache'].block1 = ReplyBlock1(c)
      BY <3>4
    <3> QED  BY <2>2, <3>1, <3>2, <3>4, <3>5
  <2> QED  BY <1>1, <2>1, <2>2
<1>7. r.to = c /\ r.code = "ok" /\ r.block1 = ReplyBlock1(c) /\ r.block2 = None /\ r.pieces = Reply(i, 1)
  BY DEF Response
<1> HIDE DEF r
<1>8. /\ CallsOf(s)' /\ ResponsesOf(s)' /\ idx' = idx /\ data' = data /\ phase' = phase
      /\ At(s, idx[s])' = pc'[h].at
  <2>1. \A x \in responses' \ responses : x = r /\ n = 1
    BY <1>1, <1>6
  <2>2. \A x \in responses' \ responses : x.to[2] = idx[s] /\ pc'[h].at = "done"
    BY <1>0, <1>6, <1>7, <2>1
  <2> QED  BY <1>0, <2>2, WorksLine
<1>9. HasRun(s)'
  BY <1>0, <1>1, <1>6, <1>8 DEF HasRun, At
<1> HIDE DEF c
<1>10. RanOnce(s, i)'
  BY <1>3, <1>4 DEF RanOnce, Body
<1>11. CacheHolds(s, i)'
  <2>1. CASE n = 1
    BY <1>0, <1>3, <1>6, <1>8, <2>1 DEF CacheHolds
  <2>2. CASE n > 1
    <3>1. runs'[i].size = n /\ n # 1 /\ idx'[s] - Size[s] < n
      <4>1. idx'[s] = Size[s] /\ n \in Nat
        BY <1>1, <1>8
      <4> QED  BY <1>0, <1>3, <2>2, <4>1
    <3>2. /\ cache' # None /\ entries'[cache'].kind = "reply" /\ entries'[cache'].pieces = Reply(i, n)
          /\ Size[s] > 1 => entries'[cache'].block1 # None
      BY <1>5, <1>6, <2>2
    <3> QED  BY <3>1, <3>2 DEF CacheHolds, Reply
  <2> QED  BY <1>1, <2>1, <2>2
<1>12. AnswersFit(s, i)'
  <2>1. \A x \in responses : x.to[1] = s => ~(x.to[2] >= Size[s])
    <3>1. \A x \in responses : x.to[1] = s => x.to[2] < Size[s]
      BY <1>0 DEF BodyOf
    <3>2. \A x \in responses : x.to[1] = s => x.to[2] \in Nat
      BY <1>0, OfMade
    <3> QED  BY <1>0, <3>1, <3>2
  <2>2. CASE n = 1
    <3>1. Reply(i, 1) = <<<<i, 0>>>>
      <4>1. 1 .. 1 = {1}
        OBVIOUS
      <4>2. Reply(i, 1) = [k \in {1} |-> <<i, k - 1>>]
        BY <4>1 DEF Reply
      <4>3. <<<<i, 0>>>> = [k \in {1} |-> <<i, 0>>]
        BY <4>1
      <4>4. \A k \in {1} : <<i, k - 1>> = <<i, 0>>
        OBVIOUS
      <4> QED  BY <4>2, <4>3, <4>4
    <3>2. r.to[2] - Size[s] = 0
      BY <1>0, <1>7
    <3>3. Brings(r, s, i, 0, 1)
      BY <1>5, <1>7, <3>1 DEF Brings
    <3>4. ASSUME NEW x \in responses', x.to[1] = s, x.to[2] >= Size[s]
          PROVE  Brings(x, s, i, x.to[2] - Size[s], 1)
      <4>1. x = r
        BY <1>6, <2>1, <2>2, <3>4
      <4> QED  BY <3>2, <3>3, <4>1
    <3>5. runs'[i].size = 1
      BY <1>3, <2>2
    <3> QED  BY <3>4, <3>5 DEF AnswersFit, Brings
  <2>3. CASE n > 1
    BY <1>6, <2>1, <2>3 DEF AnswersFit
  <2> QED  BY <1>1, <2>2, <2>3
<1>13. DataFits(s, i)'
  <2>1. data'[s] = <<>> /\ phase'[s] \in {"plain", "upload"} \cup Halts(s)
    BY <1>0, <1>8 DEF BodyOf
  <2>2. DOMAIN data'[s] = {}
    BY <2>1
  <2> QED  BY <2>1, <2>2 DEF DataFits, Halts
<1>14. Fulfils(s, i)'
  BY <1>10, <1>11, <1>12, <1>13, FulfilsParts, PTL
<1> QED  BY <1>4, <1>8, <1>9, <1>14 DEF Line, Served
\* Once it has run, the block of its reply that is asked for is in the cache.
LEMMA HasRunForm ==
  ASSUME TypeOK, Sound, NEW h \in Handlers, NEW s \in Sends, Works(h, s), HasRun(s),
         NEW i \in DOMAIN runs, Fulfils(s, i)
  PROVE  LET m == idx[s] - Size[s]
             size == runs[i].size
         IN
         /\ m \in Nat /\ size \in Nat /\ i \in Nat /\ m < size /\ size > 1
         /\ cache # None /\ entries[cache].kind = "reply" /\ entries[cache].pieces = Reply(i, size)
         /\ Size[s] > 1 => entries[cache].block1 # None
         /\ \/ pc[h].at = "stored" /\ m = 0 /\ wire[h[1]].kind # "block2"
            \/ pc[h].at = "none" /\ wire[h[1]].kind = "block2" /\ wire[h[1]].num = m
<1> DEFINE m == idx[s] - Size[s]
           size == runs[i].size
<1>0. /\ idx[s] \in Nat /\ idx[s] > 0 /\ Size[s] \in Nat /\ Size[s] > 0 /\ idx[s] >= Size[s]
      /\ size \in Nat /\ size > 0 /\ i \in Nat /\ CallsOf(s) /\ idx[s] \in 1 .. idx[s]
      /\ pc[h].at = At(s, idx[s]) /\ pc[h].at \notin {"done", "admitted"}
  BY RunSize DEF Works, HasRun, Line
<1>1. CacheHolds(s, i)
  BY FulfilsParts
<1>2. size # 1
  BY <1>0, <1>1 DEF CacheHolds
<1>3. /\ m < size /\ cache # None
      /\ entries[cache].kind = "reply" /\ entries[cache].pieces = Reply(i, size)
      /\ Size[s] > 1 => entries[cache].block1 # None
  BY <1>1, <1>2 DEF CacheHolds
<1>4. CASE idx[s] = Size[s]
  <2>1. pc[h].at = "stored"
    BY <1>0, <1>4 DEF HasRun
  <2>2. wire[h[1]].kind # "block2"
    BY <1>0, <1>4, WorksForm
  <2> QED  BY <1>0, <1>2, <1>3, <1>4, <2>1, <2>2
<1>5. CASE idx[s] > Size[s]
  <2>1. wire[h[1]].kind = "block2" /\ wire[h[1]].num = m
    BY <1>0, <1>5, WorksForm
  <2>2. pc[h].at # "stored"
    BY <1>0, <1>5 DEF CallsOf
  <2>3. pc[h].at \notin {"loaded", "ready"}
    BY <2>1 DEF Sound, ServerSound, IsLast
  <2>4. pc[h].at \in {"none", "admitted", "stored", "done", "loaded", "ready"}
    <3>1. pc[h] \in States
      BY DEF TypeOK
    <3> QED  BY <3>1 DEF States
  <2> QED  BY <1>0, <1>2, <1>3, <1>5, <2>1, <2>2, <2>3, <2>4
<1> QED  BY <1>0, <1>4, <1>5

\* The block that is asked for is served.
LEMMA AnsweredLine ==
  ASSUME TypeOK, Sound, NEW h \in Handlers, NEW s \in Sends, Works(h, s), HasRun(s), Handler(h),
         NEW i \in DOMAIN runs, Fulfils(s, i), NEW m, m = idx[s] - Size[s],
         responses' = responses \cup
           {Response(h[1], "ok", Block(m).block1, Block(m).block2, Block(m).pieces)},
         pc'[h].at = "done", UNCHANGED <<cache, entries, runs>>
  PROVE  Line(s)'
<1> DEFINE c == h[1]
           size == runs[i].size
           r == Response(c, "ok", Block(m).block1, Block(m).block2, Block(m).pieces)
<1>0. /\ idx[s] \in Nat /\ idx[s] > 0 /\ Size[s] \in Nat /\ Size[s] > 0 /\ idx[s] >= Size[s]
      /\ c[1] = s /\ c[2] = idx[s]
  BY DEF Works, HasRun, Current
<1>1. /\ m \in Nat /\ size \in Nat /\ i \in Nat /\ m < size /\ size > 1
      /\ cache # None /\ entries[cache].kind = "reply" /\ entries[cache].pieces = Reply(i, size)
      /\ Size[s] > 1 => entries[cache].block1 # None
  BY HasRunForm
<1>2. r.to = c /\ r.code = "ok" /\ r.block1 = Block(m).block1 /\ r.block2 = Block(m).block2
      /\ r.pieces = Block(m).pieces
  BY DEF Response
<1>3. Len(Reply(i, size)) = size /\ Reply(i, size)[m + 1] = <<i, m>>
  <2>1. Len(Reply(i, size)) = size /\ \A k \in 1 .. size : Reply(i, size)[k] = <<i, k - 1>>
    BY <1>1, ReplyForm
  <2>2. m + 1 \in 1 .. size /\ (m + 1) - 1 = m
    BY <1>1
  <2> QED  BY <2>1, <2>2
<1>4. Brings(r, s, i, m, size)
  <2>1. r.pieces = <<<<i, m>>>>
    <3>1. Block(m).pieces =
            IF m < Len(entries[cache].pieces) THEN <<entries[cache].pieces[m + 1]>> ELSE <<>>
      BY DEF Block
    <3>2. m < Len(entries[cache].pieces) /\ entries[cache].pieces[m + 1] = <<i, m>>
      BY <1>1, <1>3
    <3> QED  BY <1>2, <3>1, <3>2
  <2>2. r.block2 = [num |-> m, more |-> m + 1 < size]
    <3>1. Block(m).block2 = [num |-> m, more |-> m + 1 < Len(entries[cache].pieces)]
      BY DEF Block
    <3> QED  BY <1>1, <1>2, <1>3, <3>1
  <2>3. m = 0 /\ Size[s] > 1 => r.block1 # None
    <3>1. Block(m).block1 = IF m = 0 THEN entries[cache].block1 ELSE None
      BY DEF Block
    <3> QED  BY <1>1, <1>2, <3>1
  <2>4. r.code = "ok" /\ size # 1
    BY <1>1, <1>2
  <2> HIDE DEF r, size
  <2> QED  BY <2>1, <2>2, <2>3, <2>4, Zenon DEF Brings
<1> HIDE DEF r
<1>5. /\ CallsOf(s)' /\ ResponsesOf(s)' /\ idx' = idx /\ data' = data /\ phase' = phase
      /\ At(s, idx[s])' = "done" /\ \A j \in 1 .. idx[s] - 1 : At(s, j)' = "done"
  <2>1. \A x \in responses' \ responses : x.to[2] = idx[s] /\ ~(idx[s] < Size[s])
    BY <1>0, <1>2 DEF r
  <2> QED  BY <2>1, WorksLine
<1>6. HasRun(s)'
  <2>1. CASE idx[s] = Size[s]
    BY <1>0, <1>5, <2>1 DEF HasRun, At
  <2>2. CASE idx[s] > Size[s]
    <3>1. Size[s] \in 1 .. idx[s] - 1
      BY <1>0, <2>2
    <3>2. At(s, Size[s])' = "done"
      BY <1>5, <3>1 DEF At
    <3> QED  BY <1>0, <1>5, <3>2 DEF HasRun
  <2> QED  BY <1>0, <2>1, <2>2
<1>7. RanOnce(s, i) /\ CacheHolds(s, i) /\ AnswersFit(s, i) /\ DataFits(s, i)
  BY FulfilsParts
<1>8. RanOnce(s, i)'
  BY <1>7 DEF RanOnce, RunsOf, Body
<1>9. CacheHolds(s, i)'
  BY <1>5, <1>7 DEF CacheHolds, Reply
<1>10. AnswersFit(s, i)'
  <2>1. \A x \in responses' : x \in responses \/ x = r
    BY DEF r
  <2>2. r.to[2] - Size[s] = m
    BY <1>0, <1>2
  <2>3. ASSUME NEW x \in responses', x.to[1] = s, x.to[2] >= Size[s]
        PROVE  Brings(x, s, i, x.to[2] - Size[s], size)
    BY <1>4, <1>7, <2>1, <2>2, <2>3 DEF AnswersFit
  <2> QED  BY <2>3 DEF AnswersFit, Brings
<1>11. DataFits(s, i)'
  BY <1>5, <1>7 DEF DataFits
<1>12. Fulfils(s, i)'
  BY <1>8, <1>9, <1>10, <1>11, FulfilsParts, PTL
<1> QED  BY <1>5, <1>6, <1>12 DEF Line, Served

\* The handler of an undisturbed Send: whichever step it takes.
LEMMA HandlerLine ==
  ASSUME TypeOK, Sound, OneHandler, BodiesWhole, NEW h \in Handlers, Handler(h),
         NEW s \in Sends, h[1][1] = s, InLine(s), Quiet(s)', [Next]_vars
  PROVE  Line(s)'
<1>0. Works(h, s) /\ Sent(h[1]) /\ h[1] \in Calls
  BY OwnWorks, HandlerKinds
<1>1. /\ idx[s] \in Nat /\ idx[s] > 0 /\ Size[s] \in Nat /\ Size[s] > 0 /\ Quiet(s)
      /\ pc[h].at \notin {"done", "admitted"}
  BY <1>0, QuietBefore DEF Works
<1>2. CASE ~HasRun(s)
  <2>1. wire[h[1]].kind # "block2" /\ pc[h].at # "stored"
    BY <1>0, <1>2, NotRunForm
  <2>2. ~ServeCached(h) /\ ~RunAgain(h) /\ ~ServeStored(h)
    BY <2>1 DEF ServeCached, RunAgain, ServeStored, Starts
  <2>3. CASE RunPlain(h)
    <3>1. wire[h[1]].kind = "plain" /\ Run(h, <<Piece(h[1])>>)
      BY <2>3 DEF RunPlain, Starts
    <3>2. idx[s] = 1 /\ Size[s] = 1
      BY <1>0, <3>1, WorksForm
    <3>3. wire[h[1]].num = 0
      BY <1>0, <3>1 DEF Sound, WireSound
    <3>4. <<Piece(h[1])>> = Body(s)
      <4>1. Piece(h[1]) = <<s, 0>>
        BY <3>3 DEF Piece
      <4>2. Body(s) = [n \in {1} |-> <<s, n - 1>>]
        <5>1. 1 .. 1 = {1}
          OBVIOUS
        <5> QED  BY <3>2, <5>1 DEF Body
      <4>3. <<<<s, 0>>>> = [n \in {1} |-> <<s, 0>>]
        <5>1. 1 .. 1 = {1}
          OBVIOUS
        <5> QED  BY <5>1
      <4>4. \A n \in {1} : <<s, n - 1>> = <<s, 0>>
        OBVIOUS
      <4> QED  BY <4>1, <4>2, <4>3, <4>4
    <3> QED  BY <1>0, <1>2, <3>1, <3>2, <3>4, RunLine
  <2>4. CASE RunReady(h)
    <3>1. pc[h].at = "ready" /\ Run(h, pc[h].body)
      BY <2>4 DEF RunReady
    <3>2. IsLast(h[1])
      BY <3>1 DEF Sound, ServerSound
    <3>3. idx[s] = Size[s]
      BY <1>0, <1>1, <3>2, WorksForm DEF IsLast
    <3>4. pc[h].body = Body(s)
      BY <1>1, <3>1 DEF BodiesWhole, Calm, Quiet
    <3> QED  BY <1>0, <1>2, <3>1, <3>3, <3>4, RunLine
  <2> QED  BY <1>0, <1>2, <2>2, <2>3, <2>4, BlockLine DEF Handler
<1>3. CASE HasRun(s)
  <2>0. PICK i \in DOMAIN runs : Fulfils(s, i)
    BY <1>0, <1>3 DEF Works, Line, Served
  <2> DEFINE m == idx[s] - Size[s]
             size == runs[i].size
  <2>1. /\ m \in Nat /\ size \in Nat /\ i \in Nat /\ m < size /\ size > 1
        /\ cache # None /\ entries[cache].kind = "reply" /\ entries[cache].pieces = Reply(i, size)
        /\ \/ pc[h].at = "stored" /\ m = 0 /\ wire[h[1]].kind # "block2"
           \/ pc[h].at = "none" /\ wire[h[1]].kind = "block2" /\ wire[h[1]].num = m
    BY <1>0, <1>3, <2>0, HasRunForm
  <2>2. ~Lacks(m)
    <3>1. Len(entries[cache].pieces) = size
      BY <2>1, ReplyForm
    <3> QED  BY <2>1, <3>1 DEF Lacks
  <2>3. ASSUME pc[h].at = "stored" PROVE Line(s)'
    <3>1. m = 0 /\ wire[h[1]].kind # "block2"
      BY <2>1, <2>3
    <3>2. ServeStored(h)
      BY <2>3 DEF Handler, StoreFirst, LoadForAppend, AppendMiddle, Reassemble, RefuseBlock,
                  ServeCached, RunPlain, RunReady, RunAgain, Starts
    <3>3. /\ Answers(h, Response(h[1], "ok", Block(m).block1, Block(m).block2, Block(m).pieces))
          /\ UNCHANGED <<cache, entries, runs>>
      BY <2>1, <2>2, <3>1, <3>2 DEF ServeStored, cacheVars
    <3>4. pc'[h] = [at |-> "done"]
      BY <3>3, GoesForm DEF Answers
    <3>5. pc'[h].at = "done"
      BY <3>4
    <3> HIDE DEF m
    <3> QED  BY <1>0, <1>3, <2>0, <3>3, <3>5, AnsweredLine DEF Answers, m
  <2>4. ASSUME pc[h].at = "none", wire[h[1]].kind = "block2", wire[h[1]].num = m PROVE Line(s)'
    <3>1. ServeCached(h)
      BY <2>2, <2>4 DEF Handler, StoreFirst, LoadForAppend, AppendMiddle, Reassemble, RefuseBlock,
                        RunPlain, RunReady, RunAgain, ServeStored, Starts
    <3>2. /\ responses' = responses \cup
               {Response(h[1], "ok", Block(m).block1, Block(m).block2, Block(m).pieces)}
          /\ Goes(h, [at |-> "done"])
          /\ UNCHANGED <<cache, entries, runs>>
      BY <2>1, <2>4, <3>1 DEF ServeCached, cacheVars
    <3>3. pc'[h] = [at |-> "done"]
      BY <3>2, GoesForm
    <3>4. pc'[h].at = "done"
      BY <3>3
    <3> HIDE DEF m
    <3> QED  BY <1>0, <1>3, <2>0, <3>2, <3>4, AnsweredLine DEF m
  <2> QED  BY <2>1, <2>3, <2>4
<1> QED  BY <1>2, <1>3

\* The steps of others and of its own keep a Send in line.
LEMMA InLineNext ==
  ASSUME TypeOK, Sound, OneHandler, BodiesWhole, \A s \in Sends : InLine(s), [Next]_vars
  PROVE  \A s \in Sends : InLine(s)'
<1> SUFFICES ASSUME NEW s \in Sends PROVE InLine(s)'
  OBVIOUS
<1>1. Quiet(s)' => Line(s)'
  <2> SUFFICES ASSUME Quiet(s)' PROVE Line(s)'
    OBVIOUS
  <2>1. CASE Client(s)
    BY <2>1, ClientLine
  <2>2. ASSUME NEW h \in Handlers, Handler(h), h[1][1] = s PROVE Line(s)'
    BY <2>2, HandlerLine
  <2>3. CASE ~Client(s) /\ \A h \in Handlers : Handler(h) => h[1][1] # s
    BY <2>3, OthersLine
  <2> QED  BY <2>1, <2>2, <2>3
<1>2. ~Begun(s)' => data'[s] = <<>>
  <2> SUFFICES ASSUME ~Begun(s)' PROVE data'[s] = <<>>
    OBVIOUS
  <2>1. idx'[s] = idx[s] => data[s] = <<>> /\ ~Begun(s)
    BY DEF InLine, Begun
  <2>2. ASSUME NEW x \in Sends, Client(x) PROVE data'[s] = <<>>
    <3>1. CASE x = s
      <4>1. Ending(s) \/ \E m, p : Calling(s, m, p)
        BY <2>2, <3>1, ClientKinds
      <4>2. Ending(s) => Begun(s)'
        BY DEF Ending, Ends, Begun
      <4>3. ASSUME NEW y, NEW p, Calling(s, y, p) PROVE Begun(s)'
        <5>1. idx[s] \in Nat /\ idx'[s] = idx[s] + 1
          BY <4>3, CallingForm
        <5> QED  BY <5>1 DEF Begun
      <4> QED  BY <4>1, <4>2, <4>3
    <3>2. CASE x # s
      BY <2>1, <2>2, <3>2, ClientOwn
    <3> QED  BY <3>1, <3>2
  <2>3. ASSUME NEW h \in Handlers, Handler(h) PROVE data'[s] = <<>>
    BY <2>1, <2>3, HandlerAside
  <2>4. ASSUME NEW c \in Calls, AdmitCopy(c) PROVE data'[s] = <<>>
    BY <2>1, <2>4, AdmitForm
  <2> QED  BY <2>1, <2>2, <2>3, <2>4, NextKinds, WatchForm
<1> QED  BY <1>1, <1>2 DEF InLine


-----------------------------------------------------------------------------
(* The invariant *)

LEMMA InitInductive == Init => Inductive
<1> SUFFICES ASSUME Init PROVE Inductive
  OBVIOUS
<1>1. /\ cache = None /\ entries = <<>> /\ responses = {} /\ runs = <<>> /\ faults = 0
      /\ phase = [s \in Sends |-> "idle"] /\ idx = [s \in Sends |-> 0]
      /\ num = [s \in Sends |-> 0] /\ data = [s \in Sends |-> <<>>]
      /\ wire = [c \in Calls |-> None] /\ pc = [h \in Handlers |-> [at |-> "none"]]
      /\ trouble = [s \in Sends |-> {}]
  BY DEF Init
<1>2. TypeOK
  <2>1. ClientTyped
    <3>1. <<>> \in Seq(Pieces) /\ "idle" \in Phases
      BY DEF Phases
    <3> QED  BY <1>1, <3>1, SizeForm DEF ClientTyped
  <2>2. CacheTyped
    BY <1>1 DEF CacheTyped
  <2>3. ServerTyped
    <3>1. [at |-> "none"] \in States /\ [at |-> "none"].at = "none"
      BY StateForm
    <3>2. runs \in Seq(Executed)
      BY <1>1
    <3>3. pc \in [Handlers -> States] /\ \A h \in Handlers : pc[h].at = "none"
      BY <1>1, <3>1
    <3> QED  BY <1>1, <3>2, <3>3 DEF ServerTyped
  <2>4. HistoryTyped
    BY <1>1, TransferAssumption DEF HistoryTyped, TransferAssumption
  <2> QED  BY <2>1, <2>2, <2>3, <2>4, TypeParts
<1>3. \A h \in Handlers : pc[h].at = "none"
  BY <1>1
<1>4. \A c \in Calls : ~Sent(c)
  BY <1>1 DEF Sent
<1>5. \A s \in Sends : idx[s] = 0 /\ num[s] = 0 /\ phase[s] = "idle" /\ data[s] = <<>>
  BY <1>1
<1>6. DOMAIN runs = {} /\ \A s \in Sends : DOMAIN data[s] = {}
  <2>1. DOMAIN <<>> = {}
    OBVIOUS
  <2> QED  BY <1>1, <1>5, <2>1
<1>7. Sound
  <2>1. WireSound
    <3>1. \A c \in Calls : ~(c[2] <= idx[c[1]])
      BY <1>5, CallForm, SizeForm
    <3> QED  BY <1>4, <3>1 DEF WireSound
  <2>2. PhaseSound
    BY <1>5 DEF PhaseSound, Begun
  <2>3. ServerSound
    BY <1>1, <1>3, <1>6 DEF ServerSound
  <2> QED  BY <2>1, <2>2, <2>3 DEF Sound
<1>8. \A s \in Sends : ~Cached(s)
  BY <1>1, <1>3 DEF Cached
<1>9. RepliesInPlace /\ ResponsesInPlace /\ DataInPlace
  BY <1>1, <1>5, <1>6, <1>8 DEF RepliesInPlace, ResponsesInPlace, DataInPlace, InPlace
<1>10. BlocksInOrder /\ OneHandler /\ CachedAfterLast /\ UploadKept /\ BodiesWhole /\ UploadWhole
  BY <1>1, <1>3, <1>4, <1>6, <1>8
     DEF BlocksInOrder, OneHandler, CachedAfterLast, UploadKept, BodiesWhole, UploadWhole
<1>11. CallsInLine /\ BodyInLine /\ ReplyInLine
  <2>1. \A s \in Sends : InLine(s)
    BY <1>5 DEF InLine, Quiet, Begun
  <2> QED  BY <2>1, InLineParts
<1> QED  BY <1>2, <1>7, <1>9, <1>10, <1>11 DEF Inductive

LEMMA InductiveNext == Inductive /\ [Next]_vars => Inductive'
<1> SUFFICES ASSUME Inductive, [Next]_vars PROVE Inductive'
  OBVIOUS
<1>0. /\ TypeOK /\ Sound /\ CallsInLine /\ BodyInLine /\ ReplyInLine
      /\ RepliesInPlace /\ ResponsesInPlace /\ DataInPlace
      /\ BlocksInOrder /\ OneHandler /\ CachedAfterLast /\ UploadKept /\ BodiesWhole /\ UploadWhole
  BY DEF Inductive
<1>1. TypeOK' /\ Sound'
  BY <1>0, TypeNext, SoundNext
<1>2. RepliesInPlace' /\ ResponsesInPlace' /\ DataInPlace'
  BY <1>0, RepliesInPlaceNext, ResponsesInPlaceNext, DataInPlaceNext
<1>3. BlocksInOrder' /\ OneHandler' /\ CachedAfterLast' /\ UploadKept' /\ BodiesWhole' /\ UploadWhole'
  BY <1>0, BlocksInOrderNext, OneHandlerNext, CachedAfterLastNext, UploadKeptNext, BodiesWholeNext,
     UploadWholeNext
<1>4. CallsInLine' /\ BodyInLine' /\ ReplyInLine'
  <2>1. \A s \in Sends : InLine(s)
    BY <1>0, InLineParts
  <2>2. (\A s \in Sends : InLine(s))'
    BY <1>0, <2>1, InLineNext
  <2> QED  BY <2>2, InLineParts, PTL
<1> QED  BY <1>1, <1>2, <1>3, <1>4 DEF Inductive

LEMMA InductiveInvariant == Spec => []Inductive
BY InitInductive, InductiveNext, PTL DEF Spec

\* Messages, entries, responses and handlers keep their form, and a handler's pointer
\* leads to an entry.
THEOREM TypeCorrect == Spec => []TypeOK
BY InductiveInvariant, PTL DEF Inductive

\* Without a late response and an append to a reply, the blocks a client puts together
\* are in order and without gaps, whoever replaces or sweeps what is in the cache.
THEOREM DownloadInOrderCorrect == Spec => []DownloadInOrder
<1>1. Inductive => DownloadInOrder
  BY DEF Inductive, DataInPlace, DownloadInOrder, InPlace
<1> QED  BY <1>1, InductiveInvariant, PTL

\* Without copies, appends at the same time and others at work in the cache, a callback
\* that gets a body sent in blocks gets all of it in order, whatever was lost, repeated
\* or swept.
THEOREM UploadWholeCorrect == Spec => []UploadWhole
BY InductiveInvariant, PTL DEF Inductive

\* The invariant of every state, Send by Send.
LEMMA EachInLine ==
  ASSUME Inductive, NEW s \in Sends, trouble[s] = {}
  PROVE  /\ TypeOK /\ Sound
         /\ ~Begun(s) => phase[s] = "idle" /\ RunsOf(s) = {}
         /\ Begun(s) => Line(s)
<1>1. TypeOK /\ Sound /\ InLine(s)
  BY InLineParts DEF Inductive
<1> QED  BY <1>1, OfMade DEF InLine, Quiet, Sound, PhaseSound

\* A callback runs twice for one Send only if something has disturbed it: a stale
\* response, a copy, a sweep or another Send.
THEOREM RunsOnceCorrect == Spec => []RunsOnce
<1>1. ASSUME Inductive, NEW s \in Sends, trouble[s] = {} PROVE Cardinality(RunsOf(s)) <= 1
  <2>1. RunsOf(s) = {} \/ \E i : RunsOf(s) = {i}
    <3>1. CASE Begun(s) /\ HasRun(s)
      <4>1. \E i : RanOnce(s, i)
        BY <1>1, <3>1, EachInLine, FulfilsParts DEF Line, Served
      <4> QED  BY <4>1 DEF RanOnce
    <3>2. CASE ~(Begun(s) /\ HasRun(s))
      BY <1>1, <3>2, EachInLine DEF Line, BodyOf
    <3> QED  BY <3>1, <3>2
  <2>2. \A i : Cardinality({i}) = 1
    BY FS_Singleton
  <2>3. Cardinality({}) = 0
    BY FS_EmptySet
  <2> QED  BY <2>1, <2>2, <2>3
<1>2. Inductive => RunsOnce
  BY <1>1 DEF RunsOnce
<1> QED  BY <1>2, InductiveInvariant, PTL

\* A confirmable Send that nothing disturbs is not refused and does not panic, and when
\* it returns the callback has run on the whole body and the whole reply is here.
THEOREM UndisturbedSucceedsCorrect == Spec => []UndisturbedSucceeds
<1>1. ASSUME Inductive, NEW s \in Confirmable, trouble[s] = {}
      PROVE  /\ phase[s] \notin {"refused", "crashed", "unanswered"}
             /\ phase[s] = "done" =>
                  \E i \in RunsOf(s) : runs[i].body = Body(s) /\ data[s] = Reply(i, runs[i].size)
  <2>0. s \in Sends /\ Halts(s) = {"failed"}
    BY TransferAssumption DEF TransferAssumption, Halts
  <2>1. CASE ~Begun(s)
    BY <1>1, <2>0, <2>1, EachInLine
  <2>2. CASE Begun(s) /\ ~HasRun(s)
    BY <1>1, <2>0, <2>2, EachInLine DEF Line, BodyOf
  <2>3. CASE Begun(s) /\ HasRun(s)
    <3>1. PICK i \in DOMAIN runs : Fulfils(s, i)
      BY <1>1, <2>0, <2>3, EachInLine DEF Line, Served
    <3>2. RanOnce(s, i) /\ DataFits(s, i) /\ TypeOK
      BY <1>1, <2>0, <3>1, EachInLine, FulfilsParts
    <3>3. ASSUME phase[s] = "done" PROVE data[s] = Reply(i, runs[i].size)
      <4> DEFINE d == data[s]
                 n == runs[i].size
      <4>1. n \in Nat /\ i \in Nat /\ d \in Seq(Pieces)
        BY <2>0, <3>1, <3>2, RunSize DEF TypeOK
      <4>2. Len(d) = n /\ \A k \in DOMAIN d : d[k] = <<i, k - 1>>
        BY <3>2, <3>3 DEF DataFits
      <4> HIDE DEF d, n
      <4>3. /\ Reply(i, n) \in Seq(Pieces) /\ Len(Reply(i, n)) = n
            /\ \A k \in 1 .. n : Reply(i, n)[k] = <<i, k - 1>>
        BY <4>1, ReplyForm
      <4>4. DOMAIN d = 1 .. n
        BY <4>1, <4>2
      <4>5. \A k \in 1 .. n : d[k] = Reply(i, n)[k]
        BY <4>2, <4>3, <4>4
      <4>6. d = Reply(i, n)
        BY <4>1, <4>2, <4>3, <4>5
      <4> QED  BY <4>6 DEF d, n
    <3> QED  BY <2>0, <3>2, <3>3 DEF RanOnce, DataFits
  <2> QED  BY <2>1, <2>2, <2>3
<1>2. Inductive => UndisturbedSucceeds
  BY <1>1 DEF UndisturbedSucceeds
<1> QED  BY <1>2, InductiveInvariant, PTL
=============================================================================
