--------------------------- MODULE DispatchProofs ---------------------------
(***************************************************************************)
(* Proofs about the dispatch of messages: for all endpoints, all first     *)
(* messages, whatever earlier transfers have left in the caches and in     *)
(* deduplication, and any bound on the number of hops.                     *)
(***************************************************************************)
EXTENDS Dispatch, TLAPS

-----------------------------------------------------------------------------
(* What the safety properties rest on: with them, an invariant that every step *)
(* preserves.                                                                   *)

\* How many messages in a row a message can set off at the most. A Reset ends it; a
\* reply can draw an acknowledgement, a Reset or, being the first block of a large
\* one, a request for the next block; only requests with a body to store or an
\* answer that can be cut into blocks go the whole way.
Rank(m) ==
  IF m.type = "RST" THEN 0
  ELSE IF m.code = "response"
       THEN IF m.block2 = "first" \/ m.type = "CON" THEN 3 ELSE 1
       ELSE IF m.block2 = "later" \/ (m.code = "empty" /\ m.block2 = None) THEN 2 ELSE 4

\* What is under way and what it can still set off stay within the bound.
RankBounds == \A p \in wire : p.via = {} => p.hop + Rank(p.msg) <= 4 + 2 * p.blocks

\* A retrieval can set off a request or an acknowledgement after the block that came
\* last, and, where its early acknowledgement was written, the message it handles has
\* its verdict.
FetchesOK ==
  /\ fetching \subseteq Fetches
  /\ \A f \in fetching :
       /\ f.block.via = {} => f.block.hop + 3 <= 4 + 2 * f.block.blocks
       /\ f.packet.via = {} => f.packet.hop + 1 <= 4 + 2 * f.packet.blocks
       /\ \/ f.sent = {} \/ f.packet.msg.mid = 0
          \/ \E q \in f.sent : q.msg.type = "ACK" /\ q.msg.mid = f.packet.msg.mid

\* Deduplication never answers under another ID than the one it was asked for.
EntriesEcho == \A e \in Endpoints : \A x \in dedup[e] : x.rsp # None => x.rsp.mid = x.mid

\* No reply in a cache is confirmable.
CachedReplies ==
  \A e \in Endpoints : cache[e] # None /\ cache[e].code = "response" => cache[e].type \in {"ACK", "NON"}

Inductive == TypeOK /\ EntriesEcho /\ CachedReplies /\ RankBounds /\ FetchesOK

-----------------------------------------------------------------------------
(* What the operators on messages return *)

LEMMA MessageForm ==
  ASSUME NEW t \in Types, NEW c \in Codes, NEW i \in Nat
  PROVE  /\ Message(t, c, i) \in Messages
         /\ Message(t, c, i).type = t
         /\ Message(t, c, i).code = c
         /\ Message(t, c, i).mid = i
         /\ Message(t, c, i).block2 = None
BY DEF Message, Messages, Block1, Block2

LEMMA WithBlock1Form ==
  ASSUME NEW x \in Messages, NEW b \in Block1
  PROVE  LET y == [x EXCEPT !.block1 = b] IN
         /\ y \in Messages
         /\ y.type = x.type /\ y.code = x.code /\ y.mid = x.mid /\ y.block2 = x.block2
BY DEF Messages

LEMMA WithBlock2Form ==
  ASSUME NEW x \in Messages, NEW b \in Block2
  PROVE  LET y == [x EXCEPT !.block2 = b] IN
         /\ y \in Messages
         /\ y.type = x.type /\ y.code = x.code /\ y.mid = x.mid /\ y.block2 = b
BY DEF Messages

LEMMA ServedForm ==
  ASSUME NEW x \in Messages, NEW i \in Nat, NEW b \in Block2
  PROVE  LET y == CachedBlock(x, i, b) IN
         /\ y \in Messages
         /\ y.type = x.type /\ y.code = x.code /\ y.mid = i /\ y.block2 = b
<1>1. (IF b = "later" THEN None ELSE x.block1) \in Block1
  BY DEF Messages, Block1
<1> QED  BY <1>1 DEF Messages, CachedBlock

\* The three acknowledgements and the reset of a message: all under its own ID.
LEMMA VerdictForm ==
  ASSUME NEW m \in Messages
  PROVE  /\ EmptyAck(m) \in Messages /\ EmptyAck(m).type = "ACK" /\ EmptyAck(m).mid = m.mid
         /\ EmptyAck(m).code = "empty" /\ EmptyAck(m).block2 = None
         /\ Error(m) \in Messages /\ Error(m).type = "ACK" /\ Error(m).mid = m.mid
         /\ Error(m).code = "response" /\ Error(m).block2 = None
         /\ Continue(m) \in Messages /\ Continue(m).type = "ACK" /\ Continue(m).mid = m.mid
         /\ Continue(m).code = "response" /\ Continue(m).block2 = None
         /\ Reset(m) \in Messages /\ Reset(m).type = "RST" /\ Reset(m).mid = m.mid
<1>1. m.mid \in Nat /\ m.code \in Codes /\ m.block1 \in Block1
  BY DEF Messages
<1>2. {"ACK", "RST"} \subseteq Types /\ {"empty", "response"} \subseteq Codes
  BY DEF Types, Codes
<1>3. Message("ACK", "empty", m.mid) \in Messages /\ Message("ACK", "response", m.mid) \in Messages
  BY <1>1, <1>2, MessageForm
<1>4. [Message("ACK", "response", m.mid) EXCEPT !.block1 = m.block1] \in Messages
      /\ [Message("ACK", "response", m.mid) EXCEPT !.block1 = m.block1].type = "ACK"
      /\ [Message("ACK", "response", m.mid) EXCEPT !.block1 = m.block1].mid = m.mid
      /\ [Message("ACK", "response", m.mid) EXCEPT !.block1 = m.block1].code = "response"
      /\ [Message("ACK", "response", m.mid) EXCEPT !.block1 = m.block1].block2 = None
  BY <1>1, <1>2, <1>3, MessageForm, WithBlock1Form
<1> QED
  BY <1>1, <1>2, <1>4, MessageForm DEF EmptyAck, Error, Continue, MakeReply, Reset

LEMMA PeerIsEndpoint ==
  ASSUME NEW e \in Endpoints
  PROVE  Peer(e) \in Endpoints
<1>1. \E x \in Endpoints : x # e
  BY DispatchAssumption DEF DispatchAssumption
<1> QED  BY <1>1 DEF Peer

\* The reply to a response, whatever was prepared for it.
LEMMA ReplyToResponseForm ==
  ASSUME NEW m \in Messages, NEW r \in {None, Reset(m)}, NEW rsp \in ReplyToResponse(m, r)
  PROVE  \/ rsp = None
         \/ /\ rsp \in Messages /\ rsp.mid = m.mid
            /\ \/ rsp.type = "RST"
               \/ m.type = "CON" /\ rsp.type = "ACK" /\ rsp.code = "empty" /\ rsp.block2 = None
<1>1. m.block1 \in Block1
  BY DEF Messages
<1>2. PICK x \in {EmptyAck(m), Reset(m), r, None} :
        /\ rsp = IF x = None THEN None ELSE [x EXCEPT !.block1 = m.block1]
        /\ x = EmptyAck(m) => m.type = "CON" \/ EmptyAck(m) \in {None, Reset(m)}
  BY DEF ReplyToResponse, HandleNotify, Returns
<1>3. EmptyAck(m) # Reset(m)
  BY VerdictForm
<1>4. CASE x = None
  BY <1>2, <1>4
<1>5. CASE x # None /\ x = EmptyAck(m)
  <2>1. m.type = "CON"
    BY <1>2, <1>3, <1>5
  <2>2. x \in Messages /\ x.type = "ACK" /\ x.mid = m.mid /\ x.code = "empty" /\ x.block2 = None
    BY <1>5, VerdictForm
  <2> QED  BY <1>1, <1>2, <1>5, <2>1, <2>2, WithBlock1Form
<1>6. CASE x # None /\ x = Reset(m)
  <2>1. x \in Messages /\ x.type = "RST" /\ x.mid = m.mid
    BY <1>6, VerdictForm
  <2> QED  BY <1>1, <1>2, <1>6, <2>1, WithBlock1Form
<1> QED  BY <1>2, <1>4, <1>5, <1>6

\* Where the notification counts as an acknowledgement there is only the Reset.
LEMMA NotifyAckForm ==
  ASSUME NEW m \in Messages, NEW rsp \in HandleNotify(m, "ACK")
  PROVE  rsp = None \/ (rsp \in Messages /\ rsp.mid = m.mid /\ rsp.type = "RST")
<1>1. m.block1 \in Block1
  BY DEF Messages
<1>2. rsp = None \/ rsp = [Reset(m) EXCEPT !.block1 = m.block1]
  BY DEF HandleNotify, Returns
<1>3. Reset(m) \in Messages /\ Reset(m).type = "RST" /\ Reset(m).mid = m.mid
  BY VerdictForm
<1>4. /\ [Reset(m) EXCEPT !.block1 = m.block1] \in Messages
      /\ [Reset(m) EXCEPT !.block1 = m.block1].type = "RST"
      /\ [Reset(m) EXCEPT !.block1 = m.block1].mid = m.mid
  BY <1>1, <1>3, WithBlock1Form
<1> QED  BY <1>2, <1>4

\* A failed retrieval leaves no confirmable message without a verdict.
LEMMA OverruledForm ==
  ASSUME NEW m \in Messages, m.type = "CON", NEW rsp \in ReplyToResponse(m, Reset(m))
  PROVE  rsp # None
<1>1. m.block1 \in Block1
  BY DEF Messages
<1>2. None \notin Messages
  BY DispatchAssumption DEF DispatchAssumption
<1>3. Reset(m) \in Messages /\ EmptyAck(m) \in Messages
  BY VerdictForm
<1>4. PICK x \in {Reset(m), EmptyAck(m)} : rsp = IF x = None THEN None ELSE [x EXCEPT !.block1 = m.block1]
  BY DEF ReplyToResponse, HandleNotify, Returns
<1>5. rsp = [x EXCEPT !.block1 = m.block1]
  BY <1>2, <1>3, <1>4
<1> QED  BY <1>1, <1>2, <1>3, <1>5, WithBlock1Form

LEMMA CallbackReplyForm ==
  ASSUME NEW m \in Messages, NEW o \in BOOLEAN, NEW b \in Block2
  PROVE  LET y == CallbackReply(m, o, b) IN
         /\ y \in Messages /\ y.code = "response" /\ y.mid = m.mid /\ y.block2 = b
         /\ y.type = IF m.type = "NON" THEN "NON" ELSE "ACK"
BY DEF CallbackReply, Messages, Types, Codes

\* A cached reply never has the type of a request.
LEMMA Block2sForm ==
  ASSUME NEW asked \in Block2
  PROVE  Block2s(asked) \subseteq Block2 \ {None}
BY DispatchAssumption DEF Block2s, Block2, DispatchAssumption

LEMMA RankForm ==
  ASSUME NEW m
  PROVE  Rank(m) \in 0 .. 4
BY DEF Rank

LEMMA Ranks ==
  ASSUME NEW m
  PROVE  /\ m.type = "RST" => Rank(m) = 0
         /\ m.type # "RST" => Rank(m) >= 1
         /\ m.type # "RST" /\ m.code # "response" => Rank(m) >= 2
         /\ m.type # "RST" /\ m.code # "response" /\ m.block2 \in {"first", "only"} => Rank(m) = 4
         /\ m.type # "RST" /\ m.code = "request" /\ m.block2 # "later" => Rank(m) = 4
         /\ m.type = "CON" /\ m.code = "response" => Rank(m) = 3
         /\ m.type # "RST" /\ m.code = "response" /\ m.block2 = "first" => Rank(m) = 3
         /\ m.type \in {"ACK", "NON"} /\ m.code = "response" /\ m.block2 # "first" => Rank(m) = 1
         /\ m.type # "RST" /\ m.code = "empty" /\ m.block2 = None => Rank(m) = 2
         /\ m.type # "RST" /\ m.code # "response" /\ m.block2 = "later" => Rank(m) = 2
         /\ m.type \in {"ACK", "NON"} /\ m.code = "response" => Rank(m) <= 3
BY DispatchAssumption DEF Rank, DispatchAssumption

-----------------------------------------------------------------------------
(* What sending and ending keep, whatever the handler *)

\* What is sent has the form of packets, and is within the bound if every message
\* sent ranks low enough.
LEMMA SentForm ==
  ASSUME NEW p \in Packets, p.hop < MaxHops,
         NEW messages \in SUBSET Messages, NEW cause,
         \/ cause \in Causes
         \/ p.via = {} => \A m \in messages : p.hop + 1 + Rank(m) <= 4 + 2 * p.blocks
  PROVE  /\ Sent(p, messages, cause) \subseteq Packets
         /\ \A q \in Sent(p, messages, cause) : q.via = {} => q.hop + Rank(q.msg) <= 4 + 2 * q.blocks
<1>1. MaxHops \in Nat
  BY DispatchAssumption DEF DispatchAssumption
<1>2. /\ p.to \in Endpoints /\ p.hop \in Nat /\ p.hop + 1 \in 0 .. MaxHops
      /\ p.blocks \in Nat /\ p.via \in SUBSET Causes
  BY <1>1 DEF Packets
<1>3. Peer(p.to) \in Endpoints
  BY <1>2, PeerIsEndpoint
<1> SUFFICES ASSUME NEW m \in messages,
                    NEW q, q = [msg |-> m, to |-> Peer(p.to), hop |-> p.hop + 1, blocks |-> p.blocks,
                                via |-> p.via \cup ({cause} \cap Causes)]
             PROVE  q \in Packets /\ (q.via = {} => q.hop + Rank(q.msg) <= 4 + 2 * q.blocks)
  BY DEF Sent, Causes
<1>4. q.msg = m /\ q.hop = p.hop + 1 /\ q.blocks = p.blocks /\ q.via = p.via \cup ({cause} \cap Causes)
  OBVIOUS
<1>5. q \in Packets
  <2>1. p.via \cup ({cause} \cap Causes) \in SUBSET Causes
    BY <1>2
  <2> QED  BY <1>2, <1>3, <2>1 DEF Packets
<1>6. ASSUME q.via = {} PROVE q.hop + Rank(q.msg) <= 4 + 2 * q.blocks
  <2>1. p.via = {} /\ cause \notin Causes
    BY <1>4, <1>6
  <2>2. p.hop + 1 + Rank(m) <= 4 + 2 * p.blocks
    BY <2>1
  <2> QED  BY <1>4, <2>2
<1> QED  BY <1>5, <1>6

LEMMA SentCarries ==
  ASSUME NEW p, NEW messages, NEW cause, NEW m \in messages
  PROVE  \E q \in Sent(p, messages, cause) : q.msg = m
<1> DEFINE q == [msg |-> m, to |-> Peer(p.to), hop |-> p.hop + 1, blocks |-> p.blocks,
                 via |-> p.via \cup ({cause} \cap {"replayed", "half cached"})]
<1>1. q \in Sent(p, messages, cause)
  BY DEF Sent
<1>2. q.msg = m
  OBVIOUS
<1> QED  BY <1>1, <1>2

\* A handler keeps the bound if every message it sends ranks below the one handled.
LEMMA SendsKeeps ==
  ASSUME TypeOK, RankBounds,
         NEW p \in wire, p.hop < MaxHops,
         NEW messages \in SUBSET Messages, NEW cause,
         Sends(p, messages, cause),
         cause \in Causes \/ \A m \in messages : Rank(m) < Rank(p.msg)
  PROVE  /\ wire' \subseteq Packets
         /\ RankBounds'
<1>1. p \in Packets /\ p.hop \in Nat /\ p.blocks \in Nat
  BY DispatchAssumption DEF TypeOK, Packets, DispatchAssumption
<1>2. cause \in Causes \/ (p.via = {} => \A m \in messages : p.hop + 1 + Rank(m) <= 4 + 2 * p.blocks)
  <2> SUFFICES ASSUME cause \notin Causes, p.via = {}, NEW m \in messages
               PROVE  p.hop + 1 + Rank(m) <= 4 + 2 * p.blocks
    OBVIOUS
  <2>1. p.hop + Rank(p.msg) <= 4 + 2 * p.blocks /\ Rank(m) < Rank(p.msg)
    BY DEF RankBounds
  <2>2. Rank(m) \in 0 .. 4 /\ Rank(p.msg) \in 0 .. 4
    BY RankForm
  <2> QED  BY <1>1, <2>1, <2>2
<1>3. /\ Sent(p, messages, cause) \subseteq Packets
      /\ \A q \in Sent(p, messages, cause) : q.via = {} => q.hop + Rank(q.msg) <= 4 + 2 * q.blocks
  BY <1>1, <1>2, SentForm
<1>4. wire' = (wire \ {p}) \cup Sent(p, messages, cause)
  BY DEF Sends
<1>5. wire' \subseteq Packets
  BY <1>3, <1>4 DEF TypeOK
<1>6. RankBounds'
  <2> SUFFICES ASSUME NEW q \in wire', q.via = {} PROVE q.hop + Rank(q.msg) <= 4 + 2 * q.blocks
    BY DEF RankBounds, Rank
  <2> QED  BY <1>3, <1>4 DEF RankBounds
<1> QED  BY <1>5, <1>6

\* Deduplication gets at most one entry for an ID, and the reply has that ID.
LEMMA EnteredForm ==
  ASSUME TypeOK, EntriesEcho,
         NEW p \in wire, Admitted(p), Deduplicated(p.msg),
         NEW rsp \in Messages \cup {None}, rsp # None => rsp.mid = p.msg.mid,
         dedup' = Entered(p, rsp)
  PROVE  /\ dedup' \in [Endpoints -> SUBSET Replies]
         /\ \A e \in Endpoints : \A x, y \in dedup'[e] : x.mid = y.mid => x = y
         /\ EntriesEcho'
<1> DEFINE entry == [mid |-> p.msg.mid, rsp |-> rsp, of |-> p.msg.code]
<1>1. p.to \in Endpoints /\ p.msg \in Messages
  BY DEF TypeOK, Packets
<1>2. entry \in Replies
  BY <1>1 DEF Replies, Messages
<1>3. entry.mid = p.msg.mid /\ entry.rsp = rsp
  OBVIOUS
<1>4. dedup' = [dedup EXCEPT ![p.to] = @ \cup {entry}]
  BY DEF Entered
<1>5. \A x \in dedup[p.to] : x.mid # entry.mid
  BY <1>3 DEF Admitted, Entries
<1>6. dedup \in [Endpoints -> SUBSET Replies]
  BY DEF TypeOK
<1>7. \A e \in Endpoints : \A x \in dedup'[e] : x \in dedup[e] \/ (e = p.to /\ x = entry)
  BY <1>4, <1>6
<1>8. dedup' \in [Endpoints -> SUBSET Replies]
  BY <1>1, <1>2, <1>4, <1>6
<1>9. \A e \in Endpoints : \A x, y \in dedup'[e] : x.mid = y.mid => x = y
  BY <1>5, <1>7 DEF TypeOK
<1>10. EntriesEcho'
  BY <1>3, <1>7 DEF EntriesEcho
<1> QED  BY <1>8, <1>9, <1>10

LEMMA SavedForm ==
  ASSUME TypeOK, EntriesEcho,
         NEW p \in Packets,
         NEW rsp \in Messages \cup {None}, rsp # None => rsp.mid = p.msg.mid,
         dedup' = Saved(p, rsp)
  PROVE  /\ dedup' \in [Endpoints -> SUBSET Replies]
         /\ \A e \in Endpoints : \A x, y \in dedup'[e] : x.mid = y.mid => x = y
         /\ EntriesEcho'
<1> DEFINE new(x) == IF x.mid = p.msg.mid THEN [x EXCEPT !.rsp = rsp] ELSE x
<1>1. p.to \in Endpoints
  BY DEF Packets
<1>2. dedup \in [Endpoints -> SUBSET Replies]
  BY DEF TypeOK
<1>3. ASSUME NEW x \in Replies
      PROVE  /\ new(x) \in Replies /\ new(x).mid = x.mid
             /\ new(x).rsp = IF x.mid = p.msg.mid THEN rsp ELSE x.rsp
  BY DEF Replies
<1>4. dedup' = [dedup EXCEPT ![p.to] = {new(x) : x \in @}]
  BY DEF Saved
<1> HIDE DEF new
<1>5. dedup' \in [Endpoints -> SUBSET Replies]
  BY <1>1, <1>2, <1>3, <1>4
<1>6. \A e \in Endpoints : \A y \in dedup'[e] :
        y \in dedup[e] \/ (e = p.to /\ \E x \in dedup[e] : y = new(x))
  BY <1>1, <1>2, <1>4
<1>7. \A y \in dedup'[p.to] : \E x \in dedup[p.to] : y = new(x)
  BY <1>1, <1>2, <1>4
<1>8. \A e \in Endpoints \ {p.to} : dedup'[e] = dedup[e]
  BY <1>1, <1>2, <1>4
<1>9. ASSUME NEW e \in Endpoints, NEW y \in dedup'[e], NEW z \in dedup'[e], y.mid = z.mid
      PROVE  y = z
  <2>1. CASE e = p.to
    <3>1. PICK v \in dedup[e], w \in dedup[e] : y = new(v) /\ z = new(w)
      BY <1>7, <1>9, <2>1
    <3>2. v \in Replies /\ w \in Replies
      BY <1>2, <3>1
    <3>3. v.mid = w.mid
      BY <1>3, <1>9, <3>1, <3>2
    <3>4. v = w
      BY <3>3 DEF TypeOK
    <3> QED  BY <3>1, <3>4
  <2>2. CASE e # p.to
    BY <1>8, <1>9, <2>2 DEF TypeOK
  <2> QED  BY <2>1, <2>2
<1>10. ASSUME NEW e \in Endpoints, NEW y \in dedup'[e], y.rsp # None
       PROVE  y.rsp.mid = y.mid
  <2>1. CASE y \in dedup[e]
    BY <1>10, <2>1 DEF EntriesEcho
  <2>2. CASE \E x \in dedup[e] : y = new(x)
    <3>1. PICK x \in dedup[e] : y = new(x)
      BY <2>2
    <3>2. x \in Replies
      BY <1>2
    <3>3. y.mid = x.mid /\ y.rsp = IF x.mid = p.msg.mid THEN rsp ELSE x.rsp
      BY <1>3, <3>1, <3>2
    <3> QED  BY <1>10, <3>3 DEF EntriesEcho
  <2> QED  BY <1>6, <2>1, <2>2
<1>11. EntriesEcho'
  BY <1>10 DEF EntriesEcho
<1> QED  BY <1>5, <1>9, <1>11

\* What the end of a handler leaves in the network and in deduplication.
LEMMA EndsKeeps ==
  ASSUME TypeOK, EntriesEcho, RankBounds,
         NEW p \in wire, Admitted(p),
         NEW rsp \in Messages \cup {None}, rsp # None => rsp.mid = p.msg.mid, NEW cause,
         Ends(p, rsp, cause),
         rsp = None \/ cause \in Causes \/ Rank(rsp) < Rank(p.msg)
  PROVE  /\ wire' \subseteq Packets
         /\ RankBounds'
         /\ dedup' \in [Endpoints -> SUBSET Replies]
         /\ \A e \in Endpoints : \A x, y \in dedup'[e] : x.mid = y.mid => x = y
         /\ EntriesEcho'
<1>1. wire' \subseteq Packets /\ RankBounds'
  <2>1. {rsp} \ {None} \in SUBSET Messages
    OBVIOUS
  <2>2. p.hop < MaxHops /\ Sends(p, {rsp} \ {None}, cause)
    BY DEF Admitted, Ends
  <2>3. cause \in Causes \/ \A m \in {rsp} \ {None} : Rank(m) < Rank(p.msg)
    OBVIOUS
  <2> QED  BY <2>1, <2>2, <2>3, SendsKeeps
<1>2. CASE Deduplicated(p.msg)
  <2>1. dedup' = Entered(p, rsp)
    BY <1>2 DEF Ends
  <2> QED  BY <1>1, <1>2, <2>1, EnteredForm
<1>3. CASE ~Deduplicated(p.msg)
  <2>1. dedup' = dedup
    BY <1>3 DEF Ends
  <2> QED  BY <1>1, <2>1 DEF TypeOK, EntriesEcho
<1> QED  BY <1>2, <1>3

\* A verdict under the ID of the message handled is among what was sent.
LEMMA VerdictSent ==
  ASSUME NEW p, NEW messages, NEW cause, Sends(p, messages, cause),
         NEW m \in messages, m.mid = p.msg.mid,
         m.type \in {"ACK", "RST"} \/ cause \in {"cached", "half cached", "replayed"}
  PROVE  ConfirmableAnswered'
<1> DEFINE q == [msg |-> m, to |-> Peer(p.to), hop |-> p.hop + 1, blocks |-> p.blocks,
                 via |-> p.via \cup ({cause} \cap {"replayed", "half cached"})]
<1>1. q \in last'.sent /\ last'.packet = p /\ last'.cause = cause /\ q.msg = m
  BY DEF Sends, Sent
<1>2. CASE m.type \in {"ACK", "RST"}
  <2>1. m \in Verdicts(last')
    BY <1>1, <1>2 DEF Verdicts
  <2> QED  BY <1>1, <2>1 DEF ConfirmableAnswered
<1>3. CASE cause \in {"cached", "half cached", "replayed"}
  BY <1>1, <1>3 DEF ConfirmableAnswered
<1> QED  BY <1>2, <1>3

LEMMA CacheKept ==
  ASSUME TypeOK, CachedReplies, cache' = cache
  PROVE  cache' \in [Endpoints -> Messages \cup {None}] /\ CachedReplies'
BY DEF TypeOK, CachedReplies

LEMMA CachePutKeeps ==
  ASSUME TypeOK, CachedReplies, NEW e \in Endpoints, NEW m \in Messages,
         m.code = "response" => m.type \in {"ACK", "NON"},
         CachePut(e, m)
  PROVE  cache' \in [Endpoints -> Messages \cup {None}] /\ CachedReplies'
<1>1. cache \in [Endpoints -> Messages \cup {None}] /\ cache' = [cache EXCEPT ![e] = m]
  BY DEF TypeOK, CachePut
<1>2. cache' \in [Endpoints -> Messages \cup {None}]
  BY <1>1
<1>3. CachedReplies'
  BY <1>1 DEF CachedReplies
<1> QED  BY <1>2, <1>3

\* A message that goes to a retrieval leaves it room for one request more.
LEMMA ClaimedKeeps ==
  ASSUME FetchesOK, NEW p \in Packets,
         p.via = {} => p.hop + 1 <= 4 + 2 * p.blocks,
         NEW running \in SUBSET fetching, Claimed(p, running)
  PROVE  FetchesOK'
<1> DEFINE block == [p EXCEPT !.blocks = @ + 1]
<1>1. p.hop \in Nat /\ p.blocks \in Nat
  BY DispatchAssumption DEF Packets, DispatchAssumption
<1>2. block \in Packets /\ block.hop = p.hop /\ block.blocks = p.blocks + 1 /\ block.via = p.via
  BY <1>1 DEF Packets
<1> HIDE DEF block
<1> SUFFICES ASSUME NEW g \in fetching' PROVE
         /\ g \in Fetches
         /\ g.block.via = {} => g.block.hop + 3 <= 4 + 2 * g.block.blocks
         /\ g.packet.via = {} => g.packet.hop + 1 <= 4 + 2 * g.packet.blocks
         /\ \/ g.sent = {} \/ g.packet.msg.mid = 0
            \/ \E q \in g.sent : q.msg.type = "ACK" /\ q.msg.mid = g.packet.msg.mid
  BY DEF FetchesOK, Fetches, Packets
<1>3. g \in fetching \/ \E f \in fetching : g = [f EXCEPT !.block = block, !.waits = FALSE]
  BY DEF Claimed, block
<1>4. CASE g \in fetching
  BY <1>4 DEF FetchesOK
<1>5. CASE \E f \in fetching : g = [f EXCEPT !.block = block, !.waits = FALSE]
  <2>1. PICK f \in fetching : g = [f EXCEPT !.block = block, !.waits = FALSE]
    BY <1>5
  <2>2. f \in Fetches
    BY DEF FetchesOK
  <2>3. g \in Fetches /\ g.block = block /\ g.packet = f.packet /\ g.sent = f.sent
    BY <1>2, <2>1, <2>2 DEF Fetches
  <2>4. g.block.via = {} => g.block.hop + 3 <= 4 + 2 * g.block.blocks
    BY <1>1, <1>2, <2>3
  <2> QED  BY <2>3, <2>4 DEF FetchesOK
<1> QED  BY <1>3, <1>4, <1>5

LEMMA FetchesKept ==
  ASSUME FetchesOK, fetching' \subseteq fetching
  PROVE  FetchesOK'
BY DEF FetchesOK, Fetches, Packets

\* A handler that ends with a message of lower rank and, for a confirmable message,
\* with a verdict or one of the excuses.
LEMMA EndsCorrect ==
  ASSUME Inductive,
         NEW p \in wire, Admitted(p),
         NEW rsp \in Messages \cup {None}, rsp # None => rsp.mid = p.msg.mid, NEW cause,
         Ends(p, rsp, cause),
         rsp = None \/ cause \in Causes \/ Rank(rsp) < Rank(p.msg),
         \/ p.msg.type # "CON"
         \/ rsp # None /\ (rsp.type \in {"ACK", "RST"} \/ cause \in {"cached", "half cached"})
         \/ cause \in {"nil reply", "no waiter"},
         cache' \in [Endpoints -> Messages \cup {None}], CachedReplies', FetchesOK'
  PROVE  Inductive' /\ ConfirmableAnswered'
<1>1. Inductive'
  <2>1. TypeOK /\ EntriesEcho /\ RankBounds
    BY DEF Inductive
  <2>2. /\ wire' \subseteq Packets
        /\ RankBounds'
        /\ dedup' \in [Endpoints -> SUBSET Replies]
        /\ \A e \in Endpoints : \A x, y \in dedup'[e] : x.mid = y.mid => x = y
        /\ EntriesEcho'
    BY <2>1, EndsKeeps
  <2>3. (fetching \subseteq Fetches)'
    BY DEF FetchesOK
  <2> QED  BY <2>2, <2>3 DEF Inductive, TypeOK, Packets
<1>2. ConfirmableAnswered'
  <2>1. Sends(p, {rsp} \ {None}, cause)
    BY DEF Ends
  <2>2. last'.packet = p /\ last'.cause = cause
    BY <2>1 DEF Sends
  <2>3. CASE rsp # None /\ (rsp.type \in {"ACK", "RST"} \/ cause \in {"cached", "half cached"})
    <3>1. rsp \in {rsp} \ {None} /\ rsp.mid = p.msg.mid
      BY <2>3
    <3>2. rsp.type \in {"ACK", "RST"} \/ cause \in {"cached", "half cached", "replayed"}
      BY <2>3
    <3> QED  BY <2>1, <3>1, <3>2, VerdictSent
  <2>4. CASE p.msg.type # "CON"
    BY <2>2, <2>4 DEF ConfirmableAnswered
  <2>5. CASE cause \in {"nil reply", "no waiter"}
    BY <2>2, <2>5 DEF ConfirmableAnswered
  <2> QED  BY <2>3, <2>4, <2>5
<1> QED  BY <1>1, <1>2

\* The same, for the handlers that send a reply.
LEMMA ReplyCorrect ==
  ASSUME Inductive,
         NEW p \in wire, Admitted(p),
         NEW rsp \in Messages, rsp.mid = p.msg.mid, NEW cause,
         Ends(p, rsp, cause),
         cause \in Causes \/ Rank(rsp) < Rank(p.msg),
         p.msg.type = "CON" => rsp.type \in {"ACK", "RST"} \/ cause \in {"cached", "half cached"},
         cache' \in [Endpoints -> Messages \cup {None}], CachedReplies', fetching' = fetching
  PROVE  Inductive' /\ ConfirmableAnswered'
<1>1. rsp # None
  BY DispatchAssumption DEF DispatchAssumption
<1>2. FetchesOK'
  BY FetchesKept DEF Inductive
<1> QED  BY <1>1, <1>2, EndsCorrect

\* The same, for the handlers that send nothing.
LEMMA SilentCorrect ==
  ASSUME Inductive,
         NEW p \in wire, Admitted(p), NEW cause,
         Ends(p, None, cause),
         p.msg.type # "CON" \/ cause \in {"nil reply", "no waiter"},
         cache' = cache, FetchesOK'
  PROVE  Inductive' /\ ConfirmableAnswered'
<1>1. cache' \in [Endpoints -> Messages \cup {None}] /\ CachedReplies'
  BY CacheKept DEF Inductive
<1> QED  BY <1>1, EndsCorrect

\* A message that may be claimed is not a Reset, so it can set off one more.
LEMMA ClaimedFromWire ==
  ASSUME Inductive, NEW p \in wire, Admitted(p), Claimed(p, fetching)
  PROVE  FetchesOK'
<1>1. p \in Packets /\ p.hop \in Nat /\ p.blocks \in Nat
  BY DispatchAssumption DEF Inductive, TypeOK, Packets, DispatchAssumption
<1>2. Rank(p.msg) \in 0 .. 4 /\ Rank(p.msg) >= 1
  BY RankForm, Ranks DEF Admitted
<1>3. p.via = {} => p.hop + 1 <= 4 + 2 * p.blocks
  BY <1>1, <1>2 DEF Inductive, RankBounds
<1> QED  BY <1>1, <1>3, ClaimedKeeps DEF Inductive

-----------------------------------------------------------------------------
(* Retrievals *)

\* The messages they send.
LEMMA EarlyForm ==
  ASSUME NEW p \in Packets
  PROVE  /\ EarlyAck(p) \in Messages /\ EarlyAck(p).type = "ACK" /\ Rank(EarlyAck(p)) = 2
         /\ p.msg.mid # 0 => EarlyAck(p).mid = p.msg.mid
<1>1. p.msg \in Messages /\ p.hop \in Nat
  BY DispatchAssumption DEF Packets, DispatchAssumption
<1>2. FreshMid(p.hop) \in Nat
  BY <1>1 DEF FreshMid
<1> DEFINE ack == Message("ACK", "empty", FreshMid(p.hop))
<1>3. ack \in Messages /\ ack.type = "ACK" /\ ack.code = "empty" /\ ack.block2 = None
  BY <1>2, MessageForm DEF Types, Codes
<1>4. EarlyAck(p) \in {ack, EmptyAck(p.msg)} /\ (p.msg.mid # 0 => EarlyAck(p) = EmptyAck(p.msg))
  BY DEF EarlyAck
<1> HIDE DEF ack
<1>5. Rank(ack) = 2 /\ Rank(EmptyAck(p.msg)) = 2
  BY <1>1, <1>3, VerdictForm, Ranks
<1> QED  BY <1>1, <1>3, <1>4, <1>5, VerdictForm

LEMMA NextBlockForm ==
  ASSUME NEW f \in Fetches
  PROVE  NextBlockRequest(f) \in Messages /\ Rank(NextBlockRequest(f)) = 2
<1>1. f.block.hop \in Nat
  BY DispatchAssumption DEF Fetches, Packets, DispatchAssumption
<1>2. FreshMid(f.block.hop + 1) \in Nat
  BY <1>1 DEF FreshMid
<1> DEFINE req == Message("CON", "request", FreshMid(f.block.hop + 1))
<1>3. req \in Messages /\ req.type = "CON" /\ req.code = "request"
  BY <1>2, MessageForm DEF Types, Codes
<1>4. NextBlockRequest(f) = [req EXCEPT !.block2 = "later"]
  BY DEF NextBlockRequest
<1>5. "later" \in Block2
  BY DEF Block2
<1> HIDE DEF req
<1>6. [req EXCEPT !.block2 = "later"] \in Messages /\ [req EXCEPT !.block2 = "later"].type = "CON"
      /\ [req EXCEPT !.block2 = "later"].code = "request" /\ [req EXCEPT !.block2 = "later"].block2 = "later"
  BY <1>3, <1>5, WithBlock2Form
<1> QED  BY <1>4, <1>6, Ranks

\* One begins: with its early acknowledgement under way, or without.
LEMMA RetrieveKeeps ==
  ASSUME Inductive, ConfirmableAnswered, NEW p \in wire, Retrieve(p)
  PROVE  Inductive' /\ ConfirmableAnswered'
<1>1. p \in Packets /\ p.hop \in Nat /\ p.blocks \in Nat /\ p.msg \in Messages
  BY DispatchAssumption DEF Inductive, TypeOK, Packets, DispatchAssumption
<1>2. /\ Admitted(p) /\ p.hop < MaxHops /\ p.msg.type # "RST" /\ BigNotification(p.msg)
      /\ last' = last /\ cache' = cache
      /\ dedup' = IF Deduplicated(p.msg) THEN Entered(p, None) ELSE dedup
  BY DEF Retrieve, Dispatched, Admitted
<1>3. PICK early \in {Sent(p, {EarlyAck(p)}, "early"), {}} :
        /\ wire' = (wire \ {p}) \cup early
        /\ fetching' = fetching \cup {[packet |-> p, block |-> p, sent |-> early, waits |-> FALSE]}
  BY DEF Retrieve
<1>4. p.via = {} => p.hop + 3 <= 4 + 2 * p.blocks
  <2>1. Rank(p.msg) = 3
    BY <1>2, Ranks DEF BigNotification
  <2> QED  BY <2>1 DEF Inductive, RankBounds
<1>5. /\ early \subseteq Packets
      /\ \A q \in early : q.via = {} => q.hop + Rank(q.msg) <= 4 + 2 * q.blocks
  <2>1. {EarlyAck(p)} \in SUBSET Messages
    BY <1>1, EarlyForm
  <2>2. p.via = {} => \A m \in {EarlyAck(p)} : p.hop + 1 + Rank(m) <= 4 + 2 * p.blocks
    <3>1. Rank(EarlyAck(p)) = 2
      BY <1>1, EarlyForm
    <3> QED  BY <1>1, <1>4, <3>1
  <2>3. /\ Sent(p, {EarlyAck(p)}, "early") \subseteq Packets
        /\ \A q \in Sent(p, {EarlyAck(p)}, "early") :
             q.via = {} => q.hop + Rank(q.msg) <= 4 + 2 * q.blocks
    BY <1>1, <1>2, <2>1, <2>2, SentForm
  <2> QED  BY <2>3
<1>6. \/ early = {} \/ p.msg.mid = 0
      \/ \E q \in early : q.msg.type = "ACK" /\ q.msg.mid = p.msg.mid
  <2>1. EarlyAck(p).type = "ACK" /\ (p.msg.mid # 0 => EarlyAck(p).mid = p.msg.mid)
    BY <1>1, EarlyForm
  <2>2. \E q \in Sent(p, {EarlyAck(p)}, "early") : q.msg = EarlyAck(p)
    BY SentCarries
  <2> QED  BY <2>1, <2>2
<1>7. wire' \subseteq Packets /\ RankBounds'
  <2>1. wire' \subseteq Packets
    BY <1>3, <1>5 DEF Inductive, TypeOK
  <2>2. RankBounds'
    <3> SUFFICES ASSUME NEW q \in wire', q.via = {} PROVE q.hop + Rank(q.msg) <= 4 + 2 * q.blocks
      BY DEF RankBounds, Rank
    <3> QED  BY <1>3, <1>5 DEF Inductive, RankBounds
  <2> QED  BY <2>1, <2>2
<1>8. FetchesOK'
  <2> DEFINE new == [packet |-> p, block |-> p, sent |-> early, waits |-> FALSE]
  <2>1. new \in Fetches /\ new.block = p /\ new.packet = p /\ new.sent = early
    BY <1>1, <1>5 DEF Fetches
  <2>2. p.via = {} => p.hop + 1 <= 4 + 2 * p.blocks
    BY <1>1, <1>4
  <2>3. fetching' = fetching \cup {new}
    BY <1>3
  <2> HIDE DEF new
  <2>4. fetching' \subseteq Fetches
    BY <2>1, <2>3 DEF Inductive, FetchesOK
  <2>5. \A f \in fetching' :
          /\ f.block.via = {} => f.block.hop + 3 <= 4 + 2 * f.block.blocks
          /\ f.packet.via = {} => f.packet.hop + 1 <= 4 + 2 * f.packet.blocks
          /\ \/ f.sent = {} \/ f.packet.msg.mid = 0
             \/ \E q \in f.sent : q.msg.type = "ACK" /\ q.msg.mid = f.packet.msg.mid
    BY <1>4, <1>6, <2>1, <2>2, <2>3 DEF Inductive, FetchesOK
  <2> QED  BY <2>4, <2>5 DEF FetchesOK, Fetches, Packets
<1>9. /\ dedup' \in [Endpoints -> SUBSET Replies]
      /\ \A e \in Endpoints : \A x, y \in dedup'[e] : x.mid = y.mid => x = y
      /\ EntriesEcho'
  <2>1. CASE Deduplicated(p.msg)
    <3>1. dedup' = Entered(p, None)
      BY <1>2, <2>1
    <3> QED  BY <1>2, <2>1, <3>1, EnteredForm DEF Inductive
  <2>2. CASE ~Deduplicated(p.msg)
    <3>1. dedup' = dedup
      BY <1>2, <2>2
    <3> QED  BY <3>1 DEF Inductive, TypeOK, EntriesEcho
  <2> QED  BY <2>1, <2>2
<1>10. cache' \in [Endpoints -> Messages \cup {None}] /\ CachedReplies'
  BY <1>2, CacheKept DEF Inductive
<1>11. Inductive'
  <2>1. (fetching \subseteq Fetches)'
    BY <1>8 DEF FetchesOK
  <2> QED  BY <1>7, <1>8, <1>9, <1>10, <2>1 DEF Inductive, TypeOK, Packets
<1>12. ConfirmableAnswered'
  BY <1>2 DEF ConfirmableAnswered, Verdicts
<1> QED  BY <1>11, <1>12

\* It asks for one block more.
LEMMA AskKeeps ==
  ASSUME Inductive, ConfirmableAnswered, NEW f \in fetching, Ask(f)
  PROVE  Inductive' /\ ConfirmableAnswered'
<1>1. /\ f \in Fetches /\ f.block \in Packets /\ f.block.hop \in Nat /\ f.block.blocks \in Nat
      /\ f.block.via = {} => f.block.hop + 3 <= 4 + 2 * f.block.blocks
  BY DispatchAssumption DEF Inductive, FetchesOK, Fetches, Packets, DispatchAssumption
<1>2. /\ f.block.hop < MaxHops /\ last' = last /\ cache' = cache /\ dedup' = dedup
      /\ wire' = wire \cup Sent(f.block, {NextBlockRequest(f)}, "asked")
      /\ fetching' = (fetching \ {f}) \cup {[f EXCEPT !.waits = TRUE]}
  BY DEF Ask, Runs
<1>3. /\ Sent(f.block, {NextBlockRequest(f)}, "asked") \subseteq Packets
      /\ \A q \in Sent(f.block, {NextBlockRequest(f)}, "asked") :
           q.via = {} => q.hop + Rank(q.msg) <= 4 + 2 * q.blocks
  <2>1. NextBlockRequest(f) \in Messages /\ Rank(NextBlockRequest(f)) = 2
    BY <1>1, NextBlockForm
  <2>2. {NextBlockRequest(f)} \in SUBSET Messages
    BY <2>1
  <2>3. f.block.via = {} =>
          \A m \in {NextBlockRequest(f)} : f.block.hop + 1 + Rank(m) <= 4 + 2 * f.block.blocks
    BY <1>1, <2>1
  <2> QED  BY <1>1, <1>2, <2>2, <2>3, SentForm
<1>4. wire' \subseteq Packets
  BY <1>2, <1>3 DEF Inductive, TypeOK
<1>5. RankBounds'
  <2> SUFFICES ASSUME NEW q \in wire', q.via = {} PROVE q.hop + Rank(q.msg) <= 4 + 2 * q.blocks
    BY DEF RankBounds, Rank
  <2> QED  BY <1>2, <1>3 DEF Inductive, RankBounds
<1>6. FetchesOK'
  <2> DEFINE new == [f EXCEPT !.waits = TRUE]
  <2>1. new \in Fetches /\ new.block = f.block /\ new.packet = f.packet /\ new.sent = f.sent
    BY <1>1 DEF Fetches
  <2>2. fetching' = (fetching \ {f}) \cup {new}
    BY <1>2
  <2> HIDE DEF new
  <2>3. fetching' \subseteq Fetches
    BY <2>1, <2>2 DEF Inductive, FetchesOK
  <2>4. \A g \in fetching' :
          /\ g.block.via = {} => g.block.hop + 3 <= 4 + 2 * g.block.blocks
          /\ g.packet.via = {} => g.packet.hop + 1 <= 4 + 2 * g.packet.blocks
          /\ \/ g.sent = {} \/ g.packet.msg.mid = 0
             \/ \E q \in g.sent : q.msg.type = "ACK" /\ q.msg.mid = g.packet.msg.mid
    BY <2>1, <2>2 DEF Inductive, FetchesOK
  <2> QED  BY <2>3, <2>4 DEF FetchesOK, Fetches, Packets
<1>7. Inductive'
  <2>1. (fetching \subseteq Fetches)'
    BY <1>6 DEF FetchesOK
  <2> QED  BY <1>2, <1>4, <1>5, <1>6, <2>1 DEF Inductive, TypeOK, Packets, EntriesEcho, CachedReplies
<1>8. ConfirmableAnswered'
  BY <1>2 DEF ConfirmableAnswered, Verdicts
<1> QED  BY <1>7, <1>8

\* It ends: with a verdict, after one, or with an excuse.
LEMMA ConcludesKeeps ==
  ASSUME Inductive, NEW f \in fetching, f.block.hop < MaxHops,
         NEW rsp \in Messages \cup {None}, NEW cause, Concludes(f, rsp, cause),
         rsp # None => rsp.mid = f.packet.msg.mid /\ rsp.type \in {"ACK", "RST"} /\ Rank(rsp) <= 2,
         \/ f.packet.msg.type # "CON"
         \/ rsp # None
         \/ cause = "unacknowledged"
         \/ cause = "retrieved" /\ f.sent # {}
  PROVE  Inductive' /\ ConfirmableAnswered'
<1>1. /\ f \in Fetches /\ f.packet \in Packets
      /\ f.block \in Packets /\ f.block.hop \in Nat /\ f.block.blocks \in Nat
      /\ f.block.via = {} => f.block.hop + 3 <= 4 + 2 * f.block.blocks
      /\ f.packet.via = {} => f.packet.hop + 1 <= 4 + 2 * f.packet.blocks
      /\ \/ f.sent = {} \/ f.packet.msg.mid = 0
         \/ \E q \in f.sent : q.msg.type = "ACK" /\ q.msg.mid = f.packet.msg.mid
  BY DispatchAssumption DEF Inductive, FetchesOK, Fetches, Packets, DispatchAssumption
<1> DEFINE reply == Sent(f.block, {rsp} \ {None}, cause)
<1>2. /\ wire' = wire \cup reply /\ cache' = cache
      /\ last' = [packet |-> f.packet, sent |-> f.sent \cup reply, cause |-> cause]
      /\ dedup' = IF Deduplicated(f.packet.msg) THEN Saved(f.packet, rsp) ELSE dedup
      /\ IF rsp = None THEN Claimed(f.packet, fetching \ {f}) ELSE fetching' = fetching \ {f}
  BY DEF Concludes
<1>3. /\ reply \subseteq Packets
      /\ \A q \in reply : q.via = {} => q.hop + Rank(q.msg) <= 4 + 2 * q.blocks
  <2>1. {rsp} \ {None} \in SUBSET Messages
    OBVIOUS
  <2>2. f.block.via = {} =>
          \A m \in {rsp} \ {None} : f.block.hop + 1 + Rank(m) <= 4 + 2 * f.block.blocks
    <3> SUFFICES ASSUME f.block.via = {}, rsp # None
                 PROVE  f.block.hop + 1 + Rank(rsp) <= 4 + 2 * f.block.blocks
      OBVIOUS
    <3>1. Rank(rsp) \in 0 .. 4 /\ Rank(rsp) <= 2
      BY RankForm
    <3> QED  BY <1>1, <3>1
  <2> QED  BY <1>1, <2>1, <2>2, SentForm
<1>4. rsp # None => \E q \in reply : q.msg = rsp
  BY SentCarries
<1> HIDE DEF reply
<1>5. wire' \subseteq Packets
  BY <1>2, <1>3 DEF Inductive, TypeOK
<1>6. RankBounds'
  <2> SUFFICES ASSUME NEW q \in wire', q.via = {} PROVE q.hop + Rank(q.msg) <= 4 + 2 * q.blocks
    BY DEF RankBounds, Rank
  <2> QED  BY <1>2, <1>3 DEF Inductive, RankBounds
<1>7. FetchesOK'
  <2>1. CASE rsp = None
    <3>1. Claimed(f.packet, fetching \ {f}) /\ fetching \ {f} \in SUBSET fetching
      BY <1>2, <2>1
    <3> QED  BY <1>1, <3>1, ClaimedKeeps DEF Inductive
  <2>2. CASE rsp # None
    <3>1. fetching' \subseteq fetching
      BY <1>2, <2>2
    <3> QED  BY <3>1, FetchesKept DEF Inductive
  <2> QED  BY <2>1, <2>2
<1>8. /\ dedup' \in [Endpoints -> SUBSET Replies]
      /\ \A e \in Endpoints : \A x, y \in dedup'[e] : x.mid = y.mid => x = y
      /\ EntriesEcho'
  <2>1. CASE Deduplicated(f.packet.msg)
    <3>1. dedup' = Saved(f.packet, rsp)
      BY <1>2, <2>1
    <3> QED  BY <1>1, <3>1, SavedForm DEF Inductive
  <2>2. CASE ~Deduplicated(f.packet.msg)
    <3>1. dedup' = dedup
      BY <1>2, <2>2
    <3> QED  BY <3>1 DEF Inductive, TypeOK, EntriesEcho
  <2> QED  BY <2>1, <2>2
<1>9. cache' \in [Endpoints -> Messages \cup {None}] /\ CachedReplies'
  BY <1>2, CacheKept DEF Inductive
<1>10. Inductive'
  <2>1. (fetching \subseteq Fetches)'
    BY <1>7 DEF FetchesOK
  <2> QED  BY <1>5, <1>6, <1>7, <1>8, <1>9, <2>1 DEF Inductive, TypeOK, Packets
<1>11. ConfirmableAnswered'
  <2>1. last'.packet = f.packet /\ last'.cause = cause /\ last'.sent = f.sent \cup reply
    BY <1>2
  <2>2. ASSUME NEW q \in f.sent \cup reply, q.msg.type \in {"ACK", "RST"}, q.msg.mid = f.packet.msg.mid
        PROVE  ConfirmableAnswered'
    <3>1. q.msg \in Verdicts(last')
      BY <2>1, <2>2 DEF Verdicts
    <3> QED  BY <2>1, <2>2, <3>1 DEF ConfirmableAnswered
  <2>3. CASE f.packet.msg.type # "CON"
    BY <2>1, <2>3 DEF ConfirmableAnswered
  <2>4. CASE rsp # None
    BY <1>4, <2>2, <2>4
  <2>5. CASE cause = "unacknowledged"
    BY <2>1, <2>5 DEF ConfirmableAnswered
  <2>6. CASE cause = "retrieved" /\ f.sent # {}
    <3>1. CASE f.packet.msg.mid = 0
      BY <2>1, <2>6, <3>1 DEF ConfirmableAnswered
    <3>2. CASE f.packet.msg.mid # 0
      BY <1>1, <2>2, <2>6, <3>2
    <3> QED  BY <3>1, <3>2
  <2> QED  BY <2>3, <2>4, <2>5, <2>6
<1> QED  BY <1>10, <1>11

LEMMA RetrievalKeeps ==
  ASSUME Inductive, ConfirmableAnswered, NEW f \in fetching,
         Ask(f) \/ Retrieved(f) \/ RetrievalFails(f)
  PROVE  Inductive' /\ ConfirmableAnswered'
<1>1. f.packet.msg \in Messages
  BY DEF Inductive, FetchesOK, Fetches, Packets
<1>2. CASE Ask(f)
  BY <1>2, AskKeeps
<1>3. CASE Retrieved(f)
  <2>1. PICK rsp \in HandleNotify(f.packet.msg, "ACK") :
          Concludes(f, rsp, IF f.sent = {} THEN "unacknowledged" ELSE "retrieved")
    BY <1>3 DEF Retrieved
  <2>2. rsp = None \/ (rsp \in Messages /\ rsp.mid = f.packet.msg.mid /\ rsp.type = "RST")
    BY <1>1, NotifyAckForm
  <2>3. rsp # None => Rank(rsp) <= 2
    BY <2>2, Ranks
  <2>4. f.block.hop < MaxHops
    BY <1>3 DEF Retrieved, Runs
  <2>5. CASE f.sent = {}
    <3>1. Concludes(f, rsp, "unacknowledged")
      BY <2>1, <2>5
    <3> QED  BY <2>2, <2>3, <2>4, <3>1, ConcludesKeeps
  <2>6. CASE f.sent # {}
    <3>1. Concludes(f, rsp, "retrieved")
      BY <2>1, <2>6
    <3> QED  BY <2>2, <2>3, <2>4, <2>6, <3>1, ConcludesKeeps
  <2> QED  BY <2>5, <2>6
<1>4. CASE RetrievalFails(f)
  <2>1. PICK rsp \in ReplyToResponse(f.packet.msg, Reset(f.packet.msg)) :
          Concludes(f, rsp, "not retrieved")
    BY <1>4 DEF RetrievalFails
  <2>2. \/ rsp = None
        \/ /\ rsp \in Messages /\ rsp.mid = f.packet.msg.mid
           /\ \/ rsp.type = "RST"
              \/ rsp.type = "ACK" /\ rsp.code = "empty" /\ rsp.block2 = None
    BY <1>1, ReplyToResponseForm
  <2>3. f.packet.msg.type = "CON" => rsp # None
    BY <1>1, <2>1, OverruledForm
  <2>4. rsp # None => Rank(rsp) <= 2 /\ rsp.type \in {"ACK", "RST"}
    BY <2>2, Ranks
  <2>5. f.block.hop < MaxHops
    BY <1>4 DEF RetrievalFails, Runs
  <2> QED  BY <2>1, <2>2, <2>3, <2>4, <2>5, ConcludesKeeps
<1> QED  BY <1>2, <1>3, <1>4

-----------------------------------------------------------------------------
(* Every handler *)

LEMMA HandleKeeps ==
  ASSUME Inductive, ConfirmableAnswered, NEW p \in wire, Handle(p)
  PROVE  Inductive' /\ ConfirmableAnswered'
<1> DEFINE m == p.msg
<1>1. p \in Packets /\ p.to \in Endpoints /\ m \in Messages
  BY DEF Inductive, TypeOK, Packets
<1>2. /\ m.type \in Types /\ m.code \in Codes /\ m.mid \in Nat
      /\ m.block1 \in Block1 /\ m.block2 \in Block2
  BY <1>1 DEF Messages
<1>3. None \notin Messages
  BY DispatchAssumption DEF DispatchAssumption
<1>4. cache \in [Endpoints -> Messages \cup {None}]
  BY DEF Inductive, TypeOK
<1>5. cache' = cache => cache' \in [Endpoints -> Messages \cup {None}] /\ CachedReplies'
  BY CacheKept DEF Inductive
<1>6. /\ Continue(m) \in Messages /\ Continue(m).type = "ACK" /\ Continue(m).mid = m.mid
      /\ Error(m) \in Messages /\ Error(m).type = "ACK" /\ Error(m).mid = m.mid
      /\ EmptyAck(m) \in Messages /\ EmptyAck(m).type = "ACK" /\ EmptyAck(m).mid = m.mid
      /\ Rank(Continue(m)) = 1 /\ Rank(Error(m)) = 1 /\ Rank(EmptyAck(m)) = 2
  <2>1. None # "first"
    BY DispatchAssumption DEF DispatchAssumption
  <2> QED  BY <1>1, <2>1, VerdictForm, Ranks
<1>20. CASE Replay(p)
  <2>1. PICK x \in Entries(p) : x.rsp # None /\ Sends(p, {x.rsp}, "replayed")
    BY <1>20 DEF Replay
  <2>2. x \in dedup[p.to] /\ x.mid = m.mid /\ p.hop < MaxHops /\ UNCHANGED <<dedup, cache, fetching>>
    BY <1>20 DEF Entries, Replay
  <2>3. x \in Replies /\ x.rsp.mid = m.mid
    BY <1>1, <2>1, <2>2 DEF Inductive, TypeOK, EntriesEcho
  <2>4. x.rsp \in Messages
    BY <2>1, <2>3 DEF Replies
  <2>5. wire' \subseteq Packets /\ RankBounds'
    BY <2>1, <2>2, <2>4, SendsKeeps DEF Inductive, Causes
  <2>6. TypeOK'
    BY <2>2, <2>5 DEF Inductive, TypeOK, Packets, Fetches
  <2>7. EntriesEcho' /\ CachedReplies' /\ FetchesOK'
    BY <2>2, FetchesKept DEF Inductive, EntriesEcho, CachedReplies
  <2>8. ConfirmableAnswered'
    BY <2>1, <2>3, VerdictSent
  <2> QED  BY <2>5, <2>6, <2>7, <2>8 DEF Inductive
<1>7. CASE StoreFirst(p)
  <2>1. /\ Admitted(p) /\ m.code # "response" /\ m.type # "RST"
        /\ CachePut(p.to, m) /\ Ends(p, Continue(m), "block1") /\ fetching' = fetching
    BY <1>7 DEF StoreFirst, UploadBlock, IsRequest, Admitted
  <2>2. cache' \in [Endpoints -> Messages \cup {None}] /\ CachedReplies'
    BY <1>1, <2>1, CachePutKeeps DEF Inductive
  <2>3. Rank(Continue(m)) < Rank(m)
    BY <1>6, <2>1, Ranks, RankForm
  <2> QED
    BY <1>6, <2>1, <2>2, <2>3, ReplyCorrect
<1>8. CASE AppendMiddle(p)
  <2>1. /\ Admitted(p) /\ m.code # "response" /\ m.type # "RST"
        /\ Ends(p, Continue(m), "block1") /\ cache' = cache /\ fetching' = fetching
    BY <1>8 DEF AppendMiddle, Returned, UploadBlock, IsRequest, Admitted
  <2>2. Rank(Continue(m)) < Rank(m)
    BY <1>6, <2>1, Ranks, RankForm
  <2> QED
    BY <1>5, <1>6, <2>1, <2>2, ReplyCorrect
<1>9. CASE RefuseBlock(p)
  <2>1. /\ Admitted(p) /\ m.code # "response" /\ m.type # "RST"
        /\ Ends(p, Error(m), "block1") /\ cache' = cache /\ fetching' = fetching
    BY <1>9 DEF RefuseBlock, Returned, UploadBlock, IsRequest, Admitted
  <2>2. Rank(Error(m)) < Rank(m)
    BY <1>6, <2>1, Ranks, RankForm
  <2> QED
    BY <1>5, <1>6, <2>1, <2>2, ReplyCorrect
<1>10. CASE AckClaimed(p)
  <2>1. /\ Admitted(p) /\ m.type = "ACK" /\ Ends(p, None, "claimed") /\ cache' = cache
        /\ Claimed(p, fetching)
    BY <1>10 DEF AckClaimed
  <2>2. FetchesOK'
    BY <2>1, ClaimedFromWire
  <2> QED  BY <2>1, <2>2, SilentCorrect
<1>11. CASE ServeCached(p)
  <2> DEFINE c == cache[p.to]
  <2>1. /\ Admitted(p) /\ m.code # "response" /\ m.type # "RST" /\ m.block2 # None
        /\ c # None /\ cache' = cache /\ fetching' = fetching
    BY <1>11 DEF ServeCached, Returned, IsRequest, Admitted
  <2>2. PICK b \in Block2s(m.block2) :
          Ends(p, CachedBlock(c, m.mid, b), IF IsRequest(c) THEN "half cached" ELSE "cached")
    BY <1>11 DEF ServeCached, Returned
  <2> DEFINE rsp == CachedBlock(c, m.mid, b)
  <2>3. c \in Messages /\ b \in Block2
    BY <1>1, <1>2, <1>4, <2>1, Block2sForm
  <2>4. rsp \in Messages /\ rsp.type = c.type /\ rsp.code = c.code /\ rsp.mid = m.mid /\ rsp.block2 = b
    BY <1>2, <2>3, ServedForm
  <2>5. CASE IsRequest(c)
    <3>1. Ends(p, rsp, "half cached")
      BY <2>2, <2>5
    <3> HIDE DEF rsp
    <3> QED  BY <1>5, <2>1, <2>4, <3>1, ReplyCorrect DEF Causes
  <2>6. CASE ~IsRequest(c)
    <3>1. Ends(p, rsp, "cached")
      BY <2>2, <2>6
    <3>2. rsp.code = "response" /\ rsp.type \in {"ACK", "NON"}
      BY <1>1, <2>1, <2>4, <2>6 DEF Inductive, CachedReplies, IsRequest
    <3>3. m.block2 = "later" \/ m.block2 \in {"first", "only"}
      BY <1>2, <2>1 DEF Block2
    <3>4. m.block2 = "later" => b = "later"
      BY DEF Block2s
    <3> HIDE DEF rsp
    <3>5. Rank(rsp) < Rank(m)
      <4>1. CASE m.block2 = "later"
        <5>1. Rank(rsp) = 1
          BY <2>4, <3>2, <3>4, <4>1, Ranks
        <5>2. Rank(m) = 2
          BY <2>1, <4>1, Ranks
        <5> QED  BY <5>1, <5>2
      <4>2. CASE m.block2 \in {"first", "only"}
        <5>1. Rank(rsp) <= 3 /\ Rank(rsp) \in 0 .. 4
          BY <3>2, Ranks, RankForm
        <5>2. Rank(m) = 4
          BY <2>1, <4>2, Ranks
        <5> QED  BY <5>1, <5>2
      <4> QED  BY <3>3, <4>1, <4>2
    <3> QED  BY <1>5, <2>1, <2>4, <3>1, <3>5, ReplyCorrect
  <2> QED  BY <2>5, <2>6
<1>12. CASE Response(p)
  <2>1. Admitted(p) /\ m.type # "RST" /\ cache' = cache
    BY <1>12 DEF Response, Dispatched, Admitted
  <2>2. PICK rsp \in ReplyToResponse(m, None) :
          /\ Ends(p, rsp, IF rsp = None THEN "no waiter" ELSE "response")
          /\ IF rsp = None THEN Claimed(p, fetching) ELSE fetching' = fetching
    BY <1>12 DEF Response
  <2>3. \/ rsp = None
        \/ /\ rsp \in Messages /\ rsp.mid = m.mid
           /\ \/ rsp.type = "RST"
              \/ m.type = "CON" /\ rsp.type = "ACK" /\ rsp.code = "empty" /\ rsp.block2 = None
    BY <1>1, ReplyToResponseForm
  <2>4. CASE rsp = None
    <3>1. Ends(p, None, "no waiter") /\ Claimed(p, fetching)
      BY <2>2, <2>4
    <3>2. FetchesOK'
      BY <2>1, <3>1, ClaimedFromWire
    <3> QED  BY <2>1, <3>1, <3>2, SilentCorrect
  <2>5. CASE rsp # None
    <3>1. Ends(p, rsp, "response") /\ fetching' = fetching
      BY <2>2, <2>5
    <3>2. Rank(rsp) < Rank(m)
      <4>1. CASE rsp.type = "RST"
        <5>1. Rank(rsp) = 0 /\ Rank(m) >= 1 /\ Rank(m) \in 0 .. 4
          BY <2>1, <4>1, Ranks, RankForm
        <5> QED  BY <5>1
      <4>2. CASE m.type = "CON" /\ rsp.type = "ACK" /\ rsp.code = "empty" /\ rsp.block2 = None
        <5>1. Rank(rsp) = 2
          BY <4>2, Ranks
        <5>2. m.code = "response"
          BY <1>12, <4>2 DEF Response, IsRequest, Deduplicated
        <5>3. Rank(m) = 3
          BY <4>2, <5>2, Ranks
        <5> QED  BY <5>1, <5>3
      <4> QED  BY <2>3, <2>5, <4>1, <4>2
    <3> QED  BY <1>5, <2>1, <2>3, <2>5, <3>1, <3>2, ReplyCorrect
  <2> QED  BY <2>4, <2>5
<1>13. CASE Retrieve(p)
  BY <1>13, RetrieveKeeps
<1>15. CASE Keepalive(p)
  <2>1. Admitted(p) /\ m.type # "RST" /\ cache' = cache /\ fetching' = fetching
    BY <1>15 DEF Keepalive, Request, Dispatched, Returned, Admitted
  <2>2. Ends(p, [Reset(m) EXCEPT !.block1 = m.block1], "keepalive")
    BY <1>1, <1>3, <1>15, VerdictForm DEF Keepalive, Returned, Returns
  <2> DEFINE rsp == [Reset(m) EXCEPT !.block1 = m.block1]
  <2>3. rsp \in Messages /\ rsp.type = "RST" /\ rsp.mid = m.mid
    BY <1>1, <1>2, VerdictForm, WithBlock1Form
  <2> HIDE DEF rsp
  <2>4. Rank(rsp) < Rank(m)
    BY <2>1, <2>3, Ranks, RankForm
  <2> QED  BY <1>5, <2>1, <2>2, <2>3, <2>4, ReplyCorrect DEF rsp
<1>16. CASE Answer(p)
  <2>1. Admitted(p) /\ m.type # "RST" /\ m.code = "request" /\ cache' = cache /\ fetching' = fetching
    BY <1>16 DEF Answer, Request, Dispatched, Returned, Admitted
  <2>2. PICK o \in BOOLEAN : Ends(p, CallbackReply(m, o, None), "answered")
    BY <1>16 DEF Answer, Returned
  <2> DEFINE rsp == CallbackReply(m, o, None)
  <2>3. /\ rsp \in Messages /\ rsp.code = "response" /\ rsp.mid = m.mid /\ rsp.block2 = None
        /\ rsp.type = IF m.type = "NON" THEN "NON" ELSE "ACK"
    BY <1>1, CallbackReplyForm DEF Block2
  <2>4. Rank(rsp) < Rank(m)
    <3>1. Rank(rsp) = 1
      BY <2>3, Ranks, DispatchAssumption DEF DispatchAssumption
    <3> QED  BY <2>1, <3>1, Ranks, RankForm
  <2> HIDE DEF rsp
  <2> QED  BY <1>5, <2>1, <2>2, <2>3, <2>4, ReplyCorrect DEF rsp
<1>17. CASE AnswerBlockwise(p)
  <2>1. Admitted(p) /\ m.type # "RST" /\ m.code = "request" /\ fetching' = fetching
    BY <1>17 DEF AnswerBlockwise, Request, Dispatched, Admitted
  <2>2. PICK o \in BOOLEAN, b \in Block2s(m.block2) :
          /\ CachePut(p.to, CallbackReply(m, o, None))
          /\ Ends(p, CallbackReply(m, o, b), "answered")
    BY <1>17 DEF AnswerBlockwise
  <2> DEFINE rsp  == CallbackReply(m, o, b)
             full == CallbackReply(m, o, None)
  <2>3. /\ rsp \in Messages /\ rsp.code = "response" /\ rsp.mid = m.mid /\ rsp.block2 = b
        /\ rsp.type = IF m.type = "NON" THEN "NON" ELSE "ACK"
    BY <1>1, <1>2, Block2sForm, CallbackReplyForm
  <2>4. full \in Messages /\ full.type \in {"ACK", "NON"}
    <3>1. None \in Block2
      BY DEF Block2
    <3> QED  BY <1>1, <3>1, CallbackReplyForm
  <2>5. m.block2 = "later" => b = "later"
    BY DEF Block2s
  <2> HIDE DEF rsp, full
  <2>6. Rank(rsp) < Rank(m)
    <3>1. CASE m.block2 = "later"
      <4>1. Rank(rsp) = 1
        BY <2>3, <2>5, <3>1, Ranks
      <4> QED  BY <2>1, <4>1, Ranks, RankForm
    <3>2. CASE m.block2 # "later"
      <4>1. Rank(rsp) <= 3 /\ Rank(rsp) \in 0 .. 4
        BY <2>3, Ranks, RankForm
      <4>2. Rank(m) = 4
        BY <2>1, <3>2, Ranks
      <4> QED  BY <4>1, <4>2
    <3> QED  BY <3>1, <3>2
  <2>7. cache' \in [Endpoints -> Messages \cup {None}] /\ CachedReplies'
    BY <1>1, <2>2, <2>4, CachePutKeeps DEF Inductive, full
  <2> QED  BY <2>1, <2>2, <2>3, <2>6, <2>7, ReplyCorrect DEF rsp
<1>18. CASE BlockOverflow(p)
  <2>1. /\ Admitted(p) /\ m.type # "RST" /\ m.code = "request"
        /\ Ends(p, Error(m), "answered") /\ fetching' = fetching
    BY <1>18 DEF BlockOverflow, Request, Dispatched, Admitted
  <2>2. PICK o \in BOOLEAN : CachePut(p.to, CallbackReply(m, o, None))
    BY <1>18 DEF BlockOverflow
  <2> DEFINE full == CallbackReply(m, o, None)
  <2>3. full \in Messages /\ full.type \in {"ACK", "NON"}
    <3>1. None \in Block2
      BY DEF Block2
    <3> QED  BY <1>1, <3>1, CallbackReplyForm
  <2> HIDE DEF full
  <2>4. cache' \in [Endpoints -> Messages \cup {None}] /\ CachedReplies'
    BY <1>1, <2>2, <2>3, CachePutKeeps DEF Inductive, full
  <2>5. Rank(Error(m)) < Rank(m)
    BY <1>6, <2>1, Ranks, RankForm
  <2> QED  BY <1>6, <2>1, <2>4, <2>5, ReplyCorrect
<1>19. CASE NilReply(p)
  <2>1. Admitted(p) /\ Ends(p, None, "nil reply") /\ cache' = cache /\ fetching' = fetching
    BY <1>19 DEF NilReply, Request, Dispatched
  <2>2. FetchesOK'
    BY <2>1, FetchesKept DEF Inductive
  <2> QED  BY <2>1, <2>2, SilentCorrect
<1> QED
  BY <1>20, <1>7, <1>8, <1>9, <1>10, <1>11, <1>12, <1>13, <1>15, <1>16, <1>17, <1>18, <1>19
  DEF Handle

LEMMA InitInductive ==
  ASSUME Init
  PROVE  Inductive /\ ConfirmableAnswered
<1>1. PICK earlier \in [Endpoints -> Replied \cup {None}] :
        dedup = [e \in Endpoints |-> {earlier[e]} \ {None}]
  BY DEF Init
<1>2. PICK m \in FirstMessages, e \in Endpoints :
        wire = {[msg |-> m, to |-> e, hop |-> 0, blocks |-> 0, via |-> {}]}
  BY DEF Init
<1>3. \A f \in Endpoints : \A x \in dedup[f] : x \in Replied /\ x = earlier[f]
  BY <1>1
<1>4. TypeOK
  <2>1. wire \subseteq Packets
    BY <1>2, DispatchAssumption DEF Packets, DispatchAssumption
  <2>2. dedup \in [Endpoints -> SUBSET Replies]
    BY <1>1, DispatchAssumption DEF DispatchAssumption
  <2>3. cache \in [Endpoints -> Messages \cup {None}]
    BY DispatchAssumption DEF Init, DispatchAssumption
  <2>4. fetching = {}
    BY DEF Init
  <2> QED  BY <1>3, <2>1, <2>2, <2>3, <2>4 DEF TypeOK
<1>5. EntriesEcho
  BY <1>3, DispatchAssumption DEF EntriesEcho, DispatchAssumption
<1>6. CachedReplies
  <2> SUFFICES ASSUME NEW f \in Endpoints, cache[f] # None, cache[f].code = "response"
               PROVE  cache[f].type \in {"ACK", "NON"}
    BY DEF CachedReplies
  <2>1. cache[f] \in Cached
    BY DEF Init
  <2> QED  BY <2>1, DispatchAssumption DEF DispatchAssumption
<1>7. RankBounds
  <2> SUFFICES ASSUME NEW q \in wire PROVE q.hop + Rank(q.msg) <= 4 + 2 * q.blocks
    BY DEF RankBounds
  <2>1. q.hop = 0 /\ q.blocks = 0
    BY <1>2
  <2> QED  BY <2>1, RankForm
<1>8. ConfirmableAnswered
  BY DEF Init, ConfirmableAnswered
<1>9. FetchesOK
  BY DEF Init, FetchesOK
<1> QED  BY <1>4, <1>5, <1>6, <1>7, <1>8, <1>9 DEF Inductive

\* Time passing in a cache, or nothing at all.
LEMMA NextKeeps ==
  ASSUME Inductive, ConfirmableAnswered, [Next]_vars
  PROVE  Inductive' /\ ConfirmableAnswered'
<1>1. CASE \E p \in wire : Handle(p)
  BY <1>1, HandleKeeps
<1>2. CASE \E e \in Endpoints : Expire(e)
  <2>1. PICK e \in Endpoints : Expire(e)
    BY <1>2
  <2>2. /\ cache' = [cache EXCEPT ![e] = None]
        /\ wire' = wire /\ last' = last /\ dedup' = dedup /\ fetching' = fetching
    BY <2>1 DEF Expire
  <2>3. cache \in [Endpoints -> Messages \cup {None}]
    BY DEF Inductive, TypeOK
  <2>4. cache' \in [Endpoints -> Messages \cup {None}] /\ CachedReplies'
    BY <2>2, <2>3 DEF Inductive, CachedReplies
  <2>5. Inductive'
    <3>1. FetchesOK'
      BY <2>2, FetchesKept DEF Inductive
    <3> QED  BY <2>2, <2>4, <3>1 DEF Inductive, TypeOK, Packets, Fetches, EntriesEcho, RankBounds, Rank
  <2>6. ConfirmableAnswered'
    BY <2>2 DEF ConfirmableAnswered, Verdicts
  <2> QED  BY <2>5, <2>6
<1>3. CASE UNCHANGED vars
  <2>1. /\ wire' = wire /\ last' = last /\ dedup' = dedup /\ cache' = cache
        /\ fetching' = fetching
    BY <1>3 DEF vars
  <2>2. Inductive'
    <3>1. FetchesOK'
      BY <2>1, FetchesKept DEF Inductive
    <3> QED
      BY <2>1, <3>1
         DEF Inductive, TypeOK, Packets, Fetches, EntriesEcho, CachedReplies, RankBounds, Rank
  <2>3. ConfirmableAnswered'
    BY <2>1 DEF ConfirmableAnswered, Verdicts
  <2> QED  BY <2>2, <2>3
<1>4. CASE \E f \in fetching : Ask(f) \/ Retrieved(f) \/ RetrievalFails(f)
  BY <1>4, RetrievalKeeps
<1> QED  BY <1>1, <1>2, <1>3, <1>4 DEF Next

LEMMA InductiveCorrect == Spec => [](Inductive /\ ConfirmableAnswered)
<1>1. Init => Inductive /\ ConfirmableAnswered
  BY InitInductive
<1>2. Inductive /\ ConfirmableAnswered /\ [Next]_vars => (Inductive /\ ConfirmableAnswered)'
  BY NextKeeps
<1> QED  BY <1>1, <1>2, PTL DEF Spec

-----------------------------------------------------------------------------
(* The theorems *)

\* Whatever a handler copies from a message or out of a cache has the form of a
\* message, and deduplication has one entry at the most for a message ID.
THEOREM TypeCorrect == Spec => []TypeOK
<1>1. Inductive => TypeOK
  BY DEF Inductive
<1> QED  BY <1>1, InductiveCorrect, PTL

\* No message sets off more than four in a row, and two more for each block that was
\* fetched on the way, however the two sides take turns with resets, acknowledgements
\* and requests for blocks.
THEOREM EchoEndsCorrect == Spec => []EchoEnds
<1>1. Inductive => EchoEnds
  <2> SUFFICES ASSUME Inductive, NEW p \in wire, p.hop > 4 + 2 * p.blocks, p.via = {} PROVE FALSE
    BY DEF EchoEnds
  <2>1. p.hop \in Nat /\ p.blocks \in Nat
    BY DispatchAssumption DEF Inductive, TypeOK, Packets, DispatchAssumption
  <2>2. p.hop + Rank(p.msg) <= 4 + 2 * p.blocks
    BY DEF Inductive, RankBounds
  <2> QED  BY <2>1, <2>2, RankForm
<1> QED  BY <1>1, InductiveCorrect, PTL

\* Every path of the handler acknowledges or rejects a confirmable message under its
\* own ID, but for the exceptions the property names.
THEOREM ConfirmableAnsweredCorrect == Spec => []ConfirmableAnswered
BY InductiveCorrect, PTL
=============================================================================
