------------------------------ MODULE Exchange ------------------------------
(***************************************************************************)
(* The confirmable exchange: send() (send.go), the two pending tables and  *)
(* handleAcknowledgement() (handle_ack.go).                                *)
(*                                                                         *)
(* A Send invocation performs one or more send() calls in sequence (the    *)
(* block-wise loops of Send); all of them carry the token that the first   *)
(* one drew, each gets a message ID and a reply channel of its own.  Every *)
(* datagram from the peer is handled in a goroutine of its own, which      *)
(* looks the exchange up under pendingMux and writes to its channel after  *)
(* releasing it.                                                           *)
(*                                                                         *)
(* The peer is external.  It may answer any request that reached the wire  *)
(* with an empty acknowledgement, a piggybacked response, a separate       *)
(* response or a reset, and each of these may arrive late, repeatedly, in  *)
(* any order or never: no network variable is needed for that.             *)
(***************************************************************************)
EXTENDS Integers

CONSTANTS
  Sends,          \* Send invocations; each has a token of its own
  Requests,       \* those whose message is a request (Code < 10)
  Blocks,         \* bound: send() calls each Send makes
  MaxRetransmit,  \* options.MaxRetransmit of each Send, -1 after NoRetry()
  MidSpace,       \* number of message IDs (65536 in the code)
  PeerMid,        \* message ID of the peer's separate response to a call
  NonSends,       \* bound: non-confirmable messages sent
  PeerRejects,    \* bound: the calls the peer may answer with a Reset
  None            \* a nil pointer, an absent map entry, an empty channel

Calls == UNION {{s} \X (1 .. Blocks[s]) : s \in Sends}
Mids  == 0 .. MidSpace - 1

ASSUME ExchangeAssumption ==
  /\ Blocks \in [Sends -> Nat \ {0}]
  /\ MidSpace \in Nat \ {0}
  /\ NonSends \in Nat
  /\ Requests \subseteq Sends
  /\ MaxRetransmit \in [Sends -> Nat \cup {-1}]
  /\ PeerMid \in [Calls -> Mids]
  /\ PeerRejects \subseteq Calls

(* What the peer may say to call c.  "of" is the call it answers, which    *)
(* only the peer knows; the code sees type, code, message ID and token.  A *)
(* separate response ("CON") is handled alike when it is non-confirmable.  *)
EmptyAck(c)  == [type |-> "ACK", code |-> "empty", of |-> c]
Responses(c) == IF c[1] \in Requests
                THEN {[type |-> t, code |-> "response", of |-> c] : t \in {"ACK", "CON"}}
                ELSE {}
Messages     == [type : {"ACK", "CON"}, code : {"empty", "response"}, of : Calls]

ASSUME NoneAssumption == None \notin Calls /\ None \notin Messages

VARIABLES
  nextMid,       \* Server.pendingMsgId
  pendingMap,    \* token -> the call (its pendingEntry) waiting for a response
  pendingMidMap, \* message ID -> the call waiting for an empty ACK
  seen,          \* peer message IDs in the deduplication table
  matches,       \* what each handler goroutine took from the tables, and what came of it
  chan,          \* call -> content of its one-slot channel
  idx,           \* send() calls each Send has begun
  mid,           \* call -> the message ID it was given
  retry,         \* call -> retryCount
  status,        \* call -> where its send() stands
  answer,        \* call -> the message send() returned
  transmits,     \* call -> copies put on the wire (history)
  resets,        \* calls the peer has rejected with a Reset (history)
  nons           \* non-confirmable messages sent (history, for the bound)

tables == <<pendingMap, pendingMidMap>>
frames == <<idx, mid, retry, status, answer, transmits>>
vars   == <<nextMid, tables, seen, matches, chan, frames, resets, nons>>

-----------------------------------------------------------------------------
Current(s)  == <<s, idx[s]>>
Waiting(c)  == status[c] = "waiting"
OnWire(c)   == transmits[c] > 0
PeerMidOf(m) == PeerMid[m.of]
\* The message ID a message from the peer carries: an ACK echoes the request's.
MidOf(m)    == IF m.type = "ACK" THEN mid[m.of] ELSE PeerMidOf(m)
TokenOf(m)  == m.of[1]
MatchedTo(c, code) == {x \in matches : x.to = c /\ x.msg.code = code}

\* The counter starts anywhere: at a random number of its lower half, and earlier
\* non-confirmable messages, which leave the tables empty, may have moved it.
Init ==
  /\ nextMid \in Mids
  /\ pendingMap    = [s \in Sends |-> None]
  /\ pendingMidMap = [m \in Mids |-> None]
  /\ seen = {}
  /\ matches = {}
  /\ chan      = [c \in Calls |-> None]
  /\ idx       = [s \in Sends |-> 0]
  /\ mid       = [c \in Calls |-> 0]
  /\ retry     = [c \in Calls |-> 0]
  /\ status    = [c \in Calls |-> "none"]
  /\ answer    = [c \in Calls |-> None]
  /\ transmits = [c \in Calls |-> 0]
  /\ resets = {}
  /\ nons = 0

-----------------------------------------------------------------------------
(* send() *)

\* Fault: the counter is wider than the message ID field.
PendingSaveNoWrap(c) ==
  /\ mid'           = [mid EXCEPT ![c] = nextMid]
  /\ nextMid'       = nextMid + 1
  /\ pendingMap'    = [pendingMap EXCEPT ![c[1]] = c]
  /\ pendingMidMap' = [pendingMidMap EXCEPT ![nextMid] = c]

\* pendingSave: one critical section of pendingMux.
PendingSave(c) ==
  /\ mid'           = [mid EXCEPT ![c] = nextMid]
  /\ nextMid'       = (nextMid + 1) % MidSpace
  /\ pendingMap'    = [pendingMap EXCEPT ![c[1]] = c]
  /\ pendingMidMap' = [pendingMidMap EXCEPT ![nextMid] = c]

\* Send calls send() first, and again for the next block while responses come.
Continues(s) ==
  /\ idx[s] < Blocks[s]
  /\ idx[s] > 0 =>
       status[Current(s)] = "answered" /\ answer[Current(s)].code = "response"

Begin(s, outcome, copies) ==
  LET c == <<s, idx[s] + 1>> IN
  /\ Continues(s)
  /\ idx' = [idx EXCEPT ![s] = @ + 1]
  /\ PendingSave(c)
  /\ status'    = [status EXCEPT ![c] = outcome]
  /\ transmits' = [transmits EXCEPT ![c] = copies]
  /\ UNCHANGED <<seen, matches, chan, retry, answer, resets, nons>>

Start(s)      == Begin(s, "waiting", 1)
\* The listener refuses the first write: send() returns, its entries stay.
StartFails(s) == Begin(s, "failed", 0)

\* time.After fires with retryCount < MaxRetransmit.
RetryDue(s) == idx[s] > 0 /\ Waiting(Current(s)) /\ retry[Current(s)] < MaxRetransmit[s]

Resend(s) ==
  /\ RetryDue(s)
  /\ retry'     = [retry EXCEPT ![Current(s)] = @ + 1]
  /\ transmits' = [transmits EXCEPT ![Current(s)] = @ + 1]
  /\ UNCHANGED <<tables, seen, matches, chan, idx, status, answer, resets, nons>>

\* Fault: a retransmission draws a message ID of its own.
RetransmitNewMid(s) ==
  /\ Resend(s)
  /\ mid'     = [mid EXCEPT ![Current(s)] = nextMid]
  /\ nextMid' = (nextMid + 1) % MidSpace

\* The same bytes are written again.
Retransmit(s) == Resend(s) /\ UNCHANGED <<nextMid, mid>>

RetransmitFails(s) ==
  /\ RetryDue(s)
  /\ status' = [status EXCEPT ![Current(s)] = "failed"]
  /\ UNCHANGED <<nextMid, tables, seen, matches, chan, idx, mid, retry, answer, transmits,
                 resets, nons>>

TimesOut(s) ==
  /\ idx[s] > 0
  /\ Waiting(Current(s))
  /\ status' = [status EXCEPT ![Current(s)] = "timeout"]
  /\ UNCHANGED <<nextMid, tables, seen, matches, chan, idx, mid, retry, answer, transmits,
                 resets, nons>>

\* Faults: the first timer ends the call; only a round past the last one does.
GiveUpEarly(s)     == TimesOut(s)
GiveUpPastLimit(s) == TimesOut(s) /\ retry[Current(s)] > MaxRetransmit[s]

\* time.After fires in the last wait, or after NoRetry(): ErrTimeout.
GiveUp(s) == TimesOut(s) /\ retry[Current(s)] >= MaxRetransmit[s]

\* send() returns what it takes from the channel: any response, an empty ACK of
\* something that is not a request, and whatever comes first after NoRetry().
TakeAnswer(s) ==
  LET c == Current(s) IN
  /\ idx[s] > 0
  /\ Waiting(c)
  /\ chan[c] # None
  /\ chan[c].code = "response" \/ s \notin Requests \/ MaxRetransmit[s] = -1
  /\ chan'   = [chan EXCEPT ![c] = None]
  /\ status' = [status EXCEPT ![c] = "answered"]
  /\ answer' = [answer EXCEPT ![c] = chan[c]]
  /\ UNCHANGED <<nextMid, tables, seen, matches, idx, mid, retry, transmits, resets, nons>>

\* An empty ACK of a request announces a separate response.  `continue` counts
\* it as one round of the retry loop, so in the last round the loop is over.
TakeEmptyAck(s) ==
  LET c == Current(s) IN
  /\ idx[s] > 0
  /\ Waiting(c)
  /\ chan[c] # None
  /\ chan[c].code = "empty" /\ s \in Requests /\ MaxRetransmit[s] >= 0
  /\ chan'   = [chan EXCEPT ![c] = None]
  /\ retry'  = [retry EXCEPT ![c] = @ + 1]
  /\ status' = [status EXCEPT ![c] = IF retry[c] = MaxRetransmit[s] THEN "timeout" ELSE @]
  /\ UNCHANGED <<nextMid, tables, seen, matches, idx, mid, answer, transmits, resets, nons>>

\* A non-confirmable message draws its ID from the same counter.
GetNextMsgId ==
  /\ nons < NonSends
  /\ nons' = nons + 1
  /\ nextMid' = (nextMid + 1) % MidSpace
  /\ UNCHANGED <<tables, seen, matches, chan, frames, resets>>

-----------------------------------------------------------------------------
(* handleAcknowledgement(), in the goroutine of one datagram *)

\* The entry e found under the message ID of m leaves pendingMidMap.
Claim(m, e) ==
  /\ OnWire(m.of)
  /\ e # None
  /\ pendingMidMap' = [pendingMidMap EXCEPT ![MidOf(m)] = None]
  /\ matches' = matches \cup {[to |-> e, msg |-> m, st |-> "held"]}
  /\ UNCHANGED <<nextMid, chan, frames, resets, nons>>

\* Fault: an empty ACK takes the token out of its table too.
MatchEmptyAckEndsExchange(c) ==
  LET e == pendingMidMap[mid[c]] IN
  /\ Claim(EmptyAck(c), e)
  /\ pendingMap' = [pendingMap EXCEPT ![e[1]] = None]
  /\ UNCHANGED seen

\* An empty ACK is looked up by message ID alone.
MatchEmptyAck(c) ==
  /\ Claim(EmptyAck(c), pendingMidMap[mid[c]])
  /\ UNCHANGED <<pendingMap, seen>>

\* Deduplication lets a separate response through once.
Fresh(m) == m.type = "ACK" \/ PeerMidOf(m) \notin seen
Remember(m) == seen' = IF m.type = "ACK" THEN seen ELSE seen \cup {PeerMidOf(m)}

\* Fault: the exchange is found by message ID, as an empty ACK's is.
MatchResponseByMid(m) ==
  LET e == pendingMidMap[MidOf(m)] IN
  /\ Fresh(m) /\ Remember(m)
  /\ Claim(m, e)
  /\ pendingMap' = [pendingMap EXCEPT ![e[1]] = None]

\* Fault: the entry stays in the table, so a second copy finds it again.
MatchResponseNoDelete(m) ==
  /\ Fresh(m) /\ Remember(m)
  /\ Claim(m, pendingMap[TokenOf(m)])
  /\ UNCHANGED pendingMap

\* A response is looked up by token alone.  The message ID entry deleted with
\* it is that of the datagram, which in a separate response the peer has chosen.
MatchResponse(m) ==
  /\ Fresh(m) /\ Remember(m)
  /\ Claim(m, pendingMap[TokenOf(m)])
  /\ pendingMap' = [pendingMap EXCEPT ![TokenOf(m)] = None]

\* Nobody waits under that token: only the deduplication table changes.
Unmatched(m) ==
  /\ OnWire(m.of)
  /\ m.type # "ACK"
  /\ Fresh(m)
  /\ pendingMap[TokenOf(m)] = None
  /\ Remember(m)
  /\ UNCHANGED <<nextMid, tables, matches, chan, frames, resets, nons>>

\* The non-blocking write to the channel, after the lock is released.
Deliver(x) ==
  LET put == chan[x.to] = None IN
  /\ x.st = "held"
  /\ chan' = IF put THEN [chan EXCEPT ![x.to] = x.msg] ELSE chan
  /\ matches' = (matches \ {x})
       \cup {[to |-> x.to, msg |-> x.msg, st |-> IF put THEN "pushed" ELSE "dropped"]}
  /\ UNCHANGED <<nextMid, tables, seen, frames, resets, nons>>

\* handleMessage logs a Reset and returns: nothing but the history changes.
ReceiveReset(c) ==
  /\ c \in PeerRejects
  /\ OnWire(c)
  /\ resets' = resets \cup {c}
  /\ UNCHANGED <<nextMid, tables, seen, matches, chan, frames, nons>>

\* dedupWatcher drops the peer's table once the peer has been quiet.
Purge ==
  /\ seen # {}
  /\ seen' = {}
  /\ UNCHANGED <<nextMid, tables, matches, chan, frames, resets, nons>>

-----------------------------------------------------------------------------
Sender(s) ==
  \/ Start(s) \/ StartFails(s)
  \/ Retransmit(s) \/ RetransmitFails(s) \/ GiveUp(s)
  \/ TakeAnswer(s) \/ TakeEmptyAck(s)

Handler(c) ==
  \/ MatchEmptyAck(c)
  \/ \E m \in Responses(c) : MatchResponse(m) \/ Unmatched(m)
  \/ ReceiveReset(c)

Next ==
  \/ \E s \in Sends : Sender(s)
  \/ \E c \in Calls : Handler(c)
  \/ \E x \in matches : Deliver(x)
  \/ GetNextMsgId
  \/ Purge

\* The timers of a waiting send() fire (the Go runtime guarantees it), and one
\* that was started is not abandoned.  Nothing is assumed of the peer.
Fairness == \A s \in Sends : WF_vars(Retransmit(s) \/ RetransmitFails(s) \/ GiveUp(s))

Spec     == Init /\ [][Next]_vars
FairSpec == Spec /\ Fairness

-----------------------------------------------------------------------------
(* Properties *)

Match == [to : Calls, msg : Messages, st : {"held", "pushed", "dropped"}]

\* The tables, channels and send() frames have the shapes of their Go types.
TypeOK ==
  /\ nextMid \in Mids
  /\ pendingMap \in [Sends -> Calls \cup {None}]
  /\ pendingMidMap \in [Mids -> Calls \cup {None}]
  /\ seen \subseteq Mids
  /\ matches \subseteq Match
  /\ chan \in [Calls -> Messages \cup {None}]
  /\ idx \in [Sends -> Nat]
  /\ \A s \in Sends : idx[s] <= Blocks[s]
  /\ mid \in [Calls -> Mids]
  /\ retry \in [Calls -> Nat]
  /\ status \in [Calls -> {"none", "waiting", "answered", "timeout", "failed"}]
  /\ answer \in [Calls -> Messages \cup {None}]
  /\ transmits \in [Calls -> Nat]
  /\ resets \subseteq Calls
  /\ nons \in 0 .. NonSends

\* While a send() waits and no handler has claimed its response, its token is
\* in pendingMap: no arrival at all, in no order, can make its response fall
\* through to the notification handler and be answered with a Reset.
StaysRegistered ==
  \A s \in Sends : \A i \in 1 .. Blocks[s] :
    LET c == <<s, i>> IN
    Waiting(c) /\ MatchedTo(c, "response") = {} => pendingMap[s] = c

\* A Send is handed only responses to its own requests, and none from a
\* block it has not asked for yet: concurrent Sends never swap answers.
AnswersOwnSend ==
  \A c \in Calls :
    answer[c] # None /\ answer[c].code = "response" =>
      answer[c].of[1] = c[1] /\ answer[c].of[2] <= c[2]

\* A response that found its exchange is thrown away only where an empty ACK
\* of the same exchange reached the one-slot channel; never on its own.
DropOnlyBehindEmptyAck ==
  \A x \in matches :
    x.st = "dropped" /\ x.msg.code = "response" =>
      \E y \in MatchedTo(x.to, "empty") : y.st = "pushed"

\* ErrTimeout costs the full MaxRetransmit + 1 transmissions, unless an empty
\* ACK of this exchange ended the schedule early.
TimeoutIsEarned ==
  \A c \in Calls :
    status[c] = "timeout" =>
      transmits[c] > MaxRetransmit[c[1]] \/ MatchedTo(c, "empty") # {}

\* A waiting send() whose empty ACK no handler has claimed is still found by
\* its message ID, unless a separate response carrying that number (as the
\* peer's own ID) or a later call with the same number displaced it.
EmptyAckFindsWaiter ==
  \A c \in Calls :
    /\ Waiting(c)
    /\ MatchedTo(c, "empty") = {}
    /\ MatchedTo(c, "response") = {}
    /\ pendingMidMap[mid[c]] # c
    => \/ \E x \in matches : x.msg.type # "ACK" /\ PeerMidOf(x.msg) = mid[c]
       \/ \E d \in Calls \ {c} : status[d] # "none" /\ mid[d] = mid[c]

\* Every send() that waits returns, with an answer or with an error, whatever
\* the peer and the network do: empty ACKs cannot keep the loop alive.
SendReturns ==
  \A s \in Sends : \A i \in 1 .. Blocks[s] :
    Waiting(<<s, i>>) ~> ~Waiting(<<s, i>>)

(* What a Send is for its caller.                                               *)

Result(s) ==
  IF idx[s] = 0 THEN "idle"
  ELSE IF status[Current(s)] = "timeout" THEN "failed" ELSE status[Current(s)]

\* Of the calls in order, those that have returned a message.
Answered(s) == {i \in 1 .. idx[s] : status[<<s, i>>] = "answered"}
AnswersOf(s) ==
  [i \in Answered(s) |-> IF answer[<<s, i>>].code = "empty" THEN None ELSE answer[<<s, i>>].of]

Promise == INSTANCE SendPromise WITH
  calls <- idx, result <- [s \in Sends |-> Result(s)], answers <- [s \in Sends |-> AnswersOf(s)]

\* Tables, channels, retransmissions and handlers together keep the promise of Send:
\* one call at a time, each ended once, no answer of another Send or of a later block.
ImplementsPromise == Promise!Spec
=============================================================================
