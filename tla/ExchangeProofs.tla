--------------------------- MODULE ExchangeProofs ---------------------------
(* Proofs about Exchange, for every set of Sends, every bound and every peer. *)
EXTENDS Exchange, SequenceTheorems, TLAPS

-----------------------------------------------------------------------------
(* What the safety properties rest on: with them, an invariant that every step *)
(* preserves.                                                                   *)

(* step preserves.                                                              *)

Begun(c) == c[2] <= idx[c[1]]

\* Table entries lead to the call in progress, or to an older one of that Send
\* by its message ID; a call found by its token is not claimed twice.
TablesSound ==
  /\ \A s \in Sends :
       pendingMap[s] # None =>
         /\ pendingMap[s] = Current(s)
         /\ MatchedTo(pendingMap[s], "response") = {}
  /\ \A m \in Mids : pendingMidMap[m] # None => Begun(pendingMidMap[m])

\* The calls of a Send are made one after the other.
CallsInOrder ==
  \A c \in Calls :
    /\ Waiting(c) => c = Current(c[1])
    /\ Begun(c) <=> status[c] # "none"
    /\ ~Begun(c) => transmits[c] = 0 /\ retry[c] = 0

\* A call is claimed by one response at most, to itself or to an earlier call.
MatchesSound ==
  \A x \in matches :
    /\ Begun(x.to)
    /\ x.msg.code = "response" =>
         /\ x.msg.of[1] = x.to[1] /\ x.msg.of[2] <= x.to[2]
         /\ \A y \in MatchedTo(x.to, "response") : y = x

\* What is in a channel was put there by a handler that claimed its call.
ChannelsSound ==
  \A c \in Calls :
    chan[c] # None => \E x \in matches : x.to = c /\ x.msg = chan[c] /\ x.st = "pushed"

\* A round of the retry loop is a transmission or an empty ACK.
RoundsCounted ==
  \A c \in Calls :
    Waiting(c) => transmits[c] > retry[c] \/ MatchedTo(c, "empty") # {}

Inductive ==
  /\ TypeOK
  /\ TablesSound /\ CallsInOrder /\ MatchesSound /\ ChannelsSound /\ RoundsCounted
  /\ StaysRegistered /\ AnswersOwnSend /\ DropOnlyBehindEmptyAck
  /\ TimeoutIsEarned /\ EmptyAckFindsWaiter

-----------------------------------------------------------------------------
(* What a call is made of. *)
LEMMA CallParts ==
  ASSUME NEW c \in Calls
  PROVE  /\ c[1] \in Sends
         /\ c[2] \in 1 .. Blocks[c[1]]
         /\ c = <<c[1], c[2]>>
BY DEF Calls

LEMMA IsCall ==
  ASSUME NEW s \in Sends, NEW i \in 1 .. Blocks[s]
  PROVE  <<s, i>> \in Calls
BY DEF Calls

LEMMA CurrentIsCall ==
  ASSUME TypeOK, NEW s \in Sends, idx[s] > 0
  PROVE  Current(s) \in Calls
BY IsCall, ExchangeAssumption DEF TypeOK, Current

(* The next message ID is one, after the wrap as before it. *)
LEMMA NextMid ==
  ASSUME NEW m \in Mids
  PROVE  (m + 1) % MidSpace \in Mids
BY ExchangeAssumption DEF Mids

(* What the peer sends is a message with a message ID. *)
LEMMA MessageParts ==
  ASSUME TypeOK, NEW c \in Calls, NEW m \in {EmptyAck(c)} \cup Responses(c)
  PROVE  /\ m \in Messages
         /\ m.of = c
         /\ MidOf(m) \in Mids
         /\ TokenOf(m) \in Sends
<1>1. m \in Messages /\ m.of = c
  BY DEF EmptyAck, Responses, Messages
<1>2. MidOf(m) \in Mids
  BY <1>1, ExchangeAssumption DEF TypeOK, MidOf, PeerMidOf
<1>3. TokenOf(m) \in Sends
  BY <1>1, CallParts DEF TokenOf
<1> QED
  BY <1>1, <1>2, <1>3

-----------------------------------------------------------------------------
(* The tables, channels and frames keep their types, whatever arrives. *)

LEMMA TypeInit == Init => TypeOK
BY ExchangeAssumption, CallParts DEF Init, TypeOK, Mids

LEMMA TypeNext == TypeOK /\ [Next]_vars => TypeOK'
<1> SUFFICES ASSUME TypeOK, [Next]_vars
             PROVE  TypeOK'
  OBVIOUS
<1>1. ASSUME NEW s \in Sends, NEW outcome \in {"waiting", "failed"}, NEW copies \in Nat,
             Begin(s, outcome, copies)
      PROVE  TypeOK'
  <2> DEFINE c == <<s, idx[s] + 1>>
  <2>0. idx[s] \in Nat /\ Blocks[s] \in Nat /\ idx[s] < Blocks[s]
    BY <1>1, ExchangeAssumption DEF Begin, Continues, TypeOK
  <2>1. c \in Calls
    BY <2>0, IsCall
  <2>2. nextMid' \in Mids
    BY <1>1, NextMid DEF Begin, PendingSave, TypeOK
  <2>3. idx' \in [Sends -> Nat] /\ \A t \in Sends : idx'[t] <= Blocks[t]
    <3>1. idx' = [idx EXCEPT ![s] = idx[s] + 1]
      BY <1>1 DEF Begin
    <3> QED
      BY <2>0, <3>1 DEF TypeOK
  <2> QED
    BY <1>1, <2>1, <2>2, <2>3 DEF Begin, PendingSave, TypeOK
<1>2. ASSUME NEW s \in Sends, Retransmit(s) \/ RetransmitFails(s)
      PROVE  TypeOK'
  <2>1. Current(s) \in Calls
    BY <1>2, CurrentIsCall DEF Retransmit, Resend, RetransmitFails, RetryDue
  <2> QED
    BY <1>2, <2>1 DEF Retransmit, Resend, RetransmitFails, TypeOK, tables
<1>3. ASSUME NEW s \in Sends, GiveUp(s)
      PROVE  TypeOK'
  <2>1. Current(s) \in Calls
    BY <1>3, CurrentIsCall DEF GiveUp, TimesOut
  <2> QED
    BY <1>3, <2>1 DEF GiveUp, TimesOut, TypeOK, tables
<1>4. ASSUME NEW s \in Sends, TakeAnswer(s) \/ TakeEmptyAck(s)
      PROVE  TypeOK'
  <2>1. Current(s) \in Calls
    BY <1>4, CurrentIsCall DEF TakeAnswer, TakeEmptyAck
  <2> QED
    BY <1>4, <2>1 DEF TakeAnswer, TakeEmptyAck, TypeOK, tables
<1>5. ASSUME NEW c \in Calls, NEW m \in {EmptyAck(c)} \cup Responses(c),
             NEW e, e \in Calls \cup {None}, Claim(m, e)
      PROVE  /\ pendingMidMap' \in [Mids -> Calls \cup {None}]
             /\ matches' \subseteq Match
  <2>1. m \in Messages /\ MidOf(m) \in Mids
    BY MessageParts
  <2>2. [to |-> e, msg |-> m, st |-> "held"] \in Match
    BY <1>5, <2>1 DEF Claim, Match
  <2> QED
    BY <1>5, <2>1, <2>2 DEF Claim, TypeOK
<1>6. ASSUME NEW c \in Calls, MatchEmptyAck(c)
      PROVE  TypeOK'
  <2>1. pendingMidMap[mid[c]] \in Calls \cup {None}
    BY DEF TypeOK
  <2>2. /\ pendingMidMap' \in [Mids -> Calls \cup {None}]
        /\ matches' \subseteq Match
    BY <1>5, <1>6, <2>1 DEF MatchEmptyAck
  <2> QED
    BY <1>6, <2>2 DEF MatchEmptyAck, Claim, TypeOK, frames
<1>7. ASSUME NEW c \in Calls, NEW m \in Responses(c), MatchResponse(m) \/ Unmatched(m)
      PROVE  TypeOK'
  <2>1. MidOf(m) \in Mids /\ TokenOf(m) \in Sends /\ m.of \in Calls
    BY MessageParts
  <2>2. seen' \subseteq Mids
    BY <1>7, <2>1, ExchangeAssumption
       DEF MatchResponse, Unmatched, Remember, PeerMidOf, TypeOK
  <2>3. CASE MatchResponse(m)
    <3>1. pendingMap[TokenOf(m)] \in Calls \cup {None}
      BY <2>1 DEF TypeOK
    <3>2. /\ pendingMidMap' \in [Mids -> Calls \cup {None}]
          /\ matches' \subseteq Match
      BY <1>5, <2>3, <3>1 DEF MatchResponse
    <3> QED
      BY <2>2, <2>3, <3>2 DEF MatchResponse, Claim, TypeOK, frames
  <2>4. CASE Unmatched(m)
    BY <2>2, <2>4 DEF Unmatched, TypeOK, frames, tables
  <2> QED
    BY <1>7, <2>3, <2>4
<1>8. ASSUME NEW x \in matches, Deliver(x)
      PROVE  TypeOK'
  <2>1. x \in Match /\ x.to \in Calls /\ x.msg \in Messages
    BY DEF TypeOK, Match
  <2>2. \A v \in {"pushed", "dropped"} : [to |-> x.to, msg |-> x.msg, st |-> v] \in Match
    BY <2>1 DEF Match
  <2>3. matches' \subseteq Match
    BY <1>8, <2>2 DEF Deliver, TypeOK
  <2>4. chan' \in [Calls -> Messages \cup {None}]
    BY <1>8, <2>1 DEF Deliver, TypeOK
  <2> QED
    BY <1>8, <2>3, <2>4 DEF Deliver, TypeOK, frames, tables
<1>9. CASE GetNextMsgId
  <2>1. nextMid' \in Mids
    BY <1>9, NextMid DEF GetNextMsgId, TypeOK
  <2> QED
    BY <1>9, <2>1, ExchangeAssumption DEF GetNextMsgId, TypeOK, frames, tables
<1>10. ASSUME NEW c \in Calls, ReceiveReset(c)
       PROVE  TypeOK'
  BY <1>10 DEF ReceiveReset, TypeOK, frames, tables
<1>11. CASE Purge
  BY <1>11 DEF Purge, TypeOK, frames, tables
<1>12. CASE UNCHANGED vars
  BY <1>12 DEF vars, TypeOK, frames, tables
<1>13. ASSUME NEW s \in Sends, Start(s) \/ StartFails(s)
       PROVE  TypeOK'
  BY <1>1, <1>13 DEF Start, StartFails
<1> QED
  BY <1>2, <1>3, <1>4, <1>6, <1>7, <1>8, <1>9, <1>10, <1>11, <1>12, <1>13
     DEF Next, Sender, Handler

\* Every reachable state is well typed: no arrival, wrap of the message ID
\* counter or failed write leaves the tables in another shape.
THEOREM TypeCorrect == Spec => []TypeOK
<1>1. Init => TypeOK
  BY TypeInit
<1>2. TypeOK /\ [Next]_vars => TypeOK'
  BY TypeNext
<1> QED
  BY <1>1, <1>2, PTL DEF Spec

-----------------------------------------------------------------------------
(* The inductive invariant, action by action. *)

LEMMA InductiveInit == Init => Inductive
<1> SUFFICES ASSUME Init PROVE Inductive
  OBVIOUS
<1>1. TypeOK
  BY TypeInit
<1>2. \A c \in Calls : c[1] \in Sends /\ idx[c[1]] = 0 /\ c[2] \in Nat /\ c[2] > 0
  BY CallParts, ExchangeAssumption DEF Init
<1>3. TablesSound /\ CallsInOrder
  BY <1>2 DEF Init, TablesSound, CallsInOrder, Begun, Waiting
<1>6. MatchesSound /\ ChannelsSound /\ RoundsCounted
  BY DEF Init, MatchesSound, ChannelsSound, RoundsCounted, Waiting
<1>4. StaysRegistered /\ AnswersOwnSend /\ DropOnlyBehindEmptyAck
  BY IsCall DEF Init, StaysRegistered, AnswersOwnSend, DropOnlyBehindEmptyAck, Waiting
<1>5. TimeoutIsEarned /\ EmptyAckFindsWaiter
  BY DEF Init, TimeoutIsEarned, EmptyAckFindsWaiter, Waiting
<1> QED
  BY <1>1, <1>3, <1>4, <1>5, <1>6 DEF Inductive

(* A new call: the entries it overwrites are those of finished calls. *)
LEMMA BeginStep ==
  ASSUME Inductive, TypeOK', NEW s \in Sends, NEW outcome \in {"waiting", "failed"},
         NEW copies \in Nat, outcome = "waiting" => copies > 0, Begin(s, outcome, copies)
  PROVE  Inductive'
<1> DEFINE c == <<s, idx[s] + 1>>
<1>1. /\ idx[s] \in Nat /\ c \in Calls /\ c[1] = s /\ c[2] = idx[s] + 1
      /\ idx' = [idx EXCEPT ![s] = idx[s] + 1]
      /\ idx \in [Sends -> Nat]
  BY IsCall, ExchangeAssumption DEF Begin, Continues, Inductive, TypeOK
<1>2. /\ ~Begun(c) /\ status[c] = "none" /\ transmits[c] = 0 /\ retry[c] = 0
  BY <1>1 DEF Inductive, CallsInOrder, Begun
<1>3. \A d \in Calls : Begun(d)' <=> Begun(d) \/ d = c
  BY <1>1, CallParts DEF Begun
<1>4. \A d \in Calls : d[1] = s => ~Waiting(d)
  BY <1>1, CallParts DEF Inductive, CallsInOrder, Begin, Continues, Waiting, Current
<1>5. /\ status' = [status EXCEPT ![c] = outcome]
      /\ transmits' = [transmits EXCEPT ![c] = copies]
      /\ mid' = [mid EXCEPT ![c] = nextMid]
      /\ pendingMap' = [pendingMap EXCEPT ![s] = c]
      /\ pendingMidMap' = [pendingMidMap EXCEPT ![nextMid] = c]
      /\ matches' = matches /\ chan' = chan /\ retry' = retry /\ answer' = answer
  BY <1>1 DEF Begin, PendingSave
<1>6. \A x \in matches : x.to \in Calls /\ Begun(x.to) /\ x.to # c
  BY <1>2 DEF Inductive, MatchesSound, TypeOK, Match
<1>7. /\ Current(s)' = c
      /\ \A t \in Sends \ {s} : Current(t)' = Current(t)
  BY <1>1 DEF Current
<1>8. TablesSound'
  <2>1. ASSUME NEW t \in Sends, pendingMap'[t] # None
        PROVE  /\ pendingMap'[t] = Current(t)'
               /\ MatchedTo(pendingMap[t], "response")' = {}
    <3>1. CASE t = s
      BY <1>1, <1>5, <1>6, <1>7, <3>1 DEF Inductive, MatchedTo, TypeOK
    <3>2. CASE t # s
      BY <1>5, <1>7, <2>1, <3>2 DEF Inductive, TablesSound, MatchedTo, TypeOK
    <3> QED
      BY <3>1, <3>2
  <2>2. ASSUME NEW m \in Mids, pendingMidMap'[m] # None
        PROVE  Begun(pendingMidMap[m])'
    <3>1. pendingMidMap'[m] = IF m = nextMid THEN c ELSE pendingMidMap[m]
      BY <1>5 DEF Inductive, TypeOK
    <3>2. pendingMidMap'[m] \in Calls
      BY <2>2 DEF TypeOK
    <3> QED
      BY <1>1, <1>3, <2>2, <3>1, <3>2 DEF Inductive, TablesSound, Begun
  <2> QED
    BY <2>1, <2>2 DEF TablesSound
<1>9. CallsInOrder'
  BY <1>1, <1>2, <1>3, <1>4, <1>5, <1>7, CallParts
     DEF Inductive, CallsInOrder, Waiting, TypeOK
<1>10. MatchesSound'
  BY <1>3, <1>5, <1>6 DEF Inductive, MatchesSound, MatchedTo
<1>11. ChannelsSound'
  BY <1>5 DEF Inductive, ChannelsSound
<1>12. RoundsCounted'
  <2> SUFFICES ASSUME NEW d \in Calls, Waiting(d)'
               PROVE  transmits'[d] > retry'[d] \/ MatchedTo(d, "empty")' # {}
    BY DEF RoundsCounted
  <2>1. CASE d = c
    <3>1. status'[c] = "waiting" /\ status'[c] = outcome
      BY <1>1, <1>5, <2>1 DEF Inductive, TypeOK, Waiting
    <3>2. transmits'[c] = copies /\ retry'[c] = 0
      BY <1>1, <1>2, <1>5 DEF Inductive, TypeOK
    <3> QED
      BY <2>1, <3>1, <3>2
  <2>2. CASE d # c
    <3>1. Waiting(d) /\ transmits'[d] = transmits[d] /\ retry'[d] = retry[d]
      BY <1>5, <2>2 DEF Inductive, Waiting, TypeOK
    <3>2. MatchedTo(d, "empty")' = MatchedTo(d, "empty")
      BY <1>5 DEF MatchedTo
    <3> QED
      BY <3>1, <3>2 DEF Inductive, RoundsCounted
  <2> QED
    BY <2>1, <2>2
<1>13. StaysRegistered'
  <2> SUFFICES ASSUME NEW t \in Sends, NEW i \in 1 .. Blocks[t], Waiting(<<t, i>>)',
                      MatchedTo(<<t, i>>, "response")' = {}
               PROVE  pendingMap'[t] = <<t, i>>
    BY DEF StaysRegistered
  <2>1. CASE <<t, i>> = c
    BY <1>1, <1>5, <2>1 DEF Inductive, TypeOK
  <2>2. CASE <<t, i>> # c
    <3>1. <<t, i>> \in Calls /\ Waiting(<<t, i>>) /\ MatchedTo(<<t, i>>, "response") = {}
      BY <1>1, <1>5, <2>2, IsCall DEF Inductive, TypeOK, Waiting, MatchedTo
    <3>2. t # s
      BY <1>4, <3>1
    <3> QED
      BY <1>5, <3>1, <3>2 DEF Inductive, StaysRegistered, TypeOK
  <2> QED
    BY <2>1, <2>2
<1>14. AnswersOwnSend' /\ DropOnlyBehindEmptyAck'
  BY <1>5 DEF Inductive, AnswersOwnSend, DropOnlyBehindEmptyAck, MatchedTo
<1>15. TimeoutIsEarned'
  BY <1>1, <1>5 DEF Inductive, TimeoutIsEarned, MatchedTo, TypeOK
<1>16. EmptyAckFindsWaiter'
  <2> SUFFICES ASSUME NEW d \in Calls, Waiting(d)', MatchedTo(d, "empty")' = {},
                      MatchedTo(d, "response")' = {}, pendingMidMap'[mid'[d]] # d
               PROVE  \/ \E x \in matches' :
                           x.msg.type # "ACK" /\ PeerMidOf(x.msg) = mid'[d]
                      \/ \E b \in Calls \ {d} : status'[b] # "none" /\ mid'[b] = mid'[d]
    BY DEF EmptyAckFindsWaiter, PeerMidOf
  <2>1. d # c
    BY <1>1, <1>5 DEF Inductive, TypeOK
  <2>2. mid'[d] = mid[d] /\ Waiting(d) /\ MatchedTo(d, "empty") = {}
        /\ MatchedTo(d, "response") = {}
    BY <1>1, <1>5, <2>1 DEF Inductive, TypeOK, Waiting, MatchedTo
  <2>3. CASE mid[d] = nextMid
    BY <1>1, <1>5, <2>1, <2>2, <2>3 DEF Inductive, TypeOK
  <2>4. CASE mid[d] # nextMid
    <3>1. pendingMidMap[mid[d]] # d
      BY <1>5, <2>2, <2>4 DEF Inductive, TypeOK
    <3>2. \A b \in Calls : status[b] # "none" => b # c /\ status'[b] # "none" /\ mid'[b] = mid[b]
      BY <1>1, <1>2, <1>5 DEF Inductive, TypeOK
    <3> QED
      BY <1>5, <2>2, <3>1, <3>2 DEF Inductive, EmptyAckFindsWaiter
  <2> QED
    BY <2>3, <2>4
<1> QED
  BY <1>8, <1>9, <1>10, <1>11, <1>12, <1>13, <1>14, <1>15, <1>16 DEF Inductive

(* The timer of a waiting call fires: nothing but its frame changes. *)
LEMMA TimerStep ==
  ASSUME Inductive, TypeOK', NEW s \in Sends,
         Retransmit(s) \/ RetransmitFails(s) \/ GiveUp(s)
  PROVE  Inductive'
<1> DEFINE c == Current(s)
<1>1. c \in Calls /\ Waiting(c) /\ status[c] # "none"
  BY CurrentIsCall
     DEF Inductive, Retransmit, Resend, RetransmitFails, RetryDue, GiveUp, TimesOut, Waiting
<1>2. /\ pendingMap' = pendingMap /\ pendingMidMap' = pendingMidMap
      /\ matches' = matches /\ chan' = chan /\ answer' = answer /\ idx' = idx /\ mid' = mid
  BY DEF Retransmit, Resend, RetransmitFails, RetryDue, GiveUp, TimesOut, tables
<1>3. \/ /\ status' = status
         /\ retry' = [retry EXCEPT ![c] = @ + 1]
         /\ transmits' = [transmits EXCEPT ![c] = @ + 1]
      \/ /\ status' = [status EXCEPT ![c] = "failed"]
         /\ retry' = retry /\ transmits' = transmits
      \/ /\ status' = [status EXCEPT ![c] = "timeout"]
         /\ retry[c] >= MaxRetransmit[s]
         /\ retry' = retry /\ transmits' = transmits
  BY DEF Retransmit, Resend, RetransmitFails, RetryDue, GiveUp, TimesOut
<1>4. \A d \in Calls : /\ Waiting(d)' => Waiting(d)
                       /\ status'[d] # "none" <=> status[d] # "none"
  BY <1>1, <1>3 DEF Inductive, TypeOK, Waiting
<1>5. TablesSound'
  BY <1>2 DEF Inductive, TablesSound, Current, MatchedTo, Begun
<1>6. CallsInOrder'
  <2>1. \A d \in Calls : ~Begun(d) => d # c
    BY <1>1 DEF Inductive, CallsInOrder
  <2>2. \A d \in Calls : d # c => transmits'[d] = transmits[d] /\ retry'[d] = retry[d]
    BY <1>3 DEF Inductive, TypeOK
  <2> QED
    BY <1>2, <1>4, <2>1, <2>2 DEF Inductive, CallsInOrder, Current, Begun
<1>7. MatchesSound' /\ ChannelsSound'
  BY <1>2 DEF Inductive, MatchesSound, ChannelsSound, MatchedTo, Begun
<1>8. RoundsCounted'
  BY <1>1, <1>2, <1>3, <1>4 DEF Inductive, RoundsCounted, MatchedTo, TypeOK
<1>9. StaysRegistered' /\ EmptyAckFindsWaiter'
  BY <1>2, <1>4, IsCall
     DEF Inductive, StaysRegistered, EmptyAckFindsWaiter, MatchedTo, PeerMidOf
<1>10. AnswersOwnSend' /\ DropOnlyBehindEmptyAck'
  BY <1>2 DEF Inductive, AnswersOwnSend, DropOnlyBehindEmptyAck, MatchedTo
<1>11. TimeoutIsEarned'
  <2>1. ASSUME NEW d \in Calls, status'[d] = "timeout"
        PROVE  transmits'[d] > MaxRetransmit[d[1]] \/ MatchedTo(d, "empty")' # {}
    <3>1. CASE status[d] = "timeout"
      BY <1>1, <1>2, <1>3, <3>1 DEF Inductive, TimeoutIsEarned, MatchedTo, TypeOK, Waiting
    <3>2. CASE status[d] # "timeout"
      <4>1. d = c /\ retry[c] >= MaxRetransmit[s] /\ transmits' = transmits
        BY <1>1, <1>3, <2>1, <3>2 DEF Inductive, TypeOK
      <4>2. transmits[c] > retry[c] \/ MatchedTo(c, "empty") # {}
        BY <1>1 DEF Inductive, RoundsCounted
      <4> QED
        BY <1>1, <1>2, <4>1, <4>2, ExchangeAssumption
           DEF Inductive, TypeOK, MatchedTo, Current
    <3> QED
      BY <3>1, <3>2
  <2> QED
    BY <2>1 DEF TimeoutIsEarned
<1> QED
  BY <1>5, <1>6, <1>7, <1>8, <1>9, <1>10, <1>11 DEF Inductive

(* A waiting call reads its channel: an answer ends it, an empty ACK of a *)
(* request ends it in the last round only.                                *)
LEMMA TakeStep ==
  ASSUME Inductive, TypeOK', NEW s \in Sends, TakeAnswer(s) \/ TakeEmptyAck(s)
  PROVE  Inductive'
<1> DEFINE c == Current(s)
<1>1. c \in Calls /\ Waiting(c) /\ status[c] # "none" /\ chan[c] # None
  BY CurrentIsCall DEF Inductive, TakeAnswer, TakeEmptyAck, Waiting
<1>2. /\ pendingMap' = pendingMap /\ pendingMidMap' = pendingMidMap
      /\ matches' = matches /\ idx' = idx /\ mid' = mid /\ transmits' = transmits
      /\ chan' = [chan EXCEPT ![c] = None]
  BY DEF TakeAnswer, TakeEmptyAck, tables
<1>3. \/ /\ status' = [status EXCEPT ![c] = "answered"]
         /\ answer' = [answer EXCEPT ![c] = chan[c]]
         /\ retry' = retry
      \/ /\ chan[c].code = "empty"
         /\ status' = [status EXCEPT ![c] = IF retry[c] = MaxRetransmit[s] THEN "timeout" ELSE @]
         /\ retry' = [retry EXCEPT ![c] = @ + 1]
         /\ answer' = answer
  BY DEF TakeAnswer, TakeEmptyAck
<1>4. \A d \in Calls : /\ Waiting(d)' => Waiting(d)
                       /\ status'[d] # "none" <=> status[d] # "none"
  BY <1>1, <1>3 DEF Inductive, TypeOK, Waiting
<1>5. PICK x \in matches : x.to = c /\ x.msg = chan[c] /\ x.st = "pushed"
  BY <1>1 DEF Inductive, ChannelsSound
<1>6. chan[c].code = "empty" => MatchedTo(c, "empty") # {}
  BY <1>5 DEF MatchedTo
<1>7. TablesSound' /\ MatchesSound'
  BY <1>2 DEF Inductive, TablesSound, MatchesSound, Current, MatchedTo, Begun
<1>8. CallsInOrder'
  <2>1. \A d \in Calls : ~Begun(d) => d # c
    BY <1>1 DEF Inductive, CallsInOrder
  <2>2. \A d \in Calls : d # c => retry'[d] = retry[d]
    BY <1>3 DEF Inductive, TypeOK
  <2> QED
    BY <1>2, <1>4, <2>1, <2>2 DEF Inductive, CallsInOrder, Current, Begun
<1>9. ChannelsSound'
  BY <1>1, <1>2, NoneAssumption DEF Inductive, ChannelsSound, TypeOK
<1>10. RoundsCounted'
  BY <1>1, <1>2, <1>3, <1>4, <1>6 DEF Inductive, RoundsCounted, MatchedTo, TypeOK
<1>11. StaysRegistered' /\ EmptyAckFindsWaiter'
  BY <1>2, <1>4, IsCall
     DEF Inductive, StaysRegistered, EmptyAckFindsWaiter, MatchedTo, PeerMidOf
<1>12. AnswersOwnSend'
  BY <1>1, <1>3, <1>5 DEF Inductive, AnswersOwnSend, MatchesSound, TypeOK
<1>13. DropOnlyBehindEmptyAck'
  BY <1>2 DEF Inductive, DropOnlyBehindEmptyAck, MatchedTo
<1>14. TimeoutIsEarned'
  BY <1>1, <1>2, <1>3, <1>6 DEF Inductive, TimeoutIsEarned, MatchedTo, TypeOK
<1> QED
  BY <1>7, <1>8, <1>9, <1>10, <1>11, <1>12, <1>13, <1>14 DEF Inductive

(* A handler claims call e for message m: what holds whichever table it used. *)
LEMMA ClaimStep ==
  ASSUME Inductive, TypeOK', NEW b \in Calls, NEW m \in {EmptyAck(b)} \cup Responses(b),
         NEW e \in Calls, Claim(m, e), Begun(e),
         m.code = "response" => m.of[1] = e[1] /\ b[2] <= e[2] /\ MatchedTo(e, "response") = {},
         \A s \in Sends : pendingMap'[s] = pendingMap[s]
                          \/ (pendingMap'[s] = None /\ m.code = "response" /\ e[1] = s),
         m.code = "response" => pendingMap'[e[1]] = None /\ pendingMap[e[1]] = e,
         m.code = "empty" => pendingMidMap[mid[b]] = e
  PROVE  Inductive'
<1> DEFINE new == [to |-> e, msg |-> m, st |-> "held"]
<1>1. /\ pendingMidMap' = [pendingMidMap EXCEPT ![MidOf(m)] = None]
      /\ matches' = matches \cup {new}
      /\ idx' = idx /\ mid' = mid /\ retry' = retry /\ status' = status
      /\ answer' = answer /\ transmits' = transmits /\ chan' = chan
      /\ OnWire(b)
  BY MessageParts DEF Claim, frames, Inductive
<1>2. /\ m \in Messages /\ m.of = b /\ MidOf(m) \in Mids
      /\ m.code \in {"empty", "response"}
      /\ m.code = "empty" => m.type = "ACK"
  BY MessageParts DEF Inductive, Messages, EmptyAck, Responses
<1>3. /\ \A d \in Calls : d # e => /\ MatchedTo(d, "empty")' = MatchedTo(d, "empty")
                                   /\ MatchedTo(d, "response")' = MatchedTo(d, "response")
      /\ m.code = "empty" => MatchedTo(e, "response")' = MatchedTo(e, "response")
      /\ new \in MatchedTo(e, m.code)'
      /\ \A d \in Calls : /\ MatchedTo(d, "empty") \subseteq MatchedTo(d, "empty")'
                          /\ MatchedTo(d, "response") \subseteq MatchedTo(d, "response")'
  BY <1>1, <1>2 DEF MatchedTo
<1>4. \A d \in Calls : Waiting(d)' = Waiting(d) /\ Begun(d)' = Begun(d)
  BY <1>1 DEF Waiting, Begun
<1>5. e[1] \in Sends
  BY CallParts
<1>6. TablesSound'
  <2>1. ASSUME NEW s \in Sends, pendingMap'[s] # None
        PROVE  /\ pendingMap'[s] = Current(s)'
               /\ MatchedTo(pendingMap[s], "response")' = {} /\ pendingMap'[s] = pendingMap[s]
    <3>1. /\ pendingMap'[s] = pendingMap[s] /\ pendingMap[s] \in Calls
          /\ pendingMap[s] = Current(s) /\ MatchedTo(pendingMap[s], "response") = {}
      BY <2>1 DEF Inductive, TablesSound, TypeOK
    <3>2. CASE m.code = "response"
      <4>1. pendingMap[s] # e
        BY <1>5, <2>1, <3>1, <3>2 DEF Current
      <4> QED
        BY <1>1, <1>3, <3>1, <4>1 DEF Current
    <3>3. CASE m.code = "empty"
      BY <1>1, <1>3, <3>1, <3>3 DEF Current
    <3> QED
      BY <1>2, <3>2, <3>3
  <2>2. ASSUME NEW n \in Mids, pendingMidMap'[n] # None
        PROVE  Begun(pendingMidMap[n])' /\ pendingMidMap'[n] = pendingMidMap[n]
    BY <1>1, <2>2 DEF Inductive, TablesSound, TypeOK, Begun
  <2> QED
    BY <2>1, <2>2 DEF TablesSound, MatchedTo, Begun
<1>7. CallsInOrder'
  BY <1>1, <1>4 DEF Inductive, CallsInOrder, Current
<1>8. MatchesSound'
  BY <1>1, <1>2, <1>4 DEF Inductive, MatchesSound, MatchedTo, Begun
<1>9. ChannelsSound'
  BY <1>1 DEF Inductive, ChannelsSound
<1>10. RoundsCounted'
  BY <1>1, <1>3, <1>4 DEF Inductive, RoundsCounted
<1>11. StaysRegistered'
  <2> SUFFICES ASSUME NEW t \in Sends, NEW i \in 1 .. Blocks[t], Waiting(<<t, i>>)',
                      MatchedTo(<<t, i>>, "response")' = {}
               PROVE  pendingMap'[t] = <<t, i>>
    BY DEF StaysRegistered
  <2>1. <<t, i>> \in Calls
    BY IsCall
  <2>2. pendingMap[t] = <<t, i>>
    BY <1>3, <1>4, <2>1 DEF Inductive, StaysRegistered
  <2>3. m.code = "response" => <<t, i>> # e
    BY <1>3
  <2>4. pendingMap'[t] = pendingMap[t]
    BY <2>2, <2>3
  <2> QED
    BY <2>2, <2>4
<1>12. AnswersOwnSend' /\ DropOnlyBehindEmptyAck'
  BY <1>1, <1>3 DEF Inductive, AnswersOwnSend, DropOnlyBehindEmptyAck, MatchedTo
<1>13. TimeoutIsEarned'
  BY <1>1, <1>3 DEF Inductive, TimeoutIsEarned
<1>14. EmptyAckFindsWaiter'
  <2> SUFFICES ASSUME NEW d \in Calls, Waiting(d)', MatchedTo(d, "empty")' = {},
                      MatchedTo(d, "response")' = {}, pendingMidMap'[mid'[d]] # d
               PROVE  \/ \E x \in matches' :
                           x.msg.type # "ACK" /\ PeerMidOf(x.msg) = mid'[d]
                      \/ \E f \in Calls \ {d} : status'[f] # "none" /\ mid'[f] = mid'[d]
    BY DEF EmptyAckFindsWaiter, PeerMidOf
  <2>1. d # e
    BY <1>2, <1>3
  <2>2. Waiting(d) /\ MatchedTo(d, "empty") = {} /\ MatchedTo(d, "response") = {}
    BY <1>3, <1>4
  <2>3. CASE pendingMidMap[mid[d]] # d
    BY <1>1, <2>2, <2>3 DEF Inductive, EmptyAckFindsWaiter
  <2>4. CASE pendingMidMap[mid[d]] = d
    <3>1. MidOf(m) = mid[d]
      BY <1>1, <2>4 DEF Inductive, TypeOK
    <3>2. CASE m.type # "ACK"
      <4>1. new \in matches' /\ new.msg = m
        BY <1>1
      <4>2. PeerMid[new.msg.of] = mid'[d]
        BY <1>1, <3>1, <3>2, <4>1 DEF MidOf, PeerMidOf
      <4> QED
        BY <3>2, <4>1, <4>2 DEF PeerMidOf
    <3>3. CASE m.type = "ACK"
      <4>1. mid[b] = mid[d]
        BY <1>2, <3>1, <3>3 DEF MidOf
      <4>2. b # d
        <5>1. CASE m.code = "empty"
          BY <2>1, <2>4, <5>1
        <5>2. CASE m.code = "response" /\ b = d
          <6>1. d[1] \in Sends /\ d[2] \in 1 .. Blocks[d[1]] /\ d = <<d[1], d[2]>>
            BY CallParts
          <6>2. pendingMap[d[1]] = d
            BY <2>2, <6>1 DEF Inductive, StaysRegistered
          <6>3. e[1] = d[1]
            BY <1>2, <5>2
          <6> QED
            BY <2>1, <5>2, <6>2, <6>3
        <5> QED
          BY <1>2, <5>1, <5>2
      <4>3. status[b] # "none"
        BY <1>1 DEF Inductive, CallsInOrder, OnWire, TypeOK
      <4> QED
        BY <1>1, <4>1, <4>2, <4>3
    <3> QED
      BY <3>2, <3>3
  <2> QED
    BY <2>3, <2>4
<1> QED
  BY <1>6, <1>7, <1>8, <1>9, <1>10, <1>11, <1>12, <1>13, <1>14 DEF Inductive

LEMMA MatchEmptyAckStep ==
  ASSUME Inductive, TypeOK', NEW b \in Calls, MatchEmptyAck(b)
  PROVE  Inductive'
<1> DEFINE m == EmptyAck(b)
           e == pendingMidMap[mid[b]]
<1>1. e \in Calls /\ Begun(e) /\ pendingMap' = pendingMap /\ Claim(m, e)
  BY DEF MatchEmptyAck, Claim, Inductive, TypeOK, TablesSound
<1>2. m.code = "empty" /\ m \in {EmptyAck(b)} \cup Responses(b)
  BY DEF EmptyAck
<1>3. e = pendingMidMap[mid[b]]
  OBVIOUS
<1>4. /\ m.code = "response" => m.of[1] = e[1] /\ b[2] <= e[2] /\ MatchedTo(e, "response") = {}
      /\ m.code = "response" => pendingMap'[e[1]] = None /\ pendingMap[e[1]] = e
  BY <1>2
<1>5. \A s \in Sends : pendingMap'[s] = pendingMap[s]
                       \/ (pendingMap'[s] = None /\ m.code = "response" /\ e[1] = s)
  BY <1>1
<1> HIDE DEF e, m
<1> QED
  BY <1>1, <1>2, <1>3, <1>4, <1>5, ClaimStep

LEMMA MatchResponseStep ==
  ASSUME Inductive, TypeOK', NEW b \in Calls, NEW m \in Responses(b), MatchResponse(m)
  PROVE  Inductive'
<1> DEFINE e == pendingMap[TokenOf(m)]
<1>1. /\ m.of = b /\ TokenOf(m) = b[1] /\ b[1] \in Sends /\ m.code = "response"
      /\ m \in {EmptyAck(b)} \cup Responses(b)
  BY CallParts DEF Responses, TokenOf
<1>2. /\ e \in Calls /\ Claim(m, e) /\ OnWire(b)
      /\ pendingMap' = [pendingMap EXCEPT ![b[1]] = None]
  BY <1>1 DEF MatchResponse, Claim, Inductive, TypeOK
<1>3. e = Current(b[1]) /\ MatchedTo(e, "response") = {}
  BY <1>1 DEF MatchResponse, Claim, Inductive, TablesSound
<1>4. e[1] = b[1] /\ e[2] = idx[b[1]] /\ idx[b[1]] \in Nat
  BY <1>1, <1>3 DEF Current, Inductive, TypeOK
<1>5. b[2] <= e[2] /\ Begun(e)
  BY <1>2, <1>4 DEF Inductive, CallsInOrder, Begun, OnWire, TypeOK
<1>6. pendingMap'[b[1]] = None /\ \A s \in Sends : s # b[1] => pendingMap'[s] = pendingMap[s]
  BY <1>1, <1>2 DEF Inductive, TypeOK
<1>7. /\ m.code = "response" => m.of[1] = e[1] /\ b[2] <= e[2] /\ MatchedTo(e, "response") = {}
      /\ m.code = "response" => pendingMap'[e[1]] = None /\ pendingMap[e[1]] = e
  BY <1>1, <1>3, <1>4, <1>5, <1>6
<1>8. \A s \in Sends : pendingMap'[s] = pendingMap[s]
                       \/ (pendingMap'[s] = None /\ m.code = "response" /\ e[1] = s)
  BY <1>1, <1>4, <1>6
<1>9. m.code = "empty" => pendingMidMap[mid[b]] = e
  BY <1>1
<1> HIDE DEF e
<1> QED
  BY <1>1, <1>2, <1>5, <1>7, <1>8, <1>9, ClaimStep

(* A handler writes to the channel of the call it claimed, or drops. *)
LEMMA DeliverStep ==
  ASSUME Inductive, TypeOK', NEW x \in matches, Deliver(x)
  PROVE  Inductive'
<1> DEFINE st == IF chan[x.to] = None THEN "pushed" ELSE "dropped"
           y == [to |-> x.to, msg |-> x.msg, st |-> st]
<1>1. /\ x.to \in Calls /\ x.msg \in Messages /\ x.st = "held" /\ x.msg # None
      /\ x.msg.code \in {"empty", "response"}
  BY NoneAssumption DEF Inductive, TypeOK, Match, Deliver, Messages
<1>2. /\ matches' = (matches \ {x}) \cup {y}
      /\ chan' = IF chan[x.to] = None THEN [chan EXCEPT ![x.to] = x.msg] ELSE chan
      /\ pendingMap' = pendingMap /\ pendingMidMap' = pendingMidMap /\ idx' = idx
      /\ mid' = mid /\ retry' = retry /\ status' = status /\ answer' = answer
      /\ transmits' = transmits
  BY DEF Deliver, frames, tables
<1>3. y \in matches' /\ y.to = x.to /\ y.msg = x.msg /\ y.st # "held"
  BY <1>2
<1>4. \A c \in Calls, k \in {"empty", "response"} :
        MatchedTo(c, k)' = {} <=> MatchedTo(c, k) = {}
  <2> TAKE c \in Calls, k \in {"empty", "response"}
  <2> HIDE DEF y
  <2>1. ASSUME NEW z \in MatchedTo(c, k) PROVE MatchedTo(c, k)' # {}
    <3>1. z \in matches /\ z.to = c /\ z.msg.code = k
      BY DEF MatchedTo
    <3>2. CASE z = x
      BY <1>3, <3>1, <3>2 DEF MatchedTo
    <3>3. CASE z # x
      BY <1>2, <3>1, <3>3 DEF MatchedTo
    <3> QED
      BY <3>2, <3>3
  <2>2. ASSUME NEW z \in MatchedTo(c, k)' PROVE MatchedTo(c, k) # {}
    <3>1. z \in matches' /\ z.to = c /\ z.msg.code = k
      BY DEF MatchedTo
    <3>2. CASE z = y
      BY <1>3, <3>1, <3>2 DEF MatchedTo
    <3>3. CASE z # y
      BY <1>2, <3>1, <3>3 DEF MatchedTo
    <3> QED
      BY <3>2, <3>3
  <2> QED
    BY <2>1, <2>2
<1>5. TablesSound'
  <2>1. ASSUME NEW s \in Sends, pendingMap[s] # None
        PROVE  pendingMap[s] = Current(s)' /\ MatchedTo(pendingMap[s], "response")' = {}
    <3>1. pendingMap[s] \in Calls
      BY <2>1 DEF Inductive, TypeOK
    <3>2. pendingMap[s] = Current(s) /\ MatchedTo(pendingMap[s], "response") = {}
      BY <2>1 DEF Inductive, TablesSound
    <3> QED
      BY <1>2, <1>4, <3>1, <3>2 DEF Current
  <2>2. \A m \in Mids : pendingMidMap[m] # None => Begun(pendingMidMap[m])'
    BY <1>2 DEF Inductive, TablesSound, Begun
  <2> QED
    BY <1>2, <2>1, <2>2 DEF TablesSound, MatchedTo, Begun
<1>6. CallsInOrder'
  BY <1>2 DEF Inductive, CallsInOrder, Current, Begun, Waiting
<1>7. MatchesSound'
  <2>1. ASSUME NEW z \in matches'
        PROVE  /\ Begun(z.to)'
               /\ z.msg.code = "response" =>
                    /\ z.msg.of[1] = z.to[1] /\ z.msg.of[2] <= z.to[2]
                    /\ \A w \in MatchedTo(z.to, "response")' : w = z
    <3>1. CASE z = y
      BY <1>2, <1>3, <3>1 DEF Inductive, MatchesSound, MatchedTo, Begun
    <3>2. CASE z # y
      <4>1. z \in matches /\ z # x
        BY <1>2, <3>2
      <4>2. z.msg.code = "response" => z.to # x.to \/ x.msg.code = "empty"
        BY <1>1, <4>1 DEF Inductive, MatchesSound, MatchedTo
      <4> QED
        BY <1>2, <1>3, <4>1, <4>2 DEF Inductive, MatchesSound, MatchedTo, Begun
    <3> QED
      BY <3>1, <3>2
  <2> QED
    BY <2>1 DEF MatchesSound, MatchedTo, Begun
<1>8. ChannelsSound'
  <2>1. ASSUME NEW c \in Calls, chan'[c] # None
        PROVE  \E z \in matches' : z.to = c /\ z.msg = chan'[c] /\ z.st = "pushed"
    <3>1. CASE c = x.to /\ chan[x.to] = None
      BY <1>1, <1>2, <1>3, <3>1 DEF Inductive, TypeOK
    <3>2. CASE ~(c = x.to /\ chan[x.to] = None)
      <4>1. chan'[c] = chan[c]
        BY <1>1, <1>2, <3>2 DEF Inductive, TypeOK
      <4>2. PICK z \in matches : z.to = c /\ z.msg = chan[c] /\ z.st = "pushed"
        BY <2>1, <4>1 DEF Inductive, ChannelsSound
      <4>3. z \in matches'
        BY <1>1, <1>2, <4>2
      <4> QED
        BY <4>1, <4>2, <4>3
    <3> QED
      BY <3>1, <3>2
  <2> QED
    BY <2>1 DEF ChannelsSound
<1>9. RoundsCounted' /\ TimeoutIsEarned'
  BY <1>2, <1>4 DEF Inductive, RoundsCounted, TimeoutIsEarned, Waiting
<1>10. StaysRegistered'
  BY <1>2, <1>4, IsCall DEF Inductive, StaysRegistered, Waiting
<1>11. AnswersOwnSend'
  BY <1>2 DEF Inductive, AnswersOwnSend
<1>12. DropOnlyBehindEmptyAck'
  <2>1. ASSUME NEW z \in matches', z.st = "dropped", z.msg.code = "response"
        PROVE  \E w \in MatchedTo(z.to, "empty")' : w.st = "pushed"
    <3>1. CASE z \in matches
      <4>1. PICK w \in MatchedTo(z.to, "empty") : w.st = "pushed"
        BY <2>1, <3>1 DEF Inductive, DropOnlyBehindEmptyAck
      <4> QED
        BY <1>1, <1>2, <4>1 DEF MatchedTo
    <3>2. CASE z \notin matches
      <4>1. z = y /\ chan[x.to] # None
        BY <1>2, <2>1, <3>2
      <4>2. PICK w \in matches : w.to = x.to /\ w.st = "pushed"
        BY <1>1, <4>1 DEF Inductive, ChannelsSound
      <4>3. w.msg.code = "empty"
        <5>1. x.msg.code = "response" /\ w # x
          BY <1>1, <2>1, <4>1, <4>2
        <5>2. w.msg.code \in {"empty", "response"}
          BY DEF Inductive, TypeOK, Match, Messages
        <5> QED
          BY <4>2, <5>1, <5>2 DEF Inductive, MatchesSound, MatchedTo
      <4>4. w \in matches'
        BY <1>1, <1>2, <4>2
      <4> QED
        BY <4>1, <4>2, <4>3, <4>4 DEF MatchedTo
    <3> QED
      BY <3>1, <3>2
  <2> QED
    BY <2>1 DEF DropOnlyBehindEmptyAck, MatchedTo
<1>13. EmptyAckFindsWaiter'
  <2> SUFFICES ASSUME NEW d \in Calls, Waiting(d)', MatchedTo(d, "empty")' = {},
                      MatchedTo(d, "response")' = {}, pendingMidMap'[mid'[d]] # d
               PROVE  \/ \E z \in matches' :
                           z.msg.type # "ACK" /\ PeerMidOf(z.msg) = mid'[d]
                      \/ \E f \in Calls \ {d} : status'[f] # "none" /\ mid'[f] = mid'[d]
    BY DEF EmptyAckFindsWaiter, PeerMidOf
  <2>1. \/ \E z \in matches : z.msg.type # "ACK" /\ PeerMidOf(z.msg) = mid[d]
        \/ \E f \in Calls \ {d} : status[f] # "none" /\ mid[f] = mid[d]
    BY <1>2, <1>4 DEF Inductive, EmptyAckFindsWaiter, Waiting
  <2>2. \A z \in matches : \E w \in matches' : w.msg = z.msg
    BY <1>2, <1>3
  <2> QED
    BY <1>2, <2>1, <2>2
<1> QED
  BY <1>5, <1>6, <1>7, <1>8, <1>9, <1>10, <1>11, <1>12, <1>13 DEF Inductive

(* Steps that leave the exchange alone. *)
LEMMA IdleStep ==
  ASSUME Inductive, TypeOK',
         UNCHANGED <<pendingMap, pendingMidMap, matches, chan, idx, mid, retry, status, answer,
                     transmits>>
  PROVE  Inductive'
<1>1. TablesSound' /\ CallsInOrder' /\ MatchesSound' /\ ChannelsSound'
  BY DEF Inductive, TablesSound, CallsInOrder, MatchesSound, ChannelsSound, MatchedTo, Current,
         Begun, Waiting
<1>2. RoundsCounted' /\ TimeoutIsEarned' /\ StaysRegistered'
  BY DEF Inductive, RoundsCounted, TimeoutIsEarned, StaysRegistered, MatchedTo, Waiting
<1>3. AnswersOwnSend' /\ DropOnlyBehindEmptyAck'
  BY DEF Inductive, AnswersOwnSend, DropOnlyBehindEmptyAck, MatchedTo
<1>4. EmptyAckFindsWaiter'
  BY DEF Inductive, EmptyAckFindsWaiter, MatchedTo, Waiting, PeerMidOf
<1> QED
  BY <1>1, <1>2, <1>3, <1>4 DEF Inductive

LEMMA InductiveNext == Inductive /\ [Next]_vars => Inductive'
<1> SUFFICES ASSUME Inductive, [Next]_vars
             PROVE  Inductive'
  OBVIOUS
<1>1. TypeOK'
  BY TypeNext DEF Inductive
<1>2. ASSUME NEW s \in Sends, Start(s) \/ StartFails(s)
      PROVE  Inductive'
  BY <1>1, <1>2, BeginStep DEF Start, StartFails
<1>3. ASSUME NEW s \in Sends, Retransmit(s) \/ RetransmitFails(s) \/ GiveUp(s)
      PROVE  Inductive'
  BY <1>1, <1>3, TimerStep
<1>4. ASSUME NEW s \in Sends, TakeAnswer(s) \/ TakeEmptyAck(s)
      PROVE  Inductive'
  BY <1>1, <1>4, TakeStep
<1>5. ASSUME NEW c \in Calls, MatchEmptyAck(c)
      PROVE  Inductive'
  BY <1>1, <1>5, MatchEmptyAckStep
<1>6. ASSUME NEW c \in Calls, NEW m \in Responses(c), MatchResponse(m)
      PROVE  Inductive'
  BY <1>1, <1>6, MatchResponseStep
<1>7. ASSUME NEW x \in matches, Deliver(x)
      PROVE  Inductive'
  BY <1>1, <1>7, DeliverStep
<1>8. ASSUME NEW c \in Calls, NEW m \in Responses(c), Unmatched(m)
      PROVE  Inductive'
  BY <1>1, <1>8, IdleStep DEF Unmatched, tables, frames
<1>9. ASSUME NEW c \in Calls, ReceiveReset(c)
      PROVE  Inductive'
  BY <1>1, <1>9, IdleStep DEF ReceiveReset, tables, frames
<1>10. CASE GetNextMsgId \/ Purge \/ UNCHANGED vars
  BY <1>1, <1>10, IdleStep DEF GetNextMsgId, Purge, vars, tables, frames
<1> QED
  BY <1>2, <1>3, <1>4, <1>5, <1>6, <1>7, <1>8, <1>9, <1>10 DEF Next, Sender, Handler

LEMMA AlwaysInductive == Spec => []Inductive
<1> QED
  BY InductiveInit, InductiveNext, PTL DEF Spec

\* A waiting call that no response has claimed is in pendingMap, whatever has
\* arrived, been retransmitted or timed out around it.
THEOREM StaysRegisteredCorrect == Spec => []StaysRegistered
<1>1. Inductive => StaysRegistered
  BY DEF Inductive
<1> QED
  BY <1>1, AlwaysInductive, PTL

\* Concurrent Sends never swap answers, for any number of Sends and however
\* message IDs wrap: tokens alone decide.
THEOREM AnswersOwnSendCorrect == Spec => []AnswersOwnSend
<1>1. Inductive => AnswersOwnSend
  BY DEF Inductive
<1> QED
  BY <1>1, AlwaysInductive, PTL

\* A claimed response is lost only behind an empty ACK of the same call.
THEOREM DropOnlyBehindEmptyAckCorrect == Spec => []DropOnlyBehindEmptyAck
<1>1. Inductive => DropOnlyBehindEmptyAck
  BY DEF Inductive
<1> QED
  BY <1>1, AlwaysInductive, PTL

\* ErrTimeout without an empty ACK means MaxRetransmit + 1 transmissions.
THEOREM TimeoutIsEarnedCorrect == Spec => []TimeoutIsEarned
<1>1. Inductive => TimeoutIsEarned
  BY DEF Inductive
<1> QED
  BY <1>1, AlwaysInductive, PTL

\* An empty ACK finds its waiting call, except behind a colliding message ID.
THEOREM EmptyAckFindsWaiterCorrect == Spec => []EmptyAckFindsWaiter
<1>1. Inductive => EmptyAckFindsWaiter
  BY DEF Inductive
<1> QED
  BY <1>1, AlwaysInductive, PTL

-----------------------------------------------------------------------------
(* Exchange implements SendPromise. *)

\* Every call of a Send but the last has been answered with a response.
EarlierAnswered ==
  \A s \in Sends : \A i \in 1 .. Blocks[s] :
    /\ i < idx[s] => status[<<s, i>>] = "answered" /\ answer[<<s, i>>].code = "response"
    /\ status[<<s, i>>] = "answered" => answer[<<s, i>>] # None

-----------------------------------------------------------------------------
(* What a step does to the promise to one Send. *)

\* A Send whose calls a step leaves alone is promised the same.
LEMMA SameSend ==
  ASSUME TypeOK, NEW s \in Sends, idx'[s] = idx[s],
         \A i \in 1 .. Blocks[s] : /\ status'[<<s, i>>] = status[<<s, i>>]
                                   /\ answer'[<<s, i>>] = answer[<<s, i>>]
  PROVE  Result(s)' = Result(s) /\ AnswersOf(s)' = AnswersOf(s)
<1>1. idx[s] \in 0 .. Blocks[s] /\ Blocks[s] \in Nat
  BY ExchangeAssumption DEF TypeOK
<1>2. Result(s)' = Result(s)
  BY <1>1 DEF Result, Current
<1>3. Answered(s)' = Answered(s)
  BY <1>1 DEF Answered
<1>4. \A i \in Answered(s) : answer'[<<s, i>>] = answer[<<s, i>>]
  BY <1>1 DEF Answered
<1>5. AnswersOf(s)' = AnswersOf(s)
  BY <1>3, <1>4 DEF AnswersOf
<1> QED
  BY <1>2, <1>5

\* The calls that have been answered come first.
LEMMA AnsweredPrefix ==
  ASSUME Inductive, EarlierAnswered, NEW s \in Sends, idx[s] > 0
  PROVE  /\ idx[s] \in 1 .. Blocks[s]
         /\ status[Current(s)] = "answered" => Answered(s) = 1 .. idx[s]
         /\ status[Current(s)] # "answered" => Answered(s) = 1 .. (idx[s] - 1)
<1>1. idx[s] \in 1 .. Blocks[s] /\ Blocks[s] \in Nat
  BY ExchangeAssumption DEF Inductive, TypeOK
<1>2. \A i \in 1 .. idx[s] : i < idx[s] => status[<<s, i>>] = "answered"
  BY <1>1 DEF EarlierAnswered
<1> QED
  BY <1>1, <1>2 DEF Answered, Current

-----------------------------------------------------------------------------
(* The steps of Exchange, as far as a caller of Send sees them. *)

Idle == UNCHANGED <<idx, status, answer>>

Begins(s) ==
  /\ Continues(s)
  /\ idx' = [idx EXCEPT ![s] = @ + 1]
  /\ \E v \in {"waiting", "failed"} : status' = [status EXCEPT ![<<s, idx[s] + 1>>] = v]
  /\ UNCHANGED answer

Ends(s) ==
  /\ idx[s] > 0 /\ Waiting(Current(s))
  /\ \E v \in {"failed", "timeout"} : status' = [status EXCEPT ![Current(s)] = v]
  /\ UNCHANGED <<idx, answer>>

Answers(s) ==
  /\ idx[s] > 0 /\ Waiting(Current(s)) /\ chan[Current(s)] # None
  /\ status' = [status EXCEPT ![Current(s)] = "answered"]
  /\ answer' = [answer EXCEPT ![Current(s)] = chan[Current(s)]]
  /\ UNCHANGED idx

LEMMA StepKinds ==
  ASSUME TypeOK, [Next]_vars
  PROVE  Idle \/ \E s \in Sends : Begins(s) \/ Ends(s) \/ Answers(s)
<1>1. ASSUME NEW s \in Sends, Start(s) \/ StartFails(s)
      PROVE  Begins(s)
  BY <1>1 DEF Start, StartFails, Begin, Begins
<1>2. ASSUME NEW s \in Sends, Retransmit(s)
      PROVE  Idle
  BY <1>2 DEF Retransmit, Resend, Idle
<1>3. ASSUME NEW s \in Sends, RetransmitFails(s) \/ GiveUp(s)
      PROVE  Ends(s)
  BY <1>3 DEF RetransmitFails, RetryDue, GiveUp, TimesOut, Ends
<1>4. ASSUME NEW s \in Sends, TakeAnswer(s)
      PROVE  Answers(s)
  BY <1>4 DEF TakeAnswer, Answers
<1>5. ASSUME NEW s \in Sends, TakeEmptyAck(s)
      PROVE  Idle \/ Ends(s)
  <2>1. CASE retry[Current(s)] = MaxRetransmit[s]
    BY <1>5, <2>1 DEF TakeEmptyAck, Ends
  <2>2. CASE retry[Current(s)] # MaxRetransmit[s]
    BY <1>5, <2>2 DEF TakeEmptyAck, Idle, TypeOK
  <2> QED
    BY <2>1, <2>2
<1>6. ASSUME NEW c \in Calls, Handler(c)
      PROVE  Idle
  BY <1>6 DEF Handler, MatchEmptyAck, MatchResponse, Unmatched, ReceiveReset, Claim, frames, Idle
<1>7. ASSUME NEW x \in matches, Deliver(x)
      PROVE  Idle
  BY <1>7 DEF Deliver, frames, Idle
<1>8. CASE GetNextMsgId \/ Purge \/ UNCHANGED vars
  BY <1>8 DEF GetNextMsgId, Purge, vars, frames, Idle
<1> QED
  BY <1>1, <1>2, <1>3, <1>4, <1>5, <1>6, <1>7, <1>8 DEF Next, Sender

LEMMA EarlierAnsweredInit == Init => EarlierAnswered
<1> SUFFICES ASSUME Init, NEW s \in Sends, NEW i \in 1 .. Blocks[s]
             PROVE  ~(i < idx[s]) /\ status[<<s, i>>] = "none"
  BY DEF EarlierAnswered
<1> QED
  BY IsCall, ExchangeAssumption DEF Init

LEMMA EarlierAnsweredNext ==
  ASSUME Inductive, EarlierAnswered, [Next]_vars
  PROVE  EarlierAnswered'
<1> SUFFICES ASSUME NEW t \in Sends, NEW i \in 1 .. Blocks[t]
             PROVE  /\ i < idx'[t] => status'[<<t, i>>] = "answered"
                                       /\ answer'[<<t, i>>].code = "response"
                    /\ status'[<<t, i>>] = "answered" => answer'[<<t, i>>] # None
  BY DEF EarlierAnswered
<1>1. <<t, i>> \in Calls /\ i \in Nat /\ idx[t] \in Nat
  BY IsCall, ExchangeAssumption DEF Inductive, TypeOK
<1>2. TypeOK
  BY DEF Inductive
<1>3. CASE Idle
  BY <1>3 DEF Idle, EarlierAnswered
<1>4. ASSUME NEW s \in Sends, Begins(s)
      PROVE  /\ i < idx'[t] => status'[<<t, i>>] = "answered"
                                /\ answer'[<<t, i>>].code = "response"
             /\ status'[<<t, i>>] = "answered" => answer'[<<t, i>>] # None
  <2>1. CASE t = s /\ i = idx[s] + 1
    BY <1>1, <1>2, <1>4, <2>1 DEF Begins, TypeOK
  <2>2. CASE t # s \/ i # idx[s] + 1
    <3>1. status'[<<t, i>>] = status[<<t, i>>] /\ answer' = answer
      BY <1>1, <1>2, <1>4, <2>2 DEF Begins, TypeOK
    <3>2. i < idx'[t] => i < idx[t] \/ (t = s /\ i = idx[s])
      BY <1>1, <1>2, <1>4 DEF Begins, TypeOK
    <3> QED
      BY <1>1, <1>4, <3>1, <3>2 DEF Begins, Continues, Current, EarlierAnswered
  <2> QED
    BY <2>1, <2>2
<1>5. ASSUME NEW s \in Sends, Ends(s) \/ Answers(s)
      PROVE  /\ i < idx'[t] => status'[<<t, i>>] = "answered"
                                /\ answer'[<<t, i>>].code = "response"
             /\ status'[<<t, i>>] = "answered" => answer'[<<t, i>>] # None
  <2>1. CASE <<t, i>> = Current(s)
    BY <1>1, <1>2, <1>5, <2>1 DEF Ends, Answers, TypeOK, Current
  <2>2. CASE <<t, i>> # Current(s)
    BY <1>1, <1>2, <1>5, <2>2 DEF Ends, Answers, TypeOK, EarlierAnswered
  <2> QED
    BY <2>1, <2>2
<1> QED
  BY <1>2, <1>3, <1>4, <1>5, StepKinds

-----------------------------------------------------------------------------
(* Each of them is a step of the promise, or leaves it alone. *)

Results == [s \in Sends |-> Result(s)]
Taken   == [s \in Sends |-> AnswersOf(s)]

\* The other Sends are not touched by a step of s.
LEMMA OthersSame ==
  ASSUME TypeOK, NEW s \in Sends, Begins(s) \/ Ends(s) \/ Answers(s),
         NEW t \in Sends, t # s
  PROVE  Result(t)' = Result(t) /\ AnswersOf(t)' = AnswersOf(t)
<1>1. idx'[t] = idx[t]
  BY DEF Begins, Ends, Answers, TypeOK
<1>2. \A i \in 1 .. Blocks[t] : status'[<<t, i>>] = status[<<t, i>>]
                               /\ answer'[<<t, i>>] = answer[<<t, i>>]
  BY IsCall DEF Begins, Ends, Answers, Current, TypeOK
<1> QED
  BY <1>1, <1>2, SameSend

LEMMA BeginsCalls ==
  ASSUME Inductive, EarlierAnswered, NEW s \in Sends, Begins(s)
  PROVE  Promise!Call(s)
<1>0. /\ idx[s] \in Nat /\ Blocks[s] \in Nat /\ idx[s] < Blocks[s] /\ TypeOK
      /\ idx' = [idx EXCEPT ![s] = idx[s] + 1] /\ answer' = answer
  BY ExchangeAssumption DEF Begins, Continues, Inductive, TypeOK
<1>1. /\ idx[s] \in Nat /\ Blocks[s] \in Nat /\ idx[s] < Blocks[s] /\ TypeOK
      /\ idx' = [idx EXCEPT ![s] = idx[s] + 1] /\ answer' = answer
      /\ <<s, idx[s] + 1>> \in Calls
  BY <1>0, IsCall
<1>2. PICK v \in {"waiting", "failed"} : status' = [status EXCEPT ![<<s, idx[s] + 1>>] = v]
  BY DEF Begins
<1>3. idx'[s] = idx[s] + 1 /\ status'[<<s, idx[s] + 1>>] = v
      /\ \A i \in 1 .. idx[s] : status'[<<s, i>>] = status[<<s, i>>]
  BY <1>1, <1>2, IsCall DEF TypeOK
<1>4. Result(s)' = v
  BY <1>1, <1>3 DEF Result, Current
<1>5. AnswersOf(s)' = AnswersOf(s)
  <2>1. Answered(s)' = Answered(s)
    BY <1>1, <1>3 DEF Answered
  <2> QED
    BY <1>1, <2>1 DEF AnswersOf
<1>6. Results' = [Results EXCEPT ![s] = v] /\ Taken' = Taken
  BY <1>1, <1>4, <1>5, OthersSame DEF Results, Taken
<1>7. Result(s) = "idle" \/ (Result(s) = "answered" /\ AnswersOf(s)[idx[s]] # None)
  <2>1. CASE idx[s] = 0
    BY <2>1 DEF Result
  <2>2. CASE idx[s] > 0
    <3>1. status[Current(s)] = "answered" /\ answer[Current(s)].code = "response"
      BY <2>2 DEF Begins, Continues
    <3>2. Result(s) = "answered" /\ idx[s] \in Answered(s)
      BY <1>1, <2>2, <3>1, AnsweredPrefix DEF Result
    <3>3. AnswersOf(s)[idx[s]] = answer[Current(s)].of
      BY <3>1, <3>2 DEF AnswersOf, Current
    <3>4. answer[Current(s)] # None /\ Current(s) \in Calls
      BY <1>1, <2>2, <3>1, IsCall DEF EarlierAnswered, Current
    <3>5. answer[Current(s)].of \in Calls
      BY <1>1, <3>4 DEF TypeOK, Messages
    <3> QED
      BY <3>2, <3>3, <3>5, NoneAssumption
  <2> QED
    BY <1>1, <2>1, <2>2
<1> QED
  BY <1>1, <1>6, <1>7 DEF Promise!Call, Results, Taken

LEMMA EndsFails ==
  ASSUME Inductive, NEW s \in Sends, Ends(s)
  PROVE  Promise!Fail(s)
<1>1. /\ TypeOK /\ idx' = idx /\ answer' = answer /\ idx[s] > 0
      /\ Current(s) \in Calls /\ status[Current(s)] = "waiting"
  BY CurrentIsCall DEF Ends, Inductive, Waiting
<1>2. PICK v \in {"failed", "timeout"} : status' = [status EXCEPT ![Current(s)] = v]
  BY DEF Ends
<1>3. Current(s)' = Current(s) /\ status'[Current(s)] = v
      /\ \A i \in 1 .. idx[s] : status'[<<s, i>>] = "answered" <=> status[<<s, i>>] = "answered"
  BY <1>1, <1>2, IsCall DEF Current, TypeOK
<1>4. Result(s) = "waiting" /\ Result(s)' = "failed"
  BY <1>1, <1>3 DEF Result
<1>5. AnswersOf(s)' = AnswersOf(s)
  <2>1. Answered(s)' = Answered(s)
    BY <1>1, <1>3 DEF Answered
  <2> QED
    BY <1>1, <2>1 DEF AnswersOf
<1>6. Results' = [Results EXCEPT ![s] = "failed"] /\ Taken' = Taken
  BY <1>1, <1>4, <1>5, OthersSame DEF Results, Taken
<1> QED
  BY <1>1, <1>4, <1>6 DEF Promise!Fail, Results, Taken

LEMMA AnswersAccepts ==
  ASSUME Inductive, EarlierAnswered, NEW s \in Sends, Answers(s)
  PROVE  Promise!Accept(s)
<1> DEFINE c == Current(s)
           n == idx[s]
           a == IF chan[c].code = "empty" THEN None ELSE chan[c].of
<1>1. /\ TypeOK /\ idx' = idx /\ n \in 1 .. Blocks[s] /\ Blocks[s] \in Nat
      /\ c \in Calls /\ status[c] = "waiting" /\ c = <<s, n>>
      /\ chan[c] # None /\ chan[c] \in Messages
      /\ status' = [status EXCEPT ![c] = "answered"]
      /\ answer' = [answer EXCEPT ![c] = chan[c]]
  BY CurrentIsCall, ExchangeAssumption DEF Answers, Inductive, Waiting, TypeOK, Current
<1>2. Answered(s) = 1 .. (n - 1)
  BY <1>1, AnsweredPrefix
<1>3. /\ Current(s)' = c /\ status'[c] = "answered" /\ answer'[c] = chan[c]
      /\ \A i \in 1 .. (n - 1) : status'[<<s, i>>] = status[<<s, i>>]
                                /\ answer'[<<s, i>>] = answer[<<s, i>>]
  BY <1>1, IsCall DEF Current, TypeOK
<1>4. Result(s) = "waiting" /\ Result(s)' = "answered"
  BY <1>1, <1>3 DEF Result
<1>5. Answered(s)' = 1 .. n
  BY <1>1, <1>2, <1>3 DEF Answered
<1>6. a \in ({s} \X (1 .. n)) \cup {None}
  <2>1. CASE chan[c].code = "empty"
    BY <2>1
  <2>2. CASE chan[c].code # "empty"
    <3>1. chan[c].code = "response" /\ chan[c].of \in Calls
      BY <1>1, <2>2 DEF Messages
    <3>2. PICK x \in matches : x.to = c /\ x.msg = chan[c]
      BY <1>1 DEF Inductive, ChannelsSound
    <3>3. chan[c].of[1] = c[1] /\ chan[c].of[2] <= c[2]
      BY <3>1, <3>2 DEF Inductive, MatchesSound
    <3>4. chan[c].of = <<chan[c].of[1], chan[c].of[2]>> /\ chan[c].of[2] \in 1 .. Blocks[s]
      BY <1>1, <3>1, <3>3, CallParts
    <3> QED
      BY <1>1, <2>2, <3>3, <3>4
  <2> QED
    BY <2>1, <2>2
<1>7. AnswersOf(s)' = Append(AnswersOf(s), a)
  <2> DEFINE q == AnswersOf(s)
             V == Calls \cup {None}
  <2>1. \A i \in 1 .. (n - 1) : answer[<<s, i>>] \in Messages
    BY <1>1, <1>2, IsCall DEF Answered, EarlierAnswered, TypeOK
  <2>2. q = [i \in 1 .. (n - 1) |->
              IF answer[<<s, i>>].code = "empty" THEN None ELSE answer[<<s, i>>].of]
    BY <1>2 DEF AnswersOf
  <2>3. q \in [1 .. (n - 1) -> V]
    BY <2>1, <2>2 DEF Messages
  <2>4. q \in Seq(V) /\ Len(q) = n - 1
    BY <1>1, <2>3
  <2>5. AnswersOf(s)' = [i \in 1 .. n |-> IF i = n THEN a ELSE q[i]]
    <3>1. AnswersOf(s)' = [i \in 1 .. n |->
              IF answer'[<<s, i>>].code = "empty" THEN None ELSE answer'[<<s, i>>].of]
      BY <1>5 DEF AnswersOf
    <3>2. ASSUME NEW i \in 1 .. n
          PROVE  (IF answer'[<<s, i>>].code = "empty" THEN None ELSE answer'[<<s, i>>].of)
                   = IF i = n THEN a ELSE q[i]
      <4>1. CASE i = n
        <5>1. answer'[<<s, i>>] = chan[c]
          BY <1>1, <1>3, <4>1
        <5> QED
          BY <4>1, <5>1
      <4>2. CASE i # n
        <5>1. i \in 1 .. (n - 1)
          BY <1>1, <4>2
        <5>2. answer'[<<s, i>>] = answer[<<s, i>>]
          BY <1>3, <5>1
        <5> HIDE DEF q
        <5>3. q[i] = IF answer[<<s, i>>].code = "empty" THEN None ELSE answer[<<s, i>>].of
          BY <2>2, <5>1
        <5> QED
          BY <4>2, <5>2, <5>3
      <4> QED
        BY <4>1, <4>2
    <3> QED
      BY <3>1, <3>2
  <2>6. a \in V
    BY <1>1, <1>6, IsCall
  <2> HIDE DEF q, a, V
  <2>7. Append(q, a) = [i \in 1 .. n |-> IF i = n THEN a ELSE q[i]]
    <3>1. Append(q, a) \in Seq(V) /\ Len(Append(q, a)) = n
      BY <1>1, <2>4, <2>6
    <3>2. \A i \in 1 .. n : Append(q, a)[i] = IF i = n THEN a ELSE q[i]
      BY <1>1, <2>4, <2>6
    <3>3. Append(q, a) \in [1 .. n -> V]
      BY <3>1, LenProperties
    <3>4. Append(q, a) = [i \in 1 .. n |-> Append(q, a)[i]]
      BY <3>3
    <3> QED
      BY <3>2, <3>4
  <2> QED
    BY <2>5, <2>7 DEF q
<1>8. Results' = [Results EXCEPT ![s] = "answered"]
      /\ Taken' = [Taken EXCEPT ![s] = Append(@, a)]
  BY <1>1, <1>4, <1>7, OthersSame DEF Results, Taken
<1> HIDE DEF a
<1> QED
  BY <1>1, <1>4, <1>6, <1>8 DEF Promise!Accept, Results, Taken

LEMMA PromiseStep ==
  ASSUME Inductive, EarlierAnswered, [Next]_vars
  PROVE  [Promise!Next]_(Promise!vars)
<1>1. TypeOK
  BY DEF Inductive
<1>2. CASE Idle
  <2>1. \A s \in Sends : Result(s)' = Result(s) /\ AnswersOf(s)' = AnswersOf(s)
    BY <1>1, <1>2, SameSend DEF Idle
  <2> QED
    BY <1>2, <2>1 DEF Idle, Promise!vars
<1>3. ASSUME NEW s \in Sends, Begins(s) \/ Ends(s) \/ Answers(s)
      PROVE  Promise!Next
  BY <1>3, BeginsCalls, EndsFails, AnswersAccepts DEF Promise!Next
<1> QED
  BY <1>1, <1>2, <1>3, StepKinds

LEMMA PromiseInit == Init => Promise!Init
<1> SUFFICES ASSUME Init PROVE Promise!Init
  OBVIOUS
<1>1. ASSUME NEW s \in Sends
      PROVE  Result(s) = "idle" /\ AnswersOf(s) = <<>>
  <2>1. idx[s] = 0
    BY DEF Init
  <2>2. Result(s) = "idle"
    BY <2>1 DEF Result
  <2>3. Answered(s) = {}
    BY <2>1 DEF Answered
  <2>4. AnswersOf(s) = [i \in {} |-> None]
    BY <2>3 DEF AnswersOf
  <2>5. [i \in {} |-> None] = <<>>
    OBVIOUS
  <2> QED
    BY <2>2, <2>4, <2>5
<1> QED
  BY <1>1 DEF Init, Promise!Init

\* Whatever arrives, in whatever order, and however the message IDs wrap: a Send makes
\* its calls one at a time, each ends once, in a message or an error, and a response it
\* is handed answers this call or an earlier one of the same Send.
THEOREM PromiseKept == Spec => ImplementsPromise
<1>1. Init => Promise!Init /\ EarlierAnswered
  BY PromiseInit, EarlierAnsweredInit
<1>2. Inductive /\ EarlierAnswered /\ [Next]_vars => EarlierAnswered'
  BY EarlierAnsweredNext
<1>3. Inductive /\ EarlierAnswered /\ [Next]_vars => [Promise!Next]_(Promise!vars)
  BY PromiseStep
<1> QED
  BY <1>1, <1>2, <1>3, AlwaysInductive, PTL DEF Spec, ImplementsPromise, Promise!Spec
=============================================================================
