------------------------------- MODULE Observe -------------------------------
(***************************************************************************)
(* One observation: Observe and ObserveCancel (observe.go), the handlers   *)
(* of its notifications (the notification branches of handleMessage,       *)
(* blockRetreive in send.go, handleNotify), and the token they share in    *)
(* the pending table.                                                      *)
(*                                                                         *)
(* The peer is external.  It may refuse the registration, notify while it  *)
(* has us as an observer, and forgets us when a cancellation or a Reset    *)
(* reaches it, when it gives up on a confirmable notification or when the  *)
(* resource goes.  Requests and notifications arrive late or never,        *)
(* acknowledgements also repeatedly; copies of a notification are dropped  *)
(* by deduplication.                                                       *)
(***************************************************************************)
EXTENDS Naturals

CONSTANTS
  Notes,  \* bound: notifications under way at a time
  Kinds,  \* what a notification may be: "con", "non", "end", a confirmable one
          \* without the observe option, and "big con", "big non", which come in blocks
  None    \* an absent entry, an empty channel

Apis    == {"idle", "observe", "answered", "observing", "failed", "deleted", "cancel", "ended"}
Rejects == {"callback failed", "early", "unknown"}
Reasons == {"cancelled", "resource gone", "gave up"} \cup Rejects

ASSUME ObserveAssumption ==
  /\ Kinds \subseteq {"con", "non", "end", "big con", "big non"}
  /\ None \notin {"observe", "cancel", "registered", "refused", "note", "cancelled"}
  /\ None \notin Kinds \cup Apis \cup Reasons

VARIABLES
  api,      \* where the application's calls stand
  pending,  \* whose Send the token leads to in pendingMap: "observe", "cancel"
  chan,     \* what that Send has in its channel
  stored,   \* whether observeMap has the observation
  renews,   \* whether ObserveNotFoundCallback registers what it is asked for
  request,  \* "observe", "cancel" -> how far the request has come
  observed, \* whether the peer has us as an observer
  dropped,  \* why it has dropped us last (history)
  note      \* notification -> what it is, where its handler stands, and (history) where
            \* api stood when it came, whether the callback heard, why it was rejected

ours == <<api, pending, chan, stored, renews>>
peer == <<request, observed, dropped>>
vars == <<ours, peer, note>>

-----------------------------------------------------------------------------
Fresh(kind, at) == [kind |-> kind, at |-> at, since |-> None, heard |-> FALSE, reset |-> None]
Unused == Fresh(None, "unused")

Big(n)         == note[n].kind \in {"big con", "big non"}
Confirmable(n) == note[n].kind \in {"con", "end", "big con"}

Init ==
  /\ api = "idle" /\ pending = None /\ chan = None /\ stored = FALSE
  /\ renews \in BOOLEAN
  /\ request = [r \in {"observe", "cancel"} |-> "none"]
  /\ observed = FALSE /\ dropped = None
  /\ note = [n \in Notes |-> Unused]

-----------------------------------------------------------------------------
(* Observe and ObserveCancel *)

Sends(r) ==
  /\ pending' = r
  /\ chan' = None
  /\ request' = [request EXCEPT ![r] = "sent"]

Observe ==
  /\ api = "idle"
  /\ api' = "observe"
  /\ Sends("observe")
  /\ UNCHANGED <<stored, renews, observed, dropped, note>>

\* Send takes its answer; it may as well be a notification that came first.
Answered ==
  /\ api = "observe" /\ chan # None
  /\ api' = IF chan = "refused" THEN "failed" ELSE "answered"
  /\ chan' = None
  /\ UNCHANGED <<pending, stored, renews, peer, note>>

\* Send fails; the token stays in the table.
Fails ==
  /\ api \in {"observe", "cancel"}
  /\ api' = IF api = "observe" THEN "failed" ELSE "ended"
  /\ UNCHANGED <<pending, chan, stored, renews, peer, note>>

\* The callback gets the answer next, of which nothing here depends.
Store ==
  /\ api = "answered"
  /\ api' = "observing"
  /\ stored' = TRUE
  /\ UNCHANGED <<pending, chan, renews, peer, note>>

\* ObserveCancel deletes the observation first ...
Delete ==
  /\ api = "observing"
  /\ api' = "deleted"
  /\ stored' = FALSE
  /\ UNCHANGED <<pending, chan, renews, peer, note>>

\* ... then sends under the same token.
SendCancel ==
  /\ api = "deleted"
  /\ api' = "cancel"
  /\ Sends("cancel")
  /\ UNCHANGED <<stored, renews, observed, dropped, note>>

Cancelled ==
  /\ api = "cancel" /\ chan # None
  /\ api' = "ended"
  /\ chan' = None
  /\ UNCHANGED <<pending, stored, renews, peer, note>>

Api == Answered \/ Fails \/ Store \/ SendCancel \/ Cancelled

-----------------------------------------------------------------------------
(* The peer *)

Drops(why) ==
  /\ observed' = FALSE
  /\ dropped' = IF observed THEN why ELSE dropped

PeerRegisters ==
  /\ request["observe"] = "sent"
  /\ \/ /\ request' = [request EXCEPT !["observe"] = "done"]
        /\ observed' = TRUE
     \/ /\ request' = [request EXCEPT !["observe"] = "refused"]
        /\ UNCHANGED observed
  /\ UNCHANGED <<ours, dropped, note>>

PeerCancels ==
  /\ request["cancel"] = "sent"
  /\ request' = [request EXCEPT !["cancel"] = "done"]
  /\ Drops("cancelled")
  /\ UNCHANGED <<ours, note>>

PeerNotifies(n) ==
  /\ observed
  /\ note[n].at = "unused"
  /\ \E kind \in Kinds :
       /\ note' = [note EXCEPT ![n] = Fresh(kind, "sent")]
       /\ IF kind = "end" THEN Drops("resource gone") ELSE UNCHANGED <<observed, dropped>>
  /\ UNCHANGED <<ours, request>>

\* A Reset arrives.
PeerRejected(n) ==
  /\ note[n].at = "done" /\ note[n].reset # None
  /\ Drops(note[n].reset)
  /\ note' = [note EXCEPT ![n] = Unused]
  /\ UNCHANGED <<ours, request>>

\* The notification is lost, or what came of it is.
Forgotten(n) ==
  /\ note[n].at \in {"sent", "done"}
  /\ note' = [note EXCEPT ![n] = Unused]
  /\ UNCHANGED <<ours, peer>>

\* No acknowledgement of a confirmable one has come: it was not sent, or lost. After
\* a retrieval deduplication ignores the copies, so there is no other.
PeerGivesUp(n) ==
  /\ note[n].at \in {"sent", "done"} /\ Confirmable(n)
  /\ note' = [note EXCEPT ![n] = Unused]
  /\ Drops("gave up")
  /\ UNCHANGED <<ours, request>>

-----------------------------------------------------------------------------
(* The handler of a datagram *)

\* handleAcknowledgement: what is found under the token goes to its Send, if that
\* still waits.
Claims(what) ==
  /\ pending # None
  /\ pending' = None
  /\ chan' = IF api = pending THEN what ELSE chan

Answer(r) == IF r = "cancel" THEN "cancelled" ELSE IF request[r] = "done" THEN "registered" ELSE "refused"

\* Fault: the entry stays in the table.
AckArrivesAgain(r) ==
  /\ request[r] \in {"done", "refused"} /\ pending # None
  /\ chan' = IF api = pending THEN Answer(r) ELSE chan
  /\ UNCHANGED <<api, pending, stored, renews, peer, note>>

\* The acknowledgement of a request, the first or a copy. Without a Send getObserve
\* looks for its observation, and the callback hears of it, or it is answered by a
\* Reset that the peer cannot place.
AckArrives(r) ==
  /\ request[r] \in {"done", "refused"}
  /\ \/ Claims(Answer(r)) /\ UNCHANGED stored
     \/ /\ pending = None
        /\ IF renews THEN stored' = TRUE ELSE UNCHANGED stored
        /\ UNCHANGED <<pending, chan>>
  /\ UNCHANGED <<api, renews, peer, note>>

\* The handler of n goes on there.
Goes(n, at) == note' = [note EXCEPT ![n].at = at]

\* It is over: the callback has heard or not, and a Reset goes out for a reason or not.
Over(n, heard, why) ==
  note' = [note EXCEPT ![n].at = "done", ![n].heard = heard, ![n].reset = why]

\* A large notification is acknowledged at once; one without the observe option is
\* not looked up among the observations.
Arrive(n) ==
  /\ note[n].at = "sent"
  /\ note' = [note EXCEPT ![n].since = api,
                ![n].at = IF Big(n) THEN "big"
                          ELSE IF note[n].kind = "end" THEN "missed" ELSE "dispatched"]
  /\ UNCHANGED <<ours, peer>>

\* getObserve: the observation, as it is or as the callback has put it back.
Lookup(n, found, missed) ==
  IF stored \/ renews
  THEN Goes(n, found) /\ stored' = TRUE
  ELSE Goes(n, missed) /\ UNCHANGED stored

\* Fault: a failed retrieval ends in the Reset made for it.
RetrieveOrReject(n) ==
  /\ note[n].at \in {"big", "retrieving"}
  /\ \/ /\ note[n].at = "big" /\ Lookup(n, "retrieving", "missed")
     \/ /\ note[n].at = "retrieving" /\ Goes(n, "dispatched") /\ UNCHANGED stored
     \/ /\ note[n].at = "retrieving" /\ Over(n, FALSE, "unknown")
        /\ UNCHANGED stored
  /\ UNCHANGED <<api, pending, chan, renews, peer>>

\* blockRetreive needs the observation, for its path; with all of the blocks or
\* after a failure it goes on.
Retrieve(n) ==
  /\ note[n].at \in {"big", "retrieving"}
  /\ IF note[n].at = "big" THEN Lookup(n, "retrieving", "dispatched")
                           ELSE Goes(n, "dispatched") /\ UNCHANGED stored
  /\ UNCHANGED <<api, pending, chan, renews, peer>>

\* handleNotify looks for the observation ...
Dispatch(n) ==
  /\ note[n].at = "dispatched"
  /\ Lookup(n, "found", "missed")
  /\ UNCHANGED <<api, pending, chan, renews, peer>>

\* ... whose callback hears of it ...
Heard(n) ==
  /\ note[n].at = "found"
  /\ Over(n, TRUE, None)
  /\ UNCHANGED <<ours, peer>>

\* ... and may return an error; ...
CallbackFails(n) ==
  /\ note[n].at = "found"
  /\ Over(n, TRUE, "callback failed")
  /\ UNCHANGED <<ours, peer>>

\* ... then for a Send. A message without the observe option comes here directly.
Claimed(n) ==
  /\ note[n].at = "missed"
  /\ Claims("note")
  /\ Goes(n, "done")
  /\ UNCHANGED <<api, stored, renews, peer>>

\* Fault: what nobody knows is ignored.
UnknownIgnored(n) ==
  /\ note[n].at = "missed" /\ pending = None
  /\ Goes(n, "done")
  /\ UNCHANGED <<ours, peer>>

\* It came before Observe had returned.
Early(n) == note[n].since \in {"observe", "answered"}

\* Nobody knows it: it is rejected, but without the observe option ignored.
Unknown(n) ==
  /\ note[n].at = "missed" /\ pending = None
  /\ Over(n, FALSE, IF note[n].kind = "end" THEN None ELSE IF Early(n) THEN "early" ELSE "unknown")
  /\ UNCHANGED <<ours, peer>>

Handler(n) ==
  Retrieve(n) \/ Dispatch(n) \/ Heard(n) \/ CallbackFails(n) \/ Claimed(n) \/ Unknown(n)

Next ==
  \/ Observe \/ Delete \/ Api
  \/ PeerRegisters \/ PeerCancels
  \/ \E r \in {"observe", "cancel"} : AckArrives(r)
  \/ \E n \in Notes :
       PeerNotifies(n) \/ PeerRejected(n) \/ Forgotten(n) \/ PeerGivesUp(n)
       \/ Arrive(n) \/ Handler(n)

\* Sends end and handlers run to their end; a peer that observes goes on to notify,
\* and the network does not lose every notification or every Reset.
Fairness ==
  /\ WF_vars(Api)
  /\ \A n \in Notes :
       /\ WF_vars(Handler(n)) /\ WF_vars(PeerNotifies(n)) /\ WF_vars(Forgotten(n))
       /\ SF_vars(Arrive(n)) /\ SF_vars(PeerRejected(n))

Spec     == Init /\ [][Next]_vars
FairSpec == Spec /\ Fairness

-----------------------------------------------------------------------------
(* Properties *)

Note == [ kind  : Kinds \cup {None},
          at    : {"unused", "sent", "big", "retrieving", "dispatched", "missed", "found", "done"},
          since : Apis \cup {None},
          heard : BOOLEAN,
          reset : Rejects \cup {None} ]

\* What is compared or tabled has its type, and a notification in use is of some kind;
\* a Send that has its answer is no longer in the table, to get another.
TypeOK ==
  /\ api \in Apis
  /\ pending \in {None, "observe", "cancel"}
  /\ chan \in {None, "registered", "refused", "note", "cancelled"}
  /\ stored \in BOOLEAN /\ renews \in BOOLEAN /\ observed \in BOOLEAN
  /\ request \in [{"observe", "cancel"} -> {"none", "sent", "done", "refused"}]
  /\ dropped \in Reasons \cup {None}
  /\ note \in [Notes -> Note]
  /\ \A n \in Notes : note[n].at = "unused" <=> note[n].kind = None
  /\ chan # None => pending = None

\* While an observation is in place, from the arrival of a notification to the end
\* of its handler, the callback hears of it: no other Send, and no failed retrieval of
\* its blocks, takes it away. Only a message without the observe option is not heard.
SteadyIsHeard ==
  api = "observing" =>
    \A n \in Notes :
      note[n].at = "done" /\ note[n].since = "observing" /\ note[n].kind # "end" => note[n].heard

\* An observation that the application holds is dropped by the peer only because of
\* the peer, because of the callback, or because a notification came, and was looked up,
\* before Observe had stored the observation.
DropsHaveReason ==
  api = "observing" /\ request["observe"] = "done" /\ ~observed =>
    dropped \in {"resource gone", "gave up", "callback failed", "early"}

\* What is cancelled, or has failed to start, ends at the peer too, even if the
\* cancellation never arrives and its answer was really a notification: what the peer
\* sends is rejected, but where ObserveNotFoundCallback brings the observation back.
CancelSticks == api \in {"ended", "failed"} /\ ~renews ~> []~observed
=============================================================================
