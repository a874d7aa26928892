---------------------------- MODULE ObserveProofs ----------------------------
(* Proofs about Observe, for every set of notifications of every kind. *)
EXTENDS Observe, TLAPS

-----------------------------------------------------------------------------
(* What the safety properties rest on: with them, an invariant that every step *)
(* preserves.                                                                   *)

\* The observation is in observeMap from the end of Observe to ObserveCancel.
StoredWhileObserving == api = "observing" => stored

\* A notification comes after the registration has been sent, and what a handler
\* remembers of the application is where that has been, not where it will be.
ArrivalsInOrder ==
  /\ api = "idle" => request["observe"] = "none" /\ ~observed
  /\ api = "idle" => \A n \in Notes : note[n] = Unused
  /\ api \in {"observe", "answered"} => \A n \in Notes : note[n].since \in {None, "observe", "answered"}
  /\ api = "observing" => \A n \in Notes : note[n].since \in {None, "observe", "answered", "observing"}
  /\ \A n \in Notes : note[n].at \notin {"unused", "sent"} => note[n].since # None

\* The handler of a notification that came to an observation in place is on its way
\* to the callback.
SteadyFindsCallback ==
  api = "observing" =>
    \A n \in Notes :
      note[n].since = "observing" /\ note[n].kind # "end" => note[n].at # "missed"

\* Until ObserveCancel, nothing that was sent makes the peer drop the observation as
\* cancelled or unknown; and it is not dropped without a reason.
NothingCancelled ==
  /\ api \in {"idle", "observe", "answered", "observing"} =>
       /\ request["cancel"] = "none"
       /\ dropped \notin {"cancelled", "unknown"}
       /\ \A n \in Notes : note[n].reset # "unknown"
  /\ request["observe"] = "done" /\ ~observed => dropped # None

Inductive ==
  /\ TypeOK
  /\ StoredWhileObserving /\ ArrivalsInOrder /\ SteadyFindsCallback /\ NothingCancelled
  /\ SteadyIsHeard

-----------------------------------------------------------------------------
(* The fields of a notification after each kind of step. *)

\* Only notification n is touched.
OnlyNote(n) ==
  /\ note' \in [Notes -> Note]
  /\ \A m \in Notes \ {n} : note'[m] = note[m]

LEMMA NoteGoes ==
  ASSUME TypeOK, NEW n \in Notes,
         NEW at \in {"retrieving", "dispatched", "missed", "found", "done"}, Goes(n, at)
  PROVE  /\ OnlyNote(n)
         /\ note'[n].at = at /\ note'[n].kind = note[n].kind /\ note'[n].since = note[n].since
         /\ note'[n].heard = note[n].heard /\ note'[n].reset = note[n].reset
BY DEF TypeOK, Note, Goes, OnlyNote

LEMMA NoteOver ==
  ASSUME TypeOK, NEW n \in Notes, NEW heard \in BOOLEAN, NEW why \in Rejects \cup {None},
         Over(n, heard, why)
  PROVE  /\ OnlyNote(n)
         /\ note'[n].kind = note[n].kind /\ note'[n].since = note[n].since
         /\ note'[n].at = "done" /\ note'[n].heard = heard /\ note'[n].reset = why
<1> DEFINE old == note[n]
           new == [old EXCEPT !.at = "done", !.heard = heard, !.reset = why]
<1>1. note \in [Notes -> Note] /\ old \in Note
  BY DEF TypeOK
<1>2. /\ new \in Note /\ new.kind = old.kind /\ new.since = old.since
      /\ new.at = "done" /\ new.heard = heard /\ new.reset = why
  <2> HIDE DEF old
  <2> QED
    BY <1>1 DEF Note
<1>3. note' = [note EXCEPT ![n] = new]
  BY <1>1 DEF Over
<1> HIDE DEF new, old
<1>4. note' \in [Notes -> Note] /\ note'[n] = new /\ \A m \in Notes \ {n} : note'[m] = note[m]
  BY <1>1, <1>2, <1>3
<1> QED
  BY <1>2, <1>4 DEF OnlyNote, old

LEMMA NoteArrives ==
  ASSUME TypeOK, NEW n \in Notes, Arrive(n)
  PROVE  /\ OnlyNote(n)
         /\ note'[n].kind = note[n].kind /\ note'[n].since = api
         /\ note'[n].heard = note[n].heard /\ note'[n].reset = note[n].reset
         /\ note'[n].at = IF Big(n) THEN "big" ELSE IF note[n].kind = "end" THEN "missed" ELSE "dispatched"
BY DEF TypeOK, Note, Arrive, OnlyNote

LEMMA NoteFresh ==
  ASSUME TypeOK, NEW n \in Notes, NEW kind \in Kinds \cup {None}, NEW at \in {"unused", "sent"},
         note' = [note EXCEPT ![n] = Fresh(kind, at)]
  PROVE  /\ OnlyNote(n)
         /\ note'[n].kind = kind /\ note'[n].at = at /\ note'[n].since = None
         /\ note'[n].heard = FALSE /\ note'[n].reset = None
BY DEF TypeOK, Note, Fresh, OnlyNote

-----------------------------------------------------------------------------
(* The table, the channel and the notifications keep their types. *)

LEMMA TypeInit == Init => TypeOK
<1> SUFFICES ASSUME Init PROVE TypeOK
  OBVIOUS
<1>1. Unused \in Note /\ Unused.at = "unused" /\ Unused.kind = None
  BY DEF Unused, Fresh, Note
<1>2. note \in [Notes -> Note] /\ \A n \in Notes : note[n] = Unused
  BY <1>1 DEF Init
<1> QED
  BY <1>1, <1>2 DEF Init, TypeOK, Apis

LEMMA NotesTyped ==
  ASSUME TypeOK, NEW n \in Notes, OnlyNote(n), note'[n].at = "unused" <=> note'[n].kind = None
  PROVE  /\ note' \in [Notes -> Note]
         /\ \A m \in Notes : note'[m].at = "unused" <=> note'[m].kind = None
BY DEF TypeOK, OnlyNote

LEMMA TypeNext == TypeOK /\ [Next]_vars => TypeOK'
<1> SUFFICES ASSUME TypeOK, [Next]_vars
             PROVE  TypeOK'
  OBVIOUS
<1>1. CASE Observe \/ Delete \/ Api
  <2>1. CASE Observe
    BY <2>1 DEF TypeOK, Observe, Sends, Apis
  <2>2. CASE Delete
    BY <2>2 DEF TypeOK, Delete, Apis, peer
  <2>3. CASE Answered
    BY <2>3 DEF TypeOK, Answered, Apis, peer
  <2>4. CASE Fails \/ Store \/ Cancelled
    BY <2>4 DEF TypeOK, Fails, Store, Cancelled, Apis, peer
  <2>5. CASE SendCancel
    BY <2>5 DEF TypeOK, SendCancel, Sends, Apis
  <2> QED
    BY <1>1, <2>1, <2>2, <2>3, <2>4, <2>5 DEF Api
<1>2. CASE PeerRegisters \/ PeerCancels
  BY <1>2 DEF TypeOK, PeerRegisters, PeerCancels, Drops, Reasons, ours
<1>3. ASSUME NEW r \in {"observe", "cancel"}, AckArrives(r)
      PROVE  TypeOK'
  <2>1. stored' \in BOOLEAN
    BY <1>3 DEF AckArrives, TypeOK
  <2>2. /\ pending' \in {None, "observe", "cancel"}
        /\ chan' \in {None, "registered", "refused", "note", "cancelled"}
        /\ chan' # None => pending' = None
    BY <1>3 DEF AckArrives, Claims, Answer, TypeOK
  <2>3. /\ api' = api /\ renews' = renews /\ request' = request
        /\ observed' = observed /\ dropped' = dropped /\ note' = note
    BY <1>3 DEF AckArrives, peer
  <2> QED
    BY <2>1, <2>2, <2>3 DEF TypeOK
<1>4. ASSUME NEW n \in Notes, PeerNotifies(n)
      PROVE  TypeOK'
  <2>1. PICK kind \in Kinds : /\ note' = [note EXCEPT ![n] = Fresh(kind, "sent")]
                              /\ IF kind = "end" THEN Drops("resource gone")
                                                 ELSE UNCHANGED <<observed, dropped>>
    BY <1>4 DEF PeerNotifies
  <2>2. observed' \in BOOLEAN /\ dropped' \in Reasons \cup {None}
    BY <2>1 DEF Drops, Reasons, TypeOK
  <2> QED
    <3>1. OnlyNote(n) /\ note'[n].at = "sent" /\ note'[n].kind = kind /\ kind # None
      BY <2>1, NoteFresh, ObserveAssumption
    <3> QED
      BY <1>4, <2>2, <3>1, NotesTyped DEF TypeOK, PeerNotifies, ours
<1>5. ASSUME NEW n \in Notes, PeerRejected(n) \/ Forgotten(n) \/ PeerGivesUp(n)
      PROVE  TypeOK'
  <2>1. note[n].reset \in Rejects \cup {None}
    BY DEF TypeOK, Note
  <2>2. observed' \in BOOLEAN /\ dropped' \in Reasons \cup {None}
    BY <1>5, <2>1 DEF PeerRejected, Forgotten, PeerGivesUp, Drops, Reasons, TypeOK, peer
  <2>3. note' = [note EXCEPT ![n] = Fresh(None, "unused")]
    BY <1>5 DEF PeerRejected, Forgotten, PeerGivesUp, Unused
  <2> QED
    <3>1. OnlyNote(n) /\ note'[n].at = "unused" /\ note'[n].kind = None
      BY <2>3, NoteFresh
    <3> QED
      BY <1>5, <2>2, <3>1, NotesTyped DEF TypeOK, PeerRejected, Forgotten, PeerGivesUp, ours, peer
<1>6. ASSUME NEW n \in Notes, Arrive(n)
      PROVE  TypeOK'
  <2>1. OnlyNote(n) /\ note'[n].at # "unused" /\ note'[n].kind = note[n].kind
    BY <1>6, NoteArrives
  <2>2. note[n].kind # None
    BY <1>6 DEF Arrive, TypeOK
  <2> QED
    BY <1>6, <2>1, <2>2, NotesTyped DEF TypeOK, Arrive, ours, peer
<1>7. ASSUME NEW n \in Notes, Retrieve(n) \/ Dispatch(n) \/ Claimed(n)
      PROVE  TypeOK'
  <2>1. note[n].at # "unused"
    BY <1>7 DEF Retrieve, Dispatch, Claimed
  <2>2. PICK at \in {"retrieving", "dispatched", "missed", "found", "done"} : Goes(n, at)
    BY <1>7 DEF Retrieve, Dispatch, Claimed, Lookup
  <2>3. /\ stored' \in BOOLEAN /\ pending' \in {None, "observe", "cancel"}
        /\ chan' \in {None, "registered", "refused", "note", "cancelled"}
        /\ chan' # None => pending' = None
    BY <1>7 DEF Retrieve, Dispatch, Claimed, Lookup, Claims, TypeOK
  <2> QED
    <3>1. OnlyNote(n) /\ note'[n].at # "unused" /\ note'[n].kind = note[n].kind
      BY <2>2, NoteGoes
    <3>2. note[n].kind # None
      BY <2>1 DEF TypeOK
    <3> QED
      BY <1>7, <2>3, <3>1, <3>2, NotesTyped DEF TypeOK, Retrieve, Dispatch, Claimed, peer
<1>8. ASSUME NEW n \in Notes, Heard(n) \/ CallbackFails(n) \/ Unknown(n)
      PROVE  TypeOK'
  <2>1. PICK heard \in BOOLEAN, why \in Rejects \cup {None} : Over(n, heard, why)
    BY <1>8 DEF Heard, CallbackFails, Unknown, Rejects
  <2>2. note[n].at # "unused"
    BY <1>8 DEF Heard, CallbackFails, Unknown
  <2> QED
    <3>1. OnlyNote(n) /\ note'[n].at # "unused" /\ note'[n].kind = note[n].kind
      BY <2>1, NoteOver
    <3>2. note[n].kind # None
      BY <2>2 DEF TypeOK
    <3> QED
      BY <1>8, <3>1, <3>2, NotesTyped DEF TypeOK, Heard, CallbackFails, Unknown, ours, peer
<1>9. CASE UNCHANGED vars
  BY <1>9 DEF TypeOK, vars, ours, peer
<1> QED
  BY <1>1, <1>2, <1>3, <1>4, <1>5, <1>6, <1>7, <1>8, <1>9 DEF Next, Handler

\* What is compared, tabled or put into a channel has its type, a notification is in
\* use exactly when it is of some kind, and what has an answer is not in the table.
THEOREM TypeCorrect == Spec => []TypeOK
<1>1. Init => TypeOK
  BY TypeInit
<1>2. TypeOK /\ [Next]_vars => TypeOK'
  BY TypeNext
<1> QED
  BY <1>1, <1>2, PTL DEF Spec

-----------------------------------------------------------------------------
(* The inductive invariant, action by action. *)

Rest == /\ StoredWhileObserving /\ ArrivalsInOrder /\ SteadyFindsCallback
        /\ NothingCancelled /\ SteadyIsHeard

LEMMA InductiveInit == Init => Inductive
<1> SUFFICES ASSUME Init PROVE Inductive
  OBVIOUS
<1>1. TypeOK
  BY TypeInit
<1>2. \A n \in Notes : /\ note[n] = Unused /\ note[n].at = "unused"
                       /\ note[n].since = None /\ note[n].reset = None
  BY DEF Init, Unused, Fresh
<1>3. ArrivalsInOrder /\ NothingCancelled
  BY <1>2, ObserveAssumption DEF Init, ArrivalsInOrder, NothingCancelled, Reasons, Rejects
<1>4. StoredWhileObserving /\ SteadyFindsCallback /\ SteadyIsHeard
  BY DEF Init, StoredWhileObserving, SteadyFindsCallback, SteadyIsHeard
<1> QED
  BY <1>1, <1>3, <1>4 DEF Inductive

(* The application: when Observe has stored the observation, no notification has come *)
(* to it yet.                                                                         *)
LEMMA ApplicationStep ==
  ASSUME Inductive, Observe \/ Delete \/ Api
  PROVE  Rest'
<1>1. /\ note' = note /\ observed' = observed /\ dropped' = dropped
  BY DEF Observe, Delete, Api, Answered, Fails, Store, SendCancel, Cancelled, Sends, peer
<1>2. StoredWhileObserving'
  BY DEF Inductive, StoredWhileObserving, Observe, Delete, Api, Answered, Fails, Store,
         SendCancel, Cancelled
<1>3. CASE Observe
  <2>1. /\ api = "idle" /\ api' = "observe"
        /\ request' = [request EXCEPT !["observe"] = "sent"]
    BY <1>3 DEF Observe, Sends
  <2>2. \A n \in Notes : note[n].at = "unused" /\ note[n].since = None
    BY <2>1 DEF Inductive, ArrivalsInOrder, Unused, Fresh
  <2> QED
    BY <1>1, <1>2, <2>1, <2>2
       DEF Rest, Inductive, TypeOK, ArrivalsInOrder, SteadyFindsCallback, NothingCancelled,
           SteadyIsHeard
<1>4. CASE Delete \/ Fails \/ SendCancel \/ Cancelled
  <2>1. /\ api' \notin {"idle", "observe", "answered", "observing"}
        /\ request'["observe"] = request["observe"]
    BY <1>4 DEF Delete, Fails, SendCancel, Cancelled, Sends, peer, Inductive, TypeOK
  <2> QED
    BY <1>1, <1>2, <2>1
       DEF Rest, Inductive, ArrivalsInOrder, SteadyFindsCallback, NothingCancelled, SteadyIsHeard
<1>5. CASE Answered
  <2>1. api = "observe" /\ api' \in {"failed", "answered"} /\ request' = request
    BY <1>5 DEF Answered, peer
  <2> QED
    BY <1>1, <1>2, <2>1
       DEF Rest, Inductive, ArrivalsInOrder, SteadyFindsCallback, NothingCancelled, SteadyIsHeard
<1>6. CASE Store
  <2>1. api = "answered" /\ api' = "observing" /\ request' = request
    BY <1>6 DEF Store, peer
  <2>2. \A n \in Notes : note[n].since \in {None, "observe", "answered"}
    BY <2>1 DEF Inductive, ArrivalsInOrder
  <2>3. \A n \in Notes : note[n].since # "observing"
    BY <2>2, ObserveAssumption DEF Apis
  <2> QED
    BY <1>1, <1>2, <2>1, <2>2, <2>3
       DEF Rest, Inductive, ArrivalsInOrder, SteadyFindsCallback, NothingCancelled, SteadyIsHeard
<1> QED
  BY <1>3, <1>4, <1>5, <1>6 DEF Api

(* The peer: it drops what it observed for a reason it has been given. *)
LEMMA PeerStep ==
  ASSUME Inductive, PeerRegisters \/ PeerCancels \/ \E r \in {"observe", "cancel"} : AckArrives(r)
  PROVE  Rest'
<1>1. note' = note /\ api' = api /\ (stored => stored')
  <2>1. CASE PeerRegisters \/ PeerCancels
    BY <2>1 DEF PeerRegisters, PeerCancels, ours
  <2>2. ASSUME NEW r \in {"observe", "cancel"}, AckArrives(r)
        PROVE  note' = note /\ api' = api /\ (stored => stored')
    <3>1. note' = note /\ api' = api
      BY <2>2 DEF AckArrives, peer
    <3>2. ASSUME stored PROVE stored'
      <4>1. stored' = stored \/ stored' = TRUE
        BY <2>2 DEF AckArrives
      <4> QED
        BY <3>2, <4>1, ZenonT(10)
    <3> QED
      BY <3>1, <3>2
  <2> QED
    BY <2>1, <2>2
<1>2. CASE PeerRegisters
  <2>1. api # "idle" /\ request'["cancel"] = request["cancel"] /\ dropped' = dropped
    BY <1>2 DEF PeerRegisters, Inductive, ArrivalsInOrder, TypeOK
  <2>2. request'["observe"] = "done" => observed'
    BY <1>2 DEF PeerRegisters, Inductive, TypeOK
  <2> QED
    BY <1>1, <2>1, <2>2
       DEF Rest, Inductive, StoredWhileObserving, ArrivalsInOrder, SteadyFindsCallback,
           NothingCancelled, SteadyIsHeard
<1>3. CASE PeerCancels
  <2>1. request["cancel"] = "sent" /\ request'["observe"] = request["observe"]
    BY <1>3 DEF PeerCancels, Inductive, TypeOK
  <2>2. api \notin {"idle", "observe", "answered", "observing"}
    BY <2>1 DEF Inductive, NothingCancelled
  <2>3. observed' = FALSE /\ dropped' = IF observed THEN "cancelled" ELSE dropped
    BY <1>3 DEF PeerCancels, Drops
  <2>4. request'["observe"] = "done" => dropped' # None
    BY <2>1, <2>3, ObserveAssumption DEF Inductive, NothingCancelled, Reasons
  <2> QED
    BY <1>1, <2>2, <2>4
       DEF Rest, Inductive, StoredWhileObserving, ArrivalsInOrder, SteadyFindsCallback,
           NothingCancelled, SteadyIsHeard
<1>4. CASE \E r \in {"observe", "cancel"} : AckArrives(r)
  BY <1>1, <1>4
     DEF Rest, AckArrives, peer, Inductive, StoredWhileObserving, ArrivalsInOrder,
         SteadyFindsCallback, NothingCancelled, SteadyIsHeard
<1> QED
  BY <1>2, <1>3, <1>4

(* A notification is sent, lost, given up or rejected. *)
LEMMA NetworkStep ==
  ASSUME Inductive, NEW n \in Notes,
         PeerNotifies(n) \/ PeerRejected(n) \/ Forgotten(n) \/ PeerGivesUp(n)
  PROVE  Rest'
<1>1. /\ api' = api /\ stored' = stored /\ request' = request
  BY DEF PeerNotifies, PeerRejected, Forgotten, PeerGivesUp, ours, peer
<1>2. /\ OnlyNote(n) /\ note'[n].since = None /\ note'[n].reset = None
      /\ note'[n].at \in {"unused", "sent"}
      /\ api # "idle"
  <2>1. CASE PeerNotifies(n)
    <3>1. PICK kind \in Kinds : note' = [note EXCEPT ![n] = Fresh(kind, "sent")]
      BY <2>1 DEF PeerNotifies
    <3>2. api # "idle"
      BY <2>1 DEF PeerNotifies, Inductive, ArrivalsInOrder
    <3> QED
      BY <3>1, <3>2, NoteFresh DEF Inductive
  <2>2. CASE PeerRejected(n) \/ Forgotten(n) \/ PeerGivesUp(n)
    <3>1. note' = [note EXCEPT ![n] = Fresh(None, "unused")]
      BY <2>2 DEF PeerRejected, Forgotten, PeerGivesUp, Unused
    <3>2. note[n].at # "unused"
      BY <2>2 DEF PeerRejected, Forgotten, PeerGivesUp
    <3>3. api # "idle"
      BY <3>2 DEF Inductive, ArrivalsInOrder, Unused, Fresh
    <3> QED
      BY <3>1, <3>3, NoteFresh DEF Inductive
  <2> QED
    BY <2>1, <2>2
<1>3. \/ observed' = observed /\ dropped' = dropped
      \/ \E why \in {"resource gone", "gave up", note[n].reset} : why # None /\ Drops(why)
  BY ObserveAssumption
     DEF PeerNotifies, PeerRejected, Forgotten, PeerGivesUp, peer, Reasons
<1>4. \/ observed' = observed /\ dropped' = dropped
      \/ /\ ~observed'
         /\ \/ dropped' = dropped /\ ~observed
            \/ dropped' # None /\ dropped' \in {"resource gone", "gave up", note[n].reset}
  BY <1>3 DEF Drops, Inductive, TypeOK
<1>5. \A m \in Notes : m # n => note'[m] = note[m]
  BY <1>2 DEF OnlyNote
<1>6. StoredWhileObserving' /\ SteadyFindsCallback' /\ SteadyIsHeard'
  BY <1>1, <1>2, <1>5
     DEF Inductive, StoredWhileObserving, SteadyFindsCallback, SteadyIsHeard
<1>7. ArrivalsInOrder'
  <2>1. ASSUME NEW m \in Notes
        PROVE  /\ note'[m].since \in {None, note[m].since}
               /\ note'[m].at \notin {"unused", "sent"} => note'[m].since # None
    BY <1>2, <1>5 DEF Inductive, ArrivalsInOrder
  <2> QED
    BY <1>1, <1>2, <2>1 DEF Inductive, ArrivalsInOrder
<1>8. NothingCancelled'
  <2>1. CASE observed' = observed /\ dropped' = dropped
    BY <1>1, <1>2, <1>5, <2>1, ObserveAssumption DEF Inductive, NothingCancelled, Reasons, Rejects
  <2>2. CASE ~(observed' = observed /\ dropped' = dropped)
    <3>1. \/ dropped' # None /\ dropped' \in {"resource gone", "gave up", note[n].reset}
          \/ dropped' = dropped /\ ~observed
      BY <1>4, <2>2
    <3>2. note[n].reset \in Rejects \cup {None}
      BY DEF Inductive, TypeOK, Note
    <3> QED
      BY <1>1, <1>2, <1>5, <3>1, <3>2, ObserveAssumption DEF Inductive, NothingCancelled, Rejects, Reasons
  <2> QED
    BY <2>1, <2>2
<1> QED
  BY <1>6, <1>7, <1>8 DEF Rest

(* A handler: where the application holds the observation, the way leads to the callback. *)
LEMMA HandlerStep ==
  ASSUME Inductive, NEW n \in Notes, Arrive(n) \/ Handler(n)
  PROVE  Rest'
<1>1. /\ api' = api /\ request' = request /\ observed' = observed /\ dropped' = dropped
      /\ stored => stored'
  <2>1. CASE Arrive(n) \/ Heard(n) \/ CallbackFails(n) \/ Unknown(n)
    <3>1. UNCHANGED <<ours, peer>>
      BY <2>1 DEF Arrive, Heard, CallbackFails, Unknown
    <3> QED
      BY <3>1 DEF ours, peer
  <2>2. CASE Retrieve(n)
    BY <2>2 DEF Retrieve, Lookup, peer
  <2>3. CASE Dispatch(n)
    BY <2>3 DEF Dispatch, Lookup, peer
  <2>4. CASE Claimed(n)
    BY <2>4 DEF Claimed, peer
  <2>5. Arrive(n) \/ Heard(n) \/ CallbackFails(n) \/ Claimed(n) \/ Unknown(n)
        \/ Retrieve(n) \/ Dispatch(n)
    BY DEF Handler
  <2> QED
    BY <2>1, <2>2, <2>3, <2>4, <2>5
<1>2. api # "idle" /\ note[n].at # "unused" /\ StoredWhileObserving /\ TypeOK
  <2>1. note[n].at # "unused"
    BY DEF Arrive, Handler, Retrieve, Dispatch, Heard, CallbackFails, Claimed, Unknown
  <2> QED
    BY <2>1 DEF Inductive, ArrivalsInOrder, Unused, Fresh
<1>3. CASE Arrive(n)
  <2>1. /\ OnlyNote(n) /\ note'[n].since = api /\ note'[n].reset = note[n].reset
        /\ note'[n].kind = note[n].kind
        /\ note'[n].at \in {"big", "missed", "dispatched"}
        /\ note'[n].at = "missed" => note[n].kind = "end"
    BY <1>2, <1>3, NoteArrives
  <2>2. \A m \in Notes : m # n => note'[m] = note[m]
    BY <2>1 DEF OnlyNote
  <2>3. ArrivalsInOrder'
    <3>1. api # None
      BY <1>2, ObserveAssumption DEF TypeOK
    <3> QED
      BY <1>1, <1>2, <2>1, <2>2, <3>1 DEF Inductive, ArrivalsInOrder
  <2> QED
    BY <1>1, <2>1, <2>2, <2>3
       DEF Rest, Inductive, StoredWhileObserving, SteadyFindsCallback, NothingCancelled,
           SteadyIsHeard
<1>4. CASE Handler(n)
  <2>1. /\ OnlyNote(n) /\ note'[n].since = note[n].since /\ note'[n].kind = note[n].kind
        /\ note'[n].at \in {"missed", "found", "done", "retrieving", "dispatched"}
        /\ api = "observing" => note'[n].at # "missed"
        /\ note'[n].at = "done" => note[n].at = "missed" \/ note'[n].heard
        /\ note'[n].reset = "unknown" => note[n].reset = "unknown"
             \/ (note[n].at = "missed" /\ note[n].kind # "end" /\ note[n].since \notin {"observe", "answered"})
    <3>1. CASE Retrieve(n) \/ Dispatch(n) \/ Claimed(n)
      <4>1. PICK at \in {"retrieving", "dispatched", "missed", "found", "done"} :
              /\ Goes(n, at)
              /\ api = "observing" => at # "missed"
              /\ at = "done" => note[n].at = "missed"
        BY <3>1, <1>2 DEF Retrieve, Dispatch, Claimed, Lookup, StoredWhileObserving
      <4> QED
        BY <1>2, <3>1, <4>1, NoteGoes
    <3>2. CASE Heard(n) \/ CallbackFails(n) \/ Unknown(n)
      <4>1. CASE Heard(n)
        <5>1. Over(n, TRUE, None)
          BY <4>1 DEF Heard
        <5>2. OnlyNote(n) /\ note'[n].since = note[n].since /\ note'[n].kind = note[n].kind
              /\ note'[n].at = "done" /\ note'[n].heard /\ note'[n].reset = None
          BY <1>2, <5>1, NoteOver
        <5> QED
          BY <5>2, ObserveAssumption DEF Reasons, Rejects
      <4>2. CASE CallbackFails(n)
        <5>1. Over(n, TRUE, "callback failed")
          BY <4>2 DEF CallbackFails
        <5>2. OnlyNote(n) /\ note'[n].since = note[n].since /\ note'[n].kind = note[n].kind
              /\ note'[n].at = "done" /\ note'[n].heard /\ note'[n].reset = "callback failed"
          BY <1>2, <5>1, NoteOver DEF Rejects
        <5> QED
          BY <5>2
      <4>3. CASE Unknown(n)
        <5>1. note[n].at = "missed"
          BY <4>3 DEF Unknown
        <5>2. CASE note[n].kind = "end"
          <6>1. Over(n, FALSE, None)
            BY <4>3, <5>2 DEF Unknown
          <6> QED
            <7>1. OnlyNote(n) /\ note'[n].since = note[n].since /\ note'[n].kind = note[n].kind
                  /\ note'[n].at = "done" /\ note'[n].heard = FALSE /\ note'[n].reset = None
              BY <1>2, <6>1, NoteOver
            <7> QED
              BY <5>1, <7>1, ObserveAssumption DEF Reasons, Rejects
        <5>3. CASE note[n].kind # "end" /\ Early(n)
          <6>1. Over(n, FALSE, "early")
            BY <4>3, <5>3 DEF Unknown
          <6> QED
            <7>1. OnlyNote(n) /\ note'[n].since = note[n].since /\ note'[n].kind = note[n].kind
                  /\ note'[n].at = "done" /\ note'[n].heard = FALSE /\ note'[n].reset = "early"
              BY <1>2, <6>1, NoteOver DEF Rejects
            <7> QED
              BY <5>1, <7>1
        <5>4. CASE note[n].kind # "end" /\ ~Early(n)
          <6>1. Over(n, FALSE, "unknown")
            BY <4>3, <5>4 DEF Unknown
          <6> QED
            <7>1. OnlyNote(n) /\ note'[n].since = note[n].since /\ note'[n].kind = note[n].kind
                  /\ note'[n].at = "done" /\ note'[n].heard = FALSE /\ note'[n].reset = "unknown"
              BY <1>2, <6>1, NoteOver DEF Rejects
            <7> QED
              BY <5>1, <5>4, <7>1 DEF Early
        <5> QED
          BY <5>2, <5>3, <5>4
      <4> QED
        BY <3>2, <4>1, <4>2, <4>3
    <3> QED
      BY <1>4, <3>1, <3>2 DEF Handler
  <2>2. \A m \in Notes : m # n => note'[m] = note[m]
    BY <2>1 DEF OnlyNote
  <2>3. note[n].at # "sent"
    BY <1>4 DEF Handler, Retrieve, Dispatch, Heard, CallbackFails, Claimed, Unknown
  <2>4. ArrivalsInOrder'
    BY <1>1, <1>2, <2>1, <2>2, <2>3 DEF Inductive, ArrivalsInOrder
  <2>5. StoredWhileObserving' /\ SteadyFindsCallback'
    BY <1>1, <2>1, <2>2 DEF Inductive, StoredWhileObserving, SteadyFindsCallback
  <2>6. SteadyIsHeard'
    BY <1>1, <2>1, <2>2 DEF Inductive, SteadyFindsCallback, SteadyIsHeard
  <2>7. api \in {"observe", "answered", "observing"} => note'[n].reset # "unknown"
    <3>1. note[n].since # None
      BY <1>2, <2>3 DEF Inductive, ArrivalsInOrder
    <3> QED
      BY <2>1, <3>1 DEF Inductive, ArrivalsInOrder, SteadyFindsCallback, NothingCancelled, Early
  <2>8. NothingCancelled'
    BY <1>1, <1>2, <2>2, <2>7 DEF Inductive, NothingCancelled
  <2> QED
    BY <2>4, <2>5, <2>6, <2>8 DEF Rest
<1> QED
  BY <1>3, <1>4

LEMMA InductiveNext == Inductive /\ [Next]_vars => Inductive'
<1> SUFFICES ASSUME Inductive, [Next]_vars
             PROVE  Inductive'
  OBVIOUS
<1>1. TypeOK'
  BY TypeNext DEF Inductive
<1>2. Rest'
  <2>1. CASE UNCHANGED vars
    BY <2>1
       DEF vars, ours, peer, Rest, Inductive, StoredWhileObserving, ArrivalsInOrder,
           SteadyFindsCallback, NothingCancelled, SteadyIsHeard
  <2> QED
    BY <2>1, ApplicationStep, PeerStep, NetworkStep, HandlerStep DEF Next
<1> QED
  BY <1>1, <1>2 DEF Inductive, Rest

LEMMA AlwaysInductive == Spec => []Inductive
<1> QED
  BY InductiveInit, InductiveNext, PTL DEF Spec

\* A notification of an observation in place is heard, however its handler, those of
\* other notifications, the application and the peer interleave.
THEOREM SteadyIsHeardCorrect == Spec => []SteadyIsHeard
<1>1. Inductive => SteadyIsHeard
  BY DEF Inductive
<1> QED
  BY <1>1, AlwaysInductive, PTL

\* The peer drops an observation that the application holds only for one of the
\* reasons that are not ours to prevent.
THEOREM DropsHaveReasonCorrect == Spec => []DropsHaveReason
<1>1. Inductive => DropsHaveReason
  BY DEF Inductive, TypeOK, NothingCancelled, DropsHaveReason, Reasons, Rejects
<1> QED
  BY <1>1, AlwaysInductive, PTL
=============================================================================
