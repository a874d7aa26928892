---------------------------- MODULE DedupProofs ----------------------------
(* Proofs about Dedup, for any messages and any copies of them. *)
EXTENDS Dedup, TLAPS

-----------------------------------------------------------------------------
(* What the safety properties rest on: with them, an invariant that every step *)
(* preserves.                                                                   *)

\* An entry is a copy whose handler ran, under its own message ID and in its own
\* endpoint; where a copy was recorded an entry stays.
RecordsSound ==
  /\ \A c \in Copies : Recorded(c) => Found(c) # None
  /\ \A e \in 1 .. made : \A m \in Mids : \A d \in Copies :
       entries[e][m] = d => Recorded(d) /\ ep[d] = e /\ Mid[d] = m
  /\ \A c \in Copies : \A d \in before[c] : Recorded(d)

\* A deadline stored for the endpoint in the map is not about to be removed.
DeadlineKept ==
  \A c \in Copies :
    /\ pc[c] \in {"scheduled", "running", "finished"}
    /\ ep[c] = endpoint
    /\ endpoint # 0
    => (deleteAfter # "none" /\ watcher # "deleted") \/ overtaken

Inductive == TypeOK /\ RecordsSound /\ DeadlineKept /\ LaterCopiesOnce /\ DuplicateHasOriginal

-----------------------------------------------------------------------------
Places == {"away", "arrived", "missed", "replayed", "ignored", "scheduled", "running",
           "finished"}

LEMMA InductiveInit == Init => Inductive
<1> SUFFICES ASSUME Init PROVE Inductive
  OBVIOUS
<1>1. TypeOK
  <2>1. overtaken \in BOOLEAN
    BY Zenon DEF Init
  <2> QED
    BY <2>1 DEF Init, TypeOK
<1>2. RecordsSound /\ DeadlineKept /\ LaterCopiesOnce /\ DuplicateHasOriginal
  BY DEF Init, RecordsSound, DeadlineKept, LaterCopiesOnce, DuplicateHasOriginal, Recorded
<1> QED
  BY <1>1, <1>2 DEF Inductive

-----------------------------------------------------------------------------
(* The inductive invariant, action by action. *)

(* What a lookup that leads to one of these places has found. *)
LookedUp(c, to) ==
  \/ to = "missed"   /\ Found(c) = None
  \/ to = "replayed" /\ Found(c) # None /\ Found(c) \in saved
  \/ to = "ignored"  /\ Found(c) # None

(* A step of a handler from one place to another that leaves all tables alone: *)
(* the lookup, and the end of the handler.                                     *)
LEMMA HandlerStep ==
  ASSUME Inductive, NEW c \in Copies, NEW from \in Places, NEW to \in Places,
         Step(c, from, to),
         \/ from = "arrived" /\ LookedUp(c, to) /\ saved' = saved
         \/ from = "running" /\ to = "finished" /\ saved' \in {saved, saved \cup {c}},
         UNCHANGED <<made, endpoint, entries, deleteAfter, ep, watcher, before, overtaken>>
  PROVE  Inductive'
<1>1. \A d \in Copies : pc'[d] = IF d = c THEN to ELSE pc[d]
  BY DEF Step, Inductive, TypeOK
<1>2. pc[c] = from
  BY DEF Step
<1>3. \A d \in Copies : Recorded(d)' <=> Recorded(d)
  BY <1>1, <1>2 DEF Recorded, LookedUp
<1>4. TypeOK'
  <2>1. pc' \in [Copies -> Places]
    BY DEF Step, Inductive, TypeOK, Places
  <2>2. saved' \subseteq Copies
    BY DEF Inductive, TypeOK
  <2>3. \A d \in Copies : pc'[d] # "away" => ep[d] # 0
    BY <1>1, <1>2 DEF Inductive, TypeOK
  <2>4. overtaken' \in BOOLEAN
    BY Zenon DEF Inductive, TypeOK
  <2> QED
    BY <2>1, <2>2, <2>3, <2>4 DEF Inductive, TypeOK, Places
<1>5. RecordsSound'
  BY <1>3 DEF Inductive, TypeOK, RecordsSound, Found
<1>6. DeadlineKept'
  BY <1>1, <1>2 DEF Inductive, DeadlineKept, LookedUp
<1>7. LaterCopiesOnce'
  <2> SUFFICES ASSUME NEW d \in Copies, NEW b \in before[d],
                      Executes(d)', Mid[d] = Mid[b]
               PROVE  ep[d] # ep[b]
    BY DEF LaterCopiesOnce
  <2>1. b \in Copies /\ Recorded(b)
    BY DEF Inductive, TypeOK, RecordsSound
  <2>2. CASE d = c /\ to = "missed" /\ from = "arrived"
    BY <2>1, <2>2 DEF Inductive, RecordsSound, Found, LookedUp
  <2>3. CASE ~(d = c /\ to = "missed" /\ from = "arrived")
    <3>1. Executes(d)
      BY <1>1, <1>2, <2>3 DEF Executes, LookedUp
    <3> QED
      BY <3>1 DEF Inductive, LaterCopiesOnce
  <2> QED
    BY <2>2, <2>3
<1>8. DuplicateHasOriginal'
  <2> SUFFICES ASSUME NEW d \in Copies, pc'[d] \in {"replayed", "ignored"}
               PROVE  \E o \in Copies \ {d} :
                        /\ Mid[o] = Mid[d] /\ ep[o] = ep[d] /\ Recorded(o)
                        /\ pc'[d] = "replayed" => o \in saved'
    BY <1>3 DEF DuplicateHasOriginal
  <2>1. CASE d = c
    <3>1. from = "arrived" /\ Found(c) # None /\ (to = "replayed" => Found(c) \in saved)
      BY <1>1, <2>1 DEF LookedUp
    <3>2. ep[c] \in 1 .. made /\ Mid[c] \in Mids
      BY <1>2, <3>1, DedupAssumption DEF Inductive, TypeOK
    <3>3. Found(c) \in Copies
      BY <3>1, <3>2 DEF Inductive, TypeOK, Found
    <3>4. Recorded(Found(c)) /\ ep[Found(c)] = ep[c] /\ Mid[Found(c)] = Mid[c]
      BY <3>1, <3>2, <3>3 DEF Inductive, RecordsSound, Found
    <3>5. Found(c) # c
      BY <1>2, <3>1, <3>4 DEF Recorded
    <3> QED
      BY <1>1, <2>1, <3>1, <3>3, <3>4, <3>5
  <2>2. CASE d # c
    BY <1>1, <2>2 DEF Inductive, DuplicateHasOriginal
  <2> QED
    BY <2>1, <2>2
<1> QED
  BY <1>4, <1>5, <1>6, <1>7, <1>8 DEF Inductive

(* A copy arrives: an endpoint is found, or an empty one is made. *)
LEMMA ArriveStep ==
  ASSUME Inductive, NEW c \in Copies, Arrive(c)
  PROVE  Inductive'
<1>1. /\ pc[c] = "away" /\ \A d \in Copies : pc'[d] = IF d = c THEN "arrived" ELSE pc[d]
      /\ \A d \in Copies : before'[d] = IF d = c THEN {b \in Copies : Recorded(b)} ELSE before[d]
      /\ UNCHANGED <<deleteAfter, saved, watcher, overtaken>>
  BY DEF Arrive, Step, Inductive, TypeOK
<1>2. /\ made \in Nat /\ endpoint \in 0 .. made
      /\ \/ made' = made /\ endpoint' = endpoint /\ entries' = entries /\ endpoint # 0
         \/ /\ made' = made + 1 /\ endpoint' = made + 1
            /\ \A e \in 1 .. made : entries'[e] = entries[e]
            /\ entries'[made + 1] = [m \in Mids |-> None]
  <2>1. made \in Nat /\ endpoint \in 0 .. made
    BY DEF Inductive, TypeOK
  <2>2. CASE endpoint # 0
    BY <2>1, <2>2 DEF Arrive, tables
  <2>3. CASE endpoint = 0
    BY <2>1, <2>3 DEF Arrive
  <2> QED
    BY <2>1, <2>2, <2>3
<1>3. /\ \A d \in Copies : ep'[d] = IF d = c THEN endpoint' ELSE ep[d]
      /\ endpoint' \in 1 .. made'
  <2>1. ep' = [ep EXCEPT ![c] = endpoint']
    BY DEF Arrive, tables
  <2> QED
    BY <1>2, <2>1 DEF Inductive, TypeOK
<1>4. \A d \in Copies : Recorded(d)' <=> Recorded(d)
  BY <1>1 DEF Recorded
<1>5. \A d \in Copies : Recorded(d) => d # c /\ ep'[d] = ep[d] /\ ep[d] \in 1 .. made
  BY <1>1, <1>3 DEF Recorded, Inductive, TypeOK
<1>6. TypeOK'
  <2>1. /\ pc' \in [Copies -> Places] /\ before' \in [Copies -> SUBSET Copies]
    BY DEF Arrive, Step, Inductive, TypeOK, Places
  <2>2. made' \in Nat /\ endpoint' \in 0 .. made'
    BY <1>2
  <2>3. entries' \in [1 .. made' -> [Mids -> Copies \cup {None}]]
    BY DEF Arrive, tables, Inductive, TypeOK
  <2>4. ep' \in [Copies -> 0 .. made']
    <3>1. ep' = [ep EXCEPT ![c] = endpoint']
      BY DEF Arrive, tables
    <3>2. made <= made'
      BY <1>2
    <3> QED
      BY <1>2, <1>3, <3>1, <3>2 DEF Inductive, TypeOK
  <2>5. \A d \in Copies : pc'[d] # "away" => ep'[d] # 0
    BY <1>1, <1>2, <1>3 DEF Inductive, TypeOK
  <2>6. overtaken' \in BOOLEAN
    BY <1>1, Zenon DEF Inductive, TypeOK
  <2> QED
    BY <1>1, <2>1, <2>2, <2>3, <2>4, <2>5, <2>6 DEF Inductive, TypeOK, Places
<1>7. RecordsSound'
  <2>1. ASSUME NEW d \in Copies, Recorded(d)
        PROVE  Found(d)' # None
    BY <1>2, <1>5, <2>1 DEF Inductive, RecordsSound, Found
  <2>2. ASSUME NEW e \in 1 .. made', NEW m \in Mids, NEW d \in Copies, entries'[e][m] = d
        PROVE  Recorded(d)' /\ ep'[d] = e /\ Mid[d] = m
    <3>1. e \in 1 .. made /\ entries[e][m] = d
      BY <1>2, <2>2, DedupAssumption
    <3> QED
      BY <1>4, <1>5, <3>1 DEF Inductive, RecordsSound
  <2>3. ASSUME NEW d \in Copies, NEW b \in before'[d]
        PROVE  Recorded(b)'
    <3>1. CASE d = c
      BY <1>1, <1>4, <3>1
    <3>2. CASE d # c
      <4>1. b \in before[d]
        BY <1>1, <3>2
      <4>2. b \in Copies /\ Recorded(b)
        BY <4>1 DEF Inductive, TypeOK, RecordsSound
      <4> QED
        BY <1>4, <4>2
    <3> QED
      BY <3>1, <3>2
  <2> QED
    BY <1>4, <2>1, <2>2, <2>3 DEF RecordsSound
<1>8. DeadlineKept'
  BY <1>1, <1>2, <1>3 DEF Inductive, TypeOK, DeadlineKept
<1>9. LaterCopiesOnce'
  <2>1. \A d \in Copies : Executes(d)' => d # c /\ Executes(d)
    BY <1>1 DEF Executes
  <2>2. \A d \in Copies : \A b \in before[d] : b \in Copies /\ ep'[b] = ep[b]
    BY <1>5 DEF Inductive, TypeOK, RecordsSound
  <2> SUFFICES ASSUME NEW d \in Copies, NEW b \in before'[d],
                      Executes(d)', Mid[d] = Mid[b]
               PROVE  ep'[d] # ep'[b]
    BY DEF LaterCopiesOnce
  <2>3. d # c /\ Executes(d)
    BY <2>1
  <2>4. b \in before[d] /\ ep'[d] = ep[d]
    BY <1>1, <1>3, <2>3
  <2>5. ep[d] # ep[b]
    BY <2>3, <2>4 DEF Inductive, LaterCopiesOnce
  <2> QED
    BY <2>2, <2>4, <2>5
<1>10. DuplicateHasOriginal'
  BY <1>1, <1>3, <1>4, <1>5 DEF Inductive, DuplicateHasOriginal
<1> QED
  BY <1>6, <1>7, <1>8, <1>9, <1>10 DEF Inductive

(* The deadline is stored: from here on it covers the endpoint of this copy. *)
LEMMA ScheduleStep ==
  ASSUME Inductive, NEW c \in Copies, Schedule(c)
  PROVE  Inductive'
<1>1. /\ pc[c] = "missed" /\ \A d \in Copies : pc'[d] = IF d = c THEN "scheduled" ELSE pc[d]
      /\ deleteAfter' = "future"
      /\ UNCHANGED <<made, endpoint, entries, ep, saved, watcher, before>>
  BY DEF Schedule, Step, Inductive, TypeOK, tables
<1>2. \A d \in Copies : (Recorded(d)' <=> Recorded(d)) /\ (Executes(d)' <=> Executes(d))
  BY <1>1 DEF Recorded, Executes
<1>3. TypeOK'
  <2>1. pc' \in [Copies -> Places]
    BY DEF Schedule, Step, Inductive, TypeOK, Places
  <2>2. overtaken' \in BOOLEAN
    BY Zenon DEF Schedule
  <2> QED
    BY <1>1, <2>1, <2>2 DEF Inductive, TypeOK, Places
<1>4. RecordsSound'
  <2>1. \A d \in Copies : Recorded(d)' => Found(d)' # None
    BY <1>1, <1>2 DEF Inductive, RecordsSound, Found
  <2>2. \A e \in 1 .. made : \A m \in Mids : \A d \in Copies :
          entries'[e][m] = d => Recorded(d)' /\ ep'[d] = e /\ Mid[d] = m
    BY <1>1, <1>2 DEF Inductive, RecordsSound
  <2>3. \A d \in Copies : \A b \in before'[d] : Recorded(b)'
    BY <1>1, <1>2 DEF Inductive, TypeOK, RecordsSound
  <2> QED
    BY <1>1, <2>1, <2>2, <2>3 DEF RecordsSound
<1>5. DeadlineKept'
  BY <1>1 DEF Schedule, DeadlineKept
<1>6. LaterCopiesOnce' /\ DuplicateHasOriginal'
  BY <1>1, <1>2 DEF Inductive, LaterCopiesOnce, DuplicateHasOriginal
<1> QED
  BY <1>3, <1>4, <1>5, <1>6 DEF Inductive

(* The entry is stored in the endpoint that the copy found when it arrived. *)
LEMMA RecordStep ==
  ASSUME Inductive, NEW c \in Copies, Record(c)
  PROVE  Inductive'
<1>1. /\ pc[c] = "scheduled" /\ \A d \in Copies : pc'[d] = IF d = c THEN "running" ELSE pc[d]
      /\ entries' = [entries EXCEPT ![ep[c]][Mid[c]] = c]
      /\ UNCHANGED <<made, endpoint, deleteAfter, ep, saved, watcher, before, overtaken>>
  BY DEF Record, Step, Inductive, TypeOK, history
<1>2. ep[c] \in 1 .. made /\ Mid[c] \in Mids /\ c # None
  BY <1>1, DedupAssumption DEF Inductive, TypeOK
<1>3. \A e \in 1 .. made : \A m \in Mids :
        entries'[e][m] = IF e = ep[c] /\ m = Mid[c] THEN c ELSE entries[e][m]
  BY <1>1, <1>2 DEF Inductive, TypeOK
<1>4. \A d \in Copies : /\ Recorded(d)' <=> d = c \/ Recorded(d)
                        /\ Executes(d)' <=> Executes(d)
  BY <1>1 DEF Recorded, Executes
<1>5. TypeOK'
  <2>1. pc' \in [Copies -> Places]
    BY DEF Record, Step, Inductive, TypeOK, Places
  <2>2. overtaken' \in BOOLEAN
    BY <1>1, Zenon DEF Inductive, TypeOK
  <2>3. entries' \in [1 .. made -> [Mids -> Copies \cup {None}]]
    BY <1>1, <1>2 DEF Inductive, TypeOK
  <2>4. \A d \in Copies : pc'[d] # "away" => ep[d] # 0
    BY <1>1, <1>2 DEF Inductive, TypeOK
  <2> QED
    BY <1>1, <2>1, <2>2, <2>3, <2>4 DEF Inductive, TypeOK, Places
<1>6. RecordsSound'
  <2>1. ASSUME NEW d \in Copies, Recorded(d)'
        PROVE  Found(d)' # None
    <3>1. ep[d] \in 1 .. made /\ Mid[d] \in Mids
      <4>1. CASE d = c
        BY <1>2, <4>1
      <4>2. CASE d # c
        <5>1. pc[d] # "away"
          BY <1>4, <2>1, <4>2 DEF Recorded
        <5>2. ep[d] \in 0 .. made /\ ep[d] # 0 /\ made \in Nat
          BY <5>1 DEF Inductive, TypeOK
        <5> QED
          BY <5>2, DedupAssumption
      <4> QED
        BY <4>1, <4>2
    <3> QED
      BY <1>1, <1>2, <1>3, <1>4, <2>1, <3>1 DEF Inductive, RecordsSound, Found
  <2>2. ASSUME NEW e \in 1 .. made, NEW m \in Mids, NEW d \in Copies, entries'[e][m] = d
        PROVE  Recorded(d)' /\ ep'[d] = e /\ Mid[d] = m
    <3>1. CASE e = ep[c] /\ m = Mid[c]
      <4>1. d = c
        BY <1>3, <2>2, <3>1
      <4> QED
        BY <1>1, <1>4, <3>1, <4>1
    <3>2. CASE ~(e = ep[c] /\ m = Mid[c])
      <4>1. entries[e][m] = d
        BY <1>3, <2>2, <3>2
      <4> QED
        BY <1>1, <1>4, <4>1 DEF Inductive, RecordsSound
    <3> QED
      BY <3>1, <3>2
  <2>3. \A d \in Copies : \A b \in before'[d] : Recorded(b)'
    BY <1>1, <1>4 DEF Inductive, TypeOK, RecordsSound
  <2> QED
    BY <1>1, <2>1, <2>2, <2>3 DEF RecordsSound
<1>7. DeadlineKept'
  BY <1>1 DEF Inductive, DeadlineKept
<1>8. LaterCopiesOnce' /\ DuplicateHasOriginal'
  BY <1>1, <1>4 DEF Inductive, LaterCopiesOnce, DuplicateHasOriginal
<1> QED
  BY <1>5, <1>6, <1>7, <1>8 DEF Inductive

(* Time and the watcher: an endpoint leaves the map before its deadline is removed. *)
LEMMA WatcherStep ==
  ASSUME Inductive, Watcher \/ Expire
  PROVE  Inductive'
<1>1. UNCHANGED <<made, entries, pc, ep, saved, before, overtaken>>
  BY DEF Watcher, WatcherReads, WatcherDeletes, WatcherUnschedules, Expire, tables, history
<1>2. TypeOK'
  <2>1. overtaken' \in BOOLEAN
    BY <1>1, Zenon DEF Inductive, TypeOK
  <2>2. /\ endpoint' \in 0 .. made /\ deleteAfter' \in {"none", "future", "past"}
        /\ watcher' \in {"asleep", "expired", "deleted"}
    BY DEF Inductive, TypeOK, Watcher, WatcherReads, WatcherDeletes, WatcherUnschedules, Expire,
           tables
  <2> QED
    BY <1>1, <2>1, <2>2 DEF Inductive, TypeOK
<1>3. RecordsSound' /\ LaterCopiesOnce' /\ DuplicateHasOriginal'
  BY <1>1 DEF Inductive, RecordsSound, LaterCopiesOnce, DuplicateHasOriginal, Found, Recorded,
              Executes
<1>4. DeadlineKept'
  BY <1>1 DEF Inductive, DeadlineKept, Watcher, WatcherReads, WatcherDeletes,
              WatcherUnschedules, Expire, tables
<1> QED
  BY <1>2, <1>3, <1>4 DEF Inductive

LEMMA InductiveNext == Inductive /\ [Next]_vars => Inductive'
<1> SUFFICES ASSUME Inductive, [Next]_vars
             PROVE  Inductive'
  OBVIOUS
<1>1. ASSUME NEW c \in Copies, Miss(c) \/ Replay(c) \/ Ignore(c) \/ Reply(c) \/ NoReply(c)
      PROVE  Inductive'
  <2>1. UNCHANGED <<made, endpoint, entries, deleteAfter, ep, watcher, before, overtaken>>
    BY <1>1 DEF Miss, Replay, Ignore, Reply, NoReply, tables, history
  <2>2. \/ \E to \in Places : Step(c, "arrived", to) /\ LookedUp(c, to) /\ saved' = saved
        \/ Step(c, "running", "finished") /\ saved' \in {saved, saved \cup {c}}
    BY <1>1 DEF Miss, Replay, Ignore, Reply, NoReply, LookedUp, Places
  <2>3. "arrived" \in Places /\ "running" \in Places /\ "finished" \in Places
    BY DEF Places
  <2> QED
    BY <2>1, <2>2, <2>3, HandlerStep
<1>2. ASSUME NEW c \in Copies, Handler(c)
      PROVE  Inductive'
  BY <1>1, <1>2, ArriveStep, ScheduleStep, RecordStep DEF Handler
<1>3. CASE Watcher \/ Expire
  BY <1>3, WatcherStep
<1>4. CASE UNCHANGED vars
  <2>1. UNCHANGED <<made, endpoint, entries, deleteAfter, pc, ep, saved, watcher, before,
                    overtaken>>
    BY <1>4 DEF vars, tables, history
  <2>2. TypeOK'
    BY <2>1, Zenon DEF Inductive, TypeOK
  <2>3. RecordsSound' /\ DeadlineKept' /\ LaterCopiesOnce' /\ DuplicateHasOriginal'
    BY <2>1 DEF Inductive, RecordsSound, DeadlineKept, LaterCopiesOnce, DuplicateHasOriginal,
                Found, Recorded, Executes
  <2> QED
    BY <2>2, <2>3 DEF Inductive
<1> QED
  BY <1>2, <1>3, <1>4 DEF Next

LEMMA AlwaysInductive == Spec => []Inductive
BY InductiveInit, InductiveNext, PTL DEF Spec

-----------------------------------------------------------------------------
(* The tables of deduplicate() and the variables of its callers keep their types. *)
THEOREM TypeCorrect == Spec => []TypeOK
<1>1. Inductive => TypeOK
  BY DEF Inductive
<1> QED
  BY <1>1, AlwaysInductive, PTL

(* A copy handled after another was recorded runs no handler, for as long as    *)
(* both belong to one endpoint: the watcher alone opens the way to a second run. *)
THEOREM LaterCopiesOnceCorrect == Spec => []LaterCopiesOnce
<1>1. Inductive => LaterCopiesOnce
  BY DEF Inductive
<1> QED
  BY <1>1, AlwaysInductive, PTL

(* Every copy that is ignored or replayed stands behind an executed original of *)
(* its own message, and the reply replayed is that original's.                  *)
THEOREM DuplicateHasOriginalCorrect == Spec => []DuplicateHasOriginal
<1>1. Inductive => DuplicateHasOriginal
  BY DEF Inductive
<1> QED
  BY <1>1, AlwaysInductive, PTL

(* An address with records has a deadline in dedupDeleteAfter, unless one was   *)
(* stored while the watcher was between its read and its removal.               *)
THEOREM TableHasDeadlineCorrect == Spec => []TableHasDeadline
<1>1. ASSUME Inductive
      PROVE  TableHasDeadline
  <2> SUFFICES ASSUME endpoint # 0, NEW m \in Mids, entries[endpoint][m] # None
               PROVE  deleteAfter # "none" \/ overtaken
    BY DEF TableHasDeadline
  <2>1. endpoint \in 1 .. made
    BY <1>1 DEF Inductive, TypeOK
  <2>2. PICK d \in Copies : d = entries[endpoint][m]
    BY <1>1, <2>1 DEF Inductive, TypeOK
  <2>3. Recorded(d) /\ ep[d] = endpoint
    BY <1>1, <2>1, <2>2 DEF Inductive, RecordsSound
  <2> QED
    BY <1>1, <2>3 DEF Inductive, DeadlineKept, Recorded
<1> QED
  BY <1>1, AlwaysInductive, PTL
=============================================================================
