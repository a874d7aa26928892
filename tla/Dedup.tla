------------------------------- MODULE Dedup --------------------------------
(***************************************************************************)
(* Deduplication of the confirmable and non-confirmable messages of one    *)
(* remote address: deduplicate(), save() and dedupWatcher() (dedup.go), as *)
(* handleMessage() (handler.go) uses them.                                 *)
(*                                                                         *)
(* The tables are sync.Maps: each access is atomic, and nothing holds      *)
(* between two of them.  Every datagram has a goroutine, and the watcher   *)
(* is another.  Load followed by LoadOrStore returns what a single         *)
(* LoadOrStore would at one of the two moments, and is one step.  Passing  *)
(* time is an action that may occur at any moment, because the goroutines  *)
(* may be delayed and DeduplicateExpiration is the application's choice.   *)
(***************************************************************************)
EXTENDS Integers

CONSTANTS
  Copies,  \* datagrams that arrive, retransmitted ones among them
  Mids,    \* message IDs
  Mid,     \* copy -> its message ID: copies of one message share it
  None     \* an absent map entry

ASSUME DedupAssumption ==
  /\ Mid \in [Copies -> Mids]
  /\ None \notin Copies

VARIABLES
  made,         \* dedupEndpoints made; each is known by its number
  endpoint,     \* the one dedupMap holds for the address, 0 if none
  entries,      \* endpoint -> message ID -> the copy that stored the entry
  deleteAfter,  \* the entry in dedupDeleteAfter: "none", "future" or "past"
  pc,           \* copy -> where its handler stands
  ep,           \* copy -> the endpoint its handler works on
  saved,        \* copies whose reply is in their entry (pending = false)
  watcher,      \* where dedupWatcher stands in its callback
  before,       \* copy -> the copies recorded when it arrived (history)
  overtaken     \* a deadline was stored between the watcher's read and removal (history)

tables  == <<made, endpoint, entries>>
history == <<before, overtaken>>
vars    == <<tables, deleteAfter, pc, ep, saved, watcher, history>>

Executes(c)  == pc[c] \in {"missed", "scheduled", "running", "finished"}
Recorded(c)  == pc[c] \in {"running", "finished"}
Found(c)     == entries[ep[c]][Mid[c]]

Init ==
  /\ made = 0
  /\ endpoint = 0
  /\ entries = [e \in {} |-> None]
  /\ deleteAfter = "none"
  /\ pc = [c \in Copies |-> "away"]
  /\ ep = [c \in Copies |-> 0]
  /\ saved = {}
  /\ watcher = "asleep"
  /\ before = [c \in Copies |-> {}]
  /\ overtaken = FALSE

Step(c, from, to) == pc[c] = from /\ pc' = [pc EXCEPT ![c] = to]

-----------------------------------------------------------------------------
(* deduplicate() *)

\* Fault: the result of LoadOrStore is not kept.
ArriveUnkept(c) ==
  /\ Step(c, "away", "arrived")
  /\ before' = [before EXCEPT ![c] = {d \in Copies : Recorded(d)}]
  /\ ep' = [ep EXCEPT ![c] = endpoint]
  /\ UNCHANGED <<tables, deleteAfter, saved, watcher, overtaken>>

\* The endpoint of the address, made if the map has none.
Arrive(c) ==
  /\ Step(c, "away", "arrived")
  /\ before' = [before EXCEPT ![c] = {d \in Copies : Recorded(d)}]
  /\ IF endpoint # 0
     THEN /\ ep' = [ep EXCEPT ![c] = endpoint]
          /\ UNCHANGED tables
     ELSE /\ ep' = [ep EXCEPT ![c] = made + 1]
          /\ made' = made + 1
          /\ endpoint' = made + 1
          /\ entries' = [e \in 1 .. made + 1 |->
                           IF e \in 1 .. made THEN entries[e] ELSE [m \in Mids |-> None]]
  /\ UNCHANGED <<deleteAfter, saved, watcher, overtaken>>

\* entries.Load misses: this goroutine will run the handler.
Miss(c) ==
  /\ Step(c, "arrived", "missed")
  /\ Found(c) = None
  /\ UNCHANGED <<tables, deleteAfter, ep, saved, watcher, history>>

\* It hits, and the reply is there: it is sent again.
Replay(c) ==
  /\ Step(c, "arrived", "replayed")
  /\ Found(c) # None
  /\ Found(c) \in saved
  /\ UNCHANGED <<tables, deleteAfter, ep, saved, watcher, history>>

\* It hits, and the entry is pending: "ignoring waiting on response".
Ignore(c) ==
  /\ Step(c, "arrived", "ignored")
  /\ Found(c) # None
  /\ Found(c) \notin saved
  /\ UNCHANGED <<tables, deleteAfter, ep, saved, watcher, history>>

\* Fault: LoadOrStore, which keeps a deadline that the watcher is about to remove.
ScheduleOnce(c) ==
  /\ Step(c, "missed", "scheduled")
  /\ deleteAfter' = IF deleteAfter = "none" THEN "future" ELSE deleteAfter
  /\ UNCHANGED <<tables, ep, saved, watcher, history>>

\* dedupDeleteAfter.Store: the deadline of the whole address moves.
Schedule(c) ==
  /\ Step(c, "missed", "scheduled")
  /\ deleteAfter' = "future"
  /\ overtaken' = (overtaken \/ watcher # "asleep")
  /\ UNCHANGED <<tables, ep, saved, watcher, before>>

\* Faults: the entry is not stored; its key leaves out the message ID.
RecordNever(c) ==
  /\ Step(c, "scheduled", "running")
  /\ UNCHANGED <<tables, deleteAfter, ep, saved, watcher, history>>

RecordForAll(c) ==
  /\ Step(c, "scheduled", "running")
  /\ entries' = [entries EXCEPT ![ep[c]] = [m \in Mids |-> c]]
  /\ UNCHANGED <<made, endpoint, deleteAfter, ep, saved, watcher, history>>

\* entries.Store, into the endpoint fetched on arrival.
Record(c) ==
  /\ Step(c, "scheduled", "running")
  /\ entries' = [entries EXCEPT ![ep[c]][Mid[c]] = c]
  /\ UNCHANGED <<made, endpoint, deleteAfter, ep, saved, watcher, history>>

-----------------------------------------------------------------------------
(* The end of handleMessage(): the deferred save() *)

Reply(c) ==
  /\ Step(c, "running", "finished")
  /\ saved' = saved \cup {c}
  /\ UNCHANGED <<tables, deleteAfter, ep, watcher, history>>

\* The handler returned nil (a response consumed by a waiting send(), a response
\* nobody waits for, a callback without an answer): save() is not called.
NoReply(c) ==
  /\ Step(c, "running", "finished")
  /\ UNCHANGED <<tables, deleteAfter, ep, saved, watcher, history>>

-----------------------------------------------------------------------------
(* dedupWatcher *)

\* DeduplicateExpiration has gone by since the deadline was last moved.
Expire ==
  /\ deleteAfter = "future"
  /\ deleteAfter' = "past"
  /\ UNCHANGED <<tables, pc, ep, saved, watcher, history>>

\* Range hands the callback an expired deadline.
WatcherReads ==
  /\ watcher = "asleep"
  /\ deleteAfter = "past"
  /\ watcher' = "expired"
  /\ UNCHANGED <<tables, deleteAfter, pc, ep, saved, history>>

WatcherDeletes ==
  /\ watcher = "expired"
  /\ watcher' = "deleted"
  /\ endpoint' = 0
  /\ UNCHANGED <<made, entries, deleteAfter, pc, ep, saved, history>>

\* The deadline goes, even one stored since the watcher read its own.
WatcherUnschedules ==
  /\ watcher = "deleted"
  /\ watcher' = "asleep"
  /\ deleteAfter' = "none"
  /\ UNCHANGED <<tables, pc, ep, saved, history>>

Handler(c) ==
  \/ Arrive(c) \/ Miss(c) \/ Replay(c) \/ Ignore(c)
  \/ Schedule(c) \/ Record(c) \/ Reply(c) \/ NoReply(c)

Watcher == WatcherReads \/ WatcherDeletes \/ WatcherUnschedules

Next == (\E c \in Copies : Handler(c)) \/ Watcher \/ Expire

Spec == Init /\ [][Next]_vars

-----------------------------------------------------------------------------
(* Properties *)

\* The maps and the handlers' local variables have the shapes of their types.
TypeOK ==
  /\ made \in Nat
  /\ endpoint \in 0 .. made
  /\ entries \in [1 .. made -> [Mids -> Copies \cup {None}]]
  /\ deleteAfter \in {"none", "future", "past"}
  /\ pc \in [Copies -> {"away", "arrived", "missed", "replayed", "ignored", "scheduled",
                        "running", "finished"}]
  /\ ep \in [Copies -> 0 .. made]
  /\ \A c \in Copies : pc[c] # "away" => ep[c] # 0
  /\ saved \subseteq Copies
  /\ watcher \in {"asleep", "expired", "deleted"}
  /\ before \in [Copies -> SUBSET Copies]
  /\ overtaken \in BOOLEAN

\* A copy that arrives once another copy of its message is recorded runs the
\* handler again only if the watcher has dropped the address in between: what
\* is executed twice is concurrent copies, and copies across an expiry.
LaterCopiesOnce ==
  \A c \in Copies : \A d \in before[c] :
    Executes(c) /\ Mid[c] = Mid[d] => ep[c] # ep[d]

\* A copy that was not executed was preceded by one that was, of the same
\* message and in the same endpoint; a replayed reply is the reply to it.
DuplicateHasOriginal ==
  \A c \in Copies :
    pc[c] \in {"replayed", "ignored"} =>
      \E d \in Copies \ {c} :
        /\ Mid[d] = Mid[c] /\ ep[d] = ep[c] /\ Recorded(d)
        /\ pc[c] = "replayed" => d \in saved

\* An address with a recorded message has a deadline, so that its table will be
\* dropped, unless a deadline was stored while the watcher was about to remove
\* an expired one: then the newer one goes with it.
TableHasDeadline ==
  endpoint # 0 /\ (\E m \in Mids : entries[endpoint][m] # None) =>
    deleteAfter # "none" \/ overtaken
=============================================================================
