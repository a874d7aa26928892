------------------------------- MODULE Nstart -------------------------------
(***************************************************************************)
(* The limit on confirmable sends in flight to one remote address:         *)
(* nstart.go, and its use at the start and the end of send() (send.go).    *)
(*                                                                         *)
(* nstartMux guards the map, each entry has a mutex and a condition        *)
(* variable of its own, and both nstartInc and nstartDec release the first *)
(* before they take the second.  Those gaps are the steps here: a sender   *)
(* holds a pointer to an entry that NstartClear may take out of the map in *)
(* the meantime.  Addresses share nothing but nstartMux, so one suffices.  *)
(***************************************************************************)
EXTENDS Integers, FiniteSets

CONSTANTS
  Senders,   \* goroutines that call send() for a confirmable message
  NStart,    \* options.NStart of each sender's calls; 0 means no limit
  Rounds,    \* bound: calls each sender makes
  Clears     \* bound: calls of NstartClear that find an entry

ASSUME NstartAssumption ==
  /\ IsFiniteSet(Senders)
  /\ NStart \in [Senders -> Nat]
  /\ Rounds \in Nat
  /\ Clears \in Nat

\* Entries are numbered as they are made; 0 is no entry.
Entries == 1 .. Clears + 1

VARIABLES
  made,     \* entries made so far: the last one is the only one the map can hold
  mapped,   \* nstartMap holds entry number "made"
  count,    \* entry -> count
  pc,       \* sender -> where it stands
  ref,      \* sender -> the entry its local variable points to
  rounds,   \* sender -> calls begun
  cleared,  \* calls of NstartClear that found an entry (history)
  slot,     \* sender -> the entry it has incremented and not yet left (history)
  foreign,  \* entry -> decrements by senders that held none of its slots (history)
  orphans   \* entry -> slots whose holder left without giving them back (history)

history == <<cleared, slot, foreign, orphans>>
vars == <<made, mapped, count, pc, ref, rounds, history>>

Holders(e) == {p \in Senders : slot[p] = e}
At(l, e)   == {p \in Senders : pc[p] = l /\ ref[p] = e}
Parked(e)  == At("parked", e)
Woken(e)   == At("woken", e)

Init ==
  /\ made = 0
  /\ mapped = FALSE
  /\ count   = [e \in Entries |-> 0]
  /\ pc      = [p \in Senders |-> "idle"]
  /\ ref     = [p \in Senders |-> 0]
  /\ rounds  = [p \in Senders |-> 0]
  /\ cleared = 0
  /\ slot    = [p \in Senders |-> 0]
  /\ foreign = [e \in Entries |-> 0]
  /\ orphans = [e \in Entries |-> 0]

-----------------------------------------------------------------------------
(* nstartInc *)

Begin(p) == pc[p] = "idle" /\ rounds[p] < Rounds /\ rounds' = [rounds EXCEPT ![p] = @ + 1]

\* NStart 0: no slot is taken (but nstartDec will still run).
Skip(p) ==
  /\ Begin(p)
  /\ NStart[p] = 0
  /\ pc' = [pc EXCEPT ![p] = "sending"]
  /\ UNCHANGED <<made, mapped, count, ref, history>>

\* The map has an entry: nstartMux is released, the entry not yet locked.
Find(p) ==
  /\ Begin(p)
  /\ NStart[p] > 0
  /\ mapped
  /\ pc'  = [pc EXCEPT ![p] = "found"]
  /\ ref' = [ref EXCEPT ![p] = made]
  /\ UNCHANGED <<made, mapped, count, history>>

MakeEntry(p, first) ==
  /\ Begin(p)
  /\ NStart[p] > 0
  /\ made'   = made + 1
  /\ mapped' = TRUE
  /\ count'  = [count EXCEPT ![made + 1] = first]
  /\ pc'     = [pc EXCEPT ![p] = "sending"]
  /\ slot'   = [slot EXCEPT ![p] = made + 1]
  /\ UNCHANGED <<ref, cleared, foreign, orphans>>

\* Faults: the lookup is left out; the new entry does not count its maker.
CreateAlways(p)    == MakeEntry(p, 1)
CreateUncounted(p) == ~mapped /\ MakeEntry(p, 0)

\* The map has none: the new entry counts its maker.
Create(p) == ~mapped /\ MakeEntry(p, 1)

TakeSlot(p) ==
  /\ pc[p] \in {"found", "woken"}
  /\ count' = [count EXCEPT ![ref[p]] = @ + 1]
  /\ pc'    = [pc EXCEPT ![p] = "sending"]
  /\ slot'  = [slot EXCEPT ![p] = ref[p]]
  /\ UNCHANGED <<made, mapped, ref, rounds, cleared, foreign, orphans>>

\* Faults: `if` instead of `for` around Wait; `>` instead of `>=`.
EnterUnchecked(p) == TakeSlot(p) /\ (pc[p] = "woken" \/ count[ref[p]] < NStart[p])
EnterOneMore(p)   == TakeSlot(p) /\ count[ref[p]] <= NStart[p]

\* Under the entry's lock, the test of the loop fails.
Enter(p) == TakeSlot(p) /\ count[ref[p]] < NStart[p]

\* The test succeeds: Wait joins the waiters before it releases the lock.
Park(p) ==
  /\ pc[p] \in {"found", "woken"}
  /\ count[ref[p]] >= NStart[p]
  /\ pc' = [pc EXCEPT ![p] = "parked"]
  /\ UNCHANGED <<made, mapped, count, ref, rounds, history>>

-----------------------------------------------------------------------------
(* nstartDec, deferred by send(): it runs whatever nstartInc did *)

\* The entry now in the map, which need not be the one nstartInc found.
Finish(p) ==
  /\ pc[p] = "sending"
  /\ mapped
  /\ pc'  = [pc EXCEPT ![p] = "leaving"]
  /\ ref' = [ref EXCEPT ![p] = made]
  /\ UNCHANGED <<made, mapped, count, rounds, history>>

Abandon(p) ==  \* the slot that p leaves behind, if any
  orphans' = IF slot[p] = 0 THEN orphans ELSE [orphans EXCEPT ![slot[p]] = @ + 1]

FinishUnmapped(p) ==
  /\ pc[p] = "sending"
  /\ ~mapped
  /\ pc'   = [pc EXCEPT ![p] = "idle"]
  /\ slot' = [slot EXCEPT ![p] = 0]
  /\ Abandon(p)
  /\ UNCHANGED <<made, mapped, count, ref, rounds, cleared, foreign>>

GiveBack(p) ==
  /\ pc[p] = "leaving"
  /\ count' = [count EXCEPT ![ref[p]] = @ - 1]
  /\ slot'  = [slot EXCEPT ![p] = 0]
  /\ IF slot[p] = ref[p]
     THEN UNCHANGED <<foreign, orphans>>
     ELSE foreign' = [foreign EXCEPT ![ref[p]] = @ + 1] /\ Abandon(p)
  /\ UNCHANGED <<made, mapped, ref, rounds, cleared>>

\* Fault: the slot is given back and nobody is told.
LeaveSilently(p) == GiveBack(p) /\ pc' = [pc EXCEPT ![p] = "idle"]

\* Signal wakes one waiter, if there is any.
Leave(p) ==
  /\ GiveBack(p)
  /\ IF Parked(ref[p]) = {}
     THEN pc' = [pc EXCEPT ![p] = "idle"]
     ELSE \E w \in Parked(ref[p]) : pc' = [pc EXCEPT ![p] = "idle", ![w] = "woken"]

-----------------------------------------------------------------------------
\* The application calls it when it believes the peer is gone.
NstartClear ==
  /\ mapped
  /\ cleared < Clears
  /\ mapped'  = FALSE
  /\ cleared' = cleared + 1
  /\ UNCHANGED <<made, count, pc, ref, rounds, slot, foreign, orphans>>

Inc(p) == Skip(p) \/ Find(p) \/ Create(p) \/ Enter(p) \/ Park(p)
Dec(p) == Finish(p) \/ FinishUnmapped(p) \/ Leave(p)

Next == (\E p \in Senders : Inc(p) \/ Dec(p)) \/ NstartClear

\* A goroutine that wants a free mutex gets it, and a send() returns: that is
\* Exchange's SendReturns.  Nothing obliges a sender to call again.
Fairness == \A p \in Senders : WF_vars(Enter(p) \/ Park(p)) /\ WF_vars(Dec(p))

Spec     == Init /\ [][Next]_vars
FairSpec == Spec /\ Fairness

-----------------------------------------------------------------------------
(* Properties *)

\* The map, the entries and the senders' local variables have the shapes of
\* their Go types, and no sender works on an entry that was never made.
TypeOK ==
  /\ made \in 0 .. Clears + 1
  /\ mapped \in BOOLEAN
  /\ count \in [Entries -> Int]
  /\ pc \in [Senders -> {"idle", "found", "parked", "woken", "sending", "leaving"}]
  /\ ref \in [Senders -> Nat]
  /\ \A p \in Senders :
       /\ ref[p] <= made
       /\ pc[p] \in {"found", "parked", "woken", "leaving"} => ref[p] > 0
  /\ rounds \in [Senders -> Nat]
  /\ cleared \in 0 .. Clears
  /\ slot \in [Senders -> Nat]
  /\ \A p \in Senders : slot[p] <= made
  /\ foreign \in [Entries -> Nat]
  /\ orphans \in [Entries -> Nat]

\* limit bounds what every sender asks for.
Bounds(limit)  == \A p \in Senders : NStart[p] <= limit
\* limit is no more than what any sender with a limit asks for.
Reaches(limit) == \A p \in Senders : NStart[p] > 0 => NStart[p] >= limit
Limits == {NStart[p] : p \in Senders}

\* However the gaps interleave and whatever has been cleared, an entry lets in
\* no more senders than the largest limit, and one more for each decrement by a
\* sender that held no slot of it (after a clear, or with NStart 0).
SlotLimit ==
  \A limit \in Limits : Bounds(limit) =>
    \A e \in Entries : Cardinality(Holders(e)) <= limit + foreign[e]

\* Nothing cleared and no sender unlimited: NStart bounds the sends in flight.
InFlight == {p \in Senders : pc[p] \in {"sending", "leaving"}}
InFlightLimit ==
  cleared = 0 /\ 0 \notin Limits =>
    \A limit \in Limits : Bounds(limit) => Cardinality(InFlight) <= limit

\* No wake-up is lost: as many waiters of an entry have been woken as it has
\* slots free under the smallest limit, although a newcomer may overtake them.
WakeupsCover(limit) ==
  \A e \in Entries : Parked(e) # {} => limit - count[e] <= Cardinality(Woken(e))
NoLostWakeup == \A limit \in Limits \ {0} : Reaches(limit) => WakeupsCover(limit)

\* A sender that waits on an entry of the map waits for someone: a holder of one
\* of its slots, or another waiter already woken.  Only NstartClear strands.
StrandedOnlyByClear ==
  mapped /\ Parked(made) # {} => Holders(made) # {} \/ Woken(made) # {}

\* A sender that waits for a slot gets it, when nothing is ever cleared.
WaitersEnter ==
  \A p \in Senders : pc[p] = "parked" ~> pc[p] = "sending"
=============================================================================
