---------------------------- MODULE NstartProofs ----------------------------
(* Proofs about Nstart, for every finite set of senders and every limit. *)
EXTENDS Nstart, FiniteSetTheorems, TLAPS

-----------------------------------------------------------------------------
(* What the safety properties rest on: with them, an invariant that every step *)
(* preserves.                                                                   *)

\* Only an entry that has left the map loses a slot for good.
EntriesSound ==
  /\ mapped => made > 0 /\ orphans[made] = 0
  /\ made <= cleared + (IF mapped THEN 1 ELSE 0)
  /\ \A e \in Entries : e > made => count[e] = 0 /\ orphans[e] = 0 /\ foreign[e] = 0

SlotsSound ==
  \A p \in Senders :
    /\ slot[p] # 0 => pc[p] \in {"sending", "leaving"}
    /\ pc[p] = "leaving" => slot[p] <= ref[p]
    /\ pc[p] \in {"found", "parked", "woken"} => NStart[p] > 0

\* count is the slots held, those never given back, less those given back twice.
Accounts ==
  \A e \in Entries :
    /\ count[e] = Cardinality(Holders(e)) + orphans[e] - foreign[e]
    /\ \A limit \in Limits : Bounds(limit) => count[e] <= limit

Undisturbed ==
  cleared = 0 /\ 0 \notin Limits =>
    (\A p \in InFlight : slot[p] = 1) /\ (\A e \in Entries : foreign[e] = 0)

Inductive ==
  TypeOK /\ EntriesSound /\ SlotsSound /\ Accounts /\ Undisturbed
    /\ WakeupsCover(1) /\ NoLostWakeup

-----------------------------------------------------------------------------
LEMMA GroupsFinite ==
  ASSUME NEW e, NEW l
  PROVE  IsFiniteSet(Holders(e)) /\ IsFiniteSet(At(l, e))
         /\ Cardinality(Holders(e)) \in Nat /\ Cardinality(At(l, e)) \in Nat
<1>1. Holders(e) \subseteq Senders /\ At(l, e) \subseteq Senders
  BY DEF Holders, At
<1>2. IsFiniteSet(Holders(e)) /\ IsFiniteSet(At(l, e))
  BY <1>1, FS_Subset, NstartAssumption
<1> QED
  BY <1>2, FS_CardinalityType

(* Steps that wake nobody, park nobody and touch no entry with waiters. *)
LEMMA WakeupsKept ==
  ASSUME NEW limit \in Nat, WakeupsCover(limit),
         \A e \in Entries : /\ Parked(e)' = Parked(e) /\ Woken(e)' = Woken(e)
                            /\ Parked(e) # {} => count'[e] = count[e]
  PROVE  WakeupsCover(limit)'
BY DEF WakeupsCover

(* A bound that covers 1 and every limit that Reaches asks for covers both parts. *)
LEMMA WakeupsTogether ==
  ASSUME TypeOK, WakeupsCover(1), NoLostWakeup,
         \A limit \in Nat \ {0} :
           Reaches(limit) /\ WakeupsCover(limit) => WakeupsCover(limit)'
  PROVE  WakeupsCover(1)' /\ NoLostWakeup'
<1>1. Reaches(1) /\ Limits \subseteq Nat
  BY NstartAssumption DEF Reaches, Limits
<1>2. NoLostWakeup'
  BY <1>1 DEF NoLostWakeup, WakeupsCover
<1> QED
  BY <1>1, <1>2

LEMMA InductiveInit == Init => Inductive
<1> SUFFICES ASSUME Init PROVE Inductive
  OBVIOUS
<1>1. TypeOK
  <2>1. made \in 0 .. Clears + 1 /\ cleared \in 0 .. Clears
    BY NstartAssumption DEF Init
  <2>3. mapped \in BOOLEAN
    BY Zenon DEF Init
  <2>2. count \in [Entries -> Int] /\ foreign \in [Entries -> Nat] /\ orphans \in [Entries -> Nat]
    BY DEF Init
  <2> QED
    BY <2>1, <2>2, <2>3 DEF Init, TypeOK
<1>2. EntriesSound /\ SlotsSound
  BY NstartAssumption DEF Init, EntriesSound, SlotsSound, Entries
<1>3. \A e \in Entries : Holders(e) = {} /\ Parked(e) = {}
  BY DEF Init, Holders, Parked, At, Entries
<1>4. Accounts
  <2>1. \A limit \in Limits : limit >= 0
    BY NstartAssumption DEF Limits
  <2> QED
    BY <1>3, <2>1, FS_EmptySet DEF Init, Accounts
<1>5. Undisturbed
  BY DEF Init, Undisturbed, InFlight
<1>6. WakeupsCover(1) /\ NoLostWakeup
  BY <1>3 DEF WakeupsCover, NoLostWakeup
<1> QED
  BY <1>1, <1>2, <1>4, <1>5, <1>6 DEF Inductive

-----------------------------------------------------------------------------
(* The inductive invariant, action by action. *)

(* The lookup in nstartInc, or none of it; NstartClear; the lookup in nstartDec. *)
LEMMA LookupStep ==
  ASSUME Inductive, NEW p,
         (p \in Senders /\ (Skip(p) \/ Find(p) \/ Finish(p))) \/ NstartClear
  PROVE  Inductive'
<1>1. /\ made' = made /\ count' = count /\ slot' = slot /\ foreign' = foreign
      /\ orphans' = orphans
  BY DEF Skip, Find, Finish, NstartClear, history
<1>2. TypeOK'
  <2>1. cleared' \in 0 .. Clears
    BY NstartAssumption DEF Inductive, TypeOK, Skip, Find, Finish, NstartClear, history
  <2>4. mapped' \in BOOLEAN
    BY Zenon DEF Inductive, TypeOK, Skip, Find, Finish, NstartClear
  <2>2. rounds' \in [Senders -> Nat]
    BY DEF Inductive, TypeOK, Skip, Find, Finish, NstartClear, Begin
  <2>3. /\ pc' \in [Senders -> {"idle", "found", "parked", "woken", "sending", "leaving"}]
        /\ ref' \in [Senders -> Nat]
        /\ \A q \in Senders :
             /\ ref'[q] <= made
             /\ pc'[q] \in {"found", "parked", "woken", "leaving"} => ref'[q] > 0
    BY DEF Inductive, TypeOK, EntriesSound, Skip, Find, Finish, NstartClear, Begin
  <2> QED
    BY <1>1, <2>1, <2>2, <2>3, <2>4 DEF Inductive, TypeOK
<1>3. EntriesSound'
  BY <1>1 DEF Inductive, TypeOK, EntriesSound, Skip, Find, Finish, NstartClear, history
<1>4. SlotsSound'
  BY <1>1 DEF Inductive, TypeOK, SlotsSound, Skip, Find, Finish, NstartClear, Begin
<1>5. Accounts'
  BY <1>1 DEF Inductive, Accounts, Holders, Limits, Bounds
<1>6. Undisturbed'
  BY <1>1 DEF Inductive, TypeOK, Undisturbed, InFlight, Limits, Skip, Find, Finish, NstartClear,
              history, Begin
<1>7. \A e \in Entries : Parked(e)' = Parked(e) /\ Woken(e)' = Woken(e)
  BY DEF Inductive, TypeOK, Parked, Woken, At, Skip, Find, Finish, NstartClear, Begin
<1>8. WakeupsCover(1)' /\ NoLostWakeup'
  BY <1>1, <1>7, WakeupsKept, WakeupsTogether DEF Inductive
<1> QED
  BY <1>2, <1>3, <1>4, <1>5, <1>6, <1>8 DEF Inductive

(* A new entry counts the sender that makes it. *)
LEMMA CreateStep ==
  ASSUME Inductive, NEW p \in Senders, Create(p)
  PROVE  Inductive'
<1>0. PICK n \in Entries : n = made + 1
  BY NstartAssumption DEF Create, Inductive, TypeOK, EntriesSound, Entries
<1>1. /\ made' = n /\ mapped' = TRUE /\ ~mapped /\ cleared' = cleared
      /\ count' = [count EXCEPT ![n] = 1]
      /\ pc[p] = "idle" /\ pc' = [pc EXCEPT ![p] = "sending"]
      /\ slot' = [slot EXCEPT ![p] = n]
      /\ ref' = ref /\ foreign' = foreign /\ orphans' = orphans
      /\ NStart[p] > 0 /\ NStart[p] \in Nat
  BY <1>0, NstartAssumption DEF Create, MakeEntry, Begin
<1>2. n \in Entries /\ made \in Nat /\ n = made + 1
  BY <1>0 DEF Inductive, TypeOK
<1>3. TypeOK'
  <2>1. rounds' \in [Senders -> Nat]
    BY DEF Inductive, TypeOK, Create, MakeEntry, Begin
  <2>2. made' \in 0 .. Clears + 1
    BY <1>1, <1>2, NstartAssumption DEF Entries
  <2>3. /\ slot' \in [Senders -> Nat]
        /\ \A q \in Senders : slot'[q] <= made' /\ ref'[q] <= made'
    BY <1>1, <1>2 DEF Inductive, TypeOK
  <2> QED
    BY <1>1, <1>2, <2>1, <2>2, <2>3 DEF Inductive, TypeOK
<1>4. EntriesSound'
  BY <1>1, <1>2 DEF Inductive, TypeOK, EntriesSound, Entries
<1>5. SlotsSound'
  BY <1>1 DEF Inductive, TypeOK, SlotsSound
<1>6. /\ slot[p] = 0
      /\ Holders(n)' = {p}
      /\ \A e \in Entries : e # n => Holders(e)' = Holders(e)
  <2>1. \A q \in Senders : slot[q] \in Nat /\ slot[q] <= made
    BY DEF Inductive, TypeOK
  <2>2. slot[p] = 0
    BY <1>1 DEF Inductive, SlotsSound
  <2>3. \A q \in Senders : slot'[q] = IF q = p THEN n ELSE slot[q]
    BY <1>1 DEF Inductive, TypeOK
  <2>4. Holders(n)' = {p}
    BY <1>2, <2>1, <2>3 DEF Holders
  <2>5. ASSUME NEW e \in Entries, e # n
        PROVE  Holders(e)' = Holders(e)
    <3>1. e # 0
      BY DEF Entries
    <3> QED
      BY <2>2, <2>3, <2>5, <3>1 DEF Holders
  <2> QED
    BY <2>2, <2>4, <2>5
<1>7. Accounts'
  <2>1. Cardinality({p}) = 1
    BY FS_Singleton
  <2>2. orphans[n] = 0 /\ foreign[n] = 0
    BY <1>2 DEF Inductive, EntriesSound
  <2>3. \A limit \in Limits : Bounds(limit) => 1 <= limit
    BY <1>1, NstartAssumption DEF Bounds, Limits
  <2>4. ASSUME NEW e \in Entries
        PROVE  /\ count'[e] = Cardinality(Holders(e)') + orphans'[e] - foreign'[e]
               /\ \A limit \in Limits : Bounds(limit) => count'[e] <= limit
    <3>1. CASE e = n
      <4>1. count'[e] = 1 /\ orphans'[e] = 0 /\ foreign'[e] = 0
        BY <1>1, <2>2, <3>1 DEF Inductive, TypeOK
      <4>2. Cardinality(Holders(e)') = 1
        BY <1>6, <2>1, <3>1
      <4> QED
        BY <2>3, <4>1, <4>2
    <3>2. CASE e # n
      <4>1. Holders(e)' = Holders(e)
        BY <1>6, <3>2
      <4>2. count'[e] = count[e] /\ orphans'[e] = orphans[e] /\ foreign'[e] = foreign[e]
        BY <1>1, <3>2 DEF Inductive, TypeOK
      <4> QED
        BY <4>1, <4>2 DEF Inductive, Accounts
    <3> QED
      BY <3>1, <3>2
  <2> QED
    BY <2>4 DEF Accounts, Limits, Bounds, Holders
<1>8. Undisturbed'
  BY <1>1, <1>2 DEF Inductive, TypeOK, EntriesSound, Undisturbed, InFlight, Limits
<1>9. \A e \in Entries : /\ Parked(e)' = Parked(e) /\ Woken(e)' = Woken(e)
                         /\ Parked(e) # {} => count'[e] = count[e]
  <2>1. \A e \in Entries : Parked(e)' = Parked(e) /\ Woken(e)' = Woken(e)
    BY <1>1 DEF Inductive, TypeOK, Parked, Woken, At
  <2>2. Parked(n) = {}
    BY <1>2 DEF Inductive, TypeOK, Parked, At
  <2> QED
    BY <1>1, <2>1, <2>2 DEF Inductive, TypeOK
<1>10. WakeupsCover(1)' /\ NoLostWakeup'
  BY <1>9, WakeupsKept, WakeupsTogether DEF Inductive
<1> QED
  BY <1>3, <1>4, <1>5, <1>7, <1>8, <1>10 DEF Inductive

(* A slot is taken under the test of the loop. *)
LEMMA EnterStep ==
  ASSUME Inductive, NEW p \in Senders, Enter(p)
  PROVE  Inductive'
<1>0. PICK n \in Entries : n = ref[p]
  BY NstartAssumption DEF Enter, TakeSlot, Inductive, TypeOK, Entries
<1>1. /\ pc[p] \in {"found", "woken"} /\ pc' = [pc EXCEPT ![p] = "sending"]
      /\ count' = [count EXCEPT ![n] = @ + 1] /\ count[n] < NStart[p]
      /\ slot' = [slot EXCEPT ![p] = n]
      /\ made' = made /\ mapped' = mapped /\ ref' = ref /\ rounds' = rounds
      /\ cleared' = cleared /\ foreign' = foreign /\ orphans' = orphans
  BY <1>0 DEF Enter, TakeSlot
<1>a. NStart[p] \in Nat /\ count[n] \in Int /\ made \in Nat /\ n \in Nat
  BY NstartAssumption DEF Inductive, TypeOK, Entries
<1>2. TypeOK'
  BY <1>0, <1>1, <1>a DEF Inductive, TypeOK
<1>3. EntriesSound'
  BY <1>0, <1>1, <1>a DEF Inductive, TypeOK, EntriesSound
<1>4. SlotsSound'
  BY <1>1 DEF Inductive, TypeOK, SlotsSound
<1>5. \A q \in Senders : slot'[q] = IF q = p THEN n ELSE slot[q]
  BY <1>1 DEF Inductive, TypeOK
<1>6. slot[p] = 0 /\ n # 0
  <2>1. slot[p] = 0
    BY <1>1 DEF Inductive, SlotsSound
  <2>2. n # 0
    BY DEF Entries
  <2> QED
    BY <2>1, <2>2
<1>7. Accounts'
  <2>1. Holders(n)' = Holders(n) \cup {p} /\ p \notin Holders(n)
    BY <1>5, <1>6 DEF Holders
  <2>2. Cardinality(Holders(n)') = Cardinality(Holders(n)) + 1
    BY <2>1, GroupsFinite, FS_AddElement
  <2>3. ASSUME NEW e \in Entries
        PROVE  /\ count'[e] = Cardinality(Holders(e)') + orphans'[e] - foreign'[e]
               /\ \A limit \in Limits : Bounds(limit) => count'[e] <= limit
    <3>1. /\ count[e] = Cardinality(Holders(e)) + orphans[e] - foreign[e]
          /\ \A limit \in Limits : Bounds(limit) => count[e] <= limit
      BY DEF Inductive, Accounts
    <3>2. CASE e = n
      <4>1. count'[e] = count[e] + 1
        BY <1>1, <3>2 DEF Inductive, TypeOK
      <4>2. \A limit \in Limits : limit \in Nat /\ (Bounds(limit) => NStart[p] <= limit)
        BY NstartAssumption DEF Limits, Bounds
      <4>3. Cardinality(Holders(e)) \in Nat /\ orphans[e] \in Nat /\ foreign[e] \in Nat
        BY GroupsFinite DEF Inductive, TypeOK
      <4>4. Cardinality(Holders(e)') = Cardinality(Holders(e)) + 1
        BY <2>2, <3>2
      <4> QED
        BY <1>1, <1>a, <3>1, <3>2, <4>1, <4>2, <4>3, <4>4
    <3>3. CASE e # n
      <4>1. Holders(e)' = Holders(e)
        BY <1>5, <1>6, <3>3 DEF Holders, Entries
      <4>2. count'[e] = count[e]
        BY <1>1, <3>3 DEF Inductive, TypeOK
      <4> QED
        BY <1>1, <3>1, <4>1, <4>2
    <3> QED
      BY <3>2, <3>3
  <2> QED
    BY <2>3 DEF Accounts, Limits, Bounds, Holders
<1>8. Undisturbed'
  <2>1. ASSUME cleared = 0
        PROVE  n = 1
    BY <1>0, <1>1, <1>a, <2>1 DEF Inductive, TypeOK, EntriesSound, Entries
  <2> QED
    BY <1>1, <1>5, <2>1 DEF Inductive, TypeOK, Undisturbed, InFlight, Limits
<1>9. ASSUME NEW limit \in Nat \ {0}, WakeupsCover(limit)
      PROVE  WakeupsCover(limit)'
  <2>1. \A e \in Entries : Parked(e)' = Parked(e)
    BY <1>1 DEF Inductive, TypeOK, Parked, At
  <2>2. \A e \in Entries : e # n => Woken(e)' = Woken(e)
    BY <1>0, <1>1 DEF Inductive, TypeOK, Woken, At
  <2>3. \A e \in Entries : e # n => count'[e] = count[e]
    BY <1>1 DEF Inductive, TypeOK
  <2>4. limit - count'[n] <= Cardinality(Woken(n)') \/ Parked(n) = {}
    <3>1. count'[n] = count[n] + 1
      BY <1>1 DEF Inductive, TypeOK
    <3>2. limit - count[n] <= Cardinality(Woken(n)) \/ Parked(n) = {}
      BY <1>9 DEF WakeupsCover
    <3>3. Cardinality(Woken(n)) \in Nat /\ IsFiniteSet(Woken(n))
      BY GroupsFinite DEF Woken
    <3>4. CASE pc[p] = "found"
      <4>1. Woken(n)' = Woken(n)
        BY <1>1, <3>4 DEF Inductive, TypeOK, Woken, At
      <4> QED
        BY <1>1, <1>a, <3>1, <3>2, <3>3, <4>1
    <3>5. CASE pc[p] = "woken"
      <4>1. Woken(n)' = Woken(n) \ {p} /\ p \in Woken(n)
        BY <1>0, <1>1, <3>5 DEF Inductive, TypeOK, Woken, At
      <4>2. Cardinality(Woken(n)') = Cardinality(Woken(n)) - 1
        <5> DEFINE W == Woken(n)
        <5> HIDE DEF W
        <5>1. Cardinality(W \ {p}) = Cardinality(W) - 1
          BY <3>3, <4>1, FS_RemoveElement DEF W
        <5> QED
          BY <4>1, <5>1 DEF W
      <4> QED
        BY <1>1, <1>a, <3>1, <3>2, <3>3, <4>2
    <3> QED
      BY <1>1, <3>4, <3>5
  <2> QED
    BY <1>9, <2>1, <2>2, <2>3, <2>4 DEF WakeupsCover
<1>10. WakeupsCover(1)' /\ NoLostWakeup'
  BY <1>9, WakeupsTogether DEF Inductive
<1> QED
  BY <1>2, <1>3, <1>4, <1>7, <1>8, <1>10 DEF Inductive

(* A sender joins the waiters only where no slot is free. *)
LEMMA ParkStep ==
  ASSUME Inductive, NEW p \in Senders, Park(p)
  PROVE  Inductive'
<1>0. PICK n \in Entries : n = ref[p]
  BY NstartAssumption DEF Park, Inductive, TypeOK, Entries
<1>1. /\ pc[p] \in {"found", "woken"} /\ pc' = [pc EXCEPT ![p] = "parked"]
      /\ count[n] >= NStart[p] /\ NStart[p] > 0 /\ NStart[p] \in Nat /\ count[n] \in Int
      /\ UNCHANGED <<made, mapped, count, ref, rounds, cleared, slot, foreign, orphans>>
  BY <1>0, NstartAssumption DEF Park, history, Inductive, TypeOK, SlotsSound
<1>2. TypeOK'
  BY <1>1 DEF Inductive, TypeOK
<1>3. EntriesSound' /\ SlotsSound'
  BY <1>1 DEF Inductive, TypeOK, EntriesSound, SlotsSound
<1>4. Accounts'
  BY <1>1 DEF Inductive, Accounts, Limits, Bounds, Holders
<1>5. Undisturbed'
  BY <1>1 DEF Inductive, TypeOK, Undisturbed, InFlight, Limits
<1>6. ASSUME NEW limit \in Nat \ {0}, Reaches(limit), WakeupsCover(limit)
      PROVE  WakeupsCover(limit)'
  <2>1. \A e \in Entries : e # n => Parked(e)' = Parked(e) /\ Woken(e)' = Woken(e)
    BY <1>0, <1>1 DEF Inductive, TypeOK, Parked, Woken, At
  <2>2. limit - count[n] <= 0
    BY <1>1, <1>6 DEF Reaches
  <2>3. Cardinality(Woken(n)') \in Nat
    <3>1. Woken(n)' \subseteq Senders
      BY DEF Woken, At
    <3> QED
      BY <3>1, FS_Subset, FS_CardinalityType, NstartAssumption
  <2> QED
    BY <1>1, <1>6, <2>1, <2>2, <2>3 DEF WakeupsCover
<1>7. WakeupsCover(1)' /\ NoLostWakeup'
  BY <1>6, WakeupsTogether DEF Inductive
<1> QED
  BY <1>2, <1>3, <1>4, <1>5, <1>7 DEF Inductive

(* nstartDec finds no entry: a slot that was held is gone with its entry. *)
LEMMA FinishUnmappedStep ==
  ASSUME Inductive, NEW p \in Senders, FinishUnmapped(p)
  PROVE  Inductive'
<1> DEFINE n == slot[p]
<1>1. /\ ~mapped /\ pc[p] = "sending" /\ pc' = [pc EXCEPT ![p] = "idle"]
      /\ slot' = [slot EXCEPT ![p] = 0]
      /\ orphans' = IF n = 0 THEN orphans ELSE [orphans EXCEPT ![n] = @ + 1]
      /\ UNCHANGED <<made, mapped, count, ref, rounds, cleared, foreign>>
  BY DEF FinishUnmapped, Abandon
<1>2. \A q \in Senders : slot'[q] = IF q = p THEN 0 ELSE slot[q]
  BY <1>1 DEF Inductive, TypeOK
<1>3. TypeOK'
  <2>1. n = 0 \/ n \in Entries
    <3>1. n \in Nat /\ n <= made /\ made \in 0 .. Clears + 1
      BY DEF Inductive, TypeOK
    <3> HIDE DEF n
    <3> QED
      BY <3>1, NstartAssumption DEF Entries
  <2>2. orphans' \in [Entries -> Nat]
    BY <1>1, <2>1 DEF Inductive, TypeOK
  <2>3. slot' \in [Senders -> Nat] /\ \A q \in Senders : slot'[q] <= made
    BY <1>1, <1>2 DEF Inductive, TypeOK
  <2>4. /\ pc' \in [Senders -> {"idle", "found", "parked", "woken", "sending", "leaving"}]
        /\ \A q \in Senders :
             pc'[q] \in {"found", "parked", "woken", "leaving"} => ref[q] > 0
    BY <1>1 DEF Inductive, TypeOK
  <2> QED
    BY <1>1, <2>2, <2>3, <2>4 DEF Inductive, TypeOK
<1>4. EntriesSound'
  BY <1>1 DEF Inductive, TypeOK, EntriesSound, Entries
<1>5. SlotsSound'
  BY <1>1 DEF Inductive, TypeOK, SlotsSound
<1>6. ASSUME NEW e \in Entries
      PROVE  /\ Cardinality(Holders(e)') + orphans'[e] = Cardinality(Holders(e)) + orphans[e]
             /\ Cardinality(Holders(e)') \in Int /\ Cardinality(Holders(e)) \in Int
             /\ orphans'[e] \in Int /\ orphans[e] \in Int /\ foreign[e] \in Int
  <2>1. /\ Cardinality(Holders(e)) \in Nat /\ IsFiniteSet(Holders(e))
        /\ orphans[e] \in Nat /\ foreign[e] \in Nat
    BY GroupsFinite DEF Inductive, TypeOK
  <2>2. e # 0
    BY DEF Entries
  <2>3. CASE slot[p] = e
    <3>1. Holders(e)' = Holders(e) \ {p} /\ p \in Holders(e)
      BY <1>2, <2>2, <2>3 DEF Holders
    <3>2. Cardinality(Holders(e)') = Cardinality(Holders(e)) - 1
      BY <2>1, <3>1, FS_RemoveElement
    <3>3. orphans'[e] = orphans[e] + 1
      BY <1>1, <2>2, <2>3 DEF Inductive, TypeOK
    <3> QED
      BY <2>1, <3>2, <3>3
  <2>4. CASE slot[p] # e
    <3>1. Holders(e)' = Holders(e)
      BY <1>2, <2>2, <2>4 DEF Holders
    <3>2. orphans'[e] = orphans[e]
      BY <1>1, <2>4 DEF Inductive, TypeOK
    <3> QED
      BY <2>1, <3>1, <3>2
  <2> QED
    BY <2>3, <2>4
<1>7. Accounts'
  <2>1. ASSUME NEW e \in Entries
        PROVE  /\ count'[e] = Cardinality(Holders(e)') + orphans'[e] - foreign'[e]
               /\ \A limit \in Limits : Bounds(limit) => count'[e] <= limit
    <3>1. /\ count[e] = Cardinality(Holders(e)) + orphans[e] - foreign[e]
          /\ \A limit \in Limits : Bounds(limit) => count[e] <= limit
      BY DEF Inductive, Accounts
    <3>2. count'[e] = count[e] /\ foreign'[e] = foreign[e]
      BY <1>1
    <3>3. count'[e] = Cardinality(Holders(e)') + orphans'[e] - foreign'[e]
      BY <1>6, <3>1, <3>2
    <3>4. \A limit \in Limits : Bounds(limit) => count'[e] <= limit
      BY <3>1, <3>2
    <3> QED
      BY <3>3, <3>4
  <2> QED
    BY <2>1 DEF Accounts, Limits, Bounds, Holders
<1>8. Undisturbed'
  BY <1>1, <1>2 DEF Inductive, TypeOK, Undisturbed, InFlight, Limits
<1>9. \A e \in Entries : /\ Parked(e)' = Parked(e) /\ Woken(e)' = Woken(e)
                         /\ Parked(e) # {} => count'[e] = count[e]
  BY <1>1 DEF Inductive, TypeOK, Parked, Woken, At
<1>10. WakeupsCover(1)' /\ NoLostWakeup'
  BY <1>9, WakeupsKept, WakeupsTogether DEF Inductive
<1> QED
  BY <1>3, <1>4, <1>5, <1>7, <1>8, <1>10 DEF Inductive

(* A decrement: of the slot p holds, or of an entry it holds no slot of. *)
LEMMA GiveBackAccounts ==
  ASSUME Inductive, NEW p \in Senders, GiveBack(p)
  PROVE  /\ Accounts'
         /\ slot' = [slot EXCEPT ![p] = 0]
         /\ foreign' \in [Entries -> Nat] /\ orphans' \in [Entries -> Nat]
         /\ \A e \in Entries :
              /\ foreign'[e] # foreign[e] => e = ref[p] /\ slot[p] # ref[p]
              /\ orphans'[e] # orphans[e] => e = slot[p] /\ slot[p] # ref[p]
<1> DEFINE r == ref[p]
           h == slot[p]
<1>1. /\ pc[p] = "leaving" /\ r \in Entries /\ r \in Nat /\ h \in Nat /\ r # 0
      /\ h # 0 => h \in Entries
  <2>1. /\ pc[p] = "leaving" /\ r \in Nat /\ h \in Nat /\ r > 0
        /\ r <= made /\ h <= made /\ made \in 0 .. Clears + 1
    BY DEF GiveBack, Inductive, TypeOK
  <2> HIDE DEF r, h
  <2> QED
    BY <2>1, NstartAssumption DEF Entries
<1>2. /\ count' = [count EXCEPT ![r] = @ - 1]
      /\ slot' = [slot EXCEPT ![p] = 0]
      /\ foreign' = IF h = r THEN foreign ELSE [foreign EXCEPT ![r] = @ + 1]
      /\ orphans' = IF h = r \/ h = 0 THEN orphans ELSE [orphans EXCEPT ![h] = @ + 1]
  BY <1>1 DEF GiveBack, Abandon
<1>3. \A q \in Senders : slot'[q] = IF q = p THEN 0 ELSE slot[q]
  BY <1>2 DEF Inductive, TypeOK
<1>4. ASSUME NEW e \in Entries
      PROVE  /\ count'[e] = Cardinality(Holders(e)') + orphans'[e] - foreign'[e]
             /\ count'[e] <= count[e]
  <2>a. Cardinality(Holders(e)) \in Nat /\ IsFiniteSet(Holders(e))
    BY GroupsFinite
  <2>b. orphans[e] \in Nat /\ foreign[e] \in Nat /\ count[e] \in Int /\ e # 0
    BY DEF Inductive, TypeOK, Entries
  <2>c. count[e] = Cardinality(Holders(e)) + orphans[e] - foreign[e]
    BY DEF Inductive, Accounts
  <2>1. /\ Cardinality(Holders(e)) \in Nat /\ IsFiniteSet(Holders(e))
        /\ orphans[e] \in Nat /\ foreign[e] \in Nat /\ count[e] \in Int /\ e # 0
        /\ count[e] = Cardinality(Holders(e)) + orphans[e] - foreign[e]
    BY <2>a, <2>b, <2>c
  <2>2. count'[e] = IF e = r THEN count[e] - 1 ELSE count[e]
    BY <1>2 DEF Inductive, TypeOK
  <2>3. foreign'[e] = IF e = r /\ h # r THEN foreign[e] + 1 ELSE foreign[e]
    BY <1>2 DEF Inductive, TypeOK
  <2>4. orphans'[e] = IF e = h /\ h # r THEN orphans[e] + 1 ELSE orphans[e]
    BY <1>2, <2>1 DEF Inductive, TypeOK
  <2>5. Cardinality(Holders(e)') = IF e = h THEN Cardinality(Holders(e)) - 1
                                            ELSE Cardinality(Holders(e))
    <3>1. CASE e = h
      <4>1. Holders(e)' = Holders(e) \ {p} /\ p \in Holders(e)
        BY <1>3, <2>1, <3>1 DEF Holders
      <4> QED
        BY <2>1, <3>1, <4>1, FS_RemoveElement
    <3>2. CASE e # h
      <4>1. Holders(e)' = Holders(e)
        BY <1>3, <2>1, <3>2 DEF Holders
      <4> QED
        BY <3>2, <4>1
    <3> QED
      BY <3>1, <3>2
  <2> HIDE DEF r, h
  <2> QED
    BY <2>1, <2>2, <2>3, <2>4, <2>5
<1>5. \A e \in Entries : count[e] \in Int /\ count'[e] \in Int
  BY <1>2 DEF Inductive, TypeOK
<1>6. \A limit \in Limits : limit \in Nat
  BY NstartAssumption DEF Limits
<1>7. Accounts'
  <2>1. ASSUME NEW e \in Entries, NEW limit \in Limits, Bounds(limit)
        PROVE  count'[e] <= limit
    <3>1. count[e] <= limit
      BY <2>1 DEF Inductive, Accounts
    <3> QED
      BY <1>4, <1>5, <1>6, <3>1
  <2> QED
    BY <1>4, <2>1 DEF Accounts, Limits, Bounds, Holders
<1>8. /\ foreign' \in [Entries -> Nat] /\ orphans' \in [Entries -> Nat]
      /\ \A e \in Entries : /\ foreign'[e] # foreign[e] => e = r /\ h # r
                            /\ orphans'[e] # orphans[e] => e = h /\ h # r
  BY <1>1, <1>2 DEF Inductive, TypeOK
<1> QED
  BY <1>2, <1>7, <1>8

(* A decrement wakes a waiter, if there is one. *)
LEMMA LeaveStep ==
  ASSUME Inductive, NEW p \in Senders, Leave(p)
  PROVE  Inductive'
<1>0. PICK n \in Entries : n = ref[p]
  BY NstartAssumption DEF Leave, GiveBack, Inductive, TypeOK, Entries
<1>1. /\ pc[p] = "leaving" /\ count' = [count EXCEPT ![n] = @ - 1]
      /\ slot' = [slot EXCEPT ![p] = 0]
      /\ UNCHANGED <<made, mapped, ref, rounds, cleared>>
  BY <1>0 DEF Leave, GiveBack
<1>2. /\ Accounts'
      /\ foreign' \in [Entries -> Nat] /\ orphans' \in [Entries -> Nat]
      /\ \A e \in Entries :
           /\ foreign'[e] # foreign[e] => e = n /\ slot[p] # n
           /\ orphans'[e] # orphans[e] => e = slot[p] /\ slot[p] # n
  BY <1>0, GiveBackAccounts DEF Leave
<1>3. \/ Parked(n) = {} /\ pc' = [pc EXCEPT ![p] = "idle"]
      \/ \E w \in Parked(n) : pc' = [pc EXCEPT ![p] = "idle", ![w] = "woken"]
  BY <1>0 DEF Leave
<1>4. \A q \in Senders :
        \/ q = p /\ pc'[q] = "idle"
        \/ q # p /\ pc'[q] = pc[q]
        \/ q # p /\ q \in Parked(n) /\ pc[q] = "parked" /\ pc'[q] = "woken"
  BY <1>1, <1>3 DEF Inductive, TypeOK, Parked, At
<1>5. slot[p] \in Nat /\ slot[p] <= n /\ n \in Nat /\ n <= made /\ made \in Nat
  BY <1>0, <1>1, NstartAssumption DEF Inductive, TypeOK, SlotsSound, Entries
<1>6. TypeOK'
  <2>1. pc' \in [Senders -> {"idle", "found", "parked", "woken", "sending", "leaving"}]
    BY <1>3 DEF Inductive, TypeOK
  <2>2. \A q \in Senders : pc'[q] \in {"found", "parked", "woken", "leaving"} => ref[q] > 0
    BY <1>4 DEF Inductive, TypeOK
  <2>3. slot' \in [Senders -> Nat] /\ \A q \in Senders : slot'[q] <= made
    BY <1>1, <1>5 DEF Inductive, TypeOK
  <2>4. count' \in [Entries -> Int]
    BY <1>1 DEF Inductive, TypeOK
  <2> QED
    BY <1>1, <1>2, <2>1, <2>2, <2>3, <2>4 DEF Inductive, TypeOK
<1>7. EntriesSound'
  <2>1. mapped => orphans'[made] = orphans[made]
    <3>1. mapped => made \in Entries
      BY <1>5, NstartAssumption DEF Inductive, TypeOK, EntriesSound, Entries
    <3> QED
      BY <1>2, <1>5, <3>1
  <2>2. \A e \in Entries : e > made => /\ orphans'[e] = orphans[e] /\ foreign'[e] = foreign[e]
                                       /\ count'[e] = count[e]
    BY <1>1, <1>2, <1>5 DEF Inductive, TypeOK
  <2> QED
    BY <1>1, <2>1, <2>2 DEF Inductive, EntriesSound
<1>8. SlotsSound'
  <2>1. \A q \in Senders : slot'[q] = IF q = p THEN 0 ELSE slot[q]
    BY <1>1 DEF Inductive, TypeOK
  <2>2. \A q \in Senders : ref[q] \in Nat
    BY DEF Inductive, TypeOK
  <2> QED
    BY <1>1, <1>4, <2>1, <2>2 DEF Inductive, SlotsSound
<1>9. Undisturbed'
  <2>1. ASSUME cleared = 0, 0 \notin Limits
        PROVE  slot[p] = 1 /\ n = 1 /\ \A e \in Entries : foreign[e] = 0
    BY <1>0, <1>1, <1>5, <2>1 DEF Inductive, TypeOK, EntriesSound, Undisturbed, InFlight, Entries
  <2>2. ASSUME NEW q \in Senders, pc'[q] \in {"sending", "leaving"}
        PROVE  slot'[q] = slot[q] /\ pc[q] \in {"sending", "leaving"}
    BY <1>1, <1>4, <2>2 DEF Inductive, TypeOK
  <2> QED
    BY <1>1, <1>2, <2>1, <2>2 DEF Inductive, Undisturbed, InFlight, Limits
<1>10. ASSUME NEW limit \in Nat \ {0}, WakeupsCover(limit)
       PROVE  WakeupsCover(limit)'
  <2>1. \A e \in Entries : e # n => /\ Parked(e)' = Parked(e) /\ Woken(e)' = Woken(e)
                                    /\ count'[e] = count[e]
    BY <1>1, <1>4 DEF Inductive, TypeOK, Parked, Woken, At
  <2>2. CASE Parked(n) = {}
    <3>1. Parked(n)' = {}
      BY <1>1, <1>4, <2>2 DEF Inductive, TypeOK, Parked, At
    <3> QED
      BY <1>10, <2>1, <3>1 DEF WakeupsCover
  <2>3. CASE Parked(n) # {}
    <3>1. PICK w \in Parked(n) : pc' = [pc EXCEPT ![p] = "idle", ![w] = "woken"]
      BY <1>3, <2>3
    <3>2. w \in Senders /\ w # p /\ pc[w] = "parked" /\ ref[w] = n
      BY <1>1 DEF Parked, At
    <3>3. Woken(n)' = Woken(n) \cup {w} /\ w \notin Woken(n)
      BY <1>1, <3>1, <3>2 DEF Inductive, TypeOK, Woken, At
    <3>4. Cardinality(Woken(n)) \in Nat /\ Cardinality(Woken(n)') = Cardinality(Woken(n)) + 1
      BY <3>3, GroupsFinite, FS_AddElement DEF Woken
    <3>5. limit - count[n] <= Cardinality(Woken(n))
      BY <1>10, <2>3 DEF WakeupsCover
    <3>6. count'[n] = count[n] - 1 /\ count[n] \in Int
      BY <1>1 DEF Inductive, TypeOK
    <3>7. limit - count'[n] <= Cardinality(Woken(n)')
      BY <3>4, <3>5, <3>6
    <3> QED
      BY <1>10, <2>1, <3>7 DEF WakeupsCover
  <2> QED
    BY <2>2, <2>3
<1>11. WakeupsCover(1)' /\ NoLostWakeup'
  BY <1>10, WakeupsTogether DEF Inductive
<1> QED
  BY <1>2, <1>6, <1>7, <1>8, <1>9, <1>11 DEF Inductive

LEMMA InductiveNext == Inductive /\ [Next]_vars => Inductive'
<1> SUFFICES ASSUME Inductive, [Next]_vars
             PROVE  Inductive'
  OBVIOUS
<1>1. ASSUME NEW p \in Senders, Inc(p)
      PROVE  Inductive'
  BY <1>1, LookupStep, CreateStep, EnterStep, ParkStep DEF Inc
<1>2. ASSUME NEW p \in Senders, Dec(p)
      PROVE  Inductive'
  BY <1>2, LookupStep, FinishUnmappedStep, LeaveStep DEF Dec
<1>3. CASE NstartClear
  BY <1>3, LookupStep
<1>4. CASE UNCHANGED vars
  <2>1. UNCHANGED <<made, mapped, count, pc, ref, rounds, cleared, slot, foreign, orphans>>
    BY <1>4 DEF vars, history
  <2>2. TypeOK'
    BY <2>1, Zenon DEF Inductive, TypeOK
  <2>3. EntriesSound' /\ SlotsSound'
    BY <2>1 DEF Inductive, EntriesSound, SlotsSound
  <2>4. Accounts'
    BY <2>1 DEF Inductive, Accounts, Holders, Limits, Bounds
  <2>5. Undisturbed'
    BY <2>1 DEF Inductive, Undisturbed, InFlight, Limits
  <2>6. WakeupsCover(1)' /\ NoLostWakeup'
    BY <2>1 DEF Inductive, WakeupsCover, NoLostWakeup, Parked, Woken, At, Limits, Reaches
  <2> QED
    BY <2>2, <2>3, <2>4, <2>5, <2>6 DEF Inductive
<1> QED
  BY <1>1, <1>2, <1>3, <1>4 DEF Next

LEMMA AlwaysInductive == Spec => []Inductive
BY InductiveInit, InductiveNext, PTL DEF Spec

-----------------------------------------------------------------------------
(* Every local variable of nstartInc and nstartDec, and every entry, keeps its type. *)
THEOREM TypeCorrect == Spec => []TypeOK
<1>1. Inductive => TypeOK
  BY DEF Inductive
<1> QED
  BY <1>1, AlwaysInductive, PTL

(* nstartInc lets no more senders into an entry than the largest limit, but for *)
(* one for each nstartDec by a sender that held none of its slots.              *)
THEOREM SlotLimitCorrect == Spec => []SlotLimit
<1>1. ASSUME Inductive
      PROVE  SlotLimit
  <2> SUFFICES ASSUME NEW limit \in Limits, Bounds(limit), NEW e \in Entries
               PROVE  Cardinality(Holders(e)) <= limit + foreign[e]
    BY DEF SlotLimit
  <2>1. count[e] = Cardinality(Holders(e)) + orphans[e] - foreign[e] /\ count[e] <= limit
    BY <1>1 DEF Inductive, Accounts
  <2>2. limit \in Nat /\ Cardinality(Holders(e)) \in Nat
    BY GroupsFinite, NstartAssumption DEF Limits
  <2>3. orphans[e] \in Nat /\ foreign[e] \in Nat
    BY <1>1 DEF Inductive, TypeOK
  <2> QED
    BY <2>1, <2>2, <2>3
<1> QED
  BY <1>1, AlwaysInductive, PTL

(* With nothing cleared and no sender without a limit, the sends between        *)
(* nstartInc and the end of nstartDec are never more than NStart.               *)
THEOREM InFlightLimitCorrect == Spec => []InFlightLimit
<1>1. ASSUME Inductive
      PROVE  InFlightLimit
  <2> SUFFICES ASSUME cleared = 0, 0 \notin Limits, NEW limit \in Limits, Bounds(limit)
               PROVE  Cardinality(InFlight) <= limit
    BY DEF InFlightLimit
  <2>1. 1 \in Entries
    BY NstartAssumption DEF Entries
  <2>2. count[1] = Cardinality(Holders(1)) + orphans[1] - foreign[1] /\ count[1] <= limit
    BY <1>1, <2>1 DEF Inductive, Accounts
  <2>3. foreign[1] = 0 /\ orphans[1] \in Nat
    BY <1>1, <2>1 DEF Inductive, TypeOK, Undisturbed
  <2>4. InFlight \subseteq Holders(1)
    BY <1>1 DEF Inductive, Undisturbed, InFlight, Holders
  <2>5. /\ Cardinality(InFlight) \in Nat /\ Cardinality(Holders(1)) \in Nat
        /\ Cardinality(InFlight) <= Cardinality(Holders(1))
    BY <2>4, GroupsFinite, FS_Subset, FS_CardinalityType
  <2>6. limit \in Nat
    BY NstartAssumption DEF Limits
  <2> QED
    BY <2>2, <2>3, <2>5, <2>6
<1> QED
  BY <1>1, AlwaysInductive, PTL

(* The Signal of nstartDec is never lost: an entry with free slots and waiters  *)
(* has woken a waiter for each of those slots.                                  *)
THEOREM NoLostWakeupCorrect == Spec => []NoLostWakeup
<1>1. Inductive => NoLostWakeup
  BY DEF Inductive
<1> QED
  BY <1>1, AlwaysInductive, PTL

(* No sender is left in Wait on an entry that nobody is going to signal, unless *)
(* NstartClear took that entry out of the map.                                  *)
THEOREM StrandedOnlyByClearCorrect == Spec => []StrandedOnlyByClear
<1>1. ASSUME Inductive
      PROVE  StrandedOnlyByClear
  <2> SUFFICES ASSUME mapped, Parked(made) # {}, Holders(made) = {}, Woken(made) = {}
               PROVE  FALSE
    BY DEF StrandedOnlyByClear
  <2>1. made \in Entries /\ orphans[made] = 0
    BY <1>1, NstartAssumption DEF Inductive, TypeOK, EntriesSound, Entries
  <2>2. Cardinality(Holders(made)) = 0 /\ Cardinality(Woken(made)) = 0
    BY FS_EmptySet
  <2>3. count[made] = Cardinality(Holders(made)) + orphans[made] - foreign[made]
    BY <1>1, <2>1 DEF Inductive, Accounts
  <2>4. 1 - count[made] <= Cardinality(Woken(made))
    BY <1>1, <2>1 DEF Inductive, WakeupsCover
  <2>5. foreign[made] \in Nat
    BY <1>1, <2>1 DEF Inductive, TypeOK
  <2> QED
    BY <2>1, <2>2, <2>3, <2>4, <2>5
<1> QED
  BY <1>1, AlwaysInductive, PTL
=============================================================================
