----------------------------- MODULE SendPromise -----------------------------
(***************************************************************************)
(* What Send promises its caller, whatever the network and the peer do:    *)
(* its calls are made one at a time, each ends once, in an answer or an    *)
(* error; an error ends the Send; and a response that it accepts is one to *)
(* this call or to an earlier call of the same Send.                       *)
(***************************************************************************)
EXTENDS Naturals, Sequences

CONSTANTS
  Sends,   \* Send invocations
  Blocks,  \* Send -> the calls it makes at most
  None     \* an empty acknowledgement, which answers no request in particular

VARIABLES
  calls,   \* Send -> calls begun
  result,  \* Send -> "idle", "waiting", "answered", "failed"
  answers  \* Send -> what each of its calls was answered with

vars == <<calls, result, answers>>

Init ==
  /\ calls   = [s \in Sends |-> 0]
  /\ result  = [s \in Sends |-> "idle"]
  /\ answers = [s \in Sends |-> <<>>]

\* An empty acknowledgement ends a Send: there are no further blocks to it.
Call(s) ==
  /\ calls[s] < Blocks[s]
  /\ \/ result[s] = "idle"
     \/ result[s] = "answered" /\ answers[s][calls[s]] # None
  /\ calls' = [calls EXCEPT ![s] = @ + 1]
  /\ result' \in {[result EXCEPT ![s] = "waiting"], [result EXCEPT ![s] = "failed"]}
  /\ UNCHANGED answers

Accept(s) ==
  /\ result[s] = "waiting"
  /\ result' = [result EXCEPT ![s] = "answered"]
  /\ \E a \in ({s} \X (1 .. calls[s])) \cup {None} : answers' = [answers EXCEPT ![s] = Append(@, a)]
  /\ UNCHANGED calls

Fail(s) ==
  /\ result[s] = "waiting"
  /\ result' = [result EXCEPT ![s] = "failed"]
  /\ UNCHANGED <<calls, answers>>

Next == \E s \in Sends : Call(s) \/ Accept(s) \/ Fail(s)

Spec == Init /\ [][Next]_vars
=============================================================================
