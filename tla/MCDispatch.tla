----------------------------- MODULE MCDispatch -----------------------------
(* Every message an implementation of CoAP may send first, in every combination *)
(* of the options the handlers look at.                                         *)
EXTENDS Dispatch, TLC

CONSTANTS a, b

Form(types, codes, observe, block1, block2) ==
  [type : types, code : codes, mid : {0, 1}, observe : observe, block1 : block1, block2 : block2]

Requests  == Form({"CON", "NON"}, {"request"}, {FALSE},
                  {None, "only", "first", "middle", "last"}, Block2)
               \cup Form({"ACK"}, {"request"}, {FALSE}, {None, "last"}, {None, "first"})
Responses == Form({"CON", "NON", "ACK"}, {"response"}, BOOLEAN, {None}, Block2)
               \cup Form({"CON", "NON", "ACK"}, {"response"}, {FALSE}, {"first"}, {None, "first"})
Empties   == Form({"CON", "NON", "ACK", "RST"}, {"empty"}, {FALSE}, {None}, {None})

MCFirstMessages == Requests \cup Responses \cup Empties

\* The first block of an upload, and a large reply.
MCCached == {[Message("CON", "request", 2) EXCEPT !.block1 = "first"],
             Message("ACK", "response", 2)}

\* A non-confirmable request with the ID 1 has been answered before.
MCReplied ==
  {[mid |-> 1, rsp |-> Message("NON", "response", 1), of |-> "request"]}

MCSymmetry == Permutations(Endpoints)
=============================================================================
