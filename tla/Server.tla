------------------------------- MODULE Server -------------------------------
(***************************************************************************)
(* A server from NewServer to Close (coap.go): its listeners               *)
(* (listen_udp.go, listen_dtls.go), whose readers run while the            *)
(* application still adds routes, and the routes.                          *)
(*                                                                         *)
(* Sockets and the DTLS library are external: a read ends with a datagram  *)
(* or an error at any time, and on a closed socket with an error.          *)
(* Requests stand for all datagrams: what else comes is the subject of     *)
(* Dispatch.                                                               *)
(***************************************************************************)
EXTENDS Routes

CONSTANTS
  Listeners, \* which of "udp" and "dtls" there may be
  Names,     \* strings
  Patterns,  \* what AddRoute is called with
  MaxAdds,   \* bound: calls of AddRoute
  Paths,     \* what requests ask for
  Requests,  \* bound: requests
  MaxErrors, \* bound: reads that fail on an open socket
  Elsewhere  \* a name that no pattern has

\* Where a goroutine in reader() stands: in its read, behind a read that has ended,
\* past the flag, which it found down.
Stages == {"reading", "ended", "unshut"}

ASSUME ServerAssumption ==
  /\ Listeners \subseteq {"udp", "dtls"}
  /\ MaxAdds \in Nat /\ MaxErrors \in Nat
  /\ {NoName, "*"} \subseteq Names
  /\ Patterns \subseteq Seq([name : Names, var : Names])
  /\ Paths \subseteq Seq(Names) \ {<<>>}
  /\ Elsewhere \in Names \ {"*"}
  /\ \A pattern \in Patterns : \A k \in DOMAIN pattern : pattern[k].name # Elsewhere
  /\ None \notin Seq(Names)

VARIABLES
  setup,    \* how far the application is: "new", "listening", "running", "closing"
  tree,     \* Server.routes
  added,    \* the patterns in the order they were added (history)
  socket,   \* listener -> "none", "open", "closed"
  shutdown, \* listener -> its flag
  readers,  \* listener -> stage -> goroutines of its reader() that are there
  late,     \* listener -> readers started since its Close began (history)
  request,  \* request -> [at, on, path, callback, known], known the routes there were
  errors    \* counter for the bound

routing   == <<tree, added>>
listening == <<socket, shutdown, readers, late>>
vars      == <<setup, routing, listening, request, errors>>

Init ==
  /\ setup = "new"
  /\ tree = EmptyTree /\ added = <<>>
  /\ socket   = [l \in Listeners |-> "none"]
  /\ shutdown = [l \in Listeners |-> FALSE]
  /\ readers  = [l \in Listeners |-> [stage \in Stages |-> 0]]
  /\ late     = [l \in Listeners |-> 0]
  /\ request  = [r \in Requests |-> [at |-> "none"]]
  /\ errors = 0

-----------------------------------------------------------------------------
(* The application *)

\* NewServer starts the listeners first ...
Listen(on) ==
  /\ setup = "new"
  /\ setup' = "listening"
  /\ socket'  = [l \in Listeners |-> IF l \in on THEN "open" ELSE "none"]
  /\ readers' = [l \in Listeners |->
       [stage \in Stages |-> IF l \in on /\ stage = "reading" THEN 1 ELSE 0]]
  /\ UNCHANGED <<routing, shutdown, late, request, errors>>

\* ... then copies the configuration.
Configure ==
  /\ setup = "listening"
  /\ setup' = "running"
  /\ UNCHANGED <<routing, listening, request, errors>>

\* The callback of the i-th call is i.
Add(pattern) ==
  /\ setup = "running" /\ Len(added) < MaxAdds
  /\ added' = Append(added, pattern)
  /\ tree' = AddRoute(tree, pattern, Len(added) + 1)
  /\ UNCHANGED <<setup, listening, request, errors>>

\* Close goes from one listener to the next ...
Closing(l) ==
  /\ setup \in {"running", "closing"}
  /\ socket[l] = "open"
  /\ l = "dtls" => \A other \in Listeners \ {l} : socket[other] # "open"
  /\ setup' = "closing"

\* ... sets its flag ...
SetFlag(l) ==
  /\ Closing(l)
  /\ ~shutdown[l]
  /\ shutdown' = [shutdown EXCEPT ![l] = TRUE]
  /\ UNCHANGED <<routing, socket, readers, late, request, errors>>

\* Fault: only the socket is closed.
CloseUnflagged(l) ==
  /\ Closing(l)
  /\ socket' = [socket EXCEPT ![l] = "closed"]
  /\ UNCHANGED <<routing, shutdown, readers, late, request, errors>>

\* ... and closes its socket.
CloseSocket(l) ==
  /\ Closing(l)
  /\ shutdown[l]
  /\ socket' = [socket EXCEPT ![l] = "closed"]
  /\ UNCHANGED <<routing, shutdown, readers, late, request, errors>>

-----------------------------------------------------------------------------
(* reader() *)

\* A UDP datagram gets a handler of its own beside the reader.
Receive(r, path) ==
  /\ "udp" \in Listeners
  /\ readers["udp"]["reading"] > 0 /\ socket["udp"] = "open"
  /\ request[r].at = "none"
  /\ request' = [request EXCEPT ![r] = [at |-> "read", on |-> "udp", path |-> path]]
  /\ UNCHANGED <<setup, routing, listening, errors>>

Move(l, from, to) ==
  readers' = [readers EXCEPT ![l][from] = @ - 1, ![l][to] = @ + 1]

\* What takes a reader out of its loop: an error on UDP, any read on DTLS.
ReadEnds(l) ==
  LET fails == l = "udp" /\ socket[l] = "open"
  IN  /\ readers[l]["reading"] > 0
      /\ fails => errors < MaxErrors
      /\ errors' = IF fails THEN errors + 1 ELSE errors
      /\ Move(l, "reading", "ended")
      /\ UNCHANGED <<setup, routing, socket, shutdown, late, request>>

\* It looks at the flag, which Close may be about to set ...
FindsOpen(l) ==
  /\ readers[l]["ended"] > 0
  /\ ~shutdown[l]
  /\ Move(l, "ended", "unshut")
  /\ UNCHANGED <<setup, routing, socket, shutdown, late, request, errors>>

\* Fault: it goes on to the next read.
ReadsOn(l) ==
  /\ readers[l]["ended"] > 0
  /\ shutdown[l]
  /\ Move(l, "ended", "reading")
  /\ UNCHANGED <<setup, routing, socket, shutdown, late, request, errors>>

\* ... or has set: it returns, and DTLS drops what it has read.
FindsShut(l) ==
  /\ readers[l]["ended"] > 0
  /\ shutdown[l]
  /\ readers' = [readers EXCEPT ![l]["ended"] = @ - 1]
  /\ UNCHANGED <<setup, routing, socket, shutdown, late, request, errors>>

\* `go l.reader()`. All that is left to the old one is to return, or on DTLS to handle
\* what it has read, if that is a message.
StartSuccessor(l) ==
  /\ readers[l]["unshut"] > 0
  /\ Move(l, "unshut", "reading")
  /\ late' = IF shutdown[l] \/ socket[l] = "closed" THEN [late EXCEPT ![l] = @ + 1] ELSE late
  /\ \/ UNCHANGED request
     \/ l = "dtls" /\ \E r \in Requests, path \in Paths :
          /\ request[r].at = "none"
          /\ request' = [request EXCEPT ![r] = [at |-> "read", on |-> l, path |-> path]]
  /\ UNCHANGED <<setup, routing, socket, shutdown, errors>>

-----------------------------------------------------------------------------
(* The handler of a request *)

Dispatch(r) ==
  /\ request[r].at = "read"
  /\ request' = [request EXCEPT ![r] =
       [at |-> "matched", on |-> @.on, path |-> @.path,
        callback |-> Match(tree, @.path), known |-> Len(added)]]
  /\ UNCHANGED <<setup, routing, listening, errors>>

\* Close does not wait for handlers: their replies are lost with the socket.
Reply(r) ==
  /\ request[r].at = "matched"
  /\ request' = [request EXCEPT ![r].at =
       IF socket[request[r].on] = "open" THEN "answered" ELSE "lost"]
  /\ UNCHANGED <<setup, routing, listening, errors>>

Next ==
  \/ \E on \in SUBSET Listeners : Listen(on)
  \/ Configure
  \/ \E pattern \in Patterns : Add(pattern)
  \/ \E l \in Listeners : SetFlag(l) \/ CloseSocket(l)
  \/ \E l \in Listeners : ReadEnds(l) \/ FindsOpen(l) \/ FindsShut(l) \/ StartSuccessor(l)
  \/ \E r \in Requests, path \in Paths : Receive(r, path)
  \/ \E r \in Requests : Dispatch(r) \/ Reply(r)

Spec == Init /\ [][Next]_vars

\* A read on a closed socket ends, and a goroutine that is not in a read goes on.
FairSpec ==
  /\ Spec
  /\ \A l \in Listeners :
       /\ WF_vars(socket[l] = "closed" /\ ReadEnds(l))
       /\ WF_vars(FindsOpen(l)) /\ WF_vars(FindsShut(l)) /\ WF_vars(StartSuccessor(l))

-----------------------------------------------------------------------------
(* Properties *)

Handled == {"matched", "answered", "lost"}

Shape(pattern) == IF pattern = <<>> THEN <<"*">> ELSE NodeOf(Named(pattern))

\* After n calls the i-th still counts: it did end at a node, and neither another
\* call with that node nor one for "/", which makes "*" anew, has replaced it.
Live(calls, i, n) ==
  /\ calls[i] = <<>> \/ EndsAtNode(calls[i])
  /\ \A j \in i + 1 .. n :
       /\ Shape(calls[j]) = Shape(calls[i]) => calls[j] # <<>> /\ ~EndsAtNode(calls[j])
       /\ calls[j] = <<>> => Shape(calls[i])[1] # "*"

\* Name by name, or whatever stands for "*".
Fits(shape, path) ==
  /\ Len(shape) <= Len(path)
  /\ \A k \in DOMAIN shape : shape[k] \in {"*", path[k]}

\* What a request is given to is a callback that counted at that moment, for a pattern
\* that fits the path: no route is found in another's place.
GivenToItsRoute ==
  \A r \in Requests :
    request[r].at \in Handled /\ request[r].callback # None =>
      /\ Live(added, request[r].callback, request[r].known)
      /\ Fits(Shape(added[request[r].callback]), request[r].path)

\* No route that counts gets lost in the tree: with names that no pattern has in place
\* of its "*", its path leads to it, however many routes were added before and after.
RouteReachable ==
  \A i \in DOMAIN added :
    LET shape == Shape(added[i])
        path  == [k \in DOMAIN shape |-> IF shape[k] = "*" THEN Elsewhere ELSE shape[k]]
    IN  Live(added, i, Len(added)) => Match(tree, path) = i

Reading(l) == readers[l]["reading"] + readers[l]["ended"] + readers[l]["unshut"]

\* One goroutine reads a listener or is about to let another do so, after any number of
\* failed reads, until Close sets the flag. The flag may come between the look at it and
\* the start of a successor: from then on one more reader may start and no other.
OneReader ==
  \A l \in Listeners :
    /\ Reading(l) <= 1
    /\ socket[l] = "open" /\ ~shutdown[l] => Reading(l) = 1
    /\ late[l] <= 1

\* After Close the readers come to their end, and none goes on failing.
ReadersEnd == \A l \in Listeners : socket[l] = "closed" ~> Reading(l) = 0
=============================================================================
