------------------------------ MODULE MCServer ------------------------------
(* Server with names and wildcards in each of two places, a pattern with an empty *)
(* part at its end, and "/".                                                      *)
EXTENDS Server

Part(name) == [name |-> name, var |-> IF name = "*" THEN "x" ELSE ""]
Pattern(names) == [i \in DOMAIN names |-> Part(names[i])]

MCListeners == {"udp", "dtls"}

MCNames == STRING

MCPatterns ==
  { <<>>, Pattern(<<"a">>), Pattern(<<"*">>), Pattern(<<"a", "b">>), Pattern(<<"", "a", "*">>),
    Pattern(<<"*", "b">>), Pattern(<<"a", "b", "">>) }

MCPaths == {<<"c">>, <<"a", "b">>, <<"a", "c">>, <<"c", "b">>}

\* Bound: readers fail, and there are two listeners, while there is one route at most.
\* None of the steps that FairSpec asks for leads out of it, so it hides none that
\* ReadersEnd depends on.
MCRoutesOrReaders == Len(added) <= 1 \/ (socket["dtls"] = "none" /\ errors = 0)
=============================================================================
