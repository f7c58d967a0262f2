-------------------------- MODULE MCReactorRuntime --------------------------
(* Four tasks; every edge list over seven pairs, which hold the chain, the   *)
(* fork, the join, the diamond, the N and cycles of length 1, 3 and 4, and   *)
(* one that names an unknown task.                                           *)
EXTENDS ReactorRuntime

MCPairs == {<<"a", "b">>, <<"a", "c">>, <<"b", "c">>, <<"b", "d">>, <<"c", "d">>,
            <<"d", "a">>, <<"a", "a">>}
MCCandidate == SUBSET MCPairs \cup {{<<"a", "ghost">>}}
=============================================================================
