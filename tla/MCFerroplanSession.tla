------------------------- MODULE MCFerroplanSession -------------------------
(* Model-checking instance of FerroplanSession: two sessions, so that one    *)
(* can be the fork of the other, and two callers.                            *)
EXTENDS FerroplanSession, TLC

CONSTANTS s1, s2, c1, c2

(* A plan can be walked once the session has thought of one.                 *)
MCNeeds == [think |-> {}, advance |-> {"think"}]

(* One client makes enough calls to build a plan and walk it; the other      *)
(* interferes.                                                               *)
MCMaxCalls == (c1 :> 3) @@ (c2 :> 2)

Sequential == (c1 :> 4) @@ (c2 :> 0)

Symmetry == Permutations({s1, s2})
=============================================================================
