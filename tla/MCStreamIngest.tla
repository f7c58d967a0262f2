--------------------------- MODULE MCStreamIngest ---------------------------
(* Two producers, two envelopes' contents over two runs and two agents: the  *)
(* second one continues and deviates in a run of the first.  Bounds in the   *)
(* configurations.                                                           *)
EXTENDS StreamIngest

MCActivity == {"Construct", "Verify.ok", "REFUSED_X", "note"}
MCStage == [a \in MCActivity |->
  CASE a = "Construct" -> "construct" [] a = "Verify.ok" -> "verify"
    [] a = "REFUSED_X" -> "refused_x" [] OTHER -> "note"]
MCKind == [a \in MCActivity |->
  CASE a = "Construct" -> "constructing" [] a = "Verify.ok" -> "verifying"
    [] a = "REFUSED_X" -> "refused" [] OTHER -> "alive"]
MCDefaultFlow == <<"admit", "construct", "verify", "do">>
MCFlow == <<"verify", "construct">>

Ev(a, r, x, s) == [agent |-> a, run |-> r, act |-> x, standing |-> s]
MCEventsOf ==
  [s1 |-> <<Ev("a1", "r1", "Construct", "alive"), Ev("a2", "r1", "Verify.ok", "text_refused"),
            Ev("a2", "r2", "Construct", "alive")>>,
   s2 |-> <<Ev("a1", "r1", "Construct", "refused"), Ev("a2", "r2", "REFUSED_X", "alive")>>]
MCEnvelope == {[subject |-> "s1", sequence |-> 0], [subject |-> "s2", sequence |-> 0],
               [subject |-> "s1", sequence |-> -1]}
MCMaxCalls == [i \in Ingester |-> IF i = "p1" THEN 2 ELSE 1]
=============================================================================
