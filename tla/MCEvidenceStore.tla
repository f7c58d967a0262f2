-------------------------- MODULE MCEvidenceStore --------------------------
(* Model-checking instance of the two ETS-backed components that serve any    *)
(* caller: the receipt ledger EvidenceStore, with every table of receipts     *)
(* over two hashes, two subjects and two bodies, and the engine's CallLog.    *)
(* They share no state, so a behaviour runs one of them.                      *)
EXTENDS EvidenceStore, CallLog

VARIABLE part

Init == part \in {"ledger", "call log"} /\ StoreInit /\ LogInit

Next ==
  \/ part = "ledger" /\ StoreNext /\ UNCHANGED <<part, logVars>>
  \/ part = "call log" /\ LogNext /\ UNCHANGED <<part, storeVars>>

Spec == Init /\ [][Next]_<<part, storeVars, logVars>>
=============================================================================
