---------------------------- MODULE ReceiptedDo ----------------------------
(***************************************************************************)
(* What the DO boundary promises, with no ledger process, no messages and   *)
(* no clock: a consequential callback has a recorded intent before it runs, *)
(* it runs at most once, an outcome is recorded only for a callback that    *)
(* ran, and what the caller is told agrees with both.  Brce implements it   *)
(* (Brce!ImplementsReceiptedDo).                                            *)
(*                                                                          *)
(* A record may become durable late, after the caller has been told that it *)
(* could not be written; that is part of the contract, and the reason why   *)
(* the ledger alone does not tell whether a DO was attempted.               *)
(***************************************************************************)
CONSTANT Call

VARIABLES
  recorded,  \* the <<call, "intent" or "outcome">> pairs ever recorded
  done,      \* the calls whose callback ran
  told       \* what each caller was told

doVars == <<recorded, done, told>>

DoInit ==
  /\ recorded = {}
  /\ done = {}
  /\ told = [c \in Call |-> "nothing"]

(* Calls that ask for the same thing at the same time share one intent. *)
RecordIntent ==
  /\ \E S \in SUBSET Call : recorded' = recorded \cup (S \X {"intent"})
  /\ UNCHANGED <<done, told>>

Do(c) ==
  /\ <<c, "intent">> \in recorded
  /\ c \notin done
  /\ told[c] = "nothing"
  /\ done' = done \cup {c}
  /\ UNCHANGED <<recorded, told>>

RecordOutcome ==
  /\ \E S \in SUBSET done : recorded' = recorded \cup (S \X {"outcome"})
  /\ UNCHANGED <<done, told>>

(* "refused": nothing was done.  "confirmed": done, and the outcome is on    *)
(* record.  "unrecorded": done, and the caller must not count on a record.   *)
Tell(c, what) ==
  /\ told[c] = "nothing"
  /\ \/ what = "refused" /\ c \notin done
     \/ what = "confirmed" /\ <<c, "outcome">> \in recorded
     \/ what = "unrecorded" /\ c \in done
  /\ told' = [told EXCEPT ![c] = what]
  /\ UNCHANGED <<recorded, done>>

DoNext ==
  \/ RecordIntent
  \/ RecordOutcome
  \/ \E c \in Call : \/ Do(c)
                     \/ \E what \in {"refused", "confirmed", "unrecorded"} : Tell(c, what)

DoSpec == DoInit /\ [][DoNext]_doVars
=============================================================================
