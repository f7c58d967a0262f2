------------------------------- MODULE Brce -------------------------------
(***************************************************************************)
(* Ex4pm.Evidence.BRCE, the exclusive receipted DO boundary, together with  *)
(* the receipt ledger it writes to (lib/ex4pm/evidence.ex:259-381, and the  *)
(* put/get of Ex4pm.Evidence.Store and Ex4pm.Evidence.DetsStore).           *)
(*                                                                          *)
(* Every call of BRCE.execute/5 runs in a process of its own: it admits the *)
(* authority, puts a pending receipt, invokes the callback (the DO), and    *)
(* puts an outcome receipt.  A put is a GenServer.call with the default     *)
(* timeout: a request message, a reply, and a caller that may stop waiting  *)
(* while its request is still under way.  The ledger process may die and be *)
(* restarted by its supervisor at any moment; a caller may be killed.       *)
(*                                                                          *)
(* A receipt's hash is the digest of its payload; digests are modelled as   *)
(* the payload itself, so that two receipts have one hash exactly when      *)
(* every hashed field agrees.                                               *)
(***************************************************************************)
EXTENDS Naturals, FiniteSets

CONSTANTS
  Call,         \* calls of BRCE.execute/5, one process each
  Subject,      \* subject hashes
  Operation,    \* operations a call may ask for
  Authority,    \* authorities a call may carry: a map, or Nil
  Clock,        \* readings of DateTime.utc_now/0, an initial segment of Nat
  MaxRestarts,  \* bound: how often the ledger process dies
  Nil

ASSUME BrceAssumption ==
  /\ MaxRestarts \in Nat
  /\ Clock \subseteq Nat /\ 0 \in Clock
  /\ \A a \in Authority \ {Nil} : /\ a.capabilities \subseteq {"do", "read"}
                                  /\ a.allow \subseteq Operation

VARIABLES
  req,       \* [Call -> request]: the arguments of each call
  clock,     \* the wall clock the receipts are stamped with
  pc,        \* where each call's process is
  pending,   \* the pending receipt a call has built, or Nil
  outcome,   \* the outcome receipt a call has built, or Nil
  did,       \* what the callback did: "not_invoked" until it was invoked
  answer,    \* what execute/5 returned
  durable,   \* is the ledger a DetsStore, or the ETS-backed Store?
  table,     \* the ledger, at most one receipt per hash
  up,        \* is the ledger process alive?
  restarts,  \* how often it died
  inflight,  \* {:put, receipt} requests sent and not yet handled
  acked,     \* callers a reply {:ok, receipt} is on its way to
  landed     \* history: <<receipt, restarts>> for every put the ledger handled

callVars == <<req, pc, pending, outcome, did, answer>>
ledgerVars == <<durable, table, up, restarts, inflight, acked, landed>>
vars == <<req, clock, pc, pending, outcome, did, answer,
          durable, table, up, restarts, inflight, acked, landed>>

-----------------------------------------------------------------------------
(* Requests, receipts and answers. *)

Request == [subject : Subject, operation : Operation, authority : Authority]

PendingBody == [subject_hash : Subject, operation : Operation,
                authority_hash : Authority, started_at : Clock]

(* Receipt.pending/4: the payload that is hashed is the receipt. *)
PendingReceipt == [phase : {"pending"}, body : PendingBody]

OutcomeReceipt == [phase : {"outcome"}, parent_hash : PendingReceipt,
                   subject_hash : Subject, operation : Operation,
                   authority_hash : Authority,
                   standing : {"alive", "blocked"},
                   artifact_hash : {"result", "failure"}, finished_at : Clock]

Receipt == PendingReceipt \cup OutcomeReceipt

(* nil is no receipt. *)
ASSUME NilAssumption == Nil \notin Receipt

Refused(code, do_attempted) == [tag |-> code, do_attempted |-> do_attempted]

Answer == [tag : {"none", "ok", "error", "authority_required", "authority_denied",
                  "pending_receipt_persistence_failed",
                  "outcome_receipt_persistence_failed"},
           do_attempted : BOOLEAN]

NoAnswer == Refused("none", FALSE)

(* Receipt.pending/4 *)
Pending(r, now) ==
  [phase |-> "pending",
   body |-> [subject_hash |-> r.subject, operation |-> r.operation,
             authority_hash |-> r.authority, started_at |-> now]]

(* Mutant of Outcome: standing :alive whatever the callback did. *)
MutantOutcomeAlwaysAlive(p, result, now) ==
  [phase |-> "outcome", parent_hash |-> p,
   subject_hash |-> p.body.subject_hash, operation |-> p.body.operation,
   authority_hash |-> p.body.authority_hash,
   standing |-> "alive",
   artifact_hash |-> IF result = "returned" THEN "result" ELSE "failure",
   finished_at |-> now]

(* Receipt.outcome/4: standing :alive for a returned value, :blocked for a   *)
(* callback that raised or threw, and for a returned value whose digest      *)
(* raises inside the same try block.                                         *)
Outcome(p, result, now) ==
  [phase |-> "outcome", parent_hash |-> p,
   subject_hash |-> p.body.subject_hash, operation |-> p.body.operation,
   authority_hash |-> p.body.authority_hash,
   standing |-> IF result = "returned" THEN "alive" ELSE "blocked",
   artifact_hash |-> IF result = "returned" THEN "result" ELSE "failure",
   finished_at |-> now]

(* BRCE.admit/2 for an authority map. *)
Admits(r) ==
  /\ r.authority # Nil
  /\ "do" \in r.authority.capabilities \/ r.operation \in r.authority.allow

-----------------------------------------------------------------------------
Init ==
  /\ req \in [Call -> Request]
  /\ clock = 0
  /\ pc = [c \in Call |-> "start"]
  /\ pending = [c \in Call |-> Nil]
  /\ outcome = [c \in Call |-> Nil]
  /\ did = [c \in Call |-> "not_invoked"]
  /\ answer = [c \in Call |-> NoAnswer]
  /\ durable \in BOOLEAN
  /\ table = {}
  /\ up = TRUE
  /\ restarts = 0
  /\ inflight = {}
  /\ acked = {}
  /\ landed = {}

(* The clock is read, never awaited; several calls may read one microsecond. *)
Tick ==
  /\ clock + 1 \in Clock
  /\ clock' = clock + 1
  /\ UNCHANGED <<callVars, ledgerVars>>

Return(c, a) ==
  /\ pc' = [pc EXCEPT ![c] = "done"]
  /\ answer' = [answer EXCEPT ![c] = a]

(* GenServer.call: a message to the ledger's registered name, lost when no   *)
(* process holds the name.                                                   *)
SendPut(c, receipt) ==
  inflight' = IF up THEN inflight \cup {[call |-> c, receipt |-> receipt]}
                    ELSE inflight

(* execute/5: the first clause of the with refuses. *)
Refuse(c) ==
  /\ pc[c] = "start"
  /\ ~ Admits(req[c])
  /\ Return(c, Refused(IF req[c].authority = Nil THEN "authority_required"
                                                 ELSE "authority_denied", FALSE))
  /\ UNCHANGED <<req, clock, pending, outcome, did, ledgerVars>>

(* execute/5: admitted; the pending receipt is built and sent. *)
Begin(c) ==
  LET p == Pending(req[c], clock)
  IN  /\ pc[c] = "start"
      /\ Admits(req[c])
      /\ pending' = [pending EXCEPT ![c] = p]
      /\ pc' = [pc EXCEPT ![c] = "put_pending"]
      /\ SendPut(c, p)
      /\ UNCHANGED <<req, clock, outcome, did, answer,
                     durable, table, up, restarts, acked, landed>>

(* Receipt.pending/4 raises: Hash.digest/1 has no clause for something the   *)
(* authority holds (a map with an improper list).  It is built outside every *)
(* try of execute/5, so the caller raises, with nothing sent.                *)
BeginRaises(c) ==
  /\ pc[c] = "start"
  /\ Admits(req[c])
  /\ pc' = [pc EXCEPT ![c] = "dead"]
  /\ UNCHANGED <<req, clock, pending, outcome, did, answer, ledgerVars>>

(* safe_put/2 got {:ok, _} for the pending receipt: go on to the callback. *)
PendingPersisted(c) ==
  /\ pc[c] = "put_pending"
  /\ c \in acked
  /\ acked' = acked \ {c}
  /\ pc' = [pc EXCEPT ![c] = "invoke"]
  /\ UNCHANGED <<req, clock, pending, outcome, did, answer,
                 durable, table, up, restarts, inflight, landed>>

(* Mutant of PutFails: do_attempted is always reported as FALSE.             *)
MutantPutFailsDeniesDo(c) ==
  /\ pc[c] \in {"put_pending", "put_outcome"}
  /\ Return(c, Refused(IF pc[c] = "put_pending"
                         THEN "pending_receipt_persistence_failed"
                         ELSE "outcome_receipt_persistence_failed", FALSE))
  /\ acked' = acked \ {c}
  /\ UNCHANGED <<req, clock, pending, outcome, did,
                 durable, table, up, restarts, inflight, landed>>

(* Mutant of PutFails: the put is a call without a timeout.                  *)
MutantPutWaitsForever(c) ==
  /\ ~ up
  /\ pc[c] \in {"put_pending", "put_outcome"}
  /\ Return(c, IF pc[c] = "put_pending"
                 THEN Refused("pending_receipt_persistence_failed", FALSE)
                 ELSE Refused("outcome_receipt_persistence_failed", TRUE))
  /\ acked' = acked \ {c}
  /\ UNCHANGED <<req, clock, pending, outcome, did,
                 durable, table, up, restarts, inflight, landed>>

(* safe_put/2 caught an exit, or got another reply: the call timed out, no   *)
(* process held the name, the ledger died while the caller waited, or the    *)
(* durable ledger answered {:error, _}.  The request is not withdrawn; a     *)
(* reply that comes later is dropped.  persist/3 reports do_attempted when   *)
(* the receipt was an outcome.                                               *)
PutFails(c) ==
  /\ pc[c] \in {"put_pending", "put_outcome"}
  /\ Return(c, IF pc[c] = "put_pending"
                 THEN Refused("pending_receipt_persistence_failed", FALSE)
                 ELSE Refused("outcome_receipt_persistence_failed", TRUE))
  /\ acked' = acked \ {c}
  /\ UNCHANGED <<req, clock, pending, outcome, did,
                 durable, table, up, restarts, inflight, landed>>

(* invoke_and_finalize/4: fun.() has its effect and returns, raises or       *)
(* throws; "undigestable" is a returned value Hash.digest/1 raises on (a map *)
(* that holds an improper list).                                             *)
Invoke(c) ==
  /\ pc[c] = "invoke"
  /\ \E result \in {"returned", "raised", "undigestable"} :
       did' = [did EXCEPT ![c] = result]
  /\ pc' = [pc EXCEPT ![c] = "finalize"]
  /\ UNCHANGED <<req, clock, pending, outcome, answer, ledgerVars>>

(* invoke_and_finalize/4 and finalize_failure/5: build and send the outcome. *)
Finalize(c) ==
  LET o == Outcome(pending[c], did[c], clock)
  IN  /\ pc[c] = "finalize"
      /\ outcome' = [outcome EXCEPT ![c] = o]
      /\ pc' = [pc EXCEPT ![c] = "put_outcome"]
      /\ SendPut(c, o)
      /\ UNCHANGED <<req, clock, pending, did, answer,
                     durable, table, up, restarts, acked, landed>>

(* The outcome receipt is persisted: {:ok, ...} for a callback that          *)
(* returned, {:error, %{error:, pending:, receipt:}} for one that failed.    *)
OutcomePersisted(c) ==
  /\ pc[c] = "put_outcome"
  /\ c \in acked
  /\ acked' = acked \ {c}
  /\ Return(c, [tag |-> IF did[c] = "returned" THEN "ok" ELSE "error",
                do_attempted |-> TRUE])
  /\ UNCHANGED <<req, clock, pending, outcome, did,
                 durable, table, up, restarts, inflight, landed>>

(* The calling process dies between two steps: it is killed from outside, or *)
(* goes down with the process it is linked to.                               *)
Kill(c) ==
  /\ pc[c] \notin {"start", "done", "dead"}
  /\ pc' = [pc EXCEPT ![c] = "dead"]
  /\ acked' = acked \ {c}
  /\ UNCHANGED <<req, clock, pending, outcome, did, answer,
                 durable, table, up, restarts, inflight, landed>>

CallerStep(c) ==
  \/ Refuse(c) \/ Begin(c) \/ BeginRaises(c) \/ PendingPersisted(c) \/ PutFails(c)
  \/ Invoke(c) \/ Finalize(c) \/ OutcomePersisted(c)

-----------------------------------------------------------------------------
(* The ledger process. *)

Waiting(c) == pc[c] \in {"put_pending", "put_outcome"}

(* Mutant of HandlePut: the reply leaves before the receipt is inserted, and *)
(* the insert is lost.                                                       *)
MutantReplyWithoutInsert(m) ==
  /\ up
  /\ inflight' = inflight \ {m}
  /\ acked' = acked \cup {c \in {m.call} : Waiting(c)}
  /\ UNCHANGED <<callVars, clock, durable, table, up, restarts, landed>>

(* handle_call({:put, receipt}): insert, and reply to the caller if it still *)
(* waits.  Requests of different callers arrive in any order; a caller has   *)
(* at most one under way.                                                    *)
HandlePut(m) ==
  /\ up
  /\ table' = table \cup {m.receipt}
  /\ landed' = landed \cup {<<m.receipt, restarts>>}
  /\ inflight' = inflight \ {m}
  /\ acked' = acked \cup {c \in {m.call} : Waiting(c)}
  /\ UNCHANGED <<callVars, clock, durable, up, restarts>>

(* DetsStore only: :dets.insert or :dets.sync failed, the reply is an error. *)
(* (Insert done and sync failed is HandlePut followed by PutFails.)          *)
RejectPut(m) ==
  /\ up
  /\ durable
  /\ inflight' = inflight \ {m}
  /\ UNCHANGED <<callVars, clock, durable, table, up, restarts, acked, landed>>

(* Mutant of LedgerDies: the DETS file does not survive (it is not synced).  *)
MutantLedgerForgets ==
  /\ up
  /\ restarts < MaxRestarts
  /\ up' = FALSE
  /\ restarts' = restarts + 1
  /\ inflight' = {}
  /\ table' = {}
  /\ UNCHANGED <<callVars, clock, durable, acked, landed>>

(* The ledger process dies: its mailbox is gone, and so are the ETS tables   *)
(* it owns; a synced DETS file stays.                                        *)
LedgerDies ==
  /\ up
  /\ restarts < MaxRestarts
  /\ up' = FALSE
  /\ restarts' = restarts + 1
  /\ inflight' = {}
  /\ table' = IF durable THEN table ELSE {}
  /\ UNCHANGED <<callVars, clock, durable, acked, landed>>

(* Its supervisor starts it again under the same name. *)
LedgerRestarts ==
  /\ ~ up
  /\ up' = TRUE
  /\ UNCHANGED <<callVars, clock, durable, table, restarts, inflight, acked, landed>>

LedgerStep ==
  \/ \E m \in inflight : HandlePut(m) \/ RejectPut(m)
  \/ LedgerDies
  \/ LedgerRestarts

Next ==
  \/ Tick
  \/ LedgerStep
  \/ \E c \in Call : CallerStep(c) \/ Kill(c)

Spec == Init /\ [][Next]_vars

(* A process that can run runs: the BEAM scheduler is fair, the timer of a   *)
(* GenServer.call fires, and callbacks are assumed to return or raise.       *)
(* Nothing is assumed of the ledger.                                         *)
FairSpec == Spec /\ \A c \in Call : WF_vars(CallerStep(c))

-----------------------------------------------------------------------------
(* What is true of the receipts the ledger ever held. *)

Landed(r) == \E e \in 0..restarts : <<r, e>> \in landed

LostInRestart(r) == ~ durable /\ \E e \in 0..restarts : e < restarts /\ <<r, e>> \in landed

(* admit_parent/2: the outcome repeats what its pending receipt is about.    *)
AdmitParent(parent, o) ==
  /\ o.subject_hash = parent.body.subject_hash
  /\ o.operation = parent.body.operation
  /\ o.authority_hash = parent.body.authority_hash

(* Replay.Chain.verify/2 of a receipt against the ledger.  Replay.verify/1   *)
(* digests the receipt's own payload again: a receipt that is its payload    *)
(* matches.                                                                  *)
ChainVerdict(r) ==
  CASE r.phase = "pending" -> "match"
    [] r.phase = "outcome" /\ r.parent_hash \notin table -> "receipt_parent_not_found"
    [] r.phase = "outcome" /\ r.parent_hash \in table ->
         IF AdmitParent(r.parent_hash, r) THEN "chain_match" ELSE "receipt_parent_mismatch"

(* Every variable has its type. *)
TypeOK ==
  /\ req \in [Call -> Request]
  /\ clock \in Clock
  /\ pc \in [Call -> {"start", "put_pending", "invoke", "finalize", "put_outcome",
                      "done", "dead"}]
  /\ pending \in [Call -> PendingReceipt \cup {Nil}]
  /\ outcome \in [Call -> OutcomeReceipt \cup {Nil}]
  /\ did \in [Call -> {"not_invoked", "returned", "raised", "undigestable"}]
  /\ answer \in [Call -> Answer]
  /\ durable \in BOOLEAN
  /\ table \subseteq Receipt
  /\ up \in BOOLEAN
  /\ restarts \in 0..MaxRestarts
  /\ inflight \subseteq [call : Call, receipt : Receipt]
  /\ acked \subseteq Call
  /\ landed \subseteq Receipt \X (0..MaxRestarts)

(* The DO boundary (evidence.ex:265-275): a callback runs only after the     *)
(* ledger has inserted the call's pending receipt, whatever becomes of the   *)
(* ledger, the reply or the clock in between.                                *)
DoOnlyAfterPending ==
  \A c \in Call : did[c] # "not_invoked" => Landed(pending[c])

(* What execute/5 tells its caller is so (evidence.ex:304-367): :ok means    *)
(* the callback returned and its :alive outcome was inserted; an error       *)
(* result means the failure was recorded as :blocked; do_attempted says      *)
(* whether the callback ran.                                                 *)
AnswersTruthful ==
  \A c \in Call :
    /\ answer[c].tag = "ok" =>
         did[c] = "returned" /\ Landed(outcome[c]) /\ outcome[c].standing = "alive"
    /\ answer[c].tag = "error" =>
         did[c] # "not_invoked" /\ Landed(outcome[c]) /\ outcome[c].standing = "blocked"
    /\ answer[c].tag # "none" =>
         (answer[c].do_attempted <=> did[c] # "not_invoked")

(* Replay of the ledger (replay_chain.ex:11-82): an outcome receipt in the   *)
(* ledger closes over its pending receipt there and speaks of the same       *)
(* subject, operation and authority, unless a restart of the volatile ledger *)
(* took the pending receipt away; a durable ledger has no such exception.    *)
OutcomesClose ==
  \A r \in table : \/ ChainVerdict(r) \in {"match", "chain_match"}
                    \/ /\ ChainVerdict(r) = "receipt_parent_not_found"
                       /\ LostInRestart(r.parent_hash)

(* Standing is earned: an :alive outcome in the ledger belongs to a call     *)
(* whose callback returned, a :blocked one to a call whose callback ran and  *)
(* did not deliver a recordable result.                                      *)
StandingEarned ==
  \A r \in table \cap OutcomeReceipt : \E c \in Call :
    /\ outcome[c] = r
    /\ did[c] \in IF r.standing = "alive" THEN {"returned"} ELSE {"raised", "undigestable"}

(* Every call returns or dies, even if the ledger never answers again.       *)
EveryCallEnds == \A c \in Call : <>(pc[c] \in {"done", "dead"})

(* The inductive invariant behind the properties above, in three parts.      *)
(* A call's own state: how far it got, what it built and what it saw.        *)
CallInv ==
  \A c \in Call :
    /\ pc[c] = "start" => pending[c] = Nil
    /\ pending[c] = Nil => pc[c] \in {"start", "done", "dead"}
    /\ pc[c] \in {"start", "put_pending", "invoke"} => did[c] = "not_invoked"
    /\ pc[c] \in {"finalize", "put_outcome"} => did[c] # "not_invoked"
    /\ pc[c] = "invoke" \/ did[c] # "not_invoked" => Landed(pending[c])
    /\ pc[c] \in {"start", "put_pending", "invoke", "finalize"} => outcome[c] = Nil
    /\ pc[c] = "put_outcome" => outcome[c] # Nil
    /\ outcome[c] # Nil =>
         /\ did[c] # "not_invoked"
         /\ outcome[c].parent_hash = pending[c]
         /\ AdmitParent(pending[c], outcome[c])
         /\ outcome[c].standing = "alive" <=> did[c] = "returned"
    /\ answer[c].tag = "none" <=> pc[c] # "done"

(* The messages: a request under way carries what its caller built, there is *)
(* one per caller, and a reply on its way means that the receipt landed.     *)
MessageInv ==
  /\ \A m \in inflight :
       /\ m.call \notin acked
       /\ pc[m.call] \in {"put_pending", "put_outcome", "done", "dead"}
       /\ m.receipt \in {pending[m.call], outcome[m.call]}
       /\ pc[m.call] = "put_outcome" => m.receipt = outcome[m.call]
  /\ \A m, n \in inflight : m.call = n.call => m = n
  /\ \A c \in acked : \/ pc[c] = "put_pending" /\ Landed(pending[c])
                      \/ pc[c] = "put_outcome" /\ Landed(outcome[c])

(* The ledger: what landed is there or was lost, and nothing else is there;  *)
(* a landed outcome was built by a call.                                     *)
LedgerInv ==
  /\ \A r \in table : Landed(r)
  /\ \A l \in landed : /\ l[2] <= restarts
                       /\ l[1] \in table \/ LostInRestart(l[1])
                       /\ l[1] \in OutcomeReceipt => \E c \in Call : outcome[c] = l[1]

(* The three together are preserved by every step (evidence.ex:259-381).     *)
BrceInv == CallInv /\ MessageInv /\ LedgerInv

(* The refinement: what the abstract contract calls recorded, done and told. *)
AbsRecorded ==
  ({c \in Call : Landed(pending[c])} \X {"intent"})
    \cup ({c \in Call : Landed(outcome[c])} \X {"outcome"})

AbsDone == {c \in Call : did[c] # "not_invoked"}

Told(a) ==
  CASE a.tag = "none" -> "nothing"
    [] a.tag \in {"ok", "error"} -> "confirmed"
    [] a.tag = "outcome_receipt_persistence_failed" -> "unrecorded"
    [] a.tag \in {"authority_required", "authority_denied",
                  "pending_receipt_persistence_failed"} -> "refused"

AbsTold == [c \in Call |-> Told(answer[c])]

Abstract == INSTANCE ReceiptedDo
              WITH recorded <- AbsRecorded, done <- AbsDone, told <- AbsTold

(* The boundary implements its contract: an intent on record before the DO,  *)
(* at most one DO per call and none after an answer, outcomes recorded only  *)
(* for DOs, and answers that agree with both (evidence.ex:265-381).          *)
ImplementsReceiptedDo == Abstract!DoSpec

(* "receipt persistence failed; standing cannot advance" (evidence.ex:356):  *)
(* after that refusal of an outcome, no :alive outcome of the call is in the *)
(* ledger.                                                                   *)
RefusedStandingStays ==
  \A c \in Call :
    answer[c].tag = "outcome_receipt_persistence_failed" =>
      ~ (outcome[c] \in table /\ outcome[c].standing = "alive")
=============================================================================
