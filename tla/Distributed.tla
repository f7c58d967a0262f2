---------------------------- MODULE Distributed ----------------------------
(***************************************************************************)
(* Ex4pm.Runtime.Distributed: a task of a plan is dispatched to another     *)
(* BEAM node and executed there behind that node's BRCE                     *)
(* (lib/ex4pm/runtime/distributed.ex).                                      *)
(*                                                                          *)
(* The origin records a dispatch intent, calls the remote node with         *)
(* :erpc.call/5, mirrors the remote receipts into its own ledger and closes *)
(* the dispatch with an outcome.  The call may time out or lose its         *)
(* connection while the remote process goes on; the remote node may crash;  *)
(* each put at the origin may fail, and a put that failed for its caller    *)
(* may still be inserted later.  Which tasks of a plan run at the same time *)
(* is Runtime's business: here every task may be dispatched at any time.    *)
(*                                                                          *)
(* The remote BRCE is as coarse here as its contract ReceiptedDo, which     *)
(* Brce implements in detail.                                               *)
(***************************************************************************)
EXTENDS Integers, Sequences

CONSTANTS
  Task,      \* the tasks of the plan
  Layers,    \* plan.layers: a sequence of sequences of tasks
  Nodes,     \* the :nodes option, a sequence without duplicates
  Foreign,   \* nodes that run another release of this code
  MaxCrash   \* bound: how often a node crashes or a connection is lost

Node == {Nodes[i] : i \in DOMAIN Nodes}

ASSUME DistributedAssumption ==
  /\ DOMAIN Layers \subseteq Nat
  /\ \A i \in DOMAIN Layers : DOMAIN Layers[i] \subseteq Nat
  /\ \A t \in Task : \E i \in DOMAIN Layers : \E j \in DOMAIN Layers[i] : Layers[i][j] = t
  /\ Len(Nodes) \in Nat \ {0}
  /\ DOMAIN Nodes = 1..Len(Nodes)
  /\ Foreign \subseteq Node
  /\ MaxCrash \in Nat

VARIABLES
  admitted,  \* did execute/3 admit the nodes: "no" yet, "yes", or "refused"
  pc,        \* where each task's dispatch is at the origin
  heard,     \* what the :erpc.call brought back, or "nothing"
  answer,    \* what execute_on_node returned
  origin,    \* every receipt the origin ledger inserted
  late,      \* receipts whose put failed for the caller and may be inserted
  reply,     \* what is in the caller's mailbox for the call, or "nothing"
  remote,    \* the remote process of each call
  did,       \* what the task did on the remote node
  ledger,    \* <<task, phase>>: every receipt the remote ledgers inserted
  link,      \* nodes the origin is connected to
  crashes    \* node crashes and lost connections so far

originVars == <<admitted, pc, heard, answer, origin, late>>
remoteVars == <<remote, did, ledger>>
vars == <<admitted, pc, heard, answer, origin, late, reply, remote, did, ledger,
          link, crashes>>

-----------------------------------------------------------------------------

(* placement_map/2: task j of layer i goes to node i + j modulo the nodes.   *)
Position(t) ==
  CHOOSE p \in UNION {{i} \X DOMAIN Layers[i] : i \in DOMAIN Layers} :
    Layers[p[1]][p[2]] = t

Placement == [t \in Task |->
  Nodes[(((Position(t)[1] - 1) + (Position(t)[2] - 1)) % Len(Nodes)) + 1]]

(* What a call may bring back: the value of execute_remote_task, an erpc     *)
(* error, or the exit or exception of the remote process.                    *)
Ambiguous == {"noconnection", "timeout"}

Heard == Ambiguous \cup
  {"ok", "failure", "refused_before_do", "refused_after_do", "other", "mismatch",
   "system_limit", "raised"}

(* Mutant of Resolution: only a timeout counts as ambiguous.                 *)
MutantResolutionNoconnectionFailed(h) ==
  CASE h = "ok"                                     -> "confirmed"
    [] h = "failure"                                -> "confirmed_failure"
    [] h \in {"refused_before_do", "refused_after_do"} -> "remote_refusal"
    [] h = "other"                                  -> "invalid_remote_result"
    [] h \in {"system_limit", "noconnection"}       -> "failed"
    [] h \in {"timeout", "raised"}                  -> "ambiguous"

(* The :resolution each branch of perform_remote_call closes with.           *)
Resolution(h) ==
  CASE h = "ok"                                     -> "confirmed"
    [] h = "failure"                                -> "confirmed_failure"
    [] h \in {"refused_before_do", "refused_after_do"} -> "remote_refusal"
    [] h = "other"                                  -> "invalid_remote_result"
    [] h = "system_limit"                           -> "failed"
    [] h \in Ambiguous \cup {"raised"}              -> "ambiguous"

(* The :do_may_have_been_attempted each of them closes with.                 *)
MayHaveAttempted(h) ==
  Resolution(h) \in {"confirmed_failure", "invalid_remote_result", "ambiguous"}

DispatchIntent(t) == [task |-> t, role |-> "dispatch", phase |-> "pending"]

DispatchOutcome(t, h) ==
  [task |-> t, role |-> "dispatch", phase |-> "outcome",
   standing |-> IF h = "ok" THEN "alive" ELSE "blocked",
   resolution |-> Resolution(h), may_have_attempted |-> MayHaveAttempted(h)]

TaskPending(t) == [task |-> t, role |-> "task", phase |-> "pending"]

TaskOutcome(t, h) ==
  [task |-> t, role |-> "task", phase |-> "outcome",
   standing |-> IF h = "ok" THEN "alive" ELSE "blocked"]

NoAnswer == [code |-> "none", says |-> "nothing"]

Answers(code, says) == [code |-> code, says |-> says]

(* Mutant of BranchAnswer: a lost connection is answered like a failed spawn.*)
MutantBranchAnswerNoconnectionDenied(h) ==
  CASE h = "ok"                -> Answers("ok", "attempted")
    [] h = "failure"           -> Answers("failure", "attempted")
    [] h = "refused_before_do" -> Answers("remote_refusal", "not_attempted")
    [] h = "refused_after_do"  -> Answers("remote_refusal", "attempted")
    [] h = "other"             -> Answers("invalid_result", "unsaid")
    [] h \in {"system_limit", "noconnection"} -> Answers("erpc_failed", "not_attempted")
    [] h = "timeout"           -> Answers("erpc_failed", "maybe")
    [] h = "raised"            -> Answers("remote_failure", "maybe")

(* What the answer says of the DO when the branch for h returned it.         *)
BranchAnswer(h) ==
  CASE h = "ok"                -> Answers("ok", "attempted")
    [] h = "failure"           -> Answers("failure", "attempted")
    [] h = "refused_before_do" -> Answers("remote_refusal", "not_attempted")
    [] h = "refused_after_do"  -> Answers("remote_refusal", "attempted")
    [] h = "other"             -> Answers("invalid_result", "unsaid")
    [] h = "system_limit"      -> Answers("erpc_failed", "not_attempted")
    [] h \in Ambiguous         -> Answers("erpc_failed", "maybe")
    [] h = "raised"            -> Answers("remote_failure", "maybe")

-----------------------------------------------------------------------------
Init ==
  /\ admitted = "no"
  /\ pc = [t \in Task |-> "start"]
  /\ heard = [t \in Task |-> "nothing"]
  /\ answer = [t \in Task |-> NoAnswer]
  /\ origin = {}
  /\ late = {}
  /\ reply = [t \in Task |-> "nothing"]
  /\ remote = [t \in Task |-> "idle"]
  /\ did = [t \in Task |-> "not_invoked"]
  /\ ledger = {}
  /\ link \in SUBSET Node
  /\ crashes = 0

(* A put at the origin that succeeded, and one that failed for its caller:   *)
(* it crashed, or timed out with the request still in the mailbox.           *)
Persisted(r) ==
  /\ origin' = origin \cup {r}
  /\ UNCHANGED late

NotPersisted(r) ==
  /\ late' \in {late, late \cup {r}}
  /\ UNCHANGED origin

Return(t, a) ==
  /\ pc' = [pc EXCEPT ![t] = "done"]
  /\ answer' = [answer EXCEPT ![t] = a]

Goto(t, where) ==
  /\ pc' = [pc EXCEPT ![t] = where]
  /\ UNCHANGED answer

(* admit_distribution/1 refuses an origin that is not distributed and a list *)
(* that is empty or names no nodes, and nothing is pinged.  admit_nodes/1    *)
(* pings every node: one that answers is connected afterwards, and one that  *)
(* does not is not.  If one does not, nothing is dispatched.                 *)
AdmitNodes ==
  /\ admitted = "no"
  /\ \/ admitted' = "refused" /\ UNCHANGED link
     \/ \E up \in SUBSET Node :
          /\ link' = up
          /\ admitted' = IF up = Node THEN "yes" ELSE "refused"
  /\ UNCHANGED <<pc, heard, answer, origin, late, reply, remoteVars, crashes>>

(* execute_on_node/7: the dispatch intent is persisted before the call.      *)
Dispatch(t) ==
  /\ admitted = "yes"
  /\ pc[t] = "start"
  /\ \/ /\ Persisted(DispatchIntent(t))
        /\ Goto(t, "call")
     \/ /\ NotPersisted(DispatchIntent(t))
        /\ Return(t, Answers("dispatch_persistence_failed", "not_attempted"))
  /\ UNCHANGED <<admitted, heard, reply, remoteVars, link, crashes>>

(* :erpc.call sends a spawn request; without a connection it tries to make   *)
(* one.  The remote node may refuse to spawn.                                *)
ErpcCall(t) ==
  LET n == Placement[t]
  IN  /\ pc[t] = "call"
      /\ Goto(t, "calling")
      /\ \/ /\ remote' = [remote EXCEPT ![t] = "sent"]
            /\ link' = link \cup {n}
            /\ UNCHANGED reply
         \/ /\ reply' = [reply EXCEPT ![t] = "system_limit"]
            /\ link' = link \cup {n}
            /\ UNCHANGED remote
         \/ /\ n \notin link
            /\ reply' = [reply EXCEPT ![t] = "noconnection"]
            /\ UNCHANGED <<remote, link>>
      /\ UNCHANGED <<admitted, heard, origin, late, did, ledger, crashes>>

(* Where each branch of perform_remote_call goes on.  A receipt chain that   *)
(* does not verify is answered at once.                                      *)
Branch(t, h) ==
  /\ heard' = [heard EXCEPT ![t] = h]
  /\ \/ h \in {"ok", "failure"} /\ Goto(t, "mirror_pending")
     \/ h = "mismatch" /\ Return(t, Answers("chain_mismatch", "unsaid"))
     \/ h \notin {"ok", "failure", "mismatch"} /\ Goto(t, "close")

(* The call returns or raises. *)
Receive(t) ==
  /\ pc[t] = "calling"
  /\ reply[t] # "nothing"
  /\ Branch(t, reply[t])
  /\ reply' = [reply EXCEPT ![t] = "nothing"]
  /\ UNCHANGED <<admitted, origin, late, remoteVars, link, crashes>>

(* Mutant of TimeOut: the call has no timeout and relies on the connection.  *)
MutantTimeOutDisconnected(t) ==
  /\ pc[t] = "calling"
  /\ reply[t] = "nothing"
  /\ Placement[t] \notin link
  /\ Branch(t, "timeout")
  /\ UNCHANGED <<admitted, origin, late, reply, remoteVars, link, crashes>>

(* The call times out; nothing stops the remote process.                     *)
TimeOut(t) ==
  /\ pc[t] = "calling"
  /\ reply[t] = "nothing"
  /\ Branch(t, "timeout")
  /\ UNCHANGED <<admitted, origin, late, reply, remoteVars, link, crashes>>

(* Mutant of MirrorPending: a failed mirror of the pending receipt is        *)
(* ignored.                                                                  *)
MutantMirrorPendingIgnored(t) ==
  /\ pc[t] = "mirror_pending"
  /\ Persisted(TaskPending(t)) \/ NotPersisted(TaskPending(t))
  /\ Goto(t, "mirror_outcome")
  /\ UNCHANGED <<admitted, heard, reply, remoteVars, link, crashes>>

(* mirror_receipt/2, first the pending and then the outcome receipt.  A      *)
(* failure is answered at once, and says that a DO may have been attempted   *)
(* exactly when the receipt was an outcome (put_receipt/3).                  *)
MirrorPending(t) ==
  /\ pc[t] = "mirror_pending"
  /\ \/ /\ Persisted(TaskPending(t))
        /\ Goto(t, "mirror_outcome")
     \/ /\ NotPersisted(TaskPending(t))
        /\ Return(t, Answers("mirror_failed", "not_attempted"))
  /\ UNCHANGED <<admitted, heard, reply, remoteVars, link, crashes>>

MirrorOutcome(t) ==
  /\ pc[t] = "mirror_outcome"
  /\ \/ /\ Persisted(TaskOutcome(t, heard[t]))
        /\ Goto(t, "close")
     \/ /\ NotPersisted(TaskOutcome(t, heard[t]))
        /\ Return(t, Answers("mirror_failed", "maybe"))
  /\ UNCHANGED <<admitted, heard, reply, remoteVars, link, crashes>>

(* Mutant of Close: the answer is returned whether or not the dispatch could *)
(* be closed.                                                                *)
MutantCloseIgnoresFailure(t) ==
  /\ pc[t] = "close"
  /\ \/ Persisted(DispatchOutcome(t, heard[t]))
     \/ NotPersisted(DispatchOutcome(t, heard[t]))
  /\ Return(t, BranchAnswer(heard[t]))
  /\ UNCHANGED <<admitted, heard, reply, remoteVars, link, crashes>>

(* close_dispatch/6.  The branches for a remote refusal and for an unknown   *)
(* result ignore whether the receipt could be persisted.                     *)
Close(t) ==
  /\ pc[t] = "close"
  /\ \/ /\ Persisted(DispatchOutcome(t, heard[t]))
        /\ Return(t, BranchAnswer(heard[t]))
     \/ /\ NotPersisted(DispatchOutcome(t, heard[t]))
        /\ Return(t, IF Resolution(heard[t]) \in {"remote_refusal", "invalid_remote_result"}
                       THEN BranchAnswer(heard[t])
                       ELSE Answers("ambiguity_receipt_failed", "maybe"))
  /\ UNCHANGED <<admitted, heard, reply, remoteVars, link, crashes>>

(* A put that failed for its caller is inserted after all.                   *)
LateInsert(r) ==
  /\ late' = late \ {r}
  /\ origin' = origin \cup {r}
  /\ UNCHANGED <<admitted, pc, heard, answer, reply, remoteVars, link, crashes>>

-----------------------------------------------------------------------------
(* The remote node. *)

(* The remote process ends with result h; the caller gets it if it still     *)
(* waits and has not been told that the connection is lost.                  *)
End(t, how, h) ==
  /\ remote' = [remote EXCEPT ![t] = how]
  /\ reply' = IF pc[t] = "calling" /\ reply[t] = "nothing"
                THEN [reply EXCEPT ![t] = h] ELSE reply

(* The spawn request arrives, perhaps after the caller stopped waiting.      *)
RemoteStart(t) ==
  /\ remote[t] = "sent"
  /\ remote' = [remote EXCEPT ![t] = "begin"]
  /\ UNCHANGED <<originVars, reply, did, ledger, link, crashes>>

(* execute_remote_task: the remote BRCE refuses the authority or cannot      *)
(* persist its pending receipt.                                              *)
RemoteRefuse(t) ==
  /\ remote[t] = "begin"
  /\ End(t, "refused", "refused_before_do")
  /\ UNCHANGED <<originVars, did, ledger, link, crashes>>

RemoteIntent(t) ==
  /\ remote[t] = "begin"
  /\ ledger' = ledger \cup {<<t, "pending">>}
  /\ remote' = [remote EXCEPT ![t] = "invoke"]
  /\ UNCHANGED <<originVars, reply, did, link, crashes>>

(* Mutant of RemoteDo: the task is executed before its receipt is recorded.  *)
MutantRemoteDoFirst(t) ==
  /\ remote[t] \in {"begin", "invoke"}
  /\ \E result \in {"returned", "raised"} : did' = [did EXCEPT ![t] = result]
  /\ remote' = [remote EXCEPT ![t] = "finalize"]
  /\ UNCHANGED <<originVars, reply, ledger, link, crashes>>

(* Intent.execute(task) returns, raises, or returns a value that cannot be   *)
(* digested, which BRCE records as a failure.                                *)
RemoteDo(t) ==
  /\ remote[t] = "invoke"
  /\ \E result \in {"returned", "raised", "undigested"} : did' = [did EXCEPT ![t] = result]
  /\ remote' = [remote EXCEPT ![t] = "finalize"]
  /\ UNCHANGED <<originVars, reply, ledger, link, crashes>>

(* The outcome receipt is persisted and the result returned, or it is not.   *)
RemoteOutcome(t) ==
  /\ remote[t] = "finalize"
  /\ ledger' = ledger \cup {<<t, "outcome">>}
  /\ remote' = [remote EXCEPT ![t] = "recorded"]
  /\ UNCHANGED <<originVars, reply, did, link, crashes>>

RemoteConfirm(t) ==
  /\ remote[t] = "recorded"
  /\ End(t, "confirmed", IF did[t] = "returned" THEN "ok" ELSE "failure")
  /\ UNCHANGED <<originVars, did, ledger, link, crashes>>

RemoteUnrecorded(t) ==
  /\ remote[t] = "finalize"
  /\ End(t, "unrecorded", "refused_after_do")
  /\ UNCHANGED <<originVars, did, ledger, link, crashes>>

(* A put that failed for the remote process is inserted after all.           *)
RemoteLateInsert(t) ==
  /\ \/ remote[t] = "refused" /\ ledger' = ledger \cup {<<t, "pending">>}
     \/ remote[t] = "unrecorded" /\ ledger' = ledger \cup {<<t, "outcome">>}
  /\ UNCHANGED <<originVars, reply, remote, did, link, crashes>>

(* The remote process is killed, or raises outside BRCE's try block.         *)
RemoteKilled(t) ==
  /\ remote[t] \in {"begin", "invoke", "finalize", "recorded"}
  /\ End(t, "killed", "raised")
  /\ UNCHANGED <<originVars, did, ledger, link, crashes>>

(* Another release may execute the task in its own way, and answer with      *)
(* anything; its receipts may not chain to this dispatch.                    *)
ForeignAnswer(t) ==
  /\ remote[t] = "begin"
  /\ Placement[t] \in Foreign
  /\ did' \in {did, [did EXCEPT ![t] = "returned"]}
  /\ \E h \in {"other", "mismatch", "raised"} : End(t, "foreign", h)
  /\ UNCHANGED <<originVars, ledger, link, crashes>>

(* The connection to n is lost: requests on their way are lost, and every    *)
(* waiting caller is told.  If the node crashed its processes are gone;      *)
(* otherwise they go on.  (A later call connects again.)                     *)
Disconnect(n) ==
  LET calls == {t \in Task : Placement[t] = n}
  IN  /\ n \in link
      /\ crashes < MaxCrash
      /\ crashes' = crashes + 1
      /\ link' = link \ {n}
      /\ reply' = [t \in Task |-> IF t \in calls /\ pc[t] = "calling" /\ reply[t] = "nothing"
                                    THEN "noconnection" ELSE reply[t]]
      /\ \E gone \in {{"sent"}, {"sent", "begin", "invoke", "finalize", "recorded"}} :
           remote' = [t \in Task |-> IF t \in calls /\ remote[t] \in gone THEN "lost" ELSE remote[t]]
      /\ UNCHANGED <<originVars, did, ledger>>

-----------------------------------------------------------------------------

(* execute_on_node/7 once it is running. *)
CallStep(t) ==
  \/ ErpcCall(t) \/ Receive(t) \/ TimeOut(t)
  \/ MirrorPending(t) \/ MirrorOutcome(t) \/ Close(t)

OriginStep(t) == Dispatch(t) \/ CallStep(t)

RemoteStep(t) ==
  \/ RemoteStart(t) \/ RemoteRefuse(t) \/ RemoteIntent(t) \/ RemoteDo(t)
  \/ RemoteOutcome(t) \/ RemoteLateInsert(t) \/ RemoteConfirm(t) \/ RemoteUnrecorded(t) \/ RemoteKilled(t) \/ ForeignAnswer(t)

Next ==
  \/ AdmitNodes
  \/ \E t \in Task : OriginStep(t) \/ RemoteStep(t)
  \/ \E r \in late : LateInsert(r)
  \/ \E n \in Node : Disconnect(n)

Spec == Init /\ [][Next]_vars

(* A task process of the origin goes on once it was started, and the timer   *)
(* of :erpc.call fires.  No fairness is assumed of Dispatch (Reactor starts  *)
(* no further task after a failure), of the remote nodes or of the network.  *)
FairSpec == Spec /\ \A t \in Task : WF_vars(CallStep(t))

-----------------------------------------------------------------------------
OriginReceipt ==
  {DispatchIntent(t) : t \in Task} \cup {TaskPending(t) : t \in Task}
    \cup {TaskOutcome(t, h) : t \in Task, h \in Heard}
    \cup {DispatchOutcome(t, h) : t \in Task, h \in Heard \ {"mismatch"}}

Answer ==
  [code : {"none", "ok", "failure", "remote_refusal", "invalid_result", "erpc_failed",
           "remote_failure", "chain_mismatch", "dispatch_persistence_failed",
           "mirror_failed", "ambiguity_receipt_failed"},
   says : {"nothing", "attempted", "not_attempted", "maybe", "unsaid"}]

(* Every variable has its type. *)
TypeOK ==
  /\ admitted \in {"no", "yes", "refused"}
  /\ pc \in [Task -> {"start", "call", "calling", "mirror_pending", "mirror_outcome",
                      "close", "done"}]
  /\ heard \in [Task -> Heard \cup {"nothing"}]
  /\ answer \in [Task -> Answer]
  /\ origin \subseteq OriginReceipt
  /\ late \subseteq OriginReceipt
  /\ reply \in [Task -> (Heard \ {"timeout"}) \cup {"nothing"}]
  /\ remote \in [Task -> {"idle", "sent", "begin", "invoke", "finalize", "recorded", "refused",
                          "confirmed", "unrecorded", "killed", "foreign", "lost"}]
  /\ did \in [Task -> {"not_invoked", "returned", "raised", "undigested"}]
  /\ ledger \subseteq Task \X {"pending", "outcome"}
  /\ link \subseteq Node
  /\ crashes \in 0..MaxCrash

Invoked(t) == did[t] # "not_invoked"

(* No task runs anywhere unless the origin has recorded the intent to        *)
(* dispatch it, and unless the node that runs it (if it runs this release)   *)
(* has recorded its own intent (distributed.ex:148-156, evidence.ex:271).    *)
DispatchRecordedFirst ==
  \A t \in Task : Invoked(t) =>
    /\ DispatchIntent(t) \in origin
    /\ Placement[t] \in Foreign \/ <<t, "pending">> \in ledger

(* A confirmed answer is backed by both ledgers (distributed.ex:190-227):    *)
(* the task did what is claimed, the remote node recorded it, and the origin *)
(* holds the two mirrored receipts and the closed dispatch; "a lost node is  *)
(* relabeled success" (docs/CHICAGO.md:49) never happens.                    *)
ConfirmedIsDone ==
  \A t \in Task : answer[t].code \in {"ok", "failure"} =>
    LET h == answer[t].code
    IN  /\ did[t] \in IF h = "ok" THEN {"returned"} ELSE {"raised", "undigested"}
        /\ {<<t, "pending">>, <<t, "outcome">>} \subseteq ledger
        /\ {TaskPending(t), TaskOutcome(t, h), DispatchIntent(t), DispatchOutcome(t, h)}
              \subseteq origin

(* The origin ledger replays (replay_chain.ex:11-60) whatever was inserted   *)
(* late: an outcome there has its pending receipt there, and a mirrored      *)
(* receipt is one that the remote ledger inserted.  And it is left with an   *)
(* open dispatch, which it cannot tell from one that is still running, only  *)
(* by an answer that names a receipt of this dispatch it could not verify or *)
(* persist, or that closes whatever the ledger says (distributed.ex:229-262).*)
OriginCloses ==
  /\ \A r \in origin :
       /\ r.phase = "outcome" => [task |-> r.task, role |-> r.role, phase |-> "pending"] \in origin
       /\ r.role = "task" => <<r.task, r.phase>> \in ledger
  /\ \A t \in Task : answer[t].code \in {"ok", "failure", "erpc_failed", "remote_failure"} =>
       \E r \in origin : r.task = t /\ r.role = "dispatch" /\ r.phase = "outcome"

(* "an ambiguous :erpc failure loses its ambiguity marker"                   *)
(* (docs/CHICAGO.md:50) never happens: a call that timed out or lost its     *)
(* connection is answered with do_may_have_been_attempted, and so does the   *)
(* receipt that closes its dispatch, also if that receipt fails or is late.  *)
AmbiguityKept ==
  \A t \in Task : heard[t] \in Ambiguous =>
    /\ pc[t] = "done" => answer[t].says = "maybe"
    /\ \A r \in origin \cup late :
         r.task = t /\ r.role = "dispatch" /\ r.phase = "outcome" =>
           r.resolution = "ambiguous" /\ r.may_have_attempted

(* What an answer that denies the DO is worth (distributed.ex:182-366).  The *)
(* denial of a failed mirror is always false: the pending receipt that could *)
(* not be mirrored came back with the task's own (put_receipt/3 takes the    *)
(* phase of the receipt for the phase of the DO).  Every other denial, and   *)
(* the closing receipt of a spawn the remote node refused, is true then and  *)
(* for ever after: no process left running there invokes the task later.     *)
OnlyMirrorDeniesFalsely ==
  \A t \in Task :
    /\ answer[t].says = "not_attempted" => (Invoked(t) <=> answer[t].code = "mirror_failed")
    /\ DispatchOutcome(t, "system_limit") \in origin => ~ Invoked(t)

(* Every dispatch that was started is answered, whatever the remote node and *)
(* the network do.                                                           *)
EveryDispatchEnds == \A t \in Task : (pc[t] # "start") ~> (pc[t] = "done")

(* The remote half keeps the contract of BRCE towards its node's ledger,     *)
(* through crashes and killed processes (distributed.ex:58-77).              *)
HomeTask == {t \in Task : Placement[t] \notin Foreign}

Logged(phase) == {t \in HomeTask : <<t, phase>> \in ledger}

RemoteRecorded == (Logged("pending") \X {"intent"}) \cup (Logged("outcome") \X {"outcome"})

RemoteDone == {t \in HomeTask : Invoked(t)}

RemoteTold == [t \in HomeTask |->
  IF remote[t] \in {"refused", "confirmed", "unrecorded"} THEN remote[t] ELSE "nothing"]

RemoteBrce == INSTANCE ReceiptedDo
                WITH Call <- HomeTask, recorded <- RemoteRecorded, done <- RemoteDone,
                     told <- RemoteTold

RemoteKeepsContract == RemoteBrce!DoSpec

(* "do_may_have_been_attempted" (distributed.ex:331): a receipt that closes  *)
(* an unconfirmed dispatch with FALSE means that the DO was not attempted.   *)
ClosingReceiptsAdmitDo ==
  \A r \in origin :
    r.role = "dispatch" /\ r.phase = "outcome" /\ r.resolution # "confirmed"
      /\ ~ r.may_have_attempted => ~ Invoked(r.task)
=============================================================================
