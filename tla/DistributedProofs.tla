------------------------- MODULE DistributedProofs -------------------------
(* Theorems about Distributed, for any plan, any nodes and releases and any  *)
(* number of crashes, lost connections, timeouts and failed puts.            *)
EXTENDS Distributed, TLAPS

-----------------------------------------------------------------------------
(* The inductive invariant.                                                  *)

(* Nothing leaves the origin, and nothing comes back, before the intent to   *)
(* dispatch is in its ledger.                                                *)
SentInv(t) ==
  /\ pc[t] \in {"start", "call"} => remote[t] = "idle" /\ reply[t] = "nothing"
  /\ pc[t] \in {"start", "call", "calling"} => heard[t] = "nothing"
  /\ pc[t] \in {"call", "calling", "mirror_pending", "mirror_outcome", "close"}
       \/ remote[t] # "idle" \/ heard[t] # "nothing"
       => DispatchIntent(t) \in origin

(* The remote process and what it left in its ledger and in the world.       *)
RemoteInv(t) ==
  /\ remote[t] \in {"idle", "sent", "begin", "invoke", "refused"} => ~ Invoked(t)
  /\ remote[t] \in {"finalize", "recorded", "confirmed", "unrecorded"} => Invoked(t)
  /\ remote[t] \in {"invoke", "finalize", "recorded", "confirmed", "unrecorded"}
       => <<t, "pending">> \in ledger
  /\ Invoked(t) /\ Placement[t] \notin Foreign => <<t, "pending">> \in ledger
  /\ remote[t] \in {"recorded", "confirmed"} => <<t, "outcome">> \in ledger

(* A word that came back, or is on its way, is still true: the process that  *)
(* gave it has ended and nobody starts another one.                          *)
Word(t, h) ==
  /\ h = "ok" => remote[t] = "confirmed" /\ did[t] = "returned"
  /\ h = "failure" => remote[t] = "confirmed" /\ did[t] \in {"raised", "undigested"}
  /\ h = "refused_before_do" => remote[t] = "refused"
  /\ h = "system_limit" => remote[t] = "idle"

WordInv(t) == Word(t, reply[t]) /\ Word(t, heard[t])

(* The two mirrored receipts of what was heard.                              *)
Mirrored(t) ==
  heard[t] \in {"ok", "failure"} => {TaskPending(t), TaskOutcome(t, heard[t])} \subseteq origin

(* The branches that wait for the closing receipt before they answer.        *)
Waits(t) == Resolution(heard[t]) \notin {"remote_refusal", "invalid_remote_result"}

(* The origin's process in the middle of a branch ...                        *)
BranchInv(t) ==
  /\ pc[t] # "done" => answer[t] = NoAnswer
  /\ pc[t] \in {"mirror_pending", "mirror_outcome"} => heard[t] \in {"ok", "failure"}
  /\ pc[t] = "mirror_outcome" => TaskPending(t) \in origin
  /\ pc[t] = "close" => heard[t] \notin {"nothing", "mismatch"} /\ Mirrored(t)

(* ... and at its end.                                                       *)
DoneInv(t) ==
  pc[t] = "done" =>
    \/ /\ answer[t] = Answers("dispatch_persistence_failed", "not_attempted")
       /\ heard[t] = "nothing" /\ reply[t] = "nothing" /\ remote[t] = "idle"
    \/ /\ answer[t].code = "mirror_failed"
       /\ heard[t] \in {"ok", "failure"}
    \/ answer[t] = Answers("chain_mismatch", "unsaid") /\ heard[t] = "mismatch"
    \/ /\ answer[t] = Answers("ambiguity_receipt_failed", "maybe")
       /\ heard[t] \notin {"nothing", "mismatch"}
    \/ /\ answer[t] = BranchAnswer(heard[t])
       /\ heard[t] \notin {"nothing", "mismatch"}
       /\ Mirrored(t)
       /\ Waits(t) => DispatchOutcome(t, heard[t]) \in origin

(* The receipts the origin has put so far, also those that may come late.    *)
ReceiptInv(r) ==
  /\ r.role = "task" => heard[r.task] \in {"ok", "failure"}
  /\ r.role = "task" /\ r.phase = "outcome" => TaskPending(r.task) \in origin
  /\ r.role = "dispatch" /\ r.phase = "outcome" =>
       /\ heard[r.task] \notin {"nothing", "mismatch"}
       /\ r = DispatchOutcome(r.task, heard[r.task])

TaskInv(t) == SentInv(t) /\ RemoteInv(t) /\ WordInv(t) /\ BranchInv(t) /\ DoneInv(t)

DistInv ==
  /\ TypeOK
  /\ \A t \in Task : TaskInv(t)
  /\ \A r \in origin \cup late : ReceiptInv(r)

-----------------------------------------------------------------------------
(* Facts about the constants and the data.                                   *)

LEMMA PlacementIsNode == Placement \in [Task -> Node]
<1>1. ASSUME NEW t \in Task PROVE Placement[t] \in Node
  <2> DEFINE Places == UNION {{i} \X DOMAIN Layers[i] : i \in DOMAIN Layers}
  <2>1. \E p \in Places : Layers[p[1]][p[2]] = t
    <3>1. PICK i \in DOMAIN Layers : \E j \in DOMAIN Layers[i] : Layers[i][j] = t
      BY DistributedAssumption
    <3>2. PICK j \in DOMAIN Layers[i] : Layers[i][j] = t
      BY <3>1
    <3>3. <<i, j>> \in Places
      BY <3>1, <3>2
    <3> QED
      BY <3>2, <3>3
  <2>2. Position(t) \in Places
    BY <2>1 DEF Position
  <2>3. PICK i \in DOMAIN Layers : Position(t) \in {i} \X DOMAIN Layers[i]
    BY <2>2
  <2>4. Position(t)[1] \in Nat /\ Position(t)[2] \in Nat
    BY <2>3, DistributedAssumption
  <2> DEFINE k == ((Position(t)[1] - 1) + (Position(t)[2] - 1)) % Len(Nodes)
  <2>5. k \in 0..(Len(Nodes) - 1)
    <3>1. ASSUME NEW x \in Int, NEW n \in Nat \ {0} PROVE x % n \in 0..(n - 1)
      OBVIOUS
    <3>2. (Position(t)[1] - 1) + (Position(t)[2] - 1) \in Int
      BY <2>4
    <3> QED
      BY <3>1, <3>2, DistributedAssumption
  <2>6. k + 1 \in DOMAIN Nodes
    BY <2>5, DistributedAssumption
  <2>7. Placement[t] = Nodes[k + 1]
    BY DEF Placement
  <2> QED
    BY <2>6, <2>7 DEF Node
<1> QED
  BY <1>1 DEF Placement

LEMMA ResolutionOf ==
  /\ Resolution("ok") = "confirmed"
  /\ Resolution("failure") = "confirmed_failure"
  /\ Resolution("refused_before_do") = "remote_refusal"
  /\ Resolution("refused_after_do") = "remote_refusal"
  /\ Resolution("other") = "invalid_remote_result"
  /\ Resolution("system_limit") = "failed"
  /\ Resolution("noconnection") = "ambiguous"
  /\ Resolution("timeout") = "ambiguous"
  /\ Resolution("raised") = "ambiguous"
BY DEF Resolution, Ambiguous

LEMMA BranchAnswerOf ==
  /\ BranchAnswer("ok") = Answers("ok", "attempted")
  /\ BranchAnswer("failure") = Answers("failure", "attempted")
  /\ BranchAnswer("refused_before_do") = Answers("remote_refusal", "not_attempted")
  /\ BranchAnswer("refused_after_do") = Answers("remote_refusal", "attempted")
  /\ BranchAnswer("other") = Answers("invalid_result", "unsaid")
  /\ BranchAnswer("system_limit") = Answers("erpc_failed", "not_attempted")
  /\ BranchAnswer("noconnection") = Answers("erpc_failed", "maybe")
  /\ BranchAnswer("timeout") = Answers("erpc_failed", "maybe")
  /\ BranchAnswer("raised") = Answers("remote_failure", "maybe")
BY DEF BranchAnswer, Ambiguous

LEMMA AnswerFields ==
  \A code, says : Answers(code, says).code = code /\ Answers(code, says).says = says
BY DEF Answers

LEMMA ReceiptFields ==
  /\ \A t : /\ DispatchIntent(t).task = t /\ DispatchIntent(t).role = "dispatch"
             /\ DispatchIntent(t).phase = "pending"
  /\ \A t : TaskPending(t).task = t /\ TaskPending(t).role = "task" /\ TaskPending(t).phase = "pending"
  /\ \A t, h : /\ TaskOutcome(t, h).task = t /\ TaskOutcome(t, h).role = "task"
                /\ TaskOutcome(t, h).phase = "outcome"
  /\ \A t, h : /\ DispatchOutcome(t, h).task = t /\ DispatchOutcome(t, h).role = "dispatch"
                /\ DispatchOutcome(t, h).phase = "outcome"
                /\ DispatchOutcome(t, h).resolution = Resolution(h)
                /\ DispatchOutcome(t, h).may_have_attempted = MayHaveAttempted(h)
BY DEF DispatchIntent, TaskPending, TaskOutcome, DispatchOutcome

LEMMA Receipts ==
  /\ \A t \in Task : DispatchIntent(t) \in OriginReceipt /\ TaskPending(t) \in OriginReceipt
  /\ \A t \in Task, h \in Heard : TaskOutcome(t, h) \in OriginReceipt
  /\ \A t \in Task, h \in Heard \ {"mismatch"} : DispatchOutcome(t, h) \in OriginReceipt
  /\ \A r \in OriginReceipt : r.task \in Task
BY ReceiptFields DEF OriginReceipt

LEMMA AnswerTypes ==
  /\ NoAnswer \in Answer
  /\ \A h \in Heard \ {"mismatch"} : BranchAnswer(h) \in Answer
  /\ Answers("dispatch_persistence_failed", "not_attempted") \in Answer
  /\ Answers("mirror_failed", "not_attempted") \in Answer
  /\ Answers("mirror_failed", "maybe") \in Answer
  /\ Answers("chain_mismatch", "unsaid") \in Answer
  /\ Answers("ambiguity_receipt_failed", "maybe") \in Answer
<1>1. \A h \in Heard \ {"mismatch"} : BranchAnswer(h) \in Answer
  BY BranchAnswerOf DEF Heard, Ambiguous, Answers, Answer
<1> QED
  BY <1>1 DEF Answers, Answer, NoAnswer

-----------------------------------------------------------------------------
(* The steps.  What a branch continues with is typed.                        *)

LEMMA InitInv == Init => DistInv
<1> SUFFICES ASSUME Init PROVE DistInv
  OBVIOUS
<1>1. TypeOK
  BY DistributedAssumption, AnswerTypes DEF Init, TypeOK
<1>2. ASSUME NEW t \in Task
      PROVE  TaskInv(t)
  BY DEF Init, TaskInv, SentInv, RemoteInv, WordInv, Word, BranchInv, DoneInv, Invoked
<1>3. ASSUME NEW r \in origin \cup late PROVE ReceiptInv(r)
  BY <1>3 DEF Init
<1> QED
  BY <1>1, <1>2, <1>3 DEF DistInv

LEMMA TypeStep ==
  ASSUME DistInv, [Next]_vars
  PROVE  TypeOK'
<1> USE DEF Persisted, NotPersisted, Goto, Return, End, originVars, remoteVars
<1> TypeOK
  BY DEF DistInv
<1>1. CASE AdmitNodes
  BY <1>1 DEF AdmitNodes, TypeOK
<1>2. ASSUME NEW t \in Task, Dispatch(t) PROVE TypeOK'
  BY <1>2, Receipts, AnswerTypes DEF Dispatch, TypeOK
<1>3. ASSUME NEW t \in Task, ErpcCall(t) PROVE TypeOK'
  <2>1. Placement[t] \in Node
    BY PlacementIsNode
  <2>2. pc' = [pc EXCEPT ![t] = "calling"] /\ UNCHANGED <<admitted, heard, answer, origin, late, did, ledger, crashes>>
    BY <1>3 DEF ErpcCall
  <2>3. \/ remote' = [remote EXCEPT ![t] = "sent"] /\ UNCHANGED reply
        \/ /\ reply' \in {[reply EXCEPT ![t] = "system_limit"], [reply EXCEPT ![t] = "noconnection"]}
           /\ UNCHANGED remote
    BY <1>3 DEF ErpcCall
  <2>4. link' \in {link, link \cup {Placement[t]}}
    BY <1>3 DEF ErpcCall
  <2>5. reply' \in [Task -> (Heard \ {"timeout"}) \cup {"nothing"}]
    BY <2>3 DEF TypeOK, Heard, Ambiguous
  <2>6. remote' = [remote EXCEPT ![t] = "sent"] \/ remote' = remote
    BY <2>3
  <2> QED
    BY <2>1, <2>2, <2>4, <2>5, <2>6 DEF TypeOK
<1>4. ASSUME NEW t \in Task, Receive(t) PROVE TypeOK'
  <2>1. PICK h \in Heard : Branch(t, h)
    BY <1>4 DEF Receive, TypeOK, Heard, Ambiguous
  <2>2. heard' = [heard EXCEPT ![t] = h]
    BY <2>1 DEF Branch
  <2>3. \E where \in {"mirror_pending", "close", "done"} : pc' = [pc EXCEPT ![t] = where]
    BY <2>1 DEF Branch
  <2>4. answer' \in {answer, [answer EXCEPT ![t] = Answers("chain_mismatch", "unsaid")]}
    BY <2>1 DEF Branch
  <2>5. reply' \in {reply, [reply EXCEPT ![t] = "nothing"]}
        /\ UNCHANGED <<admitted, origin, late, remoteVars, link, crashes>>
    BY <1>4 DEF Receive
  <2>6. answer' \in [Task -> Answer]
    BY <2>4, AnswerTypes DEF TypeOK
  <2>7. heard' \in [Task -> Heard \cup {"nothing"}]
    BY <2>2 DEF TypeOK
  <2>8. reply' \in [Task -> (Heard \ {"timeout"}) \cup {"nothing"}]
    BY <2>5 DEF TypeOK
  <2>9. pc' \in [Task -> {"start", "call", "calling", "mirror_pending", "mirror_outcome",
                         "close", "done"}]
    BY <2>3 DEF TypeOK
  <2> QED
    BY <2>5, <2>6, <2>7, <2>8, <2>9 DEF TypeOK
<1>5. ASSUME NEW t \in Task, TimeOut(t) PROVE TypeOK'
  <2>1. PICK h \in Heard : Branch(t, h)
    BY <1>5 DEF TimeOut, TypeOK, Heard, Ambiguous
  <2>2. heard' = [heard EXCEPT ![t] = h]
    BY <2>1 DEF Branch
  <2>3. \E where \in {"mirror_pending", "close", "done"} : pc' = [pc EXCEPT ![t] = where]
    BY <2>1 DEF Branch
  <2>4. answer' \in {answer, [answer EXCEPT ![t] = Answers("chain_mismatch", "unsaid")]}
    BY <2>1 DEF Branch
  <2>5. reply' \in {reply, [reply EXCEPT ![t] = "nothing"]}
        /\ UNCHANGED <<admitted, origin, late, remoteVars, link, crashes>>
    BY <1>5 DEF TimeOut
  <2>6. answer' \in [Task -> Answer]
    BY <2>4, AnswerTypes DEF TypeOK
  <2>7. heard' \in [Task -> Heard \cup {"nothing"}]
    BY <2>2 DEF TypeOK
  <2>8. reply' \in [Task -> (Heard \ {"timeout"}) \cup {"nothing"}]
    BY <2>5 DEF TypeOK
  <2>9. pc' \in [Task -> {"start", "call", "calling", "mirror_pending", "mirror_outcome",
                         "close", "done"}]
    BY <2>3 DEF TypeOK
  <2> QED
    BY <2>5, <2>6, <2>7, <2>8, <2>9 DEF TypeOK
<1>6. ASSUME NEW t \in Task, MirrorPending(t) PROVE TypeOK'
  BY <1>6, Receipts, AnswerTypes DEF MirrorPending, TypeOK
<1>7. ASSUME NEW t \in Task, MirrorOutcome(t) PROVE TypeOK'
  <2>1. TaskOutcome(t, heard[t]) \in OriginReceipt
    BY <1>7, Receipts DEF MirrorOutcome, TaskInv, BranchInv, Heard, DistInv
  <2>2. origin' \subseteq OriginReceipt /\ late' \subseteq OriginReceipt
    BY <1>7, <2>1 DEF MirrorOutcome, TypeOK
  <2>3. answer' \in {answer, [answer EXCEPT ![t] = Answers("mirror_failed", "maybe")]}
        /\ pc' \in {[pc EXCEPT ![t] = "close"], [pc EXCEPT ![t] = "done"]}
        /\ UNCHANGED <<admitted, heard, reply, remoteVars, link, crashes>>
    BY <1>7 DEF MirrorOutcome
  <2> QED
    BY <2>2, <2>3, AnswerTypes DEF TypeOK
<1>8. ASSUME NEW t \in Task, Close(t) PROVE TypeOK'
  <2>1. heard[t] \in Heard \ {"mismatch"}
    BY <1>8 DEF Close, TaskInv, BranchInv, TypeOK, DistInv
  <2>2. origin' \subseteq OriginReceipt /\ late' \subseteq OriginReceipt
    BY <1>8, <2>1, Receipts DEF Close, TypeOK
  <2>3. PICK a \in Answer : answer' = [answer EXCEPT ![t] = a]
    BY <1>8, <2>1, AnswerTypes DEF Close
  <2>4. pc' = [pc EXCEPT ![t] = "done"] /\ UNCHANGED <<admitted, heard, reply, remoteVars, link, crashes>>
    BY <1>8 DEF Close
  <2> QED
    BY <2>2, <2>3, <2>4 DEF TypeOK
<1>9. ASSUME NEW t \in Task, RemoteStart(t) PROVE TypeOK'
  BY <1>9 DEF RemoteStart, TypeOK
<1>10. ASSUME NEW t \in Task, RemoteRefuse(t) PROVE TypeOK'
  BY <1>10 DEF RemoteRefuse, TypeOK, Heard, Ambiguous
<1>11. ASSUME NEW t \in Task, RemoteIntent(t) PROVE TypeOK'
  BY <1>11 DEF RemoteIntent, TypeOK
<1>12. ASSUME NEW t \in Task, RemoteDo(t) PROVE TypeOK'
  BY <1>12 DEF RemoteDo, TypeOK
<1>13. ASSUME NEW t \in Task, RemoteOutcome(t) PROVE TypeOK'
  BY <1>13 DEF RemoteOutcome, TypeOK
<1>14. ASSUME NEW t \in Task, RemoteLateInsert(t) PROVE TypeOK'
  BY <1>14 DEF RemoteLateInsert, TypeOK
<1>15. ASSUME NEW t \in Task, RemoteConfirm(t) PROVE TypeOK'
  BY <1>15 DEF RemoteConfirm, TypeOK, Heard, Ambiguous
<1>16. ASSUME NEW t \in Task, RemoteUnrecorded(t) PROVE TypeOK'
  BY <1>16 DEF RemoteUnrecorded, TypeOK, Heard, Ambiguous
<1>17. ASSUME NEW t \in Task, RemoteKilled(t) PROVE TypeOK'
  BY <1>17 DEF RemoteKilled, TypeOK, Heard, Ambiguous
<1>18. ASSUME NEW t \in Task, ForeignAnswer(t) PROVE TypeOK'
  <2>1. PICK h \in {"other", "mismatch", "raised"} : End(t, "foreign", h)
    BY <1>18 DEF ForeignAnswer
  <2>2. did' \in {did, [did EXCEPT ![t] = "returned"]} /\ UNCHANGED <<originVars, ledger, link, crashes>>
    BY <1>18 DEF ForeignAnswer
  <2> QED
    BY <2>1, <2>2 DEF TypeOK, Heard, Ambiguous
<1>19. ASSUME NEW r \in late, LateInsert(r) PROVE TypeOK'
  BY <1>19 DEF LateInsert, TypeOK
<1>20. ASSUME NEW m \in Node, Disconnect(m) PROVE TypeOK'
  BY <1>20, DistributedAssumption DEF Disconnect, TypeOK, Heard, Ambiguous
<1>21. CASE UNCHANGED vars
  BY <1>21 DEF vars, TypeOK
<1> QED
  BY <1>1, <1>2, <1>3, <1>4, <1>5, <1>6, <1>7, <1>8, <1>9, <1>10, <1>11, <1>12, <1>13, <1>14, <1>15, <1>16, <1>17, <1>18, <1>19, <1>20, <1>21 DEF Next, OriginStep, CallStep, RemoteStep
(* A step of one task leaves the others what they know; ledgers only grow.   *)
Idle(u) ==
  /\ pc'[u] = pc[u] /\ heard'[u] = heard[u] /\ answer'[u] = answer[u]
  /\ reply'[u] = reply[u] /\ remote'[u] = remote[u] /\ did'[u] = did[u]

LEMMA Frame ==
  ASSUME DistInv, NEW u \in Task, Idle(u), origin \subseteq origin', ledger \subseteq ledger'
  PROVE  TaskInv(u)'
<1> TaskInv(u)
  BY DEF DistInv
<1>1. SentInv(u)'
  BY DEF TaskInv, SentInv, Idle
<1>2. RemoteInv(u)'
  BY DEF TaskInv, RemoteInv, Invoked, Idle
<1>3. WordInv(u)'
  BY DEF TaskInv, WordInv, Word, Idle
<1>4. BranchInv(u)'
  BY DEF TaskInv, BranchInv, Mirrored, Idle
<1>5. DoneInv(u)'
  BY DEF TaskInv, DoneInv, Mirrored, Waits, Idle
<1> QED
  BY <1>1, <1>2, <1>3, <1>4, <1>5 DEF TaskInv

LEMMA OthersIdle ==
  ASSUME TypeOK, NEW t \in Task, OriginStep(t) \/ RemoteStep(t), NEW u \in Task \ {t}
  PROVE  Idle(u) /\ origin \subseteq origin' /\ ledger \subseteq ledger'
<1> USE DEF Persisted, NotPersisted, Goto, Return, End, Branch, originVars, remoteVars, Idle, TypeOK
<1>1. CASE Dispatch(t)
  BY <1>1 DEF Dispatch
<1>2. CASE ErpcCall(t)
  BY <1>2 DEF ErpcCall
<1>3. CASE Receive(t)
  BY <1>3 DEF Receive
<1>4. CASE TimeOut(t)
  BY <1>4 DEF TimeOut
<1>5. CASE MirrorPending(t)
  BY <1>5 DEF MirrorPending
<1>6. CASE MirrorOutcome(t)
  BY <1>6 DEF MirrorOutcome
<1>7. CASE Close(t)
  BY <1>7 DEF Close
<1>8. CASE RemoteStart(t)
  BY <1>8 DEF RemoteStart
<1>9. CASE RemoteRefuse(t)
  BY <1>9 DEF RemoteRefuse
<1>10. CASE RemoteIntent(t)
  BY <1>10 DEF RemoteIntent
<1>11. CASE RemoteDo(t)
  BY <1>11 DEF RemoteDo
<1>12. CASE RemoteOutcome(t)
  BY <1>12 DEF RemoteOutcome
<1>13. CASE RemoteLateInsert(t)
  BY <1>13 DEF RemoteLateInsert
<1>14. CASE RemoteConfirm(t)
  BY <1>14 DEF RemoteConfirm
<1>15. CASE RemoteUnrecorded(t)
  BY <1>15 DEF RemoteUnrecorded
<1>16. CASE RemoteKilled(t)
  BY <1>16 DEF RemoteKilled
<1>17. CASE ForeignAnswer(t)
  BY <1>17 DEF ForeignAnswer
<1> QED
  BY <1>1, <1>2, <1>3, <1>4, <1>5, <1>6, <1>7, <1>8, <1>9, <1>10, <1>11, <1>12, <1>13, <1>14, <1>15, <1>16, <1>17 DEF OriginStep, CallStep, RemoteStep

LEMMA OwnStep ==
  ASSUME DistInv, NEW t \in Task, OriginStep(t) \/ RemoteStep(t)
  PROVE  TaskInv(t)'
<1> USE DEF Persisted, NotPersisted, Goto, Return, End, originVars, remoteVars
<1> TypeOK /\ SentInv(t) /\ RemoteInv(t) /\ WordInv(t) /\ BranchInv(t) /\ DoneInv(t)
  BY DEF DistInv, TaskInv
<1>1. CASE Dispatch(t)
  <2>1. SentInv(t)'
    BY <1>1 DEF Dispatch, TypeOK, SentInv
  <2>2. RemoteInv(t)'
    BY <1>1 DEF Dispatch, TypeOK, SentInv, RemoteInv, Invoked
  <2>3. WordInv(t)'
    BY <1>1 DEF Dispatch, TypeOK, SentInv, WordInv, Word
  <2>4. BranchInv(t)'
    BY <1>1 DEF Dispatch, TypeOK, SentInv, BranchInv, Mirrored
  <2>5. DoneInv(t)'
    BY <1>1 DEF Dispatch, TypeOK, SentInv, DoneInv, Mirrored, Waits
  <2> QED
    BY <2>1, <2>2, <2>3, <2>4, <2>5 DEF TaskInv
<1>2. CASE ErpcCall(t)
  <2>1. SentInv(t)'
    BY <1>2 DEF ErpcCall, TypeOK, SentInv
  <2>2. RemoteInv(t)'
    BY <1>2 DEF ErpcCall, TypeOK, SentInv, RemoteInv, Invoked
  <2>3. WordInv(t)'
    BY <1>2 DEF ErpcCall, TypeOK, SentInv, WordInv, Word
  <2>4. BranchInv(t)'
    BY <1>2 DEF ErpcCall, TypeOK, SentInv, BranchInv, Mirrored
  <2>5. DoneInv(t)'
    BY <1>2 DEF ErpcCall, TypeOK, SentInv, DoneInv, Mirrored, Waits
  <2> QED
    BY <2>1, <2>2, <2>3, <2>4, <2>5 DEF TaskInv
<1>3. CASE Receive(t)
  <2>1. SentInv(t)'
    BY <1>3 DEF Receive, Branch, TypeOK, SentInv
  <2>2. RemoteInv(t)'
    BY <1>3 DEF Receive, Branch, TypeOK, SentInv, RemoteInv, Invoked
  <2>3. WordInv(t)'
    BY <1>3 DEF Receive, Branch, TypeOK, SentInv, WordInv, Word
  <2>4. BranchInv(t)'
    BY <1>3 DEF Receive, Branch, TypeOK, SentInv, BranchInv, Mirrored
  <2>5. DoneInv(t)'
    BY <1>3 DEF Receive, Branch, TypeOK, SentInv, DoneInv, Mirrored, Waits
  <2> QED
    BY <2>1, <2>2, <2>3, <2>4, <2>5 DEF TaskInv
<1>4. CASE TimeOut(t)
  <2>1. SentInv(t)'
    BY <1>4 DEF TimeOut, Branch, TypeOK, SentInv
  <2>2. RemoteInv(t)'
    BY <1>4 DEF TimeOut, Branch, TypeOK, SentInv, RemoteInv, Invoked
  <2>3. WordInv(t)'
    BY <1>4 DEF TimeOut, Branch, TypeOK, SentInv, WordInv, Word
  <2>4. BranchInv(t)'
    BY <1>4 DEF TimeOut, Branch, TypeOK, SentInv, BranchInv, Mirrored
  <2>5. DoneInv(t)'
    BY <1>4 DEF TimeOut, Branch, TypeOK, SentInv, DoneInv, Mirrored, Waits
  <2> QED
    BY <2>1, <2>2, <2>3, <2>4, <2>5 DEF TaskInv
<1>5. CASE MirrorPending(t)
  <2>1. SentInv(t)'
    BY <1>5 DEF MirrorPending, TypeOK, SentInv
  <2>2. RemoteInv(t)'
    BY <1>5 DEF MirrorPending, TypeOK, SentInv, RemoteInv, Invoked
  <2>3. WordInv(t)'
    BY <1>5 DEF MirrorPending, TypeOK, SentInv, WordInv, Word
  <2>4. BranchInv(t)'
    BY <1>5 DEF MirrorPending, TypeOK, SentInv, BranchInv, Mirrored
  <2>5. DoneInv(t)'
    <3>1. pc'[t] = "done" => answer'[t] = Answers("mirror_failed", "not_attempted")
      BY <1>5 DEF MirrorPending, TypeOK
    <3>2. heard'[t] \in {"ok", "failure"}
      BY <1>5 DEF MirrorPending, BranchInv
    <3> QED
      BY <3>1, <3>2, AnswerFields DEF DoneInv
  <2> QED
    BY <2>1, <2>2, <2>3, <2>4, <2>5 DEF TaskInv
<1>6. CASE MirrorOutcome(t)
  <2>1. SentInv(t)'
    BY <1>6 DEF MirrorOutcome, TypeOK, SentInv
  <2>2. RemoteInv(t)'
    BY <1>6 DEF MirrorOutcome, TypeOK, SentInv, RemoteInv, Invoked
  <2>3. WordInv(t)'
    BY <1>6 DEF MirrorOutcome, TypeOK, SentInv, WordInv, Word
  <2>4. BranchInv(t)'
    BY <1>6 DEF MirrorOutcome, TypeOK, SentInv, BranchInv, Mirrored
  <2>5. DoneInv(t)'
    <3>1. pc'[t] = "done" => answer'[t] = Answers("mirror_failed", "maybe")
      BY <1>6 DEF MirrorOutcome, TypeOK
    <3>2. heard'[t] \in {"ok", "failure"}
      BY <1>6 DEF MirrorOutcome, BranchInv
    <3> QED
      BY <3>1, <3>2, AnswerFields DEF DoneInv
  <2> QED
    BY <2>1, <2>2, <2>3, <2>4, <2>5 DEF TaskInv
<1>7. CASE Close(t)
  <2>1. SentInv(t)'
    BY <1>7 DEF Close, TypeOK, SentInv
  <2>2. RemoteInv(t)'
    BY <1>7 DEF Close, TypeOK, SentInv, RemoteInv, Invoked
  <2>3. WordInv(t)'
    BY <1>7 DEF Close, TypeOK, SentInv, WordInv, Word
  <2>4. BranchInv(t)'
    BY <1>7 DEF Close, TypeOK, SentInv, BranchInv, Mirrored
  <2>5. DoneInv(t)'
    <3>1. heard[t] \notin {"nothing", "mismatch"} /\ Mirrored(t) /\ heard' = heard
      BY <1>7 DEF Close, BranchInv
    <3>2. CASE Persisted(DispatchOutcome(t, heard[t])) /\ Return(t, BranchAnswer(heard[t]))
      <4>1. answer'[t] = BranchAnswer(heard'[t])
        BY <3>1, <3>2 DEF TypeOK
      <4>2. Mirrored(t)' /\ DispatchOutcome(t, heard'[t]) \in origin'
        BY <3>1, <3>2 DEF Mirrored
      <4> QED
        BY <3>1, <4>1, <4>2 DEF DoneInv
    <3>3. CASE /\ NotPersisted(DispatchOutcome(t, heard[t]))
               /\ ~ Waits(t) /\ Return(t, BranchAnswer(heard[t]))
      <4>1. answer'[t] = BranchAnswer(heard'[t])
        BY <3>1, <3>3 DEF TypeOK
      <4>2. Mirrored(t)' /\ ~ Waits(t)'
        BY <3>1, <3>3 DEF Mirrored, Waits
      <4> QED
        BY <3>1, <4>1, <4>2 DEF DoneInv
    <3>4. CASE Return(t, Answers("ambiguity_receipt_failed", "maybe"))
      <4>1. answer'[t] = Answers("ambiguity_receipt_failed", "maybe")
        BY <3>4 DEF TypeOK
      <4> QED
        BY <3>1, <4>1 DEF DoneInv
    <3> QED
      BY <1>7, <3>2, <3>3, <3>4 DEF Close, Waits
  <2> QED
    BY <2>1, <2>2, <2>3, <2>4, <2>5 DEF TaskInv
<1>8. CASE RemoteStart(t)
  <2>1. SentInv(t)'
    BY <1>8 DEF RemoteStart, TypeOK, SentInv
  <2>2. RemoteInv(t)'
    BY <1>8 DEF RemoteStart, TypeOK, SentInv, RemoteInv, Invoked
  <2>3. WordInv(t)'
    BY <1>8 DEF RemoteStart, TypeOK, SentInv, WordInv, Word
  <2>4. BranchInv(t)'
    BY <1>8 DEF RemoteStart, TypeOK, SentInv, BranchInv, Mirrored
  <2>5. DoneInv(t)'
    BY <1>8 DEF RemoteStart, TypeOK, SentInv, DoneInv, Mirrored, Waits
  <2> QED
    BY <2>1, <2>2, <2>3, <2>4, <2>5 DEF TaskInv
<1>9. CASE RemoteRefuse(t)
  <2>1. SentInv(t)'
    BY <1>9 DEF RemoteRefuse, TypeOK, SentInv
  <2>2. RemoteInv(t)'
    BY <1>9 DEF RemoteRefuse, TypeOK, SentInv, RemoteInv, Invoked
  <2>3. WordInv(t)'
    BY <1>9 DEF RemoteRefuse, TypeOK, SentInv, WordInv, Word
  <2>4. BranchInv(t)'
    BY <1>9 DEF RemoteRefuse, TypeOK, SentInv, BranchInv, Mirrored
  <2>5. DoneInv(t)'
    BY <1>9 DEF RemoteRefuse, TypeOK, SentInv, DoneInv, Mirrored, Waits
  <2> QED
    BY <2>1, <2>2, <2>3, <2>4, <2>5 DEF TaskInv
<1>10. CASE RemoteIntent(t)
  <2>1. SentInv(t)'
    BY <1>10 DEF RemoteIntent, TypeOK, SentInv
  <2>2. RemoteInv(t)'
    BY <1>10 DEF RemoteIntent, TypeOK, SentInv, RemoteInv, Invoked
  <2>3. WordInv(t)'
    BY <1>10 DEF RemoteIntent, TypeOK, SentInv, WordInv, Word
  <2>4. BranchInv(t)'
    BY <1>10 DEF RemoteIntent, TypeOK, SentInv, BranchInv, Mirrored
  <2>5. DoneInv(t)'
    BY <1>10 DEF RemoteIntent, TypeOK, SentInv, DoneInv, Mirrored, Waits
  <2> QED
    BY <2>1, <2>2, <2>3, <2>4, <2>5 DEF TaskInv
<1>11. CASE RemoteDo(t)
  <2>1. SentInv(t)'
    BY <1>11 DEF RemoteDo, TypeOK, SentInv
  <2>2. RemoteInv(t)'
    BY <1>11 DEF RemoteDo, TypeOK, SentInv, RemoteInv, Invoked
  <2>3. WordInv(t)'
    BY <1>11 DEF RemoteDo, TypeOK, SentInv, WordInv, Word
  <2>4. BranchInv(t)'
    BY <1>11 DEF RemoteDo, TypeOK, SentInv, BranchInv, Mirrored
  <2>5. DoneInv(t)'
    BY <1>11 DEF RemoteDo, TypeOK, SentInv, DoneInv, Mirrored, Waits
  <2> QED
    BY <2>1, <2>2, <2>3, <2>4, <2>5 DEF TaskInv
<1>12. CASE RemoteOutcome(t)
  <2>1. SentInv(t)'
    BY <1>12 DEF RemoteOutcome, TypeOK, SentInv
  <2>2. RemoteInv(t)'
    BY <1>12 DEF RemoteOutcome, TypeOK, SentInv, RemoteInv, Invoked
  <2>3. WordInv(t)'
    BY <1>12 DEF RemoteOutcome, TypeOK, SentInv, WordInv, Word
  <2>4. BranchInv(t)'
    BY <1>12 DEF RemoteOutcome, TypeOK, SentInv, BranchInv, Mirrored
  <2>5. DoneInv(t)'
    BY <1>12 DEF RemoteOutcome, TypeOK, SentInv, DoneInv, Mirrored, Waits
  <2> QED
    BY <2>1, <2>2, <2>3, <2>4, <2>5 DEF TaskInv
<1>13. CASE RemoteLateInsert(t)
  <2>1. SentInv(t)'
    BY <1>13 DEF RemoteLateInsert, TypeOK, SentInv
  <2>2. RemoteInv(t)'
    BY <1>13 DEF RemoteLateInsert, TypeOK, SentInv, RemoteInv, Invoked
  <2>3. WordInv(t)'
    BY <1>13 DEF RemoteLateInsert, TypeOK, SentInv, WordInv, Word
  <2>4. BranchInv(t)'
    BY <1>13 DEF RemoteLateInsert, TypeOK, SentInv, BranchInv, Mirrored
  <2>5. DoneInv(t)'
    BY <1>13 DEF RemoteLateInsert, TypeOK, SentInv, DoneInv, Mirrored, Waits
  <2> QED
    BY <2>1, <2>2, <2>3, <2>4, <2>5 DEF TaskInv
<1>14. CASE RemoteConfirm(t)
  <2>1. SentInv(t)'
    BY <1>14 DEF RemoteConfirm, TypeOK, SentInv
  <2>2. RemoteInv(t)'
    BY <1>14 DEF RemoteConfirm, TypeOK, SentInv, RemoteInv, Invoked
  <2>3. WordInv(t)'
    BY <1>14 DEF RemoteConfirm, TypeOK, SentInv, RemoteInv, Invoked, WordInv, Word
  <2>4. BranchInv(t)'
    BY <1>14 DEF RemoteConfirm, TypeOK, SentInv, BranchInv, Mirrored
  <2>5. DoneInv(t)'
    BY <1>14 DEF RemoteConfirm, TypeOK, SentInv, DoneInv, Mirrored, Waits
  <2> QED
    BY <2>1, <2>2, <2>3, <2>4, <2>5 DEF TaskInv
<1>15. CASE RemoteUnrecorded(t)
  <2>1. SentInv(t)'
    BY <1>15 DEF RemoteUnrecorded, TypeOK, SentInv
  <2>2. RemoteInv(t)'
    BY <1>15 DEF RemoteUnrecorded, TypeOK, SentInv, RemoteInv, Invoked
  <2>3. WordInv(t)'
    BY <1>15 DEF RemoteUnrecorded, TypeOK, SentInv, WordInv, Word
  <2>4. BranchInv(t)'
    BY <1>15 DEF RemoteUnrecorded, TypeOK, SentInv, BranchInv, Mirrored
  <2>5. DoneInv(t)'
    BY <1>15 DEF RemoteUnrecorded, TypeOK, SentInv, DoneInv, Mirrored, Waits
  <2> QED
    BY <2>1, <2>2, <2>3, <2>4, <2>5 DEF TaskInv
<1>16. CASE RemoteKilled(t)
  <2>1. SentInv(t)'
    BY <1>16 DEF RemoteKilled, TypeOK, SentInv
  <2>2. RemoteInv(t)'
    BY <1>16 DEF RemoteKilled, TypeOK, SentInv, RemoteInv, Invoked
  <2>3. WordInv(t)'
    BY <1>16 DEF RemoteKilled, TypeOK, SentInv, WordInv, Word
  <2>4. BranchInv(t)'
    BY <1>16 DEF RemoteKilled, TypeOK, SentInv, BranchInv, Mirrored
  <2>5. DoneInv(t)'
    BY <1>16 DEF RemoteKilled, TypeOK, SentInv, DoneInv, Mirrored, Waits
  <2> QED
    BY <2>1, <2>2, <2>3, <2>4, <2>5 DEF TaskInv
<1>17. CASE ForeignAnswer(t)
  <2>1. SentInv(t)'
    BY <1>17 DEF ForeignAnswer, TypeOK, SentInv
  <2>2. RemoteInv(t)'
    BY <1>17 DEF ForeignAnswer, TypeOK, SentInv, RemoteInv, Invoked
  <2>3. WordInv(t)'
    BY <1>17 DEF ForeignAnswer, TypeOK, SentInv, WordInv, Word
  <2>4. BranchInv(t)'
    BY <1>17 DEF ForeignAnswer, TypeOK, SentInv, BranchInv, Mirrored
  <2>5. DoneInv(t)'
    BY <1>17 DEF ForeignAnswer, TypeOK, SentInv, DoneInv, Mirrored, Waits
  <2> QED
    BY <2>1, <2>2, <2>3, <2>4, <2>5 DEF TaskInv
<1> QED
  BY <1>1, <1>2, <1>3, <1>4, <1>5, <1>6, <1>7, <1>8, <1>9, <1>10, <1>11, <1>12, <1>13, <1>14, <1>15, <1>16, <1>17 DEF OriginStep, CallStep, RemoteStep

LEMMA DisconnectStep ==
  ASSUME DistInv, NEW m \in Node, Disconnect(m), NEW u \in Task
  PROVE  TaskInv(u)'
<1> TypeOK /\ SentInv(u) /\ RemoteInv(u) /\ WordInv(u) /\ BranchInv(u) /\ DoneInv(u)
  BY DEF DistInv, TaskInv
<1>1. UNCHANGED <<originVars, did, ledger>>
  BY DEF Disconnect
<1>2. /\ \/ remote'[u] = remote[u]
         \/ remote[u] \in {"sent", "begin", "invoke", "finalize", "recorded"} /\ remote'[u] = "lost"
      /\ \/ reply'[u] = reply[u]
         \/ pc[u] = "calling" /\ reply[u] = "nothing" /\ reply'[u] = "noconnection"
  BY DEF Disconnect, TypeOK
<1>3. SentInv(u)'
  BY <1>1, <1>2 DEF SentInv, originVars
<1>4. RemoteInv(u)'
  BY <1>1, <1>2 DEF RemoteInv, Invoked, originVars
<1>5. WordInv(u)'
  BY <1>1, <1>2 DEF WordInv, Word, originVars
<1>6. BranchInv(u)'
  BY <1>1, <1>2 DEF BranchInv, Mirrored, originVars
<1>7. DoneInv(u)'
  BY <1>1, <1>2 DEF DoneInv, Mirrored, Waits, originVars
<1> QED
  BY <1>3, <1>4, <1>5, <1>6, <1>7 DEF TaskInv

LEMMA TaskStep ==
  ASSUME DistInv, [Next]_vars, NEW u \in Task
  PROVE  TaskInv(u)'
<1> TypeOK
  BY DEF DistInv
<1>1. CASE AdmitNodes
  <2>1. Idle(u) /\ origin \subseteq origin' /\ ledger \subseteq ledger'
    BY <1>1 DEF AdmitNodes, Idle, remoteVars
  <2> QED
    BY <2>1, Frame
<1>2. ASSUME NEW t \in Task, OriginStep(t) \/ RemoteStep(t) PROVE TaskInv(u)'
  <2>1. CASE u = t
    BY <1>2, <2>1, OwnStep
  <2>2. CASE u # t
    BY <1>2, <2>2, OthersIdle, Frame
  <2> QED
    BY <2>1, <2>2
<1>3. ASSUME NEW r \in late, LateInsert(r) PROVE TaskInv(u)'
  <2>1. Idle(u) /\ origin \subseteq origin' /\ ledger \subseteq ledger'
    BY <1>3 DEF LateInsert, Idle, remoteVars
  <2> QED
    BY <2>1, Frame
<1>4. ASSUME NEW m \in Node, Disconnect(m) PROVE TaskInv(u)'
  BY <1>4, DisconnectStep
<1>5. CASE UNCHANGED vars
  <2>1. Idle(u) /\ origin \subseteq origin' /\ ledger \subseteq ledger'
    BY <1>5 DEF vars, Idle
  <2> QED
    BY <2>1, Frame
<1> QED
  BY <1>1, <1>2, <1>3, <1>4, <1>5 DEF Next

(* What is heard is heard once, and before it nothing but the intent is put. *)
LEMMA OldReceipt ==
  ASSUME DistInv, NEW r \in origin \cup late, origin \subseteq origin',
         heard'[r.task] = heard[r.task] \/ heard[r.task] = "nothing"
  PROVE  ReceiptInv(r)'
<1> ReceiptInv(r)
  BY DEF DistInv
<1>1. CASE heard[r.task] = "nothing"
  BY <1>1 DEF ReceiptInv
<1>2. CASE heard'[r.task] = heard[r.task]
  BY <1>2 DEF ReceiptInv
<1> QED
  BY <1>1, <1>2

LEMMA HeardOnce ==
  ASSUME DistInv, [Next]_vars, NEW u \in Task
  PROVE  heard'[u] = heard[u] \/ heard[u] = "nothing"
<1> USE DEF originVars
<1>1. heard \in [Task -> Heard \cup {"nothing"}] /\ SentInv(u)
  BY DEF DistInv, TaskInv, TypeOK
<1>2. ASSUME NEW t \in Task, pc[t] = "calling", NEW h, Branch(t, h) PROVE heard'[u] = heard[u] \/ heard[u] = "nothing"
  BY <1>1, <1>2 DEF Branch, SentInv
<1>3. ASSUME NEW t \in Task, OriginStep(t) PROVE heard'[u] = heard[u] \/ heard[u] = "nothing"
  BY <1>2, <1>3 DEF OriginStep, CallStep, Dispatch, ErpcCall, Receive, TimeOut, MirrorPending, MirrorOutcome, Close
<1>4. ASSUME NEW t \in Task, RemoteStep(t) PROVE heard' = heard
  BY <1>4 DEF RemoteStep, RemoteStart, RemoteRefuse, RemoteIntent, RemoteDo, RemoteOutcome,
              RemoteLateInsert, RemoteConfirm, RemoteUnrecorded, RemoteKilled, ForeignAnswer
<1> QED
  BY <1>3, <1>4 DEF Next, AdmitNodes, LateInsert, Disconnect, vars

(* A step that puts one receipt, or none.                                    *)
LEMMA PutStep ==
  ASSUME DistInv, TypeOK', NEW r,
         \A u \in Task : heard'[u] = heard[u] \/ heard[u] = "nothing",
         Persisted(r) \/ NotPersisted(r), ReceiptInv(r)'
  PROVE  \A s \in (origin \cup late)' : ReceiptInv(s)'
<1> SUFFICES ASSUME NEW s \in (origin \cup late)' PROVE ReceiptInv(s)'
  OBVIOUS
<1>1. CASE s \in origin \cup late
  <2>1. s.task \in Task
    BY <1>1, Receipts DEF DistInv, TypeOK
  <2> QED
    BY <1>1, <2>1, OldReceipt DEF Persisted, NotPersisted
<1>2. CASE s = r
  BY <1>2
<1> QED
  BY <1>1, <1>2 DEF Persisted, NotPersisted

LEMMA ReceiptStep ==
  ASSUME DistInv, [Next]_vars, TypeOK'
  PROVE  \A r \in (origin \cup late)' : ReceiptInv(r)'
<1> TypeOK /\ \A u \in Task : TaskInv(u)
  BY DEF DistInv
<1>1. \A u \in Task : heard'[u] = heard[u] \/ heard[u] = "nothing"
  BY HeardOnce
<1>2. ASSUME (origin \cup late)' \subseteq origin \cup late, origin \subseteq origin'
      PROVE  \A r \in (origin \cup late)' : ReceiptInv(r)'
  <2> SUFFICES ASSUME NEW r \in origin \cup late PROVE ReceiptInv(r)'
    BY <1>2
  <2>1. r.task \in Task
    BY Receipts DEF TypeOK
  <2> QED
    BY <1>1, <1>2, <2>1, OldReceipt
<1>3. ASSUME NEW t \in Task, Dispatch(t) PROVE \A r \in (origin \cup late)' : ReceiptInv(r)'
  <2>1. ReceiptInv(DispatchIntent(t))'
    BY ReceiptFields DEF ReceiptInv
  <2> QED
    BY <1>1, <1>3, <2>1, PutStep DEF Dispatch
<1>4. ASSUME NEW t \in Task, MirrorPending(t) PROVE \A r \in (origin \cup late)' : ReceiptInv(r)'
  <2>1. heard'[t] \in {"ok", "failure"}
    BY <1>4 DEF MirrorPending, TaskInv, BranchInv
  <2>2. ReceiptInv(TaskPending(t))'
    BY <2>1, ReceiptFields DEF ReceiptInv
  <2> QED
    BY <1>1, <1>4, <2>2, PutStep DEF MirrorPending
<1>5. ASSUME NEW t \in Task, MirrorOutcome(t) PROVE \A r \in (origin \cup late)' : ReceiptInv(r)'
  <2>1. heard' = heard /\ heard[t] \in {"ok", "failure"}
    BY <1>5 DEF MirrorOutcome, TaskInv, BranchInv
  <2>2. TaskPending(t) \in origin'
    BY <1>5 DEF MirrorOutcome, TaskInv, BranchInv, Persisted, NotPersisted
  <2>3. ReceiptInv(TaskOutcome(t, heard[t]))'
    BY <2>1, <2>2, ReceiptFields DEF ReceiptInv
  <2> QED
    BY <1>1, <1>5, <2>3, PutStep DEF MirrorOutcome
<1>6. ASSUME NEW t \in Task, Close(t) PROVE \A r \in (origin \cup late)' : ReceiptInv(r)'
  <2>1. heard' = heard /\ heard[t] \notin {"nothing", "mismatch"}
    BY <1>6 DEF Close, TaskInv, BranchInv
  <2>2. ReceiptInv(DispatchOutcome(t, heard[t]))'
    BY <2>1, ReceiptFields DEF ReceiptInv
  <2> QED
    BY <1>1, <1>6, <2>2, PutStep DEF Close
<1>7. ASSUME NEW t \in Task, RemoteStep(t) \/ ErpcCall(t) \/ Receive(t) \/ TimeOut(t)
      PROVE  UNCHANGED <<origin, late>>
  BY <1>7 DEF ErpcCall, Receive, TimeOut, RemoteStep, RemoteStart, RemoteRefuse, RemoteIntent,
              RemoteDo, RemoteOutcome, RemoteLateInsert, RemoteConfirm, RemoteUnrecorded,
              RemoteKilled, ForeignAnswer, originVars
<1>8. CASE AdmitNodes \/ (\E m \in Node : Disconnect(m)) \/ UNCHANGED vars
  BY <1>2, <1>8 DEF AdmitNodes, Disconnect, originVars, vars
<1>9. ASSUME NEW r \in late, LateInsert(r) PROVE \A s \in (origin \cup late)' : ReceiptInv(s)'
  BY <1>2, <1>9 DEF LateInsert
<1> QED
  BY <1>2, <1>3, <1>4, <1>5, <1>6, <1>7, <1>8, <1>9 DEF Next, OriginStep, CallStep

LEMMA InvStep == DistInv /\ [Next]_vars => DistInv'
<1> SUFFICES ASSUME DistInv, [Next]_vars PROVE DistInv'
  OBVIOUS
<1>1. TypeOK'
  BY TypeStep
<1>2. \A t \in Task : TaskInv(t)'
  BY TaskStep
<1>3. \A r \in (origin \cup late)' : ReceiptInv(r)'
  BY <1>1, ReceiptStep
<1> QED
  BY <1>1, <1>2, <1>3 DEF DistInv

-----------------------------------------------------------------------------
(* The theorems.                                                             *)

(* The invariant holds, however the origin, the remote nodes and the network *)
(* interleave (distributed.ex:144-366).                                      *)
THEOREM DistributedInvariant == Spec => []DistInv
<1>1. DistInv /\ UNCHANGED vars => DistInv'
  BY InvStep
<1> QED
  BY InitInv, InvStep, PTL DEF Spec

(* Type correctness of the dispatch.                                         *)
THEOREM DistributedTypeOK == Spec => []TypeOK
<1>1. DistInv => TypeOK
  BY DEF DistInv
<1> QED
  BY <1>1, DistributedInvariant, PTL

(* No task runs anywhere before the origin recorded the intent to dispatch   *)
(* it and the node that runs it its own (distributed.ex:148-156).            *)
THEOREM DistributedRecordedFirst == Spec => []DispatchRecordedFirst
<1>1. DistInv => DispatchRecordedFirst
  <2> SUFFICES ASSUME DistInv, NEW t \in Task, Invoked(t)
               PROVE  /\ DispatchIntent(t) \in origin
                      /\ Placement[t] \in Foreign \/ <<t, "pending">> \in ledger
    BY DEF DispatchRecordedFirst
  <2> SentInv(t) /\ RemoteInv(t)
    BY DEF DistInv, TaskInv
  <2>1. remote[t] # "idle"
    BY DEF RemoteInv
  <2> QED
    BY <2>1 DEF SentInv, RemoteInv
<1> QED
  BY <1>1, DistributedInvariant, PTL

(* A confirmed answer is backed by both ledgers (distributed.ex:190-227).    *)
THEOREM DistributedConfirmedIsDone == Spec => []ConfirmedIsDone
<1>1. DistInv => ConfirmedIsDone
  <2> SUFFICES ASSUME DistInv, NEW t \in Task, NEW h \in {"ok", "failure"}, answer[t].code = h
               PROVE  /\ did[t] \in IF h = "ok" THEN {"returned"} ELSE {"raised", "undigested"}
                      /\ {<<t, "pending">>, <<t, "outcome">>} \subseteq ledger
                      /\ {TaskPending(t), TaskOutcome(t, h), DispatchIntent(t), DispatchOutcome(t, h)}
                            \subseteq origin
    BY DEF ConfirmedIsDone
  <2> SentInv(t) /\ RemoteInv(t) /\ WordInv(t) /\ BranchInv(t) /\ DoneInv(t) /\ TypeOK
    BY DEF DistInv, TaskInv
  <2>1. pc[t] = "done"
    BY AnswerFields DEF BranchInv, NoAnswer
  <2>2. heard[t] = h /\ Mirrored(t) /\ (Waits(t) => DispatchOutcome(t, h) \in origin)
    <3>1. /\ answer[t] = BranchAnswer(heard[t]) /\ heard[t] \in Heard \ {"mismatch"} /\ Mirrored(t)
          /\ Waits(t) => DispatchOutcome(t, heard[t]) \in origin
      BY <2>1, AnswerFields DEF DoneInv, TypeOK
    <3>2. heard[t] = h
      BY <3>1, BranchAnswerOf, AnswerFields DEF Heard, Ambiguous
    <3> QED
      BY <3>1, <3>2
  <2>3. Waits(t)
    BY <2>2, ResolutionOf DEF Waits
  <2>4. remote[t] = "confirmed" /\ did[t] \in IF h = "ok" THEN {"returned"} ELSE {"raised", "undigested"}
    BY <2>2 DEF WordInv, Word
  <2>5. {<<t, "pending">>, <<t, "outcome">>} \subseteq ledger
    BY <2>4 DEF RemoteInv
  <2>6. DispatchIntent(t) \in origin
    BY <2>2 DEF SentInv
  <2> QED
    BY <2>2, <2>3, <2>4, <2>5, <2>6 DEF Mirrored
<1> QED
  BY <1>1, DistributedInvariant, PTL

(* The origin ledger replays, and the answers that leave a dispatch open are *)
(* known (distributed.ex:190-366).                                           *)
THEOREM DistributedOriginCloses == Spec => []OriginCloses
<1>1. DistInv => OriginCloses
  <2> SUFFICES ASSUME DistInv PROVE OriginCloses
    OBVIOUS
  <2> TypeOK
    BY DEF DistInv
  <2>1. ASSUME NEW r \in origin
        PROVE  /\ r.phase = "outcome" => [task |-> r.task, role |-> r.role, phase |-> "pending"] \in origin
               /\ r.role = "task" => <<r.task, r.phase>> \in ledger
    <3>1. ReceiptInv(r) /\ r.task \in Task
      BY Receipts DEF DistInv, TypeOK
    <3>2. SentInv(r.task) /\ RemoteInv(r.task) /\ WordInv(r.task)
      BY <3>1 DEF DistInv, TaskInv
    <3>3. r.role \in {"task", "dispatch"} /\ r.phase \in {"pending", "outcome"}
      BY ReceiptFields DEF TypeOK, OriginReceipt
    <3>4. CASE r.role = "task"
      <4>1. remote[r.task] = "confirmed"
        BY <3>1, <3>2, <3>4 DEF ReceiptInv, WordInv, Word
      <4>2. <<r.task, r.phase>> \in ledger
        BY <3>2, <3>3, <4>1 DEF RemoteInv
      <4>3. r.phase = "outcome" => TaskPending(r.task) \in origin
        BY <3>1, <3>4 DEF ReceiptInv
      <4> QED
        BY <3>4, <4>2, <4>3 DEF TaskPending
    <3>5. CASE r.role = "dispatch"
      <4>1. r.phase = "outcome" => DispatchIntent(r.task) \in origin
        BY <3>1, <3>2, <3>5 DEF ReceiptInv, SentInv
      <4> QED
        BY <3>5, <4>1 DEF DispatchIntent
    <3> QED
      BY <3>3, <3>4, <3>5
  <2>2. ASSUME NEW t \in Task, answer[t].code \in {"ok", "failure", "erpc_failed", "remote_failure"}
        PROVE  \E r \in origin : r.task = t /\ r.role = "dispatch" /\ r.phase = "outcome"
    <3> BranchInv(t) /\ DoneInv(t)
      BY DEF DistInv, TaskInv
    <3>1. pc[t] = "done"
      BY <2>2 DEF BranchInv, NoAnswer
    <3>2. /\ answer[t] = BranchAnswer(heard[t]) /\ heard[t] \in Heard \ {"mismatch"}
          /\ Waits(t) => DispatchOutcome(t, heard[t]) \in origin
      BY <2>2, <3>1, AnswerFields DEF DoneInv, TypeOK
    <3>3. Waits(t)
      BY <2>2, <3>2, BranchAnswerOf, AnswerFields, ResolutionOf DEF Heard, Ambiguous, Waits
    <3> QED
      BY <3>2, <3>3, ReceiptFields
  <2> QED
    BY <2>1, <2>2 DEF OriginCloses
<1> QED
  BY <1>1, DistributedInvariant, PTL

(* A timeout or a lost connection is never taken for an answer               *)
(* (distributed.ex:265-291).                                                 *)
THEOREM DistributedAmbiguityKept == Spec => []AmbiguityKept
<1>1. DistInv => AmbiguityKept
  <2> SUFFICES ASSUME DistInv, NEW t \in Task, heard[t] \in Ambiguous
               PROVE  /\ pc[t] = "done" => answer[t].says = "maybe"
                      /\ \A r \in origin \cup late :
                           r.task = t /\ r.role = "dispatch" /\ r.phase = "outcome" =>
                             r.resolution = "ambiguous" /\ r.may_have_attempted
    BY DEF AmbiguityKept
  <2>1. Resolution(heard[t]) = "ambiguous" /\ BranchAnswer(heard[t]) = Answers("erpc_failed", "maybe")
    BY ResolutionOf, BranchAnswerOf DEF Ambiguous
  <2>2. heard[t] \notin {"nothing", "ok", "failure", "mismatch"}
    BY DEF Ambiguous
  <2>3. pc[t] = "done" => answer[t].says = "maybe"
    BY <2>1, <2>2, AnswerFields DEF DistInv, TaskInv, DoneInv
  <2>4. MayHaveAttempted(heard[t])
    BY <2>1 DEF MayHaveAttempted
  <2>5. ASSUME NEW r \in origin \cup late, r.task = t, r.role = "dispatch", r.phase = "outcome"
        PROVE  r.resolution = "ambiguous" /\ r.may_have_attempted
    <3>1. r = DispatchOutcome(t, heard[t])
      BY <2>5 DEF DistInv, ReceiptInv
    <3>2. r.resolution = Resolution(heard[t]) /\ r.may_have_attempted = MayHaveAttempted(heard[t])
      BY <3>1, ReceiptFields
    <3> QED
      BY <2>1, <2>4, <3>2
  <2> QED
    BY <2>3, <2>5
<1> QED
  BY <1>1, DistributedInvariant, PTL

(* The denial of a failed mirror is false, and every other denial is true    *)
(* for ever (distributed.ex:182-366).                                        *)
THEOREM DistributedDenials == Spec => []OnlyMirrorDeniesFalsely
<1>1. DistInv => OnlyMirrorDeniesFalsely
  <2> SUFFICES ASSUME DistInv, NEW t \in Task
               PROVE  /\ answer[t].says = "not_attempted" => (Invoked(t) <=> answer[t].code = "mirror_failed")
                      /\ DispatchOutcome(t, "system_limit") \in origin => ~ Invoked(t)
    BY DEF OnlyMirrorDeniesFalsely
  <2> SentInv(t) /\ RemoteInv(t) /\ WordInv(t) /\ BranchInv(t) /\ DoneInv(t) /\ TypeOK
    BY DEF DistInv, TaskInv
  <2>1. ASSUME answer[t].says = "not_attempted", answer[t].code # "mirror_failed" PROVE ~ Invoked(t)
    <3>1. pc[t] = "done"
      BY <2>1 DEF BranchInv, NoAnswer
    <3>2. CASE remote[t] = "idle"
      BY <3>2 DEF RemoteInv
    <3>3. CASE answer[t] = BranchAnswer(heard[t]) /\ heard[t] \in Heard \ {"mismatch"}
      <4>1. heard[t] \in {"refused_before_do", "system_limit"}
        BY <2>1, <3>3, BranchAnswerOf, AnswerFields DEF Heard, Ambiguous
      <4> QED
        BY <4>1 DEF WordInv, Word, RemoteInv
    <3> QED
      BY <2>1, <3>1, <3>2, <3>3, AnswerFields DEF DoneInv, TypeOK
  <2>2. ASSUME answer[t].says = "not_attempted", answer[t].code = "mirror_failed" PROVE Invoked(t)
    <3>1. pc[t] = "done"
      BY <2>2 DEF BranchInv, NoAnswer
    <3>2. CASE heard[t] \in {"ok", "failure"}
      BY <3>2 DEF WordInv, Word, RemoteInv
    <3>3. CASE answer[t] = BranchAnswer(heard[t]) /\ heard[t] \in Heard \ {"mismatch"}
      BY <2>2, <3>3, BranchAnswerOf, AnswerFields DEF Heard, Ambiguous
    <3> QED
      BY <2>2, <3>1, <3>2, <3>3, AnswerFields DEF DoneInv, TypeOK
  <2>3. ASSUME DispatchOutcome(t, "system_limit") \in origin PROVE ~ Invoked(t)
    <3>1. /\ DispatchOutcome(t, "system_limit") = DispatchOutcome(t, heard[t])
          /\ heard[t] \in Heard \ {"mismatch"}
      BY <2>3, ReceiptFields DEF DistInv, ReceiptInv, TypeOK
    <3>2. Resolution(heard[t]) = "failed"
      BY <3>1, ReceiptFields, ResolutionOf
    <3>3. heard[t] = "system_limit"
      BY <3>1, <3>2, ResolutionOf DEF Heard, Ambiguous
    <3> QED
      BY <3>3 DEF WordInv, Word, RemoteInv
  <2> QED
    BY <2>1, <2>2, <2>3
<1> QED
  BY <1>1, DistributedInvariant, PTL

-----------------------------------------------------------------------------
(* The refinement: each step of a remote process is a step of the contract   *)
(* of BRCE, and everything else leaves it alone.                             *)

LEMMA RemoteStutters ==
  ASSUME UNCHANGED <<did, ledger>>, UNCHANGED RemoteTold
  PROVE  UNCHANGED RemoteBrce!doVars
BY DEF RemoteRecorded, Logged, RemoteDone, Invoked, RemoteBrce!doVars

LEMMA RemoteRecordsIntent ==
  ASSUME NEW t \in HomeTask, ledger' = ledger \cup {<<t, "pending">>}, UNCHANGED <<remote, did>> \/ (UNCHANGED did /\ UNCHANGED RemoteTold)
  PROVE  RemoteBrce!RecordIntent
<1>1. Logged("pending")' = Logged("pending") \cup {t} /\ Logged("outcome")' = Logged("outcome")
  BY DEF Logged
<1>2. RemoteRecorded' = RemoteRecorded \cup ({t} \X {"intent"})
  BY <1>1 DEF RemoteRecorded
<1>3. UNCHANGED <<RemoteDone, RemoteTold>>
  BY DEF RemoteDone, Invoked, RemoteTold
<1>4. {t} \in SUBSET HomeTask
  OBVIOUS
<1> QED
  BY <1>2, <1>3, <1>4 DEF RemoteBrce!RecordIntent

LEMMA RemoteRecordsOutcome ==
  ASSUME NEW t \in HomeTask, Invoked(t), ledger' = ledger \cup {<<t, "outcome">>}, UNCHANGED <<remote, did>> \/ (UNCHANGED did /\ UNCHANGED RemoteTold)
  PROVE  RemoteBrce!RecordOutcome
<1>1. Logged("outcome")' = Logged("outcome") \cup {t} /\ Logged("pending")' = Logged("pending")
  BY DEF Logged
<1>2. RemoteRecorded' = RemoteRecorded \cup ({t} \X {"outcome"})
  BY <1>1 DEF RemoteRecorded
<1>3. UNCHANGED <<RemoteDone, RemoteTold>>
  BY DEF RemoteDone, Invoked, RemoteTold
<1>4. {t} \in SUBSET RemoteDone
  BY DEF RemoteDone
<1> QED
  BY <1>2, <1>3, <1>4 DEF RemoteBrce!RecordOutcome

LEMMA RemoteTells ==
  ASSUME TypeOK, NEW t \in HomeTask, RemoteTold[t] = "nothing",
         NEW what \in {"refused", "confirmed", "unrecorded"},
         remote' = [remote EXCEPT ![t] = what], UNCHANGED <<did, ledger>>,
         \/ what = "refused" /\ ~ Invoked(t)
         \/ what = "confirmed" /\ <<t, "outcome">> \in ledger
         \/ what = "unrecorded" /\ Invoked(t)
  PROVE  RemoteBrce!Tell(t, what)
<1>1. RemoteTold' = [RemoteTold EXCEPT ![t] = what]
  BY DEF RemoteTold, HomeTask, TypeOK
<1>2. UNCHANGED <<RemoteRecorded, RemoteDone>>
  BY DEF RemoteRecorded, Logged, RemoteDone, Invoked
<1>3. what = "confirmed" => <<t, "outcome">> \in RemoteRecorded
  BY DEF RemoteRecorded, Logged
<1>4. (what = "refused" => t \notin RemoteDone) /\ (what = "unrecorded" => t \in RemoteDone)
  BY DEF RemoteDone
<1> QED
  BY <1>1, <1>2, <1>3, <1>4 DEF RemoteBrce!Tell

(* What happens on a node of another release is outside of the contract.     *)
LEMMA ForeignStutters ==
  ASSUME TypeOK, NEW t \in Task \ HomeTask, RemoteStep(t)
  PROVE  UNCHANGED RemoteBrce!doVars
<1>1. /\ \A u \in HomeTask : remote'[u] = remote[u] /\ did'[u] = did[u]
      /\ \A u \in HomeTask, p \in {"pending", "outcome"} : <<u, p>> \in ledger' <=> <<u, p>> \in ledger
  BY DEF RemoteStep, RemoteStart, RemoteRefuse, RemoteIntent, RemoteDo, RemoteOutcome, RemoteLateInsert,
         RemoteConfirm, RemoteUnrecorded, RemoteKilled, ForeignAnswer, End, TypeOK, HomeTask
<1>2. UNCHANGED RemoteTold
  BY <1>1 DEF RemoteTold
<1>3. UNCHANGED RemoteDone
  BY <1>1 DEF RemoteDone, Invoked
<1>4. UNCHANGED <<Logged("pending"), Logged("outcome")>>
  BY <1>1 DEF Logged
<1> QED
  BY <1>2, <1>3, <1>4 DEF RemoteRecorded, RemoteBrce!doVars

LEMMA HomeStep ==
  ASSUME DistInv, NEW t \in HomeTask, RemoteStep(t)
  PROVE  [RemoteBrce!DoNext]_(RemoteBrce!doVars)
<1> t \in Task /\ Placement[t] \notin Foreign
  BY DEF HomeTask
<1> TypeOK /\ RemoteInv(t)
  BY DEF DistInv, TaskInv
<1> USE DEF RemoteBrce!DoNext
<1>1. CASE RemoteStart(t)
  <2>1. UNCHANGED RemoteTold
    BY <1>1 DEF RemoteStart, RemoteTold, HomeTask
  <2> QED
    BY <1>1, <2>1, RemoteStutters DEF RemoteStart
<1>2. CASE RemoteRefuse(t)
  BY <1>2, RemoteTells DEF RemoteRefuse, End, RemoteTold, RemoteInv
<1>3. CASE RemoteIntent(t)
  <2>1. UNCHANGED RemoteTold
    BY <1>3 DEF RemoteIntent, RemoteTold, HomeTask
  <2> QED
    BY <1>3, <2>1, RemoteRecordsIntent DEF RemoteIntent
<1>4. CASE RemoteDo(t)
  <2>1. UNCHANGED RemoteTold /\ UNCHANGED RemoteRecorded
    BY <1>4 DEF RemoteDo, RemoteTold, HomeTask, RemoteRecorded, Logged
  <2>2. RemoteDone' = RemoteDone \cup {t} /\ t \notin RemoteDone
    BY <1>4 DEF RemoteDo, RemoteDone, Invoked, HomeTask, TypeOK, RemoteInv
  <2>3. <<t, "intent">> \in RemoteRecorded
    BY <1>4 DEF RemoteDo, RemoteInv, RemoteRecorded, Logged
  <2>4. RemoteTold[t] = "nothing"
    BY <1>4 DEF RemoteDo, RemoteTold
  <2> QED
    BY <2>1, <2>2, <2>3, <2>4 DEF RemoteBrce!Do
<1>5. CASE RemoteOutcome(t)
  <2>1. UNCHANGED RemoteTold
    BY <1>5 DEF RemoteOutcome, RemoteTold, HomeTask
  <2> QED
    BY <1>5, <2>1, RemoteRecordsOutcome DEF RemoteOutcome, RemoteInv
<1>6. CASE RemoteLateInsert(t)
  BY <1>6, RemoteRecordsIntent, RemoteRecordsOutcome DEF RemoteLateInsert, RemoteInv
<1>7. CASE RemoteConfirm(t)
  BY <1>7, RemoteTells DEF RemoteConfirm, End, RemoteTold, RemoteInv
<1>8. CASE RemoteUnrecorded(t)
  BY <1>8, RemoteTells DEF RemoteUnrecorded, End, RemoteTold, RemoteInv
<1>9. CASE RemoteKilled(t)
  <2>1. UNCHANGED RemoteTold
    BY <1>9 DEF RemoteKilled, End, RemoteTold, HomeTask
  <2> QED
    BY <1>9, <2>1, RemoteStutters DEF RemoteKilled
<1>10. CASE ForeignAnswer(t)
  BY <1>10 DEF ForeignAnswer
<1> QED
  BY <1>1, <1>2, <1>3, <1>4, <1>5, <1>6, <1>7, <1>8, <1>9, <1>10 DEF RemoteStep

LEMMA RemoteRefines ==
  DistInv /\ [Next]_vars => [RemoteBrce!DoNext]_(RemoteBrce!doVars)
<1> SUFFICES ASSUME DistInv, [Next]_vars PROVE [RemoteBrce!DoNext]_(RemoteBrce!doVars)
  OBVIOUS
<1> TypeOK
  BY DEF DistInv
<1>1. ASSUME NEW t \in Task, RemoteStep(t) PROVE [RemoteBrce!DoNext]_(RemoteBrce!doVars)
  BY <1>1, HomeStep, ForeignStutters
<1>2. ASSUME UNCHANGED <<did, ledger>>, \A u \in Task : remote'[u] = remote[u] \/ {remote[u], remote'[u]} \cap {"refused", "confirmed", "unrecorded"} = {}
      PROVE  UNCHANGED RemoteBrce!doVars
  <2>1. UNCHANGED RemoteTold
    BY <1>2 DEF RemoteTold, HomeTask
  <2> QED
    BY <1>2, <2>1, RemoteStutters
<1>3. ASSUME NEW t \in Task, OriginStep(t) PROVE UNCHANGED RemoteBrce!doVars
  <2>1. CASE ErpcCall(t)
    <3>1. remote[t] = "idle" /\ UNCHANGED <<did, ledger>>
          /\ (remote' = remote \/ remote' = [remote EXCEPT ![t] = "sent"])
      BY <2>1 DEF ErpcCall, DistInv, TaskInv, SentInv
    <3> QED
      BY <1>2, <3>1 DEF TypeOK
  <2>2. CASE ~ ErpcCall(t)
    <3>1. UNCHANGED <<did, ledger, remote>>
      BY <1>3, <2>2 DEF OriginStep, CallStep, Dispatch, Receive, TimeOut, MirrorPending, MirrorOutcome, Close,
                        remoteVars
    <3> QED
      BY <1>2, <3>1
  <2> QED
    BY <2>1, <2>2
<1>4. CASE AdmitNodes \/ (\E r \in late : LateInsert(r)) \/ UNCHANGED vars
  BY <1>2, <1>4 DEF AdmitNodes, LateInsert, remoteVars, vars
<1>5. ASSUME NEW m \in Node, Disconnect(m) PROVE UNCHANGED RemoteBrce!doVars
  BY <1>2, <1>5 DEF Disconnect, TypeOK
<1> QED
  BY <1>1, <1>3, <1>4, <1>5 DEF Next

(* The remote half implements the contract of BRCE, for any plan, nodes and  *)
(* faults (distributed.ex:58-77).                                            *)
THEOREM DistributedRemoteKeepsContract == Spec => RemoteKeepsContract
<1>1. Init => RemoteBrce!DoInit
  BY DEF Init, RemoteBrce!DoInit, RemoteRecorded, Logged, RemoteDone, Invoked, RemoteTold, HomeTask
<1> QED
  BY <1>1, RemoteRefines, DistributedInvariant, PTL DEF Spec, RemoteKeepsContract, RemoteBrce!DoSpec

=============================================================================
