---------------------------- MODULE BrceProofs ----------------------------
(***************************************************************************)
(* The receipted DO boundary, for every number of calls, every clock and    *)
(* every number of restarts of the ledger.                                  *)
(*                                                                          *)
(* The properties rest on one inductive invariant, TypeOK /\ BrceInv.  That *)
(* a DO follows its pending receipt is not inductive: a caller proceeds on  *)
(* a reply, so the invariant must say what a reply on its way means         *)
(* (MessageInv), which in turn needs what a request under way carries, and  *)
(* that a receipt once inserted stays accounted for when the ledger dies    *)
(* (LedgerInv).                                                             *)
(***************************************************************************)
EXTENDS Brce, TLAPS

(* The initial state (a started ledger, calls not yet begun). *)
LEMMA InitInv == Init => TypeOK /\ BrceInv
<1> USE DEF PendingReceipt, OutcomeReceipt, PendingBody, Request, Answer
<1> SUFFICES ASSUME Init PROVE TypeOK /\ BrceInv
  OBVIOUS
<1>1. TypeOK
  BY BrceAssumption DEF Init, TypeOK, NoAnswer, Refused
<1>2. CallInv
  BY DEF Init, CallInv, NoAnswer, Refused
<1>3. MessageInv /\ LedgerInv
  BY DEF Init, MessageInv, LedgerInv
<1> QED
  BY <1>1, <1>2, <1>3 DEF BrceInv

(* Every action keeps the types. *)
LEMMA TypeStep ==
  ASSUME TypeOK, BrceInv, [Next]_vars
  PROVE  TypeOK'
<1> USE DEF PendingReceipt, OutcomeReceipt, PendingBody, Request, Answer
<1>1. CASE Tick
  BY <1>1 DEF Tick, TypeOK, callVars, ledgerVars
<1>2. ASSUME NEW c \in Call, Refuse(c) PROVE TypeOK'
  BY <1>2 DEF Refuse, Return, Refused, TypeOK, ledgerVars
<1>3. ASSUME NEW c \in Call, Begin(c) PROVE TypeOK'
  <2>1. Pending(req[c], clock) \in PendingReceipt
    BY DEF Pending, TypeOK
  <2> QED
    BY <1>3, <2>1 DEF Begin, SendPut, TypeOK, Receipt
<1>3r. ASSUME NEW c \in Call, BeginRaises(c) PROVE TypeOK'
  BY <1>3r DEF BeginRaises, TypeOK, ledgerVars
<1>4. ASSUME NEW c \in Call, PendingPersisted(c) PROVE TypeOK'
  BY <1>4 DEF PendingPersisted, TypeOK
<1>5. ASSUME NEW c \in Call, PutFails(c) PROVE TypeOK'
  BY <1>5 DEF PutFails, Return, Refused, TypeOK
<1>6. ASSUME NEW c \in Call, Invoke(c) PROVE TypeOK'
  BY <1>6 DEF Invoke, TypeOK, ledgerVars
<1>7. ASSUME NEW c \in Call, Finalize(c) PROVE TypeOK'
  <2>1. pending[c] \in PendingReceipt
    BY <1>7 DEF Finalize, BrceInv, CallInv, TypeOK
  <2>2. Outcome(pending[c], did[c], clock) \in OutcomeReceipt
    BY <2>1 DEF Outcome, TypeOK
  <2> QED
    BY <1>7, <2>2 DEF Finalize, SendPut, TypeOK, Receipt
<1>8. ASSUME NEW c \in Call, OutcomePersisted(c) PROVE TypeOK'
  BY <1>8 DEF OutcomePersisted, Return, TypeOK
<1>9. ASSUME NEW c \in Call, Kill(c) PROVE TypeOK'
  BY <1>9 DEF Kill, TypeOK
<1>10. ASSUME NEW m \in inflight, HandlePut(m) PROVE TypeOK'
  BY <1>10 DEF HandlePut, Waiting, TypeOK, callVars
<1>11. ASSUME NEW m \in inflight, RejectPut(m) PROVE TypeOK'
  BY <1>11 DEF RejectPut, TypeOK, callVars
<1>12. CASE LedgerDies
  <2>1. restarts' \in 0..MaxRestarts
    BY <1>12, BrceAssumption DEF LedgerDies, TypeOK
  <2>2. inflight' \subseteq [call : Call, receipt : Receipt] /\ table' \subseteq Receipt
    BY <1>12 DEF LedgerDies, TypeOK
  <2> HIDE DEF Answer, Receipt
  <2> QED
    BY <1>12, <2>1, <2>2 DEF LedgerDies, TypeOK, callVars
<1>13. CASE LedgerRestarts
  BY <1>13 DEF LedgerRestarts, TypeOK, callVars
<1>14. CASE UNCHANGED vars
  BY <1>14 DEF vars, TypeOK
<1> HIDE DEF PendingReceipt, OutcomeReceipt, PendingBody, Request, Answer
<1>15. ASSUME NEW c \in Call, CallerStep(c) PROVE TypeOK'
  BY <1>2, <1>3, <1>3r, <1>4, <1>5, <1>6, <1>7, <1>8, <1>15 DEF CallerStep
<1>16. CASE LedgerStep
  BY <1>10, <1>11, <1>12, <1>13, <1>16 DEF LedgerStep
<1> QED
  BY <1>1, <1>9, <1>14, <1>15, <1>16 DEF Next

(* What landed stays landed. *)
LEMMA LandedGrows ==
  ASSUME TypeOK, BrceInv, [Next]_vars
  PROVE  \A r : Landed(r) => Landed(r)'
<1>1. landed \subseteq landed' /\ restarts <= restarts' /\ restarts \in Nat /\ restarts' \in Nat
  <2> USE BrceAssumption DEF TypeOK
  <2>1. CASE Tick
    BY <2>1 DEF Tick, ledgerVars
  <2>2. ASSUME NEW c \in Call, CallerStep(c) \/ Kill(c)
        PROVE  UNCHANGED <<landed, restarts>>
    BY <2>2 DEF CallerStep, Kill, Refuse, Begin, BeginRaises, PendingPersisted, PutFails, Invoke,
                Finalize, OutcomePersisted, ledgerVars
  <2>3. ASSUME NEW m \in inflight, HandlePut(m)
        PROVE  landed \subseteq landed' /\ restarts' = restarts
    BY <2>3 DEF HandlePut
  <2>4. ASSUME NEW m \in inflight, RejectPut(m)
        PROVE  landed \subseteq landed' /\ restarts' = restarts
    BY <2>4 DEF RejectPut
  <2>5. CASE LedgerDies
    BY <2>5 DEF LedgerDies
  <2>6. CASE LedgerRestarts
    BY <2>6 DEF LedgerRestarts
  <2>7. CASE UNCHANGED vars
    BY <2>7 DEF vars
  <2>8. CASE LedgerStep
    BY <2>3, <2>4, <2>5, <2>6, <2>8 DEF LedgerStep
  <2> QED
    BY <2>1, <2>2, <2>7, <2>8 DEF Next
<1>2. 0..restarts \subseteq 0..restarts'
  BY <1>1
<1> QED
  BY <1>1, <1>2 DEF Landed

(* Every action keeps the state of each call consistent. *)
LEMMA CallStep ==
  ASSUME TypeOK, BrceInv, [Next]_vars
  PROVE  CallInv'
<1> USE DEF PendingReceipt, OutcomeReceipt, PendingBody, Request, Answer, BrceInv, CallInv
<1>0. \A r : Landed(r) => Landed(r)'
  BY LandedGrows
<1>1. CASE UNCHANGED callVars
  BY <1>0, <1>1 DEF callVars, TypeOK
<1>2. ASSUME NEW c \in Call, Refuse(c) PROVE CallInv'
  BY <1>0, <1>2 DEF Refuse, Return, Refused, TypeOK
<1>3. ASSUME NEW c \in Call, Begin(c) PROVE CallInv'
  <2>1. Pending(req[c], clock) # Nil
    BY NilAssumption DEF Pending, TypeOK, Receipt
  <2> QED
    BY <1>0, <1>3, <2>1 DEF Begin, TypeOK
<1>3r. ASSUME NEW c \in Call, BeginRaises(c) PROVE CallInv'
  BY <1>0, <1>3r DEF BeginRaises, TypeOK, ledgerVars
<1>4. ASSUME NEW c \in Call, PendingPersisted(c) PROVE CallInv'
  BY <1>0, <1>4 DEF PendingPersisted, MessageInv, TypeOK
<1>5. ASSUME NEW c \in Call, PutFails(c) PROVE CallInv'
  BY <1>0, <1>5 DEF PutFails, Return, Refused, TypeOK
<1>6. ASSUME NEW c \in Call, Invoke(c) PROVE CallInv'
  BY <1>0, <1>6 DEF Invoke, TypeOK
<1>7. ASSUME NEW c \in Call, Finalize(c) PROVE CallInv'
  <2>1. pending[c] \in PendingReceipt
    BY <1>7 DEF Finalize, TypeOK
  <2>2. Outcome(pending[c], did[c], clock) # Nil
    BY <2>1, NilAssumption DEF Outcome, TypeOK, Receipt
  <2>3. AdmitParent(pending[c], Outcome(pending[c], did[c], clock))
    BY DEF AdmitParent, Outcome
  <2> QED
    BY <1>0, <1>7, <2>2, <2>3 DEF Finalize, Outcome, TypeOK
<1>8. ASSUME NEW c \in Call, OutcomePersisted(c) PROVE CallInv'
  BY <1>0, <1>8 DEF OutcomePersisted, Return, TypeOK
<1>9. ASSUME NEW c \in Call, Kill(c) PROVE CallInv'
  BY <1>0, <1>9 DEF Kill, TypeOK
<1>10. CASE Tick \/ LedgerStep
  <2>1. UNCHANGED callVars
    BY <1>10 DEF Tick, LedgerStep, HandlePut, RejectPut, LedgerDies, LedgerRestarts
  <2> QED
    BY <1>1, <2>1
<1> HIDE DEF CallInv
<1>11. ASSUME NEW c \in Call, CallerStep(c) PROVE CallInv'
  BY <1>2, <1>3, <1>3r, <1>4, <1>5, <1>6, <1>7, <1>8, <1>11 DEF CallerStep
<1>12. CASE UNCHANGED vars
  BY <1>1, <1>12 DEF vars, callVars
<1> QED
  BY <1>9, <1>10, <1>11, <1>12 DEF Next

(* Every action keeps the requests and replies under way consistent. *)
LEMMA MessageStep ==
  ASSUME TypeOK, BrceInv, [Next]_vars
  PROVE  MessageInv'
<1> USE DEF BrceInv, MessageInv
<1>0. \A r : Landed(r) => Landed(r)'
  BY LandedGrows
<1>1. \A m \in inflight : m.call \in Call /\ m.receipt \in Receipt
  BY DEF TypeOK
<1>2. ASSUME NEW c \in Call, Refuse(c) PROVE MessageInv'
  <2>1. c \notin acked /\ \A m \in inflight : m.call # c
    BY <1>2 DEF Refuse
  <2> QED
    BY <1>0, <1>1, <1>2, <2>1 DEF Refuse, Return, ledgerVars, TypeOK
<1>3. ASSUME NEW c \in Call, Begin(c) PROVE MessageInv'
  <2>1. c \notin acked /\ \A m \in inflight : m.call # c
    BY <1>3 DEF Begin
  <2>2. \A m \in inflight' \ inflight : m.call = c /\ m.receipt = pending'[c] /\ inflight' = inflight \cup {m}
    BY <1>3 DEF Begin, SendPut, TypeOK
  <2>3. \A m \in inflight : m \in inflight'
    BY <1>3 DEF Begin, SendPut
  <2> QED
    BY <1>0, <1>1, <1>3, <2>1, <2>2, <2>3 DEF Begin, TypeOK
<1>3r. ASSUME NEW c \in Call, BeginRaises(c) PROVE MessageInv'
  <2>1. c \notin acked /\ \A m \in inflight : m.call # c
    BY <1>3r DEF BeginRaises
  <2> QED
    BY <1>0, <1>1, <1>3r, <2>1 DEF BeginRaises, ledgerVars, TypeOK
<1>4. ASSUME NEW c \in Call, PendingPersisted(c) PROVE MessageInv'
  BY <1>0, <1>1, <1>4 DEF PendingPersisted, TypeOK
<1>5. ASSUME NEW c \in Call, PutFails(c) PROVE MessageInv'
  BY <1>0, <1>1, <1>5 DEF PutFails, Return, TypeOK
<1>6. ASSUME NEW c \in Call, Invoke(c) PROVE MessageInv'
  BY <1>0, <1>1, <1>6 DEF Invoke, ledgerVars, TypeOK
<1>7. ASSUME NEW c \in Call, Finalize(c) PROVE MessageInv'
  <2>1. c \notin acked /\ \A m \in inflight : m.call # c
    BY <1>7 DEF Finalize
  <2>2. \A m \in inflight' \ inflight : m.call = c /\ m.receipt = outcome'[c] /\ inflight' = inflight \cup {m}
    BY <1>7 DEF Finalize, SendPut, TypeOK
  <2>3. \A m \in inflight : m \in inflight'
    BY <1>7 DEF Finalize, SendPut
  <2> QED
    BY <1>0, <1>1, <1>7, <2>1, <2>2, <2>3 DEF Finalize, TypeOK
<1>8. ASSUME NEW c \in Call, OutcomePersisted(c) PROVE MessageInv'
  BY <1>0, <1>1, <1>8 DEF OutcomePersisted, Return, TypeOK
<1>9. ASSUME NEW c \in Call, Kill(c) PROVE MessageInv'
  BY <1>0, <1>1, <1>9 DEF Kill, TypeOK
<1>10. ASSUME NEW m \in inflight, HandlePut(m) PROVE MessageInv'
  <2>1. <<m.receipt, restarts>> \in landed' /\ restarts' = restarts
    BY <1>10 DEF HandlePut
  <2>2. Landed(m.receipt)'
    BY <2>1, BrceAssumption DEF Landed, TypeOK
  <2>3. pc[m.call] = "put_pending" => m.receipt = pending[m.call]
    BY <1>1, NilAssumption DEF CallInv
  <2>4. UNCHANGED callVars
    BY <1>10 DEF HandlePut
  <2> QED
    BY <1>0, <1>1, <1>10, <2>2, <2>3, <2>4 DEF HandlePut, Waiting, callVars
<1>11. ASSUME NEW m \in inflight, RejectPut(m) PROVE MessageInv'
  BY <1>0, <1>1, <1>11 DEF RejectPut, callVars
<1>12. CASE Tick \/ LedgerDies \/ LedgerRestarts \/ UNCHANGED vars
  <2>1. inflight' \subseteq inflight /\ acked' = acked /\ UNCHANGED callVars
    BY <1>12 DEF Tick, LedgerDies, LedgerRestarts, vars, ledgerVars, callVars
  <2> QED
    BY <1>0, <2>1 DEF callVars
<1> HIDE DEF MessageInv
<1>13. ASSUME NEW c \in Call, CallerStep(c) PROVE MessageInv'
  BY <1>2, <1>3, <1>3r, <1>4, <1>5, <1>6, <1>7, <1>8, <1>13 DEF CallerStep
<1> QED
  BY <1>9, <1>10, <1>11, <1>12, <1>13 DEF Next, LedgerStep

(* Every action keeps the ledger's accounts. *)
LEMMA LedgerInvStep ==
  ASSUME TypeOK, BrceInv, [Next]_vars
  PROVE  LedgerInv'
<1> USE DEF BrceInv, LedgerInv
<1>0. restarts \in Nat /\ MaxRestarts \in Nat
  BY BrceAssumption DEF TypeOK
<1>1. \A c \in Call : outcome[c] # Nil => outcome'[c] = outcome[c]
  <2> USE DEF CallInv, TypeOK
  <2>1. CASE UNCHANGED callVars
    BY <2>1 DEF callVars
  <2>2. ASSUME NEW c \in Call, CallerStep(c) \/ Kill(c)
        PROVE  \A d \in Call : outcome[d] # Nil => outcome'[d] = outcome[d]
    BY <2>2 DEF CallerStep, Kill, Refuse, Begin, BeginRaises, PendingPersisted, PutFails, Invoke,
                Finalize, OutcomePersisted
  <2>3. Tick \/ LedgerStep => UNCHANGED callVars
    BY DEF Tick, LedgerStep, HandlePut, RejectPut, LedgerDies, LedgerRestarts
  <2>4. UNCHANGED vars => UNCHANGED callVars
    BY DEF vars, callVars
  <2> QED
    BY <2>1, <2>2, <2>3, <2>4 DEF Next
<1>2. \A l \in landed : l[1] \in OutcomeReceipt => \E c \in Call : outcome'[c] = l[1]
  BY <1>1, NilAssumption DEF Receipt
<1>d. durable' <=> durable
  <2>1. ASSUME NEW c \in Call, CallerStep(c) \/ Kill(c) PROVE durable' = durable
    BY <2>1 DEF CallerStep, Kill, Refuse, Begin, BeginRaises, PendingPersisted, PutFails, Invoke,
                Finalize, OutcomePersisted, ledgerVars
  <2>2. LedgerStep => durable' = durable
    BY DEF LedgerStep, HandlePut, RejectPut, LedgerDies, LedgerRestarts
  <2>3. Tick \/ UNCHANGED vars => durable' = durable
    BY DEF Tick, vars, ledgerVars
  <2> QED
    BY <2>1, <2>2, <2>3 DEF Next
<1>l. ASSUME landed \subseteq landed', restarts <= restarts', restarts' \in Nat
      PROVE  \A r : LostInRestart(r) => LostInRestart(r)'
  <2> SUFFICES ASSUME NEW r, LostInRestart(r) PROVE LostInRestart(r)'
    OBVIOUS
  <2>1. ~ durable'
    BY <1>d DEF LostInRestart
  <2>2. \E e \in 0..restarts' : e < restarts' /\ <<r, e>> \in landed'
    BY <1>0, <1>l DEF LostInRestart
  <2> QED
    BY <2>1, <2>2 DEF LostInRestart
<1>3. CASE UNCHANGED <<table, restarts, landed>>
  <2>1. \A r : LostInRestart(r) => LostInRestart(r)'
    BY <1>0, <1>3, <1>l
  <2> QED
    BY <1>2, <1>3, <2>1 DEF Landed
<1>4. ASSUME NEW m \in inflight, HandlePut(m) PROVE LedgerInv'
  <2>1. m.call \in Call /\ m.receipt \in Receipt
    BY DEF TypeOK
  <2>2. m.receipt \in OutcomeReceipt => outcome[m.call] = m.receipt
    BY <2>1 DEF MessageInv, CallInv, TypeOK, OutcomeReceipt, PendingReceipt
  <2>3. /\ table' = table \cup {m.receipt}
        /\ landed' = landed \cup {<<m.receipt, restarts>>}
        /\ restarts' = restarts
        /\ outcome' = outcome
    BY <1>4 DEF HandlePut, callVars
  <2>4. \A r \in table' : Landed(r)'
    BY <1>0, <2>3 DEF Landed
  <2>5. \A r : LostInRestart(r) => LostInRestart(r)'
    BY <1>0, <1>l, <2>3
  <2> QED
    BY <1>0, <2>1, <2>2, <2>3, <2>4, <2>5
<1>5. CASE LedgerDies
  <2>1. \A l \in landed : l[1] \in table' \/ LostInRestart(l[1])'
    <3> SUFFICES ASSUME NEW l \in landed, l[1] \notin table'
                 PROVE  LostInRestart(l[1])'
      OBVIOUS
    <3>1. l = <<l[1], l[2]>> /\ l[2] \in Nat /\ l[2] <= restarts
      BY <1>0 DEF TypeOK
    <3>2. CASE ~ durable
      <4>1. ~ durable'
        BY <1>d, <3>2
      <4>2. \E e \in 0..restarts' : e < restarts' /\ <<l[1], e>> \in landed'
        BY <1>0, <1>5, <3>1 DEF LedgerDies
      <4> QED
        BY <4>1, <4>2 DEF LostInRestart
    <3>3. CASE durable
      <4>1. table' = table /\ landed' = landed /\ restarts' = restarts + 1
        BY <1>5, <3>3 DEF LedgerDies
      <4>2. l[1] \in table \/ LostInRestart(l[1])
        OBVIOUS
      <4> QED
        BY <3>3, <4>1, <4>2 DEF LostInRestart
    <3> QED
      BY <3>2, <3>3
  <2>2. \A r \in table' : Landed(r)'
    <3>1. table' \subseteq table
      BY <1>5 DEF LedgerDies
    <3> QED
      BY <3>1, LandedGrows
  <2>3. \A l \in landed : l[2] <= restarts'
    BY <1>0, <1>5 DEF LedgerDies, TypeOK
  <2> QED
    BY <1>2, <1>5, <2>1, <2>2, <2>3 DEF LedgerDies
<1>6. (\E c \in Call : CallerStep(c) \/ Kill(c)) => UNCHANGED <<table, restarts, landed>>
  BY DEF CallerStep, Kill, Refuse, Begin, BeginRaises, PendingPersisted, PutFails, Invoke,
         Finalize, OutcomePersisted, ledgerVars
<1>7. Tick \/ LedgerRestarts \/ (\E m \in inflight : RejectPut(m)) \/ UNCHANGED vars
        => UNCHANGED <<table, restarts, landed>>
  BY DEF Tick, LedgerRestarts, RejectPut, vars, ledgerVars
<1> HIDE DEF LedgerInv
<1> QED
  BY <1>3, <1>4, <1>5, <1>6, <1>7 DEF Next, LedgerStep

-----------------------------------------------------------------------------

(* The invariant holds in every reachable state. *)
THEOREM BrceInvariant == Spec => [](TypeOK /\ BrceInv)
<1>1. TypeOK /\ BrceInv /\ [Next]_vars => (TypeOK /\ BrceInv)'
  BY TypeStep, CallStep, MessageStep, LedgerInvStep DEF BrceInv
<1> QED
  BY InitInv, <1>1, PTL DEF Spec

(* Every variable always has its type. *)
THEOREM BrceTypeOK == Spec => []TypeOK
BY BrceInvariant, PTL

(* The DO boundary: no callback runs before the ledger has inserted its      *)
(* pending receipt, for any number of calls, restarts and timeouts.          *)
THEOREM BrceDoOnlyAfterPending == Spec => []DoOnlyAfterPending
<1>1. BrceInv => DoOnlyAfterPending
  BY DEF BrceInv, CallInv, DoOnlyAfterPending
<1> QED
  BY <1>1, BrceInvariant, PTL

(* Replay closes: an outcome receipt in the ledger has its pending receipt   *)
(* there, unless a restart of a volatile ledger took it.                     *)
THEOREM BrceOutcomesClose == Spec => []OutcomesClose
<1>1. TypeOK /\ BrceInv => OutcomesClose
  <2> SUFFICES ASSUME TypeOK, BrceInv, NEW r \in table
               PROVE  \/ ChainVerdict(r) \in {"match", "chain_match"}
                      \/ /\ ChainVerdict(r) = "receipt_parent_not_found"
                         /\ LostInRestart(r.parent_hash)
    BY DEF OutcomesClose
  <2>1. CASE r \in PendingReceipt
    BY <2>1 DEF ChainVerdict, PendingReceipt
  <2>2. CASE r \in OutcomeReceipt
    <3>1. PICK c \in Call : outcome[c] = r
      BY <2>2 DEF BrceInv, LedgerInv, Landed
    <3>2. r.parent_hash = pending[c] /\ Landed(pending[c]) /\ AdmitParent(r.parent_hash, r)
      BY <2>2, <3>1, NilAssumption DEF BrceInv, CallInv, Receipt
    <3>3. r.phase = "outcome"
      BY <2>2 DEF OutcomeReceipt
    <3>4. CASE r.parent_hash \in table
      BY <3>2, <3>3, <3>4 DEF ChainVerdict
    <3>5. CASE r.parent_hash \notin table
      <4>1. LostInRestart(r.parent_hash)
        BY <3>2, <3>5 DEF BrceInv, LedgerInv, Landed
      <4> QED
        BY <3>3, <3>5, <4>1 DEF ChainVerdict
    <3> QED
      BY <3>4, <3>5
  <2> QED
    BY <2>1, <2>2 DEF TypeOK, Receipt
<1> QED
  BY <1>1, BrceInvariant, PTL

(* Standing is earned: an outcome receipt in the ledger tells what the       *)
(* callback of a call did.                                                   *)
THEOREM BrceStandingEarned == Spec => []StandingEarned
<1>1. TypeOK /\ BrceInv => StandingEarned
  <2> SUFFICES ASSUME TypeOK, BrceInv, NEW r \in table \cap OutcomeReceipt
               PROVE  \E c \in Call :
                        /\ outcome[c] = r
                        /\ did[c] \in IF r.standing = "alive" THEN {"returned"}
                                     ELSE {"raised", "undigestable"}
    BY DEF StandingEarned
  <2>1. PICK c \in Call : outcome[c] = r
    BY DEF BrceInv, LedgerInv, Landed
  <2>2. outcome[c] # Nil
    BY <2>1, NilAssumption DEF Receipt
  <2> QED
    BY <2>1, <2>2 DEF BrceInv, CallInv, TypeOK
<1> QED
  BY <1>1, BrceInvariant, PTL

(* What a caller was told stays so, and is so when it is told.               *)
LEMMA AnswerStep ==
  ASSUME TypeOK, BrceInv, AnswersTruthful, [Next]_vars
  PROVE  AnswersTruthful'
<1> USE DEF AnswersTruthful, BrceInv
<1>0. \A r : Landed(r) => Landed(r)'
  BY LandedGrows
<1>1. CASE UNCHANGED callVars
  BY <1>0, <1>1 DEF callVars
<1>2. ASSUME NEW c \in Call, Refuse(c) PROVE AnswersTruthful'
  BY <1>0, <1>2 DEF Refuse, Return, Refused, CallInv, TypeOK
<1>3. ASSUME NEW c \in Call, Begin(c) \/ BeginRaises(c) \/ PendingPersisted(c) \/ Kill(c)
      PROVE  AnswersTruthful'
  BY <1>0, <1>3 DEF Begin, BeginRaises, PendingPersisted, Kill, ledgerVars
<1>4. ASSUME NEW c \in Call, PutFails(c) PROVE AnswersTruthful'
  BY <1>0, <1>4 DEF PutFails, Return, Refused, CallInv, TypeOK
<1>5. ASSUME NEW c \in Call, Invoke(c) PROVE AnswersTruthful'
  <2>1. answer[c].tag = "none"
    BY <1>5 DEF Invoke, CallInv
  <2> QED
    BY <1>0, <1>5, <2>1 DEF Invoke, TypeOK
<1>6. ASSUME NEW c \in Call, Finalize(c) PROVE AnswersTruthful'
  <2>1. answer[c].tag = "none"
    BY <1>6 DEF Finalize, CallInv
  <2> QED
    BY <1>0, <1>6, <2>1 DEF Finalize, TypeOK
<1>7. ASSUME NEW c \in Call, OutcomePersisted(c) PROVE AnswersTruthful'
  <2>1. did[c] # "not_invoked" /\ outcome[c] # Nil /\ Landed(outcome[c])
    BY <1>7 DEF OutcomePersisted, CallInv, MessageInv
  <2>2. outcome[c].standing = IF did[c] = "returned" THEN "alive" ELSE "blocked"
    BY <2>1 DEF CallInv, TypeOK, OutcomeReceipt
  <2> QED
    BY <1>0, <1>7, <2>1, <2>2 DEF OutcomePersisted, Return, TypeOK
<1> HIDE DEF AnswersTruthful
<1>8. ASSUME NEW c \in Call, CallerStep(c) PROVE AnswersTruthful'
  BY <1>2, <1>3, <1>4, <1>5, <1>6, <1>7, <1>8 DEF CallerStep
<1>9. Tick \/ LedgerStep \/ UNCHANGED vars => UNCHANGED callVars
  BY DEF Tick, LedgerStep, HandlePut, RejectPut, LedgerDies, LedgerRestarts, vars, callVars
<1> QED
  BY <1>1, <1>3, <1>8, <1>9 DEF Next

(* What execute/5 tells its caller agrees with what the callback did and     *)
(* with what the ledger inserted, for any number of calls, timeouts, killed  *)
(* callers and restarts.                                                     *)
THEOREM BrceAnswersTruthful == Spec => []AnswersTruthful
<1>1. Init => AnswersTruthful
  BY DEF Init, AnswersTruthful, NoAnswer, Refused
<1>2. TypeOK /\ BrceInv /\ AnswersTruthful /\ [Next]_vars => AnswersTruthful'
  BY AnswerStep
<1> QED
  BY <1>1, <1>2, BrceInvariant, PTL DEF Spec

-----------------------------------------------------------------------------
(* The refinement.                                                           *)

Intents == {c \in Call : Landed(pending[c])}
Outcomes == {c \in Call : Landed(outcome[c])}

(* A step that inserts nothing and builds nothing leaves the record alone,   *)
(* a death of the ledger included.                                           *)
LEMMA RecordStays ==
  ASSUME TypeOK, BrceInv, restarts' \in Nat, restarts <= restarts',
         UNCHANGED <<landed, pending, outcome>>
  PROVE  Intents' = Intents /\ Outcomes' = Outcomes
<1>1. \A l \in landed : l[2] \in 0..restarts
  BY BrceAssumption DEF TypeOK, BrceInv, LedgerInv
<1>2. \A r : Landed(r)' <=> Landed(r)
  BY <1>1, BrceAssumption DEF Landed, TypeOK
<1> QED
  BY <1>2 DEF Intents, Outcomes

(* An outcome on record is that of a call whose callback ran.                *)
LEMMA OutcomesAreDone ==
  ASSUME TypeOK', BrceInv'
  PROVE  Outcomes' \subseteq AbsDone'
<1>1. ~ Landed(Nil)'
  BY NilAssumption DEF Landed, TypeOK
<1> QED
  BY <1>1 DEF Outcomes, AbsDone, BrceInv, CallInv

(* A call that returns is told one thing, and no other call is told anything.*)
LEMMA TellsOne ==
  ASSUME NEW c \in Call, TypeOK, TypeOK', answer[c].tag = "none",
         \A d \in Call \ {c} : answer'[d] = answer[d]
  PROVE  AbsTold[c] = "nothing" /\ AbsTold' = [AbsTold EXCEPT ![c] = Told(answer[c])']
<1>1. AbsTold[c] = "nothing"
  BY DEF AbsTold, Told
<1>2. \A d \in Call \ {c} : Told(answer[d])' = Told(answer[d])
  BY DEF Told
<1>3. AbsTold' = [AbsTold EXCEPT ![c] = Told(answer[c])']
  BY <1>2 DEF AbsTold
<1> QED
  BY <1>1, <1>3

(* Each step of the boundary is a step of its contract, or none.             *)
LEMMA RefineStep ==
  ASSUME TypeOK, BrceInv, TypeOK', BrceInv', [Next]_vars
  PROVE  [Abstract!DoNext]_(Abstract!doVars)
<1> USE DEF Abstract!DoNext, Abstract!doVars
<1>0. restarts \in Nat
  BY BrceAssumption DEF TypeOK
<1>n. ~ Landed(Nil)
  BY NilAssumption DEF Landed, TypeOK
<1>r. AbsRecorded = (Intents \X {"intent"}) \cup (Outcomes \X {"outcome"})
  BY DEF AbsRecorded, Intents, Outcomes
<1>s. AbsRecorded' = (Intents' \X {"intent"}) \cup (Outcomes' \X {"outcome"})
  BY DEF AbsRecorded, Intents, Outcomes
<1>t. UNCHANGED did => AbsDone' = AbsDone
  BY DEF AbsDone
<1>u. UNCHANGED answer => AbsTold' = AbsTold
  BY DEF AbsTold
<1>x. UNCHANGED <<landed, restarts, pending, outcome>> => AbsRecorded' = AbsRecorded
  BY <1>0, <1>r, <1>s, RecordStays
<1>1. ASSUME UNCHANGED <<pending, outcome, did, answer>>,
             UNCHANGED <<landed, restarts>> \/ LedgerDies
      PROVE  UNCHANGED <<AbsRecorded, AbsDone, AbsTold>>
  <2>1. Intents' = Intents /\ Outcomes' = Outcomes
    BY <1>0, <1>1, RecordStays DEF LedgerDies
  <2> QED
    BY <1>1, <1>r, <1>s, <1>t, <1>u, <2>1
<1>2. ASSUME UNCHANGED <<did, answer>>, Outcomes' = Outcomes, Intents \subseteq Intents'
      PROVE  Abstract!RecordIntent
  <2>1. AbsRecorded' = AbsRecorded \cup (Intents' \X {"intent"})
    BY <1>2, <1>r, <1>s
  <2>2. Intents' \in SUBSET Call
    BY DEF Intents
  <2> QED
    BY <1>2, <1>t, <1>u, <2>1, <2>2 DEF Abstract!RecordIntent
<1>3. ASSUME UNCHANGED <<did, answer>>, Intents' = Intents, Outcomes \subseteq Outcomes'
      PROVE  Abstract!RecordOutcome
  <2>1. AbsRecorded' = AbsRecorded \cup (Outcomes' \X {"outcome"})
    BY <1>3, <1>r, <1>s
  <2>2. Outcomes' \in SUBSET AbsDone
    BY <1>3, <1>t, OutcomesAreDone
  <2> QED
    BY <1>3, <1>t, <1>u, <2>1, <2>2 DEF Abstract!RecordOutcome
<1>4. ASSUME NEW c \in Call, Refuse(c) PROVE Abstract!Tell(c, "refused")
  <2>1. answer[c].tag = "none" /\ c \notin AbsDone
    BY <1>4 DEF Refuse, BrceInv, CallInv, AbsDone
  <2>2. AbsTold[c] = "nothing" /\ AbsTold' = [AbsTold EXCEPT ![c] = "refused"]
    <3>1. /\ \A d \in Call \ {c} : answer'[d] = answer[d]
          /\ answer'[c].tag \in {"authority_required", "authority_denied"}
      BY <1>4 DEF Refuse, Return, Refused, TypeOK
    <3>2. Told(answer[c])' = "refused"
      BY <3>1 DEF Told
    <3> QED
      BY <2>1, <3>1, <3>2, TellsOne
  <2>3. UNCHANGED <<landed, restarts, pending, outcome, did>>
    BY <1>4 DEF Refuse, ledgerVars
  <2> QED
    BY <1>t, <1>x, <2>1, <2>2, <2>3 DEF Abstract!Tell
<1>5. ASSUME NEW c \in Call, PutFails(c)
      PROVE  Abstract!Tell(c, "refused") \/ Abstract!Tell(c, "unrecorded")
  <2>1. answer[c].tag = "none"
    BY <1>5 DEF PutFails, BrceInv, CallInv
  <2>2. UNCHANGED <<landed, restarts, pending, outcome, did>>
    BY <1>5 DEF PutFails
  <2>3. CASE pc[c] = "put_pending"
    <3>1. c \notin AbsDone
      BY <2>3 DEF BrceInv, CallInv, AbsDone
    <3>2. AbsTold[c] = "nothing" /\ AbsTold' = [AbsTold EXCEPT ![c] = "refused"]
      <4>1. /\ \A d \in Call \ {c} : answer'[d] = answer[d]
            /\ answer'[c].tag = "pending_receipt_persistence_failed"
        BY <1>5, <2>3 DEF PutFails, Return, Refused, TypeOK
      <4>2. Told(answer[c])' = "refused"
        BY <4>1 DEF Told
      <4> QED
        BY <2>1, <4>1, <4>2, TellsOne
    <3> QED
      BY <1>t, <1>x, <2>2, <3>1, <3>2 DEF Abstract!Tell
  <2>4. CASE pc[c] = "put_outcome"
    <3>1. c \in AbsDone
      BY <2>4 DEF BrceInv, CallInv, AbsDone
    <3>2. AbsTold[c] = "nothing" /\ AbsTold' = [AbsTold EXCEPT ![c] = "unrecorded"]
      <4>1. /\ \A d \in Call \ {c} : answer'[d] = answer[d]
            /\ answer'[c].tag = "outcome_receipt_persistence_failed"
        BY <1>5, <2>4 DEF PutFails, Return, Refused, TypeOK
      <4>2. Told(answer[c])' = "unrecorded"
        BY <4>1 DEF Told
      <4> QED
        BY <2>1, <4>1, <4>2, TellsOne
    <3> QED
      BY <1>t, <1>x, <2>2, <3>1, <3>2 DEF Abstract!Tell
  <2> QED
    BY <1>5, <2>3, <2>4 DEF PutFails
<1>6. ASSUME NEW c \in Call, OutcomePersisted(c) PROVE Abstract!Tell(c, "confirmed")
  <2>1. answer[c].tag = "none" /\ Landed(outcome[c])
    BY <1>6 DEF OutcomePersisted, BrceInv, CallInv, MessageInv
  <2>2. <<c, "outcome">> \in AbsRecorded
    BY <1>r, <2>1 DEF Outcomes
  <2>3. AbsTold[c] = "nothing" /\ AbsTold' = [AbsTold EXCEPT ![c] = "confirmed"]
    <3>1. /\ \A d \in Call \ {c} : answer'[d] = answer[d]
          /\ answer'[c].tag \in {"ok", "error"}
      BY <1>6 DEF OutcomePersisted, Return, TypeOK
    <3>2. Told(answer[c])' = "confirmed"
      BY <3>1 DEF Told
    <3> QED
      BY <2>1, <3>1, <3>2, TellsOne
  <2>4. UNCHANGED <<landed, restarts, pending, outcome, did>>
    BY <1>6 DEF OutcomePersisted
  <2> QED
    BY <1>t, <1>x, <2>2, <2>3, <2>4 DEF Abstract!Tell
<1>7. ASSUME NEW c \in Call, Invoke(c) PROVE Abstract!Do(c)
  <2>1. Landed(pending[c]) /\ did[c] = "not_invoked" /\ answer[c].tag = "none"
    BY <1>7 DEF Invoke, BrceInv, CallInv
  <2>2. <<c, "intent">> \in AbsRecorded
    BY <1>r, <2>1 DEF Intents
  <2>3. AbsTold[c] = "nothing" /\ c \notin AbsDone
    BY <2>1 DEF AbsTold, Told, AbsDone
  <2>4. AbsDone' = AbsDone \cup {c}
    BY <1>7 DEF Invoke, AbsDone, TypeOK
  <2>5. UNCHANGED <<landed, restarts, pending, outcome, answer>>
    BY <1>7 DEF Invoke, ledgerVars
  <2> QED
    BY <1>u, <1>x, <2>2, <2>3, <2>4, <2>5 DEF Abstract!Do
<1>8. ASSUME NEW c \in Call, Begin(c) PROVE Abstract!RecordIntent
  <2>1. pending[c] = Nil /\ UNCHANGED <<landed, restarts, outcome, did, answer>>
    BY <1>8 DEF Begin, BrceInv, CallInv
  <2>2. \A r : Landed(r)' <=> Landed(r)
    BY <2>1 DEF Landed
  <2>3. Outcomes' = Outcomes
    BY <2>1, <2>2 DEF Outcomes
  <2>4. Intents \subseteq Intents'
    BY <1>8, <1>n, <2>1, <2>2 DEF Begin, Intents, TypeOK
  <2> QED
    BY <1>2, <2>1, <2>3, <2>4
<1>9. ASSUME NEW c \in Call, Finalize(c) PROVE Abstract!RecordOutcome
  <2>1. outcome[c] = Nil /\ UNCHANGED <<landed, restarts, pending, did, answer>>
    BY <1>9 DEF Finalize, BrceInv, CallInv
  <2>2. \A r : Landed(r)' <=> Landed(r)
    BY <2>1 DEF Landed
  <2>3. Intents' = Intents
    BY <2>1, <2>2 DEF Intents
  <2>4. Outcomes \subseteq Outcomes'
    BY <1>9, <1>n, <2>1, <2>2 DEF Finalize, Outcomes, TypeOK
  <2> QED
    BY <1>3, <2>1, <2>3, <2>4
<1>10. ASSUME NEW m \in inflight, HandlePut(m)
       PROVE  Abstract!RecordIntent \/ Abstract!RecordOutcome
  <2>1. m.receipt \in PendingReceipt \cup OutcomeReceipt
    BY DEF TypeOK, Receipt
  <2>2. UNCHANGED <<pending, outcome, did, answer>>
    BY <1>10 DEF HandlePut, callVars
  <2>3. \A r : Landed(r)' <=> Landed(r) \/ r = m.receipt
    BY <1>0, <1>10 DEF HandlePut, Landed
  <2>4. Intents \subseteq Intents' /\ Outcomes \subseteq Outcomes'
    BY <2>2, <2>3 DEF Intents, Outcomes
  <2>5. CASE m.receipt \in PendingReceipt
    <3>1. \A c \in Call : outcome[c] # m.receipt
      BY <2>5, NilAssumption DEF TypeOK, Receipt, PendingReceipt, OutcomeReceipt
    <3>2. Outcomes' = Outcomes
      BY <2>2, <2>3, <3>1 DEF Outcomes
    <3> QED
      BY <1>2, <2>2, <2>4, <3>2
  <2>6. CASE m.receipt \in OutcomeReceipt
    <3>1. \A c \in Call : pending[c] # m.receipt
      BY <2>6, NilAssumption DEF TypeOK, Receipt, PendingReceipt, OutcomeReceipt
    <3>2. Intents' = Intents
      BY <2>2, <2>3, <3>1 DEF Intents
    <3> QED
      BY <1>3, <2>2, <2>4, <3>2
  <2> QED
    BY <2>1, <2>5, <2>6
<1>11. ASSUME NEW c \in Call, BeginRaises(c) \/ PendingPersisted(c) \/ Kill(c)
       PROVE  UNCHANGED <<AbsRecorded, AbsDone, AbsTold>>
  BY <1>1, <1>11 DEF BeginRaises, PendingPersisted, Kill, ledgerVars
<1>12. ASSUME Tick \/ LedgerDies \/ LedgerRestarts \/ (\E m \in inflight : RejectPut(m))
              \/ UNCHANGED vars
       PROVE  UNCHANGED <<AbsRecorded, AbsDone, AbsTold>>
  <2>1. UNCHANGED callVars
    BY <1>12 DEF Tick, LedgerDies, LedgerRestarts, RejectPut, vars, callVars
  <2>2. UNCHANGED <<landed, restarts>> \/ LedgerDies
    BY <1>12 DEF Tick, LedgerRestarts, RejectPut, vars, ledgerVars
  <2> QED
    BY <1>1, <2>1, <2>2 DEF callVars
<1>13. ASSUME NEW c \in Call, CallerStep(c)
       PROVE  Abstract!DoNext \/ UNCHANGED <<AbsRecorded, AbsDone, AbsTold>>
  BY <1>4, <1>5, <1>6, <1>7, <1>8, <1>9, <1>11, <1>13 DEF CallerStep
<1> QED
  BY <1>10, <1>11, <1>12, <1>13 DEF Next, LedgerStep

(* The boundary with its ledger, messages, timeouts, killed callers and      *)
(* restarts implements the contract of a receipted DO (evidence.ex:265-381). *)
THEOREM BrceImplementsReceiptedDo == Spec => ImplementsReceiptedDo
<1>1. Init => Abstract!DoInit
  BY NilAssumption DEF Init, Abstract!DoInit, AbsRecorded, AbsDone, AbsTold, Told, Landed,
                       NoAnswer, Refused
<1>2. TypeOK /\ BrceInv /\ (TypeOK /\ BrceInv)' /\ [Next]_vars
        => [Abstract!DoNext]_(Abstract!doVars)
  BY RefineStep
<1> QED
  BY <1>1, <1>2, BrceInvariant, PTL DEF Spec, ImplementsReceiptedDo, Abstract!DoSpec
=============================================================================
