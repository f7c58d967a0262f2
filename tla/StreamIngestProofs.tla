------------------------- MODULE StreamIngestProofs -------------------------
(***************************************************************************)
(* What ingestion leaves behind is backed by what the miner was given, and  *)
(* content is folded twice only for one of the reasons in excused, for any  *)
(* number of producers, envelopes, faults and resets.                       *)
(*                                                                          *)
(* Mail says what waits in the miner's mailbox; Backed counts, per subject, *)
(* the producers that still have to use the batch they had folded; Single   *)
(* follows a subject nothing has excused from its check to its receipt.     *)
(*                                                                          *)
(* Tables says that the miner's tables are those of the history of events:  *)
(* one event keeps them so, table by table, hence a batch does (induction   *)
(* over its length), hence every step of the system.                        *)
(***************************************************************************)
EXTENDS StreamIngest, FiniteSetTheorems, TLAPS

Message == [kind : {"ingest"}, subject : Subject, from : Ingester, call : Nat] \cup [kind : {"reset"}]

(* The message of a call that is not over is about what that call carries.   *)
Mail ==
  /\ box \in Seq(Message)
  /\ \A k \in DOMAIN box : box[k].kind = "ingest" =>
       /\ box[k].call <= calls[box[k].from]
       /\ box[k].call = calls[box[k].from] => box[k].subject = subj(box[k].from)

(* Producers whose batch was dealt with, and has no receipt, no broadcast.   *)
Receipting(s) == {i \in Ingester : pc[i] \in {"pending", "outcome"} /\ subj(i) = s}
Telling(s) == {i \in Ingester : pc[i] \in {"pending", "outcome", "broadcast"} /\ subj(i) = s}

(* Outcome receipts of a subject, those on their way included. *)
Booked(s) == outcomes[s] + late[s]

Backed ==
  \A s \in Subject :
    /\ Booked(s) + Cardinality(Receipting(s)) <= mined[s] + skipped[s]
    /\ broadcasts[s] + Cardinality(Telling(s)) <= mined[s] + skipped[s]

Answered ==
  \A i \in Ingester : answer[i] \in {"ingested", "duplicate"} => mined[subj(i)] + skipped[subj(i)] > 0

(* A subject nothing has excused: its one message is its waiting producer's, *)
Letter(k, s) == box[k].kind = "ingest" /\ box[k].subject = s

Posted(s) ==
  \A k \in DOMAIN box : Letter(k, s) => Waits(box[k]) /\ \A l \in DOMAIN box : Letter(l, s) => l = k

(* it has one producer on its way at most, without a receipt before the end, *)
(* and one fold at most, whose producer brings the receipt.                  *)
OneWay(s) ==
  /\ \A i, j \in InFlight(s) : i = j
  /\ InFlight(s) # {} => outcomes[s] = 0
  /\ mined[s] <= 1
  /\ mined[s] = 1 => outcomes[s] > 0 \/ Receipting(s) # {}

Underway == {"forward", "mining", "pending", "outcome"}

Single ==
  /\ \A i \in Ingester : pc[i] \in Underway /\ storePid[i] = 0 => subj(i) \in excused
  /\ \A s \in Subject \ excused : Posted(s) /\ OneWay(s)

(* A put whose caller is gone is of a subject that excused. *)
LatesExcused == \A s \in Subject : late[s] > 0 => s \in excused

StreamInv == TypeOK /\ Mail /\ Backed /\ Answered /\ Single /\ LatesExcused

-----------------------------------------------------------------------------

(* The facts about constants that the steps use. *)
LEMMA StreamConstants ==
  /\ IsFiniteSet(Ingester) /\ \A s \in Subject : EventsOf[s] \in Seq(Event)
  /\ \A e \in Envelope : e.subject \in Subject
  /\ (CHOOSE e \in Envelope : TRUE) \in Envelope
  /\ \A i \in Ingester : MaxCalls[i] \in Nat
  /\ MaxFaults \in Nat /\ MaxResets \in Nat
<1>1. \A e \in Envelope : e.subject \in Subject
  BY StreamIngestAssumption
<1>2. (CHOOSE e \in Envelope : TRUE) \in Envelope
  BY StreamIngestAssumption
<1> QED
  BY <1>1, <1>2, StreamIngestAssumption

LEMMA Carried == ASSUME TypeOK, NEW i \in Ingester PROVE subj(i) \in Subject /\ env[i] \in Envelope
BY StreamConstants DEF TypeOK, subj

(* Counting producers. *)
LEMMA CountShrinks ==
  ASSUME NEW S \in SUBSET Ingester, NEW T, T \subseteq S
  PROVE  /\ Cardinality(S) \in Nat /\ Cardinality(T) \in Nat /\ Cardinality(T) <= Cardinality(S)
         /\ \A x \in S \ T : Cardinality(T) + 1 <= Cardinality(S)
<1>1. IsFiniteSet(S) /\ IsFiniteSet(T)
  BY StreamConstants, FS_Subset
<1>2. Cardinality(S) \in Nat /\ Cardinality(T) \in Nat /\ Cardinality(T) <= Cardinality(S)
  BY <1>1, FS_Subset, FS_CardinalityType
<1>3. ASSUME NEW x \in S \ T PROVE Cardinality(T) + 1 <= Cardinality(S)
  <2>1. IsFiniteSet(T \cup {x}) /\ Cardinality(T \cup {x}) = Cardinality(T) + 1
    BY <1>1, FS_AddElement
  <2>2. T \cup {x} \subseteq S
    OBVIOUS
  <2>3. Cardinality(T \cup {x}) <= Cardinality(S)
    BY <1>1, <2>2, FS_Subset
  <2> QED
    BY <2>1, <2>3
<1> QED
  BY <1>2, <1>3

LEMMA CountGrows ==
  ASSUME NEW S \in SUBSET Ingester, NEW x \in Ingester, NEW T, T \subseteq S \cup {x}
  PROVE  Cardinality(T) \in Nat /\ Cardinality(S) \in Nat /\ Cardinality(T) <= Cardinality(S) + 1
<1>1. IsFiniteSet(S)
  BY StreamConstants, FS_Subset
<1>2. IsFiniteSet(S \cup {x}) /\ Cardinality(S \cup {x}) <= Cardinality(S) + 1 /\ Cardinality(S) \in Nat
  <2> USE <1>1
  <2>0. Cardinality(S) \in Nat
    BY FS_CardinalityType
  <2>1. CASE x \in S
    <3>1. S \cup {x} = S
      BY <2>1
    <3> QED
      <4>1. Cardinality(S \cup {x}) = Cardinality(S) /\ IsFiniteSet(S \cup {x})
        BY <1>1, <3>1, Zenon
      <4> QED
        BY <2>0, <4>1
  <2>2. CASE x \notin S
    <3>1. IsFiniteSet(S \cup {x}) /\ Cardinality(S \cup {x}) = Cardinality(S) + 1
      BY <2>2, FS_AddElement
    <3> QED
      BY <2>0, <3>1
  <2> QED
    BY <2>0, <2>1, <2>2
<1>3. Cardinality(T) <= Cardinality(S \cup {x}) /\ Cardinality(T) \in Nat /\ Cardinality(S \cup {x}) \in Nat
  BY <1>2, FS_Subset, FS_CardinalityType
<1> QED
  BY <1>2, <1>3

-----------------------------------------------------------------------------
(* Every process keeps the types. *)

Labels == {"idle", "check", "forward", "mining", "pending", "outcome", "broadcast"}
Answers == {"none", "refused", "duplicate", "ingested", "exit"}

LEMMA InitTypes == Init => TypeOK
<1> SUFFICES ASSUME Init PROVE TypeOK
  OBVIOUS
<1>1. pc \in [Ingester -> Labels] /\ env \in [Ingester -> Envelope] /\ storePid \in [Ingester -> 0 .. storeGen]
  BY StreamConstants DEF Init, Labels
<1>2. /\ answer \in [Ingester -> Answers] /\ calls \in [Ingester -> Nat]
      /\ \A i \in Ingester : calls[i] <= MaxCalls[i]
  BY StreamConstants DEF Init, Answers
<1>3. \A f \in {pending, outcomes, late, broadcasts, mined, skipped} : f \in [Subject -> Nat]
  BY DEF Init, Zero
<1>4. log \in Seq(Event) /\ excused \subseteq Subject /\ minerUp \in BOOLEAN /\ storeUp \in BOOLEAN
  BY DEF Init
<1>5. faults \in 0 .. MaxFaults /\ resets \in 0 .. MaxResets /\ storeGen \in Nat \ {0}
  BY StreamConstants DEF Init
<1> QED
  BY <1>1, <1>2, <1>3, <1>4, <1>5 DEF TypeOK, Labels, Answers

LEMMA FaultTypes == TypeOK /\ Fault => faults' \in 0 .. MaxFaults
BY StreamConstants DEF TypeOK, Fault

LEMMA ReturnTypes ==
  ASSUME TypeOK, NEW i \in Ingester, NEW result \in Answers, Return(i, result)
  PROVE  pc' \in [Ingester -> Labels] /\ answer' \in [Ingester -> Answers]
BY DEF TypeOK, Return, Goto, Labels, Answers

LEMMA GotoTypes ==
  ASSUME TypeOK, NEW i \in Ingester, NEW label \in Labels, Goto(i, label)
  PROVE  pc' \in [Ingester -> Labels]
BY DEF TypeOK, Goto, Labels

(* A count of a subject goes up. *)
LEMMA CountTypes ==
  ASSUME NEW f \in [Subject -> Nat], NEW s \in Subject
  PROVE  [f EXCEPT ![s] = @ + 1] \in [Subject -> Nat]
OBVIOUS

LEMMA CallTypes ==
  ASSUME TypeOK, NEW i \in Ingester, Call(i)
  PROVE  TypeOK'
<1> USE DEF bounds, minerVars, storeVars
<1>1. PICK e \in Envelope :
        /\ env' = [env EXCEPT ![i] = e]
        /\ IF e.sequence < 0 THEN Return(i, "refused")
           ELSE Goto(i, "check") /\ answer' = [answer EXCEPT ![i] = "none"]
  BY DEF Call
<1>2. pc' \in [Ingester -> Labels] /\ answer' \in [Ingester -> Answers] /\ env' \in [Ingester -> Envelope]
  <2>1. env' \in [Ingester -> Envelope]
    BY <1>1 DEF TypeOK
  <2>2. CASE Return(i, "refused")
    BY <2>1, <2>2, ReturnTypes DEF Answers
  <2>3. CASE Goto(i, "check") /\ answer' = [answer EXCEPT ![i] = "none"]
    BY <2>1, <2>3, GotoTypes DEF TypeOK, Answers, Labels
  <2> QED
    BY <1>1, <2>2, <2>3
<1>3. storePid' \in [Ingester -> 0 .. storeGen'] /\ storeGen' \in Nat \ {0}
  BY DEF Call, TypeOK
<1>4. calls' \in [Ingester -> Nat] /\ \A j \in Ingester : calls'[j] <= MaxCalls[j]
  BY StreamConstants DEF Call, TypeOK
<1> QED
  BY <1>2, <1>3, <1>4 DEF Call, TypeOK, Labels, Answers

LEMMA ProducerTypes ==
  ASSUME TypeOK, NEW i \in Ingester, IngestStep(i) \/ GiveUp(i)
  PROVE  TypeOK'
<1> USE DEF bounds, minerVars, storeVars
<1> DEFINE Rest == /\ env' \in [Ingester -> Envelope] /\ storeGen' \in Nat \ {0} /\ storePid' \in [Ingester -> 0 .. storeGen']
                   /\ calls' \in [Ingester -> Nat] /\ (\A j \in Ingester : calls'[j] <= MaxCalls[j])
                   /\ minerUp' \in BOOLEAN /\ storeUp' \in BOOLEAN /\ log' \in Seq(Event) /\ resets' \in 0 .. MaxResets
           Moved == pc' \in [Ingester -> Labels] /\ answer' \in [Ingester -> Answers]
           Counted == \A f \in {pending', outcomes', late', broadcasts', mined', skipped'} : f \in [Subject -> Nat]
           Marked == excused' \subseteq Subject /\ faults' \in 0 .. MaxFaults
<1>1. Rest
  BY DEF TypeOK, IngestStep, StoreCallExits, FindDuplicate, Forward, PutPending, PutOutcome, SkipReceipts, Broadcast,
         GiveUp
<1>2. subj(i) \in Subject
  BY Carried
<1>3. Moved
  <2>1. answer \in [Ingester -> Answers]
    BY DEF TypeOK, Answers
  <2>2. (\E r \in Answers : Return(i, r)) \/ (\E l \in Labels : Goto(i, l) /\ answer' = answer)
    BY DEF Answers, Labels, AfterSend, IngestStep, StoreCallExits, FindDuplicate, Forward, PutPending, PutOutcome,
           SkipReceipts, Broadcast, GiveUp
  <2> QED
    BY <2>1, <2>2, ReturnTypes, GotoTypes
<1>4. Counted
  <2>1. /\ pending \in [Subject -> Nat] /\ outcomes \in [Subject -> Nat] /\ broadcasts \in [Subject -> Nat]
        /\ mined \in [Subject -> Nat] /\ skipped \in [Subject -> Nat] /\ late \in [Subject -> Nat]
    BY DEF TypeOK
  <2>2. /\ pending' = pending \/ pending' = [pending EXCEPT ![subj(i)] = @ + 1]
        /\ late' = late \/ late' = [late EXCEPT ![subj(i)] = @ + 1]
        /\ outcomes' = outcomes \/ outcomes' = [outcomes EXCEPT ![subj(i)] = @ + 1]
        /\ broadcasts' = broadcasts \/ broadcasts' = [broadcasts EXCEPT ![subj(i)] = @ + 1]
        /\ mined' = mined
        /\ skipped' = skipped \/ skipped' = [skipped EXCEPT ![subj(i)] = @ + 1]
    BY DEF IngestStep, StoreCallExits, FindDuplicate, Forward, PutPending, PutOutcome, SkipReceipts, Broadcast,
           GiveUp
  <2> QED
    BY <1>2, <2>1, <2>2, CountTypes
<1>5. Marked
  <2>1. excused' = excused \/ excused' = excused \cup {subj(i)}
    BY DEF IngestStep, StoreCallExits, FindDuplicate, Forward, PutPending, PutOutcome, SkipReceipts, Broadcast,
           GiveUp
  <2>2. faults' = faults \/ Fault
    BY DEF IngestStep, StoreCallExits, FindDuplicate, Forward, PutPending, PutOutcome, SkipReceipts, Broadcast,
           GiveUp
  <2> QED
    BY <1>2, <2>1, <2>2, FaultTypes DEF TypeOK
<1> QED
  BY <1>1, <1>3, <1>4, <1>5 DEF TypeOK, Labels, Answers

LEMMA OthersTypes ==
  ASSUME TypeOK, Mail, MinerStep \/ AskReset \/ MinerDies \/ MinerStarts \/ StoreDies \/ StoreStarts
  PROVE  TypeOK'
<1> USE DEF bounds, minerVars, storeVars, callVars
<1>1. /\ env' \in [Ingester -> Envelope] /\ calls' \in [Ingester -> Nat]
      /\ \A j \in Ingester : calls'[j] <= MaxCalls[j]
      /\ minerUp' \in BOOLEAN /\ storeUp' \in BOOLEAN
  BY DEF TypeOK, MinerStep, MinerIngests, MinerResets, AskReset, MinerDies, MinerStarts, StoreDies, StoreStarts
<1>2. pc' \in [Ingester -> Labels] /\ answer' \in [Ingester -> Answers]
  <2>1. pc \in [Ingester -> Labels] /\ answer \in [Ingester -> Answers]
    BY DEF TypeOK, Labels, Answers
  <2>2. CASE MinerIngests
    <3>1. answer' = answer /\ (pc' = pc \/ pc' = [pc EXCEPT ![Head(box).from] = "pending"])
      BY <2>2 DEF MinerIngests
    <3> QED
      BY <2>1, <3>1 DEF Labels
  <2>3. CASE MinerDies
    BY <2>1, <2>3 DEF MinerDies, LoseCallers, Labels, Answers
  <2>4. CASE MinerResets \/ AskReset \/ MinerStarts \/ StoreDies \/ StoreStarts
    BY <2>1, <2>4 DEF MinerResets, AskReset, MinerStarts, StoreDies, StoreStarts
  <2> QED
    BY <2>2, <2>3, <2>4 DEF MinerStep
<1>3. storeGen' \in Nat \ {0} /\ storePid' \in [Ingester -> 0 .. storeGen']
  <2>1. storePid' = storePid /\ (storeGen' = storeGen \/ storeGen' = storeGen + 1)
    BY DEF MinerStep, MinerIngests, MinerResets, AskReset, MinerDies, MinerStarts, StoreDies, StoreStarts
  <2>2. storeGen \in Nat \ {0} /\ storePid \in [Ingester -> 0 .. storeGen]
    BY DEF TypeOK
  <2>3. \A g, h \in Nat : g <= h => 0 .. g \subseteq 0 .. h
    OBVIOUS
  <2>4. 0 .. storeGen \subseteq 0 .. storeGen'
    BY <2>1, <2>2, <2>3
  <2> QED
    BY <2>1, <2>2, <2>4
<1>4. faults' \in 0 .. MaxFaults /\ resets' \in 0 .. MaxResets
  <2>1. faults' = faults \/ Fault
    BY DEF MinerStep, MinerIngests, MinerResets, AskReset, MinerDies, MinerStarts, StoreDies, StoreStarts
  <2>2. resets' = resets \/ (resets < MaxResets /\ resets' = resets + 1)
    BY DEF MinerStep, MinerIngests, MinerResets, AskReset, MinerDies, MinerStarts, StoreDies, StoreStarts
  <2> QED
    BY <2>1, <2>2, FaultTypes, StreamConstants DEF TypeOK
<1>5. \A f \in {pending', outcomes', late', broadcasts', mined', skipped'} : f \in [Subject -> Nat]
  <2>1. /\ pending \in [Subject -> Nat] /\ outcomes \in [Subject -> Nat] /\ broadcasts \in [Subject -> Nat]
        /\ mined \in [Subject -> Nat] /\ skipped \in [Subject -> Nat] /\ late \in [Subject -> Nat]
    BY DEF TypeOK
  <2>2. pending' \in [Subject -> Nat] /\ outcomes' \in [Subject -> Nat] /\ late' \in [Subject -> Nat]
    <3>1. Zero \in [Subject -> Nat]
      BY DEF Zero
    <3>2. /\ pending' = pending \/ pending' = Zero
          /\ outcomes' = outcomes \/ outcomes' = Zero
          /\ late' = late \/ late' = Zero
      BY DEF MinerStep, MinerIngests, MinerResets, AskReset, MinerDies, MinerStarts, StoreDies, StoreStarts
    <3> QED
      BY <2>1, <3>1, <3>2
  <2>3. broadcasts' = broadcasts /\ skipped' = skipped
    BY DEF MinerStep, MinerIngests, MinerResets, AskReset, MinerDies, MinerStarts, StoreDies, StoreStarts
  <2>4. mined' \in [Subject -> Nat]
    <3>1. mined' = mined \/ mined' = [mined EXCEPT ![Head(box).subject] = @ + 1]
      BY DEF MinerStep, MinerIngests, MinerResets, AskReset, MinerDies, MinerStarts, StoreDies, StoreStarts
    <3> QED
      BY <2>1, <3>1
  <2> QED
    BY <2>1, <2>2, <2>3, <2>4
<1>6. excused' \subseteq Subject
  <2>1. CASE MinerDies
    BY <2>1, Carried DEF MinerDies, TypeOK
  <2>2. CASE StoreDies
    BY <2>2 DEF StoreDies, TypeOK
  <2>3. CASE MinerStep \/ AskReset \/ MinerStarts \/ StoreStarts
    BY <2>3 DEF TypeOK, MinerStep, MinerIngests, MinerResets, AskReset, MinerStarts, StoreStarts
  <2> QED
    BY <2>1, <2>2, <2>3
<1>7. log' \in Seq(Event)
  <2>1. CASE MinerIngests
    <3>1. Head(box) \in Message
      BY <2>1 DEF MinerIngests, Mail
    <3>2. Head(box).subject \in Subject
      BY <2>1, <3>1 DEF MinerIngests, Message
    <3>3. EventsOf[Head(box).subject] \in Seq(Event) /\ log \in Seq(Event)
      BY <3>2, StreamConstants DEF TypeOK
    <3>4. log' = log \o EventsOf[Head(box).subject]
      BY <2>1 DEF MinerIngests
    <3> QED
      BY <3>3, <3>4
  <2>2. CASE log' = <<>> \/ log' = log
    <3>1. <<>> \in Seq(Event) /\ log \in Seq(Event)
      BY DEF TypeOK
    <3> QED
      BY <2>2, <3>1
  <2> QED
    BY <2>1, <2>2 DEF MinerStep, MinerResets, AskReset, MinerDies, MinerStarts, StoreDies, StoreStarts
<1> QED
  BY <1>1, <1>2, <1>3, <1>4, <1>5, <1>6, <1>7 DEF TypeOK, Labels, Answers

LEMMA LatePutTypes ==
  ASSUME TypeOK, NEW s \in Subject, LatePut(s)
  PROVE  TypeOK'
<1> USE DEF bounds, minerVars, callVars
<1>1. late \in [Subject -> Nat] /\ outcomes \in [Subject -> Nat]
  BY DEF TypeOK
<1>2. late[s] - 1 \in Nat
  BY <1>1 DEF LatePut
<1>3. late' \in [Subject -> Nat] /\ outcomes' \in [Subject -> Nat]
  BY <1>1, <1>2 DEF LatePut
<1>4. /\ pending' \in [Subject -> Nat] /\ broadcasts' \in [Subject -> Nat]
      /\ mined' \in [Subject -> Nat] /\ skipped' \in [Subject -> Nat]
  BY DEF TypeOK, LatePut
<1>5. \A f \in {pending', outcomes', late', broadcasts', mined', skipped'} : f \in [Subject -> Nat]
  BY <1>3, <1>4
<1> QED
  BY <1>5 DEF TypeOK, LatePut

-----------------------------------------------------------------------------
(* The mailbox. *)

(* A prefix of the mailbox is taken away. *)
LEMMA MailTail ==
  ASSUME Mail, box # <<>>
  PROVE  /\ Tail(box) \in Seq(Message) /\ Head(box) \in Message /\ Head(box) = box[1] /\ 1 \in DOMAIN box
         /\ \A k \in DOMAIN Tail(box) : k + 1 \in DOMAIN box /\ Tail(box)[k] = box[k + 1] /\ k + 1 # 1
<1>1. box \in Seq(Message) /\ Len(box) \in Nat /\ Len(box) # 0
  BY DEF Mail
<1>2. /\ Tail(box) \in Seq(Message) /\ Head(box) \in Message /\ Head(box) = box[1] /\ 1 \in DOMAIN box
      /\ Len(Tail(box)) = Len(box) - 1 /\ \A k \in 1 .. Len(box) - 1 : Tail(box)[k] = box[k + 1]
  BY <1>1
<1>3. DOMAIN Tail(box) = 1 .. Len(box) - 1 /\ DOMAIN box = 1 .. Len(box)
  BY <1>1, <1>2
<1> QED
  BY <1>1, <1>2, <1>3

LEMMA MailAppend ==
  ASSUME Mail, NEW m \in Message
  PROVE  /\ Append(box, m) \in Seq(Message)
         /\ DOMAIN Append(box, m) = DOMAIN box \cup {Len(box) + 1} /\ Len(box) + 1 \notin DOMAIN box
         /\ Append(box, m)[Len(box) + 1] = m
         /\ \A k \in DOMAIN box : Append(box, m)[k] = box[k]
<1>1. box \in Seq(Message) /\ Len(box) \in Nat /\ DOMAIN box = 1 .. Len(box)
  BY DEF Mail
<1>2. /\ Append(box, m) \in Seq(Message) /\ Len(Append(box, m)) = Len(box) + 1
      /\ Append(box, m)[Len(box) + 1] = m
      /\ \A k \in 1 .. Len(box) : Append(box, m)[k] = box[k]
  BY <1>1
<1>3. DOMAIN Append(box, m) = 1 .. Len(box) + 1
  BY <1>2
<1> QED
  BY <1>1, <1>2, <1>3

(* What was sent stays about its call while calls only begin. *)
LEMMA MailOn ==
  ASSUME TypeOK, Mail, Next
  PROVE  Mail'
<1> USE DEF bounds, minerVars, storeVars, callVars, vars
<1> DEFINE Sound(m) == m.kind = "ingest" => m.call <= calls[m.from] /\ (m.call = calls[m.from] => m.subject = subj(m.from))
<1>1. \A k \in DOMAIN box : box[k] \in Message
  BY DEF Mail
<1>2. ASSUME UNCHANGED <<calls, env>> PROVE \A m : Sound(m) => Sound(m)'
  BY <1>2 DEF subj
<1>3. ASSUME NEW i \in Ingester, Call(i) PROVE Mail'
  <2>1. box' = box /\ calls' = [calls EXCEPT ![i] = @ + 1] /\ \E e : env' = [env EXCEPT ![i] = e]
    BY <1>3 DEF Call
  <2>2. ASSUME NEW m \in Message, m.kind = "ingest", Sound(m) PROVE Sound(m)'
    <3>1. m.from \in Ingester /\ m.call \in Nat
      BY <2>2 DEF Message
    <3>2. calls \in [Ingester -> Nat] /\ env \in [Ingester -> Envelope]
      BY DEF TypeOK
    <3>3. CASE m.from = i
      <4>1. calls'[i] = calls[i] + 1 /\ calls[i] \in Nat
        BY <2>1, <3>2
      <4>2. m.call <= calls[i]
        BY <2>2, <3>3
      <4> QED
        BY <3>1, <3>3, <4>1, <4>2
    <3>4. CASE m.from # i
      <4>1. calls'[m.from] = calls[m.from] /\ env'[m.from] = env[m.from]
        BY <2>1, <3>1, <3>2, <3>4
      <4> QED
        BY <2>2, <4>1 DEF subj
    <3> QED
      BY <3>3, <3>4
  <2> QED
    BY <1>1, <2>1, <2>2 DEF Mail
<1>4. CASE box' = box /\ UNCHANGED <<calls, env>>
  BY <1>2, <1>4 DEF Mail
<1>5. CASE box' = <<>>
  BY <1>5 DEF Mail
<1>6. CASE box # <<>> /\ box' = Tail(box) /\ UNCHANGED <<calls, env>>
  BY <1>2, <1>6, MailTail DEF Mail
<1>7. ASSUME NEW m \in Message, box' = Append(box, m), UNCHANGED <<calls, env>>, Sound(m) PROVE Mail'
  BY <1>2, <1>7, MailAppend DEF Mail
<1>8. ASSUME NEW i \in Ingester, Forward(i) PROVE Mail'
  <2>1. UNCHANGED <<calls, env>>
    BY <1>8 DEF Forward
  <2>2. CASE box' = box
    BY <1>4, <2>1, <2>2
  <2>3. CASE box' = Append(box, [kind |-> "ingest", subject |-> subj(i), from |-> i, call |-> calls[i]])
    <3>1. [kind |-> "ingest", subject |-> subj(i), from |-> i, call |-> calls[i]] \in Message
      BY Carried DEF Message, TypeOK
    <3>2. calls[i] <= calls[i]
      BY DEF TypeOK
    <3> QED
      BY <1>7, <2>1, <2>3, <3>1, <3>2
  <2> QED
    BY <1>8, <2>2, <2>3 DEF Forward
<1>9. CASE AskReset
  <2>1. [kind |-> "reset"] \in Message /\ [kind |-> "reset"].kind # "ingest"
    BY DEF Message
  <2> QED
    BY <1>7, <1>9, <2>1 DEF AskReset
<1>10. ASSUME NEW i \in Ingester,
              \/ StoreCallExits(i) \/ FindDuplicate(i) \/ PutPending(i) \/ PutOutcome(i) \/ SkipReceipts(i)
              \/ Broadcast(i) \/ GiveUp(i)
       PROVE  Mail'
  BY <1>4, <1>10 DEF StoreCallExits, FindDuplicate, PutPending, PutOutcome, SkipReceipts, Broadcast, GiveUp
<1>11. CASE MinerStep
  BY <1>6, <1>11 DEF MinerStep, MinerIngests, MinerResets
<1>12. CASE MinerDies
  BY <1>5, <1>12 DEF MinerDies
<1>13. CASE (\E s \in Subject : LatePut(s)) \/ MinerStarts \/ StoreDies \/ StoreStarts \/ Done
  BY <1>4, <1>13 DEF LatePut, MinerStarts, StoreDies, StoreStarts, Done
<1> QED
  BY <1>3, <1>8, <1>9, <1>10, <1>11, <1>12, <1>13 DEF Next, IngestStep

-----------------------------------------------------------------------------
(* Receipts and broadcasts are backed. *)

LEMMA CountsAreNat ==
  ASSUME TypeOK, NEW s \in Subject
  PROVE  /\ outcomes[s] \in Nat /\ broadcasts[s] \in Nat /\ mined[s] \in Nat /\ skipped[s] \in Nat
         /\ Booked(s) \in Nat /\ outcomes[s] <= Booked(s)
         /\ Receipting(s) \in SUBSET Ingester /\ Telling(s) \in SUBSET Ingester
         /\ Receipting(s) \subseteq Telling(s)
         /\ Cardinality(Receipting(s)) \in Nat /\ Cardinality(Telling(s)) \in Nat
<1>1. /\ outcomes[s] \in Nat /\ broadcasts[s] \in Nat /\ mined[s] \in Nat /\ skipped[s] \in Nat
      /\ late[s] \in Nat
  BY DEF TypeOK
<1>b. Booked(s) \in Nat /\ outcomes[s] <= Booked(s)
  BY <1>1 DEF Booked
<1>2. /\ Receipting(s) \in SUBSET Ingester /\ Telling(s) \in SUBSET Ingester
      /\ Receipting(s) \subseteq Telling(s)
  BY DEF Receipting, Telling
<1> QED
  BY <1>1, <1>b, <1>2, CountShrinks

(* A step that deals no batch and books nothing. *)
LEMMA BackedOn ==
  ASSUME TypeOK, TypeOK', Backed, UNCHANGED <<mined, skipped, broadcasts>>,
         \A s \in Subject : Booked(s)' <= Booked(s),
         \A s \in Subject : Receipting(s)' \subseteq Receipting(s) /\ Telling(s)' \subseteq Telling(s)
  PROVE  Backed'
<1> SUFFICES ASSUME NEW s \in Subject
             PROVE  /\ Booked(s)' + Cardinality(Receipting(s)') <= mined'[s] + skipped'[s]
                    /\ broadcasts'[s] + Cardinality(Telling(s)') <= mined'[s] + skipped'[s]
  BY DEF Backed, Booked, Receipting, Telling
<1>1. Cardinality(Receipting(s)') \in Nat /\ Cardinality(Receipting(s)') <= Cardinality(Receipting(s))
  BY CountsAreNat, CountShrinks
<1>2. Cardinality(Telling(s)') \in Nat /\ Cardinality(Telling(s)') <= Cardinality(Telling(s))
  BY CountsAreNat, CountShrinks
<1>3. Booked(s)' \in Nat
  <2>1. outcomes'[s] \in Nat /\ late'[s] \in Nat
    BY DEF TypeOK
  <2> QED
    BY <2>1 DEF Booked
<1>4. /\ Booked(s) + Cardinality(Receipting(s)) <= mined[s] + skipped[s]
      /\ broadcasts[s] + Cardinality(Telling(s)) <= mined[s] + skipped[s]
  BY DEF Backed
<1>5. Booked(s)' <= Booked(s) /\ mined'[s] = mined[s] /\ skipped'[s] = skipped[s] /\ broadcasts'[s] = broadcasts[s]
  OBVIOUS
<1> QED
  BY <1>1, <1>2, <1>3, <1>4, <1>5, CountsAreNat

(* A batch is dealt with, and one producer may go on for it. *)
LEMMA BackedDeals ==
  ASSUME TypeOK, Backed, NEW s0 \in Subject, NEW i \in Ingester, UNCHANGED <<outcomes, late, broadcasts>>,
         \A s \in Subject : mined'[s] + skipped'[s] = mined[s] + skipped[s] + (IF s = s0 THEN 1 ELSE 0),
         \A s \in Subject \ {s0} : Receipting(s)' \subseteq Receipting(s) /\ Telling(s)' \subseteq Telling(s),
         Receipting(s0)' \subseteq Receipting(s0) \cup {i}, Telling(s0)' \subseteq Telling(s0) \cup {i}
  PROVE  Backed'
<1> SUFFICES ASSUME NEW s \in Subject
             PROVE  /\ Booked(s)' + Cardinality(Receipting(s)') <= mined'[s] + skipped'[s]
                    /\ broadcasts'[s] + Cardinality(Telling(s)') <= mined'[s] + skipped'[s]
  BY DEF Backed, Booked, Receipting, Telling
<1>1. CASE s = s0
  <2>1. Cardinality(Receipting(s)') \in Nat /\ Cardinality(Receipting(s)') <= Cardinality(Receipting(s)) + 1
    BY <1>1, CountsAreNat, CountGrows
  <2>2. Cardinality(Telling(s)') \in Nat /\ Cardinality(Telling(s)') <= Cardinality(Telling(s)) + 1
    BY <1>1, CountsAreNat, CountGrows
  <2>3. mined'[s] + skipped'[s] = mined[s] + skipped[s] + 1
    BY <1>1
  <2>4. Booked(s)' = Booked(s) /\ broadcasts' = broadcasts
    BY DEF Booked
  <2> QED
    BY <2>1, <2>2, <2>3, <2>4, CountsAreNat DEF Backed
<1>2. CASE s # s0
  <2>1. Cardinality(Receipting(s)') \in Nat /\ Cardinality(Receipting(s)') <= Cardinality(Receipting(s))
    BY <1>2, CountsAreNat, CountShrinks
  <2>2. Cardinality(Telling(s)') \in Nat /\ Cardinality(Telling(s)') <= Cardinality(Telling(s))
    BY <1>2, CountsAreNat, CountShrinks
  <2>3. mined'[s] + skipped'[s] = mined[s] + skipped[s]
    BY <1>2, CountsAreNat
  <2>4. Booked(s)' = Booked(s) /\ broadcasts' = broadcasts
    BY DEF Booked
  <2> QED
    BY <2>1, <2>2, <2>3, <2>4, CountsAreNat DEF Backed
<1> QED
  BY <1>1, <1>2

(* The outcome receipt, put or left with the store, uses up the producer's   *)
(* batch,                                                                    *)
LEMMA BackedReceipt ==
  ASSUME TypeOK, TypeOK', Backed, NEW i \in Ingester, pc[i] = "outcome",
         \/ PutOutcome(i)
         \/ GiveUp(i) /\ late' = [late EXCEPT ![subj(i)] = @ + 1]
  PROVE  Backed'
<1> SUFFICES ASSUME NEW s \in Subject
             PROVE  /\ Booked(s)' + Cardinality(Receipting(s)') <= mined'[s] + skipped'[s]
                    /\ broadcasts'[s] + Cardinality(Telling(s)') <= mined'[s] + skipped'[s]
  BY DEF Backed, Booked, Receipting, Telling
<1>1. /\ UNCHANGED <<env, mined, skipped, broadcasts>>
      /\ \/ pc' = [pc EXCEPT ![i] = "broadcast"]
         \/ pc' = [pc EXCEPT ![i] = "idle"]
      /\ \/ outcomes' = [outcomes EXCEPT ![subj(i)] = @ + 1] /\ late' = late
         \/ late' = [late EXCEPT ![subj(i)] = @ + 1] /\ outcomes' = outcomes
      /\ pc \in [Ingester -> Labels] /\ outcomes \in [Subject -> Nat] /\ late \in [Subject -> Nat]
  BY DEF PutOutcome, GiveUp, Return, Goto, minerVars, TypeOK, Labels
<1>2. Telling(s)' \subseteq Telling(s) /\ Receipting(s)' \subseteq Receipting(s) /\ i \notin Receipting(s)'
  BY <1>1 DEF Telling, Receipting, subj
<1>3. Cardinality(Telling(s)') \in Nat /\ Cardinality(Telling(s)') <= Cardinality(Telling(s))
  BY <1>2, CountsAreNat, CountShrinks
<1>4. CASE s = subj(i)
  <2>1. i \in Receipting(s) \ Receipting(s)'
    BY <1>1, <1>2, <1>4 DEF Receipting
  <2>2. Cardinality(Receipting(s)') \in Nat /\ Cardinality(Receipting(s)') + 1 <= Cardinality(Receipting(s))
    BY <1>2, <2>1, CountsAreNat, CountShrinks
  <2>3. Booked(s)' = Booked(s) + 1
    BY <1>1, <1>4 DEF Booked
  <2> QED
    BY <1>1, <1>3, <2>2, <2>3, CountsAreNat DEF Backed
<1>5. CASE s # subj(i)
  <2>1. Booked(s)' = Booked(s)
    BY <1>1, <1>5 DEF Booked
  <2>2. Cardinality(Receipting(s)') \in Nat /\ Cardinality(Receipting(s)') <= Cardinality(Receipting(s))
    BY <1>2, CountsAreNat, CountShrinks
  <2> QED
    BY <1>1, <1>3, <2>1, <2>2, CountsAreNat DEF Backed
<1> QED
  BY <1>4, <1>5

(* ... and so does its broadcast. *)
LEMMA BackedBroadcast ==
  ASSUME TypeOK, TypeOK', Backed, NEW i \in Ingester, Broadcast(i)
  PROVE  Backed'
<1> SUFFICES ASSUME NEW s \in Subject
             PROVE  /\ Booked(s)' + Cardinality(Receipting(s)') <= mined'[s] + skipped'[s]
                    /\ broadcasts'[s] + Cardinality(Telling(s)') <= mined'[s] + skipped'[s]
  BY DEF Backed, Booked, Receipting, Telling
<1>1. /\ UNCHANGED <<env, mined, skipped, outcomes, late>> /\ pc[i] = "broadcast" /\ pc' = [pc EXCEPT ![i] = "idle"]
      /\ broadcasts' = broadcasts \/ broadcasts' = [broadcasts EXCEPT ![subj(i)] = @ + 1]
      /\ pc \in [Ingester -> Labels] /\ broadcasts \in [Subject -> Nat]
  BY DEF Broadcast, Return, Goto, minerVars, storeVars, TypeOK, Labels
<1>2. Telling(s)' \subseteq Telling(s) /\ Receipting(s)' \subseteq Receipting(s) /\ i \notin Telling(s)'
  BY <1>1 DEF Telling, Receipting, subj
<1>3. Cardinality(Receipting(s)') \in Nat /\ Cardinality(Receipting(s)') <= Cardinality(Receipting(s))
  BY <1>2, CountsAreNat, CountShrinks
<1>4. CASE s = subj(i)
  <2>1. i \in Telling(s) \ Telling(s)'
    BY <1>1, <1>2, <1>4 DEF Telling
  <2>2. Cardinality(Telling(s)') \in Nat /\ Cardinality(Telling(s)') + 1 <= Cardinality(Telling(s))
    BY <1>2, <2>1, CountsAreNat, CountShrinks
  <2>3. broadcasts'[s] = broadcasts[s] \/ broadcasts'[s] = broadcasts[s] + 1
    BY <1>1, <1>4
  <2>4. /\ Booked(s) \in Nat /\ broadcasts[s] \in Nat /\ mined[s] \in Nat /\ skipped[s] \in Nat
        /\ Cardinality(Receipting(s)) \in Nat /\ Cardinality(Telling(s)) \in Nat
    BY CountsAreNat
  <2>5. /\ Booked(s) + Cardinality(Receipting(s)) <= mined[s] + skipped[s]
        /\ broadcasts[s] + Cardinality(Telling(s)) <= mined[s] + skipped[s]
    BY DEF Backed
  <2>6. mined'[s] = mined[s] /\ skipped'[s] = skipped[s] /\ Booked(s)' = Booked(s)
    BY <1>1 DEF Booked
  <2> QED
    BY <1>3, <2>2, <2>3, <2>4, <2>5, <2>6
<1>5. CASE s # subj(i)
  <2>1. broadcasts'[s] = broadcasts[s]
    BY <1>1, <1>5
  <2>2. Cardinality(Telling(s)') \in Nat /\ Cardinality(Telling(s)') <= Cardinality(Telling(s))
    BY <1>2, CountsAreNat, CountShrinks
  <2>3. mined'[s] = mined[s] /\ skipped'[s] = skipped[s] /\ Booked(s)' = Booked(s)
    BY <1>1 DEF Booked
  <2>4. /\ Booked(s) + Cardinality(Receipting(s)) <= mined[s] + skipped[s]
        /\ broadcasts[s] + Cardinality(Telling(s)) <= mined[s] + skipped[s]
    BY DEF Backed
  <2> QED
    BY <1>3, <2>1, <2>2, <2>3, <2>4, CountsAreNat
<1> QED
  BY <1>4, <1>5

LEMMA BackedProducer ==
  ASSUME TypeOK, TypeOK', Backed, NEW i \in Ingester, Call(i) \/ IngestStep(i) \/ GiveUp(i)
  PROVE  Backed'
<1> USE DEF bounds, minerVars, storeVars
<1>0. /\ pc \in [Ingester -> Labels] /\ skipped \in [Subject -> Nat]
      /\ UNCHANGED <<outcomes, late>> => \A s \in Subject : Booked(s)' <= Booked(s)
  <2>1. \A s \in Subject : Booked(s) \in Nat
    BY CountsAreNat
  <2>2. UNCHANGED <<outcomes, late>> => \A s \in Subject : Booked(s)' <= Booked(s)
    BY <2>1 DEF Booked
  <2>3. pc \in [Ingester -> Labels]
    BY DEF TypeOK, Labels
  <2>4. skipped \in [Subject -> Nat]
    BY DEF TypeOK
  <2> QED
    BY <2>2, <2>3, <2>4
<1>1. CASE Call(i)
  <2>1. /\ UNCHANGED <<mined, skipped, broadcasts, outcomes, late>> /\ pc[i] = "idle"
        /\ pc' = [pc EXCEPT ![i] = "idle"] \/ pc' = [pc EXCEPT ![i] = "check"]
        /\ \E e : env' = [env EXCEPT ![i] = e]
    BY <1>1 DEF Call, Return, Goto
  <2>2. \A s \in Subject : Receipting(s)' \subseteq Receipting(s) /\ Telling(s)' \subseteq Telling(s)
    BY <1>0, <2>1 DEF Receipting, Telling, subj
  <2> QED
    BY <1>0, <2>1, <2>2, BackedOn
<1>6. CASE GiveUp(i) /\ late' # late
  <2>1. pc[i] = "outcome" /\ late' = [late EXCEPT ![subj(i)] = @ + 1]
    BY <1>6 DEF GiveUp
  <2> QED
    BY <1>6, <2>1, BackedReceipt
<1>2. CASE \/ StoreCallExits(i) \/ FindDuplicate(i) \/ PutPending(i) \/ SkipReceipts(i)
           \/ GiveUp(i) /\ late' = late
  <2>1. /\ UNCHANGED <<mined, skipped, broadcasts, outcomes, late, env>>
        /\ \/ pc' = [pc EXCEPT ![i] = "idle"] \/ pc' = [pc EXCEPT ![i] = "forward"]
           \/ pc[i] = "pending" /\ pc' = [pc EXCEPT ![i] = "outcome"]
           \/ pc[i] = "pending" /\ pc' = [pc EXCEPT ![i] = "broadcast"]
    BY <1>2 DEF StoreCallExits, FindDuplicate, PutPending, SkipReceipts, GiveUp, Return, Goto
  <2>2. \A s \in Subject : Receipting(s)' \subseteq Receipting(s) /\ Telling(s)' \subseteq Telling(s)
    BY <1>0, <2>1 DEF Receipting, Telling, subj
  <2> QED
    BY <1>0, <2>1, <2>2, BackedOn
<1>3. CASE Forward(i)
  <2>1. UNCHANGED <<mined, broadcasts, outcomes, late, env>>
    BY <1>3 DEF Forward
  <2>2. CASE minerUp
    <3>1. pc' = [pc EXCEPT ![i] = "mining"] /\ skipped' = skipped
      BY <1>3, <2>2 DEF Forward, Goto, AfterSend
    <3>2. \A s \in Subject : Receipting(s)' \subseteq Receipting(s) /\ Telling(s)' \subseteq Telling(s)
      BY <1>0, <2>1, <3>1 DEF Receipting, Telling, subj
    <3> QED
      BY <1>0, <2>1, <3>1, <3>2, BackedOn
  <2>3. CASE ~minerUp
    <3>1. pc' = [pc EXCEPT ![i] = "pending"] /\ skipped' = [skipped EXCEPT ![subj(i)] = @ + 1]
      BY <1>3, <2>3 DEF Forward, Goto
    <3>2. /\ \A s \in Subject \ {subj(i)} : Receipting(s)' \subseteq Receipting(s) /\ Telling(s)' \subseteq Telling(s)
          /\ Receipting(subj(i))' \subseteq Receipting(subj(i)) \cup {i}
          /\ Telling(subj(i))' \subseteq Telling(subj(i)) \cup {i}
      BY <1>0, <2>1, <3>1 DEF Receipting, Telling, subj
    <3>3. \A s \in Subject : mined'[s] + skipped'[s] = mined[s] + skipped[s] + (IF s = subj(i) THEN 1 ELSE 0)
      BY <1>0, <2>1, <3>1, CountsAreNat
    <3>4. subj(i)' = subj(i)
      BY <2>1 DEF subj
    <3> QED
      BY <2>1, <3>2, <3>3, <3>4, Carried, BackedDeals
  <2> QED
    BY <2>2, <2>3
<1>4. CASE PutOutcome(i)
  <2>1. pc[i] = "outcome"
    BY <1>4 DEF PutOutcome
  <2> QED
    BY <1>4, <2>1, BackedReceipt
<1>5. CASE Broadcast(i)
  BY <1>5, BackedBroadcast
<1> QED
  BY <1>1, <1>2, <1>3, <1>4, <1>5, <1>6 DEF IngestStep

LEMMA BackedOthers ==
  ASSUME TypeOK, TypeOK', Mail, Backed,
         \/ MinerStep \/ AskReset \/ MinerDies \/ MinerStarts \/ StoreDies \/ StoreStarts
         \/ \E s \in Subject : LatePut(s)
  PROVE  Backed'
<1> USE DEF bounds, minerVars, storeVars, callVars
<1>0. /\ pc \in [Ingester -> Labels] /\ mined \in [Subject -> Nat]
      /\ outcomes \in [Subject -> Nat] /\ late \in [Subject -> Nat]
  BY DEF TypeOK, Labels
<1>1. CASE MinerIngests
  <2> DEFINE m == Head(box)
  <2>1. /\ UNCHANGED <<env, skipped, outcomes, late, broadcasts>> /\ mined' = [mined EXCEPT ![m.subject] = @ + 1]
        /\ pc' = IF Waits(m) THEN [pc EXCEPT ![m.from] = "pending"] ELSE pc
    BY <1>1 DEF MinerIngests
  <2>2. /\ m.subject \in Subject /\ m.from \in Ingester
        /\ Waits(m) => m.subject = subj(m.from)
    <3>1. m \in Message /\ m = box[1] /\ 1 \in DOMAIN box /\ m.kind = "ingest"
      BY <1>1, MailTail DEF MinerIngests
    <3> QED
      BY <3>1 DEF Mail, Message, Waits
  <2> HIDE DEF m
  <2>3. PICK s0 \in Subject, i0 \in Ingester : s0 = m.subject /\ i0 = m.from
    BY <2>2
  <2>4. \A j \in Ingester : j # i0 => pc'[j] = pc[j]
    BY <1>0, <2>1, <2>3
  <2>5. env' = env /\ (subj(i0) = s0 \/ pc'[i0] = pc[i0])
    BY <2>1, <2>2, <2>3
  <2>6. \A s \in Subject \ {s0} : Receipting(s)' \subseteq Receipting(s) /\ Telling(s)' \subseteq Telling(s)
    BY <2>4, <2>5 DEF Receipting, Telling, subj
  <2>7. Receipting(s0)' \subseteq Receipting(s0) \cup {i0} /\ Telling(s0)' \subseteq Telling(s0) \cup {i0}
    BY <2>4, <2>5 DEF Receipting, Telling, subj
  <2>8. \A s \in Subject : mined'[s] + skipped'[s] = mined[s] + skipped[s] + (IF s = s0 THEN 1 ELSE 0)
    BY <1>0, <2>1, <2>2, <2>3, CountsAreNat
  <2> QED
    BY <2>1, <2>6, <2>7, <2>8, BackedDeals
<1>2. CASE MinerDies
  <2>1. /\ UNCHANGED <<env, mined, skipped, outcomes, late, broadcasts>>
        /\ pc' = [i \in Ingester |-> IF i \in {j \in Ingester : pc[j] = "mining"} THEN "idle" ELSE pc[i]]
    BY <1>2 DEF MinerDies, LoseCallers
  <2>2. \A s \in Subject : Receipting(s)' \subseteq Receipting(s) /\ Telling(s)' \subseteq Telling(s)
    BY <2>1 DEF Receipting, Telling, subj
  <2>3. \A s \in Subject : Booked(s)' <= Booked(s)
    BY <1>0, <2>1 DEF Booked
  <2> QED
    BY <2>1, <2>2, <2>3, BackedOn
<1>3. CASE \/ MinerResets \/ AskReset \/ MinerStarts \/ StoreDies \/ StoreStarts
           \/ \E s \in Subject : LatePut(s)
  <2>1. UNCHANGED <<env, pc, mined, skipped, broadcasts>>
    BY <1>3 DEF MinerResets, AskReset, MinerStarts, StoreDies, StoreStarts, LatePut
  <2>b. \/ (outcomes' = outcomes \/ outcomes' = Zero) /\ (late' = late \/ late' = Zero)
        \/ \E s0 \in Subject : /\ late' = [late EXCEPT ![s0] = @ - 1]
                                /\ outcomes' = [outcomes EXCEPT ![s0] = @ + 1]
    BY <1>3 DEF MinerResets, AskReset, MinerStarts, StoreDies, StoreStarts, LatePut
  <2>2. \A s \in Subject : Booked(s)' <= Booked(s)
    <3>1. CASE (outcomes' = outcomes \/ outcomes' = Zero) /\ (late' = late \/ late' = Zero)
      BY <1>0, <3>1 DEF Zero, Booked
    <3>2. ASSUME NEW s0 \in Subject, late' = [late EXCEPT ![s0] = @ - 1],
                 outcomes' = [outcomes EXCEPT ![s0] = @ + 1], NEW s \in Subject
          PROVE  Booked(s)' <= Booked(s)
      <4>1. outcomes[s] \in Nat /\ late[s] \in Nat
        BY <1>0
      <4>2. CASE s = s0
        <5>1. outcomes'[s] = outcomes[s] + 1 /\ late'[s] = late[s] - 1
          BY <1>0, <3>2, <4>2
        <5> QED
          BY <4>1, <5>1 DEF Booked
      <4>3. CASE s # s0
        <5>1. outcomes'[s] = outcomes[s] /\ late'[s] = late[s]
          BY <1>0, <3>2, <4>3
        <5> QED
          BY <4>1, <5>1 DEF Booked
      <4> QED
        BY <4>2, <4>3
    <3> QED
      BY <2>b, <3>1, <3>2
  <2>3. \A s \in Subject : Receipting(s)' \subseteq Receipting(s) /\ Telling(s)' \subseteq Telling(s)
    BY <2>1 DEF Receipting, Telling, subj
  <2> QED
    BY <2>1, <2>2, <2>3, BackedOn
<1> QED
  BY <1>1, <1>2, <1>3 DEF MinerStep

(* Nobody is told that content was ingested before it was dealt with. *)
LEMMA AnsweredStep ==
  ASSUME TypeOK, TypeOK', Mail, Backed, Answered, Next
  PROVE  Answered'
<1> USE DEF bounds, minerVars, storeVars, callVars
<1> DEFINE Told == {"ingested", "duplicate"}
<1>0. /\ answer \in [Ingester -> Answers] /\ \A i \in Ingester : subj(i) \in Subject
      /\ \A s \in Subject : mined[s] \in Nat /\ skipped[s] \in Nat
  BY Carried, CountsAreNat DEF TypeOK, Answers
<1>1. \A s \in Subject : mined'[s] + skipped'[s] >= mined[s] + skipped[s] /\ mined'[s] + skipped'[s] \in Nat
  <2>1. mined \in [Subject -> Nat] /\ skipped \in [Subject -> Nat]
    BY DEF TypeOK
  <2>2. /\ mined' = mined \/ \E s \in Subject : mined' = [mined EXCEPT ![s] = @ + 1]
        /\ skipped' = skipped \/ \E s \in Subject : skipped' = [skipped EXCEPT ![s] = @ + 1]
    <3>1. CASE MinerIngests
      <4>1. Head(box).subject \in Subject
        BY <3>1, MailTail DEF MinerIngests, Message
      <4> QED
        BY <3>1, <4>1 DEF MinerIngests
    <3>2. ASSUME NEW i \in Ingester, Forward(i)
          PROVE  mined' = mined /\ (skipped' = skipped \/ \E s \in Subject : skipped' = [skipped EXCEPT ![s] = @ + 1])
      BY <3>2, <1>0 DEF Forward
    <3>3. CASE ~MinerIngests /\ \A i \in Ingester : ~Forward(i)
      <4>1. mined' = mined /\ skipped' = skipped
        BY <3>3 DEF Next, IngestStep, MinerStep, Call, StoreCallExits, FindDuplicate, PutPending, PutOutcome, SkipReceipts,
                    Broadcast, GiveUp, LatePut, MinerResets, AskReset, MinerDies, MinerStarts, StoreDies, StoreStarts,
                    Done, vars
      <4> QED
        BY <4>1
    <3> QED
      BY <3>1, <3>2, <3>3
  <2> QED
    BY <2>1, <2>2
<1>2. ASSUME NEW i \in Ingester, answer'[i] \in Told, answer'[i] = answer[i], env'[i] = env[i]
      PROVE  mined'[subj(i)'] + skipped'[subj(i)'] > 0
  <2>1. subj(i)' = subj(i) /\ mined[subj(i)] + skipped[subj(i)] > 0
    BY <1>2 DEF subj, Answered
  <2>2. subj(i) \in Subject
    BY <1>0
  <2> QED
    BY <1>0, <1>1, <2>1, <2>2
<1>3. ASSUME NEW j \in Ingester, Call(j) PROVE Answered'
  <2>1. /\ \E e : env' = [env EXCEPT ![j] = e]
        /\ answer' = [answer EXCEPT ![j] = "refused"] \/ answer' = [answer EXCEPT ![j] = "none"]
    BY <1>3 DEF Call, Return
  <2>2. /\ answer'[j] \notin Told
        /\ \A i \in Ingester : i # j => answer'[i] = answer[i] /\ env'[i] = env[i]
    BY <1>0, <2>1 DEF TypeOK
  <2> QED
    BY <1>2, <2>2 DEF Answered, subj
<1>4. ASSUME NEW j \in Ingester, IngestStep(j) \/ GiveUp(j) PROVE Answered'
  <2>1. env' = env
    BY <1>4 DEF IngestStep, StoreCallExits, FindDuplicate, Forward, PutPending, PutOutcome, SkipReceipts, Broadcast,
                GiveUp
  <2>2. \/ answer' = answer \/ answer' = [answer EXCEPT ![j] = "exit"]
        \/ FindDuplicate(j) /\ Receipted(subj(j)) /\ answer' = [answer EXCEPT ![j] = "duplicate"]
        \/ Broadcast(j) /\ answer' = [answer EXCEPT ![j] = "ingested"]
    BY <1>4 DEF IngestStep, StoreCallExits, FindDuplicate, Forward, PutPending, PutOutcome, SkipReceipts, Broadcast,
                GiveUp, Return
  <2>3. \A i \in Ingester : i # j => answer'[i] = answer[i] /\ env'[i] = env[i]
    BY <1>0, <2>1, <2>2
  <2>4. answer'[j] \in Told => answer'[j] = answer[j] \/ (mined[subj(j)] + skipped[subj(j)] > 0)
    <3>1. Booked(subj(j)) + Cardinality(Receipting(subj(j))) <= mined[subj(j)] + skipped[subj(j)]
      BY <1>0 DEF Backed
    <3>2. broadcasts[subj(j)] + Cardinality(Telling(subj(j))) <= mined[subj(j)] + skipped[subj(j)]
      BY <1>0 DEF Backed
    <3>3. CASE FindDuplicate(j) /\ Receipted(subj(j))
      BY <1>0, <3>1, <3>3, CountsAreNat DEF Receipted
    <3>4. CASE Broadcast(j)
      <4>1. j \in Telling(subj(j))
        BY <3>4 DEF Broadcast, Telling
      <4>2. Cardinality(Telling(subj(j))) >= Cardinality({}) + 1 /\ Cardinality({}) = 0
        BY <4>1, <1>0, CountsAreNat, CountShrinks, FS_EmptySet
      <4> QED
        BY <1>0, <3>2, <4>2, CountsAreNat
    <3> QED
      BY <1>0, <2>2, <3>3, <3>4
  <2>5. answer'[j] \in Told => mined'[subj(j)'] + skipped'[subj(j)'] > 0
    <3>1. subj(j)' = subj(j) /\ env'[j] = env[j]
      BY <2>1 DEF subj
    <3> QED
      BY <1>0, <1>1, <1>2, <2>4, <3>1
  <2> QED
    BY <1>2, <2>3, <2>5 DEF Answered, subj
<1>5. CASE \/ MinerStep \/ AskReset \/ MinerDies \/ MinerStarts \/ StoreDies \/ StoreStarts \/ Done
           \/ \E s \in Subject : LatePut(s)
  <2>1. env' = env /\ \A i \in Ingester : answer'[i] = answer[i] \/ answer'[i] = "exit"
    BY <1>5, <1>0 DEF LatePut, MinerStep, MinerIngests, MinerResets, AskReset, MinerDies, LoseCallers, MinerStarts, StoreDies,
                      StoreStarts, Done, vars
  <2> QED
    BY <1>2, <2>1 DEF Answered, subj
<1> QED
  BY <1>3, <1>4, <1>5 DEF Next

-----------------------------------------------------------------------------
(* A subject nothing has excused is folded once. *)

(* A letter whose sender waits for it is on that sender's own subject. *)
LEMMA Sender ==
  ASSUME Mail, NEW s \in Subject, NEW k \in DOMAIN box, Letter(k, s), Waits(box[k])
  PROVE  box[k].from \in InFlight(s) /\ pc[box[k].from] = "mining"
<1>1. box[k] \in Message /\ box[k].kind = "ingest" /\ box[k].subject = s
  BY DEF Mail, Letter
<1>2. box[k].from \in Ingester /\ pc[box[k].from] = "mining" /\ calls[box[k].from] = box[k].call
  BY <1>1 DEF Message, Waits
<1>3. s = subj(box[k].from)
  BY <1>1, <1>2 DEF Mail
<1> QED
  BY <1>2, <1>3 DEF InFlight

(* The letters stay, and so do those who wait for them. *)
LEMMA PostedOn ==
  ASSUME Mail, NEW s \in Subject, Posted(s), box' = box,
         \A i \in InFlight(s) : pc[i] = "mining" => pc'[i] = "mining" /\ calls'[i] = calls[i]
  PROVE  Posted(s)'
<1>1. ASSUME NEW k \in DOMAIN box, Letter(k, s) PROVE Waits(box[k])'
  <2>1. Waits(box[k]) /\ box[k].from \in InFlight(s) /\ pc[box[k].from] = "mining"
    BY <1>1, Sender DEF Posted
  <2> QED
    BY <2>1 DEF Waits
<1> QED
  BY <1>1 DEF Posted, Letter, Waits

LEMMA OneWayOn ==
  ASSUME NEW s \in Subject, OneWay(s), InFlight(s)' = InFlight(s), Receipting(s) \subseteq Receipting(s)',
         outcomes'[s] = outcomes[s], mined'[s] = mined[s]
  PROVE  OneWay(s)'
<1>1. /\ \A i, j \in InFlight(s)' : i = j
      /\ InFlight(s)' # {} => outcomes'[s] = 0
      /\ mined'[s] <= 1
      /\ mined'[s] = 1 => outcomes'[s] > 0 \/ Receipting(s)' # {}
  BY DEF OneWay
<1> QED
  BY <1>1 DEF OneWay, InFlight, Receipting

(* Any subject a step leaves alone. *)
LEMMA Untouched ==
  ASSUME Mail, Single, NEW s \in Subject, s \notin excused, box' = box,
         \A i \in Ingester : subj(i) = s \/ subj(i)' = s =>
            \/ pc'[i] = pc[i] /\ calls'[i] = calls[i] /\ subj(i)' = subj(i)
            \/ pc[i] \notin Underway /\ pc'[i] \notin Underway,
         outcomes'[s] = outcomes[s], mined'[s] = mined[s]
  PROVE  Posted(s)' /\ OneWay(s)'
<1>1. Posted(s) /\ OneWay(s)
  BY DEF Single
<1>2. InFlight(s)' = InFlight(s) /\ Receipting(s)' = Receipting(s)
  <2>1. \A i \in Ingester : subj(i)' = env'[i].subject
    BY DEF subj
  <2>2. \A i \in Ingester : (pc'[i] \in Underway /\ subj(i)' = s) <=> (pc[i] \in Underway /\ subj(i) = s)
    OBVIOUS
  <2>3. InFlight(s)' = InFlight(s)
    BY <2>1, <2>2 DEF InFlight, Underway, subj
  <2>4. \A i \in Ingester : (pc'[i] \in {"pending", "outcome"} /\ subj(i)' = s)
                              <=> (pc[i] \in {"pending", "outcome"} /\ subj(i) = s)
    BY DEF Underway
  <2>5. Receipting(s)' = Receipting(s)
    BY <2>1, <2>4 DEF Receipting, subj
  <2> QED
    BY <2>3, <2>5
<1>3. \A i \in InFlight(s) : pc[i] = "mining" => pc'[i] = "mining" /\ calls'[i] = calls[i]
  BY DEF InFlight, Underway
<1>4. Posted(s)'
  BY <1>1, <1>3, PostedOn
<1>5. OneWay(s)'
  BY <1>1, <1>2, OneWayOn
<1> QED
  BY <1>4, <1>5

(* Someone who has to ask a store resolved one. *)
Asked == \A i \in Ingester : pc[i] \in Underway /\ storePid[i] = 0 => subj(i) \in excused

LEMMA SingleCall ==
  ASSUME TypeOK, Mail, Single, NEW i \in Ingester, Call(i)
  PROVE  Single'
<1> USE DEF bounds, minerVars, storeVars
<1>1. /\ UNCHANGED <<box, outcomes, mined, excused>> /\ pc[i] = "idle"
      /\ pc' = [pc EXCEPT ![i] = "idle"] \/ pc' = [pc EXCEPT ![i] = "check"]
      /\ calls' = [calls EXCEPT ![i] = @ + 1] /\ \E e : env' = [env EXCEPT ![i] = e]
      /\ \E p : storePid' = [storePid EXCEPT ![i] = p]
  BY DEF Call, Return, Goto
<1>2. /\ pc[i] \notin Underway /\ pc'[i] \notin Underway
      /\ \A j \in Ingester : j # i => /\ pc'[j] = pc[j] /\ calls'[j] = calls[j] /\ subj(j)' = subj(j)
                                      /\ storePid'[j] = storePid[j]
  BY <1>1 DEF TypeOK, Underway, subj
<1>3. \A s \in Subject \ excused' : Posted(s)' /\ OneWay(s)'
  BY <1>1, <1>2, Untouched
<1>4. \A j \in Ingester : pc'[j] \in Underway /\ storePid'[j] = 0 => subj(j)' \in excused'
  BY <1>1, <1>2 DEF Single
<1> QED
  BY <1>3, <1>4 DEF Single, subj

(* What every other step of a producer has in common. *)
LEMMA ProducerMoves ==
  ASSUME TypeOK, Single, NEW i \in Ingester, IngestStep(i) \/ GiveUp(i)
  PROVE  /\ UNCHANGED <<env, storePid, calls, mined>> /\ excused \subseteq excused'
         /\ \A j \in Ingester : j # i => pc'[j] = pc[j]
         /\ \A j \in Ingester : j # i => (pc'[j] \in Underway /\ storePid'[j] = 0 => subj(j)' \in excused')
         /\ \A s \in Subject : s # subj(i) => outcomes'[s] = outcomes[s]
         /\ \A s \in Subject : s # subj(i) => (s \notin excused' => s \notin excused)
<1> USE DEF bounds, minerVars, storeVars
<1>1. UNCHANGED <<env, storePid, calls, mined>> /\ excused \subseteq excused'
  BY DEF IngestStep, StoreCallExits, FindDuplicate, Forward, PutPending, PutOutcome, SkipReceipts, Broadcast, GiveUp
<1>2. \E l : pc' = [pc EXCEPT ![i] = l]
  BY DEF IngestStep, StoreCallExits, FindDuplicate, Forward, PutPending, PutOutcome, SkipReceipts, Broadcast, GiveUp,
         Return, Goto
<1>3. \A j \in Ingester : j # i => pc'[j] = pc[j]
  BY <1>2 DEF TypeOK
<1>4. \A s \in Subject : s # subj(i) => outcomes'[s] = outcomes[s]
  BY DEF TypeOK, IngestStep, StoreCallExits, FindDuplicate, Forward, PutPending, PutOutcome, SkipReceipts, Broadcast,
         GiveUp
<1> QED
  BY <1>1, <1>3, <1>4 DEF Single, subj

(* The subjects of others are left alone, and so is one that is excused. *)
LEMMA SingleElsewhere ==
  ASSUME TypeOK, Mail, Single, NEW i \in Ingester, IngestStep(i) \/ GiveUp(i), box' = box,
         pc'[i] \in Underway /\ storePid[i] = 0 => subj(i) \in excused',
         subj(i) \notin excused' => Posted(subj(i))' /\ OneWay(subj(i))'
  PROVE  Single'
<1>1. ASSUME NEW s \in Subject \ excused', s # subj(i) PROVE Posted(s)' /\ OneWay(s)'
  <2>1. \A j \in Ingester : subj(j) = s \/ subj(j)' = s => pc'[j] = pc[j] /\ calls'[j] = calls[j] /\ subj(j)' = subj(j)
    BY <1>1, ProducerMoves DEF subj
  <2> QED
    BY <1>1, <2>1, ProducerMoves, Untouched
<1>2. subj(i)' = subj(i)
  BY ProducerMoves DEF subj
<1>3. \A j \in Ingester : pc'[j] \in Underway /\ storePid'[j] = 0 => subj(j)' \in excused'
  BY <1>2, ProducerMoves
<1>4. ASSUME NEW s \in Subject \ excused', s = subj(i) PROVE Posted(s)' /\ OneWay(s)'
  BY <1>2, <1>4 DEF Posted, Letter, OneWay, InFlight, Receipting, subj
<1> QED
  BY <1>1, <1>3, <1>4 DEF Single, subj

(* find_duplicate/2: who goes on is the only one, or is excused. *)
LEMMA SingleCheck ==
  ASSUME TypeOK, Mail, Single, NEW i \in Ingester, FindDuplicate(i)
  PROVE  Single'
<1> USE DEF bounds, minerVars, storeVars
<1>1. PICK s \in Subject : s = subj(i)
  BY Carried
<1>2. UNCHANGED <<box, outcomes, mined, env, calls, storePid>> /\ pc[i] = "check" /\ subj(i)' = subj(i) /\ IngestStep(i)
  BY DEF FindDuplicate, IngestStep, subj
<1>3. /\ pc \in [Ingester -> Labels] /\ outcomes[s] \in Nat /\ mined[s] \in Nat
      /\ \A j \in Ingester : j # i => pc'[j] = pc[j] /\ subj(j)' = subj(j)
  BY <1>2, ProducerMoves, CountsAreNat DEF TypeOK, Labels, subj
<1>4. CASE pc' = [pc EXCEPT ![i] = "idle"]
  <2>1. pc'[i] \notin Underway /\ pc[i] \notin Underway
    BY <1>2, <1>3, <1>4 DEF Underway
  <2>2. s \notin excused' => Posted(s)' /\ OneWay(s)'
    BY <1>2, <1>3, <2>1, ProducerMoves, Untouched
  <2> QED
    BY <1>1, <1>2, <2>1, <2>2, SingleElsewhere DEF Posted, Letter, OneWay, InFlight, Receipting, subj
<1>5. CASE /\ pc' = [pc EXCEPT ![i] = "forward"] /\ ~(storePid[i] # 0 /\ Receipted(subj(i)))
           /\ excused' = IF storePid[i] = 0 \/ InFlight(subj(i)) # {} THEN excused \cup {subj(i)} ELSE excused
  <2>1. storePid[i] = 0 => subj(i) \in excused'
    BY <1>5
  <2>2. ASSUME s \notin excused' PROVE Posted(s)' /\ OneWay(s)'
    <3>1. InFlight(s) = {} /\ outcomes[s] = 0 /\ s \notin excused
      BY <1>1, <1>3, <1>5, <2>2 DEF Receipted
    <3>2. Posted(s) /\ OneWay(s) /\ Receipting(s) = {}
      BY <3>1 DEF Single, Receipting, InFlight
    <3>3. \A k \in DOMAIN box : ~Letter(k, s)
      BY <3>1, <3>2, Sender DEF Posted
    <3>4. Posted(s)'
      BY <1>2, <3>3 DEF Posted, Letter
    <3>5. \A j \in Ingester : j # i => ~(pc'[j] \in Underway /\ subj(j)' = s)
      BY <1>3, <3>1 DEF InFlight, Underway
    <3>6. \A j, l \in InFlight(s)' : j = l
      BY <3>5 DEF InFlight, Underway, subj
    <3>7. mined[s] <= 1 /\ mined[s] # 1 /\ mined'[s] = mined[s] /\ outcomes'[s] = 0
      BY <1>2, <3>1, <3>2 DEF OneWay
    <3> QED
      BY <3>4, <3>6, <3>7 DEF OneWay, InFlight
  <2> QED
    BY <1>1, <1>2, <2>1, <2>2, SingleElsewhere DEF Posted, Letter, OneWay, InFlight, Receipting, subj
<1> QED
  BY <1>4, <1>5 DEF FindDuplicate, Return, Goto

(* Steps at which the call ends before its receipt excuse the subject. *)
LEMMA SingleExits ==
  ASSUME TypeOK, Mail, Single, NEW i \in Ingester, StoreCallExits(i) \/ GiveUp(i) \/ SkipReceipts(i)
  PROVE  Single'
<1> USE DEF bounds, minerVars, storeVars
<1>1. PICK s \in Subject : s = subj(i)
  BY Carried
<1>2. /\ UNCHANGED <<box, outcomes, mined, env, calls, storePid>> /\ subj(i)' = subj(i)
      /\ IngestStep(i) \/ GiveUp(i)
  BY DEF StoreCallExits, GiveUp, SkipReceipts, IngestStep, subj
<1>3. pc'[i] \notin Underway
  BY DEF TypeOK, StoreCallExits, GiveUp, SkipReceipts, Return, Goto, Underway
<1>4. pc[i] \notin Underway \/ subj(i) \in excused'
  <2>1. CASE StoreCallExits(i) \/ GiveUp(i)
    BY <2>1 DEF StoreCallExits, GiveUp, Underway
  <2>2. CASE SkipReceipts(i)
    <3>1. pc[i] \in Underway /\ storePid[i] = 0 /\ excused' = excused
      BY <2>2 DEF SkipReceipts, Underway
    <3> QED
      BY <3>1 DEF Single
  <2> QED
    BY <2>1, <2>2
<1>5. s \notin excused' => Posted(s)' /\ OneWay(s)'
  <2> SUFFICES ASSUME s \notin excused' PROVE Posted(s)' /\ OneWay(s)'
    OBVIOUS
  <2>1. pc[i] \notin Underway /\ s \notin excused
    BY <1>1, <1>2, <1>4, ProducerMoves
  <2>2. \A j \in Ingester : j # i => pc'[j] = pc[j] /\ subj(j)' = subj(j)
    BY <1>2, ProducerMoves DEF subj
  <2> QED
    BY <1>2, <1>3, <2>1, <2>2, Untouched
<1> QED
  BY <1>1, <1>2, <1>3, <1>5, SingleElsewhere DEF Posted, Letter, OneWay, InFlight, Receipting, subj

(* Receipt and broadcast: the way ends with the receipt. *)
LEMMA SingleReceipts ==
  ASSUME TypeOK, Mail, Single, NEW i \in Ingester, PutPending(i) \/ PutOutcome(i) \/ Broadcast(i)
  PROVE  Single'
<1> USE DEF bounds, minerVars, storeVars
<1>1. PICK s \in Subject : s = subj(i)
  BY Carried
<1>2. /\ UNCHANGED <<box, mined, env, calls, storePid, excused>> /\ subj(i)' = subj(i) /\ IngestStep(i)
  BY DEF PutPending, PutOutcome, Broadcast, IngestStep, subj
<1>3. /\ pc \in [Ingester -> Labels] /\ outcomes \in [Subject -> Nat] /\ mined[s] \in Nat
      /\ \A j \in Ingester : j # i => pc'[j] = pc[j] /\ subj(j)' = subj(j)
  BY <1>2, ProducerMoves, CountsAreNat DEF TypeOK, Labels, subj
<1>4. pc'[i] \in Underway => pc[i] \in Underway
  BY <1>3 DEF PutPending, PutOutcome, Broadcast, Return, Goto, Underway
<1>5. pc'[i] \in Underway /\ storePid[i] = 0 => subj(i) \in excused'
  BY <1>2, <1>4 DEF Single
<1>6. ASSUME s \notin excused' PROVE Posted(s)' /\ OneWay(s)'
  <2>1. Posted(s) /\ OneWay(s) /\ s \notin excused
    BY <1>2, <1>6 DEF Single
  <2>2. pc[i] # "mining" /\ \A j \in Ingester : pc[j] = "mining" => pc'[j] = "mining"
    BY <1>3 DEF PutPending, PutOutcome, Broadcast
  <2>3. Posted(s)'
    BY <1>2, <2>1, <2>2, PostedOn DEF InFlight
  <2>4. CASE PutPending(i)
    <3>1. pc[i] = "pending" /\ pc'[i] = "outcome" /\ outcomes' = outcomes
      BY <1>3, <2>4 DEF PutPending, Goto
    <3>2. InFlight(s)' = InFlight(s) /\ Receipting(s) \subseteq Receipting(s)'
      BY <1>2, <1>3, <3>1 DEF InFlight, Receipting, subj
    <3> QED
      BY <1>2, <2>1, <2>3, <3>1, <3>2, OneWayOn
  <2>5. CASE PutOutcome(i)
    <3>1. pc[i] = "outcome" /\ pc'[i] = "broadcast" /\ outcomes' = [outcomes EXCEPT ![s] = @ + 1]
      BY <1>1, <1>3, <2>5 DEF PutOutcome, Goto
    <3>2. i \in InFlight(s)
      BY <1>1, <3>1 DEF InFlight
    <3>3. InFlight(s)' = {}
      <4>1. \A j \in Ingester : j # i => ~(pc'[j] \in Underway /\ subj(j)' = s)
        BY <1>3, <2>1, <3>2 DEF OneWay, InFlight, Underway
      <4>2. pc'[i] \notin Underway
        BY <3>1 DEF Underway
      <4> QED
        BY <4>1, <4>2 DEF InFlight, Underway, subj
    <3>4. outcomes'[s] > 0 /\ mined'[s] <= 1
      BY <1>2, <1>3, <2>1, <3>1 DEF OneWay
    <3> QED
      BY <2>3, <3>3, <3>4 DEF OneWay, InFlight
  <2>6. CASE Broadcast(i)
    <3>1. pc[i] = "broadcast" /\ pc'[i] = "idle" /\ outcomes' = outcomes
      BY <1>3, <2>6 DEF Broadcast, Return, Goto
    <3>2. InFlight(s)' = InFlight(s) /\ Receipting(s) \subseteq Receipting(s)'
      BY <1>2, <1>3, <3>1 DEF InFlight, Receipting, subj
    <3> QED
      BY <1>2, <2>1, <2>3, <3>1, <3>2, OneWayOn
  <2> QED
    BY <2>4, <2>5, <2>6
<1> QED
  BY <1>1, <1>2, <1>5, <1>6, SingleElsewhere DEF Posted, Letter, OneWay, InFlight, Receipting, subj

(* do_ingest/4 writes its letter when there is none on the subject. *)
LEMMA SingleForward ==
  ASSUME TypeOK, Mail, Single, NEW i \in Ingester, Forward(i)
  PROVE  Single'
<1> USE DEF bounds, minerVars, storeVars
<1>1. /\ UNCHANGED <<outcomes, mined, env, calls, storePid, excused>> /\ pc[i] = "forward"
      /\ pc' = [pc EXCEPT ![i] = "mining"] \/ pc' = [pc EXCEPT ![i] = "pending"]
      /\ pc \in [Ingester -> Labels]
  BY DEF Forward, Goto, AfterSend, TypeOK, Labels
<1>2. /\ pc'[i] \in {"mining", "pending"} /\ \A j \in Ingester : j # i => pc'[j] = pc[j]
      /\ \A j \in Ingester : subj(j)' = subj(j)
  BY <1>1 DEF subj
<1>3. ASSUME NEW s \in Subject PROVE InFlight(s)' = InFlight(s) /\ Receipting(s) \subseteq Receipting(s)'
  BY <1>1, <1>2 DEF InFlight, Receipting, subj
<1>4. ASSUME NEW s \in Subject \ excused PROVE OneWay(s)'
  BY <1>1, <1>3, <1>4, OneWayOn DEF Single
<1>5. ASSUME NEW s \in Subject \ excused PROVE Posted(s)'
  <2>1. Posted(s) /\ OneWay(s)
    BY DEF Single
  <2>2. \A j \in InFlight(s) : pc[j] = "mining" => pc'[j] = "mining" /\ calls'[j] = calls[j]
    BY <1>1, <1>2 DEF InFlight
  <2>3. CASE box' = box
    BY <2>1, <2>2, <2>3, PostedOn
  <2>4. CASE box' = Append(box, [kind |-> "ingest", subject |-> subj(i), from |-> i, call |-> calls[i]])
    <3> DEFINE m == [kind |-> "ingest", subject |-> subj(i), from |-> i, call |-> calls[i]]
               n == Len(box) + 1
    <3>1. m \in Message
      BY Carried DEF Message, TypeOK
    <3>2. /\ DOMAIN box' = DOMAIN box \cup {n} /\ n \notin DOMAIN box
          /\ box'[n] = m /\ \A k \in DOMAIN box : box'[k] = box[k]
      BY <2>4, <3>1, MailAppend
    <3>3. pc'[i] = "mining"
      <4>1. minerUp
        <5>1. CASE ~minerUp
          <6>1. box' = box
            BY <5>1 DEF Forward
          <6> QED
            BY <3>2, <6>1
        <5> QED
          BY <5>1
      <4> QED
        BY <1>1, <4>1 DEF Forward, Goto, AfterSend
    <3>4. \A k \in DOMAIN box : Letter(k, s) => Waits(box[k]) /\ box[k].from \in InFlight(s) /\ pc[box[k].from] = "mining"
      BY <2>1, Sender DEF Posted
    <3>5. s = subj(i) => \A k \in DOMAIN box : ~Letter(k, s)
      <4>1. s = subj(i) => i \in InFlight(s)
        BY <1>1 DEF InFlight
      <4> QED
        BY <1>1, <2>1, <3>4, <4>1 DEF OneWay
    <3>6. m.kind = "ingest" /\ m.subject = subj(i) /\ m.from = i /\ m.call = calls[i]
      OBVIOUS
    <3> HIDE DEF m, n
    <3>7. ASSUME NEW k \in DOMAIN box', box'[k].kind = "ingest", box'[k].subject = s
          PROVE  /\ pc'[box'[k].from] = "mining" /\ calls'[box'[k].from] = box'[k].call
                 /\ \A l \in DOMAIN box' : box'[l].kind = "ingest" /\ box'[l].subject = s => l = k
      <4>1. CASE k = n
        BY <1>1, <3>2, <3>3, <3>5, <3>6, <3>7, <4>1 DEF Letter
      <4>2. CASE k # n
        <5>1. k \in DOMAIN box /\ Letter(k, s) /\ box'[k] = box[k]
          BY <3>2, <3>7, <4>2 DEF Letter
        <5>2. s # subj(i)
          BY <3>5, <5>1
        <5>3. pc'[box[k].from] = "mining" /\ calls'[box[k].from] = box[k].call
          BY <2>2, <3>4, <5>1 DEF Waits
        <5>4. \A l \in DOMAIN box : Letter(l, s) => l = k
          BY <2>1, <5>1 DEF Posted
        <5> QED
          BY <3>2, <3>6, <5>1, <5>2, <5>3, <5>4 DEF Letter
      <4> QED
        BY <4>1, <4>2
    <3> QED
      BY <3>7 DEF Posted, Letter, Waits
  <2> QED
    BY <2>3, <2>4 DEF Forward
<1>6. \A j \in Ingester : pc'[j] \in Underway /\ storePid'[j] = 0 => subj(j)' \in excused'
  BY <1>1, <1>2 DEF Single, Underway
<1> QED
  BY <1>1, <1>4, <1>5, <1>6 DEF Single, subj

(* The miner answers the one who waits for this letter. *)
LEMMA SingleMines ==
  ASSUME TypeOK, Mail, Single, MinerIngests
  PROVE  Single'
<1> USE DEF bounds, minerVars, storeVars
<1>1. PICK s0 \in Subject, i0 \in Ingester :
        /\ s0 = Head(box).subject /\ i0 = Head(box).from /\ Letter(1, s0) /\ 1 \in DOMAIN box /\ box # <<>>
        /\ Waits(Head(box)) => subj(i0) = s0
  <2>1. box # <<>> /\ Head(box) \in Message /\ Head(box) = box[1] /\ 1 \in DOMAIN box /\ Head(box).kind = "ingest"
    BY MailTail DEF MinerIngests
  <2>2. Head(box).subject \in Subject /\ Head(box).from \in Ingester
    BY <2>1 DEF Message
  <2>3. Waits(Head(box)) => subj(Head(box).from) = Head(box).subject
    BY <2>1 DEF Mail, Waits
  <2> QED
    BY <2>1, <2>2, <2>3 DEF Letter
<1>2. /\ UNCHANGED <<env, calls, storePid, outcomes, excused>> /\ box' = Tail(box)
      /\ mined' = [mined EXCEPT ![s0] = @ + 1]
      /\ pc' = IF Waits(Head(box)) THEN [pc EXCEPT ![i0] = "pending"] ELSE pc
      /\ pc \in [Ingester -> Labels] /\ mined \in [Subject -> Nat] /\ Head(box) = box[1]
  BY <1>1, MailTail DEF MinerIngests, TypeOK, Labels
<1>3. /\ \A j \in Ingester : subj(j)' = subj(j) /\ (j # i0 => pc'[j] = pc[j])
      /\ ~Waits(Head(box)) => pc' = pc
      /\ Waits(Head(box)) => pc[i0] = "mining" /\ pc'[i0] = "pending" /\ subj(i0) = s0
  BY <1>1, <1>2 DEF subj, Waits
<1>4. \A j \in Ingester : pc'[j] \in Underway /\ storePid'[j] = 0 => subj(j)' \in excused'
  BY <1>2, <1>3 DEF Single, Underway
<1>5. \A k \in DOMAIN box' : k + 1 \in DOMAIN box /\ box'[k] = box[k + 1] /\ k + 1 # 1 /\ k \in Nat
  <2>1. \A k \in DOMAIN Tail(box) : k \in Nat
    <3>1. box \in Seq(Message)
      BY DEF Mail
    <3>2. Tail(box) \in Seq(Message)
      BY <1>1, <3>1, MailTail
    <3> QED
      BY <3>2
  <2> QED
    BY <1>1, <1>2, <2>1, MailTail
<1>6. ASSUME NEW s \in Subject \ excused, s # s0 PROVE Posted(s)' /\ OneWay(s)'
  <2>1. Posted(s) /\ OneWay(s)
    BY <1>6 DEF Single
  <2>2. \A j \in Ingester : subj(j) = s => pc'[j] = pc[j]
    BY <1>3, <1>6
  <2>3. InFlight(s)' = InFlight(s) /\ Receipting(s)' = Receipting(s)
    BY <1>3, <2>2 DEF InFlight, Receipting, subj
  <2>4. mined'[s] = mined[s]
    BY <1>2, <1>6
  <2>5. OneWay(s)'
    BY <1>2, <2>1, <2>3, <2>4, OneWayOn
  <2>6. ASSUME NEW k \in DOMAIN box', box'[k].kind = "ingest", box'[k].subject = s
        PROVE  /\ pc'[box'[k].from] = "mining" /\ calls'[box'[k].from] = box'[k].call
               /\ \A l \in DOMAIN box' : box'[l].kind = "ingest" /\ box'[l].subject = s => l = k
    <3>1. k + 1 \in DOMAIN box /\ Letter(k + 1, s) /\ box'[k] = box[k + 1]
      BY <1>5, <2>6 DEF Letter
    <3>2. Waits(box[k + 1]) /\ box[k + 1].from \in InFlight(s) /\ pc[box[k + 1].from] = "mining"
      BY <2>1, <3>1, Sender DEF Posted
    <3>3. pc'[box[k + 1].from] = "mining"
      BY <2>2, <3>2 DEF InFlight
    <3>4. ASSUME NEW l \in DOMAIN box', box'[l].kind = "ingest", box'[l].subject = s PROVE l = k
      <4>1. l + 1 \in DOMAIN box /\ Letter(l + 1, s)
        BY <1>5, <3>4 DEF Letter
      <4>2. l + 1 = k + 1
        BY <2>1, <3>1, <4>1 DEF Posted
      <4> QED
        BY <1>5, <4>2
    <3> QED
      BY <1>2, <3>1, <3>2, <3>3, <3>4 DEF Waits
  <2>7. Posted(s)'
    BY <2>6 DEF Posted, Letter, Waits
  <2> QED
    BY <2>5, <2>7
<1>7. ASSUME s0 \notin excused PROVE Posted(s0)' /\ OneWay(s0)'
  <2>1. Posted(s0) /\ OneWay(s0)
    BY <1>7 DEF Single
  <2>2. Waits(Head(box)) /\ i0 \in InFlight(s0)
    <3>1. Waits(Head(box))
      BY <1>1, <1>2, <2>1 DEF Posted
    <3>2. pc[i0] = "mining" /\ subj(i0) = s0
      BY <1>3, <3>1
    <3> QED
      BY <3>1, <3>2 DEF InFlight
  <2>3. \A k \in DOMAIN box' : ~(box'[k].kind = "ingest" /\ box'[k].subject = s0)
    <3>1. ASSUME NEW k \in DOMAIN box', box'[k].kind = "ingest", box'[k].subject = s0 PROVE FALSE
      <4>1. k + 1 \in DOMAIN box /\ Letter(k + 1, s0) /\ k + 1 # 1
        BY <1>5, <3>1 DEF Letter
      <4> QED
        BY <1>1, <2>1, <4>1 DEF Posted
    <3> QED
      BY <3>1
  <2>4. Receipting(s0) = {} /\ outcomes[s0] = 0
    BY <1>3, <2>1, <2>2 DEF OneWay, Receipting, InFlight
  <2>5. mined'[s0] = 1
    <3>1. mined[s0] \in Nat /\ mined[s0] <= 1 /\ mined[s0] # 1
      BY <1>2, <2>1, <2>4 DEF OneWay
    <3> QED
      BY <1>2, <3>1
  <2>6. i0 \in Receipting(s0)' /\ outcomes'[s0] = 0
    BY <1>2, <1>3, <2>2, <2>4 DEF Receipting, subj
  <2>7. InFlight(s0)' = InFlight(s0)
    BY <1>3, <2>2 DEF InFlight, subj
  <2>8. \A j, l \in InFlight(s0)' : j = l
    BY <2>1, <2>7 DEF OneWay
  <2>9. OneWay(s0)'
    BY <2>5, <2>6, <2>8 DEF OneWay, InFlight, Receipting
  <2> QED
    BY <2>3, <2>9 DEF Posted, Letter
<1> QED
  <2>1. \A s \in Subject \ excused' : Posted(s)' /\ OneWay(s)'
    BY <1>2, <1>6, <1>7
  <2> QED
    BY <1>4, <2>1 DEF Single, subj

(* A reset only waits its turn. *)
LEMMA SingleResets ==
  ASSUME TypeOK, Mail, Single, MinerResets \/ AskReset
  PROVE  Single'
<1> USE DEF bounds, minerVars, storeVars, callVars
<1>1. UNCHANGED <<env, calls, storePid, outcomes, mined, excused, pc>>
  BY DEF MinerResets, AskReset
<1>2. \A j \in Ingester : subj(j)' = subj(j)
  BY <1>1 DEF subj
<1>3. \A j \in Ingester : pc'[j] \in Underway /\ storePid'[j] = 0 => subj(j)' \in excused'
  BY <1>1, <1>2 DEF Single
<1>4. ASSUME NEW s \in Subject \ excused PROVE OneWay(s)'
  <2>1. InFlight(s)' = InFlight(s) /\ Receipting(s)' = Receipting(s)
    BY <1>1, <1>2 DEF InFlight, Receipting, subj
  <2> QED
    BY <1>1, <2>1, OneWayOn DEF Single
<1>5. CASE MinerResets
  <2>1. box # <<>> /\ box' = Tail(box)
    BY <1>5 DEF MinerResets
  <2>2. \A k \in DOMAIN box' : k + 1 \in DOMAIN box /\ box'[k] = box[k + 1] /\ k \in Nat
    <3>1. \A k \in DOMAIN Tail(box) : k \in Nat
      <4>1. Tail(box) \in Seq(Message)
        BY <2>1, MailTail
      <4> QED
        BY <4>1
    <3> QED
      BY <2>1, <3>1, MailTail
  <2>3. ASSUME NEW s \in Subject \ excused, NEW k \in DOMAIN box', box'[k].kind = "ingest", box'[k].subject = s
        PROVE  /\ Waits(box'[k])
               /\ \A l \in DOMAIN box' : box'[l].kind = "ingest" /\ box'[l].subject = s => l = k
    <3>1. k + 1 \in DOMAIN box /\ Letter(k + 1, s) /\ box'[k] = box[k + 1] /\ Posted(s)
      BY <2>2, <2>3 DEF Letter, Single
    <3>2. ASSUME NEW l \in DOMAIN box', box'[l].kind = "ingest", box'[l].subject = s PROVE l = k
      <4>1. l + 1 \in DOMAIN box /\ Letter(l + 1, s)
        BY <2>2, <3>2 DEF Letter
      <4>2. l + 1 = k + 1
        BY <3>1, <4>1 DEF Posted
      <4> QED
        BY <2>2, <4>2
    <3> QED
      BY <3>1, <3>2 DEF Posted
  <2>4. \A s \in Subject \ excused : Posted(s)'
    BY <1>1, <2>3 DEF Posted, Letter, Waits
  <2> QED
    BY <1>1, <1>3, <1>4, <2>4 DEF Single, subj
<1>6. CASE AskReset
  <2> DEFINE m == [kind |-> "reset"]
             n == Len(box) + 1
  <2>1. m \in Message /\ m.kind # "ingest"
    BY DEF Message
  <2>2. box' = Append(box, m)
    BY <1>6 DEF AskReset
  <2>3. /\ DOMAIN box' = DOMAIN box \cup {n}
        /\ box'[n] = m /\ \A k \in DOMAIN box : box'[k] = box[k]
    BY <2>1, <2>2, MailAppend
  <2> HIDE DEF m, n
  <2>4. ASSUME NEW s \in Subject \ excused PROVE Posted(s)'
    <3>1. Posted(s)
      BY DEF Single
    <3> QED
      BY <1>1, <2>1, <2>3, <3>1 DEF Posted, Letter, Waits
  <2> QED
    BY <1>1, <1>3, <1>4, <2>4 DEF Single, subj
<1> QED
  BY <1>5, <1>6

(* A miner that dies takes its mailbox along; those it leaves are excused. *)
LEMMA SingleLoses ==
  ASSUME TypeOK, Mail, Single, MinerDies
  PROVE  Single'
<1> USE DEF bounds, minerVars, storeVars, callVars
<1>1. /\ UNCHANGED <<env, calls, storePid, outcomes, mined>> /\ box' = <<>>
      /\ \A j \in Ingester : pc'[j] = IF pc[j] = "mining" THEN "idle" ELSE pc[j]
      /\ excused \subseteq excused' /\ \A j \in Ingester : pc[j] = "mining" => subj(j) \in excused'
  BY DEF MinerDies, LoseCallers
<1>2. \A j \in Ingester : subj(j)' = subj(j)
  BY <1>1 DEF subj
<1>3. \A j \in Ingester : pc'[j] \in Underway /\ storePid'[j] = 0 => subj(j)' \in excused'
  BY <1>1, <1>2 DEF Single, Underway
<1>4. ASSUME NEW s \in Subject \ excused' PROVE Posted(s)' /\ OneWay(s)'
  <2>1. \A j \in Ingester : subj(j) = s => pc[j] # "mining" /\ pc'[j] = pc[j]
    BY <1>1, <1>4
  <2>2. InFlight(s)' = InFlight(s) /\ Receipting(s)' = Receipting(s)
    BY <1>2, <2>1 DEF InFlight, Receipting, subj
  <2>3. OneWay(s)
    BY <1>1, <1>4 DEF Single
  <2>4. OneWay(s)'
    BY <1>1, <2>2, <2>3, OneWayOn
  <2>5. Posted(s)'
    BY <1>1 DEF Posted
  <2> QED
    BY <2>4, <2>5
<1> QED
  BY <1>3, <1>4 DEF Single, subj

(* A store that dies keeps its receipts, or excuses their subjects. *)
LEMMA SingleStore ==
  ASSUME TypeOK, Mail, Single, StoreDies \/ StoreStarts \/ MinerStarts \/ Done
  PROVE  Single'
<1> USE DEF bounds, minerVars, storeVars, callVars
<1>1. /\ UNCHANGED <<env, calls, storePid, pc, mined, box>> /\ excused \subseteq excused'
      /\ \A s \in Subject \ excused' : outcomes'[s] = outcomes[s]
  <2>1. CASE StoreDies
    <3>1. UNCHANGED <<env, calls, storePid, pc, mined, box>>
      BY <2>1 DEF StoreDies
    <3>2. CASE UNCHANGED <<pending, outcomes, excused>>
      BY <3>1, <3>2
    <3>3. CASE outcomes' = Zero /\ excused' = excused \cup {s \in Subject : outcomes[s] > 0}
      <4>1. ASSUME NEW s \in Subject \ excused' PROVE outcomes'[s] = outcomes[s]
        <5>1. outcomes[s] \in Nat /\ ~(outcomes[s] > 0)
          BY <3>3, <4>1, CountsAreNat
        <5> QED
          BY <3>3, <5>1 DEF Zero
      <4> QED
        BY <3>1, <3>3, <4>1
    <3> QED
      BY <2>1, <3>2, <3>3 DEF StoreDies
  <2>2. CASE StoreStarts \/ MinerStarts \/ Done
    BY <2>2 DEF StoreStarts, MinerStarts, Done, vars
  <2> QED
    BY <2>1, <2>2
<1>2. \A j \in Ingester : subj(j)' = subj(j)
  BY <1>1 DEF subj
<1>3. \A j \in Ingester : pc'[j] \in Underway /\ storePid'[j] = 0 => subj(j)' \in excused'
  BY <1>1, <1>2 DEF Single
<1>4. ASSUME NEW s \in Subject \ excused' PROVE Posted(s)' /\ OneWay(s)'
  <2>1. s \notin excused
    BY <1>1, <1>4
  <2> QED
    BY <1>1, <1>2, <1>4, <2>1, Untouched
<1> QED
  BY <1>3, <1>4 DEF Single, subj

(* A put that lands late is of a subject that is excused. *)
LEMMA SingleLatePut ==
  ASSUME TypeOK, Mail, Single, LatesExcused, NEW s0 \in Subject, LatePut(s0)
  PROVE  Single'
<1> USE DEF bounds, minerVars, callVars
<1>1. /\ UNCHANGED <<env, calls, storePid, pc, mined, box, excused>>
      /\ outcomes' = [outcomes EXCEPT ![s0] = @ + 1] /\ s0 \in excused
  BY DEF LatePut, LatesExcused
<1>2. \A j \in Ingester : subj(j)' = subj(j)
  BY <1>1 DEF subj
<1>3. \A j \in Ingester : pc'[j] \in Underway /\ storePid'[j] = 0 => subj(j)' \in excused'
  BY <1>1, <1>2 DEF Single
<1>4. ASSUME NEW s \in Subject \ excused' PROVE Posted(s)' /\ OneWay(s)'
  <2>1. s \notin excused /\ outcomes'[s] = outcomes[s]
    BY <1>1, <1>4 DEF TypeOK
  <2> QED
    BY <1>1, <1>2, <2>1, Untouched
<1> QED
  BY <1>3, <1>4 DEF Single, subj

(* Who leaves an outcome put behind is excused, and stays so. *)
LEMMA LatesStep ==
  ASSUME TypeOK, LatesExcused, Next
  PROVE  LatesExcused'
<1> USE DEF bounds, minerVars, storeVars, callVars
<1>0. late \in [Subject -> Nat]
  BY DEF TypeOK
<1>1. ASSUME excused \subseteq excused', \A s \in Subject : late'[s] > 0 => late[s] > 0 \/ s \in excused'
      PROVE  LatesExcused'
  BY <1>1 DEF LatesExcused
<1>2. ASSUME NEW i \in Ingester, Call(i) \/ IngestStep(i) PROVE LatesExcused'
  <2>1. late' = late /\ excused \subseteq excused'
    BY <1>2 DEF Call, IngestStep, StoreCallExits, FindDuplicate, Forward, PutPending, PutOutcome, SkipReceipts, Broadcast
  <2> QED
    BY <1>1, <2>1
<1>3. ASSUME NEW i \in Ingester, GiveUp(i) PROVE LatesExcused'
  <2>1. /\ excused \subseteq excused'
        /\ late' = late \/ (late' = [late EXCEPT ![subj(i)] = @ + 1] /\ subj(i) \in excused')
    BY <1>3 DEF GiveUp
  <2> QED
    BY <1>0, <1>1, <2>1
<1>4. ASSUME NEW s \in Subject, LatePut(s) PROVE LatesExcused'
  <2>1. excused' = excused /\ late[s] > 0 /\ late' = [late EXCEPT ![s] = @ - 1]
    BY <1>4 DEF LatePut
  <2> QED
    BY <1>0, <1>1, <2>1
<1>5. CASE MinerStep \/ AskReset \/ MinerDies \/ MinerStarts \/ StoreDies \/ StoreStarts \/ Done
  <2>1. excused \subseteq excused' /\ (late' = late \/ late' = Zero)
    BY <1>5 DEF MinerStep, MinerIngests, MinerResets, AskReset, MinerDies, MinerStarts, StoreDies, StoreStarts, Done, vars
  <2> QED
    BY <1>1, <2>1 DEF Zero
<1> QED
  BY <1>2, <1>3, <1>4, <1>5 DEF Next

-----------------------------------------------------------------------------
LEMMA StreamInitInv == Init => StreamInv
<1> SUFFICES ASSUME Init PROVE StreamInv
  OBVIOUS
<1>1. TypeOK
  BY InitTypes
<1>2. box = <<>> /\ \A i \in Ingester : pc[i] = "idle" /\ answer[i] = "none"
  BY DEF Init
<1>3. \A s \in Subject : outcomes[s] = 0 /\ late[s] = 0 /\ broadcasts[s] = 0 /\ mined[s] = 0 /\ skipped[s] = 0
  BY DEF Init, Zero
<1>4. \A s \in Subject : Receipting(s) = {} /\ Telling(s) = {} /\ InFlight(s) = {}
  BY <1>2 DEF Receipting, Telling, InFlight
<1>5. Mail
  BY <1>2 DEF Mail
<1>6. Backed
  BY <1>3, <1>4, FS_EmptySet DEF Backed, Booked
<1>7. Answered
  BY <1>2 DEF Answered
<1>8. Single
  BY <1>2, <1>3, <1>4 DEF Single, Underway, Posted, OneWay
<1>9. LatesExcused
  BY <1>3 DEF LatesExcused
<1> QED
  BY <1>1, <1>5, <1>6, <1>7, <1>8, <1>9 DEF StreamInv

LEMMA StreamStepInv == StreamInv /\ [Next]_vars => StreamInv'
<1> SUFFICES ASSUME StreamInv, [Next]_vars PROVE StreamInv'
  OBVIOUS
<1>0. TypeOK /\ Mail /\ Backed /\ Answered /\ Single /\ LatesExcused
  BY DEF StreamInv
<1>1. CASE Next
  <2>1. TypeOK'
    <3>1. CASE Done
      BY <1>0, <3>1 DEF Done, vars, TypeOK
    <3> QED
      BY <1>0, <1>1, <3>1, CallTypes, ProducerTypes, OthersTypes, LatePutTypes DEF Next
  <2>2. Mail'
    BY <1>0, <1>1, MailOn
  <2>3. Backed'
    <3>1. CASE Done
      BY <1>0, <3>1 DEF Done, vars, Backed, Booked, Receipting, Telling, subj
    <3> QED
      BY <1>0, <1>1, <2>1, <3>1, BackedProducer, BackedOthers DEF Next
  <2>4. Answered'
    BY <1>0, <1>1, <2>1, AnsweredStep
  <2>5. Single'
    BY <1>0, <1>1, SingleCall, SingleCheck, SingleExits, SingleReceipts, SingleForward, SingleMines, SingleResets,
       SingleLoses, SingleStore, SingleLatePut DEF Next, IngestStep, MinerStep
  <2>6. LatesExcused'
    BY <1>0, <1>1, LatesStep
  <2> QED
    BY <2>1, <2>2, <2>3, <2>4, <2>5, <2>6 DEF StreamInv
<1>2. CASE UNCHANGED vars
  <2>1. TypeOK' /\ Mail'
    BY <1>0, <1>2 DEF vars, TypeOK, Mail, subj
  <2>2. Backed' /\ Answered'
    BY <1>0, <1>2 DEF vars, Backed, Booked, Receipting, Telling, Answered, subj
  <2>4. LatesExcused'
    BY <1>0, <1>2 DEF vars, LatesExcused
  <2>3. Single'
    <3>1. \A s \in Subject : Posted(s)' = Posted(s) /\ OneWay(s)' = OneWay(s)
      BY <1>2 DEF vars, Posted, Letter, Waits, OneWay, InFlight, Receipting, subj
    <3> QED
      BY <1>0, <1>2, <3>1 DEF vars, Single, subj
  <2> QED
    BY <2>1, <2>2, <2>3, <2>4 DEF StreamInv
<1> QED
  BY <1>1, <1>2

LEMMA StreamInvariant == Spec => []StreamInv
BY StreamInitInv, StreamStepInv, PTL DEF Spec

(* The producers, the miner and the store keep their types                   *)
(* (ingest.ex:29-140).                                                       *)
THEOREM StreamTypesHold == Spec => []TypeOK
<1>1. StreamInv => TypeOK
  BY DEF StreamInv
<1> QED
  BY <1>1, StreamInvariant, PTL

(* An outcome receipt, a broadcast and the answers ingested and duplicate    *)
(* each stand for a batch that was folded or that there was no miner for,    *)
(* whoever dies meanwhile (do_ingest/4).                                     *)
THEOREM StreamReceiptsAreBacked == Spec => []ReceiptsAreBacked
<1>1. StreamInv => ReceiptsAreBacked
  <2> SUFFICES ASSUME StreamInv PROVE ReceiptsAreBacked
    OBVIOUS
  <2>1. TypeOK /\ Backed /\ Answered
    BY DEF StreamInv
  <2>2. ASSUME NEW s \in Subject
        PROVE  outcomes[s] <= mined[s] + skipped[s] /\ broadcasts[s] <= mined[s] + skipped[s]
    <3>1. /\ Booked(s) + Cardinality(Receipting(s)) <= mined[s] + skipped[s]
          /\ broadcasts[s] + Cardinality(Telling(s)) <= mined[s] + skipped[s]
      BY <2>1 DEF Backed
    <3> QED
      BY <2>1, <3>1, CountsAreNat
  <2> QED
    BY <2>1, <2>2 DEF Answered, ReceiptsAreBacked
<1> QED
  BY <1>1, StreamInvariant, PTL

(* Content is folded twice only for one of the reasons excused records:      *)
(* two producers between check and receipt at once, a call that ended there, *)
(* no store to ask, a store that lost its receipts (find_duplicate/2).       *)
THEOREM StreamCopiesAreExplained == Spec => []CopiesAreExplained
<1>1. StreamInv => CopiesAreExplained
  <2> SUFFICES ASSUME StreamInv, NEW s \in Subject, s \notin excused, mined[s] > 1 PROVE FALSE
    BY DEF CopiesAreExplained
  <2>1. mined[s] <= 1 /\ mined[s] \in Nat
    BY CountsAreNat DEF StreamInv, Single, OneWay
  <2> QED
    BY <2>1
<1> QED
  BY <1>1, StreamInvariant, PTL

-----------------------------------------------------------------------------
(* The natural numbers: a set of them has a least member, hence induction,   *)
(* and a bounded one has a greatest.                                         *)
LEMMA Least ==
  ASSUME NEW S \in SUBSET Nat, S # {}
  PROVE  \E x \in S : \A y \in S : x <= y
<1> DEFINE R == OpToRel(<, Nat)
<1>1. \E x \in S : \A y \in S : <<y, x>> \notin R
  <2>1. IsWellFoundedOn(R, Nat)
    BY NatLessThanWellFounded
  <2> HIDE DEF R
  <2> QED
    BY <2>1, WFMin
<1>2. \A x, y \in Nat : y < x => <<y, x>> \in R
  BY DEF OpToRel
<1> HIDE DEF R
<1>3. PICK x \in S : \A y \in S : <<y, x>> \notin R
  BY <1>1
<1>4. ASSUME NEW y \in S PROVE x <= y
  <2>1. x \in Nat /\ y \in Nat /\ ~ (y < x)
    BY <1>2, <1>3
  <2> QED
    BY <2>1
<1> QED
  BY <1>4

LEMMA NatSetInduction ==
  ASSUME NEW S \in SUBSET Nat, 0 \in S, \A k \in S : k + 1 \in S
  PROVE  S = Nat
<1> SUFFICES ASSUME Nat \ S # {} PROVE FALSE
  OBVIOUS
<1>1. PICK k \in Nat \ S : \A j \in Nat \ S : k <= j
  BY Least
<1>2. k # 0 /\ k - 1 \in Nat /\ k - 1 \notin Nat \ S
  BY <1>1
<1> QED
  BY <1>2

LEMMA Latest ==
  ASSUME NEW n \in Nat, NEW S \in SUBSET (1 .. n), S # {}
  PROVE  \E x \in S : \A y \in S : y <= x
<1> DEFINE above == {k \in Nat : \A y \in S : y <= k}
<1>1. n \in above
  OBVIOUS
<1>2. PICK k \in above : \A j \in above : k <= j
  BY <1>1, Least
<1>3. k \in S
  <2> SUFFICES ASSUME k \notin S PROVE FALSE
    OBVIOUS
  <2>1. ASSUME NEW y \in S PROVE y \in Nat /\ k \in Nat /\ 0 < y /\ y <= k /\ y # k
    BY <1>2
  <2>2. ASSUME NEW y \in S PROVE k - 1 \in Nat /\ y <= k - 1
    <3>1. y \in Nat /\ k \in Nat /\ 0 < y /\ y <= k /\ y # k
      BY <2>1
    <3> QED
      BY <3>1
  <2>3. k - 1 \in above
    BY <2>2
  <2>4. k <= k - 1
    BY <1>2, <2>3
  <2> QED
    BY <1>2, <2>4
<1> QED
  BY <1>2, <1>3

LEMMA OneMore ==
  ASSUME NEW S, IsFiniteSet(S), NEW x, x \notin S
  PROVE  Cardinality(S) \in Nat /\ Cardinality(S \cup {x}) = Cardinality(S) + 1
BY FS_AddElement, FS_CardinalityType

-----------------------------------------------------------------------------
(* The history hist goes on with e, its n-th event; its runs and steps.      *)
Grows(hist, e, n, more) ==
  /\ hist \in Seq(Event) /\ e \in Event /\ more \in Seq(Event)
  /\ n \in Nat \ {0} /\ n = Len(hist) + 1 /\ Len(more) = n
  /\ DOMAIN hist = 1 .. n - 1 /\ DOMAIN more = DOMAIN hist \cup {n} /\ n \notin DOMAIN hist
  /\ more[n] = e
  /\ \A i \in DOMAIN hist : i \in Nat /\ 0 < i /\ i < n /\ more[i] = hist[i] /\ hist[i] \in Event

LEMMA HistoryGrows ==
  ASSUME NEW hist \in Seq(Event), NEW e \in Event
  PROVE  Grows(hist, e, Len(hist) + 1, Append(hist, e))
<1> DEFINE n == Len(hist) + 1
           more == Append(hist, e)
<1>1. /\ n \in Nat \ {0} /\ more \in Seq(Event) /\ Len(more) = n
      /\ DOMAIN hist = 1 .. n - 1 /\ DOMAIN more = 1 .. n
      /\ more[n] = e /\ \A i \in DOMAIN hist : more[i] = hist[i] /\ hist[i] \in Event
  OBVIOUS
<1>2. n = Len(hist) + 1
  OBVIOUS
<1> HIDE DEF n, more
<1>3. 1 .. n = (1 .. n - 1) \cup {n} /\ n \notin 1 .. n - 1 
      /\ \A i \in 1 .. n - 1 : i \in Nat /\ 0 < i /\ i < n
  BY <1>1
<1>4. Grows(hist, e, n, more)
  BY <1>1, <1>2, <1>3 DEF Grows
<1> QED
  BY <1>4 DEF n, more

LEMMA PositionsAreFinite ==
  ASSUME NEW hist \in Seq(Event), NEW S, S \subseteq DOMAIN hist
  PROVE  IsFiniteSet(S) /\ Cardinality(S) \in Nat
<1>1. IsFiniteSet(DOMAIN hist)
  BY FS_Interval
<1> QED
  BY <1>1, FS_Subset, FS_CardinalityType

LEMMA PositionsGrow ==
  ASSUME NEW hist, NEW e, NEW n, NEW more, Grows(hist, e, n, more)
  PROVE  /\ RunPositions(more, e.run) = RunPositions(hist, e.run) \cup {n}
         /\ \A r : r # e.run => RunPositions(more, r) = RunPositions(hist, r)
         /\ RunEventsUpTo(more, n) = RunPositions(hist, e.run) \cup {n}
         /\ \A i \in DOMAIN hist : RunEventsUpTo(more, i) = RunEventsUpTo(hist, i)
<1>1. /\ n \in Nat \ {0}
      /\ DOMAIN hist = 1 .. n - 1 /\ DOMAIN more = DOMAIN hist \cup {n} /\ n \notin DOMAIN hist
      /\ more[n] = e /\ \A i \in DOMAIN hist : i \in Nat /\ 0 < i /\ i < n /\ more[i] = hist[i]
  BY DEF Grows
<1>2. /\ RunPositions(more, e.run) = RunPositions(hist, e.run) \cup {n}
      /\ \A r : r # e.run => RunPositions(more, r) = RunPositions(hist, r)
  BY <1>1 DEF RunPositions
<1>3. RunEventsUpTo(more, n) = RunPositions(hist, e.run) \cup {n}
  BY <1>1 DEF RunPositions, RunEventsUpTo
<1>4. \A i \in DOMAIN hist : RunEventsUpTo(more, i) = RunEventsUpTo(hist, i)
  BY <1>1 DEF RunEventsUpTo
<1> QED
  BY <1>2, <1>3, <1>4

LEMMA PositionsAreCounted ==
  ASSUME NEW hist \in Seq(Event), NEW r
  PROVE  /\ RunPositions(hist, r) \subseteq DOMAIN hist /\ IsFiniteSet(RunPositions(hist, r))
         /\ Cardinality(RunPositions(hist, r)) \in Nat
         /\ Cardinality(RunPositions(hist, r)) = 0 <=> RunPositions(hist, r) = {}
<1>1. RunPositions(hist, r) \subseteq DOMAIN hist
  BY DEF RunPositions
<1>2. IsFiniteSet(DOMAIN hist)
  BY FS_Interval
<1>3. IsFiniteSet(RunPositions(hist, r))
  BY <1>1, <1>2, FS_Subset
<1> QED
  BY <1>1, <1>3, FS_EmptySet, FS_CardinalityType

(* Where an event stands in its run's trace. *)
LEMMA RankInRun ==
  ASSUME NEW hist \in Seq(Event), NEW i \in DOMAIN hist
  PROVE  /\ RunEventsUpTo(hist, i) \subseteq RunPositions(hist, hist[i].run) /\ i \in RunEventsUpTo(hist, i)
         /\ Cardinality(RunEventsUpTo(hist, i)) \in 1 .. Cardinality(RunPositions(hist, hist[i].run))
<1> DEFINE U == RunEventsUpTo(hist, i)
           P == RunPositions(hist, hist[i].run)
<1>1. U \subseteq P /\ i \in U
  BY DEF RunEventsUpTo, RunPositions
<1>2. IsFiniteSet(DOMAIN hist)
  BY FS_Interval
<1>3. P \subseteq DOMAIN hist
  BY DEF RunPositions
<1>4. IsFiniteSet(P)
  BY <1>2, <1>3, FS_Subset
<1> HIDE DEF U, P
<1>5. IsFiniteSet(U) /\ Cardinality(U) <= Cardinality(P) /\ Cardinality(P) \in Nat /\ Cardinality(U) \in Nat
  BY <1>1, <1>4, FS_Subset, FS_CardinalityType
<1>6. Cardinality(U) # 0
  BY <1>1, <1>5, FS_EmptySet
<1>7. Cardinality(U) \in 1 .. Cardinality(P)
  BY <1>5, <1>6
<1> QED
  BY <1>1, <1>7 DEF U, P

(* What TracesOf says of one run. *)
IsTrace(trace, hist, r) ==
  /\ trace \in Seq(Event) /\ Len(trace) = Cardinality(RunPositions(hist, r))
  /\ \A i \in RunPositions(hist, r) : trace[Cardinality(RunEventsUpTo(hist, i))] = hist[i]

(* The first event of a run closes no step, a later one closes one, from the *)
(* latest event of its run so far.                                           *)
LEMMA FirstOfRun ==
  ASSUME NEW hist, NEW e, NEW n, NEW more, Grows(hist, e, n, more),
         RunPositions(hist, e.run) = {}
  PROVE  RunEventsUpTo(more, n) = {n} /\ Steps(more) = Steps(hist)
<1>1. /\ DOMAIN more = DOMAIN hist \cup {n} /\ n \notin DOMAIN hist /\ n \in Nat
      /\ more[n] = e /\ \A i \in DOMAIN hist : i \in Nat /\ 0 < i /\ i < n /\ more[i] = hist[i]
      /\ DOMAIN hist = 1 .. n - 1
  BY DEF Grows
<1>2. RunEventsUpTo(more, n) = {n}
  <2>1. RunEventsUpTo(more, n) = RunPositions(hist, e.run) \cup {n}
    BY PositionsGrow
  <2> QED
    BY <2>1
<1>3. \A i \in DOMAIN hist : hist[i].run # e.run
  BY DEF RunPositions
<1>4. ASSUME NEW p \in (DOMAIN more) \X (DOMAIN more)
      PROVE  p \in Steps(more) <=> p \in Steps(hist)
  <2>1. p = <<p[1], p[2]>> /\ p[1] \in DOMAIN more /\ p[2] \in DOMAIN more
    OBVIOUS
  <2>2. CASE p[1] \in DOMAIN hist /\ p[2] \in DOMAIN hist
    <3>1. \A k \in p[1] + 1 .. p[2] - 1 : more[k] = hist[k]
      BY <1>1, <2>2
    <3>2. more[p[1]] = hist[p[1]] /\ more[p[2]] = hist[p[2]]
      BY <1>1, <2>2
    <3> QED
      BY <2>1, <2>2, <3>1, <3>2 DEF Steps
  <2>3. CASE p[1] = n
    <3>1. ~ (p[1] < p[2])
      BY <1>1, <2>1, <2>3
    <3> QED
      BY <1>1, <2>3, <3>1 DEF Steps
  <2>4. CASE p[2] = n /\ p[1] \in DOMAIN hist
    <3>1. more[p[1]].run # more[p[2]].run
      BY <1>1, <1>3, <2>4
    <3> QED
      BY <1>1, <2>4, <3>1 DEF Steps
  <2> QED
    BY <1>1, <2>1, <2>2, <2>3, <2>4
<1>5. Steps(more) \subseteq (DOMAIN more) \X (DOMAIN more) /\ Steps(hist) \subseteq (DOMAIN more) \X (DOMAIN more)
  BY <1>1 DEF Steps
<1> QED
  BY <1>2, <1>4, <1>5

LEMMA NextOfRun ==
  ASSUME NEW hist, NEW e, NEW n, NEW more, Grows(hist, e, n, more),
         NEW p \in RunPositions(hist, e.run), \A i \in RunPositions(hist, e.run) : i <= p
  PROVE  /\ RunEventsUpTo(more, n) # {n} /\ RunEventsUpTo(hist, p) = RunPositions(hist, e.run)
         /\ Steps(more) = Steps(hist) \cup {<<p, n>>}
<1>1. /\ DOMAIN more = DOMAIN hist \cup {n} /\ n \notin DOMAIN hist /\ n \in Nat
      /\ more[n] = e /\ \A i \in DOMAIN hist : i \in Nat /\ 0 < i /\ i < n /\ more[i] = hist[i]
      /\ DOMAIN hist = 1 .. n - 1
  BY DEF Grows
<1>2. p \in DOMAIN hist /\ hist[p].run = e.run
  BY DEF RunPositions
<1>3. RunEventsUpTo(more, n) # {n}
  <2>1. RunEventsUpTo(more, n) = RunPositions(hist, e.run) \cup {n}
    BY PositionsGrow
  <2> QED
    BY <1>1, <1>2, <2>1
<1>4. RunEventsUpTo(hist, p) = RunPositions(hist, e.run)
  <2>1. \A i \in RunPositions(hist, e.run) : i \in 1 .. p /\ hist[i].run = hist[p].run
    BY <1>1, <1>2 DEF RunPositions
  <2>2. \A i \in 1 .. p : i \in DOMAIN hist
    BY <1>1, <1>2
  <2> QED
    BY <1>2, <2>1, <2>2 DEF RunEventsUpTo, RunPositions
<1>5. ASSUME NEW s \in (DOMAIN more) \X (DOMAIN more)
      PROVE  s \in Steps(more) <=> s \in Steps(hist) \/ s = <<p, n>>
  <2>1. s = <<s[1], s[2]>> /\ s[1] \in DOMAIN more /\ s[2] \in DOMAIN more
    OBVIOUS
  <2>2. CASE s[1] \in DOMAIN hist /\ s[2] \in DOMAIN hist
    <3>1. \A k \in s[1] + 1 .. s[2] - 1 : more[k] = hist[k]
      BY <1>1, <2>2
    <3>2. more[s[1]] = hist[s[1]] /\ more[s[2]] = hist[s[2]] /\ s # <<p, n>>
      BY <1>1, <2>2
    <3> QED
      BY <2>1, <2>2, <3>1, <3>2 DEF Steps
  <2>3. CASE s[1] = n
    <3>1. ~ (s[1] < s[2]) /\ s # <<p, n>>
      BY <1>1, <1>2, <2>1, <2>3
    <3> QED
      BY <1>1, <2>3, <3>1 DEF Steps
  <2>4. CASE s[2] = n /\ s[1] \in DOMAIN hist
    <3>1. s \notin Steps(hist)
      BY <1>1, <2>4 DEF Steps
    <3>2. CASE s[1] = p
      <4>1. \A k \in p + 1 .. n - 1 : k \in DOMAIN hist /\ ~ (k <= p)
        BY <1>1, <1>2
      <4>2. \A k \in p + 1 .. n - 1 : more[k].run # e.run
        BY <1>1, <4>1 DEF RunPositions
      <4>3. p < n /\ more[p].run = e.run /\ more[n].run = e.run
        BY <1>1, <1>2
      <4> QED
        BY <2>1, <2>4, <3>2, <4>2, <4>3 DEF Steps
    <3>3. CASE s[1] # p
      <4>1. s # <<p, n>>
        BY <3>3
      <4>2. ASSUME s \in Steps(more) PROVE FALSE
        <5>1. hist[s[1]].run = e.run /\ \A k \in s[1] + 1 .. n - 1 : more[k].run # e.run
          BY <1>1, <2>4, <4>2 DEF Steps
        <5>2. s[1] <= p
          BY <2>4, <5>1 DEF RunPositions
        <5>3. p \in s[1] + 1 .. n - 1
          BY <1>1, <1>2, <2>4, <3>3, <5>2
        <5> QED
          BY <1>1, <1>2, <5>1, <5>3
      <4> QED
        BY <3>1, <4>1, <4>2
    <3> QED
      BY <3>2, <3>3
  <2> QED
    BY <1>1, <2>1, <2>2, <2>3, <2>4
<1>6. /\ Steps(more) \subseteq (DOMAIN more) \X (DOMAIN more)
      /\ Steps(hist) \cup {<<p, n>>} \subseteq (DOMAIN more) \X (DOMAIN more)
  BY <1>1, <1>2 DEF Steps
<1> QED
  BY <1>3, <1>4, <1>5, <1>6

LEMMA StepsAreFinite ==
  ASSUME NEW hist \in Seq(Event), NEW n, n = Len(hist) + 1
  PROVE  /\ IsFiniteSet(Steps(hist)) /\ \A p : <<p, n>> \notin Steps(hist)
         /\ \A S : S \subseteq Steps(hist) => IsFiniteSet(S)
<1>1. IsFiniteSet((DOMAIN hist) \X (DOMAIN hist))
  <2>1. IsFiniteSet(DOMAIN hist)
    BY FS_Interval
  <2> QED
    BY <2>1, FS_Product
<1>2. Steps(hist) \subseteq (DOMAIN hist) \X (DOMAIN hist)
  BY DEF Steps
<1>3. n \notin DOMAIN hist
  OBVIOUS
<1> QED
  BY <1>1, <1>2, <1>3, FS_Subset

-----------------------------------------------------------------------------
(* The miner's record and what process_event/2 does to each field.           *)
Fields == {"flow", "total", "agents", "traces", "edges", "counts", "starts", "variants",
           "observed", "deviant", "deviations", "refusals"}
Record == [run : Run, state : AgentStates, last : Activity, count : Nat, standing : Standing]

MinerOK(m) ==
  /\ m = [f \in Fields |-> m[f]]
  /\ m.total \in Nat /\ m.observed \in Nat /\ m.deviant \in Nat
  /\ m.agents \in [Agent -> Record \cup {NoAgent}]
  /\ m.traces \in [Run -> Seq(Event)]
  /\ m.edges \in [Edge -> Nat] /\ m.deviations \in [Edge -> Nat]
  /\ m.counts \in [Activity -> Nat] /\ m.starts \in [Activity -> Nat]
  /\ m.variants \in [DOMAIN m.variants -> Nat]
  /\ m.refusals \in Seq(Event)

(* The trace an event continues, the edge it closes there. *)
OldTrace(m, e) == m.traces[e.run]
ClosedEdge(m, e) == <<Last(OldTrace(m, e)).act, e.act>>

LEMMA TransitionKeeps ==
  ASSUME NEW m, MinerOK(m), NEW e \in Event
  PROVE  LET t == Transition(m, e) IN
         /\ t = [f \in Fields |-> t[f]]
         /\ t.flow = m.flow /\ t.total = m.total /\ t.counts = m.counts /\ t.traces = m.traces
         /\ t.agents = m.agents /\ t.variants = m.variants /\ t.refusals = m.refusals
<1> DEFINE t == Transition(m, e)
           old == OldTrace(m, e)
<1>1. /\ t = [f \in Fields |-> t[f]]
      /\ t.flow = m.flow /\ t.total = m.total /\ t.counts = m.counts /\ t.traces = m.traces
      /\ t.agents = m.agents /\ t.variants = m.variants /\ t.refusals = m.refusals
  <2>1. CASE old = <<>>
    <3>1. t = [m EXCEPT !.starts = [m.starts EXCEPT ![e.act] = @ + 1]]
      BY <2>1 DEF Transition, OldTrace
    <3> HIDE DEF t
    <3> QED
      BY <3>1 DEF MinerOK, Fields
  <2>2. CASE old # <<>>
    <3> DEFINE edge == <<Last(old).act, e.act>>
               o == Observe(m, edge)
    <3>1. t = [o EXCEPT !.edges = [o.edges EXCEPT ![edge] = @ + 1]]
      BY <2>2 DEF Transition, OldTrace
    <3>2. /\ o = [f \in Fields |-> o[f]]
          /\ o.flow = m.flow /\ o.total = m.total /\ o.counts = m.counts /\ o.traces = m.traces
          /\ o.agents = m.agents /\ o.variants = m.variants /\ o.refusals = m.refusals
      BY DEF Observe, MinerOK, Fields
    <3> HIDE DEF t, o
    <3> QED
      BY <3>1, <3>2 DEF Fields
  <2> QED
    BY <2>1, <2>2
<1> QED
  BY <1>1

(* What an event leaves in each table. *)
Folded(q, m, e) ==
  LET new == Extend(OldTrace(m, e), e) IN
  /\ q = [f \in Fields |-> q[f]]
  /\ q.flow = m.flow /\ q.total = m.total + 1
  /\ q.counts = [m.counts EXCEPT ![e.act] = @ + 1]
  /\ q.traces = [m.traces EXCEPT ![e.run] = new]
  /\ q.agents = [m.agents EXCEPT ![e.agent] = AgentRecord(e, new)]
  /\ q.variants = UpdateVariants(m.variants, OldTrace(m, e), Path(new))
  /\ q.refusals = IF IsRefusal(e) THEN <<e>> \o m.refusals ELSE m.refusals

(* And in those of its run's steps. *)
Moved(q, m, e) ==
  LET edge == ClosedEdge(m, e) IN
  /\ OldTrace(m, e) = <<>> =>
       /\ q.starts = [m.starts EXCEPT ![e.act] = @ + 1]
       /\ q.edges = m.edges /\ q.observed = m.observed
       /\ q.deviant = m.deviant /\ q.deviations = m.deviations
  /\ OldTrace(m, e) # <<>> =>
       /\ q.starts = m.starts
       /\ q.edges = [m.edges EXCEPT ![edge] = @ + 1] /\ q.observed = m.observed + 1
       /\ IF Lawful(edge, m.flow)
          THEN q.deviant = m.deviant /\ q.deviations = m.deviations
          ELSE q.deviant = m.deviant + 1 /\ q.deviations = [m.deviations EXCEPT ![edge] = @ + 1]

(* The tables the step to the next event of a run changes, per Transition. *)
LEMMA TransitionMoves ==
  ASSUME NEW m, MinerOK(m), NEW e \in Event
  PROVE  Moved(Transition(m, e), m, e)
<1> DEFINE old == OldTrace(m, e)
           t == Transition(m, e)
           edge == ClosedEdge(m, e)
<1>1. ASSUME old = <<>>
      PROVE  /\ t.starts = [m.starts EXCEPT ![e.act] = @ + 1]
             /\ t.edges = m.edges /\ t.observed = m.observed
             /\ t.deviant = m.deviant /\ t.deviations = m.deviations
  <2> DEFINE starts == [m.starts EXCEPT ![e.act] = @ + 1]
  <2>1. t = [m EXCEPT !.starts = starts]
    BY <1>1 DEF Transition, OldTrace
  <2> HIDE DEF starts, t
  <2>2. /\ t.starts = starts
        /\ t.edges = m.edges /\ t.observed = m.observed
        /\ t.deviant = m.deviant /\ t.deviations = m.deviations
    BY <2>1 DEF MinerOK, Fields
  <2> QED
    BY <2>2 DEF starts
<1>2. ASSUME old # <<>>
      PROVE  /\ t.starts = m.starts
             /\ t.edges = [m.edges EXCEPT ![edge] = @ + 1] /\ t.observed = m.observed + 1
             /\ IF Lawful(edge, m.flow)
                THEN t.deviant = m.deviant /\ t.deviations = m.deviations
                ELSE t.deviant = m.deviant + 1 /\ t.deviations = [m.deviations EXCEPT ![edge] = @ + 1]
  <2> DEFINE o == Observe(m, edge)
             edges == [o.edges EXCEPT ![edge] = @ + 1]
             deviations == [m.deviations EXCEPT ![edge] = @ + 1]
  <2>1. t = [o EXCEPT !.edges = edges]
    BY <1>2 DEF Transition, OldTrace, ClosedEdge
  <2>2. o = IF Lawful(edge, m.flow) THEN [m EXCEPT !.observed = m.observed + 1]
            ELSE [m EXCEPT !.observed = m.observed + 1, !.deviant = m.deviant + 1, !.deviations = deviations]
    BY DEF Observe
  <2> HIDE DEF t, edge, o, deviations
  <2>3. /\ o = [f \in Fields |-> o[f]] /\ o.starts = m.starts /\ o.edges = m.edges
        /\ o.observed = m.observed + 1
        /\ IF Lawful(edge, m.flow)
           THEN o.deviant = m.deviant /\ o.deviations = m.deviations
           ELSE o.deviant = m.deviant + 1 /\ o.deviations = deviations
    BY <2>2 DEF MinerOK, Fields
  <2>4. /\ t.starts = o.starts /\ t.observed = o.observed /\ t.deviant = o.deviant /\ t.deviations = o.deviations
        /\ t.edges = edges
    <3> HIDE DEF edges
    <3> QED
      BY <2>1, <2>3 DEF Fields
  <2>5. edges = [m.edges EXCEPT ![edge] = @ + 1]
    BY <2>3
  <2> HIDE DEF edges
  <2>6. /\ t.starts = m.starts
        /\ t.edges = edges /\ t.observed = m.observed + 1
        /\ IF Lawful(edge, m.flow)
           THEN t.deviant = m.deviant /\ t.deviations = m.deviations
           ELSE t.deviant = m.deviant + 1 /\ t.deviations = deviations
    BY <2>3, <2>4
  <2> QED
    BY <2>5, <2>6 DEF deviations
<1> QED
  BY <1>1, <1>2 DEF Moved

LEMMA EventFields ==
  ASSUME NEW m, MinerOK(m), NEW e \in Event
  PROVE  Folded(ProcessEvent(m, e), m, e) /\ Moved(ProcessEvent(m, e), m, e)
<1> DEFINE q == ProcessEvent(m, e)
           t == Transition(m, e)
           old == OldTrace(m, e)
           new == Extend(old, e)
           counts == [t.counts EXCEPT ![e.act] = @ + 1]
           traces == [t.traces EXCEPT ![e.run] = new]
           agents == [t.agents EXCEPT ![e.agent] = AgentRecord(e, new)]
           refusals == IF IsRefusal(e) THEN <<e>> \o t.refusals ELSE t.refusals
           variants == UpdateVariants(t.variants, old, Path(new))
<1>1. /\ t = [f \in Fields |-> t[f]]
      /\ t.flow = m.flow /\ t.total = m.total /\ t.counts = m.counts /\ t.traces = m.traces
      /\ t.agents = m.agents /\ t.variants = m.variants /\ t.refusals = m.refusals
  BY TransitionKeeps
<1>2. q = [t EXCEPT !.total = t.total + 1, !.counts = counts, !.traces = traces, 
             !.agents = agents, !.refusals = refusals, !.variants = variants]
  BY DEF ProcessEvent, OldTrace
<1>3. /\ counts = [m.counts EXCEPT ![e.act] = @ + 1]
      /\ traces = [m.traces EXCEPT ![e.run] = new]
      /\ agents = [m.agents EXCEPT ![e.agent] = AgentRecord(e, new)]
      /\ refusals = IF IsRefusal(e) THEN <<e>> \o m.refusals ELSE m.refusals
      /\ variants = UpdateVariants(m.variants, old, Path(new))
  <2> HIDE DEF t
  <2> QED
    BY <1>1, Zenon
<1> HIDE DEF q, t, counts, traces, agents, refusals, variants
<1>4. /\ q.flow = t.flow /\ q.total = t.total + 1
      /\ q.counts = counts /\ q.traces = traces /\ q.agents = agents
      /\ q.variants = variants /\ q.refusals = refusals
  BY <1>1, <1>2 DEF Fields
<1>5. /\ q.starts = t.starts /\ q.edges = t.edges /\ q.observed = t.observed
      /\ q.deviant = t.deviant /\ q.deviations = t.deviations
  BY <1>1, <1>2 DEF Fields
<1>6. q = [f \in Fields |-> q[f]]
  BY <1>1, <1>2 DEF Fields
<1>7. q.flow = m.flow /\ q.total = m.total + 1
  BY <1>1, <1>4
<1>8. Folded(q, m, e)
  BY <1>3, <1>4, <1>6, <1>7 DEF Folded
<1>9. Moved(q, m, e)
  <2>1. Moved(t, m, e)
    BY TransitionMoves DEF t
  <2> QED
    BY <1>5, <2>1 DEF Moved
<1> QED
  BY <1>8, <1>9 DEF q

LEMMA TracesGrow ==
  ASSUME NEW hist, NEW e, NEW n, NEW more, Grows(hist, e, n, more),
         NEW m, MinerOK(m), TracesOf(m, hist),
         NEW q, q.traces = [m.traces EXCEPT ![e.run] = Extend(OldTrace(m, e), e)]
  PROVE  TracesOf(q, more)
<1> DEFINE old == OldTrace(m, e)
           new == Append(old, e)
           Rank(i) == Cardinality(RunEventsUpTo(more, i))
<1>1. /\ hist \in Seq(Event) /\ e \in Event /\ n \in Nat /\ more[n] = e
      /\ DOMAIN more = DOMAIN hist \cup {n} /\ n \notin DOMAIN hist
      /\ \A i \in DOMAIN hist : more[i] = hist[i] /\ hist[i] \in Event
  BY DEF Grows
<1>2. e.run \in Run /\ \A i \in DOMAIN hist : hist[i].run \in Run
  BY <1>1 DEF Event
<1>3. /\ m.traces \in [Run -> Seq(Event)] /\ old \in Seq(Event)
      /\ \A r \in Run : Len(m.traces[r]) = Cardinality(RunPositions(hist, r))
      /\ \A i \in DOMAIN hist : m.traces[hist[i].run][Cardinality(RunEventsUpTo(hist, i))] = hist[i]
  BY <1>2 DEF MinerOK, TracesOf, OldTrace
<1>4. /\ new \in Seq(Event) /\ Len(new) = Len(old) + 1 /\ new[Len(old) + 1] = e
      /\ \A k \in 1 .. Len(old) : new[k] = old[k]
  BY <1>1, <1>3
<1>5. q.traces[e.run] = new /\ \A r \in Run \ {e.run} : q.traces[r] = m.traces[r]
  BY <1>2, <1>3 DEF Extend
<1>6. /\ RunPositions(more, e.run) = RunPositions(hist, e.run) \cup {n}
      /\ RunEventsUpTo(more, n) = RunPositions(hist, e.run) \cup {n}
      /\ \A r \in Run \ {e.run} : RunPositions(more, r) = RunPositions(hist, r)
      /\ \A i \in DOMAIN hist : RunEventsUpTo(more, i) = RunEventsUpTo(hist, i)
  BY PositionsGrow
<1>7. Cardinality(RunPositions(hist, e.run) \cup {n}) = Len(old) + 1
  <2>1. RunPositions(hist, e.run) \subseteq DOMAIN hist /\ IsFiniteSet(RunPositions(hist, e.run))
    BY <1>1, PositionsAreCounted
  <2>2. n \notin RunPositions(hist, e.run)
    BY <1>1, <2>1
  <2> QED
    <3>1. Cardinality(RunPositions(hist, e.run) \cup {n}) = Cardinality(RunPositions(hist, e.run)) + 1
      BY <2>1, <2>2, OneMore
    <3> QED
      BY <1>2, <1>3, <3>1 DEF OldTrace
<1> HIDE DEF new, old
<1>8. ASSUME NEW r \in Run PROVE Len(q.traces[r]) = Cardinality(RunPositions(more, r))
  BY <1>3, <1>4, <1>5, <1>6, <1>7
<1>9. ASSUME NEW i \in DOMAIN more PROVE q.traces[more[i].run][Rank(i)] = more[i]
  <2>1. CASE i = n
    BY <1>1, <1>4, <1>5, <1>6, <1>7, <2>1
  <2>2. CASE i \in DOMAIN hist /\ hist[i].run = e.run
    <3>1. Rank(i) \in 1 .. Len(old)
      <4>1. Cardinality(RunEventsUpTo(hist, i)) \in 1 .. Cardinality(RunPositions(hist, hist[i].run))
        BY <1>1, <2>2, RankInRun
      <4> QED
        BY <1>2, <1>3, <1>6, <2>2, <4>1 DEF old, OldTrace
    <3>2. old[Rank(i)] = hist[i]
      BY <1>3, <1>6, <2>2 DEF old, OldTrace
    <3> QED
      BY <1>1, <1>4, <1>5, <2>2, <3>1, <3>2
  <2>3. CASE i \in DOMAIN hist /\ hist[i].run # e.run
    BY <1>1, <1>2, <1>3, <1>5, <1>6, <2>3
  <2> QED
    BY <1>1, <2>1, <2>2, <2>3
<1> QED
  BY <1>8, <1>9 DEF TracesOf

(* The edge an event closes leads to it from the event its run's trace ends with. *)
LEMMA StepsGrow ==
  ASSUME NEW hist, NEW e, NEW n, NEW more, Grows(hist, e, n, more), NEW m, MinerOK(m), TracesOf(m, hist)
  PROVE  /\ OldTrace(m, e) = <<>> => RunPositions(hist, e.run) = {} /\ Steps(more) = Steps(hist)
         /\ OldTrace(m, e) # <<>> =>
              /\ RunPositions(hist, e.run) # {} /\ ClosedEdge(m, e) \in Edge
              /\ \E p \in DOMAIN hist :
                   Steps(more) = Steps(hist) \cup {<<p, n>>} /\ EdgeOf(more, <<p, n>>) = ClosedEdge(m, e)
<1> DEFINE old == OldTrace(m, e)
<1>1. /\ hist \in Seq(Event) /\ e \in Event /\ n \in Nat /\ more[n] = e
      /\ \A i \in DOMAIN hist : more[i] = hist[i]
  BY DEF Grows
<1>2. e.run \in Run /\ e.act \in Activity
  BY <1>1 DEF Event
<1>3. /\ old \in Seq(Event) /\ Len(old) = Cardinality(RunPositions(hist, e.run))
      /\ \A i \in DOMAIN hist : hist[i].run = e.run => old[Cardinality(RunEventsUpTo(hist, i))] = hist[i]
  BY <1>2 DEF MinerOK, TracesOf, OldTrace
<1>4. /\ RunPositions(hist, e.run) \subseteq DOMAIN hist
      /\ Cardinality(RunPositions(hist, e.run)) = 0 <=> RunPositions(hist, e.run) = {}
  BY <1>1, PositionsAreCounted
<1>5. old = <<>> <=> RunPositions(hist, e.run) = {}
  BY <1>3, <1>4
<1>6. CASE RunPositions(hist, e.run) = {}
  BY <1>5, <1>6, FirstOfRun
<1>7. CASE RunPositions(hist, e.run) # {}
  <2>1. RunPositions(hist, e.run) \in SUBSET (1 .. Len(hist)) /\ Len(hist) \in Nat
    BY <1>1, <1>4
  <2>2. PICK p \in RunPositions(hist, e.run) : \A i \in RunPositions(hist, e.run) : i <= p
    BY <1>7, <2>1, Latest
  <2>3. RunEventsUpTo(hist, p) = RunPositions(hist, e.run) /\ Steps(more) = Steps(hist) \cup {<<p, n>>}
    BY <2>2, NextOfRun
  <2>4. p \in DOMAIN hist /\ hist[p].run = e.run
    BY <2>2 DEF RunPositions
  <2>5. Last(old) = hist[p]
    BY <1>3, <2>3, <2>4 DEF Last
  <2>6. EdgeOf(more, <<p, n>>) = ClosedEdge(m, e)
    BY <1>1, <2>4, <2>5 DEF EdgeOf, ClosedEdge
  <2>7. ClosedEdge(m, e) \in Edge
    <3>1. hist[p] \in Event
      BY <2>4 DEF Grows
    <3>2. hist[p].act \in Activity
      BY <3>1 DEF Event
    <3> QED
      BY <1>2, <2>5, <3>2 DEF Edge, ClosedEdge
  <2> QED
    BY <1>5, <1>7, <2>3, <2>4, <2>6, <2>7
<1> QED
  BY <1>6, <1>7

-----------------------------------------------------------------------------
(* What holds while e is folded into m, whose tables are those of hist. *)
Folds(m, hist, e, n, more) ==
  /\ Grows(hist, e, n, more) /\ MinerOK(m)
  /\ TracesOf(m, hist)

(* Each table stays that of the history.                                     *)
LEMMA DfgGrows ==
  ASSUME NEW hist, NEW e, NEW n, NEW more, NEW m, Folds(m, hist, e, n, more), DfgOf(m, hist)
  PROVE  DfgOf(ProcessEvent(m, e), more)
<1> DEFINE q == ProcessEvent(m, e)
           old == OldTrace(m, e)
           edge == ClosedEdge(m, e)
           Acts(h, a) == {i \in DOMAIN h : h[i].act = a}
           Firsts(h, a) == {i \in DOMAIN h : RunEventsUpTo(h, i) = {i} /\ h[i].act = a}
           Taken(h, d) == {p \in Steps(h) : EdgeOf(h, p) = d}
<1>0. Grows(hist, e, n, more) /\ MinerOK(m) /\ TracesOf(m, hist) /\ e \in Event
  BY DEF Folds, Grows
<1>1. /\ hist \in Seq(Event) /\ e \in Event /\ n \in Nat /\ more[n] = e /\ n = Len(hist) + 1 /\ Len(more) = n
      /\ DOMAIN more = DOMAIN hist \cup {n} /\ n \notin DOMAIN hist
      /\ \A i \in DOMAIN hist : more[i] = hist[i]
  BY DEF Folds, Grows
<1>2. /\ m.total = Len(hist) /\ m.counts \in [Activity -> Nat] /\ m.starts \in [Activity -> Nat] /\ m.edges \in [Edge -> Nat]
      /\ \A a \in Activity : m.counts[a] = Cardinality(Acts(hist, a)) /\ m.starts[a] = Cardinality(Firsts(hist, a))
      /\ \A d \in Edge : m.edges[d] = Cardinality(Taken(hist, d))
  BY <1>0, <1>1 DEF DfgOf, MinerOK
<1>3. Folded(q, m, e) /\ Moved(q, m, e)
  BY <1>0, EventFields
<1>4. e.act \in Activity /\ e.run \in Run
  BY <1>1 DEF Event
<1>6. /\ old = <<>> => RunPositions(hist, e.run) = {} /\ Steps(more) = Steps(hist)
      /\ old # <<>> => /\ RunPositions(hist, e.run) # {}
                       /\ \E p \in DOMAIN hist : /\ Steps(more) = Steps(hist) \cup {<<p, n>>}
                                                 /\ EdgeOf(more, <<p, n>>) = edge
                       /\ edge \in Edge
  BY <1>0, StepsGrow
<1>5. /\ q.total = m.total + 1 /\ q.counts = [m.counts EXCEPT ![e.act] = @ + 1]
      /\ old = <<>> => q.starts = [m.starts EXCEPT ![e.act] = @ + 1] /\ q.edges = m.edges
      /\ old # <<>> => q.starts = m.starts /\ q.edges = [m.edges EXCEPT ![edge] = @ + 1]
  BY <1>3 DEF Folded, Moved
<1> HIDE DEF q, old, edge
<1>7. q.total = Len(more)
  BY <1>1, <1>2, <1>5
<1>8. ASSUME NEW a \in Activity PROVE q.counts[a] = Cardinality(Acts(more, a))
  <2>1. IsFiniteSet(Acts(hist, a)) /\ n \notin Acts(hist, a)
    BY <1>1, PositionsAreFinite
  <2>2. CASE a = e.act
    <3>1. Acts(more, a) = Acts(hist, a) \cup {n}
      BY <1>1, <2>2
    <3>2. Cardinality(Acts(more, a)) = Cardinality(Acts(hist, a)) + 1
      BY <2>1, <3>1, OneMore
    <3> QED
      BY <1>2, <1>5, <2>2, <3>2
  <2>3. CASE a # e.act
    <3>1. Acts(more, a) = Acts(hist, a)
      BY <1>1, <2>3
    <3> QED
      BY <1>2, <1>5, <2>3, <3>1
  <2> QED
    BY <2>2, <2>3
<1>9. ASSUME NEW a \in Activity PROVE q.starts[a] = Cardinality(Firsts(more, a))
  <2>1. IsFiniteSet(Firsts(hist, a)) /\ n \notin Firsts(hist, a)
    BY <1>1, PositionsAreFinite
  <2>2. \A i \in DOMAIN hist : RunEventsUpTo(more, i) = RunEventsUpTo(hist, i)
    BY <1>0, PositionsGrow
  <2>3. RunEventsUpTo(more, n) = {n} <=> old = <<>>
    <3>1. RunEventsUpTo(more, n) = RunPositions(hist, e.run) \cup {n}
      BY <1>0, PositionsGrow
    <3>2. RunPositions(hist, e.run) \subseteq DOMAIN hist
      BY DEF RunPositions
    <3> QED
      BY <1>1, <1>6, <3>1, <3>2
  <2>4. CASE old = <<>> /\ a = e.act
    <3>1. Firsts(more, a) = Firsts(hist, a) \cup {n}
      BY <1>1, <2>2, <2>3, <2>4
    <3>2. Cardinality(Firsts(more, a)) = Cardinality(Firsts(hist, a)) + 1
      BY <2>1, <3>1, OneMore
    <3> QED
      BY <1>2, <1>5, <2>4, <3>2
  <2>5. CASE ~ (old = <<>> /\ a = e.act)
    <3>1. Firsts(more, a) = Firsts(hist, a)
      BY <1>1, <2>2, <2>3, <2>5
    <3>2. q.starts[a] = m.starts[a]
      BY <1>2, <1>5, <2>5
    <3> QED
      BY <1>2, <3>1, <3>2
  <2> QED
    BY <2>4, <2>5
<1>10. ASSUME NEW d \in Edge PROVE q.edges[d] = Cardinality(Taken(more, d))
  <2>1. \A p \in Steps(hist) : EdgeOf(more, p) = EdgeOf(hist, p)
    BY <1>1 DEF Steps, EdgeOf
  <2>2. IsFiniteSet(Taken(hist, d)) /\ \A p : <<p, n>> \notin Taken(hist, d)
    BY <1>1, StepsAreFinite
  <2>3. CASE old = <<>>
    <3>1. Taken(more, d) = Taken(hist, d)
      BY <1>6, <2>1, <2>3
    <3> QED
      BY <1>2, <1>5, <2>3, <3>1
  <2>4. CASE old # <<>>
    <3>1. PICK p \in DOMAIN hist : Steps(more) = Steps(hist) \cup {<<p, n>>} /\ EdgeOf(more, <<p, n>>) = edge
      BY <1>6, <2>4
    <3>2. CASE d = edge
      <4>1. Taken(more, d) = Taken(hist, d) \cup {<<p, n>>}
        BY <2>1, <3>1, <3>2
      <4>2. Cardinality(Taken(more, d)) = Cardinality(Taken(hist, d)) + 1
        BY <2>2, <4>1, OneMore
      <4> QED
        BY <1>2, <1>5, <2>4, <3>2, <4>2
    <3>3. CASE d # edge
      <4>1. Taken(more, d) = Taken(hist, d)
        BY <2>1, <3>1, <3>3
      <4> QED
        BY <1>2, <1>5, <2>4, <3>3, <4>1
    <3> QED
      BY <3>2, <3>3
  <2> QED
    BY <2>3, <2>4
<1> QED
  BY <1>7, <1>8, <1>9, <1>10 DEF DfgOf, q

LEMMA ConformanceGrows ==
  ASSUME NEW hist, NEW e, NEW n, NEW more, NEW m, Folds(m, hist, e, n, more), ConformanceOf(m, hist)
  PROVE  ConformanceOf(ProcessEvent(m, e), more)
<1> DEFINE q == ProcessEvent(m, e)
           old == OldTrace(m, e)
           edge == ClosedEdge(m, e)
           Bad(h) == {p \in Steps(h) : ~ Lawful(EdgeOf(h, p), m.flow)}
           BadAt(h, d) == {p \in Bad(h) : EdgeOf(h, p) = d}
<1>0. Grows(hist, e, n, more) /\ MinerOK(m) /\ TracesOf(m, hist) /\ e \in Event
  BY DEF Folds, Grows
<1>1. /\ hist \in Seq(Event) /\ n \in Nat /\ n = Len(hist) + 1
      /\ \A i \in DOMAIN hist : more[i] = hist[i]
  BY <1>0 DEF Grows
<1>2. /\ m.observed \in Nat /\ m.deviant \in Nat /\ m.deviations \in [Edge -> Nat]
      /\ m.observed = Cardinality(Steps(hist)) /\ m.deviant = Cardinality(Bad(hist))
      /\ \A d \in Edge : m.deviations[d] = Cardinality(BadAt(hist, d))
  BY <1>0 DEF ConformanceOf, MinerOK
<1>3. Folded(q, m, e) /\ Moved(q, m, e)
  BY <1>0, EventFields
<1>4. /\ q.flow = m.flow
      /\ old = <<>> => q.observed = m.observed /\ q.deviant = m.deviant /\ q.deviations = m.deviations
      /\ old # <<>> =>
           /\ q.observed = m.observed + 1
           /\ IF Lawful(edge, m.flow)
              THEN q.deviant = m.deviant /\ q.deviations = m.deviations
              ELSE q.deviant = m.deviant + 1 /\ q.deviations = [m.deviations EXCEPT ![edge] = @ + 1]
  BY <1>3 DEF Folded, Moved
<1>5. /\ old = <<>> => Steps(more) = Steps(hist)
      /\ old # <<>> => /\ \E p \in DOMAIN hist : /\ Steps(more) = Steps(hist) \cup {<<p, n>>}
                                                 /\ EdgeOf(more, <<p, n>>) = edge
                       /\ edge \in Edge
  BY <1>0, StepsGrow
<1>6. /\ IsFiniteSet(Steps(hist)) /\ \A p : <<p, n>> \notin Steps(hist)
      /\ \A S : S \subseteq Steps(hist) => IsFiniteSet(S)
  BY <1>1, StepsAreFinite
<1>7. \A p \in Steps(hist) : EdgeOf(more, p) = EdgeOf(hist, p)
  BY <1>1 DEF Steps, EdgeOf
<1> HIDE DEF q, old, edge
<1>8. CASE old = <<>>
  <2>1. Steps(more) = Steps(hist) /\ Bad(more) = Bad(hist) /\ \A d \in Edge : BadAt(more, d) = BadAt(hist, d)
    BY <1>5, <1>7, <1>8
  <2>2. /\ q.observed = Cardinality(Steps(more)) /\ q.deviant = Cardinality(Bad(more))
        /\ \A d \in Edge : q.deviations[d] = Cardinality(BadAt(more, d))
    BY <1>2, <1>4, <1>8, <2>1
  <2> QED
    BY <1>4, <2>2 DEF ConformanceOf, q
<1>9. CASE old # <<>>
  <2>1. PICK p \in DOMAIN hist : Steps(more) = Steps(hist) \cup {<<p, n>>} /\ EdgeOf(more, <<p, n>>) = edge
    BY <1>5, <1>9
  <2>2. q.observed = Cardinality(Steps(more))
    <3>1. Cardinality(Steps(more)) = Cardinality(Steps(hist)) + 1
      BY <1>6, <2>1, OneMore
    <3> QED
      BY <1>2, <1>4, <1>9, <3>1
  <2>3. CASE Lawful(edge, m.flow)
    <3>1. Bad(more) = Bad(hist)
      BY <1>7, <2>1, <2>3
    <3>2. \A d \in Edge : BadAt(more, d) = BadAt(hist, d)
      BY <1>7, <3>1
    <3>3. q.deviant = Cardinality(Bad(more)) /\ \A d \in Edge : q.deviations[d] = Cardinality(BadAt(more, d))
      BY <1>2, <1>4, <1>9, <2>3, <3>1, <3>2
    <3> QED
      BY <1>4, <2>2, <3>3 DEF ConformanceOf, q
  <2>4. CASE ~ Lawful(edge, m.flow)
    <3>1. Bad(more) = Bad(hist) \cup {<<p, n>>}
      BY <1>7, <2>1, <2>4
    <3>2. q.deviant = Cardinality(Bad(more))
      <4>1. IsFiniteSet(Bad(hist)) /\ <<p, n>> \notin Bad(hist)
        BY <1>6
      <4>2. Cardinality(Bad(more)) = Cardinality(Bad(hist)) + 1
        BY <3>1, <4>1, OneMore
      <4> QED
        BY <1>2, <1>4, <1>9, <2>4, <4>2
    <3>3. ASSUME NEW d \in Edge PROVE q.deviations[d] = Cardinality(BadAt(more, d))
      <4>1. IsFiniteSet(BadAt(hist, d)) /\ <<p, n>> \notin BadAt(hist, d)
        BY <1>6
      <4>2. CASE d = edge
        <5>1. BadAt(more, d) = BadAt(hist, d) \cup {<<p, n>>}
          BY <1>7, <2>1, <3>1, <4>2
        <5>2. Cardinality(BadAt(more, d)) = Cardinality(BadAt(hist, d)) + 1
          BY <4>1, <5>1, OneMore
        <5> QED
          BY <1>2, <1>4, <1>9, <2>4, <4>2, <5>2
      <4>3. CASE d # edge
        <5>1. BadAt(more, d) = BadAt(hist, d)
          BY <1>7, <2>1, <3>1, <4>3
        <5> QED
          BY <1>2, <1>4, <1>5, <1>9, <2>4, <4>3, <5>1
      <4> QED
        BY <4>2, <4>3
    <3> QED
      BY <1>4, <2>2, <3>2, <3>3 DEF ConformanceOf, q
  <2> QED
    BY <2>3, <2>4
<1> QED
  BY <1>8, <1>9

LEMMA FleetGrows ==
  ASSUME NEW hist, NEW e, NEW n, NEW more, NEW m, Folds(m, hist, e, n, more), FleetOf(m, hist)
  PROVE  FleetOf(ProcessEvent(m, e), more)
<1> DEFINE q == ProcessEvent(m, e)
           new == Extend(OldTrace(m, e), e)
           Mine(h, a) == {i \in DOMAIN h : h[i].agent = a}
           Newest(h, a, r, i) ==
             /\ i \in Mine(h, a) /\ \A j \in Mine(h, a) : j <= i
             /\ r.run = h[i].run /\ r.last = h[i].act
             /\ r.count = Cardinality(RunEventsUpTo(h, i))
             /\ r.state = "refused" => IsRefusal(h[i]) \/ Kind[h[i].act] = "refused"
<1>0. Grows(hist, e, n, more) /\ MinerOK(m) /\ TracesOf(m, hist) /\ e \in Event
  BY DEF Folds, Grows
<1>1. /\ hist \in Seq(Event) /\ n \in Nat /\ n = Len(hist) + 1 /\ more[n] = e
      /\ DOMAIN more = DOMAIN hist \cup {n} /\ n \notin DOMAIN hist
      /\ \A i \in DOMAIN hist : more[i] = hist[i] /\ i \in Nat /\ i < n
  BY <1>0 DEF Grows
<1>2. e.agent \in Agent /\ e.run \in Run
  BY <1>0 DEF Event
<1>3. q.agents = [m.agents EXCEPT ![e.agent] = AgentRecord(e, new)] /\ q.traces = [m.traces EXCEPT ![e.run] = new]
  <2>1. Folded(q, m, e)
    BY <1>0, EventFields
  <2> QED
    BY <2>1 DEF Folded
<1>4. DOMAIN m.agents = Agent /\ DOMAIN m.traces = Run
  BY <1>0 DEF MinerOK
<1>5. TracesOf(q, more)
  BY <1>0, <1>3, TracesGrow
<1> HIDE DEF q, new
<1>6. Len(new) = Cardinality(RunEventsUpTo(more, n))
  <2>1. Len(q.traces[e.run]) = Cardinality(RunPositions(more, e.run))
    BY <1>2, <1>5 DEF TracesOf
  <2>2. RunEventsUpTo(more, n) = RunPositions(more, e.run)
    <3>1. /\ RunEventsUpTo(more, n) = RunPositions(hist, e.run) \cup {n}
          /\ RunPositions(more, e.run) = RunPositions(hist, e.run) \cup {n}
      BY <1>0, PositionsGrow
    <3> QED
      BY <3>1, Zenon
  <2> QED
    BY <1>2, <1>3, <1>4, <2>1, <2>2
<1>7. \A i \in DOMAIN hist : RunEventsUpTo(more, i) = RunEventsUpTo(hist, i)
  BY <1>0, PositionsGrow
<1>8. ASSUME NEW a \in Agent
      PROVE  IF Mine(more, a) = {} THEN q.agents[a] = NoAgent ELSE \E i : Newest(more, a, q.agents[a], i)
  <2>1. CASE a = e.agent
    <3>1. q.agents[a] = AgentRecord(e, new)
      BY <1>3, <1>4, <2>1
    <3>2. n \in Mine(more, a) /\ \A j \in Mine(more, a) : j <= n
      BY <1>1, <2>1
    <3>3. /\ AgentRecord(e, new).run = e.run /\ AgentRecord(e, new).last = e.act
          /\ AgentRecord(e, new).count = Len(new) /\ AgentRecord(e, new).state = AgentState(e)
      BY DEF AgentRecord
    <3>4. AgentState(e) = "refused" => IsRefusal(e) \/ Kind[e.act] = "refused"
      BY DEF AgentState, IsRefusal
    <3>5. Newest(more, a, q.agents[a], n)
      BY <1>1, <1>6, <3>1, <3>2, <3>3, <3>4
    <3> QED
      BY <3>2, <3>5
  <2>2. CASE a # e.agent
    <3>1. q.agents[a] = m.agents[a]
      BY <1>3, <1>4, <2>2
    <3>2. Mine(more, a) = Mine(hist, a)
      BY <1>1, <2>2
    <3>3. IF Mine(hist, a) = {} THEN m.agents[a] = NoAgent ELSE \E i : Newest(hist, a, m.agents[a], i)
      BY DEF FleetOf
    <3>4. \A i \in Mine(hist, a) : more[i] = hist[i] /\ RunEventsUpTo(more, i) = RunEventsUpTo(hist, i)
      BY <1>1, <1>7
    <3> QED
      BY <3>1, <3>2, <3>3, <3>4
  <2> QED
    BY <2>1, <2>2
<1>9. FleetOf(q, more)
  BY <1>8 DEF FleetOf
<1> QED
  BY <1>9 DEF q

(* variants counts, per path, the runs of R whose traces have it. *)
Histogram(variants, R, path) ==
  /\ IsFiniteSet(R) /\ variants \in [{path[r] : r \in R} -> Nat]
  /\ \A v \in DOMAIN variants : variants[v] = Cardinality({r \in R : path[r] = v})

LEMMA HistogramLoses ==
  ASSUME NEW variants, NEW R, NEW path, Histogram(variants, R, path), NEW r0 \in R
  PROVE  Histogram(TakeOut(variants, path[r0]), R \ {r0}, path)
<1> DEFINE v0 == path[r0]
           less == R \ {r0}
           With(S, v) == {r \in S : path[r] = v}
           rest == TakeOut(variants, v0)
<1>1. /\ IsFiniteSet(R) /\ variants \in [{path[r] : r \in R} -> Nat]
      /\ \A v \in DOMAIN variants : variants[v] = Cardinality(With(R, v))
  BY DEF Histogram
<1>2. v0 \in DOMAIN variants /\ IsFiniteSet(less)
  BY <1>1, FS_Subset
<1>3. \A v : IsFiniteSet(With(less, v)) /\ Cardinality(With(less, v)) \in Nat
  BY <1>2, FS_Subset, FS_CardinalityType
<1>4. Cardinality(With(R, v0)) = Cardinality(With(less, v0)) + 1
  <2>1. With(R, v0) = With(less, v0) \cup {r0} /\ r0 \notin With(less, v0)
    OBVIOUS
  <2> QED
    BY <1>3, <2>1, OneMore
<1>5. \A v : v # v0 => With(R, v) = With(less, v)
  OBVIOUS
<1>6. CASE variants[v0] = 1
  <2>1. rest = [p \in DOMAIN variants \ {v0} |-> variants[p]]
    BY <1>2, <1>6 DEF TakeOut
  <2>2. With(less, v0) = {}
    BY <1>1, <1>2, <1>3, <1>4, <1>6, FS_EmptySet
  <2>3. {path[r] : r \in less} = DOMAIN variants \ {v0}
    BY <1>1, <2>2
  <2>4. \A v \in DOMAIN rest : rest[v] = Cardinality(With(less, v))
    BY <1>1, <1>5, <2>1
  <2> QED
    BY <1>1, <1>2, <2>1, <2>3, <2>4 DEF Histogram
<1>7. CASE variants[v0] # 1
  <2>1. rest = [variants EXCEPT ![v0] = @ - 1]
    BY <1>2, <1>7 DEF TakeOut
  <2>2. With(less, v0) # {} /\ variants[v0] - 1 = Cardinality(With(less, v0))
    <3>1. variants[v0] = Cardinality(With(less, v0)) + 1 /\ Cardinality(With(less, v0)) \in Nat
      BY <1>1, <1>2, <1>3, <1>4
    <3>2. Cardinality(With(less, v0)) # 0
      BY <1>7, <3>1
    <3> QED
      BY <1>3, <3>1, <3>2, FS_EmptySet
  <2>3. {path[r] : r \in less} = DOMAIN variants
    BY <1>1, <2>2
  <2>4. ASSUME NEW v \in DOMAIN variants PROVE rest[v] = Cardinality(With(less, v)) /\ rest[v] \in Nat
    <3>1. CASE v = v0
      BY <1>1, <1>2, <1>3, <2>1, <2>2, <3>1
    <3>2. CASE v # v0
      BY <1>1, <1>3, <1>5, <2>1, <3>2
    <3> QED
      BY <3>1, <3>2
  <2> QED
    BY <1>1, <1>2, <2>1, <2>3, <2>4 DEF Histogram
<1> QED
  BY <1>6, <1>7

LEMMA HistogramGains ==
  ASSUME NEW rest, NEW R, NEW path, NEW r0, r0 \notin R,
         NEW now, \A r \in R : now[r] = path[r],
         Histogram(rest, R, path)
  PROVE  Histogram(PutIn(rest, now[r0]), R \cup {r0}, now)
<1> DEFINE v0 == now[r0]
           all == R \cup {r0}
           With(S, v) == {r \in S : now[r] = v}
           count == IF v0 \in DOMAIN rest THEN rest[v0] + 1 ELSE 1
           more == PutIn(rest, v0)
<1>0. more = [v \in DOMAIN rest \cup {v0} |-> IF v = v0 THEN count ELSE rest[v]]
  BY DEF PutIn
<1> HIDE DEF more
<1>1. /\ IsFiniteSet(R) /\ DOMAIN rest = {now[r] : r \in R}
      /\ rest \in [DOMAIN rest -> Nat]
      /\ \A v \in DOMAIN rest : rest[v] = Cardinality(With(R, v))
  <2>1. \A v : With(R, v) = {r \in R : path[r] = v}
    OBVIOUS
  <2>2. {now[r] : r \in R} = {path[r] : r \in R}
    OBVIOUS
  <2>3. IsFiniteSet(R) /\ rest \in [{path[r] : r \in R} -> Nat]
    BY DEF Histogram
  <2>4. \A v \in DOMAIN rest : rest[v] = Cardinality({r \in R : path[r] = v})
    BY DEF Histogram
  <2>5. \A v \in DOMAIN rest : rest[v] = Cardinality(With(R, v))
    BY <2>1, <2>4
  <2> QED
    BY <2>2, <2>3, <2>5
<1>2. IsFiniteSet(all) /\ \A v : IsFiniteSet(With(R, v)) /\ Cardinality(With(R, v)) \in Nat
  BY <1>1, FS_AddElement, FS_Subset, FS_CardinalityType
<1>3. Cardinality(With(all, v0)) = Cardinality(With(R, v0)) + 1
  <2>1. With(all, v0) = With(R, v0) \cup {r0} /\ r0 \notin With(R, v0)
    OBVIOUS
  <2> QED
    BY <1>2, <2>1, OneMore
<1>4. \A v : v # v0 => With(all, v) = With(R, v)
  OBVIOUS
<1>5. {now[r] : r \in all} = DOMAIN rest \cup {v0}
  BY <1>1
<1>6. count = Cardinality(With(R, v0)) + 1
  <2>1. CASE v0 \in DOMAIN rest
    BY <1>1, <2>1
  <2>2. CASE v0 \notin DOMAIN rest
    <3>1. With(R, v0) = {}
      BY <1>1, <2>2
    <3>2. Cardinality(With(R, v0)) = 0
      BY <3>1, FS_EmptySet
    <3> QED
      BY <2>2, <3>2
  <2> QED
    BY <2>1, <2>2
<1>7. ASSUME NEW v \in DOMAIN more PROVE more[v] = Cardinality(With(all, v)) /\ more[v] \in Nat
  <2>1. CASE v = v0
    BY <1>2, <1>3, <1>0, <1>6, <2>1
  <2>2. CASE v # v0
    BY <1>0, <1>1, <1>2, <1>4, <2>2
  <2> QED
    BY <2>1, <2>2
<1> QED
  BY <1>0, <1>2, <1>5, <1>7 DEF Histogram, more

(* The variants are such a histogram: a run leaves its old path, then joins  *)
(* its new one.                                                              *)
LEMMA RunsAreFinite ==
  ASSUME NEW hist \in Seq(Event)
  PROVE  IsFiniteSet(RunsIn(hist)) /\ RunsIn(hist) \subseteq Run
<1> DEFINE f == [i \in DOMAIN hist |-> hist[i].run]
<1>1. f \in Surjection(DOMAIN hist, RunsIn(hist))
  BY DEF Surjection, RunsIn
<1>2. IsFiniteSet(DOMAIN hist)
  BY FS_Interval
<1>3. \A i \in DOMAIN hist : hist[i].run \in Run
  <2>1. \A i \in DOMAIN hist : hist[i] \in Event
    OBVIOUS
  <2> QED
    BY <2>1 DEF Event
<1> QED
  BY <1>1, <1>2, <1>3, FS_Surjection DEF RunsIn

LEMMA VariantsAreHistogram ==
  ASSUME NEW hist \in Seq(Event), NEW m, NEW path, path = [r \in Run |-> Path(m.traces[r])]
  PROVE  VariantsOf(m, hist) /\ m.variants \in [DOMAIN m.variants -> Nat]
           <=> Histogram(m.variants, RunsIn(hist), path)
<1>1. RunsIn(hist) \subseteq Run
  BY RunsAreFinite
<1>2. {path[r] : r \in RunsIn(hist)} = {Path(m.traces[r]) : r \in RunsIn(hist)}
  BY <1>1
<1>3. \A v : {r \in RunsIn(hist) : path[r] = v} = {r \in RunsIn(hist) : Path(m.traces[r]) = v}
  BY <1>1
<1>4. IsFiniteSet(RunsIn(hist))
  BY RunsAreFinite
<1>5. m.variants \in [{path[r] : r \in RunsIn(hist)} -> Nat]
        <=> /\ DOMAIN m.variants = {Path(m.traces[r]) : r \in RunsIn(hist)}
            /\ m.variants \in [DOMAIN m.variants -> Nat]
  BY <1>2
<1>6. (\A v \in DOMAIN m.variants : m.variants[v] = Cardinality({r \in RunsIn(hist) : path[r] = v}))
        <=> (\A v \in DOMAIN m.variants : m.variants[v] = Cardinality({r \in RunsIn(hist) : Path(m.traces[r]) = v}))
  BY <1>3
<1> QED
  BY <1>4, <1>5, <1>6 DEF VariantsOf, Histogram

LEMMA VariantsGrow ==
  ASSUME NEW hist, NEW e, NEW n, NEW more, NEW m, Folds(m, hist, e, n, more), VariantsOf(m, hist)
  PROVE  /\ VariantsOf(ProcessEvent(m, e), more)
         /\ ProcessEvent(m, e).variants \in [DOMAIN ProcessEvent(m, e).variants -> Nat]
<1> DEFINE q == ProcessEvent(m, e)
           old == OldTrace(m, e)
           new == Extend(old, e)
           path == [r \in Run |-> Path(m.traces[r])]
           now == [r \in Run |-> Path(q.traces[r])]
           R == RunsIn(hist)
           less == R \ {e.run}
           rest == IF old = <<>> THEN m.variants ELSE TakeOut(m.variants, Path(old))
<1>0. Grows(hist, e, n, more) /\ MinerOK(m) /\ TracesOf(m, hist) /\ e \in Event
  BY DEF Folds, Grows
<1>1. /\ hist \in Seq(Event) /\ more \in Seq(Event) /\ more[n] = e
      /\ DOMAIN more = DOMAIN hist \cup {n} /\ \A i \in DOMAIN hist : more[i] = hist[i]
  BY <1>0 DEF Grows
<1>2. e.run \in Run
  BY <1>0 DEF Event
<1>3. q.variants = UpdateVariants(m.variants, old, Path(new)) /\ q.traces = [m.traces EXCEPT ![e.run] = new]
  <2>1. Folded(q, m, e)
    BY <1>0, EventFields
  <2> QED
    BY <2>1 DEF Folded
<1>4. DOMAIN m.traces = Run /\ m.variants \in [DOMAIN m.variants -> Nat]
  BY <1>0 DEF MinerOK
<1>5. RunsIn(more) = R \cup {e.run}
  BY <1>1 DEF RunsIn
<1>6. old = <<>> <=> e.run \notin R
  <2>1. e.run \notin R <=> RunPositions(hist, e.run) = {}
    BY DEF RunsIn, RunPositions
  <2>2. /\ old = <<>> => RunPositions(hist, e.run) = {}
        /\ old # <<>> => RunPositions(hist, e.run) # {}
    BY <1>0, StepsGrow
  <2> QED
    BY <2>1, <2>2
<1> HIDE DEF q
<1>7. /\ path[e.run] = Path(old) /\ now[e.run] = Path(new)
      /\ \A r \in Run \ {e.run} : now[r] = path[r]
  BY <1>2, <1>3, <1>4 DEF OldTrace
<1>8. R \subseteq Run
  BY <1>1, RunsAreFinite
<1>9. Histogram(m.variants, R, path)
  BY <1>1, <1>4, VariantsAreHistogram
<1>10. Histogram(rest, less, path)
  <2>1. CASE old = <<>>
    <3>1. less = R /\ rest = m.variants
      BY <1>6, <2>1
    <3> QED
      BY <1>9, <3>1
  <2>2. CASE old # <<>>
    <3>1. e.run \in R /\ rest = TakeOut(m.variants, path[e.run])
      BY <1>6, <1>7, <2>2
    <3> HIDE DEF path, R, rest
    <3>2. Histogram(TakeOut(m.variants, path[e.run]), R \ {e.run}, path)
      BY <1>9, <3>1, HistogramLoses
    <3> QED
      BY <3>1, <3>2
  <2> QED
    BY <2>1, <2>2
<1>11. q.variants = PutIn(rest, now[e.run])
  BY <1>3, <1>7 DEF UpdateVariants
<1>12. less \cup {e.run} = RunsIn(more) /\ e.run \notin less /\ \A r \in less : now[r] = path[r]
  BY <1>5, <1>7, <1>8
<1>13. Histogram(q.variants, RunsIn(more), now)
  <2> HIDE DEF rest, less, path, now
  <2>1. Histogram(PutIn(rest, now[e.run]), less \cup {e.run}, now)
    BY <1>10, <1>12, HistogramGains
  <2> QED
    BY <1>11, <1>12, <2>1
<1>14. VariantsOf(q, more) /\ q.variants \in [DOMAIN q.variants -> Nat]
  BY <1>1, <1>13, VariantsAreHistogram
<1> QED
  BY <1>14 DEF q

LEMMA EventTypes ==
  ASSUME NEW m, NEW e \in Event, MinerOK(m),
         ProcessEvent(m, e).variants \in [DOMAIN ProcessEvent(m, e).variants -> Nat],
         OldTrace(m, e) # <<>> => ClosedEdge(m, e) \in Edge
  PROVE  MinerOK(ProcessEvent(m, e))
<1> DEFINE q == ProcessEvent(m, e)
           new == Extend(OldTrace(m, e), e)
           edge == ClosedEdge(m, e)
<1>1. Folded(q, m, e) /\ Moved(q, m, e)
  BY EventFields
<1>2. e.agent \in Agent /\ e.run \in Run /\ e.act \in Activity /\ e.standing \in Standing
  BY DEF Event
<1> HIDE DEF q
<1>3. new \in Seq(Event) /\ Len(new) \in Nat
  BY <1>2 DEF MinerOK, OldTrace, Extend
<1>4. AgentRecord(e, new) \in Record
  <2>1. AgentState(e) \in AgentStates
    BY <1>2, OnlineMinerAssumption DEF AgentState, AgentStates
  <2>2. NormalStanding(e.standing) \in Standing
    BY <1>2 DEF NormalStanding, Standing
  <2> QED
    BY <1>2, <1>3, <2>1, <2>2 DEF AgentRecord, Record
<1> HIDE DEF new, edge
<1>5. /\ q.total \in Nat /\ q.counts \in [Activity -> Nat]
      /\ q.traces \in [Run -> Seq(Event)]
      /\ q.agents \in [Agent -> Record \cup {NoAgent}]
  <2>1. /\ q.total = m.total + 1 /\ q.counts = [m.counts EXCEPT ![e.act] = @ + 1]
        /\ q.traces = [m.traces EXCEPT ![e.run] = new]
        /\ q.agents = [m.agents EXCEPT ![e.agent] = AgentRecord(e, new)]
    BY <1>1 DEF Folded, new
  <2>2. /\ m.total \in Nat /\ m.counts \in [Activity -> Nat] /\ m.traces \in [Run -> Seq(Event)]
        /\ m.agents \in [Agent -> Record \cup {NoAgent}]
    BY DEF MinerOK
  <2>3. q.total \in Nat /\ q.counts \in [Activity -> Nat]
    BY <1>2, <2>1, <2>2
  <2>4. q.traces \in [Run -> Seq(Event)] /\ q.agents \in [Agent -> Record \cup {NoAgent}]
    BY <1>2, <1>3, <1>4, <2>1, <2>2
  <2> QED
    BY <2>3, <2>4
<1>6. q.refusals \in Seq(Event)
  <2>1. q.refusals = IF IsRefusal(e) THEN <<e>> \o m.refusals ELSE m.refusals
    BY <1>1 DEF Folded
  <2>2. m.refusals \in Seq(Event)
    BY DEF MinerOK
  <2>3. <<e>> \o m.refusals \in Seq(Event)
    BY <2>2
  <2> QED
    BY <2>1, <2>2, <2>3
<1>7. /\ q.starts \in [Activity -> Nat] /\ q.edges \in [Edge -> Nat] /\ q.deviations \in [Edge -> Nat]
      /\ q.observed \in Nat /\ q.deviant \in Nat
  <2>1. /\ m.starts \in [Activity -> Nat] /\ m.edges \in [Edge -> Nat] /\ m.deviations \in [Edge -> Nat]
        /\ m.observed \in Nat /\ m.deviant \in Nat
    BY DEF MinerOK
  <2>2. CASE OldTrace(m, e) = <<>>
    <3>1. /\ q.starts = [m.starts EXCEPT ![e.act] = @ + 1]
          /\ q.edges = m.edges /\ q.observed = m.observed
          /\ q.deviant = m.deviant /\ q.deviations = m.deviations
      BY <1>1, <2>2 DEF Moved
    <3> QED
      BY <1>2, <2>1, <3>1
  <2>3. CASE OldTrace(m, e) # <<>>
    <3>1. /\ q.starts = m.starts
          /\ q.edges = [m.edges EXCEPT ![edge] = @ + 1] /\ q.observed = m.observed + 1
          /\ \/ q.deviant = m.deviant /\ q.deviations = m.deviations
             \/ q.deviant = m.deviant + 1 /\ q.deviations = [m.deviations EXCEPT ![edge] = @ + 1]
      BY <1>1, <2>3 DEF Moved, edge
    <3>2. edge \in Edge
      BY <2>3 DEF edge
    <3>3. [m.edges EXCEPT ![edge] = @ + 1] \in [Edge -> Nat]
      BY <2>1, <3>2
    <3>4. [m.deviations EXCEPT ![edge] = @ + 1] \in [Edge -> Nat]
      BY <2>1, <3>2
    <3>5. q.deviations \in [Edge -> Nat] /\ q.deviant \in Nat
      <4>1. CASE q.deviant = m.deviant /\ q.deviations = m.deviations
        BY <2>1, <4>1
      <4>2. CASE q.deviant = m.deviant + 1 /\ q.deviations = [m.deviations EXCEPT ![edge] = @ + 1]
        BY <2>1, <3>4, <4>2
      <4> QED
        BY <3>1, <4>1, <4>2
    <3> QED
      BY <2>1, <3>1, <3>3, <3>5
  <2> QED
    BY <2>2, <2>3
<1>8. q = [f \in Fields |-> q[f]]
  BY <1>1 DEF Folded
<1>9. q.variants \in [DOMAIN q.variants -> Nat]
  BY DEF q
<1>10. MinerOK(q)
  BY <1>5, <1>6, <1>7, <1>8, <1>9 DEF MinerOK
<1> QED
  BY <1>10 DEF q

-----------------------------------------------------------------------------
(* A miner whose tables are those of the history. *)
Tables(m, hist) ==
  /\ MinerOK(m) /\ hist \in Seq(Event)
  /\ TracesOf(m, hist) /\ DfgOf(m, hist) /\ VariantsOf(m, hist)
  /\ ConformanceOf(m, hist) /\ FleetOf(m, hist)

LEMMA EventKeepsTables ==
  ASSUME NEW m, NEW hist, NEW e \in Event, Tables(m, hist)
  PROVE  Tables(ProcessEvent(m, e), Append(hist, e))
<1> DEFINE n == Len(hist) + 1
           more == Append(hist, e)
<1>1. /\ MinerOK(m) /\ hist \in Seq(Event)
      /\ TracesOf(m, hist) /\ DfgOf(m, hist) /\ VariantsOf(m, hist)
      /\ ConformanceOf(m, hist) /\ FleetOf(m, hist)
  BY DEF Tables
<1>2. Grows(hist, e, n, more)
  BY <1>1, HistoryGrows
<1> HIDE DEF n, more
<1>3. Folds(m, hist, e, n, more)
  BY <1>1, <1>2 DEF Folds
<1>4. DfgOf(ProcessEvent(m, e), more) /\ ConformanceOf(ProcessEvent(m, e), more) /\ FleetOf(ProcessEvent(m, e), more)
  BY <1>1, <1>3, DfgGrows, ConformanceGrows, FleetGrows
<1>5. /\ VariantsOf(ProcessEvent(m, e), more)
      /\ ProcessEvent(m, e).variants \in [DOMAIN ProcessEvent(m, e).variants -> Nat]
  BY <1>1, <1>3, VariantsGrow
<1>6. OldTrace(m, e) # <<>> => ClosedEdge(m, e) \in Edge
  BY <1>1, <1>2, StepsGrow
<1>7. MinerOK(ProcessEvent(m, e))
  BY <1>1, <1>5, <1>6, EventTypes
<1>8. TracesOf(ProcessEvent(m, e), more)
  <2>1. ProcessEvent(m, e).traces = [m.traces EXCEPT ![e.run] = Extend(OldTrace(m, e), e)]
    BY <1>1, EventFields DEF Folded
  <2> QED
    BY <1>1, <1>2, <2>1, TracesGrow
<1>9. more \in Seq(Event)
  BY <1>2 DEF Grows
<1> QED
  BY <1>4, <1>5, <1>7, <1>8, <1>9 DEF Tables, more

LEMMA FreshTables ==
  ASSUME NEW flow
  PROVE  Tables(FreshMiner(flow), <<>>)
<1> DEFINE m == FreshMiner(flow)
           hist == <<>>
<1>1. hist \in Seq(Event) /\ DOMAIN hist = {} /\ Len(hist) = 0
  OBVIOUS
<1>2. MinerOK(m)
  <2>1. m = [f \in Fields |-> m[f]]
    BY DEF FreshMiner, Fields
  <2>2. m.variants \in [DOMAIN m.variants -> Nat]
    BY DEF FreshMiner
  <2>3. m.agents \in [Agent -> Record \cup {NoAgent}] /\ m.traces \in [Run -> Seq(Event)]
    BY DEF FreshMiner
  <2>4. /\ m.total \in Nat /\ m.observed \in Nat /\ m.deviant \in Nat
        /\ m.edges \in [Edge -> Nat] /\ m.deviations \in [Edge -> Nat]
        /\ m.counts \in [Activity -> Nat] /\ m.starts \in [Activity -> Nat]
        /\ m.refusals \in Seq(Event)
    BY DEF FreshMiner
  <2> QED
    BY <2>1, <2>2, <2>3, <2>4 DEF MinerOK
<1>3. Steps(hist) = {} /\ RunsIn(hist) = {} /\ Cardinality({}) = 0
  BY <1>1, FS_EmptySet DEF Steps, RunsIn
<1> HIDE DEF hist
<1>4. \A r : RunPositions(hist, r) = {}
  BY <1>1 DEF RunPositions
<1>5. TracesOf(m, hist)
  BY <1>1, <1>3, <1>4 DEF TracesOf, FreshMiner
<1>6. DfgOf(m, hist)
  <2>1. \A a \in Activity : /\ {i \in DOMAIN hist : hist[i].act = a} = {}
                            /\ {i \in DOMAIN hist : RunEventsUpTo(hist, i) = {i} /\ hist[i].act = a} = {}
    BY <1>1
  <2>2. \A d \in Edge : {p \in Steps(hist) : EdgeOf(hist, p) = d} = {}
    BY <1>3
  <2>3. /\ m.total = 0 /\ \A a \in Activity : m.counts[a] = 0 /\ m.starts[a] = 0
        /\ \A d \in Edge : m.edges[d] = 0
    BY DEF FreshMiner
  <2> QED
    BY <1>1, <1>3, <2>1, <2>2, <2>3 DEF DfgOf
<1>7. VariantsOf(m, hist)
  BY <1>3 DEF VariantsOf, FreshMiner
<1>8. ConformanceOf(m, hist)
  BY <1>3 DEF ConformanceOf, FreshMiner
<1>9. FleetOf(m, hist)
  BY <1>1 DEF FleetOf, FreshMiner
<1> QED
  BY <1>1, <1>2, <1>5, <1>6, <1>7, <1>8, <1>9 DEF Tables, hist

(* The miner's states while it folds a batch: IngestBatch's recursive after  *)
(* exists, by induction over the length of the batch.                        *)
Runs(after, m, events) ==
  /\ DOMAIN after = 0 .. Len(events) /\ after[0] = m
  /\ \A k \in 1 .. Len(events) : after[k] = ProcessEvent(after[k-1], events[k])

LEMMA BatchRuns ==
  ASSUME NEW m, NEW events \in Seq(Event)
  PROVE  \E after : Runs(after, m, events) /\ IngestBatch(m, events) = after[Len(events)]
<1> DEFINE Fold(m0, k) == CHOOSE m2 \in {ProcessEvent(m1, events[k]) : m1 \in {m0}} : TRUE
           Is(f, k) == f = [j \in 0 .. k |-> IF j = 0 THEN m ELSE Fold(f[j-1], j)]
           Some == {k \in Nat : \E f : Is(f, k)}
<1>1. Some = Nat
  <2>1. 0 \in Some
    <3> DEFINE f == [j \in 0 .. 0 |-> m]
    <3>1. f = [j \in 0 .. 0 |-> IF j = 0 THEN m ELSE Fold(f[j-1], j)]
      <4> HIDE DEF Fold
      <4> QED
        OBVIOUS
    <3> HIDE DEF f, Fold
    <3> QED
      BY <3>1
  <2>2. ASSUME NEW k \in Some PROVE k + 1 \in Some
    <3>1. PICK f : Is(f, k)
      OBVIOUS
    <3> DEFINE g == [j \in 0 .. k + 1 |-> IF j <= k THEN f[j] ELSE Fold(f[k], k + 1)]
    <3> HIDE DEF Fold
    <3>2. k \in Nat
      OBVIOUS
    <3>3. ASSUME NEW j \in 0 .. k + 1 PROVE g[j] = IF j = 0 THEN m ELSE Fold(g[j-1], j)
      <4>1. CASE j = 0
        BY <3>1, <3>2, <4>1
      <4>2. CASE j \in 1 .. k
        <5>1. g[j] = f[j] /\ g[j-1] = f[j-1]
          BY <3>2, <4>2
        <5>2. f[j] = Fold(f[j-1], j)
          BY <3>1, <3>2, <4>2
        <5> QED
          BY <4>2, <5>1, <5>2
      <4>3. CASE j = k + 1
        <5>1. g[j] = Fold(f[k], j) /\ g[j-1] = f[k]
          BY <3>2, <4>3
        <5> QED
          BY <3>2, <4>3, <5>1
      <4> QED
        BY <3>2, <4>1, <4>2, <4>3
    <3>4. g = [j \in 0 .. k + 1 |-> g[j]]
      OBVIOUS
    <3> HIDE DEF g
    <3>5. g = [j \in 0 .. k + 1 |-> IF j = 0 THEN m ELSE Fold(g[j-1], j)]
      BY <3>3, <3>4
    <3> QED
      BY <3>2, <3>5
  <2> HIDE DEF Some
  <2> QED
    BY <2>1, <2>2, NatSetInduction DEF Some
<1>2. Len(events) \in Nat
  OBVIOUS
<1>3. \E f : Is(f, Len(events))
  BY <1>1, <1>2
<1> DEFINE after == CHOOSE f : Is(f, Len(events))
<1>4. Is(after, Len(events))
  BY <1>3, Zenon
<1>5. IngestBatch(m, events) = after[Len(events)]
  BY Zenon DEF IngestBatch
<1>6. \A m0, k : Fold(m0, k) = ProcessEvent(m0, events[k])
  OBVIOUS
<1> HIDE DEF after, Fold
<1>7. Runs(after, m, events)
  <2>1. DOMAIN after = 0 .. Len(events) /\ after[0] = m
    BY <1>2, <1>4
  <2>2. \A k \in 1 .. Len(events) : after[k] = Fold(after[k-1], k)
    BY <1>2, <1>4
  <2> QED
    BY <1>6, <2>1, <2>2 DEF Runs
<1> QED
  BY <1>5, <1>7

LEMMA BatchKeepsTables ==
  ASSUME NEW m, NEW hist, Tables(m, hist), NEW events \in Seq(Event)
  PROVE  Tables(IngestBatch(m, events), hist \o events)
<1>0. hist \in Seq(Event)
  BY DEF Tables
<1>1. PICK after : Runs(after, m, events) /\ IngestBatch(m, events) = after[Len(events)]
  BY BatchRuns
<1>2. /\ after[0] = m
      /\ \A k \in 1 .. Len(events) : after[k] = ProcessEvent(after[k-1], events[k])
  BY <1>1 DEF Runs
<1> DEFINE upTo(k) == hist \o SubSeq(events, 1, k)
           Kept == {k \in Nat : k <= Len(events) => Tables(after[k], upTo(k))}
<1>3. 0 \in Kept
  <2>1. SubSeq(events, 1, 0) = <<>>
    OBVIOUS
  <2>2. upTo(0) = hist
    BY <1>0, <2>1
  <2> QED
    BY <1>2, <2>2
<1>4. ASSUME NEW k \in Kept PROVE k + 1 \in Kept
  <2> SUFFICES ASSUME k + 1 <= Len(events) PROVE Tables(after[k+1], upTo(k+1))
    OBVIOUS
  <2>1. k \in Nat /\ k + 1 \in 1 .. Len(events) /\ events[k+1] \in Event /\ k <= Len(events)
    OBVIOUS
  <2>2. Tables(after[k], upTo(k))
    BY <2>1
  <2>3. upTo(k+1) = Append(upTo(k), events[k+1])
    BY <1>0, <2>1
  <2>4. after[k+1] = ProcessEvent(after[k], events[k+1])
    BY <1>2, <2>1
  <2> HIDE DEF upTo
  <2> QED
    BY <2>1, <2>2, <2>3, <2>4, EventKeepsTables
<1>5. Kept = Nat
  <2> HIDE DEF Kept
  <2> QED
    BY <1>3, <1>4, NatSetInduction DEF Kept
<1>6. Len(events) \in Kept
  BY <1>5
<1>7. upTo(Len(events)) = hist \o events
  BY <1>0
<1>8. Tables(after[Len(events)], upTo(Len(events)))
  BY <1>6
<1> HIDE DEF upTo
<1> QED
  BY <1>1, <1>7, <1>8

-----------------------------------------------------------------------------
(* The miner holds the tables of its history. *)
MinerInv == Tables(miner, log)

LEMMA OthersKeepMiner ==
  ASSUME [Next]_vars, ~ MinerIngests, ~ MinerResets, ~ MinerDies
  PROVE  miner' = miner /\ log' = log
<1>1. ASSUME NEW i \in Ingester, Call(i) \/ IngestStep(i) \/ GiveUp(i)
      PROVE  miner' = miner /\ log' = log
  BY <1>1 DEF Call, IngestStep, GiveUp, StoreCallExits, FindDuplicate, Forward, PutPending, PutOutcome,
     SkipReceipts, Broadcast, minerVars
<1>2. CASE \/ AskReset \/ MinerStarts \/ StoreDies \/ StoreStarts \/ Done \/ UNCHANGED vars
           \/ \E s \in Subject : LatePut(s)
  BY <1>2 DEF LatePut, AskReset, MinerStarts, StoreDies, StoreStarts, Done, minerVars, vars
<1> QED
  BY <1>1, <1>2 DEF Next, MinerStep

LEMMA MinerStepInv == TypeOK /\ Mail /\ MinerInv /\ [Next]_vars => MinerInv'
<1> SUFFICES ASSUME TypeOK, Mail, MinerInv, [Next]_vars PROVE MinerInv'
  OBVIOUS
<1>1. CASE MinerIngests
  <2> DEFINE events == EventsOf[Head(box).subject]
  <2>1. box # <<>> /\ Head(box).kind = "ingest"
        /\ miner' = IngestBatch(miner, events) /\ log' = log \o events
    BY <1>1 DEF MinerIngests
  <2>2. Head(box) \in Message
    BY <2>1 DEF Mail
  <2>3. Head(box).subject \in Subject
    BY <2>1, <2>2 DEF Message
  <2>4. events \in Seq(Event)
    BY <2>3, StreamConstants
  <2> HIDE DEF events
  <2>5. Tables(IngestBatch(miner, events), log \o events)
    BY <2>4, BatchKeepsTables DEF MinerInv
  <2> QED
    BY <2>1, <2>5 DEF MinerInv
<1>2. CASE MinerResets
  <2>1. miner' = FreshMiner(DefaultFlow) /\ log' = <<>>
    BY <1>2 DEF MinerResets
  <2> QED
    BY <2>1, FreshTables DEF MinerInv
<1>3. CASE MinerDies
  <2>1. miner' = FreshMiner(Flow) /\ log' = <<>>
    BY <1>3 DEF MinerDies
  <2> QED
    BY <2>1, FreshTables DEF MinerInv
<1>4. CASE miner' = miner /\ log' = log
  BY <1>4 DEF MinerInv
<1> QED
  BY <1>1, <1>2, <1>3, <1>4, OthersKeepMiner

(* What the miner keeps by increments is what a batch computation over the   *)
(* events since its last start or reset yields, for any batches, runs,       *)
(* agents and flows, in whatever order the producers' batches come           *)
(* (process_event/2, update_variants/3).                                     *)
THEOREM StreamTablesExact == Spec => []TablesExact
<1>1. Init => MinerInv
  <2> SUFFICES ASSUME Init PROVE MinerInv
    OBVIOUS
  <2>1. miner = FreshMiner(Flow) /\ log = <<>>
    BY DEF Init
  <2> QED
    BY <2>1, FreshTables DEF MinerInv
<1>2. StreamInv /\ MinerInv /\ [Next]_vars => MinerInv'
  BY MinerStepInv DEF StreamInv
<1>3. MinerInv => TablesExact
  BY DEF MinerInv, Tables, TablesExact
<1> QED
  BY <1>1, <1>2, <1>3, StreamInvariant, PTL DEF Spec
=============================================================================
