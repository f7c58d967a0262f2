---------------------------- MODULE StreamIngest ----------------------------
(***************************************************************************)
(* Ex4pm.Stream.Ingest: concurrent producers hand envelopes to the online   *)
(* miner and leave a receipt that later copies of an envelope are           *)
(* recognised by (lib/ex4pm/stream/ingest.ex).                              *)
(*                                                                          *)
(* ingest_envelope/2 runs in the producer's own process.  The store and the *)
(* miner are other processes: each may be absent when its name is resolved, *)
(* die while it is called, and be started again.  A generation number tells *)
(* the store a caller resolved from one started later; 0 is no store.  The  *)
(* store process itself is module EvidenceStore; here it is the receipts it *)
(* holds for a subject, in one step per call.                               *)
(***************************************************************************)
EXTENDS OnlineMiner, Integers

CONSTANTS
  Ingester,    \* producer processes
  Subject,     \* content hashes of normalised envelopes
  EventsOf,    \* [Subject -> events, sorted by timestamp]
  Envelope,    \* envelopes, [subject, sequence]
  Flow,        \* the canonical flow the miner is started with
  MaxCalls,    \* bound: [Ingester -> envelopes it sends]
  MaxFaults,   \* bound: processes that die, calls that time out
  MaxResets    \* bound: resets of the miner

ASSUME StreamIngestAssumption ==
  /\ IsFiniteSet(Ingester) /\ EventsOf \in [Subject -> Seq(Event)]
  /\ Envelope # {} /\ Envelope \subseteq [subject : Subject, sequence : Int]
  /\ MaxCalls \in [Ingester -> Nat] /\ MaxFaults \in Nat /\ MaxResets \in Nat

VARIABLES
  pc,         \* where each producer is in ingest_envelope/2
  env,        \* the envelope it carries
  storePid,   \* the store it resolved, 0 when none was registered
  answer,     \* what its last call returned
  calls,      \* how many calls it made
  box,        \* the miner's mailbox
  miner,      \* the miner's state
  minerUp,
  log,        \* history: events folded into this miner since init or reset
  storeGen,   \* generation of the store process
  storeUp,
  pending, outcomes,  \* receipts the store holds, per subject
  late,       \* outcome puts whose caller is gone, in the store's mailbox
  broadcasts,         \* times the broadcaster was called, per subject
  mined,      \* history: times a subject's batch was folded, by any miner
  skipped,    \* history: times no miner was registered to forward it to
  excused,    \* history: subjects something let through more than once
  faults, resets

callVars == <<pc, env, storePid, answer, calls>>
minerVars == <<box, miner, minerUp, log, mined>>
storeVars == <<storeGen, storeUp, pending, outcomes, late>>
bounds == <<faults, resets>>
vars == <<pc, env, storePid, answer, calls, box, miner, minerUp, log, storeGen, storeUp,
          pending, outcomes, late, broadcasts, mined, skipped, excused, faults, resets>>

Zero == [s \in Subject |-> 0]

Init ==
  /\ pc = [i \in Ingester |-> "idle"]
  /\ env \in [Ingester -> {CHOOSE e \in Envelope : TRUE}]
  /\ storePid = [i \in Ingester |-> 0]
  /\ answer = [i \in Ingester |-> "none"]
  /\ calls = [i \in Ingester |-> 0]
  /\ box = <<>> /\ miner = FreshMiner(Flow) /\ minerUp = TRUE /\ log = <<>>
  /\ storeGen = 1 /\ storeUp = TRUE
  /\ pending = Zero /\ outcomes = Zero /\ late = Zero /\ broadcasts = Zero
  /\ mined = Zero /\ skipped = Zero /\ excused = {}
  /\ faults = 0 /\ resets = 0

Fault == faults < MaxFaults /\ faults' = faults + 1

subj(i) == env[i].subject

(* Producers that passed the duplicate check for s and have no outcome yet.  *)
InFlight(s) ==
  {i \in Ingester : pc[i] \in {"forward", "mining", "pending", "outcome"} /\ subj(i) = s}

Goto(i, label) == pc' = [pc EXCEPT ![i] = label]

Return(i, result) ==
  /\ Goto(i, "idle")
  /\ answer' = [answer EXCEPT ![i] = result]

-----------------------------------------------------------------------------
(* ingest_envelope/2: resolve the store, validate, check the sequence sign.  *)
Call(i) ==
  /\ pc[i] = "idle"
  /\ calls[i] < MaxCalls[i]
  /\ \E e \in Envelope :
       /\ env' = [env EXCEPT ![i] = e]
       /\ IF e.sequence < 0 THEN Return(i, "refused")
          ELSE Goto(i, "check") /\ answer' = [answer EXCEPT ![i] = "none"]
  /\ storePid' = [storePid EXCEPT ![i] = IF storeUp THEN storeGen ELSE 0]
  /\ calls' = [calls EXCEPT ![i] = @ + 1]
  /\ UNCHANGED <<minerVars, storeVars, broadcasts, skipped, excused, bounds>>

(* A GenServer.call to the store: with no store it is skipped, with one that *)
(* is gone the caller exits, otherwise the store answers.                    *)
StoreAnswers(i) == storeUp /\ storePid[i] = storeGen
StoreGone(i) == storePid[i] # 0 /\ ~StoreAnswers(i)

(* A call that ends after the duplicate check and before the outcome leaves  *)
(* events that a repeat of the envelope will bring again.                    *)
StoreCallExits(i) ==
  /\ pc[i] \in {"check", "pending", "outcome"}
  /\ StoreGone(i)
  /\ Return(i, "exit")
  /\ excused' = IF pc[i] = "check" THEN excused ELSE excused \cup {subj(i)}
  /\ UNCHANGED <<env, storePid, calls, minerVars, storeVars, broadcasts, skipped, bounds>>

(* find_duplicate/2 looks for an outcome receipt of the subject.  Mutant: as *)
(* before that check existed, nothing is ever recognised.                    *)
MutantReceiptedNever(s) == FALSE

Receipted(s) == outcomes[s] > 0

FindDuplicate(i) ==
  /\ pc[i] = "check"
  /\ StoreAnswers(i) \/ storePid[i] = 0
  /\ IF storePid[i] # 0 /\ Receipted(subj(i))
     THEN Return(i, "duplicate") /\ UNCHANGED excused
     ELSE /\ Goto(i, "forward")
          /\ excused' = IF storePid[i] = 0 \/ InFlight(subj(i)) # {}
                        THEN excused \cup {subj(i)} ELSE excused
          /\ UNCHANGED answer
  /\ UNCHANGED <<env, storePid, calls, minerVars, storeVars, broadcasts, skipped, bounds>>

(* do_ingest/4 hands the batch to the miner when one is registered and waits *)
(* for its answer.  Mutant: it does not wait.                                *)
MutantAfterSendGoesOn == "pending"

AfterSend == "mining"

Forward(i) ==
  /\ pc[i] = "forward"
  /\ IF minerUp
     THEN /\ box' = Append(box, [kind |-> "ingest", subject |-> subj(i), from |-> i, call |-> calls[i]])
          /\ Goto(i, AfterSend)
          /\ UNCHANGED skipped
     ELSE /\ skipped' = [skipped EXCEPT ![subj(i)] = @ + 1]
          /\ Goto(i, "pending")
          /\ UNCHANGED box
  /\ UNCHANGED <<env, storePid, answer, calls, miner, minerUp, log, mined, storeVars,
                 broadcasts, excused, bounds>>

PutPending(i) ==
  /\ pc[i] = "pending"
  /\ StoreAnswers(i)
  /\ pending' = [pending EXCEPT ![subj(i)] = @ + 1]
  /\ Goto(i, "outcome")
  /\ UNCHANGED <<env, storePid, answer, calls, minerVars, storeGen, storeUp, outcomes, late,
                 broadcasts, skipped, excused, bounds>>

PutOutcome(i) ==
  /\ pc[i] = "outcome"
  /\ StoreAnswers(i)
  /\ outcomes' = [outcomes EXCEPT ![subj(i)] = @ + 1]
  /\ Goto(i, "broadcast")
  /\ UNCHANGED <<env, storePid, answer, calls, minerVars, storeGen, storeUp, pending, late,
                 broadcasts, skipped, excused, bounds>>

SkipReceipts(i) ==
  /\ pc[i] = "pending"
  /\ storePid[i] = 0
  /\ Goto(i, "broadcast")
  /\ UNCHANGED <<env, storePid, answer, calls, minerVars, storeVars, broadcasts, skipped,
                 excused, bounds>>

(* The callback comes last; when it raises the caller exits although the     *)
(* receipt is there.                                                         *)
Broadcast(i) ==
  /\ pc[i] = "broadcast"
  /\ \/ /\ broadcasts' = [broadcasts EXCEPT ![subj(i)] = @ + 1]
        /\ Return(i, "ingested")
        /\ UNCHANGED faults
     \/ /\ Fault
        /\ Return(i, "exit")
        /\ UNCHANGED broadcasts
  /\ UNCHANGED <<env, storePid, calls, minerVars, storeVars, skipped, excused, resets>>

(* A call to the miner or to the store gives up after five seconds, or the   *)
(* producer is killed.  Its message stays in the mailbox: an outcome put may *)
(* still land later.  (Nothing reads a pending receipt: its put lands at     *)
(* once or never.)                                                           *)
GiveUp(i) ==
  /\ pc[i] # "idle"
  /\ Fault
  /\ Return(i, "exit")
  /\ excused' = IF pc[i] \in {"check", "broadcast"} THEN excused ELSE excused \cup {subj(i)}
  /\ \/ UNCHANGED <<pending, late>>
     \/ /\ pc[i] = "pending" /\ StoreAnswers(i)
        /\ pending' = [pending EXCEPT ![subj(i)] = @ + 1]
        /\ UNCHANGED late
     \/ /\ pc[i] = "outcome" /\ StoreAnswers(i)
        /\ late' = [late EXCEPT ![subj(i)] = @ + 1]
        /\ UNCHANGED pending
  /\ UNCHANGED <<env, storePid, calls, minerVars, storeGen, storeUp, outcomes, broadcasts,
                 skipped, resets>>

-----------------------------------------------------------------------------
(* The miner.                                                                *)

Waits(m) == pc[m.from] = "mining" /\ calls[m.from] = m.call

MinerIngests ==
  LET m == Head(box) IN
  /\ minerUp /\ box # <<>>
  /\ m.kind = "ingest"
  /\ box' = Tail(box)
  /\ miner' = IngestBatch(miner, EventsOf[m.subject])
  /\ log' = log \o EventsOf[m.subject]
  /\ mined' = [mined EXCEPT ![m.subject] = @ + 1]
  /\ pc' = IF Waits(m) THEN [pc EXCEPT ![m.from] = "pending"] ELSE pc
  /\ UNCHANGED <<env, storePid, answer, calls, minerUp, storeVars, broadcasts, skipped,
                 excused, bounds>>

(* A reset is a call of its own and waits its turn in the mailbox.           *)
AskReset ==
  /\ minerUp
  /\ resets < MaxResets
  /\ resets' = resets + 1
  /\ box' = Append(box, [kind |-> "reset"])
  /\ UNCHANGED <<callVars, miner, minerUp, log, mined, storeVars, broadcasts, skipped,
                 excused, faults>>

(* handle_call(:reset) is init([]): the flow the miner was started with is   *)
(* replaced by the default one.                                              *)
MinerResets ==
  /\ minerUp /\ box # <<>>
  /\ Head(box).kind = "reset"
  /\ box' = Tail(box)
  /\ miner' = FreshMiner(DefaultFlow)
  /\ log' = <<>>
  /\ UNCHANGED <<callVars, minerUp, mined, storeVars, broadcasts, skipped, excused, bounds>>

(* The miner's mailbox dies with it, and the monitor every call holds ends   *)
(* the callers that wait.  Mutant: they wait on.                             *)
MutantLoseCallersNone(waiting) == UNCHANGED <<pc, answer>>

LoseCallers(waiting) ==
  /\ pc' = [i \in Ingester |-> IF i \in waiting THEN "idle" ELSE pc[i]]
  /\ answer' = [i \in Ingester |-> IF i \in waiting THEN "exit" ELSE answer[i]]

MinerDies ==
  LET waiting == {i \in Ingester : pc[i] = "mining"} IN
  /\ minerUp
  /\ Fault
  /\ minerUp' = FALSE
  /\ miner' = FreshMiner(Flow) /\ log' = <<>> /\ box' = <<>>
  /\ LoseCallers(waiting)
  /\ excused' = excused \cup {subj(i) : i \in waiting}
  /\ UNCHANGED <<env, storePid, calls, mined, storeVars, broadcasts, skipped, resets>>

MinerStarts ==
  /\ ~minerUp
  /\ minerUp' = TRUE
  /\ UNCHANGED <<callVars, box, miner, log, mined, storeVars, broadcasts, skipped,
                 excused, bounds>>

(* The store takes the put of a producer that is gone.                       *)
LatePut(s) ==
  /\ storeUp
  /\ late[s] > 0
  /\ late' = [late EXCEPT ![s] = @ - 1]
  /\ outcomes' = [outcomes EXCEPT ![s] = @ + 1]
  /\ UNCHANGED <<callVars, minerVars, storeGen, storeUp, pending, broadcasts, skipped,
                 excused, bounds>>

(* The store keeps its receipts over a restart when it has a log to replay,  *)
(* and loses them when it has none; what waited in its mailbox is lost.      *)
StoreDies ==
  /\ storeUp
  /\ Fault
  /\ storeUp' = FALSE
  /\ late' = Zero
  /\ \/ UNCHANGED <<pending, outcomes, excused>>
     \/ /\ pending' = Zero /\ outcomes' = Zero
        /\ excused' = excused \cup {s \in Subject : outcomes[s] > 0}
  /\ UNCHANGED <<callVars, minerVars, storeGen, broadcasts, skipped, resets>>

StoreStarts ==
  /\ ~storeUp
  /\ storeUp' = TRUE
  /\ storeGen' = storeGen + 1
  /\ UNCHANGED <<callVars, minerVars, pending, outcomes, late, broadcasts, skipped, excused,
                 bounds>>

-----------------------------------------------------------------------------
IngestStep(i) ==
  \/ StoreCallExits(i) \/ FindDuplicate(i) \/ Forward(i)
  \/ PutPending(i) \/ PutOutcome(i) \/ SkipReceipts(i) \/ Broadcast(i)

MinerStep == MinerIngests \/ MinerResets

(* All bounds used up and every process idle.                                *)
Done ==
  /\ \A i \in Ingester : pc[i] = "idle" /\ calls[i] = MaxCalls[i]
  /\ minerUp /\ storeUp /\ box = <<>> /\ late = Zero
  /\ UNCHANGED vars

Next ==
  \/ \E i \in Ingester : Call(i) \/ IngestStep(i) \/ GiveUp(i)
  \/ \E s \in Subject : LatePut(s)
  \/ MinerStep \/ AskReset \/ MinerDies \/ MinerStarts
  \/ StoreDies \/ StoreStarts
  \/ Done

Spec == Init /\ [][Next]_vars

(* Every process that can run does, and supervisors restart what died.       *)
FairSpec ==
  /\ Spec
  /\ \A i \in Ingester : WF_vars(IngestStep(i))
  /\ WF_vars(MinerStep) /\ WF_vars(MinerStarts) /\ WF_vars(StoreStarts)

-----------------------------------------------------------------------------
(* Every variable has its type; what the miner keeps is TablesExact.         *)
TypeOK ==
  /\ pc \in [Ingester -> {"idle", "check", "forward", "mining", "pending", "outcome", "broadcast"}]
  /\ env \in [Ingester -> Envelope]
  /\ storeGen \in Nat \ {0} /\ storePid \in [Ingester -> 0 .. storeGen]
  /\ answer \in [Ingester -> {"none", "refused", "duplicate", "ingested", "exit"}]
  /\ calls \in [Ingester -> Nat] /\ \A i \in Ingester : calls[i] <= MaxCalls[i]
  /\ minerUp \in BOOLEAN /\ storeUp \in BOOLEAN
  /\ \A f \in {pending, outcomes, late, broadcasts, mined, skipped} : f \in [Subject -> Nat]
  /\ excused \subseteq Subject
  /\ log \in Seq(Event)
  /\ faults \in 0 .. MaxFaults /\ resets \in 0 .. MaxResets

(* The tables the miner keeps by increments (process_event/2) equal what a   *)
(* batch computation over all events since the last start or reset yields,   *)
(* however the batches of concurrent producers interleave in a run: traces,  *)
(* activities, starts and directly-follows edges; the histogram of the runs' *)
(* paths, which update_variants/3 keeps by moving a run from its old path to *)
(* its new one; the conformance counters, by the flow the miner holds now,   *)
(* also after a reset changed that flow; each agent's record, which is that  *)
(* of its latest event and counts the events of that run up to it, other     *)
(* agents' events included.                                                  *)
TablesExact ==
  /\ TracesOf(miner, log) /\ DfgOf(miner, log) /\ VariantsOf(miner, log)
  /\ ConformanceOf(miner, log) /\ FleetOf(miner, log)

(* An outcome receipt (step 2 of do_ingest/4) and a broadcast (step 3) each  *)
(* stand for a batch of their own that a miner folded, or that there was no  *)
(* miner to give to.  The receipt stops every later copy, so one without its *)
(* batch would lose the events for good; nor is a producer told that its     *)
(* envelope was ingested, or was a duplicate, before that happened once.     *)
ReceiptsAreBacked ==
  LET dealt(s) == mined[s] + skipped[s] IN
  /\ \A s \in Subject : outcomes[s] <= dealt(s) /\ broadcasts[s] <= dealt(s)
  /\ \A i \in Ingester : answer[i] \in {"ingested", "duplicate"} => dealt(subj(i)) > 0

(* The same content is folded twice only after one of: two producers between *)
(* check and receipt at once, a call that ended between the two, no store to *)
(* ask, a store that lost its receipts (find_duplicate/2).                   *)
CopiesAreExplained == \A s \in Subject : mined[s] > 1 => s \in excused

(* Every call of ingest_envelope/2 ends, whoever dies meanwhile.             *)
EveryIngestEnds == \A i \in Ingester : pc[i] # "idle" ~> pc[i] = "idle"

(* The module's promise, ingest.ex:2-6: ingestion is idempotent and prevents *)
(* that events of the same content are processed again.                      *)
IngestIdempotent == \A s \in Subject : mined[s] <= 1

=============================================================================
