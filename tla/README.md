# A TLA+ verification project for ex4pm

ex4pm is an Elixir/OTP library for process intelligence. Much of it is pure functions over
event logs and process models. What can go wrong in ways a test hardly reaches is in its
processes: how consequential work is admitted, receipted, dispatched to other nodes, executed
in the order a model asks for and replayed, how the wasm guests that do the computing are
shared and rebuilt, how a stream of events is folded into the tables of an online miner, and
how the Python tools beside the library observe a qualification and judge a release.
This project models those processes in TLA+, checks them with TLC on small instances, and
proves the properties that matter most with TLAPS for every value of the constants.

## 1. Inventory

### Parts, their state and their operations

| part | state | operations | module |
|---|---|---|---|
| `Ex4pm.Evidence.Store`, `DetsStore` | receipts by hash; ETS only: index by subject and by parent | put, get, get by subject, get by parent | `EvidenceStore`; the ledger half of `Brce` |
| `Ex4pm.Evidence.BRCE` | none of its own; each call is a process | `execute/5` | `Brce`, contract `ReceiptedDo` |
| `Ex4pm.Evidence.Replay.Chain` | none | `verify/2` | operators of `Brce` (`ChainVerdict`) |
| `Ex4pm.Runtime.Distributed` | none; dispatches in task processes | `execute/3` and the remote `execute_remote_task/5` | `Distributed` |
| `Ex4pm.POWL`, `Ex4pm.Runtime`, `ReactorStep` | the Reactor's results | `POWL.new/3`, `layers/1`, `compile/1`, `execute/3` | `ReactorRuntime`, contract `PartialOrderRun` |
| ferroplan `Sessions`, `Session` | one process per session: wasm instance, options, journal | new, op, recover, fork, free | `FerroplanSession` |
| `Ex4pmEngine.Wasm.Host`, `RealTransport` | one instance, refusal, restart counter | instance, rebuild, invoke | `WasmHost` |
| `Ex4pm.Stream.Ingest` | none; runs in the producers | `ingest_envelope/2` | `StreamIngest` |
| `Ex4pm.Engine.OnlineMiner` | fleet, traces, edges, variants, conformance counters | ingest, reset, getters | `OnlineMiner` (data), `StreamIngest` (process) |
| `Ex4pm.Engine.CallLog` | ring of recent calls in ETS, a Registry, their lazily started owner | `wrap/5`, trim, clear, subscribe | `CallLog` |
| `scripts/emit-ocel.py` | spool directory, the receipt file it reads | one run: admit, build, spool, post | `OcelRelay` |
| `scripts/qualify-fly-topology.py` | attestation files, summary | one run: observe, write, summarise | `ReleaseCrown` |
| `scripts/verify-final-crown.py` | its output file; reads crown, evidence, git | one run: fifteen checks in order | `ReleaseCrown` |
| `Ex4pm.Application` | supervisor, `:one_for_one` | restarts Store, Wasm.Host, Ferroplan.Host | restart actions of those modules |

Everything else is listed with its reason in section 8.

### How the parts interact

* `Runtime` lowers an admitted partial order into a Reactor. Every step of it calls
  `BRCE.execute/5`, in a process of its own.
* `Distributed` does the same on another node over `:erpc`, and mirrors the remote receipts
  into the ledger of the origin.
* BRCE puts two receipts per call into a ledger, a GenServer. A put is a request message, a
  handler step and a reply. The caller may stop waiting while its request is in the mailbox.
* `Ingest` asks the same kind of ledger for an earlier receipt of the same content, hands the
  events to the miner, another GenServer, and only then leaves its receipts.
* Engine adapters call closures of `Wasm.Host`, which owns the one instance all of them share.
  Ferroplan sessions each own an instance and rebuild its memory from a journal.
* Every engine call is wrapped by `CallLog.wrap/5`, which leaves an envelope in a table that
  belongs to a process the first caller starts.
* The relay is run by the qualification workflow, right after that wrote the receipt file. The
  topology qualifier writes the attestation files that the crown's manifests name and the
  verifier reads; both are separate programs, and nothing locks the files between them.

### What is hard

| behaviour | where | what must hold nevertheless |
|---|---|---|
| a call times out, its message does not | BRCE puts, erpc, session calls, miner calls | what a caller is told agrees with what happened; effects once and in order |
| a process dies between two steps | ledger, callers, nodes, instances, sessions, miner | recovery finds neither too much nor too little; nobody waits for ever |
| check and act are two calls | duplicate check of `Ingest`, fork of a session, rebuild of an instance | the outcome of the check may be stale when it is used |
| several act at once | callers of one instance, producers of one run, tasks of one order | no work of the innocent is lost; derived tables stay exact |
| a file is read twice, or written in place | receipt of the relay, evidence of the verifier, attestations | what is judged or observed is what was digested; half a file is never taken for one |
| a server is started by its first user | the call log's owner | the second user may come before the table is there: what it loses is noticed, or is known to be lost |
| the host crashes around a rename | the relay's spool | a file under its final name is whole |
| one of several steps fails | mirroring and closing a dispatch, receipts after a DO | the answer admits what was done |

`PROJECT.json` lists each hazard at its line with the properties aimed at it.

## 2. Modules

| module | lines it stands for | role |
|---|---|---|
| `EvidenceStore` | `evidence.ex` 78-202 | the ledger with two indexes, any receipt-shaped map |
| `Brce` | `evidence.ex` 4-76, 259-381, `dets_store.ex`, `replay_chain.ex` | the receipted DO boundary with ledger, messages, clock |
| `ReceiptedDo` | - | abstract contract of the boundary; `Brce` and the remote half of `Distributed` implement it |
| `Distributed` | `runtime/distributed.ex` | origin, network and remote node of a dispatch |
| `ReactorRuntime` | `powl.ex` 62-185, `runtime.ex`, `reactor_step.ex` | admission, layering and execution of a partial order |
| `PartialOrderRun` | - | abstract contract: an execution of a partial order |
| `FerroplanSession` | `ferroplan/sessions.ex`, `ferroplan/session.ex`, `wasm/ferroplan_transport.ex` | sessions, their callers and instances |
| `WasmHost` | `wasm/host.ex`, `wasm/real_transport.ex` 243-339 | the shared instance and its callers |
| `OnlineMiner` | `online_miner.ex` | the fold of one event into the miner's record, and reference definitions of its tables |
| `StreamIngest` | `stream/ingest.ex`, `online_miner.ex` | producers, miner process, store |
| `CallLog` | `engine/call_log.ex` 48-138, 171-283 | callers, buffer and lazily started owner |
| `OcelRelay` | `scripts/emit-ocel.py` | relay runs, receipt file, spool and disk, collector |
| `ReleaseCrown` | `scripts/qualify-fly-topology.py`, `scripts/verify-final-crown.py` | the two courts of a release over shared evidence files |
| `*Proofs` | - | theorems about the modules they extend |
| `MC*` | - | instances for TLC |

`MCEvidenceStore` holds the ledger and the call log, `MCRelease` the relay and the courts: parts
without common state, of which a behaviour runs one, so that their states add up.

Conventions. An action is one handler, or what a process does between two points at which
others can observe it. A `GenServer.call` is a message in a set or sequence, a handler action,
and a caller that leaves its waiting state by a reply, a timeout or the death of the server.
Digests are injective and are modelled by what they digest. Names are those of the code.
Operators called `Mutant...` are plausible bugs of the definition they precede: each property
of a passing run is violated when one of them replaces that definition.

### From code to model

**EvidenceStore.** `table`, `subject_index` and `parent_index` are the three ETS tables.
`HandlePut` is `handle_call({:put, receipt})` with the removal of the replaced receipt's index
entries, `Restart` is a death of the owner, which takes the tables along.

**Brce.** Each member of `Call` is a process in `execute/5`. `Begin` and `Refuse` are
`admit/2` with its branches (`BeginRaises`: the pending receipt cannot be digested, and nothing
catches that), `PendingPersisted`, `Invoke`, `Finalize`, `OutcomePersisted` are
the steps of the `with`; `PutFails` is every way in which `safe_put/2` does not return
`{:ok, _}`: an error reply, a timeout with the request still in `inflight`, a dead server.
`HandlePut`, `RejectPut`, `LedgerDies`, `LedgerRestarts` are the ledger; `durable` chooses
between the ETS and the DETS implementation. `Kill` is an exit signal to a caller at any
point. `ChainVerdict` is `Replay.Chain.verify/2` with `AdmitParent`. `landed` is history: what was inserted in which incarnation of the ledger. A pending
receipt is its payload, which has a timestamp from `clock`; so two calls with equal arguments
in one tick share a hash, as in the code.

**Distributed.** `Dispatch` puts the intent, `ErpcCall` spawns the remote process, `Receive`
and `TimeOut` end the wait; `MirrorPending`, `MirrorOutcome` and `Close` are the puts of the
branch taken (`Branch`, with `Resolution` and `MayHaveAttempted` as the code's table of
answers). Each put may fail and leave its receipt in `late`. Which tasks are dispatched, and
when, is the Reactor's decision and left open. The remote BRCE takes the steps
of `ReceiptedDo`; nodes crash, connections break, replies get lost, a foreign node answers
something else.

**ReactorRuntime.** `Layers` is Kahn's algorithm as in `acyclic?/2` and `layers/1`: a whole
layer per round, in-degrees lowered per edge. `Start` is the scheduler: arguments exist, at
most `MaxConcurrency` at a time, at most `MaxRetries` times again. `RefuseAuthority`,
`PutIntent`, `Act`, `Raise`, `PutOutcome` are the points of one `ReactorStep.run/3`.
`Collect` waits for the terminal tasks only, as the collector step does, and `Answer` builds
the execution from all tasks; `answer = "missing"` is the case in which it finds a task
without a result.

**FerroplanSession.** A session's handler is one action per way its guest calls can end
(`OpOk`, `OpError`, `OpTrapped`, `OpTimedOut`, `OpLost`, ...), because a GenServer handles one
message at a time. The guest is the sequence of state-changing operations it has applied.
Callers time out and send again, fork in two calls, and lose their session.

**WasmHost.** `Invoke` is a transport closure: ask, call the export, call its replay, on
failure ask for a rebuild by naming the instance that failed, retry once. `HandleRebuild`,
`HandleInstance`, `HandleExit` are the Host; `booted` numbers instances.

**StreamIngest / OnlineMiner.** `ProcessEvent` is `process_event/2` on a record with the
miner's fields. `Call`, `FindDuplicate`, `Forward`, `PutPending`, `PutOutcome`, `Broadcast`
are the statements of `ingest_envelope/2` between which other processes may run; `GiveUp` is
a call to the miner or the store that times out, or a producer that is killed, and `LatePut` the
handling of a receipt whose producer is gone. `log` is
history: the events folded since the miner's start or reset.

**CallLog.** A caller of `wrap/5` passes `EnsureStarted`, `BuildEnvelope`, `Insert`, `Check`
(the size it reads decides on a trim), `DispatchAndIngest`; whatever raises on the way leads to
`Note`. The owner's name is registered before `CreateTable` and `StartRegistry`, the two
statements of `init/1`. A trim first reads the keys (`TrimLooks`) and then deletes them one by
one (`TrimDeletes`) while callers insert. `OwnerDies` takes table, Registry and mailbox along;
`GenServer.start/3` links the owner to nobody.

**OcelRelay.** An emitter is one run of the script: `Start`, `LoadReceipt` (one read),
`Build`, then `WriteTemp`, `Fsync`, `Replace` of `atomic_spool/2`, then `SpoolOnly` or `Send`
with `Hear` or `PostFails`. The name a run files under is a constant operator of run id,
sequence and receipt about which nothing is assumed, since the script's names are not unique
(run `1-2`, sequence `3` and run `1`, sequence `2-3` share one). The workflow that writes the receipt file truncates it first
(`TruncateReceipt`, `FillReceipt`). `disk` is what a crash of the host leaves: an unsynced file
is torn, and whether a rename is already on it is open, because the directory is not synced.

**ReleaseCrown.** `Qualify` is `main/0` of the qualifier up to its first write; each
attestation is truncated and filled in two steps, then summarised. The verifier has one action
per check, in the order of `verify/4`; `load_verified_json/3` is two actions, since it opens the
file once to hash and once to parse. A verification may expect a source and a tree; it cuts its
output file before it fills it (`WriteOutput`), and may be killed at any point. `head` may move between the two git calls. A digest is the
content digested, so a manifest entry names the content a file must have. The thresholds (5
hosts, 2 regions, 3 domains, 5 certificates, 5 attestations) are constants.

## 3. Runs

| run | configuration | distinct states | question |
|---|---|---|---|
| `store` | ledger: 2 hashes, 2 subjects, 2 bodies; call log: 2 callers, 4 calls, capacity 1, 1 fault | 271,000 | are the indexes exact; does the ring keep the newest, and who loses a call silently? |
| `brce` | 2 calls, 4 authorities, 2 ticks, 1 restart, both ledgers | 670,000 | does the boundary keep its promises and implement its contract? |
| `brce_late` | as above, no restart, admitting authority | violation | does a refused standing stay refused? |
| `distributed` | 2 tasks, 2 nodes, one foreign, 2 crashes | 1,270,000 | is what the origin says backed by both ledgers? |
| `distributed_refusal` | 1 task, 1 node | violation | do closing receipts admit a DO? |
| `runtime` | 4 tasks, 129 edge lists, every authority, 2 failures | 316,000 | are executions those of the order, does alive mean all? |
| `session` | 2 sessions, 2 callers, 5 calls, 1 fault | 4,214,000 | do acknowledged operations survive, in order, once? |
| `session_replay` | 1 caller, 4 calls, a slow operation | violation | can a journal always be replayed? |
| `wasm_host` | 3 callers, one of them poisonous, 1 fault | 220,000 | no leak, no needless rebuild, what may fail a bystander, does a refusal stay? |
| `stream` | 2 producers, 3 calls, 1 fault, 1 reset | 232,000 | are the tables exact, is every receipt backed? |
| `stream_twice` | the same without faults | violation | is ingestion idempotent? |
| `release` | relay: 2 runs, 5 command lines, 2 receipt writes, 1 crash; courts: 14 kinds of crown, expected source and tree, 6 listings, 2 qualifications, 2 verifications, 1 outside change | 2,709,000 | is the spool whole and true, the verdict exact, a published ALIVE earned? |

### What each property says

* `IndexesExact`: the bag tables hold the entries of the receipts in the ledger and no others,
  so queries by subject or parent are neither stale nor incomplete (`QueriesExact`, proved).
* `NewestKept`: an envelope leaves the ring only when `Cap` later ones have come, whatever
  order callers insert in while a trim goes on. `OverflowIsNoticed`: a buffer over its bound
  has a trim on its way or a caller about to ask for one, unless that caller was killed.
  `SilentOnlyAtTheEdges`: a call that leaves neither envelope nor note met the owner while
  another caller was starting it, or while it died.
* `AnswersTruthful`: ok, error and `do_attempted` agree with what the callback did and the
  ledger inserted. `OutcomesClose`: replay of every outcome in the ledger (`ChainVerdict`)
  finds its pending receipt there, with the same subject, operation and authority, except
  after a restart of the volatile ledger. `StandingEarned`: an alive outcome
  belongs to a callback that returned. `ImplementsReceiptedDo`: all of it as refinement.
* `ConfirmedIsDone`, `OriginCloses`, `AmbiguityKept`: a confirmation is backed by both
  ledgers; mirrored receipts exist remotely; a timeout or lost connection is answered as
  ambiguous. `OnlyMirrorDeniesFalsely`: an answer that denies the DO is false when it is the
  one of a failed mirror of the pending receipt, always (see section 7); every other denial is
  true, now and for ever, and so is the closing receipt of a refused spawn.
  `RemoteKeepsContract`: the remote half refines `ReceiptedDo`.
* `LayersExact`: exactly the edge lists without a cycle are admitted, and layers are the
  longest-path layers. `AliveMeansAll`: alive means that every callback ran exactly once and
  has its outcome. `RunsPartialOrder`: no callback before all its predecessors' outcomes.
* `AckedSurvive`, `GuestIsJournal`, `EffectsInOrder`, `ForkIsolated`, `NoCallerForgotten`:
  what was acknowledged is in every rebuilt guest; an instance that did not trap holds what
  the journal says; effects of one caller happen once and in order; a fork sees nothing of
  its parent's later life; every waiting caller has its message in a living mailbox or a dead
  session in front of it.
* `OnlyOwnedLives`, `RestartsCounted`, `RebuildsAreCaused`: at most the Host's own instance is
  alive; the counter counts replacements; a late rebuild request does not tear down the
  replacement. `BystandersFailForCause`: a caller whose own request does not trap is answered
  as trapped only when there were two faults or trapping requests, thanks to its retry; as
  timed out or refused only when there was a fault. One hang or one refused boot does fail
  every bystander; a trapping request of another caller alone never does. (A Host that died, or
  did not answer within 60 s, is answered as unavailable, about which nothing is promised.)
  `RefusalStays`: after one refused boot nothing makes the Host boot again while it lives.
* `TablesExact`: the tables and the fleet kept by increments equal a batch recomputation over
  the log, also after a reset changed the canonical flow. `ReceiptsAreBacked`: no receipt, no
  broadcast, no answer without a batch that was mined or that there was no miner for.
  `CopiesAreExplained`: a batch is mined twice only for one of four causes.
* `SpoolIsWhole`: what stands under a spool name is a complete observation of a run that chose
  the name. `ObservationsAreReceipted`: nothing leaves before it was spooled, and each
  observation is bound to a receipt that was completely written for its source and standing.
  `ReportsAreTrue`: a report of spool or collector is what happened, with the redirect that
  urllib follows by a bodyless GET named as the exception.
* `VerdictExact`: on evidence that stays, the chain of checks with its early exits says ALIVE
  exactly when the crown holds as a whole and is of the source and tree the caller expects,
  stated without any order. `PublishedIsEarned`: an ALIVE result in the output file, whatever
  moved while it was earned and whichever verifier was killed since, stands for agreeing
  results and complete attestations of its source, spread as required.
  `QualifiedTopologySatisfiesCrown`: a topology the qualifier calls ALIVE leaves files the
  verifier accepts, but for a killed run and a listing that names a host twice.
* `EveryCallEnds`, `EveryDispatchEnds`, `EveryExecutionEnds`, `EveryInvocationEnds`,
  `EveryIngestEnds`: liveness under the fairness of section 4; a dispatch has to end once it
  was started, an execution, invocation or call always.

### Bounds and why they are enough

Two actors are the fewest that interleave, and the properties relate one actor to another or
to one server; a third caller is there in `wasm_host` because it takes two to fail on one
instance and one to be hurt by their rebuilds. One ledger restart separates before and after;
the proofs of section 5 lift that bound. Two crashes in `distributed` allow a connection lost
before and after the remote DO. Four tasks hold every shape of edge list that matters to
Kahn's algorithm (chain, fork, join, diamond, N, cycles of length 1, 3, 4, an unknown task).
Five session calls build a plan, walk it, lose the instance, and recover or fork. In `stream`
three calls hold a repeat, a second content in the same run, and a refused sequence number;
the activities cover lawful, unlawful, unknown and refused steps, and one standing that
arrives as text. A ring of capacity one, which tolerates one envelope more, is overfilled by
the third of four calls. Two failures in `runtime` let a callback raise and the receipt that
says so be refused as well. In `release` two relay runs and two receipt writes let one run read
what another's qualification writes; two verifications let a refused one follow an ALIVE one;
fourteen crowns hold the one that is right and, for every check, one that fails it; thresholds
of two, where the scripts have two, three and five, are the least that one machine cannot meet
alone. There the behaviours are split in three (`tool`): every crown once against a topology
and one outside change, or the right crown again while the topology is qualified anew. The
proofs about the courts have none of these limits. Counters of calls, faults, crashes and resets are the only bounds; each is
a constant named `Max...`.

## 4. Fairness

Weak fairness is assumed of processes that have something to do: BEAM schedules every
runnable process, and a `GenServer.call`, an `:erpc.call`, an export call and a Reactor run
have timers that fire. Callbacks inside BRCE are assumed to return or raise in `Brce`. Nothing
is assumed of ledgers (`Brce`), of remote nodes, the network and the dispatch of a task
(`Distributed`: the Reactor starts no further task after a failure or its timeout), of tasks
(`ReactorRuntime`: one may hang for ever), or of faults. `StreamIngest` assumes that
supervisors start the miner and the store again. `FerroplanSession` states no liveness; its
`NoCallerForgotten` is the safety half of it.

Deadlock checking is off where the system may stop: calls end, nodes stay down, sessions are
freed, runs of the scripts are over. `EvidenceStore` runs for ever; `CallLog`, `StreamIngest` and `ReactorRuntime` have a `Done` step
(in `CallLog` the last disjunct) that only their intended end enables, so that any other stop is reported.

## 5. Proofs

| theorem | statement | rests on |
|---|---|---|
| `StoreIndexesExact`, `StoreQueriesExact` | the indexes and queries of the ledger are exact | types, at most one receipt per hash, exact indexes |
| `CallLogTypeOK`, `CallLogNewestKept`, `CallLogOverflowIsNoticed`, `CallLogSilentOnlyAtTheEdges` | the ring keeps the newest, its overflow is noticed, silence has a cause | `LogInv`: numbers in flight are fresh, `RestIsNoticed`, `OwnerServes` |
| `BrceInvariant`, `BrceTypeOK` | `TypeOK /\ BrceInv` always | inductive |
| `BrceDoOnlyAfterPending` | pending before DO | `CallInv` |
| `BrceAnswersTruthful` | answers agree with callback and ledger | `BrceInv`, and itself inductive over it |
| `BrceOutcomesClose` | outcomes close over their pending receipts | `CallInv`, `LedgerInv` |
| `BrceStandingEarned` | standing is earned | `CallInv`, `LedgerInv` |
| `BrceImplementsReceiptedDo` | refinement of the contract `ReceiptedDo` | `BrceInvariant`: each step maps to a step of the contract or a stutter |
| `DistributedInvariant`, `DistributedTypeOK`, `DistributedRecordedFirst` | `DistInv` always; nothing remote without a recorded intent | inductive |
| `DistributedConfirmedIsDone`, `DistributedOriginCloses`, `DistributedAmbiguityKept`, `DistributedDenials` | what the origin says is backed, closed, ambiguous when it must be; which denials are worth what | `DistInv` |
| `DistributedRemoteKeepsContract` | the remote half refines `ReceiptedDo` | `DistInv` |
| `SessionTypeOK`, `SessionInvariant` | types and `SessionInv` always | inductive |
| `SessionGuestIsJournal`, `SessionAckedSurvive` | guest, journal and acknowledgements agree | `SessionInv` |
| `SessionNoCallerForgotten`, `SessionForkIsolated` | no caller waits in vain; forks are isolated | an invariant each, over the types |
| `SessionEffectsInOrder` | effects once and in the order of sending | `OrderInv` on mailboxes, journals and call numbers |
| `HostInvariant`, `HostTypeOK`, `NoInstanceLeaks`, `RestartsAreCounted`, `HostRefusalStays` | the Host leaks no instance, counts right, and keeps a refusal | an exit in the mailbox names a dead instance |
| `HostRebuildsAreCaused`, `HostBystandersFailForCause` | a rebuild has a cause, and so has the failure of a request that does not trap | `PaidFor`, `FailuresMet` |
| `StreamTypesHold`, `StreamReceiptsAreBacked`, `StreamCopiesAreExplained` | receipts are backed, copies have a cause | `StreamInv` |
| `StreamTablesExact` | the incremental tables are those of the whole history | `MinerInv`: `Tables` over the miner's state and the history, kept event by event |
| `RuntimeInvariant`, `RuntimeTypeOK` | `TypeOK /\ RuntimeInv` always | inductive |
| `RuntimeAliveMeansAll` | alive means all | tasks that are not done would each have a successor |
| `RuntimeLayersExact` | exactly the partial orders are admitted, and layered in order | `SmallestClosed` and the lemmas on Kahn's rounds, by induction over the rounds |
| `RuntimeRunsPartialOrder` | refinement of `PartialOrderRun` | `OrderInv` |
| `RelayTypesHold`, `RelaySpoolIsWhole`, `RelayObservationsAreReceipted`, `RelayReportsAreTrue` | the relay's spool, observations and reports | `RelayInv` |
| `CrownTypesHold`, `CrownPublishedIsEarned` | a published ALIVE is earned | `CrownInv` |
| `CrownAcceptsQualified` | what one court calls ALIVE the other accepts | `Qualified` |
| `CrownVerdictExact` | on evidence that stays, the chain of checks ends ALIVE exactly when the crown holds as a whole and is the one expected | `Exact`: what the verifier read while nothing moved, and the verdict |

Assumptions are those named in the modules (`...Assumption`); they type the constants, say that
special values such as `Nil` or `Missing` are none of the ordinary ones, and, in
`StreamIngest` and `WasmHost`, that producers and trapping requests are finitely many; a machine
listing names files by host, an edge is a pair (`powl.ex:85-102` refuses the others), and a crown
is parsed JSON whose counts are numbers and whose lists are lists (`RequestAssumption`). The number of calls, clients and tasks, the
clock, the numbers of restarts, crashes and faults are arbitrary.

*The boundary.* That a DO follows its pending receipt is not inductive: the caller goes on
because a reply arrived. `MessageInv` says what a reply on its way means (its receipt landed)
and what a request under way carries; `LedgerInv` that whatever landed is in the table or was
lost in a restart of the volatile ledger, and that a landed outcome was built by some call;
`CallInv` relates a call's position to what it built. The three are preserved together.

*Dispatch.* `DistInv` relates where a task is at the origin to what the remote process has
left (`SentInv`, `RemoteInv`), and says that a word that came back, or is on its way, stays
true because the process that gave it has ended and nobody starts another (`Word`). The
refinement maps the remote process to a call of `ReceiptedDo`; a node that crashes is a call
that is killed.

*Sessions.* `SessionInv` says of each session what its guest holds while it is up, booting or
lost (`GuestInv`), and that what a caller was told is in the journal of a session that is up, or
the session is gone (`ToldInv`). For `EffectsInOrder`, `OrderInv` says that a caller's requests
lie in a mailbox in the order of their numbers, all of them younger than what any guest, journal
or fork holds of that caller.

*The Host.* An instance could leak if a Host boots one while it holds another. It boots on an
exit that names its own instance, so the proof needs that such an instance is dead for good:
instances get new numbers only.
A boot is due (`Due`) while no instance is alive or a request to rebuild the
live one waits in the mailbox. `PaidFor` bounds what has booted or is due by one plus the
faults plus the trapping requests that spent their retry: a second caller's request for the
same instance adds nothing, as the first one's boot makes it name an instance that is gone.
`FailuresMet` says that a caller whose request does not trap has met one dead instance per
failed attempt, and two different ones when it gives up; two dead instances take two payments.

*Ingestion.* A count is not enough to show that each receipt has a batch of its own. `Backed`
adds to the receipts the producers that still owe one, and the sum never exceeds the batches
dealt with. `Single` follows a subject nothing has excused: one message, one producer past the
check, one fold, and a receipt before the next check.

The miner's tables are stated against the history of events (`Tables`): traces, activity and
edge counts, variants, conformance, fleet. One event moves a run from one trace to the next. A
count of positions gains one where the event belongs; the edge it closes is the one step that
is new in the history (`NextOfRun`, `RankInRun`); and the table of variants loses the run under
its old path and gains it under the new one, which is where a forgotten removal of a count that
reaches zero would show (`HistogramLoses`, `HistogramGains`). A batch is a recursive function
over its positions. That it exists and keeps the tables is an induction over its length, done on
a *set* of naturals (`NatSetInduction`, from the least element of a set of naturals).

*The call log.* The newest survive a trim because it deletes only what had `Cap` later ones
when it looked, and numbers only grow (`Fresh`, `DoomedAreOld`). That an overflow is noticed
rests on `RestIsNoticed`: what the trim under way will leave is not too much, or another trim or
a caller about to look at the size follows. Silence needs that a caller who met neither boot
nor death of the owner finds it serving (`OwnerServes`).

*The runtime.* Complete means that the terminal tasks are done. `OrderInv` says that whatever
was started has all its predecessors done, so the tasks that are not done form a set in which
each one has a successor in the set. An order without a cycle has no such set but the empty
one.

That only orders without a cycle get this far is about Kahn's rounds (`powl.ex:132-184`). A
finite set in which each task has a successor holds one in which each has a predecessor, and
the other way round (`SmallestClosed`: in the smallest such set a member without one could be
left out). A round keeps every set of the second kind, and loses a task when there is none; so
as many rounds as there are tasks consume all of them exactly when there is no cycle. A task is
dropped in one round only, after all its predecessors and right after the last of them.

*The relay.* `Stages` says what a run has done by where it is, `Bound` that it built its
observation of the bytes it admitted, `Durable` that every file in the spool or on the disk is
a synced observation of a run that spooled it. A crash then finds nothing to tear.

*The courts.* `Court` says what the checks passed so far have shown of the crown and of the
attestations counted, in terms of what was read and not of what the files hold now; so it
survives any rewriting, and `PublishedIsEarned` is what is left of it at the last check.
The qualifier has an invariant of its own, `Qualified`: what it observed is attested for its
source, spread unless it met errors, and in the files but for what is left to write, as long as
nobody else writes and no host is listed twice. With `left` empty, the summary speaks of files
that meet the verifier's tests of an attestation (`CrownAcceptsQualified`).
For `CrownVerdictExact` the crown's requirements are taken apart into what each check asks;
`Reading` says which of them are known to hold by where the verifier is, as long as nothing
moved (`PassedAt`), and each check either goes on with its part shown or ends the chain with it
refuted. The code counts the values of a field over the attestations it parsed; the requirement
asks for as many attestations that differ pairwise in that field: lemma `Chosen` equates them.

## 6. What is only model-checked

Liveness (`Every...Ends`), which is out of the prover's reach, as is `ENABLED`. Every invariant
and every other action property or refinement of a passing run is a theorem of section 5, for
all values of the constants. Induction is used over sets of naturals only; the library's
induction theorems, which take an operator, are out of reach.

## 7. Disagreements between code and text

* `brce_late`: a refusal says that standing cannot advance; the put that timed out is not
  withdrawn and the alive outcome lands afterwards (`evidence.ex:356`).
* `distributed_refusal`: a remote refusal after the DO (`do_attempted: true`) is closed at
  the origin with `do_may_have_been_attempted: false` (`distributed.ex:237`).
* `session_replay`: an operation that succeeded under a longer per-call timeout is replayed
  under the session's own and fails there, so the journal cannot be replayed
  (`session.ex:237`).
* `stream_twice`: two producers of the same envelope both pass the duplicate check, and its
  events are mined twice (`ingest.ex:31`).

Three more have no run that is expected to fail, because a property of a passing run states what
the code does or names it as its exception:

* When the remote pending receipt cannot be mirrored, which is after the remote DO, the refusal
  says `do_may_have_been_attempted: false`: `put_receipt/3` takes the phase of the receipt for
  the phase of the DO (`distributed.ex:350`), while
  `docs/archive/REQUIREMENTS-v26.8.23.md:18` asks for during-DO ambiguity.
  `OnlyMirrorDeniesFalsely` says that this denial is false every time.
* A Host whose reboot was refused once never boots again while it lives (`host.ex:190`), as
  `RefusalStays` says; the documentation of `instance/1` says that it rebuilds a dead instance
  (`host.ex:68`).
* A guest call that traps is answered with an error and its instance is kept, with whatever the
  call changed (`ferroplan_transport.ex:218`), while `docs/FERROPLAN-RUNTIME.md:54` says that a
  trap stops the instance. `GuestIsJournal` excepts such instances.

## 8. What is not modelled, and why

Generated wasm bindings, Mix tasks, the command line, the in-library qualification courts
(`lib/ex4pm/qualification/`) and exploration catalogues have no state that outlives a call. The
other Python programs read fixed data once and report; the reference remote answers every
request with the same file. OCEL and XES conversion, the native mining and conformance
algorithms, workflow-net analyses, POWL trees, LTLf and stochastic analyses are pure functions
over data; those with a crisp reference definition are in the plan. Ash resources are
declarations over a library.

Left out inside modelled parts: the marshalling of one wasm call (`real_transport.ex` before
line 243; which of the codes `:invalid_encoding`, `:resource_limit`, `:invalid_json`,
`:malformed_response` a call is refused with: all are answered without retry,
`answer = "rejected"`), which of the tests of its arguments made `Distributed.execute/3` refuse,
`ends` and `total_runs` of the miner, which are set in `init/1` and never changed, getters and
`status/0`, a task runner supplied by the caller of `Runtime.execute/3`, timestamps, durations and the fitness quotient of the miner, the restart intensity of the
supervisor, hash collisions and receipts altered in the ledger (so that `Replay.verify/1` always
matches); the envelopes' content and the subscribers of the call log;
headers, tokens and rendering of the relay; the directory prefix of evidence paths and whether
they leave the root; in the verifier, fields that are always required together are one.

Quirks that were met, that no document promises otherwise, and that no property excludes:

* a failed execution answers `completed_layers: []` whatever was done (`runtime.ex:108`), and
  the call log's `events/0` returns a note among the envelopes (`call_log.ex:79`);
* a callback that returned a value `Hash.digest/1` raises on is recorded as `:blocked`
  (`evidence.ex:307`; `Invoke` with "undigestable");
* without a miner an envelope is receipted and never mined (`ingest.ex:96`), a reset forgets the
  configured flow (`online_miner.ex:189`), and a standing that arrives as text counts for the
  fleet record only (389);
* an observation is replaced by a later one that comes to the same file name
  (`emit-ocel.py:231`), and a redirected POST is reported as delivered (200);
* a host listed twice is counted twice by the qualifier and once by the crown
  (`qualify-fly-topology.py:103`).

They are in the models, and the properties are stated so that they hold with them.

## 9. Plan

Written in this order, the most consequential first: `EvidenceStore`, `Brce` with
`ReceiptedDo`, `Distributed`, `FerroplanSession`, `WasmHost`, `OnlineMiner` with
`StreamIngest`, `ReactorRuntime` with `PartialOrderRun`; then `OcelRelay`, `ReleaseCrown` and
`CallLog`, and the proofs about `Distributed`, `FerroplanSession`, `StreamIngest`, the release
tooling and the call log. `Distributed` composes with the contract `ReceiptedDo` rather than
with `Brce`; `ReactorRuntime` with the points at which a BRCE call can end.

To come:

1. `PowlExecutor`, the token game (duplicate input places, the floor at zero), with the
   firing rule of `workflow_net.ex` and token replay as one net module; soundness verdicts of
   `soundness_prover.ex` against their definitions.
2. The lazily started ferroplan host; wasm admission and adapter standing, the standing algebra
   with coded standings and the batch ledger, the saga's compensation order.
