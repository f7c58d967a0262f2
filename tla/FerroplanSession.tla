-------------------------- MODULE FerroplanSession --------------------------
(***************************************************************************)
(* Ferroplan planning sessions: the facade Sessions and its callers, one    *)
(* Session process per session, and the wasm instance each one owns         *)
(* (lib/ex4pm/engine/ferroplan/sessions.ex, session.ex,                     *)
(*  lib/ex4pm_engine/wasm/ferroplan_transport.ex).                          *)
(*                                                                          *)
(* A Session is a GenServer: it takes one message of its mailbox at a time  *)
(* and shares no state while it handles it, so a handler is one action,     *)
(* with a disjunct or an action per way its guest calls can end.  What      *)
(* interleaves is what other processes do: callers send, give up waiting    *)
(* while their message stays in the mailbox, fork from a journal that       *)
(* grows; instances and processes die.  The guest is the sequence of        *)
(* state-changing operations its memory has seen since session_new.         *)
(***************************************************************************)
EXTENDS Naturals, Sequences, SequencesExt

CONSTANTS
  Session,    \* session ids
  Client,     \* processes that call the facade
  Mutating,   \* @mutating: operations that are journaled when they succeed
  ReadOnly,   \* @readonly
  Needs,      \* [Mutating -> SUBSET Mutating]: what the guest must have seen
  Slow,       \* operations that only finish under a longer timeout than the session's
  MaxCalls,   \* bound: how many calls each client makes
  MaxFaults   \* bound: deaths, traps, timeouts and failed boots

ASSUME FerroplanSessionAssumption ==
  /\ Mutating \cap ReadOnly = {}
  /\ Needs \in [Mutating -> SUBSET Mutating]
  /\ Slow \subseteq Mutating
  /\ MaxCalls \in [Client -> Nat]
  /\ MaxFaults \in Nat

VARIABLES
  proc,      \* "absent", "starting" (in init/continue), "up" or "gone"
  bootError, \* state.boot_error is set
  live,      \* state.transport is a live instance with a guest session
  guest,     \* what that instance's guest session has applied
  journal,   \* state.journal, newest first
  box,       \* the mailbox
  pc,        \* what each client waits for: "idle", a message kind, "forking"
  on,        \* the session its last message went to
  sent,      \* how many messages it sent
  spec,      \* the fork spec it received
  answer,    \* what its last call returned
  told,      \* history: mutating requests answered {:ok, _}
  origin,    \* history: the journal a session was started with
  trapped,   \* history: the current instance trapped and was kept
  faults

sessionVars == <<proc, bootError, live, guest, journal, box>>
clientVars == <<pc, on, sent, spec, answer>>
vars == <<proc, bootError, live, guest, journal, box, pc, on, sent, spec, answer,
          told, origin, trapped, faults>>

Op == Mutating \cup ReadOnly

(* The request a fork appends unless keep_plan was asked for.                *)
DropPlan == [by |-> "fork", n |-> 0, to |-> "any", op |-> "drop_plan"]

Request(s, m) == [by |-> m.by, n |-> m.n, to |-> s, op |-> m.op]

(* journal/3: state.journal after the success of m.  Mutants: nothing is     *)
(* journaled; operations that only read are journaled as well.               *)
MutantJournaledNothing(s, m) == journal[s]

MutantJournaledReads(s, m) == <<Request(s, m)>> \o journal[s]

Journaled(s, m) ==
  IF m.op \in Mutating THEN <<Request(s, m)>> \o journal[s] ELSE journal[s]

(* state.journal of a session started with a journal to replay.  Mutant: it  *)
(* is stored as it was given.                                                *)
MutantInitialJournalAsGiven(log) == log

InitialJournal(log) == Reverse(log)

(* The journal in the order its operations were applied.  Mutant: newest     *)
(* first.                                                                    *)
MutantLogReversed(s) == journal[s]

Log(s) == Reverse(journal[s])

-----------------------------------------------------------------------------
(* The guest (external).  An operation whose preconditions the guest has not *)
(* seen is answered with an error envelope and changes nothing.              *)

Accepts(seen, op) ==
  op \in Mutating => \A m \in Needs[op] : \E i \in DOMAIN seen : seen[i].op = m

(* replay/1: every journaled request is called again under the session's own *)
(* timeout, and the first one that fails ends the boot.                      *)
Replays(log) ==
  \A i \in DOMAIN log : /\ log[i].op \notin Slow
                        /\ Accepts(SubSeq(log, 1, i - 1), log[i].op)

-----------------------------------------------------------------------------
Init ==
  /\ proc = [s \in Session |-> "absent"]
  /\ bootError = [s \in Session |-> FALSE]
  /\ live = [s \in Session |-> FALSE]
  /\ guest = [s \in Session |-> <<>>]
  /\ journal = [s \in Session |-> <<>>]
  /\ box = [s \in Session |-> <<>>]
  /\ pc = [c \in Client |-> "idle"]
  /\ on \in [Client -> Session]
  /\ sent = [c \in Client |-> 0]
  /\ spec = [c \in Client |-> <<>>]
  /\ answer = [c \in Client |-> "none"]
  /\ told = {}
  /\ origin = [s \in Session |-> <<>>]
  /\ trapped = [s \in Session |-> FALSE]
  /\ faults = 0

Fault == faults < MaxFaults /\ faults' = faults + 1

-----------------------------------------------------------------------------
(* The facade: GenServer.call puts a message into the mailbox and waits.     *)

Message(c, kind, op) == [kind |-> kind, by |-> c, n |-> sent[c] + 1, op |-> op]

Wait(c, s, kind) ==
  /\ pc' = [pc EXCEPT ![c] = kind]
  /\ on' = [on EXCEPT ![c] = s]
  /\ sent' = [sent EXCEPT ![c] = @ + 1]
  /\ answer' = [answer EXCEPT ![c] = "none"]

(* start_session/1: the process is started with a journal to replay (init/1  *)
(* stores it reversed) and await_ready is the first message it will get.     *)
StartSession(c, s, log) ==
  /\ proc[s] = "absent"
  /\ proc' = [proc EXCEPT ![s] = "starting"]
  /\ journal' = [journal EXCEPT ![s] = InitialJournal(log)]
  /\ origin' = [origin EXCEPT ![s] = log]
  /\ box' = [box EXCEPT ![s] = Append(@, Message(c, "await", "none"))]
  /\ Wait(c, s, "await")
  /\ UNCHANGED <<bootError, live, guest, spec, told, trapped, faults>>

New(c) ==
  /\ pc[c] = "idle"
  /\ sent[c] < MaxCalls[c]
  /\ \E s \in Session : StartSession(c, s, <<>>)

(* fork/2, second half: the parent's journal came back, and may have grown   *)
(* since.                                                                    *)
ForkStart(c) ==
  /\ pc[c] = "forking"
  /\ \E s \in Session, keepPlan \in BOOLEAN :
       StartSession(c, s, IF keepPlan THEN spec[c] ELSE Append(spec[c], DropPlan))

(* call/4, free/1, recover/1 and the first half of fork/2.                   *)
Send(c) ==
  /\ pc[c] = "idle"
  /\ sent[c] < MaxCalls[c]
  /\ \E s \in Session, m \in ({"op"} \X Op) \cup ({"free", "recover", "fork"} \X {"none"}) :
       /\ proc[s] \in {"starting", "up"}
       /\ box' = [box EXCEPT ![s] = Append(@, Message(c, m[1], m[2]))]
       /\ Wait(c, s, m[1])
  /\ UNCHANGED <<proc, bootError, live, guest, journal, spec, told, origin, trapped, faults>>

Refused(kind) == IF kind = "await" THEN "boot_failed" ELSE "not_found"

(* The call exits: the caller stopped waiting, or the process is not there.  *)
Exit(c) ==
  /\ pc[c] \notin {"idle", "forking"}
  /\ pc' = [pc EXCEPT ![c] = "idle"]
  /\ answer' = [answer EXCEPT ![c] = Refused(pc[c])]
  /\ UNCHANGED <<sessionVars, on, sent, spec, told, origin, trapped, faults>>

TimeOut(c) == Exit(c) /\ proc[on[c]] # "gone"

NoProcess(c) == Exit(c) /\ proc[on[c]] = "gone"

-----------------------------------------------------------------------------
(* The Session process.                                                      *)

Take(s, kind) ==
  /\ proc[s] = "up"
  /\ box[s] # <<>>
  /\ Head(box[s]).kind = kind
  /\ box' = [box EXCEPT ![s] = Tail(@)]

Waiting(m) == pc[m.by] \notin {"idle", "forking"} /\ sent[m.by] = m.n

(* {:reply, a, _}: a caller that gave up does not see it.                    *)
Reply(s, a) ==
  LET m == Head(box[s]) IN
  IF Waiting(m)
  THEN /\ pc' = [pc EXCEPT ![m.by] = "idle"]
       /\ answer' = [answer EXCEPT ![m.by] = a]
  ELSE UNCHANGED <<pc, answer>>

(* boot/1: a fresh instance, session_new and the journal.                    *)
Booted(s) ==
  /\ Replays(Log(s))
  /\ live' = [live EXCEPT ![s] = TRUE]
  /\ guest' = [guest EXCEPT ![s] = Log(s)]
  /\ trapped' = [trapped EXCEPT ![s] = FALSE]
  /\ UNCHANGED faults

(* Gone: no instance, or it was discarded.                                   *)
NoInstance(s) ==
  /\ live' = [live EXCEPT ![s] = FALSE]
  /\ guest' = [guest EXCEPT ![s] = <<>>]
  /\ trapped' = [trapped EXCEPT ![s] = FALSE]

NotBooted(s) ==
  /\ NoInstance(s)
  /\ \/ ~Replays(Log(s)) /\ UNCHANGED faults
     \/ Fault

BootError(s) == IF Replays(Log(s)) THEN "boot_failed" ELSE "replay_failed"

(* handle_continue(:boot): before any message is taken.                      *)
Boot(s) ==
  /\ proc[s] = "starting"
  /\ proc' = [proc EXCEPT ![s] = "up"]
  /\ \/ Booted(s) /\ UNCHANGED bootError
     \/ NotBooted(s) /\ bootError' = [bootError EXCEPT ![s] = TRUE]
  /\ UNCHANGED <<journal, box, clientVars, told, origin>>

(* The process stops and its mailbox with it.                                *)
Stopped(s) ==
  /\ proc' = [proc EXCEPT ![s] = "gone"]
  /\ box' = [box EXCEPT ![s] = <<>>]
  /\ journal' = [journal EXCEPT ![s] = <<>>]
  /\ NoInstance(s)

AwaitReady(s) ==
  /\ Take(s, "await")
  /\ ~bootError[s]
  /\ Reply(s, "ok")
  /\ UNCHANGED <<proc, bootError, live, guest, journal, on, sent, spec, told, origin, trapped, faults>>

AwaitBootError(s) ==
  /\ proc[s] = "up"
  /\ box[s] # <<>>
  /\ Head(box[s]).kind = "await"
  /\ bootError[s]
  /\ Reply(s, BootError(s))
  /\ Stopped(s)
  /\ UNCHANGED <<bootError, on, sent, spec, told, origin, faults>>

(* run_op/4 without an instance.  Mutant: the caller is not answered.        *)
MutantOpLostSilent(s) ==
  /\ Take(s, "op")
  /\ ~live[s]
  /\ UNCHANGED <<proc, bootError, live, guest, journal, clientVars, told, origin, trapped, faults>>

OpLost(s) ==
  /\ Take(s, "op")
  /\ ~live[s]
  /\ Reply(s, "instance_lost")
  /\ UNCHANGED <<proc, bootError, live, guest, journal, on, sent, spec, told, origin, trapped, faults>>

(* The guest answered {:ok, _}: a mutating request enters the journal.  The  *)
(* instance may be lost while the response buffer is released, which         *)
(* read_response/5 ignores.                                                  *)
OpOk(s) ==
  LET m == Head(box[s])
      r == Request(s, m)
      w == m.op \in Mutating IN
  /\ Take(s, "op")
  /\ live[s]
  /\ Accepts(guest[s], m.op)
  /\ Reply(s, "ok")
  /\ journal' = [journal EXCEPT ![s] = Journaled(s, m)]
  /\ told' = IF w /\ Waiting(m) THEN told \cup {r} ELSE told
  /\ \/ /\ guest' = [guest EXCEPT ![s] = IF w THEN Append(@, r) ELSE @]
        /\ UNCHANGED <<live, trapped, faults>>
     \/ Fault /\ NoInstance(s)
  /\ UNCHANGED <<proc, bootError, on, sent, spec, origin>>

(* The guest answered with an error envelope.                                *)
OpError(s) ==
  /\ Take(s, "op")
  /\ live[s]
  /\ ~Accepts(guest[s], Head(box[s]).op)
  /\ Reply(s, "engine_error")
  /\ UNCHANGED <<proc, bootError, live, guest, journal, on, sent, spec, told, origin, trapped, faults>>

(* fp_call trapped, or its response does not decode: {:error, _} without an  *)
(* exit.  The guest may have applied the request; the instance is kept.      *)
OpTrapped(s) ==
  LET m == Head(box[s]) IN
  /\ Take(s, "op")
  /\ live[s]
  /\ Fault
  /\ Reply(s, "abi_failure")
  /\ \E applied \in {TRUE, FALSE} :
       /\ applied => m.op \in Mutating /\ Accepts(guest[s], m.op)
       /\ guest' = [guest EXCEPT ![s] = IF applied THEN Append(@, Request(s, m)) ELSE @]
  /\ trapped' = [trapped EXCEPT ![s] = TRUE]
  /\ UNCHANGED <<proc, bootError, live, journal, on, sent, spec, told, origin>>

(* The export call exits: its timeout expired or the instance died.          *)
OpTimedOut(s) ==
  /\ Take(s, "op")
  /\ live[s]
  /\ Fault
  /\ Reply(s, "call_timeout")
  /\ NoInstance(s)
  /\ UNCHANGED <<proc, bootError, journal, on, sent, spec, told, origin>>

(* The process stops whether the guest freed its session, the instance was   *)
(* lost before, or the guest call fails.                                     *)
Free(s) ==
  /\ proc[s] = "up"
  /\ box[s] # <<>>
  /\ Head(box[s]).kind = "free"
  /\ \/ Reply(s, "ok") /\ UNCHANGED faults
     \/ live[s] /\ Fault /\ Reply(s, "call_timeout")
  /\ Stopped(s)
  /\ UNCHANGED <<bootError, on, sent, spec, told, origin>>

Recover(s) ==
  /\ Take(s, "recover")
  /\ \/ Booted(s) /\ Reply(s, "ok")
     \/ NotBooted(s) /\ Reply(s, BootError(s))
  /\ UNCHANGED <<proc, bootError, journal, on, sent, spec, told, origin>>

(* handle_call(:fork_spec): the caller goes on to start the new session.     *)
ForkSpec(s) ==
  LET m == Head(box[s]) IN
  /\ Take(s, "fork")
  /\ IF Waiting(m)
     THEN /\ pc' = [pc EXCEPT ![m.by] = "forking"]
          /\ spec' = [spec EXCEPT ![m.by] = Log(s)]
     ELSE UNCHANGED <<pc, spec>>
  /\ UNCHANGED <<proc, bootError, live, guest, journal, on, sent, answer, told, origin, trapped, faults>>

Handle(s) ==
  \/ AwaitReady(s) \/ AwaitBootError(s)
  \/ OpLost(s) \/ OpOk(s) \/ OpError(s) \/ OpTrapped(s) \/ OpTimedOut(s)
  \/ Free(s) \/ Recover(s) \/ ForkSpec(s)

-----------------------------------------------------------------------------
(* Faults between two messages.  The session traps exits, so the death of    *)
(* its instance leaves it running.                                           *)

InstanceDies(s) ==
  /\ live[s]
  /\ Fault
  /\ NoInstance(s)
  /\ UNCHANGED <<proc, bootError, journal, box, clientVars, told, origin>>

(* The process is killed, or the exit of a store/memory call to an instance  *)
(* that died after refresh_transport/1, or during the boot, crashes it       *)
(* (FerroplanTransport.call rescues exceptions, not exits).  restart:        *)
(* :temporary, nobody restarts it.                                           *)
ProcessDies(s) ==
  /\ proc[s] \in {"starting", "up"}
  /\ Fault
  /\ Stopped(s)
  /\ UNCHANGED <<bootError, clientVars, told, origin>>

Next ==
  \/ \E c \in Client : New(c) \/ ForkStart(c) \/ Send(c) \/ TimeOut(c) \/ NoProcess(c)
  \/ \E s \in Session : Boot(s) \/ Handle(s) \/ InstanceDies(s) \/ ProcessDies(s)

Spec == Init /\ [][Next]_vars

-----------------------------------------------------------------------------
(* Properties.                                                               *)

Requests(seq) == {seq[i] : i \in DOMAIN seq}

RequestType ==
  [by : Client, n : Nat, to : Session, op : Mutating] \cup {DropPlan}

AnswerType == {"none", "ok", "not_found", "boot_failed", "replay_failed", "instance_lost",
               "engine_error", "abi_failure", "call_timeout"}

MessageType ==
  [kind : {"await", "op", "free", "recover", "fork"}, by : Client, n : Nat, op : Op \cup {"none"}]

TypeOK ==
  /\ proc \in [Session -> {"absent", "starting", "up", "gone"}]
  /\ bootError \in [Session -> BOOLEAN]
  /\ live \in [Session -> BOOLEAN]
  /\ guest \in [Session -> Seq(RequestType)]
  /\ journal \in [Session -> Seq(RequestType)]
  /\ box \in [Session -> Seq(MessageType)]
  /\ pc \in [Client -> {"idle", "forking", "await", "op", "free", "recover", "fork"}]
  /\ on \in [Client -> Session]
  /\ sent \in [Client -> Nat]
  /\ spec \in [Client -> Seq(RequestType)]
  /\ answer \in [Client -> AnswerType]
  /\ told \subseteq RequestType
  /\ origin \in [Session -> Seq(RequestType)]
  /\ trapped \in [Session -> BOOLEAN]
  /\ faults \in 0..MaxFaults

(* An operation its caller was told had succeeded is in the guest whenever   *)
(* the session has one: it survives the loss of the instance, recover/1,     *)
(* traps, and whatever other callers do to the session in the meantime.      *)
AckedSurvive ==
  \A r \in told : live[r.to] => r \in Requests(guest[r.to])

(* As long as its instance has not trapped, the guest is what the journal    *)
(* says, in the order in which the operations were applied: so a fork or a   *)
(* recovery that replays the journal ends in the state it left.              *)
GuestIsJournal ==
  \A s \in Session : live[s] /\ ~trapped[s] => guest[s] = Log(s)

(* A request takes effect at most once in an instance, and the requests of   *)
(* one caller in the order it made them, although a caller that gave up      *)
(* waiting leaves its request in the mailbox and a recovery applies the      *)
(* journal again.                                                            *)
EffectsInOrder ==
  \A s \in Session : \A i, j \in DOMAIN guest[s] :
    LET a == guest[s][i]
        b == guest[s][j] IN
    i < j /\ a.by = b.by /\ a.by # "fork" /\ a.to = b.to => a.n < b.n

(* A fork starts from the journal its parent had when it answered the fork,  *)
(* and holds nothing else that was sent to another session: what the parent  *)
(* does later does not reach it.                                             *)
ForkIsolated ==
  \A s \in Session : live[s] =>
    /\ IsPrefix(origin[s], guest[s])
    /\ \A i \in DOMAIN guest[s] : i > Len(origin[s]) => guest[s][i].to = s

(* No caller waits for an answer that cannot come: its message is in the     *)
(* mailbox of a process that will take it, or the process is gone and the    *)
(* call exits.  So no handler forgets its reply and no process that stops    *)
(* leaves a caller waiting.                                                  *)
NoCallerForgotten ==
  \A c \in Client : pc[c] \notin {"idle", "forking"} =>
    \/ proc[on[c]] = "gone"
    \/ /\ proc[on[c]] # "absent"
       /\ \E i \in DOMAIN box[on[c]] :
            /\ box[on[c]][i].by = c
            /\ box[on[c]][i].n = sent[c]
            /\ box[on[c]][i].kind = pc[c]

-----------------------------------------------------------------------------
(* What the documentation says of the code, and the code does not do.        *)

(* session.ex: the journal of every successful state-changing op is replayed *)
(* by recover/1, "which is deterministic": a replay does not fail.           *)
JournalReplays == \A c \in Client : answer[c] # "replay_failed"
=============================================================================
