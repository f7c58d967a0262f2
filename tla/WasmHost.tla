------------------------------ MODULE WasmHost ------------------------------
(***************************************************************************)
(* Ex4pmEngine.Wasm.Host: one supervised process that owns the one wasm     *)
(* instance all engine calls of the node share                              *)
(* (lib/ex4pm_engine/wasm/host.ex, real_transport.ex).                      *)
(*                                                                          *)
(* A transport closure asks the Host for the live instance, invokes an      *)
(* export on it and then its replay, and when one of the two fails asks the *)
(* Host to rebuild that instance and tries once more.  Other callers may be *)
(* inside the instance that is rebuilt.  Instances die on their own, hang,  *)
(* and fail to boot; the Host itself dies and is started again by its       *)
(* supervisor.  Instances are numbered in the order they boot; 0 is none.   *)
(***************************************************************************)
EXTENDS Integers, Sequences, FiniteSets

CONSTANTS
  Client,    \* processes that run a transport closure, one invocation each
  Poison,    \* those whose request makes the export trap
  MaxFaults  \* bound: deaths, hangs and failed boots

ASSUME WasmHostAssumption == Poison \subseteq Client /\ IsFiniteSet(Poison) /\ MaxFaults \in Nat

VARIABLES
  hostUp,    \* the Host process is registered
  inst,      \* state.instance
  refused,   \* state.refusal is set
  restarts,  \* state.restarts
  box,       \* the Host's mailbox
  booted,    \* how many instances have booted so far
  alive,     \* those that are alive
  hung,      \* those that are stuck in a call
  pc,        \* where each invocation is
  using,     \* the instance it invokes
  retries,   \* how often it may still retry
  answer,    \* what it returned
  firstBoot, \* history: instances booted before this Host process
  faults

hostVars == <<hostUp, inst, refused, restarts, box, firstBoot>>
instVars == <<booted, alive, hung>>
clientVars == <<pc, using, retries, answer>>
vars == <<hostUp, inst, refused, restarts, box, booted, alive, hung, pc, using,
          retries, answer, firstBoot, faults>>

Init ==
  /\ hostUp = FALSE /\ inst = 0 /\ refused = FALSE /\ restarts = 0
  /\ box = <<>> /\ firstBoot = 0
  /\ booted = 0 /\ alive = {} /\ hung = {}
  /\ pc = [c \in Client |-> "ask"]
  /\ using = [c \in Client |-> 0]
  /\ retries = [c \in Client |-> 1]
  /\ answer = [c \in Client |-> "none"]
  /\ faults = 0

Fault == faults < MaxFaults /\ faults' = faults + 1

-----------------------------------------------------------------------------
(* The Host.                                                                 *)

(* bump/1 counts a boot that replaced an instance.  Mutant: a refused one too.*)
MutantBumpFailures(up) == restarts + 1

Bump(up) == IF up THEN restarts + 1 ELSE restarts

(* boot/1 once `kept` is what is left of the instances; `bump` when the      *)
(* caller pipes the result into bump/1.                                      *)
Boot(kept, bump) ==
  \/ /\ booted' = booted + 1
     /\ inst' = booted + 1
     /\ alive' = kept \cup {booted + 1}
     /\ refused' = FALSE
     /\ restarts' = IF bump THEN Bump(TRUE) ELSE restarts
     /\ UNCHANGED faults
  \/ /\ Fault
     /\ inst' = 0
     /\ alive' = kept
     /\ refused' = TRUE
     /\ restarts' = IF bump THEN Bump(FALSE) ELSE restarts
     /\ UNCHANGED booted

(* The supervisor starts the process; init/1 and handle_continue(:boot) run  *)
(* before any message.                                                       *)
HostStarts ==
  /\ ~hostUp
  /\ hostUp' = TRUE
  /\ firstBoot' = booted
  /\ \/ /\ booted' = booted + 1
        /\ inst' = booted + 1
        /\ alive' = alive \cup {booted + 1}
        /\ refused' = FALSE
        /\ UNCHANGED faults
     \/ /\ Fault
        /\ inst' = 0
        /\ refused' = TRUE
        /\ UNCHANGED <<booted, alive>>
  /\ restarts' = 0
  /\ UNCHANGED <<box, hung, clientVars>>

Take(kind) ==
  /\ hostUp
  /\ box # <<>>
  /\ Head(box).kind = kind
  /\ box' = Tail(box)
  /\ UNCHANGED <<hostUp, firstBoot>>

(* Mutant of EnsureAlive: the clause for no instance boots whatever was      *)
(* refused before.                                                           *)
MutantEnsureAliveForgetsRefusal ==
  IF inst \notin alive
  THEN Boot(alive, TRUE)
  ELSE UNCHANGED <<inst, refused, restarts, booted, alive, faults>>

(* ensure_alive/1: a dead instance is replaced; once a boot was refused      *)
(* nothing boots any more.                                                   *)
EnsureAlive ==
  IF inst # 0 /\ inst \notin alive
  THEN Boot(alive, TRUE)
  ELSE UNCHANGED <<inst, refused, restarts, booted, alive, faults>>

Waits(c, phase) == pc[c] = phase

(* handle_call(:instance): the instance, or the refusal.                     *)
HandleInstance ==
  LET c == Head(box).from IN
  /\ Take("instance")
  /\ EnsureAlive
  /\ IF ~Waits(c, "asked") THEN UNCHANGED clientVars
     ELSE IF inst' # 0
     THEN /\ pc' = [pc EXCEPT ![c] = "call"]
          /\ using' = [using EXCEPT ![c] = inst']
          /\ UNCHANGED <<retries, answer>>
     ELSE /\ pc' = [pc EXCEPT ![c] = "done"]
          /\ answer' = [answer EXCEPT ![c] = "refused"]
          /\ UNCHANGED <<using, retries>>
  /\ UNCHANGED hung

(* drop_instance/1: what is alive after it.  Mutant: the instance is only    *)
(* unlinked.                                                                 *)
MutantDropUnlinks(i) == alive

Drop(i) == alive \ {i}

(* {:rebuild, pid} concerns the instance it names, if it is still the one.   *)
(* Mutant: whatever instance there is.                                       *)
MutantNamesAny(i) == inst # 0

Names(i) == inst # 0 /\ i = inst

HandleRebuild ==
  LET c == Head(box).from IN
  /\ Take("rebuild")
  /\ IF Names(Head(box).inst) THEN Boot(Drop(inst), TRUE) ELSE EnsureAlive
  /\ IF Waits(c, "rebuilding")
     THEN pc' = [pc EXCEPT ![c] = "ask"] /\ UNCHANGED <<using, retries, answer>>
     ELSE UNCHANGED clientVars
  /\ UNCHANGED hung

(* handle_info({:EXIT, ..}) of a linked instance.                            *)
HandleExit ==
  /\ Take("exit")
  /\ IF inst # 0 /\ Head(box).inst = inst
     THEN Boot(alive, TRUE)
     ELSE UNCHANGED <<inst, refused, restarts, booted, alive, faults>>
  /\ UNCHANGED <<hung, clientVars>>

-----------------------------------------------------------------------------
(* A transport closure: invoke/5 and RealTransport.default_transport/2.      *)

Tell(kind, c) == box' = Append(box, [kind |-> kind, from |-> c, inst |-> using[c]])

Done(c, a) ==
  /\ pc' = [pc EXCEPT ![c] = "done"]
  /\ answer' = [answer EXCEPT ![c] = a]

(* instance/1                                                                *)
Ask(c) ==
  /\ pc[c] = "ask"
  /\ hostUp
  /\ Tell("instance", c)
  /\ pc' = [pc EXCEPT ![c] = "asked"]
  /\ UNCHANGED <<hostUp, inst, refused, restarts, firstBoot, instVars, using, retries, answer, faults>>

(* The call of instance/1 exits: no Host, or no answer within its timeout.   *)
(* Mutant: it has no timeout and no monitor.                                 *)
MutantUnavailableUnmonitored(c) ==
  /\ pc[c] = "ask" /\ ~hostUp
  /\ Done(c, "unavailable")
  /\ UNCHANGED <<hostVars, instVars, using, retries, faults>>

Unavailable(c) ==
  /\ pc[c] = "asked" \/ (pc[c] = "ask" /\ ~hostUp)
  /\ Done(c, "unavailable")
  /\ UNCHANGED <<hostVars, instVars, using, retries, faults>>

(* The export or its replay returns.  A request that cannot be encoded or is *)
(* too large is refused before the instance is touched, a response that is   *)
(* too large or malformed afterwards; neither is retried.                    *)
CallReturns(c) ==
  /\ c \notin Poison
  /\ \/ /\ pc[c] = "call" /\ using[c] \in alive \ hung
        /\ pc' = [pc EXCEPT ![c] = "replay"] /\ UNCHANGED answer
     \/ pc[c] = "replay" /\ using[c] \in alive \ hung /\ Done(c, "ok")
     \/ /\ pc[c] = "call" \/ (pc[c] = "replay" /\ using[c] \in alive \ hung)
        /\ Done(c, "rejected")
  /\ UNCHANGED <<hostVars, instVars, using, retries, faults>>

(* :call_trapped or :abi_failure: the export trapped, which leaves its       *)
(* instance alive, or the instance is not there any more.                    *)
Failed(c) ==
  /\ pc[c] \in {"call", "replay"}
  /\ using[c] \notin alive \/ (c \in Poison /\ using[c] \notin hung)

CanRetry(c) == retries[c] > 0

(* safe_rebuild/2, then invoke/5 with one retry less.                        *)
Retry(c) ==
  /\ Failed(c)
  /\ CanRetry(c)
  /\ hostUp
  /\ Tell("rebuild", c)
  /\ pc' = [pc EXCEPT ![c] = "rebuilding"]
  /\ retries' = [retries EXCEPT ![c] = @ - 1]
  /\ UNCHANGED <<hostUp, inst, refused, restarts, firstBoot, instVars, using, answer, faults>>

(* rebuild/2 exits: no Host, or no answer within its timeout.  Its message   *)
(* stays in the mailbox.                                                     *)
RetryWithoutRebuild(c) ==
  /\ \/ /\ Failed(c) /\ CanRetry(c) /\ ~hostUp
        /\ retries' = [retries EXCEPT ![c] = @ - 1]
     \/ pc[c] = "rebuilding" /\ UNCHANGED retries
  /\ pc' = [pc EXCEPT ![c] = "ask"]
  /\ UNCHANGED <<hostVars, instVars, using, answer, faults>>

GiveUp(c) ==
  /\ Failed(c)
  /\ ~CanRetry(c)
  /\ Done(c, "trapped")
  /\ UNCHANGED <<hostVars, instVars, using, retries, faults>>

(* :call_timeout: not retried.  The instance stays stuck in the call.        *)
CallTimesOut(c) ==
  /\ pc[c] \in {"call", "replay"}
  /\ using[c] \in alive
  /\ IF using[c] \in hung THEN UNCHANGED <<hung, faults>>
     ELSE Fault /\ hung' = hung \cup {using[c]}
  /\ Done(c, "timeout")
  /\ UNCHANGED <<hostVars, booted, alive, using, retries>>

-----------------------------------------------------------------------------
(* Faults.                                                                   *)

InstanceDies ==
  /\ Fault
  /\ \E i \in alive :
       /\ alive' = alive \ {i}
       /\ box' = IF hostUp /\ i = inst
                 THEN Append(box, [kind |-> "exit", from |-> "link", inst |-> i])
                 ELSE box
  /\ UNCHANGED <<hostUp, inst, refused, restarts, firstBoot, booted, hung, clientVars>>

(* The linked instance dies with its Host.                                   *)
HostDies ==
  /\ hostUp
  /\ Fault
  /\ hostUp' = FALSE
  /\ inst' = 0 /\ refused' = FALSE /\ restarts' = 0 /\ box' = <<>>
  /\ alive' = alive \ {inst}
  /\ UNCHANGED <<firstBoot, booted, hung, clientVars>>

Host == HostStarts \/ HandleInstance \/ HandleRebuild \/ HandleExit

Invoke(c) ==
  \/ Ask(c) \/ Unavailable(c) \/ CallReturns(c) \/ Retry(c)
  \/ RetryWithoutRebuild(c) \/ GiveUp(c) \/ CallTimesOut(c)

Next == Host \/ (\E c \in Client : Invoke(c)) \/ InstanceDies \/ HostDies

Spec == Init /\ [][Next]_vars

(* The processes run, and every GenServer.call and export call has a timeout.*)
FairSpec == Spec /\ WF_vars(Host) /\ \A c \in Client : WF_vars(Invoke(c))

-----------------------------------------------------------------------------
(* Properties.                                                               *)

Message == [kind : {"instance", "rebuild", "exit"}, from : Client \cup {"link"}, inst : Nat]

TypeOK ==
  /\ hostUp \in BOOLEAN
  /\ inst \in 0..booted
  /\ refused \in BOOLEAN
  /\ restarts \in Nat
  /\ box \in Seq(Message)
  /\ booted \in Nat
  /\ firstBoot \in 0..booted
  /\ alive \subseteq 1..booted
  /\ hung \subseteq 1..booted
  /\ pc \in [Client -> {"ask", "asked", "call", "replay", "rebuilding", "done"}]
  /\ using \in [Client -> Nat]
  /\ retries \in [Client -> {0, 1}]
  /\ answer \in [Client -> {"none", "ok", "rejected", "refused", "unavailable", "trapped", "timeout"}]
  /\ faults \in 0..MaxFaults

(* The Host leaks no instance: whatever was rebuilt, exited or refused, and  *)
(* however often the Host itself died, the only instance alive is the one it *)
(* holds.                                                                    *)
OnlyOwnedLives == alive \subseteq {inst} \ {0}

(* status/0's :restarts counts the instances this Host has replaced, however *)
(* many boots were refused in between.                                       *)
RestartsCounted ==
  hostUp => restarts = (IF booted > firstBoot THEN booted - firstBoot - 1 ELSE 0)

(* One boot that was refused is the last one of a Host (host.ex:190-191): no *)
(* caller, rebuild or exit makes it boot again, until it is itself replaced. *)
RefusalStays ==
  [][hostUp /\ hostUp' /\ refused
       => refused' /\ inst' = 0 /\ UNCHANGED <<booted, restarts>>]_vars

(* A rebuild has a cause of its own: callers that failed on the same         *)
(* instance have it rebuilt once, and one that asks late does not tear down  *)
(* the replacement, so no more instances are booted than the first one, one  *)
(* per fault and one per request that traps.                                 *)
RebuildsAreCaused == booted <= 1 + faults + Cardinality(Poison)

(* What a caller whose own request does not trap may lose to others.  It is  *)
(* answered "trapped" only after two failures: its retry finds what replaced *)
(* the instance, and nobody tears that one down.  It has no retry after a    *)
(* hang or a refused boot, so one of these is enough for "timeout" or        *)
(* "refused" (real_transport.ex:333, host.ex:109); but requests of others    *)
(* that trap never are.  ("unavailable" takes no fault: a caller whose 60 s  *)
(* ran out while the Host was booting is answered so, too.)                  *)
BystandersFailForCause ==
  \A c \in Client \ Poison :
    /\ answer[c] = "trapped" => faults + Cardinality(Poison) >= 2
    /\ answer[c] \in {"timeout", "refused"} => faults >= 1

(* Every invocation returns.                                                 *)
EveryInvocationEnds == \A c \in Client : <>(pc[c] = "done")
=============================================================================
