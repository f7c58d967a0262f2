--------------------------- MODULE ReactorRuntime ---------------------------
(***************************************************************************)
(* Ex4pm.Runtime: a POWL partial order is admitted, lowered into a Reactor  *)
(* and executed, every task through the receipted DO boundary               *)
(* (lib/ex4pm/powl.ex, runtime.ex, runtime/reactor_step.ex).                *)
(*                                                                          *)
(* The Reactor library is not part of the repository: Start, NoticeFailure, *)
(* Collect, TimeOut and the order of Answer after them are what runtime.ex  *)
(* relies on: a step starts when the results it takes as arguments exist,   *)
(* at most max_concurrency at a time, and is tried again max_retries times. *)
(* Nothing here stops a step that is under way when the run fails or times  *)
(* out.  BRCE.execute (module Brce) is reduced to the points at which a     *)
(* task can end: authority, intent, callback, outcome.                      *)
(***************************************************************************)
EXTENDS Naturals, Sequences, FiniteSets

CONSTANTS
  Task,            \* task ids of the model
  Candidate,       \* edge lists a caller may hand in; repeated edges are dropped
  MaxConcurrency,
  MaxFaults        \* bound: callbacks that raise, receipts that cannot be stored

ASSUME ReactorRuntimeAssumption ==
  /\ IsFiniteSet(Task)
  /\ MaxConcurrency \in Nat \ {0}
  /\ MaxFaults \in Nat
  /\ \A candidate \in Candidate : \A e \in candidate : e = <<e[1], e[2]>>

VARIABLES
  edges,    \* the edges of the model
  allowed,  \* the tasks whose operation the authority admits
  phase,    \* where Runtime.execute/3 is
  st,       \* where each task is
  tries,    \* how often it was started
  effects,  \* history: how often its callback ran
  outcome,  \* standing of its outcome receipt in the store
  answer,   \* what execute/3 returned
  faults

vars == <<edges, allowed, phase, st, tries, effects, outcome, answer, faults>>

Init ==
  /\ edges \in Candidate
  /\ allowed \in SUBSET Task
  /\ phase = "new"
  /\ st = [t \in Task |-> "waiting"]
  /\ tries = [t \in Task |-> 0]
  /\ effects = [t \in Task |-> 0]
  /\ outcome = [t \in Task |-> "none"]
  /\ answer = "none"
  /\ faults = 0

Fault == faults < MaxFaults /\ faults' = faults + 1

-----------------------------------------------------------------------------
(* POWL.new/3 and POWL.layers/1: Kahn's algorithm, a whole layer per round.  *)

(* What is left of the in-degree of t once only the tasks of S are not       *)
(* dropped.  Mutant: the edges of dropped tasks are never taken off.         *)
MutantDegreeNeverDrops(S, t) == Cardinality({e \in edges : e[2] = t})

Degree(S, t) == Cardinality({e \in edges : e[1] \in S /\ e[2] = t})

(* The rounds of consume_acyclic/3 and do_layers/3: each drops the tasks of  *)
(* degree 0.                                                                 *)
Round ==
  LET left[n \in 0 .. Cardinality(Task)] ==
        IF n = 0 THEN Task ELSE {t \in left[n - 1] : Degree(left[n - 1], t) > 0}
  IN left

Layers ==
  LET left == Round
      busy == {n \in 1 .. Cardinality(Task) : left[n - 1] # {}}
  IN [k \in busy |-> left[k - 1] \ left[k]]

(* normalize_edge/4 refuses self references and unknown tasks; acyclic?/2    *)
(* asks whether the rounds consume every task.                               *)
Admitted ==
  /\ \A e \in edges : e[1] # e[2] /\ e[1] \in Task /\ e[2] \in Task
  /\ Round[Cardinality(Task)] = {}

-----------------------------------------------------------------------------
(* Runtime.compile/1.                                                        *)

(* dependency_arguments/2: a result argument for every predecessor.  Mutant: *)
(* the edge is read the other way round.                                     *)
MutantDependencyArgumentsReversed(t) == {p \in Task : <<t, p>> \in edges}

DependencyArguments(t) == {p \in Task : <<p, t>> \in edges}

(* terminal_task_ids/1.  Mutant: the tasks without predecessors.             *)
MutantTerminalTasksInitial == {t \in Task : \A p \in Task : <<p, t>> \notin edges}

TerminalTasks == {t \in Task : \A s \in Task : <<t, s>> \notin edges}

Compile ==
  /\ phase = "new"
  /\ IF Admitted THEN phase' = "running" /\ UNCHANGED answer
     ELSE phase' = "answered" /\ answer' = "refused"
  /\ UNCHANGED <<edges, allowed, st, tries, effects, outcome, faults>>

-----------------------------------------------------------------------------
(* A Reactor step: ReactorStep.run/3, which is BRCE.execute around the task. *)

Busy == {t \in Task : st[t] \in {"running", "intended", "acted"}}

Start(t) ==
  /\ phase = "running"
  /\ st[t] = "waiting"
  /\ \A p \in DependencyArguments(t) : st[p] = "done"
  /\ Cardinality(Busy) < MaxConcurrency
  /\ st' = [st EXCEPT ![t] = "running"]
  /\ tries' = [tries EXCEPT ![t] = @ + 1]
  /\ UNCHANGED <<edges, allowed, phase, effects, outcome, answer, faults>>

RefuseAuthority(t) ==
  /\ st[t] = "running"
  /\ t \notin allowed
  /\ st' = [st EXCEPT ![t] = "failed"]
  /\ UNCHANGED <<edges, allowed, phase, tries, effects, outcome, answer, faults>>

PutIntent(t) ==
  /\ st[t] = "running"
  /\ t \in allowed
  /\ \/ st' = [st EXCEPT ![t] = "intended"] /\ UNCHANGED faults
     \/ Fault /\ st' = [st EXCEPT ![t] = "failed"]
  /\ UNCHANGED <<edges, allowed, phase, tries, effects, outcome, answer>>

(* The callback returns any value, an error tuple included, and is alive.    *)
Act(t) ==
  /\ st[t] = "intended"
  /\ st' = [st EXCEPT ![t] = "acted"]
  /\ effects' = [effects EXCEPT ![t] = @ + 1]
  /\ UNCHANGED <<edges, allowed, phase, tries, outcome, answer, faults>>

(* It raises, after whatever it had done; the outcome is put as blocked,     *)
(* unless the store fails too.                                               *)
Raise(t) ==
  /\ st[t] = "intended"
  /\ st' = [st EXCEPT ![t] = "failed"]
  /\ effects' = [effects EXCEPT ![t] = @ + 1]
  /\ \/ Fault /\ outcome' = [outcome EXCEPT ![t] = "blocked"]
     \/ faults + 2 <= MaxFaults /\ faults' = faults + 2 /\ UNCHANGED outcome
  /\ UNCHANGED <<edges, allowed, phase, tries, answer>>

PutOutcome(t) ==
  /\ st[t] = "acted"
  /\ \/ /\ st' = [st EXCEPT ![t] = "done"]
        /\ outcome' = [outcome EXCEPT ![t] = "alive"]
        /\ UNCHANGED faults
     \/ /\ Fault
        /\ st' = [st EXCEPT ![t] = "failed"]
        /\ UNCHANGED outcome
  /\ UNCHANGED <<edges, allowed, phase, tries, effects, answer>>

-----------------------------------------------------------------------------
(* The Reactor run around the steps.                                         *)

(* max_retries of every step.                                                *)
MaxRetries == 0

NoticeFailure(t) ==
  /\ phase = "running"
  /\ st[t] = "failed"
  /\ IF tries[t] <= MaxRetries
     THEN st' = [st EXCEPT ![t] = "waiting"] /\ UNCHANGED phase
     ELSE phase' = "failing" /\ UNCHANGED st
  /\ UNCHANGED <<edges, allowed, tries, effects, outcome, answer, faults>>

(* The collector step takes the results of the terminal tasks.               *)
Collect ==
  /\ phase = "running"
  /\ \A t \in TerminalTasks : st[t] = "done"
  /\ phase' = "complete"
  /\ UNCHANGED <<edges, allowed, st, tries, effects, outcome, answer, faults>>

(* The timeout of the run, 30 s by default.  Mutant: there is none.          *)
MutantTimesOutNever == FALSE

TimesOut == TRUE

TimeOut ==
  /\ phase = "running"
  /\ TimesOut
  /\ phase' = "halting"
  /\ UNCHANGED <<edges, allowed, st, tries, effects, outcome, answer, faults>>

(* execute/3 on what Reactor.run/4 returned; build_execution/2 wants the     *)
(* result of every task.                                                     *)
Answer ==
  /\ phase \in {"complete", "failing", "halting"}
  /\ phase' = "answered"
  /\ \/ phase = "failing" /\ answer' = "failed"
     \/ phase = "halting" /\ answer' = "halted"
     \/ /\ phase = "complete"
        /\ answer' = IF \A t \in Task : st[t] = "done" THEN "alive" ELSE "missing"
  /\ UNCHANGED <<edges, allowed, st, tries, effects, outcome, faults>>

-----------------------------------------------------------------------------
Step(t) ==
  \/ Start(t) \/ RefuseAuthority(t) \/ PutIntent(t) \/ Act(t) \/ Raise(t)
  \/ PutOutcome(t) \/ NoticeFailure(t)

(* Everything answered, no step under way.                                   *)
Done == phase = "answered" /\ Busy = {} /\ UNCHANGED vars

Next ==
  \/ Compile \/ Collect \/ TimeOut \/ Answer
  \/ \E t \in Task : Step(t)
  \/ Done

Spec == Init /\ [][Next]_vars

(* The caller's own steps and the timer happen; a task may hang for ever.    *)
FairSpec == Spec /\ WF_vars(Compile) /\ WF_vars(Answer) /\ WF_vars(TimeOut)

-----------------------------------------------------------------------------
(* Every variable has its type.                                              *)
TypeOK ==
  /\ edges \in Candidate /\ allowed \subseteq Task
  /\ phase \in {"new", "running", "failing", "halting", "complete", "answered"}
  /\ st \in [Task -> {"waiting", "running", "intended", "acted", "done", "failed"}]
  /\ tries \in [Task -> 0 .. 1]
  /\ effects \in [Task -> Nat]
  /\ outcome \in [Task -> {"none", "alive", "blocked"}]
  /\ answer \in {"none", "refused", "failed", "halted", "alive", "missing"}
  /\ faults \in 0 .. MaxFaults

(* No set of tasks in which each one has a successor: no cycle.              *)
NoCycle ==
  \A S \in SUBSET Task : S # {} => \E t \in S : \A s \in S : <<t, s>> \notin edges

(* Every task is in exactly one layer: the first when nothing precedes it,   *)
(* else right after the last of its predecessors.                            *)
LayersOrder ==
  LET layers == Layers
      at(t) == CHOOSE k \in DOMAIN layers : t \in layers[k]
  IN \A t \in Task :
       /\ Cardinality({k \in DOMAIN layers : t \in layers[k]}) = 1
       /\ \A p \in DependencyArguments(t) : at(p) < at(t)
       /\ at(t) > 1 => \E p \in DependencyArguments(t) : at(p) + 1 = at(t)

(* POWL.new/3 admits exactly the edge lists that order the tasks partially,  *)
(* and POWL.layers/1 puts their tasks into layers in that order.             *)
LayersExact ==
  [][phase = "new" =>
       /\ phase' = "running" <=> edges \subseteq Task \X Task /\ NoCycle
       /\ phase' = "running" => LayersOrder]_vars

(* An execution is alive only when every task's callback ran exactly once    *)
(* and has an alive outcome receipt; waiting for the terminal tasks alone is *)
(* enough for that, so that build_execution/2 never misses a result; and     *)
(* "Reactor cannot silently retry a failed BRCE task" (max_retries: 0): no   *)
(* callback runs twice, also when its outcome could not be stored.           *)
AliveMeansAll ==
  /\ answer # "missing"
  /\ answer = "alive" => \A t \in Task : effects[t] = 1 /\ outcome[t] = "alive"
  /\ \A t \in Task : effects[t] <= 1

(* Runtime.execute/3 answers, even when a task hangs or a failed step leaves *)
(* others without their arguments.                                           *)
EveryExecutionEnds == <>(answer # "none")

(* What the properties rest on: where a task is tells how often it was tried *)
(* and its callback ran, and whether it has an alive outcome ...             *)
TaskInv ==
  \A t \in Task :
    /\ tries[t] = (IF st[t] = "waiting" THEN 0 ELSE 1)
    /\ st[t] \in {"waiting", "running", "intended"} => effects[t] = 0
    /\ st[t] \in {"acted", "done"} => effects[t] = 1
    /\ effects[t] <= 1
    /\ outcome[t] = "alive" <=> st[t] = "done"

(* ... a task that was ever started has all its arguments ...                *)
OrderInv ==
  \A t \in Task : st[t] # "waiting" => \A p \in DependencyArguments(t) : st[p] = "done"

(* ... nothing runs that was not admitted, and what the run concluded from   *)
(* the terminal tasks holds.                                                 *)
VerdictInv ==
  /\ phase = "new" => \A t \in Task : st[t] = "waiting"
  /\ phase # "new" /\ answer # "refused" => NoCycle
  /\ phase # "answered" => answer = "none"
  /\ phase = "complete" => \A t \in TerminalTasks : st[t] = "done"
  /\ answer # "missing"
  /\ answer = "alive" => \A t \in Task : st[t] = "done"

RuntimeInv == TaskInv /\ OrderInv /\ VerdictInv

(* The execution is one of the partial order: no task's callback runs before *)
(* all its predecessors have their outcome, whatever fails or times out.     *)
AbstractRun == INSTANCE PartialOrderRun WITH
  order <- edges,
  begun <- {t \in Task : effects[t] > 0},
  done <- {t \in Task : outcome[t] = "alive"},
  verdict <- answer

RunsPartialOrder == AbstractRun!RunSpec

=============================================================================
