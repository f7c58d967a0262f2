--------------------------- MODULE PartialOrderRun ---------------------------
(***************************************************************************)
(* What it means to run a partial order of tasks: a task begins once and    *)
(* only after everything ordered before it is done, and the run is called   *)
(* alive only when all of it is done.  No scheduler, no receipts, no        *)
(* timeout.  ReactorRuntime implements it (ReactorRuntime!RunsPartialOrder):*)
(* its traces are traces of the order and no others.                        *)
(***************************************************************************)
CONSTANT Task

VARIABLES
  order,   \* pairs <<before, after>>
  begun,   \* tasks that began
  done,    \* tasks that are done
  verdict  \* what the caller was told

runVars == <<order, begun, done, verdict>>

RunInit ==
  /\ begun = {} /\ done = {} /\ verdict = "none"

Before(t) == {p \in Task : <<p, t>> \in order}

Begin(t) ==
  /\ t \notin begun
  /\ Before(t) \subseteq done
  /\ begun' = begun \cup {t}
  /\ UNCHANGED <<order, done, verdict>>

Finish(t) ==
  /\ t \in begun \ done
  /\ done' = done \cup {t}
  /\ UNCHANGED <<order, begun, verdict>>

Tell(what) ==
  /\ verdict = "none"
  /\ what = "alive" => done = Task
  /\ verdict' = what
  /\ UNCHANGED <<order, begun, done>>

RunNext ==
  \/ \E t \in Task : Begin(t) \/ Finish(t)
  \/ \E what \in {"refused", "failed", "halted", "missing", "alive"} : Tell(what)

RunSpec == RunInit /\ [][RunNext]_runVars
=============================================================================
