----------------------------- MODULE OnlineMiner -----------------------------
(***************************************************************************)
(* Ex4pm.Engine.OnlineMiner: the tables the streaming process miner keeps   *)
(* and process_event/2, which folds one event into them                     *)
(* (lib/ex4pm/engine/online_miner.ex).                                      *)
(*                                                                          *)
(* The miner's state is a record, an event one of [agent, run, act,         *)
(* standing] with the defaults of lines 196-201 already applied.  A count   *)
(* map without a key is a function that is 0 there.  Timestamps, durations  *)
(* and the fitness quotient, which is computed from the two counters, are   *)
(* left out; so are ends and total_runs, which init/1 sets to %{} and 0 and  *)
(* no handler ever changes.                                                 *)
(***************************************************************************)
EXTENDS Naturals, Sequences, FiniteSets, SequencesExt

CONSTANTS
  Agent, Run, Activity,
  Stage,       \* [Activity -> step of the flow], normalize_activity/1
  Kind,        \* [Activity -> agent state its name asks for]
  Refusing,    \* activities whose name starts with "refusal" or "REFUSED"
  DefaultFlow  \* @default_canonical_flow

Standing == {"alive", "blocked", "refused", "text_refused"}
AgentStates == {"refused", "complete", "verifying", "constructing", "executing", "alive"}
Event == [agent : Agent, run : Run, act : Activity, standing : Standing]
Edge == Activity \X Activity
NoAgent == [run |-> "none"]

ASSUME OnlineMinerAssumption ==
  /\ DOMAIN Stage = Activity
  /\ Kind \in [Activity -> AgentStates]
  /\ Refusing \subseteq Activity

-----------------------------------------------------------------------------
(* init/1 with the flow it is configured with.                               *)
FreshMiner(flow) ==
  [flow |-> flow, total |-> 0,
   agents |-> [a \in Agent |-> NoAgent],
   traces |-> [r \in Run |-> <<>>],
   edges |-> [e \in Edge |-> 0],
   counts |-> [a \in Activity |-> 0],
   starts |-> [a \in Activity |-> 0],
   variants |-> [p \in {} |-> 0],
   observed |-> 0, deviant |-> 0,
   deviations |-> [e \in Edge |-> 0],
   refusals |-> <<>>]

(* Enum.find_index/2 plus one; 0 stands for nil.                             *)
FlowIndex(flow, stage) == SelectInSeq(flow, LAMBDA s : s = stage)

(* is_transition_lawful?/2: a step the flow does not know is lawful, so is   *)
(* one that does not go back in it, and the retry after a verification.      *)
Lawful(edge, flow) ==
  LET from == Stage[edge[1]]
      to == Stage[edge[2]]
  IN \/ FlowIndex(flow, from) = 0
     \/ FlowIndex(flow, to) = 0
     \/ FlowIndex(flow, to) >= FlowIndex(flow, from)
     \/ from = "verify" /\ to \in {"construct", "admit"}

(* The run's trace with the event, oldest first here.                        *)
Extend(trace, e) == Append(trace, e)

Path(trace) == [i \in DOMAIN trace |-> trace[i].act]

(* The old path of a run loses one, and its key when that was the last.      *)
(* Mutant: the old path is never taken out.                                  *)
MutantTakeOutForgotten(variants, path) == variants

TakeOut(variants, path) ==
  IF path \notin DOMAIN variants THEN variants
  ELSE IF variants[path] = 1
  THEN [p \in DOMAIN variants \ {path} |-> variants[p]]
  ELSE [variants EXCEPT ![path] = @ - 1]

(* The new path gains one.                                                   *)
PutIn(variants, path) ==
  LET count == IF path \in DOMAIN variants THEN variants[path] + 1 ELSE 1
  IN [p \in DOMAIN variants \cup {path} |-> IF p = path THEN count ELSE variants[p]]

UpdateVariants(variants, old, path) ==
  PutIn(IF old = <<>> THEN variants ELSE TakeOut(variants, Path(old)), path)

(* The conformance counters after one more transition.                       *)
Observe(m, edge) ==
  IF Lawful(edge, m.flow) THEN [m EXCEPT !.observed = @ + 1]
  ELSE [m EXCEPT !.observed = @ + 1, !.deviant = @ + 1, !.deviations[edge] = @ + 1]

(* A first event counts as a start, any other one closes an edge.            *)
Transition(m, e) ==
  LET trace == m.traces[e.run] IN
  IF trace = <<>> THEN [m EXCEPT !.starts[e.act] = @ + 1]
  ELSE LET edge == <<Last(trace).act, e.act>>
       IN [Observe(m, edge) EXCEPT !.edges[edge] = @ + 1]

(* determine_agent_state/2.  Only the atoms :refused and :blocked refuse, a  *)
(* standing that came as text does not.                                      *)
AgentState(e) ==
  IF e.standing \in {"refused", "blocked"} THEN "refused" ELSE Kind[e.act]

NormalStanding(s) == IF s = "text_refused" THEN "refused" ELSE s

(* The fleet record of the agent.                                            *)
AgentRecord(e, trace) ==
  [run |-> e.run, state |-> AgentState(e), last |-> e.act,
   count |-> Len(trace), standing |-> NormalStanding(e.standing)]

IsRefusal(e) == e.act \in Refusing \/ e.standing \in {"refused", "blocked"}

ProcessEvent(m, e) ==
  LET old == m.traces[e.run]
      new == Extend(old, e)
  IN [Transition(m, e) EXCEPT
        !.total = @ + 1,
        !.counts[e.act] = @ + 1,
        !.traces[e.run] = new,
        !.agents[e.agent] = AgentRecord(e, new),
        !.refusals = IF IsRefusal(e) THEN <<e>> \o @ ELSE @,
        !.variants = UpdateVariants(@, old, Path(new))]

(* handle_call({:ingest, events}) with a list: the whole batch in one call.  *)
(* (The singleton sets make TLC evaluate each intermediate state once.)      *)
IngestBatch(m, events) ==
  LET after[n \in 0 .. Len(events)] ==
        IF n = 0 THEN m
        ELSE CHOOSE m2 \in {ProcessEvent(m1, events[n]) : m1 \in {after[n-1]}} : TRUE
  IN after[Len(events)]

-----------------------------------------------------------------------------
(* What the tables should hold, read off the whole history of events.        *)

RunsIn(log) == {log[i].run : i \in DOMAIN log}
RunPositions(log, r) == {i \in DOMAIN log : log[i].run = r}
RunEventsUpTo(log, i) == {j \in 1 .. i : log[j].run = log[i].run}

(* Positions of an event and the next one of the same run.                   *)
Steps(log) ==
  {p \in (DOMAIN log) \X (DOMAIN log) :
     /\ p[1] < p[2]
     /\ log[p[1]].run = log[p[2]].run
     /\ \A k \in p[1]+1 .. p[2]-1 : log[k].run # log[p[1]].run}

EdgeOf(log, p) == <<log[p[1]].act, log[p[2]].act>>

(* A run's trace is its events in the order of the history.                  *)
TracesOf(m, log) ==
  /\ \A r \in Run : Len(m.traces[r]) = Cardinality(RunPositions(log, r))
  /\ \A i \in DOMAIN log : m.traces[log[i].run][Cardinality(RunEventsUpTo(log, i))] = log[i]

DfgOf(m, log) ==
  /\ m.total = Len(log)
  /\ \A a \in Activity :
       /\ m.counts[a] = Cardinality({i \in DOMAIN log : log[i].act = a})
       /\ m.starts[a] = Cardinality({i \in DOMAIN log : RunEventsUpTo(log, i) = {i} /\ log[i].act = a})
  /\ \A e \in Edge : m.edges[e] = Cardinality({p \in Steps(log) : EdgeOf(log, p) = e})

VariantsOf(m, log) ==
  LET path(r) == Path(m.traces[r]) IN
  /\ DOMAIN m.variants = {path(r) : r \in RunsIn(log)}
  /\ \A v \in DOMAIN m.variants :
       m.variants[v] = Cardinality({r \in RunsIn(log) : path(r) = v})

ConformanceOf(m, log) ==
  LET bad == {p \in Steps(log) : ~Lawful(EdgeOf(log, p), m.flow)} IN
  /\ m.observed = Cardinality(Steps(log))
  /\ m.deviant = Cardinality(bad)
  /\ \A e \in Edge : m.deviations[e] = Cardinality({p \in bad : EdgeOf(log, p) = e})

FleetOf(m, log) ==
  \A a \in Agent :
    LET mine == {i \in DOMAIN log : log[i].agent = a}
        r == m.agents[a]
    IN IF mine = {} THEN r = NoAgent
       ELSE \E i \in mine :
              /\ \A j \in mine : j <= i
              /\ r.run = log[i].run /\ r.last = log[i].act
              /\ r.count = Cardinality(RunEventsUpTo(log, i))
              /\ r.state = "refused" => IsRefusal(log[i]) \/ Kind[log[i].act] = "refused"

=============================================================================
