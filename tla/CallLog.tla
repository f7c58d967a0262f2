------------------------------ MODULE CallLog ------------------------------
(***************************************************************************)
(* Ex4pm.Engine.CallLog: every engine call is wrapped, and the caller's own *)
(* process leaves one envelope of it in an ETS ring buffer and tells the    *)
(* subscribers (lib/ex4pm/engine/call_log.ex).                              *)
(*                                                                          *)
(* The buffer and the Registry belong to an owner process that the first    *)
(* caller starts; it is supervised by nobody, may die at any time and takes *)
(* both with it.  Its name is registered before init/1 has run.  An         *)
(* envelope is its sequence number.                                         *)
(***************************************************************************)
EXTENDS Naturals, FiniteSets

CONSTANTS
  Caller,    \* processes that make engine calls
  Cap,       \* @cap
  MaxCalls,  \* bound: calls that are logged
  MaxDeaths  \* bound: deaths of the owner, killed callers, uses of clear/0

ASSUME CallLogAssumption == Cap \in Nat /\ MaxCalls \in Nat /\ MaxDeaths \in Nat

VARIABLES
  stage,     \* where each caller is in wrap/5
  key,       \* the sequence number of its envelope
  owner,     \* "none", "booting": registered, "tabled": with the table, "up"
  keys,      \* the envelopes in the table
  note,      \* is there a {:note, _} in the table
  trims,     \* :trim messages in the owner's mailbox
  doomed,    \* what a trim found in excess and deletes next
  numbers,   \* System.unique_integer/1
  outcome,   \* history: what each caller's last call left behind
  edge,      \* history: callers that met the owner's boot or death
  stored,    \* history: envelopes put into this table since it was cleared
  unchecked, \* history: a caller was killed between its insert and its check
  logged, deaths   \* counters of the bounds

ownerVars == <<owner, trims, doomed>>
tableVars == <<keys, note, stored>>
bounds == <<logged, deaths>>
logVars == <<stage, key, owner, keys, note, trims, doomed, numbers, outcome, edge,
             stored, unchecked, logged, deaths>>

LogInit ==
  /\ stage = [c \in Caller |-> "idle"] /\ key = [c \in Caller |-> 0]
  /\ owner = "none" /\ trims = 0 /\ doomed = {}
  /\ keys = {} /\ note = FALSE /\ stored = {}
  /\ numbers = 0 /\ logged = 0 /\ deaths = 0
  /\ outcome = [c \in Caller |-> "none"] /\ edge = {} /\ unchecked = FALSE

HasTable == owner \in {"tabled", "up"}

Goto(c, label) == stage' = [stage EXCEPT ![c] = label]

Return(c, trace) == Goto(c, "idle") /\ outcome' = [outcome EXCEPT ![c] = trace]

-----------------------------------------------------------------------------
(* wrap/5 has run the call and observes it.                                  *)
Wrap(c) ==
  /\ stage[c] = "idle" /\ logged < MaxCalls
  /\ logged' = logged + 1
  /\ Goto(c, "ensure")
  /\ outcome' = [outcome EXCEPT ![c] = "none"]
  /\ edge' = edge \ {c}
  /\ UNCHANGED <<key, ownerVars, tableVars, numbers, unchecked, deaths>>

(* Mutant of EnsureStarted: the table is made after init/1 has returned.     *)
MutantEnsureStartedAtOnce(c) ==
  /\ stage[c] = "ensure"
  /\ Goto(c, "build")
  /\ owner' = IF owner = "none" THEN "booting" ELSE owner
  /\ edge' = IF owner \in {"booting", "tabled"} THEN edge \cup {c} ELSE edge
  /\ UNCHANGED <<key, trims, doomed, tableVars, numbers, outcome, unchecked, bounds>>

(* ensure_started/0: whoever finds no name starts the owner and waits for    *)
(* init/1; who finds one goes on, also while that init/1 still runs.         *)
EnsureStarted(c) ==
  /\ stage[c] = "ensure"
  /\ IF owner = "none" THEN owner' = "booting" /\ Goto(c, "starting") /\ UNCHANGED edge
     ELSE /\ Goto(c, "build") /\ UNCHANGED owner
          /\ edge' = IF owner = "up" THEN edge ELSE edge \cup {c}
  /\ UNCHANGED <<key, trims, doomed, tableVars, numbers, outcome, unchecked, bounds>>

(* build_envelope/6 takes the number; a digest function that raises, or any  *)
(* other failure on the way, leads to the note.                              *)
BuildEnvelope(c) ==
  /\ stage[c] = "build"
  /\ \/ /\ numbers' = numbers + 1 /\ key' = [key EXCEPT ![c] = numbers + 1]
        /\ Goto(c, "insert")
     \/ Goto(c, "note") /\ UNCHANGED <<numbers, key>>
  /\ UNCHANGED <<ownerVars, tableVars, outcome, edge, unchecked, bounds>>

(* store/1: the insert raises without a table, *)
Insert(c) ==
  /\ stage[c] = "insert"
  /\ IF HasTable THEN /\ keys' = keys \cup {key[c]} /\ stored' = stored \cup {key[c]}
                      /\ Goto(c, "check")
     ELSE Goto(c, "note") /\ UNCHANGED <<keys, stored>>
  /\ UNCHANGED <<key, ownerVars, note, numbers, outcome, edge, unchecked, bounds>>

(* Mutant of Overfull: the trim is asked for when the bound is first passed. *)
MutantOverfullExactly(size) == size = Cap + 2

Overfull(size) == size > Cap + 1

(* ... and then the size is looked at, a note counted in; the size of no     *)
(* table is :undefined, which compares greater than any number.  A cast to   *)
(* no process is dropped.                                                    *)
Check(c) ==
  /\ stage[c] = "check"
  /\ LET size == Cardinality(keys) + (IF note THEN 1 ELSE 0)
     IN  trims' = IF owner # "none" /\ (~HasTable \/ Overfull(size)) THEN trims + 1 ELSE trims
  /\ unchecked' = FALSE
  /\ Goto(c, "dispatch")
  /\ UNCHANGED <<key, owner, doomed, tableVars, numbers, outcome, edge, bounds>>

(* Registry.dispatch/3 raises without the Registry; maybe_ingest/2 may fail. *)
DispatchAndIngest(c) ==
  /\ stage[c] = "dispatch"
  /\ \/ owner = "up" /\ Return(c, "logged")
     \/ Goto(c, "note") /\ UNCHANGED outcome
  /\ UNCHANGED <<key, ownerVars, tableVars, numbers, edge, unchecked, bounds>>

(* note/1 swallows that there is no table.                                   *)
Note(c) ==
  /\ stage[c] = "note"
  /\ note' = (note \/ HasTable)
  /\ Return(c, IF HasTable THEN "noted" ELSE "silent")
  /\ UNCHANGED <<key, ownerVars, keys, stored, numbers, edge, unchecked, bounds>>

-----------------------------------------------------------------------------
(* The owner: init/1 makes the table, then starts the Registry; only then do *)
(* its starters go on.                                                       *)
CreateTable ==
  /\ owner = "booting"
  /\ owner' = "tabled"
  /\ UNCHANGED <<stage, key, trims, doomed, tableVars, numbers, outcome, edge, unchecked, bounds>>

StartRegistry ==
  /\ owner = "tabled"
  /\ owner' = "up"
  /\ stage' = [c \in Caller |-> IF stage[c] = "starting" THEN "build" ELSE stage[c]]
  /\ UNCHANGED <<key, trims, doomed, tableVars, numbers, outcome, edge, unchecked, bounds>>

(* Mutant of Excess: the table's size is taken, and the note counted as one. *)
MutantExcessCountsNote(found) ==
  {k \in found : Cardinality({j \in found : j > k}) + (IF note THEN 1 ELSE 0) >= Cap}

(* trim/0: the integer keys but for the Cap greatest.                        *)
Excess(found) == {k \in found : Cardinality({j \in found : j > k}) >= Cap}

TrimLooks ==
  /\ owner = "up" /\ trims > 0 /\ doomed = {}
  /\ trims' = trims - 1
  /\ doomed' = Excess(keys)
  /\ UNCHANGED <<stage, key, owner, tableVars, numbers, outcome, edge, unchecked, bounds>>

TrimDeletes ==
  /\ doomed # {}
  /\ \E k \in doomed : doomed' = doomed \ {k} /\ keys' = keys \ {k}
  /\ UNCHANGED <<stage, key, owner, trims, note, stored, numbers, outcome, edge, unchecked, bounds>>

-----------------------------------------------------------------------------
InFlight == {c \in Caller : stage[c] # "idle"}

Fault == deaths < MaxDeaths /\ deaths' = deaths + 1

(* The owner exits, in init/1 or later, or its Registry does: the table goes.*)
OwnerDies ==
  /\ owner # "none" /\ Fault
  /\ owner' = "none" /\ trims' = 0 /\ doomed' = {}
  /\ keys' = {} /\ note' = FALSE /\ stored' = {} /\ unchecked' = FALSE
  /\ stage' = [c \in Caller |-> IF stage[c] = "starting" THEN "note" ELSE stage[c]]
  /\ edge' = edge \cup InFlight
  /\ UNCHANGED <<key, numbers, outcome, logged>>

Clear ==
  /\ HasTable /\ Fault
  /\ keys' = {} /\ note' = FALSE /\ stored' = {}
  /\ UNCHANGED <<stage, key, ownerVars, numbers, outcome, edge, unchecked, logged>>

KillCaller(c) ==
  /\ stage[c] # "idle" /\ Fault
  /\ Goto(c, "idle")
  /\ unchecked' = (unchecked \/ stage[c] = "check")
  /\ UNCHANGED <<key, ownerVars, tableVars, numbers, outcome, edge, logged>>

LogNext ==
  \/ \E c \in Caller : \/ Wrap(c) \/ EnsureStarted(c) \/ BuildEnvelope(c) \/ Insert(c)
                       \/ Check(c) \/ DispatchAndIngest(c) \/ Note(c) \/ KillCaller(c)
  \/ CreateTable \/ StartRegistry \/ TrimLooks \/ TrimDeletes
  \/ OwnerDies \/ Clear
  \/ InFlight = {} /\ logged = MaxCalls /\ UNCHANGED logVars

LogSpec == LogInit /\ [][LogNext]_logVars

-----------------------------------------------------------------------------
LogTypeOK ==
  /\ stage \in [Caller -> {"idle", "ensure", "starting", "build", "insert", "check", "dispatch", "note"}]
  /\ key \in [Caller -> 0..numbers] /\ numbers \in Nat
  /\ owner \in {"none", "booting", "tabled", "up"} /\ trims \in Nat
  /\ keys \subseteq stored /\ stored \subseteq 1..numbers /\ doomed \subseteq 1..numbers
  /\ note \in BOOLEAN /\ edge \subseteq Caller
  /\ outcome \in [Caller -> {"none", "logged", "noted", "silent"}]

(* "ring buffer, last @cap" (call_log.ex:75): whatever order the callers     *)
(* insert in, and while a trim goes on among them, an envelope only leaves   *)
(* the table when Cap later ones have come, or with clear/0 or the owner.    *)
NewestKept ==
  \A k \in stored \ keys : Cardinality({j \in stored : j > k}) >= Cap

(* The buffer does not grow past its bound unnoticed: when it holds more, a  *)
(* trim is on its way, or a caller that will ask for one (store/1), unless   *)
(* that caller was killed -- until the next call.                            *)
OverflowIsNoticed ==
  Cardinality(keys) > Cap + 1 =>
    \/ trims > 0 \/ doomed # {}
    \/ \E c \in Caller : stage[c] = "check"
    \/ unchecked

(* "Observation failures are swallowed into a typed note in last_note/0"     *)
(* (call_log.ex:22-23): a call leaves its envelope or a note, except one     *)
(* that met the owner while another caller was starting it or while it died. *)
(* The caller that starts the owner itself loses nothing.                    *)
SilentOnlyAtTheEdges == \A c \in Caller : outcome[c] = "silent" => c \in edge

=============================================================================
