----------------------------- MODULE MCRelease -----------------------------
(* Model-checking instance of the release tooling: the observation relay and  *)
(* the two release courts, which share no state.  A behaviour runs one of     *)
(* them, so that their states add up and do not multiply.                     *)
EXTENDS OcelRelay, ReleaseCrown

CONSTANTS sha1, sha2, early, late, path1, n1, n2, n3

Sha(hex, upper) == [hex |-> hex, upper |-> upper]

(* "n1-n2", written as its parts between dashes.                              *)
Joined(run_id, sequence, receipt) == <<run_id \o sequence, receipt>>

Arguments(activity, run_id, sequence, sha, output) ==
  [activity |-> activity, standing |-> "ALIVE", run_id |-> run_id, sequence |-> sequence, sha |-> sha,
   output |-> output, wellFormed |-> TRUE]

(* Runs "n1" "n2-n3" and "n1-n2" "n3", which come to one name, of one source  *)
(* whose identity one of them writes in upper case; another source; a fixed   *)
(* output; and arguments that are refused.                                    *)
Commands ==
  {Arguments(early, <<n1>>, <<n2, n3>>, Sha(sha1, FALSE), Nil),
   Arguments(late, <<n1, n2>>, <<n3>>, Sha(sha1, TRUE), Nil),
   Arguments(early, <<n1>>, <<n2>>, Sha(sha2, FALSE), path1),
   Arguments(late, <<n1>>, <<n2>>, Sha(sha2, FALSE), Nil),
   [Arguments(early, <<n1>>, <<n2>>, Sha(sha1, FALSE), Nil) EXCEPT !.wellFormed = FALSE]}

Receipts ==
  {[subject_sha |-> Sha(sha1, FALSE), standing |-> "ALIVE", exit |-> 0],
   [subject_sha |-> Sha(sha2, FALSE), standing |-> "ALIVE", exit |-> 0],
   [subject_sha |-> Sha(sha1, FALSE), standing |-> "BLOCKED", exit |-> 0],
   [subject_sha |-> Sha(sha1, FALSE), standing |-> "ALIVE", exit |-> 1]}

-----------------------------------------------------------------------------
CONSTANTS h1, h2, h3, v1, v2, pool, result1, result2, log1, replay1, tarball, logText

(* A machine of the provider: its metadata lie in its config.                 *)
Machine(id, place, cert, commit) ==
  [top |-> [id |-> id, region |-> place, state |-> "started"],
   config |-> [fault_domain |-> place, cert_fingerprint |-> cert, ex4pm_release_digest |-> "d",
               ex4pm_source_sha |-> commit],
   metadata |-> <<>>]

One == Machine(h1, "r1", "c1", v1)
Two == Machine(h2, "r2", "c2", v1)

(* A topology that qualifies; one with a machine of another source, with an   *)
(* empty field that hides the real one, without a certificate of its own,     *)
(* with a useless entry between good ones (whose metadata lie in the third    *)
(* layer), and with one host listed twice, whose last entry undoes the spread.*)
Listings ==
  {<<One, Two>>, <<One, Machine(h2, "r2", "c2", v2)>>,
   <<One, [Two EXCEPT !.top = [id |-> h2, region |-> "r2", fault_domain |-> Unset]]>>,
   <<One, Machine(h2, "r2", "c1", v1)>>, <<[One EXCEPT !.config = <<>>, !.metadata = One.config], NoObject, Two>>,
   <<One, Two, Machine(h1, "r2", "c1", v1)>>}

Entry(path, content) == [path |-> path, sha256 |-> content]
Result(value) == [standing |-> "ALIVE", value |-> value]
Replay(verdictText, authority) == [replay |-> verdictText, retry_authority |-> authority]
Artifact == Entry(pool, tarball)
RailOf(path, content) ==
  [standing |-> "ALIVE", artifact |-> Artifact, result |-> Entry(path, content), result_hash |-> content]

EvidenceFiles == [p \in {pool, result1, result2, log1, replay1} |->
  CASE p = pool -> tarball [] p = result1 -> Result(1) [] p = result2 -> Result(1)
    [] p = log1 -> logText [] p = replay1 -> Replay("chain_match", Unset)]

GoodCrown ==
  [source |-> v1, tree |-> "t1", powl |-> [proven |-> TRUE, cases |-> 2048, samples |-> 64],
   rails |-> [r \in {"beam", "nif"} |-> RailOf(IF r = "beam" THEN result1 ELSE result2, Result(1))],
   groups |-> <<<<"beam", "nif">>>>,
   commands |-> <<[exit |-> 0, log |-> Entry(log1, logText), command |-> "mix verify"]>>,
   receipts |-> <<Entry(replay1, Replay("chain_match", Unset))>>,
   invariants |-> TRUE, attestations |-> <<>>,
   sabotage |-> [result_mutation |-> "DETECTED"], evidence_hash |-> "match"]

(* The crown that holds and, for every check, one that it refuses; two of     *)
(* them hold only for evidence that another producer may yet write.           *)
Crowns ==
  {GoodCrown, [GoodCrown EXCEPT !.evidence_hash = "mismatch"], [GoodCrown EXCEPT !.source = v2],
   [GoodCrown EXCEPT !.tree = "t2"], [GoodCrown EXCEPT !.powl.cases = 2047],
   [GoodCrown EXCEPT !.groups = <<<<"beam", "wasm">>>>],
   [GoodCrown EXCEPT !.groups = <<<<"beam">>, <<"nif">>>>, !.rails["nif"] = RailOf(result2, Result(2)),
                     !.evidence_hash = Unset],
   [GoodCrown EXCEPT !.rails["nif"] = RailOf(result2, Result(2))],
   [GoodCrown EXCEPT !.rails["beam"].result_hash = Result(2), !.rails["nif"].result_hash = Result(2)],
   [GoodCrown EXCEPT !.rails["beam"].artifact = NoObject],
   [GoodCrown EXCEPT !.commands[1].exit = 1],
   [GoodCrown EXCEPT !.receipts[1].sha256 = Replay("chain_match", "caller")],
   [GoodCrown EXCEPT !.invariants = FALSE],
   [GoodCrown EXCEPT !.sabotage = [tree_mutation |-> "DETECTED"]]}

(* What others write: a result that differs, a replay that grants authority,  *)
(* and attestations of another provider: good, incomplete, of another source. *)
OtherAttestation ==
  [provider |-> "bare", host_id |-> h3, region |-> "r1", fault_domain |-> "r1", cert_fingerprint |-> "c3",
   release_digest |-> "d", source_sha |-> v1]

Requests ==
  LET asks(c, s, t) == [crown |-> c, expected |-> [source |-> s, tree |-> t]]
  IN  {asks(c, Unset, Unset) : c \in Crowns}
        \cup {asks(GoodCrown, v1, "t1"), asks(GoodCrown, v2, Unset), asks(GoodCrown, Unset, "t2")}

Others == [p \in DOMAIN EvidenceFiles \cup {h1, h2, h3} |->
  CASE p = result2 -> {Result(2)} [] p = replay1 -> {Replay("chain_match", "caller")}
    [] p = h2 -> {[OtherAttestation EXCEPT !.cert_fingerprint = Unset]}
    [] p = h3 -> {OtherAttestation, [OtherAttestation EXCEPT !.source_sha = v2]}
    [] OTHER -> {}]

Rails == <<"beam", "nif">>
Sabotage == {"result_mutation"}
Trees == [c \in {v1, v2} |-> IF c = v1 THEN "t1" ELSE "t2"]

-----------------------------------------------------------------------------
VARIABLE tool

Init == tool \in {"relay", "crowns", "again"} /\ RelayInit /\ CrownInit

(* Every crown, up to its result, against one topology and one outside       *)
(* change; or the same crown again, with no commit or tree to be expected,     *)
(* while the topology is qualified anew.                                      *)
EachCrownOnce ==
  /\ verdict = "none" \/ writing # NoFile
  /\ CrownSteps \/ (qualifications = 0 /\ \E l \in Listing : Qualify(l))
  /\ verifications' <= 1

OneCrownAgain ==
  /\ CrownNext /\ changes' = 0
  /\ {expected'.source, expected'.tree} = {Unset}
  /\ IF crown' = NoObject THEN TRUE ELSE [crown' EXCEPT !.attestations = <<>>] = GoodCrown

Next ==
  \/ tool = "relay" /\ RelayNext /\ UNCHANGED <<tool, crownVars>>
  \/ tool = "crowns" /\ EachCrownOnce /\ UNCHANGED <<tool, relayVars>>
  \/ tool = "again" /\ OneCrownAgain /\ UNCHANGED <<tool, relayVars>>

Spec == Init /\ [][Next]_<<tool, relayVars, crownVars>>
=============================================================================
