---------------------------- MODULE ReleaseCrown ----------------------------
(***************************************************************************)
(* The two independent courts of a release.                                 *)
(*                                                                          *)
(* scripts/qualify-fly-topology.py reads a provider's machine listing and   *)
(* leaves one attestation file per host and a summary.                      *)
(* scripts/verify-final-crown.py reads the crown, a manifest of evidence    *)
(* files with their digests, and recomputes whether the release is ALIVE.   *)
(*                                                                          *)
(* The two share the evidence files: the qualifier rewrites attestations in *)
(* place, and the verifier reads every JSON evidence twice, once to hash it *)
(* and once to parse it.  The crown's author, the provider, git and the     *)
(* producers of the other evidence are the environment.  The digest of a    *)
(* file, and the canonical hash of a value, is its content.                 *)
(***************************************************************************)
EXTENDS Integers, Sequences, FiniteSets, SequencesExt

CONSTANTS
  Host, EvidencePath,  \* attestation files are named by host; other evidence
  Commit, TreeOf,      \* git commits and [Commit -> tree]
  Listing,             \* machine listings: sequences of machines
  Request,             \* what a verification is asked: [crown, expected], a crown but for the attestations
                       \* the author adds, and [source, tree]: --expected-source and --expected-tree, or Unset
  RailOrder,           \* REQUIRED_RAILS, sorted
  RequiredSabotage,
  Foreign,             \* [EvidencePath \cup Host -> contents others may write there]
  FirstFile,           \* [EvidencePath -> content] when the verification starts
  MinAttestations, MinHosts, MinRegions, MinDomains, MinCerts,
  Unset,               \* a field that is absent, empty or of another type
  NoObject,            \* JSON that is not what is expected
  NoFile, Partial,     \* no such file; a file cut short
  MaxQualifications, MaxVerifications, MaxChanges, MaxManifest  \* bounds

Rail == Range(RailOrder)
FilePath == EvidencePath \cup Host
Layers == <<"top", "config", "metadata">>

(* What both courts require of an attestation, beside its source.            *)
Required == {"host_id", "region", "fault_domain", "release_digest", "cert_fingerprint"}

ASSUME ReleaseCrownAssumption ==
  /\ TreeOf \in [Commit -> Range(TreeOf)] /\ Unset \notin Host \cup Commit /\ Commit # {}
  /\ Host \cap EvidencePath = {} /\ FirstFile \in [EvidencePath -> Range(FirstFile)]
  /\ RailOrder \in Seq(Range(RailOrder)) /\ \A r \in Request : "attestations" \in DOMAIN r.crown
  /\ {MaxQualifications, MaxVerifications, MaxChanges, MaxManifest} \subseteq Nat
  /\ {MinAttestations, MinHosts, MinRegions, MinDomains, MinCerts} \subseteq Nat

(* Some rail is required.  A crown is parsed JSON: its counts are numbers,   *)
(* its lists are lists (one of another type is refused like an empty one),   *)
(* and its own hash, where it gives one, is right or wrong.                  *)
ASSUME RequestAssumption ==
  /\ RailOrder # <<>> /\ Unset # "mismatch"
  /\ \A r \in Request :
       LET c == r.crown
       IN  /\ {"powl", "groups", "commands", "receipts", "evidence_hash"} \subseteq DOMAIN c
           /\ c.powl # NoObject => {c.powl.cases, c.powl.samples} \subseteq Int
           /\ c.groups \in Seq(Range(c.groups)) /\ \A g \in Range(c.groups) : g \in Seq(Range(g))
           /\ c.commands \in Seq(Range(c.commands)) /\ c.receipts \in Seq(Range(c.receipts))
           /\ c.evidence_hash \in {Unset, "match", "mismatch"}

VARIABLES
  file,        \* the evidence files
  head,        \* the commit checked out
  qpc, source, observed, left, qerrors,  \* the qualifier: --source-sha, its attestations by their
                                         \* place in the listing, those left to write, any errors
  summary,     \* topology-summary.json
  crown, expected,  \* the verifier's crown, or NoObject, and its --expected-source and --expected-tree
  vpc, index,  \* the verifier: its place and the entry it is at
  loaded,      \* attestations it counted
  verdict, published,  \* what it returned last; the file --output names
  writing,     \* the result it has yet to write there, or NoFile
  moved,       \* history: HEAD or an evidence file changed since it started
  lapsed,      \* history: a qualifier run was killed, or others wrote, since the last one began
  everAttested, \* history: attestations of every qualifier run
  qualifications, verifications, changes   \* counters of the bounds

qualifierVars == <<qpc, source, observed, left, qerrors, summary, everAttested, qualifications>>
outputVars == <<published, writing>>
verifierVars == <<crown, expected, vpc, index, loaded, verdict, published, writing, verifications>>
crownVars == <<file, head, qpc, source, observed, left, qerrors, summary, crown, expected, vpc, index, loaded,
               verdict, published, writing, moved, lapsed, everAttested, qualifications, verifications, changes>>

CrownInit ==
  /\ file = [p \in FilePath |-> IF p \in EvidencePath THEN FirstFile[p] ELSE NoFile]
  /\ head \in {CHOOSE c \in Commit : TRUE}
  /\ qpc = "idle" /\ source = Unset /\ observed = <<>> /\ left = {} /\ qerrors = FALSE
  /\ summary = NoFile /\ everAttested = {}
  /\ crown = NoObject /\ expected = [source |-> Unset, tree |-> Unset] /\ vpc = "idle" /\ index = 1 /\ loaded = {}
  /\ verdict = "none" /\ published = NoFile /\ writing = NoFile
  /\ moved = FALSE /\ lapsed = FALSE
  /\ qualifications = 0 /\ verifications = 0 /\ changes = 0

Write(p, content) ==
  /\ file' = [file EXCEPT ![p] = content]
  /\ moved' = TRUE

-----------------------------------------------------------------------------
(* qualify-fly-topology.py *)

(* field/2: the first layer that has the key decides, whatever it holds.     *)
Field(m, name) ==
  LET having == {i \in DOMAIN Layers : name \in DOMAIN m[Layers[i]]}
  IN  IF having = {} THEN Unset
      ELSE m[Layers[CHOOSE i \in having : \A j \in having : i <= j]][name]

Observation(m) ==
  [provider |-> "fly.io", host_id |-> Field(m, "id"), region |-> Field(m, "region"),
   fault_domain |-> Field(m, "fault_domain"), cert_fingerprint |-> Field(m, "cert_fingerprint"),
   release_digest |-> Field(m, "ex4pm_release_digest"), source_sha |-> Field(m, "ex4pm_source_sha")]

(* Mutant of Attested: one that lacks required metadata is let through.      *)
MutantAttestedIncomplete(o, sha) ==
  o # NoObject /\ o.host_id # Unset /\ o.source_sha = sha

(* An observation that earns an attestation; every other one is an error.    *)
Attested(o, sha) ==
  /\ o # NoObject
  /\ \A k \in Required \cup {"source_sha"} : o[k] # Unset
  /\ o.source_sha = sha

Distinct(atts, key) == Cardinality({a[key] : a \in atts})

(* The thresholds on what was attested.                                      *)
Spread(atts) ==
  /\ Distinct(atts, "host_id") >= MinHosts
  /\ Distinct(atts, "region") >= MinRegions
  /\ Distinct(atts, "fault_domain") >= MinDomains
  /\ Distinct(atts, "cert_fingerprint") >= MinCerts

(* Its entries are machines, whose ids name the files, or nothing of use.    *)
ASSUME ListingAssumption ==
  \A listing \in Listing : \A i \in DOMAIN listing :
    \/ listing[i] = NoObject
    \/ /\ Observation(listing[i]).host_id \in Host \cup {Unset} /\ Unset # "fly.io"
       /\ Observation(listing[i]) \notin {NoFile, Partial, NoObject}

(* main/0: read the listing, attest its machines, count what they show.  The *)
(* workflow passes the commit it has checked out.                            *)
Qualify(listing) ==
  /\ qpc = "idle" /\ qualifications < MaxQualifications
  /\ qualifications' = qualifications + 1
  /\ LET observe(i) == IF listing[i] = NoObject THEN NoObject ELSE Observation(listing[i])
         atts == [i \in {j \in DOMAIN listing : Attested(observe(j), head)} |-> observe(i)]
     IN  /\ observed' = atts /\ left' = DOMAIN atts
         /\ qerrors' = (DOMAIN atts # DOMAIN listing \/ ~Spread(Range(atts)))
         /\ everAttested' = everAttested \cup Range(atts)
  /\ source' = head
  /\ qpc' = "write"
  /\ lapsed' = FALSE
  /\ UNCHANGED <<file, head, summary, verifierVars, moved, changes>>

(* write_text, in the order of the listing: the file is cut, then filled.    *)
UpNext == {i \in left : \A j \in left : i <= j}

Truncate ==
  /\ qpc = "write"
  /\ \E i \in UpNext : Write(observed[i].host_id, Partial)
  /\ qpc' = "fill"
  /\ UNCHANGED <<head, source, observed, left, qerrors, summary, everAttested, qualifications,
                 verifierVars, lapsed, changes>>

Fill ==
  /\ qpc = "fill"
  /\ \E i \in UpNext : Write(observed[i].host_id, observed[i]) /\ left' = left \ {i}
  /\ qpc' = "write"
  /\ UNCHANGED <<head, source, observed, qerrors, summary, everAttested, qualifications,
                 verifierVars, lapsed, changes>>

Summarise ==
  /\ qpc = "write" /\ left = {}
  /\ summary' = [standing |-> IF qerrors THEN "PARTIAL_ALIVE" ELSE "ALIVE", source_sha |-> source,
                 hosts |-> {a.host_id : a \in Range(observed)}]
  /\ qpc' = "idle"
  /\ UNCHANGED <<file, head, source, observed, left, qerrors, everAttested, qualifications,
                 verifierVars, moved, lapsed, changes>>

(* The run is killed; what it wrote stays.                                   *)
KillQualifier ==
  /\ qpc # "idle"
  /\ qpc' = "idle" /\ left' = {}
  /\ lapsed' = TRUE
  /\ UNCHANGED <<file, head, source, observed, qerrors, summary, everAttested, qualifications,
                 verifierVars, moved, changes>>

-----------------------------------------------------------------------------
(* verify-final-crown.py *)

IsObject(content) == content \notin {NoFile, Partial, NoObject}

(* verify_file/3: the manifest entry is one, and the file has its digest.    *)
Matches(entry) ==
  /\ entry # NoObject
  /\ file[entry.path] # NoFile
  /\ file[entry.path] = entry.sha256

Present(sections, key) == sections[key] # NoObject

(* A check that fails ends the run with PARTIAL_ALIVE and leaves the output  *)
(* file of an earlier run where it is.                                       *)
Advance(ok, label) ==
  IF ok THEN vpc' = label /\ UNCHANGED verdict
  ELSE vpc' = "idle" /\ verdict' = "PARTIAL_ALIVE"

(* The checks of the entries of a section, one after the other.              *)
AdvanceAlong(ok, again, entries, onward) ==
  /\ Advance(ok, IF index < Len(entries) THEN again ELSE onward)
  /\ index' = IF index < Len(entries) THEN index + 1 ELSE 1

(* main/0: the author hands over a crown whose attestations are manifests of *)
(* files as they are now.                                                    *)
BeginVerification(request, hosts) ==
  /\ vpc = "idle" /\ writing = NoFile /\ verifications < MaxVerifications
  /\ verifications' = verifications + 1
  /\ crown' = [request.crown EXCEPT !.attestations = [i \in DOMAIN hosts |-> [path |-> hosts[i], sha256 |-> file[hosts[i]]]]]
  /\ expected' = request.expected
  /\ vpc' = "head" /\ index' = 1 /\ loaded' = {} /\ verdict' = "none"
  /\ moved' = FALSE
  /\ UNCHANGED <<file, head, qualifierVars, outputVars, lapsed, changes>>

(* verify_identity/3 asks git twice, for HEAD and for its tree.              *)
VerifyHead ==
  /\ vpc = "head"
  /\ Advance(crown.source = head, "tree")
  /\ UNCHANGED <<index, loaded, outputVars>>

VerifyTree ==
  /\ vpc = "tree"
  /\ Advance(/\ crown.tree = TreeOf[head]
             /\ expected.source \in {Unset, crown.source} /\ expected.tree \in {Unset, crown.tree}, "powl")
  /\ UNCHANGED <<index, loaded, outputVars>>

VerifyPowl ==
  /\ vpc = "powl"
  /\ Advance(/\ Present(crown, "powl") /\ crown.powl.proven
             /\ crown.powl.cases >= 2048 /\ crown.powl.samples >= 64
             /\ DOMAIN crown.rails = Rail, "rail")
  /\ UNCHANGED <<index, loaded, outputVars>>

rail == crown.rails[RailOrder[index]]

(* verify_rails/2, for one rail: its artifact, then the digest of its result.*)
VerifyArtifact ==
  /\ vpc = "rail"
  /\ Advance(rail.standing = "ALIVE" /\ Matches(rail.artifact), "result")
  /\ UNCHANGED <<index, loaded, outputVars>>

HashResult ==
  /\ vpc = "result"
  /\ Advance(Matches(rail.result), "parse result")
  /\ UNCHANGED <<index, loaded, outputVars>>

(* Mutant of ResultHolds: the parsed result is not hashed again.             *)
MutantResultHoldsUnhashed(content) == IsObject(content) /\ content.standing = "ALIVE"

ResultHolds(content) ==
  /\ IsObject(content)
  /\ rail.result_hash = content
  /\ content.standing = "ALIVE"

ParseResult ==
  /\ vpc = "parse result"
  /\ AdvanceAlong(ResultHolds(file[rail.result.path]), "rail", RailOrder, "groups")
  /\ UNCHANGED <<loaded, outputVars>>

(* The capability-indexed differential groups: known rails, one result each. *)
GroupsAgree(c) ==
  /\ c.groups # <<>>
  /\ \A g \in Range(c.groups) :
       g # <<>> /\ Range(g) \subseteq Rail /\ Cardinality({c.rails[r].result_hash : r \in Range(g)}) = 1

VerifyGroups ==
  /\ vpc = "groups"
  /\ Advance(GroupsAgree(crown) /\ crown.commands # <<>>, "command")
  /\ UNCHANGED <<index, loaded, outputVars>>

VerifyCommand ==
  /\ vpc = "command"
  /\ LET c == crown.commands[index]
     IN  AdvanceAlong(c.exit = 0 /\ Matches(c.log) /\ c.command # Unset, "command", crown.commands, "receipts")
  /\ UNCHANGED <<loaded, outputVars>>

(* verify_receipts/2 *)
HashReceipt ==
  /\ vpc = "receipts"
  /\ Advance(crown.receipts # <<>> /\ Matches(crown.receipts[index]), "replay")
  /\ UNCHANGED <<index, loaded, outputVars>>

ReplayMatches(content) ==
  IsObject(content) /\ content.replay = "chain_match" /\ content.retry_authority \in {Unset, "none"}

VerifyReplay ==
  /\ vpc = "replay"
  /\ AdvanceAlong(ReplayMatches(file[crown.receipts[index].path]), "receipts", crown.receipts, "global")
  /\ UNCHANGED <<loaded, outputVars>>

(* verify_global/3: the invariants and the number of attestations,           *)
VerifyInvariants ==
  /\ vpc = "global"
  /\ Advance(crown.invariants /\ Len(crown.attestations) >= MinAttestations, "attestations")
  /\ UNCHANGED <<index, loaded, outputVars>>

(* ... then each attestation,                                                *)
HashAttestation ==
  /\ vpc = "attestations"
  /\ Advance(Matches(crown.attestations[index]), "parse attestation")
  /\ UNCHANGED <<index, loaded, outputVars>>

(* Mutant of AttestationHolds: the source is not looked at.                  *)
MutantAttestationHoldsForAnySource(a, sha) ==
  IsObject(a) /\ \A k \in Required \cup {"provider"} : a[k] # Unset

AttestationHolds(a, sha) ==
  /\ IsObject(a)
  /\ \A k \in Required \cup {"provider"} : a[k] # Unset
  /\ a.source_sha = sha

ParseAttestation ==
  /\ vpc = "parse attestation"
  /\ LET a == file[crown.attestations[index].path]
     IN  /\ AdvanceAlong(AttestationHolds(a, crown.source), "attestations", crown.attestations, "spread")
         /\ loaded' = loaded \cup {a}
  /\ UNCHANGED outputVars

(* ... then what they show together.                                         *)
GlobalSpread(atts) ==
  /\ Distinct(atts, "host_id") >= MinHosts
  /\ Distinct(atts, "region") >= MinRegions
  /\ Distinct(atts, "fault_domain") >= MinDomains
  /\ Distinct(atts, "cert_fingerprint") >= MinCerts

VerifySpread ==
  /\ vpc = "spread"
  /\ Advance(GlobalSpread(loaded), "sabotage")
  /\ UNCHANGED <<index, loaded, outputVars>>

SabotageDetected(c) ==
  /\ Present(c, "sabotage")
  /\ RequiredSabotage \subseteq DOMAIN c.sabotage
  /\ \A s \in DOMAIN c.sabotage : c.sabotage[s] = "DETECTED"

(* The last two checks.  When they hold and main/0 has an --output, the file *)
(* is cut, to be filled: write_text is not atomic.                           *)
VerifySabotageAndSeal ==
  /\ vpc = "sabotage"
  /\ vpc' = "idle"
  /\ IF SabotageDetected(crown) /\ crown.evidence_hash \in {Unset, "match"}
       THEN /\ verdict' = "ALIVE"
            /\ \/ UNCHANGED outputVars
               \/ published' = Partial /\ writing' = [crown |-> crown, attestations |-> loaded]
       ELSE verdict' = "PARTIAL_ALIVE" /\ UNCHANGED outputVars
  /\ UNCHANGED <<index, loaded>>

VerifierStep ==
  /\ \/ VerifyHead \/ VerifyTree \/ VerifyPowl \/ VerifyArtifact \/ HashResult \/ ParseResult
     \/ VerifyGroups \/ VerifyCommand \/ HashReceipt \/ VerifyReplay \/ VerifyInvariants
     \/ HashAttestation \/ ParseAttestation \/ VerifySpread \/ VerifySabotageAndSeal
  /\ UNCHANGED <<file, head, qualifierVars, crown, expected, verifications, moved, lapsed, changes>>

WriteOutput ==
  /\ writing # NoFile
  /\ published' = writing /\ writing' = NoFile
  /\ UNCHANGED <<file, head, qualifierVars, crown, expected, vpc, index, loaded, verdict, verifications,
                 moved, lapsed, changes>>

(* The run is killed, or cannot write its output; the file stays as it is.   *)
KillVerifier ==
  /\ vpc # "idle" \/ writing # NoFile
  /\ vpc' = "idle" /\ index' = 1 /\ loaded' = {} /\ writing' = NoFile
  /\ UNCHANGED <<file, head, qualifierVars, crown, expected, verdict, published, verifications,
                 moved, lapsed, changes>>

-----------------------------------------------------------------------------
(* The environment: other evidence producers, and git. *)

Rewrite(p, content) ==
  /\ changes < MaxChanges
  /\ changes' = changes + 1
  /\ Write(p, content)
  /\ lapsed' = TRUE
  /\ UNCHANGED <<head, qualifierVars, verifierVars>>

CheckOut(commit) ==
  /\ changes < MaxChanges
  /\ changes' = changes + 1
  /\ head' = commit
  /\ moved' = TRUE
  /\ UNCHANGED <<file, qualifierVars, verifierVars, lapsed>>

(* The manifests an author can list, in any order and even twice.            *)
Manifests == UNION {[1..n -> {h \in Host : file[h] # NoFile}] : n \in 1..MaxManifest}

CrownSteps ==
  \/ Truncate \/ Fill \/ Summarise \/ KillQualifier
  \/ \E request \in Request, hosts \in Manifests : BeginVerification(request, hosts)
  \/ VerifierStep \/ WriteOutput \/ KillVerifier
  \/ \E p \in FilePath : \E content \in Foreign[p] : Rewrite(p, content)
  \/ \E c \in Commit : CheckOut(c)

CrownNext == CrownSteps \/ \E l \in Listing : Qualify(l)

CrownSpec == CrownInit /\ [][CrownNext]_crownVars

-----------------------------------------------------------------------------

CrownTypeOK ==
  /\ DOMAIN file = FilePath /\ head \in Commit
  /\ qpc \in {"idle", "write", "fill"} /\ source \in Commit \cup {Unset}
  /\ left \subseteq DOMAIN observed /\ (qpc = "idle" => left = {})
  /\ Range(observed) \subseteq everAttested
  /\ \A h \in Host : file[h] \in {NoFile, Partial} \cup everAttested \cup Foreign[h]
  /\ vpc \in {"idle", "head", "tree", "powl", "rail", "result", "parse result", "groups", "command", "receipts",
              "replay", "global", "attestations", "parse attestation", "spread", "sabotage"}
  /\ index \in Nat \ {0} /\ verdict \in {"none", "ALIVE", "PARTIAL_ALIVE"}
  /\ qerrors \in BOOLEAN /\ moved \in BOOLEAN /\ lapsed \in BOOLEAN
  /\ qualifications \in 0..MaxQualifications /\ verifications \in 0..MaxVerifications /\ changes \in 0..MaxChanges

(* What the crown's digests and declarations amount to, said without any     *)
(* order of checks: an evidence file is named by the content it must have.   *)
Holds(entry) == entry # NoObject /\ entry.sha256 # NoFile /\ file[entry.path] = entry.sha256

RailsHold ==
  /\ DOMAIN crown.rails = Rail
  /\ \A r \in Rail :
       LET c == crown.rails[r]
       IN  /\ c.standing = "ALIVE" /\ Holds(c.artifact) /\ Holds(c.result)
           /\ IsObject(c.result.sha256) /\ c.result.sha256.standing = "ALIVE" /\ c.result_hash = c.result.sha256
  /\ crown.groups # <<>> /\ <<>> \notin Range(crown.groups)
  /\ \A g \in Range(crown.groups) : \A r, s \in Range(g) :
       {r, s} \subseteq Rail /\ crown.rails[r].result.sha256 = crown.rails[s].result.sha256

TopologyHolds ==
  LET attested == {m.sha256 : m \in Range(crown.attestations)}
  IN  /\ crown.invariants /\ Len(crown.attestations) >= MinAttestations
      /\ \A m \in Range(crown.attestations) : Holds(m) /\ IsObject(m.sha256)
      /\ \A a \in attested : a.source_sha = head /\ \A k \in Required \cup {"provider"} : a[k] # Unset
      /\ \E hosts, certs \in SUBSET attested : \* enough pairwise different hosts and certificates
           /\ Cardinality(hosts) = MinHosts /\ \A a, b \in hosts : a # b => a.host_id # b.host_id
           /\ Cardinality(certs) = MinCerts
           /\ \A a, b \in certs : a # b => a.cert_fingerprint # b.cert_fingerprint
      /\ Distinct(attested, "region") >= MinRegions /\ Distinct(attested, "fault_domain") >= MinDomains

CrownHolds ==
  /\ crown.source = head /\ crown.tree = TreeOf[head]
  /\ expected.source # Unset => expected.source = head
  /\ expected.tree # Unset => expected.tree = TreeOf[head]
  /\ crown.powl # NoObject /\ crown.powl.proven /\ crown.powl.cases > 2047 /\ crown.powl.samples > 63
  /\ RailsHold
  /\ crown.commands # <<>> /\ crown.receipts # <<>>
  /\ \A c \in Range(crown.commands) : c.exit = 0 /\ c.command # Unset /\ Holds(c.log)
  /\ \A e \in Range(crown.receipts) : Holds(e) /\ ReplayMatches(e.sha256)
  /\ TopologyHolds
  /\ crown.sabotage # NoObject /\ \A s \in RequiredSabotage : s \in DOMAIN crown.sabotage
  /\ \A s \in DOMAIN crown.sabotage : crown.sabotage[s] = "DETECTED"
  /\ crown.evidence_hash # "mismatch"

(* "emits ALIVE only when every required court is independently evidenced"   *)
(* (verify-final-crown.py:4-6), and then always: on evidence that stays as   *)
(* it is while it is read, the chain of checks with its early exits gives    *)
(* ALIVE exactly when the crown holds as a whole and is the one expected.    *)
(* What a verdict on evidence that moved is worth, PublishedIsEarned says.   *)
VerdictExact == verdict # "none" /\ ~moved => (verdict = "ALIVE" <=> CrownHolds)

(* A result is earned: by its crown and the attestations that were counted.  *)
Earned(result, attested) ==
  result \notin {NoFile, Partial} =>
    LET c == result.crown  atts == result.attestations
    IN  /\ \A r \in Rail : IsObject(c.rails[r].result_hash) /\ c.rails[r].result_hash.standing = "ALIVE"
        /\ GroupsAgree(c)
        /\ GlobalSpread(atts)
        /\ \A a \in atts : /\ a.source_sha = c.source /\ \A k \in Required \cup {"provider"} : a[k] # Unset
                           /\ a \in attested \/ \E h \in Host : a \in Foreign[h]

(* What an ALIVE result in the output file is worth whatever moved while it  *)
(* was earned, and however many later runs were refused: the results of a    *)
(* group of rails are one ALIVE result, and every attestation counted is     *)
(* complete, for the crown's source, spread as required, and one that the    *)
(* qualifier attested or another author wrote, never half a file.            *)
PublishedIsEarned == Earned(published, everAttested)

(* A topology the qualifier calls ALIVE is one the crown will accept: as     *)
(* long as nobody else touches the evidence files, the attestations it left  *)
(* meet every requirement of the crown's court -- but for a listing that     *)
(* names a host twice, whose earlier attestation the later one overwrites.   *)
QualifiedTopologySatisfiesCrown ==
  LET atts == {file[h] : h \in summary.hosts}
      once == \A i, j \in DOMAIN observed : observed[i].host_id = observed[j].host_id => i = j
  IN  qpc = "idle" /\ summary # NoFile /\ ~lapsed /\ once /\ summary.standing = "ALIVE" =>
        /\ \A a \in atts : AttestationHolds(a, summary.source_sha)
        /\ GlobalSpread(atts)

=============================================================================
