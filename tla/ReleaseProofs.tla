--------------------------- MODULE ReleaseProofs ---------------------------
(***************************************************************************)
(* The release tooling keeps its promises: the observation relay for any    *)
(* number of runs, command lines, receipts, kills and crashes of the host,  *)
(* the two courts for any crowns, listings and rewriting of the evidence.   *)
(*                                                                          *)
(* The relay's inductive invariant has three parts: Stages, what a run has  *)
(* done by where it is; Bound, what it read and built; and Durable, what    *)
(* the spool and the disk hold.  The courts' is CrownInv: types, what the   *)
(* checks passed so far have shown (Court), and what results are worth; the *)
(* qualifier has one of its own, Qualified, and the verifier's verdict      *)
(* rests on Exact.                                                          *)
(***************************************************************************)
EXTENDS OcelRelay, ReleaseCrown, FiniteSetTheorems, TLAPS

Early == {"idle", "load", "build", "write"}
Unspooled == Early \cup {"sync", "replace"}

(* What a run has done, by where it is.                                      *)
Stages ==
  \A e \in Emitter :
    /\ pc[e] # "ended" => report[e] = "none"
    /\ pc[e] \in Unspooled => e \notin spooled
    /\ pc[e] \in {"post", "sent"} => e \in spooled
    /\ pc[e] \in Early => temp[e] = Missing
    /\ pc[e] \notin {"sent", "ended"} => e \notin wire /\ reply[e] = "none"
    /\ e \in wire => reply[e] = "none"
    /\ e \in wire \cup collected => e \in spooled
    /\ reply[e] = "accepted" => e \in collected

(* What it read was admitted, and is what it built its observation of.       *)
Bound ==
  /\ receiptFile \in made \cup {Missing, Torn}
  /\ \A e \in Emitter :
       /\ pc[e] \in {"load", "build", "write", "sync", "replace"} \/ e \in spooled => command[e] \in Command
       /\ pc[e] \in {"build", "write", "sync", "replace"} \/ e \in spooled =>
            raw[e] \in made /\ Admitted(command[e], raw[e])
       /\ pc[e] \in {"write", "sync", "replace"} \/ e \in spooled => doc[e] = BuildOcel(command[e], raw[e])
       /\ pc[e] = "sync" => temp[e] = [doc |-> doc[e], synced |-> FALSE]
       /\ pc[e] = "replace" => temp[e] = [doc |-> doc[e], synced |-> TRUE]

(* A whole file of a run that chose this name.                               *)
WholeAt(p, f) == \E e \in spooled : OutputOf(e) = p /\ f = [doc |-> doc[e], synced |-> TRUE]

Durable == \A p \in Path : /\ spool[p] # Missing => WholeAt(p, spool[p])
                           /\ disk[p] # Missing => WholeAt(p, disk[p])

RelayInv == RelayTypeOK /\ Stages /\ ReportsAreTrue /\ Bound /\ Durable

(* Nothing has run, nothing is spooled. *)
LEMMA RelayInitInv == RelayInit => RelayInv
<1> SUFFICES ASSUME RelayInit PROVE RelayInv
  OBVIOUS
<1>1. RelayTypeOK
  BY OcelRelayAssumption DEF RelayInit, RelayTypeOK
<1>2. Stages /\ ReportsAreTrue
  BY DEF RelayInit, Stages, ReportsAreTrue, Early, Unspooled
<1>3. Bound /\ Durable
  BY DEF RelayInit, Bound, Durable
<1> QED
  BY <1>1, <1>2, <1>3 DEF RelayInv

(* The name of a spooled observation is a path of the spool. *)
LEMMA OutputIsPath ==
  ASSUME RelayTypeOK, Bound, NEW e \in Emitter,
         pc[e] \in {"write", "sync", "replace"} \/ e \in spooled
  PROVE  /\ doc[e].receipt = raw[e] /\ raw[e] \in Receipt /\ command[e] \in Command
         /\ OutputOf(e) \in Path /\ doc[e] \in Document
<1>1. command[e] \in Command /\ raw[e] \in Receipt /\ doc[e] = BuildOcel(command[e], raw[e])
  BY DEF RelayTypeOK, Bound
<1>2. doc[e].receipt = raw[e]
  BY <1>1 DEF BuildOcel
<1> QED
  BY <1>1, <1>2 DEF OutputOf, Path, Document

(* Every step keeps the types. *)
LEMMA RelayTypeStep == RelayInv /\ [RelayNext]_relayVars => RelayTypeOK'
<1> SUFFICES ASSUME RelayInv, [RelayNext]_relayVars PROVE RelayTypeOK'
  OBVIOUS
<1> USE OcelRelayAssumption DEF RelayInv, RelayTypeOK, Goto, Exit, receiptVars, spoolVars, netVars, runVars
<1>1. ASSUME NEW e \in Emitter, NEW c \in Command, Start(e, c) PROVE RelayTypeOK'
  BY <1>1 DEF Start
<1>2. ASSUME NEW e \in Emitter, LoadReceipt(e) PROVE RelayTypeOK'
  <2>1. receiptFile \in Receipt \/ UNCHANGED raw
    BY <1>2 DEF LoadReceipt, Admitted
  <2> QED
    BY <1>2, <2>1 DEF LoadReceipt
<1>3. ASSUME NEW e \in Emitter, Build(e) PROVE RelayTypeOK'
  <2>1. command[e] \in Command /\ raw[e] \in Receipt
    BY <1>3 DEF Build, Bound
  <2>2. BuildOcel(command[e], raw[e]) \in Document
    BY <2>1 DEF Document
  <2> QED
    BY <1>3, <2>2 DEF Build, BoundReceipt
<1>4. ASSUME NEW e \in Emitter, WriteTemp(e) PROVE RelayTypeOK'
  <2>1. [doc |-> doc[e], synced |-> FALSE] \in File
    BY <1>4, OutputIsPath DEF WriteTemp, File
  <2> QED
    BY <1>4, <2>1 DEF WriteTemp
<1>5. ASSUME NEW e \in Emitter, Fsync(e) PROVE RelayTypeOK'
  <2>1. doc[e] \in Document /\ temp[e] = [doc |-> doc[e], synced |-> FALSE]
    BY <1>5, OutputIsPath DEF Fsync, Bound
  <2>3. [doc |-> temp[e].doc, synced |-> TRUE] \in File
    BY <2>1 DEF File
  <2> QED
    BY <1>5, <2>3 DEF Fsync
<1>6. ASSUME NEW e \in Emitter, Replace(e) PROVE RelayTypeOK'
  <2>1. doc[e] \in Document /\ temp[e] = [doc |-> doc[e], synced |-> TRUE]
    BY <1>6, OutputIsPath DEF Replace, Bound
  <2>2. temp[e] \in File
    BY <2>1 DEF File
  <2>3. {spool', disk'} \subseteq [Path -> File \cup {Missing, Torn}]
    <3> DEFINE p == OutputOf(e)  f == temp[e]  Kept == [Path -> File \cup {Missing, Torn}]
    <3>1. spool \in Kept /\ disk \in Kept /\ f \in File
      BY <2>2
    <3>2. spool' = [spool EXCEPT ![p] = f] /\ disk' \in {disk, [disk EXCEPT ![p] = f]}
      BY <1>6 DEF Replace
    <3> HIDE DEF p, f
    <3>3. [spool EXCEPT ![p] = f] \in Kept /\ [disk EXCEPT ![p] = f] \in Kept
      BY <3>1
    <3> QED
      BY <3>1, <3>2, <3>3
  <2> QED
    BY <1>6, <2>3 DEF Replace
<1>7. ASSUME NEW e \in Emitter, SpoolOnly(e) \/ Send(e) \/ Hear(e) \/ PostFails(e) PROVE RelayTypeOK'
  BY <1>7 DEF SpoolOnly, Send, Hear, PostFails
<1>8. ASSUME NEW e \in Emitter, Collect(e) PROVE RelayTypeOK'
  BY <1>8 DEF Collect
<1>9. ASSUME NEW e \in Emitter, Kill(e) PROVE RelayTypeOK'
  BY <1>9 DEF Kill
<1>10. CASE TruncateReceipt
  BY <1>10 DEF TruncateReceipt
<1>11. ASSUME NEW r \in Receipt, FillReceipt(r) PROVE RelayTypeOK'
  BY <1>11 DEF FillReceipt
<1>12. CASE HostCrash
  <2>1. disk' \in [Path -> File \cup {Missing, Torn}] /\ spool' = disk'
    BY <1>12 DEF HostCrash
  <2> QED
    BY <1>12, <2>1 DEF HostCrash, Running
<1>13. CASE UNCHANGED relayVars
  BY <1>13 DEF relayVars
<1> QED
  BY <1>1, <1>2, <1>3, <1>4, <1>5, <1>6, <1>7, <1>8, <1>9, <1>10, <1>11, <1>12, <1>13 DEF RelayNext, Step

(* What a run has done, and its report, agree with where it is. *)
LEMMA StagesStep == RelayInv /\ [RelayNext]_relayVars => Stages' /\ ReportsAreTrue'
<1> SUFFICES ASSUME RelayInv, [RelayNext]_relayVars PROVE Stages' /\ ReportsAreTrue'
  OBVIOUS
<1> USE DEF RelayInv, RelayTypeOK, Stages, ReportsAreTrue, Early, Unspooled, Goto, Exit,
            receiptVars, spoolVars, netVars, runVars
<1>1. ASSUME NEW e \in Emitter, NEW c \in Command, Start(e, c) PROVE Stages' /\ ReportsAreTrue'
  BY <1>1 DEF Start
<1>2. ASSUME NEW e \in Emitter, LoadReceipt(e) PROVE Stages' /\ ReportsAreTrue'
  BY <1>2 DEF LoadReceipt
<1>3. ASSUME NEW e \in Emitter, Build(e) PROVE Stages' /\ ReportsAreTrue'
  BY <1>3 DEF Build
<1>4. ASSUME NEW e \in Emitter, WriteTemp(e) PROVE Stages' /\ ReportsAreTrue'
  BY <1>4 DEF WriteTemp
<1>5. ASSUME NEW e \in Emitter, Fsync(e) PROVE Stages' /\ ReportsAreTrue'
  BY <1>5 DEF Fsync
<1>6. ASSUME NEW e \in Emitter, Replace(e) PROVE Stages' /\ ReportsAreTrue'
  BY <1>6 DEF Replace
<1>7. ASSUME NEW e \in Emitter, SpoolOnly(e) PROVE Stages' /\ ReportsAreTrue'
  BY <1>7 DEF SpoolOnly
<1>8. ASSUME NEW e \in Emitter, Send(e) PROVE Stages' /\ ReportsAreTrue'
  BY <1>8 DEF Send
<1>9. ASSUME NEW e \in Emitter, Collect(e) PROVE Stages' /\ ReportsAreTrue'
  BY <1>9 DEF Collect
<1>10. ASSUME NEW e \in Emitter, Hear(e) PROVE Stages' /\ ReportsAreTrue'
  BY <1>10 DEF Hear
<1>11. ASSUME NEW e \in Emitter, PostFails(e) PROVE Stages' /\ ReportsAreTrue'
  BY <1>11 DEF PostFails
<1>12. ASSUME NEW e \in Emitter, Kill(e) PROVE Stages' /\ ReportsAreTrue'
  BY <1>12 DEF Kill, Running
<1>13. CASE TruncateReceipt
  BY <1>13 DEF TruncateReceipt
<1>14. ASSUME NEW r \in Receipt, FillReceipt(r) PROVE Stages' /\ ReportsAreTrue'
  BY <1>14 DEF FillReceipt
<1>15. CASE HostCrash
  BY <1>15 DEF HostCrash, Running
<1>16. CASE UNCHANGED relayVars
  BY <1>16 DEF relayVars
<1> QED
  BY <1>1, <1>2, <1>3, <1>4, <1>5, <1>6, <1>7, <1>8, <1>9, <1>10, <1>11, <1>12, <1>13, <1>14, <1>15, <1>16
     DEF RelayNext, Step

(* A run that is past its receipt keeps what it admitted and built; the      *)
(* receipt file may change.                                                  *)
LEMMA BoundStep == RelayInv /\ [RelayNext]_relayVars => Bound'
<1> SUFFICES ASSUME RelayInv, [RelayNext]_relayVars PROVE Bound'
  OBVIOUS
<1> USE DEF RelayInv, RelayTypeOK, Bound, Goto, Exit, receiptVars, spoolVars, netVars, runVars
<1>1. ASSUME NEW e \in Emitter, NEW c \in Command, Start(e, c) PROVE Bound'
  BY <1>1 DEF Start, Stages, Early, Unspooled
<1>2. ASSUME NEW e \in Emitter, LoadReceipt(e) PROVE Bound'
  <2>1. CASE Admitted(command[e], receiptFile)
    <3>1. receiptFile \in made
      BY <2>1 DEF Admitted
    <3> QED
      BY <1>2, <2>1, <3>1 DEF LoadReceipt, Stages, Early, Unspooled
  <2>2. CASE ~Admitted(command[e], receiptFile)
    BY <1>2, <2>2 DEF LoadReceipt
  <2> QED
    BY <2>1, <2>2
<1>3. ASSUME NEW e \in Emitter, Build(e) PROVE Bound'
  BY <1>3 DEF Build, BoundReceipt, Stages, Early, Unspooled
<1>4. ASSUME NEW e \in Emitter, WriteTemp(e) PROVE Bound'
  BY <1>4 DEF WriteTemp
<1>5. ASSUME NEW e \in Emitter, Fsync(e) PROVE Bound'
  <2>1. temp[e] = [doc |-> doc[e], synced |-> FALSE]
    BY <1>5 DEF Fsync
  <2>2. temp[e].doc = doc[e]
    BY <2>1
  <2> QED
    BY <1>5, <2>2 DEF Fsync
<1>6. ASSUME NEW e \in Emitter, Replace(e) PROVE Bound'
  BY <1>6 DEF Replace
<1>7. ASSUME NEW e \in Emitter, SpoolOnly(e) \/ Send(e) \/ Hear(e) \/ PostFails(e) PROVE Bound'
  <2>1. /\ UNCHANGED <<command, raw, doc, temp, receiptFile, made, spooled>>
        /\ pc' = [pc EXCEPT ![e] = "ended"] \/ pc' = [pc EXCEPT ![e] = "sent"]
    BY <1>7 DEF SpoolOnly, Send, Hear, PostFails
  <2> QED
    BY <2>1
<1>8. ASSUME NEW e \in Emitter, Collect(e) PROVE Bound'
  BY <1>8 DEF Collect
<1>9. ASSUME NEW e \in Emitter, Kill(e) PROVE Bound'
  BY <1>9 DEF Kill
<1>10. CASE TruncateReceipt
  BY <1>10 DEF TruncateReceipt
<1>11. ASSUME NEW r \in Receipt, FillReceipt(r) PROVE Bound'
  BY <1>11 DEF FillReceipt
<1>12. CASE HostCrash
  BY <1>12 DEF HostCrash, Running
<1>13. CASE UNCHANGED relayVars
  BY <1>13 DEF relayVars
<1> QED
  BY <1>1, <1>2, <1>3, <1>4, <1>5, <1>6, <1>7, <1>8, <1>9, <1>10, <1>11, <1>12, <1>13 DEF RelayNext, Step

(* A spooled observation and its name do not change any more. *)
LEMMA SpooledStay ==
  ASSUME RelayInv, [RelayNext]_relayVars, NEW e \in spooled
  PROVE  e \in spooled' /\ e \in Emitter /\ doc'[e] = doc[e] /\ command'[e] = command[e]
<1> USE DEF RelayInv, RelayTypeOK, Goto, Exit, receiptVars, spoolVars, netVars, runVars
<1>1. e \in Emitter /\ pc[e] \notin Unspooled
  BY DEF Stages
<1>2. ASSUME NEW f \in Emitter, NEW c \in Command, Start(f, c)
      PROVE  e \in spooled' /\ doc'[e] = doc[e] /\ command'[e] = command[e]
  BY <1>1, <1>2 DEF Start, Unspooled, Early
<1>3. ASSUME NEW f \in Emitter, Build(f)
      PROVE  e \in spooled' /\ doc'[e] = doc[e] /\ command'[e] = command[e]
  BY <1>1, <1>3 DEF Build, Unspooled, Early
<1>4. ASSUME NEW f \in Emitter, Replace(f)
      PROVE  e \in spooled' /\ doc'[e] = doc[e] /\ command'[e] = command[e]
  BY <1>4 DEF Replace
<1>5. CASE UNCHANGED <<spooled, doc, command>>
  BY <1>5
<1>6. \/ \E f \in Emitter : Build(f) \/ Replace(f) \/ \E c \in Command : Start(f, c)
      \/ UNCHANGED <<spooled, doc, command>>
  BY DEF RelayNext, Step, LoadReceipt, WriteTemp, Fsync, SpoolOnly, Send, Collect, Hear, PostFails,
         TruncateReceipt, FillReceipt, Kill, HostCrash, relayVars
<1> QED
  BY <1>1, <1>2, <1>3, <1>4, <1>5, <1>6

(* What happens to the spool: a rename, or a crash that leaves the disk. *)
LEMMA SpoolMoves ==
  ASSUME [RelayNext]_relayVars
  PROVE  UNCHANGED <<spool, disk>> \/ HostCrash \/ \E e \in Emitter : Replace(e)
BY DEF RelayNext, Step, Start, LoadReceipt, Build, WriteTemp, Fsync, SpoolOnly, Send, Collect, Hear, PostFails,
       TruncateReceipt, FillReceipt, Kill, relayVars, receiptVars, spoolVars, netVars, runVars

(* What stands in the spool, and on the disk, is whole. *)
LEMMA DurableStep == RelayInv /\ [RelayNext]_relayVars => Durable'
<1> SUFFICES ASSUME RelayInv, [RelayNext]_relayVars PROVE Durable'
  OBVIOUS
<1> DEFINE Next(p, f) == \E e \in spooled' : OutputOf(e)' = p /\ f = [doc |-> doc'[e], synced |-> TRUE]
<1>1. ASSUME NEW p, NEW f, WholeAt(p, f) PROVE Next(p, f)
  <2>1. PICK e \in spooled : OutputOf(e) = p /\ f = [doc |-> doc[e], synced |-> TRUE]
    BY <1>1 DEF WholeAt
  <2>2. e \in spooled' /\ doc'[e] = doc[e] /\ command'[e] = command[e]
    BY SpooledStay
  <2> QED
    BY <2>1, <2>2 DEF OutputOf
<1>2. SUFFICES ASSUME NEW p \in Path
               PROVE  (spool'[p] # Missing => Next(p, spool'[p])) /\ (disk'[p] # Missing => Next(p, disk'[p]))
  BY DEF Durable, WholeAt
<1>3. (spool[p] # Missing => Next(p, spool[p])) /\ (disk[p] # Missing => Next(p, disk[p]))
  <2>1. (spool[p] # Missing => WholeAt(p, spool[p])) /\ (disk[p] # Missing => WholeAt(p, disk[p]))
    BY DEF RelayInv, Durable
  <2> HIDE DEF Next
  <2> QED
    BY <1>1, <2>1
<1>4. CASE UNCHANGED <<spool, disk>>
  BY <1>3, <1>4
<1>5. CASE HostCrash
  <2>1. disk[p] # Missing => disk[p].synced
    <3>1. SUFFICES ASSUME disk[p] # Missing PROVE disk[p].synced
      OBVIOUS
    <3>2. PICK e \in spooled : disk[p] = [doc |-> doc[e], synced |-> TRUE]
      BY <3>1 DEF RelayInv, Durable, WholeAt
    <3> QED
      BY <3>2
  <2>2. disk'[p] = disk[p] /\ spool'[p] = disk'[p]
    BY <1>5, <2>1, NoFileAssumption DEF HostCrash
  <2> QED
    BY <1>3, <2>2
<1>6. ASSUME NEW e \in Emitter, Replace(e)
      PROVE  (spool'[p] # Missing => Next(p, spool'[p])) /\ (disk'[p] # Missing => Next(p, disk'[p]))
  <2>1. e \in spooled' /\ temp[e] = [doc |-> doc[e], synced |-> TRUE] /\ UNCHANGED <<doc, command>>
    BY <1>6 DEF Replace, RelayInv, Bound
  <2>2. Next(OutputOf(e), temp[e])
    BY <2>1 DEF OutputOf
  <2>3. /\ spool'[p] = spool[p] \/ (p = OutputOf(e) /\ spool'[p] = temp[e])
        /\ disk'[p] = disk[p] \/ (p = OutputOf(e) /\ disk'[p] = temp[e])
    BY <1>6 DEF Replace, RelayInv, RelayTypeOK
  <2> QED
    BY <1>3, <2>2, <2>3
<1> QED
  BY <1>4, <1>5, <1>6, SpoolMoves

(* The invariant of the relay, for any runs, receipts, kills and crashes. *)
LEMMA RelayInvariant == RelaySpec => []RelayInv
<1>1. RelayInv /\ [RelayNext]_relayVars => RelayInv'
  BY RelayTypeStep, StagesStep, BoundStep, DurableStep DEF RelayInv
<1> QED
  BY <1>1, RelayInitInv, PTL DEF RelaySpec

(* The relay keeps its types: what is spooled are observations of a command  *)
(* line and a receipt (emit-ocel.py:89-176).                                 *)
THEOREM RelayTypesHold == RelaySpec => []RelayTypeOK
<1>1. RelayInv => RelayTypeOK
  BY DEF RelayInv
<1> QED
  BY <1>1, RelayInvariant, PTL

(* Whatever is killed or crashes, a name of the spool holds a whole          *)
(* observation of a run that chose it (atomic_spool/2, emit-ocel.py:163-176).*)
THEOREM RelaySpoolIsWhole == RelaySpec => []SpoolIsWhole
<1>1. RelayInv => SpoolIsWhole
  BY DEF RelayInv, Durable, WholeAt, SpoolIsWhole
<1> QED
  BY <1>1, RelayInvariant, PTL

(* Nothing leaves the host unspooled, and each observation is bound to a     *)
(* whole receipt that admits it, though the receipt file may be rewritten    *)
(* while the run goes on (load_and_admit_receipt, build_ocel,                *)
(* emit-ocel.py:63-154).                                                     *)
THEOREM RelayObservationsAreReceipted == RelaySpec => []ObservationsAreReceipted
<1>1. RelayInv => ObservationsAreReceipted
  <2> SUFFICES ASSUME RelayInv PROVE ObservationsAreReceipted
    OBVIOUS
  <2>1. wire \cup collected \subseteq spooled
    BY DEF RelayInv, RelayTypeOK, Stages
  <2>2. ASSUME NEW e \in spooled
        PROVE  LET d == doc[e]
               IN  /\ d.receipt \in made
                   /\ d.receipt.subject_sha = d.sha /\ d.receipt.standing = d.standing /\ d.receipt.exit = 0
    <3>1. e \in Emitter
      BY DEF RelayInv, RelayTypeOK
    <3>2. raw[e] \in made /\ Admitted(command[e], raw[e]) /\ doc[e] = BuildOcel(command[e], raw[e])
      BY <3>1 DEF RelayInv, Bound
    <3>3. doc[e].receipt = raw[e] /\ doc[e].sha = Lower(command[e].sha) /\ doc[e].standing = command[e].standing
      BY <3>2 DEF BuildOcel
    <3> QED
      BY <3>2, <3>3 DEF Admitted
  <2> QED
    BY <2>1, <2>2 DEF ObservationsAreReceipted
<1> QED
  BY <1>1, RelayInvariant, PTL

(* What a run reports is what happened to its observation                    *)
(* (post_if_configured, main, emit-ocel.py:179-250).                         *)
THEOREM RelayReportsAreTrue == RelaySpec => []ReportsAreTrue
<1>1. RelayInv => ReportsAreTrue
  BY DEF RelayInv
<1> QED
  BY <1>1, RelayInvariant, PTL

-----------------------------------------------------------------------------
(* The two courts.  Court says what the checks that were passed have shown,  *)
(* by where the verifier is.                                                 *)

AfterRails == {"groups", "command", "receipts", "replay", "global", "attestations", "parse attestation",
               "spread", "sabotage"}
AfterGroups == AfterRails \ {"groups"}
AtAttestations == {"attestations", "parse attestation"}

RailEarned(r) == IsObject(crown.rails[r].result_hash) /\ crown.rails[r].result_hash.standing = "ALIVE"

(* An attestation that counts, and whose it is.                              *)
Counted(a, sha) ==
  /\ a.source_sha = sha /\ \A k \in Required \cup {"provider"} : a[k] # Unset
  /\ a \in everAttested \/ \E h \in Host : a \in Foreign[h]

Court ==
  /\ vpc \in {"head", "tree", "powl", "global"} => index = 1
  /\ vpc \in {"rail", "result", "parse result"} =>
       \A i \in DOMAIN RailOrder : i < index => RailEarned(RailOrder[i])
  /\ vpc \in AfterRails => \A r \in Rail : RailEarned(r)
  /\ vpc \in AfterGroups => GroupsAgree(crown)
  /\ vpc # "idle" =>
       /\ crown.attestations \in Seq(Range(crown.attestations)) /\ Len(crown.attestations) >= 1
       /\ \A i \in DOMAIN crown.attestations : crown.attestations[i].path \in Host
       /\ \A a \in loaded : Counted(a, crown.source)
  /\ vpc \in AtAttestations => index <= Len(crown.attestations)
  /\ vpc = "sabotage" => GlobalSpread(loaded)

CrownInv == CrownTypeOK /\ Court /\ Earned(published, everAttested) /\ Earned(writing, everAttested)

LEMMA CrownBounds ==
  /\ MaxQualifications \in Nat /\ MaxVerifications \in Nat /\ MaxChanges \in Nat
  /\ \A n \in Nat : \A m \in 0..n : m < n => m + 1 \in 0..n
BY ReleaseCrownAssumption

(* Nothing was attested or verified. *)
LEMMA CrownInitInv == CrownInit => CrownInv
<1> SUFFICES ASSUME CrownInit PROVE CrownInv
  OBVIOUS
<1>1. CrownTypeOK
  <2>1. head \in Commit /\ source \in Commit \cup {Unset}
    BY ReleaseCrownAssumption DEF CrownInit
  <2>2. DOMAIN file = FilePath /\ \A h \in Host : file[h] = NoFile
    BY ReleaseCrownAssumption DEF CrownInit, FilePath
  <2>3. Range(observed) = {}
    BY DEF CrownInit, Range
  <2>4. qualifications \in 0..MaxQualifications /\ verifications \in 0..MaxVerifications /\ changes \in 0..MaxChanges
    BY CrownBounds DEF CrownInit
  <2> QED
    <3>1. left \subseteq DOMAIN observed /\ index \in Nat \ {0}
      BY DEF CrownInit
    <3> QED
      BY <2>1, <2>2, <2>3, <2>4, <3>1 DEF CrownInit, CrownTypeOK
<1>2. Court /\ Earned(published, everAttested) /\ Earned(writing, everAttested)
  BY DEF CrownInit, Court, Earned, AfterRails, AfterGroups, AtAttestations
<1> QED
  BY <1>1, <1>2 DEF CrownInv

(* A step that at most checks out another commit keeps the types.            *)
LEMMA CrownTypesStay ==
  ASSUME CrownTypeOK,
         head' \in Commit, moved' \in BOOLEAN, changes' \in 0..MaxChanges,
         UNCHANGED <<file, qpc, source, observed, left, qerrors, everAttested>>,
         UNCHANGED <<vpc, index, verdict, lapsed, qualifications, verifications>>
  PROVE  CrownTypeOK'
<1>1. /\ DOMAIN file' = FilePath /\ head' \in Commit
      /\ qpc' \in {"idle", "write", "fill"} /\ source' \in Commit \cup {Unset}
      /\ left' \subseteq DOMAIN observed' /\ (qpc' = "idle" => left' = {})
      /\ Range(observed') \subseteq everAttested'
  BY DEF CrownTypeOK
<1>2. \A h \in Host : file'[h] \in {NoFile, Partial} \cup everAttested' \cup Foreign[h]
  BY DEF CrownTypeOK
<1>3. /\ vpc' \in {"idle", "head", "tree", "powl", "rail", "result", "parse result", "groups", "command", "receipts",
                  "replay", "global", "attestations", "parse attestation", "spread", "sabotage"}
      /\ verdict' \in {"none", "ALIVE", "PARTIAL_ALIVE"}
      /\ qerrors' \in BOOLEAN /\ moved' \in BOOLEAN /\ lapsed' \in BOOLEAN
  BY DEF CrownTypeOK
<1>4. /\ index' \in Nat \ {0} /\ qualifications' \in 0..MaxQualifications
      /\ verifications' \in 0..MaxVerifications /\ changes' \in 0..MaxChanges
  BY DEF CrownTypeOK
<1> QED
  BY <1>1, <1>2, <1>3, <1>4 DEF CrownTypeOK

(* A file written by the qualifier or by another author is one of theirs. *)
LEMMA WriteStep ==
  ASSUME CrownTypeOK, NEW p, NEW content, Write(p, content), everAttested' = everAttested,
         p \in Host => content \in {NoFile, Partial} \cup everAttested \cup Foreign[p]
  PROVE  /\ DOMAIN file' = FilePath
         /\ \A h \in Host : file'[h] \in {NoFile, Partial} \cup everAttested' \cup Foreign[h]
<1>1. file' = [file EXCEPT ![p] = content] /\ DOMAIN file = FilePath
  BY DEF Write, CrownTypeOK
<1>2. \A h \in Host : h \in DOMAIN file
  BY <1>1 DEF FilePath
<1>3. \A h \in Host : file'[h] = IF h = p THEN content ELSE file[h]
  BY <1>1, <1>2
<1> QED
  BY <1>1, <1>3 DEF CrownTypeOK

(* The qualifier and the other authors only write what CrownTypeOK allows,   *)
(* and touch nothing of the verifier's.                                      *)
LEMMA AuthorsStep ==
  ASSUME CrownInv,
         \/ Truncate \/ Fill \/ Summarise \/ KillQualifier \/ \E l \in Listing : Qualify(l)
         \/ \E p \in FilePath : \E content \in Foreign[p] : Rewrite(p, content)
         \/ \E c \in Commit : CheckOut(c)
  PROVE  /\ CrownTypeOK' /\ everAttested \subseteq everAttested'
         /\ UNCHANGED <<crown, vpc, index, loaded, published, writing>>
<1> DEFINE Goal == /\ CrownTypeOK' /\ everAttested \subseteq everAttested'
                   /\ UNCHANGED <<crown, vpc, index, loaded, published, writing>>
<1> USE DEF CrownInv, verifierVars, qualifierVars
<1>1. CASE Truncate
  <2>1. PICK i \in UpNext : Write(observed[i].host_id, Partial)
    BY <1>1 DEF Truncate
  <2>2. /\ DOMAIN file' = FilePath
        /\ \A h \in Host : file'[h] \in {NoFile, Partial} \cup everAttested' \cup Foreign[h]
    BY <1>1, <2>1, WriteStep DEF Truncate
  <2>3. moved' = TRUE /\ qpc' = "fill" /\ everAttested' = everAttested
    BY <1>1, <2>1 DEF Truncate, Write
  <2> QED
    BY <1>1, <2>2, <2>3 DEF Truncate, CrownTypeOK
<1>2. CASE Fill
  <2>1. PICK i \in UpNext : Write(observed[i].host_id, observed[i]) /\ left' = left \ {i}
    BY <1>2 DEF Fill
  <2>2. observed[i] \in everAttested /\ everAttested' = everAttested
    BY <1>2, <2>1 DEF Fill, UpNext, CrownTypeOK, Range
  <2>3. /\ DOMAIN file' = FilePath
        /\ \A h \in Host : file'[h] \in {NoFile, Partial} \cup everAttested' \cup Foreign[h]
    BY <2>1, <2>2, WriteStep
  <2>4. moved' = TRUE /\ qpc' = "write" /\ left' \subseteq DOMAIN observed
    BY <1>2, <2>1 DEF Fill, Write, CrownTypeOK
  <2> QED
    BY <1>2, <2>2, <2>3, <2>4 DEF Fill, CrownTypeOK
<1>3. CASE Summarise
  BY <1>3 DEF Summarise, CrownTypeOK
<1>4. CASE KillQualifier
  <2>1. left' = {} /\ qpc' = "idle"
    BY <1>4 DEF KillQualifier
  <2>2. UNCHANGED <<file, head, source, observed, everAttested, qualifications, qerrors>>
    BY <1>4 DEF KillQualifier
  <2>3. UNCHANGED <<crown, vpc, index, loaded, verdict, published, writing, verifications, moved, changes>>
    BY <1>4 DEF KillQualifier
  <2>4. left' \subseteq DOMAIN observed'
    BY <2>1
  <2>5. lapsed' = TRUE
    BY <1>4 DEF KillQualifier
  <2> QED
    BY <2>1, <2>2, <2>3, <2>4, <2>5 DEF CrownTypeOK
<1>5. ASSUME NEW l \in Listing, Qualify(l)
      PROVE  Goal
  <2>1. everAttested' = everAttested \cup Range(observed')
    BY <1>5 DEF Qualify
  <2>2. /\ UNCHANGED <<file, head, crown, vpc, index, loaded, published, writing, verdict, moved, verifications, changes>>
        /\ left' = DOMAIN observed' /\ qpc' = "write" /\ source' = head /\ lapsed' = FALSE
        /\ qualifications < MaxQualifications /\ qualifications' = qualifications + 1 /\ qerrors' \in BOOLEAN
    BY <1>5 DEF Qualify
  <2>3. qualifications' \in 0..MaxQualifications
    BY <2>2, CrownBounds DEF CrownTypeOK
  <2>4. left' \subseteq DOMAIN observed' /\ source' \in Commit \cup {Unset}
    BY <2>2 DEF CrownTypeOK
  <2>5. \A h \in Host : file'[h] \in {NoFile, Partial} \cup everAttested' \cup Foreign[h]
    BY <2>1, <2>2 DEF CrownTypeOK
  <2> QED
    BY <2>1, <2>2, <2>3, <2>4, <2>5 DEF CrownTypeOK
<1>6. ASSUME NEW p \in FilePath, NEW content \in Foreign[p], Rewrite(p, content)
      PROVE  Goal
  <2>1. Write(p, content) /\ everAttested' = everAttested
    BY <1>6 DEF Rewrite
  <2>2. /\ DOMAIN file' = FilePath
        /\ \A h \in Host : file'[h] \in {NoFile, Partial} \cup everAttested' \cup Foreign[h]
    BY <2>1, WriteStep
  <2>3. moved' = TRUE /\ lapsed' = TRUE /\ changes' \in 0..MaxChanges
    BY <1>6, <2>1, CrownBounds DEF Rewrite, Write, CrownTypeOK
  <2>4. /\ UNCHANGED <<head, qpc, source, observed, left, qerrors, qualifications>>
        /\ UNCHANGED <<crown, vpc, index, loaded, verdict, published, writing, verifications>>
    BY <1>6 DEF Rewrite
  <2> QED
    BY <2>1, <2>2, <2>3, <2>4 DEF CrownTypeOK
<1>7. ASSUME NEW c \in Commit, CheckOut(c)
      PROVE  Goal
  <2>1. head' = c /\ moved' = TRUE /\ changes' \in 0..MaxChanges
    BY <1>7, CrownBounds DEF CheckOut, CrownTypeOK
  <2>2. /\ UNCHANGED <<file, qpc, source, observed, left, qerrors, qualifications, everAttested, lapsed>>
        /\ UNCHANGED <<crown, vpc, index, loaded, verdict, published, writing, verifications>>
    BY <1>7 DEF CheckOut
  <2>3. CrownTypeOK' BY <2>1, <2>2, CrownTypesStay
  <2> QED
    BY <2>1, <2>2, <2>3
<1> QED
  BY <1>1, <1>2, <1>3, <1>4, <1>5, <1>6, <1>7

(* A verifier step moves the verifier only. *)
LEMMA VerifierMoves ==
  ASSUME CrownTypeOK, VerifierStep
  PROVE  /\ UNCHANGED <<file, head, crown, everAttested>>
         /\ UNCHANGED <<qpc, source, observed, left, qerrors, moved, lapsed, qualifications, verifications, changes>>
BY DEF VerifierStep, qualifierVars

(* A check moves on to its next place or ends the run, *)
Moves(labels) == (vpc' \in labels /\ verdict' = verdict) \/ (vpc' = "idle" /\ verdict' = "PARTIAL_ALIVE")

(* one that goes along a section moves its index. *)
Indexed == index' = index \/ index' = index + 1 \/ index' = 1

LEMMA VerifierFlow ==
  /\ VerifyHead => Moves({"tree"}) /\ Indexed
  /\ VerifyTree => Moves({"powl"}) /\ Indexed
  /\ VerifyPowl => Moves({"rail"}) /\ Indexed
  /\ VerifyArtifact => Moves({"result"}) /\ Indexed
  /\ HashResult => Moves({"parse result"}) /\ Indexed
  /\ ParseResult => Moves({"rail", "groups"}) /\ Indexed
  /\ VerifyGroups => Moves({"command"}) /\ Indexed
  /\ VerifyCommand => Moves({"command", "receipts"}) /\ Indexed
  /\ HashReceipt => Moves({"replay"}) /\ Indexed
  /\ VerifyReplay => Moves({"receipts", "global"}) /\ Indexed
  /\ VerifyInvariants => Moves({"attestations"}) /\ Indexed
  /\ HashAttestation => Moves({"parse attestation"}) /\ Indexed
  /\ ParseAttestation => Moves({"attestations", "spread"}) /\ Indexed
  /\ VerifySpread => Moves({"sabotage"}) /\ Indexed
<1>1. VerifyHead => Moves({"tree"}) /\ Indexed
  BY Zenon DEF VerifyHead, Moves, Indexed, Advance
<1>2. VerifyTree => Moves({"powl"}) /\ Indexed
  BY Zenon DEF VerifyTree, Moves, Indexed, Advance
<1>3. VerifyPowl => Moves({"rail"}) /\ Indexed
  BY DEF VerifyPowl, Moves, Indexed, Advance
<1>4. VerifyArtifact => Moves({"result"}) /\ Indexed
  BY Zenon DEF VerifyArtifact, Moves, Indexed, Advance
<1>5. HashResult => Moves({"parse result"}) /\ Indexed
  BY Zenon DEF HashResult, Moves, Indexed, Advance
<1>6. ParseResult => Moves({"rail", "groups"}) /\ Indexed
  BY Zenon DEF ParseResult, Moves, Indexed, Advance, AdvanceAlong
<1>7. VerifyGroups => Moves({"command"}) /\ Indexed
  BY Zenon DEF VerifyGroups, Moves, Indexed, Advance
<1>8. VerifyCommand => Moves({"command", "receipts"}) /\ Indexed
  BY Zenon DEF VerifyCommand, Moves, Indexed, Advance, AdvanceAlong
<1>9. HashReceipt => Moves({"replay"}) /\ Indexed
  BY Zenon DEF HashReceipt, Moves, Indexed, Advance
<1>10. VerifyReplay => Moves({"receipts", "global"}) /\ Indexed
  BY Zenon DEF VerifyReplay, Moves, Indexed, Advance, AdvanceAlong
<1>11. VerifyInvariants => Moves({"attestations"}) /\ Indexed
  BY Zenon DEF VerifyInvariants, Moves, Indexed, Advance
<1>12. HashAttestation => Moves({"parse attestation"}) /\ Indexed
  BY Zenon DEF HashAttestation, Moves, Indexed, Advance
<1>13. ParseAttestation => Moves({"attestations", "spread"}) /\ Indexed
  BY Zenon DEF ParseAttestation, Moves, Indexed, Advance, AdvanceAlong
<1>14. VerifySpread => Moves({"sabotage"}) /\ Indexed
  BY Zenon DEF VerifySpread, Moves, Indexed, Advance
<1> QED
  BY <1>1, <1>2, <1>3, <1>4, <1>5, <1>6, <1>7, <1>8, <1>9, <1>10, <1>11, <1>12, <1>13, <1>14

(* Every verifier step keeps the types. *)
LEMMA VerifierTypeStep ==
  ASSUME CrownTypeOK, VerifierStep
  PROVE  CrownTypeOK'
<1> DEFINE Labels == {"idle", "head", "tree", "powl", "rail", "result", "parse result", "groups", "command", "receipts",
                      "replay", "global", "attestations", "parse attestation", "spread", "sabotage"}
<1>1. index \in Nat \ {0} /\ verdict \in {"none", "ALIVE", "PARTIAL_ALIVE"}
  BY DEF CrownTypeOK
<1>2. (\E labels \in SUBSET Labels : Moves(labels) /\ Indexed) \/ VerifySabotageAndSeal
  <2>1. ASSUME NEW labels \in SUBSET Labels, Moves(labels) /\ Indexed
        PROVE  \E l \in SUBSET Labels : Moves(l) /\ Indexed
    BY <2>1
  <2> QED
    BY <2>1, VerifierFlow DEF VerifierStep
<1>3. index' \in Nat \ {0}
  <2>1. index' = index \/ index' = index + 1 \/ index' = 1
    BY <1>2 DEF Indexed, VerifySabotageAndSeal
  <2> QED
    BY <1>1, <2>1
<1>4. vpc' \in Labels /\ verdict' \in {"none", "ALIVE", "PARTIAL_ALIVE"}
  BY <1>1, <1>2 DEF Moves, VerifySabotageAndSeal
<1>5. /\ UNCHANGED <<file, head, crown, everAttested>>
      /\ UNCHANGED <<qpc, source, observed, left, qerrors, moved, lapsed, qualifications, verifications, changes>>
  BY VerifierMoves
<1> QED
  BY <1>3, <1>4, <1>5 DEF CrownTypeOK

(* The manifest an author hands over names files of hosts. *)
LEMMA ManifestHolds ==
  ASSUME CrownTypeOK, NEW request \in Request, NEW hosts \in Manifests, BeginVerification(request, hosts)
  PROVE  /\ crown'.attestations \in Seq(Range(crown'.attestations)) /\ Len(crown'.attestations) >= 1
         /\ \A i \in DOMAIN crown'.attestations : crown'.attestations[i].path \in Host
<1>1. PICK n \in 1..MaxManifest : hosts \in [1..n -> {h \in Host : file[h] # NoFile}]
  BY DEF Manifests
<1>2. n \in Nat /\ n >= 1
  BY <1>1, ReleaseCrownAssumption
<1> DEFINE entries == [i \in DOMAIN hosts |-> [path |-> hosts[i], sha256 |-> file[hosts[i]]]]
<1>3. entries = [i \in 1..n |-> [path |-> hosts[i], sha256 |-> file[hosts[i]]]]
  BY <1>1
<1>4. crown'.attestations = entries
  BY ReleaseCrownAssumption DEF BeginVerification
<1>5. DOMAIN entries = 1..n /\ \A i \in 1..n : entries[i].path \in Host
  BY <1>1, <1>3
<1>6. \A i \in 1..n : entries[i] \in Range(entries)
  BY <1>5 DEF Range
<1>7. entries \in Seq(Range(entries)) /\ Len(entries) = n
  <2> HIDE DEF entries
  <2>1. entries = [i \in 1..n |-> entries[i]]
    BY <1>3 DEF entries
  <2> QED
    BY <1>2, <1>6, <2>1
<1> QED
  BY <1>2, <1>4, <1>5, <1>7

(* Idle, the verifier has nothing to answer for. *)
LEMMA IdleCourt == ASSUME vpc' = "idle" PROVE Court'
BY DEF Court, AfterRails, AfterGroups, AtAttestations

(* What a check went on for: the ones that Court keeps. *)
LEMMA Passed ==
  ASSUME vpc' # "idle"
  PROVE  /\ ParseResult => /\ ResultHolds(file[rail.result.path])
                           /\ \/ index < Len(RailOrder) /\ index' = index + 1 /\ vpc' = "rail"
                              \/ ~(index < Len(RailOrder)) /\ index' = 1 /\ vpc' = "groups"
         /\ VerifyGroups => GroupsAgree(crown)
         /\ VerifyReplay => vpc' = "receipts" \/ (vpc' = "global" /\ index' = 1)
         /\ ParseAttestation =>
              /\ AttestationHolds(file[crown.attestations[index].path], crown.source)
              /\ \/ index < Len(crown.attestations) /\ index' = index + 1 /\ vpc' = "attestations"
                 \/ vpc' = "spread"
         /\ VerifySpread => GlobalSpread(loaded)
<1>1. ParseResult => /\ ResultHolds(file[rail.result.path])
                     /\ \/ index < Len(RailOrder) /\ index' = index + 1 /\ vpc' = "rail"
                        \/ ~(index < Len(RailOrder)) /\ index' = 1 /\ vpc' = "groups"
  BY Zenon DEF ParseResult, AdvanceAlong, Advance
<1>2. VerifyGroups => GroupsAgree(crown)
  BY Zenon DEF VerifyGroups, Advance
<1>3. VerifyReplay => vpc' = "receipts" \/ (vpc' = "global" /\ index' = 1)
  BY Zenon DEF VerifyReplay, AdvanceAlong, Advance
<1>4. ParseAttestation =>
        /\ AttestationHolds(file[crown.attestations[index].path], crown.source)
        /\ \/ index < Len(crown.attestations) /\ index' = index + 1 /\ vpc' = "attestations"
           \/ vpc' = "spread"
  BY Zenon DEF ParseAttestation, AdvanceAlong, Advance
<1>5. VerifySpread => GlobalSpread(loaded)
  BY Zenon DEF VerifySpread, Advance
<1> QED
  BY <1>1, <1>2, <1>3, <1>4, <1>5

(* What was shown stays shown while crown and what was counted stay and the  *)
(* verifier goes on within a part.                                           *)
LEMMA CourtOn ==
  ASSUME Court, UNCHANGED <<crown, loaded, index>>, everAttested \subseteq everAttested',
         \/ vpc' = vpc
         \/ vpc = "head" /\ vpc' = "tree"
         \/ vpc = "tree" /\ vpc' = "powl"
         \/ vpc = "rail" /\ vpc' = "result"
         \/ vpc = "result" /\ vpc' = "parse result"
         \/ vpc \in {"command", "receipts"} /\ vpc' \in {"command", "receipts", "replay"}
         \/ vpc = "attestations" /\ vpc' = "parse attestation"
  PROVE  Court'
<1>1. \A r : RailEarned(r)' <=> RailEarned(r)
  BY DEF RailEarned
<1>2. \A a : Counted(a, crown.source) => Counted(a, crown.source)'
  BY DEF Counted
<1>3. GroupsAgree(crown)' <=> GroupsAgree(crown)
  BY DEF GroupsAgree
<1>4. GlobalSpread(loaded)' <=> GlobalSpread(loaded)
  BY DEF GlobalSpread
<1> QED
  BY <1>1, <1>2, <1>3, <1>4 DEF Court, AfterRails, AfterGroups, AtAttestations

(* The checks whose outcome Court keeps, one lemma each.  verify_rails/2:    *)
(* after the last rail every rail has earned its standing.                   *)
LEMMA RailStep ==
  ASSUME CrownInv, ParseResult, VerifierStep, vpc' # "idle"
  PROVE  Court'
<1>1. /\ UNCHANGED <<crown, loaded, everAttested>> /\ vpc = "parse result"
  BY VerifierMoves DEF CrownInv, ParseResult
<1>2. /\ ResultHolds(file[rail.result.path])
      /\ \/ index < Len(RailOrder) /\ index' = index + 1 /\ vpc' = "rail"
         \/ ~(index < Len(RailOrder)) /\ index' = 1 /\ vpc' = "groups"
  BY Passed
<1>3. RailEarned(RailOrder[index])
  BY <1>2 DEF ResultHolds, RailEarned, rail
<1>4. /\ index \in Nat \ {0}
      /\ \A i \in DOMAIN RailOrder : i < index => RailEarned(RailOrder[i])
      /\ DOMAIN RailOrder = 1..Len(RailOrder) /\ Len(RailOrder) \in Nat
  <2>1. index \in Nat \ {0}
    BY DEF CrownInv, CrownTypeOK
  <2>2. \A i \in DOMAIN RailOrder : i < index => RailEarned(RailOrder[i])
    BY <1>1 DEF CrownInv, Court
  <2>3. RailOrder \in Seq(Range(RailOrder))
    BY ReleaseCrownAssumption
  <2>4. DOMAIN RailOrder = 1..Len(RailOrder) /\ Len(RailOrder) \in Nat
    BY <2>3
  <2> QED
    BY <2>1, <2>2, <2>4
<1>5. \A i \in DOMAIN RailOrder : i < index + 1 => RailEarned(RailOrder[i])
  <2> SUFFICES ASSUME NEW i \in DOMAIN RailOrder, i < index + 1 PROVE RailEarned(RailOrder[i])
    OBVIOUS
  <2>1. i < index \/ i = index
    BY <1>4
  <2> QED
    BY <1>3, <1>4, <2>1
<1>6. \A r : RailEarned(r)' <=> RailEarned(r)
  BY <1>1 DEF RailEarned
<1>7. \A a : Counted(a, crown.source) => Counted(a, crown.source)'
  BY <1>1 DEF Counted
<1>8. /\ crown.attestations \in Seq(Range(crown.attestations)) /\ Len(crown.attestations) >= 1
      /\ \A i \in DOMAIN crown.attestations : crown.attestations[i].path \in Host
      /\ \A a \in loaded : Counted(a, crown.source)
  BY <1>1 DEF CrownInv, Court
<1>9. CASE vpc' = "rail"
  <2>1. index' = index + 1
    BY <1>2, <1>9
  <2> QED
    BY <1>1, <1>5, <1>6, <1>7, <1>8, <1>9, <2>1 DEF Court, AfterRails, AfterGroups, AtAttestations
<1>10. CASE vpc' = "groups"
  <2>1. ~(index < Len(RailOrder))
    BY <1>2, <1>10
  <2>2. ASSUME NEW r \in Rail PROVE RailEarned(r)
    <3>1. PICK i \in DOMAIN RailOrder : r = RailOrder[i]
      BY DEF Rail, Range
    <3>2. i < index + 1
      BY <1>4, <2>1
    <3> QED
      BY <1>5, <3>1, <3>2
  <2> QED
    BY <1>1, <1>6, <1>7, <1>8, <1>10, <2>2 DEF Court, AfterRails, AfterGroups, AtAttestations
<1> QED
  BY <1>2, <1>9, <1>10

(* verify_global/3: every attestation that is counted is one that holds, and *)
(* was attested or written by another author.                                *)
LEMMA AttestationStep ==
  ASSUME CrownInv, ParseAttestation, VerifierStep, vpc' # "idle"
  PROVE  Court'
<1> DEFINE a == file[crown.attestations[index].path]
<1>1. /\ UNCHANGED <<crown, everAttested>> /\ vpc = "parse attestation" /\ loaded' = loaded \cup {a}
  BY VerifierMoves DEF CrownInv, ParseAttestation
<1>2. /\ AttestationHolds(a, crown.source)
      /\ \/ index < Len(crown.attestations) /\ index' = index + 1 /\ vpc' = "attestations"
         \/ vpc' = "spread"
  BY Passed
<1>3. /\ crown.attestations \in Seq(Range(crown.attestations)) /\ Len(crown.attestations) >= 1
      /\ \A i \in DOMAIN crown.attestations : crown.attestations[i].path \in Host
      /\ \A b \in loaded : Counted(b, crown.source)
      /\ index <= Len(crown.attestations) /\ index \in Nat \ {0}
  BY <1>1 DEF CrownInv, CrownTypeOK, Court, AtAttestations
<1>4. Len(crown.attestations) \in Nat /\ DOMAIN crown.attestations = 1..Len(crown.attestations)
  BY <1>3
<1>5. crown.attestations[index].path \in Host
  BY <1>3, <1>4
<1>6. a \in {NoFile, Partial} \cup everAttested \cup Foreign[crown.attestations[index].path]
  BY <1>5 DEF CrownInv, CrownTypeOK
<1>7. Counted(a, crown.source)
  BY <1>2, <1>5, <1>6 DEF Counted, AttestationHolds, IsObject
<1> HIDE DEF a
<1>8. \A b \in loaded' : Counted(b, crown.source)'
  BY <1>1, <1>3, <1>7 DEF Counted
<1>9. (\A r \in Rail : RailEarned(r))' /\ GroupsAgree(crown)'
  BY <1>1 DEF CrownInv, Court, AfterRails, AfterGroups, RailEarned, GroupsAgree
<1>10. vpc' \in AtAttestations => index' <= Len(crown'.attestations)
  <2>1. CASE vpc' = "spread"
    BY <2>1 DEF AtAttestations
  <2>2. CASE index < Len(crown.attestations) /\ index' = index + 1
    <3>1. index' <= Len(crown.attestations)
      BY <2>2, <1>3, <1>4
    <3> QED
      BY <3>1, <1>1
  <2> QED
    BY <1>2, <2>1, <2>2
<1>11. vpc' \in {"attestations", "spread"}
  BY <1>2
<1>12. /\ crown'.attestations \in Seq(Range(crown'.attestations)) /\ Len(crown'.attestations) >= 1
       /\ \A i \in DOMAIN crown'.attestations : crown'.attestations[i].path \in Host
  BY <1>1, <1>3
<1> QED
  BY <1>8, <1>9, <1>10, <1>11, <1>12 DEF Court, AfterRails, AfterGroups

(* Every check of the verifier keeps what the earlier ones showed. *)
LEMMA VerifierCourt ==
  ASSUME CrownInv, VerifierStep
  PROVE  Court'
<1> SUFFICES ASSUME vpc' # "idle" PROVE Court'
  BY IdleCourt
<1>1. UNCHANGED <<crown, everAttested>> /\ everAttested \subseteq everAttested' /\ Court
  BY VerifierMoves DEF CrownInv
<1>2. CASE VerifyHead \/ VerifyTree \/ VerifyArtifact \/ HashResult
  <2>1. UNCHANGED <<loaded, index>>
    BY <1>2 DEF VerifyHead, VerifyTree, VerifyArtifact, HashResult
  <2>2. \/ vpc = "head" /\ vpc' = "tree"
        \/ vpc = "tree" /\ vpc' = "powl"
        \/ vpc = "rail" /\ vpc' = "result"
        \/ vpc = "result" /\ vpc' = "parse result"
    BY <1>2, VerifierFlow DEF VerifyHead, VerifyTree, VerifyArtifact, HashResult, Moves
  <2> QED
    BY <1>1, <2>1, <2>2, CourtOn
<1>3. CASE VerifyPowl
  <2>1. UNCHANGED <<loaded, index>> /\ vpc = "powl" /\ vpc' = "rail" /\ index = 1
    BY <1>1, <1>3, VerifierFlow DEF VerifyPowl, Moves, Court
  <2>2. \A i \in DOMAIN RailOrder : ~(i < 1)
    BY ReleaseCrownAssumption
  <2> QED
    BY <1>1, <2>1, <2>2 DEF Court, AfterRails, AfterGroups, AtAttestations, Counted
<1>4. CASE ParseResult
  BY <1>4, RailStep
<1>5. CASE VerifyGroups
  <2>1. UNCHANGED <<loaded, index>> /\ vpc = "groups" /\ vpc' = "command" /\ GroupsAgree(crown)
    BY <1>5, VerifierFlow, Passed DEF VerifyGroups, Moves
  <2> QED
    BY <1>1, <2>1 DEF Court, AfterRails, AfterGroups, AtAttestations, Counted, RailEarned, GroupsAgree
<1>6. CASE VerifyCommand
  <2>1. UNCHANGED loaded /\ vpc = "command" /\ vpc' \in {"command", "receipts"}
    BY <1>6, VerifierFlow DEF VerifyCommand, Moves
  <2> QED
    BY <1>1, <2>1 DEF Court, AfterRails, AfterGroups, AtAttestations, Counted, RailEarned, GroupsAgree
<1>7. CASE HashReceipt
  <2>1. UNCHANGED <<loaded, index>> /\ vpc = "receipts" /\ vpc' = "replay"
    BY <1>7, VerifierFlow DEF HashReceipt, Moves
  <2> QED
    BY <1>1, <2>1, CourtOn
<1>8. CASE VerifyReplay
  <2>1. UNCHANGED loaded /\ vpc = "replay" /\ (vpc' = "receipts" \/ (vpc' = "global" /\ index' = 1))
    BY <1>8, Passed DEF VerifyReplay
  <2> QED
    BY <1>1, <2>1 DEF Court, AfterRails, AfterGroups, AtAttestations, Counted, RailEarned, GroupsAgree
<1>9. CASE VerifyInvariants
  <2>1. UNCHANGED <<loaded, index>> /\ vpc = "global" /\ vpc' = "attestations" /\ index = 1
    BY <1>1, <1>9, VerifierFlow DEF VerifyInvariants, Moves, Court
  <2> QED
    BY <1>1, <2>1 DEF Court, AfterRails, AfterGroups, AtAttestations, Counted, RailEarned, GroupsAgree
<1>10. CASE HashAttestation
  <2>1. UNCHANGED <<loaded, index>> /\ vpc = "attestations" /\ vpc' = "parse attestation"
    BY <1>10, VerifierFlow DEF HashAttestation, Moves
  <2> QED
    BY <1>1, <2>1, CourtOn
<1>11. CASE ParseAttestation
  BY <1>11, AttestationStep
<1>12. CASE VerifySpread
  <2>1. UNCHANGED <<loaded, index>> /\ vpc = "spread" /\ vpc' = "sabotage" /\ GlobalSpread(loaded)
    BY <1>12, VerifierFlow, Passed DEF VerifySpread, Moves
  <2>2. GlobalSpread(loaded)'
    BY <2>1 DEF GlobalSpread
  <2> QED
    BY <1>1, <2>1, <2>2 DEF Court, AfterRails, AfterGroups, AtAttestations, Counted, RailEarned, GroupsAgree
<1>13. CASE VerifySabotageAndSeal
  BY <1>13 DEF VerifySabotageAndSeal
<1> QED
  BY <1>2, <1>3, <1>4, <1>5, <1>6, <1>7, <1>8, <1>9, <1>10, <1>11, <1>12, <1>13 DEF VerifierStep

(* A verification begins with nothing shown but its manifest. *)
LEMMA BeginStep ==
  ASSUME CrownInv, NEW request \in Request, NEW hosts \in Manifests, BeginVerification(request, hosts)
  PROVE  CrownTypeOK' /\ Court'
<1>1. /\ crown'.attestations \in Seq(Range(crown'.attestations)) /\ Len(crown'.attestations) >= 1
      /\ \A i \in DOMAIN crown'.attestations : crown'.attestations[i].path \in Host
  BY ManifestHolds DEF CrownInv
<1>2. /\ vpc' = "head" /\ index' = 1 /\ loaded' = {} /\ verdict' = "none" /\ moved' = FALSE
      /\ verifications < MaxVerifications /\ verifications' = verifications + 1
      /\ UNCHANGED <<file, head, qpc, source, observed, left, qerrors, everAttested, qualifications,
                     lapsed, changes>>
  BY DEF BeginVerification, qualifierVars
<1>3. verifications' \in 0..MaxVerifications
  BY <1>2, CrownBounds DEF CrownInv, CrownTypeOK
<1>4. index' \in Nat \ {0}
  BY <1>2
<1>5. CrownTypeOK'
  BY <1>2, <1>3, <1>4 DEF CrownInv, CrownTypeOK
<1>6. Court'
  BY <1>1, <1>2 DEF Court, AfterRails, AfterGroups, AtAttestations
<1> QED
  BY <1>5, <1>6

(* A result stays worth what it was: attestations are never taken back. *)
LEMMA EarnedOn ==
  ASSUME NEW result, NEW attested, NEW later, Earned(result, attested), attested \subseteq later
  PROVE  Earned(result, later)
BY DEF Earned

LEMMA OutputOn ==
  ASSUME Earned(published, everAttested), Earned(writing, everAttested), UNCHANGED outputVars, everAttested \subseteq everAttested'
  PROVE  Earned(published, everAttested)' /\ Earned(writing, everAttested)'
<1>1. published' = published /\ writing' = writing
  BY DEF outputVars
<1>2. Earned(published, everAttested)'
  BY <1>1, EarnedOn
<1>3. Earned(writing, everAttested)'
  BY <1>1, EarnedOn
<1> QED
  BY <1>2, <1>3

(* main/0 writes a result from what the checks have shown. *)
LEMMA SealStep ==
  ASSUME CrownInv, VerifySabotageAndSeal, VerifierStep
  PROVE  Earned(published, everAttested)' /\ Earned(writing, everAttested)'
<1>1. everAttested' = everAttested /\ vpc = "sabotage"
  BY VerifierMoves DEF CrownInv, VerifySabotageAndSeal
<1>2. UNCHANGED outputVars \/ (published' = Partial /\ writing' = [crown |-> crown, attestations |-> loaded])
  BY DEF VerifySabotageAndSeal
<1>3. CASE UNCHANGED outputVars
  BY <1>1, <1>3, OutputOn DEF CrownInv
<1>4. CASE published' = Partial /\ writing' = [crown |-> crown, attestations |-> loaded]
  <2>1. writing'.crown = crown /\ writing'.attestations = loaded
    BY <1>4
  <2>2. /\ \A r \in Rail : RailEarned(r)
        /\ GroupsAgree(crown) /\ GlobalSpread(loaded)
        /\ \A a \in loaded : Counted(a, crown.source)
    BY <1>1 DEF CrownInv, Court, AfterRails, AfterGroups
  <2>3. /\ \A r \in Rail : IsObject(writing'.crown.rails[r].result_hash)
                           /\ writing'.crown.rails[r].result_hash.standing = "ALIVE"
        /\ GroupsAgree(writing'.crown) /\ GlobalSpread(writing'.attestations)
    BY <2>1, <2>2 DEF RailEarned
  <2>4. \A a \in writing'.attestations :
          /\ a.source_sha = writing'.crown.source /\ \A k \in Required \cup {"provider"} : a[k] # Unset
          /\ a \in everAttested' \/ \E h \in Host : a \in Foreign[h]
    BY <1>1, <2>1, <2>2 DEF Counted
  <2>5. Earned(published, everAttested)'
    BY <1>4 DEF Earned
  <2>6. Earned(writing, everAttested)'
    BY <2>3, <2>4 DEF Earned, GroupsAgree, GlobalSpread
  <2> QED
    BY <2>5, <2>6
<1> QED
  BY <1>2, <1>3, <1>4

LEMMA CrownStepInv == CrownInv /\ [CrownNext]_crownVars => CrownInv'
<1> SUFFICES ASSUME CrownInv, [CrownNext]_crownVars PROVE CrownInv'
  OBVIOUS
<1>1. CASE \/ Truncate \/ Fill \/ Summarise \/ KillQualifier \/ \E l \in Listing : Qualify(l)
           \/ \E p \in FilePath : \E content \in Foreign[p] : Rewrite(p, content)
           \/ \E c \in Commit : CheckOut(c)
  <2>1. /\ CrownTypeOK' /\ everAttested \subseteq everAttested'
        /\ UNCHANGED <<crown, vpc, index, loaded, published, writing>>
    BY <1>1, AuthorsStep
  <2>2. Court' /\ Earned(published, everAttested)' /\ Earned(writing, everAttested)'
    BY <2>1, CourtOn, OutputOn DEF CrownInv, outputVars
  <2> QED
    BY <2>1, <2>2 DEF CrownInv
<1>2. ASSUME NEW request \in Request, NEW hosts \in Manifests, BeginVerification(request, hosts)
      PROVE  CrownInv'
  <2>1. UNCHANGED outputVars /\ everAttested' = everAttested
    BY <1>2 DEF BeginVerification, qualifierVars
  <2> QED
    BY <1>2, <2>1, BeginStep, OutputOn DEF CrownInv
<1>3. CASE VerifierStep
  <2>1. CrownTypeOK' /\ Court'
    BY <1>3, VerifierTypeStep, VerifierCourt DEF CrownInv
  <2>2. CASE VerifySabotageAndSeal
    BY <1>3, <2>1, <2>2, SealStep DEF CrownInv
  <2>3. CASE ~VerifySabotageAndSeal
    <3>1. UNCHANGED outputVars
      BY <1>3, <2>3 DEF VerifierStep, VerifyHead, VerifyTree, VerifyPowl, VerifyArtifact, HashResult, ParseResult,
        VerifyGroups, VerifyCommand, HashReceipt, VerifyReplay, VerifyInvariants, HashAttestation, ParseAttestation,
        VerifySpread
    <3> QED
      BY <1>3, <2>1, <3>1, VerifierMoves, OutputOn DEF CrownInv
  <2> QED
    BY <2>2, <2>3
<1>4. CASE WriteOutput \/ KillVerifier
  <2>1. /\ UNCHANGED <<file, head, qpc, source, observed, left, qerrors, everAttested, crown>>
        /\ UNCHANGED <<verdict, moved, lapsed, qualifications, verifications, changes>>
        /\ UNCHANGED <<vpc, index, loaded>> \/ (vpc' = "idle" /\ index' = 1)
    BY <1>4 DEF WriteOutput, KillVerifier, qualifierVars
  <2>2. CrownTypeOK'
    <3>1. CrownTypeOK /\ vpc' \in {vpc, "idle"} /\ index' \in {index, 1}
      BY <2>1 DEF CrownInv
    <3>2. index' \in Nat \ {0}
      <4>1. index \in Nat \ {0}
        BY <3>1 DEF CrownTypeOK
      <4> QED
        BY <3>1, <4>1
    <3>3. vpc' \in {"idle", "head", "tree", "powl", "rail", "result", "parse result", "groups", "command", "receipts",
                    "replay", "global", "attestations", "parse attestation", "spread", "sabotage"}
      BY <3>1 DEF CrownTypeOK
    <3>4. \A h \in Host : file'[h] \in {NoFile, Partial} \cup everAttested' \cup Foreign[h]
      BY <2>1, <3>1 DEF CrownTypeOK
    <3>5. /\ DOMAIN file' = FilePath /\ head' \in Commit
          /\ qpc' \in {"idle", "write", "fill"} /\ source' \in Commit \cup {Unset}
          /\ left' \subseteq DOMAIN observed' /\ (qpc' = "idle" => left' = {})
          /\ Range(observed') \subseteq everAttested'
      BY <2>1, <3>1 DEF CrownTypeOK
    <3>6. /\ verdict' \in {"none", "ALIVE", "PARTIAL_ALIVE"}
          /\ qerrors' \in BOOLEAN /\ moved' \in BOOLEAN /\ lapsed' \in BOOLEAN
          /\ qualifications' \in 0..MaxQualifications /\ verifications' \in 0..MaxVerifications
          /\ changes' \in 0..MaxChanges
      BY <2>1, <3>1 DEF CrownTypeOK
    <3> QED
      BY <3>2, <3>3, <3>4, <3>5, <3>6 DEF CrownTypeOK
  <2>3. Court'
    BY <2>1, CourtOn, IdleCourt DEF CrownInv
  <2>4. Earned(published, everAttested)' /\ Earned(writing, everAttested)'
    <3>1. published' \in {published, writing} /\ writing' \in {writing, NoFile}
      BY <1>4 DEF WriteOutput, KillVerifier
    <3>2. Earned(NoFile, everAttested) /\ Earned(published, everAttested) /\ Earned(writing, everAttested)
      BY DEF CrownInv, Earned
    <3>3. Earned(published, everAttested)'
      BY <2>1, <3>1, <3>2
    <3>4. Earned(writing, everAttested)'
      BY <2>1, <3>1, <3>2
    <3> QED
      BY <3>3, <3>4
  <2> QED
    BY <2>2, <2>3, <2>4 DEF CrownInv
<1>5. CASE UNCHANGED crownVars
  <2>1. CrownTypeOK'
    <3>1. UNCHANGED <<file, head, qpc, source, observed, left, qerrors, everAttested>>
      BY <1>5 DEF crownVars
    <3>2. UNCHANGED <<vpc, index, verdict, moved, lapsed, qualifications, verifications, changes>>
      BY <1>5 DEF crownVars
    <3>3. CrownTypeOK
      BY DEF CrownInv
    <3>4. head \in Commit /\ moved \in BOOLEAN /\ changes \in 0..MaxChanges
      BY <3>3 DEF CrownTypeOK
    <3> QED
      BY <3>1, <3>2, <3>3, <3>4, CrownTypesStay
  <2>2. Court' /\ Earned(published, everAttested)' /\ Earned(writing, everAttested)'
    BY <1>5, CourtOn, OutputOn DEF CrownInv, crownVars, outputVars
  <2> QED
    BY <2>1, <2>2 DEF CrownInv
<1> QED
  BY <1>1, <1>2, <1>3, <1>4, <1>5 DEF CrownNext, CrownSteps

LEMMA CrownInvariant == CrownSpec => []CrownInv
BY CrownInitInv, CrownStepInv, PTL DEF CrownSpec

(* The courts keep their types: an evidence file of a host is missing, half  *)
(* written, an attestation of a qualifier run or another author's            *)
(* (qualify-fly-topology.py:100-104, verify-final-crown.py:68-88).           *)
THEOREM CrownTypesHold == CrownSpec => []CrownTypeOK
<1>1. CrownInv => CrownTypeOK
  BY DEF CrownInv
<1> QED
  BY <1>1, CrownInvariant, PTL

(* A result that --output keeps was earned, whatever was rewritten, checked  *)
(* out or attested anew while the verifier read its evidence twice           *)
(* (verify/4, main, verify-final-crown.py:91-96, 277-336).                   *)
THEOREM CrownPublishedIsEarned == CrownSpec => []PublishedIsEarned
<1>1. CrownInv => PublishedIsEarned
  BY DEF CrownInv, PublishedIsEarned
<1> QED
  BY <1>1, CrownInvariant, PTL

-----------------------------------------------------------------------------
(* The qualifier.  Its inductive invariant is Qualified: what it observed is *)
(* attested, spread unless it met errors, and written but for what is left;  *)
(* and the summary says so.                                                  *)
Once == \A i, j \in DOMAIN observed : observed[i].host_id = observed[j].host_id => i = j

Vouched ==
  \A j \in DOMAIN observed :
    /\ Attested(observed[j], source) /\ IsObject(observed[j])
    /\ observed[j].host_id \in Host /\ observed[j].provider # Unset

Written == ~lapsed /\ Once => \A j \in DOMAIN observed : j \notin left => file[observed[j].host_id] = observed[j]

SummaryOf(any, sha, atts) ==
  [standing |-> IF any THEN "PARTIAL_ALIVE" ELSE "ALIVE", source_sha |-> sha, hosts |-> {a.host_id : a \in atts}]

Summarised ==
  /\ qpc # "idle" => source # Unset
  /\ qpc = "idle" /\ ~lapsed /\ summary # NoFile =>
       source # Unset /\ left = {} /\ summary = SummaryOf(qerrors, source, Range(observed))

Weighed == source # Unset /\ ~qerrors => Spread(Range(observed))

Qualified == Vouched /\ Weighed /\ Written /\ Summarised

LEMMA QualifiedInit == CrownInit => Qualified
<1> SUFFICES ASSUME CrownInit PROVE Qualified
  OBVIOUS
<1>1. DOMAIN observed = {} /\ source = Unset /\ qpc = "idle" /\ summary = NoFile
  BY DEF CrownInit
<1> QED
  BY <1>1 DEF Qualified, Vouched, Weighed, Written, Summarised

(* A new run attests what it observed and has all of it left to write. *)
LEMMA QualifyStep ==
  ASSUME CrownTypeOK, NEW listing \in Listing, Qualify(listing)
  PROVE  Qualified'
<1> DEFINE observe(i) == IF listing[i] = NoObject THEN NoObject ELSE Observation(listing[i])
           atts == [i \in {j \in DOMAIN listing : Attested(observe(j), head)} |-> observe(i)]
<1>1. /\ observed' = atts /\ left' = DOMAIN atts /\ source' = head /\ qpc' = "write"
      /\ qerrors' = (DOMAIN atts # DOMAIN listing \/ ~Spread(Range(atts)))
  BY DEF Qualify
<1>2. Vouched'
  <2> SUFFICES ASSUME NEW j \in DOMAIN atts
               PROVE  /\ Attested(atts[j], head) /\ IsObject(atts[j])
                      /\ atts[j].host_id \in Host /\ atts[j].provider # Unset
    BY <1>1 DEF Vouched
  <2>1. j \in DOMAIN listing /\ Attested(observe(j), head) /\ atts[j] = observe(j)
    OBVIOUS
  <2>2. listing[j] # NoObject /\ atts[j] = Observation(listing[j])
    BY <2>1 DEF Attested
  <2>3. /\ Observation(listing[j]).host_id \in Host \cup {Unset} /\ Unset # "fly.io"
        /\ Observation(listing[j]) \notin {NoFile, Partial, NoObject}
    BY <2>1, <2>2, ListingAssumption
  <2>4. atts[j].host_id # Unset
    BY <2>1 DEF Attested, Required
  <2>5. atts[j].provider = "fly.io"
    BY <2>2 DEF Observation
  <2> QED
    BY <2>1, <2>2, <2>3, <2>4, <2>5 DEF IsObject
<1>3. Weighed'
  BY <1>1 DEF Weighed
<1>4. Written'
  BY <1>1 DEF Written
<1>5. Summarised'
  <2>1. head # Unset
    BY ReleaseCrownAssumption DEF CrownTypeOK
  <2> QED
    BY <1>1, <2>1 DEF Summarised
<1> QED
  BY <1>2, <1>3, <1>4, <1>5 DEF Qualified

(* Writing the file of an attestation leaves those of the other hosts alone. *)
LEMMA WriteOwn ==
  ASSUME CrownTypeOK, Vouched, Written, NEW i \in left, NEW content, Write(observed[i].host_id, content),
         UNCHANGED <<observed, lapsed>>, left' = left \/ (left' = left \ {i} /\ content = observed[i])
  PROVE  Written'
<1> SUFFICES ASSUME ~lapsed, Once, NEW j \in DOMAIN observed, j \notin left'
             PROVE  file'[observed[j].host_id] = observed[j]
  BY DEF Written, Once
<1>1. observed[i].host_id \in DOMAIN file /\ i \in DOMAIN observed
  BY DEF CrownTypeOK, Vouched, FilePath
<1>2. file' = [file EXCEPT ![observed[i].host_id] = content]
  BY DEF Write
<1>3. CASE j = i
  BY <1>1, <1>2, <1>3
<1>4. CASE j # i
  <2>1. observed[j].host_id # observed[i].host_id /\ j \notin left
    BY <1>1, <1>4 DEF Once
  <2>2. file'[observed[j].host_id] = file[observed[j].host_id]
    BY <1>2, <2>1, <1>1 DEF CrownTypeOK, Vouched, FilePath
  <2> QED
    BY <2>1, <2>2 DEF Written
<1> QED
  BY <1>3, <1>4

(* What leaves the files and the qualifier alone leaves this alone. *)
LEMMA QualifiedOn ==
  ASSUME Qualified, UNCHANGED <<qpc, source, observed, left, qerrors, summary>>,
         UNCHANGED <<file, lapsed>> \/ lapsed' = TRUE
  PROVE  Qualified'
BY DEF Qualified, Vouched, Weighed, Written, Summarised, Once, SummaryOf

LEMMA QualifiedStep == CrownTypeOK /\ Qualified /\ [CrownNext]_crownVars => Qualified'
<1> SUFFICES ASSUME CrownTypeOK, Qualified, [CrownNext]_crownVars PROVE Qualified'
  OBVIOUS
<1>1. CASE Truncate
  <2>1. PICK i \in UpNext : Write(observed[i].host_id, Partial)
    BY <1>1 DEF Truncate
  <2>2. UNCHANGED <<source, observed, left, qerrors, summary, lapsed>> /\ qpc = "write" /\ qpc' = "fill"
    BY <1>1 DEF Truncate
  <2>3. i \in left
    BY DEF UpNext
  <2>4. Written'
    BY <2>1, <2>2, <2>3, WriteOwn DEF Qualified
  <2> QED
    BY <2>2, <2>4 DEF Qualified, Vouched, Weighed, Summarised
<1>2. CASE Fill
  <2>1. PICK i \in UpNext : Write(observed[i].host_id, observed[i]) /\ left' = left \ {i}
    BY <1>2 DEF Fill
  <2>2. UNCHANGED <<source, observed, qerrors, summary, lapsed>> /\ qpc = "fill" /\ qpc' = "write"
    BY <1>2 DEF Fill
  <2>3. i \in left
    BY DEF UpNext
  <2>4. Written'
    BY <2>1, <2>2, <2>3, WriteOwn DEF Qualified
  <2> QED
    BY <2>2, <2>4 DEF Qualified, Vouched, Weighed, Summarised
<1>3. CASE Summarise
  <2>1. /\ UNCHANGED <<file, source, observed, left, qerrors, lapsed>> /\ qpc = "write" /\ left = {}
        /\ summary' = SummaryOf(qerrors, source, Range(observed))
    BY <1>3 DEF Summarise, SummaryOf
  <2>2. Summarised'
    BY <2>1 DEF Qualified, Summarised
  <2> QED
    BY <2>1, <2>2 DEF Qualified, Vouched, Weighed, Written, Once
<1>4. CASE KillQualifier
  <2>1. UNCHANGED <<source, observed, qerrors>> /\ lapsed' = TRUE /\ qpc' = "idle"
    BY <1>4 DEF KillQualifier
  <2> QED
    BY <2>1 DEF Qualified, Vouched, Weighed, Written, Summarised
<1>5. CASE \E listing \in Listing : Qualify(listing)
  BY <1>5, QualifyStep
<1>6. CASE \E request \in Request, hosts \in Manifests : BeginVerification(request, hosts)
  BY <1>6, QualifiedOn DEF BeginVerification, qualifierVars
<1>7. CASE VerifierStep
  BY <1>7, QualifiedOn DEF VerifierStep, qualifierVars
<1>8. CASE \E p \in FilePath : \E content \in Foreign[p] : Rewrite(p, content)
  BY <1>8, QualifiedOn DEF Rewrite, qualifierVars
<1>9. CASE \E c \in Commit : CheckOut(c)
  BY <1>9, QualifiedOn DEF CheckOut, qualifierVars
<1>10. CASE WriteOutput \/ KillVerifier
  BY <1>10, QualifiedOn DEF WriteOutput, KillVerifier, qualifierVars
<1>11. CASE UNCHANGED crownVars
  BY <1>11, QualifiedOn DEF crownVars
<1> QED
  BY <1>1, <1>2, <1>3, <1>4, <1>5, <1>6, <1>7, <1>8, <1>9, <1>10, <1>11 DEF CrownNext, CrownSteps

(* A topology called ALIVE, left alone, is one that the crown's court        *)
(* accepts, whatever the listing held (qualify-fly-topology.py:27-117 and    *)
(* verify_global/3, verify-final-crown.py:232-255).                          *)
THEOREM CrownAcceptsQualified == CrownSpec => []QualifiedTopologySatisfiesCrown
<1>1. Qualified => QualifiedTopologySatisfiesCrown
  <2> DEFINE files == {file[h] : h \in summary.hosts}
  <2> SUFFICES ASSUME Qualified, qpc = "idle", summary # NoFile, ~lapsed, Once, summary.standing = "ALIVE"
               PROVE  (\A a \in files : AttestationHolds(a, summary.source_sha)) /\ GlobalSpread(files)
    BY DEF QualifiedTopologySatisfiesCrown, Once
  <2>1. source # Unset /\ left = {} /\ summary = SummaryOf(qerrors, source, Range(observed))
    BY DEF Qualified, Summarised
  <2>2. ~qerrors /\ summary.source_sha = source /\ summary.hosts = {a.host_id : a \in Range(observed)}
    BY <2>1 DEF SummaryOf
  <2>3. \A j \in DOMAIN observed : file[observed[j].host_id] = observed[j]
    BY <2>1 DEF Qualified, Written
  <2>4. files = Range(observed)
    <3>1. \A a \in Range(observed) : file[a.host_id] = a
      BY <2>3 DEF Range
    <3> QED
      BY <2>2, <3>1
  <2>5. \A a \in Range(observed) : Attested(a, source) /\ IsObject(a) /\ a.provider # Unset
    BY DEF Range, Qualified, Vouched
  <2>6. Spread(Range(observed))
    BY <2>1, <2>2 DEF Qualified, Weighed
  <2>7. \A a \in files : AttestationHolds(a, summary.source_sha)
    BY <2>2, <2>4, <2>5 DEF AttestationHolds, Attested, Required
  <2>8. GlobalSpread(files)
    BY <2>4, <2>6 DEF Spread, GlobalSpread
  <2> QED
    BY <2>7, <2>8
<1>2. CrownInit => CrownTypeOK /\ Qualified
  BY CrownInitInv, QualifiedInit DEF CrownInv
<1>3. CrownSpec => []CrownTypeOK
  BY CrownTypesHold
<1>4. CrownTypeOK /\ Qualified /\ [CrownNext]_crownVars => Qualified'
  BY QualifiedStep
<1> QED
  BY <1>1, <1>2, <1>3, <1>4, PTL DEF CrownSpec

-----------------------------------------------------------------------------
(* The verdict.  CrownHolds is taken apart into what each check asks; Passed *)
(* says that of all the checks behind the verifier, in terms of the evidence *)
(* as it is now: true as long as nothing moved.                              *)

Shaped ==
  /\ crown.powl # NoObject => {crown.powl.cases, crown.powl.samples} \subseteq Int
  /\ crown.groups \in Seq(Range(crown.groups)) /\ \A g \in Range(crown.groups) : g \in Seq(Range(g))
  /\ crown.commands \in Seq(Range(crown.commands)) /\ crown.receipts \in Seq(Range(crown.receipts))
  /\ crown.attestations \in Seq(Range(crown.attestations)) /\ crown.attestations # <<>>
  /\ crown.evidence_hash \in {Unset, "match", "mismatch"}

TreeHolds ==
  /\ crown.tree = TreeOf[head]
  /\ expected.source # Unset => expected.source = head
  /\ expected.tree # Unset => expected.tree = TreeOf[head]

PowlHolds ==
  /\ crown.powl # NoObject /\ crown.powl.proven /\ crown.powl.cases > 2047 /\ crown.powl.samples > 63
  /\ DOMAIN crown.rails = Rail

ArtifactHolds(r) == crown.rails[r].standing = "ALIVE" /\ Holds(crown.rails[r].artifact)

RailHolds(r) ==
  LET c == crown.rails[r]
  IN  /\ ArtifactHolds(r) /\ Holds(c.result)
      /\ IsObject(c.result.sha256) /\ c.result.sha256.standing = "ALIVE" /\ c.result_hash = c.result.sha256

CommandHolds(i) ==
  LET c == crown.commands[i] IN c.exit = 0 /\ c.command # Unset /\ Holds(c.log)

ReceiptHolds(i) == LET e == crown.receipts[i] IN Holds(e) /\ ReplayMatches(e.sha256)

InvariantsHold == crown.invariants /\ Len(crown.attestations) >= MinAttestations

AttestationKept(i) ==
  LET m == crown.attestations[i] IN Holds(m) /\ AttestationHolds(m.sha256, crown.source)

AttestedUpTo(n) == {crown.attestations[i].sha256 : i \in 1..n}

LastHolds == SabotageDetected(crown) /\ crown.evidence_hash \in {Unset, "match"}

AfterCommands == AfterGroups \ {"command"}
AfterReceipts == AfterCommands \ {"receipts", "replay"}
AfterInvariants == AfterReceipts \ {"global"}
AfterAttestations == AfterInvariants \ AtAttestations

PassedIdentity(at, n) ==
  /\ at \in {"head", "tree", "powl", "groups", "global", "spread", "sabotage"} => n = 1
  /\ at # "head" => crown.source = head
  /\ at \notin {"head", "tree"} => TreeHolds
  /\ at \notin {"head", "tree", "powl"} => PowlHolds

PassedRails(at, n) ==
  /\ at \in {"rail", "result", "parse result"} =>
       n \in DOMAIN RailOrder /\ \A i \in DOMAIN RailOrder : i < n => RailHolds(RailOrder[i])
  /\ at \in {"result", "parse result"} => ArtifactHolds(RailOrder[n])
  /\ at = "parse result" => Holds(crown.rails[RailOrder[n]].result)
  /\ at \in AfterRails => \A r \in Rail : RailHolds(r)
  /\ at \in AfterGroups => GroupsAgree(crown) /\ crown.commands # <<>>

PassedLists(at, n) ==
  /\ at = "command" => n \in DOMAIN crown.commands /\ \A i \in DOMAIN crown.commands : i < n => CommandHolds(i)
  /\ at \in AfterCommands => \A i \in DOMAIN crown.commands : CommandHolds(i)
  /\ at \in {"receipts", "replay"} =>
       /\ crown.receipts # <<>> => n \in DOMAIN crown.receipts
       /\ \A i \in DOMAIN crown.receipts : i < n => ReceiptHolds(i)
  /\ at = "replay" => crown.receipts # <<>> /\ Holds(crown.receipts[n])
  /\ at \in AfterReceipts => crown.receipts # <<>> /\ \A i \in DOMAIN crown.receipts : ReceiptHolds(i)

PassedTopology(at, n, atts) ==
  /\ at \in AfterInvariants => InvariantsHold
  /\ at \notin AfterInvariants => atts = {}
  /\ at \in AtAttestations =>
       /\ n \in DOMAIN crown.attestations /\ atts = AttestedUpTo(n - 1)
       /\ \A i \in DOMAIN crown.attestations : i < n => AttestationKept(i)
  /\ at = "parse attestation" => Holds(crown.attestations[n])
  /\ at \in AfterAttestations =>
       /\ \A i \in DOMAIN crown.attestations : AttestationKept(i)
       /\ atts = AttestedUpTo(Len(crown.attestations))
  /\ at = "sabotage" => GlobalSpread(atts)

PassedAt(at, n, atts) ==
  PassedIdentity(at, n) /\ PassedRails(at, n) /\ PassedLists(at, n) /\ PassedTopology(at, n, atts)

Reading ==
  vpc # "idle" => verdict = "none" /\ Shaped /\ (~moved => PassedAt(vpc, index, loaded))

Exact == Reading /\ VerdictExact

(* Fields with n values or more: n members that differ in the field.         *)
LEMMA Chosen ==
  ASSUME NEW S, IsFiniteSet(S), NEW key, NEW n \in Nat
  PROVE  Distinct(S, key) >= n <=>
           \E T \in SUBSET S : Cardinality(T) = n /\ \A a, b \in T : a # b => a[key] # b[key]
<1> DEFINE Values == {a[key] : a \in S}
           field == [a \in S |-> a[key]]
<1>1. IsFiniteSet(Values) /\ Cardinality(Values) \in Nat
  <2>1. field \in Surjection(S, Values)
    BY DEF Surjection
  <2> HIDE DEF Values, field
  <2> QED
    BY <2>1, FS_Surjection, FS_CardinalityType
<1>2. Distinct(S, key) = Cardinality(Values)
  BY DEF Distinct
<1>3. ASSUME Cardinality(Values) >= n
      PROVE  \E T \in SUBSET S : Cardinality(T) = n /\ \A a, b \in T : a # b => a[key] # b[key]
  <2> DEFINE m == Cardinality(Values)
  <2>1. PICK g : g \in Bijection(1..m, Values)
    <3> HIDE DEF Values
    <3> QED
      BY <1>1, FS_CardinalityType DEF ExistsBijection
  <2>2. g \in [1..m -> Values] /\ \A i, j \in 1..m : g[i] = g[j] => i = j
    BY <2>1 DEF Bijection, Injection, IsInjective
  <2>3. \A i \in 1..n : i \in 1..m
    <3>1. m \in Nat /\ n <= m
      BY <1>1, <1>3
    <3> HIDE DEF m
    <3> QED
      BY <3>1
  <2> DEFINE h == [i \in 1..n |-> CHOOSE a \in S : a[key] = g[i]]
             T == {h[i] : i \in 1..n}
  <2>4. \A i \in 1..n : h[i] \in S /\ h[i][key] = g[i]
    <3> SUFFICES ASSUME NEW i \in 1..n PROVE \E a \in S : a[key] = g[i]
      OBVIOUS
    <3>1. g[i] \in Values
      BY <2>2, <2>3
    <3> QED
      BY <3>1
  <2>5. h \in [1..n -> T]
    OBVIOUS
  <2> HIDE DEF h, m
  <2>6. \A i, j \in 1..n : h[i][key] = h[j][key] => i = j
    BY <2>2, <2>3, <2>4
  <2>7. h \in Bijection(1..n, T)
    <3>1. IsInjective(h)
      BY <2>5, <2>6 DEF IsInjective
    <3> QED
      BY <2>5, <3>1 DEF Bijection, Injection, Surjection
  <2>8. Cardinality(T) = n
    <3> HIDE DEF T
    <3> QED
      BY <2>7, FS_CountingElements DEF ExistsBijection
  <2>9. \A a, b \in T : a # b => a[key] # b[key]
    <3> SUFFICES ASSUME NEW i \in 1..n, NEW j \in 1..n, h[i] # h[j] PROVE h[i][key] # h[j][key]
      OBVIOUS
    <3> QED
      BY <2>6
  <2>10. T \in SUBSET S
    BY <2>4
  <2> QED
    BY <2>8, <2>9, <2>10
<1>4. ASSUME NEW T \in SUBSET S, Cardinality(T) = n, \A a, b \in T : a # b => a[key] # b[key]
      PROVE  Cardinality(Values) >= n
  <2> DEFINE f == [a \in T |-> a[key]]
  <2>1. f \in Injection(T, Values)
    BY <1>4 DEF Injection, IsInjective
  <2>2. Cardinality(T) <= Cardinality(Values)
    <3> HIDE DEF Values, f
    <3> QED
      BY <1>1, <2>1, FS_Injection
  <2> QED
    BY <1>1, <1>4, <2>2
<1> HIDE DEF Values
<1> QED
  BY <1>1, <1>2, <1>3, <1>4

LEMMA ListedIsFinite ==
  ASSUME NEW n \in Nat, NEW f
  PROVE  IsFiniteSet({f[i] : i \in 1..n})
<1> DEFINE T == {f[i] : i \in 1..n}
<1>1. [i \in 1..n |-> f[i]] \in Surjection(1..n, T)
  BY DEF Surjection
<1>2. IsFiniteSet(1..n)
  BY FS_Interval
<1> HIDE DEF T
<1>3. IsFiniteSet(T)
  BY <1>1, <1>2, FS_Surjection
<1> QED
  BY <1>3 DEF T

(* One value in a group is the same value in any two of its rails. *)
LEMMA OneValue ==
  ASSUME Shaped, NEW g \in Range(crown.groups), g # <<>>
  PROVE  Cardinality({crown.rails[r].result_hash : r \in Range(g)}) = 1 <=>
           \A r, s \in Range(g) : crown.rails[r].result_hash = crown.rails[s].result_hash
<1> DEFINE f == [i \in 1..Len(g) |-> crown.rails[g[i]].result_hash]
           H == {f[i] : i \in 1..Len(g)}
<1>1. g \in Seq(Range(g)) /\ Len(g) \in Nat /\ DOMAIN g = 1..Len(g) /\ 1 \in DOMAIN g
  BY DEF Shaped
<1>2. H = {crown.rails[r].result_hash : r \in Range(g)}
  BY <1>1 DEF Range
<1>3. IsFiniteSet(H)
  BY <1>1, ListedIsFinite
<1>4. (\E x : H = {x}) <=> \A r, s \in Range(g) : crown.rails[r].result_hash = crown.rails[s].result_hash
  <2>1. g[1] \in Range(g)
    BY <1>1 DEF Range
  <2> HIDE DEF H
  <2>2. ASSUME NEW x, H = {x}, NEW r \in Range(g), NEW s \in Range(g)
        PROVE  crown.rails[r].result_hash = crown.rails[s].result_hash
    <3>1. crown.rails[r].result_hash \in H /\ crown.rails[s].result_hash \in H
      BY <1>2
    <3> QED
      BY <2>2, <3>1
  <2>3. ASSUME \A r, s \in Range(g) : crown.rails[r].result_hash = crown.rails[s].result_hash
        PROVE  H = {crown.rails[g[1]].result_hash}
    BY <1>2, <2>1, <2>3
  <2> QED
    BY <2>2, <2>3
<1> HIDE DEF H
<1> QED
  BY <1>2, <1>3, <1>4, FS_Singleton

LEMMA GroupsParts ==
  ASSUME Shaped, \A r \in Rail : crown.rails[r].result_hash = crown.rails[r].result.sha256
  PROVE  GroupsAgree(crown) <=>
           /\ crown.groups # <<>> /\ <<>> \notin Range(crown.groups)
           /\ \A g \in Range(crown.groups) : \A r, s \in Range(g) :
                {r, s} \subseteq Rail /\ crown.rails[r].result.sha256 = crown.rails[s].result.sha256
<1> DEFINE one(g) == Cardinality({crown.rails[r].result_hash : r \in Range(g)}) = 1
           same(g) == \A r, s \in Range(g) : crown.rails[r].result_hash = crown.rails[s].result_hash
<1>1. \A g \in Range(crown.groups) : g # <<>> => (one(g) <=> same(g))
  BY OneValue
<1>2. GroupsAgree(crown) <=>
        /\ crown.groups # <<>>
        /\ \A g \in Range(crown.groups) : g # <<>> /\ Range(g) \subseteq Rail /\ one(g)
  BY DEF GroupsAgree
<1> HIDE DEF one
<1>3. GroupsAgree(crown) <=>
        /\ crown.groups # <<>> /\ <<>> \notin Range(crown.groups)
        /\ \A g \in Range(crown.groups) : Range(g) \subseteq Rail /\ same(g)
  BY <1>1, <1>2
<1>4. ASSUME NEW g \in Range(crown.groups)
      PROVE  Range(g) \subseteq Rail /\ same(g) <=>
               \A r, s \in Range(g) :
                 {r, s} \subseteq Rail /\ crown.rails[r].result.sha256 = crown.rails[s].result.sha256
  OBVIOUS
<1> HIDE DEF same
<1> QED
  BY <1>3, <1>4

(* What the crown asks of its topology, without an order of checks. *)
LEMMA TopologyParts ==
  ASSUME Shaped, crown.source = head
  PROVE  TopologyHolds <=>
           /\ InvariantsHold
           /\ \A i \in DOMAIN crown.attestations : AttestationKept(i)
           /\ GlobalSpread(AttestedUpTo(Len(crown.attestations)))
<1> DEFINE atts == crown.attestations
           f == [i \in 1..Len(atts) |-> atts[i].sha256]
           attested == {m.sha256 : m \in Range(atts)}
           differ(T, key) == \A a, b \in T : a # b => a[key] # b[key]
<1>1. Len(atts) \in Nat /\ DOMAIN atts = 1..Len(atts)
  BY DEF Shaped
<1>2. attested = AttestedUpTo(Len(atts)) /\ attested = {f[i] : i \in 1..Len(atts)}
  BY <1>1 DEF Range, AttestedUpTo
<1>3. IsFiniteSet(attested)
  <2>1. IsFiniteSet({f[i] : i \in 1..Len(atts)})
    BY <1>1, ListedIsFinite
  <2> QED
    BY <1>2, <2>1
<1> HIDE DEF f
<1>4. /\ \A m \in Range(atts) : Holds(m) /\ IsObject(m.sha256)
      /\ \A a \in attested : a.source_sha = head /\ \A k \in Required \cup {"provider"} : a[k] # Unset
      <=> \A i \in DOMAIN atts : AttestationKept(i)
  BY DEF AttestationKept, AttestationHolds, Range
<1>5. MinHosts \in Nat /\ MinCerts \in Nat
  BY ReleaseCrownAssumption
<1> HIDE DEF attested
<1>6. /\ Distinct(attested, "host_id") >= MinHosts <=>
           \E T \in SUBSET attested : Cardinality(T) = MinHosts /\ differ(T, "host_id")
      /\ Distinct(attested, "cert_fingerprint") >= MinCerts <=>
           \E T \in SUBSET attested : Cardinality(T) = MinCerts /\ differ(T, "cert_fingerprint")
  BY <1>3, <1>5, Chosen
<1>7. (\E hosts, certs \in SUBSET attested :
         /\ Cardinality(hosts) = MinHosts /\ \A a, b \in hosts : a # b => a.host_id # b.host_id
         /\ Cardinality(certs) = MinCerts /\ \A a, b \in certs : a # b => a.cert_fingerprint # b.cert_fingerprint)
      <=> Distinct(attested, "host_id") >= MinHosts /\ Distinct(attested, "cert_fingerprint") >= MinCerts
  BY <1>6
<1>8. GlobalSpread(attested) <=>
        /\ Distinct(attested, "host_id") >= MinHosts /\ Distinct(attested, "cert_fingerprint") >= MinCerts
        /\ Distinct(attested, "region") >= MinRegions /\ Distinct(attested, "fault_domain") >= MinDomains
  BY DEF GlobalSpread
<1>9. TopologyHolds <=>
        /\ InvariantsHold
        /\ \A m \in Range(atts) : Holds(m) /\ IsObject(m.sha256)
        /\ \A a \in attested : a.source_sha = head /\ \A k \in Required \cup {"provider"} : a[k] # Unset
        /\ \E hosts, certs \in SUBSET attested :
             /\ Cardinality(hosts) = MinHosts /\ \A a, b \in hosts : a # b => a.host_id # b.host_id
             /\ Cardinality(certs) = MinCerts
             /\ \A a, b \in certs : a # b => a.cert_fingerprint # b.cert_fingerprint
        /\ Distinct(attested, "region") >= MinRegions /\ Distinct(attested, "fault_domain") >= MinDomains
  BY DEF TopologyHolds, InvariantsHold, attested
<1> QED
  BY <1>2, <1>4, <1>7, <1>8, <1>9

(* The crown holds when each check would pass. *)
LEMMA CrownParts ==
  ASSUME Shaped
  PROVE  CrownHolds <=>
           /\ crown.source = head /\ TreeHolds /\ PowlHolds /\ \A r \in Rail : RailHolds(r)
           /\ GroupsAgree(crown) /\ crown.commands # <<>> /\ \A i \in DOMAIN crown.commands : CommandHolds(i)
           /\ crown.receipts # <<>> /\ \A i \in DOMAIN crown.receipts : ReceiptHolds(i)
           /\ InvariantsHold /\ \A i \in DOMAIN crown.attestations : AttestationKept(i)
           /\ GlobalSpread(AttestedUpTo(Len(crown.attestations))) /\ LastHolds
<1>1. (\A c \in Range(crown.commands) : c.exit = 0 /\ c.command # Unset /\ Holds(c.log))
      <=> \A i \in DOMAIN crown.commands : CommandHolds(i)
  BY DEF Range, CommandHolds
<1>2. (\A e \in Range(crown.receipts) : Holds(e) /\ ReplayMatches(e.sha256))
      <=> \A i \in DOMAIN crown.receipts : ReceiptHolds(i)
  BY DEF Range, ReceiptHolds
<1>3. LastHolds <=> /\ crown.sabotage # NoObject /\ \A s \in RequiredSabotage : s \in DOMAIN crown.sabotage
                    /\ \A s \in DOMAIN crown.sabotage : crown.sabotage[s] = "DETECTED"
                    /\ crown.evidence_hash # "mismatch"
  BY RequestAssumption DEF LastHolds, SabotageDetected, Present, Shaped
<1>4. (crown.powl # NoObject /\ crown.powl.proven /\ crown.powl.cases > 2047 /\ crown.powl.samples > 63 /\ RailsHold)
      <=> PowlHolds /\ (\A r \in Rail : RailHolds(r)) /\ GroupsAgree(crown)
  <2>1. ASSUME \A r \in Rail : RailHolds(r)
        PROVE  \A r \in Rail : crown.rails[r].result_hash = crown.rails[r].result.sha256
    BY <2>1 DEF RailHolds
  <2>2. RailsHold <=>
          /\ DOMAIN crown.rails = Rail /\ \A r \in Rail : RailHolds(r)
          /\ crown.groups # <<>> /\ <<>> \notin Range(crown.groups)
          /\ \A g \in Range(crown.groups) : \A r, s \in Range(g) :
               {r, s} \subseteq Rail /\ crown.rails[r].result.sha256 = crown.rails[s].result.sha256
    BY DEF RailsHold, RailHolds, ArtifactHolds
  <2>3. RailsHold <=> DOMAIN crown.rails = Rail /\ (\A r \in Rail : RailHolds(r)) /\ GroupsAgree(crown)
    BY <2>1, <2>2, GroupsParts
  <2> QED
    BY <2>3 DEF PowlHolds
<1>5. CrownHolds <=>
        /\ crown.source = head /\ TreeHolds
        /\ crown.powl # NoObject /\ crown.powl.proven /\ crown.powl.cases > 2047 /\ crown.powl.samples > 63
        /\ RailsHold
        /\ crown.commands # <<>> /\ crown.receipts # <<>>
        /\ \A c \in Range(crown.commands) : c.exit = 0 /\ c.command # Unset /\ Holds(c.log)
        /\ \A e \in Range(crown.receipts) : Holds(e) /\ ReplayMatches(e.sha256)
        /\ TopologyHolds
        /\ crown.sabotage # NoObject /\ \A s \in RequiredSabotage : s \in DOMAIN crown.sabotage
        /\ \A s \in DOMAIN crown.sabotage : crown.sabotage[s] = "DETECTED"
        /\ crown.evidence_hash # "mismatch"
  BY DEF CrownHolds, TreeHolds
<1> QED
  BY <1>1, <1>2, <1>3, <1>4, <1>5, TopologyParts

(* The parts speak of the evidence, the crown and what it was asked with. *)
LEMMA EvidenceStays ==
  ASSUME UNCHANGED <<file, head, crown, expected>>
  PROVE  /\ Shaped' <=> Shaped
         /\ CrownHolds' <=> CrownHolds
         /\ PassedAt(vpc, index, loaded)' <=> PassedAt(vpc', index', loaded')
<1>1. /\ \A e : Holds(e)' <=> Holds(e)
      /\ TreeHolds' <=> TreeHolds
      /\ PowlHolds' <=> PowlHolds
      /\ InvariantsHold' <=> InvariantsHold
      /\ GroupsAgree(crown)' <=> GroupsAgree(crown)
      /\ \A n : AttestedUpTo(n)' = AttestedUpTo(n)
  BY DEF Holds, TreeHolds, PowlHolds, InvariantsHold, AttestedUpTo
<1>2. /\ \A r : ArtifactHolds(r)' <=> ArtifactHolds(r)
      /\ \A i : CommandHolds(i)' <=> CommandHolds(i)
      /\ \A i : ReceiptHolds(i)' <=> ReceiptHolds(i)
      /\ \A i : AttestationKept(i)' <=> AttestationKept(i)
  BY <1>1 DEF ArtifactHolds, CommandHolds, ReceiptHolds, AttestationKept
<1>3. \A r : RailHolds(r)' <=> RailHolds(r)
  BY <1>1, <1>2 DEF RailHolds
<1>4. Shaped' <=> Shaped
  BY DEF Shaped
<1>5. CrownHolds' <=> CrownHolds
  <2>1. RailsHold' <=> RailsHold
    BY <1>1 DEF RailsHold
  <2>2. TopologyHolds' <=> TopologyHolds
    BY <1>1 DEF TopologyHolds
  <2> QED
    BY <1>1, <2>1, <2>2 DEF CrownHolds
<1>6. PassedAt(vpc, index, loaded)' <=> PassedAt(vpc', index', loaded')
  <2> SUFFICES ASSUME NEW at, NEW n, NEW atts
               PROVE  PassedAt(at, n, atts)' <=> PassedAt(at, n, atts)
    OBVIOUS
  <2> USE DEF AfterRails, AfterGroups, AfterCommands, AfterReceipts, AfterInvariants, AfterAttestations,
              AtAttestations, Rail
  <2>1. PassedIdentity(at, n)' <=> PassedIdentity(at, n)
    BY <1>1 DEF PassedIdentity
  <2>2. PassedRails(at, n)' <=> PassedRails(at, n)
    BY <1>1, <1>2, <1>3 DEF PassedRails
  <2>3. PassedLists(at, n)' <=> PassedLists(at, n)
    BY <1>1, <1>2 DEF PassedLists
  <2>4. PassedTopology(at, n, atts)' <=> PassedTopology(at, n, atts)
    BY <1>1, <1>2 DEF PassedTopology, GlobalSpread, Distinct
  <2> QED
    BY <2>1, <2>2, <2>3, <2>4 DEF PassedAt
<1> QED
  BY <1>4, <1>5, <1>6

LEMMA MatchesHolds == \A e : Matches(e) <=> Holds(e)
BY DEF Matches, Holds

(* What a check decides: it goes on with one more thing shown, or the run    *)
(* ends with a verdict that is right.                                        *)
Decided ==
  \/ vpc' # "idle" /\ verdict' = verdict /\ PassedAt(vpc', index', loaded')
  \/ vpc' = "idle" /\ verdict' = "PARTIAL_ALIVE" /\ ~CrownHolds
  \/ vpc' = "idle" /\ verdict' = "ALIVE" /\ CrownHolds

LEMMA PowlAsked ==
  ASSUME Shaped
  PROVE  PowlHolds <=> /\ Present(crown, "powl") /\ crown.powl.proven
                       /\ crown.powl.cases >= 2048 /\ crown.powl.samples >= 64
                       /\ DOMAIN crown.rails = Rail
<1>1. ASSUME crown.powl # NoObject
      PROVE  /\ crown.powl.cases > 2047 <=> crown.powl.cases >= 2048
             /\ crown.powl.samples > 63 <=> crown.powl.samples >= 64
  <2>1. crown.powl.cases \in Int /\ crown.powl.samples \in Int
    BY <1>1 DEF Shaped
  <2> QED
    BY <2>1
<1> QED
  BY <1>1 DEF PowlHolds, Present

LEMMA RailsListed ==
  /\ Len(RailOrder) \in Nat \ {0} /\ DOMAIN RailOrder = 1..Len(RailOrder)
  /\ 1 \in DOMAIN RailOrder /\ \A i \in DOMAIN RailOrder : i \in Nat \ {0} /\ ~(i < 1)
<1>1. RailOrder \in Seq(Range(RailOrder)) /\ RailOrder # <<>>
  BY ReleaseCrownAssumption, RequestAssumption
<1>2. DOMAIN RailOrder = 1..Len(RailOrder) /\ Len(RailOrder) \in Nat \ {0}
  BY <1>1
<1> QED
  BY <1>2

LEMMA IdentityDecides ==
  ASSUME Shaped, PassedAt(vpc, index, loaded), VerifyHead \/ VerifyTree \/ VerifyPowl
  PROVE  Decided
<1> USE DEF AfterRails, AfterGroups, AfterCommands, AfterReceipts, AfterInvariants, AfterAttestations, AtAttestations,
            PassedAt, PassedIdentity, PassedRails, PassedLists, PassedTopology
<1>1. CASE VerifyHead
  <2>1. vpc = "head" /\ index = 1 /\ loaded = {} /\ index' = index /\ loaded' = loaded
    BY <1>1 DEF VerifyHead, PassedAt
  <2>2. CASE crown.source = head
    BY <1>1, <2>1, <2>2 DEF VerifyHead, Advance, Decided
  <2>3. CASE crown.source # head
    BY <1>1, <2>3, CrownParts DEF VerifyHead, Advance, Decided
  <2> QED
    BY <2>2, <2>3
<1>2. CASE VerifyTree
  <2>1. vpc = "tree" /\ index = 1 /\ loaded = {} /\ index' = index /\ loaded' = loaded /\ crown.source = head
    BY <1>2 DEF VerifyTree, PassedAt
  <2>2. TreeHolds <=> /\ crown.tree = TreeOf[head]
                      /\ expected.source \in {Unset, crown.source} /\ expected.tree \in {Unset, crown.tree}
    BY <2>1 DEF TreeHolds
  <2>3. CASE TreeHolds
    BY <1>2, <2>1, <2>2, <2>3 DEF VerifyTree, Advance, Decided
  <2>4. CASE ~TreeHolds
    BY <1>2, <2>2, <2>4, CrownParts DEF VerifyTree, Advance, Decided
  <2> QED
    BY <2>3, <2>4
<1>3. CASE VerifyPowl
  <2>1. /\ vpc = "powl" /\ index = 1 /\ loaded = {} /\ index' = index /\ loaded' = loaded /\ crown.source = head
        /\ TreeHolds
    BY <1>3 DEF VerifyPowl, PassedAt
  <2>2. PowlHolds <=> /\ Present(crown, "powl") /\ crown.powl.proven
                      /\ crown.powl.cases >= 2048 /\ crown.powl.samples >= 64
                      /\ DOMAIN crown.rails = Rail
    BY PowlAsked
  <2>3. CASE PowlHolds
    <3>1. vpc' = "rail" /\ verdict' = verdict
      BY <1>3, <2>2, <2>3 DEF VerifyPowl, Advance
    <3>2. 1 \in DOMAIN RailOrder /\ \A i \in DOMAIN RailOrder : ~(i < 1)
      BY RailsListed
    <3> QED
      BY <2>1, <2>3, <3>1, <3>2 DEF Decided, PassedAt
  <2>4. CASE ~PowlHolds
    BY <1>3, <2>2, <2>4, CrownParts DEF VerifyPowl, Advance, Decided
  <2> QED
    BY <2>3, <2>4
<1> QED
  BY <1>1, <1>2, <1>3

LEMMA RailsDecide ==
  ASSUME Shaped, PassedAt(vpc, index, loaded), VerifyArtifact \/ HashResult \/ ParseResult
  PROVE  Decided
<1> DEFINE r == RailOrder[index]
<1>1. /\ index \in DOMAIN RailOrder /\ \A i \in DOMAIN RailOrder : i < index => RailHolds(RailOrder[i])
      /\ crown.source = head /\ TreeHolds /\ PowlHolds /\ loaded = {}
  <2>1. vpc \in {"rail", "result", "parse result"}
    BY DEF VerifyArtifact, HashResult, ParseResult
  <2> QED
    BY <2>1 DEF PassedAt, PassedIdentity, PassedRails, PassedTopology, AfterInvariants, AfterReceipts, AfterCommands,
      AfterGroups, AfterRails
<1>2. r \in Rail
  BY <1>1 DEF Rail, Range
<1>3. ~RailHolds(r) => ~CrownHolds
  BY <1>2, CrownParts
<1>4. rail = crown.rails[r] /\ (Matches(rail.artifact) <=> Holds(rail.artifact))
      /\ (Matches(rail.result) <=> Holds(rail.result))
  BY MatchesHolds DEF rail
<1>5. ASSUME NEW at \in {"result", "parse result", "rail"}, NEW n,
             vpc' = at, verdict' = verdict, index' = n, loaded' = loaded, n \in DOMAIN RailOrder,
             \A i \in DOMAIN RailOrder : i < n => RailHolds(RailOrder[i]),
             at \in {"result", "parse result"} => ArtifactHolds(RailOrder[n]),
             at = "parse result" => Holds(crown.rails[RailOrder[n]].result)
      PROVE  Decided
  <2>1. PassedIdentity(at, n)
    BY <1>1 DEF PassedIdentity
  <2>2. PassedRails(at, n)
    BY <1>5 DEF PassedRails, AfterRails, AfterGroups
  <2>3. PassedLists(at, n) /\ PassedTopology(at, n, loaded)
    BY <1>1 DEF PassedLists, PassedTopology, AfterAttestations, AfterInvariants, AfterReceipts, AfterCommands,
      AfterGroups, AfterRails, AtAttestations
  <2> QED
    BY <1>5, <2>1, <2>2, <2>3 DEF PassedAt, Decided
<1>6. CASE VerifyArtifact
  <2>1. index' = index /\ loaded' = loaded
    BY <1>6 DEF VerifyArtifact
  <2>2. CASE ArtifactHolds(r)
    <3>1. vpc' = "result" /\ verdict' = verdict
      BY <1>4, <1>6, <2>2 DEF VerifyArtifact, Advance, ArtifactHolds
    <3> QED
      BY <1>1, <1>5, <2>1, <2>2, <3>1
  <2>3. CASE ~ArtifactHolds(r)
    <3>1. vpc' = "idle" /\ verdict' = "PARTIAL_ALIVE"
      BY <1>4, <1>6, <2>3 DEF VerifyArtifact, Advance, ArtifactHolds
    <3> QED
      BY <1>3, <2>3, <3>1 DEF RailHolds, Decided
  <2> QED
    BY <2>2, <2>3
<1>7. CASE HashResult
  <2>1. index' = index /\ loaded' = loaded /\ ArtifactHolds(r)
    BY <1>7 DEF HashResult, PassedAt, PassedRails
  <2>2. CASE Holds(rail.result)
    <3>1. vpc' = "parse result" /\ verdict' = verdict
      BY <1>4, <1>7, <2>2 DEF HashResult, Advance
    <3> QED
      BY <1>1, <1>4, <1>5, <2>1, <2>2, <3>1
  <2>3. CASE ~Holds(rail.result)
    <3>1. vpc' = "idle" /\ verdict' = "PARTIAL_ALIVE"
      BY <1>4, <1>7, <2>3 DEF HashResult, Advance
    <3> QED
      BY <1>3, <1>4, <2>3, <3>1 DEF RailHolds, Decided
  <2> QED
    BY <2>2, <2>3
<1>8. CASE ParseResult
  <2>1. loaded' = loaded /\ ArtifactHolds(r) /\ Holds(rail.result)
    BY <1>4, <1>8 DEF ParseResult, PassedAt, PassedRails
  <2>2. ResultHolds(file[rail.result.path]) <=> RailHolds(r)
    <3>1. file[rail.result.path] = rail.result.sha256
      BY <2>1 DEF Holds
    <3> QED
      BY <1>4, <2>1, <3>1 DEF ResultHolds, RailHolds
  <2>3. index' = IF index < Len(RailOrder) THEN index + 1 ELSE 1
    BY <1>8 DEF ParseResult, AdvanceAlong
  <2>4. CASE ~RailHolds(r)
    <3>1. vpc' = "idle" /\ verdict' = "PARTIAL_ALIVE"
      BY <1>8, <2>2, <2>4 DEF ParseResult, AdvanceAlong, Advance
    <3> QED
      BY <1>3, <2>4, <3>1 DEF Decided
  <2>5. CASE RailHolds(r) /\ index < Len(RailOrder)
    <3>1. vpc' = "rail" /\ verdict' = verdict
      BY <1>8, <2>2, <2>5 DEF ParseResult, AdvanceAlong, Advance
    <3>2. index + 1 \in DOMAIN RailOrder /\ \A i \in DOMAIN RailOrder : i < index + 1 => i < index \/ i = index
      BY <1>1, <2>5, RailsListed
    <3>3. \A i \in DOMAIN RailOrder : i < index + 1 => RailHolds(RailOrder[i])
      BY <1>1, <2>5, <3>2
    <3> QED
      BY <1>5, <2>1, <2>3, <2>5, <3>1, <3>2, <3>3
  <2>6. CASE RailHolds(r) /\ ~(index < Len(RailOrder))
    <3>1. vpc' = "groups" /\ verdict' = verdict /\ index' = 1
      BY <1>8, <2>2, <2>3, <2>6 DEF ParseResult, AdvanceAlong, Advance
    <3>2. \A i \in DOMAIN RailOrder : i < index \/ i = index
      BY <1>1, <2>6, RailsListed
    <3>3. \A s \in Rail : RailHolds(s)
      BY <1>1, <2>6, <3>2 DEF Rail, Range
    <3>4. PassedIdentity("groups", 1) /\ PassedRails("groups", 1)
      BY <1>1, <3>3 DEF PassedIdentity, PassedRails, AfterGroups
    <3>5. PassedLists("groups", 1) /\ PassedTopology("groups", 1, loaded)
      BY <1>1 DEF PassedLists, PassedTopology, AfterAttestations, AfterInvariants, AfterReceipts, AfterCommands,
        AfterGroups, AfterRails, AtAttestations
    <3> QED
      BY <2>1, <3>1, <3>4, <3>5 DEF PassedAt, Decided
  <2> QED
    BY <2>4, <2>5, <2>6
<1> QED
  BY <1>6, <1>7, <1>8

(* What the rails have shown stays shown. *)
LEMMA RailsPassed ==
  ASSUME PassedAt(vpc, index, loaded), vpc \in AfterGroups, NEW at \in AfterGroups, NEW n,
         at \in {"global", "spread", "sabotage"} => n = 1
  PROVE  /\ crown.source = head /\ TreeHolds /\ PowlHolds /\ \A r \in Rail : RailHolds(r)
         /\ GroupsAgree(crown) /\ crown.commands # <<>>
         /\ PassedIdentity(at, n) /\ PassedRails(at, n)
<1>1. vpc \in AfterRails /\ vpc \notin {"head", "tree", "powl"} /\ at \in AfterRails
      /\ at \notin {"head", "tree", "powl", "rail", "result", "parse result", "groups"}
  BY DEF AfterRails, AfterGroups
<1>2. /\ crown.source = head /\ TreeHolds /\ PowlHolds /\ \A r \in Rail : RailHolds(r)
      /\ GroupsAgree(crown) /\ crown.commands # <<>>
  BY <1>1 DEF PassedAt, PassedIdentity, PassedRails
<1> QED
  BY <1>1, <1>2 DEF PassedIdentity, PassedRails

LEMMA GroupsDecide ==
  ASSUME Shaped, PassedAt(vpc, index, loaded), VerifyGroups
  PROVE  Decided
<1>1. /\ crown.source = head /\ TreeHolds /\ PowlHolds /\ loaded = {} /\ index = 1
      /\ \A r \in Rail : RailHolds(r)
  BY DEF VerifyGroups, PassedAt, PassedIdentity, PassedRails, PassedTopology, AfterInvariants, AfterReceipts,
    AfterCommands, AfterGroups, AfterRails
<1>2. index' = index /\ loaded' = loaded
  BY DEF VerifyGroups
<1>3. CASE GroupsAgree(crown) /\ crown.commands # <<>>
  <2>1. vpc' = "command" /\ verdict' = verdict
    BY <1>3 DEF VerifyGroups, Advance
  <2>2. 1 \in DOMAIN crown.commands /\ \A i \in DOMAIN crown.commands : ~(i < 1)
    BY <1>3 DEF Shaped
  <2>3. PassedIdentity("command", 1) /\ PassedRails("command", 1)
    BY <1>1, <1>3 DEF PassedIdentity, PassedRails
  <2>4. PassedLists("command", 1) /\ PassedTopology("command", 1, {})
    BY <2>2 DEF PassedLists, PassedTopology, AfterAttestations, AfterInvariants, AfterReceipts, AfterCommands,
      AfterGroups, AfterRails, AtAttestations
  <2> QED
    BY <1>1, <1>2, <2>1, <2>3, <2>4 DEF PassedAt, Decided
<1>4. CASE ~(GroupsAgree(crown) /\ crown.commands # <<>>)
  <2>1. vpc' = "idle" /\ verdict' = "PARTIAL_ALIVE"
    BY <1>4 DEF VerifyGroups, Advance
  <2> QED
    BY <1>4, <2>1, CrownParts DEF Decided
<1> QED
  BY <1>3, <1>4

LEMMA CommandDecides ==
  ASSUME Shaped, PassedAt(vpc, index, loaded), VerifyCommand
  PROVE  Decided
<1> DEFINE c == crown.commands[index]
<1>1. vpc = "command" /\ vpc \in AfterGroups
  BY DEF VerifyCommand, AfterGroups, AfterRails
<1>2. /\ index \in DOMAIN crown.commands /\ \A i \in DOMAIN crown.commands : i < index => CommandHolds(i)
      /\ loaded = {}
  BY <1>1 DEF PassedAt, PassedLists, PassedTopology, AfterInvariants, AfterReceipts, AfterCommands
<1>3. DOMAIN crown.commands = 1..Len(crown.commands) /\ Len(crown.commands) \in Nat
  BY DEF Shaped
<1>4. CommandHolds(index) <=> c.exit = 0 /\ Matches(c.log) /\ c.command # Unset
  BY MatchesHolds DEF CommandHolds
<1>5. loaded' = loaded /\ index' = IF index < Len(crown.commands) THEN index + 1 ELSE 1
  BY DEF VerifyCommand, AdvanceAlong
<1>6. CASE ~CommandHolds(index)
  <2>1. vpc' = "idle" /\ verdict' = "PARTIAL_ALIVE"
    BY <1>4, <1>6 DEF VerifyCommand, AdvanceAlong, Advance
  <2> QED
    BY <1>2, <1>6, <2>1, CrownParts DEF Decided
<1>7. CASE CommandHolds(index) /\ index < Len(crown.commands)
  <2>1. vpc' = "command" /\ verdict' = verdict
    BY <1>4, <1>7 DEF VerifyCommand, AdvanceAlong, Advance
  <2>2. index + 1 \in DOMAIN crown.commands
        /\ \A i \in DOMAIN crown.commands : i < index + 1 => i < index \/ i = index
    BY <1>2, <1>3, <1>7
  <2>3. PassedIdentity("command", index + 1) /\ PassedRails("command", index + 1)
    BY <1>1, RailsPassed
  <2>4. PassedLists("command", index + 1) /\ PassedTopology("command", index + 1, {})
    BY <1>2, <1>7, <2>2 DEF PassedLists, PassedTopology, AfterAttestations, AfterInvariants, AfterReceipts,
      AfterCommands, AfterGroups, AfterRails, AtAttestations
  <2> QED
    BY <1>2, <1>5, <1>7, <2>1, <2>3, <2>4 DEF PassedAt, Decided
<1>8. CASE CommandHolds(index) /\ ~(index < Len(crown.commands))
  <2>1. vpc' = "receipts" /\ verdict' = verdict /\ index' = 1
    BY <1>4, <1>5, <1>8 DEF VerifyCommand, AdvanceAlong, Advance
  <2>2. \A i \in DOMAIN crown.commands : i < index \/ i = index
    BY <1>2, <1>3, <1>8
  <2>3. PassedIdentity("receipts", 1) /\ PassedRails("receipts", 1)
    <3>1. "receipts" \in AfterGroups
      BY DEF AfterGroups, AfterRails
    <3> QED
      BY <1>1, <3>1, RailsPassed
  <2>4. /\ crown.receipts # <<>> => 1 \in DOMAIN crown.receipts
        /\ \A i \in DOMAIN crown.receipts : ~(i < 1)
    BY DEF Shaped
  <2>5. PassedLists("receipts", 1) /\ PassedTopology("receipts", 1, {})
    BY <1>2, <1>8, <2>2, <2>4 DEF PassedLists, PassedTopology, AfterAttestations, AfterInvariants, AfterReceipts,
      AfterCommands, AfterGroups, AfterRails, AtAttestations
  <2> QED
    BY <1>2, <1>5, <2>1, <2>3, <2>5 DEF PassedAt, Decided
<1> QED
  BY <1>6, <1>7, <1>8

LEMMA ReceiptsDecide ==
  ASSUME Shaped, PassedAt(vpc, index, loaded), HashReceipt \/ VerifyReplay
  PROVE  Decided
<1> DEFINE e == crown.receipts[index]
<1>1. vpc \in {"receipts", "replay"} /\ vpc \in AfterGroups /\ vpc \in AfterCommands
  BY DEF HashReceipt, VerifyReplay, AfterGroups, AfterRails, AfterCommands
<1>2. /\ crown.receipts # <<>> => index \in DOMAIN crown.receipts
      /\ \A i \in DOMAIN crown.receipts : i < index => ReceiptHolds(i)
      /\ \A i \in DOMAIN crown.commands : CommandHolds(i)
      /\ loaded = {}
  BY <1>1 DEF PassedAt, PassedLists, PassedTopology, AfterInvariants, AfterReceipts
<1>3. DOMAIN crown.receipts = 1..Len(crown.receipts) /\ Len(crown.receipts) \in Nat
  BY DEF Shaped
<1>4. Matches(e) <=> Holds(e)
  BY MatchesHolds
<1>5. loaded' = loaded
  BY DEF HashReceipt, VerifyReplay
<1>6. ASSUME NEW at \in {"receipts", "replay"}, NEW n, vpc' = at, verdict' = verdict, index' = n,
             n \in DOMAIN crown.receipts, \A i \in DOMAIN crown.receipts : i < n => ReceiptHolds(i),
             at = "replay" => crown.receipts # <<>> /\ Holds(crown.receipts[n])
      PROVE  Decided
  <2>1. at \in AfterGroups /\ at \notin {"global", "spread", "sabotage"} /\ at # "idle"
    BY DEF AfterGroups, AfterRails
  <2>2. PassedIdentity(at, n) /\ PassedRails(at, n)
    BY <1>1, <2>1, RailsPassed
  <2>3. PassedLists(at, n) /\ PassedTopology(at, n, {})
    BY <1>2, <1>6 DEF PassedLists, PassedTopology, AfterAttestations, AfterInvariants, AfterReceipts,
      AfterCommands, AfterGroups, AfterRails, AtAttestations
  <2> QED
    BY <1>2, <1>5, <1>6, <2>1, <2>2, <2>3 DEF PassedAt, Decided
<1>7. CASE HashReceipt
  <2>1. index' = index
    BY <1>7 DEF HashReceipt
  <2>2. CASE crown.receipts # <<>> /\ Holds(e)
    <3>1. vpc' = "replay" /\ verdict' = verdict
      BY <1>4, <1>7, <2>2 DEF HashReceipt, Advance
    <3> QED
      BY <1>2, <1>6, <2>1, <2>2, <3>1
  <2>3. CASE ~(crown.receipts # <<>> /\ Holds(e))
    <3>1. vpc' = "idle" /\ verdict' = "PARTIAL_ALIVE"
      BY <1>4, <1>7, <2>3 DEF HashReceipt, Advance
    <3>2. crown.receipts = <<>> \/ ~ReceiptHolds(index)
      BY <2>3 DEF ReceiptHolds
    <3> QED
      BY <1>2, <3>1, <3>2, CrownParts DEF Decided
  <2> QED
    BY <2>2, <2>3
<1>8. CASE VerifyReplay
  <2>1. crown.receipts # <<>> /\ Holds(e) /\ index \in DOMAIN crown.receipts
    BY <1>2, <1>8 DEF VerifyReplay, PassedAt, PassedLists
  <2>2. ReceiptHolds(index) <=> ReplayMatches(file[e.path])
    <3>1. file[e.path] = e.sha256
      BY <2>1 DEF Holds
    <3> QED
      BY <2>1, <3>1 DEF ReceiptHolds
  <2>3. index' = IF index < Len(crown.receipts) THEN index + 1 ELSE 1
    BY <1>8 DEF VerifyReplay, AdvanceAlong
  <2>4. CASE ~ReceiptHolds(index)
    <3>1. vpc' = "idle" /\ verdict' = "PARTIAL_ALIVE"
      BY <1>8, <2>2, <2>4 DEF VerifyReplay, AdvanceAlong, Advance
    <3> QED
      BY <2>1, <2>4, <3>1, CrownParts DEF Decided
  <2>5. CASE ReceiptHolds(index) /\ index < Len(crown.receipts)
    <3>1. vpc' = "receipts" /\ verdict' = verdict
      BY <1>8, <2>2, <2>5 DEF VerifyReplay, AdvanceAlong, Advance
    <3>2. index + 1 \in DOMAIN crown.receipts
          /\ \A i \in DOMAIN crown.receipts : i < index + 1 => i < index \/ i = index
      BY <1>3, <2>1, <2>5
    <3> QED
      BY <1>2, <1>6, <2>3, <2>5, <3>1, <3>2
  <2>6. CASE ReceiptHolds(index) /\ ~(index < Len(crown.receipts))
    <3>1. vpc' = "global" /\ verdict' = verdict /\ index' = 1
      BY <1>8, <2>2, <2>3, <2>6 DEF VerifyReplay, AdvanceAlong, Advance
    <3>2. \A i \in DOMAIN crown.receipts : i < index \/ i = index
      BY <1>3, <2>1, <2>6
    <3>3. PassedIdentity("global", 1) /\ PassedRails("global", 1)
      <4>1. "global" \in AfterGroups
        BY DEF AfterGroups, AfterRails
      <4> QED
        BY <1>1, <4>1, RailsPassed
    <3>4. PassedLists("global", 1) /\ PassedTopology("global", 1, {})
      BY <1>2, <2>1, <2>6, <3>2 DEF PassedLists, PassedTopology, AfterAttestations, AfterInvariants, AfterReceipts,
        AfterCommands, AfterGroups, AfterRails, AtAttestations
    <3> QED
      BY <1>2, <1>5, <3>1, <3>3, <3>4 DEF PassedAt, Decided
  <2> QED
    BY <2>4, <2>5, <2>6
<1> QED
  BY <1>7, <1>8

(* What the lists have shown stays shown. *)
LEMMA ListsPassed ==
  ASSUME PassedAt(vpc, index, loaded), vpc \in AfterReceipts, NEW at \in AfterReceipts, NEW n,
         at \in {"global", "spread", "sabotage"} => n = 1
  PROVE  /\ crown.source = head /\ TreeHolds /\ PowlHolds /\ \A r \in Rail : RailHolds(r)
         /\ GroupsAgree(crown) /\ crown.commands # <<>> /\ \A i \in DOMAIN crown.commands : CommandHolds(i)
         /\ crown.receipts # <<>> /\ \A i \in DOMAIN crown.receipts : ReceiptHolds(i)
         /\ PassedIdentity(at, n) /\ PassedRails(at, n) /\ PassedLists(at, n)
<1>1. vpc \in AfterCommands /\ vpc \in AfterGroups /\ at \in AfterCommands /\ at \in AfterGroups
      /\ at \notin {"command", "receipts", "replay"}
  BY DEF AfterReceipts, AfterCommands, AfterGroups
<1>2. (\A i \in DOMAIN crown.commands : CommandHolds(i)) /\ crown.receipts # <<>>
      /\ \A i \in DOMAIN crown.receipts : ReceiptHolds(i)
  BY <1>1 DEF PassedAt, PassedLists
<1>3. PassedLists(at, n)
  BY <1>1, <1>2 DEF PassedLists
<1> QED
  BY <1>1, <1>2, <1>3, RailsPassed

LEMMA AttestationsListed ==
  ASSUME Shaped
  PROVE  /\ Len(crown.attestations) \in Nat \ {0} /\ DOMAIN crown.attestations = 1..Len(crown.attestations)
         /\ AttestedUpTo(0) = {}
         /\ \A n \in DOMAIN crown.attestations :
              AttestedUpTo(n) = AttestedUpTo(n - 1) \cup {crown.attestations[n].sha256}
<1>1. Len(crown.attestations) \in Nat \ {0} /\ DOMAIN crown.attestations = 1..Len(crown.attestations)
  BY DEF Shaped
<1>2. \A n \in DOMAIN crown.attestations : 1..n = (1..(n - 1)) \cup {n}
  BY <1>1
<1>3. AttestedUpTo(0) = {}
  BY DEF AttestedUpTo
<1> QED
  BY <1>1, <1>2, <1>3 DEF AttestedUpTo

LEMMA InvariantsDecide ==
  ASSUME Shaped, PassedAt(vpc, index, loaded), VerifyInvariants
  PROVE  Decided
<1>1. vpc = "global" /\ vpc \in AfterReceipts
  BY DEF VerifyInvariants, AfterReceipts, AfterCommands, AfterGroups, AfterRails
<1>2. loaded = {} /\ index = 1 /\ index' = index /\ loaded' = loaded
  BY <1>1 DEF VerifyInvariants, PassedAt, PassedIdentity, PassedTopology, AfterInvariants
<1>3. CASE InvariantsHold
  <2>1. vpc' = "attestations" /\ verdict' = verdict
    BY <1>3 DEF VerifyInvariants, Advance, InvariantsHold
  <2>2. PassedIdentity("attestations", 1) /\ PassedRails("attestations", 1) /\ PassedLists("attestations", 1)
    <3>1. "attestations" \in AfterReceipts
      BY DEF AfterReceipts, AfterCommands, AfterGroups, AfterRails
    <3> QED
      BY <1>1, <3>1, ListsPassed
  <2>3. /\ 1 \in DOMAIN crown.attestations /\ AttestedUpTo(1 - 1) = {}
        /\ \A i \in DOMAIN crown.attestations : ~(i < 1)
    BY AttestationsListed
  <2>4. PassedTopology("attestations", 1, {})
    BY <1>3, <2>3 DEF PassedTopology, AfterAttestations, AtAttestations
  <2> QED
    BY <1>2, <2>1, <2>2, <2>4 DEF PassedAt, Decided
<1>4. CASE ~InvariantsHold
  <2>1. vpc' = "idle" /\ verdict' = "PARTIAL_ALIVE"
    BY <1>4 DEF VerifyInvariants, Advance, InvariantsHold
  <2> QED
    BY <1>4, <2>1, CrownParts DEF Decided
<1> QED
  BY <1>3, <1>4

LEMMA AttestationsDecide ==
  ASSUME Shaped, PassedAt(vpc, index, loaded), HashAttestation \/ ParseAttestation
  PROVE  Decided
<1> DEFINE atts == crown.attestations
           m == atts[index]
<1>1. vpc \in AtAttestations /\ vpc \in AfterReceipts /\ vpc \in AfterInvariants
  BY DEF HashAttestation, ParseAttestation, AtAttestations, AfterInvariants, AfterReceipts, AfterCommands, AfterGroups,
    AfterRails
<1>2. /\ index \in DOMAIN atts /\ loaded = AttestedUpTo(index - 1) /\ InvariantsHold
      /\ \A i \in DOMAIN atts : i < index => AttestationKept(i)
  BY <1>1 DEF PassedAt, PassedTopology
<1>3. crown.source = head
  BY <1>1, ListsPassed
<1>4. Matches(m) <=> Holds(m)
  BY MatchesHolds
<1>5. ASSUME NEW at \in AtAttestations, NEW n \in DOMAIN atts, vpc' = at, verdict' = verdict, index' = n,
             loaded' = AttestedUpTo(n - 1), \A i \in DOMAIN atts : i < n => AttestationKept(i),
             at = "parse attestation" => Holds(atts[n])
      PROVE  Decided
  <2>1. /\ at \in AfterReceipts /\ at \in AfterInvariants
        /\ at \notin {"global", "spread", "sabotage", "idle"} /\ at \notin AfterAttestations
    BY DEF AtAttestations, AfterAttestations, AfterInvariants, AfterReceipts, AfterCommands, AfterGroups, AfterRails
  <2>2. PassedIdentity(at, n) /\ PassedRails(at, n) /\ PassedLists(at, n)
    BY <1>1, <2>1, ListsPassed
  <2>3. PassedTopology(at, n, AttestedUpTo(n - 1))
    BY <1>2, <1>5, <2>1 DEF PassedTopology
  <2> QED
    BY <1>5, <2>1, <2>2, <2>3 DEF PassedAt, Decided
<1>6. CASE HashAttestation
  <2>1. index' = index /\ loaded' = loaded
    BY <1>6 DEF HashAttestation
  <2>2. CASE Holds(m)
    <3>1. vpc' = "parse attestation" /\ verdict' = verdict
      BY <1>4, <1>6, <2>2 DEF HashAttestation, Advance
    <3>2. "parse attestation" \in AtAttestations
      BY DEF AtAttestations
    <3> QED
      BY <1>2, <1>5, <2>1, <2>2, <3>1, <3>2
  <2>3. CASE ~Holds(m)
    <3>1. vpc' = "idle" /\ verdict' = "PARTIAL_ALIVE"
      BY <1>4, <1>6, <2>3 DEF HashAttestation, Advance
    <3>2. ~AttestationKept(index)
      BY <2>3 DEF AttestationKept
    <3> QED
      BY <1>2, <3>1, <3>2, CrownParts DEF Decided
  <2> QED
    BY <2>2, <2>3
<1>7. CASE ParseAttestation
  <2> DEFINE a == file[m.path]
  <2>1. Holds(m) /\ a = m.sha256
    BY <1>7 DEF ParseAttestation, PassedAt, PassedTopology, Holds
  <2>2. AttestationKept(index) <=> AttestationHolds(a, crown.source)
    BY <2>1 DEF AttestationKept
  <2>3. index' = IF index < Len(atts) THEN index + 1 ELSE 1
    BY <1>7 DEF ParseAttestation, AdvanceAlong
  <2>4. loaded' = AttestedUpTo(index)
    <3>1. loaded' = loaded \cup {a}
      BY <1>7 DEF ParseAttestation
    <3> QED
      BY <1>2, <2>1, <3>1, AttestationsListed
  <2>5. CASE ~AttestationKept(index)
    <3>1. vpc' = "idle" /\ verdict' = "PARTIAL_ALIVE"
      BY <1>7, <2>2, <2>5 DEF ParseAttestation, AdvanceAlong, Advance
    <3> QED
      BY <1>2, <2>5, <3>1, CrownParts DEF Decided
  <2>6. CASE AttestationKept(index) /\ index < Len(atts)
    <3>1. vpc' = "attestations" /\ verdict' = verdict
      BY <1>7, <2>2, <2>6 DEF ParseAttestation, AdvanceAlong, Advance
    <3>2. /\ index + 1 \in DOMAIN atts /\ (index + 1) - 1 = index
          /\ \A i \in DOMAIN atts : i < index + 1 => i < index \/ i = index
      BY <1>2, <2>6, AttestationsListed
    <3>3. "attestations" \in AtAttestations
      BY DEF AtAttestations
    <3>4. \A i \in DOMAIN atts : i < index + 1 => AttestationKept(i)
      BY <1>2, <2>6, <3>2
    <3>5. index' = index + 1 /\ loaded' = AttestedUpTo((index + 1) - 1)
      BY <2>3, <2>4, <2>6, <3>2
    <3> QED
      BY <1>5, <3>1, <3>2, <3>3, <3>4, <3>5
  <2>7. CASE AttestationKept(index) /\ ~(index < Len(atts))
    <3>1. vpc' = "spread" /\ verdict' = verdict /\ index' = 1
      BY <1>7, <2>2, <2>3, <2>7 DEF ParseAttestation, AdvanceAlong, Advance
    <3>2. index = Len(atts) /\ \A i \in DOMAIN atts : i < index \/ i = index
      BY <1>2, <2>7, AttestationsListed
    <3>3. PassedIdentity("spread", 1) /\ PassedRails("spread", 1) /\ PassedLists("spread", 1)
      <4>1. "spread" \in AfterReceipts
        BY DEF AfterReceipts, AfterCommands, AfterGroups, AfterRails
      <4> QED
        BY <1>1, <4>1, ListsPassed
    <3>4. "spread" \in AfterInvariants /\ "spread" \notin AtAttestations
      BY DEF AtAttestations, AfterInvariants, AfterReceipts, AfterCommands, AfterGroups, AfterRails
    <3>5. PassedTopology("spread", 1, AttestedUpTo(Len(atts)))
      BY <1>2, <2>7, <3>2, <3>4 DEF PassedTopology
    <3> QED
      BY <2>4, <3>1, <3>2, <3>3, <3>5 DEF PassedAt, Decided
  <2> QED
    BY <2>5, <2>6, <2>7
<1> QED
  BY <1>6, <1>7

LEMMA LastDecide ==
  ASSUME Shaped, PassedAt(vpc, index, loaded), VerifySpread \/ VerifySabotageAndSeal
  PROVE  Decided
<1> DEFINE all == AttestedUpTo(Len(crown.attestations))
<1>1. vpc \in {"spread", "sabotage"} /\ vpc \in AfterReceipts /\ vpc \in AfterInvariants /\ vpc \in AfterAttestations
      /\ vpc \notin AtAttestations
  BY DEF VerifySpread, VerifySabotageAndSeal, AtAttestations, AfterAttestations, AfterInvariants, AfterReceipts,
    AfterCommands, AfterGroups, AfterRails
<1>2. InvariantsHold /\ loaded = all /\ index = 1 /\ \A i \in DOMAIN crown.attestations : AttestationKept(i)
  BY <1>1 DEF PassedAt, PassedIdentity, PassedTopology
<1>3. CASE VerifySpread
  <2>1. index' = index /\ loaded' = loaded
    BY <1>3 DEF VerifySpread
  <2>2. CASE GlobalSpread(loaded)
    <3>1. vpc' = "sabotage" /\ verdict' = verdict
      BY <1>3, <2>2 DEF VerifySpread, Advance
    <3>2. "sabotage" \in AfterReceipts /\ "sabotage" \in AfterInvariants /\ "sabotage" \notin AtAttestations
      BY DEF AtAttestations, AfterInvariants, AfterReceipts, AfterCommands, AfterGroups, AfterRails
    <3>3. PassedIdentity("sabotage", 1) /\ PassedRails("sabotage", 1) /\ PassedLists("sabotage", 1)
      BY <1>1, <3>2, ListsPassed
    <3>4. PassedTopology("sabotage", 1, all)
      BY <1>2, <2>2, <3>2 DEF PassedTopology
    <3> QED
      BY <1>2, <2>1, <3>1, <3>3, <3>4 DEF PassedAt, Decided
  <2>3. CASE ~GlobalSpread(loaded)
    <3>1. vpc' = "idle" /\ verdict' = "PARTIAL_ALIVE"
      BY <1>3, <2>3 DEF VerifySpread, Advance
    <3> QED
      BY <1>2, <2>3, <3>1, CrownParts DEF Decided
  <2> QED
    BY <2>2, <2>3
<1>4. CASE VerifySabotageAndSeal
  <2>1. GlobalSpread(all)
    BY <1>2, <1>4 DEF VerifySabotageAndSeal, PassedAt, PassedTopology
  <2>2. CASE LastHolds
    <3>1. vpc' = "idle" /\ verdict' = "ALIVE"
      BY <1>4, <2>2 DEF VerifySabotageAndSeal, LastHolds
    <3> QED
      BY <1>1, <1>2, <2>1, <2>2, <3>1, ListsPassed, CrownParts DEF Decided
  <2>3. CASE ~LastHolds
    <3>1. vpc' = "idle" /\ verdict' = "PARTIAL_ALIVE"
      BY <1>4, <2>3 DEF VerifySabotageAndSeal, LastHolds
    <3> QED
      BY <2>3, <3>1, CrownParts DEF Decided
  <2> QED
    BY <2>2, <2>3
<1> QED
  BY <1>3, <1>4

LEMMA CheckDecides ==
  ASSUME Shaped, PassedAt(vpc, index, loaded), VerifierStep
  PROVE  Decided
BY IdentityDecides, RailsDecide, GroupsDecide, CommandDecides, ReceiptsDecide, InvariantsDecide, AttestationsDecide,
  LastDecide DEF VerifierStep

(* A run that has a next check has no verdict yet. *)
LEMMA CheckRuns == VerifierStep => vpc # "idle" /\ (vpc' # "idle" => verdict' = verdict)
<1> SUFFICES ASSUME VerifierStep PROVE vpc # "idle" /\ (vpc' # "idle" => verdict' = verdict)
  OBVIOUS
<1>1. vpc # "idle"
  BY DEF VerifierStep, VerifyHead, VerifyTree, VerifyPowl, VerifyArtifact, HashResult, ParseResult,
    VerifyGroups, VerifyCommand, HashReceipt, VerifyReplay, VerifyInvariants, HashAttestation, ParseAttestation,
    VerifySpread, VerifySabotageAndSeal
<1>2. CASE VerifySabotageAndSeal
  BY <1>1, <1>2 DEF VerifySabotageAndSeal
<1>3. CASE ~VerifySabotageAndSeal
  BY <1>1, <1>3, VerifierFlow DEF VerifierStep, Moves
<1> QED
  BY <1>2, <1>3

LEMMA ExactStays ==
  ASSUME Exact, UNCHANGED <<crown, expected, vpc, index, loaded, verdict>>,
         UNCHANGED <<file, head, moved>> \/ moved' = TRUE
  PROVE  Exact'
<1>1. Shaped' <=> Shaped
  BY DEF Shaped
<1>2. CASE moved' = TRUE
  BY <1>1, <1>2 DEF Exact, Reading, VerdictExact
<1>3. CASE UNCHANGED <<file, head, moved>>
  BY <1>1, <1>3, EvidenceStays DEF Exact, Reading, VerdictExact
<1> QED
  BY <1>2, <1>3

LEMMA ExactBegins ==
  ASSUME CrownInv, NEW request \in Request, NEW hosts \in Manifests, BeginVerification(request, hosts)
  PROVE  Exact'
<1>1. vpc' = "head" /\ index' = 1 /\ loaded' = {} /\ verdict' = "none"
  BY DEF BeginVerification
<1>2. crown'.attestations \in Seq(Range(crown'.attestations)) /\ crown'.attestations # <<>>
  <2>1. crown'.attestations \in Seq(Range(crown'.attestations)) /\ Len(crown'.attestations) >= 1
    BY ManifestHolds DEF CrownInv
  <2> QED
    BY <2>1
<1> DEFINE c == request.crown
<1>3. \A key \in {"powl", "groups", "commands", "receipts", "evidence_hash"} : crown'[key] = c[key]
  BY RequestAssumption DEF BeginVerification
<1>4. /\ crown'.powl = c.powl /\ crown'.groups = c.groups /\ crown'.commands = c.commands
      /\ crown'.receipts = c.receipts /\ crown'.evidence_hash = c.evidence_hash
  BY <1>3
<1>5. Shaped'
  BY <1>2, <1>4, RequestAssumption DEF Shaped
<1>6. PassedAt("head", 1, {})'
  BY DEF PassedAt, PassedIdentity, PassedRails, PassedLists, PassedTopology, AfterRails, AfterGroups, AfterCommands,
    AfterReceipts, AfterInvariants, AfterAttestations, AtAttestations
<1>7. PassedAt(vpc, index, loaded)'
  BY <1>1, <1>6
<1> QED
  BY <1>1, <1>5, <1>7 DEF Exact, Reading, VerdictExact

LEMMA ExactChecks ==
  ASSUME CrownInv, Exact, VerifierStep
  PROVE  Exact'
<1>1. UNCHANGED <<file, head, crown, expected, moved>>
  BY DEF VerifierStep
<1>2. vpc # "idle" /\ verdict = "none" /\ Shaped /\ Shaped'
  BY <1>1, CheckRuns, EvidenceStays DEF Exact, Reading
<1>3. vpc' # "idle" => verdict' = "none"
  BY <1>2, CheckRuns
<1>4. CASE moved
  BY <1>1, <1>2, <1>3, <1>4 DEF Exact, Reading, VerdictExact
<1>5. CASE ~moved
  <2>1. Decided
    BY <1>2, <1>5, CheckDecides DEF Exact, Reading
  <2>2. vpc' # "idle" => PassedAt(vpc, index, loaded)'
    BY <1>1, <2>1, EvidenceStays DEF Decided
  <2>3. VerdictExact'
    BY <1>1, <1>2, <2>1, EvidenceStays DEF Decided, VerdictExact
  <2> QED
    BY <1>2, <1>3, <2>2, <2>3 DEF Exact, Reading
<1> QED
  BY <1>4, <1>5

LEMMA ExactStep == CrownInv /\ Exact /\ [CrownNext]_crownVars => Exact'
<1> SUFFICES ASSUME CrownInv, Exact, [CrownNext]_crownVars PROVE Exact'
  OBVIOUS
<1>1. CASE Truncate
  BY <1>1, ExactStays DEF Truncate, Write, verifierVars
<1>2. CASE Fill
  BY <1>2, ExactStays DEF Fill, Write, verifierVars
<1>3. CASE Summarise \/ KillQualifier
  BY <1>3, ExactStays DEF Summarise, KillQualifier, verifierVars
<1>4. CASE \E l \in Listing : Qualify(l)
  BY <1>4, ExactStays DEF Qualify, verifierVars
<1>5. CASE \E request \in Request, hosts \in Manifests : BeginVerification(request, hosts)
  BY <1>5, ExactBegins
<1>6. CASE VerifierStep
  BY <1>6, ExactChecks
<1>7. CASE \E p \in FilePath : \E content \in Foreign[p] : Rewrite(p, content)
  BY <1>7, ExactStays DEF Rewrite, Write, verifierVars
<1>8. CASE \E c \in Commit : CheckOut(c)
  BY <1>8, ExactStays DEF CheckOut, verifierVars
<1>9. CASE WriteOutput
  BY <1>9, ExactStays DEF WriteOutput
<1>10. CASE KillVerifier
  <2>1. vpc' = "idle" /\ UNCHANGED <<file, head, crown, expected, verdict, moved>>
    BY <1>10 DEF KillVerifier
  <2> QED
    BY <2>1, EvidenceStays DEF Exact, Reading, VerdictExact
<1>11. CASE UNCHANGED crownVars
  BY <1>11, ExactStays DEF crownVars
<1> QED
  BY <1>1, <1>2, <1>3, <1>4, <1>5, <1>6, <1>7, <1>8, <1>9, <1>10, <1>11 DEF CrownNext, CrownSteps

(* On evidence that does not move while it is read, the verifier says ALIVE  *)
(* of a crown exactly when all of it holds and it is of the source and tree  *)
(* the caller expects, for any crown and any number of rails, commands,      *)
(* receipts and attestations (verify/4, verify-final-crown.py:91-309).       *)
THEOREM CrownVerdictExact == CrownSpec => []VerdictExact
<1>1. CrownInit => Exact
  BY DEF CrownInit, Exact, Reading, VerdictExact
<1>2. Exact => VerdictExact
  BY DEF Exact
<1> QED
  BY <1>1, <1>2, CrownInvariant, ExactStep, PTL DEF CrownSpec
=============================================================================
