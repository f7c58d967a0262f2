----------------------------- MODULE OcelRelay -----------------------------
(***************************************************************************)
(* scripts/emit-ocel.py: a store-and-forward relay.  One run admits the     *)
(* qualification receipt it is given, builds one observation bound to that  *)
(* receipt's bytes, spools it atomically, and then posts the same bytes to  *)
(* a collector when one is configured.                                      *)
(*                                                                          *)
(* An emitter is one run of the script.  Beside it act the producer of the  *)
(* receipt file, the collector and the network, a kill of the run and a     *)
(* crash of the host.  A SHA-256 digest is the content it is taken of, and  *)
(* nothing is assumed of how the file name is put together of run id,       *)
(* sequence and digest: different runs may come to one name.  The identity  *)
(* fields that are not in the file name (activity, authority domain, agent, *)
(* repository) are the one field activity, and the event's timestamp, which *)
(* nothing compares, is left out.                                           *)
(***************************************************************************)
EXTENDS Naturals

CONSTANTS
  Emitter,      \* runs of the script
  Command,      \* command lines: [activity, standing, run_id, sequence, sha, output, wellFormed]
  Receipt,      \* what the receipt file may hold: [subject_sha, standing, exit]
  FileName(_, _, _), \* the file name of a run id, a sequence and a receipt digest, cut to 16 digits
  Output,       \* paths that --output may name
  Nil,          \* no --output, and nothing read or built yet
  Missing,      \* no such file
  Torn,         \* a file that ends half way
  MaxReceipts,  \* bound: times the receipt file is written
  MaxCrashes    \* bound: crashes of the host

ASSUME OcelRelayAssumption ==
  /\ \A c \in Command : /\ c.wellFormed \in BOOLEAN
                        /\ c.sha.upper \in BOOLEAN
                        /\ c.output \in Output \cup {Nil}
  /\ Nil \notin Output /\ Missing # Torn /\ {Missing, Torn} \cap Receipt = {}
  /\ MaxReceipts \in Nat /\ MaxCrashes \in Nat

VARIABLES
  pc,           \* where each run is
  command,      \* its arguments
  raw,          \* the receipt bytes it read
  doc,          \* the observation it built
  temp,         \* its temporary file
  report,       \* what it printed or exited with
  receiptFile,  \* the file --receipt names
  spool,        \* the spool directory: path -> file
  disk,         \* what of it would survive a crash of the host
  wire,         \* runs whose POST has not reached the collector
  reply,        \* what the collector answered each run
  collected,    \* runs whose observation the collector took in
  made,         \* history: receipts that were completely written
  spooled,      \* history: runs that put their observation in the spool
  receipts, crashes  \* counters of the bounds

runVars == <<pc, command, raw, doc, temp, report>>
spoolVars == <<spool, disk, spooled>>
netVars == <<wire, reply, collected>>
receiptVars == <<receiptFile, made, receipts>>
relayVars == <<pc, command, raw, doc, temp, report, receiptFile, spool, disk, wire, reply,
               collected, made, spooled, receipts, crashes>>

(* str.lower() on the admitted source identity. *)
Lower(sha) == [sha EXCEPT !.upper = FALSE]

(* build_ocel/2: the fields of the event's identity.                         *)
BuildOcel(c, bytes) ==
  [activity |-> c.activity, standing |-> c.standing, run_id |-> c.run_id, sequence |-> c.sequence,
   sha |-> Lower(c.sha), receipt |-> bytes]

Document == {BuildOcel(c, r) : c \in Command, r \in Receipt}

File == [doc : Document, synced : BOOLEAN]

ASSUME NoFileAssumption == Missing \notin File

(* The file name: --output, or run id, sequence and receipt digest.          *)
SpoolPath(c, bytes) ==
  IF c.output # Nil THEN c.output ELSE FileName(c.run_id, c.sequence, bytes)

Path == {SpoolPath(c, r) : c \in Command, r \in Receipt}

OutputOf(e) == SpoolPath(command[e], doc[e].receipt)

RelayInit ==
  /\ pc = [e \in Emitter |-> "idle"]
  /\ command = [e \in Emitter |-> Nil]
  /\ raw = [e \in Emitter |-> Nil]
  /\ doc = [e \in Emitter |-> Nil]
  /\ temp = [e \in Emitter |-> Missing]
  /\ report = [e \in Emitter |-> "none"]
  /\ receiptFile = Missing /\ made = {} /\ receipts = 0
  /\ spool = [p \in Path |-> Missing] /\ disk = spool /\ spooled = {}
  /\ wire = {} /\ reply = [e \in Emitter |-> "none"] /\ collected = {}
  /\ crashes = 0

Goto(e, label) == pc' = [pc EXCEPT ![e] = label]

Exit(e, outcome) == Goto(e, "ended") /\ report' = [report EXCEPT ![e] = outcome]

-----------------------------------------------------------------------------
(* main/0 up to the receipt: the arguments are required, non-empty, of the   *)
(* right shape; argparse and require_nonempty/2 exit otherwise.              *)
Start(e, c) ==
  /\ pc[e] = "idle"
  /\ command' = [command EXCEPT ![e] = c]
  /\ IF c.wellFormed THEN Goto(e, "load") /\ UNCHANGED report ELSE Exit(e, "refused")
  /\ UNCHANGED <<raw, doc, temp, receiptVars, spoolVars, netVars, crashes>>

(* load_and_admit_receipt/3 on the bytes of one read.                        *)
Admitted(c, bytes) ==
  /\ bytes \notin {Missing, Torn}
  /\ bytes.subject_sha = Lower(c.sha)
  /\ bytes.standing = c.standing
  /\ bytes.exit = 0

LoadReceipt(e) ==
  /\ pc[e] = "load"
  /\ IF Admitted(command[e], receiptFile)
       THEN Goto(e, "build") /\ raw' = [raw EXCEPT ![e] = receiptFile] /\ UNCHANGED report
       ELSE Exit(e, "refused") /\ UNCHANGED raw
  /\ UNCHANGED <<command, doc, temp, receiptVars, spoolVars, netVars, crashes>>

(* Mutant of BoundReceipt: the digest is taken of the file read once more.   *)
MutantBoundReceiptReread(e) == receiptFile

(* The bytes the observation is bound to: those that were admitted.          *)
BoundReceipt(e) == raw[e]

Build(e) ==
  /\ pc[e] = "build"
  /\ doc' = [doc EXCEPT ![e] = BuildOcel(command[e], BoundReceipt(e))]
  /\ Goto(e, "write")
  /\ UNCHANGED <<command, raw, temp, report, receiptVars, spoolVars, netVars, crashes>>

-----------------------------------------------------------------------------
(* atomic_spool/2: a temporary file is written, synced and renamed.          *)
WriteTemp(e) ==
  /\ pc[e] = "write"
  /\ temp' = [temp EXCEPT ![e] = [doc |-> doc[e], synced |-> FALSE]]
  /\ Goto(e, "sync")
  /\ UNCHANGED <<command, raw, doc, report, receiptVars, spoolVars, netVars, crashes>>

(* Mutant of Fsync: os.fsync is left out.                                    *)
MutantFsyncLeftOut(e) ==
  /\ pc[e] = "sync"
  /\ Goto(e, "replace")
  /\ UNCHANGED <<command, raw, doc, temp, report, receiptVars, spoolVars, netVars, crashes>>

Fsync(e) ==
  /\ pc[e] = "sync"
  /\ temp' = [temp EXCEPT ![e] = [doc |-> @.doc, synced |-> TRUE]]
  /\ Goto(e, "replace")
  /\ UNCHANGED <<command, raw, doc, report, receiptVars, spoolVars, netVars, crashes>>

(* os.replace: readers see the new name at once; the directory is not synced,*)
(* so whether a crash of the host keeps the new entry is open.               *)
Replace(e) ==
  /\ pc[e] = "replace"
  /\ spool' = [spool EXCEPT ![OutputOf(e)] = temp[e]]
  /\ disk' \in {disk, [disk EXCEPT ![OutputOf(e)] = temp[e]]}
  /\ temp' = [temp EXCEPT ![e] = Missing]
  /\ spooled' = spooled \cup {e}
  /\ Goto(e, "post")
  /\ UNCHANGED <<command, raw, doc, report, receiptVars, netVars, crashes>>

-----------------------------------------------------------------------------
(* post_if_configured/1.  OCEL_INGEST_URL is empty, malformed or absolute.   *)
SpoolOnly(e) ==
  /\ pc[e] = "post"
  /\ Exit(e, "spool") \/ Exit(e, "failed")
  /\ UNCHANGED <<command, raw, doc, temp, receiptVars, spoolVars, netVars, crashes>>

Send(e) ==
  /\ pc[e] = "post"
  /\ wire' = wire \cup {e}
  /\ Goto(e, "sent")
  /\ UNCHANGED <<command, raw, doc, temp, report, receiptVars, spoolVars, reply, collected, crashes>>

(* The collector takes the POST in, refuses it, or sends it elsewhere.  A    *)
(* redirect of a POST is followed by urllib with a GET that carries no body. *)
Collect(e) ==
  /\ e \in wire
  /\ wire' = wire \ {e}
  /\ \/ /\ collected' = collected \cup {e}
        /\ reply' = [reply EXCEPT ![e] = "accepted"]
     \/ /\ \E r \in {"rejected", "redirected"} : reply' = [reply EXCEPT ![e] = r]
        /\ UNCHANGED collected
  /\ UNCHANGED <<runVars, receiptVars, spoolVars, crashes>>

(* A 2xx answer, the collector's own or that of the page it redirected to.   *)
Hear(e) ==
  /\ pc[e] = "sent"
  /\ reply[e] \in {"accepted", "redirected"}
  /\ Exit(e, "spool+http")
  /\ UNCHANGED <<command, raw, doc, temp, receiptVars, spoolVars, netVars, crashes>>

(* Mutant of PostFails: the error is logged and the run goes on to its report.*)
MutantPostFailsUnnoticed(e) ==
  /\ pc[e] = "sent"
  /\ Exit(e, "spool+http")
  /\ UNCHANGED <<command, raw, doc, temp, receiptVars, spoolVars, netVars, crashes>>

(* Another status, a broken connection, or nothing for 15 s.                 *)
PostFails(e) ==
  /\ pc[e] = "sent"
  /\ Exit(e, "failed")
  /\ UNCHANGED <<command, raw, doc, temp, receiptVars, spoolVars, netVars, crashes>>

-----------------------------------------------------------------------------
(* The workflow writes the receipt in place: the file is truncated, then full.*)
TruncateReceipt ==
  /\ receipts < MaxReceipts
  /\ receipts' = receipts + 1
  /\ receiptFile' = Torn
  /\ UNCHANGED <<runVars, spoolVars, netVars, made, crashes>>

FillReceipt(r) ==
  /\ receiptFile = Torn
  /\ receiptFile' = r
  /\ made' = made \cup {r}
  /\ UNCHANGED <<runVars, spoolVars, netVars, receipts, crashes>>

Running(e) == pc[e] \notin {"idle", "ended"}

(* The run is killed, or an I/O error ends it; its temporary file stays.     *)
Kill(e) ==
  /\ Running(e)
  /\ Exit(e, "killed")
  /\ UNCHANGED <<command, raw, doc, temp, receiptVars, spoolVars, netVars, crashes>>

(* The host goes down: every run ends, the spool is what the disk holds, and *)
(* a file whose bytes were not synced is torn.                               *)
HostCrash ==
  /\ crashes < MaxCrashes
  /\ crashes' = crashes + 1
  /\ pc' = [e \in Emitter |-> IF Running(e) THEN "ended" ELSE pc[e]]
  /\ report' = [e \in Emitter |-> IF Running(e) THEN "killed" ELSE report[e]]
  /\ disk' = [p \in Path |-> IF disk[p] \in File /\ ~disk[p].synced THEN Torn ELSE disk[p]]
  /\ spool' = disk'
  /\ UNCHANGED <<command, raw, doc, temp, receiptVars, spooled, netVars>>

Step(e) ==
  \/ LoadReceipt(e) \/ Build(e) \/ WriteTemp(e) \/ Fsync(e) \/ Replace(e)
  \/ SpoolOnly(e) \/ Send(e) \/ Hear(e) \/ PostFails(e)

RelayNext ==
  \/ \E e \in Emitter : (\E c \in Command : Start(e, c)) \/ Step(e) \/ Collect(e) \/ Kill(e)
  \/ TruncateReceipt
  \/ \E r \in Receipt : FillReceipt(r)
  \/ HostCrash

RelaySpec == RelayInit /\ [][RelayNext]_relayVars

-----------------------------------------------------------------------------

RelayTypeOK ==
  /\ pc \in [Emitter -> {"idle", "load", "build", "write", "sync", "replace", "post", "sent", "ended"}]
  /\ command \in [Emitter -> Command \cup {Nil}]
  /\ raw \in [Emitter -> Receipt \cup {Nil}]
  /\ doc \in [Emitter -> Document \cup {Nil}]
  /\ temp \in [Emitter -> File \cup {Missing}]
  /\ report \in [Emitter -> {"none", "refused", "spool", "spool+http", "failed", "killed"}]
  /\ receiptFile \in Receipt \cup {Missing, Torn} /\ made \subseteq Receipt
  /\ {spool, disk} \subseteq [Path -> File \cup {Missing, Torn}] /\ spooled \subseteq Emitter
  /\ wire \subseteq Emitter /\ collected \subseteq Emitter
  /\ reply \in [Emitter -> {"none", "accepted", "rejected", "redirected"}]
  /\ receipts \in 0..MaxReceipts /\ crashes \in 0..MaxCrashes

(* "it always writes an atomic local spool artifact" (emit-ocel.py:4): what  *)
(* stands under a name of the spool is a complete observation of a run that  *)
(* chose that name, also after kills and crashes of the host, and when runs  *)
(* that come to one name write and rename beside each other.                 *)
SpoolIsWhole ==
  \A p \in Path : spool[p] # Missing =>
    \E e \in spooled : OutputOf(e) = p /\ spool[p] = [doc |-> doc[e], synced |-> TRUE]

(* No observation leaves the host before it was spooled, and each one is     *)
(* bound to a receipt that was completely written, for the very source and   *)
(* standing the observation states, with a verified crown -- even when the   *)
(* receipt file is rewritten while the run goes on.                          *)
ObservationsAreReceipted ==
  /\ wire \cup collected \subseteq spooled
  /\ \A e \in spooled :
       LET d == doc[e]
       IN  /\ d.receipt \in made
           /\ d.receipt.subject_sha = d.sha /\ d.receipt.standing = d.standing /\ d.receipt.exit = 0

(* What a run reports is what happened: a report of the spool means it is    *)
(* there, one of the collector that the observation was collected or the     *)
(* POST redirected, a refusal that nothing was spooled or sent.              *)
ReportsAreTrue ==
  \A e \in Emitter :
    /\ report[e] \in {"spool", "spool+http", "failed"} => e \in spooled
    /\ report[e] = "spool+http" => e \in collected \/ reply[e] = "redirected"
    /\ report[e] = "refused" => e \notin spooled \cup wire /\ temp[e] = Missing

=============================================================================
