--------------------------- MODULE EvidenceStore ---------------------------
(***************************************************************************)
(* Ex4pm.Evidence.Store: the receipt ledger, a GenServer that owns one ETS  *)
(* table keyed by receipt hash and two bag tables that index the receipts   *)
(* by subject hash and by parent hash (lib/ex4pm/evidence.ex:78-202).       *)
(*                                                                          *)
(* The table is a set of receipts, at most one per hash; an index is the    *)
(* set of its {key, hash} entries.  Any receipt-shaped map may be put; Brce  *)
(* models the same ledger for receipts that are content-addressed.          *)
(***************************************************************************)
EXTENDS Naturals

CONSTANTS
  Hash,          \* receipt hashes
  SubjectHash,   \* subject hashes
  Body,          \* whatever else a receipt carries
  Nil            \* Elixir's nil: a receipt without subject or without parent

ASSUME NilAssumption == Nil \notin Hash /\ Nil \notin SubjectHash

VARIABLES
  table,          \* :ets set    {hash, receipt}
  subject_index,  \* :ets bag    {subject_hash, hash}
  parent_index    \* :ets bag    {parent_hash, hash}

storeVars == <<table, subject_index, parent_index>>

(* A receipt-shaped map, as far as the ledger looks into it. *)
Receipt == [hash : Hash,
            subject_hash : SubjectHash \cup {Nil},
            parent_hash : Hash \cup {Nil},
            body : Body]

-----------------------------------------------------------------------------

(* :ets.lookup(table, hash): no receipt or one. *)
Lookup(h) == {r \in table : r.hash = h}

(* The index entries of the receipts S; insert_index_entry and               *)
(* delete_index_entry leave a nil key alone.                                 *)
SubjectEntries(S) == {<<r.subject_hash, r.hash>> : r \in {x \in S : x.subject_hash # Nil}}

ParentEntries(S) == {<<r.parent_hash, r.hash>> : r \in {x \in S : x.parent_hash # Nil}}

(* lookup_index: the receipts the index names, through the table. *)
LookupIndex(index, key) == {r \in table : <<key, r.hash>> \in index}

GetBySubject(s) == LookupIndex(subject_index, s)

GetByParent(p) == LookupIndex(parent_index, p)

-----------------------------------------------------------------------------

StoreInit ==
  /\ table = {}
  /\ subject_index = {}
  /\ parent_index = {}

(* Mutant of HandlePut: the replaced receipt's index entries stay.           *)
MutantPutKeepsStaleEntries(r) ==
  /\ table' = (table \ Lookup(r.hash)) \cup {r}
  /\ subject_index' = subject_index \cup SubjectEntries({r})
  /\ parent_index' = parent_index \cup ParentEntries({r})

(* handle_call({:put, receipt}): replaces the receipt of the same hash, and  *)
(* drops the replaced receipt's index entries before it inserts the new ones.*)
HandlePut(r) ==
  LET existing == Lookup(r.hash)
  IN  /\ table' = (table \ existing) \cup {r}
      /\ subject_index' = (subject_index \ SubjectEntries(existing)) \cup SubjectEntries({r})
      /\ parent_index' = (parent_index \ ParentEntries(existing)) \cup ParentEntries({r})

(* The three tables are owned by the process and die with it; the supervisor *)
(* restarts it with the empty tables of init/1.                              *)
Restart ==
  /\ table' = {}
  /\ subject_index' = {}
  /\ parent_index' = {}

StoreNext ==
  \/ \E r \in Receipt : HandlePut(r)
  \/ Restart

StoreSpec == StoreInit /\ [][StoreNext]_storeVars

-----------------------------------------------------------------------------

(* The three tables hold receipts and index entries of the right shape; in   *)
(* particular no index ever holds an entry under nil.                        *)
StoreTypeOK ==
  /\ table \subseteq Receipt
  /\ subject_index \subseteq SubjectHash \X Hash
  /\ parent_index \subseteq Hash \X Hash

(* The ledger is keyed by hash: no two receipts share one. *)
OneReceiptPerHash == \A x, y \in table : x.hash = y.hash => x = y

(* "Keep the secondary indexes exact even if a caller replaces an existing   *)
(* hash" (evidence.ex:116): the entries of an index are those of the         *)
(* receipts in the table and no other.                                       *)
IndexesExact ==
  /\ subject_index = SubjectEntries(table)
  /\ parent_index = ParentEntries(table)

(* What a caller sees of it: get_by_subject and get_by_parent return exactly *)
(* the receipts of the ledger with that subject or that parent, also after   *)
(* a receipt was replaced by one with another subject or parent.             *)
QueriesExact ==
  /\ \A s \in SubjectHash : GetBySubject(s) = {r \in table : r.subject_hash = s}
  /\ \A p \in Hash : GetByParent(p) = {r \in table : r.parent_hash = p}

=============================================================================
