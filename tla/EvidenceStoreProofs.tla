------------------------ MODULE EvidenceStoreProofs ------------------------
(***************************************************************************)
(* The two ETS-backed components that serve any caller: the receipt ledger  *)
(* and the engine's call log.                                               *)
(*                                                                          *)
(* The receipt ledger's tables agree for every set of hashes, subjects and  *)
(* bodies, and after any sequence of puts, replacements and restarts.       *)
(* The inductive invariant is StoreTypeOK, OneReceiptPerHash and            *)
(* IndexesExact together: that a put removes every index entry of the       *)
(* receipt it replaces, and no entry of another, follows only when at most  *)
(* one receipt had that hash and the indexes were exact before.             *)
(*                                                                          *)
(* The call log's buffer keeps the newest envelopes, never overflows        *)
(* unnoticed and loses no call silently, for any number of callers and any  *)
(* capacity.  Its inductive invariant is LogInv, below.                     *)
(***************************************************************************)
EXTENDS EvidenceStore, CallLog, FiniteSetTheorems, WellFoundedInduction, TLAPS

StoreInv == StoreTypeOK /\ OneReceiptPerHash /\ IndexesExact

(* The bag tables and the ledger agree initially (init/1). *)
LEMMA StoreInitInv == StoreInit => StoreInv
BY DEF StoreInit, StoreInv, StoreTypeOK, OneReceiptPerHash, IndexesExact,
       SubjectEntries, ParentEntries

(* A put keeps the types: a nil key never enters an index (handle_call :put).*)
LEMMA PutType ==
  ASSUME StoreInv, NEW r \in Receipt, HandlePut(r)
  PROVE  StoreTypeOK'
<1>1. r.hash \in Hash /\ r.subject_hash \in SubjectHash \cup {Nil}
        /\ r.parent_hash \in Hash \cup {Nil}
  BY DEF Receipt
<1>2. table' \subseteq Receipt
  BY DEF HandlePut, StoreInv, StoreTypeOK, Lookup
<1>3. subject_index' \subseteq SubjectHash \X Hash
  BY <1>1 DEF HandlePut, StoreInv, StoreTypeOK, SubjectEntries
<1>4. parent_index' \subseteq Hash \X Hash
  BY <1>1 DEF HandlePut, StoreInv, StoreTypeOK, ParentEntries
<1> QED
  BY <1>2, <1>3, <1>4 DEF StoreTypeOK

(* A put replaces the receipt of its hash (handle_call :put). *)
LEMMA PutKeyed ==
  ASSUME StoreInv, NEW r \in Receipt, HandlePut(r)
  PROVE  OneReceiptPerHash'
BY DEF HandlePut, StoreInv, OneReceiptPerHash, Lookup

(* A put leaves exact indexes exact, also when it replaces a receipt by one  *)
(* with another subject or parent (handle_call :put).                        *)
LEMMA PutExact ==
  ASSUME StoreInv, NEW r \in Receipt, HandlePut(r)
  PROVE  IndexesExact'
<1> DEFINE existing == Lookup(r.hash)
<1>1. table' = (table \ existing) \cup {r}
  BY DEF HandlePut
<1>2. \A x \in table : x \in existing <=> x.hash = r.hash
  BY DEF Lookup
<1>3. SubjectEntries((table \ existing) \cup {r})
        = (SubjectEntries(table) \ SubjectEntries(existing)) \cup SubjectEntries({r})
  BY <1>2 DEF SubjectEntries, Lookup
<1>4. ParentEntries((table \ existing) \cup {r})
        = (ParentEntries(table) \ ParentEntries(existing)) \cup ParentEntries({r})
  BY <1>2 DEF ParentEntries, Lookup
<1> QED
  BY <1>1, <1>3, <1>4 DEF HandlePut, StoreInv, IndexesExact, SubjectEntries, ParentEntries

(* The invariant is inductive. *)
LEMMA StoreStep == StoreInv /\ [StoreNext]_storeVars => StoreInv'
<1> SUFFICES ASSUME StoreInv, [StoreNext]_storeVars PROVE StoreInv'
  OBVIOUS
<1>1. CASE \E r \in Receipt : HandlePut(r)
  BY <1>1, PutType, PutKeyed, PutExact DEF StoreInv
<1>2. CASE Restart
  BY <1>2 DEF Restart, StoreInv, StoreTypeOK, OneReceiptPerHash, IndexesExact,
              SubjectEntries, ParentEntries
<1>3. CASE UNCHANGED storeVars
  BY <1>3 DEF storeVars, StoreInv, StoreTypeOK, OneReceiptPerHash, IndexesExact,
              SubjectEntries, ParentEntries
<1> QED
  BY <1>1, <1>2, <1>3 DEF StoreNext

(* The ledger's tables always have their types and its indexes are always    *)
(* exact (evidence.ex:115-134).                                              *)
THEOREM StoreIndexesExact == StoreSpec => [](StoreTypeOK /\ IndexesExact)
<1>1. StoreSpec => []StoreInv
  BY StoreInitInv, StoreStep, PTL DEF StoreSpec
<1>2. StoreInv => StoreTypeOK /\ IndexesExact
  BY DEF StoreInv
<1> QED
  BY <1>1, <1>2, PTL

(* Exact indexes answer every query exactly: get_by_subject and              *)
(* get_by_parent return the receipts with that subject or parent, no more    *)
(* and no fewer (evidence.ex:146-154, 177-187).                              *)
THEOREM StoreQueriesExact == StoreSpec => []QueriesExact
<1>1. StoreInv => QueriesExact
  <2> SUFFICES ASSUME StoreInv PROVE QueriesExact
    OBVIOUS
  <2>1. ASSUME NEW s \in SubjectHash
        PROVE  GetBySubject(s) = {r \in table : r.subject_hash = s}
    <3>1. s # Nil
      BY NilAssumption
    <3>2. \A r \in table : r.subject_hash = s <=> <<s, r.hash>> \in subject_index
      BY <3>1 DEF StoreInv, IndexesExact, OneReceiptPerHash, SubjectEntries
    <3> QED
      BY <3>2 DEF GetBySubject, LookupIndex
  <2>2. ASSUME NEW p \in Hash
        PROVE  GetByParent(p) = {r \in table : r.parent_hash = p}
    <3>1. p # Nil
      BY NilAssumption
    <3>2. \A r \in table : r.parent_hash = p <=> <<p, r.hash>> \in parent_index
      BY <3>1 DEF StoreInv, IndexesExact, OneReceiptPerHash, ParentEntries
    <3> QED
      BY <3>2 DEF GetByParent, LookupIndex
  <2> QED
    BY <2>1, <2>2 DEF QueriesExact
<1>2. StoreSpec => []StoreInv
  BY StoreInitInv, StoreStep, PTL DEF StoreSpec
<1> QED
  BY <1>1, <1>2, PTL

-----------------------------------------------------------------------------
(* The call log.                                                             *)

Newer(S, k) == {j \in S : j > k}

(* An envelope that is about to be inserted is new, *)
Fresh ==
  \A c \in Caller :
    /\ stage[c] \in {"insert", "check", "dispatch"} => key[c] \in 1..numbers
    /\ stage[c] = "insert" => key[c] \notin stored \cup doomed
    /\ \A d \in Caller \ {c} : stage[c] = "insert" /\ stage[d] = "insert" => key[c] # key[d]

(* what a trim deletes has Cap newer ones, *)
DoomedAreOld == \A k \in doomed \cap stored : Cardinality(Newer(stored, k)) >= Cap

(* what a trim will leave is not too much, or another one follows, *)
RestIsNoticed ==
  Cardinality(keys \ doomed) > Cap + 1 =>
    trims > 0 \/ (\E c \in Caller : stage[c] = "check") \/ unchecked

(* and who met neither the boot nor the death of the owner finds it there.   *)
OwnerServes ==
  /\ \A c \in Caller \ edge :
       stage[c] \in {"build", "insert", "check", "dispatch", "note"} => owner = "up"
  /\ ~HasTable => keys = {} /\ stored = {}

LogInv ==
  /\ LogTypeOK /\ Fresh /\ NewestKept /\ DoomedAreOld /\ RestIsNoticed
  /\ OwnerServes /\ SilentOnlyAtTheEdges

(* Sets of envelopes are finite sets of numbers. *)
LEMMA EnvelopesFinite ==
  ASSUME LogTypeOK
  PROVE  /\ IsFiniteSet(stored)
         /\ \A S \in SUBSET stored : IsFiniteSet(S) /\ Cardinality(S) \in Nat
         /\ \A k : Newer(stored, k) \in SUBSET stored
<1>1. IsFiniteSet(1..numbers)
  BY FS_Interval DEF LogTypeOK
<1>2. IsFiniteSet(stored)
  BY <1>1, FS_Subset DEF LogTypeOK
<1> QED
  BY <1>2, FS_Subset, FS_CardinalityType DEF Newer

(* A larger set has at least as many newer ones. *)
LEMMA NewerGrows ==
  ASSUME NEW T, IsFiniteSet(T), NEW S \in SUBSET T, NEW k
  PROVE  /\ Cardinality(Newer(S, k)) \in Nat /\ Cardinality(Newer(T, k)) \in Nat
         /\ Cardinality(Newer(S, k)) <= Cardinality(Newer(T, k))
<1>1. Newer(S, k) \in SUBSET Newer(T, k) /\ Newer(T, k) \in SUBSET T
  BY DEF Newer
<1>2. IsFiniteSet(Newer(T, k))
  BY <1>1, FS_Subset
<1> QED
  BY <1>1, <1>2, FS_Subset, FS_CardinalityType

(* What a trim leaves is at most Cap envelopes: the oldest of them has fewer *)
(* than Cap newer ones (trim/0).                                             *)
LEMMA TrimLeavesCap ==
  ASSUME NEW S \in SUBSET Nat, IsFiniteSet(S)
  PROVE  Cardinality(S \ Excess(S)) <= Cap
<1> DEFINE T == S \ Excess(S)
<1> SUFFICES ASSUME T # {} PROVE Cardinality(T) <= Cap
  BY FS_EmptySet, CallLogAssumption
<1>1. PICK m \in T : \A y \in T : ~(<<y, m>> \in OpToRel(<, Nat))
  BY NatLessThanWellFounded, WFMin
<1>2. \A y \in T : y \in Nat /\ m \in Nat /\ ~(y < m)
  BY <1>1 DEF OpToRel
<1>3. T \ {m} \in SUBSET Newer(S, m)
  <2>1. ASSUME NEW y \in T \ {m} PROVE y \in S /\ y > m
    BY <1>2
  <2> QED
    BY <2>1 DEF Newer
<1>4. Newer(S, m) \in SUBSET S
  BY DEF Newer
<1>5. IsFiniteSet(T) /\ IsFiniteSet(Newer(S, m))
  BY <1>4, FS_Subset
<1>6. Cardinality(T \ {m}) <= Cardinality(Newer(S, m)) /\ Cardinality(T) = Cardinality(T \ {m}) + 1
        /\ Cardinality(Newer(S, m)) \in Nat /\ Cardinality(T) \in Nat /\ Cardinality(T \ {m}) \in Nat
  <2>1. IsFiniteSet(T \ {m}) /\ Cardinality(T \ {m}) <= Cardinality(Newer(S, m))
    BY <1>3, <1>5, FS_Subset
  <2>2. Cardinality(T \ {m}) = Cardinality(T) - 1
    BY <1>1, <1>5, FS_RemoveElement
  <2>3. Cardinality(Newer(S, m)) \in Nat /\ Cardinality(T) \in Nat /\ Cardinality(T \ {m}) \in Nat
    BY <1>5, <2>1, FS_CardinalityType
  <2> QED
    BY <2>1, <2>2, <2>3
<1>7. ~(Cardinality(Newer(S, m)) >= Cap)
  BY <1>1 DEF Excess, Newer
<1> QED
  BY <1>6, <1>7, CallLogAssumption

(* The buffer is empty and its owner not started (init/1 has not run). *)
LEMMA LogInitInv == LogInit => LogInv
<1> SUFFICES ASSUME LogInit PROVE LogInv
  OBVIOUS
<1>1. Cardinality({}) = 0
  BY FS_EmptySet
<1>2. LogTypeOK
  <2>1. numbers \in Nat /\ key \in [Caller -> 0..numbers]
    BY DEF LogInit
  <2> QED
    BY <2>1 DEF LogInit, LogTypeOK
<1>3. Fresh /\ NewestKept /\ DoomedAreOld
  BY DEF LogInit, Fresh, NewestKept, DoomedAreOld
<1>4. RestIsNoticed
  <2>1. keys \ doomed = {}
    BY DEF LogInit
  <2> QED
    BY <1>1, <2>1, CallLogAssumption DEF RestIsNoticed
<1>5. OwnerServes /\ SilentOnlyAtTheEdges
  BY DEF LogInit, OwnerServes, SilentOnlyAtTheEdges
<1> QED
  BY <1>2, <1>3, <1>4, <1>5 DEF LogInv

(* Every step keeps the types. *)
LEMMA LogTypeStep == LogInv /\ [LogNext]_logVars => LogTypeOK'
<1> SUFFICES ASSUME LogInv, [LogNext]_logVars PROVE LogTypeOK'
  OBVIOUS
<1> USE DEF LogInv, LogTypeOK, Goto, Return, ownerVars, tableVars, bounds
<1>1. ASSUME NEW c \in Caller, Wrap(c) PROVE LogTypeOK'
  BY <1>1 DEF Wrap
<1>2. ASSUME NEW c \in Caller, EnsureStarted(c) PROVE LogTypeOK'
  BY <1>2 DEF EnsureStarted
<1>3. ASSUME NEW c \in Caller, BuildEnvelope(c) PROVE LogTypeOK'
  BY <1>3 DEF BuildEnvelope
<1>4. ASSUME NEW c \in Caller, Insert(c) PROVE LogTypeOK'
  <2>1. key[c] \in 1..numbers /\ UNCHANGED <<key, owner, trims, doomed, note, numbers, outcome, edge>>
    BY <1>4 DEF Insert, Fresh
  <2>2. keys' \subseteq stored' /\ stored' \subseteq 1..numbers
    BY <1>4, <2>1 DEF Insert
  <2>3. stage' \in [Caller -> {"idle", "ensure", "starting", "build", "insert", "check", "dispatch", "note"}]
    BY <1>4 DEF Insert
  <2> QED
    BY <2>1, <2>2, <2>3
<1>5. ASSUME NEW c \in Caller, Check(c) PROVE LogTypeOK'
  BY <1>5 DEF Check
<1>6. ASSUME NEW c \in Caller, DispatchAndIngest(c) PROVE LogTypeOK'
  BY <1>6 DEF DispatchAndIngest
<1>7. ASSUME NEW c \in Caller, Note(c) PROVE LogTypeOK'
  BY <1>7 DEF Note, HasTable
<1>8. ASSUME NEW c \in Caller, KillCaller(c) PROVE LogTypeOK'
  BY <1>8 DEF KillCaller, Fault
<1>9. CASE CreateTable
  BY <1>9 DEF CreateTable
<1>10. CASE StartRegistry
  BY <1>10 DEF StartRegistry
<1>11. CASE TrimLooks
  <2>1. UNCHANGED <<stage, key, owner, keys, note, stored, numbers, outcome, edge>>
    BY <1>11 DEF TrimLooks
  <2>2. trims' \in Nat
    BY <1>11 DEF TrimLooks
  <2>3. doomed' \subseteq keys
    BY <1>11 DEF TrimLooks, Excess
  <2> QED
    BY <2>1, <2>2, <2>3
<1>12. CASE TrimDeletes
  BY <1>12 DEF TrimDeletes
<1>13. CASE OwnerDies
  BY <1>13 DEF OwnerDies, Fault, InFlight
<1>14. CASE Clear
  BY <1>14 DEF Clear, Fault
<1>15. CASE UNCHANGED logVars
  BY <1>15 DEF logVars
<1> QED
  BY <1>1, <1>2, <1>3, <1>4, <1>5, <1>6, <1>7, <1>8, <1>9, <1>10, <1>11, <1>12, <1>13, <1>14, <1>15
     DEF LogNext

(* A number is given to one envelope only, and that is inserted once. *)
LEMMA FreshStep == LogInv /\ [LogNext]_logVars => Fresh'
<1> SUFFICES ASSUME LogInv, [LogNext]_logVars PROVE Fresh'
  OBVIOUS
<1> USE DEF LogInv, LogTypeOK, Fresh, Goto, Return, ownerVars, tableVars, bounds
<1>1. ASSUME NEW c \in Caller, Wrap(c) PROVE Fresh'
  BY <1>1 DEF Wrap
<1>2. ASSUME NEW c \in Caller, EnsureStarted(c) PROVE Fresh'
  BY <1>2 DEF EnsureStarted
<1>3. ASSUME NEW c \in Caller, BuildEnvelope(c) PROVE Fresh'
  BY <1>3 DEF BuildEnvelope
<1>4. ASSUME NEW c \in Caller, Insert(c) PROVE Fresh'
  BY <1>4 DEF Insert
<1>5. ASSUME NEW c \in Caller, Check(c) PROVE Fresh'
  BY <1>5 DEF Check
<1>6. ASSUME NEW c \in Caller, DispatchAndIngest(c) PROVE Fresh'
  BY <1>6 DEF DispatchAndIngest
<1>7. ASSUME NEW c \in Caller, Note(c) PROVE Fresh'
  BY <1>7 DEF Note
<1>8. ASSUME NEW c \in Caller, KillCaller(c) PROVE Fresh'
  BY <1>8 DEF KillCaller, Fault
<1>9. CASE CreateTable
  BY <1>9 DEF CreateTable
<1>10. CASE StartRegistry
  BY <1>10 DEF StartRegistry
<1>11. CASE TrimLooks
  BY <1>11 DEF TrimLooks, Excess
<1>12. CASE TrimDeletes
  BY <1>12 DEF TrimDeletes
<1>13. CASE OwnerDies
  BY <1>13 DEF OwnerDies, Fault, InFlight
<1>14. CASE Clear
  BY <1>14 DEF Clear, Fault
<1>15. CASE UNCHANGED logVars
  BY <1>15 DEF logVars
<1> QED
  BY <1>1, <1>2, <1>3, <1>4, <1>5, <1>6, <1>7, <1>8, <1>9, <1>10, <1>11, <1>12, <1>13, <1>14, <1>15
     DEF LogNext

(* Only a boot or a death of the owner costs a call its trace. *)
LEMMA EdgesStep == LogInv /\ [LogNext]_logVars => OwnerServes' /\ SilentOnlyAtTheEdges'
<1> SUFFICES ASSUME LogInv, [LogNext]_logVars PROVE OwnerServes' /\ SilentOnlyAtTheEdges'
  OBVIOUS
<1> USE DEF LogInv, LogTypeOK, OwnerServes, SilentOnlyAtTheEdges, HasTable, Goto, Return,
            ownerVars, tableVars, bounds
<1>1. ASSUME NEW c \in Caller, Wrap(c) PROVE OwnerServes' /\ SilentOnlyAtTheEdges'
  BY <1>1 DEF Wrap
<1>2. ASSUME NEW c \in Caller, EnsureStarted(c) PROVE OwnerServes' /\ SilentOnlyAtTheEdges'
  BY <1>2 DEF EnsureStarted
<1>3. ASSUME NEW c \in Caller, BuildEnvelope(c) PROVE OwnerServes' /\ SilentOnlyAtTheEdges'
  BY <1>3 DEF BuildEnvelope
<1>4. ASSUME NEW c \in Caller, Insert(c) PROVE OwnerServes' /\ SilentOnlyAtTheEdges'
  BY <1>4 DEF Insert
<1>5. ASSUME NEW c \in Caller, Check(c) PROVE OwnerServes' /\ SilentOnlyAtTheEdges'
  BY <1>5 DEF Check
<1>6. ASSUME NEW c \in Caller, DispatchAndIngest(c) PROVE OwnerServes' /\ SilentOnlyAtTheEdges'
  BY <1>6 DEF DispatchAndIngest
<1>7. ASSUME NEW c \in Caller, Note(c) PROVE OwnerServes' /\ SilentOnlyAtTheEdges'
  BY <1>7 DEF Note
<1>8. ASSUME NEW c \in Caller, KillCaller(c) PROVE OwnerServes' /\ SilentOnlyAtTheEdges'
  BY <1>8 DEF KillCaller, Fault
<1>9. CASE CreateTable
  BY <1>9 DEF CreateTable
<1>10. CASE StartRegistry
  BY <1>10 DEF StartRegistry
<1>11. CASE TrimLooks
  BY <1>11 DEF TrimLooks
<1>12. CASE TrimDeletes
  BY <1>12 DEF TrimDeletes
<1>13. CASE OwnerDies
  BY <1>13 DEF OwnerDies, Fault, InFlight
<1>14. CASE Clear
  BY <1>14 DEF Clear, Fault
<1>15. CASE UNCHANGED logVars
  BY <1>15 DEF logVars
<1> QED
  BY <1>1, <1>2, <1>3, <1>4, <1>5, <1>6, <1>7, <1>8, <1>9, <1>10, <1>11, <1>12, <1>13, <1>14, <1>15
     DEF LogNext

(* An envelope leaves the buffer, or is about to, with Cap newer ones. *)
LEMMA KeptStep == LogInv /\ [LogNext]_logVars => NewestKept' /\ DoomedAreOld'
<1> SUFFICES ASSUME LogInv, [LogNext]_logVars PROVE NewestKept' /\ DoomedAreOld'
  OBVIOUS
<1> USE DEF LogInv, Goto, Return, ownerVars, tableVars, bounds
<1>1. CASE UNCHANGED <<keys, stored, doomed>>
  BY <1>1 DEF NewestKept, DoomedAreOld, Newer
<1>2. CASE stored' = {} /\ keys' = {}
  BY <1>2 DEF NewestKept, DoomedAreOld, Newer, LogTypeOK
<1>3. ASSUME NEW c \in Caller, Insert(c), HasTable PROVE NewestKept' /\ DoomedAreOld'
  <2>1. stored' = stored \cup {key[c]} /\ keys' = keys \cup {key[c]} /\ UNCHANGED doomed
    BY <1>3 DEF Insert
  <2>2. key[c] \notin doomed
    BY <1>3 DEF Insert, Fresh
  <2>3. IsFiniteSet(stored') /\ stored \in SUBSET stored'
    BY <2>1, EnvelopesFinite, FS_AddElement
  <2>4. ASSUME NEW k, Cardinality(Newer(stored, k)) >= Cap
        PROVE  Cardinality(Newer(stored', k)) >= Cap
    BY <2>3, <2>4, NewerGrows, CallLogAssumption
  <2>5. \A k \in stored' \ keys' : k \in stored \ keys
    BY <2>1
  <2>6. \A k \in doomed' \cap stored' : k \in doomed \cap stored
    BY <2>1, <2>2
  <2>7. NewestKept'
    BY <2>4, <2>5 DEF NewestKept, Newer
  <2> QED
    BY <2>4, <2>6, <2>7 DEF DoomedAreOld
<1>4. CASE TrimLooks
  <2>1. UNCHANGED <<keys, stored>> /\ doomed' = Excess(keys)
    BY <1>4 DEF TrimLooks
  <2>2. \A k \in doomed' : Cardinality(Newer(keys, k)) >= Cap
    BY <2>1 DEF Excess, Newer
  <2>3. \A k : /\ Cardinality(Newer(keys, k)) \in Nat /\ Cardinality(Newer(stored, k)) \in Nat
               /\ Cardinality(Newer(keys, k)) <= Cardinality(Newer(stored, k))
    BY EnvelopesFinite, NewerGrows DEF LogTypeOK
  <2>4. \A k \in doomed' : Cardinality(Newer(stored, k)) >= Cap
    BY <2>2, <2>3, CallLogAssumption
  <2> QED
    BY <2>1, <2>4 DEF NewestKept, DoomedAreOld, Newer
<1>5. CASE TrimDeletes
  <2>1. UNCHANGED stored /\ \E k \in doomed : doomed' = doomed \ {k} /\ keys' = keys \ {k}
    BY <1>5 DEF TrimDeletes
  <2> QED
    BY <2>1 DEF NewestKept, DoomedAreOld, Newer
<1>6. \/ UNCHANGED <<keys, stored, doomed>>
      \/ stored' = {} /\ keys' = {}
      \/ \E c \in Caller : Insert(c) /\ HasTable
      \/ TrimLooks \/ TrimDeletes
  BY DEF LogNext, logVars, Wrap, EnsureStarted, BuildEnvelope, Insert, Check, DispatchAndIngest, Note,
         KillCaller, CreateTable, StartRegistry, OwnerDies, Clear
<1> QED
  BY <1>1, <1>2, <1>3, <1>4, <1>5, <1>6

(* Too many envelopes that no trim has on its list are somebody's business. *)
LEMMA NoticedStep == LogInv /\ [LogNext]_logVars => RestIsNoticed'
<1> SUFFICES ASSUME LogInv, [LogNext]_logVars PROVE RestIsNoticed'
  OBVIOUS
<1> USE DEF LogInv, Goto, Return, ownerVars, tableVars, bounds
<1> DEFINE Watched == trims > 0 \/ (\E c \in Caller : stage[c] = "check") \/ unchecked
<1>1. CASE keys' \ doomed' = keys \ doomed /\ (Watched => Watched')
  BY <1>1 DEF RestIsNoticed
<1>2. CASE keys' = {}
  <2>1. keys' \ doomed' = {}
    BY <1>2
  <2> QED
    BY <2>1, FS_EmptySet, CallLogAssumption DEF RestIsNoticed
<1>3. CASE Watched'
  BY <1>3 DEF RestIsNoticed
<1>4. ASSUME NEW c \in Caller, Check(c) PROVE RestIsNoticed'
  <2>1. UNCHANGED <<keys, doomed, owner>>
    BY <1>4 DEF Check
  <2>2. CASE keys = {}
    BY <2>1, <2>2, <1>2
  <2>3. CASE keys # {}
    <3>1. HasTable /\ owner # "none"
      BY <2>3 DEF OwnerServes, HasTable
    <3>2. keys \ doomed \in SUBSET keys /\ IsFiniteSet(keys)
      BY EnvelopesFinite DEF LogTypeOK
    <3>3. Cardinality(keys \ doomed) <= Cardinality(keys) /\ Cardinality(keys) \in Nat
            /\ Cardinality(keys \ doomed) \in Nat
      BY <3>2, FS_Subset, FS_CardinalityType
    <3>4. CASE Cardinality(keys \ doomed) > Cap + 1
      <4>1. Cardinality(keys) + (IF note THEN 1 ELSE 0) > Cap + 1
        BY <3>3, <3>4, CallLogAssumption
      <4>2. trims' = trims + 1
        BY <1>4, <3>1, <4>1 DEF Check, Overfull
      <4>3. trims' > 0
        BY <4>2 DEF LogTypeOK
      <4> QED
        BY <4>3, <1>3
    <3> QED
      BY <2>1, <3>4 DEF RestIsNoticed
  <2> QED
    BY <2>2, <2>3
<1>5. CASE TrimLooks
  <2>1. keys' \ doomed' = keys \ Excess(keys)
    BY <1>5 DEF TrimLooks
  <2>2. keys \in SUBSET Nat /\ IsFiniteSet(keys)
    BY EnvelopesFinite DEF LogTypeOK
  <2>3. Cardinality(keys \ Excess(keys)) <= Cap /\ Cardinality(keys \ Excess(keys)) \in Nat
    BY <2>2, TrimLeavesCap, FS_Subset, FS_CardinalityType
  <2> QED
    BY <2>1, <2>3, CallLogAssumption DEF RestIsNoticed
<1>6. CASE TrimDeletes
  <2>1. PICK k \in doomed : doomed' = doomed \ {k} /\ keys' = keys \ {k}
    BY <1>6 DEF TrimDeletes
  <2>2. keys' \ doomed' = keys \ doomed /\ UNCHANGED <<trims, stage, unchecked>>
    BY <1>6, <2>1 DEF TrimDeletes
  <2> QED
    BY <2>2, <1>1
<1>7. ASSUME NEW c \in Caller, Insert(c) PROVE RestIsNoticed'
  <2>1. CASE HasTable
    <3>1. stage'[c] = "check"
      BY <1>7, <2>1 DEF Insert, LogTypeOK
    <3> QED
      BY <3>1, <1>3
  <2>2. CASE ~HasTable
    <3>1. keys' \ doomed' = keys \ doomed /\ UNCHANGED <<trims, unchecked>> /\ stage' = [stage EXCEPT ![c] = "note"]
      BY <1>7, <2>2 DEF Insert
    <3>2. Watched => Watched'
      BY <1>7, <3>1 DEF Insert, LogTypeOK
    <3> QED
      BY <1>1, <3>1, <3>2
  <2> QED
    BY <2>1, <2>2
<1>8. ASSUME NEW c \in Caller, Wrap(c) \/ EnsureStarted(c) \/ BuildEnvelope(c) \/ DispatchAndIngest(c) \/ Note(c)
      PROVE  RestIsNoticed'
  <2>1. UNCHANGED <<keys, doomed, trims, unchecked>>
    BY <1>8 DEF Wrap, EnsureStarted, BuildEnvelope, DispatchAndIngest, Note
  <2>2. stage[c] # "check" /\ \A d \in Caller \ {c} : stage'[d] = stage[d]
    BY <1>8 DEF Wrap, EnsureStarted, BuildEnvelope, DispatchAndIngest, Note, LogTypeOK
  <2>3. Watched => Watched'
    BY <2>1, <2>2
  <2> QED
    BY <1>1, <2>1, <2>3
<1>9. ASSUME NEW c \in Caller, KillCaller(c) PROVE RestIsNoticed'
  <2>1. UNCHANGED <<keys, doomed, trims>>
    BY <1>9 DEF KillCaller
  <2>2. CASE stage[c] = "check"
    BY <1>9, <2>2, <1>3 DEF KillCaller
  <2>3. CASE stage[c] # "check"
    <3>1. \A d \in Caller \ {c} : stage'[d] = stage[d]
      BY <1>9 DEF KillCaller, LogTypeOK
    <3>2. unchecked => unchecked'
      BY <1>9 DEF KillCaller
    <3>3. Watched => Watched'
      BY <2>1, <2>3, <3>1, <3>2
    <3> QED
      BY <1>1, <2>1, <3>3
  <2> QED
    BY <2>2, <2>3
<1>10. CASE CreateTable
  BY <1>10, <1>1 DEF CreateTable
<1>11. CASE StartRegistry
  <2>1. UNCHANGED <<keys, doomed, trims, unchecked>>
    BY <1>11 DEF StartRegistry
  <2>2. \A d \in Caller : stage[d] = "check" => stage'[d] = "check"
    BY <1>11 DEF StartRegistry
  <2>3. Watched => Watched'
    BY <2>1, <2>2
  <2> QED
    BY <1>1, <2>1, <2>3
<1>12. CASE OwnerDies
  BY <1>12, <1>2 DEF OwnerDies
<1>13. CASE Clear
  BY <1>13, <1>2 DEF Clear
<1>14. CASE UNCHANGED logVars
  BY <1>14, <1>1 DEF logVars
<1> QED
  BY <1>4, <1>5, <1>6, <1>7, <1>8, <1>9, <1>10, <1>11, <1>12, <1>13, <1>14 DEF LogNext

(* The invariant of the call log, for any callers, capacity and deaths. *)
LEMMA CallLogInvariant == LogSpec => []LogInv
<1>1. LogInv /\ [LogNext]_logVars => LogInv'
  BY LogTypeStep, FreshStep, EdgesStep, KeptStep, NoticedStep DEF LogInv
<1> QED
  BY <1>1, LogInitInv, PTL DEF LogSpec

(* The call log keeps its types; the envelopes in the table are ones that    *)
(* were stored, numbered from one on (call_log.ex:171-213).                  *)
THEOREM CallLogTypeOK == LogSpec => []LogTypeOK
<1>1. LogInv => LogTypeOK
  BY DEF LogInv
<1> QED
  BY <1>1, CallLogInvariant, PTL

(* An envelope is only trimmed when Cap newer ones were stored, in whatever  *)
(* order callers insert while a trim goes on (trim/0, call_log.ex:272-283).  *)
THEOREM CallLogNewestKept == LogSpec => []NewestKept
<1>1. LogInv => NewestKept
  BY DEF LogInv
<1> QED
  BY <1>1, CallLogInvariant, PTL

(* Whoever overfills the buffer asks for a trim, unless it is killed between *)
(* the insert and the look at the size (store/1, call_log.ex:209-213).       *)
THEOREM CallLogOverflowIsNoticed == LogSpec => []OverflowIsNoticed
<1>1. LogInv => OverflowIsNoticed
  <2> SUFFICES ASSUME LogInv, Cardinality(keys) > Cap + 1, doomed = {}
               PROVE  trims > 0 \/ (\E c \in Caller : stage[c] = "check") \/ unchecked
    BY DEF OverflowIsNoticed
  <2>1. keys \ doomed = keys
    OBVIOUS
  <2> QED
    BY <2>1 DEF LogInv, RestIsNoticed
<1> QED
  BY <1>1, CallLogInvariant, PTL

(* A call that leaves neither its envelope nor a note met the owner while    *)
(* another caller was starting it, or while it died (call_log.ex:241-262).   *)
THEOREM CallLogSilentOnlyAtTheEdges == LogSpec => []SilentOnlyAtTheEdges
<1>1. LogInv => SilentOnlyAtTheEdges
  BY DEF LogInv
<1> QED
  BY <1>1, CallLogInvariant, PTL
=============================================================================
