------------------------- MODULE ReactorRuntimeProofs -------------------------
(***************************************************************************)
(* Executing a partial order in a Reactor, for every set of tasks, every    *)
(* edge list, every concurrency limit and any number of failures.           *)
(*                                                                          *)
(* One inductive invariant, TypeOK /\ RuntimeInv.  That alive means all is  *)
(* about the collector, which waits for the terminal tasks only: RuntimeInv *)
(* adds that whatever was started has all its predecessors done, so the     *)
(* tasks that are not done form a set in which each one has a successor,    *)
(* and an order without a cycle has no such set but the empty one.  That    *)
(* only orders without a cycle are executed is about Kahn's rounds: they    *)
(* keep every set of tasks in which each has a predecessor in the set, and  *)
(* lose a task each when there is none.                                     *)
(***************************************************************************)
EXTENDS ReactorRuntime, FiniteSetTheorems, TLAPS

-----------------------------------------------------------------------------
(* Induction over the naturals, for a set of numbers: a set that is not      *)
(* empty has a least one.                                                    *)
LEMMA Least ==
  ASSUME NEW S \in SUBSET Nat, S # {}
  PROVE  \E x \in S : \A y \in S : x <= y
<1> DEFINE R == OpToRel(<, Nat)
<1>1. \E x \in S : \A y \in S : <<y, x>> \notin R
  <2>1. IsWellFoundedOn(R, Nat)
    BY NatLessThanWellFounded
  <2> HIDE DEF R
  <2> QED
    BY <2>1, WFMin
<1>2. \A x, y \in Nat : y < x => <<y, x>> \in R
  BY DEF OpToRel
<1> HIDE DEF R
<1>3. PICK x \in S : \A y \in S : <<y, x>> \notin R
  BY <1>1
<1>4. ASSUME NEW y \in S PROVE x <= y
  <2>1. x \in Nat /\ y \in Nat /\ ~ (y < x)
    BY <1>2, <1>3
  <2> QED
    BY <2>1
<1> QED
  BY <1>4

LEMMA NatSetInduction ==
  ASSUME NEW S \in SUBSET Nat, 0 \in S, \A k \in S : k + 1 \in S
  PROVE  S = Nat
<1> SUFFICES ASSUME Nat \ S # {} PROVE FALSE
  OBVIOUS
<1>1. PICK k \in Nat \ S : \A j \in Nat \ S : k <= j
  BY Least
<1>2. k # 0 /\ k - 1 \in Nat /\ k - 1 \notin Nat \ S
  BY <1>1
<1> QED
  BY <1>2

(* A non-empty finite set in which each member has a successor holds one in  *)
(* which each has a predecessor: the smallest of its kind, as a member       *)
(* without a predecessor could be left out.                                  *)
Closed(S, R) == S # {} /\ \A t \in S : \E s \in S : <<t, s>> \in R

LEMMA SmallestClosed ==
  ASSUME NEW S, IsFiniteSet(S), NEW R, Closed(S, R)
  PROVE  \E T \in SUBSET S : Closed(T, R) /\ \A s \in T : \E t \in T : <<t, s>> \in R
<1> DEFINE Kind == {T \in SUBSET S : Closed(T, R)}
           Sizes == {Cardinality(T) : T \in Kind}
<1>1. \A T \in Kind : IsFiniteSet(T) /\ Cardinality(T) \in Nat
  BY FS_Subset, FS_CardinalityType
<1>2. Sizes \in SUBSET Nat /\ Sizes # {}
  BY <1>1
<1> HIDE DEF Sizes
<1>3. PICK n \in Sizes : \A k \in Sizes : n <= k
  BY <1>2, Least
<1>4. PICK T \in Kind : Cardinality(T) = n
  BY <1>3 DEF Sizes
<1>5. ASSUME NEW s \in T PROVE \E t \in T : <<t, s>> \in R
  <2> SUFFICES ASSUME \A t \in T : <<t, s>> \notin R PROVE FALSE
    OBVIOUS
  <2>1. PICK u \in T : <<s, u>> \in R
    BY DEF Closed
  <2>2. u # s
    BY <2>1
  <2>3. Closed(T \ {s}, R)
    BY <2>1, <2>2 DEF Closed
  <2>4. T \ {s} \in Kind
    BY <2>3
  <2>5. Cardinality(T \ {s}) \in Sizes
    BY <2>4 DEF Sizes
  <2>6. Cardinality(T \ {s}) = Cardinality(T) - 1
    BY <1>1, FS_RemoveElement
  <2> HIDE DEF Kind
  <2> QED
    BY <1>1, <1>3, <1>4, <2>5, <2>6
<1> QED
  BY <1>4, <1>5

(* NoCycle, in terms of such sets. *)
Acyclic(R) == \A S \in SUBSET Task : ~ Closed(S, R)

LEMMA NoCycleIsAcyclic ==
  NoCycle <=> Acyclic(edges)
BY DEF NoCycle, Acyclic, Closed

-----------------------------------------------------------------------------
(* Kahn's rounds: Round's recursive left exists, by induction over its       *)
(* domain, and each round is what survives of the round before.              *)
Rest(S) == {t \in S : Degree(S, t) > 0}

Kept(left) ==
  /\ DOMAIN left = 0 .. Cardinality(Task) /\ left[0] = Task
  /\ \A n \in 1 .. Cardinality(Task) : left[n] = Rest(left[n - 1])

LEMMA Rounds == Kept(Round)
<1> DEFINE Is(f, k) == f = [n \in 0 .. k |-> IF n = 0 THEN Task ELSE Rest(f[n - 1])]
           Some == {k \in Nat : \E f : Is(f, k)}
<1>1. Some = Nat
  <2>1. 0 \in Some
    <3> DEFINE f == [n \in 0 .. 0 |-> Task]
    <3>1. f = [n \in 0 .. 0 |-> IF n = 0 THEN Task ELSE Rest(f[n - 1])]
      OBVIOUS
    <3> HIDE DEF f
    <3> QED
      BY <3>1
  <2>2. ASSUME NEW k \in Some PROVE k + 1 \in Some
    <3>1. PICK f : Is(f, k)
      OBVIOUS
    <3> DEFINE g == [n \in 0 .. k + 1 |-> IF n <= k THEN f[n] ELSE Rest(f[k])]
    <3>2. k \in Nat
      OBVIOUS
    <3>3. ASSUME NEW n \in 0 .. k + 1 PROVE g[n] = IF n = 0 THEN Task ELSE Rest(g[n - 1])
      <4>1. CASE n = 0
        BY <3>1, <3>2, <4>1
      <4>2. CASE n \in 1 .. k
        <5>1. g[n] = f[n] /\ g[n - 1] = f[n - 1]
          BY <3>2, <4>2
        <5>2. f[n] = Rest(f[n - 1])
          BY <3>1, <3>2, <4>2
        <5> QED
          BY <4>2, <5>1, <5>2
      <4>3. CASE n = k + 1
        <5>1. g[n] = Rest(f[k]) /\ g[n - 1] = f[k]
          BY <3>2, <4>3
        <5> QED
          BY <3>2, <4>3, <5>1
      <4> QED
        BY <3>2, <4>1, <4>2, <4>3
    <3>4. g = [n \in 0 .. k + 1 |-> g[n]]
      OBVIOUS
    <3> HIDE DEF g
    <3>5. Is(g, k + 1)
      BY <3>3, <3>4
    <3> QED
      BY <3>2, <3>5
  <2> HIDE DEF Some
  <2> QED
    BY <2>1, <2>2, NatSetInduction DEF Some
<1>2. Cardinality(Task) \in Nat
  BY ReactorRuntimeAssumption, FS_CardinalityType
<1>3. \E f : Is(f, Cardinality(Task))
  BY <1>1, <1>2
<1>4. Is(CHOOSE f : Is(f, Cardinality(Task)), Cardinality(Task))
  BY <1>3, Zenon
<1>5. Round = CHOOSE f : Is(f, Cardinality(Task))
  BY Zenon DEF Round, Rest
<1>6. Is(Round, Cardinality(Task))
  BY <1>4, <1>5
<1> QED
  BY <1>2, <1>6 DEF Kept

(* A task survives a round when one that is left precedes it. *)
LEMMA Surviving ==
  ASSUME edges \subseteq Task \X Task, NEW S \in SUBSET Task
  PROVE  Rest(S) = {t \in S : \E p \in S : <<p, t>> \in edges}
<1>1. IsFiniteSet(edges)
  BY ReactorRuntimeAssumption, FS_Product, FS_Subset
<1>2. ASSUME NEW t \in S PROVE Degree(S, t) > 0 <=> \E p \in S : <<p, t>> \in edges
  <2> DEFINE into == {e \in edges : e[1] \in S /\ e[2] = t}
  <2>1. IsFiniteSet(into)
    BY <1>1, FS_Subset
  <2>2. Cardinality(into) \in Nat /\ (Cardinality(into) = 0 <=> into = {})
    BY <2>1, FS_CardinalityType, FS_EmptySet
  <2>3. into # {} <=> \E p \in S : <<p, t>> \in edges
    <3>1. ASSUME NEW e \in into PROVE e[1] \in S /\ <<e[1], t>> \in edges
      <4>1. e = <<e[1], e[2]>>
        OBVIOUS
      <4> QED
        BY <4>1
    <3>2. ASSUME NEW p \in S, <<p, t>> \in edges PROVE <<p, t>> \in into
      BY <3>2
    <3> HIDE DEF into
    <3> QED
      BY <3>1, <3>2
  <2>4. Degree(S, t) = Cardinality(into)
    BY DEF Degree
  <2> HIDE DEF into
  <2> QED
    BY <2>2, <2>3, <2>4
<1> QED
  BY <1>2 DEF Rest

(* The rounds never take a task back, *)
Sinking(left) ==
  /\ \A n \in 0 .. Cardinality(Task) : left[n] \subseteq Task
  /\ \A m, n \in 0 .. Cardinality(Task) : m <= n => left[n] \subseteq left[m]

LEMMA RoundsSink ==
  ASSUME NEW left, Kept(left)
  PROVE  Sinking(left)
<1> DEFINE N == Cardinality(Task)
           Some == {n \in Nat : n <= N => \A m \in 0 .. n : left[n] \subseteq left[m]}
<1>1. N \in Nat
  BY ReactorRuntimeAssumption, FS_CardinalityType
<1> HIDE DEF N
<1>2. ASSUME NEW n \in 1 .. N PROVE left[n] \subseteq left[n - 1]
  BY DEF Kept, Rest, N
<1>3. Some = Nat
  <2>1. 0 \in Some
    <3>1. \A m \in 0 .. 0 : m = 0
      OBVIOUS
    <3> QED
      BY <3>1
  <2>2. ASSUME NEW n \in Some PROVE n + 1 \in Some
    <3> SUFFICES ASSUME n + 1 <= N, NEW m \in 0 .. n + 1 PROVE left[n + 1] \subseteq left[m]
      OBVIOUS
    <3>1. n \in Nat /\ n <= N
      BY <1>1
    <3>2. n + 1 \in 1 .. N /\ (n + 1) - 1 = n
      BY <1>1, <3>1
    <3>3. left[n + 1] \subseteq left[n]
      BY <1>2, <3>2
    <3>4. m \in 0 .. n \/ m = n + 1
      BY <3>1
    <3>5. m \in 0 .. n => left[n] \subseteq left[m]
      BY <3>1
    <3> QED
      BY <3>3, <3>4, <3>5
  <2> HIDE DEF Some
  <2> QED
    BY <2>1, <2>2, NatSetInduction DEF Some
<1>4. ASSUME NEW m \in 0 .. N, NEW n \in 0 .. N, m <= n PROVE left[n] \subseteq left[m]
  <2>1. n \in Some /\ n <= N /\ m \in 0 .. n
    BY <1>1, <1>3, <1>4
  <2> QED
    BY <2>1
<1>5. left[0] = Task /\ 0 \in 0 .. N /\ \A n \in 0 .. N : 0 <= n
  BY <1>1 DEF Kept
<1> QED
  BY <1>4, <1>5 DEF Sinking, N

(* keep every set of tasks in which each has a predecessor, *)
LEMMA CyclesStay ==
  ASSUME edges \subseteq Task \X Task, NEW left, Kept(left), NEW S \in SUBSET Task,
         \A t \in S : \E p \in S : <<p, t>> \in edges
  PROVE  S \subseteq left[Cardinality(Task)]
<1> DEFINE N == Cardinality(Task)
           Some == {n \in Nat : n <= N => S \subseteq left[n]}
<1>1. N \in Nat
  BY ReactorRuntimeAssumption, FS_CardinalityType
<1>2. Sinking(left)
  BY RoundsSink
<1> HIDE DEF N
<1>3. 0 \in Some
  BY DEF Kept
<1>4. ASSUME NEW n \in Some PROVE n + 1 \in Some
  <2> SUFFICES ASSUME n + 1 <= N PROVE S \subseteq left[n + 1]
    OBVIOUS
  <2>1. n \in 0 .. N /\ n + 1 \in 1 .. N /\ (n + 1) - 1 = n
    BY <1>1
  <2>2. S \subseteq left[n] /\ left[n] \subseteq Task
    BY <1>1, <1>2, <2>1 DEF Sinking, N
  <2>3. left[n + 1] = Rest(left[n])
    BY <2>1 DEF Kept, N
  <2>4. left[n + 1] = {t \in left[n] : \E p \in left[n] : <<p, t>> \in edges}
    BY <2>2, <2>3, Surviving
  <2> QED
    BY <2>2, <2>4
<1> HIDE DEF Some
<1>5. Some = Nat
  BY <1>3, <1>4, NatSetInduction DEF Some
<1>6. N \in Some
  BY <1>1, <1>5
<1> QED
  BY <1>1, <1>6 DEF Some, N

(* and when there is none, consume every task: one per round at least. *)
LEMMA RoundsConsume ==
  ASSUME edges \subseteq Task \X Task, NEW left, Kept(left),
         \A S \in SUBSET Task : S # {} => \E t \in S : \A p \in S : <<p, t>> \notin edges
  PROVE  left[Cardinality(Task)] = {}
<1> DEFINE N == Cardinality(Task)
           Some == {n \in Nat : n <= N => Cardinality(left[n]) <= N - n}
<1>1. N \in Nat
  BY ReactorRuntimeAssumption, FS_CardinalityType
<1>2. ASSUME NEW n \in 0 .. N
      PROVE  left[n] \subseteq Task /\ IsFiniteSet(left[n]) /\ Cardinality(left[n]) \in Nat
  <2>1. left[n] \subseteq Task
    BY RoundsSink DEF Sinking
  <2> QED
    BY <2>1, ReactorRuntimeAssumption, FS_Subset, FS_CardinalityType
<1>3. left[0] = Task
  BY DEF Kept
<1> HIDE DEF N
<1>4. 0 \in Some
  BY <1>1, <1>3 DEF N
<1>5. ASSUME NEW n \in Some PROVE n + 1 \in Some
  <2> SUFFICES ASSUME n + 1 <= N PROVE Cardinality(left[n + 1]) <= N - (n + 1)
    OBVIOUS
  <2>1. n \in 0 .. N /\ n + 1 \in 0 .. N /\ n + 1 \in 1 .. N /\ (n + 1) - 1 = n
    BY <1>1
  <2>2. left[n + 1] = {t \in left[n] : \E p \in left[n] : <<p, t>> \in edges}
    <3>1. left[n + 1] = Rest(left[n])
      BY <2>1 DEF Kept, N
    <3> QED
      BY <1>2, <2>1, <3>1, Surviving
  <2>3. CASE left[n] = {}
    <3>1. left[n + 1] = {}
      BY <2>2, <2>3
    <3> QED
      BY <1>1, <2>1, <3>1, FS_EmptySet
  <2>4. CASE left[n] # {}
    <3>1. PICK t \in left[n] : \A p \in left[n] : <<p, t>> \notin edges
      BY <1>2, <2>1, <2>4
    <3>2. left[n + 1] \subseteq left[n] \ {t}
      BY <2>2, <3>1
    <3>3. IsFiniteSet(left[n] \ {t}) /\ Cardinality(left[n] \ {t}) = Cardinality(left[n]) - 1
      BY <1>2, <2>1, FS_RemoveElement
    <3>4. Cardinality(left[n + 1]) <= Cardinality(left[n]) - 1
      BY <3>2, <3>3, FS_Subset
    <3>5. Cardinality(left[n]) <= N - n /\ Cardinality(left[n]) \in Nat /\ Cardinality(left[n + 1]) \in Nat
      BY <1>1, <1>2, <2>1
    <3> QED
      BY <1>1, <2>1, <3>4, <3>5
  <2> QED
    BY <2>3, <2>4
<1> HIDE DEF Some
<1>6. Some = Nat
  BY <1>4, <1>5, NatSetInduction DEF Some
<1>7. N \in Some
  BY <1>1, <1>6
<1>8. Cardinality(left[N]) <= N - N /\ N \in 0 .. N
  BY <1>1, <1>7 DEF Some
<1>9. Cardinality(left[N]) = 0
  BY <1>1, <1>2, <1>8
<1> QED
  BY <1>2, <1>8, <1>9, FS_EmptySet DEF N

(* POWL.new/3 admits the partial orders of known tasks and nothing else. *)
LEMMA AdmittedAreOrders ==
  ASSUME edges \in Candidate
  PROVE  Admitted <=> edges \subseteq Task \X Task /\ NoCycle
<1>1. \A e \in edges : e = <<e[1], e[2]>>
  BY ReactorRuntimeAssumption
<1>2. Kept(Round)
  BY Rounds
<1>3. ASSUME Admitted PROVE edges \subseteq Task \X Task /\ NoCycle
  <2>1. edges \subseteq Task \X Task
    <3> SUFFICES ASSUME NEW e \in edges PROVE e \in Task \X Task
      OBVIOUS
    <3>1. e[1] \in Task /\ e[2] \in Task /\ e = <<e[1], e[2]>>
      BY <1>1, <1>3 DEF Admitted
    <3> QED
      BY <3>1
  <2>2. ASSUME NEW S \in SUBSET Task, Closed(S, edges) PROVE FALSE
    <3>1. IsFiniteSet(S)
      BY ReactorRuntimeAssumption, FS_Subset
    <3>2. PICK T \in SUBSET S : Closed(T, edges) /\ \A s \in T : \E t \in T : <<t, s>> \in edges
      BY <2>2, <3>1, SmallestClosed
    <3>3. T \subseteq Round[Cardinality(Task)]
      BY <1>2, <2>1, <3>2, CyclesStay
    <3> QED
      BY <1>3, <3>2, <3>3 DEF Admitted, Closed
  <2> QED
    BY <2>1, <2>2, NoCycleIsAcyclic DEF Acyclic
<1>4. ASSUME edges \subseteq Task \X Task, NoCycle PROVE Admitted
  <2>1. ASSUME NEW e \in edges PROVE e[1] # e[2] /\ e[1] \in Task /\ e[2] \in Task
    <3>1. e = <<e[1], e[2]>> /\ e[1] \in Task /\ e[2] \in Task
      BY <1>1, <1>4
    <3>2. e[1] # e[2]
      <4> SUFFICES ASSUME e[1] = e[2] PROVE FALSE
        OBVIOUS
      <4>1. <<e[1], e[1]>> \in edges
        BY <3>1
      <4>2. PICK t \in {e[1]} : \A s \in {e[1]} : <<t, s>> \notin edges
        <5>1. {e[1]} \in SUBSET Task /\ {e[1]} # {}
          BY <3>1
        <5> QED
          BY <1>4, <5>1, Zenon DEF NoCycle
      <4> QED
        BY <4>1, <4>2
    <3> QED
      BY <3>1, <3>2
  <2>2. ASSUME NEW S \in SUBSET Task, S # {} PROVE \E t \in S : \A p \in S : <<p, t>> \notin edges
    <3> SUFFICES ASSUME \A t \in S : \E p \in S : <<p, t>> \in edges PROVE FALSE
      OBVIOUS
    <3> DEFINE R == {<<e[2], e[1]>> : e \in edges}
    <3>1. \A s, t : <<s, t>> \in R <=> <<t, s>> \in edges
      BY <1>1
    <3> HIDE DEF R
    <3>2. Closed(S, R)
      BY <2>2, <3>1 DEF Closed
    <3>3. IsFiniteSet(S)
      BY ReactorRuntimeAssumption, FS_Subset
    <3>4. PICK T \in SUBSET S : Closed(T, R) /\ \A s \in T : \E t \in T : <<t, s>> \in R
      BY <3>2, <3>3, SmallestClosed
    <3>5. Closed(T, edges)
      BY <3>1, <3>4 DEF Closed
    <3> QED
      BY <1>4, <3>5, NoCycleIsAcyclic DEF Acyclic
  <2>3. Round[Cardinality(Task)] = {}
    BY <1>2, <1>4, <2>2, RoundsConsume
  <2> QED
    BY <2>1, <2>3 DEF Admitted
<1> QED
  BY <1>3, <1>4

-----------------------------------------------------------------------------
(* POWL.layers/1: the round that drops t, and only it, has t in its layer.   *)
Dropped(left, t, n) == n \in 1 .. Cardinality(Task) /\ t \in left[n - 1] /\ t \notin left[n]

LEMMA DroppedOnce ==
  ASSUME NEW left, Kept(left), left[Cardinality(Task)] = {}, NEW t \in Task
  PROVE  \E n : Dropped(left, t, n) /\ \A m : Dropped(left, t, m) => m = n
<1> DEFINE N == Cardinality(Task)
           Gone == {n \in 0 .. N : t \notin left[n]}
<1>1. N \in Nat
  BY ReactorRuntimeAssumption, FS_CardinalityType
<1>2. Sinking(left)
  BY RoundsSink
<1>3. left[0] = Task
  BY DEF Kept
<1> HIDE DEF N
<1>4. N \in Gone /\ Gone \subseteq Nat
  BY <1>1 DEF N
<1>5. PICK n \in Gone : \A m \in Gone : n <= m
  BY <1>4, Least
<1>6. n # 0 /\ n \in 1 .. N /\ n - 1 \in 0 .. N /\ n - 1 \notin Gone
  BY <1>1, <1>3, <1>5
<1>7. Dropped(left, t, n)
  BY <1>5, <1>6 DEF Dropped, N
<1>8. ASSUME NEW m, Dropped(left, t, m) PROVE m = n
  <2>1. m \in 1 .. N /\ m - 1 \in 0 .. N /\ m \in Gone /\ t \in left[m - 1]
    BY <1>1, <1>8 DEF Dropped, N
  <2>2. n <= m
    BY <1>5, <2>1
  <2>3. ~ (n <= m - 1)
    BY <1>2, <1>5, <1>6, <2>1 DEF Sinking, N
  <2> QED
    BY <1>6, <2>1, <2>2, <2>3
<1> QED
  BY <1>7, <1>8

LEMMA LayersAreDrops ==
  ASSUME NEW t \in Task, Kept(Round)
  PROVE  \A k : k \in DOMAIN Layers /\ t \in Layers[k] <=> Dropped(Round, t, k)
<1> DEFINE left == Round
<1> HIDE DEF left
<1>1. Layers = [k \in {n \in 1 .. Cardinality(Task) : left[n - 1] # {}} |-> left[k - 1] \ left[k]]
  BY Zenon DEF Layers, left
<1> QED
  BY <1>1 DEF Dropped, left

(* Where a task stands against its predecessors. *)
LEMMA PredecessorsFirst ==
  ASSUME edges \subseteq Task \X Task, NEW left, Kept(left), NEW t \in Task, NEW n, Dropped(left, t, n)
  PROVE  /\ \A p \in DependencyArguments(t) : \A m : Dropped(left, p, m) => m < n
         /\ n > 1 => \E p \in DependencyArguments(t) : \A m : Dropped(left, p, m) => m + 1 = n
<1> DEFINE N == Cardinality(Task)
<1>1. N \in Nat
  BY ReactorRuntimeAssumption, FS_CardinalityType
<1>2. Sinking(left)
  BY RoundsSink
<1>3. ASSUME NEW m \in 1 .. N
      PROVE  left[m] = {s \in left[m - 1] : \E p \in left[m - 1] : <<p, s>> \in edges}
  <2>1. m - 1 \in 0 .. N
    BY <1>1
  <2>2. left[m - 1] \subseteq Task
    BY <1>2, <2>1 DEF Sinking
  <2>3. left[m] = Rest(left[m - 1])
    BY DEF Kept
  <2> QED
    BY <2>2, <2>3, Surviving
<1> HIDE DEF N
<1>4. n \in 1 .. N /\ n - 1 \in 0 .. N /\ t \in left[n - 1] /\ t \notin left[n]
  BY <1>1 DEF Dropped, N
<1>5. ASSUME NEW p, NEW m, Dropped(left, p, m)
      PROVE  m \in 1 .. N /\ m \in 0 .. N /\ m - 1 \in 0 .. N /\ p \in left[m - 1] /\ p \notin left[m]
  BY <1>1, <1>5 DEF Dropped, N
<1>6. ASSUME NEW p \in DependencyArguments(t), NEW m, Dropped(left, p, m) PROVE m < n
  <2> SUFFICES ASSUME n - 1 <= m - 1 PROVE FALSE
    BY <1>4, <1>5, <1>6
  <2>1. p \in left[n - 1]
    BY <1>2, <1>4, <1>5, <1>6 DEF Sinking, N
  <2>2. <<p, t>> \in edges
    BY DEF DependencyArguments
  <2> QED
    BY <1>3, <1>4, <2>1, <2>2
<1>7. ASSUME n > 1
      PROVE  \E p \in DependencyArguments(t) : \A m : Dropped(left, p, m) => m + 1 = n
  <2>1. n - 1 \in 1 .. N /\ (n - 1) - 1 = n - 2 /\ n - 2 \in 0 .. N
    BY <1>1, <1>4, <1>7
  <2>2. PICK p \in left[n - 2] : <<p, t>> \in edges
    BY <1>3, <1>4, <2>1
  <2>3. p \in DependencyArguments(t)
    <3>1. p \in Task
      BY <1>2, <2>1 DEF Sinking, N
    <3> QED
      BY <2>2, <3>1 DEF DependencyArguments
  <2>4. ASSUME NEW m, Dropped(left, p, m) PROVE m + 1 = n
    <3>1. m < n
      BY <1>6, <2>3, <2>4
    <3>2. ~ (m <= n - 2)
      BY <1>2, <1>5, <2>1, <2>2, <2>4 DEF Sinking, N
    <3> QED
      BY <1>4, <1>5, <2>4, <3>1, <3>2
  <2> QED
    BY <2>3, <2>4
<1> QED
  BY <1>6, <1>7

(* What is admitted is layered in its order. *)
LEMMA AdmittedAreLayered ==
  ASSUME edges \in Candidate, Admitted
  PROVE  LayersOrder
<1> DEFINE layers == Layers
           at(t) == CHOOSE k \in DOMAIN layers : t \in layers[k]
           In(t) == {k \in DOMAIN layers : t \in layers[k]}
<1>1. Kept(Round) /\ Round[Cardinality(Task)] = {} /\ edges \subseteq Task \X Task
  BY Rounds, AdmittedAreOrders DEF Admitted
<1>2. ASSUME NEW t \in Task
      PROVE  Cardinality(In(t)) = 1 /\ Dropped(Round, t, at(t)) /\ \A n : Dropped(Round, t, n) => n = at(t)
  <2>1. PICK n : Dropped(Round, t, n) /\ \A m : Dropped(Round, t, m) => m = n
    BY <1>1, DroppedOnce
  <2>2. \A k : k \in DOMAIN layers /\ t \in layers[k] <=> Dropped(Round, t, k)
    BY <1>1, LayersAreDrops
  <2> HIDE DEF layers
  <2>3. In(t) = {n}
    BY <2>1, <2>2
  <2>4. at(t) \in DOMAIN layers /\ t \in layers[at(t)]
    <3>1. \E k \in DOMAIN layers : t \in layers[k]
      BY <2>1, <2>2
    <3> QED
      BY <3>1, Zenon
  <2>5. Dropped(Round, t, at(t))
    BY <2>2, <2>4
  <2> HIDE DEF at, In
  <2> QED
    BY <2>1, <2>3, <2>5, FS_Singleton
<1>3. ASSUME NEW t \in Task
      PROVE  /\ \A p \in DependencyArguments(t) : at(p) < at(t)
             /\ at(t) > 1 => \E p \in DependencyArguments(t) : at(p) + 1 = at(t)
  <2>1. \A p \in DependencyArguments(t) : p \in Task
    BY DEF DependencyArguments
  <2> HIDE DEF at, In
  <2>2. Dropped(Round, t, at(t)) /\ \A p \in DependencyArguments(t) : Dropped(Round, p, at(p))
    BY <1>2, <2>1
  <2> QED
    BY <1>1, <2>2, PredecessorsFirst
<1>4. \A t \in Task :
        /\ Cardinality(In(t)) = 1
        /\ \A p \in DependencyArguments(t) : at(p) < at(t)
        /\ at(t) > 1 => \E p \in DependencyArguments(t) : at(p) + 1 = at(t)
  <2> HIDE DEF at, In
  <2> QED
    BY <1>2, <1>3
<1> QED
  BY <1>4, Zenon DEF LayersOrder

-----------------------------------------------------------------------------
(* The initial state: nothing started. *)
LEMMA InitRuntimeInv == Init => TypeOK /\ RuntimeInv
  BY ReactorRuntimeAssumption
  DEF Init, TypeOK, RuntimeInv, TaskInv, OrderInv, VerdictInv

(* Every action keeps the types. *)
LEMMA TypeStep ==
  ASSUME TypeOK, TaskInv, [Next]_vars
  PROVE  TypeOK'
<1> USE ReactorRuntimeAssumption DEF TypeOK
<1>1. CASE Compile
  BY <1>1 DEF Compile
<1>2. CASE Collect
  BY <1>2 DEF Collect
<1>3. CASE TimeOut
  BY <1>3 DEF TimeOut
<1>4. CASE Answer
  BY <1>4 DEF Answer
<1>5. ASSUME NEW t \in Task, Start(t) PROVE TypeOK'
  BY <1>5 DEF Start, TaskInv
<1>6. ASSUME NEW t \in Task, RefuseAuthority(t) PROVE TypeOK'
  BY <1>6 DEF RefuseAuthority
<1>7. ASSUME NEW t \in Task, PutIntent(t) PROVE TypeOK'
  BY <1>7 DEF PutIntent, Fault
<1>8. ASSUME NEW t \in Task, Act(t) PROVE TypeOK'
  BY <1>8 DEF Act
<1>9. ASSUME NEW t \in Task, Raise(t) PROVE TypeOK'
  BY <1>9 DEF Raise, Fault
<1>10. ASSUME NEW t \in Task, PutOutcome(t) PROVE TypeOK'
  BY <1>10 DEF PutOutcome, Fault
<1>11. ASSUME NEW t \in Task, NoticeFailure(t) PROVE TypeOK'
  BY <1>11 DEF NoticeFailure
<1>12. CASE UNCHANGED vars
  BY <1>12 DEF vars
<1> QED
  BY <1>1, <1>2, <1>3, <1>4, <1>5, <1>6, <1>7, <1>8, <1>9, <1>10, <1>11, <1>12
  DEF Next, Step, Done

(* What one action does to one task: nothing for the other tasks, and for    *)
(* its own a step forward.                                                   *)
LEMMA TaskStep ==
  ASSUME TypeOK, TaskInv, [Next]_vars
  PROVE  /\ TaskInv'
         /\ edges' = edges
         /\ \A t \in Task : st[t] = "done" => st'[t] = "done"
         /\ \A t \in Task : st'[t] # "waiting" =>
              st[t] # "waiting" \/ \A p \in DependencyArguments(t) : st[p] = "done"
<1> DEFINE Good ==
      /\ TaskInv'
      /\ edges' = edges
      /\ \A t \in Task : st[t] = "done" => st'[t] = "done"
      /\ \A t \in Task : st'[t] # "waiting" =>
           st[t] # "waiting" \/ \A p \in DependencyArguments(t) : st[p] = "done"
<1> USE DEF TypeOK, TaskInv
<1>1. CASE UNCHANGED <<edges, st, tries, effects, outcome>>
  BY <1>1
<1>2. ASSUME NEW t \in Task, Start(t) PROVE Good
  BY <1>2 DEF Start
<1>3. ASSUME NEW t \in Task, RefuseAuthority(t) PROVE Good
  BY <1>3 DEF RefuseAuthority
<1>4. ASSUME NEW t \in Task, PutIntent(t) PROVE Good
  BY <1>4 DEF PutIntent
<1>5. ASSUME NEW t \in Task, Act(t) PROVE Good
  BY <1>5 DEF Act
<1>6. ASSUME NEW t \in Task, Raise(t) PROVE Good
  BY <1>6 DEF Raise
<1>7. ASSUME NEW t \in Task, PutOutcome(t) PROVE Good
  BY <1>7 DEF PutOutcome
<1>8. ASSUME NEW t \in Task, NoticeFailure(t) PROVE Good
  <2>1. ~ (tries[t] <= MaxRetries)
    BY <1>8 DEF NoticeFailure, MaxRetries
  <2> QED
    BY <1>8, <2>1 DEF NoticeFailure
<1>9. CASE Compile \/ Collect \/ TimeOut \/ Answer \/ UNCHANGED vars
  BY <1>1, <1>9 DEF Compile, Collect, TimeOut, Answer, vars
<1> QED
  BY <1>2, <1>3, <1>4, <1>5, <1>6, <1>7, <1>8, <1>9 DEF Next, Step, Done

(* Predecessors stay done, so what was started keeps its arguments. *)
LEMMA OrderStep ==
  ASSUME TypeOK, TaskInv, OrderInv, [Next]_vars
  PROVE  OrderInv'
<1> SUFFICES ASSUME NEW t \in Task, st'[t] # "waiting", NEW p \in DependencyArguments(t)'
             PROVE  st'[p] = "done"
  BY DEF OrderInv
<1>1. p \in DependencyArguments(t) /\ p \in Task
  BY TaskStep DEF DependencyArguments
<1>2. st[p] = "done"
  BY <1>1, TaskStep DEF OrderInv
<1> QED
  BY <1>1, <1>2, TaskStep

(* The tasks that are not done have a successor each unless they are         *)
(* terminal, and a successor of such a task cannot be done itself.           *)
LEMMA TerminalsSuffice ==
  ASSUME OrderInv, NoCycle, \A t \in TerminalTasks : st[t] = "done"
  PROVE  \A t \in Task : st[t] = "done"
<1> DEFINE Undone == {t \in Task : st[t] # "done"}
<1>1. SUFFICES ASSUME Undone # {} PROVE FALSE
  OBVIOUS
<1>2. PICK t \in Undone : \A s \in Undone : <<t, s>> \notin edges
  BY <1>1 DEF NoCycle
<1>3. t \notin TerminalTasks
  BY <1>2
<1>4. PICK s \in Task : <<t, s>> \in edges
  BY <1>2, <1>3 DEF TerminalTasks
<1>5. st[s] = "done"
  BY <1>2, <1>4
<1>6. t \in DependencyArguments(s)
  BY <1>2, <1>4 DEF DependencyArguments
<1> QED
  BY <1>2, <1>4, <1>5, <1>6 DEF OrderInv

(* No step runs before the order is admitted. *)
LEMMA NewIsUntouched ==
  ASSUME VerdictInv, NEW t \in Task, Step(t)
  PROVE  phase # "new"
BY DEF VerdictInv, Step, Start, RefuseAuthority, PutIntent, Act, Raise, PutOutcome, NoticeFailure

(* Every action keeps what was concluded. *)
LEMMA VerdictStep ==
  ASSUME TypeOK, RuntimeInv, [Next]_vars
  PROVE  VerdictInv'
<1> USE DEF RuntimeInv, VerdictInv
<1>1. /\ edges' = edges
      /\ \A t \in Task : st[t] = "done" => st'[t] = "done"
  BY TaskStep
<1>2. TerminalTasks' = TerminalTasks /\ (NoCycle' <=> NoCycle)
  BY <1>1 DEF TerminalTasks, NoCycle
<1>3. TerminalTasks \subseteq Task
  BY DEF TerminalTasks
<1>4. CASE UNCHANGED <<phase, answer, st>>
  BY <1>1, <1>2, <1>3, <1>4
<1>5. CASE Compile
  <2>1. Admitted => NoCycle
    BY AdmittedAreOrders DEF TypeOK
  <2> QED
    BY <1>1, <1>2, <1>3, <1>5, <2>1 DEF Compile
<1>6. CASE Collect
  BY <1>1, <1>2, <1>3, <1>6 DEF Collect
<1>7. CASE TimeOut
  BY <1>1, <1>2, <1>3, <1>7 DEF TimeOut
<1>8. CASE Answer
  <2>1. phase' = "answered" /\ st' = st
    BY <1>8 DEF Answer
  <2>2. answer' # "missing" /\ NoCycle
    <3>1. NoCycle /\ (answer' = "missing" => phase = "complete" /\ ~ (\A t \in Task : st[t] = "done"))
      BY <1>8 DEF Answer
    <3> QED
      BY <3>1, TerminalsSuffice
  <2>3. answer' = "alive" => \A t \in Task : st[t] = "done"
    BY <1>8 DEF Answer
  <2> QED
    BY <1>2, <2>1, <2>2, <2>3
<1>9. ASSUME NEW t \in Task, Step(t) PROVE VerdictInv'
  <2>1. /\ answer' = answer
        /\ phase' = "complete" => phase = "complete"
        /\ phase = "answered" => phase' = "answered"
        /\ phase = "new" <=> phase' = "new"
    BY <1>9 DEF Step, Start, RefuseAuthority, PutIntent, Act, Raise, PutOutcome, NoticeFailure
  <2>2. phase # "new"
    BY <1>9, NewIsUntouched
  <2> QED
    BY <1>1, <1>2, <1>3, <2>1, <2>2
<1>10. CASE UNCHANGED vars
  BY <1>4, <1>10 DEF vars
<1> QED
  BY <1>5, <1>6, <1>7, <1>8, <1>9, <1>10 DEF Next, Done

(* The inductive invariant of Runtime.execute/3. *)
THEOREM RuntimeInvariant == Spec => [](TypeOK /\ RuntimeInv)
<1>1. Init => TypeOK /\ RuntimeInv
  BY InitRuntimeInv
<1>2. TypeOK /\ RuntimeInv /\ [Next]_vars => (TypeOK /\ RuntimeInv)'
  <2> SUFFICES ASSUME TypeOK, RuntimeInv, [Next]_vars PROVE (TypeOK /\ RuntimeInv)'
    OBVIOUS
  <2> QED
    BY TypeStep, TaskStep, OrderStep, VerdictStep DEF RuntimeInv
<1> QED
  BY <1>1, <1>2, PTL DEF Spec

(* Type correctness of the runtime. *)
THEOREM RuntimeTypeOK == Spec => []TypeOK
  BY RuntimeInvariant, PTL

(* Alive means that every callback ran exactly once and has its outcome, the *)
(* collector's terminal tasks suffice for it, and no callback ever runs      *)
(* twice (runtime.ex:94-131, 157-192).                                       *)
THEOREM RuntimeAliveMeansAll == Spec => []AliveMeansAll
<1>1. TypeOK /\ RuntimeInv => AliveMeansAll
  BY DEF TypeOK, RuntimeInv, TaskInv, VerdictInv, AliveMeansAll
<1> QED
  BY <1>1, RuntimeInvariant, PTL

(* Kahn's rounds admit the edge lists that order the tasks partially and no  *)
(* others, and layer what they admit in that order (powl.ex:16-31, 132-184). *)
THEOREM RuntimeLayersExact == Spec => LayersExact
<1> DEFINE Exact == /\ phase' = "running" <=> edges \subseteq Task \X Task /\ NoCycle
                    /\ phase' = "running" => LayersOrder
<1>1. TypeOK /\ RuntimeInv /\ [Next]_vars => [phase = "new" => Exact]_vars
  <2> SUFFICES ASSUME TypeOK, RuntimeInv, Next, phase = "new" PROVE Exact
    OBVIOUS
  <2>1. Compile
    <3>1. \A t \in Task : ~ Step(t)
      BY NewIsUntouched DEF RuntimeInv
    <3> QED
      BY <3>1 DEF Next, Collect, TimeOut, Answer, Done
  <2>2. Admitted <=> edges \subseteq Task \X Task /\ NoCycle
    BY AdmittedAreOrders DEF TypeOK
  <2>3. Admitted => LayersOrder
    BY AdmittedAreLayered DEF TypeOK
  <2>4. phase' = "running" <=> Admitted
    BY <2>1 DEF Compile
  <2> QED
    BY <2>2, <2>3, <2>4
<1> QED
  BY <1>1, RuntimeInvariant, PTL DEF Spec, LayersExact

(* One step of the runtime is one step of the partial order, or none.        *)
LEMMA RunStep ==
  ASSUME TypeOK, RuntimeInv, [Next]_vars
  PROVE  [AbstractRun!RunNext]_(AbstractRun!runVars)
<1> DEFINE begun == {t \in Task : effects[t] > 0}
           done == {t \in Task : outcome[t] = "alive"}
<1> USE DEF AbstractRun!runVars, AbstractRun!RunNext
<1>1. CASE UNCHANGED <<edges, effects, outcome, answer>>
  BY <1>1
<1>2. CASE Compile \/ Answer
  <2>1. begun' = begun /\ done' = done /\ edges' = edges
    BY <1>2 DEF Compile, Answer
  <2>2. CASE answer' = answer
    BY <2>1, <2>2
  <2>3. CASE answer' # answer
    <3>1. answer = "none"
      BY <1>2 DEF Compile, Answer, RuntimeInv, VerdictInv
    <3>2. answer' \in {"refused", "failed", "halted", "missing", "alive"}
      <4>1. CASE Compile
        BY <2>3, <4>1 DEF Compile
      <4>2. CASE Answer
        BY <4>2 DEF Answer
      <4> QED
        BY <1>2, <4>1, <4>2
    <3>3. answer' = "alive" => done = Task
      <4>1. answer' = "alive" => \A t \in Task : st[t] = "done"
        BY <1>2, <2>3 DEF Compile, Answer
      <4> QED
        BY <4>1 DEF RuntimeInv, TaskInv
    <3>4. AbstractRun!Tell(answer')
      BY <2>1, <3>1, <3>3 DEF AbstractRun!Tell
    <3> QED
      BY <3>2, <3>4
  <2> QED
    BY <2>2, <2>3
<1>3. ASSUME NEW t \in Task, Act(t) \/ Raise(t) PROVE AbstractRun!Begin(t)
  <2>1. st[t] = "intended" /\ effects[t] = 0 /\ outcome[t] # "alive"
    BY <1>3 DEF Act, Raise, RuntimeInv, TaskInv
  <2>2. begun' = begun \cup {t} /\ t \notin begun
    BY <1>3, <2>1 DEF Act, Raise, TypeOK
  <2>3. done' = done
    BY <1>3, <2>1 DEF Act, Raise, TypeOK
  <2>4. AbstractRun!Before(t) \subseteq done
    BY <2>1 DEF AbstractRun!Before, DependencyArguments, RuntimeInv, OrderInv, TaskInv
  <2>5. edges' = edges /\ answer' = answer
    BY <1>3 DEF Act, Raise
  <2> QED
    BY <2>2, <2>3, <2>4, <2>5 DEF AbstractRun!Begin
<1>4. ASSUME NEW t \in Task, PutOutcome(t), outcome' # outcome PROVE AbstractRun!Finish(t)
  <2>1. st[t] = "acted" /\ effects[t] = 1 /\ outcome[t] # "alive"
    BY <1>4 DEF PutOutcome, RuntimeInv, TaskInv
  <2>2. outcome' = [outcome EXCEPT ![t] = "alive"]
    BY <1>4 DEF PutOutcome
  <2>3. done' = done \cup {t}
    BY <2>2 DEF TypeOK
  <2>4. begun' = begun /\ edges' = edges /\ answer' = answer
    BY <1>4 DEF PutOutcome
  <2> QED
    BY <2>1, <2>3, <2>4 DEF AbstractRun!Finish
<1>5. ASSUME NEW t \in Task, Step(t) PROVE [AbstractRun!RunNext]_(AbstractRun!runVars)
  <2>1. CASE Start(t) \/ RefuseAuthority(t) \/ PutIntent(t) \/ NoticeFailure(t)
    BY <1>1, <2>1 DEF Start, RefuseAuthority, PutIntent, NoticeFailure
  <2>2. CASE PutOutcome(t) /\ outcome' = outcome
    BY <1>1, <2>2 DEF PutOutcome
  <2> QED
    BY <1>3, <1>4, <1>5, <2>1, <2>2 DEF Step
<1>6. CASE Collect \/ TimeOut \/ UNCHANGED vars
  BY <1>1, <1>6 DEF Collect, TimeOut, vars
<1> QED
  BY <1>2, <1>5, <1>6 DEF Next, Done

(* The runtime implements the partial order: its traces are traces of the    *)
(* order and no others (docs/ARCHITECTURE.md:45, 57).                        *)
THEOREM RuntimeRunsPartialOrder == Spec => RunsPartialOrder
<1>1. Init => AbstractRun!RunInit
  BY DEF Init, AbstractRun!RunInit
<1>2. TypeOK /\ RuntimeInv /\ [Next]_vars => [AbstractRun!RunNext]_(AbstractRun!runVars)
  BY RunStep
<1> QED
  BY <1>1, <1>2, RuntimeInvariant, PTL DEF Spec, RunsPartialOrder, AbstractRun!RunSpec
=============================================================================
