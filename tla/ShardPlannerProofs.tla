------------------------- MODULE ShardPlannerProofs -------------------------
(* Proofs about ShardPlanner: what a plan of sharding.Build promises, for every  *)
(* discovery result, all worker bounds and every width of the arithmetic.       *)
EXTENDS ShardPlanner, ShardingProofs, SequenceTheorems

(* The inductive invariant: a plan is what Build makes of the inputs.           *)
PlanIsBuilt ==
    /\ repos \in Seq(1..MaxSlug)
    /\ bounds \in [minWorkers : 0..MaxBound, maxWorkers : 0..MaxBound,
                   reposPerWorker : 0..MaxBound]
    /\ plan = NotBuilt \/ plan = Build(repos, bounds)

(* Plan keeps the inputs and calls Build.                                       *)
THEOREM PlanHolds == Spec => []PlanIsBuilt
  <1>1. Init => PlanIsBuilt
    <2> SUFFICES ASSUME Init PROVE PlanIsBuilt
      OBVIOUS
    <2>1. PICK n \in 0..MaxRepos : repos \in [1..n -> 1..MaxSlug]
      BY DEF Init
    <2>2. n \in Nat
      BY PlannerBounds DEF PlannerBounds
    <2>3. repos \in Seq(1..MaxSlug)
      BY <2>1, <2>2, SeqDef
    <2> QED
      BY <2>3 DEF Init, PlanIsBuilt
  <1>2. PlanIsBuilt /\ [Plan]_vars => PlanIsBuilt'
    BY DEF PlanIsBuilt, Plan, vars
  <1> QED
    BY <1>1, <1>2, PTL DEF Spec

(* The inputs as the lemmas about Sharding want them.                           *)
LEMMA Inputs ==
    ASSUME PlanIsBuilt
    PROVE  /\ repos \in Seq(Nat) /\ bounds \in WorkerBounds
           /\ bounds.reposPerWorker < HalfRange
           /\ Built => plan = Build(repos, bounds) /\ Build(repos, bounds).err = "none"
  <1>1. 1..MaxSlug \subseteq Nat
    BY PlannerBounds DEF PlannerBounds
  <1>2. repos \in Seq(Nat)
    BY <1>1, SeqMonotonic DEF PlanIsBuilt
  <1>3. bounds \in WorkerBounds /\ bounds.reposPerWorker < HalfRange
    BY PlannerBounds, HalfRangeAssumption
    DEF PlannerBounds, HalfRangeAssumption, PlanIsBuilt, WorkerBounds
  <1>4. NotBuilt.err = "not built"
    BY DEF NotBuilt, NoPlan
  <1>5. Built => plan = Build(repos, bounds) /\ Build(repos, bounds).err = "none"
    BY <1>4 DEF PlanIsBuilt, Built
  <1> QED
    BY <1>2, <1>3, <1>5

(* What Build returns is well formed: as many shards as workers, or an error and  *)
(* no shards.                                                                    *)
THEOREM TypeCorrect == Spec => []TypeOK
  <1>1. PlanIsBuilt => TypeOK
    <2> SUFFICES ASSUME PlanIsBuilt PROVE TypeOK
      OBVIOUS
    <2>1. repos \in Seq(Nat) /\ repos \in Seq(1..MaxSlug) /\ bounds \in WorkerBounds
      BY Inputs DEF PlanIsBuilt
    <2>2. CASE Built
      <3>1. plan = Build(repos, bounds) /\ Build(repos, bounds).err = "none"
        BY <2>2, Inputs
      <3>2. plan.actualWorkers \in Nat /\ DOMAIN plan.data = 0..(plan.actualWorkers - 1)
        BY <2>1, <3>1, BuildGivesAPlan
      <3> QED
        BY <2>1, <2>2, <3>2 DEF TypeOK, Built
    <2>3. CASE ~ Built
      <3>1. \E e \in {"not built", "ErrNoRepositories", "ErrInvalidBounds"} : plan = NoPlan(e)
        <4>1. CASE plan = NotBuilt
          BY <4>1 DEF NotBuilt
        <4>2. CASE plan = Build(repos, bounds)
          <5>1. repos # <<>> /\ ValidBounds(bounds) => plan.err = "none"
            BY <4>2 DEF Build
          <5>2. repos = <<>> => plan = NoPlan("ErrNoRepositories")
            BY <4>2 DEF Build
          <5>3. repos # <<>> /\ ~ ValidBounds(bounds) => plan = NoPlan("ErrInvalidBounds")
            BY <4>2 DEF Build
          <5> QED
            BY <2>3, <5>1, <5>2, <5>3 DEF Built
        <4> QED
          BY <4>1, <4>2 DEF PlanIsBuilt
      <3>2. plan.err \in {"not built", "ErrNoRepositories", "ErrInvalidBounds"}
            /\ plan.actualWorkers \in Nat /\ plan.data = <<>>
        <4>1. \A e : NoPlan(e) = [err |-> e, actualWorkers |-> 0, data |-> <<>>]
          BY DEF NoPlan
        <4>2. PICK e \in {"not built", "ErrNoRepositories", "ErrInvalidBounds"} :
                  plan = [err |-> e, actualWorkers |-> 0, data |-> <<>>]
          BY <3>1, <4>1
        <4> QED
          BY <4>2
      <3>3. DOMAIN plan.data = {}
        <4>1. \A s : s = <<>> => DOMAIN s = {}
          OBVIOUS
        <4> QED
          BY <3>2, <4>1
      <3>4. DOMAIN plan.data = IF Built THEN 0..(plan.actualWorkers - 1) ELSE {}
        BY <2>3, <3>3
      <3>5. plan.err \in {"not built", "none", "ErrNoRepositories", "ErrInvalidBounds"}
        BY <3>2
      <3> QED
        BY <2>1, <3>2, <3>4, <3>5, Zenon DEF TypeOK
    <2> QED
      BY <2>2, <2>3
  <1> QED
    BY <1>1, PlanHolds, PTL

(* computeActualWorkers gives clamp(ceil(repos / reposPerWorker), min, max), although   *)
(* it forms repos + reposPerWorker - 1 in int32, which may wrap.                        *)
THEOREM WorkerCountIsRight == Spec => []WorkersAreClampedCeiling
  <1>1. PlanIsBuilt => WorkersAreClampedCeiling
    <2> SUFFICES ASSUME PlanIsBuilt, Built, 2 * Len(repos) <= HalfRange
                 PROVE  plan.actualWorkers =
                           Clamp(CeilDiv(Len(repos), bounds.reposPerWorker),
                                 bounds.minWorkers, bounds.maxWorkers)
      BY DEF WorkersAreClampedCeiling
    <2> DEFINE n == Len(repos)
               r == bounds.reposPerWorker
               q == CeilDiv(n, r)
    <2>1. /\ repos \in Seq(Nat) /\ bounds \in WorkerBounds /\ r < HalfRange
          /\ plan = Build(repos, bounds) /\ Build(repos, bounds).err = "none"
      BY Inputs
    <2>2. /\ repos # <<>> /\ ValidBounds(bounds)
          /\ plan.actualWorkers = computeActualWorkers(Wrap(n), bounds)
      BY <2>1, BuildGivesAPlan
    <2>3. n \in Nat \ {0} /\ r \in Nat \ {0}
      BY <2>1, <2>2 DEF WorkerBounds, ValidBounds
    <2>4. CeilingOf((n + r - 1) \div r, n, r)
      BY <2>3, RoundedUp
    <2> HIDE DEF n, r
    <2>5. CeilingOf(q, n, r)
      BY <2>4 DEF CeilDiv, CeilingOf
    <2> HIDE DEF q
    <2>6. computeActualWorkers(Wrap(n), bounds) = IF q < bounds.minWorkers THEN bounds.minWorkers
                                                  ELSE IF q > bounds.maxWorkers THEN bounds.maxWorkers
                                                  ELSE q
      BY <2>1, <2>2, <2>3, <2>5, WorkersAreCeiling DEF n, r
    <2> QED
      BY <2>2, <2>6 DEF Clamp, n, r, q
  <1> QED
    BY <1>1, PlanHolds, PTL

(* assignRoundRobin neither loses a repository nor hands one out twice: a slug occurs    *)
(* in the shards as often as in the discovery result.                                    *)
THEOREM NothingLostNothingTwice == Spec => []EveryRepoInOneShard
  <1>1. PlanIsBuilt => EveryRepoInOneShard
    <2> SUFFICES ASSUME PlanIsBuilt, Built, NEW slug \in 1..MaxSlug
                 PROVE  Cardinality(Places(slug)) = Occurrences(repos, slug)
      BY DEF EveryRepoInOneShard
    <2> DEFINE n == plan.actualWorkers
    <2>1. /\ repos \in Seq(Nat) /\ bounds \in WorkerBounds
          /\ plan = Build(repos, bounds) /\ Build(repos, bounds).err = "none"
      BY Inputs
    <2>2. /\ n \in Nat \ {0}
          /\ \A k \in 0..(n - 1) : plan.data[k].repos = assignRoundRobin(SortBySlug(repos), n)[k]
      BY <2>1, BuildGivesAPlan
    <2>3. Places(slug) = Dealt(repos, n, slug)
      BY <2>2 DEF Places, Dealt
    <2> QED
      BY <2>1, <2>2, <2>3, EveryOccurrenceIsDealtOnce DEF Occurrences
  <1> QED
    BY <1>1, PlanHolds, PTL

(* No shard holds two repositories more than another.                                     *)
THEOREM ShardsDifferByOne == Spec => []ShardsAreBalanced
  <1>1. PlanIsBuilt => ShardsAreBalanced
    <2> SUFFICES ASSUME PlanIsBuilt, Built, NEW j \in DOMAIN plan.data, NEW k \in DOMAIN plan.data
                 PROVE  Len(plan.data[j].repos) <= Len(plan.data[k].repos) + 1
      BY DEF ShardsAreBalanced
    <2> DEFINE n == plan.actualWorkers
               sorted == SortBySlug(repos)
    <2>1. /\ repos \in Seq(Nat) /\ bounds \in WorkerBounds
          /\ plan = Build(repos, bounds) /\ Build(repos, bounds).err = "none"
      BY Inputs
    <2>2. /\ n \in Nat \ {0} /\ j \in 0..(n - 1) /\ k \in 0..(n - 1)
          /\ plan.data[j].repos = assignRoundRobin(sorted, n)[j]
          /\ plan.data[k].repos = assignRoundRobin(sorted, n)[k]
      BY <2>1, BuildGivesAPlan
    <2>3. sorted \in Seq(Nat) /\ Len(sorted) \in Nat
      BY <2>1, SortedSlugs
    <2> HIDE DEF n, sorted
    <2>4. Len(plan.data[j].repos) = ShardLen(Len(sorted), n, j)
      BY <2>2, <2>3, ShardContents
    <2>5. Len(plan.data[k].repos) = ShardLen(Len(sorted), n, k)
      BY <2>2, <2>3, ShardContents
    <2> QED
      BY <2>2, <2>3, <2>4, <2>5, ShardLengthsAreClose
  <1> QED
    BY <1>1, PlanHolds, PTL

(* Build sorts before it deals, so a Run that discovers the same repositories in another  *)
(* order after a crash computes the plan it already stored.  Every order can be reached    *)
(* by swaps.                                                                              *)
THEOREM OrderDoesNotMatter == Spec => []PlanIgnoresDiscoveryOrder
  <1>1. PlanIsBuilt => PlanIgnoresDiscoveryOrder
    <2> SUFFICES ASSUME PlanIsBuilt, plan # NotBuilt,
                        NEW i \in 1..Len(repos), NEW j \in 1..Len(repos)
                 PROVE  Build(Swapped(repos, i, j), bounds) = plan
      BY DEF PlanIgnoresDiscoveryOrder, Swapped
    <2>1. repos \in Seq(Nat) /\ plan = Build(repos, bounds)
      BY Inputs DEF PlanIsBuilt
    <2> QED
      BY <2>1, SwapKeepsPlan
  <1> QED
    BY <1>1, PlanHolds, PTL
=============================================================================
