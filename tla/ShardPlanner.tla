---------------------------- MODULE ShardPlanner ----------------------------
(***************************************************************************)
(* One call of sharding.Build on an arbitrary discovery result and arbitrary *)
(* worker bounds, and what the plan promises to the Run that uses it.        *)
(***************************************************************************)
EXTENDS Sharding

CONSTANTS
    MaxRepos,   \* longest discovery result
    MaxSlug,    \* slugs are 1..MaxSlug, so results contain repetitions
    MaxBound    \* minWorkers, maxWorkers and reposPerWorker are 0..MaxBound

(* The bounds are fields of the width the arithmetic has.                     *)
ASSUME PlannerBounds == {MaxRepos, MaxSlug, MaxBound} \subseteq Nat /\ MaxBound < HalfRange

VARIABLES repos, bounds, plan

vars == <<repos, bounds, plan>>

NotBuilt == NoPlan("not built")

Init ==
    /\ repos \in UNION {[1..n -> 1..MaxSlug] : n \in 0..MaxRepos}
    /\ bounds \in [minWorkers : 0..MaxBound, maxWorkers : 0..MaxBound,
                   reposPerWorker : 0..MaxBound]
    /\ plan = NotBuilt

Plan ==
    /\ plan = NotBuilt
    /\ plan' = Build(repos, bounds)
    /\ UNCHANGED <<repos, bounds>>

Spec == Init /\ [][Plan]_vars

-----------------------------------------------------------------------------
Built == plan.err = "none"

TypeOK ==
    /\ repos \in Seq(1..MaxSlug)
    /\ bounds \in WorkerBounds
    /\ plan.err \in {"not built", "none", "ErrNoRepositories", "ErrInvalidBounds"}
    /\ plan.actualWorkers \in Nat
    /\ DOMAIN plan.data = IF Built THEN 0..(plan.actualWorkers - 1) ELSE {}

CeilDiv(a, b) == CHOOSE q \in 0..a : q * b >= a /\ (q - 1) * b < a

Clamp(x, lo, hi) == IF x < lo THEN lo ELSE IF x > hi THEN hi ELSE x

(* The worker count is clamp(ceil(repos / reposPerWorker), min, max), as the  *)
(* Result type documents, although computeActualWorkers forms repos +         *)
(* reposPerWorker - 1 in int32: a sum that wraps still gives the clamped      *)
(* count as long as fewer than 2^30 repositories were found.                  *)
WorkersAreClampedCeiling ==
    Built /\ 2 * Len(repos) <= HalfRange =>
        plan.actualWorkers =
            Clamp(CeilDiv(Len(repos), bounds.reposPerWorker),
                  bounds.minWorkers, bounds.maxWorkers)

Occurrences(seq, slug) == Cardinality({i \in 1..Len(seq) : seq[i] = slug})

Places(slug) ==
    {x \in (0..(plan.actualWorkers - 1)) \X (1..Len(repos)) :
        LET shard == plan.data[x[1]].repos
        IN  x[2] <= Len(shard) /\ shard[x[2]] = slug}

(* No repository is lost and none is handed out twice: assignRoundRobin puts  *)
(* each discovered repository into exactly one shard.                         *)
EveryRepoInOneShard ==
    Built => \A slug \in 1..MaxSlug :
        Cardinality(Places(slug)) = Occurrences(repos, slug)

(* Shards differ by at most one repository, so no worker is left with the     *)
(* bulk of the organisation.                                                  *)
ShardsAreBalanced ==
    Built => \A j, k \in DOMAIN plan.data :
        Len(plan.data[j].repos) <= Len(plan.data[k].repos) + 1

(* The plan depends on what was discovered and not on the order the platform  *)
(* listed it in: a Run that resumes after a crash and discovers again the     *)
(* same repositories computes the plan it already stored.                     *)
PlanIgnoresDiscoveryOrder ==
    plan # NotBuilt =>
        \A i, j \in 1..Len(repos) :
            Build([repos EXCEPT ![i] = repos[j], ![j] = repos[i]], bounds) = plan

(* "very large repo lists work": the entrypoint can read every shard Build    *)
(* wrote, a compressed one too.                                               *)
EveryShardIsReadable ==
    Built => \A k \in DOMAIN plan.data : CanRead(plan.data, k)

=============================================================================
