------------------------------ MODULE Sharding ------------------------------
(***************************************************************************)
(* The pure shard planner of internal/sharding and its reader, the worker   *)
(* entrypoint of internal/jobspec.  Build turns a discovery result (a        *)
(* sequence of slugs, in whatever order the platform returned them, possibly *)
(* with repetitions) into a worker count and one shard per worker.           *)
(*                                                                           *)
(* A slug is a natural number: only its place in the slug order matters.     *)
(***************************************************************************)
EXTENDS Integers, Sequences, FiniteSets

CONSTANTS
    HalfRange,      \* 2^(w-1) for the w-bit worker-count arithmetic (2^31 in the code)
    GzipThreshold   \* repositories a shard's JSON holds before it passes 900 KiB

ASSUME HalfRangeAssumption == HalfRange \in Nat \ {0}
ASSUME GzipThresholdAssumption == GzipThreshold \in Nat

-----------------------------------------------------------------------------
(* Two's complement arithmetic: every result is taken modulo 2^w into        *)
(* -2^(w-1) .. 2^(w-1)-1.                                                     *)
Wrap(x) == ((x + HalfRange) % (2 * HalfRange)) - HalfRange

(* Go's integer division truncates towards zero.                             *)
GoDiv(a, b) == IF a >= 0 THEN a \div b ELSE -((-a) \div b)

WorkerBounds == [minWorkers : Int, maxWorkers : Int, reposPerWorker : Int]

ValidBounds(b) ==
    /\ b.minWorkers >= 1
    /\ b.maxWorkers >= 1
    /\ b.minWorkers <= b.maxWorkers
    /\ b.reposPerWorker >= 1

(* Slip: the division is not rounded up.                                     *)
WorkersRoundedDown(repoCount, b) ==
    LET target == GoDiv(repoCount, b.reposPerWorker)
    IN  IF target < b.minWorkers THEN b.minWorkers
        ELSE IF target > b.maxWorkers THEN b.maxWorkers
        ELSE target

computeActualWorkers(repoCount, b) ==
    LET target == GoDiv(Wrap(Wrap(repoCount + b.reposPerWorker) - 1), b.reposPerWorker)
    IN  IF target < b.minWorkers THEN b.minWorkers
        ELSE IF target > b.maxWorkers THEN b.maxWorkers
        ELSE target

-----------------------------------------------------------------------------
(* The place (from 0) the stable sort by slug gives to the i-th input.       *)
SortedPlace(repos, i) ==
    Cardinality({j \in 1..Len(repos) :
                    \/ repos[j] < repos[i]
                    \/ repos[j] = repos[i] /\ j < i})

(* Slip: the discovery order is kept.                                        *)
Unsorted(repos) == repos

SortBySlug(repos) ==
    [p \in 1..Len(repos) |->
        repos[CHOOSE i \in 1..Len(repos) : SortedPlace(repos, i) = p - 1]]

(* Slip: the count of a shard that is not full is rounded down.              *)
ShardLenShort(len, n, k) == IF k < len THEN (len - 1 - k) \div n ELSE 0

(* Shard k holds the sorted places k, k + n, k + 2n, ...: how many there are. *)
ShardLen(len, n, k) == IF k < len THEN (len - 1 - k) \div n + 1 ELSE 0

(* Slip: the shards are numbered from 1.                                     *)
NumberedFromOne(sorted, n) ==
    [k \in 1..n |->
        [m \in 1..ShardLen(Len(sorted), n, k - 1) |-> sorted[k + (m - 1) * n]]]

(* Slip: the shards are contiguous runs of ceil(len/n) repositories.         *)
ContiguousRuns(sorted, n) ==
    LET run == (Len(sorted) + n - 1) \div n
    IN  [k \in 0..(n - 1) |->
            SubSeq(sorted, k * run + 1,
                   IF (k + 1) * run < Len(sorted) THEN (k + 1) * run ELSE Len(sorted))]

assignRoundRobin(sorted, n) ==
    [k \in 0..(n - 1) |->
        [m \in 1..ShardLen(Len(sorted), n, k) |-> sorted[k + (m - 1) * n + 1]]]

(* One ConfigMap key: shard-NNNN.json, or shard-NNNN.json.gz when too large. *)
ShardEntry(slugs) == [gzip |-> Len(slugs) > GzipThreshold, repos |-> slugs]

NoPlan(err) == [err |-> err, actualWorkers |-> 0, data |-> <<>>]

Build(repos, b) ==
    IF repos = <<>> THEN NoPlan("ErrNoRepositories")
    ELSE IF ~ ValidBounds(b) THEN NoPlan("ErrInvalidBounds")
    ELSE LET actual == computeActualWorkers(Wrap(Len(repos)), b)
             shards == assignRoundRobin(SortBySlug(repos), actual)
         IN  [err |-> "none", actualWorkers |-> actual,
              data |-> [k \in DOMAIN shards |-> ShardEntry(shards[k])]]

-----------------------------------------------------------------------------
(* What the worker pod with completion index i makes of the mounted data:    *)
(* a plain key is read as it is; a .json.gz key holds base64 text, which the  *)
(* entrypoint hands to gunzip undecoded, so the script stops (set -eu); with  *)
(* no key at all it exits 1.                                                  *)
CanRead(data, i) == i \in DOMAIN data /\ ~ data[i].gzip

(* Every slug of a sequence.                                                 *)
Slugs(repos) == {repos[i] : i \in 1..Len(repos)}

PlannedRepos(data) == UNION {Slugs(data[k].repos) : k \in DOMAIN data}
=============================================================================
