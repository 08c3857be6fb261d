--------------------------- MODULE MCRenovateRun ---------------------------
(* Small instances of RenovateRun.                                          *)
EXTENDS RenovateRun

CONSTANT r1

(* Names that fit keep the generated suffix, so they differ.                  *)
DistinctNames == [r \in Runs |-> r]

OneRepoPerWorker == [minWorkers |-> 0, maxWorkers |-> 2, reposPerWorker |-> 1]

(* None, or the same repositories.  That the order in which the platform lists *)
(* them makes no difference is ShardPlanner's subject.                        *)
StableRepos == {<<>>, <<2, 1>>}
(* Repositories come and go between two discoveries, down to none.            *)
ChangingRepos == {<<>>, <<1>>, <<2, 1>>}
=============================================================================
