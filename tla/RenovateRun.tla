---------------------------- MODULE RenovateRun ----------------------------
(***************************************************************************)
(* The RenovateRun controller (internal/controller/renovaterun_controller.go)*)
(* against the API server: one worker goroutine takes Runs from a work queue  *)
(* and drives each through                                                    *)
(*                                                                            *)
(*     Pending -> Discovering -> Running -> {Succeeded, Failed}               *)
(*                                                                            *)
(* Reads come from informer caches that lag behind the API server, each kind  *)
(* on its own watch; writes go to the API server, which refuses a Create of a *)
(* name that exists and an Update of a stale resourceVersion.  Every call of  *)
(* the reconcile is a step, so a crash, a cache refresh or a worker pod may   *)
(* come between any two of them.  The status is written once, at the end.     *)
(***************************************************************************)
EXTENDS Sharding

CONSTANTS
    Runs,             \* the RenovateRun objects
    JobName,          \* [Runs -> names]: jobspec.JobName, which may truncate
    MirrorName,       \* [Runs -> names]: credentials.MirrorName, likewise
    Workers,          \* spec.scanSnapshot.workers: a WorkerBounds, 0 = unset
    Discoveries,      \* what discoverRepos may return: sequences of slugs
    CredentialsValid, \* does the platform accept the source credential?
    MaxFaults,        \* bound on failing calls, crashes, failing pods, deletions
    NoObject          \* stands for no Run and no name

JobNames == {JobName[r] : r \in Runs}
MirrorNames == {MirrorName[r] : r \in Runs}

ASSUME NamesAssumption ==
    /\ JobName \in [Runs -> JobNames]
    /\ MirrorName \in [Runs -> MirrorNames]
    /\ NoObject \notin Runs \cup JobNames \cup MirrorNames
ASSUME WorkersAssumption == Workers \in [minWorkers : Nat, maxWorkers : Nat, reposPerWorker : Nat]
ASSUME DiscoveriesAssumption == Discoveries \subseteq Seq(Nat)
ASSUME FaultsAssumption == CredentialsValid \in BOOLEAN /\ MaxFaults \in Nat

VARIABLES
    \* --- the API server
    run,        \* status of each RenovateRun
    secret,     \* mirrored Secrets, by name
    shardCM,    \* data of each Run's shard ConfigMap
    job,        \* worker Jobs, by name
    \* --- the informer caches
    runCache, secretCache, cmCache, jobCache,
    runSynced,    \* does runCache[r] carry the API server's resourceVersion?
    secretSynced, \* the same for secretCache[n]
    \* --- the controller process
    queue,      \* Runs waiting to be reconciled
    pc,         \* the next call of the reconcile in progress
    cur,        \* the Run being reconciled
    base,       \* its status as read from the cache
    copy,       \* its status as changed so far, in memory
    current,    \* is the resourceVersion read still the API server's?
    found,      \* what discoverRepos returned
    requeue,    \* the result asks for another reconcile
    runsTotal,  \* what each Run ever added to renovate_runs_total, up to MaxCount
    \* --- what happened so far
    faults,     \* failures so far
    launched,   \* names under which a worker Job has been created
    completed,  \* names under which a worker Job has had every index succeed
    worked      \* slugs that worker pods of each Run have processed

apiVars == <<run, secret, shardCM, job>>
cacheVars == <<runCache, secretCache, cmCache, jobCache>>
syncVars == <<runSynced, secretSynced>>
reconcileVars == <<pc, cur, base, copy, current, found, requeue>>
historyVars == <<launched, completed, worked>>
vars == <<apiVars, cacheVars, syncVars, queue, reconcileVars, runsTotal, faults, historyVars>>

-----------------------------------------------------------------------------
Phases == {"", "Discovering", "Running", "Succeeded", "Failed"}
Terminal == {"Succeeded", "Failed"}

(* Why a Run was marked Failed (the message of its Failed condition).        *)
Failures == {"none", "client", "discovery", "noRepos", "noJobRef", "vanished", "jobFailed"}

Status ==
    [phase           : Phases,
     started         : {"Unknown", "True", "False"},
     discoveredRepos : Nat,
     actualWorkers   : Nat,
     shardRef        : BOOLEAN,
     jobRef          : JobNames \cup {NoObject},
     succeededShards : Nat,
     failedShards    : Nat,
     failure         : Failures]

NewRun ==
    [phase |-> "", started |-> "Unknown", discoveredRepos |-> 0, actualWorkers |-> 0,
     shardRef |-> FALSE, jobRef |-> NoObject, succeededShards |-> 0, failedShards |-> 0,
     failure |-> "none"]

(* Slip: one completion too many.                                            *)
NewJobOneTooMany(r, workers) ==
    [owner |-> r, completions |-> workers + 1, done |-> {}, failed |-> 0]

(* A worker Job: its owner, spec.completions, the indexes whose pod exited 0  *)
(* and the number of failed pods.                                             *)
NewJob(r, workers) == [owner |-> r, completions |-> workers, done |-> {}, failed |-> 0]

(* Slip: spec.completions is not read and stays at its default of 1.         *)
AnyIndexDone(j) == j.done # {}

NoJob == [owner |-> NoObject, completions |-> 0, done |-> {}, failed |-> 0]

JobSucceeded(j) == Cardinality(j.done) >= j.completions
JobFailed(j) == j.failed > 0
JobActive(j) == ~ JobSucceeded(j) /\ ~ JobFailed(j)

(* Slip: the mirrored Secret carries no owner reference.                     *)
UnownedMirror(r) == [owner |-> NoObject, tokenOf |-> r]

(* A mirrored Secret: the Run that owns it and the Run it holds a token for.  *)
BuildMirror(r) == [owner |-> r, tokenOf |-> r]

NoSecret == [owner |-> NoObject, tokenOf |-> NoObject]

(* A shard ConfigMap is its data; one that exists has a shard.                *)
NoShards == <<>>

MaxCount == 2

Init ==
    /\ run = [r \in Runs |-> NewRun]
    /\ secret = [n \in MirrorNames |-> NoSecret]
    /\ shardCM = [r \in Runs |-> NoShards]
    /\ job = [n \in JobNames |-> NoJob]
    /\ runCache = run /\ secretCache = secret /\ cmCache = shardCM /\ jobCache = job
    /\ runSynced = [r \in Runs |-> TRUE]
    /\ secretSynced = [n \in MirrorNames |-> TRUE]
    /\ queue = Runs
    /\ pc = "idle" /\ cur = NoObject /\ base = NewRun /\ copy = NewRun
    /\ current = FALSE /\ found = <<>> /\ requeue = FALSE
    /\ runsTotal = [r \in Runs |-> 0]
    /\ faults = 0
    /\ launched = {} /\ completed = {}
    /\ worked = [r \in Runs |-> {}]

-----------------------------------------------------------------------------
(* Ways a step of the reconcile ends.                                        *)

Goto(next) == pc' = next /\ UNCHANGED <<cur, base, current, requeue>>

(* A call fails although nothing in the state says so; bounded by MaxFaults. *)
Fault == faults < MaxFaults /\ faults' = faults + 1
NoFault == UNCHANGED faults

(* Slip: only a Run that was dispatched is counted.                            *)
recordDispatchedOnly == runsTotal' =
    [runsTotal EXCEPT ![cur] = IF @ < MaxCount /\ copy.jobRef # NoObject THEN @ + 1 ELSE @]

recordRunTerminal == runsTotal' =
    [runsTotal EXCEPT ![cur] = IF @ < MaxCount THEN @ + 1 ELSE @]

markFailed(why) ==
    /\ copy' = [copy EXCEPT !.phase = "Failed", !.failure = why]
    /\ recordRunTerminal
    /\ Goto("update")

markTransient ==
    /\ copy' = [copy EXCEPT !.started = "False"]
    /\ pc' = "update" /\ requeue' = TRUE
    /\ UNCHANGED <<cur, base, current, runsTotal>>

(* A call returns an error that is retried: because the state makes it fail,  *)
(* or because of a fault.                                                     *)
RetryOnError(refused) == markTransient /\ IF refused THEN NoFault ELSE Fault

(* A write that took effect is reported as an error.                          *)
AnswerLost == markTransient /\ Fault

-----------------------------------------------------------------------------
(* Reconcile reads the Run from the cache and branches on its phase; Pending *)
(* is only ever an in-memory value on the way to Discovering.                 *)
Reconcile(r) ==
    /\ pc = "idle" /\ r \in queue
    /\ queue' = queue \ {r}
    /\ cur' = r /\ base' = runCache[r] /\ current' = runSynced[r]
    /\ \/ /\ runCache[r].phase \in {"", "Discovering"}
          /\ copy' = [runCache[r] EXCEPT !.phase = "Discovering", !.started = "True"]
          /\ pc' = "authenticate"
       \/ /\ runCache[r].phase = "Running"
          /\ copy' = runCache[r] /\ pc' = "observe"
       \/ /\ runCache[r].phase \in Terminal
          /\ copy' = runCache[r] /\ pc' = "update"
    /\ UNCHANGED <<apiVars, cacheVars, syncVars, found, requeue, runsTotal, faults, historyVars>>

(* fetchSourceSecret, the client factory and MintAccessToken: none touches    *)
(* modelled objects.  A Secret that cannot be read and a refused mint are     *)
(* retried, whatever the error was; a factory error is final.                 *)
Authenticate ==
    /\ pc = "authenticate"
    /\ \/ CredentialsValid /\ Goto("mirror") /\ NoFault /\ UNCHANGED <<copy, runsTotal>>
       \/ RetryOnError(~ CredentialsValid)
       \/ markFailed("client") /\ Fault
    /\ UNCHANGED <<apiVars, cacheVars, syncVars, queue, found, historyVars>>

(* Slip: an error of the Secret calls is not returned.                        *)
mirrorErrorIgnored ==
    LET n == MirrorName[cur]
        refused == IF secretCache[n] = NoSecret THEN secret[n] # NoSecret ELSE ~ secretSynced[n]
    IN
    /\ pc = "mirror"
    /\ \/ /\ ~ refused
          /\ secret' = [secret EXCEPT ![n] =
                IF @ = NoSecret THEN BuildMirror(cur) ELSE [@ EXCEPT !.tokenOf = cur]]
          /\ secretSynced' = [secretSynced EXCEPT ![n] = FALSE]
          /\ Goto("discover") /\ NoFault /\ UNCHANGED <<copy, runsTotal>>
       \/ (Goto("discover") /\ Fault /\ UNCHANGED <<copy, runsTotal>>) /\ UNCHANGED <<secret, secretSynced>>
    /\ UNCHANGED <<run, shardCM, job, cacheVars, runSynced, queue, found, historyVars>>

(* Get, then Create or Update of the mirrored Secret.  AlreadyExists and      *)
(* Conflict, the answers to a lagging cache, are retried like other errors.   *)
mirrorCredential ==
    LET n == MirrorName[cur]
        refused == IF secretCache[n] = NoSecret THEN secret[n] # NoSecret ELSE ~ secretSynced[n]
    IN
    /\ pc = "mirror"
    /\ \/ /\ ~ refused
          /\ secret' = [secret EXCEPT ![n] =
                IF @ = NoSecret THEN BuildMirror(cur) ELSE [@ EXCEPT !.tokenOf = cur]]
          /\ secretSynced' = [secretSynced EXCEPT ![n] = FALSE]
          /\ \/ Goto("discover") /\ NoFault /\ UNCHANGED <<copy, runsTotal>>
             \/ AnswerLost
       \/ RetryOnError(refused) /\ UNCHANGED <<secret, secretSynced>>
    /\ UNCHANGED <<run, shardCM, job, cacheVars, runSynced, queue, found, historyVars>>

(* discoverRepos and the judgement of its result.                             *)
discoverRepos ==
    /\ pc = "discover"
    /\ \/ \E repos \in Discoveries :
            /\ found' = repos /\ NoFault
            /\ \/ repos = <<>> /\ markFailed("noRepos")
               \/ repos # <<>> /\ Goto("shards") /\ UNCHANGED <<copy, runsTotal>>
       \/ markTransient /\ Fault /\ UNCHANGED found
       \/ markFailed("discovery") /\ Fault /\ UNCHANGED found
    /\ UNCHANGED <<apiVars, cacheVars, syncVars, queue, historyVars>>

(* The defaults the controller puts in for unset bounds.                      *)
EffectiveBounds ==
    [minWorkers     |-> IF Workers.minWorkers = 0 THEN 1 ELSE Workers.minWorkers,
     maxWorkers     |-> IF Workers.maxWorkers = 0 THEN 10 ELSE Workers.maxWorkers,
     reposPerWorker |-> IF Workers.reposPerWorker = 0 THEN 50 ELSE Workers.reposPerWorker]

ShardPlan == Build(found, EffectiveBounds)

(* The ConfigMap found in the cache is kept as it is, while the worker count  *)
(* is the one just computed.                                                  *)
ensureShardConfigMap ==
    LET exists == cmCache[cur] # NoShards
        refused == ShardPlan.err # "none" \/ (~ exists /\ shardCM[cur] # NoShards)
    IN
    /\ pc = "shards"
    /\ \/ /\ ~ refused
          /\ shardCM' = IF exists THEN shardCM ELSE [shardCM EXCEPT ![cur] = ShardPlan.data]
          /\ \/ /\ copy' = [copy EXCEPT !.discoveredRepos = Len(found),
                                     !.actualWorkers = ShardPlan.actualWorkers,
                                     !.shardRef = TRUE]
                /\ Goto("job") /\ NoFault /\ UNCHANGED runsTotal
             \/ AnswerLost
       \/ RetryOnError(refused) /\ UNCHANGED shardCM
    /\ UNCHANGED <<run, secret, job, cacheVars, syncVars, queue, found, historyVars>>

(* Get, then Create of the worker Job; the Job found in the cache is taken    *)
(* whoever owns it.  With the Job in place the Run is Running.                *)
ensureWorkerJob ==
    LET n == JobName[cur]
        exists == jobCache[n] # NoJob
        refused == ~ exists /\ job[n] # NoJob
    IN
    /\ pc = "job"
    /\ \/ /\ ~ refused
          /\ job' = IF exists THEN job
                    ELSE [job EXCEPT ![n] = NewJob(cur, copy.actualWorkers)]
          /\ launched' = IF exists THEN launched ELSE launched \cup {n}
          /\ \/ /\ copy' = [copy EXCEPT !.jobRef = n, !.phase = "Running"]
                /\ Goto("update") /\ NoFault /\ UNCHANGED runsTotal
             \/ AnswerLost
       \/ RetryOnError(refused) /\ UNCHANGED <<job, launched>>
    /\ UNCHANGED <<run, secret, shardCM, cacheVars, syncVars, queue, found, completed, worked>>

(* Running: what the cached Job says becomes the Run's status.                *)
Observed(st) ==
    IF st.jobRef = NoObject THEN [st EXCEPT !.phase = "Failed", !.failure = "noJobRef"]
    ELSE LET j == jobCache[st.jobRef] IN
         IF j = NoJob THEN [st EXCEPT !.phase = "Failed", !.failure = "vanished"]
         ELSE LET counted == [st EXCEPT !.succeededShards = Cardinality(j.done),
                                        !.failedShards = j.failed]
              IN  IF JobSucceeded(j) THEN [counted EXCEPT !.phase = "Succeeded"]
                  ELSE IF JobFailed(j)
                       THEN [counted EXCEPT !.phase = "Failed", !.failure = "jobFailed"]
                       ELSE counted

observeJob ==
    /\ pc = "observe"
    /\ pc' = "update" /\ UNCHANGED <<cur, base, current>>
    /\ \/ /\ copy' = Observed(copy) /\ NoFault /\ UNCHANGED requeue
          /\ IF copy'.phase \in Terminal THEN recordRunTerminal ELSE UNCHANGED runsTotal
       \/ Fault /\ requeue' = TRUE /\ UNCHANGED <<copy, runsTotal>>
    /\ UNCHANGED <<apiVars, cacheVars, syncVars, queue, found, historyVars>>

(* The reconcile is over; what it leaves in memory is dropped.                *)
Finish(again) ==
    /\ queue' = IF again THEN queue \cup {cur} ELSE queue
    /\ pc' = "idle" /\ cur' = NoObject /\ base' = NewRun /\ copy' = NewRun
    /\ current' = FALSE /\ found' = <<>> /\ requeue' = FALSE

(* Slip: the status is written whatever its resourceVersion (a merge patch).  *)
UpdateStatusBlindly ==
    /\ pc = "update"
    /\ \/ /\ NoFault /\ Finish(requeue)
          /\ run' = [run EXCEPT ![cur] = copy]
          /\ \/ /\ copy # base \/ copy.phase = "Discovering"
                /\ runSynced' = [runSynced EXCEPT ![cur] = FALSE]
             \/ copy = base /\ UNCHANGED runSynced
       \/ ~ current /\ NoFault /\ Finish(TRUE) /\ UNCHANGED <<run, runSynced>>
       \/ Fault /\ Finish(TRUE) /\ UNCHANGED <<run, runSynced>>
    /\ UNCHANGED <<secret, shardCM, job, cacheVars, secretSynced, runsTotal, historyVars>>

(* Status().Update.  A write that changes nothing leaves the resourceVersion; *)
(* a reconcile of a Discovering Run restamps its Started condition, so it      *)
(* changes the object even when the fields modelled here stay as they were.    *)
UpdateStatus ==
    /\ pc = "update"
    /\ \/ /\ current
          /\ (NoFault /\ Finish(requeue)) \/ (Fault /\ Finish(TRUE))
          /\ run' = [run EXCEPT ![cur] = copy]
          /\ \/ /\ copy # base \/ copy.phase = "Discovering"
                /\ runSynced' = [runSynced EXCEPT ![cur] = FALSE]
             \/ copy = base /\ UNCHANGED runSynced
       \/ ~ current /\ NoFault /\ Finish(TRUE) /\ UNCHANGED <<run, runSynced>>
       \/ Fault /\ Finish(TRUE) /\ UNCHANGED <<run, runSynced>>
    /\ UNCHANGED <<secret, shardCM, job, cacheVars, secretSynced, runsTotal, historyVars>>

(* The process dies and its successor lists every object and every Run.       *)
Crash ==
    /\ Fault
    /\ runCache' = run /\ secretCache' = secret /\ cmCache' = shardCM /\ jobCache' = job
    /\ runSynced' = [r \in Runs |-> TRUE]
    /\ secretSynced' = [n \in MirrorNames |-> TRUE]
    /\ queue' = Runs
    /\ pc' = "idle" /\ cur' = NoObject /\ base' = NewRun /\ copy' = NewRun
    /\ current' = FALSE /\ found' = <<>> /\ requeue' = FALSE
    /\ UNCHANGED <<apiVars, runsTotal, historyVars>>

ReconcileStep ==
    \/ \E r \in Runs : Reconcile(r)
    \/ Authenticate \/ mirrorCredential \/ discoverRepos
    \/ ensureShardConfigMap \/ ensureWorkerJob
    \/ observeJob \/ UpdateStatus

-----------------------------------------------------------------------------
(* Watch events: the cache takes the object over and the Run that owns it is  *)
(* queued (For and Owns in SetupWithManager).                                 *)

SyncRun(r) ==
    /\ ~ runSynced[r]
    /\ runCache' = [runCache EXCEPT ![r] = run[r]]
    /\ runSynced' = [runSynced EXCEPT ![r] = TRUE]
    /\ queue' = queue \cup {r}
    /\ UNCHANGED <<apiVars, secretCache, cmCache, jobCache, secretSynced, reconcileVars,
                   runsTotal, faults, historyVars>>

SyncSecret(n) ==
    /\ ~ secretSynced[n]
    /\ secretCache' = [secretCache EXCEPT ![n] = secret[n]]
    /\ secretSynced' = [secretSynced EXCEPT ![n] = TRUE]
    /\ queue' = queue \cup {secret[n].owner}
    /\ UNCHANGED <<apiVars, runCache, cmCache, jobCache, runSynced, reconcileVars,
                   runsTotal, faults, historyVars>>

SyncShardCM(r) ==
    /\ cmCache[r] # shardCM[r]
    /\ cmCache' = [cmCache EXCEPT ![r] = shardCM[r]]
    /\ queue' = queue \cup {r}
    /\ UNCHANGED <<apiVars, runCache, secretCache, jobCache, syncVars, reconcileVars,
                   runsTotal, faults, historyVars>>

(* Slip: no Owns(&batchv1.Job{}): the event wakes nobody.                     *)
SyncJobUnwatched(n) ==
    /\ jobCache[n] # job[n]
    /\ jobCache' = [jobCache EXCEPT ![n] = job[n]]
    /\ UNCHANGED <<apiVars, runCache, secretCache, cmCache, syncVars, queue, reconcileVars,
                   runsTotal, faults, historyVars>>

SyncJob(n) ==
    /\ jobCache[n] # job[n]
    /\ jobCache' = [jobCache EXCEPT ![n] = job[n]]
    /\ queue' = queue \cup {j.owner : j \in {job[n], jobCache[n]} \ {NoJob}}
    /\ UNCHANGED <<apiVars, runCache, secretCache, cmCache, syncVars, reconcileVars,
                   runsTotal, faults, historyVars>>

(* The informers' periodic resync queues a Run that nothing happened to.      *)
Resync(r) ==
    /\ r \notin queue
    /\ queue' = queue \cup {r}
    /\ UNCHANGED <<apiVars, cacheVars, syncVars, reconcileVars, runsTotal, faults, historyVars>>

CacheStep ==
    \/ \E r \in Runs : SyncRun(r) \/ SyncShardCM(r)
    \/ \E n \in MirrorNames : SyncSecret(n)
    \/ \E n \in JobNames : SyncJob(n)

-----------------------------------------------------------------------------
(* The Job controller and the worker pods of an active Job: the pod of index i*)
(* mounts the owner's ConfigMap and Secret and runs the entrypoint.  The Job   *)
(* is built with backoffLimit 0, so one failed pod fails it.                   *)

PodSucceeds(n, i) ==
    /\ job[n] # NoJob /\ JobActive(job[n])
    /\ i \in 0..(job[n].completions - 1) \ job[n].done
    /\ LET r == job[n].owner
           j == [job[n] EXCEPT !.done = @ \cup {i}]
       IN  /\ CanRead(shardCM[r], i)
           /\ job' = [job EXCEPT ![n] = j]
           /\ worked' = [worked EXCEPT ![r] = @ \cup Slugs(shardCM[r][i].repos)]
           /\ completed' = IF JobSucceeded(j) THEN completed \cup {n} ELSE completed
    /\ UNCHANGED <<run, secret, shardCM, cacheVars, syncVars, queue, reconcileVars,
                   runsTotal, faults, launched>>

PodFails(n, i) ==
    /\ job[n] # NoJob /\ JobActive(job[n])
    /\ i \in 0..(job[n].completions - 1) \ job[n].done
    /\ IF CanRead(shardCM[job[n].owner], i) THEN Fault ELSE NoFault
    /\ job' = [job EXCEPT ![n].failed = @ + 1]
    /\ UNCHANGED <<run, secret, shardCM, cacheVars, syncVars, queue, reconcileVars,
                   runsTotal, historyVars>>

(* The Job is deleted: by hand, or by its TTL once it is over.                *)
DeleteJob(n) ==
    /\ job[n] # NoJob
    /\ Fault
    /\ job' = [job EXCEPT ![n] = NoJob]
    /\ UNCHANGED <<run, secret, shardCM, cacheVars, syncVars, queue, reconcileVars,
                   runsTotal, historyVars>>

PodStep ==
    \E n \in JobNames : \E i \in 0..(job[n].completions - 1) :
        PodSucceeds(n, i) \/ PodFails(n, i)

Next ==
    \/ ReconcileStep
    \/ Crash
    \/ CacheStep
    \/ \E r \in Runs : Resync(r)
    \/ PodStep
    \/ \E n \in JobNames : DeleteJob(n)

(* The worker goroutine keeps going and the work queue is first in, first out; *)
(* every watch delivers; pods end.  Failing calls are not fair, and there are  *)
(* at most MaxFaults of them.                                                  *)
Fairness ==
    /\ WF_vars(ReconcileStep)
    /\ \A r \in Runs : SF_vars(Reconcile(r)) /\ WF_vars(SyncRun(r)) /\ WF_vars(SyncShardCM(r))
    /\ \A n \in MirrorNames : WF_vars(SyncSecret(n))
    /\ \A n \in JobNames : WF_vars(SyncJob(n))
    /\ WF_vars(PodStep)

(* Watches deliver within milliseconds, a reconcile makes several network     *)
(* calls and a retry waits a second or more: from some point on, reconciles    *)
(* start from caches that have caught up.  Before that point they may lag.     *)
CaughtUp ==
    /\ \A r \in Runs : runSynced[r] /\ cmCache[r] = shardCM[r]
    /\ \A n \in MirrorNames : secretSynced[n]
    /\ \A n \in JobNames : jobCache[n] = job[n]

EventuallyPrompt == <>[][(\E r \in Runs : Reconcile(r)) => CaughtUp]_vars

Spec == Init /\ [][Next]_vars
FairSpec == Spec /\ Fairness /\ EventuallyPrompt

-----------------------------------------------------------------------------
Secrets == [owner : Runs, tokenOf : Runs]

IsJob(n, j) ==
    /\ j = [owner |-> j.owner, completions |-> j.completions, done |-> j.done, failed |-> j.failed]
    /\ j.owner \in Runs /\ JobName[j.owner] = n
    /\ j.completions \in Nat \ {0}
    /\ j.done \subseteq 0..(j.completions - 1)
    /\ j.failed \in Nat

Calls == {"authenticate", "mirror", "discover", "shards", "job", "observe", "update"}

TypeOK ==
    /\ run \in [Runs -> Status] /\ runCache \in [Runs -> Status]
    /\ secret \in [MirrorNames -> Secrets \cup {NoSecret}]
    /\ secretCache \in [MirrorNames -> Secrets \cup {NoSecret}]
    /\ DOMAIN shardCM = Runs /\ DOMAIN cmCache = Runs
    /\ DOMAIN job = JobNames /\ DOMAIN jobCache = JobNames
    /\ \A n \in JobNames : \A j \in {job[n], jobCache[n]} : j # NoJob => IsJob(n, j)
    /\ runSynced \in [Runs -> BOOLEAN] /\ secretSynced \in [MirrorNames -> BOOLEAN]
    /\ queue \subseteq Runs
    /\ \/ pc = "idle" /\ cur = NoObject
       \/ pc \in Calls /\ cur \in Runs
    /\ base \in Status /\ copy \in Status
    /\ current \in BOOLEAN /\ requeue \in BOOLEAN
    /\ found \in Discoveries \cup {<<>>}
    /\ runsTotal \in [Runs -> 0..MaxCount] /\ faults \in 0..MaxFaults
    /\ launched \subseteq JobNames /\ completed \subseteq JobNames
    /\ DOMAIN worked = Runs

(* A client that follows status.phase sees the lifecycle promised by           *)
(* RunLifecycle, although the controller works from caches that lag, writes    *)
(* its status only at the end and may crash between any two calls: a stale      *)
(* reconcile never moves a Run backwards, never reopens a finished one, and    *)
(* never reports Running without a Job or Succeeded without a completed one.   *)
Lifecycle == INSTANCE RunLifecycle WITH
    phase     <- [r \in Runs |-> IF run[r].phase = "" THEN "Pending" ELSE run[r].phase],
    launched  <- {r \in Runs : JobName[r] \in launched},
    completed <- {r \in Runs : JobName[r] \in completed}

ImplementsLifecycle == Lifecycle!Spec

(* Whenever a worker Job exists, what its pods mount exists too: its owner's   *)
(* ConfigMap and the mirrored Secret were created before it, and no error or   *)
(* crash between the three calls leaves a Job without them.                    *)
JobHasItsInputs ==
    \A n \in JobNames : job[n] # NoJob =>
        /\ shardCM[job[n].owner] # NoShards
        /\ secret[MirrorName[job[n].owner]] # NoSecret

(* The caches hold what the API server held at some earlier time; an object   *)
(* marked synced is the API server's own.                                     *)
CachesAreOld ==
    /\ \A r \in Runs : runSynced[r] => runCache[r] = run[r]
    /\ \A r \in Runs : cmCache[r] # NoShards => shardCM[r] # NoShards
    /\ \A n \in MirrorNames : secretSynced[n] => secretCache[n] = secret[n]
    /\ \A n \in MirrorNames :
        secretCache[n] # NoSecret \/ ~ secretSynced[n] => secret[n] # NoSecret

(* What a Job, in the API server or in the cache, says of the past.           *)
JobsAreRecorded ==
    /\ completed \subseteq launched
    /\ \A n \in JobNames : \A j \in {job[n], jobCache[n]} : j # NoJob =>
        n \in launched /\ (JobSucceeded(j) => n \in completed)

HasJobRef(r, st) == st.phase \in {"Running", "Succeeded"} => st.jobRef = JobName[r]

PlanOf(st) == <<st.actualWorkers, st.discoveredRepos, st.shardRef, st.jobRef>>

(* How far the copy in memory may be from the status that was read.           *)
Unstarted == {"", "Discovering"}

CopyFollowsBase ==
    \/ base.phase \in Unstarted /\ copy.phase \in {"Discovering", "Failed"}
    \/ base.phase \in Unstarted /\ copy.phase = "Running" /\ JobName[cur] \in launched
    \/ /\ base.phase = "Running" /\ PlanOf(copy) = PlanOf(base)
       /\ \/ copy.phase \in {"Running", "Failed"}
          \/ copy.phase = "Succeeded" /\ JobName[cur] \in completed
    \/ base.phase \in Terminal /\ copy = base

ReconcileInProgress ==
    pc # "idle" =>
        /\ current => run[cur] = base
        /\ HasJobRef(cur, base) /\ HasJobRef(cur, copy)
        /\ pc \in Calls \ {"observe", "update"} =>
              base.phase \in Unstarted /\ copy.phase = "Discovering"
        /\ pc = "observe" => base.phase = "Running" /\ copy = base
        /\ pc = "update" => CopyFollowsBase
        /\ pc \in {"discover", "shards", "job"} => secret[MirrorName[cur]] # NoSecret
        /\ pc = "job" => shardCM[cur] # NoShards /\ copy.actualWorkers > 0

(* The inductive invariant behind the theorems of RenovateRunProofs.  What it  *)
(* says of the code: a status that reaches the API server was computed from    *)
(* the one it replaces, by one legal step of the Run's life.                   *)
Inv ==
    /\ TypeOK
    /\ CachesAreOld
    /\ JobsAreRecorded
    /\ \A r \in Runs : HasJobRef(r, run[r]) /\ HasJobRef(r, runCache[r])
    /\ ReconcileInProgress
    /\ JobHasItsInputs

(* BuildInput: ActualWorkers "must equal the number of shard keys in           *)
(* ShardConfigMap" for every Job, also for one created by a later reconcile    *)
(* than the ConfigMap.                                                         *)
JobMatchesShards ==
    \A n \in JobNames : job[n] # NoJob =>
        job[n].completions = Cardinality(DOMAIN shardCM[job[n].owner])

(* Succeeded: "Every shard exited 0".  Every repository in the Run's shard     *)
(* ConfigMap was processed by one of its worker pods.                          *)
SucceededMeansAllShardsRan ==
    \A r \in Runs : run[r].phase = "Succeeded" =>
        shardCM[r] # NoShards /\ PlannedRepos(shardCM[r]) \subseteq worked[r]

(* "Fixed at the Discovering -> Running transition": once a Run is Running no  *)
(* write changes its plan: worker count, repository count and Job.             *)
PlanFixedOnceRunning ==
    [][\A r \in Runs : run[r].phase \in {"Running", "Succeeded"} =>
            PlanOf(run'[r]) = PlanOf(run[r])]_vars

(* observeJob "transitions to Succeeded or Failed when terminal": a finished   *)
(* Run has no worker Job still at work.                                        *)
NoWorkAfterTerminal ==
    \A r \in Runs : run[r].phase \in Terminal =>
        \/ job[JobName[r]] = NoJob
        \/ ~ JobActive(job[JobName[r]])

(* Metrics do not lose a Run: however conflicts, crashes and stale caches cut  *)
(* reconciles short, a Run whose phase is terminal was counted in              *)
(* renovate_runs_total.  It may have been counted more than once, since the     *)
(* count comes before a status write that may be refused.                       *)
TerminalIsCounted == \A r \in Runs : run[r].phase \in Terminal => runsTotal[r] > 0

(* Every Run comes to an end: once calls stop failing, no lost watch event,    *)
(* conflict or restart leaves a Run in Discovering or Running for ever, which  *)
(* under concurrencyPolicy Forbid would stop its Scan.                         *)
EveryRunEnds == \A r \in Runs : <>[](run[r].phase \in Terminal)
=============================================================================
