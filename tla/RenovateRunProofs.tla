------------------------- MODULE RenovateRunProofs -------------------------
(* Proofs about RenovateRun, for every set of Runs, every naming of their Jobs *)
(* and Secrets, every discovery result and every number of faults.             *)
EXTENDS RenovateRun, ShardingProofs

-----------------------------------------------------------------------------
(* What discoverRepos returned is a sequence of slugs.                         *)
LEMMA FoundIsSequence ==
    ASSUME TypeOK
    PROVE  found \in Seq(Nat)
  <1>1. found \in Discoveries \/ found = <<>>
    BY DEF TypeOK
  <1>2. <<>> \in Seq(Nat)
    OBVIOUS
  <1> QED
    BY <1>1, <1>2, DiscoveriesAssumption DEF DiscoveriesAssumption

(* A plan that ensureShardConfigMap accepts has a worker and a ConfigMap to store. *)
LEMMA PlanIsUsable ==
    ASSUME TypeOK, ShardPlan.err = "none"
    PROVE  ShardPlan.actualWorkers \in Nat \ {0} /\ ShardPlan.data # NoShards
  <1>1. EffectiveBounds \in WorkerBounds
    BY WorkersAssumption DEF WorkersAssumption, EffectiveBounds, WorkerBounds
  <1> QED
    BY <1>1, FoundIsSequence, BuildGivesAPlan DEF ShardPlan, NoShards

-----------------------------------------------------------------------------
(* The inductive invariant: the initial states have it.                        *)

(* JobName and MirrorName give every Run a name, and NoObject is not one.      *)
LEMMA NamesAreNames ==
    /\ \A r \in Runs : JobName[r] \in JobNames /\ MirrorName[r] \in MirrorNames
    /\ NoObject \notin Runs /\ NoObject \notin JobNames
  BY NamesAssumption DEF NamesAssumption, JobNames, MirrorNames

(* The status of a Run that nobody has reconciled is well formed.              *)
LEMMA NewRunIsStatus == NewRun \in Status
  BY DEF NewRun, Status, Phases, Failures

(* Fresh Runs, empty caches and a controller that has not started.             *)
LEMMA InitInv == Init => Inv
  <1> SUFFICES ASSUME Init PROVE Inv
    OBVIOUS
  <1> USE DEF Init
  <1>2. TypeOK
    <2>1. /\ run \in [Runs -> Status] /\ runCache \in [Runs -> Status]
          /\ base \in Status /\ copy \in Status
      BY NewRunIsStatus
    <2>2. /\ secret \in [MirrorNames -> Secrets \cup {NoSecret}]
          /\ secretCache \in [MirrorNames -> Secrets \cup {NoSecret}]
      OBVIOUS
    <2>3. \A n \in JobNames : job[n] = NoJob /\ jobCache[n] = NoJob
      OBVIOUS
    <2>4. runsTotal \in [Runs -> 0..MaxCount] /\ faults \in 0..MaxFaults
      BY FaultsAssumption DEF FaultsAssumption, MaxCount
    <2> QED
      BY <2>1, <2>2, <2>3, <2>4 DEF TypeOK
  <1>3. CachesAreOld /\ JobsAreRecorded
    BY DEF CachesAreOld, JobsAreRecorded
  <1>4. \A r \in Runs : HasJobRef(r, run[r]) /\ HasJobRef(r, runCache[r])
    BY DEF HasJobRef, NewRun
  <1>5. ReconcileInProgress /\ JobHasItsInputs
    BY DEF ReconcileInProgress, JobHasItsInputs
  <1> QED
    BY <1>2, <1>3, <1>4, <1>5 DEF Inv

-----------------------------------------------------------------------------
(* What the statements that change the in-memory status leave alone.           *)

(* Setting the Started condition touches neither phase nor Job reference.      *)
LEMMA StartedChanges ==
    ASSUME NEW st \in Status, NEW value \in {"True", "False"}
    PROVE  LET t == [st EXCEPT !.started = value]
           IN  t \in Status /\ t.phase = st.phase /\ t.jobRef = st.jobRef
               /\ t.actualWorkers = st.actualWorkers
  BY DEF Status

(* Admitting a Run makes it Discovering.                                       *)
LEMMA AdmittedChanges ==
    ASSUME NEW st \in Status
    PROVE  LET t == [st EXCEPT !.phase = "Discovering", !.started = "True"]
           IN  t \in Status /\ t.phase = "Discovering"
  BY DEF Status, Phases

(* markFailed sets the phase and the failure, and leaves the plan.             *)
LEMMA FailureChanges ==
    ASSUME NEW st \in Status, NEW why \in Failures
    PROVE  LET t == [st EXCEPT !.phase = "Failed", !.failure = why]
           IN  /\ t \in Status /\ t.phase = "Failed" /\ t.jobRef = st.jobRef
               /\ PlanOf(t) = PlanOf(st)
  BY DEF Status, Phases, PlanOf

-----------------------------------------------------------------------------
(* A step that leaves the API server, the caches and the history alone keeps   *)
(* the parts of the invariant that speak of nothing else.                       *)

WorldUnchanged == UNCHANGED <<apiVars, cacheVars, syncVars, historyVars>>

(* A step of the controller alone keeps the invariant if it keeps what the     *)
(* invariant says of the reconcile in progress.                                *)
LEMMA WorldKeepsInv ==
    ASSUME Inv, WorldUnchanged, TypeOK', ReconcileInProgress'
    PROVE  Inv'
  <1> USE DEF WorldUnchanged, apiVars, cacheVars, syncVars, historyVars
  <1>1. CachesAreOld'
    BY DEF Inv, CachesAreOld
  <1>2. JobsAreRecorded'
    BY DEF Inv, JobsAreRecorded
  <1>3. (\A r \in Runs : HasJobRef(r, run[r]) /\ HasJobRef(r, runCache[r]))'
    BY DEF Inv, HasJobRef
  <1>4. JobHasItsInputs'
    BY DEF Inv, JobHasItsInputs
  <1> QED
    BY <1>1, <1>2, <1>3, <1>4 DEF Inv

(* The same for the types.                                                     *)
LEMMA WorldKeepsTypes ==
    ASSUME TypeOK, WorldUnchanged, queue' \subseteq Runs,
           \/ pc' = "idle" /\ cur' = NoObject
           \/ pc' \in Calls /\ cur' \in Runs,
           base' \in Status, copy' \in Status, current' \in BOOLEAN, requeue' \in BOOLEAN,
           found' \in Discoveries \cup {<<>>},
           runsTotal' \in [Runs -> 0..MaxCount], faults' \in 0..MaxFaults
    PROVE  TypeOK'
  <1> USE DEF WorldUnchanged, apiVars, cacheVars, syncVars, historyVars
  <1>1. /\ run' \in [Runs -> Status] /\ runCache' \in [Runs -> Status]
        /\ secret' \in [MirrorNames -> Secrets \cup {NoSecret}]
        /\ secretCache' \in [MirrorNames -> Secrets \cup {NoSecret}]
        /\ runSynced' \in [Runs -> BOOLEAN] /\ secretSynced' \in [MirrorNames -> BOOLEAN]
    BY DEF TypeOK
  <1>2. \A n \in JobNames : \A j \in {job'[n], jobCache'[n]} : j # NoJob => IsJob(n, j)
    BY DEF TypeOK
  <1> QED
    BY <1>1, <1>2 DEF TypeOK

-----------------------------------------------------------------------------
(* Every step of the reconcile keeps it.                                       *)

(* Taking a Run from the queue and branching on its phase.                     *)
LEMMA ReconcileKeepsInv ==
    ASSUME Inv, NEW r \in Runs, Reconcile(r)
    PROVE  Inv'
  <1>1. runCache[r] \in Status /\ runSynced[r] \in BOOLEAN
    BY DEF Inv, TypeOK
  <1>2. WorldUnchanged
    BY DEF Reconcile, WorldUnchanged
  <1>3. /\ cur' = r /\ base' = runCache[r] /\ run' = run
        /\ \/ /\ base'.phase \in Unstarted /\ pc' = "authenticate"
              /\ copy' \in Status /\ copy'.phase = "Discovering"
           \/ base'.phase = "Running" /\ pc' = "observe" /\ copy' = base'
           \/ base'.phase \in Terminal /\ pc' = "update" /\ copy' = base'
    BY <1>1, AdmittedChanges DEF Reconcile, Unstarted, apiVars
  <1>4. TypeOK'
    <2>1. current' \in BOOLEAN
      BY <1>1 DEF Reconcile
    <2>2. pc' \in Calls /\ base' \in Status /\ copy' \in Status
      BY <1>1, <1>3 DEF Calls
    <2> QED
      BY <1>2, <1>3, <2>1, <2>2, WorldKeepsTypes DEF Reconcile, Inv, TypeOK
  <1>5. current' => run'[cur'] = base'
    BY <1>2, <1>3 DEF Reconcile, Inv, CachesAreOld
  <1>6. HasJobRef(r, base') /\ HasJobRef(r, copy')
    BY <1>3 DEF Inv, HasJobRef
  <1>7. ReconcileInProgress'
    BY <1>3, <1>5, <1>6 DEF ReconcileInProgress, HasJobRef, CopyFollowsBase, Calls
  <1> QED
    BY <1>2, <1>4, <1>7, WorldKeepsInv

DiscoverCalls == {"authenticate", "mirror", "discover", "shards", "job"}

(* MaxFaults bounds the failures, whether or not the step is one.              *)
LEMMA FaultsStayBounded ==
    ASSUME TypeOK, Fault \/ NoFault
    PROVE  faults' \in 0..MaxFaults
  BY FaultsAssumption DEF FaultsAssumption, TypeOK, Fault, NoFault

(* recordRunTerminal counts up to MaxCount.                                    *)
LEMMA CountStaysBounded ==
    ASSUME TypeOK, cur \in Runs, recordRunTerminal
    PROVE  runsTotal' \in [Runs -> 0..MaxCount]
  <1>1. runsTotal[cur] \in 0..2
    BY DEF TypeOK, MaxCount
  <1> QED
    BY <1>1 DEF TypeOK, recordRunTerminal, MaxCount

(* What the invariant says while a Run is being discovered.                    *)
LEMMA WhileDiscovering ==
    ASSUME Inv, pc \in DiscoverCalls
    PROVE  /\ cur \in Runs /\ base \in Status /\ copy \in Status
           /\ current \in BOOLEAN /\ (current => run[cur] = base)
           /\ base.phase \in Unstarted /\ copy.phase = "Discovering"
           /\ HasJobRef(cur, base)
  <1>1. pc # "idle" /\ pc \in Calls \ {"observe", "update"}
    BY DEF DiscoverCalls, Calls
  <1> QED
    BY <1>1 DEF Inv, TypeOK, ReconcileInProgress

(* The reconcile itself after an error that is retried, whatever became of the *)
(* call.                                                                       *)
LEMMA RetryKeepsReconcile ==
    ASSUME Inv, pc \in DiscoverCalls, markTransient,
           Fault \/ NoFault, UNCHANGED <<run, queue, found>>
    PROVE  /\ queue' \subseteq Runs /\ pc' \in Calls /\ cur' \in Runs
           /\ base' \in Status /\ copy' \in Status
           /\ current' \in BOOLEAN /\ requeue' \in BOOLEAN
           /\ found' \in Discoveries \cup {<<>>}
           /\ runsTotal' \in [Runs -> 0..MaxCount] /\ faults' \in 0..MaxFaults
           /\ ReconcileInProgress'
  <1>1. copy' \in Status /\ copy'.phase = "Discovering"
    BY WhileDiscovering, StartedChanges DEF markTransient
  <1>2. pc' = "update" /\ requeue' = TRUE /\ UNCHANGED <<cur, base, current, runsTotal>>
    BY DEF markTransient
  <1>3. ReconcileInProgress'
    BY <1>1, <1>2, WhileDiscovering
    DEF ReconcileInProgress, HasJobRef, CopyFollowsBase, Calls
  <1>4. /\ queue' \subseteq Runs /\ found' \in Discoveries \cup {<<>>}
        /\ runsTotal' \in [Runs -> 0..MaxCount] /\ faults' \in 0..MaxFaults
    BY <1>2, FaultsStayBounded DEF Inv, TypeOK
  <1> QED
    BY <1>1, <1>2, <1>3, <1>4, WhileDiscovering DEF Calls

(* An error that is retried ends the reconcile with Started=False.             *)
LEMMA RetryKeepsInv ==
    ASSUME Inv, pc \in DiscoverCalls, markTransient, WorldUnchanged,
           Fault \/ NoFault, UNCHANGED <<queue, found>>
    PROVE  Inv'
  <1>1. UNCHANGED run
    BY DEF WorldUnchanged, apiVars
  <1>2. TypeOK' /\ ReconcileInProgress'
    BY <1>1, RetryKeepsReconcile, WorldKeepsTypes DEF Inv
  <1> QED
    BY <1>2, WorldKeepsInv

(* A permanent error ends it with the Run marked Failed.                       *)
LEMMA FailKeepsInv ==
    ASSUME Inv, pc \in DiscoverCalls, NEW why \in Failures, markFailed(why), WorldUnchanged,
           Fault \/ NoFault, UNCHANGED queue, found' \in Discoveries \cup {<<>>}
    PROVE  Inv'
  <1>1. copy' \in Status /\ copy'.phase = "Failed"
    BY WhileDiscovering, FailureChanges DEF markFailed
  <1>2. /\ pc' = "update" /\ run' = run /\ recordRunTerminal
        /\ UNCHANGED <<cur, base, current, requeue>>
    BY DEF markFailed, Goto, WorldUnchanged, apiVars
  <1>3. TypeOK'
    <2>1. /\ queue' \subseteq Runs /\ requeue' \in BOOLEAN
          /\ runsTotal' \in [Runs -> 0..MaxCount]
      BY <1>2, CountStaysBounded, WhileDiscovering DEF Inv, TypeOK
    <2> QED
      BY <1>1, <1>2, <2>1, FaultsStayBounded, WhileDiscovering, WorldKeepsTypes DEF Inv, Calls
  <1>4. ReconcileInProgress'
    BY <1>1, <1>2, WhileDiscovering
    DEF ReconcileInProgress, HasJobRef, CopyFollowsBase, Calls
  <1> QED
    BY <1>3, <1>4, WorldKeepsInv

(* Reading the source Secret and minting a token, or failing to.               *)
LEMMA AuthenticateKeepsInv ==
    ASSUME Inv, Authenticate
    PROVE  Inv'
  <1>1. pc = "authenticate" /\ pc \in DiscoverCalls
    BY DEF Authenticate, DiscoverCalls
  <1>2. WorldUnchanged /\ UNCHANGED <<queue, found>>
    BY DEF Authenticate, WorldUnchanged
  <1>3. CASE Goto("mirror") /\ NoFault /\ UNCHANGED <<copy, runsTotal>>
    <2>1. pc' = "mirror" /\ UNCHANGED <<run, cur, base, current, requeue, copy, runsTotal, queue, found>>
      BY <1>2, <1>3 DEF Goto, WorldUnchanged, apiVars
    <2>2. TypeOK'
      <3>1. /\ queue' \subseteq Runs /\ found' \in Discoveries \cup {<<>>}
            /\ requeue' \in BOOLEAN /\ runsTotal' \in [Runs -> 0..MaxCount]
        BY <2>1 DEF Inv, TypeOK
      <3> QED
        BY <1>1, <1>2, <1>3, <2>1, <3>1, FaultsStayBounded, WhileDiscovering, WorldKeepsTypes
        DEF Inv, Calls
    <2>3. ReconcileInProgress'
      BY <1>1, <2>1, WhileDiscovering DEF ReconcileInProgress, HasJobRef, Calls
    <2> QED
      BY <1>2, <2>2, <2>3, WorldKeepsInv
  <1>4. CASE RetryOnError(~ CredentialsValid)
    BY <1>1, <1>2, <1>4, RetryKeepsInv DEF RetryOnError
  <1>5. CASE markFailed("client") /\ Fault
    <2>1. found' \in Discoveries \cup {<<>>} /\ "client" \in Failures
      BY <1>2 DEF Inv, TypeOK, Failures
    <2> QED
      BY <1>1, <1>2, <1>5, <2>1, FailKeepsInv
  <1> QED
    BY <1>3, <1>4, <1>5 DEF Authenticate

(* A call that succeeds and hands over to the next one, WhileDiscovering.      *)
LEMMA ProceedKeepsTypes ==
    ASSUME Inv, pc \in DiscoverCalls, NEW next \in Calls, Goto(next), NoFault,
           copy' \in Status, found' \in Discoveries \cup {<<>>}, UNCHANGED <<queue, runsTotal>>
    PROVE  /\ queue' \subseteq Runs /\ pc' \in Calls /\ cur' \in Runs
           /\ base' \in Status /\ copy' \in Status
           /\ current' \in BOOLEAN /\ requeue' \in BOOLEAN
           /\ found' \in Discoveries \cup {<<>>}
           /\ runsTotal' \in [Runs -> 0..MaxCount] /\ faults' \in 0..MaxFaults
  BY WhileDiscovering DEF Goto, NoFault, Inv, TypeOK

(* After mirrorCredential the Secret exists, or the Run is retried.            *)
LEMMA MirrorKeepsInv ==
    ASSUME Inv, mirrorCredential
    PROVE  Inv'
  <1> DEFINE n == MirrorName[cur]
             refused == IF secretCache[n] = NoSecret THEN secret[n] # NoSecret
                                                     ELSE ~ secretSynced[n]
  <1>1. pc = "mirror" /\ pc \in DiscoverCalls
    BY DEF mirrorCredential, DiscoverCalls
  <1>2. n \in MirrorNames /\ cur \in Runs
    BY <1>1, WhileDiscovering, NamesAreNames
  <1>3. UNCHANGED <<run, shardCM, job, cacheVars, runSynced, queue, found, historyVars>>
    BY DEF mirrorCredential
  <1>4. CASE /\ \/ Goto("discover") /\ NoFault /\ UNCHANGED <<copy, runsTotal>>
                \/ AnswerLost
             /\ secret' = [secret EXCEPT ![n] =
                    IF @ = NoSecret THEN BuildMirror(cur) ELSE [@ EXCEPT !.tokenOf = cur]]
             /\ secretSynced' = [secretSynced EXCEPT ![n] = FALSE]
    <2>1. /\ secret' \in [MirrorNames -> Secrets \cup {NoSecret}]
          /\ secret'[n] # NoSecret
          /\ \A m \in MirrorNames : m # n => secret'[m] = secret[m]
      <3>1. secret \in [MirrorNames -> Secrets \cup {NoSecret}]
        BY DEF Inv, TypeOK
      <3>2. BuildMirror(cur) \in Secrets /\ BuildMirror(cur) # NoSecret
        BY <1>2, NamesAreNames DEF BuildMirror, Secrets, NoSecret
      <3>3. \A s \in Secrets : [s EXCEPT !.tokenOf = cur] \in Secrets
        BY <1>2 DEF Secrets
      <3>4. NoSecret \notin Secrets
        BY NamesAreNames DEF NoSecret, Secrets
      <3>5. secret[n] \in Secrets \/ secret[n] = NoSecret
        BY <1>2, <3>1
      <3> QED
        BY <1>2, <1>4, <3>1, <3>2, <3>3, <3>4, <3>5
    <2>2. /\ queue' \subseteq Runs /\ pc' \in Calls /\ cur' \in Runs
          /\ base' \in Status /\ copy' \in Status
          /\ current' \in BOOLEAN /\ requeue' \in BOOLEAN
          /\ found' \in Discoveries \cup {<<>>}
          /\ runsTotal' \in [Runs -> 0..MaxCount] /\ faults' \in 0..MaxFaults
          /\ ReconcileInProgress'
      <3>1. CASE Goto("discover") /\ NoFault /\ UNCHANGED <<copy, runsTotal>>
        <4>1. copy' \in Status /\ found' \in Discoveries \cup {<<>>} /\ "discover" \in Calls
          BY <1>1, <1>3, <3>1, WhileDiscovering DEF Inv, TypeOK, Calls
        <4>2. pc' = "discover" /\ UNCHANGED <<cur, base, current, copy, run>>
          BY <1>3, <3>1 DEF Goto
        <4>3. ReconcileInProgress'
          BY <1>1, <2>1, <4>2, WhileDiscovering DEF ReconcileInProgress, HasJobRef, Calls
        <4> QED
          BY <1>1, <1>3, <3>1, <4>1, <4>3, ProceedKeepsTypes
      <3>2. CASE AnswerLost
        BY <1>1, <1>3, <3>2, RetryKeepsReconcile DEF AnswerLost
      <3> QED
        BY <1>4, <3>1, <3>2
    <2>3. secretSynced' \in [MirrorNames -> BOOLEAN]
      BY <1>4 DEF Inv, TypeOK
    <2>4. TypeOK'
      BY <1>3, <2>1, <2>2, <2>3 DEF Inv, TypeOK, cacheVars, historyVars
    <2>5. CachesAreOld'
      <3>1. \A m \in MirrorNames : secretSynced'[m] => m # n /\ secretSynced[m]
        BY <1>2, <1>4 DEF Inv, TypeOK
      <3>2. \A m \in MirrorNames : secretSynced'[m] => secretCache'[m] = secret'[m]
        BY <1>3, <2>1, <3>1 DEF Inv, CachesAreOld, cacheVars
      <3>3. \A m \in MirrorNames :
                secretCache'[m] # NoSecret \/ ~ secretSynced'[m] => secret'[m] # NoSecret
        BY <1>2, <1>3, <1>4, <2>1 DEF Inv, TypeOK, CachesAreOld, cacheVars
      <3> QED
        BY <1>3, <3>2, <3>3 DEF Inv, CachesAreOld, cacheVars
    <2>6. JobsAreRecorded'
      BY <1>3 DEF Inv, JobsAreRecorded, cacheVars, historyVars
    <2>7. (\A r \in Runs : HasJobRef(r, run[r]) /\ HasJobRef(r, runCache[r]))'
      BY <1>3 DEF Inv, HasJobRef, cacheVars
    <2>8. JobHasItsInputs'
      <3>1. \A m \in MirrorNames : secret[m] # NoSecret => secret'[m] # NoSecret
        BY <2>1
      <3>2. \A m \in JobNames : job[m] # NoJob => MirrorName[job[m].owner] \in MirrorNames
        BY NamesAreNames DEF Inv, TypeOK, IsJob
      <3> QED
        BY <1>3, <3>1, <3>2 DEF Inv, JobHasItsInputs
    <2> QED
      BY <2>2, <2>4, <2>5, <2>6, <2>7, <2>8 DEF Inv
  <1>5. CASE RetryOnError(refused) /\ UNCHANGED <<secret, secretSynced>>
    <2>1. WorldUnchanged
      BY <1>3, <1>5 DEF WorldUnchanged, apiVars, syncVars
    <2> QED
      BY <1>1, <1>3, <1>5, <2>1, RetryKeepsInv DEF RetryOnError
  <1> QED
    BY <1>4, <1>5 DEF mirrorCredential

(* Discovery finds repositories, finds none, or fails.                         *)
LEMMA DiscoverKeepsInv ==
    ASSUME Inv, discoverRepos
    PROVE  Inv'
  <1>1. pc = "discover" /\ pc \in DiscoverCalls
    BY DEF discoverRepos, DiscoverCalls
  <1>2. WorldUnchanged /\ UNCHANGED queue
    BY DEF discoverRepos, WorldUnchanged
  <1>3. ASSUME NEW repos \in Discoveries, found' = repos, NoFault, markFailed("noRepos")
        PROVE  Inv'
    BY <1>1, <1>2, <1>3, FailKeepsInv DEF Failures
  <1>4. ASSUME NEW repos \in Discoveries, found' = repos, NoFault,
               Goto("shards"), UNCHANGED <<copy, runsTotal>>
        PROVE  Inv'
    <2>1. copy' \in Status /\ found' \in Discoveries \cup {<<>>} /\ "shards" \in Calls
      BY <1>1, <1>4, WhileDiscovering DEF Calls
    <2>2. TypeOK'
      BY <1>1, <1>2, <1>4, <2>1, ProceedKeepsTypes, WorldKeepsTypes DEF Inv
    <2>3. /\ pc' = "shards" /\ UNCHANGED <<cur, base, current, copy, run, secret>>
          /\ secret[MirrorName[cur]] # NoSecret
      BY <1>1, <1>2, <1>4 DEF Goto, WorldUnchanged, apiVars, Inv, ReconcileInProgress
    <2>4. ReconcileInProgress'
      BY <1>1, <2>3, WhileDiscovering DEF ReconcileInProgress, HasJobRef, Calls
    <2> QED
      BY <1>2, <2>2, <2>4, WorldKeepsInv
  <1>5. CASE markTransient /\ Fault /\ UNCHANGED found
    BY <1>1, <1>2, <1>5, RetryKeepsInv
  <1>6. CASE markFailed("discovery") /\ Fault /\ UNCHANGED found
    <2>1. found' \in Discoveries \cup {<<>>} /\ "discovery" \in Failures
      BY <1>6 DEF Inv, TypeOK, Failures
    <2> QED
      BY <1>1, <1>2, <1>6, <2>1, FailKeepsInv
  <1> QED
    BY <1>3, <1>4, <1>5, <1>6 DEF discoverRepos

(* After ensureShardConfigMap the ConfigMap exists and the copy has a worker   *)
(* count, or the Run is retried.                                               *)
LEMMA ShardsKeepsInv ==
    ASSUME Inv, ensureShardConfigMap
    PROVE  Inv'
  <1> DEFINE exists == cmCache[cur] # NoShards
             planned == /\ copy' = [copy EXCEPT !.discoveredRepos = Len(found),
                                                !.actualWorkers = ShardPlan.actualWorkers,
                                                !.shardRef = TRUE]
                        /\ Goto("job") /\ NoFault /\ UNCHANGED runsTotal
             refused == ShardPlan.err # "none" \/ (~ exists /\ shardCM[cur] # NoShards)
  <1>1. pc = "shards" /\ pc \in DiscoverCalls
    BY DEF ensureShardConfigMap, DiscoverCalls
  <1>2. UNCHANGED <<run, secret, job, cacheVars, syncVars, queue, found, historyVars>>
    BY DEF ensureShardConfigMap
  <1>3. CASE /\ ~ refused
             /\ shardCM' = IF exists THEN shardCM ELSE [shardCM EXCEPT ![cur] = ShardPlan.data]
             /\ \/ planned
                \/ AnswerLost
    <2>1. ShardPlan.actualWorkers \in Nat \ {0} /\ ShardPlan.data # NoShards
      BY <1>3, PlanIsUsable DEF Inv
    <2>2. /\ DOMAIN shardCM' = Runs /\ shardCM'[cur] # NoShards
          /\ \A r \in Runs : shardCM[r] # NoShards => shardCM'[r] # NoShards
      <3>1. DOMAIN shardCM = Runs /\ cur \in Runs /\ (exists => shardCM[cur] # NoShards)
        BY <1>1, WhileDiscovering DEF Inv, TypeOK, CachesAreOld
      <3> HIDE DEF exists, planned
      <3> QED
        BY <1>3, <2>1, <3>1
    <2>3. /\ queue' \subseteq Runs /\ pc' \in Calls /\ cur' \in Runs
          /\ base' \in Status /\ copy' \in Status
          /\ current' \in BOOLEAN /\ requeue' \in BOOLEAN
          /\ found' \in Discoveries \cup {<<>>}
          /\ runsTotal' \in [Runs -> 0..MaxCount] /\ faults' \in 0..MaxFaults
          /\ ReconcileInProgress'
      <3>1. CASE planned
        <4>1. Len(found) \in Nat
          BY FoundIsSequence DEF Inv
        <4>2. \A len \in Nat, w \in Nat \ {0} :
                  LET t == [copy EXCEPT !.discoveredRepos = len, !.actualWorkers = w,
                                        !.shardRef = TRUE]
                  IN  t \in Status /\ t.phase = copy.phase /\ t.actualWorkers = w
          BY <1>1, WhileDiscovering DEF Status
        <4>3. /\ copy' \in Status /\ copy'.phase = copy.phase
              /\ copy'.actualWorkers = ShardPlan.actualWorkers
          BY <2>1, <3>1, <4>1, <4>2
        <4>4. /\ copy' \in Status /\ copy'.phase = "Discovering"
              /\ copy'.actualWorkers > 0
          BY <1>1, <2>1, <4>3, WhileDiscovering
        <4>5. found' \in Discoveries \cup {<<>>} /\ "job" \in Calls
          BY <1>2 DEF Inv, TypeOK, Calls
        <4>6. ReconcileInProgress'
          <5>1. /\ pc' = "job" /\ UNCHANGED <<cur, base, current, run, secret>>
                /\ secret[MirrorName[cur]] # NoSecret
            BY <1>1, <1>2, <3>1 DEF Goto, Inv, ReconcileInProgress
          <5> QED
            BY <1>1, <2>2, <4>4, <5>1, WhileDiscovering DEF ReconcileInProgress, HasJobRef, Calls
        <4> QED
          BY <1>1, <1>2, <3>1, <4>4, <4>5, <4>6, ProceedKeepsTypes
      <3>2. CASE AnswerLost
        BY <1>1, <1>2, <3>2, RetryKeepsReconcile DEF AnswerLost
      <3> HIDE DEF planned
      <3> QED
        BY <1>3, <3>1, <3>2
    <2>4. TypeOK'
      BY <1>2, <2>2, <2>3 DEF Inv, TypeOK, cacheVars, syncVars, historyVars
    <2>5. CachesAreOld'
      BY <1>2, <2>2 DEF Inv, CachesAreOld, cacheVars, syncVars
    <2>6. JobsAreRecorded'
      BY <1>2 DEF Inv, JobsAreRecorded, cacheVars, historyVars
    <2>7. (\A r \in Runs : HasJobRef(r, run[r]) /\ HasJobRef(r, runCache[r]))'
      BY <1>2 DEF Inv, HasJobRef, cacheVars
    <2>8. JobHasItsInputs'
      <3>1. \A n \in JobNames : job[n] # NoJob => job[n].owner \in Runs
        BY DEF Inv, TypeOK, IsJob
      <3> QED
        BY <1>2, <2>2, <3>1 DEF Inv, JobHasItsInputs
    <2> QED
      BY <2>3, <2>4, <2>5, <2>6, <2>7, <2>8 DEF Inv
  <1>4. CASE RetryOnError(refused) /\ UNCHANGED shardCM
    <2>1. WorldUnchanged
      BY <1>2, <1>4 DEF WorldUnchanged, apiVars
    <2> QED
      BY <1>1, <1>2, <1>4, <2>1, RetryKeepsInv DEF RetryOnError
  <1> QED
    BY <1>3, <1>4 DEF ensureShardConfigMap

(* A Job that has just been created is one, and it is not complete.            *)
LEMMA NewJobIsJob ==
    ASSUME NEW r \in Runs, NEW w \in Nat \ {0}
    PROVE  /\ IsJob(JobName[r], NewJob(r, w)) /\ NewJob(r, w) # NoJob
           /\ NewJob(r, w).owner = r
           /\ ~ JobSucceeded(NewJob(r, w))
  BY NamesAreNames, FS_EmptySet DEF IsJob, NewJob, NoJob, JobSucceeded

(* ensureWorkerJob creates a Job whose inputs exist, or takes the one it finds. *)
LEMMA JobKeepsInv ==
    ASSUME Inv, ensureWorkerJob
    PROVE  Inv'
  <1> DEFINE n == JobName[cur]
             exists == jobCache[n] # NoJob
             dispatched == /\ copy' = [copy EXCEPT !.jobRef = n, !.phase = "Running"]
                           /\ Goto("update") /\ NoFault /\ UNCHANGED runsTotal
             refused == ~ exists /\ job[n] # NoJob
  <1>1. pc = "job" /\ pc \in DiscoverCalls
    BY DEF ensureWorkerJob, DiscoverCalls
  <1>2. UNCHANGED <<run, secret, shardCM, cacheVars, syncVars, queue, found, completed, worked>>
    BY DEF ensureWorkerJob
  <1>3. CASE /\ ~ refused
             /\ job' = IF exists THEN job
                       ELSE [job EXCEPT ![n] = NewJob(cur, copy.actualWorkers)]
             /\ launched' = IF exists THEN launched ELSE launched \cup {n}
             /\ \/ dispatched
                \/ AnswerLost
    <2>1. /\ cur \in Runs /\ n \in JobNames
          /\ copy.actualWorkers \in Nat \ {0}
          /\ shardCM[cur] # NoShards /\ secret[MirrorName[cur]] # NoSecret
      <3>1. copy.actualWorkers > 0 /\ shardCM[cur] # NoShards /\ secret[MirrorName[cur]] # NoSecret
        BY <1>1 DEF Inv, ReconcileInProgress
      <3> QED
        BY <1>1, <3>1, WhileDiscovering, NamesAreNames DEF Status
    <2>2. /\ DOMAIN job' = JobNames /\ n \in launched'
          /\ launched \subseteq launched' /\ launched' \subseteq JobNames
          /\ \A m \in JobNames :
                \/ job'[m] = job[m]
                \/ m = n /\ job'[m] = NewJob(cur, copy.actualWorkers)
      <3>1. DOMAIN job = JobNames /\ launched \subseteq JobNames /\ (exists => n \in launched)
        BY <2>1 DEF Inv, TypeOK, JobsAreRecorded
      <3> HIDE DEF exists, n, dispatched
      <3> QED
        BY <1>3, <2>1, <3>1
    <2>3. /\ queue' \subseteq Runs /\ pc' \in Calls /\ cur' \in Runs
          /\ base' \in Status /\ copy' \in Status
          /\ current' \in BOOLEAN /\ requeue' \in BOOLEAN
          /\ found' \in Discoveries \cup {<<>>}
          /\ runsTotal' \in [Runs -> 0..MaxCount] /\ faults' \in 0..MaxFaults
          /\ ReconcileInProgress'
      <3>1. CASE dispatched
        <4>1. copy' \in Status /\ copy'.phase = "Running" /\ copy'.jobRef = n
          BY <1>1, <2>1, <3>1, WhileDiscovering DEF Status, Phases
        <4>2. found' \in Discoveries \cup {<<>>} /\ "update" \in Calls
          BY <1>2 DEF Inv, TypeOK, Calls
        <4>3. ReconcileInProgress'
          <5>1. pc' = "update" /\ UNCHANGED <<cur, base, current, run>>
            BY <1>2, <3>1 DEF Goto
          <5> QED
            BY <1>1, <2>2, <4>1, <5>1, WhileDiscovering
            DEF ReconcileInProgress, HasJobRef, CopyFollowsBase, Calls
        <4> QED
          BY <1>1, <1>2, <3>1, <4>1, <4>2, <4>3, ProceedKeepsTypes
      <3>2. CASE AnswerLost
        BY <1>1, <1>2, <3>2, RetryKeepsReconcile DEF AnswerLost
      <3> HIDE DEF dispatched
      <3> QED
        BY <1>3, <3>1, <3>2
    <2>4. TypeOK'
      <3>1. \A m \in JobNames : \A j \in {job'[m], jobCache'[m]} : j # NoJob => IsJob(m, j)
        BY <1>2, <2>1, <2>2, NewJobIsJob DEF Inv, TypeOK, cacheVars
      <3> QED
        BY <1>2, <2>2, <2>3, <3>1 DEF Inv, TypeOK, cacheVars, syncVars
    <2>5. CachesAreOld'
      BY <1>2 DEF Inv, CachesAreOld, cacheVars, syncVars
    <2>6. JobsAreRecorded'
      BY <1>2, <2>1, <2>2, NewJobIsJob DEF Inv, JobsAreRecorded, cacheVars
    <2>7. (\A r \in Runs : HasJobRef(r, run[r]) /\ HasJobRef(r, runCache[r]))'
      BY <1>2 DEF Inv, HasJobRef, cacheVars
    <2>8. JobHasItsInputs'
      BY <1>2, <2>1, <2>2, NewJobIsJob DEF Inv, JobHasItsInputs
    <2> QED
      BY <2>3, <2>4, <2>5, <2>6, <2>7, <2>8 DEF Inv
  <1>4. CASE RetryOnError(refused) /\ UNCHANGED <<job, launched>>
    <2>1. WorldUnchanged
      BY <1>2, <1>4 DEF WorldUnchanged, apiVars, historyVars
    <2> QED
      BY <1>1, <1>2, <1>4, <2>1, RetryKeepsInv DEF RetryOnError
  <1> QED
    BY <1>3, <1>4 DEF ensureWorkerJob

(* The succeeded indexes of a Job can be counted.                              *)
LEMMA DoneIsFinite ==
    ASSUME NEW n, NEW j, IsJob(n, j)
    PROVE  Cardinality(j.done) \in Nat
  <1>1. j.completions - 1 \in Int /\ j.done \subseteq 0..(j.completions - 1)
    BY DEF IsJob
  <1>2. IsFiniteSet(0..(j.completions - 1))
    <2> DEFINE b == j.completions - 1
    <2>1. b \in Int
      BY <1>1
    <2> HIDE DEF b
    <2>2. IsFiniteSet(0..b)
      BY <2>1, FS_Interval
    <2> QED
      BY <2>2 DEF b
  <1>3. IsFiniteSet(j.done)
    BY <1>1, <1>2, FS_Subset
  <1> QED
    BY <1>3, FS_CardinalityType

(* What observeJob makes of a Running status.                                  *)
LEMMA ObservedIsLegal ==
    ASSUME TypeOK, JobsAreRecorded, NEW r \in Runs, NEW st \in Status,
           st.phase = "Running", st.jobRef = JobName[r]
    PROVE  /\ Observed(st) \in Status
           /\ PlanOf(Observed(st)) = PlanOf(st)
           /\ Observed(st).jobRef = st.jobRef
           /\ \/ Observed(st).phase \in {"Running", "Failed"}
              \/ Observed(st).phase = "Succeeded" /\ JobName[r] \in completed
  <1> DEFINE j == jobCache[st.jobRef]
             counted == [st EXCEPT !.succeededShards = Cardinality(j.done),
                                   !.failedShards = j.failed]
  <1>1. st.jobRef \in JobNames /\ st.jobRef # NoObject
    BY NamesAreNames
  <1>2. CASE j = NoJob
    <2>1. Observed(st) = [st EXCEPT !.phase = "Failed", !.failure = "vanished"]
      BY <1>1, <1>2 DEF Observed
    <2>2. "vanished" \in Failures
      BY DEF Failures
    <2>3. LET t == [st EXCEPT !.phase = "Failed", !.failure = "vanished"]
          IN  /\ t \in Status /\ t.phase = "Failed" /\ t.jobRef = st.jobRef
              /\ PlanOf(t) = PlanOf(st)
      BY <2>2, FailureChanges
    <2> QED
      BY <2>1, <2>3
  <1>3. CASE j # NoJob
    <2>1. IsJob(st.jobRef, j) /\ (JobSucceeded(j) => JobName[r] \in completed)
      BY <1>1, <1>3 DEF TypeOK, JobsAreRecorded
    <2>2. Cardinality(j.done) \in Nat /\ j.failed \in Nat
      BY <2>1, DoneIsFinite DEF IsJob
    <2>3. /\ counted \in Status /\ counted.phase = "Running"
          /\ counted.jobRef = st.jobRef /\ PlanOf(counted) = PlanOf(st)
      <3>1. \A a, b \in Nat :
               LET t == [st EXCEPT !.succeededShards = a, !.failedShards = b]
               IN  t \in Status /\ t.phase = st.phase /\ t.jobRef = st.jobRef
                   /\ PlanOf(t) = PlanOf(st)
        BY DEF Status, PlanOf
      <3> QED
        BY <2>2, <3>1
    <2>4. \/ Observed(st) = [counted EXCEPT !.phase = "Succeeded"] /\ JobSucceeded(j)
          \/ Observed(st) = [counted EXCEPT !.phase = "Failed", !.failure = "jobFailed"]
          \/ Observed(st) = counted
      BY <1>1, <1>3 DEF Observed
    <2>5. LET t == [counted EXCEPT !.phase = "Succeeded"]
          IN  /\ t \in Status /\ t.phase = "Succeeded" /\ t.jobRef = counted.jobRef
              /\ PlanOf(t) = PlanOf(counted)
      <3> HIDE DEF counted
      <3> QED
        BY <2>3 DEF Status, Phases, PlanOf
    <2>6. LET t == [counted EXCEPT !.phase = "Failed", !.failure = "jobFailed"]
          IN  /\ t \in Status /\ t.phase = "Failed" /\ t.jobRef = counted.jobRef
              /\ PlanOf(t) = PlanOf(counted)
      <3>1. "jobFailed" \in Failures
        BY DEF Failures
      <3> HIDE DEF counted
      <3> QED
        BY <2>3, <3>1, FailureChanges
    <2> HIDE DEF counted, j
    <2> QED
      BY <2>1, <2>3, <2>4, <2>5, <2>6
  <1> QED
    BY <1>2, <1>3

(* observeJob moves a Running Run by what its cached Job says.                 *)
LEMMA ObserveKeepsInv ==
    ASSUME Inv, observeJob
    PROVE  Inv'
  <1>1. /\ pc = "observe" /\ pc' = "update" /\ WorldUnchanged
        /\ UNCHANGED <<cur, base, current, queue, found, run, launched, completed>>
    BY DEF observeJob, WorldUnchanged, apiVars, historyVars
  <1>2. /\ cur \in Runs /\ base \in Status /\ base.phase = "Running" /\ copy = base
        /\ base.jobRef = JobName[cur] /\ current \in BOOLEAN /\ (current => run[cur] = base)
    <2>1. cur \in Runs /\ base \in Status /\ current \in BOOLEAN
      BY <1>1 DEF Inv, TypeOK
    <2> QED
      BY <1>1, <2>1 DEF Inv, ReconcileInProgress, HasJobRef
  <1>3. /\ copy' \in Status /\ PlanOf(copy') = PlanOf(base)
        /\ copy'.jobRef = JobName[cur]
        /\ \/ copy'.phase \in {"Running", "Failed"}
           \/ copy'.phase = "Succeeded" /\ JobName[cur] \in completed
    <2>1. copy' = Observed(copy) \/ copy' = copy
      BY DEF observeJob
    <2> QED
      BY <1>2, <2>1, ObservedIsLegal DEF Inv
  <1>4. TypeOK'
    <2>1. runsTotal' \in [Runs -> 0..MaxCount]
      BY <1>2, CountStaysBounded DEF observeJob, Inv, TypeOK
    <2>2. faults' \in 0..MaxFaults
      BY FaultsStayBounded DEF observeJob, Inv
    <2>3. requeue' \in BOOLEAN /\ queue' \subseteq Runs /\ found' \in Discoveries \cup {<<>>}
      BY <1>1 DEF observeJob, Inv, TypeOK
    <2> QED
      BY <1>1, <1>2, <1>3, <2>1, <2>2, <2>3, WorldKeepsTypes DEF Inv, Calls
  <1>5. ReconcileInProgress'
    BY <1>1, <1>2, <1>3 DEF ReconcileInProgress, HasJobRef, CopyFollowsBase, Calls
  <1> QED
    BY <1>1, <1>4, <1>5, WorldKeepsInv

(* The status write.  With a current resourceVersion the copy replaces the      *)
(* status it was computed from; otherwise nothing is written.                   *)
LEMMA WhileUpdating ==
    ASSUME Inv, UpdateStatus
    PROVE  /\ cur \in Runs /\ base \in Status /\ copy \in Status
           /\ (current => run[cur] = base)
           /\ HasJobRef(cur, copy) /\ CopyFollowsBase
           /\ \/ current /\ run' = [run EXCEPT ![cur] = copy]
              \/ UNCHANGED run
           /\ UNCHANGED <<secret, shardCM, job, cacheVars, secretSynced, runsTotal, historyVars>>
  <1>1. pc = "update"
    BY DEF UpdateStatus
  <1>2. cur \in Runs /\ base \in Status /\ copy \in Status
    BY <1>1 DEF Inv, TypeOK
  <1>3. (current => run[cur] = base) /\ HasJobRef(cur, copy) /\ CopyFollowsBase
    BY <1>1 DEF Inv, ReconcileInProgress
  <1> QED
    BY <1>2, <1>3 DEF UpdateStatus

(* Status().Update writes a status that follows from the one it replaces, or   *)
(* nothing.                                                                    *)
LEMMA UpdateKeepsInv ==
    ASSUME Inv, UpdateStatus
    PROVE  Inv'
  <1>1. /\ pc' = "idle" /\ cur' = NoObject /\ base' = NewRun /\ copy' = NewRun
        /\ current' = FALSE /\ found' = <<>> /\ requeue' = FALSE
        /\ queue' \subseteq queue \cup {cur}
    BY DEF UpdateStatus, Finish
  <1>2. /\ run' \in [Runs -> Status]
        /\ \A r \in Runs : HasJobRef(r, run'[r])
        /\ \A r \in Runs : r # cur => run'[r] = run[r]
    BY WhileUpdating DEF Inv, TypeOK
  <1>3. /\ runSynced' \in [Runs -> BOOLEAN]
        /\ \A r \in Runs : runSynced'[r] => runSynced[r] /\ run'[r] = run[r]
    <2>1. cur \in Runs /\ runSynced \in [Runs -> BOOLEAN] /\ run \in [Runs -> Status]
      BY WhileUpdating DEF Inv, TypeOK
    <2>2. CASE runSynced' = [runSynced EXCEPT ![cur] = FALSE]
      BY <1>2, <2>1, <2>2
    <2>3. CASE current /\ run' = [run EXCEPT ![cur] = copy] /\ copy = base /\ UNCHANGED runSynced
      BY <2>1, <2>3, WhileUpdating
    <2>4. CASE UNCHANGED <<run, runSynced>>
      BY <2>1, <2>4
    <2> QED
      BY <2>2, <2>3, <2>4 DEF UpdateStatus
  <1>4. TypeOK'
    <2>1. faults' \in 0..MaxFaults
      BY FaultsStayBounded DEF UpdateStatus, Inv
    <2>2. queue' \subseteq Runs
      BY <1>1, WhileUpdating DEF Inv, TypeOK
    <2>3. \A n \in JobNames : \A j \in {job'[n], jobCache'[n]} : j # NoJob => IsJob(n, j)
      BY WhileUpdating DEF Inv, TypeOK, cacheVars
    <2> QED
      BY <1>1, <1>2, <1>3, <2>1, <2>2, <2>3, WhileUpdating, NewRunIsStatus
      DEF Inv, TypeOK, cacheVars, historyVars
  <1>5. CachesAreOld'
    BY <1>3, WhileUpdating DEF Inv, CachesAreOld, cacheVars
  <1>6. JobsAreRecorded'
    BY WhileUpdating DEF Inv, JobsAreRecorded, cacheVars, historyVars
  <1>7. (\A r \in Runs : HasJobRef(r, run[r]) /\ HasJobRef(r, runCache[r]))'
    BY <1>2, WhileUpdating DEF Inv, HasJobRef, cacheVars
  <1>8. ReconcileInProgress'
    BY <1>1 DEF ReconcileInProgress
  <1>9. JobHasItsInputs'
    BY WhileUpdating DEF Inv, JobHasItsInputs
  <1> QED
    BY <1>4, <1>5, <1>6, <1>7, <1>8, <1>9 DEF Inv

(* A restart forgets the reconcile and fills the caches.                       *)
LEMMA CrashKeepsInv ==
    ASSUME Inv, Crash
    PROVE  Inv'
  <1> USE DEF Crash, apiVars, historyVars
  <1>1. faults' \in 0..MaxFaults
    BY FaultsStayBounded DEF Inv
  <1>2. TypeOK'
    <2>1. \A n \in JobNames : \A j \in {job'[n], jobCache'[n]} : j # NoJob => IsJob(n, j)
      BY DEF Inv, TypeOK
    <2> QED
      BY <1>1, <2>1, NewRunIsStatus DEF Inv, TypeOK
  <1>3. CachesAreOld'
    BY DEF CachesAreOld
  <1>4. JobsAreRecorded'
    BY DEF Inv, JobsAreRecorded
  <1>5. (\A r \in Runs : HasJobRef(r, run[r]) /\ HasJobRef(r, runCache[r]))'
    BY DEF Inv, HasJobRef
  <1>6. ReconcileInProgress'
    BY DEF ReconcileInProgress
  <1>7. JobHasItsInputs'
    BY DEF Inv, JobHasItsInputs
  <1> QED
    BY <1>2, <1>3, <1>4, <1>5, <1>6, <1>7 DEF Inv

-----------------------------------------------------------------------------
(* Watch events, worker pods and deletions keep it.                             *)

(* A step of another actor does not disturb the reconcile in progress.         *)
LEMMA ReconcileUntouched ==
    ASSUME Inv, UNCHANGED <<reconcileVars, run, secret, shardCM, launched>>,
           completed \subseteq completed'
    PROVE  ReconcileInProgress'
  <1> USE DEF reconcileVars
  <1>1. CASE pc = "idle"
    BY <1>1 DEF ReconcileInProgress
  <1>2. CASE pc # "idle"
    <2>1. CopyFollowsBase => CopyFollowsBase'
      BY DEF CopyFollowsBase
    <2> QED
      BY <1>2, <2>1 DEF Inv, ReconcileInProgress, HasJobRef
  <1> QED
    BY <1>1, <1>2

(* The Run cache catches up.                                                   *)
LEMMA SyncRunKeepsInv ==
    ASSUME Inv, NEW r \in Runs, SyncRun(r)
    PROVE  Inv'
  <1>1. UNCHANGED <<apiVars, secretCache, cmCache, jobCache, secretSynced, reconcileVars,
                    runsTotal, faults, historyVars>>
    BY DEF SyncRun
  <1>2. /\ runCache' \in [Runs -> Status] /\ runSynced' \in [Runs -> BOOLEAN]
        /\ queue' \subseteq Runs
        /\ \A q \in Runs : runSynced'[q] => runCache'[q] = run[q]
        /\ \A q \in Runs : HasJobRef(q, runCache'[q])
    BY DEF SyncRun, Inv, TypeOK, CachesAreOld
  <1>3. TypeOK'
    <2>1. \A n \in JobNames : \A j \in {job'[n], jobCache'[n]} : j # NoJob => IsJob(n, j)
      BY <1>1 DEF Inv, TypeOK, apiVars
    <2> QED
      BY <1>1, <1>2, <2>1 DEF Inv, TypeOK, apiVars, reconcileVars, historyVars
  <1>4. CachesAreOld'
    BY <1>1, <1>2 DEF Inv, CachesAreOld, apiVars
  <1>5. JobsAreRecorded' /\ JobHasItsInputs'
    BY <1>1 DEF Inv, JobsAreRecorded, JobHasItsInputs, apiVars, historyVars
  <1>6. (\A q \in Runs : HasJobRef(q, run[q]) /\ HasJobRef(q, runCache[q]))'
    BY <1>1, <1>2 DEF Inv, HasJobRef, apiVars
  <1>7. ReconcileInProgress'
    BY <1>1, ReconcileUntouched DEF apiVars, historyVars
  <1> QED
    BY <1>3, <1>4, <1>5, <1>6, <1>7 DEF Inv

(* The Secret cache catches up.                                                *)
LEMMA SyncSecretKeepsInv ==
    ASSUME Inv, NEW n \in MirrorNames, SyncSecret(n)
    PROVE  Inv'
  <1>1. UNCHANGED <<apiVars, runCache, cmCache, jobCache, runSynced, reconcileVars,
                    runsTotal, faults, historyVars>>
    BY DEF SyncSecret
  <1>2. /\ secretCache' \in [MirrorNames -> Secrets \cup {NoSecret}]
        /\ secretSynced' \in [MirrorNames -> BOOLEAN]
        /\ \A m \in MirrorNames : secretSynced'[m] => secretCache'[m] = secret[m]
        /\ \A m \in MirrorNames :
              secretCache'[m] # NoSecret \/ ~ secretSynced'[m] => secret[m] # NoSecret
    BY DEF SyncSecret, Inv, TypeOK, CachesAreOld
  <1>3. queue' \subseteq Runs
    <2>1. secret[n] \in Secrets
      BY DEF SyncSecret, Inv, TypeOK, CachesAreOld
    <2> QED
      BY <2>1 DEF SyncSecret, Inv, TypeOK, Secrets
  <1>4. TypeOK'
    <2>1. \A m \in JobNames : \A j \in {job'[m], jobCache'[m]} : j # NoJob => IsJob(m, j)
      BY <1>1 DEF Inv, TypeOK, apiVars
    <2> QED
      BY <1>1, <1>2, <1>3, <2>1 DEF Inv, TypeOK, apiVars, reconcileVars, historyVars
  <1>5. CachesAreOld'
    BY <1>1, <1>2 DEF Inv, CachesAreOld, apiVars
  <1>6. JobsAreRecorded' /\ JobHasItsInputs'
    BY <1>1 DEF Inv, JobsAreRecorded, JobHasItsInputs, apiVars, historyVars
  <1>7. (\A q \in Runs : HasJobRef(q, run[q]) /\ HasJobRef(q, runCache[q]))'
    BY <1>1 DEF Inv, HasJobRef, apiVars
  <1>8. ReconcileInProgress'
    BY <1>1, ReconcileUntouched DEF apiVars, historyVars
  <1> QED
    BY <1>4, <1>5, <1>6, <1>7, <1>8 DEF Inv

(* The ConfigMap cache catches up.                                             *)
LEMMA SyncShardCMKeepsInv ==
    ASSUME Inv, NEW r \in Runs, SyncShardCM(r)
    PROVE  Inv'
  <1>1. UNCHANGED <<apiVars, runCache, secretCache, jobCache, syncVars, reconcileVars,
                    runsTotal, faults, historyVars>>
    BY DEF SyncShardCM
  <1>2. /\ DOMAIN cmCache' = Runs /\ queue' \subseteq Runs
        /\ \A q \in Runs : cmCache'[q] # NoShards => shardCM[q] # NoShards
    BY DEF SyncShardCM, Inv, TypeOK, CachesAreOld
  <1>3. TypeOK'
    <2>1. \A m \in JobNames : \A j \in {job'[m], jobCache'[m]} : j # NoJob => IsJob(m, j)
      BY <1>1 DEF Inv, TypeOK, apiVars
    <2> QED
      BY <1>1, <1>2, <2>1 DEF Inv, TypeOK, apiVars, syncVars, reconcileVars, historyVars
  <1>4. CachesAreOld'
    BY <1>1, <1>2 DEF Inv, CachesAreOld, apiVars, syncVars
  <1>5. JobsAreRecorded' /\ JobHasItsInputs'
    BY <1>1 DEF Inv, JobsAreRecorded, JobHasItsInputs, apiVars, historyVars
  <1>6. (\A q \in Runs : HasJobRef(q, run[q]) /\ HasJobRef(q, runCache[q]))'
    BY <1>1 DEF Inv, HasJobRef, apiVars
  <1>7. ReconcileInProgress'
    BY <1>1, ReconcileUntouched DEF apiVars, historyVars
  <1> QED
    BY <1>3, <1>4, <1>5, <1>6, <1>7 DEF Inv

(* A periodic resync queues a Run.                                             *)
LEMMA ResyncKeepsInv ==
    ASSUME Inv, NEW r \in Runs, Resync(r)
    PROVE  Inv'
  <1>1. /\ WorldUnchanged /\ queue' \subseteq Runs
        /\ UNCHANGED <<reconcileVars, runsTotal, faults>>
    BY DEF Resync, WorldUnchanged, Inv, TypeOK
  <1>2. TypeOK'
    BY <1>1, WorldKeepsTypes DEF Inv, TypeOK, reconcileVars
  <1>3. ReconcileInProgress'
    BY <1>1, ReconcileUntouched DEF WorldUnchanged, apiVars, historyVars
  <1> QED
    BY <1>1, <1>2, <1>3, WorldKeepsInv

(* A step that changes nothing but the Jobs: in the API server, or in the cache *)
(* and then with a wake-up.                                                      *)
LEMMA JobStepKeepsInv ==
    ASSUME Inv,
           UNCHANGED <<run, secret, shardCM, runCache, secretCache, cmCache, syncVars,
                       reconcileVars, runsTotal, launched>>,
           queue' \subseteq Runs, faults' \in 0..MaxFaults,
           completed \subseteq completed', completed' \subseteq launched,
           DOMAIN worked' = Runs, DOMAIN job' = JobNames, DOMAIN jobCache' = JobNames,
           \A m \in JobNames : \A j \in {job'[m], jobCache'[m]} : j # NoJob =>
                IsJob(m, j) /\ m \in launched /\ (JobSucceeded(j) => m \in completed'),
           \A m \in JobNames : job'[m] # NoJob => job[m] # NoJob /\ job'[m].owner = job[m].owner
    PROVE  Inv'
  <1>1. TypeOK'
    BY DEF Inv, TypeOK, syncVars, reconcileVars
  <1>2. CachesAreOld'
    BY DEF Inv, CachesAreOld, syncVars
  <1>3. JobsAreRecorded' /\ JobHasItsInputs'
    BY DEF Inv, JobsAreRecorded, JobHasItsInputs
  <1>4. (\A q \in Runs : HasJobRef(q, run[q]) /\ HasJobRef(q, runCache[q]))'
    BY DEF Inv, HasJobRef
  <1>5. ReconcileInProgress'
    BY ReconcileUntouched
  <1> QED
    BY <1>1, <1>2, <1>3, <1>4, <1>5 DEF Inv

(* What the invariant says of the Jobs.                                         *)
LEMMA JobsKnown ==
    ASSUME Inv
    PROVE  /\ DOMAIN job = JobNames /\ DOMAIN jobCache = JobNames /\ DOMAIN worked = Runs
           /\ queue \subseteq Runs /\ faults \in 0..MaxFaults /\ completed \subseteq launched
           /\ \A m \in JobNames : \A j \in {job[m], jobCache[m]} : j # NoJob =>
                IsJob(m, j) /\ m \in launched /\ (JobSucceeded(j) => m \in completed)
  BY DEF Inv, TypeOK, JobsAreRecorded

(* The Job cache catches up.                                                   *)
LEMMA SyncJobKeepsInv ==
    ASSUME Inv, NEW n \in JobNames, SyncJob(n)
    PROVE  Inv'
  <1>1. UNCHANGED <<apiVars, runCache, secretCache, cmCache, syncVars, reconcileVars,
                    runsTotal, faults, historyVars>>
    BY DEF SyncJob
  <1>2. queue' \subseteq Runs
    BY JobsKnown DEF SyncJob, IsJob
  <1>3. DOMAIN jobCache' = JobNames /\ \A m \in JobNames : jobCache'[m] \in {job[m], jobCache[m]}
    BY JobsKnown DEF SyncJob
  <1> QED
    BY <1>1, <1>2, <1>3, JobsKnown, JobStepKeepsInv DEF apiVars, historyVars

(* A Job is deleted; the cache may go on showing it.                           *)
LEMMA DeleteJobKeepsInv ==
    ASSUME Inv, NEW n \in JobNames, DeleteJob(n)
    PROVE  Inv'
  <1>1. UNCHANGED <<run, secret, shardCM, cacheVars, syncVars, queue, reconcileVars,
                    runsTotal, historyVars>>
    BY DEF DeleteJob
  <1>2. faults' \in 0..MaxFaults
    BY FaultsStayBounded DEF DeleteJob, Inv
  <1>3. DOMAIN job' = JobNames /\ \A m \in JobNames : job'[m] = job[m] \/ job'[m] = NoJob
    BY JobsKnown DEF DeleteJob
  <1> QED
    BY <1>1, <1>2, <1>3, JobsKnown, JobStepKeepsInv DEF cacheVars, historyVars

(* A worker pod exits 0, perhaps as the last one of its Job.                   *)
LEMMA PodSucceedsKeepsInv ==
    ASSUME Inv, NEW n \in JobNames, NEW i, PodSucceeds(n, i)
    PROVE  Inv'
  <1> DEFINE new == [job[n] EXCEPT !.done = @ \cup {i}]
  <1>1. UNCHANGED <<run, secret, shardCM, cacheVars, syncVars, queue, reconcileVars,
                    runsTotal, faults, launched>>
    BY DEF PodSucceeds
  <1>2. /\ job' = [job EXCEPT ![n] = new]
        /\ completed' = IF JobSucceeded(new) THEN completed \cup {n} ELSE completed
        /\ DOMAIN worked' = DOMAIN worked
        /\ job[n] # NoJob /\ i \in 0..(job[n].completions - 1)
    BY DEF PodSucceeds
  <1>3. IsJob(n, job[n]) /\ n \in launched
    BY <1>2, JobsKnown
  <1>4. IsJob(n, new) /\ new.owner = job[n].owner
    BY <1>2, <1>3 DEF IsJob
  <1> HIDE DEF new
  <1>5. /\ completed \subseteq completed' /\ completed' \subseteq launched
        /\ (JobSucceeded(new) => n \in completed')
    BY <1>2, <1>3, JobsKnown
  <1>6. DOMAIN job' = JobNames /\ job'[n] = new /\ \A m \in JobNames : m # n => job'[m] = job[m]
    BY <1>2, JobsKnown
  <1>7. \A m \in JobNames : \A j \in {job'[m], jobCache'[m]} : j # NoJob =>
            IsJob(m, j) /\ m \in launched /\ (JobSucceeded(j) => m \in completed')
    BY <1>1, <1>3, <1>4, <1>5, <1>6, JobsKnown DEF cacheVars
  <1>8. \A m \in JobNames : job'[m] # NoJob => job[m] # NoJob /\ job'[m].owner = job[m].owner
    BY <1>2, <1>4, <1>6
  <1> QED
    BY <1>1, <1>2, <1>5, <1>6, <1>7, <1>8, JobsKnown, JobStepKeepsInv DEF cacheVars

(* A worker pod fails, and with it its Job.                                    *)
LEMMA PodFailsKeepsInv ==
    ASSUME Inv, NEW n \in JobNames, NEW i, PodFails(n, i)
    PROVE  Inv'
  <1> DEFINE new == [job[n] EXCEPT !.failed = @ + 1]
  <1>1. UNCHANGED <<run, secret, shardCM, cacheVars, syncVars, queue, reconcileVars,
                    runsTotal, historyVars>>
    BY DEF PodFails
  <1>2. job' = [job EXCEPT ![n] = new] /\ job[n] # NoJob /\ ~ JobSucceeded(job[n])
    BY DEF PodFails, JobActive
  <1>3. faults' \in 0..MaxFaults
    BY FaultsStayBounded DEF PodFails, Inv
  <1>4. IsJob(n, job[n]) /\ n \in launched
    BY <1>2, JobsKnown
  <1>5. IsJob(n, new) /\ new.owner = job[n].owner /\ ~ JobSucceeded(new)
    BY <1>2, <1>4 DEF IsJob, JobSucceeded
  <1> HIDE DEF new
  <1>6. DOMAIN job' = JobNames /\ job'[n] = new /\ \A m \in JobNames : m # n => job'[m] = job[m]
    BY <1>2, JobsKnown
  <1>7. \A m \in JobNames : \A j \in {job'[m], jobCache'[m]} : j # NoJob =>
            IsJob(m, j) /\ m \in launched /\ (JobSucceeded(j) => m \in completed)
    BY <1>1, <1>4, <1>5, <1>6, JobsKnown DEF cacheVars
  <1>8. \A m \in JobNames : job'[m] # NoJob => job[m] # NoJob /\ job'[m].owner = job[m].owner
    BY <1>2, <1>5, <1>6
  <1> QED
    BY <1>1, <1>3, <1>6, <1>7, <1>8, JobsKnown, JobStepKeepsInv DEF cacheVars, historyVars

-----------------------------------------------------------------------------
(* A step that changes nothing.                                                *)
LEMMA StutterKeepsInv ==
    ASSUME Inv, UNCHANGED vars
    PROVE  Inv'
  <1>1. /\ WorldUnchanged
        /\ UNCHANGED <<reconcileVars, queue, runsTotal, faults>>
    BY DEF vars, WorldUnchanged
  <1>2. TypeOK'
    BY <1>1, WorldKeepsTypes DEF Inv, TypeOK, reconcileVars
  <1>3. ReconcileInProgress'
    BY <1>1, ReconcileUntouched DEF WorldUnchanged, apiVars, historyVars
  <1> QED
    BY <1>1, <1>2, <1>3, WorldKeepsInv

(* The invariant is inductive: one case for each action.                       *)
LEMMA NextInv == Inv /\ [Next]_vars => Inv'
  <1> SUFFICES ASSUME Inv, [Next]_vars PROVE Inv'
    OBVIOUS
  <1>1. CASE ReconcileStep
    BY <1>1, ReconcileKeepsInv, AuthenticateKeepsInv, MirrorKeepsInv, DiscoverKeepsInv,
       ShardsKeepsInv, JobKeepsInv, ObserveKeepsInv, UpdateKeepsInv DEF ReconcileStep
  <1>2. CASE Crash
    BY <1>2, CrashKeepsInv
  <1>3. CASE CacheStep
    BY <1>3, SyncRunKeepsInv, SyncShardCMKeepsInv, SyncSecretKeepsInv, SyncJobKeepsInv
    DEF CacheStep
  <1>4. CASE \E r \in Runs : Resync(r)
    BY <1>4, ResyncKeepsInv
  <1>5. CASE PodStep
    BY <1>5, PodSucceedsKeepsInv, PodFailsKeepsInv DEF PodStep
  <1>6. CASE \E n \in JobNames : DeleteJob(n)
    BY <1>6, DeleteJobKeepsInv
  <1>7. CASE UNCHANGED vars
    BY <1>7, StutterKeepsInv
  <1> QED
    BY <1>1, <1>2, <1>3, <1>4, <1>5, <1>6, <1>7 DEF Next

(* The invariant holds in every reachable state.                                *)
THEOREM InvHolds == Spec => []Inv
  <1>1. Init => Inv
    BY InitInv
  <1>2. Inv /\ [Next]_vars => Inv'
    BY NextInv
  <1> QED
    BY <1>1, <1>2, PTL DEF Spec

(* Every state of the controller, the API server and the caches is well formed. *)
THEOREM TypeCorrect == Spec => []TypeOK
  <1>1. Inv => TypeOK
    BY DEF Inv
  <1> QED
    BY <1>1, InvHolds, PTL

(* The three Create calls come in an order that no error, crash or stale cache  *)
(* can break: a worker Job always finds the ConfigMap and the Secret it mounts. *)
THEOREM JobsHaveTheirInputs == Spec => []JobHasItsInputs
  <1>1. Inv => JobHasItsInputs
    BY DEF Inv
  <1> QED
    BY <1>1, InvHolds, PTL

-----------------------------------------------------------------------------
(* Only UpdateStatus writes a Run's status.                                     *)
LEMMA OnlyUpdateWrites ==
    ASSUME [Next]_vars, ~ UpdateStatus
    PROVE  UNCHANGED run
  <1>1. CASE ReconcileStep
    BY <1>1 DEF ReconcileStep, Reconcile, Authenticate, mirrorCredential, discoverRepos,
        ensureShardConfigMap, ensureWorkerJob, observeJob, apiVars
  <1>2. CASE Crash \/ CacheStep \/ PodStep
    BY <1>2 DEF Crash, CacheStep, SyncRun, SyncSecret, SyncShardCM, SyncJob, PodStep,
        PodSucceeds, PodFails, apiVars
  <1>3. CASE (\E r \in Runs : Resync(r)) \/ (\E n \in JobNames : DeleteJob(n)) \/ UNCHANGED vars
    BY <1>3 DEF Resync, DeleteJob, vars, apiVars
  <1> QED
    BY <1>1, <1>2, <1>3 DEF Next

(* Once a Run is Running, no later write changes its worker count, repository   *)
(* count, ConfigMap or Job.                                                     *)
THEOREM PlanIsFixed == Spec => PlanFixedOnceRunning
  <1> DEFINE Kept == \A r \in Runs : run[r].phase \in {"Running", "Succeeded"} =>
                        PlanOf(run'[r]) = PlanOf(run[r])
  <1>1. Inv /\ [Next]_vars => [Kept]_vars
    <2> SUFFICES ASSUME Inv, [Next]_vars PROVE Kept
      OBVIOUS
    <2>1. CASE UNCHANGED run
      BY <2>1
    <2>2. CASE UpdateStatus /\ current /\ run' = [run EXCEPT ![cur] = copy]
      <3>1. base.phase \in {"Running", "Succeeded"} => PlanOf(copy) = PlanOf(base)
        BY <2>2, WhileUpdating DEF CopyFollowsBase, Unstarted, Terminal
      <3>2. cur \in Runs /\ run[cur] = base /\ run \in [Runs -> Status]
        BY <2>2, WhileUpdating DEF Inv, TypeOK
      <3> QED
        BY <2>2, <3>1, <3>2
    <2> QED
      BY <2>1, <2>2, OnlyUpdateWrites, WhileUpdating
  <1> QED
    BY <1>1, InvHolds, PTL DEF Spec, PlanFixedOnceRunning

-----------------------------------------------------------------------------
(* Every Run that ended was counted.                                            *)

(* Whoever shows a terminal phase, the API server, the cache or the status about *)
(* to be written, the Run was counted before.                                   *)
CountedFirst ==
    /\ \A r \in Runs : run[r].phase \in Terminal \/ runCache[r].phase \in Terminal =>
            runsTotal[r] > 0
    /\ pc = "update" /\ copy.phase \in Terminal => runsTotal[cur] > 0

(* Counts do not go down, and recordRunTerminal leaves its Run counted.         *)
LEMMA CountsGrow ==
    ASSUME TypeOK, cur \in Runs, recordRunTerminal
    PROVE  /\ \A r \in Runs : runsTotal[r] > 0 => runsTotal'[r] > 0
           /\ runsTotal'[cur] > 0
  <1>1. runsTotal \in [Runs -> 0..MaxCount] /\ MaxCount = 2
    BY DEF TypeOK, MaxCount
  <1> QED
    BY <1>1 DEF recordRunTerminal

(* A step that leaves Runs and caches alone has to account for the copy only.   *)
LEMMA CountedBeforeUpdate ==
    ASSUME CountedFirst, UNCHANGED <<run, runCache>>,
           \A r \in Runs : runsTotal[r] > 0 => runsTotal'[r] > 0,
           pc' = "update" /\ copy'.phase \in Terminal => runsTotal'[cur'] > 0
    PROVE  CountedFirst'
  BY DEF CountedFirst

(* Reconciles count a Run on the way to its terminal phase.                     *)
LEMMA ReconcileCounts ==
    ASSUME Inv, CountedFirst, ReconcileStep, ~ UpdateStatus
    PROVE  CountedFirst'
  <1> USE DEF Terminal
  <1>1. UNCHANGED <<run, runCache>>
    BY DEF ReconcileStep, Reconcile, Authenticate, mirrorCredential, discoverRepos,
        ensureShardConfigMap, ensureWorkerJob, observeJob, apiVars, cacheVars
  <1>2. CASE \E r \in Runs : Reconcile(r)
    <2>1. PICK r \in Runs : Reconcile(r)
      BY <1>2
    <2>2. runsTotal' = runsTotal /\ cur' = r
      BY <2>1 DEF Reconcile
    <2>3. pc' = "update" => copy' = runCache[r]
      BY <2>1 DEF Reconcile
    <2> QED
      BY <1>1, <2>2, <2>3, CountedBeforeUpdate DEF CountedFirst
  <1>3. CASE Authenticate \/ mirrorCredential \/ discoverRepos \/ ensureShardConfigMap
                \/ ensureWorkerJob
    <2>1. cur \in Runs /\ copy \in Status /\ copy.phase = "Discovering" /\ TypeOK
      <3>1. pc \in DiscoverCalls
        BY <1>3 DEF Authenticate, mirrorCredential, discoverRepos, ensureShardConfigMap,
            ensureWorkerJob, DiscoverCalls
      <3> QED
        BY <3>1, WhileDiscovering DEF Inv
    <2>2. cur' = cur
      BY <1>3 DEF Authenticate, mirrorCredential, discoverRepos, ensureShardConfigMap,
          ensureWorkerJob, RetryOnError, AnswerLost, markTransient, markFailed, Goto
    <2>3. \/ recordRunTerminal
          \/ runsTotal' = runsTotal /\ copy'.phase \in {"Discovering", "Running"}
      BY <1>3, <2>1 DEF Authenticate, mirrorCredential, discoverRepos, ensureShardConfigMap,
          ensureWorkerJob, RetryOnError, AnswerLost, markTransient, markFailed, Status
    <2>4. CASE recordRunTerminal
      BY <1>1, <2>1, <2>2, <2>4, CountsGrow, CountedBeforeUpdate
    <2>5. CASE runsTotal' = runsTotal /\ copy'.phase \in {"Discovering", "Running"}
      BY <1>1, <2>5, CountedBeforeUpdate
    <2> QED
      BY <2>3, <2>4, <2>5
  <1>4. CASE observeJob
    <2>1. cur \in Runs /\ TypeOK /\ copy.phase = "Running"
      BY <1>4 DEF observeJob, Inv, TypeOK, ReconcileInProgress, Calls
    <2>2. cur' = cur
      BY <1>4 DEF observeJob
    <2>3. CASE recordRunTerminal
      BY <1>1, <2>1, <2>2, <2>3, CountsGrow, CountedBeforeUpdate
    <2>4. CASE runsTotal' = runsTotal /\ copy'.phase \notin Terminal
      BY <1>1, <2>4, CountedBeforeUpdate
    <2> QED
      BY <1>4, <2>1, <2>3, <2>4 DEF observeJob
  <1> QED
    BY <1>2, <1>3, <1>4 DEF ReconcileStep

(* The status that is written was counted when it was computed.                 *)
LEMMA UpdateCounts ==
    ASSUME Inv, CountedFirst, UpdateStatus
    PROVE  CountedFirst'
  <1>1. cur \in Runs /\ run \in [Runs -> Status]
    BY DEF UpdateStatus, Inv, TypeOK, Calls
  <1>2. UNCHANGED <<runCache, runsTotal>> /\ pc' = "idle"
    BY DEF UpdateStatus, Finish, cacheVars
  <1>3. run' = run \/ run' = [run EXCEPT ![cur] = copy]
    BY DEF UpdateStatus
  <1>4. copy.phase \in Terminal => runsTotal[cur] > 0
    BY DEF UpdateStatus, CountedFirst
  <1> QED
    BY <1>1, <1>2, <1>3, <1>4 DEF CountedFirst

(* Caches only learn phases that the API server has.                            *)
LEMMA WorldCounts ==
    ASSUME Inv, CountedFirst, [Next]_vars, ~ ReconcileStep
    PROVE  CountedFirst'
  <1>1. UNCHANGED <<run, runsTotal>>
    <2>1. ~ UpdateStatus
      BY DEF ReconcileStep
    <2> QED
      BY <2>1, OnlyUpdateWrites DEF Next, Crash, CacheStep, SyncRun, SyncSecret, SyncShardCM,
          SyncJob, Resync, PodStep, PodSucceeds, PodFails, DeleteJob, vars
  <1>2. \A r \in Runs : runCache'[r] = runCache[r] \/ runCache'[r] = run[r]
    <2>1. runCache \in [Runs -> Status]
      BY DEF Inv, TypeOK
    <2>2. CASE Crash \/ CacheStep
      BY <2>1, <2>2 DEF Crash, CacheStep, SyncRun, SyncSecret, SyncShardCM, SyncJob
    <2>3. CASE UNCHANGED runCache
      BY <2>3
    <2>4. Crash \/ CacheStep \/ UNCHANGED runCache
      BY DEF Next, Resync, PodStep, PodSucceeds, PodFails, DeleteJob, vars, cacheVars
    <2> QED
      BY <2>2, <2>3, <2>4
  <1>3. pc' = "idle" \/ UNCHANGED <<pc, cur, copy>>
    BY DEF Next, Crash, CacheStep, SyncRun, SyncSecret, SyncShardCM, SyncJob, Resync, PodStep,
        PodSucceeds, PodFails, DeleteJob, vars, reconcileVars
  <1> QED
    BY <1>1, <1>2, <1>3 DEF CountedFirst

(* A Run whose phase is terminal was counted in renovate_runs_total, whatever   *)
(* conflicts, crashes and stale reads came between the count and the write.     *)
THEOREM TerminalRunsAreCounted == Spec => []TerminalIsCounted
  <1>1. Init => CountedFirst
    <2> SUFFICES ASSUME Init
                 PROVE  CountedFirst
      OBVIOUS
    <2>1. pc = "idle" /\ \A r \in Runs : run[r].phase = "" /\ runCache[r].phase = ""
      BY DEF Init, NewRun
    <2> QED
      BY <2>1 DEF CountedFirst, Terminal
  <1>2. Inv /\ CountedFirst /\ [Next]_vars => CountedFirst'
    BY ReconcileCounts, UpdateCounts, WorldCounts
  <1>3. CountedFirst => TerminalIsCounted
    BY DEF CountedFirst, TerminalIsCounted
  <1> QED
    BY <1>1, <1>2, <1>3, InvHolds, PTL DEF Spec

-----------------------------------------------------------------------------
(* The detailed controller implements the lifecycle.                            *)

(* Only creating a Job adds to launched, only a pod's success to completed.     *)
LEMMA HistorySteps ==
    ASSUME Inv, [Next]_vars
    PROVE  \/ UNCHANGED <<launched, completed>>
           \/ launched \subseteq launched' /\ UNCHANGED <<run, completed>>
           \/ completed \subseteq completed' /\ UNCHANGED <<run, launched>>
  <1>1. CASE ensureWorkerJob
    <2>1. launched \subseteq launched' /\ UNCHANGED <<run, completed>>
      BY <1>1 DEF ensureWorkerJob
    <2> QED
      BY <2>1
  <1>2. CASE PodStep
    <2>1. completed \subseteq completed' /\ UNCHANGED <<run, launched>>
      BY <1>2 DEF PodStep, PodSucceeds, PodFails, historyVars
    <2> QED
      BY <2>1
  <1>3. CASE ReconcileStep /\ ~ ensureWorkerJob
    BY <1>3 DEF ReconcileStep, Reconcile, Authenticate, mirrorCredential, discoverRepos,
        ensureShardConfigMap, observeJob, UpdateStatus, historyVars
  <1>4. CASE Crash \/ CacheStep
    BY <1>4 DEF Crash, CacheStep, SyncRun, SyncSecret, SyncShardCM, SyncJob, historyVars
  <1>5. CASE (\E r \in Runs : Resync(r)) \/ (\E n \in JobNames : DeleteJob(n)) \/ UNCHANGED vars
    BY <1>5 DEF Resync, DeleteJob, vars, historyVars
  <1> QED
    BY <1>1, <1>2, <1>3, <1>4, <1>5 DEF Next

ShownPhase(st) == IF st.phase = "" THEN "Pending" ELSE st.phase
ShownPhases == [r \in Runs |-> IF run[r].phase = "" THEN "Pending" ELSE run[r].phase]
ShownLaunched == {r \in Runs : JobName[r] \in launched}
ShownCompleted == {r \in Runs : JobName[r] \in completed}

(* A status write is a step of the lifecycle: Admit, Dispatch, Succeed, Fail or *)
(* none at all.                                                                *)
LEMMA UpdateImplements ==
    ASSUME Inv, UpdateStatus
    PROVE  [Lifecycle!Next]_(Lifecycle!vars)
  <1> USE DEF ShownPhases, ShownLaunched, ShownCompleted
  <1>1. UNCHANGED <<launched, completed>>
    BY WhileUpdating DEF historyVars
  <1>2. CASE UNCHANGED run
    BY <1>1, <1>2 DEF Lifecycle!vars
  <1>3. CASE current /\ run' = [run EXCEPT ![cur] = copy]
    <2>1. cur \in Runs /\ run[cur] = base /\ run \in [Runs -> Status] /\ CopyFollowsBase
      BY <1>3, WhileUpdating DEF Inv, TypeOK
    <2>2. ShownPhases' = [ShownPhases EXCEPT ![cur] = ShownPhase(copy)]
      BY <1>3, <2>1 DEF ShownPhase
    <2>3. ShownPhases[cur] = ShownPhase(base)
      BY <2>1 DEF ShownPhase
    <2>4. UNCHANGED <<ShownLaunched, ShownCompleted>>
      BY <1>1
    <2> DEFINE Moves(from, to) == ShownPhase(base) \in from /\ ShownPhase(copy) = to
    <2>5. \/ Moves({"Pending"}, "Discovering")
          \/ cur \in ShownLaunched /\ Moves({"Pending", "Discovering"}, "Running")
          \/ cur \in ShownCompleted /\ Moves({"Running"}, "Succeeded")
          \/ Moves({"Pending", "Discovering", "Running"}, "Failed")
          \/ ShownPhase(copy) = ShownPhase(base)
      BY <2>1 DEF CopyFollowsBase, Unstarted, Terminal, ShownPhase
    <2>6. ASSUME NEW from, NEW to, Moves(from, to)
          PROVE  Lifecycle!Move(cur, from, to)
      BY <2>2, <2>3, <2>4, <2>6 DEF Lifecycle!Move
    <2>7. CASE ShownPhase(copy) = ShownPhase(base)
      <3>1. ShownPhases' = ShownPhases
        BY <2>2, <2>3, <2>7
      <3> QED
        BY <2>4, <3>1 DEF Lifecycle!vars
    <2> QED
      BY <2>1, <2>5, <2>6, <2>7
      DEF Lifecycle!Next, Lifecycle!Admit, Lifecycle!Dispatch, Lifecycle!Succeed, Lifecycle!Fail
  <1> QED
    BY <1>2, <1>3, WhileUpdating

(* Every step of the controller and its surroundings is a step of the lifecycle *)
(* or invisible in it.                                                         *)
LEMMA NextImplements ==
    ASSUME Inv, Inv', [Next]_vars
    PROVE  [Lifecycle!Next]_(Lifecycle!vars)
  <1> USE DEF ShownPhases, ShownLaunched, ShownCompleted
  <1>1. CASE UpdateStatus
    BY <1>1, UpdateImplements
  <1>2. CASE UNCHANGED run
    <2>1. ShownPhases' = ShownPhases
      BY <1>2
    <2>2. CASE UNCHANGED <<launched, completed>>
      BY <2>1, <2>2 DEF Lifecycle!vars
    <2>3. CASE launched \subseteq launched' /\ UNCHANGED completed
      <3>1. /\ ShownLaunched' = ShownLaunched \cup ShownLaunched'
            /\ ShownCompleted' = ShownCompleted
            /\ ShownLaunched' \in SUBSET Runs
        BY <2>3
      <3> QED
        BY <2>1, <3>1 DEF Lifecycle!Next, Lifecycle!Launch
    <2>4. CASE completed \subseteq completed' /\ UNCHANGED launched
      <3>1. completed' \subseteq launched
        BY <2>4 DEF Inv, JobsAreRecorded
      <3>2. /\ ShownCompleted' = ShownCompleted \cup ShownCompleted'
            /\ ShownLaunched' = ShownLaunched
            /\ ShownCompleted' \subseteq ShownLaunched
            /\ ShownCompleted' \in SUBSET Runs
        BY <2>4, <3>1
      <3> QED
        BY <2>1, <3>2 DEF Lifecycle!Next, Lifecycle!Complete
    <2> QED
      BY <2>2, <2>3, <2>4, HistorySteps
  <1> QED
    BY <1>1, <1>2, OnlyUpdateWrites

(* Every behaviour of the controller, with any interleaving of caches, crashes  *)
(* and pods, shows its clients the lifecycle of RunLifecycle.                   *)
THEOREM RunImplementsLifecycle == Spec => ImplementsLifecycle
  <1>1. Init => Lifecycle!Init
    <2> SUFFICES ASSUME Init
                 PROVE  Lifecycle!Init
      OBVIOUS
    <2>1. \A r \in Runs : run[r].phase = ""
      BY DEF Init, NewRun
    <2>2. [r \in Runs |-> IF run[r].phase = "" THEN "Pending" ELSE run[r].phase]
            = [r \in Runs |-> "Pending"]
      BY <2>1
    <2>3. /\ {r \in Runs : JobName[r] \in launched} = {}
          /\ {r \in Runs : JobName[r] \in completed} = {}
      BY DEF Init
    <2> QED
      BY <2>2, <2>3 DEF Lifecycle!Init
  <1>2. Inv /\ Inv' /\ [Next]_vars => [Lifecycle!Next]_(Lifecycle!vars)
    BY NextImplements
  <1> QED
    BY <1>1, <1>2, InvHolds, PTL DEF Spec, ImplementsLifecycle, Lifecycle!Spec

-----------------------------------------------------------------------------
(* What the shards and the Job promise while discovery gives stable results.    *)

(* The worker counts of the plans that discovery may lead to.                   *)
PlannedCounts ==
    {Build(d, EffectiveBounds).actualWorkers :
        d \in {e \in Discoveries : Build(e, EffectiveBounds).err = "none"}}

(* The premise of what follows: the repositories may change from one discovery   *)
(* to the next, but not so far that another number of workers is wanted.        *)
StableCounts == \A v, w \in PlannedCounts : v = w

(* Every ConfigMap and every Job, also one that is only cached, has one of the   *)
(* planned sizes, and so has the plan a Job is about to be created for.         *)
SizesArePlanned ==
    /\ \A r \in Runs : shardCM[r] # NoShards => \E w \in PlannedCounts : DOMAIN shardCM[r] = 0..(w - 1)
    /\ \A n \in JobNames : \A j \in {job[n], jobCache[n]} : j # NoJob => j.completions \in PlannedCounts
    /\ pc = "job" => copy.actualWorkers \in PlannedCounts

(* A pod that exited 0 has processed the shard it read.                          *)
DoneIsWorked ==
    \A n \in JobNames : \A j \in {job[n], jobCache[n]} : j # NoJob =>
        /\ shardCM[j.owner] # NoShards
        /\ \A i \in j.done : i \in DOMAIN shardCM[j.owner]
                             /\ Slugs(shardCM[j.owner][i].repos) \subseteq worked[j.owner]

AllShardsRan(r) == shardCM[r] # NoShards /\ PlannedRepos(shardCM[r]) \subseteq worked[r]

(* Wherever a Run is Succeeded, its shards have run.                             *)
SuccessIsEarned ==
    /\ \A r \in Runs : \A st \in {run[r], runCache[r]} : st.phase = "Succeeded" => AllShardsRan(r)
    /\ pc # "idle" => \A st \in {base, copy} : st.phase = "Succeeded" => AllShardsRan(cur)

ShardInv == SizesArePlanned /\ DoneIsWorked

(* A plan that ensureShardConfigMap accepts has one of the planned sizes.       *)
LEMMA PlanIsPlanned ==
    ASSUME TypeOK, ShardPlan.err = "none"
    PROVE  /\ ShardPlan.actualWorkers \in PlannedCounts
           /\ DOMAIN ShardPlan.data = 0..(ShardPlan.actualWorkers - 1)
  <1>1. EffectiveBounds \in WorkerBounds
    BY WorkersAssumption DEF WorkersAssumption, EffectiveBounds, WorkerBounds
  <1>2. /\ found # <<>>
        /\ DOMAIN ShardPlan.data = 0..(ShardPlan.actualWorkers - 1)
    BY <1>1, FoundIsSequence, BuildGivesAPlan DEF ShardPlan
  <1>3. found \in Discoveries
    BY <1>2 DEF TypeOK
  <1> QED
    BY <1>2, <1>3 DEF PlannedCounts, ShardPlan

(* Planned sizes are numbers of workers: at least one.                          *)
LEMMA CountsAreCounts == PlannedCounts \subseteq Nat \ {0}
  <1>1. EffectiveBounds \in WorkerBounds
    BY WorkersAssumption DEF WorkersAssumption, EffectiveBounds, WorkerBounds
  <1>2. \A d \in Discoveries : d \in Seq(Nat)
    BY DiscoveriesAssumption DEF DiscoveriesAssumption
  <1> QED
    BY <1>1, <1>2, BuildGivesAPlan DEF PlannedCounts

-----------------------------------------------------------------------------
(* What a step may do to the shards, the Jobs and the record of the work.       *)

(* A ConfigMap is only ever created, by ensureShardConfigMap and from its plan;  *)
(* nothing replaces one.                                                        *)
LEMMA ShardSteps ==
    ASSUME [Next]_vars
    PROVE  \/ UNCHANGED shardCM
           \/ /\ ensureShardConfigMap /\ ShardPlan.err = "none" /\ shardCM[cur] = NoShards
              /\ shardCM' = [shardCM EXCEPT ![cur] = ShardPlan.data]
  <1>1. CASE ensureShardConfigMap
    BY <1>1 DEF ensureShardConfigMap
  <1>2. CASE ReconcileStep /\ ~ ensureShardConfigMap
    BY <1>2 DEF ReconcileStep, Reconcile, Authenticate, mirrorCredential, discoverRepos,
        ensureWorkerJob, observeJob, UpdateStatus, apiVars
  <1>3. CASE Crash \/ CacheStep \/ PodStep
    BY <1>3 DEF Crash, CacheStep, SyncRun, SyncSecret, SyncShardCM, SyncJob, PodStep,
        PodSucceeds, PodFails, apiVars
  <1>4. CASE (\E r \in Runs : Resync(r)) \/ (\E n \in JobNames : DeleteJob(n)) \/ UNCHANGED vars
    BY <1>4 DEF Resync, DeleteJob, vars, apiVars
  <1> QED
    BY <1>1, <1>2, <1>3, <1>4 DEF Next

(* The pod of index i, of the Job named n, exits 0.                             *)
Exited(n, i, j) ==
    /\ job[n] # NoJob /\ j = [job[n] EXCEPT !.done = @ \cup {i}]
    /\ i \in DOMAIN shardCM[job[n].owner]
    /\ Slugs(shardCM[job[n].owner][i].repos) \subseteq worked'[job[n].owner]

(* A Job that anyone sees after a step was there before it, or was created, or  *)
(* had a pod end.                                                               *)
LEMMA JobSteps ==
    ASSUME Inv, [Next]_vars, NEW n \in JobNames, NEW j \in {job'[n], jobCache'[n]}, j # NoJob
    PROVE  \/ j \in {job[n], jobCache[n]}
           \/ pc = "job" /\ cur \in Runs /\ n = JobName[cur] /\ j = NewJob(cur, copy.actualWorkers)
           \/ \E i \in Nat : Exited(n, i, j)
           \/ job[n] # NoJob /\ j = [job[n] EXCEPT !.failed = @ + 1]
  <1>1. DOMAIN job = JobNames /\ DOMAIN jobCache = JobNames /\ DOMAIN worked = Runs
    BY JobsKnown
  <1>2. CASE ensureWorkerJob
    <2>1. pc = "job" /\ cur \in Runs /\ JobName[cur] \in JobNames
      BY <1>2, NamesAreNames DEF ensureWorkerJob, Inv, TypeOK
    <2>2. jobCache' = jobCache
      BY <1>2 DEF ensureWorkerJob, cacheVars
    <2>3. job' = job \/ job' = [job EXCEPT ![JobName[cur]] = NewJob(cur, copy.actualWorkers)]
      BY <1>2 DEF ensureWorkerJob
    <2> QED
      BY <1>1, <2>1, <2>2, <2>3
  <1>3. CASE PodStep
    <2>0. PICK m \in JobNames : \E i \in 0..(job[m].completions - 1) :
             PodSucceeds(m, i) \/ PodFails(m, i)
      BY <1>3 DEF PodStep
    <2>1. PICK i \in 0..(job[m].completions - 1) : PodSucceeds(m, i) \/ PodFails(m, i)
      BY <2>0
    <2>2. jobCache' = jobCache /\ job[m] # NoJob
      BY <2>1 DEF PodSucceeds, PodFails, cacheVars
    <2>3. job[m].owner \in Runs /\ job[m].completions \in Nat
      BY <2>2, JobsKnown DEF IsJob
    <2>4. CASE PodSucceeds(m, i)
      <3>1. /\ job' = [job EXCEPT ![m] = [job[m] EXCEPT !.done = @ \cup {i}]]
            /\ i \in DOMAIN shardCM[job[m].owner]
            /\ worked' = [worked EXCEPT ![job[m].owner] =
                             @ \cup Slugs(shardCM[job[m].owner][i].repos)]
        BY <2>4 DEF PodSucceeds, CanRead
      <3>2. Slugs(shardCM[job[m].owner][i].repos) \subseteq worked'[job[m].owner]
        BY <1>1, <2>3, <3>1
      <3>3. i \in Nat
        BY <2>3
      <3>4. j \in {job[n], jobCache[n]} \/ (n = m /\ j = [job[m] EXCEPT !.done = @ \cup {i}])
        BY <1>1, <2>2, <3>1
      <3> QED
        BY <2>2, <3>1, <3>2, <3>3, <3>4 DEF Exited
    <2>5. CASE PodFails(m, i)
      <3>1. job' = [job EXCEPT ![m] = [job[m] EXCEPT !.failed = @ + 1]]
        BY <2>5 DEF PodFails
      <3> QED
        BY <1>1, <2>2, <3>1
    <2> QED
      BY <2>1, <2>4, <2>5
  <1>4. CASE ReconcileStep /\ ~ ensureWorkerJob
    BY <1>4 DEF ReconcileStep, Reconcile, Authenticate, mirrorCredential, discoverRepos,
        ensureShardConfigMap, observeJob, UpdateStatus, apiVars, cacheVars
  <1>5. CASE Crash \/ CacheStep
    BY <1>1, <1>5 DEF Crash, CacheStep, SyncRun, SyncSecret, SyncShardCM, SyncJob, apiVars
  <1>6. CASE (\E r \in Runs : Resync(r)) \/ (\E m \in JobNames : DeleteJob(m)) \/ UNCHANGED vars
    BY <1>1, <1>6 DEF Resync, DeleteJob, vars, apiVars, cacheVars
  <1> QED
    BY <1>2, <1>3, <1>4, <1>5, <1>6 DEF Next

(* Work that was done stays done.                                               *)
LEMMA WorkGrows ==
    ASSUME Inv, [Next]_vars, NEW r \in Runs
    PROVE  worked[r] \subseteq worked'[r]
  <1>1. CASE PodStep
    <2>1. PICK m \in JobNames : \E i \in 0..(job[m].completions - 1) :
             PodSucceeds(m, i) \/ PodFails(m, i)
      BY <1>1 DEF PodStep
    <2> QED
      BY <2>1, JobsKnown DEF PodSucceeds, PodFails, historyVars
  <1>2. CASE ReconcileStep
    BY <1>2 DEF ReconcileStep, Reconcile, Authenticate, mirrorCredential, discoverRepos,
        ensureShardConfigMap, ensureWorkerJob, observeJob, UpdateStatus, historyVars
  <1>3. CASE Crash \/ CacheStep
    BY <1>3 DEF Crash, CacheStep, SyncRun, SyncSecret, SyncShardCM, SyncJob, historyVars
  <1>4. CASE (\E s \in Runs : Resync(s)) \/ (\E n \in JobNames : DeleteJob(n)) \/ UNCHANGED vars
    BY <1>4 DEF Resync, DeleteJob, vars, historyVars
  <1> QED
    BY <1>1, <1>2, <1>3, <1>4 DEF Next

(* Only ensureShardConfigMap leads to the call that creates a Job, and it       *)
(* hands over the worker count of its plan.                                     *)
LEMMA CountSteps ==
    ASSUME Inv, [Next]_vars, pc' = "job"
    PROVE  \/ pc = "job" /\ UNCHANGED copy
           \/ ShardPlan.err = "none" /\ copy'.actualWorkers = ShardPlan.actualWorkers
  <1>1. CASE ensureShardConfigMap
    <2>1. copy \in Status
      BY DEF Inv, TypeOK
    <2>2. /\ ShardPlan.err = "none"
          /\ copy' = [copy EXCEPT !.discoveredRepos = Len(found),
                                  !.actualWorkers = ShardPlan.actualWorkers,
                                  !.shardRef = TRUE]
      BY <1>1 DEF ensureShardConfigMap, RetryOnError, AnswerLost, markTransient
    <2> QED
      BY <2>1, <2>2 DEF Status
  <1>2. CASE ReconcileStep /\ ~ ensureShardConfigMap
    BY <1>2 DEF ReconcileStep, Reconcile, Authenticate, mirrorCredential, discoverRepos,
        ensureWorkerJob, observeJob, UpdateStatus, RetryOnError, AnswerLost, markTransient,
        markFailed, Goto, Finish
  <1>3. CASE Crash \/ CacheStep \/ PodStep
    BY <1>3 DEF Crash, CacheStep, SyncRun, SyncSecret, SyncShardCM, SyncJob, PodStep,
        PodSucceeds, PodFails, reconcileVars
  <1>4. CASE (\E r \in Runs : Resync(r)) \/ (\E n \in JobNames : DeleteJob(n)) \/ UNCHANGED vars
    BY <1>4 DEF Resync, DeleteJob, vars, reconcileVars
  <1> QED
    BY <1>1, <1>2, <1>3, <1>4 DEF Next

-----------------------------------------------------------------------------
(* The sizes and the work done: inductive, whatever discovery returns.           *)

(* Both changes that the pods of a Job make leave its owner and its size.        *)
LEMMA PodsKeepSize ==
    ASSUME NEW n, NEW j, IsJob(n, j), NEW i
    PROVE  /\ LET t == [j EXCEPT !.done = @ \cup {i}]
              IN  t.owner = j.owner /\ t.completions = j.completions /\ t.done = j.done \cup {i}
           /\ LET t == [j EXCEPT !.failed = @ + 1]
              IN  t.owner = j.owner /\ t.completions = j.completions /\ t.done = j.done
  BY DEF IsJob

(* A ConfigMap that exists stays as it is.                                       *)
LEMMA ShardsStay ==
    ASSUME Inv, [Next]_vars, NEW r \in Runs, shardCM[r] # NoShards
    PROVE  shardCM'[r] = shardCM[r]
  <1>1. DOMAIN shardCM = Runs
    BY DEF Inv, TypeOK
  <1> QED
    BY <1>1, ShardSteps

(* Every step keeps the sizes planned.                                           *)
LEMMA SizesStayPlanned ==
    ASSUME Inv, SizesArePlanned, [Next]_vars
    PROVE  SizesArePlanned'
  <1>1. ASSUME NEW r \in Runs, shardCM'[r] # NoShards
        PROVE  \E w \in PlannedCounts : DOMAIN shardCM'[r] = 0..(w - 1)
    <2>1. CASE UNCHANGED shardCM
      BY <1>1, <2>1 DEF SizesArePlanned
    <2>2. CASE /\ ShardPlan.err = "none"
               /\ shardCM' = [shardCM EXCEPT ![cur] = ShardPlan.data]
      <3>1. DOMAIN shardCM = Runs /\ TypeOK
        BY DEF Inv, TypeOK
      <3>2. shardCM'[r] = shardCM[r] \/ shardCM'[r] = ShardPlan.data
        BY <2>2, <3>1
      <3>3. CASE shardCM'[r] = shardCM[r]
        BY <1>1, <3>3 DEF SizesArePlanned
      <3>4. CASE shardCM'[r] = ShardPlan.data
        BY <2>2, <3>1, <3>4, PlanIsPlanned
      <3> QED
        BY <3>2, <3>3, <3>4
    <2> QED
      BY <2>1, <2>2, ShardSteps
  <1>2. ASSUME NEW n \in JobNames, NEW j \in {job'[n], jobCache'[n]}, j # NoJob
        PROVE  j.completions \in PlannedCounts
    <2>1. CASE j \in {job[n], jobCache[n]}
      BY <1>2, <2>1 DEF SizesArePlanned
    <2>2. CASE pc = "job" /\ j = NewJob(cur, copy.actualWorkers)
      BY <2>2 DEF SizesArePlanned, NewJob
    <2>3. ASSUME job[n] # NoJob
          PROVE  IsJob(n, job[n]) /\ job[n].completions \in PlannedCounts
      BY <2>3, JobsKnown DEF SizesArePlanned
    <2>4. CASE \E i \in Nat : Exited(n, i, j)
      BY <2>3, <2>4, PodsKeepSize DEF Exited
    <2>5. CASE job[n] # NoJob /\ j = [job[n] EXCEPT !.failed = @ + 1]
      BY <2>3, <2>5, PodsKeepSize
    <2> QED
      BY <1>2, <2>1, <2>2, <2>4, <2>5, JobSteps
  <1>3. pc' = "job" => copy'.actualWorkers \in PlannedCounts
    <2> SUFFICES ASSUME pc' = "job"
                 PROVE  copy'.actualWorkers \in PlannedCounts
      OBVIOUS
    <2>1. TypeOK
      BY DEF Inv
    <2> QED
      BY <2>1, CountSteps, PlanIsPlanned DEF SizesArePlanned
  <1> QED
    BY <1>1, <1>2, <1>3 DEF SizesArePlanned

(* Every step keeps the done indexes backed by work.                             *)
LEMMA DoneStaysWorked ==
    ASSUME Inv, DoneIsWorked, [Next]_vars
    PROVE  DoneIsWorked'
  <1> DEFINE Backed(r, done) == /\ shardCM[r] # NoShards
                                /\ \A i \in done : /\ i \in DOMAIN shardCM[r]
                                                   /\ Slugs(shardCM[r][i].repos) \subseteq worked[r]
  <1> SUFFICES ASSUME NEW n \in JobNames, NEW j \in {job'[n], jobCache'[n]}, j # NoJob
               PROVE  Backed(j.owner, j.done)'
    BY DEF DoneIsWorked
  <1>1. ASSUME NEW r \in Runs, NEW done, Backed(r, done)
        PROVE  Backed(r, done)'
    BY <1>1, ShardsStay, WorkGrows
  <1>2. ASSUME NEW k \in {job[n], jobCache[n]}, k # NoJob
        PROVE  k.owner \in Runs /\ IsJob(n, k) /\ Backed(k.owner, k.done)'
    <2>1. k.owner \in Runs /\ IsJob(n, k)
      BY <1>2, JobsKnown DEF IsJob
    <2>2. Backed(k.owner, k.done)
      BY <1>2 DEF DoneIsWorked
    <2> QED
      BY <1>1, <2>1, <2>2
  <1>3. CASE j \in {job[n], jobCache[n]}
    BY <1>2, <1>3
  <1>4. CASE pc = "job" /\ cur \in Runs /\ j = NewJob(cur, copy.actualWorkers)
    <2>1. shardCM[cur] # NoShards
      BY <1>4 DEF Inv, ReconcileInProgress
    <2>2. j.owner = cur /\ j.done = {}
      BY <1>4 DEF NewJob
    <2> QED
      BY <1>1, <1>4, <2>1, <2>2
  <1>5. CASE \E i \in Nat : Exited(n, i, j)
    <2>1. PICK i \in Nat : Exited(n, i, j)
      BY <1>5
    <2>2. PICK k \in {job[n], jobCache[n]} : k = job[n]
      OBVIOUS
    <2>3. k # NoJob /\ k.owner \in Runs /\ IsJob(n, k)
      BY <1>2, <2>1, <2>2 DEF Exited
    <2>4. j.owner = k.owner /\ j.done = k.done \cup {i}
      BY <2>1, <2>2, <2>3, PodsKeepSize DEF Exited
    <2>5. Backed(k.owner, k.done)'
      BY <1>2, <2>3
    <2>6. shardCM'[k.owner] = shardCM[k.owner]
      BY <2>3, ShardsStay DEF DoneIsWorked
    <2>7. /\ i \in DOMAIN shardCM'[k.owner]
          /\ Slugs(shardCM'[k.owner][i].repos) \subseteq worked'[k.owner]
      BY <2>1, <2>2, <2>6 DEF Exited
    <2> QED
      BY <2>4, <2>5, <2>7
  <1>6. CASE job[n] # NoJob /\ j = [job[n] EXCEPT !.failed = @ + 1]
    <2>1. PICK k \in {job[n], jobCache[n]} : k = job[n]
      OBVIOUS
    <2>2. j.owner = k.owner /\ j.done = k.done
      BY <1>2, <1>6, <2>1, PodsKeepSize
    <2> QED
      BY <1>2, <1>6, <2>1, <2>2
  <1> QED
    BY <1>3, <1>4, <1>5, <1>6, JobSteps

(* The inductive invariant of this part holds, whatever discovery returns.       *)
THEOREM ShardInvHolds == Spec => []ShardInv
  <1>1. Init => ShardInv
    BY DEF Init, ShardInv, SizesArePlanned, DoneIsWorked
  <1>2. Inv /\ ShardInv /\ [Next]_vars => ShardInv'
    BY SizesStayPlanned, DoneStaysWorked DEF ShardInv
  <1> QED
    BY <1>1, <1>2, InvHolds, PTL DEF Spec

(* BuildInput: a Job has as many completions as its owner's ConfigMap has        *)
(* shards, although the two may stem from different discoveries, as long as      *)
(* the number of workers wanted does not change between them.                    *)
THEOREM JobsMatchTheirShards ==
    ASSUME StableCounts
    PROVE  Spec => []JobMatchesShards
  <1>1. Inv /\ ShardInv => JobMatchesShards
    <2> SUFFICES ASSUME Inv, ShardInv, NEW n \in JobNames, job[n] # NoJob
                 PROVE  job[n].completions = Cardinality(DOMAIN shardCM[job[n].owner])
      BY DEF JobMatchesShards
    <2>1. job[n].owner \in Runs /\ shardCM[job[n].owner] # NoShards
      BY JobsKnown DEF IsJob, Inv, JobHasItsInputs
    <2>2. PICK w \in PlannedCounts : DOMAIN shardCM[job[n].owner] = 0..(w - 1)
      BY <2>1 DEF ShardInv, SizesArePlanned
    <2>3. job[n].completions = w
      BY <2>2 DEF ShardInv, SizesArePlanned, StableCounts
    <2>4. w \in Nat
      BY <2>2, CountsAreCounts
    <2> QED
      BY <2>2, <2>3, <2>4, IntervalSize
  <1> QED
    BY <1>1, InvHolds, ShardInvHolds, PTL

-----------------------------------------------------------------------------
(* Succeeded: every shard ran.                                                   *)

(* The other premise: no two Runs are given the same Job name.                   *)
NamesAreDistinct == \A r, s \in Runs : JobName[r] = JobName[s] => r = s

(* A Job with as many done indexes as completions has all of them done.          *)
LEMMA SucceededIsDone ==
    ASSUME NEW n, NEW j, IsJob(n, j), JobSucceeded(j)
    PROVE  j.done = 0..(j.completions - 1)
  <1>1. j.completions \in Nat /\ j.done \subseteq 0..(j.completions - 1)
    BY DEF IsJob
  <1>2. /\ IsFiniteSet(0..(j.completions - 1))
        /\ Cardinality(0..(j.completions - 1)) = j.completions
    BY <1>1, IntervalSize
  <1>3. /\ Cardinality(j.done) \in Nat
        /\ Cardinality(j.done) <= Cardinality(0..(j.completions - 1))
        /\ Cardinality(j.done) = Cardinality(0..(j.completions - 1))
              => j.done = 0..(j.completions - 1)
    BY <1>1, <1>2, DoneIsFinite, FS_Subset
  <1>4. Cardinality(j.done) >= j.completions
    BY DEF JobSucceeded
  <1> QED
    BY <1>1, <1>2, <1>3, <1>4

(* Shards that ran have run for good.                                            *)
LEMMA RanForGood ==
    ASSUME Inv, [Next]_vars, NEW r \in Runs, AllShardsRan(r)
    PROVE  AllShardsRan(r)'
  BY ShardsStay, WorkGrows DEF AllShardsRan

(* A succeeded Job in the cache: each shard of its owner was processed.          *)
LEMMA SucceededJobRan ==
    ASSUME StableCounts, Inv, ShardInv, NEW n \in JobNames,
           jobCache[n] # NoJob, JobSucceeded(jobCache[n])
    PROVE  AllShardsRan(jobCache[n].owner)
  <1> DEFINE j == jobCache[n]
             data == shardCM[j.owner]
  <1>1. IsJob(n, j) /\ j.owner \in Runs
    BY JobsKnown DEF IsJob
  <1>2. j.done = 0..(j.completions - 1)
    BY <1>1, SucceededIsDone
  <1>3. /\ data # NoShards
        /\ \A i \in j.done : i \in DOMAIN data /\ Slugs(data[i].repos) \subseteq worked[j.owner]
    BY DEF ShardInv, DoneIsWorked
  <1>4. PICK w \in PlannedCounts : DOMAIN data = 0..(w - 1)
    BY <1>1, <1>3 DEF ShardInv, SizesArePlanned
  <1>5. j.completions = w
    BY <1>4 DEF ShardInv, SizesArePlanned, StableCounts
  <1>6. DOMAIN data = j.done
    BY <1>2, <1>4, <1>5
  <1> HIDE DEF data, j
  <1>7. PlannedRepos(data) \subseteq worked[j.owner]
    BY <1>3, <1>6 DEF PlannedRepos
  <1> QED
    BY <1>3, <1>7 DEF AllShardsRan, data, j

(* observeJob reports Succeeded only for a succeeded Job in its cache.           *)
LEMMA ObservedSuccess ==
    ASSUME Inv, observeJob, copy'.phase = "Succeeded"
    PROVE  /\ cur \in Runs /\ JobName[cur] \in JobNames
           /\ jobCache[JobName[cur]] # NoJob /\ JobSucceeded(jobCache[JobName[cur]])
  <1>1. /\ cur \in Runs /\ JobName[cur] \in JobNames /\ copy \in Status
        /\ copy.phase = "Running" /\ copy.jobRef = JobName[cur]
    BY NamesAreNames DEF observeJob, Inv, TypeOK, ReconcileInProgress, HasJobRef
  <1>2. copy' = Observed(copy)
    BY <1>1 DEF observeJob
  <1> DEFINE j == jobCache[JobName[cur]]
             counted == [copy EXCEPT !.succeededShards = Cardinality(j.done),
                                     !.failedShards = j.failed]
  <1>3. counted.phase = "Running" /\ "phase" \in DOMAIN counted
    BY <1>1 DEF Status
  <1>4. JobName[cur] # NoObject
    BY <1>1, NamesAreNames
  <1>5. CASE j = NoJob
    BY <1>1, <1>2, <1>4, <1>5 DEF Observed, Status
  <1>6. CASE j # NoJob /\ ~ JobSucceeded(j)
    <2>1. copy' = [counted EXCEPT !.phase = "Failed", !.failure = "jobFailed"] \/ copy' = counted
      BY <1>1, <1>2, <1>4, <1>6 DEF Observed
    <2> HIDE DEF counted
    <2> QED
      BY <1>3, <2>1
  <1> QED
    BY <1>1, <1>5, <1>6

(* What a step may leave in the status of the reconcile in progress: a Succeeded *)
(* status was read from the cache, or there before, or was just observed.        *)
LEMMA StatusSteps ==
    ASSUME Inv, [Next]_vars, pc' # "idle", NEW st \in {base', copy'}, st.phase = "Succeeded"
    PROVE  \/ cur' \in Runs /\ st = runCache[cur']
           \/ pc # "idle" /\ cur' = cur /\ st \in {base, copy}
           \/ observeJob /\ cur' = cur /\ copy'.phase = "Succeeded"
  <1>1. CASE \E r \in Runs : Reconcile(r)
    <2>1. PICK r \in Runs : Reconcile(r)
      BY <1>1
    <2>2. runCache[r] \in Status
      BY DEF Inv, TypeOK
    <2>3. /\ cur' = r /\ base' = runCache[r]
          /\ \/ copy' = runCache[r]
             \/ copy' = [runCache[r] EXCEPT !.phase = "Discovering", !.started = "True"]
      BY <2>1 DEF Reconcile
    <2> QED
      BY <2>2, <2>3, AdmittedChanges
  <1>2. CASE Authenticate \/ mirrorCredential \/ discoverRepos \/ ensureShardConfigMap
                \/ ensureWorkerJob
    <2>1. pc \in DiscoverCalls
      BY <1>2 DEF Authenticate, mirrorCredential, discoverRepos, ensureShardConfigMap,
          ensureWorkerJob, DiscoverCalls
    <2>2. copy \in Status /\ copy.phase = "Discovering" /\ base.phase \in Unstarted
      BY <2>1, WhileDiscovering
    <2>3. base' = base
      BY <1>2 DEF Authenticate, mirrorCredential, discoverRepos, ensureShardConfigMap,
          ensureWorkerJob, RetryOnError, AnswerLost, markTransient, markFailed, Goto
    <2>4. copy'.phase \in {"Discovering", "Running", "Failed"}
      BY <1>2, <2>2 DEF Authenticate, mirrorCredential, discoverRepos, ensureShardConfigMap,
          ensureWorkerJob, RetryOnError, AnswerLost, markTransient, markFailed, Status
    <2> QED
      BY <2>2, <2>3, <2>4 DEF Unstarted
  <1>3. CASE observeJob
    <2>1. pc # "idle" /\ cur' = cur /\ base' = base
      BY <1>3 DEF observeJob
    <2> QED
      BY <1>3, <2>1
  <1>4. CASE UpdateStatus \/ Crash
    BY <1>4 DEF UpdateStatus, Finish, Crash
  <1>5. CASE CacheStep \/ PodStep
    <2>1. UNCHANGED <<pc, cur, base, copy>>
      BY <1>5 DEF CacheStep, SyncRun, SyncSecret, SyncShardCM, SyncJob, PodStep,
          PodSucceeds, PodFails, reconcileVars
    <2> QED
      BY <2>1
  <1>6. CASE (\E r \in Runs : Resync(r)) \/ (\E n \in JobNames : DeleteJob(n)) \/ UNCHANGED vars
    <2>1. UNCHANGED <<pc, cur, base, copy>>
      BY <1>6 DEF Resync, DeleteJob, vars, reconcileVars
    <2> QED
      BY <2>1
  <1> QED
    BY <1>1, <1>2, <1>3, <1>4, <1>5, <1>6 DEF Next, ReconcileStep

(* The API server and the cache only learn a status from the reconcile and from   *)
(* each other.                                                                  *)
LEMMA WrittenSteps ==
    ASSUME Inv, [Next]_vars, NEW r \in Runs, NEW st \in {run'[r], runCache'[r]}
    PROVE  st \in {run[r], runCache[r]} \/ (pc # "idle" /\ cur = r /\ st = copy)
  <1>1. run \in [Runs -> Status] /\ runCache \in [Runs -> Status]
    BY DEF Inv, TypeOK
  <1>2. CASE UpdateStatus
    <2>1. cur \in Runs /\ pc # "idle" /\ runCache' = runCache
          /\ (run' = run \/ run' = [run EXCEPT ![cur] = copy])
      BY <1>2, WhileUpdating DEF UpdateStatus, cacheVars
    <2> QED
      BY <1>1, <2>1
  <1>3. CASE Crash \/ CacheStep
    BY <1>1, <1>3 DEF Crash, CacheStep, SyncRun, SyncSecret, SyncShardCM, SyncJob, apiVars
  <1>4. CASE ~ UpdateStatus /\ ~ Crash /\ ~ CacheStep
    <2>1. runCache' = runCache
      BY <1>4 DEF Next, ReconcileStep, Reconcile, Authenticate, mirrorCredential, discoverRepos,
          ensureShardConfigMap, ensureWorkerJob, observeJob, Resync, PodStep, PodSucceeds,
          PodFails, DeleteJob, vars, cacheVars
    <2> QED
      BY <1>4, <2>1, OnlyUpdateWrites
  <1> QED
    BY <1>2, <1>3, <1>4

(* Every step keeps success earned.                                             *)
LEMMA SuccessStaysEarned ==
    ASSUME StableCounts, NamesAreDistinct, Inv, ShardInv, SuccessIsEarned, [Next]_vars, Inv'
    PROVE  SuccessIsEarned'
  <1>1. ASSUME NEW r \in Runs, NEW st \in {run'[r], runCache'[r]}, st.phase = "Succeeded"
        PROVE  AllShardsRan(r)'
    <2>1. AllShardsRan(r)
      BY <1>1, WrittenSteps DEF SuccessIsEarned
    <2> QED
      BY <2>1, RanForGood
  <1>2. ASSUME pc' # "idle", NEW st \in {base', copy'}, st.phase = "Succeeded"
        PROVE  \E r \in Runs : r = cur' /\ AllShardsRan(r)
    <2>1. cur' \in Runs
      BY <1>2 DEF Inv, TypeOK
    <2>2. CASE st = runCache[cur']
      BY <1>2, <2>1, <2>2 DEF SuccessIsEarned
    <2>3. CASE pc # "idle" /\ cur' = cur /\ st \in {base, copy}
      BY <1>2, <2>1, <2>3 DEF SuccessIsEarned
    <2>4. CASE observeJob /\ cur' = cur /\ copy'.phase = "Succeeded"
      <3>1. /\ cur \in Runs /\ JobName[cur] \in JobNames
            /\ jobCache[JobName[cur]] # NoJob /\ JobSucceeded(jobCache[JobName[cur]])
        BY <2>4, ObservedSuccess
      <3>2. jobCache[JobName[cur]].owner \in Runs
            /\ JobName[jobCache[JobName[cur]].owner] = JobName[cur]
        BY <3>1, JobsKnown DEF IsJob
      <3>3. jobCache[JobName[cur]].owner = cur
        BY <3>1, <3>2 DEF NamesAreDistinct
      <3>4. AllShardsRan(jobCache[JobName[cur]].owner)
        BY <3>1, SucceededJobRan
      <3> QED
        BY <2>4, <3>1, <3>3, <3>4
    <2> QED
      BY <1>2, <2>2, <2>3, <2>4, StatusSteps
  <1>3. ASSUME pc' # "idle", NEW st \in {base', copy'}, st.phase = "Succeeded"
        PROVE  \E r \in Runs : r = cur' /\ AllShardsRan(r)'
    BY <1>2, <1>3, RanForGood
  <1> QED
    BY <1>1, <1>3 DEF SuccessIsEarned, AllShardsRan

(* Succeeded means that every shard exited 0: each repository in the Run's       *)
(* ConfigMap was processed by one of its own pods.  That needs both premises:    *)
(* with another worker count a shard may be without an index, and with a shared   *)
(* Job name the pods were another Run's.                                        *)
THEOREM SuccessMeansAllShardsRan ==
    ASSUME StableCounts, NamesAreDistinct
    PROVE  Spec => []SucceededMeansAllShardsRan
  <1>1. Init => SuccessIsEarned
    <2> SUFFICES ASSUME Init
                 PROVE  SuccessIsEarned
      OBVIOUS
    <2>1. pc = "idle" /\ \A r \in Runs : run[r].phase = "" /\ runCache[r].phase = ""
      BY DEF Init, NewRun
    <2> QED
      BY <2>1 DEF SuccessIsEarned
  <1>2. Inv /\ Inv' /\ ShardInv /\ SuccessIsEarned /\ [Next]_vars => SuccessIsEarned'
    BY SuccessStaysEarned
  <1>3. SuccessIsEarned => SucceededMeansAllShardsRan
    BY DEF SuccessIsEarned, AllShardsRan, SucceededMeansAllShardsRan
  <1> QED
    BY <1>1, <1>2, <1>3, InvHolds, ShardInvHolds, PTL DEF Spec
=============================================================================
