--------------------------- MODULE OperatorProofs ---------------------------
(* Proofs about Operator, for all specs of Platform and Scan that admission lets *)
(* through, all contents of Secrets, and every number of edits and failures.    *)
EXTENDS Operator, TLAPS

-----------------------------------------------------------------------------
(* The inductive invariant.                                                     *)

Platforms == {platform, platformCache}

(* Generations count the edits, and Ready was found for one of them.             *)
GenerationsCountEdits ==
    \A p \in Platforms : p.readyGen <= p.gen /\ p.gen <= changes + 1

(* The Run exists before anything that is made of it, in memory or in the        *)
(* cluster, and its snapshots stay when it is gone.                              *)
RunComesFirst ==
    \/ run # NoRun
    \/ /\ pc = "idle" /\ runCache = NoRun /\ mirror = None /\ shards = None /\ job = None
       /\ ~ vouched

(* Whichever reconcile created them, Secret and Job are made from the snapshots. *)
MadeFromSnapshots ==
    /\ mirror # None => mirror = BuildMirror
    /\ job # None => /\ job = [owner |-> "run", state |-> job.state, env |-> BuildWorkerJob.env]
                     /\ job.state \in {"active", "succeeded", "failed"}

(* A reconcile works on a Run that was active when it was read; only the call     *)
(* that ends it changes the copy.                                                *)
ReconcileInProgress ==
    /\ pc = "idle" => copy = NoRun
    /\ pc # "idle" => /\ base.phase \in Active /\ copy \notin {NoRun, Gone}
                      /\ pc # "update" => copy = base

(* Ready, found for the spec as it is and a Secret nobody has edited since, says  *)
(* what a look at the Secret would say.                                          *)
ReadyIsFresh ==
    \A p \in Platforms :
        p.ready = "CredentialsResolved" /\ p.readyGen = p.gen /\ p.sound =>
            Conclusion(p.spec, secret) = "CredentialsResolved"

VouchedIsResolved == vouched => Conclusion(Snapshot, secret) = "CredentialsResolved"

(* RefusedForAReason of a status, also before it is written.                      *)
Explained(st) == st.failure = "client" /\ vouched => Misjudged(Snapshot, secret[Snapshot.ref])

FailuresAreExplained == Explained(run) /\ Explained(copy)

Inv ==
    /\ TypeOK
    /\ GenerationsCountEdits
    /\ RunComesFirst
    /\ MadeFromSnapshots
    /\ ReconcileInProgress
    /\ ReadyIsFresh
    /\ VouchedIsResolved
    /\ FailuresAreExplained

-----------------------------------------------------------------------------
(* What the operators of the model give.                                        *)

(* Admission: a Platform refers to a Secret, and a Forgejo has a token.          *)
LEMMA SpecsAreAdmitted ==
    ASSUME NEW s \in PlatformSpecs
    PROVE  /\ s.ref \in SecretNames
           /\ s.platformType \in {"github", "forgejo"} /\ s.auth \in {"githubApp", "token"}
           /\ s.platformType = "forgejo" => s.auth = "token"
  <1>1. [platformType |-> s.platformType, auth |-> s.auth, ref |-> s.ref] \in AuthType
    BY SpecsAssumption DEF SpecsAssumption
  <1> QED
    BY <1>1 DEF AuthType

(* A look at the Secret gives one of the reasons of the Ready condition, the same *)
(* one as long as the Secret stays.                                              *)
LEMMA ConclusionIsReason ==
    ASSUME NEW s, NEW secrets
    PROVE  /\ Conclusion(s, secrets) \in Reasons
           /\ \A t : t[s.ref] = secrets[s.ref] => Conclusion(s, t) = Conclusion(s, secrets)
  BY DEF Conclusion, Reasons

(* Credentials that the Platform controller accepts and the factory refuses are   *)
(* of the kinds that Misjudged names.                                            *)
LEMMA RefusedIsMisjudged ==
    ASSUME NEW s \in PlatformSpecs, NEW secrets \in [SecretNames -> Contents],
           Conclusion(s, secrets) = "CredentialsResolved", ~ ClientAccepted(s, secrets[s.ref])
    PROVE  Misjudged(s, secrets[s.ref])
  <1> DEFINE content == secrets[s.ref]
  <1>1. content \in {"text", "rsaKey", "otherKey"} /\ validateAuthMaterial(s, content)
    BY SpecsAreAdmitted DEF Conclusion, Contents
  <1>2. CASE s.auth = "githubApp"
    <2>1. s.platformType = "github" /\ content \in {"rsaKey", "otherKey"}
      BY <1>1, <1>2, SpecsAreAdmitted DEF validateAuthMaterial
    <2> QED
      BY <1>2, <2>1 DEF ClientAccepted, Misjudged
  <1>3. CASE s.auth = "token"
    BY <1>1, <1>3, SpecsAreAdmitted DEF ClientAccepted, Misjudged
  <1> QED
    BY <1>2, <1>3, SpecsAreAdmitted

(* The statuses the controller sets are statuses.                                *)
LEMMA StatusesAreStatuses ==
    /\ NoRun \in Statuses /\ Gone \in Statuses
    /\ \A phase \in Active \cup {"Succeeded"} : Status(phase, "none") \in Statuses
    /\ \A why \in Failures : Status("Failed", why) \in Statuses
  BY DEF Statuses

(* A status has the phase it was made with; no Run, and a Run that is gone, has none. *)
LEMMA StatusesDiffer ==
    /\ \A phase, why : Status(phase, why).phase = phase /\ Status(phase, why).failure = why
    /\ NoRun.phase = "none" /\ NoRun.failure = "none"
    /\ Gone.phase = "gone" /\ Gone.failure = "none"
    /\ "none" \notin Active \cup Terminal /\ "gone" \notin Active \cup Terminal
    /\ NoRun # Gone
  BY DEF Status, NoRun, Gone, Active, Terminal

(* A Run that is not over has not failed.                                        *)
LEMMA ActiveHasNotFailed ==
    ASSUME NEW st \in Statuses, st.phase \in Active
    PROVE  st.failure = "none" /\ st \notin {NoRun, Gone}
  <1>1. st \notin {NoRun, Gone}
    BY StatusesDiffer
  <1>2. ASSUME NEW why, st = Status("Failed", why)
        PROVE  FALSE
    <2>1. st.phase = "Failed"
      BY <1>2, StatusesDiffer
    <2> QED
      BY <2>1 DEF Active
  <1>3. PICK phase : st = Status(phase, "none")
    BY <1>1, <1>2 DEF Statuses
  <1> QED
    BY <1>1, <1>3, StatusesDiffer

-----------------------------------------------------------------------------
(* The initial states.                                                          *)

(* Objects nobody has reconciled, and no Run.                                    *)
LEMMA InitInv == Init => Inv
  <1> SUFFICES ASSUME Init PROVE Inv
    OBVIOUS
  <1> USE DEF Init
  <1>1. PICK s \in InitialPlatforms : platform = NewPlatform(s)
    OBVIOUS
  <1>2. platform \in PlatformType
    <2>1. s \in PlatformSpecs
      BY SpecsAssumption DEF SpecsAssumption
    <2>2. 1 \in 1..(MaxChanges + 1) /\ 0 \in 0..(MaxChanges + 1)
      BY BoundsAssumption DEF BoundsAssumption
    <2> QED
      BY <1>1, <2>1, <2>2 DEF NewPlatform, PlatformType, Reasons
  <1>3. scan \in ScanType
    BY SpecsAssumption DEF SpecsAssumption, ScanType
  <1>4. secret \in [SecretNames -> Contents] /\ refused \subseteq SecretNames
    BY SecretsAssumption DEF SecretsAssumption
  <1>5. TypeOK
    <2>1. faults \in 0..MaxFaults /\ changes \in 0..MaxChanges
      BY BoundsAssumption DEF BoundsAssumption
    <2>2. run \in Statuses /\ runCache \in Statuses /\ base \in Statuses /\ copy \in Statuses
      BY StatusesAreStatuses
    <2> QED
      BY <1>2, <1>3, <1>4, <2>1, <2>2 DEF TypeOK
  <1>6. GenerationsCountEdits /\ ReadyIsFresh
    BY <1>1 DEF GenerationsCountEdits, ReadyIsFresh, Platforms, NewPlatform
  <1>7. RunComesFirst /\ MadeFromSnapshots /\ ReconcileInProgress /\ VouchedIsResolved
    BY DEF RunComesFirst, MadeFromSnapshots, ReconcileInProgress, VouchedIsResolved
  <1>8. FailuresAreExplained
    BY StatusesDiffer DEF FailuresAreExplained, Explained
  <1> QED
    BY <1>5, <1>6, <1>7, <1>8 DEF Inv

-----------------------------------------------------------------------------
(* The Run: its controller, the watch on it, pods and garbage collector.          *)

(* What these steps leave alone: the objects the Run was made from.               *)
SourcesUnchanged ==
    UNCHANGED <<platform, secret, refused, scan, runSpec, platformCache, scanCache, vouched>>

Calls == {"authenticate", "mirror", "discover", "job", "observe", "update"}

(* A Job that is there, as ensureWorkerJob made it.                              *)
IsMade(j) ==
    /\ j = [owner |-> "run", state |-> j.state, env |-> BuildWorkerJob.env]
    /\ j.state \in {"active", "succeeded", "failed"}

(* Such a step keeps the invariant if it keeps what it says of the Run.           *)
LEMMA RunKeepsInv ==
    ASSUME Inv, SourcesUnchanged,
           changes' \in 0..MaxChanges, changes <= changes', faults' \in 0..MaxFaults,
           run' \in Statuses, run' = NoRun <=> run = NoRun, runCache' \in Statuses,
           RunComesFirst',
           mirror' = None \/ mirror' = mirror \/ (run # NoRun /\ mirror' = BuildMirror),
           shards' \in {None, shards, [owner |-> "run"]},
           job' = None \/ IsMade(job'),
           pc' \in Calls \cup {"idle"}, base' \in Statuses, copy' \in Statuses,
           ReconcileInProgress', Explained(run'), Explained(copy')
    PROVE  Inv'
  <1> USE DEF SourcesUnchanged
  <1>1. TypeOK'
    <2>1. /\ platform' \in PlatformType /\ platformCache' \in PlatformType
          /\ secret' \in [SecretNames -> Contents] /\ refused' \subseteq SecretNames
          /\ scan' \in ScanType /\ scanCache' \in ScanType
          /\ vouched' \in BOOLEAN
          /\ IF run' = NoRun THEN runSpec' = None ELSE runSpec' \in RunSpecs
      BY DEF Inv, TypeOK
    <2>2. mirror' \in [owner : Owners, tokenOf : SecretNames] \cup {None}
      <3>1. CASE run # NoRun /\ mirror' = BuildMirror
        <4>1. runSpec \in RunSpecs
          BY <3>1 DEF Inv, TypeOK
        <4>2. Snapshot.ref \in SecretNames
          BY <4>1, SpecsAreAdmitted DEF RunSpecs, Snapshot
        <4> QED
          BY <3>1, <4>2 DEF BuildMirror, Owners
      <3> QED
        BY <3>1 DEF Inv, TypeOK
    <2>3. shards' \in [owner : Owners] \cup {None}
      BY DEF Inv, TypeOK, Owners
    <2>4. job' # None => job'.owner \in Owners /\ job'.state \in {"active", "succeeded", "failed"}
      BY DEF IsMade, Owners
    <2> QED
      BY <2>1, <2>2, <2>3, <2>4 DEF TypeOK, Calls
  <1>2. GenerationsCountEdits'
    <2>1. /\ platform.gen \in Nat /\ platformCache.gen \in Nat
          /\ changes \in Nat /\ changes' \in Nat
      BY BoundsAssumption DEF BoundsAssumption, Inv, TypeOK, PlatformType
    <2> QED
      BY <2>1 DEF Inv, GenerationsCountEdits, Platforms
  <1>3. MadeFromSnapshots'
    <2>1. BuildMirror' = BuildMirror /\ BuildWorkerJob' = BuildWorkerJob
      BY DEF BuildMirror, BuildWorkerJob, Snapshot
    <2> QED
      BY <2>1 DEF Inv, MadeFromSnapshots, IsMade
  <1>4. ReadyIsFresh' /\ VouchedIsResolved'
    BY DEF Inv, ReadyIsFresh, Platforms, VouchedIsResolved, Snapshot
  <1>5. FailuresAreExplained'
    BY DEF FailuresAreExplained, Explained, Snapshot
  <1> QED
    BY <1>1, <1>2, <1>3, <1>4, <1>5 DEF Inv

(* MaxFaults bounds the failures.                                                *)
LEMMA FaultsStayBounded ==
    ASSUME TypeOK, Fault \/ NoFault
    PROVE  faults' \in 0..MaxFaults
  BY BoundsAssumption DEF BoundsAssumption, TypeOK, Fault, NoFault

(* While a Run is being reconciled it has been created, and has its snapshots.    *)
LEMMA WhileReconciling ==
    ASSUME Inv, pc # "idle"
    PROVE  /\ run # NoRun /\ runSpec \in RunSpecs /\ Snapshot \in PlatformSpecs
           /\ base \in Statuses /\ base.phase \in Active
           /\ copy \in Statuses /\ copy \notin {NoRun, Gone} /\ Explained(copy)
           /\ pc # "update" => copy = base
  <1>1. run # NoRun
    BY DEF Inv, RunComesFirst
  <1>2. runSpec \in RunSpecs
    BY <1>1 DEF Inv, TypeOK
  <1>3. Snapshot \in PlatformSpecs
    BY <1>2 DEF RunSpecs, Snapshot
  <1> QED
    BY <1>1, <1>2, <1>3 DEF Inv, TypeOK, ReconcileInProgress, FailuresAreExplained

(* Where a call of the reconcile may lead: on, or to the end with a status.       *)
GoesOn == pc' \in Calls \ {"update"} /\ pc # "update" /\ UNCHANGED <<base, copy>>
Ends ==
    /\ pc' = "update" /\ UNCHANGED base
    /\ copy' \in Statuses /\ copy' \notin {NoRun, Gone} /\ Explained(copy')

(* A call of the reconcile keeps the invariant if what it creates is right.        *)
LEMMA CallKeepsInv ==
    ASSUME Inv, pc # "idle", SourcesUnchanged, UNCHANGED <<run, runCache, changes>>,
           Fault \/ NoFault, GoesOn \/ Ends,
           mirror' = mirror \/ mirror' = BuildMirror,
           shards' \in {shards, [owner |-> "run"]},
           job' = job \/ IsMade(job')
    PROVE  Inv'
  <1>1. /\ changes' \in 0..MaxChanges /\ changes <= changes' /\ faults' \in 0..MaxFaults
        /\ run' \in Statuses /\ runCache' \in Statuses
    BY FaultsStayBounded, BoundsAssumption DEF BoundsAssumption, Inv, TypeOK
  <1>2. RunComesFirst'
    BY WhileReconciling DEF RunComesFirst
  <1>3. job' = None \/ IsMade(job')
    BY DEF Inv, MadeFromSnapshots, IsMade
  <1>4. pc' \in Calls \cup {"idle"} /\ base' \in Statuses /\ copy' \in Statuses
    BY WhileReconciling DEF GoesOn, Ends, Calls
  <1>5. ReconcileInProgress'
    BY WhileReconciling DEF ReconcileInProgress, GoesOn, Ends, Calls
  <1>6. Explained(run') /\ Explained(copy')
    BY WhileReconciling DEF Inv, FailuresAreExplained, GoesOn, Ends
  <1> QED
    BY <1>1, <1>2, <1>3, <1>4, <1>5, <1>6, WhileReconciling, RunKeepsInv

(* The statuses that end a reconcile; a refused client is left for Authenticate.   *)
LEMMA StatusEnds ==
    ASSUME NEW phase, NEW failure, SetStatus(phase, failure),
           \/ phase \in {"Discovering", "Running", "Succeeded"} /\ failure = "none"
           \/ phase = "Failed" /\ failure \in Failures,
           failure = "client" => Explained(Status(phase, failure))
    PROVE  Ends
  <1>1. Status(phase, failure) \in Statuses
    BY StatusesAreStatuses DEF Active
  <1>2. Status(phase, failure) \notin {NoRun, Gone}
    BY StatusesDiffer DEF Active, Terminal
  <1>3. Explained(Status(phase, failure))
    BY StatusesDiffer DEF Explained
  <1> QED
    BY <1>1, <1>2, <1>3 DEF Ends, SetStatus

(* An error that is retried leaves the Run Discovering.                            *)
LEMMA TransientEnds ==
    ASSUME markTransient
    PROVE  Ends
  <1>1. SetStatus("Discovering", "none")
    BY DEF markTransient
  <1> QED
    BY <1>1, StatusEnds

(* A permanent error of another kind than a refused client.                        *)
LEMMA FailureEnds ==
    ASSUME NEW why \in Failures \ {"client"}, markFailed(why)
    PROVE  Ends
  <1>1. SetStatus("Failed", why)
    BY DEF markFailed
  <1> QED
    BY <1>1, StatusEnds

(* Reading an active Run from the cache.                                           *)
LEMMA RunReconcileKeepsInv ==
    ASSUME Inv, RunReconcile
    PROVE  Inv'
  <1>1. /\ SourcesUnchanged /\ UNCHANGED <<run, runCache, childVars, faults, changes>>
        /\ base' = runCache /\ copy' = runCache /\ runCache.phase \in Active
        /\ pc' \in {"observe", "authenticate"}
    BY DEF RunReconcile, SourcesUnchanged, apiVars, cacheVars
  <1>2. runCache \in Statuses /\ runCache.failure = "none" /\ runCache \notin {NoRun, Gone}
    BY <1>1, ActiveHasNotFailed DEF Inv, TypeOK
  <1>3. run # NoRun
    BY <1>2 DEF Inv, RunComesFirst
  <1>4. /\ changes' \in 0..MaxChanges /\ changes <= changes' /\ faults' \in 0..MaxFaults
        /\ run' \in Statuses /\ runCache' \in Statuses
    BY <1>1, BoundsAssumption DEF BoundsAssumption, Inv, TypeOK
  <1>5. RunComesFirst'
    BY <1>1, <1>3 DEF RunComesFirst
  <1>6. UNCHANGED <<mirror, shards, job>> /\ (job' = None \/ IsMade(job'))
    BY <1>1 DEF childVars, Inv, MadeFromSnapshots, IsMade
  <1>7. ReconcileInProgress'
    BY <1>1, <1>2 DEF ReconcileInProgress
  <1>8. Explained(run') /\ Explained(copy')
    BY <1>1, <1>2 DEF Inv, FailuresAreExplained, Explained
  <1>9. pc' \in Calls \cup {"idle"}
    BY <1>1 DEF Calls
  <1> QED
    BY <1>1, <1>2, <1>4, <1>5, <1>6, <1>7, <1>8, <1>9, RunKeepsInv

(* A Run whose client is refused: if Ready vouched for its credentials, they were    *)
(* misjudged.                                                                      *)
LEMMA AuthenticateKeepsInv ==
    ASSUME Inv, Authenticate
    PROVE  Inv'
  <1> DEFINE content == secret[Snapshot.ref]
  <1>1. pc = "authenticate" /\ pc # "idle" /\ Connect(content)
    BY DEF Authenticate
  <1>2. SourcesUnchanged /\ UNCHANGED <<run, runCache, changes, mirror, shards, job>>
    BY DEF Authenticate, SourcesUnchanged, apiVars, cacheVars, childVars
  <1>3. Fault \/ NoFault
    BY <1>1 DEF Connect, MintAccessToken
  <1>4. CASE Goto("mirror")
    BY <1>1, <1>2, <1>3, <1>4, CallKeepsInv DEF Goto, GoesOn, Calls
  <1>5. CASE markTransient
    BY <1>1, <1>2, <1>3, <1>5, TransientEnds, CallKeepsInv
  <1>6. CASE markFailed("unreachable")
    <2>1. "unreachable" \in Failures \ {"client"}
      BY DEF Failures
    <2> QED
      BY <1>1, <1>2, <1>3, <1>6, <2>1, FailureEnds, CallKeepsInv
  <1>7. CASE markFailed("client") /\ ~ ClientAccepted(Snapshot, content)
    <2>1. vouched => Misjudged(Snapshot, content)
      <3>1. Snapshot \in PlatformSpecs /\ secret \in [SecretNames -> Contents]
        BY <1>1, WhileReconciling DEF Inv, TypeOK
      <3> QED
        BY <1>7, <3>1, RefusedIsMisjudged DEF Inv, VouchedIsResolved
    <2>2. SetStatus("Failed", "client") /\ "client" \in Failures
      BY <1>7 DEF markFailed, Failures
    <2>3. Ends
      BY <2>1, <2>2, StatusEnds DEF Explained
    <2> QED
      BY <1>1, <1>2, <1>3, <2>3, CallKeepsInv
  <1> QED
    BY <1>1, <1>4, <1>5, <1>6, <1>7 DEF Connect, MintAccessToken

(* The mirrored Secret is made from the snapshot, whatever was there before.        *)
LEMMA MirrorKeepsInv ==
    ASSUME Inv, mirrorCredential
    PROVE  Inv'
  <1>1. pc = "mirror" /\ pc # "idle" /\ (Fault \/ NoFault)
    BY DEF mirrorCredential
  <1>2. SourcesUnchanged /\ UNCHANGED <<run, runCache, changes, shards, job>>
    BY DEF mirrorCredential, SourcesUnchanged, apiVars, cacheVars
  <1>3. mirror' = mirror \/ mirror' = BuildMirror
    BY DEF mirrorCredential
  <1>4. GoesOn \/ Ends
    BY <1>1, TransientEnds DEF mirrorCredential, Goto, GoesOn, Calls
  <1> QED
    BY <1>1, <1>2, <1>3, <1>4, CallKeepsInv

(* Discovery and the ConfigMap.                                                     *)
LEMMA DiscoverKeepsInv ==
    ASSUME Inv, discoverAndShard
    PROVE  Inv'
  <1>1. pc = "discover" /\ pc # "idle" /\ (Fault \/ NoFault)
    BY DEF discoverAndShard
  <1>2. SourcesUnchanged /\ UNCHANGED <<run, runCache, changes, mirror, job>>
    BY DEF discoverAndShard, SourcesUnchanged, apiVars, cacheVars
  <1>3. shards' \in {shards, [owner |-> "run"]}
    BY DEF discoverAndShard, Ensure
  <1>4. GoesOn \/ Ends
    <2>1. "discovery" \in Failures \ {"client"}
      BY DEF Failures
    <2> QED
      BY <1>1, <2>1, TransientEnds, FailureEnds DEF discoverAndShard, Goto, GoesOn, Calls
  <1> QED
    BY <1>1, <1>2, <1>3, <1>4, CallKeepsInv

(* A new Job is told what the snapshots say; one that is there is left alone.       *)
LEMMA JobKeepsInv ==
    ASSUME Inv, ensureWorkerJob
    PROVE  Inv'
  <1>1. pc = "job" /\ pc # "idle" /\ (Fault \/ NoFault)
    BY DEF ensureWorkerJob
  <1>2. SourcesUnchanged /\ UNCHANGED <<run, runCache, changes, mirror, shards>>
    BY DEF ensureWorkerJob, SourcesUnchanged, apiVars, cacheVars
  <1>3. job' = job \/ IsMade(job')
    <2>1. IsMade(BuildWorkerJob)
      BY DEF IsMade, BuildWorkerJob
    <2> QED
      BY <2>1 DEF ensureWorkerJob, Ensure
  <1>4. GoesOn \/ Ends
    <2>1. SetStatus("Running", "none") => Ends
      BY StatusEnds
    <2> QED
      BY <2>1, TransientEnds DEF ensureWorkerJob
  <1> QED
    BY <1>1, <1>2, <1>3, <1>4, CallKeepsInv

(* observeJob takes the Job's state over.                                           *)
LEMMA ObserveKeepsInv ==
    ASSUME Inv, observeJob
    PROVE  Inv'
  <1>1. pc = "observe" /\ pc # "idle" /\ NoFault
    BY DEF observeJob, NoFault
  <1>2. SourcesUnchanged /\ UNCHANGED <<run, runCache, changes, mirror, shards, job>>
    BY DEF observeJob, SourcesUnchanged, apiVars, cacheVars, childVars
  <1>3. Ends
    <2>1. {"vanished", "jobFailed"} \subseteq Failures \ {"client"}
      BY DEF Failures
    <2>2. SetStatus("Succeeded", "none") => Ends
      BY StatusEnds
    <2>3. Goto("update") => Ends
      BY <1>1, WhileReconciling DEF Goto, Ends
    <2> QED
      BY <2>1, <2>2, <2>3, FailureEnds DEF observeJob
  <1> QED
    BY <1>1, <1>2, <1>3, CallKeepsInv

(* The end of a reconcile: the copy takes the place of the status it came from,     *)
(* or nothing is written.                                                          *)
LEMMA UpdateKeepsInv ==
    ASSUME Inv, UpdateStatus
    PROVE  Inv'
  <1>1. pc # "idle"
    BY DEF UpdateStatus
  <1>2. /\ SourcesUnchanged /\ UNCHANGED <<runCache, changes, mirror, shards, job>>
        /\ pc' = "idle" /\ base' = NoRun /\ copy' = NoRun
        /\ run' \in {run, copy} /\ (Fault \/ NoFault)
    BY DEF UpdateStatus, Write, Finish, SourcesUnchanged, cacheVars, childVars
  <1>3. /\ run' \in Statuses /\ run' # NoRun /\ run # NoRun /\ runCache' \in Statuses
        /\ copy' \in Statuses /\ base' \in Statuses
    BY <1>1, <1>2, WhileReconciling, StatusesAreStatuses DEF Inv, TypeOK
  <1>4. changes' \in 0..MaxChanges /\ changes <= changes' /\ faults' \in 0..MaxFaults
    BY <1>2, FaultsStayBounded, BoundsAssumption DEF BoundsAssumption, Inv, TypeOK
  <1>5. RunComesFirst' /\ ReconcileInProgress' /\ pc' \in Calls \cup {"idle"}
    BY <1>2, <1>3 DEF RunComesFirst, ReconcileInProgress
  <1>6. job' = None \/ IsMade(job')
    BY <1>2 DEF Inv, MadeFromSnapshots, IsMade
  <1>7. Explained(run') /\ Explained(copy')
    <2>1. Explained(run) /\ Explained(copy)
      BY DEF Inv, FailuresAreExplained
    <2>2. Explained(NoRun)
      BY StatusesDiffer DEF Explained
    <2> QED
      BY <1>2, <2>1, <2>2
  <1> QED
    BY <1>2, <1>3, <1>4, <1>5, <1>6, <1>7, RunKeepsInv

(* A step that leaves the reconcile alone and moves the Run only to Gone.            *)
LEMMA OutsideKeepsInv ==
    ASSUME Inv, SourcesUnchanged, UNCHANGED <<reconcileVars, faults>>,
           changes' \in 0..MaxChanges, changes <= changes',
           run' = run \/ (run # NoRun /\ run' = Gone),
           runCache' \in {run, runCache},
           mirror' \in {None, mirror}, shards' \in {None, shards},
           job' \in {None, job} \/ (job # None /\ IsMade(job'))
    PROVE  Inv'
  <1>1. UNCHANGED <<pc, base, copy>>
    BY DEF reconcileVars
  <1>2. /\ faults' \in 0..MaxFaults /\ run' \in Statuses /\ (run' = NoRun <=> run = NoRun)
        /\ runCache' \in Statuses /\ base' \in Statuses /\ copy' \in Statuses
        /\ pc' \in Calls \cup {"idle"}
    BY <1>1, StatusesAreStatuses, StatusesDiffer DEF Inv, TypeOK, Calls
  <1>3. RunComesFirst'
    BY <1>1, <1>2 DEF Inv, RunComesFirst, SourcesUnchanged
  <1>4. ReconcileInProgress'
    BY <1>1 DEF Inv, ReconcileInProgress
  <1>5. job' = None \/ IsMade(job')
    BY DEF Inv, MadeFromSnapshots, IsMade
  <1>6. Explained(run') /\ Explained(copy')
    <2>1. Explained(Gone)
      BY StatusesDiffer DEF Explained
    <2> QED
      BY <1>1, <2>1 DEF Inv, FailuresAreExplained
  <1> QED
    BY <1>2, <1>3, <1>4, <1>5, <1>6, RunKeepsInv

(* Pods, the watch on the Run, and everyone who deletes: a user, the Scan's history, *)
(* the garbage collector.                                                          *)
LEMMA OutsideStepsKeepInv ==
    ASSUME Inv, SyncRun \/ JobEnds \/ CollectChildren \/ CollectRun \/ gcOldRuns \/ DeleteRun
    PROVE  Inv'
  <1>1. changes \in 0..MaxChanges /\ MaxChanges \in Nat
    BY BoundsAssumption DEF BoundsAssumption, Inv, TypeOK
  <1>2. CASE SyncRun
    <2>1. /\ SourcesUnchanged /\ UNCHANGED <<reconcileVars, faults, changes, run, mirror, shards, job>>
          /\ runCache' = run
      BY <1>2 DEF SyncRun, SourcesUnchanged, apiVars, childVars
    <2> QED
      BY <1>1, <2>1, OutsideKeepsInv
  <1>3. CASE JobEnds
    <2>1. /\ SourcesUnchanged
          /\ UNCHANGED <<reconcileVars, faults, changes, run, runCache, mirror, shards>>
      BY <1>3 DEF JobEnds, SourcesUnchanged, apiVars, cacheVars
    <2>2. job # None /\ IsMade(job)
      BY <1>3 DEF JobEnds, Inv, MadeFromSnapshots, IsMade
    <2>3. IsMade(job')
      <3>1. PICK end \in {"succeeded", "failed"} : job' = [job EXCEPT !.state = end]
        BY <1>3 DEF JobEnds
      <3>2. job' = [owner |-> "run", state |-> end, env |-> BuildWorkerJob.env]
        <4> DEFINE env == BuildWorkerJob.env
        <4>1. job = [owner |-> "run", state |-> job.state, env |-> env]
          BY <2>2 DEF IsMade
        <4> HIDE DEF env
        <4>2. job' = [owner |-> "run", state |-> end, env |-> env]
          BY <3>1, <4>1
        <4> QED
          BY <4>2 DEF env
      <3> QED
        BY <3>2 DEF IsMade
    <2> QED
      BY <1>1, <2>1, <2>2, <2>3, OutsideKeepsInv
  <1>4. CASE CollectChildren
    <2>1. SourcesUnchanged /\ UNCHANGED <<reconcileVars, faults, changes, run, runCache>>
      BY <1>4 DEF CollectChildren, SourcesUnchanged, apiVars, cacheVars
    <2>2. mirror' \in {None, mirror} /\ shards' \in {None, shards} /\ job' \in {None, job}
      BY <1>4 DEF CollectChildren, Collected
    <2> QED
      BY <1>1, <2>1, <2>2, OutsideKeepsInv
  <1>5. CASE CollectRun
    <2>1. /\ SourcesUnchanged
          /\ UNCHANGED <<reconcileVars, faults, changes, runCache, mirror, shards, job>>
      BY <1>5 DEF CollectRun, SourcesUnchanged, cacheVars, childVars
    <2>2. run # NoRun /\ run' = Gone
      BY <1>5 DEF CollectRun, Inv, TypeOK, None
    <2> QED
      BY <1>1, <2>1, <2>2, OutsideKeepsInv
  <1>6. CASE gcOldRuns
    <2>1. /\ SourcesUnchanged
          /\ UNCHANGED <<reconcileVars, faults, changes, runCache, mirror, shards, job>>
      BY <1>6 DEF gcOldRuns, SourcesUnchanged, cacheVars, childVars
    <2>2. run # NoRun /\ run' = Gone
      BY <1>6, StatusesDiffer DEF gcOldRuns, Inv, RunComesFirst
    <2> QED
      BY <1>1, <2>1, <2>2, OutsideKeepsInv
  <1>7. CASE DeleteRun
    <2>1. /\ SourcesUnchanged /\ UNCHANGED <<reconcileVars, faults, runCache, mirror, shards, job>>
          /\ run # NoRun /\ run' = Gone
      BY <1>7 DEF DeleteRun, SourcesUnchanged, cacheVars, childVars
    <2>2. changes' \in 0..MaxChanges /\ changes <= changes'
      BY <1>1, <1>7 DEF DeleteRun, Change
    <2> QED
      BY <2>1, <2>2, OutsideKeepsInv
  <1> QED
    BY <1>2, <1>3, <1>4, <1>5, <1>6, <1>7

-----------------------------------------------------------------------------
(* Platform, Secrets and Scan.                                                      *)

(* What such a step leaves alone: the Run and what is made of it.                   *)
RunUnchanged == UNCHANGED <<run, runSpec, childVars, runCache, reconcileVars>>

(* It keeps the invariant if it keeps what it says of the sources.                  *)
LEMMA SourcesKeepInv ==
    ASSUME Inv, RunUnchanged, faults' \in 0..MaxFaults, changes' \in 0..MaxChanges,
           platform' \in PlatformType, platformCache' \in PlatformType,
           secret' \in [SecretNames -> Contents], refused' \subseteq SecretNames,
           scan' \in ScanType, scanCache' \in ScanType,
           GenerationsCountEdits', ReadyIsFresh', VouchedIsResolved',
           vouched' \in BOOLEAN, vouched' => vouched,
           vouched' => secret'[Snapshot.ref] = secret[Snapshot.ref]
    PROVE  Inv'
  <1> USE DEF RunUnchanged, childVars, reconcileVars
  <1>1. TypeOK'
    <2>1. /\ run' \in Statuses /\ runCache' \in Statuses
          /\ IF run' = NoRun THEN runSpec' = None ELSE runSpec' \in RunSpecs
          /\ base' \in Statuses /\ copy' \in Statuses
      BY DEF Inv, TypeOK
    <2>2. /\ mirror' \in [owner : Owners, tokenOf : SecretNames] \cup {None}
          /\ shards' \in [owner : Owners] \cup {None}
          /\ job' # None => job'.owner \in Owners /\ job'.state \in {"active", "succeeded", "failed"}
          /\ pc' \in {"idle", "authenticate", "mirror", "discover", "job", "observe", "update"}
      BY DEF Inv, TypeOK
    <2> QED
      BY <2>1, <2>2 DEF TypeOK
  <1>2. RunComesFirst' /\ ReconcileInProgress'
    BY DEF Inv, RunComesFirst, ReconcileInProgress
  <1>3. MadeFromSnapshots'
    <2>1. BuildMirror' = BuildMirror /\ BuildWorkerJob' = BuildWorkerJob
      BY DEF BuildMirror, BuildWorkerJob, Snapshot
    <2> QED
      BY <2>1 DEF Inv, MadeFromSnapshots
  <1>4. FailuresAreExplained'
    BY DEF Inv, FailuresAreExplained, Explained, Snapshot
  <1> QED
    BY <1>1, <1>2, <1>3, <1>4 DEF Inv

(* A Platform is a record of its fields.                                             *)
LEMMA PlatformFields ==
    ASSUME NEW p \in PlatformType
    PROVE  /\ p = [spec |-> p.spec, gen |-> p.gen, ready |-> p.ready,
                   readyGen |-> p.readyGen, sound |-> p.sound]
           /\ p.spec \in PlatformSpecs /\ p.gen \in 1..(MaxChanges + 1) /\ p.ready \in Reasons
           /\ p.readyGen \in 0..(MaxChanges + 1) /\ p.sound \in BOOLEAN
           /\ p.gen \in Nat /\ p.readyGen \in Nat
  <1>1. /\ p = [spec |-> p.spec, gen |-> p.gen, ready |-> p.ready,
                readyGen |-> p.readyGen, sound |-> p.sound]
        /\ p.spec \in PlatformSpecs /\ p.gen \in 1..(MaxChanges + 1) /\ p.ready \in Reasons
        /\ p.readyGen \in 0..(MaxChanges + 1) /\ p.sound \in BOOLEAN
    BY DEF PlatformType
  <1> QED
    BY <1>1, BoundsAssumption DEF BoundsAssumption

Found(p, reason) == [p EXCEPT !.ready = reason, !.readyGen = p.gen, !.sound = TRUE]

(* A reconcile stamps the condition with the generation.                             *)
LEMMA ReconciledFields ==
    ASSUME NEW p \in PlatformType, NEW reason \in Reasons, NEW q,
           q = Found(p, reason)
    PROVE  /\ q \in PlatformType /\ q.spec = p.spec /\ q.gen = p.gen
           /\ q.ready = reason /\ q.readyGen = p.gen
  <1> SUFFICES ASSUME NEW sp \in PlatformSpecs, NEW g \in 1..(MaxChanges + 1), NEW r \in Reasons,
                      NEW rg \in 0..(MaxChanges + 1), NEW sd \in BOOLEAN,
                      p = [spec |-> sp, gen |-> g, ready |-> r, readyGen |-> rg, sound |-> sd]
               PROVE  /\ q \in PlatformType /\ q.spec = p.spec /\ q.gen = p.gen
                      /\ q.ready = reason /\ q.readyGen = p.gen
    BY PlatformFields
  <1>1. q = [spec |-> sp, gen |-> g, ready |-> reason, readyGen |-> g, sound |-> TRUE]
    BY DEF Found
  <1>2. g \in 0..(MaxChanges + 1)
    BY BoundsAssumption DEF BoundsAssumption
  <1>3. q \in PlatformType
    <2>1. PICK yes \in BOOLEAN : yes = TRUE
      OBVIOUS
    <2>2. q = [spec |-> sp, gen |-> g, ready |-> reason, readyGen |-> g, sound |-> yes]
      BY <1>1, <2>1
    <2> QED
      BY <1>2, <2>2 DEF PlatformType
  <1>4. q.spec = sp /\ q.gen = g /\ q.ready = reason /\ q.readyGen = g
    BY <1>1
  <1>5. p.spec = sp /\ p.gen = g
    OBVIOUS
  <1> QED
    BY <1>3, <1>4, <1>5

(* An edit raises the generation, and leaves the condition's stamp behind.           *)
LEMMA EditedFields ==
    ASSUME NEW p \in PlatformType, NEW s \in PlatformSpecs, p.gen <= MaxChanges, NEW q,
           q = [p EXCEPT !.spec = s, !.gen = @ + 1]
    PROVE  q \in PlatformType /\ q.gen = p.gen + 1 /\ q.readyGen = p.readyGen
  <1> SUFFICES ASSUME NEW sp \in PlatformSpecs, NEW g \in 1..(MaxChanges + 1), NEW r \in Reasons,
                      NEW rg \in 0..(MaxChanges + 1), NEW sd \in BOOLEAN,
                      p = [spec |-> sp, gen |-> g, ready |-> r, readyGen |-> rg, sound |-> sd]
               PROVE  q \in PlatformType /\ q.gen = p.gen + 1 /\ q.readyGen = p.readyGen
    BY PlatformFields
  <1>1. q = [spec |-> s, gen |-> g + 1, ready |-> r, readyGen |-> rg, sound |-> sd]
    OBVIOUS
  <1>2. g + 1 \in 1..(MaxChanges + 1)
    BY BoundsAssumption DEF BoundsAssumption
  <1> QED
    BY <1>1, <1>2 DEF PlatformType

(* An edit of a Secret leaves the object, and doubts what was found from that Secret. *)
LEMMA DoubtedFields ==
    ASSUME NEW p \in PlatformType, NEW n, NEW q, q = Doubted(p, n)
    PROVE  /\ q \in PlatformType /\ q.spec = p.spec /\ q.gen = p.gen
           /\ q.ready = p.ready /\ q.readyGen = p.readyGen
           /\ q.sound => p.sound /\ p.spec.ref # n
  <1> SUFFICES ASSUME NEW sp \in PlatformSpecs, NEW g \in 1..(MaxChanges + 1), NEW r \in Reasons,
                      NEW rg \in 0..(MaxChanges + 1), NEW sd \in BOOLEAN,
                      p = [spec |-> sp, gen |-> g, ready |-> r, readyGen |-> rg, sound |-> sd]
               PROVE  /\ q \in PlatformType /\ q.spec = p.spec /\ q.gen = p.gen
                      /\ q.ready = p.ready /\ q.readyGen = p.readyGen
                      /\ q.sound => p.sound /\ p.spec.ref # n
    BY PlatformFields
  <1> DEFINE still == sd /\ sp.ref # n
  <1>1. q = [spec |-> sp, gen |-> g, ready |-> r, readyGen |-> rg, sound |-> still]
    BY DEF Doubted
  <1>2. still \in BOOLEAN /\ (still => sd /\ sp.ref # n)
    OBVIOUS
  <1> HIDE DEF still
  <1> QED
    BY <1>1, <1>2 DEF PlatformType

(* What the invariant says of the sources.                                           *)
LEMMA SourcesKnown ==
    ASSUME Inv
    PROVE  /\ platform \in PlatformType /\ platformCache \in PlatformType
           /\ secret \in [SecretNames -> Contents] /\ refused \subseteq SecretNames
           /\ scan \in ScanType /\ scanCache \in ScanType
           /\ vouched \in BOOLEAN /\ VouchedIsResolved
           /\ faults \in 0..MaxFaults /\ changes \in 0..MaxChanges
           /\ MaxChanges \in Nat /\ changes \in Nat
  BY BoundsAssumption DEF BoundsAssumption, Inv, TypeOK

(* The Platform's reconcile finds Ready for the spec and the Secret as they are.      *)
LEMMA PlatformReconcileKeepsInv ==
    ASSUME Inv, PlatformReconcile
    PROVE  Inv'
  <1> DEFINE reason == Conclusion(platform.spec, secret)
  <1>1. /\ RunUnchanged
        /\ UNCHANGED <<secret, refused, scan, runSpec, platformCache, scanCache, faults, changes, vouched>>
    BY DEF PlatformReconcile, RunUnchanged, cacheVars
  <1>2. /\ platform' \in PlatformType /\ platform'.spec = platform.spec
        /\ platform'.gen = platform.gen /\ platform'.ready = reason
        /\ platform'.readyGen = platform.gen /\ platform.gen \in Nat
    <2>1. reason \in Reasons
      BY ConclusionIsReason
    <2>2. platform' = Found(platform, reason)
      BY DEF PlatformReconcile, Found
    <2> HIDE DEF reason
    <2>3. platform \in PlatformType
      BY SourcesKnown
    <2>4. /\ platform' \in PlatformType /\ platform'.spec = platform.spec
          /\ platform'.gen = platform.gen /\ platform'.ready = reason
          /\ platform'.readyGen = platform.gen
      BY <2>1, <2>2, <2>3, ReconciledFields
    <2> QED
      BY <2>3, <2>4, PlatformFields
  <1>3. GenerationsCountEdits'
    BY <1>1, <1>2 DEF Inv, GenerationsCountEdits, Platforms
  <1>4. ReadyIsFresh' /\ VouchedIsResolved'
    BY <1>1, <1>2 DEF Inv, ReadyIsFresh, Platforms, VouchedIsResolved, Snapshot
  <1> QED
    BY <1>1, <1>2, <1>3, <1>4, SourcesKnown, SourcesKeepInv

(* An edit of the Platform makes its Ready that of an older generation.               *)
LEMMA EditPlatformKeepsInv ==
    ASSUME Inv, NEW s \in PlatformSpecs, EditPlatform(s)
    PROVE  Inv'
  <1>1. /\ RunUnchanged
        /\ UNCHANGED <<secret, refused, scan, runSpec, platformCache, scanCache, faults, vouched>>
        /\ changes < MaxChanges /\ changes' = changes + 1
    BY DEF EditPlatform, RunUnchanged, cacheVars, Change
  <1>2. /\ platform.readyGen <= platform.gen /\ platform.gen <= changes + 1
        /\ platformCache.readyGen <= platformCache.gen /\ platformCache.gen <= changes + 1
        /\ platform.gen \in Nat /\ platform.readyGen \in Nat /\ platformCache.gen \in Nat
    BY SourcesKnown, PlatformFields DEF Inv, GenerationsCountEdits, Platforms
  <1>3. /\ platform' \in PlatformType /\ platform'.gen = platform.gen + 1
        /\ platform'.readyGen = platform.readyGen
    <2>1. platform.gen <= MaxChanges
      BY <1>1, <1>2, SourcesKnown
    <2> QED
      BY <2>1, SourcesKnown, EditedFields DEF EditPlatform
  <1>4. GenerationsCountEdits'
    BY <1>1, <1>2, <1>3, SourcesKnown DEF GenerationsCountEdits, Platforms
  <1>5. ReadyIsFresh'
    <2>1. platform'.readyGen # platform'.gen
      BY <1>2, <1>3
    <2> QED
      BY <1>1, <2>1 DEF Inv, ReadyIsFresh, Platforms
  <1>6. VouchedIsResolved' /\ changes' \in 0..MaxChanges
    BY <1>1, SourcesKnown DEF VouchedIsResolved, Snapshot
  <1> QED
    BY <1>1, <1>3, <1>4, <1>5, <1>6, SourcesKnown, SourcesKeepInv

(* An edit of a Secret puts in doubt whatever was found from it.                      *)
LEMMA EditSecretKeepsInv ==
    ASSUME Inv, NEW n \in SecretNames, NEW content \in SecretEdits, EditSecret(n, content)
    PROVE  Inv'
  <1>1. /\ RunUnchanged /\ UNCHANGED <<scan, runSpec, scanCache, faults>>
        /\ changes < MaxChanges /\ changes' = changes + 1
        /\ secret' = [secret EXCEPT ![n] = content] /\ refused' = refused \ {n}
        /\ platform' = Doubted(platform, n) /\ platformCache' = Doubted(platformCache, n)
        /\ vouched' = (vouched /\ Snapshot.ref # n)
    BY DEF EditSecret, RunUnchanged, Change
  <1>2. secret' \in [SecretNames -> Contents] /\ \A m \in SecretNames : m # n => secret'[m] = secret[m]
    <2>1. content \in Contents
      BY SecretsAssumption DEF SecretsAssumption
    <2> QED
      BY <1>1, <2>1, SourcesKnown
  <1>3. \A p \in Platforms : p \in PlatformType /\ p.gen \in Nat
    BY SourcesKnown, PlatformFields DEF Platforms
  <1>4. platform' \in PlatformType /\ platformCache' \in PlatformType
    BY <1>1, SourcesKnown, DoubtedFields
  <1>5. GenerationsCountEdits'
    <2>1. /\ platform'.gen = platform.gen /\ platform'.readyGen = platform.readyGen
          /\ platformCache'.gen = platformCache.gen
          /\ platformCache'.readyGen = platformCache.readyGen
      BY <1>1, SourcesKnown, DoubtedFields
    <2> QED
      BY <1>1, <1>3, <2>1, SourcesKnown DEF Inv, GenerationsCountEdits, Platforms
  <1>6. ASSUME NEW p \in Platforms, LET q == Doubted(p, n) IN
               q.ready = "CredentialsResolved" /\ q.readyGen = q.gen /\ q.sound
        PROVE  Conclusion(Doubted(p, n).spec, secret') = "CredentialsResolved"
    <2>1. /\ p.ready = "CredentialsResolved" /\ p.readyGen = p.gen /\ p.sound
          /\ p.spec.ref # n /\ p.spec \in PlatformSpecs /\ Doubted(p, n).spec = p.spec
      BY <1>3, <1>6, PlatformFields, DoubtedFields
    <2>2. Conclusion(p.spec, secret) = "CredentialsResolved"
      BY <2>1 DEF Inv, ReadyIsFresh
    <2>3. secret'[p.spec.ref] = secret[p.spec.ref]
      BY <1>2, <2>1, SpecsAreAdmitted
    <2> QED
      BY <2>1, <2>2, <2>3, ConclusionIsReason
  <1>7. ReadyIsFresh'
    BY <1>1, <1>6 DEF ReadyIsFresh, Platforms
  <1>8. ASSUME vouched'
        PROVE  /\ secret'[Snapshot.ref] = secret[Snapshot.ref]
               /\ Conclusion(Snapshot, secret') = "CredentialsResolved"
    <2>1. run # NoRun /\ Snapshot.ref # n /\ Conclusion(Snapshot, secret) = "CredentialsResolved"
      BY <1>1, <1>8 DEF Inv, RunComesFirst, VouchedIsResolved
    <2>2. Snapshot \in PlatformSpecs
      BY <2>1 DEF Inv, TypeOK, RunSpecs, Snapshot
    <2>3. secret'[Snapshot.ref] = secret[Snapshot.ref]
      BY <1>2, <2>1, <2>2, SpecsAreAdmitted
    <2> QED
      BY <2>1, <2>3, ConclusionIsReason
  <1>9. VouchedIsResolved'
    BY <1>1, <1>8 DEF VouchedIsResolved, Snapshot
  <1>10. /\ changes' \in 0..MaxChanges /\ vouched' \in BOOLEAN /\ (vouched' => vouched)
         /\ refused' \subseteq SecretNames
    BY <1>1, SourcesKnown
  <1> QED
    BY <1>1, <1>2, <1>4, <1>5, <1>7, <1>8, <1>9, <1>10, SourcesKnown, SourcesKeepInv

(* Watches on Platform and Scan, edits of the Scan, and what the platform thinks of     *)
(* the credentials.                                                                   *)
LEMMA ScanStepsKeepInv ==
    ASSUME Inv,
           \/ SyncPlatform \/ SyncScan \/ DeleteScan
           \/ \E s \in ScanSpecs : EditScan(s)
           \/ \E n \in Revocable : ChangeAccess(n)
    PROVE  Inv'
  <1>1. CASE SyncPlatform
    <2>1. /\ RunUnchanged /\ platformCache' = platform
          /\ UNCHANGED <<platform, secret, refused, scan, runSpec, scanCache, faults, changes, vouched>>
      BY <1>1 DEF SyncPlatform, RunUnchanged, apiVars
    <2>2. GenerationsCountEdits' /\ ReadyIsFresh' /\ VouchedIsResolved'
      BY <2>1 DEF Inv, GenerationsCountEdits, ReadyIsFresh, Platforms, VouchedIsResolved, Snapshot
    <2> QED
      BY <2>1, <2>2, SourcesKnown, SourcesKeepInv
  <1>2. CASE SyncScan
    <2>1. /\ RunUnchanged /\ scanCache' = scan
          /\ UNCHANGED <<platform, secret, refused, scan, runSpec, platformCache, faults, changes, vouched>>
      BY <1>2 DEF SyncScan, RunUnchanged, apiVars
    <2>2. GenerationsCountEdits' /\ ReadyIsFresh' /\ VouchedIsResolved'
      BY <2>1 DEF Inv, GenerationsCountEdits, ReadyIsFresh, Platforms, VouchedIsResolved, Snapshot
    <2> QED
      BY <2>1, <2>2, SourcesKnown, SourcesKeepInv
  <1>3. CASE \/ DeleteScan
             \/ \E s \in ScanSpecs : EditScan(s)
             \/ \E n \in Revocable : ChangeAccess(n)
    <2>1. /\ RunUnchanged /\ Change
          /\ UNCHANGED <<platform, secret, runSpec, platformCache, scanCache, faults, vouched>>
      BY <1>3 DEF DeleteScan, EditScan, ChangeAccess, RunUnchanged, cacheVars
    <2>2. scan' \in ScanType /\ refused' \subseteq SecretNames
      <3>1. CASE DeleteScan \/ \E s \in ScanSpecs : EditScan(s)
        BY <3>1, SourcesKnown DEF DeleteScan, EditScan, ScanType
      <3>2. CASE \E n \in Revocable : ChangeAccess(n)
        <4>1. Revocable \subseteq SecretNames
          BY SecretsAssumption DEF SecretsAssumption
        <4> QED
          BY <3>2, <4>1, SourcesKnown DEF ChangeAccess
      <3> QED
        BY <1>3, <3>1, <3>2
    <2>3. changes' \in 0..MaxChanges /\ changes' = changes + 1
      BY <2>1, SourcesKnown DEF Change
    <2>4. GenerationsCountEdits'
      <3>1. platform.gen \in Nat /\ platformCache.gen \in Nat
        BY SourcesKnown, PlatformFields
      <3> QED
        BY <2>1, <2>3, <3>1, SourcesKnown DEF Inv, GenerationsCountEdits, Platforms
    <2>5. ReadyIsFresh' /\ VouchedIsResolved'
      BY <2>1 DEF Inv, ReadyIsFresh, Platforms, VouchedIsResolved, Snapshot
    <2> QED
      BY <2>1, <2>2, <2>3, <2>4, <2>5, SourcesKnown, SourcesKeepInv
  <1> QED
    BY <1>1, <1>2, <1>3

-----------------------------------------------------------------------------
(* The steps where both sides meet.                                                     *)

(* The fire takes the snapshots from the cached Platform and Scan.  The Run is vouched   *)
(* for if that Platform's Ready is for its spec and its Secret as they are.              *)
LEMMA FireKeepsInv ==
    ASSUME Inv, Fire
    PROVE  Inv'
  <1>1. /\ run = NoRun /\ run' = Status("", "none")
        /\ runSpec' = [owner |-> "scan", platformSnapshot |-> platformCache.spec,
                       scanSnapshot |-> scanCache.spec]
        /\ vouched' = (platformCache.readyGen = platformCache.gen /\ platformCache.sound)
        /\ platformCache.ready = "CredentialsResolved"
        /\ UNCHANGED <<platform, secret, refused, scan, mirror, shards, job, platformCache, scanCache,
                       runCache, pc, base, copy, faults, changes>>
    BY DEF Fire, createRun, PlatformReady, childVars, cacheVars, reconcileVars
  <1>2. /\ mirror = None /\ shards = None /\ job = None /\ pc = "idle"
    BY <1>1 DEF Inv, RunComesFirst
  <1>3. run' \in Statuses /\ run' # NoRun /\ run'.failure = "none"
    BY <1>1, StatusesAreStatuses, StatusesDiffer DEF Active
  <1>4. runSpec' \in RunSpecs /\ Snapshot' = platformCache.spec
    <2>1. platformCache.spec \in PlatformSpecs /\ scanCache.spec \in ScanSpecs
      BY SourcesKnown, PlatformFields DEF ScanType
    <2> QED
      BY <1>1, <2>1 DEF RunSpecs, Owners, Snapshot
  <1>5. vouched' \in BOOLEAN
    BY <1>1
  <1>6. TypeOK'
    <2>1. /\ platform' \in PlatformType /\ platformCache' \in PlatformType
          /\ secret' \in [SecretNames -> Contents] /\ refused' \subseteq SecretNames
          /\ scan' \in ScanType /\ scanCache' \in ScanType
          /\ runCache' \in Statuses /\ base' \in Statuses /\ copy' \in Statuses
          /\ faults' \in 0..MaxFaults /\ changes' \in 0..MaxChanges
      BY <1>1 DEF Inv, TypeOK
    <2> QED
      BY <1>1, <1>2, <1>3, <1>4, <1>5, <2>1 DEF TypeOK
  <1>7. RunComesFirst' /\ ReconcileInProgress' /\ MadeFromSnapshots'
    BY <1>1, <1>2, <1>3 DEF Inv, RunComesFirst, ReconcileInProgress, MadeFromSnapshots
  <1>8. GenerationsCountEdits' /\ ReadyIsFresh'
    BY <1>1 DEF Inv, GenerationsCountEdits, ReadyIsFresh, Platforms
  <1>9. VouchedIsResolved'
    BY <1>1, <1>4 DEF Inv, VouchedIsResolved, ReadyIsFresh, Platforms
  <1>10. FailuresAreExplained'
    <2>1. Explained(run)'
      BY <1>3 DEF Explained
    <2>2. Explained(copy)'
      <3>1. copy.failure = "none"
        BY <1>2, StatusesDiffer DEF Inv, ReconcileInProgress
      <3> QED
        BY <1>1, <3>1 DEF Explained
    <2> QED
      BY <2>1, <2>2 DEF FailuresAreExplained
  <1> QED
    BY <1>6, <1>7, <1>8, <1>9, <1>10 DEF Inv

(* The process dies; caches are filled anew and the reconcile in progress is lost.        *)
LEMMA CrashKeepsInv ==
    ASSUME Inv, Crash
    PROVE  Inv'
  <1>1. /\ UNCHANGED <<platform, secret, refused, scan, run, runSpec, mirror, shards, job, changes, vouched>>
        /\ platformCache' = platform /\ scanCache' = scan /\ runCache' = run
        /\ pc' = "idle" /\ base' = NoRun /\ copy' = NoRun /\ Fault
    BY DEF Crash, Finish, apiVars, childVars
  <1>2. TypeOK'
    <2>1. /\ platform' \in PlatformType /\ platformCache' \in PlatformType
          /\ secret' \in [SecretNames -> Contents] /\ refused' \subseteq SecretNames
          /\ scan' \in ScanType /\ scanCache' \in ScanType
          /\ run' \in Statuses /\ runCache' \in Statuses
          /\ IF run' = NoRun THEN runSpec' = None ELSE runSpec' \in RunSpecs
      BY <1>1 DEF Inv, TypeOK
    <2>2. /\ mirror' \in [owner : Owners, tokenOf : SecretNames] \cup {None}
          /\ shards' \in [owner : Owners] \cup {None}
          /\ job' # None => job'.owner \in Owners /\ job'.state \in {"active", "succeeded", "failed"}
          /\ changes' \in 0..MaxChanges /\ vouched' \in BOOLEAN
      BY <1>1 DEF Inv, TypeOK
    <2>3. base' \in Statuses /\ copy' \in Statuses /\ faults' \in 0..MaxFaults
      BY <1>1, StatusesAreStatuses, FaultsStayBounded DEF Inv
    <2> QED
      BY <1>1, <2>1, <2>2, <2>3 DEF TypeOK
  <1>3. GenerationsCountEdits' /\ ReadyIsFresh' /\ VouchedIsResolved'
    BY <1>1 DEF Inv, GenerationsCountEdits, ReadyIsFresh, Platforms, VouchedIsResolved, Snapshot
  <1>4. RunComesFirst' /\ ReconcileInProgress'
    BY <1>1, StatusesDiffer DEF Inv, RunComesFirst, ReconcileInProgress
  <1>5. MadeFromSnapshots'
    <2>1. BuildMirror' = BuildMirror /\ BuildWorkerJob' = BuildWorkerJob
      BY <1>1 DEF BuildMirror, BuildWorkerJob, Snapshot
    <2> QED
      BY <1>1, <2>1 DEF Inv, MadeFromSnapshots
  <1>6. FailuresAreExplained'
    <2>1. Explained(run)' /\ Explained(copy)'
      BY <1>1, StatusesDiffer DEF Inv, FailuresAreExplained, Explained, Snapshot
    <2> QED
      BY <2>1 DEF FailuresAreExplained
  <1> QED
    BY <1>2, <1>3, <1>4, <1>5, <1>6 DEF Inv

(* Nothing happens.                                                                       *)
LEMMA StutterKeepsInv ==
    ASSUME Inv, UNCHANGED vars
    PROVE  Inv'
  <1>1. /\ RunUnchanged
        /\ UNCHANGED <<platform, secret, refused, scan, runSpec, platformCache, scanCache, faults, changes,
                       vouched>>
    BY DEF vars, apiVars, cacheVars, RunUnchanged
  <1>2. GenerationsCountEdits' /\ ReadyIsFresh' /\ VouchedIsResolved'
    BY <1>1 DEF Inv, GenerationsCountEdits, ReadyIsFresh, Platforms, VouchedIsResolved, Snapshot
  <1> QED
    BY <1>1, <1>2, SourcesKnown, SourcesKeepInv

(* Every step keeps the invariant.                                                        *)
LEMMA NextInv == Inv /\ [Next]_vars => Inv'
  <1> SUFFICES ASSUME Inv, [Next]_vars
               PROVE  Inv'
    OBVIOUS
  <1>1. CASE RunStep
    BY <1>1, RunReconcileKeepsInv, AuthenticateKeepsInv, MirrorKeepsInv, DiscoverKeepsInv,
        JobKeepsInv, ObserveKeepsInv, UpdateKeepsInv DEF RunStep
  <1>2. CASE SyncRun \/ JobEnds \/ CollectChildren \/ CollectRun \/ gcOldRuns
    BY <1>2, OutsideStepsKeepInv
  <1>3. CASE PlatformReconcile \/ Fire \/ Crash \/ SyncPlatform \/ SyncScan
    BY <1>3, PlatformReconcileKeepsInv, FireKeepsInv, CrashKeepsInv, ScanStepsKeepInv
  <1>4. CASE User
    BY <1>4, EditPlatformKeepsInv, EditSecretKeepsInv, ScanStepsKeepInv, OutsideStepsKeepInv
    DEF User
  <1>5. CASE UNCHANGED vars
    BY <1>5, StutterKeepsInv
  <1> QED
    BY <1>1, <1>2, <1>3, <1>4, <1>5 DEF Next

(* The inductive invariant holds in every reachable state.                                *)
THEOREM InvHolds == Spec => []Inv
  BY InitInv, NextInv, PTL DEF Spec

(* Objects, caches and the reconcile's memory keep their shapes.                          *)
THEOREM TypeCorrect == Spec => []TypeOK
  <1>1. Inv => TypeOK
    BY DEF Inv
  <1> QED
    BY <1>1, InvHolds, PTL

(* Where the validation and the factory agree, Ready is worth its name: a client that is   *)
(* refused although Ready vouched for the credentials had a GitHub token, a key that is    *)
(* not RSA, a token of several lines or a bad base URL, whatever was edited meanwhile.      *)
THEOREM RefusalsHaveAReason == Spec => []RefusedForAReason
  <1>1. Inv => RefusedForAReason
    BY DEF Inv, FailuresAreExplained, Explained, RefusedForAReason
  <1> QED
    BY <1>1, InvHolds, PTL

-----------------------------------------------------------------------------
(* The environment of a worker.                                                            *)

(* A variable that an environment has, and its value: the last entry's.                     *)
Sets(env, name, value) ==
    \E k \in 1..Len(env) :
        /\ env[k].name = name /\ env[k].value = value
        /\ \A i \in 1..Len(env) : i > k => env[i].name # name

(* A variable that it lacks.                                                                *)
Lacks(env, name) == \A i \in 1..Len(env) : env[i].name # name

IsEnv(env) == \E S : env \in Seq(S)

(* A sequence is built from parts.                                                          *)
LEMMA PartsOfEnv ==
    ASSUME NEW s, NEW t, IsEnv(s), IsEnv(t)
    PROVE  /\ IsEnv(s \o t) /\ Len(s) \in Nat /\ Len(t) \in Nat
           /\ Len(s \o t) = Len(s) + Len(t)
           /\ \A i \in 1..Len(s) : (s \o t)[i] = s[i]
           /\ \A i \in 1..Len(t) : (s \o t)[Len(s) + i] = t[i]
           /\ \A i \in 1..(Len(s) + Len(t)) :
                 \/ i \in 1..Len(s)
                 \/ i > Len(s) /\ \E j \in 1..Len(t) : i = Len(s) + j
  <1>1. PICK S : s \in Seq(S)
    BY DEF IsEnv
  <1>2. PICK T : t \in Seq(T)
    BY DEF IsEnv
  <1>3. s \in Seq(S \cup T) /\ t \in Seq(S \cup T)
    BY <1>1, <1>2
  <1>4. s \o t \in Seq(S \cup T)
    BY <1>3
  <1>5. IsEnv(s \o t)
    BY <1>4 DEF IsEnv
  <1>6. \A i \in 1..(Len(s) + Len(t)) :
            \/ i \in 1..Len(s)
            \/ i > Len(s) /\ i - Len(s) \in 1..Len(t) /\ i = Len(s) + (i - Len(s))
    BY <1>3
  <1>7. /\ Len(s) \in Nat /\ Len(t) \in Nat /\ Len(s \o t) = Len(s) + Len(t)
        /\ \A i \in 1..Len(s) : (s \o t)[i] = s[i]
    BY <1>3
  <1>8. ASSUME NEW i \in 1..Len(t)
        PROVE  (s \o t)[Len(s) + i] = t[i]
    <2>1. (s \o t)[Len(s) + i] = t[Len(s) + i - Len(s)]
      BY <1>3, <1>7
    <2>2. Len(s) + i - Len(s) = i
      BY <1>7
    <2> QED
      BY <2>1, <2>2
  <1>9. ASSUME NEW i \in 1..(Len(s) + Len(t))
        PROVE  \/ i \in 1..Len(s)
               \/ i > Len(s) /\ \E j \in 1..Len(t) : i = Len(s) + j
    BY <1>6
  <1> QED
    BY <1>5, <1>7, <1>8, <1>9

(* What comes later in the environment wins.                                               *)
LEMMA LaterPartSets ==
    ASSUME NEW s, NEW t, IsEnv(s), IsEnv(t), NEW name, NEW value, Sets(t, name, value)
    PROVE  Sets(s \o t, name, value)
  <1>1. PICK k \in 1..Len(t) : /\ t[k].name = name /\ t[k].value = value
                               /\ \A i \in 1..Len(t) : i > k => t[i].name # name
    BY DEF Sets
  <1>2. Len(s) + k \in 1..Len(s \o t) /\ (s \o t)[Len(s) + k] = t[k]
    BY PartsOfEnv
  <1>3. ASSUME NEW i \in 1..Len(s \o t), i > Len(s) + k
        PROVE  (s \o t)[i].name # name
    <2>0. i \notin 1..Len(s) /\ i \in 1..(Len(s) + Len(t))
      BY <1>3, PartsOfEnv
    <2>1. PICK j \in 1..Len(t) : i = Len(s) + j
      BY <2>0, PartsOfEnv
    <2>2. j > k /\ (s \o t)[i] = t[j]
      BY <1>3, <2>1, PartsOfEnv
    <2> QED
      BY <1>1, <2>2
  <1> QED
    BY <1>1, <1>2, <1>3 DEF Sets

(* A part that lacks the variable leaves it as it was.                                      *)
LEMMA EarlierPartSets ==
    ASSUME NEW s, NEW t, IsEnv(s), IsEnv(t), NEW name, NEW value,
           Sets(s, name, value), Lacks(t, name)
    PROVE  Sets(s \o t, name, value)
  <1>1. PICK k \in 1..Len(s) : /\ s[k].name = name /\ s[k].value = value
                               /\ \A i \in 1..Len(s) : i > k => s[i].name # name
    BY DEF Sets
  <1>2. k \in 1..Len(s \o t) /\ (s \o t)[k] = s[k]
    BY PartsOfEnv
  <1>3. ASSUME NEW i \in 1..Len(s \o t), i > k
        PROVE  (s \o t)[i].name # name
    <2>1. CASE i \in 1..Len(s)
      BY <1>1, <1>3, <2>1, PartsOfEnv
    <2>2. CASE \E j \in 1..Len(t) : i = Len(s) + j
      BY <2>2, PartsOfEnv DEF Lacks
    <2> QED
      BY <2>1, <2>2, PartsOfEnv
  <1> QED
    BY <1>1, <1>2, <1>3 DEF Sets

(* Parts that lack a variable make an environment that lacks it.                            *)
LEMMA BothPartsLack ==
    ASSUME NEW s, NEW t, IsEnv(s), IsEnv(t), NEW name, Lacks(s, name), Lacks(t, name)
    PROVE  Lacks(s \o t, name)
  <1> SUFFICES ASSUME NEW i \in 1..Len(s \o t)
               PROVE  (s \o t)[i].name # name
    BY DEF Lacks
  <1>1. CASE i \in 1..Len(s)
    BY <1>1, PartsOfEnv DEF Lacks
  <1>2. CASE \E j \in 1..Len(t) : i = Len(s) + j
    BY <1>2, PartsOfEnv DEF Lacks
  <1> QED
    BY <1>1, <1>2, PartsOfEnv

(* The smallest parts.                                                                      *)
LEMMA OneEntry ==
    ASSUME NEW name, NEW value
    PROVE  /\ IsEnv(<<Entry(name, value)>>) /\ Sets(<<Entry(name, value)>>, name, value)
           /\ \A other : other # name => Lacks(<<Entry(name, value)>>, other)
  <1> DEFINE e == Entry(name, value)
  <1>1. e.name = name /\ e.value = value
    BY DEF Entry
  <1> HIDE DEF e
  <1>2. <<e>> \in Seq({e}) /\ Len(<<e>>) = 1 /\ <<e>>[1] = e
    OBVIOUS
  <1>3. IsEnv(<<e>>)
    BY <1>2 DEF IsEnv
  <1>4. Sets(<<e>>, name, value)
    BY <1>1, <1>2 DEF Sets
  <1>5. \A other : other # name => Lacks(<<e>>, other)
    BY <1>1, <1>2 DEF Lacks
  <1> QED
    BY <1>3, <1>4, <1>5 DEF e

(* An environment without entries sets nothing.                                            *)
LEMMA NoEntry == IsEnv(<<>>) /\ \A name : Lacks(<<>>, name)
  <1>1. <<>> \in Seq({}) /\ Len(<<>>) = 0
    OBVIOUS
  <1> QED
    BY <1>1 DEF IsEnv, Lacks

(* An entry that is there on a condition sets its own name, then, and no other.             *)
LEMMA OptionalEntry ==
    ASSUME NEW condition, NEW name, NEW value
    PROVE  /\ IsEnv(Optionally(condition, name, value))
           /\ \A other : other # name => Lacks(Optionally(condition, name, value), other)
           /\ condition => Sets(Optionally(condition, name, value), name, value)
           /\ ~ condition => Lacks(Optionally(condition, name, value), name)
  BY OneEntry, NoEntry DEF Optionally

(* renovate finds what an environment sets; the entrypoint's own export stands above it.    *)
LEMMA WorkerSeesSet ==
    ASSUME NEW env, IsEnv(env), NEW name, name # "RENOVATE_REPOSITORIES"
    PROVE  /\ \A value : Sets(env, name, value) =>
                name \in DOMAIN WorkerSees(env) /\ WorkerSees(env)[name] = value
           /\ Lacks(env, name) => name \notin DOMAIN WorkerSees(env)
           /\ WorkerSees(env)["RENOVATE_REPOSITORIES"] = Text("shard")
  <1> DEFINE LastOf(n) == SelectLastInSeq(env, LAMBDA e : e.name = n)
             own == [RENOVATE_REPOSITORIES |-> Text("shard")]
             given == [n \in {env[i].name : i \in DOMAIN env} |-> env[LastOf(n)].value]
  <1>1. WorkerSees(env) = Over(own, given)
    BY DEF WorkerSees
  <1>2. DOMAIN own = {"RENOVATE_REPOSITORIES"} /\ own["RENOVATE_REPOSITORIES"] = Text("shard")
    OBVIOUS
  <1>3. DOMAIN env = 1..Len(env) /\ Len(env) \in Nat
    BY DEF IsEnv
  <1>4. ASSUME NEW value, Sets(env, name, value)
        PROVE  name \in DOMAIN given /\ given[name] = value
    <2>1. PICK k \in 1..Len(env) : /\ env[k].name = name /\ env[k].value = value
                                   /\ \A i \in 1..Len(env) : i > k => env[i].name # name
      BY <1>4 DEF Sets
    <2> DEFINE I == {i \in 1..Len(env) : env[i].name = name}
    <2>2. k \in I /\ \A y \in I : k >= y
      BY <1>3, <2>1
    <2>3. \A x \in I : (\A y \in I : x >= y) => x = k
      BY <1>3, <2>2
    <2>4. Max(I) = k
      <3> HIDE DEF I
      <3> QED
        BY <2>2, <2>3 DEF Max
    <2>5. LastOf(name) = k
      BY <2>2, <2>4 DEF SelectLastInSeq
    <2>6. name \in {env[i].name : i \in DOMAIN env}
      BY <1>3, <2>1
    <2> QED
      BY <2>1, <2>5, <2>6
  <1>5. Lacks(env, name) => name \notin DOMAIN given
    BY <1>3 DEF Lacks
  <1> HIDE DEF own, given
  <1> QED
    BY <1>1, <1>2, <1>4, <1>5 DEF Over

(* A part without the variable changes nothing about it.                                    *)
LEMMA PartCarries ==
    ASSUME NEW s, NEW t, IsEnv(s), IsEnv(t), NEW name, Lacks(t, name)
    PROVE  /\ IsEnv(s \o t)
           /\ \A value : Sets(s, name, value) => Sets(s \o t, name, value)
           /\ Lacks(s, name) => Lacks(s \o t, name)
  BY PartsOfEnv, EarlierPartSets, BothPartsLack

(* What the operator itself puts into the environment.                                      *)
OwnEntries(plat, sc) ==
    LET config == mergeRenovateConfig(plat, sc)
    IN  <<Entry("RENOVATE_PLATFORM", Text(plat.platformType)),
          Entry("LOG_LEVEL", Text(resolveLogLevel(plat, sc))),
          Entry("LOG_FORMAT", Text("json"))>>
        \o Optionally(plat.baseURL # "", "RENOVATE_ENDPOINT", Text(plat.baseURL))
        \o buildAuthEnv
        \o <<Entry("RENOVATE_AUTODISCOVER", Text("false"))>>
        \o Optionally(sc.requireConfig # "false", "RENOVATE_REQUIRE_CONFIG", Text("required"))
        \o Optionally(DOMAIN config # {}, "RENOVATE_CONFIG", config)
        \o <<Entry("OTEL_SERVICE_NAME", Text("renovate-worker")),
             Entry("OTEL_EXPORTER_OTLP_ENDPOINT", Text("pod annotation"))>>

(* The first three entries, and the last two.                                               *)
LEMMA FewEntries ==
    ASSUME NEW a, NEW b, NEW c, NEW x, NEW y, NEW z, a # b, a # c, b # c
    PROVE  /\ IsEnv(<<Entry(a, x), Entry(b, y), Entry(c, z)>>)
           /\ Sets(<<Entry(a, x), Entry(b, y), Entry(c, z)>>, a, x)
           /\ Sets(<<Entry(a, x), Entry(b, y), Entry(c, z)>>, b, y)
           /\ \A other : other \notin {a, b, c} =>
                Lacks(<<Entry(a, x), Entry(b, y), Entry(c, z)>>, other)
           /\ IsEnv(<<Entry(a, x), Entry(b, y)>>)
           /\ \A other : other \notin {a, b} => Lacks(<<Entry(a, x), Entry(b, y)>>, other)
  <1> DEFINE ea == Entry(a, x)
             eb == Entry(b, y)
             ec == Entry(c, z)
  <1>1. /\ ea.name = a /\ ea.value = x /\ eb.name = b /\ eb.value = y /\ ec.name = c
    BY DEF Entry
  <1> HIDE DEF ea, eb, ec
  <1>2. <<ea, eb, ec>> \in Seq({ea, eb, ec}) /\ <<ea, eb>> \in Seq({ea, eb})
    OBVIOUS
  <1>3. IsEnv(<<ea, eb, ec>>) /\ IsEnv(<<ea, eb>>)
    BY <1>2 DEF IsEnv
  <1>4. /\ Len(<<ea, eb, ec>>) = 3 /\ Len(<<ea, eb>>) = 2
        /\ <<ea, eb, ec>>[1] = ea /\ <<ea, eb, ec>>[2] = eb /\ <<ea, eb, ec>>[3] = ec
        /\ <<ea, eb>>[1] = ea /\ <<ea, eb>>[2] = eb
    OBVIOUS
  <1>5. \A i \in 1..3 : i = 1 \/ i = 2 \/ i = 3
    OBVIOUS
  <1>6. \A i \in 1..2 : i = 1 \/ i = 2
    OBVIOUS
  <1>7. Sets(<<ea, eb, ec>>, a, x)
    <2>1. /\ 1 \in 1..Len(<<ea, eb, ec>>)
          /\ <<ea, eb, ec>>[1].name = a /\ <<ea, eb, ec>>[1].value = x
      BY <1>1, <1>4
    <2>2. \A i \in 1..Len(<<ea, eb, ec>>) : i > 1 => <<ea, eb, ec>>[i].name # a
      BY <1>1, <1>4, <1>5
    <2> QED
      BY <2>1, <2>2 DEF Sets
  <1>8. Sets(<<ea, eb, ec>>, b, y)
    <2>1. /\ 2 \in 1..Len(<<ea, eb, ec>>)
          /\ <<ea, eb, ec>>[2].name = b /\ <<ea, eb, ec>>[2].value = y
      BY <1>1, <1>4
    <2>2. \A i \in 1..Len(<<ea, eb, ec>>) : i > 2 => <<ea, eb, ec>>[i].name # b
      BY <1>1, <1>4, <1>5
    <2> QED
      BY <2>1, <2>2 DEF Sets
  <1>9. ASSUME NEW other, other \notin {a, b, c}
        PROVE  Lacks(<<ea, eb, ec>>, other)
    BY <1>1, <1>4, <1>5, <1>9 DEF Lacks
  <1>10. ASSUME NEW other, other \notin {a, b}
         PROVE  Lacks(<<ea, eb>>, other)
    BY <1>1, <1>4, <1>6, <1>10 DEF Lacks
  <1> QED
    BY <1>3, <1>7, <1>8, <1>9, <1>10 DEF ea, eb, ec

(* Of the variables a reader of the snapshots cares for, the operator sets the platform and *)
(* the level always, and the configuration if there is one.                                 *)
LEMMA OwnEntriesSet ==
    ASSUME NEW plat, NEW sc
    PROVE  LET own == OwnEntries(plat, sc)
               config == mergeRenovateConfig(plat, sc)
           IN  /\ IsEnv(own)
               /\ Sets(own, "RENOVATE_PLATFORM", Text(plat.platformType))
               /\ Sets(own, "LOG_LEVEL", Text(resolveLogLevel(plat, sc)))
               /\ DOMAIN config # {} => Sets(own, "RENOVATE_CONFIG", config)
               /\ DOMAIN config = {} => Lacks(own, "RENOVATE_CONFIG")
  <1> DEFINE config == mergeRenovateConfig(plat, sc)
             type == Text(plat.platformType)
             level == Text(resolveLogLevel(plat, sc))
             c2 == plat.baseURL # ""
             c5 == sc.requireConfig # "false"
             c6 == DOMAIN config # {}
             v1 == Text("json")
             v2 == Text(plat.baseURL)
             v3 == Text("mirrored access-token")
             v4 == Text("false")
             v5 == Text("required")
             v7 == Text("renovate-worker")
             w7 == Text("pod annotation")
             p1 == <<Entry("RENOVATE_PLATFORM", type), Entry("LOG_LEVEL", level),
                     Entry("LOG_FORMAT", v1)>>
             q2 == Optionally(c2, "RENOVATE_ENDPOINT", v2)
             q3 == <<Entry("RENOVATE_TOKEN", v3)>>
             q4 == <<Entry("RENOVATE_AUTODISCOVER", v4)>>
             q5 == Optionally(c5, "RENOVATE_REQUIRE_CONFIG", v5)
             q6 == Optionally(c6, "RENOVATE_CONFIG", config)
             q7 == <<Entry("OTEL_SERVICE_NAME", v7), Entry("OTEL_EXPORTER_OTLP_ENDPOINT", w7)>>
             Names == {"RENOVATE_PLATFORM", "LOG_LEVEL", "RENOVATE_CONFIG"}
  <1>8. OwnEntries(plat, sc) = (((((p1 \o q2) \o q3) \o q4) \o q5) \o q6) \o q7
    BY DEF OwnEntries, buildAuthEnv
  <1>0. c6 <=> DOMAIN config # {}
    OBVIOUS
  <1> HIDE DEF config, type, level, c2, c5, c6, v1, v2, v3, v4, v5, v7, w7
  <1>1. /\ IsEnv(p1) /\ Sets(p1, "RENOVATE_PLATFORM", type) /\ Sets(p1, "LOG_LEVEL", level)
        /\ Lacks(p1, "RENOVATE_CONFIG")
    <2>1. /\ "RENOVATE_PLATFORM" # "LOG_LEVEL" /\ "RENOVATE_PLATFORM" # "LOG_FORMAT"
          /\ "LOG_LEVEL" # "LOG_FORMAT"
          /\ "RENOVATE_CONFIG" \notin {"RENOVATE_PLATFORM", "LOG_LEVEL", "LOG_FORMAT"}
      OBVIOUS
    <2> QED
      BY <2>1, FewEntries
  <1>2. IsEnv(q2) /\ \A n \in Names : Lacks(q2, n)
    <2>1. \A n \in Names : n # "RENOVATE_ENDPOINT"
      OBVIOUS
    <2> HIDE DEF Names
    <2> QED
      BY <2>1, OptionalEntry
  <1>3. IsEnv(q3) /\ \A n \in Names : Lacks(q3, n)
    <2>1. \A n \in Names : n # "RENOVATE_TOKEN"
      OBVIOUS
    <2> HIDE DEF Names
    <2> QED
      BY <2>1, OneEntry
  <1>4. IsEnv(q4) /\ \A n \in Names : Lacks(q4, n)
    <2>1. \A n \in Names : n # "RENOVATE_AUTODISCOVER"
      OBVIOUS
    <2> HIDE DEF Names
    <2> QED
      BY <2>1, OneEntry
  <1>5. IsEnv(q5) /\ \A n \in Names : Lacks(q5, n)
    <2>1. \A n \in Names : n # "RENOVATE_REQUIRE_CONFIG"
      OBVIOUS
    <2> HIDE DEF Names
    <2> QED
      BY <2>1, OptionalEntry
  <1>6. /\ IsEnv(q6) /\ Lacks(q6, "RENOVATE_PLATFORM") /\ Lacks(q6, "LOG_LEVEL")
        /\ DOMAIN config # {} => Sets(q6, "RENOVATE_CONFIG", config)
        /\ DOMAIN config = {} => Lacks(q6, "RENOVATE_CONFIG")
    <2>1. "RENOVATE_PLATFORM" # "RENOVATE_CONFIG" /\ "LOG_LEVEL" # "RENOVATE_CONFIG"
      OBVIOUS
    <2>2. /\ IsEnv(q6) /\ Lacks(q6, "RENOVATE_PLATFORM") /\ Lacks(q6, "LOG_LEVEL")
          /\ c6 => Sets(q6, "RENOVATE_CONFIG", config)
          /\ ~ c6 => Lacks(q6, "RENOVATE_CONFIG")
      BY <2>1, OptionalEntry
    <2> QED
      BY <1>0, <2>2
  <1>7. IsEnv(q7) /\ \A n \in Names : Lacks(q7, n)
    <2>1. /\ "OTEL_SERVICE_NAME" # "OTEL_EXPORTER_OTLP_ENDPOINT"
          /\ "OTEL_SERVICE_NAME" # "" /\ "OTEL_EXPORTER_OTLP_ENDPOINT" # ""
          /\ \A n \in Names : n \notin {"OTEL_SERVICE_NAME", "OTEL_EXPORTER_OTLP_ENDPOINT"}
      OBVIOUS
    <2> HIDE DEF Names
    <2> QED
      BY <2>1, FewEntries
  <1> HIDE DEF p1, q2, q3, q4, q5, q6, q7
  <1> DEFINE Kept(s) == /\ IsEnv(s) /\ Sets(s, "RENOVATE_PLATFORM", type)
                        /\ Sets(s, "LOG_LEVEL", level)
  <1>9. ASSUME NEW s, NEW t, Kept(s), Lacks(s, "RENOVATE_CONFIG"),
               IsEnv(t), \A n \in Names : Lacks(t, n)
        PROVE  Kept(s \o t) /\ Lacks(s \o t, "RENOVATE_CONFIG")
    BY <1>9, PartCarries
  <1> DEFINE p5 == (((p1 \o q2) \o q3) \o q4) \o q5
             p6 == p5 \o q6
  <1>10. Kept(p5) /\ Lacks(p5, "RENOVATE_CONFIG")
    <2> HIDE DEF Kept, Names
    <2>1. Kept(p1) /\ Lacks(p1, "RENOVATE_CONFIG")
      BY <1>1 DEF Kept
    <2>2. Kept(p1 \o q2) /\ Lacks(p1 \o q2, "RENOVATE_CONFIG")
      BY <1>2, <1>9, <2>1
    <2>3. Kept((p1 \o q2) \o q3) /\ Lacks((p1 \o q2) \o q3, "RENOVATE_CONFIG")
      BY <1>3, <1>9, <2>2
    <2>4. Kept(((p1 \o q2) \o q3) \o q4) /\ Lacks(((p1 \o q2) \o q3) \o q4, "RENOVATE_CONFIG")
      BY <1>4, <1>9, <2>3
    <2> QED
      BY <1>5, <1>9, <2>4
  <1> HIDE DEF p5
  <1>11. /\ Kept(p6)
         /\ DOMAIN config # {} => Sets(p6, "RENOVATE_CONFIG", config)
         /\ DOMAIN config = {} => Lacks(p6, "RENOVATE_CONFIG")
    <2>1. Kept(p6)
      BY <1>6, <1>10, PartCarries
    <2>2. DOMAIN config # {} => Sets(p6, "RENOVATE_CONFIG", config)
      BY <1>6, <1>10, LaterPartSets
    <2>3. DOMAIN config = {} => Lacks(p6, "RENOVATE_CONFIG")
      BY <1>6, <1>10, PartCarries
    <2> QED
      BY <2>1, <2>2, <2>3
  <1>12. OwnEntries(plat, sc) = p6 \o q7
    BY <1>8 DEF p5
  <1> HIDE DEF p6
  <1>13. /\ Kept(p6 \o q7)
         /\ DOMAIN config # {} => Sets(p6 \o q7, "RENOVATE_CONFIG", config)
         /\ DOMAIN config = {} => Lacks(p6 \o q7, "RENOVATE_CONFIG")
    BY <1>7, <1>11, PartCarries
  <1> QED
    BY <1>12, <1>13 DEF config, type, level

-----------------------------------------------------------------------------
(* The layers of the snapshots.                                                             *)

(* The strongest of two layers is the second only if the first says nothing.                *)
LEMMA StrongestOfTwo ==
    ASSUME NEW a, NEW b, a # <<>> \/ b # <<>>
    PROVE  Strongest(<<a, b>>) = IF a # <<>> THEN a ELSE b
  <1> DEFINE layers == <<a, b>>
             I == {i \in 1..Len(layers) : layers[i] # <<>>}
             first == IF a # <<>> THEN 1 ELSE 2
  <1>1. Len(layers) = 2 /\ layers[1] = a /\ layers[2] = b
    OBVIOUS
  <1>2. \A i \in 1..2 : i = 1 \/ i = 2
    OBVIOUS
  <1> HIDE DEF layers
  <1>3. first \in I /\ (\A y \in I : first <= y) /\ first \in Int /\ I \subseteq Int
    BY <1>1, <1>2
  <1>4. layers[first] = IF a # <<>> THEN a ELSE b
    BY <1>1
  <1>5. SelectInSeq(layers, LAMBDA v : v # <<>>) = IF I # {} THEN Min(I) ELSE 0
    BY DEF SelectInSeq
  <1> HIDE DEF I, first
  <1>6. \A x \in I : (\A y \in I : x <= y) => x = first
    BY <1>3
  <1>7. Min(I) = first
    BY <1>3, <1>6 DEF Min
  <1>8. Strongest(layers) = layers[first]
    BY <1>3, <1>5, <1>7 DEF Strongest
  <1> QED
    BY <1>4, <1>8 DEF layers

(* Of three, the first that says something.                                                  *)
LEMMA StrongestOfThree ==
    ASSUME NEW a, NEW b, NEW c, c # <<>>
    PROVE  Strongest(<<a, b, c>>) = IF a # <<>> THEN a ELSE IF b # <<>> THEN b ELSE c
  <1> DEFINE layers == <<a, b, c>>
             I == {i \in 1..Len(layers) : layers[i] # <<>>}
             first == IF a # <<>> THEN 1 ELSE IF b # <<>> THEN 2 ELSE 3
  <1>1. Len(layers) = 3 /\ layers[1] = a /\ layers[2] = b /\ layers[3] = c
    OBVIOUS
  <1>2. \A i \in 1..3 : i = 1 \/ i = 2 \/ i = 3
    OBVIOUS
  <1> HIDE DEF layers
  <1>3. first \in I /\ (\A y \in I : first <= y) /\ first \in Int /\ I \subseteq Int
    BY <1>1, <1>2
  <1>4. layers[first] = IF a # <<>> THEN a ELSE IF b # <<>> THEN b ELSE c
    BY <1>1
  <1>5. SelectInSeq(layers, LAMBDA v : v # <<>>) = IF I # {} THEN Min(I) ELSE 0
    BY DEF SelectInSeq
  <1> HIDE DEF I, first
  <1>6. \A x \in I : (\A y \in I : x <= y) => x = first
    BY <1>3
  <1>7. Min(I) = first
    BY <1>3, <1>6 DEF Min
  <1>8. Strongest(layers) = layers[first]
    BY <1>3, <1>5, <1>7 DEF Strongest
  <1> QED
    BY <1>4, <1>8 DEF layers

(* The level is the strongest of Scan, Platform and info.                                   *)
LEMMA LevelFollows ==
    ASSUME NEW plat, NEW sc
    PROVE  resolveLogLevel(plat, sc)
                = Strongest(<<Given(sc.logLevel), Given(plat.logLevel), <<"info">> >>)[1]
  <1> DEFINE s == sc.logLevel
             p == plat.logLevel
  <1>1. /\ resolveLogLevel(plat, sc) = IF s # "" THEN s ELSE IF p # "" THEN p ELSE "info"
    BY DEF resolveLogLevel
  <1> HIDE DEF s, p
  <1>2. /\ s # "" => Given(s) = <<s>> /\ Given(s) # <<>> /\ Given(s)[1] = s
        /\ s = "" => Given(s) = <<>>
        /\ p # "" => Given(p) = <<p>> /\ Given(p) # <<>> /\ Given(p)[1] = p
        /\ p = "" => Given(p) = <<>>
        /\ <<"info">> # <<>> /\ <<"info">>[1] = "info"
    BY DEF Given
  <1> DEFINE i == <<"info">>
             gs == Given(s)
             gp == Given(p)
  <1> HIDE DEF i, gs, gp
  <1>3. Strongest(<<gs, gp, i>>) = IF gs # <<>> THEN gs ELSE IF gp # <<>> THEN gp ELSE i
    BY <1>2, StrongestOfThree DEF i
  <1> QED
    BY <1>1, <1>2, <1>3 DEF i, gs, gp, s, p

(* A list ends with itself, also with one more item in front of it.                          *)
LEMMA PresetGoesFirst ==
    ASSUME NEW S, NEW s \in Seq(S), NEW p
    PROVE  /\ IsSuffix(s, s) /\ IsSuffix(s, <<p>> \o s) /\ Head(<<p>> \o s) = p
           /\ Len(<<p>> \o s) = Len(s) + 1
  <1> DEFINE t == <<p>> \o s
             r == Reverse(s)
             q == Reverse(t)
             n == Len(s)
  <1>1. t \in Seq(S \cup {p}) /\ s \in Seq(S \cup {p}) /\ n \in Nat
    OBVIOUS
  <1>2. Len(t) = n + 1 /\ t[1] = p /\ \A i \in 1..n : t[i + 1] = s[i]
    OBVIOUS
  <1>3. Head(t) = p
    BY <1>1, <1>2
  <1>4. r \in Seq(S \cup {p}) /\ Len(r) = n /\ \A i \in 1..n : r[i] = s[(n - i) + 1]
    BY <1>1 DEF Reverse
  <1> HIDE DEF t
  <1>5. q \in Seq(S \cup {p}) /\ Len(q) = n + 1 /\ \A i \in 1..(n + 1) : q[i] = t[((n + 1) - i) + 1]
    <2>1. Len(t) \in Nat /\ \A i \in 1..Len(t) : t[(Len(t) - i) + 1] \in S \cup {p}
      BY <1>1, <1>2
    <2>2. q \in [1..Len(t) -> S \cup {p}]
      BY <2>1 DEF Reverse
    <2>3. q \in Seq(S \cup {p}) /\ Len(q) = Len(t)
      BY <2>1, <2>2
    <2> QED
      BY <1>2, <2>3 DEF Reverse
  <1> HIDE DEF r, q
  <1>6. ASSUME NEW i \in 1..n
        PROVE  q[i] = r[i]
    <2>1. i \in 1..(n + 1) /\ (n - i) + 1 \in 1..n /\ ((n + 1) - i) + 1 = ((n - i) + 1) + 1
      BY <1>1
    <2> QED
      BY <1>2, <1>4, <1>5, <2>1
  <1>7. SubSeq(r, 1, n) = SubSeq(q, 1, n)
    BY <1>1, <1>4, <1>5, <1>6
  <1>8. n <= n + 1 /\ n <= n
    BY <1>1
  <1> HIDE DEF n
  <1>9. IsSuffix(s, t)
    BY <1>4, <1>5, <1>7, <1>8 DEF IsSuffix, IsPrefix, r, q
  <1>10. IsSuffix(s, s)
    BY <1>4, <1>8 DEF IsSuffix, IsPrefix, r
  <1> QED
    BY <1>2, <1>3, <1>9, <1>10 DEF t, n

(* Two layers of objects: the first that has the key.                                        *)
LEMMA StrongestOfObjects ==
    ASSUME NEW f, NEW g, NEW key, key \in DOMAIN f \cup DOMAIN g
    PROVE  /\ Strongest(<<Says(f, key), Says(g, key)>>) = <<Over(f, g)[key]>>
           /\ Says(Over(f, g), key) = <<Over(f, g)[key]>>
  <1> DEFINE a == Says(f, key)
             b == Says(g, key)
  <1>1. /\ key \in DOMAIN f => a = <<f[key]>> /\ a # <<>>
        /\ key \notin DOMAIN f => a = <<>>
        /\ key \in DOMAIN g => b = <<g[key]>> /\ b # <<>>
    BY DEF Says
  <1> HIDE DEF a, b
  <1>2. Strongest(<<a, b>>) = IF a # <<>> THEN a ELSE b
    BY <1>1, StrongestOfTwo
  <1> DEFINE v == Over(f, g)[key]
  <1>5. /\ key \in DOMAIN f => v = f[key]
        /\ key \notin DOMAIN f => v = g[key] /\ key \in DOMAIN g
    BY DEF Over
  <1> HIDE DEF v
  <1>3. Strongest(<<a, b>>) = <<v>>
    BY <1>1, <1>2, <1>5
  <1>4. Says(Over(f, g), key) = <<Over(f, g)[key]>>
    BY DEF Over, Says
  <1> QED
    BY <1>3, <1>4 DEF a, b, v

(* The same with a default below them.                                                       *)
LEMMA StrongestOrDefault ==
    ASSUME NEW f, NEW g, NEW key, NEW default
    PROVE  Strongest(<<Says(f, key), Says(g, key), <<default>> >>)[1]
                = IF key \in DOMAIN f \cup DOMAIN g THEN Over(f, g)[key] ELSE default
  <1> DEFINE a == Says(f, key)
             b == Says(g, key)
             c == <<default>>
  <1>1. /\ key \in DOMAIN f => a # <<>> /\ a[1] = f[key]
        /\ key \notin DOMAIN f => a = <<>>
        /\ key \in DOMAIN g => b # <<>> /\ b[1] = g[key]
        /\ key \notin DOMAIN g => b = <<>>
        /\ c # <<>> /\ c[1] = default
    BY DEF Says
  <1> HIDE DEF a, b, c
  <1>2. Strongest(<<a, b, c>>) = IF a # <<>> THEN a ELSE IF b # <<>> THEN b ELSE c
    BY <1>1, StrongestOfThree
  <1> DEFINE v == Over(f, g)[key]
  <1>4. /\ key \in DOMAIN f => v = f[key]
        /\ key \in DOMAIN g \ DOMAIN f => v = g[key]
    BY DEF Over
  <1> HIDE DEF v
  <1>3. Strongest(<<a, b, c>>)[1] = IF key \in DOMAIN f \cup DOMAIN g THEN v ELSE default
    BY <1>1, <1>2, <1>4
  <1> QED
    BY <1>3 DEF a, b, c, v

(* mergeRenovateConfig keeps the order of the layers, and puts the preset in front of the    *)
(* list of presets that the layers extend.                                                   *)
LEMMA MergedFollows ==
    ASSUME NEW plat, NEW sc, IsConfig(plat.runnerConfig), IsConfig(sc.renovateConfigOverrides),
           NEW config, DOMAIN mergeRenovateConfig(plat, sc) # {} =>
                           config = mergeRenovateConfig(plat, sc)
    PROVE  ConfigFollows(config, plat, sc)
  <1> DEFINE above == sc.renovateConfigOverrides
             below == plat.runnerConfig
             preset == plat.presetRepoRef
             merged == Over(above, below)
             extends == IF "extends" \in DOMAIN merged /\ merged["extends"].list
                        THEN merged["extends"].items ELSE <<>>
             items == <<preset>> \o extends
             front == [extends |-> List(items)]
             result == mergeRenovateConfig(plat, sc)
             said == Strongest(<<Says(above, "extends"), Says(below, "extends"), <<List(<<>>)>> >>)[1]
  <1>1. result = IF preset = "" THEN merged ELSE Over(front, merged)
    BY DEF mergeRenovateConfig
  <1>2. DOMAIN front = {"extends"} /\ front["extends"] = List(items)
    OBVIOUS
  <1>3. List(items).items = items /\ List(<<>>).items = <<>>
    BY DEF List
  <1>4. /\ said = IF "extends" \in DOMAIN above \cup DOMAIN below
                  THEN merged["extends"] ELSE List(<<>>)
        /\ DOMAIN merged = DOMAIN above \cup DOMAIN below
    <2> DEFINE none == List(<<>>)
    <2>1. DOMAIN merged = DOMAIN above \cup DOMAIN below
      BY DEF Over
    <2> HIDE DEF none, above, below
    <2>2. Strongest(<<Says(above, "extends"), Says(below, "extends"), <<none>> >>)[1]
            = IF "extends" \in DOMAIN above \cup DOMAIN below THEN merged["extends"] ELSE none
      BY StrongestOrDefault
    <2> QED
      BY <2>1, <2>2 DEF none
  <1>5. /\ "extends" \in DOMAIN merged => IsSequence(merged["extends"].items)
        /\ IsSequence(extends)
    <2>1. "extends" \in DOMAIN merged => IsSequence(merged["extends"].items)
      <3>1. \A key \in DOMAIN above : IsSequence(above[key].items)
        BY DEF IsConfig
      <3>2. \A key \in DOMAIN below : IsSequence(below[key].items)
        BY DEF IsConfig
      <3> HIDE DEF above, below
      <3> QED
        BY <3>1, <3>2 DEF Over
    <2>2. IsSequence(<<>>)
      BY DEF IsSequence
    <2> QED
      BY <2>1, <2>2
  <1>6. ConfigFollows(config, plat, sc) <=>
            /\ \A key \in (DOMAIN below \cup DOMAIN above) \ {"extends"} :
                  Says(config, key) = Strongest(<<Says(above, key), Says(below, key)>>)
            /\ preset # "" => Head(config["extends"].items) = preset
            /\ said.list /\ said.items # <<>> => IsSuffix(said.items, config["extends"].items)
    BY DEF ConfigFollows
  <1>7. DOMAIN result # {} => config = result
    OBVIOUS
  <1> HIDE DEF above, below, preset, front, result, said
  <1>8. \A key \in DOMAIN above \cup DOMAIN below :
            Strongest(<<Says(above, key), Says(below, key)>>) = Says(merged, key)
    BY StrongestOfObjects
  <1>9. \A s : IsSequence(s) => /\ IsSuffix(s, s) /\ IsSuffix(s, <<preset>> \o s)
                                /\ Head(<<preset>> \o s) = preset
    BY PresetGoesFirst DEF IsSequence
  <1> HIDE DEF merged, items, extends
  <1>10. CASE preset = ""
    <2>1. DOMAIN merged # {} => config = merged
      BY <1>1, <1>7, <1>10
    <2>2. \A key \in DOMAIN below \cup DOMAIN above : Says(config, key) = Says(merged, key)
      BY <1>4, <2>1
    <2>3. ASSUME said.list, said.items # <<>>
          PROVE  IsSuffix(said.items, config["extends"].items)
      <3>1. "extends" \in DOMAIN merged /\ said = merged["extends"]
        BY <1>3, <1>4, <2>3
      <3>2. config["extends"] = said
        BY <2>1, <3>1
      <3> QED
        BY <1>5, <1>9, <3>1, <3>2
    <2> QED
      BY <1>6, <1>8, <1>10, <2>2, <2>3
  <1>11. CASE preset # ""
    <2>1. DOMAIN Over(front, merged) = {"extends"} \cup DOMAIN merged
      BY <1>2 DEF Over
    <2>2. config = Over(front, merged)
      BY <1>1, <1>7, <1>11, <2>1
    <2>3. config["extends"].items = items
      BY <1>2, <1>3, <2>2 DEF Over
    <2>4. Head(config["extends"].items) = preset
      BY <1>5, <1>9, <2>3 DEF items
    <2>5. ASSUME NEW key \in (DOMAIN below \cup DOMAIN above) \ {"extends"}
          PROVE  Says(config, key) = Says(merged, key)
      <3>1. key \in DOMAIN config /\ key \in DOMAIN merged
        BY <1>4, <2>1, <2>2
      <3>2. config[key] = merged[key]
        BY <1>2, <2>2, <3>1 DEF Over
      <3> QED
        BY <3>1, <3>2 DEF Says
    <2>6. ASSUME said.list, said.items # <<>>
          PROVE  IsSuffix(said.items, config["extends"].items)
      <3>1. "extends" \in DOMAIN merged /\ said = merged["extends"]
        BY <1>3, <1>4, <2>6
      <3>2. extends = said.items
        BY <2>6, <3>1 DEF extends
      <3> QED
        BY <1>5, <1>9, <2>3, <3>2 DEF items
    <2> QED
      BY <1>6, <1>8, <2>4, <2>5, <2>6
  <1> QED
    BY <1>10, <1>11

(* What a worker is told follows the snapshots its environment was built from.               *)
LEMMA EnvFollows ==
    ASSUME NEW plat, NEW sc, IsConfig(plat.runnerConfig),
           IsConfig(sc.renovateConfigOverrides), IsSequence(sc.extraEnv)
    PROVE  FollowsSnapshot(WorkerSees(buildEnv(plat, sc)), plat, sc)
  <1> DEFINE extra == sc.extraEnv
             own == OwnEntries(plat, sc)
             env == buildEnv(plat, sc)
             sees == WorkerSees(env)
             named == {extra[k].name : k \in DOMAIN extra}
             type == Text(plat.platformType)
             level == Text(resolveLogLevel(plat, sc))
             merged == mergeRenovateConfig(plat, sc)
             config == IF "RENOVATE_CONFIG" \in DOMAIN sees THEN sees["RENOVATE_CONFIG"] ELSE <<>>
  <1>1. env = own \o extra
    BY DEF buildEnv, OwnEntries
  <1>2. IsEnv(extra) /\ DOMAIN extra = 1..Len(extra) /\ Len(extra) \in Nat
    BY DEF IsSequence, IsEnv
  <1>3. /\ IsEnv(own) /\ Sets(own, "RENOVATE_PLATFORM", type) /\ Sets(own, "LOG_LEVEL", level)
        /\ DOMAIN merged # {} => Sets(own, "RENOVATE_CONFIG", merged)
        /\ DOMAIN merged = {} => Lacks(own, "RENOVATE_CONFIG")
    BY OwnEntriesSet
  <1>4. FollowsSnapshot(sees, plat, sc) <=>
            /\ sees["RENOVATE_REPOSITORIES"] = Text("shard")
            /\ \A k \in DOMAIN extra :
                \/ extra[k].name = "RENOVATE_REPOSITORIES"
                \/ \E later \in (k + 1)..Len(extra) : extra[later].name = extra[k].name
                \/ sees[extra[k].name] = extra[k].value
            /\ "RENOVATE_PLATFORM" \notin named => sees["RENOVATE_PLATFORM"] = type
            /\ "LOG_LEVEL" \notin named =>
                sees["LOG_LEVEL"]
                    = Text(Strongest(<<Given(sc.logLevel), Given(plat.logLevel), <<"info">> >>)[1])
            /\ "RENOVATE_CONFIG" \notin named => ConfigFollows(config, plat, sc)
    BY DEF FollowsSnapshot
  <1>5. level = Text(Strongest(<<Given(sc.logLevel), Given(plat.logLevel), <<"info">> >>)[1])
    BY LevelFollows
  <1>6. (DOMAIN merged # {} => config = merged) => ConfigFollows(config, plat, sc)
    <2> HIDE DEF config
    <2> QED
      BY MergedFollows
  <1> HIDE DEF extra, own, env, type, level, merged
  <1>7. IsEnv(env)
    BY <1>1, <1>2, <1>3, PartsOfEnv
  <1>8. ASSUME NEW name, name # "RENOVATE_REPOSITORIES", NEW value, Sets(env, name, value)
        PROVE  name \in DOMAIN sees /\ sees[name] = value
    BY <1>7, <1>8, WorkerSeesSet
  <1>9. sees["RENOVATE_REPOSITORIES"] = Text("shard")
    <2>1. "LOG_LEVEL" # "RENOVATE_REPOSITORIES"
      OBVIOUS
    <2> QED
      BY <1>7, <2>1, WorkerSeesSet
  <1> HIDE DEF sees
  <1>10. ASSUME NEW name, name # "RENOVATE_REPOSITORIES", name \notin named
         PROVE  /\ Lacks(extra, name)
                /\ \A value : Sets(own, name, value) => name \in DOMAIN sees /\ sees[name] = value
    <2>1. Lacks(extra, name)
      BY <1>2, <1>10 DEF Lacks
    <2>2. \A value : Sets(own, name, value) => Sets(env, name, value)
      BY <1>1, <1>2, <1>3, <2>1, PartCarries
    <2> QED
      BY <1>8, <1>10, <2>1, <2>2
  <1>11. ASSUME NEW k \in DOMAIN extra, extra[k].name # "RENOVATE_REPOSITORIES",
                ~ \E later \in (k + 1)..Len(extra) : extra[later].name = extra[k].name
         PROVE  sees[extra[k].name] = extra[k].value
    <2>1. \A i \in 1..Len(extra) : i > k => i \in (k + 1)..Len(extra)
      BY <1>2
    <2>2. Sets(extra, extra[k].name, extra[k].value)
      BY <1>2, <1>11, <2>1 DEF Sets
    <2>3. Sets(env, extra[k].name, extra[k].value)
      BY <1>1, <1>2, <1>3, <2>2, LaterPartSets
    <2> QED
      BY <1>8, <1>11, <2>3
  <1>12. "RENOVATE_PLATFORM" \notin named => sees["RENOVATE_PLATFORM"] = type
    <2>1. "RENOVATE_PLATFORM" # "RENOVATE_REPOSITORIES"
      OBVIOUS
    <2> HIDE DEF named
    <2> QED
      BY <1>3, <1>10, <2>1
  <1>13. "LOG_LEVEL" \notin named => sees["LOG_LEVEL"] = level
    <2>1. "LOG_LEVEL" # "RENOVATE_REPOSITORIES"
      OBVIOUS
    <2> HIDE DEF named
    <2> QED
      BY <1>3, <1>10, <2>1
  <1>14. ASSUME "RENOVATE_CONFIG" \notin named
         PROVE  DOMAIN merged # {} => config = merged
    <2>1. "RENOVATE_CONFIG" # "RENOVATE_REPOSITORIES"
      OBVIOUS
    <2> HIDE DEF named
    <2> QED
      BY <1>3, <1>10, <1>14, <2>1
  <1> HIDE DEF named, config
  <1> QED
    BY <1>4, <1>5, <1>6, <1>9, <1>11, <1>12, <1>13, <1>14 DEF env, sees

(* Once a Run exists, nothing that is edited changes what its workers run with: the Job has  *)
(* the environment that buildEnv makes of the Run's snapshots, whichever of the reconciles   *)
(* created it, and what a worker finds there is the Scan's layer over the Platform's, the    *)
(* user's extraEnv over both, and the token of the Secret that the snapshot refers to.       *)
THEOREM JobsRunTheirSnapshots == Spec => []JobRunsItsSnapshot
  <1>1. ASSUME Inv
        PROVE  JobRunsItsSnapshot
    <2> SUFFICES ASSUME job # None
                 PROVE  /\ FollowsSnapshot(WorkerSees(job.env), Snapshot, runSpec.scanSnapshot)
                        /\ mirror # None => mirror.tokenOf = Snapshot.ref
      BY DEF JobRunsItsSnapshot
    <2>1. Snapshot \in PlatformSpecs /\ runSpec.scanSnapshot \in ScanSpecs
      BY <1>1 DEF Inv, RunComesFirst, TypeOK, RunSpecs, Snapshot
    <2>2. job.env = buildEnv(Snapshot, runSpec.scanSnapshot)
      BY <1>1 DEF Inv, MadeFromSnapshots, BuildWorkerJob
    <2>3. FollowsSnapshot(WorkerSees(job.env), Snapshot, runSpec.scanSnapshot)
      <3>1. \A plat \in PlatformSpecs, sc \in ScanSpecs :
                FollowsSnapshot(WorkerSees(buildEnv(plat, sc)), plat, sc)
        BY EnvFollows, ConfigsAssumption
      <3> QED
        BY <2>1, <2>2, <3>1
    <2>4. mirror # None => mirror.tokenOf = Snapshot.ref
      BY <1>1 DEF Inv, MadeFromSnapshots, BuildMirror
    <2> QED
      BY <2>3, <2>4
  <1> QED
    BY <1>1, InvHolds, PTL
=============================================================================
