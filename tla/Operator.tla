------------------------------ MODULE Operator ------------------------------
(***************************************************************************)
(* The three controllers together, around one Platform, one Scan and one Run  *)
(* of it: what passes from the Platform's Ready condition to the Scan, from   *)
(* both specs into the Run's snapshots, and from the Run into its worker Job,  *)
(* while users edit and delete the objects and the garbage collector follows   *)
(* owner references.  The Scan's other Runs share no object with this one;     *)
(* when they fire, and which of them are kept, is RenovateScan's subject.      *)
(*                                                                             *)
(* RenovatePlatform and RenovateScan model their reconciles call by call; here *)
(* each is one step.  The Run's stays a step per call.  Platform, Scan and     *)
(* Run are read from caches that lag; Secrets, ConfigMap and Job, whose        *)
(* caches RenovateRun models, are read as they are.  Work queues are left out: *)
(* an object is reconciled whenever there may be something to do.              *)
(***************************************************************************)
EXTENDS PlatformAuth, WorkerEnv

CONSTANTS
    PlatformSpecs,   \* specs of the Platform that pass admission
    ScanSpecs,       \* what of the Scan's spec reaches the workers
    InitialPlatforms, InitialScans, InitialSecrets,   \* what there is at first
    SecretEdits,     \* contents that users give a Secret
    Revocable,       \* Secrets whose credentials the platform may come to refuse
    MaxFaults,       \* bound on failing calls and crashes
    MaxChanges       \* bound on edits and deletions by users

ASSUME SpecsAssumption ==
    /\ InitialPlatforms \subseteq PlatformSpecs /\ InitialScans \subseteq ScanSpecs
    /\ \A s \in PlatformSpecs :
        /\ [platformType |-> s.platformType, auth |-> s.auth, ref |-> s.ref] \in AuthType
        /\ s.platformType = "forgejo" => s.baseURL # ""
ASSUME SecretsAssumption ==
    /\ InitialSecrets \in [SecretNames -> Contents] /\ SecretEdits \subseteq Contents
    /\ Revocable \subseteq SecretNames
ASSUME ConfigsAssumption ==
    /\ \A s \in PlatformSpecs : IsConfig(s.runnerConfig)
    /\ \A s \in ScanSpecs : IsConfig(s.renovateConfigOverrides) /\ IsSequence(s.extraEnv)
ASSUME WorkersAssumption ==
    \A s \in ScanSpecs : /\ s.minWorkers \in Nat \ {0} /\ s.maxWorkers \in Nat \ {0}
                         /\ s.invalid \subseteq {"shards", "job"}
ASSUME BoundsAssumption == MaxFaults \in Nat /\ MaxChanges \in Nat

VARIABLES
    \* --- the API server
    platform,       \* spec, generation and Ready of the Platform, see NewPlatform
    secret,         \* what each credential Secret holds
    refused,        \* Secrets whose credentials the platform refuses, whatever their form
    scan,           \* the Scan: whether it is there, and its spec
    run,            \* status of the Run
    runSpec,        \* its owner and its snapshots, as createRun wrote them
    mirror,         \* its mirrored Secret
    shards,         \* its ConfigMap
    job,            \* its worker Job
    \* --- the informer caches
    platformCache, scanCache, runCache,
    \* --- the Run controller
    pc, base, copy,
    \* --- bounds and history
    faults, changes,
    vouched         \* did Ready vouch for what the Run finds as its credentials?

apiVars == <<platform, secret, refused, scan, run, runSpec>>
childVars == <<mirror, shards, job>>
cacheVars == <<platformCache, scanCache, runCache>>
reconcileVars == <<pc, base, copy>>
vars == <<apiVars, childVars, cacheVars, reconcileVars, faults, changes, vouched>>

-----------------------------------------------------------------------------
Active == {"", "Discovering", "Running"}
Terminal == {"Succeeded", "Failed"}

(* The Run's phase, "none" before it is created and "gone" after it is         *)
(* deleted, and why it failed.                                                 *)
Status(phase, failure) == [phase |-> phase, failure |-> failure]
NoRun == Status("none", "none")
Gone == Status("gone", "none")

(* No object of that name; an object carries its owner.                        *)
None == [owner |-> "none"]

(* The Ready condition's reason and observedGeneration.  Beside the object: is  *)
(* the Secret still as it was when the condition was found?                     *)
NewPlatform(s) == [spec |-> s, gen |-> 1, ready |-> "Unknown", readyGen |-> 0, sound |-> FALSE]

Init ==
    /\ platform \in {NewPlatform(s) : s \in InitialPlatforms}
    /\ secret = InitialSecrets /\ refused = {}
    /\ scan \in [exists : {TRUE}, spec : InitialScans]
    /\ run = NoRun /\ runSpec = None
    /\ mirror = None /\ shards = None /\ job = None
    /\ platformCache = platform /\ scanCache = scan /\ runCache = run
    /\ pc = "idle" /\ base = NoRun /\ copy = NoRun
    /\ faults = 0 /\ changes = 0
    /\ vouched = FALSE

Fault == faults < MaxFaults /\ faults' = faults + 1
NoFault == UNCHANGED faults

-----------------------------------------------------------------------------
(* Platform and Scan.                                                          *)

(* The Platform's reconcile.  From a stale copy it would end in a conflict.    *)
PlatformReconcile ==
    /\ platformCache = platform
    /\ platform' = [platform EXCEPT !.ready = Conclusion(platform.spec, secret),
                                    !.readyGen = platform.gen,
                                    !.sound = TRUE]
    /\ UNCHANGED <<secret, refused, scan, run, runSpec, childVars, cacheVars, reconcileVars,
                   faults, changes, vouched>>

(* Slip: the Run has no owner reference to its Scan.                           *)
createUnownedRun(plat, sc) == [owner |-> "none", platformSnapshot |-> plat, scanSnapshot |-> sc]

createRun(plat, sc) == [owner |-> "scan", platformSnapshot |-> plat, scanSnapshot |-> sc]

(* Slip: the Platform's Ready is not asked for.                                *)
PlatformKnown == platformCache.ready # "Unknown"

(* Ready, for whichever generation of the spec it was found.                   *)
PlatformReady == platformCache.ready = "CredentialsResolved"

(* The Scan's reconcile when it fires: the Run with its snapshots.             *)
Fire ==
    /\ scanCache.exists /\ PlatformReady
    /\ run = NoRun /\ run' = Status("", "none")
    /\ runSpec' = createRun(platformCache.spec, scanCache.spec)
    /\ vouched' = (platformCache.readyGen = platformCache.gen /\ platformCache.sound)
    /\ UNCHANGED <<platform, secret, refused, scan, childVars, cacheVars, reconcileVars,
                   faults, changes>>

(* A later reconcile of the Scan deletes the Run: a terminal one, beyond the   *)
(* history limits.                                                             *)
gcOldRuns ==
    /\ scanCache.exists /\ PlatformReady
    /\ runCache.phase \in Terminal /\ run # Gone /\ run' = Gone
    /\ UNCHANGED <<platform, secret, refused, scan, runSpec, childVars, cacheVars,
                   reconcileVars,
                   faults, changes, vouched>>

-----------------------------------------------------------------------------
(* The Run's reconcile, call by call.                                          *)

Goto(next) == pc' = next /\ UNCHANGED <<base, copy>>
SetStatus(phase, failure) == pc' = "update" /\ copy' = Status(phase, failure) /\ UNCHANGED base

markFailed(why) == SetStatus("Failed", why)
markTransient == SetStatus("Discovering", "none")

Snapshot == runSpec.platformSnapshot

(* Reconcile reads the Run; a terminal one is left alone.                       *)
RunReconcile ==
    /\ pc = "idle" /\ runCache.phase \in Active
    /\ base' = runCache /\ copy' = runCache
    /\ pc' = IF runCache.phase = "Running" THEN "observe" ELSE "authenticate"
    /\ UNCHANGED <<apiVars, childVars, cacheVars, faults, changes, vouched>>

Refused == Snapshot.ref \in refused

(* MintAccessToken: the platform mints the token of an App, or refuses to, and  *)
(* that is retried; a Forgejo token is what the Secret holds, but making the     *)
(* client has asked the server for its version, and an error there is final.    *)
MintAccessToken ==
    \/ (Refused => Snapshot.platformType = "forgejo") /\ Goto("mirror")
    \/ Refused /\ Snapshot.platformType = "github" /\ markTransient
    \/ Refused /\ Snapshot.platformType = "forgejo" /\ markFailed("unreachable")


(* fetchSourceSecret, the client factory and MintAccessToken: a Secret that is  *)
(* not there is retried, an error of the factory is final.                      *)
Connect(content) ==
    \/ content = "absent" /\ markTransient /\ NoFault
    \/ content # "absent" /\ ClientAccepted(Snapshot, content) /\ MintAccessToken /\ NoFault
    \/ content # "absent" /\ ~ ClientAccepted(Snapshot, content) /\ markFailed("client") /\ NoFault
    \/ markTransient /\ Fault
    \/ Snapshot.platformType = "forgejo" /\ markFailed("unreachable") /\ Fault

Authenticate ==
    /\ pc = "authenticate" /\ Connect(secret[Snapshot.ref])
    /\ UNCHANGED <<apiVars, childVars, cacheVars, changes, vouched>>

(* An object of the Run's, if it is not there already.                         *)
Ensure(object, new) == IF object = None THEN new ELSE object

(* Slip: the mirrored Secret belongs to the Scan.                               *)
BuildScansMirror == [owner |-> "scan", tokenOf |-> Snapshot.ref]

(* The token minted from the Secret that the snapshot refers to.                *)
BuildMirror == [owner |-> "run", tokenOf |-> Snapshot.ref]

mirrorCredential ==
    /\ pc = "mirror"
    /\ \/ mirror' = BuildMirror /\ Goto("discover") /\ NoFault
       \/ markTransient /\ Fault /\ UNCHANGED mirror
    /\ UNCHANGED <<apiVars, shards, job, cacheVars, changes, vouched>>

(* Which of the Run's objects can be created at all: sharding.Build wants its    *)
(* bounds in order, which admission does not ask for, and the API server has      *)
(* limits of its own.                                                             *)
ShardsCanBe(sc) == sc.minWorkers <= sc.maxWorkers /\ "shards" \notin sc.invalid
JobCanBe(sc) == "job" \notin sc.invalid

(* Discovery, whose errors are retried or final, with a refusal among the final   *)
(* ones, and the shard ConfigMap, whose errors are retried.                       *)
discoverAndShard ==
    /\ pc = "discover"
    /\ \/ /\ ShardsCanBe(runSpec.scanSnapshot)
          /\ shards' = Ensure(shards, [owner |-> "run"]) /\ Goto("job") /\ NoFault
       \/ ~ ShardsCanBe(runSpec.scanSnapshot) /\ markTransient /\ NoFault /\ UNCHANGED shards
       \/ Refused /\ markFailed("discovery") /\ NoFault /\ UNCHANGED shards
       \/ markTransient /\ Fault /\ UNCHANGED shards
       \/ markFailed("discovery") /\ Fault /\ UNCHANGED shards
    /\ UNCHANGED <<apiVars, mirror, job, cacheVars, changes, vouched>>

BuildWorkerJob ==
    [owner |-> "run", state |-> "active", env |-> buildEnv(Snapshot, runSpec.scanSnapshot)]

ensureWorkerJob ==
    /\ pc = "job"
    /\ \/ /\ JobCanBe(runSpec.scanSnapshot)
          /\ job' = Ensure(job, BuildWorkerJob) /\ SetStatus("Running", "none") /\ NoFault
       \/ ~ JobCanBe(runSpec.scanSnapshot) /\ markTransient /\ NoFault /\ UNCHANGED job
       \/ markTransient /\ Fault /\ UNCHANGED job
    /\ UNCHANGED <<apiVars, mirror, shards, cacheVars, changes, vouched>>

observeJob ==
    /\ pc = "observe"
    /\ \/ job = None /\ markFailed("vanished")
       \/ job # None /\ job.state = "active" /\ Goto("update")
       \/ job # None /\ job.state = "succeeded" /\ SetStatus("Succeeded", "none")
       \/ job # None /\ job.state = "failed" /\ markFailed("jobFailed")
    /\ UNCHANGED <<apiVars, childVars, cacheVars, faults, changes, vouched>>

(* Status().Update: refused for a Run that changed or is gone.                  *)
Write ==
    \/ run = base /\ run' = copy /\ NoFault
    \/ run # base /\ UNCHANGED run /\ NoFault
    \/ Fault /\ UNCHANGED run

Finish == pc' = "idle" /\ base' = NoRun /\ copy' = NoRun

UpdateStatus ==
    /\ pc = "update" /\ Write /\ Finish
    /\ UNCHANGED <<platform, secret, refused, scan, runSpec, childVars, cacheVars, changes,
                   vouched>>

Crash ==
    /\ Fault /\ Finish
    /\ platformCache' = platform /\ scanCache' = scan /\ runCache' = run
    /\ UNCHANGED <<apiVars, childVars, changes, vouched>>

RunStep ==
    \/ RunReconcile \/ Authenticate \/ mirrorCredential \/ discoverAndShard
    \/ ensureWorkerJob \/ observeJob \/ UpdateStatus

-----------------------------------------------------------------------------
(* Watches, worker pods and the garbage collector.                              *)

SyncPlatform ==
    /\ platformCache # platform /\ platformCache' = platform
    /\ UNCHANGED <<apiVars, childVars, scanCache, runCache, reconcileVars, faults, changes,
                   vouched>>

SyncScan ==
    /\ scanCache # scan /\ scanCache' = scan
    /\ UNCHANGED <<apiVars, childVars, platformCache, runCache, reconcileVars, faults, changes,
                   vouched>>

SyncRun ==
    /\ runCache # run /\ runCache' = run
    /\ UNCHANGED <<apiVars, childVars, platformCache, scanCache, reconcileVars, faults,
                   changes, vouched>>

JobEnds ==
    /\ job # None /\ job.state = "active"
    /\ \E end \in {"succeeded", "failed"} : job' = [job EXCEPT !.state = end]
    /\ UNCHANGED <<apiVars, mirror, shards, cacheVars, reconcileVars, faults, changes, vouched>>

(* What is left of an object that the garbage collector has looked at.          *)
Collected(object) == IF object.owner = "run" /\ run = Gone THEN None ELSE object

CollectChildren ==
    /\ mirror' = Collected(mirror) /\ shards' = Collected(shards) /\ job' = Collected(job)
    /\ UNCHANGED <<apiVars, cacheVars, reconcileVars, faults, changes, vouched>>

CollectRun ==
    /\ runSpec.owner = "scan" /\ ~ scan.exists /\ run # Gone
    /\ run' = Gone
    /\ UNCHANGED <<platform, secret, refused, scan, runSpec, childVars, cacheVars,
                   reconcileVars,
                   faults, changes, vouched>>

-----------------------------------------------------------------------------
(* Users, and the platform.                                                     *)

Change == changes < MaxChanges /\ changes' = changes + 1

EditPlatform(s) ==
    /\ Change /\ s # platform.spec
    /\ platform' = [platform EXCEPT !.spec = s, !.gen = @ + 1]
    /\ UNCHANGED <<secret, refused, scan, run, runSpec, childVars, cacheVars, reconcileVars,
                   faults, vouched>>

Doubted(p, n) == [p EXCEPT !.sound = @ /\ p.spec.ref # n]

EditSecret(n, content) ==
    /\ Change /\ content # secret[n]
    /\ secret' = [secret EXCEPT ![n] = content] /\ refused' = refused \ {n}
    /\ platform' = Doubted(platform, n) /\ platformCache' = Doubted(platformCache, n)
    /\ vouched' = (vouched /\ Snapshot.ref # n)
    /\ UNCHANGED <<scan, run, runSpec, childVars, scanCache, runCache, reconcileVars, faults>>

(* The platform no longer takes the credentials of a Secret (a token is revoked, *)
(* an App suspended), or takes them again.  No object of the cluster changes.     *)
ChangeAccess(n) ==
    /\ Change
    /\ refused' = IF n \in refused THEN refused \ {n} ELSE refused \cup {n}
    /\ UNCHANGED <<platform, secret, scan, run, runSpec, childVars, cacheVars, reconcileVars,
                   faults, vouched>>

EditScan(s) ==
    /\ Change /\ scan.exists /\ s # scan.spec
    /\ scan' = [scan EXCEPT !.spec = s]
    /\ UNCHANGED <<platform, secret, refused, run, runSpec, childVars, cacheVars,
                   reconcileVars, faults, vouched>>

DeleteScan ==
    /\ Change /\ scan.exists
    /\ scan' = [scan EXCEPT !.exists = FALSE]
    /\ UNCHANGED <<platform, secret, refused, run, runSpec, childVars, cacheVars,
                   reconcileVars, faults, vouched>>

DeleteRun ==
    /\ Change /\ run \notin {NoRun, Gone}
    /\ run' = Gone
    /\ UNCHANGED <<platform, secret, refused, scan, runSpec, childVars, cacheVars,
                   reconcileVars, faults, vouched>>

User ==
    \/ \E s \in PlatformSpecs : EditPlatform(s)
    \/ \E n \in SecretNames, content \in SecretEdits : EditSecret(n, content)
    \/ \E n \in Revocable : ChangeAccess(n)
    \/ \E s \in ScanSpecs : EditScan(s)
    \/ DeleteScan \/ DeleteRun

Next ==
    \/ PlatformReconcile \/ Fire \/ gcOldRuns \/ RunStep \/ Crash
    \/ SyncPlatform \/ SyncScan \/ SyncRun \/ JobEnds \/ CollectChildren \/ CollectRun
    \/ User

(* The goroutine goes on, watches deliver, pods end, the garbage collector       *)
(* does its work.                                                                *)
Fairness ==
    /\ WF_vars(RunStep) /\ WF_vars(SyncRun) /\ WF_vars(JobEnds)
    /\ WF_vars(CollectChildren) /\ WF_vars(CollectRun)

Spec == Init /\ [][Next]_vars
FairSpec == Spec /\ Fairness

-----------------------------------------------------------------------------
Failures == {"client", "unreachable", "discovery", "vanished", "jobFailed"}
Statuses ==
    {NoRun, Gone} \cup {Status(phase, "none") : phase \in Active \cup {"Succeeded"}}
    \cup {Status("Failed", why) : why \in Failures}
PlatformType ==
    [spec : PlatformSpecs, gen : 1..(MaxChanges + 1), ready : Reasons,
     readyGen : 0..(MaxChanges + 1), sound : BOOLEAN]
ScanType == [exists : BOOLEAN, spec : ScanSpecs]
Owners == {"scan", "run"}
RunSpecs == [owner : Owners, platformSnapshot : PlatformSpecs, scanSnapshot : ScanSpecs]

TypeOK ==
    /\ platform \in PlatformType /\ platformCache \in PlatformType
    /\ secret \in [SecretNames -> Contents] /\ refused \subseteq SecretNames
    /\ scan \in ScanType /\ scanCache \in ScanType
    /\ run \in Statuses /\ runCache \in Statuses
    /\ IF run = NoRun THEN runSpec = None ELSE runSpec \in RunSpecs
    /\ mirror \in [owner : Owners, tokenOf : SecretNames] \cup {None}
    /\ shards \in [owner : Owners] \cup {None}
    /\ job # None => job.owner \in Owners /\ job.state \in {"active", "succeeded", "failed"}
    /\ pc \in {"idle", "authenticate", "mirror", "discover", "job", "observe", "update"}
    /\ base \in Statuses /\ copy \in Statuses
    /\ faults \in 0..MaxFaults /\ changes \in 0..MaxChanges
    /\ vouched \in BOOLEAN

(* What a worker must be told.  Every layer that says something about a variable *)
(* or a key, the strongest first.                                                *)
Strongest(layers) == layers[SelectInSeq(layers, LAMBDA v : v # <<>>)]
Says(object, key) == IF key \in DOMAIN object THEN <<object[key]>> ELSE <<>>
Given(level) == IF level = "" THEN <<>> ELSE <<level>>

ConfigFollows(config, plat, sc) ==
    /\ \A key \in (DOMAIN plat.runnerConfig \cup DOMAIN sc.renovateConfigOverrides) \ {"extends"} :
        Says(config, key) =
            Strongest(<<Says(sc.renovateConfigOverrides, key), Says(plat.runnerConfig, key)>>)
    /\ plat.presetRepoRef # "" => Head(config["extends"].items) = plat.presetRepoRef
    /\ LET said == Strongest(<<Says(sc.renovateConfigOverrides, "extends"),
                               Says(plat.runnerConfig, "extends"), <<List(<<>>)>> >>)[1]
       IN  said.list /\ said.items # <<>> => IsSuffix(said.items, config["extends"].items)

FollowsSnapshot(sees, plat, sc) ==
    LET named == {sc.extraEnv[k].name : k \in DOMAIN sc.extraEnv}
    IN
    /\ sees["RENOVATE_REPOSITORIES"] = Text("shard")
    /\ \A k \in DOMAIN sc.extraEnv :
        \/ sc.extraEnv[k].name = "RENOVATE_REPOSITORIES"
        \/ \E later \in (k + 1)..Len(sc.extraEnv) : sc.extraEnv[later].name = sc.extraEnv[k].name
        \/ sees[sc.extraEnv[k].name] = sc.extraEnv[k].value
    /\ "RENOVATE_PLATFORM" \notin named => sees["RENOVATE_PLATFORM"] = Text(plat.platformType)
    /\ "LOG_LEVEL" \notin named =>
        sees["LOG_LEVEL"] = Text(Strongest(<<Given(sc.logLevel), Given(plat.logLevel), <<"info">> >>)[1])
    /\ "RENOVATE_CONFIG" \notin named =>
        ConfigFollows(IF "RENOVATE_CONFIG" \in DOMAIN sees THEN sees["RENOVATE_CONFIG"] ELSE <<>>,
                      plat, sc)

(* "Once a Run exists, editing the Platform or Scan does not retroactively change *)
(* in-flight behavior": whatever is edited between the fire and the Job, and      *)
(* however often the dispatch is retried, the workers run with the layers of the   *)
(* snapshots, the Scan's over the Platform's and the user's extraEnv over both,    *)
(* on the token of the Secret the snapshot refers to, and the repositories of      *)
(* their shard.                                                                    *)
JobRunsItsSnapshot ==
    job # None =>
        /\ FollowsSnapshot(WorkerSees(job.env), Snapshot, runSpec.scanSnapshot)
        /\ mirror # None => mirror.tokenOf = Snapshot.ref

(* What the Platform controller accepts and the client factory refuses: a GitHub   *)
(* token, a key that is not RSA, a token of several lines, and a base URL that no   *)
(* one but the factory looks at.                                                    *)
Misjudged(s, content) ==
    \/ s.platformType = "github" /\ s.auth = "token"
    \/ s.auth = "githubApp" /\ content = "otherKey"
    \/ s.auth = "token" /\ content \in {"rsaKey", "otherKey"}
    \/ s.baseURL = NotAURL

(* Ready is worth what the validation is worth: a Run whose client cannot be made  *)
(* was fired on a Ready found for an older generation of the spec, which the Scan   *)
(* does not compare, or its Secret has been edited since, or its credentials are    *)
(* of those that validation and factory judge differently.                          *)
RefusedForAReason ==
    run.failure = "client" /\ vouched => Misjudged(Snapshot, secret[Snapshot.ref])

(* "Secret resolved, key validated, ready for use": a Run fired on a Ready that was  *)
(* found for the spec it copied, with the Secret as it was then, gets its client.   *)
ReadyIsUsable == run.failure = "client" => ~ vouched

(* "Deleting a Scan cascades to all its Runs", and a Run's deletion to its Job,    *)
(* ConfigMap and Secret, for good: also when a reconcile in progress or a stale    *)
(* cache creates one more of them after the owner is gone.                         *)
DeletionCascades ==
    <>[](/\ run = Gone => mirror = None /\ shards = None /\ job = None
         /\ ~ scan.exists => run \in {NoRun, Gone})

(* What no retry can mend.  The first happens to a healthy Platform: its secretRef *)
(* moves on, the old Secret is deleted, and the Run in flight still looks for it.   *)
Hopeless ==
    \/ secret[Snapshot.ref] = "absent"
    \/ Snapshot.auth = "githubApp" /\ Refused
    \/ ~ ShardsCanBe(runSpec.scanSnapshot)
    \/ ~ JobCanBe(runSpec.scanSnapshot)

=============================================================================
