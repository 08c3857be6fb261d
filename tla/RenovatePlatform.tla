-------------------------- MODULE RenovatePlatform --------------------------
(***************************************************************************)
(* The RenovatePlatform controller                                           *)
(* (internal/controller/renovateplatform_controller.go): it keeps the Ready   *)
(* condition of each Platform in line with the credential Secret that the     *)
(* Platform refers to, while users edit both.  Scans fire only for a Platform *)
(* that is Ready.  Platforms and Secrets are read from informer caches that   *)
(* lag; the status is written once, at the end of a reconcile.                *)
(***************************************************************************)
EXTENDS PlatformAuth

CONSTANTS
    Platforms,      \* the RenovatePlatform objects
    Specs,          \* specs that pass admission and that users choose from
    NoObject,       \* no Platform
    MaxFaults,      \* bound on failing calls and crashes
    MaxChanges      \* bound on edits of Platforms and Secrets

ASSUME ObjectsAssumption == NoObject \notin Platforms
ASSUME SpecsAssumption == Specs \subseteq AuthType
ASSUME LimitsAssumption == MaxFaults \in Nat /\ MaxChanges \in Nat

VARIABLES
    \* --- the API server
    spec, generation,      \* of each Platform
    status,                \* of each Platform: see NewStatus
    secret,                \* what each Secret holds under the key referred to
    \* --- the informer caches
    specCache, genCache, statusCache, secretCache,
    synced,       \* does the cached Platform carry the current resourceVersion?
    \* --- the controller process
    queue,        \* Platforms waiting to be reconciled
    delayed,      \* Platforms with a RequeueAfter pending
    pc, cur, copy, current, result,
    \* --- bounds and history
    faults, changes,
    held          \* what each Secret has ever held

platformVars == <<spec, generation, status>>
cacheVars == <<specCache, genCache, statusCache, secretCache>>
reconcileVars == <<pc, cur, copy, current, result>>
vars == <<platformVars, secret, cacheVars, synced, queue, delayed, reconcileVars, faults, changes, held>>

-----------------------------------------------------------------------------
(* The reason of the Ready condition, the condition's own observedGeneration   *)
(* and the status's.                                                           *)
NewStatus == [ready |-> "Unknown", readyGen |-> 0, observed |-> 0]

Init ==
    /\ spec \in [Platforms -> Specs]
    /\ generation = [p \in Platforms |-> 1]
    /\ status = [p \in Platforms |-> NewStatus]
    /\ secret = [n \in SecretNames |-> "absent"]
    /\ specCache = spec /\ genCache = generation /\ statusCache = status
    /\ secretCache = secret
    /\ synced = [p \in Platforms |-> TRUE]
    /\ queue = Platforms /\ delayed = {}
    /\ pc = "idle" /\ cur = NoObject /\ copy = NewStatus /\ current = FALSE /\ result = "done"
    /\ faults = 0 /\ changes = 0
    /\ held = [n \in SecretNames |-> {}]

Fault == faults < MaxFaults /\ faults' = faults + 1
NoFault == UNCHANGED faults

-----------------------------------------------------------------------------
(* Slip: an error, too, stamps the condition with the generation.             *)
AfterErrorStamped(p) ==
    [statusCache[p] EXCEPT !.observed = genCache[p], !.readyGen = genCache[p]]

(* After an error the condition stays, stamped with the generation it was      *)
(* found for; the status's observedGeneration has moved on.                    *)
AfterError(p) == [statusCache[p] EXCEPT !.observed = genCache[p]]

(* Reconcile reads Platform and Secret and concludes; a missing Secret or key  *)
(* is looked for again after a minute, anything else waits for an event.       *)
Reconcile(p) ==
    LET conclusion == Conclusion(specCache[p], secretCache)
    IN
    /\ pc = "idle" /\ p \in queue
    /\ queue' = queue \ {p}
    /\ pc' = "update" /\ cur' = p /\ current' = synced[p]
    /\ \/ /\ copy' = [ready |-> conclusion, readyGen |-> genCache[p], observed |-> genCache[p]]
          /\ result' = IF conclusion \in {"SecretNotFound", "KeyMissing"} THEN "later" ELSE "done"
          /\ NoFault
       \/ /\ Fault             \* the Secret cannot be read
          /\ copy' = AfterError(p)
          /\ result' = "error"
    /\ UNCHANGED <<platformVars, secret, cacheVars, synced, delayed, changes, held>>

(* Slip: the request and its copy survive the reconcile.                      *)
FinishKeepsRequest(again, later) ==
    /\ queue' = queue \cup again
    /\ delayed' = delayed \cup later
    /\ pc' = "idle" /\ result' = "done" /\ UNCHANGED <<cur, copy, current>>

Finish(again, later) ==
    /\ queue' = queue \cup again
    /\ delayed' = delayed \cup later
    /\ pc' = "idle" /\ cur' = NoObject /\ copy' = NewStatus /\ current' = FALSE
    /\ result' = "done"

(* Status().Update: refused for a stale resourceVersion, which comes back      *)
(* after a second; without effect when nothing changed.                        *)
UpdateStatus ==
    /\ pc = "update"
    /\ \/ /\ current /\ NoFault
          /\ status' = [status EXCEPT ![cur] = copy]
          /\ synced' = [synced EXCEPT ![cur] = @ /\ copy = status[cur]]
          /\ Finish(IF result = "error" THEN {cur} ELSE {}, IF result = "later" THEN {cur} ELSE {})
       \/ ~ current /\ NoFault /\ Finish({}, {cur}) /\ UNCHANGED <<status, synced>>
       \/ Fault /\ Finish({cur}, {}) /\ UNCHANGED <<status, synced>>
    /\ UNCHANGED <<spec, generation, secret, cacheVars, changes, held>>

Crash ==
    /\ Fault
    /\ specCache' = spec /\ genCache' = generation /\ statusCache' = status
    /\ secretCache' = secret
    /\ synced' = [p \in Platforms |-> TRUE]
    /\ queue' = Platforms /\ delayed' = {}
    /\ pc' = "idle" /\ cur' = NoObject /\ copy' = NewStatus /\ current' = FALSE
    /\ result' = "done"
    /\ UNCHANGED <<platformVars, secret, changes, held>>

-----------------------------------------------------------------------------
(* What wakes the controller.                                                  *)

Timer(p) ==
    /\ p \in delayed
    /\ delayed' = delayed \ {p} /\ queue' = queue \cup {p}
    /\ UNCHANGED <<platformVars, secret, cacheVars, synced, reconcileVars, faults, changes, held>>

SyncPlatform(p) ==
    /\ ~ synced[p]
    /\ specCache' = [specCache EXCEPT ![p] = spec[p]]
    /\ genCache' = [genCache EXCEPT ![p] = generation[p]]
    /\ statusCache' = [statusCache EXCEPT ![p] = status[p]]
    /\ synced' = [synced EXCEPT ![p] = TRUE]
    /\ queue' = queue \cup {p}
    /\ UNCHANGED <<platformVars, secret, secretCache, delayed, reconcileVars, faults, changes, held>>

(* Slip: only auth.token is compared with the Secret's name.                   *)
TokenPlatformsForSecret(n) ==
    {p \in Platforms : specCache[p].auth = "token" /\ specCache[p].ref = n}

(* The Platforms that refer to a Secret, as the cache has them.  That List also *)
(* gives up on an error, which a read from a running cache does not have.      *)
platformsForSecret(n) == {p \in Platforms : specCache[p].ref = n}

SyncSecret(n) ==
    /\ secretCache[n] # secret[n]
    /\ secretCache' = [secretCache EXCEPT ![n] = secret[n]]
    /\ queue' = queue \cup platformsForSecret(n)
    /\ UNCHANGED <<platformVars, secret, specCache, genCache, statusCache, synced, delayed,
                   reconcileVars, faults, changes, held>>

-----------------------------------------------------------------------------
(* Users.                                                                      *)

Change == changes < MaxChanges /\ changes' = changes + 1

EditPlatform(p, s) ==
    /\ Change /\ s # spec[p]
    /\ spec' = [spec EXCEPT ![p] = s]
    /\ generation' = [generation EXCEPT ![p] = @ + 1]
    /\ synced' = [synced EXCEPT ![p] = FALSE]
    /\ current' = (current /\ cur # p)
    /\ UNCHANGED <<status, secret, cacheVars, queue, delayed, pc, cur, copy, result, faults, held>>

EditSecret(n, content) ==
    /\ Change /\ content # secret[n]
    /\ secret' = [secret EXCEPT ![n] = content]
    /\ held' = [held EXCEPT ![n] = @ \cup {content}]
    /\ UNCHANGED <<platformVars, cacheVars, synced, queue, delayed, reconcileVars, faults>>

ReconcileStep == (\E p \in Platforms : Reconcile(p)) \/ UpdateStatus

Next ==
    \/ ReconcileStep \/ Crash
    \/ \E p \in Platforms : Timer(p) \/ SyncPlatform(p) \/ \E s \in Specs : EditPlatform(p, s)
    \/ \E n \in SecretNames : SyncSecret(n) \/ \E content \in Contents : EditSecret(n, content)

(* The work queue is first in, first out; timers fire and watches deliver.     *)
Fairness ==
    /\ WF_vars(ReconcileStep)
    /\ \A p \in Platforms : SF_vars(Reconcile(p)) /\ WF_vars(Timer(p)) /\ WF_vars(SyncPlatform(p))
    /\ \A n \in SecretNames : WF_vars(SyncSecret(n))

Spec == Init /\ [][Next]_vars
FairSpec == Spec /\ Fairness

-----------------------------------------------------------------------------
Generations == 0..(MaxChanges + 1)
StatusType == [ready : Reasons, readyGen : Generations, observed : Generations]

TypeOK ==
    /\ spec \in [Platforms -> Specs] /\ specCache \in [Platforms -> Specs]
    /\ generation \in [Platforms -> 1..(MaxChanges + 1)]
    /\ genCache \in [Platforms -> 1..(MaxChanges + 1)]
    /\ status \in [Platforms -> StatusType] /\ statusCache \in [Platforms -> StatusType]
    /\ secret \in [SecretNames -> Contents] /\ secretCache \in [SecretNames -> Contents]
    /\ synced \in [Platforms -> BOOLEAN]
    /\ queue \subseteq Platforms /\ delayed \subseteq Platforms
    /\ \/ pc = "idle" /\ cur = NoObject
       \/ pc = "update" /\ cur \in Platforms
    /\ copy \in StatusType /\ current \in BOOLEAN /\ result \in {"done", "later", "error"}
    /\ faults \in 0..MaxFaults /\ changes \in 0..MaxChanges
    /\ held \in [SecretNames -> SUBSET Contents]

(* Credentials in the form their kind of auth asks for: a token is any text, an *)
(* App's key is PEM.                                                            *)
WellFormed(s, content) ==
    content \in {"rsaKey", "otherKey"} \/ (s.auth # "githubApp" /\ content = "text")

(* Ready follows the credentials: once users stop, every Platform comes to be   *)
(* Ready, for its current generation, exactly if its Secret is well-formed, though*)
(* most outcomes ask for no requeue and rely on an event that may be mapped to   *)
(* Platforms through a stale cache, or meet a conflict or a crash.               *)
ReadyConverges ==
    <>[](\A p \in Platforms :
            /\ status[p].readyGen = generation[p]
            /\ status[p].ready = "CredentialsResolved" <=>
                  WellFormed(spec[p], secret[spec[p].ref]))

(* "ObservedGeneration is set on every Set call so consumers can tell whether    *)
(* the current condition is fresh": a Ready stamped with the current generation   *)
(* was found for the current spec, whose Secret has held well-formed ones.  A     *)
(* failed read, a conflict or a crash never passes an old Ready off as fresh.     *)
ReadyWasEarned ==
    \A p \in Platforms :
        status[p].ready = "CredentialsResolved" /\ status[p].readyGen = generation[p] =>
            \E c \in held[spec[p].ref] : WellFormed(spec[p], c)
=============================================================================
