----------------------- MODULE RenovatePlatformProofs -----------------------
(* Proofs about RenovatePlatform, for any Platforms, Secrets and admitted specs *)
(* and every number of edits, failing calls and crashes.                       *)
EXTENDS RenovatePlatform, TLAPS

-----------------------------------------------------------------------------
(* The inductive invariant.                                                    *)

(* Each edit of a Platform raises its generation by one.                       *)
GenerationsCountEdits == \A p \in Platforms : generation[p] <= changes + 1

(* What a Secret holds, or is cached to hold, it has held.                     *)
SecretsWereHeld ==
    \A n \in SecretNames : {secret[n], secretCache[n]} \ {"absent"} \subseteq held[n]

(* A cached Platform is an earlier one: the current one if its generation is.  *)
CachedGenerations ==
    \A p \in Platforms :
        /\ genCache[p] <= generation[p]
        /\ genCache[p] = generation[p] => specCache[p] = spec[p]

(* A Ready condition that claims to be fresh has well-formed credentials behind it.   *)
Earned(p, st) ==
    /\ st.readyGen <= generation[p]
    /\ st.ready = "CredentialsResolved" /\ st.readyGen = generation[p] =>
          \E c \in held[spec[p].ref] : WellFormed(spec[p], c)

(* That goes for the condition in the API server, in the cache and in memory,  *)
(* since each may become the next one of the API server.                       *)
ConditionsAreEarned ==
    /\ \A p \in Platforms : Earned(p, status[p]) /\ Earned(p, statusCache[p])
    /\ pc = "update" => Earned(cur, copy)

Inv ==
    /\ TypeOK
    /\ GenerationsCountEdits
    /\ SecretsWereHeld
    /\ CachedGenerations
    /\ ConditionsAreEarned

-----------------------------------------------------------------------------
(* Lemmas on the operators.                                                    *)

(* A status nobody has written is well formed, and claims nothing.             *)
LEMMA NewStatusType == NewStatus \in StatusType /\ NewStatus.readyGen = 0
                       /\ NewStatus.ready # "CredentialsResolved"
  BY LimitsAssumption DEF LimitsAssumption, NewStatus, StatusType, Reasons, Generations

(* An admitted spec refers to a Secret of the namespace.                       *)
LEMMA SpecsRefer == \A s \in Specs : s.ref \in SecretNames
  BY SpecsAssumption DEF SpecsAssumption, AuthType

(* Conclusion gives a reason, and finds credentials resolved only if the Secret *)
(* holds well-formed ones.                                                          *)
LEMMA ConclusionIsSound ==
    ASSUME NEW s, NEW secrets, secrets[s.ref] \in Contents
    PROVE  /\ Conclusion(s, secrets) \in Reasons
           /\ Conclusion(s, secrets) = "CredentialsResolved" =>
                  secrets[s.ref] # "absent" /\ WellFormed(s, secrets[s.ref])
  BY DEF Conclusion, Contents, Reasons, validateAuthMaterial, WellFormed

(* A fault is counted, and MaxFaults bounds the count.                         *)
LEMMA FaultsStayBounded ==
    ASSUME faults \in 0..MaxFaults, Fault \/ NoFault
    PROVE  faults' \in 0..MaxFaults
  BY LimitsAssumption DEF LimitsAssumption, Fault, NoFault

-----------------------------------------------------------------------------
(* Platforms nobody has looked at yet have the invariant.                      *)
LEMMA InitInv == Init => Inv
  <1> SUFFICES ASSUME Init PROVE Inv
    OBVIOUS
  <1> USE LimitsAssumption DEF Init, LimitsAssumption
  <1>1. TypeOK
    <2>1. /\ status \in [Platforms -> StatusType] /\ statusCache \in [Platforms -> StatusType]
          /\ copy \in StatusType
      BY NewStatusType
    <2>2. /\ generation \in [Platforms -> 1..(MaxChanges + 1)]
          /\ genCache \in [Platforms -> 1..(MaxChanges + 1)]
          /\ faults \in 0..MaxFaults /\ changes \in 0..MaxChanges
      OBVIOUS
    <2>3. /\ secret \in [SecretNames -> Contents] /\ secretCache \in [SecretNames -> Contents]
          /\ held \in [SecretNames -> SUBSET Contents]
      BY DEF Contents
    <2> QED
      BY <2>1, <2>2, <2>3 DEF TypeOK
  <1>2. GenerationsCountEdits /\ SecretsWereHeld /\ CachedGenerations
    BY DEF GenerationsCountEdits, SecretsWereHeld, CachedGenerations
  <1>3. ConditionsAreEarned
    BY NewStatusType DEF ConditionsAreEarned, Earned
  <1> QED
    BY <1>1, <1>2, <1>3 DEF Inv

-----------------------------------------------------------------------------
(* Every action keeps the invariant.                                           *)

(* A step that leaves Platforms, Secrets and the caches alone keeps what the   *)
(* invariant says of them.                                                     *)
LEMMA WorldKeepsInv ==
    ASSUME Inv, UNCHANGED <<spec, generation, status, secret, cacheVars, changes, held>>,
           TypeOK', (pc = "update" => Earned(cur, copy))'
    PROVE  Inv'
  <1> USE DEF cacheVars
  <1>1. (GenerationsCountEdits /\ SecretsWereHeld /\ CachedGenerations)'
    BY DEF Inv, GenerationsCountEdits, SecretsWereHeld, CachedGenerations
  <1>2. ConditionsAreEarned'
    BY DEF Inv, ConditionsAreEarned, Earned
  <1> QED
    BY <1>1, <1>2 DEF Inv

(* Reconcile: a conclusion is stamped with the generation of the spec it was    *)
(* drawn from; an error keeps the condition and its stamp.                      *)
LEMMA ReconcileKeepsInv ==
    ASSUME Inv, NEW p \in Platforms, Reconcile(p)
    PROVE  Inv'
  <1> DEFINE conclusion == Conclusion(specCache[p], secretCache)
             n == specCache[p].ref
  <1>1. n \in SecretNames /\ secretCache[n] \in Contents
    BY SpecsRefer DEF Inv, TypeOK
  <1>2. /\ conclusion \in Reasons
        /\ conclusion = "CredentialsResolved" =>
              secretCache[n] # "absent" /\ WellFormed(specCache[p], secretCache[n])
    BY <1>1, ConclusionIsSound
  <1>3. /\ genCache[p] \in 1..(MaxChanges + 1) /\ genCache[p] \in Generations
        /\ statusCache[p] \in StatusType
    BY DEF Inv, TypeOK, Generations
  <1> HIDE DEF conclusion
  <1>4. copy' \in StatusType /\ result' \in {"done", "later", "error"}
    BY <1>2, <1>3 DEF Reconcile, conclusion, AfterError, StatusType
  <1>5. faults' \in 0..MaxFaults
    BY FaultsStayBounded DEF Inv, TypeOK, Reconcile
  <1>6. TypeOK'
    BY <1>4, <1>5 DEF Inv, TypeOK, Reconcile, platformVars, cacheVars
  <1>7. Earned(cur, copy)'
    <2>1. CASE copy' = [ready |-> conclusion, readyGen |-> genCache[p], observed |-> genCache[p]]
      <3>1. copy'.ready = conclusion /\ copy'.readyGen = genCache[p]
        BY <2>1
      <3>2. genCache[p] <= generation[p] /\ (genCache[p] = generation[p] => specCache[p] = spec[p])
        BY DEF Inv, CachedGenerations
      <3>3. conclusion = "CredentialsResolved" => secretCache[n] \in held[n]
        BY <1>1, <1>2 DEF Inv, SecretsWereHeld
      <3> QED
        BY <1>2, <3>1, <3>2, <3>3 DEF Reconcile, Earned, platformVars
    <2>2. CASE copy' = AfterError(p)
      <3>1. copy'.ready = statusCache[p].ready /\ copy'.readyGen = statusCache[p].readyGen
        BY <1>3, <2>2 DEF AfterError, StatusType
      <3> QED
        BY <3>1 DEF Inv, ConditionsAreEarned, Reconcile, Earned, platformVars
    <2> QED
      BY <2>1, <2>2 DEF Reconcile, conclusion
  <1> QED
    BY <1>6, <1>7, WorldKeepsInv DEF Reconcile, platformVars

(* UpdateStatus puts the condition in memory into the API server.               *)
LEMMA UpdateKeepsInv ==
    ASSUME Inv, UpdateStatus
    PROVE  Inv'
  <1>1. cur \in Platforms /\ copy \in StatusType /\ Earned(cur, copy)
    BY ObjectsAssumption DEF ObjectsAssumption, UpdateStatus, Inv, TypeOK, ConditionsAreEarned
  <1>2. status' = [status EXCEPT ![cur] = copy] \/ status' = status
    BY DEF UpdateStatus
  <1>3. synced' = [synced EXCEPT ![cur] = @ /\ copy = status[cur]] \/ synced' = synced
    BY DEF UpdateStatus
  <1>4. \E again, later \in SUBSET Platforms : Finish(again, later)
    <2>1. {} \in SUBSET Platforms /\ {cur} \in SUBSET Platforms
      BY <1>1
    <2> QED
      BY <2>1 DEF UpdateStatus
  <1>5. faults' \in 0..MaxFaults
    BY FaultsStayBounded DEF Inv, TypeOK, UpdateStatus
  <1>6. TypeOK'
    <2>1. status' \in [Platforms -> StatusType]
      BY <1>1, <1>2 DEF Inv, TypeOK
    <2>2. synced' \in [Platforms -> BOOLEAN]
      BY <1>1, <1>3 DEF Inv, TypeOK
    <2>3. /\ queue' \subseteq Platforms /\ delayed' \subseteq Platforms
          /\ pc' = "idle" /\ cur' = NoObject /\ copy' = NewStatus /\ current' = FALSE
          /\ result' = "done"
      BY <1>4 DEF Inv, TypeOK, Finish
    <2> QED
      BY <1>5, <2>1, <2>2, <2>3, NewStatusType DEF Inv, TypeOK, UpdateStatus, cacheVars
  <1>7. (GenerationsCountEdits /\ SecretsWereHeld /\ CachedGenerations)'
    BY DEF Inv, GenerationsCountEdits, SecretsWereHeld, CachedGenerations, UpdateStatus, cacheVars
  <1>8. ConditionsAreEarned'
    <2>1. pc' = "idle"
      BY <1>4 DEF Finish
    <2>2. \A p \in Platforms : status'[p] = status[p] \/ (p = cur /\ status'[p] = copy)
      BY <1>1, <1>2 DEF Inv, TypeOK
    <2> QED
      BY <1>1, <2>1, <2>2 DEF Inv, ConditionsAreEarned, Earned, UpdateStatus, cacheVars
  <1> QED
    BY <1>6, <1>7, <1>8 DEF Inv

(* A successor that lists everything has no old copies.                          *)
LEMMA CrashKeepsInv ==
    ASSUME Inv, Crash
    PROVE  Inv'
  <1>1. faults' \in 0..MaxFaults
    BY FaultsStayBounded DEF Inv, TypeOK, Crash
  <1>2. TypeOK'
    BY <1>1, NewStatusType DEF Inv, TypeOK, Crash, platformVars
  <1>3. (GenerationsCountEdits /\ SecretsWereHeld /\ CachedGenerations)'
    BY DEF Inv, TypeOK, GenerationsCountEdits, SecretsWereHeld, CachedGenerations, Crash, platformVars
  <1>4. ConditionsAreEarned'
    BY DEF Inv, ConditionsAreEarned, Earned, Crash, platformVars
  <1> QED
    BY <1>2, <1>3, <1>4 DEF Inv

(* A timer only queues.                                                          *)
LEMMA TimerKeepsInv ==
    ASSUME Inv, NEW p \in Platforms, Timer(p)
    PROVE  Inv'
  <1>1. TypeOK'
    BY DEF Inv, TypeOK, Timer, platformVars, cacheVars, reconcileVars
  <1>2. (pc = "update" => Earned(cur, copy))'
    BY DEF Inv, ConditionsAreEarned, Earned, Timer, platformVars, reconcileVars
  <1> QED
    BY <1>1, <1>2, WorldKeepsInv DEF Timer, platformVars

(* The cache takes the Platform over whole: spec, generation and status.         *)
LEMMA SyncPlatformKeepsInv ==
    ASSUME Inv, NEW p \in Platforms, SyncPlatform(p)
    PROVE  Inv'
  <1> USE DEF SyncPlatform, platformVars, reconcileVars
  <1>1. TypeOK'
    BY DEF Inv, TypeOK
  <1>2. (GenerationsCountEdits /\ SecretsWereHeld)'
    BY DEF Inv, GenerationsCountEdits, SecretsWereHeld
  <1>3. CachedGenerations'
    BY DEF Inv, TypeOK, CachedGenerations
  <1>4. ConditionsAreEarned'
    BY DEF Inv, TypeOK, ConditionsAreEarned, Earned
  <1> QED
    BY <1>1, <1>2, <1>3, <1>4 DEF Inv

(* The cache takes a Secret over.                                                *)
LEMMA SyncSecretKeepsInv ==
    ASSUME Inv, NEW n \in SecretNames, SyncSecret(n)
    PROVE  Inv'
  <1> USE DEF SyncSecret, platformVars, reconcileVars
  <1>1. TypeOK'
    BY DEF Inv, TypeOK, platformsForSecret
  <1>2. (GenerationsCountEdits /\ CachedGenerations)'
    BY DEF Inv, GenerationsCountEdits, CachedGenerations
  <1>3. SecretsWereHeld'
    BY DEF Inv, TypeOK, SecretsWereHeld
  <1>4. ConditionsAreEarned'
    BY DEF Inv, ConditionsAreEarned, Earned
  <1> QED
    BY <1>1, <1>2, <1>3, <1>4 DEF Inv

(* An edit makes every condition found so far one of an older generation.        *)
LEMMA EditPlatformKeepsInv ==
    ASSUME Inv, NEW p \in Platforms, NEW s \in Specs, EditPlatform(p, s)
    PROVE  Inv'
  <1> USE DEF EditPlatform, Change, cacheVars
  <1>1. changes \in 0..MaxChanges /\ changes < MaxChanges /\ changes' = changes + 1
    BY DEF Inv, TypeOK
  <1>2. \A q \in Platforms :
            /\ generation[q] \in Nat /\ generation[q] <= changes + 1 /\ generation[q] > 0
            /\ generation'[q] = IF q = p THEN generation[q] + 1 ELSE generation[q]
            /\ q # p => spec'[q] = spec[q]
    BY DEF Inv, TypeOK, GenerationsCountEdits
  <1>3. TypeOK'
    <2>1. changes' \in 0..MaxChanges
      BY <1>1, LimitsAssumption DEF LimitsAssumption
    <2>2. generation' \in [Platforms -> 1..(MaxChanges + 1)]
      BY <1>1, <1>2, LimitsAssumption DEF LimitsAssumption, Inv, TypeOK
    <2> QED
      BY <2>1, <2>2 DEF Inv, TypeOK
  <1>4. GenerationsCountEdits'
    BY <1>1, <1>2 DEF GenerationsCountEdits
  <1>5. SecretsWereHeld'
    BY DEF Inv, SecretsWereHeld
  <1>6. CachedGenerations'
    BY <1>2 DEF Inv, TypeOK, CachedGenerations
  <1>7. ASSUME NEW q \in Platforms, NEW st \in StatusType, Earned(q, st)
        PROVE  Earned(q, st)'
    BY <1>2, <1>7 DEF Earned, StatusType, Generations
  <1>8. ConditionsAreEarned'
    <2>1. \A q \in Platforms : Earned(q, status[q])' /\ Earned(q, statusCache[q])'
      BY <1>7 DEF Inv, TypeOK, ConditionsAreEarned
    <2>2. pc' = "update" => Earned(cur, copy)'
      BY <1>7, ObjectsAssumption DEF ObjectsAssumption, Inv, TypeOK, ConditionsAreEarned
    <2> QED
      BY <2>1, <2>2 DEF ConditionsAreEarned
  <1> QED
    BY <1>3, <1>4, <1>5, <1>6, <1>8 DEF Inv

(* A Secret that is edited has held what it now holds, and all it held before.   *)
LEMMA EditSecretKeepsInv ==
    ASSUME Inv, NEW n \in SecretNames, NEW content \in Contents, EditSecret(n, content)
    PROVE  Inv'
  <1> USE DEF EditSecret, Change, platformVars, cacheVars, reconcileVars
  <1>1. changes' \in 0..MaxChanges /\ changes' = changes + 1
    BY LimitsAssumption DEF LimitsAssumption, Inv, TypeOK
  <1>2. TypeOK'
    BY <1>1 DEF Inv, TypeOK
  <1>3. (GenerationsCountEdits /\ CachedGenerations)'
    BY <1>1 DEF Inv, TypeOK, GenerationsCountEdits, CachedGenerations
  <1>4. SecretsWereHeld'
    BY DEF Inv, TypeOK, SecretsWereHeld
  <1>5. \A m \in SecretNames : held[m] \subseteq held'[m]
    BY DEF Inv, TypeOK
  <1>6. \A p \in Platforms : spec[p].ref \in SecretNames
    BY SpecsRefer DEF Inv, TypeOK
  <1>7. ASSUME NEW p \in Platforms, NEW st, Earned(p, st)
        PROVE  Earned(p, st)'
    BY <1>5, <1>6, <1>7 DEF Earned
  <1>8. ConditionsAreEarned'
    <2>1. \A q \in Platforms : Earned(q, status[q])' /\ Earned(q, statusCache[q])'
      BY <1>7 DEF Inv, ConditionsAreEarned
    <2>2. pc' = "update" => Earned(cur, copy)'
      BY <1>7, ObjectsAssumption DEF ObjectsAssumption, Inv, TypeOK, ConditionsAreEarned
    <2> QED
      BY <2>1, <2>2 DEF ConditionsAreEarned
  <1> QED
    BY <1>2, <1>3, <1>4, <1>8 DEF Inv

-----------------------------------------------------------------------------
(* One lemma per action makes every step keep the invariant.                     *)
LEMMA NextInv == Inv /\ [Next]_vars => Inv'
  <1> SUFFICES ASSUME Inv, [Next]_vars PROVE Inv'
    OBVIOUS
  <1>1. CASE UNCHANGED vars
    <2> USE <1>1 DEF vars, platformVars, cacheVars, reconcileVars
    <2>1. TypeOK'
      BY DEF Inv, TypeOK
    <2>2. (pc = "update" => Earned(cur, copy))'
      BY DEF Inv, ConditionsAreEarned, Earned
    <2> QED
      BY <2>1, <2>2, WorldKeepsInv
  <1>2. CASE ReconcileStep
    BY <1>2, ReconcileKeepsInv, UpdateKeepsInv DEF ReconcileStep
  <1>3. CASE Crash
    BY <1>3, CrashKeepsInv
  <1>4. CASE \E p \in Platforms : Timer(p) \/ SyncPlatform(p) \/ \E s \in Specs : EditPlatform(p, s)
    BY <1>4, TimerKeepsInv, SyncPlatformKeepsInv, EditPlatformKeepsInv
  <1>5. CASE \E n \in SecretNames : SyncSecret(n) \/ \E content \in Contents : EditSecret(n, content)
    BY <1>5, SyncSecretKeepsInv, EditSecretKeepsInv
  <1> QED
    BY <1>1, <1>2, <1>3, <1>4, <1>5 DEF Next

(* The inductive invariant holds in every reachable state: each Ready condition,  *)
(* stored, cached or about to be written, is behind the Platform's generation or   *)
(* has well-formed credentials behind it.                                                 *)
THEOREM InvHolds == Spec => []Inv
  <1> QED
    BY InitInv, NextInv, PTL DEF Spec

(* The types of the objects, the caches and the reconcile in progress.             *)
THEOREM TypeCorrect == Spec => []TypeOK
  <1>1. Inv => TypeOK
    BY DEF Inv
  <1> QED
    BY <1>1, InvHolds, PTL

(* A Ready stamped with the current generation was found for the current spec,     *)
(* whose Secret has held good credentials: however reads fail, writes conflict,     *)
(* caches lag and the process crashes, reconcile never passes an old Ready off as   *)
(* fresh.                                                                           *)
THEOREM ReadyIsEarned == Spec => []ReadyWasEarned
  <1>1. Inv => ReadyWasEarned
    BY DEF Inv, ConditionsAreEarned, Earned, ReadyWasEarned
  <1> QED
    BY <1>1, InvHolds, PTL
=============================================================================
