------------------------- MODULE RenovateScanProofs -------------------------
(* Proofs about RenovateScan, for every schedule, every history limit and every *)
(* number of Runs, edits, failing calls and crashes.                           *)
EXTENDS RenovateScan, OrderLemmas

-----------------------------------------------------------------------------
(* What the operators of the model compute.                                    *)

(* MaxOf is the greatest of the given times, 0 if there is none.               *)
LEMMA MaxOfIsGreatest ==
    ASSUME NEW S \in SUBSET (1..MaxTime)
    PROVE  /\ S = {} => MaxOf(S) = 0
           /\ S # {} => MaxOf(S) \in S /\ \A t \in S : t <= MaxOf(S)
           /\ MaxOf(S) \in 0..MaxTime
  <1>1. MaxTime \in Nat
    BY ScheduleAssumption DEF ScheduleAssumption
  <1>2. S \in SUBSET Nat /\ \A t \in S : t <= MaxTime
    BY <1>1
  <1>3. S # {} => \E x \in S : \A y \in S : y <= x
    BY <1>1, <1>2, GreatestExists
  <1>4. S # {} => MaxOf(S) \in S /\ \A t \in S : t <= MaxOf(S)
    BY <1>3 DEF MaxOf
  <1>5. S = {} => MaxOf(S) = 0
    BY DEF MaxOf
  <1>6. \A t \in S : t \in 0..MaxTime
    BY <1>1
  <1>7. 0 \in 0..MaxTime
    BY <1>1
  <1> QED
    BY <1>4, <1>5, <1>6, <1>7

(* MinOf is the least of the given times, or the default.                      *)
LEMMA MinOfIsLeast ==
    ASSUME NEW S \in SUBSET (1..MaxTime), NEW default
    PROVE  S # {} => MinOf(S, default) \in S
  <1>1. S # {} => \E x \in S : \A y \in S : x <= y
    BY LeastExists
  <1> QED
    BY <1>1 DEF MinOf

(* The fire time found missed lies after lastRunTime and is the latest so far; *)
(* the next one lies ahead.                                                    *)
LEMMA FireTimes ==
    ASSUME now \in 1..MaxTime, NEW lastRun \in Times
    PROVE  LET times == computeFireTimes(lastRun)
           IN  /\ times.missed \in {0} \cup Fires
               /\ times.missed # 0 => /\ times.missed <= now /\ lastRun < times.missed
                                      /\ \A f \in Fires : f <= now => f <= times.missed
               /\ times.next \in Times /\ times.next > now
  <1> USE ScheduleAssumption, LimitsAssumption DEF ScheduleAssumption, LimitsAssumption
  <1> DEFINE start == IF lastRun # 0 THEN lastRun ELSE now - FirstFireGrace
             due == {f \in Fires : start < f /\ f <= now}
             ahead == {f \in Fires : f > start /\ f > now}
  <1>1. due \in SUBSET (1..MaxTime) /\ ahead \in SUBSET (1..MaxTime)
    OBVIOUS
  <1>2. computeFireTimes(lastRun).missed = MaxOf(due)
        /\ computeFireTimes(lastRun).next = MinOf(ahead, Never)
    BY DEF computeFireTimes
  <1>3. /\ due = {} => MaxOf(due) = 0
        /\ due # {} => MaxOf(due) \in due /\ \A t \in due : t <= MaxOf(due)
    BY <1>1, MaxOfIsGreatest
  <1>4. ahead # {} => MinOf(ahead, Never) \in ahead
    BY <1>1, MinOfIsLeast
  <1>5. start \in Int /\ (lastRun # 0 => start = lastRun)
    BY DEF Times, Never
  <1>6. MinOf(ahead, Never) \in Times /\ MinOf(ahead, Never) > now
    <2>1. CASE ahead = {}
      BY <2>1 DEF MinOf, Never, Times
    <2>2. CASE ahead # {}
      <3>1. MinOf(ahead, Never) \in Fires /\ MinOf(ahead, Never) > now
        BY <1>4, <2>2
      <3>2. \A t \in Fires : t \in Times
        BY DEF Times, Never
      <3> QED
        BY <3>1, <3>2
    <2> QED
      BY <2>1, <2>2
  <1>7. ASSUME MaxOf(due) # 0
        PROVE  /\ MaxOf(due) \in Fires /\ MaxOf(due) <= now /\ lastRun < MaxOf(due)
               /\ \A f \in Fires : f <= now => f <= MaxOf(due)
    <2>1. MaxOf(due) \in due /\ \A t \in due : t <= MaxOf(due)
      BY <1>3, <1>7
    <2>2. MaxOf(due) \in Fires /\ MaxOf(due) <= now /\ start < MaxOf(due)
      BY <2>1
    <2>3. \A f \in Fires : f <= now => f \in due \/ f <= start
      BY <1>5
    <2>4. \A m \in Fires : start < m => lastRun < m /\ \A f \in Fires : f <= start => f <= m
      <3>1. \A m \in Fires : m \in Nat /\ m > 0
        OBVIOUS
      <3> HIDE DEF start
      <3> QED
        BY <1>5, <3>1
    <2> HIDE DEF due, start
    <2> QED
      BY <2>1, <2>2, <2>3, <2>4
  <1> HIDE DEF due, ahead
  <1> QED
    BY <1>2, <1>6, <1>7

(* What a Run can be.                                                          *)
LEMMA RunTypes ==
    ASSUME NEW x \in RunType
    PROVE  /\ x.phase \in {"none", "active"} \cup Terminal
           /\ x.completion \in 0..MaxTime
           /\ x.phase \in Terminal => x.completion \in 1..MaxTime
           /\ x.phase = "none" <=> x = NoRun
           /\ x.phase = "active" <=> x = NewRun
  BY ScheduleAssumption DEF ScheduleAssumption, RunType, NoRun, NewRun, Terminal

(* Completion times of Runs that have ended.                                   *)
LEMMA CompletionTimes ==
    ASSUME NEW rs \in [RunIds -> RunType], NEW phases \in SUBSET Terminal
    PROVE  /\ WithPhase(rs, phases) \in SUBSET RunIds
           /\ Completions(rs, phases) \in SUBSET (1..MaxTime)
           /\ Completions(rs, phases) = {} <=> WithPhase(rs, phases) = {}
  BY RunTypes DEF WithPhase, Completions

(* refreshActiveRuns takes the greatest completion times of the Runs listed.   *)
LEMMA Refreshed ==
    ASSUME runsCache \in [RunIds -> RunType], NEW st \in StatusType
    PROVE  LET seen == refreshActiveRuns(st)
               done == Completions(runsCache, Terminal)
               succeeded == Completions(runsCache, {"Succeeded"})
           IN  /\ seen \in StatusType
               /\ seen.active = WithPhase(runsCache, {"active"})
               /\ done = {} => seen.lastRun = st.lastRun
               /\ \A t \in done : t <= seen.lastRun
               /\ succeeded = {} => seen.lastSuccess = st.lastSuccess
               /\ succeeded # {} => seen.lastSuccess \in succeeded
               /\ \A t \in succeeded : t <= seen.lastSuccess
  <1> DEFINE done == Completions(runsCache, Terminal)
             succeeded == Completions(runsCache, {"Succeeded"})
             seen == refreshActiveRuns(st)
  <1>1. done \in SUBSET (1..MaxTime) /\ succeeded \in SUBSET (1..MaxTime)
    BY CompletionTimes DEF Terminal
  <1> HIDE DEF done, succeeded
  <1>2. /\ MaxOf(done) \in 0..MaxTime /\ MaxOf(succeeded) \in 0..MaxTime
        /\ \A t \in done : t <= MaxOf(done)
        /\ \A t \in succeeded : t <= MaxOf(succeeded)
        /\ succeeded # {} => MaxOf(succeeded) \in succeeded
    BY <1>1, MaxOfIsGreatest
  <1>3. WithPhase(runsCache, {"active"}) \in SUBSET RunIds
    BY DEF WithPhase
  <1>4. seen = [st EXCEPT !.active = WithPhase(runsCache, {"active"}),
                          !.lastRun = IF done = {} THEN st.lastRun ELSE MaxOf(done),
                          !.lastSuccess = IF succeeded = {} THEN st.lastSuccess ELSE MaxOf(succeeded)]
    BY DEF refreshActiveRuns, done, succeeded, StatusType
  <1> HIDE DEF seen
  <1>5. 0..MaxTime \subseteq Times
    BY ScheduleAssumption DEF ScheduleAssumption, Times, Never
  <1>6. seen \in StatusType
    BY <1>2, <1>3, <1>4, <1>5 DEF StatusType
  <1>7. /\ seen.active = WithPhase(runsCache, {"active"})
        /\ seen.lastRun = IF done = {} THEN st.lastRun ELSE MaxOf(done)
        /\ seen.lastSuccess = IF succeeded = {} THEN st.lastSuccess ELSE MaxOf(succeeded)
    BY <1>4 DEF StatusType
  <1> QED
    BY <1>2, <1>6, <1>7 DEF seen, done, succeeded

(* The Run that deleteOldest turns to next is one of those to be deleted.      *)
LEMMA NextVictimIsDoomed ==
    ASSUME runsCache \in [RunIds -> RunType], NEW D \in SUBSET RunIds, D # {}
    PROVE  NextVictim(D) \in D
  <1> DEFINE succeeded == {i \in D : runsCache[i].phase # "Failed"}
             S == IF succeeded # {} THEN succeeded ELSE D
             times == {runsCache[i].completion : i \in S}
  <1>1. S # {} /\ S \in SUBSET D
    OBVIOUS
  <1>2. \A i \in S : runsCache[i].completion \in Nat /\ runsCache[i].completion <= MaxTime
    BY RunTypes, ScheduleAssumption DEF ScheduleAssumption
  <1> HIDE DEF S
  <1>3. times \in SUBSET Nat /\ times # {} /\ \A t \in times : t <= MaxTime
    BY <1>1, <1>2
  <1>4. PICK t \in times : \A u \in times : u <= t
    BY <1>3, GreatestExists, ScheduleAssumption DEF ScheduleAssumption
  <1>5. \E i \in S : \A j \in S : runsCache[i].completion >= runsCache[j].completion
    BY <1>2, <1>4
  <1>6. NextVictim(D) = CHOOSE i \in S : \A j \in S : runsCache[i].completion >= runsCache[j].completion
    BY DEF NextVictim, S
  <1>7. NextVictim(D) \in S
    BY <1>5, <1>6
  <1> QED
    BY <1>1, <1>7

-----------------------------------------------------------------------------
(* The inductive invariant, whatever the caches do.                            *)

(* The fire time a Run is being created for has come, and no Run was created   *)
(* for a later one.                                                            *)
FireIsDue ==
    pc = "create" =>
        /\ fire \in Fires /\ fire <= now
        /\ \A i \in 1..Len(scheduledFor) : scheduledFor[i] <= fire

(* A cached Run was created, and one that is cached as ended has ended so, or   *)
(* is gone.                                                                    *)
RunsCacheIsOld ==
    \A i \in RunIds :
        /\ runsCache[i] # NoRun => i <= Len(scheduledFor)
        /\ runsCache[i].phase \in Terminal => runs[i] \in {NoRun, runsCache[i]}

(* A Run that is to be deleted was created and is not active.                  *)
DoomedHaveEnded == \A i \in doomed : i <= Len(scheduledFor) /\ runs[i].phase # "active"

Inv ==
    /\ TypeOK
    /\ FiresNeverGoBack
    /\ FireIsDue
    /\ RunsCacheIsOld
    /\ DoomedHaveEnded

(* A status nobody has written is well formed.                                 *)
LEMMA NewStatusType == NewStatus \in StatusType
  BY ScheduleAssumption DEF ScheduleAssumption, NewStatus, StatusType, Times, Never

(* A fault is counted, and MaxFaults bounds the count.                         *)
LEMMA FaultsStayBounded ==
    ASSUME faults \in 0..MaxFaults, Fault \/ NoFault
    PROVE  faults' \in 0..MaxFaults
  BY BoundsAssumption DEF BoundsAssumption, Fault, NoFault

(* A new Scan without Runs has the invariant.                                  *)
LEMMA InitInv == Init => Inv
  <1> SUFFICES ASSUME Init PROVE Inv
    OBVIOUS
  <1> USE DEF Init
  <1>1. TypeOK
    <2>1. runs \in [RunIds -> RunType] /\ runsCache \in [RunIds -> RunType]
      BY DEF RunType
    <2>2. now \in 1..MaxTime /\ wake \in 1..NoWake
      BY ScheduleAssumption, LimitsAssumption
      DEF ScheduleAssumption, LimitsAssumption, NoWake
    <2>3. faults \in 0..MaxFaults /\ changes \in 0..MaxChanges
      BY BoundsAssumption DEF BoundsAssumption
    <2>4. scheduledFor \in Seq(Fires) /\ Len(scheduledFor) <= MaxRuns
      BY BoundsAssumption DEF BoundsAssumption
    <2>5. \A i \in RunIds : runs[i] = NoRun
      OBVIOUS
    <2> QED
      BY <2>1, <2>2, <2>3, <2>4, <2>5, NewStatusType DEF TypeOK, Specs
  <1>2. FiresNeverGoBack /\ FireIsDue /\ DoomedHaveEnded
    BY DEF FiresNeverGoBack, FireIsDue, DoomedHaveEnded
  <1>3. RunsCacheIsOld
    BY DEF RunsCacheIsOld, NoRun, Terminal
  <1> QED
    BY <1>1, <1>2, <1>3 DEF Inv

-----------------------------------------------------------------------------
(* Every action keeps the invariant.                                           *)

(* A step that leaves the clock, the Runs and their cache alone.                *)
LEMMA QuietKeepsInv ==
    ASSUME Inv, UNCHANGED <<now, runs, scheduledFor, runsCache>>,
           TypeOK', FireIsDue', DoomedHaveEnded'
    PROVE  Inv'
  BY DEF Inv, FiresNeverGoBack, RunsCacheIsOld

(* Decide computes a status, and a Run is created only for a fire time missed.  *)
LEMMA Decided ==
    ASSUME TypeOK, Decide(statusCache)
    PROVE  /\ copy' \in StatusType /\ copy'.lastSuccess = refreshActiveRuns(statusCache).lastSuccess
           /\ after' \in 1..RequeueAfterMax
           /\ fire' \in {0} \cup Fires
           /\ pc' \in {"create", "update"}
           /\ pc' = "create" =>
                /\ fire' \in Fires /\ fire' <= now
                /\ refreshActiveRuns(statusCache).lastRun < fire'
                /\ \A f \in Fires : f <= now => f <= fire'
                /\ Policy # "Allow" => refreshActiveRuns(statusCache).active = {}
  <1> DEFINE seen == refreshActiveRuns(statusCache)
             times == computeFireTimes(seen.lastRun)
             ready == [seen EXCEPT !.ready = "NextRunComputed", !.nextRun = times.next]
  <1>1. seen \in StatusType
    BY Refreshed DEF TypeOK
  <1>2. seen.lastRun \in Times /\ now \in 1..MaxTime
    BY <1>1 DEF StatusType, TypeOK
  <1>3. /\ times.missed \in {0} \cup Fires
        /\ times.missed # 0 => /\ times.missed <= now /\ seen.lastRun < times.missed
                               /\ \A f \in Fires : f <= now => f <= times.missed
        /\ times.next \in Times /\ times.next > now
    BY <1>2, FireTimes
  <1>4. /\ fire' = times.missed
        /\ after' = capRequeueAfter(times.next - now)
        /\ \/ /\ times.missed = 0
              /\ copy' = [ready EXCEPT !.scheduled = "next"] /\ pc' = "update"
           \/ /\ times.missed # 0 /\ shouldSkipForConcurrency(ready)
              /\ copy' = [ready EXCEPT !.scheduled = "skipping"] /\ pc' = "update"
           \/ /\ times.missed # 0 /\ ~ shouldSkipForConcurrency(ready)
              /\ copy' = ready /\ pc' = "create"
    BY DEF Decide
  <1> HIDE DEF times, seen
  <1>5. /\ ready \in StatusType /\ ready.active = seen.active
        /\ ready.lastSuccess = seen.lastSuccess
        /\ \A v \in {"next", "skipping"} :
              LET st == [ready EXCEPT !.scheduled = v]
              IN  st \in StatusType /\ st.lastSuccess = seen.lastSuccess
    BY <1>1, <1>3 DEF StatusType
  <1> HIDE DEF ready
  <1>6. after' \in 1..RequeueAfterMax
    BY <1>2, <1>3, <1>4, LimitsAssumption, ScheduleAssumption
    DEF LimitsAssumption, ScheduleAssumption, capRequeueAfter, Times, Never
  <1>7. copy' \in StatusType /\ copy'.lastSuccess = seen.lastSuccess
    BY <1>4, <1>5
  <1>8. Policy # "Allow" /\ ~ shouldSkipForConcurrency(ready) => seen.active = {}
    BY <1>5 DEF shouldSkipForConcurrency
  <1> QED
    BY <1>3, <1>4, <1>6, <1>7, <1>8 DEF seen

(* The other branches of Reconcile, which end without a Run.                    *)
LEMMA GivenUp ==
    ASSUME TypeOK, NEW reason \in {"Suspended", "PlatformNotReady", "InvalidSchedule"},
           NEW delay \in {NoRequeue, 1}, GiveUp(reason, delay)
    PROVE  /\ copy' \in StatusType /\ copy'.lastSuccess = statusCache.lastSuccess
           /\ after' \in {NoRequeue} \cup 1..RequeueAfterMax
           /\ fire' = fire /\ pc' = "update"
  <1>1. statusCache \in StatusType
    BY DEF TypeOK
  <1>2. copy' \in StatusType /\ copy'.lastSuccess = statusCache.lastSuccess
    BY <1>1 DEF GiveUp, StatusType
  <1>3. 1 \in 1..RequeueAfterMax
    BY LimitsAssumption DEF LimitsAssumption
  <1> QED
    BY <1>2, <1>3 DEF GiveUp

(* What Reconcile leaves in memory.                                             *)
LEMMA Reconciled ==
    ASSUME TypeOK, Reconcile
    PROVE  /\ copy' \in StatusType
           /\ after' \in {NoRequeue} \cup 1..RequeueAfterMax
           /\ fire' \in {0} \cup Fires /\ failed' \in BOOLEAN
           /\ faults' \in 0..MaxFaults
           /\ pc' \in {"create", "update"}
           /\ \/ pc' = "update" /\ copy'.lastSuccess = statusCache.lastSuccess
              \/ Decide(statusCache)
  <1>1. statusCache \in StatusType /\ fire \in {0} \cup Fires /\ failed \in BOOLEAN
        /\ after \in {NoRequeue} \cup 1..RequeueAfterMax
    BY DEF TypeOK
  <1>2. faults' \in 0..MaxFaults
    BY FaultsStayBounded DEF TypeOK, Reconcile
  <1>3. CASE GiveUp("Suspended", NoRequeue) /\ UNCHANGED failed
    BY <1>1, <1>2, <1>3, GivenUp
  <1>4. CASE copy' = statusCache /\ failed' = TRUE /\ pc' = "update" /\ UNCHANGED <<fire, after>>
    BY <1>1, <1>2, <1>4
  <1>5. CASE GiveUp("PlatformNotReady", 1) /\ UNCHANGED failed
    BY <1>1, <1>2, <1>5, GivenUp
  <1>6. CASE GiveUp("InvalidSchedule", NoRequeue) /\ UNCHANGED failed
    BY <1>1, <1>2, <1>6, GivenUp
  <1>7. CASE Decide(statusCache) /\ UNCHANGED failed
    BY <1>1, <1>2, <1>7, Decided
  <1> QED
    BY <1>3, <1>4, <1>5, <1>6, <1>7 DEF Reconcile

(* Reconcile up to its first write.                                             *)
LEMMA ReconcileKeepsInv ==
    ASSUME Inv, Reconcile
    PROVE  Inv'
  <1>1. TypeOK
    BY DEF Inv
  <1>2. UNCHANGED <<now, apiVars, platformReady, cacheVars, wake, doomed, changes, busy>>
        /\ queue' = FALSE /\ current' = scanSynced
    BY DEF Reconcile
  <1>3. TypeOK'
    BY <1>1, <1>2, Reconciled DEF TypeOK, apiVars, cacheVars
  <1>4. FireIsDue'
    <2> SUFFICES ASSUME pc' = "create"
                 PROVE  /\ fire' \in Fires /\ fire' <= now
                        /\ \A i \in 1..Len(scheduledFor) : scheduledFor[i] <= fire'
      BY <1>2 DEF FireIsDue, apiVars
    <2>1. fire' \in Fires /\ fire' <= now /\ \A f \in Fires : f <= now => f <= fire'
      BY <1>1, Reconciled, Decided
    <2>2. \A i \in 1..Len(scheduledFor) : scheduledFor[i] \in Fires /\ scheduledFor[i] <= now
      BY DEF Inv, TypeOK, FiresNeverGoBack
    <2> QED
      BY <2>1, <2>2
  <1>5. DoomedHaveEnded'
    BY <1>2 DEF Inv, DoomedHaveEnded, apiVars
  <1> QED
    BY <1>2, <1>3, <1>4, <1>5, QuietKeepsInv DEF apiVars, cacheVars

(* A Run more, numbered after all others.                                       *)
LEMMA CreatedRun ==
    ASSUME TypeOK, Created, fire \in Fires
    PROVE  /\ Len(scheduledFor) + 1 \in RunIds /\ runs[Len(scheduledFor) + 1] = NoRun
           /\ runs' = [runs EXCEPT ![Len(scheduledFor) + 1] = NewRun]
           /\ scheduledFor' \in Seq(Fires) /\ Len(scheduledFor') = Len(scheduledFor) + 1
           /\ Len(scheduledFor') <= MaxRuns
           /\ \A i \in 1..Len(scheduledFor) : scheduledFor'[i] = scheduledFor[i]
           /\ scheduledFor'[Len(scheduledFor) + 1] = fire
  <1>1. scheduledFor \in Seq(Fires) /\ Len(scheduledFor) \in Nat /\ Len(scheduledFor) < MaxRuns
    BY DEF TypeOK, Created
  <1>2. Len(scheduledFor) + 1 \in RunIds /\ runs[Len(scheduledFor) + 1] = NoRun
    BY <1>1, BoundsAssumption DEF BoundsAssumption, RunIds, TypeOK
  <1> QED
    BY <1>1, <1>2, BoundsAssumption DEF BoundsAssumption, Created

(* createRun creates a Run, or fails, or both.                                  *)
LEMMA CreateKeepsInv ==
    ASSUME Inv, createRun
    PROVE  Inv'
  <1> USE DEF cacheVars
  <1>1. TypeOK /\ pc = "create" /\ fire \in Fires /\ fire <= now
        /\ \A i \in 1..Len(scheduledFor) : scheduledFor[i] <= fire
    BY DEF Inv, createRun, FireIsDue
  <1>2. pc' \in {"gc", "update"} /\ failed' \in BOOLEAN
    BY <1>1 DEF createRun, ReturnError, TypeOK
  <1>3. faults' \in 0..MaxFaults
    BY <1>1, FaultsStayBounded DEF TypeOK, createRun, ReturnError
  <1>4. copy' \in StatusType
    <2>1. copy \in StatusType
      BY <1>1 DEF TypeOK
    <2>2. fire \in Times
      BY <1>1, ScheduleAssumption DEF ScheduleAssumption, Times, Never
    <2> QED
      BY <2>1, <2>2 DEF createRun, StatusType
  <1>5. FireIsDue'
    BY <1>2 DEF FireIsDue
  <1>6. CASE UNCHANGED <<runs, scheduledFor>>
    <2>1. TypeOK'
      BY <1>1, <1>2, <1>3, <1>4, <1>6 DEF TypeOK, createRun
    <2>2. DoomedHaveEnded'
      BY <1>6 DEF Inv, DoomedHaveEnded, createRun
    <2> QED
      BY <1>5, <1>6, <2>1, <2>2, QuietKeepsInv DEF createRun
  <1>7. CASE Created
    <2> DEFINE n == Len(scheduledFor) + 1
    <2>1. /\ n \in RunIds /\ runs[n] = NoRun /\ Len(scheduledFor) \in Nat
          /\ runs' = [runs EXCEPT ![n] = NewRun]
          /\ scheduledFor' \in Seq(Fires) /\ Len(scheduledFor') = n
          /\ Len(scheduledFor') <= MaxRuns
          /\ \A i \in 1..Len(scheduledFor) : scheduledFor'[i] = scheduledFor[i]
          /\ scheduledFor'[n] = fire
      BY <1>1, <1>7, CreatedRun DEF TypeOK
    <2> HIDE DEF n
    <2>2. runs' \in [RunIds -> RunType]
      BY <1>1, <2>1 DEF TypeOK, RunType
    <2>3. \A i \in RunIds : i \in Nat /\ (i # n => runs'[i] = runs[i]) /\ (i = n => runs'[i] = NewRun)
      BY <1>1, <2>1 DEF TypeOK, RunIds
    <2>4. \A i \in RunIds : runs[i] # NoRun \/ i <= Len(scheduledFor) => i <= Len(scheduledFor') /\ i # n
      BY <1>1, <2>1, <2>3 DEF TypeOK, n
    <2>5. \A i \in RunIds : runs'[i] # NoRun => i <= Len(scheduledFor')
      BY <2>1, <2>3, <2>4
    <2>6. TypeOK'
      BY <1>1, <1>2, <1>3, <1>4, <2>1, <2>2, <2>5 DEF TypeOK, createRun
    <2>7. FiresNeverGoBack'
      <3>1. now' = now /\ now \in Nat /\ \A f \in Fires : f \in Nat
        BY <1>1, ScheduleAssumption DEF ScheduleAssumption, createRun, TypeOK
      <3>2. \A i \in 1..Len(scheduledFor) : scheduledFor'[i] <= now /\ scheduledFor'[i] <= fire
        BY <1>1, <2>1 DEF Inv, FiresNeverGoBack
      <3>3. \A i \in 1..Len(scheduledFor) : i > 1 => scheduledFor'[i - 1] <= scheduledFor'[i]
        <4> TAKE i \in 1..Len(scheduledFor)
        <4> HAVE i > 1
        <4>1. i - 1 \in 1..Len(scheduledFor)
          BY <2>1
        <4> QED
          BY <2>1, <4>1 DEF Inv, FiresNeverGoBack
      <3>4. \A i \in 1..n : i \in 1..Len(scheduledFor) \/ i = n
        BY <2>1 DEF n
      <3>5. n > 1 => n - 1 \in 1..Len(scheduledFor)
        BY <2>1 DEF n
      <3> QED
        BY <1>1, <2>1, <3>1, <3>2, <3>3, <3>4, <3>5 DEF FiresNeverGoBack
    <2>8. RunsCacheIsOld'
      BY <1>1, <2>3, <2>4 DEF Inv, RunsCacheIsOld, createRun, Terminal, NoRun
    <2>9. DoomedHaveEnded'
      BY <1>1, <2>3, <2>4 DEF Inv, TypeOK, DoomedHaveEnded, createRun
    <2> QED
      BY <1>5, <2>6, <2>7, <2>8, <2>9 DEF Inv
  <1> QED
    BY <1>6, <1>7 DEF createRun

(* Runs that Oldest picks are cached as having ended in its phase.               *)
LEMMA OldestHaveEnded ==
    ASSUME NEW phase, NEW keep, NEW D \in Oldest(phase, keep)
    PROVE  \A i \in D : i \in RunIds /\ runsCache[i].phase = phase
  BY DEF Oldest, WithPhase

(* gcOldRuns condemns only Runs that have ended.                                 *)
LEMMA GcKeepsInv ==
    ASSUME Inv, gcOldRuns
    PROVE  Inv'
  <1> USE DEF cacheVars, apiVars
  <1>1. faults' \in 0..MaxFaults
    BY FaultsStayBounded DEF Inv, TypeOK, gcOldRuns, ReturnError
  <1>2. \A i \in doomed' : i \in doomed \/ (i \in RunIds /\ runsCache[i].phase \in Terminal)
    BY OldestHaveEnded DEF gcOldRuns, Terminal
  <1>3. pc' \in {"delete", "update"} /\ failed' \in BOOLEAN
    BY DEF Inv, TypeOK, gcOldRuns, ReturnError
  <1>4. TypeOK'
    BY <1>1, <1>2, <1>3 DEF Inv, TypeOK, gcOldRuns
  <1>5. FireIsDue'
    BY <1>3 DEF FireIsDue
  <1>6. DoomedHaveEnded'
    <2> SUFFICES ASSUME NEW i \in doomed'
                 PROVE  i <= Len(scheduledFor) /\ runs[i].phase # "active"
      BY DEF DoomedHaveEnded, gcOldRuns
    <2>1. CASE i \in doomed
      BY <2>1 DEF Inv, DoomedHaveEnded
    <2>2. CASE i \in RunIds /\ runsCache[i].phase \in Terminal
      BY <2>2 DEF Inv, RunsCacheIsOld, NoRun, Terminal
    <2> QED
      BY <1>2, <2>1, <2>2
  <1> QED
    BY <1>4, <1>5, <1>6, QuietKeepsInv DEF gcOldRuns

(* Which Run deleteOldest deletes, if any.                                       *)
LEMMA Deleted ==
    ASSUME TypeOK, deleteOldest
    PROVE  \/ runs' = runs /\ doomed' = doomed
           \/ /\ pc' = "delete" /\ copy' = copy
              /\ \E i \in doomed : runs' = [runs EXCEPT ![i] = NoRun] /\ doomed' = doomed \ {i}
  <1>1. doomed # {} => NextVictim(doomed) \in doomed
    BY NextVictimIsDoomed DEF TypeOK
  <1> QED
    BY <1>1 DEF deleteOldest

(* deleteOldest deletes one of them.                                             *)
LEMMA DeleteKeepsInv ==
    ASSUME Inv, deleteOldest
    PROVE  Inv'
  <1> USE DEF cacheVars
  <1>1. TypeOK
    BY DEF Inv
  <1>2. faults' \in 0..MaxFaults
    BY FaultsStayBounded DEF Inv, TypeOK, deleteOldest, ReturnError
  <1>3. pc' \in {"delete", "update"} /\ failed' \in BOOLEAN
    BY <1>1 DEF TypeOK, deleteOldest, ReturnError
  <1>4. copy' \in StatusType
    BY <1>1 DEF TypeOK, deleteOldest, StatusType
  <1>5. doomed' \subseteq doomed /\ runs' \in [RunIds -> RunType]
        /\ \A i \in RunIds : runs'[i] \in {runs[i], NoRun}
    BY <1>1, Deleted DEF TypeOK, RunType
  <1>6. TypeOK'
    BY <1>1, <1>2, <1>3, <1>4, <1>5 DEF TypeOK, deleteOldest
  <1>7. FiresNeverGoBack' /\ FireIsDue'
    BY <1>3 DEF Inv, FiresNeverGoBack, FireIsDue, deleteOldest
  <1>8. RunsCacheIsOld'
    BY <1>5 DEF Inv, RunsCacheIsOld, deleteOldest
  <1>9. DoomedHaveEnded'
    BY <1>1, <1>5 DEF Inv, TypeOK, DoomedHaveEnded, deleteOldest, NoRun
  <1> QED
    BY <1>6, <1>7, <1>8, <1>9 DEF Inv

(* The end of a reconcile, which forgets what it had in memory.                  *)
LEMMA FinishTypes ==
    ASSUME NEW again \in BOOLEAN, NEW at, Finish(again, at), queue \in BOOLEAN
    PROVE  /\ queue' \in BOOLEAN /\ wake' = at /\ pc' = "idle" /\ copy' \in StatusType
           /\ current' = FALSE /\ fire' = 0 /\ doomed' = {} /\ after' = NoRequeue
           /\ failed' = FALSE
  BY NewStatusType DEF Finish

(* A delayed requeue lies within the bound on timers.                            *)
LEMMA WakeType ==
    ASSUME now \in 1..MaxTime, wake \in 1..NoWake, NEW d \in 0..RequeueAfterMax
    PROVE  Sooner(now + d) \in 1..NoWake
  BY ScheduleAssumption, LimitsAssumption
  DEF ScheduleAssumption, LimitsAssumption, Sooner, NoWake

(* What UpdateStatus writes, and that it ends the reconcile.                      *)
LEMMA Updated ==
    ASSUME TypeOK, UpdateStatus
    PROVE  /\ \/ current /\ status' = copy /\ scanSynced' = (scanSynced /\ copy = status)
              \/ UNCHANGED <<status, scanSynced>>
           /\ \E again \in BOOLEAN, at \in 1..NoWake : Finish(again, at)
  <1>1. /\ wake \in 1..NoWake /\ now \in 1..MaxTime /\ failed \in BOOLEAN
        /\ after # NoRequeue => after \in 0..RequeueAfterMax
    BY DEF TypeOK
  <1>2. Sooner(now) \in 1..NoWake
    BY <1>1, ScheduleAssumption, LimitsAssumption
    DEF ScheduleAssumption, LimitsAssumption, Sooner, NoWake
  <1>3. (IF failed \/ after = NoRequeue THEN wake ELSE Sooner(now + after)) \in 1..NoWake
    BY <1>1, WakeType
  <1> QED
    BY <1>1, <1>2, <1>3 DEF UpdateStatus

(* UpdateStatus ends the reconcile.                                               *)
LEMMA UpdateKeepsInv ==
    ASSUME Inv, UpdateStatus
    PROVE  Inv'
  <1>1. TypeOK
    BY DEF Inv
  <1>2. faults' \in 0..MaxFaults
    BY <1>1, FaultsStayBounded DEF TypeOK, UpdateStatus
  <1>3. PICK again \in BOOLEAN, at \in 1..NoWake : Finish(again, at)
    BY <1>1, Updated
  <1>4. status' \in StatusType /\ scanSynced' \in BOOLEAN
    BY <1>1, Updated DEF TypeOK
  <1>5. /\ queue' \in BOOLEAN /\ wake' = at /\ pc' = "idle" /\ copy' \in StatusType
        /\ current' = FALSE /\ fire' = 0 /\ doomed' = {} /\ after' = NoRequeue
        /\ failed' = FALSE
    BY <1>1, <1>3, FinishTypes DEF TypeOK
  <1>6. TypeOK'
    BY <1>1, <1>2, <1>3, <1>4, <1>5 DEF TypeOK, UpdateStatus
  <1>7. FireIsDue' /\ DoomedHaveEnded'
    BY <1>5 DEF FireIsDue, DoomedHaveEnded
  <1> QED
    BY <1>6, <1>7, QuietKeepsInv DEF UpdateStatus

(* A successor has fresh caches and nothing in memory.                            *)
LEMMA CrashKeepsInv ==
    ASSUME Inv, Crash
    PROVE  Inv'
  <1>1. TypeOK
    BY DEF Inv
  <1>2. faults' \in 0..MaxFaults
    BY <1>1, FaultsStayBounded DEF TypeOK, Crash
  <1>3. NoWake \in 1..NoWake
    BY ScheduleAssumption, LimitsAssumption DEF ScheduleAssumption, LimitsAssumption, NoWake
  <1>4. /\ queue' \in BOOLEAN /\ wake' = NoWake /\ pc' = "idle" /\ copy' \in StatusType
        /\ current' = FALSE /\ fire' = 0 /\ doomed' = {} /\ after' = NoRequeue
        /\ failed' = FALSE
    BY <1>1, FinishTypes DEF TypeOK, Crash
  <1>5. TypeOK'
    BY <1>1, <1>2, <1>3, <1>4 DEF TypeOK, Crash, apiVars
  <1>6. FireIsDue' /\ DoomedHaveEnded' /\ FiresNeverGoBack'
    BY <1>4 DEF Inv, FireIsDue, DoomedHaveEnded, FiresNeverGoBack, Crash, apiVars
  <1>7. RunsCacheIsOld'
    BY DEF Inv, TypeOK, RunsCacheIsOld, Crash, apiVars
  <1> QED
    BY <1>5, <1>6, <1>7 DEF Inv

(* Timers, watch events of the Scan and the Platform, and edits of the Scan        *)
(* leave what the invariant is about alone.                                        *)
LEMMA EventKeepsInv ==
    ASSUME Inv, Timer \/ SyncScan \/ PlatformFlips \/ \E s \in Specs : EditScan(s)
    PROVE  Inv'
  <1> USE DEF apiVars, cacheVars, reconcileVars
  <1>1. changes' \in 0..MaxChanges /\ wake' \in 1..NoWake
    BY BoundsAssumption, ScheduleAssumption, LimitsAssumption
    DEF BoundsAssumption, ScheduleAssumption, LimitsAssumption, Inv, TypeOK, NoWake,
        Timer, SyncScan, PlatformFlips, EditScan
  <1>2. TypeOK'
    <2>1. CASE Timer
      BY <1>1, <2>1 DEF Inv, TypeOK, Timer
    <2>2. CASE SyncScan
      BY <1>1, <2>2 DEF Inv, TypeOK, SyncScan
    <2>3. CASE PlatformFlips
      BY <1>1, <2>3 DEF Inv, TypeOK, PlatformFlips
    <2>4. CASE \E s \in Specs : EditScan(s)
      BY <1>1, <2>4 DEF Inv, TypeOK, EditScan
    <2> QED
      BY <2>1, <2>2, <2>3, <2>4
  <1>3. UNCHANGED <<now, runs, scheduledFor, runsCache, pc, fire, doomed>>
    BY DEF Timer, SyncScan, PlatformFlips, EditScan
  <1>4. FireIsDue' /\ DoomedHaveEnded'
    BY <1>3 DEF Inv, FireIsDue, DoomedHaveEnded
  <1> QED
    BY <1>2, <1>3, <1>4, QuietKeepsInv

(* The cache takes the Runs over.                                                  *)
LEMMA SyncRunsKeepsInv ==
    ASSUME Inv, SyncRuns
    PROVE  Inv'
  <1> USE DEF apiVars, reconcileVars
  <1>1. TypeOK'
    BY DEF Inv, TypeOK, SyncRuns
  <1>2. FireIsDue' /\ DoomedHaveEnded' /\ FiresNeverGoBack'
    BY DEF Inv, FireIsDue, DoomedHaveEnded, FiresNeverGoBack, SyncRuns
  <1>3. RunsCacheIsOld'
    BY DEF Inv, TypeOK, RunsCacheIsOld, SyncRuns
  <1> QED
    BY <1>1, <1>2, <1>3 DEF Inv

(* A Run that has ended is a Run.                                                  *)
LEMMA EndedRun ==
    ASSUME TypeOK, NEW i \in RunIds, NEW phase \in Terminal, RunEnds(i, phase)
    PROVE  /\ runs' \in [RunIds -> RunType] /\ runs[i] = NewRun
           /\ runs'[i].phase = phase /\ runs'[i].completion = now
           /\ \A j \in RunIds \ {i} : runs'[j] = runs[j]
  <1>1. runs[i] = NewRun
    BY RunTypes DEF TypeOK, RunEnds
  <1>2. [phase |-> phase, completion |-> now] \in RunType
    BY DEF TypeOK, RunType
  <1> QED
    BY <1>1, <1>2 DEF TypeOK, RunEnds

(* A Run ends.                                                                     *)
LEMMA RunEndsKeepsInv ==
    ASSUME Inv, NEW i \in RunIds, NEW phase \in Terminal, RunEnds(i, phase)
    PROVE  Inv'
  <1> USE DEF cacheVars, reconcileVars
  <1>1. /\ runs' \in [RunIds -> RunType] /\ runs[i] = NewRun /\ runs'[i].phase = phase
        /\ \A j \in RunIds \ {i} : runs'[j] = runs[j]
    BY EndedRun DEF Inv
  <1>2. NewRun # NoRun /\ NewRun.phase = "active" /\ phase # "active"
    BY DEF NewRun, NoRun, Terminal
  <1>3. TypeOK'
    BY <1>1, <1>2 DEF Inv, TypeOK, RunEnds
  <1>4. FireIsDue' /\ FiresNeverGoBack'
    BY DEF Inv, FireIsDue, FiresNeverGoBack, RunEnds
  <1>5. RunsCacheIsOld'
    BY <1>1, <1>2 DEF Inv, RunsCacheIsOld, RunEnds, Terminal, NewRun
  <1>6. DoomedHaveEnded'
    BY <1>1, <1>2 DEF Inv, TypeOK, DoomedHaveEnded, RunEnds
  <1> QED
    BY <1>3, <1>4, <1>5, <1>6 DEF Inv

(* Time passes.                                                                    *)
LEMMA TickKeepsInv ==
    ASSUME Inv, Tick
    PROVE  Inv'
  <1> USE DEF apiVars, cacheVars, reconcileVars
  <1>1. now \in 1..MaxTime /\ now < MaxTime /\ now' = now + 1 /\ now' \in 1..MaxTime
    BY ScheduleAssumption DEF ScheduleAssumption, Inv, TypeOK, Tick
  <1>2. busy' \subseteq Fires
    BY DEF Inv, TypeOK, Tick
  <1>3. TypeOK'
    BY <1>1, <1>2 DEF Inv, TypeOK, Tick
  <1>4. \A f \in Fires : f \in Nat
    BY ScheduleAssumption DEF ScheduleAssumption
  <1>5. \A f \in Fires : f <= now => f <= now'
    BY <1>1, <1>4
  <1>6. FiresNeverGoBack'
    <2>1. \A i \in 1..Len(scheduledFor) : scheduledFor[i] \in Fires
      BY DEF Inv, TypeOK
    <2> QED
      BY <1>5, <2>1 DEF Inv, FiresNeverGoBack, Tick
  <1>7. FireIsDue'
    BY <1>5 DEF Inv, FireIsDue, Tick
  <1>8. RunsCacheIsOld' /\ DoomedHaveEnded'
    BY DEF Inv, RunsCacheIsOld, DoomedHaveEnded, Tick
  <1> QED
    BY <1>3, <1>6, <1>7, <1>8 DEF Inv

(* The invariant is inductive: one case for each action.                           *)
LEMMA NextInv == Inv /\ [Next]_vars => Inv'
  <1> SUFFICES ASSUME Inv, [Next]_vars PROVE Inv'
    OBVIOUS
  <1>1. CASE UNCHANGED vars
    <2> USE <1>1 DEF vars, apiVars, cacheVars, reconcileVars
    <2>1. TypeOK' /\ FireIsDue' /\ DoomedHaveEnded'
      BY DEF Inv, TypeOK, FireIsDue, DoomedHaveEnded
    <2> QED
      BY <2>1, QuietKeepsInv
  <1>2. CASE ReconcileStep
    BY <1>2, ReconcileKeepsInv, CreateKeepsInv, GcKeepsInv, DeleteKeepsInv, UpdateKeepsInv
    DEF ReconcileStep
  <1>3. CASE Crash
    BY <1>3, CrashKeepsInv
  <1>4. CASE Timer \/ SyncScan \/ PlatformFlips
    BY <1>4, EventKeepsInv
  <1>5. CASE SyncRuns
    BY <1>5, SyncRunsKeepsInv
  <1>6. CASE \E s \in {"active", "suspended", "invalid"} : EditScan(s)
    BY <1>6, EventKeepsInv DEF Specs
  <1>7. CASE \E i \in RunIds, phase \in Terminal : RunEnds(i, phase)
    BY <1>7, RunEndsKeepsInv
  <1>8. CASE Tick
    BY <1>8, TickKeepsInv
  <1> QED
    BY <1>1, <1>2, <1>3, <1>4, <1>5, <1>6, <1>7, <1>8 DEF Next

-----------------------------------------------------------------------------
(* The theorems that need nothing of the caches.                                   *)

(* The invariant holds in every reachable state: however far the caches lag, a Run  *)
(* is created for the latest fire time that has come, and only Runs that have ended  *)
(* are condemned.                                                                   *)
THEOREM InvHolds == Spec => []Inv
  <1> QED
    BY InitInv, NextInv, PTL DEF Spec

(* The types of the Scan, its Runs, the caches and the reconcile in progress.       *)
THEOREM TypeCorrect == Spec => []TypeOK
  <1>1. Inv => TypeOK
    BY DEF Inv
  <1> QED
    BY <1>1, InvHolds, PTL

(* createRun serves fire times in their order and never ahead of time, whatever      *)
(* refreshActiveRuns sets lastRunTime back to and however often a reconcile is cut    *)
(* short.                                                                            *)
THEOREM FiresInOrder == Spec => []FiresNeverGoBack
  <1>1. Inv => FiresNeverGoBack
    BY DEF Inv
  <1> QED
    BY <1>1, InvHolds, PTL

(* Only deleteOldest takes a Run away, and only one that has ended.                   *)
LEMMA OnlyEndedRunsGo ==
    ASSUME Inv, [Next]_vars, NEW i \in RunIds, runs[i].phase = "active"
    PROVE  runs'[i] # NoRun
  <1>1. TypeOK /\ runs[i] # NoRun
    BY DEF Inv, NoRun
  <1>2. CASE runs' = runs
    BY <1>1, <1>2
  <1>3. CASE createRun
    <2>1. NewRun # NoRun
      BY DEF NewRun, NoRun
    <2> QED
      BY <1>1, <1>3, <2>1 DEF createRun, Created, TypeOK
  <1>4. CASE deleteOldest
    <2>1. i \notin doomed
      BY DEF Inv, DoomedHaveEnded
    <2> QED
      BY <1>1, <1>4, <2>1, Deleted DEF TypeOK
  <1>5. CASE \E j \in RunIds, phase \in Terminal : RunEnds(j, phase)
    BY <1>1, <1>5, EndedRun DEF NoRun, Terminal
  <1> QED
    BY <1>2, <1>3, <1>4, <1>5
    DEF Next, vars, apiVars, ReconcileStep, Reconcile, gcOldRuns, UpdateStatus, Crash, Timer,
        SyncScan, SyncRuns, PlatformFlips, EditScan, Tick

(* "Active Runs are never GC'd", although gcOldRuns judges from a cache that may be   *)
(* behind and deletes one call at a time.                                             *)
THEOREM ActiveRunsStay == Spec => ActiveRunsAreKept
  <1>1. Inv /\ [Next]_vars => [\A i \in RunIds : runs[i].phase = "active" => runs'[i] # NoRun]_vars
    BY OnlyEndedRunsGo
  <1> QED
    BY <1>1, InvHolds, PTL DEF Spec, ActiveRunsAreKept

-----------------------------------------------------------------------------
(* Reconciles that start from caches that have caught up (PromptCaches): what   *)
(* the history and the schedule then promise.  Each theorem names what else it  *)
(* asks of the Scan's spec.  First the inductive invariants.                    *)

Limit(phase) == IF phase = "Succeeded" THEN SuccessLimit ELSE FailLimit

(* Until the history is pruned, no Run that is cached as ended is gone.        *)
EndsAreCurrent ==
    pc \in {"create", "gc"} =>
        \A i \in RunIds : runsCache[i].phase \in Terminal => runs[i] = runsCache[i]

(* Enough Runs that ended like d, and no earlier, are not to be deleted.       *)
Outlived(d) ==
    \E K \in SUBSET (WithPhase(runs, {runs[d].phase}) \ doomed) :
        /\ Cardinality(K) >= Limit(runs[d].phase)
        /\ \A k \in K : runs[k].completion >= runs[d].completion

(* A Run is condemned only when the history limit is reached without it, and   *)
(* stays so while the deletions go on.                                         *)
DoomedAreOutlived ==
    pc = "delete" => \A d \in doomed : runs[d].phase \in Terminal => Outlived(d)

HistoryInv == EndsAreCurrent /\ DoomedAreOutlived

(* With a policy that forbids it, no Run is created next to an active one.     *)
ForbidInv ==
    /\ \A i, j \in WithPhase(runs, {"active"}) : i = j
    /\ pc = "create" => WithPhase(runs, {"active"}) = {}

(* The latest fire time served is remembered: by an active Run, or by one that  *)
(* ended after it, from which refreshActiveRuns computes lastRunTime.          *)
LatestFireIsKnown ==
    scheduledFor # <<>> =>
        \/ WithPhase(runs, {"active"}) # {}
        \/ \E t \in Completions(runs, Terminal) : scheduledFor[Len(scheduledFor)] <= t

(* A Run is created for a fire time later than those served.                   *)
FireIsNew ==
    pc = "create" => \A i \in 1..Len(scheduledFor) : scheduledFor[i] < fire

ServedInv == OneRunPerFire /\ LatestFireIsKnown /\ FireIsNew

(* A Succeeded Run that ended at t or later is still there.                     *)
Witnessed(t) == t > 0 => \E u \in Completions(runs, {"Succeeded"}) : t <= u

(* Recorded successes are still witnessed by a Run, and a reconcile never means *)
(* to record an earlier one than is recorded.                                  *)
SuccessInv ==
    /\ scanSynced => statusCache = status
    /\ Witnessed(status.lastSuccess)
    /\ pc # "idle" => /\ Witnessed(copy.lastSuccess)
                      /\ status.lastSuccess <= copy.lastSuccess

-----------------------------------------------------------------------------
(* The steps, by what they do to the Runs and to the reconcile in progress.    *)

(* A step that leaves the Runs alone and at most ends the reconcile.           *)
Quiet ==
    /\ UNCHANGED <<runs, scheduledFor>>
    /\ UNCHANGED <<pc, fire, doomed, copy>> \/ pc' = "idle"
    /\ runsCache' \in {runsCache, runs}
    /\ status' = status \/ (pc # "idle" /\ pc' = "idle" /\ status' = copy)
    /\ (scanSynced => statusCache = status) => (scanSynced' => statusCache' = status')

(* Every step is one of a reconcile's calls, a Run's end, or quiet.            *)
LEMMA StepCases ==
    ASSUME TypeOK, [Next]_vars
    PROVE  \/ Reconcile \/ createRun \/ gcOldRuns \/ deleteOldest
           \/ \E i \in RunIds, phase \in Terminal : RunEnds(i, phase)
           \/ Quiet
  <1> USE DEF vars, apiVars, cacheVars, reconcileVars, Quiet
  <1>1. CASE UNCHANGED vars
    BY <1>1
  <1>2. CASE UpdateStatus
    <2>1. pc' = "idle" /\ UNCHANGED <<runs, scheduledFor, runsCache, statusCache>> /\ pc # "idle"
      BY <1>2 DEF UpdateStatus, Finish
    <2>2. \/ status' = copy /\ scanSynced' = (scanSynced /\ copy = status)
          \/ UNCHANGED <<status, scanSynced>>
      BY <1>2 DEF UpdateStatus
    <2> QED
      BY <2>1, <2>2
  <1>3. CASE Crash
    BY <1>3 DEF Crash, Finish
  <1>4. CASE Timer
    BY <1>4 DEF Timer
  <1>5. CASE SyncScan
    BY <1>5 DEF SyncScan
  <1>6. CASE SyncRuns
    BY <1>6 DEF SyncRuns
  <1>7. CASE PlatformFlips
    BY <1>7 DEF PlatformFlips
  <1>8. CASE \E s \in {"active", "suspended", "invalid"} : EditScan(s)
    BY <1>8 DEF EditScan
  <1>9. CASE Tick
    BY <1>9 DEF Tick
  <1> QED
    BY <1>1, <1>2, <1>3, <1>4, <1>5, <1>6, <1>7, <1>8, <1>9 DEF Next, ReconcileStep

(* What a reconcile that may create a Run has read.                            *)
LEMMA ReconcileReads ==
    ASSUME TypeOK, Reconcile
    PROVE  /\ UNCHANGED <<runs, scheduledFor, runsCache, status, statusCache, scanSynced, doomed>>
           /\ PromptCaches => scanSynced /\ runsCache = runs
           /\ pc' \in {"create", "update"}
           /\ pc' = "create" =>
                /\ fire' \in Fires
                /\ refreshActiveRuns(statusCache).lastRun < fire'
                /\ Policy # "Allow" => refreshActiveRuns(statusCache).active = {}
           /\ copy'.lastSuccess \in {statusCache.lastSuccess,
                                     refreshActiveRuns(statusCache).lastSuccess}
  <1>1. UNCHANGED <<runs, scheduledFor, runsCache, status, statusCache, scanSynced, doomed>>
    BY DEF Reconcile, apiVars, cacheVars
  <1>2. PromptCaches => scanSynced /\ runsCache = runs
    BY DEF Reconcile, CaughtUp
  <1> QED
    BY <1>1, <1>2, Reconciled, Decided

(* What createRun does.                                                        *)
LEMMA CreateWrites ==
    ASSUME Inv, createRun
    PROVE  /\ pc = "create" /\ pc' \in {"gc", "update"}
           /\ UNCHANGED <<runsCache, status, statusCache, scanSynced, doomed>>
           /\ copy'.lastSuccess = copy.lastSuccess
           /\ UNCHANGED <<runs, scheduledFor>> \/ Created
           /\ fire \in Fires
  <1>1. pc = "create" /\ pc' \in {"gc", "update"}
        /\ UNCHANGED <<runsCache, status, statusCache, scanSynced, doomed>>
        /\ (UNCHANGED <<runs, scheduledFor>> \/ Created)
    BY DEF createRun, ReturnError, cacheVars
  <1>2. copy'.lastSuccess = copy.lastSuccess
    BY DEF createRun, Inv, TypeOK, StatusType
  <1>3. fire \in Fires
    BY <1>1 DEF Inv, FireIsDue
  <1> QED
    BY <1>1, <1>2, <1>3

(* What deleteOldest does.                                                     *)
LEMMA DeleteWrites ==
    ASSUME TypeOK, deleteOldest
    PROVE  /\ pc = "delete" /\ pc' \in {"delete", "update"}
           /\ UNCHANGED <<scheduledFor, runsCache, status, statusCache, scanSynced, fire>>
           /\ copy'.lastSuccess = copy.lastSuccess
           /\ \/ UNCHANGED <<runs, doomed>>
              \/ \E i \in doomed : runs' = [runs EXCEPT ![i] = NoRun] /\ doomed' = doomed \ {i}
  <1>1. copy'.lastSuccess = copy.lastSuccess
    BY DEF deleteOldest, TypeOK, StatusType
  <1> QED
    BY <1>1, Deleted DEF deleteOldest, ReturnError, cacheVars

-----------------------------------------------------------------------------
(* Pruning the history.                                                        *)

(* What Oldest leaves: the limit's number of Runs, none earlier than one taken. *)
LEMMA OldestLeavesEnough ==
    ASSUME runsCache \in [RunIds -> RunType], NEW phase \in Terminal,
           NEW D \in Oldest(phase, Limit(phase)), NEW d \in D
    PROVE  LET K == WithPhase(runsCache, {phase}) \ D
           IN  /\ Cardinality(K) >= Limit(phase)
               /\ \A k \in K : runsCache[k].completion >= runsCache[d].completion
  <1> DEFINE S == WithPhase(runsCache, {phase})
             K == S \ D
  <1>1. IsFiniteSet(RunIds)
    BY FS_Interval, BoundsAssumption DEF BoundsAssumption, RunIds
  <1>2. IsFiniteSet(S) /\ Cardinality(S) \in Nat
    BY <1>1, FS_Subset, FS_CardinalityType DEF WithPhase
  <1>3. Limit(phase) \in Nat
    BY LimitsAssumption DEF LimitsAssumption, Limit
  <1> HIDE DEF S
  <1>4. /\ D \in SUBSET S
        /\ Cardinality(D) = IF Cardinality(S) > Limit(phase) THEN Cardinality(S) - Limit(phase)
                                                              ELSE 0
        /\ \A k \in S \ D : runsCache[k].completion >= runsCache[d].completion
    BY DEF Oldest, S
  <1>5. IsFiniteSet(D) /\ Cardinality(D) \in Nat
    BY <1>2, <1>4, FS_Subset, FS_CardinalityType
  <1>6. Cardinality(D) # 0
    BY <1>5, FS_EmptySet
  <1>7. S \cap D = D
    BY <1>4
  <1>8. Cardinality(K) = Cardinality(S) - Cardinality(D)
    BY <1>2, <1>7, FS_Difference
  <1> DEFINE n == Cardinality(S)
             m == Cardinality(D)
             lim == Limit(phase)
  <1>9. n \in Nat /\ m \in Nat /\ m # 0 /\ lim \in Nat /\ m = IF n > lim THEN n - lim ELSE 0
    BY <1>2, <1>3, <1>4, <1>5, <1>6
  <1> HIDE DEF n, m, lim
  <1>10. n - m >= lim
    BY <1>9
  <1> QED
    BY <1>4, <1>8, <1>10 DEF K, S, n, m, lim

(* A condemned Run stays outlived while it and its witnesses are left alone.    *)
LEMMA StillOutlived ==
    ASSUME NEW d \in RunIds, NEW K \in SUBSET (WithPhase(runs, {runs[d].phase}) \ doomed),
           Cardinality(K) >= Limit(runs[d].phase),
           \A k \in K : runs[k].completion >= runs[d].completion,
           runs'[d] = runs[d], \A k \in K : runs'[k] = runs[k], doomed' \subseteq doomed
    PROVE  Outlived(d)'
  <1>1. K \in SUBSET (WithPhase(runs', {runs'[d].phase}) \ doomed')
    BY DEF WithPhase
  <1>2. Cardinality(K) >= Limit(runs'[d].phase)
    OBVIOUS
  <1>3. \A k \in K : runs'[k].completion >= runs'[d].completion
    OBVIOUS
  <1> QED
    BY <1>1, <1>2, <1>3 DEF Outlived

(* gcOldRuns condemns Runs that are outlived.                                   *)
LEMMA GcKeepsHistory ==
    ASSUME Inv, HistoryInv, gcOldRuns
    PROVE  HistoryInv'
  <1> USE DEF apiVars, cacheVars
  <1>1. TypeOK /\ pc = "gc" /\ UNCHANGED <<runs, runsCache>>
    BY DEF Inv, gcOldRuns
  <1>2. runs \in [RunIds -> RunType] /\ runsCache \in [RunIds -> RunType]
    BY <1>1 DEF TypeOK
  <1>3. \A i \in RunIds : runsCache[i].phase \in Terminal => runs[i] = runsCache[i]
    BY <1>1 DEF HistoryInv, EndsAreCurrent
  <1>4. EndsAreCurrent'
    BY DEF gcOldRuns, ReturnError, EndsAreCurrent
  <1>5. ASSUME pc' = "delete", NEW d \in doomed', runs[d].phase \in Terminal
        PROVE  Outlived(d)'
    <2>1. PICK S \in Oldest("Succeeded", SuccessLimit), F \in Oldest("Failed", FailLimit) :
              doomed' = S \cup F
      BY <1>5 DEF gcOldRuns, ReturnError
    <2>2. \A i \in S : i \in RunIds /\ runsCache[i].phase = "Succeeded"
      BY OldestHaveEnded
    <2>3. \A i \in F : i \in RunIds /\ runsCache[i].phase = "Failed"
      BY OldestHaveEnded
    <2>4. CASE d \in S
      <3> DEFINE K == WithPhase(runsCache, {"Succeeded"}) \ S
      <3>1. /\ Cardinality(K) >= Limit("Succeeded")
            /\ \A k \in K : runsCache[k].completion >= runsCache[d].completion
        BY <1>2, <2>4, OldestLeavesEnough DEF Terminal, Limit
      <3>2. d \in RunIds /\ runs[d] = runsCache[d] /\ runs[d].phase = "Succeeded"
        BY <1>3, <2>2, <2>4 DEF Terminal
      <3>3. \A k \in K : k \in RunIds /\ runs[k] = runsCache[k] /\ runsCache[k].phase = "Succeeded"
        BY <1>3 DEF WithPhase, Terminal
      <3>4. K \in SUBSET (WithPhase(runs, {runs[d].phase}) \ doomed')
        BY <2>1, <2>3, <3>2, <3>3 DEF WithPhase
      <3> HIDE DEF K
      <3> QED
        BY <1>1, <3>1, <3>2, <3>3, <3>4 DEF Outlived
    <2>5. CASE d \in F
      <3> DEFINE K == WithPhase(runsCache, {"Failed"}) \ F
      <3>1. /\ Cardinality(K) >= Limit("Failed")
            /\ \A k \in K : runsCache[k].completion >= runsCache[d].completion
        BY <1>2, <2>5, OldestLeavesEnough DEF Terminal, Limit
      <3>2. d \in RunIds /\ runs[d] = runsCache[d] /\ runs[d].phase = "Failed"
        BY <1>3, <2>3, <2>5 DEF Terminal
      <3>3. \A k \in K : k \in RunIds /\ runs[k] = runsCache[k] /\ runsCache[k].phase = "Failed"
        BY <1>3 DEF WithPhase, Terminal
      <3>4. K \in SUBSET (WithPhase(runs, {runs[d].phase}) \ doomed')
        BY <2>1, <2>2, <3>2, <3>3 DEF WithPhase
      <3> HIDE DEF K
      <3> QED
        BY <1>1, <3>1, <3>2, <3>3, <3>4 DEF Outlived
    <2> QED
      BY <2>1, <2>4, <2>5
  <1>6. DoomedAreOutlived'
    BY <1>1, <1>5 DEF DoomedAreOutlived
  <1> QED
    BY <1>4, <1>6 DEF HistoryInv

(* Deletions leave the witnesses of what is still to be deleted alone.           *)
LEMMA DeleteKeepsHistory ==
    ASSUME Inv, HistoryInv, deleteOldest
    PROVE  HistoryInv'
  <1>1. TypeOK /\ runs \in [RunIds -> RunType] /\ doomed \subseteq RunIds
    BY DEF Inv, TypeOK
  <1>2. /\ pc = "delete" /\ pc' \in {"delete", "update"}
        /\ \/ UNCHANGED <<runs, doomed>>
           \/ \E i \in doomed : runs' = [runs EXCEPT ![i] = NoRun] /\ doomed' = doomed \ {i}
    BY <1>1, DeleteWrites
  <1>3. EndsAreCurrent'
    BY <1>2 DEF EndsAreCurrent
  <1>4. ASSUME NEW d \in doomed', runs'[d].phase \in Terminal
        PROVE  Outlived(d)'
    <2>1. d \in doomed /\ d \in RunIds /\ runs'[d] = runs[d] /\ doomed' \subseteq doomed
      BY <1>1, <1>2, <1>4 DEF NoRun, Terminal
    <2>2. PICK K \in SUBSET (WithPhase(runs, {runs[d].phase}) \ doomed) :
              /\ Cardinality(K) >= Limit(runs[d].phase)
              /\ \A k \in K : runs[k].completion >= runs[d].completion
      BY <1>2, <1>4, <2>1 DEF HistoryInv, DoomedAreOutlived, Outlived
    <2>3. \A k \in K : runs'[k] = runs[k]
      BY <1>1, <1>2, <2>2 DEF WithPhase
    <2> QED
      BY <2>1, <2>2, <2>3, StillOutlived
  <1> QED
    BY <1>3, <1>4 DEF HistoryInv, DoomedAreOutlived

(* A Run's end neither condemns it nor disturbs the ended ones.                  *)
LEMMA RunEndsKeepsHistory ==
    ASSUME Inv, HistoryInv, NEW i \in RunIds, NEW phase \in Terminal, RunEnds(i, phase)
    PROVE  HistoryInv'
  <1>1. TypeOK /\ runs \in [RunIds -> RunType] /\ doomed \subseteq RunIds
    BY DEF Inv, TypeOK
  <1>2. runs[i].phase = "active" /\ \A j \in RunIds \ {i} : runs'[j] = runs[j]
    BY <1>1, EndedRun DEF NewRun
  <1>3. UNCHANGED <<pc, runsCache, doomed>>
    BY DEF RunEnds, cacheVars, reconcileVars
  <1>4. EndsAreCurrent'
    BY <1>2, <1>3 DEF HistoryInv, EndsAreCurrent, Terminal
  <1>5. ASSUME pc' = "delete", NEW d \in doomed', runs'[d].phase \in Terminal
        PROVE  Outlived(d)'
    <2>1. d \in doomed /\ d \in RunIds /\ runs'[d] = runs[d] /\ doomed' \subseteq doomed
      BY <1>1, <1>2, <1>3, <1>5 DEF Inv, DoomedHaveEnded
    <2>2. PICK K \in SUBSET (WithPhase(runs, {runs[d].phase}) \ doomed) :
              /\ Cardinality(K) >= Limit(runs[d].phase)
              /\ \A k \in K : runs[k].completion >= runs[d].completion
      BY <1>3, <1>5, <2>1 DEF HistoryInv, DoomedAreOutlived, Outlived
    <2>3. \A k \in K : runs'[k] = runs[k]
      BY <1>2, <1>5, <2>1, <2>2 DEF WithPhase, Terminal
    <2> QED
      BY <2>1, <2>2, <2>3, StillOutlived
  <1> QED
    BY <1>4, <1>5 DEF HistoryInv, DoomedAreOutlived

(* The history's invariant is inductive when reconciles start from the Runs as   *)
(* they are.                                                                     *)
LEMMA NextHistory ==
    ASSUME PromptCaches, Inv, HistoryInv, [Next]_vars
    PROVE  HistoryInv'
  <1>1. TypeOK
    BY DEF Inv
  <1>2. CASE Reconcile
    <2>1. pc' \in {"create", "update"} /\ UNCHANGED <<runs, runsCache>> /\ runsCache = runs
      BY <1>1, <1>2, ReconcileReads
    <2> QED
      BY <2>1 DEF HistoryInv, EndsAreCurrent, DoomedAreOutlived
  <1>3. CASE createRun
    <2>1. /\ pc = "create" /\ pc' \in {"gc", "update"} /\ runsCache' = runsCache
          /\ UNCHANGED <<runs, scheduledFor>> \/ (Created /\ fire \in Fires)
      BY <1>3, CreateWrites
    <2>2. \A i \in RunIds : runs'[i] = runs[i] \/ runs[i] = NoRun
      BY <1>1, <2>1, CreatedRun DEF TypeOK
    <2>3. EndsAreCurrent'
      BY <2>1, <2>2 DEF HistoryInv, EndsAreCurrent, Terminal, NoRun
    <2> QED
      BY <2>1, <2>3 DEF HistoryInv, DoomedAreOutlived
  <1>4. CASE gcOldRuns
    BY <1>4, GcKeepsHistory
  <1>5. CASE deleteOldest
    BY <1>5, DeleteKeepsHistory
  <1>6. CASE \E i \in RunIds, phase \in Terminal : RunEnds(i, phase)
    BY <1>6, RunEndsKeepsHistory
  <1>7. CASE Quiet
    <2>1. /\ runs' = runs /\ runsCache' \in {runsCache, runs}
          /\ UNCHANGED <<pc, doomed>> \/ pc' = "idle"
      BY <1>7 DEF Quiet
    <2>2. EndsAreCurrent'
      BY <2>1 DEF HistoryInv, EndsAreCurrent
    <2>3. CASE UNCHANGED <<pc, doomed>>
      <3>1. \A d \in doomed : Outlived(d) => Outlived(d)'
        BY <2>1, <2>3 DEF Outlived
      <3> QED
        BY <2>1, <2>2, <2>3, <3>1 DEF HistoryInv, DoomedAreOutlived
    <2>4. CASE pc' = "idle"
      BY <2>2, <2>4 DEF HistoryInv, DoomedAreOutlived
    <2> QED
      BY <2>1, <2>3, <2>4
  <1> QED
    BY <1>1, <1>2, <1>3, <1>4, <1>5, <1>6, <1>7, StepCases

(* A new Scan has no history.                                                    *)
LEMMA InitHistory == Init => HistoryInv
  BY DEF Init, HistoryInv, EndsAreCurrent, DoomedAreOutlived

(* With caches that have caught up, gcOldRuns and deleteOldest condemn and delete *)
(* only Runs that the history limit's number of others outlive.                   *)
THEOREM HistoryHolds ==
    ASSUME PromptCaches
    PROVE  Spec => []HistoryInv
  <1>1. Inv /\ HistoryInv /\ [Next]_vars => HistoryInv'
    BY NextHistory
  <1> QED
    BY <1>1, InitHistory, InvHolds, PTL DEF Spec

(* The only step that takes a Run away is a deletion of a condemned one.          *)
LEMMA GoneWasDoomed ==
    ASSUME Inv, [Next]_vars, NEW i \in RunIds, runs[i] # NoRun, runs'[i] = NoRun
    PROVE  pc = "delete" /\ i \in doomed
  <1>1. TypeOK /\ runs \in [RunIds -> RunType] /\ doomed \subseteq RunIds
    BY DEF Inv, TypeOK
  <1>2. runs' # runs
    OBVIOUS
  <1>3. ~ createRun
    <2> SUFFICES ASSUME createRun PROVE FALSE
      OBVIOUS
    <2>1. Created /\ fire \in Fires
      BY <1>2, CreateWrites
    <2> QED
      BY <1>1, <2>1, CreatedRun DEF NewRun, NoRun
  <1>4. ~ \E j \in RunIds, phase \in Terminal : RunEnds(j, phase)
    BY <1>1, EndedRun DEF NoRun, Terminal
  <1>5. ~ Reconcile /\ ~ gcOldRuns /\ ~ Quiet
    BY <1>2 DEF Reconcile, gcOldRuns, Quiet, apiVars
  <1>6. deleteOldest
    BY <1>1, <1>3, <1>4, <1>5, StepCases
  <1> QED
    BY <1>1, <1>2, <1>6, DeleteWrites

(* "keep the 3 newest Succeeded Runs": a Succeeded Run is deleted only when as many *)
(* others as the limit says, that ended no earlier, remain, however the deletions,  *)
(* the ends of other Runs, failing calls and crashes interleave.                    *)
THEOREM HistoryIsKept ==
    ASSUME PromptCaches
    PROVE  Spec => NewestRunsAreKept
  <1> DEFINE Keeps ==
        \A i \in RunIds : runs[i].phase = "Succeeded" /\ runs'[i] = NoRun =>
            Cardinality({k \in WithPhase(runs, {"Succeeded"}) \ {i} :
                            runs[k].completion >= runs[i].completion}) >= SuccessLimit
  <1>1. Inv /\ HistoryInv /\ [Next]_vars => [Keeps]_vars
    <2> SUFFICES ASSUME Inv, HistoryInv, [Next]_vars,
                        NEW i \in RunIds, runs[i].phase = "Succeeded", runs'[i] = NoRun
                 PROVE  Cardinality({k \in WithPhase(runs, {"Succeeded"}) \ {i} :
                            runs[k].completion >= runs[i].completion}) >= SuccessLimit
      OBVIOUS
    <2> DEFINE Newer == {k \in WithPhase(runs, {"Succeeded"}) \ {i} :
                            runs[k].completion >= runs[i].completion}
    <2>1. pc = "delete" /\ i \in doomed
      BY GoneWasDoomed DEF NoRun
    <2>2. PICK K \in SUBSET (WithPhase(runs, {"Succeeded"}) \ doomed) :
              /\ Cardinality(K) >= SuccessLimit
              /\ \A k \in K : runs[k].completion >= runs[i].completion
      BY <2>1 DEF HistoryInv, DoomedAreOutlived, Outlived, Limit, Terminal
    <2>3. K \in SUBSET Newer
      BY <2>1, <2>2
    <2>4. IsFiniteSet(RunIds) /\ Newer \in SUBSET RunIds
      BY FS_Interval, BoundsAssumption DEF BoundsAssumption, RunIds, WithPhase
    <2> HIDE DEF Newer
    <2>5. IsFiniteSet(Newer) /\ IsFiniteSet(K)
      BY <2>3, <2>4, FS_Subset
    <2>6. /\ Cardinality(K) <= Cardinality(Newer) /\ SuccessLimit \in Nat
          /\ Cardinality(K) \in Nat /\ Cardinality(Newer) \in Nat
      BY <2>3, <2>5, FS_Subset, FS_CardinalityType, LimitsAssumption DEF LimitsAssumption
    <2>7. Cardinality(Newer) >= SuccessLimit
      BY <2>2, <2>6
    <2> QED
      BY <2>7 DEF Newer
  <1> QED
    BY <1>1, InvHolds, HistoryHolds, PTL DEF Spec, NewestRunsAreKept

-----------------------------------------------------------------------------
(* A policy that forbids a second Run.                                          *)

(* Where the active Runs come from.                                             *)
LEMMA ActiveRuns ==
    ASSUME Inv, [Next]_vars
    PROVE  \/ WithPhase(runs', {"active"}) \subseteq WithPhase(runs, {"active"})
           \/ /\ createRun /\ Created
              /\ WithPhase(runs', {"active"})
                    = WithPhase(runs, {"active"}) \cup {Len(scheduledFor) + 1}
  <1>1. TypeOK /\ runs \in [RunIds -> RunType] /\ doomed \subseteq RunIds
    BY DEF Inv, TypeOK
  <1>2. CASE runs' = runs
    BY <1>2
  <1>3. CASE createRun /\ Created
    BY <1>1, <1>3, CreateWrites, CreatedRun DEF WithPhase, NewRun
  <1>4. CASE deleteOldest
    BY <1>1, <1>4, DeleteWrites DEF WithPhase, NoRun
  <1>5. CASE \E i \in RunIds, phase \in Terminal : RunEnds(i, phase)
    BY <1>1, <1>5, EndedRun DEF WithPhase, Terminal
  <1>6. createRun => Created \/ runs' = runs
    BY CreateWrites
  <1>7. Reconcile \/ gcOldRuns \/ Quiet => runs' = runs
    BY DEF Reconcile, gcOldRuns, Quiet, apiVars
  <1> QED
    BY <1>1, <1>2, <1>3, <1>4, <1>5, <1>6, <1>7, StepCases

(* Where a reconcile that is about to create a Run comes from.                  *)
LEMMA AboutToCreate ==
    ASSUME Inv, [Next]_vars, pc' = "create"
    PROVE  /\ scheduledFor' = scheduledFor
           /\ Reconcile \/ UNCHANGED <<pc, fire>>
  <1>1. TypeOK
    BY DEF Inv
  <1>2. CASE Reconcile
    BY <1>1, <1>2, ReconcileReads
  <1>3. ~ createRun /\ ~ gcOldRuns /\ ~ deleteOldest
    BY <1>1, CreateWrites, DeleteWrites DEF gcOldRuns, ReturnError
  <1>4. CASE \E i \in RunIds, phase \in Terminal : RunEnds(i, phase)
    BY <1>4 DEF RunEnds, reconcileVars
  <1>5. CASE Quiet
    BY <1>5 DEF Quiet
  <1> QED
    BY <1>1, <1>2, <1>3, <1>4, <1>5, StepCases

(* No Run is created next to an active one.                                     *)
LEMMA NextForbid ==
    ASSUME PromptCaches, Policy # "Allow", Inv, ForbidInv, [Next]_vars
    PROVE  ForbidInv'
  <1>1. TypeOK
    BY DEF Inv
  <1>2. ASSUME pc' = "create"
        PROVE  WithPhase(runs', {"active"}) = {}
    <2>1. CASE Reconcile
      <3>1. /\ runs' = runs /\ runsCache = runs
            /\ refreshActiveRuns(statusCache).active = {}
        BY <1>1, <1>2, <2>1, ReconcileReads
      <3>2. refreshActiveRuns(statusCache).active = WithPhase(runsCache, {"active"})
        BY <1>1, Refreshed DEF TypeOK
      <3> QED
        BY <3>1, <3>2
    <2>2. CASE UNCHANGED pc
      <3>1. WithPhase(runs, {"active"}) = {} /\ ~ createRun
        BY <1>2, <2>2, CreateWrites DEF ForbidInv
      <3> QED
        BY <3>1, ActiveRuns
    <2> QED
      BY <1>2, <2>1, <2>2, AboutToCreate
  <1>3. createRun => WithPhase(runs, {"active"}) = {}
    BY CreateWrites DEF ForbidInv
  <1>4. \A i, j \in WithPhase(runs', {"active"}) : i = j
    BY <1>3, ActiveRuns DEF ForbidInv
  <1> QED
    BY <1>2, <1>4 DEF ForbidInv

(* What prompt caches would give under Forbid: the check suffices although the Run   *)
(* is created by a later call.  Without them it does not: a reconcile that starts     *)
(* before the cache holds the new Run creates another.                               *)
LEMMA OneActiveRunIfPrompt ==
    ASSUME PromptCaches, Policy # "Allow"
    PROVE  Spec => []OneActiveRun
  <1>1. Init => ForbidInv
    BY DEF Init, ForbidInv, WithPhase, NoRun
  <1>2. Inv /\ ForbidInv /\ [Next]_vars => ForbidInv'
    BY NextForbid
  <1>3. ForbidInv => OneActiveRun
    <2> SUFFICES ASSUME ForbidInv PROVE OneActiveRun
      OBVIOUS
    <2> DEFINE A == WithPhase(runs, {"active"})
    <2>1. CASE A = {}
      BY <2>1, FS_EmptySet DEF OneActiveRun
    <2>2. CASE A # {}
      <3>1. PICK i \in A : A = {i}
        BY <2>2 DEF ForbidInv
      <3> HIDE DEF A
      <3>2. Cardinality(A) = 1
        BY <3>1, FS_Singleton
      <3> QED
        BY <3>2 DEF OneActiveRun, A
    <2> QED
      BY <2>1, <2>2
  <1> QED
    BY <1>1, <1>2, <1>3, InvHolds, PTL DEF Spec

-----------------------------------------------------------------------------
(* The schedule and the recorded times.                                         *)

(* A Run that has ended is not touched again, but may be deleted.               *)
LEMMA EndedStays ==
    ASSUME Inv, [Next]_vars, NEW i \in RunIds, runs[i].phase \in Terminal
    PROVE  runs'[i] \in {runs[i], NoRun}
  <1>1. TypeOK /\ runs \in [RunIds -> RunType] /\ doomed \subseteq RunIds
    BY DEF Inv, TypeOK
  <1>2. CASE createRun
    BY <1>1, <1>2, CreateWrites, CreatedRun DEF NoRun, Terminal
  <1>3. CASE deleteOldest
    BY <1>1, <1>3, DeleteWrites
  <1>4. CASE \E j \in RunIds, phase \in Terminal : RunEnds(j, phase)
    BY <1>1, <1>4, EndedRun DEF NewRun, Terminal
  <1>5. Reconcile \/ gcOldRuns \/ Quiet => runs' = runs
    BY DEF Reconcile, gcOldRuns, Quiet, apiVars
  <1> QED
    BY <1>1, <1>2, <1>3, <1>4, <1>5, StepCases

(* When a history limit keeps at least one Run, the latest completion among the  *)
(* Runs that ended alike does not go back.                                       *)
LEMMA LatestSurvives ==
    ASSUME Inv, HistoryInv, [Next]_vars, NEW i \in RunIds, runs[i].phase \in Terminal,
           Limit(runs[i].phase) > 0
    PROVE  \E k \in RunIds : /\ runs'[k].phase = runs[i].phase
                             /\ runs[i].completion <= runs'[k].completion
  <1>1. runs[i].completion \in Nat /\ \A k \in RunIds : runs[k].completion \in Nat
    BY RunTypes DEF Inv, TypeOK
  <1>2. CASE runs'[i] = runs[i]
    BY <1>1, <1>2
  <1>3. CASE runs'[i] # runs[i]
    <2>1. runs'[i] = NoRun /\ runs[i] # NoRun
      BY <1>3, EndedStays
    <2>2. pc = "delete" /\ i \in doomed
      BY <2>1, GoneWasDoomed
    <2>3. PICK K \in SUBSET (WithPhase(runs, {runs[i].phase}) \ doomed) :
              /\ Cardinality(K) >= Limit(runs[i].phase)
              /\ \A k \in K : runs[k].completion >= runs[i].completion
      BY <2>2 DEF HistoryInv, DoomedAreOutlived, Outlived
    <2>4. Limit(runs[i].phase) \in Nat
      BY LimitsAssumption DEF LimitsAssumption, Limit
    <2>5. K # {}
      BY <2>3, <2>4, FS_EmptySet
    <2>6. PICK k \in K : TRUE
      BY <2>5
    <2>7. k \in RunIds /\ runs[k].phase = runs[i].phase /\ k \notin doomed
          /\ runs[i].completion <= runs[k].completion
      BY <1>1, <2>3, <2>6 DEF WithPhase
    <2>8. runs[k] # NoRun
      BY <2>7 DEF NoRun, Terminal
    <2>9. runs'[k] = runs[k]
      BY <2>7, <2>8, EndedStays, GoneWasDoomed
    <2> QED
      BY <2>7, <2>9
  <1> QED
    BY <1>2, <1>3

(* Times of a Run are naturals.                                                  *)
LEMMA RunTimes ==
    ASSUME Inv
    PROVE  /\ now \in Nat
           /\ \A i \in RunIds : runs[i].completion \in Nat
           /\ \A i \in 1..Len(scheduledFor) : scheduledFor[i] \in Nat
           /\ Len(scheduledFor) \in Nat
           /\ scheduledFor # <<>> => Len(scheduledFor) \in 1..Len(scheduledFor)
  <1>1. \A f \in Fires : f \in Nat
    BY ScheduleAssumption DEF ScheduleAssumption
  <1>2. scheduledFor \in Seq(Fires)
    BY DEF Inv, TypeOK
  <1> QED
    BY <1>1, <1>2, RunTypes DEF Inv, TypeOK

(* The fire times served, from the first to the last, do not go back.             *)
LEMMA LatestFireIsLast ==
    ASSUME Inv
    PROVE  \A i \in 1..Len(scheduledFor) : scheduledFor[i] <= scheduledFor[Len(scheduledFor)]
  <1> DEFINE n == Len(scheduledFor)
             Later == {i \in 1..n : scheduledFor[n] < scheduledFor[i]}
  <1>1. n \in Nat /\ \A i \in 1..n : scheduledFor[i] \in Nat
    BY RunTimes
  <1>2. \A i \in 1..n : i > 1 => scheduledFor[i - 1] <= scheduledFor[i]
    BY DEF Inv, FiresNeverGoBack
  <1>3. Later = {}
    <2> SUFFICES ASSUME Later # {} PROVE FALSE
      OBVIOUS
    <2>1. Later \in SUBSET Nat /\ \A i \in Later : i <= n
      BY <1>1
    <2>2. PICK m \in Later : \A i \in Later : i <= m
      BY <1>1, <2>1, GreatestExists
    <2>3. m \in 1..n /\ m # n /\ scheduledFor[n] < scheduledFor[m]
      BY <1>1, <2>2
    <2>4. m + 1 \in 1..n /\ m + 1 > 1 /\ (m + 1) - 1 = m
      BY <1>1, <2>3
    <2>5. scheduledFor[m] <= scheduledFor[m + 1]
      BY <1>2, <2>4
    <2>6. m + 1 \in Later
      BY <1>1, <2>3, <2>4, <2>5
    <2> QED
      BY <1>1, <2>2, <2>3, <2>6
  <1> QED
    BY <1>1, <1>3

(* The latest fire time served stays known: an active Run ends after it, and of   *)
(* the Runs that ended the latest survives.                                       *)
LEMMA LatestFireStaysKnown ==
    ASSUME SuccessLimit > 0, FailLimit > 0, Inv, HistoryInv, LatestFireIsKnown, [Next]_vars
    PROVE  LatestFireIsKnown'
  <1>1. TypeOK /\ runs \in [RunIds -> RunType]
    BY DEF Inv, TypeOK
  <1>2. CASE createRun /\ Created
    <2>1. Len(scheduledFor) + 1 \in WithPhase(runs', {"active"})
      BY <1>1, <1>2, CreateWrites, CreatedRun DEF WithPhase, NewRun
    <2> QED
      BY <2>1 DEF LatestFireIsKnown
  <1>3. CASE scheduledFor' = scheduledFor
    <2> DEFINE last == scheduledFor[Len(scheduledFor)]
    <2> SUFFICES ASSUME scheduledFor # <<>>
                 PROVE  \/ WithPhase(runs', {"active"}) # {}
                        \/ \E t \in Completions(runs', Terminal) : last <= t
      BY <1>3 DEF LatestFireIsKnown
    <2>1. last \in Nat /\ last <= now /\ now \in Nat
      <3>1. Len(scheduledFor) \in 1..Len(scheduledFor)
        BY RunTimes
      <3> QED
        BY <3>1, RunTimes DEF Inv, FiresNeverGoBack
    <2> HIDE DEF last
    <2>2. CASE \E i \in RunIds, phase \in Terminal : RunEnds(i, phase)
      <3>1. PICK i \in RunIds, phase \in Terminal : RunEnds(i, phase)
        BY <2>2
      <3>2. runs'[i].phase \in Terminal /\ runs'[i].completion = now
        BY <1>1, <3>1, EndedRun
      <3>3. now \in Completions(runs', Terminal)
        BY <3>2 DEF Completions, WithPhase
      <3> QED
        BY <2>1, <3>3
    <2>3. CASE \E j \in RunIds : runs[j].phase = "active"
      <3>1. PICK j \in RunIds : runs[j].phase = "active"
        BY <2>3
      <3>2. CASE runs'[j] = runs[j]
        BY <3>1, <3>2 DEF WithPhase
      <3>3. CASE runs'[j] # runs[j]
        <4>1. runs' # runs
          BY <3>3
        <4>2. ~ deleteOldest
          BY <1>1, <3>1, <3>3, DeleteWrites DEF Inv, DoomedHaveEnded
        <4>3. ~ createRun
          <5>1. createRun => Created
            BY <4>1, CreateWrites
          <5> QED
            BY <1>1, <3>1, <3>3, <5>1, CreateWrites, CreatedRun DEF NoRun
        <4>4. ~ Reconcile /\ ~ gcOldRuns /\ ~ Quiet
          BY <4>1 DEF Reconcile, gcOldRuns, Quiet, apiVars
        <4> QED
          BY <1>1, <2>2, <4>2, <4>3, <4>4, StepCases
      <3> QED
        BY <3>2, <3>3
    <2>4. CASE \E t \in Completions(runs, Terminal) : last <= t
      <3>1. PICK i \in RunIds : runs[i].phase \in Terminal /\ last <= runs[i].completion
        BY <2>4 DEF Completions, WithPhase
      <3>2. Limit(runs[i].phase) > 0
        BY DEF Limit
      <3>3. PICK k \in RunIds : /\ runs'[k].phase = runs[i].phase
                                /\ runs[i].completion <= runs'[k].completion
        BY <3>1, <3>2, LatestSurvives
      <3>4. runs[i].completion \in Nat /\ runs'[k].completion \in Nat
        <4>1. Inv'
          BY NextInv
        <4>2. runs' \in [RunIds -> RunType]
          BY <4>1 DEF Inv, TypeOK
        <4> QED
          BY <1>1, <4>2, RunTypes
      <3>5. last <= runs'[k].completion
        BY <2>1, <3>1, <3>3, <3>4
      <3>6. runs'[k].completion \in Completions(runs', Terminal)
        BY <3>1, <3>3 DEF Completions, WithPhase
      <3> QED
        BY <3>5, <3>6
    <2>5. \/ \E j \in RunIds : runs[j].phase = "active"
          \/ \E t \in Completions(runs, Terminal) : last <= t
      BY DEF LatestFireIsKnown, last, WithPhase
    <2> QED
      BY <2>3, <2>4, <2>5
  <1>4. scheduledFor' = scheduledFor \/ (createRun /\ Created)
    <2>1. createRun => Created \/ scheduledFor' = scheduledFor
      BY CreateWrites
    <2>2. (\E i \in RunIds, phase \in Terminal : RunEnds(i, phase)) => scheduledFor' = scheduledFor
      BY DEF RunEnds
    <2>3. deleteOldest \/ Reconcile \/ gcOldRuns \/ Quiet => scheduledFor' = scheduledFor
      BY DEF deleteOldest, Reconcile, gcOldRuns, Quiet, apiVars
    <2> QED
      BY <1>1, <2>1, <2>2, <2>3, StepCases
  <1> QED
    BY <1>2, <1>3, <1>4

(* A reconcile that may create a Run, with no active Run about, has read a           *)
(* lastRunTime past every fire time served.                                          *)
LEMMA FireStaysNew ==
    ASSUME PromptCaches, Policy # "Allow", Inv, LatestFireIsKnown, FireIsNew, [Next]_vars
    PROVE  FireIsNew'
  <1>1. TypeOK
    BY DEF Inv
  <1> SUFFICES ASSUME pc' = "create"
               PROVE  \A i \in 1..Len(scheduledFor') : scheduledFor'[i] < fire'
    BY DEF FireIsNew
  <1>2. scheduledFor' = scheduledFor
    BY AboutToCreate
  <1>3. CASE UNCHANGED <<pc, fire>>
    BY <1>2, <1>3 DEF FireIsNew
  <1>4. CASE Reconcile
    <2> DEFINE seen == refreshActiveRuns(statusCache)
               last == scheduledFor[Len(scheduledFor)]
    <2>1. /\ runsCache = runs /\ fire' \in Fires /\ seen.lastRun < fire' /\ seen.active = {}
      BY <1>1, <1>4, ReconcileReads
    <2>2. /\ seen \in StatusType /\ seen.active = WithPhase(runs, {"active"})
          /\ \A t \in Completions(runs, Terminal) : t <= seen.lastRun
      BY <1>1, <2>1, Refreshed DEF TypeOK
    <2>3. seen.lastRun \in Nat /\ fire' \in Nat
      BY <2>1, <2>2, ScheduleAssumption DEF ScheduleAssumption, StatusType, Times, Never
    <2> HIDE DEF seen
    <2> SUFFICES ASSUME NEW i \in 1..Len(scheduledFor)
                 PROVE  scheduledFor[i] < fire'
      BY <1>2
    <2>4. Len(scheduledFor) \in 1..Len(scheduledFor) /\ scheduledFor # <<>>
      BY RunTimes
    <2>5. scheduledFor[i] <= last /\ scheduledFor[i] \in Nat /\ last \in Nat
      BY <2>4, LatestFireIsLast, RunTimes
    <2>6. PICK t \in Completions(runs, Terminal) : last <= t
      BY <2>1, <2>2, <2>4 DEF LatestFireIsKnown
    <2>7. t \in Nat
      BY <2>6, RunTimes DEF Completions, WithPhase
    <2> HIDE DEF last
    <2> QED
      BY <2>1, <2>2, <2>3, <2>5, <2>6, <2>7
  <1> QED
    BY <1>3, <1>4, AboutToCreate

(* No fire time is served twice.                                                       *)
LEMMA NextServed ==
    ASSUME PromptCaches, Policy # "Allow", SuccessLimit > 0, FailLimit > 0,
           Inv, HistoryInv, ServedInv, [Next]_vars
    PROVE  ServedInv'
  <1>1. TypeOK
    BY DEF Inv
  <1>2. LatestFireIsKnown' /\ FireIsNew'
    BY LatestFireStaysKnown, FireStaysNew DEF ServedInv
  <1>3. CASE createRun /\ Created
    <2> DEFINE n == Len(scheduledFor) + 1
    <2>1. /\ Len(scheduledFor') = n /\ scheduledFor'[n] = fire /\ pc = "create" /\ fire \in Fires
          /\ \A i \in 1..Len(scheduledFor) : scheduledFor'[i] = scheduledFor[i]
      BY <1>1, <1>3, CreateWrites, CreatedRun
    <2>2. \A i \in 1..Len(scheduledFor) : scheduledFor[i] < fire /\ scheduledFor[i] \in Nat
      BY <2>1, RunTimes DEF ServedInv, FireIsNew
    <2>3. \A i \in 1..n : i \in 1..Len(scheduledFor) \/ i = n
      BY RunTimes
    <2>4. fire \in Nat
      BY <2>1, ScheduleAssumption DEF ScheduleAssumption
    <2> HIDE DEF n
    <2>5. OneRunPerFire'
      BY <2>1, <2>2, <2>3, <2>4 DEF ServedInv, OneRunPerFire
    <2> QED
      BY <1>2, <2>5 DEF ServedInv
  <1>4. CASE scheduledFor' = scheduledFor
    BY <1>2, <1>4 DEF ServedInv, OneRunPerFire
  <1>5. createRun => Created \/ scheduledFor' = scheduledFor
    BY CreateWrites
  <1>6. (\E i \in RunIds, phase \in Terminal : RunEnds(i, phase)) => scheduledFor' = scheduledFor
    BY DEF RunEnds
  <1>7. deleteOldest \/ Reconcile \/ gcOldRuns \/ Quiet => scheduledFor' = scheduledFor
    BY DEF deleteOldest, Reconcile, gcOldRuns, Quiet, apiVars
  <1> QED
    BY <1>1, <1>3, <1>4, <1>5, <1>6, <1>7, StepCases

(* "One Run per scheduled fire-time", across crashes and failing calls, with           *)
(* lastRunTime computed anew from the Runs each time: it holds when caches have caught  *)
(* up, the policy is not Allow and each history limit keeps a Run.  Without the policy  *)
(* the run ScanRefires refutes it.                                                      *)
THEOREM FiresServedOnce ==
    ASSUME PromptCaches, Policy # "Allow", SuccessLimit > 0, FailLimit > 0
    PROVE  Spec => []OneRunPerFire
  <1>1. Init => ServedInv
    BY DEF Init, ServedInv, OneRunPerFire, LatestFireIsKnown, FireIsNew
  <1>2. Inv /\ HistoryInv /\ ServedInv /\ [Next]_vars => ServedInv'
    BY NextServed
  <1>3. ServedInv => OneRunPerFire
    BY DEF ServedInv
  <1> QED
    BY <1>1, <1>2, <1>3, InvHolds, HistoryHolds, PTL DEF Spec

(* Recorded successes stay witnessed.                                                   *)
LEMMA StaysWitnessed ==
    ASSUME SuccessLimit > 0, Inv, HistoryInv, [Next]_vars, NEW t \in Nat, Witnessed(t)
    PROVE  Witnessed(t)'
  <1> SUFFICES ASSUME t > 0
               PROVE  \E u \in Completions(runs', {"Succeeded"}) : t <= u
    BY DEF Witnessed
  <1>1. PICK i \in RunIds : runs[i].phase = "Succeeded" /\ t <= runs[i].completion
    BY DEF Witnessed, Completions, WithPhase
  <1>2. PICK k \in RunIds : /\ runs'[k].phase = "Succeeded"
                            /\ runs[i].completion <= runs'[k].completion
    BY <1>1, LatestSurvives DEF Limit, Terminal
  <1>3. Inv'
    BY NextInv
  <1>4. runs[i].completion \in Nat /\ runs'[k].completion \in Nat
    BY <1>3, RunTypes DEF Inv, TypeOK
  <1>5. t <= runs'[k].completion
    BY <1>1, <1>2, <1>4
  <1> QED
    BY <1>2, <1>5 DEF Completions, WithPhase

(* A reconcile records no earlier success than is recorded.                             *)
LEMMA NextSuccess ==
    ASSUME PromptCaches, SuccessLimit > 0, Inv, HistoryInv, SuccessInv, [Next]_vars
    PROVE  SuccessInv' /\ status.lastSuccess <= status'.lastSuccess
  <1>1. TypeOK /\ Inv'
    BY NextInv DEF Inv
  <1>2. \A st \in StatusType : st.lastSuccess \in Nat
    BY ScheduleAssumption DEF ScheduleAssumption, StatusType, Times, Never
  <1>3. status \in StatusType /\ statusCache \in StatusType /\ copy \in StatusType
    BY <1>1 DEF TypeOK
  <1>4. \A t \in Nat : Witnessed(t) => Witnessed(t)'
    BY StaysWitnessed
  <1>5. CASE Reconcile
    <2> DEFINE seen == refreshActiveRuns(statusCache)
               succeeded == Completions(runs, {"Succeeded"})
    <2>1. /\ UNCHANGED <<runs, status, statusCache, scanSynced>>
          /\ runsCache = runs /\ scanSynced
          /\ copy'.lastSuccess \in {statusCache.lastSuccess, seen.lastSuccess}
      BY <1>1, <1>5, ReconcileReads
    <2>2. statusCache = status
      BY <2>1 DEF SuccessInv
    <2>3. /\ seen \in StatusType
          /\ succeeded = {} => seen.lastSuccess = status.lastSuccess
          /\ succeeded # {} => seen.lastSuccess \in succeeded
          /\ \A t \in succeeded : t <= seen.lastSuccess
      BY <1>1, <2>1, <2>2, Refreshed DEF TypeOK
    <2>4. \A t \in succeeded : t \in Nat
      BY RunTimes DEF Completions, WithPhase
    <2>5. seen.lastSuccess \in Nat /\ status.lastSuccess \in Nat
      BY <1>2, <1>3, <2>3
    <2>6. status.lastSuccess > 0 => \E u \in succeeded : status.lastSuccess <= u
      BY DEF SuccessInv, Witnessed
    <2> HIDE DEF seen, succeeded
    <2>7. status.lastSuccess <= seen.lastSuccess
      BY <2>3, <2>4, <2>5, <2>6
    <2>8. seen.lastSuccess > 0 => \E u \in succeeded : seen.lastSuccess <= u
      BY <2>3, <2>4, <2>5, <2>6
    <2>9. /\ status.lastSuccess <= copy'.lastSuccess
          /\ copy'.lastSuccess > 0 => \E u \in succeeded : copy'.lastSuccess <= u
      BY <2>1, <2>2, <2>5, <2>6, <2>7, <2>8
    <2> QED
      BY <2>1, <2>2, <2>5, <2>6, <2>9 DEF SuccessInv, Witnessed, succeeded
  <1>6. CASE UNCHANGED <<status, statusCache, scanSynced>> /\ copy'.lastSuccess = copy.lastSuccess
             /\ (pc' # "idle" => pc # "idle")
    BY <1>2, <1>3, <1>4, <1>6 DEF SuccessInv, Witnessed
  <1>7. CASE Quiet
    <2>1. runs' = runs /\ (scanSynced' => statusCache' = status')
      BY <1>7 DEF SuccessInv, Quiet
    <2>2. status' = status \/ (pc # "idle" /\ pc' = "idle" /\ status' = copy)
      BY <1>7 DEF Quiet
    <2>3. pc' # "idle" => pc' = pc /\ copy' = copy
      BY <1>7 DEF Quiet
    <2>4. Witnessed(status.lastSuccess)' /\ status.lastSuccess <= status'.lastSuccess
      BY <1>2, <1>3, <2>1, <2>2 DEF SuccessInv, Witnessed
    <2>5. pc' # "idle" => Witnessed(copy.lastSuccess)' /\ status'.lastSuccess <= copy'.lastSuccess
      BY <2>1, <2>2, <2>3 DEF SuccessInv, Witnessed
    <2> QED
      BY <2>1, <2>4, <2>5 DEF SuccessInv
  <1>8. createRun \/ deleteOldest \/ gcOldRuns =>
            UNCHANGED <<status, statusCache, scanSynced>> /\ copy'.lastSuccess = copy.lastSuccess
            /\ pc # "idle"
    BY <1>1, CreateWrites, DeleteWrites DEF gcOldRuns, apiVars, cacheVars
  <1>9. (\E i \in RunIds, phase \in Terminal : RunEnds(i, phase)) =>
            UNCHANGED <<status, statusCache, scanSynced, pc, copy>>
    BY DEF RunEnds, cacheVars, reconcileVars
  <1> QED
    BY <1>1, <1>5, <1>6, <1>7, <1>8, <1>9, StepCases

(* lastSuccessfulRunTime, which refreshActiveRuns computes from the Runs that the       *)
(* history limit has left, never moves back, when caches have caught up and the limit    *)
(* keeps a Succeeded Run.                                                                *)
THEOREM LastSuccessStands ==
    ASSUME PromptCaches, SuccessLimit > 0
    PROVE  Spec => LastSuccessNeverGoesBack
  <1>1. Init => SuccessInv
    BY DEF Init, SuccessInv, Witnessed, NewStatus
  <1>2. Inv /\ HistoryInv /\ SuccessInv /\ [Next]_vars => SuccessInv'
    BY NextSuccess
  <1>3. Inv /\ HistoryInv /\ SuccessInv /\ [Next]_vars
            => [status'.lastSuccess >= status.lastSuccess]_vars
    <2> SUFFICES ASSUME Inv, HistoryInv, SuccessInv, [Next]_vars
                 PROVE  status'.lastSuccess >= status.lastSuccess
      OBVIOUS
    <2>1. status.lastSuccess <= status'.lastSuccess /\ Inv'
      BY NextSuccess, NextInv
    <2>2. status.lastSuccess \in Int /\ status'.lastSuccess \in Int
      BY <2>1, ScheduleAssumption DEF ScheduleAssumption, Inv, TypeOK, StatusType, Times, Never
    <2> QED
      BY <2>1, <2>2
  <1> QED
    BY <1>1, <1>2, <1>3, InvHolds, HistoryHolds, PTL DEF Spec, LastSuccessNeverGoesBack
=============================================================================
