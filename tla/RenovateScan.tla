---------------------------- MODULE RenovateScan ----------------------------
(***************************************************************************)
(* The RenovateScan controller (internal/controller/renovatescan_controller.go)*)
(* for one Scan: at each fire time of the cron schedule it creates a Run,      *)
(* unless the concurrency policy forbids it, and then deletes the terminal     *)
(* Runs beyond the history limits.  Scan and Runs are read from informer       *)
(* caches that lag; Create, each Delete and the final status write are calls    *)
(* of their own, between which anything may happen.  Time is a clock that      *)
(* counts minutes; 0 stands for a time that is not set.                        *)
(***************************************************************************)
EXTENDS Integers, Sequences, FiniteSets

CONSTANTS
    Fires,            \* the cron schedule: its fire times
    Policy,           \* spec.concurrencyPolicy
    SuccessLimit,     \* spec.successfulRunsHistoryLimit
    FailLimit,        \* spec.failedRunsHistoryLimit
    FirstFireGrace,   \* firstFireGrace, in minutes
    RequeueAfterMax,  \* requeueAfterMax, in minutes
    PromptCaches,     \* do reconciles start from caches that have caught up?
    Punctual,         \* is due work done before the clock moves on?
    MaxTime,          \* bound on the clock
    MaxRuns,          \* bound on the Runs created
    MaxFaults,        \* bound on failing calls and crashes
    MaxChanges        \* bound on edits of the Scan and flips of the Platform

ASSUME ScheduleAssumption == MaxTime \in Nat \ {0} /\ Fires \subseteq 1..MaxTime
ASSUME PolicyAssumption == Policy \in {"Allow", "Forbid", "Replace"}
ASSUME LimitsAssumption ==
    /\ SuccessLimit \in Nat /\ FailLimit \in Nat
    /\ FirstFireGrace \in Nat \ {0} /\ RequeueAfterMax \in Nat \ {0}
ASSUME BoundsAssumption ==
    /\ MaxRuns \in Nat /\ MaxFaults \in Nat /\ MaxChanges \in Nat
    /\ PromptCaches \in BOOLEAN /\ Punctual \in BOOLEAN

VARIABLES
    now,         \* the clock
    \* --- the API server
    spec,        \* what of spec may change: "active", "suspended", "invalid"
    status,      \* status of the Scan
    runs,        \* the Scan's Runs, numbered in the order of their creation
    scheduledFor,\* their scheduled-for annotations, kept when they are deleted
    platformReady, \* Ready of the Platform, as the cache has it
    \* --- the informer caches
    specCache, statusCache, runsCache,
    scanSynced,  \* do the cached spec and status carry the current resourceVersion?
    \* --- the controller process
    queue,       \* is the Scan in the work queue?
    wake,        \* when a delayed requeue puts it there
    pc,          \* the next call of the reconcile in progress
    copy,        \* the status as changed so far, in memory
    current,     \* is the resourceVersion read still the API server's?
    fire,        \* the fire time a Run is being created for
    doomed,      \* the Runs still to be deleted
    after,       \* RequeueAfter of the result
    failed,      \* does reconcile return an error?
    \* --- bounds and history
    faults, changes,
    busy         \* fire times at which a Run was in flight

apiVars == <<spec, status, runs, scheduledFor>>
cacheVars == <<specCache, statusCache, runsCache, scanSynced>>
reconcileVars == <<pc, copy, current, fire, doomed, after, failed>>
vars == <<now, apiVars, platformReady, cacheVars, queue, wake, reconcileVars,
          faults, changes, busy>>

-----------------------------------------------------------------------------
RunIds == 1..MaxRuns
Terminal == {"Succeeded", "Failed"}
Never == MaxTime + 1                      \* the first fire time past the bound
NoWake == MaxTime + RequeueAfterMax + 1
NoRequeue == -1

NoRun == [phase |-> "none", completion |-> 0]
NewRun == [phase |-> "active", completion |-> 0]

NewStatus ==
    [lastRun |-> 0, lastSuccess |-> 0, nextRun |-> 0, active |-> {},
     ready |-> "Unknown", scheduled |-> "Unknown"]

MaxOf(S) == IF S = {} THEN 0 ELSE CHOOSE x \in S : \A y \in S : y <= x
MinOf(S, default) == IF S = {} THEN default ELSE CHOOSE x \in S : \A y \in S : x <= y

WithPhase(rs, phases) == {i \in RunIds : rs[i].phase \in phases}
Completions(rs, phases) == {rs[i].completion : i \in WithPhase(rs, phases)}

Init ==
    /\ now = 1
    /\ spec = "active" /\ status = NewStatus
    /\ runs = [i \in RunIds |-> NoRun] /\ scheduledFor = <<>>
    /\ platformReady \in BOOLEAN
    /\ specCache = spec /\ statusCache = status /\ runsCache = runs /\ scanSynced = TRUE
    /\ queue = TRUE /\ wake = NoWake
    /\ pc = "idle" /\ copy = NewStatus /\ current = FALSE /\ fire = 0
    /\ doomed = {} /\ after = NoRequeue /\ failed = FALSE
    /\ faults = 0 /\ changes = 0
    /\ busy = {}

Fault == faults < MaxFaults /\ faults' = faults + 1
NoFault == UNCHANGED faults

-----------------------------------------------------------------------------
(* Slip: a Scan that never fired looks only ahead of now.                     *)
NoGrace(lastRun) ==
    LET start == IF lastRun # 0 THEN lastRun ELSE now
        due == {f \in Fires : start < f /\ f <= now}
    IN  [missed |-> MaxOf(due),
         next |-> MinOf({f \in Fires : f > start /\ f > now}, Never)]

(* Slip: the grace is given ahead of now, so that a Run comes early.          *)
GraceAhead(lastRun) ==
    LET start == IF lastRun # 0 THEN lastRun ELSE now
        due == {f \in Fires : start < f /\ f <= now + FirstFireGrace}
    IN  [missed |-> MaxOf(due),
         next |-> MinOf({f \in Fires : f > start /\ f > now}, Never)]

(* The last fire time missed since lastRun, 0 if none, and the next one.  A   *)
(* Scan that never fired looks back over firstFireGrace only.                 *)
computeFireTimes(lastRun) ==
    LET start == IF lastRun # 0 THEN lastRun ELSE now - FirstFireGrace
        due == {f \in Fires : start < f /\ f <= now}
    IN  [missed |-> MaxOf(due),
         next |-> MinOf({f \in Fires : f > start /\ f > now}, Never)]

(* The latest completion among the Runs listed replaces lastRunTime, whatever *)
(* it was: a fire time recorded by createRun gives way to an older completion. *)
refreshActiveRuns(st) ==
    LET done == Completions(runsCache, Terminal)
        succeeded == Completions(runsCache, {"Succeeded"})
    IN  [st EXCEPT !.active = WithPhase(runsCache, {"active"}),
                   !.lastRun = IF done = {} THEN @ ELSE MaxOf(done),
                   !.lastSuccess = IF succeeded = {} THEN @ ELSE MaxOf(succeeded)]

(* Slip: only Replace is looked for.                                          *)
SkipForReplaceOnly(st) == st.active # {} /\ Policy = "Replace"

(* Replace degrades to Forbid.                                                *)
shouldSkipForConcurrency(st) == st.active # {} /\ Policy # "Allow"

(* Slip: no cap, so that the controller may go dark for hours.                *)
UncappedRequeue(d) == d

(* What is due already comes back in a second, that is within the minute.     *)
capRequeueAfter(d) ==
    CASE d <= 0 -> 0
      [] d > RequeueAfterMax -> RequeueAfterMax
      [] OTHER -> d

(* Slip: active Runs count against the limit.                                 *)
OldestOrActive(phase, keep) ==
    LET S == WithPhase(runsCache, {phase, "active"})
        excess == IF Cardinality(S) > keep THEN Cardinality(S) - keep ELSE 0
    IN  {D \in SUBSET S : Cardinality(D) = excess}

(* Slip: the list is sorted oldest first, so that its latest Runs go.         *)
Latest(phase, keep) ==
    LET S == WithPhase(runsCache, {phase})
        excess == IF Cardinality(S) > keep THEN Cardinality(S) - keep ELSE 0
    IN  {D \in SUBSET S :
            /\ Cardinality(D) = excess
            /\ \A d \in D, k \in S \ D : runsCache[k].completion <= runsCache[d].completion}

(* Which Runs of a phase deleteOldest picks: all but the `keep` latest; runs   *)
(* that completed at the same time come in either order.                       *)
Oldest(phase, keep) ==
    LET S == WithPhase(runsCache, {phase})
        excess == IF Cardinality(S) > keep THEN Cardinality(S) - keep ELSE 0
    IN  {D \in SUBSET S :
            /\ Cardinality(D) = excess
            /\ \A d \in D, k \in S \ D : runsCache[k].completion >= runsCache[d].completion}

(* deleteOldest prunes the Succeeded Runs first, each list latest first.       *)
NextVictim(D) ==
    LET succeeded == {i \in D : runsCache[i].phase # "Failed"}
        S == IF succeeded # {} THEN succeeded ELSE D
    IN  CHOOSE i \in S : \A j \in S : runsCache[i].completion >= runsCache[j].completion

-----------------------------------------------------------------------------
(* A reconcile up to its first write: it reads the Scan, the Platform and the  *)
(* Runs from the caches and decides.                                           *)

Decide(st) ==
    LET seen == refreshActiveRuns(st)
        times == computeFireTimes(seen.lastRun)
        ready == [seen EXCEPT !.ready = "NextRunComputed", !.nextRun = times.next]
    IN  /\ fire' = times.missed
        /\ after' = capRequeueAfter(times.next - now)
        /\ \/ /\ times.missed = 0
              /\ copy' = [ready EXCEPT !.scheduled = "next"] /\ pc' = "update"
           \/ /\ times.missed # 0 /\ shouldSkipForConcurrency(ready)
              /\ copy' = [ready EXCEPT !.scheduled = "skipping"] /\ pc' = "update"
           \/ /\ times.missed # 0 /\ ~ shouldSkipForConcurrency(ready)
              /\ copy' = ready /\ pc' = "create"

(* reconcile gives up, with a condition to show and when to come back.         *)
GiveUp(reason, delay) ==
    /\ copy' = [statusCache EXCEPT !.ready = reason]
    /\ after' = delay /\ pc' = "update" /\ UNCHANGED fire

CaughtUp == scanSynced /\ runsCache = runs

Reconcile ==
    /\ pc = "idle" /\ queue
    /\ PromptCaches => CaughtUp
    /\ queue' = FALSE /\ current' = scanSynced
    /\ \/ /\ specCache = "suspended" /\ GiveUp("Suspended", NoRequeue)
          /\ NoFault /\ UNCHANGED failed
       \/ /\ specCache # "suspended" /\ Fault       \* the Platform or the Runs cannot be read
          /\ copy' = statusCache /\ failed' = TRUE /\ pc' = "update" /\ UNCHANGED <<fire, after>>
       \/ /\ specCache # "suspended" /\ ~ platformReady /\ GiveUp("PlatformNotReady", 1)
          /\ NoFault /\ UNCHANGED failed
       \/ /\ specCache = "invalid" /\ platformReady /\ GiveUp("InvalidSchedule", NoRequeue)
          /\ NoFault /\ UNCHANGED failed
       \/ /\ specCache = "active" /\ platformReady /\ Decide(statusCache)
          /\ NoFault /\ UNCHANGED failed
    /\ UNCHANGED <<now, apiVars, platformReady, cacheVars, wake, doomed, changes, busy>>

(* The call ended in an error: what is left of reconcile is skipped.           *)
ReturnError ==
    /\ failed' = TRUE /\ pc' = "update" /\ Fault

Created ==
    /\ Len(scheduledFor) < MaxRuns
    /\ runs' = [runs EXCEPT ![Len(scheduledFor) + 1] = NewRun]
    /\ scheduledFor' = Append(scheduledFor, fire)

(* Create of a Run with a generated name.  An error may mean that the Run was  *)
(* not created, or that it was and the answer got lost.                        *)
createRun ==
    /\ pc = "create"
    /\ \/ Created /\ copy' = [copy EXCEPT !.lastRun = fire] /\ pc' = "gc"
          /\ NoFault /\ UNCHANGED failed
       \/ Created /\ ReturnError /\ UNCHANGED copy
       \/ ReturnError /\ UNCHANGED <<runs, scheduledFor, copy>>
    /\ UNCHANGED <<now, spec, status, platformReady, cacheVars, queue, wake, current, fire,
                   doomed, after, changes, busy>>

(* gcOldRuns lists the Runs and picks those to delete.                         *)
gcOldRuns ==
    /\ pc = "gc"
    /\ \/ /\ \E S \in Oldest("Succeeded", SuccessLimit), F \in Oldest("Failed", FailLimit) :
                doomed' = S \cup F
          /\ pc' = "delete" /\ NoFault /\ UNCHANGED failed
       \/ ReturnError /\ UNCHANGED doomed
    /\ UNCHANGED <<now, apiVars, platformReady, cacheVars, queue, wake, copy, current, fire,
                   after, changes, busy>>

(* One Delete; a Run that is gone already is no error.                         *)
deleteOldest ==
    /\ pc = "delete"
    /\ \/ /\ doomed = {}
          /\ copy' = [copy EXCEPT !.scheduled = "created"] /\ pc' = "update"
          /\ NoFault /\ UNCHANGED <<runs, doomed, failed>>
       \/ /\ doomed # {}
          /\ LET i == NextVictim(doomed)
             IN  runs' = [runs EXCEPT ![i] = NoRun] /\ doomed' = doomed \ {i}
          /\ NoFault /\ UNCHANGED <<pc, copy, failed>>
       \/ doomed # {} /\ ReturnError /\ UNCHANGED <<runs, doomed, copy>>
    /\ UNCHANGED <<now, spec, status, scheduledFor, platformReady, cacheVars, queue, wake,
                   current, fire, after, changes, busy>>

Sooner(t) == IF t < wake THEN t ELSE wake

Finish(again, at) ==
    /\ queue' = (queue \/ again)
    /\ wake' = at
    /\ pc' = "idle" /\ copy' = NewStatus /\ current' = FALSE /\ fire' = 0
    /\ doomed' = {} /\ after' = NoRequeue /\ failed' = FALSE

(* Status().Update and the result: a conflict comes back in a second, an error *)
(* after the rate limiter's delay, anything else at RequeueAfter.              *)
UpdateStatus ==
    /\ pc = "update"
    /\ \/ /\ current /\ NoFault
          /\ status' = copy /\ scanSynced' = (scanSynced /\ copy = status)
          /\ Finish(failed, IF failed \/ after = NoRequeue THEN wake ELSE Sooner(now + after))
       \/ ~ current /\ NoFault /\ Finish(FALSE, Sooner(now)) /\ UNCHANGED <<status, scanSynced>>
       \/ Fault /\ Finish(TRUE, wake) /\ UNCHANGED <<status, scanSynced>>
    /\ UNCHANGED <<now, spec, runs, scheduledFor, platformReady, specCache, statusCache,
                   runsCache, changes, busy>>

(* The process dies and its successor lists everything.                        *)
Crash ==
    /\ Fault
    /\ specCache' = spec /\ statusCache' = status /\ runsCache' = runs /\ scanSynced' = TRUE
    /\ Finish(TRUE, NoWake)
    /\ UNCHANGED <<now, apiVars, platformReady, changes, busy>>

ReconcileStep ==
    Reconcile \/ createRun \/ gcOldRuns \/ deleteOldest \/ UpdateStatus

-----------------------------------------------------------------------------
(* What wakes the controller.                                                  *)

Timer ==
    /\ wake <= now
    /\ queue' = TRUE /\ wake' = NoWake
    /\ UNCHANGED <<now, apiVars, platformReady, cacheVars, reconcileVars, faults, changes, busy>>

SyncScan ==
    /\ ~ scanSynced
    /\ specCache' = spec /\ statusCache' = status /\ scanSynced' = TRUE
    /\ queue' = TRUE
    /\ UNCHANGED <<now, apiVars, platformReady, runsCache, wake, reconcileVars, faults,
                   changes, busy>>

SyncRuns ==
    /\ runsCache # runs
    /\ runsCache' = runs
    /\ queue' = TRUE
    /\ UNCHANGED <<now, apiVars, platformReady, specCache, statusCache, scanSynced, wake,
                   reconcileVars, faults, changes, busy>>

(* scansForPlatform: any event of the Platform queues the Scan.                *)
PlatformFlips ==
    /\ changes < MaxChanges
    /\ platformReady' = ~ platformReady
    /\ queue' = TRUE /\ changes' = changes + 1
    /\ UNCHANGED <<now, apiVars, cacheVars, wake, reconcileVars, faults, busy>>

-----------------------------------------------------------------------------
(* The rest of the world: the user edits the Scan, the Run controller finishes *)
(* Runs, time passes.                                                          *)

EditScan(s) ==
    /\ changes < MaxChanges /\ s # spec
    /\ spec' = s /\ scanSynced' = FALSE /\ current' = FALSE /\ changes' = changes + 1
    /\ UNCHANGED <<now, status, runs, scheduledFor, platformReady, specCache, statusCache,
                   runsCache, queue, wake, pc, copy, fire, doomed, after, failed, faults, busy>>

RunEnds(i, phase) ==
    /\ runs[i].phase = "active"
    /\ runs' = [runs EXCEPT ![i] = [phase |-> phase, completion |-> now]]
    /\ UNCHANGED <<now, spec, status, scheduledFor, platformReady, cacheVars, queue, wake,
                   reconcileVars, faults, changes, busy>>

Due == queue \/ wake <= now \/ pc # "idle" \/ ~ CaughtUp

Tick ==
    /\ now < MaxTime
    /\ Punctual => ~ Due
    /\ now' = now + 1
    /\ busy' = IF now' \in Fires /\ WithPhase(runs, {"active"}) # {} THEN busy \cup {now'} ELSE busy
    /\ UNCHANGED <<apiVars, platformReady, cacheVars, queue, wake, reconcileVars, faults, changes>>

Next ==
    \/ ReconcileStep
    \/ Crash
    \/ Timer \/ SyncScan \/ SyncRuns \/ PlatformFlips
    \/ \E s \in {"active", "suspended", "invalid"} : EditScan(s)
    \/ \E i \in RunIds, phase \in Terminal : RunEnds(i, phase)
    \/ Tick

(* The worker goroutine keeps going, timers fire, watches deliver, Runs end    *)
(* and time passes.                                                            *)
Fairness ==
    /\ WF_vars(ReconcileStep) /\ WF_vars(Timer) /\ WF_vars(SyncScan) /\ WF_vars(SyncRuns)
    /\ WF_vars(\E i \in RunIds, phase \in Terminal : RunEnds(i, phase))
    /\ WF_vars(Tick)

Spec == Init /\ [][Next]_vars
FairSpec == Spec /\ Fairness

-----------------------------------------------------------------------------
Times == 0..Never
StatusType ==
    [lastRun : Times, lastSuccess : Times, nextRun : Times, active : SUBSET RunIds,
     ready : {"Unknown", "Suspended", "PlatformNotReady", "InvalidSchedule", "NextRunComputed"},
     scheduled : {"Unknown", "next", "skipping", "created"}]
RunType ==
    {NoRun, NewRun} \cup [phase : Terminal, completion : 1..MaxTime]
Specs == {"active", "suspended", "invalid"}

TypeOK ==
    /\ now \in 1..MaxTime
    /\ spec \in Specs /\ specCache \in Specs
    /\ status \in StatusType /\ statusCache \in StatusType /\ copy \in StatusType
    /\ runs \in [RunIds -> RunType] /\ runsCache \in [RunIds -> RunType]
    /\ scheduledFor \in Seq(Fires) /\ Len(scheduledFor) <= MaxRuns
    /\ \A i \in RunIds : runs[i] # NoRun => i <= Len(scheduledFor)
    /\ platformReady \in BOOLEAN /\ scanSynced \in BOOLEAN /\ queue \in BOOLEAN
    /\ wake \in 1..NoWake
    /\ pc \in {"idle", "create", "gc", "delete", "update"}
    /\ current \in BOOLEAN /\ failed \in BOOLEAN
    /\ fire \in {0} \cup Fires
    /\ doomed \subseteq RunIds
    /\ after \in {NoRequeue} \cup 1..RequeueAfterMax
    /\ faults \in 0..MaxFaults /\ changes \in 0..MaxChanges
    /\ busy \subseteq Fires

(* "Active Runs are never GC'd": gcOldRuns judges from a cache that may be      *)
(* behind, yet no Run is deleted before it has ended.                           *)
ActiveRunsAreKept ==
    [][\A i \in RunIds : runs[i].phase = "active" => runs'[i] # NoRun]_vars

(* "keep the 3 newest Succeeded Runs": a Succeeded Run is deleted only when     *)
(* SuccessLimit others that ended no earlier remain.                            *)
NewestRunsAreKept ==
    [][\A i \in RunIds : runs[i].phase = "Succeeded" /\ runs'[i] = NoRun =>
            Cardinality({k \in WithPhase(runs, {"Succeeded"}) \ {i} :
                            runs[k].completion >= runs[i].completion}) >= SuccessLimit]_vars

(* Runs are created for the schedule's fire times, in their order, never ahead  *)
(* of time, whatever lastRunTime is set back to.                                *)
FiresNeverGoBack ==
    \A i \in 1..Len(scheduledFor) :
        /\ scheduledFor[i] <= now
        /\ i > 1 => scheduledFor[i - 1] <= scheduledFor[i]

(* lastSuccessfulRunTime, which is computed anew from the Runs that history     *)
(* limits have left, never moves back.                                          *)
LastSuccessNeverGoesBack == [][status'.lastSuccess >= status.lastSuccess]_vars

(* "One Run per scheduled fire-time".                                           *)
OneRunPerFire ==
    \A i, j \in 1..Len(scheduledFor) : scheduledFor[i] = scheduledFor[j] => i = j

(* Forbid: "skip if a non-terminal Run exists", so a Scan never has two.        *)
OneActiveRun == Cardinality(WithPhase(runs, {"active"})) <= 1

Ready == spec = "active" /\ platformReady

Ran(f) == \E i \in 1..Len(scheduledFor) : scheduledFor[i] >= f

(* A fire time that comes while the Scan is ready gets its Run, unless a Run    *)
(* was in flight or the Scan stops being ready: no conflict, crash, failing     *)
(* call or lost timer drops it, and the first fire of a new Scan (INV-0002) is   *)
(* not dropped either.                                                          *)
FiresAreServed ==
    \A f \in Fires : (now = f /\ Ready) ~> (Ran(f) \/ f \in busy \/ ~ Ready)
=============================================================================
