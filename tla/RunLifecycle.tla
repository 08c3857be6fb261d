---------------------------- MODULE RunLifecycle ----------------------------
(***************************************************************************)
(* What a RenovateRun promises to whoever watches its status.phase: it is a  *)
(* cursor that only moves forward, it says Running only once a worker Job    *)
(* exists, Succeeded only once every worker of that Job has exited 0, and    *)
(* never leaves Succeeded or Failed.  How discovery, credentials, caches and  *)
(* crashes get there is not said.                                             *)
(***************************************************************************)
CONSTANT Runs

VARIABLES
    phase,      \* the cursor a client sees
    launched,   \* Runs for which a worker Job has been created
    completed   \* Runs with a worker Job all of whose workers exited 0

vars == <<phase, launched, completed>>

Terminal == {"Succeeded", "Failed"}

Init ==
    /\ phase = [r \in Runs |-> "Pending"]
    /\ launched = {}
    /\ completed = {}

Move(r, from, to) ==
    /\ phase[r] \in from
    /\ phase' = [phase EXCEPT ![r] = to]
    /\ UNCHANGED <<launched, completed>>

Admit(r) == Move(r, {"Pending"}, "Discovering")

Dispatch(r) == r \in launched /\ Move(r, {"Pending", "Discovering"}, "Running")

Succeed(r) == r \in completed /\ Move(r, {"Running"}, "Succeeded")

Fail(r) == Move(r, {"Pending", "Discovering", "Running"}, "Failed")

(* Workers of several Runs at once: Runs whose names share a Job.             *)
Launch(S) ==
    /\ launched' = launched \cup S
    /\ UNCHANGED <<phase, completed>>

Complete(S) ==
    /\ S \subseteq launched
    /\ completed' = completed \cup S
    /\ UNCHANGED <<phase, launched>>

Next ==
    \/ \E r \in Runs : Admit(r) \/ Dispatch(r) \/ Succeed(r) \/ Fail(r)
    \/ \E S \in SUBSET Runs : Launch(S) \/ Complete(S)

Spec == Init /\ [][Next]_vars
=============================================================================
