--------------------------- MODULE SandboxExecutor ---------------------------
(***************************************************************************)
(* AmplifySandboxExecutor: one debounced invoke() shared by deploy and     *)
(* destroy.  Calls that arrive while its timer runs join the pending       *)
(* promise, and when the timer fires only the callback of the LAST call    *)
(* runs: all callers get its outcome.  A running callback belongs to the   *)
(* run whose callback it is, its leader.                                   *)
(***************************************************************************)

EXTENDS DeployRuns

VARIABLES
    invoked,    \* callers of the pending promise; timer running iff nonempty
    lastCall,   \* the last of them
    callback,   \* what each caller asked for
    leader,     \* whose callback runs for each caller
    outcome     \* what invoke() settled with, until the caller consumes it

executorVars == <<invoked, lastCall, callback, leader, outcome>>

Outcomes == {"ok", "failed", "unsupported"}

ExecutorInit ==
    /\ invoked = {}
    /\ lastCall = NoRun
    /\ callback = [r \in Runs |-> "none"]
    /\ leader = [r \in Runs |-> NoRun]
    /\ outcome = [r \in Runs |-> "none"]

\* this.invoke(callback), from deploy() or destroy().
Invoke(r, operation) ==
    /\ invoked' = invoked \union {r}
    /\ lastCall' = r
    /\ callback' = [callback EXCEPT ![r] = operation]
    /\ UNCHANGED <<leader, outcome>>

\* The 100 ms timer fires.
TimerFires ==
    /\ invoked # {}
    /\ leader' = [r \in Runs |-> IF r \in invoked THEN lastCall ELSE leader[r]]
    /\ invoked' = {}
    /\ lastCall' = NoRun
    /\ UNCHANGED <<callback, outcome>>

\* The callback of r settles with result o, for all who wait for it.
CallbackSettles(r, o) ==
    /\ leader[r] = r
    /\ outcome' = [q \in Runs |-> IF leader[q] = r THEN o ELSE outcome[q]]
    /\ leader' = [q \in Runs |-> IF leader[q] = r THEN NoRun ELSE leader[q]]
    /\ UNCHANGED <<invoked, lastCall, callback>>

\* The caller resumes with the outcome.
Consume(r) ==
    /\ outcome' = [outcome EXCEPT ![r] = "none"]
    /\ callback' = [callback EXCEPT ![r] = "none"]
    /\ UNCHANGED <<invoked, lastCall, leader>>

\* cdk operations in progress.
RunningOperations(operation) ==
    {r \in Runs : leader[r] = r /\ callback[r] = operation}

ExecutorTypeOK ==
    /\ invoked \subseteq Runs
    /\ lastCall \in Runs \union {NoRun}
    /\ callback \in [Runs -> {"none", "deploy", "destroy"}]
    /\ leader \in [Runs -> Runs \union {NoRun}]
    /\ outcome \in [Runs -> Outcomes \union {"none"}]
=============================================================================
