----------------------------- MODULE CdkDeployer -----------------------------
(***************************************************************************)
(* CDKDeployer: synthesis, type checks and deployment of one process, one  *)
(* call after the other (OneDeployAtATime of FileWatchingSandbox), with    *)
(* the events it and the CDK toolkit send to the terminal.  The toolkit,   *)
(* the app it imports and the compiler's verdicts are external: each call  *)
(* is given its causes of failure when it begins.                          *)
(***************************************************************************)
EXTENDS DeploymentProgress

CONSTANTS MaxDeploys    \* bound: calls of deploy

ASSUME MaxDeploysAssumption == MaxDeploys \in Nat \ {0}

Deployments == 1..MaxDeploys

VARIABLES
    dpc,        \* where deploy() is
    deploys,    \* calls of deploy so far
    cause,      \* what is wrong with the app of this call
    validate,   \* deployProps.validateAppSources
    synthError, \* the error caught around synth
    assembly,   \* the synthesized assembly: "none", "held" or "disposed"
    monitoring, \* the toolkit monitors the stack
    reported,   \* the status each resource has last reported
    result,     \* outcome of the latest call
    swapped     \* ghost: resources were swapped in this call

vars == <<dpc, deploys, cause, validate, synthError, assembly, monitoring, reported,
          result, swapped, displayVars>>

\* Causes: "types", errors that the compiler finds; "env", only the
\* generated files of function environments are missing; "synth", the app
\* throws; "worker", the compiler's worker dies.
Causes == SUBSET {"types", "env", "synth", "worker"}
Verdicts == {"ok", "SyntaxError", "FunctionEnvVarFileNotGeneratedError", "TSCompilerWorkerFault"}

\* compileProject: an error of the compiler, or the exit code of the worker.
Verdict ==
    IF "worker" \in cause THEN "TSCompilerWorkerFault"
    ELSE IF "types" \in cause THEN "SyntaxError"
    ELSE IF "env" \in cause THEN "FunctionEnvVarFileNotGeneratedError" ELSE "ok"

TypeOK ==
    /\ dpc \in {"idle", "synth", "synthesized", "types", "verdict", "deploy", "deploying"}
    /\ deploys \in 0..MaxDeploys
    /\ cause \in Causes
    /\ validate \in BOOLEAN
    /\ synthError \in BOOLEAN
    /\ assembly \in {"none", "held", "disposed"}
    /\ monitoring \in BOOLEAN
    /\ reported \in [Resources -> Statuses \union {"none"}]
    /\ result \in (Verdicts \ {"ok"}) \union {"none", "SynthError", "DeployError", "succeeded"}
    /\ swapped \in BOOLEAN
    /\ DisplayTypeOK(Deployments)

Init ==
    /\ dpc = "idle"
    /\ deploys = 0
    /\ cause = {}
    /\ validate = FALSE
    /\ synthError = FALSE
    /\ assembly = "none"
    /\ monitoring = FALSE
    /\ reported = [r \in Resources |-> "none"]
    /\ result = "none"
    /\ swapped = FALSE
    /\ DisplayInit

\* SYNTH_STARTED.  The previous call's assembly is nobody's any more.
Begin ==
    /\ dpc = "idle"
    /\ deploys < MaxDeploys
    /\ deploys' = deploys + 1
    /\ cause' \in Causes
    /\ validate' \in BOOLEAN
    /\ synthError' = FALSE
    /\ assembly' = "none"
    /\ result' = "none"
    /\ dpc' = "synth"
    /\ swapped' = FALSE
    /\ Spin("synth")
    /\ UNCHANGED <<monitoring, reported>>

Synthesize ==
    /\ dpc = "synth"
    /\ synthError' = ("synth" \in cause)
    /\ assembly' = IF "synth" \in cause THEN "none" ELSE "held"
    /\ dpc' = "synthesized"
    /\ StopSpinner          \* SYNTH_FINISHED
    /\ UNCHANGED <<deploys, cause, validate, monitoring, reported, result, swapped>>

TypeChecksStart ==
    /\ dpc = "synthesized"
    /\ dpc' = IF validate THEN "types" ELSE "verdict"
    /\ Spin("types")        \* TS_STARTED
    /\ UNCHANGED <<deploys, cause, validate, synthError, assembly, monitoring, reported, result, swapped>>

\* Mutant: the compiler's errors are dropped when synth has failed as well.
TypeChecksEndSynthFirst ==
    /\ dpc = "types"
    /\ IF Verdict = "ok" THEN dpc' = "verdict" /\ UNCHANGED result
       ELSE /\ dpc' = "idle"
            /\ result' = IF synthError THEN "SynthError" ELSE Verdict
    /\ StopSpinner
    /\ UNCHANGED <<deploys, cause, validate, synthError, assembly, monitoring, reported, swapped>>

\* Errors of the compiler come before those of synth, but for the missing
\* environment files that the failed synth has not generated.
TypeChecksEnd ==
    /\ dpc = "types"
    /\ IF Verdict = "ok" THEN dpc' = "verdict" /\ UNCHANGED result
       ELSE /\ dpc' = "idle"
            /\ result' = IF synthError /\ Verdict = "FunctionEnvVarFileNotGeneratedError"
                         THEN "SynthError" ELSE Verdict
    /\ StopSpinner          \* TS_FINISHED, in the finally block
    /\ UNCHANGED <<deploys, cause, validate, synthError, assembly, monitoring, reported, swapped>>

AfterTypeChecks ==
    /\ dpc = "verdict"
    /\ dpc' = IF synthError THEN "idle" ELSE "deploy"
    /\ result' = IF synthError THEN "SynthError" ELSE result
    /\ UNCHANGED <<deploys, cause, validate, synthError, assembly, monitoring, reported, swapped, displayVars>>

\* toolkit.deploy: assets, then the start of the deployment.
PublishAssets ==
    /\ dpc = "deploy"
    /\ AssetsEvent
    /\ UNCHANGED <<dpc, deploys, cause, validate, synthError, assembly, monitoring, reported, result, swapped>>

DeployStarts ==
    /\ dpc = "deploy"
    /\ dpc' = "deploying"
    /\ StartEvent
    /\ UNCHANGED <<deploys, cause, validate, synthError, assembly, monitoring, reported, result, swapped>>

\* Either resources are swapped or the stack is monitored.
HotSwapped ==
    /\ dpc = "deploying" /\ ~monitoring
    /\ swapped' = TRUE
    /\ HotSwapEvent
    /\ UNCHANGED <<dpc, deploys, cause, validate, synthError, assembly, monitoring, reported, result>>

MonitorStarts ==
    /\ dpc = "deploying" /\ ~monitoring
    /\ monitoring' = TRUE
    /\ reported' = [r \in Resources |-> "none"]
    /\ UNCHANGED <<dpc, deploys, cause, validate, synthError, assembly, result, swapped, displayVars>>

\* The statuses CloudFormation reports after one another.
Follows == [none |-> {"IN_PROGRESS"},
            IN_PROGRESS |-> {"FAILED", "CANCELLED", "COMPLETE", "ROLLBACK_IN_PROGRESS",
                             "COMPLETE_CLEANUP_IN_PROGRESS"},
            COMPLETE_CLEANUP_IN_PROGRESS |-> {"COMPLETE"},
            ROLLBACK_IN_PROGRESS |-> {"COMPLETE", "COMPLETE_CLEANUP_IN_PROGRESS"},
            COMPLETE |-> {"DELETE_COMPLETE"},
            FAILED |-> {"DELETE_COMPLETE"},
            CANCELLED |-> {"DELETE_COMPLETE"},
            DELETE_COMPLETE |-> {}]

Activity(r, status) ==
    /\ monitoring
    /\ status \in Follows[reported[r]]
    /\ reported' = [reported EXCEPT ![r] = status]
    /\ ActivityEvent(<<deploys, r>>, status)
    /\ UNCHANGED <<dpc, deploys, cause, validate, synthError, assembly, monitoring, result, swapped>>

Ongoing ==
    /\ monitoring
    /\ OngoingEvent
    /\ UNCHANGED <<dpc, deploys, cause, validate, synthError, assembly, monitoring, reported, result, swapped>>

\* I5503 follows the end of monitoring, successful or not.
MonitorStops ==
    /\ monitoring
    /\ monitoring' = FALSE
    /\ StopEvent
    /\ UNCHANGED <<dpc, deploys, cause, validate, synthError, assembly, reported, result, swapped>>

OutputsShown ==
    /\ dpc = "deploying" /\ ~monitoring
    /\ StopEvent
    /\ UNCHANGED <<dpc, deploys, cause, validate, synthError, assembly, monitoring, reported, result, swapped>>

\* Mutant: the assembly is not given back.
DeploySucceedsHolding ==
    /\ dpc = "deploying" /\ ~monitoring
    /\ dpc' = "idle"
    /\ result' = "succeeded"
    /\ TimingEvent
    /\ UNCHANGED <<deploys, cause, validate, synthError, monitoring, reported, assembly, swapped>>

DeploySucceeds ==
    /\ dpc = "deploying" /\ ~monitoring
    /\ dpc' = "idle"
    /\ result' = "succeeded"
    /\ assembly' = "disposed"
    /\ TimingEvent
    /\ UNCHANGED <<deploys, cause, validate, synthError, monitoring, reported, swapped>>

\* The toolkit rejects, before the start, before monitoring or after it.
DeployFails ==
    /\ dpc \in {"deploy", "deploying"} /\ ~monitoring
    /\ dpc' = "idle"
    /\ result' = "DeployError"
    /\ assembly' = "disposed"
    /\ DeployFailedEvent
    /\ UNCHANGED <<deploys, cause, validate, synthError, monitoring, reported, swapped>>

SpinnerTimer ==
    /\ SpinnerTimesOut
    /\ UNCHANGED <<dpc, deploys, cause, validate, synthError, assembly, monitoring, reported, result, swapped>>

Next ==
    \/ Begin \/ Synthesize \/ TypeChecksStart \/ TypeChecksEnd \/ AfterTypeChecks
    \/ PublishAssets \/ DeployStarts \/ HotSwapped \/ MonitorStarts
    \/ \E r \in Resources, status \in Statuses : Activity(r, status)
    \/ Ongoing \/ MonitorStops \/ OutputsShown \/ DeploySucceeds \/ DeployFails
    \/ SpinnerTimer

Spec == Init /\ [][Next]_vars

-----------------------------------------------------------------------------
(* Properties. *)

Ended == dpc = "idle" /\ deploys > 0

\* Nothing is deployed unless the app synthesizes and, when its sources are
\* validated, compiles; and what is told of an app that compiles badly is
\* the compiler's finding, "we prefer to show errors from TS" (deploy),
\* unless the finding is only a consequence of the failed synth.
OnlySoundAppsDeployed ==
    /\ dpc \in {"deploy", "deploying"} =>
          "synth" \notin cause /\ (validate => Verdict = "ok")
    /\ Ended /\ validate /\ Verdict \in {"SyntaxError", "TSCompilerWorkerFault"} =>
          result = Verdict
    /\ Ended /\ validate /\ cause = {"env", "synth"} => result = "SynthError"

\* What a call left on the singleton logger, above all one that failed, does
\* not show in a later one (AmplifyEventLogger): after a success the terminal
\* is clear; the resources on display are those of the deployment at work; a
\* latency is that of a hot swap exactly when this deployment swapped.
SuccessClearsTerminal == ~progress.on /\ spinner = "none"
DisplayIsOfThisDeployment == Displayed(progress) \subseteq {deploys} \X Resources
LatencyOfThisDeployment == latency = "hotSwap" <=> swapped

TerminalTellsThisDeployment ==
    /\ Ended /\ result = "succeeded" => SuccessClearsTerminal /\ LatencyOfThisDeployment
    /\ dpc = "deploying" => DisplayIsOfThisDeployment

\* toolkit.deploy is given an assembly synthesized in this call and not yet
\* disposed of, and the assembly is disposed of however that call ends.
AssemblyNotLeaked ==
    /\ Ended /\ result \in {"succeeded", "DeployError"} => assembly = "disposed"
    /\ dpc \in {"deploy", "deploying"} => assembly = "held"

=============================================================================
