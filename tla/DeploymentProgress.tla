-------------------------- MODULE DeploymentProgress --------------------------
(***************************************************************************)
(* What the terminal shows of a deployment: AmplifyEventLogger, which      *)
(* listens to the events of the deployer and of the CDK toolkit, its       *)
(* CfnDeploymentProgressLogger and the printer's spinner.  The bridge      *)
(* hands an event to every listener and awaits them all, so an event is    *)
(* one step.  Texts, colours and widths are left out.                      *)
(***************************************************************************)
EXTENDS Naturals, FiniteSets

CONSTANTS Resources     \* logical ids of the stack's resources

VARIABLES
    spinner,    \* what the running spinner says, "none" without one
    progress,   \* cfnDeploymentProgressLogger
    isHotSwap,  \* AmplifyEventLogger.isHotSwap
    latency     \* the attribute the latest finished deployment was given

displayVars == <<spinner, progress, isHotSwap, latency>>

Labels == {"none", "synth", "types", "assets", "deployment"}

\* An activity is the pair of a deployment and a resource.
NoProgress == [on |-> FALSE, inProgress |-> {}, failures |-> {}, completed |-> {}, done |-> 0]
NewProgress == [NoProgress EXCEPT !.on = TRUE]

Statuses == {"IN_PROGRESS", "FAILED", "CANCELLED", "COMPLETE", "DELETE_COMPLETE",
             "COMPLETE_CLEANUP_IN_PROGRESS", "ROLLBACK_IN_PROGRESS"}
InProgress == {"IN_PROGRESS", "COMPLETE_CLEANUP_IN_PROGRESS", "ROLLBACK_IN_PROGRESS"}
Failure == {"FAILED", "ROLLBACK_IN_PROGRESS"}
Complete == {"COMPLETE", "DELETE_COMPLETE"}

\* Mutant: the branches swapped.
ResourcesDoneSwapped(p, a, status) ==
    IF status \notin Complete THEN p.done
    ELSE IF a \in p.completed THEN p.done + 1 ELSE p.done - 1

\* A second completion of a resource is taken for its rollback.
ResourcesDone(p, a, status) ==
    CASE status = "COMPLETE_CLEANUP_IN_PROGRESS" -> p.done + 1
      [] status \in Complete /\ a \notin p.completed -> p.done + 1
      [] status \in Complete /\ a \in p.completed -> IF p.done = 0 THEN 0 ELSE p.done - 1
      [] OTHER -> p.done

\* A resource cancelled because another failed is no failure.
AddActivity(p, a, status) ==
    IF ~p.on THEN p
    ELSE [p EXCEPT
            !.inProgress = IF status \in InProgress THEN @ \union {a} ELSE @ \ {a},
            !.failures = IF status \in Failure THEN @ \union {a} ELSE @,
            !.completed = IF status \in Complete THEN @ \union {a} ELSE @,
            !.done = ResourcesDone(p, a, status)]

\* Failures stay on display, and so do the resources at work.
Displayed(p) == p.failures \union p.inProgress

DisplayTypeOK(deployments) ==
    /\ spinner \in Labels
    /\ progress.on \in BOOLEAN
    /\ Displayed(progress) \union progress.completed \subseteq deployments \X Resources
    /\ progress.done \in Nat
    /\ isHotSwap \in BOOLEAN
    /\ latency \in {"none", "hotSwap", "deployment"}

DisplayInit ==
    /\ spinner = "none"
    /\ progress = NoProgress
    /\ isHotSwap = FALSE
    /\ latency = "none"

-----------------------------------------------------------------------------

\* The spinner's own timer.
SpinnerTimesOut ==
    /\ spinner # "none"
    /\ spinner' = "none"
    /\ UNCHANGED <<progress, isHotSwap, latency>>

\* The deployer's own events.
Spin(label) == spinner' = label /\ UNCHANGED <<progress, isHotSwap, latency>>
StopSpinner == Spin("none")

\* "Checking for previously published assets": a running spinner is left alone.
AssetsEvent ==
    /\ spinner' = IF spinner = "none" THEN "assets" ELSE spinner
    /\ UNCHANGED <<progress, isHotSwap, latency>>

\* I5100 and I7100: announce the assets and begin a display, unless one is there.
StartEvent ==
    /\ spinner' = IF progress.on THEN spinner ELSE "deployment"
    /\ progress' = IF progress.on THEN progress ELSE NewProgress
    /\ UNCHANGED <<isHotSwap, latency>>

\* I5403
HotSwapEvent ==
    /\ isHotSwap' = TRUE
    /\ spinner' = IF spinner = "none" THEN spinner ELSE "deployment"
    /\ UNCHANGED <<progress, latency>>

\* I5502
ActivityEvent(a, status) ==
    /\ progress' = AddActivity(progress, a, status)
    /\ UNCHANGED <<spinner, isHotSwap, latency>>

\* "has an ongoing operation in progress": print the display on the spinner.
OngoingEvent ==
    /\ spinner' = IF progress.on /\ spinner = "none" THEN "deployment" ELSE spinner
    /\ UNCHANGED <<progress, isHotSwap, latency>>

EndDisplay ==
    /\ spinner' = IF progress.on THEN "none" ELSE spinner
    /\ progress' = NoProgress

\* I5503 and I5900: the display ends.
StopEvent == EndDisplay /\ UNCHANGED <<isHotSwap, latency>>

\* I5000: the display ends and the deployment's latency is recorded.
TimingEvent ==
    /\ EndDisplay
    /\ latency' = IF isHotSwap THEN "hotSwap" ELSE "deployment"
    /\ isHotSwap' = FALSE

\* Mutant: a failed deployment leaves its mark.
DeployFailedUnnoticed == UNCHANGED displayVars

DeployFailedEvent ==
    /\ isHotSwap' = FALSE
    /\ UNCHANGED <<spinner, progress, latency>>
=============================================================================
