----------------------------- MODULE MCCommandLine -----------------------------
(***************************************************************************)
(* The models of the command line tool besides the sandbox, for TLC: its   *)
(* deployments and its notices.  They share no state: in a behaviour only  *)
(* one of them moves, the other has used up its bounds.                    *)
(***************************************************************************)
EXTENDS CdkDeployer, Notices, TLC

\* One notice of each way to forget: printed once, acknowledged.
MCFrequency == [n \in Ids |-> IF n = "o" THEN "once" ELSE "deployment"]

Symmetry == Permutations(Processes)

DeployerIdle ==
    /\ deploys = MaxDeploys
    /\ dpc = "idle" /\ cause = {} /\ validate = FALSE /\ synthError = FALSE
    /\ assembly = "none" /\ monitoring = FALSE /\ swapped = FALSE
    /\ reported = [r \in Resources |-> "none"]
    /\ result = "none"
    /\ DisplayInit

NoticesIdle ==
    /\ clock = MaxTicks /\ started = MaxActivations
    /\ published = Ids
    /\ disk = [ack |-> Absent, meta |-> Absent]
    /\ running = [p \in Processes |-> "none"]
    /\ memory = [p \in Processes |-> NoMemory]
    /\ work = [a \in Activations |-> NoWork]
    /\ asked = {} /\ acknowledged = {} /\ reappeared = {} /\ printed = {} /\ unseen = {}
    /\ known = [p \in Processes |-> {}]
    /\ disturbed = FALSE

CommandLineInit ==
    \/ Init /\ NoticesIdle
    \/ DeployerIdle /\ NoticesInit

CommandLineNext ==
    \/ Next /\ UNCHANGED noticesVars
    \/ NoticesNext /\ UNCHANGED vars

CommandLineSpec == CommandLineInit /\ [][CommandLineNext]_<<vars, noticesVars>>

\* The variables of both have their types: the values every handler is written for.
CommandLineTypeOK == TypeOK /\ NoticesTypeOK
================================================================================
