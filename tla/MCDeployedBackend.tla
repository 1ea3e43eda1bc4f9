--------------------------- MODULE MCDeployedBackend ---------------------------
(***************************************************************************)
(* What has to follow the backend once it is deployed, for TLC: the file   *)
(* of its outputs on the developer's machine, and the environment of a     *)
(* running function.  They share no state: in a behaviour only the one     *)
(* that `follower` names moves.                                            *)
(***************************************************************************)
EXTENDS SandboxOutputs, FunctionEnvironment

VARIABLE follower

DeployedBackendInit ==
    /\ Init /\ EnvironmentInit
    /\ follower = "file" \/ (follower = "function" /\ file = NoFile)

DeployedBackendNext ==
    \/ follower = "file" /\ Next /\ UNCHANGED <<environmentVars, follower>>
    \/ follower = "function" /\ EnvironmentNext /\ UNCHANGED <<vars, follower>>

\* Where the file moves, nothing of the function's fairness is ever enabled.
DeployedBackendSpec ==
    /\ DeployedBackendInit
    /\ [][DeployedBackendNext]_<<vars, environmentVars, follower>>
    /\ EnvironmentFairness

\* The variables of both have their types: the numbers of operations and versions
\* stay within what there has been, and every lookup asks for parameters only.
DeployedBackendTypeOK == TypeOK /\ EnvironmentTypeOK
================================================================================
