------------------------------ MODULE DeployRuns ------------------------------
(***************************************************************************)
(* The activations of the sandbox's deployAndWatch function: the callers   *)
(* of the executor and of the function log streamer.                       *)
(***************************************************************************)
CONSTANTS
    Runs,       \* bound: activations alive at once
    NoRun       \* none of them

ASSUME NoRunAssumption == NoRun \notin Runs
=============================================================================
