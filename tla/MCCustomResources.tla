--------------------------- MODULE MCCustomResources ---------------------------
(***************************************************************************)
(* The two custom resources of a branch, for TLC: the fetcher of its       *)
(* secrets and the linker of its stack.  They share no state: in a         *)
(* behaviour only the one that `resourceKind` names moves.                 *)
(***************************************************************************)
EXTENDS BackendSecrets, BranchLinker, TLC

VARIABLE resourceKind

CustomResourcesInit ==
    /\ SecretsInit /\ LinkerInit
    /\ resourceKind = "secrets" \/ (resourceKind = "linker" /\ ~isSandbox)

CustomResourcesNext ==
    \/ resourceKind = "secrets" /\ SecretsNext /\ UNCHANGED <<linkerVars, resourceKind>>
    \/ resourceKind = "linker" /\ LinkerNext /\ UNCHANGED <<secretsVars, resourceKind>>

CustomResourcesSpec ==
    CustomResourcesInit /\ [][CustomResourcesNext]_<<secretsVars, linkerVars, resourceKind>>

\* Secrets are fetched in any order: their names do not matter.
Symmetry == Permutations(Secrets)

\* The variables of both have their types: no stamp is later than the clock can
\* be, and no link names a stack that was never made.
CustomResourcesTypeOK == SecretsTypeOK /\ LinkerTypeOK
================================================================================
