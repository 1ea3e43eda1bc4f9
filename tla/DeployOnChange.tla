---------------------------- MODULE DeployOnChange ----------------------------
(***************************************************************************)
(* What a watched sandbox promises: deployments follow changes, one at a   *)
(* time, each covering every change made before it began, and no change    *)
(* waits forever while the sources are watched, unless its report was      *)
(* missed.                                                                 *)
(***************************************************************************)
EXTENDS Naturals

VARIABLES
    stale,          \* there is a change no attempt to deploy covers
    missed,         \* the report of the latest change was missed
    watched,        \* changes are being watched
    inProgress      \* deployments in progress

vars == <<stale, missed, watched, inProgress>>

Init ==
    /\ stale = TRUE
    /\ missed = FALSE
    /\ watched = FALSE
    /\ inProgress = 0

Change ==
    /\ stale' = TRUE
    /\ missed' = FALSE
    /\ UNCHANGED <<watched, inProgress>>

Miss ==
    /\ missed' = TRUE
    /\ UNCHANGED <<stale, watched, inProgress>>

WatchOrNot ==
    /\ watched' \in BOOLEAN
    /\ UNCHANGED <<stale, missed, inProgress>>

\* A deployment begins and covers all changes so far.
Begin ==
    /\ inProgress = 0
    /\ inProgress' = 1
    /\ stale' = FALSE
    /\ missed' = FALSE
    /\ UNCHANGED watched

End ==
    /\ inProgress = 1
    /\ inProgress' = 0
    /\ UNCHANGED <<stale, missed, watched>>

\* An attempt to deploy is made; it will read the sources after this, or
\* fail before it could.
Attempt ==
    /\ stale' = FALSE
    /\ missed' = FALSE
    /\ UNCHANGED <<watched, inProgress>>

Next == Change \/ Miss \/ WatchOrNot \/ Begin \/ End \/ Attempt

\* A change that is watched for and was not missed does not wait forever.
Spec ==
    /\ Init /\ [][Next]_vars
    /\ WF_vars(watched /\ stale /\ ~missed /\ (Begin \/ Attempt))
=============================================================================
