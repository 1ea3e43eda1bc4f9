----------------------- MODULE MCFileWatchingSandbox -----------------------
(***************************************************************************)
(* Small instances of FileWatchingSandbox for TLC.                         *)
(***************************************************************************)
EXTENDS FileWatchingSandbox, TLC

RunSymmetry == Permutations(Runs)

\* Bound: a watched sandbox is not recreated, since deployments may overlap in
\* one that was.
Declines == watchForChanges => \A r \in Runs : pc[r] # "stopping"

DecliningSpec == Init /\ [][Next /\ Declines']_vars /\ AnsweringFairness
=============================================================================
