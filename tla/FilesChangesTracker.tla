------------------------- MODULE FilesChangesTracker -------------------------
(***************************************************************************)
(* The snapshot FilesChangesTracker accumulates and what the sandbox makes *)
(* of it: whether the next deployment type checks the app's sources.       *)
(***************************************************************************)

Snapshots == [hadTypeScriptFilesAtStart : BOOLEAN,
              didAnyFileChangeSinceStart : BOOLEAN,
              didAnyTypeScriptFileChangeSinceLastSnapshot : BOOLEAN]

NewTracker(hasTypeScript) ==
    [hadTypeScriptFilesAtStart |-> hasTypeScript,
     didAnyFileChangeSinceStart |-> FALSE,
     didAnyTypeScriptFileChangeSinceLastSnapshot |-> FALSE]

\* trackFileChange() on every file of a batch of events; a batch is the set
\* of kinds, "ts" or "other", its files are of.
TrackFileChanges(t, kinds) ==
    [t EXCEPT
        !.didAnyFileChangeSinceStart = @ \/ kinds # {},
        !.didAnyTypeScriptFileChangeSinceLastSnapshot = @ \/ "ts" \in kinds]

\* Mutant: a new snapshot instead of the old one with its flag reset.
ResetSnapshotReplaced(t) == [didAnyTypeScriptFileChangeSinceLastSnapshot |-> FALSE]

\* What getAndResetSnapshot() leaves behind.
ResetSnapshot(t) ==
    [t EXCEPT !.didAnyTypeScriptFileChangeSinceLastSnapshot = FALSE]

ShouldValidateAppSources(t) ==
    \/ t.hadTypeScriptFilesAtStart /\ ~t.didAnyFileChangeSinceStart
    \/ t.didAnyTypeScriptFileChangeSinceLastSnapshot
=============================================================================
