---------------------------- MODULE SandboxOutputs ----------------------------
(***************************************************************************)
(* The outputs file of a sandbox: written by the event handlers that the   *)
(* sandbox command attaches, read by the frontend.                         *)
(*                                                                         *)
(* The sandbox emits its events without awaiting the handlers, and goes on *)
(* to the next operation at once.  A handler is several calls long, so it  *)
(* overlaps later operations and other handlers.  Operation n is the n-th  *)
(* deployment or deletion; they come one at a time (OneDeployAtATime of    *)
(* FileWatchingSandbox).  A template and its outputs are known by the      *)
(* number of the deployment they come from, 0 being none.                  *)
(***************************************************************************)
EXTENDS Integers, FiniteSets

CONSTANTS
    MaxOperations,  \* bound: deployments and deletions of the process
    CallsFail       \* a call to AWS or the file system may fail by itself

ASSUME MaxOperationsAssumption == MaxOperations \in Nat \ {0}
ASSUME CallsFailAssumption == CallsFail \in BOOLEAN

Operations == 1..MaxOperations
Numbers == 0..MaxOperations

\* Contents of the file: none, or a template's metadata and stack outputs.
\* The file of an earlier process is as good as the empty one.
NoFile == [metadata |-> -1, outputs |-> -1]
EmptyFile == [metadata |-> 0, outputs |-> 0]
Contents == [metadata : -1..MaxOperations, outputs : -1..MaxOperations]

VARIABLES
    started,    \* the command has called sandbox.start
    op,         \* number of the latest operation
    running,    \* "deploy", "delete" or "none": what the operation is
    deployed,   \* deployment the stack is at, 0 when there is no stack
    handler,    \* the handler of each operation that succeeded
    file,       \* the outputs file
    succeeded,  \* deployments that succeeded
    overlapped, \* a handler was at work when an operation began
    unhandled   \* a handler has rejected: the error handler reports it

vars == <<started, op, running, deployed, handler, file, succeeded, overlapped, unhandled>>

Idle == [at |-> "none", metadata |-> 0, outputs |-> 0]
Handlers == [at : {"none", "summary", "describe", "write", "remove", "done", "failed"},
             metadata : Numbers, outputs : Numbers]
AtWork(n) == handler[n].at \notin {"none", "done", "failed"}

TypeOK ==
    /\ started \in BOOLEAN
    /\ op \in Numbers
    /\ running \in {"deploy", "delete", "none"}
    /\ deployed \in Numbers
    /\ handler \in [Operations -> Handlers]
    /\ file \in Contents
    /\ succeeded \subseteq Operations
    /\ overlapped \in BOOLEAN
    /\ unhandled \in BOOLEAN

Init ==
    /\ started = FALSE
    /\ op = 0
    /\ running = "none"
    /\ deployed = 0
    /\ handler = [n \in Operations |-> Idle]
    /\ file \in {NoFile, EmptyFile}
    /\ succeeded = {}
    /\ overlapped = FALSE
    /\ unhandled = FALSE

\* The command makes sure that the file it excludes from watching exists.
StartSandbox ==
    /\ ~started
    /\ started' = TRUE
    /\ file' = IF file = NoFile THEN EmptyFile ELSE file
    /\ UNCHANGED <<op, running, deployed, handler, succeeded, overlapped, unhandled>>

OperationBegins(kind) ==
    /\ started
    /\ running = "none"
    /\ op < MaxOperations
    /\ op' = op + 1
    /\ running' = kind
    /\ overlapped' = (overlapped \/ \E n \in Operations : AtWork(n))
    /\ UNCHANGED <<started, deployed, handler, file, succeeded, unhandled>>

OperationFails ==
    /\ running # "none"
    /\ running' = "none"
    /\ UNCHANGED <<started, op, deployed, handler, file, succeeded, overlapped, unhandled>>

\* emit('successfulDeployment'), emit('successfulDeletion')
OperationSucceeds ==
    /\ running # "none"
    /\ running' = "none"
    /\ deployed' = IF running = "deploy" THEN op ELSE 0
    /\ succeeded' = IF running = "deploy" THEN succeeded \union {op} ELSE succeeded
    /\ handler' = [handler EXCEPT ![op].at = IF running = "deploy" THEN "summary" ELSE "remove"]
    /\ UNCHANGED <<started, op, file, overlapped, unhandled>>

\* The stack is in progress or gone, or (CallsFail) a call fails: the handler
\* prints that the outputs could not be generated.
HandlerFails(n) ==
    /\ \/ handler[n].at = "summary" /\ deployed = 0 /\ running # "deploy"
       \/ handler[n].at = "describe" /\ (running # "none" \/ deployed = 0)
       \/ CallsFail /\ handler[n].at \in {"summary", "describe", "write"}
    /\ handler' = [handler EXCEPT ![n].at = "failed"]
    /\ UNCHANGED <<started, op, running, deployed, file, succeeded, overlapped, unhandled>>

\* GetTemplateSummary answers, for a stack being updated with either template.
ReadMetadata(n) ==
    /\ handler[n].at = "summary"
    /\ deployed # 0 \/ running = "deploy"
    /\ \E t \in {deployed} \union (IF running = "deploy" THEN {op} ELSE {}) :
          /\ t # 0
          /\ handler' = [handler EXCEPT ![n].at = "describe", ![n].metadata = t]
    /\ UNCHANGED <<started, op, running, deployed, file, succeeded, overlapped, unhandled>>

\* Mutant: outputs are taken from a stack in progress.
ReadOutputsInProgress(n) ==
    /\ handler[n].at = "describe"
    /\ \E o \in {deployed} \union (IF running = "deploy" THEN {op} ELSE {}) :
          /\ o # 0
          /\ handler' = [handler EXCEPT ![n].at = "write", ![n].outputs = o]
    /\ UNCHANGED <<started, op, running, deployed, file, succeeded, overlapped, unhandled>>

\* DescribeStacks answers; a stack in progress or gone is an error (HandlerFails).
ReadOutputs(n) ==
    /\ handler[n].at = "describe"
    /\ running = "none"
    /\ deployed # 0
    /\ handler' = [handler EXCEPT ![n].at = "write", ![n].outputs = deployed]
    /\ UNCHANGED <<started, op, running, deployed, file, succeeded, overlapped, unhandled>>

\* The contributors have run and the result is written.
WriteConfig(n) ==
    /\ handler[n].at = "write"
    /\ file' = [metadata |-> handler[n].metadata, outputs |-> handler[n].outputs]
    /\ handler' = [handler EXCEPT ![n].at = "done"]
    /\ UNCHANGED <<started, op, running, deployed, succeeded, overlapped, unhandled>>

\* Mutant: the file stays.
KeepConfig(n) ==
    /\ handler[n].at = "remove"
    /\ handler' = [handler EXCEPT ![n].at = "done"]
    /\ UNCHANGED <<started, op, running, deployed, file, succeeded, overlapped, unhandled>>

\* deleteClientConfigFile: rm rejects when there is no file, and nothing catches it.
DeleteConfig(n) ==
    /\ handler[n].at = "remove"
    /\ file' = NoFile
    /\ handler' = [handler EXCEPT ![n].at = IF file = NoFile THEN "failed" ELSE "done"]
    /\ unhandled' = (unhandled \/ file = NoFile)
    /\ UNCHANGED <<started, op, running, deployed, succeeded, overlapped>>

HandlerStep(n) ==
    \/ ReadMetadata(n) \/ ReadOutputs(n) \/ WriteConfig(n) \/ DeleteConfig(n)

Next ==
    \/ StartSandbox
    \/ \E kind \in {"deploy", "delete"} : OperationBegins(kind)
    \/ OperationFails
    \/ OperationSucceeds
    \/ \E n \in Operations : HandlerFails(n) \/ HandlerStep(n)

Spec == Init /\ [][Next]_vars

-----------------------------------------------------------------------------
(* Properties. *)

Quiet == running = "none" /\ \A n \in Operations : ~AtWork(n)

NoneFailed == \A n \in Operations : handler[n].at # "failed"

\* When each handler is done before the next operation begins and none
\* fails, the file follows the stack: it describes the deployment the stack
\* is at, and is gone after a deletion.
SpacedOutputsCurrent ==
    Quiet /\ ~overlapped /\ NoneFailed =>
        /\ deployed # 0 => file = [metadata |-> deployed, outputs |-> deployed]
        /\ (deployed = 0 /\ \E n \in Operations : handler[n].at = "done") => file = NoFile

\* Whatever overlaps, the outputs in the file are of a deployment that
\* succeeded, never those of one in progress or rolled back.
OutputsOfSuccess == file.outputs > 0 => file.outputs \in succeeded

=============================================================================
