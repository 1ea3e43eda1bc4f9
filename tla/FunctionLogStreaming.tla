------------------------ MODULE FunctionLogStreaming ------------------------
(***************************************************************************)
(* The function log streamer of the sandbox: LambdaFunctionLogStreamer     *)
(* (start/stopStreamingLogs) and the CloudWatchLogEventMonitor it drives.  *)
(* Both live in one Node.js process, so a step is the code between two     *)
(* awaits.  startStreamingLogs is called by runs of deployAndWatch and     *)
(* nothing stops two of its activations from overlapping: the activation   *)
(* of run r is kept in streamCall[r].                                      *)
(*                                                                         *)
(* Abstractions: log events and cursors' times are left out; an unfinished *)
(* read is a chain in "reading", and a cursor is counted, not described.   *)
(***************************************************************************)
EXTENDS Naturals, FiniteSets, DeployRuns

CONSTANTS
    Functions,          \* deployed functions and conversation handlers
    Chains,             \* setTimeout/tick chains of the monitor
    MaxCursors,         \* bound: cursors on one function
    StreamingEnabled    \* options.functionStreamingOptions.enabled

ASSUME MaxCursorsAssumption == MaxCursors \in Nat
ASSUME StreamingEnabledAssumption == StreamingEnabled \in BOOLEAN

VARIABLES
    enabled,        \* LambdaFunctionLogStreamer.enabled
    active,         \* CloudWatchLogEventMonitor.active
    logGroups,      \* allLogGroups: number of cursors on each function
    chain,          \* where each tick chain is
    streamCall,     \* where the startStreamingLogs of each run is
    toLookUp        \* functions its loop has still to look up

streamVars == <<enabled, active, logGroups, chain, streamCall, toLookUp>>

NoLogGroups == [f \in Functions |-> 0]

StreamInit ==
    /\ enabled = FALSE
    /\ active = FALSE
    /\ logGroups = NoLogGroups
    /\ chain = [c \in Chains |-> "none"]
    /\ streamCall = [r \in Runs |-> "none"]
    /\ toLookUp = [r \in Runs |-> {}]

LiveChains == {c \in Chains : chain[c] # "none"}

-----------------------------------------------------------------------------
(* The monitor. *)

\* Effect of pause() on the monitor's state.
Pause ==
    /\ active' = FALSE
    /\ logGroups' = NoLogGroups

\* activate() always starts a chain, one may already be running.  Chains
\* bounds how many live at once: no chain free, no activation.
ActivateOn(c) ==
    /\ chain[c] = "none"
    /\ active' = TRUE
    /\ chain' = [chain EXCEPT ![c] = "timer"]

\* Mutant: a tick does not look whether the monitor is paused.
TickUnconditionally(c) ==
    /\ chain[c] = "timer"
    /\ chain' = [chain EXCEPT ![c] = "reading"]
    /\ UNCHANGED <<enabled, active, logGroups, streamCall, toLookUp>>

\* The timer of a chain fires: tick() ends the chain when the monitor is
\* paused and starts reading otherwise.
Tick(c) ==
    /\ chain[c] = "timer"
    /\ chain' = [chain EXCEPT ![c] = IF active THEN "reading" ELSE "none"]
    /\ UNCHANGED <<enabled, active, logGroups, streamCall, toLookUp>>

\* readNewEvents resolved: the events are printed and the next tick is
\* scheduled, whatever happened to the monitor in the meantime.
TickPrints(c) ==
    /\ chain[c] = "reading"
    /\ chain' = [chain EXCEPT ![c] = "timer"]
    /\ UNCHANGED <<enabled, active, logGroups, streamCall, toLookUp>>

\* Mutant: a failed read ends the chain and leaves the monitor active.
TickFailsForGood(c) ==
    /\ chain[c] = "reading"
    /\ chain' = [chain EXCEPT ![c] = "none"]
    /\ UNCHANGED <<enabled, active, logGroups, streamCall, toLookUp>>

\* readNewEvents rejected: the monitor pauses itself, and still schedules.
TickFails(c) ==
    /\ chain[c] = "reading"
    /\ Pause
    /\ chain' = [chain EXCEPT ![c] = "timer"]
    /\ UNCHANGED <<enabled, streamCall, toLookUp>>

-----------------------------------------------------------------------------
(* The streamer. *)

\* stopStreamingLogs(): does nothing until streaming has once been enabled.
StopStreamingLogs ==
    /\ IF enabled THEN Pause ELSE UNCHANGED <<active, logGroups>>
    /\ UNCHANGED <<enabled, chain, streamCall, toLookUp>>

\* startStreamingLogs() up to its first await; returns at once when the
\* sandbox was started without streaming.
CallStartStreaming(r) ==
    /\ enabled' = (enabled \/ StreamingEnabled)
    /\ streamCall' = [streamCall EXCEPT ![r] = IF StreamingEnabled THEN "output" ELSE "done"]
    /\ UNCHANGED <<active, logGroups, chain, toLookUp>>

\* getOutput() fails with NO_STACK_FOUND or NO_OUTPUTS_FOUND.
NoStackToStream(r) ==
    /\ streamCall[r] = "output"
    /\ enabled' = FALSE
    /\ streamCall' = [streamCall EXCEPT ![r] = "done"]
    /\ UNCHANGED <<active, logGroups, chain, toLookUp>>

\* getOutput() returns; any other error leaves the output, and so the list
\* of functions, empty.
OutputFetched(r) ==
    /\ streamCall[r] = "output"
    /\ \E fs \in SUBSET Functions : toLookUp' = [toLookUp EXCEPT ![r] = fs]
    /\ streamCall' = [streamCall EXCEPT ![r] = "functions"]
    /\ UNCHANGED <<enabled, active, logGroups, chain>>

\* One GetFunction call returns.  The function is streamed unless it has no
\* log group, no friendly name or matches no filter.
FunctionLookedUp(r, f) ==
    /\ streamCall[r] = "functions"
    /\ f \in toLookUp[r]
    /\ toLookUp' = [toLookUp EXCEPT ![r] = @ \ {f}]
    /\ \/ logGroups[f] < MaxCursors /\ logGroups' = [logGroups EXCEPT ![f] = @ + 1]
       \/ UNCHANGED logGroups
    /\ UNCHANGED <<enabled, active, chain, streamCall>>

\* A GetFunction call fails: startStreamingLogs rejects.
LookUpFails(r) ==
    /\ streamCall[r] = "functions"
    /\ toLookUp[r] # {}
    /\ toLookUp' = [toLookUp EXCEPT ![r] = {}]
    /\ streamCall' = [streamCall EXCEPT ![r] = "rejected"]
    /\ UNCHANGED <<enabled, active, logGroups, chain>>

\* All functions looked up: "finally start listening".
StartListening(r) ==
    /\ streamCall[r] = "functions"
    /\ toLookUp[r] = {}
    /\ \E c \in Chains : ActivateOn(c)
    /\ streamCall' = [streamCall EXCEPT ![r] = "done"]
    /\ UNCHANGED <<enabled, logGroups, toLookUp>>

\* The caller consumes the outcome of its startStreamingLogs.
StreamCallEnds(r) ==
    /\ streamCall' = [streamCall EXCEPT ![r] = "none"]
    /\ UNCHANGED <<enabled, active, logGroups, chain, toLookUp>>

StreamerStep(r) ==
    \/ NoStackToStream(r)
    \/ OutputFetched(r)
    \/ \E f \in Functions : FunctionLookedUp(r, f)
    \/ LookUpFails(r)
    \/ StartListening(r)

MonitorStep(c) == Tick(c) \/ TickPrints(c) \/ TickFails(c)

-----------------------------------------------------------------------------
StreamCallPoints == {"none", "output", "functions", "done", "rejected"}

StreamTypeOK ==
    /\ enabled \in BOOLEAN
    /\ active \in BOOLEAN
    /\ logGroups \in [Functions -> Nat]
    /\ chain \in [Chains -> {"none", "timer", "reading"}]
    /\ streamCall \in [Runs -> StreamCallPoints]
    /\ toLookUp \in [Runs -> SUBSET Functions]
=============================================================================
