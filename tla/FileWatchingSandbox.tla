------------------------- MODULE FileWatchingSandbox -------------------------
(***************************************************************************)
(* The sandbox: watches the app's sources and deploys them on change.      *)
(*                                                                         *)
(* A session is one call of start(): its closure holds the latch, the      *)
(* debounced deployAndWatch and the watcher.  Session 1 is started by the  *)
(* command; a deployment that is refused because CloudFormation cannot     *)
(* update the stack may end in reset(), which starts the next session from *)
(* inside the deploy() of the old one.  A run is one activation of the     *)
(* deployAndWatch function (or, without watching, of the one deploy() that *)
(* start calls).  The process has one thread: an action is the code        *)
(* between two awaits.                                                     *)
(*                                                                         *)
(* A rejection that nothing catches ends a run or a watcher callback; the  *)
(* command's unhandledRejection listener prints it and the process goes    *)
(* on.  Only when start() of session 1 rejects does the command fail, and  *)
(* the process end: what the model does after that does not matter.        *)
(*                                                                         *)
(* The history variables stale, missed, abandoned and unchecked record     *)
(* what the properties speak of; no guard reads them.                      *)
(***************************************************************************)
EXTENDS FunctionLogStreaming, SandboxExecutor, FilesChangesTracker

CONSTANTS
    Kinds,              \* of watched files: "ts", "other"
    MaxSessions,        \* bound: one more than the resets accepted
    MaxCallbacks,       \* bound: watcher callbacks of a session in flight
    MaxSignals,         \* bound: SIGINT and SIGTERM, each handled once
    WatchOptions        \* what options.watchForChanges may be: FALSE for --once

ASSUME KindsAssumption == Kinds \subseteq {"ts", "other"}
ASSUME MaxSessionsAssumption == MaxSessions \in Nat \ {0}
ASSUME MaxCallbacksAssumption == MaxCallbacks \in Nat \ {0}
ASSUME MaxSignalsAssumption == MaxSignals \in Nat
ASSUME WatchOptionsAssumption == WatchOptions \subseteq BOOLEAN

Sessions == 1..MaxSessions
NoSession == 0

VARIABLES
    phase,      \* how far start() of each session is
    latch,      \* its latch
    armed,      \* TRUE when a call of deployAndWatch waits for its timer
    watch,      \* its watcher
    events,     \* kinds of the changes its watcher has yet to report
    printing,   \* its watcher callbacks that print the sandbox's name
    callbacks,  \* those that have only the latch test before them
    first,      \* the run start() of the session awaits
    current,    \* session whose watcher this.watcherSubscription is
    tracker,    \* this.filesChangesTracker
    pc,         \* where each run is
    session,    \* the session of each run
    child,      \* session the run's reset() has started
    signals,    \* signals still to come
    watchForChanges,    \* the option, the same for all sessions
    hasTypeScript,      \* the watched directory holds TypeScript files
    stale,              \* a change that no attempt to deploy begun since covers
    missed,             \* a watcher callback was rejected, and there was neither
                        \* a change nor an attempt to deploy since
    abandoned,          \* sessions with a run that was rejected before it could
                        \* give the latch back, and not in a reset
    unchecked           \* TypeScript that no validating deployment begun since
                        \* covers: of the "start" or an "edit" under a watcher

sessionVars == <<phase, latch, armed, watch, events, printing, callbacks,
                 first, current>>
runVars == <<pc, session, child>>
inputVars == <<watchForChanges, hasTypeScript>>
ghostVars == <<stale, missed, abandoned, unchecked>>
vars == <<sessionVars, runVars, tracker, signals, inputVars, ghostVars,
          executorVars, streamVars>>

FreeRuns == {r \in Runs : pc[r] = "free"}

SomeoneWatches == \E s \in Sessions : watch[s] = "active"

\* Points of deployAndWatch between taking the latch and giving it back.
BodyPoints == {"preparing", "deploying", "prompting", "stopping",
               "destroying", "resetting", "repeating"}
InBody(r) == pc[r] \in BodyPoints

SessionTypeOK ==
    /\ phase \in [Sessions -> {"absent", "tracking", "bootstrapping",
                               "deploying", "started", "failed"}]
    /\ latch \in [Sessions -> {"open", "deploying", "queued"}]
    /\ armed \in [Sessions -> BOOLEAN]
    /\ watch \in [Sessions -> {"none", "active", "closing", "closed"}]
    /\ events \in [Sessions -> SUBSET Kinds]
    /\ printing \in [Sessions -> Nat]
    /\ callbacks \in [Sessions -> Nat]
    /\ first \in [Sessions -> Runs \union {NoRun}]
    /\ current \in Sessions \union {NoSession}

RunTypeOK ==
    /\ pc \in [Runs -> BodyPoints \union {"free", "tail", "streaming"}]
    /\ session \in [Runs -> Sessions \union {NoSession}]
    /\ child \in [Runs -> Sessions \union {NoSession}]

FlagTypeOK ==
    /\ tracker \in Snapshots
    /\ signals \in Nat
    /\ watchForChanges \in BOOLEAN
    /\ hasTypeScript \in BOOLEAN
    /\ stale \in BOOLEAN
    /\ missed \in BOOLEAN
    /\ abandoned \subseteq Sessions
    /\ unchecked \in {"none", "start", "edit"}

TypeOK ==
    /\ SessionTypeOK
    /\ RunTypeOK
    /\ FlagTypeOK
    /\ ExecutorTypeOK
    /\ StreamTypeOK

Init ==
    /\ phase = [s \in Sessions |-> IF s = 1 THEN "tracking" ELSE "absent"]
    /\ latch = [s \in Sessions |-> "open"]
    /\ armed = [s \in Sessions |-> FALSE]
    /\ watch = [s \in Sessions |-> "none"]
    /\ events = [s \in Sessions |-> {}]
    /\ printing = [s \in Sessions |-> 0]
    /\ callbacks = [s \in Sessions |-> 0]
    /\ first = [s \in Sessions |-> NoRun]
    /\ current = NoSession
    /\ tracker = NewTracker(FALSE)
    /\ pc = [r \in Runs |-> "free"]
    /\ session = [r \in Runs |-> NoSession]
    /\ child = [r \in Runs |-> NoSession]
    /\ signals = MaxSignals
    /\ watchForChanges \in WatchOptions
    /\ hasTypeScript \in (IF "ts" \in Kinds THEN BOOLEAN ELSE {FALSE})
    /\ stale = TRUE
    /\ missed = FALSE
    /\ abandoned = {}
    /\ unchecked = IF hasTypeScript THEN "start" ELSE "none"
    /\ ExecutorInit
    /\ StreamInit

-----------------------------------------------------------------------------
(* start(). *)

\* createFilesChangesTracker() resolves: the directory has been searched.
TrackerCreated(s) ==
    /\ phase[s] = "tracking"
    /\ tracker' = NewTracker(hasTypeScript)
    /\ phase' = [phase EXCEPT ![s] = "bootstrapping"]
    /\ UNCHANGED <<latch, armed, watch, events, printing, callbacks, first, current,
                   runVars, signals, inputVars, ghostVars, executorVars, streamVars>>

\* The region is bootstrapped: the watcher is subscribed and the first
\* deployAndWatch called, without waiting for a change.
SubscribedAndArmed(s) ==
    /\ watchForChanges
    /\ phase[s] = "bootstrapping"
    /\ phase' = [phase EXCEPT ![s] = "deploying"]
    /\ watch' = [watch EXCEPT ![s] = "active"]
    /\ current' = s
    /\ armed' = [armed EXCEPT ![s] = TRUE]
    /\ UNCHANGED <<latch, events, printing, callbacks, first, runVars, tracker, signals,
                   inputVars, ghostVars, executorVars, streamVars>>

\* The same without watching: deploy() is called directly.
DeployingOnce(s, r) ==
    /\ ~watchForChanges
    /\ phase[s] = "bootstrapping"
    /\ r \in FreeRuns
    /\ phase' = [phase EXCEPT ![s] = "deploying"]
    /\ first' = [first EXCEPT ![s] = r]
    /\ pc' = [pc EXCEPT ![r] = "preparing"]
    /\ session' = [session EXCEPT ![r] = s]
    /\ stale' = FALSE /\ missed' = FALSE
    /\ UNCHANGED <<latch, armed, watch, events, printing, callbacks, current, child, tracker,
                   signals, inputVars, abandoned, unchecked, executorVars, streamVars>>

\* The region is not bootstrapped: start() returns, without a watcher.
NotBootstrapped(s) ==
    /\ phase[s] = "bootstrapping"
    /\ phase' = [phase EXCEPT ![s] = "started"]
    /\ UNCHANGED <<latch, armed, watch, events, printing, callbacks, first, current, runVars,
                   tracker, signals, inputVars, ghostVars, executorVars, streamVars>>

\* The sources cannot be searched, the bootstrap version not read, the name of
\* the sandbox not resolved or its directory not watched: start() rejects.
StartFails(s) ==
    /\ phase[s] \in {"tracking", "bootstrapping"}
    /\ phase' = [phase EXCEPT ![s] = "failed"]
    /\ UNCHANGED <<latch, armed, watch, events, printing, callbacks, first, current,
                   runVars, tracker, signals, inputVars, ghostVars, executorVars,
                   streamVars>>

-----------------------------------------------------------------------------
(* The developer's edits and the watcher. *)

Edit(kind) ==
    /\ hasTypeScript' = (hasTypeScript \/ kind = "ts")
    /\ stale' = TRUE /\ missed' = FALSE
    /\ unchecked' = IF kind # "ts" THEN unchecked
                    ELSE IF SomeoneWatches THEN "edit" ELSE "start"
    /\ events' = [s \in Sessions |->
                     IF watch[s] \in {"active", "closing"}
                     THEN events[s] \union {kind} ELSE events[s]]
    /\ UNCHANGED <<phase, latch, armed, watch, printing, callbacks, first, current,
                   runVars, tracker, signals, watchForChanges, abandoned, executorVars, streamVars>>

\* The watcher calls back with all the changes since its last report; the
\* callback tracks them and suspends before it looks at the latch: to print the
\* name of the sandbox, unless the latch is taken already.
WatcherCallback(s) ==
    /\ watch[s] \in {"active", "closing"}
    /\ events[s] # {}
    /\ printing[s] + callbacks[s] < MaxCallbacks
    /\ tracker' = TrackFileChanges(tracker, events[s])
    /\ events' = [events EXCEPT ![s] = {}]
    /\ IF latch[s] = "open"
       THEN printing' = [printing EXCEPT ![s] = @ + 1] /\ UNCHANGED callbacks
       ELSE callbacks' = [callbacks EXCEPT ![s] = @ + 1] /\ UNCHANGED printing
    /\ UNCHANGED <<phase, latch, armed, watch, first, current, runVars, signals,
                   inputVars, ghostVars, executorVars, streamVars>>

NamePrinted(s) ==
    /\ printing[s] > 0
    /\ printing' = [printing EXCEPT ![s] = @ - 1]
    /\ callbacks' = [callbacks EXCEPT ![s] = @ + 1]
    /\ UNCHANGED <<phase, latch, armed, watch, events, first, current, runVars, tracker,
                   signals, inputVars, ghostVars, executorVars, streamVars>>

\* printSandboxNameInfo() rejects, and with it the callback, which never comes to
\* look at the latch.
NameNotPrinted(s) ==
    /\ printing[s] > 0
    /\ printing' = [printing EXCEPT ![s] = @ - 1]
    /\ missed' = TRUE
    /\ UNCHANGED <<phase, latch, armed, watch, events, callbacks, first, current, runVars,
                   tracker, signals, inputVars, stale, abandoned, unchecked,
                   executorVars, streamVars>>

\* Mutant: changes that are reported while the latch is taken are dropped.
TestLatchForgets(s) ==
    /\ callbacks[s] > 0
    /\ callbacks' = [callbacks EXCEPT ![s] = @ - 1]
    /\ armed' = [armed EXCEPT ![s] = @ \/ latch[s] = "open"]
    /\ UNCHANGED <<phase, latch, watch, events, printing, first, current, runVars, tracker,
                   signals, inputVars, ghostVars, executorVars, streamVars>>

\* The callback resumes: calls deployAndWatch or queues.
TestLatch(s) ==
    /\ callbacks[s] > 0
    /\ callbacks' = [callbacks EXCEPT ![s] = @ - 1]
    /\ IF latch[s] = "open"
       THEN armed' = [armed EXCEPT ![s] = TRUE] /\ UNCHANGED latch
       ELSE latch' = [latch EXCEPT ![s] = "queued"] /\ UNCHANGED armed
    /\ UNCHANGED <<phase, watch, events, printing, first, current, runVars, tracker,
                   signals, inputVars, ghostVars, executorVars, streamVars>>

\* unsubscribe() resolves; what was not reported never is.
WatcherClosed(s) ==
    /\ watch[s] = "closing"
    /\ watch' = [watch EXCEPT ![s] = "closed"]
    /\ events' = [events EXCEPT ![s] = {}]
    /\ UNCHANGED <<phase, latch, armed, printing, callbacks, first, current, runVars,
                   tracker, signals, inputVars, ghostVars, executorVars, streamVars>>

\* stop() up to its await, on this.watcherSubscription if there is one.
Stop ==
    /\ StopStreamingLogs
    /\ watch' = [s \in Sessions |->
                    IF s = current /\ watch[s] = "active" THEN "closing" ELSE watch[s]]

\* SIGINT or SIGTERM.  Nothing else stops: what runs, runs on.
Signal ==
    /\ signals > 0
    /\ signals' = signals - 1
    /\ Stop
    /\ UNCHANGED <<phase, latch, armed, events, printing, callbacks, first, current,
                   runVars, tracker, inputVars, ghostVars, executorVars>>

-----------------------------------------------------------------------------
(* deployAndWatch and deploy. *)

\* Mutant: the run does not take the latch.
RunBeginsUnlatched(s, r) ==
    /\ armed[s]
    /\ r \in FreeRuns
    /\ armed' = [armed EXCEPT ![s] = FALSE]
    /\ StopStreamingLogs
    /\ pc' = [pc EXCEPT ![r] = "preparing"]
    /\ session' = [session EXCEPT ![r] = s]
    /\ first' = IF phase[s] = "deploying" /\ first[s] = NoRun
                THEN [first EXCEPT ![s] = r] ELSE first
    /\ stale' = FALSE /\ missed' = FALSE
    /\ UNCHANGED <<phase, latch, watch, events, printing, callbacks, current, child, tracker,
                   signals, inputVars, abandoned, unchecked, executorVars>>

\* The timer of the debounced deployAndWatch fires: a run begins.
RunBegins(s, r) ==
    /\ armed[s]
    /\ r \in FreeRuns
    /\ armed' = [armed EXCEPT ![s] = FALSE]
    /\ latch' = [latch EXCEPT ![s] = "deploying"]
    /\ StopStreamingLogs
    /\ pc' = [pc EXCEPT ![r] = "preparing"]
    /\ session' = [session EXCEPT ![r] = s]
    /\ first' = IF phase[s] = "deploying" /\ first[s] = NoRun
                THEN [first EXCEPT ![s] = r] ELSE first
    /\ stale' = FALSE /\ missed' = FALSE
    /\ UNCHANGED <<phase, watch, events, printing, callbacks, current, child, tracker, signals,
                   inputVars, abandoned, unchecked, executorVars>>

\* Mutant: start() is left waiting.
RunEndsUnnoticed(r, result) ==
    /\ pc' = [pc EXCEPT ![r] = "free"]
    /\ session' = [session EXCEPT ![r] = NoSession]
    /\ UNCHANGED <<phase, first>>

\* Run r is over; start() of its session is too when it awaited r.
RunEnds(r, result) ==
    /\ pc' = [pc EXCEPT ![r] = "free"]
    /\ session' = [session EXCEPT ![r] = NoSession]
    /\ phase' = IF first[session[r]] = r
                THEN [phase EXCEPT ![session[r]] = result] ELSE phase
    /\ first' = IF first[session[r]] = r
                THEN [first EXCEPT ![session[r]] = NoRun] ELSE first

\* Mutant: the latch is not given back.
AfterDeployLatched(r) ==
    \/ /\ ~watchForChanges
       /\ RunEnds(r, "started")
       /\ UNCHANGED latch
    \/ /\ watchForChanges
       /\ pc' = [pc EXCEPT ![r] = IF latch[session[r]] = "queued" THEN "repeating" ELSE "tail"]
       /\ latch' = [latch EXCEPT ![session[r]] = "deploying"]
       /\ UNCHANGED <<session, phase, first>>

\* deploy() of run r is over: if changes are queued it will be called again, and
\* otherwise the latch is given back.  Without watching, start() is over.
AfterDeploy(r) ==
    LET s == session[r] IN
    \/ /\ ~watchForChanges
       /\ RunEnds(r, "started")
       /\ UNCHANGED latch
    \/ /\ watchForChanges
       /\ latch[s] = "queued"
       /\ latch' = [latch EXCEPT ![s] = "deploying"]
       /\ pc' = [pc EXCEPT ![r] = "repeating"]
       /\ UNCHANGED <<session, phase, first>>
    \/ /\ watchForChanges
       /\ latch[s] # "queued"
       /\ latch' = [latch EXCEPT ![s] = "open"]
       /\ pc' = [pc EXCEPT ![r] = "tail"]
       /\ UNCHANGED <<session, phase, first>>

\* The name is printed once more, and deploy() called ...
Repeats(r) ==
    /\ pc[r] = "repeating"
    /\ pc' = [pc EXCEPT ![r] = "preparing"]
    /\ stale' = FALSE /\ missed' = FALSE
    /\ UNCHANGED <<sessionVars, session, child, tracker, signals, inputVars, abandoned,
                   unchecked, executorVars, streamVars>>

\* Run r is rejected, and the latch stays as it is.
Abandons(r) ==
    /\ RunEnds(r, "failed")
    /\ abandoned' = abandoned \union {session[r]}
    /\ UNCHANGED <<latch, armed, watch, events, printing, callbacks, current, child, tracker,
                   signals, inputVars, stale, missed, unchecked, executorVars, streamVars>>

\* ... or printSandboxNameInfo() rejects, and with it deployAndWatch.
RepeatFails(r) == pc[r] = "repeating" /\ Abandons(r)

\* The secrets are listed and the executor invoked ...
ExecutorInvoked(r) ==
    /\ pc[r] = "preparing"
    /\ Invoke(r, "deploy")
    /\ pc' = [pc EXCEPT ![r] = "deploying"]
    /\ UNCHANGED <<sessionVars, session, child, tracker, signals, inputVars,
                   ghostVars, streamVars>>

\* ... or listing them fails, and so does the deployment.
ListSecretsFails(r) ==
    /\ pc[r] = "preparing"
    /\ AfterDeploy(r)
    /\ UNCHANGED <<armed, watch, events, printing, callbacks, current, child, tracker, signals,
                   inputVars, ghostVars, executorVars, streamVars>>

\* Mutant: the snapshot is reset before it is read.
OperationBeginsAfterReset ==
    /\ TimerFires
    /\ IF callback[lastCall] = "deploy"
       THEN /\ tracker' = ResetSnapshot(tracker)
            /\ stale' = FALSE /\ missed' = FALSE
            /\ unchecked' = IF ShouldValidateAppSources(ResetSnapshot(tracker))
                            THEN "none" ELSE unchecked
       ELSE UNCHANGED <<tracker, stale, missed, unchecked>>
    /\ UNCHANGED <<sessionVars, runVars, signals, inputVars, abandoned, streamVars>>

\* The executor's timer fires.  A deployment takes, and resets, the tracker's
\* snapshot and begins to read the sources as they are now.
OperationBegins ==
    /\ TimerFires
    /\ IF callback[lastCall] = "deploy"
       THEN /\ tracker' = ResetSnapshot(tracker)
            /\ stale' = FALSE /\ missed' = FALSE
            /\ unchecked' = IF ShouldValidateAppSources(tracker) THEN "none" ELSE unchecked
       ELSE UNCHANGED <<tracker, stale, missed, unchecked>>
    /\ UNCHANGED <<sessionVars, runVars, signals, inputVars, abandoned, streamVars>>

\* cdk deploy or cdk destroy is over.  Only a deployment is refused as an
\* unsupported update; a stack that is gone is not up to date.
OperationEnds(r) ==
    /\ \E o \in IF callback[r] = "deploy" THEN Outcomes ELSE {"ok", "failed"} :
          /\ CallbackSettles(r, o)
          /\ IF callback[r] = "destroy" /\ o = "ok"
             THEN stale' = TRUE /\ missed' = FALSE
             ELSE UNCHANGED <<stale, missed>>
    /\ UNCHANGED <<sessionVars, runVars, tracker, signals, inputVars,
                   abandoned, unchecked, streamVars>>

\* executor.deploy() resolves, or rejects with an error that is only printed.
DeployReturns(r) ==
    /\ pc[r] = "deploying"
    /\ outcome[r] \in {"ok", "failed"}
    /\ Consume(r)
    /\ AfterDeploy(r)
    /\ UNCHANGED <<armed, watch, events, printing, callbacks, current, child, tracker, signals,
                   inputVars, ghostVars, streamVars>>

\* It rejects with CFNUpdateNotSupportedError: the developer is asked.
DeployUnsupported(r) ==
    /\ pc[r] = "deploying"
    /\ outcome[r] = "unsupported"
    /\ Consume(r)
    /\ pc' = [pc EXCEPT ![r] = "prompting"]
    /\ UNCHANGED <<sessionVars, session, child, tracker, signals, inputVars,
                   ghostVars, streamVars>>

DeclineReset(r) ==
    /\ pc[r] = "prompting"
    /\ AfterDeploy(r)
    /\ UNCHANGED <<armed, watch, events, printing, callbacks, current, child, tracker, signals,
                   inputVars, ghostVars, executorVars, streamVars>>

\* The prompt itself is rejected: the developer closes it.  Nothing catches that
\* either.
PromptRejects(r) == pc[r] = "prompting" /\ Abandons(r)

\* The answer is yes: stop().  MaxSessions bounds how often it is.
AcceptReset(r) ==
    /\ pc[r] = "prompting"
    /\ \E s \in Sessions : phase[s] = "absent"
    /\ Stop
    /\ pc' = [pc EXCEPT ![r] = "stopping"]
    /\ UNCHANGED <<phase, latch, armed, events, printing, callbacks, first, current, session,
                   child, tracker, signals, inputVars, ghostVars, executorVars>>

\* The watcher is closed: reset() calls delete(), which calls destroy().
DestroyInvoked(r) ==
    /\ pc[r] = "stopping"
    /\ \A s \in Sessions : watch[s] # "closing"
    /\ Invoke(r, "destroy")
    /\ pc' = [pc EXCEPT ![r] = "destroying"]
    /\ UNCHANGED <<sessionVars, session, child, tracker, signals, inputVars,
                   ghostVars, streamVars>>

\* Or delete() cannot resolve the name of the sandbox, and reset() rejects.
DeleteFails(r) ==
    /\ pc[r] = "stopping"
    /\ \A s \in Sessions : watch[s] # "closing"
    /\ RunEnds(r, "failed")
    /\ UNCHANGED <<latch, armed, watch, events, printing, callbacks, current, child, tracker,
                   signals, inputVars, ghostVars, executorVars, streamVars>>

\* The sandbox is deleted: start() is called again and finds its directory.
SandboxRestarts(r, s) ==
    /\ pc[r] = "destroying"
    /\ outcome[r] = "ok"
    /\ phase[s] = "absent"
    /\ \A t \in Sessions : phase[t] = "absent" => s <= t
    /\ Consume(r)
    /\ phase' = [phase EXCEPT ![s] = "tracking"]
    /\ child' = [child EXCEPT ![r] = s]
    /\ pc' = [pc EXCEPT ![r] = "resetting"]
    /\ UNCHANGED <<latch, armed, watch, events, printing, callbacks, first, current, session,
                   tracker, signals, inputVars, ghostVars, streamVars>>

\* destroy() rejects, or start() finds no directory to watch: nothing on the
\* way up catches it, deployAndWatch rejects and the latch stays as it is.
ResetFails(r) ==
    /\ pc[r] = "destroying"
    /\ outcome[r] # "none"
    /\ Consume(r)
    /\ RunEnds(r, "failed")
    /\ UNCHANGED <<latch, armed, watch, events, printing, callbacks, current, child, tracker,
                   signals, inputVars, ghostVars, streamVars>>

\* The start() called by reset() is over.
ResetReturns(r) ==
    /\ pc[r] = "resetting"
    /\ \/ /\ phase[child[r]] = "started"
          /\ AfterDeploy(r)
       \/ /\ phase[child[r]] = "failed"
          /\ RunEnds(r, "failed")
          /\ UNCHANGED latch
    /\ child' = [child EXCEPT ![r] = NoSession]
    /\ UNCHANGED <<armed, watch, events, printing, callbacks, current, tracker, signals,
                   inputVars, ghostVars, executorVars, streamVars>>

\* The latch is open again: log streaming is started.
StreamingCalled(r) ==
    /\ pc[r] = "tail"
    /\ CallStartStreaming(r)
    /\ pc' = [pc EXCEPT ![r] = "streaming"]
    /\ UNCHANGED <<sessionVars, session, child, tracker, signals, inputVars,
                   ghostVars, executorVars>>

\* Or the name of the sandbox cannot be resolved for it.
StreamingNotCalled(r) ==
    /\ pc[r] = "tail"
    /\ RunEnds(r, "failed")
    /\ UNCHANGED <<latch, armed, watch, events, printing, callbacks, current, child, tracker,
                   signals, inputVars, ghostVars, executorVars, streamVars>>

StreamingReturns(r) ==
    /\ pc[r] = "streaming"
    /\ streamCall[r] \in {"done", "rejected"}
    /\ StreamCallEnds(r)
    /\ RunEnds(r, IF streamCall[r] = "done" THEN "started" ELSE "failed")
    /\ UNCHANGED <<latch, armed, watch, events, printing, callbacks, current, child, tracker,
                   signals, inputVars, ghostVars, executorVars>>

\* Steps of the log streamer's own promises and of the monitor's timers.
Streams(r) ==
    /\ StreamerStep(r)
    /\ UNCHANGED <<sessionVars, runVars, tracker, signals, inputVars, ghostVars,
                   executorVars>>

Monitors(c) ==
    /\ MonitorStep(c)
    /\ UNCHANGED <<sessionVars, runVars, tracker, signals, inputVars, ghostVars,
                   executorVars>>

-----------------------------------------------------------------------------
StartStep(s) ==
    \/ TrackerCreated(s)
    \/ SubscribedAndArmed(s)
    \/ NotBootstrapped(s)
    \/ StartFails(s)
    \/ \E r \in Runs : DeployingOnce(s, r)

WatchStep(s) ==
    \/ WatcherCallback(s)
    \/ NamePrinted(s)
    \/ NameNotPrinted(s)
    \/ TestLatch(s)
    \/ WatcherClosed(s)
    \/ \E r \in Runs : RunBegins(s, r)

RunStep(r) ==
    \/ ExecutorInvoked(r)
    \/ ListSecretsFails(r)
    \/ OperationEnds(r)
    \/ DeployReturns(r)
    \/ DeployUnsupported(r)
    \/ Repeats(r)
    \/ RepeatFails(r)
    \/ DestroyInvoked(r)
    \/ DeleteFails(r)
    \/ ResetFails(r)
    \/ ResetReturns(r)
    \/ StreamingCalled(r)
    \/ StreamingNotCalled(r)
    \/ StreamingReturns(r)
    \/ \E s \in Sessions : SandboxRestarts(r, s)

Answer(r) == DeclineReset(r) \/ AcceptReset(r) \/ PromptRejects(r)

Next ==
    \/ \E s \in Sessions : StartStep(s) \/ WatchStep(s)
    \/ \E r \in Runs : RunStep(r) \/ Answer(r) \/ Streams(r)
    \/ OperationBegins
    \/ \E c \in Chains : Monitors(c)
    \/ \E kind \in Kinds : Edit(kind)
    \/ Signal

Spec == Init /\ [][Next]_vars

\* The event loop runs what is ready, AWS calls settle and unsubscribe()
\* resolves; the developer edits, answers and interrupts when they like.
Fairness ==
    /\ \A s \in Sessions :
          /\ WF_vars(StartStep(s))
          /\ WF_vars(WatcherCallback(s))
          /\ WF_vars(NamePrinted(s) \/ NameNotPrinted(s))
          /\ WF_vars(TestLatch(s))
          /\ WF_vars(WatcherClosed(s))
          /\ WF_vars(\E r \in Runs : RunBegins(s, r))
    /\ \A r \in Runs : WF_vars(RunStep(r)) /\ WF_vars(Streams(r))
    /\ \A c \in Chains : WF_vars(Monitors(c))
    /\ WF_vars(OperationBegins)

\* Only the monitor's timers fire, and its reads settle.
TickingSpec == Spec /\ \A c \in Chains : WF_vars(Monitors(c))

\* A developer who always answers the prompt or closes it.
AnsweringFairness == Fairness /\ \A r \in Runs : WF_vars(Answer(r))

-----------------------------------------------------------------------------
(* Safety. *)

\* Nothing is under way but log streaming.
Quiet ==
    /\ \A r \in Runs : ~InBody(r)
    /\ \A s \in Sessions : /\ ~armed[s]
                           /\ printing[s] = 0 /\ callbacks[s] = 0
                           /\ events[s] = {}
                           /\ phase[s] \notin {"tracking", "bootstrapping"}

\* The latch of a session admits one run of deployAndWatch at a time to the
\* part that deploys, although watcher callbacks test it after a suspension
\* and every call of the debounced function may start a run.
LatchAdmitsOneRun ==
    \A r, q \in Runs :
        InBody(r) /\ InBody(q) /\ session[r] = session[q] => r = q

\* Why it does: the inductive strengthening.  A session that is not past its
\* bootstrap check has done nothing yet; a call of deployAndWatch waits for
\* its timer only while the latch is open, and then no run is in its body.
EarlySessionsIdle ==
    \A s \in Sessions : phase[s] \in {"absent", "tracking", "bootstrapping"} =>
        /\ latch[s] = "open" /\ ~armed[s]
        /\ watch[s] = "none" /\ printing[s] = 0 /\ callbacks[s] = 0
        /\ \A r \in Runs : session[r] = s => ~InBody(r)

LatchIsHeld ==
    watchForChanges =>
        /\ \A s \in Sessions : armed[s] => latch[s] = "open"
        /\ \A r \in Runs : InBody(r) => latch[session[r]] # "open"

NobodyWatchesOnce ==
    ~watchForChanges =>
        \A s \in Sessions : ~armed[s] /\ watch[s] = "none" /\ printing[s] = 0 /\ callbacks[s] = 0

LatchInv ==
    /\ \A r \in Runs : pc[r] # "free" => session[r] \in Sessions
    /\ EarlySessionsIdle
    /\ LatchIsHeld
    /\ NobodyWatchesOnce
    /\ LatchAdmitsOneRun

\* "making sure 'cdk deploy's always execute one at a time": no deployment
\* begins while another is in progress in the same sandbox process.
OneDeployAtATime == Cardinality(RunningOperations("deploy")) <= 1

\* A refused update has started another session.
Recreated == \E s \in Sessions \ {1} : phase[s] # "absent"

RecreatedTwice == \E s, t \in Sessions \ {1} : s # t /\ phase[s] # "absent" /\ phase[t] # "absent"

\* Deployments of a sandbox that was never recreated do not overlap.
OneDeployUntilRecreated == ~Recreated => OneDeployAtATime

\* No change is lost: when a watched sandbox has come to rest, a deployment
\* was attempted that began after the last change, also when the change came
\* between the latch test, the debounce timers and the end of a deployment,
\* and when the sandbox was recreated meanwhile.  Two rejections that nothing
\* catches lose changes, and no others do: of a callback, until the next change
\* or attempt to deploy, and of a run that leaves its latch taken.  (Not when the
\* sandbox was recreated twice: two sessions may share one refused deployment;
\* both prompts are then answered, and the second answer deletes what the first
\* one's session has deployed.)
NoChangeLost ==
    Quiet /\ stale /\ ~missed /\ ~RecreatedTwice =>
        \A s \in Sessions : watch[s] = "active" => s \in abandoned

\* A latch that is taken while its session is watched has a run that will
\* give it back, so that what is queued behind it is not queued forever, whatever
\* fails but the prompt and the printing of the name: a failed reset leaves it
\* taken only behind a watcher that was closed.  (Of a sandbox that was recreated
\* twice only the session whose watcher the sandbox knows: another one's watcher
\* is not closed by a reset, which may fail.)
TakenLatchHasRun ==
    \A s \in Sessions \ abandoned :
        latch[s] # "open" /\ watch[s] = "active" /\ (RecreatedTwice => s = current)
            => \E r \in Runs : InBody(r) /\ session[r] = s

\* "we will batch them, and trigger another 'cdk deploy' after the current one
\* finishes": while the command lives, a change that is queued behind the latch
\* of a watched session has a run that will come to it.
QueuedIsDeployed ==
    \A s \in Sessions :
        phase[1] # "failed" /\ watch[s] = "active" /\ latch[s] = "queued"
            => \E r \in Runs : InBody(r) /\ session[r] = s

\* No TypeScript edit made under a watcher escapes the type checker: until a
\* validating deployment begins, the watcher or the tracker remembers it,
\* whichever snapshots, failures and other changes come in between.  (A
\* recreated sandbox starts with a tracker of its own.)
TypeScriptEditRemembered ==
    unchecked = "edit" /\ SomeoneWatches /\ ~Recreated =>
        \/ tracker.didAnyTypeScriptFileChangeSinceLastSnapshot
        \/ \E s \in Sessions : "ts" \in events[s]

\* An active monitor has a tick chain that goes on reading, although chains
\* end, overlap and fail independently of activate() and pause().
ActiveMonitorTicks == active => LiveChains # {}

-----------------------------------------------------------------------------
(* Liveness. *)

\* The command lives, and a session watches whose latch was not abandoned.
Attended == phase[1] # "failed" /\ \E s \in Sessions \ abandoned : watch[s] = "active"

\* What a watched sandbox promises the developer: a change is followed by an
\* attempt to deploy it, as long as it is attended to and no callback is rejected.
Promise == INSTANCE DeployOnChange WITH
    stale <- stale,
    missed <- missed,
    watched <- Attended,
    inProgress <- Cardinality(RunningOperations("deploy"))

KeepsPromise == Promise!Spec

\* "Execute a single sandbox deployment without watching": the command comes
\* to an end whatever fails on the way, a recreated sandbox included.
OnceEnds == ~watchForChanges => <>(phase[1] \in {"started", "failed"})

\* A monitor that stays paused falls silent: its tick chains end.
PausedMonitorFallsSilent == []<>active \/ <>[](LiveChains = {})
=============================================================================
