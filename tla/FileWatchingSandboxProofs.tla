---------------------- MODULE FileWatchingSandboxProofs ----------------------
(***************************************************************************)
(* Theorems about FileWatchingSandbox for every value of its constants.    *)
(***************************************************************************)
EXTENDS FileWatchingSandbox, FiniteSetTheorems, TLAPS

-----------------------------------------------------------------------------
(* Type correctness. *)

\* What the sandbox does to the variables of the streamer keeps their types.
LEMMA StreamerTyped ==
    ASSUME StreamTypeOK
    PROVE  /\ StopStreamingLogs => StreamTypeOK'
           /\ \A r \in Runs : CallStartStreaming(r) => StreamTypeOK'
           /\ \A r \in Runs : StreamCallEnds(r) => StreamTypeOK'
           /\ \A r \in Runs : StreamerStep(r) => StreamTypeOK'
           /\ \A c \in Chains : MonitorStep(c) => StreamTypeOK'
           /\ UNCHANGED streamVars => StreamTypeOK'
<1>1. ASSUME StopStreamingLogs PROVE StreamTypeOK'
  <2>1. UNCHANGED <<enabled, chain, streamCall, toLookUp>>
    BY <1>1 DEF StopStreamingLogs
  <2>2. CASE enabled
    <3>1. active' = FALSE /\ logGroups' = NoLogGroups
      BY <1>1, <2>2 DEF StopStreamingLogs, Pause
    <3> QED BY <2>1, <3>1 DEF NoLogGroups, StreamTypeOK, StreamCallPoints
  <2>3. CASE ~enabled
    <3>1. UNCHANGED <<active, logGroups>>
      BY <1>1, <2>3 DEF StopStreamingLogs
    <3> QED BY <2>1, <3>1 DEF StreamTypeOK, StreamCallPoints
  <2> QED BY <2>2, <2>3
<1>2. ASSUME NEW r \in Runs, CallStartStreaming(r) PROVE StreamTypeOK'
  BY <1>2, StreamingEnabledAssumption DEF CallStartStreaming, StreamTypeOK, StreamCallPoints
<1>3. ASSUME NEW r \in Runs, StreamCallEnds(r) PROVE StreamTypeOK'
  BY <1>3 DEF StreamCallEnds, StreamTypeOK, StreamCallPoints
<1>4. ASSUME NEW r \in Runs, StreamerStep(r) PROVE StreamTypeOK'
  <2>1. CASE NoStackToStream(r)
    BY <2>1 DEF NoStackToStream, StreamTypeOK, StreamCallPoints
  <2>2. CASE OutputFetched(r)
    BY <2>2 DEF OutputFetched, StreamTypeOK, StreamCallPoints
  <2>3. ASSUME NEW f \in Functions, FunctionLookedUp(r, f) PROVE StreamTypeOK'
    BY <2>3 DEF FunctionLookedUp, StreamTypeOK, StreamCallPoints
  <2>4. CASE LookUpFails(r)
    BY <2>4 DEF LookUpFails, StreamTypeOK, StreamCallPoints
  <2>5. CASE StartListening(r)
    BY <2>5 DEF StartListening, ActivateOn, StreamTypeOK, StreamCallPoints
  <2> QED BY <1>4, <2>1, <2>2, <2>3, <2>4, <2>5 DEF StreamerStep
<1>5. ASSUME NEW c \in Chains, MonitorStep(c) PROVE StreamTypeOK'
  <2>1. CASE Tick(c)
    <3>1. \/ chain' = [chain EXCEPT ![c] = "reading"]
          \/ chain' = [chain EXCEPT ![c] = "none"]
      BY <2>1, Zenon DEF Tick
    <3>2. UNCHANGED <<enabled, active, logGroups, streamCall, toLookUp>>
      BY <2>1 DEF Tick
    <3> QED BY <3>1, <3>2 DEF StreamTypeOK, StreamCallPoints
  <2>2. CASE TickPrints(c)
    BY <2>2 DEF TickPrints, StreamTypeOK, StreamCallPoints
  <2>3. CASE TickFails(c)
    BY <2>3 DEF TickFails, Pause, NoLogGroups, StreamTypeOK, StreamCallPoints
  <2> QED BY <1>5, <2>1, <2>2, <2>3 DEF MonitorStep
<1>6. UNCHANGED streamVars => StreamTypeOK'
  BY DEF streamVars, StreamTypeOK, StreamCallPoints
<1> QED BY <1>1, <1>2, <1>3, <1>4, <1>5, <1>6, Zenon

\* So does what it does to those of the executor.
LEMMA ExecutorTyped ==
    ASSUME ExecutorTypeOK
    PROVE  /\ \A r \in Runs, o \in {"deploy", "destroy"} : Invoke(r, o) => ExecutorTypeOK'
           /\ TimerFires => ExecutorTypeOK'
           /\ \A r \in Runs, o \in Outcomes : CallbackSettles(r, o) => ExecutorTypeOK'
           /\ \A r \in Runs : Consume(r) => ExecutorTypeOK'
           /\ UNCHANGED executorVars => ExecutorTypeOK'
<1>1. ASSUME NEW r \in Runs, NEW o \in {"deploy", "destroy"}, Invoke(r, o) PROVE ExecutorTypeOK'
  BY <1>1 DEF Invoke, ExecutorTypeOK
<1>2. TimerFires => ExecutorTypeOK'
  BY DEF TimerFires, ExecutorTypeOK
<1>3. ASSUME NEW r \in Runs, NEW o \in Outcomes, CallbackSettles(r, o) PROVE ExecutorTypeOK'
  BY <1>3 DEF CallbackSettles, ExecutorTypeOK
<1>4. ASSUME NEW r \in Runs, Consume(r) PROVE ExecutorTypeOK'
  BY <1>4 DEF Consume, ExecutorTypeOK
<1>5. UNCHANGED executorVars => ExecutorTypeOK'
  BY DEF executorVars, ExecutorTypeOK
<1> QED BY <1>1, <1>2, <1>3, <1>4, <1>5

LEMMA NextTyped == TypeOK /\ LatchInv /\ [Next]_vars => TypeOK'
<1> SUFFICES ASSUME TypeOK, LatchInv, [Next]_vars PROVE TypeOK'
  OBVIOUS
<1> USE DEF TypeOK, sessionVars, runVars, inputVars, ghostVars
<1>1. ASSUME NEW s \in Sessions, TrackerCreated(s) PROVE TypeOK'
  <2>1. SessionTypeOK'
    BY <1>1 DEF TrackerCreated, SessionTypeOK
  <2>2. RunTypeOK'
    BY <1>1 DEF TrackerCreated, RunTypeOK
  <2>3. FlagTypeOK'
    BY <1>1 DEF TrackerCreated, NewTracker, Snapshots, FlagTypeOK
  <2>4. ExecutorTypeOK' /\ StreamTypeOK'
    BY <1>1, ExecutorTyped, StreamerTyped DEF TrackerCreated
  <2> QED BY <2>1, <2>2, <2>3, <2>4
<1>2. ASSUME NEW s \in Sessions, SubscribedAndArmed(s) PROVE TypeOK'
  <2>1. SessionTypeOK'
    BY <1>2 DEF SubscribedAndArmed, SessionTypeOK
  <2>2. RunTypeOK'
    BY <1>2 DEF SubscribedAndArmed, RunTypeOK
  <2>3. FlagTypeOK'
    BY <1>2 DEF SubscribedAndArmed, FlagTypeOK
  <2>4. ExecutorTypeOK' /\ StreamTypeOK'
    BY <1>2, ExecutorTyped, StreamerTyped DEF SubscribedAndArmed
  <2> QED BY <2>1, <2>2, <2>3, <2>4
<1>3. ASSUME NEW s \in Sessions, NotBootstrapped(s) PROVE TypeOK'
  <2>1. SessionTypeOK'
    BY <1>3 DEF NotBootstrapped, SessionTypeOK
  <2>2. RunTypeOK'
    BY <1>3 DEF NotBootstrapped, RunTypeOK
  <2>3. FlagTypeOK'
    BY <1>3 DEF NotBootstrapped, FlagTypeOK
  <2>4. ExecutorTypeOK' /\ StreamTypeOK'
    BY <1>3, ExecutorTyped, StreamerTyped DEF NotBootstrapped
  <2> QED BY <2>1, <2>2, <2>3, <2>4
<1>4. ASSUME NEW s \in Sessions, NEW r \in Runs, DeployingOnce(s, r) PROVE TypeOK'
  <2>1. SessionTypeOK'
    BY <1>4 DEF DeployingOnce, SessionTypeOK
  <2>2. RunTypeOK'
    BY <1>4 DEF DeployingOnce, BodyPoints, RunTypeOK
  <2>3. FlagTypeOK'
    BY <1>4 DEF DeployingOnce, FlagTypeOK
  <2>4. ExecutorTypeOK' /\ StreamTypeOK'
    BY <1>4, ExecutorTyped, StreamerTyped DEF DeployingOnce
  <2> QED BY <2>1, <2>2, <2>3, <2>4
<1>5. ASSUME NEW s \in Sessions, WatcherCallback(s) PROVE TypeOK'
  <2>1. SessionTypeOK'
    <3>1. /\ events' = [events EXCEPT ![s] = {}]
          /\ UNCHANGED <<phase, latch, armed, watch, first, current>>
      BY <1>5 DEF WatcherCallback
    <3>2. CASE printing' = [printing EXCEPT ![s] = @ + 1] /\ UNCHANGED callbacks
      BY <3>1, <3>2 DEF SessionTypeOK
    <3>3. CASE callbacks' = [callbacks EXCEPT ![s] = @ + 1] /\ UNCHANGED printing
      BY <3>1, <3>3 DEF SessionTypeOK
    <3> QED BY <1>5, <3>2, <3>3 DEF WatcherCallback
  <2>2. RunTypeOK'
    BY <1>5 DEF WatcherCallback, RunTypeOK
  <2>3. FlagTypeOK'
    BY <1>5 DEF WatcherCallback, TrackFileChanges, Snapshots, FlagTypeOK
  <2>4. ExecutorTypeOK' /\ StreamTypeOK'
    BY <1>5, ExecutorTyped, StreamerTyped DEF WatcherCallback
  <2> QED BY <2>1, <2>2, <2>3, <2>4
<1>6. ASSUME NEW s \in Sessions, TestLatch(s) PROVE TypeOK'
  <2>1. SessionTypeOK'
    <3>1. callbacks[s] - 1 \in Nat
      BY <1>6 DEF TestLatch, SessionTypeOK
    <3>2. CASE latch[s] = "open"
      BY <1>6, <3>1, <3>2 DEF TestLatch, SessionTypeOK
    <3>3. CASE latch[s] # "open"
      BY <1>6, <3>1, <3>3 DEF TestLatch, SessionTypeOK
    <3> QED BY <3>2, <3>3
  <2>2. RunTypeOK'
    BY <1>6 DEF TestLatch, RunTypeOK
  <2>3. FlagTypeOK'
    BY <1>6 DEF TestLatch, FlagTypeOK
  <2>4. ExecutorTypeOK' /\ StreamTypeOK'
    BY <1>6, ExecutorTyped, StreamerTyped DEF TestLatch
  <2> QED BY <2>1, <2>2, <2>3, <2>4
<1>7. ASSUME NEW s \in Sessions, WatcherClosed(s) PROVE TypeOK'
  <2>1. SessionTypeOK'
    BY <1>7 DEF WatcherClosed, SessionTypeOK
  <2>2. RunTypeOK'
    BY <1>7 DEF WatcherClosed, RunTypeOK
  <2>3. FlagTypeOK'
    BY <1>7 DEF WatcherClosed, FlagTypeOK
  <2>4. ExecutorTypeOK' /\ StreamTypeOK'
    BY <1>7, ExecutorTyped, StreamerTyped DEF WatcherClosed
  <2> QED BY <2>1, <2>2, <2>3, <2>4
<1>8. ASSUME NEW s \in Sessions, NEW r \in Runs, RunBegins(s, r) PROVE TypeOK'
  <2>1. SessionTypeOK'
    BY <1>8 DEF RunBegins, SessionTypeOK
  <2>2. RunTypeOK'
    BY <1>8 DEF RunBegins, BodyPoints, RunTypeOK
  <2>3. FlagTypeOK'
    BY <1>8 DEF RunBegins, FlagTypeOK
  <2>4. ExecutorTypeOK' /\ StreamTypeOK'
    BY <1>8, ExecutorTyped, StreamerTyped DEF RunBegins
  <2> QED BY <2>1, <2>2, <2>3, <2>4
<1>9. ASSUME NEW r \in Runs, ExecutorInvoked(r) PROVE TypeOK'
  <2>1. SessionTypeOK'
    BY <1>9 DEF ExecutorInvoked, SessionTypeOK
  <2>2. RunTypeOK'
    BY <1>9 DEF ExecutorInvoked, BodyPoints, RunTypeOK
  <2>3. FlagTypeOK'
    BY <1>9 DEF ExecutorInvoked, FlagTypeOK
  <2>4. ExecutorTypeOK' /\ StreamTypeOK'
    BY <1>9, ExecutorTyped, StreamerTyped DEF ExecutorInvoked
  <2> QED BY <2>1, <2>2, <2>3, <2>4
<1>10. ASSUME NEW r \in Runs, ListSecretsFails(r) PROVE TypeOK'
  <2>1. SessionTypeOK'
    BY <1>10 DEF ListSecretsFails, AfterDeploy, RunEnds, SessionTypeOK
  <2>2. RunTypeOK'
    BY <1>10 DEF ListSecretsFails, AfterDeploy, RunEnds, BodyPoints, NoSession, RunTypeOK
  <2>3. FlagTypeOK'
    BY <1>10 DEF ListSecretsFails, AfterDeploy, FlagTypeOK
  <2>4. ExecutorTypeOK' /\ StreamTypeOK'
    BY <1>10, ExecutorTyped, StreamerTyped DEF ListSecretsFails
  <2> QED BY <2>1, <2>2, <2>3, <2>4
<1>11. ASSUME NEW r \in Runs, OperationEnds(r) PROVE TypeOK'
  <2>1. SessionTypeOK'
    BY <1>11 DEF OperationEnds, SessionTypeOK
  <2>2. RunTypeOK'
    BY <1>11 DEF OperationEnds, RunTypeOK
  <2>3. FlagTypeOK'
    BY <1>11 DEF OperationEnds, FlagTypeOK
  <2>4. ExecutorTypeOK' /\ StreamTypeOK'
    BY <1>11, ExecutorTyped, StreamerTyped DEF OperationEnds, Outcomes
  <2> QED BY <2>1, <2>2, <2>3, <2>4
<1>12. ASSUME NEW r \in Runs, DeployReturns(r) PROVE TypeOK'
  <2>1. SessionTypeOK'
    BY <1>12 DEF DeployReturns, AfterDeploy, RunEnds, SessionTypeOK
  <2>2. RunTypeOK'
    BY <1>12 DEF DeployReturns, AfterDeploy, RunEnds, BodyPoints, NoSession, RunTypeOK
  <2>3. FlagTypeOK'
    BY <1>12 DEF DeployReturns, AfterDeploy, FlagTypeOK
  <2>4. ExecutorTypeOK' /\ StreamTypeOK'
    BY <1>12, ExecutorTyped, StreamerTyped DEF DeployReturns
  <2> QED BY <2>1, <2>2, <2>3, <2>4
<1>13. ASSUME NEW r \in Runs, DeployUnsupported(r) PROVE TypeOK'
  <2>1. SessionTypeOK'
    BY <1>13 DEF DeployUnsupported, SessionTypeOK
  <2>2. RunTypeOK'
    BY <1>13 DEF DeployUnsupported, BodyPoints, RunTypeOK
  <2>3. FlagTypeOK'
    BY <1>13 DEF DeployUnsupported, FlagTypeOK
  <2>4. ExecutorTypeOK' /\ StreamTypeOK'
    BY <1>13, ExecutorTyped, StreamerTyped DEF DeployUnsupported
  <2> QED BY <2>1, <2>2, <2>3, <2>4
<1>14. ASSUME NEW r \in Runs, DestroyInvoked(r) PROVE TypeOK'
  <2>1. SessionTypeOK'
    BY <1>14 DEF DestroyInvoked, SessionTypeOK
  <2>2. RunTypeOK'
    BY <1>14 DEF DestroyInvoked, BodyPoints, RunTypeOK
  <2>3. FlagTypeOK'
    BY <1>14 DEF DestroyInvoked, FlagTypeOK
  <2>4. ExecutorTypeOK' /\ StreamTypeOK'
    BY <1>14, ExecutorTyped, StreamerTyped DEF DestroyInvoked
  <2> QED BY <2>1, <2>2, <2>3, <2>4
<1>15. ASSUME NEW r \in Runs, ResetFails(r) PROVE TypeOK'
  <2>1. SessionTypeOK'
    BY <1>15 DEF ResetFails, RunEnds, SessionTypeOK
  <2>2. RunTypeOK'
    BY <1>15 DEF ResetFails, RunEnds, BodyPoints, NoSession, RunTypeOK
  <2>3. FlagTypeOK'
    BY <1>15 DEF ResetFails, FlagTypeOK
  <2>4. ExecutorTypeOK' /\ StreamTypeOK'
    BY <1>15, ExecutorTyped, StreamerTyped DEF ResetFails
  <2> QED BY <2>1, <2>2, <2>3, <2>4
<1>16. ASSUME NEW r \in Runs, ResetReturns(r) PROVE TypeOK'
  <2>1. SessionTypeOK'
    BY <1>16 DEF ResetReturns, AfterDeploy, RunEnds, SessionTypeOK
  <2>2. RunTypeOK'
    BY <1>16 DEF ResetReturns, AfterDeploy, RunEnds, BodyPoints, NoSession, RunTypeOK
  <2>3. FlagTypeOK'
    BY <1>16 DEF ResetReturns, AfterDeploy, FlagTypeOK
  <2>4. ExecutorTypeOK' /\ StreamTypeOK'
    BY <1>16, ExecutorTyped, StreamerTyped DEF ResetReturns
  <2> QED BY <2>1, <2>2, <2>3, <2>4
<1>17. ASSUME NEW r \in Runs, StreamingCalled(r) PROVE TypeOK'
  <2>1. SessionTypeOK'
    BY <1>17 DEF StreamingCalled, SessionTypeOK
  <2>2. RunTypeOK'
    BY <1>17 DEF StreamingCalled, BodyPoints, RunTypeOK
  <2>3. FlagTypeOK'
    BY <1>17 DEF StreamingCalled, FlagTypeOK
  <2>4. ExecutorTypeOK' /\ StreamTypeOK'
    BY <1>17, ExecutorTyped, StreamerTyped DEF StreamingCalled
  <2> QED BY <2>1, <2>2, <2>3, <2>4
<1>18. ASSUME NEW r \in Runs, StreamingReturns(r) PROVE TypeOK'
  <2>1. SessionTypeOK'
    BY <1>18 DEF StreamingReturns, RunEnds, SessionTypeOK
  <2>2. RunTypeOK'
    BY <1>18 DEF StreamingReturns, RunEnds, BodyPoints, NoSession, RunTypeOK
  <2>3. FlagTypeOK'
    BY <1>18 DEF StreamingReturns, FlagTypeOK
  <2>4. ExecutorTypeOK' /\ StreamTypeOK'
    BY <1>18, ExecutorTyped, StreamerTyped DEF StreamingReturns
  <2> QED BY <2>1, <2>2, <2>3, <2>4
<1>19. ASSUME NEW s \in Sessions, NEW r \in Runs, SandboxRestarts(r, s) PROVE TypeOK'
  <2>1. SessionTypeOK'
    BY <1>19 DEF SandboxRestarts, SessionTypeOK
  <2>2. RunTypeOK'
    BY <1>19 DEF SandboxRestarts, BodyPoints, RunTypeOK
  <2>3. FlagTypeOK'
    BY <1>19 DEF SandboxRestarts, FlagTypeOK
  <2>4. ExecutorTypeOK' /\ StreamTypeOK'
    BY <1>19, ExecutorTyped, StreamerTyped DEF SandboxRestarts
  <2> QED BY <2>1, <2>2, <2>3, <2>4
<1>20. ASSUME NEW r \in Runs, DeclineReset(r) PROVE TypeOK'
  <2>1. SessionTypeOK'
    BY <1>20 DEF DeclineReset, AfterDeploy, RunEnds, SessionTypeOK
  <2>2. RunTypeOK'
    BY <1>20 DEF DeclineReset, AfterDeploy, RunEnds, BodyPoints, NoSession, RunTypeOK
  <2>3. FlagTypeOK'
    BY <1>20 DEF DeclineReset, AfterDeploy, FlagTypeOK
  <2>4. ExecutorTypeOK' /\ StreamTypeOK'
    BY <1>20, ExecutorTyped, StreamerTyped DEF DeclineReset
  <2> QED BY <2>1, <2>2, <2>3, <2>4
<1>21. ASSUME NEW r \in Runs, AcceptReset(r) PROVE TypeOK'
  <2>1. SessionTypeOK'
    BY <1>21 DEF AcceptReset, Stop, SessionTypeOK
  <2>2. RunTypeOK'
    BY <1>21 DEF AcceptReset, BodyPoints, RunTypeOK
  <2>3. FlagTypeOK'
    BY <1>21 DEF AcceptReset, FlagTypeOK
  <2>4. ExecutorTypeOK' /\ StreamTypeOK'
    BY <1>21, ExecutorTyped, StreamerTyped DEF AcceptReset, Stop
  <2> QED BY <2>1, <2>2, <2>3, <2>4
<1>22. ASSUME NEW r \in Runs, Streams(r) PROVE TypeOK'
  <2>1. SessionTypeOK'
    BY <1>22 DEF Streams, SessionTypeOK
  <2>2. RunTypeOK'
    BY <1>22 DEF Streams, RunTypeOK
  <2>3. FlagTypeOK'
    BY <1>22 DEF Streams, FlagTypeOK
  <2>4. ExecutorTypeOK' /\ StreamTypeOK'
    BY <1>22, ExecutorTyped, StreamerTyped DEF Streams
  <2> QED BY <2>1, <2>2, <2>3, <2>4
<1>23. ASSUME OperationBegins PROVE TypeOK'
  <2>1. SessionTypeOK'
    BY <1>23 DEF OperationBegins, SessionTypeOK
  <2>2. RunTypeOK'
    BY <1>23 DEF OperationBegins, RunTypeOK
  <2>3. FlagTypeOK'
    BY <1>23 DEF OperationBegins, ResetSnapshot, Snapshots, FlagTypeOK
  <2>4. ExecutorTypeOK' /\ StreamTypeOK'
    BY <1>23, ExecutorTyped, StreamerTyped DEF OperationBegins
  <2> QED BY <2>1, <2>2, <2>3, <2>4
<1>24. ASSUME NEW c \in Chains, Monitors(c) PROVE TypeOK'
  <2>1. SessionTypeOK'
    BY <1>24 DEF Monitors, SessionTypeOK
  <2>2. RunTypeOK'
    BY <1>24 DEF Monitors, RunTypeOK
  <2>3. FlagTypeOK'
    BY <1>24 DEF Monitors, FlagTypeOK
  <2>4. ExecutorTypeOK' /\ StreamTypeOK'
    BY <1>24, ExecutorTyped, StreamerTyped DEF Monitors
  <2> QED BY <2>1, <2>2, <2>3, <2>4
<1>25. ASSUME NEW kind \in Kinds, Edit(kind) PROVE TypeOK'
  <2>1. SessionTypeOK'
    BY <1>25 DEF Edit, SessionTypeOK
  <2>2. RunTypeOK'
    BY <1>25 DEF Edit, RunTypeOK
  <2>3. FlagTypeOK'
    BY <1>25 DEF Edit, FlagTypeOK
  <2>4. ExecutorTypeOK' /\ StreamTypeOK'
    BY <1>25, ExecutorTyped, StreamerTyped DEF Edit
  <2> QED BY <2>1, <2>2, <2>3, <2>4
<1>26. ASSUME Signal PROVE TypeOK'
  <2>1. SessionTypeOK'
    BY <1>26 DEF Signal, Stop, SessionTypeOK
  <2>2. RunTypeOK'
    BY <1>26 DEF Signal, RunTypeOK
  <2>3. FlagTypeOK'
    BY <1>26 DEF Signal, FlagTypeOK
  <2>4. ExecutorTypeOK' /\ StreamTypeOK'
    BY <1>26, ExecutorTyped, StreamerTyped DEF Signal, Stop
  <2> QED BY <2>1, <2>2, <2>3, <2>4
<1>27. ASSUME NEW s \in Sessions, StartFails(s) PROVE TypeOK'
  <2>1. SessionTypeOK'
    BY <1>27 DEF StartFails, SessionTypeOK
  <2>2. RunTypeOK'
    BY <1>27 DEF StartFails, RunTypeOK
  <2>3. FlagTypeOK'
    BY <1>27 DEF StartFails, FlagTypeOK
  <2>4. ExecutorTypeOK' /\ StreamTypeOK'
    BY <1>27, ExecutorTyped, StreamerTyped DEF StartFails
  <2> QED BY <2>1, <2>2, <2>3, <2>4
<1>28. ASSUME NEW s \in Sessions, NamePrinted(s) PROVE TypeOK'
  <2> printing[s] - 1 \in Nat
    BY <1>28 DEF NamePrinted, SessionTypeOK
  <2>1. SessionTypeOK'
    BY <1>28 DEF NamePrinted, SessionTypeOK
  <2>2. RunTypeOK'
    BY <1>28 DEF NamePrinted, RunTypeOK
  <2>3. FlagTypeOK'
    BY <1>28 DEF NamePrinted, FlagTypeOK
  <2>4. ExecutorTypeOK' /\ StreamTypeOK'
    BY <1>28, ExecutorTyped, StreamerTyped DEF NamePrinted
  <2> QED BY <2>1, <2>2, <2>3, <2>4
<1>29. ASSUME NEW s \in Sessions, NameNotPrinted(s) PROVE TypeOK'
  <2> printing[s] - 1 \in Nat
    BY <1>29 DEF NameNotPrinted, SessionTypeOK
  <2>1. SessionTypeOK'
    BY <1>29 DEF NameNotPrinted, SessionTypeOK
  <2>2. RunTypeOK'
    BY <1>29 DEF NameNotPrinted, RunTypeOK
  <2>3. FlagTypeOK'
    BY <1>29 DEF NameNotPrinted, FlagTypeOK
  <2>4. ExecutorTypeOK' /\ StreamTypeOK'
    BY <1>29, ExecutorTyped, StreamerTyped DEF NameNotPrinted
  <2> QED BY <2>1, <2>2, <2>3, <2>4
<1>30. ASSUME NEW r \in Runs, Repeats(r) PROVE TypeOK'
  <2>1. SessionTypeOK'
    BY <1>30 DEF Repeats, SessionTypeOK
  <2>2. RunTypeOK'
    BY <1>30 DEF Repeats, BodyPoints, RunTypeOK
  <2>3. FlagTypeOK'
    BY <1>30 DEF Repeats, FlagTypeOK
  <2>4. ExecutorTypeOK' /\ StreamTypeOK'
    BY <1>30, ExecutorTyped, StreamerTyped DEF Repeats
  <2> QED BY <2>1, <2>2, <2>3, <2>4
<1>31. ASSUME NEW r \in Runs, RepeatFails(r) PROVE TypeOK'
  <2> session[r] \in Sessions
    BY <1>31 DEF RepeatFails, LatchInv
  <2>1. SessionTypeOK'
    BY <1>31 DEF RepeatFails, Abandons, RunEnds, SessionTypeOK
  <2>2. RunTypeOK'
    BY <1>31 DEF RepeatFails, Abandons, RunEnds, BodyPoints, NoSession, RunTypeOK
  <2>3. FlagTypeOK'
    BY <1>31 DEF RepeatFails, Abandons, FlagTypeOK
  <2>4. ExecutorTypeOK' /\ StreamTypeOK'
    BY <1>31, ExecutorTyped, StreamerTyped DEF RepeatFails, Abandons
  <2> QED BY <2>1, <2>2, <2>3, <2>4
<1>32. ASSUME NEW r \in Runs, PromptRejects(r) PROVE TypeOK'
  <2> session[r] \in Sessions
    BY <1>32 DEF PromptRejects, LatchInv
  <2>1. SessionTypeOK'
    BY <1>32 DEF PromptRejects, Abandons, RunEnds, SessionTypeOK
  <2>2. RunTypeOK'
    BY <1>32 DEF PromptRejects, Abandons, RunEnds, BodyPoints, NoSession, RunTypeOK
  <2>3. FlagTypeOK'
    BY <1>32 DEF PromptRejects, Abandons, FlagTypeOK
  <2>4. ExecutorTypeOK' /\ StreamTypeOK'
    BY <1>32, ExecutorTyped, StreamerTyped DEF PromptRejects, Abandons
  <2> QED BY <2>1, <2>2, <2>3, <2>4
<1>33. ASSUME NEW r \in Runs, DeleteFails(r) PROVE TypeOK'
  <2>1. SessionTypeOK'
    BY <1>33 DEF DeleteFails, RunEnds, SessionTypeOK
  <2>2. RunTypeOK'
    BY <1>33 DEF DeleteFails, RunEnds, BodyPoints, NoSession, RunTypeOK
  <2>3. FlagTypeOK'
    BY <1>33 DEF DeleteFails, FlagTypeOK
  <2>4. ExecutorTypeOK' /\ StreamTypeOK'
    BY <1>33, ExecutorTyped, StreamerTyped DEF DeleteFails
  <2> QED BY <2>1, <2>2, <2>3, <2>4
<1>34. ASSUME NEW r \in Runs, StreamingNotCalled(r) PROVE TypeOK'
  <2>1. SessionTypeOK'
    BY <1>34 DEF StreamingNotCalled, RunEnds, SessionTypeOK
  <2>2. RunTypeOK'
    BY <1>34 DEF StreamingNotCalled, RunEnds, BodyPoints, NoSession, RunTypeOK
  <2>3. FlagTypeOK'
    BY <1>34 DEF StreamingNotCalled, FlagTypeOK
  <2>4. ExecutorTypeOK' /\ StreamTypeOK'
    BY <1>34, ExecutorTyped, StreamerTyped DEF StreamingNotCalled
  <2> QED BY <2>1, <2>2, <2>3, <2>4
<1>35. CASE UNCHANGED vars
  BY <1>35, ExecutorTyped, StreamerTyped DEF vars, SessionTypeOK, RunTypeOK, FlagTypeOK
<1> QED
  BY <1>1, <1>2, <1>3, <1>4, <1>5, <1>6, <1>7, <1>8, <1>9, <1>10, <1>11, <1>12, <1>13,
     <1>14, <1>15, <1>16, <1>17, <1>18, <1>19, <1>20, <1>21, <1>22, <1>23, <1>24, <1>25,
     <1>26, <1>27, <1>35, <1>28, <1>29, <1>30, <1>31, <1>32, <1>33, <1>34
     DEF Next, StartStep, WatchStep, RunStep, Answer

LEMMA InitTyped == Init => TypeOK
<1> SUFFICES ASSUME Init PROVE TypeOK
  OBVIOUS
<1>1. SessionTypeOK
  BY MaxSessionsAssumption DEF Init, SessionTypeOK, Sessions, NoSession
<1>2. RunTypeOK
  BY DEF Init, RunTypeOK
<1>3. FlagTypeOK
  BY MaxSignalsAssumption, WatchOptionsAssumption DEF Init, FlagTypeOK, NewTracker, Snapshots
<1>4. ExecutorTypeOK
  BY DEF Init, ExecutorInit, ExecutorTypeOK
<1>5. StreamTypeOK
  BY DEF Init, StreamInit, StreamTypeOK, StreamCallPoints, NoLogGroups
<1> QED BY <1>1, <1>2, <1>3, <1>4, <1>5 DEF TypeOK

-----------------------------------------------------------------------------
(* One run behind the latch. *)

\* The end of a deploy() gives the latch back or keeps it for the next one.
LEMMA AfterDeployKeepsLatch ==
    ASSUME TypeOK, LatchInv, NEW r \in Runs, InBody(r), AfterDeploy(r),
           UNCHANGED <<armed, watch, printing, callbacks, watchForChanges>>
    PROVE  LatchInv'
<1>0. watchForChanges \in BOOLEAN
  BY DEF TypeOK, FlagTypeOK
<1> USE <1>0
    DEF TypeOK, SessionTypeOK, RunTypeOK, LatchInv, EarlySessionsIdle, LatchIsHeld,
        NobodyWatchesOnce, LatchAdmitsOneRun, InBody, BodyPoints, NoSession, Sessions
<1>1. CASE ~watchForChanges /\ RunEnds(r, "started") /\ UNCHANGED latch
  BY <1>1 DEF RunEnds
<1>2. CASE /\ watchForChanges
           /\ latch[session[r]] = "queued"
           /\ latch' = [latch EXCEPT ![session[r]] = "deploying"]
           /\ pc' = [pc EXCEPT ![r] = "repeating"]
           /\ UNCHANGED <<session, phase>>
  BY <1>2
<1>3. CASE /\ watchForChanges
           /\ latch' = [latch EXCEPT ![session[r]] = "open"]
           /\ pc' = [pc EXCEPT ![r] = "tail"]
           /\ UNCHANGED <<session, phase>>
  BY <1>3
<1> QED BY <1>1, <1>2, <1>3 DEF AfterDeploy

LEMMA LatchInvPreserved == TypeOK /\ LatchInv /\ [Next]_vars => LatchInv'
<1> SUFFICES ASSUME TypeOK, LatchInv, [Next]_vars PROVE LatchInv'
  OBVIOUS
<1>0. watchForChanges \in BOOLEAN
  BY DEF TypeOK, FlagTypeOK
<1> USE <1>0
    DEF TypeOK, SessionTypeOK, RunTypeOK, LatchInv, EarlySessionsIdle, LatchIsHeld,
        NobodyWatchesOnce, LatchAdmitsOneRun, InBody, BodyPoints, NoSession, Sessions,
        sessionVars, runVars, inputVars
<1>1. ASSUME NEW s \in Sessions, TrackerCreated(s) PROVE LatchInv'
  BY <1>1 DEF TrackerCreated
<1>2. ASSUME NEW s \in Sessions, SubscribedAndArmed(s) PROVE LatchInv'
  BY <1>2 DEF SubscribedAndArmed
<1>3. ASSUME NEW s \in Sessions, NotBootstrapped(s) PROVE LatchInv'
  BY <1>3 DEF NotBootstrapped
<1>4. ASSUME NEW s \in Sessions, NEW r \in Runs, DeployingOnce(s, r) PROVE LatchInv'
  BY <1>4 DEF DeployingOnce
<1>5. ASSUME NEW s \in Sessions, WatcherCallback(s) PROVE LatchInv'
  <2>1. watchForChanges /\ phase[s] \notin {"absent", "tracking", "bootstrapping"}
    BY <1>5 DEF WatcherCallback
  <2>2. \/ printing' = [printing EXCEPT ![s] = @ + 1] /\ UNCHANGED callbacks
        \/ callbacks' = [callbacks EXCEPT ![s] = @ + 1] /\ UNCHANGED printing
    BY <1>5 DEF WatcherCallback
  <2>3. \A t \in Sessions : t # s => callbacks'[t] = callbacks[t] /\ printing'[t] = printing[t]
    <3>1. CASE printing' = [printing EXCEPT ![s] = @ + 1] /\ UNCHANGED callbacks
      BY <3>1
    <3>2. CASE callbacks' = [callbacks EXCEPT ![s] = @ + 1] /\ UNCHANGED printing
      BY <3>2
    <3> QED BY <2>2, <3>1, <3>2
  <2>4. UNCHANGED <<phase, latch, armed, watch, pc, session, watchForChanges>>
    BY <1>5 DEF WatcherCallback
  <2> QED BY <2>1, <2>3, <2>4
<1>6. ASSUME NEW s \in Sessions, TestLatch(s) PROVE LatchInv'
  <2>1. watchForChanges /\ phase[s] \notin {"absent", "tracking", "bootstrapping"}
    BY <1>6 DEF TestLatch
  <2>2. \A t \in Sessions : t # s => callbacks'[t] = callbacks[t]
    BY <1>6 DEF TestLatch
  <2>3. CASE latch[s] = "open" /\ armed' = [armed EXCEPT ![s] = TRUE] /\ UNCHANGED latch
    BY <1>6, <2>1, <2>2, <2>3 DEF TestLatch
  <2>4. CASE latch[s] # "open" /\ latch' = [latch EXCEPT ![s] = "queued"] /\ UNCHANGED armed
    BY <1>6, <2>1, <2>2, <2>4 DEF TestLatch
  <2> QED BY <1>6, <2>3, <2>4 DEF TestLatch
<1>7. ASSUME NEW s \in Sessions, WatcherClosed(s) PROVE LatchInv'
  BY <1>7 DEF WatcherClosed
<1>8. ASSUME NEW s \in Sessions, NEW r \in Runs, RunBegins(s, r) PROVE LatchInv'
  BY <1>8 DEF RunBegins
<1>9. ASSUME NEW r \in Runs, ExecutorInvoked(r) PROVE LatchInv'
  BY <1>9 DEF ExecutorInvoked
<1>10. ASSUME NEW r \in Runs, ListSecretsFails(r) PROVE LatchInv'
  BY <1>10, AfterDeployKeepsLatch DEF ListSecretsFails
<1>11. ASSUME NEW r \in Runs, OperationEnds(r) PROVE LatchInv'
  BY <1>11 DEF OperationEnds
<1>12. ASSUME NEW r \in Runs, DeployReturns(r) PROVE LatchInv'
  BY <1>12, AfterDeployKeepsLatch DEF DeployReturns
<1>13. ASSUME NEW r \in Runs, DeployUnsupported(r) PROVE LatchInv'
  BY <1>13 DEF DeployUnsupported
<1>14. ASSUME NEW r \in Runs, DestroyInvoked(r) PROVE LatchInv'
  BY <1>14 DEF DestroyInvoked
<1>15. ASSUME NEW r \in Runs, ResetFails(r) PROVE LatchInv'
  BY <1>15 DEF RunEnds, ResetFails
<1>16. ASSUME NEW r \in Runs, ResetReturns(r) PROVE LatchInv'
  <2>1. CASE AfterDeploy(r)
    BY <1>16, <2>1, AfterDeployKeepsLatch DEF ResetReturns
  <2>2. CASE RunEnds(r, "failed") /\ UNCHANGED latch
    BY <1>16, <2>2 DEF ResetReturns, RunEnds
  <2> QED BY <1>16, <2>1, <2>2 DEF ResetReturns
<1>17. ASSUME NEW r \in Runs, StreamingCalled(r) PROVE LatchInv'
  BY <1>17 DEF StreamingCalled
<1>18. ASSUME NEW r \in Runs, StreamingReturns(r) PROVE LatchInv'
  BY <1>18 DEF RunEnds, StreamingReturns
<1>19. ASSUME NEW s \in Sessions, NEW r \in Runs, SandboxRestarts(r, s) PROVE LatchInv'
  BY <1>19 DEF SandboxRestarts
<1>20. ASSUME NEW r \in Runs, DeclineReset(r) PROVE LatchInv'
  BY <1>20, AfterDeployKeepsLatch DEF DeclineReset
<1>21. ASSUME NEW r \in Runs, AcceptReset(r) PROVE LatchInv'
  BY <1>21 DEF Stop, AcceptReset
<1>22. ASSUME NEW r \in Runs, Streams(r) PROVE LatchInv'
  BY <1>22 DEF Streams
<1>23. ASSUME OperationBegins PROVE LatchInv'
  BY <1>23 DEF OperationBegins
<1>24. ASSUME NEW c \in Chains, Monitors(c) PROVE LatchInv'
  BY <1>24 DEF Monitors
<1>25. ASSUME NEW kind \in Kinds, Edit(kind) PROVE LatchInv'
  BY <1>25 DEF Edit
<1>26. ASSUME Signal PROVE LatchInv'
  BY <1>26 DEF Stop, Signal
<1>27. ASSUME NEW s \in Sessions, StartFails(s) PROVE LatchInv'
  BY <1>27 DEF StartFails
<1>28. ASSUME NEW s \in Sessions, NamePrinted(s) PROVE LatchInv'
  <2>1. watchForChanges /\ phase[s] \notin {"absent", "tracking", "bootstrapping"}
    BY <1>28 DEF NamePrinted
  <2>2. \A t \in Sessions : t # s => callbacks'[t] = callbacks[t] /\ printing'[t] = printing[t]
    BY <1>28 DEF NamePrinted
  <2> QED BY <1>28, <2>1, <2>2 DEF NamePrinted
<1>29. ASSUME NEW s \in Sessions, NameNotPrinted(s) PROVE LatchInv'
  <2>1. watchForChanges /\ phase[s] \notin {"absent", "tracking", "bootstrapping"}
    BY <1>29 DEF NameNotPrinted
  <2>2. \A t \in Sessions : t # s => printing'[t] = printing[t]
    BY <1>29 DEF NameNotPrinted
  <2> QED BY <1>29, <2>1, <2>2 DEF NameNotPrinted
<1>30. ASSUME NEW r \in Runs, Repeats(r) PROVE LatchInv'
  BY <1>30 DEF Repeats
<1>31. ASSUME NEW r \in Runs, RepeatFails(r) PROVE LatchInv'
  BY <1>31 DEF RepeatFails, Abandons, RunEnds
<1>32. ASSUME NEW r \in Runs, PromptRejects(r) PROVE LatchInv'
  BY <1>32 DEF PromptRejects, Abandons, RunEnds
<1>33. ASSUME NEW r \in Runs, DeleteFails(r) PROVE LatchInv'
  BY <1>33 DEF DeleteFails, RunEnds
<1>34. ASSUME NEW r \in Runs, StreamingNotCalled(r) PROVE LatchInv'
  BY <1>34 DEF StreamingNotCalled, RunEnds
<1>35. CASE UNCHANGED vars
  BY <1>35 DEF vars
<1> QED
  BY <1>1, <1>2, <1>3, <1>4, <1>5, <1>6, <1>7, <1>8, <1>9, <1>10, <1>11, <1>12, <1>13,
     <1>14, <1>15, <1>16, <1>17, <1>18, <1>19, <1>20, <1>21, <1>22, <1>23, <1>24, <1>25,
     <1>26, <1>27, <1>35, <1>28, <1>29, <1>30, <1>31, <1>32, <1>33, <1>34
     DEF Next, StartStep, WatchStep, RunStep, Answer

LEMMA InitLatched == Init => LatchInv
  BY DEF Init, LatchInv, EarlySessionsIdle, LatchIsHeld, NobodyWatchesOnce,
         LatchAdmitsOneRun, InBody, BodyPoints

\* Every variable keeps its type.
THEOREM TypeCorrect == Spec => []TypeOK
  BY InitTyped, InitLatched, NextTyped, LatchInvPreserved, PTL DEF Spec

\* The latch of a session admits one run of deployAndWatch at a time.
THEOREM LatchCorrect == Spec => []LatchAdmitsOneRun
<1>1. LatchInv => LatchAdmitsOneRun
  BY DEF LatchInv
<1> QED BY <1>1, InitTyped, InitLatched, NextTyped, LatchInvPreserved, PTL DEF Spec

-----------------------------------------------------------------------------
(* One deployment. *)

WaitPoints == {"deploying", "destroying"}

\* A run that takes part in a debounced call of the executor awaits its outcome,
\* and it takes part in one way at a time: its call waits for the timer, or for
\* the callback of a leader, or its outcome is there.
CallersWait ==
    /\ \A r \in Runs :
          /\ r \in invoked => pc[r] \in WaitPoints
          /\ leader[r] # NoRun => pc[r] \in WaitPoints /\ r \notin invoked
          /\ outcome[r] # "none" =>
                 pc[r] \in WaitPoints /\ r \notin invoked /\ leader[r] = NoRun
    /\ invoked # {} => lastCall \in invoked

\* Steps outside of the executor leave those who wait where they are.
LEMMA WaitKept ==
    ASSUME CallersWait, UNCHANGED executorVars,
           \A r \in Runs : pc[r] \in WaitPoints => pc'[r] = pc[r]
    PROVE  CallersWait'
  BY DEF CallersWait, executorVars

\* A deployment that is over takes its run on from where it is.
LEMMA AfterDeployMoves ==
    ASSUME TypeOK, NEW r \in Runs, AfterDeploy(r)
    PROVE  \A q \in Runs : q # r => pc'[q] = pc[q]
  BY DEF AfterDeploy, RunEnds, TypeOK, RunTypeOK

LEMMA InvokeWaits ==
    ASSUME TypeOK, CallersWait, NEW r \in Runs, NEW o, pc[r] \notin WaitPoints, Invoke(r, o),
           NEW point \in WaitPoints, pc' = [pc EXCEPT ![r] = point]
    PROVE  CallersWait'
<1>1. pc'[r] \in WaitPoints /\ \A q \in Runs : q # r => pc'[q] = pc[q]
  BY DEF TypeOK, RunTypeOK
<1>2. r \notin invoked /\ leader[r] = NoRun /\ outcome[r] = "none"
  BY DEF CallersWait
<1>3. invoked' = invoked \union {r} /\ lastCall' = r /\ UNCHANGED <<leader, outcome>>
  BY DEF Invoke
<1> QED BY <1>1, <1>2, <1>3 DEF CallersWait

LEMMA ConsumeWaits ==
    ASSUME TypeOK, CallersWait, NEW r \in Runs, outcome[r] # "none", Consume(r),
           \A q \in Runs : q # r => pc'[q] = pc[q]
    PROVE  CallersWait'
<1>1. r \notin invoked /\ leader[r] = NoRun
  BY DEF CallersWait
<1>2. /\ outcome'[r] = "none" /\ \A q \in Runs : q # r => outcome'[q] = outcome[q]
      /\ UNCHANGED <<invoked, lastCall, leader>>
  BY DEF Consume, TypeOK, ExecutorTypeOK
<1> QED BY <1>1, <1>2 DEF CallersWait

LEMMA CallersWaitPreserved == TypeOK /\ CallersWait /\ [Next]_vars => CallersWait'
<1> SUFFICES ASSUME TypeOK, CallersWait, [Next]_vars PROVE CallersWait'
  OBVIOUS
<1> USE DEF sessionVars, runVars, WaitPoints
<1>1. ASSUME NEW s \in Sessions, TrackerCreated(s) \/ SubscribedAndArmed(s) \/ NotBootstrapped(s)
                                  \/ StartFails(s) \/ WatcherCallback(s)
                                  \/ NamePrinted(s) \/ NameNotPrinted(s)
                                  \/ TestLatch(s) \/ WatcherClosed(s)
      PROVE  CallersWait'
  <2>1. UNCHANGED <<executorVars, pc>>
    BY <1>1 DEF TrackerCreated, SubscribedAndArmed, NotBootstrapped, StartFails,
                WatcherCallback, NamePrinted, NameNotPrinted, TestLatch, WatcherClosed
  <2> QED BY <2>1, WaitKept
<1>2. ASSUME NEW s \in Sessions, NEW r \in Runs, DeployingOnce(s, r) \/ RunBegins(s, r)
      PROVE  CallersWait'
  <2>1. pc[r] = "free" /\ pc' = [pc EXCEPT ![r] = "preparing"] /\ UNCHANGED executorVars
    BY <1>2 DEF DeployingOnce, RunBegins, FreeRuns
  <2>2. \A q \in Runs : q # r => pc'[q] = pc[q]
    BY <2>1 DEF TypeOK, RunTypeOK
  <2> QED BY <2>1, <2>2, WaitKept
<1>3. ASSUME NEW r \in Runs, ExecutorInvoked(r) PROVE CallersWait'
  BY <1>3, InvokeWaits DEF ExecutorInvoked
<1>4. ASSUME NEW r \in Runs, DestroyInvoked(r) PROVE CallersWait'
  BY <1>4, InvokeWaits DEF DestroyInvoked
<1>5. ASSUME NEW r \in Runs, ListSecretsFails(r) \/ DeclineReset(r) PROVE CallersWait'
  <2>1. pc[r] \notin WaitPoints /\ UNCHANGED executorVars
    BY <1>5 DEF ListSecretsFails, DeclineReset
  <2>2. \A q \in Runs : q # r => pc'[q] = pc[q]
    BY <1>5, AfterDeployMoves DEF ListSecretsFails, DeclineReset
  <2> QED BY <2>1, <2>2, WaitKept
<1>6. ASSUME NEW r \in Runs, OperationEnds(r) PROVE CallersWait'
  <2>1. PICK o : CallbackSettles(r, o)
    BY <1>6 DEF OperationEnds
  <2>2. /\ \A q \in Runs : /\ outcome'[q] = IF leader[q] = r THEN o ELSE outcome[q]
                          /\ leader'[q] = IF leader[q] = r THEN NoRun ELSE leader[q]
        /\ UNCHANGED <<invoked, lastCall>>
    BY <2>1 DEF CallbackSettles
  <2>3. UNCHANGED pc
    BY <1>6 DEF OperationEnds
  <2> QED BY <2>2, <2>3, NoRunAssumption DEF CallersWait
<1>7. ASSUME NEW r \in Runs, DeployReturns(r) PROVE CallersWait'
  <2>1. outcome[r] # "none" /\ Consume(r) /\ AfterDeploy(r)
    BY <1>7 DEF DeployReturns
  <2> QED BY <2>1, AfterDeployMoves, ConsumeWaits
<1>8. ASSUME NEW r \in Runs, DeployUnsupported(r) PROVE CallersWait'
  <2>1. outcome[r] # "none" /\ Consume(r) /\ pc' = [pc EXCEPT ![r] = "prompting"]
    BY <1>8 DEF DeployUnsupported
  <2>2. \A q \in Runs : q # r => pc'[q] = pc[q]
    BY <2>1 DEF TypeOK, RunTypeOK
  <2> QED BY <2>1, <2>2, ConsumeWaits
<1>9. ASSUME NEW r \in Runs, ResetFails(r) PROVE CallersWait'
  <2>1. outcome[r] # "none" /\ Consume(r) /\ pc' = [pc EXCEPT ![r] = "free"]
    BY <1>9 DEF ResetFails, RunEnds
  <2>2. \A q \in Runs : q # r => pc'[q] = pc[q]
    BY <2>1 DEF TypeOK, RunTypeOK
  <2> QED BY <2>1, <2>2, ConsumeWaits
<1>10. ASSUME NEW r \in Runs, NEW s, SandboxRestarts(r, s) PROVE CallersWait'
  <2>1. outcome[r] # "none" /\ Consume(r) /\ pc' = [pc EXCEPT ![r] = "resetting"]
    BY <1>10 DEF SandboxRestarts
  <2>2. \A q \in Runs : q # r => pc'[q] = pc[q]
    BY <2>1 DEF TypeOK, RunTypeOK
  <2> QED BY <2>1, <2>2, ConsumeWaits
<1>11. ASSUME NEW r \in Runs, ResetReturns(r) PROVE CallersWait'
  <2>1. pc[r] \notin WaitPoints /\ UNCHANGED executorVars
    BY <1>11 DEF ResetReturns
  <2>2. \A q \in Runs : q # r => pc'[q] = pc[q]
    <3>1. CASE AfterDeploy(r)
      BY <3>1, AfterDeployMoves
    <3>2. CASE RunEnds(r, "failed")
      BY <3>2 DEF RunEnds, TypeOK, RunTypeOK
    <3> QED BY <1>11, <3>1, <3>2 DEF ResetReturns
  <2> QED BY <2>1, <2>2, WaitKept
<1>12. ASSUME NEW r \in Runs, \/ StreamingCalled(r) \/ StreamingReturns(r) \/ AcceptReset(r)
                               \/ Repeats(r) \/ RepeatFails(r) \/ PromptRejects(r)
                               \/ DeleteFails(r) \/ StreamingNotCalled(r)
       PROVE  CallersWait'
  <2>1. pc[r] \notin WaitPoints /\ UNCHANGED executorVars
        /\ \E point : pc' = [pc EXCEPT ![r] = point]
    BY <1>12 DEF StreamingCalled, StreamingReturns, RunEnds, AcceptReset, Repeats, RepeatFails,
                 PromptRejects, Abandons, DeleteFails, StreamingNotCalled
  <2>2. \A q \in Runs : q # r => pc'[q] = pc[q]
    BY <2>1 DEF TypeOK, RunTypeOK
  <2> QED BY <2>1, <2>2, WaitKept
<1>13. CASE OperationBegins
  <2>1. /\ \A q \in Runs : leader'[q] = IF q \in invoked THEN lastCall ELSE leader[q]
        /\ invoked' = {} /\ UNCHANGED <<outcome, pc>>
    BY <1>13 DEF OperationBegins, TimerFires
  <2> QED BY <2>1 DEF CallersWait
<1>14. ASSUME NEW r, NEW c, NEW kind, Streams(r) \/ Monitors(c) \/ Edit(kind) \/ Signal
                                      \/ UNCHANGED vars
       PROVE  CallersWait'
  <2>1. UNCHANGED <<executorVars, pc>>
    BY <1>14 DEF Streams, Monitors, Edit, Signal, vars
  <2> QED BY <2>1, WaitKept
<1> QED
  BY <1>1, <1>2, <1>3, <1>4, <1>5, <1>6, <1>7, <1>8, <1>9, <1>10, <1>11, <1>12, <1>13, <1>14
     DEF Next, StartStep, WatchStep, RunStep, Answer

\* In a sandbox that was never recreated only one run takes part in a call.
LEMMA OneWaits ==
    ASSUME TypeOK, LatchInv, ~Recreated, NEW r \in Runs, NEW q \in Runs,
           pc[r] \in WaitPoints, pc[q] \in WaitPoints
    PROVE  r = q
<1>1. InBody(r) /\ InBody(q) /\ session[r] \in Sessions /\ session[q] \in Sessions
  BY DEF WaitPoints, InBody, BodyPoints, LatchInv
<1>2. \A s \in Sessions : s # 1 => phase[s] = "absent"
  BY DEF Recreated
<1>3. session[r] = 1 /\ session[q] = 1
  BY <1>1, <1>2 DEF LatchInv, EarlySessionsIdle
<1> QED BY <1>1, <1>3 DEF LatchInv, LatchAdmitsOneRun

LEMMA AtMostOneElement ==
    ASSUME NEW S, \A x, y \in S : x = y
    PROVE  Cardinality(S) \in {0, 1} /\ (Cardinality(S) = 0 <=> S = {})
<1>1. CASE S = {}
  BY <1>1, FS_EmptySet
<1>2. ASSUME NEW x \in S PROVE Cardinality(S) = 1 /\ S # {}
  <2>1. S = {x}
    BY <1>2
  <2> QED BY <2>1, FS_Singleton
<1> QED BY <1>1, <1>2

LEMMA OneOperation ==
    ASSUME TypeOK, LatchInv, CallersWait, ~Recreated, NEW operation
    PROVE  LET running == RunningOperations(operation)
           IN  Cardinality(running) \in {0, 1} /\ (Cardinality(running) = 0 <=> running = {})
<1>1. \A r, q \in RunningOperations(operation) : r = q
  BY OneWaits, NoRunAssumption DEF RunningOperations, CallersWait
<1> QED BY <1>1, AtMostOneElement

LEMMA SandboxInvariant == Spec => [](TypeOK /\ LatchInv /\ CallersWait)
<1>1. Init => TypeOK /\ LatchInv /\ CallersWait
  <2>1. Init => CallersWait
    BY DEF Init, ExecutorInit, CallersWait
  <2> QED BY <2>1, InitTyped, InitLatched
<1>2. TypeOK /\ LatchInv /\ CallersWait /\ [Next]_vars => (TypeOK /\ LatchInv /\ CallersWait)'
  BY NextTyped, LatchInvPreserved, CallersWaitPreserved
<1> QED BY <1>1, <1>2, PTL DEF Spec

\* "making sure 'cdk deploy's always execute one at a time" (FileWatchingSandbox):
\* until the sandbox is recreated no two deployments are in progress, for any
\* number of runs, callbacks and signals.
THEOREM OneDeploymentCorrect == Spec => []OneDeployUntilRecreated
<1>1. TypeOK /\ LatchInv /\ CallersWait => OneDeployUntilRecreated
  BY OneOperation DEF OneDeployUntilRecreated, OneDeployAtATime
<1> QED BY <1>1, SandboxInvariant, PTL

-----------------------------------------------------------------------------
(* The promise: the safety half of KeepsPromise. *)

\* A step that no deployment begins or ends in is one of DeployOnChange, when
\* it changes who watches or what there is to deploy, but not both.
LEMMA StepBetweenDeployments ==
    ASSUME TypeOK, UNCHANGED RunningOperations("deploy"),
           \/ UNCHANGED <<stale, missed>>
           \/ UNCHANGED Attended /\ stale' = FALSE /\ missed' = FALSE
           \/ UNCHANGED Attended /\ stale' = TRUE /\ missed' = FALSE
           \/ UNCHANGED Attended /\ UNCHANGED stale /\ missed' = TRUE
    PROVE  [Promise!Next]_Promise!vars
<1>1. UNCHANGED Cardinality(RunningOperations("deploy"))
  OBVIOUS
<1>2. CASE UNCHANGED <<stale, missed>>
  <2>1. Attended' \in BOOLEAN
    BY DEF Attended
  <2> QED BY <1>1, <1>2, <2>1 DEF Promise!Next, Promise!WatchOrNot
<1>3. CASE UNCHANGED Attended /\ stale' = FALSE /\ missed' = FALSE
  BY <1>1, <1>3 DEF Promise!Next, Promise!Attempt
<1>4. CASE UNCHANGED Attended /\ stale' = TRUE /\ missed' = FALSE
  BY <1>1, <1>4 DEF Promise!Next, Promise!Change
<1>5. CASE UNCHANGED Attended /\ UNCHANGED stale /\ missed' = TRUE
  BY <1>1, <1>5 DEF Promise!Next, Promise!Miss
<1> QED BY <1>2, <1>3, <1>4, <1>5

\* Calling the executor and taking its outcome begins and ends no operation.
LEMMA CallsRunNothing ==
    ASSUME TypeOK, CallersWait, NEW r \in Runs,
           \/ UNCHANGED executorVars
           \/ pc[r] \notin WaitPoints /\ \E o : Invoke(r, o)
           \/ outcome[r] # "none" /\ Consume(r)
    PROVE  UNCHANGED RunningOperations("deploy")
<1>1. CASE UNCHANGED executorVars
  BY <1>1 DEF RunningOperations, executorVars
<1>2. CASE leader[r] = NoRun /\ UNCHANGED leader /\ \A q \in Runs : q # r => callback'[q] = callback[q]
  BY <1>2, NoRunAssumption DEF RunningOperations
<1>3. CASE pc[r] \notin WaitPoints /\ \E o : Invoke(r, o)
  BY <1>2, <1>3 DEF Invoke, CallersWait, TypeOK, ExecutorTypeOK
<1>4. CASE outcome[r] # "none" /\ Consume(r)
  BY <1>2, <1>4 DEF Consume, CallersWait, TypeOK, ExecutorTypeOK
<1> QED BY <1>1, <1>3, <1>4

\* The callback of the last call begins, and no other was running.
LEMMA BeginsPromised ==
    ASSUME TypeOK, LatchInv, CallersWait, ~Recreated, OperationBegins
    PROVE  [Promise!Next]_Promise!vars
<1>1. lastCall \in Runs /\ lastCall \in invoked
  BY DEF OperationBegins, TimerFires, CallersWait, TypeOK, ExecutorTypeOK
<1>2. \A q \in Runs : leader[q] = NoRun
  BY <1>1, OneWaits DEF CallersWait
<1>3. invoked = {lastCall}
  BY <1>1, OneWaits DEF CallersWait, TypeOK, ExecutorTypeOK
<1>4. UNCHANGED <<callback, watch, phase, abandoned>>
      /\ \A q \in Runs : leader'[q] = IF q = lastCall THEN lastCall ELSE leader[q]
  BY <1>3 DEF OperationBegins, TimerFires, sessionVars
<1>5. CASE callback[lastCall] = "deploy"
  <2>1. RunningOperations("deploy") = {} /\ RunningOperations("deploy")' = {lastCall}
    BY <1>1, <1>2, <1>4, <1>5, NoRunAssumption DEF RunningOperations
  <2>2. Cardinality(RunningOperations("deploy")) = 0 /\ Cardinality(RunningOperations("deploy"))' = 1
    BY <2>1, FS_EmptySet, FS_Singleton
  <2>3. stale' = FALSE /\ missed' = FALSE /\ UNCHANGED Attended
    BY <1>4, <1>5 DEF OperationBegins, Attended
  <2> QED BY <2>2, <2>3 DEF Promise!Next, Promise!Begin
<1>6. CASE callback[lastCall] # "deploy"
  <2>1. UNCHANGED RunningOperations("deploy")
    BY <1>1, <1>2, <1>4, <1>6, NoRunAssumption DEF RunningOperations
  <2>2. UNCHANGED <<stale, missed>>
    BY <1>6 DEF OperationBegins
  <2> QED BY <2>1, <2>2, StepBetweenDeployments
<1> QED BY <1>5, <1>6

\* The callback of the only call ends.
LEMMA EndsPromised ==
    ASSUME TypeOK, LatchInv, CallersWait, ~Recreated, NEW r \in Runs, OperationEnds(r)
    PROVE  [Promise!Next]_Promise!vars
<1>1. leader[r] = r /\ UNCHANGED <<callback, watch, phase, abandoned>>
      /\ \A q \in Runs : leader'[q] = IF leader[q] = r THEN NoRun ELSE leader[q]
  BY DEF OperationEnds, CallbackSettles, sessionVars
<1>2. \A q \in Runs : q # r => leader[q] = NoRun
  BY <1>1, OneWaits, NoRunAssumption DEF CallersWait
<1>3. \/ UNCHANGED <<stale, missed>>
      \/ callback[r] = "destroy" /\ stale' = TRUE /\ missed' = FALSE
  BY DEF OperationEnds
<1>4. CASE callback[r] = "deploy"
  <2>1. RunningOperations("deploy") = {r} /\ RunningOperations("deploy")' = {}
    BY <1>1, <1>2, <1>4, NoRunAssumption DEF RunningOperations
  <2>2. Cardinality(RunningOperations("deploy")) = 1 /\ Cardinality(RunningOperations("deploy"))' = 0
    BY <2>1, FS_EmptySet, FS_Singleton
  <2>3. UNCHANGED <<stale, missed, Attended>>
    BY <1>1, <1>3, <1>4 DEF Attended
  <2> QED BY <2>2, <2>3 DEF Promise!Next, Promise!End
<1>5. CASE callback[r] # "deploy"
  <2>1. UNCHANGED RunningOperations("deploy")
    BY <1>1, <1>2, <1>5, NoRunAssumption DEF RunningOperations
  <2>2. UNCHANGED Attended
    BY <1>1 DEF Attended
  <2> QED BY <1>3, <2>1, <2>2, StepBetweenDeployments
<1> QED BY <1>4, <1>5

LEMMA NextPromised ==
    TypeOK /\ LatchInv /\ CallersWait /\ [Next]_vars => [~Recreated => Promise!Next]_Promise!vars
<1> SUFFICES ASSUME TypeOK, LatchInv, CallersWait, ~Recreated, [Next]_vars
             PROVE  [Promise!Next]_Promise!vars
  OBVIOUS
<1> USE DEF sessionVars, runVars, ghostVars, WaitPoints
<1>1. ASSUME NEW s, NEW r, NEW c,
             \/ TrackerCreated(s) \/ SubscribedAndArmed(s) \/ NotBootstrapped(s)
             \/ StartFails(s) \/ WatcherCallback(s) \/ NamePrinted(s) \/ TestLatch(s)
             \/ WatcherClosed(s) \/ AcceptReset(r) \/ RepeatFails(r) \/ PromptRejects(r)
             \/ DeleteFails(r) \/ StreamingCalled(r) \/ StreamingNotCalled(r)
             \/ StreamingReturns(r) \/ Streams(r) \/ Monitors(c) \/ Signal \/ UNCHANGED vars
      PROVE  [Promise!Next]_Promise!vars
  <2>1. UNCHANGED <<stale, missed, executorVars>>
    BY <1>1
       DEF TrackerCreated, SubscribedAndArmed, NotBootstrapped, StartFails, WatcherCallback,
           NamePrinted, TestLatch, WatcherClosed, AcceptReset, RepeatFails, PromptRejects,
           Abandons, DeleteFails, StreamingCalled, StreamingNotCalled, StreamingReturns,
           Streams, Monitors, Signal, vars
  <2>2. UNCHANGED RunningOperations("deploy")
    BY <2>1 DEF executorVars, RunningOperations
  <2> QED BY <2>1, <2>2, StepBetweenDeployments
<1>2. ASSUME NEW s, NEW r \in Runs, DeployingOnce(s, r) \/ RunBegins(s, r) \/ Repeats(r)
      PROVE  [Promise!Next]_Promise!vars
  <2>1. stale' = FALSE /\ missed' = FALSE /\ UNCHANGED <<watch, abandoned, executorVars>>
    BY <1>2 DEF DeployingOnce, RunBegins, Repeats
  <2>2. (phase'[1] = "failed") = (phase[1] = "failed")
    <3>1. CASE DeployingOnce(s, r)
      BY <3>1 DEF DeployingOnce, TypeOK, SessionTypeOK
    <3>2. CASE RunBegins(s, r) \/ Repeats(r)
      BY <3>2 DEF RunBegins, Repeats
    <3> QED BY <1>2, <3>1, <3>2
  <2>3. UNCHANGED Attended
    BY <2>1, <2>2 DEF Attended
  <2> QED BY <2>1, <2>3, CallsRunNothing, StepBetweenDeployments
<1>3. ASSUME NEW r \in Runs, NEW s,
             \/ ListSecretsFails(r) \/ DeclineReset(r) \/ ResetReturns(r) \/ DeployReturns(r)
             \/ DeployUnsupported(r) \/ ResetFails(r) \/ SandboxRestarts(r, s)
      PROVE  [Promise!Next]_Promise!vars
  <2>1. UNCHANGED <<stale, missed>>
    BY <1>3 DEF ListSecretsFails, DeclineReset, ResetReturns, DeployReturns,
                DeployUnsupported, ResetFails, SandboxRestarts
  <2>2. UNCHANGED executorVars \/ (outcome[r] # "none" /\ Consume(r))
    BY <1>3 DEF ListSecretsFails, DeclineReset, ResetReturns, DeployReturns,
                DeployUnsupported, ResetFails, SandboxRestarts
  <2> QED BY <2>1, <2>2, CallsRunNothing, StepBetweenDeployments
<1>4. ASSUME NEW r \in Runs, ExecutorInvoked(r) \/ DestroyInvoked(r)
      PROVE  [Promise!Next]_Promise!vars
  <2>1. UNCHANGED <<stale, missed>> /\ pc[r] \notin WaitPoints /\ \E o : Invoke(r, o)
    BY <1>4 DEF ExecutorInvoked, DestroyInvoked
  <2> QED BY <2>1, CallsRunNothing, StepBetweenDeployments
<1>5. ASSUME NEW s, NEW kind, NameNotPrinted(s) \/ Edit(kind)
      PROVE  [Promise!Next]_Promise!vars
  <2>1. /\ UNCHANGED <<watch, phase, abandoned, executorVars>>
        /\ \/ UNCHANGED stale /\ missed' = TRUE
           \/ stale' = TRUE /\ missed' = FALSE
    BY <1>5 DEF NameNotPrinted, Edit
  <2>2. UNCHANGED Attended
    BY <2>1 DEF Attended
  <2>3. UNCHANGED RunningOperations("deploy")
    BY <2>1 DEF executorVars, RunningOperations
  <2> QED BY <2>1, <2>2, <2>3, StepBetweenDeployments
<1>6. CASE OperationBegins
  BY <1>6, BeginsPromised
<1>7. ASSUME NEW r \in Runs, OperationEnds(r) PROVE [Promise!Next]_Promise!vars
  BY <1>7, EndsPromised
<1> QED
  BY <1>1, <1>2, <1>3, <1>4, <1>5, <1>6, <1>7 DEF Next, StartStep, WatchStep, RunStep, Answer

\* Until the sandbox is recreated, every step of it is one that DeployOnChange
\* allows, or none for it: deployments begin one at a time, only an attempt to
\* deploy that begins after a change takes the change off, and only a callback that
\* is rejected counts as missed.
THEOREM PromiseRefined == Spec => Promise!Init /\ [][~Recreated => Promise!Next]_Promise!vars
<1>1. Init => Promise!Init
  <2> SUFFICES ASSUME Init PROVE Promise!Init
    OBVIOUS
  <2>1. RunningOperations("deploy") = {}
    BY NoRunAssumption DEF Init, ExecutorInit, RunningOperations
  <2>2. Cardinality(RunningOperations("deploy")) = 0
    BY <2>1, FS_EmptySet
  <2>3. ~Attended /\ stale /\ ~missed
    BY DEF Init, Attended
  <2> QED BY <2>2, <2>3 DEF Promise!Init, Init
<1> QED BY <1>1, SandboxInvariant, NextPromised, PTL DEF Spec

-----------------------------------------------------------------------------
(* The sessions of a sandbox that is recreated. *)

Early == {"tracking", "bootstrapping"}

\* A run belongs to a session that is past its bootstrap check, the first session
\* is past it before there is another, a reset waits for the start() it has
\* called, and whose call of destroy() is under way awaits it.
RunsAreStarted == \A r \in Runs : pc[r] # "free" => phase[session[r]] \notin Early \union {"absent"}

FirstIsFirst == phase[1] # "absent" /\ (phase[1] \in Early => ~Recreated)

RestartIsAwaited ==
    \A t \in Sessions \ {1} : phase[t] \in Early =>
        \E r \in Runs : pc[r] = "resetting" /\ child[r] = t

DestroyIsAwaited == \A r \in Runs : callback[r] = "destroy" => pc[r] = "destroying"

SessionsInv == RunsAreStarted /\ FirstIsFirst /\ RestartIsAwaited /\ DestroyIsAwaited

\* What the end of a run does.
LEMMA RunEndsDoes ==
    ASSUME TypeOK, LatchInv, NEW r \in Runs, pc[r] # "free", NEW result, RunEnds(r, result)
    PROVE  /\ session[r] \in Sessions
           /\ pc'[r] = "free" /\ \A q \in Runs : q # r => pc'[q] = pc[q] /\ session'[q] = session[q]
           /\ \A s \in Sessions : phase'[s] = phase[s] \/ (s = session[r] /\ phase'[s] = result)
<1>1. session[r] \in Sessions
  BY DEF LatchInv
<1> QED BY <1>1 DEF RunEnds, TypeOK, RunTypeOK, SessionTypeOK

\* What the end of a deployment does.
LEMMA AfterDeployDoes ==
    ASSUME TypeOK, LatchInv, NEW r \in Runs, InBody(r), AfterDeploy(r)
    PROVE  /\ session[r] \in Sessions
           /\ pc'[r] \in {"free", "repeating", "tail"}
           /\ \A q \in Runs : q # r => pc'[q] = pc[q] /\ session'[q] = session[q]
           /\ pc'[r] = "free" \/ session'[r] = session[r]
           /\ \A s \in Sessions : phase'[s] = phase[s] \/ (s = session[r] /\ phase'[s] = "started")
           /\ \A s \in Sessions : s # session[r] => latch'[s] = latch[s]
           /\ watchForChanges =>
                  \/ pc'[r] = "repeating" /\ session'[r] = session[r]
                  \/ latch[session[r]] # "queued" /\ latch'[session[r]] = "open"
<1>1. session[r] \in Sessions
  BY DEF LatchInv, InBody, BodyPoints
<1>2. CASE ~watchForChanges /\ RunEnds(r, "started") /\ UNCHANGED latch
  <2>1. pc[r] # "free"
    BY DEF InBody, BodyPoints
  <2> QED BY <1>1, <1>2, <2>1, RunEndsDoes
<1>3. CASE watchForChanges
  <2>1. UNCHANGED <<session, phase>>
    BY <1>3 DEF AfterDeploy
  <2>2. /\ \A q \in Runs : q # r => pc'[q] = pc[q]
        /\ \A s \in Sessions : s # session[r] => latch'[s] = latch[s]
    BY <1>3 DEF AfterDeploy, TypeOK, RunTypeOK, SessionTypeOK
  <2>3. CASE latch[session[r]] = "queued"
    BY <1>1, <1>3, <2>1, <2>2, <2>3 DEF AfterDeploy, TypeOK, RunTypeOK
  <2>4. CASE latch[session[r]] # "queued"
    BY <1>1, <1>3, <2>1, <2>2, <2>4 DEF AfterDeploy, TypeOK, RunTypeOK, SessionTypeOK
  <2> QED BY <2>3, <2>4
<1> QED BY <1>2, <1>3 DEF AfterDeploy

\* A run that is under way goes on or ends.
LEMMA RunMoves ==
    ASSUME LatchInv, SessionsInv, NEW r \in Runs, pc[r] # "free",
           pc[r] = "resetting" => phase[child[r]] \notin Early,
           callback'[r] = "destroy" => pc'[r] = "destroying",
           pc'[r] = "free" \/ session'[r] = session[r],
           \A q \in Runs : q # r => /\ pc'[q] = pc[q] /\ session'[q] = session[q]
                                    /\ child'[q] = child[q] /\ callback'[q] = callback[q],
           \A s \in Sessions : \/ phase'[s] = phase[s]
                               \/ s = session[r] /\ phase'[s] \notin Early \union {"absent"}
    PROVE  SessionsInv'
<1>1. \A q \in Runs : pc[q] # "free" => session[q] \in Sessions
  BY DEF LatchInv
<1>2. 1 \in Sessions
  BY MaxSessionsAssumption DEF Sessions
<1>3. RunsAreStarted'
  BY <1>1 DEF SessionsInv, RunsAreStarted
<1>4. FirstIsFirst'
  <2>1. phase[session[r]] # "absent"
    BY DEF SessionsInv, RunsAreStarted
  <2>2. ~Recreated => ~Recreated'
    BY <2>1 DEF Recreated
  <2> QED BY <1>2, <2>2 DEF SessionsInv, FirstIsFirst
<1>5. RestartIsAwaited'
  BY DEF SessionsInv, RestartIsAwaited
<1>6. DestroyIsAwaited'
  BY DEF SessionsInv, DestroyIsAwaited
<1> QED BY <1>3, <1>4, <1>5, <1>6 DEF SessionsInv

\* start() goes on.
LEMMA StartMoves ==
    ASSUME LatchInv, SessionsInv, NEW s \in Sessions, phase[s] \in Early, phase'[s] # "absent",
           \A t \in Sessions : t # s => phase'[t] = phase[t],
           \A r \in Runs : \/ pc'[r] = pc[r] /\ session'[r] = session[r]
                           \/ /\ pc[r] = "free" /\ pc'[r] = "preparing" /\ session'[r] = s
                              /\ phase'[s] \notin Early,
           UNCHANGED <<child, callback>>
    PROVE  SessionsInv'
<1>1. \A r \in Runs : pc[r] # "free" => session[r] \in Sessions /\ session[r] # s
  BY DEF LatchInv, SessionsInv, RunsAreStarted
<1>2. 1 \in Sessions
  BY MaxSessionsAssumption DEF Sessions
<1>3. RunsAreStarted'
  BY <1>1 DEF SessionsInv, RunsAreStarted
<1>4. FirstIsFirst'
  <2>1. ~Recreated => s = 1 /\ ~Recreated'
    BY DEF Recreated, Early
  <2>2. phase'[1] # "absent" /\ (phase'[1] \in Early => phase[1] \in Early)
    BY <1>2 DEF SessionsInv, FirstIsFirst
  <2> QED BY <2>1, <2>2 DEF SessionsInv, FirstIsFirst
<1>5. RestartIsAwaited'
  <2>1. \A r \in Runs : pc[r] = "resetting" => pc'[r] = "resetting"
    OBVIOUS
  <2>2. \A t \in Sessions : phase'[t] \in Early => phase[t] \in Early
    OBVIOUS
  <2> QED BY <2>1, <2>2 DEF SessionsInv, RestartIsAwaited
<1>6. DestroyIsAwaited'
  BY DEF SessionsInv, DestroyIsAwaited
<1> QED BY <1>3, <1>4, <1>5, <1>6 DEF SessionsInv

LEMMA SessionsPreserved == TypeOK /\ LatchInv /\ SessionsInv /\ [Next]_vars => SessionsInv'
<1> SUFFICES ASSUME TypeOK, LatchInv, SessionsInv, [Next]_vars PROVE SessionsInv'
  OBVIOUS
<1> USE DEF sessionVars, runVars
<1>1. ASSUME NEW s, NEW c, NEW kind,
             \/ WatcherCallback(s) \/ NamePrinted(s) \/ NameNotPrinted(s)
             \/ TestLatch(s) \/ WatcherClosed(s)
             \/ OperationBegins \/ Monitors(c) \/ Edit(kind) \/ Signal
             \/ (\E r \in Runs : OperationEnds(r) \/ Streams(r))
             \/ UNCHANGED vars
      PROVE  SessionsInv'
  <2>1. UNCHANGED <<phase, pc, session, child, callback>>
    BY <1>1
       DEF WatcherCallback, NamePrinted, NameNotPrinted, TestLatch, WatcherClosed,
           OperationBegins, TimerFires, Monitors, Edit, Signal, Stop, OperationEnds,
           CallbackSettles, Streams, executorVars, vars
  <2> QED
    BY <2>1 DEF SessionsInv, RunsAreStarted, FirstIsFirst, RestartIsAwaited, DestroyIsAwaited, Recreated
<1>2. ASSUME NEW s \in Sessions,
             \/ TrackerCreated(s) \/ SubscribedAndArmed(s) \/ NotBootstrapped(s)
             \/ StartFails(s)
      PROVE  SessionsInv'
  <2>1. UNCHANGED <<pc, session, child, callback>> /\ phase[s] \in Early
    BY <1>2 DEF TrackerCreated, SubscribedAndArmed, NotBootstrapped, StartFails, executorVars, Early
  <2>2. phase'[s] # "absent" /\ \A t \in Sessions : t # s => phase'[t] = phase[t]
    BY <1>2 DEF TrackerCreated, SubscribedAndArmed, NotBootstrapped, StartFails, TypeOK, SessionTypeOK
  <2> QED BY <2>1, <2>2, StartMoves
<1>3. ASSUME NEW s \in Sessions, NEW r \in Runs, DeployingOnce(s, r) \/ RunBegins(s, r)
      PROVE  SessionsInv'
  <2>1. /\ pc[r] = "free" /\ pc'[r] = "preparing" /\ session'[r] = s
        /\ \A q \in Runs : q # r => pc'[q] = pc[q] /\ session'[q] = session[q]
        /\ UNCHANGED <<child, callback>>
    BY <1>3 DEF DeployingOnce, RunBegins, FreeRuns, executorVars, TypeOK, RunTypeOK
  <2>2. CASE DeployingOnce(s, r)
    <3>1. phase[s] \in Early /\ phase'[s] = "deploying"
          /\ \A t \in Sessions : t # s => phase'[t] = phase[t]
      BY <2>2 DEF DeployingOnce, Early, TypeOK, SessionTypeOK
    <3> QED BY <2>1, <3>1, StartMoves DEF Early
  <2>3. CASE RunBegins(s, r)
    <3>1. UNCHANGED phase /\ phase[s] \notin Early \union {"absent"}
      BY <2>3 DEF RunBegins, LatchInv, EarlySessionsIdle, Early
    <3>2. RunsAreStarted'
      BY <2>1, <3>1 DEF SessionsInv, RunsAreStarted
    <3> QED BY <2>1, <3>1, <3>2
            DEF SessionsInv, FirstIsFirst, Recreated, RestartIsAwaited, DestroyIsAwaited
  <2> QED BY <1>3, <2>2, <2>3
<1>4. ASSUME NEW r \in Runs, \/ ExecutorInvoked(r) \/ DeployUnsupported(r) \/ DestroyInvoked(r)
                             \/ AcceptReset(r) \/ StreamingCalled(r) \/ Repeats(r)
      PROVE  SessionsInv'
  <2> USE DEF ExecutorInvoked, DeployUnsupported, DestroyInvoked, AcceptReset, StreamingCalled, Repeats
  <2>1. /\ UNCHANGED <<phase, session, child>>
        /\ pc[r] \in {"preparing", "deploying", "stopping", "prompting", "tail", "repeating"}
    BY <1>4
  <2>2. \A q \in Runs : q # r => pc'[q] = pc[q]
    BY <1>4 DEF TypeOK, RunTypeOK
  <2>3. callback'[r] = "destroy" => pc'[r] = "destroying"
    BY <1>4, <2>1 DEF Invoke, Consume, executorVars, TypeOK, RunTypeOK, ExecutorTypeOK,
                      SessionsInv, DestroyIsAwaited
  <2>4. \A q \in Runs : q # r => callback'[q] = callback[q]
    BY <1>4 DEF Invoke, Consume, executorVars, TypeOK, ExecutorTypeOK
  <2> QED BY <2>1, <2>2, <2>3, <2>4, RunMoves
<1>5. ASSUME NEW r \in Runs, ListSecretsFails(r) \/ DeclineReset(r) \/ DeployReturns(r)
      PROVE  SessionsInv'
  <2>1. pc[r] \in {"preparing", "prompting", "deploying"} /\ AfterDeploy(r) /\ UNCHANGED child
    BY <1>5 DEF ListSecretsFails, DeclineReset, DeployReturns
  <2>2. callback'[r] # "destroy" /\ \A q \in Runs : q # r => callback'[q] = callback[q]
    BY <1>5, <2>1 DEF ListSecretsFails, DeclineReset, DeployReturns, Consume, executorVars, TypeOK,
                      ExecutorTypeOK, SessionsInv, DestroyIsAwaited
  <2>3. InBody(r) /\ pc[r] # "free" /\ pc[r] # "resetting"
    BY <2>1 DEF InBody, BodyPoints
  <2>4. /\ pc'[r] = "free" \/ session'[r] = session[r]
        /\ \A q \in Runs : q # r => pc'[q] = pc[q] /\ session'[q] = session[q]
        /\ \A s \in Sessions : phase'[s] = phase[s] \/ (s = session[r] /\ phase'[s] = "started")
    BY <2>1, <2>3, AfterDeployDoes
  <2> QED BY <2>1, <2>2, <2>3, <2>4, RunMoves DEF Early
<1>6. ASSUME NEW r \in Runs, ResetReturns(r) PROVE SessionsInv'
  <2>1. /\ pc[r] = "resetting" /\ phase[child[r]] \notin Early /\ UNCHANGED callback
        /\ \A q \in Runs : q # r => child'[q] = child[q]
    BY <1>6 DEF ResetReturns, executorVars, TypeOK, RunTypeOK, Early
  <2>2. InBody(r) /\ callback'[r] # "destroy" /\ session[r] \in Sessions
    BY <2>1 DEF InBody, BodyPoints, LatchInv, SessionsInv, DestroyIsAwaited
  <2>3. CASE AfterDeploy(r)
    <3>1. /\ pc'[r] = "free" \/ session'[r] = session[r]
          /\ \A q \in Runs : q # r => pc'[q] = pc[q] /\ session'[q] = session[q]
          /\ \A s \in Sessions : phase'[s] = phase[s] \/ (s = session[r] /\ phase'[s] = "started")
      BY <2>2, <2>3, AfterDeployDoes
    <3> QED BY <2>1, <2>2, <3>1, RunMoves DEF Early
  <2>4. CASE RunEnds(r, "failed")
    BY <2>1, <2>2, <2>4, RunEndsDoes, RunMoves DEF Early
  <2> QED BY <1>6, <2>3, <2>4 DEF ResetReturns
<1>7. ASSUME NEW r \in Runs, ResetFails(r) PROVE SessionsInv'
  <2>1. pc[r] = "destroying" /\ RunEnds(r, "failed") /\ UNCHANGED child
    BY <1>7 DEF ResetFails
  <2>2. callback'[r] # "destroy" /\ \A q \in Runs : q # r => callback'[q] = callback[q]
    BY <1>7 DEF ResetFails, Consume, TypeOK, ExecutorTypeOK
  <2> QED BY <2>1, <2>2, RunEndsDoes, RunMoves DEF Early
<1>8. ASSUME NEW r \in Runs, StreamingReturns(r) PROVE SessionsInv'
  <2>1. PICK result \in {"started", "failed"} : RunEnds(r, result)
    BY <1>8 DEF StreamingReturns
  <2>2. pc[r] = "streaming" /\ UNCHANGED <<child, callback>>
    BY <1>8 DEF StreamingReturns, executorVars
  <2>3. callback'[r] # "destroy"
    BY <2>2 DEF SessionsInv, DestroyIsAwaited
  <2> QED BY <2>1, <2>2, <2>3, RunEndsDoes, RunMoves DEF Early
<1>9. ASSUME NEW r \in Runs,
              RepeatFails(r) \/ PromptRejects(r) \/ DeleteFails(r) \/ StreamingNotCalled(r)
       PROVE  SessionsInv'
  <2>1. /\ pc[r] \in {"repeating", "prompting", "stopping", "tail"}
        /\ RunEnds(r, "failed") /\ UNCHANGED <<child, callback>>
    BY <1>9 DEF RepeatFails, PromptRejects, Abandons, DeleteFails, StreamingNotCalled, executorVars
  <2>2. callback'[r] # "destroy"
    BY <2>1 DEF SessionsInv, DestroyIsAwaited
  <2> QED BY <2>1, <2>2, RunEndsDoes, RunMoves DEF Early
<1>10. ASSUME NEW r \in Runs, NEW s \in Sessions, SandboxRestarts(r, s) PROVE SessionsInv'
  <2>1. /\ pc[r] = "destroying" /\ phase[s] = "absent" /\ UNCHANGED session
        /\ phase'[s] = "tracking" /\ \A t \in Sessions : t # s => phase'[t] = phase[t]
        /\ pc'[r] = "resetting" /\ child'[r] = s /\ callback'[r] = "none"
        /\ \A q \in Runs : q # r => /\ pc'[q] = pc[q] /\ child'[q] = child[q]
                                    /\ callback'[q] = callback[q]
    BY <1>10 DEF SandboxRestarts, Consume, TypeOK, SessionTypeOK, RunTypeOK, ExecutorTypeOK
  <2>2. session[r] \in Sessions /\ phase[session[r]] \notin Early \union {"absent"} /\ 1 \in Sessions
    BY <2>1, MaxSessionsAssumption DEF LatchInv, SessionsInv, RunsAreStarted, Sessions
  <2>3. phase[1] \notin Early /\ phase[1] # "absent"
    BY <2>2 DEF SessionsInv, FirstIsFirst, Recreated
  <2>4. RunsAreStarted'
    BY <2>1 DEF SessionsInv, RunsAreStarted, LatchInv
  <2>5. FirstIsFirst'
    BY <2>1, <2>2, <2>3 DEF FirstIsFirst
  <2>6. RestartIsAwaited'
    BY <2>1 DEF SessionsInv, RestartIsAwaited
  <2>7. DestroyIsAwaited'
    BY <2>1 DEF SessionsInv, DestroyIsAwaited
  <2> QED BY <2>4, <2>5, <2>6, <2>7 DEF SessionsInv
<1> QED
  BY <1>1, <1>2, <1>3, <1>4, <1>5, <1>6, <1>7, <1>8, <1>9, <1>10
     DEF Next, StartStep, WatchStep, RunStep, Answer

\* A session that has been started stays so.
LEMMA StartedForGood ==
    ASSUME TypeOK, [Next]_vars, NEW t \in Sessions, phase[t] # "absent"
    PROVE  phase'[t] # "absent"
<1>1. \/ UNCHANGED phase
      \/ \E s \in Sessions : \E p \in {"tracking", "bootstrapping", "deploying", "started", "failed"} :
            phase' = [phase EXCEPT ![s] = p]
      \/ \E r \in Runs : \E p \in {"started", "failed"} : phase' = [phase EXCEPT ![session[r]] = p]
  BY DEF Next, StartStep, WatchStep, RunStep, Answer, vars, sessionVars, TrackerCreated,
         SubscribedAndArmed, NotBootstrapped, StartFails, DeployingOnce, WatcherCallback,
         NamePrinted, NameNotPrinted, TestLatch, WatcherClosed, RunBegins, ExecutorInvoked,
         ListSecretsFails, OperationEnds, DeployReturns, DeployUnsupported, Repeats, RepeatFails,
         Abandons, DestroyInvoked, DeleteFails, ResetFails, ResetReturns, StreamingCalled,
         StreamingNotCalled, StreamingReturns, SandboxRestarts, DeclineReset, AcceptReset,
         PromptRejects, Streams, OperationBegins, Monitors, Edit, Signal, AfterDeploy, RunEnds
<1> QED BY <1>1 DEF TypeOK, SessionTypeOK

LEMMA RecreatedTwiceForGood == TypeOK /\ [Next]_vars /\ RecreatedTwice => RecreatedTwice'
  BY StartedForGood DEF RecreatedTwice

LEMMA RecreatedForGood == TypeOK /\ Recreated /\ [Next]_vars => Recreated'
  BY StartedForGood DEF Recreated

\* Only the first session of a sandbox that was never recreated has run.
LEMMA OneSession ==
    ASSUME TypeOK, LatchInv, ~Recreated
    PROVE  /\ 1 \in Sessions
           /\ \A r \in Runs : InBody(r) => session[r] = 1
           /\ \A s \in Sessions \ {1} : /\ phase[s] = "absent" /\ watch[s] = "none"
                                       /\ ~armed[s] /\ printing[s] = 0 /\ callbacks[s] = 0
<1>1. 1 \in Sessions
  BY MaxSessionsAssumption DEF Sessions
<1>2. \A s \in Sessions \ {1} : phase[s] = "absent"
  BY DEF Recreated
<1>3. \A r \in Runs : InBody(r) => session[r] \in Sessions
  BY DEF LatchInv, InBody, BodyPoints
<1> QED BY <1>1, <1>2, <1>3 DEF LatchInv, EarlySessionsIdle

-----------------------------------------------------------------------------
(* No change is lost. *)

ResetPoints == {"stopping", "destroying", "resetting"}

\* The watcher that the sandbox knows is closed when its session resets, and a
\* latch taken under it has its run, unless the run was rejected.
ResetBehindWatcher ==
    \A s \in Sessions, r \in Runs :
        s = current /\ watch[s] = "active" /\ session[r] = s => pc[r] \notin ResetPoints

LatchHasRun ==
    \A s \in Sessions \ abandoned : s = current /\ watch[s] = "active" /\ latch[s] # "open" =>
        \E r \in Runs : InBody(r) /\ session[r] = s

\* In a sandbox that was recreated at most once there is no other watcher, nobody
\* watches while it is deleted, and a change that no attempt to deploy covers is
\* with the watcher, its callback, the timer, the latch or a run that repeats.
OnlyCurrentWatches == \A s \in Sessions : watch[s] = "active" => s = current

DeletedUnwatched == \A r \in Runs : pc[r] \in {"stopping", "destroying"} => ~SomeoneWatches

Repeating(s) == \E r \in Runs : pc[r] = "repeating" /\ session[r] = s

Seen(s) ==
    \/ events[s] # {}
    \/ printing[s] > 0
    \/ callbacks[s] > 0
    \/ armed[s]
    \/ latch[s] = "queued"
    \/ Repeating(s)

ChangeSeen ==
    \A s \in Sessions \ abandoned : watch[s] = "active" /\ stale /\ ~missed => Seen(s)

WatchersInv ==
    /\ ResetBehindWatcher
    /\ LatchHasRun
    /\ ~RecreatedTwice => OnlyCurrentWatches /\ DeletedUnwatched /\ ChangeSeen

\* What runs do without the sessions' watchers, timers and latches.
LEMMA RunsDoNotWatch ==
    ASSUME WatchersInv, RecreatedTwice => RecreatedTwice',
           UNCHANGED <<latch, armed, watch, events, printing, callbacks, current>>,
           abandoned \subseteq abandoned',
           stale' /\ ~missed' => stale /\ ~missed,
           \A r \in Runs :
              /\ pc'[r] \in {"stopping", "destroying"} => pc[r] \in {"stopping", "destroying"}
              /\ pc'[r] \in ResetPoints => pc[r] \in ResetPoints /\ session'[r] = session[r]
              /\ pc[r] = "repeating" =>
                     \/ pc'[r] = "repeating" /\ session'[r] = session[r]
                     \/ session[r] \in abandoned'
                     \/ ~stale'
              /\ \/ ~InBody(r)
                 \/ InBody(r)' /\ session'[r] = session[r]
                 \/ session[r] \in abandoned'
                 \/ \A s \in Sessions : s = current /\ watch[s] = "active" => session[r] # s
    PROVE  WatchersInv'
<1>1. ResetBehindWatcher'
  BY DEF WatchersInv, ResetBehindWatcher
<1>2. LatchHasRun'
  <2> SUFFICES ASSUME NEW s \in Sessions, s \notin abandoned', s = current, watch[s] = "active",
                      latch[s] # "open"
               PROVE  \E r \in Runs : InBody(r)' /\ session'[r] = s
    BY DEF LatchHasRun
  <2>1. PICK r \in Runs : InBody(r) /\ session[r] = s
    BY DEF WatchersInv, LatchHasRun
  <2> QED BY <2>1
<1>3. ASSUME ~RecreatedTwice' PROVE OnlyCurrentWatches' /\ DeletedUnwatched' /\ ChangeSeen'
  <2>1. OnlyCurrentWatches /\ DeletedUnwatched /\ ChangeSeen
    BY <1>3 DEF WatchersInv
  <2>2. OnlyCurrentWatches' /\ DeletedUnwatched'
    BY <2>1 DEF OnlyCurrentWatches, DeletedUnwatched, SomeoneWatches
  <2>3. ASSUME NEW s \in Sessions, s \notin abandoned', watch[s] = "active", stale', ~missed'
        PROVE  Seen(s)'
    <3>1. Seen(s)
      BY <2>1, <2>3 DEF ChangeSeen
    <3>2. Repeating(s) => Repeating(s)'
      BY <2>3 DEF Repeating
    <3> QED BY <3>1, <3>2 DEF Seen
  <2> QED BY <2>2, <2>3 DEF ChangeSeen
<1> QED BY <1>1, <1>2, <1>3 DEF WatchersInv

\* A deployment is over.
LEMMA AfterDeployWatched ==
    ASSUME TypeOK, LatchInv, WatchersInv, RecreatedTwice => RecreatedTwice',
           NEW r \in Runs, InBody(r), pc[r] # "repeating", AfterDeploy(r),
           UNCHANGED <<armed, watch, events, printing, callbacks, current, ghostVars>>
    PROVE  WatchersInv'
<1> USE DEF ghostVars
<1>1. /\ pc'[r] \in {"free", "repeating", "tail"}
      /\ \A q \in Runs : q # r => pc'[q] = pc[q] /\ session'[q] = session[q]
      /\ pc'[r] = "free" \/ session'[r] = session[r]
      /\ \A s \in Sessions : s # session[r] => latch'[s] = latch[s]
      /\ watchForChanges =>
             \/ pc'[r] = "repeating" /\ session'[r] = session[r]
             \/ latch[session[r]] # "queued" /\ latch'[session[r]] = "open"
  BY AfterDeployDoes
<1>2. \A s \in Sessions : watch[s] = "active" => watchForChanges
  BY DEF LatchInv, NobodyWatchesOnce
<1>3. ResetBehindWatcher'
  BY <1>1 DEF WatchersInv, ResetBehindWatcher, ResetPoints
<1>4. LatchHasRun'
  <2> SUFFICES ASSUME NEW s \in Sessions, s \notin abandoned, s = current, watch[s] = "active",
                      latch'[s] # "open"
               PROVE  \E q \in Runs : InBody(q)' /\ session'[q] = s
    BY DEF LatchHasRun
  <2>1. CASE s = session[r]
    <3>1. pc'[r] = "repeating" /\ session'[r] = s
      BY <1>1, <1>2, <2>1
    <3> QED BY <3>1 DEF InBody, BodyPoints
  <2>2. CASE s # session[r]
    <3>1. latch[s] # "open"
      BY <1>1, <2>2
    <3>2. PICK q \in Runs : InBody(q) /\ session[q] = s
      BY <3>1 DEF WatchersInv, LatchHasRun
    <3> QED BY <1>1, <2>2, <3>2 DEF InBody
  <2> QED BY <2>1, <2>2
<1>5. ASSUME ~RecreatedTwice' PROVE OnlyCurrentWatches' /\ DeletedUnwatched' /\ ChangeSeen'
  <2>1. OnlyCurrentWatches /\ DeletedUnwatched /\ ChangeSeen
    BY <1>5 DEF WatchersInv
  <2>2. OnlyCurrentWatches' /\ DeletedUnwatched'
    BY <1>1, <2>1 DEF OnlyCurrentWatches, DeletedUnwatched, SomeoneWatches
  <2>3. ASSUME NEW s \in Sessions, s \notin abandoned, watch[s] = "active", stale, ~missed
        PROVE  Seen(s)'
    <3>1. Seen(s)
      BY <2>1, <2>3 DEF ChangeSeen
    <3>2. Repeating(s) => Repeating(s)'
      BY <1>1 DEF Repeating
    <3>3. latch[s] = "queued" => latch'[s] = "queued" \/ Repeating(s)'
      BY <1>1, <1>2, <2>3 DEF Repeating
    <3> QED BY <3>1, <3>2, <3>3 DEF Seen
  <2> QED BY <2>2, <2>3 DEF ChangeSeen
<1> QED BY <1>3, <1>4, <1>5 DEF WatchersInv

\* While a session is at its bootstrap check, nobody else watches or is deleted.
LEMMA EarlyIsAlone ==
    ASSUME TypeOK, LatchInv, SessionsInv, WatchersInv, ~RecreatedTwice,
           NEW s \in Sessions, phase[s] \in Early
    PROVE  /\ \A t \in Sessions : t # s => watch[t] # "active"
           /\ \A r \in Runs : pc[r] \notin {"stopping", "destroying"}
<1>1. \A r \in Runs : pc[r] # "free" =>
          session[r] \in Sessions /\ phase[session[r]] \notin Early \union {"absent"}
  BY DEF LatchInv, SessionsInv, RunsAreStarted
<1>2. \A t \in Sessions : phase[t] = "absent" => watch[t] # "active"
  BY DEF LatchInv, EarlySessionsIdle
<1>3. CASE s = 1
  <2>1. \A t \in Sessions : t # s => phase[t] = "absent"
    BY <1>3 DEF SessionsInv, FirstIsFirst, Recreated
  <2> QED BY <1>1, <1>2, <2>1
<1>4. CASE s # 1
  <2>1. PICK q \in Runs : pc[q] = "resetting" /\ child[q] = s
    BY <1>4 DEF SessionsInv, RestartIsAwaited
  <2>2. \A t \in Sessions : t # 1 /\ phase[t] # "absent" => t = s
    BY <1>4 DEF RecreatedTwice, Early
  <2>3. \A r \in Runs : pc[r] # "free" => session[r] = 1
    BY <1>1, <2>2
  <2>4. 1 \in Sessions /\ session[q] = 1 /\ InBody(q)
    BY <2>1, <2>3, MaxSessionsAssumption DEF Sessions, InBody, BodyPoints
  <2>5. watch[1] # "active"
    BY <2>1, <2>4 DEF WatchersInv, OnlyCurrentWatches, ResetBehindWatcher, ResetPoints
  <2>6. \A r \in Runs : pc[r] \in {"stopping", "destroying"} => r = q
    BY <2>3, <2>4 DEF LatchInv, LatchAdmitsOneRun, InBody, BodyPoints
  <2> QED BY <1>2, <2>1, <2>2, <2>5, <2>6
<1> QED BY <1>3, <1>4

LEMMA SubscribedWatched ==
    ASSUME TypeOK, LatchInv, SessionsInv, WatchersInv, RecreatedTwice => RecreatedTwice',
           NEW s \in Sessions, SubscribedAndArmed(s)
    PROVE  WatchersInv'
<1> USE DEF sessionVars, runVars
<1>1. /\ current' = s /\ watch'[s] = "active" /\ armed'[s]
      /\ \A t \in Sessions : t # s => watch'[t] = watch[t]
      /\ UNCHANGED <<latch, pc, session>>
  BY DEF SubscribedAndArmed, TypeOK, SessionTypeOK
<1>2. phase[s] \in Early /\ latch[s] = "open" /\ \A r \in Runs : session[r] = s => ~InBody(r)
  BY DEF SubscribedAndArmed, LatchInv, EarlySessionsIdle, Early
<1>3. ResetBehindWatcher'
  BY <1>1, <1>2 DEF ResetBehindWatcher, ResetPoints, InBody, BodyPoints
<1>4. LatchHasRun'
  BY <1>1, <1>2 DEF LatchHasRun
<1>5. ASSUME ~RecreatedTwice' PROVE OnlyCurrentWatches' /\ DeletedUnwatched' /\ ChangeSeen'
  BY <1>1, <1>2, <1>5, EarlyIsAlone DEF OnlyCurrentWatches, DeletedUnwatched, ChangeSeen, Seen
<1> QED BY <1>3, <1>4, <1>5 DEF WatchersInv

\* stop() closes the watcher that the sandbox knows.
LEMMA StopWatched ==
    ASSUME TypeOK, LatchInv, WatchersInv, RecreatedTwice => RecreatedTwice', Stop,
           UNCHANGED <<latch, armed, events, printing, callbacks, current, session, ghostVars>>,
           \/ UNCHANGED pc
           \/ \E r \in Runs : pc[r] = "prompting" /\ pc' = [pc EXCEPT ![r] = "stopping"]
    PROVE  WatchersInv'
<1>1. \A s \in Sessions : watch'[s] = "active" => watch[s] = "active" /\ s # current
  BY DEF Stop
<1>2. ResetBehindWatcher' /\ LatchHasRun'
  BY <1>1 DEF ResetBehindWatcher, LatchHasRun
<1>3. ASSUME ~RecreatedTwice' PROVE OnlyCurrentWatches' /\ DeletedUnwatched' /\ ChangeSeen'
  <2>1. \A s \in Sessions : watch'[s] # "active"
    BY <1>1, <1>3 DEF WatchersInv, OnlyCurrentWatches
  <2> QED BY <2>1 DEF OnlyCurrentWatches, DeletedUnwatched, SomeoneWatches, ChangeSeen
<1> QED BY <1>2, <1>3 DEF WatchersInv

\* The watcher, its callback, the timer: the change goes from one to the next.
LEMMA ChangeGoesOn ==
    ASSUME TypeOK, LatchInv, WatchersInv, RecreatedTwice => RecreatedTwice',
           NEW s \in Sessions,
           \/ WatcherCallback(s) \/ NamePrinted(s) \/ NameNotPrinted(s) \/ TestLatch(s)
           \/ WatcherClosed(s) \/ (\E kind \in Kinds : Edit(kind))
    PROVE  WatchersInv'
<1> USE DEF sessionVars, runVars, ghostVars
<1>1. /\ UNCHANGED <<pc, session, current, abandoned>>
      /\ \A t \in Sessions : watch'[t] = "active" => watch[t] = "active"
      /\ \A t \in Sessions : latch'[t] # "open" => latch[t] # "open"
  BY DEF WatcherCallback, NamePrinted, NameNotPrinted, TestLatch, WatcherClosed, Edit, TypeOK, SessionTypeOK
<1>2. ResetBehindWatcher' /\ LatchHasRun'
  BY <1>1 DEF WatchersInv, ResetBehindWatcher, LatchHasRun, InBody
<1>3. ASSUME ~RecreatedTwice' PROVE OnlyCurrentWatches' /\ DeletedUnwatched' /\ ChangeSeen'
  <2>1. OnlyCurrentWatches /\ DeletedUnwatched /\ ChangeSeen
    BY <1>3 DEF WatchersInv
  <2>2. OnlyCurrentWatches' /\ DeletedUnwatched'
    BY <1>1, <2>1 DEF OnlyCurrentWatches, DeletedUnwatched, SomeoneWatches
  <2>3. \A t \in Sessions : UNCHANGED Repeating(t)
    BY <1>1 DEF Repeating
  <2>4. ASSUME WatcherCallback(s) PROVE ChangeSeen'
    <3>1. /\ UNCHANGED <<watch, armed, latch, stale, missed>>
          /\ \/ printing' = [printing EXCEPT ![s] = @ + 1] /\ UNCHANGED callbacks
             \/ callbacks' = [callbacks EXCEPT ![s] = @ + 1] /\ UNCHANGED printing
          /\ \A t \in Sessions : t # s => events'[t] = events[t]
      BY <2>4 DEF WatcherCallback
    <3>2. \A t \in Sessions : printing[t] \in Nat /\ callbacks[t] \in Nat
      BY DEF TypeOK, SessionTypeOK
    <3>3. printing'[s] > 0 \/ callbacks'[s] > 0
      BY <3>1, <3>2 DEF TypeOK, SessionTypeOK
    <3>4. \A t \in Sessions : t # s => callbacks'[t] = callbacks[t] /\ printing'[t] = printing[t]
      <4>1. CASE printing' = [printing EXCEPT ![s] = @ + 1] /\ UNCHANGED callbacks
        BY <4>1 DEF TypeOK, SessionTypeOK
      <4>2. CASE callbacks' = [callbacks EXCEPT ![s] = @ + 1] /\ UNCHANGED printing
        BY <4>2 DEF TypeOK, SessionTypeOK
      <4> QED BY <3>1, <4>1, <4>2
    <3> QED BY <1>1, <2>1, <2>3, <3>1, <3>3, <3>4 DEF ChangeSeen, Seen
  <2>5. ASSUME NamePrinted(s) PROVE ChangeSeen'
    <3>1. /\ UNCHANGED <<watch, events, armed, latch, stale, missed>> /\ callbacks'[s] > 0
          /\ \A t \in Sessions : t # s => callbacks'[t] = callbacks[t] /\ printing'[t] = printing[t]
      BY <2>5 DEF NamePrinted, TypeOK, SessionTypeOK
    <3> QED BY <1>1, <2>1, <2>3, <3>1 DEF ChangeSeen, Seen
  <2>6. ASSUME NameNotPrinted(s) PROVE ChangeSeen'
    BY <2>6 DEF NameNotPrinted, ChangeSeen
  <2>7. ASSUME TestLatch(s) PROVE ChangeSeen'
    <3>1. /\ UNCHANGED <<watch, events, printing, stale, missed>>
          /\ armed'[s] \/ latch'[s] = "queued"
          /\ \A t \in Sessions : t # s =>
                 callbacks'[t] = callbacks[t] /\ armed'[t] = armed[t] /\ latch'[t] = latch[t]
      BY <2>7 DEF TestLatch, TypeOK, SessionTypeOK
    <3> QED BY <1>1, <2>1, <2>3, <3>1 DEF ChangeSeen, Seen
  <2>8. ASSUME WatcherClosed(s) PROVE ChangeSeen'
    <3>1. /\ UNCHANGED <<printing, callbacks, armed, latch, stale, missed>> /\ watch'[s] # "active"
          /\ \A t \in Sessions : t # s => watch'[t] = watch[t] /\ events'[t] = events[t]
      BY <2>8 DEF WatcherClosed, TypeOK, SessionTypeOK
    <3> QED BY <1>1, <2>1, <2>3, <3>1 DEF ChangeSeen, Seen
  <2>9. ASSUME NEW kind \in Kinds, Edit(kind) PROVE ChangeSeen'
    BY <2>9 DEF Edit, ChangeSeen, Seen
  <2> QED BY <2>2, <2>4, <2>5, <2>6, <2>7, <2>8, <2>9
<1> QED BY <1>2, <1>3 DEF WatchersInv

\* A run begins, and with it an attempt to deploy what there is.
LEMMA BeginWatched ==
    ASSUME TypeOK, LatchInv, WatchersInv, RecreatedTwice => RecreatedTwice',
           NEW s \in Sessions, NEW r \in Runs, DeployingOnce(s, r) \/ RunBegins(s, r)
    PROVE  WatchersInv'
<1> USE DEF sessionVars, runVars
<1>1. /\ pc[r] = "free" /\ pc'[r] = "preparing" /\ session'[r] = s
      /\ \A q \in Runs : q # r => pc'[q] = pc[q] /\ session'[q] = session[q]
      /\ stale' = FALSE /\ UNCHANGED <<watch, current, abandoned>>
      /\ \A t \in Sessions : t # s => latch'[t] = latch[t]
  BY DEF DeployingOnce, RunBegins, FreeRuns, TypeOK, RunTypeOK, SessionTypeOK
<1>2. ResetBehindWatcher'
  BY <1>1 DEF WatchersInv, ResetBehindWatcher, ResetPoints
<1>3. LatchHasRun'
  BY <1>1 DEF WatchersInv, LatchHasRun, InBody, BodyPoints
<1>4. ASSUME ~RecreatedTwice' PROVE OnlyCurrentWatches' /\ DeletedUnwatched' /\ ChangeSeen'
  BY <1>1, <1>4 DEF WatchersInv, OnlyCurrentWatches, DeletedUnwatched, SomeoneWatches, ChangeSeen
<1> QED BY <1>2, <1>3, <1>4 DEF WatchersInv

LEMMA WatchersPreserved ==
    TypeOK /\ LatchInv /\ SessionsInv /\ WatchersInv /\ [Next]_vars => WatchersInv'
<1> SUFFICES ASSUME TypeOK, LatchInv, SessionsInv, WatchersInv, [Next]_vars PROVE WatchersInv'
  OBVIOUS
<1> USE RecreatedTwiceForGood DEF sessionVars, runVars, ghostVars
<1>1. ASSUME NEW s, NEW r, NEW c,
             \/ TrackerCreated(s) \/ NotBootstrapped(s) \/ StartFails(s)
             \/ Streams(r) \/ Monitors(c) \/ OperationBegins \/ UNCHANGED vars
      PROVE  WatchersInv'
  <2>1. UNCHANGED <<latch, armed, watch, events, printing, callbacks, current, pc, session, abandoned>>
        /\ (UNCHANGED <<stale, missed>> \/ stale' = FALSE)
    BY <1>1 DEF TrackerCreated, NotBootstrapped, StartFails, Streams, Monitors, OperationBegins, vars
  <2> QED BY <2>1, RunsDoNotWatch DEF InBody
<1>2. ASSUME NEW s \in Sessions, SubscribedAndArmed(s) PROVE WatchersInv'
  BY <1>2, SubscribedWatched
<1>3. ASSUME NEW s \in Sessions, NEW r \in Runs, DeployingOnce(s, r) \/ RunBegins(s, r)
      PROVE  WatchersInv'
  BY <1>3, BeginWatched
<1>4. ASSUME NEW s \in Sessions, \/ WatcherCallback(s) \/ NamePrinted(s) \/ NameNotPrinted(s)
                                 \/ TestLatch(s) \/ WatcherClosed(s)
      PROVE  WatchersInv'
  BY <1>4, ChangeGoesOn
<1>5. ASSUME NEW kind \in Kinds, Edit(kind) PROVE WatchersInv'
  <2>1. 1 \in Sessions
    BY MaxSessionsAssumption DEF Sessions
  <2> QED BY <1>5, <2>1, ChangeGoesOn
<1>6. ASSUME NEW r \in Runs, ListSecretsFails(r) \/ DeclineReset(r) \/ DeployReturns(r) PROVE WatchersInv'
  <2>1. /\ InBody(r) /\ pc[r] # "repeating" /\ AfterDeploy(r)
        /\ UNCHANGED <<armed, watch, events, printing, callbacks, current, ghostVars>>
    BY <1>6 DEF ListSecretsFails, DeclineReset, DeployReturns, InBody, BodyPoints
  <2> QED BY <2>1, AfterDeployWatched
<1>7. ASSUME NEW r \in Runs, \/ ExecutorInvoked(r) \/ DeployUnsupported(r) \/ DestroyInvoked(r)
                             \/ StreamingCalled(r) \/ Repeats(r)
                             \/ (\E s \in Sessions : SandboxRestarts(r, s))
      PROVE  WatchersInv'
  <2> USE DEF ExecutorInvoked, DeployUnsupported, DestroyInvoked, StreamingCalled, Repeats, SandboxRestarts
  <2>1. /\ UNCHANGED <<latch, armed, watch, events, printing, callbacks, current, session, abandoned>>
        /\ UNCHANGED <<stale, missed>> \/ stale' = FALSE
    BY <1>7
  <2>2. \/ pc[r] = "preparing" /\ pc'[r] = "deploying"
        \/ pc[r] = "deploying" /\ pc'[r] = "prompting"
        \/ pc[r] = "stopping" /\ pc'[r] = "destroying"
        \/ pc[r] = "tail" /\ pc'[r] = "streaming"
        \/ pc[r] = "destroying" /\ pc'[r] = "resetting"
        \/ pc[r] = "repeating" /\ pc'[r] = "preparing" /\ stale' = FALSE
    BY <1>7 DEF TypeOK, RunTypeOK
  <2>3. \A q \in Runs : q # r => pc'[q] = pc[q]
    BY <1>7 DEF TypeOK, RunTypeOK
  <2> QED BY <2>1, <2>2, <2>3, RunsDoNotWatch DEF InBody, BodyPoints, ResetPoints
<1>8. ASSUME NEW r \in Runs, NEW result, RunEnds(r, result),
             pc[r] \in {"stopping", "destroying", "resetting", "tail", "streaming"},
             UNCHANGED <<latch, armed, watch, events, printing, callbacks, current, ghostVars>>
      PROVE  WatchersInv'
  <2>1. pc'[r] = "free" /\ \A q \in Runs : q # r => pc'[q] = pc[q] /\ session'[q] = session[q]
    BY <1>8, RunEndsDoes
  <2>2. InBody(r) => \A s \in Sessions : s = current /\ watch[s] = "active" => session[r] # s
    BY <1>8 DEF WatchersInv, ResetBehindWatcher, ResetPoints, InBody, BodyPoints
  <2> QED BY <1>8, <2>1, <2>2, RunsDoNotWatch DEF InBody, ResetPoints
<1>9. ASSUME NEW r \in Runs, RepeatFails(r) \/ PromptRejects(r) PROVE WatchersInv'
  <2>1. /\ pc[r] # "free" /\ RunEnds(r, "failed") /\ abandoned' = abandoned \union {session[r]}
        /\ UNCHANGED <<latch, armed, watch, events, printing, callbacks, current, stale, missed>>
    BY <1>9 DEF RepeatFails, PromptRejects, Abandons
  <2>2. pc'[r] = "free" /\ \A q \in Runs : q # r => pc'[q] = pc[q] /\ session'[q] = session[q]
    BY <2>1, RunEndsDoes
  <2> QED BY <2>1, <2>2, RunsDoNotWatch DEF InBody, ResetPoints
<1>10. ASSUME NEW r \in Runs, \/ DeleteFails(r) \/ ResetFails(r) \/ ResetReturns(r)
                             \/ StreamingNotCalled(r) \/ StreamingReturns(r)
      PROVE  WatchersInv'
  <2>1. CASE AfterDeploy(r) /\ ResetReturns(r)
    BY <2>1, AfterDeployWatched DEF ResetReturns, InBody, BodyPoints
  <2>2. CASE ~(AfterDeploy(r) /\ ResetReturns(r))
    BY <1>8, <1>10, <2>2 DEF DeleteFails, ResetFails, ResetReturns, StreamingNotCalled, StreamingReturns
  <2> QED BY <2>1, <2>2
<1>11. ASSUME NEW r \in Runs, AcceptReset(r) \/ Signal PROVE WatchersInv'
  BY <1>11, StopWatched DEF AcceptReset, Signal
<1>12. CASE Signal
  BY <1>12, StopWatched DEF Signal
<1>13. ASSUME NEW r \in Runs, OperationEnds(r) PROVE WatchersInv'
  <2>1. UNCHANGED <<latch, armed, watch, events, printing, callbacks, current, pc, session, abandoned>>
    BY <1>13 DEF OperationEnds
  <2>2. CASE UNCHANGED <<stale, missed>>
    BY <2>1, <2>2, RunsDoNotWatch DEF InBody
  <2>3. CASE ~UNCHANGED <<stale, missed>>
    <3>1. pc[r] = "destroying"
      BY <1>13, <2>3 DEF OperationEnds, SessionsInv, DestroyIsAwaited
    <3>2. ResetBehindWatcher' /\ LatchHasRun'
      BY <2>1 DEF WatchersInv, ResetBehindWatcher, LatchHasRun, InBody
    <3>3. ASSUME ~RecreatedTwice' PROVE OnlyCurrentWatches' /\ DeletedUnwatched' /\ ChangeSeen'
      BY <2>1, <3>1, <3>3 DEF WatchersInv, OnlyCurrentWatches, DeletedUnwatched, SomeoneWatches, ChangeSeen
    <3> QED BY <3>2, <3>3 DEF WatchersInv
  <2> QED BY <2>2, <2>3
<1> QED
  BY <1>1, <1>2, <1>3, <1>4, <1>5, <1>6, <1>7, <1>9, <1>10, <1>11, <1>12, <1>13
     DEF Next, StartStep, WatchStep, RunStep, Answer

LEMMA WatchersInvariant == Spec => [](TypeOK /\ LatchInv /\ SessionsInv /\ WatchersInv)
<1>1. Init => SessionsInv /\ WatchersInv
  <2> SUFFICES ASSUME Init PROVE SessionsInv /\ WatchersInv
    OBVIOUS
  <2>1. SessionsInv
    BY MaxSessionsAssumption
       DEF Init, ExecutorInit, SessionsInv, RunsAreStarted, FirstIsFirst, RestartIsAwaited, DestroyIsAwaited,
           Recreated, Sessions, Early
  <2>2. WatchersInv
    BY DEF Init, WatchersInv, ResetBehindWatcher, LatchHasRun, OnlyCurrentWatches, DeletedUnwatched,
           ChangeSeen, ResetPoints
  <2> QED BY <2>1, <2>2
<1>2. TypeOK /\ LatchInv /\ SessionsInv /\ WatchersInv /\ [Next]_vars
          => (TypeOK /\ LatchInv /\ SessionsInv /\ WatchersInv)'
  BY NextTyped, LatchInvPreserved, SessionsPreserved, WatchersPreserved
<1> QED BY <1>1, <1>2, InitTyped, InitLatched, PTL DEF Spec

\* No change is lost between the latch test, the timers and the ends of
\* deployments, for any number of runs, edits, callbacks, failures and signals,
\* also in a sandbox that was recreated: one that rests under a watcher has
\* attempted to deploy every change.  Two rejections are excepted, as the code
\* does lose changes to them: that of a watcher callback, until the next change or
\* attempt, and that of a run between taking the latch and giving it back.
THEOREM ChangesCorrect == Spec => []NoChangeLost
<1>1. LatchInv /\ WatchersInv => NoChangeLost
  <2> SUFFICES ASSUME WatchersInv, Quiet, ~RecreatedTwice, stale, ~missed,
                      NEW s \in Sessions, watch[s] = "active", s \notin abandoned
               PROVE  FALSE
    BY DEF NoChangeLost
  <2>1. Seen(s) /\ s = current
    BY DEF WatchersInv, ChangeSeen, OnlyCurrentWatches
  <2>2. ~Repeating(s)
    BY DEF Quiet, Repeating, InBody, BodyPoints
  <2>3. latch[s] = "queued"
    BY <2>1, <2>2 DEF Quiet, Seen
  <2> QED BY <2>1, <2>3 DEF WatchersInv, LatchHasRun, Quiet
<1> QED BY <1>1, WatchersInvariant, PTL

\* A latch that is taken under a watcher has a run that will give it back, unless
\* a run of its session was rejected at the prompt or at printing the name: a
\* reset that fails on its way up leaves it taken only behind a watcher it has
\* closed.  That takes the watcher the sandbox knows: two sessions that reset at
\* a time start two that watch, and the sandbox knows the latter's.
THEOREM LatchReleased == Spec => []TakenLatchHasRun
<1>1. WatchersInv => TakenLatchHasRun
  BY DEF WatchersInv, OnlyCurrentWatches, LatchHasRun, TakenLatchHasRun
<1> QED BY <1>1, WatchersInvariant, PTL

-----------------------------------------------------------------------------
(* The type checker. *)

\* TypeScript that was edited under the watcher is with the watcher or with the
\* tracker, and nothing was before the watcher subscribed.
EditIsTracked ==
    /\ watch[1] = "none" => unchecked # "edit"
    /\ watch[1] = "active" /\ unchecked = "edit" =>
           tracker.didAnyTypeScriptFileChangeSinceLastSnapshot \/ "ts" \in events[1]

LEMMA EditIsTrackedPreserved ==
    TypeOK /\ LatchInv /\ ~Recreated /\ EditIsTracked /\ [Next]_vars => EditIsTracked'
<1> SUFFICES ASSUME TypeOK, LatchInv, ~Recreated, EditIsTracked, [Next]_vars PROVE EditIsTracked'
  OBVIOUS
<1> USE OneSession DEF ghostVars
<1>1. CASE UNCHANGED <<watch, events, tracker, unchecked>>
  BY <1>1 DEF EditIsTracked
<1>2. ASSUME NEW s \in Sessions, TrackerCreated(s) PROVE EditIsTracked'
  <2>1. s = 1 /\ UNCHANGED <<watch, unchecked>>
    BY <1>2 DEF TrackerCreated
  <2>2. watch[1] = "none"
    BY <1>2, <2>1 DEF TrackerCreated, LatchInv, EarlySessionsIdle
  <2> QED BY <2>1, <2>2 DEF EditIsTracked
<1>3. ASSUME NEW s \in Sessions, SubscribedAndArmed(s) PROVE EditIsTracked'
  <2>1. s = 1 /\ UNCHANGED unchecked
    BY <1>3 DEF SubscribedAndArmed
  <2>2. watch[1] = "none"
    BY <1>3, <2>1 DEF SubscribedAndArmed, LatchInv, EarlySessionsIdle
  <2> QED BY <2>1, <2>2 DEF EditIsTracked
<1>4. ASSUME NEW s \in Sessions, WatcherCallback(s) PROVE EditIsTracked'
  <2>1. s = 1 /\ UNCHANGED <<watch, unchecked>> /\ tracker' = TrackFileChanges(tracker, events[1])
    BY <1>4 DEF WatcherCallback
  <2>2. tracker'.didAnyTypeScriptFileChangeSinceLastSnapshot
            = (tracker.didAnyTypeScriptFileChangeSinceLastSnapshot \/ "ts" \in events[1])
    BY <2>1 DEF TrackFileChanges, TypeOK, FlagTypeOK, Snapshots
  <2> QED BY <2>1, <2>2 DEF EditIsTracked
<1>5. ASSUME NEW s \in Sessions, WatcherClosed(s) PROVE EditIsTracked'
  <2>1. s = 1 /\ watch'[1] = "closed"
    BY <1>5 DEF WatcherClosed, TypeOK, SessionTypeOK
  <2> QED BY <2>1 DEF EditIsTracked
<1>6. ASSUME NEW r, AcceptReset(r) \/ Signal PROVE EditIsTracked'
  <2>1. UNCHANGED <<events, tracker, unchecked>>
    BY <1>6 DEF AcceptReset, Signal
  <2>2. watch'[1] = watch[1] \/ (watch[1] = "active" /\ watch'[1] = "closing")
    BY <1>6 DEF AcceptReset, Signal, Stop
  <2> QED BY <2>1, <2>2 DEF EditIsTracked
<1>7. CASE OperationBegins
  <2>1. UNCHANGED <<watch, events>>
    BY <1>7 DEF OperationBegins, sessionVars
  <2>2. CASE UNCHANGED <<tracker, unchecked>>
    BY <2>1, <2>2 DEF EditIsTracked
  <2>3. CASE ShouldValidateAppSources(tracker) /\ unchecked' = "none"
    BY <2>1, <2>3 DEF EditIsTracked
  <2>4. CASE ~ShouldValidateAppSources(tracker) /\ UNCHANGED unchecked
    BY <2>1, <2>4 DEF EditIsTracked, ShouldValidateAppSources
  <2> QED BY <1>7, <2>2, <2>3, <2>4 DEF OperationBegins
<1>8. ASSUME NEW kind \in Kinds, Edit(kind) PROVE EditIsTracked'
  <2>1. UNCHANGED <<watch, tracker>>
    BY <1>8 DEF Edit
  <2>2. watch[1] = "active" => events'[1] = events[1] \union {kind}
    BY <1>8 DEF Edit
  <2>3. watch[1] = "none" => ~SomeoneWatches
    BY DEF SomeoneWatches
  <2>4. unchecked' = IF kind # "ts" THEN unchecked ELSE IF SomeoneWatches THEN "edit" ELSE "start"
    BY <1>8 DEF Edit
  <2> QED BY <2>1, <2>2, <2>3, <2>4 DEF EditIsTracked
<1>9. \/ UNCHANGED <<watch, events, tracker, unchecked>>
      \/ \E s \in Sessions : \/ TrackerCreated(s) \/ SubscribedAndArmed(s)
                             \/ WatcherCallback(s) \/ WatcherClosed(s)
      \/ (\E r \in Runs : AcceptReset(r)) \/ Signal
      \/ OperationBegins
      \/ \E kind \in Kinds : Edit(kind)
  BY DEF Next, StartStep, WatchStep, RunStep, Answer, vars, sessionVars,
         NotBootstrapped, StartFails, DeployingOnce, NamePrinted, NameNotPrinted, TestLatch,
         RunBegins, ExecutorInvoked, ListSecretsFails, OperationEnds, DeployReturns, DeployUnsupported,
         Repeats, RepeatFails, Abandons, DestroyInvoked, DeleteFails, ResetFails, ResetReturns,
         StreamingCalled, StreamingNotCalled, StreamingReturns, SandboxRestarts, DeclineReset,
         PromptRejects, Streams, Monitors
<1> QED BY <1>1, <1>2, <1>3, <1>4, <1>5, <1>6, <1>7, <1>8, <1>9

\* No TypeScript edit made under the watcher escapes the type checker, whatever
\* snapshots, failed deployments and other changes come in between (the
\* snapshot is reset by getAndResetSnapshot whatever the outcome).
THEOREM EditsCorrect == Spec => []TypeScriptEditRemembered
<1>1. Init => (~Recreated => EditIsTracked)
  BY MaxSessionsAssumption DEF Init, EditIsTracked, Sessions
<1>2. TypeOK /\ LatchInv /\ (~Recreated => EditIsTracked) /\ [Next]_vars => (~Recreated => EditIsTracked)'
  BY RecreatedForGood, EditIsTrackedPreserved
<1>3. TypeOK /\ LatchInv /\ (~Recreated => EditIsTracked) => TypeScriptEditRemembered
  BY OneSession DEF TypeScriptEditRemembered, SomeoneWatches, EditIsTracked
<1> QED BY <1>1, <1>2, <1>3, SandboxInvariant, PTL DEF Spec

-----------------------------------------------------------------------------
(* The monitor. *)

LEMMA MonitorTicksPreserved == TypeOK /\ ActiveMonitorTicks /\ [Next]_vars => ActiveMonitorTicks'
<1> SUFFICES ASSUME TypeOK, ActiveMonitorTicks, [Next]_vars PROVE ActiveMonitorTicks'
  OBVIOUS
<1> USE DEF ActiveMonitorTicks, LiveChains, TypeOK, StreamTypeOK
<1>1. CASE UNCHANGED chain /\ (UNCHANGED active \/ active' = FALSE)
  BY <1>1
<1>2. ASSUME NEW c \in Chains, MonitorStep(c) PROVE ActiveMonitorTicks'
  <2>1. CASE Tick(c)
    <3>1. CASE active
      BY <2>1, <3>1 DEF Tick
    <3>2. CASE ~active
      BY <2>1, <3>2 DEF Tick
    <3> QED BY <3>1, <3>2
  <2>2. CASE TickPrints(c) \/ TickFails(c)
    BY <2>2 DEF TickPrints, TickFails
  <2> QED BY <1>2, <2>1, <2>2 DEF MonitorStep
<1>3. ASSUME NEW r, StartListening(r) PROVE ActiveMonitorTicks'
  BY <1>3 DEF StartListening, ActivateOn
<1>4. \/ UNCHANGED chain /\ (UNCHANGED active \/ active' = FALSE)
      \/ \E c \in Chains : MonitorStep(c)
      \/ \E r \in Runs : StartListening(r)
  <2>1. ASSUME NEW r \in Runs, Streams(r)
        PROVE  UNCHANGED <<chain, active>> \/ StartListening(r)
    BY <2>1 DEF Streams, StreamerStep, NoStackToStream, OutputFetched, FunctionLookedUp, LookUpFails
  <2>2. ASSUME StopStreamingLogs PROVE UNCHANGED chain /\ (UNCHANGED active \/ active' = FALSE)
    BY <2>2 DEF StopStreamingLogs, Pause
  <2>3. ASSUME NEW r \in Runs, StreamingCalled(r) \/ StreamingReturns(r) PROVE UNCHANGED <<chain, active>>
    BY <2>3 DEF StreamingCalled, StreamingReturns, CallStartStreaming, StreamCallEnds
  <2>4. ASSUME NEW s \in Sessions, StartStep(s) \/ WatchStep(s)
        PROVE  UNCHANGED chain /\ (UNCHANGED active \/ active' = FALSE)
    BY <2>2, <2>4
       DEF StartStep, WatchStep, streamVars, TrackerCreated, SubscribedAndArmed, NotBootstrapped,
           StartFails, DeployingOnce, WatcherCallback, NamePrinted, NameNotPrinted, TestLatch,
           WatcherClosed, RunBegins
  <2>5. ASSUME NEW r \in Runs, RunStep(r)
        PROVE  UNCHANGED chain /\ (UNCHANGED active \/ active' = FALSE)
    BY <2>2, <2>3, <2>5
       DEF RunStep, streamVars, ExecutorInvoked, ListSecretsFails, OperationEnds, DeployReturns,
           DeployUnsupported, Repeats, RepeatFails, Abandons, DestroyInvoked, DeleteFails, ResetFails,
           ResetReturns, StreamingNotCalled, SandboxRestarts, Stop
  <2>6. ASSUME NEW r \in Runs, Answer(r)
        PROVE  UNCHANGED chain /\ (UNCHANGED active \/ active' = FALSE)
    BY <2>2, <2>6 DEF Answer, streamVars, DeclineReset, AcceptReset, PromptRejects, Abandons, Stop
  <2>7. ASSUME OperationBegins \/ (\E kind \in Kinds : Edit(kind)) \/ Signal
        PROVE  UNCHANGED chain /\ (UNCHANGED active \/ active' = FALSE)
    BY <2>2, <2>7 DEF OperationBegins, Edit, Signal, Stop, streamVars
  <2>8. ASSUME UNCHANGED vars PROVE UNCHANGED <<chain, active>>
    BY <2>8 DEF vars, streamVars
  <2> QED BY <2>1, <2>4, <2>5, <2>6, <2>7, <2>8 DEF Next, Monitors
<1> QED BY <1>1, <1>2, <1>3, <1>4

\* Chains of ticks end, overlap and fail independently of activate() and
\* pause(), and yet an active monitor has one that goes on, for any number of
\* runs and chains.
THEOREM MonitorCorrect == Spec => []ActiveMonitorTicks
<1>1. Init => ActiveMonitorTicks
  BY DEF Init, StreamInit, ActiveMonitorTicks
<1> QED BY <1>1, TypeCorrect, MonitorTicksPreserved, PTL DEF Spec

=============================================================================
