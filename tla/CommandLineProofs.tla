-------------------------- MODULE CommandLineProofs --------------------------
(***************************************************************************)
(* Theorems about the command line tool, for every value of the constants: *)
(* CdkDeployer with its terminal, and Notices.                             *)
(***************************************************************************)
EXTENDS MCCommandLine, TLAPS

-----------------------------------------------------------------------------
(* CdkDeployer *)

(* The inductive invariants. *)

AfterSynth == {"synthesized", "types", "verdict", "deploy", "deploying"}
AfterTypes == {"verdict", "deploy", "deploying"}

\* What deploy() knows of the app is so, and it has thrown nothing yet.
AppKnown ==
    /\ cause \in Causes /\ dpc \in AfterSynth \union {"idle", "synth"}
    /\ dpc # "idle" => result = "none"
    /\ dpc \in AfterSynth => (synthError <=> "synth" \in cause)
    /\ dpc \in AfterTypes => (validate => Verdict = "ok")
    /\ dpc \in {"deploy", "deploying"} => "synth" \notin cause

AssemblyHeld ==
    dpc \in AfterSynth => assembly = IF "synth" \in cause THEN "none" ELSE "held"

SoundInv == AppKnown /\ AssemblyHeld /\ OnlySoundAppsDeployed /\ AssemblyNotLeaked

\* The parts of the progress display.
ProgressIsRecord ==
    /\ deploys \in Nat
    /\ progress \in [on : BOOLEAN, inProgress : SUBSET (Nat \X Resources),
                     failures : SUBSET (Nat \X Resources),
                     completed : SUBSET (Nat \X Resources), done : Nat]

\* Without monitoring nothing is on display, and only this deployment's resources
\* with it: a display that a failed deployment leaves behind is empty.
DisplayInv ==
    /\ monitoring => dpc = "deploying" /\ Displayed(progress) \subseteq {deploys} \X Resources
    /\ ~monitoring => Displayed(progress) = {}

\* The spinner runs behind a display only, and the mark of a hot swap is set in
\* the deployment that swaps and gone when it ends.
SpinnerInv ==
    /\ dpc = "deploying" => progress.on \/ spinner = "none"
    /\ dpc = "deploying" => (isHotSwap <=> swapped)
    /\ dpc # "deploying" => ~isHotSwap
    /\ dpc \notin {"deploying", "idle"} => ~swapped /\ result = "none"
    /\ dpc = "deploying" => result = "none"
    /\ dpc = "idle" /\ result = "succeeded" => SuccessClearsTerminal /\ LatencyOfThisDeployment

TerminalInv == ProgressIsRecord /\ DisplayInv /\ SpinnerInv

-----------------------------------------------------------------------------
(* Only sound apps are deployed, and no assembly is leaked. *)

LEMMA SoundInit == Init => SoundInv
<1> SUFFICES ASSUME Init PROVE SoundInv
  OBVIOUS
<1>1. AppKnown /\ AssemblyHeld
  BY DEF Init, AppKnown, AssemblyHeld, AfterSynth, AfterTypes, Causes
<1>2. OnlySoundAppsDeployed /\ AssemblyNotLeaked
  BY DEF Init, OnlySoundAppsDeployed, AssemblyNotLeaked, Ended
<1> QED BY <1>1, <1>2 DEF SoundInv

\* Steps that are about the terminal or the stack only.
LEMMA SoundKept ==
    ASSUME SoundInv,
           UNCHANGED <<dpc, deploys, cause, validate, synthError, assembly, result>>
    PROVE  SoundInv'
  BY DEF SoundInv, AppKnown, AssemblyHeld, OnlySoundAppsDeployed, AssemblyNotLeaked, Ended, Verdict

LEMMA SoundStep == SoundInv /\ [Next]_vars => SoundInv'
<1> SUFFICES ASSUME SoundInv, [Next]_vars PROVE SoundInv'
  OBVIOUS
<1> USE DEF SoundInv, AfterSynth, AfterTypes
<1>1. CASE Begin
  <2>1. AppKnown' /\ AssemblyHeld'
    BY <1>1 DEF Begin, AppKnown, AssemblyHeld
  <2>2. OnlySoundAppsDeployed' /\ AssemblyNotLeaked'
    BY <1>1 DEF Begin, OnlySoundAppsDeployed, AssemblyNotLeaked, Ended
  <2> QED BY <2>1, <2>2
<1>2. CASE Synthesize
  <2>1. AppKnown' /\ AssemblyHeld'
    BY <1>2 DEF Synthesize, AppKnown, AssemblyHeld
  <2>2. OnlySoundAppsDeployed' /\ AssemblyNotLeaked'
    BY <1>2 DEF Synthesize, OnlySoundAppsDeployed, AssemblyNotLeaked, Ended
  <2> QED BY <2>1, <2>2
<1>3. CASE TypeChecksStart
  <2>1. AppKnown' /\ AssemblyHeld'
    BY <1>3 DEF TypeChecksStart, AppKnown, AssemblyHeld, Verdict
  <2>2. OnlySoundAppsDeployed' /\ AssemblyNotLeaked'
    BY <1>3 DEF TypeChecksStart, OnlySoundAppsDeployed, AssemblyNotLeaked, Ended
  <2> QED BY <2>1, <2>2
<1>4. CASE TypeChecksEnd
  <2>1. /\ dpc = "types"
        /\ UNCHANGED <<deploys, cause, validate, synthError, assembly>> /\ Verdict' = Verdict
    BY <1>4 DEF TypeChecksEnd, Verdict
  <2>2. CASE Verdict = "ok"
    <3>1. dpc' = "verdict" /\ UNCHANGED result
      BY <1>4, <2>2 DEF TypeChecksEnd
    <3>2. AppKnown' /\ AssemblyHeld'
      BY <2>1, <2>2, <3>1 DEF AppKnown, AssemblyHeld
    <3> QED BY <2>1, <3>1, <3>2 DEF OnlySoundAppsDeployed, AssemblyNotLeaked, Ended
  <2>3. CASE Verdict # "ok"
    <3>1. /\ dpc' = "idle"
          /\ result' = IF synthError /\ Verdict = "FunctionEnvVarFileNotGeneratedError"
                       THEN "SynthError" ELSE Verdict
      BY <1>4, <2>3 DEF TypeChecksEnd
    <3>2. result' \notin {"succeeded", "DeployError"}
      BY <3>1 DEF Verdict
    <3>3. AppKnown' /\ AssemblyHeld' /\ AssemblyNotLeaked'
      BY <2>1, <3>1, <3>2 DEF AppKnown, AssemblyHeld, AssemblyNotLeaked
    <3>4. cause = {"env", "synth"} => synthError /\ Verdict = "FunctionEnvVarFileNotGeneratedError"
      BY <2>1 DEF AppKnown, Verdict
    <3>5. OnlySoundAppsDeployed'
      BY <2>1, <3>1, <3>4 DEF OnlySoundAppsDeployed
    <3> QED BY <3>3, <3>5
  <2> QED BY <2>2, <2>3
<1>5. CASE AfterTypeChecks
  <2>1. /\ dpc = "verdict" /\ (synthError <=> "synth" \in cause) /\ (validate => Verdict = "ok")
        /\ UNCHANGED <<deploys, cause, validate, synthError, assembly>> /\ Verdict' = Verdict
        /\ dpc' = IF synthError THEN "idle" ELSE "deploy"
        /\ result' = IF synthError THEN "SynthError" ELSE result
    BY <1>5 DEF AfterTypeChecks, AppKnown, Verdict
  <2>2. AppKnown' /\ AssemblyHeld'
    BY <2>1 DEF AppKnown, AssemblyHeld
  <2>3. OnlySoundAppsDeployed'
    BY <2>1 DEF OnlySoundAppsDeployed, Ended, AppKnown
  <2>4. AssemblyNotLeaked'
    BY <2>1 DEF AssemblyNotLeaked, AssemblyHeld, AppKnown
  <2> QED BY <2>2, <2>3, <2>4
<1>6. CASE DeployStarts
  <2>1. /\ dpc = "deploy" /\ dpc' = "deploying" /\ Verdict' = Verdict
        /\ UNCHANGED <<deploys, cause, validate, synthError, assembly, result>>
    BY <1>6 DEF DeployStarts, Verdict
  <2> QED BY <2>1 DEF AppKnown, AssemblyHeld, OnlySoundAppsDeployed, AssemblyNotLeaked, Ended
<1>7. CASE DeploySucceeds \/ DeployFails
  <2>1. /\ dpc \in {"deploy", "deploying"} /\ dpc' = "idle" /\ Verdict' = Verdict
        /\ result' \in {"succeeded", "DeployError"} /\ assembly' = "disposed"
        /\ UNCHANGED <<deploys, cause, validate, synthError>>
    BY <1>7 DEF DeploySucceeds, DeployFails, Verdict
  <2>2. AppKnown' /\ AssemblyHeld' /\ AssemblyNotLeaked'
    BY <2>1 DEF AppKnown, AssemblyHeld, AssemblyNotLeaked
  <2>3. "synth" \notin cause /\ (validate => Verdict = "ok")
    BY <2>1 DEF AppKnown
  <2>4. OnlySoundAppsDeployed'
    BY <2>1, <2>3 DEF OnlySoundAppsDeployed
  <2> QED BY <2>2, <2>4
<1>8. ASSUME NEW r, NEW status,
             \/ PublishAssets \/ HotSwapped \/ MonitorStarts \/ Activity(r, status) \/ Ongoing
             \/ MonitorStops \/ OutputsShown \/ SpinnerTimer \/ UNCHANGED vars
      PROVE  SoundInv'
  <2>1. UNCHANGED <<dpc, deploys, cause, validate, synthError, assembly, result>>
    BY <1>8 DEF PublishAssets, HotSwapped, MonitorStarts, Activity, Ongoing, MonitorStops,
                OutputsShown, SpinnerTimer, vars
  <2> QED BY <2>1, SoundKept
<1> QED BY <1>1, <1>2, <1>3, <1>4, <1>5, <1>6, <1>7, <1>8 DEF Next

LEMMA SoundInvariant == Spec => []SoundInv
  BY SoundInit, SoundStep, PTL DEF Spec

\* Nothing is deployed unless the app synthesizes and compiles, and the error told
\* is the one that matters (CDKDeployer.deploy), however many calls have failed
\* before and in whatever way.
THEOREM SoundAppsCorrect == Spec => []OnlySoundAppsDeployed
  BY SoundInvariant, PTL DEF SoundInv

\* toolkit.deploy gets an assembly of this call, and the assembly is disposed of
\* however the call ends (CDKDeployer.deploy).
THEOREM AssemblyCorrect == Spec => []AssemblyNotLeaked
  BY SoundInvariant, PTL DEF SoundInv

-----------------------------------------------------------------------------
(* The terminal. *)

LEMMA TerminalInit == Init => TerminalInv
<1> SUFFICES ASSUME Init PROVE TerminalInv
  OBVIOUS
<1>1. progress = NoProgress /\ deploys = 0 /\ ~monitoring
  BY DEF Init, DisplayInit
<1>2. ProgressIsRecord /\ DisplayInv
  BY <1>1 DEF NoProgress, ProgressIsRecord, DisplayInv, Displayed
<1>3. SpinnerInv
  BY DEF Init, DisplayInit, SpinnerInv
<1> QED BY <1>2, <1>3 DEF TerminalInv

LEMMA NoProgressDisplaysNothing ==
    /\ Displayed(NoProgress) = {} /\ ~NoProgress.on
    /\ NoProgress \in [on : BOOLEAN, inProgress : SUBSET (Nat \X Resources),
                       failures : SUBSET (Nat \X Resources),
                       completed : SUBSET (Nat \X Resources), done : Nat]
  BY DEF NoProgress, Displayed

LEMMA NewProgressDisplaysNothing ==
    /\ Displayed(NewProgress) = {} /\ NewProgress.on
    /\ NewProgress \in [on : BOOLEAN, inProgress : SUBSET (Nat \X Resources),
                        failures : SUBSET (Nat \X Resources),
                        completed : SUBSET (Nat \X Resources), done : Nat]
  BY DEF NewProgress, NoProgress, Displayed

\* An activity of this deployment adds nothing of another one to the display.
LEMMA AddActivityKeeps ==
    ASSUME ProgressIsRecord, NEW r \in Resources, NEW status,
           Displayed(progress) \subseteq {deploys} \X Resources,
           progress' = AddActivity(progress, <<deploys, r>>, status), deploys' = deploys
    PROVE  /\ ProgressIsRecord'
           /\ Displayed(progress)' \subseteq {deploys} \X Resources
           /\ progress'.on = progress.on
<1> DEFINE a == <<deploys, r>>
           inProgress == IF status \in InProgress THEN progress.inProgress \union {a}
                         ELSE progress.inProgress \ {a}
           failures == IF status \in Failure THEN progress.failures \union {a} ELSE progress.failures
           completed == IF status \in Complete THEN progress.completed \union {a}
                        ELSE progress.completed
           done == ResourcesDone(progress, a, status)
<1>1. CASE ~progress.on
  BY <1>1 DEF AddActivity, ProgressIsRecord, Displayed
<1>2. CASE progress.on
  <2>1. a \in Nat \X Resources /\ a \in {deploys} \X Resources
    BY DEF ProgressIsRecord
  <2>2. done \in Nat
    BY DEF ResourcesDone, ProgressIsRecord
  <2> HIDE DEF a
  <2>3. inProgress \in SUBSET (Nat \X Resources) /\ inProgress \subseteq progress.inProgress \union {a}
    BY <2>1 DEF ProgressIsRecord
  <2>4. failures \in SUBSET (Nat \X Resources) /\ failures \subseteq progress.failures \union {a}
    BY <2>1 DEF ProgressIsRecord
  <2>5. completed \in SUBSET (Nat \X Resources)
    BY <2>1 DEF ProgressIsRecord
  <2>6. progress' = [progress EXCEPT !.inProgress = inProgress, !.failures = failures,
                                     !.completed = completed, !.done = done]
    BY <1>2 DEF AddActivity, a
  <2> HIDE DEF inProgress, failures, completed, done
  <2>7. progress \in [on : BOOLEAN, inProgress : SUBSET (Nat \X Resources),
                      failures : SUBSET (Nat \X Resources),
                      completed : SUBSET (Nat \X Resources), done : Nat]
    BY DEF ProgressIsRecord
  <2>8. /\ progress' \in [on : BOOLEAN, inProgress : SUBSET (Nat \X Resources),
                          failures : SUBSET (Nat \X Resources),
                          completed : SUBSET (Nat \X Resources), done : Nat]
        /\ progress'.inProgress = inProgress /\ progress'.failures = failures
        /\ progress'.on = progress.on
    BY <2>2, <2>3, <2>4, <2>5, <2>6, <2>7
  <2>9. ProgressIsRecord'
    BY <2>8 DEF ProgressIsRecord
  <2>10. Displayed(progress)' \subseteq {deploys} \X Resources
    BY <2>1, <2>3, <2>4, <2>8 DEF Displayed
  <2> QED BY <2>8, <2>9, <2>10
<1> QED BY <1>1, <1>2

LEMMA TerminalStep == TerminalInv /\ [Next]_vars => TerminalInv'
<1> SUFFICES ASSUME TerminalInv, [Next]_vars PROVE TerminalInv'
  OBVIOUS
<1> USE NoProgressDisplaysNothing, NewProgressDisplaysNothing DEF TerminalInv
<1>1. CASE Begin
  <2>1. ProgressIsRecord' /\ DisplayInv'
    BY <1>1 DEF Begin, Spin, ProgressIsRecord, DisplayInv, Displayed
  <2>2. SpinnerInv'
    BY <1>1 DEF Begin, Spin, SpinnerInv
  <2> QED BY <2>1, <2>2
<1>2. CASE Synthesize \/ TypeChecksStart
  <2>1. ProgressIsRecord' /\ DisplayInv'
    BY <1>2 DEF Synthesize, TypeChecksStart, StopSpinner, Spin, ProgressIsRecord, DisplayInv, Displayed
  <2>2. SpinnerInv'
    BY <1>2 DEF Synthesize, TypeChecksStart, StopSpinner, Spin, SpinnerInv
  <2> QED BY <2>1, <2>2
<1>3. CASE TypeChecksEnd \/ AfterTypeChecks
  <2>1. ProgressIsRecord' /\ DisplayInv'
    BY <1>3 DEF TypeChecksEnd, AfterTypeChecks, StopSpinner, Spin, displayVars, ProgressIsRecord,
                DisplayInv, Displayed
  <2>2. /\ dpc \in {"types", "verdict"} /\ dpc' \in {"idle", "verdict", "deploy"}
        /\ result' # "succeeded" /\ (dpc' # "idle" => result' = result)
        /\ UNCHANGED <<isHotSwap, swapped>>
    BY <1>3 DEF TypeChecksEnd, AfterTypeChecks, StopSpinner, Spin, displayVars, SpinnerInv, Verdict
  <2>3. SpinnerInv'
    BY <2>2 DEF SpinnerInv
  <2> QED BY <2>1, <2>3
<1>4. CASE PublishAssets
  <2>1. ProgressIsRecord' /\ DisplayInv'
    BY <1>4 DEF PublishAssets, AssetsEvent, ProgressIsRecord, DisplayInv, Displayed
  <2>2. SpinnerInv'
    BY <1>4 DEF PublishAssets, AssetsEvent, SpinnerInv
  <2> QED BY <2>1, <2>2
<1>5. CASE DeployStarts
  <2>1. ~monitoring /\ ~monitoring' /\ deploys' = deploys /\ progress' \in {progress, NewProgress}
        /\ progress'.on
    BY <1>5 DEF DeployStarts, StartEvent, DisplayInv
  <2>2. ProgressIsRecord' /\ DisplayInv'
    BY <2>1 DEF ProgressIsRecord, DisplayInv, Displayed
  <2>3. SpinnerInv'
    BY <1>5, <2>1 DEF DeployStarts, StartEvent, SpinnerInv
  <2> QED BY <2>2, <2>3
<1>6. CASE HotSwapped
  <2>1. ProgressIsRecord' /\ DisplayInv'
    BY <1>6 DEF HotSwapped, HotSwapEvent, ProgressIsRecord, DisplayInv, Displayed
  <2>2. SpinnerInv'
    BY <1>6 DEF HotSwapped, HotSwapEvent, SpinnerInv
  <2> QED BY <2>1, <2>2
<1>7. CASE MonitorStarts
  <2>1. ProgressIsRecord' /\ DisplayInv'
    BY <1>7 DEF MonitorStarts, displayVars, ProgressIsRecord, DisplayInv, Displayed
  <2>2. SpinnerInv'
    BY <1>7 DEF MonitorStarts, displayVars, SpinnerInv
  <2> QED BY <2>1, <2>2
<1>8. ASSUME NEW r \in Resources, NEW status \in Statuses, Activity(r, status) PROVE TerminalInv'
  <2>1. /\ monitoring /\ progress' = AddActivity(progress, <<deploys, r>>, status)
        /\ UNCHANGED <<dpc, deploys, monitoring, result, swapped, spinner, isHotSwap, latency>>
    BY <1>8 DEF Activity, ActivityEvent
  <2>2. /\ ProgressIsRecord' /\ Displayed(progress)' \subseteq {deploys} \X Resources
        /\ progress'.on = progress.on
    BY <2>1, AddActivityKeeps DEF DisplayInv
  <2>3. DisplayInv'
    BY <2>1, <2>2 DEF DisplayInv
  <2>4. SpinnerInv'
    BY <2>1, <2>2 DEF SpinnerInv, DisplayInv
  <2> QED BY <2>2, <2>3, <2>4
<1>9. CASE Ongoing
  <2>1. ProgressIsRecord' /\ DisplayInv'
    BY <1>9 DEF Ongoing, OngoingEvent, ProgressIsRecord, DisplayInv, Displayed
  <2>2. SpinnerInv'
    BY <1>9 DEF Ongoing, OngoingEvent, SpinnerInv, DisplayInv
  <2> QED BY <2>1, <2>2
<1>10. CASE MonitorStops \/ OutputsShown
  <2>1. /\ dpc = "deploying" /\ ~monitoring' /\ progress' = NoProgress
        /\ spinner' = (IF progress.on THEN "none" ELSE spinner)
        /\ UNCHANGED <<dpc, deploys, result, swapped, isHotSwap, latency>>
    BY <1>10 DEF MonitorStops, OutputsShown, StopEvent, EndDisplay, DisplayInv
  <2>2. ProgressIsRecord' /\ DisplayInv'
    BY <2>1 DEF ProgressIsRecord, DisplayInv, Displayed
  <2>3. SpinnerInv'
    BY <2>1 DEF SpinnerInv
  <2> QED BY <2>2, <2>3
<1>11. CASE DeploySucceeds
  <2>1. /\ dpc = "deploying" /\ dpc' = "idle" /\ ~monitoring /\ ~monitoring'
        /\ progress' = NoProgress /\ spinner' = (IF progress.on THEN "none" ELSE spinner)
        /\ latency' = (IF isHotSwap THEN "hotSwap" ELSE "deployment") /\ isHotSwap' = FALSE
        /\ UNCHANGED <<deploys, swapped>>
    BY <1>11 DEF DeploySucceeds, TimingEvent, EndDisplay
  <2>2. ProgressIsRecord' /\ DisplayInv'
    BY <2>1 DEF ProgressIsRecord, DisplayInv, Displayed
  <2>3. SuccessClearsTerminal' /\ LatencyOfThisDeployment'
    BY <2>1 DEF SpinnerInv, SuccessClearsTerminal, LatencyOfThisDeployment
  <2>4. SpinnerInv'
    BY <2>1, <2>3 DEF SpinnerInv
  <2> QED BY <2>2, <2>4
<1>12. CASE DeployFails
  <2>1. ProgressIsRecord' /\ DisplayInv'
    BY <1>12 DEF DeployFails, DeployFailedEvent, ProgressIsRecord, DisplayInv, Displayed
  <2>2. SpinnerInv'
    BY <1>12 DEF DeployFails, DeployFailedEvent, SpinnerInv
  <2> QED BY <2>1, <2>2
<1>13. CASE SpinnerTimer \/ UNCHANGED vars
  <2>1. ProgressIsRecord' /\ DisplayInv'
    BY <1>13 DEF SpinnerTimer, SpinnerTimesOut, vars, displayVars, ProgressIsRecord, DisplayInv,
                 Displayed
  <2>2. SpinnerInv'
    BY <1>13 DEF SpinnerTimer, SpinnerTimesOut, vars, displayVars, SpinnerInv,
                 SuccessClearsTerminal, LatencyOfThisDeployment
  <2> QED BY <2>1, <2>2
<1> QED BY <1>1, <1>2, <1>3, <1>4, <1>5, <1>6, <1>7, <1>8, <1>9, <1>10, <1>11, <1>12, <1>13
        DEF Next

\* What a failed deployment leaves on the singleton logger (AmplifyEventLogger)
\* never shows in a later one: the terminal is clear after a success, the display
\* is of the deployment at work, and a latency is a hot swap's exactly when this
\* deployment swapped.
THEOREM TerminalCorrect == Spec => []TerminalTellsThisDeployment
<1>1. TerminalInv => TerminalTellsThisDeployment
  BY DEF TerminalInv, DisplayInv, SpinnerInv, TerminalTellsThisDeployment, Ended,
         DisplayIsOfThisDeployment
<1> QED BY <1>1, TerminalInit, TerminalStep, PTL DEF Spec

-----------------------------------------------------------------------------
(* Notices: nothing that the files, the processes' memories and the writes   *)
(* under way say of acknowledgements and printing times is made up, whatever *)
(* overlaps, is killed or gets torn.                                         *)
MetaValues == [printTimes : [Ids -> Nat], manifest : SUBSET Ids, refreshedAt : Nat]
Contents(values) == [state : {"content"}, value : values]
Memories == [ack : {Absent} \union Contents(SUBSET Ids), meta : {Absent} \union Contents(MetaValues),
             manifest : SUBSET Ids, refreshedAt : Nat]
Disks == [ack : {Absent, Torn} \union Contents(SUBSET Ids),
          meta : {Absent, Torn} \union Contents(MetaValues)]
AtWork == [pc : Steps, event : Events, notices : SUBSET Ids, data : (SUBSET Ids) \union MetaValues]
Works == {NoWork} \union AtWork

\* A metadata file, a memory, the disk and an activation that know of no
\* acknowledgement but those in "asks" and no printing but those in "prints".
TimesOf(value, prints) == \A n \in Ids : value.printTimes[n] # 0 => n \in prints

FileOK(ack, meta, asks, prints) ==
    /\ ack.state = "content" => ack.value \subseteq asks
    /\ meta.state = "content" => TimesOf(meta.value, prints)

WorkOK(w, asks, prints) ==
    /\ w # NoWork /\ w.event \in Ids => w.event \in asks
    /\ w.pc \in {"ackWrite", "acking"} => w.data \in SUBSET Ids /\ w.data \subseteq asks
    /\ w.pc \in {"caching", "recording"} => w.data \in MetaValues /\ TimesOf(w.data, prints)
    /\ w.pc = "record" => w.notices \subseteq prints

ShapeOK ==
    /\ clock \in Nat
    /\ published \in SUBSET Ids
    /\ disk \in Disks
    /\ memory \in [Processes -> Memories]
    /\ work \in [Activations -> Works]

HonestInv ==
    /\ FileOK(disk.ack, disk.meta, asked, printed)
    /\ \A p \in Processes : FileOK(memory[p].ack, memory[p].meta, asked, printed)
    /\ \A a \in Activations : WorkOK(work[a], asked, printed)
    /\ unseen = {}

NoticesInv == ShapeOK /\ HonestInv

-----------------------------------------------------------------------------
(* Reading. *)

LEMMA States ==
    /\ Absent.state = "absent" /\ Torn.state = "torn" /\ NoWork.pc = "none"
    /\ \A v : Content(v).state = "content" /\ Content(v).value = v
    /\ \A S, v : v \in S => Content(v) \in Contents(S)
  BY DEF Absent, Torn, NoWork, Content, Contents

\* What is known stays known.
LEMMA Grows ==
    ASSUME NEW asks, NEW asks2, NEW prints, NEW prints2, asks \subseteq asks2, prints \subseteq prints2
    PROVE  /\ \A ack, meta : FileOK(ack, meta, asks, prints) => FileOK(ack, meta, asks2, prints2)
           /\ \A w : WorkOK(w, asks, prints) => WorkOK(w, asks2, prints2)
  BY DEF FileOK, WorkOK, TimesOf

LEMMA ReadAck ==
    ASSUME NoticesInv, NEW p \in Processes
    PROVE  Read(p, "ack") \in SUBSET Ids /\ Read(p, "ack") \subseteq asked
<1>1. memory[p] \in Memories
  BY DEF NoticesInv, ShapeOK
<1>2. CASE memory[p].ack # Absent
  <2>1. Read(p, "ack") = memory[p].ack.value
    BY <1>2 DEF Read
  <2>2. memory[p].ack \in Contents(SUBSET Ids)
    BY <1>1, <1>2 DEF Memories
  <2> QED BY <2>1, <2>2 DEF Contents, NoticesInv, HonestInv, FileOK
<1>3. CASE memory[p].ack = Absent /\ disk.ack.state = "content"
  <2>1. Read(p, "ack") = disk.ack.value
    BY <1>3 DEF Read
  <2>2. disk.ack \in Contents(SUBSET Ids)
    BY <1>3, States DEF NoticesInv, ShapeOK, Disks
  <2> QED BY <1>3, <2>1, <2>2 DEF Contents, NoticesInv, HonestInv, FileOK
<1>4. CASE memory[p].ack = Absent /\ disk.ack.state # "content"
  BY <1>4 DEF Read
<1> QED BY <1>2, <1>3, <1>4

LEMMA ReadMeta ==
    ASSUME NoticesInv, NEW p \in Processes
    PROVE  Read(p, "meta") \in MetaValues /\ TimesOf(Read(p, "meta"), printed)
<1>1. memory[p] \in Memories
  BY DEF NoticesInv, ShapeOK
<1>2. CASE memory[p].meta # Absent
  <2>1. Read(p, "meta") = memory[p].meta.value
    BY <1>2 DEF Read
  <2>2. memory[p].meta \in Contents(MetaValues)
    BY <1>1, <1>2 DEF Memories
  <2> QED BY <2>1, <2>2 DEF Contents, NoticesInv, HonestInv, FileOK
<1>3. CASE memory[p].meta = Absent /\ disk.meta.state = "content"
  <2>1. Read(p, "meta") = disk.meta.value
    BY <1>3 DEF Read
  <2>2. disk.meta \in Contents(MetaValues)
    BY <1>3, States DEF NoticesInv, ShapeOK, Disks
  <2> QED BY <1>3, <2>1, <2>2 DEF Contents, NoticesInv, HonestInv, FileOK
<1>4. CASE memory[p].meta = Absent /\ disk.meta.state # "content"
  BY <1>4 DEF Read, DefaultMetadata, MetaValues, TimesOf
<1> QED BY <1>2, <1>3, <1>4

-----------------------------------------------------------------------------
(* Memories and activations after a step. *)

MemoryOK(m, asks, prints) ==
    /\ m \in [Processes -> Memories]
    /\ \A p \in Processes : FileOK(m[p].ack, m[p].meta, asks, prints)

WorksOK(ws, asks, prints) ==
    /\ ws \in [Activations -> Works]
    /\ \A a \in Activations : WorkOK(ws[a], asks, prints)

LEMMA MemoryGrows ==
    ASSUME NEW asks, NEW asks2, NEW prints, NEW prints2, asks \subseteq asks2, prints \subseteq prints2
    PROVE  /\ \A m : MemoryOK(m, asks, prints) => MemoryOK(m, asks2, prints2)
           /\ \A ws : WorksOK(ws, asks, prints) => WorksOK(ws, asks2, prints2)
<1>1. ASSUME NEW m, MemoryOK(m, asks, prints) PROVE MemoryOK(m, asks2, prints2)
  <2>1. ASSUME NEW p \in Processes PROVE FileOK(m[p].ack, m[p].meta, asks2, prints2)
    <3>1. FileOK(m[p].ack, m[p].meta, asks, prints)
      BY <1>1 DEF MemoryOK
    <3> QED BY <3>1, Grows
  <2> QED BY <1>1, <2>1 DEF MemoryOK
<1>2. ASSUME NEW ws, WorksOK(ws, asks, prints) PROVE WorksOK(ws, asks2, prints2)
  <2>1. ASSUME NEW a \in Activations PROVE WorkOK(ws[a], asks2, prints2)
    <3>1. WorkOK(ws[a], asks, prints)
      BY <1>2 DEF WorksOK
    <3> QED BY <3>1, Grows
  <2> QED BY <1>2, <2>1 DEF WorksOK
<1> QED BY <1>1, <1>2

LEMMA KnownNow == NoticesInv => MemoryOK(memory, asked, printed) /\ WorksOK(work, asked, printed)
  BY DEF NoticesInv, ShapeOK, HonestInv, MemoryOK, WorksOK

\* Changing what one process, or one activation, has.
LEMMA MemorySet ==
    ASSUME NEW m, NEW asks, NEW prints, MemoryOK(m, asks, prints), NEW p \in Processes,
           NEW mp \in Memories, FileOK(mp.ack, mp.meta, asks, prints)
    PROVE  MemoryOK([m EXCEPT ![p] = mp], asks, prints)
  BY DEF MemoryOK

LEMMA WorkSet ==
    ASSUME NEW ws, NEW asks, NEW prints, WorksOK(ws, asks, prints), NEW a \in Activations,
           NEW w \in Works, WorkOK(w, asks, prints)
    PROVE  WorksOK([ws EXCEPT ![a] = w], asks, prints)
  BY DEF WorksOK

LEMMA NothingKnown ==
    ASSUME NEW asks, NEW prints
    PROVE  /\ NoMemory \in Memories /\ FileOK(NoMemory.ack, NoMemory.meta, asks, prints)
           /\ NoWork \in Works /\ WorkOK(NoWork, asks, prints)
<1>1. NoMemory \in Memories /\ NoMemory.ack = Absent /\ NoMemory.meta = Absent
  BY DEF NoMemory, Memories
<1>2. NoWork \in Works /\ WorkOK(NoWork, asks, prints)
  BY States DEF Works, WorkOK
<1> QED BY <1>1, <1>2, States DEF FileOK

\* What a process has read or written is in its memory.
LEMMA AckKept ==
    ASSUME NEW m, NEW asks, NEW prints, MemoryOK(m, asks, prints), NEW p \in Processes,
           NEW v \in SUBSET Ids, v \subseteq asks
    PROVE  MemoryOK([m EXCEPT ![p]["ack"] = Content(v)], asks, prints)
<1> DEFINE mp == [m[p] EXCEPT !["ack"] = Content(v)]
<1>1. m[p] \in Memories /\ FileOK(m[p].ack, m[p].meta, asks, prints)
  BY DEF MemoryOK
<1>2. mp.ack = Content(v) /\ mp.meta = m[p].meta
  BY <1>1 DEF Memories
<1>3. Content(v) \in Contents(SUBSET Ids)
  BY States
<1>4. mp \in Memories
  BY <1>1, <1>3 DEF Memories
<1>5. FileOK(mp.ack, mp.meta, asks, prints)
  BY <1>1, <1>2, States DEF FileOK
<1>6. [m EXCEPT ![p]["ack"] = Content(v)] = [m EXCEPT ![p] = mp]
  BY DEF MemoryOK
<1> QED BY <1>4, <1>5, <1>6, MemorySet

LEMMA MetaKept ==
    ASSUME NEW m, NEW asks, NEW prints, MemoryOK(m, asks, prints), NEW p \in Processes,
           NEW v \in MetaValues, TimesOf(v, prints)
    PROVE  MemoryOK([m EXCEPT ![p]["meta"] = Content(v)], asks, prints)
<1> DEFINE mp == [m[p] EXCEPT !["meta"] = Content(v)]
<1>1. m[p] \in Memories /\ FileOK(m[p].ack, m[p].meta, asks, prints)
  BY DEF MemoryOK
<1>2. mp.meta = Content(v) /\ mp.ack = m[p].ack
  BY <1>1 DEF Memories
<1>3. Content(v) \in Contents(MetaValues)
  BY States
<1>4. mp \in Memories
  BY <1>1, <1>3 DEF Memories
<1>5. FileOK(mp.ack, mp.meta, asks, prints)
  BY <1>1, <1>2, States DEF FileOK
<1>6. [m EXCEPT ![p]["meta"] = Content(v)] = [m EXCEPT ![p] = mp]
  BY DEF MemoryOK
<1> QED BY <1>4, <1>5, <1>6, MemorySet

\* The fetcher's own copy of the manifest says nothing of either.
LEMMA ManifestKept ==
    ASSUME NEW m, NEW asks, NEW prints, MemoryOK(m, asks, prints), NEW p \in Processes,
           NEW notices \in SUBSET Ids, NEW time \in Nat
    PROVE  MemoryOK([m EXCEPT ![p].manifest = notices, ![p].refreshedAt = time], asks, prints)
<1> DEFINE mp == [m[p] EXCEPT !.manifest = notices, !.refreshedAt = time]
<1>1. m[p] \in Memories /\ FileOK(m[p].ack, m[p].meta, asks, prints)
  BY DEF MemoryOK
<1>2. mp \in Memories /\ mp.meta = m[p].meta /\ mp.ack = m[p].ack
  BY <1>1 DEF Memories
<1>3. [m EXCEPT ![p].manifest = notices, ![p].refreshedAt = time] = [m EXCEPT ![p] = mp]
  BY DEF MemoryOK
<1>4. MemoryOK([m EXCEPT ![p] = mp], asks, prints)
  <2> HIDE DEF mp
  <2> QED BY <1>1, <1>2, MemorySet
<1> QED BY <1>3, <1>4

LEMMA AfterReading ==
    ASSUME NoticesInv, NEW p \in Processes
    PROVE  /\ MemoryOK(HasRead(p, "ack"), asked, printed)
           /\ MemoryOK(HasRead(p, "meta"), asked, printed)
  BY KnownNow, ReadAck, ReadMeta, AckKept, MetaKept DEF HasRead

\* An activation goes on or ends.
LEMMA AfterStep ==
    ASSUME NEW asks, NEW prints, WorksOK(work, asks, prints), NEW a \in Activations,
           NEW w \in Works, WorkOK(w, asks, prints),
           NEW m, MemoryOK(m, asks, prints), Continues(a, w, m) \/ Ends(a, m)
    PROVE  WorksOK(work', asks, prints) /\ MemoryOK(memory', asks, prints)
<1>1. CASE Continues(a, w, m) \/ Continues(a, NoWork, m)
  <2>1. memory' = m /\ (work' = [work EXCEPT ![a] = w] \/ work' = [work EXCEPT ![a] = NoWork])
    BY <1>1 DEF Continues
  <2> QED BY <2>1, WorkSet, NothingKnown
<1>2. CASE Leaves(ProcessOf(a), m) /\ work' = [work EXCEPT ![a] = NoWork]
  <2>1. memory' = [m EXCEPT ![ProcessOf(a)] = NoMemory] /\ ProcessOf(a) \in Processes
    BY <1>2 DEF Leaves, ProcessOf, Activations
  <2> QED BY <1>2, <2>1, WorkSet, MemorySet, NothingKnown
<1> QED BY <1>1, <1>2 DEF Ends

-----------------------------------------------------------------------------
(* The steps. *)

DiskOK(d, asks, prints) == d \in Disks /\ FileOK(d.ack, d.meta, asks, prints)

LEMMA FromParts ==
    ASSUME clock' \in Nat, published' \in SUBSET Ids, DiskOK(disk', asked', printed'),
           MemoryOK(memory', asked', printed'), WorksOK(work', asked', printed'), unseen' = {}
    PROVE  NoticesInv'
  BY DEF NoticesInv, ShapeOK, HonestInv, DiskOK, MemoryOK, WorksOK

\* A file that is being written is torn; one that is written may be.
LEMMA AfterTruncation ==
    ASSUME NoticesInv, NEW file \in {"ack", "meta"}, Truncated(file)
    PROVE  DiskOK(disk', asked, printed)
<1>1. disk \in Disks /\ FileOK(disk.ack, disk.meta, asked, printed)
  BY DEF NoticesInv, ShapeOK, HonestInv
<1>2. disk' = [disk EXCEPT ![file] = Torn]
  BY DEF Truncated
<1>3. disk' \in Disks
  BY <1>1, <1>2 DEF Disks
<1>4. (disk'.ack = disk.ack \/ disk'.ack = Torn) /\ (disk'.meta = disk.meta \/ disk'.meta = Torn)
  BY <1>1, <1>2 DEF Disks
<1> QED BY <1>1, <1>3, <1>4, States DEF DiskOK, FileOK

LEMMA AfterWrite ==
    ASSUME NoticesInv, NEW a \in Activations,
           \/ Written(a, "ack") /\ work[a].data \in SUBSET Ids /\ work[a].data \subseteq asked
           \/ Written(a, "meta") /\ work[a].data \in MetaValues /\ TimesOf(work[a].data, printed)
    PROVE  DiskOK(disk', asked, printed)
<1>1. disk \in Disks /\ FileOK(disk.ack, disk.meta, asked, printed)
  BY DEF NoticesInv, ShapeOK, HonestInv
<1>2. CASE Written(a, "ack") /\ work[a].data \in SUBSET Ids /\ work[a].data \subseteq asked
  <2>1. PICK c \in {Content(work[a].data), Torn} : disk' = [disk EXCEPT !["ack"] = c]
    BY <1>2 DEF Written
  <2>2. c \in {Torn} \union Contents(SUBSET Ids) /\ (c.state = "content" => c.value \subseteq asked)
    BY <1>2, <2>1, States
  <2>3. disk' \in Disks /\ disk'.ack = c /\ disk'.meta = disk.meta
    BY <1>1, <2>1, <2>2 DEF Disks
  <2> QED BY <1>1, <2>2, <2>3 DEF DiskOK, FileOK
<1>3. CASE Written(a, "meta") /\ work[a].data \in MetaValues /\ TimesOf(work[a].data, printed)
  <2>1. PICK c \in {Content(work[a].data), Torn} : disk' = [disk EXCEPT !["meta"] = c]
    BY <1>3 DEF Written
  <2>2. c \in {Torn} \union Contents(MetaValues) /\ (c.state = "content" => TimesOf(c.value, printed))
    BY <1>3, <2>1, States
  <2>3. disk' \in Disks /\ disk'.meta = c /\ disk'.ack = disk.ack
    BY <1>1, <2>1, <2>2 DEF Disks
  <2> QED BY <1>1, <2>2, <2>3 DEF DiskOK, FileOK
<1> QED BY <1>2, <1>3

\* An activation at work: what it is at, and where it goes on.
LEMMA Working ==
    ASSUME NoticesInv, NEW a \in Activations, work[a].pc \in Steps
    PROVE  /\ work[a] \in AtWork /\ WorkOK(work[a], asked, printed) /\ work[a] # NoWork
           /\ ProcessOf(a) \in Processes
<1>1. work[a] \in Works /\ WorkOK(work[a], asked, printed)
  BY DEF NoticesInv, ShapeOK, HonestInv
<1>2. work[a] # NoWork
  BY States DEF Steps
<1> QED BY <1>1, <1>2 DEF Works, ProcessOf, Activations

LEMMA FetchedOK ==
    ASSUME NEW w \in AtWork, NEW asks, NEW prints, WorkOK(w, asks, prints), w # NoWork,
           NEW manifest \in SUBSET Ids
    PROVE  Fetched(w, manifest) \in Works /\ WorkOK(Fetched(w, manifest), asks, prints)
<1> DEFINE next(point) == [w EXCEPT !.pc = point, !.notices = manifest, !.data = {}]
<1>1. Fetched(w, manifest) \in {next("acknowledge"), next("show"), next("filter")}
  <2>1. CASE w.event \in Ids /\ w.event # "listAll"
    BY <2>1 DEF Fetched
  <2>2. CASE w.event \in Ids /\ w.event = "listAll"
    BY <2>2 DEF Fetched
  <2>3. CASE w.event \notin Ids /\ w.event = "listAll"
    BY <2>3 DEF Fetched
  <2>4. CASE w.event \notin Ids /\ w.event # "listAll"
    BY <2>4 DEF Fetched
  <2> QED BY <2>1, <2>2, <2>3, <2>4
<1>2. ASSUME NEW point \in {"acknowledge", "show", "filter"}
      PROVE  next(point) \in Works /\ WorkOK(next(point), asks, prints)
  <2>1. next(point) \in AtWork /\ next(point).pc = point /\ next(point).event = w.event
    <3>1. point \in Steps /\ {} \in (SUBSET Ids) \union MetaValues
      BY DEF Steps
    <3> QED BY <3>1 DEF AtWork
  <2> HIDE DEF next
  <2>2. WorkOK(next(point), asks, prints)
    BY <2>1 DEF WorkOK
  <2> QED BY <2>1, <2>2 DEF Works
<1> HIDE DEF next
<1> QED BY <1>1, <1>2

\* Most steps: an activation goes on or ends, and the files and ghosts are right.
LEMMA Goes ==
    ASSUME NoticesInv, UNCHANGED fixed, asked' = asked, printed \subseteq printed', unseen' = {},
           DiskOK(disk', asked, printed), NEW a \in Activations,
           NEW w \in Works, WorkOK(w, asked, printed'),
           NEW m, MemoryOK(m, asked, printed), Continues(a, w, m) \/ Ends(a, m)
    PROVE  NoticesInv'
<1>1. clock' \in Nat /\ published' \in SUBSET Ids
  BY DEF NoticesInv, ShapeOK, fixed
<1>2. DiskOK(disk', asked', printed')
  BY Grows DEF DiskOK
<1>3. WorksOK(work, asked, printed') /\ MemoryOK(m, asked, printed')
  <2>1. WorksOK(work, asked, printed)
    BY KnownNow
  <2> QED BY <2>1, MemoryGrows
<1>4. WorksOK(work', asked, printed') /\ MemoryOK(memory', asked, printed')
  BY <1>3, AfterStep
<1> QED BY <1>1, <1>2, <1>4, FromParts

LEMMA DiskStays == NoticesInv /\ UNCHANGED disk => DiskOK(disk', asked, printed)
  BY DEF NoticesInv, ShapeOK, HonestInv, DiskOK

-----------------------------------------------------------------------------
(* Processes and the world around them. *)

LEMMA TickSafe == NoticesInv /\ Tick => NoticesInv'
<1> SUFFICES ASSUME NoticesInv, Tick PROVE NoticesInv'
  OBVIOUS
<1>1. clock' \in Nat /\ published' \in SUBSET Ids
  BY DEF Tick, NoticesInv, ShapeOK
<1>2. disk' = disk /\ memory' = memory /\ work' = work
      /\ asked' = asked /\ printed' = printed /\ unseen' = unseen
  BY DEF Tick, ghosts
<1>3. DiskOK(disk', asked', printed')
  BY <1>2, DiskStays
<1> QED BY <1>1, <1>2, <1>3, KnownNow, FromParts DEF NoticesInv, HonestInv

LEMMA StartsSafe ==
    ASSUME NoticesInv, NEW a \in Activations, NEW event \in Events, Starts(a, event)
    PROVE  NoticesInv'
<1> DEFINE w == [pc |-> "fetch", event |-> event, notices |-> {}, data |-> {}]
<1>1. clock' \in Nat /\ published' \in SUBSET Ids
  BY DEF Starts, NoticesInv, ShapeOK
<1>2. asked \subseteq asked' /\ printed' = printed /\ unseen' = {}
  BY DEF Starts, NoticesInv, HonestInv
<1>3. DiskOK(disk', asked', printed')
  <2>1. disk' = disk
    BY DEF Starts
  <2> QED BY <1>2, <2>1, DiskStays, Grows DEF DiskOK
<1>4. MemoryOK(memory', asked', printed')
  <2>1. memory' = memory
    BY DEF Starts
  <2> QED BY <1>2, <2>1, KnownNow, MemoryGrows
<1>5. WorksOK(work', asked', printed')
  <2>1. work' = [work EXCEPT ![a] = w]
    BY DEF Starts
  <2>2. w \in Works /\ WorkOK(w, asked', printed')
    <3>1. w \in AtWork
      BY DEF AtWork, Steps
    <3>2. event \in Ids => event \in asked'
      BY DEF Starts
    <3> QED BY <3>1, <3>2 DEF Works, WorkOK
  <2>3. WorksOK(work, asked', printed')
    BY <1>2, KnownNow, MemoryGrows
  <2> HIDE DEF w
  <2> QED BY <2>1, <2>2, <2>3, WorkSet
<1> QED BY <1>1, <1>2, <1>3, <1>4, <1>5, FromParts

LEMMA StoppedSafe ==
    ASSUME NoticesInv, NEW p \in Processes, Stopped(p)
    PROVE  NoticesInv'
<1>1. clock' \in Nat /\ published' \in SUBSET Ids
  BY DEF Stopped, fixed, NoticesInv, ShapeOK
<1>2. asked' = asked /\ printed' = printed /\ unseen' = {}
  BY DEF Stopped, NoticesInv, HonestInv
<1>3. DiskOK(disk', asked', printed')
  BY <1>2, DiskStays DEF Stopped
<1>4. MemoryOK(memory', asked', printed')
  <2>1. memory' = [memory EXCEPT ![p] = NoMemory]
    BY DEF Stopped, Leaves
  <2>2. NoMemory \in Memories /\ FileOK(NoMemory.ack, NoMemory.meta, asked, printed)
    BY NothingKnown
  <2> QED BY <1>2, <2>1, <2>2, KnownNow, MemorySet
<1>5. WorksOK(work', asked', printed')
  <2>1. work' = [a \in Activations |-> IF ProcessOf(a) = p THEN NoWork ELSE work[a]]
    BY DEF Stopped
  <2>2. NoWork \in Works /\ WorkOK(NoWork, asked, printed)
    BY NothingKnown
  <2>3. WorksOK(work, asked, printed)
    BY KnownNow
  <2> QED BY <1>2, <2>1, <2>2, <2>3 DEF WorksOK
<1> QED BY <1>1, <1>2, <1>3, <1>4, <1>5, FromParts

-----------------------------------------------------------------------------
(* NoticesManifestFetcher. *)

LEMMA FetchManifestSafe ==
    ASSUME NoticesInv, NEW a \in Activations, FetchManifest(a)
    PROVE  NoticesInv'
<1> DEFINE p == ProcessOf(a)
           m == Read(p, "meta")
           loaded == [HasRead(p, "meta") EXCEPT ![p].manifest = m.manifest,
                                                ![p].refreshedAt = m.refreshedAt]
           asking == [work[a] EXCEPT !.pc = "network"]
<1>1. /\ work[a] \in AtWork /\ WorkOK(work[a], asked, printed) /\ work[a] # NoWork
      /\ p \in Processes
  BY Working DEF FetchManifest, Steps
<1>2. m \in MetaValues /\ memory[p] \in Memories
  BY <1>1, ReadMeta DEF NoticesInv, ShapeOK
<1>3. MemoryOK(memory, asked, printed)
  BY KnownNow
<1>4. MemoryOK(loaded, asked, printed)
  <2>1. MemoryOK(HasRead(p, "meta"), asked, printed)
    BY <1>1, AfterReading
  <2>2. m.manifest \in SUBSET Ids /\ m.refreshedAt \in Nat
    BY <1>2 DEF MetaValues
  <2> HIDE DEF m, p
  <2> QED BY <1>1, <2>1, <2>2, ManifestKept
<1>5. asking \in Works /\ WorkOK(asking, asked, printed)
  <2>1. asking \in AtWork /\ asking.pc = "network" /\ asking.event = work[a].event
    BY <1>1 DEF AtWork, Steps
  <2> HIDE DEF asking
  <2> QED BY <1>1, <2>1 DEF Works, WorkOK
<1>6. \A manifest \in SUBSET Ids :
          Fetched(work[a], manifest) \in Works /\ WorkOK(Fetched(work[a], manifest), asked, printed)
  BY <1>1, FetchedOK
<1>7. \E w, mm : /\ w \in Works /\ WorkOK(w, asked, printed) /\ MemoryOK(mm, asked, printed)
                 /\ Continues(a, w, mm)
  <2>1. CASE Continues(a, Fetched(work[a], memory[p].manifest), memory)
    <3>1. memory[p].manifest \in SUBSET Ids
      BY <1>2 DEF Memories
    <3> QED BY <1>3, <1>6, <2>1, <3>1
  <2>2. CASE Continues(a, Fetched(work[a], m.manifest), loaded)
    <3>1. m.manifest \in SUBSET Ids
      BY <1>2 DEF MetaValues
    <3> HIDE DEF loaded, m
    <3> QED BY <1>4, <1>6, <2>2, <3>1
  <2>3. CASE Continues(a, asking, loaded)
    <3> HIDE DEF loaded, asking
    <3> QED BY <1>4, <1>5, <2>3
  <2> QED BY <2>1, <2>2, <2>3 DEF FetchManifest
<1>8. UNCHANGED fixed /\ asked' = asked /\ printed' = printed /\ unseen' = {} /\ disk' = disk
  BY DEF FetchManifest, ghosts, NoticesInv, HonestInv
<1> HIDE DEF p
<1> QED BY <1>7, <1>8, DiskStays, Goes

LEMMA FetchFailsSafe ==
    ASSUME NoticesInv, NEW a \in Activations, FetchFails(a)
    PROVE  NoticesInv'
<1>1. UNCHANGED fixed /\ asked' = asked /\ printed' = printed /\ unseen' = {} /\ disk' = disk
  BY DEF FetchFails, ghosts, NoticesInv, HonestInv
<1>2. NoWork \in Works /\ WorkOK(NoWork, asked, printed')
  BY NothingKnown
<1>3. MemoryOK(memory, asked, printed) /\ Ends(a, memory)
  BY KnownNow DEF FetchFails
<1> QED BY <1>1, <1>2, <1>3, DiskStays, Goes

\* What an activation is about to write, and where it goes with it.
LEMMA WritesMeta ==
    ASSUME NEW w \in AtWork, NEW asks, NEW prints, WorkOK(w, asks, prints), w # NoWork,
           NEW point \in {"caching", "recording"}, NEW data \in MetaValues, TimesOf(data, prints),
           NEW next \in AtWork, next.pc = point, next.event = w.event, next.data = data
    PROVE  next \in Works /\ WorkOK(next, asks, prints)
  BY DEF Works, WorkOK

LEMMA ManifestFetchedSafe ==
    ASSUME NoticesInv, NEW a \in Activations, ManifestFetched(a)
    PROVE  NoticesInv'
<1> DEFINE p == ProcessOf(a)
           m == Read(p, "meta")
           metadata == [m EXCEPT !.manifest = published, !.refreshedAt = clock]
           next == [work[a] EXCEPT !.pc = "caching", !.data = metadata]
           loaded == [HasRead(p, "meta") EXCEPT ![p].manifest = published,
                                                ![p].refreshedAt = clock]
<1>1. /\ work[a] \in AtWork /\ WorkOK(work[a], asked, printed) /\ work[a] # NoWork
      /\ p \in Processes
  BY Working DEF ManifestFetched, Steps
<1>2. published \in SUBSET Ids /\ clock \in Nat
  BY DEF NoticesInv, ShapeOK
<1>3. metadata \in MetaValues /\ TimesOf(metadata, printed)
  <2>1. m \in MetaValues /\ TimesOf(m, printed)
    BY <1>1, ReadMeta
  <2> HIDE DEF m
  <2> QED BY <1>2, <2>1 DEF MetaValues, TimesOf
<1>4. next \in Works /\ WorkOK(next, asked, printed)
  <2> HIDE DEF metadata
  <2>1. next \in AtWork /\ next.pc = "caching" /\ next.event = work[a].event
        /\ next.data = metadata
    BY <1>1, <1>3 DEF AtWork, Steps
  <2> HIDE DEF next
  <2> QED BY <1>1, <1>3, <2>1, WritesMeta
<1>5. MemoryOK(loaded, asked, printed)
  <2> HIDE DEF p
  <2> QED BY <1>1, <1>2, AfterReading, ManifestKept
<1>6. Truncated("meta") /\ Continues(a, next, loaded)
  BY DEF ManifestFetched
<1>7. UNCHANGED fixed /\ asked' = asked /\ printed' = printed /\ unseen' = {}
  BY DEF ManifestFetched, ghosts, NoticesInv, HonestInv
<1>8. DiskOK(disk', asked, printed)
  BY <1>6, AfterTruncation
<1> HIDE DEF next, loaded
<1> QED BY <1>4, <1>5, <1>6, <1>7, <1>8, Goes

\* A written file is in the memory of its process.
LEMMA AfterWriting ==
    ASSUME NoticesInv, NEW a \in Activations, ProcessOf(a) \in Processes
    PROVE  /\ work[a].data \in SUBSET Ids /\ work[a].data \subseteq asked
                  => MemoryOK(HasWritten(a, "ack"), asked, printed)
           /\ work[a].data \in MetaValues /\ TimesOf(work[a].data, printed)
                  => MemoryOK(HasWritten(a, "meta"), asked, printed)
  BY KnownNow, AckKept, MetaKept DEF HasWritten

LEMMA ManifestCachedSafe ==
    ASSUME NoticesInv, NEW a \in Activations, ManifestCached(a)
    PROVE  NoticesInv'
<1> DEFINE p == ProcessOf(a)
           next == Fetched(work[a], memory[p].manifest)
<1>1. /\ work[a] \in AtWork /\ WorkOK(work[a], asked, printed) /\ work[a] # NoWork
      /\ p \in Processes
  BY Working DEF ManifestCached, Steps
<1>2. work[a].data \in MetaValues /\ TimesOf(work[a].data, printed)
  BY <1>1 DEF ManifestCached, WorkOK
<1>3. next \in Works /\ WorkOK(next, asked, printed)
  <2>1. memory[p].manifest \in SUBSET Ids
    BY <1>1 DEF NoticesInv, ShapeOK, Memories
  <2> QED BY <1>1, <2>1, FetchedOK
<1>4. MemoryOK(HasWritten(a, "meta"), asked, printed)
  BY <1>1, <1>2, AfterWriting
<1>5. Continues(a, next, HasWritten(a, "meta")) /\ Written(a, "meta")
  BY DEF ManifestCached
<1>6. UNCHANGED fixed /\ asked' = asked /\ printed' = printed /\ unseen' = {}
  BY DEF ManifestCached, ghosts, NoticesInv, HonestInv
<1>7. DiskOK(disk', asked, printed)
  BY <1>2, <1>5, AfterWrite
<1> HIDE DEF next
<1> QED BY <1>3, <1>4, <1>5, <1>6, <1>7, Goes

-----------------------------------------------------------------------------
(* NoticesController and NoticesRenderer. *)

LEMMA FilterAcknowledgedSafe ==
    ASSUME NoticesInv, NEW a \in Activations, FilterAcknowledged(a)
    PROVE  NoticesInv'
<1> DEFINE p == ProcessOf(a)
           acks == Read(p, "ack")
           next == [work[a] EXCEPT !.pc = "show", !.notices = @ \ acks]
<1>1. /\ work[a] \in AtWork /\ WorkOK(work[a], asked, printed) /\ work[a] # NoWork
      /\ p \in Processes
  BY Working DEF FilterAcknowledged, Steps
<1>2. acks \subseteq asked
  BY <1>1, ReadAck
<1>3. next \in Works /\ WorkOK(next, asked, printed)
  <2>1. next \in AtWork /\ next.pc = "show" /\ next.event = work[a].event
    <3> HIDE DEF acks
    <3> QED BY <1>1 DEF AtWork, Steps
  <2> HIDE DEF next
  <2> QED BY <1>1, <2>1 DEF Works, WorkOK
<1>4. MemoryOK(HasRead(p, "ack"), asked, printed)
  BY <1>1, AfterReading
<1>5. unseen' = {}
  <2>1. Unseen(work[a].notices \intersect acks) = {}
    BY <1>2 DEF Unseen
  <2>2. unseen' = unseen \union Unseen(work[a].notices \intersect acks)
    BY DEF FilterAcknowledged
  <2> HIDE DEF acks
  <2> QED BY <2>1, <2>2 DEF NoticesInv, HonestInv
<1>6. UNCHANGED fixed /\ asked' = asked /\ printed' = printed /\ disk' = disk
  BY DEF FilterAcknowledged
<1>7. Continues(a, next, HasRead(p, "ack"))
  BY DEF FilterAcknowledged
<1> HIDE DEF next, p
<1> QED BY <1>3, <1>4, <1>5, <1>6, <1>7, DiskStays, Goes

\* A notice to be shown once that a command leaves out has been printed.
LEMMA LeftOutWasPrinted ==
    ASSUME NEW n \in Ids, NEW prints, NEW value, TimesOf(value, prints), Frequency[n] = "once",
           ~Included("postCommand", n, value.printTimes)
    PROVE  n \in prints
<1>1. value.printTimes[n] # 0
  BY DEF Included
<1> QED BY <1>1 DEF TimesOf

LEMMA ShowSafe ==
    ASSUME NoticesInv, NEW a \in Activations, Show(a)
    PROVE  NoticesInv'
<1> DEFINE p == ProcessOf(a)
           m == Read(p, "meta")
           event == work[a].event
           included == {n \in work[a].notices : Included(event, n, m.printTimes)}
           renders == event \in {"postCommand", "postDeployment"}
<1>1. /\ work[a] \in AtWork /\ WorkOK(work[a], asked, printed) /\ work[a] # NoWork
      /\ p \in Processes
  BY Working DEF Show, Steps
<1>2. PICK matching \in SUBSET included :
          /\ IF renders /\ matching # {}
             THEN Continues(a, [work[a] EXCEPT !.pc = "record", !.notices = matching],
                            HasRead(p, "meta"))
             ELSE Ends(a, IF renders THEN HasRead(p, "meta") ELSE memory)
          /\ printed' = printed \union matching
  BY DEF Show
<1> DEFINE next == [work[a] EXCEPT !.pc = "record", !.notices = matching]
<1>3. matching \in SUBSET Ids
  BY <1>1 DEF AtWork
<1>4. next \in Works /\ WorkOK(next, asked, printed')
  <2>1. next \in AtWork /\ next.pc = "record" /\ next.event = work[a].event
        /\ next.notices = matching
    <3> HIDE DEF included
    <3> QED BY <1>1, <1>3 DEF AtWork, Steps
  <2>2. matching \subseteq printed'
    BY <1>2
  <2> HIDE DEF next
  <2> QED BY <1>1, <2>1, <2>2 DEF Works, WorkOK
<1>5. MemoryOK(HasRead(p, "meta"), asked, printed) /\ MemoryOK(memory, asked, printed)
  BY <1>1, AfterReading, KnownNow
<1>6. unseen' = {}
  <2>1. CASE event = "postCommand"
    <3>1. ASSUME NEW n \in Unseen(work[a].notices \ included) PROVE FALSE
      <4>1. n \in Ids /\ n \notin printed /\ Frequency[n] = "once"
        BY <1>1 DEF Unseen, AtWork
      <4>2. ~Included("postCommand", n, m.printTimes)
        BY <2>1, <3>1 DEF Unseen
      <4>3. TimesOf(m, printed)
        BY <1>1, ReadMeta
      <4> HIDE DEF m
      <4> QED BY <4>1, <4>2, <4>3, LeftOutWasPrinted
    <3>2. unseen' = unseen \union Unseen(work[a].notices \ included)
      BY <2>1 DEF Show
    <3> HIDE DEF included
    <3> QED BY <3>1, <3>2 DEF NoticesInv, HonestInv
  <2>2. CASE event # "postCommand"
    BY <2>2 DEF Show, NoticesInv, HonestInv
  <2> QED BY <2>1, <2>2
<1>7. UNCHANGED fixed /\ asked' = asked /\ printed \subseteq printed' /\ disk' = disk
  BY <1>2 DEF Show
<1>8. \E w, mm : /\ w \in Works /\ WorkOK(w, asked, printed') /\ MemoryOK(mm, asked, printed)
                 /\ Continues(a, w, mm) \/ Ends(a, mm)
  <2>1. NoWork \in Works /\ WorkOK(NoWork, asked, printed')
    BY NothingKnown
  <2>2. \/ Continues(a, next, HasRead(p, "meta"))
        \/ Ends(a, HasRead(p, "meta"))
        \/ Ends(a, memory)
    BY <1>2
  <2> HIDE DEF next, p
  <2> QED BY <1>4, <1>5, <2>1, <2>2
<1> QED BY <1>6, <1>7, <1>8, DiskStays, Goes

LEMMA RecordPrintingTimesSafe ==
    ASSUME NoticesInv, NEW a \in Activations, RecordPrintingTimes(a)
    PROVE  NoticesInv'
<1> DEFINE p == ProcessOf(a)
           m == Read(p, "meta")
           shown == work[a].notices
           times == [n \in Ids |-> IF n \in shown THEN clock ELSE m.printTimes[n]]
           metadata == [m EXCEPT !.printTimes = [n \in Ids |-> IF n \in shown THEN clock ELSE @[n]]]
           next == [work[a] EXCEPT !.pc = "recording", !.notices = {}, !.data = metadata]
<1>1. /\ work[a] \in AtWork /\ WorkOK(work[a], asked, printed) /\ work[a] # NoWork
      /\ p \in Processes /\ work[a].pc = "record"
  BY Working DEF RecordPrintingTimes, Records, Steps
<1>2. shown \subseteq printed /\ clock \in Nat
  BY <1>1 DEF WorkOK, NoticesInv, ShapeOK
<1>3. metadata \in MetaValues /\ TimesOf(metadata, printed)
  <2>1. m \in MetaValues /\ TimesOf(m, printed)
    BY <1>1, ReadMeta
  <2>2. metadata = [m EXCEPT !.printTimes = times]
    OBVIOUS
  <2> HIDE DEF m, metadata, shown
  <2>3. times \in [Ids -> Nat]
    BY <1>2, <2>1 DEF MetaValues
  <2>4. \A n \in Ids : times[n] # 0 => n \in printed
    BY <1>2, <2>1 DEF TimesOf
  <2> HIDE DEF times
  <2>5. metadata \in MetaValues /\ metadata.printTimes = times
    BY <2>1, <2>2, <2>3 DEF MetaValues
  <2> QED BY <2>4, <2>5 DEF TimesOf
<1>4. next \in Works /\ WorkOK(next, asked, printed)
  <2> HIDE DEF metadata
  <2>1. next \in AtWork /\ next.pc = "recording" /\ next.event = work[a].event
        /\ next.data = metadata
    BY <1>1, <1>3 DEF AtWork, Steps
  <2> HIDE DEF next
  <2> QED BY <1>1, <1>3, <2>1, WritesMeta
<1>5. MemoryOK(HasRead(p, "meta"), asked, printed)
  BY <1>1, AfterReading
<1>6. Truncated("meta") /\ Continues(a, next, HasRead(p, "meta"))
  BY DEF RecordPrintingTimes, Records
<1>7. UNCHANGED fixed /\ asked' = asked /\ printed' = printed /\ unseen' = {}
  BY DEF RecordPrintingTimes, Records, ghosts, NoticesInv, HonestInv
<1>8. DiskOK(disk', asked, printed)
  BY <1>6, AfterTruncation
<1> HIDE DEF next, p
<1> QED BY <1>4, <1>5, <1>6, <1>7, <1>8, Goes

LEMMA PrintingTimesRecordedSafe ==
    ASSUME NoticesInv, NEW a \in Activations, PrintingTimesRecorded(a)
    PROVE  NoticesInv'
<1>1. /\ work[a] \in AtWork /\ WorkOK(work[a], asked, printed) /\ work[a] # NoWork
      /\ ProcessOf(a) \in Processes
  BY Working DEF PrintingTimesRecorded, Steps
<1>2. work[a].data \in MetaValues /\ TimesOf(work[a].data, printed)
  BY <1>1 DEF PrintingTimesRecorded, WorkOK
<1>3. MemoryOK(HasWritten(a, "meta"), asked, printed)
  BY <1>1, <1>2, AfterWriting
<1>4. Ends(a, HasWritten(a, "meta")) /\ Written(a, "meta")
  BY DEF PrintingTimesRecorded
<1>5. UNCHANGED fixed /\ asked' = asked /\ printed' = printed /\ unseen' = {}
  BY DEF PrintingTimesRecorded, ghosts, NoticesInv, HonestInv
<1>6. DiskOK(disk', asked, printed)
  BY <1>2, <1>4, AfterWrite
<1>7. NoWork \in Works /\ WorkOK(NoWork, asked, printed')
  BY NothingKnown
<1> QED BY <1>3, <1>4, <1>5, <1>6, <1>7, Goes

LEMMA AcknowledgeSafe ==
    ASSUME NoticesInv, NEW a \in Activations, Acknowledge(a)
    PROVE  NoticesInv'
<1> DEFINE p == ProcessOf(a)
           acks == Read(p, "ack") \union {work[a].event}
           next == [work[a] EXCEPT !.pc = "ackWrite", !.notices = {}, !.data = acks]
<1>1. /\ work[a] \in AtWork /\ WorkOK(work[a], asked, printed) /\ work[a] # NoWork
      /\ p \in Processes
  BY Working DEF Acknowledge, Steps
<1>2. UNCHANGED fixed /\ asked' = asked /\ printed' = printed /\ disk' = disk
      /\ unseen' = {}
  BY DEF Acknowledge, NoticesInv, HonestInv
<1>3. CASE work[a].event \in work[a].notices
  <2>1. acks \in SUBSET Ids /\ acks \subseteq asked
    <3>1. work[a].event \in Ids
      BY <1>1, <1>3 DEF AtWork
    <3>2. Read(p, "ack") \in SUBSET Ids /\ Read(p, "ack") \subseteq asked
      BY <1>1, ReadAck
    <3> QED BY <1>1, <3>1, <3>2 DEF WorkOK
  <2>2. next \in Works /\ WorkOK(next, asked, printed)
    <3> HIDE DEF acks
    <3>1. next \in AtWork /\ next.pc = "ackWrite" /\ next.event = work[a].event
          /\ next.data = acks
      BY <1>1, <2>1 DEF AtWork, Steps
    <3> HIDE DEF next
    <3> QED BY <1>1, <2>1, <3>1 DEF Works, WorkOK
  <2>3. MemoryOK(HasRead(p, "ack"), asked, printed)
    BY <1>1, AfterReading
  <2>4. Continues(a, next, HasRead(p, "ack"))
    BY <1>3 DEF Acknowledge
  <2> HIDE DEF next, p
  <2> QED BY <1>2, <2>2, <2>3, <2>4, DiskStays, Goes
<1>4. CASE work[a].event \notin work[a].notices
  <2>1. Ends(a, memory)
    BY <1>4 DEF Acknowledge
  <2>2. NoWork \in Works /\ WorkOK(NoWork, asked, printed')
    BY NothingKnown
  <2> QED BY <1>2, <2>1, <2>2, KnownNow, DiskStays, Goes
<1> QED BY <1>3, <1>4

LEMMA AcknowledgementWriteBeginsSafe ==
    ASSUME NoticesInv, NEW a \in Activations, AcknowledgementWriteBegins(a)
    PROVE  NoticesInv'
<1> DEFINE next == [work[a] EXCEPT !.pc = "acking"]
<1>1. /\ work[a] \in AtWork /\ WorkOK(work[a], asked, printed) /\ work[a] # NoWork
      /\ work[a].pc = "ackWrite"
  BY Working DEF AcknowledgementWriteBegins, Steps
<1>2. next \in Works /\ WorkOK(next, asked, printed)
  <2>1. next \in AtWork /\ next.pc = "acking" /\ next.event = work[a].event
        /\ next.data = work[a].data
    BY <1>1 DEF AtWork, Steps
  <2> HIDE DEF next
  <2> QED BY <1>1, <2>1 DEF Works, WorkOK
<1>3. Truncated("ack") /\ Continues(a, next, memory)
  BY DEF AcknowledgementWriteBegins
<1>4. UNCHANGED fixed /\ asked' = asked /\ printed' = printed /\ unseen' = {}
  BY DEF AcknowledgementWriteBegins, ghosts, NoticesInv, HonestInv
<1>5. DiskOK(disk', asked, printed)
  BY <1>3, AfterTruncation
<1> HIDE DEF next
<1> QED BY <1>2, <1>3, <1>4, <1>5, KnownNow, Goes

LEMMA AcknowledgedSafe ==
    ASSUME NoticesInv, NEW a \in Activations, Acknowledged(a)
    PROVE  NoticesInv'
<1>1. /\ work[a] \in AtWork /\ WorkOK(work[a], asked, printed) /\ work[a] # NoWork
      /\ ProcessOf(a) \in Processes
  BY Working DEF Acknowledged, Steps
<1>2. work[a].data \in SUBSET Ids /\ work[a].data \subseteq asked
  BY <1>1 DEF Acknowledged, WorkOK
<1>3. MemoryOK(HasWritten(a, "ack"), asked, printed)
  BY <1>1, <1>2, AfterWriting
<1>4. Ends(a, HasWritten(a, "ack")) /\ Written(a, "ack")
  BY DEF Acknowledged
<1>5. UNCHANGED fixed /\ asked' = asked /\ printed' = printed /\ unseen' = {}
  BY DEF Acknowledged, NoticesInv, HonestInv
<1>6. DiskOK(disk', asked, printed)
  BY <1>2, <1>4, AfterWrite
<1>7. NoWork \in Works /\ WorkOK(NoWork, asked, printed')
  BY NothingKnown
<1> QED BY <1>3, <1>4, <1>5, <1>6, <1>7, Goes

-----------------------------------------------------------------------------
(* The theorem. *)

\* No process has run: whatever the time, and whether one will run or not.
NothingYet ==
    /\ clock \in 1..MaxTicks /\ started \in 0..MaxActivations
    /\ published = Ids
    /\ disk = [ack |-> Absent, meta |-> Absent]
    /\ running = [p \in Processes |-> "none"]
    /\ memory = [p \in Processes |-> NoMemory]
    /\ work = [a \in Activations |-> NoWork]
    /\ asked = {} /\ acknowledged = {} /\ reappeared = {} /\ printed = {} /\ unseen = {}
    /\ known = [p \in Processes |-> {}]
    /\ disturbed = FALSE

LEMMA BeginsWithNothing == NoticesInit \/ NoticesIdle => NothingYet
  BY NoticesBoundsAssumption DEF NoticesInit, NoticesIdle, NothingYet

LEMMA NoticesInitSafe == NothingYet => NoticesInv
<1> SUFFICES ASSUME NothingYet PROVE NoticesInv
  OBVIOUS
<1>1. NoMemory \in Memories /\ NoWork \in Works
      /\ FileOK(NoMemory.ack, NoMemory.meta, asked, printed) /\ WorkOK(NoWork, asked, printed)
  BY NothingKnown
<1>2. disk \in Disks /\ FileOK(disk.ack, disk.meta, asked, printed)
  BY States DEF NothingYet, Disks, FileOK
<1>3. clock \in Nat
  BY NoticesBoundsAssumption DEF NothingYet
<1> QED BY <1>1, <1>2, <1>3 DEF NothingYet, NoticesInv, ShapeOK, HonestInv

LEMMA NoticesStep == NoticesInv /\ [NoticesNext]_noticesVars => NoticesInv'
<1> SUFFICES ASSUME NoticesInv, [NoticesNext]_noticesVars PROVE NoticesInv'
  OBVIOUS
<1>1. CASE Tick
  BY <1>1, TickSafe
<1>2. ASSUME NEW p \in Processes, NEW kind \in {"command", "sandbox"}, NEW event \in Events,
             StartProcess(p, kind, event)
      PROVE  NoticesInv'
  <2>1. PICK slot \in Slots : Starts(<<p, slot>>, event)
    BY <1>2 DEF StartProcess
  <2>2. <<p, slot>> \in Activations
    BY DEF Activations
  <2> QED BY <2>1, <2>2, StartsSafe
<1>3. ASSUME NEW p \in Processes, Stopped(p) PROVE NoticesInv'
  BY <1>3, StoppedSafe
<1>4. ASSUME NEW a \in Activations, NEW event \in Events, Activate(a, event) PROVE NoticesInv'
  BY <1>4, StartsSafe DEF Activate
<1>5. ASSUME NEW a \in Activations,
             \/ FetchManifest(a) \/ FetchFails(a) \/ ManifestFetched(a) \/ ManifestCached(a)
             \/ FilterAcknowledged(a) \/ Show(a)
             \/ RecordPrintingTimes(a) \/ PrintingTimesRecorded(a)
             \/ Acknowledge(a) \/ AcknowledgementWriteBegins(a) \/ Acknowledged(a)
      PROVE  NoticesInv'
  BY <1>5, FetchManifestSafe, FetchFailsSafe, ManifestFetchedSafe, ManifestCachedSafe,
     FilterAcknowledgedSafe, ShowSafe, RecordPrintingTimesSafe, PrintingTimesRecordedSafe,
     AcknowledgeSafe, AcknowledgementWriteBeginsSafe, AcknowledgedSafe
<1>6. CASE UNCHANGED noticesVars
  <2>1. /\ clock' = clock /\ published' = published /\ disk' = disk /\ memory' = memory
        /\ work' = work /\ asked' = asked /\ printed' = printed /\ unseen' = unseen
    BY <1>6 DEF noticesVars, fixed, ghosts
  <2> QED BY <2>1 DEF NoticesInv, ShapeOK, HonestInv
<1> QED BY <1>1, <1>2, <1>3, <1>4, <1>5, <1>6 DEF NoticesNext

\* Whatever processes of the CLI overlap, are killed, or leave a torn file: a
\* notice to be shown once is never left out before it was printed or its
\* acknowledgement asked for, and a time of printing is never made up
\* (NoticesController.recordPrintingTimes after NoticesPrinter.print).
THEOREM NoticesCorrect == NoticesSpec => []NothingWithheldUnseen
<1>1. NoticesInv => NothingWithheldUnseen
  <2> SUFFICES ASSUME NoticesInv PROVE NothingWithheldUnseen
    OBVIOUS
  <2>1. unseen = {} /\ (disk.meta.state = "content" => TimesOf(disk.meta.value, printed))
    BY DEF NoticesInv, HonestInv, FileOK
  <2> QED BY <2>1 DEF NothingWithheldUnseen, TimesOf
<1> QED BY <1>1, BeginsWithNothing, NoticesInitSafe, NoticesStep, PTL DEF NoticesSpec

-----------------------------------------------------------------------------
(* Notices: acknowledged notices stay away.  The types of files, memories    *)
(* and activations are those of NoticesInv.                                  *)
Writing == {"ackWrite", "acking"}
Early == {"fetch", "network", "caching", "acknowledge"}

\* An acknowledgement is the only activation of its process, which has not read
\* the file before.
EventOK(w, kind, ack) ==
    /\ w # NoWork /\ w.event \in Ids =>
          kind = "command" /\ w.pc \in Early \union Writing /\ (w.pc \in Early => ack = Absent)
    /\ w.pc \in {"acknowledge"} \union Writing => w.event \in Ids

Structure ==
    /\ running \in [Processes -> {"none", "command", "sandbox"}]
    /\ known \in [Processes -> SUBSET Ids]
    /\ acknowledged \in SUBSET Ids
    /\ \A p \in Processes : running[p] = "none" => memory[p] = NoMemory
    /\ \A a \in Activations : work[a] # NoWork => running[ProcessOf(a)] # "none"
    /\ \A a, b \in Activations :
          /\ running[ProcessOf(a)] = "command" /\ ProcessOf(a) = ProcessOf(b)
          /\ work[a] # NoWork /\ work[b] # NoWork
          => a = b
    /\ \A a \in Activations : EventOK(work[a], running[ProcessOf(a)], memory[ProcessOf(a)].ack)

\* What the file says, as long as nothing was disturbed: one write at a time, of
\* all that was acknowledged; who has read the file knows what was acknowledged
\* before it started, and is about to show nothing of it.
OnDisk == IF disk.ack = Absent THEN {} ELSE disk.ack.value
ShowOK(w, before) == w.pc = "show" /\ w.event # "listAll" => w.notices \intersect before = {}
WriteOK(w) == w.pc \in Writing => acknowledged \subseteq w.data /\ w.event \in w.data

Calm ==
    /\ reappeared = {}
    /\ \A p \in Processes : known[p] \subseteq acknowledged
    /\ \A p \in Processes : memory[p].ack # Absent => known[p] \subseteq memory[p].ack.value
    /\ \A a, b \in Activations : work[a].pc \in Writing /\ work[b].pc \in Writing => a = b
    /\ \A a \in Activations : WriteOK(work[a]) /\ ShowOK(work[a], known[ProcessOf(a)])
    /\ disk.ack = Torn <=> \E a \in Activations : work[a].pc = "acking"
    /\ disk.ack # Torn => acknowledged \subseteq OnDisk

AckInv ==
    /\ NoticesInv
    /\ Structure
    /\ disturbed \in BOOLEAN
    /\ disturbed = FALSE => Calm

-----------------------------------------------------------------------------
(* Steps of one activation. *)

\* A memory that differs from the present one in what process p has.
Near(m, p) ==
    /\ m \in [Processes -> Memories]
    /\ \A q \in Processes \ {p} : m[q] = memory[q]

LEMMA NearMemories ==
    ASSUME NoticesInv, NEW p \in Processes
    PROVE  /\ Near(memory, p)
           /\ Near(HasRead(p, "ack"), p) /\ HasRead(p, "ack")[p].ack = Content(Read(p, "ack"))
           /\ Near(HasRead(p, "meta"), p) /\ HasRead(p, "meta")[p].ack = memory[p].ack
<1>1. memory \in [Processes -> Memories]
  BY DEF NoticesInv, ShapeOK
<1>2. Read(p, "ack") \in SUBSET Ids /\ Read(p, "meta") \in MetaValues
  BY ReadAck, ReadMeta
<1>3. HasRead(p, "ack") \in [Processes -> Memories] /\ HasRead(p, "meta") \in [Processes -> Memories]
  BY AfterReading DEF MemoryOK
<1>4. HasRead(p, "ack")[p].ack = Content(Read(p, "ack"))
  BY <1>1 DEF HasRead, Memories
<1>5. HasRead(p, "meta")[p].ack = memory[p].ack
  BY <1>1 DEF HasRead, Memories
<1>6. \A q \in Processes \ {p} : HasRead(p, "ack")[q] = memory[q] /\ HasRead(p, "meta")[q] = memory[q]
  BY <1>1 DEF HasRead
<1> QED BY <1>1, <1>3, <1>4, <1>5, <1>6 DEF Near

LEMMA NearWritten ==
    ASSUME NoticesInv, NEW a \in Activations, ProcessOf(a) \in Processes
    PROVE  /\ work[a].data \in MetaValues =>
                  /\ Near(HasWritten(a, "meta"), ProcessOf(a))
                  /\ HasWritten(a, "meta")[ProcessOf(a)].ack = memory[ProcessOf(a)].ack
           /\ work[a].data \in SUBSET Ids => Near(HasWritten(a, "ack"), ProcessOf(a))
<1>1. memory \in [Processes -> Memories]
  BY DEF NoticesInv, ShapeOK
<1>2. work[a].data \in MetaValues =>
          /\ Near(HasWritten(a, "meta"), ProcessOf(a))
          /\ HasWritten(a, "meta")[ProcessOf(a)].ack = memory[ProcessOf(a)].ack
  BY <1>1, States DEF HasWritten, Memories, Near
<1>3. work[a].data \in SUBSET Ids => Near(HasWritten(a, "ack"), ProcessOf(a))
  BY <1>1, States DEF HasWritten, Memories, Near
<1> QED BY <1>2, <1>3

LEMMA StructureContinues ==
    ASSUME NoticesInv, Structure, NEW a \in Activations, work[a] # NoWork, ProcessOf(a) \in Processes,
           NEW w, NEW m, Continues(a, w, m), Near(m, ProcessOf(a)), acknowledged' \in SUBSET Ids,
           EventOK(w, running[ProcessOf(a)], m[ProcessOf(a)].ack)
    PROVE  Structure'
<1> DEFINE p == ProcessOf(a)
<1>1. /\ work' = [work EXCEPT ![a] = w] /\ memory' = m /\ running' = running /\ known' = known
      /\ work \in [Activations -> Works]
  BY DEF Continues, NoticesInv, ShapeOK
<1>2. running[p] # "none"
  BY DEF Structure
<1>3. \A q \in Processes : running'[q] = "none" => memory'[q] = NoMemory
  BY <1>1, <1>2 DEF Structure, Near
<1>4. \A b \in Activations : work'[b] # NoWork => running'[ProcessOf(b)] # "none"
  BY <1>1, <1>2 DEF Structure
<1>5. \A b \in Activations : work'[b] # NoWork => work[b] # NoWork
  BY <1>1
<1>6. \A b, c \in Activations :
          /\ running'[ProcessOf(b)] = "command" /\ ProcessOf(b) = ProcessOf(c)
          /\ work'[b] # NoWork /\ work'[c] # NoWork
          => b = c
  BY <1>1, <1>5 DEF Structure
<1>7. ASSUME NEW b \in Activations
      PROVE  EventOK(work'[b], running'[ProcessOf(b)], memory'[ProcessOf(b)].ack)
  <2>1. CASE b = a
    BY <1>1, <2>1
  <2>2. CASE b # a /\ ProcessOf(b) # p
    <3>1. memory'[ProcessOf(b)] = memory[ProcessOf(b)]
      BY <1>1, <2>2 DEF Near, ProcessOf, Activations
    <3> QED BY <1>1, <2>2, <3>1 DEF Structure
  <2>3. CASE b # a /\ ProcessOf(b) = p
    <3>1. work'[b] = work[b] /\ EventOK(work[b], running[p], memory[p].ack)
      BY <1>1, <2>3 DEF Structure
    <3>2. work[b] # NoWork => running[p] # "command"
      BY <2>3 DEF Structure
    <3> QED BY <1>1, <2>3, <3>1, <3>2 DEF EventOK
  <2> QED BY <2>1, <2>2, <2>3
<1> QED BY <1>1, <1>3, <1>4, <1>6, <1>7 DEF Structure

LEMMA StructureLeaves ==
    ASSUME NoticesInv, Structure, NEW p \in Processes, NEW m, Near(m, p), Leaves(p, m),
           acknowledged' \in SUBSET Ids,
           \A b \in Activations : work'[b] = IF ProcessOf(b) = p THEN NoWork ELSE work[b]
    PROVE  Structure'
<1>1. /\ running' = [running EXCEPT ![p] = "none"]
      /\ memory' = [m EXCEPT ![p] = NoMemory] /\ known' = [known EXCEPT ![p] = {}]
  BY DEF Leaves
<1>2. /\ running' \in [Processes -> {"none", "command", "sandbox"}]
      /\ known' \in [Processes -> SUBSET Ids]
  BY <1>1 DEF Structure
<1>3. /\ memory'[p] = NoMemory /\ running'[p] = "none"
      /\ \A q \in Processes \ {p} : memory'[q] = memory[q] /\ running'[q] = running[q]
  BY <1>1 DEF Structure, Near
<1>4. \A b \in Activations : ProcessOf(b) \in Processes
  BY DEF ProcessOf, Activations
<1>5. \A q \in Processes : running'[q] = "none" => memory'[q] = NoMemory
  BY <1>3 DEF Structure
<1>6. \A b \in Activations : work'[b] # NoWork => running'[ProcessOf(b)] # "none"
  BY <1>3, <1>4 DEF Structure
<1>7. \A b, c \in Activations :
          /\ running'[ProcessOf(b)] = "command" /\ ProcessOf(b) = ProcessOf(c)
          /\ work'[b] # NoWork /\ work'[c] # NoWork
          => b = c
  BY <1>3, <1>4 DEF Structure
<1>8. ASSUME NEW b \in Activations
      PROVE  EventOK(work'[b], running'[ProcessOf(b)], memory'[ProcessOf(b)].ack)
  <2>1. CASE ProcessOf(b) = p
    BY <2>1, States DEF EventOK, Early, Writing
  <2>2. CASE ProcessOf(b) # p
    <3>1. EventOK(work[b], running[ProcessOf(b)], memory[ProcessOf(b)].ack)
      BY DEF Structure
    <3> QED BY <1>3, <1>4, <2>2, <3>1
  <2> QED BY <2>1, <2>2
<1> QED BY <1>2, <1>5, <1>6, <1>7, <1>8 DEF Structure

\* The end of an activation outside of a sandbox leaves nothing in its process.
LEMMA AloneEnds ==
    ASSUME NoticesInv, Structure, NEW a \in Activations, work[a] # NoWork, ProcessOf(a) \in Processes,
           NEW m, Ends(a, m), running[ProcessOf(a)] # "sandbox"
    PROVE  /\ Leaves(ProcessOf(a), m)
           /\ \A b \in Activations :
                 work'[b] = IF ProcessOf(b) = ProcessOf(a) THEN NoWork ELSE work[b]
<1>1. running[ProcessOf(a)] = "command"
  BY DEF Structure
<1>2. Leaves(ProcessOf(a), m) /\ work' = [work EXCEPT ![a] = NoWork]
  BY DEF Ends
<1>3. \A b \in Activations : ProcessOf(b) = ProcessOf(a) /\ b # a => work[b] = NoWork
  BY <1>1 DEF Structure
<1> QED BY <1>2, <1>3 DEF NoticesInv, ShapeOK

LEMMA StructureMoves ==
    ASSUME NoticesInv, Structure, NEW a \in Activations, work[a] # NoWork, ProcessOf(a) \in Processes,
           NEW w, NEW m, Continues(a, w, m) \/ Ends(a, m), Near(m, ProcessOf(a)),
           acknowledged' \in SUBSET Ids, EventOK(w, running[ProcessOf(a)], m[ProcessOf(a)].ack)
    PROVE  Structure'
<1>1. CASE Continues(a, w, m)
  BY <1>1, StructureContinues
<1>2. CASE Continues(a, NoWork, m)
  <2>1. EventOK(NoWork, running[ProcessOf(a)], m[ProcessOf(a)].ack)
    BY States DEF EventOK, Writing
  <2> QED BY <1>2, <2>1, StructureContinues
<1>3. CASE Ends(a, m) /\ running[ProcessOf(a)] # "sandbox"
  <2>1. /\ Leaves(ProcessOf(a), m)
        /\ \A b \in Activations :
              work'[b] = IF ProcessOf(b) = ProcessOf(a) THEN NoWork ELSE work[b]
    BY <1>3, AloneEnds
  <2> QED BY <2>1, StructureLeaves
<1> QED BY <1>1, <1>2, <1>3 DEF Ends

\* A step that neither begins nor ends a write of acknowledgements.
LEMMA QuietStep ==
    ASSUME Calm, reappeared' = {}, acknowledged' = acknowledged, disk'.ack = disk.ack,
           \A b \in Activations :
              /\ work'[b].pc \in Writing => work'[b] = work[b]
              /\ work[b].pc = "acking" => work'[b] = work[b]
              /\ ShowOK(work'[b], known'[ProcessOf(b)]),
           \A q \in Processes :
              /\ known'[q] \subseteq acknowledged
              /\ memory'[q].ack # Absent => known'[q] \subseteq memory'[q].ack.value
    PROVE  Calm'
<1>1. \A a, b \in Activations : work'[a].pc \in Writing /\ work'[b].pc \in Writing => a = b
  BY DEF Calm
<1>2. \A a \in Activations : WriteOK(work[a])'
  BY DEF Calm, WriteOK
<1>3. \A a \in Activations : ShowOK(work[a], known[ProcessOf(a)])'
  BY DEF ShowOK
<1>4. disk'.ack = Torn <=> \E a \in Activations : work'[a].pc = "acking"
  BY DEF Calm, Writing
<1>5. disk'.ack # Torn => acknowledged' \subseteq OnDisk'
  BY DEF Calm, OnDisk
<1> QED BY <1>1, <1>2, <1>3, <1>4, <1>5 DEF Calm

\* What an activation that goes on quietly, or ends, is at and has read.
LEMMA QuietMove ==
    ASSUME NoticesInv, Structure, Calm, NEW a \in Activations, work[a] # NoWork,
           ProcessOf(a) \in Processes, work[a].pc # "acking",
           NEW w, NEW m, Continues(a, w, m) \/ Ends(a, m), Near(m, ProcessOf(a)),
           w.pc \notin Writing, ShowOK(w, known[ProcessOf(a)]),
           m[ProcessOf(a)].ack # Absent => known[ProcessOf(a)] \subseteq m[ProcessOf(a)].ack.value,
           reappeared' = {}, acknowledged' = acknowledged, disk'.ack = disk.ack
    PROVE  Calm'
<1> DEFINE p == ProcessOf(a)
<1>0. ShowOK(NoWork, {}) /\ ShowOK(NoWork, known[p]) /\ NoWork.pc \notin Writing
      /\ NoMemory.ack = Absent
  BY States DEF ShowOK, Writing, NoMemory
<1>1. ASSUME NEW x, x.pc \notin Writing, ShowOK(x, known[p]), Continues(a, x, m) PROVE Calm'
  <2>1. /\ work' = [work EXCEPT ![a] = x] /\ memory' = m /\ known' = known
        /\ work \in [Activations -> Works]
    BY <1>1 DEF Continues, NoticesInv, ShapeOK
  <2>2. ASSUME NEW b \in Activations
        PROVE  /\ work'[b].pc \in Writing => work'[b] = work[b]
               /\ work[b].pc = "acking" => work'[b] = work[b]
               /\ ShowOK(work'[b], known'[ProcessOf(b)])
    BY <1>1, <2>1 DEF Calm
  <2>3. ASSUME NEW q \in Processes
        PROVE  /\ known'[q] \subseteq acknowledged
               /\ memory'[q].ack # Absent => known'[q] \subseteq memory'[q].ack.value
    <3>1. CASE q = p
      BY <2>1, <3>1 DEF Calm
    <3>2. CASE q # p
      BY <2>1, <3>2 DEF Calm, Near
    <3> QED BY <3>1, <3>2
  <2> QED BY <2>2, <2>3, QuietStep
<1>2. CASE Ends(a, m) /\ running[p] # "sandbox"
  <2>1. /\ Leaves(p, m)
        /\ \A b \in Activations : work'[b] = IF ProcessOf(b) = p THEN NoWork ELSE work[b]
    BY <1>2, AloneEnds
  <2>2. /\ memory' = [m EXCEPT ![p] = NoMemory] /\ known' = [known EXCEPT ![p] = {}]
        /\ known \in [Processes -> SUBSET Ids]
    BY <2>1 DEF Leaves, Structure
  <2>3. running[p] = "command" /\ \A b \in Activations : ProcessOf(b) \in Processes
    BY <1>2 DEF Structure, ProcessOf, Activations
  <2>4. ASSUME NEW b \in Activations
        PROVE  /\ work'[b].pc \in Writing => work'[b] = work[b]
               /\ work[b].pc = "acking" => work'[b] = work[b]
               /\ ShowOK(work'[b], known'[ProcessOf(b)])
    <3>1. CASE ProcessOf(b) = p
      <4>1. work'[b] = NoWork /\ known'[ProcessOf(b)] = {}
        BY <2>1, <2>2, <3>1
      <4>2. work[b].pc # "acking"
        <5>1. b = a \/ work[b] = NoWork
          BY <2>3, <3>1 DEF Structure
        <5> QED BY <5>1, States
      <4> QED BY <1>0, <4>1, <4>2
    <3>2. CASE ProcessOf(b) # p
      BY <2>1, <2>2, <2>3, <3>2 DEF Calm
    <3> QED BY <3>1, <3>2
  <2>5. ASSUME NEW q \in Processes
        PROVE  /\ known'[q] \subseteq acknowledged
               /\ memory'[q].ack # Absent => known'[q] \subseteq memory'[q].ack.value
    <3>1. CASE q = p
      BY <2>2, <3>1
    <3>2. CASE q # p
      <4>1. memory'[q] = memory[q] /\ known'[q] = known[q]
        BY <2>2, <3>2 DEF Near
      <4> QED BY <4>1 DEF Calm
    <3> QED BY <3>1, <3>2
  <2> QED BY <2>4, <2>5, QuietStep
<1>3. CASE Continues(a, w, m)
  BY <1>1, <1>3
<1>4. CASE Continues(a, NoWork, m)
  BY <1>0, <1>1, <1>4
<1> QED BY <1>2, <1>3, <1>4 DEF Ends

LEMMA Moves ==
    ASSUME AckInv, NoticesInv', NEW a \in Activations, work[a].pc \in Steps \ {"acking"},
           NEW w, NEW m, Continues(a, w, m) \/ Ends(a, m), Near(m, ProcessOf(a)),
           w.pc \notin Writing, EventOK(w, running[ProcessOf(a)], m[ProcessOf(a)].ack),
           acknowledged' = acknowledged, disk'.ack = disk.ack, disturbed' \in BOOLEAN,
           disturbed' = FALSE =>
               /\ disturbed = FALSE /\ reappeared' = {}
               /\ ShowOK(w, known[ProcessOf(a)])
               /\ m[ProcessOf(a)].ack # Absent =>
                     known[ProcessOf(a)] \subseteq m[ProcessOf(a)].ack.value
    PROVE  AckInv'
<1>1. work[a] # NoWork /\ ProcessOf(a) \in Processes
  BY Working DEF AckInv
<1>2. Structure'
  BY <1>1, StructureMoves DEF AckInv, Structure
<1>3. disturbed' = FALSE => Calm'
  BY <1>1, QuietMove DEF AckInv
<1> QED BY <1>2, <1>3 DEF AckInv

-----------------------------------------------------------------------------
(* Processes and the world around them. *)

LEMMA EventsApart ==
    \A event \in {"postCommand", "postDeployment", "list", "listAll"} : event \notin Ids
  BY IdsAssumption

LEMMA TickAck == AckInv /\ NoticesInv' /\ Tick => AckInv'
<1> SUFFICES ASSUME AckInv, NoticesInv', Tick PROVE AckInv'
  OBVIOUS
<1>1. /\ disk' = disk /\ running' = running /\ memory' = memory /\ work' = work /\ known' = known
      /\ acknowledged' = acknowledged /\ reappeared' = reappeared /\ disturbed' = disturbed
  BY DEF Tick, ghosts
<1>2. Structure'
  BY <1>1 DEF AckInv, Structure, EventOK
<1>3. Calm => Calm'
  BY <1>1 DEF Calm, WriteOK, ShowOK, OnDisk
<1> QED BY <1>1, <1>2, <1>3 DEF AckInv

LEMMA StartProcessAck ==
    ASSUME AckInv, NoticesInv', NEW p \in Processes, NEW kind \in {"command", "sandbox"},
           NEW event \in Events, StartProcess(p, kind, event)
    PROVE  AckInv'
<1>1. PICK slot \in Slots : Starts(<<p, slot>>, event)
  BY DEF StartProcess
<1> DEFINE a == <<p, slot>>
           w == [pc |-> "fetch", event |-> event, notices |-> {}, data |-> {}]
<1>2. a \in Activations /\ ProcessOf(a) = p /\ \A b \in Activations : ProcessOf(b) \in Processes
  BY DEF Activations, ProcessOf
<1>3. /\ running[p] = "none" /\ running' = [running EXCEPT ![p] = kind]
      /\ known' = [known EXCEPT ![p] = acknowledged] /\ (event \in Ids => kind = "command")
  BY DEF StartProcess
<1>4. /\ work' = [work EXCEPT ![a] = w] /\ memory' = memory /\ disk' = disk
      /\ acknowledged' = acknowledged /\ reappeared' = reappeared /\ disturbed' = disturbed
      /\ work \in [Activations -> Works]
  BY <1>1 DEF Starts, AckInv, NoticesInv, ShapeOK
<1>5. w.pc = "fetch" /\ w.event = event /\ w # NoWork
  BY States
<1> HIDE DEF w
<1>6. /\ memory[p] = NoMemory /\ NoMemory.ack = Absent
      /\ \A b \in Activations : ProcessOf(b) = p => work[b] = NoWork
  BY <1>2, <1>3 DEF AckInv, Structure, NoMemory
<1>7. Structure'
  <2>1. /\ running' \in [Processes -> {"none", "command", "sandbox"}]
        /\ known' \in [Processes -> SUBSET Ids] /\ acknowledged' \in SUBSET Ids
    BY <1>3, <1>4 DEF AckInv, Structure
  <2>2. /\ \A q \in Processes : running'[q] = "none" => memory'[q] = NoMemory
        /\ \A b \in Activations : work'[b] # NoWork => running'[ProcessOf(b)] # "none"
    BY <1>2, <1>3, <1>4 DEF AckInv, Structure
  <2>3. \A b, c \in Activations :
            /\ running'[ProcessOf(b)] = "command" /\ ProcessOf(b) = ProcessOf(c)
            /\ work'[b] # NoWork /\ work'[c] # NoWork
            => b = c
    BY <1>2, <1>3, <1>4, <1>6 DEF AckInv, Structure
  <2>4. ASSUME NEW b \in Activations
        PROVE  EventOK(work'[b], running'[ProcessOf(b)], memory'[ProcessOf(b)].ack)
    <3>1. CASE b = a
      <4>1. work'[b] = w /\ running'[ProcessOf(b)] = kind /\ memory'[ProcessOf(b)].ack = Absent
        BY <1>2, <1>3, <1>4, <1>6, <3>1 DEF AckInv, Structure
      <4> QED BY <1>3, <1>5, <4>1 DEF EventOK, Early, Writing
    <3>2. CASE b # a /\ ProcessOf(b) = p
      <4>1. work'[b] = NoWork
        BY <1>4, <1>6, <3>2
      <4> QED BY <4>1, States DEF EventOK, Early, Writing
    <3>3. CASE ProcessOf(b) # p
      BY <1>2, <1>3, <1>4, <3>3 DEF AckInv, Structure
    <3> QED BY <3>1, <3>2, <3>3
  <2> QED BY <2>1, <2>2, <2>3, <2>4 DEF Structure
<1>8. disturbed' = FALSE => Calm'
  <2> SUFFICES ASSUME disturbed' = FALSE PROVE Calm'
    OBVIOUS
  <2>1. Calm
    BY <1>4 DEF AckInv
  <2>2. ASSUME NEW b \in Activations
        PROVE  /\ work'[b].pc \in Writing => work'[b] = work[b]
               /\ work[b].pc = "acking" => work'[b] = work[b]
               /\ ShowOK(work'[b], known'[ProcessOf(b)])
    <3>1. CASE b = a
      BY <1>2, <1>4, <1>5, <1>6, <3>1, States DEF ShowOK, Writing
    <3>2. CASE b # a /\ ProcessOf(b) = p
      BY <1>4, <1>6, <3>2, States DEF ShowOK, Writing
    <3>3. CASE ProcessOf(b) # p
      BY <1>2, <1>3, <1>4, <2>1, <3>3 DEF Calm
    <3> QED BY <3>1, <3>2, <3>3
  <2>3. ASSUME NEW q \in Processes
        PROVE  /\ known'[q] \subseteq acknowledged
               /\ memory'[q].ack # Absent => known'[q] \subseteq memory'[q].ack.value
    BY <1>3, <1>4, <1>6, <2>1 DEF Calm, AckInv, Structure
  <2>4. reappeared' = {} /\ acknowledged' = acknowledged /\ disk'.ack = disk.ack
    BY <1>4, <2>1 DEF Calm
  <2> QED BY <2>1, <2>2, <2>3, <2>4, QuietStep
<1> QED BY <1>4, <1>7, <1>8 DEF AckInv

LEMMA ActivateAck ==
    ASSUME AckInv, NoticesInv', NEW a \in Activations, NEW event \in Events, Activate(a, event)
    PROVE  AckInv'
<1> DEFINE p == ProcessOf(a)
           w == [pc |-> "fetch", event |-> event, notices |-> {}, data |-> {}]
<1>1. p \in Processes /\ \A b \in Activations : ProcessOf(b) \in Processes
  BY DEF Activations, ProcessOf
<1>2. /\ running[p] = "sandbox" /\ work[a] = NoWork /\ event \notin Ids
      /\ running' = running /\ known' = known
  BY EventsApart DEF Activate, Idle
<1>3. /\ work' = [work EXCEPT ![a] = w] /\ memory' = memory /\ disk' = disk
      /\ acknowledged' = acknowledged /\ reappeared' = reappeared /\ disturbed' = disturbed
      /\ work \in [Activations -> Works]
  BY DEF Activate, Starts, AckInv, NoticesInv, ShapeOK
<1>4. w.pc = "fetch" /\ w.event = event
  OBVIOUS
<1> HIDE DEF w
<1>5. Structure'
  <2>1. /\ \A q \in Processes : running'[q] = "none" => memory'[q] = NoMemory
        /\ \A b \in Activations : work'[b] # NoWork => running'[ProcessOf(b)] # "none"
    BY <1>1, <1>2, <1>3 DEF AckInv, Structure
  <2>2. \A b, c \in Activations :
            /\ running'[ProcessOf(b)] = "command" /\ ProcessOf(b) = ProcessOf(c)
            /\ work'[b] # NoWork /\ work'[c] # NoWork
            => b = c
    BY <1>1, <1>2, <1>3 DEF AckInv, Structure
  <2>3. ASSUME NEW b \in Activations
        PROVE  EventOK(work'[b], running'[ProcessOf(b)], memory'[ProcessOf(b)].ack)
    <3>1. CASE b = a
      BY <1>2, <1>3, <1>4, <3>1 DEF EventOK, Writing
    <3>2. CASE b # a
      BY <1>2, <1>3, <3>2 DEF AckInv, Structure
    <3> QED BY <3>1, <3>2
  <2> QED BY <1>2, <1>3, <2>1, <2>2, <2>3 DEF AckInv, Structure
<1>6. disturbed' = FALSE => Calm'
  <2> SUFFICES ASSUME disturbed' = FALSE PROVE Calm'
    OBVIOUS
  <2>1. Calm
    BY <1>3 DEF AckInv
  <2>2. ASSUME NEW b \in Activations
        PROVE  /\ work'[b].pc \in Writing => work'[b] = work[b]
               /\ work[b].pc = "acking" => work'[b] = work[b]
               /\ ShowOK(work'[b], known'[ProcessOf(b)])
    <3>1. CASE b = a
      BY <1>2, <1>3, <1>4, <3>1, States DEF ShowOK, Writing
    <3>2. CASE b # a
      BY <1>2, <1>3, <2>1, <3>2 DEF Calm
    <3> QED BY <3>1, <3>2
  <2>3. ASSUME NEW q \in Processes
        PROVE  /\ known'[q] \subseteq acknowledged
               /\ memory'[q].ack # Absent => known'[q] \subseteq memory'[q].ack.value
    BY <1>2, <1>3, <2>1 DEF Calm
  <2>4. reappeared' = {} /\ acknowledged' = acknowledged /\ disk'.ack = disk.ack
    BY <1>3, <2>1 DEF Calm
  <2> QED BY <2>1, <2>2, <2>3, <2>4, QuietStep
<1> QED BY <1>3, <1>5, <1>6 DEF AckInv

\* A process that is killed in the middle of a write disturbs the rest.
LEMMA StoppedAck ==
    ASSUME AckInv, NoticesInv', NEW p \in Processes, Stopped(p)
    PROVE  AckInv'
<1> DEFINE killed == {work[a].pc : a \in {b \in Activations : ProcessOf(b) = p}}
<1>1. /\ Leaves(p, memory) /\ disk' = disk /\ acknowledged' = acknowledged
      /\ reappeared' = reappeared
      /\ \A b \in Activations : work'[b] = IF ProcessOf(b) = p THEN NoWork ELSE work[b]
      /\ \A b \in Activations : ProcessOf(b) \in Processes
  BY DEF Stopped, Activations, ProcessOf
<1>2. disturbed' \in BOOLEAN /\ (disturbed' = FALSE => disturbed = FALSE /\ "acking" \notin killed)
  <2>1. disturbed' = (disturbed \/ "acking" \in killed)
    BY DEF Stopped
  <2> HIDE DEF killed
  <2> QED BY <2>1 DEF AckInv
<1>3. Structure'
  BY <1>1, NearMemories, StructureLeaves DEF AckInv, Structure
<1>4. ASSUME disturbed' = FALSE PROVE Calm'
  <2>1. Calm
    BY <1>2, <1>4 DEF AckInv
  <2>2. /\ memory' = [memory EXCEPT ![p] = NoMemory] /\ known' = [known EXCEPT ![p] = {}]
        /\ known \in [Processes -> SUBSET Ids] /\ memory \in [Processes -> Memories]
        /\ NoMemory.ack = Absent
    BY <1>1 DEF Leaves, AckInv, Structure, NoticesInv, ShapeOK, NoMemory
  <2>3. ASSUME NEW b \in Activations
        PROVE  /\ work'[b].pc \in Writing => work'[b] = work[b]
               /\ work[b].pc = "acking" => work'[b] = work[b]
               /\ ShowOK(work'[b], known'[ProcessOf(b)])
    <3>1. CASE ProcessOf(b) = p
      BY <1>1, <1>2, <1>4, <3>1, States DEF ShowOK, Writing
    <3>2. CASE ProcessOf(b) # p
      BY <1>1, <2>1, <2>2, <3>2 DEF Calm
    <3> QED BY <3>1, <3>2
  <2>4. ASSUME NEW q \in Processes
        PROVE  /\ known'[q] \subseteq acknowledged
               /\ memory'[q].ack # Absent => known'[q] \subseteq memory'[q].ack.value
    BY <2>1, <2>2 DEF Calm
  <2>5. reappeared' = {} /\ acknowledged' = acknowledged /\ disk'.ack = disk.ack
    BY <1>1, <2>1 DEF Calm
  <2> QED BY <2>1, <2>3, <2>4, <2>5, QuietStep
<1> QED BY <1>2, <1>3, <1>4 DEF AckInv

-----------------------------------------------------------------------------
(* NoticesManifestFetcher. *)

\* What is known of an activation at work and its process.
LEMMA AtItsPoint ==
    ASSUME AckInv, NEW a \in Activations, work[a].pc \in Steps
    PROVE  /\ NoticesInv
           /\ ProcessOf(a) \in Processes /\ work[a] \in AtWork /\ work[a] # NoWork
           /\ EventOK(work[a], running[ProcessOf(a)], memory[ProcessOf(a)].ack)
           /\ disturbed = FALSE =>
                 /\ reappeared = {}
                 /\ ShowOK(work[a], known[ProcessOf(a)])
                 /\ memory[ProcessOf(a)].ack # Absent =>
                       known[ProcessOf(a)] \subseteq memory[ProcessOf(a)].ack.value
<1>1. NoticesInv /\ work[a] \in AtWork /\ work[a] # NoWork /\ ProcessOf(a) \in Processes
  BY Working DEF AckInv
<1>2. EventOK(work[a], running[ProcessOf(a)], memory[ProcessOf(a)].ack)
  BY DEF AckInv, Structure
<1>3. disturbed = FALSE => Calm
  BY DEF AckInv
<1> QED BY <1>1, <1>2, <1>3 DEF Calm

LEMMA FetchedGoesOn ==
    ASSUME NEW w \in AtWork, w # NoWork, NEW kind, NEW ack, EventOK(w, kind, ack), w.pc \in Early,
           NEW manifest
    PROVE  /\ Fetched(w, manifest).pc \notin Writing
           /\ EventOK(Fetched(w, manifest), kind, ack)
           /\ \A before : ShowOK(Fetched(w, manifest), before)
<1> DEFINE next(point) == [w EXCEPT !.pc = point, !.notices = manifest, !.data = {}]
<1>1. \A point : next(point).pc = point /\ next(point).event = w.event
  BY DEF AtWork
<1>2. CASE w.event \in Ids
  <2>1. w.event # "listAll"
    BY <1>2, EventsApart
  <2>2. Fetched(w, manifest) = next("acknowledge")
    BY <1>2, <2>1 DEF Fetched
  <2> HIDE DEF next
  <2> QED BY <1>1, <1>2, <2>2 DEF EventOK, Early, Writing, ShowOK
<1>3. CASE w.event = "listAll" /\ w.event \notin Ids
  <2>1. Fetched(w, manifest) = next("show")
    BY <1>3 DEF Fetched
  <2> HIDE DEF next
  <2> QED BY <1>1, <1>3, <2>1 DEF EventOK, Early, Writing, ShowOK
<1>4. CASE w.event # "listAll" /\ w.event \notin Ids
  <2>1. Fetched(w, manifest) = next("filter")
    BY <1>4 DEF Fetched
  <2> HIDE DEF next
  <2> QED BY <1>1, <1>4, <2>1 DEF EventOK, Early, Writing, ShowOK
<1> QED BY <1>2, <1>3, <1>4

\* Another point of the same activation, in which nothing is shown or written.
LEMMA GoesOn ==
    ASSUME NEW w, w # NoWork, NEW next, next.event = w.event, NEW kind, NEW ack,
           EventOK(w, kind, ack), w.pc \in Early \union {"filter", "record"},
           next.pc \notin Writing \union {"acknowledge", "show"},
           w.pc \in Early => next.pc \in Early
    PROVE  next.pc \notin Writing /\ EventOK(next, kind, ack) /\ \A before : ShowOK(next, before)
<1>1. w.event \in Ids => w.pc \in Early
  BY DEF EventOK, Early, Writing
<1> QED BY <1>1 DEF EventOK, ShowOK

LEMMA FetchManifestAck ==
    ASSUME AckInv, NoticesInv', NEW a \in Activations, FetchManifest(a)
    PROVE  AckInv'
<1> DEFINE p == ProcessOf(a)
           m == Read(p, "meta")
           loaded == [HasRead(p, "meta") EXCEPT ![p].manifest = m.manifest,
                                                ![p].refreshedAt = m.refreshedAt]
           asking == [work[a] EXCEPT !.pc = "network"]
<1>0. work[a].pc = "fetch" /\ work[a].pc \in Steps \ {"acking"} /\ work[a].pc \in Early
  BY DEF FetchManifest, Steps, Early
<1>1. /\ NoticesInv /\ p \in Processes /\ work[a] \in AtWork /\ work[a] # NoWork
      /\ EventOK(work[a], running[p], memory[p].ack)
      /\ disturbed = FALSE =>
            reappeared = {} /\ (memory[p].ack # Absent => known[p] \subseteq memory[p].ack.value)
  BY <1>0, AtItsPoint
<1>2. Near(memory, p)
  BY <1>1, NearMemories
<1>3. Near(loaded, p) /\ loaded[p].ack = memory[p].ack
  <2>1. /\ m \in MetaValues /\ Near(HasRead(p, "meta"), p)
        /\ HasRead(p, "meta")[p].ack = memory[p].ack
    BY <1>1, ReadMeta, NearMemories
  <2>2. m.manifest \in SUBSET Ids /\ m.refreshedAt \in Nat
    BY <2>1 DEF MetaValues
  <2> HIDE DEF m, p
  <2> QED BY <1>1, <2>1, <2>2 DEF Near, Memories
<1>4. /\ asking.pc \notin Writing /\ EventOK(asking, running[p], memory[p].ack)
      /\ ShowOK(asking, known[p])
  <2>1. asking.pc = "network" /\ asking.event = work[a].event
    BY <1>1 DEF AtWork
  <2> HIDE DEF asking
  <2>2. asking.pc \notin Writing \union {"acknowledge", "show"} /\ asking.pc \in Early
    BY <2>1 DEF Writing, Early
  <2> QED BY <1>0, <1>1, <2>1, <2>2, GoesOn
<1>5. \A manifest : /\ Fetched(work[a], manifest).pc \notin Writing
                    /\ EventOK(Fetched(work[a], manifest), running[p], memory[p].ack)
                    /\ ShowOK(Fetched(work[a], manifest), known[p])
  BY <1>0, <1>1, FetchedGoesOn
<1>6. \E w, mm : /\ Continues(a, w, mm) /\ Near(mm, p) /\ mm[p].ack = memory[p].ack
                 /\ w.pc \notin Writing /\ EventOK(w, running[p], memory[p].ack)
                 /\ ShowOK(w, known[p])
  <2>1. \/ Continues(a, Fetched(work[a], memory[p].manifest), memory)
        \/ Continues(a, Fetched(work[a], m.manifest), loaded)
        \/ Continues(a, asking, loaded)
    BY DEF FetchManifest
  <2> HIDE DEF loaded, asking, m, p
  <2> QED BY <1>2, <1>3, <1>4, <1>5, <2>1
<1>7. acknowledged' = acknowledged /\ disk' = disk /\ disturbed' = disturbed
      /\ reappeared' = reappeared /\ disturbed \in BOOLEAN
  BY DEF FetchManifest, ghosts, AckInv
<1> HIDE DEF p
<1> QED BY <1>0, <1>1, <1>6, <1>7, Moves DEF p

LEMMA FetchFailsAck ==
    ASSUME AckInv, NoticesInv', NEW a \in Activations, FetchFails(a)
    PROVE  AckInv'
<1> DEFINE p == ProcessOf(a)
<1>0. work[a].pc \in Steps \ {"acking"}
  BY DEF FetchFails, Steps
<1>1. /\ NoticesInv /\ p \in Processes
      /\ disturbed = FALSE =>
            reappeared = {} /\ (memory[p].ack # Absent => known[p] \subseteq memory[p].ack.value)
  BY <1>0, AtItsPoint
<1>2. /\ NoWork.pc \notin Writing /\ EventOK(NoWork, running[p], memory[p].ack)
      /\ ShowOK(NoWork, known[p])
  BY States DEF EventOK, Writing, ShowOK
<1>3. acknowledged' = acknowledged /\ disk' = disk /\ disturbed' = disturbed
      /\ reappeared' = reappeared /\ disturbed \in BOOLEAN
  BY DEF FetchFails, ghosts, AckInv
<1>4. Ends(a, memory) /\ Near(memory, p)
  BY <1>1, NearMemories DEF FetchFails
<1> QED BY <1>0, <1>1, <1>2, <1>3, <1>4, Moves

LEMMA ManifestFetchedAck ==
    ASSUME AckInv, NoticesInv', NEW a \in Activations, ManifestFetched(a)
    PROVE  AckInv'
<1> DEFINE p == ProcessOf(a)
           metadata == [Read(p, "meta") EXCEPT !.manifest = published, !.refreshedAt = clock]
           next == [work[a] EXCEPT !.pc = "caching", !.data = metadata]
           loaded == [HasRead(p, "meta") EXCEPT ![p].manifest = published,
                                                ![p].refreshedAt = clock]
<1>0. work[a].pc \in Steps \ {"acking"} /\ work[a].pc \in Early
  BY DEF ManifestFetched, Steps, Early
<1>1. /\ NoticesInv /\ p \in Processes /\ work[a] \in AtWork /\ work[a] # NoWork
      /\ EventOK(work[a], running[p], memory[p].ack)
      /\ disturbed = FALSE =>
            reappeared = {} /\ (memory[p].ack # Absent => known[p] \subseteq memory[p].ack.value)
  BY <1>0, AtItsPoint
<1>2. Near(loaded, p) /\ loaded[p].ack = memory[p].ack
  <2>1. Near(HasRead(p, "meta"), p) /\ HasRead(p, "meta")[p].ack = memory[p].ack
    BY <1>1, NearMemories
  <2>2. published \in SUBSET Ids /\ clock \in Nat
    BY <1>1 DEF NoticesInv, ShapeOK
  <2> HIDE DEF p
  <2> QED BY <1>1, <2>1, <2>2 DEF Near, Memories
<1>3. /\ next.pc \notin Writing /\ EventOK(next, running[p], memory[p].ack)
      /\ ShowOK(next, known[p])
  <2> HIDE DEF metadata
  <2>1. next.pc = "caching" /\ next.event = work[a].event
    BY <1>1 DEF AtWork
  <2> HIDE DEF next
  <2>2. next.pc \notin Writing \union {"acknowledge", "show"} /\ next.pc \in Early
    BY <2>1 DEF Writing, Early
  <2> QED BY <1>0, <1>1, <2>1, <2>2, GoesOn
<1>4. Continues(a, next, loaded)
  BY DEF ManifestFetched
<1>5. acknowledged' = acknowledged /\ disturbed' = disturbed
      /\ reappeared' = reappeared /\ disturbed \in BOOLEAN
  BY DEF ManifestFetched, ghosts, AckInv
<1>6. disk'.ack = disk.ack
  BY <1>1 DEF ManifestFetched, Truncated, NoticesInv, ShapeOK, Disks
<1> HIDE DEF next, loaded
<1> QED BY <1>0, <1>1, <1>2, <1>3, <1>4, <1>5, <1>6, Moves

\* The write of the metadata leaves the acknowledgements alone.
LEMMA MetaWritten ==
    ASSUME NoticesInv, NEW a \in Activations, Written(a, "meta")
    PROVE  disk'.ack = disk.ack
  BY DEF Written, NoticesInv, ShapeOK, Disks

LEMMA ManifestCachedAck ==
    ASSUME AckInv, NoticesInv', NEW a \in Activations, ManifestCached(a)
    PROVE  AckInv'
<1> DEFINE p == ProcessOf(a)
           next == Fetched(work[a], memory[p].manifest)
           m == HasWritten(a, "meta")
<1>0. work[a].pc \in Steps \ {"acking"} /\ work[a].pc \in Early /\ work[a].pc = "caching"
  BY DEF ManifestCached, Steps, Early
<1>1. /\ NoticesInv /\ p \in Processes /\ work[a] \in AtWork /\ work[a] # NoWork
      /\ EventOK(work[a], running[p], memory[p].ack)
      /\ disturbed = FALSE =>
            reappeared = {} /\ (memory[p].ack # Absent => known[p] \subseteq memory[p].ack.value)
  BY <1>0, AtItsPoint
<1>2. Near(m, p) /\ m[p].ack = memory[p].ack
  <2>1. work[a].data \in MetaValues
    BY <1>0, <1>1 DEF NoticesInv, HonestInv, WorkOK
  <2> QED BY <1>1, <2>1, NearWritten
<1>3. /\ next.pc \notin Writing /\ EventOK(next, running[p], memory[p].ack)
      /\ ShowOK(next, known[p])
  BY <1>0, <1>1, FetchedGoesOn
<1>4. Continues(a, next, m) /\ disk'.ack = disk.ack
  BY <1>1, MetaWritten DEF ManifestCached
<1>5. acknowledged' = acknowledged /\ disturbed' = disturbed
      /\ reappeared' = reappeared /\ disturbed \in BOOLEAN
  BY DEF ManifestCached, ghosts, AckInv
<1> HIDE DEF next, m
<1> QED BY <1>0, <1>1, <1>2, <1>3, <1>4, <1>5, Moves

-----------------------------------------------------------------------------
(* NoticesController and NoticesRenderer. *)

\* What is read from the file contains all that was acknowledged, and what a
\* process has of it what was acknowledged before it started, unless it is torn.
LEMMA ReadAll ==
    ASSUME NoticesInv, Calm, NEW p \in Processes, memory[p].ack = Absent, disk.ack # Torn
    PROVE  acknowledged \subseteq Read(p, "ack")
<1>1. acknowledged \subseteq OnDisk
  BY DEF Calm
<1>2. CASE disk.ack = Absent
  BY <1>1, <1>2 DEF OnDisk
<1>3. CASE disk.ack # Absent
  <2>1. disk.ack \in Contents(SUBSET Ids)
    BY <1>3 DEF NoticesInv, ShapeOK, Disks
  <2>2. disk.ack.state = "content"
    BY <2>1 DEF Contents
  <2>3. Read(p, "ack") = disk.ack.value
    BY <2>2 DEF Read
  <2> QED BY <1>1, <1>3, <2>3 DEF OnDisk
<1> QED BY <1>2, <1>3

LEMMA ReadKnown ==
    ASSUME NoticesInv, Calm, NEW p \in Processes, memory[p].ack # Absent \/ disk.ack # Torn
    PROVE  known[p] \subseteq Read(p, "ack")
<1>1. CASE memory[p].ack # Absent
  <2>1. Read(p, "ack") = memory[p].ack.value
    BY <1>1 DEF Read
  <2> QED BY <1>1, <2>1 DEF Calm
<1>2. CASE memory[p].ack = Absent /\ disk.ack # Torn
  BY <1>2, ReadAll DEF Calm
<1> QED BY <1>1, <1>2

LEMMA FilterAcknowledgedAck ==
    ASSUME AckInv, NoticesInv', NEW a \in Activations, FilterAcknowledged(a)
    PROVE  AckInv'
<1> DEFINE p == ProcessOf(a)
           acks == Read(p, "ack")
           next == [work[a] EXCEPT !.pc = "show", !.notices = @ \ acks]
           m == HasRead(p, "ack")
<1>0. work[a].pc \in Steps \ {"acking"} /\ work[a].pc = "filter"
  BY DEF FilterAcknowledged, Steps
<1>1. /\ NoticesInv /\ p \in Processes /\ work[a] \in AtWork /\ work[a] # NoWork
      /\ EventOK(work[a], running[p], memory[p].ack)
      /\ disturbed = FALSE => reappeared = {}
  BY <1>0, AtItsPoint
<1>2. Near(m, p) /\ m[p].ack = Content(acks)
  BY <1>1, NearMemories
<1>3. /\ next.pc = "show" /\ next.event = work[a].event
      /\ next.notices = work[a].notices \ acks
  <2> HIDE DEF acks
  <2> QED BY <1>1 DEF AtWork
<1>4. next.pc \notin Writing /\ EventOK(next, running[p], m[p].ack)
  <2>1. work[a].event \notin Ids
    BY <1>0, <1>1 DEF EventOK, Early, Writing
  <2> HIDE DEF next
  <2> QED BY <1>3, <2>1 DEF EventOK, Writing
<1>5. /\ disturbed' \in BOOLEAN
      /\ disturbed' = FALSE => disturbed = FALSE /\ (memory[p].ack # Absent \/ disk.ack # Torn)
  <2>1. disturbed' = (disturbed \/ (memory[p].ack = Absent /\ disk.ack = Torn))
    BY DEF FilterAcknowledged
  <2> QED BY <2>1 DEF AckInv
<1>6. disturbed' = FALSE => known[p] \subseteq acks
  BY <1>1, <1>5, ReadKnown DEF AckInv
<1>7. disturbed' = FALSE => ShowOK(next, known[p]) /\ known[p] \subseteq m[p].ack.value
  <2> HIDE DEF next, m, acks
  <2> QED BY <1>2, <1>3, <1>6, States DEF ShowOK
<1>8. Continues(a, next, m) /\ disk'.ack = disk.ack /\ acknowledged' = acknowledged
      /\ reappeared' = reappeared
  BY DEF FilterAcknowledged
<1> HIDE DEF next, m
<1> QED BY <1>0, <1>1, <1>2, <1>4, <1>5, <1>7, <1>8, Moves

LEMMA ShowAck ==
    ASSUME AckInv, NoticesInv', NEW a \in Activations, Show(a)
    PROVE  AckInv'
<1> DEFINE p == ProcessOf(a)
           event == work[a].event
           included == {n \in work[a].notices : Included(event, n, Read(p, "meta").printTimes)}
           renders == event \in {"postCommand", "postDeployment"}
           m == HasRead(p, "meta")
<1>0. work[a].pc \in Steps \ {"acking"} /\ work[a].pc = "show"
  BY DEF Show, Steps
<1>1. /\ NoticesInv /\ p \in Processes /\ work[a] \in AtWork /\ work[a] # NoWork
      /\ EventOK(work[a], running[p], memory[p].ack)
      /\ disturbed = FALSE =>
            /\ reappeared = {} /\ ShowOK(work[a], known[p])
            /\ memory[p].ack # Absent => known[p] \subseteq memory[p].ack.value
  BY <1>0, AtItsPoint
<1>2. PICK matching \in SUBSET included :
          /\ IF renders /\ matching # {}
             THEN Continues(a, [work[a] EXCEPT !.pc = "record", !.notices = matching], m)
             ELSE Ends(a, IF renders THEN m ELSE memory)
          /\ reappeared' = IF event = "listAll" THEN reappeared
                           ELSE reappeared \union (matching \intersect known[p])
  BY DEF Show
<1> DEFINE next == [work[a] EXCEPT !.pc = "record", !.notices = matching]
<1>3. next.pc = "record" /\ next.event = work[a].event
  <2> HIDE DEF included
  <2> QED BY <1>1 DEF AtWork
<1>4. event \notin Ids
  BY <1>0, <1>1 DEF EventOK, Early, Writing
<1>5. \A ack : /\ EventOK(next, running[p], ack) /\ EventOK(NoWork, running[p], ack)
               /\ ShowOK(next, known[p]) /\ ShowOK(NoWork, known[p])
               /\ next.pc \notin Writing /\ NoWork.pc \notin Writing
  <2> HIDE DEF next
  <2> QED BY <1>3, <1>4, States DEF EventOK, Writing, ShowOK
<1>6. Near(m, p) /\ m[p].ack = memory[p].ack /\ Near(memory, p)
  BY <1>1, NearMemories
<1>7. \E w, mm : /\ Continues(a, w, mm) \/ Ends(a, mm)
                 /\ Near(mm, p) /\ mm[p].ack = memory[p].ack
                 /\ w.pc \notin Writing /\ EventOK(w, running[p], memory[p].ack)
                 /\ ShowOK(w, known[p])
  <2>1. Continues(a, next, m) \/ Ends(a, m) \/ Ends(a, memory)
    BY <1>2
  <2> HIDE DEF next, m, p
  <2> QED BY <1>5, <1>6, <2>1
<1>8. disturbed = FALSE => reappeared' = {}
  <2>1. CASE event = "listAll"
    BY <1>1, <1>2, <2>1
  <2>2. CASE event # "listAll"
    <3>1. matching \subseteq work[a].notices
      BY <1>2
    <3>2. reappeared' = reappeared \union (matching \intersect known[p])
      BY <1>2, <2>2
    <3> HIDE DEF included, p
    <3> QED BY <1>0, <1>1, <2>2, <3>1, <3>2 DEF ShowOK
  <2> QED BY <2>1, <2>2
<1>9. acknowledged' = acknowledged /\ disk' = disk /\ disturbed' = disturbed
      /\ disturbed \in BOOLEAN
  BY DEF Show, AckInv
<1> HIDE DEF p
<1> QED BY <1>0, <1>1, <1>7, <1>8, <1>9, Moves DEF p

LEMMA RecordPrintingTimesAck ==
    ASSUME AckInv, NoticesInv', NEW a \in Activations, RecordPrintingTimes(a)
    PROVE  AckInv'
<1> DEFINE p == ProcessOf(a)
           metadata == [Read(p, "meta") EXCEPT !.printTimes =
                           [n \in Ids |-> IF n \in work[a].notices THEN clock ELSE @[n]]]
           next == [work[a] EXCEPT !.pc = "recording", !.notices = {}, !.data = metadata]
           m == HasRead(p, "meta")
<1>0. work[a].pc \in Steps \ {"acking"} /\ work[a].pc = "record"
  BY DEF RecordPrintingTimes, Records, Steps
<1>1. /\ NoticesInv /\ p \in Processes /\ work[a] \in AtWork /\ work[a] # NoWork
      /\ EventOK(work[a], running[p], memory[p].ack)
      /\ disturbed = FALSE =>
            reappeared = {} /\ (memory[p].ack # Absent => known[p] \subseteq memory[p].ack.value)
  BY <1>0, AtItsPoint
<1>2. Near(m, p) /\ m[p].ack = memory[p].ack
  BY <1>1, NearMemories
<1>3. /\ next.pc \notin Writing /\ EventOK(next, running[p], memory[p].ack)
      /\ ShowOK(next, known[p])
  <2> HIDE DEF metadata
  <2>1. next.pc = "recording" /\ next.event = work[a].event
    BY <1>1 DEF AtWork
  <2> HIDE DEF next
  <2>2. next.pc \notin Writing \union {"acknowledge", "show"} /\ work[a].pc \notin Early
    BY <1>0, <2>1 DEF Writing, Early
  <2> QED BY <1>0, <1>1, <2>1, <2>2, GoesOn
<1>4. Continues(a, next, m)
  BY DEF RecordPrintingTimes, Records
<1>5. acknowledged' = acknowledged /\ disturbed' = disturbed
      /\ reappeared' = reappeared /\ disturbed \in BOOLEAN
  BY DEF RecordPrintingTimes, Records, ghosts, AckInv
<1>6. disk'.ack = disk.ack
  BY <1>1 DEF RecordPrintingTimes, Records, Truncated, NoticesInv, ShapeOK, Disks
<1> HIDE DEF next, m
<1> QED BY <1>0, <1>1, <1>2, <1>3, <1>4, <1>5, <1>6, Moves

LEMMA PrintingTimesRecordedAck ==
    ASSUME AckInv, NoticesInv', NEW a \in Activations, PrintingTimesRecorded(a)
    PROVE  AckInv'
<1> DEFINE p == ProcessOf(a)
           m == HasWritten(a, "meta")
<1>0. work[a].pc \in Steps \ {"acking"} /\ work[a].pc = "recording"
  BY DEF PrintingTimesRecorded, Steps
<1>1. /\ NoticesInv /\ p \in Processes /\ work[a] \in AtWork /\ work[a] # NoWork
      /\ disturbed = FALSE =>
            reappeared = {} /\ (memory[p].ack # Absent => known[p] \subseteq memory[p].ack.value)
  BY <1>0, AtItsPoint
<1>2. Near(m, p) /\ m[p].ack = memory[p].ack
  <2>1. work[a].data \in MetaValues
    BY <1>0, <1>1 DEF NoticesInv, HonestInv, WorkOK
  <2> QED BY <1>1, <2>1, NearWritten
<1>3. /\ NoWork.pc \notin Writing /\ EventOK(NoWork, running[p], memory[p].ack)
      /\ ShowOK(NoWork, known[p])
  BY States DEF EventOK, Writing, ShowOK
<1>4. Ends(a, m) /\ disk'.ack = disk.ack
  BY <1>1, MetaWritten DEF PrintingTimesRecorded
<1>5. acknowledged' = acknowledged /\ disturbed' = disturbed
      /\ reappeared' = reappeared /\ disturbed \in BOOLEAN
  BY DEF PrintingTimesRecorded, ghosts, AckInv
<1> HIDE DEF m
<1> QED BY <1>0, <1>1, <1>2, <1>3, <1>4, <1>5, Moves

LEMMA AcknowledgeAck ==
    ASSUME AckInv, NoticesInv', NEW a \in Activations, Acknowledge(a)
    PROVE  AckInv'
<1> DEFINE p == ProcessOf(a)
           acks == Read(p, "ack") \union {work[a].event}
           next == [work[a] EXCEPT !.pc = "ackWrite", !.notices = {}, !.data = acks]
           m == HasRead(p, "ack")
<1>0. work[a].pc \in Steps \ {"acking"} /\ work[a].pc \in Early /\ work[a].pc = "acknowledge"
  BY DEF Acknowledge, Steps, Early
<1>1. /\ NoticesInv /\ p \in Processes /\ work[a] \in AtWork /\ work[a] # NoWork
      /\ EventOK(work[a], running[p], memory[p].ack)
      /\ disturbed = FALSE =>
            reappeared = {} /\ (memory[p].ack # Absent => known[p] \subseteq memory[p].ack.value)
  BY <1>0, AtItsPoint
<1>2. work[a].event \in Ids /\ running[p] = "command" /\ memory[p].ack = Absent
  BY <1>0, <1>1 DEF EventOK
<1>3. /\ acknowledged' = acknowledged /\ reappeared' = reappeared /\ disk' = disk
      /\ disturbed' \in BOOLEAN
      /\ disturbed' = FALSE => disturbed = FALSE /\ ~Overlaps(a)
  <2>1. disturbed' = (disturbed \/ Overlaps(a))
    BY DEF Acknowledge
  <2> QED BY <2>1 DEF Acknowledge, AckInv
<1>4. CASE work[a].event \notin work[a].notices
  <2>1. /\ NoWork.pc \notin Writing /\ EventOK(NoWork, running[p], memory[p].ack)
        /\ ShowOK(NoWork, known[p])
    BY States DEF EventOK, Writing, ShowOK
  <2>2. Ends(a, memory) /\ Near(memory, p)
    BY <1>1, <1>4, NearMemories DEF Acknowledge
  <2> QED BY <1>0, <1>1, <1>3, <2>1, <2>2, Moves
<1>5. CASE work[a].event \in work[a].notices
  <2>1. Continues(a, next, m)
    BY <1>5 DEF Acknowledge
  <2>2. next.pc = "ackWrite" /\ next.event = work[a].event /\ next.data = acks
    <3> HIDE DEF acks
    <3> QED BY <1>1 DEF AtWork
  <2>3. Near(m, p) /\ m[p].ack = Content(Read(p, "ack"))
    BY <1>1, NearMemories
  <2> HIDE DEF next, m
  <2>4. Structure'
    <3>1. EventOK(next, running[p], m[p].ack)
      BY <1>2, <2>2 DEF EventOK, Early, Writing
    <3> QED BY <1>1, <1>3, <2>1, <2>3, <3>1, StructureMoves DEF AckInv, Structure
  <2>5. ASSUME disturbed' = FALSE PROVE Calm'
    <3>1. Calm /\ \A b \in Activations \ {a} : work[b].pc \notin Writing
      BY <1>3, <2>5 DEF AckInv, Overlaps, Writing
    <3>2. disk.ack # Torn
      BY <1>0, <3>1 DEF Calm, Writing
    <3>3. acknowledged \subseteq Read(p, "ack")
      BY <1>1, <1>2, <3>1, <3>2, ReadAll
    <3>4. /\ work' = [work EXCEPT ![a] = next] /\ memory' = m /\ known' = known
          /\ work \in [Activations -> Works]
      BY <1>1, <2>1 DEF Continues, NoticesInv, ShapeOK
    <3>5. /\ work'[a] = next /\ \A b \in Activations \ {a} : work'[b] = work[b]
          /\ next.pc \in Writing /\ next.pc # "acking" /\ next.pc # "show"
      BY <2>2, <3>4 DEF Writing
    <3>6. \A q \in Processes : memory'[q].ack # Absent => known'[q] \subseteq memory'[q].ack.value
      <4>1. known[p] \subseteq acknowledged
        BY <1>1, <3>1 DEF Calm
      <4>2. memory'[p].ack.value = Read(p, "ack")
        BY <2>3, <3>4, States
      <4>3. \A q \in Processes \ {p} : memory'[q] = memory[q]
        BY <2>3, <3>4 DEF Near
      <4> HIDE DEF p
      <4> QED BY <3>1, <3>3, <3>4, <4>1, <4>2, <4>3 DEF Calm
    <3>7. \A b, c \in Activations : work'[b].pc \in Writing /\ work'[c].pc \in Writing => b = c
      BY <3>1, <3>5
    <3>8. \A b \in Activations : WriteOK(work[b])'
      <4>1. WriteOK(work[a])'
        BY <1>3, <2>2, <3>3, <3>5 DEF WriteOK
      <4>2. \A b \in Activations \ {a} : WriteOK(work[b])'
        BY <3>1, <3>5 DEF WriteOK
      <4> QED BY <4>1, <4>2
    <3>9. \A b \in Activations : ShowOK(work[b], known[ProcessOf(b)])'
      <4>1. ShowOK(work[a], known[ProcessOf(a)])'
        BY <3>5 DEF ShowOK
      <4>2. \A b \in Activations \ {a} : ShowOK(work[b], known[ProcessOf(b)])'
        BY <3>1, <3>4, <3>5 DEF ShowOK, Calm
      <4> QED BY <4>1, <4>2
    <3>10. disk'.ack # Torn /\ \A b \in Activations : work'[b].pc # "acking"
      BY <1>3, <3>1, <3>2, <3>5 DEF Writing
    <3>11. reappeared' = {} /\ (\A q \in Processes : known'[q] \subseteq acknowledged')
           /\ acknowledged' \subseteq OnDisk'
      BY <1>3, <3>1, <3>2, <3>4 DEF Calm, OnDisk
    <3> QED BY <3>6, <3>7, <3>8, <3>9, <3>10, <3>11 DEF Calm
  <2> QED BY <1>3, <2>4, <2>5 DEF AckInv
<1> QED BY <1>4, <1>5

LEMMA AcknowledgementWriteBeginsAck ==
    ASSUME AckInv, NoticesInv', NEW a \in Activations, AcknowledgementWriteBegins(a)
    PROVE  AckInv'
<1> DEFINE p == ProcessOf(a)
           next == [work[a] EXCEPT !.pc = "acking"]
<1>0. work[a].pc \in Steps /\ work[a].pc = "ackWrite"
  BY DEF AcknowledgementWriteBegins, Steps
<1>1. /\ NoticesInv /\ p \in Processes /\ work[a] \in AtWork /\ work[a] # NoWork
      /\ EventOK(work[a], running[p], memory[p].ack)
  BY <1>0, AtItsPoint
<1>2. /\ Continues(a, next, memory) /\ acknowledged' = acknowledged
      /\ reappeared' = reappeared /\ disturbed' = disturbed /\ disk'.ack = Torn
  BY <1>1 DEF AcknowledgementWriteBegins, ghosts, Truncated, NoticesInv, ShapeOK, Disks
<1>3. next.pc = "acking" /\ next.event = work[a].event /\ next.data = work[a].data
  BY <1>1 DEF AtWork
<1> HIDE DEF next
<1>4. Structure'
  <2>1. EventOK(next, running[p], memory[p].ack)
    BY <1>0, <1>1, <1>3 DEF EventOK, Early, Writing
  <2> QED BY <1>1, <1>2, <2>1, NearMemories, StructureMoves DEF AckInv, Structure
<1>5. ASSUME disturbed' = FALSE PROVE Calm'
  <2>1. Calm /\ work[a].pc \in Writing
    BY <1>0, <1>2, <1>5 DEF AckInv, Writing
  <2>2. /\ work' = [work EXCEPT ![a] = next] /\ memory' = memory /\ known' = known
        /\ work \in [Activations -> Works]
    BY <1>1, <1>2 DEF Continues, NoticesInv, ShapeOK
  <2>3. work'[a] = next /\ \A b \in Activations \ {a} : work'[b] = work[b]
    BY <2>2
  <2>4. \A b \in Activations \ {a} : work'[b].pc \notin Writing
    BY <2>1, <2>3 DEF Calm
  <2>5. \A b \in Activations : WriteOK(work[b])' /\ ShowOK(work[b], known[ProcessOf(b)])'
    <3>1. WriteOK(work[a])' /\ ShowOK(work[a], known[ProcessOf(a)])'
      BY <1>2, <1>3, <2>1, <2>3 DEF WriteOK, ShowOK, Calm
    <3>2. \A b \in Activations \ {a} : WriteOK(work[b])' /\ ShowOK(work[b], known[ProcessOf(b)])'
      BY <2>1, <2>2, <2>3, <2>4 DEF WriteOK, ShowOK, Calm
    <3> QED BY <3>1, <3>2
  <2> QED BY <1>2, <1>3, <2>1, <2>2, <2>3, <2>4, <2>5 DEF Calm
<1> QED BY <1>2, <1>4, <1>5 DEF AckInv

LEMMA AcknowledgedAck ==
    ASSUME AckInv, NoticesInv', NEW a \in Activations, Acknowledged(a)
    PROVE  AckInv'
<1> DEFINE p == ProcessOf(a)
           m == HasWritten(a, "ack")
<1>0. work[a].pc \in Steps /\ work[a].pc = "acking" /\ work[a].pc \in Writing
  BY DEF Acknowledged, Steps, Writing
<1>1. /\ NoticesInv /\ p \in Processes /\ work[a] \in AtWork /\ work[a] # NoWork
      /\ EventOK(work[a], running[p], memory[p].ack)
  BY <1>0, AtItsPoint
<1>2. work[a].event \in Ids /\ running[p] = "command"
  BY <1>0, <1>1 DEF EventOK
<1>3. /\ Ends(a, m) /\ Written(a, "ack") /\ reappeared' = reappeared /\ disturbed' = disturbed
      /\ acknowledged' = acknowledged \union {work[a].event}
  BY DEF Acknowledged
<1>4. Near(m, p)
  <2>1. work[a].data \in SUBSET Ids
    BY <1>0, <1>1 DEF NoticesInv, HonestInv, WorkOK
  <2> QED BY <1>1, <2>1, NearWritten
<1> HIDE DEF m
<1>5. /\ Leaves(p, m)
      /\ \A b \in Activations : work'[b] = IF ProcessOf(b) = p THEN NoWork ELSE work[b]
  BY <1>1, <1>2, <1>3, AloneEnds DEF AckInv
<1>6. Structure'
  <2>1. acknowledged' \in SUBSET Ids
    BY <1>2, <1>3 DEF AckInv, Structure
  <2> QED BY <1>1, <1>4, <1>5, <2>1, StructureLeaves DEF AckInv
<1>7. ASSUME disturbed' = FALSE PROVE Calm'
  <2>1. Calm
    BY <1>3, <1>7 DEF AckInv
  <2>2. /\ memory' = [m EXCEPT ![p] = NoMemory] /\ known' = [known EXCEPT ![p] = {}]
        /\ known \in [Processes -> SUBSET Ids] /\ NoMemory.ack = Absent
        /\ \A b \in Activations : ProcessOf(b) \in Processes
    BY <1>5 DEF Leaves, AckInv, Structure, NoMemory, ProcessOf, Activations
  <2>3. disk'.ack = Content(work[a].data)
    <3>1. disk.ack = Torn
      BY <1>0, <2>1 DEF Calm
    <3>2. disk \in Disks
      BY <1>1 DEF NoticesInv, ShapeOK
    <3> QED BY <1>3, <3>1, <3>2 DEF Written, Disks
  <2>4. acknowledged' \subseteq work[a].data
    BY <1>0, <1>3, <2>1 DEF Calm, WriteOK
  <2>5. \A b \in Activations : work'[b].pc \notin Writing
    <3>1. ASSUME NEW b \in Activations, b # a PROVE work[b].pc \notin Writing
      BY <1>0, <2>1, <3>1 DEF Calm
    <3>2. work'[a] = NoWork
      BY <1>5
    <3> QED BY <1>5, <3>1, <3>2, States DEF Writing
  <2>6. \A b \in Activations : WriteOK(work[b])' /\ ShowOK(work[b], known[ProcessOf(b)])'
    <3>1. ASSUME NEW b \in Activations, ProcessOf(b) = p
          PROVE  ShowOK(work[b], known[ProcessOf(b)])'
      BY <1>5, <3>1, States DEF ShowOK
    <3>2. ASSUME NEW b \in Activations, ProcessOf(b) # p
          PROVE  ShowOK(work[b], known[ProcessOf(b)])'
      <4>1. work'[b] = work[b] /\ known'[ProcessOf(b)] = known[ProcessOf(b)]
        BY <1>5, <2>2, <3>2
      <4> QED BY <2>1, <4>1 DEF ShowOK, Calm
    <3> QED BY <2>5, <3>1, <3>2 DEF WriteOK
  <2>7. \A q \in Processes :
            /\ known'[q] \subseteq acknowledged'
            /\ memory'[q].ack # Absent => known'[q] \subseteq memory'[q].ack.value
    <3>1. ASSUME NEW q \in Processes, q # p
          PROVE  /\ known'[q] \subseteq acknowledged'
                 /\ memory'[q].ack # Absent => known'[q] \subseteq memory'[q].ack.value
      <4>1. known'[q] = known[q] /\ memory'[q] = memory[q]
        BY <1>4, <2>2, <3>1 DEF Near
      <4> QED BY <1>3, <2>1, <4>1 DEF Calm
    <3>2. known'[p] = {}
      BY <1>1, <2>2
    <3> QED BY <3>1, <3>2
  <2>8. /\ disk'.ack # Torn /\ (\A b \in Activations : work'[b].pc # "acking")
        /\ acknowledged' \subseteq OnDisk'
    BY <2>3, <2>4, <2>5, States DEF Writing, OnDisk
  <2>9. reappeared' = {}
    BY <1>3, <2>1 DEF Calm
  <2> QED BY <2>5, <2>6, <2>7, <2>8, <2>9 DEF Calm
<1> QED BY <1>3, <1>6, <1>7 DEF AckInv

-----------------------------------------------------------------------------
(* The theorem. *)

LEMMA AckInit == NothingYet => AckInv
<1> SUFFICES ASSUME NothingYet PROVE AckInv
  OBVIOUS
<1>1. NoticesInv
  BY NoticesInitSafe
<1>2. /\ \A b \in Activations : work[b] = NoWork /\ ProcessOf(b) \in Processes
      /\ \A p \in Processes : memory[p] = NoMemory /\ running[p] = "none" /\ known[p] = {}
      /\ NoMemory.ack = Absent /\ disk.ack = Absent
      /\ acknowledged = {} /\ reappeared = {} /\ disturbed = FALSE
  BY DEF NothingYet, NoMemory, ProcessOf, Activations
<1>3. Structure
  <2>1. /\ running \in [Processes -> {"none", "command", "sandbox"}]
        /\ known \in [Processes -> SUBSET Ids]
    BY DEF NothingYet
  <2> QED BY <1>2, <2>1, States DEF Structure, EventOK, Writing
<1>4. Calm
  <2>1. \A b \in Activations : work[b].pc = "none"
    BY <1>2, States
  <2> QED BY <1>2, <2>1, States DEF Calm, WriteOK, ShowOK, OnDisk, Writing
<1> QED BY <1>1, <1>2, <1>3, <1>4 DEF AckInv

LEMMA AckStep == AckInv /\ [NoticesNext]_noticesVars => AckInv'
<1> SUFFICES ASSUME AckInv, [NoticesNext]_noticesVars PROVE AckInv'
  OBVIOUS
<1>0. NoticesInv'
  BY NoticesStep DEF AckInv
<1>1. CASE Tick
  BY <1>0, <1>1, TickAck
<1>2. ASSUME NEW p \in Processes, NEW kind \in {"command", "sandbox"}, NEW event \in Events,
             StartProcess(p, kind, event)
      PROVE  AckInv'
  BY <1>0, <1>2, StartProcessAck
<1>3. ASSUME NEW p \in Processes, Stopped(p) PROVE AckInv'
  BY <1>0, <1>3, StoppedAck
<1>4. ASSUME NEW a \in Activations, NEW event \in Events, Activate(a, event) PROVE AckInv'
  BY <1>0, <1>4, ActivateAck
<1>5. ASSUME NEW a \in Activations,
             \/ FetchManifest(a) \/ FetchFails(a) \/ ManifestFetched(a) \/ ManifestCached(a)
             \/ FilterAcknowledged(a) \/ Show(a)
             \/ RecordPrintingTimes(a) \/ PrintingTimesRecorded(a)
             \/ Acknowledge(a) \/ AcknowledgementWriteBegins(a) \/ Acknowledged(a)
      PROVE  AckInv'
  BY <1>0, <1>5, FetchManifestAck, FetchFailsAck, ManifestFetchedAck, ManifestCachedAck,
     FilterAcknowledgedAck, ShowAck, RecordPrintingTimesAck, PrintingTimesRecordedAck,
     AcknowledgeAck, AcknowledgementWriteBeginsAck, AcknowledgedAck
<1>6. CASE UNCHANGED noticesVars
  <2>1. /\ disk' = disk /\ running' = running /\ memory' = memory /\ work' = work
        /\ known' = known /\ acknowledged' = acknowledged /\ reappeared' = reappeared
        /\ disturbed' = disturbed
    BY <1>6 DEF noticesVars, ghosts
  <2>2. Structure'
    BY <2>1 DEF AckInv, Structure, EventOK
  <2>3. Calm => Calm'
    BY <2>1 DEF Calm, WriteOK, ShowOK, OnDisk
  <2> QED BY <1>0, <2>1, <2>2, <2>3 DEF AckInv
<1> QED BY <1>1, <1>2, <1>3, <1>4, <1>5, <1>6 DEF NoticesNext

\* "If you don't want to see a notice anymore, use ... acknowledge": unless
\* acknowledgements overlapped, or a write of them was cut off or read half-way,
\* no process that starts after an acknowledgement shows the notice again, and
\* the file keeps it through all later acknowledgements.
THEOREM AcknowledgementCorrect == NoticesSpec => []AcknowledgedStaysAway
<1>1. AckInv => AcknowledgedStaysAway
  <2> SUFFICES ASSUME AckInv, ~disturbed
               PROVE  /\ reappeared = {}
                      /\ disk.ack # Torn => acknowledged \subseteq
                            IF disk.ack = Absent THEN {} ELSE disk.ack.value
    BY DEF AcknowledgedStaysAway
  <2>1. Calm
    BY DEF AckInv
  <2> QED BY <2>1 DEF Calm, OnDisk
<1> QED BY <1>1, BeginsWithNothing, AckInit, AckStep, PTL DEF NoticesSpec

-----------------------------------------------------------------------------
(* The types of both.                                                        *)
(* CdkDeployer: what is on display is of a deployment that has begun.        *)
TypeInv == TypeOK /\ TerminalInv /\ (dpc # "idle" => deploys # 0)

LEMMA DeployerTypeInit == Init \/ DeployerIdle => TypeInv
<1> SUFFICES ASSUME Init \/ DeployerIdle PROVE TypeInv
  OBVIOUS
<1>1. /\ deploys \in 0..MaxDeploys /\ deploys \in Nat /\ dpc = "idle" /\ ~monitoring
      /\ result = "none" /\ DisplayInit
  BY MaxDeploysAssumption DEF Init, DeployerIdle
<1>2. TerminalInv
  <2>1. ProgressIsRecord /\ DisplayInv
    BY <1>1 DEF DisplayInit, NoProgress, ProgressIsRecord, DisplayInv, Displayed
  <2>2. SpinnerInv
    BY <1>1 DEF DisplayInit, SpinnerInv
  <2> QED BY <2>1, <2>2 DEF TerminalInv
<1>3. DisplayTypeOK(Deployments)
  BY <1>1 DEF DisplayInit, DisplayTypeOK, NoProgress, Displayed, Labels
<1>4. /\ cause \in Causes /\ validate \in BOOLEAN /\ synthError \in BOOLEAN /\ assembly = "none"
      /\ monitoring \in BOOLEAN /\ swapped \in BOOLEAN
      /\ reported \in [Resources -> Statuses \union {"none"}]
  BY DEF Init, DeployerIdle, Causes
<1> QED BY <1>1, <1>2, <1>3, <1>4 DEF TypeInv, TypeOK

\* What the activities of a deployment add to the display has its name.
LEMMA AddActivityHasType ==
    ASSUME TypeInv, NEW r \in Resources, NEW status, deploys \in Deployments,
           progress' = AddActivity(progress, <<deploys, r>>, status),
           UNCHANGED <<spinner, isHotSwap, latency>>
    PROVE  DisplayTypeOK(Deployments)'
<1> DEFINE a == <<deploys, r>>
           done == ResourcesDone(progress, a, status)
<1>1. /\ progress \in [on : BOOLEAN, inProgress : SUBSET (Nat \X Resources),
                       failures : SUBSET (Nat \X Resources),
                       completed : SUBSET (Nat \X Resources), done : Nat]
      /\ Displayed(progress) \union progress.completed \subseteq Deployments \X Resources
      /\ a \in Deployments \X Resources
  BY DEF TypeInv, TerminalInv, ProgressIsRecord, TypeOK, DisplayTypeOK
<1>2. done \in Nat
  BY <1>1 DEF ResourcesDone
<1> HIDE DEF a, done
<1>3. progress' = progress \/
        /\ progress'.on = progress.on /\ progress'.done = done
        /\ progress'.inProgress \subseteq progress.inProgress \union {a}
        /\ progress'.failures \subseteq progress.failures \union {a}
        /\ progress'.completed \subseteq progress.completed \union {a}
  BY <1>1 DEF AddActivity, a, done
<1>4. Displayed(progress)' \union progress'.completed \subseteq Deployments \X Resources
  BY <1>1, <1>3 DEF Displayed
<1>5. progress'.on \in BOOLEAN /\ progress'.done \in Nat
  BY <1>1, <1>2, <1>3
<1> QED BY <1>4, <1>5 DEF TypeInv, TypeOK, DisplayTypeOK

\* A display that is kept, ended or begun shows nothing new.
Shows(p, activities) ==
    /\ Displayed(p) \union p.completed \subseteq activities
    /\ p.on \in BOOLEAN /\ p.done \in Nat

LEMMA DisplayKept ==
    ASSUME DisplayTypeOK(Deployments), spinner' \in Labels,
           progress' \in {progress, NoProgress, NewProgress},
           isHotSwap' \in BOOLEAN, latency' \in {"none", "hotSwap", "deployment"}
    PROVE  DisplayTypeOK(Deployments)'
<1>1. Shows(NoProgress, Deployments \X Resources) /\ Shows(NewProgress, Deployments \X Resources)
  BY DEF Displayed, NoProgress, NewProgress, Shows
<1>2. Shows(progress, Deployments \X Resources)
  BY DEF DisplayTypeOK, Shows
<1>3. Shows(progress', Deployments \X Resources)
  BY <1>1, <1>2
<1> QED BY <1>3 DEF DisplayTypeOK, Displayed, Shows

LEMMA DeployerTypeStep == TypeInv /\ [Next]_vars => TypeInv'
<1> SUFFICES ASSUME TypeInv, [Next]_vars PROVE TypeOK' /\ (dpc' # "idle" => deploys' # 0)
  BY TerminalStep DEF TypeInv
<1>0. TypeOK /\ MaxDeploys \in Nat /\ (dpc # "idle" => deploys # 0)
      /\ (monitoring => dpc = "deploying")
  BY MaxDeploysAssumption DEF TypeInv, TerminalInv, DisplayInv
<1>d. DisplayTypeOK(Deployments) /\ "none" \in Labels
      /\ spinner \in Labels /\ isHotSwap \in BOOLEAN /\ latency \in {"none", "hotSwap", "deployment"}
  BY <1>0 DEF TypeOK, DisplayTypeOK, Labels
<1> USE <1>0, <1>d DEF TypeOK
<1>1. CASE Begin
  <2>1. DisplayTypeOK(Deployments)'
    BY <1>1, DisplayKept DEF Begin, Spin, Labels
  <2>2. deploys' \in 0..MaxDeploys /\ deploys' # 0
    BY <1>1 DEF Begin
  <2> QED BY <1>1, <2>1, <2>2 DEF Begin
<1>2. CASE Synthesize \/ TypeChecksStart \/ TypeChecksEnd \/ AfterTypeChecks
  <2>1. DisplayTypeOK(Deployments)'
    BY <1>2, DisplayKept DEF Synthesize, TypeChecksStart, TypeChecksEnd, AfterTypeChecks, StopSpinner, Spin,
                displayVars, Labels
  <2>2. /\ deploys' = deploys /\ cause' = cause /\ validate' = validate /\ monitoring' = monitoring
        /\ reported' = reported /\ swapped' = swapped /\ dpc # "idle"
    BY <1>2 DEF Synthesize, TypeChecksStart, TypeChecksEnd, AfterTypeChecks
  <2>4. synthError' \in BOOLEAN /\ assembly' \in {"none", "held", "disposed"}
    <3>1. CASE Synthesize
      BY <3>1 DEF Synthesize
    <3>2. CASE TypeChecksStart \/ TypeChecksEnd \/ AfterTypeChecks
      BY <3>2 DEF TypeChecksStart, TypeChecksEnd, AfterTypeChecks
    <3> QED BY <1>2, <3>1, <3>2
  <2>5. dpc' \in {"synthesized", "types", "verdict", "idle", "deploy"}
    BY <1>2 DEF Synthesize, TypeChecksStart, TypeChecksEnd, AfterTypeChecks
  <2>3. result' \in (Verdicts \ {"ok"}) \union {"none", "SynthError", "DeployError", "succeeded"}
    BY <1>2 DEF Synthesize, TypeChecksStart, TypeChecksEnd, AfterTypeChecks, Verdict, Verdicts
  <2> QED BY <2>1, <2>2, <2>3, <2>4, <2>5
<1>3. CASE PublishAssets \/ DeployStarts
  <2>1. DisplayTypeOK(Deployments)'
    BY <1>3, DisplayKept DEF PublishAssets, DeployStarts, AssetsEvent, StartEvent, Labels
  <2> QED BY <1>3, <2>1 DEF PublishAssets, DeployStarts
<1>4. CASE HotSwapped \/ MonitorStarts
  <2>1. DisplayTypeOK(Deployments)'
    BY <1>4, DisplayKept DEF HotSwapped, MonitorStarts, HotSwapEvent, displayVars, Labels
  <2>2. reported' \in [Resources -> Statuses \union {"none"}]
    BY <1>4 DEF HotSwapped, MonitorStarts
  <2> QED BY <1>4, <2>1, <2>2 DEF HotSwapped, MonitorStarts
<1>5. ASSUME NEW r \in Resources, NEW status \in Statuses, Activity(r, status)
      PROVE  TypeOK' /\ (dpc' # "idle" => deploys' # 0)
  <2>1. deploys \in Deployments
    BY <1>5 DEF Activity, Deployments
  <2>2. DisplayTypeOK(Deployments)'
    BY <1>5, <2>1, AddActivityHasType DEF Activity, ActivityEvent
  <2>3. reported' \in [Resources -> Statuses \union {"none"}]
    BY <1>5 DEF Activity
  <2> QED BY <1>5, <2>2, <2>3 DEF Activity
<1>6. CASE Ongoing \/ MonitorStops \/ OutputsShown
  <2>1. DisplayTypeOK(Deployments)'
    BY <1>6, DisplayKept DEF Ongoing, MonitorStops, OutputsShown, OngoingEvent, StopEvent, EndDisplay,
                Labels
  <2> QED BY <1>6, <2>1 DEF Ongoing, MonitorStops, OutputsShown
<1>7. CASE DeploySucceeds \/ DeployFails
  <2>1. DisplayTypeOK(Deployments)'
    BY <1>7, DisplayKept DEF DeploySucceeds, DeployFails, TimingEvent, DeployFailedEvent, EndDisplay,
                Labels
  <2> QED BY <1>7, <2>1 DEF DeploySucceeds, DeployFails
<1>8. CASE SpinnerTimer \/ UNCHANGED vars
  <2>1. DisplayTypeOK(Deployments)'
    BY <1>8, DisplayKept DEF SpinnerTimer, SpinnerTimesOut, vars, displayVars, Labels
  <2> QED BY <1>8, <2>1 DEF SpinnerTimer, vars
<1> QED BY <1>1, <1>2, <1>3, <1>4, <1>5, <1>6, <1>7, <1>8 DEF Next

(* Notices: no file, no memory and no write under way has a time that is     *)
(* still to come.                                                            *)
Dated(value) == value.refreshedAt <= clock /\ \A n \in Ids : value.printTimes[n] <= clock

DatedMemory(m) ==
    \A p \in Processes :
        /\ m[p].refreshedAt <= clock
        /\ m[p].meta.state = "content" => Dated(m[p].meta.value)

DatedWork(w) == w.pc \in {"caching", "recording"} => Dated(w.data)

DatedInv ==
    /\ clock \in 1..MaxTicks /\ started \in 0..MaxActivations
    /\ disk.meta.state = "content" => Dated(disk.meta.value)
    /\ DatedMemory(memory)
    /\ \A a \in Activations : DatedWork(work[a])

LEMMA ReadDated ==
    ASSUME NoticesInv, DatedInv, NEW p \in Processes
    PROVE  Dated(Read(p, "meta"))
<1>1. memory[p] \in Memories /\ clock \in Nat
  BY DEF NoticesInv, ShapeOK
<1>2. CASE memory[p].meta # Absent
  <2>1. Read(p, "meta") = memory[p].meta.value
    BY <1>2 DEF Read
  <2>2. memory[p].meta.state = "content"
    BY <1>1, <1>2 DEF Memories, Contents
  <2> QED BY <2>1, <2>2 DEF DatedInv, DatedMemory
<1>3. CASE memory[p].meta = Absent /\ disk.meta.state = "content"
  BY <1>3 DEF Read, DatedInv
<1>4. CASE memory[p].meta = Absent /\ disk.meta.state # "content"
  BY <1>1, <1>4 DEF Read, DefaultMetadata, Dated
<1> QED BY <1>2, <1>3, <1>4

\* What a process comes to have in memory.
LEMMA DatedMemories ==
    ASSUME NoticesInv, DatedInv, NEW p \in Processes
    PROVE  DatedMemory(HasRead(p, "ack")) /\ DatedMemory(HasRead(p, "meta"))
<1>1. memory \in [Processes -> Memories] /\ DatedMemory(memory) /\ clock \in Nat
  BY DEF NoticesInv, ShapeOK, DatedInv
<1>2. ASSUME NEW q \in Processes
      PROVE  /\ HasRead(p, "ack")[q].meta = memory[q].meta
             /\ HasRead(p, "ack")[q].refreshedAt = memory[q].refreshedAt
             /\ HasRead(p, "meta")[q].meta \in {memory[q].meta, Content(Read(p, "meta"))}
             /\ HasRead(p, "meta")[q].refreshedAt = memory[q].refreshedAt
  BY <1>1 DEF HasRead, Memories
<1> QED BY <1>1, <1>2, ReadDated, States DEF DatedMemory

LEMMA DatedManifest ==
    ASSUME NEW m \in [Processes -> Memories], DatedMemory(m), NEW p \in Processes,
           NEW notices, NEW time, time <= clock
    PROVE  DatedMemory([m EXCEPT ![p].manifest = notices, ![p].refreshedAt = time])
<1> DEFINE after == [m EXCEPT ![p].manifest = notices, ![p].refreshedAt = time]
<1>1. ASSUME NEW q \in Processes
      PROVE  after[q].meta = m[q].meta /\ after[q].refreshedAt \in {m[q].refreshedAt, time}
  BY DEF Memories
<1> HIDE DEF after
<1>2. DatedMemory(after)
  BY <1>1 DEF DatedMemory
<1> QED BY <1>2 DEF after

\* A step of one activation, at one time.
LEMMA DatedGoes ==
    ASSUME NoticesInv, DatedInv, UNCHANGED fixed, NEW a \in Activations,
           NEW w, DatedWork(w), NEW m \in [Processes -> Memories], DatedMemory(m),
           Continues(a, w, m) \/ Ends(a, m),
           disk'.meta.state = "content" => Dated(disk'.meta.value)
    PROVE  DatedInv'
<1>1. clock' = clock /\ started' = started /\ clock \in Nat
  BY DEF fixed, NoticesInv, ShapeOK
<1>2. work \in [Activations -> Works] /\ ProcessOf(a) \in Processes
  BY DEF NoticesInv, ShapeOK, ProcessOf, Activations
<1>3. work' \in {[work EXCEPT ![a] = w], [work EXCEPT ![a] = NoWork]}
      /\ memory' \in {m, [m EXCEPT ![ProcessOf(a)] = NoMemory]}
  BY DEF Continues, Ends, Leaves
<1>4. DatedWork(NoWork) /\ NoMemory.refreshedAt <= clock /\ NoMemory.meta.state # "content"
  BY <1>1, States DEF DatedWork, NoMemory
<1>5. \A b \in Activations : DatedWork(work'[b])
  BY <1>2, <1>3, <1>4 DEF DatedInv
<1>6. DatedMemory(memory')
  BY <1>2, <1>3, <1>4 DEF DatedMemory
<1> QED BY <1>1, <1>5, <1>6 DEF DatedInv, DatedMemory, DatedWork, Dated

LEMMA DatedTruncation ==
    ASSUME NoticesInv, DatedInv, NEW file \in {"ack", "meta"}, Truncated(file)
    PROVE  disk'.meta.state = "content" => Dated(disk'.meta.value)
<1>1. disk'.meta \in {disk.meta, Torn}
  BY DEF Truncated, NoticesInv, ShapeOK, Disks
<1> QED BY <1>1, States DEF DatedInv

LEMMA DatedWrite ==
    ASSUME NoticesInv, DatedInv, NEW a \in Activations, NEW file \in {"ack", "meta"},
           Written(a, file), file = "meta" => Dated(work[a].data)
    PROVE  disk'.meta.state = "content" => Dated(disk'.meta.value)
<1>1. disk'.meta \in {disk.meta, Torn} \/ (file = "meta" /\ disk'.meta = Content(work[a].data))
  BY DEF Written, NoticesInv, ShapeOK, Disks
<1> QED BY <1>1, States DEF DatedInv

LEMMA DatedWritten ==
    ASSUME NoticesInv, DatedInv, NEW a \in Activations, ProcessOf(a) \in Processes
    PROVE  /\ DatedMemory(HasWritten(a, "ack"))
           /\ Dated(work[a].data) => DatedMemory(HasWritten(a, "meta"))
<1>1. memory \in [Processes -> Memories] /\ DatedMemory(memory)
  BY DEF NoticesInv, ShapeOK, DatedInv
<1>2. ASSUME NEW q \in Processes
      PROVE  /\ HasWritten(a, "ack")[q].meta = memory[q].meta
             /\ HasWritten(a, "ack")[q].refreshedAt = memory[q].refreshedAt
             /\ HasWritten(a, "meta")[q].meta \in {memory[q].meta, Content(work[a].data)}
             /\ HasWritten(a, "meta")[q].refreshedAt = memory[q].refreshedAt
  BY <1>1 DEF HasWritten, Memories
<1> QED BY <1>1, <1>2, States DEF DatedMemory

LEMMA DatedFetched ==
    ASSUME NEW w \in AtWork, NEW manifest
    PROVE  DatedWork(Fetched(w, manifest))
<1>1. Fetched(w, manifest).pc \in {"acknowledge", "show", "filter"}
  <2>1. CASE w.event \in Ids /\ w.event # "listAll"
    BY <2>1 DEF Fetched, AtWork
  <2>2. CASE w.event \in Ids /\ w.event = "listAll"
    BY <2>2 DEF Fetched, AtWork
  <2>3. CASE w.event \notin Ids /\ w.event = "listAll"
    BY <2>3 DEF Fetched, AtWork
  <2>4. CASE w.event \notin Ids /\ w.event # "listAll"
    BY <2>4 DEF Fetched, AtWork
  <2> QED BY <2>1, <2>2, <2>3, <2>4
<1> QED BY <1>1 DEF DatedWork

\* What an activation that reads no time, or writes none, has.
LEMMA AtHand ==
    ASSUME NoticesInv, DatedInv, NEW a \in Activations, work[a].pc \in Steps
    PROVE  /\ work[a] \in AtWork /\ ProcessOf(a) \in Processes /\ DatedWork(NoWork)
           /\ memory \in [Processes -> Memories] /\ DatedMemory(memory)
           /\ HasRead(ProcessOf(a), "ack") \in [Processes -> Memories]
           /\ DatedMemory(HasRead(ProcessOf(a), "ack"))
           /\ HasRead(ProcessOf(a), "meta") \in [Processes -> Memories]
           /\ DatedMemory(HasRead(ProcessOf(a), "meta"))
<1>1. work[a] \in AtWork /\ ProcessOf(a) \in Processes
  BY Working
<1>2. DatedWork(NoWork)
  BY States DEF DatedWork
<1> QED BY <1>1, <1>2, AfterReading, DatedMemories, KnownNow DEF MemoryOK, DatedInv

LEMMA DatedShow ==
    ASSUME NoticesInv, DatedInv, NEW a \in Activations, Show(a)
    PROVE  DatedInv'
<1> DEFINE p == ProcessOf(a)
           included == {n \in work[a].notices :
                            Included(work[a].event, n, Read(p, "meta").printTimes)}
           renders == work[a].event \in {"postCommand", "postDeployment"}
<1>1. UNCHANGED fixed /\ disk' = disk /\ work[a].pc \in Steps
  BY DEF Show, Steps
<1>2. PICK matching \in SUBSET included :
          /\ IF renders /\ matching # {}
             THEN Continues(a, [work[a] EXCEPT !.pc = "record", !.notices = matching],
                            HasRead(p, "meta"))
             ELSE Ends(a, IF renders THEN HasRead(p, "meta") ELSE memory)
          /\ printed' = printed \union matching
  BY ZenonT(60) DEF Show
<1> DEFINE w == [work[a] EXCEPT !.pc = "record", !.notices = matching]
<1>3. DatedWork(w)
  BY <1>1, AtHand DEF DatedWork, AtWork
<1> HIDE DEF w, p
<1>4. Continues(a, w, HasRead(p, "meta")) \/ Ends(a, HasRead(p, "meta")) \/ Ends(a, memory)
  BY <1>2 DEF w
<1>5. \E m \in [Processes -> Memories] :
          DatedMemory(m) /\ (Continues(a, w, m) \/ Ends(a, m))
  BY <1>1, <1>4, AtHand DEF p
<1> QED BY <1>1, <1>3, <1>5, DatedGoes DEF DatedInv

LEMMA DatedFetchFails ==
    ASSUME NoticesInv, DatedInv, NEW a \in Activations, FetchFails(a)
    PROVE  DatedInv'
<1>1. UNCHANGED fixed /\ work[a].pc \in Steps /\ Ends(a, memory) /\ disk' = disk
  BY DEF FetchFails, Steps
<1> QED BY <1>1, AtHand, DatedGoes DEF DatedInv

LEMMA DatedFilter ==
    ASSUME NoticesInv, DatedInv, NEW a \in Activations, FilterAcknowledged(a)
    PROVE  DatedInv'
<1> DEFINE w == [work[a] EXCEPT !.pc = "show", !.notices = @ \ Read(ProcessOf(a), "ack")]
<1>1. /\ UNCHANGED fixed /\ work[a].pc \in Steps /\ disk' = disk
      /\ Continues(a, w, HasRead(ProcessOf(a), "ack"))
  BY DEF FilterAcknowledged, Steps
<1>2. DatedWork(w)
  BY <1>1, AtHand DEF DatedWork, AtWork
<1> HIDE DEF w
<1> QED BY <1>1, <1>2, AtHand, DatedGoes DEF DatedInv

LEMMA DatedAcknowledge ==
    ASSUME NoticesInv, DatedInv, NEW a \in Activations, Acknowledge(a)
    PROVE  DatedInv'
<1> DEFINE w == [work[a] EXCEPT !.pc = "ackWrite", !.notices = {},
                                !.data = Read(ProcessOf(a), "ack") \union {work[a].event}]
<1>1. /\ UNCHANGED fixed /\ work[a].pc \in Steps /\ disk' = disk
      /\ Continues(a, w, HasRead(ProcessOf(a), "ack")) \/ Ends(a, memory)
  BY DEF Acknowledge, Steps
<1>2. DatedWork(w)
  BY <1>1, AtHand DEF DatedWork, AtWork
<1> HIDE DEF w
<1> QED BY <1>1, <1>2, AtHand, DatedGoes DEF DatedInv

LEMMA DatedAckWrite ==
    ASSUME NoticesInv, DatedInv, NEW a \in Activations, AcknowledgementWriteBegins(a)
    PROVE  DatedInv'
<1> DEFINE w == [work[a] EXCEPT !.pc = "acking"]
<1>1. /\ UNCHANGED fixed /\ work[a].pc \in Steps /\ Truncated("ack") /\ Continues(a, w, memory)
  BY DEF AcknowledgementWriteBegins, Steps
<1>2. DatedWork(w)
  BY <1>1, AtHand DEF DatedWork, AtWork
<1> HIDE DEF w
<1> QED BY <1>1, <1>2, AtHand, DatedGoes, DatedTruncation

LEMMA DatedAcknowledged ==
    ASSUME NoticesInv, DatedInv, NEW a \in Activations, Acknowledged(a)
    PROVE  DatedInv'
<1>1. /\ UNCHANGED fixed /\ work[a].pc = "acking" /\ Written(a, "ack")
      /\ Ends(a, HasWritten(a, "ack"))
  BY DEF Acknowledged
<1>2. work[a].data \in SUBSET Ids /\ work[a].data \subseteq asked
  BY <1>1 DEF NoticesInv, HonestInv, WorkOK
<1>3. HasWritten(a, "ack") \in [Processes -> Memories] /\ DatedMemory(HasWritten(a, "ack"))
  BY <1>1, <1>2, AtHand, AfterWriting, DatedWritten DEF MemoryOK, Steps
<1> QED BY <1>1, <1>3, AtHand, DatedGoes, DatedWrite DEF Steps

LEMMA DatedFetch ==
    ASSUME NoticesInv, DatedInv, NEW a \in Activations, FetchManifest(a)
    PROVE  DatedInv'
<1> DEFINE p == ProcessOf(a)
           m == Read(p, "meta")
           read == HasRead(p, "meta")
           loaded == [read EXCEPT ![p].manifest = m.manifest, ![p].refreshedAt = m.refreshedAt]
           asking == [work[a] EXCEPT !.pc = "network"]
<1>1. UNCHANGED fixed /\ disk' = disk /\ work[a].pc \in Steps
  BY DEF FetchManifest, Steps
<1>2. work[a] \in AtWork /\ p \in Processes
  BY <1>1, AtHand
<1>3. DatedWork(asking) /\ \A manifest : DatedWork(Fetched(work[a], manifest))
  BY <1>2, DatedFetched DEF DatedWork, AtWork
<1>4. m.manifest \in SUBSET Ids /\ m.refreshedAt \in 0..clock
  <2>1. m \in MetaValues /\ Dated(m) /\ clock \in Nat
    BY <1>2, ReadMeta, ReadDated DEF NoticesInv, ShapeOK
  <2> HIDE DEF m
  <2> QED BY <2>1 DEF MetaValues, Dated
<1>5. read \in [Processes -> Memories] /\ DatedMemory(read)
  BY <1>1, AtHand
<1>6. loaded \in [Processes -> Memories]
  <2>1. MemoryOK(read, asked, printed) /\ m.refreshedAt \in Nat
    BY <1>2, <1>4, AfterReading DEF NoticesInv, ShapeOK
  <2>2. MemoryOK(loaded, asked, printed)
    <3> HIDE DEF m, p, read
    <3> QED BY <1>2, <1>4, <2>1, ManifestKept
  <2> QED BY <2>2 DEF MemoryOK
<1>7. DatedMemory(loaded)
  <2>1. m.refreshedAt <= clock
    <3> HIDE DEF m
    <3> QED BY <1>4 DEF NoticesInv, ShapeOK
  <2> HIDE DEF read, m, p
  <2> QED BY <1>2, <1>5, <2>1, DatedManifest
<1>8. \E w, mm : /\ DatedWork(w) /\ mm \in [Processes -> Memories] /\ DatedMemory(mm)
                 /\ Continues(a, w, mm)
  <2>1. memory \in [Processes -> Memories] /\ DatedMemory(memory)
    BY <1>1, AtHand
  <2>2. \/ Continues(a, Fetched(work[a], memory[p].manifest), memory)
        \/ Continues(a, Fetched(work[a], m.manifest), loaded)
        \/ Continues(a, asking, loaded)
    BY DEF FetchManifest
  <2> HIDE DEF loaded, asking, m, p
  <2> QED BY <1>3, <1>6, <1>7, <2>1, <2>2
<1> QED BY <1>1, <1>8, DatedGoes DEF DatedInv

LEMMA DatedManifestFetched ==
    ASSUME NoticesInv, DatedInv, NEW a \in Activations, ManifestFetched(a)
    PROVE  DatedInv'
<1> DEFINE p == ProcessOf(a)
           m == Read(p, "meta")
           read == HasRead(p, "meta")
           metadata == [m EXCEPT !.manifest = published, !.refreshedAt = clock]
           w == [work[a] EXCEPT !.pc = "caching", !.data = metadata]
           loaded == [read EXCEPT ![p].manifest = published, ![p].refreshedAt = clock]
<1>1. UNCHANGED fixed /\ work[a].pc \in Steps /\ Truncated("meta") /\ Continues(a, w, loaded)
  BY DEF ManifestFetched, Steps
<1>2. /\ work[a] \in AtWork /\ p \in Processes /\ clock \in Nat /\ published \in SUBSET Ids
      /\ read \in [Processes -> Memories] /\ DatedMemory(read)
  BY <1>1, AtHand DEF NoticesInv, ShapeOK
<1>3. DatedWork(w)
  <2>1. m \in MetaValues /\ Dated(m)
    BY <1>2, ReadMeta, ReadDated
  <2> HIDE DEF m
  <2>2. Dated(metadata)
    BY <1>2, <2>1 DEF MetaValues, Dated
  <2> HIDE DEF metadata
  <2>3. w.data = metadata
    BY <1>2 DEF AtWork
  <2> QED BY <2>2, <2>3 DEF DatedWork
<1>4. loaded \in [Processes -> Memories] /\ DatedMemory(loaded)
  <2>1. MemoryOK(read, asked, printed) /\ clock <= clock
    BY <1>2, AfterReading
  <2>2. MemoryOK(loaded, asked, printed)
    <3> HIDE DEF p, read
    <3> QED BY <1>2, <2>1, ManifestKept
  <2>3. DatedMemory(loaded)
    <3> HIDE DEF p, read
    <3> QED BY <1>2, <2>1, DatedManifest
  <2> QED BY <2>2, <2>3 DEF MemoryOK
<1> HIDE DEF w, loaded
<1> QED BY <1>1, <1>3, <1>4, DatedGoes, DatedTruncation

\* The two writes of times end.
LEMMA DatedMetaWritten ==
    ASSUME NoticesInv, DatedInv, NEW a \in Activations, work[a].pc \in {"caching", "recording"}
    PROVE  /\ work[a] \in AtWork /\ ProcessOf(a) \in Processes /\ Dated(work[a].data)
           /\ HasWritten(a, "meta") \in [Processes -> Memories]
           /\ DatedMemory(HasWritten(a, "meta"))
<1>1. work[a] \in AtWork /\ ProcessOf(a) \in Processes
  BY AtHand DEF Steps
<1>2. Dated(work[a].data)
  BY DEF DatedInv, DatedWork
<1>3. work[a].data \in MetaValues /\ TimesOf(work[a].data, printed)
  BY DEF NoticesInv, HonestInv, WorkOK
<1> QED BY <1>1, <1>2, <1>3, AfterWriting, DatedWritten DEF MemoryOK

LEMMA DatedManifestCached ==
    ASSUME NoticesInv, DatedInv, NEW a \in Activations, ManifestCached(a)
    PROVE  DatedInv'
<1> DEFINE w == Fetched(work[a], memory[ProcessOf(a)].manifest)
<1>1. /\ UNCHANGED fixed /\ work[a].pc = "caching" /\ Written(a, "meta")
      /\ Continues(a, w, HasWritten(a, "meta"))
  BY DEF ManifestCached
<1>2. DatedWork(w)
  BY <1>1, DatedMetaWritten, DatedFetched
<1> HIDE DEF w
<1> QED BY <1>1, <1>2, DatedMetaWritten, DatedGoes, DatedWrite

LEMMA DatedRecorded ==
    ASSUME NoticesInv, DatedInv, NEW a \in Activations, PrintingTimesRecorded(a)
    PROVE  DatedInv'
<1>1. /\ UNCHANGED fixed /\ work[a].pc = "recording" /\ Written(a, "meta")
      /\ Ends(a, HasWritten(a, "meta"))
  BY DEF PrintingTimesRecorded
<1>2. DatedWork(NoWork)
  BY States DEF DatedWork
<1> QED BY <1>1, <1>2, DatedMetaWritten, DatedGoes, DatedWrite

LEMMA DatedRecord ==
    ASSUME NoticesInv, DatedInv, NEW a \in Activations, RecordPrintingTimes(a)
    PROVE  DatedInv'
<1> DEFINE p == ProcessOf(a)
           m == Read(p, "meta")
           shown == work[a].notices
           times == [n \in Ids |-> IF n \in shown THEN clock ELSE m.printTimes[n]]
           metadata == [m EXCEPT !.printTimes = [n \in Ids |-> IF n \in shown THEN clock ELSE @[n]]]
           w == [work[a] EXCEPT !.pc = "recording", !.notices = {}, !.data = metadata]
<1>1. /\ UNCHANGED fixed /\ work[a].pc \in Steps /\ Truncated("meta")
      /\ Continues(a, w, HasRead(p, "meta"))
  BY DEF RecordPrintingTimes, Records, Steps
<1>2. work[a] \in AtWork /\ p \in Processes /\ clock \in Nat
  BY <1>1, AtHand DEF NoticesInv, ShapeOK
<1>3. DatedWork(w)
  <2>1. m \in MetaValues /\ Dated(m)
    BY <1>2, ReadMeta, ReadDated
  <2>2. metadata = [m EXCEPT !.printTimes = times]
    OBVIOUS
  <2> HIDE DEF m, metadata, shown
  <2>3. \A n \in Ids : times[n] <= clock
    BY <1>2, <2>1 DEF Dated
  <2> HIDE DEF times
  <2>4. metadata.printTimes = times /\ metadata.refreshedAt = m.refreshedAt
    BY <2>1, <2>2 DEF MetaValues
  <2>5. Dated(metadata)
    BY <2>1, <2>3, <2>4 DEF Dated
  <2>6. w.data = metadata
    BY <1>2 DEF AtWork
  <2> QED BY <2>5, <2>6 DEF DatedWork
<1> HIDE DEF w, p
<1> QED BY <1>1, <1>3, AtHand, DatedGoes, DatedTruncation DEF p

\* An activation that begins, and a process that is gone.
LEMMA DatedStarts ==
    ASSUME NoticesInv, DatedInv, NEW a \in Activations, NEW event, Starts(a, event)
    PROVE  DatedInv'
<1> DEFINE w == [pc |-> "fetch", event |-> event, notices |-> {}, data |-> {}]
<1>1. /\ clock' = clock /\ disk' = disk /\ memory' = memory /\ started' \in 0..MaxActivations
      /\ work' = [work EXCEPT ![a] = w]
  BY NoticesBoundsAssumption DEF Starts, DatedInv
<1>2. DatedWork(w)
  BY DEF DatedWork
<1>3. work \in [Activations -> Works]
  BY DEF NoticesInv, ShapeOK
<1> HIDE DEF w
<1>4. \A b \in Activations : DatedWork(work'[b])
  BY <1>1, <1>2, <1>3 DEF DatedInv
<1> QED BY <1>1, <1>4 DEF DatedInv, DatedMemory, DatedWork, Dated

LEMMA DatedStopped ==
    ASSUME NoticesInv, DatedInv, NEW p \in Processes, Stopped(p)
    PROVE  DatedInv'
<1>1. /\ clock' = clock /\ disk' = disk /\ started' = started
      /\ memory' = [memory EXCEPT ![p] = NoMemory]
      /\ work' = [a \in Activations |-> IF ProcessOf(a) = p THEN NoWork ELSE work[a]]
  BY DEF Stopped, Leaves, fixed
<1>2. memory \in [Processes -> Memories] /\ clock \in Nat
  BY DEF NoticesInv, ShapeOK
<1>3. DatedWork(NoWork) /\ NoMemory.refreshedAt <= clock /\ NoMemory.meta.state # "content"
  BY <1>2, States DEF DatedWork, NoMemory
<1>4. \A b \in Activations : DatedWork(work'[b])
  BY <1>1, <1>3 DEF DatedInv
<1>5. DatedMemory(memory')
  BY <1>1, <1>2, <1>3 DEF DatedInv, DatedMemory
<1> QED BY <1>1, <1>4, <1>5 DEF DatedInv, DatedMemory, DatedWork, Dated

LEMMA DatedTick == ASSUME NoticesInv, DatedInv, Tick PROVE DatedInv'
<1>1. /\ clock' = clock + 1 /\ clock' \in 1..MaxTicks /\ clock \in Nat
      /\ disk' = disk /\ started' = started /\ memory' = memory /\ work' = work
  BY NoticesBoundsAssumption DEF Tick, NoticesInv, ShapeOK, DatedInv
<1>2. \A time \in Nat : time <= clock => time <= clock'
  BY <1>1
<1>3. \A value \in MetaValues : Dated(value) => Dated(value)'
  BY <1>1 DEF MetaValues, Dated
<1>4. disk.meta.state = "content" => disk.meta.value \in MetaValues
  BY States DEF NoticesInv, ShapeOK, Disks, Contents
<1>5. \A p \in Processes : /\ memory[p].refreshedAt \in Nat
                           /\ memory[p].meta.state = "content" => memory[p].meta.value \in MetaValues
  BY States DEF NoticesInv, ShapeOK, Memories, Contents
<1>6. \A a \in Activations : work[a].pc \in {"caching", "recording"} => work[a].data \in MetaValues
  BY DEF NoticesInv, HonestInv, WorkOK
<1>7. DatedMemory(memory)'
  BY <1>1, <1>2, <1>3, <1>5 DEF DatedInv, DatedMemory
<1>8. \A a \in Activations : DatedWork(work[a])'
  BY <1>1, <1>3, <1>6 DEF DatedInv, DatedWork
<1>9. disk'.meta.state = "content" => Dated(disk.meta.value)'
  BY <1>1, <1>3, <1>4 DEF DatedInv
<1> QED BY <1>1, <1>7, <1>8, <1>9 DEF DatedInv

LEMMA DatedInit == NothingYet => DatedInv
<1> SUFFICES ASSUME NothingYet PROVE DatedInv
  OBVIOUS
<1>1. /\ clock \in 1..MaxTicks /\ clock \in Nat /\ disk.meta = Absent
      /\ \A p \in Processes : memory[p] = NoMemory
      /\ \A a \in Activations : work[a] = NoWork
  BY NoticesBoundsAssumption DEF NothingYet
<1>2. DatedWork(NoWork) /\ NoMemory.refreshedAt <= clock /\ NoMemory.meta.state # "content"
  BY <1>1, States DEF DatedWork, NoMemory
<1> QED BY <1>1, <1>2, States DEF NothingYet, DatedInv, DatedMemory

LEMMA DatedStep == NoticesInv /\ DatedInv /\ [NoticesNext]_noticesVars => DatedInv'
<1> SUFFICES ASSUME NoticesInv, DatedInv, [NoticesNext]_noticesVars PROVE DatedInv'
  OBVIOUS
<1>1. CASE Tick
  BY <1>1, DatedTick
<1>2. ASSUME NEW p \in Processes, NEW kind \in {"command", "sandbox"}, NEW event \in Events,
             StartProcess(p, kind, event)
      PROVE  DatedInv'
  <2>1. PICK slot \in Slots : Starts(<<p, slot>>, event)
    BY <1>2 DEF StartProcess
  <2>2. <<p, slot>> \in Activations
    BY DEF Activations
  <2> QED BY <2>1, <2>2, DatedStarts
<1>3. ASSUME NEW p \in Processes, Stopped(p) PROVE DatedInv'
  BY <1>3, DatedStopped
<1>4. ASSUME NEW a \in Activations, NEW event \in Events, Activate(a, event) PROVE DatedInv'
  BY <1>4, DatedStarts DEF Activate
<1>5. ASSUME NEW a \in Activations,
             \/ FetchManifest(a) \/ FetchFails(a) \/ ManifestFetched(a) \/ ManifestCached(a)
             \/ FilterAcknowledged(a) \/ Show(a)
             \/ RecordPrintingTimes(a) \/ PrintingTimesRecorded(a)
             \/ Acknowledge(a) \/ AcknowledgementWriteBegins(a) \/ Acknowledged(a)
      PROVE  DatedInv'
  BY <1>5, DatedFetch, DatedFetchFails, DatedManifestFetched, DatedManifestCached, DatedFilter,
     DatedShow, DatedRecord, DatedRecorded, DatedAcknowledge, DatedAckWrite, DatedAcknowledged
<1>6. CASE UNCHANGED noticesVars
  <2>1. clock' = clock /\ started' = started /\ disk' = disk /\ memory' = memory /\ work' = work
    BY <1>6 DEF noticesVars, fixed
  <2> QED BY <2>1 DEF DatedInv, DatedMemory, DatedWork, Dated
<1> QED BY <1>1, <1>2, <1>3, <1>4, <1>5, <1>6 DEF NoticesNext

LEMMA NoticesHaveTypes == AckInv /\ DatedInv => NoticesTypeOK
<1> SUFFICES ASSUME AckInv, DatedInv PROVE NoticesTypeOK
  OBVIOUS
<1>1. NoticesInv /\ Structure /\ clock \in Nat /\ clock <= MaxTicks /\ MaxTicks \in Nat
  BY NoticesBoundsAssumption DEF AckInv, NoticesInv, ShapeOK, DatedInv
<1>2. disk.ack \in {Absent, Torn} \union {Content(v) : v \in SUBSET Ids}
  <2>1. disk.ack \in {Absent, Torn} \union Contents(SUBSET Ids)
    BY <1>1 DEF NoticesInv, ShapeOK, Disks
  <2>2. \A c \in Contents(SUBSET Ids) : c = Content(c.value) /\ c.value \in SUBSET Ids
    BY DEF Contents, Content
  <2> QED BY <2>1, <2>2
<1>3. disk.meta \in {Absent, Torn} \/ disk.meta.value \in Metadata
  <2>1. CASE disk.meta.state = "content"
    <3>1. disk.meta.value \in MetaValues /\ Dated(disk.meta.value)
      BY <1>1, <2>1, States DEF NoticesInv, ShapeOK, Disks, Contents, DatedInv
    <3> QED BY <1>1, <3>1 DEF MetaValues, Dated, Metadata
  <2>2. CASE disk.meta.state # "content"
    BY <1>1, <2>2 DEF NoticesInv, ShapeOK, Disks, Contents
  <2> QED BY <2>1, <2>2
<1>4. \A p \in Processes :
          /\ memory[p].manifest \subseteq Ids /\ memory[p].refreshedAt \in 0..clock
          /\ running[p] = "none" => memory[p] = NoMemory
  BY <1>1 DEF NoticesInv, ShapeOK, Memories, DatedInv, DatedMemory, Structure
<1>5. \A a \in Activations : ~Idle(a) =>
          /\ running[ProcessOf(a)] # "none"
          /\ work[a].pc \in Steps /\ work[a].event \in Events /\ work[a].notices \subseteq Ids
  BY <1>1 DEF NoticesInv, ShapeOK, Structure, Works, AtWork, Idle
<1> QED BY <1>1, <1>2, <1>3, <1>4, <1>5
        DEF NoticesTypeOK, DatedInv, NoticesInv, ShapeOK, Structure

-----------------------------------------------------------------------------

\* Every file, memory and activation of the notices, and every part of the
\* terminal's display, has the values its handlers are written for: above all, no
\* time in a file or a memory is still to come, and a display shows nothing but
\* resources of deployments that have begun.
THEOREM CommandLineTypeCorrect == CommandLineSpec => []CommandLineTypeOK
<1> DEFINE Inv == TypeInv /\ AckInv /\ DatedInv
<1>1. CommandLineInit => Inv
  BY DeployerTypeInit, BeginsWithNothing, AckInit, DatedInit DEF CommandLineInit
<1>2. Inv /\ [CommandLineNext]_<<vars, noticesVars>> => Inv'
  <2> SUFFICES ASSUME Inv, [CommandLineNext]_<<vars, noticesVars>> PROVE Inv'
    OBVIOUS
  <2>1. [Next]_vars /\ [NoticesNext]_noticesVars
    BY DEF CommandLineNext
  <2> QED BY <2>1, DeployerTypeStep, AckStep, DatedStep DEF AckInv
<1>3. Inv => CommandLineTypeOK
  BY NoticesHaveTypes DEF CommandLineTypeOK, TypeInv
<1> QED BY <1>1, <1>2, <1>3, PTL DEF CommandLineSpec
================================================================================
