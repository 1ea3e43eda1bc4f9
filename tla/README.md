# Amplify backend: models, checks and proofs

TLA+ specifications of the parts of this repository (packages of
`@aws-amplify/backend` and its CLI) in which order, overlap and failure matter,
with the TLC configurations that check them and the TLAPS proofs about them.
`PROJECT.json` holds the exact correspondence: `map` gives the source lines of
every definition, `runs` the checks, `mutants` a plausible bug for every checked
property, `hazards` what the properties are for.

Contents: [the system](#1-the-system), [the modules](#2-the-modules),
[the runs](#3-the-runs), [fairness](#4-fairness), [the proofs](#5-the-proofs),
[what the models showed](#6-what-the-models-showed),
[what is left out](#7-what-is-left-out), [the plan](#8-the-plan).

Conventions. An action is the code between two points at which other code can
run (an `await`, a timer, a callback, a call to AWS). Names are the source's
where TLA+ allows it. Every bound is a CONSTANT with "bound" in its comment.
An operator introduced by a comment "Mutant" is a wrong version of the
definition after it; no specification uses it, `PROJECT.json` says which property
refuses it. Ghost variables (called so, or history variables, in the modules) are
never read by a guard.

## 1 The system

Amplify Gen 2 turns a directory of TypeScript (`amplify/`) into a CloudFormation
stack. A CLI synthesizes and deploys it, watches it in a *sandbox*, and writes the
file `amplify_outputs.json` from which the frontend learns about the backend. The
constructs of the stack (auth, data, storage, functions, conversations) are made
by factories at synthesis time; some leave code behind that runs in Lambda
functions (the conversation handler, the custom resources).

| Component (package) | State it keeps | Operations | Talks to | What is hard | What makes it correct |
|---|---|---|---|---|---|
| `FileWatchingSandbox` (sandbox) | latch, debounced `deployAndWatch`, watcher subscription, tracker, per call of `start` | `start`, `stop`, `delete`, watcher callback, `deploy`, `reset`, signals | executor, tracker, log streamer, event handlers | callbacks suspended between tracking and testing the latch; a session started inside the deployment of another; failures on the way up | one deployment at a time, no change lost, the command ends |
| `AmplifySandboxExecutor` (sandbox) | one debounced promise | `deploy`, `destroy` | deployer, secret client | the last caller's callback answers all callers | outcome belongs to the caller |
| `FilesChangesTracker` (sandbox) | the snapshot's three flags | track, snapshot, reset | sandbox | snapshot taken late, reset whatever the outcome | no TypeScript edit escapes the type checker |
| log streaming (sandbox) | `enabled`; `active`, log groups, tick chains | start/stop streaming, activate, pause, tick | Lambda, CloudWatch | overlapping starts, a chain that survives a pause | an active monitor reads, a paused one falls silent |
| sandbox command and handlers (cli) | outputs file | start handler; write/delete the file on events | sandbox events, config generator | handlers are not awaited | the file follows the stack |
| client config generation (client-config, deployed-backend-client) | none | metadata, outputs, contributors, write | CloudFormation | two reads at different times | outputs are those of a deployment that succeeded |
| `CDKDeployer` (backend-deployer) | synthesized assembly | synth, type checks, deploy, destroy | CDK toolkit, compiler worker | two failures at once; which is told, what is cleaned up | only sound apps deployed, no assembly leaked |
| terminal progress (cli-core) | spinner, progress display, hot swap flag | one step per event | deployer and toolkit events | singleton state that survives a failed deployment | display belongs to this deployment |
| conversation turn (ai-constructs) | accumulated content, block and delta indexes | ask, stream, run tools, send, report errors | Bedrock, AppSync | indexes of its own over several requests, partial failures | chunks rebuild the content; every turn is answered |
| conversation history (ai-constructs) | none; reads the message table | list, get, order, squash | AppSync | concurrent turns, eventually consistent lists, abandoned tool uses | Bedrock accepts the history, nothing sent twice |
| storage access (backend-storage) | access map, prefix deny map, unique ids | validate, add rules, attach policies | IAM policies, outputs | denial of subpaths depends on all rules and on the order of keys | the deepest rule decides |
| backend engine (backend) | singleton constructs, nested stacks, custom outputs | `defineBackend`, `addOutput` | all factories | order of construction | outputs complete |
| outputs (backend-output-storage, -schemas, client-config contributors, platform-core accumulator) | metadata of the stack; the config being merged | add entry, append to list; contribute, accumulate | stack metadata | lists across packages, merge conflicts | the config tells the backend as it is |
| auth (auth-construct, backend-auth) | user pool and its outputs | construct from properties, access policies | Cognito | outputs computed late, after overrides | outputs equal the resources |
| data, AI factory (backend-data, backend-ai) | construct properties | conversion and validation | CDK constructs | none that is concurrent | conversions are right |
| function environment (backend-function) | variables of the program; `process.env` of a running function | add text, secret, parameter; look up parameters at start and by interval | SSM | lookups that overlap, fail and answer late | a running function has what the program said, by the values of now |
| secrets (backend-secret, backend engine) | parameters in the branch path and the shared path; the fetcher's stamp | set, remove, list, get; fetch in a deployment | SSM, CloudFormation | lists of several calls, secrets that change meanwhile, a Lambda that is called only when a property changes | what was set before a deployment arrives with it |
| branch linker (backend engine) | the branch's `stackArn` | Create, Update, Delete | Amplify, CloudFormation | read and write back, events again or late | the branch names its stack, edits of others stay |
| notices, local configuration (cli, platform-core) | two files in the config directory, and what each process has read of them | fetch manifest, render, acknowledge | network, file system | several processes, memory for life, writes cut off | acknowledged notices stay away, none is withheld unseen |
| telemetry, errors, conversions (platform-core) | usage data preference | emit | network | none | - |
| code generators (model-, form-, schema-generator) | none | generate | external generators | none | - |
| package managers, prompter (cli-core), create-amplify, seed, other commands | none | one call after the other | child processes, Cognito | none beyond errors | - |

The core is the sandbox: a single-threaded process in which many activations of a
few asynchronous functions overlap. Its promise to the developer is easy to say
(every change gets deployed, one deployment at a time) and hard to test. It is
modelled first and in most detail, and proved about.

How the modelled parts meet:

    sandbox command --start--> FileWatchingSandbox --Invoke--> SandboxExecutor
         |                       |   |                              |
         | handlers              |   +-- FilesChangesTracker        v
         v                       +-- FunctionLogStreaming       CdkDeployer
    SandboxOutputs <--events-----+                                  |
      (the outputs file)                                            v
                                                          DeploymentProgress
    beside both:        Notices (after commands, and after the sandbox's deployments)
    at synthesis time:  StorageAccess;  UserPool --> BackendOutputs --> stack
    in a deployment:    BackendSecrets (stamp --> fetcher), BranchLinker (stack --> branch)
    afterwards:         stack --> ClientConfig (as part of BackendOutputs)
    in the deployed backend:  ConversationTurn  <-- history --  ConversationHistory
                              FunctionEnvironment  <-- parameters (secrets, outputs)

`SandboxOutputs` and `CdkDeployer` take operations to come one at a time, which is
what `OneDeployUntilRecreated` shows of the sandbox (and `sandbox_concurrent_deploys`
shows to fail once a sandbox has been recreated).

## 2 The modules

### FileWatchingSandbox, with SandboxExecutor, FilesChangesTracker, FunctionLogStreaming

`FileWatchingSandbox.tla` EXTENDS the other three, which share the names of its
runs through `DeployRuns.tla`. A *session* is a call of `start()`; its closure
holds `latch`, `armed` (the debounced call that waits for its timer) and `watch`.
A *run* is an activation of `deployAndWatch`, `pc[r]` the `await` it is at:
`preparing` (listing secrets), `deploying` (awaiting the executor), `prompting`,
`stopping`, `destroying`, `resetting` (inside `reset()`), `tail` (the latch is
open again), `streaming`; `repeating` is the printing of the name before a repeated deployment. A watcher callback is counted
between tracking the files and testing the latch, because `printSandboxNameInfo` suspends it there: in `printing` while the name
is being printed (only when the latch was open), then in `callbacks`.

Some rejections are caught by nothing: that of the prompt when the developer closes it, of `printSandboxNameInfo` (which reads
`package.json` again), of resolving the sandbox's name, of a failed reset. They end the run or the callback there and then, past the code that gives the
latch back or tests it, and are steps of their own (`PromptRejects`, `RepeatFails`, `NameNotPrinted`, `DeleteFails`, `ResetFails`, `StreamingNotCalled`).
When `start()` of the first session awaits the run, the command fails (`phase[1] = "failed"`); otherwise the listener for unhandled
rejections (`cli/src/error_handler.ts:25`) lets the process go on. Two ghosts remember them: `abandoned` has the
sessions of runs that were rejected at the prompt or before repeating, `missed` says that a callback was rejected, until the next change
or attempt to deploy.

| Code | Model |
|---|---|
| `start` up to the watcher | `TrackerCreated`, `SubscribedAndArmed`, `DeployingOnce`, `NotBootstrapped`, `StartFails` |
| watcher callback | `WatcherCallback`, `NamePrinted` or `NameNotPrinted`, then `TestLatch` |
| debounced `deployAndWatch` | `RunBegins`, `AfterDeploy` (latch test and loop), `Repeats`, `RepeatFails`, `StreamingCalled`, `StreamingNotCalled`, `StreamingReturns` |
| `deploy` | `ExecutorInvoked`, `ListSecretsFails`, `DeployReturns`, `DeployUnsupported` |
| `reset`, `delete`, `stop` | `AcceptReset`, `DestroyInvoked`, `DeleteFails`, `SandboxRestarts`, `ResetFails`, `ResetReturns`, `Stop`; `DeclineReset`, `PromptRejects` |
| SIGINT, SIGTERM | `Signal` |
| executor | `Invoke`, `TimerFires`, `CallbackSettles`, `Consume` in `SandboxExecutor` |
| tracker | the operators of `FilesChangesTracker` |
| log streamer and monitor | `StreamerStep`, `MonitorStep` in `FunctionLogStreaming` |

External: the developer's edits, `@parcel/watcher`, `debounce-promise`, and cdk
itself (`OperationEnds`). Simplifications, each of them named at its definition:
the subscription and `start`'s own call of `deployAndWatch` are one step (nothing
but a microtask is between them); resolving the sandbox's name to deploy, delete or stream
is part of the step it comes before, though it may fail there; excluded
files are no edits; log events and cursor times are left out; that the process
exits after its first `start` has rejected is not modelled (it goes on, so the
model has more behaviours).

`DeployOnChange.tla` is the abstract specification: four variables (`stale`, `missed`,
`watched`, `inProgress`), deployments one at a time that cover all changes before
them, and weak fairness: a watched change that was not missed does not wait forever. `Promise` in
`FileWatchingSandbox` is the refinement mapping; `watched` is `Attended`: the command lives, and a session watches whose latch no rejected run left taken.

### SandboxOutputs

The outputs file. `StartSandbox` is the command's handler; an operation begins,
fails or succeeds; a success emits an event whose handler goes through
`GetTemplateSummary` (`ReadMetadata`), `DescribeStacks` (`ReadOutputs`) and
`WriteConfig`, or `DeleteConfig`. Handlers of several operations overlap.
Simplifications: operations come one at a time; `writeFile` is atomic; the file of
an earlier process is as good as the empty one; during an update
`GetTemplateSummary` may answer with either template.

### CdkDeployer, with DeploymentProgress

`deploy()` of one process, again and again, each call with a set of causes of
failure chosen when it begins (`cause`): type errors, missing generated files of
function environments, an app that throws, a compiler worker that dies. The
toolkit's events are steps that change what the terminal shows
(`DeploymentProgress`: spinner, `cfnDeploymentProgressLogger`, `isHotSwap`).
External: the order of CloudFormation's statuses (`Follows`); I5503 follows the end
of monitoring. Handling one event is atomic (the bridge awaits all listeners). The
loggers for debug level and for terminals without TTY are left out. `MCCommandLine` checks these modules and
`Notices` in one run.

### Notices

`ZodSchemaTypedConfigurationFile` keeps what a process once read of a file for the rest of its
life (`Read`, `HasRead`), and `writeFile` truncates (`Truncated`) before it fills (`Written`), so that
a kill in between leaves a torn file, which the next process takes for its default. Around it,
`FetchManifest`, `ManifestFetched`, `ManifestCached` are the fetcher, `FilterAcknowledged`, `Show`,
`RecordPrintingTimes` the controller and the renderer, `Acknowledge` and the two steps after it
the command. An activation is one rendering or one command; a sandbox runs several at once,
nobody awaits those after its deployments, and any process may be killed (`Stopped`).
Simplifications: one project; predicates are a choice (`matching`); all notices are in their
validity period; a tick of the clock ends the manifest's time to live and the day.

### BackendSecrets, BranchLinker

`BackendSecrets` has the parameters of one backend and deployments of it: a sandbox lists its secrets by pages
(`ListPage`) to find the time of the latest change, which becomes the stamp of the custom resource; a pipeline, and a
sandbox without secrets, stamps with the time of synthesis (`Synthesize`). CloudFormation calls the fetcher only when
names or stamp have changed; it reads one secret after the other from the branch path (`FetchBranch`), where an
error of the caller is dropped (`FetchBranchMisread`), and else from the shared path (`FetchShared`). `SetSecret` and
`RemoveSecrets` come between any two of these. Failures of the fetcher and of other resources roll back, which calls the
fetcher with the old properties. A time is the number of a change: two changes never have the same, while SSM's
times have a precision, and the clock of synthesis and that of SSM are one.

`BranchLinker` has one branch, its stacks one after the other, and the handlers of events: `GetBranch` reads the
branch, `UpdateBranch` puts it back whole with the link set or unset. CloudFormation delivers an event again
(`Deliver`) or gives it up (`EventTimesOut`), while handlers of earlier deliveries go on. The console edits, disconnects
and connects the branch.

`MCCustomResources` checks the two in one run.

### FunctionEnvironment

`AddText`, `AddSecret`, `AddSsmEntry` are what the program tells `FunctionEnvironmentTranslator`; then the function is
started: `Load` is the top of its bundle, `Tick` the interval, each a lookup (`Read` of one parameter at a time, `Write` of
the environment, `ReadFails`). Lookups overlap, and parameters change (`Change`) between a read and the write of what was
read. A value is the parameter and the version read.

`MCDeployedBackend` checks this module and `SandboxOutputs` in one run.

### ConversationHistory

Users, invocations and lists around the pure functions of
`conversation_message_history_retriever.ts` (`Retrieve`, `Ordered`,
`SquashNonCurrentTurns`, `GetMessageHistory`; the loops of the code are concatenations of what each
message gives, and a recursive function where a message depends on what was squashed before). Ids are in the order of `createdAt`; one answer
per user message; `aiContext`, images, documents and the repair of null properties
are left out. A content block remembers where it was written, so that "sent twice"
and "behind its question" can be said.

### ConversationTurn

One invocation: `Request`, the stream's events (`ContentBlockStart`,
`ContentBlockDelta`, `ToolUseStop`, `TextStop`, `MessageStop`) or `Responds`, `RunTools`,
`SendChunk`, `TurnFails`, `ForwardError`. Bedrock and AppSync are the environment.
The executor pulls the generator, so a chunk is sent before the next event is
read. Every block starts with `contentBlockStart` (as in the repository's mocks);
the tools of a response run in one step; duplicate tool names are rejected by the
adapter's constructor (`Init`). `MCConversation` checks this module and `ConversationHistory` in one run.

### StorageAccess

The orchestrator as a state machine over the permissions the developer wrote:
`NextPath`, `AddPermission`, `DuplicateDefinition`, `AttachPolicies`. A path is the
sequence of its parts without the final wildcard; malformed strings are left
out. The id of a definition is the pair of a kind of user and a name, which the code joins to one text. Rules may be for
functions (`allow.resource`; `Resources`) as well as for roles of users: these have no ids, so they are not refused when written twice, reach a policy like
the others, and are never in the outputs, where a path with no other rules is listed with nothing. Names of groups and functions are taken to differ. `Granted` evaluates the policies as IAM does (an allow, no deny), with two
users "me" and "you" and objects known by their folders; `Intended` is the reference
definition: the deepest path with a rule over the object decides. Conditions on
`list` are taken to match like the resources of the other actions.

### BackendOutputs, with UserPool and ClientConfig

The way of a backend's properties to its frontend. `DefineBackend` invokes the
factories (or is refused); the rest of the program overrides resources (`Override`) and
adds outputs of its own (`AddOutput`) in any order; `Visit` is the storage aspect at one
node; `Synthesize` evaluates what is lazy; `GenerateClientConfig` reads the outputs by
the metadata and merges what the contributors of a version make of them.
`UserPool.tla` holds what `AmplifyAuth` refuses, the resources it makes and the outputs
it computes from them; `ClientConfig.tla` the contributors and the `ObjectAccumulator`, a
config being a function from paths to leaves. `AuthFacts` and `StorageFacts` are the
reference: what the resources say of themselves, without the way over strings, outputs
and metadata. External: how CDK derives `enabledMfas`. Simplifications: an output is the
sequence of its parts instead of a string; names and ids of resources are constants; a
refusal ends the program (one that catches the error of `addOutput` and goes on keeps what was merged of the refused
part); outputs of data are made in another repository. `CustomPartsAssumption` and `ListsAssumption` say which parts a program adds: leaves
of a tree, a list where the backend or another part has one, and nothing below it (`addOutput` takes a partial client config, in whose type a path is
a list or it is none; below `custom` the type says nothing, and parts that disagree there are left out); only versions are under the key `version`.

`MCBackendSynthesis` checks this module and `StorageAccess` in one run. As with the other MC modules of this
kind, the two share no state, and in a behaviour only one of them moves: the states are the sum of both, not the product.

## 3 The runs

| Run | Question | Bounds, and why they are enough |
|---|---|---|
| `sandbox` | Are deployments of a sandbox exclusive, is the latch given back, and is no change lost? | both values of `watchForChanges`, three runs, two sessions (the second is started inside a run of the first, while another run of the first may still begin), one callback in flight per session (a second one finds the same latch; its events are merged in `events`), one signal, one kind of file. Log streaming has no part in these properties and is off |
| `sandbox_start` | Does a watched session implement `DeployOnChange`, and does no TypeScript edit escape the type checker? Does `--once` end? | Both values of the option `watchForChanges`, chosen in the beginning. Watched: the developer declines to recreate the sandbox (`Declines`; both questions are about one that was not), two runs (one at work, one that overlaps its tail), both kinds of file, two callbacks in flight, and no signal: it ends the watching, after which nothing is promised, and `sandbox` has one. Once: a refused deployment may recreate the sandbox |
| `sandbox_streaming` | Does an active monitor read, and a paused one fall silent? | two overlapping tick chains, one function; two runs may stream at once |
| `sandbox_concurrent_deploys` | Is there ever more than one deployment? | expected violation, see 6 |
| `sandbox_latch_left` | Is a queued change always deployed after the current deployment? | expected violation, see 6; one session and two runs are enough |
| `deployed_backend` | Is the outputs file that of the stack? Does a running function get what the program said? | file: four operations (a deployment, its successor, a deletion and one more), all handlers overlapping. Function: two variables that may share a secret, two entries, two lookups under way, three changes of parameters or failed reads |
| `command_line` | What is deployed, told, shown, recorded, disposed of? Do notices come and stay away as they should? | deployer: three calls (one failed, one at work, one after) and two resources (one rolls back while the other goes on). Notices: two processes, three activations, two days, one notice shown once and one shown after deployments |
| `conversation` | Does Bedrock get a history it accepts? Does the client see the whole answer, and an end? | history: five messages (a question, its answer, a question out of order, its answer and a current one, or a turn with a tool use, its result and a follow-up). Turn: four blocks over three requests, two text deltas, one tool of each sort |
| `custom_resources` | Do secrets arrive with the deployment that follows them? Does the branch name its stack? | secrets: two names in two paths, four changes, three deployments (one that fails and is rolled back between two). Linker: two stacks, three deliveries (an event, its second delivery, the next event), two edits |
| `history_repeats_role` | Does it always alternate? | expected violation, see 6 |
| `synthesis` | Do policies and outputs of a bucket say what its rules say? Does the client config tell the backend as it is? | storage: two paths of depth two with the owner placeholder, four permissions, one group, one function, one action: a parent, a child and an owner's folder under either. Outputs: all 512 combinations of sign-in, templates and second factor, external providers (none, two general ones, two of the others) with every omission, two groups; all lists of at most two buckets; three overrides or custom parts of thirteen (two that meet at one value, and one between them); one minor version of each kind (1.3 differs from 1.4 in its number only) |
| `storage_parents` | Has a path at most one parent after validation? | expected violation, see 6; depth three is the least that shows it |

Safety properties beyond type correctness, and the code they are about:

* `LatchAdmitsOneRun`, `TakenLatchHasRun`: the latch in `deployAndWatch`.
* `OneDeployUntilRecreated`, `NoChangeLost`, `TypeScriptEditRemembered`: latch, timers and tracker together.

  Two of these name what the uncaught rejections take from them. `TakenLatchHasRun` and `NoChangeLost` do not speak of a session
  in `abandoned`: its latch stays taken, and changes queue behind it for good. `NoChangeLost` does not speak of a change while it is
  `missed` either. `KeepsPromise` makes the same two exceptions. Nothing else is excepted: failed deployments, failed lists of
  secrets, failed resets and deletions, and a callback rejected before a later change or attempt are all covered.
* `ActiveMonitorTicks`: activations, pauses and tick chains.
* `SpacedOutputsCurrent`, `OutputsOfSuccess`: handlers against operations.
* `OnlySoundAppsDeployed`, `AssemblyNotLeaked`: the two failures of `deploy`.
* `TerminalTellsThisDeployment`: singleton state over several deployments. Its parts are `SuccessClearsTerminal`, `DisplayIsOfThisDeployment` and `LatencyOfThisDeployment`.
* `AcknowledgedStaysAway`, `NothingWithheldUnseen`: two files, several processes, and what each remembers.
* `SetSecretsArrive`, `SharedSecretsArrive`: the stamp, against secrets that change around and during a deployment.
* `LinkFollowsStack`, `EditsSurvive`: events that come again or late, and others who edit the branch.
* `BedrockAcceptsHistory` (roles alternate, results follow uses): for users who wait and answer tool uses; `CurrentTextSentAndNothingTwice`, `AnswersFollowTheirQuestions`: whatever overlaps.
* `ChunksMakeTheContent` (the ends of blocks included), `ClientSeesAllResponses`, `EveryToolUseHasItsResult`, `EndedIffDone`: the adapter's indexes and accumulators.
* `DeepestRuleDecides`, `OutputsListTheRules`: policies and outputs against the rules. The first is stated for definitions in which a path has at most one parent; what happens otherwise is in 6.

* `ConfigTellsTheBackend`, `CustomPartsArrive`, `NoOutputTwice`: outputs declared early and computed late, over metadata, lists and merges.

`NoChangeLost` speaks of sandboxes that were recreated at most once. With `MaxSessions = 3` (not
among the runs; 2 million states) TLC finds it violated without this exception, and holds it with it: see 6.
`TakenLatchHasRun` makes a smaller exception: of a sandbox that was recreated twice it speaks of the session whose watcher the sandbox
knows. With `MaxSessions = 5` (not among the runs) TLC finds it violated without, after 58 steps: see 6.

Liveness: `KeepsPromise` (a refinement with fairness), `OnceEnds`,
`PausedMonitorFallsSilent`, `TurnIsAnswered`, `EnvironmentFollows`.

Every cfg says `CHECK_DEADLOCK FALSE`: each of these systems may stop, with all its work done and
no more edits, messages or operations to come (the bounds make sure of it).

## 4 Fairness

Weak fairness, and only of what the platform does by itself. The Node.js event
loop runs what is ready (`TestLatch`, timers, the steps of a run); calls to AWS
settle, because the SDK's clients have timeouts; `unsubscribe()` resolves;
`@parcel/watcher` reports pending events. There is none for the developer's edits,
for signals or for the answer to the prompt; `AnsweringFairness` adds that the prompt is
answered or closed, which `KeepsPromise` and `OnceEnds` need: a prompt nobody answers holds the latch, in the
code as in the model. `TickingSpec`, of the run about streaming, has only the monitor's own: its timers fire and its reads settle. In `ConversationTurn`, `WF(Next)` says that Bedrock and AppSync
answer every call, if only by an error, and that the Lambda is not cut off; the union of `ConversationSpec` keeps it, and
there is none for what users write. In `FunctionEnvironment`, the interval ticks as long as the function lives, and a read that
was sent is answered; failed reads are bounded together with the changes, which says that the last lookups do not fail.

## 5 The proofs

All theorems are checked by TLAPS for every value of the constants, and assume nothing beyond the named assumptions of the
modules: bounds are natural numbers, at least one request may be made, the variables of a function are finitely many, `NoRun` is no
run, no tool is called "none" or "text", and the like. TLC found each of the properties, and each of the inductive invariants below, to
hold with the bounds of its run before it was proved.

One module per group of components that a run checks together, and `SequenceLemmas.tla` below them. Most theorems follow the same
line: an invariant that says more than the property, and one lemma or step per action of `Next`, each with a part for every conjunct the
action can disturb.

### FileWatchingSandboxProofs

`TypeCorrect`: `Spec => []TypeOK`. Every other theorem rests on it. It needs `LatchInv`, which says that a run at work has a session: a run
that is rejected puts its session into `abandoned`.

`LatchCorrect`: `Spec => []LatchAdmitsOneRun`.
`LatchAdmitsOneRun` is not inductive (a state with a run in its body, an open latch
and an armed timer satisfies it, and its successor does not). `LatchInv` adds

* `LatchIsHeld`: while a run of a session is in its body the latch is not open, and the
  debounced call is armed only while it is open. So the timer never fires on a run in
  its body, although the callback that arms it has tested the latch in another step: between arming and
  firing nobody can take the latch, since only the timer does.
* `EarlySessionsIdle`: a session that is not past its bootstrap check has no run, no
  watcher and an open latch; this is what `SubscribedAndArmed` needs to arm the timer.
* `NobodyWatchesOnce`: without watching nothing is armed, and the one run of a session is
  begun by `DeployingOnce`, which `EarlySessionsIdle` shows to be alone.

`OneDeploymentCorrect`: `Spec => []OneDeployUntilRecreated`. `CallersWait` ties the executor to the
runs: every operation that waits for its timer or is in progress has a run that awaits it. With one session (`OneSession`) and one
run in its body there is one operation.

`PromiseRefined`: `Spec => Promise!Init /\ [][~Recreated => Promise!Next]_Promise!vars`, the safety half of `KeepsPromise` for as
long as the sandbox has not been recreated; a recreated one may deploy twice at once (6). Each step is one of
`DeployOnChange` or leaves its variables alone; a rejected callback is its `Miss`, a rejected run its `WatchOrNot`.

`ChangesCorrect`: `Spec => []NoChangeLost`, `LatchReleased`: `Spec => []TakenLatchHasRun`, recreated sandboxes included.
Both are for every failure there is in the model, with the exceptions named in 3: sessions in `abandoned`, and what is `missed`.
Neither is inductive, and what they need differs with the number of recreations. Two invariants carry them:

* `SessionsInv` says how sessions follow each other: a run belongs to a session past its bootstrap check (`RunsAreStarted`); the first
  session is past it before there is another (`FirstIsFirst`); a later session that is still at it is awaited by the reset
  that called `start()` (`RestartIsAwaited`); and a run whose call of `destroy` is under way awaits it (`DestroyIsAwaited`).
* `WatchersInv` says what goes on behind a watcher. For every sandbox: a session whose watcher the sandbox knows has no reset under
  way (`ResetBehindWatcher`), and if its latch is taken a run is in its body, unless the session is in `abandoned` (`LatchHasRun`). So a reset that fails leaves a latch
  taken only behind a watcher that it has closed. For a sandbox that was recreated at most once also:
  no other session watches (`OnlyCurrentWatches`), nobody watches while the sandbox is deleted (`DeletedUnwatched`), and
  a change that no attempt to deploy covers and that was not missed is with the watcher, its callback (printing the name or about to test the latch), the timer,
  the latch, or a run about to repeat (`ChangeSeen`), for every session not in `abandoned`.

The step that needs `SessionsInv` is `SubscribedAndArmed` of the second session (`EarlyIsAlone`): it makes its own watcher the one the
sandbox knows, and at that moment the first session's is closed, because its run is in the reset that awaits this very `start()`,
and no other run deletes anything, because the latch of the first session admits one.

`EditsCorrect`: `Spec => []TypeScriptEditRemembered`, also for recreated sandboxes, from `EditIsTracked`: a TypeScript edit
that no validating deployment has covered is in the events of a watcher or in the flags of the tracker.

`MonitorCorrect`: `Spec => []ActiveMonitorTicks`, which is inductive given the types.

### DeployedBackendProofs

Of the outputs file (`SandboxOutputs`):

* `TypeCorrect`: `Spec => []TypeOK`.
* `FileOfSuccess`: `Spec => []OutputsOfSuccess`, from `ReadOfSuccess`: the stack is at a deployment that succeeded, and so
  is what a handler about to write has read. It holds although handlers overlap everything, since `ReadOutputs` sees the
  stack between operations only.
* `FileFollows`: `Spec => []SpacedOutputsCurrent`. `SpacedInv` strengthens it: a handler that nothing overlaps belongs to
  the latest operation, which is over, and has read what the stack is at (`HandlerIsOfLatest`); when no handler is at work the
  file follows the stack, even while an operation runs (`FileFollowsStack`), because it may fail.

All of them rest on `HandlersOfThePast`: the operation that runs has no handler yet, nor has a later one.

`DeployedBackendTypeCorrect` adds the function's environment. `EnvironmentInv` says what the type invariant of `FunctionEnvironment`
leaves open: every key of the lookup is there once (`KeysInv`), so there are no more keys than variables, and its place is a parameter that exists.

### CommandLineProofs

* `SoundAppsCorrect` and `AssemblyCorrect` from `SoundInv`: what the deployer knows of the app is what the causes of failure
  make of it (`AppKnown`), and an assembly is there from a synthesis that went well to its disposal (`AssemblyHeld`).
* `TerminalCorrect`: `Spec => []TerminalTellsThisDeployment` from `TerminalInv`: without monitoring nothing is on display, so a
  display that a failed deployment leaves behind is empty (`DisplayInv`); the mark of a hot swap never outlives the deployment that
  swaps (`SpinnerInv`).
* `NoticesCorrect`: `NoticesSpec => []NothingWithheldUnseen`. `HonestInv`: neither the files, nor the memory of any process, nor any write
  under way has an acknowledgement that nobody asked for or a time of printing of what was not printed. Nothing is said of how
  they relate to one another: torn files, kills and lost updates only forget.
* `AcknowledgementCorrect`: `NoticesSpec => []AcknowledgedStaysAway`. An acknowledgement is alone in its process, which has
  not read the file before (`Structure`). `Calm` holds until something is disturbed: at most one write is under way, its data
  contain all that was acknowledged, the file is torn exactly during its second half and else contains all that was
  acknowledged; every process that has read the file knows what was acknowledged before it started.
* `CommandLineTypeCorrect`: the types of all three. It needs `DisplayInv` (what is on display is of a deployment that has begun) and
  `DatedInv` (no time in a file, a memory or a write under way is later than now).

### CustomResourcesProofs

* `SecretsTypeCorrect`, `SetSecretsCorrect`, `SharedSecretsCorrect`. `CoversInv`: values that were fetched for a stamp are not older than the
  secrets of the branch up to that stamp, in the resource, in the change set, and in the map of the handler. `StampInv`: the stamp is not
  older than any secret that was there at the beginning. `ReadingInv`: without an error the shared path is read only for a secret that
  was not there. `FreshInv` does the same for the shared values of an update.
* `LinkerTypeCorrect`, `LinkCorrect`, `EditsCorrect`. `StatusMatchesEvent` and `InvocationsAreOfEvent` tie the state of the stack to the event
  and handlers to the stack they were called for; `LinkInv` says what the branch may name in each state of the stack, `EditsInv` that
  a handler about to write has the latest edit.
* `CustomResourcesTypeCorrect` puts the types of both together.

### BackendSynthesisProofs

Of storage access, for any number of paths, rules, roles and actions:

* `AccessTypeCorrect`: `AccessSpec => []AccessTypeOK`, from `PathsInv`: the paths whose permissions are being added are valid and
  all different.
* `OutputsCorrect`: `AccessSpec => []OutputsListTheRules`. `OutputsInv`: the rules for roles of users are what the outputs list (those for functions reach policies only), and an output belongs to one of
  the paths so far, with the substitution its id names. So two paths that become one after substitution do not hide each other's entry.
* `PoliciesCorrect`: `AccessSpec => []DeepestRuleDecides`. `PoliciesInv`: until the policies are attached the allow sets are the rules;
  then they are the rules without those below another (`RemoveSubPathsFromSet`), and the deny sets are what these rules deny
  (`DeniedBy`). What is left is a statement about prefixes without any state: among the keys over an object there is a deepest, and
  whether it has a rule for the role is what allow and deny sets decide together.

Of the outputs:

* `DeclaredOnce`: `OutputsSpec => []NoOutputTwice`. `DeclaredInv`: each output belongs to who declares it (platform, auth, storage, custom
  parts), the metadata name only what is declared, and each is declared in one step: the storage aspect comes to every node but works
  once, and custom parts after the first find their entry there.
* `SynthesisTypeCorrect`: the types of both models. The overrides, the strategy and the merged config keep theirs (`OutputsTypeInv`).
* `BackendTold`: `OutputsSpec => []ConfigTellsTheBackend`, and `CustomPartsTold`: `OutputsSpec => []CustomPartsArrive`, for every definition of auth,
  any number of buckets, overrides and custom parts. Their invariant is `BackendInv`, a conjunction that follows the way of a value:
  `PoolInv` (the resources have the form `Construct` gives them, whatever is overridden), `StrategyInv` (the declared outputs
  are exactly those of the platform, of auth, of the buckets and of the custom parts, and the list of buckets is stored once, in order, when the aspect has
  been there; with `DeclaredInv` from above), `CustomInv` (the accumulated parts: each path is from a part that was accepted, lists are
  the concatenation of what the parts have there, only false values were overwritten), `StackInv` (the deployed outputs are what the resources
  as overridden and the accumulated parts say) and `ConfigInv` (the config is what the contributions make of that stack).
  The rest is about values: `AuthContributes`, `StorageContributes` (what a contribution says is what the resources say, over JSON, empty strings that are left
  out and names that are translated), `ManagedTells` (sections of different contributors do not meet), `OwnIsTold` (merging the custom parts keeps every
  managed value, up to what the property excepts), `CustomIsTold`, `NewestIsTold`. That two `accumulate`s agree on what is a list is what
  `ListsAssumption` is needed for: a plain value over a list would replace it.

### ConversationProofs

For any number of requests, responses, blocks and deltas of a turn:

* `ToolResultsCorrect`: `Spec => []EveryToolUseHasItsResult` from `ResultsInv`: messages alternate between responses and results, and
  a request is made only after the latter.
* `EndCorrect`: `Spec => []EndedIffDone` from `EndInv`: the closing chunk is pending exactly when the turn is about to finish, and is sent last.
* `ShownCorrect`: `Spec => []ClientSeesAllResponses` from `SeesInv`: at every moment of a streamed turn its content is what is visible of
  the responses in the history and of the one being received, in their order.
* `ChunksCorrect`: `Spec => []ChunksMakeTheContent` from `StreamInv`: what was sent, and the chunk about to be, tell the content of the turn so far and
  the text being received (`Tells`); the adapter's indexes are the lengths of these two. So the indexes, which run on over several requests and skip what is
  not shown, cannot come apart from the content. Without streaming there is one response or none (`SingleInv`).
* `ConversationTypeCorrect`: the types of turn and history. `CountsInv` bounds the indexes by what Bedrock began.

### ConversationHistoryProofs

For conversations of any length:

* `SentCorrect`: `HistorySpec => []CurrentTextSentAndNothingTwice`, and `FollowCorrect`: `HistorySpec => []AnswersFollowTheirQuestions`, both for every
  overlap of invocations and every incomplete list. `WrittenInv` says what is in the conversation (a message has the blocks of its
  kind, each marked with its place; who is being answered is a user); `SentInv` that the blocks last sent are well formed with respect to it
  (`SentWell`), which later writes do not change. The work is in the functions: `RetrieveIs` (the list is in order, without repetitions and with the
  current message), `GroupsApart` and `OrderedIs` (no message is in two groups, and an answer is right behind its question), `SquashedIs` and `CutsAre`
  (squashing is the concatenation of what each message leaves, in the same order: merging messages moves no block).
* `AcceptedCorrect`: `HistorySpec => []BedrockAcceptsHistory`. It is about users who wait, so the invariant is about the conversation they
  make. `OrderlyInv`, with `InTurn`: only the last message is being answered (`Waits`); an answer is right behind its question
  (`AnswersNext`); there is an answer between a tool use and the next question (`QuestionsWait`); a tool result is for the latest answer (`ResultsNext`), and every use was
  given an answered result before the next answer (`UsesAnswered`). The last is what makes the fourth inductive: without it an older use, whose
  result belongs to a failed invocation, could still be open. Failed turns leave questions without an answer anywhere in between. From `InTurn`, `OrderedInTurn` shows that the ordered messages come in
  turns, `OrderedProper` that they alternate and that a tool result is behind its use, and `SquashedInTurn`, by induction over the
  messages, that squashing keeps it so: the squashed part has an even number of messages whenever the current turn may begin behind it.
  The last point fails for users who do not wait (`history_repeats_role`).

### SequenceLemmas

What the proofs keep needing about sequences, stated once: the least and the greatest number of a set, induction up to a bound,
and what `FlattenSeq` and `\o` do with elements, places, order and injectivity. The library defines `FlattenSeq` and the models define `Squashed` and `Assembly`
by recursive functions, which to the provers are a CHOOSE: the lemmas first show by induction that a function with the defining
equation exists. An induction is an argument about the least number at which something fails (`LeastElement`, `InductionUpTo`),
since the library's induction theorems cannot be instantiated.

### Model-checked only

* Liveness and fairness (out of the prover's reach, as is ENABLED): `KeepsPromise` beyond its safety half, `OnceEnds`,
  `PausedMonitorFallsSilent`, `TurnIsAnswered`, `EnvironmentFollows`.
* The refinement `KeepsPromise` after a recreation: the theorem ends with the first one.

Lemmas with an operator as a parameter cannot be cited, and `SelectSeq` and `SortSeq` are opaque to the provers: where the models filter a
sequence they flatten a sequence of sequences of length one or zero.

## 6 What the models showed

Four runs are expected to be violated, each against a sentence of the repository:

* `sandbox_concurrent_deploys`: the latch that is "making sure 'cdk deploy's always execute
  one at a time" is local to a `start()`. After a refused update has recreated the sandbox from inside the
  old deployment, a change that was queued behind the old latch is deployed by the old
  loop while the new session deploys too.
* `sandbox_latch_left`: changes during a deployment are to be batched, to "trigger another 'cdk deploy' after the current one
  finishes" (`file_watching_sandbox.ts:171`). When the developer closes the prompt (line 482), or `printSandboxNameInfo` rejects before a repeated deployment
  (line 198), nothing catches it: `deployAndWatch` is rejected, the listener for unhandled rejections (`error_handler.ts:25`; a closed prompt
  is passed over in silence, line 107) keeps the process alive, and the latch stays taken behind a watcher that goes on queuing. Only the command's first deployment
  ends the command with it.
* `history_repeats_role`: a client tool use without a result, followed by another
  question, makes two user messages in a row, although "Bedrock expects that message history is
  user->assistant->user->assistant".
* `storage_parents`: validation sees paths before `{entity_id}` is replaced; afterwards
  a path can have two parents, although `findParent` says "there can only be one". The
  consequence: denials by default are taken from the first of the parents in the order of the keys only, so
  a subpath may stay open to what the other parent allows.

The models also reach the following. No run is devoted to them: either no document says what should
happen, or what happens is harmless.

* Logs mixed up (`file_watching_sandbox.ts:208`): `startStreamingLogs` is awaited with the latch
  open. The next deployment's `stopStreamingLogs` (line 186) may come before the first one's `activate()`,
  so logs are streamed during a deployment.
* Unchecked initial deployment (`file_watching_sandbox.ts:287`; the test at
  `file_watching_sandbox.test.ts:427` expects type checks on the initial one): a change of another file before the executor's timer
  fires makes the tracker say that only other files changed.
* A signal before the subscription (`sandbox.ts:18`, `file_watching_sandbox.ts:91`) finds no watcher to
  stop: nothing stops. The same holds while a session is being recreated.
* Shared promise (`sandbox_executor.ts:17`): a `deploy` and a `destroy` within the debounce
  interval share one promise, and both callers get the outcome of the later callback. It takes two sessions at work.
* Outputs missed (`sandbox_event_handler_factory.ts:51`; the README of the sandbox package, line 7): handlers
  are not awaited. When the next deployment begins before the handler's second call, the stack is in progress, the handler
  fails with a message and these outputs are not written; if that deployment fails, none are.
* Metadata and outputs of different templates
  (`stack_metadata_output_retrieval_strategy.ts:38` and `102`): two calls, and a deployment between them. The file then
  interprets outputs by the metadata of another template.
* `rm` of a file that is gone rejects in a handler that nobody awaits (`unhandled` in `SandboxOutputs`).
* Type checks announced without being made (`cdk_deployer.ts:101`): TS_STARTED is sent before
  `validateAppSources` is looked at, and without validation TS_FINISHED never is; the spinner runs on until the next event.
* The count of completed resources (`cfn_deployment_progress_logger.ts:40`, `139`): a stack that reports
  COMPLETE_CLEANUP_IN_PROGRESS and then COMPLETE counts twice.
* The fallback message is not repaired (`conversation_message_history_retriever.ts:282`, `322`): null
  properties are removed from listed messages only.
* A newer version than asked for (`backend_factory.ts:142`, `object_accumulator.ts:70`): the first custom output carries
  version 1.4, and the newest version of all parts is kept; a config generated for 1.1 has the content of 1.1 and says 1.4.
* Managed values replaced without an error (`object_accumulator.ts:60`, whose doc at line 51 says that accumulating throws on any
  intersection): `false` and `''` are overwritten, lists are joined, and a plain value over a whole section replaces the section.
  `ConfigTellsTheBackend` and `CustomPartsArrive` except exactly these.
* A required second factor without any (`auth-construct/src/types.ts:129` says that one is required): with email sign-in
  `{ sms: false, totp: false }` is not refused by this repository; `mfa_methods` is then empty.
* A tool result can be taken out of its own turn (`conversation_message_history_retriever.ts:162`, `204`): when a later question was answered
  before it, the later question is taken for the start of the current turn.
* A change that waits for the next one (`file_watching_sandbox.ts:224`): when `printSandboxNameInfo` rejects in a watcher callback, the change is
  tracked but the latch is not tested. It is deployed with the next change, or with a deployment under way that has yet to begin.
* Two prompts for one deployment (`file_watching_sandbox.ts:384`): two sessions may share one refused deployment, and each asks whether to
  recreate the sandbox. The first answer deletes, and its new session deploys; the second answer deletes that. The third session then
  deploys once more, but the session in the middle has come to rest with its changes undone.
* A watcher that nobody can close (`file_watching_sandbox.ts:215`, `265`): two sessions that reset at a time each call `start()`, and both
  new sessions watch. `this.watcherSubscription` is the latter's: `stop()` does not close the former's, whether it is called for
  a signal or by a reset of that former session. If such a reset fails, the session goes on watching behind a latch that stays taken,
  and queues every change behind it. It takes a recreated sandbox whose two sessions both reset.
* Lost acknowledgements (`notices_controller.ts:84`): two processes that acknowledge at once each write what they have read. A process
  killed within `writeFile`, or one that reads in the middle of it, leaves or finds a file that counts as empty; the next
  acknowledgement then drops all earlier ones. A process that was at work when a notice was acknowledged goes on showing it.
* Printing times in the same way: an update that gets lost shows a notice twice. The opposite, a notice withheld, does not happen.
* Secrets that do not arrive in a sandbox (`backend_secret_fetcher_factory.ts:78`): the stamp is the time of the latest of its own secrets, so a
  shared secret that changes, or a secret of its own that is removed and was not the latest, changes nothing and the fetcher is not called.
* A throttled read (`backend_secret_fetcher.ts:69`): an error below 500 in the branch path is dropped, and the shared value is taken without a word.
* A late `Delete` (`branch_linker.ts:54`) unlinks whatever stack the branch has by then: the handler does not look whose link it unsets.
* An edit in the console between the handler's read and its write (`branch_linker.ts:89`) is undone.
* Two variables with one secret (`resolve_ssm_params.ts:64`): the value is given to the first of them, the second keeps its placeholder.
* A text told for a variable after a secret (`function_env_translator.ts`): the lookup replaces it by the secret.
* A parameter that is removed keeps its old value in a running function.

Met while reading, and not modelled: `sandbox secret remove --all` gives all names to one call of `DeleteParameters`, which takes ten;
`listBackendsInternal` (`deployed_backend_client.ts:143`) goes on to the next page only while pages are empty.

## 7 What is left out

`PROJECT.json` lists every component with its status. Left out for good: code generators, package managers and
prompts, create-amplify, commands that make one call after the other, telemetry and error classes, the error
mapper (a table of regular expressions), schemas and types. They keep no state, or only format it, and what could be wrong
in them is shown by a unit test. More than half of the lines of the packages are recorded events of the CDK, with which the loggers are
tested, and integration tests; they are data, not behaviour. Left out so far: what the plan names.

Below the abstraction of the modelled parts: texts and layout; log events; contents of templates and messages;
times (a timer may fire at any moment after it was set); the toolkit, CloudFormation, Bedrock, AppSync, SSM and Amplify, of
which only the outcomes are modelled; memory and process limits. The outputs file is written atomically, the files of the notices are not.

## 8 The plan

Done in this order: the sandbox with executor, tracker and streaming, since everything else hangs on it; its abstract
promise; its proofs; the outputs file and the deployer behind it; the conversation runtime; storage access; the outputs of a
backend and the client config; the custom resources of a branch; notices and their files; the environment of functions; the proofs of
the safety properties of all of these. To come:

1. The rest of auth: the factory's access rules, translation of its properties, the reference auth initializer.
2. The singleton container and nested stacks of `defineBackend`: factories that ask for each other's constructs.
3. Data: authorization modes and the combination of schemas.
4. The deployed backend client: lists over pages, and deletion.
