-------------------------- MODULE FunctionEnvironment --------------------------
(***************************************************************************)
(* The environment of one function: FunctionEnvironmentTranslator, to      *)
(* which the program gives texts, secrets and parameters of resources      *)
(* while it is synthesized, and the code at the head of the function's     *)
(* bundle, which looks the parameters up before the handler is loaded and  *)
(* again with every tick of an interval.                                   *)
(*                                                                         *)
(* Nothing keeps one lookup from overlapping the next.  Parameters are     *)
(* read in chunks that are under way together: here each one is read at a  *)
(* time of its own.                                                        *)
(***************************************************************************)
EXTENDS Integers, Sequences, FiniteSets

CONSTANTS
    Variables,      \* names
    Shared,         \* secrets of the program
    MaxEntries,     \* bound: entries given to the translator
    MaxChanges,     \* bound: changes of parameters and failed reads
    Lookups         \* calls of internalAmplifyFunctionResolveSsmParams under way

ASSUME EnvironmentBoundsAssumption ==
    MaxEntries \in Nat /\ MaxChanges \in Nat /\ IsFiniteSet(Variables)

VARIABLES
    entries,        \* entries so far
    told,           \* ghost: the last entry of each variable
    lambdaEnv,      \* environment of the function's resource
    ssmKeys,        \* keys of ssmEnvVars in the order of their insertion
    ssmEnvVars,     \* where the value of each is looked up
    stage,          \* of the function's process
    parameters,     \* version of each parameter, 0 for none
    changes,        \* changes of parameters and failed reads so far
    env,            \* process.env
    lookup          \* state of each lookup

translatorVars == <<entries, told, lambdaEnv, ssmKeys, ssmEnvVars>>
environmentVars == <<translatorVars, stage, parameters, changes, env, lookup>>

BranchPath(s) == <<"branch", s>>
SharedPath(s) == <<"shared", s>>
ResourcePath(v) == <<"resource", v>>
NoPath == <<>>
ParameterPaths == {"branch", "shared"} \X Shared \union {"resource"} \X Variables
Version == 0..MaxChanges

Text == [kind |-> "text"]
Placeholder == [kind |-> "placeholder"]
Unset == [kind |-> "unset"]
Value(path, version) == [kind |-> "value", path |-> path, version |-> version]
EnvValues == {Text, Placeholder, Unset}
             \union [kind : {"value"}, path : ParameterPaths, version : Version \ {0}]

\* Where a variable is looked up.
Places == [path : ParameterPaths \union {NoPath}, sharedPath : ParameterPaths \union {NoPath}]
NoPlace == [path |-> NoPath, sharedPath |-> NoPath]
PlaceOfSecret(s) == [path |-> BranchPath(s), sharedPath |-> SharedPath(s)]
PlaceOfResource(v) == [path |-> ResourcePath(v), sharedPath |-> NoPath]

\* What a lookup has still to read of the paths it asks for, and what it has read.
NoLookup == [pc |-> "idle", unread |-> {}, read |-> {}]
Asks(pc, paths) == [pc |-> pc, unread |-> paths, read |-> {}]

EnvironmentTypeOK ==
    /\ entries \in 0..MaxEntries
    /\ told \in [Variables -> Places \union {Text, Unset}]
    /\ lambdaEnv \in [Variables -> {Text, Placeholder, Unset}]
    /\ ssmEnvVars \in [Variables -> Places]
    /\ ssmKeys \in Seq(Variables) /\ Len(ssmKeys) <= Cardinality(Variables)
    /\ stage \in {"synthesis", "loading", "ready"}
    /\ parameters \in [ParameterPaths -> Version]
    /\ changes \in Version
    /\ env \in [Variables -> EnvValues]
    /\ \A l \in Lookups : /\ lookup[l].pc \in {"idle", "path", "sharedPath"}
                          /\ lookup[l].unread \subseteq ParameterPaths
                          /\ lookup[l].read \subseteq ParameterPaths \X Version

EnvironmentInit ==
    /\ entries = 0
    /\ told = [v \in Variables |-> Unset]
    /\ lambdaEnv = [v \in Variables |-> Unset]
    /\ ssmKeys = <<>>
    /\ ssmEnvVars = [v \in Variables |-> NoPlace]
    /\ stage = "synthesis"
    /\ parameters \in [ParameterPaths -> 0..0]
    /\ changes = 0
    /\ env = lambdaEnv
    /\ lookup = [l \in Lookups |-> NoLookup]

-----------------------------------------------------------------------------
(* FunctionEnvironmentTranslator, during synthesis.                         *)

Keys == {ssmKeys[i] : i \in DOMAIN ssmKeys}

Adds(v, entry) ==
    /\ stage = "synthesis" /\ entries < MaxEntries
    /\ entries' = entries + 1
    /\ told' = [told EXCEPT ![v] = entry]
    /\ UNCHANGED <<stage, parameters, changes, env, lookup>>

\* addEnvironmentEntry with a text: where the variable was looked up is kept.
AddText(v) ==
    /\ Adds(v, Text)
    /\ lambdaEnv' = [lambdaEnv EXCEPT ![v] = Text]
    /\ UNCHANGED <<ssmKeys, ssmEnvVars>>

LookedUpAt(v, place) ==
    /\ Adds(v, place)
    /\ lambdaEnv' = [lambdaEnv EXCEPT ![v] = Placeholder]
    /\ ssmEnvVars' = [ssmEnvVars EXCEPT ![v] = place]
    /\ ssmKeys' = IF v \in Keys THEN ssmKeys ELSE Append(ssmKeys, v)

\* addEnvironmentEntry with a secret.
AddSecret(v, s) == LookedUpAt(v, PlaceOfSecret(s))

\* addSsmEnvironmentEntry: an output of a resource that the function may access.
AddSsmEntry(v) == LookedUpAt(v, PlaceOfResource(v))

-----------------------------------------------------------------------------
(* internalAmplifyFunctionResolveSsmParams                                  *)

\* A lookup of nothing returns at once.
StartLookup(l) ==
    /\ lookup[l] = NoLookup /\ ssmKeys # <<>>
    /\ lookup' = [lookup EXCEPT ![l] = Asks("path", {ssmEnvVars[k].path : k \in Keys})]

\* The function is deployed and its first process loads the bundle.
Load(l) ==
    /\ stage = "synthesis"
    /\ env' = lambdaEnv
    /\ IF ssmKeys = <<>> THEN stage' = "ready" /\ UNCHANGED lookup
                         ELSE stage' = "loading" /\ StartLookup(l)
    /\ UNCHANGED <<translatorVars, parameters, changes>>

\* setInterval, once the first lookup is done.
Tick(l) ==
    /\ stage = "ready"
    /\ StartLookup(l)
    /\ UNCHANGED <<translatorVars, stage, parameters, changes, env>>

Read(l) ==
    /\ \E path \in lookup[l].unread :
           lookup' = [lookup EXCEPT ![l].unread = @ \ {path},
                                    ![l].read = @ \union {<<path, parameters[path]>>}]
    /\ UNCHANGED <<translatorVars, stage, parameters, changes, env>>

\* Mutant: a parameter is matched with the branch's path only.
EnvKeysOfPathOnly(path) == {k \in Keys : ssmEnvVars[k].path = path}

\* The keys that a parameter is looked up for.
EnvKeys(path) == {k \in Keys : path \in {ssmEnvVars[k].path, ssmEnvVars[k].sharedPath}}

Index(v) == CHOOSE i \in DOMAIN ssmKeys : ssmKeys[i] = v

\* A parameter that was found is given to the first of them.
IsGiven(v, path) == v \in EnvKeys(path) /\ \A k \in EnvKeys(path) : Index(v) <= Index(k)

Written(read) ==
    [v \in Variables |->
        IF \E r \in read : r[2] # 0 /\ IsGiven(v, r[1])
        THEN LET r == CHOOSE r \in read : r[2] # 0 /\ IsGiven(v, r[1]) IN Value(r[1], r[2])
        ELSE env[v]]

\* Mutant: parameters of resources, which have no shared path, are not filtered out.
SharedPathsUnfiltered(read) ==
    {ssmEnvVars[k].sharedPath : k \in {k \in Keys : <<ssmEnvVars[k].path, 0>> \in read}}

\* The shared paths of the parameters that were not found.
SharedPaths(read) ==
    {ssmEnvVars[k].sharedPath : k \in {k \in Keys : <<ssmEnvVars[k].path, 0>> \in read}} \ {NoPath}

LookupEnds(l) ==
    /\ lookup' = [lookup EXCEPT ![l] = NoLookup]
    /\ stage' = "ready"

\* resolveSecrets: all chunks have been read.  What was not found is looked up
\* in the shared path.
Write(l) ==
    /\ lookup[l].pc # "idle" /\ lookup[l].unread = {}
    /\ env' = Written(lookup[l].read)
    /\ LET sharedPaths == SharedPaths(lookup[l].read)
       IN  IF lookup[l].pc = "path" /\ sharedPaths # {}
           THEN lookup' = [lookup EXCEPT ![l] = Asks("sharedPath", sharedPaths)] /\ UNCHANGED stage
           ELSE LookupEnds(l)
    /\ UNCHANGED <<translatorVars, parameters, changes>>

\* A chunk fails, and with it the lookup, before it has written anything of this
\* step.  The interval goes on; while the bundle is loaded the process ends, and
\* a new one loads it.
ReadFails(l) ==
    /\ lookup[l].unread # {} /\ changes < MaxChanges
    /\ changes' = changes + 1
    /\ IF stage = "ready" THEN lookup' = [lookup EXCEPT ![l] = NoLookup] /\ UNCHANGED env
       ELSE /\ lookup' = [lookup EXCEPT ![l] = Asks("path", {ssmEnvVars[k].path : k \in Keys})]
            /\ env' = lambdaEnv
    /\ UNCHANGED <<translatorVars, stage, parameters>>

-----------------------------------------------------------------------------
(* Parameters are set and removed by commands and deployments; before the   *)
(* bundle is loaded that is as good as before the first read.               *)

Change(path) ==
    /\ stage # "synthesis" /\ changes < MaxChanges
    /\ changes' = changes + 1
    /\ \/ parameters' = [parameters EXCEPT ![path] = changes + 1]
       \/ parameters[path] # 0 /\ parameters' = [parameters EXCEPT ![path] = 0]
    /\ UNCHANGED <<translatorVars, stage, env, lookup>>

EnvironmentNext ==
    \/ \E v \in Variables : AddText(v) \/ AddSsmEntry(v) \/ \E s \in Shared : AddSecret(v, s)
    \/ \E l \in Lookups : Load(l) \/ Tick(l) \/ Read(l) \/ Write(l) \/ ReadFails(l)
    \/ \E path \in ParameterPaths : Change(path)

\* The interval ticks and calls are answered; with the bound on failed reads,
\* not all of them fail for ever.
EnvironmentFairness ==
    \A l \in Lookups :
        WF_environmentVars(Tick(l)) /\ WF_environmentVars(Read(l) \/ Write(l) \/ ReadFails(l))

EnvironmentSpec == EnvironmentInit /\ [][EnvironmentNext]_environmentVars /\ EnvironmentFairness

-----------------------------------------------------------------------------
(* Properties. *)

\* A secret of which an earlier variable is told the same, or a text that was
\* told for a variable that had been looked up before.
Overlooked(v) ==
    \/ told[v] = Text /\ v \in Keys
    \/ told[v] \in Places /\ ~IsGiven(v, told[v].path)

IsTold(v) ==
    CASE told[v] \in {Text, Unset} -> env[v] = told[v]
      [] parameters[told[v].path] # 0 ->
             env[v] = Value(told[v].path, parameters[told[v].path])
      [] told[v].sharedPath # NoPath /\ parameters[told[v].sharedPath] # 0 ->
             env[v] = Value(told[v].sharedPath, parameters[told[v].sharedPath])
      [] OTHER -> TRUE

\* The interval keeps a running function up to date: when the parameters change
\* no more, every variable comes to have, for good, what the program has said
\* last - a text, the value of the branch's secret or else of the shared one, the
\* output of a resource - although lookups overlap, fail and write what has
\* changed since they read it; but see Overlooked.
EnvironmentFollows ==
    stage # "synthesis" ~> [](\A v \in Variables : ~Overlooked(v) => IsTold(v))

================================================================================
