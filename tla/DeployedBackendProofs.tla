------------------------ MODULE DeployedBackendProofs ------------------------
(***************************************************************************)
(* Theorems about what follows a deployed backend, for every value of the  *)
(* constants: SandboxOutputs, and the types of FunctionEnvironment.        *)
(***************************************************************************)
EXTENDS MCDeployedBackend, FiniteSetTheorems, TLAPS

-----------------------------------------------------------------------------
(* SandboxOutputs: the inductive invariants. *)

\* The operation that runs has a number, and neither it nor a later one has a
\* handler yet.
HandlersOfThePast ==
    /\ ~started => op = 0 /\ running = "none"
    /\ running # "none" => op \in Operations /\ handler[op].at = "none"
    /\ \A n \in Operations : n > op => handler[n].at = "none"

\* The stack, and what a handler has read of it, are of deployments that
\* succeeded; so is what the file holds.
ReadOfSuccess ==
    /\ deployed # 0 => deployed \in succeeded
    /\ \A n \in Operations : handler[n].at = "write" => handler[n].outputs \in succeeded
    /\ OutputsOfSuccess

\* A handler at work that nothing overlaps belongs to the latest operation,
\* which is over, and what it has read is what the stack is at.
HandlerIsOfLatest ==
    \A n \in Operations : AtWork(n) =>
        /\ n = op /\ running = "none"
        /\ handler[n].at = "remove" => deployed = 0
        /\ handler[n].at # "remove" => deployed # 0
        /\ handler[n].at \in {"describe", "write"} => handler[n].metadata = deployed
        /\ handler[n].at = "write" => handler[n].outputs = deployed

\* When no handler is at work the file follows the stack, an operation that
\* runs or not.
FileFollowsStack ==
    (\A n \in Operations : ~AtWork(n)) =>
        /\ deployed # 0 => file = [metadata |-> deployed, outputs |-> deployed]
        /\ (deployed = 0 /\ \E n \in Operations : handler[n].at = "done") => file = NoFile

SpacedInv == ~overlapped /\ NoneFailed => HandlerIsOfLatest /\ FileFollowsStack

OutputsInv == TypeOK /\ HandlersOfThePast /\ ReadOfSuccess /\ SpacedInv

-----------------------------------------------------------------------------
(* Their steps. *)

LEMMA InitiallyOutputsInv == Init => OutputsInv
<1> SUFFICES ASSUME Init PROVE OutputsInv
  OBVIOUS
<1>1. TypeOK
  <2>1. Idle \in Handlers
    BY MaxOperationsAssumption DEF Idle, Handlers, Numbers
  <2>2. handler \in [Operations -> Handlers]
    BY <2>1 DEF Init
  <2>3. file \in Contents
    BY MaxOperationsAssumption DEF Init, Contents, NoFile, EmptyFile
  <2>4. op \in Numbers /\ deployed \in Numbers
    BY MaxOperationsAssumption DEF Init, Numbers
  <2> QED BY <2>2, <2>3, <2>4, Zenon DEF Init, TypeOK
<1>2. HandlersOfThePast
  BY DEF Init, HandlersOfThePast, Idle
<1>3. ReadOfSuccess
  BY DEF Init, ReadOfSuccess, OutputsOfSuccess, Idle, NoFile, EmptyFile
<1>4. SpacedInv
  BY DEF Init, SpacedInv, HandlerIsOfLatest, FileFollowsStack, AtWork, Idle
<1> QED BY <1>1, <1>2, <1>3, <1>4 DEF OutputsInv

LEMMA TypeStep ==
    ASSUME TypeOK, HandlersOfThePast, [Next]_vars
    PROVE  TypeOK' /\ HandlersOfThePast'
<1> USE MaxOperationsAssumption
<1>1. ASSUME StartSandbox
      PROVE  TypeOK' /\ HandlersOfThePast'
  BY <1>1 DEF StartSandbox, TypeOK, HandlersOfThePast, Handlers, Numbers, Operations,
     Contents, NoFile, EmptyFile
<1>2. ASSUME NEW kind \in {"deploy", "delete"}, OperationBegins(kind)
      PROVE  TypeOK' /\ HandlersOfThePast'
  BY <1>2 DEF OperationBegins, TypeOK, HandlersOfThePast, Handlers, Numbers, Operations
<1>3. ASSUME OperationFails
      PROVE  TypeOK' /\ HandlersOfThePast'
  BY <1>3 DEF OperationFails, TypeOK, HandlersOfThePast, Handlers, Numbers, Operations
<1>4. ASSUME OperationSucceeds
      PROVE  TypeOK' /\ HandlersOfThePast'
  BY <1>4 DEF OperationSucceeds, TypeOK, HandlersOfThePast, Handlers, Numbers, Operations
<1>5. ASSUME NEW n \in Operations, HandlerFails(n)
      PROVE  TypeOK' /\ HandlersOfThePast'
  BY <1>5 DEF HandlerFails, TypeOK, HandlersOfThePast, Handlers, Numbers, Operations
<1>6. ASSUME NEW n \in Operations, ReadMetadata(n)
      PROVE  TypeOK' /\ HandlersOfThePast'
  <2>1. PICK t \in Numbers : /\ t = deployed \/ (running = "deploy" /\ t = op)
                             /\ handler' = [handler EXCEPT ![n].at = "describe",
                                                           ![n].metadata = t]
    BY <1>6 DEF ReadMetadata, TypeOK
  <2>2. handler[n].at = "summary" /\ UNCHANGED <<started, op, running, deployed, file,
                                                  succeeded, overlapped, unhandled>>
    BY <1>6 DEF ReadMetadata
  <2> QED BY <2>1, <2>2 DEF TypeOK, HandlersOfThePast, Handlers, Numbers, Operations
<1>7. ASSUME NEW n \in Operations, ReadOutputs(n)
      PROVE  TypeOK' /\ HandlersOfThePast'
  BY <1>7 DEF ReadOutputs, TypeOK, HandlersOfThePast, Handlers, Numbers, Operations
<1>8. ASSUME NEW n \in Operations, WriteConfig(n)
      PROVE  TypeOK' /\ HandlersOfThePast'
  BY <1>8 DEF WriteConfig, TypeOK, HandlersOfThePast, Handlers, Numbers, Operations,
     Contents, NoFile, EmptyFile
<1>9. ASSUME NEW n \in Operations, DeleteConfig(n)
      PROVE  TypeOK' /\ HandlersOfThePast'
  <2>1. PICK at \in {"failed", "done"} :
            /\ at = IF file = NoFile THEN "failed" ELSE "done"
            /\ handler' = [handler EXCEPT ![n].at = at]
    BY <1>9 DEF DeleteConfig
  <2>2. /\ handler[n].at = "remove" /\ file' = NoFile
        /\ unhandled' \in BOOLEAN
        /\ UNCHANGED <<started, op, running, deployed, succeeded, overlapped>>
    BY <1>9, Zenon DEF DeleteConfig, TypeOK
  <2>3. handler' \in [Operations -> Handlers]
    BY <2>1 DEF TypeOK, Handlers
  <2>4. file' \in Contents
    BY <2>2 DEF Contents, NoFile
  <2>5. TypeOK'
    BY <2>2, <2>3, <2>4, Zenon DEF TypeOK
  <2>6. HandlersOfThePast'
    BY <2>1, <2>2 DEF TypeOK, HandlersOfThePast, Handlers, Numbers, Operations
  <2> QED BY <2>5, <2>6
<1>10. CASE UNCHANGED vars
  BY <1>10 DEF vars, TypeOK, HandlersOfThePast, Handlers, Numbers, Operations
<1> QED BY <1>1, <1>2, <1>3, <1>4, <1>5, <1>6, <1>7, <1>8, <1>9, <1>10 DEF Next, HandlerStep

LEMMA SuccessStep ==
    ASSUME TypeOK, HandlersOfThePast, ReadOfSuccess, [Next]_vars
    PROVE  ReadOfSuccess'
<1>1. ASSUME StartSandbox
      PROVE  ReadOfSuccess'
  BY <1>1 DEF StartSandbox, TypeOK, HandlersOfThePast, ReadOfSuccess, OutputsOfSuccess,
     Handlers, NoFile, EmptyFile
<1>2. ASSUME NEW kind \in {"deploy", "delete"}, OperationBegins(kind)
      PROVE  ReadOfSuccess'
  BY <1>2 DEF OperationBegins, TypeOK, HandlersOfThePast, ReadOfSuccess, OutputsOfSuccess,
     Handlers
<1>3. ASSUME OperationFails
      PROVE  ReadOfSuccess'
  BY <1>3 DEF OperationFails, TypeOK, HandlersOfThePast, ReadOfSuccess, OutputsOfSuccess,
     Handlers
<1>4. ASSUME OperationSucceeds
      PROVE  ReadOfSuccess'
  BY <1>4 DEF OperationSucceeds, TypeOK, HandlersOfThePast, ReadOfSuccess, OutputsOfSuccess,
     Handlers, Operations
<1>5. ASSUME NEW n \in Operations, HandlerFails(n)
      PROVE  ReadOfSuccess'
  BY <1>5 DEF HandlerFails, TypeOK, HandlersOfThePast, ReadOfSuccess, OutputsOfSuccess,
     Handlers
<1>6. ASSUME NEW n \in Operations, ReadMetadata(n)
      PROVE  ReadOfSuccess'
  <2>1. PICK t \in Numbers : /\ t = deployed \/ (running = "deploy" /\ t = op)
                             /\ handler' = [handler EXCEPT ![n].at = "describe",
                                                           ![n].metadata = t]
    BY <1>6 DEF ReadMetadata, TypeOK
  <2>2. handler[n].at = "summary" /\ UNCHANGED <<started, op, running, deployed, file,
                                                  succeeded, overlapped, unhandled>>
    BY <1>6 DEF ReadMetadata
  <2> QED BY <2>1, <2>2 DEF TypeOK, HandlersOfThePast, ReadOfSuccess, OutputsOfSuccess,
     Handlers
<1>7. ASSUME NEW n \in Operations, ReadOutputs(n)
      PROVE  ReadOfSuccess'
  BY <1>7 DEF ReadOutputs, TypeOK, HandlersOfThePast, ReadOfSuccess, OutputsOfSuccess,
     Handlers
<1>8. ASSUME NEW n \in Operations, WriteConfig(n)
      PROVE  ReadOfSuccess'
  BY <1>8 DEF WriteConfig, TypeOK, HandlersOfThePast, ReadOfSuccess, OutputsOfSuccess,
     Handlers
<1>9. ASSUME NEW n \in Operations, DeleteConfig(n)
      PROVE  ReadOfSuccess'
  <2>1. PICK at \in {"failed", "done"} :
            /\ at = IF file = NoFile THEN "failed" ELSE "done"
            /\ handler' = [handler EXCEPT ![n].at = at]
    BY <1>9 DEF DeleteConfig
  <2>2. /\ handler[n].at = "remove" /\ file' = NoFile
        /\ unhandled' \in BOOLEAN
        /\ UNCHANGED <<started, op, running, deployed, succeeded, overlapped>>
    BY <1>9, Zenon DEF DeleteConfig, TypeOK
  <2> QED BY <2>1, <2>2 DEF TypeOK, HandlersOfThePast, ReadOfSuccess, OutputsOfSuccess,
     Handlers, NoFile
<1>10. CASE UNCHANGED vars
  BY <1>10 DEF vars, TypeOK, HandlersOfThePast, ReadOfSuccess, OutputsOfSuccess, Handlers
<1> QED BY <1>1, <1>2, <1>3, <1>4, <1>5, <1>6, <1>7, <1>8, <1>9, <1>10 DEF Next, HandlerStep

LEMMA SpacedStep ==
    ASSUME TypeOK, HandlersOfThePast, SpacedInv, [Next]_vars
    PROVE  SpacedInv'
<1>1. ASSUME StartSandbox
      PROVE  SpacedInv'
  BY <1>1 DEF StartSandbox, TypeOK, HandlersOfThePast, SpacedInv, HandlerIsOfLatest,
     FileFollowsStack, NoneFailed, AtWork, Handlers, Operations, Numbers, NoFile
<1>2. ASSUME NEW kind \in {"deploy", "delete"}, OperationBegins(kind)
      PROVE  SpacedInv'
  BY <1>2 DEF OperationBegins, TypeOK, HandlersOfThePast, SpacedInv, HandlerIsOfLatest,
     FileFollowsStack, NoneFailed, AtWork, Handlers, Operations, Numbers
<1>3. ASSUME OperationFails
      PROVE  SpacedInv'
  BY <1>3 DEF OperationFails, TypeOK, HandlersOfThePast, SpacedInv, HandlerIsOfLatest,
     FileFollowsStack, NoneFailed, AtWork, Handlers, Operations, Numbers
<1>4. ASSUME OperationSucceeds
      PROVE  SpacedInv'
  BY <1>4 DEF OperationSucceeds, TypeOK, HandlersOfThePast, SpacedInv, HandlerIsOfLatest,
     FileFollowsStack, NoneFailed, AtWork, Handlers, Operations, Numbers
<1>5. ASSUME NEW n \in Operations, HandlerFails(n)
      PROVE  SpacedInv'
  BY <1>5 DEF HandlerFails, TypeOK, HandlersOfThePast, SpacedInv, HandlerIsOfLatest,
     FileFollowsStack, NoneFailed, AtWork, Handlers, Operations, Numbers
<1>6. ASSUME NEW n \in Operations, ReadMetadata(n)
      PROVE  SpacedInv'
  <2>1. PICK t \in Numbers : /\ t = deployed \/ (running = "deploy" /\ t = op)
                             /\ handler' = [handler EXCEPT ![n].at = "describe",
                                                           ![n].metadata = t]
    BY <1>6 DEF ReadMetadata, TypeOK
  <2>2. handler[n].at = "summary" /\ UNCHANGED <<started, op, running, deployed, file,
                                                  succeeded, overlapped, unhandled>>
    BY <1>6 DEF ReadMetadata
  <2>3. SUFFICES ASSUME ~overlapped', NoneFailed'
                 PROVE  HandlerIsOfLatest' /\ FileFollowsStack'
    BY DEF SpacedInv
  <2>4. \A m \in Operations : m # n => handler'[m] = handler[m]
    BY <2>1 DEF TypeOK
  <2>5. handler'[n].at = "describe" /\ handler'[n].metadata = t
    BY <2>1 DEF TypeOK, Handlers
  <2>6. NoneFailed
    BY <2>2, <2>3, <2>4 DEF NoneFailed
  <2>7. HandlerIsOfLatest /\ AtWork(n)
    BY <2>2, <2>3, <2>6 DEF SpacedInv, AtWork
  <2>8. n = op /\ running = "none" /\ deployed # 0 /\ t = deployed
    BY <2>1, <2>2, <2>7 DEF HandlerIsOfLatest
  <2>9. HandlerIsOfLatest'
    <3> SUFFICES ASSUME NEW m \in Operations, AtWork(m)'
                 PROVE  /\ m = op /\ running = "none"
                        /\ handler'[m].at = "remove" => deployed = 0
                        /\ handler'[m].at # "remove" => deployed # 0
                        /\ handler'[m].at \in {"describe", "write"} =>
                              handler'[m].metadata = deployed
                        /\ handler'[m].at = "write" => handler'[m].outputs = deployed
      BY <2>2 DEF HandlerIsOfLatest
    <3>1. CASE m = n
      BY <2>5, <2>8, <3>1
    <3>2. CASE m # n
      BY <2>4, <2>7, <3>2 DEF HandlerIsOfLatest, AtWork
    <3> QED BY <3>1, <3>2
  <2>10. AtWork(n)'
    BY <2>5 DEF AtWork
  <2> QED BY <2>9, <2>10 DEF FileFollowsStack
<1>7. ASSUME NEW n \in Operations, ReadOutputs(n)
      PROVE  SpacedInv'
  BY <1>7 DEF ReadOutputs, TypeOK, HandlersOfThePast, SpacedInv, HandlerIsOfLatest,
     FileFollowsStack, NoneFailed, AtWork, Handlers, Operations, Numbers
<1>8. ASSUME NEW n \in Operations, WriteConfig(n)
      PROVE  SpacedInv'
  BY <1>8 DEF WriteConfig, TypeOK, HandlersOfThePast, SpacedInv, HandlerIsOfLatest,
     FileFollowsStack, NoneFailed, AtWork, Handlers, Operations, Numbers
<1>9. ASSUME NEW n \in Operations, DeleteConfig(n)
      PROVE  SpacedInv'
  <2>1. PICK at \in {"failed", "done"} :
            /\ at = IF file = NoFile THEN "failed" ELSE "done"
            /\ handler' = [handler EXCEPT ![n].at = at]
    BY <1>9 DEF DeleteConfig
  <2>2. /\ handler[n].at = "remove" /\ file' = NoFile
        /\ unhandled' \in BOOLEAN
        /\ UNCHANGED <<started, op, running, deployed, succeeded, overlapped>>
    BY <1>9, Zenon DEF DeleteConfig, TypeOK
  <2> QED BY <2>1, <2>2 DEF TypeOK, HandlersOfThePast, SpacedInv, HandlerIsOfLatest,
     FileFollowsStack, NoneFailed, AtWork, Handlers, Operations, Numbers
<1>10. CASE UNCHANGED vars
  BY <1>10 DEF vars, TypeOK, HandlersOfThePast, SpacedInv, HandlerIsOfLatest,
     FileFollowsStack, NoneFailed, AtWork, Handlers, Operations, Numbers
<1> QED BY <1>1, <1>2, <1>3, <1>4, <1>5, <1>6, <1>7, <1>8, <1>9, <1>10 DEF Next, HandlerStep

-----------------------------------------------------------------------------
(* The theorems. *)

LEMMA OutputsInvariant == Spec => []OutputsInv
<1>1. OutputsInv /\ [Next]_vars => OutputsInv'
  BY TypeStep, SuccessStep, SpacedStep DEF OutputsInv
<1> QED BY InitiallyOutputsInv, <1>1, PTL DEF Spec

\* The variables keep their types.
THEOREM TypeCorrect == Spec => []TypeOK
<1>1. OutputsInv => TypeOK
  BY DEF OutputsInv
<1> QED BY OutputsInvariant, <1>1, PTL

\* Whatever overlaps, the outputs file never holds outputs of a deployment that
\* did not succeed (fetchBackendOutput refuses stacks in progress).
THEOREM FileOfSuccess == Spec => []OutputsOfSuccess
<1>1. OutputsInv => OutputsOfSuccess
  BY DEF OutputsInv, ReadOfSuccess
<1> QED BY OutputsInvariant, <1>1, PTL

\* While each handler is done before the next operation begins and none fails,
\* the outputs file follows the stack (the handlers of the sandbox's events).
THEOREM FileFollows == Spec => []SpacedOutputsCurrent
<1>1. OutputsInv => SpacedOutputsCurrent
  BY DEF OutputsInv, SpacedInv, FileFollowsStack, SpacedOutputsCurrent, Quiet
<1> QED BY OutputsInvariant, <1>1, PTL

-----------------------------------------------------------------------------
(* FunctionEnvironment: the keys are of different variables, and each is     *)
(* looked up somewhere.                                                      *)
LookupStates == [pc : {"idle", "path", "sharedPath"}, unread : SUBSET ParameterPaths,
                 read : SUBSET (ParameterPaths \X Version)]

KeysInv ==
    /\ \A i, j \in DOMAIN ssmKeys : ssmKeys[i] = ssmKeys[j] => i = j
    /\ \A k \in Keys : ssmEnvVars[k].path \in ParameterPaths

ValuesInv ==
    /\ entries \in 0..MaxEntries
    /\ told \in [Variables -> Places \union {Text, Unset}]
    /\ lambdaEnv \in [Variables -> {Text, Placeholder, Unset}]
    /\ ssmEnvVars \in [Variables -> Places]
    /\ ssmKeys \in Seq(Variables)
    /\ stage \in {"synthesis", "loading", "ready"}
    /\ parameters \in [ParameterPaths -> Version]
    /\ changes \in Version
    /\ env \in [Variables -> EnvValues]
    /\ lookup \in [Lookups -> LookupStates]

EnvironmentInv == ValuesInv /\ KeysInv

\* No more keys than variables.
LEMMA FewKeys == EnvironmentInv => Len(ssmKeys) <= Cardinality(Variables)
<1> SUFFICES ASSUME EnvironmentInv PROVE Len(ssmKeys) <= Cardinality(Variables)
  OBVIOUS
<1>1. ssmKeys \in Seq(Variables) /\ Len(ssmKeys) \in Nat /\ DOMAIN ssmKeys = 1..Len(ssmKeys)
  BY DEF EnvironmentInv, ValuesInv
<1>2. ssmKeys \in Injection(1..Len(ssmKeys), Variables)
  BY <1>1 DEF EnvironmentInv, KeysInv, Injection, IsInjective
<1>3. Cardinality(1..Len(ssmKeys)) <= Cardinality(Variables)
  BY <1>2, FS_Injection, EnvironmentBoundsAssumption
<1>4. Cardinality(1..Len(ssmKeys)) = Len(ssmKeys)
  BY <1>1, FS_Interval
<1> QED BY <1>3, <1>4

LEMMA EnvironmentHasTypes == EnvironmentInv => EnvironmentTypeOK
<1> SUFFICES ASSUME EnvironmentInv PROVE EnvironmentTypeOK
  OBVIOUS
<1>1. \A l \in Lookups : /\ lookup[l].pc \in {"idle", "path", "sharedPath"}
                         /\ lookup[l].unread \subseteq ParameterPaths
                         /\ lookup[l].read \subseteq ParameterPaths \X Version
  BY DEF EnvironmentInv, ValuesInv, LookupStates
<1> QED BY <1>1, FewKeys DEF EnvironmentInv, ValuesInv, EnvironmentTypeOK

LEMMA Paths ==
    /\ \A v \in Variables : ResourcePath(v) \in ParameterPaths
    /\ \A s \in Shared : BranchPath(s) \in ParameterPaths /\ SharedPath(s) \in ParameterPaths
    /\ NoPlace \in Places
    /\ \A v \in Variables : PlaceOfResource(v) \in Places
    /\ \A s \in Shared : PlaceOfSecret(s) \in Places
    /\ 0 \in Version
<1>1. /\ \A v \in Variables : ResourcePath(v) \in ParameterPaths
      /\ \A s \in Shared : BranchPath(s) \in ParameterPaths /\ SharedPath(s) \in ParameterPaths
  BY DEF ResourcePath, BranchPath, SharedPath, ParameterPaths
<1>2. 0 \in Version
  BY EnvironmentBoundsAssumption DEF Version
<1> QED BY <1>1, <1>2 DEF NoPlace, PlaceOfResource, PlaceOfSecret, Places

LEMMA EnvironmentInvInit == EnvironmentInit => EnvironmentInv
<1> SUFFICES ASSUME EnvironmentInit PROVE EnvironmentInv
  OBVIOUS
<1>1. lookup \in [Lookups -> LookupStates]
  BY DEF EnvironmentInit, NoLookup, LookupStates
<1>2. parameters \in [ParameterPaths -> Version] /\ changes \in Version
  BY Paths DEF EnvironmentInit
<1>3. env \in [Variables -> EnvValues]
  BY DEF EnvironmentInit, EnvValues
<1>4. ssmKeys = <<>> /\ KeysInv
  BY DEF EnvironmentInit, KeysInv, Keys
<1> QED BY <1>1, <1>2, <1>3, <1>4, Paths, EnvironmentBoundsAssumption
        DEF EnvironmentInit, EnvironmentInv, ValuesInv

\* Another key is appended only if it is not there yet.
LEMMA LookedUpAtStep ==
    ASSUME EnvironmentInv, NEW v \in Variables, NEW place \in Places,
           place.path \in ParameterPaths, LookedUpAt(v, place)
    PROVE  EnvironmentInv'
<1>1. /\ ssmKeys \in Seq(Variables) /\ ssmEnvVars \in [Variables -> Places]
      /\ entries' \in 0..MaxEntries
      /\ told' \in [Variables -> Places \union {Text, Unset}]
      /\ lambdaEnv' \in [Variables -> {Text, Placeholder, Unset}]
      /\ UNCHANGED <<stage, parameters, changes, env, lookup>>
  BY EnvironmentBoundsAssumption DEF EnvironmentInv, ValuesInv, LookedUpAt, Adds
<1>2. /\ ssmEnvVars' = [ssmEnvVars EXCEPT ![v] = place]
      /\ ssmKeys' = IF v \in Keys THEN ssmKeys ELSE Append(ssmKeys, v)
  BY DEF LookedUpAt
<1>3. ssmKeys' \in Seq(Variables) /\ Keys' \subseteq Keys \union {v}
  BY <1>1, <1>2 DEF Keys
<1>4. \A i, j \in DOMAIN ssmKeys' : ssmKeys'[i] = ssmKeys'[j] => i = j
  BY <1>1, <1>2 DEF EnvironmentInv, KeysInv, Keys
<1>5. \A k \in Keys' : ssmEnvVars'[k].path \in ParameterPaths
  <2>1. \A k \in Keys : k \in Variables
    BY <1>1 DEF Keys
  <2> QED BY <1>1, <1>2, <1>3, <2>1 DEF EnvironmentInv, KeysInv
<1>6. ssmEnvVars' \in [Variables -> Places]
  BY <1>1, <1>2
<1> QED BY <1>1, <1>3, <1>4, <1>5, <1>6 DEF EnvironmentInv, ValuesInv, KeysInv

LEMMA AsksHasType ==
    ASSUME NEW pc \in {"path", "sharedPath"}, NEW paths \in SUBSET ParameterPaths
    PROVE  Asks(pc, paths) \in LookupStates
  BY DEF Asks, LookupStates

\* A lookup asks for parameters: every key is looked up somewhere.
LEMMA FirstPaths ==
    ASSUME EnvironmentInv
    PROVE  Asks("path", {ssmEnvVars[k].path : k \in Keys}) \in LookupStates
<1>1. {ssmEnvVars[k].path : k \in Keys} \in SUBSET ParameterPaths
  BY DEF EnvironmentInv, KeysInv
<1> QED BY <1>1, AsksHasType

LEMMA SecondPaths ==
    ASSUME EnvironmentInv, NEW read
    PROVE  Asks("sharedPath", SharedPaths(read)) \in LookupStates
<1>1. \A k \in Keys : k \in Variables
  BY DEF EnvironmentInv, ValuesInv, Keys
<1>2. \A k \in Keys : ssmEnvVars[k].sharedPath \in ParameterPaths \union {NoPath}
  BY <1>1 DEF EnvironmentInv, ValuesInv, Places
<1>3. ASSUME NEW path \in SharedPaths(read) PROVE path \in ParameterPaths
  BY <1>2 DEF SharedPaths
<1> QED BY <1>3, AsksHasType

\* What a lookup writes are versions of parameters that there were.
LEMMA WrittenHasType ==
    ASSUME EnvironmentInv, NEW read \in SUBSET (ParameterPaths \X Version)
    PROVE  Written(read) \in [Variables -> EnvValues]
<1> DEFINE given(v, r) == r[2] # 0 /\ IsGiven(v, r[1])
           pick(v) == CHOOSE r \in read : given(v, r)
<1>1. ASSUME NEW v \in Variables
      PROVE  (IF \E r \in read : given(v, r) THEN Value(pick(v)[1], pick(v)[2]) ELSE env[v]) \in EnvValues
  <2>1. CASE \E r \in read : given(v, r)
    <3>1. pick(v) \in read /\ given(v, pick(v))
      BY <2>1
    <3>2. pick(v)[1] \in ParameterPaths /\ pick(v)[2] \in Version \ {0}
      BY <3>1
    <3> HIDE DEF pick, given
    <3> QED BY <2>1, <3>2 DEF Value, EnvValues
  <2>2. CASE ~\E r \in read : given(v, r)
    <3> HIDE DEF given
    <3> QED BY <2>2 DEF EnvironmentInv, ValuesInv
  <2> QED BY <2>1, <2>2
<1> HIDE DEF given
<1>2. Written(read) = [v \in Variables |-> IF \E r \in read : given(v, r)
                          THEN Value(pick(v)[1], pick(v)[2]) ELSE env[v]]
  BY DEF Written, given
<1> HIDE DEF pick
<1> QED BY <1>1, <1>2

\* A step of a lookup leaves the keys and the parameters alone.
LEMMA LookupStep ==
    ASSUME EnvironmentInv, UNCHANGED <<translatorVars, parameters>>,
           stage' \in {"synthesis", "loading", "ready"}, changes' \in Version,
           env' \in [Variables -> EnvValues], lookup' \in [Lookups -> LookupStates]
    PROVE  EnvironmentInv'
  BY DEF EnvironmentInv, ValuesInv, KeysInv, Keys, translatorVars

LEMMA EnvironmentInvStep == EnvironmentInv /\ [EnvironmentNext]_environmentVars => EnvironmentInv'
<1> SUFFICES ASSUME EnvironmentInv, [EnvironmentNext]_environmentVars PROVE EnvironmentInv'
  OBVIOUS
<1>0. /\ stage \in {"synthesis", "loading", "ready"} /\ env \in [Variables -> EnvValues]
      /\ lookup \in [Lookups -> LookupStates] /\ lambdaEnv \in [Variables -> EnvValues]
      /\ changes \in Version
  BY DEF EnvironmentInv, ValuesInv, EnvValues
<1>1. ASSUME NEW v \in Variables, AddText(v) PROVE EnvironmentInv'
  <2>1. /\ UNCHANGED <<ssmKeys, ssmEnvVars, stage, parameters, changes, env, lookup>>
        /\ entries' \in 0..MaxEntries
        /\ told' \in [Variables -> Places \union {Text, Unset}]
        /\ lambdaEnv' \in [Variables -> {Text, Placeholder, Unset}]
    BY <1>1, EnvironmentBoundsAssumption DEF EnvironmentInv, ValuesInv, AddText, Adds
  <2> QED BY <2>1 DEF EnvironmentInv, ValuesInv, KeysInv, Keys
<1>2. ASSUME NEW v \in Variables, AddSsmEntry(v) PROVE EnvironmentInv'
  BY <1>2, Paths, LookedUpAtStep DEF AddSsmEntry, PlaceOfResource
<1>3. ASSUME NEW v \in Variables, NEW s \in Shared, AddSecret(v, s) PROVE EnvironmentInv'
  BY <1>3, Paths, LookedUpAtStep DEF AddSecret, PlaceOfSecret
<1>4. ASSUME NEW l \in Lookups, Load(l) \/ Tick(l) PROVE EnvironmentInv'
  <2>1. lookup' \in [Lookups -> LookupStates]
    BY <1>0, <1>4, FirstPaths DEF Load, Tick, StartLookup
  <2>2. /\ UNCHANGED <<translatorVars, parameters, changes>>
        /\ stage' \in {"synthesis", "loading", "ready"} /\ env' \in [Variables -> EnvValues]
    BY <1>0, <1>4 DEF Load, Tick
  <2> QED BY <1>0, <2>1, <2>2, LookupStep
<1>5. ASSUME NEW l \in Lookups, Read(l) PROVE EnvironmentInv'
  <2>1. PICK path \in lookup[l].unread :
            lookup' = [lookup EXCEPT ![l].unread = @ \ {path},
                                     ![l].read = @ \union {<<path, parameters[path]>>}]
    BY <1>5 DEF Read
  <2>2. path \in ParameterPaths /\ parameters[path] \in Version
    BY <1>0, <2>1 DEF LookupStates, EnvironmentInv, ValuesInv
  <2> DEFINE left == lookup[l].unread \ {path}
             read == lookup[l].read \union {<<path, parameters[path]>>}
             after == [lookup[l] EXCEPT !.unread = left, !.read = read]
  <2>4. left \in SUBSET ParameterPaths /\ read \in SUBSET (ParameterPaths \X Version)
    BY <1>0, <2>2 DEF LookupStates
  <2>5. lookup' = [lookup EXCEPT ![l] = after]
    BY <1>0, <2>1
  <2> HIDE DEF left, read
  <2>6. after \in LookupStates
    BY <1>0, <2>4 DEF LookupStates
  <2> HIDE DEF after
  <2>3. lookup' \in [Lookups -> LookupStates]
    BY <1>0, <2>5, <2>6
  <2> QED BY <1>0, <1>5, <2>3, LookupStep DEF Read
<1>6. ASSUME NEW l \in Lookups, Write(l) PROVE EnvironmentInv'
  <2>1. Written(lookup[l].read) \in [Variables -> EnvValues]
    BY <1>0, WrittenHasType DEF LookupStates
  <2>2. lookup' \in [Lookups -> LookupStates] /\ stage' \in {"synthesis", "loading", "ready"}
    <3>1. NoLookup \in LookupStates
      BY DEF NoLookup, LookupStates
    <3> QED BY <1>0, <1>6, <3>1, SecondPaths DEF Write, LookupEnds
  <2> QED BY <1>0, <1>6, <2>1, <2>2, LookupStep DEF Write
<1>7. ASSUME NEW l \in Lookups, ReadFails(l) PROVE EnvironmentInv'
  <2>1. NoLookup \in LookupStates
    BY DEF NoLookup, LookupStates
  <2>2. lookup' \in [Lookups -> LookupStates] /\ env' \in [Variables -> EnvValues]
    BY <1>0, <1>7, <2>1, FirstPaths DEF ReadFails
  <2>3. changes' \in Version
    BY <1>0, <1>7, EnvironmentBoundsAssumption DEF ReadFails, Version
  <2> QED BY <1>0, <1>7, <2>2, <2>3, LookupStep DEF ReadFails
<1>8. ASSUME NEW path \in ParameterPaths, Change(path) PROVE EnvironmentInv'
  <2>1. changes' \in Version /\ changes' = changes + 1
    BY <1>0, <1>8, EnvironmentBoundsAssumption DEF Change, Version
  <2>2. parameters' \in [ParameterPaths -> Version]
    BY <1>8, <2>1, Paths DEF Change, EnvironmentInv, ValuesInv
  <2> QED BY <1>8, <2>1, <2>2 DEF Change, EnvironmentInv, ValuesInv, KeysInv, Keys, translatorVars
<1>9. CASE UNCHANGED environmentVars
  BY <1>0, <1>9, LookupStep DEF environmentVars
<1> QED BY <1>1, <1>2, <1>3, <1>4, <1>5, <1>6, <1>7, <1>8, <1>9 DEF EnvironmentNext

-----------------------------------------------------------------------------

\* However the deployments, the handlers of their ends, and the lookups of a
\* running function overlap and fail: no number is of an operation or a version
\* that has not been, and no lookup asks for a path that is none, although a key
\* keeps its place when a text replaces it (addEnvironmentEntry).
THEOREM DeployedBackendTypeCorrect == DeployedBackendSpec => []DeployedBackendTypeOK
<1> DEFINE Inv == OutputsInv /\ EnvironmentInv
<1>1. DeployedBackendInit => Inv
  BY InitiallyOutputsInv, EnvironmentInvInit DEF DeployedBackendInit
<1>2. Inv /\ [DeployedBackendNext]_<<vars, environmentVars, follower>> => Inv'
  <2> SUFFICES ASSUME Inv, [DeployedBackendNext]_<<vars, environmentVars, follower>> PROVE Inv'
    OBVIOUS
  <2>1. [Next]_vars /\ [EnvironmentNext]_environmentVars
    BY DEF DeployedBackendNext
  <2> QED BY <2>1, TypeStep, SuccessStep, SpacedStep, EnvironmentInvStep DEF OutputsInv
<1>3. Inv => DeployedBackendTypeOK
  BY EnvironmentHasTypes DEF DeployedBackendTypeOK, OutputsInv
<1> QED BY <1>1, <1>2, <1>3, PTL DEF DeployedBackendSpec
==============================================================================
