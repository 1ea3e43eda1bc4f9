---------------------------- MODULE BackendOutputs ----------------------------
(***************************************************************************)
(* The way of a backend's properties to its frontend: the program of a     *)
(* backend defines its constructs, overrides their resources and adds      *)
(* outputs of its own, the stack is synthesized, with metadata that name   *)
(* the outputs of every package, and the client config is generated from   *)
(* the outputs and the metadata of the deployed stack.                     *)
(*                                                                         *)
(* Auth and storage stand for the packages; outputs of data are made       *)
(* outside of the repository.                                              *)
(***************************************************************************)
EXTENDS ClientConfig

CONSTANTS
    Definitions,    \* what a program defines: a set of properties of auth, of at
                    \* most one, and a list of buckets
    WithAccess,     \* names of buckets that access rules are defined for
    CustomParts,    \* configs that the program may add as outputs
    MinorVersions,  \* of the client config, 1.x
    MaxStatements   \* bound: overrides and custom outputs of the program

ASSUME DefinitionsAssumption ==
    \A definition \in Definitions :
        /\ definition.auths \subseteq AuthProps /\ Cardinality(definition.auths) <= 1
        /\ LET bs == definition.buckets
           IN  /\ bs \in Seq([name : STRING, isDefault : BOOLEAN])
               /\ \A i, j \in DOMAIN bs : bs[i].name = bs[j].name => i = j
\* Parts are configs: leaves under non-empty paths, and what has the key "version"
\* is a version.
ASSUME CustomPartsAssumption ==
    \A part \in CustomParts : \A path \in DOMAIN part :
        LET leaf == part[path]
        IN  /\ path \in Seq(Range(path)) \ {<<>>}
            /\ \A p \in DOMAIN part : ~Inside(path, p)
            /\ leaf = Leaf(leaf.kind, leaf.val)
            /\ leaf.kind \in {"array", "scalar", "falsy", "version"}
            /\ leaf.val \in Seq(Range(leaf.val))
            /\ leaf.kind = "version" <=> path[Len(path)] = "version"
            /\ leaf.kind = "version" => leaf.val \in Nat \X Nat
            /\ path[1] = "version" => Len(path) = 1

\* What is a list in one part, or in the backend's own, is one in all of them.
ASSUME ListsAssumption ==
    \A list \in ManagedLists \union UNION {Lists(part) : part \in CustomParts} :
        \A part \in CustomParts : \A path \in DOMAIN part :
            IsPrefix(list, path) => path = list /\ path \in Lists(part)
ASSUME MinorVersionsAssumption == MinorVersions \subseteq 0..4
ASSUME MaxStatementsAssumption == MaxStatements \in Nat

VARIABLES
    synthesis,      \* "new", "defined", "visiting", "synthesized", "configured",
                    \* "refused" or "fault"
    pool,           \* the resources of auth, <<>> without auth
    statements,     \* made by the program so far
    buckets,        \* the storage constructs of the storage stack
    visited,        \* how many of them the aspect has visited
    isStorageProcessed,
    strategy,       \* the output storage strategy and the metadata of its stack
    parts,          \* parts that addOutput accepted
    clientConfigAccumulator,    \* of the custom outputs
    stack,          \* the deployed stack
    asked,          \* minor version of the config generated
    config          \* the generated config

outputsVars == <<synthesis, pool, statements, buckets, visited, isStorageProcessed, strategy,
                 parts, clientConfigAccumulator, stack, asked, config>>

-----------------------------------------------------------------------------
(* StackMetadataBackendOutputStorageStrategy *)

NewStrategy == [metadata |-> Config({}), outputs |-> {}, list |-> <<>>, fault |-> FALSE]

\* addOrUpdateMetadata; the version of every entry is '1'.
WithMetadata(st, key, names) ==
    [k \in DOMAIN st.metadata \union {key} |->
        IF k # key THEN st.metadata[k]
        ELSE names \union (IF key \in DOMAIN st.metadata THEN st.metadata[key] ELSE {})]

\* A construct of the same name is an error of CDK.
AddBackendOutputEntry(st, key, names) ==
    [st EXCEPT !.metadata = WithMetadata(st, key, names),
               !.outputs = @ \union names,
               !.fault = @ \/ st.outputs \intersect names # {}]

\* The one list in use; its output is made with the first element.
AppendToBackendOutputList(st, key, name, value) ==
    [st EXCEPT !.metadata = WithMetadata(st, key, {name}),
               !.outputs = @ \union {name},
               !.list = Append(@, value)]

-----------------------------------------------------------------------------
OutputsInit ==
    /\ synthesis = "new"
    /\ pool = <<>> /\ statements = 0 /\ buckets = <<>>
    /\ visited = 0 /\ isStorageProcessed = FALSE
    /\ strategy = NewStrategy
    /\ parts = <<>> /\ clientConfigAccumulator = NoConfig
    /\ stack = [metadata |-> NoConfig, outputs |-> NoConfig]
    /\ asked = 0 /\ config = NoConfig

PlatformOutputNames == {"deploymentType", "region"}

\* defineBackend: the constructor of BackendFactory invokes every factory.
DefineBackend ==
    /\ synthesis = "new"
    /\ \E definition \in Definitions :
          LET auths == definition.auths
              refused == \E props \in auths : PoolRefused(props) \/ ExternalRefused(props.external)
              platform == AddBackendOutputEntry(strategy, "platform", PlatformOutputNames)
          IN  IF refused THEN synthesis' = "refused" /\ UNCHANGED <<pool, buckets, strategy>>
              ELSE /\ synthesis' = "defined"
                   /\ pool' = IF auths = {} THEN <<>>
                              ELSE Construct(CHOOSE props \in auths : TRUE)
                   /\ buckets' = definition.buckets
                   /\ strategy' = IF auths = {} THEN platform
                                  ELSE AddBackendOutputEntry(platform, "auth",
                                                             DOMAIN AuthPayload(pool'))
    /\ UNCHANGED <<statements, visited, isStorageProcessed, parts, clientConfigAccumulator,
                   stack, asked, config>>

\* Resources are overridden through backend.auth.resources.
Overrides == {"unauthenticated", "mfa", "policies", "logoutUrls", "precedence"}

Overridden(p, what) ==
    CASE what = "unauthenticated" -> [p EXCEPT !.unauthenticated = FALSE]
      [] what = "mfa" -> [p EXCEPT !.mfaConfiguration = <<"ON">>,
                                   !.enabledMfas = <<"SOFTWARE_TOKEN_MFA">>]
      [] what = "policies" -> [p EXCEPT !.policies.defined = FALSE]
      [] what = "logoutUrls" -> [p EXCEPT !.logoutUrls = <<"here", "there">>]
      [] what = "precedence" -> [p EXCEPT !.groups = [i \in DOMAIN @ |-> <<@[i][1], 7>>]]

Override(what) ==
    /\ synthesis = "defined" /\ pool # <<>>
    /\ statements < MaxStatements
    /\ Overridden(pool, what) # pool
    /\ pool' = Overridden(pool, what)
    /\ statements' = statements + 1
    /\ UNCHANGED <<synthesis, buckets, visited, isStorageProcessed, strategy, parts,
                   clientConfigAccumulator, stack, asked, config>>

\* addOutput gives the part the latest version unless it has one.
Versioned(part) ==
    IF <<"version">> \in DOMAIN part THEN part
    ELSE Accumulate(part, VersionContribution(4))

\* The first part adds the entry of all of them.
AddOutput(part) ==
    LET refused == Collides(clientConfigAccumulator, Versioned(part))
    IN  /\ synthesis = "defined"
        /\ statements < MaxStatements
        /\ statements' = statements + 1
        /\ synthesis' = IF refused THEN "refused" ELSE synthesis
        /\ IF refused THEN UNCHANGED <<clientConfigAccumulator, parts, strategy>>
           ELSE /\ clientConfigAccumulator' = Accumulate(clientConfigAccumulator, Versioned(part))
                /\ parts' = Append(parts, part)
                /\ strategy' = IF "custom" \in DOMAIN strategy.metadata THEN strategy
                               ELSE AddBackendOutputEntry(strategy, "custom", {"customOutputs"})
        /\ UNCHANGED <<pool, buckets, visited, isStorageProcessed, stack, asked, config>>

-----------------------------------------------------------------------------
(* Synthesis: the storage aspect visits every construct of its stack, then  *)
(* the lazy values are produced.                                            *)

Defaults == {i \in DOMAIN buckets : buckets[i].isDefault}

IsDefault(i) == Len(buckets) = 1 \/ buckets[i].isDefault

StoreBucket(st, i) ==
    AppendToBackendOutputList(
        IF IsDefault(i)
        THEN AddBackendOutputEntry(st, "storage", {"storageRegion", "bucketName"}) ELSE st,
        "storage", "buckets", <<buckets[i].name, buckets[i].name \in WithAccess>>)

\* The first visit of a bucket stores the outputs of all of them.
StoreStorageOutputs(st) ==
    LET stored[i \in 0..Len(buckets)] ==
            IF i = 0 THEN st ELSE StoreBucket(stored[i - 1], i)
    IN  stored[Len(buckets)]

\* Mutant: every visit stores them.
VisitStoring ==
    /\ synthesis \in {"defined", "visiting"} /\ visited < Len(buckets)
    /\ visited' = visited + 1
    /\ isStorageProcessed' = TRUE
    /\ IF Cardinality(Defaults) > 1 \/ (Defaults = {} /\ Len(buckets) > 1)
       THEN synthesis' = "refused" /\ UNCHANGED strategy
       ELSE /\ strategy' = StoreStorageOutputs(strategy)
            /\ synthesis' = IF strategy'.fault THEN "fault" ELSE "visiting"
    /\ UNCHANGED <<pool, statements, buckets, parts, clientConfigAccumulator, stack, asked, config>>

\* MultipleDefaultStorageError, NoDefaultStorageError, or the outputs.
Visit ==
    /\ synthesis \in {"defined", "visiting"} /\ visited < Len(buckets)
    /\ visited' = visited + 1
    /\ isStorageProcessed' = TRUE
    /\ IF isStorageProcessed
       THEN UNCHANGED <<synthesis, strategy>>
       ELSE IF Cardinality(Defaults) > 1 \/ (Defaults = {} /\ Len(buckets) > 1)
       THEN synthesis' = "refused" /\ UNCHANGED strategy
       ELSE /\ strategy' = StoreStorageOutputs(strategy)
            /\ synthesis' = IF strategy'.fault THEN "fault" ELSE "visiting"
    /\ UNCHANGED <<pool, statements, buckets, parts, clientConfigAccumulator, stack, asked, config>>

\* What the stack outputs are at the end: of the resources as they are now.
Produced(name) ==
    CASE name \in PlatformOutputNames -> <<name>>
      [] name = "storageRegion" -> <<"region">>
      [] name = "bucketName" ->
             LET i == CHOOSE i \in DOMAIN buckets : IsDefault(i)
             IN  <<buckets[i].name>>
      [] name = "buckets" -> Json(strategy.list)
      [] name = "customOutputs" -> clientConfigAccumulator
      [] OTHER -> AuthPayload(pool)[name]

Synthesize ==
    /\ synthesis \in {"defined", "visiting"} /\ visited = Len(buckets)
    /\ synthesis' = "synthesized"
    /\ stack' = [metadata |-> strategy.metadata,
                 outputs |-> [name \in strategy.outputs |-> Produced(name)]]
    /\ UNCHANGED <<pool, statements, buckets, visited, isStorageProcessed, strategy, parts,
                   clientConfigAccumulator, asked, config>>

-----------------------------------------------------------------------------
(* Generation of the client config. *)

\* fetchBackendOutput: outputs that are empty strings are left out.
Payload(key) ==
    [name \in {n \in stack.metadata[key] : stack.outputs[n] # <<>>} |-> stack.outputs[name]]

\* The contributors in their order, each given the whole output.
Contributions(minor) ==
    LET Known(key) == key \in DOMAIN stack.metadata
    IN  [auth |-> IF Known("auth") THEN AuthContribution(Payload("auth"), minor) ELSE NoConfig,
         storage |-> IF Known("storage") THEN StorageContribution(Payload("storage"), minor)
                     ELSE NoConfig,
         version |-> VersionContribution(minor),
         custom |-> IF Known("custom") THEN Payload("custom").customOutputs ELSE NoConfig]

\* All but the custom outputs, accumulated.
Managed(contributions) ==
    Accumulate(Accumulate(Accumulate(NoConfig, contributions.auth), contributions.storage),
               contributions.version)

GenerateClientConfig(minor) ==
    LET managed == Managed(Contributions(minor))
        custom == Contributions(minor).custom
    IN  /\ synthesis = "synthesized"
        /\ asked' = minor
        /\ IF Collides(managed, custom)
           THEN synthesis' = "refused" /\ UNCHANGED config
           ELSE /\ synthesis' = "configured"
                /\ config' = Accumulate(managed, custom)
        /\ UNCHANGED <<pool, statements, buckets, visited, isStorageProcessed, strategy, parts,
                       clientConfigAccumulator, stack>>

OutputsNext ==
    \/ DefineBackend
    \/ \E what \in Overrides : Override(what)
    \/ \E part \in CustomParts : AddOutput(part)
    \/ Visit
    \/ Synthesize
    \/ \E minor \in MinorVersions : GenerateClientConfig(minor)

OutputsSpec == OutputsInit /\ [][OutputsNext]_outputsVars

-----------------------------------------------------------------------------
(* Properties. *)

OutputsTypeOK ==
    /\ synthesis \in {"new", "defined", "visiting", "synthesized", "configured", "refused", "fault"}
    /\ statements \in 0..MaxStatements
    /\ \A i \in DOMAIN buckets : buckets[i].isDefault \in BOOLEAN
    /\ visited \in 0..Len(buckets)
    /\ isStorageProcessed \in BOOLEAN
    /\ \A key \in DOMAIN strategy.metadata : strategy.metadata[key] \subseteq strategy.outputs
    /\ Range(parts) \subseteq CustomParts
    /\ asked \in MinorVersions \union {0}

\* What the resources of auth, as overridden, say of themselves.
AuthFacts(p) ==
    LET mode == CASE p.mfaConfiguration = <<"ON">> -> "REQUIRED"
                  [] p.mfaConfiguration = <<"OPTIONAL">> -> "OPTIONAL"
                  [] OTHER -> "NONE"
        method == [SMS_MFA |-> "SMS", SOFTWARE_TOKEN_MFA |-> "TOTP"]
        signIn == p.callbackUrls # <<>> /\ p.logoutUrls # <<>>
        social == [Google |-> "GOOGLE", Facebook |-> "FACEBOOK",
                   LoginWithAmazon |-> "LOGIN_WITH_AMAZON", SignInWithApple |-> "SIGN_IN_WITH_APPLE"]
    IN  {<<<<"auth", "unauthenticated_identities_enabled">>, Flag(p.unauthenticated)>>,
         <<<<"auth", "mfa_configuration">>, Scalar(<<mode>>)>>,
         <<<<"auth", "mfa_methods">>, Array([i \in DOMAIN p.enabledMfas |-> method[p.enabledMfas[i]]])>>,
         <<<<"auth", "username_attributes">>, Array(p.usernameAttributes)>>,
         <<<<"auth", "user_verification_types">>, Array(p.autoVerified)>>}
        \union (IF asked < 3 THEN {} ELSE {<<<<"auth", "groups">>, Array(p.groups)>>})
        \union (IF ~p.policies.defined THEN {}
                ELSE {<<<<"auth", "password_policy", "require_symbols">>, Flag(TRUE)>>,
                      <<<<"auth", "password_policy", "min_length">>, Scalar(<<p.policies.minLength>>)>>})
        \union (IF ~signIn THEN {}
                ELSE {<<<<"auth", "oauth", "redirect_sign_in_uri">>, Array(p.callbackUrls)>>,
                      <<<<"auth", "oauth", "redirect_sign_out_uri">>, Array(p.logoutUrls)>>,
                      <<<<"auth", "oauth", "identity_providers">>,
                        Array(FlattenSeq([i \in DOMAIN p.providers |->
                            IF p.providers[i] \in DOMAIN social
                            THEN <<social[p.providers[i]]>> ELSE <<>>]))>>})

\* What the buckets say: every one once, in order, and one of them the default.
StorageFacts ==
    LET default == CHOOSE i \in DOMAIN buckets : Defaults \in {{i}, {}}
    IN  {<<<<"storage", "bucket_name">>, Scalar(<<buckets[default].name>>)>>}
        \union (IF asked = 0 THEN {}
                ELSE {<<<<"storage", "buckets">>, Array([i \in DOMAIN buckets |->
                         <<buckets[i].name, asked >= 2 /\ buckets[i].name \in WithAccess>>])>>})

Facts == (IF pool = <<>> THEN {} ELSE AuthFacts(pool))
         \union (IF buckets = <<>> THEN {} ELSE StorageFacts)

\* Arrays that the program adds at a path.
Added(path) ==
    FlattenSeq([i \in DOMAIN parts |->
        IF path \in DOMAIN parts[i] THEN parts[i][path].val ELSE <<>>])

\* The program has put a plain value in the place of a whole section.
Replaced(path) == \E part \in Range(parts) : \E p \in DOMAIN part : Inside(path, p)

\* The program has put something in the place of a value, or below it.
Overwritten(path) == \E part \in Range(parts) : \E p \in DOMAIN part : IsPrefix(path, p)

\* The config tells the backend as it is after every override, in whatever order
\* overrides and custom outputs came and although the outputs were declared
\* before: what the program adds to a list comes behind the backend's own, only
\* false is overwritten, and a section that the program replaced is gone.
ConfigTellsTheBackend ==
    synthesis = "configured" =>
        \A fact \in Facts :
            LET path == fact[1]
                leaf == fact[2]
            IN  \/ Replaced(path)
                \/ leaf.kind = "falsy" /\ Overwritten(path)
                \/ /\ path \in DOMAIN config
                   /\ config[path] = IF leaf.kind = "array" THEN Array(leaf.val \o Added(path))
                                     ELSE leaf

\* Nothing that the program added and that was not refused is lost on the way
\* through the stack, but for a false that it overwrote, and the config is of the
\* newest version asked for.
CustomPartsArrive ==
    synthesis = "configured" =>
        /\ \A part \in Range(parts) : \A path \in DOMAIN part :
              part[path].kind \in {"array", "scalar"} =>
                  \/ Replaced(path)
                  \/ /\ path \in DOMAIN config
                     /\ IF part[path].kind = "scalar" THEN config[path] = part[path]
                        ELSE /\ config[path].kind = "array"
                             /\ IsSuffix(Added(path), config[path].val)
        /\ config[<<"version">>].val[2] =
              Max({asked} \union {Versioned(part)[<<"version">>].val[2] : part \in Range(parts)})

\* "storing the same outputs multiple times result in error": no output of the
\* stack is declared twice, however many buckets the aspect visits and however
\* often the program adds outputs.
NoOutputTwice == synthesis # "fault" /\ ~strategy.fault
===============================================================================
