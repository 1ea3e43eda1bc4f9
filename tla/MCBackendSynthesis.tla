--------------------------- MODULE MCBackendSynthesis ---------------------------
(***************************************************************************)
(* The models of what happens while a backend is synthesized, for TLC.     *)
(* Access rules and outputs share no state: in a behaviour only one of     *)
(* them moves.                                                             *)
(***************************************************************************)
EXTENDS StorageAccess, BackendOutputs

\* Ways to sign in and second factors, and external providers and groups.
MCAuthProps ==
    {props \in AuthProps : props.external = NoExternal /\ props.groups = <<>>}
    \union {props \in AuthProps : /\ props.external.providers \in
                                       {{}, {"Google", "SAML"}, {"SignInWithApple", "LoginWithAmazon"}}
                                  /\ props.email /\ ~props.phone /\ props.templates = {}
                                  /\ props.mode = "none" /\ ~props.sms /\ ~props.totp}

MCBucketLists ==
    {bs \in SeqOf([name : {"b1", "b2"}, isDefault : BOOLEAN], 2) :
        \A i, j \in DOMAIN bs : bs[i].name = bs[j].name => i = j}

MCWithAccess == {"b1"}

\* Every auth with at most one bucket, and every list of buckets without auth.
MCDefinitions ==
    {[auths |-> {props}, buckets |-> <<>>] : props \in MCAuthProps}
    \union {[auths |-> {}, buckets |-> bs] : bs \in MCBucketLists}
    \union {[auths |-> {props}, buckets |-> <<[name |-> "b1", isDefault |-> FALSE]>>] :
                props \in {p \in MCAuthProps : p.groups # <<>>}}

\* A new value, a new list, an addition to a managed list, a managed value, a
\* whole section, a managed flag, another major version with a false, and an object
\* in the place of the false.
MCCustomParts ==
    {Config({<<<<"custom", "note">>, Scalar(<<"note">>)>>}),
     Config({<<<<"custom", "list">>, Array(<<"x">>)>>, <<<<"version">>, Version(1, 1)>>}),
     Config({<<<<"auth", "groups">>, Array(<<<<"guests", 9>>>>)>>}),
     Config({<<<<"auth", "user_pool_id">>, Scalar(<<"another">>)>>}),
     Config({<<<<"storage">>, Scalar(<<"none">>)>>}),
     Config({<<<<"auth", "unauthenticated_identities_enabled">>, Flag(TRUE)>>}),
     Config({<<<<"custom", "flag">>, Flag(FALSE)>>, <<<<"version">>, Version(2, 0)>>}),
     Config({<<<<"custom", "flag", "shade">>, Scalar(<<"red">>)>>,
             <<<<"version">>, Version(2, 1)>>})}

AccessIdle ==
    /\ stage = "invalid" /\ storagePaths = <<<<"idle">>>>
    /\ at = 1 /\ uniqueDefinitionIds = {} /\ permissionCount = 0 /\ acceptors = {}
    /\ allow = Nothing /\ deny = Nothing /\ prefixDenyMap = <<>> /\ rules = {}
    /\ outputs = {}

OutputsIdle ==
    /\ synthesis = "refused"
    /\ pool = <<>> /\ statements = 0 /\ buckets = <<>>
    /\ visited = 0 /\ isStorageProcessed = FALSE
    /\ strategy = NewStrategy
    /\ parts = <<>> /\ clientConfigAccumulator = NoConfig
    /\ stack = [metadata |-> NoConfig, outputs |-> NoConfig]
    /\ asked = 0 /\ config = NoConfig

SynthesisInit ==
    \/ AccessInit /\ OutputsIdle
    \/ AccessIdle /\ OutputsInit

SynthesisNext ==
    \/ AccessNext /\ UNCHANGED outputsVars
    \/ OutputsNext /\ UNCHANGED accessVars

SynthesisSpec == SynthesisInit /\ [][SynthesisNext]_<<accessVars, outputsVars>>

\* The variables of both have their types: no rule grants what the acceptor of
\* its path was never asked for, and an output has its version with it.
SynthesisTypeOK == AccessTypeOK /\ OutputsTypeOK
=================================================================================
