------------------------------ MODULE ClientConfig ------------------------------
(***************************************************************************)
(* The client config: what the contributors make of the outputs of a stack *)
(* and how the parts are accumulated.                                      *)
(*                                                                         *)
(* A config is a function from the paths of its leaves to the leaves.  The *)
(* outputs of a construct are a function from their names; see UserPool    *)
(* for the strings.                                                        *)
(***************************************************************************)
EXTENDS UserPool

Leaf(kind, val) == [kind |-> kind, val |-> val]
Array(list) == Leaf("array", list)
Scalar(value) == Leaf(IF value = <<>> THEN "falsy" ELSE "scalar", value)
Flag(b) == IF b THEN Leaf("scalar", <<"true">>) ELSE Leaf("falsy", <<"false">>)
Version(major, minor) == Leaf("version", <<major, minor>>)

\* A config from pairs of a path and a leaf.
Config(pairs) == [path \in {p[1] : p \in pairs} |-> (CHOOSE p \in pairs : p[1] = path)[2]]

NoConfig == Config({})

-----------------------------------------------------------------------------
(* The contributors. *)

AuthLists == {<<"mfa_methods", "mfaTypes">>,
              <<"standard_required_attributes", "signupAttributes">>,
              <<"username_attributes", "usernameAttributes">>,
              <<"user_verification_types", "verificationMechanisms">>}

ValidIdentityProviders == {"GOOGLE", "FACEBOOK", "LOGIN_WITH_AMAZON", "SIGN_IN_WITH_APPLE"}

MfaConfiguration(value) ==
    CASE value = <<"OFF">> -> {<<<<"auth", "mfa_configuration">>, Scalar(<<"NONE">>)>>}
      [] value = <<"OPTIONAL">> -> {<<<<"auth", "mfa_configuration">>, Scalar(<<"OPTIONAL">>)>>}
      [] value = <<"ON">> -> {<<<<"auth", "mfa_configuration">>, Scalar(<<"REQUIRED">>)>>}
      [] OTHER -> {}

PasswordPolicy(payload) ==
    LET at(field) == <<"auth", "password_policy", field>>
        required == IF "passwordPolicyRequirements" \in DOMAIN payload
                    THEN Range(ParseJson(payload.passwordPolicyRequirements)) ELSE {}
        minimum == IF "passwordPolicyMinLength" \in DOMAIN payload
                   THEN payload.passwordPolicyMinLength ELSE <<"8">>
    IN  IF {"passwordPolicyRequirements", "passwordPolicyMinLength"} \intersect DOMAIN payload = {}
        THEN {}
        ELSE {<<at("min_length"), Scalar(minimum)>>,
              <<at("require_numbers"), Flag("REQUIRES_NUMBERS" \in required)>>,
              <<at("require_lowercase"), Flag("REQUIRES_LOWERCASE" \in required)>>,
              <<at("require_uppercase"), Flag("REQUIRES_UPPERCASE" \in required)>>,
              <<at("require_symbols"), Flag("REQUIRES_SYMBOLS" \in required)>>}

\* Both redirections are needed.
OAuth(payload) ==
    LET at(field) == <<"auth", "oauth", field>>
        social == IF "socialProviders" \in DOMAIN payload
                  THEN ParseJson(payload.socialProviders) ELSE <<>>
    IN  IF ~({"oauthRedirectSignIn", "oauthRedirectSignOut"} \subseteq DOMAIN payload) THEN {}
        ELSE {<<at("identity_providers"), Array(SelectNames(social, ValidIdentityProviders))>>,
              <<at("redirect_sign_in_uri"), Array(payload.oauthRedirectSignIn)>>,
              <<at("redirect_sign_out_uri"), Array(payload.oauthRedirectSignOut)>>,
              <<at("response_type"), Scalar(payload.oauthResponseType)>>,
              <<at("scopes"), Array(ParseJson(payload.oauthScope))>>,
              <<at("domain"), Scalar(IF "oauthCognitoDomain" \in DOMAIN payload
                                     THEN payload.oauthCognitoDomain ELSE <<>>)>>}

\* The contributor of 1.3 and 1.4, and the older one, which knows no groups.
AuthContribution(payload, minor) ==
    LET at(field) == <<"auth", field>>
    IN  Config({<<at("user_pool_id"), Scalar(payload.userPoolId)>>,
                <<at("aws_region"), Scalar(payload.authRegion)>>,
                <<at("user_pool_client_id"), Scalar(payload.webClientId)>>,
                <<at("identity_pool_id"), Scalar(payload.identityPoolId)>>,
                <<at("unauthenticated_identities_enabled"),
                  Flag(payload.allowUnauthenticatedIdentities = <<"true">>)>>}
               \union {<<at(l[1]), Array(ParseJson(payload[l[2]]))>> : l \in AuthLists}
               \union (IF minor >= 3 THEN {<<at("groups"), Array(ParseJson(payload.groups))>>}
                       ELSE {})
               \union MfaConfiguration(payload.mfaConfiguration)
               \union PasswordPolicy(payload)
               \union OAuth(payload))

\* Of a bucket: its name and whether its access paths are told, from 1.2 on;
\* before 1.1 only the default bucket is.
StorageContribution(payload, minor) ==
    LET at(field) == <<"storage", field>>
    IN  Config({<<at("aws_region"), Scalar(payload.storageRegion)>>,
                <<at("bucket_name"), Scalar(payload.bucketName)>>}
               \union (IF minor = 0 THEN {}
                       ELSE {<<at("buckets"), Array(
                           [i \in DOMAIN ParseJson(payload.buckets) |->
                               LET bucket == ParseJson(payload.buckets)[i]
                               IN  <<bucket[1], bucket[2] /\ minor >= 2>>])>>}))

\* Where the backend's own lists are.
ManagedLists ==
    {<<"auth", field>> : field \in {l[1] : l \in AuthLists} \union {"groups"}}
    \union {<<"auth", "oauth", field>> :
               field \in {"identity_providers", "redirect_sign_in_uri", "redirect_sign_out_uri", "scopes"}}
    \union {<<"storage", "buckets">>}

Lists(part) == {path \in DOMAIN part : part[path].kind = "array"}

VersionContribution(minor) == Config({<<<<"version">>, Version(1, minor)>>})

-----------------------------------------------------------------------------
(* ObjectAccumulator *)

Inside(path, p) == p # path /\ IsPrefix(p, path)

\* accumulate() throws: a plain value is there already, or another major version.
Collides(accumulator, part) ==
    \E path \in DOMAIN part, p \in DOMAIN accumulator :
        /\ IsPrefix(p, path)
        /\ \/ accumulator[p].kind = "scalar"
           \/ accumulator[p].kind = "version" /\ part[path].val[1] # accumulator[p].val[1]

Newer(v, w) == IF w.val[2] >= v.val[2] THEN w ELSE v

\* Mutant: an array replaces an array.
CombineReplacing(existing, incoming) ==
    IF existing.kind = "version" THEN Newer(existing, incoming) ELSE incoming

Combine(existing, incoming) ==
    CASE existing.kind = "array" -> Array(existing.val \o incoming.val)
      [] existing.kind = "version" -> Newer(existing, incoming)
      [] OTHER -> incoming

\* Falsy values are overwritten, and so is an object by anything that is none.
Accumulate(accumulator, part) ==
    LET kept == {p \in DOMAIN accumulator :
                    \A path \in DOMAIN part : ~Inside(path, p) /\ ~Inside(p, path)}
    IN  [p \in kept \union DOMAIN part |->
            IF p \notin DOMAIN part THEN accumulator[p]
            ELSE IF p \in kept THEN Combine(accumulator[p], part[p]) ELSE part[p]]
================================================================================
