------------------------------- MODULE UserPool -------------------------------
(***************************************************************************)
(* The user pool that AmplifyAuth makes of its properties, the outputs it  *)
(* leaves about it, and what the client config makes of these.             *)
(*                                                                         *)
(* An output is a string: here the sequence of its comma separated parts,  *)
(* <<>> for the empty string; a JSON list starts with "[".  Senders,       *)
(* triggers, attribute mappings and account recovery are left out.         *)
(***************************************************************************)
EXTENDS Integers, SequencesExt

Json(list) == <<"[">> \o list
ParseJson(value) == Tail(value)

Providers == <<"Google", "Facebook", "LoginWithAmazon", "SignInWithApple", "OIDC", "SAML">>

NoExternal == [providers |-> {}, callbackUrls |-> <<>>, logoutUrls |-> <<>>,
               domainPrefix |-> FALSE]

\* templates: those that a function without the placeholder was given for.
ExternalProviders ==
    {NoExternal} \union
    [providers : (SUBSET Range(Providers)) \ {{}}, callbackUrls : {<<>>, <<"in">>},
     logoutUrls : {<<>>, <<"out">>}, domainPrefix : BOOLEAN]

AuthProps ==
    [email : BOOLEAN, phone : BOOLEAN, templates : SUBSET {"email", "sms", "mfa"},
     mode : {"none", "OFF", "OPTIONAL", "REQUIRED"}, sms : BOOLEAN, totp : BOOLEAN,
     external : ExternalProviders, groups : {<<>>, <<"admins", "editors">>}]

MfaInUse(props) == props.mode \in {"OPTIONAL", "REQUIRED"}

\* getUserPoolProps, verifyEmailBody and getMFAMessage throw.  A template is
\* looked at only when what it is for is switched on.
PoolRefused(props) ==
    \/ ~props.email /\ ~props.phone
    \/ props.email /\ "email" \in props.templates
    \/ props.phone /\ "sms" \in props.templates
    \/ MfaInUse(props) /\ props.sms /\ "mfa" \in props.templates
    \/ MfaInUse(props) /\ props.phone /\ ~props.sms

\* setupExternalProviders throws.
ExternalRefused(external) ==
    /\ external # NoExternal
    /\ external.callbackUrls = <<>> \/ external.logoutUrls = <<>> \/ ~external.domainPrefix

\* The elements of a sequence that are in a set, in their order.
SelectNames(names, chosen) ==
    FlattenSeq([i \in DOMAIN names |-> IF names[i] \in chosen THEN <<names[i]>> ELSE <<>>])

Chosen(email, phone) ==
    (IF email THEN <<"email">> ELSE <<>>) \o (IF phone THEN <<"phone_number">> ELSE <<>>)

\* External: what CDK's UserPool and UserPoolClient do with the properties.
CfnMfas(props) ==
    IF ~MfaInUse(props) THEN <<>>
    ELSE (IF props.sms THEN <<"SMS_MFA">> ELSE <<>>)
         \o (IF props.totp THEN <<"SOFTWARE_TOKEN_MFA">> ELSE <<>>)

Requirements == <<"REQUIRES_NUMBERS", "REQUIRES_LOWERCASE", "REQUIRES_UPPERCASE", "REQUIRES_SYMBOLS">>

\* The resources of AmplifyAuth.  Without external providers CDK fills in a
\* callback URL; an undefined list is <<>>.
Construct(props) ==
    [unauthenticated |-> TRUE,
     mfaConfiguration |-> CASE props.mode = "REQUIRED" -> <<"ON">>
                            [] props.mode = "none" -> <<>>
                            [] OTHER -> <<props.mode>>,
     enabledMfas |-> CfnMfas(props),
     required |-> Chosen(props.email, props.phone),
     usernameAttributes |-> Chosen(props.email, props.phone),
     autoVerified |-> Chosen(props.email, props.phone),
     policies |-> [defined |-> TRUE, requirements |-> Requirements, minLength |-> "8"],
     providers |-> SelectNames(Providers, props.external.providers),
     domain |-> props.external.domainPrefix,
     callbackUrls |-> IF props.external = NoExternal THEN <<"https://example.com">>
                      ELSE props.external.callbackUrls,
     logoutUrls |-> props.external.logoutUrls,
     groups |-> [i \in DOMAIN props.groups |-> <<props.groups[i], i - 1>>]]

-----------------------------------------------------------------------------
(* storeOutput.  All but the ids are Lazy: computed from the resources when *)
(* the stack is synthesized.                                                *)

\* Mutant: a second factor that is not SMS is forgotten.
MfaTypesSmsOnly(pool) == Json(SelectNames(<<"SMS">>, {"SMS" : m \in Range(pool.enabledMfas)}))

MfaTypes(pool) ==
    Json([i \in DOMAIN pool.enabledMfas |->
             IF pool.enabledMfas[i] = "SMS_MFA" THEN "SMS" ELSE "TOTP"])

SocialProviders(pool) ==
    LET name == [Google |-> "GOOGLE", Facebook |-> "FACEBOOK",
                 SignInWithApple |-> "SIGN_IN_WITH_APPLE",
                 LoginWithAmazon |-> "LOGIN_WITH_AMAZON", OIDC |-> "myOidc", SAML |-> "mySaml"]
    IN  IF pool.providers = <<>> THEN <<>>
        ELSE Json([i \in DOMAIN pool.providers |-> name[pool.providers[i]]])

AuthPayload(pool) ==
    [userPoolId |-> <<"pool">>, webClientId |-> <<"client">>,
     identityPoolId |-> <<"identities">>, authRegion |-> <<"region">>,
     allowUnauthenticatedIdentities |-> <<IF pool.unauthenticated THEN "true" ELSE "false">>,
     signupAttributes |-> Json(pool.required),
     usernameAttributes |-> Json(pool.usernameAttributes),
     verificationMechanisms |-> Json(pool.autoVerified),
     passwordPolicyMinLength |->
        IF pool.policies.defined THEN <<pool.policies.minLength>> ELSE <<>>,
     passwordPolicyRequirements |->
        IF pool.policies.defined THEN Json(pool.policies.requirements) ELSE <<>>,
     mfaConfiguration |->
        IF pool.mfaConfiguration = <<>> THEN <<"OFF">> ELSE pool.mfaConfiguration,
     mfaTypes |-> MfaTypes(pool),
     socialProviders |-> SocialProviders(pool),
     oauthCognitoDomain |-> IF pool.domain THEN <<"domain">> ELSE <<>>,
     oauthScope |-> Json(<<"profile">>),
     oauthRedirectSignIn |-> pool.callbackUrls,
     oauthRedirectSignOut |-> pool.logoutUrls,
     oauthResponseType |-> <<"code">>,
     oauthClientId |-> <<"client">>,
     groups |-> Json(pool.groups)]
==============================================================================
