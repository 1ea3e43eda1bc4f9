---------------------------- MODULE BackendSecrets ----------------------------
(***************************************************************************)
(* Secrets of one backend: parameters in its branch path and in the path   *)
(* shared by the branches of the app, and the custom resource whose Lambda *)
(* fetches them in a deployment.                                           *)
(*                                                                         *)
(* CloudFormation calls the fetcher only when a property of the resource   *)
(* has changed: the names of the secrets, or the stamp.  A sandbox stamps  *)
(* the deployment with the time of the latest change among its own secrets,*)
(* a pipeline with the time of the synthesis.  Listing and fetching take   *)
(* several calls each, and secrets are set and removed in between.         *)
(***************************************************************************)
EXTENDS Integers

CONSTANTS
    Secrets,        \* names
    MaxTime,        \* bound: changes of secrets and syntheses without a stamp
    MaxDeployments, \* bound: deployments
    Misreads        \* a read of the branch path may fail with an error of the caller

ASSUME SecretsBoundsAssumption == MaxTime \in Nat /\ MaxDeployments \in Nat
ASSUME MisreadsAssumption == Misreads \in BOOLEAN

VARIABLES
    clock,      \* time of the latest change
    parameters, \* time of each parameter's value in both paths, 0 for none
    isSandbox,  \* the deployments are those of a sandbox
    phase,      \* of the deployment
    used,       \* secrets that the program uses
    toList,     \* secrets that are on no page yet
    latest,     \* latestTimestamp, 0 for none
    wanted,     \* properties of the resource that are being deployed
    resource,   \* the deployed resource
    toFetch,    \* secretNames that the handler has still to fetch
    reading,    \* the secret that it looks for in the shared path
    fetched,    \* its secretMap so far
    deployments,
    outcome,    \* of the latest deployment
    atStart,    \* ghost: parameters when the latest deployment began
    kept        \* ghost: secrets that have been in the branch path ever since

program == <<isSandbox, used, deployments>>
secretsVars == <<clock, parameters, program, phase, toList, latest, wanted, resource, toFetch,
                 reading, fetched, outcome, atStart, kept>>

Times == 0..MaxTime
Paths == {"branch", "shared"}

\* A fetched value: where it was found, when it was set, and whether the branch
\* path was given up because of an error other than that there is no secret.
Found(path, time, misread) == [path |-> path, time |-> time, misread |-> misread]
NotFetched == Found("branch", 0, FALSE)
Values == [path : Paths, time : Times, misread : BOOLEAN]

NoResource == [names |-> {}, stamp |-> 0, values |-> [n \in Secrets |-> NotFetched]]
Resources == [names : SUBSET Secrets, stamp : Times, values : [Secrets -> Values]]

None == [none |-> TRUE]
Reading(n, misread) == [none |-> FALSE, name |-> n, misread |-> misread]
Readings == [none : {FALSE}, name : Secrets, misread : BOOLEAN]

Phases == {"idle", "listing", "synth", "fetching", "others", "rollback", "stuck"}

SecretsTypeOK ==
    /\ clock \in Times
    /\ parameters \in [Paths -> [Secrets -> Times]]
    /\ isSandbox \in BOOLEAN
    /\ phase \in Phases
    /\ used \in SUBSET Secrets
    /\ toList \in SUBSET Secrets
    /\ latest \in Times
    /\ wanted \in Resources
    /\ resource \in Resources
    /\ toFetch \in SUBSET Secrets
    /\ reading \in Readings \union {None}
    /\ fetched \in [Secrets -> Values]
    /\ deployments \in 0..MaxDeployments
    /\ outcome \in {"none", "succeeded", "failed"}
    /\ atStart \in [Paths -> [Secrets -> Times]]
    /\ kept \in SUBSET Secrets

SecretsInit ==
    /\ clock = 0
    /\ parameters = [path \in Paths |-> [n \in Secrets |-> 0]]
    /\ isSandbox \in BOOLEAN
    /\ phase = "idle"
    /\ used = {} /\ toList = {} /\ latest = 0
    /\ wanted = NoResource /\ resource = NoResource
    /\ toFetch = {} /\ reading = None /\ fetched = NoResource.values
    /\ deployments = 0 /\ outcome = "none"
    /\ atStart = parameters /\ kept = {}

-----------------------------------------------------------------------------
(* SSMSecretClient: the commands set and remove.                            *)

SetSecret(path, n) ==
    /\ clock < MaxTime
    /\ clock' = clock + 1
    /\ parameters' = [parameters EXCEPT ![path][n] = clock + 1]
    /\ UNCHANGED <<program, phase, toList, latest, wanted, resource, toFetch, reading, fetched,
                   outcome, atStart, kept>>

\* removeSecret of one, or removeSecrets of those that a list has shown.
RemoveSecrets(path, names) ==
    /\ names # {} /\ clock < MaxTime
    /\ \A n \in names : parameters[path][n] # 0
    /\ clock' = clock + 1
    /\ parameters' = [parameters EXCEPT ![path] =
                         [n \in Secrets |-> IF n \in names THEN 0 ELSE @[n]]]
    /\ kept' = IF path = "branch" THEN kept \ names ELSE kept
    /\ UNCHANGED <<program, phase, toList, latest, wanted, resource, toFetch, reading, fetched,
                   outcome, atStart>>

-----------------------------------------------------------------------------
(* The deployment up to the change set.                                     *)

DeploymentBegins(names) ==
    /\ phase = "idle" /\ deployments < MaxDeployments
    /\ deployments' = deployments + 1
    /\ used' = names
    /\ phase' = IF isSandbox THEN "listing" ELSE "synth"
    /\ toList' = IF isSandbox THEN Secrets ELSE {}
    /\ latest' = 0
    /\ atStart' = parameters
    /\ kept' = {n \in Secrets : parameters["branch"][n] # 0}
    /\ UNCHANGED <<clock, parameters, isSandbox, wanted, resource, toFetch, reading, fetched,
                   outcome>>

\* listSecrets, one page of it, and the time that getSecretLastUpdated makes of it.
ListedWith(page, time) ==
    /\ phase = "listing" /\ page # {} /\ page \subseteq toList
    /\ latest' = time
    /\ toList' = toList \ page
    /\ phase' = IF toList' = {} THEN "synth" ELSE phase
    /\ UNCHANGED <<clock, parameters, program, wanted, resource, toFetch, reading, fetched,
                   outcome, atStart, kept>>

\* Mutant: the time of a parameter on the page, not of the latest one.
ListPageAnyTime(page) ==
    \E n \in page : ListedWith(page, IF parameters["branch"][n] = 0 THEN latest
                                     ELSE parameters["branch"][n])

ListPage(page) ==
    \E time \in {latest} \union {parameters["branch"][n] : n \in page} :
        /\ latest <= time /\ \A n \in page : parameters["branch"][n] <= time
        /\ ListedWith(page, time)

ListFails ==
    /\ phase = "listing"
    /\ phase' = "idle"
    /\ toList' = {}
    /\ outcome' = "failed"
    /\ UNCHANGED <<clock, parameters, program, latest, wanted, resource, toFetch, reading, fetched,
                   atStart, kept>>

\* getOrCreate, with the given stamp.  CloudFormation calls the fetcher when a
\* property of the resource is another than before.
SynthesizedWith(stamp) ==
    /\ phase = "synth"
    /\ wanted' = IF used = {} THEN NoResource
                 ELSE [names |-> used, stamp |-> stamp, values |-> resource.values]
    /\ IF used # {} /\ <<used, stamp>> # <<resource.names, resource.stamp>>
       THEN phase' = "fetching" /\ toFetch' = used
       ELSE phase' = "others" /\ UNCHANGED toFetch
    /\ UNCHANGED <<parameters, program, toList, latest, resource, reading, fetched, outcome,
                   atStart, kept>>

\* Mutant: there is no other stamp than that of the list.
SynthesizeUnstamped == SynthesizedWith(latest) /\ UNCHANGED clock

\* The stamp of the list, or else Date.now().
Synthesize ==
    \/ latest # 0 /\ SynthesizedWith(latest) /\ UNCHANGED clock
    \/ /\ latest = 0 /\ clock < MaxTime
       /\ clock' = clock + 1
       /\ SynthesizedWith(clock + 1)

-----------------------------------------------------------------------------
(* handleCreateUpdateEvent                                                  *)

Handling == phase \in {"fetching", "rollback"}

\* A value goes into the map; with the last one the handler answers.
Fetches(n, value) ==
    LET secretMap == [fetched EXCEPT ![n] = value]
    IN  /\ toFetch' = toFetch \ {n}
        /\ fetched' = IF toFetch' = {} THEN NoResource.values ELSE secretMap
        /\ reading' = None
        /\ IF toFetch' # {} THEN UNCHANGED <<phase, wanted, resource>>
           ELSE IF phase = "fetching"
           THEN /\ wanted' = [wanted EXCEPT !.values = secretMap]
                /\ phase' = "others" /\ UNCHANGED resource
           ELSE /\ resource' = [resource EXCEPT !.values = secretMap]
                /\ phase' = "idle" /\ UNCHANGED wanted

\* getSecret in the branch path; without a value the shared path comes next.
FetchBranch(n) ==
    /\ Handling /\ n \in toFetch /\ reading = None
    /\ IF parameters["branch"][n] # 0
       THEN Fetches(n, Found("branch", parameters["branch"][n], FALSE))
       ELSE reading' = Reading(n, FALSE) /\ UNCHANGED <<phase, toFetch, fetched, wanted, resource>>
    /\ UNCHANGED <<clock, parameters, program, toList, latest, outcome, atStart, kept>>

\* An error without a status or with one below 500 is dropped.
FetchBranchMisread(n) ==
    /\ Handling /\ n \in toFetch /\ reading = None
    /\ Misreads
    /\ reading' = Reading(n, TRUE)
    /\ UNCHANGED <<clock, parameters, program, phase, toList, latest, wanted, resource, toFetch,
                   fetched, outcome, atStart, kept>>

FetchShared ==
    /\ Handling /\ reading # None
    /\ parameters["shared"][reading.name] # 0
    /\ Fetches(reading.name,
               Found("shared", parameters["shared"][reading.name], reading.misread))
    /\ UNCHANGED <<clock, parameters, program, toList, latest, outcome, atStart, kept>>

-----------------------------------------------------------------------------
(* CloudFormation: the other resources, and the rollback.                   *)

\* The resource is given its old properties again, if it was there before.
RollsBack ==
    /\ outcome' = "failed"
    /\ reading' = None
    /\ wanted' = NoResource
    /\ fetched' = NoResource.values
    /\ IF resource.names = {} THEN phase' = "idle" /\ toFetch' = {}
       ELSE phase' = "rollback" /\ toFetch' = resource.names
    /\ UNCHANGED <<clock, parameters, program, toList, latest, resource, atStart, kept>>

\* A secret is in neither path, or a read fails, or the Lambda times out.
FetchFails == phase = "fetching" /\ RollsBack

RollbackFails ==
    /\ phase = "rollback"
    /\ phase' = "stuck"
    /\ UNCHANGED <<clock, parameters, program, toList, latest, wanted, resource, toFetch, reading,
                   fetched, outcome, atStart, kept>>

Refetched == used # {} /\ wanted # resource

OthersFail ==
    /\ phase = "others"
    /\ IF Refetched THEN RollsBack
       ELSE /\ phase' = "idle" /\ outcome' = "failed"
            /\ wanted' = NoResource
            /\ UNCHANGED <<clock, parameters, program, toList, latest, resource, toFetch, reading,
                           fetched, atStart, kept>>

Succeeds ==
    /\ phase = "others"
    /\ phase' = "idle"
    /\ outcome' = "succeeded"
    /\ resource' = wanted
    /\ wanted' = NoResource
    /\ fetched' = NoResource.values
    /\ UNCHANGED <<clock, parameters, program, toList, latest, toFetch, reading, atStart, kept>>

SecretsNext ==
    \/ \E path \in Paths : \/ \E n \in Secrets : SetSecret(path, n)
                           \/ \E names \in SUBSET Secrets : RemoveSecrets(path, names)
    \/ \E names \in SUBSET Secrets : DeploymentBegins(names) \/ ListPage(names)
    \/ ListFails \/ Synthesize
    \/ \E n \in Secrets : FetchBranch(n) \/ FetchBranchMisread(n)
    \/ FetchShared \/ FetchFails \/ RollbackFails \/ OthersFail \/ Succeeds

SecretsSpec == SecretsInit /\ [][SecretsNext]_secretsVars

-----------------------------------------------------------------------------
(* Properties. *)

Deployed == phase = "idle" /\ outcome = "succeeded"

\* The stamp is "only to trigger resource update event" (getOrCreate), and it
\* does: after a deployment that succeeded, the value of every secret that was
\* set in the branch path when the deployment began and is still there is of
\* that time or newer, whatever was set, removed, failed or rolled back before;
\* unless the read of the branch path failed and the shared value was taken.
SetSecretsArrive ==
    Deployed => \A n \in resource.names \intersect kept :
        LET value == resource.values[n]
        IN  value.misread \/ (value.path = "branch" /\ value.time >= atStart["branch"][n])

\* A deployment without a stamp takes the shared values anew: pipelines always,
\* sandboxes while they have no secret of their own.
SharedSecretsArrive ==
    Deployed /\ latest = 0 => \A n \in resource.names :
        LET value == resource.values[n]
        IN  value.time >= atStart[value.path][n]

=============================================================================
