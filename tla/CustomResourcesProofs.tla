------------------------ MODULE CustomResourcesProofs ------------------------
(***************************************************************************)
(* Theorems about the custom resources of a branch, for every value of the *)
(* constants: BackendSecrets and BranchLinker.                             *)
(***************************************************************************)
EXTENDS MCCustomResources, TLAPS

-----------------------------------------------------------------------------
(* BackendSecrets *)

(* The inductive invariant. *)

\* Nothing is of a time that has not come.  What is in a path now is not older
\* than what was there when the deployment began.
TimesInv ==
    /\ \A path \in Paths, n \in Secrets :
           /\ parameters[path][n] <= clock /\ atStart[path][n] <= clock
           /\ parameters[path][n] = 0 \/ atStart[path][n] <= parameters[path][n]
    /\ latest <= clock /\ wanted.stamp <= clock /\ resource.stamp <= clock

KeptInv == \A n \in kept : atStart["branch"][n] # 0 /\ parameters["branch"][n] # 0

IsFrom(value, time) == value.misread \/ (value.path = "branch" /\ value.time >= time)

\* Values that were fetched for a stamp cover the secrets up to that stamp: those
\* in the branch path now, and those of the beginning that are still there.
Covers(names, stamp, values) ==
    \A n \in names :
        /\ parameters["branch"][n] \in 1..stamp => IsFrom(values[n], parameters["branch"][n])
        /\ n \in kept /\ atStart["branch"][n] <= stamp => IsFrom(values[n], atStart["branch"][n])

HandledNames == IF phase = "fetching" THEN wanted.names ELSE resource.names
HandledStamp == IF phase = "fetching" THEN wanted.stamp ELSE resource.stamp

CoversInv ==
    /\ Covers(resource.names, resource.stamp, resource.values)
    /\ phase = "others" => Covers(wanted.names, wanted.stamp, wanted.values)
    /\ Handling => Covers(HandledNames \ toFetch, HandledStamp, fetched)

\* The shared path is read without an error before only for a secret that was not
\* in the branch path: what is there now was set after the stamp.
ReadingInv ==
    /\ reading # None => Handling \/ phase = "stuck"
    /\ Handling /\ reading # None /\ ~reading.misread =>
           /\ reading.name \notin kept
           /\ parameters["branch"][reading.name] \notin 1..HandledStamp

KeptBefore(time) == \A n \in kept : atStart["branch"][n] <= time

\* The stamp is not older than any secret that was there at the beginning.
StampInv ==
    /\ phase = "listing" => \A n \in kept \ toList : atStart["branch"][n] <= latest
    /\ phase = "synth" => latest = 0 \/ KeptBefore(latest)
    /\ phase = "fetching" => KeptBefore(wanted.stamp)
    /\ phase = "others" => wanted.names = {} \/ KeptBefore(wanted.stamp)
    /\ Deployed => resource.names = {} \/ KeptBefore(resource.stamp)

Fresh(names, values) == \A n \in names : values[n].time >= atStart[values[n].path][n]

\* What an update fetches is as new as what was there at the beginning.
FreshInv ==
    /\ phase = "rollback" => outcome = "failed"
    /\ phase = "fetching" => Fresh(wanted.names \ toFetch, fetched)
    /\ phase = "others" /\ latest = 0 => Fresh(wanted.names, wanted.values)
    /\ Deployed /\ latest = 0 => Fresh(resource.names, resource.values)

SecretsInv ==
    SecretsTypeOK /\ TimesInv /\ KeptInv /\ CoversInv /\ ReadingInv /\ StampInv /\ FreshInv

-----------------------------------------------------------------------------
(* Types. *)

LEMMA SecretsConstants ==
    /\ MaxTime \in Nat /\ Times = 0..MaxTime
    /\ NoResource \in Resources /\ NoResource.values \in [Secrets -> Values]
    /\ NoResource.names = {} /\ NoResource.stamp = 0
<1>1. MaxTime \in Nat /\ Times = 0..MaxTime
  BY SecretsBoundsAssumption DEF Times
<1>2. NotFetched \in Values
  BY <1>1 DEF NotFetched, Found, Values, Paths
<1>3. NoResource.values \in [Secrets -> Values] /\ NoResource.names = {} /\ NoResource.stamp = 0
  BY <1>2 DEF NoResource
<1>4. NoResource \in Resources
  BY <1>1, <1>2 DEF NoResource, Resources
<1> QED BY <1>1, <1>3, <1>4

\* What the handler works on, apart from the values.
LEMMA FetchesHasType ==
    ASSUME SecretsTypeOK, NEW n \in Secrets, NEW value \in Values, Fetches(n, value)
    PROVE  /\ toFetch' \in SUBSET Secrets /\ fetched' \in [Secrets -> Values]
           /\ reading' = None /\ phase' \in Phases
           /\ wanted' \in Resources /\ resource' \in Resources
<1> DEFINE secretMap == [fetched EXCEPT ![n] = value]
<1>1. secretMap \in [Secrets -> Values]
  BY DEF SecretsTypeOK
<1>2. toFetch' \in SUBSET Secrets /\ reading' = None
  BY DEF SecretsTypeOK, Fetches
<1>3. fetched' \in [Secrets -> Values]
  BY <1>1, SecretsConstants DEF Fetches
<1>4. [wanted EXCEPT !.values = secretMap] \in Resources
  BY <1>1 DEF SecretsTypeOK, Resources
<1>5. [resource EXCEPT !.values = secretMap] \in Resources
  BY <1>1 DEF SecretsTypeOK, Resources
<1>6. phase' \in Phases /\ wanted' \in Resources /\ resource' \in Resources
  <2>1. CASE toFetch' # {}
    BY <2>1 DEF Fetches, SecretsTypeOK
  <2>2. CASE toFetch' = {} /\ phase = "fetching"
    <3>1. wanted' = [wanted EXCEPT !.values = secretMap] /\ phase' = "others" /\ UNCHANGED resource
      BY <2>2 DEF Fetches
    <3> HIDE DEF secretMap
    <3> QED BY <3>1, <1>4 DEF SecretsTypeOK, Phases
  <2>3. CASE toFetch' = {} /\ phase # "fetching"
    <3>1. resource' = [resource EXCEPT !.values = secretMap] /\ phase' = "idle" /\ UNCHANGED wanted
      BY <2>3 DEF Fetches
    <3> HIDE DEF secretMap
    <3> QED BY <3>1, <1>5 DEF SecretsTypeOK, Phases
  <2> QED BY <2>1, <2>2, <2>3
<1> QED BY <1>2, <1>3, <1>6

LEMMA RollsBackHasType ==
    ASSUME SecretsTypeOK, RollsBack PROVE SecretsTypeOK'
<1>1. toFetch' \in SUBSET Secrets /\ phase' \in Phases
  BY DEF RollsBack, SecretsTypeOK, Resources, Phases
<1>2. wanted' \in Resources /\ fetched' \in [Secrets -> Values]
  BY SecretsConstants DEF RollsBack
<1> QED BY <1>1, <1>2 DEF RollsBack, SecretsTypeOK, program

LEMMA SecretsTypeInit == SecretsInit => SecretsTypeOK
<1> SUFFICES ASSUME SecretsInit PROVE SecretsTypeOK
  OBVIOUS
<1>1. parameters \in [Paths -> [Secrets -> Times]] /\ atStart = parameters
  BY SecretsConstants DEF SecretsInit
<1>2. wanted \in Resources /\ resource \in Resources /\ fetched \in [Secrets -> Values]
  BY SecretsConstants DEF SecretsInit
<1> QED BY <1>1, <1>2, SecretsConstants, SecretsBoundsAssumption
        DEF SecretsInit, SecretsTypeOK, Phases

LEMMA SecretsTypeStep == SecretsTypeOK /\ [SecretsNext]_secretsVars => SecretsTypeOK'
<1> SUFFICES ASSUME SecretsTypeOK, [SecretsNext]_secretsVars PROVE SecretsTypeOK'
  OBVIOUS
<1> USE SecretsConstants DEF SecretsTypeOK, program
<1>1. ASSUME NEW path \in Paths, NEW n \in Secrets, SetSecret(path, n) PROVE SecretsTypeOK'
  <2>1. clock + 1 \in Times
    BY <1>1 DEF SetSecret
  <2>2. [parameters[path] EXCEPT ![n] = clock + 1] \in [Secrets -> Times]
    BY <2>1
  <2>3. parameters' = [parameters EXCEPT ![path] = [parameters[path] EXCEPT ![n] = clock + 1]]
    BY <1>1 DEF SetSecret
  <2>4. parameters' \in [Paths -> [Secrets -> Times]]
    BY <2>2, <2>3
  <2> QED BY <1>1, <2>1, <2>4 DEF SetSecret
<1>2. ASSUME NEW path \in Paths, NEW names \in SUBSET Secrets, RemoveSecrets(path, names)
      PROVE  SecretsTypeOK'
  <2> DEFINE left == [n \in Secrets |-> IF n \in names THEN 0 ELSE parameters[path][n]]
  <2>1. clock + 1 \in Times /\ clock' = clock + 1
    BY <1>2 DEF RemoveSecrets
  <2>2. left \in [Secrets -> Times]
    OBVIOUS
  <2>3. parameters' = [parameters EXCEPT ![path] = left]
    BY <1>2 DEF RemoveSecrets
  <2>4. parameters' \in [Paths -> [Secrets -> Times]]
    <3> HIDE DEF left
    <3> QED BY <2>2, <2>3
  <2>5. kept' \in SUBSET Secrets
    BY <1>2 DEF RemoveSecrets
  <2> QED BY <1>2, <2>1, <2>4, <2>5 DEF RemoveSecrets
<1>3. ASSUME NEW names \in SUBSET Secrets, DeploymentBegins(names) PROVE SecretsTypeOK'
  BY <1>3, SecretsBoundsAssumption DEF DeploymentBegins, Phases
<1>4. ASSUME NEW page \in SUBSET Secrets, ListPage(page) PROVE SecretsTypeOK'
  <2>1. PICK time \in {latest} \union {parameters["branch"][n] : n \in page} : ListedWith(page, time)
    BY <1>4 DEF ListPage
  <2>2. time \in Times
    BY DEF Paths
  <2> QED BY <2>1, <2>2 DEF ListedWith, Phases
<1>5. CASE ListFails
  BY <1>5 DEF ListFails, Phases
<1>6. CASE Synthesize
  <2>1. PICK stamp \in Times : SynthesizedWith(stamp)
    <3>1. CASE SynthesizedWith(latest)
      BY <3>1
    <3>2. CASE clock < MaxTime /\ SynthesizedWith(clock + 1)
      <4>1. clock + 1 \in Times
        BY <3>2
      <4> QED BY <3>2, <4>1
    <3> QED BY <1>6, <3>1, <3>2 DEF Synthesize
  <2>2. clock' \in Times
    BY <1>6 DEF Synthesize
  <2>3. [names |-> used, stamp |-> stamp, values |-> resource.values] \in Resources
    BY DEF Resources
  <2>4. wanted' \in Resources
    BY <2>1, <2>3 DEF SynthesizedWith
  <2>5. phase' \in Phases /\ toFetch' \in SUBSET Secrets
    BY <2>1 DEF SynthesizedWith, Phases
  <2> QED BY <2>1, <2>2, <2>4, <2>5 DEF SynthesizedWith
<1>7. ASSUME NEW n \in Secrets, FetchBranch(n) PROVE SecretsTypeOK'
  <2>1. CASE parameters["branch"][n] # 0
    <3>1. Found("branch", parameters["branch"][n], FALSE) \in Values
      BY DEF Found, Values, Paths
    <3>2. Fetches(n, Found("branch", parameters["branch"][n], FALSE))
      BY <1>7, <2>1 DEF FetchBranch
    <3>3. /\ toFetch' \in SUBSET Secrets /\ fetched' \in [Secrets -> Values]
          /\ reading' = None /\ phase' \in Phases
          /\ wanted' \in Resources /\ resource' \in Resources
      BY <3>1, <3>2, FetchesHasType
    <3> QED BY <1>7, <3>3 DEF FetchBranch
  <2>2. CASE parameters["branch"][n] = 0
    <3>1. Reading(n, FALSE) \in Readings
      BY DEF Reading, Readings
    <3> QED BY <1>7, <2>2, <3>1 DEF FetchBranch
  <2> QED BY <2>1, <2>2
<1>8. ASSUME NEW n \in Secrets, FetchBranchMisread(n) PROVE SecretsTypeOK'
  <2>1. Reading(n, TRUE) \in Readings
    BY DEF Reading, Readings
  <2> QED BY <1>8, <2>1 DEF FetchBranchMisread
<1>9. CASE FetchShared
  <2>1. reading \in Readings
    BY <1>9 DEF FetchShared
  <2>2. reading.name \in Secrets /\ reading.misread \in BOOLEAN
    BY <2>1 DEF Readings
  <2> DEFINE value == Found("shared", parameters["shared"][reading.name], reading.misread)
  <2>3. value \in Values
    BY <2>2 DEF Found, Values, Paths
  <2>4. Fetches(reading.name, value)
    BY <1>9 DEF FetchShared
  <2> HIDE DEF value
  <2>5. /\ toFetch' \in SUBSET Secrets /\ fetched' \in [Secrets -> Values]
        /\ reading' = None /\ phase' \in Phases
        /\ wanted' \in Resources /\ resource' \in Resources
    BY <2>2, <2>3, <2>4, FetchesHasType
  <2> QED BY <1>9, <2>5 DEF FetchShared
<1>10. CASE FetchFails
  BY <1>10, RollsBackHasType DEF FetchFails
<1>11. CASE RollbackFails
  BY <1>11 DEF RollbackFails, Phases
<1>12. CASE OthersFail
  <2>1. CASE RollsBack
    BY <2>1, RollsBackHasType
  <2>2. CASE ~RollsBack
    BY <1>12, <2>2 DEF OthersFail, Phases
  <2> QED BY <2>1, <2>2
<1>13. CASE Succeeds
  BY <1>13 DEF Succeeds, Phases
<1>14. CASE UNCHANGED secretsVars
  BY <1>14 DEF secretsVars
<1> QED BY <1>1, <1>2, <1>3, <1>4, <1>5, <1>6, <1>7, <1>8, <1>9, <1>10, <1>11, <1>12, <1>13, <1>14
        DEF SecretsNext

-----------------------------------------------------------------------------
(* The parts of the invariant that the types do not tell.                   *)

SecretsRest == TimesInv /\ KeptInv /\ CoversInv /\ ReadingInv /\ StampInv /\ FreshInv

LEMMA SecretsNumbers ==
    ASSUME SecretsTypeOK
    PROVE  /\ clock \in Nat /\ latest \in Nat /\ wanted.stamp \in Nat /\ resource.stamp \in Nat
           /\ \A path \in Paths, n \in Secrets :
                  parameters[path][n] \in Nat /\ atStart[path][n] \in Nat
           /\ \A n \in Secrets : parameters["branch"][n] \in Nat /\ atStart["branch"][n] \in Nat
           /\ kept \subseteq Secrets /\ wanted.names \subseteq Secrets
           /\ resource.names \subseteq Secrets /\ toFetch \subseteq Secrets
           /\ "branch" \in Paths /\ "shared" \in Paths
  BY SecretsConstants DEF SecretsTypeOK, Resources, Paths

\* A secret that is set gets a time after every stamp, and one that is removed is
\* not kept.
LEMMA ChangeStep ==
    ASSUME SecretsInv, clock' = clock + 1,
           \A path \in Paths, n \in Secrets :
               parameters'[path][n] \in {parameters[path][n], 0, clock + 1},
           kept' \subseteq kept, \A n \in kept' : parameters'["branch"][n] # 0,
           UNCHANGED <<phase, toList, latest, wanted, resource, toFetch, reading, fetched, outcome,
                       atStart>>
    PROVE  SecretsRest'
<1> USE SecretsNumbers DEF SecretsInv
<1>1. TimesInv'
  BY DEF TimesInv
<1>2. KeptInv'
  BY DEF KeptInv
<1>3. \A n \in Secrets, stamp \in Nat :
          stamp <= clock /\ parameters'["branch"][n] \in 1..stamp
              => parameters'["branch"][n] = parameters["branch"][n]
  OBVIOUS
<1>4. CoversInv'
  <2>1. resource.stamp <= clock /\ wanted.stamp <= clock
    BY DEF TimesInv
  <2>2. Covers(resource.names, resource.stamp, resource.values)'
    BY <1>3, <2>1 DEF Covers, CoversInv
  <2>3. (phase = "others" => Covers(wanted.names, wanted.stamp, wanted.values))'
    BY <1>3, <2>1 DEF Covers, CoversInv
  <2>4. (Handling => Covers(HandledNames \ toFetch, HandledStamp, fetched))'
    <3>1. HandledNames \subseteq Secrets /\ HandledStamp \in Nat /\ HandledStamp <= clock
      BY <2>1 DEF HandledNames, HandledStamp
    <3>2. HandledNames' = HandledNames /\ HandledStamp' = HandledStamp /\ Handling' = Handling
      BY DEF HandledNames, HandledStamp, Handling
    <3> QED BY <1>3, <3>1, <3>2 DEF Covers, CoversInv
  <2> QED BY <2>2, <2>3, <2>4 DEF CoversInv
<1>5. ReadingInv'
  <2>1. HandledStamp \in Nat /\ HandledStamp <= clock
    BY DEF HandledStamp, TimesInv
  <2>2. HandledStamp' = HandledStamp /\ Handling' = Handling
    BY DEF HandledStamp, Handling
  <2>3. reading # None => reading.name \in Secrets
    BY DEF SecretsTypeOK, Readings
  <2> QED BY <1>3, <2>1, <2>2, <2>3 DEF ReadingInv
<1>6. StampInv'
  BY DEF StampInv, KeptBefore, Deployed
<1>7. FreshInv'
  BY DEF FreshInv, Fresh, Deployed
<1> QED BY <1>1, <1>2, <1>4, <1>5, <1>6, <1>7 DEF SecretsRest

LEMMA BeginStep ==
    ASSUME SecretsInv, NEW names \in SUBSET Secrets, DeploymentBegins(names)
    PROVE  SecretsRest'
<1> USE SecretsNumbers DEF SecretsInv, DeploymentBegins
<1>1. TimesInv'
  BY DEF TimesInv
<1>2. KeptInv'
  BY DEF KeptInv
<1>3. CoversInv'
  <2>1. \A n \in kept', stamp \in Nat :
            atStart'["branch"][n] <= stamp => parameters["branch"][n] \in 1..stamp
    OBVIOUS
  <2>2. Covers(resource.names, resource.stamp, resource.values)'
    BY <2>1 DEF Covers, CoversInv
  <2> QED BY <2>2 DEF CoversInv, Handling
<1>4. ReadingInv'
  BY DEF ReadingInv, Handling
<1>5. StampInv'
  BY DEF StampInv, Deployed
<1>6. FreshInv'
  BY DEF FreshInv, Deployed
<1> QED BY <1>1, <1>2, <1>3, <1>4, <1>5, <1>6 DEF SecretsRest

\* The list reads each parameter after the deployment began.
LEMMA ListStep ==
    ASSUME SecretsInv, NEW page \in SUBSET Secrets, ListPage(page)
    PROVE  SecretsRest'
<1> USE SecretsNumbers DEF SecretsInv
<1>1. PICK time \in {latest} \union {parameters["branch"][n] : n \in page} :
          /\ latest <= time /\ \A n \in page : parameters["branch"][n] <= time
          /\ ListedWith(page, time)
  BY DEF ListPage
<1>2. time \in Nat /\ time <= clock
  BY <1>1 DEF TimesInv
<1>3. /\ phase = "listing" /\ phase' \in {"listing", "synth"}
      /\ latest' = time /\ toList' = toList \ page /\ (phase' = "synth" => toList' = {})
      /\ UNCHANGED <<clock, parameters, wanted, resource, toFetch, reading, fetched, outcome,
                     atStart, kept>>
  BY <1>1 DEF ListedWith
<1>4. TimesInv' /\ KeptInv'
  BY <1>2, <1>3 DEF TimesInv, KeptInv
<1>5. CoversInv' /\ ReadingInv'
  BY <1>3 DEF CoversInv, Covers, ReadingInv, Handling
<1>6. \A n \in kept \ toList' : atStart["branch"][n] <= time
  <2>1. \A n \in kept : atStart["branch"][n] <= parameters["branch"][n]
    BY DEF TimesInv, KeptInv
  <2> QED BY <1>1, <1>2, <1>3, <2>1 DEF StampInv
<1>7. StampInv' /\ FreshInv'
  BY <1>3, <1>6 DEF StampInv, KeptBefore, Deployed, FreshInv
<1> QED BY <1>4, <1>5, <1>7 DEF SecretsRest

LEMMA SynthesizeStep == ASSUME SecretsInv, Synthesize PROVE SecretsRest'
<1> USE SecretsNumbers DEF SecretsInv
<1>1. PICK stamp \in Nat :
          /\ SynthesizedWith(stamp)
          /\ clock' \in Nat /\ clock <= clock' /\ stamp <= clock'
          /\ KeptBefore(stamp)
          /\ latest # 0 \/ resource.stamp < stamp
  <2>1. CASE latest # 0 /\ SynthesizedWith(latest) /\ UNCHANGED clock
    BY <2>1 DEF TimesInv, StampInv, SynthesizedWith
  <2>2. CASE clock' = clock + 1 /\ SynthesizedWith(clock + 1)
    BY <2>2 DEF TimesInv, KeptBefore
  <2> QED BY <2>1, <2>2 DEF Synthesize
<1>2. UNCHANGED <<parameters, latest, resource, reading, fetched, outcome, atStart, kept>>
  BY <1>1 DEF SynthesizedWith
<1>3. wanted' = IF used = {} THEN NoResource
                ELSE [names |-> used, stamp |-> stamp, values |-> resource.values]
  BY <1>1 DEF SynthesizedWith
<1>4. wanted'.stamp \in Nat /\ wanted'.stamp <= clock'
  BY <1>1, <1>3, SecretsConstants
<1>5. TimesInv' /\ KeptInv'
  BY <1>1, <1>2, <1>4 DEF TimesInv, KeptInv
<1>6. Covers(resource.names, resource.stamp, resource.values)'
  BY <1>2 DEF CoversInv, Covers
<1>7. reading' = None
  BY <1>1, <1>2 DEF ReadingInv, Handling, SynthesizedWith
<1>8. CASE phase' = "fetching" /\ toFetch' = used /\ used # {}
  <2>1. wanted'.names = used /\ wanted'.stamp = stamp
    BY <1>3, <1>8
  <2>2. CoversInv' /\ ReadingInv'
    BY <1>6, <1>7, <1>8, <2>1 DEF CoversInv, Covers, HandledNames, HandledStamp, ReadingInv
  <2>3. StampInv' /\ FreshInv'
    BY <1>1, <1>2, <1>8, <2>1 DEF StampInv, KeptBefore, Deployed, FreshInv, Fresh
  <2> QED BY <1>5, <2>2, <2>3 DEF SecretsRest
<1>9. CASE phase' = "others"
           /\ (used = {} \/ <<used, stamp>> = <<resource.names, resource.stamp>>)
  <2>1. CASE used = {}
    <3>1. wanted'.names = {}
      BY <1>3, <2>1, SecretsConstants
    <3>2. CoversInv' /\ ReadingInv'
      BY <1>6, <1>7, <1>9, <3>1 DEF CoversInv, Covers, Handling, ReadingInv
    <3>3. StampInv' /\ FreshInv'
      BY <1>9, <3>1 DEF StampInv, Deployed, FreshInv, Fresh
    <3> QED BY <1>5, <3>2, <3>3 DEF SecretsRest
  <2>2. CASE used # {}
    <3>1. /\ wanted'.names = resource.names /\ wanted'.stamp = resource.stamp
          /\ wanted'.values = resource.values /\ stamp = resource.stamp
      BY <1>3, <1>9, <2>2
    <3>2. CoversInv' /\ ReadingInv'
      BY <1>2, <1>6, <1>7, <1>9, <3>1 DEF CoversInv, Covers, Handling, ReadingInv
    <3>3. latest' # 0
      BY <1>1, <1>2, <3>1
    <3>4. StampInv' /\ FreshInv'
      BY <1>1, <1>2, <1>9, <3>1, <3>3 DEF StampInv, KeptBefore, Deployed, FreshInv
    <3> QED BY <1>5, <3>2, <3>4 DEF SecretsRest
  <2> QED BY <2>1, <2>2
<1> QED BY <1>1, <1>8, <1>9 DEF SynthesizedWith

\* A value that covers its secret joins the others; the last one makes the map
\* the resource's.
LEMMA FetchesStep ==
    ASSUME SecretsInv, Handling, NEW n \in Secrets, NEW value \in Values, Fetches(n, value),
           UNCHANGED <<clock, parameters, latest, outcome, atStart, kept>>,
           parameters["branch"][n] \in 1..HandledStamp => IsFrom(value, parameters["branch"][n]),
           n \in kept => IsFrom(value, atStart["branch"][n]),
           value.time >= atStart[value.path][n]
    PROVE  SecretsRest'
<1> USE SecretsNumbers DEF SecretsInv
<1> DEFINE secretMap == [fetched EXCEPT ![n] = value]
<1>1. \A e \in Secrets : secretMap[e] = IF e = n THEN value ELSE fetched[e]
  BY DEF SecretsTypeOK
<1> HIDE DEF secretMap
<1>2. toFetch' = toFetch \ {n} /\ reading' = None
  BY DEF Fetches
<1>3. HandledNames \subseteq Secrets
  BY DEF HandledNames
<1>4. Covers(HandledNames \ toFetch', HandledStamp, secretMap)
  <2>1. Covers(HandledNames \ toFetch, HandledStamp, fetched)
    BY DEF CoversInv
  <2> QED BY <1>1, <1>2, <1>3, <2>1 DEF Covers
<1>5. phase = "fetching" => Fresh(wanted.names \ toFetch', secretMap)
  BY <1>1, <1>2 DEF FreshInv, Fresh
<1>6. KeptInv'
  BY DEF KeptInv
<1>7. CASE toFetch' # {}
  <2>1. fetched' = secretMap /\ UNCHANGED <<phase, wanted, resource>>
    BY <1>7 DEF Fetches, secretMap
  <2>2. HandledNames' = HandledNames /\ HandledStamp' = HandledStamp /\ Handling'
    BY <2>1 DEF HandledNames, HandledStamp, Handling
  <2>3. TimesInv' /\ ReadingInv'
    BY <1>2, <2>1 DEF TimesInv, ReadingInv
  <2>4. phase \in {"fetching", "rollback"}
    BY DEF Handling
  <2>5. CoversInv'
    BY <1>4, <2>1, <2>2, <2>4 DEF CoversInv, Covers
  <2>6. StampInv'
    BY <2>1, <2>4 DEF StampInv, KeptBefore, Deployed
  <2>7. FreshInv'
    BY <1>5, <2>1, <2>4 DEF FreshInv, Fresh, Deployed
  <2> QED BY <1>6, <2>3, <2>5, <2>6, <2>7 DEF SecretsRest
<1>8. CASE toFetch' = {} /\ phase = "fetching"
  <2>1. /\ wanted' = [wanted EXCEPT !.values = secretMap] /\ phase' = "others"
        /\ UNCHANGED resource
    BY <1>8 DEF Fetches, secretMap
  <2>2. wanted'.names = wanted.names /\ wanted'.stamp = wanted.stamp /\ wanted'.values = secretMap
    BY <2>1 DEF SecretsTypeOK, Resources
  <2>3. HandledNames = wanted.names /\ HandledStamp = wanted.stamp /\ ~Handling'
    BY <1>8, <2>1 DEF HandledNames, HandledStamp, Handling
  <2>4. TimesInv' /\ ReadingInv'
    BY <1>2, <2>1, <2>2, <2>3 DEF TimesInv, ReadingInv
  <2>5. Covers(wanted.names, wanted.stamp, secretMap)
    BY <1>4, <1>8, <2>3 DEF Covers
  <2>6. CoversInv'
    BY <2>1, <2>2, <2>3, <2>5 DEF CoversInv, Covers
  <2>7. StampInv'
    BY <1>8, <2>1, <2>2 DEF StampInv, KeptBefore, Deployed
  <2>8. FreshInv'
    BY <1>5, <1>8, <2>1, <2>2 DEF FreshInv, Fresh, Deployed
  <2> QED BY <1>6, <2>4, <2>6, <2>7, <2>8 DEF SecretsRest
<1>9. CASE toFetch' = {} /\ phase # "fetching"
  <2>1. /\ resource' = [resource EXCEPT !.values = secretMap] /\ phase' = "idle"
        /\ UNCHANGED wanted
    BY <1>9 DEF Fetches, secretMap
  <2>2. /\ resource'.names = resource.names /\ resource'.stamp = resource.stamp
        /\ resource'.values = secretMap
    BY <2>1 DEF SecretsTypeOK, Resources
  <2>3. HandledNames = resource.names /\ HandledStamp = resource.stamp /\ ~Handling'
    BY <1>9, <2>1 DEF HandledNames, HandledStamp, Handling
  <2>4. TimesInv' /\ ReadingInv'
    BY <1>2, <2>1, <2>2, <2>3 DEF TimesInv, ReadingInv
  <2>5. Covers(resource.names, resource.stamp, secretMap)
    BY <1>4, <1>9, <2>3 DEF Covers
  <2>6. CoversInv'
    BY <2>1, <2>2, <2>3, <2>5 DEF CoversInv, Covers
  <2>7. ~Deployed'
    BY <1>9 DEF Handling, FreshInv, Deployed
  <2>8. StampInv' /\ FreshInv'
    BY <2>1, <2>7 DEF StampInv, FreshInv
  <2> QED BY <1>6, <2>4, <2>6, <2>8 DEF SecretsRest
<1> QED BY <1>7, <1>8, <1>9

LEMMA FetchBranchStep ==
    ASSUME SecretsInv, NEW n \in Secrets, FetchBranch(n) PROVE SecretsRest'
<1> USE SecretsNumbers DEF SecretsInv
<1>1. CASE parameters["branch"][n] # 0
  <2> DEFINE value == Found("branch", parameters["branch"][n], FALSE)
  <2>1. value.path = "branch" /\ value.time = parameters["branch"][n] /\ value \in Values
    BY DEF Found, Values, Paths, SecretsTypeOK
  <2>2. Fetches(n, value) /\ Handling
    BY <1>1 DEF FetchBranch
  <2> HIDE DEF value
  <2>3. atStart["branch"][n] <= parameters["branch"][n]
    BY <1>1 DEF TimesInv
  <2>4. /\ IsFrom(value, parameters["branch"][n]) /\ IsFrom(value, atStart["branch"][n])
        /\ value.time >= atStart[value.path][n]
    BY <2>1, <2>3 DEF IsFrom
  <2>5. UNCHANGED <<clock, parameters, latest, outcome, atStart, kept>>
    BY DEF FetchBranch
  <2> QED BY <2>1, <2>2, <2>4, <2>5, FetchesStep
<1>2. CASE parameters["branch"][n] = 0
  <2>1. /\ reading' = Reading(n, FALSE)
        /\ UNCHANGED <<clock, parameters, phase, toFetch, fetched, wanted, resource, toList, latest,
                       outcome, atStart, kept>>
    BY <1>2 DEF FetchBranch
  <2>2. reading'.name = n /\ Handling'
    BY <2>1 DEF FetchBranch, Handling, Reading
  <2>3. n \notin kept /\ parameters["branch"][n] \notin 1..HandledStamp
    BY <1>2 DEF KeptInv
  <2>4. ReadingInv'
    BY <2>1, <2>2, <2>3 DEF ReadingInv, HandledStamp
  <2>5. TimesInv' /\ KeptInv' /\ CoversInv'
    BY <2>1 DEF TimesInv, KeptInv, CoversInv, Covers, HandledNames, HandledStamp, Handling
  <2>6. StampInv' /\ FreshInv'
    BY <2>1 DEF StampInv, KeptBefore, Deployed, FreshInv, Fresh
  <2> QED BY <2>4, <2>5, <2>6 DEF SecretsRest
<1> QED BY <1>1, <1>2

LEMMA MisreadStep ==
    ASSUME SecretsInv, NEW n \in Secrets, FetchBranchMisread(n) PROVE SecretsRest'
<1> USE DEF SecretsInv
<1>1. /\ reading' = Reading(n, TRUE)
      /\ UNCHANGED <<clock, parameters, phase, toFetch, fetched, wanted, resource, toList, latest,
                     outcome, atStart, kept>>
  BY DEF FetchBranchMisread
<1>2. reading'.misread /\ Handling'
  BY <1>1 DEF FetchBranchMisread, Handling, Reading
<1>3. ReadingInv'
  BY <1>2 DEF ReadingInv
<1>4. TimesInv' /\ KeptInv' /\ CoversInv'
  BY <1>1 DEF TimesInv, KeptInv, CoversInv, Covers, HandledNames, HandledStamp, Handling
<1>5. StampInv' /\ FreshInv'
  BY <1>1 DEF StampInv, KeptBefore, Deployed, FreshInv, Fresh
<1> QED BY <1>3, <1>4, <1>5 DEF SecretsRest

\* The shared value stands in when there was none in the branch path, or when the
\* read of the branch path failed.
LEMMA FetchSharedStep == ASSUME SecretsInv, FetchShared PROVE SecretsRest'
<1> USE SecretsNumbers DEF SecretsInv
<1> DEFINE n == reading.name
           value == Found("shared", parameters["shared"][n], reading.misread)
<1>1. n \in Secrets /\ reading.misread \in BOOLEAN
  BY DEF FetchShared, SecretsTypeOK, Readings
<1>2. /\ value.path = "shared" /\ value.time = parameters["shared"][n]
      /\ value.misread = reading.misread
  BY DEF Found
<1>3. value \in Values
  BY <1>1 DEF Found, Values, Paths, SecretsTypeOK
<1>4. Fetches(n, value) /\ Handling /\ parameters["shared"][n] # 0
      /\ UNCHANGED <<clock, parameters, latest, outcome, atStart, kept>>
  BY DEF FetchShared
<1>5. atStart["shared"][n] <= parameters["shared"][n]
  BY <1>1, <1>4 DEF TimesInv
<1>6. reading.misread \/ (n \notin kept /\ parameters["branch"][n] \notin 1..HandledStamp)
  BY <1>4 DEF ReadingInv, FetchShared
<1> HIDE DEF n, value
<1>7. value.time >= atStart[value.path][n]
  BY <1>1, <1>2, <1>5
<1>8. /\ parameters["branch"][n] \in 1..HandledStamp => IsFrom(value, parameters["branch"][n])
      /\ n \in kept => IsFrom(value, atStart["branch"][n])
  BY <1>2, <1>6 DEF IsFrom
<1> QED BY <1>1, <1>3, <1>4, <1>7, <1>8, FetchesStep

LEMMA RollsBackStep ==
    ASSUME SecretsInv, phase \in {"fetching", "others"}, RollsBack PROVE SecretsRest'
<1> USE SecretsNumbers DEF SecretsInv
<1>1. /\ outcome' = "failed" /\ reading' = None /\ wanted' = NoResource
      /\ phase' \in {"idle", "rollback"} /\ (phase' = "rollback" => toFetch' = resource.names)
      /\ UNCHANGED <<clock, parameters, toList, latest, resource, atStart, kept>>
  BY DEF RollsBack
<1>2. TimesInv' /\ KeptInv'
  BY <1>1, SecretsConstants DEF TimesInv, KeptInv
<1>3. CoversInv' /\ ReadingInv'
  BY <1>1 DEF CoversInv, Covers, Handling, HandledNames, ReadingInv
<1>4. StampInv' /\ FreshInv'
  BY <1>1 DEF StampInv, Deployed, FreshInv
<1> QED BY <1>2, <1>3, <1>4 DEF SecretsRest

\* The deployment ends without a change of the resource.
LEMMA OthersFailStep == ASSUME SecretsInv, OthersFail PROVE SecretsRest'
<1> USE SecretsNumbers DEF SecretsInv
<1>1. CASE RollsBack
  BY <1>1, RollsBackStep DEF OthersFail
<1>2. CASE ~RollsBack
  <2>1. /\ phase = "others" /\ phase' = "idle" /\ outcome' = "failed" /\ wanted' = NoResource
        /\ UNCHANGED <<clock, parameters, toList, latest, resource, toFetch, reading, fetched,
                       atStart, kept>>
    BY <1>2 DEF OthersFail
  <2>2. TimesInv' /\ KeptInv'
    BY <2>1, SecretsConstants DEF TimesInv, KeptInv
  <2>3. CoversInv' /\ ReadingInv'
    BY <2>1 DEF CoversInv, Covers, Handling, ReadingInv
  <2>4. StampInv' /\ FreshInv'
    BY <2>1 DEF StampInv, Deployed, FreshInv
  <2> QED BY <2>2, <2>3, <2>4 DEF SecretsRest
<1> QED BY <1>1, <1>2

LEMMA SucceedsStep == ASSUME SecretsInv, Succeeds PROVE SecretsRest'
<1> USE SecretsNumbers DEF SecretsInv
<1>1. /\ phase = "others" /\ phase' = "idle" /\ resource' = wanted /\ wanted' = NoResource
      /\ UNCHANGED <<clock, parameters, toList, latest, toFetch, reading, atStart, kept>>
  BY DEF Succeeds
<1>2. TimesInv' /\ KeptInv'
  BY <1>1, SecretsConstants DEF TimesInv, KeptInv
<1>3. CoversInv' /\ ReadingInv'
  BY <1>1 DEF CoversInv, Covers, Handling, ReadingInv
<1>4. StampInv'
  BY <1>1 DEF StampInv, KeptBefore
<1>5. FreshInv'
  BY <1>1 DEF FreshInv, Fresh
<1> QED BY <1>2, <1>3, <1>4, <1>5 DEF SecretsRest

\* Steps that leave every secret, stamp and value as they are.
LEMMA StopStep == ASSUME SecretsInv, ListFails \/ RollbackFails PROVE SecretsRest'
<1> USE DEF SecretsInv
<1>1. /\ phase' = "stuck" \/ (phase = "listing" /\ phase' = "idle" /\ outcome' = "failed")
      /\ UNCHANGED <<clock, parameters, latest, wanted, resource, reading, atStart, kept>>
  BY DEF ListFails, RollbackFails
<1>2. TimesInv' /\ KeptInv'
  BY <1>1 DEF TimesInv, KeptInv
<1>3. CoversInv' /\ ReadingInv'
  BY <1>1 DEF CoversInv, Covers, Handling, ReadingInv
<1>4. StampInv' /\ FreshInv'
  BY <1>1 DEF StampInv, Deployed, FreshInv
<1> QED BY <1>2, <1>3, <1>4 DEF SecretsRest

LEMMA SecretsInvStep == SecretsInv /\ [SecretsNext]_secretsVars => SecretsInv'
<1> SUFFICES ASSUME SecretsInv, [SecretsNext]_secretsVars PROVE SecretsRest'
  BY SecretsTypeStep DEF SecretsInv, SecretsRest
<1>1. ASSUME NEW path \in Paths, NEW n \in Secrets, SetSecret(path, n) PROVE SecretsRest'
  <2>1. \A p \in Paths, e \in Secrets : parameters'[p][e] =
            IF p = path /\ e = n THEN clock + 1 ELSE parameters[p][e]
    BY <1>1 DEF SetSecret, SecretsInv, SecretsTypeOK
  <2>2. kept' = kept /\ \A e \in kept : parameters'["branch"][e] # 0
    BY <1>1, <2>1, SecretsNumbers DEF SetSecret, SecretsInv, KeptInv
  <2> QED BY <1>1, <2>1, <2>2, ChangeStep DEF SetSecret
<1>2. ASSUME NEW path \in Paths, NEW names \in SUBSET Secrets, RemoveSecrets(path, names)
      PROVE  SecretsRest'
  <2>1. \A p \in Paths, e \in Secrets : parameters'[p][e] =
            IF p = path /\ e \in names THEN 0 ELSE parameters[p][e]
    BY <1>2 DEF RemoveSecrets, SecretsInv, SecretsTypeOK
  <2>2. kept' \subseteq kept /\ \A e \in kept' : parameters'["branch"][e] # 0
    BY <1>2, <2>1, SecretsNumbers DEF RemoveSecrets, SecretsInv, KeptInv
  <2> QED BY <1>2, <2>1, <2>2, ChangeStep DEF RemoveSecrets
<1>3. ASSUME NEW names \in SUBSET Secrets, DeploymentBegins(names) \/ ListPage(names)
      PROVE  SecretsRest'
  BY <1>3, BeginStep, ListStep
<1>4. ASSUME NEW n \in Secrets, FetchBranch(n) \/ FetchBranchMisread(n) PROVE SecretsRest'
  BY <1>4, FetchBranchStep, MisreadStep
<1>5. CASE FetchFails
  BY <1>5, RollsBackStep DEF FetchFails
<1>6. CASE UNCHANGED secretsVars
  <2>1. TimesInv' /\ KeptInv' /\ ReadingInv'
    BY <1>6 DEF secretsVars, SecretsInv, TimesInv, KeptInv, ReadingInv, Handling, HandledStamp
  <2>2. CoversInv'
    BY <1>6 DEF secretsVars, SecretsInv, CoversInv, Covers, Handling, HandledNames, HandledStamp
  <2>3. StampInv' /\ FreshInv'
    BY <1>6 DEF secretsVars, SecretsInv, StampInv, KeptBefore, FreshInv, Fresh, Deployed
  <2> QED BY <2>1, <2>2, <2>3 DEF SecretsRest
<1> QED BY <1>1, <1>2, <1>3, <1>4, <1>5, <1>6, SynthesizeStep, FetchSharedStep, OthersFailStep,
           SucceedsStep, StopStep
        DEF SecretsNext

LEMMA SecretsInvInit == SecretsInit => SecretsInv
<1> SUFFICES ASSUME SecretsInit PROVE SecretsInv
  OBVIOUS
<1>1. SecretsTypeOK
  BY SecretsTypeInit
<1>2. TimesInv
  BY SecretsConstants DEF SecretsInit, TimesInv
<1>3. KeptInv
  BY DEF SecretsInit, KeptInv
<1>4. CoversInv
  BY SecretsConstants DEF SecretsInit, CoversInv, Covers, Handling
<1>5. ReadingInv /\ StampInv /\ FreshInv
  BY DEF SecretsInit, ReadingInv, StampInv, FreshInv, Handling, Deployed
<1> QED BY <1>1, <1>2, <1>3, <1>4, <1>5 DEF SecretsInv

-----------------------------------------------------------------------------
(* The theorems. *)

\* Secrets, the stamp and the values of the resource keep their types through
\* lists by pages, single fetches, failures and rollbacks.
THEOREM SecretsTypeCorrect == SecretsSpec => []SecretsTypeOK
  BY SecretsTypeInit, SecretsTypeStep, PTL DEF SecretsSpec

\* The inductive invariant holds in every state.
LEMMA SecretsInvariant == SecretsSpec => []SecretsInv
  BY SecretsInvInit, SecretsInvStep, PTL DEF SecretsSpec

\* The stamp "only to trigger resource update event" (getOrCreate) triggers it
\* when it must: after a deployment that succeeded, every secret of the branch
\* that was set before it began and is still there has arrived, for every number
\* of secrets and deployments.
THEOREM SetSecretsCorrect == SecretsSpec => []SetSecretsArrive
<1>1. SecretsInv => SetSecretsArrive
  <2> SUFFICES ASSUME SecretsInv, Deployed, NEW n \in resource.names \intersect kept
               PROVE  IsFrom(resource.values[n], atStart["branch"][n])
    BY DEF SetSecretsArrive, IsFrom
  <2>1. atStart["branch"][n] <= resource.stamp
    BY DEF SecretsInv, StampInv, KeptBefore
  <2> QED BY <2>1 DEF SecretsInv, CoversInv, Covers
<1> QED BY <1>1, SecretsInvariant, PTL

\* A deployment without a stamp from a list (a pipeline's, or a sandbox's that has
\* no secrets of its own) brings shared values that are as new as those of its
\* beginning.
THEOREM SharedSecretsCorrect == SecretsSpec => []SharedSecretsArrive
<1>1. SecretsInv => SharedSecretsArrive
  BY DEF SecretsInv, FreshInv, Fresh, SharedSecretsArrive
<1> QED BY <1>1, SecretsInvariant, PTL

-----------------------------------------------------------------------------
(* BranchLinker *)

(* The inductive invariant. *)

\* CloudFormation waits for the event that the stack's status calls for.
StatusMatchesEvent ==
    /\ event = NoEvent => status \in {"none", "created", "deleteFailed"}
    /\ event.type = "Create" => status = "creating"
    /\ event.type = "Update" => status = "updating"
    /\ event.type = "Delete" => status = "deleting"

\* An invocation has been delivered, and one that is not late handles the event
\* that CloudFormation waits for, of the latest stack.
InvocationsAreOfEvent ==
    /\ event # NoEvent => event.first <= deliveries + 1
    /\ \A d \in Deliveries : handlers[d].pc # "ended" =>
           /\ d <= deliveries
           /\ ~Late(d) => handlers[d].type = event.type /\ handlers[d].stack = stack

\* While an event is under way the branch may already name the stack or not; and
\* a branch is only away while it has no stack.
LinkInv ==
    ~disturbed =>
        /\ ~connected => status \in {"none", "creating"}
        /\ connected =>
               /\ status = "none" => branch.stackArn = 0
               /\ status = "creating" => branch.stackArn \in {0, stack}
               /\ status \in {"created", "updating"} => branch.stackArn = stack

\* The branch, and what a handler is about to write back, have the latest edit.
EditsInv ==
    ~raced =>
        /\ branch.settings = edits
        /\ \A d \in Deliveries : handlers[d].pc = "update" => handlers[d].read.settings = edits

LinkerInv == LinkerTypeOK /\ StatusMatchesEvent /\ InvocationsAreOfEvent /\ LinkInv /\ EditsInv

-----------------------------------------------------------------------------
(* Types. *)

Events == [type : EventTypes, first : 1..(MaxDeliveries + 1)] \union {NoEvent}
Statuses == {"none", "creating", "created", "updating", "deleting", "deleteFailed"}

LEMMA LinkerTypeParts ==
    LinkerTypeOK <=>
        /\ connected \in BOOLEAN /\ branch \in Branches /\ edits \in 0..MaxEdits
        /\ stack \in 0..MaxStacks /\ status \in Statuses /\ event \in Events
        /\ deliveries \in 0..MaxDeliveries /\ handlers \in [Deliveries -> Invocations]
        /\ disturbed \in BOOLEAN /\ raced \in BOOLEAN
  BY DEF LinkerTypeOK, Statuses, Events

LEMMA ConstantsHaveTypes ==
    /\ MaxStacks \in Nat /\ MaxDeliveries \in Nat /\ MaxEdits \in Nat
    /\ NewBranch \in Branches /\ Ended \in Invocations
<1>1. MaxStacks \in Nat /\ MaxDeliveries \in Nat /\ MaxEdits \in Nat
  BY LinkerBoundsAssumption
<1>2. NewBranch \in Branches
  BY <1>1 DEF NewBranch, Branches
<1>3. Ended \in Invocations
  BY <1>1, <1>2 DEF Ended, Invocations
<1> QED BY <1>1, <1>2, <1>3

LEMMA UpdatedHasType ==
    ASSUME NEW invocation \in Invocations, branch \in Branches
    PROVE  Updated(invocation) \in Branches
<1>1. invocation.read \in Branches /\ invocation.stack \in 0..MaxStacks
  BY DEF Invocations
<1>2. StackArn(invocation) \in 0..MaxStacks
  BY <1>1, ConstantsHaveTypes DEF StackArn
<1> QED BY <1>1, <1>2 DEF Updated, Branches

\* The answer to an event leaves a status and no event.
LEMMA GoesOnHasType ==
    ASSUME NEW success \in BOOLEAN, GoesOn(success)
    PROVE  status' \in Statuses /\ event' \in Events
  BY DEF GoesOn, Statuses, Events

LEMMA RespondsHasType ==
    ASSUME LinkerTypeOK, NEW d \in Deliveries, NEW success \in BOOLEAN, Responds(d, success)
    PROVE  /\ handlers' \in [Deliveries -> Invocations]
           /\ status' \in Statuses /\ event' \in Events
<1>1. handlers' \in [Deliveries -> Invocations]
  BY ConstantsHaveTypes DEF LinkerTypeOK, Responds
<1>2. CASE Late(d)
  BY <1>1, <1>2, LinkerTypeParts DEF Responds
<1>3. CASE ~Late(d)
  <2>1. GoesOn(success)
    BY <1>3 DEF Responds
  <2> QED BY <1>1, <2>1, GoesOnHasType
<1> QED BY <1>2, <1>3

LEMMA LinkerTypeInit == LinkerInit => LinkerTypeOK
<1> SUFFICES ASSUME LinkerInit PROVE LinkerTypeOK
  OBVIOUS
<1>1. handlers \in [Deliveries -> Invocations]
  BY ConstantsHaveTypes DEF LinkerInit
<1>2. branch \in Branches /\ edits \in 0..MaxEdits /\ stack \in 0..MaxStacks
  BY ConstantsHaveTypes DEF LinkerInit
<1>3. deliveries \in 0..MaxDeliveries /\ event \in Events /\ status \in Statuses
  BY ConstantsHaveTypes DEF LinkerInit, Events, Statuses
<1>4. connected \in BOOLEAN /\ disturbed \in BOOLEAN /\ raced \in BOOLEAN
  BY DEF LinkerInit
<1> QED BY <1>1, <1>2, <1>3, <1>4, LinkerTypeParts, Zenon

LEMMA LinkerTypeStep == LinkerTypeOK /\ [LinkerNext]_linkerVars => LinkerTypeOK'
<1> SUFFICES ASSUME LinkerTypeOK, [LinkerNext]_linkerVars PROVE LinkerTypeOK'
  OBVIOUS
<1> USE ConstantsHaveTypes DEF LinkerTypeOK
<1>1. CASE CreateStack
  BY <1>1 DEF CreateStack, Sends, EventTypes
<1>2. CASE UpdateStack
  BY <1>2 DEF UpdateStack, Sends, EventTypes
<1>3. CASE DeleteStack
  BY <1>3 DEF DeleteStack, Sends, EventTypes
<1>4. CASE Deliver
  <2>1. event.type \in EventTypes \union {"none"} /\ deliveries + 1 \in Deliveries
    BY <1>4 DEF Deliver, NoEvent, Deliveries
  <2>2. [pc |-> "get", type |-> event.type, stack |-> stack, read |-> NewBranch] \in Invocations
    BY <2>1 DEF Invocations
  <2>3. handlers' \in [Deliveries -> Invocations] /\ deliveries' \in 0..MaxDeliveries
    BY <1>4, <2>1, <2>2 DEF Deliver
  <2> QED BY <1>4, <2>3 DEF Deliver
<1>5. CASE EventTimesOut
  <2>1. status' \in Statuses /\ event' \in Events
    BY <1>5, GoesOnHasType DEF EventTimesOut
  <2>2. disturbed' \in BOOLEAN
    BY <1>5 DEF EventTimesOut
  <2> QED BY <1>5, <2>1, <2>2 DEF EventTimesOut, Statuses, Events
<1>6. ASSUME NEW s \in {"NONE", "PRODUCTION"}, Edit(s) PROVE LinkerTypeOK'
  <2>1. edits + 1 \in 0..MaxEdits /\ edits' = edits + 1
    BY <1>6 DEF Edit
  <2>2. [branch EXCEPT !.settings = edits + 1, !.stage = s] \in Branches
    BY <2>1 DEF Branches
  <2>3. raced' \in BOOLEAN
    BY <1>6, Zenon DEF Edit
  <2> QED BY <1>6, <2>1, <2>2, <2>3 DEF Edit
<1>7. CASE Disconnect
  BY <1>7 DEF Disconnect
<1>8. CASE Connect
  BY <1>8 DEF Connect
<1>9. ASSUME NEW d \in Deliveries, NotFound(d) PROVE LinkerTypeOK'
  <2>1. Responds(d, handlers[d].type = "Delete")
    BY <1>9 DEF NotFound
  <2>2. /\ handlers' \in [Deliveries -> Invocations]
        /\ status' \in Statuses /\ event' \in Events
    BY <2>1, RespondsHasType
  <2> QED BY <1>9, <2>2 DEF NotFound, Statuses, Events
<1>10. ASSUME NEW d \in Deliveries, Fails(d) PROVE LinkerTypeOK'
  <2>1. Responds(d, FALSE) /\ disturbed' \in BOOLEAN
    BY <1>10 DEF Fails
  <2>2. /\ handlers' \in [Deliveries -> Invocations]
        /\ status' \in Statuses /\ event' \in Events
    BY <2>1, RespondsHasType
  <2> QED BY <1>10, <2>1, <2>2 DEF Fails, Statuses, Events
<1>11. ASSUME NEW d \in Deliveries, GetBranch(d) PROVE LinkerTypeOK'
  <2>1. [handlers[d] EXCEPT !.pc = "update", !.read = branch] \in Invocations
    BY DEF Invocations
  <2>2. handlers' = [handlers EXCEPT ![d] = [handlers[d] EXCEPT !.pc = "update", !.read = branch]]
    BY <1>11 DEF GetBranch
  <2>3. handlers' \in [Deliveries -> Invocations]
    BY <2>1, <2>2
  <2> QED BY <1>11, <2>3 DEF GetBranch
<1>12. ASSUME NEW d \in Deliveries, UpdateBranch(d) PROVE LinkerTypeOK'
  <2>1. branch' \in Branches /\ disturbed' \in BOOLEAN
    BY <1>12, UpdatedHasType DEF UpdateBranch
  <2>2. /\ handlers' \in [Deliveries -> Invocations]
        /\ status' \in Statuses /\ event' \in Events
    <3>1. CASE Responds(d, TRUE)
      BY <3>1, RespondsHasType
    <3>2. CASE handlers' = [handlers EXCEPT ![d] = Ended] /\ UNCHANGED <<status, event>>
      BY <3>2 DEF Statuses, Events
    <3> QED BY <1>12, <3>1, <3>2 DEF UpdateBranch
  <2> QED BY <1>12, <2>1, <2>2 DEF UpdateBranch, Statuses, Events
<1>13. CASE UNCHANGED linkerVars
  BY <1>13 DEF linkerVars
<1> QED BY <1>1, <1>2, <1>3, <1>4, <1>5, <1>6, <1>7, <1>8, <1>9, <1>10, <1>11, <1>12, <1>13
        DEF LinkerNext

-----------------------------------------------------------------------------
(* Events and invocations. *)

LEMMA GoesOnToRest ==
    ASSUME NEW success, GoesOn(success)
    PROVE  event' = NoEvent /\ status' \in {"none", "created", "deleteFailed"}
  BY DEF GoesOn

LEMMA RespondsMatches ==
    ASSUME StatusMatchesEvent, NEW d, NEW success, Responds(d, success)
    PROVE  StatusMatchesEvent'
<1>1. CASE Late(d)
  BY <1>1 DEF Responds, StatusMatchesEvent
<1>2. CASE ~Late(d)
  BY <1>2, GoesOnToRest DEF Responds, StatusMatchesEvent, NoEvent
<1> QED BY <1>1, <1>2

LEMMA StatusStep == StatusMatchesEvent /\ [LinkerNext]_linkerVars => StatusMatchesEvent'
<1> SUFFICES ASSUME StatusMatchesEvent, [LinkerNext]_linkerVars PROVE StatusMatchesEvent'
  OBVIOUS
<1>1. CASE CreateStack \/ UpdateStack \/ DeleteStack
  BY <1>1 DEF CreateStack, UpdateStack, DeleteStack, Sends, NoEvent, StatusMatchesEvent
<1>2. CASE EventTimesOut
  <2>1. event' = NoEvent /\ status' \in {"none", "created", "deleteFailed"}
    BY <1>2, GoesOnToRest DEF EventTimesOut
  <2> QED BY <2>1 DEF StatusMatchesEvent, NoEvent
<1>3. ASSUME NEW s, Deliver \/ Edit(s) \/ Disconnect \/ Connect PROVE StatusMatchesEvent'
  BY <1>3 DEF Deliver, Edit, Disconnect, Connect, StatusMatchesEvent
<1>4. ASSUME NEW d, NotFound(d) \/ Fails(d) PROVE StatusMatchesEvent'
  BY <1>4, RespondsMatches DEF NotFound, Fails
<1>5. ASSUME NEW d, GetBranch(d) PROVE StatusMatchesEvent'
  BY <1>5 DEF GetBranch, StatusMatchesEvent
<1>6. ASSUME NEW d, UpdateBranch(d) PROVE StatusMatchesEvent'
  <2>1. CASE Responds(d, TRUE)
    BY <2>1, RespondsMatches
  <2>2. CASE UNCHANGED <<status, event>>
    BY <2>2 DEF StatusMatchesEvent
  <2> QED BY <1>6, <2>1, <2>2 DEF UpdateBranch
<1>7. CASE UNCHANGED linkerVars
  BY <1>7 DEF linkerVars, StatusMatchesEvent
<1> QED BY <1>1, <1>2, <1>3, <1>4, <1>5, <1>6, <1>7 DEF LinkerNext

\* An answer ends its invocation and leaves the others to what they were late for.
LEMMA EndsInvocation ==
    ASSUME LinkerTypeOK, InvocationsAreOfEvent, NEW d \in Deliveries,
           handlers' = [handlers EXCEPT ![d] = Ended],
           event' \in {event, NoEvent}, UNCHANGED <<stack, deliveries>>
    PROVE  InvocationsAreOfEvent'
<1>1. \A e \in Deliveries : handlers'[e].pc # "ended" => e # d /\ handlers'[e] = handlers[e]
  BY DEF LinkerTypeOK, Ended
<1>2. event' # NoEvent => event' = event
  OBVIOUS
<1>3. \A e \in Deliveries : ~Late(e)' => ~Late(e) /\ event' = event
  BY <1>2 DEF Late
<1>4. event' # NoEvent => event'.first <= deliveries' + 1
  BY <1>2 DEF InvocationsAreOfEvent
<1>5. ASSUME NEW e \in Deliveries, handlers'[e].pc # "ended"
      PROVE  /\ e <= deliveries'
             /\ ~Late(e)' => handlers'[e].type = event'.type /\ handlers'[e].stack = stack'
  BY <1>1, <1>3, <1>5 DEF InvocationsAreOfEvent
<1> QED BY <1>4, <1>5 DEF InvocationsAreOfEvent

LEMMA RespondsEnds ==
    ASSUME NEW d, NEW success, Responds(d, success)
    PROVE  handlers' = [handlers EXCEPT ![d] = Ended] /\ event' \in {event, NoEvent}
  BY GoesOnToRest DEF Responds

LEMMA InvocationsStep ==
    LinkerTypeOK /\ InvocationsAreOfEvent /\ [LinkerNext]_linkerVars => InvocationsAreOfEvent'
<1> SUFFICES ASSUME LinkerTypeOK, InvocationsAreOfEvent, [LinkerNext]_linkerVars
             PROVE  InvocationsAreOfEvent'
  OBVIOUS
<1>1. CASE CreateStack \/ UpdateStack \/ DeleteStack
  <2>1. PICK type \in EventTypes : event' = [type |-> type, first |-> deliveries + 1]
    BY <1>1 DEF CreateStack, UpdateStack, DeleteStack, Sends, EventTypes
  <2>2. UNCHANGED <<deliveries, handlers>>
    BY <1>1 DEF CreateStack, UpdateStack, DeleteStack, Sends
  <2>3. ASSUME NEW d \in Deliveries, d <= deliveries PROVE Late(d)'
    BY <2>1, <2>3, ConstantsHaveTypes DEF Late, LinkerTypeOK, Deliveries
  <2> QED BY <2>1, <2>2, <2>3, ConstantsHaveTypes DEF InvocationsAreOfEvent, LinkerTypeOK
<1>2. CASE Deliver
  <2>1. /\ deliveries + 1 \in Deliveries /\ event # NoEvent
        /\ deliveries' = deliveries + 1 /\ UNCHANGED <<event, stack>>
    BY <1>2, ConstantsHaveTypes DEF Deliver, Deliveries, LinkerTypeOK
  <2>2. handlers' = [handlers EXCEPT ![deliveries + 1] =
                        [pc |-> "get", type |-> event.type, stack |-> stack, read |-> NewBranch]]
    BY <1>2 DEF Deliver
  <2>3. event.first \in Nat /\ deliveries \in Nat /\ event.first <= deliveries + 1
    BY <2>1, ConstantsHaveTypes DEF LinkerTypeOK, NoEvent, InvocationsAreOfEvent
  <2>4. ASSUME NEW d \in Deliveries, handlers'[d].pc # "ended"
        PROVE  /\ d <= deliveries'
               /\ ~Late(d)' => handlers'[d].type = event'.type /\ handlers'[d].stack = stack'
    <3>1. CASE d = deliveries + 1
      BY <2>1, <2>2, <2>3, <3>1 DEF LinkerTypeOK
    <3>2. CASE d # deliveries + 1
      <4>1. handlers'[d] = handlers[d]
        BY <2>1, <2>2, <3>2 DEF LinkerTypeOK
      <4>2. d <= deliveries /\ (~Late(d) => handlers[d].type = event.type /\ handlers[d].stack = stack)
        BY <2>4, <4>1 DEF InvocationsAreOfEvent
      <4> QED BY <2>1, <2>3, <4>1, <4>2 DEF Late, Deliveries
    <3> QED BY <3>1, <3>2
  <2> QED BY <2>1, <2>3, <2>4 DEF InvocationsAreOfEvent
<1>3. CASE EventTimesOut
  BY <1>3, GoesOnToRest DEF EventTimesOut, InvocationsAreOfEvent, Late
<1>4. ASSUME NEW s, Edit(s) \/ Disconnect \/ Connect PROVE InvocationsAreOfEvent'
  BY <1>4 DEF Edit, Disconnect, Connect, InvocationsAreOfEvent, Late
<1>5. ASSUME NEW d \in Deliveries, NotFound(d) \/ Fails(d) PROVE InvocationsAreOfEvent'
  BY <1>5, RespondsEnds, EndsInvocation DEF NotFound, Fails
<1>6. ASSUME NEW d \in Deliveries, GetBranch(d) PROVE InvocationsAreOfEvent'
  <2>1. handlers[d].pc # "ended" /\ UNCHANGED <<event, stack, deliveries>>
    BY <1>6 DEF GetBranch
  <2>2. handlers' = [handlers EXCEPT ![d] = [handlers[d] EXCEPT !.pc = "update", !.read = branch]]
    BY <1>6 DEF GetBranch
  <2>3. \A e \in Deliveries : /\ handlers'[e].type = handlers[e].type
                              /\ handlers'[e].stack = handlers[e].stack
                              /\ handlers'[e].pc # "ended" => handlers[e].pc # "ended"
    BY <2>1, <2>2 DEF LinkerTypeOK, Invocations
  <2> QED BY <2>1, <2>3 DEF InvocationsAreOfEvent, Late
<1>7. ASSUME NEW d \in Deliveries, UpdateBranch(d) PROVE InvocationsAreOfEvent'
  <2>1. handlers' = [handlers EXCEPT ![d] = Ended] /\ event' \in {event, NoEvent}
    BY <1>7, RespondsEnds DEF UpdateBranch
  <2> QED BY <1>7, <2>1, EndsInvocation DEF UpdateBranch
<1>8. CASE UNCHANGED linkerVars
  BY <1>8 DEF linkerVars, InvocationsAreOfEvent, Late
<1> QED BY <1>1, <1>2, <1>3, <1>4, <1>5, <1>6, <1>7, <1>8 DEF LinkerNext

-----------------------------------------------------------------------------
(* The link. *)

\* An answer of an invocation that is not late is about the stack's event.
LEMMA RespondsOfEvent ==
    ASSUME StatusMatchesEvent, InvocationsAreOfEvent, LinkerTypeOK, NEW d \in Deliveries,
           handlers[d].pc # "ended", ~Late(d)
    PROVE  /\ handlers[d].type = event.type /\ handlers[d].stack = stack
           /\ \/ event.type = "Create" /\ status = "creating"
              \/ event.type = "Update" /\ status = "updating"
              \/ event.type = "Delete" /\ status = "deleting"
<1>1. event \in [type : EventTypes, first : 1..(MaxDeliveries + 1)]
  BY DEF Late, LinkerTypeOK
<1>2. event.type \in EventTypes
  BY <1>1
<1> QED BY <1>2 DEF InvocationsAreOfEvent, StatusMatchesEvent, EventTypes

\* A failure leaves the link of the stack alone, unless a creation had set it.
LEMMA FailureKeepsLink ==
    ASSUME StatusMatchesEvent, LinkInv, LinkerTypeOK, event # NoEvent, GoesOn(FALSE),
           disturbed' = (disturbed \/ LeavesLink), UNCHANGED <<connected, branch, stack>>
    PROVE  LinkInv'
<1> SUFFICES ASSUME ~disturbed' PROVE LinkInv'
  BY DEF LinkInv
<1>1. ~disturbed /\ ~LeavesLink
  OBVIOUS
<1>2. event.type \in EventTypes
  BY DEF LinkerTypeOK
<1>3. CASE event.type = "Create"
  BY <1>1, <1>3 DEF GoesOn, StatusMatchesEvent, LinkInv, LeavesLink
<1>4. CASE event.type = "Update"
  BY <1>1, <1>4 DEF GoesOn, StatusMatchesEvent, LinkInv
<1>5. CASE event.type = "Delete"
  BY <1>1, <1>5 DEF GoesOn, StatusMatchesEvent, LinkInv
<1> QED BY <1>2, <1>3, <1>4, <1>5 DEF EventTypes

LEMMA LinkStep ==
    LinkerTypeOK /\ StatusMatchesEvent /\ InvocationsAreOfEvent /\ LinkInv /\ [LinkerNext]_linkerVars
        => LinkInv'
<1> SUFFICES ASSUME LinkerTypeOK, StatusMatchesEvent, InvocationsAreOfEvent, LinkInv,
                    [LinkerNext]_linkerVars
             PROVE  LinkInv'
  OBVIOUS
<1>1. CASE CreateStack
  BY <1>1 DEF CreateStack, Sends, LinkInv
<1>2. CASE UpdateStack \/ DeleteStack
  BY <1>2 DEF UpdateStack, DeleteStack, Sends, LinkInv
<1>3. CASE EventTimesOut
  BY <1>3, FailureKeepsLink DEF EventTimesOut
<1>4. CASE Deliver
  BY <1>4 DEF Deliver, LinkInv
<1>5. ASSUME NEW s, Edit(s) PROVE LinkInv'
  <2>1. branch'.stackArn = branch.stackArn
    BY <1>5 DEF Edit, LinkerTypeOK, Branches
  <2> QED BY <1>5, <2>1 DEF Edit, LinkInv
<1>6. CASE Disconnect
  BY <1>6 DEF Disconnect, LinkInv, LinkerTypeOK
<1>7. CASE Connect
  BY <1>7 DEF Connect, LinkInv, NewBranch
<1>8. ASSUME NEW d \in Deliveries, NotFound(d) PROVE LinkInv'
  <2>1. CASE Late(d)
    BY <1>8, <2>1 DEF NotFound, Responds, LinkInv
  <2>2. CASE ~Late(d)
    <3>1. GoesOn(handlers[d].type = "Delete")
      BY <1>8, <2>2 DEF NotFound, Responds
    <3>2. disturbed \/ status \in {"none", "creating"}
      BY <1>8 DEF NotFound, LinkInv
    <3>3. disturbed \/ (event.type = "Create" /\ handlers[d].type = "Create")
      BY <1>8, <2>2, <3>2, RespondsOfEvent DEF NotFound
    <3>4. disturbed \/ status' = "none"
      BY <3>1, <3>3 DEF GoesOn
    <3> QED BY <1>8, <3>4 DEF NotFound, LinkInv
  <2> QED BY <2>1, <2>2
<1>9. ASSUME NEW d \in Deliveries, Fails(d) PROVE LinkInv'
  <2>1. CASE Late(d)
    BY <1>9, <2>1 DEF Fails, Responds, LinkInv
  <2>2. CASE ~Late(d)
    <3>1. event # NoEvent /\ GoesOn(FALSE)
      BY <1>9, <2>2 DEF Fails, Responds, Late
    <3>2. disturbed' = (disturbed \/ LeavesLink)
      BY <1>9, <2>2, Zenon DEF Fails
    <3> QED BY <1>9, <3>1, <3>2, FailureKeepsLink DEF Fails
  <2> QED BY <2>1, <2>2
<1>10. ASSUME NEW d \in Deliveries, GetBranch(d) PROVE LinkInv'
  BY <1>10 DEF GetBranch, LinkInv
<1>11. ASSUME NEW d \in Deliveries, UpdateBranch(d) PROVE LinkInv'
  <2> SUFFICES ASSUME ~disturbed' PROVE LinkInv'
    BY DEF LinkInv
  <2>1. ~Late(d) /\ ~disturbed /\ connected /\ UNCHANGED <<connected, stack>>
    BY <1>11 DEF UpdateBranch
  <2>2. handlers[d] \in Invocations /\ handlers[d].pc # "ended"
    BY <1>11 DEF UpdateBranch, LinkerTypeOK
  <2>3. branch'.stackArn = StackArn(handlers[d])
    BY <1>11, <2>2 DEF UpdateBranch, Updated, Invocations, Branches
  <2>4. UNCHANGED status \/ GoesOn(TRUE)
    BY <1>11, <2>1 DEF UpdateBranch, Responds
  <2>5. \/ handlers[d].type = "Delete" /\ status = "deleting"
        \/ handlers[d].type # "Delete" /\ handlers[d].stack = stack
           /\ status \in {"creating", "updating"}
    BY <2>1, <2>2, RespondsOfEvent
  <2>6. handlers[d].type = event.type
    BY <2>1, <2>2, RespondsOfEvent
  <2>7. CASE handlers[d].type = "Delete"
    BY <2>1, <2>3, <2>4, <2>5, <2>6, <2>7 DEF StackArn, GoesOn, LinkInv
  <2>8. CASE handlers[d].type # "Delete"
    BY <2>1, <2>3, <2>4, <2>5, <2>6, <2>8 DEF StackArn, GoesOn, LinkInv
  <2> QED BY <2>7, <2>8
<1>12. CASE UNCHANGED linkerVars
  BY <1>12 DEF linkerVars, LinkInv
<1> QED BY <1>1, <1>2, <1>3, <1>4, <1>5, <1>6, <1>7, <1>8, <1>9, <1>10, <1>11, <1>12
        DEF LinkerNext

-----------------------------------------------------------------------------
(* The edits. *)

\* An answer leaves what the other handlers are about to write.
LEMMA EndKeepsEdits ==
    ASSUME LinkerTypeOK, EditsInv, NEW d \in Deliveries,
           handlers' = [handlers EXCEPT ![d] = Ended],
           UNCHANGED <<edits, raced>>, ~raced => branch'.settings = edits
    PROVE  EditsInv'
<1>1. \A e \in Deliveries : handlers'[e].pc = "update" => handlers'[e] = handlers[e]
  BY DEF LinkerTypeOK, Ended
<1> QED BY <1>1 DEF EditsInv

LEMMA EditsStep == LinkerTypeOK /\ EditsInv /\ [LinkerNext]_linkerVars => EditsInv'
<1> SUFFICES ASSUME LinkerTypeOK, EditsInv, [LinkerNext]_linkerVars PROVE EditsInv'
  OBVIOUS
<1>1. CASE CreateStack \/ UpdateStack \/ DeleteStack
  BY <1>1 DEF CreateStack, UpdateStack, DeleteStack, Sends, EditsInv
<1>2. CASE EventTimesOut \/ Disconnect
  BY <1>2 DEF EventTimesOut, Disconnect, EditsInv
<1>3. CASE Deliver
  <2>1. \A e \in Deliveries : handlers'[e].pc = "update" => handlers'[e] = handlers[e]
    BY <1>3 DEF Deliver, LinkerTypeOK
  <2> QED BY <1>3, <2>1 DEF Deliver, EditsInv
<1>4. ASSUME NEW s, Edit(s) PROVE EditsInv'
  <2>1. branch'.settings = edits' /\ UNCHANGED handlers
    BY <1>4 DEF Edit, LinkerTypeOK, Branches
  <2>2. ~raced' => \A d \in Deliveries : handlers[d].pc # "update"
    BY <1>4, Zenon DEF Edit
  <2> QED BY <2>1, <2>2 DEF EditsInv
<1>5. CASE Connect
  <2>1. branch'.settings = edits' /\ UNCHANGED handlers
    BY <1>5 DEF Connect, NewBranch
  <2>2. ~raced' => \A d \in Deliveries : handlers[d].pc # "update"
    BY <1>5, Zenon DEF Connect
  <2> QED BY <2>1, <2>2 DEF EditsInv
<1>6. ASSUME NEW d \in Deliveries, NotFound(d) \/ Fails(d) PROVE EditsInv'
  <2>1. handlers' = [handlers EXCEPT ![d] = Ended] /\ UNCHANGED <<branch, edits, raced>>
    BY <1>6, RespondsEnds DEF NotFound, Fails
  <2> QED BY <2>1, EndKeepsEdits DEF EditsInv
<1>7. ASSUME NEW d \in Deliveries, GetBranch(d) PROVE EditsInv'
  <2>1. handlers' = [handlers EXCEPT ![d] = [handlers[d] EXCEPT !.pc = "update", !.read = branch]]
    BY <1>7 DEF GetBranch
  <2>2. handlers'[d].read = branch /\ \A e \in Deliveries : e # d => handlers'[e] = handlers[e]
    BY <2>1 DEF LinkerTypeOK, Invocations
  <2> QED BY <1>7, <2>2 DEF GetBranch, EditsInv
<1>8. ASSUME NEW d \in Deliveries, UpdateBranch(d) PROVE EditsInv'
  <2>1. handlers' = [handlers EXCEPT ![d] = Ended] /\ UNCHANGED <<edits, raced>>
    BY <1>8, RespondsEnds DEF UpdateBranch
  <2>2. branch'.settings = handlers[d].read.settings
    BY <1>8 DEF UpdateBranch, Updated, LinkerTypeOK, Invocations, Branches
  <2>3. ~raced => handlers[d].read.settings = edits
    BY <1>8 DEF UpdateBranch, EditsInv
  <2> QED BY <2>1, <2>2, <2>3, EndKeepsEdits
<1>9. CASE UNCHANGED linkerVars
  BY <1>9 DEF linkerVars, EditsInv
<1> QED BY <1>1, <1>2, <1>3, <1>4, <1>5, <1>6, <1>7, <1>8, <1>9 DEF LinkerNext

-----------------------------------------------------------------------------
(* The theorems. *)

LEMMA LinkerInvInit == LinkerInit => LinkerInv
<1> SUFFICES ASSUME LinkerInit PROVE LinkerInv
  OBVIOUS
<1>1. LinkerTypeOK
  BY LinkerTypeInit
<1>2. StatusMatchesEvent
  BY DEF LinkerInit, StatusMatchesEvent, NoEvent
<1>3. InvocationsAreOfEvent
  BY DEF LinkerInit, InvocationsAreOfEvent, Ended
<1>4. LinkInv
  BY DEF LinkerInit, LinkInv, NewBranch
<1>5. EditsInv
  BY DEF LinkerInit, EditsInv, NewBranch, Ended
<1> QED BY <1>1, <1>2, <1>3, <1>4, <1>5 DEF LinkerInv

\* The variables of the linker keep their types: whatever is delivered, written
\* back or undone, a branch has a link to a stack that was made, or none.
THEOREM LinkerTypeCorrect == LinkerSpec => []LinkerTypeOK
  BY LinkerTypeInit, LinkerTypeStep, PTL DEF LinkerSpec

\* The inductive invariant holds in every state of the linker.
LEMMA LinkerInvariant == LinkerSpec => []LinkerInv
<1>1. LinkerInv /\ [LinkerNext]_linkerVars => LinkerInv'
  BY LinkerTypeStep, StatusStep, InvocationsStep, LinkStep, EditsStep DEF LinkerInv
<1> QED BY <1>1, LinkerInvInit, PTL DEF LinkerSpec

\* "links and un-links branch deployments" (AmplifyBranchLinkerConstruct): when
\* no event is under way the branch names the stack it has, or none when it has
\* none, for every number of stacks, deliveries and edits.
THEOREM LinkCorrect == LinkerSpec => []LinkFollowsStack
<1>1. LinkerInv => LinkFollowsStack
  BY DEF LinkerInv, LinkInv, LinkFollowsStack
<1> QED BY <1>1, LinkerInvariant, PTL

\* "Populate update command input with existing values, so we don't lose them"
\* (updateOrUnsetStackReference): no edit of the branch is lost, unless it was
\* made between the two calls of a handler.
THEOREM EditsCorrect == LinkerSpec => []EditsSurvive
<1>1. LinkerInv => EditsSurvive
  BY DEF LinkerInv, EditsInv, EditsSurvive
<1> QED BY <1>1, LinkerInvariant, PTL

-----------------------------------------------------------------------------
(* Both *)

LEMMA SecretsTypeKept == ASSUME SecretsTypeOK, UNCHANGED secretsVars PROVE SecretsTypeOK'
  BY SecretsTypeStep

LEMMA LinkerTypeKept == ASSUME LinkerTypeOK, UNCHANGED linkerVars PROVE LinkerTypeOK'
  BY LinkerTypeStep

\* Whichever of the two handlers is invoked, and however often, every stamp is of
\* a time that has been and every link of a stack that was made.
THEOREM CustomResourcesTypeCorrect == CustomResourcesSpec => []CustomResourcesTypeOK
<1>1. CustomResourcesInit => CustomResourcesTypeOK
  BY SecretsTypeInit, LinkerTypeInit DEF CustomResourcesInit, CustomResourcesTypeOK
<1>2. CustomResourcesTypeOK /\ [CustomResourcesNext]_<<secretsVars, linkerVars, resourceKind>>
          => CustomResourcesTypeOK'
  <2> SUFFICES ASSUME SecretsTypeOK, LinkerTypeOK,
                      [CustomResourcesNext]_<<secretsVars, linkerVars, resourceKind>>
               PROVE  SecretsTypeOK' /\ LinkerTypeOK'
    BY DEF CustomResourcesTypeOK
  <2>1. CASE SecretsNext /\ UNCHANGED linkerVars
    BY <2>1, SecretsTypeStep, LinkerTypeKept
  <2>2. CASE LinkerNext /\ UNCHANGED secretsVars
    BY <2>2, LinkerTypeStep, SecretsTypeKept
  <2>3. CASE UNCHANGED <<secretsVars, linkerVars>>
    BY <2>3, SecretsTypeKept, LinkerTypeKept
  <2> QED BY <2>1, <2>2, <2>3 DEF CustomResourcesNext
<1> QED BY <1>1, <1>2, PTL DEF CustomResourcesSpec
================================================================================
