------------------------- MODULE BackendSynthesisProofs -------------------------
(***************************************************************************)
(* Theorems about StorageAccess for every set of names, paths, groups and  *)
(* functions: the policies grant what the rules say, and the outputs list  *)
(* the rules for users.                                                    *)
(* About BackendOutputs for every definition, custom part and version: no  *)
(* output is declared twice, the client config tells the backend as it is, *)
(* and what the program added arrives.                                     *)
(***************************************************************************)
EXTENDS MCBackendSynthesis, SequenceLemmas, FiniteSetTheorems

-----------------------------------------------------------------------------
(* Paths *)

\* A prefix, element by element.
LEMMA PrefixElementwise ==
    ASSUME NEW A, NEW p \in Seq(A), NEW B, NEW q \in Seq(B)
    PROVE  IsPrefix(p, q) <=> Len(p) <= Len(q) /\ \A i \in 1..Len(p) : p[i] = q[i]
<1>1. CASE Len(p) <= Len(q)
  <2>1. /\ SubSeq(p, 1, Len(p)) = [i \in 1..Len(p) |-> p[i]]
        /\ SubSeq(q, 1, Len(p)) = [i \in 1..Len(p) |-> q[i]]
    BY <1>1
  <2> QED BY <1>1, <2>1 DEF IsPrefix
<1>2. CASE ~(Len(p) <= Len(q))
  BY <1>2 DEF IsPrefix
<1> QED BY <1>1, <1>2

\* The paths are sequences of their parts.
LEMMA PathsAreSequences ==
    /\ \A p : p \in Paths <=> p \in Seq(Names \union {entityIdPathToken}) /\ Len(p) \in 1..MaxDepth
    /\ \A p : p \in StoragePaths <=>
                  p \in Seq(Names \union {entityIdSubstitution}) /\ Len(p) \in 1..MaxDepth
  BY BoundsAssumption DEF Paths, StoragePaths

\* What Front takes away and Append adds is the last part.
LEMMA LastPart ==
    ASSUME NEW A, NEW p \in Seq(A), Len(p) > 1
    PROVE  /\ Front(p) \in Seq(A) /\ Len(Front(p)) = Len(p) - 1
           /\ \A i \in 1..(Len(p) - 1) : Front(p)[i] = p[i]
           /\ Last(p) = p[Len(p)]
  BY DEF Front, Last

\* A valid path has the owner token at its end, behind another part, or nowhere.
LEMMA TokenAtTheEnd ==
    ASSUME NEW path \in Paths, NEW allPaths, ValidStoragePath(path, allPaths)
    PROVE  /\ \A i \in 1..Len(path) : path[i] = entityIdPathToken => i = Len(path)
           /\ Last(path) = entityIdPathToken =>
                  Len(path) > 1 /\ {p \in allPaths : Within(path, p)} = {}
<1>1. path \in Seq(Names \union {entityIdPathToken}) /\ Len(path) \in 1..MaxDepth
  BY PathsAreSequences
<1>2. DOMAIN path = 1..Len(path) /\ Len(path) \in 1..Len(path)
  BY <1>1, BoundsAssumption
<1>3. OwnerTokenRules(path, {p \in allPaths : Within(path, p)})
  BY DEF ValidStoragePath
<1> QED BY <1>2, <1>3 DEF OwnerTokenRules, Range, Last

Substitutions == {"*", entityIdSubstitution}

\* The substitution makes a path without owner token.
LEMMA Substituted ==
    ASSUME NEW path \in Paths, NEW allPaths, ValidStoragePath(path, allPaths),
           NEW s \in Substitutions
    PROVE  PlaceholderSubstitution(path, s) \in StoragePaths
<1>1. path \in Seq(Names \union {entityIdPathToken}) /\ Len(path) \in 1..MaxDepth
  BY PathsAreSequences
<1> DEFINE S == Names \union {entityIdSubstitution}
           front == Front(path)
<1>2. CASE Last(path) # entityIdPathToken
  <2>1. \A i \in 1..Len(path) : path[i] \in S
    BY <1>1, <1>2, TokenAtTheEnd DEF Last
  <2>2. path \in Seq(S)
    BY <1>1, <2>1
  <2> QED BY <1>1, <1>2, <2>2, PathsAreSequences DEF PlaceholderSubstitution
<1>3. CASE Last(path) = entityIdPathToken
  <2>1. Len(path) > 1
    BY <1>3, TokenAtTheEnd
  <2>2. /\ front \in Seq(Names \union {entityIdPathToken}) /\ Len(front) = Len(path) - 1
        /\ \A i \in 1..Len(front) : front[i] = path[i]
    BY <1>1, <2>1, LastPart
  <2>3. \A i \in 1..Len(front) : front[i] \in S
    BY <1>1, <2>2, TokenAtTheEnd
  <2>4. front \in Seq(S) /\ Len(front) \in 1..MaxDepth
    BY <1>1, <2>1, <2>2, <2>3, BoundsAssumption
  <2>5. Append(front, entityIdSubstitution) \in Seq(S)
        /\ Len(Append(front, entityIdSubstitution)) = Len(path)
    BY <2>2, <2>4, <1>1
  <2>6. PlaceholderSubstitution(path, s) \in {front, Append(front, entityIdSubstitution)}
    BY <1>3 DEF PlaceholderSubstitution, Substitutions
  <2> HIDE DEF S, front
  <2> QED BY <1>1, <2>4, <2>5, <2>6, PathsAreSequences DEF S
<1> QED BY <1>2, <1>3

\* Two valid paths that become the same by the same substitution are the same.
LEMMA SubstitutionKeepsApart ==
    ASSUME NEW p \in Paths, NEW q \in Paths, NEW allPaths, p \in allPaths, q \in allPaths,
           ValidStoragePath(p, allPaths), ValidStoragePath(q, allPaths),
           NEW s \in Substitutions,
           PlaceholderSubstitution(p, s) = PlaceholderSubstitution(q, s)
    PROVE  p = q
<1> DEFINE T == Names \union {entityIdPathToken}
           Owner(path) == Last(path) = entityIdPathToken
<1>1. /\ p \in Seq(T) /\ Len(p) \in 1..MaxDepth
      /\ q \in Seq(T) /\ Len(q) \in 1..MaxDepth
  BY PathsAreSequences
<1>2. CASE ~Owner(p) /\ ~Owner(q)
  BY <1>2 DEF PlaceholderSubstitution
<1>3. ASSUME NEW x \in Paths, NEW y \in Paths, x \in allPaths, ~Owner(x), Owner(y),
             ValidStoragePath(y, allPaths),
             PlaceholderSubstitution(x, s) = PlaceholderSubstitution(y, s)
      PROVE  FALSE
  <2>1. x \in Seq(T) /\ y \in Seq(T) /\ Len(y) \in Nat
    BY <1>3, PathsAreSequences
  <2>2. Len(y) > 1 /\ {z \in allPaths : Within(y, z)} = {}
    BY <1>3, TokenAtTheEnd
  <2>3. /\ Front(y) \in Seq(T) /\ Len(Front(y)) = Len(y) - 1
        /\ \A i \in 1..(Len(y) - 1) : Front(y)[i] = y[i]
    BY <2>1, <2>2, LastPart
  <2>4. CASE s = "*"
    <3>1. x = Front(y)
      BY <1>3, <2>4 DEF PlaceholderSubstitution
    <3>2. IsPrefix(x, y) /\ x # y
      BY <2>1, <2>2, <2>3, <3>1, PrefixElementwise
    <3> QED BY <1>3, <2>2, <3>2 DEF Within
  <2>5. CASE s = entityIdSubstitution
    <3>1. x = Append(Front(y), entityIdSubstitution)
      BY <1>3, <2>5 DEF PlaceholderSubstitution, entityIdSubstitution
    <3>2. Len(y) \in 1..Len(x) /\ x[Len(y)] = entityIdSubstitution
      BY <2>1, <2>2, <2>3, <3>1
    <3>3. entityIdSubstitution \in T
      BY <2>1, <3>2
    <3> QED BY <3>3, NamesAssumption DEF entityIdSubstitution, entityIdPathToken
  <2> QED BY <2>4, <2>5 DEF Substitutions
<1>4. CASE Owner(p) /\ Owner(q)
  <2>1. Len(p) > 1 /\ Len(q) > 1
    BY <1>4, TokenAtTheEnd
  <2>2. /\ Front(p) \in Seq(T) /\ Len(Front(p)) = Len(p) - 1
        /\ \A i \in 1..(Len(p) - 1) : Front(p)[i] = p[i]
        /\ Last(p) = p[Len(p)]
    BY <1>1, <2>1, LastPart
  <2>3. /\ Front(q) \in Seq(T) /\ Len(Front(q)) = Len(q) - 1
        /\ \A i \in 1..(Len(q) - 1) : Front(q)[i] = q[i]
        /\ Last(q) = q[Len(q)]
    BY <1>1, <2>1, LastPart
  <2>4. Front(p) = Front(q)
    <3>1. CASE s = "*"
      BY <1>4, <3>1 DEF PlaceholderSubstitution
    <3>2. CASE s = entityIdSubstitution
      <4>1. Append(Front(p), entityIdSubstitution) = Append(Front(q), entityIdSubstitution)
        BY <1>4, <3>2 DEF PlaceholderSubstitution, entityIdSubstitution
      <4> DEFINE U == T \union {entityIdSubstitution}
      <4>2. Front(p) \in Seq(U) /\ Front(q) \in Seq(U)
        BY <2>2, <2>3
      <4>3. Len(Front(p)) = Len(Front(q))
            /\ \A i \in 1..Len(Front(p)) : Front(p)[i] = Front(q)[i]
        BY <4>1, <4>2
      <4> QED BY <4>2, <4>3
    <3> QED BY <3>1, <3>2 DEF Substitutions
  <2>5. Len(p) = Len(q) /\ \A i \in 1..Len(p) : p[i] = q[i]
    BY <1>1, <1>4, <2>1, <2>2, <2>3, <2>4
  <2> QED BY <1>1, <2>5
<1> QED BY <1>2, <1>3, <1>4

-----------------------------------------------------------------------------
(* Permissions *)

\* The substitution that comes with the id of a definition.
SubstitutionOf(id) == IF id[1] = "entity" THEN entityIdSubstitution ELSE "*"

\* A permission is for the users of its ids, or for a function and has none; its ids
\* share a substitution.
LEMMA PermissionsAreOfTheirIds ==
    ASSUME NEW permission \in Permissions
    PROVE  /\ permission.acceptors \subseteq Acceptors
           /\ permission.acceptors \intersect UserRoles = {AcceptorOf(id) : id \in permission.ids}
           /\ permission.idSubstitution \in Substitutions
           /\ \A id \in permission.ids : permission.idSubstitution = SubstitutionOf(id)
           /\ ReplaceRead(permission.actions) \subseteq Actions
<1>1. PICK actions \in SUBSET UserActions :
        \/ permission = Permission({"authenticatedUserIamRole"}, {<<"authenticated", "">>}, "*", actions)
        \/ permission = Permission({"unauthenticatedUserIamRole"}, {<<"guest", "">>}, "*", actions)
        \/ permission = Permission({"authenticatedUserIamRole"}, {<<"entity", "identity">>},
                                   entityIdSubstitution, actions)
        \/ \E gs \in SUBSET Groups : permission = Permission(gs, {"groups"} \X gs, "*", actions)
        \/ \E f \in Resources : permission = Permission({f}, {}, "*", actions)
  BY DEF Permissions
<1>2. ReplaceRead(actions) \subseteq Actions
  BY UserActionsAssumption DEF ReplaceRead, Actions
<1>3. permission.actions = actions
  <2>1. \A a, i, s : Permission(a, i, s, actions).actions = actions
    BY DEF Permission
  <2> QED BY <1>1, <2>1
<1>4. ASSUME NEW acceptor, NEW id, NEW s,
             permission = Permission({acceptor}, {id}, s, actions),
             acceptor \in UserRoles, acceptor = AcceptorOf(id),
             s \in Substitutions, s = SubstitutionOf(id)
      PROVE  /\ permission.acceptors \subseteq Acceptors
             /\ permission.acceptors \intersect UserRoles = {AcceptorOf(i) : i \in permission.ids}
             /\ permission.idSubstitution \in Substitutions
             /\ \A i \in permission.ids : permission.idSubstitution = SubstitutionOf(i)
  BY <1>4 DEF Permission, Acceptors
<1>5. /\ "authenticatedUserIamRole" = AcceptorOf(<<"authenticated", "">>)
      /\ "unauthenticatedUserIamRole" = AcceptorOf(<<"guest", "">>)
      /\ "authenticatedUserIamRole" = AcceptorOf(<<"entity", "identity">>)
      /\ "*" = SubstitutionOf(<<"authenticated", "">>) /\ "*" = SubstitutionOf(<<"guest", "">>)
      /\ entityIdSubstitution = SubstitutionOf(<<"entity", "identity">>)
  BY DEF AcceptorOf, SubstitutionOf
<1>6. /\ {"authenticatedUserIamRole", "unauthenticatedUserIamRole"} \subseteq UserRoles
      /\ {"*", entityIdSubstitution} \subseteq Substitutions
  BY DEF UserRoles, Substitutions
<1>7. ASSUME NEW gs \in SUBSET Groups, permission = Permission(gs, {"groups"} \X gs, "*", actions)
      PROVE  /\ permission.acceptors \subseteq Acceptors
             /\ permission.acceptors \intersect UserRoles = {AcceptorOf(id) : id \in permission.ids}
             /\ permission.idSubstitution \in Substitutions
             /\ \A id \in permission.ids : permission.idSubstitution = SubstitutionOf(id)
  <2>1. \A id \in {"groups"} \X gs : id[1] = "groups" /\ id[2] \in gs
    OBVIOUS
  <2>2. \A id \in {"groups"} \X gs : AcceptorOf(id) = id[2] /\ SubstitutionOf(id) = "*"
    BY <2>1 DEF AcceptorOf, SubstitutionOf
  <2>3. \A g \in gs : \E id \in {"groups"} \X gs : g = AcceptorOf(id)
    <3> SUFFICES ASSUME NEW g \in gs PROVE \E id \in {"groups"} \X gs : g = AcceptorOf(id)
      OBVIOUS
    <3>1. <<"groups", g>> \in {"groups"} \X gs /\ <<"groups", g>>[2] = g
      OBVIOUS
    <3> QED BY <2>2, <3>1
  <2> DEFINE X == {"groups"} \X gs
  <2> HIDE DEF X
  <2>4. {AcceptorOf(id) : id \in X} = gs
    BY <2>1, <2>2, <2>3 DEF X
  <2>5. permission.acceptors = gs /\ permission.ids = X /\ permission.idSubstitution = "*"
    BY <1>7 DEF Permission, X
  <2>6. \A id \in X : SubstitutionOf(id) = "*"
    BY <2>2 DEF X
  <2>7. gs \subseteq UserRoles
    BY DEF UserRoles
  <2> QED BY <2>4, <2>5, <2>6, <2>7 DEF Acceptors, Substitutions
<1>8. ASSUME NEW f \in Resources, permission = Permission({f}, {}, "*", actions)
      PROVE  /\ permission.acceptors \subseteq Acceptors
             /\ permission.acceptors \intersect UserRoles = {AcceptorOf(id) : id \in permission.ids}
             /\ permission.idSubstitution \in Substitutions
             /\ \A id \in permission.ids : permission.idSubstitution = SubstitutionOf(id)
  <2>1. f \notin UserRoles
    BY ResourcesAssumption, GroupsAssumption DEF UserRoles
  <2>2. permission.acceptors = {f} /\ permission.ids = {} /\ permission.idSubstitution = "*"
    BY <1>8 DEF Permission
  <2> QED BY <2>1, <2>2 DEF Acceptors, Substitutions
<1>9. CASE permission = Permission({"authenticatedUserIamRole"}, {<<"authenticated", "">>}, "*", actions)
  BY <1>2, <1>3, <1>4, <1>5, <1>6, <1>9
<1>10. CASE permission = Permission({"unauthenticatedUserIamRole"}, {<<"guest", "">>}, "*", actions)
  BY <1>2, <1>3, <1>4, <1>5, <1>6, <1>10
<1>11. CASE permission = Permission({"authenticatedUserIamRole"}, {<<"entity", "identity">>},
                                    entityIdSubstitution, actions)
  BY <1>2, <1>3, <1>4, <1>5, <1>6, <1>11
<1> QED BY <1>1, <1>2, <1>3, <1>7, <1>8, <1>9, <1>10, <1>11

-----------------------------------------------------------------------------
(* The type invariant. *)

\* The paths whose permissions are being added are valid, and all different.
PathsInv ==
    /\ storagePaths \in Seq(Paths) /\ IsInjective(storagePaths)
    /\ at \in 1..Len(storagePaths)
    /\ stage = "adding" => ValidateStorageAccessPaths(storagePaths)

LEMMA PathsInitial == AccessInit => PathsInv
<1> SUFFICES ASSUME AccessInit PROVE PathsInv
  OBVIOUS
<1>1. PICK n \in 1..MaxPaths : storagePaths \in [1..n -> Paths]
  BY DEF AccessInit
<1>2. storagePaths \in Seq(Paths) /\ 1 \in 1..Len(storagePaths)
  BY <1>1, BoundsAssumption
<1>3. IsInjective(storagePaths)
  BY DEF AccessInit
<1> QED BY <1>2, <1>3 DEF AccessInit, PathsInv

LEMMA PathsPreserved == PathsInv /\ [AccessNext]_accessVars => PathsInv'
<1> SUFFICES ASSUME PathsInv, [AccessNext]_accessVars PROVE PathsInv'
  OBVIOUS
<1>1. CASE NextPath
  BY <1>1 DEF NextPath, PathsInv
<1>2. ASSUME NEW permission \in Permissions, AddPermission(permission) PROVE PathsInv'
  BY <1>2 DEF AddPermission, PathsInv
<1>3. ASSUME NEW permission \in Permissions, DuplicateDefinition(permission) PROVE PathsInv'
  BY <1>3 DEF DuplicateDefinition, PathsInv
<1>4. CASE AttachPolicies
  BY <1>4 DEF AttachPolicies, PathsInv
<1>5. CASE UNCHANGED accessVars
  BY <1>5 DEF accessVars, PathsInv
<1> QED BY <1>1, <1>2, <1>3, <1>4, <1>5 DEF AccessNext

\* The path at hand is a valid one of the definition.
LEMMA PathAtHand ==
    ASSUME PathsInv, stage = "adding", NEW i \in 1..Len(storagePaths)
    PROVE  /\ storagePaths[i] \in Paths
           /\ storagePaths[i] \in Range(storagePaths)
           /\ ValidStoragePath(storagePaths[i], Range(storagePaths))
  BY DEF PathsInv, ValidateStorageAccessPaths, Range

\* The keys of prefixDenyMap, and rules and sets about them.
AccessTypeInv ==
    /\ prefixDenyMap \in Seq(StoragePaths)
    /\ AccessTypeOK

\* A key is added behind the others.
LEMMA KeyAdded ==
    ASSUME NEW A, NEW s \in Seq(A), NEW e \in A
    PROVE  /\ Append(s, e) \in Seq(A)
           /\ Range(Append(s, e)) = Range(s) \union {e}
           /\ IsInjective(s) /\ e \notin Range(s) => IsInjective(Append(s, e))
<1>1. /\ Append(s, e) \in Seq(A) /\ Len(Append(s, e)) = Len(s) + 1 /\ Len(s) \in Nat
      /\ DOMAIN s = 1..Len(s) /\ DOMAIN Append(s, e) = 1..(Len(s) + 1)
      /\ \A i \in 1..Len(s) : Append(s, e)[i] = s[i]
      /\ Append(s, e)[Len(s) + 1] = e
  OBVIOUS
<1>2. Range(Append(s, e)) = Range(s) \union {e}
  BY <1>1 DEF Range
<1>3. ASSUME IsInjective(s), e \notin Range(s) PROVE IsInjective(Append(s, e))
  BY <1>1, <1>3 DEF IsInjective, Range
<1> QED BY <1>1, <1>2, <1>3

LEMMA TypePreserved == AccessTypeInv /\ PathsInv /\ [AccessNext]_accessVars => AccessTypeInv'
<1> SUFFICES ASSUME AccessTypeInv, PathsInv, [AccessNext]_accessVars PROVE AccessTypeInv'
  OBVIOUS
<1> USE DEF AccessTypeInv, AccessTypeOK
<1>0. DOMAIN storagePaths' = 1..Len(storagePaths') /\ at' \in DOMAIN storagePaths'
  BY PathsPreserved DEF PathsInv
<1>1. CASE NextPath
  BY <1>0, <1>1 DEF NextPath
<1>2. ASSUME NEW permission \in Permissions, AddPermission(permission) PROVE AccessTypeInv'
  <2> DEFINE actions == ReplaceRead(permission.actions)
             prefix == PlaceholderSubstitution(storagePaths[at], permission.idSubstitution)
  <2>1. /\ stage = "adding" /\ permissionCount < MaxPermissions
        /\ permissionCount' = permissionCount + 1
        /\ acceptors' = acceptors \union permission.acceptors
        /\ allow' = [acceptor \in Acceptors |-> [action \in Actions |->
               IF acceptor \in permission.acceptors /\ action \in actions
               THEN allow[acceptor][action] \union {prefix} ELSE allow[acceptor][action]]]
        /\ prefixDenyMap' = IF actions = {} \/ prefix \in Range(prefixDenyMap)
                            THEN prefixDenyMap ELSE Append(prefixDenyMap, prefix)
        /\ rules' = rules \union ({prefix} \X permission.acceptors \X actions)
        /\ UNCHANGED <<stage, storagePaths, at, deny>>
    BY <1>2 DEF AddPermission
  <2>2. /\ permission.acceptors \subseteq Acceptors /\ actions \subseteq Actions
        /\ permission.idSubstitution \in Substitutions
    BY PermissionsAreOfTheirIds
  <2>3. prefix \in StoragePaths
    <3>1. at \in 1..Len(storagePaths)
      BY DEF PathsInv
    <3> QED BY <2>1, <2>2, <3>1, PathAtHand, Substituted
  <2> HIDE DEF actions, prefix
  <2>4. /\ prefixDenyMap' \in Seq(StoragePaths) /\ IsInjective(prefixDenyMap')
        /\ Range(prefixDenyMap') \subseteq StoragePaths
        /\ Range(prefixDenyMap) \subseteq Range(prefixDenyMap')
        /\ actions # {} => prefix \in Range(prefixDenyMap')
    <3>1. CASE actions = {} \/ prefix \in Range(prefixDenyMap)
      BY <2>1, <3>1
    <3>2. CASE ~(actions = {} \/ prefix \in Range(prefixDenyMap))
      BY <2>1, <2>3, <3>2, KeyAdded
    <3> QED BY <3>1, <3>2
  <2>5. rules' \subseteq Range(prefixDenyMap') \X acceptors' \X Actions
    BY <2>1, <2>2, <2>4
  <2>6. allow' \in [Acceptors -> [Actions -> SUBSET Range(prefixDenyMap')]]
    BY <2>1, <2>2, <2>4
  <2>7. deny' \in [Acceptors -> [Actions -> SUBSET Range(prefixDenyMap')]]
    BY <2>1, <2>4
  <2>8. permissionCount' \in 0..MaxPermissions
    BY <2>1, BoundsAssumption
  <2> QED BY <1>0, <2>1, <2>2, <2>4, <2>5, <2>6, <2>7, <2>8
<1>3. ASSUME NEW permission \in Permissions, DuplicateDefinition(permission) PROVE AccessTypeInv'
  BY <1>0, <1>3 DEF DuplicateDefinition
<1>4. CASE AttachPolicies
  <2>1. deny' \in [Acceptors -> [Actions -> SUBSET Range(prefixDenyMap')]]
    BY <1>4 DEF AttachPolicies
  <2>2. allow' \in [Acceptors -> [Actions -> SUBSET Range(prefixDenyMap')]]
    BY <1>4 DEF AttachPolicies, RemoveSubPathsFromSet
  <2> QED BY <1>0, <1>4, <2>1, <2>2 DEF AttachPolicies
<1>5. CASE UNCHANGED accessVars
  BY <1>0, <1>5 DEF accessVars
<1> QED BY <1>1, <1>2, <1>3, <1>4, <1>5 DEF AccessNext

LEMMA TypeInitial == AccessInit => AccessTypeInv
<1> SUFFICES ASSUME AccessInit PROVE AccessTypeInv
  OBVIOUS
<1>1. PathsInv
  BY PathsInitial
<1>2. DOMAIN storagePaths = 1..Len(storagePaths)
  BY <1>1 DEF PathsInv
<1>3. Nothing \in [Acceptors -> [Actions -> SUBSET {}]]
  BY DEF Nothing
<1>4. prefixDenyMap = <<>> /\ Range(<<>>) = {} /\ IsInjective(<<>>)
  BY DEF AccessInit, Range, IsInjective
<1> QED BY <1>1, <1>2, <1>3, <1>4, BoundsAssumption DEF AccessInit, PathsInv, AccessTypeInv, AccessTypeOK

\* The maps and sets of the orchestrator (acceptorAccessMap, prefixDenyMap) hold
\* paths that were substituted, and no rule is for an acceptor without policy.
THEOREM AccessTypeCorrect == AccessSpec => []AccessTypeOK
<1>1. AccessInit => AccessTypeInv /\ PathsInv
  BY TypeInitial, PathsInitial
<1>2. (AccessTypeInv /\ PathsInv) /\ [AccessNext]_accessVars => (AccessTypeInv /\ PathsInv)'
  BY TypePreserved, PathsPreserved
<1>3. AccessTypeInv => AccessTypeOK
  BY DEF AccessTypeInv
<1> QED BY <1>1, <1>2, <1>3, PTL DEF AccessSpec

-----------------------------------------------------------------------------
(* The outputs list the rules. *)

\* The rules for users.
UserRulesOf(rs) == {rule \in rs : rule[2] \in UserRoles}

\* What the outputs say.
Listed(os) == UNION {{<<o[1], AcceptorOf(o[2]), action>> : action \in o[3]} : o \in os}

\* An output is of one of the paths so far, with the substitution of its id; the
\* ids of the outputs of the path at hand are taken.
OutputsInv ==
    /\ UserRulesOf(rules) = Listed(outputs)
    /\ stage = "adding" =>
          \A o \in outputs : \E i \in 1..at :
              /\ o[1] = PlaceholderSubstitution(storagePaths[i], SubstitutionOf(o[2]))
              /\ SubstitutionOf(o[2]) \in Substitutions
              /\ i = at => o[2] \in uniqueDefinitionIds

\* The outputs and the rules of one permission.
NewOutputs(prefix, ids, actions) == {prefix} \X ids \X {actions}
NewRules(prefix, ids, actions) == {prefix} \X {AcceptorOf(id) : id \in ids} \X actions

\* One more permission adds its rules to what is listed.
LEMMA MoreListed ==
    ASSUME NEW os, NEW prefix, NEW ids, NEW actions
    PROVE  Listed(os \union NewOutputs(prefix, ids, actions))
           = Listed(os) \union NewRules(prefix, ids, actions)
<1> DEFINE more == NewOutputs(prefix, ids, actions)
           Of(o) == {<<o[1], AcceptorOf(o[2]), action>> : action \in o[3]}
<1>1. Listed(os \union more) = Listed(os) \union UNION {Of(o) : o \in more}
  BY DEF Listed
<1>2. \A o \in more : o[1] = prefix /\ o[2] \in ids /\ o[3] = actions
  BY DEF NewOutputs
<1>3. \A id \in ids : <<prefix, id, actions>> \in more
  BY DEF NewOutputs
<1>4. ASSUME NEW r \in UNION {Of(o) : o \in more} PROVE r \in NewRules(prefix, ids, actions)
  <2>1. PICK o \in more : r \in Of(o)
    BY <1>4
  <2>2. PICK action \in o[3] : r = <<o[1], AcceptorOf(o[2]), action>>
    BY <2>1
  <2> QED BY <1>2, <2>2 DEF NewRules
<1>5. ASSUME NEW r \in NewRules(prefix, ids, actions) PROVE r \in UNION {Of(o) : o \in more}
  <2>1. PICK id \in ids, action \in actions : r = <<prefix, AcceptorOf(id), action>>
    BY <1>5 DEF NewRules
  <2> DEFINE o == <<prefix, id, actions>>
  <2>2. o \in more /\ o[1] = prefix /\ o[2] = id /\ o[3] = actions
    BY <1>3
  <2>3. r \in Of(o)
    BY <2>1, <2>2
  <2> QED BY <2>2, <2>3
<1>6. UNION {Of(o) : o \in more} = NewRules(prefix, ids, actions)
  BY <1>4, <1>5
<1> QED BY <1>1, <1>6

LEMMA OutputsPreserved == OutputsInv /\ PathsInv /\ [AccessNext]_accessVars => OutputsInv'
<1> SUFFICES ASSUME OutputsInv, PathsInv, [AccessNext]_accessVars PROVE OutputsInv'
  OBVIOUS
<1>1. CASE NextPath
  <2>1. at' = at + 1 /\ at \in Nat /\ UNCHANGED <<stage, storagePaths, rules, outputs>>
        /\ stage = "adding"
    BY <1>1 DEF NextPath, PathsInv
  <2>2. ASSUME NEW o \in outputs
        PROVE  \E i \in 1..at' :
                  /\ o[1] = PlaceholderSubstitution(storagePaths[i], SubstitutionOf(o[2]))
                  /\ SubstitutionOf(o[2]) \in Substitutions
                  /\ i = at' => o[2] \in uniqueDefinitionIds'
    <3>1. PICK i \in 1..at :
              o[1] = PlaceholderSubstitution(storagePaths[i], SubstitutionOf(o[2]))
              /\ SubstitutionOf(o[2]) \in Substitutions
      BY <2>1 DEF OutputsInv
    <3>2. i \in 1..at' /\ i # at'
      BY <2>1
    <3> QED BY <3>1, <3>2
  <2> QED BY <2>1, <2>2 DEF OutputsInv
<1>2. ASSUME NEW permission \in Permissions, AddPermission(permission) PROVE OutputsInv'
  <2> DEFINE actions == ReplaceRead(permission.actions)
             ids == permission.ids
             prefix == PlaceholderSubstitution(storagePaths[at], permission.idSubstitution)
  <2>1. /\ stage = "adding" /\ ids \intersect uniqueDefinitionIds = {}
        /\ uniqueDefinitionIds' = uniqueDefinitionIds \union ids
        /\ rules' = rules \union ({prefix} \X permission.acceptors \X actions)
        /\ outputs' = {o \in outputs : o[1] # prefix \/ o[2] \notin ids}
                      \union ({prefix} \X ids \X {actions})
        /\ UNCHANGED <<stage, storagePaths, at>>
    BY <1>2 DEF AddPermission
  <2>2. /\ permission.acceptors \intersect UserRoles = {AcceptorOf(id) : id \in ids}
        /\ permission.idSubstitution \in Substitutions
        /\ \A id \in ids : permission.idSubstitution = SubstitutionOf(id)
    BY PermissionsAreOfTheirIds
  <2>3. at \in 1..Len(storagePaths) /\ Len(storagePaths) \in Nat
        /\ DOMAIN storagePaths = 1..Len(storagePaths) /\ IsInjective(storagePaths)
    BY DEF PathsInv
  <2>4. ASSUME NEW o \in outputs, o[1] = prefix, o[2] \in ids PROVE FALSE
    <3>1. PICK i \in 1..at :
              /\ o[1] = PlaceholderSubstitution(storagePaths[i], SubstitutionOf(o[2]))
              /\ i = at => o[2] \in uniqueDefinitionIds
      BY <2>1 DEF OutputsInv
    <3>2. i \in 1..Len(storagePaths)
      BY <2>3
    <3>3. storagePaths[i] = storagePaths[at]
      <4>1. PlaceholderSubstitution(storagePaths[i], permission.idSubstitution)
            = PlaceholderSubstitution(storagePaths[at], permission.idSubstitution)
        BY <2>2, <2>4, <3>1
      <4> HIDE DEF prefix, ids
      <4> QED BY <2>1, <2>2, <2>3, <3>2, <4>1, PathAtHand, SubstitutionKeepsApart
    <3>4. i = at
      BY <2>3, <3>2, <3>3 DEF IsInjective
    <3> QED BY <2>1, <2>4, <3>1, <3>4
  <2>5. outputs' = outputs \union ({prefix} \X ids \X {actions})
    BY <2>1, <2>4
  <2>6. UserRulesOf(rules') = Listed(outputs')
    <3> HIDE DEF actions, prefix, ids
    <3>1. outputs' = outputs \union NewOutputs(prefix, ids, actions)
      BY <2>5 DEF NewOutputs
    <3>2. UserRulesOf(rules') = UserRulesOf(rules) \union NewRules(prefix, ids, actions)
      <4> DEFINE new == {prefix} \X permission.acceptors \X actions
      <4>1. UserRulesOf(rules') = UserRulesOf(rules) \union UserRulesOf(new)
        BY <2>1 DEF UserRulesOf
      <4>2. UserRulesOf(new) = {prefix} \X (permission.acceptors \intersect UserRoles) \X actions
        BY DEF UserRulesOf
      <4> QED BY <2>2, <4>1, <4>2 DEF NewRules
    <3>3. UserRulesOf(rules) = Listed(outputs)
      BY DEF OutputsInv
    <3> QED BY <3>1, <3>2, <3>3, MoreListed
  <2>7. ASSUME NEW o \in outputs'
        PROVE  \E i \in 1..at :
                  /\ o[1] = PlaceholderSubstitution(storagePaths[i], SubstitutionOf(o[2]))
                  /\ SubstitutionOf(o[2]) \in Substitutions
                  /\ i = at => o[2] \in uniqueDefinitionIds'
    <3>1. CASE o \in outputs
      BY <2>1, <3>1 DEF OutputsInv
    <3>2. CASE o \in {prefix} \X ids \X {actions}
      <4>1. o[1] = prefix /\ o[2] \in ids
        BY <3>2
      <4>2. at \in 1..at
        BY <2>3
      <4> QED BY <2>1, <2>2, <4>1, <4>2
    <3> QED BY <2>5, <3>1, <3>2
  <2> HIDE DEF actions, prefix, ids
  <2> QED BY <2>1, <2>6, <2>7 DEF OutputsInv
<1>3. ASSUME NEW permission \in Permissions, DuplicateDefinition(permission) PROVE OutputsInv'
  BY <1>3 DEF DuplicateDefinition, OutputsInv
<1>4. CASE AttachPolicies
  BY <1>4 DEF AttachPolicies, OutputsInv
<1>5. CASE UNCHANGED accessVars
  BY <1>5 DEF accessVars, OutputsInv
<1> QED BY <1>1, <1>2, <1>3, <1>4, <1>5 DEF AccessNext

\* What amplify_outputs tells of a bucket (storageOutputAccessDefinition) is what
\* the roles of users were given, and nothing of what functions were given:
\* whatever paths, groups, functions and rules a valid definition has, no entry of
\* the outputs is ever replaced by another one of the same kind of user, although
\* the owner's paths are substituted after they were validated.
THEOREM OutputsCorrect == AccessSpec => []OutputsListTheRules
<1>1. AccessInit => OutputsInv /\ PathsInv
  BY PathsInitial DEF AccessInit, OutputsInv, Listed, UserRulesOf
<1>2. (OutputsInv /\ PathsInv) /\ [AccessNext]_accessVars => (OutputsInv /\ PathsInv)'
  BY OutputsPreserved, PathsPreserved
<1>3. OutputsInv => OutputsListTheRules
  BY DEF OutputsInv, OutputsListTheRules, Listed, UserRulesOf
<1> QED BY <1>1, <1>2, <1>3, PTL DEF AccessSpec

-----------------------------------------------------------------------------
(* The policies grant what the rules say. *)

RulesOf(acceptor, action) == {prefix \in Range(prefixDenyMap) : <<prefix, acceptor, action>> \in rules}

\* A path is denied what the parent that findParent finds is allowed, unless it is
\* allowed it itself or is an owner's folder.
DeniedBy(allowed, prefix) ==
    LET i == FindParent(prefix)
    IN  /\ i # 0
        /\ ~OwnerFolderOf(prefix, prefixDenyMap[i])
        /\ prefixDenyMap[i] \in allowed
        /\ prefix \notin allowed

\* Until the policies are attached, the allow sets are the rules; then they are
\* the rules without subpaths, and the deny sets are what these rules deny.
PoliciesInv ==
    \A acceptor \in Acceptors, action \in Actions :
        /\ stage = "adding" => allow[acceptor][action] = RulesOf(acceptor, action)
        /\ stage = "attached" =>
              /\ allow[acceptor][action] = RemoveSubPathsFromSet(RulesOf(acceptor, action))
              /\ deny[acceptor][action] =
                    {prefix \in Range(prefixDenyMap) : DeniedBy(RulesOf(acceptor, action), prefix)}

\* The index that findParent returns is of a parent, if there is one.
LEMMA FindParentFinds ==
    ASSUME AccessTypeInv, NEW prefix
    PROVE  LET i == FindParent(prefix)
           IN  /\ i # 0 => i \in 1..Len(prefixDenyMap) /\ prefixDenyMap[i] \in Parents(prefix)
               /\ i = 0 => Parents(prefix) = {}
<1> DEFINE I == {i \in 1..Len(prefixDenyMap) : Within(prefix, prefixDenyMap[i])}
<1>1. FindParent(prefix) = IF I # {} THEN Min(I) ELSE 0
  BY DEF FindParent, SelectInSeq
<1>2. Len(prefixDenyMap) \in Nat /\ DOMAIN prefixDenyMap = 1..Len(prefixDenyMap)
  BY DEF AccessTypeInv
<1>3. I \subseteq 1..Len(prefixDenyMap)
  OBVIOUS
<1>4. ASSUME I # {} PROVE Min(I) \in I
  <2>1. I \in SUBSET Nat
    BY <1>2
  <2> HIDE DEF I
  <2>2. \E x \in I : \A y \in I : x <= y
    BY <1>4, <2>1, LeastElement
  <2> QED BY <2>2 DEF Min
<1>5. CASE I # {}
  <2>1. FindParent(prefix) \in I
    BY <1>1, <1>4, <1>5
  <2> QED BY <1>2, <2>1 DEF Parents, Range
<1>6. CASE I = {}
  <2>1. Parents(prefix) = {}
    BY <1>2, <1>6 DEF Parents, Range
  <2> QED BY <1>1, <1>6, <2>1
<1> QED BY <1>5, <1>6

\* The parent of a path depends on the keys only.
LEMMA SameKeysSameParent ==
    ASSUME UNCHANGED prefixDenyMap, NEW prefix
    PROVE  FindParent(prefix)' = FindParent(prefix)
  BY DEF FindParent, SelectInSeq

LEMMA PoliciesPreserved ==
    PoliciesInv /\ AccessTypeInv /\ PathsInv /\ [AccessNext]_accessVars => PoliciesInv'
<1> SUFFICES ASSUME PoliciesInv, AccessTypeInv, PathsInv, [AccessNext]_accessVars PROVE PoliciesInv'
  OBVIOUS
<1>1. CASE UNCHANGED <<prefixDenyMap, rules, allow, deny>> /\ (stage' = stage \/ stage' \notin {"adding", "attached"})
  <2>1. \A acceptor, action : RulesOf(acceptor, action)' = RulesOf(acceptor, action)
    BY <1>1 DEF RulesOf
  <2>2. \A allowed, prefix : DeniedBy(allowed, prefix)' <=> DeniedBy(allowed, prefix)
    BY <1>1, SameKeysSameParent DEF DeniedBy
  <2> QED BY <1>1, <2>1, <2>2 DEF PoliciesInv
<1>2. CASE NextPath
  BY <1>1, <1>2 DEF NextPath
<1>3. ASSUME NEW permission \in Permissions, DuplicateDefinition(permission) PROVE PoliciesInv'
  BY <1>1, <1>3 DEF DuplicateDefinition
<1>4. CASE UNCHANGED accessVars
  BY <1>1, <1>4 DEF accessVars
<1>5. ASSUME NEW permission \in Permissions, AddPermission(permission) PROVE PoliciesInv'
  <2> DEFINE actions == ReplaceRead(permission.actions)
             prefix == PlaceholderSubstitution(storagePaths[at], permission.idSubstitution)
  <2>1. /\ stage = "adding" /\ stage' = "adding"
        /\ allow' = [acceptor \in Acceptors |-> [action \in Actions |->
               IF acceptor \in permission.acceptors /\ action \in actions
               THEN allow[acceptor][action] \union {prefix} ELSE allow[acceptor][action]]]
        /\ prefixDenyMap' = IF actions = {} \/ prefix \in Range(prefixDenyMap)
                            THEN prefixDenyMap ELSE Append(prefixDenyMap, prefix)
        /\ rules' = rules \union ({prefix} \X permission.acceptors \X actions)
    BY <1>5 DEF AddPermission
  <2>2. prefix \in StoragePaths
    <3>1. at \in 1..Len(storagePaths) /\ permission.idSubstitution \in Substitutions
      BY PermissionsAreOfTheirIds DEF PathsInv
    <3> QED BY <2>1, <3>1, PathAtHand, Substituted
  <2> HIDE DEF actions, prefix
  <2>3. Range(prefixDenyMap') = Range(prefixDenyMap) \union (IF actions = {} THEN {} ELSE {prefix})
    <3>1. CASE actions = {} \/ prefix \in Range(prefixDenyMap)
      BY <2>1, <3>1
    <3>2. CASE ~(actions = {} \/ prefix \in Range(prefixDenyMap))
      BY <2>1, <2>2, <3>2, KeyAdded DEF AccessTypeInv
    <3> QED BY <3>1, <3>2
  <2>4. ASSUME NEW acceptor \in Acceptors, NEW action \in Actions
        PROVE  allow'[acceptor][action] = RulesOf(acceptor, action)'
    <3>1. allow[acceptor][action] = RulesOf(acceptor, action)
      BY <2>1 DEF PoliciesInv
    <3>2. \A p : <<p, acceptor, action>> \in rules => p \in Range(prefixDenyMap)
      BY DEF AccessTypeInv, AccessTypeOK
    <3>3. \A p : <<p, acceptor, action>> \in rules' <=>
              \/ <<p, acceptor, action>> \in rules
              \/ p = prefix /\ acceptor \in permission.acceptors /\ action \in actions
      BY <2>1
    <3> QED BY <2>1, <2>3, <3>1, <3>2, <3>3 DEF RulesOf
  <2> QED BY <2>1, <2>4 DEF PoliciesInv
<1>6. CASE AttachPolicies
  <2>1. /\ stage = "adding" /\ stage' # "adding" /\ UNCHANGED <<prefixDenyMap, rules>>
        /\ deny' = [acceptor \in Acceptors |-> [action \in Actions |->
              {prefix \in Range(prefixDenyMap) : Denies(prefix, acceptor, action)}]]
        /\ allow' = [acceptor \in Acceptors |-> [action \in Actions |->
              RemoveSubPathsFromSet(allow[acceptor][action])]]
    BY <1>6 DEF AttachPolicies
  <2>2. ASSUME NEW acceptor \in Acceptors, NEW action \in Actions
        PROVE  /\ allow'[acceptor][action] = RemoveSubPathsFromSet(RulesOf(acceptor, action)')
               /\ deny'[acceptor][action] =
                    {prefix \in Range(prefixDenyMap)' : DeniedBy(RulesOf(acceptor, action), prefix)'}
    <3>1. allow[acceptor][action] = RulesOf(acceptor, action)
      BY <2>1 DEF PoliciesInv
    <3>2. RulesOf(acceptor, action)' = RulesOf(acceptor, action)
      BY <2>1 DEF RulesOf
    <3>3. \A prefix : DeniedBy(RulesOf(acceptor, action), prefix)' <=>
                        DeniedBy(RulesOf(acceptor, action), prefix)
      BY <2>1, <3>2, SameKeysSameParent DEF DeniedBy
    <3>4. \A prefix \in Range(prefixDenyMap) :
              Denies(prefix, acceptor, action) <=> DeniedBy(RulesOf(acceptor, action), prefix)
      <4> SUFFICES ASSUME NEW prefix \in Range(prefixDenyMap), FindParent(prefix) # 0
                   PROVE  <<prefixDenyMap[FindParent(prefix)], acceptor, action>> \in rules
                          <=> prefixDenyMap[FindParent(prefix)] \in RulesOf(acceptor, action)
        BY <3>1 DEF Denies, DeniedBy
      <4>1. prefixDenyMap[FindParent(prefix)] \in Range(prefixDenyMap)
        BY FindParentFinds DEF Parents
      <4> QED BY <4>1 DEF RulesOf
    <3> QED BY <2>1, <3>1, <3>2, <3>3, <3>4
  <2> QED BY <2>1, <2>2 DEF PoliciesInv
<1> QED BY <1>2, <1>3, <1>4, <1>5, <1>6 DEF AccessNext

\* Of two different paths over an object one lies within the other.
LEMMA PathsOverAnObject ==
    ASSUME NEW p \in StoragePaths, NEW q \in StoragePaths, NEW object \in Objects,
           Covers(p, object), Covers(q, object), p # q
    PROVE  Within(p, q) \/ Within(q, p)
<1> DEFINE A == Names \union {entityIdSubstitution}
           named(i) == IF object[i] = "me" THEN entityIdSubstitution ELSE object[i]
<1>1. /\ p \in Seq(A) /\ DOMAIN p = 1..Len(p) /\ Len(p) \in Nat
      /\ q \in Seq(A) /\ DOMAIN q = 1..Len(q) /\ Len(q) \in Nat
  BY PathsAreSequences
<1>2. /\ \A i \in 1..Len(p) : p[i] = named(i)
      /\ \A i \in 1..Len(q) : q[i] = named(i)
  BY <1>1 DEF Covers
<1>3. CASE Len(p) <= Len(q)
  BY <1>1, <1>2, <1>3, PrefixElementwise DEF Within
<1>4. CASE Len(q) <= Len(p)
  BY <1>1, <1>2, <1>4, PrefixElementwise DEF Within
<1> QED BY <1>1, <1>3, <1>4

\* A path over a path over an object is over the object.
LEMMA ParentCovers ==
    ASSUME NEW p \in StoragePaths, NEW q \in StoragePaths, NEW object \in Objects,
           Covers(p, object), Within(p, q)
    PROVE  Covers(q, object)
<1> DEFINE A == Names \union {entityIdSubstitution}
<1>1. /\ p \in Seq(A) /\ DOMAIN p = 1..Len(p) /\ Len(p) \in Nat
      /\ q \in Seq(A) /\ DOMAIN q = 1..Len(q) /\ Len(q) \in Nat
  BY PathsAreSequences
<1>2. Len(q) <= Len(p) /\ \A i \in 1..Len(q) : q[i] = p[i]
  BY <1>1, PrefixElementwise DEF Within
<1>3. Len(object) \in Nat
  <2>1. PICK n \in 1..MaxDepth : object \in [1..n -> Names \union {"me", "you"}]
    BY DEF Objects
  <2>2. object \in Seq(Names \union {"me", "you"})
    BY <2>1, BoundsAssumption
  <2> QED BY <2>2
<1> QED BY <1>1, <1>2, <1>3 DEF Covers

\* What lies within a path within another one lies within that one.
LEMMA WithinTransitive ==
    ASSUME NEW p \in StoragePaths, NEW q \in StoragePaths, NEW r \in StoragePaths,
           Within(p, q), Within(q, r)
    PROVE  Within(p, r) /\ q # r
<1> DEFINE A == Names \union {entityIdSubstitution}
<1>1. /\ p \in Seq(A) /\ Len(p) \in Nat /\ DOMAIN p = 1..Len(p)
      /\ q \in Seq(A) /\ Len(q) \in Nat /\ DOMAIN q = 1..Len(q)
      /\ r \in Seq(A) /\ Len(r) \in Nat /\ DOMAIN r = 1..Len(r)
  BY PathsAreSequences
<1>2. /\ Len(q) <= Len(p) /\ (\A i \in 1..Len(q) : q[i] = p[i]) /\ p # q
      /\ Len(r) <= Len(q) /\ (\A i \in 1..Len(r) : r[i] = q[i]) /\ q # r
  BY <1>1, PrefixElementwise DEF Within
<1>3. Len(r) <= Len(p) /\ \A i \in 1..Len(r) : r[i] = p[i]
  BY <1>1, <1>2
<1>4. Len(q) < Len(p) /\ Len(r) < Len(q)
  BY <1>1, <1>2
<1>5. r # p
  BY <1>1, <1>4
<1> QED BY <1>1, <1>2, <1>3, <1>5, PrefixElementwise DEF Within

\* Where every path has one parent at most, two parents are the same.
LEMMA TheParent ==
    ASSUME AccessTypeInv, AtMostOneParent, NEW prefix \in Range(prefixDenyMap),
           NEW p \in Parents(prefix), NEW q \in Parents(prefix)
    PROVE  p = q
<1>1. IsFiniteSet(Parents(prefix))
  <2> DEFINE n == Len(prefixDenyMap)
             T == Range(prefixDenyMap)
  <2>1. prefixDenyMap \in [1..n -> T] /\ n \in Nat
    BY DEF AccessTypeInv, Range
  <2>2. \A e \in T : \E i \in 1..n : prefixDenyMap[i] = e
    BY <2>1 DEF Range
  <2>3. IsFiniteSet(1..n)
    BY <2>1, FS_Interval
  <2>4. prefixDenyMap \in Surjection(1..n, T)
    BY <2>1, <2>2 DEF Surjection
  <2>5. IsFiniteSet(T)
    BY <2>3, <2>4, FS_Surjection
  <2> QED BY <2>5, FS_Subset DEF Parents
<1>2. Cardinality(Parents(prefix)) <= 1
  BY DEF AtMostOneParent
<1> SUFFICES ASSUME p # q PROVE FALSE
  OBVIOUS
<1>3. IsFiniteSet({p, q}) /\ Cardinality({p, q}) = 2
  <2>1. IsFiniteSet({p}) /\ Cardinality({p}) = 1
    BY FS_Singleton
  <2>2. IsFiniteSet({p} \union {q}) /\ Cardinality({p} \union {q}) = 2
    BY <2>1, FS_AddElement
  <2>3. {p} \union {q} = {p, q}
    OBVIOUS
  <2> QED BY <2>2, <2>3
<1>4. Cardinality({p, q}) <= Cardinality(Parents(prefix))
  BY <1>1, FS_Subset
<1>5. Cardinality(Parents(prefix)) \in Nat
  BY <1>1, FS_CardinalityType
<1> QED BY <1>2, <1>3, <1>4, <1>5

\* The step from the sets to what is granted.  The keys over an object are at most
\* two, one within the other; of them the deeper one decides.
LEMMA PoliciesGrantRules ==
    PoliciesInv /\ AccessTypeInv => DeepestRuleDecides
<1> SUFFICES ASSUME PoliciesInv, AccessTypeInv, stage = "attached", AtMostOneParent,
                    NEW acceptor \in Acceptors, NEW action \in Actions, NEW object \in Objects
             PROVE  Granted(acceptor, action, object) <=> Intended(acceptor, action, object)
  BY DEF DeepestRuleDecides
<1> DEFINE D == Range(prefixDenyMap)
           R == RulesOf(acceptor, action)
           Over == {prefix \in D : Covers(prefix, object)}
<1>1. /\ allow[acceptor][action] = RemoveSubPathsFromSet(R)
      /\ deny[acceptor][action] = {prefix \in D : DeniedBy(R, prefix)}
  BY DEF PoliciesInv
<1>2. D \subseteq StoragePaths /\ R \subseteq D
  BY DEF AccessTypeInv, AccessTypeOK, RulesOf
<1>3. \A p \in D, q \in D : q \in Parents(p) <=> Within(p, q)
  BY DEF Parents
<1>4. \A p \in D : \A q, r \in D : Within(p, q) /\ Within(p, r) => q = r
  BY <1>3, TheParent
<1>5. \A p, q \in Over : p = q \/ Within(p, q) \/ Within(q, p)
  BY <1>2, PathsOverAnObject
<1>6. \A p, q \in D : ~(\E r \in D : Within(p, q) /\ Within(q, r))
  BY <1>2, <1>4, WithinTransitive
<1>7. Granted(acceptor, action, object) <=>
          /\ \E prefix \in RemoveSubPathsFromSet(R) : Covers(prefix, object)
          /\ \A prefix \in D : DeniedBy(R, prefix) => ~Covers(prefix, object)
  BY <1>1 DEF Granted
<1>8. Intended(acceptor, action, object) <=>
          \E prefix \in Over \intersect R :
              \A p \in Over : Within(p, prefix) => OwnerFolderOf(p, prefix)
  BY DEF Intended, RulesOf
<1>9. ASSUME NEW prefix \in D, DeniedBy(R, prefix)
      PROVE  prefix \notin R /\ \E p \in R : Within(prefix, p) /\ ~OwnerFolderOf(prefix, p)
  BY <1>9, FindParentFinds DEF DeniedBy, Parents
<1>10. ASSUME NEW prefix \in D, NEW p \in R, Within(prefix, p), ~OwnerFolderOf(prefix, p),
              prefix \notin R
       PROVE  DeniedBy(R, prefix)
  <2>1. p \in Parents(prefix)
    BY <1>2, <1>3, <1>10
  <2>2. FindParent(prefix) # 0 /\ prefixDenyMap[FindParent(prefix)] \in Parents(prefix)
    BY <2>1, FindParentFinds
  <2>3. prefixDenyMap[FindParent(prefix)] = p
    BY <2>1, <2>2, TheParent
  <2> QED BY <1>10, <2>2, <2>3 DEF DeniedBy
<1> HIDE DEF R, D
<1>11. ASSUME Intended(acceptor, action, object) PROVE Granted(acceptor, action, object)
  <2>1. PICK prefix \in Over \intersect R :
            \A p \in Over : Within(p, prefix) => OwnerFolderOf(p, prefix)
    BY <1>8, <1>11
  <2>2. \E p \in RemoveSubPathsFromSet(R) : Covers(p, object)
    <3>1. CASE \A p \in R : ~Within(prefix, p)
      BY <2>1, <3>1 DEF RemoveSubPathsFromSet
    <3>2. ASSUME NEW p \in R, Within(prefix, p) PROVE \E q \in RemoveSubPathsFromSet(R) : Covers(q, object)
      <4>1. Covers(p, object)
        BY <1>2, <2>1, <3>2, ParentCovers
      <4>2. \A q \in R : ~Within(p, q)
        BY <1>2, <1>6, <2>1, <3>2
      <4> QED BY <3>2, <4>1, <4>2 DEF RemoveSubPathsFromSet
    <3> QED BY <3>1, <3>2
  <2>3. ASSUME NEW d \in D, DeniedBy(R, d), Covers(d, object) PROVE FALSE
    <3>1. PICK p \in R : Within(d, p) /\ ~OwnerFolderOf(d, p)
      BY <1>9, <2>3
    <3>2. d \notin R /\ d \in Over
      BY <1>9, <2>3
    <3>3. CASE Within(d, prefix)
      BY <1>2, <1>4, <2>1, <3>1, <3>2, <3>3
    <3>4. CASE Within(prefix, d)
      BY <1>2, <1>6, <2>1, <3>1, <3>2, <3>4
    <3> QED BY <1>5, <2>1, <3>2, <3>3, <3>4
  <2> QED BY <1>7, <2>2, <2>3
<1>12. ASSUME Granted(acceptor, action, object) PROVE Intended(acceptor, action, object)
  <2>1. PICK prefix \in RemoveSubPathsFromSet(R) : Covers(prefix, object)
    BY <1>7, <1>12
  <2>2. prefix \in R /\ prefix \in Over
    BY <1>2, <2>1 DEF RemoveSubPathsFromSet
  <2>3. CASE \A p \in Over : Within(p, prefix) => OwnerFolderOf(p, prefix)
    BY <1>8, <2>2, <2>3
  <2>4. ASSUME NEW d \in Over, Within(d, prefix), ~OwnerFolderOf(d, prefix)
        PROVE  Intended(acceptor, action, object)
    <3>1. d \in R
      BY <1>7, <1>10, <1>12, <2>2, <2>4
    <3>2. \A p \in Over : ~Within(p, d)
      BY <1>2, <1>6, <2>2, <2>4
    <3> QED BY <1>8, <2>4, <3>1, <3>2
  <2> QED BY <2>3, <2>4
<1> QED BY <1>11, <1>12

\* "denies parent actions on a subpath by default": for every set of valid paths
\* and rules, in every order, the attached policies grant exactly what the deepest
\* rule over an object says, as long as findParent has one parent to find.
THEOREM PoliciesCorrect == AccessSpec => []DeepestRuleDecides
<1>1. AccessInit => PoliciesInv /\ AccessTypeInv /\ PathsInv
  <2> SUFFICES ASSUME AccessInit PROVE PoliciesInv
    BY TypeInitial, PathsInitial
  <2>1. allow = Nothing /\ rules = {} /\ stage # "attached"
    BY DEF AccessInit
  <2> QED BY <2>1 DEF PoliciesInv, RulesOf, Nothing
<1>2. (PoliciesInv /\ AccessTypeInv /\ PathsInv) /\ [AccessNext]_accessVars
      => (PoliciesInv /\ AccessTypeInv /\ PathsInv)'
  BY PoliciesPreserved, TypePreserved, PathsPreserved
<1> QED BY <1>1, <1>2, PoliciesGrantRules, PTL DEF AccessSpec

-----------------------------------------------------------------------------
(* No output is declared twice. *)

\* A strategy in which nothing went wrong: its metadata name outputs that it has.
Sound(st) ==
    /\ st = [metadata |-> st.metadata, outputs |-> st.outputs, list |-> st.list, fault |-> FALSE]
    /\ \A key \in DOMAIN st.metadata : st.metadata[key] \subseteq st.outputs

LEMMA MetadataAdded ==
    ASSUME NEW st, Sound(st), NEW key, NEW names
    PROVE  LET metadata == WithMetadata(st, key, names)
           IN  /\ DOMAIN metadata = DOMAIN st.metadata \union {key}
               /\ \A k \in DOMAIN metadata : metadata[k] \subseteq st.outputs \union names
  BY DEF WithMetadata, Sound

LEMMA EntryAdded ==
    ASSUME NEW st, Sound(st), NEW key, NEW names, st.outputs \intersect names = {}
    PROVE  LET more == AddBackendOutputEntry(st, key, names)
           IN  /\ Sound(more) /\ more.outputs = st.outputs \union names
               /\ DOMAIN more.metadata = DOMAIN st.metadata \union {key}
               /\ more.metadata = WithMetadata(st, key, names) /\ more.list = st.list
<1> DEFINE more == AddBackendOutputEntry(st, key, names)
           metadata == WithMetadata(st, key, names)
<1>1. /\ DOMAIN metadata = DOMAIN st.metadata \union {key}
      /\ \A k \in DOMAIN metadata : metadata[k] \subseteq st.outputs \union names
  BY MetadataAdded
<1> HIDE DEF metadata
<1>2. more = [st EXCEPT !.metadata = metadata, !.outputs = @ \union names,
                        !.fault = @ \/ st.outputs \intersect names # {}]
  BY DEF AddBackendOutputEntry, metadata
<1>3. more = [metadata |-> metadata, outputs |-> st.outputs \union names, list |-> st.list,
              fault |-> FALSE]
  <2>1. PICK m, o, l : st = [metadata |-> m, outputs |-> o, list |-> l, fault |-> FALSE]
    BY DEF Sound
  <2>2. (st.fault \/ st.outputs \intersect names # {}) = FALSE
    BY <2>1
  <2> HIDE DEF more
  <2> QED BY <1>2, <2>1, <2>2
<1> HIDE DEF more
<1>4. more.metadata = metadata /\ more.outputs = st.outputs \union names /\ more.list = st.list
  BY <1>3
<1> QED BY <1>1, <1>3, <1>4 DEF Sound, more, metadata

LEMMA ListRecord ==
    ASSUME NEW st, Sound(st), NEW key, NEW name, NEW value
    PROVE  AppendToBackendOutputList(st, key, name, value)
           = [metadata |-> WithMetadata(st, key, {name}), outputs |-> st.outputs \union {name},
              list |-> Append(st.list, value), fault |-> FALSE]
<1> DEFINE more == AppendToBackendOutputList(st, key, name, value)
           metadata == WithMetadata(st, key, {name})
<1> HIDE DEF metadata
<1>1. more = [st EXCEPT !.metadata = metadata, !.outputs = @ \union {name},
                        !.list = Append(@, value)]
  BY DEF AppendToBackendOutputList, metadata
<1>2. more = [metadata |-> metadata, outputs |-> st.outputs \union {name},
              list |-> Append(st.list, value), fault |-> FALSE]
  <2>1. PICK m, o, l : st = [metadata |-> m, outputs |-> o, list |-> l, fault |-> FALSE]
    BY DEF Sound
  <2> HIDE DEF more
  <2> QED BY <1>1, <2>1
<1> QED BY <1>2 DEF metadata

LEMMA ListAppended ==
    ASSUME NEW st, Sound(st), NEW key, NEW name, NEW value
    PROVE  LET more == AppendToBackendOutputList(st, key, name, value)
           IN  /\ Sound(more) /\ more.outputs = st.outputs \union {name}
               /\ DOMAIN more.metadata = DOMAIN st.metadata \union {key}
<1> DEFINE more == AppendToBackendOutputList(st, key, name, value)
           metadata == WithMetadata(st, key, {name})
<1>1. /\ DOMAIN metadata = DOMAIN st.metadata \union {key}
      /\ \A k \in DOMAIN metadata : metadata[k] \subseteq st.outputs \union {name}
  BY MetadataAdded
<1>2. more = [metadata |-> metadata, outputs |-> st.outputs \union {name},
              list |-> Append(st.list, value), fault |-> FALSE]
  BY ListRecord
<1> HIDE DEF more, metadata
<1>3. /\ more.metadata = metadata /\ more.outputs = st.outputs \union {name}
      /\ more.list = Append(st.list, value)
  BY <1>2
<1> QED BY <1>1, <1>2, <1>3 DEF Sound, more

AuthNames ==
    {"userPoolId", "webClientId", "identityPoolId", "authRegion", "allowUnauthenticatedIdentities",
     "signupAttributes", "usernameAttributes", "verificationMechanisms", "passwordPolicyMinLength",
     "passwordPolicyRequirements", "mfaConfiguration", "mfaTypes", "socialProviders",
     "oauthCognitoDomain", "oauthScope", "oauthRedirectSignIn", "oauthRedirectSignOut",
     "oauthResponseType", "oauthClientId", "groups"}
DefaultNames == {"storageRegion", "bucketName"}
StorageNames == DefaultNames \union {"buckets"}

BucketSet == [name : STRING, isDefault : BOOLEAN]

\* The outputs of custom parts are there with their entry, those of storage when
\* the aspect has stored them.
DeclaredInv ==
    /\ Sound(strategy) /\ synthesis # "fault"
    /\ strategy.outputs \subseteq PlatformOutputNames \union AuthNames \union StorageNames
                                  \union {"customOutputs"}
    /\ synthesis = "new" => strategy.outputs = {}
    /\ "customOutputs" \in strategy.outputs => "custom" \in DOMAIN strategy.metadata
    /\ strategy.outputs \intersect StorageNames # {} => isStorageProcessed
    /\ buckets \in Seq(BucketSet)

\* The function that StoreStorageOutputs defines.
StoresBuckets(f, n, st) == f = [i \in 0..n |-> IF i = 0 THEN st ELSE StoreBucket(f[i - 1], i)]

LEMMA StoresExists ==
    ASSUME NEW st, NEW n \in Nat
    PROVE  \E f : StoresBuckets(f, n, st)
<1> DEFINE T == {m \in 0..n : \E f : StoresBuckets(f, m, st)}
<1>1. 0 \in T
  <2> DEFINE f == [i \in 0..0 |-> st]
  <2>1. StoresBuckets(f, 0, st)
    BY DEF StoresBuckets
  <2> HIDE DEF f
  <2> QED BY <2>1
<1>2. ASSUME NEW m \in 0..(n - 1), m \in T PROVE m + 1 \in T
  <2>1. PICK f : StoresBuckets(f, m, st)
    BY <1>2
  <2> DEFINE next == StoreBucket(f[m], m + 1)
             g == [i \in 0..(m + 1) |-> IF i = m + 1 THEN next ELSE f[i]]
  <2>2. \A i \in 0..m : f[i] = IF i = 0 THEN st ELSE StoreBucket(f[i - 1], i)
    BY <2>1 DEF StoresBuckets
  <2> HIDE DEF next
  <2>3. g[m + 1] = next /\ (\A i \in 0..m : g[i] = f[i]) /\ g = [i \in 0..(m + 1) |-> g[i]]
    OBVIOUS
  <2> HIDE DEF g
  <2>4. \A i \in 0..(m + 1) : g[i] = IF i = 0 THEN st ELSE StoreBucket(g[i - 1], i)
    <3> SUFFICES ASSUME NEW i \in 0..(m + 1)
                 PROVE  g[i] = IF i = 0 THEN st ELSE StoreBucket(g[i - 1], i)
      OBVIOUS
    <3>1. CASE i = m + 1
      <4>1. i # 0 /\ i - 1 = m /\ m \in 0..m
        BY <3>1
      <4> QED BY <2>3, <3>1, <4>1 DEF next
    <3>2. CASE i # m + 1
      <4>1. i \in 0..m /\ (i # 0 => i - 1 \in 0..m)
        BY <3>2
      <4> QED BY <2>2, <2>3, <4>1
    <3> QED BY <3>1, <3>2
  <2>5. StoresBuckets(g, m + 1, st)
    BY <2>3, <2>4 DEF StoresBuckets
  <2> QED BY <2>5
<1> HIDE DEF T
<1>3. \A m \in 0..n : m \in T
  BY <1>1, <1>2, InductionUpTo
<1>4. n \in T
  BY <1>3
<1> QED BY <1>4 DEF T

\* No more than one bucket is the default, when the aspect finds no fault with them.
LEMMA OneDefault ==
    ASSUME buckets \in Seq(BucketSet), ~(Cardinality(Defaults) > 1),
           NEW i \in 1..Len(buckets), NEW j \in 1..Len(buckets), IsDefault(i), IsDefault(j)
    PROVE  i = j
<1> SUFFICES ASSUME i # j PROVE FALSE
  OBVIOUS
<1>1. Len(buckets) \in Nat /\ Len(buckets) # 1 /\ DOMAIN buckets = 1..Len(buckets)
  <2>1. Len(buckets) \in Nat /\ DOMAIN buckets = 1..Len(buckets)
    OBVIOUS
  <2>2. Len(buckets) # 1
    BY <2>1
  <2> QED BY <2>1, <2>2
<1>2. i \in Defaults /\ j \in Defaults
  BY <1>1 DEF IsDefault, Defaults
<1>3. IsFiniteSet(Defaults)
  <2>1. IsFiniteSet(1..Len(buckets))
    BY <1>1, FS_Interval
  <2>2. Defaults \subseteq 1..Len(buckets)
    BY <1>1 DEF Defaults
  <2> QED BY <2>1, <2>2, FS_Subset
<1>4. Cardinality({i, j}) = 2
  <2>1. IsFiniteSet({i}) /\ Cardinality({i}) = 1
    BY FS_Singleton
  <2>2. Cardinality({i} \union {j}) = Cardinality({i}) + 1
    BY <2>1, FS_AddElement
  <2>3. {i} \union {j} = {i, j}
    OBVIOUS
  <2>4. Cardinality({i, j}) = Cardinality({i}) + 1
    BY <2>2, <2>3, Zenon
  <2>5. Cardinality({i}) = 1
    BY <2>1, Zenon
  <2> DEFINE single == Cardinality({i})
             both == Cardinality({i, j})
  <2>6. both = single + 1 /\ single = 1
    BY <2>4, <2>5
  <2> HIDE DEF single, both
  <2>7. both = 2
    BY <2>6
  <2> QED BY <2>7 DEF both
<1>5. Cardinality({i, j}) <= Cardinality(Defaults)
  <2> DEFINE pair == {i, j}
  <2>1. pair \in SUBSET Defaults
    BY <1>2
  <2> HIDE DEF pair
  <2>2. Cardinality(pair) <= Cardinality(Defaults)
    BY <1>3, <2>1, FS_Subset
  <2> QED BY <2>2 DEF pair
<1>6. Cardinality(Defaults) \in Nat
  BY <1>3, FS_CardinalityType
<1> QED BY <1>4, <1>5, <1>6

\* After every bucket no name has been used twice.
SoundAfter(f, k, st) ==
    /\ Sound(f[k])
    /\ f[k].outputs \subseteq st.outputs \union StorageNames
    /\ DOMAIN st.metadata \subseteq DOMAIN f[k].metadata
    /\ f[k].outputs \intersect DefaultNames # {} => \E i \in 1..k : IsDefault(i)

LEMMA StoringSteps ==
    ASSUME buckets \in Seq(BucketSet), ~(Cardinality(Defaults) > 1),
           NEW st, Sound(st), st.outputs \intersect StorageNames = {}
    PROVE  \E f : /\ StoreStorageOutputs(st) = f[Len(buckets)]
                  /\ StoresBuckets(f, Len(buckets), st)
                  /\ \A k \in 0..Len(buckets) : SoundAfter(f, k, st)
                  /\ \A k \in 1..Len(buckets) :
                        IsDefault(k) => Sound(f[k - 1]) /\ f[k - 1].outputs \intersect DefaultNames = {}
<1> DEFINE n == Len(buckets)
<1>1. n \in Nat
  OBVIOUS
<1>2. PICK f : StoresBuckets(f, n, st) /\ StoreStorageOutputs(st) = f[n]
  <2>1. \E f : f = [i \in 0..Len(buckets) |-> IF i = 0 THEN st ELSE StoreBucket(f[i - 1], i)]
    <3>1. \E f : StoresBuckets(f, n, st)
      <4> HIDE DEF n
      <4> QED BY <1>1, StoresExists
    <3> QED BY <3>1 DEF StoresBuckets
  <2> DEFINE stored == CHOOSE f :
                 f = [i \in 0..Len(buckets) |-> IF i = 0 THEN st ELSE StoreBucket(f[i - 1], i)]
  <2>2. StoresBuckets(stored, n, st)
    BY <2>1 DEF StoresBuckets
  <2>3. StoreStorageOutputs(st) = stored[n]
    BY DEF StoreStorageOutputs
  <2> HIDE DEF stored
  <2> QED BY <2>2, <2>3
<1> DEFINE Holds(k) == SoundAfter(f, k, st)
           T == {k \in 0..n : Holds(k)}
<1>3. 0 \in T
  <2>1. f[0] = st
    BY <1>1, <1>2 DEF StoresBuckets
  <2>2. Holds(0)
    BY <2>1 DEF StorageNames, SoundAfter
  <2> HIDE DEF Holds, n
  <2> QED BY <1>1, <2>2
<1>4. ASSUME NEW m \in 0..(n - 1), m \in T PROVE m + 1 \in T
  <2> DEFINE i == m + 1
  <2>1. i \in 1..n /\ i \in 0..n /\ i # 0 /\ i - 1 = m /\ i \in 1..i /\ \A j \in 1..m : j \in 1..i /\ j # i
    BY <1>1
  <2>2. f[i] = StoreBucket(f[m], i)
    <3> HIDE DEF i, n
    <3>1. \A k \in 0..n : f[k] = IF k = 0 THEN st ELSE StoreBucket(f[k - 1], k)
      BY <1>2 DEF StoresBuckets
    <3> QED BY <2>1, <3>1
  <2>3. Holds(m)
    BY <1>4
  <2> DEFINE entry == IF IsDefault(i) THEN AddBackendOutputEntry(f[m], "storage", DefaultNames)
                      ELSE f[m]
  <2>4. f[i] = AppendToBackendOutputList(entry, "storage", "buckets",
                                         <<buckets[i].name, buckets[i].name \in WithAccess>>)
    BY <2>2 DEF StoreBucket, DefaultNames
  <2> HIDE DEF i, n, Holds, T
  <2>5. /\ Sound(entry) /\ entry.outputs \subseteq f[m].outputs \union DefaultNames
        /\ DOMAIN f[m].metadata \subseteq DOMAIN entry.metadata
        /\ ~IsDefault(i) => entry.outputs = f[m].outputs
    <3>1. CASE IsDefault(i)
      <4>1. \A j \in 1..m : ~IsDefault(j)
        <5>1. \A j \in 1..m : j \in 1..Len(buckets) /\ j # i
          BY <1>1, <2>1 DEF n
        <5>2. i \in 1..Len(buckets)
          BY <2>1 DEF n
        <5> QED BY <3>1, <5>1, <5>2, OneDefault
      <4>2. f[m].outputs \intersect DefaultNames = {} /\ Sound(f[m])
        BY <2>3, <4>1 DEF Holds, SoundAfter
      <4> QED BY <3>1, <4>2, EntryAdded
    <3>2. CASE ~IsDefault(i)
      BY <2>3, <3>2 DEF Holds, SoundAfter
    <3> QED BY <3>1, <3>2
  <2> HIDE DEF entry
  <2>6. /\ Sound(f[i]) /\ f[i].outputs = entry.outputs \union {"buckets"}
        /\ DOMAIN f[i].metadata = DOMAIN entry.metadata \union {"storage"}
    BY <2>4, <2>5, ListAppended
  <2>7. f[i].outputs \subseteq st.outputs \union StorageNames
        /\ DOMAIN st.metadata \subseteq DOMAIN f[i].metadata
    BY <2>3, <2>5, <2>6 DEF Holds, SoundAfter, StorageNames
  <2>8. f[i].outputs \intersect DefaultNames # {} => \E j \in 1..i : IsDefault(j)
    <3>1. CASE IsDefault(i)
      BY <2>1, <3>1
    <3>2. CASE ~IsDefault(i)
      BY <2>1, <2>3, <2>5, <2>6, <3>2 DEF Holds, SoundAfter, DefaultNames
    <3> QED BY <3>1, <3>2
  <2>9. i \in T
    BY <2>1, <2>6, <2>7, <2>8 DEF Holds, SoundAfter, T
  <2> QED BY <2>9 DEF i
<1> HIDE DEF T
<1>5. \A m \in 0..n : m \in T
  BY <1>1, <1>3, <1>4, InductionUpTo
<1>6. \A k \in 0..n : SoundAfter(f, k, st)
  BY <1>5 DEF T
<1>7. ASSUME NEW k \in 1..n, IsDefault(k)
      PROVE  Sound(f[k - 1]) /\ f[k - 1].outputs \intersect DefaultNames = {}
  <2>1. k - 1 \in 0..n /\ \A j \in 1..(k - 1) : j \in 1..n /\ j # k
    BY <1>1
  <2>2. \A j \in 1..(k - 1) : ~IsDefault(j)
    BY <1>7, <2>1, OneDefault
  <2> QED BY <1>6, <2>1, <2>2 DEF SoundAfter
<1> QED BY <1>2, <1>6, <1>7

\* The outputs of all buckets are stored without a name used twice.
LEMMA StoringIsSound ==
    ASSUME buckets \in Seq(BucketSet), ~(Cardinality(Defaults) > 1),
           NEW st, Sound(st), st.outputs \intersect StorageNames = {}
    PROVE  /\ Sound(StoreStorageOutputs(st))
           /\ StoreStorageOutputs(st).outputs \subseteq st.outputs \union StorageNames
           /\ DOMAIN st.metadata \subseteq DOMAIN StoreStorageOutputs(st).metadata
<1>1. PICK f : /\ StoreStorageOutputs(st) = f[Len(buckets)]
               /\ \A k \in 0..Len(buckets) : SoundAfter(f, k, st)
  BY StoringSteps
<1>2. Len(buckets) \in 0..Len(buckets)
  <2>1. Len(buckets) \in Nat
    OBVIOUS
  <2> QED BY <2>1
<1> QED BY <1>1, <1>2 DEF SoundAfter

LEMMA AuthPayloadNames ==
    ASSUME NEW p
    PROVE  DOMAIN AuthPayload(p) = AuthNames
  BY DEF AuthPayload, AuthNames

\* What a definition declares, before the storage aspect and custom outputs.
LEMMA DefinitionDeclares == DeclaredInv /\ DefineBackend => DeclaredInv'
<1> SUFFICES ASSUME DeclaredInv, DefineBackend PROVE DeclaredInv'
  OBVIOUS
<1> DEFINE platform == AddBackendOutputEntry(strategy, "platform", PlatformOutputNames)
<1>1. Sound(platform) /\ platform.outputs = PlatformOutputNames
  <2>1. Sound(strategy) /\ strategy.outputs = {}
    BY DEF DeclaredInv, DefineBackend
  <2> HIDE DEF platform
  <2>2. strategy.outputs \intersect PlatformOutputNames = {}
    BY <2>1
  <2>3. Sound(platform) /\ platform.outputs = strategy.outputs \union PlatformOutputNames
    <3>1. Sound(strategy)
      BY <2>1
    <3> QED BY <2>2, <3>1, EntryAdded DEF platform
  <2> QED BY <2>1, <2>3
<1>2. PICK definition \in Definitions :
          LET auths == definition.auths
              refused == \E props \in auths : PoolRefused(props) \/ ExternalRefused(props.external)
          IN  IF refused THEN synthesis' = "refused" /\ UNCHANGED <<pool, buckets, strategy>>
              ELSE /\ synthesis' = "defined"
                   /\ buckets' = definition.buckets
                   /\ strategy' = IF auths = {} THEN platform
                                  ELSE AddBackendOutputEntry(platform, "auth",
                                                             DOMAIN AuthPayload(pool'))
  BY DEF DefineBackend
<1>3. UNCHANGED isStorageProcessed
  BY DEF DefineBackend
<1> HIDE DEF platform
<1>4. CASE synthesis' = "refused" /\ UNCHANGED <<buckets, strategy>>
  BY <1>3, <1>4 DEF DeclaredInv
<1>5. CASE /\ synthesis' = "defined" /\ buckets' = definition.buckets
           /\ strategy' = platform \/ strategy' = AddBackendOutputEntry(platform, "auth",
                                                      DOMAIN AuthPayload(pool'))
  <2>1. definition.buckets \in Seq(BucketSet)
    BY DefinitionsAssumption DEF BucketSet
  <2>2. /\ Sound(strategy')
        /\ strategy'.outputs \subseteq PlatformOutputNames \union AuthNames
    <3>1. CASE strategy' = platform
      BY <1>1, <3>1
    <3>2. CASE strategy' = AddBackendOutputEntry(platform, "auth", DOMAIN AuthPayload(pool'))
      <4>1. DOMAIN AuthPayload(pool') = AuthNames
        BY AuthPayloadNames
      <4>2. platform.outputs \intersect AuthNames = {}
        BY <1>1 DEF PlatformOutputNames, AuthNames
      <4> QED BY <1>1, <3>2, <4>1, <4>2, EntryAdded
    <3> QED BY <1>5, <3>1, <3>2
  <2>3. \A name \in PlatformOutputNames \union AuthNames :
            name # "customOutputs" /\ name \notin StorageNames
    BY DEF PlatformOutputNames, AuthNames, StorageNames, DefaultNames
  <2> QED BY <1>5, <2>1, <2>2, <2>3 DEF DeclaredInv
<1> QED BY <1>2, <1>4, <1>5

LEMMA CustomPartDeclares ==
    ASSUME NEW part \in CustomParts, DeclaredInv, AddOutput(part)
    PROVE  DeclaredInv'
<1>1. /\ synthesis = "defined" /\ synthesis' \in {"refused", "defined"}
      /\ UNCHANGED <<buckets, isStorageProcessed>>
      /\ \/ UNCHANGED strategy
         \/ /\ "custom" \notin DOMAIN strategy.metadata
            /\ strategy' = AddBackendOutputEntry(strategy, "custom", {"customOutputs"})
  BY DEF AddOutput
<1>2. CASE UNCHANGED strategy
  BY <1>1, <1>2 DEF DeclaredInv
<1>3. CASE /\ "custom" \notin DOMAIN strategy.metadata
           /\ strategy' = AddBackendOutputEntry(strategy, "custom", {"customOutputs"})
  <2>1. Sound(strategy) /\ strategy.outputs \intersect {"customOutputs"} = {}
    BY <1>3 DEF DeclaredInv
  <2>2. /\ Sound(strategy') /\ strategy'.outputs = strategy.outputs \union {"customOutputs"}
        /\ "custom" \in DOMAIN strategy'.metadata
    BY <1>3, <2>1, EntryAdded
  <2>3. "customOutputs" \notin StorageNames
    BY DEF StorageNames, DefaultNames
  <2> QED BY <1>1, <2>2, <2>3 DEF DeclaredInv
<1> QED BY <1>1, <1>2, <1>3

LEMMA VisitDeclares == DeclaredInv /\ Visit => DeclaredInv'
<1> SUFFICES ASSUME DeclaredInv, Visit PROVE DeclaredInv'
  OBVIOUS
<1>1. synthesis \in {"defined", "visiting"} /\ UNCHANGED buckets /\ isStorageProcessed' = TRUE
  BY DEF Visit
<1>2. CASE UNCHANGED strategy /\ synthesis' # "fault" /\ synthesis' # "new"
  BY <1>1, <1>2 DEF DeclaredInv
<1>3. CASE /\ ~isStorageProcessed /\ ~(Cardinality(Defaults) > 1)
           /\ strategy' = StoreStorageOutputs(strategy)
           /\ synthesis' = IF strategy'.fault THEN "fault" ELSE "visiting"
  <2> DEFINE new == StoreStorageOutputs(strategy)
  <2>1. /\ Sound(new) /\ new.outputs \subseteq strategy.outputs \union StorageNames
        /\ DOMAIN strategy.metadata \subseteq DOMAIN new.metadata
    <3>1. strategy.outputs \intersect StorageNames = {} /\ Sound(strategy) /\ buckets \in Seq(BucketSet)
      BY <1>3 DEF DeclaredInv
    <3> QED BY <1>3, <3>1, StoringIsSound
  <2> HIDE DEF new
  <2>2. strategy' = new
    BY <1>3 DEF new
  <2>3. new.fault = FALSE
    BY <2>1 DEF Sound
  <2>4. synthesis' = "visiting"
    BY <1>3, <2>2, <2>3
  <2>5. "customOutputs" \notin StorageNames
    BY DEF StorageNames, DefaultNames
  <2> QED BY <1>1, <2>1, <2>2, <2>4, <2>5 DEF DeclaredInv
<1> QED BY <1>1, <1>2, <1>3 DEF Visit

LEMMA DeclaredPreserved == DeclaredInv /\ [OutputsNext]_outputsVars => DeclaredInv'
<1> SUFFICES ASSUME DeclaredInv, [OutputsNext]_outputsVars PROVE DeclaredInv'
  OBVIOUS
<1>1. CASE DefineBackend
  BY <1>1, DefinitionDeclares
<1>2. ASSUME NEW part \in CustomParts, AddOutput(part) PROVE DeclaredInv'
  BY <1>2, CustomPartDeclares
<1>3. CASE Visit
  BY <1>3, VisitDeclares
<1>4. ASSUME NEW what \in Overrides, Override(what) PROVE DeclaredInv'
  BY <1>4 DEF Override, DeclaredInv
<1>5. CASE Synthesize
  BY <1>5 DEF Synthesize, DeclaredInv
<1>6. ASSUME NEW minor \in MinorVersions, GenerateClientConfig(minor) PROVE DeclaredInv'
  <2>1. /\ synthesis = "synthesized" /\ synthesis' \in {"refused", "configured"}
        /\ UNCHANGED <<strategy, buckets, isStorageProcessed>>
    BY <1>6 DEF GenerateClientConfig
  <2> QED BY <2>1 DEF DeclaredInv
<1>7. CASE UNCHANGED outputsVars
  BY <1>7 DEF outputsVars, DeclaredInv
<1> QED BY <1>1, <1>2, <1>3, <1>4, <1>5, <1>6, <1>7 DEF OutputsNext

LEMMA DeclaredInitially ==
    ASSUME strategy = NewStrategy, synthesis \in {"new", "refused"}, buckets = <<>>
    PROVE  DeclaredInv
<1>1. DOMAIN NewStrategy.metadata = {}
  <2>1. DOMAIN Config({}) = {}
    BY DEF Config
  <2> QED BY <2>1 DEF NewStrategy
<1>2. Sound(NewStrategy) /\ NewStrategy.outputs = {}
  BY <1>1 DEF NewStrategy, Sound
<1>3. buckets \in Seq(BucketSet)
  OBVIOUS
<1> QED BY <1>2, <1>3 DEF DeclaredInv

\* "storing the same outputs multiple times result in error" (StorageOutputsAspect):
\* whatever the definitions, however many buckets the aspect visits and however often
\* the program adds outputs, no output of the stack is declared twice.
THEOREM DeclaredOnce == OutputsSpec => []NoOutputTwice
<1>1. OutputsInit => DeclaredInv
  BY DeclaredInitially DEF OutputsInit
<1>2. DeclaredInv => NoOutputTwice
  BY DEF DeclaredInv, Sound, NoOutputTwice
<1> QED BY <1>1, <1>2, DeclaredPreserved, PTL DEF OutputsSpec

-----------------------------------------------------------------------------
(* Types *)

OutputsTypeInv ==
    /\ OutputsTypeOK
    /\ parts \in Seq(CustomParts)
    /\ synthesis = "new" => visited = 0

LEMMA OutputsTypesPreserved ==
    OutputsTypeInv /\ DeclaredInv /\ [OutputsNext]_outputsVars => OutputsTypeInv'
<1> SUFFICES ASSUME OutputsTypeInv, DeclaredInv, [OutputsNext]_outputsVars PROVE OutputsTypeInv'
  OBVIOUS
<1> USE DEF OutputsTypeInv, OutputsTypeOK
<1>1. DeclaredInv'
  BY DeclaredPreserved
<1>2. \A key \in DOMAIN strategy'.metadata : strategy'.metadata[key] \subseteq strategy'.outputs
  BY <1>1 DEF DeclaredInv, Sound
<1>3. \A i \in DOMAIN buckets' : buckets'[i].isDefault \in BOOLEAN
  <2>1. buckets' \in Seq(BucketSet)
    BY <1>1 DEF DeclaredInv
  <2>2. \A i \in DOMAIN buckets' : buckets'[i] \in BucketSet
    BY <2>1
  <2> QED BY <2>2 DEF BucketSet
<1>4. Len(buckets) \in Nat /\ Len(buckets') \in Nat
  <2>1. buckets \in Seq(BucketSet) /\ buckets' \in Seq(BucketSet)
    BY <1>1 DEF DeclaredInv
  <2> QED BY <2>1
<1>5. CASE DefineBackend
  <2>1. /\ synthesis' \in {"refused", "defined"}
        /\ UNCHANGED <<statements, visited, isStorageProcessed, parts, asked>>
    BY <1>5 DEF DefineBackend
  <2>2. visited' \in 0..Len(buckets')
    <3>1. visited = 0
      <4>1. synthesis = "new"
        BY <1>5 DEF DefineBackend
      <4> QED BY <4>1
    <3> QED BY <1>4, <2>1, <3>1
  <2> QED BY <1>2, <1>3, <2>1, <2>2
<1>6. ASSUME NEW part \in CustomParts, AddOutput(part) PROVE OutputsTypeInv'
  <2>1. /\ synthesis' \in {"refused", "defined"} /\ statements < MaxStatements
        /\ statements' = statements + 1
        /\ UNCHANGED parts \/ parts' = Append(parts, part)
        /\ UNCHANGED <<buckets, visited, isStorageProcessed, asked>>
    BY <1>6 DEF AddOutput
  <2>2. parts' \in Seq(CustomParts) /\ Range(parts') \subseteq CustomParts
    <3>1. Append(parts, part) \in Seq(CustomParts)
          /\ Range(Append(parts, part)) = Range(parts) \union {part}
      BY KeyAdded
    <3> QED BY <2>1, <3>1
  <2>3. statements' \in 0..MaxStatements
    BY <2>1, MaxStatementsAssumption
  <2> QED BY <1>2, <1>3, <2>1, <2>2, <2>3
<1>7. CASE Visit
  <2>1. /\ synthesis' \in {"refused", "defined", "visiting", "fault"} /\ isStorageProcessed' = TRUE
        /\ visited < Len(buckets) /\ visited' = visited + 1
        /\ UNCHANGED <<statements, buckets, parts, asked>>
    BY <1>7 DEF Visit
  <2>2. visited' \in 0..Len(buckets')
    BY <1>4, <2>1
  <2> QED BY <1>2, <1>3, <2>1, <2>2
<1>8. ASSUME NEW what \in Overrides, Override(what) PROVE OutputsTypeInv'
  <2>1. /\ synthesis = "defined" /\ statements < MaxStatements /\ statements' = statements + 1
        /\ UNCHANGED <<synthesis, buckets, visited, isStorageProcessed, parts, asked>>
    BY <1>8 DEF Override
  <2>2. statements' \in 0..MaxStatements
    BY <2>1, MaxStatementsAssumption
  <2> QED BY <1>2, <1>3, <2>1, <2>2
<1>9. CASE Synthesize
  BY <1>2, <1>3, <1>9 DEF Synthesize
<1>10. ASSUME NEW minor \in MinorVersions, GenerateClientConfig(minor) PROVE OutputsTypeInv'
  <2>1. /\ synthesis' \in {"refused", "configured"} /\ asked' = minor
        /\ UNCHANGED <<statements, buckets, visited, isStorageProcessed, parts>>
    BY <1>10 DEF GenerateClientConfig
  <2> QED BY <1>2, <1>3, <2>1
<1>11. CASE UNCHANGED outputsVars
  BY <1>2, <1>3, <1>11 DEF outputsVars
<1> QED BY <1>5, <1>6, <1>7, <1>8, <1>9, <1>10, <1>11 DEF OutputsNext

LEMMA OutputsTypesInitially ==
    OutputsInit \/ OutputsIdle => OutputsTypeInv /\ DeclaredInv
<1> SUFFICES ASSUME OutputsInit \/ OutputsIdle PROVE OutputsTypeInv /\ DeclaredInv
  OBVIOUS
<1>1. /\ strategy = NewStrategy /\ synthesis \in {"new", "refused"} /\ buckets = <<>>
      /\ statements = 0 /\ visited = 0 /\ isStorageProcessed = FALSE /\ parts = <<>> /\ asked = 0
  BY DEF OutputsInit, OutputsIdle
<1>2. DeclaredInv
  BY <1>1, DeclaredInitially
<1>3. Range(<<>>) = {} /\ Len(<<>>) = 0 /\ DOMAIN <<>> = {} /\ <<>> \in Seq(CustomParts)
  BY DEF Range
<1>4. \A key \in DOMAIN strategy.metadata : strategy.metadata[key] \subseteq strategy.outputs
  BY <1>2 DEF DeclaredInv, Sound
<1>5. /\ visited \in 0..Len(buckets) /\ statements \in 0..MaxStatements
      /\ \A i \in DOMAIN buckets : buckets[i].isDefault \in BOOLEAN
      /\ Range(parts) \subseteq CustomParts /\ parts \in Seq(CustomParts)
  BY <1>1, <1>3, MaxStatementsAssumption
<1>6. OutputsTypeOK
  BY <1>1, <1>4, <1>5 DEF OutputsTypeOK
<1> QED BY <1>1, <1>2, <1>5, <1>6 DEF OutputsTypeInv

\* Synthesis keeps its types: the orchestrator's maps hold substituted paths, no rule
\* is for an acceptor without policy, the metadata of the stack name outputs that it
\* has, and the aspect visits no more buckets than there are.
THEOREM SynthesisTypeCorrect == SynthesisSpec => []SynthesisTypeOK
<1> DEFINE AccessPart == (AccessTypeInv /\ PathsInv) \/ (AccessIdle /\ AccessTypeOK)
           OutputsPart == OutputsTypeInv /\ DeclaredInv
<1>1. SynthesisInit => AccessPart /\ OutputsPart
  <2>1. AccessIdle => AccessTypeOK
    <3> SUFFICES ASSUME AccessIdle PROVE AccessTypeOK
      OBVIOUS
    <3>1. /\ stage = "invalid" /\ storagePaths = <<<<"idle">>>> /\ at = 1
          /\ permissionCount = 0 /\ acceptors = {} /\ prefixDenyMap = <<>> /\ rules = {}
          /\ allow = Nothing /\ deny = Nothing
      BY DEF AccessIdle
    <3>2. Nothing \in [Acceptors -> [Actions -> SUBSET {}]]
      BY DEF Nothing
    <3>3. Range(<<>>) = {} /\ IsInjective(<<>>) /\ 1 \in DOMAIN <<<<"idle">>>>
      BY DEF Range, IsInjective
    <3> QED BY <3>1, <3>2, <3>3, BoundsAssumption DEF AccessTypeOK
  <2> QED BY <2>1, TypeInitial, PathsInitial, OutputsTypesInitially DEF SynthesisInit
<1>2. (AccessPart /\ OutputsPart) /\ [SynthesisNext]_<<accessVars, outputsVars>>
      => (AccessPart /\ OutputsPart)'
  <2> SUFFICES ASSUME AccessPart, OutputsPart, [SynthesisNext]_<<accessVars, outputsVars>>
               PROVE  AccessPart' /\ OutputsPart'
    OBVIOUS
  <2>1. [AccessNext]_accessVars /\ [OutputsNext]_outputsVars
    BY DEF SynthesisNext
  <2>2. OutputsPart'
    BY <2>1, OutputsTypesPreserved, DeclaredPreserved
  <2>3. CASE AccessTypeInv /\ PathsInv
    BY <2>1, <2>2, <2>3, TypePreserved, PathsPreserved
  <2>4. CASE AccessIdle /\ AccessTypeOK
    <3>1. UNCHANGED accessVars
      <4>1. stage = "invalid"
        BY <2>4 DEF AccessIdle
      <4> QED BY <2>1, <4>1 DEF AccessNext, NextPath, AddPermission, DuplicateDefinition,
                                AttachPolicies
    <3>2. AccessIdle' /\ AccessTypeOK'
      BY <2>4, <3>1 DEF AccessIdle, AccessTypeOK, accessVars
    <3> QED BY <2>2, <3>2
  <2> QED BY <2>3, <2>4
<1>3. AccessPart /\ OutputsPart => SynthesisTypeOK
  BY DEF AccessTypeInv, OutputsTypeInv, SynthesisTypeOK
<1> QED BY <1>1, <1>2, <1>3, PTL DEF SynthesisSpec

-----------------------------------------------------------------------------
(* Configs *)

\* A pair is in the config when no other pair has its path.
LEMMA ConfigAt ==
    ASSUME NEW pairs, NEW pair \in pairs, \A p \in pairs : p[1] = pair[1] => p[2] = pair[2]
    PROVE  pair[1] \in DOMAIN Config(pairs) /\ Config(pairs)[pair[1]] = pair[2]
  BY DEF Config

\* What is in the config is of a pair.
LEMMA ConfigFrom ==
    ASSUME NEW pairs, NEW path \in DOMAIN Config(pairs)
    PROVE  \E p \in pairs : p[1] = path /\ Config(pairs)[path] = p[2]
  BY DEF Config

LEMMA NoConfigEmpty == DOMAIN NoConfig = {}
  BY DEF NoConfig, Config

LEMMA SequenceOfItsElements ==
    ASSUME NEW A, NEW s \in Seq(A)
    PROVE  s \in Seq(Range(s))
  BY DEF Range

\* Paths of the parts and of the backend's own config.
IsPath(p) == p \in Seq(Range(p)) /\ p # <<>>

\* One path below another, element by element.
LEMMA InsideElementwise ==
    ASSUME NEW p, IsPath(p), NEW path, IsPath(path)
    PROVE  /\ Len(p) \in Nat /\ 1 \in 1..Len(p)
           /\ IsPrefix(p, path) <=> Len(p) <= Len(path) /\ \A i \in 1..Len(p) : p[i] = path[i]
           /\ Inside(path, p) <=> Len(p) < Len(path) /\ \A i \in 1..Len(p) : p[i] = path[i]
<1> DEFINE A == Range(p) \union Range(path)
<1>1. p \in Seq(A) /\ path \in Seq(A) /\ p # <<>>
  BY DEF IsPath
<1> HIDE DEF A
<1>2. IsPrefix(p, path) <=> Len(p) <= Len(path) /\ \A i \in 1..Len(p) : p[i] = path[i]
  BY <1>1, PrefixElementwise
<1>3. Len(p) = Len(path) /\ (\A i \in 1..Len(p) : p[i] = path[i]) => p = path
  BY <1>1, SeqEqual
<1>4. Len(p) \in Nat /\ Len(path) \in Nat /\ 1 \in 1..Len(p)
  BY <1>1
<1> QED BY <1>2, <1>3, <1>4 DEF Inside

LEMMA InsideSameSection ==
    ASSUME NEW p, IsPath(p), NEW path, IsPath(path), Inside(path, p)
    PROVE  p[1] = path[1]
<1>1. 1 \in 1..Len(p) /\ \A i \in 1..Len(p) : p[i] = path[i]
  BY InsideElementwise
<1> QED BY <1>1

\* What stays of the accumulator beside a part.
Kept(accumulator, part) ==
    {p \in DOMAIN accumulator : \A path \in DOMAIN part : ~Inside(path, p) /\ ~Inside(p, path)}

LEMMA AccumulateIs ==
    ASSUME NEW accumulator, NEW part
    PROVE  /\ DOMAIN Accumulate(accumulator, part) = Kept(accumulator, part) \union DOMAIN part
           /\ \A p \in Kept(accumulator, part) \union DOMAIN part :
                 Accumulate(accumulator, part)[p] =
                    IF p \notin DOMAIN part THEN accumulator[p]
                    ELSE IF p \in Kept(accumulator, part) THEN Combine(accumulator[p], part[p])
                    ELSE part[p]
  BY DEF Accumulate, Kept

\* Configs of different sections lie beside one another.
LEMMA AccumulateApart ==
    ASSUME NEW accumulator, NEW part,
           \A p \in DOMAIN accumulator : IsPath(p), \A path \in DOMAIN part : IsPath(path),
           \A p \in DOMAIN accumulator, path \in DOMAIN part : p[1] # path[1]
    PROVE  /\ DOMAIN Accumulate(accumulator, part) = DOMAIN accumulator \union DOMAIN part
           /\ \A p \in DOMAIN accumulator : Accumulate(accumulator, part)[p] = accumulator[p]
           /\ \A p \in DOMAIN part : Accumulate(accumulator, part)[p] = part[p]
<1>1. ASSUME NEW p \in DOMAIN accumulator, NEW path \in DOMAIN part
      PROVE  ~Inside(path, p) /\ ~Inside(p, path) /\ p # path
  <2>1. IsPath(p) /\ IsPath(path) /\ p[1] # path[1]
    OBVIOUS
  <2>2. Inside(path, p) => p[1] = path[1]
    BY <2>1, InsideSameSection
  <2>3. Inside(p, path) => path[1] = p[1]
    BY <2>1, InsideSameSection
  <2> QED BY <2>1, <2>2, <2>3
<1>2. Kept(accumulator, part) = DOMAIN accumulator
  BY <1>1 DEF Kept
<1>3. \A p \in DOMAIN accumulator : p \notin DOMAIN part
  BY <1>1
<1> DEFINE both == Accumulate(accumulator, part)
<1>4. /\ DOMAIN both = DOMAIN accumulator \union DOMAIN part
      /\ \A p \in DOMAIN accumulator \union DOMAIN part :
            both[p] = IF p \notin DOMAIN part THEN accumulator[p]
                      ELSE IF p \in Kept(accumulator, part) THEN Combine(accumulator[p], part[p])
                      ELSE part[p]
  BY <1>2, AccumulateIs
<1> HIDE DEF both
<1>5. \A p \in DOMAIN accumulator : both[p] = accumulator[p]
  BY <1>3, <1>4
<1>6. \A p \in DOMAIN part : both[p] = part[p]
  BY <1>2, <1>3, <1>4
<1> QED BY <1>4, <1>5, <1>6 DEF both

-----------------------------------------------------------------------------
(* Parts *)

LEMMA PartIs ==
    ASSUME NEW part \in CustomParts, NEW path \in DOMAIN part
    PROVE  /\ IsPath(path) /\ Len(path) \in Nat /\ 1 \in 1..Len(path)
           /\ part[path] = Leaf(part[path].kind, part[path].val)
           /\ part[path].kind \in {"array", "scalar", "falsy", "version"}
           /\ part[path].val \in Seq(Range(part[path].val))
           /\ part[path].kind = "version" <=> path[Len(path)] = "version"
           /\ part[path].kind = "version" => part[path].val \in Nat \X Nat
           /\ path[1] = "version" => path = <<"version">>
           /\ \A p \in DOMAIN part : ~Inside(path, p)
<1>1. LET leaf == part[path]
      IN  /\ path \in Seq(Range(path)) \ {<<>>}
          /\ \A p \in DOMAIN part : ~Inside(path, p)
          /\ leaf = Leaf(leaf.kind, leaf.val)
          /\ leaf.kind \in {"array", "scalar", "falsy", "version"}
          /\ leaf.val \in Seq(Range(leaf.val))
          /\ leaf.kind = "version" <=> path[Len(path)] = "version"
          /\ leaf.kind = "version" => leaf.val \in Nat \X Nat
          /\ path[1] = "version" => Len(path) = 1
  BY CustomPartsAssumption
<1>2. path \in Seq(Range(path)) /\ path # <<>>
  BY <1>1
<1>3. Len(path) \in Nat /\ 1 \in 1..Len(path)
  BY <1>2
<1>4. path[1] = "version" => path = <<"version">>
  <2> SUFFICES ASSUME path[1] = "version" PROVE path = <<"version">>
    OBVIOUS
  <2>1. Len(path) = 1
    BY <1>1
  <2> QED BY <1>2, <2>1
<1> QED BY <1>1, <1>2, <1>3, <1>4 DEF IsPath

VersionPath == <<"version">>

LEMMA VersionPathIs ==
    IsPath(VersionPath) /\ Len(VersionPath) = 1 /\ VersionPath[1] = "version"
<1>1. \A S : \A a \in S : <<a>> \in Seq(S) /\ Len(<<a>>) = 1 /\ <<a>>[1] = a
  OBVIOUS
<1>2. VersionPath \in Seq({"version"}) /\ Len(VersionPath) = 1 /\ VersionPath[1] = "version"
  BY <1>1 DEF VersionPath
<1>3. VersionPath # <<>>
  BY <1>2
<1> QED BY <1>2, <1>3, SequenceOfItsElements DEF IsPath

\* Where a part has nothing but the version below the key "version".
LEMMA VersionApart ==
    ASSUME NEW path, IsPath(path), path[1] = "version" => path = VersionPath
    PROVE  ~Inside(path, VersionPath) /\ ~Inside(VersionPath, path)
<1>1. Len(path) \in Nat /\ 1 \in 1..Len(path)
  BY InsideElementwise
<1>2. Inside(path, VersionPath) <=> 1 < Len(path) /\ \A i \in 1..1 : VersionPath[i] = path[i]
  BY VersionPathIs, InsideElementwise
<1>3. ~Inside(VersionPath, path)
  <2>1. Inside(VersionPath, path) => Len(path) < Len(VersionPath)
    BY VersionPathIs, InsideElementwise
  <2> QED BY <1>1, <2>1, VersionPathIs
<1>4. 1 \in 1..1
  OBVIOUS
<1> QED BY <1>1, <1>2, <1>3, <1>4, VersionPathIs

\* The first part of a config that is added is as given, with a version.
LEMMA VersionedIs ==
    ASSUME NEW part \in CustomParts
    PROVE  /\ DOMAIN Versioned(part) = DOMAIN part \union {VersionPath}
           /\ \A path \in DOMAIN part : Versioned(part)[path] = part[path]
           /\ Versioned(part)[VersionPath].kind = "version"
           /\ Versioned(part)[VersionPath].val \in Nat \X Nat
<1>1. CASE VersionPath \in DOMAIN part
  <2>1. Versioned(part) = part
    BY <1>1 DEF Versioned, VersionPath
  <2>2. VersionPath[Len(VersionPath)] = "version"
    BY DEF VersionPath
  <2>3. part[VersionPath].kind = "version" /\ part[VersionPath].val \in Nat \X Nat
    BY <1>1, <2>2, PartIs
  <2> QED BY <1>1, <2>1, <2>3
<1>2. CASE VersionPath \notin DOMAIN part
  <2> DEFINE v == VersionContribution(4)
  <2>1. DOMAIN v = {VersionPath} /\ v[VersionPath] = Version(1, 4)
    <3>1. v = Config({<<VersionPath, Version(1, 4)>>})
      BY DEF VersionContribution, VersionPath
    <3> QED BY <3>1 DEF Config
  <2>2. Versioned(part) = Accumulate(part, v)
    BY <1>2 DEF Versioned, VersionPath
  <2> HIDE DEF v
  <2>3. Kept(part, v) = DOMAIN part
    <3>1. \A path \in DOMAIN part : ~Inside(path, VersionPath) /\ ~Inside(VersionPath, path)
      BY PartIs, VersionApart DEF VersionPath
    <3> QED BY <2>1, <3>1 DEF Kept
  <2>4. /\ DOMAIN Versioned(part) = DOMAIN part \union {VersionPath}
        /\ \A path \in DOMAIN part : Versioned(part)[path] = part[path]
        /\ Versioned(part)[VersionPath] = Version(1, 4)
    BY <1>2, <2>1, <2>2, <2>3, AccumulateIs
  <2>5. Version(1, 4).kind = "version" /\ Version(1, 4).val \in Nat \X Nat
    BY DEF Version, Leaf
  <2> QED BY <2>4, <2>5
<1> QED BY <1>1, <1>2

\* What is a list in one part is one in all of them, and nothing is below it.
LEMMA ListsAgree ==
    ASSUME NEW part \in CustomParts, NEW path \in DOMAIN part,
           NEW list, IsPath(list),
           \/ list \in ManagedLists
           \/ \E other \in CustomParts : list \in DOMAIN other /\ other[list].kind = "array"
    PROVE  /\ ~Inside(path, list)
           /\ path = list => part[path].kind = "array"
<1>1. IsPrefix(list, path) => path = list /\ path \in Lists(part)
  <2>1. list \in ManagedLists \union UNION {Lists(other) : other \in CustomParts}
    BY DEF Lists
  <2> QED BY <2>1, ListsAssumption
<1>2. IsPrefix(list, list)
  BY InsideElementwise
<1> QED BY <1>1, <1>2 DEF Inside, Lists

-----------------------------------------------------------------------------
(* What the program adds *)

Elements == UNION {UNION {Range(part[path].val) : path \in DOMAIN part} : part \in CustomParts}

AddedBy(part, path) == IF path \in DOMAIN part THEN part[path].val ELSE <<>>

LEMMA AddedByType ==
    ASSUME NEW part \in CustomParts, NEW path
    PROVE  AddedBy(part, path) \in Seq(Elements)
<1>1. CASE path \in DOMAIN part
  <2>1. part[path].val \in Seq(Range(part[path].val))
    BY <1>1, PartIs
  <2>2. Range(part[path].val) \subseteq Elements
    BY <1>1 DEF Elements
  <2>3. part[path].val \in Seq(Elements)
    BY <2>1, <2>2
  <2> QED BY <1>1, <2>3 DEF AddedBy
<1>2. CASE path \notin DOMAIN part
  <2>1. <<>> \in Seq(Elements)
    OBVIOUS
  <2> QED BY <1>2, <2>1 DEF AddedBy
<1> QED BY <1>1, <1>2

\* The sequences that Added puts together.
Additions(path) == [i \in DOMAIN parts |-> AddedBy(parts[i], path)]

LEMMA AddedIs ==
    ASSUME parts \in Seq(CustomParts), NEW path
    PROVE  /\ Additions(path) \in Seq(Seq(Elements))
           /\ Added(path) = FlattenSeq(Additions(path))
           /\ Added(path) \in Seq(Elements)
           /\ (\A part \in Range(parts) : path \notin DOMAIN part) => Added(path) = <<>>
<1>1. Added(path) = FlattenSeq(Additions(path))
  BY DEF Added, Additions, AddedBy
<1>2. \A i \in DOMAIN parts : parts[i] \in CustomParts /\ parts[i] \in Range(parts)
  BY DEF Range
<1>3. DOMAIN parts = 1..Len(parts) /\ Len(parts) \in Nat
  OBVIOUS
<1>4. Additions(path) \in Seq(Seq(Elements))
  <2>1. \A i \in 1..Len(parts) : AddedBy(parts[i], path) \in Seq(Elements)
    BY <1>2, <1>3, AddedByType
  <2> QED BY <1>3, <2>1 DEF Additions
<1>5. ASSUME \A part \in Range(parts) : path \notin DOMAIN part PROVE Added(path) = <<>>
  <2>1. \A i \in 1..Len(parts) : AddedBy(parts[i], path) = <<>>
    BY <1>2, <1>3, <1>5 DEF AddedBy
  <2>2. <<>> \in Seq({})
    OBVIOUS
  <2>3. Additions(path) \in Seq(Seq({}))
    <3>1. Additions(path) = [i \in 1..Len(parts) |-> <<>>]
      BY <1>3, <2>1 DEF Additions
    <3>2. [i \in 1..Len(parts) |-> <<>>] \in [1..Len(parts) -> Seq({})]
      BY <2>2
    <3> QED BY <1>3, <3>1, <3>2, FunctionIsSequence
  <2>4. FlattenSeq(Additions(path)) \in Seq({})
    BY <2>3, FlattenType
  <2> QED BY <1>1, <2>4
<1>6. FlattenSeq(Additions(path)) \in Seq(Elements)
  BY <1>4, FlattenType
<1> QED BY <1>1, <1>4, <1>5, <1>6

LEMMA AddedAppend ==
    ASSUME parts \in Seq(CustomParts), NEW part \in CustomParts, parts' = Append(parts, part),
           NEW path
    PROVE  Added(path)' = Added(path) \o AddedBy(part, path)
<1>1. Added(path)' = FlattenSeq(Additions(path)')
  BY DEF Added, Additions, AddedBy
<1>2. Additions(path)' = Append(Additions(path), AddedBy(part, path))
  <2>1. /\ Len(parts') = Len(parts) + 1 /\ DOMAIN parts' = 1..(Len(parts) + 1)
        /\ \A i \in 1..Len(parts) : parts'[i] = parts[i]
        /\ parts'[Len(parts) + 1] = part
    OBVIOUS
  <2>2. /\ Additions(path) \in Seq(Seq(Elements)) /\ AddedBy(part, path) \in Seq(Elements)
        /\ Len(Additions(path)) = Len(parts)
    BY AddedIs, AddedByType DEF Additions
  <2>3. Append(Additions(path), AddedBy(part, path))
        = [k \in 1..(Len(parts) + 1) |->
              IF k = Len(parts) + 1 THEN AddedBy(part, path) ELSE Additions(path)[k]]
    BY <2>2, AppendIsFunction
  <2>4. Additions(path)' = [k \in 1..(Len(parts) + 1) |-> AddedBy(parts'[k], path)]
    BY <2>1 DEF Additions
  <2>5. \A k \in 1..(Len(parts) + 1) : k # Len(parts) + 1 => k \in 1..Len(parts)
    OBVIOUS
  <2>6. \A k \in 1..Len(parts) : Additions(path)[k] = AddedBy(parts[k], path)
    BY DEF Additions
  <2> QED BY <2>1, <2>3, <2>4, <2>5, <2>6
<1>3. FlattenSeq(Append(Additions(path), AddedBy(part, path)))
      = FlattenSeq(Additions(path)) \o AddedBy(part, path)
  BY AddedIs, AddedByType, FlattenAppend
<1> QED BY <1>1, <1>2, <1>3, AddedIs

-----------------------------------------------------------------------------
(* The accumulator of the custom outputs *)

VersionsAsked == {Versioned(part)[<<"version">>].val[2] : part \in Range(parts)}

CustomInv ==
    /\ parts \in Seq(CustomParts)
    /\ \A p \in DOMAIN clientConfigAccumulator :
          \/ p = VersionPath
          \/ \E part \in Range(parts) :
                p \in DOMAIN part /\ part[p].kind = clientConfigAccumulator[p].kind
    /\ \A part \in Range(parts) : \A path \in DOMAIN part :
          \/ part[path].kind \notin {"array", "scalar"}
          \/ Replaced(path)
          \/ /\ path \in DOMAIN clientConfigAccumulator
             /\ clientConfigAccumulator[path] =
                   IF part[path].kind = "array" THEN Array(Added(path)) ELSE part[path]
    /\ parts = <<>> => clientConfigAccumulator = NoConfig
    /\ parts # <<>> =>
          /\ VersionPath \in DOMAIN clientConfigAccumulator
          /\ clientConfigAccumulator[VersionPath].kind = "version"
          /\ clientConfigAccumulator[VersionPath].val \in Nat \X Nat
          /\ clientConfigAccumulator[VersionPath].val[2] \in VersionsAsked
          /\ \A v \in VersionsAsked : v <= clientConfigAccumulator[VersionPath].val[2]

LEMMA CustomPartAccumulates ==
    ASSUME CustomInv, NEW part \in CustomParts, parts' = Append(parts, part),
           ~Collides(clientConfigAccumulator, Versioned(part)),
           clientConfigAccumulator' = Accumulate(clientConfigAccumulator, Versioned(part))
    PROVE  CustomInv'
<1> DEFINE C == clientConfigAccumulator
           V == Versioned(part)
           D == Accumulate(C, V)
<1>1. /\ DOMAIN V = DOMAIN part \union {VersionPath}
      /\ \A path \in DOMAIN part : V[path] = part[path]
      /\ V[VersionPath].kind = "version" /\ V[VersionPath].val \in Nat \X Nat
  BY VersionedIs
<1>2. /\ parts \in Seq(CustomParts) /\ parts' \in Seq(CustomParts)
      /\ Range(parts') = Range(parts) \union {part} /\ Range(parts) \subseteq CustomParts
      /\ parts' # <<>>
  <2>1. parts \in Seq(CustomParts)
    BY DEF CustomInv
  <2>2. Append(parts, part) \in Seq(CustomParts)
        /\ Range(Append(parts, part)) = Range(parts) \union {part}
    BY <2>1, KeyAdded
  <2> QED BY <2>1, <2>2, RangeInType
<1>3. /\ \A p \in DOMAIN C : p = VersionPath \/ \E r \in Range(parts) :
                                  p \in DOMAIN r /\ r[p].kind = C[p].kind
      /\ \A r \in Range(parts) : \A path \in DOMAIN r :
            \/ r[path].kind \notin {"array", "scalar"}
            \/ Replaced(path)
            \/ /\ path \in DOMAIN C
               /\ C[path] = IF r[path].kind = "array" THEN Array(Added(path)) ELSE r[path]
      /\ parts = <<>> => C = NoConfig
      /\ parts # <<>> =>
            /\ VersionPath \in DOMAIN C /\ C[VersionPath].kind = "version"
            /\ C[VersionPath].val \in Nat \X Nat /\ C[VersionPath].val[2] \in VersionsAsked
            /\ \A v \in VersionsAsked : v <= C[VersionPath].val[2]
  BY DEF CustomInv
<1>4. /\ DOMAIN D = Kept(C, V) \union DOMAIN V
      /\ \A p \in Kept(C, V) \union DOMAIN V :
            D[p] = IF p \notin DOMAIN V THEN C[p]
                   ELSE IF p \in Kept(C, V) THEN Combine(C[p], V[p]) ELSE V[p]
  BY AccumulateIs
<1>5. clientConfigAccumulator' = D
  OBVIOUS
<1>6. \A path \in DOMAIN V, p \in DOMAIN C :
          IsPrefix(p, path) => C[p].kind # "scalar"
  BY DEF Collides
<1> HIDE DEF C, V, D
<1>7. /\ \A r \in Range(parts) \union {part} : \A p \in DOMAIN r :
            IsPath(p) /\ (p[1] = "version" => p = VersionPath) /\ IsPrefix(p, p)
      /\ \A p \in DOMAIN V \union DOMAIN C :
            IsPath(p) /\ (p[1] = "version" => p = VersionPath)
  <2>1. \A r \in CustomParts : \A p \in DOMAIN r :
            IsPath(p) /\ (p[1] = "version" => p = VersionPath)
    BY PartIs DEF VersionPath
  <2>2. IsPath(VersionPath)
    BY VersionPathIs
  <2>3. \A p : IsPath(p) => IsPrefix(p, p)
    BY InsideElementwise
  <2> QED BY <1>1, <1>2, <1>3, <2>1, <2>2, <2>3
<1>8. \A p \in Kept(C, V) : p \in DOMAIN C
  BY DEF Kept
\* The kind of a leaf does not change any more.
<1>9. ASSUME NEW p \in DOMAIN part, p # VersionPath
      PROVE  /\ p \in DOMAIN D /\ D[p].kind = part[p].kind
             /\ part[p].kind = "scalar" => D[p] = part[p]
  <2>1. p \in DOMAIN V /\ V[p] = part[p]
    BY <1>1
  <2>2. CASE p \notin Kept(C, V)
    BY <1>4, <2>1, <2>2
  <2>3. CASE p \in Kept(C, V)
    <3>1. p \in DOMAIN C /\ D[p] = Combine(C[p], part[p])
      BY <1>4, <1>8, <2>1, <2>3
    <3>2. PICK r \in Range(parts) : p \in DOMAIN r /\ r[p].kind = C[p].kind
      BY <1>3, <1>9, <3>1
    <3>3. r \in CustomParts
      BY <1>2
    <3>4. CASE C[p].kind = "array"
      <4>1. part[p].kind = "array"
        BY <1>7, <3>2, <3>3, <3>4, ListsAgree
      <4>2. D[p].kind = "array"
        BY <3>1, <3>4 DEF Combine, Array, Leaf
      <4> QED BY <1>4, <2>1, <4>1, <4>2
    <3>5. CASE C[p].kind = "version"
      <4>1. part[p].kind = "version"
        BY <3>2, <3>3, <3>5, PartIs
      <4>2. D[p].kind = "version"
        BY <3>1, <3>5, <4>1 DEF Combine, Newer
      <4> QED BY <1>4, <2>1, <4>1, <4>2
    <3>6. CASE C[p].kind \notin {"array", "version"}
      <4>1. D[p] = part[p]
        BY <3>1, <3>6 DEF Combine
      <4> QED BY <1>4, <2>1, <4>1
    <3> QED BY <3>4, <3>5, <3>6
  <2> QED BY <2>2, <2>3
<1>10. \A p \in DOMAIN D :
          p = VersionPath \/ \E r \in Range(parts') : p \in DOMAIN r /\ r[p].kind = D[p].kind
  <2> SUFFICES ASSUME NEW p \in DOMAIN D, p # VersionPath
               PROVE  \E r \in Range(parts') : p \in DOMAIN r /\ r[p].kind = D[p].kind
    OBVIOUS
  <2>1. CASE p \in DOMAIN part
    BY <1>2, <1>9, <2>1
  <2>2. CASE p \notin DOMAIN part
    <3>1. p \in DOMAIN C /\ D[p] = C[p]
      BY <1>1, <1>4, <1>8, <2>2
    <3> QED BY <1>2, <1>3, <3>1
  <2> QED BY <2>1, <2>2
\* What is not replaced stays, and lists grow.
<1>11. ASSUME NEW q \in Range(parts'), NEW path \in DOMAIN q,
              q[path].kind \in {"array", "scalar"}, ~Replaced(path)'
       PROVE  /\ path \in DOMAIN D
              /\ D[path] = IF q[path].kind = "array" THEN Array(Added(path)') ELSE q[path]
  <2>1. q \in CustomParts /\ (q \in Range(parts) \/ q = part)
    BY <1>2
  <2>2. IsPath(path) /\ path # VersionPath /\ (path[1] = "version" => path = VersionPath)
        /\ IsPrefix(path, path)
    <3>1. path # VersionPath
      <4>1. VersionPath[Len(VersionPath)] = "version"
        BY VersionPathIs
      <4>2. path[Len(path)] # "version"
        BY <1>11, <2>1, PartIs
      <4> QED BY <4>1, <4>2
    <3> QED BY <1>2, <1>7, <3>1
  <2>3. ~Replaced(path) /\ \A p \in DOMAIN part : ~Inside(path, p)
    BY <1>2, <1>11 DEF Replaced
  <2>4. /\ \A v \in DOMAIN V : ~Inside(path, v)
        /\ ~Inside(VersionPath, path)
    BY <1>1, <2>2, <2>3, VersionApart
  <2>5. ASSUME path \in DOMAIN C, \A v \in DOMAIN part : ~Inside(v, path)
        PROVE  path \in Kept(C, V)
    BY <1>1, <2>4, <2>5 DEF Kept
  <2>6. CASE q[path].kind = "array"
    <3>1. \A r \in CustomParts : path \in DOMAIN r => r[path].kind = "array"
      BY <2>1, <2>2, <2>6, ListsAgree
    <3>2. \A v \in DOMAIN part : ~Inside(v, path)
      BY <2>1, <2>2, <2>6, ListsAgree
    <3>3. /\ Added(path)' = Added(path) \o AddedBy(part, path)
          /\ Added(path) \in Seq(Elements) /\ AddedBy(part, path) \in Seq(Elements)
      BY <1>2, AddedAppend, AddedIs, AddedByType
    <3>4. ASSUME NEW r \in Range(parts), path \in DOMAIN r
          PROVE  path \in DOMAIN D /\ D[path] = Array(Added(path)')
      <4>1. r[path].kind = "array"
        BY <1>2, <3>1, <3>4
      <4>2. path \in DOMAIN C /\ C[path] = Array(Added(path))
        BY <1>3, <2>3, <3>4, <4>1
      <4>3. path \in Kept(C, V)
        BY <2>5, <3>2, <4>2
      <4>4. CASE path \in DOMAIN part
        <5>1. D[path] = Combine(C[path], part[path])
          BY <1>1, <1>4, <4>3, <4>4
        <5>2. Combine(C[path], part[path]) = Array(Added(path) \o part[path].val)
          BY <4>2 DEF Combine, Array, Leaf
        <5> QED BY <1>4, <3>3, <4>3, <4>4, <5>1, <5>2 DEF AddedBy
      <4>5. CASE path \notin DOMAIN part
        <5>1. path \notin DOMAIN V
          BY <1>1, <2>2, <4>5
        <5>2. D[path] = C[path] /\ path \in DOMAIN D
          BY <1>4, <4>3, <5>1
        <5>3. Added(path) \o <<>> = Added(path)
          BY <3>3
        <5> QED BY <3>3, <4>2, <4>5, <5>2, <5>3 DEF AddedBy
      <4> QED BY <4>4, <4>5
    <3>5. CASE \A r \in Range(parts) : path \notin DOMAIN r
      <4>1. q = part /\ path \in DOMAIN part /\ path \notin DOMAIN C
        BY <1>3, <2>1, <2>2, <3>5
      <4>2. path \in DOMAIN D /\ D[path] = part[path]
        BY <1>1, <1>4, <1>8, <4>1
      <4>3. Added(path) = <<>> /\ AddedBy(part, path) = part[path].val
        BY <1>2, <3>5, <4>1, AddedIs DEF AddedBy
      <4>4. Added(path)' = part[path].val
        <5>1. <<>> \o AddedBy(part, path) = AddedBy(part, path)
          BY <3>3
        <5> QED BY <3>3, <4>3, <5>1
      <4>5. part[path] = Array(part[path].val)
        BY <2>6, <4>1, PartIs DEF Array
      <4> QED BY <2>6, <4>2, <4>4, <4>5
    <3> QED BY <2>6, <3>4, <3>5
  <2>7. CASE q[path].kind = "scalar"
    <3>1. CASE q \in Range(parts)
      <4>1. path \in DOMAIN C /\ C[path] = q[path]
        BY <1>3, <2>3, <2>7, <3>1
      <4>2. \A v \in DOMAIN V : ~IsPrefix(path, v)
        BY <1>6, <2>7, <4>1
      <4>3. path \in Kept(C, V)
        BY <1>1, <2>5, <4>1, <4>2 DEF Inside
      <4>4. path \notin DOMAIN V
        BY <2>2, <4>2
      <4> QED BY <1>4, <2>7, <4>1, <4>3, <4>4
    <3>2. CASE q = part
      BY <1>9, <2>2, <2>7, <3>2
    <3> QED BY <2>1, <3>1, <3>2
  <2> QED BY <1>11, <2>6, <2>7
\* The newest version of all of them.
<1>12. /\ VersionPath \in DOMAIN D /\ D[VersionPath].kind = "version"
       /\ D[VersionPath].val \in Nat \X Nat
       /\ D[VersionPath].val[2] \in VersionsAsked'
       /\ \A v \in VersionsAsked' : v <= D[VersionPath].val[2]
  <2>1. /\ VersionsAsked' = VersionsAsked \union {V[VersionPath].val[2]}
        /\ V[VersionPath].val[2] \in Nat
        /\ \A v \in VersionsAsked : v \in Nat
    <3>1. VersionsAsked' = {Versioned(r)[<<"version">>].val[2] : r \in Range(parts')}
      BY DEF VersionsAsked
    <3>2. VersionsAsked = {Versioned(r)[<<"version">>].val[2] : r \in Range(parts)}
      BY DEF VersionsAsked
    <3>3. V[VersionPath].val[2] = Versioned(part)[<<"version">>].val[2]
      BY DEF V, VersionPath
    <3>4. \A r \in CustomParts : Versioned(r)[<<"version">>].val[2] \in Nat
      BY VersionedIs DEF VersionPath
    <3> QED BY <1>2, <3>1, <3>2, <3>3, <3>4
  <2>2. VersionPath \in DOMAIN V /\ VersionPath \in DOMAIN D
    BY <1>1, <1>4
  <2>3. CASE parts = <<>>
    <3>1. DOMAIN C = {} /\ VersionsAsked = {}
      <4>1. Range(parts) = {}
        BY <2>3 DEF Range
      <4> QED BY <1>3, <2>3, <4>1, NoConfigEmpty DEF VersionsAsked
    <3>2. D[VersionPath] = V[VersionPath]
      BY <1>4, <1>8, <2>2, <3>1
    <3> QED BY <1>1, <2>1, <2>2, <3>1, <3>2
  <2>4. CASE parts # <<>>
    <3>1. VersionPath \in Kept(C, V)
      <4>1. \A v \in DOMAIN V : ~Inside(v, VersionPath) /\ ~Inside(VersionPath, v)
        BY <1>7, VersionApart
      <4> QED BY <1>3, <2>4, <4>1 DEF Kept
    <3>2. D[VersionPath] = Newer(C[VersionPath], V[VersionPath])
      BY <1>3, <1>4, <2>2, <2>4, <3>1 DEF Combine
    <3>3. C[VersionPath].val[2] \in Nat
      BY <1>3, <2>4
    <3>4. CASE V[VersionPath].val[2] >= C[VersionPath].val[2]
      <4>1. D[VersionPath] = V[VersionPath]
        BY <3>2, <3>4 DEF Newer
      <4> QED BY <1>1, <1>3, <2>1, <2>2, <2>4, <3>3, <3>4, <4>1
    <3>5. CASE ~(V[VersionPath].val[2] >= C[VersionPath].val[2])
      <4>1. D[VersionPath] = C[VersionPath]
        BY <3>2, <3>5 DEF Newer
      <4> QED BY <1>3, <2>1, <2>2, <2>4, <3>3, <3>5, <4>1
    <3> QED BY <3>4, <3>5
  <2> QED BY <2>3, <2>4
<1> QED BY <1>2, <1>5, <1>10, <1>11, <1>12 DEF CustomInv

-----------------------------------------------------------------------------
(* What becomes of the backend's own config when the custom outputs come *)

\* What the contributors leave: plain values and lists, and a version of its own.
OwnConfig(own) ==
    \A p \in DOMAIN own :
        /\ IsPath(p)
        /\ own[p].kind \in {"array", "scalar", "falsy", "version"}
        /\ p[1] = "version" => p = VersionPath
        /\ own[p].kind = "version" => p = VersionPath
        /\ own[p].kind = "array" => p \in ManagedLists /\ own[p] = Array(own[p].val)
                                    /\ own[p].val \in Seq(Range(own[p].val))

LEMMA ConcatEmpty ==
    ASSUME NEW A, NEW s \in Seq(A)
    PROVE  s \o <<>> = s
  OBVIOUS

LEMMA CustomPaths ==
    ASSUME CustomInv, NEW p \in DOMAIN clientConfigAccumulator
    PROVE  /\ IsPath(p) /\ (p[1] = "version" => p = VersionPath)
           /\ p = VersionPath \/ \E part \in Range(parts) : p \in DOMAIN part
<1>1. Range(parts) \subseteq CustomParts
  BY RangeInType DEF CustomInv
<1>2. p = VersionPath \/ \E part \in Range(parts) : p \in DOMAIN part
  BY DEF CustomInv
<1>3. CASE p = VersionPath
  BY <1>3, VersionPathIs
<1>4. CASE \E part \in Range(parts) : p \in DOMAIN part
  BY <1>1, <1>4, PartIs DEF VersionPath
<1> QED BY <1>2, <1>3, <1>4

LEMMA OwnIsTold ==
    ASSUME CustomInv, NEW own, OwnConfig(own), ~Collides(own, clientConfigAccumulator),
           NEW path \in DOMAIN own, path[1] # "version", ~Replaced(path),
           own[path].kind = "falsy" => ~Overwritten(path)
    PROVE  LET told == Accumulate(own, clientConfigAccumulator)
           IN  /\ path \in DOMAIN told
               /\ told[path] = IF own[path].kind = "array" THEN Array(own[path].val \o Added(path))
                               ELSE own[path]
<1> DEFINE C == clientConfigAccumulator
           told == Accumulate(own, C)
<1>1. /\ parts \in Seq(CustomParts) /\ Range(parts) \subseteq CustomParts
      /\ \A p \in DOMAIN C : IsPath(p) /\ (p = VersionPath \/ \E r \in Range(parts) : p \in DOMAIN r)
  BY CustomPaths, RangeInType DEF CustomInv
<1>2. /\ IsPath(path) /\ own[path].kind \in {"array", "scalar", "falsy"} /\ IsPrefix(path, path)
      /\ own[path].kind = "array" => path \in ManagedLists /\ own[path] = Array(own[path].val)
                                     /\ own[path].val \in Seq(Range(own[path].val))
  <2>1. path # VersionPath
    BY VersionPathIs
  <2> QED BY <2>1, InsideElementwise DEF OwnConfig
<1>3. ~Inside(VersionPath, path) /\ ~Inside(path, VersionPath) /\ path # VersionPath
  BY <1>2, VersionApart, VersionPathIs
<1>4. \A p \in DOMAIN C : ~Inside(path, p)
  BY <1>1, <1>3 DEF Replaced
<1>5. /\ DOMAIN told = Kept(own, C) \union DOMAIN C
      /\ \A p \in Kept(own, C) \union DOMAIN C :
            told[p] = IF p \notin DOMAIN C THEN own[p]
                      ELSE IF p \in Kept(own, C) THEN Combine(own[p], C[p]) ELSE C[p]
  <2> HIDE DEF C
  <2> QED BY DEF Accumulate, Kept
<1>6. \A p \in DOMAIN C : IsPrefix(path, p) => own[path].kind # "scalar"
  BY DEF Collides
<1>7. /\ \A r \in Range(parts) : \A p \in DOMAIN r :
            r[p].kind \in {"array", "scalar"} /\ ~Replaced(p) =>
                p \in DOMAIN C /\ C[p] = IF r[p].kind = "array" THEN Array(Added(p)) ELSE r[p]
  BY DEF CustomInv
<1> HIDE DEF C, told
<1>8. ASSUME \A p \in DOMAIN C : ~IsPrefix(path, p)
      PROVE  path \in DOMAIN told /\ told[path] = own[path]
  <2>1. path \notin DOMAIN C
    BY <1>2, <1>8
  <2>2. path \in Kept(own, C)
    BY <1>4, <1>8 DEF Kept, Inside
  <2> QED BY <1>5, <2>1, <2>2
<1>9. CASE own[path].kind = "scalar"
  BY <1>6, <1>8, <1>9 DEF told, C
<1>10. CASE own[path].kind = "falsy"
  <2>1. \A p \in DOMAIN C : ~IsPrefix(path, p)
    <3>1. \A r \in Range(parts) : \A p \in DOMAIN r : ~IsPrefix(path, p)
      BY <1>10 DEF Overwritten
    <3>2. ~IsPrefix(path, VersionPath)
      BY <1>3 DEF Inside
    <3> QED BY <1>1, <3>1, <3>2
  <2> QED BY <1>8, <1>10, <2>1 DEF told, C
<1>11. CASE own[path].kind = "array"
  <2>1. \A r \in CustomParts : \A p \in DOMAIN r :
            ~Inside(p, path) /\ (p = path => r[p].kind = "array")
    BY <1>2, <1>11, ListsAgree
  <2>2. path \in Kept(own, C)
    BY <1>1, <1>3, <1>4, <2>1 DEF Kept
  <2>3. CASE path \in DOMAIN C
    <3>1. PICK r \in Range(parts) : path \in DOMAIN r
      BY <1>1, <1>3, <2>3
    <3>2. C[path] = Array(Added(path))
      BY <1>1, <1>7, <2>1, <3>1
    <3>3. told[path] = Combine(own[path], C[path]) /\ path \in DOMAIN told
      BY <1>5, <2>2, <2>3
    <3>4. Combine(own[path], C[path]) = Array(own[path].val \o Added(path))
      BY <1>11, <3>2 DEF Combine, Array, Leaf
    <3> QED BY <1>11, <3>3, <3>4 DEF told, C
  <2>4. CASE path \notin DOMAIN C
    <3>1. \A r \in Range(parts) : path \notin DOMAIN r
      BY <1>1, <1>7, <2>1, <2>4
    <3>2. Added(path) = <<>>
      BY <1>1, <3>1, AddedIs
    <3>3. own[path].val \o <<>> = own[path].val
      BY <1>2, <1>11, ConcatEmpty
    <3> QED BY <1>2, <1>5, <1>11, <2>2, <2>4, <3>2, <3>3 DEF told, C
  <2> QED BY <2>3, <2>4
<1> QED BY <1>2, <1>9, <1>10, <1>11

LEMMA SuffixOfConcat ==
    ASSUME NEW A, NEW r \in Seq(A), NEW s \in Seq(A)
    PROVE  IsSuffix(s, r \o s)
<1> DEFINE t == r \o s
           m == Len(r)
           n == Len(s)
<1>1. /\ t \in Seq(A) /\ m \in Nat /\ n \in Nat /\ Len(t) = m + n
      /\ \A k \in 1..n : t[m + k] = s[k]
  OBVIOUS
<1> HIDE DEF t
<1>2. /\ Reverse(s) \in Seq(A) /\ Len(Reverse(s)) = n
      /\ Reverse(t) \in Seq(A) /\ Len(Reverse(t)) = m + n
  <2>1. \A i \in 1..n : s[(n - i) + 1] \in A
    <3>1. \A i \in 1..n : (n - i) + 1 \in 1..n
      BY <1>1
    <3> QED BY <3>1
  <2>2. \A i \in 1..(m + n) : t[((m + n) - i) + 1] \in A
    <3>1. \A i \in 1..(m + n) : ((m + n) - i) + 1 \in 1..(m + n)
      BY <1>1
    <3> QED BY <1>1, <3>1
  <2>3. Reverse(s) \in [1..n -> A] /\ Reverse(t) \in [1..(m + n) -> A]
    <3>1. Reverse(s) = [i \in 1..n |-> s[(n - i) + 1]]
      BY DEF Reverse
    <3>2. Reverse(t) = [i \in 1..(m + n) |-> t[((m + n) - i) + 1]]
      BY <1>1 DEF Reverse
    <3> QED BY <2>1, <2>2, <3>1, <3>2
  <2>4. m + n \in Nat
    BY <1>1
  <2>5. Reverse(s) \in Seq(A) /\ Len(Reverse(s)) = n
    BY <1>1, <2>3, FunctionIsSequence
  <2>6. Reverse(t) \in Seq(A) /\ Len(Reverse(t)) = m + n
    BY <2>3, <2>4, FunctionIsSequence
  <2> QED BY <2>5, <2>6
<1>3. ASSUME NEW i \in 1..n PROVE Reverse(s)[i] = Reverse(t)[i]
  <2>1. /\ (n - i) + 1 \in 1..n /\ i \in 1..(m + n)
        /\ ((m + n) - i) + 1 = m + ((n - i) + 1)
    BY <1>1
  <2>2. Reverse(s)[i] = s[(n - i) + 1] /\ Reverse(t)[i] = t[((m + n) - i) + 1]
    BY <1>1, <2>1 DEF Reverse
  <2> QED BY <1>1, <2>1, <2>2
<1>4. n <= m + n
  BY <1>1
<1>5. IsPrefix(Reverse(s), Reverse(t))
  BY <1>2, <1>3, <1>4, PrefixElementwise
<1> QED BY <1>5 DEF IsSuffix, t

LEMMA EverySuffix ==
    ASSUME NEW A, NEW s \in Seq(A)
    PROVE  IsSuffix(s, s)
<1>1. <<>> \in Seq(A) /\ <<>> \o s = s
  OBVIOUS
<1>2. IsSuffix(s, <<>> \o s)
  BY <1>1, SuffixOfConcat
<1> QED BY <1>1, <1>2

LEMMA MaximumIs ==
    ASSUME NEW S \in SUBSET Nat, NEW m \in S, \A y \in S : y <= m
    PROVE  Max(S) = m
<1>1. m \in S /\ \A y \in S : m >= y
  OBVIOUS
<1>2. Max(S) \in S /\ \A y \in S : Max(S) >= y
  BY <1>1 DEF Max
<1> DEFINE x == Max(S)
<1>3. x \in S /\ \A y \in S : x >= y
  BY <1>2
<1> HIDE DEF x
<1>4. x \in Nat /\ m \in Nat /\ x >= m /\ m >= x
  BY <1>1, <1>3
<1>5. x = m
  BY <1>4
<1> QED BY <1>5 DEF x

\* The newest version of the backend's own and those asked for.
LEMMA NewestIsTold ==
    ASSUME CustomInv, NEW own, OwnConfig(own), NEW minor \in Nat,
           VersionPath \in DOMAIN own, own[VersionPath] = Version(1, minor)
    PROVE  LET told == Accumulate(own, clientConfigAccumulator)
           IN  told[VersionPath].val[2] = Max({minor} \union VersionsAsked)
<1> DEFINE C == clientConfigAccumulator
           told == Accumulate(own, C)
           v == C[VersionPath]
<1>1. /\ DOMAIN told = Kept(own, C) \union DOMAIN C
      /\ \A p \in Kept(own, C) \union DOMAIN C :
            told[p] = IF p \notin DOMAIN C THEN own[p]
                      ELSE IF p \in Kept(own, C) THEN Combine(own[p], C[p]) ELSE C[p]
  <2> HIDE DEF C
  <2> QED BY DEF Accumulate, Kept
<1>2. own[VersionPath].kind = "version" /\ own[VersionPath].val[2] = minor
  BY DEF Version, Leaf
<1>3. VersionPath \in Kept(own, C)
  <2>1. \A p \in DOMAIN C : ~Inside(p, VersionPath) /\ ~Inside(VersionPath, p)
    BY CustomPaths, VersionApart
  <2> QED BY <2>1 DEF Kept
<1>4. VersionsAsked \subseteq Nat
  <2>1. Range(parts) \subseteq CustomParts
    BY RangeInType DEF CustomInv
  <2> QED BY <2>1, VersionedIs DEF VersionsAsked, VersionPath
<1>5. CASE parts = <<>>
  <2>1. DOMAIN C = {}
    BY <1>5, NoConfigEmpty DEF CustomInv
  <2>2. VersionsAsked = {}
    <3>1. Range(parts) = {}
      BY <1>5 DEF Range
    <3> QED BY <3>1 DEF VersionsAsked
  <2>3. told[VersionPath] = own[VersionPath]
    BY <1>1, <1>3, <2>1
  <2>4. {minor} \in SUBSET Nat /\ minor \in {minor} /\ \A y \in {minor} : y <= minor
    OBVIOUS
  <2>5. Max({minor}) = minor
    BY <2>4, MaximumIs
  <2>6. {minor} \union VersionsAsked = {minor}
    BY <2>2
  <2> QED BY <1>2, <2>3, <2>5, <2>6
<1>6. CASE parts # <<>>
  <2>1. /\ VersionPath \in DOMAIN C /\ v.val \in Nat \X Nat /\ v.val[2] \in VersionsAsked
        /\ \A w \in VersionsAsked : w <= v.val[2]
    BY <1>6 DEF CustomInv
  <2> HIDE DEF C, v
  <2>2. told[VersionPath] = Newer(own[VersionPath], v)
    BY <1>1, <1>2, <1>3, <2>1 DEF Combine, v
  <2>3. told[VersionPath].val[2] = IF v.val[2] >= minor THEN v.val[2] ELSE minor
    BY <1>2, <2>2 DEF Newer
  <2> HIDE DEF told
  <2> DEFINE S == {minor} \union VersionsAsked
             newest == told[VersionPath].val[2]
  <2>4. v.val[2] \in Nat
    BY <2>1
  <2>5. S \in SUBSET Nat /\ newest \in S /\ \A y \in S : y <= newest
    BY <1>4, <2>1, <2>3, <2>4
  <2> HIDE DEF S, newest
  <2>6. Max(S) = newest
    BY <2>5, MaximumIs
  <2> QED BY <2>6 DEF S, newest, told, C
<1> QED BY <1>5, <1>6

\* What the program added.
LEMMA CustomIsTold ==
    ASSUME CustomInv, NEW own, OwnConfig(own), ~Collides(own, clientConfigAccumulator),
           NEW part \in Range(parts), NEW path \in DOMAIN part,
           part[path].kind \in {"array", "scalar"}, ~Replaced(path)
    PROVE  LET told == Accumulate(own, clientConfigAccumulator)
           IN  /\ path \in DOMAIN told
               /\ IF part[path].kind = "scalar" THEN told[path] = part[path]
                  ELSE told[path].kind = "array" /\ IsSuffix(Added(path), told[path].val)
<1> DEFINE C == clientConfigAccumulator
           told == Accumulate(own, C)
<1> SUFFICES /\ path \in DOMAIN told
             /\ IF part[path].kind = "scalar" THEN told[path] = part[path]
                ELSE told[path].kind = "array" /\ IsSuffix(Added(path), told[path].val)
  OBVIOUS
<1>1. part \in CustomParts /\ parts \in Seq(CustomParts)
  BY RangeInType DEF CustomInv
<1>2. /\ path \in DOMAIN C
      /\ C[path] = IF part[path].kind = "array" THEN Array(Added(path)) ELSE part[path]
  BY DEF CustomInv
<1>3. /\ path \in DOMAIN told
      /\ told[path] = IF path \in Kept(own, C) THEN Combine(own[path], C[path]) ELSE C[path]
  <2> HIDE DEF C
  <2> QED BY <1>2 DEF Accumulate, Kept
<1> HIDE DEF told
<1>4. Added(path) \in Seq(Elements)
  BY <1>1, AddedIs
<1>5. IsPath(path) /\ IsPrefix(path, path) /\ path # VersionPath
  <2>1. IsPath(path) /\ path[Len(path)] # "version"
    BY <1>1, PartIs
  <2> QED BY <2>1, VersionPathIs, InsideElementwise
<1>6. CASE path \notin Kept(own, C)
  <2>1. told[path] = C[path]
    BY <1>3, <1>6
  <2>2. IsSuffix(Added(path), Added(path))
    BY <1>4, EverySuffix
  <2> QED BY <1>2, <1>3, <2>1, <2>2 DEF Array, Leaf
<1>7. CASE path \in Kept(own, C)
  <2>1. path \in DOMAIN own /\ own[path].kind \in {"array", "falsy"}
    <3>1. path \in DOMAIN own
      BY <1>7 DEF Kept
    <3>2. own[path].kind # "scalar"
      BY <1>2, <1>5, <3>1 DEF Collides
    <3>3. own[path].kind # "version"
      BY <1>5, <3>1 DEF OwnConfig
    <3> QED BY <3>1, <3>2, <3>3 DEF OwnConfig
  <2>2. CASE own[path].kind = "falsy"
    <3>1. told[path] = C[path]
      BY <1>3, <1>7, <2>2 DEF Combine
    <3>2. IsSuffix(Added(path), Added(path))
      BY <1>4, EverySuffix
    <3> QED BY <1>2, <1>3, <3>1, <3>2 DEF Array, Leaf
  <2>3. CASE own[path].kind = "array"
    <3>1. path \in ManagedLists /\ own[path].val \in Seq(Range(own[path].val))
      BY <2>1, <2>3 DEF OwnConfig
    <3>2. part[path].kind = "array"
      BY <1>1, <1>5, <3>1, ListsAgree
    <3>3. told[path] = Array(own[path].val \o Added(path))
      BY <1>2, <1>3, <1>7, <2>3, <3>2 DEF Combine, Array, Leaf
    <3>4. IsSuffix(Added(path), own[path].val \o Added(path))
      <4> DEFINE A == Range(own[path].val) \union Elements
                 r == own[path].val
                 s == Added(path)
      <4>1. r \in Seq(A) /\ s \in Seq(A)
        BY <1>4, <3>1
      <4> HIDE DEF A, r, s
      <4>2. IsSuffix(s, r \o s)
        BY <4>1, SuffixOfConcat
      <4> QED BY <4>2 DEF r, s
    <3>5. told[path].kind = "array" /\ told[path].val = own[path].val \o Added(path)
      BY <3>3 DEF Array, Leaf
    <3>6. IsSuffix(Added(path), told[path].val)
      BY <3>4, <3>5, Zenon
    <3> QED BY <1>3, <3>2, <3>5, <3>6
  <2> QED BY <2>1, <2>2, <2>3
<1> QED BY <1>6, <1>7

-----------------------------------------------------------------------------
(* What auth contributes *)

LEMMA PathOfTwo ==
    ASSUME NEW a, NEW b
    PROVE  /\ IsPath(<<a, b>>) /\ Len(<<a, b>>) = 2
           /\ <<a, b>>[1] = a /\ <<a, b>>[2] = b
<1> DEFINE s == <<a, b>>
           A == {a, b}
<1>1. a \in A /\ b \in A
  OBVIOUS
<1> HIDE DEF A
<1>2. s \in Seq(A) /\ Len(s) = 2 /\ s[1] = a /\ s[2] = b
  BY <1>1
<1> HIDE DEF s
<1>3. s # <<>> /\ s \in Seq(Range(s))
  BY <1>2, SequenceOfItsElements
<1> QED BY <1>2, <1>3 DEF IsPath, s

LEMMA PathOfThree ==
    ASSUME NEW a, NEW b, NEW c
    PROVE  /\ IsPath(<<a, b, c>>) /\ Len(<<a, b, c>>) = 3
           /\ <<a, b, c>>[1] = a /\ <<a, b, c>>[2] = b /\ <<a, b, c>>[3] = c
<1> DEFINE s == <<a, b, c>>
           A == {a, b, c}
<1>1. a \in A /\ b \in A /\ c \in A
  OBVIOUS
<1> HIDE DEF A
<1>2. s \in Seq(A) /\ Len(s) = 3 /\ s[1] = a /\ s[2] = b /\ s[3] = c
  BY <1>1
<1> HIDE DEF s
<1>3. s # <<>> /\ s \in Seq(Range(s))
  BY <1>2, SequenceOfItsElements
<1> QED BY <1>2, <1>3 DEF IsPath, s

LEMMA JsonParses ==
    ASSUME NEW A, NEW list \in Seq(A)
    PROVE  ParseJson(Json(list)) = list /\ Json(list) # <<>>
<1> DEFINE B == A \union {"["}
           head == <<"[">>
<1>1. head \in Seq(B) /\ Len(head) = 1 /\ list \in Seq(B)
  OBVIOUS
<1> HIDE DEF head, B
<1>2. /\ head \o list \in Seq(B) /\ Len(head \o list) = 1 + Len(list) /\ Len(list) \in Nat
      /\ \A i \in 1..Len(list) : (head \o list)[i + 1] = list[i]
  <2>1. Len(list) \in Nat
    OBVIOUS
  <2>2. head \o list \in Seq(B) /\ Len(head \o list) = Len(head) + Len(list)
    BY <1>1, ConcatProperties
  <2>3. head \o list = [k \in 1..(Len(head) + Len(list)) |->
                           IF k <= Len(head) THEN head[k] ELSE list[k - Len(head)]]
    BY <1>1, ConcatIsFunction
  <2>4. \A i \in 1..Len(list) : /\ i + 1 \in 1..(1 + Len(list)) /\ ~(i + 1 <= 1)
                                /\ (i + 1) - 1 = i
    BY <2>1
  <2>5. \A i \in 1..Len(list) : (head \o list)[i + 1] = list[i]
    BY <1>1, <2>3, <2>4
  <2> QED BY <1>1, <2>1, <2>2, <2>5
<1> DEFINE both == head \o list
<1> HIDE DEF both
<1>3. /\ Tail(both) \in Seq(B) /\ Len(Tail(both)) = Len(list)
      /\ \A i \in 1..Len(list) : Tail(both)[i] = list[i]
  <2>1. both # <<>> /\ both \in Seq(B) /\ Len(both) = 1 + Len(list)
    BY <1>2 DEF both
  <2>2. \A i \in 1..Len(list) : both[i + 1] = list[i]
    BY <1>2 DEF both
  <2> QED BY <1>2, <2>1, <2>2
<1>4. Tail(both) = list
  BY <1>1, <1>3, SeqEqual
<1>5. both # <<>>
  BY <1>2 DEF both
<1> QED BY <1>4, <1>5 DEF ParseJson, Json, both, head

\* The sets of pairs that the contributor puts together.
AuthValues(payload) ==
    {<<<<"auth", "user_pool_id">>, Scalar(payload.userPoolId)>>,
     <<<<"auth", "aws_region">>, Scalar(payload.authRegion)>>,
     <<<<"auth", "user_pool_client_id">>, Scalar(payload.webClientId)>>,
     <<<<"auth", "identity_pool_id">>, Scalar(payload.identityPoolId)>>,
     <<<<"auth", "unauthenticated_identities_enabled">>,
       Flag(payload.allowUnauthenticatedIdentities = <<"true">>)>>}

AuthListPairs(payload) ==
    {<<<<"auth", "mfa_methods">>, Array(ParseJson(payload.mfaTypes))>>,
     <<<<"auth", "standard_required_attributes">>, Array(ParseJson(payload.signupAttributes))>>,
     <<<<"auth", "username_attributes">>, Array(ParseJson(payload.usernameAttributes))>>,
     <<<<"auth", "user_verification_types">>, Array(ParseJson(payload.verificationMechanisms))>>}

AuthGroups(payload, minor) ==
    IF minor >= 3 THEN {<<<<"auth", "groups">>, Array(ParseJson(payload.groups))>>} ELSE {}

AuthPairs(payload, minor) ==
    AuthValues(payload) \union AuthListPairs(payload) \union AuthGroups(payload, minor)
    \union MfaConfiguration(payload.mfaConfiguration) \union PasswordPolicy(payload)
    \union OAuth(payload)

LEMMA AuthContributionIs ==
    ASSUME NEW payload, NEW minor
    PROVE  AuthContribution(payload, minor) = Config(AuthPairs(payload, minor))
<1>1. {<<<<"auth", l[1]>>, Array(ParseJson(payload[l[2]]))>> : l \in AuthLists}
      = AuthListPairs(payload)
  BY DEF AuthLists, AuthListPairs
<1>2. AuthContribution(payload, minor)
      = Config(AuthValues(payload)
               \union {<<<<"auth", l[1]>>, Array(ParseJson(payload[l[2]]))>> : l \in AuthLists}
               \union AuthGroups(payload, minor)
               \union MfaConfiguration(payload.mfaConfiguration) \union PasswordPolicy(payload)
               \union OAuth(payload))
  BY DEF AuthContribution, AuthValues, AuthGroups
<1> QED BY <1>1, <1>2 DEF AuthPairs

\* The places of these pairs.
Two(pair, fields) == pair[1] = <<"auth", pair[1][2]>> /\ Len(pair[1]) = 2 /\ pair[1][2] \in fields
Three(pair, section) ==
    pair[1] = <<"auth", section, pair[1][3]>> /\ Len(pair[1]) = 3 /\ pair[1][2] = section

ValueFields == {"user_pool_id", "aws_region", "user_pool_client_id", "identity_pool_id",
                "unauthenticated_identities_enabled"}
ListFields == {"mfa_methods", "standard_required_attributes", "username_attributes",
               "user_verification_types"}

LEMMA AuthPlaces ==
    ASSUME NEW payload, NEW minor
    PROVE  /\ \A pair \in AuthValues(payload) : Two(pair, ValueFields)
           /\ \A pair \in AuthListPairs(payload) : Two(pair, ListFields)
           /\ \A pair \in AuthGroups(payload, minor) : Two(pair, {"groups"})
           /\ \A pair \in MfaConfiguration(payload.mfaConfiguration) : Two(pair, {"mfa_configuration"})
           /\ \A pair \in PasswordPolicy(payload) : Three(pair, "password_policy")
           /\ \A pair \in OAuth(payload) : Three(pair, "oauth")
<1>1. \A field, leaf, fields : field \in fields => Two(<<<<"auth", field>>, leaf>>, fields)
  BY PathOfTwo DEF Two
<1>2. \A section, field, leaf : Three(<<<<"auth", section, field>>, leaf>>, section)
  BY PathOfThree DEF Three
<1>3. \A pair \in AuthValues(payload) : Two(pair, ValueFields)
  BY <1>1 DEF AuthValues, ValueFields
<1>4. \A pair \in AuthListPairs(payload) : Two(pair, ListFields)
  BY <1>1 DEF AuthListPairs, ListFields
<1>5. \A pair \in AuthGroups(payload, minor) : Two(pair, {"groups"})
  BY <1>1 DEF AuthGroups
<1>6. \A pair \in MfaConfiguration(payload.mfaConfiguration) : Two(pair, {"mfa_configuration"})
  BY <1>1 DEF MfaConfiguration
<1>7. \A pair \in PasswordPolicy(payload) : Three(pair, "password_policy")
  BY <1>2 DEF PasswordPolicy
<1>8. \A pair \in OAuth(payload) : Three(pair, "oauth")
  BY <1>2 DEF OAuth
<1> QED BY <1>3, <1>4, <1>5, <1>6, <1>7, <1>8

\* There is one leaf at every place.
OneLeaf(pairs) == \A p, q \in pairs : p[1] = q[1] => p[2] = q[2]

LEMMA AuthOneLeaf ==
    ASSUME NEW payload, NEW minor
    PROVE  OneLeaf(AuthPairs(payload, minor))
<1>1. \A f, g : <<"auth", f>> = <<"auth", g>> => f = g
  OBVIOUS
<1>2. \A s, f, g : <<"auth", s, f>> = <<"auth", s, g>> => f = g
  OBVIOUS
<1>3. OneLeaf(AuthValues(payload))
  BY DEF AuthValues, OneLeaf
<1>4. OneLeaf(AuthListPairs(payload))
  BY DEF AuthListPairs, OneLeaf
<1>5. OneLeaf(AuthGroups(payload, minor))
  BY DEF AuthGroups, OneLeaf
<1>6. OneLeaf(MfaConfiguration(payload.mfaConfiguration))
  BY DEF MfaConfiguration, OneLeaf
<1>7. OneLeaf(PasswordPolicy(payload))
  BY DEF PasswordPolicy, OneLeaf
<1>8. OneLeaf(OAuth(payload))
  BY DEF OAuth, OneLeaf
<1>9. ASSUME NEW p \in AuthPairs(payload, minor), NEW q \in AuthPairs(payload, minor), p[1] = q[1]
      PROVE  p[2] = q[2]
  <2>1. /\ "groups" \notin ValueFields \union ListFields
        /\ "mfa_configuration" \notin ValueFields \union ListFields
        /\ ValueFields \intersect ListFields = {}
    BY DEF ValueFields, ListFields
  <2>2. \/ p \in AuthValues(payload) /\ q \in AuthValues(payload)
        \/ p \in AuthListPairs(payload) /\ q \in AuthListPairs(payload)
        \/ p \in AuthGroups(payload, minor) /\ q \in AuthGroups(payload, minor)
        \/ p \in MfaConfiguration(payload.mfaConfiguration)
           /\ q \in MfaConfiguration(payload.mfaConfiguration)
        \/ p \in PasswordPolicy(payload) /\ q \in PasswordPolicy(payload)
        \/ p \in OAuth(payload) /\ q \in OAuth(payload)
    BY <1>9, <2>1, AuthPlaces DEF AuthPairs, Two, Three
  <2> QED BY <1>3, <1>4, <1>5, <1>6, <1>7, <1>8, <1>9, <2>2 DEF OneLeaf
<1> QED BY <1>9 DEF OneLeaf

\* A user pool: as constructed and as overridden.
Urls == {"https://example.com", "in", "out", "here", "there"}
Attributes == {"email", "phone_number"}
PoolType ==
    [unauthenticated : BOOLEAN,
     mfaConfiguration : {<<>>, <<"OFF">>, <<"OPTIONAL">>, <<"ON">>},
     enabledMfas : Seq({"SMS_MFA", "SOFTWARE_TOKEN_MFA"}),
     required : Seq(Attributes), usernameAttributes : Seq(Attributes),
     autoVerified : Seq(Attributes),
     policies : [defined : BOOLEAN, requirements : {Requirements}, minLength : {"8"}],
     providers : Seq(Range(Providers)), domain : BOOLEAN,
     callbackUrls : Seq(Urls), logoutUrls : Seq(Urls),
     groups : Seq({"admins", "editors"} \X Int)]

\* The outputs about a pool that are not empty strings.
AuthOutputs(p) ==
    [name \in {n \in AuthNames : AuthPayload(p)[n] # <<>>} |-> AuthPayload(p)[name]]

MfaNames(p) ==
    [i \in DOMAIN p.enabledMfas |-> IF p.enabledMfas[i] = "SMS_MFA" THEN "SMS" ELSE "TOTP"]

SocialName == [Google |-> "GOOGLE", Facebook |-> "FACEBOOK",
               SignInWithApple |-> "SIGN_IN_WITH_APPLE",
               LoginWithAmazon |-> "LOGIN_WITH_AMAZON", OIDC |-> "myOidc", SAML |-> "mySaml"]
SocialNames(p) == [i \in DOMAIN p.providers |-> SocialName[p.providers[i]]]

LEMMA PoolFields ==
    ASSUME NEW p \in PoolType
    PROVE  /\ p.unauthenticated \in BOOLEAN /\ p.policies.defined \in BOOLEAN
           /\ p.mfaConfiguration \in {<<>>, <<"OFF">>, <<"OPTIONAL">>, <<"ON">>}
           /\ p.enabledMfas \in Seq({"SMS_MFA", "SOFTWARE_TOKEN_MFA"})
           /\ p.required \in Seq(Attributes) /\ p.usernameAttributes \in Seq(Attributes)
           /\ p.autoVerified \in Seq(Attributes)
           /\ p.policies.requirements = Requirements /\ p.policies.minLength = "8"
           /\ p.providers \in Seq(Range(Providers))
           /\ p.callbackUrls \in Seq(Urls) /\ p.logoutUrls \in Seq(Urls)
           /\ p.groups \in Seq({"admins", "editors"} \X Int)
           /\ p # <<>>
<1>1. p # <<>>
  <2>1. DOMAIN p # {} /\ DOMAIN <<>> = {}
    BY DEF PoolType
  <2> QED BY <2>1
<1> QED BY <1>1 DEF PoolType

\* A field by field image of a sequence.
LEMMA ImageIsSequence ==
    ASSUME NEW A, NEW s \in Seq(A), NEW B, NEW f, DOMAIN f = DOMAIN s,
           f = [i \in DOMAIN f |-> f[i]], \A i \in DOMAIN s : f[i] \in B
    PROVE  f \in Seq(B) /\ Len(f) = Len(s)
<1>1. Len(s) \in Nat /\ DOMAIN s = 1..Len(s)
  OBVIOUS
<1>2. f \in [1..Len(s) -> B]
  BY <1>1
<1> QED BY <1>1, <1>2, FunctionIsSequence

LEMMA MfaNamesType ==
    ASSUME NEW p \in PoolType
    PROVE  MfaNames(p) \in Seq({"SMS", "TOTP"})
<1>1. p.enabledMfas \in Seq({"SMS_MFA", "SOFTWARE_TOKEN_MFA"})
  BY PoolFields
<1>2. /\ DOMAIN MfaNames(p) = DOMAIN p.enabledMfas
      /\ MfaNames(p) = [i \in DOMAIN MfaNames(p) |-> MfaNames(p)[i]]
      /\ \A i \in DOMAIN p.enabledMfas : MfaNames(p)[i] \in {"SMS", "TOTP"}
  BY DEF MfaNames
<1> QED BY <1>1, <1>2, ImageIsSequence

LEMMA ProviderNames ==
    Range(Providers) = {"Google", "Facebook", "LoginWithAmazon", "SignInWithApple", "OIDC", "SAML"}
  BY DEF Providers, Range

LEMMA SocialNamesType ==
    ASSUME NEW p \in PoolType
    PROVE  SocialNames(p) \in Seq(Range(SocialName)) /\ DOMAIN SocialNames(p) = DOMAIN p.providers
<1>1. p.providers \in Seq(Range(Providers))
  BY PoolFields
<1>2. \A i \in DOMAIN p.providers : p.providers[i] \in DOMAIN SocialName
  <2>1. DOMAIN SocialName = Range(Providers)
    BY ProviderNames DEF SocialName
  <2> QED BY <1>1, <2>1
<1>3. /\ DOMAIN SocialNames(p) = DOMAIN p.providers
      /\ SocialNames(p) = [i \in DOMAIN SocialNames(p) |-> SocialNames(p)[i]]
      /\ \A i \in DOMAIN p.providers : SocialNames(p)[i] \in Range(SocialName)
  BY <1>2 DEF SocialNames, Range
<1> QED BY <1>1, <1>3, ImageIsSequence

\* What is told of a pool.
LEMMA AuthOutputsAre ==
    ASSUME NEW p \in PoolType
    PROVE  LET o == AuthOutputs(p)
           IN  /\ o.allowUnauthenticatedIdentities = <<IF p.unauthenticated THEN "true" ELSE "false">>
               /\ ParseJson(o.mfaTypes) = MfaNames(p)
               /\ ParseJson(o.signupAttributes) = p.required
               /\ ParseJson(o.usernameAttributes) = p.usernameAttributes
               /\ ParseJson(o.verificationMechanisms) = p.autoVerified
               /\ ParseJson(o.groups) = p.groups
               /\ ParseJson(o.oauthScope) = <<"profile">>
               /\ o.mfaConfiguration = IF p.mfaConfiguration = <<>> THEN <<"OFF">>
                                       ELSE p.mfaConfiguration
               /\ "oauthRedirectSignIn" \in DOMAIN o <=> p.callbackUrls # <<>>
               /\ p.callbackUrls # <<>> => o.oauthRedirectSignIn = p.callbackUrls
               /\ "oauthRedirectSignOut" \in DOMAIN o <=> p.logoutUrls # <<>>
               /\ p.logoutUrls # <<>> => o.oauthRedirectSignOut = p.logoutUrls
               /\ "socialProviders" \in DOMAIN o <=> p.providers # <<>>
               /\ p.providers # <<>> => ParseJson(o.socialProviders) = SocialNames(p)
               /\ p.policies.defined =>
                     /\ {"passwordPolicyRequirements", "passwordPolicyMinLength"} \subseteq DOMAIN o
                     /\ ParseJson(o.passwordPolicyRequirements) = Requirements
                     /\ o.passwordPolicyMinLength = <<"8">>
<1> DEFINE o == AuthOutputs(p)
<1>1. \A n \in AuthNames : AuthPayload(p)[n] # <<>> => n \in DOMAIN o /\ o[n] = AuthPayload(p)[n]
  BY DEF AuthOutputs
<1>2. \A n : n \in DOMAIN o <=> n \in AuthNames /\ AuthPayload(p)[n] # <<>>
  BY DEF AuthOutputs
<1> HIDE DEF o
<1>3. /\ AuthPayload(p).allowUnauthenticatedIdentities = <<IF p.unauthenticated THEN "true" ELSE "false">>
      /\ AuthPayload(p).mfaTypes = Json(MfaNames(p))
      /\ AuthPayload(p).signupAttributes = Json(p.required)
      /\ AuthPayload(p).usernameAttributes = Json(p.usernameAttributes)
      /\ AuthPayload(p).verificationMechanisms = Json(p.autoVerified)
      /\ AuthPayload(p).groups = Json(p.groups)
      /\ AuthPayload(p).oauthScope = Json(<<"profile">>)
      /\ AuthPayload(p).mfaConfiguration = IF p.mfaConfiguration = <<>> THEN <<"OFF">>
                                           ELSE p.mfaConfiguration
      /\ AuthPayload(p).oauthRedirectSignIn = p.callbackUrls
      /\ AuthPayload(p).oauthRedirectSignOut = p.logoutUrls
      /\ AuthPayload(p).passwordPolicyMinLength =
            IF p.policies.defined THEN <<p.policies.minLength>> ELSE <<>>
      /\ AuthPayload(p).passwordPolicyRequirements =
            IF p.policies.defined THEN Json(p.policies.requirements) ELSE <<>>
  BY DEF AuthPayload, MfaTypes, MfaNames
<1>4. AuthPayload(p).socialProviders = IF p.providers = <<>> THEN <<>> ELSE Json(SocialNames(p))
  BY DEF AuthPayload, SocialProviders, SocialNames, SocialName
<1>5. /\ ParseJson(Json(MfaNames(p))) = MfaNames(p) /\ Json(MfaNames(p)) # <<>>
      /\ ParseJson(Json(SocialNames(p))) = SocialNames(p) /\ Json(SocialNames(p)) # <<>>
      /\ ParseJson(Json(p.required)) = p.required /\ Json(p.required) # <<>>
      /\ ParseJson(Json(p.usernameAttributes)) = p.usernameAttributes /\ Json(p.usernameAttributes) # <<>>
      /\ ParseJson(Json(p.autoVerified)) = p.autoVerified /\ Json(p.autoVerified) # <<>>
      /\ ParseJson(Json(p.groups)) = p.groups /\ Json(p.groups) # <<>>
  BY PoolFields, MfaNamesType, SocialNamesType, JsonParses
<1>6. /\ ParseJson(Json(<<"profile">>)) = <<"profile">> /\ Json(<<"profile">>) # <<>>
      /\ ParseJson(Json(Requirements)) = Requirements /\ Json(Requirements) # <<>>
  <2>1. <<"profile">> \in Seq({"profile"})
    OBVIOUS
  <2>2. Requirements \in Seq({"REQUIRES_NUMBERS", "REQUIRES_LOWERCASE", "REQUIRES_UPPERCASE",
                              "REQUIRES_SYMBOLS"})
    BY DEF Requirements
  <2> QED BY <2>1, <2>2, JsonParses
<1>7. {"allowUnauthenticatedIdentities", "mfaTypes", "signupAttributes", "usernameAttributes",
       "verificationMechanisms", "groups", "oauthScope", "mfaConfiguration", "oauthRedirectSignIn",
       "oauthRedirectSignOut", "passwordPolicyMinLength", "passwordPolicyRequirements",
       "socialProviders"} \subseteq AuthNames
  BY DEF AuthNames
<1>8. /\ <<IF p.unauthenticated THEN "true" ELSE "false">> # <<>>
      /\ (IF p.mfaConfiguration = <<>> THEN <<"OFF">> ELSE p.mfaConfiguration) # <<>>
      /\ <<p.policies.minLength>> # <<>>
  OBVIOUS
<1>9. p.policies.requirements = Requirements /\ p.policies.minLength = "8"
  BY PoolFields
<1> HIDE DEF Requirements
<1>10. /\ o.allowUnauthenticatedIdentities = <<IF p.unauthenticated THEN "true" ELSE "false">>
       /\ o.mfaTypes = Json(MfaNames(p))
       /\ o.signupAttributes = Json(p.required)
       /\ o.usernameAttributes = Json(p.usernameAttributes)
       /\ o.verificationMechanisms = Json(p.autoVerified)
       /\ o.groups = Json(p.groups)
       /\ o.oauthScope = Json(<<"profile">>)
       /\ o.mfaConfiguration = IF p.mfaConfiguration = <<>> THEN <<"OFF">>
                               ELSE p.mfaConfiguration
  BY <1>1, <1>3, <1>5, <1>6, <1>7, <1>8
<1>11. /\ "oauthRedirectSignIn" \in DOMAIN o <=> p.callbackUrls # <<>>
       /\ p.callbackUrls # <<>> => o.oauthRedirectSignIn = p.callbackUrls
       /\ "oauthRedirectSignOut" \in DOMAIN o <=> p.logoutUrls # <<>>
       /\ p.logoutUrls # <<>> => o.oauthRedirectSignOut = p.logoutUrls
  BY <1>1, <1>2, <1>3, <1>7
<1>12. /\ "socialProviders" \in DOMAIN o <=> p.providers # <<>>
       /\ p.providers # <<>> => o.socialProviders = Json(SocialNames(p))
  BY <1>1, <1>2, <1>4, <1>5, <1>7
<1>13. p.policies.defined =>
          /\ {"passwordPolicyRequirements", "passwordPolicyMinLength"} \subseteq DOMAIN o
          /\ o.passwordPolicyRequirements = Json(Requirements)
          /\ o.passwordPolicyMinLength = <<"8">>
  BY <1>1, <1>3, <1>6, <1>7, <1>8, <1>9
<1> QED BY <1>5, <1>6, <1>10, <1>11, <1>12, <1>13 DEF o

\* Leaves of the backend's own.
OwnLeaf(path, leaf) ==
    /\ leaf.kind \in {"array", "scalar", "falsy"}
    /\ leaf.kind = "array" =>
          path \in ManagedLists /\ leaf = Array(leaf.val) /\ leaf.val \in Seq(Range(leaf.val))

LEMMA PlainLeaves ==
    ASSUME NEW path, NEW leaf
    PROVE  /\ leaf.kind \in {"scalar", "falsy"} => OwnLeaf(path, leaf)
           /\ path \in ManagedLists =>
                 \A A : \A list \in Seq(A) : leaf = Array(list) => OwnLeaf(path, leaf)
<1>1. \A list : Array(list).kind = "array" /\ Array(list).val = list
  BY DEF Array, Leaf
<1>2. \A A : \A list \in Seq(A) : list \in Seq(Range(list))
  BY SequenceOfItsElements
<1>3. leaf.kind \in {"scalar", "falsy"} => OwnLeaf(path, leaf)
  BY DEF OwnLeaf
<1>4. path \in ManagedLists =>
         \A A : \A list \in Seq(A) : leaf = Array(list) => OwnLeaf(path, leaf)
  BY <1>1, <1>2 DEF OwnLeaf
<1> QED BY <1>3, <1>4

\* The lists of auth.
LEMMA AuthListsAreManaged ==
    /\ \A field \in ListFields \union {"groups"} : <<"auth", field>> \in ManagedLists
    /\ \A field \in {"identity_providers", "redirect_sign_in_uri", "redirect_sign_out_uri", "scopes"} :
          <<"auth", "oauth", field>> \in ManagedLists
<1>1. {l[1] : l \in AuthLists} = ListFields
  BY DEF AuthLists, ListFields
<1> QED BY <1>1 DEF ManagedLists

\* The providers that may be told.
LEMMA SelectedType ==
    ASSUME NEW A, NEW names \in Seq(A), NEW chosen
    PROVE  SelectNames(names, chosen) \in Seq(A)
<1> DEFINE f == [i \in DOMAIN names |-> IF names[i] \in chosen THEN <<names[i]>> ELSE <<>>]
<1>1. \A i \in DOMAIN names : f[i] \in Seq(A)
  OBVIOUS
<1>2. DOMAIN f = DOMAIN names /\ f = [i \in DOMAIN f |-> f[i]]
  OBVIOUS
<1>3. SelectNames(names, chosen) = FlattenSeq(f)
  BY DEF SelectNames
<1> HIDE DEF f
<1>4. f \in Seq(Seq(A))
  BY <1>1, <1>2, ImageIsSequence
<1> QED BY <1>3, <1>4, FlattenType

LEMMA AuthLeaves ==
    ASSUME NEW p \in PoolType, NEW minor
    PROVE  \A pair \in AuthPairs(AuthOutputs(p), minor) : OwnLeaf(pair[1], pair[2])
<1> DEFINE o == AuthOutputs(p)
           names == IF "socialProviders" \in DOMAIN o THEN ParseJson(o.socialProviders) ELSE <<>>
<1>1. /\ ParseJson(o.mfaTypes) \in Seq({"SMS", "TOTP"})
      /\ ParseJson(o.signupAttributes) \in Seq(Attributes)
      /\ ParseJson(o.usernameAttributes) \in Seq(Attributes)
      /\ ParseJson(o.verificationMechanisms) \in Seq(Attributes)
      /\ ParseJson(o.groups) \in Seq({"admins", "editors"} \X Int)
  BY AuthOutputsAre, PoolFields, MfaNamesType
<1>2. ParseJson(o.oauthScope) \in Seq({"profile"})
  <2>1. ParseJson(o.oauthScope) = <<"profile">>
    BY AuthOutputsAre
  <2>2. <<"profile">> \in Seq({"profile"})
    OBVIOUS
  <2> QED BY <2>1, <2>2
<1>3. /\ "oauthRedirectSignIn" \in DOMAIN o => o.oauthRedirectSignIn \in Seq(Urls)
      /\ "oauthRedirectSignOut" \in DOMAIN o => o.oauthRedirectSignOut \in Seq(Urls)
  BY AuthOutputsAre, PoolFields
<1>4. SelectNames(names, ValidIdentityProviders) \in Seq(Range(SocialName))
  <2>1. names \in Seq(Range(SocialName))
    <3>1. "socialProviders" \in DOMAIN o => ParseJson(o.socialProviders) \in Seq(Range(SocialName))
      BY AuthOutputsAre, SocialNamesType
    <3>2. <<>> \in Seq(Range(SocialName))
      OBVIOUS
    <3> QED BY <3>1, <3>2
  <2> HIDE DEF names
  <2> QED BY <2>1, SelectedType
<1> HIDE DEF o
<1>5. ASSUME NEW pair \in AuthValues(o) PROVE OwnLeaf(pair[1], pair[2])
  <2>1. pair[2].kind \in {"scalar", "falsy"}
    BY DEF AuthValues, Scalar, Flag, Leaf
  <2> QED BY <2>1, PlainLeaves
<1>6. ASSUME NEW pair \in AuthListPairs(o) PROVE OwnLeaf(pair[1], pair[2])
  <2>1. pair[1] \in ManagedLists
    BY AuthListsAreManaged DEF AuthListPairs, ListFields
  <2>2. (\E list \in Seq({"SMS", "TOTP"}) : pair[2] = Array(list))
        \/ \E list \in Seq(Attributes) : pair[2] = Array(list)
    BY <1>1 DEF AuthListPairs
  <2> QED BY <2>1, <2>2, PlainLeaves
<1>7. ASSUME NEW pair \in AuthGroups(o, minor) PROVE OwnLeaf(pair[1], pair[2])
  <2>1. pair[1] = <<"auth", "groups">> /\ pair[2] = Array(ParseJson(o.groups))
    BY DEF AuthGroups
  <2>2. pair[1] \in ManagedLists
    BY <2>1, AuthListsAreManaged
  <2> QED BY <1>1, <2>1, <2>2, PlainLeaves
<1>8. ASSUME NEW pair \in MfaConfiguration(o.mfaConfiguration) PROVE OwnLeaf(pair[1], pair[2])
  <2>1. pair[2].kind \in {"scalar", "falsy"}
    BY DEF MfaConfiguration, Scalar, Leaf
  <2> QED BY <2>1, PlainLeaves
<1>9. ASSUME NEW pair \in PasswordPolicy(o) PROVE OwnLeaf(pair[1], pair[2])
  <2>1. pair[2].kind \in {"scalar", "falsy"}
    BY DEF PasswordPolicy, Scalar, Flag, Leaf
  <2> QED BY <2>1, PlainLeaves
<1>10. ASSUME NEW pair \in OAuth(o) PROVE OwnLeaf(pair[1], pair[2])
  <2>1. /\ {"oauthRedirectSignIn", "oauthRedirectSignOut"} \subseteq DOMAIN o
        /\ pair \in {<<<<"auth", "oauth", "identity_providers">>,
                       Array(SelectNames(names, ValidIdentityProviders))>>,
                     <<<<"auth", "oauth", "redirect_sign_in_uri">>, Array(o.oauthRedirectSignIn)>>,
                     <<<<"auth", "oauth", "redirect_sign_out_uri">>, Array(o.oauthRedirectSignOut)>>,
                     <<<<"auth", "oauth", "response_type">>, Scalar(o.oauthResponseType)>>,
                     <<<<"auth", "oauth", "scopes">>, Array(ParseJson(o.oauthScope))>>,
                     <<<<"auth", "oauth", "domain">>,
                       Scalar(IF "oauthCognitoDomain" \in DOMAIN o
                              THEN o.oauthCognitoDomain ELSE <<>>)>>}
    BY DEF OAuth
  <2> HIDE DEF names
  <2>2. \A value : Scalar(value).kind \in {"scalar", "falsy"}
    BY DEF Scalar, Leaf
  <2>3. CASE pair = <<<<"auth", "oauth", "identity_providers">>,
                       Array(SelectNames(names, ValidIdentityProviders))>>
    <3>1. pair[1] \in ManagedLists /\ pair[2] = Array(SelectNames(names, ValidIdentityProviders))
      BY <2>3, AuthListsAreManaged
    <3> QED BY <1>4, <3>1, PlainLeaves
  <2>4. CASE pair = <<<<"auth", "oauth", "redirect_sign_in_uri">>, Array(o.oauthRedirectSignIn)>>
    <3>1. pair[1] \in ManagedLists /\ pair[2] = Array(o.oauthRedirectSignIn)
      BY <2>4, AuthListsAreManaged
    <3> QED BY <1>3, <2>1, <3>1, PlainLeaves
  <2>5. CASE pair = <<<<"auth", "oauth", "redirect_sign_out_uri">>, Array(o.oauthRedirectSignOut)>>
    <3>1. pair[1] \in ManagedLists /\ pair[2] = Array(o.oauthRedirectSignOut)
      BY <2>5, AuthListsAreManaged
    <3> QED BY <1>3, <2>1, <3>1, PlainLeaves
  <2>6. CASE pair = <<<<"auth", "oauth", "scopes">>, Array(ParseJson(o.oauthScope))>>
    <3>1. pair[1] \in ManagedLists /\ pair[2] = Array(ParseJson(o.oauthScope))
      BY <2>6, AuthListsAreManaged
    <3> QED BY <1>2, <3>1, PlainLeaves
  <2>7. CASE pair[2].kind \in {"scalar", "falsy"}
    BY <2>7, PlainLeaves
  <2> QED BY <2>1, <2>2, <2>3, <2>4, <2>5, <2>6, <2>7
<1> QED BY <1>5, <1>6, <1>7, <1>8, <1>9, <1>10 DEF AuthPairs, o

\* Every fact about the resources is among what the contributor makes of the outputs.
LEMMA AuthFactsTold ==
    ASSUME NEW p \in PoolType, asked \in Int, NEW fact \in AuthFacts(p)
    PROVE  fact \in AuthPairs(AuthOutputs(p), asked)
<1> DEFINE o == AuthOutputs(p)
           pairs == AuthPairs(o, asked)
           mode == CASE p.mfaConfiguration = <<"ON">> -> "REQUIRED"
                     [] p.mfaConfiguration = <<"OPTIONAL">> -> "OPTIONAL"
                     [] OTHER -> "NONE"
           method == [SMS_MFA |-> "SMS", SOFTWARE_TOKEN_MFA |-> "TOTP"]
           social == [Google |-> "GOOGLE", Facebook |-> "FACEBOOK",
                      LoginWithAmazon |-> "LOGIN_WITH_AMAZON",
                      SignInWithApple |-> "SIGN_IN_WITH_APPLE"]
           identities == FlattenSeq([i \in DOMAIN p.providers |->
                            IF p.providers[i] \in DOMAIN social
                            THEN <<social[p.providers[i]]>> ELSE <<>>])
<1> SUFFICES fact \in pairs
  OBVIOUS
<1>1. \/ fact = <<<<"auth", "unauthenticated_identities_enabled">>, Flag(p.unauthenticated)>>
      \/ fact = <<<<"auth", "mfa_configuration">>, Scalar(<<mode>>)>>
      \/ fact = <<<<"auth", "mfa_methods">>,
                  Array([i \in DOMAIN p.enabledMfas |-> method[p.enabledMfas[i]]])>>
      \/ fact = <<<<"auth", "username_attributes">>, Array(p.usernameAttributes)>>
      \/ fact = <<<<"auth", "user_verification_types">>, Array(p.autoVerified)>>
      \/ ~(asked < 3) /\ fact = <<<<"auth", "groups">>, Array(p.groups)>>
      \/ /\ p.policies.defined
         /\ \/ fact = <<<<"auth", "password_policy", "require_symbols">>, Flag(TRUE)>>
            \/ fact = <<<<"auth", "password_policy", "min_length">>, Scalar(<<p.policies.minLength>>)>>
      \/ /\ p.callbackUrls # <<>> /\ p.logoutUrls # <<>>
         /\ \/ fact = <<<<"auth", "oauth", "redirect_sign_in_uri">>, Array(p.callbackUrls)>>
            \/ fact = <<<<"auth", "oauth", "redirect_sign_out_uri">>, Array(p.logoutUrls)>>
            \/ fact = <<<<"auth", "oauth", "identity_providers">>, Array(identities)>>
  BY DEF AuthFacts
<1>2. /\ AuthValues(o) \subseteq pairs /\ AuthListPairs(o) \subseteq pairs
      /\ AuthGroups(o, asked) \subseteq pairs
      /\ MfaConfiguration(o.mfaConfiguration) \subseteq pairs
      /\ PasswordPolicy(o) \subseteq pairs /\ OAuth(o) \subseteq pairs
  BY DEF AuthPairs
<1> HIDE DEF o, pairs, mode, identities
<1>3. CASE fact = <<<<"auth", "unauthenticated_identities_enabled">>, Flag(p.unauthenticated)>>
  <2>1. o.allowUnauthenticatedIdentities = <<IF p.unauthenticated THEN "true" ELSE "false">>
    BY AuthOutputsAre DEF o
  <2>2. Flag(o.allowUnauthenticatedIdentities = <<"true">>) = Flag(p.unauthenticated)
    <3>1. p.unauthenticated \in BOOLEAN
      BY PoolFields
    <3>2. (o.allowUnauthenticatedIdentities = <<"true">>) <=> p.unauthenticated
      BY <2>1, <3>1
    <3> QED BY <3>1, <3>2 DEF Flag
  <2>3. <<<<"auth", "unauthenticated_identities_enabled">>,
          Flag(o.allowUnauthenticatedIdentities = <<"true">>)>> \in AuthValues(o)
    BY DEF AuthValues
  <2> QED BY <1>2, <1>3, <2>2, <2>3
<1>4. CASE fact = <<<<"auth", "mfa_configuration">>, Scalar(<<mode>>)>>
  <2>1. /\ o.mfaConfiguration = IF p.mfaConfiguration = <<>> THEN <<"OFF">> ELSE p.mfaConfiguration
        /\ p.mfaConfiguration \in {<<>>, <<"OFF">>, <<"OPTIONAL">>, <<"ON">>}
    BY AuthOutputsAre, PoolFields DEF o
  <2>2. fact \in MfaConfiguration(o.mfaConfiguration)
    BY <1>4, <2>1 DEF MfaConfiguration, mode
  <2> QED BY <1>2, <2>2
<1>5. CASE fact = <<<<"auth", "mfa_methods">>,
                    Array([i \in DOMAIN p.enabledMfas |-> method[p.enabledMfas[i]]])>>
  <2>1. [i \in DOMAIN p.enabledMfas |-> method[p.enabledMfas[i]]] = MfaNames(p)
    <3>1. p.enabledMfas \in Seq({"SMS_MFA", "SOFTWARE_TOKEN_MFA"})
      BY PoolFields
    <3>2. \A i \in DOMAIN p.enabledMfas : p.enabledMfas[i] \in {"SMS_MFA", "SOFTWARE_TOKEN_MFA"}
      BY <3>1
    <3>3. \A i \in DOMAIN p.enabledMfas :
             method[p.enabledMfas[i]] = IF p.enabledMfas[i] = "SMS_MFA" THEN "SMS" ELSE "TOTP"
      BY <3>2
    <3> QED BY <3>3 DEF MfaNames
  <2>2. ParseJson(o.mfaTypes) = MfaNames(p)
    BY AuthOutputsAre DEF o
  <2>3. fact \in AuthListPairs(o)
    BY <1>5, <2>1, <2>2 DEF AuthListPairs
  <2> QED BY <1>2, <2>3
<1>6. CASE fact = <<<<"auth", "username_attributes">>, Array(p.usernameAttributes)>>
  <2>1. ParseJson(o.usernameAttributes) = p.usernameAttributes
    BY AuthOutputsAre DEF o
  <2> QED BY <1>2, <1>6, <2>1 DEF AuthListPairs
<1>7. CASE fact = <<<<"auth", "user_verification_types">>, Array(p.autoVerified)>>
  <2>1. ParseJson(o.verificationMechanisms) = p.autoVerified
    BY AuthOutputsAre DEF o
  <2> QED BY <1>2, <1>7, <2>1 DEF AuthListPairs
<1>8. CASE ~(asked < 3) /\ fact = <<<<"auth", "groups">>, Array(p.groups)>>
  <2>1. ParseJson(o.groups) = p.groups
    BY AuthOutputsAre DEF o
  <2> QED BY <1>2, <1>8, <2>1 DEF AuthGroups
<1>9. CASE /\ p.policies.defined
           /\ \/ fact = <<<<"auth", "password_policy", "require_symbols">>, Flag(TRUE)>>
              \/ fact = <<<<"auth", "password_policy", "min_length">>, Scalar(<<p.policies.minLength>>)>>
  <2>1. /\ {"passwordPolicyRequirements", "passwordPolicyMinLength"} \subseteq DOMAIN o
        /\ ParseJson(o.passwordPolicyRequirements) = Requirements
        /\ o.passwordPolicyMinLength = <<"8">> /\ p.policies.minLength = "8"
    BY <1>9, AuthOutputsAre, PoolFields DEF o
  <2>2. "REQUIRES_SYMBOLS" \in Range(Requirements)
    BY DEF Requirements, Range
  <2> HIDE DEF Requirements
  <2>3. fact \in PasswordPolicy(o)
    <3>1. CASE fact = <<<<"auth", "password_policy", "require_symbols">>, Flag(TRUE)>>
      <4>1. <<<<"auth", "password_policy", "require_symbols">>,
              Flag("REQUIRES_SYMBOLS" \in Range(Requirements))>> \in PasswordPolicy(o)
        BY <2>1 DEF PasswordPolicy
      <4>2. Flag("REQUIRES_SYMBOLS" \in Range(Requirements)) = Flag(TRUE)
        BY <2>2 DEF Flag
      <4> QED BY <3>1, <4>1, <4>2
    <3>2. CASE fact = <<<<"auth", "password_policy", "min_length">>, Scalar(<<p.policies.minLength>>)>>
      BY <2>1, <3>2 DEF PasswordPolicy
    <3> QED BY <1>9, <3>1, <3>2
  <2> QED BY <1>2, <2>3
<1>10. CASE /\ p.callbackUrls # <<>> /\ p.logoutUrls # <<>>
            /\ \/ fact = <<<<"auth", "oauth", "redirect_sign_in_uri">>, Array(p.callbackUrls)>>
               \/ fact = <<<<"auth", "oauth", "redirect_sign_out_uri">>, Array(p.logoutUrls)>>
               \/ fact = <<<<"auth", "oauth", "identity_providers">>, Array(identities)>>
  <2> DEFINE names == IF "socialProviders" \in DOMAIN o THEN ParseJson(o.socialProviders) ELSE <<>>
  <2>1. /\ {"oauthRedirectSignIn", "oauthRedirectSignOut"} \subseteq DOMAIN o
        /\ o.oauthRedirectSignIn = p.callbackUrls /\ o.oauthRedirectSignOut = p.logoutUrls
        /\ names = IF p.providers # <<>> THEN SocialNames(p) ELSE <<>>
    BY <1>10, AuthOutputsAre DEF o
  <2>2. /\ <<<<"auth", "oauth", "identity_providers">>,
             Array(SelectNames(names, ValidIdentityProviders))>> \in OAuth(o)
        /\ <<<<"auth", "oauth", "redirect_sign_in_uri">>, Array(o.oauthRedirectSignIn)>> \in OAuth(o)
        /\ <<<<"auth", "oauth", "redirect_sign_out_uri">>, Array(o.oauthRedirectSignOut)>> \in OAuth(o)
    BY <2>1 DEF OAuth
  <2>3. SelectNames(names, ValidIdentityProviders) = identities
    <3>1. p.providers \in Seq(Range(Providers))
      BY PoolFields
    <3>2. names = SocialNames(p)
      <4>1. CASE p.providers # <<>>
        BY <2>1, <4>1
      <4>2. CASE p.providers = <<>>
        <5>1. SocialNames(p) \in Seq(Range(SocialName)) /\ DOMAIN SocialNames(p) = {}
          BY <4>2, SocialNamesType
        <5>2. SocialNames(p) = <<>>
          BY <5>1
        <5> QED BY <2>1, <4>2, <5>2
      <4> QED BY <4>1, <4>2
    <3>3. \A i \in DOMAIN p.providers : p.providers[i] \in Range(Providers)
      BY <3>1
    <3>4. ASSUME NEW i \in DOMAIN p.providers
          PROVE  (IF SocialName[p.providers[i]] \in ValidIdentityProviders
                  THEN <<SocialName[p.providers[i]]>> ELSE <<>>)
                 = IF p.providers[i] \in DOMAIN social THEN <<social[p.providers[i]]>> ELSE <<>>
      BY <3>3, ProviderNames DEF SocialName, ValidIdentityProviders
    <3>5. SelectNames(SocialNames(p), ValidIdentityProviders)
          = FlattenSeq([i \in DOMAIN p.providers |->
                IF SocialName[p.providers[i]] \in ValidIdentityProviders
                THEN <<SocialName[p.providers[i]]>> ELSE <<>>])
      <4>1. DOMAIN SocialNames(p) = DOMAIN p.providers
            /\ \A i \in DOMAIN p.providers : SocialNames(p)[i] = SocialName[p.providers[i]]
        BY DEF SocialNames
      <4>2. [i \in DOMAIN SocialNames(p) |->
                IF SocialNames(p)[i] \in ValidIdentityProviders THEN <<SocialNames(p)[i]>> ELSE <<>>]
            = [i \in DOMAIN p.providers |->
                IF SocialName[p.providers[i]] \in ValidIdentityProviders
                THEN <<SocialName[p.providers[i]]>> ELSE <<>>]
        BY <4>1
      <4> QED BY <4>2 DEF SelectNames
    <3>6. [i \in DOMAIN p.providers |->
                IF SocialName[p.providers[i]] \in ValidIdentityProviders
                THEN <<SocialName[p.providers[i]]>> ELSE <<>>]
          = [i \in DOMAIN p.providers |->
                IF p.providers[i] \in DOMAIN social THEN <<social[p.providers[i]]>> ELSE <<>>]
      BY <3>4
    <3> QED BY <3>2, <3>5, <3>6 DEF identities
  <2>4. fact \in OAuth(o)
    BY <1>10, <2>1, <2>2, <2>3
  <2> QED BY <1>2, <2>4
<1> QED BY <1>1, <1>3, <1>4, <1>5, <1>6, <1>7, <1>8, <1>9, <1>10

-----------------------------------------------------------------------------
(* What the storage aspect leaves *)

BucketEntry(i) == <<buckets[i].name, buckets[i].name \in WithAccess>>

\* The metadata and the list after so many buckets.
StoredAfter(f, k, st) ==
    /\ DOMAIN f[k].metadata = DOMAIN st.metadata \union (IF k = 0 THEN {} ELSE {"storage"})
    /\ \A key \in DOMAIN st.metadata : f[k].metadata[key] = st.metadata[key]
    /\ k # 0 => f[k].metadata["storage"] =
                    {"buckets"} \union (IF \E j \in 1..k : IsDefault(j) THEN DefaultNames ELSE {})
    /\ f[k].list = [j \in 1..k |-> BucketEntry(j)]

LEMMA StoredOneMore ==
    ASSUME NEW f, NEW st, "storage" \notin DOMAIN st.metadata, NEW m \in Nat,
           StoredAfter(f, m, st), Sound(f[m]),
           IsDefault(m + 1) => f[m].outputs \intersect DefaultNames = {},
           f[m + 1] = StoreBucket(f[m], m + 1)
    PROVE  StoredAfter(f, m + 1, st)
<1> DEFINE i == m + 1
           entry == IF IsDefault(i) THEN AddBackendOutputEntry(f[m], "storage", DefaultNames)
                    ELSE f[m]
           before == IF "storage" \in DOMAIN f[m].metadata THEN f[m].metadata["storage"] ELSE {}
           among == IF "storage" \in DOMAIN entry.metadata THEN entry.metadata["storage"] ELSE {}
<1>1. i \in Nat /\ i # 0 /\ 1..i = (1..m) \union {i} /\ i \notin 1..m /\ i \in 1..i
  OBVIOUS
<1>2. f[i] = AppendToBackendOutputList(entry, "storage", "buckets", BucketEntry(i))
  BY DEF StoreBucket, DefaultNames, BucketEntry
<1> HIDE DEF i
<1>3. /\ Sound(entry) /\ entry.list = f[m].list
      /\ DOMAIN entry.metadata \union {"storage"} = DOMAIN f[m].metadata \union {"storage"}
      /\ \A key \in DOMAIN f[m].metadata : key # "storage" => entry.metadata[key] = f[m].metadata[key]
      /\ among = before \union (IF IsDefault(i) THEN DefaultNames ELSE {})
  <2>1. CASE IsDefault(i)
    <3>1. entry = AddBackendOutputEntry(f[m], "storage", DefaultNames)
      BY <2>1
    <3> HIDE DEF entry, before, among
    <3>2. f[m].outputs \intersect DefaultNames = {}
      BY <2>1 DEF i
    <3>3. /\ Sound(entry) /\ entry.list = f[m].list
          /\ entry.metadata = WithMetadata(f[m], "storage", DefaultNames)
      BY <3>1, <3>2, EntryAdded
    <3>4. /\ DOMAIN entry.metadata = DOMAIN f[m].metadata \union {"storage"}
          /\ \A key \in DOMAIN f[m].metadata : key # "storage" =>
                entry.metadata[key] = f[m].metadata[key]
          /\ entry.metadata["storage"] = DefaultNames \union before
      BY <3>3 DEF WithMetadata, before
    <3>5. among = DefaultNames \union before
      BY <3>4 DEF among
    <3> QED BY <2>1, <3>3, <3>4, <3>5
  <2>2. CASE ~IsDefault(i)
    BY <2>2
  <2> QED BY <2>1, <2>2
<1> HIDE DEF entry
<1>4. f[i] = [metadata |-> WithMetadata(entry, "storage", {"buckets"}),
              outputs |-> entry.outputs \union {"buckets"},
              list |-> Append(entry.list, BucketEntry(i)), fault |-> FALSE]
  BY <1>2, <1>3, ListRecord
<1>5. f[i].metadata = WithMetadata(entry, "storage", {"buckets"})
      /\ f[i].list = Append(f[m].list, BucketEntry(i))
  BY <1>3, <1>4
<1>6. /\ DOMAIN f[i].metadata = DOMAIN f[m].metadata \union {"storage"}
      /\ \A key \in DOMAIN f[m].metadata : key # "storage" => f[i].metadata[key] = f[m].metadata[key]
      /\ f[i].metadata["storage"] = {"buckets"} \union among
  <2>1. /\ DOMAIN f[i].metadata = DOMAIN entry.metadata \union {"storage"}
        /\ \A key \in DOMAIN entry.metadata : key # "storage" => f[i].metadata[key] = entry.metadata[key]
        /\ f[i].metadata["storage"] = {"buckets"} \union among
    BY <1>5 DEF WithMetadata, among
  <2> QED BY <1>3, <2>1
<1>7. before = IF \E j \in 1..m : IsDefault(j)
               THEN {"buckets"} \union DefaultNames ELSE IF m = 0 THEN {} ELSE {"buckets"}
  <2>1. CASE m = 0
    <3>1. 1..m = {}
      BY <2>1
    <3>2. "storage" \notin DOMAIN f[m].metadata
      BY <2>1 DEF StoredAfter
    <3> QED BY <2>1, <3>1, <3>2 DEF before
  <2>2. CASE m # 0
    <3>1. /\ "storage" \in DOMAIN f[m].metadata
          /\ f[m].metadata["storage"] =
                {"buckets"} \union (IF \E j \in 1..m : IsDefault(j) THEN DefaultNames ELSE {})
      BY <2>2 DEF StoredAfter
    <3> QED BY <2>2, <3>1 DEF before
  <2> QED BY <2>1, <2>2
<1>8. {"buckets"} \union among
      = {"buckets"} \union (IF \E j \in 1..i : IsDefault(j) THEN DefaultNames ELSE {})
  BY <1>1, <1>3, <1>7
<1>9. f[i].list = [j \in 1..i |-> BucketEntry(j)]
  <2> DEFINE A == {BucketEntry(j) : j \in 1..i}
  <2>1. \A j \in 1..i : BucketEntry(j) \in A
    OBVIOUS
  <2>2. f[m].list = [j \in 1..m |-> BucketEntry(j)]
    BY DEF StoredAfter
  <2> HIDE DEF A
  <2>3. f[m].list \in [1..m -> A]
    BY <1>1, <2>1, <2>2
  <2>4. f[m].list \in Seq(A) /\ Len(f[m].list) = m /\ BucketEntry(i) \in A
    BY <1>1, <2>1, <2>3, FunctionIsSequence
  <2>5. Append(f[m].list, BucketEntry(i))
        = [k \in 1..(m + 1) |-> IF k = m + 1 THEN BucketEntry(i) ELSE f[m].list[k]]
    BY <2>4, AppendIsFunction
  <2>6. \A k \in 1..i : (IF k = m + 1 THEN BucketEntry(i) ELSE f[m].list[k]) = BucketEntry(k)
    BY <1>1, <2>2 DEF i
  <2> QED BY <1>5, <2>5, <2>6 DEF i
<1>10. StoredAfter(f, i, st)
  BY <1>1, <1>6, <1>8, <1>9 DEF StoredAfter
<1> QED BY <1>10 DEF i

\* The entries of the buckets, and one bucket that is the default.
LEMMA StoringIs ==
    ASSUME buckets \in Seq(BucketSet), buckets # <<>>, ~(Cardinality(Defaults) > 1),
           ~(Defaults = {} /\ Len(buckets) > 1),
           NEW st, Sound(st), st.outputs \intersect StorageNames = {},
           "storage" \notin DOMAIN st.metadata, st.list = <<>>
    PROVE  LET new == StoreStorageOutputs(st)
           IN  /\ DOMAIN new.metadata = DOMAIN st.metadata \union {"storage"}
               /\ \A key \in DOMAIN st.metadata : new.metadata[key] = st.metadata[key]
               /\ new.metadata["storage"] = StorageNames
               /\ new.list = [i \in DOMAIN buckets |-> BucketEntry(i)]
<1> DEFINE n == Len(buckets)
<1>1. n \in Nat /\ n # 0 /\ DOMAIN buckets = 1..n /\ n \in 0..n
  OBVIOUS
<1>2. PICK f : /\ StoreStorageOutputs(st) = f[n]
               /\ StoresBuckets(f, n, st)
               /\ \A k \in 0..n : SoundAfter(f, k, st)
               /\ \A k \in 1..n :
                     IsDefault(k) => Sound(f[k - 1]) /\ f[k - 1].outputs \intersect DefaultNames = {}
  BY StoringSteps
<1> DEFINE T == {k \in 0..n : StoredAfter(f, k, st)}
<1> HIDE DEF n
<1>3. \A k \in 0..n : f[k] = IF k = 0 THEN st ELSE StoreBucket(f[k - 1], k)
  BY <1>2 DEF StoresBuckets
<1>4. 0 \in T
  <2>1. f[0] = st /\ 0 \in 0..n
    BY <1>1, <1>3
  <2>2. [j \in 1..0 |-> BucketEntry(j)] = <<>>
    OBVIOUS
  <2>3. StoredAfter(f, 0, st)
    BY <2>1, <2>2 DEF StoredAfter
  <2> QED BY <2>1, <2>3
<1>5. ASSUME NEW m \in 0..(n - 1), m \in T PROVE m + 1 \in T
  <2>1. m \in Nat /\ m \in 0..n /\ m + 1 \in 1..n /\ m + 1 \in 0..n /\ m + 1 # 0 /\ (m + 1) - 1 = m
    BY <1>1
  <2>2. f[m + 1] = StoreBucket(f[m], m + 1) /\ Sound(f[m])
        /\ (IsDefault(m + 1) => f[m].outputs \intersect DefaultNames = {})
    BY <1>2, <1>3, <2>1 DEF SoundAfter
  <2>3. StoredAfter(f, m, st)
    BY <1>5
  <2>4. StoredAfter(f, m + 1, st)
    BY <2>1, <2>2, <2>3, StoredOneMore
  <2> QED BY <2>1, <2>4
<1>6. \A m \in 0..n : m \in T
  BY <1>1, <1>4, <1>5, InductionUpTo
<1>7. StoredAfter(f, n, st)
  BY <1>1, <1>6
<1>8. \E j \in 1..n : IsDefault(j)
  <2>1. CASE n = 1
    BY <2>1 DEF IsDefault, n
  <2>2. CASE n # 1
    <3>1. Defaults # {}
      BY <1>1, <2>2 DEF n
    <3> QED BY <1>1, <3>1 DEF Defaults, IsDefault
  <2> QED BY <2>1, <2>2
<1> QED BY <1>1, <1>2, <1>7, <1>8 DEF StoredAfter, StorageNames

-----------------------------------------------------------------------------
(* The user pool *)

LEMMA ShortSequences ==
    ASSUME NEW A
    PROVE  /\ <<>> \in Seq(A)
           /\ \A a \in A : <<a>> \in Seq(A)
           /\ \A a, b \in A : <<a, b>> \in Seq(A)
  OBVIOUS

LEMMA ConcatType ==
    ASSUME NEW A, NEW r \in Seq(A), NEW s \in Seq(A)
    PROVE  r \o s \in Seq(A)
  BY ConcatProperties

LEMMA ConstructType ==
    ASSUME NEW props \in AuthProps
    PROVE  Construct(props) \in PoolType
<1> DEFINE external == props.external
<1>1. /\ props.email \in BOOLEAN /\ props.phone \in BOOLEAN /\ props.sms \in BOOLEAN
      /\ props.totp \in BOOLEAN /\ props.mode \in {"none", "OFF", "OPTIONAL", "REQUIRED"}
      /\ external \in ExternalProviders /\ props.groups \in {<<>>, <<"admins", "editors">>}
  BY DEF AuthProps
<1>2. /\ external.callbackUrls \in {<<>>, <<"in">>} /\ external.logoutUrls \in {<<>>, <<"out">>}
      /\ external.domainPrefix \in BOOLEAN
  <2> HIDE DEF external
  <2>1. CASE external = NoExternal
    BY <2>1 DEF NoExternal
  <2>2. CASE external # NoExternal
    BY <1>1, <2>2 DEF ExternalProviders
  <2> QED BY <2>1, <2>2
<1> HIDE DEF external
<1>3. Chosen(props.email, props.phone) \in Seq(Attributes)
  <2>1. /\ (IF props.email THEN <<"email">> ELSE <<>>) \in Seq(Attributes)
        /\ (IF props.phone THEN <<"phone_number">> ELSE <<>>) \in Seq(Attributes)
    BY ShortSequences DEF Attributes
  <2> QED BY <2>1, ConcatType DEF Chosen
<1>4. CfnMfas(props) \in Seq({"SMS_MFA", "SOFTWARE_TOKEN_MFA"})
  <2> DEFINE A == {"SMS_MFA", "SOFTWARE_TOKEN_MFA"}
             r == IF props.sms THEN <<"SMS_MFA">> ELSE <<>>
             s == IF props.totp THEN <<"SOFTWARE_TOKEN_MFA">> ELSE <<>>
  <2>1. r \in Seq(A) /\ s \in Seq(A) /\ <<>> \in Seq(A)
    BY ShortSequences
  <2>2. CfnMfas(props) = IF ~MfaInUse(props) THEN <<>> ELSE r \o s
    BY DEF CfnMfas
  <2> HIDE DEF A, r, s
  <2>3. r \o s \in Seq(A)
    BY <2>1, ConcatType
  <2> QED BY <2>1, <2>2, <2>3 DEF A
<1>5. SelectNames(Providers, external.providers) \in Seq(Range(Providers))
  <2>1. Providers \in Seq(Range(Providers))
    <3>1. Providers \in Seq({"Google", "Facebook", "LoginWithAmazon", "SignInWithApple", "OIDC",
                             "SAML"})
      BY DEF Providers
    <3> QED BY <3>1, SequenceOfItsElements
  <2> QED BY <2>1, SelectedType
<1>6. (IF external = NoExternal THEN <<"https://example.com">> ELSE external.callbackUrls) \in Seq(Urls)
      /\ external.logoutUrls \in Seq(Urls)
  BY <1>2, ShortSequences DEF Urls
<1>7. [i \in DOMAIN props.groups |-> <<props.groups[i], i - 1>>] \in Seq({"admins", "editors"} \X Int)
  <2> DEFINE g == [i \in DOMAIN props.groups |-> <<props.groups[i], i - 1>>]
  <2>1. props.groups \in Seq({"admins", "editors"})
    BY <1>1, ShortSequences
  <2>2. \A i \in DOMAIN props.groups :
            props.groups[i] \in {"admins", "editors"} /\ i - 1 \in Int
    BY <2>1
  <2>3. \A i \in DOMAIN props.groups : g[i] \in {"admins", "editors"} \X Int
    BY <2>2
  <2>4. DOMAIN g = DOMAIN props.groups /\ g = [i \in DOMAIN g |-> g[i]]
    OBVIOUS
  <2> HIDE DEF g
  <2>5. g \in Seq({"admins", "editors"} \X Int)
    BY <2>1, <2>3, <2>4, ImageIsSequence
  <2> QED BY <2>5 DEF g
<1>8. (CASE props.mode = "REQUIRED" -> <<"ON">> [] props.mode = "none" -> <<>>
         [] OTHER -> <<props.mode>>) \in {<<>>, <<"OFF">>, <<"OPTIONAL">>, <<"ON">>}
  BY <1>1
<1>9. Construct(props) =
        [unauthenticated |-> TRUE,
         mfaConfiguration |-> CASE props.mode = "REQUIRED" -> <<"ON">>
                                [] props.mode = "none" -> <<>>
                                [] OTHER -> <<props.mode>>,
         enabledMfas |-> CfnMfas(props),
         required |-> Chosen(props.email, props.phone),
         usernameAttributes |-> Chosen(props.email, props.phone),
         autoVerified |-> Chosen(props.email, props.phone),
         policies |-> [defined |-> TRUE, requirements |-> Requirements, minLength |-> "8"],
         providers |-> SelectNames(Providers, external.providers),
         domain |-> external.domainPrefix,
         callbackUrls |-> IF external = NoExternal THEN <<"https://example.com">>
                          ELSE external.callbackUrls,
         logoutUrls |-> external.logoutUrls,
         groups |-> [i \in DOMAIN props.groups |-> <<props.groups[i], i - 1>>]]
  BY DEF Construct, external
<1>10. [defined |-> TRUE, requirements |-> Requirements, minLength |-> "8"]
       \in [defined : BOOLEAN, requirements : {Requirements}, minLength : {"8"}]
  OBVIOUS
<1> HIDE DEF Requirements
<1> QED BY <1>2, <1>3, <1>4, <1>5, <1>6, <1>7, <1>8, <1>9, <1>10 DEF PoolType

LEMMA OverriddenType ==
    ASSUME NEW p \in PoolType, NEW what \in Overrides
    PROVE  Overridden(p, what) \in PoolType
<1>1. /\ <<"SOFTWARE_TOKEN_MFA">> \in Seq({"SMS_MFA", "SOFTWARE_TOKEN_MFA"})
      /\ <<"here", "there">> \in Seq(Urls)
  BY ShortSequences DEF Urls
<1> DEFINE g == [i \in DOMAIN p.groups |-> <<p.groups[i][1], 7>>]
<1>2. g \in Seq({"admins", "editors"} \X Int)
  <2>1. p.groups \in Seq({"admins", "editors"} \X Int)
    BY PoolFields
  <2>2. \A i \in DOMAIN p.groups : p.groups[i][1] \in {"admins", "editors"}
    BY <2>1
  <2>3. DOMAIN g = DOMAIN p.groups /\ g = [i \in DOMAIN g |-> g[i]]
        /\ \A i \in DOMAIN p.groups : g[i] \in {"admins", "editors"} \X Int
    BY <2>2
  <2> HIDE DEF g
  <2> QED BY <2>1, <2>3, ImageIsSequence
<1>3. CASE what = "unauthenticated"
  BY <1>3 DEF Overridden, PoolType
<1>4. CASE what = "mfa"
  BY <1>1, <1>4 DEF Overridden, PoolType
<1>5. CASE what = "policies"
  BY <1>5 DEF Overridden, PoolType
<1>6. CASE what = "logoutUrls"
  BY <1>1, <1>6 DEF Overridden, PoolType
<1>7. CASE what = "precedence"
  <2>1. Overridden(p, what) = [p EXCEPT !.groups = g]
    BY <1>7 DEF Overridden
  <2> HIDE DEF g
  <2> QED BY <1>2, <2>1 DEF PoolType
<1> QED BY <1>3, <1>4, <1>5, <1>6, <1>7 DEF Overrides

\* There is no auth, or a pool as constructed and overridden.
PoolInv == pool = <<>> \/ pool \in PoolType

LEMMA PoolPreserved == PoolInv /\ [OutputsNext]_outputsVars => PoolInv'
<1> SUFFICES ASSUME PoolInv, [OutputsNext]_outputsVars PROVE PoolInv'
  OBVIOUS
<1>1. CASE DefineBackend
  <2>1. PICK definition \in Definitions :
            \/ UNCHANGED pool
            \/ pool' = IF definition.auths = {} THEN <<>>
                       ELSE Construct(CHOOSE props \in definition.auths : TRUE)
    BY <1>1 DEF DefineBackend
  <2>2. definition.auths # {} => (CHOOSE props \in definition.auths : TRUE) \in AuthProps
    BY DefinitionsAssumption
  <2> QED BY <2>1, <2>2, ConstructType DEF PoolInv
<1>2. ASSUME NEW what \in Overrides, Override(what) PROVE PoolInv'
  <2>1. pool # <<>> /\ pool' = Overridden(pool, what)
    BY <1>2 DEF Override
  <2> QED BY <2>1, OverriddenType DEF PoolInv
<1>3. CASE UNCHANGED pool
  BY <1>3 DEF PoolInv
<1> QED BY <1>1, <1>2, <1>3 DEF OutputsNext, AddOutput, Visit, Synthesize, GenerateClientConfig,
                                 outputsVars

-----------------------------------------------------------------------------
(* The metadata name the outputs of every package *)

DeclaredKeys ==
    {"platform"} \union (IF pool = <<>> THEN {} ELSE {"auth"})
                 \union (IF isStorageProcessed THEN {"storage"} ELSE {})
                 \union (IF parts = <<>> THEN {} ELSE {"custom"})

NamesOf(key) ==
    CASE key = "platform" -> PlatformOutputNames
      [] key = "auth" -> AuthNames
      [] key = "storage" -> StorageNames
      [] OTHER -> {"customOutputs"}

BucketList == [i \in DOMAIN buckets |-> BucketEntry(i)]

Declares(st, keys) ==
    DOMAIN st.metadata = keys /\ \A key \in keys : st.metadata[key] = NamesOf(key)

StrategyInv ==
    /\ synthesis = "new" =>
          /\ strategy = NewStrategy /\ pool = <<>> /\ parts = <<>>
          /\ ~isStorageProcessed /\ visited = 0
    /\ synthesis \notin {"new", "refused"} =>
          /\ Declares(strategy, DeclaredKeys)
          /\ strategy.list = IF isStorageProcessed THEN BucketList ELSE <<>>
          /\ visited # 0 => isStorageProcessed
          /\ isStorageProcessed =>
                /\ buckets # <<>> /\ ~(Cardinality(Defaults) > 1)
                /\ ~(Defaults = {} /\ Len(buckets) > 1)

LEMMA EntryDeclares ==
    ASSUME NEW st, Sound(st), NEW keys, Declares(st, keys), NEW key, key \notin keys,
           st.outputs \intersect NamesOf(key) = {}
    PROVE  LET more == AddBackendOutputEntry(st, key, NamesOf(key))
           IN  Declares(more, keys \union {key}) /\ more.list = st.list
<1> DEFINE more == AddBackendOutputEntry(st, key, NamesOf(key))
<1>1. more.metadata = WithMetadata(st, key, NamesOf(key)) /\ more.list = st.list
  BY EntryAdded
<1> HIDE DEF more
<1>2. Declares(more, keys \union {key})
  BY <1>1 DEF WithMetadata, Declares
<1> QED BY <1>1, <1>2 DEF more

LEMMA DefinitionTells ==
    StrategyInv /\ PoolInv /\ PoolInv' /\ DeclaredInv /\ DefineBackend => StrategyInv'
<1> SUFFICES ASSUME StrategyInv, PoolInv', DeclaredInv, DefineBackend PROVE StrategyInv'
  OBVIOUS
<1> DEFINE platform == AddBackendOutputEntry(strategy, "platform", PlatformOutputNames)
<1>1. /\ strategy = NewStrategy /\ pool = <<>> /\ parts = <<>> /\ ~isStorageProcessed /\ visited = 0
      /\ UNCHANGED <<parts, isStorageProcessed, visited>>
  BY DEF StrategyInv, DefineBackend
<1>2. Sound(strategy) /\ strategy.outputs = {} /\ strategy.list = <<>> /\ Declares(strategy, {})
  <2>1. DOMAIN Config({}) = {}
    BY DEF Config
  <2> QED BY <1>1, <2>1 DEF NewStrategy, Declares, Sound
<1>3. /\ NamesOf("platform") = PlatformOutputNames /\ NamesOf("auth") = AuthNames
      /\ PlatformOutputNames \intersect AuthNames = {}
  BY DEF NamesOf, PlatformOutputNames, AuthNames
<1>4. /\ Sound(platform) /\ platform.outputs = PlatformOutputNames
      /\ Declares(platform, {"platform"}) /\ platform.list = <<>>
  <2> HIDE DEF platform
  <2>1. Sound(platform) /\ platform.outputs = strategy.outputs \union PlatformOutputNames
    <3>1. Sound(strategy) /\ strategy.outputs \intersect PlatformOutputNames = {}
      BY <1>2
    <3> QED BY <3>1, EntryAdded DEF platform
  <2>2. Declares(platform, {} \union {"platform"}) /\ platform.list = strategy.list
    BY <1>2, <1>3, EntryDeclares DEF platform
  <2> QED BY <1>2, <2>1, <2>2
<1>5. PICK definition \in Definitions :
          \/ synthesis' = "refused"
          \/ /\ synthesis' = "defined"
             /\ pool' = IF definition.auths = {} THEN <<>>
                        ELSE Construct(CHOOSE props \in definition.auths : TRUE)
             /\ strategy' = IF definition.auths = {} THEN platform
                            ELSE AddBackendOutputEntry(platform, "auth", DOMAIN AuthPayload(pool'))
  BY DEF DefineBackend
<1> HIDE DEF platform
<1>6. CASE synthesis' = "refused"
  BY <1>6 DEF StrategyInv
<1>7. CASE /\ synthesis' = "defined" /\ definition.auths = {}
           /\ pool' = <<>> /\ strategy' = platform
  BY <1>1, <1>4, <1>7 DEF StrategyInv, DeclaredKeys, Declares
<1>8. CASE /\ synthesis' = "defined" /\ definition.auths # {}
           /\ pool' = Construct(CHOOSE props \in definition.auths : TRUE)
           /\ strategy' = AddBackendOutputEntry(platform, "auth", DOMAIN AuthPayload(pool'))
  <2>1. pool' # <<>>
    <3>1. (CHOOSE props \in definition.auths : TRUE) \in AuthProps
      BY <1>8, DefinitionsAssumption
    <3>2. pool' \in PoolType
      BY <1>8, <3>1, ConstructType
    <3> QED BY <3>2, PoolFields
  <2>2. strategy' = AddBackendOutputEntry(platform, "auth", NamesOf("auth"))
    BY <1>3, <1>8, AuthPayloadNames
  <2>3. platform.outputs \intersect NamesOf("auth") = {} /\ "auth" \notin {"platform"}
    BY <1>3, <1>4
  <2>4. Declares(strategy', {"platform"} \union {"auth"}) /\ strategy'.list = platform.list
    <3>1. Sound(platform) /\ Declares(platform, {"platform"})
      BY <1>4
    <3> DEFINE more == AddBackendOutputEntry(platform, "auth", NamesOf("auth"))
    <3>2. Declares(more, {"platform"} \union {"auth"}) /\ more.list = platform.list
      BY <2>3, <3>1, EntryDeclares
    <3> HIDE DEF more
    <3>3. strategy' = more
      BY <2>2 DEF more
    <3> QED BY <3>2, <3>3
  <2>5. DeclaredKeys' = {"platform"} \union {"auth"}
    BY <1>1, <2>1 DEF DeclaredKeys
  <2>6. Declares(strategy', DeclaredKeys') /\ strategy'.list = <<>>
    BY <1>4, <2>4, <2>5
  <2>7. Declares(strategy, DeclaredKeys)'
    BY <2>6 DEF Declares, NamesOf
  <2> QED BY <1>1, <1>8, <2>6, <2>7 DEF StrategyInv
<1> QED BY <1>5, <1>6, <1>7, <1>8

LEMMA CustomPartTells ==
    ASSUME NEW part \in CustomParts, StrategyInv, DeclaredInv, CustomInv, AddOutput(part)
    PROVE  StrategyInv'
<1>1. /\ synthesis = "defined" /\ UNCHANGED <<pool, buckets, visited, isStorageProcessed>>
      /\ \/ synthesis' = "refused"
         \/ /\ synthesis' = synthesis /\ parts' = Append(parts, part)
            /\ strategy' = IF "custom" \in DOMAIN strategy.metadata THEN strategy
                           ELSE AddBackendOutputEntry(strategy, "custom", {"customOutputs"})
  BY DEF AddOutput
<1>2. CASE synthesis' = "refused"
  BY <1>2 DEF StrategyInv
<1>3. CASE /\ synthesis' = "defined" /\ parts' = Append(parts, part)
           /\ strategy' = IF "custom" \in DOMAIN strategy.metadata THEN strategy
                          ELSE AddBackendOutputEntry(strategy, "custom", {"customOutputs"})
  <2>1. parts' # <<>>
    <3>1. parts \in Seq(CustomParts)
      BY DEF CustomInv
    <3> QED BY <1>3, <3>1
  <2>2. Declares(strategy, DeclaredKeys)
    BY <1>1 DEF StrategyInv
  <2>3. "custom" \in DeclaredKeys <=> parts # <<>>
    BY DEF DeclaredKeys
  <2>4. DeclaredKeys' = DeclaredKeys \union {"custom"}
    BY <1>1, <2>1 DEF DeclaredKeys
  <2>5. Declares(strategy', DeclaredKeys') /\ strategy'.list = strategy.list
    <3>1. CASE "custom" \in DOMAIN strategy.metadata
      <4>1. "custom" \in DeclaredKeys
        BY <2>2, <3>1 DEF Declares
      <4>2. DeclaredKeys' = DeclaredKeys
        BY <2>4, <4>1
      <4> QED BY <1>3, <2>2, <3>1, <4>2
    <3>2. CASE "custom" \notin DOMAIN strategy.metadata
      <4>1. /\ Sound(strategy) /\ "custom" \notin DeclaredKeys
            /\ NamesOf("custom") = {"customOutputs"}
            /\ strategy.outputs \intersect NamesOf("custom") = {}
        BY <2>2, <3>2 DEF DeclaredInv, Declares, NamesOf
      <4>2. strategy' = AddBackendOutputEntry(strategy, "custom", NamesOf("custom"))
        BY <1>3, <3>2, <4>1
      <4> DEFINE more == AddBackendOutputEntry(strategy, "custom", NamesOf("custom"))
      <4>3. Declares(more, DeclaredKeys \union {"custom"}) /\ more.list = strategy.list
        BY <2>2, <4>1, EntryDeclares
      <4> HIDE DEF more
      <4>4. strategy' = more
        BY <4>2 DEF more
      <4> QED BY <2>4, <4>3, <4>4
    <3> QED BY <3>1, <3>2
  <2>6. Declares(strategy, DeclaredKeys)'
    BY <2>5 DEF Declares, NamesOf
  <2>7. BucketList' = BucketList /\ Defaults' = Defaults
    BY <1>1 DEF BucketList, BucketEntry, Defaults
  <2> QED BY <1>1, <1>3, <2>5, <2>6, <2>7 DEF StrategyInv
<1> QED BY <1>1, <1>2, <1>3

LEMMA VisitTells == StrategyInv /\ DeclaredInv /\ Visit => StrategyInv'
<1> SUFFICES ASSUME StrategyInv, DeclaredInv, Visit PROVE StrategyInv'
  OBVIOUS
<1>1. /\ synthesis \in {"defined", "visiting"} /\ visited < Len(buckets) /\ isStorageProcessed' = TRUE
      /\ UNCHANGED <<pool, buckets, parts>>
  BY DEF Visit
<1>2. /\ Defaults' = Defaults /\ BucketList' = BucketList
      /\ buckets \in Seq(BucketSet) /\ Sound(strategy)
      /\ strategy.outputs \intersect StorageNames # {} => isStorageProcessed
  BY <1>1 DEF Defaults, BucketList, BucketEntry, DeclaredInv
<1>3. /\ Declares(strategy, DeclaredKeys)
      /\ strategy.list = IF isStorageProcessed THEN BucketList ELSE <<>>
      /\ isStorageProcessed =>
            /\ buckets # <<>> /\ ~(Cardinality(Defaults) > 1)
            /\ ~(Defaults = {} /\ Len(buckets) > 1)
  BY <1>1 DEF StrategyInv
<1>4. CASE isStorageProcessed /\ UNCHANGED <<synthesis, strategy>>
  <2>1. DeclaredKeys' = DeclaredKeys
    BY <1>1, <1>4 DEF DeclaredKeys
  <2>2. Declares(strategy, DeclaredKeys)'
    BY <1>3, <1>4, <2>1 DEF Declares, NamesOf
  <2> QED BY <1>1, <1>2, <1>3, <1>4, <2>2 DEF StrategyInv
<1>5. CASE synthesis' = "refused"
  BY <1>5 DEF StrategyInv
<1>6. CASE /\ ~isStorageProcessed /\ ~(Cardinality(Defaults) > 1)
           /\ ~(Defaults = {} /\ Len(buckets) > 1)
           /\ strategy' = StoreStorageOutputs(strategy)
           /\ synthesis' \in {"fault", "visiting"}
  <2>1. buckets # <<>>
    <3>1. Len(buckets) # 0
      BY <1>1 DEF StrategyInv
    <3> QED BY <3>1
  <2>2. strategy.list = <<>> /\ strategy.outputs \intersect StorageNames = {}
    BY <1>2, <1>3, <1>6
  <2>3. "storage" \notin DeclaredKeys /\ DeclaredKeys' = DeclaredKeys \union {"storage"}
    BY <1>1, <1>6 DEF DeclaredKeys
  <2> DEFINE new == StoreStorageOutputs(strategy)
  <2>4. /\ DOMAIN new.metadata = DOMAIN strategy.metadata \union {"storage"}
        /\ \A key \in DOMAIN strategy.metadata : new.metadata[key] = strategy.metadata[key]
        /\ new.metadata["storage"] = StorageNames
        /\ new.list = BucketList
    <3>1. "storage" \notin DOMAIN strategy.metadata
      BY <1>3, <2>3 DEF Declares
    <3>2. Sound(strategy) /\ buckets \in Seq(BucketSet)
      BY <1>2
    <3> QED BY <1>6, <2>1, <2>2, <3>1, <3>2, StoringIs DEF BucketList
  <2> HIDE DEF new
  <2>5. strategy' = new
    BY <1>6 DEF new
  <2>6. Declares(strategy, DeclaredKeys)'
    <3>1. NamesOf("storage") = StorageNames
      BY DEF NamesOf
    <3>2. \A key \in DeclaredKeys : strategy'.metadata[key] = NamesOf(key)
      BY <1>3, <2>4, <2>5 DEF Declares
    <3>3. DOMAIN strategy'.metadata = DeclaredKeys \union {"storage"}
          /\ strategy'.metadata["storage"] = NamesOf("storage")
      BY <1>3, <2>4, <2>5, <3>1 DEF Declares
    <3>4. Declares(strategy', DeclaredKeys')
      BY <2>3, <3>2, <3>3 DEF Declares
    <3> QED BY <3>4 DEF Declares, NamesOf
  <2> QED BY <1>1, <1>2, <1>6, <2>1, <2>4, <2>5, <2>6 DEF StrategyInv
<1> QED BY <1>4, <1>5, <1>6 DEF Visit

LEMMA StrategyPreserved ==
    /\ StrategyInv /\ DeclaredInv /\ CustomInv /\ PoolInv /\ PoolInv'
    /\ [OutputsNext]_outputsVars
    => StrategyInv'
<1> SUFFICES ASSUME StrategyInv, DeclaredInv, CustomInv, PoolInv, PoolInv',
                    [OutputsNext]_outputsVars
             PROVE  StrategyInv'
  OBVIOUS
<1>1. CASE DefineBackend
  BY <1>1, DefinitionTells
<1>2. ASSUME NEW what \in Overrides, Override(what) PROVE StrategyInv'
  <2>1. /\ synthesis = "defined" /\ pool # <<>> /\ pool' = Overridden(pool, what)
        /\ UNCHANGED <<synthesis, strategy, parts, isStorageProcessed, buckets, visited>>
    BY <1>2 DEF Override
  <2>2. pool' # <<>>
    <3>1. pool' \in PoolType
      BY <2>1, OverriddenType DEF PoolInv
    <3> QED BY <3>1, PoolFields
  <2>3. DeclaredKeys' = DeclaredKeys /\ BucketList' = BucketList /\ Defaults' = Defaults
    BY <2>1, <2>2 DEF DeclaredKeys, BucketList, BucketEntry, Defaults
  <2>4. Declares(strategy, DeclaredKeys)' <=> Declares(strategy, DeclaredKeys)
    BY <2>1, <2>3 DEF Declares, NamesOf
  <2> QED BY <2>1, <2>3, <2>4 DEF StrategyInv
<1>3. ASSUME NEW part \in CustomParts, AddOutput(part) PROVE StrategyInv'
  BY <1>3, CustomPartTells
<1>4. CASE Visit
  BY <1>4, VisitTells
<1>5. CASE /\ synthesis \notin {"new", "refused"} /\ synthesis' # "new"
           /\ UNCHANGED <<pool, strategy, parts, isStorageProcessed, buckets, visited>>
  <2>1. DeclaredKeys' = DeclaredKeys /\ BucketList' = BucketList /\ Defaults' = Defaults
    BY <1>5 DEF DeclaredKeys, BucketList, BucketEntry, Defaults
  <2>2. Declares(strategy, DeclaredKeys)' <=> Declares(strategy, DeclaredKeys)
    BY <1>5, <2>1 DEF Declares, NamesOf
  <2> QED BY <1>5, <2>1, <2>2 DEF StrategyInv
<1>6. CASE Synthesize
  BY <1>5, <1>6 DEF Synthesize
<1>7. ASSUME NEW minor \in MinorVersions, GenerateClientConfig(minor) PROVE StrategyInv'
  BY <1>5, <1>7 DEF GenerateClientConfig
<1>8. CASE UNCHANGED outputsVars
  <2>1. DeclaredKeys' = DeclaredKeys /\ BucketList' = BucketList /\ Defaults' = Defaults
        /\ UNCHANGED <<synthesis, pool, strategy, parts, isStorageProcessed, buckets, visited>>
    BY <1>8 DEF outputsVars, DeclaredKeys, BucketList, BucketEntry, Defaults
  <2>2. Declares(strategy, DeclaredKeys)' <=> Declares(strategy, DeclaredKeys)
    BY <2>1 DEF Declares, NamesOf
  <2> QED BY <2>1, <2>2 DEF StrategyInv
<1> QED BY <1>1, <1>2, <1>3, <1>4, <1>6, <1>7, <1>8 DEF OutputsNext

-----------------------------------------------------------------------------
(* The deployed stack and the contributions made of it *)

Told == {"synthesized", "configured"}

StackInv ==
    synthesis \in Told =>
        /\ visited = Len(buckets)
        /\ stack.metadata = strategy.metadata
        /\ stack.outputs = [name \in strategy.outputs |-> Produced(name)]

DefaultBucket == CHOOSE i \in DOMAIN buckets : IsDefault(i)

StoragePairs(minor) ==
    {<<<<"storage", "aws_region">>, Scalar(<<"region">>)>>,
     <<<<"storage", "bucket_name">>, Scalar(<<buckets[DefaultBucket].name>>)>>}
    \union (IF minor = 0 THEN {}
            ELSE {<<<<"storage", "buckets">>, Array(
                [i \in DOMAIN BucketList |->
                    <<BucketList[i][1], BucketList[i][2] /\ minor >= 2>>])>>})

LEMMA ProducedOutputs ==
    ASSUME StackInv, StrategyInv, DeclaredInv, synthesis \in Told, NEW key \in DeclaredKeys
    PROVE  /\ key \in DOMAIN stack.metadata /\ stack.metadata[key] = NamesOf(key)
           /\ \A name \in NamesOf(key) : stack.outputs[name] = Produced(name)
           /\ Payload(key) = [name \in {n \in NamesOf(key) : Produced(n) # <<>>} |-> Produced(name)]
<1>1. /\ stack.metadata = strategy.metadata
      /\ stack.outputs = [name \in strategy.outputs |-> Produced(name)]
      /\ Declares(strategy, DeclaredKeys) /\ Sound(strategy)
  BY DEF StackInv, StrategyInv, DeclaredInv, Told
<1>2. /\ key \in DOMAIN stack.metadata /\ stack.metadata[key] = NamesOf(key)
      /\ NamesOf(key) \subseteq strategy.outputs
  BY <1>1 DEF Declares, Sound
<1>3. \A name \in NamesOf(key) : stack.outputs[name] = Produced(name)
  BY <1>1, <1>2
<1>4. Payload(key) = [name \in {n \in NamesOf(key) : Produced(n) # <<>>} |-> Produced(name)]
  BY <1>2, <1>3 DEF Payload
<1> QED BY <1>2, <1>3, <1>4

LEMMA AuthContributes ==
    ASSUME StackInv, StrategyInv, DeclaredInv, synthesis \in Told, NEW minor
    PROVE  Contributions(minor).auth =
              IF pool = <<>> THEN NoConfig ELSE Config(AuthPairs(AuthOutputs(pool), minor))
<1>1. "auth" \in DOMAIN stack.metadata <=> pool # <<>>
  BY DEF StackInv, StrategyInv, Declares, DeclaredKeys, Told
<1>2. pool # <<>> => Payload("auth") = AuthOutputs(pool)
  <2> SUFFICES ASSUME pool # <<>> PROVE Payload("auth") = AuthOutputs(pool)
    OBVIOUS
  <2>1. "auth" \in DeclaredKeys /\ NamesOf("auth") = AuthNames
    BY DEF DeclaredKeys, NamesOf
  <2>2. \A n \in AuthNames : Produced(n) = AuthPayload(pool)[n]
    <3>1. \A n \in AuthNames : n \notin PlatformOutputNames /\ n # "storageRegion"
             /\ n # "bucketName" /\ n # "buckets" /\ n # "customOutputs"
      BY DEF AuthNames, PlatformOutputNames
    <3> QED BY <3>1 DEF Produced
  <2>3. Payload("auth") = [name \in {n \in AuthNames : Produced(n) # <<>>} |-> Produced(name)]
    BY <2>1, ProducedOutputs
  <2> QED BY <2>2, <2>3 DEF AuthOutputs
<1>3. Contributions(minor).auth = IF "auth" \in DOMAIN stack.metadata
                                  THEN AuthContribution(Payload("auth"), minor) ELSE NoConfig
  BY DEF Contributions
<1> QED BY <1>1, <1>2, <1>3, AuthContributionIs

LEMMA BucketListParses ==
    ASSUME DeclaredInv
    PROVE  ParseJson(Json(BucketList)) = BucketList /\ Json(BucketList) # <<>>
<1>1. Len(buckets) \in Nat /\ DOMAIN buckets = 1..Len(buckets)
  BY DEF DeclaredInv
<1> DEFINE A == {BucketEntry(i) : i \in 1..Len(buckets)}
<1>2. BucketList \in [1..Len(buckets) -> A]
  BY <1>1 DEF BucketList
<1> HIDE DEF A
<1>3. BucketList \in Seq(A)
  BY <1>1, <1>2, FunctionIsSequence
<1> QED BY <1>3, JsonParses

LEMMA ProcessedIffBuckets ==
    ASSUME StackInv, StrategyInv, DeclaredInv, synthesis \in Told
    PROVE  /\ isStorageProcessed <=> buckets # <<>>
           /\ isStorageProcessed => strategy.list = BucketList
<1>1. /\ visited = Len(buckets) /\ (visited # 0 => isStorageProcessed)
      /\ isStorageProcessed => buckets # <<>>
      /\ isStorageProcessed => strategy.list = BucketList
  BY DEF StackInv, StrategyInv, Told
<1>2. buckets # <<>> => Len(buckets) # 0
  BY DEF DeclaredInv
<1> QED BY <1>1, <1>2

LEMMA StorageContributes ==
    ASSUME StackInv, StrategyInv, DeclaredInv, synthesis \in Told, NEW minor
    PROVE  Contributions(minor).storage =
              IF buckets = <<>> THEN NoConfig ELSE Config(StoragePairs(minor))
<1>1. "storage" \in DOMAIN stack.metadata <=> buckets # <<>>
  BY ProcessedIffBuckets DEF StackInv, StrategyInv, Declares, DeclaredKeys, Told
<1>2. Contributions(minor).storage = IF "storage" \in DOMAIN stack.metadata
                                     THEN StorageContribution(Payload("storage"), minor) ELSE NoConfig
  BY DEF Contributions
<1>3. buckets # <<>> => StorageContribution(Payload("storage"), minor) = Config(StoragePairs(minor))
  <2> SUFFICES ASSUME buckets # <<>>
               PROVE  StorageContribution(Payload("storage"), minor) = Config(StoragePairs(minor))
    OBVIOUS
  <2> DEFINE o == Payload("storage")
  <2>1. "storage" \in DeclaredKeys /\ NamesOf("storage") = StorageNames /\ strategy.list = BucketList
    BY ProcessedIffBuckets DEF DeclaredKeys, NamesOf
  <2>2. /\ Produced("storageRegion") = <<"region">>
        /\ Produced("bucketName") = <<buckets[DefaultBucket].name>>
        /\ Produced("buckets") = Json(BucketList)
    BY <2>1 DEF Produced, PlatformOutputNames, DefaultBucket
  <2>3. o = [name \in {n \in StorageNames : Produced(n) # <<>>} |-> Produced(name)]
    BY <2>1, ProducedOutputs
  <2> HIDE DEF o
  <2>4. /\ <<"region">> # <<>> /\ <<buckets[DefaultBucket].name>> # <<>>
        /\ Json(BucketList) # <<>> /\ ParseJson(Json(BucketList)) = BucketList
    BY BucketListParses
  <2>5. /\ o.storageRegion = <<"region">> /\ o.bucketName = <<buckets[DefaultBucket].name>>
        /\ o.buckets = Json(BucketList)
    BY <2>2, <2>3, <2>4 DEF StorageNames, DefaultNames
  <2>6. StorageContribution(o, minor)
        = Config({<<<<"storage", "aws_region">>, Scalar(o.storageRegion)>>,
                  <<<<"storage", "bucket_name">>, Scalar(o.bucketName)>>}
                 \union (IF minor = 0 THEN {}
                         ELSE {<<<<"storage", "buckets">>, Array(
                             [i \in DOMAIN ParseJson(o.buckets) |->
                                 <<ParseJson(o.buckets)[i][1],
                                   ParseJson(o.buckets)[i][2] /\ minor >= 2>>])>>}))
    BY DEF StorageContribution
  <2>7. StorageContribution(o, minor) = Config(StoragePairs(minor))
    BY <2>4, <2>5, <2>6, Zenon DEF StoragePairs
  <2> QED BY <2>7 DEF o
<1> QED BY <1>1, <1>2, <1>3

LEMMA OthersContribute ==
    ASSUME StackInv, StrategyInv, DeclaredInv, CustomInv, synthesis \in Told, NEW minor
    PROVE  /\ Contributions(minor).version = Config({<<VersionPath, Version(1, minor)>>})
           /\ Contributions(minor).custom = clientConfigAccumulator
<1>1. Contributions(minor).version = Config({<<VersionPath, Version(1, minor)>>})
  BY DEF Contributions, VersionContribution, VersionPath
<1>2. "custom" \in DOMAIN stack.metadata <=> parts # <<>>
  BY DEF StackInv, StrategyInv, Declares, DeclaredKeys, Told
<1>3. parts # <<>> => Payload("custom").customOutputs = clientConfigAccumulator
  <2> SUFFICES ASSUME parts # <<>> PROVE Payload("custom").customOutputs = clientConfigAccumulator
    OBVIOUS
  <2>1. "custom" \in DeclaredKeys /\ NamesOf("custom") = {"customOutputs"}
    BY DEF DeclaredKeys, NamesOf
  <2>2. Produced("customOutputs") = clientConfigAccumulator
    BY DEF Produced, PlatformOutputNames
  <2>3. clientConfigAccumulator # <<>>
    <3>1. VersionPath \in DOMAIN clientConfigAccumulator /\ DOMAIN <<>> = {}
      BY DEF CustomInv
    <3> QED BY <3>1
  <2>4. Payload("custom") = [name \in {n \in {"customOutputs"} : Produced(n) # <<>>} |-> Produced(name)]
    BY <2>1, ProducedOutputs
  <2> QED BY <2>2, <2>3, <2>4
<1>4. Contributions(minor).custom = IF "custom" \in DOMAIN stack.metadata
                                    THEN Payload("custom").customOutputs ELSE NoConfig
  BY DEF Contributions
<1>5. parts = <<>> => clientConfigAccumulator = NoConfig
  BY DEF CustomInv
<1> QED BY <1>1, <1>2, <1>3, <1>4, <1>5

-----------------------------------------------------------------------------
(* The backend's own config *)

\* What one contributor leaves: under the name of its section.
Section(part, name) ==
    \A path \in DOMAIN part : IsPath(path) /\ path[1] = name /\ OwnLeaf(path, part[path])

LEMMA SectionOfPairs ==
    ASSUME NEW pairs, NEW name, OneLeaf(pairs),
           \A pair \in pairs : IsPath(pair[1]) /\ pair[1][1] = name /\ OwnLeaf(pair[1], pair[2])
    PROVE  /\ Section(Config(pairs), name)
           /\ \A pair \in pairs :
                 pair[1] \in DOMAIN Config(pairs) /\ Config(pairs)[pair[1]] = pair[2]
<1>1. Section(Config(pairs), name)
  BY ConfigFrom DEF Section
<1>2. \A pair \in pairs :
         pair[1] \in DOMAIN Config(pairs) /\ Config(pairs)[pair[1]] = pair[2]
  BY ConfigAt DEF OneLeaf
<1> QED BY <1>1, <1>2

LEMMA NoSection == \A name : Section(NoConfig, name)
  BY NoConfigEmpty DEF Section

LEMMA AuthIsSection ==
    ASSUME NEW p \in PoolType, NEW minor
    PROVE  LET pairs == AuthPairs(AuthOutputs(p), minor)
           IN  /\ Section(Config(pairs), "auth")
               /\ \A pair \in pairs :
                     pair[1] \in DOMAIN Config(pairs) /\ Config(pairs)[pair[1]] = pair[2]
<1> DEFINE o == AuthOutputs(p)
           pairs == AuthPairs(o, minor)
<1>1. OneLeaf(pairs) /\ \A pair \in pairs : OwnLeaf(pair[1], pair[2])
  BY AuthOneLeaf, AuthLeaves
<1> HIDE DEF o
<1>2. ASSUME NEW pair \in pairs PROVE IsPath(pair[1]) /\ pair[1][1] = "auth"
  <2>1. \/ \E field : pair[1] = <<"auth", field>>
        \/ \E section, field : pair[1] = <<"auth", section, field>>
    <3>1. (\E fields : Two(pair, fields)) \/ \E section : Three(pair, section)
      BY AuthPlaces DEF AuthPairs
    <3> QED BY <3>1 DEF Two, Three
  <2> QED BY <2>1, PathOfTwo, PathOfThree
<1> HIDE DEF pairs
<1>3. /\ Section(Config(pairs), "auth")
      /\ \A pair \in pairs :
            pair[1] \in DOMAIN Config(pairs) /\ Config(pairs)[pair[1]] = pair[2]
  BY <1>1, <1>2, SectionOfPairs
<1> QED BY <1>3 DEF pairs, o

LEMMA StorageIsSection ==
    ASSUME DeclaredInv, NEW minor
    PROVE  LET pairs == StoragePairs(minor)
           IN  /\ Section(Config(pairs), "storage")
               /\ \A pair \in pairs :
                     pair[1] \in DOMAIN Config(pairs) /\ Config(pairs)[pair[1]] = pair[2]
<1> DEFINE pairs == StoragePairs(minor)
           entry(i) == <<BucketList[i][1], BucketList[i][2] /\ minor >= 2>>
           list == [i \in DOMAIN BucketList |-> entry(i)]
           A == {entry(i) : i \in DOMAIN BucketList}
<1>1. list \in Seq(A)
  <2>1. Len(buckets) \in Nat /\ DOMAIN BucketList = 1..Len(buckets)
    <3>1. Len(buckets) \in Nat /\ DOMAIN buckets = 1..Len(buckets)
      BY DEF DeclaredInv
    <3> QED BY <3>1 DEF BucketList
  <2> HIDE DEF entry
  <2>2. list \in [1..Len(buckets) -> A]
    BY <2>1
  <2> HIDE DEF list, A
  <2> QED BY <2>1, <2>2, FunctionIsSequence
<1>2. \A pair \in pairs :
         \/ pair = <<<<"storage", "aws_region">>, Scalar(<<"region">>)>>
         \/ pair = <<<<"storage", "bucket_name">>, Scalar(<<buckets[DefaultBucket].name>>)>>
         \/ pair = <<<<"storage", "buckets">>, Array(list)>>
  BY DEF StoragePairs
<1> HIDE DEF pairs, list, A
<1>3. OneLeaf(pairs)
  BY <1>2 DEF OneLeaf
<1>4. ASSUME NEW pair \in pairs
      PROVE  IsPath(pair[1]) /\ pair[1][1] = "storage" /\ OwnLeaf(pair[1], pair[2])
  <2>1. \E field : pair[1] = <<"storage", field>>
    BY <1>2
  <2>2. OwnLeaf(pair[1], pair[2])
    <3>1. CASE pair = <<<<"storage", "buckets">>, Array(list)>>
      <4>1. pair[1] \in ManagedLists /\ pair[2] = Array(list)
        BY <3>1 DEF ManagedLists
      <4> QED BY <1>1, <4>1, PlainLeaves
    <3>2. CASE \E value : pair[2] = Scalar(value)
      <4>1. pair[2].kind \in {"scalar", "falsy"}
        BY <3>2 DEF Scalar, Leaf
      <4> QED BY <4>1, PlainLeaves
    <3> QED BY <1>2, <3>1, <3>2
  <2> QED BY <2>1, <2>2, PathOfTwo
<1>5. /\ Section(Config(pairs), "storage")
      /\ \A pair \in pairs :
            pair[1] \in DOMAIN Config(pairs) /\ Config(pairs)[pair[1]] = pair[2]
  BY <1>3, <1>4, SectionOfPairs
<1> QED BY <1>5 DEF pairs

\* The sections lie beside one another, with the version.
LEMMA ManagedIs ==
    ASSUME NEW c, NEW minor \in Nat, Section(c.auth, "auth"), Section(c.storage, "storage"),
           c.version = Config({<<VersionPath, Version(1, minor)>>})
    PROVE  LET own == Managed(c)
           IN  /\ OwnConfig(own)
               /\ VersionPath \in DOMAIN own /\ own[VersionPath] = Version(1, minor)
               /\ \A path \in DOMAIN c.auth : path \in DOMAIN own /\ own[path] = c.auth[path]
               /\ \A path \in DOMAIN c.storage : path \in DOMAIN own /\ own[path] = c.storage[path]
<1> DEFINE a == Accumulate(NoConfig, c.auth)
           s == Accumulate(a, c.storage)
           own == Accumulate(s, c.version)
<1>1. DOMAIN c.version = {VersionPath} /\ c.version[VersionPath] = Version(1, minor)
  BY DEF Config
<1>2. /\ DOMAIN a = DOMAIN c.auth
      /\ \A p \in DOMAIN c.auth : a[p] = c.auth[p]
  <2>1. \A p \in DOMAIN c.auth : IsPath(p)
    BY DEF Section
  <2>2. /\ DOMAIN a = DOMAIN NoConfig \union DOMAIN c.auth
        /\ \A p \in DOMAIN c.auth : a[p] = c.auth[p]
    BY <2>1, NoConfigEmpty, AccumulateApart
  <2> QED BY <2>2, NoConfigEmpty
<1> HIDE DEF a
<1>3. /\ DOMAIN s = DOMAIN c.auth \union DOMAIN c.storage
      /\ \A p \in DOMAIN c.auth : s[p] = c.auth[p]
      /\ \A p \in DOMAIN c.storage : s[p] = c.storage[p]
  <2>1. /\ \A p \in DOMAIN a : IsPath(p) /\ p[1] = "auth"
        /\ \A p \in DOMAIN c.storage : IsPath(p) /\ p[1] = "storage"
    BY <1>2 DEF Section
  <2>2. \A p \in DOMAIN a, path \in DOMAIN c.storage : p[1] # path[1]
    BY <2>1
  <2> DEFINE part == c.storage
  <2> HIDE DEF part
  <2>3. /\ \A p \in DOMAIN a : IsPath(p)
        /\ \A path \in DOMAIN part : IsPath(path)
        /\ \A p \in DOMAIN a, path \in DOMAIN part : p[1] # path[1]
    BY <2>1, <2>2 DEF part
  <2>4. /\ DOMAIN Accumulate(a, part) = DOMAIN a \union DOMAIN part
        /\ \A p \in DOMAIN a : Accumulate(a, part)[p] = a[p]
        /\ \A p \in DOMAIN part : Accumulate(a, part)[p] = part[p]
    BY <2>3, AccumulateApart
  <2> QED BY <1>2, <2>4 DEF part
<1> HIDE DEF s
<1>4. /\ DOMAIN own = DOMAIN s \union {VersionPath}
      /\ \A p \in DOMAIN s : own[p] = s[p]
      /\ own[VersionPath] = Version(1, minor)
  <2>1. /\ \A p \in DOMAIN s : IsPath(p) /\ p[1] \in {"auth", "storage"}
        /\ IsPath(VersionPath) /\ VersionPath[1] = "version"
    BY <1>3, VersionPathIs DEF Section
  <2>2. \A p \in DOMAIN s, path \in DOMAIN c.version : p[1] # path[1]
    BY <1>1, <2>1
  <2> DEFINE part == c.version
  <2> HIDE DEF part
  <2>3. /\ \A p \in DOMAIN s : IsPath(p)
        /\ \A path \in DOMAIN part : IsPath(path)
        /\ \A p \in DOMAIN s, path \in DOMAIN part : p[1] # path[1]
    BY <1>1, <2>1, <2>2 DEF part
  <2>4. /\ DOMAIN Accumulate(s, part) = DOMAIN s \union DOMAIN part
        /\ \A p \in DOMAIN s : Accumulate(s, part)[p] = s[p]
        /\ \A p \in DOMAIN part : Accumulate(s, part)[p] = part[p]
    BY <2>3, AccumulateApart
  <2> QED BY <1>1, <2>4 DEF part
<1> HIDE DEF own
<1>5. OwnConfig(own)
  <2>1. Version(1, minor).kind = "version"
    BY DEF Version, Leaf
  <2>2. ASSUME NEW p \in DOMAIN s
        PROVE  IsPath(p) /\ p[1] # "version" /\ OwnLeaf(p, own[p])
    BY <1>3, <1>4, <2>2 DEF Section
  <2>3. IsPath(VersionPath)
    BY VersionPathIs
  <2>4. ASSUME NEW p \in DOMAIN own
        PROVE  /\ IsPath(p)
               /\ own[p].kind \in {"array", "scalar", "falsy", "version"}
               /\ p[1] = "version" => p = VersionPath
               /\ own[p].kind = "version" => p = VersionPath
               /\ own[p].kind = "array" => p \in ManagedLists /\ own[p] = Array(own[p].val)
                                           /\ own[p].val \in Seq(Range(own[p].val))
    <3>1. CASE p \in DOMAIN s
      BY <2>2, <3>1 DEF OwnLeaf
    <3>2. CASE p = VersionPath
      BY <1>4, <2>1, <2>3, <3>2
    <3> QED BY <1>4, <3>1, <3>2
  <2> QED BY <2>4 DEF OwnConfig
<1>6. Managed(c) = own
  BY DEF Managed, own, s, a
<1> QED BY <1>3, <1>4, <1>5, <1>6

\* Of a deployed stack.
LEMMA ManagedTells ==
    ASSUME StackInv, StrategyInv, DeclaredInv, PoolInv, CustomInv, synthesis \in Told,
           NEW minor \in Nat
    PROVE  LET own == Managed(Contributions(minor))
           IN  /\ OwnConfig(own)
               /\ VersionPath \in DOMAIN own /\ own[VersionPath] = Version(1, minor)
               /\ pool # <<>> => \A pair \in AuthPairs(AuthOutputs(pool), minor) :
                     /\ pair[1] \in DOMAIN own /\ own[pair[1]] = pair[2]
                     /\ pair[1][1] # "version"
               /\ buckets # <<>> => \A pair \in StoragePairs(minor) :
                     /\ pair[1] \in DOMAIN own /\ own[pair[1]] = pair[2]
                     /\ pair[1][1] # "version"
<1> DEFINE c == Contributions(minor)
           own == Managed(c)
<1>1. /\ c.auth = IF pool = <<>> THEN NoConfig ELSE Config(AuthPairs(AuthOutputs(pool), minor))
      /\ c.storage = IF buckets = <<>> THEN NoConfig ELSE Config(StoragePairs(minor))
      /\ c.version = Config({<<VersionPath, Version(1, minor)>>})
  BY AuthContributes, StorageContributes, OthersContribute
<1> HIDE DEF c
<1> DEFINE auths == AuthPairs(AuthOutputs(pool), minor)
           storages == StoragePairs(minor)
<1>2. pool # <<>> => /\ Section(Config(auths), "auth")
                     /\ \A pair \in auths :
                           pair[1] \in DOMAIN Config(auths) /\ Config(auths)[pair[1]] = pair[2]
  BY AuthIsSection DEF PoolInv
<1>3. /\ Section(Config(storages), "storage")
      /\ \A pair \in storages :
            pair[1] \in DOMAIN Config(storages) /\ Config(storages)[pair[1]] = pair[2]
  BY StorageIsSection
<1> HIDE DEF auths, storages
<1>4. Section(c.auth, "auth") /\ Section(c.storage, "storage")
  BY <1>1, <1>2, <1>3, NoSection DEF auths, storages
<1>5. /\ OwnConfig(own)
      /\ VersionPath \in DOMAIN own /\ own[VersionPath] = Version(1, minor)
      /\ \A path \in DOMAIN c.auth : path \in DOMAIN own /\ own[path] = c.auth[path]
      /\ \A path \in DOMAIN c.storage : path \in DOMAIN own /\ own[path] = c.storage[path]
  BY <1>1, <1>4, ManagedIs
<1> HIDE DEF own
<1>6. pool # <<>> => \A pair \in auths :
         pair[1] \in DOMAIN own /\ own[pair[1]] = pair[2] /\ pair[1][1] # "version"
  BY <1>1, <1>2, <1>5 DEF auths, Section
<1>7. buckets # <<>> => \A pair \in storages :
         pair[1] \in DOMAIN own /\ own[pair[1]] = pair[2] /\ pair[1][1] # "version"
  BY <1>1, <1>3, <1>5 DEF storages, Section
<1> QED BY <1>5, <1>6, <1>7 DEF own, c, auths, storages

-----------------------------------------------------------------------------
(* What the config has to tell is among the contributions *)

\* One bucket is the default, as the aspect and the user see it.
LEMMA DefaultIsOne ==
    ASSUME DeclaredInv, StrategyInv, StackInv, synthesis \in Told, buckets # <<>>
    PROVE  (CHOOSE i \in DOMAIN buckets : Defaults \in {{i}, {}}) = DefaultBucket
<1>1. /\ buckets \in Seq(BucketSet) /\ ~(Cardinality(Defaults) > 1)
      /\ ~(Defaults = {} /\ Len(buckets) > 1)
  BY ProcessedIffBuckets DEF DeclaredInv, StrategyInv, Told
<1>2. Len(buckets) \in Nat /\ Len(buckets) # 0 /\ DOMAIN buckets = 1..Len(buckets)
  BY <1>1
<1>3. Defaults \subseteq DOMAIN buckets
  BY DEF Defaults
<1>4. PICK d \in DOMAIN buckets : IsDefault(d)
  <2>1. CASE Len(buckets) = 1
    BY <1>2, <2>1 DEF IsDefault
  <2>2. CASE Len(buckets) # 1
    <3>1. Defaults # {}
      BY <1>1, <1>2, <2>2
    <3> QED BY <3>1 DEF Defaults, IsDefault
  <2> QED BY <2>1, <2>2
<1>5. \A i \in DOMAIN buckets : IsDefault(i) => i = d
  BY <1>1, <1>2, <1>4, OneDefault
<1>6. Defaults \in {{d}, {}}
  <2>1. \A i \in Defaults : i = d
    BY <1>3, <1>5 DEF Defaults, IsDefault
  <2> QED BY <2>1
<1>7. ASSUME NEW i \in DOMAIN buckets, Defaults \in {{i}, {}} PROVE i = d
  <2>1. CASE Len(buckets) = 1
    BY <1>2, <2>1
  <2>2. CASE Len(buckets) # 1
    <3>1. Defaults = {i}
      BY <1>1, <1>2, <1>7, <2>2
    <3>2. IsDefault(i)
      BY <3>1 DEF Defaults, IsDefault
    <3> QED BY <1>5, <3>2
  <2> QED BY <2>1, <2>2
<1>8. DefaultBucket = d
  BY <1>4, <1>5 DEF DefaultBucket
<1>9. (CHOOSE i \in DOMAIN buckets : Defaults \in {{i}, {}}) = d
  <2> DEFINE P(i) == Defaults \in {{i}, {}}
  <2>1. P(d) /\ \A i \in DOMAIN buckets : P(i) => i = d
    BY <1>6, <1>7
  <2> HIDE DEF P
  <2>2. (CHOOSE i \in DOMAIN buckets : P(i)) = d
    BY <2>1
  <2> QED BY <2>2 DEF P
<1> QED BY <1>8, <1>9

LEMMA StorageFactsTold ==
    ASSUME DeclaredInv, StrategyInv, StackInv, synthesis \in Told, buckets # <<>>,
           NEW fact \in StorageFacts
    PROVE  fact \in StoragePairs(asked)
<1> DEFINE listed == [i \in DOMAIN buckets |->
                         <<buckets[i].name, asked >= 2 /\ buckets[i].name \in WithAccess>>]
           told == [i \in DOMAIN BucketList |->
                       <<BucketList[i][1], BucketList[i][2] /\ asked >= 2>>]
<1>1. \/ fact = <<<<"storage", "bucket_name">>, Scalar(<<buckets[DefaultBucket].name>>)>>
      \/ asked # 0 /\ fact = <<<<"storage", "buckets">>, Array(listed)>>
  BY DefaultIsOne, Zenon DEF StorageFacts
<1>2. listed = told
  <2>1. DOMAIN BucketList = DOMAIN buckets
    BY DEF BucketList
  <2>2. ASSUME NEW i \in DOMAIN buckets
        PROVE  <<BucketList[i][1], BucketList[i][2] /\ asked >= 2>>
               = <<buckets[i].name, asked >= 2 /\ buckets[i].name \in WithAccess>>
    <3> DEFINE in == buckets[i].name \in WithAccess
               late == asked >= 2
    <3>1. BucketList[i][1] = buckets[i].name /\ BucketList[i][2] = in
      BY DEF BucketList, BucketEntry
    <3> HIDE DEF in, late
    <3>2. (in /\ late) = (late /\ in)
      OBVIOUS
    <3>3. <<buckets[i].name, in /\ late>> = <<buckets[i].name, late /\ in>>
      BY <3>2, Zenon
    <3>4. <<BucketList[i][1], BucketList[i][2] /\ late>> = <<buckets[i].name, in /\ late>>
      BY <3>1, Zenon
    <3> QED BY <3>3, <3>4, Zenon DEF in, late
  <2> QED BY <2>1, <2>2, Zenon
<1> HIDE DEF listed, told
<1>3. /\ <<<<"storage", "bucket_name">>, Scalar(<<buckets[DefaultBucket].name>>)>> \in StoragePairs(asked)
      /\ asked # 0 => <<<<"storage", "buckets">>, Array(told)>> \in StoragePairs(asked)
  BY DEF StoragePairs, told
<1> QED BY <1>1, <1>2, <1>3

LEMMA FactsTold ==
    ASSUME StackInv, StrategyInv, DeclaredInv, PoolInv, CustomInv, synthesis \in Told,
           asked \in Nat, NEW fact \in Facts
    PROVE  LET own == Managed(Contributions(asked))
           IN  fact[1] \in DOMAIN own /\ own[fact[1]] = fact[2] /\ fact[1][1] # "version"
<1> DEFINE own == Managed(Contributions(asked))
           auths == AuthPairs(AuthOutputs(pool), asked)
           storages == StoragePairs(asked)
<1>1. /\ pool # <<>> => \A pair \in auths :
            pair[1] \in DOMAIN own /\ own[pair[1]] = pair[2] /\ pair[1][1] # "version"
      /\ buckets # <<>> => \A pair \in storages :
            pair[1] \in DOMAIN own /\ own[pair[1]] = pair[2] /\ pair[1][1] # "version"
  BY ManagedTells
<1>2. (pool # <<>> /\ fact \in AuthFacts(pool)) \/ (buckets # <<>> /\ fact \in StorageFacts)
  BY DEF Facts
<1>3. CASE pool # <<>> /\ fact \in AuthFacts(pool)
  <2>1. pool \in PoolType
    BY <1>3 DEF PoolInv
  <2>2. fact \in auths
    BY <1>3, <2>1, AuthFactsTold
  <2> HIDE DEF own, auths
  <2>3. fact[1] \in DOMAIN own /\ own[fact[1]] = fact[2] /\ fact[1][1] # "version"
    BY <1>1, <1>3, <2>2
  <2> QED BY <2>3 DEF own
<1>4. CASE buckets # <<>> /\ fact \in StorageFacts
  <2>1. fact \in storages
    BY <1>4, StorageFactsTold
  <2> HIDE DEF own, storages
  <2>2. fact[1] \in DOMAIN own /\ own[fact[1]] = fact[2] /\ fact[1][1] # "version"
    BY <1>1, <1>4, <2>1
  <2> QED BY <2>2 DEF own
<1> QED BY <1>2, <1>3, <1>4

-----------------------------------------------------------------------------
(* What the generated config was made of *)

Generated(contributions) ==
    /\ ~Collides(Managed(contributions), contributions.custom)
    /\ config = Accumulate(Managed(contributions), contributions.custom)

ConfigInv ==
    synthesis = "configured" => asked \in MinorVersions /\ Generated(Contributions(asked))

LEMMA CustomPreserved == CustomInv /\ [OutputsNext]_outputsVars => CustomInv'
<1> SUFFICES ASSUME CustomInv, [OutputsNext]_outputsVars PROVE CustomInv'
  OBVIOUS
<1>1. CASE UNCHANGED <<parts, clientConfigAccumulator>>
  BY <1>1 DEF CustomInv, Replaced, Added, VersionsAsked
<1>2. ASSUME NEW part \in CustomParts, AddOutput(part) PROVE CustomInv'
  <2>1. \/ UNCHANGED <<parts, clientConfigAccumulator>>
        \/ /\ ~Collides(clientConfigAccumulator, Versioned(part))
           /\ clientConfigAccumulator' = Accumulate(clientConfigAccumulator, Versioned(part))
           /\ parts' = Append(parts, part)
    BY <1>2 DEF AddOutput
  <2> QED BY <1>1, <2>1, CustomPartAccumulates
<1> QED BY <1>1, <1>2 DEF OutputsNext, DefineBackend, Override, Visit, Synthesize,
                          GenerateClientConfig, outputsVars

LEMMA StackPreserved == StackInv /\ [OutputsNext]_outputsVars => StackInv'
<1> SUFFICES ASSUME StackInv, [OutputsNext]_outputsVars PROVE StackInv'
  OBVIOUS
<1>1. ASSUME UNCHANGED <<pool, buckets, strategy, clientConfigAccumulator>>
      PROVE  \A name : Produced(name)' = Produced(name)
  BY <1>1 DEF Produced, IsDefault
<1>2. CASE Synthesize
  <2>1. /\ visited = Len(buckets)
        /\ stack' = [metadata |-> strategy.metadata,
                     outputs |-> [name \in strategy.outputs |-> Produced(name)]]
        /\ UNCHANGED <<pool, buckets, visited, strategy, clientConfigAccumulator>>
    BY <1>2 DEF Synthesize
  <2>2. [name \in strategy'.outputs |-> Produced(name)'] = [name \in strategy.outputs |-> Produced(name)]
    BY <1>1, <2>1
  <2> QED BY <2>1, <2>2 DEF StackInv
<1>3. CASE /\ synthesis' \in Told => synthesis \in Told
           /\ UNCHANGED <<pool, buckets, visited, strategy, clientConfigAccumulator, stack>>
  <2>1. [name \in strategy'.outputs |-> Produced(name)'] = [name \in strategy.outputs |-> Produced(name)]
    BY <1>1, <1>3
  <2> QED BY <1>3, <2>1 DEF StackInv
<1>4. ASSUME NEW minor \in MinorVersions, GenerateClientConfig(minor) PROVE StackInv'
  BY <1>3, <1>4 DEF GenerateClientConfig, Told
<1>5. CASE UNCHANGED outputsVars
  BY <1>3, <1>5 DEF outputsVars
<1>6. CASE synthesis' \notin Told
  BY <1>6 DEF StackInv
<1>7. CASE DefineBackend
  BY <1>6, <1>7 DEF DefineBackend, Told
<1>8. ASSUME NEW what \in Overrides, Override(what) PROVE StackInv'
  BY <1>6, <1>8 DEF Override, Told
<1>9. ASSUME NEW part \in CustomParts, AddOutput(part) PROVE StackInv'
  BY <1>6, <1>9 DEF AddOutput, Told
<1>10. CASE Visit
  BY <1>6, <1>10 DEF Visit, Told
<1> QED BY <1>2, <1>4, <1>5, <1>7, <1>8, <1>9, <1>10 DEF OutputsNext

LEMMA ConfigPreserved == ConfigInv /\ [OutputsNext]_outputsVars => ConfigInv'
<1> SUFFICES ASSUME ConfigInv, [OutputsNext]_outputsVars, synthesis' = "configured" PROVE ConfigInv'
  BY DEF ConfigInv
<1>1. ASSUME UNCHANGED stack PROVE Contributions(asked)' = Contributions(asked')
  BY <1>1 DEF Contributions, Payload
<1>2. ASSUME NEW minor \in MinorVersions, GenerateClientConfig(minor) PROVE ConfigInv'
  <2> DEFINE c == Contributions(minor)
  <2>1. /\ asked' = minor /\ UNCHANGED stack
        /\ ~Collides(Managed(c), c.custom) /\ config' = Accumulate(Managed(c), c.custom)
    BY <1>2 DEF GenerateClientConfig
  <2>2. Contributions(asked)' = c
    BY <1>1, <2>1
  <2> HIDE DEF c
  <2>3. /\ ~Collides(Managed(Contributions(asked)'), Contributions(asked)'.custom)
        /\ config' = Accumulate(Managed(Contributions(asked)'), Contributions(asked)'.custom)
    BY <2>1, <2>2
  <2>4. Generated(Contributions(asked))'
    BY <2>3 DEF Generated
  <2> QED BY <2>1, <2>4 DEF ConfigInv
<1>3. CASE UNCHANGED outputsVars
  <2>1. UNCHANGED <<synthesis, stack, asked, config>>
    BY <1>3 DEF outputsVars
  <2>2. Contributions(asked)' = Contributions(asked)
    BY <1>1, <2>1
  <2>3. Generated(Contributions(asked)) /\ asked \in MinorVersions
    BY <2>1 DEF ConfigInv
  <2>4. Generated(Contributions(asked))'
    BY <2>1, <2>2, <2>3 DEF Generated
  <2> QED BY <2>1, <2>3, <2>4 DEF ConfigInv
<1> QED BY <1>2, <1>3 DEF OutputsNext, DefineBackend, Override, AddOutput, Visit, Synthesize

\* All of it is inductive together.
BackendInv == DeclaredInv /\ PoolInv /\ CustomInv /\ StrategyInv /\ StackInv /\ ConfigInv

LEMMA BackendPreserved == BackendInv /\ [OutputsNext]_outputsVars => BackendInv'
  BY DeclaredPreserved, PoolPreserved, CustomPreserved, StrategyPreserved, StackPreserved,
     ConfigPreserved DEF BackendInv

LEMMA BackendInitially == OutputsInit => BackendInv
<1> SUFFICES ASSUME OutputsInit PROVE BackendInv
  OBVIOUS
<1>1. /\ synthesis = "new" /\ pool = <<>> /\ buckets = <<>> /\ visited = 0
      /\ isStorageProcessed = FALSE /\ strategy = NewStrategy
      /\ parts = <<>> /\ clientConfigAccumulator = NoConfig
  BY DEF OutputsInit
<1>2. DeclaredInv
  BY <1>1, DeclaredInitially
<1>3. CustomInv
  <2>1. Range(<<>>) = {} /\ <<>> \in Seq(CustomParts)
    BY DEF Range
  <2> QED BY <1>1, <2>1, NoConfigEmpty DEF CustomInv
<1>4. PoolInv /\ StrategyInv /\ StackInv /\ ConfigInv
  BY <1>1 DEF PoolInv, StrategyInv, StackInv, ConfigInv, Told
<1> QED BY <1>2, <1>3, <1>4 DEF BackendInv

LEMMA ConfigIsMadeOf ==
    ASSUME BackendInv, synthesis = "configured"
    PROVE  LET own == Managed(Contributions(asked))
           IN  /\ asked \in Nat /\ OwnConfig(own)
               /\ VersionPath \in DOMAIN own /\ own[VersionPath] = Version(1, asked)
               /\ ~Collides(own, clientConfigAccumulator)
               /\ config = Accumulate(own, clientConfigAccumulator)
<1>1. /\ StackInv /\ StrategyInv /\ DeclaredInv /\ PoolInv /\ CustomInv /\ synthesis \in Told
      /\ asked \in MinorVersions /\ Generated(Contributions(asked))
  BY DEF BackendInv, ConfigInv, Told
<1>2. asked \in Nat
  BY <1>1, MinorVersionsAssumption
<1>3. Contributions(asked).custom = clientConfigAccumulator
  BY <1>1, OthersContribute
<1> QED BY <1>1, <1>2, <1>3, ManagedTells DEF Generated

\* The generated config tells every fact about the backend as it is after the last
\* override: AmplifyAuth.storeOutput's lazy values, the storage aspect and the metadata
\* of StackMetadataBackendOutputStorageStrategy, the contributors and ObjectAccumulator,
\* for every program, every order of its statements and every version asked for.
THEOREM BackendTold == OutputsSpec => []ConfigTellsTheBackend
<1>1. BackendInv => ConfigTellsTheBackend
  <2> SUFFICES ASSUME BackendInv, synthesis = "configured", NEW fact \in Facts,
                      ~Replaced(fact[1]), ~(fact[2].kind = "falsy" /\ Overwritten(fact[1]))
               PROVE  /\ fact[1] \in DOMAIN config
                      /\ config[fact[1]] = IF fact[2].kind = "array"
                                           THEN Array(fact[2].val \o Added(fact[1])) ELSE fact[2]
    BY DEF ConfigTellsTheBackend
  <2> DEFINE own == Managed(Contributions(asked))
             path == fact[1]
  <2>1. /\ asked \in Nat /\ OwnConfig(own) /\ ~Collides(own, clientConfigAccumulator)
        /\ config = Accumulate(own, clientConfigAccumulator)
    BY ConfigIsMadeOf
  <2>2. path \in DOMAIN own /\ own[path] = fact[2] /\ path[1] # "version"
    BY <2>1, FactsTold DEF BackendInv, Told
  <2>3. CustomInv
    BY DEF BackendInv
  <2> HIDE DEF own, path
  <2>4. ~Replaced(path) /\ (own[path].kind = "falsy" => ~Overwritten(path))
    BY <2>2 DEF path
  <2>5. /\ path \in DOMAIN config
        /\ config[path] = IF own[path].kind = "array" THEN Array(own[path].val \o Added(path))
                          ELSE own[path]
    BY <2>1, <2>2, <2>3, <2>4, OwnIsTold
  <2> QED BY <2>2, <2>5 DEF path
<1> QED BY <1>1, BackendInitially, BackendPreserved, PTL DEF OutputsSpec

\* What backend.addOutput accepted is in the generated config: a plain value as it was
\* given, the lists of all parts in the order they were added, behind the backend's own;
\* only a whole section that a later part replaced is gone.  The version is the newest
\* of the one asked for and those of the parts.
THEOREM CustomPartsTold == OutputsSpec => []CustomPartsArrive
<1>1. BackendInv => CustomPartsArrive
  <2> SUFFICES ASSUME BackendInv, synthesis = "configured" PROVE CustomPartsArrive
    BY DEF CustomPartsArrive
  <2> DEFINE own == Managed(Contributions(asked))
  <2>1. /\ asked \in Nat /\ OwnConfig(own) /\ ~Collides(own, clientConfigAccumulator)
        /\ config = Accumulate(own, clientConfigAccumulator)
        /\ VersionPath \in DOMAIN own /\ own[VersionPath] = Version(1, asked)
    BY ConfigIsMadeOf
  <2>2. CustomInv
    BY DEF BackendInv
  <2> HIDE DEF own
  <2>3. config[VersionPath].val[2] = Max({asked} \union VersionsAsked)
    BY <2>1, <2>2, NewestIsTold
  <2>4. ASSUME NEW part \in Range(parts), NEW path \in DOMAIN part,
               part[path].kind \in {"array", "scalar"}, ~Replaced(path)
        PROVE  /\ path \in DOMAIN config
               /\ IF part[path].kind = "scalar" THEN config[path] = part[path]
                  ELSE config[path].kind = "array" /\ IsSuffix(Added(path), config[path].val)
    BY <2>1, <2>2, <2>4, CustomIsTold
  <2> QED BY <2>3, <2>4 DEF CustomPartsArrive, VersionPath, VersionsAsked
<1> QED BY <1>1, BackendInitially, BackendPreserved, PTL DEF OutputsSpec

================================================================================
