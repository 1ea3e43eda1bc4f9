----------------------------- MODULE StorageAccess -----------------------------
(***************************************************************************)
(* The access rules of a bucket and the IAM policies made of them.         *)
(*                                                                         *)
(* A developer writes permissions under paths; the orchestrator validates  *)
(* the paths, collects what each role is allowed, and attaches one policy  *)
(* per role, in which a path inside another one is denied unless a rule of *)
(* its own allows it.                                                      *)
(*                                                                         *)
(* A path is the sequence of its parts, without the final wildcard: "a/b/*"*)
(* is <<"a", "b">>.  Malformed strings (a leading slash, an empty part, an *)
(* inner wildcard) are left out.                                           *)
(***************************************************************************)
EXTENDS Integers, SequencesExt

CONSTANTS
    Names,              \* parts of paths
    MaxDepth,           \* bound: parts of a path
    MaxPaths,           \* bound: paths of a definition
    MaxPermissions,     \* bound: permissions of a definition
    Groups,             \* groups of the user pool
    Resources,          \* functions, which rules may be for as well
    UserActions         \* actions that a rule may name

ASSUME NamesAssumption == {"{entity_id}", "sub", "me", "you"} \intersect Names = {}
ASSUME BoundsAssumption == {MaxDepth, MaxPaths, MaxPermissions} \subseteq Nat
ASSUME ResourcesAssumption ==
    {"authenticatedUserIamRole", "unauthenticatedUserIamRole"} \intersect Resources = {}
ASSUME GroupsAssumption == Groups \intersect Resources = {}
ASSUME UserActionsAssumption == UserActions \subseteq {"read", "get", "list", "write", "delete"}

entityIdPathToken == "{entity_id}"
entityIdSubstitution == "sub"   \* ${cognito-identity.amazonaws.com:sub}

Paths == UNION {[1..n -> Names \union {entityIdPathToken}] : n \in 1..MaxDepth}
StoragePaths == UNION {[1..n -> Names \union {entityIdSubstitution}] : n \in 1..MaxDepth}
Actions == {"get", "list", "write", "delete"}
UserRoles == {"authenticatedUserIamRole", "unauthenticatedUserIamRole"} \union Groups
Acceptors == UserRoles \union Resources

VARIABLES
    stage,          \* "adding", "attached", "invalid" or "fault"
    storagePaths,   \* paths of the definition, in the order of its keys
    at,             \* path whose permissions are being added
    uniqueDefinitionIds,    \* seen on this path
    permissionCount,
    acceptors,      \* keys of acceptorAccessMap
    allow, deny,    \* its allow and deny sets, of each action
    prefixDenyMap,  \* keys, in order, whose callbacks are those of rules
    rules,          \* <<prefix, acceptor, action>> that were added
    outputs         \* <<prefix, id, actions>> of the outputs; the code lists a
                    \* prefix without such a triple as well, with nothing

accessVars == <<stage, storagePaths, at, uniqueDefinitionIds, permissionCount,
                acceptors, allow, deny, prefixDenyMap, rules, outputs>>

\* getPrefixes, findParent: a path that is a proper beginning of another one.
Within(path, p) == p # path /\ IsPrefix(p, path)

-----------------------------------------------------------------------------
(* validateStorageAccessPaths *)

\* Mutant: a path may lie over an owner path.
OwnerTokenAnywhereBelow(path, otherPrefixes) ==
    entityIdPathToken \in Range(path) =>
        /\ Len(path) > 1
        /\ \A i \in DOMAIN path : path[i] = entityIdPathToken => i = Len(path)

\* The owner token is the last part, not the first, and no path lies over it.
OwnerTokenRules(path, otherPrefixes) ==
    entityIdPathToken \in Range(path) =>
        /\ otherPrefixes = {}
        /\ Len(path) > 1
        /\ \A i \in DOMAIN path : path[i] = entityIdPathToken => i = Len(path)

ValidStoragePath(path, allPaths) ==
    LET otherPrefixes == {p \in allPaths : Within(path, p)}
    IN  /\ Cardinality(otherPrefixes) <= 1
        /\ OwnerTokenRules(path, otherPrefixes)

ValidateStorageAccessPaths(paths) == \A path \in Range(paths) : ValidStoragePath(path, Range(paths))

-----------------------------------------------------------------------------
(* roleAccessBuilder: what a rule for some kind of user asks for.  The id of *)
(* a definition is its kind and a name, put together in the code; a rule for *)
(* a function has none.                                                     *)

Permission(acceptor, id, idSubstitution, actions) ==
    [acceptors |-> acceptor, ids |-> id, idSubstitution |-> idSubstitution, actions |-> actions]

Permissions ==
    LET auth == {"authenticatedUserIamRole"}
        guest == {"unauthenticatedUserIamRole"}
    IN  UNION {{Permission(auth, {<<"authenticated", "">>}, "*", actions),
                Permission(guest, {<<"guest", "">>}, "*", actions),
                Permission(auth, {<<"entity", "identity">>}, entityIdSubstitution, actions)}
               \union {Permission(gs, {"groups"} \X gs, "*", actions) :
                          gs \in SUBSET Groups \ {{}}}
               \union {Permission({f}, {}, "*", actions) : f \in Resources}
               : actions \in SUBSET UserActions}

\* "read" is "get" and "list"; no duplicates.
ReplaceRead(actions) ==
    (actions \ {"read"}) \union (IF "read" \in actions THEN {"get", "list"} ELSE {})

\* Mutant: the wildcard is not substituted.
SubstituteIdentityOnly(path, idSubstitution) ==
    IF Last(path) # entityIdPathToken \/ idSubstitution = "*" THEN path
    ELSE Append(Front(path), idSubstitution)

\* The owner placeholder becomes the caller's identity, or a wildcard that ends
\* the path: "a/*/*" is shortened to "a/*".
PlaceholderSubstitution(path, idSubstitution) ==
    IF Last(path) # entityIdPathToken THEN path
    ELSE IF idSubstitution = "*" THEN Front(path)
    ELSE Append(Front(path), idSubstitution)

-----------------------------------------------------------------------------
Nothing == [acceptor \in Acceptors |-> [action \in Actions |-> {}]]

AccessInit ==
    /\ storagePaths \in UNION {{ps \in [1..n -> Paths] : IsInjective(ps)} : n \in 1..MaxPaths}
    /\ stage = IF ValidateStorageAccessPaths(storagePaths) THEN "adding" ELSE "invalid"
    /\ at = 1
    /\ uniqueDefinitionIds = {}
    /\ permissionCount = 0
    /\ acceptors = {}
    /\ allow = Nothing /\ deny = Nothing
    /\ prefixDenyMap = <<>>
    /\ rules = {}
    /\ outputs = {}

NextPath ==
    /\ stage = "adding" /\ at < Len(storagePaths)
    /\ at' = at + 1
    /\ uniqueDefinitionIds' = {}
    /\ UNCHANGED <<stage, storagePaths, permissionCount, acceptors, allow, deny,
                   prefixDenyMap, rules, outputs>>

\* The rules for one kind of user on a path were written twice.
DuplicateDefinition(permission) ==
    /\ stage = "adding"
    /\ permission.ids \intersect uniqueDefinitionIds # {}
    /\ stage' = "invalid"
    /\ UNCHANGED <<storagePaths, at, uniqueDefinitionIds, permissionCount, acceptors,
                   allow, deny, prefixDenyMap, rules, outputs>>

\* One permission of the path: addAccessDefinition for each of its acceptors.
AddPermission(permission) ==
    LET actions == ReplaceRead(permission.actions)
        prefix == PlaceholderSubstitution(storagePaths[at], permission.idSubstitution)
    IN  /\ stage = "adding" /\ permissionCount < MaxPermissions
        /\ permission.ids \intersect uniqueDefinitionIds = {}
        /\ uniqueDefinitionIds' = uniqueDefinitionIds \union permission.ids
        /\ permissionCount' = permissionCount + 1
        /\ acceptors' = acceptors \union permission.acceptors
        /\ allow' = [acceptor \in Acceptors |-> [action \in Actions |->
               IF acceptor \in permission.acceptors /\ action \in actions
               THEN allow[acceptor][action] \union {prefix} ELSE allow[acceptor][action]]]
        /\ prefixDenyMap' = IF actions = {} \/ prefix \in Range(prefixDenyMap)
                            THEN prefixDenyMap ELSE Append(prefixDenyMap, prefix)
        /\ rules' = rules \union ({prefix} \X permission.acceptors \X actions)
        /\ outputs' = {o \in outputs : o[1] # prefix \/ o[2] \notin permission.ids}
                      \union ({prefix} \X permission.ids \X {actions})
        /\ UNCHANGED <<stage, storagePaths, at, deny>>

Parents(prefix) == {p \in Range(prefixDenyMap) : Within(prefix, p)}

\* findParent: the first of them.
FindParent(prefix) == SelectInSeq(prefixDenyMap, LAMBDA p : Within(prefix, p))

OwnerFolderOf(prefix, parent) == prefix = Append(parent, entityIdSubstitution)

\* setDenyByDefault of every rule of the parent.
\* Mutant: whatever the path allows itself.
DeniesAlways(prefix, acceptor, action) ==
    LET i == FindParent(prefix)
    IN  /\ i # 0
        /\ ~OwnerFolderOf(prefix, prefixDenyMap[i])
        /\ <<prefixDenyMap[i], acceptor, action>> \in rules

Denies(prefix, acceptor, action) ==
    LET i == FindParent(prefix)
    IN  /\ i # 0
        /\ ~OwnerFolderOf(prefix, prefixDenyMap[i])
        /\ <<prefixDenyMap[i], acceptor, action>> \in rules
        /\ prefix \notin allow[acceptor][action]

RemoveSubPathsFromSet(paths) == {path \in paths : \A p \in paths : ~Within(path, p)}

\* Subpaths are denied, subpaths of what is allowed left out, and each
\* acceptor accepts its policy.  A policy without permissions is a fault.
AttachPolicies ==
    /\ stage = "adding" /\ at = Len(storagePaths)
    /\ deny' = [acceptor \in Acceptors |-> [action \in Actions |->
           {prefix \in Range(prefixDenyMap) : Denies(prefix, acceptor, action)}]]
    /\ allow' = [acceptor \in Acceptors |-> [action \in Actions |->
           RemoveSubPathsFromSet(allow[acceptor][action])]]
    /\ stage' = IF \A acceptor \in acceptors : allow[acceptor] # Nothing[acceptor]
                THEN "attached" ELSE "fault"
    /\ UNCHANGED <<storagePaths, at, uniqueDefinitionIds, permissionCount, acceptors,
                   prefixDenyMap, rules, outputs>>

AccessNext ==
    \/ NextPath
    \/ \E permission \in Permissions : AddPermission(permission) \/ DuplicateDefinition(permission)
    \/ AttachPolicies

AccessSpec == AccessInit /\ [][AccessNext]_accessVars

-----------------------------------------------------------------------------
\* Objects that the user "me" asks for; another user's folder is "you".
Objects == UNION {[1..n -> Names \union {"me", "you"}] : n \in 1..MaxDepth}

Covers(prefix, object) ==
    /\ Len(prefix) <= Len(object)
    /\ \A i \in DOMAIN prefix :
          prefix[i] = IF object[i] = "me" THEN entityIdSubstitution ELSE object[i]

\* IAM: some statement allows it, and none denies it.
Granted(acceptor, action, object) ==
    /\ \E prefix \in allow[acceptor][action] : Covers(prefix, object)
    /\ \A prefix \in deny[acceptor][action] : ~Covers(prefix, object)

\* What the definition says: the deepest path over the object decides, and for
\* an owner's folder the rules of all users as well.
Intended(acceptor, action, object) ==
    LET over == {prefix \in Range(prefixDenyMap) : Covers(prefix, object)}
    IN  \E prefix \in over :
            /\ <<prefix, acceptor, action>> \in rules
            /\ \A p \in over : Within(p, prefix) => OwnerFolderOf(p, prefix)

AtMostOneParent == \A prefix \in Range(prefixDenyMap) : Cardinality(Parents(prefix)) <= 1

AccessTypeOK ==
    /\ stage \in {"adding", "attached", "invalid", "fault"}
    /\ at \in DOMAIN storagePaths
    /\ permissionCount \in 0..MaxPermissions
    /\ acceptors \subseteq Acceptors
    /\ Range(prefixDenyMap) \subseteq StoragePaths /\ IsInjective(prefixDenyMap)
    /\ rules \subseteq Range(prefixDenyMap) \X acceptors \X Actions
    /\ {allow, deny} \subseteq [Acceptors -> [Actions -> SUBSET Range(prefixDenyMap)]]

\* "denies parent actions on a subpath by default": the policies grant what the
\* definition says, for every object, whatever the order of paths and rules and
\* although subpaths are left out of the allow sets.
DeepestRuleDecides ==
    stage = "attached" /\ AtMostOneParent =>
        \A acceptor \in Acceptors, action \in Actions, object \in Objects :
            Granted(acceptor, action, object) <=> Intended(acceptor, action, object)

\* "Note that there can only be one at this point because of upstream
\* validation": the doc of findParent.
OneParentByValidation == stage = "attached" => AtMostOneParent

AcceptorOf(id) ==
    CASE id[1] \in {"authenticated", "entity"} -> "authenticatedUserIamRole"
      [] id[1] = "guest" -> "unauthenticatedUserIamRole"
      [] OTHER -> id[2]

\* What amplify_outputs tells clients about a bucket is what the roles of users
\* were given, although paths may coincide once the owner is substituted and a
\* later entry replaces an earlier one of the same kind of user; what functions
\* were given is not in it.
OutputsListTheRules ==
    {rule \in rules : rule[2] \in UserRoles} =
        UNION {{<<o[1], AcceptorOf(o[2]), action>> : action \in o[3]} : o \in outputs}
===============================================================================
