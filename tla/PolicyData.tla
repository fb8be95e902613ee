------------------------------ MODULE PolicyData ------------------------------
(***************************************************************************)
(* The data of a policy store and what each operation of the memory store  *)
(* does to it.  A store s is a record:                                     *)
(*   roles        names that exist                                         *)
(*   permissions  role -> set of permissions                               *)
(*   parents      role -> set of parents                                   *)
(*   users        user -> role -> how often the role is in the user's list *)
(*   roleUsers    role -> users the membership index lists                 *)
(*   rules        role -> rule list, NoRules when the map has no entry     *)
(*   metadata     role -> metadata, NoMetadata when the map has no entry   *)
(* Lists are sets (roles, permissions) or bags (a user's roles, where the  *)
(* index is what prevents duplicates).  For each operation, OpOK says when *)
(* it succeeds and OpDo is the store after success; a failed operation     *)
(* returns an error and leaves the store as it was.                        *)
(***************************************************************************)
EXTENDS RoleGraph, Naturals

CONSTANTS Users, Permissions,
          BlankRole, BlankPermission,   \* a name that trims to the empty string
          RuleLists, NoRules, InvalidRules,
          MetadataMaps, NoMetadata

ASSUME ConstantsOK ==
    /\ BlankRole \notin Roles
    /\ BlankPermission \notin Permissions
    /\ NoRules \in RuleLists
    /\ InvalidRules \notin RuleLists
    /\ NoMetadata \in MetadataMaps

\* What a caller may pass to AddRole and UpdateRole.
RoleSpecs == [name        : Roles \cup {BlankRole},
              permissions : SUBSET (Permissions \cup {BlankPermission}),
              parents     : SUBSET Roles]

Stores == [roles       : SUBSET Roles,
           permissions : [Roles -> SUBSET Permissions],
           parents     : Graphs,
           users       : [Users -> [Roles -> Nat]],
           roleUsers   : [Roles -> SUBSET Users],
           rules       : [Roles -> RuleLists],
           metadata    : [Roles -> MetadataMaps]]

NewMemoryStore ==
    [roles       |-> {},
     permissions |-> [r \in Roles |-> {}],
     parents     |-> [r \in Roles |-> {}],
     users       |-> [u \in Users |-> [r \in Roles |-> 0]],
     roleUsers   |-> [r \in Roles |-> {}],
     rules       |-> [r \in Roles |-> NoRules],
     metadata    |-> [r \in Roles |-> NoMetadata]]

\* Mutant: the permissions are not looked at.
validRole_NameOnly(role) == role.name # BlankRole

validRole(role) == /\ role.name # BlankRole
                   /\ BlankPermission \notin role.permissions

-----------------------------------------------------------------------------
(* Roles *)

\* The parent graph once role's links are stored.
LinkParents(s, role) == [s.parents EXCEPT ![role.name] = role.parents]

AddRoleOK(s, role) ==
    /\ validRole(role)
    /\ role.name \notin s.roles
    /\ role.parents \subseteq s.roles
    /\ ~ detectCycle(LinkParents(s, role), role.name)

AddRoleDo(s, role) ==
    [s EXCEPT !.roles = @ \cup {role.name},
              !.permissions[role.name] = role.permissions,
              !.parents = LinkParents(s, role)]

\* Mutant: the check walks the stored graph before the new links are in it.
UpdateRoleOK_CheckBeforeSwap(s, role) ==
    /\ validRole(role)
    /\ role.name \in s.roles
    /\ role.parents \subseteq s.roles
    /\ ~ detectCycle(s.parents, role.name)

UpdateRoleOK(s, role) ==
    /\ validRole(role)
    /\ role.name \in s.roles
    /\ role.parents \subseteq s.roles
    /\ ~ detectCycle(LinkParents(s, role), role.name)

UpdateRoleDo(s, role) ==
    [s EXCEPT !.permissions[role.name] = role.permissions,
              !.parents = LinkParents(s, role)]

\* Mutant: a role in use is deleted.
DeleteRoleOK_InUse(s, name) == name \in s.roles

DeleteRoleOK(s, name) == /\ name \in s.roles
                         /\ s.roleUsers[name] = {}

\* Mutant: the cascade over the children's parent lists is forgotten.
DeleteRoleDo_NoCascade(s, name) ==
    [s EXCEPT !.roles = @ \ {name},
              !.permissions[name] = {},
              !.rules[name] = NoRules,
              !.metadata[name] = NoMetadata,
              !.parents[name] = {}]

\* Mutant: the rules of the deleted role stay behind.
DeleteRoleDo_KeepRules(s, name) ==
    [s EXCEPT !.roles = @ \ {name},
              !.permissions[name] = {},
              !.metadata[name] = NoMetadata,
              !.parents = [r \in Roles |-> IF r = name THEN {} ELSE @[r] \ {name}]]

\* The role, its rules, its metadata and its index entry go, and it is dropped
\* from every child's parent list.  The users' lists are not searched: the
\* index said that nobody holds the role.
DeleteRoleDo(s, name) ==
    [s EXCEPT !.roles = @ \ {name},
              !.permissions[name] = {},
              !.rules[name] = NoRules,
              !.metadata[name] = NoMetadata,
              !.roleUsers[name] = {},
              !.parents = [r \in Roles |-> IF r = name THEN {} ELSE @[r] \ {name}]]

-----------------------------------------------------------------------------
(* Assignments *)

AssignRoleOK(s, user, name) == name \in s.roles

\* A second assignment of a role the index lists changes nothing.
AssignRoleDo(s, user, name) ==
    IF user \in s.roleUsers[name] THEN s
    ELSE [s EXCEPT !.roleUsers[name] = @ \cup {user},
                   !.users[user][name] = @ + 1]

UnassignRoleOK(s, user, name) == name \in s.roles

\* Mutant: the index is not told.
UnassignRoleDo_KeepIndex(s, user, name) == [s EXCEPT !.users[user][name] = 0]

\* Every occurrence leaves the user's list; the index only follows when one did.
UnassignRoleDo(s, user, name) ==
    [s EXCEPT !.users[user][name] = 0,
              !.roleUsers[name] = IF s.users[user][name] > 0 THEN @ \ {user} ELSE @]

-----------------------------------------------------------------------------
(* Rules and metadata *)

\* Unknown effects and operators, blank names, values that are no JSON: all that
\* makes a rule list invalid is one value here.
validateRules(rules) == rules # InvalidRules

\* cloneRules rejects an invalid rule list before the store is touched.
SetRoleRulesOK(s, name, rules) == validateRules(rules) /\ name \in s.roles

SetRoleRulesDo(s, name, rules) == [s EXCEPT !.rules[name] = rules]

SetRoleMetadataOK(s, name, metadata) == name \in s.roles

SetRoleMetadataDo(s, name, metadata) == [s EXCEPT !.metadata[name] = metadata]

-----------------------------------------------------------------------------
(* What a store must satisfy *)

ParentsExistIn(s) == \A r \in Roles : /\ s.parents[r] \subseteq s.roles
                                      /\ r \notin s.roles => s.parents[r] = {}

IndexMatchesIn(s) ==
    \A u \in Users, r \in Roles :
        s.users[u][r] = IF u \in s.roleUsers[r] THEN 1 ELSE 0

AssignedExistIn(s) == \A u \in Users, r \in Roles : s.users[u][r] > 0 => r \in s.roles

NothingLeftBehindIn(s) ==
    \A r \in Roles \ s.roles : /\ s.permissions[r] = {}
                               /\ s.rules[r] = NoRules
                               /\ s.metadata[r] = NoMetadata
=============================================================================
