----------------------------- MODULE PolicyStore -----------------------------
(***************************************************************************)
(* The memory store as a state machine.  Every operation holds the store's *)
(* write lock from its first check to its last assignment, so it is one    *)
(* step.  ApplyPolicyBatch holds the lock too, but works on a copy element *)
(* by element and swaps the copy in at the end: the copy and the position  *)
(* in the documented order are state, and no other operation runs until    *)
(* the batch ends.  A failed operation returns an error and changes        *)
(* nothing; only successful ones are actions, except inside a batch, where *)
(* a failing element ends the batch.                                       *)
(***************************************************************************)
EXTENDS PolicyData

CONSTANT MaxBatch   \* bound: elements in one batch

ASSUME MaxBatchOK == MaxBatch \in Nat

VARIABLES store,    \* the committed data, what readers see
          phase,    \* where applyBatch is; Idle when no batch holds the lock
          work,     \* the copy a running batch changes
          size      \* elements the running batch has applied

vars == <<store, phase, work, size>>

(* The order in which applyBatch runs its lists. *)
Idle == 0
Register == 1
Update == 2
RuleUpdates == 3
MetadataUpdates == 4
Unassign == 5
Assign == 6
Delete == 7

TypeOK == /\ store \in Stores
          /\ work \in Stores
          /\ phase \in Idle .. Delete
          /\ size \in 0 .. MaxBatch

Init == /\ store = NewMemoryStore
        /\ work = NewMemoryStore
        /\ phase = Idle
        /\ size = 0

-----------------------------------------------------------------------------
(* Single operations: the lock is free, the operation succeeds *)

Unlocked == phase = Idle

Commit(newStore) == store' = newStore /\ UNCHANGED <<phase, work, size>>

AddRole(role) ==
    Unlocked /\ AddRoleOK(store, role) /\ Commit(AddRoleDo(store, role))

UpdateRole(role) ==
    Unlocked /\ UpdateRoleOK(store, role) /\ Commit(UpdateRoleDo(store, role))

DeleteRole(name) ==
    Unlocked /\ DeleteRoleOK(store, name) /\ Commit(DeleteRoleDo(store, name))

AssignRole(user, name) ==
    Unlocked /\ AssignRoleOK(store, user, name) /\ Commit(AssignRoleDo(store, user, name))

UnassignRole(user, name) ==
    Unlocked /\ UnassignRoleOK(store, user, name) /\ Commit(UnassignRoleDo(store, user, name))

SetRoleRules(name, rules) ==
    Unlocked /\ SetRoleRulesOK(store, name, rules) /\ Commit(SetRoleRulesDo(store, name, rules))

SetRoleMetadata(name, metadata) ==
    /\ Unlocked
    /\ SetRoleMetadataOK(store, name, metadata)
    /\ Commit(SetRoleMetadataDo(store, name, metadata))

-----------------------------------------------------------------------------
(* ApplyPolicyBatch *)

\* The lock is taken and every map is copied.
BeginBatch == /\ phase = Idle
              /\ phase' = Register
              /\ work' = store
              /\ size' = 0
              /\ UNCHANGED store

\* The lock is released and the copy is garbage.
EndBatch == /\ phase' = Idle
            /\ work' = NewMemoryStore
            /\ size' = 0

\* One element of the list that belongs to position p: lists run in order, and
\* the first error ends the batch without touching the committed data.
BatchElement(p, ok, result) ==
    /\ phase # Idle /\ phase <= p
    /\ size < MaxBatch
    /\ UNCHANGED store
    /\ IF ok THEN phase' = p /\ work' = result /\ size' = size + 1
             ELSE EndBatch

\* validateBatch has refused invalid roles and rules before the lock is taken.
BatchAddRole(role) ==
    validRole(role) /\ BatchElement(Register, AddRoleOK(work, role), AddRoleDo(work, role))

BatchUpdateRole(role) ==
    validRole(role) /\ BatchElement(Update, UpdateRoleOK(work, role), UpdateRoleDo(work, role))

BatchSetRoleRules(name, rules) ==
    /\ validateRules(rules)
    /\ BatchElement(RuleUpdates, SetRoleRulesOK(work, name, rules),
                    SetRoleRulesDo(work, name, rules))

BatchSetRoleMetadata(name, metadata) ==
    BatchElement(MetadataUpdates, SetRoleMetadataOK(work, name, metadata),
                 SetRoleMetadataDo(work, name, metadata))

BatchUnassignRole(user, name) ==
    BatchElement(Unassign, UnassignRoleOK(work, user, name), UnassignRoleDo(work, user, name))

BatchAssignRole(user, name) ==
    BatchElement(Assign, AssignRoleOK(work, user, name), AssignRoleDo(work, user, name))

BatchDeleteRole(name) ==
    BatchElement(Delete, DeleteRoleOK(work, name), DeleteRoleDo(work, name))

\* All elements succeeded and the context is alive: the copy is swapped in.
CommitBatch == /\ phase # Idle
               /\ store' = work
               /\ EndBatch

\* The context is found cancelled, at the start, before a rule or metadata
\* update, or after the last element.
CancelBatch == /\ phase # Idle
               /\ UNCHANGED store
               /\ EndBatch

-----------------------------------------------------------------------------

SingleOperation ==
    \/ \E role \in RoleSpecs : AddRole(role) \/ UpdateRole(role)
    \/ \E name \in Roles : DeleteRole(name)
    \/ \E user \in Users, name \in Roles : AssignRole(user, name) \/ UnassignRole(user, name)
    \/ \E name \in Roles, rules \in RuleLists \cup {InvalidRules} : SetRoleRules(name, rules)
    \/ \E name \in Roles, metadata \in MetadataMaps : SetRoleMetadata(name, metadata)

BatchOperation ==
    \/ BeginBatch
    \/ \E role \in RoleSpecs : BatchAddRole(role) \/ BatchUpdateRole(role)
    \/ \E name \in Roles, rules \in RuleLists : BatchSetRoleRules(name, rules)
    \/ \E name \in Roles, metadata \in MetadataMaps : BatchSetRoleMetadata(name, metadata)
    \/ \E user \in Users, name \in Roles :
          BatchUnassignRole(user, name) \/ BatchAssignRole(user, name)
    \/ \E name \in Roles : BatchDeleteRole(name)
    \/ CommitBatch
    \/ CancelBatch

Next == SingleOperation \/ BatchOperation

Spec == Init /\ [][Next]_vars

-----------------------------------------------------------------------------
(* Safety *)

\* A role never names a parent that does not exist: AddRole and UpdateRole check
\* the parents, and DeleteRole cascades over every child, so no order of the
\* three, in or out of a batch, leaves a dangling link.
ParentsExist == ParentsExistIn(store) /\ ParentsExistIn(work)

\* The hierarchy has no cycle: a lookup through a role on one would fail with
\* ErrCycleDetected, and its users would lose every permission.
\* UpdateRole stores the links first and searches afterwards; a batch may build
\* a cycle only through several of its elements.
HierarchyAcyclic == Acyclic(store.parents) /\ Acyclic(work.parents)

\* roleUsers answers exactly what the users' lists say, and a list has no
\* duplicate: DeleteRole trusts the index when it refuses a role in use, and
\* AssignRole trusts it when it skips a duplicate.
IndexMatchesLists == IndexMatchesIn(store) /\ IndexMatchesIn(work)

\* Nobody holds a role that does not exist: GetRole answers for every name that
\* GetRoles returns, and a name registered again starts with no members.
AssignedRolesExist == AssignedExistIn(store) /\ AssignedExistIn(work)

\* A deleted name leaves no permissions, rules or metadata behind, so a role
\* registered again under it does not inherit them.
NothingLeftBehind == NothingLeftBehindIn(store) /\ NothingLeftBehindIn(work)
=============================================================================
