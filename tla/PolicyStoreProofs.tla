-------------------------- MODULE PolicyStoreProofs --------------------------
(***************************************************************************)
(* Proofs about the memory store for every set of roles and users and      *)
(* batches of any length.  PolicyDataProofs shows that each operation      *)
(* keeps a store record sound; here that holds of the committed store and  *)
(* of the copy of a running batch alike, and everything follows.           *)
(***************************************************************************)
EXTENDS PolicyStore, PolicyDataProofs

\* The inductive invariant.
IInv == /\ StoreInv(store)
        /\ StoreInv(work)
        /\ phase \in Idle .. Delete
        /\ size \in 0 .. MaxBatch

-----------------------------------------------------------------------------
(* The state machine *)

\* The empty store is sound.
LEMMA InitIInv == Init => IInv
BY NewStoreInv, MaxBatchOK DEF Init, IInv, Idle, Delete

\* A single operation touches the committed store only.
LEMMA SingleIInv == IInv /\ SingleOperation => IInv'
<1> SUFFICES ASSUME IInv, SingleOperation PROVE IInv'
  OBVIOUS
<1>1. ASSUME NEW s, Commit(s), StoreInv(s) PROVE IInv'
  BY <1>1 DEF IInv, Commit
<1>2. ASSUME NEW role \in RoleSpecs, AddRole(role) PROVE IInv'
  BY <1>1, <1>2, AddRoleInv DEF AddRole, IInv
<1>3. ASSUME NEW role \in RoleSpecs, UpdateRole(role) PROVE IInv'
  BY <1>1, <1>3, UpdateRoleInv DEF UpdateRole, IInv
<1>4. ASSUME NEW name \in Roles, DeleteRole(name) PROVE IInv'
  BY <1>1, <1>4, DeleteRoleInv DEF DeleteRole, IInv
<1>5. ASSUME NEW user \in Users, NEW name \in Roles, AssignRole(user, name) PROVE IInv'
  BY <1>1, <1>5, AssignRoleInv DEF AssignRole, IInv
<1>6. ASSUME NEW user \in Users, NEW name \in Roles, UnassignRole(user, name) PROVE IInv'
  BY <1>1, <1>6, UnassignRoleInv DEF UnassignRole, IInv
<1>7. ASSUME NEW name \in Roles, NEW rules \in RuleLists \cup {InvalidRules},
             SetRoleRules(name, rules)
      PROVE  IInv'
  BY <1>1, <1>7, SetRoleRulesInv DEF SetRoleRules, IInv
<1>8. ASSUME NEW name \in Roles, NEW metadata \in MetadataMaps,
             SetRoleMetadata(name, metadata)
      PROVE  IInv'
  BY <1>1, <1>8, SetRoleMetadataInv DEF SetRoleMetadata, IInv
<1>9. QED
  BY <1>2, <1>3, <1>4, <1>5, <1>6, <1>7, <1>8 DEF SingleOperation

\* A batch touches its copy only, until the copy replaces the committed store.
LEMMA BatchIInv == IInv /\ BatchOperation => IInv'
<1> SUFFICES ASSUME IInv, BatchOperation PROVE IInv'
  OBVIOUS
<1>0. ASSUME EndBatch, StoreInv(store') PROVE IInv'
  BY <1>0, NewStoreInv, MaxBatchOK DEF IInv, EndBatch, Idle, Delete
<1>1. ASSUME NEW p \in Register .. Delete, NEW s, StoreInv(s), size < MaxBatch,
             store' = store, phase' = p, work' = s, size' = size + 1
      PROVE  IInv'
  BY <1>1, MaxBatchOK DEF IInv, Idle, Register, Delete
<1>2. CASE BeginBatch
  BY <1>2, MaxBatchOK DEF BeginBatch, IInv, Idle, Register, Delete
<1>3. ASSUME NEW role \in RoleSpecs, BatchAddRole(role) PROVE IInv'
  <2>1. CASE AddRoleOK(work, role)
    BY <1>1, <1>3, <2>1, AddRoleInv DEF BatchAddRole, BatchElement, IInv, Register, Delete
  <2>2. CASE ~ AddRoleOK(work, role)
    BY <1>0, <1>3, <2>2 DEF BatchAddRole, BatchElement, IInv
  <2>3. QED
    BY <2>1, <2>2
<1>4. ASSUME NEW role \in RoleSpecs, BatchUpdateRole(role) PROVE IInv'
  <2>1. CASE UpdateRoleOK(work, role)
    BY <1>1, <1>4, <2>1, UpdateRoleInv DEF BatchUpdateRole, BatchElement, IInv, Register, Delete, Update
  <2>2. CASE ~ UpdateRoleOK(work, role)
    BY <1>0, <1>4, <2>2 DEF BatchUpdateRole, BatchElement, IInv
  <2>3. QED
    BY <2>1, <2>2
<1>5. ASSUME NEW name \in Roles, NEW rules \in RuleLists, BatchSetRoleRules(name, rules)
      PROVE  IInv'
  <2>1. CASE SetRoleRulesOK(work, name, rules)
    BY <1>1, <1>5, <2>1, SetRoleRulesInv DEF BatchSetRoleRules, BatchElement, IInv, Register, Delete, RuleUpdates
  <2>2. CASE ~ SetRoleRulesOK(work, name, rules)
    BY <1>0, <1>5, <2>2 DEF BatchSetRoleRules, BatchElement, IInv
  <2>3. QED
    BY <2>1, <2>2
<1>6. ASSUME NEW name \in Roles, NEW metadata \in MetadataMaps,
             BatchSetRoleMetadata(name, metadata)
      PROVE  IInv'
  <2>1. CASE SetRoleMetadataOK(work, name, metadata)
    BY <1>1, <1>6, <2>1, SetRoleMetadataInv DEF BatchSetRoleMetadata, BatchElement, IInv, Register, Delete, MetadataUpdates
  <2>2. CASE ~ SetRoleMetadataOK(work, name, metadata)
    BY <1>0, <1>6, <2>2 DEF BatchSetRoleMetadata, BatchElement, IInv
  <2>3. QED
    BY <2>1, <2>2
<1>7. ASSUME NEW user \in Users, NEW name \in Roles, BatchUnassignRole(user, name)
      PROVE  IInv'
  <2>1. CASE UnassignRoleOK(work, user, name)
    BY <1>1, <1>7, <2>1, UnassignRoleInv DEF BatchUnassignRole, BatchElement, IInv, Register, Delete, Unassign
  <2>2. CASE ~ UnassignRoleOK(work, user, name)
    BY <1>0, <1>7, <2>2 DEF BatchUnassignRole, BatchElement, IInv
  <2>3. QED
    BY <2>1, <2>2
<1>8. ASSUME NEW user \in Users, NEW name \in Roles, BatchAssignRole(user, name)
      PROVE  IInv'
  <2>1. CASE AssignRoleOK(work, user, name)
    BY <1>1, <1>8, <2>1, AssignRoleInv DEF BatchAssignRole, BatchElement, IInv, Register, Delete, Assign
  <2>2. CASE ~ AssignRoleOK(work, user, name)
    BY <1>0, <1>8, <2>2 DEF BatchAssignRole, BatchElement, IInv
  <2>3. QED
    BY <2>1, <2>2
<1>9. ASSUME NEW name \in Roles, BatchDeleteRole(name) PROVE IInv'
  <2>1. CASE DeleteRoleOK(work, name)
    BY <1>1, <1>9, <2>1, DeleteRoleInv DEF BatchDeleteRole, BatchElement, IInv, Register, Delete
  <2>2. CASE ~ DeleteRoleOK(work, name)
    BY <1>0, <1>9, <2>2 DEF BatchDeleteRole, BatchElement, IInv
  <2>3. QED
    BY <2>1, <2>2
<1>10. CASE CommitBatch
  BY <1>0, <1>10 DEF CommitBatch, IInv
<1>11. CASE CancelBatch
  BY <1>0, <1>11 DEF CancelBatch, IInv
<1>12. QED
  BY <1>2, <1>3, <1>4, <1>5, <1>6, <1>7, <1>8, <1>9, <1>10, <1>11 DEF BatchOperation

\* The inductive invariant holds in every reachable state of the memory store.
THEOREM StoreInvariant == Spec => []IInv
<1>1. IInv /\ [Next]_vars => IInv'
  <2>1. IInv /\ UNCHANGED vars => IInv'
    BY DEF IInv, vars
  <2>2. QED
    BY <2>1, SingleIInv, BatchIInv DEF Next
<1>2. QED
  BY InitIInv, <1>1, PTL DEF Spec

\* Types: the committed store and a batch's copy are always well-formed.
THEOREM StoreTypeCorrect == Spec => []TypeOK
<1>1. IInv => TypeOK
  BY DEF IInv, StoreInv, TypeOK
<1>2. QED
  BY <1>1, StoreInvariant, PTL

\* AddRole, UpdateRole, DeleteRole and batches never leave a dangling parent.
THEOREM ParentsAlwaysExist == Spec => []ParentsExist
<1>1. IInv => ParentsExist
  BY DEF IInv, StoreInv, ParentsExist
<1>2. QED
  BY <1>1, StoreInvariant, PTL

\* However many roles there are, checking the one role whose links change
\* (detectCycle after the swap in UpdateRole) keeps the hierarchy acyclic.
THEOREM HierarchyAlwaysAcyclic == Spec => []HierarchyAcyclic
<1>1. IInv => HierarchyAcyclic
  BY DEF IInv, StoreInv, HierarchyAcyclic
<1>2. QED
  BY <1>1, StoreInvariant, PTL

\* The roleUsers index that DeleteRole and AssignRole trust is exact.
THEOREM IndexAlwaysMatches == Spec => []IndexMatchesLists
<1>1. IInv => IndexMatchesLists
  BY DEF IInv, StoreInv, IndexMatchesLists
<1>2. QED
  BY <1>1, StoreInvariant, PTL

\* DeleteRole never removes a role that somebody holds, and AssignRole never
\* assigns one that is gone.
THEOREM NoOrphans == Spec => []AssignedRolesExist
<1>1. IInv => AssignedRolesExist
  BY DEF IInv, StoreInv, AssignedRolesExist
<1>2. QED
  BY <1>1, StoreInvariant, PTL

\* A deleted role leaves no permission, rule or metadata that a role registered
\* again under its name could pick up.
THEOREM NothingInherited == Spec => []NothingLeftBehind
<1>1. IInv => NothingLeftBehind
  BY DEF IInv, StoreInv, NothingLeftBehind
<1>2. QED
  BY <1>1, StoreInvariant, PTL
=============================================================================
