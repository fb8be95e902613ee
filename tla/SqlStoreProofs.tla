---------------------------- MODULE SqlStoreProofs ----------------------------
(***************************************************************************)
(* The SQL store implements the memory store, for every set of roles,      *)
(* users and writers, for batches of any length and on each database.      *)
(* Each operation's statements do to the rows what the memory store does   *)
(* to its maps, and PolicyDataProofs shows that this keeps them sound;     *)
(* whoever writes holds the lock, so the rows it sees are the committed    *)
(* ones with its own changes; hence every step is a step of the memory     *)
(* store, or invisible.                                                    *)
(***************************************************************************)
EXTENDS SqlStore, PolicyDataProofs

-----------------------------------------------------------------------------
(* The invariant *)

\* The payload tables have one row for a role, as their primary key says.
Unique(rows) == \A x, y \in rows : x[1] = y[1] => x = y

\* Rows that the memory store could hold.
Sound(v) == /\ v \in Tables
            /\ StoreInv(AsStore(v))
            /\ Unique(v.role_rules) /\ Unique(v.role_metadata)

\* What the memory store makes of an operation.
OpOK(s, op) ==
    CASE op.kind = "AddRole"         -> AddRoleOK(s, op.role)
      [] op.kind = "UpdateRole"      -> UpdateRoleOK(s, op.role)
      [] op.kind = "DeleteRole"      -> DeleteRoleOK(s, op.name)
      [] op.kind = "AssignRole"      -> AssignRoleOK(s, op.user, op.name)
      [] op.kind = "UnassignRole"    -> UnassignRoleOK(s, op.user, op.name)
      [] op.kind = "SetRoleRules"    -> SetRoleRulesOK(s, op.name, op.rules)
      [] op.kind = "SetRoleMetadata" -> SetRoleMetadataOK(s, op.name, op.metadata)

OpDo(s, op) ==
    CASE op.kind = "AddRole"         -> AddRoleDo(s, op.role)
      [] op.kind = "UpdateRole"      -> UpdateRoleDo(s, op.role)
      [] op.kind = "DeleteRole"      -> DeleteRoleDo(s, op.name)
      [] op.kind = "AssignRole"      -> AssignRoleDo(s, op.user, op.name)
      [] op.kind = "UnassignRole"    -> UnassignRoleDo(s, op.user, op.name)
      [] op.kind = "SetRoleRules"    -> SetRoleRulesDo(s, op.name, op.rules)
      [] op.kind = "SetRoleMetadata" -> SetRoleMetadataDo(s, op.name, op.metadata)

\* The rows after are what the memory store makes of the rows before.
Applied(op, before, after) == /\ OpOK(AsStore(before), op)
                              /\ AsStore(after) = OpDo(AsStore(before), op)

\* Nobody writes without the lock.
LockInv(w) ==
    /\ tx[w].pc \in {"idle", "begun"} => holder # w
    /\ tx[w].pc \in {"ready", "checked", "written"} => dialect = "sqlite" \/ holder = w
    /\ tx[w].size > 0 => holder = w

\* Whoever has the lock and has read sees what is committed, with its own changes.
BaseInv(w) == holder = w /\ (tx[w].pc = "checked" \/ tx[w].size > 0) => tx[w].base = db

\* What the steps of a transaction leave for the next one.
ProgressInv(t) ==
    /\ t.size = 0 => t.phase = 1
    /\ t.pc = "checked" => /\ t.op \in Ops /\ Checks(t.view, t.op)
                           /\ t.size = 0 => t.view = t.base
                           /\ t.size < MaxBatch
                           /\ IF t.batch THEN t.phase <= position[t.op.kind] ELSE t.size = 0
    /\ t.pc = "written" => t.op \in Ops /\ t.size > 0

\* The rows of a transaction are sound, unless it has closed a cycle and not
\* noticed; a single operation has done what the memory store would.
ViewInv(t) ==
    /\ t.pc \in {"ready", "checked"} /\ t.size > 0 => Sound(t.view)
    /\ t.pc = "written" /\ checkCycles(t.view, t.op) =>
          Sound(t.view) /\ (~ t.batch => Applied(t.op, db, t.view))
    /\ t.pc = "ready" /\ t.size > 0 /\ ~ t.batch => \E op \in Ops : Applied(op, db, t.view)

\* The inductive invariant.
SInv == /\ TypeOK /\ Sound(db)
        /\ \A w \in Writers : /\ LockInv(w) /\ BaseInv(w)
                              /\ ProgressInv(tx[w]) /\ ViewInv(tx[w])

-----------------------------------------------------------------------------
(* Tables and stores *)

\* The payload of a role is what its row says.
LEMMA PayloadFacts ==
    ASSUME NEW A, NEW rows, rows \subseteq Roles \X A, Unique(rows), NEW name, NEW none
    PROVE  /\ \A x : <<name, x>> \in rows => Payload(rows, name, none) = x
           /\ (\A x : <<name, x>> \notin rows) => Payload(rows, name, none) = none
<1>1. \A row \in rows : row = <<row[1], row[2]>>
  OBVIOUS
<1>2. ASSUME NEW x, <<name, x>> \in rows PROVE Payload(rows, name, none) = x
  <2>1. <<name, x>>[1] = name
    OBVIOUS
  <2>2. \E row \in rows : row[1] = name
    BY <1>2, <2>1
  <2> DEFINE c == CHOOSE row \in rows : row[1] = name
  <2>3. c \in rows /\ c[1] = name
    BY <2>2
  <2>4. Payload(rows, name, none) = c[2]
    BY <2>2 DEF Payload
  <2> HIDE DEF c
  <2>5. c = <<name, x>>
    BY <1>2, <2>1, <2>3 DEF Unique
  <2> QED
    BY <2>4, <2>5
<1>3. ASSUME \A x : <<name, x>> \notin rows PROVE Payload(rows, name, none) = none
  BY <1>1, <1>3 DEF Payload
<1> QED
  BY <1>2, <1>3

\* The payload of any role is in its range.
LEMMA PayloadType ==
    ASSUME NEW A, NEW rows, rows \subseteq Roles \X A, NEW name, NEW none, none \in A
    PROVE  Payload(rows, name, none) \in A
<1>1. CASE \E row \in rows : row[1] = name
  <2>1. (CHOOSE row \in rows : row[1] = name) \in rows
    BY <1>1
  <2>2. Payload(rows, name, none) = (CHOOSE row \in rows : row[1] = name)[2]
    BY <1>1 DEF Payload
  <2> QED
    BY <2>1, <2>2
<1>2. CASE ~ \E row \in rows : row[1] = name
  BY <1>2 DEF Payload
<1> QED
  BY <1>1, <1>2

\* Tables read as a store.
LEMMA AsStoreType == ASSUME NEW v \in Tables PROVE AsStore(v) \in Stores
<1>1. parentGraph(v) \in Graphs
  BY DEF parentGraph, Graphs
<1>2. \A r \in Roles : Payload(v.role_rules, r, NoRules) \in RuleLists
  <2>1. v.role_rules \subseteq Roles \X RuleLists
    BY DEF Tables
  <2> QED
    BY <2>1, PayloadType, ConstantsOK
<1>3. \A r \in Roles : Payload(v.role_metadata, r, NoMetadata) \in MetadataMaps
  <2>1. v.role_metadata \subseteq Roles \X MetadataMaps
    BY DEF Tables
  <2> QED
    BY <2>1, PayloadType, ConstantsOK
<1>4. v.roles \subseteq Roles
  BY DEF Tables
<1>5. [u \in Users |-> [r \in Roles |-> IF <<u, r>> \in v.role_assignments THEN 1 ELSE 0]]
         \in [Users -> [Roles -> Nat]]
  OBVIOUS
<1> QED
  BY <1>1, <1>2, <1>3, <1>4, <1>5 DEF AsStore, Stores

\* The users' role lists: a row is one occurrence.
Lists(v) == [u \in Users |-> [r \in Roles |-> IF <<u, r>> \in v.role_assignments THEN 1 ELSE 0]]

\* What the store shows of the tables.
LEMMA AsStoreFacts ==
    ASSUME NEW v \in Tables
    PROVE  /\ AsStore(v).roles = v.roles
           /\ AsStore(v).parents = parentGraph(v)
           /\ \A r \in Roles :
                 /\ AsStore(v).permissions[r] = {p \in Permissions : <<r, p>> \in v.role_permissions}
                 /\ AsStore(v).parents[r] = {p \in Roles : <<r, p>> \in v.role_parents}
                 /\ AsStore(v).roleUsers[r] = {u \in Users : <<u, r>> \in v.role_assignments}
                 /\ AsStore(v).rules[r] = Payload(v.role_rules, r, NoRules)
                 /\ AsStore(v).metadata[r] = Payload(v.role_metadata, r, NoMetadata)
           /\ AsStore(v).users = Lists(v)
BY DEF AsStore, parentGraph, Lists

\* Two stores say the same of role r.
SamePart(s, t, r) == /\ s.permissions[r] = t.permissions[r]
                     /\ s.parents[r] = t.parents[r]
                     /\ s.roleUsers[r] = t.roleUsers[r]
                     /\ s.rules[r] = t.rules[r]
                     /\ s.metadata[r] = t.metadata[r]

\* Two stores with the same parts are the same.
LEMMA SameStore ==
    ASSUME NEW s \in Stores, NEW t \in Stores,
           s.roles = t.roles, s.users = t.users, \A r \in Roles : SamePart(s, t, r)
    PROVE  s = t
<1>1. s.permissions = t.permissions /\ s.parents = t.parents /\ s.roleUsers = t.roleUsers
      /\ s.rules = t.rules /\ s.metadata = t.metadata
  BY DEF Stores, Graphs, SamePart
<1> QED
  BY <1>1 DEF Stores

\* The empty tables are the new store.
LEMMA EmptySound == Sound(Empty) /\ AsStore(Empty) = NewMemoryStore
<1>1. Empty \in Tables /\ Unique(Empty.role_rules) /\ Unique(Empty.role_metadata)
  BY DEF Empty, Tables, Unique
<1>2. NewMemoryStore \in Stores
  BY NewStoreInv DEF StoreInv
<1>3. \A r \in Roles : /\ Payload(Empty.role_rules, r, NoRules) = NoRules
                       /\ Payload(Empty.role_metadata, r, NoMetadata) = NoMetadata
  BY DEF Empty, Payload
<1>4. /\ Empty.role_permissions = {} /\ Empty.role_parents = {} /\ Empty.role_assignments = {}
      /\ Empty.roles = {}
  BY DEF Empty
<1>5. AsStore(Empty) = NewMemoryStore
  <2> DEFINE s == AsStore(Empty)
           n == NewMemoryStore
           none == [u \in Users |-> [r \in Roles |-> 0]]
  <2>1. s \in Stores
    BY <1>1, AsStoreType
  <2>2. s.roles = {} /\ s.users = none
    <3>1. s.roles = Empty.roles /\ s.users = Lists(Empty)
      BY <1>1, AsStoreFacts
    <3>2. Lists(Empty) = none
      BY <1>4 DEF Lists
    <3> QED
      BY <1>4, <3>1, <3>2
  <2>3. \A r \in Roles : /\ s.permissions[r] = {} /\ s.parents[r] = {} /\ s.roleUsers[r] = {}
                         /\ s.rules[r] = NoRules /\ s.metadata[r] = NoMetadata
    BY <1>1, <1>3, <1>4, AsStoreFacts
  <2>4. /\ n \in Stores /\ n.roles = {} /\ n.users = none
        /\ \A r \in Roles : /\ n.permissions[r] = {} /\ n.parents[r] = {} /\ n.roleUsers[r] = {}
                            /\ n.rules[r] = NoRules /\ n.metadata[r] = NoMetadata
    BY <1>2 DEF NewMemoryStore
  <2> HIDE DEF s, n, none
  <2>5. s = n
    <3>1. \A r \in Roles : SamePart(s, n, r)
      BY <2>3, <2>4 DEF SamePart
    <3> QED
      BY <2>1, <2>2, <2>4, <3>1, SameStore
  <2> QED
    BY <2>5 DEF s, n
<1> QED
  BY <1>1, <1>5, NewStoreInv DEF Sound

-----------------------------------------------------------------------------
(* Each operation writes what the memory store would *)

\* The rows w have the types and keys of the tables and read as the store d.
ReadsAs(w, d) == /\ w \in Tables /\ Unique(w.role_rules) /\ Unique(w.role_metadata)
                 /\ AsStore(w) = d

\* Sound rows, with the facts about them that the statements rely on.
LEMMA SoundFacts ==
    ASSUME NEW v, Sound(v)
    PROVE  /\ v \in Tables /\ AsStore(v) \in Stores
           /\ StoreInv(AsStore(v))
           /\ parentGraph(v) \in Graphs /\ Acyclic(parentGraph(v))
           /\ \A r \in Roles \ v.roles :
                 /\ \A p \in Permissions : <<r, p>> \notin v.role_permissions
                 /\ \A p \in Roles : <<r, p>> \notin v.role_parents /\ <<p, r>> \notin v.role_parents
<1>1. v \in Tables /\ StoreInv(AsStore(v)) /\ AsStore(v) \in Stores
  BY DEF Sound, StoreInv
<1>2. AsStore(v).roles = v.roles /\ AsStore(v).parents = parentGraph(v)
  BY <1>1, AsStoreFacts
<1>3. parentGraph(v) \in Graphs /\ Acyclic(parentGraph(v))
  BY <1>1, <1>2 DEF StoreInv, Stores
<1>4. ASSUME NEW r \in Roles \ v.roles
      PROVE  /\ AsStore(v).permissions[r] = {} /\ AsStore(v).parents[r] = {}
             /\ \A p \in Roles : r \notin AsStore(v).parents[p]
  BY <1>1, <1>2 DEF StoreInv, NothingLeftBehindIn, ParentsExistIn
<1>5. ASSUME NEW r \in Roles \ v.roles
      PROVE  /\ \A p \in Permissions : <<r, p>> \notin v.role_permissions
             /\ \A p \in Roles : <<r, p>> \notin v.role_parents /\ <<p, r>> \notin v.role_parents
  BY <1>1, <1>4, AsStoreFacts
<1> QED
  BY <1>1, <1>3, <1>5

\* A graph that differs from an acyclic one in the links of one role, and in which
\* the role is not its own ancestor: the memory store's search agrees.
LEMMA SearchAgrees ==
    ASSUME NEW p \in Graphs, NEW q \in Graphs, NEW r \in Roles,
           Acyclic(p), \A x \in Roles : x # r => q[x] = p[x], r \notin Ancestors(q, r)
    PROVE  ~ detectCycle(q, r) /\ r \notin q[r]
<1>1. Acyclic(q)
  BY RelinkAcyclic
<1>2. q[r] \in SUBSET Roles
  BY DEF Graphs
<1> QED
  BY <1>1, <1>2, AcyclicSearch, ReachFacts DEF Ancestors

\* Rows that are not touched read as before.
LEMMA SameRows ==
    ASSUME NEW v \in Tables, NEW w \in Tables
    PROVE  /\ w.role_assignments = v.role_assignments =>
                 /\ AsStore(w).users = AsStore(v).users
                 /\ \A r \in Roles : AsStore(w).roleUsers[r] = AsStore(v).roleUsers[r]
           /\ w.role_permissions = v.role_permissions =>
                 \A r \in Roles : AsStore(w).permissions[r] = AsStore(v).permissions[r]
           /\ w.role_parents = v.role_parents =>
                 \A r \in Roles : AsStore(w).parents[r] = AsStore(v).parents[r]
           /\ w.role_rules = v.role_rules =>
                 \A r \in Roles : AsStore(w).rules[r] = AsStore(v).rules[r]
           /\ w.role_metadata = v.role_metadata =>
                 \A r \in Roles : AsStore(w).metadata[r] = AsStore(v).metadata[r]
<1>1. w.role_assignments = v.role_assignments => Lists(w) = Lists(v)
  BY DEF Lists
<1>2. AsStore(v).users = Lists(v) /\ AsStore(w).users = Lists(w)
  BY AsStoreFacts
<1>3. ASSUME NEW r \in Roles
      PROVE  /\ w.role_assignments = v.role_assignments =>
                   AsStore(w).roleUsers[r] = AsStore(v).roleUsers[r]
             /\ w.role_permissions = v.role_permissions =>
                   AsStore(w).permissions[r] = AsStore(v).permissions[r]
             /\ w.role_parents = v.role_parents => AsStore(w).parents[r] = AsStore(v).parents[r]
  <2>1. /\ AsStore(v).permissions[r] = {p \in Permissions : <<r, p>> \in v.role_permissions}
        /\ AsStore(v).parents[r] = {p \in Roles : <<r, p>> \in v.role_parents}
        /\ AsStore(v).roleUsers[r] = {u \in Users : <<u, r>> \in v.role_assignments}
    BY AsStoreFacts
  <2>2. /\ AsStore(w).permissions[r] = {p \in Permissions : <<r, p>> \in w.role_permissions}
        /\ AsStore(w).parents[r] = {p \in Roles : <<r, p>> \in w.role_parents}
        /\ AsStore(w).roleUsers[r] = {u \in Users : <<u, r>> \in w.role_assignments}
    BY AsStoreFacts
  <2> QED
    BY <2>1, <2>2
<1>6. /\ w.role_rules = v.role_rules =>
            \A r \in Roles : AsStore(w).rules[r] = AsStore(v).rules[r]
      /\ w.role_metadata = v.role_metadata =>
            \A r \in Roles : AsStore(w).metadata[r] = AsStore(v).metadata[r]
  BY AsStoreFacts
<1> QED
  BY <1>1, <1>2, <1>3, <1>6

\* The rows w have the permissions and links of role, and otherwise those of v.
RoleWritten(v, w, role) ==
    /\ w \in Tables /\ w.roles = v.roles \cup {role.name}
    /\ w.role_assignments = v.role_assignments
    /\ w.role_rules = v.role_rules /\ w.role_metadata = v.role_metadata
    /\ \A r \in Roles, p \in Permissions :
          <<r, p>> \in w.role_permissions <=> IF r = role.name THEN p \in role.permissions
                                              ELSE <<r, p>> \in v.role_permissions
    /\ \A r, p \in Roles :
          <<r, p>> \in w.role_parents <=> IF r = role.name THEN p \in role.parents
                                          ELSE <<r, p>> \in v.role_parents

\* Such rows read as a store with the role's permissions and links.
LEMMA RoleWrittenFacts ==
    ASSUME NEW v, Sound(v), NEW w, NEW role \in RoleSpecs, validRole(role), RoleWritten(v, w, role)
    PROVE  /\ parentGraph(w) = LinkParents(AsStore(v), role)
           /\ AsStore(w).parents = LinkParents(AsStore(v), role)
           /\ AsStore(w).users = AsStore(v).users
           /\ \A r \in Roles :
                 /\ AsStore(w).permissions[r] = IF r = role.name THEN role.permissions
                                                ELSE AsStore(v).permissions[r]
                 /\ AsStore(w).roleUsers[r] = AsStore(v).roleUsers[r]
                 /\ AsStore(w).rules[r] = AsStore(v).rules[r]
                 /\ AsStore(w).metadata[r] = AsStore(v).metadata[r]
<1> DEFINE s == AsStore(v)
           t == AsStore(w)
           n == role.name
<1>1. n \in Roles /\ role.permissions \in SUBSET Permissions /\ role.parents \in SUBSET Roles
  BY ValidSpec
<1>2. v \in Tables /\ w \in Tables /\ s \in Stores
  BY SoundFacts DEF RoleWritten
<1>3. ASSUME NEW r \in Roles
      PROVE  parentGraph(w)[r] = LinkParents(s, role)[r]
  <2>1. parentGraph(w)[r] = {p \in Roles : <<r, p>> \in w.role_parents}
    BY DEF parentGraph
  <2>2. s.parents[r] = {p \in Roles : <<r, p>> \in v.role_parents}
    BY <1>2, AsStoreFacts
  <2>3. LinkParents(s, role)[r] = IF r = n THEN role.parents ELSE s.parents[r]
    BY <1>1, <1>2, LinkParentsFacts
  <2>4. \A p \in Roles : <<r, p>> \in w.role_parents
            <=> IF r = n THEN p \in role.parents ELSE <<r, p>> \in v.role_parents
    BY DEF RoleWritten
  <2> HIDE DEF s, n
  <2> QED
    BY <1>1, <2>1, <2>2, <2>3, <2>4
<1>4. parentGraph(w) = LinkParents(s, role)
  <2>1. parentGraph(w) \in Graphs /\ LinkParents(s, role) \in Graphs
    BY <1>2, LinkParentsFacts DEF parentGraph, Graphs
  <2> QED
    BY <1>3, <2>1 DEF Graphs
<1>5. ASSUME NEW r \in Roles
      PROVE  t.permissions[r] = IF r = n THEN role.permissions ELSE s.permissions[r]
  <2>1. /\ t.permissions[r] = {p \in Permissions : <<r, p>> \in w.role_permissions}
        /\ s.permissions[r] = {p \in Permissions : <<r, p>> \in v.role_permissions}
    BY <1>2, AsStoreFacts
  <2>2. \A p \in Permissions : <<r, p>> \in w.role_permissions
            <=> IF r = n THEN p \in role.permissions ELSE <<r, p>> \in v.role_permissions
    BY DEF RoleWritten
  <2> HIDE DEF s, t, n
  <2> QED
    BY <1>1, <2>1, <2>2
<1>6. /\ t.users = s.users
      /\ \A r \in Roles : t.roleUsers[r] = s.roleUsers[r] /\ t.rules[r] = s.rules[r]
                          /\ t.metadata[r] = s.metadata[r]
  BY <1>2, SameRows DEF RoleWritten
<1> QED
  BY <1>2, <1>4, <1>5, <1>6, AsStoreFacts

\* The checks on the rows are the memory store's: the parents exist, and the query
\* for the role among its ancestors finds what detectCycle finds.
LEMMA RoleWrittenChecks ==
    ASSUME NEW v, Sound(v), NEW w, NEW role \in RoleSpecs, validRole(role), RoleWritten(v, w, role),
           \A p \in role.parents : roleExists(w, p),
           role.name \notin Ancestors(parentGraph(w), role.name)
    PROVE  /\ ~ detectCycle(LinkParents(AsStore(v), role), role.name)
           /\ role.parents \subseteq AsStore(v).roles
<1> DEFINE s == AsStore(v)
           n == role.name
<1>1. n \in Roles /\ s \in Stores /\ s.roles = v.roles
  BY ValidSpec, SoundFacts, AsStoreFacts
<1>2. LinkParents(s, role) \in Graphs /\ s.parents \in Graphs /\ Acyclic(s.parents)
  BY <1>1, SoundFacts, LinkParentsFacts DEF StoreInv, Stores
<1>3. n \notin Ancestors(LinkParents(s, role), n)
  BY RoleWrittenFacts
<1>4. ~ detectCycle(LinkParents(s, role), n) /\ n \notin role.parents
  BY <1>1, <1>2, <1>3, SearchAgrees, LinkParentsFacts
<1> QED
  BY <1>1, <1>4 DEF RoleWritten, roleExists

\* A store with the role's permissions and links is what AddRole and UpdateRole make.
LEMMA RoleWrittenStore ==
    ASSUME NEW v, Sound(v), NEW w, NEW role \in RoleSpecs, validRole(role), RoleWritten(v, w, role),
           NEW d, StoreInv(d), d.roles = AsStore(v).roles \cup {role.name}, d.users = AsStore(v).users,
           d.permissions = [AsStore(v).permissions EXCEPT ![role.name] = role.permissions],
           d.parents = LinkParents(AsStore(v), role), d.roleUsers = AsStore(v).roleUsers,
           d.rules = AsStore(v).rules, d.metadata = AsStore(v).metadata
    PROVE  ReadsAs(w, d)
<1> DEFINE s == AsStore(v)
           t == AsStore(w)
           n == role.name
<1>1. v \in Tables /\ w \in Tables /\ s \in Stores /\ t \in Stores /\ d \in Stores /\ n \in Roles
  BY SoundFacts, AsStoreType, ValidSpec DEF RoleWritten, StoreInv
<1>2. t.roles = d.roles /\ t.users = d.users
  <2>1. t.roles = w.roles /\ s.roles = v.roles
    BY <1>1, AsStoreFacts
  <2> QED
    BY <2>1, RoleWrittenFacts DEF RoleWritten
<1>3. ASSUME NEW r \in Roles PROVE SamePart(t, d, r)
  <2>1. d.permissions[r] = IF r = n THEN role.permissions ELSE s.permissions[r]
    <3>1. s.permissions \in [Roles -> SUBSET Permissions]
      BY <1>1 DEF Stores
    <3> QED
      BY <1>1, <3>1
  <2> QED
    BY <2>1, RoleWrittenFacts DEF SamePart
<1>4. t = d
  <2> HIDE DEF t
  <2> QED
    BY <1>1, <1>2, <1>3, SameStore
<1> QED
  BY <1>1, <1>4 DEF ReadsAs, RoleWritten, Sound

\* Statements that change these tables leave well-formed rows.
LEMMA TablesKept ==
    ASSUME NEW v \in Tables, NEW A \in SUBSET Roles, NEW B \in SUBSET (Roles \X Permissions),
           NEW C \in SUBSET (Roles \X Roles)
    PROVE  /\ [v EXCEPT !.roles = A, !.role_permissions = B, !.role_parents = C] \in Tables
           /\ [v EXCEPT !.role_permissions = B, !.role_parents = C] \in Tables
BY DEF Tables

\* INSERT of a role, its permissions and its links.
LEMMA InsertRoleApplied ==
    ASSUME NEW v, Sound(v), NEW role \in RoleSpecs, validRole(role),
           ~ roleExists(v, role.name),
           \A p \in role.parents : roleExists(InsertRole(v, role), p),
           role.name \notin Ancestors(parentGraph(InsertRole(v, role)), role.name)
    PROVE  /\ AddRoleOK(AsStore(v), role)
           /\ ReadsAs(InsertRole(v, role), AddRoleDo(AsStore(v), role))
<1> DEFINE s == AsStore(v)
           w == InsertRole(v, role)
           n == role.name
           d == AddRoleDo(s, role)
<1>1. n \in Roles /\ role.permissions \in SUBSET Permissions /\ role.parents \in SUBSET Roles
  BY ValidSpec
<1>2. s.roles = v.roles /\ s \in Stores /\ n \in Roles \ v.roles
  BY <1>1, SoundFacts, AsStoreFacts DEF roleExists
<1>3. RoleWritten(v, w, role)
  <2>1. /\ w.roles = v.roles \cup {n}
        /\ w.role_permissions = v.role_permissions \cup ({n} \X role.permissions)
        /\ w.role_parents = v.role_parents \cup ({n} \X role.parents)
        /\ w.role_assignments = v.role_assignments
        /\ w.role_rules = v.role_rules /\ w.role_metadata = v.role_metadata
    BY SoundFacts DEF InsertRole, Tables
  <2>2. w \in Tables
    <3>1. /\ w.roles \subseteq Roles
          /\ w.role_permissions \subseteq Roles \X Permissions
          /\ w.role_parents \subseteq Roles \X Roles
      BY <1>1, <2>1, SoundFacts DEF Tables
    <3> QED
      BY <2>1, <3>1, SoundFacts, TablesKept DEF InsertRole
  <2>3. \A r \in Roles, p \in Permissions :
           <<r, p>> \in w.role_permissions <=> IF r = n THEN p \in role.permissions
                                               ELSE <<r, p>> \in v.role_permissions
    BY <1>2, <2>1, SoundFacts
  <2>4. \A r, p \in Roles :
           <<r, p>> \in w.role_parents <=> IF r = n THEN p \in role.parents
                                           ELSE <<r, p>> \in v.role_parents
    BY <1>2, <2>1, SoundFacts
  <2> QED
    BY <2>1, <2>2, <2>3, <2>4 DEF RoleWritten
<1>4. AddRoleOK(s, role)
  BY <1>2, <1>3, RoleWrittenChecks DEF AddRoleOK
<1>5. StoreInv(d)
  BY <1>4, AddRoleInv, SoundFacts
<1>6. /\ d.roles = s.roles \cup {n} /\ d.users = s.users /\ d.parents = LinkParents(s, role)
      /\ d.permissions = [s.permissions EXCEPT ![n] = role.permissions]
      /\ d.roleUsers = s.roleUsers /\ d.rules = s.rules /\ d.metadata = s.metadata
  BY <1>2 DEF AddRoleDo, Stores
<1> HIDE DEF d, w
<1>7. ReadsAs(w, d)
  BY <1>3, <1>5, <1>6, RoleWrittenStore
<1> QED
  BY <1>4, <1>7 DEF d, w

\* DELETE and INSERT of a role's permissions and links.
LEMMA ReplaceRoleApplied ==
    ASSUME NEW v, Sound(v), NEW role \in RoleSpecs, validRole(role),
           roleExists(v, role.name),
           \A p \in role.parents : roleExists(ReplaceRole(v, role), p),
           role.name \notin Ancestors(parentGraph(ReplaceRole(v, role)), role.name)
    PROVE  /\ UpdateRoleOK(AsStore(v), role)
           /\ ReadsAs(ReplaceRole(v, role), UpdateRoleDo(AsStore(v), role))
<1> DEFINE s == AsStore(v)
           w == ReplaceRole(v, role)
           n == role.name
           d == UpdateRoleDo(s, role)
<1>1. n \in Roles /\ role.permissions \in SUBSET Permissions /\ role.parents \in SUBSET Roles
  BY ValidSpec
<1>2. s.roles = v.roles /\ s \in Stores /\ n \in v.roles
  BY <1>1, SoundFacts, AsStoreFacts DEF roleExists
<1>3. RoleWritten(v, w, role)
  <2>1. /\ w.roles = v.roles \cup {n}
        /\ w.role_permissions = (v.role_permissions \ Of(v.role_permissions, n))
                                    \cup ({n} \X role.permissions)
        /\ w.role_parents = (v.role_parents \ Of(v.role_parents, n)) \cup ({n} \X role.parents)
        /\ w.role_assignments = v.role_assignments
        /\ w.role_rules = v.role_rules /\ w.role_metadata = v.role_metadata
    BY <1>2, SoundFacts DEF ReplaceRole, Tables
  <2>2. w \in Tables
    <3>1. /\ w.roles \subseteq Roles
          /\ w.role_permissions \subseteq Roles \X Permissions
          /\ w.role_parents \subseteq Roles \X Roles
      BY <1>1, <2>1, SoundFacts DEF Tables, Of
    <3> QED
      BY <2>1, <3>1, SoundFacts, TablesKept DEF ReplaceRole
  <2>3. \A r \in Roles, p \in Permissions :
           <<r, p>> \in w.role_permissions <=> IF r = n THEN p \in role.permissions
                                               ELSE <<r, p>> \in v.role_permissions
    BY <2>1 DEF Of
  <2>4. \A r, p \in Roles :
           <<r, p>> \in w.role_parents <=> IF r = n THEN p \in role.parents
                                           ELSE <<r, p>> \in v.role_parents
    BY <2>1 DEF Of
  <2> QED
    BY <2>1, <2>2, <2>3, <2>4 DEF RoleWritten
<1>4. UpdateRoleOK(s, role)
  BY <1>2, <1>3, RoleWrittenChecks DEF UpdateRoleOK
<1>5. StoreInv(d)
  BY <1>4, UpdateRoleInv, SoundFacts
<1>6. /\ d.roles = s.roles \cup {n} /\ d.users = s.users /\ d.parents = LinkParents(s, role)
      /\ d.permissions = [s.permissions EXCEPT ![n] = role.permissions]
      /\ d.roleUsers = s.roleUsers /\ d.rules = s.rules /\ d.metadata = s.metadata
  BY <1>2 DEF UpdateRoleDo, Stores
<1> HIDE DEF d, w
<1>7. ReadsAs(w, d)
  BY <1>3, <1>5, <1>6, RoleWrittenStore
<1> QED
  BY <1>4, <1>7 DEF d, w

\* The payload rows new are rows with the payload of role n replaced by x.
Replaced(A, none, rows, n, x, new) ==
    /\ new \subseteq Roles \X (A \ {none}) /\ Unique(new)
    /\ Payload(new, n, none) = x
    /\ \A r \in Roles : r # n => Payload(new, r, none) = Payload(rows, r, none)

\* Replacing the payload row of one role changes its payload only; an empty
\* payload is no row.
LEMMA PayloadReplaced ==
    ASSUME NEW A, NEW none, NEW rows, rows \subseteq Roles \X (A \ {none}), Unique(rows),
           NEW n \in Roles, NEW x \in A
    PROVE  Replaced(A, none, rows, n, x, setRoleDetail(rows, n, x, none))
<1> DEFINE new == setRoleDetail(rows, n, x, none)
<1>1. new = (rows \ Of(rows, n)) \cup ({n} \X ({x} \ {none}))
  BY DEF setRoleDetail
<1>2. \A r, y : <<r, y>> \in new <=> IF r = n THEN y = x /\ x # none ELSE <<r, y>> \in rows
  BY <1>1 DEF Of
<1>3. new \subseteq Roles \X (A \ {none})
  BY <1>1 DEF Of
<1>4. Unique(new)
  <2>1. ASSUME NEW y \in new, NEW z \in new, y[1] = z[1] PROVE y = z
    <3>1. y = <<y[1], y[2]>> /\ z = <<z[1], z[2]>>
      BY <1>3
    <3>2. CASE y[1] = n
      BY <1>2, <2>1, <3>1, <3>2
    <3>3. CASE y[1] # n
      <4>1. y \in rows /\ z \in rows
        BY <1>2, <2>1, <3>1, <3>3
      <4> QED
        BY <2>1, <4>1 DEF Unique
    <3> QED
      BY <3>2, <3>3
  <2> QED
    BY <2>1 DEF Unique
<1> HIDE DEF new
<1>5. Payload(new, n, none) = x
  <2>1. CASE x = none
    <3>1. \A y : <<n, y>> \notin new
      BY <1>2, <2>1
    <3> QED
      BY <1>3, <1>4, <2>1, <3>1, PayloadFacts
  <2>2. CASE x # none
    <3>1. <<n, x>> \in new
      BY <1>2, <2>2
    <3> QED
      BY <1>3, <1>4, <3>1, PayloadFacts
  <2> QED
    BY <2>1, <2>2
<1>6. ASSUME NEW r \in Roles, r # n PROVE Payload(new, r, none) = Payload(rows, r, none)
  <2>1. CASE \E y : <<r, y>> \in rows
    <3>1. PICK y : <<r, y>> \in rows
      BY <2>1
    <3>2. <<r, y>> \in new
      BY <1>2, <1>6, <3>1
    <3>3. Payload(new, r, none) = y
      BY <1>3, <1>4, <3>2, PayloadFacts
    <3>4. rows \subseteq Roles \X A
      OBVIOUS
    <3>5. Payload(rows, r, none) = y
      BY <3>1, <3>4, PayloadFacts
    <3> QED
      BY <3>3, <3>5
  <2>2. CASE \A y : <<r, y>> \notin rows
    <3>1. \A y : <<r, y>> \notin new
      BY <1>2, <1>6, <2>2
    <3>2. Payload(new, r, none) = none
      BY <1>3, <1>4, <3>1, PayloadFacts
    <3>3. rows \subseteq Roles \X A
      OBVIOUS
    <3>4. Payload(rows, r, none) = none
      BY <2>2, <3>3, PayloadFacts
    <3> QED
      BY <3>2, <3>4
  <2> QED
    BY <2>1, <2>2
<1> QED
  BY <1>3, <1>4, <1>5, <1>6 DEF new, Replaced

\* Deleting the payload row of a role is replacing it by an empty one.
LEMMA PayloadRemoved ==
    ASSUME NEW A, NEW none \in A, NEW rows, rows \subseteq Roles \X (A \ {none}), Unique(rows),
           NEW n \in Roles
    PROVE  Replaced(A, none, rows, n, none, rows \ Of(rows, n))
<1>1. rows \ Of(rows, n) = setRoleDetail(rows, n, none, none)
  <2>1. {n} \X ({none} \ {none}) = {}
    OBVIOUS
  <2> QED
    BY <2>1 DEF setRoleDetail
<1> QED
  BY <1>1, PayloadReplaced

\* The upsert of a role's rules.
LEMMA SetRulesApplied ==
    ASSUME NEW v, Sound(v), NEW n \in Roles, NEW rules \in RuleLists, validateRules(rules),
           roleExists(v, n)
    PROVE  /\ SetRoleRulesOK(AsStore(v), n, rules)
           /\ ReadsAs([v EXCEPT !.role_rules = setRoleDetail(v.role_rules, n, rules, NoRules)],
                      SetRoleRulesDo(AsStore(v), n, rules))
<1> DEFINE s == AsStore(v)
           new == setRoleDetail(v.role_rules, n, rules, NoRules)
           w == [v EXCEPT !.role_rules = new]
           d == SetRoleRulesDo(s, n, rules)
<1>1. v \in Tables /\ s \in Stores /\ s.roles = v.roles /\ Unique(v.role_rules)
      /\ Unique(v.role_metadata) /\ v.role_rules \subseteq Roles \X (RuleLists \ {NoRules})
  BY SoundFacts, AsStoreFacts DEF Sound, Tables
<1>2. SetRoleRulesOK(s, n, rules)
  BY <1>1 DEF SetRoleRulesOK, roleExists
<1>3. d \in Stores /\ StoreInv(d)
  BY <1>2, SoundFacts, SetRoleRulesInv DEF StoreInv
<1>4. /\ new \subseteq Roles \X (RuleLists \ {NoRules}) /\ Unique(new)
      /\ Payload(new, n, NoRules) = rules
      /\ \A r \in Roles : r # n => Payload(new, r, NoRules) = Payload(v.role_rules, r, NoRules)
  <2> HIDE DEF s, w, d
  <2>1. Replaced(RuleLists, NoRules, v.role_rules, n, rules, new)
    BY <1>1, PayloadReplaced
  <2> QED
    BY <2>1 DEF Replaced
<1> HIDE DEF new
<1>5. w \in Tables /\ w.role_rules = new /\ w.roles = v.roles
      /\ w.role_permissions = v.role_permissions /\ w.role_parents = v.role_parents
      /\ w.role_assignments = v.role_assignments /\ w.role_metadata = v.role_metadata
  BY <1>1, <1>4 DEF Tables
<1>6. /\ d.roles = s.roles /\ d.users = s.users /\ d.parents = s.parents
      /\ d.permissions = s.permissions /\ d.roleUsers = s.roleUsers /\ d.metadata = s.metadata
      /\ d.rules = [s.rules EXCEPT ![n] = rules] /\ s.rules \in [Roles -> RuleLists]
  BY <1>1 DEF SetRoleRulesDo, Stores
<1> HIDE DEF w, d
<1>7. AsStore(w) = d
  <2> DEFINE t == AsStore(w)
  <2>1. t \in Stores /\ t.roles = d.roles /\ t.users = d.users
    BY <1>1, <1>5, <1>6, AsStoreType, AsStoreFacts, SameRows
  <2>2. ASSUME NEW r \in Roles PROVE SamePart(t, d, r)
    <3>1. t.rules[r] = Payload(new, r, NoRules) /\ s.rules[r] = Payload(v.role_rules, r, NoRules)
      BY <1>1, <1>5, AsStoreFacts
    <3>2. t.rules[r] = d.rules[r]
      BY <1>4, <1>6, <3>1
    <3> QED
      BY <1>1, <1>5, <1>6, <3>2, SameRows DEF SamePart
  <2> HIDE DEF t
  <2>3. t = d
    BY <1>3, <2>1, <2>2, SameStore
  <2> QED
    BY <2>3 DEF t
<1>8. ReadsAs(w, d)
  BY <1>1, <1>4, <1>5, <1>7 DEF ReadsAs
<1> QED
  BY <1>2, <1>8 DEF w, d, new

\* The upsert of a role's metadata.
LEMMA SetMetadataApplied ==
    ASSUME NEW v, Sound(v), NEW n \in Roles, NEW metadata \in MetadataMaps, roleExists(v, n)
    PROVE  /\ SetRoleMetadataOK(AsStore(v), n, metadata)
           /\ ReadsAs([v EXCEPT !.role_metadata =
                                   setRoleDetail(v.role_metadata, n, metadata, NoMetadata)],
                      SetRoleMetadataDo(AsStore(v), n, metadata))
<1> DEFINE s == AsStore(v)
           new == setRoleDetail(v.role_metadata, n, metadata, NoMetadata)
           w == [v EXCEPT !.role_metadata = new]
           d == SetRoleMetadataDo(s, n, metadata)
<1>1. v \in Tables /\ s \in Stores /\ s.roles = v.roles /\ Unique(v.role_rules)
      /\ Unique(v.role_metadata)
      /\ v.role_metadata \subseteq Roles \X (MetadataMaps \ {NoMetadata})
  BY SoundFacts, AsStoreFacts DEF Sound, Tables
<1>2. SetRoleMetadataOK(s, n, metadata)
  BY <1>1 DEF SetRoleMetadataOK, roleExists
<1>3. d \in Stores /\ StoreInv(d)
  BY <1>2, SoundFacts, SetRoleMetadataInv DEF StoreInv
<1>4. /\ new \subseteq Roles \X (MetadataMaps \ {NoMetadata}) /\ Unique(new)
      /\ Payload(new, n, NoMetadata) = metadata
      /\ \A r \in Roles : r # n =>
            Payload(new, r, NoMetadata) = Payload(v.role_metadata, r, NoMetadata)
  <2> HIDE DEF s, w, d
  <2>1. Replaced(MetadataMaps, NoMetadata, v.role_metadata, n, metadata, new)
    BY <1>1, PayloadReplaced
  <2> QED
    BY <2>1 DEF Replaced
<1> HIDE DEF new
<1>5. w \in Tables /\ w.role_metadata = new /\ w.roles = v.roles
      /\ w.role_permissions = v.role_permissions /\ w.role_parents = v.role_parents
      /\ w.role_assignments = v.role_assignments /\ w.role_rules = v.role_rules
  BY <1>1, <1>4 DEF Tables
<1>6. /\ d.roles = s.roles /\ d.users = s.users /\ d.parents = s.parents
      /\ d.permissions = s.permissions /\ d.roleUsers = s.roleUsers /\ d.rules = s.rules
      /\ d.metadata = [s.metadata EXCEPT ![n] = metadata] /\ s.metadata \in [Roles -> MetadataMaps]
  BY <1>1 DEF SetRoleMetadataDo, Stores
<1> HIDE DEF w, d
<1>7. AsStore(w) = d
  <2> DEFINE t == AsStore(w)
  <2>1. t \in Stores /\ t.roles = d.roles /\ t.users = d.users
    BY <1>1, <1>5, <1>6, AsStoreType, AsStoreFacts, SameRows
  <2>2. ASSUME NEW r \in Roles PROVE SamePart(t, d, r)
    <3>1. /\ t.metadata[r] = Payload(new, r, NoMetadata)
          /\ s.metadata[r] = Payload(v.role_metadata, r, NoMetadata)
      BY <1>1, <1>5, AsStoreFacts
    <3>2. t.metadata[r] = d.metadata[r]
      BY <1>4, <1>6, <3>1
    <3> QED
      BY <1>1, <1>5, <1>6, <3>2, SameRows DEF SamePart
  <2> HIDE DEF t
  <2>3. t = d
    BY <1>3, <2>1, <2>2, SameStore
  <2> QED
    BY <2>3 DEF t
<1>8. ReadsAs(w, d)
  BY <1>1, <1>4, <1>5, <1>7 DEF ReadsAs
<1> QED
  BY <1>2, <1>8 DEF w, d, new

\* Removing a role leaves well-formed rows.
LEMMA RemovalKept ==
    ASSUME NEW v \in Tables, NEW A \in SUBSET Roles, NEW B \in SUBSET (Roles \X Permissions),
           NEW C \in SUBSET (Roles \X Roles), NEW D \in SUBSET (Roles \X (RuleLists \ {NoRules})),
           NEW E \in SUBSET (Roles \X (MetadataMaps \ {NoMetadata}))
    PROVE  [v EXCEPT !.role_rules = D, !.role_metadata = E, !.role_parents = C,
                     !.role_permissions = B, !.roles = A] \in Tables
BY DEF Tables

\* DELETE of a role, its sidecar rows and every link to or from it.
LEMMA RemoveRoleApplied ==
    ASSUME NEW v, Sound(v), NEW n \in Roles, roleExists(v, n), ~ roleInUse(v, n)
    PROVE  /\ DeleteRoleOK(AsStore(v), n)
           /\ ReadsAs(RemoveRole(v, n), DeleteRoleDo(AsStore(v), n))
<1> DEFINE s == AsStore(v)
           w == RemoveRole(v, n)
           t == AsStore(w)
           d == DeleteRoleDo(s, n)
<1>1. v \in Tables /\ s \in Stores /\ s.roles = v.roles /\ Unique(v.role_rules)
      /\ Unique(v.role_metadata) /\ v.role_rules \subseteq Roles \X (RuleLists \ {NoRules})
      /\ v.role_metadata \subseteq Roles \X (MetadataMaps \ {NoMetadata})
  BY SoundFacts, AsStoreFacts DEF Sound, Tables
<1>2. DeleteRoleOK(s, n) /\ s.roleUsers[n] = {}
  BY <1>1, AsStoreFacts DEF DeleteRoleOK, roleExists, roleInUse
<1>3. d \in Stores /\ StoreInv(d)
  BY <1>2, SoundFacts, DeleteRoleInv DEF StoreInv
<1>4. Replaced(RuleLists, NoRules, v.role_rules, n, NoRules, v.role_rules \ Of(v.role_rules, n))
  BY <1>1, PayloadRemoved, ConstantsOK
<1>5. Replaced(MetadataMaps, NoMetadata, v.role_metadata, n, NoMetadata,
               v.role_metadata \ Of(v.role_metadata, n))
  BY <1>1, PayloadRemoved, ConstantsOK
<1>6. /\ w.roles = v.roles \ {n} /\ w.role_assignments = v.role_assignments
      /\ w.role_permissions = v.role_permissions \ Of(v.role_permissions, n)
      /\ w.role_parents = {row \in v.role_parents : n \notin {row[1], row[2]}}
      /\ w.role_rules = v.role_rules \ Of(v.role_rules, n)
      /\ w.role_metadata = v.role_metadata \ Of(v.role_metadata, n)
  BY <1>1 DEF RemoveRole, Tables
<1>7. w \in Tables
  <2>1. /\ w.roles \subseteq Roles /\ w.role_permissions \subseteq Roles \X Permissions
        /\ w.role_parents \subseteq Roles \X Roles /\ w.role_assignments \subseteq Users \X Roles
    BY <1>1, <1>6 DEF Tables
  <2>2. /\ w.role_rules \subseteq Roles \X (RuleLists \ {NoRules})
        /\ w.role_metadata \subseteq Roles \X (MetadataMaps \ {NoMetadata})
    BY <1>1, <1>6
  <2> DEFINE C == {row \in v.role_parents : n \notin {row[1], row[2]}}
  <2>3. w = [v EXCEPT !.role_rules = v.role_rules \ Of(v.role_rules, n),
                      !.role_metadata = v.role_metadata \ Of(v.role_metadata, n),
                      !.role_parents = C,
                      !.role_permissions = v.role_permissions \ Of(v.role_permissions, n),
                      !.roles = v.roles \ {n}]
    BY DEF RemoveRole
  <2> HIDE DEF w
  <2> QED
    BY <1>1, <1>6, <2>1, <2>2, <2>3, RemovalKept
<1>8. /\ d.roles = s.roles \ {n} /\ d.users = s.users
      /\ d.permissions = [s.permissions EXCEPT ![n] = {}]
      /\ d.parents = [r \in Roles |-> IF r = n THEN {} ELSE s.parents[r] \ {n}]
      /\ d.roleUsers = [s.roleUsers EXCEPT ![n] = {}]
      /\ d.rules = [s.rules EXCEPT ![n] = NoRules]
      /\ d.metadata = [s.metadata EXCEPT ![n] = NoMetadata]
  BY <1>1 DEF DeleteRoleDo, Stores
<1>9. ASSUME NEW r \in Roles
      PROVE  /\ d.permissions[r] = IF r = n THEN {} ELSE s.permissions[r]
             /\ d.parents[r] = IF r = n THEN {} ELSE s.parents[r] \ {n}
             /\ d.roleUsers[r] = s.roleUsers[r]
             /\ d.rules[r] = IF r = n THEN NoRules ELSE s.rules[r]
             /\ d.metadata[r] = IF r = n THEN NoMetadata ELSE s.metadata[r]
  <2> HIDE DEF s, d
  <2> QED
    BY <1>1, <1>2, <1>8 DEF Stores
<1> HIDE DEF w, d
<1>10. t \in Stores /\ t.roles = d.roles /\ t.users = d.users
  BY <1>1, <1>6, <1>7, <1>8, AsStoreType, AsStoreFacts, SameRows
<1>11. ASSUME NEW r \in Roles PROVE SamePart(t, d, r)
  <2>1. /\ t.permissions[r] = {p \in Permissions : <<r, p>> \in w.role_permissions}
        /\ t.parents[r] = {p \in Roles : <<r, p>> \in w.role_parents}
        /\ t.rules[r] = Payload(w.role_rules, r, NoRules)
        /\ t.metadata[r] = Payload(w.role_metadata, r, NoMetadata)
    BY <1>7, AsStoreFacts
  <2>2. /\ s.permissions[r] = {p \in Permissions : <<r, p>> \in v.role_permissions}
        /\ s.parents[r] = {p \in Roles : <<r, p>> \in v.role_parents}
        /\ s.rules[r] = Payload(v.role_rules, r, NoRules)
        /\ s.metadata[r] = Payload(v.role_metadata, r, NoMetadata)
    BY <1>1, AsStoreFacts
  <2>7. t.roleUsers[r] = s.roleUsers[r]
    BY <1>1, <1>6, <1>7, SameRows
  <2> HIDE DEF s, t
  <2>3. t.permissions[r] = d.permissions[r]
    <3>1. \A p : <<r, p>> \in w.role_permissions <=> r # n /\ <<r, p>> \in v.role_permissions
      BY <1>6 DEF Of
    <3> QED
      BY <1>9, <2>1, <2>2, <3>1
  <2>4. t.parents[r] = d.parents[r]
    <3>1. \A p : <<r, p>> \in w.role_parents <=> r # n /\ p # n /\ <<r, p>> \in v.role_parents
      BY <1>6
    <3> QED
      BY <1>9, <2>1, <2>2, <3>1
  <2>5. t.rules[r] = d.rules[r]
    <3>1. Payload(w.role_rules, r, NoRules)
             = IF r = n THEN NoRules ELSE Payload(v.role_rules, r, NoRules)
      BY <1>4, <1>6 DEF Replaced
    <3> QED
      BY <1>9, <2>1, <2>2, <3>1
  <2>6. t.metadata[r] = d.metadata[r]
    <3>1. Payload(w.role_metadata, r, NoMetadata)
             = IF r = n THEN NoMetadata ELSE Payload(v.role_metadata, r, NoMetadata)
      BY <1>5, <1>6 DEF Replaced
    <3> QED
      BY <1>9, <2>1, <2>2, <3>1
  <2> QED
    BY <1>9, <2>3, <2>4, <2>5, <2>6, <2>7 DEF SamePart
<1>12. t = d
  <2> HIDE DEF t
  <2> QED
    BY <1>3, <1>10, <1>11, SameStore
<1>13. ReadsAs(w, d)
  BY <1>4, <1>5, <1>6, <1>7, <1>12 DEF ReadsAs, Replaced
<1> QED
  BY <1>2, <1>13 DEF w, d

\* The store d is that of the rows v, with the assignments rows.
Reassigned(v, rows, d) ==
    /\ d \in Stores /\ rows \in SUBSET (Users \X Roles)
    /\ d.roles = AsStore(v).roles /\ d.permissions = AsStore(v).permissions
    /\ d.parents = AsStore(v).parents /\ d.rules = AsStore(v).rules
    /\ d.metadata = AsStore(v).metadata
    /\ d.users = [u \in Users |-> [r \in Roles |-> IF <<u, r>> \in rows THEN 1 ELSE 0]]
    /\ \A r \in Roles : d.roleUsers[r] = {u \in Users : <<u, r>> \in rows}

\* So the rows with those assignments read as d.
LEMMA AssignmentsChanged ==
    ASSUME NEW v, Sound(v), NEW rows, NEW d, Reassigned(v, rows, d)
    PROVE  ReadsAs([v EXCEPT !.role_assignments = rows], d)
<1> DEFINE s == AsStore(v)
           w == [v EXCEPT !.role_assignments = rows]
           t == AsStore(w)
<1>0. /\ d \in Stores /\ rows \in SUBSET (Users \X Roles)
      /\ d.roles = s.roles /\ d.permissions = s.permissions /\ d.parents = s.parents
      /\ d.rules = s.rules /\ d.metadata = s.metadata
      /\ d.users = [u \in Users |-> [r \in Roles |-> IF <<u, r>> \in rows THEN 1 ELSE 0]]
      /\ \A r \in Roles : d.roleUsers[r] = {u \in Users : <<u, r>> \in rows}
  BY DEF Reassigned
<1>1. v \in Tables /\ s \in Stores /\ s.roles = v.roles
      /\ Unique(v.role_rules) /\ Unique(v.role_metadata)
  BY SoundFacts, AsStoreFacts DEF Sound
<1>2. w \in Tables /\ w.roles = v.roles /\ w.role_assignments = rows
      /\ w.role_permissions = v.role_permissions /\ w.role_parents = v.role_parents
      /\ w.role_rules = v.role_rules /\ w.role_metadata = v.role_metadata
  BY <1>0, <1>1 DEF Tables
<1> HIDE DEF w
<1>3. t \in Stores /\ t.roles = d.roles
  BY <1>0, <1>1, <1>2, AsStoreType, AsStoreFacts
<1>4. t.users = d.users
  <2>1. t.users = Lists(w)
    BY <1>2, AsStoreFacts
  <2>2. Lists(w) = [u \in Users |-> [r \in Roles |-> IF <<u, r>> \in rows THEN 1 ELSE 0]]
    BY <1>2 DEF Lists
  <2> HIDE DEF t
  <2> QED
    BY <1>0, <2>1, <2>2
<1>5. ASSUME NEW r \in Roles PROVE SamePart(t, d, r)
  <2>1. t.roleUsers[r] = {u \in Users : <<u, r>> \in rows}
    BY <1>2, AsStoreFacts
  <2>2. /\ t.permissions[r] = s.permissions[r] /\ t.parents[r] = s.parents[r]
        /\ t.rules[r] = s.rules[r] /\ t.metadata[r] = s.metadata[r]
    BY <1>1, <1>2, SameRows
  <2> HIDE DEF s, t
  <2> QED
    BY <1>0, <2>1, <2>2 DEF SamePart
<1>6. t = d
  <2> HIDE DEF t
  <2> QED
    BY <1>0, <1>3, <1>4, <1>5, SameStore
<1>7. ReadsAs(w, d)
  BY <1>1, <1>2, <1>6 DEF ReadsAs
<1> QED
  BY <1>7 DEF w

\* INSERT of an assignment; one that is there already stays.
LEMMA InsertAssignmentApplied ==
    ASSUME NEW v, Sound(v), NEW u \in Users, NEW n \in Roles, roleExists(v, n)
    PROVE  /\ AssignRoleOK(AsStore(v), u, n)
           /\ ReadsAs(InsertAssignment(v, u, n), AssignRoleDo(AsStore(v), u, n))
<1> DEFINE s == AsStore(v)
           rows == v.role_assignments \cup {<<u, n>>}
           d == AssignRoleDo(s, u, n)
           lists == [x \in Users |-> [r \in Roles |-> IF <<x, r>> \in rows THEN 1 ELSE 0]]
<1>1. v \in Tables /\ s \in Stores /\ s.roles = v.roles /\ rows \in SUBSET (Users \X Roles)
      /\ s.users = Lists(v) /\ StoreInv(s)
  BY SoundFacts, AsStoreFacts DEF Tables
<1>2. AssignRoleOK(s, u, n)
  BY <1>1 DEF AssignRoleOK, roleExists
<1>3. d \in Stores
  BY <1>1, <1>2, AssignRoleInv DEF StoreInv
<1>4. \A r \in Roles : s.roleUsers[r] = {x \in Users : <<x, r>> \in v.role_assignments}
  BY <1>1, AsStoreFacts
<1>5. InsertAssignment(v, u, n) = [v EXCEPT !.role_assignments = rows]
  BY DEF InsertAssignment
<1> HIDE DEF s
<1>6. CASE u \in s.roleUsers[n]
  <2>1. d = s
    BY <1>6 DEF AssignRoleDo
  <2>2. rows = v.role_assignments
    BY <1>4, <1>6
  <2>3. lists = Lists(v)
    BY <2>2 DEF Lists
  <2>4. s.users = lists /\ \A r \in Roles : s.roleUsers[r] = {x \in Users : <<x, r>> \in rows}
    BY <1>1, <1>4, <2>2, <2>3
  <2> HIDE DEF rows, d
  <2>5. ReadsAs([v EXCEPT !.role_assignments = rows], s)
    <3>1. Reassigned(v, rows, s)
      BY <1>1, <2>4 DEF Reassigned, s
    <3> QED
      BY <3>1, AssignmentsChanged
  <2> QED
    BY <1>2, <1>5, <2>1, <2>5 DEF s, d
<1>7. CASE u \notin s.roleUsers[n]
  <2>1. d = [s EXCEPT !.roleUsers[n] = @ \cup {u}, !.users[u][n] = @ + 1]
    BY <1>7 DEF AssignRoleDo
  <2>2. /\ d.roles = s.roles /\ d.permissions = s.permissions /\ d.parents = s.parents
        /\ d.rules = s.rules /\ d.metadata = s.metadata
        /\ d.roleUsers = [s.roleUsers EXCEPT ![n] = @ \cup {u}]
        /\ d.users = [s.users EXCEPT ![u][n] = @ + 1]
    BY <1>1, <2>1 DEF Stores
  <2>3. d.users = lists
    <3>1. d.users = [Lists(v) EXCEPT ![u] = [Lists(v)[u] EXCEPT ![n] = Lists(v)[u][n] + 1]]
      BY <1>1, <2>2
    <3>2. Lists(v)[u][n] = 0
      BY <1>4, <1>7 DEF Lists
    <3>3. [Lists(v)[u] EXCEPT ![n] = 1] = [r \in Roles |-> IF <<u, r>> \in rows THEN 1 ELSE 0]
      BY DEF Lists
    <3>4. [Lists(v) EXCEPT ![u] = [r \in Roles |-> IF <<u, r>> \in rows THEN 1 ELSE 0]] = lists
      <4>1. ASSUME NEW x \in Users, x # u
            PROVE  Lists(v)[x] = [r \in Roles |-> IF <<x, r>> \in rows THEN 1 ELSE 0]
        BY <4>1 DEF Lists
      <4>2. Lists(v) = [x \in Users |-> Lists(v)[x]]
        BY DEF Lists
      <4> QED
        BY <4>1, <4>2
    <3>5. d.users = [Lists(v) EXCEPT ![u] = [Lists(v)[u] EXCEPT ![n] = 1]]
      <4>1. Lists(v)[u][n] + 1 = 1
        BY <3>2
      <4> QED
        BY <3>1, <4>1
    <3> HIDE DEF lists, d
    <3> QED
      BY <3>3, <3>4, <3>5
  <2>4. ASSUME NEW r \in Roles PROVE d.roleUsers[r] = {x \in Users : <<x, r>> \in rows}
    <3>1. d.roleUsers[r] = IF r = n THEN s.roleUsers[n] \cup {u} ELSE s.roleUsers[r]
      BY <1>1, <2>2 DEF Stores
    <3> HIDE DEF d
    <3> QED
      BY <1>4, <3>1
  <2> HIDE DEF rows, d
  <2>5. ReadsAs([v EXCEPT !.role_assignments = rows], d)
    <3>1. Reassigned(v, rows, d)
      BY <1>1, <1>3, <2>2, <2>3, <2>4 DEF Reassigned, s
    <3> QED
      BY <3>1, AssignmentsChanged
  <2> QED
    BY <1>2, <1>5, <2>5 DEF s, d
<1> QED
  BY <1>6, <1>7

\* DELETE of an assignment, if it is there.
LEMMA RemoveAssignmentApplied ==
    ASSUME NEW v, Sound(v), NEW u \in Users, NEW n \in Roles, roleExists(v, n)
    PROVE  /\ UnassignRoleOK(AsStore(v), u, n)
           /\ ReadsAs(RemoveAssignment(v, u, n), UnassignRoleDo(AsStore(v), u, n))
<1> DEFINE s == AsStore(v)
           rows == v.role_assignments \ {<<u, n>>}
           d == UnassignRoleDo(s, u, n)
           lists == [x \in Users |-> [r \in Roles |-> IF <<x, r>> \in rows THEN 1 ELSE 0]]
<1>1. v \in Tables /\ s \in Stores /\ s.roles = v.roles /\ rows \in SUBSET (Users \X Roles)
      /\ s.users = Lists(v) /\ StoreInv(s)
  BY SoundFacts, AsStoreFacts DEF Tables
<1>2. UnassignRoleOK(s, u, n)
  BY <1>1 DEF UnassignRoleOK, roleExists
<1>3. d \in Stores
  BY <1>1, <1>2, UnassignRoleInv DEF StoreInv
<1>4. \A r \in Roles : s.roleUsers[r] = {x \in Users : <<x, r>> \in v.role_assignments}
  BY <1>1, AsStoreFacts
<1>5. RemoveAssignment(v, u, n) = [v EXCEPT !.role_assignments = rows]
  BY DEF RemoveAssignment
<1> HIDE DEF s
<1>6. /\ d.roles = s.roles /\ d.permissions = s.permissions /\ d.parents = s.parents
      /\ d.rules = s.rules /\ d.metadata = s.metadata
      /\ d.roleUsers = [s.roleUsers EXCEPT ![n] = IF s.users[u][n] > 0 THEN @ \ {u} ELSE @]
      /\ d.users = [s.users EXCEPT ![u][n] = 0]
  BY <1>1 DEF UnassignRoleDo, Stores
<1>7. d.users = lists
  <2>1. d.users = [Lists(v) EXCEPT ![u] = [Lists(v)[u] EXCEPT ![n] = 0]]
    BY <1>1, <1>6
  <2>2. [Lists(v)[u] EXCEPT ![n] = 0] = [r \in Roles |-> IF <<u, r>> \in rows THEN 1 ELSE 0]
    BY DEF Lists
  <2>3. [Lists(v) EXCEPT ![u] = [r \in Roles |-> IF <<u, r>> \in rows THEN 1 ELSE 0]] = lists
    <3>1. ASSUME NEW x \in Users, x # u
          PROVE  Lists(v)[x] = [r \in Roles |-> IF <<x, r>> \in rows THEN 1 ELSE 0]
      BY <3>1 DEF Lists
    <3>2. Lists(v) = [x \in Users |-> Lists(v)[x]]
      BY DEF Lists
    <3> QED
      BY <3>1, <3>2
  <2> HIDE DEF lists, d
  <2> QED
    BY <2>1, <2>2, <2>3
<1>8. ASSUME NEW r \in Roles PROVE d.roleUsers[r] = {x \in Users : <<x, r>> \in rows}
  <2>1. s.users[u][n] = IF <<u, n>> \in v.role_assignments THEN 1 ELSE 0
    BY <1>1 DEF Lists
  <2>2. d.roleUsers[r] = IF r = n /\ s.users[u][n] > 0 THEN s.roleUsers[n] \ {u} ELSE s.roleUsers[r]
    BY <1>1, <1>6 DEF Stores
  <2> HIDE DEF d
  <2>3. CASE <<u, n>> \in v.role_assignments
    <3>1. d.roleUsers[r] = IF r = n THEN s.roleUsers[n] \ {u} ELSE s.roleUsers[r]
      BY <2>1, <2>2, <2>3
    <3> QED
      BY <1>4, <3>1
  <2>4. CASE <<u, n>> \notin v.role_assignments
    <3>1. d.roleUsers[r] = s.roleUsers[r] /\ rows = v.role_assignments
      BY <2>1, <2>2, <2>4
    <3> QED
      BY <1>4, <3>1
  <2> QED
    BY <2>3, <2>4
<1> HIDE DEF rows, d
<1>9. ReadsAs([v EXCEPT !.role_assignments = rows], d)
  <2>1. Reassigned(v, rows, d)
    BY <1>1, <1>3, <1>6, <1>7, <1>8 DEF Reassigned, s
  <2> QED
    BY <2>1, AssignmentsChanged
<1> QED
  BY <1>2, <1>5, <1>9 DEF s, d
\* The operations and their arguments.
LEMMA OpKinds ==
    ASSUME NEW op \in Ops
    PROVE  \/ op.kind = "AddRole" /\ op.role \in RoleSpecs /\ validRole(op.role)
           \/ op.kind = "UpdateRole" /\ op.role \in RoleSpecs /\ validRole(op.role)
           \/ op.kind = "DeleteRole" /\ op.name \in Roles
           \/ op.kind = "AssignRole" /\ op.user \in Users /\ op.name \in Roles
           \/ op.kind = "UnassignRole" /\ op.user \in Users /\ op.name \in Roles
           \/ op.kind = "SetRoleRules" /\ op.name \in Roles /\ op.rules \in RuleLists
              /\ validateRules(op.rules)
           \/ op.kind = "SetRoleMetadata" /\ op.name \in Roles /\ op.metadata \in MetadataMaps
BY DEF Ops

\* An operation whose checks pass on sound rows does what the memory store does,
\* and leaves sound rows.
LEMMA OpApplied ==
    ASSUME NEW v, Sound(v), NEW op \in Ops, Checks(v, op),
           ParentsFound(Writes(v, op), op), checkCycles(Writes(v, op), op)
    PROVE  Applied(op, v, Writes(v, op)) /\ Sound(Writes(v, op))
<1> DEFINE s == AsStore(v)
           w == Writes(v, op)
<1>0. StoreInv(s)
  BY SoundFacts
<1>1. ASSUME OpOK(s, op), ReadsAs(w, OpDo(s, op)), StoreInv(OpDo(s, op))
      PROVE  Applied(op, v, w) /\ Sound(w)
  BY <1>1 DEF Applied, ReadsAs, Sound
<1>2. CASE op.kind = "AddRole" /\ op.role \in RoleSpecs /\ validRole(op.role)
  <2>1. /\ w = InsertRole(v, op.role) /\ OpOK(s, op) = AddRoleOK(s, op.role)
        /\ OpDo(s, op) = AddRoleDo(s, op.role)
    BY <1>2 DEF Writes, OpOK, OpDo
  <2>2. /\ ~ roleExists(v, op.role.name)
        /\ \A p \in op.role.parents : roleExists(w, p)
        /\ op.role.name \notin Ancestors(parentGraph(w), op.role.name)
    BY <1>2 DEF Checks, ParentsFound, checkCycles
  <2> HIDE DEF s, w
  <2>3. AddRoleOK(s, op.role) /\ ReadsAs(w, AddRoleDo(s, op.role))
    BY <1>2, <2>1, <2>2, InsertRoleApplied DEF s
  <2>4. StoreInv(AddRoleDo(s, op.role))
    BY <1>0, <1>2, <2>3, AddRoleInv
  <2> QED
    BY <1>1, <2>1, <2>3, <2>4 DEF w
<1>3. CASE op.kind = "UpdateRole" /\ op.role \in RoleSpecs /\ validRole(op.role)
  <2>1. /\ w = ReplaceRole(v, op.role) /\ OpOK(s, op) = UpdateRoleOK(s, op.role)
        /\ OpDo(s, op) = UpdateRoleDo(s, op.role)
    BY <1>3 DEF Writes, OpOK, OpDo
  <2>2. /\ roleExists(v, op.role.name)
        /\ \A p \in op.role.parents : roleExists(w, p)
        /\ op.role.name \notin Ancestors(parentGraph(w), op.role.name)
    BY <1>3 DEF Checks, ParentsFound, checkCycles
  <2> HIDE DEF s, w
  <2>3. UpdateRoleOK(s, op.role) /\ ReadsAs(w, UpdateRoleDo(s, op.role))
    BY <1>3, <2>1, <2>2, ReplaceRoleApplied DEF s
  <2>4. StoreInv(UpdateRoleDo(s, op.role))
    BY <1>0, <1>3, <2>3, UpdateRoleInv
  <2> QED
    BY <1>1, <2>1, <2>3, <2>4 DEF w
<1>4. CASE op.kind = "DeleteRole" /\ op.name \in Roles
  <2>1. /\ w = RemoveRole(v, op.name) /\ OpOK(s, op) = DeleteRoleOK(s, op.name)
        /\ OpDo(s, op) = DeleteRoleDo(s, op.name)
    BY <1>4 DEF Writes, OpOK, OpDo
  <2>2. roleExists(v, op.name) /\ ~ roleInUse(v, op.name)
    BY <1>4 DEF Checks
  <2> HIDE DEF s, w
  <2>3. DeleteRoleOK(s, op.name) /\ ReadsAs(w, DeleteRoleDo(s, op.name))
    BY <1>4, <2>1, <2>2, RemoveRoleApplied DEF s
  <2>4. StoreInv(DeleteRoleDo(s, op.name))
    BY <1>0, <1>4, <2>3, DeleteRoleInv
  <2> QED
    BY <1>1, <2>1, <2>3, <2>4 DEF w
<1>5. CASE op.kind = "AssignRole" /\ op.user \in Users /\ op.name \in Roles
  <2>1. /\ w = InsertAssignment(v, op.user, op.name)
        /\ OpOK(s, op) = AssignRoleOK(s, op.user, op.name)
        /\ OpDo(s, op) = AssignRoleDo(s, op.user, op.name)
    BY <1>5 DEF Writes, OpOK, OpDo
  <2>2. roleExists(v, op.name)
    BY <1>5 DEF Checks
  <2> HIDE DEF s, w
  <2>3. AssignRoleOK(s, op.user, op.name) /\ ReadsAs(w, AssignRoleDo(s, op.user, op.name))
    BY <1>5, <2>1, <2>2, InsertAssignmentApplied DEF s
  <2>4. StoreInv(AssignRoleDo(s, op.user, op.name))
    BY <1>0, <1>5, <2>3, AssignRoleInv
  <2> QED
    BY <1>1, <2>1, <2>3, <2>4 DEF w
<1>6. CASE op.kind = "UnassignRole" /\ op.user \in Users /\ op.name \in Roles
  <2>1. /\ w = RemoveAssignment(v, op.user, op.name)
        /\ OpOK(s, op) = UnassignRoleOK(s, op.user, op.name)
        /\ OpDo(s, op) = UnassignRoleDo(s, op.user, op.name)
    BY <1>6 DEF Writes, OpOK, OpDo
  <2>2. roleExists(v, op.name)
    BY <1>6 DEF Checks
  <2> HIDE DEF s, w
  <2>3. UnassignRoleOK(s, op.user, op.name) /\ ReadsAs(w, UnassignRoleDo(s, op.user, op.name))
    BY <1>6, <2>1, <2>2, RemoveAssignmentApplied DEF s
  <2>4. StoreInv(UnassignRoleDo(s, op.user, op.name))
    BY <1>0, <1>6, <2>3, UnassignRoleInv
  <2> QED
    BY <1>1, <2>1, <2>3, <2>4 DEF w
<1>7. CASE op.kind = "SetRoleRules" /\ op.name \in Roles /\ op.rules \in RuleLists
           /\ validateRules(op.rules)
  <2>1. /\ w = [v EXCEPT !.role_rules = setRoleDetail(v.role_rules, op.name, op.rules, NoRules)]
        /\ OpOK(s, op) = SetRoleRulesOK(s, op.name, op.rules)
        /\ OpDo(s, op) = SetRoleRulesDo(s, op.name, op.rules)
    BY <1>7 DEF Writes, OpOK, OpDo
  <2>2. roleExists(v, op.name)
    BY <1>7 DEF Checks
  <2> HIDE DEF s, w
  <2>3. SetRoleRulesOK(s, op.name, op.rules) /\ ReadsAs(w, SetRoleRulesDo(s, op.name, op.rules))
    BY <1>7, <2>1, <2>2, SetRulesApplied DEF s
  <2>4. StoreInv(SetRoleRulesDo(s, op.name, op.rules))
    BY <1>0, <1>7, <2>3, SetRoleRulesInv
  <2> QED
    BY <1>1, <2>1, <2>3, <2>4 DEF w
<1>8. CASE op.kind = "SetRoleMetadata" /\ op.name \in Roles /\ op.metadata \in MetadataMaps
  <2>1. /\ w = [v EXCEPT !.role_metadata =
                            setRoleDetail(v.role_metadata, op.name, op.metadata, NoMetadata)]
        /\ OpOK(s, op) = SetRoleMetadataOK(s, op.name, op.metadata)
        /\ OpDo(s, op) = SetRoleMetadataDo(s, op.name, op.metadata)
    BY <1>8 DEF Writes, OpOK, OpDo
  <2>2. roleExists(v, op.name)
    BY <1>8 DEF Checks
  <2> HIDE DEF s, w
  <2>3. /\ SetRoleMetadataOK(s, op.name, op.metadata)
        /\ ReadsAs(w, SetRoleMetadataDo(s, op.name, op.metadata))
    BY <1>8, <2>1, <2>2, SetMetadataApplied DEF s
  <2>4. StoreInv(SetRoleMetadataDo(s, op.name, op.metadata))
    BY <1>0, <1>8, <2>3, SetRoleMetadataInv
  <2> QED
    BY <1>1, <2>1, <2>3, <2>4 DEF w
<1> QED
  BY <1>2, <1>3, <1>4, <1>5, <1>6, <1>7, <1>8, OpKinds

\* Replacing one table leaves well-formed rows.
LEMMA OneTableKept ==
    ASSUME NEW v \in Tables
    PROVE  /\ \A rows \in SUBSET (Users \X Roles) : [v EXCEPT !.role_assignments = rows] \in Tables
           /\ \A rows \in SUBSET (Roles \X (RuleLists \ {NoRules})) :
                 [v EXCEPT !.role_rules = rows] \in Tables
           /\ \A rows \in SUBSET (Roles \X (MetadataMaps \ {NoMetadata})) :
                 [v EXCEPT !.role_metadata = rows] \in Tables
BY DEF Tables

\* Whatever the rows are, the statements of an operation leave well-formed rows.
LEMMA WritesType == ASSUME NEW v \in Tables, NEW op \in Ops PROVE Writes(v, op) \in Tables
<1>0. /\ v.roles \subseteq Roles /\ v.role_permissions \subseteq Roles \X Permissions
      /\ v.role_parents \subseteq Roles \X Roles /\ v.role_assignments \subseteq Users \X Roles
      /\ v.role_rules \subseteq Roles \X (RuleLists \ {NoRules})
      /\ v.role_metadata \subseteq Roles \X (MetadataMaps \ {NoMetadata})
  BY DEF Tables
<1>1. CASE op.kind = "AddRole" /\ op.role \in RoleSpecs /\ validRole(op.role)
  <2> DEFINE A == v.roles \cup {op.role.name}
             B == v.role_permissions \cup ({op.role.name} \X op.role.permissions)
             C == v.role_parents \cup ({op.role.name} \X op.role.parents)
  <2>1. Writes(v, op) = [v EXCEPT !.roles = A, !.role_permissions = B, !.role_parents = C]
    BY <1>1 DEF Writes, InsertRole
  <2>2. A \in SUBSET Roles /\ B \in SUBSET (Roles \X Permissions) /\ C \in SUBSET (Roles \X Roles)
    BY <1>0, <1>1, ValidSpec
  <2> HIDE DEF A, B, C
  <2> QED
    BY <2>1, <2>2 DEF Tables
<1>2. CASE op.kind = "UpdateRole" /\ op.role \in RoleSpecs /\ validRole(op.role)
  <2> DEFINE n == op.role.name
             B == (v.role_permissions \ Of(v.role_permissions, n)) \cup ({n} \X op.role.permissions)
             C == (v.role_parents \ Of(v.role_parents, n)) \cup ({n} \X op.role.parents)
  <2>1. Writes(v, op) = [v EXCEPT !.role_permissions = B, !.role_parents = C]
    BY <1>2 DEF Writes, ReplaceRole
  <2>2. B \in SUBSET (Roles \X Permissions) /\ C \in SUBSET (Roles \X Roles)
    BY <1>0, <1>2, ValidSpec
  <2> HIDE DEF B, C
  <2> QED
    BY <2>1, <2>2 DEF Tables
<1>3. CASE op.kind = "DeleteRole" /\ op.name \in Roles
  <2> DEFINE n == op.name
             A == v.roles \ {n}
             B == v.role_permissions \ Of(v.role_permissions, n)
             C == {row \in v.role_parents : n \notin {row[1], row[2]}}
             D == v.role_rules \ Of(v.role_rules, n)
             E == v.role_metadata \ Of(v.role_metadata, n)
  <2>1. Writes(v, op) = [v EXCEPT !.role_rules = D, !.role_metadata = E, !.role_parents = C,
                                  !.role_permissions = B, !.roles = A]
    BY <1>3 DEF Writes, RemoveRole
  <2>2. /\ A \in SUBSET Roles /\ B \in SUBSET (Roles \X Permissions)
        /\ C \in SUBSET (Roles \X Roles)
        /\ D \in SUBSET (Roles \X (RuleLists \ {NoRules}))
        /\ E \in SUBSET (Roles \X (MetadataMaps \ {NoMetadata}))
    BY <1>0
  <2> HIDE DEF A, B, C, D, E
  <2> QED
    BY <2>1, <2>2 DEF Tables
<1>4. CASE op.kind = "AssignRole" /\ op.user \in Users /\ op.name \in Roles
  BY <1>0, <1>4, OneTableKept DEF Writes, InsertAssignment
<1>5. CASE op.kind = "UnassignRole" /\ op.user \in Users /\ op.name \in Roles
  BY <1>0, <1>5, OneTableKept DEF Writes, RemoveAssignment
<1>6. CASE op.kind = "SetRoleRules" /\ op.name \in Roles /\ op.rules \in RuleLists
           /\ validateRules(op.rules)
  <2> DEFINE rows == setRoleDetail(v.role_rules, op.name, op.rules, NoRules)
  <2>1. Writes(v, op) = [v EXCEPT !.role_rules = rows]
    BY <1>6 DEF Writes
  <2>2. rows \in SUBSET (Roles \X (RuleLists \ {NoRules}))
    BY <1>0, <1>6 DEF setRoleDetail
  <2> HIDE DEF rows
  <2> QED
    BY <2>1, <2>2, OneTableKept
<1>7. CASE op.kind = "SetRoleMetadata" /\ op.name \in Roles /\ op.metadata \in MetadataMaps
  <2> DEFINE rows == setRoleDetail(v.role_metadata, op.name, op.metadata, NoMetadata)
  <2>1. Writes(v, op) = [v EXCEPT !.role_metadata = rows]
    BY <1>7 DEF Writes
  <2>2. rows \in SUBSET (Roles \X (MetadataMaps \ {NoMetadata}))
    BY <1>0, <1>7 DEF setRoleDetail
  <2> HIDE DEF rows
  <2> QED
    BY <2>1, <2>2, OneTableKept
<1> QED
  BY <1>1, <1>2, <1>3, <1>4, <1>5, <1>6, <1>7, OpKinds
-----------------------------------------------------------------------------
(* The transactions *)

\* A transaction whose base is what is committed sees its own rows.
LEMMA OverlayOwn ==
    ASSUME NEW t, t.base = db, t.view \in Tables, db \in Tables
    PROVE  Overlay(t) = t.view
<1>1. ASSUME NEW A, NEW B
      PROVE  {row \in UNION {A, B} : row \in (IF (row \in A) # (row \in B) THEN B ELSE A)} = B
  <2>1. \A row : row \in UNION {A, B} <=> row \in A \/ row \in B
    OBVIOUS
  <2> QED
    BY <2>1
<1>2. Overlay(t) = [roles            |-> t.view["roles"],
                    role_permissions |-> t.view["role_permissions"],
                    role_parents     |-> t.view["role_parents"],
                    role_assignments |-> t.view["role_assignments"],
                    role_rules       |-> t.view["role_rules"],
                    role_metadata    |-> t.view["role_metadata"]]
  BY <1>1 DEF Overlay
<1> QED
  BY <1>2 DEF Tables

\* So whoever has the lock and has read is not disturbed by its next statement.
LEMMA RefreshedSame ==
    ASSUME TypeOK, NEW t \in Transactions, t.base = db
    PROVE  Refreshed(t) = t /\ Overlay(t) = t.view
<1>1. Overlay(t) = t.view
  BY OverlayOwn DEF TypeOK, Transactions
<1>2. [t EXCEPT !.base = db, !.view = t.view] = t
  BY DEF Transactions
<1> QED
  BY <1>1, <1>2 DEF Refreshed

\* What the invariant says of one writer.
WriterInv(w) == LockInv(w) /\ BaseInv(w) /\ ProgressInv(tx[w]) /\ ViewInv(tx[w])

\* A writer without the lock has written nothing; one with it is left alone.
LEMMA OtherWriter ==
    ASSUME SInv, NEW w \in Writers, NEW v \in Writers, v # w,
           tx'[v] = tx[v], dialect' = dialect, holder' \in {holder, w, Free},
           holder = v => holder' = v /\ db' = db
    PROVE  WriterInv(v)'
<1>1. WriterInv(v) /\ tx[v] \in Transactions /\ holder \in Writers \cup {Free}
  BY DEF SInv, WriterInv, TypeOK
<1>2. CASE holder = v
  BY <1>1, <1>2 DEF WriterInv, LockInv, BaseInv, ProgressInv, ViewInv
<1>3. CASE holder # v
  <2>1. holder' # v
    BY <1>3, SqlConstantsOK
  <2>2. ~ (tx[v].size > 0) /\ tx[v].pc # "written"
    BY <1>1, <1>3 DEF WriterInv, LockInv, ProgressInv
  <2>3. LockInv(v)' /\ BaseInv(v)'
    BY <1>1, <1>3, <2>1, <2>2 DEF WriterInv, LockInv, BaseInv
  <2>4. ProgressInv(tx[v])'
    BY <1>1 DEF WriterInv, ProgressInv
  <2>5. ViewInv(tx[v])'
    BY <2>2 DEF ViewInv
  <2> QED
    BY <2>3, <2>4, <2>5 DEF WriterInv
<1> QED
  BY <1>2, <1>3

\* What a step of writer w has to show.
LEMMA OneWriter ==
    ASSUME SInv, NEW w \in Writers, NEW t \in Transactions, tx' = [tx EXCEPT ![w] = t],
           Sound(db'), dialect' = dialect, holder' \in {holder, w, Free},
           holder # w => db' = db /\ (holder # Free => holder' = holder),
           LockInv(w)', BaseInv(w)', ProgressInv(t), ViewInv(tx[w])'
    PROVE  SInv'
<1>1. TypeOK'
  BY DEF SInv, TypeOK, Sound
<1>2. tx'[w] = t
  BY DEF SInv, TypeOK
<1>3. WriterInv(w)'
  BY <1>2 DEF WriterInv, ProgressInv
<1>4. ASSUME NEW v \in Writers, v # w PROVE WriterInv(v)'
  <2>1. tx'[v] = tx[v]
    BY <1>4 DEF SInv, TypeOK
  <2>2. holder = v => holder' = v /\ db' = db
    BY <1>4, SqlConstantsOK
  <2> QED
    BY <1>4, <2>1, <2>2, OtherWriter
<1>5. \A v \in Writers : WriterInv(v)'
  BY <1>3, <1>4
<1> QED
  BY <1>1, <1>5 DEF SInv, WriterInv

\* A new transaction has done nothing.
LEMMA NoTxType == NoTx \in Transactions
BY SqlConstantsOK, EmptySound DEF NoTx, Transactions, Sound

\* What the invariant gives a step of writer w.
LEMMA WriterFacts ==
    ASSUME SInv, NEW w \in Writers
    PROVE  /\ TypeOK /\ Sound(db) /\ tx[w] \in Transactions
           /\ holder \in Writers \cup {Free} /\ Free \notin Writers
           /\ LockInv(w) /\ BaseInv(w) /\ ProgressInv(tx[w]) /\ ViewInv(tx[w])
BY SqlConstantsOK DEF SInv, TypeOK

\* BeginTx takes no lock, except that SQLite's is still to come.
LEMMA BeginKeeps ==
    ASSUME SInv, NEW w \in Writers, NEW batch \in BOOLEAN, Begin(w, batch) PROVE SInv'
<1> DEFINE t == [NoTx EXCEPT !.batch = batch, !.pc = IF dialect = "sqlite" THEN "ready" ELSE "begun"]
<1>1. /\ t \in Transactions /\ t.size = 0 /\ t.phase = 1
      /\ t.pc = IF dialect = "sqlite" THEN "ready" ELSE "begun"
  BY NoTxType DEF NoTx, Transactions
<1>2. tx' = [tx EXCEPT ![w] = t] /\ dialect' = dialect /\ db' = db /\ holder' = holder
  BY DEF Begin
<1> HIDE DEF t
<1>3. tx'[w] = t /\ holder # w
  BY <1>2, WriterFacts DEF Begin, TypeOK, LockInv
<1>4. LockInv(w)' /\ BaseInv(w)' /\ ProgressInv(t) /\ ViewInv(tx[w])'
  BY <1>1, <1>2, <1>3 DEF LockInv, BaseInv, ProgressInv, ViewInv
<1> QED
  BY <1>1, <1>2, <1>3, <1>4, OneWriter, WriterFacts

\* SELECT ... FOR UPDATE waits until nobody has the lock.
LEMMA LockKeeps == ASSUME SInv, NEW w \in Writers, LockMutations(w) PROVE SInv'
<1> DEFINE t == [tx[w] EXCEPT !.pc = "ready"]
<1>1. /\ t \in Transactions /\ t.size = tx[w].size /\ t.phase = tx[w].phase
      /\ t.pc = "ready" /\ t.batch = tx[w].batch /\ tx[w].pc = "begun"
  BY WriterFacts DEF Transactions, LockMutations
<1>2. tx' = [tx EXCEPT ![w] = t] /\ dialect' = dialect /\ db' = db /\ holder' = w /\ holder = Free
  BY DEF LockMutations
<1> HIDE DEF t
<1>3. tx'[w] = t /\ ~ (tx[w].size > 0)
  BY <1>1, <1>2, WriterFacts DEF TypeOK, LockInv
<1>4. LockInv(w)' /\ BaseInv(w)' /\ ViewInv(tx[w])'
  BY <1>1, <1>2, <1>3 DEF LockInv, BaseInv, ViewInv
<1>5. ProgressInv(t)
  BY <1>1, <1>2, <1>3, WriterFacts DEF ProgressInv
<1> QED
  BY <1>1, <1>2, <1>3, <1>4, <1>5, OneWriter, WriterFacts

\* Reading the rows and finding the checks satisfied.
LEMMA CheckKeeps == ASSUME SInv, NEW w \in Writers, NEW op \in Ops, Check(w, op) PROVE SInv'
<1> DEFINE f == FirstRead(tx[w])
           t == [f EXCEPT !.pc = "checked", !.op = op]
<1>1. /\ tx[w].pc = "ready" /\ MaxBatch > 0 /\ Checks(f.view, op)
      /\ IF f.batch THEN f.size < MaxBatch /\ f.phase <= position[op.kind] ELSE f.size = 0
      /\ tx' = [tx EXCEPT ![w] = t] /\ dialect' = dialect /\ db' = db /\ holder' = holder
  BY DEF Check
<1>2. /\ f \in Transactions /\ f.base = db /\ f.size = tx[w].size /\ f.phase = tx[w].phase
      /\ f.size = 0 => f.view = f.base
      /\ f.size > 0 => Sound(f.view) /\ holder = w
  <2>1. CASE tx[w].size = 0
    <3>1. f = [tx[w] EXCEPT !.base = db, !.view = db]
      BY <2>1 DEF FirstRead
    <3>2. tx[w] \in Transactions /\ db \in Tables
      BY WriterFacts DEF TypeOK
    <3> HIDE DEF f
    <3>3. /\ f \in Transactions /\ f.base = db /\ f.view = db /\ f.size = tx[w].size
          /\ f.phase = tx[w].phase
      BY <3>1, <3>2 DEF Transactions
    <3> QED
      BY <2>1, <3>3
  <2>2. CASE tx[w].size # 0
    <3>1. tx[w].size > 0
      BY <2>2, WriterFacts DEF Transactions
    <3>2. holder = w /\ tx[w].base = db
      BY <3>1, WriterFacts DEF LockInv, BaseInv
    <3>3. f = tx[w]
      BY <2>2, <3>2, RefreshedSame, WriterFacts DEF FirstRead
    <3> QED
      BY <1>1, <2>2, <3>1, <3>2, <3>3, WriterFacts DEF ViewInv
  <2> QED
    BY <2>1, <2>2
<1> HIDE DEF f
<1>3. /\ t \in Transactions /\ t.pc = "checked" /\ t.op = op /\ t.size = f.size
      /\ t.phase = f.phase /\ t.base = f.base /\ t.view = f.view /\ t.batch = f.batch
  BY <1>2 DEF Transactions
<1> HIDE DEF t
<1>4. tx'[w] = t
  BY <1>1, WriterFacts DEF TypeOK
<1>5. LockInv(w)'
  BY <1>1, <1>2, <1>3, <1>4, WriterFacts DEF LockInv
<1>6. BaseInv(w)'
  BY <1>1, <1>2, <1>3, <1>4 DEF BaseInv
<1>7. ProgressInv(t)
  BY <1>1, <1>2, <1>3, SqlConstantsOK, WriterFacts DEF ProgressInv, Transactions
<1>8. ViewInv(tx[w])'
  BY <1>2, <1>3, <1>4 DEF ViewInv
<1> QED
  BY <1>1, <1>3, <1>5, <1>6, <1>7, <1>8, OneWriter, WriterFacts

\* SQLite hands out its write lock to a transaction that has seen every commit.
LEMMA ReserveKeeps == ASSUME SInv, NEW w \in Writers, Reserve(w) PROVE SInv'
<1>1. /\ tx[w].pc = "checked" /\ holder = Free /\ tx[w].base = db /\ holder' = w
      /\ dialect' = dialect /\ db' = db /\ tx' = tx
  BY DEF Reserve
<1>2. tx' = [tx EXCEPT ![w] = tx[w]] /\ tx'[w] = tx[w]
  BY <1>1, WriterFacts DEF TypeOK
<1>3. LockInv(w)' /\ BaseInv(w)'
  BY <1>1 DEF LockInv, BaseInv
<1>4. ViewInv(tx[w])'
  BY <1>1, WriterFacts DEF ViewInv
<1> QED
  BY <1>1, <1>2, <1>3, <1>4, OneWriter, WriterFacts
\* The rows a transaction is about to change are sound.
LEMMA CheckedView ==
    ASSUME SInv, NEW w \in Writers, tx[w].pc = "checked", holder = w
    PROVE  /\ tx[w].base = db /\ tx[w].op \in Ops /\ Sound(tx[w].view)
           /\ Checks(tx[w].view, tx[w].op) /\ tx[w].size < MaxBatch
           /\ IF tx[w].batch THEN tx[w].phase <= position[tx[w].op.kind]
                             ELSE tx[w].size = 0 /\ tx[w].view = db
<1>1. /\ tx[w].base = db /\ tx[w].op \in Ops /\ Checks(tx[w].view, tx[w].op)
      /\ tx[w].size < MaxBatch /\ tx[w].size \in Nat
      /\ tx[w].size = 0 => tx[w].view = tx[w].base
      /\ IF tx[w].batch THEN tx[w].phase <= position[tx[w].op.kind] ELSE tx[w].size = 0
  BY WriterFacts DEF BaseInv, ProgressInv, Transactions
<1>2. Sound(tx[w].view)
  <2>1. CASE tx[w].size = 0
    BY <1>1, <2>1, WriterFacts
  <2>2. CASE tx[w].size > 0
    BY <2>2, WriterFacts DEF ViewInv
  <2> QED
    BY <1>1, <2>1, <2>2
<1> QED
  BY <1>1, <1>2

\* What a write leaves behind.
LEMMA WriteFacts ==
    ASSUME SInv, NEW w \in Writers, Write(w), NEW t, t = tx'[w]
    PROVE  /\ t \in Transactions /\ tx' = [tx EXCEPT ![w] = t]
           /\ t.pc = "written" /\ t.op = tx[w].op /\ t.size = tx[w].size + 1 /\ t.base = tx[w].base
           /\ t.batch = tx[w].batch /\ t.view = Writes(tx[w].view, tx[w].op)
           /\ t.phase = position[t.op.kind]
           /\ ParentsFound(t.view, t.op)
<1> DEFINE v == Writes(tx[w].view, tx[w].op)
           x == [tx[w] EXCEPT !.pc = "written", !.view = v,
                              !.phase = position[tx[w].op.kind], !.size = @ + 1]
<1>1. tx[w].pc = "checked" /\ holder = w
  BY DEF Write
<1>2. Refreshed(tx[w]) = tx[w]
  BY <1>1, CheckedView, RefreshedSame, WriterFacts
<1>3. tx' = [tx EXCEPT ![w] = x] /\ ParentsFound(v, tx[w].op)
  BY <1>2 DEF Write
<1>4. v \in Tables
  BY <1>1, CheckedView, WritesType DEF Sound
<1>5. position[tx[w].op.kind] \in 1 .. 7
  BY <1>1, CheckedView, OpKinds DEF position
<1> HIDE DEF v
<1>6. /\ x \in Transactions /\ x.pc = "written" /\ x.op = tx[w].op /\ x.size = tx[w].size + 1
      /\ x.base = tx[w].base /\ x.batch = tx[w].batch /\ x.view = v
      /\ x.phase = position[tx[w].op.kind]
  <2>1. tx[w] \in Transactions /\ tx[w].size + 1 \in 0 .. MaxBatch
    BY <1>1, CheckedView, WriterFacts, SqlConstantsOK DEF Transactions
  <2> QED
    BY <1>4, <1>5, <2>1 DEF Transactions
<1> HIDE DEF x
<1>7. t = x
  BY <1>3, WriterFacts DEF TypeOK
<1> QED
  BY <1>3, <1>6, <1>7 DEF v

\* An operation's writes, on rows that nobody else can change.
LEMMA WriteKeeps == ASSUME SInv, NEW w \in Writers, Write(w) PROVE SInv'
<1> DEFINE t == tx'[w]
<1>1. tx[w].pc = "checked" /\ holder = w /\ holder' = holder /\ db' = db /\ dialect' = dialect
  BY DEF Write
<1>2. /\ t \in Transactions /\ tx' = [tx EXCEPT ![w] = t]
      /\ t.pc = "written" /\ t.op = tx[w].op /\ t.size = tx[w].size + 1 /\ t.base = tx[w].base
      /\ t.batch = tx[w].batch /\ t.view = Writes(tx[w].view, tx[w].op)
      /\ ParentsFound(t.view, t.op)
  BY WriteFacts
<1>3. /\ tx[w].base = db /\ tx[w].op \in Ops /\ Sound(tx[w].view)
      /\ Checks(tx[w].view, tx[w].op) /\ tx[w].size \in Nat
      /\ ~ tx[w].batch => tx[w].view = db
  BY <1>1, CheckedView, WriterFacts DEF Transactions
<1>4. LockInv(w)' /\ BaseInv(w)'
  BY <1>1, <1>2, <1>3 DEF LockInv, BaseInv
<1>5. ProgressInv(t)
  BY <1>2, <1>3 DEF ProgressInv
<1>6. ViewInv(tx[w])'
  <2>1. ASSUME checkCycles(t.view, t.op)
        PROVE  Sound(t.view) /\ (~ t.batch => Applied(t.op, db, t.view))
    <3>1. Applied(t.op, tx[w].view, t.view) /\ Sound(t.view)
      BY <1>2, <1>3, <2>1, OpApplied
    <3> QED
      BY <1>2, <1>3, <3>1
  <2> QED
    BY <1>1, <1>2, <2>1 DEF ViewInv
<1> QED
  BY <1>1, <1>2, <1>4, <1>5, <1>6, OneWriter, WriterFacts

\* The rows of a transaction that has found no cycle.
LEMMA FinishFacts ==
    ASSUME SInv, NEW w \in Writers, Finish(w), NEW t, t = tx'[w]
    PROVE  /\ t \in Transactions /\ tx' = [tx EXCEPT ![w] = t] /\ holder = w
           /\ t.pc = "ready" /\ t.size = tx[w].size /\ t.size > 0 /\ t.base = tx[w].base
           /\ t.batch = tx[w].batch /\ t.view = tx[w].view /\ t.phase = tx[w].phase
           /\ tx[w].base = db /\ checkCycles(tx[w].view, tx[w].op)
<1> DEFINE x == [tx[w] EXCEPT !.pc = "ready", !.op = NoOp]
<1>1. tx[w].pc = "written"
  BY DEF Finish
<1>2. tx[w].size > 0 /\ holder = w /\ tx[w].base = db
  BY <1>1, WriterFacts DEF ProgressInv, LockInv, BaseInv
<1>3. Refreshed(tx[w]) = tx[w]
  BY <1>2, RefreshedSame, WriterFacts
<1>4. tx' = [tx EXCEPT ![w] = x] /\ checkCycles(tx[w].view, tx[w].op)
  BY <1>3 DEF Finish
<1>5. /\ x \in Transactions /\ x.pc = "ready" /\ x.size = tx[w].size /\ x.base = tx[w].base
      /\ x.batch = tx[w].batch /\ x.view = tx[w].view /\ x.phase = tx[w].phase
  BY WriterFacts DEF Transactions
<1> HIDE DEF x
<1>6. t = x
  BY <1>4, WriterFacts DEF TypeOK
<1> QED
  BY <1>2, <1>4, <1>5, <1>6

\* The search for a cycle ends the operation.
LEMMA FinishKeeps == ASSUME SInv, NEW w \in Writers, Finish(w) PROVE SInv'
<1> DEFINE t == tx'[w]
<1>1. tx[w].pc = "written" /\ holder' = holder /\ db' = db /\ dialect' = dialect
  BY DEF Finish
<1>2. /\ t \in Transactions /\ tx' = [tx EXCEPT ![w] = t] /\ holder = w
      /\ t.pc = "ready" /\ t.size > 0 /\ t.base = tx[w].base
      /\ t.batch = tx[w].batch /\ t.view = tx[w].view
      /\ tx[w].base = db /\ checkCycles(tx[w].view, tx[w].op)
  BY FinishFacts
<1>3. LockInv(w)' /\ BaseInv(w)'
  BY <1>1, <1>2 DEF LockInv, BaseInv
<1>4. ProgressInv(t)
  BY <1>2 DEF ProgressInv
<1>5. ViewInv(tx[w])'
  <2>1. tx[w].op \in Ops /\ Sound(tx[w].view) /\ (~ tx[w].batch => Applied(tx[w].op, db, tx[w].view))
    BY <1>1, <1>2, WriterFacts DEF ViewInv, ProgressInv
  <2> QED
    BY <1>1, <1>2, <2>1 DEF ViewInv
<1> QED
  BY <1>1, <1>2, <1>3, <1>4, <1>5, OneWriter, WriterFacts

\* A transaction that is over leaves nothing to say of its writer.
LEMMA EndKeeps ==
    ASSUME SInv, NEW w \in Writers, End(w), Sound(db'), holder # w => db' = db PROVE SInv'
<1>1. /\ tx' = [tx EXCEPT ![w] = NoTx] /\ dialect' = dialect
      /\ holder' = IF holder = w THEN Free ELSE holder
  BY DEF End
<1>2. tx'[w] = NoTx /\ holder' # w
  BY <1>1, WriterFacts DEF TypeOK
<1>3. NoTx.pc = "idle" /\ NoTx.size = 0 /\ NoTx.phase = 1
  BY DEF NoTx
<1>4. LockInv(w)' /\ BaseInv(w)' /\ ViewInv(tx[w])'
  BY <1>2, <1>3 DEF LockInv, BaseInv, ViewInv
<1>5. ProgressInv(NoTx)
  BY <1>3 DEF ProgressInv
<1> QED
  BY <1>1, <1>4, <1>5, NoTxType, OneWriter

\* What a commit makes visible: the rows of the transaction, if it wrote any.
LEMMA CommitFacts ==
    ASSUME SInv, NEW w \in Writers, CommitTx(w)
    PROVE  /\ tx[w].pc = "ready"
           /\ IF tx[w].size = 0 THEN db' = db
              ELSE holder = w /\ Sound(tx[w].view) /\ db' = tx[w].view
                   /\ (~ tx[w].batch => \E op \in Ops : Applied(op, db, tx[w].view))
<1>1. tx[w].pc = "ready" /\ db' = IF tx[w].size = 0 THEN db ELSE Overlay(tx[w])
  BY DEF CommitTx
<1>2. CASE tx[w].size # 0
  <2>1. tx[w].size > 0
    BY <1>2, WriterFacts DEF Transactions
  <2>2. holder = w /\ tx[w].base = db
    BY <2>1, WriterFacts DEF LockInv, BaseInv
  <2>3. Overlay(tx[w]) = tx[w].view
    BY <2>2, RefreshedSame, WriterFacts
  <2>4. Sound(tx[w].view) /\ (~ tx[w].batch => \E op \in Ops : Applied(op, db, tx[w].view))
    BY <1>1, <2>1, WriterFacts DEF ViewInv
  <2> QED
    BY <1>1, <1>2, <2>2, <2>3, <2>4
<1> QED
  BY <1>1, <1>2

\* A commit makes sound rows visible.
LEMMA CommitKeeps == ASSUME SInv, NEW w \in Writers, CommitTx(w) PROVE SInv'
<1>1. Sound(db') /\ (holder # w => db' = db)
  BY CommitFacts, WriterFacts
<1> QED
  BY <1>1, EndKeeps DEF CommitTx

\* A rollback changes nothing that anybody sees.
LEMMA RollbackKeeps == ASSUME SInv, NEW w \in Writers, Rollback(w) PROVE SInv'
<1>1. Sound(db') /\ db' = db
  BY WriterFacts DEF Rollback
<1> QED
  BY <1>1, EndKeeps DEF Rollback

\* The empty database satisfies the invariant.
LEMMA SqlInit == Init => SInv
<1> SUFFICES ASSUME Init PROVE SInv
  OBVIOUS
<1>1. TypeOK /\ Sound(db)
  BY EmptySound, NoTxType, SqlConstantsOK DEF Init, TypeOK, Sound
<1>2. NoTx.pc = "idle" /\ NoTx.size = 0 /\ NoTx.phase = 1
  BY DEF NoTx
<1>3. ASSUME NEW w \in Writers
      PROVE  LockInv(w) /\ BaseInv(w) /\ ProgressInv(tx[w]) /\ ViewInv(tx[w])
  <2>1. tx[w] = NoTx /\ holder # w
    BY SqlConstantsOK DEF Init
  <2> QED
    BY <1>2, <2>1 DEF LockInv, BaseInv, ProgressInv, ViewInv
<1> QED
  BY <1>1, <1>3 DEF SInv

\* Whatever the database, and however the statements of the writers interleave,
\* nobody writes without the lock, whoever holds it works on what is committed, and
\* the rows that become visible are rows the memory store could hold.
THEOREM SqlInvariant == Spec => []SInv
<1>1. SInv /\ UNCHANGED vars => SInv'
  <2> SUFFICES ASSUME SInv, UNCHANGED vars PROVE SInv'
    OBVIOUS
  <2>1. dialect' = dialect /\ db' = db /\ holder' = holder /\ tx' = tx
    BY DEF vars
  <2>2. TypeOK' /\ Sound(db')
    BY <2>1 DEF SInv, TypeOK
  <2>3. ASSUME NEW w \in Writers
        PROVE  LockInv(w)' /\ BaseInv(w)' /\ ProgressInv(tx[w])' /\ ViewInv(tx[w])'
    BY <2>1, WriterFacts DEF LockInv, BaseInv, ProgressInv, ViewInv
  <2> QED
    BY <2>2, <2>3 DEF SInv
<1>2. SInv /\ Next => SInv'
  BY BeginKeeps, LockKeeps, CheckKeeps, ReserveKeeps, WriteKeeps, FinishKeeps, CommitKeeps,
     RollbackKeeps DEF Next
<1> QED
  BY SqlInit, <1>1, <1>2, PTL DEF Spec
-----------------------------------------------------------------------------
(* The transactions implement the memory store *)

\* No batch holds the lock.
NoBatch == [phase |-> 0, size |-> 0, work |-> NewMemoryStore]

\* The batch of transaction t.
BatchOf(t, d) == [phase |-> t.phase, size |-> t.size,
                  work |-> AsStore(IF t.size = 0 THEN d ELSE t.view)]

\* The lock has one holder, so at most one batch is running.
LEMMA BatchIs ==
    /\ \A w \in Writers : Running(w) => Batch = BatchOf(tx[w], db)
    /\ (\A w \in Writers : ~ Running(w)) => Batch = NoBatch
<1>1. ASSUME NEW w \in Writers, Running(w) PROVE Batch = BatchOf(tx[w], db)
  <2>1. \A v \in Writers : Running(v) => v = w
    BY <1>1 DEF Running
  <2>2. (CHOOSE v \in Writers : Running(v)) = w
    BY <1>1, <2>1
  <2> QED
    BY <1>1, <2>2 DEF Batch, BatchOf
<1> QED
  BY <1>1 DEF Batch, NoBatch

\* The same after a step.
LEMMA BatchBecomes ==
    /\ \A w \in Writers : Running(w)' => Batch' = BatchOf(tx'[w], db')
    /\ (\A w \in Writers : ~ Running(w)') => Batch' = NoBatch
<1>1. ASSUME NEW w \in Writers, Running(w)' PROVE Batch' = BatchOf(tx'[w], db')
  <2>1. \A v \in Writers : Running(v)' => v = w
    BY <1>1 DEF Running
  <2>2. (CHOOSE v \in Writers : Running(v)') = w
    BY <1>1, <2>1
  <2> QED
    BY <1>1, <2>2 DEF Batch, BatchOf
<1> QED
  BY <1>1 DEF Batch, NoBatch

\* A step that changes neither the rows nor the running batch is invisible.
LEMMA Invisible ==
    ASSUME db' = db, Batch' = Batch
    PROVE  UNCHANGED PS!vars
BY DEF PS!vars

\* A step of a writer that has no part in the batch leaves the batch as it was.
LEMMA SameBatch ==
    ASSUME TypeOK, NEW w \in Writers, db' = db, \A v \in Writers : v # w => tx'[v] = tx[v],
           \A v \in Writers : v # w => (holder' = v <=> holder = v),
           ~ Running(w), ~ Running(w)'
    PROVE  Batch' = Batch
<1>1. \A v \in Writers : Running(v)' <=> Running(v)
  BY DEF Running
<1>2. CASE \E v \in Writers : Running(v)
  <2>1. PICK v \in Writers : Running(v)
    BY <1>2
  <2>2. v # w /\ Running(v)'
    BY <1>1, <2>1
  <2> QED
    BY <2>1, <2>2, BatchIs, BatchBecomes
<1>3. CASE ~ \E v \in Writers : Running(v)
  BY <1>1, <1>3, BatchIs, BatchBecomes
<1> QED
  BY <1>2, <1>3

\* The lists of a batch are in the memory store's order.
LEMMA SamePositions ==
    /\ position["AddRole"] = PS!Register /\ position["UpdateRole"] = PS!Update
    /\ position["SetRoleRules"] = PS!RuleUpdates /\ position["SetRoleMetadata"] = PS!MetadataUpdates
    /\ position["UnassignRole"] = PS!Unassign /\ position["AssignRole"] = PS!Assign
    /\ position["DeleteRole"] = PS!Delete
BY DEF position, PS!Register, PS!Update, PS!RuleUpdates, PS!MetadataUpdates, PS!Unassign,
       PS!Assign, PS!Delete

\* The memory store's definitions, read in its instance, are the ones used here.
LEMMA SameGraph ==
    ASSUME NEW p, NEW r
    PROVE  PS!detectCycle(p, r) <=> detectCycle(p, r)
<1>1. \A S : PS!Reach(p, S) = Reach(p, S)
  BY DEF PS!Reach, Reach, PS!Closed, Closed
<1> QED
  BY <1>1 DEF PS!detectCycle, detectCycle, PS!Ancestors, Ancestors

\* The conditions of the operations.
LEMMA SameOK ==
    ASSUME NEW s
    PROVE  /\ \A role : validRole(role) => PS!validRole(role)
           /\ \A role : AddRoleOK(s, role) => PS!AddRoleOK(s, role)
           /\ \A role : UpdateRoleOK(s, role) => PS!UpdateRoleOK(s, role)
           /\ \A n : DeleteRoleOK(s, n) => PS!DeleteRoleOK(s, n)
           /\ \A u, n : AssignRoleOK(s, u, n) => PS!AssignRoleOK(s, u, n)
           /\ \A u, n : UnassignRoleOK(s, u, n) => PS!UnassignRoleOK(s, u, n)
           /\ \A n, rules : SetRoleRulesOK(s, n, rules) => PS!SetRoleRulesOK(s, n, rules)
           /\ \A rules : validateRules(rules) => PS!validateRules(rules)
           /\ \A n, m : SetRoleMetadataOK(s, n, m) => PS!SetRoleMetadataOK(s, n, m)
<1>1. \A role : (validRole(role) => PS!validRole(role))
                /\ PS!LinkParents(s, role) = LinkParents(s, role)
  BY DEF PS!validRole, validRole, PS!LinkParents, LinkParents
<1>2. \A role : AddRoleOK(s, role) => PS!AddRoleOK(s, role)
  BY <1>1, SameGraph DEF AddRoleOK, PS!AddRoleOK
<1>3. \A role : UpdateRoleOK(s, role) => PS!UpdateRoleOK(s, role)
  BY <1>1, SameGraph DEF UpdateRoleOK, PS!UpdateRoleOK
<1>4. /\ \A n : DeleteRoleOK(s, n) => PS!DeleteRoleOK(s, n)
      /\ \A u, n : AssignRoleOK(s, u, n) => PS!AssignRoleOK(s, u, n)
      /\ \A u, n : UnassignRoleOK(s, u, n) => PS!UnassignRoleOK(s, u, n)
      /\ \A n, rules : SetRoleRulesOK(s, n, rules) => PS!SetRoleRulesOK(s, n, rules)
      /\ \A rules : validateRules(rules) => PS!validateRules(rules)
      /\ \A n, m : SetRoleMetadataOK(s, n, m) => PS!SetRoleMetadataOK(s, n, m)
  BY DEF DeleteRoleOK, PS!DeleteRoleOK, AssignRoleOK, PS!AssignRoleOK, UnassignRoleOK,
         PS!UnassignRoleOK, SetRoleRulesOK, PS!SetRoleRulesOK, validateRules, PS!validateRules,
         SetRoleMetadataOK, PS!SetRoleMetadataOK
<1> QED
  BY <1>1, <1>2, <1>3, <1>4

\* What the operations do.
LEMMA SameDo ==
    ASSUME NEW s
    PROVE  /\ \A role : PS!AddRoleDo(s, role) = AddRoleDo(s, role)
           /\ \A role : PS!UpdateRoleDo(s, role) = UpdateRoleDo(s, role)
           /\ \A n : PS!DeleteRoleDo(s, n) = DeleteRoleDo(s, n)
           /\ \A u, n : PS!AssignRoleDo(s, u, n) = AssignRoleDo(s, u, n)
           /\ \A u, n : PS!UnassignRoleDo(s, u, n) = UnassignRoleDo(s, u, n)
           /\ \A n, rules : PS!SetRoleRulesDo(s, n, rules) = SetRoleRulesDo(s, n, rules)
           /\ \A n, m : PS!SetRoleMetadataDo(s, n, m) = SetRoleMetadataDo(s, n, m)
<1>1. \A role : /\ PS!AddRoleDo(s, role) = AddRoleDo(s, role)
                /\ PS!UpdateRoleDo(s, role) = UpdateRoleDo(s, role)
  BY Zenon DEF PS!AddRoleDo, AddRoleDo, PS!UpdateRoleDo, UpdateRoleDo, PS!LinkParents, LinkParents
<1>2. \A n : PS!DeleteRoleDo(s, n) = DeleteRoleDo(s, n)
  BY Zenon DEF PS!DeleteRoleDo, DeleteRoleDo
<1>3. \A u, n : /\ PS!AssignRoleDo(s, u, n) = AssignRoleDo(s, u, n)
                /\ PS!UnassignRoleDo(s, u, n) = UnassignRoleDo(s, u, n)
  BY Zenon DEF PS!AssignRoleDo, AssignRoleDo, PS!UnassignRoleDo, UnassignRoleDo
<1>4. /\ \A n, rules : PS!SetRoleRulesDo(s, n, rules) = SetRoleRulesDo(s, n, rules)
      /\ \A n, m : PS!SetRoleMetadataDo(s, n, m) = SetRoleMetadataDo(s, n, m)
  BY Zenon DEF PS!SetRoleRulesDo, SetRoleRulesDo, PS!SetRoleMetadataDo, SetRoleMetadataDo
<1> QED
  BY <1>1, <1>2, <1>3, <1>4

\* What the operations may be given, and the new store.
LEMMA SameData == PS!RoleSpecs = RoleSpecs /\ PS!NewMemoryStore = NewMemoryStore
BY DEF PS!RoleSpecs, RoleSpecs, PS!NewMemoryStore, NewMemoryStore

\* A single operation that commits is the memory store's operation.
LEMMA SingleRefines ==
    ASSUME NEW op \in Ops, Applied(op, db, db'), Batch.phase = 0, Batch' = Batch
    PROVE  PS!Next
<1> DEFINE s == AsStore(db)
<1>1. OpOK(s, op) /\ AsStore(db)' = OpDo(s, op)
  BY DEF Applied
<1>2. PS!Unlocked /\ \A d : AsStore(db)' = d => PS!Commit(d)
  BY DEF PS!Unlocked, PS!Idle, PS!Commit
<1> SUFFICES PS!SingleOperation
  BY DEF PS!Next
<1>3. CASE op.kind = "AddRole" /\ op.role \in RoleSpecs
  <2>1. AddRoleOK(s, op.role) /\ AsStore(db)' = AddRoleDo(s, op.role)
    BY <1>1, <1>3 DEF OpOK, OpDo
  <2>2. PS!AddRole(op.role)
    BY <1>2, <2>1, SameOK, SameDo DEF PS!AddRole
  <2> QED
    BY <1>3, <2>2, SameData DEF PS!SingleOperation
<1>4. CASE op.kind = "UpdateRole" /\ op.role \in RoleSpecs
  <2>1. UpdateRoleOK(s, op.role) /\ AsStore(db)' = UpdateRoleDo(s, op.role)
    BY <1>1, <1>4 DEF OpOK, OpDo
  <2>2. PS!UpdateRole(op.role)
    BY <1>2, <2>1, SameOK, SameDo DEF PS!UpdateRole
  <2> QED
    BY <1>4, <2>2, SameData DEF PS!SingleOperation
<1>5. CASE op.kind = "DeleteRole" /\ op.name \in Roles
  <2>1. DeleteRoleOK(s, op.name) /\ AsStore(db)' = DeleteRoleDo(s, op.name)
    BY <1>1, <1>5 DEF OpOK, OpDo
  <2>2. PS!DeleteRole(op.name)
    BY <1>2, <2>1, SameOK, SameDo DEF PS!DeleteRole
  <2> QED
    BY <1>5, <2>2 DEF PS!SingleOperation
<1>6. CASE op.kind = "AssignRole" /\ op.user \in Users /\ op.name \in Roles
  <2>1. AssignRoleOK(s, op.user, op.name) /\ AsStore(db)' = AssignRoleDo(s, op.user, op.name)
    BY <1>1, <1>6 DEF OpOK, OpDo
  <2>2. PS!AssignRole(op.user, op.name)
    BY <1>2, <2>1, SameOK, SameDo DEF PS!AssignRole
  <2> QED
    BY <1>6, <2>2 DEF PS!SingleOperation
<1>7. CASE op.kind = "UnassignRole" /\ op.user \in Users /\ op.name \in Roles
  <2>1. UnassignRoleOK(s, op.user, op.name) /\ AsStore(db)' = UnassignRoleDo(s, op.user, op.name)
    BY <1>1, <1>7 DEF OpOK, OpDo
  <2>2. PS!UnassignRole(op.user, op.name)
    BY <1>2, <2>1, SameOK, SameDo DEF PS!UnassignRole
  <2> QED
    BY <1>7, <2>2 DEF PS!SingleOperation
<1>8. CASE op.kind = "SetRoleRules" /\ op.name \in Roles /\ op.rules \in RuleLists
  <2>1. SetRoleRulesOK(s, op.name, op.rules) /\ AsStore(db)' = SetRoleRulesDo(s, op.name, op.rules)
    BY <1>1, <1>8 DEF OpOK, OpDo
  <2>2. PS!SetRoleRules(op.name, op.rules)
    BY <1>2, <2>1, SameOK, SameDo DEF PS!SetRoleRules
  <2> QED
    BY <1>8, <2>2 DEF PS!SingleOperation
<1>9. CASE op.kind = "SetRoleMetadata" /\ op.name \in Roles /\ op.metadata \in MetadataMaps
  <2>1. /\ SetRoleMetadataOK(s, op.name, op.metadata)
        /\ AsStore(db)' = SetRoleMetadataDo(s, op.name, op.metadata)
    BY <1>1, <1>9 DEF OpOK, OpDo
  <2>2. PS!SetRoleMetadata(op.name, op.metadata)
    BY <1>2, <2>1, SameOK, SameDo DEF PS!SetRoleMetadata
  <2> QED
    BY <1>9, <2>2 DEF PS!SingleOperation
<1> QED
  BY <1>3, <1>4, <1>5, <1>6, <1>7, <1>8, <1>9, OpKinds

\* An element of a batch is the memory store's element.
LEMMA ElementRefines ==
    ASSUME NEW op \in Ops, Batch.phase # 0, Batch.phase <= position[op.kind],
           Batch.size < MaxBatch, db' = db, OpOK(Batch.work, op),
           Batch'.phase = position[op.kind], Batch'.work = OpDo(Batch.work, op),
           Batch'.size = Batch.size + 1
    PROVE  PS!Next
<1> DEFINE s == Batch.work
           k == position[op.kind]
<1>1. \A ok, d : ok /\ Batch'.work = d => PS!BatchElement(k, ok, d)
  BY DEF PS!BatchElement, PS!Idle
<1> SUFFICES PS!BatchOperation
  BY DEF PS!Next
<1>3. CASE op.kind = "AddRole" /\ op.role \in RoleSpecs /\ validRole(op.role)
  <2>1. AddRoleOK(s, op.role) /\ Batch'.work = AddRoleDo(s, op.role)
    BY <1>3 DEF OpOK, OpDo
  <2>2. PS!BatchAddRole(op.role)
    BY <1>1, <1>3, <2>1, SamePositions, SameOK, SameDo DEF PS!BatchAddRole
  <2> QED
    BY <1>3, <2>2, SameData DEF PS!BatchOperation
<1>4. CASE op.kind = "UpdateRole" /\ op.role \in RoleSpecs /\ validRole(op.role)
  <2>1. UpdateRoleOK(s, op.role) /\ Batch'.work = UpdateRoleDo(s, op.role)
    BY <1>4 DEF OpOK, OpDo
  <2>2. PS!BatchUpdateRole(op.role)
    BY <1>1, <1>4, <2>1, SamePositions, SameOK, SameDo DEF PS!BatchUpdateRole
  <2> QED
    BY <1>4, <2>2, SameData DEF PS!BatchOperation
<1>5. CASE op.kind = "DeleteRole" /\ op.name \in Roles
  <2>1. DeleteRoleOK(s, op.name) /\ Batch'.work = DeleteRoleDo(s, op.name)
    BY <1>5 DEF OpOK, OpDo
  <2>2. PS!BatchDeleteRole(op.name)
    BY <1>1, <1>5, <2>1, SamePositions, SameOK, SameDo DEF PS!BatchDeleteRole
  <2> QED
    BY <1>5, <2>2 DEF PS!BatchOperation
<1>6. CASE op.kind = "AssignRole" /\ op.user \in Users /\ op.name \in Roles
  <2>1. AssignRoleOK(s, op.user, op.name) /\ Batch'.work = AssignRoleDo(s, op.user, op.name)
    BY <1>6 DEF OpOK, OpDo
  <2>2. PS!BatchAssignRole(op.user, op.name)
    BY <1>1, <1>6, <2>1, SamePositions, SameOK, SameDo DEF PS!BatchAssignRole
  <2> QED
    BY <1>6, <2>2 DEF PS!BatchOperation
<1>7. CASE op.kind = "UnassignRole" /\ op.user \in Users /\ op.name \in Roles
  <2>1. UnassignRoleOK(s, op.user, op.name) /\ Batch'.work = UnassignRoleDo(s, op.user, op.name)
    BY <1>7 DEF OpOK, OpDo
  <2>2. PS!BatchUnassignRole(op.user, op.name)
    BY <1>1, <1>7, <2>1, SamePositions, SameOK, SameDo DEF PS!BatchUnassignRole
  <2> QED
    BY <1>7, <2>2 DEF PS!BatchOperation
<1>8. CASE op.kind = "SetRoleRules" /\ op.name \in Roles /\ op.rules \in RuleLists
           /\ validateRules(op.rules)
  <2>1. SetRoleRulesOK(s, op.name, op.rules) /\ Batch'.work = SetRoleRulesDo(s, op.name, op.rules)
    BY <1>8 DEF OpOK, OpDo
  <2>2. PS!BatchSetRoleRules(op.name, op.rules)
    BY <1>1, <1>8, <2>1, SamePositions, SameOK, SameDo DEF PS!BatchSetRoleRules
  <2> QED
    BY <1>8, <2>2 DEF PS!BatchOperation
<1>9. CASE op.kind = "SetRoleMetadata" /\ op.name \in Roles /\ op.metadata \in MetadataMaps
  <2>1. /\ SetRoleMetadataOK(s, op.name, op.metadata)
        /\ Batch'.work = SetRoleMetadataDo(s, op.name, op.metadata)
    BY <1>9 DEF OpOK, OpDo
  <2>2. PS!BatchSetRoleMetadata(op.name, op.metadata)
    BY <1>1, <1>9, <2>1, SamePositions, SameOK, SameDo DEF PS!BatchSetRoleMetadata
  <2> QED
    BY <1>9, <2>2 DEF PS!BatchOperation
<1> QED
  BY <1>3, <1>4, <1>5, <1>6, <1>7, <1>8, <1>9, OpKinds

\* The ends of a batch and its start are the memory store's.
LEMMA EndsRefine ==
    /\ Batch.phase # 0 /\ Batch' = NoBatch /\ db' = db => PS!Next
    /\ Batch.phase # 0 /\ Batch' = NoBatch /\ AsStore(db') = Batch.work => PS!Next
    /\ Batch.phase = 0 /\ db' = db /\ Batch' = [phase |-> 1, size |-> 0, work |-> AsStore(db)]
         => PS!Next
<1>1. ASSUME Batch.phase # 0, Batch' = NoBatch, db' = db PROVE PS!Next
  <2>1. PS!CancelBatch
    BY <1>1, SameData DEF PS!CancelBatch, PS!EndBatch, PS!Idle, NoBatch
  <2> QED
    BY <2>1 DEF PS!Next, PS!BatchOperation
<1>2. ASSUME Batch.phase # 0, Batch' = NoBatch, AsStore(db') = Batch.work PROVE PS!Next
  <2>1. PS!CommitBatch
    BY <1>2, SameData DEF PS!CommitBatch, PS!EndBatch, PS!Idle, NoBatch
  <2> QED
    BY <2>1 DEF PS!Next, PS!BatchOperation
<1>3. ASSUME Batch.phase = 0, db' = db,
             Batch' = [phase |-> 1, size |-> 0, work |-> AsStore(db)]
      PROVE  PS!Next
  <2>1. PS!BeginBatch
    BY <1>3 DEF PS!BeginBatch, PS!Idle, PS!Register
  <2> QED
    BY <2>1 DEF PS!Next, PS!BatchOperation
<1> QED
  BY <1>1, <1>2, <1>3
\* What a step refines to.
Refined == PS!Next \/ UNCHANGED PS!vars

\* A step of a writer that is running no batch, before or after, and that commits
\* nothing, is invisible.
LEMMA QuietStep ==
    ASSUME SInv, NEW w \in Writers, NEW t, tx' = [tx EXCEPT ![w] = t], db' = db,
           holder' \in {holder, w, Free}, holder # w /\ holder # Free => holder' = holder,
           ~ Running(w), ~ Running(w)'
    PROVE  Batch' = Batch /\ Refined
<1>1. \A v \in Writers : v # w => tx'[v] = tx[v]
  BY DEF SInv, TypeOK
<1>2. \A v \in Writers : v # w => (holder' = v <=> holder = v)
  BY SqlConstantsOK
<1>3. Batch' = Batch
  BY <1>1, <1>2, SameBatch DEF SInv
<1> QED
  BY <1>3, Invisible DEF Refined

\* A batch that holds the lock and starts anew.
LEMMA BatchStarts ==
    ASSUME SInv, NEW w \in Writers, holder = Free, holder' = w, db' = db,
           tx'[w].batch, tx'[w].pc # "written", tx'[w].size = 0, tx'[w].phase = 1
    PROVE  Refined
<1>1. \A v \in Writers : ~ Running(v)
  BY SqlConstantsOK DEF Running
<1>2. Batch.phase = 0
  BY <1>1, BatchIs DEF NoBatch
<1>3. Running(w)'
  BY DEF Running
<1>4. Batch' = [phase |-> 1, size |-> 0, work |-> AsStore(db)]
  BY <1>3, BatchBecomes DEF BatchOf
<1> QED
  BY <1>2, <1>4, EndsRefine DEF Refined

\* The batch of a writer that holds the lock and has read nothing it did not commit
\* or write itself.
LEMMA RunningFacts ==
    ASSUME SInv, NEW w \in Writers, Running(w)
    PROVE  /\ Batch = BatchOf(tx[w], db) /\ Batch.phase = tx[w].phase /\ Batch.phase # 0
           /\ Batch.size = tx[w].size
           /\ Batch.work = AsStore(IF tx[w].size = 0 THEN db ELSE tx[w].view)
<1>1. Batch = BatchOf(tx[w], db)
  BY BatchIs
<1>2. tx[w].phase \in 1 .. 7
  BY WriterFacts DEF Transactions
<1> QED
  BY <1>1, <1>2 DEF BatchOf

\* A transaction begins before it takes the lock.
LEMMA BeginRefines ==
    ASSUME SInv, NEW w \in Writers, NEW batch \in BOOLEAN, Begin(w, batch) PROVE Refined
<1>1. holder # w /\ holder' = holder /\ db' = db
  BY WriterFacts DEF Begin, LockInv
<1>2. ~ Running(w) /\ ~ Running(w)'
  BY <1>1 DEF Running
<1> QED
  BY <1>1, <1>2, QuietStep DEF Begin

\* Taking the lock starts a batch, and says nothing of a single operation.
LEMMA LockRefines == ASSUME SInv, NEW w \in Writers, LockMutations(w) PROVE Refined
<1> DEFINE t == [tx[w] EXCEPT !.pc = "ready"]
<1>1. /\ t.size = tx[w].size /\ t.phase = tx[w].phase /\ t.pc = "ready" /\ t.batch = tx[w].batch
      /\ tx[w].pc = "begun"
  BY WriterFacts DEF Transactions, LockMutations
<1>2. tx' = [tx EXCEPT ![w] = t] /\ db' = db /\ holder' = w /\ holder = Free
  BY DEF LockMutations
<1> HIDE DEF t
<1>3. tx'[w] = t /\ tx[w].size = 0 /\ tx[w].phase = 1 /\ holder # w
  BY <1>1, <1>2, WriterFacts DEF TypeOK, LockInv, ProgressInv, Transactions
<1>4. CASE tx[w].batch
  BY <1>1, <1>2, <1>3, <1>4, BatchStarts
<1>5. CASE ~ tx[w].batch
  <2>1. ~ Running(w) /\ ~ Running(w)'
    BY <1>1, <1>3, <1>5 DEF Running
  <2> QED
    BY <1>2, <2>1, QuietStep
<1> QED
  BY <1>4, <1>5

\* SQLite's lock is taken at the first write.
LEMMA ReserveRefines == ASSUME SInv, NEW w \in Writers, Reserve(w) PROVE Refined
<1>1. tx[w].pc = "checked" /\ holder = Free /\ holder' = w /\ db' = db /\ tx' = tx
  BY DEF Reserve
<1>2. tx[w].size = 0 /\ tx[w].phase = 1 /\ holder # w
  BY <1>1, WriterFacts DEF LockInv, ProgressInv, Transactions
<1>3. tx' = [tx EXCEPT ![w] = tx[w]]
  BY <1>1, WriterFacts DEF TypeOK
<1>4. CASE tx[w].batch
  BY <1>1, <1>2, <1>4, BatchStarts
<1>5. CASE ~ tx[w].batch
  <2>1. ~ Running(w) /\ ~ Running(w)'
    BY <1>1, <1>5 DEF Running
  <2> QED
    BY <1>1, <1>3, <2>1, QuietStep
<1> QED
  BY <1>4, <1>5

\* A running batch whose place, length and rows stay is invisible.
LEMMA SameRunning ==
    ASSUME SInv, NEW w \in Writers, Running(w), Running(w)', db' = db,
           tx'[w].phase = tx[w].phase, tx'[w].size = tx[w].size,
           tx[w].size # 0 => tx'[w].view = tx[w].view
    PROVE  Refined
<1>1. Batch' = Batch
  BY BatchIs, BatchBecomes DEF BatchOf
<1> QED
  BY <1>1, Invisible DEF Refined

\* Checks are invisible.
LEMMA CheckRefines == ASSUME SInv, NEW w \in Writers, NEW op \in Ops, Check(w, op) PROVE Refined
<1> DEFINE f == FirstRead(tx[w])
           t == [f EXCEPT !.pc = "checked", !.op = op]
<1>1. /\ tx[w].pc = "ready" /\ tx' = [tx EXCEPT ![w] = t] /\ db' = db /\ holder' = holder
  BY DEF Check
<1>2. /\ f \in Transactions /\ f.size = tx[w].size /\ f.phase = tx[w].phase
      /\ f.batch = tx[w].batch /\ (tx[w].size # 0 => f.view = tx[w].view)
  <2>0. tx[w] \in Transactions /\ db \in Tables
    BY WriterFacts DEF TypeOK
  <2>1. CASE tx[w].size = 0
    <3>1. f = [tx[w] EXCEPT !.base = db, !.view = db]
      BY <2>1 DEF FirstRead
    <3> HIDE DEF f
    <3> QED
      BY <2>0, <2>1, <3>1 DEF Transactions
  <2>2. CASE tx[w].size # 0
    <3>1. tx[w].size > 0
      BY <2>0, <2>2 DEF Transactions
    <3>2. tx[w].base = db
      BY <3>1, WriterFacts DEF LockInv, BaseInv
    <3>3. f = tx[w]
      BY <2>2, <3>2, RefreshedSame, WriterFacts DEF FirstRead
    <3> QED
      BY <2>0, <3>3
  <2> QED
    BY <2>1, <2>2
<1> HIDE DEF f
<1>3. /\ t.pc = "checked" /\ t.size = f.size /\ t.phase = f.phase /\ t.view = f.view
      /\ t.batch = f.batch
  BY <1>2 DEF Transactions
<1> HIDE DEF t
<1>4. tx'[w] = t
  BY <1>1, WriterFacts DEF TypeOK
<1>5. Running(w)' <=> Running(w)
  BY <1>1, <1>2, <1>3, <1>4 DEF Running
<1>6. CASE Running(w)
  BY <1>1, <1>2, <1>3, <1>4, <1>5, <1>6, SameRunning
<1>7. CASE ~ Running(w)
  BY <1>1, <1>5, <1>7, QuietStep
<1> QED
  BY <1>6, <1>7

\* The writes of a batch's element are the element, or its failure when they close
\* a cycle; those of a single operation show when it commits.
LEMMA WriteRefines == ASSUME SInv, NEW w \in Writers, Write(w) PROVE Refined
<1> DEFINE t == tx'[w]
<1>1. tx[w].pc = "checked" /\ holder = w /\ holder' = holder /\ db' = db
  BY DEF Write
<1>2. /\ tx' = [tx EXCEPT ![w] = t]
      /\ t.pc = "written" /\ t.op = tx[w].op /\ t.size = tx[w].size + 1
      /\ t.batch = tx[w].batch /\ t.view = Writes(tx[w].view, tx[w].op)
      /\ t.phase = position[tx[w].op.kind] /\ ParentsFound(t.view, t.op)
  BY WriteFacts
<1>3. /\ tx[w].base = db /\ tx[w].op \in Ops /\ Sound(tx[w].view)
      /\ Checks(tx[w].view, tx[w].op) /\ tx[w].size < MaxBatch /\ tx[w].size \in Nat
      /\ tx[w].batch => tx[w].phase <= position[tx[w].op.kind]
      /\ tx[w].size = 0 => tx[w].view = db
  BY <1>1, CheckedView, WriterFacts DEF Transactions, ProgressInv
<1>4. CASE ~ tx[w].batch
  <2>1. ~ Running(w) /\ ~ Running(w)'
    BY <1>2, <1>4 DEF Running
  <2> QED
    BY <1>1, <1>2, <2>1, QuietStep
<1>5. CASE tx[w].batch
  <2>1. Running(w)
    BY <1>1, <1>5 DEF Running
  <2>2. /\ Batch.phase = tx[w].phase /\ Batch.phase # 0 /\ Batch.size = tx[w].size
        /\ Batch.work = AsStore(tx[w].view)
    BY <1>3, <2>1, RunningFacts
  <2>3. CASE checkCycles(t.view, t.op)
    <3>1. Applied(tx[w].op, tx[w].view, t.view)
      BY <1>2, <1>3, <2>3, OpApplied
    <3>2. Running(w)'
      BY <1>1, <1>2, <1>5, <2>3 DEF Running
    <3>3. Batch' = BatchOf(t, db)
      BY <1>1, <3>2, BatchBecomes
    <3>4. /\ Batch'.phase = position[tx[w].op.kind] /\ Batch'.size = tx[w].size + 1
          /\ Batch'.work = AsStore(t.view)
      BY <1>2, <1>3, <3>3 DEF BatchOf
    <3>5. OpOK(Batch.work, tx[w].op) /\ Batch'.work = OpDo(Batch.work, tx[w].op)
      BY <2>2, <3>1, <3>4 DEF Applied
    <3> QED
      BY <1>1, <1>3, <1>5, <2>2, <3>4, <3>5, ElementRefines DEF Refined
  <2>4. CASE ~ checkCycles(t.view, t.op)
    <3>1. \A v \in Writers : ~ Running(v)'
      BY <1>1, <1>2, <2>4 DEF Running
    <3>2. Batch' = NoBatch
      BY <3>1, BatchBecomes
    <3> QED
      BY <1>1, <2>2, <3>2, EndsRefine DEF Refined
  <2> QED
    BY <2>3, <2>4
<1> QED
  BY <1>4, <1>5

\* The end of an operation is invisible.
LEMMA FinishRefines == ASSUME SInv, NEW w \in Writers, Finish(w) PROVE Refined
<1>1. tx[w].pc = "written" /\ holder' = holder /\ db' = db
  BY DEF Finish
<1>2. /\ tx' = [tx EXCEPT ![w] = tx'[w]] /\ holder = w
      /\ tx'[w].pc = "ready" /\ tx'[w].size = tx[w].size /\ tx'[w].batch = tx[w].batch
      /\ tx'[w].view = tx[w].view /\ tx'[w].phase = tx[w].phase
      /\ checkCycles(tx[w].view, tx[w].op)
  BY FinishFacts
<1>3. (Running(w)' <=> tx[w].batch) /\ (Running(w) <=> tx[w].batch)
  BY <1>1, <1>2 DEF Running
<1>4. CASE tx[w].batch
  BY <1>1, <1>2, <1>3, <1>4, SameRunning
<1>5. CASE ~ tx[w].batch
  BY <1>1, <1>2, <1>3, <1>5, QuietStep
<1> QED
  BY <1>4, <1>5

\* After its transaction a writer runs no batch.
LEMMA Ended ==
    ASSUME SInv, NEW w \in Writers, End(w)
    PROVE  /\ tx' = [tx EXCEPT ![w] = NoTx] /\ holder' = IF holder = w THEN Free ELSE holder
           /\ ~ Running(w)'
           /\ holder = w => Batch' = NoBatch
<1>1. tx' = [tx EXCEPT ![w] = NoTx] /\ holder' = IF holder = w THEN Free ELSE holder
  BY DEF End
<1>2. holder' # w
  BY <1>1, WriterFacts
<1>3. ASSUME holder = w PROVE Batch' = NoBatch
  <2>1. \A v \in Writers : ~ Running(v)'
    BY <1>1, <1>3, SqlConstantsOK DEF Running
  <2> QED
    BY <2>1, BatchBecomes
<1> QED
  BY <1>1, <1>2, <1>3 DEF Running

\* A commit is the end of a batch, or the single operation.
LEMMA CommitRefines == ASSUME SInv, NEW w \in Writers, CommitTx(w) PROVE Refined
<1>1. End(w) /\ tx[w].pc = "ready"
  BY DEF CommitTx
<1>2. CASE Running(w)
  <2>1. /\ Batch.phase # 0 /\ holder = w
        /\ Batch.work = AsStore(IF tx[w].size = 0 THEN db ELSE tx[w].view)
    BY <1>2, RunningFacts DEF Running
  <2>2. AsStore(db') = Batch.work
    BY <2>1, CommitFacts
  <2> QED
    BY <1>1, <2>1, <2>2, Ended, EndsRefine DEF Refined
<1>3. CASE ~ Running(w) /\ db' = db
  BY <1>1, <1>3, Ended, QuietStep
<1>4. CASE ~ Running(w) /\ db' # db
  <2>1. /\ holder = w /\ db' = tx[w].view
        /\ ~ tx[w].batch => \E op \in Ops : Applied(op, db, tx[w].view)
    BY <1>4, CommitFacts
  <2>2. ~ tx[w].batch
    BY <1>1, <1>4, <2>1 DEF Running
  <2>3. PICK op \in Ops : Applied(op, db, db')
    BY <2>1, <2>2
  <2>4. \A v \in Writers : ~ Running(v)
    BY <1>4, <2>1 DEF Running
  <2>5. Batch = NoBatch /\ Batch' = NoBatch
    BY <1>1, <2>1, <2>4, BatchIs, Ended
  <2>6. Batch.phase = 0
    BY <2>5 DEF NoBatch
  <2> QED
    BY <2>3, <2>5, <2>6, SingleRefines DEF Refined
<1> QED
  BY <1>2, <1>3, <1>4

\* A rollback is the end of a batch, or nothing.
LEMMA RollbackRefines == ASSUME SInv, NEW w \in Writers, Rollback(w) PROVE Refined
<1>1. End(w) /\ db' = db
  BY DEF Rollback
<1>2. CASE Running(w)
  <2>1. Batch.phase # 0 /\ holder = w
    BY <1>2, RunningFacts DEF Running
  <2> QED
    BY <1>1, <2>1, Ended, EndsRefine DEF Refined
<1>3. CASE ~ Running(w)
  BY <1>1, <1>3, Ended, QuietStep
<1> QED
  BY <1>2, <1>3

\* The database starts as the empty store, with no batch.
LEMMA InitRefines == Init => PS!Init
<1> SUFFICES ASSUME Init PROVE PS!Init
  OBVIOUS
<1>1. \A w \in Writers : ~ Running(w)
  BY SqlConstantsOK DEF Init, Running
<1>2. Batch = NoBatch
  BY <1>1, BatchIs
<1>3. AsStore(db) = NewMemoryStore
  BY EmptySound DEF Init
<1> QED
  BY <1>2, <1>3, SameData DEF PS!Init, PS!Idle, NoBatch

\* For every number of writers, roles and users, on each of the three databases:
\* single operations and batches of the SQL store take effect one after the other,
\* each on what the one before it committed, exactly as the memory store's do.
THEOREM SqlImplementsStore == Spec => ImplementsPolicyStore
<1>1. SInv /\ Next => Refined
  BY BeginRefines, LockRefines, CheckRefines, ReserveRefines, WriteRefines, FinishRefines,
     CommitRefines, RollbackRefines DEF Next
<1>2. SInv /\ UNCHANGED vars => Refined
  <2> SUFFICES ASSUME UNCHANGED vars PROVE UNCHANGED PS!vars
    BY DEF Refined
  <2>1. dialect' = dialect /\ db' = db /\ holder' = holder /\ tx' = tx
    BY DEF vars
  <2>2. \A w \in Writers : Running(w)' <=> Running(w)
    BY <2>1 DEF Running
  <2>3. Batch' = Batch
    <3>1. CASE \E w \in Writers : Running(w)
      BY <2>1, <2>2, <3>1, BatchIs, BatchBecomes
    <3>2. CASE ~ \E w \in Writers : Running(w)
      BY <2>2, <3>2, BatchIs, BatchBecomes
    <3> QED
      BY <3>1, <3>2
  <2> QED
    BY <2>1, <2>3, Invisible
<1>3. SInv /\ [Next]_vars => [PS!Next]_(PS!vars)
  BY <1>1, <1>2 DEF Refined
<1> QED
  BY SqlInvariant, InitRefines, <1>3, PTL DEF Spec, ImplementsPolicyStore, PS!Spec
================================================================================
