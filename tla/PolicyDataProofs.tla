--------------------------- MODULE PolicyDataProofs ---------------------------
(***************************************************************************)
(* Lemmas about the role graph and the operations on a store record, for   *)
(* every set of roles and users: what a walk finds, and that each          *)
(* operation that succeeds leaves a sound store.  The proofs about the     *)
(* memory store and about decisions rest on them.                          *)
(***************************************************************************)
EXTENDS PolicyData, TLAPS

\* What a store record satisfies between operations.
StoreInv(s) == /\ s \in Stores
               /\ ParentsExistIn(s)
               /\ Acyclic(s.parents)
               /\ IndexMatchesIn(s)
               /\ AssignedExistIn(s)
               /\ NothingLeftBehindIn(s)

-----------------------------------------------------------------------------
(* The graph *)

\* What the search starts from is found, and what it finds is closed.
LEMMA ReachFacts ==
    ASSUME NEW p \in Graphs, NEW S \in SUBSET Roles
    PROVE  /\ S \subseteq Reach(p, S)
           /\ Reach(p, S) \subseteq Roles
           /\ \A x \in Reach(p, S) : p[x] \subseteq Reach(p, S)
<1>1. S \subseteq Reach(p, S)
  BY DEF Reach
<1>2. Reach(p, S) \subseteq Roles
  BY DEF Reach
<1>3. ASSUME NEW x \in Reach(p, S), NEW y \in p[x]
      PROVE  y \in Reach(p, S)
  <2>1. y \in Roles
    BY <1>2 DEF Graphs
  <2>2. ASSUME NEW T \in SUBSET Roles, S \subseteq T, Closed(p, T)
        PROVE  y \in T
    <3>1. x \in T
      BY <2>2 DEF Reach
    <3>2. QED
      BY <3>1, <2>2 DEF Closed
  <2>3. QED
    BY <2>1, <2>2 DEF Reach
<1>4. QED
  BY <1>1, <1>2, <1>3

\* The least closed set is below every closed set.
LEMMA ReachLeast ==
    ASSUME NEW p \in Graphs, NEW S, NEW T \in SUBSET Roles, S \subseteq T,
           \A x \in T : p[x] \subseteq T
    PROVE  Reach(p, S) \subseteq T
  BY DEF Reach, Closed

\* A walk finds what it starts from and what the parents of that lead to.
LEMMA ReachSplit ==
    ASSUME NEW p \in Graphs, NEW S \in SUBSET Roles, NEW r \in Roles
    PROVE  Reach(p, S \cup {r}) = Reach(p, S \cup p[r]) \cup {r}
<1>1. p[r] \in SUBSET Roles
  BY DEF Graphs
<1> DEFINE A == Reach(p, S \cup {r})
           B == Reach(p, S \cup p[r])
<1>2. /\ S \cup {r} \subseteq A /\ A \subseteq Roles /\ \A x \in A : p[x] \subseteq A
      /\ S \cup p[r] \subseteq B /\ B \subseteq Roles /\ \A x \in B : p[x] \subseteq B
  BY <1>1, ReachFacts
<1>3. A \subseteq B \cup {r}
  <2>1. S \cup {r} \subseteq B \cup {r} /\ Closed(p, B \cup {r}) /\ B \cup {r} \in SUBSET Roles
    BY <1>2 DEF Closed
  <2> QED
    BY <2>1 DEF Reach
<1>4. B \subseteq A
  <2>1. S \cup p[r] \subseteq A /\ Closed(p, A) /\ A \in SUBSET Roles
    BY <1>2 DEF Closed
  <2> QED
    BY <2>1 DEF Reach
<1> QED
  BY <1>2, <1>3, <1>4

\* Nothing leads to nothing.
LEMMA ReachEmpty == ASSUME NEW p \in Graphs PROVE Reach(p, {}) = {}
<1>1. {} \in SUBSET Roles /\ {} \subseteq {} /\ Closed(p, {})
  BY DEF Closed
<1> QED
  BY <1>1 DEF Reach

\* What is found from a set is found from one of its members.
LEMMA ReachUnion ==
    ASSUME NEW p \in Graphs, NEW S \in SUBSET Roles, NEW x \in Reach(p, S)
    PROVE  \E y \in S : x \in Reach(p, {y})
<1> DEFINE T == {z \in Roles : \E y \in S : z \in Reach(p, {y})}
<1>1. S \subseteq T
  BY ReachFacts
<1>2. \A z \in T : p[z] \subseteq T
  <2>1. ASSUME NEW z \in T PROVE p[z] \subseteq T
    <3>1. PICK y \in S : z \in Reach(p, {y})
      OBVIOUS
    <3>2. {y} \in SUBSET Roles
      OBVIOUS
    <3>3. p[z] \subseteq Reach(p, {y}) /\ Reach(p, {y}) \subseteq Roles
      BY <3>1, <3>2, ReachFacts
    <3> QED
      BY <3>3
  <2> QED
    BY <2>1
<1>3. T \in SUBSET Roles
  OBVIOUS
<1> HIDE DEF T
<1>4. Reach(p, S) \subseteq T
  BY <1>1, <1>2, <1>3, ReachLeast
<1> QED
  BY <1>4 DEF T

\* What is found from a role is the role and its ancestors.
LEMMA ReachOne ==
    ASSUME NEW p \in Graphs, NEW r \in Roles
    PROVE  Reach(p, {r}) = {r} \cup Ancestors(p, r)
<1>1. {} \cup {r} = {r} /\ {} \cup p[r] = p[r] /\ {} \in SUBSET Roles
  OBVIOUS
<1>2. Reach(p, {} \cup {r}) = Reach(p, {} \cup p[r]) \cup {r}
  BY <1>1, ReachSplit
<1> QED
  BY <1>1, <1>2 DEF Ancestors

\* In an acyclic hierarchy no role is its own ancestor, and no search finds a
\* cycle: otherwise the roles above which x is have each a parent among them.
LEMMA AcyclicSearch ==
    ASSUME NEW p \in Graphs, Acyclic(p)
    PROVE  /\ \A x \in Roles : x \notin Ancestors(p, x)
           /\ \A r \in Roles : ~ detectCycle(p, r)
<1>1. ASSUME NEW x \in Roles, x \in Ancestors(p, x) PROVE FALSE
  <2> DEFINE S == {y \in Roles : x \in Ancestors(p, y)}
  <2>1. ASSUME NEW y \in S PROVE p[y] \cap S # {}
    <3>1. p[y] \in SUBSET Roles /\ x \in Reach(p, p[y])
      BY DEF Graphs, Ancestors
    <3>2. PICK z \in p[y] : x \in Reach(p, {z})
      BY <3>1, ReachUnion
    <3>3. z = x \/ x \in Ancestors(p, z)
      BY <3>1, <3>2, ReachOne
    <3> QED
      BY <1>1, <3>1, <3>2, <3>3
  <2>2. S \in SUBSET Roles /\ S # {}
    BY <1>1
  <2> HIDE DEF S
  <2> QED
    BY <2>1, <2>2 DEF Acyclic
<1>2. \A r \in Roles : Reach(p, {r}) \subseteq Roles
  BY ReachFacts
<1> QED
  BY <1>1, <1>2 DEF detectCycle

\* Changing one role's parents keeps the hierarchy acyclic when the role does not
\* become its own ancestor: every cycle of the new graph goes through it.
LEMMA RelinkAcyclic ==
    ASSUME NEW p \in Graphs, NEW q \in Graphs, NEW r \in Roles,
           Acyclic(p), \A x \in Roles : x # r => q[x] = p[x],
           r \notin Ancestors(q, r)
    PROVE  Acyclic(q)
<1> DEFINE Up == Reach(q, q[r])
<1>1. r \notin Up
  BY DEF Ancestors
<1>2. q[r] \subseteq Up /\ Up \subseteq Roles /\ \A x \in Up : q[x] \subseteq Up
  <2>1. q[r] \in SUBSET Roles
    BY DEF Graphs
  <2>2. QED
    BY <2>1, ReachFacts
<1> HIDE DEF Up
<1>3. ASSUME NEW S \in SUBSET Roles, S # {}, \A x \in S : q[x] \cap S # {}
      PROVE  FALSE
  <2>1. CASE r \notin S
    <3>1. \A x \in S : p[x] \cap S # {}
      BY <1>3, <2>1
    <3>2. QED
      BY <3>1, <1>3 DEF Acyclic
  <2>2. CASE r \in S
    <3> DEFINE T == S \cap Up
    <3>1. T # {}
      BY <1>2, <1>3, <2>2
    <3>2. ASSUME NEW x \in T
          PROVE  p[x] \cap T # {}
      <4>1. x # r /\ x \in S /\ x \in Up
        BY <1>1
      <4>2. q[x] = p[x]
        BY <4>1
      <4>3. PICK y : y \in q[x] /\ y \in S
        BY <4>1, <1>3
      <4>4. y \in T
        BY <4>1, <4>3, <1>2
      <4>5. QED
        BY <4>2, <4>3, <4>4
    <3>3. QED
      BY <3>1, <3>2 DEF Acyclic
  <2>3. QED
    BY <2>1, <2>2
<1>4. QED
  BY <1>3 DEF Acyclic

\* A search that finds no cycle has not found the role it starts from again.
LEMMA NotFoundAgain ==
    ASSUME NEW p \in Graphs, NEW r \in Roles, ~ detectCycle(p, r)
    PROVE  r \notin Ancestors(p, r)
<1>1. r \in Reach(p, {r})
  BY ReachFacts
<1> QED
  BY <1>1 DEF detectCycle

\* Dropping links never closes a cycle.
LEMMA PruneAcyclic ==
    ASSUME NEW p \in Graphs, NEW q \in Graphs,
           Acyclic(p), \A x \in Roles : q[x] \subseteq p[x]
    PROVE  Acyclic(q)
<1>1. ASSUME NEW S \in SUBSET Roles, S # {}
      PROVE  \E r \in S : q[r] \cap S = {}
  <2>1. PICK r \in S : p[r] \cap S = {}
    BY <1>1 DEF Acyclic
  <2>2. QED
    BY <2>1
<1>2. QED
  BY <1>1 DEF Acyclic

-----------------------------------------------------------------------------
(* The operations on a store record *)

\* A new store is sound.
LEMMA NewStoreInv == StoreInv(NewMemoryStore)
<1>1. NewMemoryStore \in Stores
  BY ConstantsOK DEF NewMemoryStore, Stores, Graphs
<1>2. Acyclic(NewMemoryStore.parents)
  BY DEF Acyclic, NewMemoryStore
<1>3. QED
  BY <1>1, <1>2 DEF StoreInv, NewMemoryStore, ParentsExistIn, IndexMatchesIn,
                    AssignedExistIn, NothingLeftBehindIn

\* A valid role spec names a role and only real permissions.
LEMMA ValidSpec ==
    ASSUME NEW role \in RoleSpecs, validRole(role)
    PROVE  /\ role.name \in Roles
           /\ role.permissions \in SUBSET Permissions
           /\ role.parents \in SUBSET Roles
BY DEF RoleSpecs, validRole

\* LinkParents changes the links of one role.
LEMMA LinkParentsFacts ==
    ASSUME NEW s, s \in Stores, NEW role \in RoleSpecs, validRole(role)
    PROVE  /\ LinkParents(s, role) \in Graphs
           /\ LinkParents(s, role)[role.name] = role.parents
           /\ \A x \in Roles : x # role.name => LinkParents(s, role)[x] = s.parents[x]
BY ValidSpec DEF LinkParents, Stores, Graphs

\* AddRole keeps a store sound: the parents exist and close no cycle, and the
\* new name starts without members, rules or metadata.
LEMMA AddRoleInv ==
    ASSUME NEW s, StoreInv(s), NEW role \in RoleSpecs, AddRoleOK(s, role)
    PROVE  StoreInv(AddRoleDo(s, role))
<1> DEFINE t == AddRoleDo(s, role)
           n == role.name
<1>0. s \in Stores /\ validRole(role)
  BY DEF StoreInv, AddRoleOK
<1>1. /\ n \in Roles
      /\ role.permissions \in SUBSET Permissions
      /\ role.parents \in SUBSET Roles
  BY <1>0, ValidSpec
<1>2. /\ t.roles = s.roles \cup {n}
      /\ t.permissions = [s.permissions EXCEPT ![n] = role.permissions]
      /\ t.parents = LinkParents(s, role)
      /\ t.users = s.users /\ t.roleUsers = s.roleUsers
      /\ t.rules = s.rules /\ t.metadata = s.metadata
  BY <1>0 DEF AddRoleDo, Stores
<1>3. t \in Stores
  BY <1>0, <1>1, LinkParentsFacts DEF AddRoleDo, Stores
<1> HIDE DEF t
<1>4. ParentsExistIn(t)
  <2>1. /\ role.parents \subseteq s.roles /\ ParentsExistIn(s)
        /\ LinkParents(s, role)[n] = role.parents
        /\ \A x \in Roles : x # n => LinkParents(s, role)[x] = s.parents[x]
    BY <1>0, LinkParentsFacts DEF StoreInv, AddRoleOK
  <2>2. ASSUME NEW r \in Roles
        PROVE  t.parents[r] \subseteq t.roles /\ (r \notin t.roles => t.parents[r] = {})
    <3>1. CASE r = n
      BY <1>2, <2>1, <3>1
    <3>2. CASE r # n
      BY <1>2, <2>1, <3>2 DEF ParentsExistIn
    <3>3. QED
      BY <3>1, <3>2
  <2>3. QED
    BY <2>2 DEF ParentsExistIn
<1>5. Acyclic(t.parents)
  <2>1. LinkParents(s, role) \in Graphs /\ role.name \in Roles
    BY <1>0, LinkParentsFacts, ValidSpec DEF AddRoleOK, StoreInv
  <2>2. role.name \notin Ancestors(LinkParents(s, role), role.name)
    BY <2>1, NotFoundAgain DEF AddRoleOK
  <2>3. QED
    BY <1>0, <1>1, <1>2, <2>1, <2>2, LinkParentsFacts, RelinkAcyclic DEF StoreInv, AddRoleOK, Stores
<1>6. IndexMatchesIn(t) /\ AssignedExistIn(t)
  BY <1>1, <1>2 DEF StoreInv, IndexMatchesIn, AssignedExistIn
<1>7. NothingLeftBehindIn(t)
  BY <1>0, <1>1, <1>2 DEF StoreInv, NothingLeftBehindIn, Stores
<1>8. QED
  BY <1>3, <1>4, <1>5, <1>6, <1>7 DEF StoreInv, t

\* UpdateRole keeps a store sound: the search runs on the graph with the new
\* links in it.
LEMMA UpdateRoleInv ==
    ASSUME NEW s, StoreInv(s), NEW role \in RoleSpecs, UpdateRoleOK(s, role)
    PROVE  StoreInv(UpdateRoleDo(s, role))
<1> DEFINE t == UpdateRoleDo(s, role)
           n == role.name
<1>0. s \in Stores /\ validRole(role)
  BY DEF StoreInv, UpdateRoleOK
<1>1. /\ n \in Roles
      /\ role.permissions \in SUBSET Permissions
      /\ role.parents \in SUBSET Roles
  BY <1>0, ValidSpec
<1>2. /\ t.roles = s.roles
      /\ t.permissions = [s.permissions EXCEPT ![n] = role.permissions]
      /\ t.parents = LinkParents(s, role)
      /\ t.users = s.users /\ t.roleUsers = s.roleUsers
      /\ t.rules = s.rules /\ t.metadata = s.metadata
  BY <1>0 DEF UpdateRoleDo, Stores
<1>3. t \in Stores
  BY <1>0, <1>1, LinkParentsFacts DEF UpdateRoleDo, Stores
<1> HIDE DEF t
<1>4. ParentsExistIn(t)
  <2>1. /\ role.parents \subseteq s.roles /\ ParentsExistIn(s)
        /\ LinkParents(s, role)[n] = role.parents
        /\ \A x \in Roles : x # n => LinkParents(s, role)[x] = s.parents[x]
    BY <1>0, LinkParentsFacts DEF StoreInv, UpdateRoleOK
  <2>2. ASSUME NEW r \in Roles
        PROVE  t.parents[r] \subseteq t.roles /\ (r \notin t.roles => t.parents[r] = {})
    <3>1. CASE r = n
      BY <1>2, <2>1, <3>1 DEF UpdateRoleOK
    <3>2. CASE r # n
      BY <1>2, <2>1, <3>2 DEF ParentsExistIn
    <3>3. QED
      BY <3>1, <3>2
  <2>3. QED
    BY <2>2 DEF ParentsExistIn
<1>5. Acyclic(t.parents)
  <2>1. LinkParents(s, role) \in Graphs /\ role.name \in Roles
    BY <1>0, LinkParentsFacts, ValidSpec DEF UpdateRoleOK, StoreInv
  <2>2. role.name \notin Ancestors(LinkParents(s, role), role.name)
    BY <2>1, NotFoundAgain DEF UpdateRoleOK
  <2>3. QED
    BY <1>0, <1>1, <1>2, <2>1, <2>2, LinkParentsFacts, RelinkAcyclic DEF StoreInv, UpdateRoleOK, Stores
<1>6. IndexMatchesIn(t) /\ AssignedExistIn(t)
  BY <1>1, <1>2 DEF StoreInv, IndexMatchesIn, AssignedExistIn
<1>7. NothingLeftBehindIn(t)
  BY <1>0, <1>1, <1>2 DEF StoreInv, NothingLeftBehindIn, UpdateRoleOK, Stores
<1>8. QED
  BY <1>3, <1>4, <1>5, <1>6, <1>7 DEF StoreInv, t

\* DeleteRole keeps a store sound: the index says truly that nobody holds the
\* role, and the cascade leaves no link to it.
LEMMA DeleteRoleInv ==
    ASSUME NEW s, StoreInv(s), NEW n \in Roles, DeleteRoleOK(s, n)
    PROVE  StoreInv(DeleteRoleDo(s, n))
<1> DEFINE t == DeleteRoleDo(s, n)
<1>0. s \in Stores
  BY DEF StoreInv
<1>1. /\ t.roles = s.roles \ {n}
      /\ t.permissions = [s.permissions EXCEPT ![n] = {}]
      /\ t.rules = [s.rules EXCEPT ![n] = NoRules]
      /\ t.metadata = [s.metadata EXCEPT ![n] = NoMetadata]
      /\ t.roleUsers = [s.roleUsers EXCEPT ![n] = {}]
      /\ t.parents = [r \in Roles |-> IF r = n THEN {} ELSE s.parents[r] \ {n}]
      /\ t.users = s.users
  BY <1>0 DEF DeleteRoleDo, Stores
<1>2. t.parents \in Graphs
  BY <1>0, <1>1 DEF Stores, Graphs
<1>3. t \in Stores
  BY <1>0, <1>2, <1>1, ConstantsOK DEF DeleteRoleDo, Stores
<1> HIDE DEF t
<1>4. ParentsExistIn(t)
  <2>1. ParentsExistIn(s)
    BY DEF StoreInv
  <2>2. ASSUME NEW r \in Roles
        PROVE  t.parents[r] \subseteq t.roles /\ (r \notin t.roles => t.parents[r] = {})
    <3>1. t.parents[r] = IF r = n THEN {} ELSE s.parents[r] \ {n}
      BY <1>1
    <3>2. QED
      BY <1>1, <2>1, <3>1 DEF ParentsExistIn
  <2>3. QED
    BY <2>2 DEF ParentsExistIn
<1>5. Acyclic(t.parents)
  <2>1. \A x \in Roles : t.parents[x] \subseteq s.parents[x]
    BY <1>1
  <2>2. QED
    BY <1>0, <1>2, <2>1, PruneAcyclic DEF StoreInv, Stores
<1>6. t.roleUsers = s.roleUsers
  BY <1>0, <1>1 DEF DeleteRoleOK, Stores
<1>7. IndexMatchesIn(t)
  <2>1. t.users = s.users /\ IndexMatchesIn(s)
    BY <1>1 DEF StoreInv
  <2>2. QED
    BY <2>1, <1>6 DEF IndexMatchesIn
<1>8. AssignedExistIn(t)
  <2>1. \A u \in Users : s.users[u][n] = 0
    BY DEF StoreInv, IndexMatchesIn, DeleteRoleOK
  <2>2. QED
    BY <1>1, <2>1 DEF StoreInv, AssignedExistIn
<1>9. NothingLeftBehindIn(t)
  BY <1>0, <1>1 DEF StoreInv, NothingLeftBehindIn, Stores
<1>10. QED
  BY <1>3, <1>4, <1>5, <1>7, <1>8, <1>9 DEF StoreInv, t

\* AssignRole keeps a store sound: the index skips what the list already has.
LEMMA AssignRoleInv ==
    ASSUME NEW s, StoreInv(s), NEW u \in Users, NEW n \in Roles, AssignRoleOK(s, u, n)
    PROVE  StoreInv(AssignRoleDo(s, u, n))
<1> DEFINE t == AssignRoleDo(s, u, n)
<1>0. s \in Stores
  BY DEF StoreInv
<1>1. CASE u \in s.roleUsers[n]
  BY <1>1 DEF AssignRoleDo
<1>2. CASE u \notin s.roleUsers[n]
  <2>1. /\ t.roleUsers = [s.roleUsers EXCEPT ![n] = @ \cup {u}]
        /\ t.users = [s.users EXCEPT ![u][n] = @ + 1]
        /\ t.roles = s.roles /\ t.permissions = s.permissions /\ t.parents = s.parents
        /\ t.rules = s.rules /\ t.metadata = s.metadata
    BY <1>0, <1>2 DEF AssignRoleDo, Stores
  <2>a. s.users \in [Users -> [Roles -> Nat]] /\ s.roleUsers \in [Roles -> SUBSET Users]
    BY <1>0 DEF Stores
  <2>b. \A v \in Users, r \in Roles :
           t.users[v][r] = IF v = u /\ r = n THEN s.users[v][r] + 1 ELSE s.users[v][r]
    BY <2>1, <2>a
  <2>2. t.users \in [Users -> [Roles -> Nat]] /\ t.roleUsers \in [Roles -> SUBSET Users]
    BY <2>1, <2>a
  <2>3. t \in Stores
    BY <1>0, <1>2, <2>1, <2>2 DEF AssignRoleDo, Stores
  <2>4. IndexMatchesIn(t)
    <3>1. IndexMatchesIn(s)
      BY DEF StoreInv
    <3>2. ASSUME NEW v \in Users, NEW r \in Roles
          PROVE  t.users[v][r] = IF v \in t.roleUsers[r] THEN 1 ELSE 0
      <4>1. s.users[v][r] = IF v \in s.roleUsers[r] THEN 1 ELSE 0
        BY <3>1 DEF IndexMatchesIn
      <4>2. t.roleUsers[r] = IF r = n THEN s.roleUsers[n] \cup {u} ELSE s.roleUsers[r]
        BY <2>1, <2>a
      <4>3. QED
        BY <1>2, <2>a, <2>b, <4>1, <4>2
    <3>3. QED
      BY <3>2 DEF IndexMatchesIn
  <2>5. AssignedExistIn(t)
    BY <1>0, <2>1 DEF StoreInv, AssignedExistIn, AssignRoleOK, Stores
  <2>6. ParentsExistIn(t) /\ Acyclic(t.parents) /\ NothingLeftBehindIn(t)
    BY <2>1 DEF StoreInv, ParentsExistIn, NothingLeftBehindIn
  <2>7. QED
    BY <2>3, <2>4, <2>5, <2>6 DEF StoreInv
<1>3. QED
  BY <1>1, <1>2

\* UnassignRole keeps a store sound: list and index lose the user together.
LEMMA UnassignRoleInv ==
    ASSUME NEW s, StoreInv(s), NEW u \in Users, NEW n \in Roles, UnassignRoleOK(s, u, n)
    PROVE  StoreInv(UnassignRoleDo(s, u, n))
<1> DEFINE t == UnassignRoleDo(s, u, n)
<1>0. s \in Stores
  BY DEF StoreInv
<1>1. s.users[u][n] = IF u \in s.roleUsers[n] THEN 1 ELSE 0
  BY DEF StoreInv, IndexMatchesIn
<1>2. /\ t.users = [s.users EXCEPT ![u][n] = 0]
      /\ t.roleUsers = [s.roleUsers EXCEPT ![n] = @ \ {u}]
      /\ t.roles = s.roles /\ t.permissions = s.permissions /\ t.parents = s.parents
      /\ t.rules = s.rules /\ t.metadata = s.metadata
  <2>1. (IF s.users[u][n] > 0 THEN s.roleUsers[n] \ {u} ELSE s.roleUsers[n])
           = s.roleUsers[n] \ {u}
    BY <1>1
  <2>2. QED
    BY <1>0, <2>1 DEF UnassignRoleDo, Stores
<1>3. t.users \in [Users -> [Roles -> Nat]] /\ t.roleUsers \in [Roles -> SUBSET Users]
  BY <1>0, <1>2 DEF Stores
<1>4. t \in Stores
  BY <1>0, <1>2, <1>3 DEF UnassignRoleDo, Stores
<1> HIDE DEF t
<1>5. IndexMatchesIn(t)
  BY <1>0, <1>2 DEF StoreInv, IndexMatchesIn, Stores
<1>6. AssignedExistIn(t)
  BY <1>0, <1>2 DEF StoreInv, AssignedExistIn, Stores
<1>7. ParentsExistIn(t) /\ Acyclic(t.parents) /\ NothingLeftBehindIn(t)
  BY <1>2 DEF StoreInv, ParentsExistIn, NothingLeftBehindIn
<1>8. QED
  BY <1>4, <1>5, <1>6, <1>7 DEF StoreInv, t

\* SetRoleRules keeps a store sound.
LEMMA SetRoleRulesInv ==
    ASSUME NEW s, StoreInv(s), NEW n \in Roles, NEW rules \in RuleLists \cup {InvalidRules},
           SetRoleRulesOK(s, n, rules)
    PROVE  StoreInv(SetRoleRulesDo(s, n, rules))
BY DEF StoreInv, SetRoleRulesOK, validateRules, SetRoleRulesDo, Stores, ParentsExistIn,
       IndexMatchesIn, AssignedExistIn, NothingLeftBehindIn

\* SetRoleMetadata keeps a store sound.
LEMMA SetRoleMetadataInv ==
    ASSUME NEW s, StoreInv(s), NEW n \in Roles, NEW metadata \in MetadataMaps,
           SetRoleMetadataOK(s, n, metadata)
    PROVE  StoreInv(SetRoleMetadataDo(s, n, metadata))
BY DEF StoreInv, SetRoleMetadataOK, SetRoleMetadataDo, Stores, ParentsExistIn,
       IndexMatchesIn, AssignedExistIn, NothingLeftBehindIn
===============================================================================
