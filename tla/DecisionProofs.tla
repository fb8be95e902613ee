---------------------------- MODULE DecisionProofs ----------------------------
(***************************************************************************)
(* Proofs about decisions, for any roles, users, callers, conditions and   *)
(* facts, any graph and any number of commits by others.  First decisions  *)
(* under change: a deny that stays cannot be raced, and nothing is allowed *)
(* out of nowhere, with a cache or without.  Policies are compared part by *)
(* part; what held all through a call is below the store, and the store is *)
(* below what was ever true, and walking the hierarchy is monotone.  Then  *)
(* the conditions of a rule, and the recursive searches over the hierarchy *)
(* that decisions and stores make: each one is its equation's only         *)
(* solution, shown by induction on the conditions and on sets of roles.    *)
(***************************************************************************)
EXTENDS Decision, RuleConditions, RoleGraphAlgorithms, PolicyDataProofs,
        FiniteSetTheorems, WellFoundedInduction, NaturalsInduction

\* p is part of q.
Below(p, q) == /\ p.assigned \subseteq q.assigned
               /\ \A r \in Roles : p.parents[r] \subseteq q.parents[r]
               /\ p.deny \subseteq q.deny
               /\ p.grant \subseteq q.grant

\* The history of a call x that still runs encloses the store s.
Enclosed(x, s) == x.pc # "committed" => /\ Below(x.held, PolicyOf(s, x.user))
                                        /\ Below(PolicyOf(s, x.user), x.ever)

\* Whatever the call visits is inherited through links that existed, and what it
\* counted as a grant is one of them, unless a late hit told it so.
Grounded(x) ==
    /\ x.pc \in {"missed", "effective", "permitted"} => x.seen = {}
    /\ x.pc = "effective" => \A z \in x.paths : z[1] \in Inherited(x.ever)
    /\ x.pc \in {"names", "rules"} => x.todo \cup x.seen \subseteq Inherited(x.ever)
    /\ x.granted /\ ~ x.late => Inherited(x.ever) \cap x.ever.grant # {}
    /\ x.pc \in {"allowed", "committed"} => x.granted

\* No role that the user has throughout escapes: while names are collected it is
\* known or reached from what is known, while rules are read a deny is still to
\* be read, and in the end there is none.
Guarded(x) ==
    /\ x.pc = "names" => /\ x.held.assigned \subseteq x.seen \cup x.todo
                         /\ \A r \in x.seen : x.held.parents[r] \subseteq x.seen \cup x.todo
    /\ x.pc = "rules" => Inherited(x.held) \cap x.held.deny \subseteq x.todo
    /\ x.pc = "allowed" => Inherited(x.held) \cap x.held.deny = {}

\* What holds of a call x while the store is s.
CallInv(x, s) == x \in CallStates /\ Enclosed(x, s) /\ Grounded(x) /\ Guarded(x)

\* In the store s a role of user u has the permission.
Permits(s, u) == \E r \in Inherited(PolicyOf(s, u)) : Manage \in s.permissions[r]

\* A lookup x that may store what it finds, for a user outside B, has found what
\* is still in the store s.
Fresh(x, s, B) ==
    x.fills => /\ x.pc \in {"missed", "effective"}
               /\ Cached /\ x.user \notin B =>
                     /\ \A z \in x.paths : z[1] \in Inherited(PolicyOf(s, x.user))
                     /\ x.granted => Permits(s, x.user)

\* So what the cache k says of a user outside B is still true in s.
CacheInv(k, s, B) == /\ k \in [Users -> Entries]
                     /\ \A u \in Users \ B : k[u] = "with" => Permits(s, u)

\* The inductive invariant.
DInv == /\ StoreInv(store)
        /\ behind \in SUBSET Users
        /\ CacheInv(cache, store, behind)
        /\ ~ Cached => \A u \in Users : cache[u] = "none"
        /\ call \in [Callers -> CallStates \cup {NoCall}]
        /\ \A c \in Callers : call[c].pc # "idle" => /\ CallInv(call[c], store)
                                                    /\ Fresh(call[c], store, behind)

-----------------------------------------------------------------------------
(* Policies *)

\* What a policy says a user inherits.
LEMMA InheritedFacts ==
    ASSUME NEW p \in Policies
    PROVE  /\ p.assigned \subseteq Inherited(p)
           /\ Inherited(p) \subseteq Roles
           /\ \A r \in Inherited(p) : p.parents[r] \subseteq Inherited(p)
<1>1. p.parents \in Graphs /\ p.assigned \in SUBSET Roles
  BY DEF Policies
<1> QED
  BY <1>1, ReachFacts DEF Inherited

\* More assignments and more links mean more inherited roles.
LEMMA InheritedMono ==
    ASSUME NEW p \in Policies, NEW q \in Policies, Below(p, q)
    PROVE  Inherited(p) \subseteq Inherited(q)
<1>1. p.parents \in Graphs
  BY DEF Policies
<1>2. Inherited(q) \in SUBSET Roles /\ p.assigned \subseteq Inherited(q)
  BY InheritedFacts DEF Below
<1>3. \A r \in Inherited(q) : p.parents[r] \subseteq Inherited(q)
  BY <1>2, InheritedFacts DEF Below
<1>4. Reach(p.parents, p.assigned) \subseteq Inherited(q)
  BY <1>1, <1>2, <1>3, ReachLeast
<1> QED
  BY <1>4 DEF Inherited

\* The policy in a store.
LEMMA PolicyOfFacts ==
    ASSUME NEW s \in Stores, NEW u \in Users
    PROVE  /\ PolicyOf(s, u) \in Policies
           /\ PolicyOf(s, u).parents = s.parents
           /\ PolicyOf(s, u).assigned = {r \in Roles : s.users[u][r] > 0}
           /\ PolicyOf(s, u).deny = {r \in Roles : "deny" \in s.rules[r]}
           /\ PolicyOf(s, u).grant = {r \in Roles : \/ Manage \in s.permissions[r]
                                                    \/ "allow" \in s.rules[r]}
<1>1. s.parents \in Graphs
  BY DEF Stores
<1> QED
  BY <1>1 DEF PolicyOf, Policies

\* Nothing is below less than itself.
LEMMA BelowSelf == \A p : Below(p, p)
  BY DEF Below

\* Meet and Join bound both sides.
LEMMA MeetJoinFacts ==
    ASSUME NEW p \in Policies, NEW q \in Policies
    PROVE  /\ Meet(p, q) \in Policies /\ Below(Meet(p, q), p) /\ Below(Meet(p, q), q)
           /\ Join(p, q) \in Policies /\ Below(p, Join(p, q)) /\ Below(q, Join(p, q))
<1>1. /\ p.assigned \in SUBSET Roles /\ p.parents \in Graphs /\ p.deny \in SUBSET Roles
      /\ p.grant \in SUBSET Roles
      /\ q.assigned \in SUBSET Roles /\ q.parents \in Graphs /\ q.deny \in SUBSET Roles
      /\ q.grant \in SUBSET Roles
  BY DEF Policies
<1> DEFINE m == [r \in Roles |-> p.parents[r] \cap q.parents[r]]
           j == [r \in Roles |-> p.parents[r] \cup q.parents[r]]
<1>2. /\ m \in Graphs /\ \A r \in Roles : m[r] \subseteq p.parents[r] /\ m[r] \subseteq q.parents[r]
      /\ j \in Graphs /\ \A r \in Roles : p.parents[r] \subseteq j[r] /\ q.parents[r] \subseteq j[r]
  BY <1>1 DEF Graphs
<1>3. /\ Meet(p, q) = [assigned |-> p.assigned \cap q.assigned, parents |-> m,
                       deny |-> p.deny \cap q.deny, grant |-> p.grant \cap q.grant]
      /\ Join(p, q) = [assigned |-> p.assigned \cup q.assigned, parents |-> j,
                       deny |-> p.deny \cup q.deny, grant |-> p.grant \cup q.grant]
  BY DEF Meet, Join
<1> HIDE DEF m, j
<1>4. Meet(p, q) \in Policies /\ Join(p, q) \in Policies
  BY <1>1, <1>2, <1>3 DEF Policies
<1>5. /\ Meet(p, q).assigned = p.assigned \cap q.assigned /\ Meet(p, q).parents = m
      /\ Meet(p, q).deny = p.deny \cap q.deny /\ Meet(p, q).grant = p.grant \cap q.grant
      /\ Join(p, q).assigned = p.assigned \cup q.assigned /\ Join(p, q).parents = j
      /\ Join(p, q).deny = p.deny \cup q.deny /\ Join(p, q).grant = p.grant \cup q.grant
  BY <1>3
<1> QED
  BY <1>2, <1>4, <1>5 DEF Below

-----------------------------------------------------------------------------
(* Commits of others *)

\* A commit is a batch, which drops every cached set, or one assignment.
LEMMA CommitsFacts ==
    ASSUME NEW s, NEW k \in Commits(s)
    PROVE  /\ \/ k.to \in Batches(s) /\ k.drops = Users
              \/ \E u \in Users, r \in s.roles :
                    /\ k.drops = {u}
                    /\ k.to = AssignRoleDo(s, u, r) \/ k.to = UnassignRoleDo(s, u, r)
           /\ k.drops \in SUBSET Users
<1>1. \/ k \in [to : Batches(s), drops : {Users}]
      \/ \E u \in Users : k \in [to : Assignments(s, u), drops : {{u}}]
  BY DEF Commits
<1>2. CASE k \in [to : Batches(s), drops : {Users}]
  BY <1>2
<1>3. ASSUME NEW u \in Users, k \in [to : Assignments(s, u), drops : {{u}}]
      PROVE  /\ k.drops = {u}
             /\ \E r \in s.roles : k.to = AssignRoleDo(s, u, r) \/ k.to = UnassignRoleDo(s, u, r)
  <2>1. k.drops = {u} /\ k.to \in Assignments(s, u)
    BY <1>3
  <2> QED
    BY <2>1 DEF Assignments
<1> QED
  BY <1>1, <1>2, <1>3

\* An element of a batch leaves a sound store.
LEMMA ElementInv ==
    ASSUME NEW s, StoreInv(s), NEW p \in 1..6, NEW t \in Element(p, s)
    PROVE  StoreInv(t)
<1>0. s.roles \subseteq Roles
  BY DEF StoreInv, Stores
<1>1. CASE p = 1
  BY <1>1, AddRoleInv DEF Element, Specs
<1>2. CASE p = 2
  BY <1>2, UpdateRoleInv DEF Element, Specs
<1>3. CASE p = 3
  <2>1. PICK r \in s.roles, rules \in RuleLists : t = SetRoleRulesDo(s, r, rules)
    BY <1>3 DEF Element
  <2> QED
    BY <1>0, <2>1, ConstantsOK, SetRoleRulesInv DEF SetRoleRulesOK, validateRules
<1>4. CASE p = 4
  <2>1. PICK u \in Users, r \in s.roles : t = UnassignRoleDo(s, u, r)
    BY <1>4 DEF Element
  <2> QED
    BY <1>0, <2>1, UnassignRoleInv DEF UnassignRoleOK
<1>5. CASE p = 5
  <2>1. PICK u \in Users, r \in s.roles : t = AssignRoleDo(s, u, r)
    BY <1>5 DEF Element
  <2> QED
    BY <1>0, <2>1, AssignRoleInv DEF AssignRoleOK
<1>6. CASE p = 6
  BY <1>6, DeleteRoleInv DEF Element
<1> QED
  BY <1>1, <1>2, <1>3, <1>4, <1>5, <1>6

\* Whatever a caller commits leaves a sound store.
LEMMA CommitsInv ==
    ASSUME NEW s, StoreInv(s), NEW k \in Commits(s)
    PROVE  StoreInv(k.to)
<1>1. ASSUME NEW t \in Batches(s) PROVE StoreInv(t)
  <2>1. \/ \E p \in 1..6 : t \in Element(p, s)
        \/ \E p \in 1..6 : \E m \in Element(p, s) : \E q \in p..6 : t \in Element(q, m)
    <3>1. ASSUME NEW p \in 1..6, t \in Pairs(p, s)
          PROVE  \E m \in Element(p, s) : \E q \in p..6 : t \in Element(q, m)
      <4> DEFINE after(m) == UNION {Element(q, m) : q \in p..6}
      <4>1. Pairs(p, s) = UNION {after(m) : m \in Element(p, s)}
        BY DEF Pairs
      <4>2. PICK m \in Element(p, s) : t \in after(m)
        <5> HIDE DEF after
        <5> QED
          BY <3>1, <4>1
      <4>3. PICK q \in p..6 : t \in Element(q, m)
        BY <4>2
      <4> QED
        BY <4>3
    <3>2. \/ \E p \in 1..6 : t \in Element(p, s)
          \/ \E p \in 1..6 : t \in Pairs(p, s)
      <4>1. t \in Singles(s) \/ t \in Doubles(s)
        BY <1>1 DEF Batches
      <4>2. t \in Singles(s) => \E p \in 1..6 : t \in Element(p, s)
        BY DEF Singles
      <4>3. t \in Doubles(s) => \E p \in 1..6 : t \in Pairs(p, s)
        BY DEF Doubles
      <4> QED
        BY <4>1, <4>2, <4>3
    <3> QED
      BY <3>1, <3>2
  <2>2. ASSUME NEW p \in 1..6, t \in Element(p, s) PROVE StoreInv(t)
    BY <2>2, ElementInv
  <2>3. ASSUME NEW p \in 1..6, NEW m \in Element(p, s), NEW q \in p..6, t \in Element(q, m)
        PROVE  StoreInv(t)
    <3>1. StoreInv(m) /\ q \in 1..6
      BY ElementInv
    <3> QED
      BY <2>3, <3>1, ElementInv
  <2> QED
    BY <2>1, <2>2, <2>3
<1>2. \/ k.to \in Batches(s)
      \/ \E u \in Users, r \in s.roles : k.to \in {AssignRoleDo(s, u, r), UnassignRoleDo(s, u, r)}
  BY CommitsFacts
<1>3. ASSUME NEW u \in Users, NEW r \in s.roles,
             k.to \in {AssignRoleDo(s, u, r), UnassignRoleDo(s, u, r)}
      PROVE  StoreInv(k.to)
  <2>1. s.roles \subseteq Roles
    BY DEF StoreInv, Stores
  <2> QED
    BY <1>3, <2>1, AssignRoleInv, UnassignRoleInv DEF AssignRoleOK, UnassignRoleOK
<1> QED
  BY <1>1, <1>2, <1>3

\* A commit that leaves somebody's cached set alone leaves what it says true.
LEMMA CommitSpares ==
    ASSUME NEW s, StoreInv(s), NEW k \in Commits(s), NEW u \in Users, u \notin k.drops
    PROVE  /\ Inherited(PolicyOf(k.to, u)) = Inherited(PolicyOf(s, u))
           /\ Permits(k.to, u) <=> Permits(s, u)
<1>0. StoreInv(k.to) /\ s \in Stores /\ k.to \in Stores
  BY CommitsInv DEF StoreInv
<1>1. PICK v \in Users, r \in s.roles :
        /\ k.drops = {v}
        /\ k.to = AssignRoleDo(s, v, r) \/ k.to = UnassignRoleDo(s, v, r)
  BY CommitsFacts
<1>2. u # v /\ r \in Roles
  BY <1>0, <1>1 DEF Stores
<1>3. k.to.users[u] = s.users[u] /\ k.to.parents = s.parents /\ k.to.permissions = s.permissions
  <2>1. CASE k.to = AssignRoleDo(s, v, r)
    BY <1>0, <1>2, <2>1 DEF AssignRoleDo, Stores
  <2>2. CASE k.to = UnassignRoleDo(s, v, r)
    BY <1>0, <1>2, <2>2 DEF UnassignRoleDo, Stores
  <2> QED
    BY <1>1, <2>1, <2>2
<1>4. /\ PolicyOf(k.to, u).assigned = PolicyOf(s, u).assigned
      /\ PolicyOf(k.to, u).parents = PolicyOf(s, u).parents
  BY <1>3 DEF PolicyOf
<1>5. Inherited(PolicyOf(k.to, u)) = Inherited(PolicyOf(s, u))
  BY <1>4 DEF Inherited
<1> QED
  BY <1>3, <1>5 DEF Permits

\* A running call that is overtaken: what held shrinks, what ever held grows.
LEMMA OvertakenInv ==
    ASSUME NEW s, NEW x, CallInv(x, s), x.pc # "committed",
           NEW t \in Stores,
           NEW y, y = [x EXCEPT !.held = Meet(x.held, PolicyOf(t, x.user)),
                                !.ever = Join(x.ever, PolicyOf(t, x.user)),
                                !.overlap = x.overlap + 1]
    PROVE  CallInv(y, t)
<1>0. x \in CallStates /\ x.held \in Policies /\ x.ever \in Policies /\ x.user \in Users
  BY DEF CallInv, CallStates
<1> DEFINE p == PolicyOf(t, x.user)
           h == Meet(x.held, p)
           v == Join(x.ever, p)
<1>1. p \in Policies
  BY <1>0, PolicyOfFacts
<1>2. /\ h \in Policies /\ Below(h, x.held) /\ Below(h, p)
      /\ v \in Policies /\ Below(x.ever, v) /\ Below(p, v)
  BY <1>0, <1>1, MeetJoinFacts
<1>3. x.overlap + 1 \in Nat
  BY <1>0 DEF CallStates
<1> HIDE DEF p, h, v
<1>4. y = [x EXCEPT !.held = h, !.ever = v, !.overlap = x.overlap + 1]
  BY DEF p, h, v
<1>5. y \in CallStates
  BY <1>0, <1>2, <1>3, <1>4 DEF CallStates
<1>6. /\ y.pc = x.pc /\ y.user = x.user /\ y.paths = x.paths /\ y.todo = x.todo /\ y.seen = x.seen
      /\ y.granted = x.granted /\ y.late = x.late /\ y.held = h /\ y.ever = v
  BY <1>0, <1>4 DEF CallStates
<1>7. Inherited(h) \subseteq Inherited(x.held) /\ Inherited(x.ever) \subseteq Inherited(v)
  BY <1>0, <1>2, InheritedMono
<1>8. Enclosed(y, t)
  BY <1>2, <1>6 DEF Enclosed, p
<1>9. Grounded(y)
  <2>1. x.ever.grant \subseteq v.grant
    BY <1>2 DEF Below
  <2> QED
    BY <1>6, <1>7, <2>1 DEF Grounded, CallInv
<1>10. Guarded(y)
  <2>1. h.assigned \subseteq x.held.assigned /\ h.deny \subseteq x.held.deny
    BY <1>2 DEF Below
  <2>2. \A r \in x.seen : h.parents[r] \subseteq x.held.parents[r]
    BY <1>0, <1>2 DEF Below, CallStates
  <2> QED
    BY <1>6, <1>7, <2>1, <2>2 DEF Guarded, CallInv
<1> QED
  BY <1>5, <1>8, <1>9, <1>10 DEF CallInv

-----------------------------------------------------------------------------
(* The steps of a call *)

\* A call that runs has its record, and one that is idle none.
LEMMA CallFacts ==
    ASSUME DInv, NEW c \in Callers, call[c].pc # "idle"
    PROVE  /\ CallInv(call[c], store) /\ Fresh(call[c], store, behind)
           /\ call[c] \in CallStates
  BY DEF DInv, CallInv

\* The invariant after a step, which does not change the setting.
LEMMA DInvNext ==
    ASSUME setting' = setting, StoreInv(store'), behind' \in SUBSET Users,
           CacheInv(cache', store', behind'),
           ~ Cached => \A u \in Users : cache'[u] = "none",
           call' \in [Callers -> CallStates \cup {NoCall}],
           \A c \in Callers : call'[c].pc # "idle" => /\ CallInv(call'[c], store')
                                                      /\ Fresh(call'[c], store', behind')
    PROVE  DInv'
<1>1. Cached' = Cached
  BY DEF Cached
<1> QED
  BY <1>1 DEF DInv, Fresh

\* A step of one caller that reads the store, and may write to the cache.
LEMMA OwnStep ==
    ASSUME DInv, NEW c \in Callers, NEW y, call' = [call EXCEPT ![c] = y],
           setting' = setting, store' = store, behind' = behind,
           cache' = cache \/ (Cached /\ CacheInv(cache', store, behind)),
           y = NoCall \/ (CallInv(y, store) /\ Fresh(y, store, behind))
    PROVE  DInv'
<1>1. y \in CallStates \cup {NoCall}
  BY DEF CallInv
<1>2. call' \in [Callers -> CallStates \cup {NoCall}]
  BY <1>1 DEF DInv
<1>3. \A d \in Callers : call'[d] = IF d = c THEN y ELSE call[d]
  BY DEF DInv
<1>4. NoCall.pc = "idle"
  BY DEF NoCall
<1>5. ASSUME NEW d \in Callers, call'[d].pc # "idle"
      PROVE  CallInv(call'[d], store') /\ Fresh(call'[d], store', behind')
  BY <1>3, <1>4, <1>5 DEF DInv
<1>6. /\ CacheInv(cache', store', behind')
      /\ ~ Cached => \A u \in Users : cache'[u] = "none"
  BY DEF DInv
<1> QED
  BY <1>2, <1>5, <1>6, DInvNext DEF DInv

\* Nobody starts with more than the store has, or than a cache says that nothing
\* has gone by.
LEMMA StartInv ==
    ASSUME DInv, NEW c \in Callers, NEW u \in Users, Start(c, u)
    PROVE  DInv'
<1> DEFINE p == PolicyOf(store, u)
           hit == cache[u] # "none"
           y == [pc |-> IF hit THEN "permitted" ELSE "missed", user |-> u,
                 paths |-> {}, todo |-> {}, seen |-> {}, granted |-> cache[u] = "with",
                 fills |-> ~ hit, late |-> hit /\ u \in behind, drops |-> {},
                 held |-> p, ever |-> p, overlap |-> 0]
<1>1. store \in Stores
  BY DEF DInv, StoreInv
<1>2. p \in Policies /\ p.assigned \subseteq Roles /\ p.assigned \subseteq Inherited(p) /\ Below(p, p)
  BY <1>1, PolicyOfFacts, InheritedFacts, BelowSelf DEF Policies
<1>3. call' = [call EXCEPT ![c] = y] /\ setting' = setting /\ store' = store /\ behind' = behind /\ cache' = cache
  BY DEF Start
<1>4. cache[u] = "with" /\ ~ (hit /\ u \in behind) => Inherited(p) \cap p.grant # {}
  <2>1. SUFFICES ASSUME cache[u] = "with", u \notin behind PROVE Inherited(p) \cap p.grant # {}
    OBVIOUS
  <2>2. PICK r \in Inherited(p) : Manage \in store.permissions[r]
    BY <2>1 DEF DInv, CacheInv, Permits
  <2>3. r \in p.grant
    BY <1>1, <1>2, <2>2, PolicyOfFacts, InheritedFacts
  <2> QED
    BY <2>2, <2>3
<1> HIDE DEF p, hit
<1>5. y \in CallStates
  BY <1>2 DEF CallStates
<1>6. /\ y.pc \in {"permitted", "missed"} /\ (y.pc = "missed" <=> ~ hit)
      /\ y.user = u /\ y.paths = {} /\ y.seen = {}
      /\ y.granted = (cache[u] = "with") /\ y.late = (hit /\ u \in behind) /\ y.fills = (~ hit)
      /\ y.held = p /\ y.ever = p
  OBVIOUS
<1> HIDE DEF y
<1>7. Enclosed(y, store)
  BY <1>2, <1>6 DEF Enclosed, p
<1>8. Grounded(y)
  BY <1>2, <1>4, <1>6 DEF Grounded
<1>9. Guarded(y)
  BY <1>6 DEF Guarded
<1>10. Fresh(y, store, behind)
  BY <1>6 DEF Fresh, hit
<1> QED
  BY <1>3, <1>5, <1>7, <1>8, <1>9, <1>10, OwnStep DEF CallInv

\* The end of a call with an error, or after its return.
LEMMA EndInv ==
    ASSUME DInv, NEW c \in Callers, call' = [call EXCEPT ![c] = NoCall],
           UNCHANGED <<setting, store, cache, behind>>
    PROVE  DInv'
  BY OwnStep

\* The first GetRoles.
LEMMA GetRolesInv == ASSUME DInv, NEW c \in Callers, GetRoles(c) PROVE DInv'
<1>1. PICK x : x = call[c]
  OBVIOUS
<1>2. x.pc = "missed"
  BY <1>1 DEF GetRoles, In
<1>3. /\ x \in CallStates /\ CallInv(x, store) /\ Fresh(x, store, behind)
      /\ x.ever \in Policies /\ x.user \in Users /\ store \in Stores
  BY <1>1, <1>2, CallFacts DEF CallStates, DInv, StoreInv
<1> DEFINE p == PolicyOf(store, x.user)
           paths == p.assigned \X {{}}
           y == [x EXCEPT !.pc = "effective", !.paths = paths]
<1>4. /\ call' = [call EXCEPT ![c] = y]
      /\ setting' = setting /\ store' = store /\ behind' = behind /\ cache' = cache
  BY <1>1 DEF GetRoles, Assigned, DInv
<1>5. p \in Policies /\ p.assigned \subseteq Roles /\ p.assigned \subseteq Inherited(p)
  BY <1>3, PolicyOfFacts, InheritedFacts DEF Policies
<1>6. p.assigned \subseteq Inherited(x.ever)
  <2>1. p.assigned \subseteq x.ever.assigned
    BY <1>2, <1>3 DEF CallInv, Enclosed, Below
  <2> QED
    BY <1>3, <2>1, InheritedFacts
<1>7. paths \subseteq Roles \X SUBSET Roles /\ \A z \in paths : z[1] \in p.assigned
  BY <1>5
<1> HIDE DEF paths
<1>8. y \in CallStates
  BY <1>3, <1>7 DEF CallStates
<1>9. /\ y.pc = "effective" /\ y.user = x.user /\ y.paths = paths /\ y.seen = x.seen
      /\ y.granted = x.granted /\ y.late = x.late /\ y.fills = x.fills
      /\ y.held = x.held /\ y.ever = x.ever
  BY <1>3 DEF CallStates
<1> HIDE DEF y
<1>10. Enclosed(y, store)
  BY <1>2, <1>3, <1>9 DEF CallInv, Enclosed
<1>11. Grounded(y) /\ Guarded(y)
  BY <1>2, <1>3, <1>6, <1>7, <1>9 DEF CallInv, Grounded, Guarded
<1>12. Fresh(y, store, behind)
  BY <1>3, <1>5, <1>7, <1>9 DEF Fresh
<1> QED
  BY <1>4, <1>8, <1>10, <1>11, <1>12, OwnStep DEF CallInv

\* collectEffective follows links of the store, which are links that existed.
LEMMA VisitRoleInv ==
    ASSUME DInv, NEW c \in Callers, NEW r \in Roles, NEW path \in SUBSET Roles,
           VisitRole(c, r, path)
    PROVE  DInv'
<1>1. CASE r \in path
  BY <1>1, EndInv DEF VisitRole, Error
<1>2. CASE r \notin path
  <2>1. PICK x : x = call[c]
    OBVIOUS
  <2>2. x.pc = "effective" /\ <<r, path>> \in x.paths
    BY <2>1 DEF VisitRole, In
  <2>3. /\ x \in CallStates /\ CallInv(x, store) /\ Fresh(x, store, behind)
        /\ x.ever \in Policies /\ x.user \in Users /\ store \in Stores
    BY <2>1, <2>2, CallFacts DEF CallStates, DInv, StoreInv
  <2> DEFINE paths == (x.paths \ {<<r, path>>}) \cup (store.parents[r] \X {path \cup {r}})
             granted == x.granted \/ Manage \in store.permissions[r]
             y == [x EXCEPT !.paths = paths, !.granted = granted]
  <2>4. /\ call' = [call EXCEPT ![c] = y]
        /\ setting' = setting /\ store' = store /\ behind' = behind /\ cache' = cache
    BY <1>2, <2>1 DEF VisitRole, matchPermission, DInv
  <2>5. store.parents[r] \subseteq Roles /\ paths \subseteq Roles \X SUBSET Roles
    BY <2>3 DEF Stores, Graphs, CallStates
  <2>6. granted \in BOOLEAN
    OBVIOUS
  <2>7. r \in Inherited(x.ever)
    BY <2>2, <2>3 DEF CallInv, Grounded
  <2>8. Below(PolicyOf(store, x.user), x.ever)
    BY <2>2, <2>3 DEF CallInv, Enclosed
  <2>9. store.parents[r] \subseteq Inherited(x.ever)
    <3>1. store.parents[r] \subseteq x.ever.parents[r]
      BY <2>3, <2>8, PolicyOfFacts DEF Below
    <3> QED
      BY <2>3, <2>7, <3>1, InheritedFacts
  <2>10. granted /\ ~ x.late => Inherited(x.ever) \cap x.ever.grant # {}
    <3>1. CASE x.granted
      BY <2>2, <2>3, <3>1 DEF CallInv, Grounded
    <3>2. CASE Manage \in store.permissions[r]
      <4>1. r \in x.ever.grant
        BY <2>3, <2>8, <3>2, PolicyOfFacts DEF Below
      <4> QED
        BY <2>7, <4>1
    <3> QED
      BY <3>1, <3>2
  <2>11. \A z \in paths : z[1] \in Inherited(x.ever)
    BY <2>2, <2>3, <2>9 DEF CallInv, Grounded
  <2>15. ASSUME x.fills, Cached, x.user \notin behind
         PROVE  /\ \A z \in paths : z[1] \in Inherited(PolicyOf(store, x.user))
                /\ granted => Permits(store, x.user)
    <3> DEFINE p == PolicyOf(store, x.user)
    <3>1. /\ \A z \in x.paths : z[1] \in Inherited(p)
          /\ x.granted => Permits(store, x.user)
      BY <2>3, <2>15 DEF Fresh
    <3>2. r \in Inherited(p)
      BY <2>2, <3>1
    <3>3. store.parents[r] \subseteq Inherited(p)
      BY <2>3, <3>2, PolicyOfFacts, InheritedFacts
    <3>4. Manage \in store.permissions[r] => Permits(store, x.user)
      BY <3>2 DEF Permits
    <3> QED
      BY <3>1, <3>3, <3>4
  <2> HIDE DEF paths, granted
  <2>12. y \in CallStates
    BY <2>3, <2>5, <2>6 DEF CallStates
  <2>13. /\ y.pc = x.pc /\ y.user = x.user /\ y.paths = paths /\ y.seen = x.seen
         /\ y.granted = granted /\ y.late = x.late /\ y.fills = x.fills /\ y.held = x.held /\ y.ever = x.ever
    BY <2>3 DEF CallStates
  <2> HIDE DEF y
  <2>14. CallInv(y, store)
    <3>1. Enclosed(y, store)
      BY <2>3, <2>13 DEF CallInv, Enclosed
    <3>2. Grounded(y)
      BY <2>2, <2>3, <2>10, <2>11, <2>13 DEF CallInv, Grounded
    <3>3. Guarded(y)
      BY <2>2, <2>13 DEF Guarded
    <3> QED
      BY <2>12, <3>1, <3>2, <3>3 DEF CallInv
  <2>16. Fresh(y, store, behind)
    BY <2>2, <2>13, <2>15 DEF Fresh
  <2> QED
    BY <2>4, <2>14, <2>16, OwnStep
<1> QED
  BY <1>1, <1>2

\* What a lookup stores is what the store says now, unless the user is behind.
LEMMA FillInv == ASSUME DInv, NEW c \in Callers, Fill(c) PROVE DInv'
<1>1. PICK x : x = call[c]
  OBVIOUS
<1>2. x.pc = "effective"
  BY <1>1 DEF Fill, In
<1>3. /\ x \in CallStates /\ CallInv(x, store) /\ Fresh(x, store, behind)
      /\ x.user \in Users
  BY <1>1, <1>2, CallFacts DEF CallStates
<1> DEFINE y == [x EXCEPT !.pc = "permitted", !.fills = FALSE]
<1>4. call' = [call EXCEPT ![c] = y] /\ setting' = setting /\ store' = store /\ behind' = behind
  BY <1>1 DEF Fill, DInv
<1>5. cache' = cache \/ (Cached /\ CacheInv(cache', store, behind))
  <2>1. CASE Cached /\ x.fills
    <3>1. cache' = [cache EXCEPT ![x.user] = Entry(x.granted)]
      BY <1>1, <2>1 DEF Fill
    <3>2. cache \in [Users -> Entries] /\ Entry(x.granted) \in Entries
      BY DEF DInv, CacheInv, Entry, Entries
    <3>3. x.user \notin behind /\ Entry(x.granted) = "with" => Permits(store, x.user)
      BY <1>3, <2>1 DEF Fresh, Entry
    <3>4. \A u \in Users : cache'[u] = IF u = x.user THEN Entry(x.granted) ELSE cache[u]
      BY <3>1, <3>2
    <3>5. cache' \in [Users -> Entries]
      BY <1>3, <3>1, <3>2
    <3>6. \A u \in Users \ behind : cache'[u] = "with" => Permits(store, u)
      BY <3>3, <3>4 DEF DInv, CacheInv
    <3> QED
      BY <2>1, <3>5, <3>6 DEF CacheInv
  <2>2. CASE ~ (Cached /\ x.fills)
    BY <1>1, <2>2 DEF Fill
  <2> QED
    BY <2>1, <2>2
<1>6. y \in CallStates
  BY <1>3 DEF CallStates
<1>7. /\ y.pc = "permitted" /\ y.user = x.user /\ y.seen = x.seen
      /\ y.granted = x.granted /\ y.late = x.late /\ y.fills = FALSE
      /\ y.held = x.held /\ y.ever = x.ever
  BY <1>3 DEF CallStates
<1> HIDE DEF y
<1>8. Enclosed(y, store)
  BY <1>2, <1>3, <1>7 DEF CallInv, Enclosed
<1>9. Grounded(y) /\ Guarded(y)
  BY <1>2, <1>3, <1>7 DEF CallInv, Grounded, Guarded
<1>10. Fresh(y, store, behind)
  BY <1>7 DEF Fresh
<1> QED
  BY <1>4, <1>5, <1>6, <1>8, <1>9, <1>10, OwnStep DEF CallInv

\* The second GetRoles finds every role the user had throughout.
LEMMA GetNamesInv == ASSUME DInv, NEW c \in Callers, GetNames(c) PROVE DInv'
<1>1. PICK x : x = call[c]
  OBVIOUS
<1>2. x.pc = "permitted"
  BY <1>1 DEF GetNames, In
<1>3. /\ x \in CallStates /\ CallInv(x, store) /\ x.fills = FALSE
      /\ x.ever \in Policies /\ x.user \in Users /\ store \in Stores
  BY <1>1, <1>2, CallFacts DEF CallStates, DInv, StoreInv, Fresh
<1> DEFINE a == PolicyOf(store, x.user).assigned
           y == [x EXCEPT !.pc = "names", !.todo = a]
<1>4. /\ call' = [call EXCEPT ![c] = y]
      /\ setting' = setting /\ store' = store /\ behind' = behind /\ cache' = cache
  BY <1>1 DEF GetNames, Assigned, DInv
<1>5. a \subseteq Roles
  BY <1>3, PolicyOfFacts
<1>6. x.held.assigned \subseteq a /\ a \subseteq x.ever.assigned
  BY <1>2, <1>3 DEF CallInv, Enclosed, Below
<1>7. a \subseteq Inherited(x.ever)
  BY <1>3, <1>6, InheritedFacts
<1>8. x.seen = {} /\ (x.granted /\ ~ x.late => Inherited(x.ever) \cap x.ever.grant # {})
  BY <1>2, <1>3 DEF CallInv, Grounded
<1> HIDE DEF a
<1>9. y \in CallStates
  BY <1>3, <1>5 DEF CallStates
<1>10. /\ y.pc = "names" /\ y.user = x.user /\ y.todo = a /\ y.seen = x.seen
       /\ y.granted = x.granted /\ y.late = x.late /\ y.fills = FALSE /\ y.held = x.held /\ y.ever = x.ever
  BY <1>3 DEF CallStates
<1> HIDE DEF y
<1>11. Enclosed(y, store)
  BY <1>2, <1>3, <1>10 DEF CallInv, Enclosed
<1>12. Grounded(y) /\ Guarded(y)
  BY <1>6, <1>7, <1>8, <1>10 DEF Grounded, Guarded
<1>13. Fresh(y, store, behind)
  BY <1>10 DEF Fresh
<1> QED
  BY <1>4, <1>9, <1>11, <1>12, <1>13, OwnStep DEF CallInv

\* collectRoleNames: a role that is skipped because it is absent is not one the
\* user had throughout, and the links of the others that stayed are followed.
LEMMA CollectNameInv ==
    ASSUME DInv, NEW c \in Callers, NEW r \in Roles, CollectName(c, r)
    PROVE  DInv'
<1>1. PICK x : x = call[c]
  OBVIOUS
<1>2. x.pc = "names" /\ r \in x.todo
  BY <1>1 DEF CollectName, In
<1>3. /\ x \in CallStates /\ CallInv(x, store) /\ x.fills = FALSE /\ x.held \in Policies /\ x.ever \in Policies
      /\ x.user \in Users /\ store \in Stores
  BY <1>1, <1>2, CallFacts DEF CallStates, DInv, StoreInv, Fresh
<1> DEFINE todo == (x.todo \ {r}) \cup (store.parents[r] \ (x.seen \cup {r}))
           seen == IF r \in store.roles THEN x.seen \cup {r} ELSE x.seen
           y == [x EXCEPT !.todo = todo, !.seen = seen]
<1>4. /\ call' = [call EXCEPT ![c] = y]
      /\ setting' = setting /\ store' = store /\ behind' = behind /\ cache' = cache
  BY <1>1 DEF CollectName, DInv
<1>5. store.parents[r] \subseteq Roles /\ todo \subseteq Roles /\ seen \subseteq Roles
  BY <1>3 DEF Stores, Graphs, CallStates
<1>6. /\ Below(x.held, PolicyOf(store, x.user)) /\ Below(PolicyOf(store, x.user), x.ever)
      /\ x.todo \cup x.seen \subseteq Inherited(x.ever)
      /\ x.granted /\ ~ x.late => Inherited(x.ever) \cap x.ever.grant # {}
      /\ x.held.assigned \subseteq x.seen \cup x.todo
      /\ \A q \in x.seen : x.held.parents[q] \subseteq x.seen \cup x.todo
  BY <1>2, <1>3 DEF CallInv, Enclosed, Grounded, Guarded
<1>7. todo \cup seen \subseteq Inherited(x.ever)
  <2>1. r \in Inherited(x.ever) /\ store.parents[r] \subseteq x.ever.parents[r]
    BY <1>2, <1>3, <1>6, PolicyOfFacts DEF Below
  <2>2. store.parents[r] \subseteq Inherited(x.ever)
    BY <1>3, <2>1, InheritedFacts
  <2> QED
    BY <1>6, <2>1, <2>2
<1>8. x.held.parents[r] \subseteq store.parents[r]
  BY <1>3, <1>6, PolicyOfFacts DEF Below
<1>9. r \notin store.roles => /\ r \notin x.held.assigned
                              /\ \A q \in Roles : r \notin x.held.parents[q]
  <2>1. x.held.assigned \subseteq store.roles
    <3>1. \A q \in x.held.assigned : q \in Roles /\ store.users[x.user][q] > 0
      BY <1>3, <1>6, PolicyOfFacts DEF Below
    <3> QED
      BY <1>3, <3>1 DEF DInv, StoreInv, AssignedExistIn
  <2>2. \A q \in Roles : x.held.parents[q] \subseteq store.roles
    <3>1. \A q \in Roles : x.held.parents[q] \subseteq store.parents[q]
      BY <1>3, <1>6, PolicyOfFacts DEF Below
    <3> QED
      BY <3>1 DEF DInv, StoreInv, ParentsExistIn
  <2> QED
    BY <2>1, <2>2
<1>10. x.held.assigned \subseteq seen \cup todo
  BY <1>6, <1>9
<1>11. \A q \in seen : x.held.parents[q] \subseteq seen \cup todo
  <2>1. ASSUME NEW q \in x.seen PROVE x.held.parents[q] \subseteq seen \cup todo
    <3>1. q \in Roles
      BY <1>3 DEF CallStates
    <3> QED
      BY <1>6, <1>9, <3>1
  <2>2. CASE r \in store.roles
    BY <1>8, <2>1, <2>2
  <2>3. CASE r \notin store.roles
    BY <2>1, <2>3
  <2> QED
    BY <2>2, <2>3
<1> HIDE DEF todo, seen
<1>12. y \in CallStates
  BY <1>3, <1>5 DEF CallStates
<1>13. /\ y.pc = x.pc /\ y.user = x.user /\ y.todo = todo /\ y.seen = seen
       /\ y.granted = x.granted /\ y.late = x.late /\ y.fills = FALSE /\ y.held = x.held /\ y.ever = x.ever
  BY <1>3 DEF CallStates
<1> HIDE DEF y
<1>14. Enclosed(y, store)
  BY <1>6, <1>13 DEF Enclosed
<1>15. Grounded(y) /\ Guarded(y)
  BY <1>2, <1>6, <1>7, <1>10, <1>11, <1>13 DEF Grounded, Guarded
<1>16. Fresh(y, store, behind)
  BY <1>13 DEF Fresh
<1> QED
  BY <1>4, <1>12, <1>14, <1>15, <1>16, OwnStep DEF CallInv

\* When no name is left to expand, the names are closed under the links that
\* stayed: every role the user inherited throughout is among them.
LEMMA NamesCollectedInv == ASSUME DInv, NEW c \in Callers, NamesCollected(c) PROVE DInv'
<1>1. PICK x : x = call[c]
  OBVIOUS
<1>2. x.pc = "names" /\ x.todo = {}
  BY <1>1 DEF NamesCollected, In
<1>3. x \in CallStates /\ CallInv(x, store) /\ x.fills = FALSE /\ x.held \in Policies
  BY <1>1, <1>2, CallFacts DEF CallStates, Fresh
<1> DEFINE y == [x EXCEPT !.pc = "rules", !.todo = x.seen]
<1>4. /\ call' = [call EXCEPT ![c] = y]
      /\ setting' = setting /\ store' = store /\ behind' = behind /\ cache' = cache
  BY <1>1 DEF NamesCollected, DInv
<1>5. Inherited(x.held) \subseteq x.seen
  <2>1. x.held.assigned \subseteq x.seen /\ \A q \in x.seen : x.held.parents[q] \subseteq x.seen
    BY <1>2, <1>3 DEF CallInv, Guarded
  <2>2. x.seen \in SUBSET Roles /\ x.held.parents \in Graphs
    BY <1>3 DEF CallStates, Policies
  <2> QED
    BY <2>1, <2>2, ReachLeast DEF Inherited
<1>6. y \in CallStates
  BY <1>3 DEF CallStates
<1>7. /\ y.pc = "rules" /\ y.user = x.user /\ y.todo = x.seen /\ y.seen = x.seen
      /\ y.granted = x.granted /\ y.late = x.late /\ y.fills = FALSE /\ y.held = x.held /\ y.ever = x.ever
  BY <1>3 DEF CallStates
<1> HIDE DEF y
<1>8. Enclosed(y, store)
  BY <1>2, <1>3, <1>7 DEF CallInv, Enclosed
<1>9. Grounded(y) /\ Guarded(y)
  BY <1>2, <1>3, <1>5, <1>7 DEF CallInv, Grounded, Guarded
<1>10. Fresh(y, store, behind)
  BY <1>7 DEF Fresh
<1> QED
  BY <1>4, <1>6, <1>8, <1>9, <1>10, OwnStep DEF CallInv

\* A role whose rules were read without a deny has no deny that holds throughout.
LEMMA ReadRulesInv ==
    ASSUME DInv, NEW c \in Callers, NEW r \in Roles, ReadRules(c, r)
    PROVE  DInv'
<1>1. CASE r \notin store.roles \/ "deny" \in store.rules[r]
  BY <1>1, EndInv DEF ReadRules, Error
<1>2. CASE ~ (r \notin store.roles \/ "deny" \in store.rules[r])
  <2>1. PICK x : x = call[c]
    OBVIOUS
  <2>2. x.pc = "rules" /\ r \in x.todo
    BY <2>1 DEF ReadRules, In
  <2>3. /\ x \in CallStates /\ CallInv(x, store) /\ x.fills = FALSE /\ x.held \in Policies /\ x.ever \in Policies
        /\ x.user \in Users /\ store \in Stores
    BY <2>1, <2>2, CallFacts DEF CallStates, DInv, StoreInv, Fresh
  <2> DEFINE todo == x.todo \ {r}
             granted == x.granted \/ "allow" \in store.rules[r]
             y == [x EXCEPT !.todo = todo, !.granted = granted]
  <2>4. /\ call' = [call EXCEPT ![c] = y]
        /\ setting' = setting /\ store' = store /\ behind' = behind /\ cache' = cache
    BY <1>2, <2>1 DEF ReadRules, DInv
  <2>5. /\ Below(x.held, PolicyOf(store, x.user)) /\ Below(PolicyOf(store, x.user), x.ever)
        /\ x.todo \cup x.seen \subseteq Inherited(x.ever)
        /\ x.granted /\ ~ x.late => Inherited(x.ever) \cap x.ever.grant # {}
        /\ Inherited(x.held) \cap x.held.deny \subseteq x.todo
    BY <2>2, <2>3 DEF CallInv, Enclosed, Grounded, Guarded
  <2>6. r \notin x.held.deny
    BY <1>2, <2>3, <2>5, PolicyOfFacts DEF Below
  <2>7. "allow" \in store.rules[r] => Inherited(x.ever) \cap x.ever.grant # {}
    <3>1. ASSUME "allow" \in store.rules[r] PROVE r \in x.ever.grant
      BY <2>3, <2>5, <3>1, PolicyOfFacts DEF Below
    <3> QED
      BY <2>2, <2>5, <3>1
  <2>8. /\ todo \subseteq Roles /\ todo \subseteq Inherited(x.ever) /\ granted \in BOOLEAN
        /\ Inherited(x.held) \cap x.held.deny \subseteq todo
        /\ granted /\ ~ x.late => Inherited(x.ever) \cap x.ever.grant # {}
    BY <2>3, <2>5, <2>6, <2>7 DEF CallStates
  <2> HIDE DEF todo, granted
  <2>9. y \in CallStates
    BY <2>3, <2>8 DEF CallStates
  <2>10. /\ y.pc = x.pc /\ y.user = x.user /\ y.todo = todo /\ y.seen = x.seen
         /\ y.granted = granted /\ y.late = x.late /\ y.fills = FALSE /\ y.held = x.held /\ y.ever = x.ever
    BY <2>3 DEF CallStates
  <2> HIDE DEF y
  <2>11. Enclosed(y, store)
    BY <2>5, <2>10 DEF Enclosed
  <2>12. Grounded(y) /\ Guarded(y)
    BY <2>2, <2>5, <2>8, <2>10 DEF Grounded, Guarded
  <2>13. Fresh(y, store, behind)
    BY <2>10 DEF Fresh
  <2> QED
    BY <2>4, <2>9, <2>11, <2>12, <2>13, OwnStep DEF CallInv
<1> QED
  BY <1>1, <1>2

\* Allowed: every name was read, and something granted.
LEMMA DecidedInv == ASSUME DInv, NEW c \in Callers, Decided(c) PROVE DInv'
<1>1. CASE ~ call[c].granted
  BY <1>1, EndInv DEF Decided, Error
<1>2. CASE call[c].granted
  <2>1. PICK x : x = call[c]
    OBVIOUS
  <2>2. x.pc = "rules" /\ x.todo = {} /\ x.granted
    BY <1>2, <2>1 DEF Decided, In
  <2>3. x \in CallStates /\ CallInv(x, store) /\ x.fills = FALSE
    BY <2>1, <2>2, CallFacts DEF CallStates, Fresh
  <2> DEFINE y == [x EXCEPT !.pc = "allowed"]
  <2>4. /\ call' = [call EXCEPT ![c] = y]
        /\ setting' = setting /\ store' = store /\ behind' = behind /\ cache' = cache
    BY <1>2, <2>1 DEF Decided, DInv
  <2>5. y \in CallStates
    BY <2>3 DEF CallStates
  <2>6. /\ y.pc = "allowed" /\ y.user = x.user
        /\ y.granted = x.granted /\ y.late = x.late /\ y.fills = FALSE /\ y.held = x.held /\ y.ever = x.ever
    BY <2>3 DEF CallStates
  <2> HIDE DEF y
  <2>7. Enclosed(y, store) /\ Grounded(y) /\ Guarded(y)
    BY <2>2, <2>3, <2>6 DEF CallInv, Enclosed, Grounded, Guarded
  <2>8. Fresh(y, store, behind)
    BY <2>6 DEF Fresh
  <2> QED
    BY <2>4, <2>5, <2>7, <2>8, OwnStep DEF CallInv
<1> QED
  BY <1>1, <1>2

\* A commit, for what is cached.
LEMMA CommitCache ==
    ASSUME DInv, NEW k \in Commits(store), Commit(k)
    PROVE  /\ setting' = setting /\ store' = k.to /\ StoreInv(store') /\ behind' \in SUBSET Users
           /\ CacheInv(cache', store', behind')
           /\ ~ Cached => \A u \in Users : cache'[u] = "none"
<1>1. setting' = setting /\ store' = k.to /\ StoreInv(k.to) /\ cache' = cache
  BY CommitsInv DEF DInv, Commit
<1>2. k.drops \in SUBSET Users
  BY CommitsFacts
<1>3. behind' \in SUBSET Users /\ behind \subseteq behind' /\ (Cached => k.drops \subseteq behind')
  BY <1>2 DEF Commit, DInv
<1>4. ASSUME NEW u \in Users \ behind', cache[u] = "with" PROVE Permits(k.to, u)
  <2>1. Cached
    BY <1>4 DEF DInv
  <2>2. u \notin k.drops /\ Permits(store, u)
    BY <1>3, <1>4, <2>1 DEF DInv, CacheInv
  <2> QED
    BY <2>2, CommitSpares DEF DInv
<1> QED
  BY <1>1, <1>3, <1>4 DEF DInv, CacheInv

\* The others, while one caller or a process commits.
LEMMA OvertakenCall ==
    ASSUME DInv, NEW D \in SUBSET Callers, MayOvertake(D), NEW k \in Commits(store), Commit(k),
           NEW d \in D
    PROVE  /\ Overtaken(d, k.to) \in CallStates \cup {NoCall}
           /\ Overtaken(d, k.to).pc # "idle" => /\ CallInv(Overtaken(d, k.to), k.to)
                                                /\ Fresh(Overtaken(d, k.to), k.to, behind')
<1>0. StoreInv(k.to) /\ k.to \in Stores /\ d \in Callers
  BY CommitsInv DEF DInv, StoreInv
<1>1. CASE call[d].pc = "idle"
  BY <1>0, <1>1 DEF Overtaken, Running, DInv
<1>2. CASE call[d].pc = "committed"
  <2>1. /\ Overtaken(d, k.to) = call[d] /\ CallInv(call[d], store)
        /\ Fresh(call[d], store, behind)
    BY <1>0, <1>2 DEF Overtaken, Running, DInv
  <2> QED
    BY <1>2, <2>1 DEF CallInv, Enclosed, Fresh
<1>3. CASE Running(d)
  <2>1. PICK x : x = call[d]
    OBVIOUS
  <2>2. /\ CallInv(x, store) /\ x.pc # "committed"
        /\ Fresh(x, store, behind) /\ x \in CallStates
    BY <1>0, <1>3, <2>1, CallFacts DEF Running
  <2> DEFINE y == [x EXCEPT !.held = Meet(x.held, PolicyOf(k.to, x.user)),
                            !.ever = Join(x.ever, PolicyOf(k.to, x.user)),
                            !.overlap = x.overlap + 1]
  <2>3. Overtaken(d, k.to) = y
    BY <1>3, <2>1 DEF Overtaken
  <2>4. CallInv(y, k.to)
    BY <1>0, <2>2, OvertakenInv
  <2>5. /\ y.pc = x.pc /\ y.user = x.user /\ y.paths = x.paths /\ y.granted = x.granted
        /\ y.fills = x.fills /\ x.user \in Users
    BY <2>2 DEF CallStates
  <2> HIDE DEF y
  <2>6. ASSUME Cached, x.user \notin behind'
        PROVE  /\ x.user \notin behind
               /\ Inherited(PolicyOf(k.to, x.user)) = Inherited(PolicyOf(store, x.user))
               /\ Permits(k.to, x.user) <=> Permits(store, x.user)
    <3>1. x.user \notin k.drops /\ x.user \notin behind
      BY <2>6 DEF Commit
    <3> QED
      BY <2>5, <3>1, CommitSpares DEF DInv
  <2>7. Fresh(y, k.to, behind')
    BY <2>2, <2>5, <2>6 DEF Fresh
  <2> QED
    BY <2>3, <2>4, <2>7 DEF CallInv
<1> QED
  BY <1>1, <1>2, <1>3 DEF Running

\* A management call that was allowed commits.
LEMMA ManagesInv == ASSUME DInv, NEW c \in Callers, Manages(c) PROVE DInv'
<1>1. PICK k \in Commits(store) :
          /\ Commit(k)
          /\ call' = [d \in Callers |->
                         IF d = c THEN [call[c] EXCEPT !.pc = "committed", !.drops = k.drops]
                         ELSE Overtaken(d, k.to)]
  BY DEF Manages
<1>2. /\ setting' = setting /\ store' = k.to /\ StoreInv(store') /\ behind' \in SUBSET Users
      /\ CacheInv(cache', store', behind')
      /\ ~ Cached => \A u \in Users : cache'[u] = "none"
  BY <1>1, CommitCache
<1>3. PICK x : x = call[c]
  OBVIOUS
<1>4. /\ x.pc = "allowed" /\ x \in CallStates /\ CallInv(x, store) /\ x.fills = FALSE
      /\ k.drops \in SUBSET Users
  BY <1>3, CallFacts, CommitsFacts DEF Manages, In, CallStates, Fresh
<1> DEFINE y == [x EXCEPT !.pc = "committed", !.drops = k.drops]
<1>5. y \in CallStates
  BY <1>4 DEF CallStates
<1>6. /\ y.pc = "committed" /\ y.granted = x.granted /\ y.late = x.late /\ y.fills = FALSE
      /\ y.held = x.held /\ y.ever = x.ever
  BY <1>4 DEF CallStates
<1>7. call'[c] = y
  BY <1>1, <1>3
<1> HIDE DEF y
<1>8. CallInv(y, k.to) /\ Fresh(y, k.to, behind')
  BY <1>4, <1>5, <1>6 DEF CallInv, Enclosed, Grounded, Guarded, Fresh
<1>9. ASSUME NEW d \in Callers
      PROVE  /\ call'[d] \in CallStates \cup {NoCall}
             /\ call'[d].pc # "idle" => /\ CallInv(call'[d], store')
                                        /\ Fresh(call'[d], store', behind')
  <2>1. CASE d = c
    BY <1>2, <1>5, <1>7, <1>8, <2>1
  <2>2. CASE d # c
    <3>1. call'[d] = Overtaken(d, k.to) /\ d \in Callers \ {c} /\ MayOvertake(Callers \ {c})
      BY <1>1, <2>2 DEF Manages
    <3> QED
      BY <1>1, <1>2, <3>1, OvertakenCall
  <2> QED
    BY <2>1, <2>2
<1>10. call' \in [Callers -> CallStates \cup {NoCall}]
  <2>1. call' = [d \in Callers |-> call'[d]]
    BY <1>1
  <2> QED
    BY <1>9, <2>1
<1> QED
  BY <1>2, <1>9, <1>10, DInvNext

\* Somebody else commits.
LEMMA ProvisionInv == ASSUME DInv, Provision PROVE DInv'
<1>1. PICK k \in Commits(store) : /\ Commit(k)
                                  /\ call' = [d \in Callers |-> Overtaken(d, k.to)]
  BY DEF Provision
<1>2. /\ setting' = setting /\ store' = k.to /\ StoreInv(store') /\ behind' \in SUBSET Users
      /\ CacheInv(cache', store', behind')
      /\ ~ Cached => \A u \in Users : cache'[u] = "none"
  BY <1>1, CommitCache
<1>3. ASSUME NEW d \in Callers
      PROVE  /\ call'[d] \in CallStates \cup {NoCall}
             /\ call'[d].pc # "idle" => /\ CallInv(call'[d], store')
                                        /\ Fresh(call'[d], store', behind')
  <2>1. call'[d] = Overtaken(d, k.to) /\ MayOvertake(Callers)
    BY <1>1 DEF Provision
  <2> QED
    BY <1>1, <1>2, <2>1, OvertakenCall
<1>4. call' \in [Callers -> CallStates \cup {NoCall}]
  <2>1. call' = [d \in Callers |-> call'[d]]
    BY <1>1
  <2> QED
    BY <1>3, <2>1
<1> QED
  BY <1>2, <1>3, <1>4, DInvNext

\* An invalidation: what it drops says nothing any more, and no lookup that began
\* before it is stored.
LEMMA DropInv ==
    ASSUME DInv, NEW U \in SUBSET Users, Drop(U), call' = [d \in Callers |-> call'[d]],
           \A d \in Callers : call'[d] = NoCall \/ call'[d] = Outdated(call[d])
    PROVE  DInv'
<1>1. setting' = setting /\ store' = store /\ behind' = behind \ U /\ behind' \in SUBSET Users
  BY DEF Drop, DInv
<1>2. cache' = [u \in Users |-> IF u \in U THEN "none" ELSE cache[u]]
  BY DEF Drop
<1>3. /\ CacheInv(cache', store, behind')
      /\ ~ Cached => \A u \in Users : cache'[u] = "none"
  <2>1. cache' \in [Users -> Entries]
    BY <1>2 DEF DInv, CacheInv, Entries
  <2>2. \A u \in Users \ behind' : cache'[u] = "with" => Permits(store, u)
    BY <1>1, <1>2 DEF DInv, CacheInv
  <2>3. ~ Cached => \A u \in Users : cache'[u] = "none"
    BY <1>2 DEF DInv
  <2> QED
    BY <2>1, <2>2, <2>3 DEF CacheInv
<1>4. ASSUME NEW d \in Callers
      PROVE  /\ call'[d] \in CallStates \cup {NoCall}
             /\ call'[d].pc # "idle" => /\ CallInv(call'[d], store)
                                        /\ Fresh(call'[d], store, behind')
  <2>1. CASE call'[d] = NoCall
    BY <2>1 DEF NoCall
  <2>2. CASE call[d].pc = "idle" /\ call'[d] = Outdated(call[d])
    BY <2>2 DEF Outdated, DInv
  <2>3. CASE call[d].pc # "idle" /\ call'[d] = Outdated(call[d])
    <3>1. PICK x : x = call[d]
      OBVIOUS
    <3>2. CallInv(x, store) /\ Fresh(x, store, behind) /\ x \in CallStates
      BY <2>3, <3>1, CallFacts
    <3> DEFINE y == Outdated(x)
    <3>3. /\ y \in CallStates
          /\ y.pc = x.pc /\ y.user = x.user /\ y.paths = x.paths /\ y.todo = x.todo
          /\ y.seen = x.seen /\ y.granted = x.granted /\ y.late = x.late
          /\ y.held = x.held /\ y.ever = x.ever
      <4>1. CASE x.pc \in {"missed", "effective"}
        BY <3>2, <4>1 DEF Outdated, CallStates
      <4>2. CASE x.pc \notin {"missed", "effective"}
        BY <3>2, <4>2 DEF Outdated
      <4> QED
        BY <4>1, <4>2
    <3>4. y.fills = FALSE
      <4>1. CASE x.pc \in {"missed", "effective"}
        BY <3>2, <4>1 DEF Outdated, CallStates
      <4>2. CASE x.pc \notin {"missed", "effective"}
        BY <3>2, <4>2 DEF Outdated, Fresh, CallStates
      <4> QED
        BY <4>1, <4>2
    <3> HIDE DEF y
    <3>5. CallInv(y, store)
      BY <3>2, <3>3 DEF CallInv, Enclosed, Grounded, Guarded
    <3>6. Fresh(y, store, behind')
      BY <3>4 DEF Fresh
    <3> QED
      BY <2>3, <3>1, <3>3, <3>5, <3>6 DEF y
  <2> QED
    BY <2>1, <2>2, <2>3
<1>5. call' \in [Callers -> CallStates \cup {NoCall}]
  BY <1>4
<1> QED
  BY <1>1, <1>3, <1>4, <1>5, DInvNext DEF DInv

\* The end of a management call that committed.
LEMMA InvalidatesInv == ASSUME DInv, NEW c \in Callers, Invalidates(c) PROVE DInv'
<1>1. Drop(call[c].drops) /\ call[c].drops \in SUBSET Users
  BY CallFacts DEF Invalidates, In, CallStates
<1>2. /\ call' = [d \in Callers |-> call'[d]]
      /\ \A d \in Callers : call'[d] = NoCall \/ call'[d] = Outdated(call[d])
  BY DEF Invalidates
<1> QED
  BY <1>1, <1>2, DropInv

\* An event, or the flush of a provisioning call.
LEMMA ApplyEventInv == ASSUME DInv, ApplyEvent PROVE DInv'
<1>1. PICK U \in SUBSET Users : Drop(U)
  BY DEF ApplyEvent
<1>2. /\ call' = [d \in Callers |-> call'[d]]
      /\ \A d \in Callers : call'[d] = NoCall \/ call'[d] = Outdated(call[d])
  BY DEF ApplyEvent
<1> QED
  BY <1>1, <1>2, DropInv

\* The end of an entry's time.
LEMMA EvictInv == ASSUME DInv, NEW u \in Users, Evict(u) PROVE DInv'
<1>1. \A v \in Users : cache'[v] = "none" \/ cache'[v] = cache[v]
  BY DEF Evict, DInv, CacheInv
<1>2. cache' \in [Users -> Entries]
  BY DEF Evict, DInv, CacheInv, Entries
<1>3. setting' = setting /\ store' = store /\ behind' = behind /\ call' = call
  BY DEF Evict
<1>4. /\ CacheInv(cache', store, behind)
      /\ ~ Cached => \A v \in Users : cache'[v] = "none"
  BY <1>1, <1>2 DEF DInv, CacheInv
<1> QED
  BY <1>3, <1>4, DInvNext DEF DInv

-----------------------------------------------------------------------------
(* The theorems *)

\* Decisions and commits in any order keep the invariant.
THEOREM DecisionInvariant == Spec => []DInv
<1>1. Init => DInv
  <2>1. NoCall.pc = "idle"
    BY DEF NoCall
  <2> QED
    BY <2>1, NewStoreInv DEF Init, DInv, CacheInv, Entries
<1>2. DInv /\ [Next]_vars => DInv'
  <2> SUFFICES ASSUME DInv, Next \/ UNCHANGED vars PROVE DInv'
    OBVIOUS
  <2>1. CASE UNCHANGED vars
    BY <2>1, DInvNext DEF vars, DInv
  <2>2. ASSUME NEW c \in Callers, ReadFails(c) \/ Return(c) PROVE DInv'
    BY <2>2, EndInv DEF ReadFails, Return, Error
  <2> QED
    BY <2>1, <2>2, StartInv, GetRolesInv, VisitRoleInv, FillInv, GetNamesInv, CollectNameInv,
       NamesCollectedInv, ReadRulesInv, DecidedInv, ManagesInv, InvalidatesInv, ProvisionInv,
       ApplyEventInv, EvictInv DEF Next
<1> QED
  BY <1>1, <1>2, PTL DEF Spec

\* A deny that is in force all through a call is never raced: EnforceCtx does
\* not return TRUE, however many commits come between its reads.
THEOREM DenyAlwaysHolds == Spec => []DenyHolds
<1>1. DInv => DenyHolds
  BY DEF DInv, CallInv, Guarded, DenyHolds, In
<1> QED
  BY <1>1, DecisionInvariant, PTL

\* What is allowed, and what a management call commits, is grounded in
\* assignments, links and grants that existed during the call: permissionsFor
\* reads them, or hits a set that is still true, because a lookup overtaken by an
\* invalidation is not stored and a commit's own invalidation drops every set it
\* made old.  Only a hit before that invalidation is excepted.
THEOREM AllowsAreGrounded == Spec => []AllowGrounded
<1>1. DInv => AllowGrounded
  BY DEF DInv, CallInv, Grounded, AllowGrounded
<1> QED
  BY <1>1, DecisionInvariant, PTL

-----------------------------------------------------------------------------
(* Conditions *)

\* Every set of numbers has a least member.
LEMMA NatMin == ASSUME NEW T \in SUBSET Nat, T # {} PROVE \E n \in T : \A m \in T : n <= m
<1>1. \A R, S : IsWellFoundedOn(R, S) =>
          \A X : X \subseteq S /\ X # {} => \E x \in X : \A y \in X : ~ (<<y, x>> \in R)
  BY WFMin
<1>2. IsWellFoundedOn(OpToRel(<, Nat), Nat)
  BY NatLessThanWellFounded
<1>3. PICK x \in T : \A y \in T : ~ (<<y, x>> \in OpToRel(<, Nat))
  BY <1>1, <1>2
<1>4. \A y \in T : ~ (y < x)
  BY <1>3 DEF OpToRel
<1> QED
  BY <1>4

\* What a condition can come to.
Outcomes == {"yes", "no", "unknown"}

\* The facts a caller may pass.
Given == [Attributes -> Valid \cup {Malformed, Missing}]

\* A condition that compares has an operand it names or brings along.
LEMMA ConditionFacts ==
    ASSUME NEW c \in Conditions
    PROVE  /\ c.attribute \in Attributes
           /\ c.operator \in Comparisons \cup Equalities \cup Memberships \cup Presences
           /\ c.other \in Attributes \cup {NoOther}
           /\ c.other \in Attributes => c.operator \notin Presences
BY RuleConstantsOK DEF Conditions, Comparisons, Equalities, Memberships, Presences

\* Operators come to a decision or to none.
LEMMA OperatorType ==
    ASSUME NEW op \in Comparisons \cup Equalities \cup Memberships, NEW v, NEW e
    PROVE  applyOperator(op, v, e) \in Outcomes
<1>1. \A b : Known(b) \in Outcomes
  BY DEF Known, Outcomes
<1>2. CASE op \in Memberships
  BY <1>1, <1>2 DEF applyOperator, Memberships, Outcomes
<1>3. CASE op \in Equalities
  BY <1>1, <1>3 DEF applyOperator, Equalities, Memberships, Comparisons
<1>4. CASE op \in Comparisons
  BY <1>1, <1>4 DEF applyOperator, Memberships, Comparisons, Outcomes
<1> QED
  BY <1>2, <1>3, <1>4

\* So do conditions.
LEMMA ConditionType ==
    ASSUME NEW c \in Conditions, NEW given
    PROVE  conditionMatches(c, given) \in Outcomes
<1>1. \A b : Known(b) \in Outcomes
  BY DEF Known, Outcomes
<1>2. c.operator \notin Presences =>
         \A v, e : applyOperator(c.operator, v, e) \in Outcomes
  BY ConditionFacts, OperatorType
<1> QED
  BY <1>1, <1>2 DEF conditionMatches, Outcomes

\* The result of the loop over the first i conditions.
Verdict(cs, given, i) ==
    IF \E k \in 1 .. i : conditionMatches(cs[k], given) = "no" THEN "no"
    ELSE IF \E k \in 1 .. i : conditionMatches(cs[k], given) = "unknown" THEN "unknown" ELSE "yes"

\* One more condition.
LEMMA VerdictStep ==
    ASSUME NEW cs \in Seq(Conditions), NEW given, NEW i \in 1 .. Len(cs)
    PROVE  LET m == conditionMatches(cs[i], given)
               before == Verdict(cs, given, i - 1)
           IN Verdict(cs, given, i) = IF before = "no" \/ m = "no" THEN "no"
                                      ELSE IF before = "unknown" THEN "unknown" ELSE m
<1> DEFINE hit(x, k) == conditionMatches(cs[k], given) = x
<1>1. conditionMatches(cs[i], given) \in Outcomes
  BY ConditionType
<1>2. ASSUME NEW x
      PROVE  (\E k \in 1 .. i : hit(x, k)) <=> (\E k \in 1 .. (i - 1) : hit(x, k)) \/ hit(x, i)
  <2>1. \A k : k \in 1 .. i <=> k \in 1 .. (i - 1) \/ k = i
    OBVIOUS
  <2> HIDE DEF hit
  <2> QED
    BY <2>1
<1> QED
  BY <1>1, <1>2 DEF Verdict, Outcomes

\* The loop computes the verdict of all conditions: by induction over its rounds.
LEMMA LoopVerdict ==
    ASSUME NEW cs \in Seq(Conditions), NEW given
    PROVE  conditionsMatch(cs, given) = Verdict(cs, given, Len(cs))
<1> DEFINE body(f) == [i \in 0 .. Len(cs) |->
                         IF i = 0 THEN "yes"
                         ELSE IF f[i - 1] = "no" \/ conditionMatches(cs[i], given) = "no" THEN "no"
                              ELSE IF f[i - 1] = "unknown" THEN "unknown"
                                   ELSE conditionMatches(cs[i], given)]
           after == CHOOSE f : f = body(f)
           whole == [i \in 0 .. Len(cs) |-> Verdict(cs, given, i)]
<1>1. conditionsMatch(cs, given) = after[Len(cs)]
  BY DEF conditionsMatch
<1>2. Len(cs) \in Nat
  OBVIOUS
<1>3. Verdict(cs, given, 0) = "yes"
  BY DEF Verdict
<1>4. whole = body(whole)
  <2>1. ASSUME NEW i \in 0 .. Len(cs) PROVE whole[i] = body(whole)[i]
    <3>1. CASE i = 0
      BY <1>3, <3>1
    <3>2. CASE i # 0
      <4>1. i \in 1 .. Len(cs) /\ i - 1 \in 0 .. Len(cs)
        BY <1>2, <3>2
      <4>2. whole[i] = Verdict(cs, given, i) /\ whole[i - 1] = Verdict(cs, given, i - 1)
        BY <4>1
      <4> HIDE DEF whole
      <4> QED
        BY <3>2, <4>1, <4>2, VerdictStep
    <3> QED
      BY <3>1, <3>2
  <2> QED
    BY <2>1
<1>5. after = body(after)
  <2> HIDE DEF whole, body
  <2> QED
    BY <1>4
<1> HIDE DEF after
<1>6. ASSUME NEW i \in 0 .. Len(cs), after[i] # Verdict(cs, given, i) PROVE FALSE
  <2> DEFINE T == {k \in 0 .. Len(cs) : after[k] # Verdict(cs, given, k)}
  <2>1. T \in SUBSET Nat /\ T # {}
    BY <1>6
  <2>2. PICK k \in T : \A m \in T : k <= m
    BY <2>1, NatMin
  <2>3. k \in 1 .. Len(cs) /\ k - 1 \in 0 .. Len(cs) /\ ~ (k <= k - 1)
    BY <1>2, <1>3, <1>5, <2>2
  <2>4. after[k - 1] = Verdict(cs, given, k - 1)
    BY <2>2, <2>3
  <2>5. after[k] = Verdict(cs, given, k)
    <3>1. after[k] = IF after[k - 1] = "no" \/ conditionMatches(cs[k], given) = "no" THEN "no"
                     ELSE IF after[k - 1] = "unknown" THEN "unknown"
                          ELSE conditionMatches(cs[k], given)
      BY <1>5, <2>3
    <3> QED
      BY <2>3, <2>4, <3>1, VerdictStep
  <2> QED
    BY <2>2, <2>5
<1>7. Len(cs) \in 0 .. Len(cs)
  BY <1>2
<1> QED
  BY <1>1, <1>6, <1>7

\* A condition whose outcome is known with a malformed fact does not look at it.
LEMMA MalformedOne ==
    ASSUME NEW c \in Conditions, NEW given \in Given, NEW a \in Attributes, NEW v,
           conditionMatches(c, [given EXCEPT ![a] = Malformed]) # "unknown"
    PROVE  conditionMatches(c, [given EXCEPT ![a] = v])
              = conditionMatches(c, [given EXCEPT ![a] = Malformed])
<1> DEFINE bad == [given EXCEPT ![a] = Malformed]
           new == [given EXCEPT ![a] = v]
<1>1. bad[a] = Malformed /\ \A b \in Attributes : b # a => bad[b] = new[b]
  BY DEF Given
<1> HIDE DEF bad, new
<1>2. conditionMatches(c, bad) # "unknown"
  BY DEF bad
<1>3. c.attribute # a
  BY <1>1, <1>2 DEF conditionMatches
<1>4. new[c.attribute] = bad[c.attribute]
  BY <1>1, <1>3, ConditionFacts
<1>5. ASSUME c.operator \in Presences PROVE conditionMatches(c, new) = conditionMatches(c, bad)
  BY <1>4, <1>5 DEF conditionMatches
<1>6. ASSUME c.operator \notin Presences PROVE conditionMatches(c, new) = conditionMatches(c, bad)
  <2>1. c.other # a
    BY <1>1, <1>2, <1>6, RuleConstantsOK DEF conditionMatches, expected
  <2>2. expected(c, new) = expected(c, bad)
    BY <1>1, <2>1, ConditionFacts DEF expected
  <2> QED
    BY <1>4, <2>2 DEF conditionMatches
<1>7. conditionMatches(c, new) = conditionMatches(c, bad)
  BY <1>5, <1>6
<1> QED
  BY <1>7 DEF bad, new

\* A condition that does not ask for presence is unknown without a fact it looks at.
LEMMA OmittedOne ==
    ASSUME NEW c \in Conditions, NEW given \in Given, NEW a \in Attributes,
           c.operator \notin Presences,
           conditionMatches(c, [given EXCEPT ![a] = Missing]) # "unknown"
    PROVE  conditionMatches(c, given) = conditionMatches(c, [given EXCEPT ![a] = Missing])
<1> DEFINE new == [given EXCEPT ![a] = Missing]
<1>1. new[a] = Missing /\ \A b \in Attributes : b # a => given[b] = new[b]
  BY DEF Given
<1> HIDE DEF new
<1>2. conditionMatches(c, new) # "unknown"
  BY DEF new
<1>3. c.attribute # a /\ c.other # a
  BY <1>1, <1>2, RuleConstantsOK DEF conditionMatches, expected
<1>4. new[c.attribute] = given[c.attribute] /\ expected(c, new) = expected(c, given)
  BY <1>1, <1>3, ConditionFacts DEF expected
<1>5. conditionMatches(c, given) = conditionMatches(c, new)
  BY <1>4 DEF conditionMatches
<1> QED
  BY <1>5 DEF new

\* What the callers pass.
RulesType == facts \in Given /\ conditions \in Seq(Conditions)

\* Facts and conditions are what the callers may pass.
LEMMA RulesTyped == RulesSpec => []RulesType
<1>1. RulesInit => RulesType
  BY DEF RulesInit, RulesType, Given
<1>2. RulesType /\ [RulesNext]_ruleVars => RulesType'
  BY DEF RulesType, RulesNext, ruleVars, GiveFact, AddCondition, Given
<1> QED
  BY <1>1, <1>2, PTL DEF RulesSpec

\* For any facts and any list of conditions: what a rule does with a fact that JSON
\* cannot represent, it does whatever the fact is.
THEOREM MalformedIsIgnored == RulesSpec => []MalformedDecidesNothing
<1>1. RulesType => MalformedDecidesNothing
  <2> SUFFICES ASSUME RulesType, NEW a \in Attributes, NEW v \in Valid \cup {Missing},
                      conditionsMatch(conditions, [facts EXCEPT ![a] = Malformed]) # "unknown"
               PROVE  conditionsMatch(conditions, [facts EXCEPT ![a] = v])
                         = conditionsMatch(conditions, [facts EXCEPT ![a] = Malformed])
    BY DEF MalformedDecidesNothing
  <2> DEFINE bad == [facts EXCEPT ![a] = Malformed]
             new == [facts EXCEPT ![a] = v]
             n == Len(conditions)
  <2>1. n \in Nat /\ conditions \in Seq(Conditions) /\ facts \in Given
    BY DEF RulesType
  <2>2. ASSUME NEW k \in 1 .. n
        PROVE  conditionMatches(conditions[k], bad) # "unknown" =>
                  conditionMatches(conditions[k], new) = conditionMatches(conditions[k], bad)
    <3>1. conditions[k] \in Conditions
      BY <2>1
    <3> QED
      BY <2>1, <3>1, MalformedOne
  <2>3. ASSUME NEW k \in 1 .. n
        PROVE  conditionMatches(conditions[k], bad) \in Outcomes
    BY <2>1, ConditionType
  <2> HIDE DEF bad, new, n
  <2>4. Verdict(conditions, bad, n) # "unknown" =>
           Verdict(conditions, new, n) = Verdict(conditions, bad, n)
    BY <2>2, <2>3 DEF Verdict, Outcomes
  <2> QED
    BY <2>1, <2>4, LoopVerdict DEF bad, new, n
<1> QED
  BY <1>1, RulesTyped, PTL

\* For any facts and any list of conditions: leaving a fact out neither avoids a
\* deny nor earns an allow.
THEOREM OmissionGainsNothing == RulesSpec => []OmissionIsNoWayAround
<1>1. RulesType => OmissionIsNoWayAround
  <2> SUFFICES ASSUME RulesType, NEW a \in Attributes,
                      \A i \in 1 .. Len(conditions) : conditions[i].operator \notin Presences
               PROVE  /\ DenyFires(conditions, facts) =>
                            DenyFires(conditions, [facts EXCEPT ![a] = Missing])
                      /\ AllowFires(conditions, [facts EXCEPT ![a] = Missing]) =>
                            AllowFires(conditions, facts)
    BY DEF OmissionIsNoWayAround
  <2> DEFINE new == [facts EXCEPT ![a] = Missing]
             n == Len(conditions)
  <2>1. n \in Nat /\ conditions \in Seq(Conditions) /\ facts \in Given
    BY DEF RulesType
  <2>2. ASSUME NEW k \in 1 .. n
        PROVE  conditionMatches(conditions[k], new) # "unknown" =>
                  conditionMatches(conditions[k], facts) = conditionMatches(conditions[k], new)
    <3>1. conditions[k] \in Conditions /\ conditions[k].operator \notin Presences
      BY <2>1
    <3> QED
      BY <2>1, <3>1, OmittedOne
  <2>3. ASSUME NEW k \in 1 .. n
        PROVE  conditionMatches(conditions[k], new) \in Outcomes
    BY <2>1, ConditionType
  <2> HIDE DEF new, n
  <2>4. /\ Verdict(conditions, facts, n) # "no" => Verdict(conditions, new, n) # "no"
        /\ Verdict(conditions, new, n) = "yes" => Verdict(conditions, facts, n) = "yes"
        /\ Verdict(conditions, new, n) \in Outcomes /\ Verdict(conditions, facts, n) \in Outcomes
    BY <2>2, <2>3 DEF Verdict, Outcomes
  <2> QED
    BY <2>1, <2>4, LoopVerdict DEF new, n, DenyFires, AllowFires, Outcomes
<1> QED
  BY <1>1, RulesTyped, PTL

-----------------------------------------------------------------------------
(* The graph that is searched *)

\* Among some sets of roles there is a least one, for inclusion.
LEMMA MinimalSet ==
    ASSUME NEW F \in SUBSET (SUBSET Roles), F # {}
    PROVE  \E V \in F : \A U \in F : U \subseteq V => U = V
<1>1. \A R, S : IsWellFoundedOn(R, S) =>
          \A X : X \subseteq S /\ X # {} => \E x \in X : \A y \in X : ~ (<<y, x>> \in R)
  BY WFMin
<1>2. IsWellFoundedOn(StrictSubsetOrdering(Roles), FiniteSubsetsOf(Roles))
  BY FS_StrictSubsetOrderingWellFounded
<1>3. F \subseteq FiniteSubsetsOf(Roles)
  BY RolesFinite, FS_Subset DEF FiniteSubsetsOf
<1>4. PICK V \in F : \A U \in F : ~ (<<U, V>> \in StrictSubsetOrdering(Roles))
  BY <1>1, <1>2, <1>3
<1> QED
  BY <1>4 DEF StrictSubsetOrdering

\* And a greatest one.
LEMMA MaximalSet ==
    ASSUME NEW F \in SUBSET (SUBSET Roles), F # {}
    PROVE  \E V \in F : \A U \in F : V \subseteq U => U = V
<1> DEFINE G == {Roles \ V : V \in F}
<1>1. G \in SUBSET (SUBSET Roles) /\ G # {}
  <2>1. PICK V \in F : TRUE
    OBVIOUS
  <2>2. Roles \ V \in G
    BY <2>1
  <2>3. G \in SUBSET (SUBSET Roles)
    OBVIOUS
  <2> HIDE DEF G
  <2> QED
    BY <2>2, <2>3
<1> HIDE DEF G
<1>2. PICK X \in G : \A Y \in G : Y \subseteq X => Y = X
  BY <1>1, MinimalSet
<1>3. PICK V \in F : X = Roles \ V
  BY <1>2 DEF G
<1>4. ASSUME NEW U \in F, V \subseteq U PROVE U = V
  <2>1. Roles \ U \in G
    BY DEF G
  <2>2. Roles \ U = Roles \ V
    BY <1>2, <1>3, <1>4, <2>1
  <2>3. U \subseteq Roles /\ V \subseteq Roles
    OBVIOUS
  <2> QED
    BY <2>2, <2>3
<1> QED
  BY <1>4

\* The graph is one over the roles.
GraphType == parents \in Graphs /\ present \in SUBSET Roles

\* Every graph that is searched has its type.
LEMMA GraphTyped == GraphSpec => []GraphType
<1>1. GraphInit => GraphType
  BY DEF GraphInit, GraphType, Graphs
<1>2. GraphType /\ [GraphNext]_graphVars => GraphType'
  <2> SUFFICES ASSUME GraphType, [GraphNext]_graphVars PROVE GraphType'
    OBVIOUS
  <2>1. CASE UNCHANGED graphVars
    BY <2>1 DEF GraphType, graphVars
  <2>2. ASSUME NEW r \in Roles, Toggle(r) PROVE GraphType'
    BY <2>2 DEF GraphType, Toggle
  <2>3. ASSUME NEW r \in Roles, NEW S \in SUBSET Roles, Relink(r, S) PROVE GraphType'
    BY <2>3 DEF GraphType, Relink, Graphs
  <2> QED
    BY <2>1, <2>2, <2>3 DEF GraphNext
<1> QED
  BY <1>1, <1>2, PTL DEF GraphSpec

\* What a search can follow.
LEMMA LinksFacts ==
    ASSUME GraphType
    PROVE  /\ Links \in Graphs
           /\ \A r \in Roles : Links[r] = IF r \in present THEN parents[r] ELSE {}
           /\ \A r \in Roles : Links[r] \in SUBSET Roles /\ parents[r] \in SUBSET Roles
BY DEF GraphType, Links, Graphs

\* A walk from a parent finds no more than a walk from the role.
LEMMA ReachParent ==
    ASSUME NEW p \in Graphs, NEW r \in Roles, NEW q \in p[r]
    PROVE  /\ q \in Roles
           /\ Reach(p, {q}) \subseteq Ancestors(p, r)
           /\ Ancestors(p, r) \subseteq Reach(p, {r})
           /\ Reach(p, {r}) \subseteq Roles
<1>1. p[r] \in SUBSET Roles /\ q \in Roles
  BY DEF Graphs
<1>2. /\ p[r] \subseteq Ancestors(p, r) /\ Ancestors(p, r) \subseteq Roles
      /\ \A x \in Ancestors(p, r) : p[x] \subseteq Ancestors(p, r)
  BY <1>1, ReachFacts DEF Ancestors
<1>3. {q} \subseteq Ancestors(p, r) /\ Ancestors(p, r) \in SUBSET Roles
  BY <1>2
<1>4. Reach(p, {q}) \subseteq Ancestors(p, r)
  BY <1>2, <1>3, ReachLeast
<1>5. Reach(p, {r}) = {r} \cup Ancestors(p, r)
  BY ReachOne
<1> QED
  BY <1>1, <1>2, <1>4, <1>5

-----------------------------------------------------------------------------
(* The depth-first search *)

\* What the search along one path finds: a role of the path or a cycle.
Meets(r, visiting) ==
    \E x \in Reach(Links, {r}) : x \in visiting \/ x \in Ancestors(Links, x)

\* The search may look at the role and go on with its parents.
LEMMA MeetsStep ==
    ASSUME GraphType, NEW r \in Roles, NEW visiting \in SUBSET Roles
    PROVE  Meets(r, visiting) <=> \/ r \in visiting
                                  \/ r \in present /\ \E q \in parents[r] : Meets(q, visiting \cup {r})
<1>1. /\ Links \in Graphs
      /\ Links[r] = IF r \in present THEN parents[r] ELSE {}
      /\ Links[r] \in SUBSET Roles /\ parents[r] \in SUBSET Roles
  BY LinksFacts
<1>2. Reach(Links, {r}) = {r} \cup Ancestors(Links, r)
  BY <1>1, ReachOne
<1>3. ASSUME NEW x \in Ancestors(Links, r)
      PROVE  \E q \in Links[r] : x \in Reach(Links, {q})
  BY <1>1, <1>3, ReachUnion DEF Ancestors
<1>4. ASSUME Meets(r, visiting), r \notin visiting
      PROVE  r \in present /\ \E q \in parents[r] : Meets(q, visiting \cup {r})
  <2>1. PICK x \in Reach(Links, {r}) : x \in visiting \/ x \in Ancestors(Links, x)
    BY <1>4 DEF Meets
  <2>2. x \in Ancestors(Links, r)
    BY <1>2, <1>4, <2>1
  <2>3. PICK q \in Links[r] : x \in Reach(Links, {q})
    BY <1>3, <2>2
  <2>4. Meets(q, visiting \cup {r})
    BY <2>1, <2>3 DEF Meets
  <2> QED
    BY <1>1, <2>3, <2>4
<1>5. ASSUME r \in present, NEW q \in parents[r], Meets(q, visiting \cup {r})
      PROVE  Meets(r, visiting)
  <2>1. q \in Links[r]
    BY <1>1, <1>5
  <2>2. Reach(Links, {q}) \subseteq Ancestors(Links, r)
    BY <1>1, <2>1, ReachParent
  <2>3. PICK x \in Reach(Links, {q}) : x \in visiting \cup {r} \/ x \in Ancestors(Links, x)
    BY <1>5 DEF Meets
  <2> QED
    BY <1>2, <2>2, <2>3 DEF Meets
<1>6. ASSUME r \in visiting PROVE Meets(r, visiting)
  BY <1>2, <1>6 DEF Meets
<1> QED
  BY <1>4, <1>5, <1>6

\* The search is given by its equation: one function satisfies it.
LEMMA DfsEquation ==
    ASSUME GraphType, NEW r \in Roles, NEW visiting \in SUBSET Roles
    PROVE  dfs[visiting][r] <=> \/ r \in visiting
                                \/ r \in present /\ \E q \in parents[r] : dfs[visiting \cup {r}][q]
<1> DEFINE body(f) == [V \in SUBSET Roles |-> [x \in Roles |->
                         x \in V \/ (x \in present /\ \E q \in parents[x] : f[V \cup {x}][q])]]
           whole == [V \in SUBSET Roles |-> [x \in Roles |-> Meets(x, V)]]
<1>1. dfs = CHOOSE f : f = body(f)
  BY DEF dfs
<1>2. whole = body(whole)
  <2>1. ASSUME NEW x \in Roles, NEW V \in SUBSET Roles
        PROVE  Meets(x, V) = (x \in V \/ (x \in present /\ \E q \in parents[x] : whole[V \cup {x}][q]))
    <3>1. parents[x] \in SUBSET Roles /\ V \cup {x} \in SUBSET Roles
      BY LinksFacts
    <3>2. \A q \in parents[x] : whole[V \cup {x}][q] = Meets(q, V \cup {x})
      BY <3>1
    <3>3. Meets(x, V) \in BOOLEAN
      BY DEF Meets
    <3> HIDE DEF whole
    <3> QED
      BY <3>2, <3>3, MeetsStep
  <2>2. ASSUME NEW V \in SUBSET Roles PROVE whole[V] = body(whole)[V]
    <3>1. whole[V] = [x \in Roles |-> Meets(x, V)]
      OBVIOUS
    <3> HIDE DEF whole
    <3> QED
      BY <2>1, <3>1
  <2> QED
    BY <2>2
<1>3. dfs = body(dfs)
  <2> HIDE DEF whole, body
  <2> QED
    BY <1>1, <1>2
<1> QED
  BY <1>3

\* The search finds what it should, whatever path led to it: on a longest path
\* where it does not, it does not for a parent on a longer one.
LEMMA DfsMeets ==
    ASSUME GraphType, NEW r \in Roles, NEW visiting \in SUBSET Roles
    PROVE  dfs[visiting][r] <=> Meets(r, visiting)
<1> DEFINE Good(V) == \A x \in Roles : dfs[V][x] <=> Meets(x, V)
           F == {V \in SUBSET Roles : ~ Good(V)}
<1>1. ASSUME ~ Good(visiting) PROVE FALSE
  <2>1. F \in SUBSET (SUBSET Roles) /\ F # {}
    BY <1>1
  <2>2. PICK V \in F : \A U \in F : V \subseteq U => U = V
    <3> HIDE DEF F
    <3> QED
      BY <2>1, MaximalSet
  <2>3. ASSUME NEW x \in Roles PROVE dfs[V][x] <=> Meets(x, V)
    <3>1. V \in SUBSET Roles /\ V \cup {x} \in SUBSET Roles
      OBVIOUS
    <3>2. CASE x \in V
      BY <3>1, <3>2, DfsEquation, MeetsStep
    <3>3. CASE x \notin V
      <4>1. Good(V \cup {x})
        <5> HIDE DEF Good
        <5> QED
          BY <2>2, <3>1, <3>3
      <4>2. \A q \in parents[x] : dfs[V \cup {x}][q] <=> Meets(q, V \cup {x})
        BY <4>1, LinksFacts
      <4> QED
        BY <3>1, <4>2, DfsEquation, MeetsStep
    <3> QED
      BY <3>2, <3>3
  <2> QED
    BY <2>2, <2>3
<1> QED
  BY <1>1

\* The depth-first search finds a cycle exactly when one is reachable.
LEMMA CycleSearchCorrect == GraphType => CycleSearchExact
<1> SUFFICES ASSUME GraphType, NEW r \in Roles PROVE CycleSearch(r) <=> detectCycle(Links, r)
  BY DEF CycleSearchExact
<1>1. CycleSearch(r) <=> Meets(r, {})
  BY DfsMeets DEF CycleSearch
<1> QED
  BY <1>1 DEF Meets, detectCycle

-----------------------------------------------------------------------------
(* The recursive query *)

\* The rows with those of one more round.
OneRound(S) == S \cup UNION {parents[x] : x \in S}

\* One more round changes nothing about what can be reached, and a round that
\* adds nothing has found it all.
LEMMA RoundStep ==
    ASSUME GraphType, NEW S \in SUBSET Roles
    PROVE  /\ S \subseteq OneRound(S)
           /\ OneRound(S) \in SUBSET Roles
           /\ Reach(parents, OneRound(S)) = Reach(parents, S)
           /\ OneRound(S) = S => Reach(parents, S) = S
<1>1. parents \in Graphs /\ \A x \in Roles : parents[x] \in SUBSET Roles
  BY LinksFacts DEF GraphType
<1>2. S \subseteq OneRound(S) /\ \A x \in S : parents[x] \subseteq OneRound(S)
  BY DEF OneRound
<1>3. OneRound(S) \in SUBSET Roles
  BY <1>1 DEF OneRound
<1>4. /\ S \subseteq Reach(parents, S) /\ Reach(parents, S) \in SUBSET Roles
      /\ \A x \in Reach(parents, S) : parents[x] \subseteq Reach(parents, S)
  BY <1>1, ReachFacts
<1>5. /\ OneRound(S) \subseteq Reach(parents, OneRound(S))
      /\ Reach(parents, OneRound(S)) \in SUBSET Roles
      /\ \A x \in Reach(parents, OneRound(S)) : parents[x] \subseteq Reach(parents, OneRound(S))
  BY <1>1, <1>3, ReachFacts
<1>6. OneRound(S) \subseteq Reach(parents, S)
  BY <1>4 DEF OneRound
<1>7. Reach(parents, OneRound(S)) \subseteq Reach(parents, S)
  BY <1>1, <1>4, <1>6, ReachLeast
<1>8. Reach(parents, S) \subseteq Reach(parents, OneRound(S))
  BY <1>1, <1>2, <1>5, ReachLeast
<1>9. ASSUME OneRound(S) = S PROVE Reach(parents, S) \subseteq S
  BY <1>1, <1>2, <1>9, ReachLeast
<1> QED
  BY <1>2, <1>3, <1>4, <1>7, <1>8, <1>9

\* The query is given by its equation.
LEMMA QueryEquation ==
    ASSUME GraphType, NEW S \in SUBSET Roles
    PROVE  withRecursive[S] = IF OneRound(S) = S THEN S ELSE withRecursive[OneRound(S)]
<1> DEFINE body(f) == [T \in SUBSET Roles |-> IF OneRound(T) = T THEN T ELSE f[OneRound(T)]]
           whole == [T \in SUBSET Roles |-> Reach(parents, T)]
<1>1. withRecursive = CHOOSE f : f = body(f)
  BY DEF withRecursive, OneRound
<1>2. whole = body(whole)
  <2>1. ASSUME NEW T \in SUBSET Roles PROVE whole[T] = body(whole)[T]
    BY RoundStep
  <2> QED
    BY <2>1
<1>3. withRecursive = body(withRecursive)
  <2> HIDE DEF whole, body
  <2> QED
    BY <1>1, <1>2
<1> QED
  BY <1>3

\* The query finds the roles that can be reached: a largest set of rows from
\* which it does not would grow.
LEMMA QueryReach ==
    ASSUME GraphType, NEW S \in SUBSET Roles
    PROVE  withRecursive[S] = Reach(parents, S)
<1> DEFINE Good(T) == withRecursive[T] = Reach(parents, T)
           F == {T \in SUBSET Roles : ~ Good(T)}
<1>1. ASSUME ~ Good(S) PROVE FALSE
  <2>1. F \in SUBSET (SUBSET Roles) /\ F # {}
    BY <1>1
  <2>2. PICK T \in F : \A U \in F : T \subseteq U => U = T
    <3> HIDE DEF F
    <3> QED
      BY <2>1, MaximalSet
  <2>3. CASE OneRound(T) = T
    BY <2>2, <2>3, QueryEquation, RoundStep
  <2>4. CASE OneRound(T) # T
    <3>1. /\ T \subseteq OneRound(T) /\ OneRound(T) \in SUBSET Roles
          /\ Reach(parents, OneRound(T)) = Reach(parents, T)
      BY <2>2, RoundStep
    <3>2. withRecursive[T] = withRecursive[OneRound(T)]
      BY <2>2, <2>4, QueryEquation
    <3>3. Good(OneRound(T))
      <4> HIDE DEF Good
      <4> QED
        BY <2>2, <2>4, <3>1
    <3> QED
      BY <2>2, <3>1, <3>2, <3>3
  <2> QED
    BY <2>3, <2>4
<1> QED
  BY <1>1

\* The two stores agree: in a graph where only the links of r can close a cycle,
\* there is one when r is its own ancestor.
LEMMA StoresCorrect == GraphType => StoresAgree
<1> SUFFICES ASSUME GraphType, NEW r \in Roles, Links = parents, Acyclic([parents EXCEPT ![r] = {}])
             PROVE  CycleSearch(r) <=> checkCycles(r)
  BY DEF StoresAgree
<1>1. parents \in Graphs /\ parents[r] \in SUBSET Roles
  BY LinksFacts DEF GraphType
<1>2. CycleSearch(r) <=> detectCycle(parents, r)
  BY CycleSearchCorrect DEF CycleSearchExact
<1>3. checkCycles(r) <=> r \in Ancestors(parents, r)
  BY <1>1, QueryReach DEF checkCycles, Ancestors
<1>4. ASSUME r \in Ancestors(parents, r) PROVE detectCycle(parents, r)
  BY <1>1, <1>4, ReachOne DEF detectCycle
<1>5. ASSUME r \notin Ancestors(parents, r) PROVE ~ detectCycle(parents, r)
  <2> DEFINE p == [parents EXCEPT ![r] = {}]
  <2>1. p \in Graphs /\ \A x \in Roles : x # r => parents[x] = p[x]
    BY <1>1 DEF Graphs
  <2> HIDE DEF p
  <2>2. Acyclic(p)
    BY DEF p
  <2>3. Acyclic(parents)
    BY <1>1, <1>5, <2>1, <2>2, RelinkAcyclic
  <2> QED
    BY <1>1, <2>3, AcyclicSearch
<1> QED
  BY <1>2, <1>3, <1>4, <1>5

-----------------------------------------------------------------------------
(* The walks of the enforcer *)

\* The links that a walk which avoids the roles in V can follow.
Avoiding(V) == [x \in Roles |-> IF x \in present \ V THEN parents[x] \ V ELSE {}]

\* They are links.
LEMMA AvoidingFacts ==
    ASSUME GraphType, NEW V \in SUBSET Roles
    PROVE  /\ Avoiding(V) \in Graphs
           /\ \A x \in Roles : Avoiding(V)[x] = IF x \in present \ V THEN parents[x] \ V ELSE {}
           /\ \A x \in Roles : Avoiding(V)[x] \in SUBSET Roles
BY DEF GraphType, Avoiding, Graphs

\* A walk that starts from r may avoid it from then on.
LEMMA AvoidStep ==
    ASSUME GraphType, NEW V \in SUBSET Roles, NEW A \in SUBSET Roles, A \cap V = {},
           NEW r \in present, r \notin V
    PROVE  Reach(Avoiding(V), A \cup {r})
              = {r} \cup Reach(Avoiding(V \cup {r}), (A \cup parents[r]) \ (V \cup {r}))
<1> DEFINE W == V \cup {r}
           B == (A \cup parents[r]) \ W
           C == Avoiding(V)
           D == Avoiding(W)
           X == Reach(C, A \cup {r})
           Y == Reach(D, B)
<1>1. r \in Roles /\ W \in SUBSET Roles /\ parents[r] \in SUBSET Roles /\ present \in SUBSET Roles
  BY LinksFacts DEF GraphType
<1>2. B \in SUBSET Roles /\ A \cup {r} \in SUBSET Roles
  BY <1>1
<1>3. /\ C \in Graphs /\ D \in Graphs
      /\ \A x \in Roles : C[x] = IF x \in present \ V THEN parents[x] \ V ELSE {}
      /\ \A x \in Roles : D[x] = IF x \in present \ W THEN parents[x] \ W ELSE {}
  <2> HIDE DEF W
  <2> QED
    BY <1>1, AvoidingFacts
<1> HIDE DEF C, D
<1>4. /\ A \cup {r} \subseteq X /\ X \in SUBSET Roles /\ \A x \in X : C[x] \subseteq X
  BY <1>2, <1>3, ReachFacts
<1>5. B \subseteq Y /\ Y \in SUBSET Roles /\ \A x \in Y : D[x] \subseteq Y
  <2> HIDE DEF B
  <2> QED
    BY <1>2, <1>3, ReachFacts
<1> HIDE DEF X, Y
<1>6. X \subseteq {r} \cup Y
  <2>1. A \cup {r} \subseteq {r} \cup Y
    BY <1>5
  <2>2. ASSUME NEW x \in {r} \cup Y PROVE C[x] \subseteq {r} \cup Y
    <3>1. CASE x = r
      BY <1>1, <1>3, <1>5, <3>1
    <3>2. CASE x # r
      <4>1. x \in Y /\ x \in Roles /\ D[x] \subseteq Y
        BY <1>5, <3>2
      <4>2. C[x] \subseteq D[x] \cup {r}
        BY <1>3, <3>2, <4>1
      <4> QED
        BY <4>1, <4>2
    <3> QED
      BY <3>1, <3>2
  <2> DEFINE S == A \cup {r}
             T == {r} \cup Y
  <2>3. T \in SUBSET Roles /\ S \subseteq T /\ \A x \in T : C[x] \subseteq T
    BY <1>1, <1>5, <2>1, <2>2
  <2>4. X = Reach(C, S)
    BY DEF X
  <2> HIDE DEF S, T
  <2>5. X \subseteq T
    BY <1>3, <2>3, <2>4, ReachLeast
  <2> QED
    BY <2>5 DEF T
<1>7. Y \subseteq X
  <2>1. B \subseteq X
    <3>1. r \in X /\ C[r] \subseteq X /\ A \subseteq X /\ C[r] = parents[r] \ V
      BY <1>1, <1>3, <1>4
    <3> QED
      BY <3>1
  <2>2. ASSUME NEW x \in X PROVE D[x] \subseteq X
    <3>1. x \in Roles /\ C[x] \subseteq X
      BY <1>4
    <3>2. D[x] \subseteq C[x]
      BY <1>3, <3>1
    <3> QED
      BY <3>1, <3>2
  <2> HIDE DEF B
  <2> QED
    BY <1>3, <1>4, <2>1, <2>2, ReachLeast DEF Y
<1> QED
  BY <1>4, <1>6, <1>7 DEF X, Y, C, D

\* What the walk below r unites, when it avoids the roles of the path.
Gathered(r, V) == IF r \in V THEN {} ELSE Reach(Avoiding(V), {r}) \cap present

\* It unites the role and what is below its parents.
LEMMA GatheredStep ==
    ASSUME GraphType, NEW V \in SUBSET Roles, NEW r \in Roles, r \notin V
    PROVE  Gathered(r, V) = IF r \notin present THEN {}
                         ELSE {r} \cup UNION {Gathered(q, V \cup {r}) : q \in parents[r]}
<1>1. /\ parents[r] \in SUBSET Roles /\ V \cup {r} \in SUBSET Roles
      /\ Avoiding(V) \in Graphs
      /\ Avoiding(V)[r] = IF r \in present \ V THEN parents[r] \ V ELSE {}
  BY LinksFacts, AvoidingFacts
<1>2. CASE r \notin present
  <2>1. Ancestors(Avoiding(V), r) = {}
    BY <1>1, <1>2, ReachEmpty DEF Ancestors
  <2>2. Reach(Avoiding(V), {r}) = {r}
    BY <1>1, <2>1, ReachOne
  <2> QED
    BY <1>2, <2>2 DEF Gathered
<1>3. CASE r \in present
  <2> DEFINE W == V \cup {r}
             B == parents[r] \ W
             D == Avoiding(W)
             A == {}
  <2>1. A \cup {r} = {r} /\ (A \cup parents[r]) \ W = B /\ A \cap V = {} /\ A \in SUBSET Roles
    OBVIOUS
  <2>2. Reach(Avoiding(V), A \cup {r}) = {r} \cup Reach(D, (A \cup parents[r]) \ W)
    <3> HIDE DEF A
    <3>1. A \in SUBSET Roles /\ A \cap V = {} /\ r \notin V /\ r \in present
      BY <1>3, <2>1
    <3>2. \A S \in SUBSET Roles : S \cap V = {} => Reach(Avoiding(V), S \cup {r})
              = {r} \cup Reach(Avoiding(V \cup {r}), (S \cup parents[r]) \ (V \cup {r}))
      BY <3>1, AvoidStep
    <3> QED
      BY <3>1, <3>2
  <2>3. Reach(Avoiding(V), {r}) = {r} \cup Reach(D, B)
    <3> HIDE DEF A, B, D
    <3> QED
      BY <2>1, <2>2
  <2>4. D \in Graphs /\ B \in SUBSET Roles
    BY <1>1, AvoidingFacts
  <2>5. ASSUME NEW x \in Reach(D, B) PROVE \E q \in B : x \in Reach(D, {q})
    <3> HIDE DEF D, B
    <3> QED
      BY <2>4, <2>5, ReachUnion
  <2>6. ASSUME NEW q \in B PROVE Reach(D, {q}) \subseteq Reach(D, B)
    <3> HIDE DEF D, B
    <3>1. B \subseteq Reach(D, B) /\ Reach(D, B) \in SUBSET Roles
          /\ \A x \in Reach(D, B) : D[x] \subseteq Reach(D, B)
      BY <2>4, ReachFacts
    <3>2. {q} \subseteq Reach(D, B)
      BY <3>1
    <3> QED
      BY <2>4, <3>1, <3>2, ReachLeast
  <2>7. \A q \in parents[r] : Gathered(q, W) = IF q \in B THEN Reach(D, {q}) \cap present ELSE {}
    BY DEF Gathered
  <2>8. Gathered(r, V) = {r} \cup (Reach(D, B) \cap present)
    BY <1>3, <2>3 DEF Gathered
  <2>9. Reach(D, B) \cap present = UNION {Gathered(q, W) : q \in parents[r]}
    <3>1. B \subseteq parents[r]
      OBVIOUS
    <3> DEFINE Z == UNION {Gathered(q, W) : q \in parents[r]}
    <3> HIDE DEF B, D, W
    <3>2. ASSUME NEW x \in Reach(D, B), x \in present PROVE x \in Z
      <4>1. PICK q \in B : x \in Reach(D, {q})
        BY <2>5
      <4>2. q \in parents[r] /\ x \in Gathered(q, W)
        BY <2>7, <3>1, <3>2, <4>1
      <4> QED
        BY <4>2
    <3>3. ASSUME NEW x \in Z PROVE x \in Reach(D, B) /\ x \in present
      <4>1. PICK q \in parents[r] : x \in Gathered(q, W)
        OBVIOUS
      <4>2. q \in B /\ x \in Reach(D, {q}) /\ x \in present
        BY <2>7, <4>1
      <4> QED
        BY <2>6, <4>2
    <3> HIDE DEF Z
    <3>4. Reach(D, B) \cap present = Z
      BY <3>2, <3>3
    <3> QED
      BY <3>4 DEF Z
  <2> QED
    BY <1>3, <2>8, <2>9
<1> QED
  BY <1>2, <1>3

\* The walk is given by its equation.
LEMMA EffectiveEquation ==
    ASSUME GraphType, NEW r \in Roles, NEW visiting \in SUBSET Roles
    PROVE  effective[visiting][r] =
              IF r \in visiting THEN [roles |-> {}, cycle |-> TRUE]
              ELSE IF r \notin present THEN [roles |-> {}, cycle |-> FALSE]
              ELSE [roles |-> {r} \cup UNION {effective[visiting \cup {r}][q].roles : q \in parents[r]},
                    cycle |-> \E q \in parents[r] : effective[visiting \cup {r}][q].cycle]
<1> DEFINE one(f, V, x) ==
              IF x \in V THEN [roles |-> {}, cycle |-> TRUE]
              ELSE IF x \notin present THEN [roles |-> {}, cycle |-> FALSE]
              ELSE [roles |-> {x} \cup UNION {f[V \cup {x}][q].roles : q \in parents[x]},
                    cycle |-> \E q \in parents[x] : f[V \cup {x}][q].cycle]
           body(f) == [V \in SUBSET Roles |-> [x \in Roles |-> one(f, V, x)]]
           whole == [V \in SUBSET Roles |-> [x \in Roles |->
                        [roles |-> Gathered(x, V), cycle |-> Meets(x, V)]]]
<1>1. effective = CHOOSE f : f = body(f)
  BY DEF effective
<1>2. whole = body(whole)
  <2>1. ASSUME NEW x \in Roles, NEW V \in SUBSET Roles
        PROVE  [roles |-> Gathered(x, V), cycle |-> Meets(x, V)] = one(whole, V, x)
    <3>1. parents[x] \in SUBSET Roles /\ V \cup {x} \in SUBSET Roles
      BY LinksFacts
    <3>2. \A q \in parents[x] : whole[V \cup {x}][q] =
              [roles |-> Gathered(q, V \cup {x}), cycle |-> Meets(q, V \cup {x})]
      BY <3>1
    <3> HIDE DEF whole
    <3>3. ASSUME NEW q \in parents[x]
          PROVE  /\ whole[V \cup {x}][q].roles = Gathered(q, V \cup {x})
                 /\ whole[V \cup {x}][q].cycle = Meets(q, V \cup {x})
      <4>1. whole[V \cup {x}][q] = [roles |-> Gathered(q, V \cup {x}), cycle |-> Meets(q, V \cup {x})]
        BY <3>2
      <4> QED
        BY <4>1
    <3>4. Meets(x, V) \in BOOLEAN
      BY DEF Meets
    <3>5. CASE x \in V
      <4>1. Gathered(x, V) = {} /\ Meets(x, V) = TRUE
        BY <3>4, <3>5, MeetsStep DEF Gathered
      <4> QED
        BY <3>5, <4>1
    <3>6. CASE x \notin V /\ x \notin present
      <4>1. Gathered(x, V) = {} /\ Meets(x, V) = FALSE
        BY <3>4, <3>6, MeetsStep, GatheredStep
      <4> QED
        BY <3>6, <4>1
    <3>7. CASE x \notin V /\ x \in present
      <4>1. Gathered(x, V) = {x} \cup UNION {Gathered(q, V \cup {x}) : q \in parents[x]}
        BY <3>7, GatheredStep
      <4>2. UNION {Gathered(q, V \cup {x}) : q \in parents[x]}
              = UNION {whole[V \cup {x}][q].roles : q \in parents[x]}
        BY <3>3
      <4>3. Meets(x, V) = \E q \in parents[x] : whole[V \cup {x}][q].cycle
        BY <3>3, <3>4, <3>7, MeetsStep
      <4> QED
        BY <3>7, <4>1, <4>2, <4>3
    <3> QED
      BY <3>5, <3>6, <3>7
  <2>2. ASSUME NEW V \in SUBSET Roles PROVE whole[V] = body(whole)[V]
    <3>1. whole[V] = [x \in Roles |-> [roles |-> Gathered(x, V), cycle |-> Meets(x, V)]]
      OBVIOUS
    <3>2. body(whole)[V] = [x \in Roles |-> one(whole, V, x)]
      OBVIOUS
    <3> HIDE DEF whole, body, one
    <3> QED
      BY <2>1, <3>1, <3>2
  <2> QED
    BY <2>2
<1>3. effective = body(effective)
  <2> HIDE DEF whole, body
  <2> QED
    BY <1>1, <1>2
<1>4. effective[visiting][r] = one(effective, visiting, r)
  <2> HIDE DEF one
  <2> QED
    BY <1>3
<1> QED
  BY <1>4

\* The walk unites what it should and reports what it should, whatever path led
\* to it.
LEMMA EffectiveWalk ==
    ASSUME GraphType, NEW r \in Roles, NEW visiting \in SUBSET Roles
    PROVE  effective[visiting][r] = [roles |-> Gathered(r, visiting), cycle |-> Meets(r, visiting)]
<1> DEFINE ends(x, V) == [roles |-> Gathered(x, V), cycle |-> Meets(x, V)]
           Good(V) == \A x \in Roles : effective[V][x] = ends(x, V)
           F == {V \in SUBSET Roles : ~ Good(V)}
<1>1. ASSUME ~ Good(visiting) PROVE FALSE
  <2>1. F \in SUBSET (SUBSET Roles) /\ F # {}
    <3> HIDE DEF Good
    <3> QED
      BY <1>1
  <2>2. PICK V \in F : \A U \in F : V \subseteq U => U = V
    <3> HIDE DEF F
    <3> QED
      BY <2>1, MaximalSet
  <2>3. ASSUME NEW x \in Roles PROVE effective[V][x] = ends(x, V)
    <3>1. V \in SUBSET Roles /\ V \cup {x} \in SUBSET Roles
      OBVIOUS
    <3>2. Meets(x, V) \in BOOLEAN
      BY DEF Meets
    <3>3. CASE x \in V
      <4>1. Gathered(x, V) = {} /\ Meets(x, V) = TRUE
        BY <3>1, <3>2, <3>3, MeetsStep DEF Gathered
      <4> QED
        BY <3>1, <3>3, <4>1, EffectiveEquation
    <3>4. CASE x \notin V /\ x \notin present
      <4>1. Gathered(x, V) = {} /\ Meets(x, V) = FALSE
        BY <3>1, <3>2, <3>4, MeetsStep, GatheredStep
      <4> QED
        <5>1. effective[V][x] = [roles |-> {}, cycle |-> FALSE]
          BY <3>1, <3>4, EffectiveEquation
        <5> QED
          BY <4>1, <5>1
    <3>5. CASE x \notin V /\ x \in present
      <4>1. Good(V \cup {x})
        <5> HIDE DEF Good
        <5> QED
          BY <2>2, <3>1, <3>5
      <4>2. ASSUME NEW q \in parents[x]
            PROVE  /\ effective[V \cup {x}][q].roles = Gathered(q, V \cup {x})
                   /\ effective[V \cup {x}][q].cycle = Meets(q, V \cup {x})
        <5>1. q \in Roles
          BY LinksFacts
        <5>2. effective[V \cup {x}][q] = ends(q, V \cup {x})
          BY <4>1, <5>1
        <5> QED
          BY <5>2
      <4>3. UNION {Gathered(q, V \cup {x}) : q \in parents[x]}
              = UNION {effective[V \cup {x}][q].roles : q \in parents[x]}
        BY <4>2
      <4>4. Gathered(x, V) = {x} \cup UNION {Gathered(q, V \cup {x}) : q \in parents[x]}
        BY <3>1, <3>5, GatheredStep
      <4>5. Meets(x, V) = \E q \in parents[x] : effective[V \cup {x}][q].cycle
        BY <3>1, <3>2, <3>5, <4>2, MeetsStep
      <4> QED
        <5>1. effective[V][x] =
                [roles |-> {x} \cup UNION {effective[V \cup {x}][q].roles : q \in parents[x]},
                 cycle |-> \E q \in parents[x] : effective[V \cup {x}][q].cycle]
          BY <3>1, <3>5, EffectiveEquation
        <5> QED
          BY <4>3, <4>4, <4>5, <5>1
    <3> QED
      BY <3>3, <3>4, <3>5
  <2> QED
    BY <2>2, <2>3
<1> QED
  BY <1>1

\* Avoiding nothing is following every link.
LEMMA AvoidingNothing ==
    ASSUME GraphType PROVE Avoiding({}) = Links
<1>1. \A r \in Roles : (IF r \in present \ {} THEN parents[r] \ {} ELSE {})
                          = IF r \in present THEN parents[r] ELSE {}
  OBVIOUS
<1> QED
  BY <1>1 DEF Avoiding, Links

\* A permission lookup fails exactly in a cycle and unites what is reachable.
LEMMA EffectiveCorrect == GraphType => EffectiveExact
<1> SUFFICES ASSUME GraphType, NEW r \in Roles
             PROVE  /\ collectEffective(r).cycle <=> detectCycle(Links, r)
                    /\ collectEffective(r).roles = Reach(Links, {r}) \cap present
  BY DEF EffectiveExact
<1>1. collectEffective(r) = [roles |-> Gathered(r, {}), cycle |-> Meets(r, {})]
  BY EffectiveWalk DEF collectEffective
<1>2. collectEffective(r).cycle = Meets(r, {}) /\ collectEffective(r).roles = Gathered(r, {})
  BY <1>1
<1>3. Meets(r, {}) <=> detectCycle(Links, r)
  BY DEF Meets, detectCycle
<1>4. Gathered(r, {}) = Reach(Links, {r}) \cap present
  BY AvoidingNothing DEF Gathered
<1> QED
  BY <1>2, <1>3, <1>4

\* The role a walk over a set of names takes next.
Chosen(todo) == CHOOSE x \in todo : TRUE

\* What the walk ends with: what it has seen, and the existing roles that can be
\* reached without going through that.
Named(seen, todo) == seen \cup (Reach(Avoiding(seen), todo \ seen) \cap present)

\* Nothing is left to be called.
LEMMA NamedEnd ==
    ASSUME GraphType, NEW seen \in SUBSET Roles
    PROVE  Named(seen, {}) = seen
<1>1. Avoiding(seen) \in Graphs
  BY AvoidingFacts
<1>2. {} \ seen = {}
  OBVIOUS
<1> QED
  BY <1>1, <1>2, ReachEmpty DEF Named

\* What the walk ends with when r is called next.
AfterCall(seen, todo, r) ==
    IF r \in seen \/ r \notin present THEN Named(seen, todo \ {r})
    ELSE Named(seen \cup {r}, (todo \ {r}) \cup parents[r])

\* One call of the walk.
LEMMA NamedStep ==
    ASSUME GraphType, NEW seen \in SUBSET Roles, NEW todo \in SUBSET Roles, NEW r \in todo
    PROVE  Named(seen, todo) = AfterCall(seen, todo, r)
<1>1. Avoiding(seen) \in Graphs
  BY AvoidingFacts
<1>3. ASSUME r \in seen PROVE Named(seen, todo) = Named(seen, todo \ {r})
  <2>1. todo \ seen = (todo \ {r}) \ seen
    BY <1>3
  <2> QED
    BY <2>1 DEF Named
<1>4. ASSUME r \notin seen PROVE todo \ seen = ((todo \ {r}) \ seen) \cup {r}
  BY <1>4
<1>5. ASSUME r \notin seen, r \notin present
      PROVE  Named(seen, todo) = Named(seen, todo \ {r})
  <2> DEFINE A == (todo \ {r}) \ seen
  <2>1. A \in SUBSET Roles /\ r \in Roles /\ Avoiding(seen)[r] = {} /\ todo \ seen = A \cup {r}
    BY <1>4, <1>5, AvoidingFacts
  <2>2. Named(seen, todo \ {r}) = seen \cup (Reach(Avoiding(seen), A) \cap present)
    BY DEF Named
  <2>3. Named(seen, todo) = seen \cup (Reach(Avoiding(seen), A \cup {r}) \cap present)
    BY <2>1 DEF Named
  <2> HIDE DEF A
  <2>4. Reach(Avoiding(seen), A \cup {r}) = Reach(Avoiding(seen), A \cup Avoiding(seen)[r]) \cup {r}
    <3> DEFINE g == Avoiding(seen)
    <3>1. g \in Graphs
      BY <1>1
    <3> HIDE DEF g
    <3>2. Reach(g, A \cup {r}) = Reach(g, A \cup g[r]) \cup {r}
      BY <2>1, <3>1, ReachSplit
    <3> QED
      BY <3>2 DEF g
  <2>5. A \cup Avoiding(seen)[r] = A
    BY <2>1
  <2> QED
    BY <1>5, <2>2, <2>3, <2>4, <2>5
<1>6. ASSUME r \notin seen, r \in present
      PROVE  Named(seen, todo) = Named(seen \cup {r}, (todo \ {r}) \cup parents[r])
  <2> DEFINE A == (todo \ {r}) \ seen
             W == seen \cup {r}
             B == (A \cup parents[r]) \ W
  <2>1. A \in SUBSET Roles /\ A \cap seen = {} /\ todo \ seen = A \cup {r}
    BY <1>4, <1>6
  <2>2. ((todo \ {r}) \cup parents[r]) \ W = B
    OBVIOUS
  <2>3. Named(W, (todo \ {r}) \cup parents[r]) = W \cup (Reach(Avoiding(W), B) \cap present)
    <3> HIDE DEF W, B
    <3> QED
      BY <2>2 DEF Named
  <2>4. Named(seen, todo) = seen \cup (Reach(Avoiding(seen), A \cup {r}) \cap present)
    BY <2>1 DEF Named
  <2>5. \A S \in SUBSET Roles : S \cap seen = {} => Reach(Avoiding(seen), S \cup {r})
              = {r} \cup Reach(Avoiding(seen \cup {r}), (S \cup parents[r]) \ (seen \cup {r}))
    BY <1>6, AvoidStep
  <2>6. Reach(Avoiding(seen), A \cup {r}) = {r} \cup Reach(Avoiding(W), B)
    <3> HIDE DEF A
    <3> QED
      BY <2>1, <2>5
  <2>7. W = seen \cup {r}
    OBVIOUS
  <2> HIDE DEF A, B, W
  <2>8. Named(seen, todo) = Named(W, (todo \ {r}) \cup parents[r])
    BY <1>6, <2>3, <2>4, <2>6, <2>7
  <2> QED
    BY <2>8 DEF W
<1> QED
  BY <1>3, <1>5, <1>6 DEF AfterCall

\* The walk is given by its equation.
LEMMA NamesEquation ==
    ASSUME GraphType, NEW seen \in SUBSET Roles, NEW todo \in SUBSET Roles
    PROVE  names[seen][todo] =
              IF todo = {} THEN seen
              ELSE IF Chosen(todo) \in seen \/ Chosen(todo) \notin present
                   THEN names[seen][todo \ {Chosen(todo)}]
                   ELSE names[seen \cup {Chosen(todo)}][(todo \ {Chosen(todo)}) \cup parents[Chosen(todo)]]
<1> DEFINE one(f, S, T) ==
              IF T = {} THEN S
              ELSE IF Chosen(T) \in S \/ Chosen(T) \notin present THEN f[S][T \ {Chosen(T)}]
                   ELSE f[S \cup {Chosen(T)}][(T \ {Chosen(T)}) \cup parents[Chosen(T)]]
           body(f) == [S \in SUBSET Roles |-> [T \in SUBSET Roles |-> one(f, S, T)]]
           whole == [S \in SUBSET Roles |-> [T \in SUBSET Roles |-> Named(S, T)]]
<1>1. names = CHOOSE f : f = body(f)
  BY DEF names, Chosen
<1>2. whole = body(whole)
  <2>1. ASSUME NEW S \in SUBSET Roles, NEW T \in SUBSET Roles PROVE Named(S, T) = one(whole, S, T)
    <3>1. \A U \in SUBSET Roles, X \in SUBSET Roles : whole[U][X] = Named(U, X)
      OBVIOUS
    <3> HIDE DEF whole
    <3>2. CASE T = {}
      BY <3>2, NamedEnd
    <3>3. CASE T # {}
      <4>1. Chosen(T) \in T
        BY <3>3 DEF Chosen
      <4> DEFINE x == Chosen(T)
      <4>2. x \in T /\ x \in Roles
        BY <4>1
      <4> HIDE DEF x
      <4>3. /\ T \ {x} \in SUBSET Roles /\ S \cup {x} \in SUBSET Roles
            /\ (T \ {x}) \cup parents[x] \in SUBSET Roles
        BY <4>2, LinksFacts
      <4>4. Named(S, T) = IF x \in S \/ x \notin present THEN Named(S, T \ {x})
                          ELSE Named(S \cup {x}, (T \ {x}) \cup parents[x])
        <5>1. Named(S, T) = AfterCall(S, T, x)
          BY <4>2, NamedStep
        <5> QED
          BY <5>1 DEF AfterCall
      <4>5. Named(S, T) = IF x \in S \/ x \notin present THEN whole[S][T \ {x}]
                          ELSE whole[S \cup {x}][(T \ {x}) \cup parents[x]]
        BY <3>1, <4>3, <4>4
      <4> QED
        BY <3>3, <4>5 DEF x
    <3> QED
      BY <3>2, <3>3
  <2>2. ASSUME NEW S \in SUBSET Roles PROVE whole[S] = body(whole)[S]
    <3>1. whole[S] = [T \in SUBSET Roles |-> Named(S, T)]
      OBVIOUS
    <3>2. body(whole)[S] = [T \in SUBSET Roles |-> one(whole, S, T)]
      OBVIOUS
    <3> HIDE DEF whole, body, one
    <3> QED
      BY <2>1, <3>1, <3>2
  <2> QED
    BY <2>2
<1>3. names = body(names)
  <2> HIDE DEF whole, body
  <2> QED
    BY <1>1, <1>2
<1>4. names[seen][todo] = one(names, seen, todo)
  <2> HIDE DEF one
  <2> QED
    BY <1>3
<1> QED
  BY <1>4

\* The walk ends with what it should: with a largest set of seen roles for which
\* it does not, and a smallest set of calls to be made, it does after the next call.
LEMMA NamesWalk ==
    ASSUME GraphType, NEW seen \in SUBSET Roles, NEW todo \in SUBSET Roles
    PROVE  names[seen][todo] = Named(seen, todo)
<1> DEFINE Good(S, T) == names[S][T] = Named(S, T)
           F == {S \in SUBSET Roles : \E T \in SUBSET Roles : ~ Good(S, T)}
<1> HIDE DEF Good
<1>1. ASSUME ~ Good(seen, todo) PROVE FALSE
  <2>1. F \in SUBSET (SUBSET Roles) /\ F # {}
    BY <1>1
  <2>2. PICK S \in F : \A U \in F : S \subseteq U => U = S
    <3> HIDE DEF F
    <3> QED
      BY <2>1, MaximalSet
  <2> DEFINE H == {T \in SUBSET Roles : ~ Good(S, T)}
  <2>3. H \in SUBSET (SUBSET Roles) /\ H # {}
    BY <2>2
  <2>4. PICK T \in H : \A U \in H : U \subseteq T => U = T
    <3> HIDE DEF H
    <3> QED
      BY <2>3, MinimalSet
  <2>5. S \in SUBSET Roles /\ T \in SUBSET Roles /\ ~ Good(S, T)
    BY <2>2, <2>4
  <2>6. CASE T = {}
    BY <2>5, <2>6, NamesEquation, NamedEnd DEF Good
  <2>7. CASE T # {}
    <3> DEFINE x == Chosen(T)
    <3>1. x \in T /\ x \in Roles
      BY <2>5, <2>7 DEF Chosen
    <3>2. names[S][T] = IF x \in S \/ x \notin present THEN names[S][T \ {x}]
                        ELSE names[S \cup {x}][(T \ {x}) \cup parents[x]]
      BY <2>5, <2>7, NamesEquation
    <3> HIDE DEF x
    <3>3. Named(S, T) = IF x \in S \/ x \notin present THEN Named(S, T \ {x})
                        ELSE Named(S \cup {x}, (T \ {x}) \cup parents[x])
      <4>1. Named(S, T) = AfterCall(S, T, x)
        BY <2>5, <3>1, NamedStep
      <4> QED
        BY <4>1 DEF AfterCall
    <3>4. /\ T \ {x} \in SUBSET Roles /\ S \cup {x} \in SUBSET Roles
          /\ (T \ {x}) \cup parents[x] \in SUBSET Roles
      BY <2>5, <3>1, LinksFacts
    <3>5. Good(S, T \ {x})
      <4>1. T \ {x} \subseteq T /\ T \ {x} # T
        BY <3>1
      <4> QED
        BY <2>4, <3>4, <4>1
    <3>6. ASSUME x \notin S PROVE Good(S \cup {x}, (T \ {x}) \cup parents[x])
      <4>1. S \subseteq S \cup {x} /\ S \cup {x} # S
        BY <3>6
      <4> QED
        BY <2>2, <3>4, <4>1
    <3> QED
      BY <2>5, <3>2, <3>3, <3>5, <3>6 DEF Good
  <2> QED
    BY <2>6, <2>7
<1> QED
  BY <1>1 DEF Good

\* HasRole's walk collects the existing roles that are reachable.
LEMMA RoleNamesCorrect == GraphType => RoleNamesExact
<1> SUFFICES ASSUME GraphType, NEW r \in Roles
             PROVE  collectRoleNames(r) = Reach(Links, {r}) \cap present
  BY DEF RoleNamesExact
<1>1. collectRoleNames(r) = Named({}, {r})
  BY NamesWalk DEF collectRoleNames
<1>2. {r} \ {} = {r}
  OBVIOUS
<1>3. Named({}, {r}) = Reach(Links, {r}) \cap present
  BY <1>2, AvoidingNothing DEF Named
<1> QED
  BY <1>1, <1>3

\* memoryStore.detectCycle, on every graph: it reports a cycle exactly when one
\* is reachable.
THEOREM SearchIsExact == GraphSpec => []CycleSearchExact
  BY GraphTyped, CycleSearchCorrect, PTL

\* The memory store's search and the SQL store's query refuse the same updates,
\* whatever the hierarchy.
THEOREM SearchesAgree == GraphSpec => []StoresAgree
  BY GraphTyped, StoresCorrect, PTL

\* Enforcer.collectEffective, on every graph: an error exactly when it runs into
\* a cycle, and otherwise the permissions of the roles that are reachable.
THEOREM LookupIsExact == GraphSpec => []EffectiveExact
  BY GraphTyped, EffectiveCorrect, PTL

\* Enforcer.collectRoleNames, on every graph, cyclic ones too: the existing roles
\* that are reachable.
THEOREM NamesAreExact == GraphSpec => []RoleNamesExact
  BY GraphTyped, RoleNamesCorrect, PTL
=============================================================================
