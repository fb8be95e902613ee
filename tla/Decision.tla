------------------------------- MODULE Decision -------------------------------
(***************************************************************************)
(* EnforceCtx and the management calls that start with it.  A decision is  *)
(* not a snapshot: it reads the user's roles, walks the hierarchy for the  *)
(* permissions, reads the roles again, walks again for the names, and then *)
(* reads the rules of one role after another, while other callers commit   *)
(* changes.  A management call is the decision about the capability to     *)
(* manage roles, followed by one store operation.  The enforcer is one     *)
(* with WithPolicyRules; without it a decision ends after its first walk.  *)
(*                                                                         *)
(* Every decision here is about one permission.  A rule list is the set of *)
(* the effects its rules have on it: "allow" when an allow rule matches,   *)
(* "deny" when a deny rule matches or cannot be ruled out (RuleConditions  *)
(* says when).  A read of the store is atomic, as it is in memory.         *)
(*                                                                         *)
(* The callers share one enforcer, with its default cache, an LRU of       *)
(* permission sets, or with none; names and rules are never cached.  An    *)
(* invalidation that follows a commit may come late or, when it is for     *)
(* another process, never.  EnforcerCache is about the other backends and  *)
(* about how flushes and events travel.                                    *)
(***************************************************************************)
EXTENDS PolicyData

CONSTANTS Callers,
          Manage,       \* the permission that is decided about
          Settings      \* with a cache or not, and the bounds

Effects == {"allow", "deny"}

SettingShapes ==
    [cached      : BOOLEAN,               \* the enforcer has its default cache, or none
     rules       : SUBSET RuleLists,      \* bound: what the rules of a role may become
     permissions : SUBSET Permissions,    \* bound: and its permissions
     batch       : 1..2,                  \* bound: elements in one batch
     overlap     : Nat]                   \* bound: commits of others while a call runs

ASSUME DecisionConstantsOK == /\ Manage \in Permissions
                              /\ RuleLists \subseteq SUBSET Effects
                              /\ Settings \subseteq SettingShapes

VARIABLES setting,
          store,
          cache,   \* what the cached permission set of each user says
          behind,  \* history: users with a commit that no invalidation has followed
          call     \* what each caller has read so far, and what was true meanwhile

vars == <<setting, store, cache, behind, call>>

Cached == setting.cached

\* What a decision about user u depends on.
Policies == [assigned : SUBSET Roles, parents : Graphs,
             deny : SUBSET Roles, grant : SUBSET Roles]

PolicyOf(s, u) == [assigned |-> {r \in Roles : s.users[u][r] > 0},
                   parents  |-> s.parents,
                   deny     |-> {r \in Roles : "deny" \in s.rules[r]},
                   grant    |-> {r \in Roles : \/ Manage \in s.permissions[r]
                                               \/ "allow" \in s.rules[r]}]

\* What two policies have in common, and what either has.
Meet(p, q) == [assigned |-> p.assigned \cap q.assigned,
               parents  |-> [r \in Roles |-> p.parents[r] \cap q.parents[r]],
               deny     |-> p.deny \cap q.deny,
               grant    |-> p.grant \cap q.grant]

Join(p, q) == [assigned |-> p.assigned \cup q.assigned,
               parents  |-> [r \in Roles |-> p.parents[r] \cup q.parents[r]],
               deny     |-> p.deny \cup q.deny,
               grant    |-> p.grant \cup q.grant]

CallStates ==
    [pc      : {"missed", "effective", "permitted", "names", "rules", "allowed", "committed"},
     user    : Users,
     paths   : SUBSET (Roles \X SUBSET Roles),   \* roles to visit, each with its path
     todo    : SUBSET Roles,
     seen    : SUBSET Roles,
     granted : BOOLEAN,
     fills   : BOOLEAN,          \* the generation is still the one this lookup read
     late    : BOOLEAN,          \* history: a hit, while the user was behind
     drops   : SUBSET Users,     \* whose sets a committed call still has to drop
     held    : Policies,         \* history: what was true all through the call
     ever    : Policies,         \* history: what was true at some time of the call
     overlap : Nat]

NoCall == [pc |-> "idle"]

\* No set, one with the permission, one without it.
Entries == {"none", "with", "without"}

TypeOK == /\ setting \in Settings
          /\ store \in Stores
          /\ cache \in [Users -> Entries]
          /\ behind \in SUBSET Users
          /\ call \in [Callers -> CallStates \cup {NoCall}]

Init == /\ setting \in Settings
        /\ store = NewMemoryStore
        /\ cache = [u \in Users |-> "none"]
        /\ behind = {}
        /\ call = [c \in Callers |-> NoCall]

In(c, phase) == call[c].pc = phase

Assigned(u) == PolicyOf(store, u).assigned

-----------------------------------------------------------------------------
(* permissionsFor: the permissions *)

\* The call starts with permissionsFor: the generation, and cache.Get.  A hit is
\* the set some earlier lookup computed, and no role is read.
Start(c, u) ==
    /\ In(c, "idle")
    /\ LET hit == cache[u] # "none"
       IN  call' = [call EXCEPT ![c] =
             [pc |-> IF hit THEN "permitted" ELSE "missed", user |-> u,
              paths |-> {}, todo |-> {}, seen |-> {}, granted |-> cache[u] = "with",
              fills |-> ~ hit, late |-> hit /\ u \in behind, drops |-> {},
              held |-> PolicyOf(store, u), ever |-> PolicyOf(store, u), overlap |-> 0]]
    /\ UNCHANGED <<setting, store, cache, behind>>

\* After a miss, the first GetRoles.
GetRoles(c) ==
    /\ In(c, "missed")
    /\ call' = [call EXCEPT ![c].pc = "effective",
                            ![c].paths = Assigned(call[c].user) \X {{}}]
    /\ UNCHANGED <<setting, store, cache, behind>>

\* The call ends with an error, which is a denial.
Error(c) == call' = [call EXCEPT ![c] = NoCall]

\* matchPermission, on the one permission of interest.
matchPermission(permissions) == Manage \in permissions

\* One GetRole of collectEffective.  A role on its own path is ErrCycleDetected.
VisitRole(c, r, path) ==
    /\ In(c, "effective")
    /\ <<r, path>> \in call[c].paths
    /\ IF r \in path THEN Error(c)
       ELSE call' = [call EXCEPT
              ![c].paths = (@ \ {<<r, path>>}) \cup (store.parents[r] \X {path \cup {r}}),
              ![c].granted = @ \/ matchPermission(store.permissions[r])]
    /\ UNCHANGED <<setting, store, cache, behind>>

\* What the cache keeps of a set that grants the permission or not.
Entry(granted) == IF granted THEN "with" ELSE "without"

\* Mutant: the set is stored although the generation has changed.
Fill_AnyGeneration(c) ==
    /\ In(c, "effective") /\ call[c].paths = {}
    /\ cache' = [cache EXCEPT ![call[c].user] = Entry(call[c].granted)]
    /\ call' = [call EXCEPT ![c].pc = "permitted", ![c].fills = FALSE]
    /\ UNCHANGED <<setting, store, behind>>

\* The walk is done: the set is stored unless the cache was invalidated meanwhile,
\* and used in any case.
Fill(c) ==
    /\ In(c, "effective") /\ call[c].paths = {}
    /\ cache' = IF Cached /\ call[c].fills
                THEN [cache EXCEPT ![call[c].user] = Entry(call[c].granted)] ELSE cache
    /\ call' = [call EXCEPT ![c].pc = "permitted", ![c].fills = FALSE]
    /\ UNCHANGED <<setting, store, behind>>

-----------------------------------------------------------------------------
(* evaluateRules: the names, then the rules *)

\* The second GetRoles.
GetNames(c) ==
    /\ In(c, "permitted")
    /\ call' = [call EXCEPT ![c].pc = "names", ![c].todo = Assigned(call[c].user)]
    /\ UNCHANGED <<setting, store, cache, behind>>

\* One GetRole of collectRoleNames; an absent role is skipped, a known one is
\* not expanded again.
CollectName(c, r) ==
    /\ In(c, "names") /\ r \in call[c].todo
    /\ call' = [call EXCEPT
          ![c].todo = (@ \ {r}) \cup (store.parents[r] \ (call[c].seen \cup {r})),
          ![c].seen = IF r \in store.roles THEN @ \cup {r} ELSE @]
    /\ UNCHANGED <<setting, store, cache, behind>>

NamesCollected(c) ==
    /\ In(c, "names") /\ call[c].todo = {}
    /\ call' = [call EXCEPT ![c].pc = "rules", ![c].todo = call[c].seen]
    /\ UNCHANGED <<setting, store, cache, behind>>

\* Mutant: the first role that allows ends the loop.
ReadRules_FirstAllow(c, r) ==
    /\ In(c, "rules") /\ r \in call[c].todo
    /\ IF r \notin store.roles \/ "deny" \in store.rules[r] THEN Error(c)
       ELSE call' = [call EXCEPT ![c].todo = IF "allow" \in store.rules[r] THEN {} ELSE @ \ {r},
                                 ![c].granted = @ \/ "allow" \in store.rules[r]]
    /\ UNCHANGED <<setting, store, cache, behind>>

\* GetRoleRules of one role, in the order of a Go map.  A role that was deleted
\* meanwhile is an error, a deny ends the decision, an allow is remembered.
ReadRules(c, r) ==
    /\ In(c, "rules") /\ r \in call[c].todo
    /\ IF r \notin store.roles \/ "deny" \in store.rules[r] THEN Error(c)
       ELSE call' = [call EXCEPT ![c].todo = @ \ {r},
                                 ![c].granted = @ \/ "allow" \in store.rules[r]]
    /\ UNCHANGED <<setting, store, cache, behind>>

\* Every role is evaluated: allowed, or ErrPermissionDenied.
Decided(c) ==
    /\ In(c, "rules") /\ call[c].todo = {}
    /\ IF call[c].granted THEN call' = [call EXCEPT ![c].pc = "allowed"] ELSE Error(c)
    /\ UNCHANGED <<setting, store, cache, behind>>

\* Any store read may fail.
ReadFails(c) == /\ call[c].pc \in {"missed", "effective", "permitted", "names", "rules"}
                /\ Error(c)
                /\ UNCHANGED <<setting, store, cache, behind>>

-----------------------------------------------------------------------------
(* The operation of a management call, and those of others *)

\* The roles that are registered, or what they are updated to.
Specs == {role \in RoleSpecs : role.permissions \subseteq setting.permissions}

\* The stores that one element of a batch can leave; phases in applyBatch's order.
\* Metadata, the phase between rules and unassignments, has no part in decisions.
Element(phase, s) ==
    CASE phase = 1 -> {AddRoleDo(s, role) : role \in {x \in Specs : AddRoleOK(s, x)}}
      [] phase = 2 -> {UpdateRoleDo(s, role) : role \in {x \in Specs : UpdateRoleOK(s, x)}}
      [] phase = 3 -> {SetRoleRulesDo(s, r, rules) : r \in s.roles,
                                                  rules \in RuleLists \cap setting.rules}
      [] phase = 4 -> {UnassignRoleDo(s, u, r) : u \in Users, r \in s.roles}
      [] phase = 5 -> {AssignRoleDo(s, u, r) : u \in Users, r \in s.roles}
      [] phase = 6 -> {DeleteRoleDo(s, r) : r \in {x \in Roles : DeleteRoleOK(s, x)}}

\* Batches of one element, which are the other operations too.
Singles(s) == UNION {Element(p, s) : p \in 1..6}

\* An element of phase p, and then one of the same phase or a later one.
Pairs(p, s) == UNION {UNION {Element(q, t) : q \in p..6} : t \in Element(p, s)}

Doubles(s) == UNION {Pairs(p, s) : p \in 1..6}

Batches(s) == IF setting.batch = 1 THEN Singles(s) ELSE Singles(s) \cup Doubles(s)

Assignments(s, u) == {AssignRoleDo(s, u, r) : r \in s.roles} \cup
                     {UnassignRoleDo(s, u, r) : r \in s.roles}

\* What a call can commit, and whose cached sets it then drops: an assignment those
\* of its user, everything else, batches included, those of all.
Commits(s) ==
    [to : Batches(s), drops : {Users}] \cup
    UNION {[to : Assignments(s, u), drops : {{u}}] : u \in Users}

Running(d) == call[d].pc \notin {"idle", "committed"}

\* The call of d, after a commit by somebody else has made the store s.
Overtaken(d, s) ==
    IF ~ Running(d) THEN call[d]
    ELSE [call[d] EXCEPT !.held = Meet(@, PolicyOf(s, call[d].user)),
                         !.ever = Join(@, PolicyOf(s, call[d].user)),
                         !.overlap = @ + 1]

MayOvertake(D) == \A d \in D : Running(d) => call[d].overlap < setting.overlap

\* The store changes as k says.
Commit(k) == /\ k.to # store
             /\ store' = k.to
             /\ behind' = IF Cached THEN behind \cup k.drops ELSE behind
             /\ UNCHANGED <<setting, cache>>

\* The decision was TRUE: the management call changes the store.
Manages(c) ==
    /\ In(c, "allowed")
    /\ MayOvertake(Callers \ {c})
    /\ \E k \in Commits(store) :
          /\ Commit(k)
          /\ call' = [d \in Callers |->
                         IF d = c THEN [call[c] EXCEPT !.pc = "committed", !.drops = k.drops]
                         ELSE Overtaken(d, k.to)]

\* The decision of Enforce, or a management call whose operation fails.
Return(c) == /\ In(c, "allowed")
             /\ call' = [call EXCEPT ![c] = NoCall]
             /\ UNCHANGED <<setting, store, cache, behind>>

\* Another process, or a trusted provisioning call, changes the store.
Provision == /\ MayOvertake(Callers)
             /\ \E k \in Commits(store) :
                   /\ Commit(k)
                   /\ call' = [d \in Callers |-> Overtaken(d, k.to)]

-----------------------------------------------------------------------------
(* The cache *)

\* The next generation: the lookup x may not store what it finds.
Outdated(x) == IF x.pc \in {"missed", "effective"} THEN [x EXCEPT !.fills = FALSE] ELSE x

\* flushCache, or dropCache for one user.
Drop(U) == /\ cache' = [u \in Users |-> IF u \in U THEN "none" ELSE cache[u]]
           /\ behind' = behind \ U
           /\ UNCHANGED <<setting, store>>

\* A management call drops what its commit made old, and returns.
Invalidates(c) ==
    /\ In(c, "committed")
    /\ Drop(call[c].drops)
    /\ call' = [d \in Callers |-> IF d = c THEN NoCall ELSE Outdated(call[d])]

\* invalidationLoop, or a provisioning call of this process: a flush or a drop,
\* for a commit of any time before.  Nothing says that it comes.
ApplyEvent == /\ Cached
              /\ \E U \in {Users} \cup {{u} : u \in Users} : Drop(U)
              /\ call' = [d \in Callers |-> Outdated(call[d])]

\* The TTL or the LRU's limit ends an entry; the generation stays.
Evict(u) == /\ cache[u] # "none"
            /\ cache' = [cache EXCEPT ![u] = "none"]
            /\ UNCHANGED <<setting, store, behind, call>>

Next == \/ \E c \in Callers :
              \/ \E u \in Users : Start(c, u)
              \/ \E r \in Roles, path \in SUBSET Roles : VisitRole(c, r, path)
              \/ GetRoles(c) \/ Fill(c) \/ GetNames(c)
              \/ \E r \in Roles : CollectName(c, r) \/ ReadRules(c, r)
              \/ NamesCollected(c) \/ Decided(c) \/ ReadFails(c)
              \/ Manages(c) \/ Return(c) \/ Invalidates(c)
        \/ Provision \/ ApplyEvent
        \/ \E u \in Users : Evict(u)

Spec == Init /\ [][Next]_vars

-----------------------------------------------------------------------------

Inherited(p) == Reach(p.parents, p.assigned)

\* A deny cannot be raced: when an assignment, the links from it and a deny rule
\* at their end were all there from the call's first read to its decision, then
\* no change of anything else meanwhile makes EnforceCtx return TRUE.
DenyHolds == \A c \in Callers : In(c, "allowed") =>
                 Inherited(call[c].held) \cap call[c].held.deny = {}

\* Nothing is allowed, and no management call commits, out of nowhere: the chain
\* from the user to a permission or an allow rule consists of assignments, links
\* and grants that each existed at some time of the call.  So a revocation is
\* final for every call that starts after the cache was invalidated for it, and
\* for every call that misses the cache.  A hit before that, as when the event was
\* lost, may allow what was revoked: revocation is not instantaneous.
AllowGrounded == \A c \in Callers :
    call[c].pc \in {"allowed", "committed"} /\ ~ call[c].late =>
        Inherited(call[c].ever) \cap call[c].ever.grant # {}
=============================================================================
