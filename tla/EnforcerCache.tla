---------------------------- MODULE EnforcerCache ----------------------------
(***************************************************************************)
(* The permission cache of one or more enforcers over one policy store:    *)
(* permissionsFor, the mutations with the invalidation that follows them,  *)
(* the invalidation loops, and the three kinds of cache backend.           *)
(*                                                                         *)
(* A lookup takes the enforcer's generation, asks the cache, takes the     *)
(* backend's token for the key, reads the user's roles and then one role   *)
(* after the other, and fills the cache when generation and token are      *)
(* still current.  Every one of those is a step, and mutations of any      *)
(* enforcer commit between them.  A mutation commits to the store, then    *)
(* invalidates its own cache under cacheMu, then publishes an event that   *)
(* the other enforcers apply to theirs.                                    *)
(*                                                                         *)
(* Generations and tokens never become valid again once they are replaced  *)
(* (counters, or random text), so a lookup keeps one Boolean for each: the *)
(* one it took is still the current one.                                   *)
(*                                                                         *)
(* SetRoleMetadata touches no cache and no lookup reads metadata, so it is *)
(* not an action.  The policy version a mutation advances between its      *)
(* commit and its flush, its audit record and its metrics are no state of  *)
(* the cache, and the check of the caller's capability (requireManagement) *)
(* is a lookup that is over before the commit.                             *)
(***************************************************************************)
EXTENDS PolicyData, Sequences

CONSTANTS Enforcers, Caches,
          Deployments,                  \* how they are put together
          Lookups, Mutators, HomeOf,    \* HomeOf[t] : the enforcer thread t calls
          QueueCap,                     \* capacity of a subscriber's channel
          InvalidateFlush,              \* the event that concerns every user
          NoEntry, NoUser, Free,        \* a miss, no user yet, nobody holds cacheMu
          InitStore,
          MaxCommits                    \* bound: mutations

Workers == Mutators \cup Enforcers      \* an enforcer's loop is named after it

\* A deployment: the backend, the cache each enforcer uses, the enforcers with
\* an invalidation loop, the callers that mutate, and how many messages and
\* calls may be lost (a bound).
DeploymentShapes == [kind        : {"memory", "redis", "plain"},
                     cacheOf     : [Enforcers -> Caches],
                     subscribers : SUBSET Enforcers,
                     mutators    : SUBSET Mutators,
                     maxLoss     : Nat]

\* A backend without GenerationCacheBackend protects one enforcer only, so it
\* is not shared.
ASSUME CacheConstantsOK ==
    /\ Deployments \subseteq DeploymentShapes
    /\ \A d \in Deployments : d.kind = "plain" =>
          \A e, f \in Enforcers : d.cacheOf[e] = d.cacheOf[f] => e = f
    /\ HomeOf \in [Lookups \cup Workers -> Enforcers]
    /\ \A e \in Enforcers : HomeOf[e] = e
    /\ Mutators \cap Enforcers = {}
    /\ QueueCap \in Nat \ {0}
    /\ InvalidateFlush \notin Users /\ NoUser \notin Users
    /\ (\A P \in SUBSET Permissions : NoEntry # P) /\ Free \notin Workers
    /\ InitStore \in Stores /\ Acyclic(InitStore.parents)
    /\ ParentsExistIn(InitStore) /\ IndexMatchesIn(InitStore)
    /\ AssignedExistIn(InitStore) /\ NothingLeftBehindIn(InitStore)
    /\ MaxCommits \in Nat

VARIABLES deployment,
          store,     \* the policy data
          entry,     \* cache -> user -> cached permission set, or NoEntry
          cacheMu,   \* enforcer -> the worker that holds cacheMu, or Free
          lookup,    \* lookup thread -> its locals
          worker,    \* worker -> its locals
          queue,     \* enforcer -> events waiting in its channel
          missed,    \* <<cache, user>> whose invalidation was lost or failed
          commits, losses

vars == <<deployment, store, entry, cacheMu, lookup, worker, queue, missed, commits, losses>>

Kind == deployment.kind
CacheOf == deployment.cacheOf
Subscribers == deployment.subscribers
MaxLoss == deployment.maxLoss

(* InvalidationEvent: a flush, or a drop that carries the user's key. *)
Events == Users \cup {InvalidateFlush}

\* The users whose snapshots an event makes stale.
Hits(ev) == IF ev = InvalidateFlush THEN Users ELSE {ev}

\* What is still to be read: a role and the roles on the path to it (visiting).
Items == Roles \X SUBSET Roles

LookupStates ==
    [pc     : {"idle", "get", "token", "roles", "walk", "done"},
     user   : Users \cup {NoUser},
     genOK  : BOOLEAN,              \* cacheGeneration is still the one read
     tokOK  : BOOLEAN,              \* the backend's token is still the one read
     todo   : SUBSET Items,
     opened : SUBSET Items,         \* the role whose parents are read next
     perms  : SUBSET Permissions,   \* collected so far, or the answer
     clean  : BOOLEAN]              \* history: see LookupExact

WorkerStates == [pc   : {"idle", "lock", "delete", "publish"},
                 ev   : Events,          \* what the caches have to be told
                 keys : SUBSET Users]    \* keys still to be deleted

TypeOK ==
    /\ deployment \in Deployments
    /\ store \in Stores
    /\ entry \in [Caches -> [Users -> {NoEntry} \cup SUBSET Permissions]]
    /\ cacheMu \in [Enforcers -> Workers \cup {Free}]
    /\ lookup \in [Lookups -> LookupStates]
    /\ worker \in [Workers -> WorkerStates]
    /\ queue \in [Enforcers -> Seq(Events)]
    /\ \A e \in Enforcers : Len(queue[e]) <= QueueCap
    /\ missed \subseteq Caches \X Users
    /\ commits \in 0 .. MaxCommits /\ losses \in 0 .. MaxLoss

IdleLookup == [pc |-> "idle", user |-> NoUser, genOK |-> FALSE, tokOK |-> FALSE,
               todo |-> {}, opened |-> {}, perms |-> {}, clean |-> FALSE]
IdleWorker == [pc |-> "idle", ev |-> InvalidateFlush, keys |-> {}]

Init == /\ deployment \in Deployments
        /\ store = InitStore
        /\ entry = [c \in Caches |-> [u \in Users |-> NoEntry]]
        /\ cacheMu = [e \in Enforcers |-> Free]
        /\ lookup = [l \in Lookups |-> IdleLookup]
        /\ worker = [w \in Workers |-> IdleWorker]
        /\ queue = [e \in Enforcers |-> << >>]
        /\ missed = {}
        /\ commits = 0 /\ losses = 0

-----------------------------------------------------------------------------
(* The policy a user should see *)

PermissionsOf(s, S) == UNION {s.permissions[r] : r \in Reach(s.parents, S)}

AssignedTo(s, u) == {r \in Roles : s.users[u][r] > 0}

Effective(s, u) == PermissionsOf(s, AssignedTo(s, u))

\* An invalidation of u's snapshot in cache c is on its way, or was lost.
OnItsWay(c, u) ==
    \/ \E w \in Workers :
          \/ /\ worker[w].pc = "lock" /\ u \in Hits(worker[w].ev)
             /\ CacheOf[HomeOf[w]] = c
          \/ /\ worker[w].pc = "delete" /\ u \in worker[w].keys
             /\ CacheOf[HomeOf[w]] = c
          \/ /\ w \in Mutators /\ worker[w].pc # "idle" /\ u \in Hits(worker[w].ev)
             /\ CacheOf[HomeOf[w]] # c
    \/ \E e \in Enforcers : /\ CacheOf[e] = c
                            /\ \E i \in DOMAIN queue[e] : u \in Hits(queue[e][i])
    \/ <<c, u>> \in missed

-----------------------------------------------------------------------------
(* permissionsFor *)

CacheFor(t) == CacheOf[HomeOf[t]]

\* e.cacheMu is held for the read of the generation.
StartLookup(l, u) ==
    /\ lookup[l].pc = "idle"
    /\ cacheMu[HomeOf[l]] = Free
    /\ lookup' = [lookup EXCEPT ![l] =
                    [IdleLookup EXCEPT !.pc = "get", !.user = u, !.genOK = TRUE,
                                       !.clean = ~ OnItsWay(CacheFor(l), u)]]
    /\ UNCHANGED <<deployment, store, entry, cacheMu, worker, queue, missed, commits, losses>>

\* cache.Get: a hit is the answer.  That a Redis error makes an entry a miss as well is
\* left out: the lookup then does what it does after an eviction.
GetCached(l) ==
    /\ lookup[l].pc = "get"
    /\ LET v == entry[CacheFor(l)][lookup[l].user] IN
       lookup' = [lookup EXCEPT ![l] =
                    IF v = NoEntry THEN [@ EXCEPT !.pc = "token"]
                                   ELSE [@ EXCEPT !.pc = "done", !.perms = v]]
    /\ UNCHANGED <<deployment, store, entry, cacheMu, worker, queue, missed, commits, losses>>

\* versioned.Generation; a Redis error (ok = FALSE) disables the fill.
ReadToken(l, ok) ==
    /\ lookup[l].pc = "token"
    /\ ok \/ Kind = "redis"
    /\ lookup' = [lookup EXCEPT ![l].pc = "roles", ![l].tokOK = ok]
    /\ UNCHANGED <<deployment, store, entry, cacheMu, worker, queue, missed, commits, losses>>

\* store.GetRoles
GetRoles(l) ==
    /\ lookup[l].pc = "roles"
    /\ lookup' = [lookup EXCEPT ![l].pc = "walk",
                                ![l].todo = AssignedTo(store, lookup[l].user) \X {{}}]
    /\ UNCHANGED <<deployment, store, entry, cacheMu, worker, queue, missed, commits, losses>>

\* A lookup x that has read the permissions of a role.
Opened(x, item) == [x EXCEPT !.todo = @ \ {item},
                             !.opened = {item},
                             !.perms = @ \cup store.permissions[item[1]]]

\* One store.GetRole of collectEffective.  A role met on its own path is
\* ErrCycleDetected, which ends the lookup.  The SQL store reads permissions and
\* parents with two queries, and mutations may commit between them; in memory
\* there is only one read.  An absent role has neither.
GetRole(l, item) ==
    /\ lookup[l].pc = "walk" /\ lookup[l].opened = {}
    /\ item \in lookup[l].todo
    /\ lookup' = [lookup EXCEPT ![l] = IF item[1] \in item[2] THEN IdleLookup
                                       ELSE Opened(lookup[l], item)]
    /\ UNCHANGED <<deployment, store, entry, cacheMu, worker, queue, missed, commits, losses>>

GetRoleParents(l, item) ==
    /\ lookup[l].pc = "walk"
    /\ item \in lookup[l].opened
    /\ lookup' = [lookup EXCEPT
          ![l].todo = @ \cup (store.parents[item[1]] \X {item[2] \cup {item[1]}}),
          ![l].opened = {}]
    /\ UNCHANGED <<deployment, store, entry, cacheMu, worker, queue, missed, commits, losses>>

\* A store read fails: the error is returned and nothing is cached.
StoreReadFails(l) ==
    /\ lookup[l].pc \in {"roles", "walk"}
    /\ losses < MaxLoss
    /\ losses' = losses + 1
    /\ lookup' = [lookup EXCEPT ![l] = IdleLookup]
    /\ UNCHANGED <<deployment, store, entry, cacheMu, worker, queue, missed, commits>>

\* Mutant: the generation is not compared.
MayFill_NoGeneration(l) == Kind = "plain" \/ lookup[l].tokOK

\* Mutant: the backend's token is not compared.
MayFill_NoToken(l) == lookup[l].genOK

\* The generation under cacheMu is the one read, and so is the backend's token.
MayFill(l) == lookup[l].genOK /\ (Kind = "plain" \/ lookup[l].tokOK)

\* The walk is over: the set is cached if MayFill, and returned either way.  A
\* Redis error (ok = FALSE) loses the fill.
FillAndReturn(l, ok) ==
    /\ lookup[l].pc = "walk"
    /\ lookup[l].todo = {} /\ lookup[l].opened = {}
    /\ cacheMu[HomeOf[l]] = Free
    /\ ok \/ Kind = "redis"
    /\ entry' = IF MayFill(l) /\ ok
                THEN [entry EXCEPT ![CacheFor(l)][lookup[l].user] = lookup[l].perms]
                ELSE entry
    /\ lookup' = [lookup EXCEPT ![l].pc = "done"]
    /\ UNCHANGED <<deployment, store, cacheMu, worker, queue, missed, commits, losses>>

\* The caller has the answer.
FinishLookup(l) ==
    /\ lookup[l].pc = "done"
    /\ lookup' = [lookup EXCEPT ![l] = IdleLookup]
    /\ UNCHANGED <<deployment, store, entry, cacheMu, worker, queue, missed, commits, losses>>

-----------------------------------------------------------------------------
(* Mutations: the store commits, then the caches are told *)

\* A caller that is not in a mutation may start one.
MayMutate(m) == /\ worker[m].pc = "idle" /\ commits < MaxCommits
                /\ m \in deployment.mutators

\* The store operation succeeded; the caches still have to learn about it.
Committed(m, newStore, ev) ==
    /\ commits' = commits + 1
    /\ store' = newStore
    /\ worker' = [worker EXCEPT ![m].pc = "lock", ![m].ev = ev]
    /\ lookup' = [l \in Lookups |-> [lookup[l] EXCEPT !.clean = FALSE]]
    /\ UNCHANGED <<deployment, entry, cacheMu, queue, missed, losses>>

RegisterRole(m, role) ==
    /\ MayMutate(m)
    /\ AddRoleOK(store, role)
    /\ Committed(m, AddRoleDo(store, role), InvalidateFlush)

UpdateRole(m, role) ==
    /\ MayMutate(m)
    /\ UpdateRoleOK(store, role)
    /\ Committed(m, UpdateRoleDo(store, role), InvalidateFlush)

DeleteRole(m, name) ==
    /\ MayMutate(m)
    /\ DeleteRoleOK(store, name)
    /\ Committed(m, DeleteRoleDo(store, name), InvalidateFlush)

AssignRole(m, u, name) ==
    /\ MayMutate(m)
    /\ AssignRoleOK(store, u, name)
    /\ Committed(m, AssignRoleDo(store, u, name), u)

UnassignRole(m, u, name) ==
    /\ MayMutate(m)
    /\ UnassignRoleOK(store, u, name)
    /\ Committed(m, UnassignRoleDo(store, u, name), u)

SetRoleRules(m, name, rules) ==
    /\ MayMutate(m)
    /\ SetRoleRulesOK(store, name, rules)
    /\ Committed(m, SetRoleRulesDo(store, name, rules), InvalidateFlush)

\* ApplyPolicyBatch with an update and a new assignment, committed at once.
ApplyPolicyBatch(m, role, u, name) ==
    /\ MayMutate(m)
    /\ UpdateRoleOK(store, role)
    /\ AssignRoleOK(store, u, name)
    /\ Committed(m, AssignRoleDo(UpdateRoleDo(store, role), u, name), InvalidateFlush)

\* flushCache and dropCacheKey take cacheMu and advance the generation before
\* they touch the cache.
LockCache(w) ==
    LET e == HomeOf[w] IN
    /\ worker[w].pc = "lock"
    /\ cacheMu[e] = Free
    /\ cacheMu' = [cacheMu EXCEPT ![e] = w]
    /\ worker' = [worker EXCEPT ![w].pc = "delete", ![w].keys = Hits(worker[w].ev)]
    /\ lookup' = [l \in Lookups |-> IF HomeOf[l] = e THEN [lookup[l] EXCEPT !.genOK = FALSE]
                                                     ELSE lookup[l]]
    /\ UNCHANGED <<deployment, store, entry, queue, missed, commits, losses>>

\* Mutant: a deleted key keeps its token.
TokensDropped_Kept(c, K) == lookup

\* What deleting the keys K of cache c does to the tokens lookups hold: the LRU
\* has one counter for all keys, Redis one token in each key's hash.
TokensDropped(c, K) ==
    [l \in Lookups |->
        IF CacheFor(l) = c /\ (Kind = "memory" \/ lookup[l].user \in K)
        THEN [lookup[l] EXCEPT !.tokOK = FALSE] ELSE lookup[l]]

KeysDropped(c, K) ==
    [entry EXCEPT ![c] = [u \in Users |-> IF u \in K THEN NoEntry ELSE @[u]]]

\* The worker's next step once its keys are gone: a loop is done, a mutation
\* publishes.
Invalidated(w) == IF w \in Mutators THEN [worker[w] EXCEPT !.pc = "publish", !.keys = {}]
                                    ELSE IdleWorker

\* cache.Delete or cache.Flush.  In memory all keys go in one step under the
\* backend's lock; on Redis a flush is a scan that deletes a few at a time.
DeleteKeys(w, K) ==
    LET e == HomeOf[w]
        rest == worker[w].keys \ K IN
    /\ worker[w].pc = "delete"
    /\ K \subseteq worker[w].keys
    /\ IF Kind = "redis" THEN K # {} ELSE rest = {}
    /\ entry' = KeysDropped(CacheOf[e], K)
    /\ lookup' = TokensDropped(CacheOf[e], K)
    /\ missed' = missed \ ({CacheOf[e]} \X K)
    /\ IF rest = {}
       THEN /\ cacheMu' = [cacheMu EXCEPT ![e] = Free]
            /\ worker' = [worker EXCEPT ![w] = Invalidated(w)]
       ELSE /\ worker' = [worker EXCEPT ![w].keys = rest]
            /\ UNCHANGED cacheMu
    /\ UNCHANGED <<deployment, store, queue, commits, losses>>

\* A Redis call of the scan or the delete fails: the rest of the keys stay, the
\* error is counted or ignored, and the mutation goes on.
DeleteFails(w) ==
    LET e == HomeOf[w] IN
    /\ Kind = "redis"
    /\ worker[w].pc = "delete"
    /\ losses < MaxLoss
    /\ losses' = losses + 1
    /\ missed' = missed \cup ({CacheOf[e]} \X worker[w].keys)
    /\ cacheMu' = [cacheMu EXCEPT ![e] = Free]
    /\ worker' = [worker EXCEPT ![w] = Invalidated(w)]
    /\ UNCHANGED <<deployment, store, entry, lookup, queue, commits>>

-----------------------------------------------------------------------------
(* The invalidator *)

\* broadcastLocked on one channel: a flush that finds it full replaces what is
\* waiting, a drop that finds it full is discarded.
Full(q) == Len(q) >= QueueCap

Offer(q, ev) == IF ~ Full(q) THEN Append(q, ev)
                ELSE IF ev = InvalidateFlush THEN <<ev>> ELSE q

Taken(q, ev) == ~ Full(q) \/ ev = InvalidateFlush

\* The event reaches the channels of the subscribers in R; the caches it reaches
\* through none of them have missed it.  The publisher has done its own cache.
Publish(m, R) ==
    LET ev == worker[m].ev
        reached == {CacheOf[e] : e \in {f \in R : Taken(queue[f], ev)}}
        untold == Caches \ (reached \cup {CacheOf[HomeOf[m]]}) IN
    /\ m \in Mutators /\ worker[m].pc = "publish"
    /\ queue' = [e \in Enforcers |-> IF e \in R THEN Offer(queue[e], ev) ELSE queue[e]]
    /\ missed' = missed \cup (untold \X Hits(ev))
    /\ worker' = [worker EXCEPT ![m] = IdleWorker]
    /\ UNCHANGED <<deployment, store, entry, cacheMu, lookup, commits>>

PublishAll(m) == Publish(m, Subscribers) /\ UNCHANGED losses

\* The publish fails, or the connection of some subscribers is down.
PublishSome(m, R) ==
    /\ R # Subscribers
    /\ losses < MaxLoss /\ losses' = losses + 1
    /\ Publish(m, R)

\* The process of a mutation ends after the commit and before everybody is told.
MutatorDies(m) ==
    /\ worker[m].pc # "idle"
    /\ losses < MaxLoss /\ losses' = losses + 1
    /\ missed' = missed \cup (Caches \X Hits(worker[m].ev))
    /\ cacheMu' = [e \in Enforcers |-> IF cacheMu[e] = m THEN Free ELSE cacheMu[e]]
    /\ worker' = [worker EXCEPT ![m] = IdleWorker]
    /\ UNCHANGED <<deployment, store, entry, lookup, queue, commits>>

\* invalidationLoop receives an event and applies it.
ReceiveEvent(e) ==
    /\ e \in Subscribers
    /\ worker[e].pc = "idle"
    /\ queue[e] # << >>
    /\ worker' = [worker EXCEPT ![e].pc = "lock", ![e].ev = Head(queue[e])]
    /\ queue' = [queue EXCEPT ![e] = Tail(@)]
    /\ UNCHANGED <<deployment, store, entry, cacheMu, lookup, missed, commits, losses>>

\* Mutant: the expiry time of an entry is never looked at.
Forget_NoExpiry(c, u) == FALSE

\* An entry leaves the cache because its TTL is over or the LRU is full.  In
\* memory the counter stays; on Redis the key's token goes with it.
Forget(c, u) ==
    /\ entry[c][u] # NoEntry
    /\ entry' = [entry EXCEPT ![c][u] = NoEntry]
    /\ lookup' = IF Kind = "redis" THEN TokensDropped(c, {u}) ELSE lookup
    /\ missed' = IF Kind = "redis" THEN missed \ {<<c, u>>} ELSE missed
    /\ UNCHANGED <<deployment, store, cacheMu, worker, queue, commits, losses>>

-----------------------------------------------------------------------------

LookupStep(l) == \/ GetCached(l)
                 \/ \E ok \in BOOLEAN : ReadToken(l, ok)
                 \/ GetRoles(l)
                 \/ \E item \in lookup[l].todo : GetRole(l, item)
                 \/ \E item \in lookup[l].opened : GetRoleParents(l, item)
                 \/ \E ok \in BOOLEAN : FillAndReturn(l, ok)
                 \/ FinishLookup(l)

Mutate(m) ==
    \/ \E role \in RoleSpecs : RegisterRole(m, role) \/ UpdateRole(m, role)
    \/ \E name \in Roles : DeleteRole(m, name)
    \/ \E u \in Users, name \in Roles : AssignRole(m, u, name) \/ UnassignRole(m, u, name)
    \/ \E name \in Roles, rules \in RuleLists : SetRoleRules(m, name, rules)
    \/ \E role \in RoleSpecs, u \in Users, name \in Roles : ApplyPolicyBatch(m, role, u, name)

Invalidate(w) == \/ LockCache(w)
                 \/ \E K \in SUBSET worker[w].keys : DeleteKeys(w, K)

Next == \/ \E l \in Lookups : \/ \E u \in Users : StartLookup(l, u)
                              \/ LookupStep(l)
                              \/ StoreReadFails(l)
        \/ \E m \in Mutators : \/ Mutate(m)
                               \/ PublishAll(m)
                               \/ MutatorDies(m)
                               \/ \E R \in SUBSET Subscribers : PublishSome(m, R)
        \/ \E w \in Workers : Invalidate(w) \/ DeleteFails(w)
        \/ \E e \in Enforcers : ReceiveEvent(e)
        \/ \E c \in Caches, u \in Users : Forget(c, u)

Spec == Init /\ [][Next]_vars

\* Goroutines are scheduled: a lookup that started, a mutation that committed
\* and a loop with an event go on.  Nothing makes a caller start either.
Fairness == /\ \A l \in Lookups : WF_vars(LookupStep(l))
            /\ \A w \in Workers : WF_vars(Invalidate(w))
            /\ \A m \in Mutators : WF_vars(PublishAll(m))
            /\ \A e \in Enforcers : WF_vars(ReceiveEvent(e))

\* Entries have a TTL.  It is needed, and assumed, only for an entry whose
\* invalidation was lost.
ExpireMissed(c, u) == <<c, u>> \in missed /\ Forget(c, u)
Expiry == \A c \in Caches, u \in Users : WF_vars(ExpireMissed(c, u))

FairSpec == Spec /\ Fairness /\ Expiry

-----------------------------------------------------------------------------
(* Correctness *)

\* A cached permission set is the user's current one unless an invalidation of
\* it is still on its way (between commit and delete, in a channel, in a loop)
\* or was lost.  In particular no slow lookup puts an old set back after the
\* invalidation went by.
CacheFresh ==
    \A c \in Caches, u \in Users :
        \/ entry[c][u] \in {NoEntry, Effective(store, u)}
        \/ OnItsWay(c, u)

LeftToRead(l) == {i[1] : i \in lookup[l].todo}
                    \cup UNION {store.parents[i[1]] : i \in lookup[l].opened}

\* What makes CacheFresh inductive: a lookup that may still fill has collected,
\* with what the roles left to read will add, the current set.
LookupCurrent ==
    \A l \in Lookups :
        LET u == lookup[l].user IN
        lookup[l].pc = "walk" /\ MayFill(l) =>
            \/ lookup[l].perms \cup PermissionsOf(store, LeftToRead(l)) = Effective(store, u)
            \/ OnItsWay(CacheFor(l), u)

\* A decision is exact when nothing happened around it: if no invalidation of
\* the user was outstanding for the cache when the lookup started and no
\* mutation committed while it ran, it answers with the current permissions.
\* A caller whose mutation returned sees its effect at its own enforcer.
LookupExact ==
    \A l \in Lookups :
        lookup[l].pc = "done" /\ lookup[l].clean =>
            lookup[l].perms = Effective(store, lookup[l].user)

AllFresh == \A c \in Caches, u \in Users :
                entry[c][u] \in {NoEntry, Effective(store, u)}

\* Once mutations stop, every cache becomes and stays fresh: through the events
\* alone where none was lost, and through the TTL where one was.
EventuallyFresh == <>[]AllFresh
=============================================================================
