# A TLA+ model of rbacgo

rbacgo is a Go library for role-based access control: roles with permissions and
parents, users with roles, a decision `Enforce(user, resource, action)`, stores in
memory and in SQL databases, a permission cache per process or in Redis,
invalidation between processes, and a registry of enforcers per tenant. This
directory models the parts whose correctness depends on the order of steps, checks
them with TLC and proves with TLAPS every safety property that a passing run checks.
`PROJECT.json` is the index: which definition models which lines, which run checks
which property, which mutation of the model breaks it, and the hazards the properties
are for.

## The system

| Component | State | Operations | Interacts with |
| --- | --- | --- | --- |
| memory store (`memory_store.go`, `memory_extensions.go`, `batch.go`) | maps of roles, users' role lists, a membership index, rules, metadata, one RWMutex | Add/Update/DeleteRole, Assign/UnassignRole, SetRoleRules, SetRoleMetadata, ApplyPolicyBatch | called by enforcers |
| SQL store (`sqlstore.go`, `sql_extensions.go`) | six tables and a meta table | the same, each in a transaction | several pools and processes over one database |
| enforcer (`enforcer.go`) | cache, cacheMu, cacheGeneration, policy version, shutdown flag | lookups, mutations, flush, drop | store, cache backend, invalidator |
| cache backends (`cache.go`, `redis_cache.go`) | entries with expiry, generation tokens | Get, Generation, SetIfGeneration, Delete, Flush | private to an enforcer, or shared through Redis |
| Redis invalidator (`invalidation.go`) | subscriber channels of 64 events, ready flag | Publish, broadcast, reconnect, Close | every enforcer of every process |
| tenant registry (`registry.go`, `shutdown.go`) | cache of entries, the set of all entries, leases | Acquire, release, Evict, PruneIdle, Clear, ClearAndClose, Shutdown | factories, closers, HTTP middleware |
| policy rules (`policy.go`) | rule lists per role | evaluation per call | store |
| audit and metrics (`observability.go`) | a file, counters | Emit, recordMutation, recordDecision | enforcer |
| policy version (`enforcer.go`, `redis_policy_version.go`, `sqlstore.go`) | a counter per enforcer, a shared counter | bump after a mutation, read by PermissionView | frontends |
| management API (`admin.go`, `enforcer.go`) | none | a decision, then a mutation | enforcer, store |
| adapters (`http/`, `gin/`, `echo/`, `fiber/`) | the lease of a request | middleware | enforcer, registry |

What makes the parts correct, and hard:

* The store is sequential, but long sequences of legal calls matter: the membership
  index is trusted by later deletions, a deleted name must leave nothing to the next
  role of that name, a batch may build a cycle out of several elements and may fail
  at any of them.
* The SQL store must behave like the memory store although its checks and its
  writes are separate statements and other processes write as well.
* A lookup reads user, roles and parents in many steps while mutations commit; the
  cache it fills must not outlive the invalidation that went by in the meantime.
* Events are lost, channels are full, processes die between commit and publish, and
  the one subscription of a process breaks while enforcers come and go.
* A decision reads roles, hierarchy and rules at different moments, and a management
  call acts on a decision that is over.
* A permission view pairs a version with permissions that were read earlier.
* The audit file is written under failures and crashes, and both a mutation and a
  decision depend on whether its event became durable.
* Entries of the registry are retired while they are provisioned and leased by
  requests.

## Modules

| Module | Content |
| --- | --- |
| `RoleGraph` | the hierarchy as a graph: reachability, ancestors, `detectCycle`, acyclicity, all without recursion |
| `PolicyData` | the data of a store; for each operation when it succeeds (`...OK`) and what it does (`...Do`) |
| `PolicyStore` | the memory store as a state machine: the abstract specification of every store |
| `PolicyDataProofs` | lemmas: every operation keeps the data sound; reachability and acyclicity |
| `PolicyStoreProofs` | the theorems about `PolicyStore` |
| `RoleGraphAlgorithms` | the recursive searches of the code against `RoleGraph` |
| `SqlStore` | transactions over the tables, and the refinement mapping to `PolicyStore` |
| `SqlStoreProofs` | the proof of that refinement |
| `EnforcerCache` | lookups, mutations, invalidation, the three kinds of cache backend |
| `EnforcerCacheProofs` | the theorems about it |
| `Invalidator` | the Redis subscription of a process, its broadcast into channels, subscribing, closing |
| `InvalidatorProofs` | the theorems about it |
| `Decision` | `EnforceCtx` read by read, and management calls, against concurrent changes |
| `RuleConditions` | when the conditions of a rule hold, for typed, missing and malformed facts |
| `DecisionProofs` | the theorems about `Decision`, `RuleConditions` and `RoleGraphAlgorithms` |
| `PolicyVersion` | the version counters, `PermissionView`, and the frontend of the README |
| `AuditSink` | `FileAuditSink` with failures and crashes; `recordMutation`, `recordDecision` |
| `RecordProofs` | the theorems about `PolicyVersion` and `AuditSink` |
| `TenantRegistry` | leases and lifetimes of tenant enforcers |
| `TenantMiddleware` | a request through the tenant middleware, composed with `TenantRegistry` |
| `TenantProofs` | the theorems about both |
| `MC...` | the instances: symmetry sets and structured constants |

`PolicyData` extends `RoleGraph`; `PolicyStore`, `SqlStore`, `EnforcerCache` and
`Decision` extend `PolicyData`, so that the four of them mean the same by an
operation. `SqlStore` instantiates `PolicyStore` under its refinement mapping.
`TenantMiddleware` extends `TenantRegistry`: its requests are the registry's clients.
`MCAlgorithms` puts `RoleGraphAlgorithms` and `RuleConditions` into one run.

### PolicyStore

`store` is the committed data. Every operation of the memory store holds the write
lock from the first check to the last assignment, so a successful operation is one
step (`AddRole` .. `SetRoleMetadata`) and a failed one none. `ApplyPolicyBatch`
holds the lock too; it is modelled element by element on the copy `work`, in the
order of `applyBatch` (`phase`), because the properties are about what the copy
may look like between elements; `store` is replaced in `CommitBatch`. A user's role
list is a bag (role -> number of occurrences), the index a set, so that an index
that fails to prevent a duplicate would be visible. `UpdateRole` of the code stores
the new links, searches, and restores them when there is a cycle: the search is on
the graph with the new links, and the failing case changes nothing.

Names that trim to the empty string, invalid rule lists and the content of rules
and metadata are single values: no property tells their content apart.

### SqlStore

A transaction is `Begin`, `LockMutations` (not on SQLite), then for each operation
`Check`, `Write`, `Finish` (the cycle query), then `CommitTx`; `Rollback` is
possible at every point and stands for every error, cancellation and lost
connection. Tables are sets of rows. A transaction remembers the committed rows it
started from (`base`) and what it sees (`view`); what it commits is its own inserts
and deletes on top of what is committed by then (`Overlay`), so an overtaken
transaction would overwrite nothing but would combine, which is how write skew
arises. The database itself is external; the module's header says what is assumed
of it, for the default isolation level of each dialect. The assumption on SQLite is
the comment in `beginWrite`: conflicting snapshots fail rather than commit.

`ImplementsPolicyStore` is `PolicyStore!Spec` with `store` read off the committed
tables and `phase`, `work`, `size` off the batch that holds the lock. A batch that
has closed a cycle and not yet noticed is mapped to one that has ended already.

### RoleGraphAlgorithms

The four searches of the code, each recursive as there: `detectCycle` of the memory
store (`dfs`), the recursive query of the SQL store (`withRecursive`),
`collectEffective` (`effective`) and `collectRoleNames` (`names`). They are recursive
functions of the roles on the path, or of the roles seen, so that the prover can unfold
them. A state is a graph and the roles that exist; the actions reach every graph over
`Roles`, those with links to absent roles and with cycles too, because a reader that
mutations overtake may meet any. `names` keeps the pending calls as a set and takes one
of them: the code's order is one of the orders. The set of roles is finite
(`RolesFinite`), as a Go map is.

### EnforcerCache

A lookup (`StartLookup` .. `FinishLookup`) is `permissionsFor`: generation, cache,
token, roles, one `GetRole` after the other, conditional fill. `GetRole` is two
steps because the SQL store reads permissions and parents with separate queries;
the memory store's one step is the case where nothing happens in between. A
mutation commits (`Committed`), takes cacheMu and advances the generation
(`LockCache`), deletes keys (`DeleteKeys`; on Redis a flush is a scan, so keys go a
few at a time), then publishes. An enforcer's invalidation loop does the same for
an event it receives. Generations and tokens are never reused (counters under a
lock, random text), so a lookup only remembers whether the one it took is still
current.

A deployment (`Deployments`) says which backend there is, which enforcer uses which
cache, who listens for events, who mutates, and how much may be lost; a run starts
in each of several. The store a run starts from (`InitStore`) is any
sound one: `CacheConstantsOK` asks for what `PolicyStoreProofs` proves of every store.

`missed` collects the caches and users whose invalidation was lost: a failed
publish, a full channel, a failed delete, a process that died. Freshness is
promised to everybody else, and through expiry to those as well. The channel's
capacity, 64 in the code, is the constant `QueueCap`.

`ApplyPolicyBatch` is one shape of batch, an update with an assignment: what counts
for the cache is that several changes commit at once and are followed by a flush.

### Invalidator

One process with its `redisInvalidator` and the enforcers that share it; the
mutations are those of other processes. `conn` and `wire` are the connection and what
Redis sent on it: an acknowledgement, then the events published while it stands.
`run` is the receiving goroutine with its backoff. `sending` is a broadcast in
progress, which holds `r.mu` over the channels one by one: `Try` is the first select,
`Drain` one round of the inner loop, `SendFlush` the blocking send, and an enforcer's
loop takes events in between. `Close` cancels, and `closeSubscribers` is called
from it and from the goroutine's end, in either order. A snapshot is fresh or
stale; caches may be filled before `Messages` is called, as a Redis cache outlives a
process. `missed` are discarded drops and failed publishes, the two losses the code
leaves to the TTL.

### Decision and RuleConditions

`Decision` takes `EnforceCtx` apart: `GetRoles`, one `GetRole` per role on each path
for the permissions, `GetRoles` again, one `GetRole` per role for the names, one
`GetRoleRules` per name, in any order (a Go map). A management call then changes the
store (`Manages`), and any other change may commit between two reads (`Provision`): an
assignment, or whatever a batch of one or two elements makes of the store in the order
of `applyBatch` (`Element`, `Batches`); the single operations are batches of one.
The callers share one enforcer, which has its default cache or none (`RBAC_CACHE=none`):
`setting` says which, together with the bounds on commits, batches, rules and
permissions, so that one run covers several of them (`Settings`). `Start` is the cache
lookup of `permissionsFor`: on a hit the permissions are those that an earlier lookup
found, and no role is read for them; after a miss the walk ends in `Fill`, which stores
its set unless the generation has changed. Names and rules are read in any case. A
management call drops what it made old after its commit, in a step of its own
(`Invalidates`); for the commits of other processes `ApplyEvent` may come late or never,
and `Evict` is the TTL or the LRU's limit. `behind` is a history: the users for whom
something has committed and no invalidation has gone by. A call that hits then is
`late`, and `AllowGrounded` says nothing of it: until the event, and after a lost one
until the TTL, a revoked permission is allowed. The repository's README says as much
("This is not instantaneous revocation").
All decisions are about one permission; a rule list is the set of effects its rules
have on it in the context of the call. The histories `held` and `ever` are what was
true all through the call and at some time of it: between them lies what a decision
without a snapshot can promise.

What the effect of a rule is, `RuleConditions` says: `conditionMatches` with its
early returns in the code's order, `conditionsMatch` with its early exit. A state is
an input, facts and conditions, built up step by step. Numbers are numbers, text is
compared for equality, a malformed fact is one that JSON cannot represent.

### PolicyVersion

A mutation is `Commit`, `CountLocal`, `NextPolicyVersion` (or its failure),
`MirrorNext`, `FlushCache`, `PublishAndReturn`, in the order of the code; the store's
content is the number of commits. A deployment has an invalidator or none; the event
reaches all, some or none of the other enforcers (`lost`), which covers a failed
publish, a discarded drop and a publish that has nobody to go to. `missed` are the
enforcers that had something cached then and still have it; `ApplyEvent`, the enforcer's
own `FlushCache` or the TTL (`Expire`) ends that. A view is `ViewRoles`,
`ViewPermissions`, `ViewVersion`, `MirrorView`. The mirror is read only while the source
is unreachable; the repository promises nothing of versions then, so no property is
about it. `Render` is the JavaScript of the repository's README. `floor` is a history:
the least version that lets the page notice every mutation that has returned. `known` is
what undisturbed views reported: views that no mutation or pending event overlapped, on
an enforcer not in `missed`. Of the others `VersionTellsPolicy` says nothing, because an
enforcer that an event did not reach does show old permissions under the new version.

### AuditSink

The file is a sequence of whole lines and torn ones; `durable` is how many survive a
crash, `linked` whether the file itself does. The constructor's three steps, `Emit`
under `s.mu` as write and sync, each with its failures, `Close`, and a crash at any
moment. Operations are mutations, which emit after the commit, and decisions, which
emit before the answer. A caller retries a mutation unless the error says it is
committed, which is what the comment on `AuditWriteError` asks for. A line that
follows a torn one cannot be read; that is why the constructor refuses such a file.
The contract is that of Unix: elsewhere `syncAuditParents` returns without syncing a
directory, as its comment says, and a new file may be gone after a crash. A store error is
taken for "not committed"; an SQL commit whose acknowledgement is lost returns an error as
well, and the audit model does not cover it. To the caches it is a process that died
after its commit, which `cache_settles` covers.

### TenantRegistry and TenantMiddleware

A step of the registry is a critical section under `r.mu`, or what one goroutine does
between two of them. `client` are callers of `Acquire` with their release; `entry` is
`registryEntry` with the progress of its provision goroutine (`factory`) and of its
closer (`closing`). Times are choices: any initialised unleased entry may be the
least recently used, any set of them may be idle, a timeout may happen at any
moment. `forgotten` are entries that `Clear` gave up; their enforcers belong to the
caller by the documentation of `Clear`, and the properties exclude them. Each factory
call builds an enforcer of its own, as `docs/feature-guide.md` asks ("Factories must
return independently owned, correctly scoped Enforcers"); one that is shared between
tenants would be shut down under the other's lease.

A client is the goroutine of a request. `request` follows it through the middleware:
resolver, `Acquire`, user, decision, handler, deferred release. The closures of the
four adapters differ only in how they write a response; the lines cited are those of
net/http, and of gin for the sequence as a whole.

## Runs

| Run | Instance | Shows |
| --- | --- | --- |
| `store` | 3 roles, 1 user, 2 rule lists and metadata, batches of up to 2 | parents exist, no cycle, index = lists, no orphans, nothing left behind, in the store and in a batch's copy |
| `algorithms` | all graphs of 3 roles, with absent roles; all facts for 2 attributes, rules of up to 2 conditions | each recursive search = its definition; both stores refuse the same updates; missing and malformed facts |
| `sql_locked` | PostgreSQL and MySQL, 2 writers, 2 roles, batches of 2 | refinement behind the lock row, with READ COMMITTED and with a snapshot |
| `sql_sqlite` | SQLite, 2 writers, 2 roles, batches of 1 | refinement without the lock row |
| `cache` | 2 enforcers, 2 users, 2 mutations; private LRU with a channel of 1, private backend without tokens, shared Redis with one loss | freshness and exactness |
| `cache_settles` | 1 user, 2 mutations; every event delivered, or one loss of any kind; fairness | caches become fresh, by events or by TTL |
| `tenant_requests` | 2 requests, 2 tenants, 2 entries, capacity 1; fairness | leases, draining, capacity, no leak; the handler's enforcer; every request answered, eviction and shutdown end |
| `invalidator` | 1 enforcer, 2 users, channel of 1, 2 mutations, 2 faults; fairness | no silent loss, no blocked sender, recovery, end of the loops |
| `audit` | 2 mutations, 2 decisions, 3 failed calls, 2 crashes | durable acknowledgements, audited allows, no silent gap, no repeated commit |
| `decision` | 2 roles, 1 user, 1 call; no cache and 2 commits under the call; the default cache and 1 commit; no cache and 1 batch of up to 2 elements | a standing deny holds; an allow is grounded, after hits, misses and slow fills, but for hits that an invalidation has still to reach |
| `version` | 2 enforcers on a shared source, with an invalidator that may lose events or with none, or 1 alone; 2 mutations, 1 failure of the source | changes are detected, the version tells the policy |
| `version_screen` | 1 enforcer, 1 mutation | **violated**: see the finding |

The SQL instances have no permissions: a role's permission rows are written with
its links, in the same statements' order, and no check reads them. `sql_locked` has
rule lists, so that a payload row left behind by a deletion would be seen.

Why the bounds are enough to be interesting: three roles give diamonds and cycles
through a third role; two writers give write skew; a batch of two can add a role and
link it. Two mutations give an invalidation that arrives while another is on its way,
and fill a channel of one. Two faults give a subscription that breaks again during its
recovery, or a failed publish next to a break; one enforcer is enough because a
broadcast treats each channel on its own and holds `r.mu` over all of them. Two requests
give a lease on a retired entry next to a new entry of another tenant. Two crashes give
a file that is reopened after a torn line and torn again; three failed calls a failed
write, sync and reopening in one behaviour. Two commits under a decision move a rule
from one role to another and back, or replace the link a walk has passed. In the setting
with the cache one commit under a call is enough for a slow fill, rules only deny, so
that grants come from what is cached, and the commits before the call are not bounded,
so every set that may be in the cache is. A batch of two changes an assignment and a
link, or a role and its rules, at once. Two overlapping mutations write the version's
mirror in either order. Each property has a mutant in `PROJECT.json`, a plausible bug in
the code that the run finds. Every module states its types; `store` checks them as an
invariant, as part of what is proved.

`CHECK_DEADLOCK FALSE` is set where the system may stop: a registry that is shut down
and drained or whose requests are all answered, an invalidator that is closed, callers
of the audit sink that are done, an input that is complete. Roles, users, writers,
instances and operations are symmetric in the instances that declare symmetry; no
liveness property is checked with it.

### Fairness

* `EnforcerCache`: weak fairness for the steps of a lookup that has started, for the
  invalidation and the publish of a mutation that has committed, and for the loop of
  an enforcer with an event waiting: goroutines are scheduled, and cacheMu is only
  held over bounded work. No caller has to start anything. Expiry is assumed only of
  entries whose invalidation was lost, so that the others must get fresh without it.
* `Invalidator`: weak fairness for the receiving goroutine (its timer fires, and Redis
  can be reached again once the faults are used up), for a broadcast, for each loop,
  for a publish, and for a `Close` that has begun. Nobody has to subscribe, mutate or
  close.
* `TenantMiddleware`: weak fairness for requests (a handler returns or panics, and its
  deferred release runs), for the provision goroutine (a factory returns or fails; one
  that ignores its context for ever would keep its entry for ever, in the code too) and
  for the closer. Nobody has to evict or to shut down.

### Finding

`version_screen`: `PermissionView` reads the permissions before the version. A mutation
that commits, counts and returns between the two gives a view with the old permissions
and the new version. A page built as README.md:297 says ("store the version next to the
payload and re-render only when it changes") saves that version; its next view has the
new permissions under the same version and is not rendered. What does hold is what
`version` checks: a mutation that returned before the view began always shows in the
version, and equal versions mean equal content for views that neither a mutation nor a
missed invalidation disturbed.
README.md:329 says that the version is a hint and no atomic revision; a page that follows
the recipe above it needs more than that. Reading the version before the permissions
would make the error harmless: an old version with newer content is rendered again.

## Proofs

The theorems hold for every value of the constants that the named assumptions allow:
any number of roles, users, enforcers, callers, mutations, any capacity and any bound.
TLC checked each inductive invariant below on the instance of its run before it was
proved. The proofs of invariants have the same layout: a lemma for `Init`, one per
action or group of actions, one for `[Next]_vars`, and one short theorem per property.

### Memory store

`PolicyStoreProofs` proves that `PolicyStore!Spec` implies `TypeOK`, `ParentsExist`,
`HierarchyAcyclic`, `IndexMatchesLists`, `AssignedRolesExist` and `NothingLeftBehind`.
Assumptions: `ConstantsOK` (blank and invalid values are not among the valid ones) and
that `MaxBatch` is a number.

The inductive invariant `IInv` says of both `store` and `work` that all of the
above hold (`StoreInv`). The parts need each other: deletion keeps assignments
sound because the index is exact; registration keeps the sidecar data clean
because nothing was left behind; registration keeps the graph acyclic because no
absent role has parents or children. `PolicyDataProofs` has a lemma `...Inv` for each
operation, that it takes a sound store to a sound store; single operations apply it to
`store`, batch elements to `work`, and the proofs about decisions and about the cache to
the changes that overtake them.

The acyclicity argument is the interesting one. `Acyclic` says that every non-empty
set of roles has a member without a parent in the set, which needs no paths and no
induction. `RelinkAcyclic`: if a graph is acyclic, one role's links are replaced,
and the search from that role finds no cycle in the new graph, then the new graph
is acyclic; a set without such a member would be closed under following links from
the changed role back to itself. `PruneAcyclic`: removing links keeps it.
`ReachFacts` gives the closure properties of `Reach` both rest on.

### SQL store

`SqlStoreProofs` proves the refinement (`SqlImplementsStore`), `SqlStore!Spec => ImplementsPolicyStore`, for
every number of roles, users and writers, batches of any length and the three databases
(`SqlConstantsOK`). It has two halves.

The operations: `OpApplied` and the lemmas before it say, for each kind of operation,
that when its checks on some sound rows succeed and no cycle is found afterwards, the
memory store's operation succeeds too, and that the rows which the statements leave are
the rows of the store it leaves (`Applied`). The checks differ more than that sounds:
the SQL store writes the links first and asks then whether the role is its own ancestor,
the memory store searches for a cycle anywhere above the role; on sound rows the two
agree (`SearchAgrees`, by `RelinkAcyclic`).

The transactions: `SInv` says that nobody has written anything without the lock
(`LockInv`), that whoever has the lock and has read works on what is committed
(`BaseInv`), how far an operation has come (`ProgressInv`), and that what a transaction
sees is sound and, for a single operation, is what the memory store would have made of
the committed rows (`ViewInv`), except between writing links that close a cycle and the
query that notices. Refinement needs all of these: when a commit puts a transaction's own
rows on top of what is committed by then, only `BaseInv` says that these are the rows
the checks were about. On SQLite the lock is taken by the first write, so a transaction
checks rows that may be overtaken; then it cannot take the lock. Each action has a lemma
`...Refines`: taking the lock starts a batch, a write is one element of it or the end of it
when it closes a cycle, a commit is a single operation or the commit of the batch, and
everything else is invisible.

### Permission cache

`EnforcerCacheProofs` proves `CacheFresh`, `LookupCurrent` and `LookupExact`, for every
kind of backend, any sharing and any number of losses, from `CacheConstantsOK`. Two of
its conjuncts are more than naming: a backend without tokens is not shared between
enforcers, and the initial store is sound.

`CInv` has five parts. `Typed`, `Locked` (who deletes holds cacheMu, and no lookup of
its enforcer has the new generation) and `Shape` are bookkeeping. `Fresh` is the claim:
every snapshot is `Settled`, that is, current, with every lookup that may still fill it
bringing the current set, or an invalidation of it is on its way (or was lost). A commit
puts an invalidation on the way to every snapshot that it makes stale. What ends the way
of an invalidation is the deletion of the key, and that takes the entry and the token or
the generation of every lookup that read before. `Undisturbed` carries `LookupExact`: a
lookup that nothing overtook has collected, with what it has left to read, exactly the
current set. It needs `Settled`, and not merely that no invalidation is on its way,
because a publish that comes back to its own enforcer, or a mutation that died, puts one
there without a commit. That reading a role at a time gives the set of
the definition is `ReachSplit` and `PermissionsSplit`: a walk finds what it starts from,
and what the parents of that lead to.

### Invalidator

`InvalidatorProofs` proves `StaleIsCovered` and `SenderNeverBlocks`, from
`InvalidatorConstantsOK` (the names are distinct, the channels have a capacity).
`StaleIsCovered` is not inductive on its own. `SendingInv` says that the replacement
flush of a broadcast is at one channel, still to be served and empty once drained: the
drained events are covered by the flush, and the send has room. `ReadyInv` says that a
subscription whose acknowledgement the goroutine has not seen has it on the wire:
`Messages`, which flushes a new channel only when `ready`, may leave the flush to it.

### Decisions

`DecisionProofs` proves `DenyHolds` and `AllowGrounded`, with the cache and without,
from `DecisionConstantsOK` and the store's assumptions, for every set of settings: any
number of commits under a call, batches of one or two elements. Policies are compared
part by part (`Below`). `Enclosed`: what held all through a call is below what the store
says, and that is below what was ever true in the call. Walking the hierarchy is
monotone (`InheritedMono`), so whatever a call visits it inherits through links that
existed (`Grounded`), and no role that the user has throughout escapes it (`Guarded`):
while names are collected the role is known or reachable from what is known, while rules
are read its deny is still to be read. `GetRole` and `GetRoleRules` may read different
stores; the argument does not care. With the cache, `CacheInv` says that a cached set
grants nothing the store does not, unless the user is `behind`. A fill keeps that
because of `Fresh`: a lookup that may still fill, for a user who is not behind, has
found nothing but what the store grants. A hit of a user who is not behind is therefore
grounded in the store it starts from (`Permits`), and `DenyHolds` needs nothing of the
cache: names and rules are never in it.

### Rule conditions and searches

Also in `DecisionProofs`. These are statements about recursive functions for every
input, and the provers cannot instantiate a library's induction principle; its set form
they can use: a non-empty set of numbers has a least member (`NatMin`), some sets of
finitely many roles have a minimal and a maximal one (`MinimalSet`, `MaximalSet`). Each
proof has three parts. A closed form says without recursion what the function
returns. A step lemma says that the closed form satisfies the function's equation; so a
function that does exists, and the one that is defined satisfies it. If it differed
from the closed form somewhere, there would be a first place where it does, and the step
lemma says that it does not there.

* `conditionsMatch`, for lists of any length: `Verdict` is "no" if some condition says
  no, else "unknown" if some condition is, else "yes" (`LoopVerdict`). A condition whose
  outcome is known does not look at a malformed fact (`MalformedOne`), and one that does
  not ask for presence is unknown without a fact it looks at (`OmittedOne`).
* `dfs`: it meets a role of its path, or a cycle (`Meets`); what is already on the path
  grows, so a largest path on which it errs has no longer one.
* `withRecursive`: it is `Reach`; the rows grow. That both stores refuse the same updates
  follows with `RelinkAcyclic`.
* `effective` and `names`: what they return is reachable without going through the roles
  on the path, or the roles seen (`Avoiding`). The heart is `AvoidStep`: a walk that has
  left a role never needs to come back to it, so avoiding it from then on loses nothing.
  For `names` the induction is on the roles seen and then on the calls still to be made.

### Policy version

`RecordProofs` proves `ChangeIsDetected` and `VersionTellsPolicy`. `Counting`:
without a failure of the source, the number of commits is the version plus the mutations
that have committed and not counted yet, and no version that anybody holds is above it.
`Promised` ties a view to what the page was promised when it began. `CacheInv` says that
what an enforcer has cached is current, or an event or a flush is still to drop it, or it
missed one; `QuietInv`, that an undisturbed view shows the current policy, from the cache
too: with nothing under way, no enforcer comes to have missed anything;
`KnownInv` is the conclusion. Assumptions beside the types: `Mutators` is finite (the
pending mutations are counted), and `LocalCounterAlone`, that a deployment without a
shared source has one enforcer; the comment on the local counter in `enforcer.go` says
the same ("correct for single-instance deployments").

### Audit sink

`RecordProofs` also proves `AckedDurable`, `AllowedIsAudited`, `NoSilentGap` and
`CommittedOnce`, from `AuditConstantsOK` (the names are distinct). There are two
invariants. `IInv` ties an operation's result to its commit (`OutcomeTold`): an
operation that may start has not committed, a store error means no commit, and an
`AuditWriteError` of a mutation is always marked, so that a retry never follows a
commit. `DInv` is about the file: only the holder of `s.mu` writes, to an open file that
has not failed (`LockHeld`); such a file ends with a whole line (`TailWhole`, which is
why the constructor and `failed` are needed), so that the line a sync acknowledges is
readable (`LineWritten`); and no sink is handed out before the directory is synced
(`OpenLinked`). Then every step keeps the durable lines (`StaysDurable`); the repair of a
file removes only a torn one.

### Tenants

`TenantProofs` proves of the registry `LeaseSafe`, `RefsMatch`, `FinishedMeansDrained`,
`StoppedMeansDrained`, `WithinCapacity` and `NoLeak`, and of the middleware
`HandlerHasItsTenant`. `EntryInv` is what a single entry satisfies whatever the rest does:
how its provisioning, its reference count and its closer go together. `CachedInService`
and `Tracked` say that the cache holds only entries in service, and that an entry is
tracked until it is finished or given away by `Clear`. `ClientsInv` and `RefsMatch` tie
the callers to the counts: an entry that somebody waits for or holds has a positive
count, so neither `Evict` nor the last `release` of somebody else can finish it. That a
client that stops waiting leaves the count exact needs the number of callers to be
finite (`RegistryConstantsOK`).

`MiddlewareUsesRegistry` is the refinement: every step of the middleware is a step of the
registry or leaves it alone, so all theorems about the registry hold behind it.
`RequestsInv` ties a request's progress to its client's, and the tenant it resolved to
the tenant of the entry; nothing changes the tenant of an entry (`TenantsStay`).

### Only model-checked

* Liveness: `EventuallyFresh`, `RetiredIsFinished`, `ShutdownCompletes`,
  `RequestsAnswered`, `RecoversFresh`, `CloseEndsLoops`. Fairness and ENABLED are out of
  the prover's reach.

## Not modelled

Listed with reasons in `PROJECT.json`: environment configuration, options and examples
(no state after construction), list queries and sorting, statement text and schema
migration, metrics, the scope suffixes of `EnforceOwned` and wildcards (a disjunction
of map lookups), JSON encodings, Redis errors and undecodable values in `Get` (a miss,
like an eviction), the single-tenant middleware (one decision, no state),
and the LRU's order. Tenants are separated by key prefixes that `New` fixes; each model
is about the keys of one tenant, except for the registry.

## Plan

1. Done: all modules above; every safety property is proved, with both refinements
   (the SQL store's and the middleware's) and the recursive searches for every input.
2. Liveness stays with TLC: the prover has no rules for fairness.
3. A second enforcer in `invalidator`, and lookups of `EnforcerCache` composed with
   `Invalidator`, once the state space allows it.
