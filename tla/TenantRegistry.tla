---------------------------- MODULE TenantRegistry ----------------------------
(***************************************************************************)
(* TenantRegistry: the cache of tenant enforcers with leases.  A step is a *)
(* critical section under r.mu, or what one goroutine does between two of  *)
(* them: the callers of Acquire and release (the HTTP middleware holds its *)
(* lease while the handler runs), one provision goroutine per entry, one   *)
(* closer goroutine per finished entry, and the callers of Evict, Clear,   *)
(* ClearAndClose, Shutdown and PruneIdle.  Those that wait for an entry's  *)
(* finished channel or for stopped change nothing while they wait.         *)
(*                                                                         *)
(* Times are left out: which unleased entry is the least recently used,    *)
(* and which are idle for long enough, is any choice among the candidates, *)
(* and a deadline may pass at any moment.  Every factory call returns an   *)
(* enforcer of its own.                                                    *)
(***************************************************************************)
EXTENDS Naturals, FiniteSets

CONSTANTS Tenants, Clients,
          Entries,       \* bound: as many entries are ever created
          Capacity,      \* 0: unbounded
          NoEntry, NoTenant

ASSUME RegistryConstantsOK == /\ Capacity \in Nat
                              /\ NoEntry \notin Entries /\ NoTenant \notin Tenants
                              /\ IsFiniteSet(Clients)

VARIABLES cache,      \* tenant -> its entry, or NoEntry
          all,        \* entries the registry still has to drain
          entry,      \* registryEntry
          client,     \* what each caller of Acquire is doing, and with which entry
          closed, stopped,
          forgotten   \* history: entries given up by Clear

vars == <<cache, all, entry, client, closed, stopped, forgotten>>

EntryStates ==
    [made    : BOOLEAN,
     tenant  : Tenants \cup {NoTenant},   \* the one the entry was made for
     builtFor : Tenants \cup {NoTenant},  \* the enforcer's TenantID()
     factory : {"running", "returned", "published"},   \* the provision goroutine
     done    : BOOLEAN,                                \* e.ctx is cancelled
     ready   : BOOLEAN,
     err     : BOOLEAN,
     enf     : {"none", "open", "shut"},     \* what the factory built
     refs    : Nat,
     retired : BOOLEAN,
     closing : {"no", "shutdown", "finish", "finished"}]   \* the closer goroutine

ClientStates == [pc : {"idle", "waiting", "holding", "releasing"},
                 on : Entries \cup {NoEntry}]

TypeOK == /\ cache \in [Tenants -> Entries \cup {NoEntry}]
          /\ all \subseteq Entries
          /\ entry \in [Entries -> EntryStates]
          /\ client \in [Clients -> ClientStates]
          /\ closed \in BOOLEAN /\ stopped \in BOOLEAN
          /\ forgotten \subseteq Entries

Unmade == [made |-> FALSE, tenant |-> NoTenant, builtFor |-> NoTenant,
           factory |-> "running", done |-> FALSE, ready |-> FALSE, err |-> FALSE,
           enf |-> "none", refs |-> 0, retired |-> FALSE, closing |-> "no"]

Idle == [pc |-> "idle", on |-> NoEntry]

Init == /\ cache = [t \in Tenants |-> NoEntry]
        /\ all = {}
        /\ entry = [e \in Entries |-> Unmade]
        /\ client = [c \in Clients |-> Idle]
        /\ closed = FALSE /\ stopped = FALSE
        /\ forgotten = {}

-----------------------------------------------------------------------------
(* Helpers that run under r.mu, as functions of one registryEntry *)

\* Mutant: leases are not counted.
finishLocked_NoRefs(x) ==
    IF x.retired /\ x.ready /\ x.closing = "no" THEN [x EXCEPT !.closing = "shutdown"] ELSE x

\* Mutant: an entry whose factory is still running is closed.
finishLocked_NotReady(x) ==
    IF x.retired /\ x.refs = 0 /\ x.closing = "no" THEN [x EXCEPT !.closing = "shutdown"] ELSE x

\* A retired entry that is ready and has no lease gets its one closer.
finishLocked(x) ==
    IF x.retired /\ x.refs = 0 /\ x.ready /\ x.closing = "no"
    THEN [x EXCEPT !.closing = "shutdown"] ELSE x

retireLocked(x) == finishLocked([x EXCEPT !.retired = TRUE, !.done = TRUE])

CachedEntries == {cache[t] : t \in Tenants} \ {NoEntry}

\* Entries an eviction for capacity or idleness may take.
Unleased == {e \in CachedEntries : entry[e].refs = 0 /\ entry[e].ready}

Retire(S) == [e \in Entries |-> IF e \in S THEN retireLocked(entry[e]) ELSE entry[e]]

Without(S) == [t \in Tenants |-> IF cache[t] \in S THEN NoEntry ELSE cache[t]]

-----------------------------------------------------------------------------
(* Acquire and release *)

\* The tenant has an entry: one more reference, and the caller waits for it.
AcquireCached(c, t) ==
    LET e == cache[t] IN
    /\ client[c].pc = "idle" /\ ~ closed
    /\ e # NoEntry
    /\ entry' = [entry EXCEPT ![e].refs = @ + 1]
    /\ client' = [client EXCEPT ![c] = [pc |-> "waiting", on |-> e]]
    /\ UNCHANGED <<cache, all, closed, stopped, forgotten>>

\* Mutant: a registry whose entries are all leased grows past its capacity.
Victims_Optional(S) == IF Capacity = 0 \/ Cardinality(CachedEntries) < Capacity \/ S = {}
                       THEN {{}} ELSE {{v} : v \in S}

\* The entries that make room for one more: none below capacity, else one that
\* is initialised and unleased.  With no such entry Acquire is ErrTenantCapacity.
Victims(S) == IF Capacity = 0 \/ Cardinality(CachedEntries) < Capacity
              THEN {{}} ELSE {{v} : v \in S}

\* The tenant has none: an entry is made, and provision starts.
AcquireNew(c, t, e) ==
    /\ client[c].pc = "idle" /\ ~ closed
    /\ cache[t] = NoEntry
    /\ ~ entry[e].made
    /\ \E V \in Victims(Unleased) :
          /\ cache' = [Without(V) EXCEPT ![t] = e]
          /\ entry' = [Retire(V) EXCEPT ![e] = [Unmade EXCEPT !.made = TRUE, !.tenant = t,
                                                               !.refs = 1]]
    /\ all' = all \cup {e}
    /\ client' = [client EXCEPT ![c] = [pc |-> "waiting", on |-> e]]
    /\ UNCHANGED <<closed, stopped, forgotten>>

\* Ready without an error: the caller has the enforcer and a lease.
AcquireSucceeds(c) ==
    LET x == entry[client[c].on] IN
    /\ client[c].pc = "waiting"
    /\ x.ready /\ ~ x.err
    /\ client' = [client EXCEPT ![c].pc = "holding"]
    /\ UNCHANGED <<cache, all, entry, closed, stopped, forgotten>>

\* The factory failed, or its context is over before it is ready.
AcquireFails(c) ==
    LET x == entry[client[c].on] IN
    /\ client[c].pc = "waiting"
    /\ IF x.ready THEN x.err ELSE x.done
    /\ client' = [client EXCEPT ![c].pc = "releasing"]
    /\ UNCHANGED <<cache, all, entry, closed, stopped, forgotten>>

\* The caller's own context is over.
AcquireCancelled(c) ==
    /\ client[c].pc = "waiting"
    /\ client' = [client EXCEPT ![c].pc = "releasing"]
    /\ UNCHANGED <<cache, all, entry, closed, stopped, forgotten>>

\* The lease of one caller is given back.
OneLess(x) == [x EXCEPT !.refs = x.refs - 1]

\* Mutant: a waiter that gives up forgets its reference.
Released_Leak(c) ==
    [entry EXCEPT ![client[c].on] = IF client[c].pc = "holding"
                                    THEN finishLocked(OneLess(@)) ELSE @]

\* Mutant: the last release does not look whether the entry is retired.
Released_NoFinish(c) == [entry EXCEPT ![client[c].on] = OneLess(@)]

Released(c) == [entry EXCEPT ![client[c].on] = finishLocked(OneLess(@))]

\* release(), by the handler's deferred call or by a failed Acquire; once.Do
\* makes a second call of the same release do nothing.
Release(c) ==
    /\ client[c].pc \in {"holding", "releasing"}
    /\ entry' = Released(c)
    /\ client' = [client EXCEPT ![c] = Idle]
    /\ UNCHANGED <<cache, all, closed, stopped, forgotten>>

-----------------------------------------------------------------------------
(* provision *)

\* Mutant: whatever enforcer the factory returns is taken.
Accepted_Any(e, t) == ~ entry[e].done

\* The context was alive when that was checked, and the tenant is the right one.
Accepted(e, t) == ~ entry[e].done /\ t = entry[e].tenant

\* The factory built an enforcer, for tenant t, that provision accepts.  Each call
\* builds one of its own, as the feature guide asks of factories.
FactoryBuilds(e, t) ==
    /\ entry[e].made /\ entry[e].factory = "running"
    /\ Accepted(e, t)
    /\ entry' = [entry EXCEPT ![e].factory = "returned", ![e].enf = "open",
                              ![e].builtFor = t]
    /\ UNCHANGED <<cache, all, client, closed, stopped, forgotten>>

\* The factory failed or panicked and built nothing, or what it built is
\* refused (cancelled meanwhile, wrong tenant) and shut down again.
FactoryFails(e, built) ==
    /\ entry[e].made /\ entry[e].factory = "running"
    /\ entry' = [entry EXCEPT ![e].factory = "returned", ![e].err = TRUE,
                              ![e].enf = IF built THEN "shut" ELSE "none"]
    /\ UNCHANGED <<cache, all, client, closed, stopped, forgotten>>

Published(x) == finishLocked([x EXCEPT !.factory = "published", !.ready = TRUE, !.done = TRUE])

\* Mutant: a panic of the factory ends the goroutine.
PublishEntry_NotOnError(e) ==
    /\ entry[e].factory = "returned" /\ ~ entry[e].err
    /\ entry' = [entry EXCEPT ![e] = Published(@)]
    /\ UNCHANGED <<cache, all, client, closed, stopped, forgotten>>

\* Under r.mu: the result is stored, ready is closed, the context cancelled.
\* A failed entry stays in the cache until it is evicted.
PublishEntry(e) ==
    /\ entry[e].factory = "returned"
    /\ entry' = [entry EXCEPT ![e] = Published(@)]
    /\ UNCHANGED <<cache, all, client, closed, stopped, forgotten>>

\* The factory timeout.
FactoryTimeout(e) ==
    /\ entry[e].made /\ ~ entry[e].done
    /\ entry' = [entry EXCEPT ![e].done = TRUE]
    /\ UNCHANGED <<cache, all, client, closed, stopped, forgotten>>

-----------------------------------------------------------------------------
(* The closer goroutine *)

\* e.enf is nil until provision has stored its result, and after a failure.
CloseEnforcer(e) ==
    /\ entry[e].closing = "shutdown"
    /\ entry' = [entry EXCEPT ![e].closing = "finish",
                              ![e].enf = IF @ = "open" /\ entry[e].ready THEN "shut" ELSE @]
    /\ UNCHANGED <<cache, all, client, closed, stopped, forgotten>>

\* Mutant: the last closer does not signal.
signalStopped_Never(isClosed, left) == stopped

signalStopped(isClosed, left) == stopped \/ (isClosed /\ left = {})

FinishEntry(e) ==
    /\ entry[e].closing = "finish"
    /\ entry' = [entry EXCEPT ![e].closing = "finished"]
    /\ all' = all \ {e}
    /\ stopped' = signalStopped(closed, all \ {e})
    /\ UNCHANGED <<cache, client, closed, forgotten>>

-----------------------------------------------------------------------------
(* Removing entries *)

\* Mutant: the entry leaves the cache but is not retired.
EvictContext_NoRetire(t) ==
    /\ cache[t] # NoEntry
    /\ cache' = [cache EXCEPT ![t] = NoEntry]
    /\ UNCHANGED <<all, entry, client, closed, stopped, forgotten>>

EvictContext(t) ==
    /\ cache[t] # NoEntry
    /\ cache' = [cache EXCEPT ![t] = NoEntry]
    /\ entry' = Retire({cache[t]})
    /\ UNCHANGED <<all, client, closed, stopped, forgotten>>

\* The janitor, or a caller: S are the unleased entries idle for long enough.
PruneIdle(S) ==
    /\ ~ closed
    /\ S # {} /\ S \subseteq Unleased
    /\ cache' = Without(S)
    /\ entry' = Retire(S)
    /\ UNCHANGED <<all, client, closed, stopped, forgotten>>

\* Entries are forgotten, neither cancelled nor closed.
Clear ==
    /\ CachedEntries # {}
    /\ cache' = [t \in Tenants |-> NoEntry]
    /\ all' = all \ CachedEntries
    /\ forgotten' = forgotten \cup CachedEntries
    /\ UNCHANGED <<entry, client, closed, stopped>>

ClearAndCloseContext ==
    /\ CachedEntries # {}
    /\ cache' = [t \in Tenants |-> NoEntry]
    /\ entry' = Retire(CachedEntries)
    /\ UNCHANGED <<all, client, closed, stopped, forgotten>>

\* Mutant: only the cached entries are retired, and all is what they leave.
Shutdown_CacheOnly ==
    /\ ~ closed
    /\ closed' = TRUE
    /\ cache' = [t \in Tenants |-> NoEntry]
    /\ entry' = Retire(CachedEntries)
    /\ all' = {}
    /\ stopped' = signalStopped(TRUE, {})
    /\ UNCHANGED <<client, forgotten>>

\* r.cancel() reaches the context of every entry that was ever made.  A second
\* call only waits.
Shutdown ==
    /\ ~ closed
    /\ closed' = TRUE
    /\ cache' = [t \in Tenants |-> NoEntry]
    /\ entry' = [e \in Entries |-> IF e \in all THEN retireLocked(entry[e])
                                   ELSE [entry[e] EXCEPT !.done = entry[e].made]]
    /\ stopped' = signalStopped(TRUE, all)
    /\ UNCHANGED <<all, client, forgotten>>

-----------------------------------------------------------------------------

ClientStep(c) == AcquireSucceeds(c) \/ AcquireFails(c) \/ Release(c)

ProvisionStep(e) == \/ \E t \in Tenants : FactoryBuilds(e, t)
                    \/ \E built \in BOOLEAN : FactoryFails(e, built)
                    \/ PublishEntry(e)

CloserStep(e) == CloseEnforcer(e) \/ FinishEntry(e)

Next == \/ \E c \in Clients : \/ \E t \in Tenants : \/ AcquireCached(c, t)
                                                    \/ \E e \in Entries : AcquireNew(c, t, e)
                              \/ ClientStep(c)
                              \/ AcquireCancelled(c)
        \/ \E e \in Entries : ProvisionStep(e) \/ FactoryTimeout(e) \/ CloserStep(e)
        \/ \E t \in Tenants : EvictContext(t)
        \/ \E S \in SUBSET Entries : PruneIdle(S)
        \/ Clear \/ ClearAndCloseContext \/ Shutdown

Spec == Init /\ [][Next]_vars

-----------------------------------------------------------------------------
(* Safety *)

\* A caller that holds a lease holds an enforcer that is open: no eviction,
\* pruning, shutdown or closer shuts it down under a running handler.
LeaseSafe == \A c \in Clients : client[c].pc = "holding" => entry[client[c].on].enf = "open"

On(e) == {c \in Clients : client[c].on = e}

\* refs counts exactly the callers between Acquire's lock and their release,
\* those that are about to give up included.
RefsMatch == \A e \in Entries : entry[e].refs = Cardinality(On(e))

\* A finished entry (what EvictContext and ClearAndCloseContext wait for) has no
\* caller left, its enforcer is shut down and no Acquire can find it.
FinishedMeansDrained ==
    \A e \in Entries : entry[e].closing = "finished" =>
        /\ On(e) = {} /\ entry[e].enf # "open"
        /\ e \notin CachedEntries /\ e \notin all

\* When Shutdown returns because stopped is closed, every enforcer the registry
\* built is shut down and unleased, except those a Clear gave to its caller.
StoppedMeansDrained ==
    stopped => \A e \in Entries \ forgotten : On(e) = {} /\ entry[e].enf # "open"

\* The cache never holds more than Capacity entries.
WithinCapacity == Capacity = 0 \/ Cardinality(CachedEntries) <= Capacity

\* An enforcer is never lost: one that is open belongs to an entry that is
\* cached, or that is retired and still tracked, or that Clear gave away.
NoLeak == \A e \in Entries : entry[e].enf = "open" =>
              \/ e \in CachedEntries
              \/ e \in all /\ entry[e].retired
              \/ e \in forgotten

-----------------------------------------------------------------------------
(* Liveness, under the fairness TenantMiddleware states *)

\* Evict, ClearAndClose and pruning complete: a retired entry is finished.
RetiredIsFinished ==
    \A e \in Entries : entry[e].retired ~> entry[e].closing = "finished"

\* Shutdown returns.
ShutdownCompletes == closed ~> stopped
=============================================================================
