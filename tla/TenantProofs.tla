---------------------------- MODULE TenantProofs ----------------------------
(***************************************************************************)
(* Proofs about the tenant registry and the middleware in front of it, for *)
(* any sets of tenants, requests and entries and any capacity: what a      *)
(* caller holds is open and its own tenant's, what is finished is drained, *)
(* nothing is lost, and the cache keeps to its capacity.                   *)
(***************************************************************************)
EXTENDS TenantMiddleware, FiniteSetTheorems, TLAPS

\* What one registryEntry satisfies, whatever the rest of the registry does.
EntryInv(x) ==
    /\ x \in EntryStates
    /\ x.made => x.tenant \in Tenants
    /\ ~ x.made => x = Unmade
    /\ x.ready <=> x.factory = "published"
    /\ x.factory = "running" => x.enf = "none" /\ ~ x.err
    /\ x.factory # "running" /\ ~ x.err /\ x.closing \in {"no", "shutdown"} => x.enf = "open"
    /\ x.err => x.enf # "open"
    /\ x.enf = "open" => x.builtFor = x.tenant
    /\ x.closing # "no" => x.retired /\ x.ready /\ x.refs = 0
    /\ x.closing \in {"finish", "finished"} => x.enf # "open"

\* What each variable holds.
Typed == /\ cache \in [Tenants -> Entries \cup {NoEntry}]
         /\ client \in [Clients -> ClientStates]
         /\ entry \in [Entries -> EntryStates]
         /\ all \subseteq Entries /\ forgotten \subseteq Entries

\* What Acquire finds is its tenant's entry, in service and tracked.
CachedInService ==
    \A t \in Tenants : cache[t] # NoEntry =>
        /\ entry[cache[t]].made /\ entry[cache[t]].tenant = t
        /\ ~ entry[cache[t]].retired
        /\ cache[t] \in all

\* Every entry that was made is tracked, finished or given away, and a tracked
\* one that is not retired is in the cache.
Tracked ==
    \A e \in Entries :
        /\ entry[e].made => e \in all \/ e \in forgotten \/ entry[e].closing = "finished"
        /\ e \in all => entry[e].made /\ entry[e].closing # "finished"
        /\ e \in all /\ ~ entry[e].retired => \E t \in Tenants : cache[t] = e

\* A caller that is not idle has an entry, and one that holds a lease a result.
ClientsInv ==
    \A c \in Clients :
        /\ client[c].pc = "idle" <=> client[c].on = NoEntry
        /\ client[c].on # NoEntry => entry[client[c].on].made
        /\ client[c].pc = "holding" => entry[client[c].on].ready /\ ~ entry[client[c].on].err

\* After Shutdown nothing is cached; it returns when nothing is tracked.
ClosedInv == /\ closed => \A t \in Tenants : cache[t] = NoEntry
             /\ stopped => closed /\ all = {}

\* The cache can be counted, and keeps to its capacity.
Bounded == IsFiniteSet(CachedEntries) /\ WithinCapacity

\* The inductive invariant.
RInv == /\ Typed
        /\ \A e \in Entries : EntryInv(entry[e])
        /\ CachedInService /\ Tracked /\ ClientsInv /\ ClosedInv
        /\ RefsMatch /\ Bounded

\* Where a request is says what its client does and whose entry it is on.
RequestsInv ==
    /\ request \in [Clients -> Requests]
    /\ \A c \in Clients :
        /\ request[c].at \in {"new", "answered"} => client[c].pc = "idle"
        /\ At(c, "acquiring") => client[c].pc \in {"waiting", "releasing"}
        /\ request[c].at \in {"gate", "handler", "returning"} => client[c].pc = "holding"
        /\ client[c].pc # "idle" => entry[client[c].on].tenant = request[c].tenant

-----------------------------------------------------------------------------
(* One entry *)

\* What finishLocked does: nothing, or it starts the closer of a drained entry.
LEMMA FinishFacts ==
    ASSUME NEW x, EntryInv(x)
    PROVE  /\ EntryInv(finishLocked(x))
           /\ finishLocked(x).made = x.made /\ finishLocked(x).tenant = x.tenant
           /\ finishLocked(x).retired = x.retired /\ finishLocked(x).refs = x.refs
           /\ finishLocked(x).ready = x.ready /\ finishLocked(x).err = x.err
           /\ finishLocked(x).closing = "finished" <=> x.closing = "finished"
<1> DEFINE y == [x EXCEPT !.closing = "shutdown"]
<1>1. CASE x.retired /\ x.refs = 0 /\ x.ready /\ x.closing = "no"
  <2>1. finishLocked(x) = y
    BY <1>1 DEF finishLocked
  <2>2. x.made
    BY <1>1 DEF EntryInv, Unmade
  <2>3. y \in EntryStates
    BY DEF EntryInv, EntryStates
  <2>4. /\ y.made = x.made /\ y.tenant = x.tenant /\ y.builtFor = x.builtFor
        /\ y.factory = x.factory /\ y.ready = x.ready /\ y.err = x.err /\ y.enf = x.enf
        /\ y.refs = x.refs /\ y.retired = x.retired /\ y.closing = "shutdown"
    BY DEF EntryInv, EntryStates
  <2> HIDE DEF y
  <2> QED
    BY <1>1, <2>1, <2>2, <2>3, <2>4 DEF EntryInv
<1>2. CASE ~ (x.retired /\ x.refs = 0 /\ x.ready /\ x.closing = "no")
  <2>1. finishLocked(x) = x
    BY <1>2 DEF finishLocked
  <2> QED
    BY <2>1
<1> QED
  BY <1>1, <1>2

\* What retireLocked does to an entry that was made.
LEMMA RetireFacts ==
    ASSUME NEW x, EntryInv(x), x.made
    PROVE  /\ EntryInv(retireLocked(x))
           /\ retireLocked(x).made /\ retireLocked(x).tenant = x.tenant
           /\ retireLocked(x).retired /\ retireLocked(x).refs = x.refs
           /\ retireLocked(x).ready = x.ready /\ retireLocked(x).err = x.err
           /\ retireLocked(x).closing = "finished" <=> x.closing = "finished"
<1> DEFINE y == [x EXCEPT !.retired = TRUE, !.done = TRUE]
<1>1. y \in EntryStates
  BY DEF EntryInv, EntryStates
<1>2. /\ y.made = x.made /\ y.tenant = x.tenant /\ y.builtFor = x.builtFor
      /\ y.factory = x.factory /\ y.ready = x.ready /\ y.err = x.err /\ y.enf = x.enf
      /\ y.refs = x.refs /\ y.retired = TRUE /\ y.closing = x.closing
  BY DEF EntryInv, EntryStates
<1>3. retireLocked(x) = finishLocked(y)
  BY DEF retireLocked
<1> HIDE DEF y
<1>4. EntryInv(y)
  BY <1>1, <1>2 DEF EntryInv
<1>5. finishLocked(y).retired = TRUE /\ finishLocked(y).made = x.made
  BY <1>2, <1>4, FinishFacts
<1> QED
  BY <1>2, <1>3, <1>4, <1>5, FinishFacts

\* What a release does to the entry of a caller.
LEMMA ReleaseFacts ==
    ASSUME NEW x, EntryInv(x), x.refs > 0,
           NEW y, y = finishLocked(OneLess(x))
    PROVE  /\ EntryInv(y)
           /\ y.made = x.made /\ y.tenant = x.tenant
           /\ y.retired = x.retired /\ y.refs = x.refs - 1
           /\ y.ready = x.ready /\ y.err = x.err
           /\ y.closing = "finished" <=> x.closing = "finished"
<1> DEFINE z == OneLess(x)
<1>1. z \in EntryStates
  BY DEF EntryInv, EntryStates, OneLess
<1>2. /\ z.made = x.made /\ z.tenant = x.tenant /\ z.builtFor = x.builtFor
      /\ z.factory = x.factory /\ z.ready = x.ready /\ z.err = x.err /\ z.enf = x.enf
      /\ z.refs = x.refs - 1 /\ z.retired = x.retired /\ z.closing = x.closing
  BY DEF EntryInv, EntryStates, OneLess
<1>3. y = finishLocked(z)
  OBVIOUS
<1> HIDE DEF z
<1>4. x.made
  BY DEF EntryInv, Unmade
<1>5. EntryInv(z)
  BY <1>1, <1>2, <1>4 DEF EntryInv
<1> QED
  BY <1>2, <1>3, <1>5, FinishFacts

-----------------------------------------------------------------------------
(* Callers and their entries *)

\* The callers on an entry can be counted.
LEMMA OnFinite == \A e : IsFiniteSet(On(e)) /\ Cardinality(On(e)) \in Nat
<1>1. \A e : On(e) \in SUBSET Clients
  BY DEF On
<1> QED
  BY <1>1, RegistryConstantsOK, FS_Subset, FS_CardinalityType

\* An entry some caller is on has a reference, and no closer.
LEMMA LeasedFacts ==
    ASSUME RInv, NEW c \in Clients, client[c].on # NoEntry
    PROVE  /\ client[c].on \in Entries
           /\ entry[client[c].on].refs > 0
           /\ entry[client[c].on].closing = "no"
<1> DEFINE e == client[c].on
<1>1. e \in Entries
  BY DEF RInv, Typed, ClientStates
<1>2. c \in On(e)
  BY DEF On
<1>3. Cardinality(On(e)) # 0
  BY <1>2, OnFinite, FS_EmptySet
<1>4. entry[e].refs > 0
  BY <1>1, <1>3, OnFinite DEF RInv, RefsMatch
<1>5. EntryInv(entry[e])
  BY <1>1 DEF RInv
<1>6. entry[e].closing = "no"
  BY <1>4, <1>5 DEF EntryInv
<1> QED
  BY <1>1, <1>4, <1>6

\* An entry without references has no callers.
LEMMA UnleasedFacts ==
    ASSUME RInv, NEW e \in Entries, entry[e].refs = 0
    PROVE  On(e) = {}
  BY OnFinite, FS_EmptySet DEF RInv, RefsMatch

-----------------------------------------------------------------------------
(* What the invariant says *)

\* RInv is as strong as the properties.
LEMMA RInvImplies ==
    ASSUME RInv
    PROVE  /\ LeaseSafe /\ RefsMatch /\ FinishedMeansDrained
           /\ StoppedMeansDrained /\ WithinCapacity /\ NoLeak
<1>1. LeaseSafe
  <2> SUFFICES ASSUME NEW c \in Clients, client[c].pc = "holding"
               PROVE  entry[client[c].on].enf = "open"
    BY DEF LeaseSafe
  <2> DEFINE x == entry[client[c].on]
  <2>1. client[c].on # NoEntry /\ x.ready /\ ~ x.err
    BY DEF RInv, ClientsInv
  <2>2. client[c].on \in Entries /\ x.closing = "no"
    BY <2>1, LeasedFacts
  <2>3. EntryInv(x)
    BY <2>2 DEF RInv
  <2> QED
    BY <2>1, <2>2, <2>3 DEF EntryInv
<1>2. FinishedMeansDrained
  <2> SUFFICES ASSUME NEW e \in Entries, entry[e].closing = "finished"
               PROVE  /\ On(e) = {} /\ entry[e].enf # "open"
                      /\ e \notin CachedEntries /\ e \notin all
    BY DEF FinishedMeansDrained
  <2>1. EntryInv(entry[e])
    BY DEF RInv
  <2>2. entry[e].retired /\ entry[e].refs = 0 /\ entry[e].enf # "open"
    BY <2>1 DEF EntryInv
  <2>3. On(e) = {}
    BY <2>2, UnleasedFacts
  <2>4. e \notin all
    BY DEF RInv, Tracked
  <2>5. e \notin CachedEntries
    BY <2>2 DEF RInv, CachedInService, CachedEntries
  <2> QED
    BY <2>2, <2>3, <2>4, <2>5
<1>3. StoppedMeansDrained
  <2> SUFFICES ASSUME stopped, NEW e \in Entries, e \notin forgotten
               PROVE  On(e) = {} /\ entry[e].enf # "open"
    BY DEF StoppedMeansDrained
  <2>1. ~ entry[e].made \/ entry[e].closing = "finished"
    BY DEF RInv, ClosedInv, Tracked
  <2>2. EntryInv(entry[e])
    BY DEF RInv
  <2>3. entry[e].refs = 0 /\ entry[e].enf # "open"
    BY <2>1, <2>2 DEF EntryInv, Unmade
  <2> QED
    BY <2>3, UnleasedFacts
<1>4. NoLeak
  <2> SUFFICES ASSUME NEW e \in Entries, entry[e].enf = "open"
               PROVE  \/ e \in CachedEntries
                      \/ e \in all /\ entry[e].retired
                      \/ e \in forgotten
    BY DEF NoLeak
  <2>1. EntryInv(entry[e])
    BY DEF RInv
  <2>2. entry[e].made /\ entry[e].closing # "finished"
    BY <2>1 DEF EntryInv, Unmade
  <2>3. e \in all \/ e \in forgotten
    BY <2>2 DEF RInv, Tracked
  <2>4. e \in all /\ ~ entry[e].retired => e \in CachedEntries
    BY RegistryConstantsOK DEF RInv, Tracked, CachedEntries
  <2> QED
    BY <2>3, <2>4
<1> QED
  BY <1>1, <1>2, <1>3, <1>4 DEF RInv, Bounded

-----------------------------------------------------------------------------
(* The steps *)

\* The registry of a new process.
LEMMA RInit == Init => RInv
<1> SUFFICES ASSUME Init PROVE RInv
  OBVIOUS
<1>1. \A e \in Entries : entry[e] = Unmade
  BY DEF Init
<1>2. \A c \in Clients : client[c] = Idle
  BY DEF Init
<1>3. \A t \in Tenants : cache[t] = NoEntry
  BY DEF Init
<1>4. EntryInv(Unmade)
  BY DEF EntryInv, EntryStates, Unmade
<1>5. Typed
  BY <1>4 DEF Init, Typed, EntryInv, ClientStates, Idle
<1>6. CachedEntries = {}
  BY <1>3 DEF CachedEntries
<1>7. Bounded
  BY <1>6, FS_EmptySet, RegistryConstantsOK DEF Bounded, WithinCapacity
<1>8. RefsMatch
  <2> SUFFICES ASSUME NEW e \in Entries PROVE entry[e].refs = Cardinality(On(e))
    BY DEF RefsMatch
  <2>1. On(e) = {}
    BY <1>2, RegistryConstantsOK DEF On, Idle
  <2> QED
    BY <1>1, <2>1, FS_EmptySet DEF Unmade
<1>9. CachedInService /\ ClosedInv
  BY <1>3 DEF Init, CachedInService, ClosedInv
<1>10. Tracked
  BY <1>1 DEF Init, Tracked, Unmade
<1>11. ClientsInv
  BY <1>2 DEF ClientsInv, Idle
<1> QED
  BY <1>1, <1>4, <1>5, <1>7, <1>8, <1>9, <1>10, <1>11 DEF RInv

\* Entry e goes from x to y, and what the registry knows of it stays.
SameRole(x, y) ==
    /\ y.made = x.made /\ y.tenant = x.tenant /\ y.retired = x.retired
    /\ y.closing = "finished" <=> x.closing = "finished"
    /\ x.ready => y.ready = TRUE /\ y.err = x.err

\* A step of a provision or closer goroutine that only changes its entry.
LEMMA EntryStep ==
    ASSUME RInv, UNCHANGED <<cache, all, client, closed, stopped, forgotten>>,
           NEW e \in Entries, NEW y, entry' = [entry EXCEPT ![e] = y],
           EntryInv(y), SameRole(entry[e], y), y.refs = entry[e].refs
    PROVE  RInv'
<1> USE DEF SameRole
<1>1. \A x \in Entries : entry'[x] = IF x = e THEN y ELSE entry[x]
  BY DEF RInv, Typed
<1>2. Typed'
  BY DEF RInv, Typed, EntryInv
<1>3. \A x \in Entries : EntryInv(entry'[x])
  BY <1>1 DEF RInv
<1>4. /\ \A x \in Entries : SameRole(entry[x], entry'[x]) /\ entry'[x].refs = entry[x].refs
  BY <1>1
<1>5. CachedInService'
  BY <1>4 DEF RInv, Typed, CachedInService
<1>6. Tracked'
  BY <1>4 DEF RInv, Tracked
<1>7. ClientsInv'
  BY <1>4 DEF RInv, Typed, ClientStates, ClientsInv
<1>8. RefsMatch'
  BY <1>4 DEF RInv, RefsMatch, On
<1>9. ClosedInv' /\ Bounded'
  BY DEF RInv, ClosedInv, Bounded, WithinCapacity, CachedEntries
<1> QED
  BY <1>2, <1>3, <1>5, <1>6, <1>7, <1>8, <1>9 DEF RInv

\* A waiting caller goes on without a change of its entry.
LEMMA WaiterStep ==
    ASSUME RInv, UNCHANGED <<cache, all, entry, closed, stopped, forgotten>>,
           NEW c \in Clients, NEW pc \in {"holding", "releasing"},
           client[c].pc = "waiting", client' = [client EXCEPT ![c].pc = pc],
           pc = "holding" => entry[client[c].on].ready /\ ~ entry[client[c].on].err
    PROVE  RInv'
<1>1. \A d \in Clients : /\ client'[d].on = client[d].on
                         /\ client'[d].pc = IF d = c THEN pc ELSE client[d].pc
  BY DEF RInv, Typed, ClientStates
<1>2. Typed'
  BY DEF RInv, Typed, ClientStates
<1>3. ClientsInv'
  BY <1>1 DEF RInv, ClientsInv
<1>4. \A e : On(e)' = On(e)
  BY <1>1 DEF On
<1>5. RefsMatch'
  BY <1>4 DEF RInv, RefsMatch
<1>6. CachedInService' /\ Tracked' /\ ClosedInv' /\ Bounded'
  BY DEF RInv, CachedInService, Tracked, ClosedInv, Bounded, WithinCapacity, CachedEntries
<1> QED
  BY <1>2, <1>3, <1>5, <1>6 DEF RInv

\* A caller gets on entry e: one more is counted there.
LEMMA OneMoreOn ==
    ASSUME RInv, NEW c \in Clients, NEW e \in Entries, client[c].pc = "idle",
           client' = [client EXCEPT ![c] = [pc |-> "waiting", on |-> e]]
    PROVE  /\ Cardinality(On(e)') = Cardinality(On(e)) + 1
           /\ \A x \in Entries \ {e} : On(x)' = On(x)
<1>1. client[c].on = NoEntry /\ NoEntry \notin Entries
  BY RegistryConstantsOK DEF RInv, ClientsInv
<1>2. \A d \in Clients : client'[d] = IF d = c THEN [pc |-> "waiting", on |-> e] ELSE client[d]
  BY DEF RInv, Typed
<1>3. On(e)' = On(e) \cup {c} /\ c \notin On(e)
  BY <1>1, <1>2 DEF On
<1>4. \A x \in Entries \ {e} : On(x)' = On(x)
  BY <1>1, <1>2 DEF On
<1>5. Cardinality(On(e) \cup {c}) = Cardinality(On(e)) + 1
  BY <1>3, OnFinite, FS_AddElement
<1> QED
  BY <1>3, <1>4, <1>5

\* A caller that finds an entry becomes one of those on it, and is counted.
LEMMA AcquireCachedInv ==
    ASSUME RInv, NEW c \in Clients, NEW t \in Tenants, AcquireCached(c, t)
    PROVE  RInv'
<1>0. PICK e \in Entries : e = cache[t]
  BY DEF AcquireCached, RInv, Typed
<1> DEFINE y == [entry[e] EXCEPT !.refs = @ + 1]
<1>1. e \in Entries /\ client[c].pc = "idle" /\ entry[e].made /\ ~ entry[e].retired
  BY <1>0, RegistryConstantsOK DEF AcquireCached, RInv, CachedInService
<1>2. /\ entry' = [entry EXCEPT ![e] = y]
      /\ client' = [client EXCEPT ![c] = [pc |-> "waiting", on |-> e]]
      /\ UNCHANGED <<cache, all, closed, stopped, forgotten>>
  BY <1>0 DEF AcquireCached
<1>3. EntryInv(entry[e])
  BY <1>1 DEF RInv
<1>4. y \in EntryStates
  BY <1>3 DEF EntryInv, EntryStates
<1>5. /\ y.made = entry[e].made /\ y.tenant = entry[e].tenant /\ y.builtFor = entry[e].builtFor
      /\ y.factory = entry[e].factory /\ y.ready = entry[e].ready /\ y.err = entry[e].err
      /\ y.enf = entry[e].enf /\ y.refs = entry[e].refs + 1
      /\ y.retired = entry[e].retired /\ y.closing = entry[e].closing
  BY <1>3 DEF EntryInv, EntryStates
<1> HIDE DEF y
<1>6. EntryInv(y)
  BY <1>1, <1>3, <1>4, <1>5 DEF EntryInv
<1>7. \A x \in Entries : entry'[x] = IF x = e THEN y ELSE entry[x]
  BY <1>2 DEF RInv, Typed
<1>8. \A x \in Entries : /\ entry'[x].made = entry[x].made /\ entry'[x].tenant = entry[x].tenant
                         /\ entry'[x].retired = entry[x].retired
                         /\ entry'[x].closing = entry[x].closing
                         /\ entry'[x].ready = entry[x].ready /\ entry'[x].err = entry[x].err
  BY <1>5, <1>7
<1>9. \A d \in Clients : client'[d] = IF d = c THEN [pc |-> "waiting", on |-> e] ELSE client[d]
  BY <1>2 DEF RInv, Typed
<1>10. Typed'
  BY <1>1, <1>2, <1>4 DEF RInv, Typed, ClientStates
<1>11. \A x \in Entries : EntryInv(entry'[x])
  BY <1>6, <1>7 DEF RInv
<1>12. CachedInService' /\ Tracked' /\ ClosedInv' /\ Bounded'
  <2>1. CachedInService'
    BY <1>2, <1>8 DEF RInv, Typed, CachedInService
  <2>2. Tracked'
    BY <1>2, <1>8 DEF RInv, Tracked
  <2>3. ClosedInv' /\ Bounded'
    BY <1>2 DEF RInv, ClosedInv, Bounded, WithinCapacity, CachedEntries
  <2> QED
    BY <2>1, <2>2, <2>3
<1>13. ClientsInv'
  BY <1>1, <1>8, <1>9, RegistryConstantsOK DEF RInv, Typed, ClientStates, ClientsInv
<1>14. RefsMatch'
  <2> SUFFICES ASSUME NEW x \in Entries PROVE entry'[x].refs = Cardinality(On(x)')
    BY DEF RefsMatch
  <2>1. entry[x].refs = Cardinality(On(x))
    BY DEF RInv, RefsMatch
  <2>2. Cardinality(On(e)') = Cardinality(On(e)) + 1 /\ \A z \in Entries \ {e} : On(z)' = On(z)
    BY <1>1, <1>2, OneMoreOn
  <2> QED
    BY <1>5, <1>7, <2>1, <2>2
<1> QED
  BY <1>10, <1>11, <1>12, <1>13, <1>14 DEF RInv

\* A release takes its caller off the entry, and the last one of a retired entry
\* starts the closer: nobody is left on it then.
LEMMA ReleaseInv ==
    ASSUME RInv, NEW c \in Clients, Release(c)
    PROVE  RInv'
<1>0. client[c].on # NoEntry
  BY DEF Release, RInv, ClientsInv
<1>1. PICK e \in Entries : e = client[c].on /\ entry[e].refs > 0
  BY <1>0, LeasedFacts
<1> DEFINE y == finishLocked(OneLess(entry[e]))
<1>2. /\ entry' = [entry EXCEPT ![e] = y]
      /\ client' = [client EXCEPT ![c] = Idle]
      /\ UNCHANGED <<cache, all, closed, stopped, forgotten>>
  BY <1>1 DEF Release, Released
<1>3. EntryInv(entry[e])
  BY <1>1 DEF RInv
<1>4. /\ EntryInv(y)
      /\ y.made = entry[e].made /\ y.tenant = entry[e].tenant
      /\ y.retired = entry[e].retired /\ y.refs = entry[e].refs - 1
      /\ y.ready = entry[e].ready /\ y.err = entry[e].err
      /\ y.closing = "finished" <=> entry[e].closing = "finished"
  BY <1>1, <1>3, ReleaseFacts
<1> HIDE DEF y
<1>5. \A x \in Entries : entry'[x] = IF x = e THEN y ELSE entry[x]
  BY <1>2 DEF RInv, Typed
<1>6. \A x \in Entries : /\ entry'[x].made = entry[x].made /\ entry'[x].tenant = entry[x].tenant
                         /\ entry'[x].retired = entry[x].retired
                         /\ entry'[x].closing = "finished" <=> entry[x].closing = "finished"
                         /\ entry'[x].ready = entry[x].ready /\ entry'[x].err = entry[x].err
  BY <1>4, <1>5
<1>7. \A d \in Clients : client'[d] = IF d = c THEN Idle ELSE client[d]
  BY <1>2 DEF RInv, Typed
<1>8. Typed'
  BY <1>1, <1>2, <1>4 DEF RInv, Typed, ClientStates, Idle, EntryInv
<1>9. \A x \in Entries : EntryInv(entry'[x])
  BY <1>4, <1>5 DEF RInv
<1>10. CachedInService' /\ Tracked' /\ ClosedInv' /\ Bounded'
  <2>1. CachedInService'
    BY <1>2, <1>6 DEF RInv, Typed, CachedInService
  <2>2. Tracked'
    BY <1>2, <1>6 DEF RInv, Tracked
  <2>3. ClosedInv' /\ Bounded'
    BY <1>2 DEF RInv, ClosedInv, Bounded, WithinCapacity, CachedEntries
  <2> QED
    BY <2>1, <2>2, <2>3
<1>11. ClientsInv'
  BY <1>6, <1>7 DEF RInv, Typed, ClientStates, ClientsInv, Idle
<1>12. RefsMatch'
  <2>1. c \in On(e) /\ On(e)' = On(e) \ {c} /\ \A x \in Entries \ {e} : On(x)' = On(x)
    BY <1>1, <1>7, RegistryConstantsOK DEF On, Idle
  <2>2. Cardinality(On(e) \ {c}) = Cardinality(On(e)) - 1
    BY <2>1, OnFinite, FS_RemoveElement
  <2> QED
    BY <1>1, <1>4, <1>5, <2>1, <2>2 DEF RInv, RefsMatch
<1> QED
  BY <1>8, <1>9, <1>10, <1>11, <1>12 DEF RInv

\* Retiring cached entries changes nothing else that the registry knows of them.
LEMMA RetiredEntries ==
    ASSUME RInv, NEW S, S \subseteq CachedEntries, NEW e \in Entries
    PROVE  /\ EntryInv(Retire(S)[e])
           /\ Retire(S)[e].made = entry[e].made /\ Retire(S)[e].tenant = entry[e].tenant
           /\ Retire(S)[e].refs = entry[e].refs
           /\ Retire(S)[e].ready = entry[e].ready /\ Retire(S)[e].err = entry[e].err
           /\ Retire(S)[e].closing = "finished" <=> entry[e].closing = "finished"
           /\ Retire(S)[e].retired <=> entry[e].retired \/ e \in S
<1>1. EntryInv(entry[e])
  BY DEF RInv
<1>2. CASE e \in S
  <2>1. entry[e].made
    BY <1>2 DEF RInv, CachedInService, CachedEntries
  <2>2. Retire(S)[e] = retireLocked(entry[e])
    BY <1>2 DEF Retire
  <2>3. retireLocked(entry[e]).made = TRUE /\ entry[e].made = TRUE
    BY <1>1, <2>1, RetireFacts DEF EntryInv, EntryStates
  <2>4. /\ EntryInv(retireLocked(entry[e])) /\ retireLocked(entry[e]).tenant = entry[e].tenant
        /\ retireLocked(entry[e]).retired /\ retireLocked(entry[e]).refs = entry[e].refs
        /\ retireLocked(entry[e]).ready = entry[e].ready
        /\ retireLocked(entry[e]).err = entry[e].err
        /\ retireLocked(entry[e]).closing = "finished" <=> entry[e].closing = "finished"
    BY <1>1, <2>1, RetireFacts
  <2> QED
    BY <1>2, <2>2, <2>3, <2>4
<1>3. CASE e \notin S
  <2>1. Retire(S)[e] = entry[e]
    BY <1>3 DEF Retire
  <2> QED
    BY <1>1, <1>3, <2>1
<1> QED
  BY <1>2, <1>3

\* The cached entries are cached for their own tenants only.
LEMMA CacheFacts ==
    ASSUME RInv
    PROVE  /\ CachedEntries \subseteq Entries
           /\ \A t \in Tenants : cache[t] # NoEntry =>
                 /\ cache[t] \in CachedEntries
                 /\ \A u \in Tenants : cache[u] = cache[t] => u = t
<1>1. CachedEntries \subseteq Entries
  BY DEF RInv, Typed, CachedEntries
<1>2. \A t \in Tenants : cache[t] # NoEntry => cache[t] \in CachedEntries
  BY DEF CachedEntries
<1>3. \A t, u \in Tenants : cache[t] # NoEntry /\ cache[u] = cache[t] => u = t
  BY DEF RInv, CachedInService
<1> QED
  BY <1>1, <1>2, <1>3

\* What is left of the cache without the entries of S.
LEMMA WithoutFacts ==
    ASSUME RInv, NEW S, S \subseteq CachedEntries
    PROVE  /\ Without(S) \in [Tenants -> Entries \cup {NoEntry}]
           /\ {Without(S)[t] : t \in Tenants} \ {NoEntry} = CachedEntries \ S
<1>1. \A t \in Tenants : Without(S)[t] = IF cache[t] \in S THEN NoEntry ELSE cache[t]
  BY DEF Without
<1>2. NoEntry \notin S
  BY DEF CachedEntries
<1>3. Without(S) \in [Tenants -> Entries \cup {NoEntry}]
  BY DEF Without, RInv, Typed
<1>4. {Without(S)[t] : t \in Tenants} \ {NoEntry} = CachedEntries \ S
  BY <1>1, <1>2 DEF CachedEntries
<1> QED
  BY <1>3, <1>4

\* Entries are taken out of the cache and retired.
LEMMA RetireStep ==
    ASSUME RInv, NEW S, S \subseteq CachedEntries,
           cache' = Without(S), entry' = Retire(S),
           UNCHANGED <<all, client, closed, stopped, forgotten>>
    PROVE  RInv'
<1>1. \A e \in Entries :
          /\ EntryInv(entry'[e])
          /\ entry'[e].made = entry[e].made /\ entry'[e].tenant = entry[e].tenant
          /\ entry'[e].refs = entry[e].refs
          /\ entry'[e].ready = entry[e].ready /\ entry'[e].err = entry[e].err
          /\ entry'[e].closing = "finished" <=> entry[e].closing = "finished"
          /\ entry'[e].retired <=> entry[e].retired \/ e \in S
  BY RetiredEntries
<1>2. \A t \in Tenants : cache'[t] = IF cache[t] \in S THEN NoEntry ELSE cache[t]
  BY DEF Without
<1>3. CachedEntries' = CachedEntries \ S
  BY WithoutFacts DEF CachedEntries
<1>4. Typed'
  <2>1. entry' = [e \in Entries |-> entry'[e]]
    BY DEF Retire
  <2>2. \A e \in Entries : entry'[e] \in EntryStates
    BY <1>1 DEF EntryInv
  <2>3. entry' \in [Entries -> EntryStates]
    BY <2>1, <2>2
  <2> QED
    BY <2>3, WithoutFacts DEF RInv, Typed
<1>5. CachedInService'
  BY <1>1, <1>2 DEF RInv, Typed, CachedInService
<1>6. Tracked'
  <2> SUFFICES ASSUME NEW e \in Entries
               PROVE  /\ entry'[e].made => e \in all \/ e \in forgotten \/ entry'[e].closing = "finished"
                      /\ e \in all => entry'[e].made /\ entry'[e].closing # "finished"
                      /\ e \in all /\ ~ entry'[e].retired => \E t \in Tenants : cache'[t] = e
    BY DEF Tracked
  <2>1. e \in all /\ ~ entry'[e].retired => \E t \in Tenants : cache'[t] = e
    BY <1>1, <1>2 DEF RInv, Tracked
  <2> QED
    BY <1>1, <2>1 DEF RInv, Tracked
<1>7. ClientsInv'
  BY <1>1 DEF RInv, Typed, ClientStates, ClientsInv
<1>8. ClosedInv'
  BY <1>2 DEF RInv, ClosedInv
<1>9. RefsMatch'
  BY <1>1 DEF RInv, RefsMatch, On
<1>10. Bounded'
  <2>1. IsFiniteSet(CachedEntries)
    BY DEF RInv, Bounded
  <2>2. CachedEntries \ S \in SUBSET CachedEntries
    OBVIOUS
  <2>3. IsFiniteSet(CachedEntries \ S) /\ Cardinality(CachedEntries \ S) <= Cardinality(CachedEntries)
    BY <2>1, <2>2, FS_Subset
  <2>4. Cardinality(CachedEntries) \in Nat /\ Cardinality(CachedEntries \ S) \in Nat
    BY <2>1, <2>3, FS_CardinalityType
  <2>5. Capacity = 0 \/ Cardinality(CachedEntries) <= Capacity
    BY DEF RInv, Bounded, WithinCapacity
  <2> QED
    BY <1>3, <2>3, <2>4, <2>5, RegistryConstantsOK DEF Bounded, WithinCapacity
<1> QED
  BY <1>1, <1>4, <1>5, <1>6, <1>7, <1>8, <1>9, <1>10 DEF RInv

\* An eviction takes one entry, pruning some, ClearAndClose all.
LEMMA EvictionInv ==
    ASSUME RInv,
           \/ \E t \in Tenants : EvictContext(t)
           \/ \E S \in SUBSET Entries : PruneIdle(S)
           \/ ClearAndCloseContext
    PROVE  RInv'
<1>1. ASSUME NEW t \in Tenants, EvictContext(t) PROVE RInv'
  <2>1. cache[t] # NoEntry /\ cache[t] \in CachedEntries
    BY <1>1, CacheFacts DEF EvictContext
  <2>2. cache' = Without({cache[t]})
    <3>1. cache' = [cache EXCEPT ![t] = NoEntry]
      BY <1>1 DEF EvictContext
    <3>2. \A u \in Tenants : cache[u] = cache[t] => u = t
      BY <2>1, CacheFacts
    <3> QED
      BY <3>1, <3>2 DEF Without, RInv, Typed
  <2> QED
    BY <1>1, <2>1, <2>2, RetireStep DEF EvictContext
<1>2. ASSUME NEW S \in SUBSET Entries, PruneIdle(S) PROVE RInv'
  <2>1. S \subseteq CachedEntries
    BY <1>2 DEF PruneIdle, Unleased
  <2> QED
    BY <1>2, <2>1, RetireStep DEF PruneIdle
<1>3. CASE ClearAndCloseContext
  <2>1. cache' = Without(CachedEntries)
    BY <1>3 DEF ClearAndCloseContext, Without, CachedEntries
  <2> QED
    BY <1>3, <2>1, RetireStep DEF ClearAndCloseContext
<1> QED
  BY <1>1, <1>2, <1>3

\* Clear gives the cached entries away.
LEMMA ClearInv == ASSUME RInv, Clear PROVE RInv'
<1>1. /\ \A t \in Tenants : cache'[t] = NoEntry
      /\ all' = all \ CachedEntries /\ forgotten' = forgotten \cup CachedEntries
      /\ UNCHANGED <<entry, client, closed, stopped>>
  BY DEF Clear
<1>2. CachedEntries \subseteq Entries
  BY CacheFacts
<1>3. Typed'
  BY <1>1, <1>2 DEF Clear, RInv, Typed
<1>4. CachedInService' /\ ClosedInv'
  BY <1>1 DEF RInv, CachedInService, ClosedInv
<1>5. Tracked'
  <2>1. \A e \in Entries : e \in all /\ ~ entry[e].retired => e \in CachedEntries
    BY RegistryConstantsOK DEF RInv, Tracked, CachedEntries
  <2> QED
    BY <1>1, <2>1 DEF RInv, Tracked
<1>6. ClientsInv' /\ RefsMatch'
  BY <1>1 DEF RInv, ClientsInv, RefsMatch, On
<1>7. Bounded'
  <2>1. CachedEntries' = {}
    BY <1>1 DEF CachedEntries
  <2> QED
    BY <2>1, FS_EmptySet, RegistryConstantsOK DEF Bounded, WithinCapacity
<1> QED
  BY <1>1, <1>3, <1>4, <1>5, <1>6, <1>7 DEF RInv

\* Shutdown retires what is tracked and cancels the rest.
LEMMA ShutdownInv == ASSUME RInv, Shutdown PROVE RInv'
<1> DEFINE cancelled(e) == [entry[e] EXCEPT !.done = entry[e].made]
<1>1. /\ \A t \in Tenants : cache'[t] = NoEntry
      /\ closed' = TRUE /\ stopped' = (stopped \/ all = {})
      /\ UNCHANGED <<all, client, forgotten>>
      /\ cache' = [t \in Tenants |-> NoEntry]
  BY DEF Shutdown, signalStopped
<1>2. \A e \in Entries : entry'[e] = IF e \in all THEN retireLocked(entry[e]) ELSE cancelled(e)
  BY DEF Shutdown
<1>3. ASSUME NEW e \in Entries
      PROVE  /\ EntryInv(entry'[e])
             /\ entry'[e].made = entry[e].made /\ entry'[e].tenant = entry[e].tenant
             /\ entry'[e].refs = entry[e].refs
             /\ entry'[e].ready = entry[e].ready /\ entry'[e].err = entry[e].err
             /\ entry'[e].closing = "finished" <=> entry[e].closing = "finished"
             /\ e \in all => entry'[e].retired = TRUE
  <2>1. EntryInv(entry[e])
    BY DEF RInv
  <2>2. CASE e \in all
    <3>1. entry[e].made /\ entry[e].made = TRUE
      BY <2>1, <2>2 DEF RInv, Tracked, EntryInv, EntryStates
    <3>2. retireLocked(entry[e]).made = TRUE /\ retireLocked(entry[e]).retired = TRUE
      BY <2>1, <3>1, RetireFacts DEF EntryInv, EntryStates
    <3>3. entry'[e] = retireLocked(entry[e])
      BY <1>2, <2>2
    <3> QED
      BY <2>1, <3>1, <3>2, <3>3, RetireFacts
  <2>3. CASE e \notin all
    <3> DEFINE x == entry[e]
    <3> DEFINE y == [x EXCEPT !.done = x.made]
    <3>1. entry'[e] = y
      BY <1>2, <2>3
    <3>2. y \in EntryStates
      BY <2>1 DEF EntryInv, EntryStates
    <3>3. /\ y.made = x.made /\ y.tenant = x.tenant /\ y.builtFor = x.builtFor
          /\ y.factory = x.factory /\ y.ready = x.ready /\ y.err = x.err /\ y.enf = x.enf
          /\ y.refs = x.refs /\ y.retired = x.retired /\ y.closing = x.closing
      BY <2>1 DEF EntryInv, EntryStates
    <3>4. ~ x.made => y = Unmade
      <4> SUFFICES ASSUME ~ x.made PROVE y = Unmade
        OBVIOUS
      <4>1. x = Unmade
        BY <2>1 DEF EntryInv
      <4>2. x.made = FALSE
        BY <4>1 DEF Unmade
      <4>3. x.done = FALSE
        BY <4>1 DEF Unmade
      <4>4. y = [x EXCEPT !.done = FALSE]
        BY <4>2
      <4>5. y = x
        BY <2>1, <4>3, <4>4 DEF EntryInv, EntryStates
      <4> QED
        BY <4>1, <4>5
    <3> HIDE DEF y
    <3>5. EntryInv(y)
      BY <2>1, <3>2, <3>3, <3>4 DEF EntryInv
    <3> QED
      BY <2>3, <3>1, <3>3, <3>5
  <2> QED
    BY <2>2, <2>3
<1>4. Typed'
  <2>1. entry' = [e \in Entries |-> entry'[e]]
    BY DEF Shutdown
  <2>2. \A e \in Entries : entry'[e] \in EntryStates
    BY <1>3 DEF EntryInv
  <2>3. entry' \in [Entries -> EntryStates]
    BY <2>1, <2>2
  <2> QED
    BY <1>1, <2>3 DEF RInv, Typed
<1>5. CachedInService' /\ ClosedInv'
  BY <1>1 DEF RInv, CachedInService, ClosedInv
<1>6. Tracked'
  BY <1>1, <1>3 DEF RInv, Tracked
<1>7. ClientsInv'
  BY <1>1, <1>3 DEF RInv, Typed, ClientStates, ClientsInv
<1>8. RefsMatch'
  BY <1>1, <1>3 DEF RInv, RefsMatch, On
<1>9. Bounded'
  <2>1. CachedEntries' = {}
    BY <1>1 DEF CachedEntries
  <2> QED
    BY <2>1, FS_EmptySet, RegistryConstantsOK DEF Bounded, WithinCapacity
<1> QED
  BY <1>3, <1>4, <1>5, <1>6, <1>7, <1>8, <1>9 DEF RInv

\* The steps of the provision goroutine and of the timer.
LEMMA ProvisionInv ==
    ASSUME RInv, NEW e \in Entries, ProvisionStep(e) \/ FactoryTimeout(e)
    PROVE  RInv'
<1> DEFINE x == entry[e]
<1>0. EntryInv(x) /\ x \in EntryStates
  BY DEF RInv, EntryInv
<1>1. ASSUME NEW t \in Tenants, FactoryBuilds(e, t) PROVE RInv'
  <2> DEFINE y == [x EXCEPT !.factory = "returned", !.enf = "open", !.builtFor = t]
  <2>1. entry' = [entry EXCEPT ![e] = y]
    BY <1>1 DEF FactoryBuilds, RInv, Typed
  <2>2. y \in EntryStates
    BY <1>0 DEF EntryStates
  <2>3. /\ y.made = x.made /\ y.tenant = x.tenant /\ y.builtFor = t
        /\ y.factory = "returned" /\ y.ready = x.ready /\ y.err = x.err /\ y.enf = "open"
        /\ y.refs = x.refs /\ y.retired = x.retired /\ y.closing = x.closing
    BY <1>0 DEF EntryStates
  <2>4. x.made /\ x.factory = "running" /\ t = x.tenant
    BY <1>1 DEF FactoryBuilds, Accepted
  <2> HIDE DEF y
  <2>5. EntryInv(y) /\ SameRole(x, y)
    BY <1>0, <2>2, <2>3, <2>4 DEF EntryInv, SameRole
  <2> QED
    BY <1>1, <2>1, <2>3, <2>5, EntryStep DEF FactoryBuilds
<1>2. ASSUME NEW built \in BOOLEAN, FactoryFails(e, built) PROVE RInv'
  <2> DEFINE y == [x EXCEPT !.factory = "returned", !.err = TRUE,
                            !.enf = IF built THEN "shut" ELSE "none"]
  <2>1. entry' = [entry EXCEPT ![e] = y]
    BY <1>2 DEF FactoryFails, RInv, Typed
  <2>2. y \in EntryStates
    BY <1>0 DEF EntryStates
  <2>3. /\ y.made = x.made /\ y.tenant = x.tenant
        /\ y.factory = "returned" /\ y.ready = x.ready /\ y.err = TRUE /\ y.enf # "open"
        /\ y.refs = x.refs /\ y.retired = x.retired /\ y.closing = x.closing
    BY <1>0 DEF EntryStates
  <2>4. x.made /\ x.factory = "running"
    BY <1>2 DEF FactoryFails
  <2> HIDE DEF y
  <2>5. EntryInv(y) /\ SameRole(x, y)
    BY <1>0, <2>2, <2>3, <2>4 DEF EntryInv, SameRole
  <2> QED
    BY <1>2, <2>1, <2>3, <2>5, EntryStep DEF FactoryFails
<1>3. CASE PublishEntry(e)
  <2> DEFINE y == [x EXCEPT !.factory = "published", !.ready = TRUE, !.done = TRUE]
  <2>1. entry' = [entry EXCEPT ![e] = finishLocked(y)]
    BY <1>3 DEF PublishEntry, Published
  <2>2. y \in EntryStates
    BY <1>0 DEF EntryStates
  <2>3. /\ y.made = x.made /\ y.tenant = x.tenant /\ y.builtFor = x.builtFor
        /\ y.factory = "published" /\ y.ready = TRUE /\ y.err = x.err /\ y.enf = x.enf
        /\ y.refs = x.refs /\ y.retired = x.retired /\ y.closing = x.closing
    BY <1>0 DEF EntryStates
  <2>4. x.made /\ x.factory = "returned"
    BY <1>0, <1>3 DEF PublishEntry, EntryInv, Unmade
  <2> HIDE DEF y
  <2>5. EntryInv(y)
    BY <1>0, <2>2, <2>3, <2>4 DEF EntryInv
  <2>6. EntryInv(finishLocked(y)) /\ SameRole(x, finishLocked(y)) /\ finishLocked(y).refs = x.refs
    BY <2>3, <2>5, FinishFacts DEF SameRole
  <2> QED
    BY <1>3, <2>1, <2>6, EntryStep DEF PublishEntry
<1>4. CASE FactoryTimeout(e)
  <2> DEFINE y == [x EXCEPT !.done = TRUE]
  <2>1. entry' = [entry EXCEPT ![e] = y]
    BY <1>4 DEF FactoryTimeout, RInv, Typed
  <2>2. y \in EntryStates
    BY <1>0 DEF EntryStates
  <2>3. /\ y.made = x.made /\ y.tenant = x.tenant /\ y.builtFor = x.builtFor
        /\ y.factory = x.factory /\ y.ready = x.ready /\ y.err = x.err /\ y.enf = x.enf
        /\ y.refs = x.refs /\ y.retired = x.retired /\ y.closing = x.closing
    BY <1>0 DEF EntryStates
  <2>4. x.made
    BY <1>4 DEF FactoryTimeout
  <2> HIDE DEF y
  <2>5. EntryInv(y) /\ SameRole(x, y)
    BY <1>0, <2>2, <2>3, <2>4 DEF EntryInv, SameRole, EntryStates
  <2> QED
    BY <1>4, <2>1, <2>3, <2>5, EntryStep DEF FactoryTimeout
<1> QED
  BY <1>1, <1>2, <1>3, <1>4 DEF ProvisionStep

\* The closer shuts the enforcer down.
LEMMA CloseEnforcerInv ==
    ASSUME RInv, NEW e \in Entries, CloseEnforcer(e)
    PROVE  RInv'
<1> DEFINE x == entry[e]
<1> DEFINE y == [x EXCEPT !.closing = "finish",
                          !.enf = IF x.enf = "open" /\ x.ready THEN "shut" ELSE x.enf]
<1>0. EntryInv(x) /\ x \in EntryStates /\ x.closing = "shutdown"
  BY DEF RInv, EntryInv, CloseEnforcer
<1>1. entry' = [entry EXCEPT ![e] = y]
  BY DEF CloseEnforcer, RInv, Typed
<1>2. y \in EntryStates
  BY <1>0 DEF EntryStates
<1>3. /\ y.made = x.made /\ y.tenant = x.tenant /\ y.builtFor = x.builtFor
      /\ y.factory = x.factory /\ y.ready = x.ready /\ y.err = x.err
      /\ y.refs = x.refs /\ y.retired = x.retired /\ y.closing = "finish"
      /\ y.enf = IF x.enf = "open" /\ x.ready THEN "shut" ELSE x.enf
  BY <1>0 DEF EntryStates
<1>4. x.ready /\ x.made
  BY <1>0 DEF EntryInv, Unmade
<1> HIDE DEF y
<1>5. EntryInv(y) /\ SameRole(x, y)
  BY <1>0, <1>2, <1>3, <1>4 DEF EntryInv, SameRole, EntryStates
<1> QED
  BY <1>1, <1>3, <1>5, EntryStep DEF CloseEnforcer

\* The closer takes the entry out of the tracked ones.
LEMMA FinishEntryInv ==
    ASSUME RInv, NEW e \in Entries, FinishEntry(e)
    PROVE  RInv'
<1> DEFINE x == entry[e]
<1> DEFINE y == [x EXCEPT !.closing = "finished"]
<1>0. EntryInv(x) /\ x \in EntryStates /\ x.closing = "finish"
  BY DEF RInv, EntryInv, FinishEntry
<1>1. /\ entry' = [entry EXCEPT ![e] = y]
      /\ all' = all \ {e}
      /\ stopped' = (stopped \/ (closed /\ all \ {e} = {}))
      /\ UNCHANGED <<cache, client, closed, forgotten>>
  BY DEF FinishEntry, RInv, Typed, signalStopped
<1>2. y \in EntryStates
  BY <1>0 DEF EntryStates
<1>3. /\ y.made = x.made /\ y.tenant = x.tenant /\ y.builtFor = x.builtFor
      /\ y.factory = x.factory /\ y.ready = x.ready /\ y.err = x.err /\ y.enf = x.enf
      /\ y.refs = x.refs /\ y.retired = x.retired /\ y.closing = "finished"
  BY <1>0 DEF EntryStates
<1>4. x.ready /\ x.made /\ x.retired
  BY <1>0 DEF EntryInv, Unmade
<1> HIDE DEF y
<1>5. EntryInv(y)
  BY <1>0, <1>2, <1>3, <1>4 DEF EntryInv
<1>6. \A z \in Entries : entry'[z] = IF z = e THEN y ELSE entry[z]
  BY <1>1 DEF RInv, Typed
<1>7. \A z \in Entries : /\ EntryInv(entry'[z])
                         /\ entry'[z].made = entry[z].made /\ entry'[z].tenant = entry[z].tenant
                         /\ entry'[z].retired = entry[z].retired
                         /\ entry'[z].refs = entry[z].refs
                         /\ entry'[z].ready = entry[z].ready /\ entry'[z].err = entry[z].err
                         /\ z # e => entry'[z] = entry[z]
  BY <1>3, <1>5, <1>6 DEF RInv
<1>8. Typed'
  BY <1>1, <1>2 DEF RInv, Typed
<1>9. CachedInService'
  <2>1. \A t \in Tenants : cache[t] # e
    BY <1>4, RegistryConstantsOK DEF RInv, CachedInService
  <2> QED
    BY <1>1, <1>7, <2>1 DEF RInv, Typed, CachedInService
<1>10. Tracked'
  BY <1>1, <1>3, <1>6 DEF RInv, Tracked
<1>11. ClientsInv'
  BY <1>1, <1>7 DEF RInv, Typed, ClientStates, ClientsInv
<1>12. RefsMatch'
  BY <1>1, <1>7 DEF RInv, RefsMatch, On
<1>13. ClosedInv' /\ Bounded'
  BY <1>1 DEF RInv, ClosedInv, Bounded, WithinCapacity, CachedEntries
<1> QED
  BY <1>7, <1>8, <1>9, <1>10, <1>11, <1>12, <1>13 DEF RInv

\* A new entry takes its place in the cache, and perhaps another one's.
LEMMA AcquireNewInv ==
    ASSUME RInv, NEW c \in Clients, NEW t \in Tenants, NEW e \in Entries, AcquireNew(c, t, e)
    PROVE  RInv'
<1> DEFINE y == [Unmade EXCEPT !.made = TRUE, !.tenant = t, !.refs = 1]
<1>1. PICK V \in Victims(Unleased) :
          /\ cache' = [Without(V) EXCEPT ![t] = e]
          /\ entry' = [Retire(V) EXCEPT ![e] = y]
  BY DEF AcquireNew
<1>2. /\ client[c].pc = "idle" /\ ~ closed /\ cache[t] = NoEntry /\ ~ entry[e].made
      /\ all' = all \cup {e}
      /\ client' = [client EXCEPT ![c] = [pc |-> "waiting", on |-> e]]
      /\ UNCHANGED <<closed, stopped, forgotten>>
  BY DEF AcquireNew
<1>3. V \subseteq CachedEntries
  BY DEF Victims, Unleased
<1>4. /\ Unmade \in EntryStates
      /\ Unmade.factory = "running" /\ Unmade.ready = FALSE /\ Unmade.err = FALSE
      /\ Unmade.enf = "none" /\ Unmade.retired = FALSE /\ Unmade.closing = "no"
  BY DEF Unmade, EntryStates
<1>5. y \in EntryStates
  BY <1>4 DEF EntryStates
<1>6. /\ y.made = TRUE /\ y.tenant = t /\ y.refs = 1
      /\ y.factory = "running" /\ y.ready = FALSE /\ y.err = FALSE
      /\ y.enf = "none" /\ y.retired = FALSE /\ y.closing = "no"
  BY <1>4 DEF EntryStates
<1> HIDE DEF y
<1>new. EntryInv(y)
  BY <1>5, <1>6 DEF EntryInv
<1>7. \A z \in Entries :
          /\ EntryInv(Retire(V)[z])
          /\ Retire(V)[z].made = entry[z].made /\ Retire(V)[z].tenant = entry[z].tenant
          /\ Retire(V)[z].refs = entry[z].refs
          /\ Retire(V)[z].ready = entry[z].ready /\ Retire(V)[z].err = entry[z].err
          /\ Retire(V)[z].closing = "finished" <=> entry[z].closing = "finished"
          /\ Retire(V)[z].retired <=> entry[z].retired \/ z \in V
  BY <1>3, RetiredEntries
<1>8. \A z \in Entries : entry'[z] = IF z = e THEN y ELSE Retire(V)[z]
  BY <1>1 DEF Retire
<1>9. \A u \in Tenants : cache'[u] = IF u = t THEN e ELSE IF cache[u] \in V THEN NoEntry ELSE cache[u]
  BY <1>1 DEF Without
<1>10. e \notin all /\ \A u \in Tenants : cache[u] # e
  BY <1>2, RegistryConstantsOK DEF RInv, Tracked, CachedInService
<1>11. \A d \in Clients : client'[d] = IF d = c THEN [pc |-> "waiting", on |-> e] ELSE client[d]
  BY <1>2 DEF RInv, Typed
<1>12. \A z \in Entries : EntryInv(entry'[z])
  BY <1>new, <1>7, <1>8
<1>13. Typed'
  <2>1. cache' \in [Tenants -> Entries \cup {NoEntry}]
    BY <1>1, <1>3, WithoutFacts
  <2>2. \A z \in Entries : entry'[z] \in EntryStates
    BY <1>12 DEF EntryInv
  <2>3. entry' = [z \in Entries |-> entry'[z]]
    BY <1>1 DEF Retire
  <2>4. entry' \in [Entries -> EntryStates]
    BY <2>2, <2>3
  <2>5. client' \in [Clients -> ClientStates]
    BY <1>2 DEF RInv, Typed, ClientStates
  <2> QED
    BY <1>2, <2>1, <2>4, <2>5 DEF RInv, Typed
<1>14. CachedInService'
  <2> SUFFICES ASSUME NEW u \in Tenants, cache'[u] # NoEntry
               PROVE  /\ entry'[cache'[u]].made /\ entry'[cache'[u]].tenant = u
                      /\ ~ entry'[cache'[u]].retired /\ cache'[u] \in all'
    BY DEF CachedInService
  <2>1. CASE u = t
    BY <1>2, <1>6, <1>8, <1>9, <2>1
  <2>2. CASE u # t
    <3>1. cache'[u] = cache[u] /\ cache[u] \in Entries /\ cache[u] # e /\ cache[u] \notin V
      BY <1>9, <1>10, <2>2 DEF RInv, Typed
    <3>2. /\ entry[cache[u]].made /\ entry[cache[u]].tenant = u
          /\ ~ entry[cache[u]].retired /\ cache[u] \in all
      BY <3>1 DEF RInv, CachedInService
    <3> QED
      BY <1>2, <1>7, <1>8, <3>1, <3>2
  <2> QED
    BY <2>1, <2>2
<1>15. Tracked'
  <2> SUFFICES ASSUME NEW z \in Entries
               PROVE  /\ entry'[z].made => z \in all' \/ z \in forgotten' \/ entry'[z].closing = "finished"
                      /\ z \in all' => entry'[z].made /\ entry'[z].closing # "finished"
                      /\ z \in all' /\ ~ entry'[z].retired => \E u \in Tenants : cache'[u] = z
    BY DEF Tracked
  <2>1. CASE z = e
    BY <1>2, <1>6, <1>8, <1>9, <2>1
  <2>2. CASE z # e
    <3>1. entry'[z] = Retire(V)[z] /\ (z \in all' <=> z \in all)
      BY <1>2, <1>8, <2>2
    <3>2. /\ entry[z].made => z \in all \/ z \in forgotten \/ entry[z].closing = "finished"
          /\ z \in all => entry[z].made /\ entry[z].closing # "finished"
          /\ z \in all /\ ~ entry[z].retired => \E u \in Tenants : cache[u] = z
      BY DEF RInv, Tracked
    <3>3. z \notin V => \A u \in Tenants : cache[u] = z => cache'[u] = z
      BY <1>2, <1>9, RegistryConstantsOK
    <3> QED
      BY <1>2, <1>7, <3>1, <3>2, <3>3
  <2> QED
    BY <2>1, <2>2
<1>16. ClientsInv'
  <2> SUFFICES ASSUME NEW d \in Clients
               PROVE  /\ client'[d].pc = "idle" <=> client'[d].on = NoEntry
                      /\ client'[d].on # NoEntry => entry'[client'[d].on].made
                      /\ client'[d].pc = "holding" =>
                            entry'[client'[d].on].ready /\ ~ entry'[client'[d].on].err
    BY DEF ClientsInv
  <2>1. CASE d = c
    BY <1>6, <1>8, <1>11, <2>1, RegistryConstantsOK
  <2>2. CASE d # c
    <3>1. client'[d] = client[d]
      BY <1>11, <2>2
    <3>2. /\ client[d].pc = "idle" <=> client[d].on = NoEntry
          /\ client[d].on # NoEntry => client[d].on \in Entries /\ entry[client[d].on].made
          /\ client[d].pc = "holding" => entry[client[d].on].ready /\ ~ entry[client[d].on].err
      BY DEF RInv, ClientsInv, Typed, ClientStates
    <3>3. client[d].on # NoEntry => entry'[client[d].on] = Retire(V)[client[d].on]
      BY <1>2, <1>8, <3>2
    <3> QED
      BY <1>7, <3>1, <3>2, <3>3
  <2> QED
    BY <2>1, <2>2
<1>17. ClosedInv'
  <2>1. ~ stopped
    BY <1>2 DEF RInv, ClosedInv
  <2> QED
    BY <1>2, <2>1 DEF ClosedInv
<1>18. RefsMatch'
  <2> SUFFICES ASSUME NEW z \in Entries PROVE entry'[z].refs = Cardinality(On(z)')
    BY DEF RefsMatch
  <2>1. entry[z].refs = Cardinality(On(z)) /\ entry[e].refs = Cardinality(On(e))
    BY DEF RInv, RefsMatch
  <2>2. Cardinality(On(e)') = Cardinality(On(e)) + 1 /\ \A x \in Entries \ {e} : On(x)' = On(x)
    BY <1>2, OneMoreOn
  <2>3. entry[e].refs = 0
    BY <1>2 DEF RInv, EntryInv, Unmade
  <2> QED
    BY <1>6, <1>7, <1>8, <2>1, <2>2, <2>3
<1>19. Bounded'
  <2>1. CachedEntries' = (CachedEntries \ V) \cup {e}
    <3>1. {Without(V)[u] : u \in Tenants} \ {NoEntry} = CachedEntries \ V
      BY <1>3, WithoutFacts
    <3>2. \A u \in Tenants : cache'[u] = IF u = t THEN e ELSE Without(V)[u]
      BY <1>1 DEF Without
    <3>3. Without(V)[t] = NoEntry /\ e # NoEntry
      BY <1>2, RegistryConstantsOK DEF Without
    <3> QED
      BY <3>1, <3>2, <3>3 DEF CachedEntries
  <2>2. IsFiniteSet(CachedEntries) /\ Cardinality(CachedEntries) \in Nat
    BY FS_CardinalityType DEF RInv, Bounded
  <2>3. IsFiniteSet(CachedEntries \ V)
    BY <2>2, FS_Subset
  <2>4. e \notin CachedEntries
    BY <1>10 DEF CachedEntries
  <2>5. /\ IsFiniteSet((CachedEntries \ V) \cup {e})
        /\ Cardinality((CachedEntries \ V) \cup {e}) = Cardinality(CachedEntries \ V) + 1
    BY <2>3, <2>4, FS_AddElement
  <2>6. Capacity = 0 \/ Cardinality(CachedEntries) <= Capacity
    BY DEF RInv, Bounded, WithinCapacity
  <2>7. Capacity = 0 \/ Cardinality(CachedEntries \ V) + 1 <= Capacity
    <3>1. CASE Capacity = 0 \/ Cardinality(CachedEntries) < Capacity
      <4>1. V = {}
        BY <3>1 DEF Victims
      <4>2. CachedEntries \ V = CachedEntries
        BY <4>1
      <4> QED
        BY <2>2, <3>1, <4>2, RegistryConstantsOK
    <3>2. CASE ~ (Capacity = 0 \/ Cardinality(CachedEntries) < Capacity)
      <4>1. PICK v : V = {v}
        BY <3>2 DEF Victims
      <4>2. v \in CachedEntries
        BY <1>3, <4>1
      <4>3. Cardinality(CachedEntries \ {v}) = Cardinality(CachedEntries) - 1
        BY <2>2, <4>2, FS_RemoveElement
      <4> QED
        BY <2>2, <2>6, <3>2, <4>1, <4>3, RegistryConstantsOK
    <3> QED
      BY <3>1, <3>2
  <2> QED
    BY <2>1, <2>5, <2>7 DEF Bounded, WithinCapacity
<1> QED
  BY <1>12, <1>13, <1>14, <1>15, <1>16, <1>17, <1>18, <1>19 DEF RInv

\* Every step of the registry keeps RInv.
LEMMA RNext == RInv /\ [Next]_vars => RInv'
<1> SUFFICES ASSUME RInv, [Next]_vars PROVE RInv'
  OBVIOUS
<1>1. ASSUME NEW c \in Clients, NEW t \in Tenants, AcquireCached(c, t) PROVE RInv'
  BY <1>1, AcquireCachedInv
<1>2. ASSUME NEW c \in Clients, NEW t \in Tenants, NEW e \in Entries, AcquireNew(c, t, e)
      PROVE  RInv'
  BY <1>2, AcquireNewInv
<1>3. ASSUME NEW c \in Clients, AcquireSucceeds(c) PROVE RInv'
  BY <1>3, WaiterStep DEF AcquireSucceeds
<1>4. ASSUME NEW c \in Clients, AcquireFails(c) \/ AcquireCancelled(c) PROVE RInv'
  BY <1>4, WaiterStep DEF AcquireFails, AcquireCancelled
<1>5. ASSUME NEW c \in Clients, Release(c) PROVE RInv'
  BY <1>5, ReleaseInv
<1>6. ASSUME NEW e \in Entries, ProvisionStep(e) \/ FactoryTimeout(e) PROVE RInv'
  BY <1>6, ProvisionInv
<1>7. ASSUME NEW e \in Entries, CloserStep(e) PROVE RInv'
  BY <1>7, CloseEnforcerInv, FinishEntryInv DEF CloserStep
<1>8. CASE \/ \E t \in Tenants : EvictContext(t)
           \/ \E S \in SUBSET Entries : PruneIdle(S)
           \/ ClearAndCloseContext
  BY <1>8, EvictionInv
<1>9. CASE Clear \/ Shutdown
  BY <1>9, ClearInv, ShutdownInv
<1>10. CASE UNCHANGED vars
  <2>1. UNCHANGED <<cache, all, entry, client, closed, stopped, forgotten>>
    BY <1>10 DEF vars
  <2> QED
    BY <2>1 DEF RInv, Typed, CachedInService, Tracked, ClientsInv, ClosedInv, RefsMatch, On,
                Bounded, WithinCapacity, CachedEntries
<1> QED
  BY <1>1, <1>2, <1>3, <1>4, <1>5, <1>6, <1>7, <1>8, <1>9, <1>10 DEF Next, ClientStep

-----------------------------------------------------------------------------
(* The registry *)

\* RInv is an invariant of the registry.
THEOREM RegistryInvariant == Spec => []RInv
  BY RInit, RNext, PTL DEF Spec

\* No eviction, pruning, shutdown or closer shuts an enforcer down while a
\* caller holds a lease on it.
THEOREM LeasesAreSafe == Spec => []LeaseSafe
  BY RegistryInvariant, RInvImplies, PTL

\* The reference count of an entry is the number of callers on it.
THEOREM RefsAreExact == Spec => []RefsMatch
  BY RegistryInvariant, RInvImplies, PTL

\* A finished entry has no caller, no open enforcer and no place in the cache.
THEOREM FinishedIsDrained == Spec => []FinishedMeansDrained
  BY RegistryInvariant, RInvImplies, PTL

\* When Shutdown returns, everything the registry still owns is shut down.
THEOREM StoppedIsDrained == Spec => []StoppedMeansDrained
  BY RegistryInvariant, RInvImplies, PTL

\* The cache never outgrows its capacity.
THEOREM CapacityIsKept == Spec => []WithinCapacity
  BY RegistryInvariant, RInvImplies, PTL

\* Every open enforcer is cached, about to be closed, or given away by Clear.
THEOREM NothingLeaks == Spec => []NoLeak
  BY RegistryInvariant, RInvImplies, PTL

-----------------------------------------------------------------------------
(* The middleware *)

\* Each step of the middleware is a step of the registry, or none.
LEMMA MwStep == [MwNext]_mwVars => [Next]_vars
<1> SUFFICES ASSUME MwNext \/ UNCHANGED mwVars PROVE Next \/ UNCHANGED vars
  OBVIOUS
<1>1. CASE UNCHANGED mwVars
  BY <1>1 DEF mwVars
<1>2. ASSUME NEW c \in Clients, NoTenantResolved(c) \/ GoneEarly(c) PROVE UNCHANGED vars
  BY <1>2 DEF NoTenantResolved, GoneEarly
<1>3. ASSUME NEW c \in Clients, NEW t \in Tenants, Enter(c, t) PROVE Next
  BY <1>3 DEF Enter, Next
<1>4. ASSUME NEW c \in Clients, NEW t \in Tenants, Refused(c, t) PROVE UNCHANGED vars
  BY <1>4 DEF Refused
<1>5. ASSUME NEW c \in Clients, Disconnected(c) PROVE Next
  BY <1>5 DEF Disconnected, Next
<1>6. ASSUME NEW c \in Clients, RequestStep(c) PROVE Next \/ UNCHANGED vars
  BY <1>6 DEF RequestStep, Admitted, GivesUp, AcquireError, NoUser, Denied, Allowed,
              HandlerEnds, Returns, Next, ClientStep
<1>7. CASE Background
  BY <1>7 DEF Background, Next
<1> QED
  BY <1>1, <1>2, <1>3, <1>4, <1>5, <1>6, <1>7 DEF MwNext

\* The middleware uses the registry as its specification says: whatever holds of
\* every use of a registry holds behind the middleware.
THEOREM MiddlewareUsesRegistry == MwSpec => Spec
<1>1. MwInit => Init
  BY DEF MwInit
<1> QED
  BY <1>1, MwStep, PTL DEF MwSpec, Spec

\* Nothing changes the tenant of an entry that was made.
LEMMA TenantsStay ==
    ASSUME RInv, [Next]_vars, NEW e \in Entries, entry[e].made
    PROVE  entry'[e].tenant = entry[e].tenant
<1>0. EntryInv(entry[e]) /\ entry[e] \in EntryStates /\ entry \in [Entries -> EntryStates]
  BY DEF RInv, EntryInv, Typed
<1>1. ASSUME NEW c \in Clients, NEW t \in Tenants, AcquireCached(c, t)
      PROVE  entry'[e].tenant = entry[e].tenant
  BY <1>0, <1>1 DEF AcquireCached, EntryStates
<1>2. ASSUME NEW c \in Clients, NEW t \in Tenants, NEW f \in Entries, AcquireNew(c, t, f)
      PROVE  entry'[e].tenant = entry[e].tenant
  <2>1. PICK V \in Victims(Unleased) :
            entry' = [Retire(V) EXCEPT ![f] = [Unmade EXCEPT !.made = TRUE, !.tenant = t, !.refs = 1]]
    BY <1>2 DEF AcquireNew
  <2>2. f # e /\ V \subseteq CachedEntries
    BY <1>2 DEF AcquireNew, Victims, Unleased
  <2>3. entry'[e] = Retire(V)[e]
    BY <2>1, <2>2 DEF Retire
  <2> QED
    BY <2>2, <2>3, RetiredEntries
<1>3. ASSUME NEW c \in Clients, AcquireSucceeds(c) \/ AcquireFails(c) \/ AcquireCancelled(c)
      PROVE  entry'[e].tenant = entry[e].tenant
  BY <1>3 DEF AcquireSucceeds, AcquireFails, AcquireCancelled
<1>4. ASSUME NEW c \in Clients, Release(c) PROVE entry'[e].tenant = entry[e].tenant
  <2>1. client[c].on # NoEntry
    BY <1>4 DEF Release, RInv, ClientsInv
  <2>2. client[c].on \in Entries /\ entry[client[c].on].refs > 0
    BY <2>1, LeasedFacts
  <2>3. entry'[e] = IF e = client[c].on THEN finishLocked(OneLess(entry[e])) ELSE entry[e]
    BY <1>0, <1>4, <2>2 DEF Release, Released
  <2> QED
    BY <1>0, <2>2, <2>3, ReleaseFacts
<1>5. ASSUME NEW f \in Entries, PublishEntry(f) PROVE entry'[e].tenant = entry[e].tenant
  <2> DEFINE y == [entry[e] EXCEPT !.factory = "published", !.ready = TRUE, !.done = TRUE]
  <2>1. y.tenant = entry[e].tenant /\ finishLocked(y).tenant = y.tenant
    BY <1>0 DEF finishLocked, EntryStates
  <2>2. entry'[e] = IF e = f THEN finishLocked(y) ELSE entry[e]
    BY <1>0, <1>5 DEF PublishEntry, Published
  <2> QED
    BY <2>1, <2>2
<1>6. ASSUME NEW f \in Entries, NEW t \in Tenants, FactoryBuilds(f, t)
      PROVE  entry'[e].tenant = entry[e].tenant
  BY <1>0, <1>6 DEF FactoryBuilds, EntryStates
<1>7. ASSUME NEW f \in Entries, NEW built \in BOOLEAN, FactoryFails(f, built)
      PROVE  entry'[e].tenant = entry[e].tenant
  BY <1>0, <1>7 DEF FactoryFails, EntryStates
<1>8. ASSUME NEW f \in Entries, FactoryTimeout(f) \/ CloserStep(f)
      PROVE  entry'[e].tenant = entry[e].tenant
  BY <1>0, <1>8 DEF FactoryTimeout, CloserStep, CloseEnforcer, FinishEntry, EntryStates
<1>9. ASSUME NEW S, S \subseteq CachedEntries, entry' = Retire(S)
      PROVE  entry'[e].tenant = entry[e].tenant
  BY <1>9, RetiredEntries
<1>10. CASE \/ \E t \in Tenants : EvictContext(t)
            \/ \E S \in SUBSET Entries : PruneIdle(S)
            \/ ClearAndCloseContext
  <2>1. \E S : S \subseteq CachedEntries /\ entry' = Retire(S)
    BY <1>10, CacheFacts DEF EvictContext, PruneIdle, ClearAndCloseContext, Unleased
  <2> QED
    BY <1>9, <2>1
<1>11. CASE Shutdown
  <2>1. entry'[e] = IF e \in all THEN retireLocked(entry[e])
                    ELSE [entry[e] EXCEPT !.done = entry[e].made]
    BY <1>11 DEF Shutdown
  <2>2. [entry[e] EXCEPT !.done = entry[e].made].tenant = entry[e].tenant
    BY <1>0 DEF EntryStates
  <2> QED
    BY <1>0, <2>1, <2>2, RetireFacts
<1>12. CASE Clear \/ UNCHANGED vars
  BY <1>12 DEF Clear, vars
<1> QED
  BY <1>1, <1>2, <1>3, <1>4, <1>5, <1>6, <1>7, <1>8, <1>10, <1>11, <1>12
  DEF Next, ClientStep, ProvisionStep

\* Requests and clients begin together.
LEMMA RequestsInit == MwInit => RequestsInv
<1> SUFFICES ASSUME MwInit PROVE RequestsInv
  OBVIOUS
<1>1. \A c \in Clients : client[c].pc = "idle"
  BY DEF MwInit, Init, Idle
<1> DEFINE new == [at |-> "new", tenant |-> NoTenant, status |-> NoStatus]
<1>2. request = [c \in Clients |-> new]
  BY DEF MwInit
<1>3. new \in Requests /\ new.at = "new"
  BY DEF Requests
<1> HIDE DEF new
<1> QED
  BY <1>1, <1>2, <1>3 DEF RequestsInv, At

\* A step that moves only the request of c, from where it is to "to", together
\* with its client.
LEMMA RequestMoves ==
    ASSUME RInv, RequestsInv, [Next]_vars, NEW c \in Clients,
           \A d \in Clients \ {c} : client'[d] = client[d] /\ request'[d] = request[d],
           request' \in [Clients -> Requests],
           request'[c].at \in {"new", "answered"} => client'[c].pc = "idle",
           request'[c].at = "acquiring" => client'[c].pc \in {"waiting", "releasing"},
           request'[c].at \in {"gate", "handler", "returning"} => client'[c].pc = "holding",
           client'[c].pc # "idle" => entry'[client'[c].on].tenant = request'[c].tenant
    PROVE  RequestsInv'
<1>1. ASSUME NEW d \in Clients, d # c, client[d].pc # "idle"
      PROVE  entry'[client'[d].on].tenant = request'[d].tenant
  <2>1. client[d].on \in Entries /\ entry[client[d].on].made
    BY <1>1 DEF RInv, Typed, ClientStates, ClientsInv
  <2>2. entry'[client[d].on].tenant = entry[client[d].on].tenant
    BY <2>1, TenantsStay
  <2> QED
    BY <1>1, <2>2 DEF RequestsInv
<1> QED
  BY <1>1 DEF RequestsInv, At

\* The entry of a client keeps its tenant.
LEMMA OwnTenantStays ==
    ASSUME RInv, RequestsInv, [Next]_vars, NEW c \in Clients, client[c].pc # "idle"
    PROVE  entry'[client[c].on].tenant = request[c].tenant
<1>1. client[c].on \in Entries /\ entry[client[c].on].made
  BY DEF RInv, Typed, ClientStates, ClientsInv
<1> QED
  BY <1>1, TenantsStay DEF RequestsInv

\* What GoTo and Respond do to a request.
LEMMA RequestAfter ==
    ASSUME RequestsInv, NEW c \in Clients,
           NEW where \in {"new", "acquiring", "gate", "handler", "returning", "answered"},
           GoTo(c, where) \/ \E code \in {200, 401, 403, 500} : Respond(c, where, code)
    PROVE  /\ request' \in [Clients -> Requests]
           /\ request'[c].at = where /\ request'[c].tenant = request[c].tenant
           /\ \A d \in Clients \ {c} : request'[d] = request[d]
<1>0. request \in [Clients -> Requests]
  BY DEF RequestsInv
<1> DEFINE y == [request[c] EXCEPT !.at = where]
<1>1. CASE GoTo(c, where)
  <2>1. y \in Requests /\ y.at = where /\ y.tenant = request[c].tenant
    BY <1>0 DEF Requests
  <2>2. request' = [request EXCEPT ![c] = y]
    BY <1>0, <1>1 DEF GoTo
  <2> QED
    BY <1>0, <2>1, <2>2
<1>2. ASSUME NEW code \in {200, 401, 403, 500}, Respond(c, where, code)
      PROVE  /\ request' \in [Clients -> Requests]
             /\ request'[c].at = where /\ request'[c].tenant = request[c].tenant
             /\ \A d \in Clients \ {c} : request'[d] = request[d]
  <2> DEFINE P == {"new", "acquiring", "gate", "handler", "returning", "answered"}
             T == Tenants \cup {NoTenant}
             S == {NoStatus, 200, 401, 403, 500}
  <2>1. Requests = [at : P, tenant : T, status : S] /\ where \in P /\ code \in S
    BY <1>2 DEF Requests
  <2> HIDE DEF P, T, S
  <2>2. request \in [Clients -> [at : P, tenant : T, status : S]]
    BY <1>0, <2>1
  <2>3. /\ request' \in [Clients -> [at : P, tenant : T, status : S]]
        /\ request'[c].at = where /\ request'[c].tenant = request[c].tenant
        /\ \A d \in Clients \ {c} : request'[d] = request[d]
    BY <1>2, <2>1, <2>2 DEF Respond
  <2> QED
    BY <2>1, <2>3
<1> QED
  BY <1>1, <1>2

\* A step that leaves the clients alone leaves what is said of their requests.
LEMMA RequestsStay ==
    ASSUME RInv, RequestsInv, [Next]_vars, UNCHANGED <<client, request>>
    PROVE  RequestsInv'
<1>1. ASSUME NEW c \in Clients, client[c].pc # "idle"
      PROVE  entry'[client'[c].on].tenant = request'[c].tenant
  BY <1>1, OwnTenantStays
<1> QED
  BY <1>1 DEF RequestsInv, At

\* Acquire finds, or makes, an entry of the tenant that was asked for.
LEMMA EnterInv ==
    ASSUME RInv, RequestsInv, NEW c \in Clients, NEW t \in Tenants, Enter(c, t), [Next]_vars
    PROVE  RequestsInv'
<1>0. request \in [Clients -> Requests] /\ client \in [Clients -> ClientStates]
  BY DEF RequestsInv, RInv, Typed
<1> DEFINE y == [request[c] EXCEPT !.at = "acquiring", !.tenant = t]
<1>1. y \in Requests /\ y.at = "acquiring" /\ y.tenant = t
  <2>0. request[c] \in Requests
    BY <1>0
  <2>1. y \in Requests
    BY <2>0 DEF Requests
  <2>2. y.at = "acquiring" /\ y.tenant = t
    BY <2>0 DEF Requests
  <2> QED BY <2>1, <2>2
<1>2. request' = [request EXCEPT ![c] = y]
  BY <1>0 DEF Enter
<1> HIDE DEF y
<1>3. /\ request' \in [Clients -> Requests]
      /\ request'[c].at = "acquiring" /\ request'[c].tenant = t
      /\ \A d \in Clients \ {c} : request'[d] = request[d]
  BY <1>0, <1>1, <1>2
<1>4. CASE AcquireCached(c, t)
  <2>1. PICK e \in Entries : e = cache[t]
    BY <1>4 DEF AcquireCached, RInv, Typed
  <2>2. entry[e].made /\ entry[e].tenant = t
    BY <1>4, <2>1 DEF AcquireCached, RInv, CachedInService
  <2>3. entry'[e].tenant = t
    BY <2>2, TenantsStay
  <2>4. client' = [client EXCEPT ![c] = [pc |-> "waiting", on |-> e]]
    BY <1>4, <2>1 DEF AcquireCached
  <2>5. /\ \A d \in Clients \ {c} : client'[d] = client[d]
        /\ client'[c].pc = "waiting" /\ client'[c].on = e
    BY <1>0, <2>4
  <2> QED
    BY <1>3, <2>3, <2>5, RequestMoves
<1>5. ASSUME NEW e \in Entries, AcquireNew(c, t, e) PROVE RequestsInv'
  <2>1. PICK V \in Victims(Unleased) :
            entry' = [Retire(V) EXCEPT ![e] = [Unmade EXCEPT !.made = TRUE, !.tenant = t, !.refs = 1]]
    BY <1>5 DEF AcquireNew
  <2>2. entry'[e] = [Unmade EXCEPT !.made = TRUE, !.tenant = t, !.refs = 1]
    BY <2>1 DEF Retire
  <2>3. entry'[e].tenant = t
    BY <2>2 DEF Unmade
  <2>4. client' = [client EXCEPT ![c] = [pc |-> "waiting", on |-> e]]
    BY <1>5 DEF AcquireNew
  <2>5. /\ \A d \in Clients \ {c} : client'[d] = client[d]
        /\ client'[c].pc = "waiting" /\ client'[c].on = e
    BY <1>0, <2>4
  <2> QED
    BY <1>3, <2>3, <2>5, RequestMoves
<1> QED
  BY <1>4, <1>5 DEF Enter

\* Release makes the client idle.
LEMMA ReturnInv ==
    ASSUME RInv, RequestsInv, NEW c \in Clients, Release(c), [Next]_vars,
           GoTo(c, "answered") \/ Respond(c, "answered", 500)
    PROVE  RequestsInv'
<1>1. /\ request' \in [Clients -> Requests]
      /\ request'[c].at = "answered"
      /\ \A d \in Clients \ {c} : request'[d] = request[d]
  BY RequestAfter
<1>2. client' = [client EXCEPT ![c] = Idle] /\ client \in [Clients -> ClientStates]
  BY DEF Release, RInv, Typed
<1>3. client'[c].pc = "idle" /\ \A d \in Clients \ {c} : client'[d] = client[d]
  BY <1>2 DEF Idle
<1> QED
  BY <1>1, <1>3, RequestMoves

\* A request that has no lease yet, or not to return one, stays with its client.
LEMMA RespondInv ==
    ASSUME RInv, RequestsInv, NEW c \in Clients, UNCHANGED vars,
           \/ At(c, "new") /\ \E code \in {401, 500} : Respond(c, "answered", code)
           \/ At(c, "gate") /\ GoTo(c, "handler")
           \/ At(c, "gate") /\ \E code \in {401, 403} : Respond(c, "returning", code)
           \/ At(c, "handler") /\ \E code \in {200, 500} : Respond(c, "returning", code)
    PROVE  RequestsInv'
<1>1. PICK where \in {"answered", "handler", "returning"} :
          /\ GoTo(c, where) \/ \E code \in {200, 401, 403, 500} : Respond(c, where, code)
          /\ where = "answered" => client[c].pc = "idle"
          /\ where # "answered" => client[c].pc = "holding"
  BY DEF RequestsInv, At
<1>2. /\ request' \in [Clients -> Requests]
      /\ request'[c].at = where /\ request'[c].tenant = request[c].tenant
      /\ \A d \in Clients \ {c} : request'[d] = request[d]
  BY <1>1, RequestAfter
<1>3. client' = client /\ entry' = entry /\ [Next]_vars
  BY DEF vars
<1>4. client[c].pc # "idle" => entry[client[c].on].tenant = request[c].tenant
  BY DEF RequestsInv
<1> QED
  BY <1>1, <1>2, <1>3, <1>4, RequestMoves

\* Acquire's wait ends with a lease, or on the way to giving the reference back.
LEMMA WaitEndsInv ==
    ASSUME RInv, RequestsInv, NEW c \in Clients, [Next]_vars,
           Admitted(c) \/ GivesUp(c) \/ Disconnected(c)
    PROVE  RequestsInv'
<1>0. client \in [Clients -> ClientStates] /\ request \in [Clients -> Requests]
  BY DEF RInv, Typed, RequestsInv
<1>1. client[c].pc = "waiting"
  BY DEF Admitted, GivesUp, Disconnected, AcquireSucceeds, AcquireFails, AcquireCancelled
<1>2. entry'[client[c].on].tenant = request[c].tenant
  BY <1>1, OwnTenantStays
<1>3. CASE Admitted(c)
  <2>1. /\ request' \in [Clients -> Requests]
        /\ request'[c].at = "gate" /\ request'[c].tenant = request[c].tenant
        /\ \A d \in Clients \ {c} : request'[d] = request[d]
    BY <1>3, RequestAfter DEF Admitted
  <2>2. client' = [client EXCEPT ![c].pc = "holding"]
    BY <1>3 DEF Admitted, AcquireSucceeds
  <2>3. /\ client'[c].pc = "holding" /\ client'[c].on = client[c].on
        /\ \A d \in Clients \ {c} : client'[d] = client[d]
    BY <1>0, <2>2 DEF ClientStates
  <2> QED
    BY <1>2, <2>1, <2>3, RequestMoves
<1>4. CASE GivesUp(c) \/ Disconnected(c)
  <2>1. request' = request /\ client' = [client EXCEPT ![c].pc = "releasing"]
    BY <1>4 DEF GivesUp, Disconnected, AcquireFails, AcquireCancelled
  <2>2. /\ client'[c].pc = "releasing" /\ client'[c].on = client[c].on
        /\ \A d \in Clients \ {c} : client'[d] = client[d]
    BY <1>0, <2>1 DEF ClientStates
  <2>3. request[c].at = "acquiring"
    BY <1>0, <1>1 DEF RequestsInv, Requests, At
  <2> QED
    BY <1>0, <1>2, <2>1, <2>2, <2>3, RequestMoves
<1> QED
  BY <1>3, <1>4

\* Every step of the middleware keeps the invariant of its requests.
LEMMA RequestsNext == RInv /\ RequestsInv /\ [MwNext]_mwVars => RequestsInv'
<1> SUFFICES ASSUME RInv, RequestsInv, MwNext \/ UNCHANGED mwVars PROVE RequestsInv'
  OBVIOUS
<1>0. [Next]_vars
  BY MwStep
<1>1. CASE UNCHANGED mwVars
  BY <1>0, <1>1, RequestsStay DEF mwVars, vars
<1>2. ASSUME NEW c \in Clients,
             \/ NoTenantResolved(c) \/ GoneEarly(c) \/ NoUser(c) \/ Denied(c) \/ Allowed(c)
             \/ \E t \in Tenants : Refused(c, t)
             \/ \E code \in {200, 500} : HandlerEnds(c, code)
      PROVE  RequestsInv'
  BY <1>2, RespondInv DEF NoTenantResolved, GoneEarly, NoUser, Denied, Allowed, Refused,
                          HandlerEnds
<1>3. ASSUME NEW c \in Clients, NEW t \in Tenants, Enter(c, t) PROVE RequestsInv'
  BY <1>0, <1>3, EnterInv
<1>4. ASSUME NEW c \in Clients, Admitted(c) \/ GivesUp(c) \/ Disconnected(c)
      PROVE  RequestsInv'
  BY <1>0, <1>4, WaitEndsInv
<1>5. ASSUME NEW c \in Clients, AcquireError(c) \/ Returns(c) PROVE RequestsInv'
  BY <1>0, <1>5, ReturnInv DEF AcquireError, Returns
<1>6. CASE Background /\ UNCHANGED request
  <2>1. UNCHANGED client
    BY <1>6 DEF Background, ProvisionStep, FactoryBuilds, FactoryFails, PublishEntry,
                FactoryTimeout, CloserStep, CloseEnforcer, FinishEntry, EvictContext,
                PruneIdle, Clear, ClearAndCloseContext, Shutdown
  <2> QED
    BY <1>0, <1>6, <2>1, RequestsStay
<1> QED
  BY <1>1, <1>2, <1>3, <1>4, <1>5, <1>6 DEF MwNext, RequestStep

\* What the invariant says of a request whose handler runs.
LEMMA HandlersServed == ASSUME RInv, RequestsInv PROVE HandlerHasItsTenant
<1> SUFFICES ASSUME NEW c \in Clients, At(c, "handler")
             PROVE  /\ client[c].pc = "holding"
                    /\ entry[client[c].on].enf = "open"
                    /\ entry[client[c].on].builtFor = request[c].tenant
  BY DEF HandlerHasItsTenant
<1>1. client[c].pc = "holding" /\ entry[client[c].on].tenant = request[c].tenant
  BY DEF RequestsInv, At
<1>2. entry[client[c].on].enf = "open"
  BY <1>1, RInvImplies DEF LeaseSafe
<1>3. client[c].on \in Entries
  BY <1>1 DEF RInv, Typed, ClientStates, ClientsInv
<1>4. entry[client[c].on].builtFor = entry[client[c].on].tenant
  BY <1>2, <1>3 DEF RInv, EntryInv
<1> QED
  BY <1>1, <1>2, <1>4

\* The handler of a request runs with an open enforcer, built for the tenant of
\* that request, whatever is evicted, pruned, cleared or shut down meanwhile.
THEOREM HandlersHaveTheirTenant == MwSpec => []HandlerHasItsTenant
<1>1. MwSpec => []RInv
  BY MiddlewareUsesRegistry, RegistryInvariant, PTL
<1>2. RInv /\ RequestsInv => HandlerHasItsTenant
  BY HandlersServed
<1> QED
  BY <1>1, <1>2, RequestsInit, RequestsNext, PTL DEF MwSpec
=============================================================================
