-------------------------- MODULE EnforcerCacheProofs --------------------------
(***************************************************************************)
(* Proofs about the permission cache, for any enforcers, caches, roles,    *)
(* users, lookups and mutations, every kind of backend and any number of   *)
(* lost messages.  A snapshot is settled when it is current and whoever    *)
(* may still fill it brings the current set.  Every snapshot is settled or *)
(* an invalidation of it is on its way (or was lost): a commit puts one on *)
(* the way to every snapshot it makes stale, and what ends the way of an   *)
(* invalidation, deleting the key, takes the entry and the token or the    *)
(* generation of every lookup that read before.                            *)
(***************************************************************************)
EXTENDS EnforcerCache, PolicyDataProofs

\* The types the proofs need.
Typed == /\ deployment \in Deployments
         /\ StoreInv(store)
         /\ entry \in [Caches -> [Users -> {NoEntry} \cup SUBSET Permissions]]
         /\ cacheMu \in [Enforcers -> Workers \cup {Free}]
         /\ lookup \in [Lookups -> LookupStates]
         /\ worker \in [Workers -> WorkerStates]
         /\ queue \in [Enforcers -> Seq(Events)]

\* The locals of a lookup fit where it is.
Shape(x) == /\ x.pc = "idle" => ~ x.clean
            /\ x.pc # "idle" => x.user \in Users
            /\ x.pc \in {"get", "token", "roles"} => x.perms = {} /\ x.opened = {}
            /\ \A i, j \in x.opened : i = j

\* Who deletes holds cacheMu, and no lookup of that enforcer has the new generation.
Locked == /\ \A w \in Workers : worker[w].pc = "delete" =>
                /\ cacheMu[HomeOf[w]] = w
                /\ worker[w].keys \subseteq Hits(worker[w].ev)
          /\ \A l \in Lookups : cacheMu[HomeOf[l]] # Free => ~ lookup[l].genOK

\* What a lookup has collected, with what is left to read, is the current set.
Exact(l) == lookup[l].perms \cup PermissionsOf(store, LeftToRead(l))
                = Effective(store, lookup[l].user)

\* Lookup k may still fill the snapshot of u in cache c.
Filling(k, c, u) == /\ lookup[k].user = u /\ CacheFor(k) = c
                    /\ lookup[k].pc = "walk" /\ MayFill(k)

\* The snapshot is current, and every lookup that may fill it brings the current set.
Settled(c, u) == /\ entry[c][u] \in {NoEntry, Effective(store, u)}
                 /\ \A k \in Lookups : Filling(k, c, u) => Exact(k)

\* Every snapshot is settled, or will be invalidated.
Fresh == \A c \in Caches, u \in Users : Settled(c, u) \/ OnItsWay(c, u)

\* A lookup that was undisturbed so far.
Undisturbed(l) ==
    lookup[l].clean =>
        /\ Settled(CacheFor(l), lookup[l].user)
        /\ lookup[l].pc = "walk" => Exact(l)
        /\ lookup[l].pc = "done" => lookup[l].perms = Effective(store, lookup[l].user)

\* The inductive invariant.
CInv == /\ Typed /\ Locked
        /\ \A l \in Lookups : Shape(lookup[l])
        /\ Fresh
        /\ \A l \in Lookups : Undisturbed(l)

-----------------------------------------------------------------------------
(* Reading the hierarchy *)

\* What is collected by reading one role first.
LEMMA PermissionsSplit ==
    ASSUME NEW s \in Stores, NEW S \in SUBSET Roles, NEW r \in Roles
    PROVE  PermissionsOf(s, S \cup {r}) = s.permissions[r] \cup PermissionsOf(s, S \cup s.parents[r])
<1>1. s.parents \in Graphs
  BY DEF Stores
<1>2. Reach(s.parents, S \cup {r}) = Reach(s.parents, S \cup s.parents[r]) \cup {r}
  BY <1>1, ReachSplit
<1> QED
  BY <1>2 DEF PermissionsOf

\* What is left when nothing is left to read.
LEMMA PermissionsEmpty == ASSUME NEW s \in Stores PROVE PermissionsOf(s, {}) = {}
<1>1. s.parents \in Graphs
  BY DEF Stores
<1>2. Reach(s.parents, {}) = {}
  BY <1>1, ReachEmpty
<1> QED
  BY <1>2 DEF PermissionsOf

\* Assignments of others do not concern a user.
LEMMA EffectiveFrame ==
    ASSUME NEW s, NEW t, NEW u, t.parents = s.parents, t.permissions = s.permissions
    PROVE  /\ \A S : PermissionsOf(t, S) = PermissionsOf(s, S)
           /\ t.users[u] = s.users[u] => Effective(t, u) = Effective(s, u)
  BY DEF PermissionsOf, Effective, AssignedTo

-----------------------------------------------------------------------------
(* Constants *)

\* What deployments and threads are.
LEMMA HomeFacts ==
    ASSUME Typed
    PROVE  /\ \A t \in Lookups \cup Workers : HomeOf[t] \in Enforcers /\ CacheFor(t) \in Caches
           /\ \A e \in Enforcers : HomeOf[e] = e /\ CacheOf[e] \in Caches
           /\ Kind \in {"memory", "redis", "plain"}
           /\ Subscribers \subseteq Enforcers
           /\ Kind = "plain" => \A e, f \in Enforcers : CacheOf[e] = CacheOf[f] => e = f
           /\ \A ev \in Events : Hits(ev) \subseteq Users
<1>1. deployment \in DeploymentShapes
  BY CacheConstantsOK DEF Typed
<1>2. \A ev \in Events : Hits(ev) \subseteq Users
  BY DEF Events, Hits
<1>3. /\ \A e \in Enforcers : HomeOf[e] = e /\ CacheOf[e] \in Caches
      /\ \A t \in Lookups \cup Workers : HomeOf[t] \in Enforcers
  BY <1>1, CacheConstantsOK DEF DeploymentShapes, CacheOf
<1>4. Kind = "plain" => \A e, f \in Enforcers : CacheOf[e] = CacheOf[f] => e = f
  BY CacheConstantsOK DEF Typed, Kind, CacheOf
<1>5. Kind \in {"memory", "redis", "plain"} /\ Subscribers \subseteq Enforcers
  BY <1>1 DEF DeploymentShapes, Kind, Subscribers
<1> QED
  BY <1>2, <1>3, <1>4, <1>5 DEF CacheFor

-----------------------------------------------------------------------------
(* Lookups that only lose something *)

\* y is lookup x after its generation, its token or its history became invalid.
Weak(x, y) == /\ y \in LookupStates
              /\ y.pc = x.pc /\ y.user = x.user /\ y.perms = x.perms
              /\ y.todo = x.todo /\ y.opened = x.opened
              /\ (y.genOK => x.genOK) /\ (y.tokOK => x.tokOK) /\ (y.clean => x.clean)

\* A lookup is weaker than itself.
LEMMA WeakSelf == ASSUME NEW x \in LookupStates PROVE Weak(x, x)
  BY DEF Weak

\* The ways in which one becomes weaker.
LEMMA WeakFacts ==
    ASSUME NEW x \in LookupStates
    PROVE  /\ Weak(x, [x EXCEPT !.genOK = FALSE]) /\ [x EXCEPT !.genOK = FALSE].genOK = FALSE
           /\ Weak(x, [x EXCEPT !.tokOK = FALSE]) /\ [x EXCEPT !.tokOK = FALSE].tokOK = FALSE
           /\ Weak(x, [x EXCEPT !.clean = FALSE]) /\ [x EXCEPT !.clean = FALSE].clean = FALSE
  BY DEF Weak, LookupStates

\* The store may have changed, but not for user u.
Same(u) == /\ store'.parents = store.parents /\ store'.permissions = store.permissions
           /\ store'.users[u] = store.users[u]

\* A snapshot stays settled while lookups become weaker and entries disappear.
LEMMA SettledKept ==
    ASSUME Typed, deployment' = deployment,
           NEW c \in Caches, NEW u \in Users, Same(u), Settled(c, u),
           \A l \in Lookups : Weak(lookup[l], lookup'[l]),
           entry'[c][u] \in {entry[c][u], NoEntry}
    PROVE  Settled(c, u)'
<1>1. Effective(store', u) = Effective(store, u) /\ \A S : PermissionsOf(store', S) = PermissionsOf(store, S)
  BY EffectiveFrame DEF Same
<1>2. entry'[c][u] \in {NoEntry, Effective(store', u)}
  BY <1>1 DEF Settled
<1>3. ASSUME NEW k \in Lookups, Filling(k, c, u)' PROVE Exact(k)'
  <2>1. Weak(lookup[k], lookup'[k])
    OBVIOUS
  <2>2. Filling(k, c, u)
    BY <1>3, <2>1 DEF Filling, MayFill, Weak, CacheFor, CacheOf, Kind
  <2>3. Exact(k) /\ lookup[k].user = u /\ lookup'[k].user = u /\ lookup'[k].perms = lookup[k].perms
    BY <2>1, <2>2 DEF Settled, Filling, Weak
  <2>4. LeftToRead(k)' = LeftToRead(k)
    BY <2>1 DEF LeftToRead, Weak, Same
  <2>5. PermissionsOf(store', LeftToRead(k)') = PermissionsOf(store, LeftToRead(k))
    BY <1>1, <2>4
  <2> QED
    BY <1>1, <2>3, <2>5 DEF Exact
<1> QED
  BY <1>2, <1>3 DEF Settled

-----------------------------------------------------------------------------
(* Steps of a lookup *)

\* One lookup moves: what it collected stays exact, or becomes so.
LEMMA OneMoves ==
    ASSUME CInv, NEW l \in Lookups,
           UNCHANGED <<deployment, store, entry, cacheMu, worker, queue, missed>>,
           \A k \in Lookups \ {l} : lookup'[k] = lookup[k],
           lookup' \in [Lookups -> LookupStates], Shape(lookup'[l]),
           lookup'[l].genOK => lookup[l].genOK \/ cacheMu[HomeOf[l]] = Free,
           lookup'[l].pc = "walk" =>
               \/ Exact(l)'
               \/ /\ lookup[l].pc = "walk" /\ lookup'[l].user = lookup[l].user
                  /\ MayFill(l)' => MayFill(l)
                  /\ Exact(l) => Exact(l)',
           lookup'[l].clean =>
               /\ Settled(CacheFor(l), lookup'[l].user)
               /\ lookup'[l].pc = "walk" => Exact(l)'
               /\ lookup'[l].pc = "done" => lookup'[l].perms = Effective(store, lookup'[l].user)
    PROVE  CInv'
<1>1. Typed' /\ Locked'
  BY DEF CInv, Typed, Locked
<1>2. \A k \in Lookups : Shape(lookup'[k])
  BY DEF CInv
<1>3. ASSUME NEW k \in Lookups, k # l
      PROVE  (Exact(k)' <=> Exact(k)) /\ (MayFill(k)' <=> MayFill(k)) /\ lookup'[k] = lookup[k]
  <2>1. lookup'[k] = lookup[k]
    BY <1>3
  <2>2. LeftToRead(k)' = LeftToRead(k)
    BY <2>1 DEF LeftToRead
  <2> QED
    BY <2>1, <2>2 DEF Exact, MayFill, Kind
<1>4. ASSUME NEW c \in Caches, NEW u \in Users, Settled(c, u) PROVE Settled(c, u)'
  <2>1. ASSUME NEW k \in Lookups, Filling(k, c, u)' PROVE Exact(k)'
    <3>1. CASE k = l
      <4>1. lookup'[l].user = u /\ CacheFor(l) = c /\ lookup'[l].pc = "walk" /\ MayFill(l)'
        BY <2>1, <3>1 DEF Filling, CacheFor, CacheOf
      <4>2. Exact(l)' \/ Filling(l, c, u)
        BY <4>1 DEF Filling
      <4> QED
        BY <1>4, <3>1, <4>1, <4>2 DEF Settled
    <3>2. CASE k # l
      <4>1. Filling(k, c, u)
        BY <1>3, <2>1, <3>2 DEF Filling, CacheFor, CacheOf
      <4> QED
        BY <1>3, <1>4, <3>2, <4>1 DEF Settled
    <3> QED
      BY <3>1, <3>2
  <2> QED
    BY <1>4, <2>1 DEF Settled
<1>5. Fresh'
  <2>1. ASSUME NEW c \in Caches, NEW u \in Users, OnItsWay(c, u) PROVE OnItsWay(c, u)'
    BY <2>1 DEF OnItsWay, CacheOf
  <2> QED
    BY <1>4, <2>1 DEF CInv, Fresh
<1>6. ASSUME NEW k \in Lookups, lookup'[k].clean
      PROVE  /\ Settled(CacheFor(k), lookup[k].user)'
             /\ lookup'[k].pc = "walk" => Exact(k)'
             /\ lookup'[k].pc = "done" => lookup'[k].perms = Effective(store', lookup'[k].user)
  <2>1. /\ Settled(CacheFor(k), lookup'[k].user)
        /\ lookup'[k].pc = "walk" => Exact(k)'
        /\ lookup'[k].pc = "done" => lookup'[k].perms = Effective(store, lookup'[k].user)
    BY <1>3, <1>6 DEF CInv, Undisturbed
  <2>2. CacheFor(k) \in Caches /\ lookup'[k].user \in Users
    BY <1>2, <1>6, HomeFacts DEF CInv, Shape
  <2>3. PICK c \in Caches, u \in Users : c = CacheFor(k) /\ u = lookup'[k].user
    BY <2>2
  <2>4. Settled(c, u)'
    BY <1>4, <2>1, <2>3
  <2>5. CacheFor(k)' = c
    BY <2>3 DEF CacheFor, CacheOf
  <2> QED
    BY <2>1, <2>3, <2>4, <2>5 DEF Settled, Filling
<1>7. \A k \in Lookups : Undisturbed(k)'
  BY <1>6 DEF Undisturbed
<1> QED
  BY <1>1, <1>2, <1>5, <1>7 DEF CInv

\* A lookup x before it has read a role: what is known of it.
LEMMA IdleFacts == /\ IdleLookup \in LookupStates /\ Shape(IdleLookup)
                   /\ IdleLookup.pc = "idle" /\ IdleLookup.clean = FALSE
                   /\ IdleLookup.genOK = FALSE
<1>1. /\ IdleLookup \in LookupStates
      /\ IdleLookup.pc = "idle" /\ IdleLookup.clean = FALSE /\ IdleLookup.genOK = FALSE
      /\ IdleLookup.opened = {}
  BY DEF IdleLookup, LookupStates
<1> QED
  BY <1>1 DEF Shape

\* A lookup that ends or fails leaves nothing.
LEMMA BecomesIdle ==
    ASSUME CInv, NEW l \in Lookups, lookup' = [lookup EXCEPT ![l] = IdleLookup],
           UNCHANGED <<deployment, store, entry, cacheMu, worker, queue, missed>>
    PROVE  CInv'
<1>1. lookup \in [Lookups -> LookupStates]
  BY DEF CInv, Typed
<1>2. /\ lookup'[l] = IdleLookup /\ lookup' \in [Lookups -> LookupStates]
      /\ \A k \in Lookups \ {l} : lookup'[k] = lookup[k]
  BY <1>1, IdleFacts
<1> QED
  BY <1>2, IdleFacts, OneMoves

\* A lookup starts.  When nothing is on its way to its snapshot, that is settled.
LEMMA StartNext ==
    ASSUME CInv, NEW l \in Lookups, NEW u \in Users, StartLookup(l, u)
    PROVE  CInv'
<1> DEFINE clean == ~ OnItsWay(CacheFor(l), u)
           y == [IdleLookup EXCEPT !.pc = "get", !.user = u, !.genOK = TRUE, !.clean = clean]
<1>1. lookup \in [Lookups -> LookupStates]
  BY DEF CInv, Typed
<1>2. clean \in BOOLEAN
  BY DEF OnItsWay
<1>3. lookup' = [lookup EXCEPT ![l] = y] /\ cacheMu[HomeOf[l]] = Free
  BY DEF StartLookup
<1>4. clean => Settled(CacheFor(l), u)
  BY HomeFacts DEF CInv, Fresh
<1> HIDE DEF clean
<1>5. /\ y \in LookupStates /\ y.pc = "get" /\ y.user = u /\ y.clean = clean
      /\ y.perms = {} /\ y.opened = {}
  BY <1>2 DEF IdleLookup, LookupStates
<1> HIDE DEF y
<1>6. /\ lookup'[l] = y /\ lookup' \in [Lookups -> LookupStates]
      /\ \A k \in Lookups \ {l} : lookup'[k] = lookup[k]
  BY <1>1, <1>3, <1>5
<1>7. Shape(y)
  BY <1>5 DEF Shape
<1>8. UNCHANGED <<deployment, store, entry, cacheMu, worker, queue, missed>>
  BY DEF StartLookup
<1> QED
  BY <1>3, <1>4, <1>5, <1>6, <1>7, <1>8, OneMoves

\* A hit of an undisturbed lookup is the current set.
LEMMA GetNext ==
    ASSUME CInv, NEW l \in Lookups, GetCached(l)
    PROVE  CInv'
<1>1. PICK x \in LookupStates : x = lookup[l]
  BY DEF CInv, Typed
<1>2. PICK v : v = entry[CacheFor(l)][x.user]
  OBVIOUS
<1> DEFINE y == IF v = NoEntry THEN [x EXCEPT !.pc = "token"]
                               ELSE [x EXCEPT !.pc = "done", !.perms = v]
<1>3. lookup' = [lookup EXCEPT ![l] = y] /\ x.pc = "get"
  BY <1>1, <1>2 DEF GetCached
<1>4. Shape(x) /\ Undisturbed(l) /\ x.user \in Users
  BY <1>1, <1>3 DEF CInv, Shape
<1>5. v # NoEntry => v \in SUBSET Permissions
  BY <1>2, <1>4, HomeFacts DEF CInv, Typed
<1>6. /\ y \in LookupStates /\ y.user = x.user /\ y.clean = x.clean /\ y.genOK = x.genOK
      /\ y.opened = x.opened
  BY <1>5 DEF LookupStates
<1>7. \/ y.pc = "token" /\ y.perms = x.perms
      \/ y.pc = "done" /\ y.perms = v /\ v # NoEntry
  BY DEF LookupStates
<1> HIDE DEF y
<1>8. Shape(y)
  BY <1>3, <1>4, <1>6, <1>7 DEF Shape
<1>9. /\ lookup'[l] = y /\ lookup' \in [Lookups -> LookupStates]
      /\ \A k \in Lookups \ {l} : lookup'[k] = lookup[k]
  BY <1>3, <1>6 DEF CInv, Typed
<1>10. x.clean => Settled(CacheFor(l), x.user)
  BY <1>1, <1>4 DEF Undisturbed
<1>11. x.clean /\ v # NoEntry => v = Effective(store, x.user)
  BY <1>2, <1>10 DEF Settled
<1>12. UNCHANGED <<deployment, store, entry, cacheMu, worker, queue, missed>>
  BY DEF GetCached
<1> QED
  BY <1>1, <1>6, <1>7, <1>8, <1>9, <1>10, <1>11, <1>12, OneMoves

\* The token.
LEMMA TokenNext ==
    ASSUME CInv, NEW l \in Lookups, NEW ok \in BOOLEAN, ReadToken(l, ok)
    PROVE  CInv'
<1>1. PICK x \in LookupStates : x = lookup[l]
  BY DEF CInv, Typed
<1> DEFINE y == [x EXCEPT !.pc = "roles", !.tokOK = ok]
<1>3. lookup' = [lookup EXCEPT ![l] = y] /\ x.pc = "token"
  BY <1>1 DEF ReadToken, CInv, Typed
<1>4. Shape(x) /\ Undisturbed(l)
  BY <1>1 DEF CInv
<1>6. /\ y \in LookupStates /\ y.user = x.user /\ y.clean = x.clean /\ y.genOK = x.genOK
      /\ y.opened = x.opened /\ y.perms = x.perms /\ y.pc = "roles"
  BY DEF LookupStates
<1> HIDE DEF y
<1>8. Shape(y)
  BY <1>3, <1>4, <1>6 DEF Shape
<1>9. /\ lookup'[l] = y /\ lookup' \in [Lookups -> LookupStates]
      /\ \A k \in Lookups \ {l} : lookup'[k] = lookup[k]
  BY <1>3, <1>6 DEF CInv, Typed
<1>10. x.clean => Settled(CacheFor(l), x.user)
  BY <1>1, <1>4 DEF Undisturbed
<1>12. UNCHANGED <<deployment, store, entry, cacheMu, worker, queue, missed>>
  BY DEF ReadToken
<1> QED
  BY <1>1, <1>6, <1>8, <1>9, <1>10, <1>12, OneMoves

\* The user's roles, read in one query, lead to the current set.
LEMMA RolesNext ==
    ASSUME CInv, NEW l \in Lookups, GetRoles(l)
    PROVE  CInv'
<1>1. PICK x \in LookupStates : x = lookup[l]
  BY DEF CInv, Typed
<1>2. PICK A \in SUBSET Roles : A = AssignedTo(store, x.user)
  BY DEF AssignedTo
<1> DEFINE y == [x EXCEPT !.pc = "walk", !.todo = A \X {{}}]
<1>3. lookup' = [lookup EXCEPT ![l] = y] /\ x.pc = "roles"
  BY <1>1, <1>2 DEF GetRoles, CInv, Typed
<1>4. Shape(x) /\ Undisturbed(l)
  BY <1>1 DEF CInv
<1>5. A \X {{}} \in SUBSET Items
  BY DEF Items
<1>6. /\ y \in LookupStates /\ y.user = x.user /\ y.clean = x.clean /\ y.genOK = x.genOK
      /\ y.opened = x.opened /\ y.perms = x.perms /\ y.pc = "walk" /\ y.todo = A \X {{}}
  BY <1>5 DEF LookupStates
<1> HIDE DEF y
<1>7. x.opened = {} /\ x.perms = {} /\ x.user \in Users
  BY <1>3, <1>4 DEF Shape
<1>8. Shape(y)
  BY <1>6, <1>7 DEF Shape
<1>9. /\ lookup'[l] = y /\ lookup' \in [Lookups -> LookupStates]
      /\ \A k \in Lookups \ {l} : lookup'[k] = lookup[k]
  BY <1>3, <1>6 DEF CInv, Typed
<1>10. x.clean => Settled(CacheFor(l), x.user)
  BY <1>1, <1>4 DEF Undisturbed
<1>11. Exact(l)'
  <2>1. {i[1] : i \in A \X {{}}} = A
    <3>1. \A r \in A : <<r, {}>> \in A \X {{}} /\ <<r, {}>>[1] = r
      OBVIOUS
    <3>2. \A i \in A \X {{}} : i[1] \in A
      OBVIOUS
    <3> QED
      BY <3>1, <3>2
  <2>2. LeftToRead(l)' = A
    BY <1>6, <1>7, <1>9, <2>1 DEF LeftToRead
  <2>3. store' = store
    BY DEF GetRoles
  <2> QED
    BY <1>2, <1>6, <1>7, <1>9, <2>2, <2>3 DEF Exact, Effective
<1>12. UNCHANGED <<deployment, store, entry, cacheMu, worker, queue, missed>>
  BY DEF GetRoles
<1> QED
  BY <1>1, <1>6, <1>8, <1>9, <1>10, <1>11, <1>12, OneMoves

\* The walk reads the permissions of a role: what it has and what is left is the
\* same as before.
LEMMA GetRoleNext ==
    ASSUME CInv, NEW l \in Lookups, NEW item \in lookup[l].todo, GetRole(l, item)
    PROVE  CInv'
<1>1. PICK x \in LookupStates : x = lookup[l]
  BY DEF CInv, Typed
<1>2. item \in Roles \X SUBSET Roles /\ item[1] \in Roles /\ x.todo \in SUBSET Items
  BY <1>1 DEF LookupStates, Items
<1>3. store \in Stores
  BY DEF CInv, Typed, StoreInv
<1>4. UNCHANGED <<deployment, store, entry, cacheMu, worker, queue, missed>>
  BY DEF GetRole
<1>5. CASE item[1] \in item[2]
  <2>1. lookup' = [lookup EXCEPT ![l] = IdleLookup]
    BY <1>5 DEF GetRole
  <2> QED
    BY <1>4, <2>1, BecomesIdle
<1>6. CASE item[1] \notin item[2]
  <2> DEFINE y == Opened(x, item)
  <2>1. lookup' = [lookup EXCEPT ![l] = y] /\ x.pc = "walk" /\ x.opened = {}
    BY <1>1, <1>6 DEF GetRole
  <2>2. store.permissions[item[1]] \in SUBSET Permissions /\ {item} \in SUBSET Items
    BY <1>2, <1>3 DEF Stores, Items
  <2>3. /\ y \in LookupStates /\ y.user = x.user /\ y.clean = x.clean /\ y.genOK = x.genOK
        /\ y.tokOK = x.tokOK /\ y.pc = "walk" /\ y.todo = x.todo \ {item} /\ y.opened = {item}
        /\ y.perms = x.perms \cup store.permissions[item[1]]
    BY <1>2, <2>1, <2>2 DEF LookupStates, Opened
  <2> HIDE DEF y
  <2>4. Shape(x) /\ Undisturbed(l) /\ x.user \in Users
    BY <1>1, <2>1 DEF CInv, Shape
  <2>5. Shape(y)
    BY <2>3, <2>4 DEF Shape
  <2>6. /\ lookup'[l] = y /\ lookup' \in [Lookups -> LookupStates]
        /\ \A k \in Lookups \ {l} : lookup'[k] = lookup[k]
    BY <2>1, <2>3 DEF CInv, Typed
  <2>7. Exact(l) => Exact(l)'
    <3> DEFINE S == {i[1] : i \in x.todo \ {item}}
    <3>1. {i[1] : i \in x.todo} = S \cup {item[1]} /\ S \in SUBSET Roles
      <4>1. \A i \in x.todo : i[1] \in Roles
        BY <1>2 DEF Items
      <4>2. item \in x.todo
        BY <1>1
      <4> QED
        BY <4>1, <4>2
    <3>2. LeftToRead(l) = S \cup {item[1]}
      BY <1>1, <2>1, <3>1 DEF LeftToRead
    <3>3. LeftToRead(l)' = S \cup store.parents[item[1]]
      BY <1>4, <2>3, <2>6 DEF LeftToRead
    <3> HIDE DEF S
    <3>4. PermissionsOf(store, S \cup {item[1]})
             = store.permissions[item[1]] \cup PermissionsOf(store, S \cup store.parents[item[1]])
      <4>1. PICK r \in Roles : r = item[1]
        BY <1>2
      <4>2. S \in SUBSET Roles
        BY <3>1
      <4>3. PermissionsOf(store, S \cup {r})
               = store.permissions[r] \cup PermissionsOf(store, S \cup store.parents[r])
        BY <1>3, <4>2, PermissionsSplit
      <4> QED
        BY <4>1, <4>3
    <3> QED
      BY <1>1, <1>4, <2>3, <2>6, <3>2, <3>3, <3>4 DEF Exact
  <2>8. MayFill(l)' => MayFill(l)
    BY <1>1, <1>4, <2>3, <2>6 DEF MayFill, Kind
  <2>9. x.clean => Settled(CacheFor(l), x.user) /\ Exact(l)
    BY <1>1, <2>1, <2>4 DEF Undisturbed
  <2> QED
    BY <1>1, <1>4, <2>1, <2>3, <2>5, <2>6, <2>7, <2>8, <2>9, OneMoves
<1> QED
  BY <1>5, <1>6

\* The walk reads its parents.
LEMMA ParentsNext ==
    ASSUME CInv, NEW l \in Lookups, NEW item \in lookup[l].opened, GetRoleParents(l, item)
    PROVE  CInv'
<1>1. PICK x \in LookupStates : x = lookup[l]
  BY DEF CInv, Typed
<1>2. item \in Items /\ item[1] \in Roles /\ item[2] \in SUBSET Roles /\ x.todo \in SUBSET Items
  BY <1>1 DEF LookupStates, Items
<1>3. store.parents[item[1]] \in SUBSET Roles
  BY <1>2 DEF CInv, Typed, StoreInv, Stores, Graphs
<1>4. UNCHANGED <<deployment, store, entry, cacheMu, worker, queue, missed>>
  BY DEF GetRoleParents
<1> DEFINE more == store.parents[item[1]] \X {item[2] \cup {item[1]}}
           y == [x EXCEPT !.todo = x.todo \cup more, !.opened = {}]
<1>5. lookup' = [lookup EXCEPT ![l] = y] /\ x.pc = "walk"
  BY <1>1 DEF GetRoleParents, CInv, Typed
<1>6. more \in SUBSET Items /\ {i[1] : i \in more} = store.parents[item[1]]
  <2>1. PICK P \in SUBSET Roles : P = store.parents[item[1]]
    BY <1>3
  <2>2. PICK path \in SUBSET Roles : path = item[2] \cup {item[1]}
    BY <1>2
  <2>3. more = P \X {path}
    BY <2>1, <2>2
  <2> HIDE DEF more
  <2>4. \A r \in P : <<r, path>> \in more /\ <<r, path>>[1] = r
    BY <2>3
  <2>5. more \in SUBSET Items /\ \A i \in more : i[1] \in P
    BY <2>3 DEF Items
  <2>6. {i[1] : i \in more} = P
    BY <2>4, <2>5
  <2> QED
    BY <2>1, <2>5, <2>6
<1> HIDE DEF more
<1>7. /\ y \in LookupStates /\ y.user = x.user /\ y.clean = x.clean /\ y.genOK = x.genOK
      /\ y.tokOK = x.tokOK /\ y.pc = "walk" /\ y.todo = x.todo \cup more /\ y.opened = {}
      /\ y.perms = x.perms
  BY <1>2, <1>5, <1>6 DEF LookupStates
<1> HIDE DEF y
<1>8. Shape(x) /\ Undisturbed(l) /\ x.user \in Users
  BY <1>1, <1>5 DEF CInv, Shape
<1>9. Shape(y)
  BY <1>7, <1>8 DEF Shape
<1>10. /\ lookup'[l] = y /\ lookup' \in [Lookups -> LookupStates]
       /\ \A k \in Lookups \ {l} : lookup'[k] = lookup[k]
  BY <1>5, <1>7 DEF CInv, Typed
<1>11. LeftToRead(l)' = LeftToRead(l)
  <2>1. x.opened = {item}
    BY <1>1, <1>8 DEF Shape
  <2>2. LeftToRead(l) = {i[1] : i \in x.todo} \cup store.parents[item[1]]
    BY <1>1, <2>1 DEF LeftToRead
  <2>3. LeftToRead(l)' = {i[1] : i \in x.todo \cup more}
    BY <1>7, <1>10 DEF LeftToRead
  <2> QED
    BY <1>6, <2>2, <2>3
<1>12. Exact(l) => Exact(l)'
  BY <1>1, <1>4, <1>7, <1>10, <1>11 DEF Exact
<1>13. MayFill(l)' => MayFill(l)
  BY <1>1, <1>4, <1>7, <1>10 DEF MayFill, Kind
<1>14. x.clean => Settled(CacheFor(l), x.user) /\ Exact(l)
  BY <1>1, <1>5, <1>8 DEF Undisturbed
<1> QED
  BY <1>1, <1>4, <1>5, <1>7, <1>9, <1>10, <1>12, <1>13, <1>14, OneMoves

\* A lookup that fills brings the current set, or an invalidation follows.
LEMMA FillNext ==
    ASSUME CInv, NEW l \in Lookups, NEW ok \in BOOLEAN, FillAndReturn(l, ok)
    PROVE  CInv'
<1>1. PICK x \in LookupStates : x = lookup[l]
  BY DEF CInv, Typed
<1>2. UNCHANGED <<deployment, store, cacheMu, worker, queue, missed>>
  BY DEF FillAndReturn
<1> DEFINE y == [x EXCEPT !.pc = "done"]
<1>3. lookup' = [lookup EXCEPT ![l] = y] /\ x.pc = "walk" /\ x.todo = {} /\ x.opened = {}
  BY <1>1 DEF FillAndReturn, CInv, Typed
<1>4. /\ y \in LookupStates /\ y.user = x.user /\ y.clean = x.clean /\ y.genOK = x.genOK
      /\ y.pc = "done" /\ y.opened = {} /\ y.perms = x.perms
  BY <1>3 DEF LookupStates
<1> HIDE DEF y
<1>5. Shape(x) /\ Undisturbed(l) /\ x.user \in Users /\ x.perms \in SUBSET Permissions
  BY <1>1, <1>3 DEF CInv, Shape, LookupStates
<1>6. /\ lookup'[l] = y /\ lookup' \in [Lookups -> LookupStates]
      /\ \A k \in Lookups \ {l} : lookup'[k] = lookup[k]
  BY <1>3, <1>4 DEF CInv, Typed
<1>7. \A k \in Lookups : Shape(lookup'[k])
  BY <1>4, <1>5, <1>6 DEF Shape, CInv
<1>8. Exact(l) => x.perms = Effective(store, x.user)
  <2>1. LeftToRead(l) = {}
    BY <1>1, <1>3 DEF LeftToRead
  <2>2. PermissionsOf(store, {}) = {}
    BY PermissionsEmpty DEF CInv, Typed, StoreInv
  <2> QED
    BY <1>1, <2>1, <2>2 DEF Exact
<1>9. /\ CacheFor(l) \in Caches
      /\ entry' = IF MayFill(l) /\ ok
                  THEN [entry EXCEPT ![CacheFor(l)][x.user] = x.perms] ELSE entry
  BY <1>1, HomeFacts DEF FillAndReturn, CInv
<1>10. /\ entry' \in [Caches -> [Users -> {NoEntry} \cup SUBSET Permissions]]
       /\ \A c \in Caches, u \in Users :
             \/ entry'[c][u] = entry[c][u]
             \/ c = CacheFor(l) /\ u = x.user /\ MayFill(l) /\ entry'[c][u] = x.perms
  BY <1>5, <1>9 DEF CInv, Typed
<1>11. Typed' /\ Locked'
  BY <1>1, <1>2, <1>4, <1>6, <1>10 DEF CInv, Typed, Locked
<1>12. ASSUME NEW c \in Caches, NEW u \in Users, Settled(c, u) PROVE Settled(c, u)'
  <2>1. entry'[c][u] \in {NoEntry, Effective(store, u)}
    <3>1. CASE entry'[c][u] = entry[c][u]
      BY <1>12, <3>1 DEF Settled
    <3>2. CASE c = CacheFor(l) /\ u = x.user /\ MayFill(l) /\ entry'[c][u] = x.perms
      <4>1. Filling(l, c, u)
        BY <1>1, <1>3, <3>2 DEF Filling
      <4> QED
        BY <1>8, <1>12, <3>2, <4>1 DEF Settled
    <3> QED
      BY <1>10, <3>1, <3>2
  <2>2. ASSUME NEW k \in Lookups, Filling(k, c, u)' PROVE Exact(k)'
    <3>1. k # l /\ lookup'[k] = lookup[k]
      BY <1>4, <1>6, <2>2 DEF Filling
    <3>2. LeftToRead(k)' = LeftToRead(k)
      BY <1>2, <3>1 DEF LeftToRead
    <3>3. Filling(k, c, u)
      BY <1>2, <2>2, <3>1 DEF Filling, MayFill, Kind, CacheFor, CacheOf
    <3>4. Exact(k)
      BY <1>12, <3>3 DEF Settled
    <3> QED
      BY <1>2, <3>1, <3>2, <3>4 DEF Exact
  <2> QED
    BY <1>2, <2>1, <2>2 DEF Settled
<1>13. Fresh'
  <2>1. ASSUME NEW c \in Caches, NEW u \in Users, OnItsWay(c, u) PROVE OnItsWay(c, u)'
    BY <1>2, <2>1 DEF OnItsWay, CacheOf
  <2> QED
    BY <1>12, <2>1 DEF CInv, Fresh
<1>14. ASSUME NEW k \in Lookups, lookup'[k].clean
       PROVE  /\ Settled(CacheFor(k), lookup[k].user)'
              /\ lookup'[k].pc = "walk" => Exact(k)'
              /\ lookup'[k].pc = "done" => lookup'[k].perms = Effective(store', lookup'[k].user)
  <2>1. lookup[k].clean /\ lookup'[k].user = lookup[k].user
    BY <1>1, <1>4, <1>6, <1>14
  <2>2. Undisturbed(k) /\ CacheFor(k) \in Caches /\ lookup[k].user \in Users
    BY <2>1, HomeFacts DEF CInv, Shape
  <2>3. PICK c \in Caches, u \in Users : c = CacheFor(k) /\ u = lookup[k].user
    BY <2>2
  <2>4. Settled(c, u)'
    BY <1>12, <2>1, <2>2, <2>3 DEF Undisturbed
  <2>5. Settled(CacheFor(k), lookup[k].user)'
    BY <1>2, <2>1, <2>3, <2>4 DEF Settled, Filling, CacheFor, CacheOf
  <2>6. CASE k = l
    BY <1>1, <1>2, <1>3, <1>4, <1>6, <1>8, <2>1, <2>2, <2>5, <2>6 DEF Undisturbed
  <2>7. CASE k # l
    <3>1. lookup'[k] = lookup[k]
      BY <1>6, <2>7
    <3>2. LeftToRead(k)' = LeftToRead(k)
      BY <1>2, <3>1 DEF LeftToRead
    <3> QED
      BY <1>2, <2>1, <2>2, <2>5, <3>1, <3>2 DEF Undisturbed, Exact
  <2> QED
    BY <2>6, <2>7
<1> QED
  BY <1>7, <1>11, <1>13, <1>14 DEF CInv, Undisturbed

-----------------------------------------------------------------------------
(* Steps of mutations and loops after the commit *)

\* While the store stays and lookups only lose, the invariant needs that what was
\* on its way still is, or did its work.
LEMMA OthersMove ==
    ASSUME CInv, Typed', Locked', UNCHANGED <<deployment, store>>,
           \A l \in Lookups : Weak(lookup[l], lookup'[l]),
           \A c \in Caches, u \in Users : entry'[c][u] \in {entry[c][u], NoEntry},
           \A c \in Caches, u \in Users : OnItsWay(c, u) => OnItsWay(c, u)' \/ Settled(c, u)'
    PROVE  CInv'
<1>1. ASSUME NEW c \in Caches, NEW u \in Users, Settled(c, u) PROVE Settled(c, u)'
  <2>1. Same(u)
    BY DEF Same
  <2> QED
    BY <1>1, <2>1, SettledKept DEF CInv
<1>2. Fresh'
  BY <1>1 DEF CInv, Fresh
<1>3. \A l \in Lookups : Shape(lookup'[l])
  BY DEF CInv, Shape, Weak
<1>4. ASSUME NEW k \in Lookups, lookup'[k].clean
      PROVE  /\ Settled(CacheFor(k), lookup[k].user)'
             /\ lookup'[k].pc = "walk" => Exact(k)'
             /\ lookup'[k].pc = "done" => lookup'[k].perms = Effective(store', lookup'[k].user)
  <2>1. Weak(lookup[k], lookup'[k]) /\ Undisturbed(k)
    BY DEF CInv
  <2>2. lookup[k].clean /\ lookup'[k].user = lookup[k].user
    BY <1>4, <2>1 DEF Weak
  <2>3. PICK c \in Caches, u \in Users : c = CacheFor(k) /\ u = lookup[k].user
    BY <2>2, HomeFacts DEF CInv, Shape
  <2>4. Settled(c, u)'
    BY <1>1, <2>1, <2>2, <2>3 DEF Undisturbed
  <2>5. Settled(CacheFor(k), lookup[k].user)'
    BY <2>2, <2>3, <2>4 DEF Settled, Filling, CacheFor, CacheOf
  <2>6. LeftToRead(k)' = LeftToRead(k)
    BY <2>1 DEF LeftToRead, Weak
  <2> QED
    BY <2>1, <2>2, <2>5, <2>6 DEF Undisturbed, Exact, Weak
<1> QED
  BY <1>2, <1>3, <1>4 DEF CInv, Undisturbed

\* cacheMu is taken: what was to be done is to be deleted.
LEMMA LockNext ==
    ASSUME CInv, NEW w \in Workers, LockCache(w)
    PROVE  CInv'
<1>1. /\ worker \in [Workers -> WorkerStates] /\ cacheMu \in [Enforcers -> Workers \cup {Free}]
      /\ lookup \in [Lookups -> LookupStates]
  BY DEF CInv, Typed
<1>2. PICK e \in Enforcers : e = HomeOf[w]
  BY HomeFacts DEF CInv
<1>3. PICK ev \in Events : ev = worker[w].ev
  BY <1>1 DEF WorkerStates
<1>4. /\ UNCHANGED <<deployment, store, entry, queue, missed>> /\ worker[w].pc = "lock"
      /\ cacheMu[e] = Free /\ cacheMu' = [cacheMu EXCEPT ![e] = w]
      /\ worker' = [worker EXCEPT ![w].pc = "delete", ![w].keys = Hits(ev)]
  BY <1>2, <1>3 DEF LockCache
<1>5. Hits(ev) \in SUBSET Users
  BY HomeFacts DEF CInv
<1>6. /\ worker' \in [Workers -> WorkerStates]
      /\ worker'[w].pc = "delete" /\ worker'[w].keys = Hits(ev) /\ worker'[w].ev = ev
      /\ \A v \in Workers \ {w} : worker'[v] = worker[v]
  BY <1>1, <1>3, <1>4, <1>5 DEF WorkerStates
<1>7. ASSUME NEW l \in Lookups
      PROVE  Weak(lookup[l], lookup'[l]) /\ (HomeOf[l] = e => ~ lookup'[l].genOK)
  <2>1. lookup[l] \in LookupStates
    BY <1>1
  <2>2. lookup'[l] = IF HomeOf[l] = e THEN [lookup[l] EXCEPT !.genOK = FALSE] ELSE lookup[l]
    BY <1>2 DEF LockCache
  <2> QED
    BY <2>1, <2>2, WeakFacts, WeakSelf
<1>8. lookup' \in [Lookups -> LookupStates]
  <2>1. lookup' = [l \in Lookups |-> lookup'[l]]
    BY DEF LockCache
  <2> QED
    BY <1>7, <2>1 DEF Weak
<1>9. Typed'
  BY <1>4, <1>6, <1>8 DEF CInv, Typed
<1>10. Locked'
  <2>1. ASSUME NEW v \in Workers, worker'[v].pc = "delete"
        PROVE  cacheMu'[HomeOf[v]] = v /\ worker'[v].keys \subseteq Hits(worker'[v].ev)
    <3>1. CASE v = w
      BY <1>1, <1>2, <1>4, <1>6, <3>1
    <3>2. CASE v # w
      <4>1. worker[v].pc = "delete" /\ worker'[v] = worker[v]
        BY <1>6, <2>1, <3>2
      <4>2. cacheMu[HomeOf[v]] = v /\ worker[v].keys \subseteq Hits(worker[v].ev)
        BY <4>1 DEF CInv, Locked
      <4>3. HomeOf[v] # e
        BY <1>4, <4>2, CacheConstantsOK
      <4> QED
        BY <1>1, <1>4, <4>1, <4>2, <4>3
    <3> QED
      BY <3>1, <3>2
  <2>2. ASSUME NEW l \in Lookups, cacheMu'[HomeOf[l]] # Free PROVE ~ lookup'[l].genOK
    <3>1. CASE HomeOf[l] = e
      BY <1>7, <3>1
    <3>2. CASE HomeOf[l] # e
      <4>1. cacheMu[HomeOf[l]] # Free
        BY <1>1, <1>4, <2>2, <3>2
      <4> QED
        BY <1>7, <4>1 DEF CInv, Locked, Weak
    <3> QED
      BY <3>1, <3>2
  <2> QED
    BY <2>1, <2>2 DEF Locked
<1>11. ASSUME NEW c \in Caches, NEW u \in Users, OnItsWay(c, u) PROVE OnItsWay(c, u)'
  BY <1>3, <1>4, <1>6, <1>11 DEF OnItsWay, CacheOf
<1> QED
  BY <1>4, <1>7, <1>9, <1>10, <1>11, OthersMove

\* A worker that is no longer deleting may release its lock, and only its own.
LEMMA Released ==
    ASSUME CInv, NEW w \in Workers,
           \A v \in Workers \ {w} : worker'[v] = worker[v], worker'[w].pc # "delete",
           \A e \in Enforcers : \/ cacheMu'[e] = cacheMu[e]
                                \/ cacheMu'[e] = Free /\ cacheMu[e] = w,
           \A l \in Lookups : Weak(lookup[l], lookup'[l])
    PROVE  Locked'
<1>1. ASSUME NEW v \in Workers, worker'[v].pc = "delete"
      PROVE  cacheMu'[HomeOf[v]] = v /\ worker'[v].keys \subseteq Hits(worker'[v].ev)
  <2>1. v # w /\ worker'[v] = worker[v] /\ worker[v].pc = "delete"
    BY <1>1
  <2>2. cacheMu[HomeOf[v]] = v /\ worker[v].keys \subseteq Hits(worker[v].ev)
    BY <2>1 DEF CInv, Locked
  <2>3. HomeOf[v] \in Enforcers
    BY HomeFacts DEF CInv
  <2> QED
    BY <2>1, <2>2, <2>3
<1>2. ASSUME NEW l \in Lookups, cacheMu'[HomeOf[l]] # Free PROVE ~ lookup'[l].genOK
  <2>1. cacheMu[HomeOf[l]] # Free
    BY <1>2, HomeFacts DEF CInv
  <2> QED
    BY <2>1 DEF CInv, Locked, Weak
<1> QED
  BY <1>1, <1>2 DEF Locked

\* A worker after its keys are gone.
LEMMA InvalidatedFacts ==
    ASSUME CInv, NEW w \in Workers
    PROVE  /\ Invalidated(w) \in WorkerStates
           /\ Invalidated(w).pc \in {"publish", "idle"}
           /\ w \in Mutators => Invalidated(w).pc = "publish" /\ Invalidated(w).ev = worker[w].ev
<1>1. worker[w] \in WorkerStates
  BY DEF CInv, Typed
<1> QED
  BY <1>1 DEF Invalidated, IdleWorker, WorkerStates, Events

\* What a failed delete or a finished one leaves on its way, apart from the keys
\* themselves.
LEMMA DoneOnItsWay ==
    ASSUME CInv, NEW w \in Workers, worker[w].pc = "delete",
           UNCHANGED <<deployment, queue>>, worker' = [worker EXCEPT ![w] = Invalidated(w)],
           NEW c \in Caches, NEW u \in Users, OnItsWay(c, u),
           <<c, u>> \in missed => <<c, u>> \in missed',
           ~ (c = CacheFor(w) /\ u \in worker[w].keys)
    PROVE  OnItsWay(c, u)'
<1>1. worker \in [Workers -> WorkerStates]
  BY DEF CInv, Typed
<1>2. /\ \A v \in Workers \ {w} : worker'[v] = worker[v]
      /\ worker'[w] = Invalidated(w)
  BY <1>1
<1>3. w \in Mutators => worker'[w].pc = "publish" /\ worker'[w].ev = worker[w].ev
  BY <1>2, InvalidatedFacts
<1> QED
  BY <1>2, <1>3 DEF OnItsWay, CacheFor, CacheOf

\* Keys are deleted: their entries are gone, and nobody who read before may fill.
LEMMA DeleteNext ==
    ASSUME CInv, NEW w \in Workers, NEW K \in SUBSET worker[w].keys, DeleteKeys(w, K)
    PROVE  CInv'
<1>1. /\ worker \in [Workers -> WorkerStates] /\ cacheMu \in [Enforcers -> Workers \cup {Free}]
      /\ lookup \in [Lookups -> LookupStates]
      /\ entry \in [Caches -> [Users -> {NoEntry} \cup SUBSET Permissions]]
  BY DEF CInv, Typed
<1>2. PICK e \in Enforcers : e = HomeOf[w]
  BY HomeFacts DEF CInv
<1>3. PICK d \in Caches : d = CacheOf[e] /\ d = CacheFor(w)
  BY <1>2, HomeFacts DEF CInv, CacheFor
<1>4. PICK rest \in SUBSET Users : rest = worker[w].keys \ K
  BY <1>1 DEF WorkerStates
<1>5. /\ UNCHANGED <<deployment, store, queue>> /\ worker[w].pc = "delete"
      /\ missed' = missed \ ({d} \X K) /\ (Kind # "redis" => rest = {})
      /\ \/ /\ rest = {} /\ cacheMu' = [cacheMu EXCEPT ![e] = Free]
            /\ worker' = [worker EXCEPT ![w] = Invalidated(w)]
         \/ /\ rest # {} /\ cacheMu' = cacheMu
            /\ worker' = [worker EXCEPT ![w].keys = rest]
  BY <1>2, <1>3, <1>4 DEF DeleteKeys
<1>6. \A c \in Caches, u \in Users : entry'[c][u] = IF c = d /\ u \in K THEN NoEntry ELSE entry[c][u]
  BY <1>1, <1>2, <1>3 DEF DeleteKeys, KeysDropped
<1>7. entry' \in [Caches -> [Users -> {NoEntry} \cup SUBSET Permissions]]
  BY <1>1, <1>2, <1>3 DEF DeleteKeys, KeysDropped
<1>8. ASSUME NEW l \in Lookups
      PROVE  /\ Weak(lookup[l], lookup'[l])
             /\ CacheFor(l) = d /\ lookup[l].user \in K => ~ lookup'[l].tokOK
  <2>1. lookup[l] \in LookupStates
    BY <1>1
  <2>2. lookup'[l] = IF CacheFor(l) = d /\ (Kind = "memory" \/ lookup[l].user \in K)
                     THEN [lookup[l] EXCEPT !.tokOK = FALSE] ELSE lookup[l]
    BY <1>2, <1>3 DEF DeleteKeys, TokensDropped
  <2> QED
    BY <2>1, <2>2, WeakFacts, WeakSelf
<1>9. lookup' \in [Lookups -> LookupStates]
  <2>1. lookup' = [l \in Lookups |-> lookup'[l]]
    BY DEF DeleteKeys, TokensDropped
  <2> QED
    BY <1>8, <2>1 DEF Weak
<1>10. cacheMu[e] = w /\ worker[w].keys \subseteq Hits(worker[w].ev)
  BY <1>2, <1>5 DEF CInv, Locked
<1>11. ASSUME NEW u \in K, u \in Users PROVE Settled(d, u)'
  <2>1. entry'[d][u] = NoEntry
    BY <1>6, <1>11
  <2>2. ASSUME NEW k \in Lookups, Filling(k, d, u)' PROVE FALSE
    <3>1. lookup'[k].user = u /\ CacheFor(k) = d /\ lookup'[k].genOK
      BY <1>5, <2>2 DEF Filling, MayFill, CacheFor, CacheOf
    <3>2. lookup[k].user = u /\ lookup[k].genOK /\ ~ lookup'[k].tokOK
      BY <1>8, <1>11, <3>1 DEF Weak
    <3>3. Kind = "plain"
      BY <1>5, <2>2, <3>2 DEF Filling, MayFill, Kind
    <3>4. HomeOf[k] = e
      BY <1>3, <3>1, <3>3, HomeFacts DEF CInv, CacheFor
    <3> QED
      BY <1>10, <3>2, <3>4, CacheConstantsOK DEF CInv, Locked
  <2> QED
    BY <2>1, <2>2 DEF Settled
<1>12. CASE rest = {}
  <2>1. cacheMu' = [cacheMu EXCEPT ![e] = Free] /\ worker' = [worker EXCEPT ![w] = Invalidated(w)]
    BY <1>5, <1>12
  <2>2. /\ worker' \in [Workers -> WorkerStates] /\ worker'[w].pc # "delete"
        /\ \A v \in Workers \ {w} : worker'[v] = worker[v]
    BY <1>1, <2>1, InvalidatedFacts
  <2>3. /\ cacheMu' \in [Enforcers -> Workers \cup {Free}]
        /\ \A f \in Enforcers : \/ cacheMu'[f] = cacheMu[f]
                                \/ cacheMu'[f] = Free /\ cacheMu[f] = w
    BY <1>1, <1>10, <2>1
  <2>4. Locked'
    BY <1>8, <2>2, <2>3, Released
  <2>5. Typed'
    BY <1>5, <1>7, <1>9, <2>2, <2>3 DEF CInv, Typed
  <2>6. ASSUME NEW c \in Caches, NEW u \in Users, OnItsWay(c, u)
        PROVE  OnItsWay(c, u)' \/ Settled(c, u)'
    <3>1. CASE c = d /\ u \in K
      BY <1>11, <3>1
    <3>2. CASE ~ (c = d /\ u \in K)
      <4>1. ~ (c = CacheFor(w) /\ u \in worker[w].keys)
        BY <1>3, <1>4, <1>12, <3>2
      <4>2. <<c, u>> \in missed => <<c, u>> \in missed'
        BY <1>5, <3>2
      <4> QED
        BY <1>5, <2>1, <2>6, <4>1, <4>2, DoneOnItsWay
    <3> QED
      BY <3>1, <3>2
  <2> QED
    BY <1>5, <1>6, <1>8, <2>4, <2>5, <2>6, OthersMove
<1>13. CASE rest # {}
  <2>1. cacheMu' = cacheMu /\ worker' = [worker EXCEPT ![w].keys = rest]
    BY <1>5, <1>13
  <2>2. /\ worker' \in [Workers -> WorkerStates] /\ worker'[w].pc = "delete"
        /\ worker'[w].keys = rest /\ worker'[w].ev = worker[w].ev
        /\ \A v \in Workers \ {w} : worker'[v] = worker[v]
    BY <1>1, <1>5, <2>1 DEF WorkerStates
  <2>3. Locked'
    <3>1. ASSUME NEW v \in Workers, worker'[v].pc = "delete"
          PROVE  cacheMu'[HomeOf[v]] = v /\ worker'[v].keys \subseteq Hits(worker'[v].ev)
      BY <1>2, <1>4, <1>10, <2>1, <2>2, <3>1 DEF CInv, Locked
    <3>2. ASSUME NEW l \in Lookups, cacheMu'[HomeOf[l]] # Free PROVE ~ lookup'[l].genOK
      BY <1>8, <2>1, <3>2 DEF CInv, Locked, Weak
    <3> QED
      BY <3>1, <3>2 DEF Locked
  <2>4. Typed'
    BY <1>5, <1>7, <1>9, <2>1, <2>2 DEF CInv, Typed
  <2>5. ASSUME NEW c \in Caches, NEW u \in Users, OnItsWay(c, u)
        PROVE  OnItsWay(c, u)' \/ Settled(c, u)'
    <3>1. CASE c = d /\ u \in K
      BY <1>11, <3>1
    <3>2. CASE ~ (c = d /\ u \in K)
      <4>1. CacheOf[HomeOf[w]] = d
        BY <1>2, <1>3
      <4>2. <<c, u>> \in missed => <<c, u>> \in missed'
        BY <1>5, <3>2
      <4> QED
        BY <1>4, <1>5, <2>2, <2>5, <3>2, <4>1, <4>2 DEF OnItsWay, CacheOf
    <3> QED
      BY <3>1, <3>2
  <2> QED
    BY <1>5, <1>6, <1>8, <2>3, <2>4, <2>5, OthersMove
<1> QED
  BY <1>12, <1>13

\* Keys that could not be deleted are remembered as missed.
LEMMA FailNext ==
    ASSUME CInv, NEW w \in Workers, DeleteFails(w)
    PROVE  CInv'
<1>1. /\ worker \in [Workers -> WorkerStates] /\ cacheMu \in [Enforcers -> Workers \cup {Free}]
      /\ lookup \in [Lookups -> LookupStates]
  BY DEF CInv, Typed
<1>2. PICK e \in Enforcers : e = HomeOf[w]
  BY HomeFacts DEF CInv
<1>3. /\ UNCHANGED <<deployment, store, entry, lookup, queue>> /\ worker[w].pc = "delete"
      /\ missed' = missed \cup ({CacheFor(w)} \X worker[w].keys)
      /\ cacheMu' = [cacheMu EXCEPT ![e] = Free]
      /\ worker' = [worker EXCEPT ![w] = Invalidated(w)]
  BY <1>2 DEF DeleteFails, CacheFor
<1>4. cacheMu[e] = w
  BY <1>2, <1>3 DEF CInv, Locked
<1>5. \A l \in Lookups : Weak(lookup[l], lookup'[l])
  BY <1>1, <1>3, WeakSelf
<1>6. /\ worker' \in [Workers -> WorkerStates] /\ worker'[w].pc # "delete"
      /\ \A v \in Workers \ {w} : worker'[v] = worker[v]
  BY <1>1, <1>3, InvalidatedFacts
<1>7. /\ cacheMu' \in [Enforcers -> Workers \cup {Free}]
      /\ \A f \in Enforcers : \/ cacheMu'[f] = cacheMu[f]
                              \/ cacheMu'[f] = Free /\ cacheMu[f] = w
  BY <1>1, <1>3, <1>4
<1>8. Locked'
  BY <1>5, <1>6, <1>7, Released
<1>9. Typed'
  BY <1>3, <1>6, <1>7 DEF CInv, Typed
<1>10. ASSUME NEW c \in Caches, NEW u \in Users, OnItsWay(c, u) PROVE OnItsWay(c, u)'
  <2>1. CASE c = CacheFor(w) /\ u \in worker[w].keys
    BY <1>3, <2>1 DEF OnItsWay
  <2>2. CASE ~ (c = CacheFor(w) /\ u \in worker[w].keys)
    BY <1>3, <1>10, <2>2, DoneOnItsWay
  <2> QED
    BY <2>1, <2>2
<1> QED
  BY <1>3, <1>5, <1>8, <1>9, <1>10, OthersMove

\* What a channel holds after an event was offered, and which users that concerns.
LEMMA OfferFacts ==
    ASSUME NEW q \in Seq(Events), NEW ev \in Events
    PROVE  /\ Offer(q, ev) \in Seq(Events)
           /\ \A u \in Users : (\E i \in DOMAIN q : u \in Hits(q[i])) =>
                 \E i \in DOMAIN Offer(q, ev) : u \in Hits(Offer(q, ev)[i])
           /\ Taken(q, ev) => \A u \in Hits(ev) :
                 \E i \in DOMAIN Offer(q, ev) : u \in Hits(Offer(q, ev)[i])
<1>1. CASE ~ Full(q)
  <2>1. Offer(q, ev) = Append(q, ev)
    BY <1>1 DEF Offer
  <2>2. /\ Append(q, ev) \in Seq(Events)
        /\ \A i \in DOMAIN q : i \in DOMAIN Append(q, ev) /\ Append(q, ev)[i] = q[i]
        /\ Len(q) + 1 \in DOMAIN Append(q, ev) /\ Append(q, ev)[Len(q) + 1] = ev
    OBVIOUS
  <2> QED
    BY <2>1, <2>2
<1>2. CASE Full(q) /\ ev = InvalidateFlush
  <2>1. Offer(q, ev) = <<ev>>
    BY <1>2 DEF Offer
  <2>2. 1 \in DOMAIN <<ev>> /\ <<ev>>[1] = ev /\ Hits(ev) = Users /\ <<ev>> \in Seq(Events)
    BY <1>2 DEF Hits
  <2> QED
    BY <2>1, <2>2
<1>3. CASE Full(q) /\ ev # InvalidateFlush
  BY <1>3 DEF Offer, Taken
<1> QED
  BY <1>1, <1>2, <1>3

\* IdleWorker waits for nothing.
LEMMA IdleWorkerFacts == IdleWorker \in WorkerStates /\ IdleWorker.pc = "idle"
  BY DEF IdleWorker, WorkerStates, Events

\* The event is in the channels of whoever it reached; who was not told has missed it.
LEMMA PublishNext ==
    ASSUME CInv, NEW m \in Mutators, NEW R \in SUBSET Subscribers, Publish(m, R)
    PROVE  CInv'
<1>1. /\ worker \in [Workers -> WorkerStates] /\ cacheMu \in [Enforcers -> Workers \cup {Free}]
      /\ lookup \in [Lookups -> LookupStates] /\ queue \in [Enforcers -> Seq(Events)]
  BY DEF CInv, Typed
<1>2. m \in Workers /\ R \subseteq Enforcers
  BY HomeFacts DEF Workers, CInv
<1>3. PICK ev \in Events : ev = worker[m].ev
  BY <1>1, <1>2 DEF WorkerStates
<1> DEFINE reached == {CacheOf[e] : e \in {f \in R : Taken(queue[f], ev)}}
<1>4. /\ UNCHANGED <<deployment, store, entry, cacheMu, lookup>> /\ worker[m].pc = "publish"
      /\ queue' = [e \in Enforcers |-> IF e \in R THEN Offer(queue[e], ev) ELSE queue[e]]
      /\ missed' = missed \cup ((Caches \ (reached \cup {CacheOf[HomeOf[m]]})) \X Hits(ev))
      /\ worker' = [worker EXCEPT ![m] = IdleWorker]
  BY <1>3 DEF Publish
<1>5. \A l \in Lookups : Weak(lookup[l], lookup'[l])
  BY <1>1, <1>4, WeakSelf
<1>6. /\ worker' \in [Workers -> WorkerStates] /\ worker'[m].pc # "delete"
      /\ \A v \in Workers \ {m} : worker'[v] = worker[v]
  BY <1>1, <1>2, <1>4, IdleWorkerFacts
<1>7. Locked'
  BY <1>2, <1>4, <1>5, <1>6, Released
<1>8. queue' \in [Enforcers -> Seq(Events)]
  BY <1>1, <1>4, OfferFacts
<1>9. Typed'
  BY <1>4, <1>6, <1>8 DEF CInv, Typed
<1>10. ASSUME NEW e \in Enforcers, NEW u \in Users, \E i \in DOMAIN queue[e] : u \in Hits(queue[e][i])
       PROVE  \E i \in DOMAIN queue'[e] : u \in Hits(queue'[e][i])
  <2>1. queue[e] \in Seq(Events)
    BY <1>1
  <2>2. queue'[e] = queue[e] \/ queue'[e] = Offer(queue[e], ev)
    BY <1>4
  <2> QED
    BY <1>10, <2>1, <2>2, OfferFacts
<1>11. ASSUME NEW e \in R, Taken(queue[e], ev), NEW u \in Hits(ev)
       PROVE  \E i \in DOMAIN queue'[e] : u \in Hits(queue'[e][i])
  <2>1. queue[e] \in Seq(Events)
    BY <1>1, <1>2
  <2>2. queue'[e] = Offer(queue[e], ev)
    BY <1>2, <1>4
  <2> QED
    BY <1>11, <2>1, <2>2, OfferFacts
<1>12. ASSUME NEW c \in Caches, NEW u \in Users, OnItsWay(c, u) PROVE OnItsWay(c, u)'
  <2>1. CASE u \in Hits(ev) /\ CacheOf[HomeOf[m]] # c
    <3>1. CASE c \in reached
      <4>1. PICK e \in R : Taken(queue[e], ev) /\ CacheOf[e] = c
        BY <3>1
      <4>2. \E i \in DOMAIN queue'[e] : u \in Hits(queue'[e][i])
        BY <1>11, <2>1, <4>1
      <4> QED
        BY <1>2, <1>4, <4>1, <4>2 DEF OnItsWay, CacheOf
    <3>2. CASE c \notin reached
      <4>1. <<c, u>> \in missed'
        BY <1>4, <2>1, <3>2
      <4> QED
        BY <4>1 DEF OnItsWay
    <3> QED
      BY <3>1, <3>2
  <2>2. CASE ~ (u \in Hits(ev) /\ CacheOf[HomeOf[m]] # c)
    <3>1. <<c, u>> \in missed => <<c, u>> \in missed'
      BY <1>4
    <3> QED
      BY <1>3, <1>4, <1>6, <1>10, <1>12, <2>2, <3>1 DEF OnItsWay, CacheOf
  <2> QED
    BY <2>1, <2>2
<1> QED
  BY <1>4, <1>5, <1>7, <1>9, <1>12, OthersMove

\* What a dead mutation had not told is missed.
LEMMA DiesNext ==
    ASSUME CInv, NEW m \in Mutators, MutatorDies(m)
    PROVE  CInv'
<1>1. /\ worker \in [Workers -> WorkerStates] /\ cacheMu \in [Enforcers -> Workers \cup {Free}]
      /\ lookup \in [Lookups -> LookupStates]
  BY DEF CInv, Typed
<1>2. m \in Workers
  BY DEF Workers
<1>3. /\ UNCHANGED <<deployment, store, entry, lookup, queue>>
      /\ missed' = missed \cup (Caches \X Hits(worker[m].ev))
      /\ cacheMu' = [e \in Enforcers |-> IF cacheMu[e] = m THEN Free ELSE cacheMu[e]]
      /\ worker' = [worker EXCEPT ![m] = IdleWorker]
  BY DEF MutatorDies
<1>4. \A l \in Lookups : Weak(lookup[l], lookup'[l])
  BY <1>1, <1>3, WeakSelf
<1>5. /\ worker' \in [Workers -> WorkerStates] /\ worker'[m].pc # "delete"
      /\ \A v \in Workers \ {m} : worker'[v] = worker[v]
  BY <1>1, <1>2, <1>3, IdleWorkerFacts
<1>6. /\ cacheMu' \in [Enforcers -> Workers \cup {Free}]
      /\ \A f \in Enforcers : \/ cacheMu'[f] = cacheMu[f]
                              \/ cacheMu'[f] = Free /\ cacheMu[f] = m
  BY <1>1, <1>3
<1>7. Locked'
  BY <1>2, <1>4, <1>5, <1>6, Released
<1>8. Typed'
  BY <1>3, <1>5, <1>6 DEF CInv, Typed
<1>9. ASSUME NEW c \in Caches, NEW u \in Users, OnItsWay(c, u) PROVE OnItsWay(c, u)'
  <2>1. CASE u \in Hits(worker[m].ev)
    BY <1>3, <2>1 DEF OnItsWay
  <2>2. CASE u \notin Hits(worker[m].ev)
    <3>1. worker[m].pc = "delete" => u \notin worker[m].keys
      BY <1>2, <2>2 DEF CInv, Locked
    <3> QED
      BY <1>3, <1>5, <1>9, <2>2, <3>1 DEF OnItsWay, CacheOf
  <2> QED
    BY <2>1, <2>2
<1> QED
  BY <1>3, <1>4, <1>7, <1>8, <1>9, OthersMove

\* An event moves from the channel to the loop.
LEMMA ReceiveNext ==
    ASSUME CInv, NEW e \in Enforcers, ReceiveEvent(e)
    PROVE  CInv'
<1>1. /\ worker \in [Workers -> WorkerStates] /\ cacheMu \in [Enforcers -> Workers \cup {Free}]
      /\ lookup \in [Lookups -> LookupStates] /\ queue \in [Enforcers -> Seq(Events)]
  BY DEF CInv, Typed
<1>2. e \in Workers /\ e \notin Mutators /\ HomeOf[e] = e
  BY CacheConstantsOK DEF Workers
<1>3. PICK q \in Seq(Events) : q = queue[e]
  BY <1>1
<1>4. /\ UNCHANGED <<deployment, store, entry, cacheMu, lookup, missed>>
      /\ worker[e].pc = "idle" /\ q # << >>
      /\ worker' = [worker EXCEPT ![e].pc = "lock", ![e].ev = Head(q)]
      /\ queue' = [queue EXCEPT ![e] = Tail(q)]
  BY <1>1, <1>3 DEF ReceiveEvent
<1>5. /\ Head(q) \in Events /\ Head(q) = q[1] /\ Tail(q) \in Seq(Events)
      /\ \A i \in DOMAIN q : i = 1 \/ (i - 1 \in DOMAIN Tail(q) /\ Tail(q)[i - 1] = q[i])
  BY <1>4
<1>6. \A l \in Lookups : Weak(lookup[l], lookup'[l])
  BY <1>1, <1>4, WeakSelf
<1>7. /\ worker' \in [Workers -> WorkerStates] /\ worker'[e].pc = "lock" /\ worker'[e].ev = q[1]
      /\ \A v \in Workers \ {e} : worker'[v] = worker[v]
  BY <1>1, <1>2, <1>4, <1>5 DEF WorkerStates
<1>8. Locked'
  BY <1>2, <1>4, <1>6, <1>7, Released
<1>9. queue' \in [Enforcers -> Seq(Events)] /\ queue'[e] = Tail(q)
      /\ \A f \in Enforcers \ {e} : queue'[f] = queue[f]
  BY <1>1, <1>4, <1>5
<1>10. Typed'
  BY <1>4, <1>7, <1>9 DEF CInv, Typed
<1>11. ASSUME NEW c \in Caches, NEW u \in Users, OnItsWay(c, u) PROVE OnItsWay(c, u)'
  <2>1. CASE CacheOf[e] = c /\ \E i \in DOMAIN q : u \in Hits(q[i])
    <3>1. PICK i \in DOMAIN q : u \in Hits(q[i])
      BY <2>1
    <3>2. CASE i = 1
      BY <1>2, <1>4, <1>7, <2>1, <3>1, <3>2 DEF OnItsWay, CacheOf
    <3>3. CASE i # 1
      <4>1. \E j \in DOMAIN queue'[e] : u \in Hits(queue'[e][j])
        BY <1>5, <1>9, <3>1, <3>3
      <4> QED
        BY <1>4, <2>1, <4>1 DEF OnItsWay, CacheOf
    <3> QED
      BY <3>2, <3>3
  <2>2. CASE ~ (CacheOf[e] = c /\ \E i \in DOMAIN q : u \in Hits(q[i]))
    BY <1>3, <1>4, <1>7, <1>9, <1>11, <2>2 DEF OnItsWay, CacheOf
  <2> QED
    BY <2>1, <2>2
<1> QED
  BY <1>4, <1>6, <1>8, <1>10, <1>11, OthersMove

\* An entry is forgotten, on Redis with its token.
LEMMA ForgetNext ==
    ASSUME CInv, NEW d \in Caches, NEW f \in Users, Forget(d, f)
    PROVE  CInv'
<1>1. /\ lookup \in [Lookups -> LookupStates]
      /\ entry \in [Caches -> [Users -> {NoEntry} \cup SUBSET Permissions]]
  BY DEF CInv, Typed
<1>2. /\ UNCHANGED <<deployment, store, cacheMu, worker, queue>>
      /\ entry' = [entry EXCEPT ![d][f] = NoEntry]
      /\ lookup' = IF Kind = "redis" THEN TokensDropped(d, {f}) ELSE lookup
      /\ missed' = IF Kind = "redis" THEN missed \ {<<d, f>>} ELSE missed
  BY DEF Forget
<1>3. ASSUME NEW l \in Lookups
      PROVE  /\ Weak(lookup[l], lookup'[l])
             /\ Kind = "redis" /\ CacheFor(l) = d /\ lookup[l].user = f => ~ lookup'[l].tokOK
  <2>1. lookup[l] \in LookupStates
    BY <1>1
  <2>2. CASE Kind = "redis"
    <3>1. lookup'[l] = IF CacheFor(l) = d /\ lookup[l].user = f
                       THEN [lookup[l] EXCEPT !.tokOK = FALSE] ELSE lookup[l]
      BY <1>2, <2>2 DEF TokensDropped
    <3> QED
      BY <2>1, <3>1, WeakFacts, WeakSelf
  <2>3. CASE Kind # "redis"
    BY <1>2, <2>1, <2>3, WeakSelf
  <2> QED
    BY <2>2, <2>3
<1>4. lookup' \in [Lookups -> LookupStates]
  <2>1. lookup' = [l \in Lookups |-> lookup'[l]]
    BY <1>1, <1>2 DEF TokensDropped
  <2> QED
    BY <1>3, <2>1 DEF Weak
<1>5. /\ entry' \in [Caches -> [Users -> {NoEntry} \cup SUBSET Permissions]]
      /\ entry'[d][f] = NoEntry
      /\ \A c \in Caches, u \in Users : entry'[c][u] \in {entry[c][u], NoEntry}
  BY <1>1, <1>2
<1>6. Typed'
  BY <1>2, <1>4, <1>5 DEF CInv, Typed
<1>7. Locked'
  BY <1>2, <1>3 DEF CInv, Locked, Weak
<1>8. ASSUME Kind = "redis" PROVE Settled(d, f)'
  <2>1. ASSUME NEW k \in Lookups, Filling(k, d, f)' PROVE FALSE
    <3>1. lookup'[k].user = f /\ CacheFor(k) = d /\ lookup'[k].tokOK
      BY <1>2, <1>8, <2>1 DEF Filling, MayFill, CacheFor, CacheOf, Kind
    <3> QED
      BY <1>3, <1>8, <3>1 DEF Weak
  <2> QED
    BY <1>5, <2>1 DEF Settled
<1>9. ASSUME NEW c \in Caches, NEW u \in Users, OnItsWay(c, u)
      PROVE  OnItsWay(c, u)' \/ Settled(c, u)'
  <2>1. CASE Kind = "redis" /\ c = d /\ u = f
    BY <1>8, <2>1
  <2>2. CASE ~ (Kind = "redis" /\ c = d /\ u = f)
    <3>1. <<c, u>> \in missed => <<c, u>> \in missed'
      BY <1>2, <2>2
    <3> QED
      BY <1>2, <1>9, <3>1 DEF OnItsWay, CacheOf
  <2> QED
    BY <2>1, <2>2
<1> QED
  BY <1>2, <1>3, <1>5, <1>6, <1>7, <1>9, OthersMove

-----------------------------------------------------------------------------
(* Commits *)

\* A commit leaves a sound store, and the snapshots it makes stale are those that
\* its event is on the way to.
LEMMA CommittedNext ==
    ASSUME CInv, NEW m \in Mutators, worker[m].pc = "idle",
           NEW t, StoreInv(t), NEW ev \in Events, Committed(m, t, ev),
           \A u \in Users \ Hits(ev) : /\ t.parents = store.parents
                                       /\ t.permissions = store.permissions
                                       /\ t.users[u] = store.users[u]
    PROVE  CInv'
<1>1. /\ worker \in [Workers -> WorkerStates] /\ lookup \in [Lookups -> LookupStates]
  BY DEF CInv, Typed
<1>2. m \in Workers /\ CacheOf[HomeOf[m]] \in Caches
  BY HomeFacts DEF Workers, CInv, CacheFor
<1>3. /\ UNCHANGED <<deployment, entry, cacheMu, queue, missed>> /\ store' = t
      /\ worker' = [worker EXCEPT ![m].pc = "lock", ![m].ev = ev]
      /\ lookup' = [l \in Lookups |-> [lookup[l] EXCEPT !.clean = FALSE]]
  BY DEF Committed
<1>4. ASSUME NEW l \in Lookups PROVE Weak(lookup[l], lookup'[l]) /\ lookup'[l].clean = FALSE
  <2>1. lookup[l] \in LookupStates /\ lookup'[l] = [lookup[l] EXCEPT !.clean = FALSE]
    BY <1>1, <1>3
  <2> QED
    BY <2>1, WeakFacts
<1>5. lookup' \in [Lookups -> LookupStates]
  <2>1. lookup' = [l \in Lookups |-> lookup'[l]]
    BY <1>3
  <2> QED
    BY <1>4, <2>1 DEF Weak
<1>6. /\ worker' \in [Workers -> WorkerStates] /\ worker'[m].pc = "lock" /\ worker'[m].ev = ev
      /\ \A v \in Workers \ {m} : worker'[v] = worker[v]
  BY <1>1, <1>2, <1>3 DEF WorkerStates
<1>7. Locked'
  BY <1>2, <1>3, <1>4, <1>6, Released
<1>8. Typed'
  BY <1>3, <1>5, <1>6 DEF CInv, Typed
<1>9. ASSUME NEW c \in Caches, NEW u \in Users PROVE Settled(c, u)' \/ OnItsWay(c, u)'
  <2>1. CASE u \in Hits(ev)
    BY <1>2, <1>6, <2>1 DEF OnItsWay
  <2>2. CASE OnItsWay(c, u)
    BY <1>3, <1>6, <2>2 DEF OnItsWay, CacheOf
  <2>3. CASE u \notin Hits(ev) /\ Settled(c, u)
    <3>1. Same(u)
      BY <1>3, <2>3 DEF Same
    <3> QED
      BY <1>3, <1>4, <2>3, <3>1, SettledKept DEF CInv
  <2> QED
    BY <2>1, <2>2, <2>3 DEF CInv, Fresh
<1>10. ASSUME NEW l \in Lookups PROVE Shape(lookup'[l])
  <2>1. Shape(lookup[l]) /\ Weak(lookup[l], lookup'[l])
    BY <1>4 DEF CInv
  <2> QED
    BY <2>1 DEF Shape, Weak
<1> QED
  BY <1>4, <1>7, <1>8, <1>9, <1>10 DEF CInv, Fresh, Undisturbed

\* An assignment changes one user's roles and no role.
LEMMA AssignFrame ==
    ASSUME NEW s \in Stores, NEW u \in Users, NEW n \in Roles,
           NEW t \in {AssignRoleDo(s, u, n), UnassignRoleDo(s, u, n)}
    PROVE  /\ t.parents = s.parents /\ t.permissions = s.permissions
           /\ \A v \in Users \ {u} : t.users[v] = s.users[v]
<1>1. CASE t = AssignRoleDo(s, u, n)
  BY <1>1 DEF AssignRoleDo, Stores
<1>2. CASE t = UnassignRoleDo(s, u, n)
  BY <1>2 DEF UnassignRoleDo, Stores
<1> QED
  BY <1>1, <1>2

\* Every mutation is such a commit.
LEMMA MutateNext ==
    ASSUME CInv, NEW m \in Mutators, Mutate(m)
    PROVE  CInv'
<1>0. StoreInv(store) /\ store \in Stores
  BY DEF CInv, Typed, StoreInv
<1>1. ASSUME NEW t, StoreInv(t), MayMutate(m), Committed(m, t, InvalidateFlush) PROVE CInv'
  <2>1. InvalidateFlush \in Events /\ Hits(InvalidateFlush) = Users /\ worker[m].pc = "idle"
    BY <1>1 DEF Events, Hits, MayMutate
  <2> QED
    BY <1>1, <2>1, CommittedNext
<1>2. ASSUME NEW t, StoreInv(t), NEW u \in Users, MayMutate(m), Committed(m, t, u),
             t.parents = store.parents, t.permissions = store.permissions,
             \A v \in Users \ {u} : t.users[v] = store.users[v]
      PROVE  CInv'
  <2>1. u \in Events /\ Hits(u) = {u} /\ worker[m].pc = "idle"
    BY <1>2, CacheConstantsOK DEF Events, Hits, MayMutate
  <2> QED
    BY <1>2, <2>1, CommittedNext
<1>3. ASSUME NEW role \in RoleSpecs, RegisterRole(m, role) \/ UpdateRole(m, role) PROVE CInv'
  BY <1>0, <1>1, <1>3, AddRoleInv, UpdateRoleInv DEF RegisterRole, UpdateRole
<1>4. ASSUME NEW n \in Roles, DeleteRole(m, n) PROVE CInv'
  BY <1>0, <1>1, <1>4, DeleteRoleInv DEF DeleteRole
<1>5. ASSUME NEW u \in Users, NEW n \in Roles, AssignRole(m, u, n) PROVE CInv'
  <2>1. PICK t : t = AssignRoleDo(store, u, n)
    OBVIOUS
  <2>2. MayMutate(m) /\ AssignRoleOK(store, u, n) /\ Committed(m, t, u)
    BY <1>5, <2>1 DEF AssignRole
  <2>3. StoreInv(t)
    BY <1>0, <2>1, <2>2, AssignRoleInv
  <2>4. /\ t.parents = store.parents /\ t.permissions = store.permissions
        /\ \A v \in Users \ {u} : t.users[v] = store.users[v]
    BY <1>0, <2>1, AssignFrame
  <2> QED
    BY <1>2, <2>2, <2>3, <2>4
<1>6. ASSUME NEW u \in Users, NEW n \in Roles, UnassignRole(m, u, n) PROVE CInv'
  <2>1. PICK t : t = UnassignRoleDo(store, u, n)
    OBVIOUS
  <2>2. MayMutate(m) /\ UnassignRoleOK(store, u, n) /\ Committed(m, t, u)
    BY <1>6, <2>1 DEF UnassignRole
  <2>3. StoreInv(t)
    BY <1>0, <2>1, <2>2, UnassignRoleInv
  <2>4. /\ t.parents = store.parents /\ t.permissions = store.permissions
        /\ \A v \in Users \ {u} : t.users[v] = store.users[v]
    BY <1>0, <2>1, AssignFrame
  <2> QED
    BY <1>2, <2>2, <2>3, <2>4
<1>7. ASSUME NEW n \in Roles, NEW rules \in RuleLists, SetRoleRules(m, n, rules) PROVE CInv'
  BY <1>0, <1>1, <1>7, SetRoleRulesInv DEF SetRoleRules
<1>8. ASSUME NEW role \in RoleSpecs, NEW u \in Users, NEW n \in Roles,
             ApplyPolicyBatch(m, role, u, n)
      PROVE  CInv'
  <2>1. PICK t : t = UpdateRoleDo(store, role)
    OBVIOUS
  <2>2. /\ MayMutate(m) /\ UpdateRoleOK(store, role) /\ AssignRoleOK(store, u, n)
        /\ Committed(m, AssignRoleDo(t, u, n), InvalidateFlush)
    BY <1>8, <2>1 DEF ApplyPolicyBatch
  <2>3. StoreInv(t)
    BY <1>0, <2>1, <2>2, UpdateRoleInv
  <2>4. t.roles = store.roles
    BY <1>0, <2>1 DEF UpdateRoleDo, Stores
  <2>5. AssignRoleOK(t, u, n)
    BY <2>2, <2>4 DEF AssignRoleOK
  <2>6. StoreInv(AssignRoleDo(t, u, n))
    BY <2>3, <2>5, AssignRoleInv
  <2> QED
    BY <1>1, <2>2, <2>6
<1> QED
  BY <1>3, <1>4, <1>5, <1>6, <1>7, <1>8 DEF Mutate

-----------------------------------------------------------------------------
(* The theorems *)

\* Empty caches over a sound store satisfy the invariant.
LEMMA CacheInit == Init => CInv
<1> SUFFICES ASSUME Init PROVE CInv
  OBVIOUS
<1>1. /\ \A l \in Lookups : lookup[l] = IdleLookup
      /\ \A w \in Workers : worker[w] = IdleWorker
      /\ \A c \in Caches, u \in Users : entry[c][u] = NoEntry
      /\ \A e \in Enforcers : cacheMu[e] = Free
  BY DEF Init
<1>2. Typed
  <2>1. << >> \in Seq(Events)
    OBVIOUS
  <2>2. StoreInv(store)
    BY CacheConstantsOK DEF Init, StoreInv
  <2>3. lookup \in [Lookups -> LookupStates] /\ worker \in [Workers -> WorkerStates]
    BY IdleFacts, IdleWorkerFacts DEF Init
  <2>4. queue \in [Enforcers -> Seq(Events)]
    BY <2>1 DEF Init
  <2> QED
    BY <2>2, <2>3, <2>4 DEF Init, Typed
<1>3. Locked
  <2>1. \A l \in Lookups : HomeOf[l] \in Enforcers
    BY <1>2, HomeFacts
  <2> QED
    BY <1>1, <2>1, IdleFacts, IdleWorkerFacts DEF Locked
<1>4. \A l \in Lookups : Shape(lookup[l])
  BY <1>1, IdleFacts
<1>5. Fresh
  <2>1. ASSUME NEW c \in Caches, NEW u \in Users PROVE Settled(c, u)
    BY <1>1, IdleFacts DEF Settled, Filling
  <2> QED
    BY <2>1 DEF Fresh
<1>6. \A l \in Lookups : Undisturbed(l)
  BY <1>1, IdleFacts DEF Undisturbed
<1> QED
  BY <1>2, <1>3, <1>4, <1>5, <1>6 DEF CInv

\* Every step keeps the invariant.
LEMMA CacheNext == CInv /\ [Next]_vars => CInv'
<1> SUFFICES ASSUME CInv, [Next]_vars PROVE CInv'
  OBVIOUS
<1>1. ASSUME NEW l \in Lookups, NEW u \in Users, StartLookup(l, u) PROVE CInv'
  BY <1>1, StartNext
<1>2. ASSUME NEW l \in Lookups, LookupStep(l) PROVE CInv'
  <2>1. CASE GetCached(l)
    BY <2>1, GetNext
  <2>2. CASE \E ok \in BOOLEAN : ReadToken(l, ok)
    BY <2>2, TokenNext
  <2>3. CASE GetRoles(l)
    BY <2>3, RolesNext
  <2>4. CASE \E item \in lookup[l].todo : GetRole(l, item)
    BY <2>4, GetRoleNext
  <2>5. CASE \E item \in lookup[l].opened : GetRoleParents(l, item)
    BY <2>5, ParentsNext
  <2>6. CASE \E ok \in BOOLEAN : FillAndReturn(l, ok)
    BY <2>6, FillNext
  <2>7. CASE FinishLookup(l)
    BY <2>7, BecomesIdle DEF FinishLookup
  <2> QED
    BY <1>2, <2>1, <2>2, <2>3, <2>4, <2>5, <2>6, <2>7 DEF LookupStep
<1>3. ASSUME NEW l \in Lookups, StoreReadFails(l) PROVE CInv'
  BY <1>3, BecomesIdle DEF StoreReadFails
<1>4. ASSUME NEW m \in Mutators, Mutate(m) PROVE CInv'
  BY <1>4, MutateNext
<1>5. ASSUME NEW m \in Mutators, PublishAll(m) PROVE CInv'
  <2>1. Subscribers \in SUBSET Subscribers /\ Publish(m, Subscribers)
    BY <1>5 DEF PublishAll
  <2> QED
    BY <2>1, PublishNext
<1>6. ASSUME NEW m \in Mutators, NEW R \in SUBSET Subscribers, PublishSome(m, R) PROVE CInv'
  BY <1>6, PublishNext DEF PublishSome
<1>7. ASSUME NEW m \in Mutators, MutatorDies(m) PROVE CInv'
  BY <1>7, DiesNext
<1>8. ASSUME NEW w \in Workers, Invalidate(w) \/ DeleteFails(w) PROVE CInv'
  BY <1>8, LockNext, DeleteNext, FailNext DEF Invalidate
<1>9. ASSUME NEW e \in Enforcers, ReceiveEvent(e) PROVE CInv'
  BY <1>9, ReceiveNext
<1>10. ASSUME NEW c \in Caches, NEW u \in Users, Forget(c, u) PROVE CInv'
  BY <1>10, ForgetNext
<1>11. CASE UNCHANGED vars
  <2>1. UNCHANGED <<deployment, store, entry, cacheMu, lookup, worker, queue, missed>>
    BY <1>11 DEF vars
  <2>2. Typed' /\ Locked' /\ \A l \in Lookups : Weak(lookup[l], lookup'[l])
    BY <2>1, WeakSelf DEF CInv, Typed, Locked
  <2>3. ASSUME NEW c \in Caches, NEW u \in Users, OnItsWay(c, u) PROVE OnItsWay(c, u)'
    BY <2>1, <2>3 DEF OnItsWay, CacheOf
  <2> QED
    BY <2>1, <2>2, <2>3, OthersMove
<1> QED
  BY <1>1, <1>2, <1>3, <1>4, <1>5, <1>6, <1>7, <1>8, <1>9, <1>10, <1>11 DEF Next

\* The invariant holds in every reachable state.
THEOREM CacheInvariant == Spec => []CInv
<1>1. Init => CInv
  BY CacheInit
<1>2. CInv /\ [Next]_vars => CInv'
  BY CacheNext
<1> QED
  BY <1>1, <1>2, PTL DEF Spec

\* CacheFresh: no interleaving of permissionsFor with commits, flushes, drops and
\* events leaves a permission set in a cache that is neither the user's current one
\* nor about to be invalidated, unless an invalidation of it was lost.
THEOREM CachesStayFresh == Spec => []CacheFresh
<1>1. CInv => CacheFresh
  BY DEF CInv, Fresh, Settled, CacheFresh
<1> QED
  BY <1>1, CacheInvariant, PTL

\* LookupCurrent: a lookup that may still fill its cache brings the current set.
THEOREM LookupsStayCurrent == Spec => []LookupCurrent
<1>1. ASSUME CInv, NEW l \in Lookups, lookup[l].pc = "walk", MayFill(l)
      PROVE  \/ lookup[l].perms \cup PermissionsOf(store, LeftToRead(l))
                    = Effective(store, lookup[l].user)
             \/ OnItsWay(CacheFor(l), lookup[l].user)
  <2>1. CacheFor(l) \in Caches /\ lookup[l].user \in Users
    BY <1>1, HomeFacts DEF CInv, Shape
  <2>2. Settled(CacheFor(l), lookup[l].user) \/ OnItsWay(CacheFor(l), lookup[l].user)
    BY <1>1, <2>1 DEF CInv, Fresh
  <2>3. Filling(l, CacheFor(l), lookup[l].user)
    BY <1>1 DEF Filling
  <2> QED
    BY <2>2, <2>3 DEF Settled, Exact
<1>2. CInv => LookupCurrent
  BY <1>1 DEF LookupCurrent
<1> QED
  BY <1>2, CacheInvariant, PTL

\* LookupExact: permissionsFor answers with the current permissions when nothing
\* was on its way to its cache and nothing was committed meanwhile.
THEOREM LookupsAreExact == Spec => []LookupExact
<1>1. CInv => LookupExact
  BY DEF CInv, Undisturbed, LookupExact
<1> QED
  BY <1>1, CacheInvariant, PTL
=============================================================================
