---------------------------- MODULE PolicyVersion ----------------------------
(***************************************************************************)
(* The policy version and PermissionView.  Each mutation commits, counts   *)
(* on the enforcer's own counter and then on the shared source (the meta   *)
(* table or a Redis key), flushes the enforcer's cache and tells the other *)
(* enforcers; a view reads the roles, then the permissions (from the cache *)
(* when it has them), then the version, with mutations in between.  The    *)
(* frontend is the one of the README: it renders a view only when its      *)
(* version differs from the one it has saved.                              *)
(*                                                                         *)
(* What the store holds is the number of mutations committed so far.  A    *)
(* lookup of permissions is one step here.  An enforcer may not hear of a  *)
(* mutation: there may be no invalidator, a publish may fail, an event may *)
(* be discarded.  What it has cached then lasts until it expires or until  *)
(* the next invalidation.  EnforcerCache and Invalidator have the details. *)
(***************************************************************************)
EXTENDS Naturals, FiniteSets

CONSTANTS Deployments,     \* the enforcers, their source and their invalidator, if any
          Instances, Mutators,
          MaxMutations,    \* bound: mutations
          MaxErrors,       \* bound: failed accesses to the shared source
          Nothing

DeploymentShapes == [instances : SUBSET Instances, shared : BOOLEAN, invalidator : BOOLEAN]

ASSUME VersionConstantsOK == /\ Deployments \subseteq DeploymentShapes
                             /\ MaxMutations \in Nat /\ MaxErrors \in Nat
                             /\ Nothing \notin Nat /\ Nothing \notin Instances
                             /\ IsFiniteSet(Mutators)

\* The local counter is for deployments with a single enforcer.
ASSUME LocalCounterAlone == \A d \in Deployments : ~ d.shared => \A i, j \in d.instances : i = j

VARIABLES deployment,
          policy,     \* what the store holds
          source,     \* the shared version
          local,      \* e.policyVersion of each enforcer
          cache,      \* the permissions each enforcer has cached, or Nothing
          events,     \* enforcers with an invalidation event to apply
          missed,     \* history: enforcers with cached permissions an event did not reach
          worker,     \* what each mutation is doing
          view,       \* the PermissionView call of the frontend
          screen,     \* what the frontend has rendered, and the version it saved
          errors,
          floor,      \* history: the least version that shows every finished mutation
          known       \* history: what undisturbed views have reported

vars == <<deployment, policy, source, local, cache, events, missed, worker, view, screen,
          errors, floor, known>>

Versions == 0..(2 * MaxMutations)
Revisions == 0..MaxMutations

WorkerStates == [pc : {"idle", "count", "next", "mirror", "flush", "publish"},
                 on : Instances \cup {Nothing}, value : Versions,
                 before : Versions]    \* the version on the screen when it committed

ViewStates == [pc : {"idle", "permissions", "version", "mirror", "rendered"},
               on : Instances \cup {Nothing},
               roles : Revisions, permissions : Revisions, version : Versions,
               floor : Versions,       \* of the moment the view began
               quiet : BOOLEAN]        \* no mutation, told or not, was in its way

TypeOK == /\ deployment \in Deployments
          /\ policy \in Revisions /\ source \in Versions
          /\ local \in [Instances -> Versions]
          /\ cache \in [Instances -> Revisions \cup {Nothing}]
          /\ events \subseteq Instances /\ missed \subseteq Instances
          /\ worker \in [Mutators -> WorkerStates]
          /\ view \in ViewStates
          /\ screen \in [version : Versions, roles : Revisions, permissions : Revisions]
          /\ errors \in 0..MaxErrors
          /\ floor \in Versions
          /\ known \subseteq Versions \X Revisions \X Revisions

IdleWorker == [pc |-> "idle", on |-> Nothing, value |-> 0, before |-> 0]

\* The page has rendered the first view of an empty policy.
Init == /\ deployment \in Deployments
        /\ policy = 0 /\ source = 0
        /\ local = [i \in Instances |-> 0]
        /\ cache = [i \in Instances |-> Nothing]
        /\ events = {} /\ missed = {}
        /\ worker = [m \in Mutators |-> IdleWorker]
        /\ view = [pc |-> "idle", on |-> Nothing, roles |-> 0, permissions |-> 0,
                   version |-> 0, floor |-> 0, quiet |-> TRUE]
        /\ screen = [version |-> 0, roles |-> 0, permissions |-> 0]
        /\ errors = 0 /\ floor = 0
        /\ known = {<<0, 0, 0>>}

Instance(i) == i \in deployment.instances

Greater(a, b) == IF a > b THEN a ELSE b

-----------------------------------------------------------------------------
(* A mutation *)

At(m, pc) == worker[m].pc = pc

Calm == (\A m \in Mutators : At(m, "idle")) /\ events = {}

\* The store operation commits.
Commit(m, i) ==
    /\ At(m, "idle") /\ Instance(i) /\ policy < MaxMutations
    /\ policy' = policy + 1
    /\ worker' = [worker EXCEPT ![m] = [pc |-> "count", on |-> i, value |-> 0,
                                        before |-> screen.version]]
    /\ view' = [view EXCEPT !.quiet = FALSE]
    /\ UNCHANGED <<deployment, source, local, cache, events, missed, screen, errors,
                   floor, known>>

GoOn(m, pc) == worker' = [worker EXCEPT ![m].pc = pc]

\* bumpPolicyVersion: policyVersion.Add(1).
CountLocal(m) ==
    /\ At(m, "count")
    /\ local' = [local EXCEPT ![worker[m].on] = @ + 1]
    /\ GoOn(m, IF deployment.shared THEN "next" ELSE "flush")
    /\ UNCHANGED <<deployment, policy, source, cache, events, missed, view, screen,
                   errors, floor, known>>

\* NextPolicyVersion.
NextPolicyVersion(m) ==
    /\ At(m, "next")
    /\ source' = source + 1
    /\ worker' = [worker EXCEPT ![m].pc = "mirror", ![m].value = source + 1]
    /\ UNCHANGED <<deployment, policy, local, cache, events, missed, view, screen,
                   errors, floor, known>>

\* It fails: the local counter stands.
NextVersionFails(m) ==
    /\ At(m, "next") /\ errors < MaxErrors
    /\ errors' = errors + 1
    /\ GoOn(m, "flush")
    /\ UNCHANGED <<deployment, policy, source, local, cache, events, missed, view,
                   screen, floor, known>>

\* policyVersion.Store(n).
MirrorNext(m) ==
    /\ At(m, "mirror")
    /\ local' = [local EXCEPT ![worker[m].on] = worker[m].value]
    /\ GoOn(m, "flush")
    /\ UNCHANGED <<deployment, policy, source, cache, events, missed, view, screen,
                   errors, floor, known>>

\* Mutant: the enforcer trusts its own event to reach it.
FlushCache_Event(m) ==
    /\ At(m, "flush")
    /\ GoOn(m, "publish")
    /\ UNCHANGED <<deployment, policy, source, local, cache, events, missed, view, screen, errors,
                   floor, known>>

FlushCache(m) ==
    /\ At(m, "flush")
    /\ cache' = [cache EXCEPT ![worker[m].on] = Nothing]
    /\ missed' = missed \ {worker[m].on}
    /\ GoOn(m, "publish")
    /\ UNCHANGED <<deployment, policy, source, local, events, view, screen, errors,
                   floor, known>>

\* The mutation returns, and the other enforcers but the lost ones are told: all are
\* lost without an invalidator or when the publish fails, and any of them when an
\* event is discarded.
PublishAndReturn(m, lost) ==
    LET others == deployment.instances \ {worker[m].on} IN
    /\ At(m, "publish")
    /\ lost \subseteq others
    /\ deployment.invalidator \/ lost = others
    /\ events' = events \cup (others \ lost)
    /\ missed' = missed \cup {i \in lost : cache[i] # Nothing}
    /\ worker' = [worker EXCEPT ![m] = IdleWorker]
    /\ floor' = Greater(floor, worker[m].before + 1)
    /\ UNCHANGED <<deployment, policy, source, local, cache, view, screen, errors, known>>

\* What enforcer i has cached goes.
DropCached(i) ==
    /\ cache' = [cache EXCEPT ![i] = Nothing]
    /\ missed' = missed \ {i}
    /\ UNCHANGED <<deployment, policy, source, local, worker, view, screen, errors,
                   floor, known>>

ApplyEvent(i) == /\ i \in events
                 /\ events' = events \ {i}
                 /\ DropCached(i)

\* Or its time is over.
Expire(i) == /\ cache[i] # Nothing
             /\ UNCHANGED events
             /\ DropCached(i)

-----------------------------------------------------------------------------
(* PermissionView, called by the page *)

\* store.GetRoles.
ViewRoles(i) ==
    /\ view.pc \in {"idle", "rendered"} /\ Instance(i)
    /\ view' = [view EXCEPT !.pc = "permissions", !.on = i, !.roles = policy,
                            !.floor = floor, !.quiet = Calm /\ i \notin missed]
    /\ UNCHANGED <<deployment, policy, source, local, cache, events, missed, worker, screen, errors,
                   floor, known>>

\* permissionsFor: the cached permissions, or the store's, which are cached.
ViewPermissions ==
    LET found == IF cache[view.on] = Nothing THEN policy ELSE cache[view.on] IN
    /\ view.pc = "permissions"
    /\ view' = [view EXCEPT !.pc = "version", !.permissions = found]
    /\ cache' = [cache EXCEPT ![view.on] = found]
    /\ UNCHANGED <<deployment, policy, source, local, events, missed, worker, screen,
                   errors, floor, known>>

\* Mutant: the mirror answers, to save a round trip.
ViewVersion_Mirror ==
    /\ view.pc = "version" /\ deployment.shared
    /\ view' = [view EXCEPT !.pc = "mirror", !.version = local[view.on]]
    /\ UNCHANGED <<deployment, policy, source, local, cache, events, missed, worker, screen, errors,
                   floor, known>>

\* currentPolicyVersion, from the shared source.
ViewVersion ==
    /\ view.pc = "version" /\ deployment.shared
    /\ view' = [view EXCEPT !.pc = "mirror", !.version = source]
    /\ UNCHANGED <<deployment, policy, source, local, cache, events, missed, worker, screen, errors,
                   floor, known>>

\* The page compares versions, and renders what is new.
Render(v) ==
    /\ view' = [v EXCEPT !.pc = "rendered"]
    /\ screen' = IF v.version = screen.version THEN screen
                 ELSE [version |-> v.version, roles |-> v.roles, permissions |-> v.permissions]
    /\ known' = IF v.quiet /\ errors' = 0
                THEN known \cup {<<v.version, v.roles, v.permissions>>} ELSE known

\* policyVersion.Store(v), and the view returns.
MirrorView ==
    /\ view.pc = "mirror"
    /\ local' = [local EXCEPT ![view.on] = view.version]
    /\ UNCHANGED errors /\ Render(view)
    /\ UNCHANGED <<deployment, policy, source, cache, events, missed, worker, floor>>

\* The source fails, or there is none: the local counter is reported.
ViewLocalVersion ==
    /\ view.pc = "version"
    /\ deployment.shared => errors < MaxErrors
    /\ errors' = IF deployment.shared THEN errors + 1 ELSE errors
    /\ Render([view EXCEPT !.version = local[view.on]])
    /\ UNCHANGED <<deployment, policy, source, local, cache, events, missed, worker, floor>>

-----------------------------------------------------------------------------

AfterCommit(m) == \/ CountLocal(m) \/ NextPolicyVersion(m) \/ NextVersionFails(m) \/ MirrorNext(m)
                  \/ FlushCache(m)
                  \/ \E lost \in SUBSET Instances : PublishAndReturn(m, lost)

Fetch == \/ \E i \in Instances : ViewRoles(i)
         \/ ViewPermissions \/ ViewVersion \/ MirrorView \/ ViewLocalVersion

Next == \/ \E m \in Mutators : AfterCommit(m) \/ \E i \in Instances : Commit(m, i)
        \/ \E i \in Instances : ApplyEvent(i) \/ Expire(i)
        \/ Fetch

Spec == Init /\ [][Next]_vars

-----------------------------------------------------------------------------

\* A change is detected: when a mutation committed after the page saved its
\* version and returned before the page asked again, the answer has a higher
\* version, whichever enforcer gives it and however many mutations overlap.
\* A source that was unreachable voids this.
ChangeIsDetected ==
    errors = 0 /\ view.pc = "rendered" => view.version >= view.floor

\* A view that no mutation disturbed, on an enforcer with nothing cached that an
\* event should have dropped and did not, reports the number of mutations as its
\* version, and shows the roles and the permissions after just those.  So two such
\* views with one version show one policy, whichever enforcers answer.  An
\* enforcer that an event did not reach may show old permissions with the new
\* version until they expire; a source that was unreachable voids it.
VersionTellsPolicy ==
    \A x \in known : x[2] = x[1] /\ x[3] = x[1]

\* What the README tells frontends to rely on: after a view that no mutation
\* disturbed, a page that renders only when policy_version changes shows the
\* current permissions.
ScreenIsCurrent ==
    view.pc = "rendered" /\ view.quiet /\ errors = 0 =>
        screen.permissions = view.permissions
==============================================================================
