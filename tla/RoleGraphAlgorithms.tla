-------------------------- MODULE RoleGraphAlgorithms --------------------------
(***************************************************************************)
(* The recursive searches of the code over the role hierarchy, compared    *)
(* with the definitions of RoleGraph on every graph over Roles.  A state   *)
(* is a graph that a store may be asked to search: parents are the links   *)
(* of each role, present the roles a GetRole finds (a reader that is       *)
(* overtaken by mutations may follow a link to a role that is gone).       *)
(***************************************************************************)
EXTENDS RoleGraph, FiniteSets

ASSUME RolesFinite == IsFiniteSet(Roles)

VARIABLES parents, present

graphVars == <<parents, present>>

GraphInit == parents = [r \in Roles |-> {}] /\ present = {}

\* Another graph is to be searched: one role's links, or one role's existence,
\* differs.
Relink(r, S) == parents' = [parents EXCEPT ![r] = S] /\ UNCHANGED present

Toggle(r) == /\ present' = IF r \in present THEN present \ {r} ELSE present \cup {r}
             /\ UNCHANGED parents

GraphNext == \E r \in Roles : Toggle(r) \/ \E S \in SUBSET Roles : Relink(r, S)

GraphSpec == GraphInit /\ [][GraphNext]_graphVars

-----------------------------------------------------------------------------

\* Mutant: a role stays marked after its branch was searched.
dfs_Marked[todo \in SUBSET Roles, marked \in SUBSET Roles] ==
    /\ todo # {}
    /\ LET r == CHOOSE x \in todo : TRUE IN
       \/ r \in marked
       \/ dfs_Marked[(todo \ {r}) \cup (IF r \in present THEN parents[r] ELSE {}), marked \cup {r}]

CycleSearch_Marked(r) == dfs_Marked[{r}, {}]

\* memoryStore.detectCycle: depth first along the parent lists, visiting being
\* the roles on the current path; an absent role ends the path.
dfs[visiting \in SUBSET Roles] ==
    [r \in Roles |-> \/ r \in visiting
                     \/ r \in present /\ \E q \in parents[r] : dfs[visiting \cup {r}][q]]

CycleSearch(r) == dfs[{}][r]

\* The cycleCheck query of the SQL store: rows are added to reachable until a
\* round adds none, then the role is looked up among them.
withRecursive[reachable \in SUBSET Roles] ==
    LET more == reachable \cup UNION {parents[r] : r \in reachable} IN
    IF more = reachable THEN reachable ELSE withRecursive[more]

\* Mutant: the recursive term of the query is lost, only direct parents count.
checkCycles_OneRound(r) == r \in parents[r]

checkCycles(r) == r \in withRecursive[parents[r]]

\* Enforcer.collectEffective: the roles whose permissions are united, and
\* whether the walk met a role on its own path (ErrCycleDetected).
effective[visiting \in SUBSET Roles] ==
    [r \in Roles |->
        IF r \in visiting THEN [roles |-> {}, cycle |-> TRUE]
        ELSE IF r \notin present THEN [roles |-> {}, cycle |-> FALSE]
        ELSE LET sub(q) == effective[visiting \cup {r}][q] IN
             [roles |-> {r} \cup UNION {sub(q).roles : q \in parents[r]},
              cycle |-> \E q \in parents[r] : sub(q).cycle]]

\* Mutant: inheritance stops at the parents.
collectEffective_Parents(r) ==
    [roles |-> ({r} \cup parents[r]) \cap present, cycle |-> effective[{}][r].cycle]

collectEffective(r) == effective[{}][r]

\* Mutant: a role is recorded before it is known to exist.
names_Early[todo \in SUBSET Roles, seen \in SUBSET Roles] ==
    IF todo = {} THEN seen
    ELSE LET r == CHOOSE x \in todo : TRUE IN
         IF r \in seen \/ r \notin present THEN names_Early[todo \ {r}, seen \cup {r}]
         ELSE names_Early[(todo \ {r}) \cup parents[r], seen \cup {r}]

collectRoleNames_Early(r) == names_Early[{r}, {}]

\* Enforcer.collectRoleNames: seen is shared by the whole walk, so a role is
\* expanded once; todo are the calls still to be made, in any order.
names[seen \in SUBSET Roles] ==
    [todo \in SUBSET Roles |->
        IF todo = {} THEN seen
        ELSE LET r == CHOOSE x \in todo : TRUE IN
             IF r \in seen \/ r \notin present THEN names[seen][todo \ {r}]
             ELSE names[seen \cup {r}][(todo \ {r}) \cup parents[r]]]

collectRoleNames(r) == names[{}][{r}]

-----------------------------------------------------------------------------

\* The links a search can follow: those of the roles that exist.
Links == [r \in Roles |-> IF r \in present THEN parents[r] ELSE {}]

\* The depth-first search reports a cycle exactly when one is reachable, and a
\* role met again on another branch (a diamond) is none.
CycleSearchExact == \A r \in Roles : CycleSearch(r) <=> detectCycle(Links, r)

\* The memory store and the SQL store refuse the same updates: when the links of
\* the other roles are acyclic and every parent exists, as both keep it, the two
\* searches agree.
StoresAgree ==
    \A r \in Roles :
        (\A q \in Roles : Links[q] \subseteq present) /\ Links = parents
            /\ Acyclic([parents EXCEPT ![r] = {}])
        => (CycleSearch(r) <=> checkCycles(r))

\* A permission lookup fails exactly when it runs into a cycle, and otherwise
\* unites the permissions of the existing roles that are reachable.
EffectiveExact ==
    \A r \in Roles :
        /\ collectEffective(r).cycle <=> detectCycle(Links, r)
        /\ collectEffective(r).roles = Reach(Links, {r}) \cap present

\* HasRole's walk ends on every graph, cyclic ones too, with the existing roles
\* that are reachable.
RoleNamesExact ==
    \A r \in Roles : collectRoleNames(r) = Reach(Links, {r}) \cap present
=============================================================================
