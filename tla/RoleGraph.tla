------------------------------ MODULE RoleGraph ------------------------------
(***************************************************************************)
(* The role hierarchy as a graph: parents[r] is the set of roles that r    *)
(* inherits from, and an absent role has no parents.  Everything here is   *)
(* stated with quantifiers over sets of roles instead of recursion, so the *)
(* provers can use it; RoleGraphAlgorithms compares the recursive searches *)
(* of the code with these definitions.                                     *)
(***************************************************************************)

CONSTANT Roles

Graphs == [Roles -> SUBSET Roles]

\* A set of roles that contains the parents of each of its members.
Closed(parents, T) == \A x \in T : parents[x] \subseteq T

\* The roles found by following parent links from S, S included: the least
\* closed superset of S.
Reach(parents, S) ==
    {x \in Roles : \A T \in SUBSET Roles :
                      S \subseteq T /\ Closed(parents, T) => x \in T}

\* The roles r inherits from, through any number of links.
Ancestors(parents, r) == Reach(parents, parents[r])

\* detectCycle(roles, r, {}): the depth-first search from r meets a role that
\* is on its own path, i.e. r reaches a role that is its own ancestor.
detectCycle(parents, r) ==
    \E x \in Reach(parents, {r}) : x \in Ancestors(parents, x)

\* No parent chain is endless: every non-empty set of roles has a member with
\* no parent in the set.
Acyclic(parents) ==
    \A S \in SUBSET Roles : S # {} => \E r \in S : parents[r] \cap S = {}
=============================================================================
