--------------------------- MODULE MCEnforcerCache ---------------------------
(***************************************************************************)
(* Instances of EnforcerCache: two enforcers, e1 and e2, with a lookup on  *)
(* e2 and mutators on either.  The policy starts as a small hierarchy:     *)
(* junior inherits from senior, and every user holds junior.               *)
(***************************************************************************)
EXTENDS EnforcerCache, TLC

CONSTANTS e1, e2, c1, c2, l1, l2, m1, m2, junior, senior, p

PrivateCaches == e1 :> c1 @@ e2 :> c2
SharedCache == e1 :> c1 @@ e2 :> c1

HomeOfThreads == [t \in Lookups \cup Mutators \cup Enforcers |->
                    IF t \in {e1, l1, m1} THEN e1 ELSE e2]

SmallHierarchy ==
    LET s == AddRoleDo(
                 AddRoleDo(NewMemoryStore, [name |-> senior, permissions |-> {p}, parents |-> {}]),
                 [name |-> junior, permissions |-> {}, parents |-> {senior}])
    IN [s EXCEPT !.users = [u \in Users |-> [r \in Roles |-> IF r = junior THEN 1 ELSE 0]],
                 !.roleUsers[junior] = Users]

Deploy(kind, caches, subs, muts, loss) ==
    [kind |-> kind, cacheOf |-> caches, subscribers |-> subs, mutators |-> muts, maxLoss |-> loss]

\* A mutation elsewhere, at the lookup's own enforcer without tokens, and a
\* shared Redis cache without an invalidator.
SafetyDeployments ==
    {Deploy("memory", PrivateCaches, {e2}, {m1}, 0),
     Deploy("plain", PrivateCaches, {}, {m2}, 0),
     Deploy("redis", SharedCache, {}, {m1}, 1)}

\* Every event delivered, and one loss of any kind.
LivenessDeployments ==
    {Deploy("memory", PrivateCaches, {e1, e2}, {m1}, 0),
     Deploy("redis", PrivateCaches, {e2}, {m1}, 1)}

Symmetry == Permutations(Users)
=============================================================================
