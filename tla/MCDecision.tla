------------------------------ MODULE MCDecision ------------------------------
(* Two roles, one user and one call at a time, overtaken by two commits, or, *)
(* with the cache, by one, or by one batch of two elements.  In the first    *)
(* two settings the permission comes from roles, in the third from rules.    *)
EXTENDS Decision, TLC

AllowOrDeny == {{}, {"allow"}, {"deny"}}
DenyOnly == {{}, {"deny"}}
NoEffects == {}

MCSettings ==
    {[cached |-> FALSE, rules |-> DenyOnly, permissions |-> {Manage}, batch |-> 1, overlap |-> 2],
     [cached |-> TRUE,  rules |-> DenyOnly, permissions |-> {Manage}, batch |-> 1, overlap |-> 1],
     [cached |-> FALSE, rules |-> AllowOrDeny, permissions |-> {},    batch |-> 2, overlap |-> 1]}

Symmetry == Permutations(Roles)
===============================================================================
