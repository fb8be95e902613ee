----------------------------- MODULE MCAlgorithms -----------------------------
(* The pure algorithms on every bounded input: first the graphs, with no     *)
(* rule, or the rules, with no graph.                                        *)
EXTENDS RoleGraphAlgorithms, RuleConditions

InputInit == GraphInit /\ RulesInit

InputNext == \/ RulesInit /\ GraphNext /\ UNCHANGED ruleVars
             \/ GraphInit /\ RulesNext /\ UNCHANGED graphVars

InputSpec == InputInit /\ [][InputNext]_<<graphVars, ruleVars>>
===============================================================================
