---------------------------- MODULE RuleConditions ----------------------------
(***************************************************************************)
(* When the conditions of a policy rule hold: conditionMatches and         *)
(* conditionsMatch, on every set of facts and every list of conditions up  *)
(* to a bound.  A fact is a number, a text, a list of such values, a value *)
(* that JSON cannot represent (Malformed), or not given (Missing).  Text   *)
(* is compared for equality only, so its values are numbered too, and a    *)
(* list stands for its items in one order: JSON text tells orders apart.   *)
(***************************************************************************)
EXTENDS Naturals, Sequences, FiniteSets

CONSTANTS Attributes, Numbers, Texts,
          ListSizes,       \* bound: how many items a list fact may have
          Malformed, Missing,
          NoOther,         \* a condition with no OtherAttribute
          MaxConditions    \* bound: conditions of a rule

Scalars == [type : {"number"}, value : Numbers] \cup [type : {"text"}, value : Texts]
Lists == [type : {"list"}, items : {S \in SUBSET Scalars : Cardinality(S) \in ListSizes}]
Valid == Scalars \cup Lists

ASSUME RuleConstantsOK == /\ Numbers \subseteq Nat /\ Texts \subseteq Nat
                          /\ NoOther \notin Attributes
                          /\ Malformed \notin Valid /\ Missing \notin Valid
                          /\ Malformed # Missing

Comparisons == {"gt", "ge", "lt", "le"}
Equalities == {"eq", "ne"}
Memberships == {"in", "not_in"}
Presences == {"exists", "not_exists"}

\* Operands of a condition are an attribute and a value, or two attributes.
Conditions ==
    [attribute : Attributes, operator : Comparisons \cup Equalities \cup Memberships,
     other : Attributes, value : {Missing}] \cup
    [attribute : Attributes, operator : Comparisons \cup Equalities,
     other : {NoOther}, value : Scalars] \cup
    [attribute : Attributes, operator : Memberships, other : {NoOther}, value : Lists] \cup
    [attribute : Attributes, operator : Presences, other : {NoOther}, value : {Missing}]

VARIABLES facts,        \* what the caller passes for each attribute
          conditions    \* the conditions of a rule

ruleVars == <<facts, conditions>>

RulesInit == facts = [a \in Attributes |-> Missing] /\ conditions = << >>

\* Facts first, one by one, then the rule.
GiveFact(a, v) == /\ conditions = << >> /\ facts[a] = Missing
                  /\ facts' = [facts EXCEPT ![a] = v]
                  /\ UNCHANGED conditions

AddCondition(c) == /\ Len(conditions) < MaxConditions
                   /\ conditions' = Append(conditions, c)
                   /\ UNCHANGED facts

RulesNext == \/ \E a \in Attributes, v \in Valid \cup {Malformed} : GiveFact(a, v)
             \/ \E c \in Conditions : AddCondition(c)

RulesSpec == RulesInit /\ [][RulesNext]_ruleVars

-----------------------------------------------------------------------------
(* The code's functions.  A result (match, known) is "yes", "no" or, when it
   is not known, "unknown". *)

Known(match) == IF match THEN "yes" ELSE "no"

\* Numbers by value, everything else by its JSON text.
equalAttribute(a, b) == a = b

Compare(op, x, y) == CASE op = "gt" -> x > y [] op = "ge" -> x >= y
                       [] op = "lt" -> x < y [] op = "le" -> x <= y

expected(c, given) == IF c.other # NoOther THEN given[c.other] ELSE c.value

\* The operators on two valid values; a wrong type is not known.
applyOperator(op, v, e) ==
    CASE op = "eq" -> Known(equalAttribute(v, e))
      [] op = "ne" -> Known(~ equalAttribute(v, e))
      [] op \in Memberships ->
            IF e.type # "list" THEN "unknown"
            ELSE Known((\E x \in e.items : equalAttribute(v, x)) <=> op = "in")
      [] op \in Comparisons ->
            IF v.type # "number" \/ e.type # "number" THEN "unknown"
            ELSE Known(Compare(op, v.value, e.value))

\* Mutant: presence is looked at before the fact is known to be valid.
conditionMatches_Presence(c, given) ==
    LET v == given[c.attribute] e == expected(c, given) IN
    IF c.operator \in Presences THEN Known((v # Missing) <=> c.operator = "exists")
    ELSE IF {v, e} \cap {Missing, Malformed} # {} THEN "unknown"
    ELSE applyOperator(c.operator, v, e)

\* Mutant: a comparison with a fact that is not given is false.
conditionMatches_MissingIsFalse(c, given) ==
    LET v == given[c.attribute] e == expected(c, given) IN
    IF v = Malformed THEN "unknown"
    ELSE IF c.operator \in Presences THEN Known((v # Missing) <=> c.operator = "exists")
    ELSE IF Missing \in {v, e} THEN "no"
    ELSE IF e = Malformed THEN "unknown"
    ELSE applyOperator(c.operator, v, e)

\* One condition: early returns in the code's order.
conditionMatches(c, given) ==
    LET v == given[c.attribute] e == expected(c, given) IN
    IF v = Malformed THEN "unknown"
    ELSE IF c.operator \in Presences THEN Known((v # Missing) <=> c.operator = "exists")
    ELSE IF {v, e} \cap {Missing, Malformed} # {} THEN "unknown"
    ELSE applyOperator(c.operator, v, e)

\* The loop: a condition that is definitely false ends it with "no", whatever
\* came before; otherwise one unknown makes the result unknown.
conditionsMatch(cs, given) ==
    LET after[i \in 0 .. Len(cs)] ==
          IF i = 0 THEN "yes"
          ELSE LET m == conditionMatches(cs[i], given) IN
               IF after[i - 1] = "no" \/ m = "no" THEN "no"
               ELSE IF after[i - 1] = "unknown" THEN "unknown" ELSE m
    IN after[Len(cs)]

AllowFires(cs, given) == conditionsMatch(cs, given) = "yes"

DenyFires(cs, given) == conditionsMatch(cs, given) \in {"yes", "unknown"}

-----------------------------------------------------------------------------

\* A malformed fact decides nothing: what a rule does with it, it does for every
\* valid value of that fact and also when the fact is missing.
MalformedDecidesNothing ==
    \A a \in Attributes, v \in Valid \cup {Missing} :
        LET with(x) == conditionsMatch(conditions, [facts EXCEPT ![a] = x]) IN
        with(Malformed) # "unknown" => with(v) = with(Malformed)

\* Leaving a fact out is never a way around a deny, nor a way to an allow: where
\* no condition asks for presence, a deny that fires with the fact fires without
\* it, and an allow that fires without it fires with it.
OmissionIsNoWayAround ==
    (\A i \in 1..Len(conditions) : conditions[i].operator \notin Presences) =>
        \A a \in Attributes :
            LET without == [facts EXCEPT ![a] = Missing] IN
            /\ DenyFires(conditions, facts) => DenyFires(conditions, without)
            /\ AllowFires(conditions, without) => AllowFires(conditions, facts)
===============================================================================
