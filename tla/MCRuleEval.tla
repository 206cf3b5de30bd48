----------------------------- MODULE MCRuleEval -----------------------------
(***************************************************************************)
(* Instances of RuleEval for TLC: conditions of every shape over three     *)
(* predicates, with decisions that tie, shadow, default and carry labels.  *)
(***************************************************************************)
EXTENDS RuleEval

CONSTANTS p1, p2, p3

PredicateCost == (p1 :> 2) @@ (p2 :> 1) @@ (p3 :> 5)

Predicate(x) == [kind |-> "PREDICATE", predicate |-> x, children |-> <<>>]
Operator(kind, children) == [kind |-> kind, predicate |-> p1, children |-> children]

\* p1 AND p2; (p1 AND p3) OR p2; NOT (p1 AND p2) : no AND below an AND.
Conjunction == <<Predicate(p1), Predicate(p2), Operator("AND", <<1, 2>>)>>
Disjunction == <<Predicate(p1), Predicate(p3), Operator("AND", <<1, 2>>), Predicate(p2),
                 Operator("OR", <<3, 4>>)>>
Negation == <<Predicate(p1), Predicate(p2), Operator("AND", <<1, 2>>), Operator("NOT", <<3>>)>>
Single == <<Predicate(p3)>>

\* p2 AND (p1 OR (p2 AND p3)), the shape of the README's example, and p2 AND NOT (p1 AND p3).
NestedOr == <<Predicate(p2), Predicate(p1), Predicate(p3), Operator("AND", <<1, 3>>),
              Operator("OR", <<2, 4>>), Operator("AND", <<1, 5>>)>>
NestedNot == <<Predicate(p2), Predicate(p1), Predicate(p3), Operator("AND", <<2, 3>>),
               Operator("NOT", <<4>>), Operator("AND", <<1, 5>>)>>

Rule(plan, action, label, severity, priority) ==
    [plan |-> plan, action |-> action, label |-> label, severity |-> severity,
     priority |-> priority, weight |-> 0, cap |-> 0, shadow |-> FALSE]
Shadow(rule) == [rule EXCEPT !.shadow = TRUE]

BuiltIns == <<"APPROVE", "SCORE", "FLAG", "REVIEW", "BLOCK">>
Decisions(default, precedence, list) ==
    [default |-> default, precedence |-> precedence, rules |-> list]

\* Ties of rank and severity, a default above some rules, a shadow, a label.
FlatRulesets == {
    Decisions("APPROVE", BuiltIns,
        <<Rule(Conjunction, "flag", "FLAG", 1, 0), Rule(Disjunction, "flag", "FLAG", 1, 0),
          Rule(Single, "flag", "FLAG", 1, 5)>>),
    Decisions("REVIEW", BuiltIns,
        <<Rule(Disjunction, "block", "BOT_BLOCK", 0, 0), Rule(Single, "flag", "FLAG", 3, 0)>>),
    Decisions("APPROVE", <<"FLAG", "BLOCK">>,
        <<Shadow(Rule(Single, "block", "BLOCK", 3, 9)), Rule(Negation, "flag", "FLAG", 0, 1),
          Rule(Conjunction, "block", "BLOCK", 2, 0)>>)}

NestedRulesets == {
    Decisions("APPROVE", BuiltIns, <<Rule(NestedOr, "review", "REVIEW", 2, 0)>>),
    Decisions("APPROVE", BuiltIns, <<Rule(NestedNot, "block", "BLOCK", 2, 0)>>)}

\* A label that is listed below all the built-ins.
ListedFirst == {
    Decisions("APPROVE", <<"MONITOR", "APPROVE", "FLAG", "BLOCK">>,
        <<Rule(Single, "block", "MONITOR", 1, 0), Rule(Conjunction, "block", "BLOCK", 1, 0)>>)}

\* The ruleset of the README's section on custom labels.
CustomLabel == {
    Decisions("APPROVE", <<"APPROVE", "SCORE", "FLAG", "REVIEW", "BOT_BLOCK", "BLOCK">>,
        <<Rule(Single, "block", "BOT_BLOCK", 2, 0)>>)}
=============================================================================
