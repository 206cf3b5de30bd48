------------------------------ MODULE RuleEval ------------------------------
(***************************************************************************)
(* evaluate_rules (src/src/core/orchestrator.cpp): the rows of a batch are *)
(* cut into morsels, a worker evaluates every rule on a morsel and reduces *)
(* the masks to one decision per row.                                      *)
(*                                                                         *)
(* A rule is compiled to a plan, a sequence of nodes whose children come   *)
(* before them and whose last node is the root (build_global_plan).  What  *)
(* a predicate finds on a row is data: holds[p], chosen at the start.      *)
(* Masks are sets of rows.  A morsel of the code has 2048 rows, a multiple *)
(* of 8, so that no byte of a mask is shared by two workers: the writes of *)
(* two morsels are independent here.  Weights and scores are integers.     *)
(***************************************************************************)
EXTENDS Integers, Sequences, FiniteSets, FiniteSetsExt, SequencesExt, Sorting

CONSTANTS
    Predicates,       \* the predicates of the global plan
    Cost,             \* Cost[p]: predicate_cost
    Rulesets,         \* the rulesets: [default, precedence, rules]
    NumRows,          \* rows of the batch
    MorselRows,       \* MORSEL_ROWS
    Workers,          \* the threads; one of them is the sequential path
    SelectionVectors, \* enable_selection_vectors
    SelectionPercent, \* selection_vector_threshold, in percent
    AdaptiveOrder     \* enable_adaptive_predicate_ordering

Rows == 0 .. NumRows - 1
Morsels == 0 .. ((NumRows + MorselRows - 1) \div MorselRows) - 1

\* Mutant: the last morsel is not cut at the end of the batch.
RowsOfMorsel_Overrun(mi) == mi * MorselRows .. (mi + 1) * MorselRows - 1

RowsOfMorsel(mi) == {row \in Rows : row \div MorselRows = mi}

Idle == -1
NoRule == 0
Actions == {"approve", "score", "flag", "review", "block"}

Kinds == {"PREDICATE", "NOT", "AND", "OR"}

\* build_global_plan appends a node after its children, and ends with the root.
IsPlan(plan) ==
    /\ plan # <<>> /\ plan \in Seq(ToSet(plan))
    /\ \A n \in DOMAIN plan :
          /\ plan[n].kind \in Kinds
          /\ plan[n].kind = "PREDICATE" => plan[n].predicate \in Predicates
          /\ plan[n].kind = "NOT" => Len(plan[n].children) = 1
          /\ plan[n].children \in Seq(1 .. n - 1)

ASSUME RuleEvalAssumption ==
    /\ NumRows \in Nat \ {0} /\ MorselRows \in Nat \ {0}
    /\ Cost \in [Predicates -> Nat]
    /\ IsFiniteSet(Workers) /\ Workers # {}
    /\ SelectionVectors \in BOOLEAN /\ AdaptiveOrder \in BOOLEAN
    /\ SelectionPercent \in 0 .. 100
    /\ \A rs \in Rulesets :
          /\ rs.precedence \in Seq(ToSet(rs.precedence))
          /\ rs.rules \in Seq(ToSet(rs.rules))
          /\ \A r \in DOMAIN rs.rules :
                /\ rs.rules[r].action \in Actions
                /\ rs.rules[r].severity \in 0 .. 3
                /\ rs.rules[r].priority \in Int
                /\ rs.rules[r].shadow \in BOOLEAN
                /\ IsPlan(rs.rules[r].plan)

VARIABLES
    ruleset,   \* the compiled ruleset, fixed for the batch
    holds,     \* holds[p]: the rows where predicate p is true
    left,      \* the morsels no worker has taken
    job,       \* job[w]: the morsel of a worker
    next,      \* next[w]: the rule it evaluates next
    counts,    \* counts[w][r]: its matches, count_pool
    matched,   \* matched[r]: the mask of a rule, rule_bitmasks
    any,       \* the rows some rule matched, uni
    best,      \* best[row]: the reduction of a row
    phase      \* "evaluate", then "done"

vars == <<ruleset, holds, left, job, next, counts, matched, any, best, phase>>

rules == ruleset.rules

-----------------------------------------------------------------------------
(* Plans.                                                                  *)

Root(plan) == Len(plan)

\* expr_cost: an operator costs no more than its cheapest child.
ExprCost(plan, node) ==
    LET cost[n \in DOMAIN plan] ==
          CASE plan[n].kind = "PREDICATE" -> Cost[plan[n].predicate]
            [] plan[n].kind = "NOT" -> Min({6} \cup {cost[c] : c \in ToSet(plan[n].children)})
            [] OTHER -> Min({5} \cup {cost[c] : c \in ToSet(plan[n].children)})
    IN cost[node]

\* The children of an AND are evaluated cheapest first, those of an OR in order.
ChildrenOf(plan, n) ==
    IF plan[n].kind = "AND" /\ AdaptiveOrder
    THEN SortedBy(plan[n].children, [c \in ToSet(plan[n].children) |-> ExprCost(plan, c)])
    ELSE plan[n].children

\* The rows a node is meant to select; found[p] are the rows where p is true.
Meaning(found, plan, rows) ==
    LET means[n \in DOMAIN plan] ==
          LET parts == {means[c] : c \in ToSet(plan[n].children)}
          IN CASE plan[n].kind = "PREDICATE" -> found[plan[n].predicate] \cap rows
               [] plan[n].kind = "NOT" -> rows \ UNION parts
               [] plan[n].kind = "OR" -> UNION parts
               [] OTHER -> {row \in rows : \A part \in parts : row \in part}
    IN means[Root(plan)]

\* Mutant: the survivors of the first child are returned without the others.
Narrow_FirstOnly(survivors, mask) == survivors

\* A child's mask applied to the survivors.
Narrow(survivors, mask) == survivors \cap mask

\* Mutant: NOT complements over the whole batch.
Complement_WholeBatch(rows, mask) == Rows \ mask

Complement(rows, mask) == rows \ mask

SelectionThreshold(rows) == (SelectionPercent * Cardinality(rows)) \div 100

\* What a node gives: its mask, and the scratch vector survivors as it leaves it.
Gives(mask, scratch) == [mask |-> mask, scratch |-> scratch]

\* The loops over the children after the first; e[c][scratch] is what c gives.
OrAll(e, first, rest) ==
    LET OrInto(acc, c) ==
          LET child == e[c][acc.scratch] IN Gives(acc.mask \cup child.mask, child.scratch)
    IN FoldLeft(OrInto, first, rest)

AndAll(e, first, rest) ==
    LET AndInto(acc, c) ==
          LET child == e[c][acc.scratch] IN Gives(acc.mask \cap child.mask, child.scratch)
    IN FoldLeft(AndInto, first, rest)

\* ... over the survivors of the first, while there are any.
Select(e, first, rest) ==
    LET Survive(survivors, c) ==
          IF survivors = {}
          THEN {}
          ELSE LET child == e[c][survivors] IN Narrow(child.scratch, child.mask)
    IN FoldLeft(Survive, first.mask, rest)

\* ExprEvaluator::eval on a node.
EvaluateNode(found, plan, rows, e, n, scratch) ==
    LET children == ChildrenOf(plan, n)
        first == e[children[1]][scratch]
        rest == Tail(children)
        few == Cardinality(first.mask) <= SelectionThreshold(rows)
        selected == Select(e, first, rest)
    IN CASE plan[n].kind = "PREDICATE" -> Gives(found[plan[n].predicate] \cap rows, scratch)
         [] plan[n].kind = "NOT" -> Gives(Complement(rows, first.mask), first.scratch)
         [] plan[n].kind \in {"OR", "AND"} /\ children = <<>> -> Gives({}, scratch)
         [] plan[n].kind = "OR" /\ children # <<>> -> OrAll(e, first, rest)
         [] plan[n].kind = "AND" /\ SelectionVectors /\ Len(children) > 1 /\ few ->
               Gives(selected, IF first.mask = {} THEN first.scratch ELSE selected)
         [] OTHER -> AndAll(e, first, rest)

\* The scratch vector is one for the whole evaluation of a rule: a child that
\* takes the selection path leaves its own rows in it.
Evaluate(found, plan, rows) ==
    LET e[n \in DOMAIN plan] ==
          [scratch \in SUBSET rows |-> EvaluateNode(found, plan, rows, e, n, scratch)]
    IN e[Root(plan)][{}].mask

-----------------------------------------------------------------------------
(* Ranks, as compile_rule_file gives them.                                 *)

\* The parser puts a default that is not listed first.
Precedence(rs) ==
    IF rs.default \in ToSet(rs.precedence) THEN rs.precedence ELSE <<rs.default>> \o rs.precedence

\* The place of a label in the precedence, from 0; 0 for a label not listed.
ListedRank(rs, label) ==
    LET places == {i \in DOMAIN Precedence(rs) : Precedence(rs)[i] = label}
    IN IF places = {} THEN 0 ELSE Max(places) - 1

\* decision_ranks: a rule's label of rank 0 goes above every listed one.
DecisionRank(rs, label) ==
    IF ListedRank(rs, label) = 0 /\ label # rs.default
    THEN Len(Precedence(rs))
    ELSE ListedRank(rs, label)

BuiltInRank == [approve |-> 0, score |-> 1, flag |-> 2, review |-> 3, block |-> 4]

\* reduce[r].action_rank.
ActionRank(rs, rule) ==
    IF DecisionRank(rs, rule.label) > 0 THEN DecisionRank(rs, rule.label) ELSE BuiltInRank[rule.action]

\* reduce[r].contribution.
Contribution(rule) ==
    IF rule.weight = 0 /\ rule.action # "approve" THEN (rule.severity + 1) * 10 ELSE rule.weight

Scored(rule, score) ==
    LET s == score + Contribution(rule)
    IN IF rule.cap > 0 /\ s > rule.cap THEN rule.cap ELSE s

\* Mutant: on a tie of rank and severity the later rule wins.
Wins_LaterOnTie(rs, rule, b) ==
    \/ ActionRank(rs, rule) > b.rank
    \/ ActionRank(rs, rule) = b.rank /\ rule.severity >= b.severity

Wins(rs, rule, b) ==
    \/ ActionRank(rs, rule) > b.rank
    \/ ActionRank(rs, rule) = b.rank /\ rule.severity > b.severity
    \/ ActionRank(rs, rule) = b.rank /\ rule.severity = b.severity /\ rule.priority > b.priority

\* The lowest priority of all, std::numeric_limits<int>::min().
MinPriority == -1000

Undecided(rs) ==
    [rank |-> ListedRank(rs, rs.default), severity |-> -1, priority |-> MinPriority,
     label |-> rs.default, winner |-> NoRule, score |-> 0]

Reduced(rs, r, b) ==
    LET rule == rs.rules[r]
        scored == [b EXCEPT !.score = Scored(rule, @)]
    IN IF Wins(rs, rule, b)
       THEN [scored EXCEPT !.rank = ActionRank(rs, rule), !.severity = rule.severity,
                           !.priority = rule.priority, !.label = rule.label, !.winner = r]
       ELSE scored

\* risk_band_for, from the score and the label of the decision.
RiskBand(b) ==
    CASE b.label = "BLOCK" \/ b.score >= 80 -> "HIGH"
      [] b.label # "BLOCK" /\ b.score < 80 /\ (b.label = "REVIEW" \/ b.score >= 40) -> "MEDIUM"
      [] OTHER -> "LOW"

-----------------------------------------------------------------------------
TypeOK ==
    /\ ruleset \in Rulesets
    /\ holds \in [Predicates -> SUBSET Rows]
    /\ left \subseteq Morsels
    /\ job \in [Workers -> Morsels \cup {Idle}]
    /\ next \in [Workers -> 1 .. Len(rules) + 1]
    /\ counts \in [Workers -> [DOMAIN rules -> 0 .. NumRows]]
    /\ matched \in [DOMAIN rules -> SUBSET Rows]
    /\ any \subseteq Rows
    /\ \A row \in Rows : best[row].winner \in {NoRule} \cup DOMAIN rules
    /\ phase \in {"evaluate", "done"}

Init ==
    /\ ruleset \in Rulesets
    /\ holds \in [Predicates -> SUBSET Rows]
    /\ left = Morsels
    /\ job = [w \in Workers |-> Idle]
    /\ next = [w \in Workers |-> 1]
    /\ counts = [w \in Workers |-> [r \in DOMAIN rules |-> 0]]
    /\ matched = [r \in DOMAIN rules |-> {}]
    /\ any = {}
    /\ best = [row \in Rows |-> Undecided(ruleset)]
    /\ phase = "evaluate"

\* Mutant: a worker may take the morsel that another one has just taken.
Claim_Shared(w) ==
    /\ phase = "evaluate"
    /\ job[w] = Idle
    /\ \E mi \in left \cup {job[v] : v \in {v \in Workers : job[v] # Idle /\ next[v] = 1}} :
          /\ left' = left \ {mi}
          /\ job' = [job EXCEPT ![w] = mi]
    /\ next' = [next EXCEPT ![w] = 1]
    /\ UNCHANGED <<ruleset, holds, counts, matched, any, best, phase>>

\* A worker of parallel_for takes a morsel; a worker alone takes them in order.
Claim(w) ==
    /\ phase = "evaluate"
    /\ job[w] = Idle
    /\ \E mi \in left :
          /\ Cardinality(Workers) = 1 => mi = Min(left)
          /\ left' = left \ {mi}
          /\ job' = [job EXCEPT ![w] = mi]
    /\ next' = [next EXCEPT ![w] = 1]
    /\ UNCHANGED <<ruleset, holds, counts, matched, any, best, phase>>

\* One rule on its morsel: the mask, its count, the union, and the reduction of
\* every row it selects unless the rule is a shadow.
EvaluateRule(w) ==
    /\ job[w] # Idle
    /\ next[w] <= Len(rules)
    /\ LET r == next[w]
           mask == Evaluate(holds, rules[r].plan, RowsOfMorsel(job[w]))
       IN /\ matched' = [matched EXCEPT ![r] = @ \cup mask]
          /\ counts' = [counts EXCEPT ![w][r] = @ + Cardinality(mask)]
          /\ any' = any \cup mask
          /\ best' = [row \in Rows |->
                        IF row \in mask /\ ~rules[r].shadow
                        THEN Reduced(ruleset, r, best[row])
                        ELSE best[row]]
    /\ next' = [next EXCEPT ![w] = @ + 1]
    /\ UNCHANGED <<ruleset, holds, left, job, phase>>

\* The morsel is finished.
Release(w) ==
    /\ job[w] # Idle
    /\ next[w] > Len(rules)
    /\ job' = [job EXCEPT ![w] = Idle]
    /\ UNCHANGED <<ruleset, holds, left, next, counts, matched, any, best, phase>>

\* All morsels are finished: the counts of the workers are added up.
Assemble ==
    /\ phase = "evaluate"
    /\ left = {} /\ \A w \in Workers : job[w] = Idle
    /\ phase' = "done"
    /\ UNCHANGED <<ruleset, holds, left, job, next, counts, matched, any, best>>

\* The batch is over: not a deadlock.
Finished == phase = "done" /\ UNCHANGED vars

Next ==
    \/ \E w \in Workers : Claim(w) \/ EvaluateRule(w) \/ Release(w)
    \/ Assemble
    \/ Finished

Spec == Init /\ [][Next]_vars

-----------------------------------------------------------------------------
(* Properties.                                                             *)

Selected(r, row) == row \in Meaning(holds, rules[r].plan, RowsOfMorsel(row \div MorselRows))
Deciding(row) == {r \in DOMAIN rules : ~rules[r].shadow /\ Selected(r, row)}

\* The mask of a rule is the Boolean meaning of its condition on every row, cut
\* into morsels or not, whichever path an AND takes.
MasksAreMeanings ==
    phase = "done" => \A r \in DOMAIN rules : matched[r] = {row \in Rows : Selected(r, row)}

\* The decision of a row is that of its highest matching rule, by rank, then
\* severity, then priority, then the order of the file, and the default if none
\* reaches the default's rank; shadow rules never decide.
Higher(r, q) ==
    LET a == rules[r]
        b == rules[q]
    IN \/ ActionRank(ruleset, a) > ActionRank(ruleset, b)
       \/ /\ ActionRank(ruleset, a) = ActionRank(ruleset, b)
          /\ \/ a.severity > b.severity
             \/ a.severity = b.severity /\ a.priority > b.priority
             \/ a.severity = b.severity /\ a.priority = b.priority /\ r < q

Eligible(row) ==
    {r \in Deciding(row) : ActionRank(ruleset, rules[r]) >= ListedRank(ruleset, ruleset.default)}

WinnerIsHighest ==
    phase = "done" => \A row \in Rows :
        IF Eligible(row) = {}
        THEN best[row].label = ruleset.default
        ELSE /\ best[row].winner \in Eligible(row)
             /\ best[row].label = rules[best[row].winner].label
             /\ \A r \in Eligible(row) \ {best[row].winner} : Higher(best[row].winner, r)

\* rule_match_counts and n_matched agree with the masks however the morsels were
\* shared among the workers.
CountsAgree ==
    phase = "done" =>
        /\ \A r \in DOMAIN rules :
              MapThenSumSet(LAMBDA w : counts[w][r], Workers) = Cardinality(matched[r])
        /\ any = UNION {matched[r] : r \in DOMAIN rules}

\* README, Custom decision labels: "List custom labels in decisions.precedence to
\* control how they rank against the built-ins."  Of the labels that matched, all
\* of them listed, none comes after the decision in the list.
PrecedenceRespected ==
    phase = "done" => \A row \in Rows :
        (\A r \in Deciding(row) : rules[r].label \in ToSet(ruleset.precedence)) =>
            \A r \in Deciding(row) :
                ListedRank(ruleset, rules[r].label) <= ListedRank(ruleset, best[row].label)

\* README, Custom decision labels: the built-in actions "set scoring and risk-band
\* behavior" and with a label "the rule keeps its action semantics".  A row decided
\* by a block rule is in the HIGH band.
RiskBandFollowsAction ==
    phase = "done" => \A row \in Rows :
        (best[row].winner # NoRule /\ rules[best[row].winner].action = "block")
            => RiskBand(best[row]) = "HIGH"
=============================================================================
