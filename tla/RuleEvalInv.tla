---------------------------- MODULE RuleEvalInv ----------------------------
(***************************************************************************)
(* The inductive invariant of RuleEval: what the masks, counts and         *)
(* decisions are while the workers are at work.                            *)
(***************************************************************************)
EXTENDS RuleEval

\* A rule has been evaluated on the morsel of a row.
Evaluated(r, row) ==
    LET mi == row \div MorselRows
    IN mi \notin left /\ \A w \in Workers : job[w] = mi => next[w] > r

\* The evaluation of a rule selects a row.
Hits(r, row) == row \in Evaluate(holds, rules[r].plan, RowsOfMorsel(row \div MorselRows))

\* No two workers have the same morsel, and none has one that is still left.
JobsApart ==
    /\ \A w \in Workers : job[w] \notin left
    /\ \A v, w \in Workers : v # w /\ job[w] # Idle => job[v] # job[w]

\* A mask has what the evaluation of its rule selects on the rows done.
MasksSoFar ==
    \A r \in DOMAIN rules : matched[r] = {row \in Rows : Evaluated(r, row) /\ Hits(r, row)}

\* The matches of rule r in the counts of the workers.
CountsIn(cs, r) == MapThenSumSet(LAMBDA w : cs[w][r], Workers)

\* The workers' counts add up to the masks.
CountsSoFar ==
    /\ \A r \in DOMAIN rules : CountsIn(counts, r) = Cardinality(matched[r])
    /\ any = UNION {matched[r] : r \in DOMAIN rules}

\* The rules that may decide a row, of those whose masks have it.
Candidates(row) ==
    {r \in DOMAIN rules :
        /\ ~rules[r].shadow /\ row \in matched[r]
        /\ ActionRank(ruleset, rules[r]) >= ListedRank(ruleset, ruleset.default)}

\* What is known of a decision of rule q.
DecidedBy(b, q) ==
    /\ b.winner = q /\ b.rank = ActionRank(ruleset, rules[q])
    /\ b.severity = rules[q].severity /\ b.priority = rules[q].priority
    /\ b.label = rules[q].label

\* The decision of a row is that of the highest of them so far.
DecisionSoFar(row) ==
    IF Candidates(row) = {}
    THEN [best[row] EXCEPT !.score = 0] = Undecided(ruleset)
    ELSE \E q \in Candidates(row) :
            DecidedBy(best[row], q) /\ \A r \in Candidates(row) \ {q} : Higher(q, r)

Shape(b) == DOMAIN b = DOMAIN Undecided(ruleset)

DecisionsSoFar == \A row \in Rows : Shape(best[row]) /\ DecisionSoFar(row)

\* The batch is over when every morsel is.
DoneAtLast == phase = "done" => left = {} /\ \A w \in Workers : job[w] = Idle

EvalInv == TypeOK /\ JobsApart /\ MasksSoFar /\ CountsSoFar /\ DecisionsSoFar /\ DoneAtLast

\* In every state the decision of a row is that of the highest rule whose mask has it.
DecisionsFollowMasks == \A row \in Rows : DecisionSoFar(row)

-----------------------------------------------------------------------------
(* The plans for which the masks are the meanings.                         *)

\* An AND has a child, and with selection vectors none lies below another: the
\* children of an AND are among the quiet nodes, which have no AND below them.
Straight(plan) ==
    /\ \A n \in DOMAIN plan : plan[n].kind = "AND" => plan[n].children # <<>>
    /\ SelectionVectors =>
          \E quiet \in SUBSET DOMAIN plan :
             /\ \A n \in quiet : plan[n].kind # "AND" /\ ToSet(plan[n].children) \subseteq quiet
             /\ \A n \in DOMAIN plan :
                   plan[n].kind = "AND" => ToSet(plan[n].children) \subseteq quiet

StraightPlans == \A rs \in Rulesets : \A r \in DOMAIN rs.rules : Straight(rs.rules[r].plan)
=============================================================================
