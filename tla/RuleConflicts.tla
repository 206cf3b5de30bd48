---------------------------- MODULE RuleConflicts ----------------------------
(***************************************************************************)
(* What the rules of a file say about each other (conflict.cpp): rules that  *)
(* can never fire together, rules that can never fire, and rules that are    *)
(* stricter than others, judged by intervals and sets of texts per field.    *)
(* Only conjunctions are looked into.                                        *)
(***************************************************************************)
EXTENDS RuleCompiler

CONSTANT Infinity   \* a bound above every number of the rules

Interval(lo, lo_incl, hi, hi_incl) == [lo |-> lo, hi |-> hi, lo_incl |-> lo_incl, hi_incl |-> hi_incl]
Anything == Interval(-Infinity, TRUE, Infinity, TRUE)
\* A mutant: bounds that meet hold no number, whether they belong to the interval or not.
IsEmptyInterval_Open(iv) == iv.lo >= iv.hi
IsEmptyInterval(iv) == iv.lo > iv.hi \/ (iv.lo = iv.hi /\ ~(iv.lo_incl /\ iv.hi_incl))

FromOp(op, v) ==
    CASE op = "GT" -> [Anything EXCEPT !.lo = v, !.lo_incl = FALSE]
      [] op = "GTE" -> [Anything EXCEPT !.lo = v]
      [] op = "LT" -> [Anything EXCEPT !.hi = v, !.hi_incl = FALSE]
      [] op = "LTE" -> [Anything EXCEPT !.hi = v]
      [] op = "EQ" -> Interval(v, TRUE, v, TRUE)
      [] OTHER -> Anything

IntersectIntervals(a, b) ==
    Interval(Max({a.lo, b.lo}), \A iv \in {a, b} : iv.lo = Max({a.lo, b.lo}) => iv.lo_incl,
             Min({a.hi, b.hi}), \A iv \in {a, b} : iv.hi = Min({a.hi, b.hi}) => iv.hi_incl)
ContainedIn(a, b) ==
    /\ a.lo > b.lo \/ (a.lo = b.lo /\ (b.lo_incl \/ ~a.lo_incl))
    /\ a.hi < b.hi \/ (a.hi = b.hi /\ (b.hi_incl \/ ~a.hi_incl))

Put(f, key, value) == [k \in DOMAIN f \union {key} |-> IF k = key THEN value ELSE f[k]]

\* The second interval of a field, and each later one, may show that nothing fits.
AddNumeric(rc, field, iv) ==
    LET both == IntersectIntervals(rc.numeric[field], iv)
    IN IF field \notin DOMAIN rc.numeric THEN [rc EXCEPT !.numeric = Put(@, field, iv)]
       ELSE [rc EXCEPT !.numeric[field] = both, !.dead = @ \/ IsEmptyInterval(both)]

\* The texts of a field that several conditions name are put together.
AddTexts(rc, field, texts) ==
    [rc EXCEPT !.in_sets = Put(@, field, texts \union (IF field \in DOMAIN @ THEN @[field] ELSE {}))]

RECURSIVE Collect(_, _)
Collect(rc, c) ==
    CASE c.kind = "And" -> FoldLeft(Collect, rc, c.children)
      [] c.kind = "Numeric" -> AddNumeric(rc, c.fields[1], FromOp(c.op, c.nums[1]))
      [] c.kind = "NumericRange" ->
           LET incl == c.op = "BETWEEN_INCLUDING"
           IN AddNumeric(rc, c.fields[1], Interval(c.nums[1], incl, c.nums[2], incl))
      [] c.kind = "Categorical" /\ c.op \in {"IN", "EQ"} -> AddTexts(rc, c.fields[1], ToSet(c.texts))
      [] OTHER -> rc

Constraints(rule) ==
    Collect([numeric |-> [f \in {} |-> Anything], in_sets |-> [f \in {} |-> {}], dead |-> FALSE], rule.root)

\* The fields both rules constrain, those on which they exclude each other, and those
\* on which the first is within the second.
SharedFields(ci, cj) ==
    {<<"numeric", f>> : f \in DOMAIN ci.numeric \intersect DOMAIN cj.numeric}
    \union {<<"texts", f>> : f \in DOMAIN ci.in_sets \intersect DOMAIN cj.in_sets}
Excluding(ci, cj, shared) ==
    IF shared[1] = "numeric" THEN IsEmptyInterval(IntersectIntervals(ci.numeric[shared[2]], cj.numeric[shared[2]]))
    ELSE ci.in_sets[shared[2]] \intersect cj.in_sets[shared[2]] = {}
Inside(ci, cj, shared) ==
    IF shared[1] = "numeric" THEN ContainedIn(ci.numeric[shared[2]], cj.numeric[shared[2]])
    ELSE ci.in_sets[shared[2]] \subseteq cj.in_sets[shared[2]]
Stricter(ci, cj) ==
    /\ SharedFields(ci, cj) # {}
    /\ \A shared \in SharedFields(ci, cj) : ~Excluding(ci, cj, shared) /\ Inside(ci, cj, shared)

AnalyzeConflicts(spec) ==
    LET rules == spec.rules
        cons == [i \in DOMAIN rules |-> Constraints(rules[i])]
        pairs == {p \in (DOMAIN rules) \X (DOMAIN rules) : p[1] < p[2]}
    IN [dead |-> {i \in DOMAIN rules : cons[i].dead},
        conflicts |-> UNION {{<<p[1], p[2], shared[2]>> :
                                shared \in {s \in SharedFields(cons[p[1]], cons[p[2]]) :
                                              Excluding(cons[p[1]], cons[p[2]], s)}} : p \in pairs},
        subsumptions |-> {p \in (DOMAIN rules) \X (DOMAIN rules) :
                            p[1] # p[2] /\ Stricter(cons[p[1]], cons[p[2]]) /\ ~Stricter(cons[p[2]], cons[p[1]])}]
=============================================================================
