--------------------------- MODULE RuleEvalProofs ---------------------------
(***************************************************************************)
(* Proofs about RuleEval, for any rules, plans, rows, morsels and workers: *)
(* the counts agree with the masks, the decision of a row is that of the   *)
(* highest rule whose mask has it, and the masks are the meanings of the   *)
(* conditions where no AND lies below another one.                         *)
(***************************************************************************)
EXTENDS RuleEvalInv, FoldTheorems

-----------------------------------------------------------------------------
(* Plans.                                                                  *)

\* What a plan is.
LEMMA PlanFacts ==
    ASSUME NEW plan, IsPlan(plan)
    PROVE  /\ Len(plan) \in Nat \ {0} /\ DOMAIN plan = 1 .. Len(plan)
           /\ Root(plan) \in DOMAIN plan
           /\ \A n \in DOMAIN plan :
                 /\ n \in Nat /\ plan[n].kind \in Kinds
                 /\ plan[n].kind = "PREDICATE" => plan[n].predicate \in Predicates
                 /\ plan[n].kind = "NOT" => Len(plan[n].children) = 1
                 /\ plan[n].children \in Seq(1 .. n - 1)
<1>1. plan \in Seq(ToSet(plan)) /\ plan # <<>>
  BY DEF IsPlan
<1>. DEFINE S == ToSet(plan)
<1>2. Len(plan) \in Nat \ {0} /\ DOMAIN plan = 1 .. Len(plan)
  <2>. HIDE DEF S
  <2>1. plan \in Seq(S) /\ plan # <<>>
    BY <1>1 DEF S
  <2>. QED
    BY <2>1
<1>3. Root(plan) \in DOMAIN plan
  BY <1>2 DEF Root
<1>. QED
  BY <1>2, <1>3 DEF IsPlan

\* The members of a sequence of numbers below n.
LEMMA ChildrenBelow ==
    ASSUME NEW n \in Nat, NEW s \in Seq(1 .. n - 1)
    PROVE  /\ Len(s) \in Nat /\ DOMAIN s = 1 .. Len(s)
           /\ ToSet(s) \subseteq 1 .. n - 1
           /\ IsFiniteSet(ToSet(s))
<1>1. Len(s) \in Nat /\ DOMAIN s = 1 .. Len(s) /\ \A i \in DOMAIN s : s[i] \in 1 .. n - 1
  OBVIOUS
<1>2. ToSet(s) \subseteq 1 .. n - 1
  BY <1>1 DEF ToSet
<1>3. IsFiniteSet(ToSet(s))
  <2>1. IsFiniteSet(1 .. n - 1)
    BY FS_Interval
  <2>. QED
    BY <1>2, <2>1, FS_Subset, Zenon
<1>. QED
  BY <1>1, <1>2, <1>3

\* The least of a set of numbers.
LEMMA MinIs ==
    ASSUME NEW S \in SUBSET Nat, S # {}
    PROVE  Min(S) \in S
<1>1. PICK n \in S : \A r \in S : n <= r
  BY LeastNumber
<1>. QED
  BY <1>1 DEF Min

\* expr_cost is a number.
LEMMA CostTyped ==
    ASSUME RuleEvalAssumption, NEW plan, IsPlan(plan), NEW node \in DOMAIN plan
    PROVE  ExprCost(plan, node) \in Nat
<1>. DEFINE N == Len(plan)
            below(h, n, top) == Min({top} \cup {h[c] : c \in ToSet(plan[n].children)})
            body(h, n) == CASE plan[n].kind = "PREDICATE" -> Cost[plan[n].predicate]
                            [] plan[n].kind = "NOT" -> below(h, n, 6)
                            [] OTHER -> below(h, n, 5)
            step == [k \in 1 .. N |-> [h \in [1 .. k - 1 -> Nat] |-> body(h, k)]]
<1>1. N \in Nat /\ DOMAIN plan = 1 .. N
  BY PlanFacts
<1>2. \A n \in 1 .. N : /\ plan[n].kind = "PREDICATE" => plan[n].predicate \in Predicates
                        /\ ToSet(plan[n].children) \subseteq 1 .. n - 1
  BY <1>1, PlanFacts, ChildrenBelow
<1>3. ASSUME NEW n \in 1 .. N, NEW h, \A c \in 1 .. n - 1 : h[c] \in Nat
      PROVE  body(h, n) \in Nat
  <2>1. ASSUME NEW top \in Nat PROVE below(h, n, top) \in Nat
    <3>. DEFINE V == {top} \cup {h[c] : c \in ToSet(plan[n].children)}
    <3>1. V \in SUBSET Nat /\ V # {}
      <4>1. \A c \in ToSet(plan[n].children) : c \in 1 .. n - 1
        BY <1>2
      <4>2. \A c \in ToSet(plan[n].children) : h[c] \in Nat
        BY <1>3, <4>1
      <4>. QED
        BY <4>2
    <3>2. Min(V) \in V
      <4>. HIDE DEF V
      <4>. QED
        BY <3>1, MinIs
    <3>. QED
      BY <3>1, <3>2
  <2>2. plan[n].kind = "PREDICATE" => Cost[plan[n].predicate] \in Nat
    BY <1>2 DEF RuleEvalAssumption
  <2>3. below(h, n, 6) \in Nat /\ below(h, n, 5) \in Nat
    <3>. HIDE DEF below
    <3>. QED
      BY <2>1
  <2>. HIDE DEF below
  <2>4. CASE plan[n].kind = "PREDICATE"
    BY <2>2, <2>4
  <2>5. CASE plan[n].kind = "NOT"
    BY <2>3, <2>5
  <2>6. CASE plan[n].kind # "PREDICATE" /\ plan[n].kind # "NOT"
    BY <2>3, <2>6
  <2>. QED
    BY <2>4, <2>5, <2>6
<1>4. \A k \in 1 .. N : step[k] \in [[1 .. k - 1 -> Nat] -> Nat]
  <2>. HIDE DEF body
  <2>1. ASSUME NEW k \in 1 .. N, NEW h \in [1 .. k - 1 -> Nat] PROVE body(h, k) \in Nat
    BY <1>3
  <2>. QED
    BY <2>1
<1>5. PICK g \in [1 .. N -> Nat] : ByRecursion(g, N, step)
  <2>. HIDE DEF step, N
  <2>1. Recursion(step, N, Nat)
    BY <1>4 DEF Recursion
  <2>. QED
    BY <1>1, <2>1, RecursionExists, Zenon
<1>6. ASSUME NEW n \in 1 .. N
      PROVE  g[n] = body(g, n)
  <2>. DEFINE h == Below(g, n)
  <2>1. h \in [1 .. n - 1 -> Nat]
    BY <1>1 DEF Below
  <2>2. g[n] = body(h, n)
    <3>1. g[n] = step[n][h]
      <4>. HIDE DEF step
      <4>. QED
        BY <1>5 DEF ByRecursion
    <3>2. step[n] = [f \in [1 .. n - 1 -> Nat] |-> body(f, n)]
      <4>. HIDE DEF body
      <4>. QED
        OBVIOUS
    <3>. HIDE DEF h, body, step
    <3>. QED
      BY <2>1, <3>1, <3>2
  <2>3. \A c \in ToSet(plan[n].children) : h[c] = g[c]
    BY <1>2 DEF Below
  <2>4. {h[c] : c \in ToSet(plan[n].children)} = {g[c] : c \in ToSet(plan[n].children)}
    <3>. HIDE DEF h
    <3>. QED
      BY <2>3
  <2>5. body(h, n) = body(g, n)
    <3>. HIDE DEF h
    <3>. QED
      BY <2>4
  <2>. QED
    BY <2>2, <2>5
<1>. DEFINE cost == CHOOSE c : c = [n \in DOMAIN plan |-> body(c, n)]
<1>7. g = [n \in DOMAIN plan |-> body(g, n)]
  <2>. HIDE DEF body
  <2>. QED
    BY <1>1, <1>6
<1>8. cost = [n \in DOMAIN plan |-> body(cost, n)]
  <2>. HIDE DEF body
  <2>. QED
    BY <1>7
<1>9. ExprCost(plan, node) = cost[node]
  BY DEF ExprCost
<1>. HIDE DEF cost
<1>. DEFINE Good == {k \in Nat : k \in 1 .. N => cost[k] \in Nat}
<1>10. ASSUME NEW k \in Nat, \A m \in 0 .. k - 1 : m \in Good
       PROVE  k \in Good
  <2>. SUFFICES ASSUME k \in 1 .. N PROVE cost[k] \in Nat
    OBVIOUS
  <2>1. \A c \in 1 .. k - 1 : cost[c] \in Nat
    BY <1>1, <1>10
  <2>2. cost[k] = body(cost, k)
    <3>. HIDE DEF body
    <3>. QED
      BY <1>1, <1>8
  <2>3. body(cost, k) \in Nat
    <3>. HIDE DEF body
    <3>. QED
      BY <1>3, <2>1
  <2>. QED
    BY <2>2, <2>3
<1>11. \A k \in Nat : k \in Good
  <2>. HIDE DEF Good
  <2>. QED
    BY <1>10, NumberInduction
<1>. QED
  BY <1>1, <1>9, <1>11

\* The children in the order of evaluation are the children.
LEMMA ChildrenAre ==
    ASSUME RuleEvalAssumption, NEW plan, IsPlan(plan), NEW n \in DOMAIN plan
    PROVE  /\ n \in Nat
           /\ ChildrenOf(plan, n) \in Seq(1 .. n - 1)
           /\ Len(ChildrenOf(plan, n)) = Len(plan[n].children)
           /\ ToSet(ChildrenOf(plan, n)) = ToSet(plan[n].children)
<1>. DEFINE s == plan[n].children
            key == [c \in ToSet(s) |-> ExprCost(plan, c)]
<1>1. n \in Nat /\ s \in Seq(1 .. n - 1) /\ DOMAIN plan = 1 .. Len(plan) /\ Len(plan) \in Nat
  BY PlanFacts
<1>2. \A c \in ToSet(s) : c \in DOMAIN plan
  <2>1. ToSet(s) \subseteq 1 .. n - 1
    BY <1>1, ChildrenBelow
  <2>. HIDE DEF s
  <2>. QED
    BY <1>1, <2>1
<1>3. \A c \in ToSet(s) : key[c] \in Int
  <2>1. \A c \in ToSet(s) : ExprCost(plan, c) \in Nat
    BY <1>2, CostTyped
  <2>. QED
    BY <2>1
<1>4. /\ SortedBy(s, key) \in Seq(1 .. n - 1)
      /\ Len(SortedBy(s, key)) = Len(s)
      /\ ToSet(SortedBy(s, key)) = ToSet(s)
  <2>. HIDE DEF s, key
  <2>. QED
    BY <1>1, <1>3, SortedByHas, Zenon
<1>5. ChildrenOf(plan, n) = SortedBy(s, key) \/ ChildrenOf(plan, n) = s
  BY DEF ChildrenOf
<1>. HIDE DEF key
<1>. QED
  BY <1>1, <1>4, <1>5

-----------------------------------------------------------------------------
(* The loops of an evaluation: their accumulators are a path.              *)

Out(rows) == [mask : SUBSET rows, scratch : SUBSET rows]

\* The nodes up to n give masks of the rows.
NodesGive(e, n, rows) == \A c \in 1 .. n : e[c] \in [SUBSET rows -> Out(rows)]

OrStep(e, rest, rows) ==
    [k \in 1 .. Len(rest) |-> [a \in Out(rows) |->
        Gives(a.mask \cup e[rest[k]][a.scratch].mask, e[rest[k]][a.scratch].scratch)]]

AndStep(e, rest, rows) ==
    [k \in 1 .. Len(rest) |-> [a \in Out(rows) |->
        Gives(a.mask \cap e[rest[k]][a.scratch].mask, e[rest[k]][a.scratch].scratch)]]

SelectStep(e, rest, rows) ==
    [k \in 1 .. Len(rest) |-> [s \in SUBSET rows |->
        IF s = {} THEN {} ELSE Narrow(e[rest[k]][s].scratch, e[rest[k]][s].mask)]]

\* The steps are those of masks of the rows.
LEMMA StepsTyped ==
    ASSUME NEW rows, NEW n \in Nat, NEW e, NodesGive(e, n - 1, rows), NEW rest \in Seq(1 .. n - 1)
    PROVE  /\ OrStep(e, rest, rows) \in [1 .. Len(rest) -> [Out(rows) -> Out(rows)]]
           /\ AndStep(e, rest, rows) \in [1 .. Len(rest) -> [Out(rows) -> Out(rows)]]
           /\ SelectStep(e, rest, rows) \in [1 .. Len(rest) -> [SUBSET rows -> SUBSET rows]]
<1>1. ASSUME NEW k \in 1 .. Len(rest), NEW s \in SUBSET rows
      PROVE  e[rest[k]][s] \in Out(rows)
  <2>1. rest[k] \in 1 .. n - 1
    OBVIOUS
  <2>2. e[rest[k]] \in [SUBSET rows -> Out(rows)]
    BY <2>1 DEF NodesGive
  <2>. QED
    BY <2>2
<1>2. \A k \in 1 .. Len(rest), s \in SUBSET rows :
        e[rest[k]][s].mask \subseteq rows /\ e[rest[k]][s].scratch \subseteq rows
  BY <1>1 DEF Out
<1>3. ASSUME NEW k \in 1 .. Len(rest), NEW a \in Out(rows)
      PROVE  /\ Gives(a.mask \cup e[rest[k]][a.scratch].mask, e[rest[k]][a.scratch].scratch)
                   \in Out(rows)
             /\ Gives(a.mask \cap e[rest[k]][a.scratch].mask, e[rest[k]][a.scratch].scratch)
                   \in Out(rows)
  <2>1. a.mask \subseteq rows /\ a.scratch \subseteq rows
    BY DEF Out
  <2>2. e[rest[k]][a.scratch].mask \subseteq rows /\ e[rest[k]][a.scratch].scratch \subseteq rows
    BY <1>2, <2>1
  <2>. QED
    BY <2>1, <2>2 DEF Out, Gives
<1>4. ASSUME NEW k \in 1 .. Len(rest), NEW s \in SUBSET rows
      PROVE  (IF s = {} THEN {} ELSE Narrow(e[rest[k]][s].scratch, e[rest[k]][s].mask))
                \in SUBSET rows
  BY <1>2 DEF Narrow
<1>5. OrStep(e, rest, rows) \in [1 .. Len(rest) -> [Out(rows) -> Out(rows)]]
  BY <1>3, Zenon DEF OrStep
<1>6. AndStep(e, rest, rows) \in [1 .. Len(rest) -> [Out(rows) -> Out(rows)]]
  BY <1>3, Zenon DEF AndStep
<1>7. SelectStep(e, rest, rows) \in [1 .. Len(rest) -> [SUBSET rows -> SUBSET rows]]
  BY <1>4, Zenon DEF SelectStep
<1>. QED
  BY <1>5, <1>6, <1>7

\* The accumulators of the loops, of which the last is what the loop gives.
OrLoop(path, e, first, rest, rows) ==
    /\ Path(path, Len(rest), Out(rows), first, OrStep(e, rest, rows))
    /\ OrAll(e, first, rest) = path[Len(rest)]

AndLoop(path, e, first, rest, rows) ==
    /\ Path(path, Len(rest), Out(rows), first, AndStep(e, rest, rows))
    /\ AndAll(e, first, rest) = path[Len(rest)]

SelectLoop(path, e, first, rest, rows) ==
    /\ Path(path, Len(rest), SUBSET rows, first.mask, SelectStep(e, rest, rows))
    /\ Select(e, first, rest) = path[Len(rest)]

\* The loop of an OR.
LEMMA OrAllPath ==
    ASSUME NEW rows, NEW n \in Nat, NEW e, NodesGive(e, n - 1, rows),
           NEW rest \in Seq(1 .. n - 1), NEW first \in Out(rows)
    PROVE  \E path : OrLoop(path, e, first, rest, rows)
<1>. USE DEF OrLoop
<1>. DEFINE into(a, c) == Gives(a.mask \cup e[c][a.scratch].mask, e[c][a.scratch].scratch)
            value(g, s) == IF s = {} THEN first ELSE into(g[s \ {Max(s)}], rest[Max(s)])
            step == OrStep(e, rest, rows)
<1>1. PICK N \in Nat : N = Len(rest) /\ DOMAIN rest = 1 .. N
  OBVIOUS
<1>2. step \in [1 .. N -> [Out(rows) -> Out(rows)]]
  BY <1>1, StepsTyped
<1>3. \A k \in 1 .. N, a \in Out(rows) : step[k][a] = into(a, rest[k])
  BY <1>1 DEF OrStep
<1>4. PICK h \in [SUBSET (1 .. N) -> Out(rows)] : FoldsInOrder(h, N, first, step)
  <2>. HIDE DEF step
  <2>. QED
    BY <1>2, SequenceFoldExists
<1>5. h = [s \in SUBSET (1 .. N) |-> value(h, s)]
  <2>1. ASSUME NEW s \in SUBSET (1 .. N) PROVE h[s] = value(h, s)
    <3>1. s # {} => Max(s) \in 1 .. N /\ h[s \ {Max(s)}] \in Out(rows)
      BY LastIn
    <3>. HIDE DEF step, into
    <3>. QED
      BY <1>3, <1>4, <3>1 DEF FoldsInOrder
  <2>. HIDE DEF value
  <2>. QED
    BY <2>1
<1>. DEFINE iter == CHOOSE g : g = [s \in SUBSET (1 .. N) |-> value(g, s)]
<1>6. iter = [s \in SUBSET (1 .. N) |-> value(iter, s)]
  <2>. HIDE DEF value
  <2>. QED
    BY <1>5
<1>7. OrAll(e, first, rest) = iter[1 .. N]
  BY <1>1 DEF OrAll, FoldLeft, MapThenFoldSet
<1>. HIDE DEF iter
<1>8. iter[{}] = first
  BY <1>6
<1>9. ASSUME NEW k \in 1 .. N, iter[1 .. k - 1] \in Out(rows)
      PROVE  iter[1 .. k] = step[k][iter[1 .. k - 1]]
  <2>1. Max(1 .. k) = k /\ (1 .. k) \ {k} = 1 .. k - 1 /\ 1 .. k # {}
    <3>1. k \in Nat \ {0}
      OBVIOUS
    <3>. QED
      BY <3>1, LastOfPrefix, Zenon
  <2>2. iter[1 .. k] = value(iter, 1 .. k)
    <3>1. 1 .. k \in SUBSET (1 .. N)
      OBVIOUS
    <3>. HIDE DEF value
    <3>. QED
      BY <1>6, <3>1
  <2>3. value(iter, 1 .. k) = into(iter[1 .. k - 1], rest[k])
    <3>. HIDE DEF into
    <3>. QED
      BY <2>1
  <2>. HIDE DEF step, into, value
  <2>. QED
    BY <1>3, <1>9, <2>2, <2>3
<1>10. \E path : Path(path, N, Out(rows), first, step) /\ iter[1 .. N] = path[N]
  <2>. HIDE DEF step
  <2>1. StepsInOrder(iter, N, Out(rows), first, step)
    BY <1>8, <1>9 DEF StepsInOrder
  <2>. QED
    BY <1>2, <2>1, FoldPath, SMTT(30)
<1>. QED
  BY <1>1, <1>7, <1>10

\* The loop of an AND.
LEMMA AndAllPath ==
    ASSUME NEW rows, NEW n \in Nat, NEW e, NodesGive(e, n - 1, rows),
           NEW rest \in Seq(1 .. n - 1), NEW first \in Out(rows)
    PROVE  \E path : AndLoop(path, e, first, rest, rows)
<1>. USE DEF AndLoop
<1>. DEFINE into(a, c) == Gives(a.mask \cap e[c][a.scratch].mask, e[c][a.scratch].scratch)
            value(g, s) == IF s = {} THEN first ELSE into(g[s \ {Max(s)}], rest[Max(s)])
            step == AndStep(e, rest, rows)
<1>1. PICK N \in Nat : N = Len(rest) /\ DOMAIN rest = 1 .. N
  OBVIOUS
<1>2. step \in [1 .. N -> [Out(rows) -> Out(rows)]]
  BY <1>1, StepsTyped
<1>3. \A k \in 1 .. N, a \in Out(rows) : step[k][a] = into(a, rest[k])
  BY <1>1 DEF AndStep
<1>4. PICK h \in [SUBSET (1 .. N) -> Out(rows)] : FoldsInOrder(h, N, first, step)
  <2>. HIDE DEF step
  <2>. QED
    BY <1>2, SequenceFoldExists
<1>5. h = [s \in SUBSET (1 .. N) |-> value(h, s)]
  <2>1. ASSUME NEW s \in SUBSET (1 .. N) PROVE h[s] = value(h, s)
    <3>1. s # {} => Max(s) \in 1 .. N /\ h[s \ {Max(s)}] \in Out(rows)
      BY LastIn
    <3>. HIDE DEF step, into
    <3>. QED
      BY <1>3, <1>4, <3>1 DEF FoldsInOrder
  <2>. HIDE DEF value
  <2>. QED
    BY <2>1
<1>. DEFINE iter == CHOOSE g : g = [s \in SUBSET (1 .. N) |-> value(g, s)]
<1>6. iter = [s \in SUBSET (1 .. N) |-> value(iter, s)]
  <2>. HIDE DEF value
  <2>. QED
    BY <1>5
<1>7. AndAll(e, first, rest) = iter[1 .. N]
  BY <1>1 DEF AndAll, FoldLeft, MapThenFoldSet
<1>. HIDE DEF iter
<1>8. iter[{}] = first
  BY <1>6
<1>9. ASSUME NEW k \in 1 .. N, iter[1 .. k - 1] \in Out(rows)
      PROVE  iter[1 .. k] = step[k][iter[1 .. k - 1]]
  <2>1. Max(1 .. k) = k /\ (1 .. k) \ {k} = 1 .. k - 1 /\ 1 .. k # {}
    <3>1. k \in Nat \ {0}
      OBVIOUS
    <3>. QED
      BY <3>1, LastOfPrefix, Zenon
  <2>2. iter[1 .. k] = value(iter, 1 .. k)
    <3>1. 1 .. k \in SUBSET (1 .. N)
      OBVIOUS
    <3>. HIDE DEF value
    <3>. QED
      BY <1>6, <3>1
  <2>3. value(iter, 1 .. k) = into(iter[1 .. k - 1], rest[k])
    <3>. HIDE DEF into
    <3>. QED
      BY <2>1
  <2>. HIDE DEF step, into, value
  <2>. QED
    BY <1>3, <1>9, <2>2, <2>3
<1>10. \E path : Path(path, N, Out(rows), first, step) /\ iter[1 .. N] = path[N]
  <2>. HIDE DEF step
  <2>1. StepsInOrder(iter, N, Out(rows), first, step)
    BY <1>8, <1>9 DEF StepsInOrder
  <2>. QED
    BY <1>2, <2>1, FoldPath, SMTT(30)
<1>. QED
  BY <1>1, <1>7, <1>10

\* ... and that over the survivors.
LEMMA SelectPath ==
    ASSUME NEW rows, NEW n \in Nat, NEW e, NodesGive(e, n - 1, rows),
           NEW rest \in Seq(1 .. n - 1), NEW first \in Out(rows)
    PROVE  \E path : SelectLoop(path, e, first, rest, rows)
<1>. USE DEF SelectLoop
<1>. DEFINE into(a, c) == IF a = {} THEN {} ELSE Narrow(e[c][a].scratch, e[c][a].mask)
            value(g, s) == IF s = {} THEN first.mask ELSE into(g[s \ {Max(s)}], rest[Max(s)])
            step == SelectStep(e, rest, rows)
<1>1. PICK N \in Nat : N = Len(rest) /\ DOMAIN rest = 1 .. N
  OBVIOUS
<1>0. first.mask \in SUBSET rows
  BY DEF Out
<1>2. step \in [1 .. N -> [SUBSET rows -> SUBSET rows]]
  BY <1>1, StepsTyped
<1>3. \A k \in 1 .. N, a \in SUBSET rows : step[k][a] = into(a, rest[k])
  BY <1>1 DEF SelectStep
<1>4. PICK h \in [SUBSET (1 .. N) -> SUBSET rows] : FoldsInOrder(h, N, first.mask, step)
  <2>. HIDE DEF step
  <2>. QED
    BY <1>0, <1>2, SequenceFoldExists
<1>5. h = [s \in SUBSET (1 .. N) |-> value(h, s)]
  <2>1. ASSUME NEW s \in SUBSET (1 .. N) PROVE h[s] = value(h, s)
    <3>1. s # {} => Max(s) \in 1 .. N /\ h[s \ {Max(s)}] \in SUBSET rows
      BY LastIn
    <3>. HIDE DEF step, into
    <3>. QED
      BY <1>3, <1>4, <3>1 DEF FoldsInOrder
  <2>. HIDE DEF value
  <2>. QED
    BY <2>1
<1>. DEFINE iter == CHOOSE g : g = [s \in SUBSET (1 .. N) |-> value(g, s)]
<1>6. iter = [s \in SUBSET (1 .. N) |-> value(iter, s)]
  <2>. HIDE DEF value
  <2>. QED
    BY <1>5
<1>7. Select(e, first, rest) = iter[1 .. N]
  BY <1>1 DEF Select, FoldLeft, MapThenFoldSet
<1>. HIDE DEF iter
<1>8. iter[{}] = first.mask
  <2>1. {} \in SUBSET (1 .. N)
    OBVIOUS
  <2>2. value(iter, {}) = first.mask
    <3>. HIDE DEF into
    <3>. QED
      OBVIOUS
  <2>. HIDE DEF value
  <2>3. iter[{}] = value(iter, {})
    BY <1>6, <2>1
  <2>. QED
    BY <2>2, <2>3
<1>9. ASSUME NEW k \in 1 .. N, iter[1 .. k - 1] \in SUBSET rows
      PROVE  iter[1 .. k] = step[k][iter[1 .. k - 1]]
  <2>1. Max(1 .. k) = k /\ (1 .. k) \ {k} = 1 .. k - 1 /\ 1 .. k # {}
    <3>1. k \in Nat \ {0}
      OBVIOUS
    <3>. QED
      BY <3>1, LastOfPrefix, Zenon
  <2>2. iter[1 .. k] = value(iter, 1 .. k)
    <3>1. 1 .. k \in SUBSET (1 .. N)
      OBVIOUS
    <3>. HIDE DEF value
    <3>. QED
      BY <1>6, <3>1
  <2>3. value(iter, 1 .. k) = into(iter[1 .. k - 1], rest[k])
    <3>. HIDE DEF into
    <3>. QED
      BY <2>1
  <2>4. step[k][iter[1 .. k - 1]] = into(iter[1 .. k - 1], rest[k])
    <3>. HIDE DEF step, into, value
    <3>. QED
      BY <1>3, <1>9
  <2>. HIDE DEF step, into, value
  <2>. QED
    BY <2>2, <2>3, <2>4
<1>10. \E path : Path(path, N, SUBSET rows, first.mask, step) /\ iter[1 .. N] = path[N]
  <2>. HIDE DEF step
  <2>. DEFINE Acc == SUBSET rows
  <2>1. StepsInOrder(iter, N, Acc, first.mask, step)
    BY <1>8, <1>9 DEF StepsInOrder
  <2>2. first.mask \in Acc /\ step \in [1 .. N -> [Acc -> Acc]]
    BY <1>0, <1>2
  <2>. HIDE DEF Acc
  <2>3. \E path : Path(path, N, Acc, first.mask, step) /\ iter[1 .. N] = path[N]
    BY <2>1, <2>2, FoldPath, SMTT(30)
  <2>. QED
    BY <2>3 DEF Acc
<1>. QED
  BY <1>1, <1>7, <1>10

-----------------------------------------------------------------------------
(* What a node gives.                                                      *)

\* The first child and the others.
LEMMA ChildrenSplit ==
    ASSUME RuleEvalAssumption, NEW plan, IsPlan(plan), NEW n \in DOMAIN plan,
           plan[n].children # <<>>
    PROVE  /\ ChildrenOf(plan, n) # <<>>
           /\ ChildrenOf(plan, n)[1] \in 1 .. n - 1
           /\ Tail(ChildrenOf(plan, n)) \in Seq(1 .. n - 1)
           /\ ToSet(plan[n].children)
                = {ChildrenOf(plan, n)[1]} \cup ToSet(Tail(ChildrenOf(plan, n)))
<1>1. PICK s : s = ChildrenOf(plan, n)
  OBVIOUS
<1>2. /\ n \in Nat /\ s \in Seq(1 .. n - 1)
      /\ Len(s) = Len(plan[n].children) /\ ToSet(s) = ToSet(plan[n].children)
  BY <1>1, ChildrenAre
<1>3. plan[n].children \in Seq(1 .. n - 1)
  BY PlanFacts
<1>4. s # <<>>
  BY <1>2, <1>3
<1>5. s[1] \in 1 .. n - 1 /\ Tail(s) \in Seq(1 .. n - 1)
  BY <1>2, <1>4
<1>6. ToSet(s) = {s[1]} \cup ToSet(Tail(s))
  <2>1. PICK N \in Nat : N = Len(s) /\ DOMAIN s = 1 .. N /\ N > 0
    BY <1>2, <1>4
  <2>2. DOMAIN Tail(s) = 1 .. N - 1 /\ \A i \in 1 .. N - 1 : Tail(s)[i] = s[i + 1]
    BY <1>2, <1>4, <2>1
  <2>3. \A i \in 1 .. N : i = 1 \/ (i - 1 \in 1 .. N - 1 /\ s[i] = Tail(s)[i - 1])
    BY <2>1, <2>2
  <2>4. \A i \in 1 .. N - 1 : i + 1 \in 1 .. N
    BY <2>1
  <2>5. PICK t : t = Tail(s)
    OBVIOUS
  <2>6. ToSet(s) = {s[i] : i \in 1 .. N} /\ ToSet(t) = {t[i] : i \in 1 .. N - 1}
    BY <2>1, <2>2, <2>5 DEF ToSet
  <2>7. ToSet(s) \subseteq {s[1]} \cup ToSet(t)
    <3>1. \A i \in 1 .. N : i = 1 \/ (i - 1 \in 1 .. N - 1 /\ s[i] = t[i - 1])
      BY <2>3, <2>5
    <3>. QED
      BY <2>6, <3>1
  <2>8. {s[1]} \cup ToSet(t) \subseteq ToSet(s)
    <3>1. \A i \in 1 .. N - 1 : t[i] = s[i + 1]
      BY <2>2, <2>5
    <3>2. 1 \in 1 .. N
      BY <2>1
    <3>. QED
      BY <2>4, <2>6, <3>1, <3>2
  <2>. QED
    BY <2>5, <2>7, <2>8
<1>. QED
  BY <1>1, <1>2, <1>4, <1>5, <1>6

\* What the loops give are masks of the rows.
LEMMA LoopsTyped ==
    ASSUME NEW rows, NEW n \in Nat, NEW e, NodesGive(e, n - 1, rows),
           NEW rest \in Seq(1 .. n - 1), NEW first \in Out(rows)
    PROVE  /\ OrAll(e, first, rest) \in Out(rows)
           /\ AndAll(e, first, rest) \in Out(rows)
           /\ Select(e, first, rest) \in SUBSET rows
<1>1. Len(rest) \in 0 .. Len(rest)
  OBVIOUS
<1>2. PICK p : OrLoop(p, e, first, rest, rows)
  BY OrAllPath, Zenon
<1>3. PICK q : AndLoop(q, e, first, rest, rows)
  BY AndAllPath, Zenon
<1>4. PICK r : SelectLoop(r, e, first, rest, rows)
  BY SelectPath, Zenon
<1>5. OrAll(e, first, rest) \in Out(rows)
  BY <1>1, <1>2 DEF OrLoop, Path
<1>6. AndAll(e, first, rest) \in Out(rows)
  BY <1>1, <1>3 DEF AndLoop, Path
<1>7. Select(e, first, rest) \in SUBSET rows
  BY <1>1, <1>4 DEF SelectLoop, Path
<1>. QED
  BY <1>5, <1>6, <1>7

\* It is a mask of the rows.
LEMMA NodeTyped ==
    ASSUME RuleEvalAssumption, NEW plan, IsPlan(plan), NEW n \in DOMAIN plan,
           NEW found, NEW rows, NEW e, NodesGive(e, n - 1, rows), NEW scratch \in SUBSET rows
    PROVE  EvaluateNode(found, plan, rows, e, n, scratch) \in Out(rows)
<1>. DEFINE s == ChildrenOf(plan, n)
            first == e[s[1]][scratch]
            rest == Tail(s)
            few == Cardinality(first.mask) <= SelectionThreshold(rows)
            value == EvaluateNode(found, plan, rows, e, n, scratch)
<1>1. n \in Nat /\ plan[n].kind \in Kinds
  BY PlanFacts
<1>2. plan[n].children # <<>> =>
        /\ s # <<>> /\ s[1] \in 1 .. n - 1 /\ rest \in Seq(1 .. n - 1)
  BY ChildrenSplit
<1>3. plan[n].children # <<>> => first \in Out(rows)
  <2>. SUFFICES ASSUME plan[n].children # <<>> PROVE first \in Out(rows)
    OBVIOUS
  <2>1. e[s[1]] \in [SUBSET rows -> Out(rows)]
    BY <1>2 DEF NodesGive
  <2>. QED
    BY <2>1
<1>4. plan[n].children = <<>> => s = <<>>
  <2>1. s \in Seq(1 .. n - 1) /\ Len(s) = Len(plan[n].children)
    BY ChildrenAre
  <2>. QED
    BY <2>1
<1>5. plan[n].children # <<>> =>
        /\ OrAll(e, first, rest) \in Out(rows)
        /\ AndAll(e, first, rest) \in Out(rows)
        /\ Select(e, first, rest) \in SUBSET rows
  <2>. SUFFICES ASSUME plan[n].children # <<>>
                PROVE  /\ OrAll(e, first, rest) \in Out(rows)
                       /\ AndAll(e, first, rest) \in Out(rows)
                       /\ Select(e, first, rest) \in SUBSET rows
    OBVIOUS
  <2>. HIDE DEF s, first, rest
  <2>1. first \in Out(rows) /\ rest \in Seq(1 .. n - 1)
    BY <1>2, <1>3
  <2>. QED
    BY <1>1, <2>1, LoopsTyped, Zenon
<1>. HIDE DEF s, first, rest, few
<1>6. CASE plan[n].kind = "PREDICATE"
  <2>1. value = Gives(found[plan[n].predicate] \cap rows, scratch)
    BY <1>6 DEF EvaluateNode
  <2>. QED
    BY <2>1 DEF Gives, Out
<1>7. CASE plan[n].kind = "NOT"
  <2>1. value = Gives(Complement(rows, first.mask), first.scratch)
    BY <1>7 DEF EvaluateNode, s, first
  <2>2. plan[n].children # <<>>
    <3>1. Len(plan[n].children) = 1
      BY <1>7, PlanFacts
    <3>. QED
      BY <3>1
  <2>. QED
    BY <1>3, <2>1, <2>2 DEF Gives, Out, Complement
<1>8. CASE plan[n].kind \in {"AND", "OR"} /\ s = <<>>
  <2>1. value = Gives({}, scratch)
    BY <1>8 DEF EvaluateNode, s
  <2>. QED
    BY <2>1 DEF Gives, Out
<1>9. CASE plan[n].kind = "OR" /\ s # <<>>
  <2>1. value = OrAll(e, first, rest)
    BY <1>9 DEF EvaluateNode, s, first, rest
  <2>. QED
    BY <1>4, <1>5, <1>9, <2>1
<1>10. CASE plan[n].kind = "AND" /\ s # <<>>
  <2>1. \/ value = AndAll(e, first, rest)
        \/ value = Gives(Select(e, first, rest),
                         IF first.mask = {} THEN first.scratch ELSE Select(e, first, rest))
    BY <1>10 DEF EvaluateNode, s, first, rest
  <2>2. /\ AndAll(e, first, rest) \in Out(rows) /\ Select(e, first, rest) \in SUBSET rows
        /\ first.scratch \in SUBSET rows
    BY <1>3, <1>4, <1>5, <1>10 DEF Out
  <2>. QED
    BY <2>1, <2>2 DEF Gives, Out
<1>. QED
  BY <1>1, <1>6, <1>7, <1>8, <1>9, <1>10 DEF Kinds

\* It depends on what the nodes below give.
SameUpto(e, h, n) == \A c \in 1 .. n : e[c] = h[c]

LEMMA NodeAgrees ==
    ASSUME RuleEvalAssumption, NEW plan, IsPlan(plan), NEW n \in DOMAIN plan,
           NEW found, NEW rows, NEW scratch \in SUBSET rows,
           NEW e, NodesGive(e, n - 1, rows), NEW h, SameUpto(e, h, n - 1)
    PROVE  EvaluateNode(found, plan, rows, e, n, scratch)
             = EvaluateNode(found, plan, rows, h, n, scratch)
<1>. USE DEF SameUpto
<1>. DEFINE s == ChildrenOf(plan, n)
            first(g) == g[s[1]][scratch]
            rest == Tail(s)
<1>1. n \in Nat /\ plan[n].kind \in Kinds /\ NodesGive(h, n - 1, rows)
  BY PlanFacts DEF NodesGive
<1>2. CASE plan[n].children = <<>>
  <2>1. s = <<>> /\ plan[n].kind # "NOT"
    <3>1. s \in Seq(1 .. n - 1) /\ Len(s) = Len(plan[n].children)
      BY ChildrenAre
    <3>2. s = <<>>
      BY <1>2, <3>1
    <3>3. plan[n].kind = "NOT" => Len(plan[n].children) = 1
      BY PlanFacts
    <3>. QED
      BY <1>2, <3>2, <3>3
  <2>2. CASE plan[n].kind = "PREDICATE"
    BY <2>2 DEF EvaluateNode
  <2>3. CASE plan[n].kind \in {"AND", "OR"}
    BY <2>1, <2>3 DEF EvaluateNode
  <2>. QED
    BY <1>1, <2>1, <2>2, <2>3 DEF Kinds
<1>3. CASE plan[n].children # <<>>
  <2>1. s # <<>> /\ s[1] \in 1 .. n - 1 /\ rest \in Seq(1 .. n - 1)
    BY <1>3, ChildrenSplit
  <2>2. first(e) = first(h)
    BY <2>1
  <2>3. first(e) \in Out(rows)
    <3>1. e[s[1]] \in [SUBSET rows -> Out(rows)]
      BY <2>1 DEF NodesGive
    <3>. QED
      BY <3>1
  <2>4. PICK f : f = first(e)
    OBVIOUS
  <2>5. PICK r \in Seq(1 .. n - 1) : r = rest
    BY <2>1
  <2>6. /\ OrStep(e, r, rows) = OrStep(h, r, rows)
        /\ AndStep(e, r, rows) = AndStep(h, r, rows)
        /\ SelectStep(e, r, rows) = SelectStep(h, r, rows)
    <3>1. \A k \in 1 .. Len(r) : e[r[k]] = h[r[k]]
      BY <1>1
    <3>2. OrStep(e, r, rows) = OrStep(h, r, rows)
      BY <3>1, Zenon DEF OrStep
    <3>3. AndStep(e, r, rows) = AndStep(h, r, rows)
      BY <3>1, Zenon DEF AndStep
    <3>4. SelectStep(e, r, rows) = SelectStep(h, r, rows)
      BY <3>1, Zenon DEF SelectStep
    <3>. QED
      BY <3>2, <3>3, <3>4
  <2>7. f \in Out(rows) /\ Len(r) \in Nat
    BY <2>3, <2>4
  <2>8. OrAll(e, f, r) = OrAll(h, f, r)
    <3>1. PICK p : OrLoop(p, e, f, r, rows)
      BY <1>1, <2>7, OrAllPath, Zenon
    <3>2. PICK q : OrLoop(q, h, f, r, rows)
      BY <1>1, <2>7, OrAllPath, Zenon
    <3>. QED
      BY <2>6, <2>7, <3>1, <3>2, OnePath DEF OrLoop
  <2>9. AndAll(e, f, r) = AndAll(h, f, r)
    <3>1. PICK p : AndLoop(p, e, f, r, rows)
      BY <1>1, <2>7, AndAllPath, Zenon
    <3>2. PICK q : AndLoop(q, h, f, r, rows)
      BY <1>1, <2>7, AndAllPath, Zenon
    <3>. QED
      BY <2>6, <2>7, <3>1, <3>2, OnePath DEF AndLoop
  <2>10. Select(e, f, r) = Select(h, f, r)
    <3>1. PICK p : SelectLoop(p, e, f, r, rows)
      BY <1>1, <2>7, SelectPath, Zenon
    <3>2. PICK q : SelectLoop(q, h, f, r, rows)
      BY <1>1, <2>7, SelectPath, Zenon
    <3>. QED
      BY <2>6, <2>7, <3>1, <3>2, OnePath DEF SelectLoop
  <2>11. f = first(h) /\ r = Tail(s)
    BY <2>2, <2>4, <2>5
  <2>. DEFINE value(g) == EvaluateNode(found, plan, rows, g, n, scratch)
  <2>12. ASSUME NEW g, f = g[s[1]][scratch]
         PROVE  value(g) =
                  CASE plan[n].kind = "PREDICATE" -> Gives(found[plan[n].predicate] \cap rows, scratch)
                    [] plan[n].kind = "NOT" -> Gives(Complement(rows, f.mask), f.scratch)
                    [] plan[n].kind = "OR" -> OrAll(g, f, r)
                    [] /\ plan[n].kind = "AND" /\ SelectionVectors /\ Len(s) > 1
                       /\ Cardinality(f.mask) <= SelectionThreshold(rows) ->
                         Gives(Select(g, f, r), IF f.mask = {} THEN f.scratch ELSE Select(g, f, r))
                    [] OTHER -> AndAll(g, f, r)
    <3>. HIDE DEF s
    <3>. QED
      BY <2>1, <2>11, <2>12 DEF EvaluateNode, s
  <2>. QED
    BY <2>4, <2>8, <2>9, <2>10, <2>11, <2>12
<1>. QED
  BY <1>2, <1>3

-----------------------------------------------------------------------------
(* What the recursive functions of the evaluation and of the meaning are.  *)

Evaluates(e, found, plan, rows) ==
    /\ \A n \in DOMAIN plan : e[n] \in [SUBSET rows -> Out(rows)]
    /\ \A n \in DOMAIN plan : \A scratch \in SUBSET rows :
          e[n][scratch] = EvaluateNode(found, plan, rows, e, n, scratch)

\* The evaluation of a plan is that of its root, from an empty scratch vector.
LEMMA EvaluateIs ==
    ASSUME RuleEvalAssumption, NEW plan, IsPlan(plan), NEW found, NEW rows
    PROVE  \E e : /\ Evaluates(e, found, plan, rows)
                  /\ Evaluate(found, plan, rows) = e[Root(plan)][{}].mask
<1>. DEFINE Acc == [SUBSET rows -> Out(rows)]
            body(h, n) == [scratch \in SUBSET rows |-> EvaluateNode(found, plan, rows, h, n, scratch)]
<1>1. PICK N \in Nat : N = Len(plan) /\ DOMAIN plan = 1 .. N
  BY PlanFacts
<1>. DEFINE step == [k \in 1 .. N |-> [h \in [1 .. k - 1 -> Acc] |-> body(h, k)]]
<1>2. ASSUME NEW k \in 1 .. N, NEW h, NodesGive(h, k - 1, rows) PROVE body(h, k) \in Acc
  <2>1. \A scratch \in SUBSET rows : EvaluateNode(found, plan, rows, h, k, scratch) \in Out(rows)
    BY <1>1, <1>2, NodeTyped
  <2>. QED
    BY <2>1
<1>3. ASSUME NEW k \in 1 .. N, NEW h, NodesGive(h, k - 1, rows),
             NEW g, SameUpto(h, g, k - 1)
      PROVE  body(h, k) = body(g, k)
  <2>1. ASSUME NEW scratch \in SUBSET rows
        PROVE  EvaluateNode(found, plan, rows, h, k, scratch)
                 = EvaluateNode(found, plan, rows, g, k, scratch)
    <3>1. k \in DOMAIN plan
      BY <1>1
    <3>. QED
      BY <1>3, <3>1, NodeAgrees
  <2>. QED
    BY <2>1
<1>4. PICK g \in [1 .. N -> Acc] : ByRecursion(g, N, step)
  <2>1. \A k \in 1 .. N : step[k] \in [[1 .. k - 1 -> Acc] -> Acc]
    <3>1. ASSUME NEW k \in 1 .. N, NEW h \in [1 .. k - 1 -> Acc] PROVE body(h, k) \in Acc
      <4>1. NodesGive(h, k - 1, rows)
        BY DEF NodesGive
      <4>. QED
        BY <1>2, <4>1
    <3>. HIDE DEF body, Acc
    <3>. QED
      BY <3>1
  <2>. HIDE DEF step, Acc
  <2>2. Recursion(step, N, Acc)
    BY <2>1 DEF Recursion
  <2>. QED
    BY <2>2, RecursionExists, Zenon
<1>5. ASSUME NEW n \in 1 .. N
      PROVE  g[n] = body(g, n)
  <2>. DEFINE h == Below(g, n)
  <2>1. h \in [1 .. n - 1 -> Acc] /\ \A c \in 1 .. n - 1 : h[c] = g[c]
    <3>. HIDE DEF Acc
    <3>. QED
      BY DEF Below
  <2>2. g[n] = body(h, n)
    <3>1. g[n] = step[n][h]
      <4>. HIDE DEF step
      <4>. QED
        BY <1>4 DEF ByRecursion
    <3>2. step[n] = [f \in [1 .. n - 1 -> Acc] |-> body(f, n)]
      <4>. HIDE DEF body, Acc
      <4>. QED
        OBVIOUS
    <3>. HIDE DEF h, body, step, Acc
    <3>. QED
      BY <2>1, <3>1, <3>2
  <2>3. NodesGive(h, n - 1, rows)
    <3>. HIDE DEF h
    <3>. QED
      BY <2>1 DEF NodesGive
  <2>4. body(h, n) = body(g, n)
    <3>. HIDE DEF body, h
    <3>. QED
      BY <1>3, <2>1, <2>3 DEF SameUpto
  <2>. QED
    BY <2>2, <2>4
<1>. DEFINE e == CHOOSE c : c = [n \in DOMAIN plan |-> body(c, n)]
<1>6. g = [n \in DOMAIN plan |-> body(g, n)]
  <2>. HIDE DEF body, Acc
  <2>. QED
    BY <1>1, <1>5
<1>7. e = [n \in DOMAIN plan |-> body(e, n)]
  <2>. HIDE DEF body
  <2>. QED
    BY <1>6
<1>8. Evaluate(found, plan, rows) = e[Root(plan)][{}].mask
  BY DEF Evaluate
<1>. HIDE DEF e
<1>9. \A n \in 1 .. N : e[n] = body(e, n)
  <2>. HIDE DEF body
  <2>. QED
    BY <1>1, <1>7
<1>. DEFINE Good == {k \in Nat : k \in 1 .. N => e[k] \in Acc}
<1>10. ASSUME NEW k \in Nat, \A m \in 0 .. k - 1 : m \in Good
       PROVE  k \in Good
  <2>. SUFFICES ASSUME k \in 1 .. N PROVE e[k] \in Acc
    OBVIOUS
  <2>1. \A c \in 1 .. k - 1 : e[c] \in Acc
    <3>. HIDE DEF Acc
    <3>. QED
      BY <1>10
  <2>2. NodesGive(e, k - 1, rows)
    BY <2>1 DEF NodesGive
  <2>. HIDE DEF body, Acc
  <2>. QED
    BY <1>2, <1>9, <2>2
<1>11. \A k \in Nat : k \in Good
  <2>. HIDE DEF Good
  <2>. QED
    BY <1>10, NumberInduction
<1>12. \A n \in DOMAIN plan : e[n] \in Acc
  <2>. HIDE DEF Acc
  <2>. QED
    BY <1>1, <1>11
<1>13. ASSUME NEW n \in DOMAIN plan, NEW scratch \in SUBSET rows
       PROVE  e[n][scratch] = EvaluateNode(found, plan, rows, e, n, scratch)
  <2>1. e[n] = body(e, n)
    <3>. HIDE DEF body
    <3>. QED
      BY <1>1, <1>9
  <2>. QED
    BY <2>1
<1>. QED
  BY <1>8, <1>12, <1>13, Zenon DEF Evaluates

\* It selects rows that it is given.
LEMMA EvaluateTyped ==
    ASSUME RuleEvalAssumption, NEW plan, IsPlan(plan), NEW found, NEW rows
    PROVE  Evaluate(found, plan, rows) \subseteq rows
<1>1. PICK e : /\ Evaluates(e, found, plan, rows)
               /\ Evaluate(found, plan, rows) = e[Root(plan)][{}].mask
  BY EvaluateIs
<1>2. Root(plan) \in DOMAIN plan /\ {} \in SUBSET rows
  BY PlanFacts
<1>3. e[Root(plan)][{}] \in Out(rows)
  BY <1>1, <1>2 DEF Evaluates
<1>. QED
  BY <1>1, <1>3 DEF Out

PartsOf(m, plan, n) == {m[c] : c \in ToSet(plan[n].children)}

MeaningNode(found, plan, rows, m, n) ==
    CASE plan[n].kind = "PREDICATE" -> found[plan[n].predicate] \cap rows
      [] plan[n].kind = "NOT" -> rows \ UNION PartsOf(m, plan, n)
      [] plan[n].kind = "OR" -> UNION PartsOf(m, plan, n)
      [] OTHER -> {row \in rows : \A part \in PartsOf(m, plan, n) : row \in part}

\* The meaning of a plan is that of its root.
LEMMA MeaningIs ==
    ASSUME NEW plan, IsPlan(plan), NEW found, NEW rows
    PROVE  \E m : /\ \A n \in DOMAIN plan : m[n] = MeaningNode(found, plan, rows, m, n)
                  /\ Meaning(found, plan, rows) = m[Root(plan)]
<1>. DEFINE Acc == SUBSET rows
            body(h, n) == MeaningNode(found, plan, rows, h, n)
<1>1. PICK N \in Nat : N = Len(plan) /\ DOMAIN plan = 1 .. N
  BY PlanFacts
<1>. DEFINE step == [k \in 1 .. N |-> [h \in [1 .. k - 1 -> Acc] |-> body(h, k)]]
<1>2. \A k \in 1 .. N : ToSet(plan[k].children) \subseteq 1 .. k - 1
  BY <1>1, PlanFacts, ChildrenBelow
<1>3. ASSUME NEW k \in 1 .. N, NEW h \in [1 .. k - 1 -> Acc] PROVE body(h, k) \in Acc
  <2>1. \A part \in PartsOf(h, plan, k) : part \subseteq rows
    BY <1>2 DEF PartsOf
  <2>2. UNION PartsOf(h, plan, k) \subseteq rows
    BY <2>1
  <2>. QED
    BY <2>2 DEF MeaningNode
<1>4. ASSUME NEW k \in 1 .. N, NEW h, NEW g, \A c \in 1 .. k - 1 : h[c] = g[c]
      PROVE  body(h, k) = body(g, k)
  <2>1. \A c \in ToSet(plan[k].children) : h[c] = g[c]
    BY <1>2, <1>4
  <2>2. PartsOf(h, plan, k) = PartsOf(g, plan, k)
    BY <2>1 DEF PartsOf
  <2>. QED
    BY <2>2 DEF MeaningNode
<1>. HIDE DEF Acc, body
<1>5. PICK g \in [1 .. N -> Acc] : ByRecursion(g, N, step)
  <2>1. \A k \in 1 .. N : step[k] \in [[1 .. k - 1 -> Acc] -> Acc]
    BY <1>3
  <2>. HIDE DEF step
  <2>2. Recursion(step, N, Acc)
    BY <2>1 DEF Recursion
  <2>. QED
    BY <2>2, RecursionExists, Zenon
<1>6. ASSUME NEW n \in 1 .. N
      PROVE  g[n] = body(g, n)
  <2>. DEFINE h == Below(g, n)
  <2>1. h \in [1 .. n - 1 -> Acc] /\ \A c \in 1 .. n - 1 : h[c] = g[c]
    BY DEF Below
  <2>2. g[n] = body(h, n)
    <3>1. g[n] = step[n][h]
      <4>. HIDE DEF step
      <4>. QED
        BY <1>5 DEF ByRecursion
    <3>2. step[n] = [f \in [1 .. n - 1 -> Acc] |-> body(f, n)]
      OBVIOUS
    <3>. HIDE DEF h, step
    <3>. QED
      BY <2>1, <3>1, <3>2
  <2>. HIDE DEF h
  <2>. QED
    BY <1>4, <2>1, <2>2
<1>. DEFINE m == CHOOSE c : c = [n \in DOMAIN plan |-> body(c, n)]
<1>7. g = [n \in DOMAIN plan |-> body(g, n)]
  BY <1>1, <1>6
<1>8. m = [n \in DOMAIN plan |-> body(m, n)]
  BY <1>7
<1>9. Meaning(found, plan, rows) = m[Root(plan)]
  BY DEF Meaning, body, MeaningNode, PartsOf
<1>. HIDE DEF m
<1>10. \A n \in DOMAIN plan : m[n] = body(m, n)
  BY <1>8
<1>. QED
  BY <1>9, <1>10 DEF body

-----------------------------------------------------------------------------
(* Where no AND lies below another, the evaluation selects the meaning.    *)

\* A node gives its meaning, and a quiet one leaves the scratch vector alone.
NodeMeans(e, m, c, rows, quiet) ==
    \A scratch \in SUBSET rows :
        e[c][scratch].mask = m[c] /\ (quiet => e[c][scratch].scratch = scratch)

ChildrenMean(e, m, rest, rows, quiet) == \A c \in ToSet(rest) : NodeMeans(e, m, c, rows, quiet)

Leaves(quiet, out, scratch) == quiet => out.scratch = scratch

AnyOf(m, first, rest) == first.mask \cup UNION {m[c] : c \in ToSet(rest)}

AllOf(m, first, rest) == {row \in first.mask : \A c \in ToSet(rest) : row \in m[c]}

SelectsAll(e, m, first, rest) == Select(e, first, rest) = AllOf(m, first, rest)

\* If the children give theirs, so do the loops over them.
LEMMA OrMeans ==
    ASSUME NEW rows, NEW n \in Nat, NEW e, NodesGive(e, n - 1, rows), NEW m, NEW quiet,
           NEW rest \in Seq(1 .. n - 1), NEW first \in Out(rows), NEW scratch,
           Leaves(quiet, first, scratch), ChildrenMean(e, m, rest, rows, quiet)
    PROVE  /\ OrAll(e, first, rest).mask = AnyOf(m, first, rest)
           /\ Leaves(quiet, OrAll(e, first, rest), scratch)
<1>. USE DEF ChildrenMean, Leaves, AnyOf
<1>1. PICK N \in Nat : N = Len(rest) /\ DOMAIN rest = 1 .. N
  OBVIOUS
<1>2. PICK path : OrLoop(path, e, first, rest, rows)
  BY OrAllPath, Zenon
<1>. DEFINE upto(k) == first.mask \cup UNION {m[rest[i]] : i \in 1 .. k}
            step == OrStep(e, rest, rows)
            Kept == [k \in 0 .. N |->
                        {a \in Out(rows) : a.mask = upto(k) /\ (quiet => a.scratch = scratch)}]
<1>3. Path(path, N, Out(rows), first, step) /\ OrAll(e, first, rest) = path[N]
  BY <1>1, <1>2 DEF OrLoop
<1>4. step \in [1 .. N -> [Out(rows) -> Out(rows)]]
  BY <1>1, StepsTyped
<1>5. first \in Kept[0]
  <2>1. 1 .. 0 = {}
    OBVIOUS
  <2>2. {m[rest[i]] : i \in 1 .. 0} = {}
    BY <2>1
  <2>3. upto(0) = first.mask
    BY <2>2
  <2>. HIDE DEF upto
  <2>. QED
    BY <2>3
<1>6. ASSUME NEW k \in 1 .. N, NEW a \in Out(rows) \cap Kept[k - 1]
      PROVE  step[k][a] \in Kept[k]
  <2>1. k - 1 \in 0 .. N /\ k \in 0 .. N
    OBVIOUS
  <2>2. a \in Out(rows) /\ a.mask = upto(k - 1) /\ (quiet => a.scratch = scratch)
    <3>. HIDE DEF upto
    <3>. QED
      BY <2>1
  <2>3. a.scratch \in SUBSET rows
    BY <2>2 DEF Out
  <2>4. rest[k] \in ToSet(rest)
    BY <1>1 DEF ToSet
  <2>5. /\ e[rest[k]][a.scratch].mask = m[rest[k]]
        /\ quiet => e[rest[k]][a.scratch].scratch = a.scratch
    BY <2>3, <2>4 DEF NodeMeans
  <2>6. step[k][a] = Gives(a.mask \cup m[rest[k]], e[rest[k]][a.scratch].scratch)
    BY <1>1, <2>2, <2>5 DEF OrStep
  <2>7. upto(k) = upto(k - 1) \cup m[rest[k]]
    <3>1. 1 .. k = (1 .. k - 1) \cup {k}
      OBVIOUS
    <3>. QED
      BY <3>1
  <2>8. step[k][a] \in Out(rows)
    <3>. HIDE DEF step
    <3>. QED
      BY <1>4, <2>2
  <2>9. step[k][a].mask = upto(k) /\ (quiet => step[k][a].scratch = scratch)
    <3>. HIDE DEF upto, step
    <3>. QED
      BY <2>2, <2>5, <2>6, <2>7 DEF Gives
  <2>. HIDE DEF upto, step
  <2>. QED
    BY <2>1, <2>8, <2>9
<1>7. path[N] \in Kept[N]
  <2>. HIDE DEF Kept, step
  <2>. QED
    BY <1>3, <1>5, <1>6, PathKeeps
<1>8. {m[c] : c \in ToSet(rest)} = {m[rest[i]] : i \in 1 .. N}
  BY <1>1 DEF ToSet
<1>9. path[N].mask = upto(N) /\ (quiet => path[N].scratch = scratch)
  <2>. HIDE DEF upto
  <2>. QED
    BY <1>7
<1>. QED
  BY <1>3, <1>8, <1>9

LEMMA AndMeans ==
    ASSUME NEW rows, NEW n \in Nat, NEW e, NodesGive(e, n - 1, rows), NEW m, NEW quiet,
           NEW rest \in Seq(1 .. n - 1), NEW first \in Out(rows), NEW scratch,
           Leaves(quiet, first, scratch), ChildrenMean(e, m, rest, rows, quiet)
    PROVE  /\ AndAll(e, first, rest).mask = AllOf(m, first, rest)
           /\ Leaves(quiet, AndAll(e, first, rest), scratch)
<1>. USE DEF ChildrenMean, Leaves, AllOf
<1>1. PICK N \in Nat : N = Len(rest) /\ DOMAIN rest = 1 .. N
  OBVIOUS
<1>2. PICK path : AndLoop(path, e, first, rest, rows)
  BY AndAllPath, Zenon
<1>. DEFINE upto(k) == {row \in first.mask : \A i \in 1 .. k : row \in m[rest[i]]}
            step == AndStep(e, rest, rows)
            Kept == [k \in 0 .. N |->
                        {a \in Out(rows) : a.mask = upto(k) /\ (quiet => a.scratch = scratch)}]
<1>3. Path(path, N, Out(rows), first, step) /\ AndAll(e, first, rest) = path[N]
  BY <1>1, <1>2 DEF AndLoop
<1>4. step \in [1 .. N -> [Out(rows) -> Out(rows)]]
  BY <1>1, StepsTyped
<1>5. first \in Kept[0]
  <2>1. 1 .. 0 = {}
    OBVIOUS
  <2>2. upto(0) = first.mask
    BY <2>1
  <2>. HIDE DEF upto
  <2>. QED
    BY <2>2
<1>6. ASSUME NEW k \in 1 .. N, NEW a \in Out(rows) \cap Kept[k - 1]
      PROVE  step[k][a] \in Kept[k]
  <2>1. k - 1 \in 0 .. N /\ k \in 0 .. N
    OBVIOUS
  <2>2. a \in Out(rows) /\ a.mask = upto(k - 1) /\ (quiet => a.scratch = scratch)
    <3>. HIDE DEF upto
    <3>. QED
      BY <2>1
  <2>3. a.scratch \in SUBSET rows
    BY <2>2 DEF Out
  <2>4. rest[k] \in ToSet(rest)
    BY <1>1 DEF ToSet
  <2>5. /\ e[rest[k]][a.scratch].mask = m[rest[k]]
        /\ quiet => e[rest[k]][a.scratch].scratch = a.scratch
    BY <2>3, <2>4 DEF NodeMeans
  <2>6. step[k][a] = Gives(a.mask \cap m[rest[k]], e[rest[k]][a.scratch].scratch)
    BY <1>1, <2>2, <2>5 DEF AndStep
  <2>7. upto(k) = upto(k - 1) \cap m[rest[k]]
    <3>1. 1 .. k = (1 .. k - 1) \cup {k}
      OBVIOUS
    <3>. QED
      BY <3>1
  <2>8. step[k][a] \in Out(rows)
    <3>. HIDE DEF step
    <3>. QED
      BY <1>4, <2>2
  <2>9. step[k][a].mask = upto(k) /\ (quiet => step[k][a].scratch = scratch)
    <3>. HIDE DEF upto, step
    <3>. QED
      BY <2>2, <2>5, <2>6, <2>7 DEF Gives
  <2>. HIDE DEF upto, step
  <2>. QED
    BY <2>1, <2>8, <2>9
<1>7. path[N] \in Kept[N]
  <2>. HIDE DEF Kept, step
  <2>. QED
    BY <1>3, <1>5, <1>6, PathKeeps
<1>8. upto(N) = {row \in first.mask : \A c \in ToSet(rest) : row \in m[c]}
  BY <1>1 DEF ToSet
<1>9. path[N].mask = upto(N) /\ (quiet => path[N].scratch = scratch)
  <2>. HIDE DEF upto
  <2>. QED
    BY <1>7
<1>. QED
  BY <1>3, <1>8, <1>9

LEMMA SelectMeans ==
    ASSUME NEW rows, NEW n \in Nat, NEW e, NodesGive(e, n - 1, rows), NEW m, NEW quiet, quiet,
           NEW rest \in Seq(1 .. n - 1), NEW first \in Out(rows),
           ChildrenMean(e, m, rest, rows, quiet)
    PROVE  SelectsAll(e, m, first, rest)
<1>. USE DEF ChildrenMean, AllOf, SelectsAll
<1>1. PICK N \in Nat : N = Len(rest) /\ DOMAIN rest = 1 .. N
  OBVIOUS
<1>2. PICK path : SelectLoop(path, e, first, rest, rows)
  BY SelectPath, Zenon
<1>. DEFINE upto(k) == {row \in first.mask : \A i \in 1 .. k : row \in m[rest[i]]}
            step == SelectStep(e, rest, rows)
            Kept == [k \in 0 .. N |-> {upto(k)}]
<1>3. Path(path, N, SUBSET rows, first.mask, step) /\ Select(e, first, rest) = path[N]
  BY <1>1, <1>2 DEF SelectLoop
<1>4. first.mask \in SUBSET rows
  BY DEF Out
<1>5. first.mask \in Kept[0]
  <2>1. 1 .. 0 = {}
    OBVIOUS
  <2>2. upto(0) = first.mask
    BY <2>1
  <2>. HIDE DEF upto
  <2>. QED
    BY <2>2
<1>6. ASSUME NEW k \in 1 .. N, NEW a \in (SUBSET rows) \cap Kept[k - 1]
      PROVE  step[k][a] \in Kept[k]
  <2>1. k - 1 \in 0 .. N /\ k \in 0 .. N
    OBVIOUS
  <2>2. a \in SUBSET rows /\ a = upto(k - 1)
    <3>. HIDE DEF upto
    <3>. QED
      BY <2>1
  <2>3. rest[k] \in ToSet(rest)
    BY <1>1 DEF ToSet
  <2>4. e[rest[k]][a].mask = m[rest[k]] /\ e[rest[k]][a].scratch = a
    BY <2>2, <2>3 DEF NodeMeans
  <2>5. step[k][a] = a \cap m[rest[k]]
    <3>1. step[k][a] = IF a = {} THEN {} ELSE Narrow(e[rest[k]][a].scratch, e[rest[k]][a].mask)
      BY <1>1, <2>2 DEF SelectStep
    <3>. HIDE DEF step, upto
    <3>. QED
      BY <2>4, <3>1 DEF Narrow
  <2>6. upto(k) = upto(k - 1) \cap m[rest[k]]
    <3>1. 1 .. k = (1 .. k - 1) \cup {k}
      OBVIOUS
    <3>. QED
      BY <3>1
  <2>. HIDE DEF upto, step
  <2>. QED
    BY <2>1, <2>2, <2>5, <2>6
<1>7. path[N] \in Kept[N]
  <2>. HIDE DEF Kept, step
  <2>. QED
    BY <1>3, <1>4, <1>5, <1>6, PathKeeps
<1>8. upto(N) = {row \in first.mask : \A c \in ToSet(rest) : row \in m[c]}
  BY <1>1 DEF ToSet
<1>9. path[N] = upto(N)
  <2>. HIDE DEF upto
  <2>. QED
    BY <1>7
<1>. QED
  BY <1>3, <1>8, <1>9

\* A node gives its meaning if its children do: quiet are the nodes that leave
\* the scratch vector alone.
LEMMA NodeIsMeaning ==
    ASSUME RuleEvalAssumption, NEW plan, IsPlan(plan), NEW found, NEW rows,
           NEW e, Evaluates(e, found, plan, rows), NEW m, NEW n \in DOMAIN plan,
           m[n] = MeaningNode(found, plan, rows, m, n),
           plan[n].kind = "AND" => plan[n].children # <<>>,
           NEW quiet,
           n \in quiet => ToSet(plan[n].children) \subseteq quiet,
           SelectionVectors /\ plan[n].kind = "AND" =>
              n \notin quiet /\ ToSet(plan[n].children) \subseteq quiet,
           \A c \in ToSet(plan[n].children) : NodeMeans(e, m, c, rows, c \in quiet)
    PROVE  NodeMeans(e, m, n, rows, n \in quiet)
<1>. SUFFICES ASSUME NEW scratch \in SUBSET rows
              PROVE  /\ e[n][scratch].mask = m[n]
                     /\ n \in quiet => e[n][scratch].scratch = scratch
  BY DEF NodeMeans
<1>. DEFINE s == ChildrenOf(plan, n)
            first == e[s[1]][scratch]
            rest == Tail(s)
            value == e[n][scratch]
            calm == ToSet(plan[n].children) \subseteq quiet
<1>1. value = EvaluateNode(found, plan, rows, e, n, scratch)
  BY DEF Evaluates
<1>2. n \in Nat /\ plan[n].kind \in Kinds /\ DOMAIN plan = 1 .. Len(plan) /\ Len(plan) \in Nat
  BY PlanFacts
<1>3. NodesGive(e, n - 1, rows)
  <2>1. \A c \in 1 .. n - 1 : c \in DOMAIN plan
    BY <1>2
  <2>2. \A c \in DOMAIN plan : e[c] \in [SUBSET rows -> Out(rows)]
    BY Zenon DEF Evaluates
  <2>. QED
    BY <2>1, <2>2, Zenon DEF NodesGive
<1>4. \A c \in ToSet(plan[n].children) : NodeMeans(e, m, c, rows, calm)
  BY DEF NodeMeans
<1>5. plan[n].children # <<>> =>
        /\ s # <<>> /\ s[1] \in 1 .. n - 1 /\ rest \in Seq(1 .. n - 1)
        /\ ToSet(plan[n].children) = {s[1]} \cup ToSet(rest)
  BY ChildrenSplit
<1>6. plan[n].children = <<>> => s = <<>>
  <2>1. s \in Seq(1 .. n - 1) /\ Len(s) = Len(plan[n].children)
    BY ChildrenAre
  <2>. QED
    BY <2>1
<1>7. plan[n].children # <<>> =>
        /\ first \in Out(rows) /\ first.mask = m[s[1]] /\ (calm => first.scratch = scratch)
        /\ m[s[1]] \subseteq rows
  <2>. SUFFICES ASSUME plan[n].children # <<>>
                PROVE  /\ first \in Out(rows) /\ first.mask = m[s[1]]
                       /\ calm => first.scratch = scratch
                       /\ m[s[1]] \subseteq rows
    OBVIOUS
  <2>. HIDE DEF s, calm
  <2>1. e[s[1]] \in [SUBSET rows -> Out(rows)]
    BY <1>3, <1>5 DEF NodesGive
  <2>2. first \in Out(rows)
    BY <2>1
  <2>3. first.mask = m[s[1]] /\ (calm => first.scratch = scratch)
    BY <1>4, <1>5 DEF NodeMeans
  <2>. QED
    BY <2>2, <2>3 DEF Out
<1>8. n \in quiet => calm
  OBVIOUS
<1>. HIDE DEF s, first, rest, calm
<1>9. CASE plan[n].kind = "PREDICATE"
  <2>1. value = Gives(found[plan[n].predicate] \cap rows, scratch)
    BY <1>1, <1>9 DEF EvaluateNode
  <2>2. m[n] = found[plan[n].predicate] \cap rows
    BY <1>9 DEF MeaningNode
  <2>. QED
    BY <2>1, <2>2 DEF Gives
<1>10. CASE plan[n].kind = "NOT"
  <2>1. value = Gives(Complement(rows, first.mask), first.scratch)
    BY <1>1, <1>10 DEF EvaluateNode, s, first
  <2>2. Len(plan[n].children) = 1 /\ plan[n].children \in Seq(1 .. n - 1)
    BY <1>10, PlanFacts
  <2>3. ToSet(plan[n].children) = {s[1]}
    <3>1. s \in Seq(1 .. n - 1) /\ Len(s) = 1 /\ ToSet(s) = ToSet(plan[n].children)
      BY <2>2, ChildrenAre DEF s
    <3>2. DOMAIN s = {1}
      BY <3>1
    <3>. QED
      BY <3>1, <3>2 DEF ToSet
  <2>4. plan[n].children # <<>>
    <3>1. Len(plan[n].children) = 1 /\ Len(<<>>) = 0
      BY <2>2
    <3>2. ASSUME plan[n].children = <<>> PROVE FALSE
      <4>1. Len(plan[n].children) = 0
        BY <3>1, <3>2, Zenon
      <4>. QED
        BY <3>1, <4>1
    <3>. QED
      BY <3>2
  <2>5. UNION PartsOf(m, plan, n) = m[s[1]]
    BY <2>3 DEF PartsOf
  <2>6. m[n] = rows \ m[s[1]]
    BY <1>10, <2>5 DEF MeaningNode
  <2>. QED
    BY <1>7, <1>8, <2>1, <2>4, <2>6 DEF Gives, Complement
<1>11. CASE plan[n].kind = "OR" /\ plan[n].children = <<>>
  <2>1. value = Gives({}, scratch)
    BY <1>1, <1>6, <1>11 DEF EvaluateNode, s
  <2>2. UNION PartsOf(m, plan, n) = {}
    BY <1>11 DEF PartsOf, ToSet
  <2>3. m[n] = {}
    BY <1>11, <2>2 DEF MeaningNode
  <2>. QED
    BY <2>1, <2>3 DEF Gives
<1>12. CASE plan[n].kind = "OR" /\ plan[n].children # <<>>
  <2>1. value = OrAll(e, first, rest)
    BY <1>1, <1>5, <1>12 DEF EvaluateNode, s, first, rest
  <2>2. \A c \in ToSet(rest) : NodeMeans(e, m, c, rows, calm)
    BY <1>4, <1>5, <1>12
  <2>3. first \in Out(rows) /\ rest \in Seq(1 .. n - 1) /\ (calm => first.scratch = scratch)
    BY <1>5, <1>7, <1>12
  <2>4. /\ OrAll(e, first, rest).mask = AnyOf(m, first, rest)
        /\ Leaves(calm, OrAll(e, first, rest), scratch)
    <3>1. ChildrenMean(e, m, rest, rows, calm) /\ Leaves(calm, first, scratch)
      BY <2>2, <2>3 DEF ChildrenMean, Leaves
    <3>. QED
      BY <1>2, <1>3, <2>3, <3>1, OrMeans, Zenon
  <2>5. m[n] = UNION PartsOf(m, plan, n)
    BY <1>12 DEF MeaningNode
  <2>6. UNION PartsOf(m, plan, n) = m[s[1]] \cup UNION {m[c] : c \in ToSet(rest)}
    BY <1>5, <1>12 DEF PartsOf
  <2>. QED
    BY <1>7, <1>8, <1>12, <2>1, <2>4, <2>5, <2>6 DEF AnyOf, Leaves
<1>13. CASE plan[n].kind = "AND"
  <2>1. \/ value = AndAll(e, first, rest)
        \/ SelectionVectors /\ value.mask = Select(e, first, rest)
    BY <1>1, <1>5, <1>13 DEF EvaluateNode, s, first, rest, Gives
  <2>2. \A c \in ToSet(rest) : NodeMeans(e, m, c, rows, calm)
    BY <1>4, <1>5, <1>13
  <2>3. first \in Out(rows) /\ rest \in Seq(1 .. n - 1) /\ (calm => first.scratch = scratch)
    BY <1>5, <1>7, <1>13
  <2>. DEFINE both == AllOf(m, first, rest)
  <2>4. AndAll(e, first, rest).mask = both /\ Leaves(calm, AndAll(e, first, rest), scratch)
    <3>1. ChildrenMean(e, m, rest, rows, calm) /\ Leaves(calm, first, scratch)
      BY <2>2, <2>3 DEF ChildrenMean, Leaves
    <3>. QED
      BY <1>2, <1>3, <2>3, <3>1, AndMeans, Zenon
  <2>5. SelectionVectors => Select(e, first, rest) = both
    <3>. SUFFICES ASSUME SelectionVectors PROVE Select(e, first, rest) = both
      OBVIOUS
    <3>1. calm
      BY <1>13 DEF calm
    <3>2. ChildrenMean(e, m, rest, rows, calm)
      BY <2>2 DEF ChildrenMean
    <3>3. SelectsAll(e, m, first, rest)
      BY <1>2, <1>3, <2>3, <3>1, <3>2, SelectMeans
    <3>. QED
      BY <3>3 DEF SelectsAll
  <2>6. m[n] = {row \in rows : \A part \in PartsOf(m, plan, n) : row \in part}
    BY <1>13 DEF MeaningNode
  <2>7. m[n] = both
    BY <1>5, <1>7, <1>13, <2>6 DEF PartsOf, AllOf
  <2>8. SelectionVectors => n \notin quiet
    BY <1>13
  <2>. HIDE DEF both
  <2>. QED
    BY <1>8, <2>1, <2>4, <2>5, <2>7, <2>8 DEF Leaves
<1>. QED
  BY <1>2, <1>9, <1>10, <1>11, <1>12, <1>13 DEF Kinds

\* What the evaluation of a straight plan selects is its meaning.
LEMMA StraightMeans ==
    ASSUME RuleEvalAssumption, NEW plan, IsPlan(plan), Straight(plan), NEW found, NEW rows
    PROVE  Evaluate(found, plan, rows) = Meaning(found, plan, rows)
<1>1. PICK e : /\ Evaluates(e, found, plan, rows)
               /\ Evaluate(found, plan, rows) = e[Root(plan)][{}].mask
  BY EvaluateIs
<1>2. PICK m : /\ \A n \in DOMAIN plan : m[n] = MeaningNode(found, plan, rows, m, n)
               /\ Meaning(found, plan, rows) = m[Root(plan)]
  BY MeaningIs
<1>. DEFINE Quiet(Q) ==
              /\ \A n \in DOMAIN plan : n \in Q => ToSet(plan[n].children) \subseteq Q
              /\ SelectionVectors => \A n \in DOMAIN plan :
                    plan[n].kind = "AND" => n \notin Q /\ ToSet(plan[n].children) \subseteq Q
<1>3. PICK quiet : Quiet(quiet)
  <2>1. CASE SelectionVectors
    <3>1. PICK Q \in SUBSET DOMAIN plan :
             /\ \A n \in Q : plan[n].kind # "AND" /\ ToSet(plan[n].children) \subseteq Q
             /\ \A n \in DOMAIN plan : plan[n].kind = "AND" => ToSet(plan[n].children) \subseteq Q
      BY <2>1, Zenon DEF Straight
    <3>. QED
      BY <3>1
  <2>2. CASE ~SelectionVectors
    <3>1. Quiet({})
      BY <2>2
    <3>. HIDE DEF Quiet
    <3>. QED
      BY <3>1
  <2>. QED
    BY <2>1, <2>2
<1>4. PICK N \in Nat : N = Len(plan) /\ DOMAIN plan = 1 .. N
  BY PlanFacts
<1>. DEFINE Good == {k \in Nat : k \in 1 .. N => NodeMeans(e, m, k, rows, k \in quiet)}
<1>5. ASSUME NEW k \in Nat, \A c \in 0 .. k - 1 : c \in Good
      PROVE  k \in Good
  <2>. SUFFICES ASSUME k \in 1 .. N PROVE NodeMeans(e, m, k, rows, k \in quiet)
    OBVIOUS
  <2>1. k \in DOMAIN plan /\ ToSet(plan[k].children) \subseteq 1 .. k - 1
    BY <1>4, PlanFacts, ChildrenBelow
  <2>2. \A c \in ToSet(plan[k].children) : NodeMeans(e, m, c, rows, c \in quiet)
    <3>1. \A c \in 1 .. k - 1 : NodeMeans(e, m, c, rows, c \in quiet)
      BY <1>5
    <3>. QED
      BY <2>1, <3>1
  <2>3. plan[k].kind = "AND" => plan[k].children # <<>>
    BY <2>1, Zenon DEF Straight
  <2>. QED
    BY <1>1, <1>2, <1>3, <2>1, <2>2, <2>3, NodeIsMeaning
<1>6. \A k \in Nat : k \in Good
  <2>. HIDE DEF Good
  <2>. QED
    BY <1>5, NumberInduction
<1>7. Root(plan) \in 1 .. N
  BY <1>4, PlanFacts
<1>8. NodeMeans(e, m, Root(plan), rows, Root(plan) \in quiet)
  BY <1>6, <1>7
<1>9. e[Root(plan)][{}].mask = m[Root(plan)]
  BY <1>8 DEF NodeMeans
<1>. QED
  BY <1>1, <1>2, <1>9

-----------------------------------------------------------------------------
(* Rules and ranks.                                                        *)

\* What a ruleset is.
LEMMA RulesetFacts ==
    ASSUME RuleEvalAssumption, NEW rs \in Rulesets
    PROVE  /\ Len(rs.rules) \in Nat /\ DOMAIN rs.rules = 1 .. Len(rs.rules)
           /\ Len(rs.precedence) \in Nat /\ DOMAIN rs.precedence = 1 .. Len(rs.precedence)
           /\ \A r \in DOMAIN rs.rules :
                 /\ rs.rules[r].action \in Actions
                 /\ rs.rules[r].severity \in 0 .. 3
                 /\ rs.rules[r].priority \in Int
                 /\ rs.rules[r].shadow \in BOOLEAN
                 /\ IsPlan(rs.rules[r].plan)
<1>. DEFINE S == ToSet(rs.rules)
            P == ToSet(rs.precedence)
<1>1. rs.rules \in Seq(S) /\ rs.precedence \in Seq(P)
  BY DEF RuleEvalAssumption
<1>2. /\ Len(rs.rules) \in Nat /\ DOMAIN rs.rules = 1 .. Len(rs.rules)
      /\ Len(rs.precedence) \in Nat /\ DOMAIN rs.precedence = 1 .. Len(rs.precedence)
  <2>. HIDE DEF S, P
  <2>. QED
    BY <1>1
<1>3. \A r \in DOMAIN rs.rules :
        /\ rs.rules[r].action \in Actions
        /\ rs.rules[r].severity \in 0 .. 3
        /\ rs.rules[r].priority \in Int
        /\ rs.rules[r].shadow \in BOOLEAN
        /\ IsPlan(rs.rules[r].plan)
  BY Zenon DEF RuleEvalAssumption
<1>. QED
  BY <1>2, <1>3

\* A place in the precedence is a number,
LEMMA ListedRankTyped ==
    ASSUME RuleEvalAssumption, NEW rs \in Rulesets, NEW label
    PROVE  ListedRank(rs, label) \in Int /\ Len(Precedence(rs)) \in Int
<1>1. PICK n \in Nat : n = Len(Precedence(rs)) /\ DOMAIN Precedence(rs) = 1 .. n
  <2>. DEFINE P == ToSet(rs.precedence) \cup {rs.default}
  <2>1. rs.precedence \in Seq(P)
    <3>. DEFINE Q == ToSet(rs.precedence)
    <3>1. rs.precedence \in Seq(Q)
      BY DEF RuleEvalAssumption
    <3>2. Q \subseteq P
      OBVIOUS
    <3>. HIDE DEF P, Q
    <3>3. \A p \in Seq(Q) : p \in Seq(P)
      <4>1. SUFFICES ASSUME NEW p \in Seq(Q) PROVE p \in Seq(P)
        OBVIOUS
      <4>2. Len(p) \in Nat /\ DOMAIN p = 1 .. Len(p) /\ \A i \in 1 .. Len(p) : p[i] \in P
        BY <3>2
      <4>3. p = [i \in 1 .. Len(p) |-> p[i]]
        OBVIOUS
      <4>4. [i \in 1 .. Len(p) |-> p[i]] \in Seq(P)
        BY <4>2
      <4>. QED
        BY <4>3, <4>4, Zenon
    <3>. QED
      BY <3>1, <3>3
  <2>2. rs.default \in P
    OBVIOUS
  <2>. HIDE DEF P
  <2>3. Precedence(rs) \in Seq(P)
    BY <2>1, <2>2 DEF Precedence
  <2>4. PICK s \in Seq(P) : s = Precedence(rs)
    BY <2>3
  <2>. QED
    BY <2>4
<1>. DEFINE places == {i \in DOMAIN Precedence(rs) : Precedence(rs)[i] = label}
<1>2. places \in SUBSET (1 .. n)
  BY <1>1
<1>3. places # {} => Max(places) \in 1 .. n
  <2>. HIDE DEF places
  <2>. QED
    BY <1>2, LastIn
<1>4. ListedRank(rs, label) = IF places = {} THEN 0 ELSE Max(places) - 1
  BY DEF ListedRank
<1>. HIDE DEF places
<1>. QED
  BY <1>1, <1>3, <1>4

\* ... and so is the rank of a rule.
LEMMA ActionRankTyped ==
    ASSUME RuleEvalAssumption, NEW rs \in Rulesets, NEW r \in DOMAIN rs.rules
    PROVE  ActionRank(rs, rs.rules[r]) \in Int
<1>1. DecisionRank(rs, rs.rules[r].label) \in Int
  <2>1. ListedRank(rs, rs.rules[r].label) \in Int /\ Len(Precedence(rs)) \in Int
    BY ListedRankTyped
  <2>. QED
    BY <2>1 DEF DecisionRank
<1>2. BuiltInRank[rs.rules[r].action] \in Int
  <2>1. rs.rules[r].action \in Actions
    BY RulesetFacts
  <2>. QED
    BY <2>1 DEF Actions, BuiltInRank
<1>. QED
  BY <1>1, <1>2 DEF ActionRank

-----------------------------------------------------------------------------
(* Rows and morsels.                                                       *)

LEMMA RowsFacts ==
    ASSUME RuleEvalAssumption
    PROVE  /\ IsFiniteSet(Rows) /\ Cardinality(Rows) = NumRows
           /\ \A row \in Rows : row \div MorselRows \in Morsels
           /\ Idle \notin Morsels
           /\ \A mi : RowsOfMorsel(mi) \subseteq Rows
<1>1. NumRows \in Nat \ {0} /\ MorselRows \in Nat \ {0}
  BY DEF RuleEvalAssumption
<1>2. IsFiniteSet(Rows) /\ Cardinality(Rows) = NumRows
  BY <1>1, FS_Interval DEF Rows
<1>3. ASSUME NEW row \in Rows PROVE row \div MorselRows \in Morsels
  <2>1. row \in Nat /\ row <= NumRows - 1
    BY <1>1 DEF Rows
  <2>. DEFINE q == row \div MorselRows
              k == (NumRows + MorselRows - 1) \div MorselRows
  <2>2. q \in Nat /\ q * MorselRows <= row
    BY <1>1, <2>1
  <2>3. k \in Nat /\ NumRows + MorselRows - 1 < (k + 1) * MorselRows
    BY <1>1
  <2>. HIDE DEF q, k
  <2>4. (q + 1) * MorselRows = q * MorselRows + MorselRows
    BY <1>1, <2>2
  <2>5. (q + 1) * MorselRows < (k + 1) * MorselRows
    BY <1>1, <2>1, <2>2, <2>3, <2>4
  <2>6. q + 1 < k + 1
    BY <1>1, <2>2, <2>3, <2>5
  <2>7. q \in 0 .. k - 1
    BY <2>2, <2>3, <2>6
  <2>. QED
    BY <2>7 DEF Morsels, q, k
<1>4. Idle \notin Morsels
  BY DEF Idle, Morsels
<1>. QED
  BY <1>2, <1>3, <1>4 DEF RowsOfMorsel

\* Every rule is one of the ruleset.
LEMMA RulesAre ==
    ASSUME RuleEvalAssumption, ruleset \in Rulesets
    PROVE  /\ Len(rules) \in Nat /\ DOMAIN rules = 1 .. Len(rules)
           /\ \A r \in DOMAIN rules :
                 /\ rules[r].action \in Actions
                 /\ rules[r].severity \in 0 .. 3
                 /\ rules[r].priority \in Int
                 /\ rules[r].shadow \in BOOLEAN
                 /\ IsPlan(rules[r].plan)
                 /\ ActionRank(ruleset, rules[r]) \in Int
  BY RulesetFacts, ActionRankTyped DEF rules

\* What they are compared by.
LEMMA RankedBy ==
    ASSUME RuleEvalAssumption, ruleset \in Rulesets
    PROVE  \A r \in DOMAIN rules :
              /\ ActionRank(ruleset, rules[r]) \in Int
              /\ rules[r].severity \in Int /\ rules[r].priority \in Int /\ r \in Int
<1>. SUFFICES ASSUME NEW r \in DOMAIN rules
              PROVE  /\ ActionRank(ruleset, rules[r]) \in Int
                     /\ rules[r].severity \in Int /\ rules[r].priority \in Int /\ r \in Int
  OBVIOUS
<1>1. rules[r].severity \in 0 .. 3
  BY RulesAre
<1>2. r \in 1 .. Len(rules) /\ Len(rules) \in Nat
  BY RulesAre
<1>. QED
  BY <1>1, <1>2, RulesAre

-----------------------------------------------------------------------------
(* Counts.                                                                 *)

\* A term is at most a sum of natural numbers.
LEMMA SumBounds ==
    ASSUME NEW S, IsFiniteSet(S), NEW f, \A x \in S : f[x] \in Nat, NEW x \in S
    PROVE  f[x] <= Sum(f, S)
<1>. DEFINE Good == {T \in SUBSET S : Sum(f, T) \in Nat}
<1>1. ASSUME NEW T \in SUBSET S, \A z \in T : T \ {z} \in Good
      PROVE  T \in Good
  <2>1. IsFiniteSet(T) /\ \A z \in T : f[z] \in Int
    BY FS_Subset
  <2>2. Sum(f, T) = IF T = {} THEN 0 ELSE f[Chosen(T)] + Sum(f, T \ {Chosen(T)})
    BY <2>1, SumChosen
  <2>3. T # {} => Chosen(T) \in T
    BY ChosenIn
  <2>. QED
    BY <1>1, <2>1, <2>2, <2>3
<1>. HIDE DEF Good
<1>2. \A T \in SUBSET S : T \in Good
  BY <1>1, SubsetInduction
<1>3. Sum(f, S \ {x}) \in Nat
  BY <1>2 DEF Good
<1>4. Sum(f, S) = f[x] + Sum(f, S \ {x})
  <2>1. \A z \in S : f[z] \in Int
    OBVIOUS
  <2>. QED
    BY <2>1, SumRemove
<1>. QED
  BY <1>3, <1>4

\* No terms but zeros add up to zero.
LEMMA SumZero ==
    ASSUME NEW S, IsFiniteSet(S)
    PROVE  Sum([x \in S |-> 0], S) = 0
<1>. DEFINE f == [x \in S |-> 0]
            Good == {T \in SUBSET S : Sum(f, T) = 0}
<1>1. ASSUME NEW T \in SUBSET S, \A z \in T : T \ {z} \in Good
      PROVE  T \in Good
  <2>1. IsFiniteSet(T) /\ \A z \in T : f[z] \in Int /\ f[z] = 0
    BY FS_Subset
  <2>. HIDE DEF f
  <2>2. Sum(f, T) = IF T = {} THEN 0 ELSE f[Chosen(T)] + Sum(f, T \ {Chosen(T)})
    BY <2>1, SumChosen
  <2>3. T # {} => Chosen(T) \in T
    BY ChosenIn
  <2>. QED
    BY <1>1, <2>1, <2>2, <2>3
<1>. HIDE DEF Good
<1>2. \A T \in SUBSET S : T \in Good
  BY <1>1, SubsetInduction
<1>. QED
  BY <1>2 DEF Good

\* The counts of a rule are the sum of the workers'.
LEMMA CountsInSum ==
    ASSUME IsFiniteSet(Workers), NEW f, NEW cs, NEW r,
           \A w \in Workers : f[w] = cs[w][r] /\ f[w] \in Int
    PROVE  CountsIn(cs, r) = Sum(f, Workers)
<1>1. PICK g : AddsUp(g, Workers, f)
  BY AddsUpExists
<1>. DEFINE value(h, s) == IF s = {} THEN 0 ELSE cs[Chosen(s)][r] + h[s \ {Chosen(s)}]
<1>2. \A h, s : s \in SUBSET Workers =>
        value(h, s) = IF s = {} THEN 0 ELSE f[Chosen(s)] + h[s \ {Chosen(s)}]
  BY ChosenIn
<1>3. \A h : AddsUp(h, Workers, f) <=> h = [s \in SUBSET Workers |-> value(h, s)]
  <2>. HIDE DEF value
  <2>. QED
    BY <1>2 DEF AddsUp
<1>. DEFINE iter == CHOOSE h : h = [s \in SUBSET Workers |-> value(h, s)]
<1>4. AddsUp(iter, Workers, f)
  <2>. HIDE DEF value
  <2>. QED
    BY <1>1, <1>3
<1>5. CountsIn(cs, r) = iter[Workers]
  BY DEF CountsIn, MapThenSumSet, MapThenFoldSet, Chosen
<1>. HIDE DEF iter
<1>. QED
  BY <1>4, <1>5, SumIs

\* A worker that adds to its count adds to their sum, of which it is a part.
LEMMA CountsInStep ==
    ASSUME IsFiniteSet(Workers), NEW cs, NEW ds, NEW r, NEW u \in Workers, NEW k \in Nat,
           \A w \in Workers : cs[w][r] \in Nat,
           \A w \in Workers \ {u} : ds[w][r] = cs[w][r],
           ds[u][r] = cs[u][r] + k
    PROVE  /\ CountsIn(ds, r) = CountsIn(cs, r) + k
           /\ \A w \in Workers : ds[w][r] <= CountsIn(ds, r)
<1>. DEFINE f == [w \in Workers |-> cs[w][r]]
            g == [w \in Workers |-> ds[w][r]]
<1>1. \A w \in Workers : f[w] = cs[w][r] /\ f[w] \in Nat /\ f[w] \in Int
  OBVIOUS
<1>2. \A w \in Workers : g[w] = ds[w][r] /\ g[w] \in Nat /\ g[w] \in Int
  OBVIOUS
<1>3. (\A w \in Workers \ {u} : g[w] = f[w]) /\ g[u] = f[u] + k
  OBVIOUS
<1>. HIDE DEF f, g
<1>4. CountsIn(cs, r) = Sum(f, Workers) /\ CountsIn(ds, r) = Sum(g, Workers)
  BY <1>1, <1>2, CountsInSum
<1>. DEFINE T == Workers \ {u}
<1>5. Sum(f, Workers) = f[u] + Sum(f, T) /\ Sum(g, Workers) = g[u] + Sum(g, T)
  BY <1>1, <1>2, SumRemove
<1>6. IsFiniteSet(T) /\ (\A w \in T : f[w] \in Int /\ f[w] = g[w])
  BY <1>1, <1>3, FS_Subset
<1>7. Sum(f, T) = Sum(g, T) /\ Sum(f, T) \in Int
  <2>. HIDE DEF T
  <2>. QED
    BY <1>6, SumAgree, SumType
<1>8. \A w \in Workers : g[w] <= Sum(g, Workers)
  BY <1>2, SumBounds
<1>. HIDE DEF T
<1>. QED
  BY <1>1, <1>2, <1>3, <1>4, <1>5, <1>7, <1>8

-----------------------------------------------------------------------------
(* Decisions.                                                              *)

\* Where there is no decision yet, a rule wins that reaches the default's rank.
LEMMA WinsOverDefault ==
    ASSUME RuleEvalAssumption, ruleset \in Rulesets, NEW r \in DOMAIN rules, NEW b,
           [b EXCEPT !.score = 0] = Undecided(ruleset), Shape(b)
    PROVE  Wins(ruleset, rules[r], b)
             <=> ActionRank(ruleset, rules[r]) >= ListedRank(ruleset, ruleset.default)
<1>1. b.rank = ListedRank(ruleset, ruleset.default) /\ b.severity = -1
  BY DEF Undecided, Shape
<1>2. ListedRank(ruleset, ruleset.default) \in Int
  BY ListedRankTyped
<1>3. PICK x \in Int : x = ActionRank(ruleset, rules[r])
  BY RulesAre
<1>4. PICK y \in 0 .. 3 : y = rules[r].severity
  BY RulesAre
<1>5. Wins(ruleset, rules[r], b)
        <=> \/ x > b.rank
            \/ x = b.rank /\ y > b.severity
            \/ x = b.rank /\ y = b.severity /\ rules[r].priority > b.priority
  BY <1>3, <1>4 DEF Wins
<1>. QED
  BY <1>1, <1>2, <1>3, <1>4, <1>5

\* Where a rule before it has decided, a rule wins that is higher.
LEMMA WinsOverRule ==
    ASSUME RuleEvalAssumption, ruleset \in Rulesets,
           NEW r \in DOMAIN rules, NEW q \in DOMAIN rules, q < r, NEW b, DecidedBy(b, q)
    PROVE  /\ Wins(ruleset, rules[r], b) => Higher(r, q)
           /\ ~Wins(ruleset, rules[r], b) => Higher(q, r)
<1>1. PICK x \in Int, y \in Int, z \in Int :
        x = ActionRank(ruleset, rules[r]) /\ y = rules[r].severity /\ z = rules[r].priority
  BY RankedBy, Zenon
<1>2. PICK u \in Int, v \in Int, t \in Int :
        u = ActionRank(ruleset, rules[q]) /\ v = rules[q].severity /\ t = rules[q].priority
  BY RankedBy, Zenon
<1>3. r \in Int /\ q \in Int
  BY RankedBy
<1>4. b.rank = u /\ b.severity = v /\ b.priority = t
  BY <1>2 DEF DecidedBy
<1>5. Wins(ruleset, rules[r], b)
        <=> (x > u \/ (x = u /\ y > v) \/ (x = u /\ y = v /\ z > t))
  BY <1>1, <1>4 DEF Wins
<1>6. Higher(r, q)
        <=> (x > u \/ (x = u /\ (y > v \/ (y = v /\ z > t) \/ (y = v /\ z = t /\ r < q))))
  BY <1>1, <1>2 DEF Higher
<1>7. Higher(q, r)
        <=> (u > x \/ (u = x /\ (v > y \/ (v = y /\ t > z) \/ (v = y /\ t = z /\ q < r))))
  BY <1>1, <1>2 DEF Higher
<1>. QED
  BY <1>3, <1>5, <1>6, <1>7

\* A rule above another is above those below it.
LEMMA HigherTransitive ==
    ASSUME RuleEvalAssumption, ruleset \in Rulesets, NEW r \in DOMAIN rules,
           NEW q \in DOMAIN rules, NEW p \in DOMAIN rules, Higher(r, q), Higher(q, p)
    PROVE  Higher(r, p)
<1>. DEFINE A(n) == ActionRank(ruleset, rules[n])
            B(n) == rules[n].severity
            C(n) == rules[n].priority
<1>1. \A n \in DOMAIN rules : A(n) \in Int /\ B(n) \in Int /\ C(n) \in Int /\ n \in Int
  BY RankedBy
<1>2. \A m, n : Higher(m, n)
        <=> \/ A(m) > A(n)
            \/ A(m) = A(n) /\ (\/ B(m) > B(n)
                               \/ B(m) = B(n) /\ C(m) > C(n)
                               \/ B(m) = B(n) /\ C(m) = C(n) /\ m < n)
  BY DEF Higher
<1>. HIDE DEF A, B, C
<1>. QED
  BY <1>1, <1>2

\* What a reduction leaves of a decision: its shape, and who decided.
LEMMA ReducedIs ==
    ASSUME RuleEvalAssumption, ruleset \in Rulesets, NEW r \in DOMAIN rules, NEW b, Shape(b)
    PROVE  /\ Shape(Reduced(ruleset, r, b))
           /\ Wins(ruleset, rules[r], b) => DecidedBy(Reduced(ruleset, r, b), r)
           /\ ~Wins(ruleset, rules[r], b) =>
                 /\ [Reduced(ruleset, r, b) EXCEPT !.score = 0] = [b EXCEPT !.score = 0]
                 /\ \A q : DecidedBy(b, q) => DecidedBy(Reduced(ruleset, r, b), q)
<1>1. DOMAIN b = {"rank", "severity", "priority", "label", "winner", "score"}
  BY DEF Shape, Undecided
<1>. DEFINE rule == rules[r]
            scored == [b EXCEPT !.score = Scored(rule, @)]
<1>2. /\ DOMAIN scored = DOMAIN b
      /\ [scored EXCEPT !.score = 0] = [b EXCEPT !.score = 0]
      /\ \A q : DecidedBy(b, q) => DecidedBy(scored, q)
  BY <1>1 DEF DecidedBy
<1>3. Reduced(ruleset, r, b) =
        IF Wins(ruleset, rule, b)
        THEN [scored EXCEPT !.rank = ActionRank(ruleset, rule), !.severity = rule.severity,
                            !.priority = rule.priority, !.label = rule.label, !.winner = r]
        ELSE scored
  BY DEF Reduced, rules
<1>. HIDE DEF scored
<1>4. CASE Wins(ruleset, rule, b)
  BY <1>1, <1>2, <1>3, <1>4 DEF Shape, DecidedBy, Undecided
<1>5. CASE ~Wins(ruleset, rule, b)
  BY <1>1, <1>2, <1>3, <1>5 DEF Shape
<1>. QED
  BY <1>4, <1>5

-----------------------------------------------------------------------------
(* The steps.                                                              *)

\* What a rule selects stays what it is.
LEMMA SameHits ==
    ASSUME UNCHANGED <<ruleset, holds>>
    PROVE  rules' = rules /\ \A r, row : Hits(r, row)' <=> Hits(r, row)
<1>1. rules' = rules
  BY DEF rules
<1>2. ASSUME NEW r, NEW row PROVE Hits(r, row)' <=> Hits(r, row)
  BY <1>1 DEF Hits
<1>. QED
  BY <1>1, <1>2

\* Masks stay right as long as the rows done are the same,
LEMMA SameMasks ==
    ASSUME MasksSoFar, UNCHANGED <<ruleset, holds, matched>>,
           \A r \in DOMAIN rules : \A row \in Rows : Evaluated(r, row)' <=> Evaluated(r, row)
    PROVE  MasksSoFar'
<1>1. rules' = rules /\ \A r, row : Hits(r, row)' <=> Hits(r, row)
  BY SameHits
<1>. SUFFICES ASSUME NEW r \in DOMAIN rules
              PROVE  matched[r] = {row \in Rows : Evaluated(r, row)' /\ Hits(r, row)'}
  BY <1>1 DEF MasksSoFar
<1>2. matched[r] = {row \in Rows : Evaluated(r, row) /\ Hits(r, row)}
  BY DEF MasksSoFar
<1>3. \A row \in Rows : (Evaluated(r, row)' /\ Hits(r, row)') <=> (Evaluated(r, row) /\ Hits(r, row))
  BY <1>1
<1>. QED
  BY <1>2, <1>3, Zenon

\* ... and so do the counts and the decisions.
LEMMA SameCounts ==
    ASSUME CountsSoFar, UNCHANGED <<ruleset, counts, matched, any>>
    PROVE  CountsSoFar'
  BY DEF CountsSoFar, rules

LEMMA SameDecisions ==
    ASSUME DecisionsSoFar, UNCHANGED <<ruleset, matched, best>>
    PROVE  DecisionsSoFar'
<1>1. rules' = rules
  BY DEF rules
<1>2. \A row : Candidates(row)' = Candidates(row)
  BY <1>1 DEF Candidates
<1>3. \A r, q : Higher(r, q)' <=> Higher(r, q)
  BY <1>1, Zenon DEF Higher
<1>4. \A b, q : DecidedBy(b, q)' <=> DecidedBy(b, q)
  BY <1>1, Zenon DEF DecidedBy
<1>5. \A row : DecidedBy(best[row], row)' <=> DecidedBy(best[row], row)
  BY <1>1 DEF DecidedBy
<1>. SUFFICES ASSUME NEW row \in Rows PROVE Shape(best[row])' /\ DecisionSoFar(row)'
  BY DEF DecisionsSoFar
<1>6. Shape(best[row]) /\ DecisionSoFar(row)
  BY DEF DecisionsSoFar
<1>7. Shape(best[row])'
  BY <1>6 DEF Shape
<1>8. DecisionSoFar(row)'
  BY <1>1, <1>2, <1>3, <1>6 DEF DecisionSoFar, DecidedBy
<1>. QED
  BY <1>7, <1>8

\* The invariant when a batch begins.
LEMMA InitEval ==
    ASSUME RuleEvalAssumption, Init
    PROVE  EvalInv
<1>. USE DEF Init
<1>1. Len(rules) \in Nat /\ DOMAIN rules = 1 .. Len(rules)
  BY RulesAre
<1>2. NumRows \in Nat \ {0} /\ Idle \notin Morsels /\ IsFiniteSet(Workers)
  BY RowsFacts DEF RuleEvalAssumption
<1>3. TypeOK
  <2>1. \A row \in Rows : best[row].winner = NoRule
    BY DEF Undecided
  <2>. QED
    BY <1>1, <1>2, <2>1 DEF TypeOK
<1>4. JobsApart
  BY <1>2 DEF JobsApart
<1>5. \A r, row : row \in Rows => ~Evaluated(r, row)
  BY RowsFacts DEF Evaluated
<1>6. MasksSoFar
  BY <1>5 DEF MasksSoFar
<1>7. CountsSoFar
  <2>1. any = UNION {matched[r] : r \in DOMAIN rules}
    OBVIOUS
  <2>2. ASSUME NEW r \in DOMAIN rules PROVE CountsIn(counts, r) = Cardinality(matched[r])
    <3>. DEFINE f == [w \in Workers |-> 0]
    <3>1. \A w \in Workers : f[w] = counts[w][r] /\ f[w] \in Int
      OBVIOUS
    <3>2. CountsIn(counts, r) = Sum(f, Workers)
      BY <1>2, <3>1, CountsInSum
    <3>3. Sum(f, Workers) = 0
      BY <1>2, SumZero
    <3>4. Cardinality(matched[r]) = 0
      BY FS_EmptySet
    <3>. QED
      BY <3>2, <3>3, <3>4
  <2>. QED
    BY <2>1, <2>2 DEF CountsSoFar
<1>8. DecisionsSoFar
  <2>. SUFFICES ASSUME NEW row \in Rows PROVE Shape(best[row]) /\ DecisionSoFar(row)
    BY DEF DecisionsSoFar
  <2>1. best[row] = Undecided(ruleset) /\ Candidates(row) = {}
    BY DEF Candidates
  <2>2. [Undecided(ruleset) EXCEPT !.score = 0] = Undecided(ruleset)
    BY DEF Undecided
  <2>. QED
    BY <2>1, <2>2 DEF Shape, DecisionSoFar
<1>9. DoneAtLast
  BY DEF DoneAtLast
<1>. QED
  BY <1>3, <1>4, <1>6, <1>7, <1>8, <1>9 DEF EvalInv

\* A worker takes a morsel: none of its rows is done yet.
LEMMA ClaimKeeps ==
    ASSUME RuleEvalAssumption, EvalInv, NEW w \in Workers, Claim(w)
    PROVE  EvalInv'
<1>. USE DEF EvalInv
<1>1. PICK m \in left : left' = left \ {m} /\ job' = [job EXCEPT ![w] = m]
  BY DEF Claim
<1>2. /\ phase = "evaluate" /\ job[w] = Idle /\ next' = [next EXCEPT ![w] = 1]
      /\ UNCHANGED <<ruleset, holds, counts, matched, any, best, phase>>
  BY DEF Claim
<1>3. /\ left \subseteq Morsels /\ job \in [Workers -> Morsels \cup {Idle}]
      /\ next \in [Workers -> 1 .. Len(rules) + 1] /\ Idle \notin Morsels
      /\ Len(rules) \in Nat /\ DOMAIN rules = 1 .. Len(rules)
  BY RowsFacts, RulesAre DEF TypeOK
<1>4. rules' = rules
  BY <1>2 DEF rules
<1>5. TypeOK'
  BY <1>1, <1>2, <1>3, <1>4 DEF TypeOK
<1>6. JobsApart'
  BY <1>1, <1>2, <1>3 DEF JobsApart
<1>7. ASSUME NEW r \in DOMAIN rules, NEW row \in Rows PROVE Evaluated(r, row)' <=> Evaluated(r, row)
  <2>. DEFINE mi == row \div MorselRows
  <2>1. mi \in Morsels
    BY RowsFacts
  <2>2. /\ Evaluated(r, row) <=> mi \notin left /\ \A v \in Workers : job[v] = mi => next[v] > r
        /\ Evaluated(r, row)' <=> mi \notin left' /\ \A v \in Workers : job'[v] = mi => next'[v] > r
    BY DEF Evaluated
  <2>. HIDE DEF mi
  <2>3. CASE mi = m
    BY <1>1, <1>2, <1>3, <2>2, <2>3
  <2>4. CASE mi # m
    BY <1>1, <1>2, <1>3, <2>1, <2>2, <2>4
  <2>. QED
    BY <2>3, <2>4
<1>8. MasksSoFar' /\ CountsSoFar' /\ DecisionsSoFar'
  BY <1>2, <1>7, SameMasks, SameCounts, SameDecisions
<1>9. DoneAtLast'
  BY <1>2 DEF DoneAtLast
<1>. QED
  BY <1>5, <1>6, <1>8, <1>9

\* A worker is done with its morsel when all rules are evaluated on it.
LEMMA ReleaseKeeps ==
    ASSUME RuleEvalAssumption, EvalInv, NEW w \in Workers, Release(w)
    PROVE  EvalInv'
<1>. USE DEF EvalInv
<1>1. /\ job[w] # Idle /\ next[w] > Len(rules) /\ job' = [job EXCEPT ![w] = Idle]
      /\ UNCHANGED <<ruleset, holds, left, next, counts, matched, any, best, phase>>
  BY DEF Release
<1>2. /\ left \subseteq Morsels /\ job \in [Workers -> Morsels \cup {Idle}]
      /\ next \in [Workers -> 1 .. Len(rules) + 1] /\ Idle \notin Morsels
      /\ Len(rules) \in Nat /\ DOMAIN rules = 1 .. Len(rules)
  BY RowsFacts, RulesAre DEF TypeOK
<1>3. rules' = rules
  BY <1>1 DEF rules
<1>4. TypeOK'
  BY <1>1, <1>2, <1>3 DEF TypeOK
<1>5. JobsApart'
  BY <1>1, <1>2 DEF JobsApart
<1>6. ASSUME NEW r \in DOMAIN rules, NEW row \in Rows PROVE Evaluated(r, row)' <=> Evaluated(r, row)
  <2>. DEFINE mi == row \div MorselRows
  <2>1. mi \in Morsels
    BY RowsFacts
  <2>2. /\ Evaluated(r, row) <=> mi \notin left /\ \A v \in Workers : job[v] = mi => next[v] > r
        /\ Evaluated(r, row)' <=> mi \notin left' /\ \A v \in Workers : job'[v] = mi => next'[v] > r
    BY DEF Evaluated
  <2>. HIDE DEF mi
  <2>3. job'[w] # mi /\ next[w] > r
    BY <1>1, <1>2, <2>1
  <2>4. \A v \in Workers \ {w} : job'[v] = job[v] /\ next'[v] = next[v]
    BY <1>1, <1>2
  <2>. QED
    BY <1>1, <2>2, <2>3, <2>4
<1>7. MasksSoFar' /\ CountsSoFar' /\ DecisionsSoFar'
  BY <1>1, <1>6, SameMasks, SameCounts, SameDecisions
<1>8. DoneAtLast'
  <2>1. phase # "done"
    BY <1>1 DEF DoneAtLast
  <2>. QED
    BY <1>1, <2>1 DEF DoneAtLast
<1>. QED
  BY <1>4, <1>5, <1>7, <1>8

\* The batch is assembled.
LEMMA AssembleKeeps ==
    ASSUME RuleEvalAssumption, EvalInv, Assemble
    PROVE  EvalInv'
<1>. USE DEF EvalInv
<1>1. /\ left = {} /\ (\A w \in Workers : job[w] = Idle) /\ phase' = "done"
      /\ UNCHANGED <<ruleset, holds, left, job, next, counts, matched, any, best>>
  BY DEF Assemble
<1>2. rules' = rules
  BY <1>1 DEF rules
<1>3. TypeOK'
  BY <1>1, <1>2 DEF TypeOK
<1>4. JobsApart' /\ DoneAtLast'
  BY <1>1 DEF JobsApart, DoneAtLast
<1>5. \A r, row : Evaluated(r, row)' <=> Evaluated(r, row)
  BY <1>1 DEF Evaluated
<1>6. MasksSoFar' /\ CountsSoFar' /\ DecisionsSoFar'
  BY <1>1, <1>5, SameMasks, SameCounts, SameDecisions
<1>. QED
  BY <1>3, <1>4, <1>6

\* Nothing changes.
LEMMA NothingKeeps ==
    ASSUME EvalInv, UNCHANGED vars
    PROVE  EvalInv'
<1>. USE DEF EvalInv
<1>1. UNCHANGED <<ruleset, holds, left, job, next, counts, matched, any, best, phase>>
  BY DEF vars
<1>2. rules' = rules
  BY <1>1 DEF rules
<1>3. TypeOK'
  BY <1>1, <1>2 DEF TypeOK
<1>4. JobsApart' /\ DoneAtLast'
  BY <1>1 DEF JobsApart, DoneAtLast
<1>5. \A r, row : Evaluated(r, row)' <=> Evaluated(r, row)
  BY <1>1 DEF Evaluated
<1>6. MasksSoFar' /\ CountsSoFar' /\ DecisionsSoFar'
  BY <1>1, <1>5, SameMasks, SameCounts, SameDecisions
<1>. QED
  BY <1>3, <1>4, <1>6

\* A worker evaluates a rule: what that adds to the rows done,
LEMMA RuleStepRows ==
    ASSUME RuleEvalAssumption, EvalInv, NEW w \in Workers, EvaluateRule(w),
           NEW r, r = next[w], NEW mask, mask = Evaluate(holds, rules[r].plan, RowsOfMorsel(job[w]))
    PROVE  /\ r \in DOMAIN rules /\ mask \subseteq Rows
           /\ \A row \in Rows :
                 /\ row \in mask <=> row \div MorselRows = job[w] /\ Hits(r, row)
                 /\ row \in mask => ~Evaluated(r, row)
                 /\ \A q \in DOMAIN rules :
                       /\ Evaluated(q, row)'
                            <=> Evaluated(q, row) \/ (q = r /\ row \div MorselRows = job[w])
                       /\ row \in mask /\ Evaluated(q, row) => q < r
<1>. USE DEF EvalInv
<1>1. /\ job[w] # Idle /\ next[w] <= Len(rules) /\ next' = [next EXCEPT ![w] = @ + 1]
      /\ UNCHANGED <<ruleset, holds, left, job, phase>>
  BY DEF EvaluateRule
<1>2. /\ left \subseteq Morsels /\ job \in [Workers -> Morsels \cup {Idle}]
      /\ next \in [Workers -> 1 .. Len(rules) + 1] /\ Idle \notin Morsels
      /\ Len(rules) \in Nat /\ DOMAIN rules = 1 .. Len(rules)
  BY RowsFacts, RulesAre DEF TypeOK
<1>3. r \in DOMAIN rules /\ r \in 1 .. Len(rules)
  BY <1>1, <1>2
<1>4. mask \subseteq RowsOfMorsel(job[w])
  <2>1. holds \in [Predicates -> SUBSET Rows] /\ IsPlan(rules[r].plan)
    BY <1>3, RulesAre DEF TypeOK
  <2>2. RowsOfMorsel(job[w]) \subseteq Rows
    BY RowsFacts
  <2>. QED
    BY <2>1, <2>2, EvaluateTyped
<1>5. mask \subseteq Rows /\ \A row \in mask : row \div MorselRows = job[w]
  BY <1>4 DEF RowsOfMorsel
<1>6. ASSUME NEW row \in Rows
      PROVE  row \in mask <=> row \div MorselRows = job[w] /\ Hits(r, row)
  <2>1. CASE row \div MorselRows = job[w]
    BY <2>1 DEF Hits
  <2>2. CASE row \div MorselRows # job[w]
    BY <1>5, <2>2
  <2>. QED
    BY <2>1, <2>2
<1>7. job[w] \notin left /\ \A v \in Workers \ {w} : job[v] # job[w]
  BY <1>1 DEF JobsApart
<1>8. ASSUME NEW row \in Rows, row \div MorselRows = job[w], NEW q \in DOMAIN rules
      PROVE  (Evaluated(q, row) <=> q < r) /\ (Evaluated(q, row)' <=> q < r + 1)
  <2>1. Evaluated(q, row) <=> next[w] > q
    BY <1>7, <1>8 DEF Evaluated
  <2>2. Evaluated(q, row)' <=> next'[w] > q
    <3>1. left' = left /\ job' = job
      BY <1>1
    <3>. QED
      BY <1>7, <1>8, <3>1 DEF Evaluated
  <2>. QED
    BY <1>1, <1>2, <2>1, <2>2
<1>9. ASSUME NEW row \in Rows, row \div MorselRows # job[w], NEW q \in DOMAIN rules
      PROVE  Evaluated(q, row)' <=> Evaluated(q, row)
  <2>1. left' = left /\ job' = job /\ \A v \in Workers \ {w} : next'[v] = next[v]
    BY <1>1, <1>2
  <2>. QED
    BY <1>9, <2>1 DEF Evaluated
<1>10. ASSUME NEW row \in Rows, NEW q \in DOMAIN rules
       PROVE  /\ Evaluated(q, row)'
                   <=> Evaluated(q, row) \/ (q = r /\ row \div MorselRows = job[w])
              /\ row \in mask /\ Evaluated(q, row) => q < r
  <2>1. CASE row \div MorselRows = job[w]
    BY <1>2, <1>3, <1>8, <2>1
  <2>2. CASE row \div MorselRows # job[w]
    BY <1>5, <1>9, <2>2
  <2>. QED
    BY <2>1, <2>2
<1>11. ASSUME NEW row \in Rows, row \in mask PROVE ~Evaluated(r, row)
  BY <1>2, <1>3, <1>5, <1>8, <1>11
<1>. QED
  BY <1>3, <1>5, <1>6, <1>10, <1>11

\* ... to the masks,
LEMMA RuleStepMasks ==
    ASSUME RuleEvalAssumption, EvalInv, NEW w \in Workers, EvaluateRule(w),
           NEW r, r = next[w], NEW mask, mask = Evaluate(holds, rules[r].plan, RowsOfMorsel(job[w]))
    PROVE  /\ matched \in [DOMAIN rules -> SUBSET Rows]
           /\ (\A row \in mask : row \notin matched[r]) /\ MasksSoFar'
<1>1. /\ r \in DOMAIN rules /\ mask \subseteq Rows
      /\ \A row \in Rows :
            /\ row \in mask <=> row \div MorselRows = job[w] /\ Hits(r, row)
            /\ row \in mask => ~Evaluated(r, row)
            /\ \A q \in DOMAIN rules :
                  Evaluated(q, row)' <=> Evaluated(q, row) \/ (q = r /\ row \div MorselRows = job[w])
  BY RuleStepRows
<1>2. matched' = [matched EXCEPT ![r] = @ \cup mask] /\ UNCHANGED <<ruleset, holds>>
  BY DEF EvaluateRule
<1>3. matched \in [DOMAIN rules -> SUBSET Rows] /\ MasksSoFar
  BY DEF EvalInv, TypeOK
<1>4. \A q \in DOMAIN rules : matched[q] = {row \in Rows : Evaluated(q, row) /\ Hits(q, row)}
  BY <1>3 DEF MasksSoFar
<1>5. rules' = rules /\ \A q, row : Hits(q, row)' <=> Hits(q, row)
  BY <1>2, SameHits
<1>6. \A row \in mask : row \notin matched[r]
  BY <1>1, <1>4
<1>7. ASSUME NEW q \in DOMAIN rules
      PROVE  matched'[q] = {row \in Rows : Evaluated(q, row)' /\ Hits(q, row)'}
  <2>1. matched[q] = {row \in Rows : Evaluated(q, row) /\ Hits(q, row)}
    BY <1>4
  <2>2. \A row \in Rows : Hits(q, row)' <=> Hits(q, row)
    BY <1>5
  <2>3. CASE q = r
    <3>1. matched'[q] = matched[q] \cup mask
      BY <1>2, <1>3, <2>3
    <3>2. \A row \in Rows :
            (Evaluated(q, row)' /\ Hits(q, row)') <=> (Evaluated(q, row) /\ Hits(q, row)) \/ row \in mask
      BY <1>1, <2>2, <2>3
    <3>. QED
      BY <1>1, <2>1, <3>1, <3>2
  <2>4. CASE q # r
    <3>1. matched'[q] = matched[q]
      BY <1>2, <1>3, <2>4
    <3>2. \A row \in Rows :
            (Evaluated(q, row)' /\ Hits(q, row)') <=> (Evaluated(q, row) /\ Hits(q, row))
      BY <1>1, <2>2, <2>4
    <3>. QED
      BY <2>1, <3>1, <3>2
  <2>. QED
    BY <2>3, <2>4
<1>8. MasksSoFar'
  BY <1>5, <1>7 DEF MasksSoFar
<1>. QED
  BY <1>3, <1>6, <1>8

\* ... to the counts,
LEMMA RuleStepCounts ==
    ASSUME RuleEvalAssumption, EvalInv, NEW w \in Workers, EvaluateRule(w)
    PROVE  CountsSoFar' /\ counts' \in [Workers -> [DOMAIN rules -> 0 .. NumRows]]
<1>a. PICK r : r = next[w]
  OBVIOUS
<1>b. PICK mask : mask = Evaluate(holds, rules[r].plan, RowsOfMorsel(job[w]))
  OBVIOUS
<1>1. /\ counts' = [counts EXCEPT ![w][r] = @ + Cardinality(mask)]
      /\ any' = any \cup mask /\ UNCHANGED ruleset
  BY <1>a, <1>b DEF EvaluateRule
<1>2. r \in DOMAIN rules /\ mask \subseteq Rows
  BY <1>a, <1>b, RuleStepRows
<1>3. /\ matched \in [DOMAIN rules -> SUBSET Rows]
      /\ matched[r] \cap mask = {} /\ matched' = [matched EXCEPT ![r] = @ \cup mask]
  <2>1. matched' = [matched EXCEPT ![r] = @ \cup mask]
    BY <1>a, <1>b DEF EvaluateRule
  <2>2. matched \in [DOMAIN rules -> SUBSET Rows] /\ \A row \in mask : row \notin matched[r]
    BY <1>a, <1>b, RuleStepMasks
  <2>. QED
    BY <2>1, <2>2
<1>4. /\ counts \in [Workers -> [DOMAIN rules -> 0 .. NumRows]] /\ IsFiniteSet(Workers)
      /\ IsFiniteSet(Rows) /\ NumRows \in Nat /\ Cardinality(Rows) = NumRows
  BY RowsFacts DEF EvalInv, TypeOK, RuleEvalAssumption
<1>5. /\ \A q \in DOMAIN rules : CountsIn(counts, q) = Cardinality(matched[q])
      /\ any = UNION {matched[q] : q \in DOMAIN rules}
  BY DEF EvalInv, CountsSoFar
<1>6. rules' = rules
  BY <1>1 DEF rules
<1>. DEFINE k == Cardinality(mask)
            old == matched[r]
<1>7. k \in Nat /\ IsFiniteSet(mask) /\ IsFiniteSet(old) /\ Cardinality(old) \in Nat
  BY <1>2, <1>3, <1>4, FS_Subset, FS_CardinalityType
<1>8. Cardinality(matched'[r]) = Cardinality(old) + k /\ Cardinality(matched'[r]) <= NumRows
  <2>1. matched'[r] = old \cup mask /\ old \cap mask = {} /\ old \cup mask \subseteq Rows
    BY <1>2, <1>3
  <2>2. Cardinality(old \cup mask) = Cardinality(old) + Cardinality(mask) - Cardinality(old \cap mask)
    BY <1>7, FS_Union
  <2>3. Cardinality(old \cap mask) = 0
    BY <2>1, FS_EmptySet
  <2>4. Cardinality(old \cup mask) <= NumRows
    BY <1>4, <2>1, FS_Subset
  <2>. QED
    BY <1>7, <2>1, <2>2, <2>3, <2>4
<1>. HIDE DEF k, old
<1>9. counts' = [counts EXCEPT ![w][r] = @ + k]
  BY <1>1 DEF k
<1>10. /\ CountsIn(counts', r) = CountsIn(counts, r) + k
       /\ \A v \in Workers : counts'[v][r] <= CountsIn(counts', r)
  <2>1. \A v \in Workers : counts[v][r] \in Nat
    BY <1>2, <1>4
  <2>2. \A v \in Workers \ {w} : counts'[v][r] = counts[v][r]
    BY <1>4, <1>9
  <2>3. counts'[w][r] = counts[w][r] + k
    BY <1>2, <1>4, <1>9
  <2>. QED
    BY <1>4, <1>7, <2>1, <2>2, <2>3, CountsInStep
<1>11. CountsIn(counts', r) = Cardinality(matched'[r])
  BY <1>2, <1>5, <1>8, <1>10 DEF old
<1>12. ASSUME NEW q \in DOMAIN rules, q # r PROVE CountsIn(counts', q) = Cardinality(matched'[q])
  <2>. DEFINE f == [v \in Workers |-> counts[v][q]]
  <2>1. \A v \in Workers : f[v] = counts[v][q] /\ f[v] = counts'[v][q] /\ f[v] \in Int
    BY <1>4, <1>9, <1>12
  <2>. HIDE DEF f
  <2>2. CountsIn(counts', q) = CountsIn(counts, q)
    BY <1>4, <2>1, CountsInSum
  <2>3. matched'[q] = matched[q]
    BY <1>3, <1>12
  <2>. QED
    BY <1>5, <2>2, <2>3
<1>13. any' = UNION {matched'[q] : q \in DOMAIN rules}
  BY <1>1, <1>2, <1>3, <1>5
<1>14. CountsSoFar'
  BY <1>6, <1>11, <1>12, <1>13 DEF CountsSoFar
<1>15. \A v \in Workers : counts'[v][r] \in 0 .. NumRows
  <2>. SUFFICES ASSUME NEW v \in Workers PROVE counts'[v][r] \in 0 .. NumRows
    OBVIOUS
  <2>1. PICK n \in Nat : n = counts'[v][r]
    BY <1>2, <1>4, <1>7, <1>9
  <2>2. n <= Cardinality(matched'[r]) /\ Cardinality(matched'[r]) \in Nat
    BY <1>7, <1>8, <1>10, <1>11, <2>1
  <2>. QED
    BY <1>4, <1>8, <2>1, <2>2
<1>16. counts' \in [Workers -> [DOMAIN rules -> 0 .. NumRows]]
  BY <1>2, <1>4, <1>9, <1>15
<1>. QED
  BY <1>14, <1>16

\* ... and to the decisions.
LEMMA RuleStepDecisions ==
    ASSUME RuleEvalAssumption, EvalInv, NEW w \in Workers, EvaluateRule(w)
    PROVE  /\ DecisionsSoFar'
           /\ \A row \in Rows : best'[row].winner \in {NoRule} \cup DOMAIN rules
<1>1. PICK r : r = next[w]
  OBVIOUS
<1>2. PICK mask : mask = Evaluate(holds, rules[r].plan, RowsOfMorsel(job[w]))
  OBVIOUS
<1>3. /\ best' = [row \in Rows |-> IF row \in mask /\ ~rules[r].shadow
                                   THEN Reduced(ruleset, r, best[row])
                                   ELSE best[row]]
      /\ UNCHANGED ruleset
  BY <1>1, <1>2 DEF EvaluateRule
<1>4. /\ r \in DOMAIN rules /\ mask \subseteq Rows
      /\ \A row \in Rows :
            /\ row \in mask => ~Evaluated(r, row)
            /\ \A q \in DOMAIN rules : row \in mask /\ Evaluated(q, row) => q < r
  BY <1>1, <1>2, RuleStepRows
<1>5. /\ matched \in [DOMAIN rules -> SUBSET Rows]
      /\ matched[r] \cap mask = {} /\ matched' = [matched EXCEPT ![r] = @ \cup mask]
  <2>1. matched' = [matched EXCEPT ![r] = @ \cup mask]
    BY <1>1, <1>2 DEF EvaluateRule
  <2>2. matched \in [DOMAIN rules -> SUBSET Rows] /\ \A row \in mask : row \notin matched[r]
    BY <1>1, <1>2, RuleStepMasks
  <2>. QED
    BY <2>1, <2>2
<1>6. rules' = rules /\ ruleset \in Rulesets
  BY <1>3 DEF rules, EvalInv, TypeOK
<1>7. \A q \in DOMAIN rules : \A row \in Rows : row \in matched[q] => Evaluated(q, row)
  BY DEF EvalInv, MasksSoFar
<1>. DEFINE Reaches(q) == ActionRank(ruleset, rules[q]) >= ListedRank(ruleset, ruleset.default)
<1>8. ASSUME NEW row \in Rows
      PROVE  /\ Shape(best[row])' /\ DecisionSoFar(row)'
             /\ best'[row].winner \in {NoRule} \cup DOMAIN rules
  <2>. DEFINE b == best[row]
              C == Candidates(row)
  <2>1. Shape(b) /\ DecisionSoFar(row) /\ b.winner \in {NoRule} \cup DOMAIN rules
    BY DEF EvalInv, DecisionsSoFar, TypeOK
  <2>2. C \subseteq DOMAIN rules
    BY DEF Candidates
  <2>3. Candidates(row)' =
          IF row \in mask /\ ~rules[r].shadow /\ Reaches(r) THEN C \cup {r} ELSE C
    <3>. DEFINE Can(q, m) == ~rules[q].shadow /\ row \in m[q] /\ Reaches(q)
    <3>1. C = {q \in DOMAIN rules : Can(q, matched)}
      BY DEF Candidates
    <3>2. Candidates(row)' = {q \in DOMAIN rules : Can(q, matched')}
      BY <1>3, <1>6 DEF Candidates
    <3>3. \A q \in DOMAIN rules :
            Can(q, matched')
              <=> Can(q, matched) \/ (q = r /\ row \in mask /\ ~rules[r].shadow /\ Reaches(r))
      <4>. HIDE DEF Reaches
      <4>. QED
        BY <1>4, <1>5
    <3>. HIDE DEF Can, C
    <3>. QED
      BY <1>4, <3>1, <3>2, <3>3
  <2>4. \A q, p : Higher(q, p)' <=> Higher(q, p)
    BY <1>3, <1>6, Zenon DEF Higher
  <2>5. \A c, q : DecidedBy(c, q)' <=> DecidedBy(c, q)
    BY <1>3, <1>6, Zenon DEF DecidedBy
  <2>6. ASSUME NEW c, c = best'[row]
        PROVE  /\ Shape(c) => Shape(best[row])'
               /\ Candidates(row)' = {} /\ [c EXCEPT !.score = 0] = Undecided(ruleset)
                     => DecisionSoFar(row)'
               /\ \A q \in Candidates(row)' :
                     DecidedBy(c, q) /\ (\A p \in Candidates(row)' \ {q} : Higher(q, p))
                     => DecisionSoFar(row)'
    <3>1. Shape(c) => Shape(best[row])'
      BY <1>3, <2>6 DEF Shape
    <3>2. DecisionSoFar(row)' =
            IF Candidates(row)' = {}
            THEN [c EXCEPT !.score = 0] = Undecided(ruleset)
            ELSE \E q \in Candidates(row)' :
                    DecidedBy(c, q) /\ \A p \in Candidates(row)' \ {q} : Higher(q, p)
      BY <1>3, <1>6, <2>4, <2>6 DEF DecisionSoFar, DecidedBy
    <3>. QED
      BY <3>1, <3>2
  <2>7. CASE ~(row \in mask /\ ~rules[r].shadow)
    <3>1. best'[row] = b /\ Candidates(row)' = C
      BY <1>3, <2>3, <2>7
    <3>2. C = {} => [b EXCEPT !.score = 0] = Undecided(ruleset)
      BY <2>1 DEF DecisionSoFar
    <3>3. C # {} => \E q \in C : DecidedBy(b, q) /\ \A p \in C \ {q} : Higher(q, p)
      BY <2>1 DEF DecisionSoFar
    <3>. HIDE DEF b, C
    <3>. QED
      BY <2>1, <2>6, <3>1, <3>2, <3>3
  <2>8. CASE row \in mask /\ ~rules[r].shadow
    <3>1. PICK c : c = Reduced(ruleset, r, b)
      OBVIOUS
    <3>2. best'[row] = c
      BY <1>3, <2>8, <3>1
    <3>3. /\ Shape(c)
          /\ Wins(ruleset, rules[r], b) => DecidedBy(c, r)
          /\ ~Wins(ruleset, rules[r], b) =>
                /\ [c EXCEPT !.score = 0] = [b EXCEPT !.score = 0]
                /\ \A q : DecidedBy(b, q) => DecidedBy(c, q)
      BY <1>4, <1>6, <2>1, <3>1, ReducedIs
    <3>4. Candidates(row)' = IF Reaches(r) THEN C \cup {r} ELSE C
      BY <2>3, <2>8
    <3>5. \A q \in C : q \in DOMAIN rules /\ q < r
      <4>1. \A q \in C : q \in DOMAIN rules /\ row \in matched[q]
        BY DEF Candidates
      <4>. QED
        BY <1>4, <1>7, <2>8, <4>1
    <3>6. c.winner \in {NoRule} \cup DOMAIN rules
      <4>1. c.winner = IF Wins(ruleset, rules[r], b) THEN r ELSE b.winner
        BY <2>1, <3>1 DEF Reduced, Shape, Undecided, rules
      <4>. QED
        BY <1>4, <2>1, <4>1
    <3>7. DecisionSoFar(row)'
      <4>1. CASE C = {}
        <5>1. [b EXCEPT !.score = 0] = Undecided(ruleset)
          BY <2>1, <4>1 DEF DecisionSoFar
        <5>2. Wins(ruleset, rules[r], b) <=> Reaches(r)
          BY <1>4, <1>6, <2>1, <5>1, WinsOverDefault
        <5>3. CASE Reaches(r)
          <6>1. Candidates(row)' = {r} /\ DecidedBy(c, r)
            BY <3>3, <3>4, <4>1, <5>2, <5>3
          <6>. QED
            BY <2>6, <3>2, <6>1
        <5>4. CASE ~Reaches(r)
          <6>1. Candidates(row)' = {} /\ [c EXCEPT !.score = 0] = Undecided(ruleset)
            BY <3>3, <3>4, <4>1, <5>1, <5>2, <5>4
          <6>. QED
            BY <2>6, <3>2, <6>1
        <5>. QED
          BY <5>3, <5>4
      <4>2. CASE C # {}
        <5>1. PICK q \in C : DecidedBy(b, q) /\ \A p \in C \ {q} : Higher(q, p)
          BY <2>1, <4>2 DEF DecisionSoFar
        <5>2. q \in DOMAIN rules /\ q < r /\ C \subseteq DOMAIN rules
          BY <2>2, <3>5, <5>1
        <5>3. /\ Wins(ruleset, rules[r], b) => Higher(r, q)
              /\ ~Wins(ruleset, rules[r], b) => Higher(q, r)
          BY <1>4, <1>6, <5>1, <5>2, WinsOverRule
        <5>4. CASE Wins(ruleset, rules[r], b)
          <6>1. Higher(r, q) /\ DecidedBy(c, r)
            BY <3>3, <5>3, <5>4
          <6>2. Reaches(r)
            <7>1. Reaches(q)
              BY <5>1 DEF Candidates
            <7>2. ActionRank(ruleset, rules[r]) >= ActionRank(ruleset, rules[q])
              BY <1>4, <1>6, <5>2, <6>1, RankedBy DEF Higher
            <7>3. /\ ActionRank(ruleset, rules[r]) \in Int /\ ActionRank(ruleset, rules[q]) \in Int
                  /\ ListedRank(ruleset, ruleset.default) \in Int
              BY <1>4, <1>6, <5>2, RankedBy, ListedRankTyped
            <7>. QED
              BY <7>1, <7>2, <7>3
          <6>3. Candidates(row)' = C \cup {r}
            BY <3>4, <6>2
          <6>4. \A p \in Candidates(row)' \ {r} : Higher(r, p)
            <7>1. \A p \in C \ {q} : Higher(r, p)
              BY <1>4, <1>6, <5>1, <5>2, <6>1, HigherTransitive
            <7>. QED
              BY <6>1, <6>3, <7>1
          <6>. QED
            BY <2>6, <3>2, <6>1, <6>3, <6>4
        <5>5. CASE ~Wins(ruleset, rules[r], b)
          <6>1. Higher(q, r) /\ DecidedBy(c, q)
            BY <3>3, <5>1, <5>3, <5>5
          <6>2. q \in Candidates(row)' /\ \A p \in Candidates(row)' \ {q} : Higher(q, p)
            <7>. HIDE DEF Reaches, C
            <7>. QED
              BY <3>4, <5>1, <6>1
          <6>. QED
            BY <2>6, <3>2, <6>1, <6>2
        <5>. QED
          BY <5>4, <5>5
      <4>. QED
        BY <4>1, <4>2
    <3>. QED
      BY <2>6, <3>2, <3>3, <3>6, <3>7
  <2>. QED
    BY <2>7, <2>8
<1>. QED
  BY <1>8 DEF DecisionsSoFar

\* A worker evaluates a rule.
LEMMA EvaluateRuleKeeps ==
    ASSUME RuleEvalAssumption, EvalInv, NEW w \in Workers, EvaluateRule(w)
    PROVE  EvalInv'
<1>1. PICK r : r = next[w]
  OBVIOUS
<1>2. PICK mask : mask = Evaluate(holds, rules[r].plan, RowsOfMorsel(job[w]))
  OBVIOUS
<1>3. /\ job[w] # Idle /\ next[w] <= Len(rules) /\ next' = [next EXCEPT ![w] = @ + 1]
      /\ any' = any \cup mask /\ UNCHANGED <<ruleset, holds, left, job, phase>>
  BY <1>1, <1>2 DEF EvaluateRule
<1>4. r \in DOMAIN rules /\ mask \subseteq Rows
  BY <1>1, <1>2, RuleStepRows
<1>5. /\ matched \in [DOMAIN rules -> SUBSET Rows]
      /\ matched' = [matched EXCEPT ![r] = @ \cup mask] /\ MasksSoFar'
  <2>1. matched' = [matched EXCEPT ![r] = @ \cup mask]
    BY <1>1, <1>2 DEF EvaluateRule
  <2>2. matched \in [DOMAIN rules -> SUBSET Rows] /\ MasksSoFar'
    BY <1>1, <1>2, RuleStepMasks
  <2>. QED
    BY <2>1, <2>2
<1>6. rules' = rules /\ Len(rules) \in Nat
  BY <1>3, RulesAre DEF rules, EvalInv, TypeOK
<1>7. CountsSoFar' /\ counts' \in [Workers -> [DOMAIN rules -> 0 .. NumRows]]
  BY RuleStepCounts
<1>8. DecisionsSoFar' /\ \A row \in Rows : best'[row].winner \in {NoRule} \cup DOMAIN rules
  BY RuleStepDecisions
<1>9. TypeOK'
  <2>1. next' \in [Workers -> 1 .. Len(rules) + 1]
    BY <1>3, <1>6 DEF EvalInv, TypeOK
  <2>2. matched' \in [DOMAIN rules -> SUBSET Rows] /\ any' \subseteq Rows
    BY <1>3, <1>4, <1>5 DEF EvalInv, TypeOK
  <2>. QED
    BY <1>3, <1>6, <1>7, <1>8, <2>1, <2>2 DEF EvalInv, TypeOK
<1>10. JobsApart' /\ DoneAtLast'
  BY <1>3 DEF EvalInv, JobsApart, DoneAtLast
<1>. QED
  BY <1>5, <1>7, <1>8, <1>9, <1>10 DEF EvalInv

-----------------------------------------------------------------------------
(* The theorems.                                                           *)

\* The inductive invariant holds in every state of every batch, whatever the
\* plans, the morsels and the workers: masks, counts and decisions are at all
\* times those of the rules evaluated so far.
THEOREM EvalInvariant == Spec => []EvalInv
<1>1. Init => EvalInv
  BY RuleEvalAssumption, InitEval
<1>2. EvalInv /\ [Next]_vars => EvalInv'
  <2>. SUFFICES ASSUME EvalInv, [Next]_vars PROVE EvalInv'
    OBVIOUS
  <2>1. ASSUME NEW w \in Workers, Claim(w) PROVE EvalInv'
    BY <2>1, RuleEvalAssumption, ClaimKeeps
  <2>2. ASSUME NEW w \in Workers, EvaluateRule(w) PROVE EvalInv'
    BY <2>2, RuleEvalAssumption, EvaluateRuleKeeps
  <2>3. ASSUME NEW w \in Workers, Release(w) PROVE EvalInv'
    BY <2>3, RuleEvalAssumption, ReleaseKeeps
  <2>4. CASE Assemble
    BY <2>4, RuleEvalAssumption, AssembleKeeps
  <2>5. CASE UNCHANGED vars
    BY <2>5, NothingKeeps
  <2>. QED
    BY <2>1, <2>2, <2>3, <2>4, <2>5 DEF Next, Finished
<1>. QED
  BY <1>1, <1>2, PTL DEF Spec

\* Every variable keeps its type: no count exceeds the rows of the batch, no mask
\* leaves them, and a decision names a rule of the ruleset or none.
THEOREM EvalTypeCorrect == Spec => []TypeOK
<1>1. EvalInv => TypeOK
  BY DEF EvalInv
<1>. QED
  BY <1>1, EvalInvariant, PTL

\* No two workers evaluate the same morsel.
THEOREM MorselsApart == Spec => []JobsApart
<1>1. EvalInv => JobsApart
  BY DEF EvalInv
<1>. QED
  BY <1>1, EvalInvariant, PTL

\* The counts the workers kept apart add up to the masks, and the union of the
\* masks is the set of rows that matched, however the morsels were shared.
THEOREM CountsCorrect == Spec => []CountsAgree
<1>1. EvalInv => CountsAgree
  BY DEF EvalInv, CountsSoFar, CountsAgree, CountsIn
<1>. QED
  BY <1>1, EvalInvariant, PTL

\* The decision of a row is at all times that of the highest rule whose mask has
\* the row, whatever the plans: the order in which morsels and rules are evaluated
\* does not show.
THEOREM DecisionsCorrect == Spec => []DecisionsFollowMasks
<1>1. EvalInv => DecisionsFollowMasks
  BY DEF EvalInv, DecisionsSoFar, DecisionsFollowMasks
<1>. QED
  BY <1>1, EvalInvariant, PTL

\* When the batch is done, every rule has been evaluated on every row.
LEMMA DoneIsEvaluated ==
    ASSUME RuleEvalAssumption, EvalInv, phase = "done"
    PROVE  \A r \in DOMAIN rules : \A row \in Rows : Evaluated(r, row)
<1>1. left = {} /\ \A w \in Workers : job[w] = Idle
  BY DEF EvalInv, DoneAtLast
<1>2. \A row \in Rows : row \div MorselRows # Idle
  BY RowsFacts
<1>. QED
  BY <1>1, <1>2 DEF Evaluated

\* With straight plans, what the evaluation selects is what the condition means.
LEMMA StraightHits ==
    ASSUME RuleEvalAssumption, EvalInv, StraightPlans
    PROVE  \A r \in DOMAIN rules : \A row \in Rows : Hits(r, row) <=> Selected(r, row)
<1>. SUFFICES ASSUME NEW r \in DOMAIN rules, NEW row \in Rows
              PROVE  Hits(r, row) <=> Selected(r, row)
  OBVIOUS
<1>1. ruleset \in Rulesets /\ holds \in [Predicates -> SUBSET Rows]
  BY DEF EvalInv, TypeOK
<1>2. IsPlan(rules[r].plan) /\ Straight(rules[r].plan)
  BY <1>1, RulesAre DEF StraightPlans, rules
<1>3. RowsOfMorsel(row \div MorselRows) \subseteq Rows
  BY RowsFacts
<1>4. Evaluate(holds, rules[r].plan, RowsOfMorsel(row \div MorselRows))
        = Meaning(holds, rules[r].plan, RowsOfMorsel(row \div MorselRows))
  BY <1>1, <1>2, <1>3, StraightMeans
<1>. QED
  BY <1>4 DEF Hits, Selected

\* ... so the masks at the end are the meanings.
LEMMA StraightMasks ==
    ASSUME RuleEvalAssumption, EvalInv, StraightPlans, phase = "done"
    PROVE  \A r \in DOMAIN rules : matched[r] = {row \in Rows : Selected(r, row)}
<1>. SUFFICES ASSUME NEW r \in DOMAIN rules
              PROVE  matched[r] = {row \in Rows : Selected(r, row)}
  OBVIOUS
<1>1. matched[r] = {row \in Rows : Evaluated(r, row) /\ Hits(r, row)}
  BY DEF EvalInv, MasksSoFar
<1>2. \A row \in Rows : Evaluated(r, row) /\ Hits(r, row) <=> Selected(r, row)
  BY DoneIsEvaluated, StraightHits
<1>. QED
  BY <1>1, <1>2

\* Where no AND lies below another (or selection vectors are off) and no AND is
\* empty, the mask of a rule is the Boolean meaning of its condition on every row,
\* cut into morsels or not and whichever path an AND takes.
THEOREM MasksCorrect ==
    ASSUME StraightPlans
    PROVE  Spec => []MasksAreMeanings
<1>1. EvalInv => MasksAreMeanings
  BY RuleEvalAssumption, StraightMasks DEF MasksAreMeanings
<1>. QED
  BY <1>1, EvalInvariant, PTL

\* ... and the decision of a row is that of its highest matching rule by rank,
\* severity, priority and order of the file, or the default.
THEOREM WinnerCorrect ==
    ASSUME StraightPlans
    PROVE  Spec => []WinnerIsHighest
<1>1. ASSUME EvalInv, phase = "done", NEW row \in Rows
      PROVE  IF Eligible(row) = {}
             THEN best[row].label = ruleset.default
             ELSE /\ best[row].winner \in Eligible(row)
                  /\ best[row].label = rules[best[row].winner].label
                  /\ \A r \in Eligible(row) \ {best[row].winner} : Higher(best[row].winner, r)
  <2>1. Eligible(row) = Candidates(row)
    <3>1. \A r \in DOMAIN rules : row \in matched[r] <=> Selected(r, row)
      BY <1>1, RuleEvalAssumption, StraightMasks
    <3>. QED
      BY <3>1 DEF Eligible, Deciding, Candidates
  <2>2. Shape(best[row]) /\ DecisionSoFar(row)
    BY <1>1 DEF EvalInv, DecisionsSoFar
  <2>3. CASE Candidates(row) = {}
    <3>1. [best[row] EXCEPT !.score = 0] = Undecided(ruleset)
      BY <2>2, <2>3 DEF DecisionSoFar
    <3>2. best[row].label = ruleset.default
      BY <2>2, <3>1 DEF Shape, Undecided
    <3>. QED
      BY <2>1, <2>3, <3>2
  <2>4. CASE Candidates(row) # {}
    <3>1. PICK q \in Candidates(row) :
            DecidedBy(best[row], q) /\ \A r \in Candidates(row) \ {q} : Higher(q, r)
      BY <2>2, <2>4 DEF DecisionSoFar
    <3>2. best[row].winner = q /\ best[row].label = rules[q].label
      BY <3>1 DEF DecidedBy
    <3>. QED
      BY <2>1, <2>4, <3>1, <3>2
  <2>. QED
    BY <2>3, <2>4
<1>2. EvalInv => WinnerIsHighest
  BY <1>1 DEF WinnerIsHighest
<1>. QED
  BY <1>2, EvalInvariant, PTL
=============================================================================
