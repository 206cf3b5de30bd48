------------------------- MODULE CategoricalProofs -------------------------
(***************************************************************************)
(* Proofs about Categorical, for any fields, texts, rules, batches and     *)
(* capacities: the codes of the closed values and of the dictionary agree  *)
(* however the dictionary grew, and a rule whose texts have codes decides  *)
(* a row by its texts on every lane.                                       *)
(***************************************************************************)
EXTENDS CategoricalInv, FoldTheorems

-----------------------------------------------------------------------------
(* The dictionary of a column grows.                                       *)

\* e continues d.
Extends(d, e) == Len(d) <= Len(e) /\ \A i \in DOMAIN d : e[i] = d[i]

\* A sequence of distinct texts, and one with a new text at its end.
LEMMA DistinctFacts ==
    ASSUME NEW T, NEW d \in Distinct(T)
    PROVE  /\ d \in Seq(T) /\ Len(d) \in Nat /\ DOMAIN d = 1 .. Len(d) /\ IsInjective(d)
           /\ \A i \in DOMAIN d : d[i] \in T /\ d[i] \in ToSet(d)
           /\ Extends(d, d)
BY DEF Distinct, ToSet, Extends

LEMMA AppendDistinct ==
    ASSUME NEW T, NEW d \in Distinct(T), NEW v \in T, v \notin ToSet(d)
    PROVE  /\ Append(d, v) \in Distinct(T) /\ Extends(d, Append(d, v))
           /\ Len(Append(d, v)) = Len(d) + 1 /\ Append(d, v)[Len(d) + 1] = v
<1>1. d \in Seq(T) /\ Len(d) \in Nat /\ DOMAIN d = 1 .. Len(d) /\ IsInjective(d)
  BY DistinctFacts
<1>2. PICK e : e = Append(d, v)
  OBVIOUS
<1>3. /\ e \in Seq(T) /\ Len(e) = Len(d) + 1 /\ DOMAIN e = 1 .. Len(d) + 1
      /\ \A i \in 1 .. Len(d) : e[i] = d[i]
      /\ e[Len(d) + 1] = v
  BY <1>1, <1>2
<1>4. \A i \in 1 .. Len(d) : d[i] # v
  BY <1>1 DEF ToSet
<1>5. IsInjective(e)
  BY <1>1, <1>3, <1>4 DEF IsInjective
<1>. QED
  BY <1>1, <1>2, <1>3, <1>5 DEF Distinct, Extends

\* What get_or_create does.
LEMMA AddedIs ==
    ASSUME Capacity \in Nat, NEW T, NEW f, NEW d \in Distinct(T), NEW v \in T
    PROVE  LET e == Added(f, d, v)
           IN /\ e \in Distinct(T) /\ Extends(d, e)
              /\ Full(f, d) => e = d
              /\ (~Full(f, d) /\ v \notin ToSet(d)) => e = Append(d, v)
              /\ (Kind[f] = "CATEGORICAL" => Len(d) <= Capacity)
                    => (Kind[f] = "CATEGORICAL" => Len(e) <= Capacity)
<1>1. Len(d) \in Nat /\ Extends(d, d)
  BY DistinctFacts
<1>2. CASE v \in ToSet(d) \/ Full(f, d)
  BY <1>1, <1>2 DEF Added, Full
<1>3. CASE v \notin ToSet(d) /\ ~Full(f, d)
  <2>1. Added(f, d, v) = Append(d, v)
    BY <1>3 DEF Added, Full
  <2>2. Kind[f] = "CATEGORICAL" => Len(d) + 1 <= Capacity
    BY <1>1, <1>3 DEF Full
  <2>. QED
    BY <1>3, <2>1, <2>2, AppendDistinct
<1>. QED
  BY <1>2, <1>3

AddStep(f, vs, T) == [k \in 1 .. Len(vs) |-> [d \in Distinct(T) |-> Added(f, d, vs[k])]]

\* encode_batch adds the texts one by one.
LEMMA AddedAllPath ==
    ASSUME Capacity \in Nat, NEW T, NEW f, NEW d \in Distinct(T), NEW vs \in Seq(T)
    PROVE  \E path : /\ Path(path, Len(vs), Distinct(T), d, AddStep(f, vs, T))
                     /\ AddedAll(f, d, vs) = path[Len(vs)]
<1>. DEFINE value(g, s) == IF s = {} THEN d ELSE Added(f, g[s \ {Max(s)}], vs[Max(s)])
            step == AddStep(f, vs, T)
            Acc == Distinct(T)
<1>1. PICK N \in Nat : N = Len(vs) /\ DOMAIN vs = 1 .. N /\ \A k \in 1 .. N : vs[k] \in T
  OBVIOUS
<1>2. step \in [1 .. N -> [Acc -> Acc]]
  BY <1>1, AddedIs DEF AddStep
<1>3. \A k \in 1 .. N, a \in Acc : step[k][a] = Added(f, a, vs[k])
  BY <1>1 DEF AddStep
<1>4. PICK h \in [SUBSET (1 .. N) -> Acc] : FoldsInOrder(h, N, d, step)
  <2>. HIDE DEF step, Acc
  <2>. QED
    BY <1>2, SequenceFoldExists DEF Acc
<1>5. h = [s \in SUBSET (1 .. N) |-> value(h, s)]
  <2>1. ASSUME NEW s \in SUBSET (1 .. N) PROVE h[s] = value(h, s)
    <3>1. s # {} => Max(s) \in 1 .. N /\ h[s \ {Max(s)}] \in Acc
      BY LastIn
    <3>. HIDE DEF step, Acc
    <3>. QED
      BY <1>3, <1>4, <3>1 DEF FoldsInOrder
  <2>. HIDE DEF value
  <2>. QED
    BY <2>1
<1>. DEFINE iter == CHOOSE g : g = [s \in SUBSET (1 .. N) |-> value(g, s)]
<1>6. iter = [s \in SUBSET (1 .. N) |-> value(iter, s)]
  <2>. HIDE DEF value
  <2>. QED
    BY <1>5
<1>7. AddedAll(f, d, vs) = iter[1 .. N]
  BY <1>1 DEF AddedAll, FoldLeft, MapThenFoldSet
<1>. HIDE DEF iter
<1>8. iter[{}] = d
  BY <1>6
<1>9. ASSUME NEW k \in 1 .. N, iter[1 .. k - 1] \in Acc
      PROVE  iter[1 .. k] = step[k][iter[1 .. k - 1]]
  <2>1. Max(1 .. k) = k /\ (1 .. k) \ {k} = 1 .. k - 1 /\ 1 .. k # {}
    <3>1. k \in Nat \ {0}
      OBVIOUS
    <3>. QED
      BY <3>1, LastOfPrefix, Zenon
  <2>2. iter[1 .. k] = value(iter, 1 .. k)
    <3>1. 1 .. k \in SUBSET (1 .. N)
      OBVIOUS
    <3>. HIDE DEF value
    <3>. QED
      BY <1>6, <3>1
  <2>3. value(iter, 1 .. k) = Added(f, iter[1 .. k - 1], vs[k])
    BY <2>1
  <2>. HIDE DEF step, value, Acc
  <2>. QED
    BY <1>3, <1>9, <2>2, <2>3
<1>10. \E path : Path(path, N, Acc, d, step) /\ iter[1 .. N] = path[N]
  <2>. HIDE DEF step
  <2>1. StepsInOrder(iter, N, Acc, d, step)
    BY <1>8, <1>9 DEF StepsInOrder
  <2>. QED
    BY <1>2, <2>1, FoldPath, SMTT(30)
<1>. QED
  BY <1>1, <1>7, <1>10

\* What it leaves: the codes given stay, and a full dictionary stays as it is.
LEMMA AddedAllIs ==
    ASSUME Capacity \in Nat, NEW T, NEW f, NEW d \in Distinct(T), NEW vs \in Seq(T),
           Kind[f] = "CATEGORICAL" => Len(d) <= Capacity
    PROVE  LET e == AddedAll(f, d, vs)
           IN /\ e \in Distinct(T) /\ Extends(d, e)
              /\ Full(f, d) => e = d
              /\ Kind[f] = "CATEGORICAL" => Len(e) <= Capacity
<1>1. PICK N \in Nat : N = Len(vs) /\ \A k \in 1 .. N : vs[k] \in T
  OBVIOUS
<1>2. PICK path : Path(path, N, Distinct(T), d, AddStep(f, vs, T)) /\ AddedAll(f, d, vs) = path[N]
  BY <1>1, AddedAllPath
<1>. DEFINE Grown == {e \in Distinct(T) : /\ Extends(d, e)
                                          /\ Full(f, d) => e = d
                                          /\ Kind[f] = "CATEGORICAL" => Len(e) <= Capacity}
            Kept == [k \in 0 .. N |-> Grown]
<1>3. d \in Kept[0]
  BY <1>1, DistinctFacts
<1>4. ASSUME NEW k \in 1 .. N, NEW a \in Distinct(T) \cap Kept[k - 1]
      PROVE  AddStep(f, vs, T)[k][a] \in Kept[k]
  <2>1. a \in Grown /\ vs[k] \in T /\ AddStep(f, vs, T)[k][a] = Added(f, a, vs[k])
    BY <1>1 DEF AddStep
  <2>2. PICK e : e = Added(f, a, vs[k])
    OBVIOUS
  <2>3. /\ e \in Distinct(T) /\ Extends(a, e) /\ (Full(f, a) => e = a)
        /\ Kind[f] = "CATEGORICAL" => Len(e) <= Capacity
    BY <2>1, <2>2, AddedIs
  <2>4. /\ Len(a) \in Nat /\ Len(d) \in Nat /\ Len(e) \in Nat
        /\ DOMAIN a = 1 .. Len(a) /\ DOMAIN d = 1 .. Len(d)
    BY <2>3, DistinctFacts
  <2>5. Extends(d, e)
    BY <2>1, <2>3, <2>4 DEF Extends
  <2>6. Full(f, d) => e = d
    BY <2>1, <2>3
  <2>. QED
    BY <2>1, <2>2, <2>3, <2>5, <2>6
<1>5. \A k \in 0 .. N : path[k] \in Distinct(T) \cap Kept[k]
  <2>. HIDE DEF Kept
  <2>. QED
    BY <1>2, <1>3, <1>4, PathKeeps
<1>. QED
  BY <1>2, <1>5

\* A dictionary that starts with the closed values begins with them.
LEMMA FreshIs ==
    ASSUME Capacity \in Nat, NEW T, NEW f, NEW c \in Distinct(T)
    PROVE  LET e == AddedAll(f, <<>>, c)
           IN /\ e \in Distinct(T) /\ Coherent(f, c, e)
              /\ Kind[f] = "CATEGORICAL" => Len(e) <= Capacity
<1>1. PICK N \in Nat : N = Len(c) /\ DOMAIN c = 1 .. N /\ \A k \in 1 .. N : c[k] \in T
  BY DistinctFacts
<1>2. <<>> \in Distinct(T) /\ c \in Seq(T) /\ IsInjective(c) /\ Len(<<>>) = 0
  BY DEF Distinct, IsInjective
<1>3. PICK path : Path(path, N, Distinct(T), <<>>, AddStep(f, c, T)) /\ AddedAll(f, <<>>, c) = path[N]
  BY <1>1, <1>2, AddedAllPath
<1>. DEFINE Begun(k) == {e \in Distinct(T) :
                            /\ Len(e) <= k /\ \A i \in 1 .. Len(e) : e[i] = c[i]
                            /\ Len(e) = k \/ Full(f, e)}
            Kept == [k \in 0 .. N |-> Begun(k)]
<1>4. <<>> \in Kept[0]
  BY <1>1, <1>2
<1>5. ASSUME NEW k \in 1 .. N, NEW a \in Distinct(T) \cap Kept[k - 1]
      PROVE  AddStep(f, c, T)[k][a] \in Kept[k]
  <2>1. a \in Begun(k - 1) /\ c[k] \in T /\ AddStep(f, c, T)[k][a] = Added(f, a, c[k])
    BY <1>1 DEF AddStep
  <2>2. Len(a) \in Nat /\ DOMAIN a = 1 .. Len(a)
    BY DistinctFacts
  <2>3. CASE Full(f, a)
    <3>1. Added(f, a, c[k]) = a
      BY <2>1, <2>3, AddedIs
    <3>. QED
      BY <2>1, <2>2, <2>3, <3>1
  <2>4. CASE ~Full(f, a)
    <3>1. Len(a) = k - 1
      BY <2>1, <2>4
    <3>2. c[k] \notin ToSet(a)
      <4>1. \A i \in 1 .. k - 1 : a[i] = c[i] /\ c[i] # c[k]
        BY <1>1, <1>2, <2>1, <3>1 DEF IsInjective
      <4>. QED
        BY <2>2, <3>1, <4>1 DEF ToSet
    <3>3. PICK e : e = Added(f, a, c[k])
      OBVIOUS
    <3>4. e = Append(a, c[k])
      BY <2>1, <2>4, <3>2, <3>3, AddedIs
    <3>5. /\ e \in Distinct(T) /\ Extends(a, e)
          /\ Len(e) = k /\ e[k] = c[k]
      <4>1. Len(a) + 1 = k
        BY <3>1
      <4>. QED
        BY <2>1, <3>2, <3>4, <4>1, AppendDistinct
    <3>6. \A i \in 1 .. k : e[i] = c[i]
      BY <2>1, <2>2, <3>1, <3>5 DEF Extends
    <3>. QED
      BY <2>1, <3>3, <3>5, <3>6
  <2>. QED
    BY <2>3, <2>4
<1>6. \A k \in 0 .. N : path[k] \in Distinct(T) \cap Kept[k]
  <2>. HIDE DEF Kept
  <2>. QED
    BY <1>2, <1>3, <1>4, <1>5, PathKeeps
<1>7. PICK e : e = AddedAll(f, <<>>, c)
  OBVIOUS
<1>8. e \in Begun(N)
  BY <1>3, <1>6, <1>7
<1>9. Kind[f] = "CATEGORICAL" => Len(e) <= Capacity
  <2>1. Kind[f] = "CATEGORICAL" => Len(<<>>) <= Capacity
    BY <1>2
  <2>. QED
    BY <1>2, <1>7, <2>1, AddedAllIs
<1>10. Coherent(f, c, e)
  <2>1. Len(e) \in Nat /\ DOMAIN e = 1 .. Len(e)
    BY <1>8, DistinctFacts
  <2>. QED
    BY <1>1, <1>8, <2>1 DEF Coherent
<1>. QED
  BY <1>7, <1>8, <1>9, <1>10

\* What is added later leaves it so.
LEMMA CoherentKept ==
    ASSUME NEW T, NEW f, NEW c \in Distinct(T), NEW S, NEW d \in Distinct(S), NEW e \in Distinct(S),
           Coherent(f, c, d), Extends(d, e), Full(f, d) => e = d
    PROVE  Coherent(f, c, e)
<1>1. /\ Len(c) \in Nat /\ DOMAIN c = 1 .. Len(c)
      /\ Len(d) \in Nat /\ DOMAIN d = 1 .. Len(d)
      /\ Len(e) \in Nat /\ DOMAIN e = 1 .. Len(e)
  BY DistinctFacts
<1>2. CASE Full(f, d)
  BY <1>2
<1>3. CASE Len(c) <= Len(d)
  BY <1>1, <1>3 DEF Coherent, Extends
<1>. QED
  BY <1>2, <1>3 DEF Coherent

-----------------------------------------------------------------------------
(* The values that the rules and the rows bring.                           *)

\* A sequence of sequences, one after the other.
LEMMA FlattenTyped ==
    ASSUME NEW T, NEW ss \in Seq(Seq(T))
    PROVE  FlattenSeq(ss) \in Seq(T)
<1>1. PICK n \in Nat : n = Len(ss) /\ DOMAIN ss = 1 .. n /\ \A i \in 1 .. n : ss[i] \in Seq(T)
  OBVIOUS
<1>2. CASE n = 0
  <2>1. ss = <<>>
    BY <1>1, <1>2
  <2>2. <<>> \in Seq(T)
    OBVIOUS
  <2>. QED
    BY <1>1, <1>2, <2>1, <2>2 DEF FlattenSeq
<1>3. CASE n # 0
  <2>. DEFINE value(g, i) == IF i = 1 THEN ss[i] ELSE g[i - 1] \o ss[i]
              step == [i \in 1 .. n |-> [g \in [1 .. i - 1 -> Seq(T)] |-> value(g, i)]]
  <2>1. Recursion(step, n, Seq(T))
    <3>1. ASSUME NEW i \in 1 .. n, NEW g \in [1 .. i - 1 -> Seq(T)]
          PROVE  value(g, i) \in Seq(T)
      <4>1. CASE i = 1
        BY <1>1, <4>1
      <4>2. CASE i # 1
        <5>1. g[i - 1] \in Seq(T) /\ ss[i] \in Seq(T)
          BY <1>1, <4>2
        <5>. QED
          BY <4>2, <5>1
      <4>. QED
        BY <4>1, <4>2
    <3>. HIDE DEF value
    <3>. QED
      BY <3>1 DEF Recursion
  <2>2. PICK h \in [1 .. n -> Seq(T)] : ByRecursion(h, n, step)
    <3>. HIDE DEF step
    <3>. QED
      BY <2>1, RecursionExists
  <2>3. \A i \in 1 .. n : h[i] = value(h, i)
    <3>1. ASSUME NEW i \in 1 .. n PROVE h[i] = value(h, i)
      <4>1. Below(h, i) \in [1 .. i - 1 -> Seq(T)]
        BY DEF Below
      <4>2. h[i] = step[i][Below(h, i)]
        BY <2>2 DEF ByRecursion
      <4>3. step[i][Below(h, i)] = value(Below(h, i), i)
        BY <4>1
      <4>4. i # 1 => Below(h, i)[i - 1] = h[i - 1]
        BY DEF Below
      <4>. QED
        BY <4>2, <4>3, <4>4
    <3>. QED
      BY <3>1
  <2>4. h = [i \in 1 .. n |-> value(h, i)]
    <3>. HIDE DEF value
    <3>. QED
      BY <2>3
  <2>. DEFINE flatten == CHOOSE g : g = [i \in 1 .. n |-> value(g, i)]
  <2>5. flatten = [i \in 1 .. n |-> value(flatten, i)]
    <3>. HIDE DEF value
    <3>. QED
      BY <2>4
  <2>6. FlattenSeq(ss) = flatten[n]
    BY <1>1, <1>3 DEF FlattenSeq
  <2>. HIDE DEF flatten
  <2>7. \A k \in Nat : k \in {j \in Nat : j \in 1 .. n => flatten[j] \in Seq(T)}
    <3>. DEFINE Good == {j \in Nat : j \in 1 .. n => flatten[j] \in Seq(T)}
    <3>1. ASSUME NEW k \in Nat, \A m \in 0 .. k - 1 : m \in Good
          PROVE  k \in Good
      <4>1. SUFFICES ASSUME k \in 1 .. n PROVE flatten[k] \in Seq(T)
        OBVIOUS
      <4>2. flatten[k] = value(flatten, k)
        <5>. HIDE DEF value
        <5>. QED
          BY <2>5, <4>1
      <4>3. CASE k = 1
        BY <1>1, <4>1, <4>2, <4>3
      <4>4. CASE k # 1
        <5>1. flatten[k - 1] \in Seq(T)
          BY <3>1, <4>1, <4>4
        <5>2. ss[k] \in Seq(T)
          BY <1>1, <4>1
        <5>. QED
          BY <4>2, <4>4, <5>1, <5>2
      <4>. QED
        BY <4>3, <4>4
    <3>. HIDE DEF Good
    <3>2. \A k \in Nat : k \in Good
      BY <3>1, NumberInduction
    <3>. QED
      BY <3>2 DEF Good
  <2>8. n \in 1 .. n
    BY <1>3
  <2>. QED
    BY <2>6, <2>7, <2>8
<1>. QED
  BY <1>2, <1>3

\* A ruleset and its predicates.
LEMMA RulesetFacts ==
    ASSUME CategoricalAssumption, NEW rs \in Rulesets \cup {NoRules}
    PROVE  /\ Len(rs.predicates) \in Nat /\ DOMAIN rs.predicates = 1 .. Len(rs.predicates)
           /\ rs.synthetic \in BOOLEAN
           /\ \A k \in DOMAIN rs.predicates : rs \in Rulesets /\ IsPredicate(rs.predicates[k])
<1>1. CASE rs = NoRules
  <2>1. rs.predicates = <<>> /\ rs.synthetic = FALSE
    BY <1>1 DEF NoRules
  <2>2. Len(<<>>) = 0 /\ DOMAIN <<>> = 1 .. 0 /\ 1 .. 0 = {}
    OBVIOUS
  <2>3. \A k \in DOMAIN rs.predicates : FALSE
    BY <2>1, <2>2
  <2>4. Len(rs.predicates) \in Nat /\ DOMAIN rs.predicates = 1 .. Len(rs.predicates)
    BY <2>1, <2>2
  <2>. QED
    BY <2>1, <2>3, <2>4
<1>2. CASE rs \in Rulesets
  <2>1. rs.predicates \in Seq(ToSet(rs.predicates)) /\ rs.synthetic \in BOOLEAN
    BY <1>2 DEF CategoricalAssumption
  <2>2. PICK S : S = ToSet(rs.predicates)
    OBVIOUS
  <2>3. rs.predicates \in Seq(S)
    BY <2>1, <2>2
  <2>4. Len(rs.predicates) \in Nat /\ DOMAIN rs.predicates = 1 .. Len(rs.predicates)
    BY <2>3
  <2>. QED
    BY <1>2, <2>1, <2>4 DEF CategoricalAssumption
<1>. QED
  BY <1>1, <1>2

LEMMA ValuesTyped ==
    ASSUME CategoricalAssumption, NEW rs \in Rulesets \cup {NoRules}, NEW ops, NEW f
    PROVE  ValuesOf(ops, f, rs) \in Seq(Texts)
<1>. DEFINE of(k) == LET p == rs.predicates[k]
                     IN IF p.op \in ops /\ p.field = f THEN p.values ELSE <<>>
<1>1. PICK n \in Nat : DOMAIN rs.predicates = 1 .. n
  BY RulesetFacts
<1>2. \A k \in 1 .. n : of(k) \in Seq(Texts)
  <2>1. ASSUME NEW k \in 1 .. n PROVE of(k) \in Seq(Texts)
    <3>1. rs.predicates[k].values \in Seq(Texts)
      BY <1>1, RulesetFacts DEF IsPredicate
    <3>. QED
      BY <3>1
  <2>. QED
    BY <2>1
<1>3. PICK ss : ss = [k \in DOMAIN rs.predicates |-> of(k)]
  OBVIOUS
<1>4. ss \in Seq(Seq(Texts))
  <2>. HIDE DEF of
  <2>. QED
    BY <1>1, <1>2, <1>3
<1>5. ValuesOf(ops, f, rs) = FlattenSeq(ss)
  BY <1>3 DEF ValuesOf
<1>. QED
  BY <1>4, <1>5, FlattenTyped

OnceStep(s, T) ==
    [k \in 1 .. Len(s) |-> [acc \in Distinct(T) |->
        IF s[k] \in ToSet(acc) THEN acc ELSE Append(acc, s[k])]]

\* The values of a field, each once.
LEMMA WithoutRepeatsTyped ==
    ASSUME NEW T, NEW s \in Seq(T)
    PROVE  WithoutRepeats(s) \in Distinct(T)
<1>. DEFINE put(acc, v) == IF v \in ToSet(acc) THEN acc ELSE Append(acc, v)
            value(g, t) == IF t = {} THEN <<>> ELSE put(g[t \ {Max(t)}], s[Max(t)])
            step == OnceStep(s, T)
            Acc == Distinct(T)
<1>1. PICK N \in Nat : N = Len(s) /\ DOMAIN s = 1 .. N /\ \A k \in 1 .. N : s[k] \in T
  OBVIOUS
<1>2. step \in [1 .. N -> [Acc -> Acc]]
  <2>1. ASSUME NEW k \in 1 .. N, NEW acc \in Acc PROVE put(acc, s[k]) \in Acc
    <3>1. s[k] \in T
      BY <1>1
    <3>. QED
      BY <3>1, AppendDistinct
  <2>2. step = [k \in 1 .. N |-> [acc \in Acc |-> put(acc, s[k])]]
    BY <1>1 DEF OnceStep
  <2>. HIDE DEF put, step, Acc
  <2>. QED
    BY <2>1, <2>2
<1>3. \A k \in 1 .. N, a \in Acc : step[k][a] = put(a, s[k])
  BY <1>1 DEF OnceStep
<1>4. <<>> \in Acc
  BY DEF Distinct, IsInjective
<1>5. PICK h \in [SUBSET (1 .. N) -> Acc] : FoldsInOrder(h, N, <<>>, step)
  <2>. HIDE DEF step, Acc
  <2>. QED
    BY <1>2, <1>4, SequenceFoldExists
<1>6. h = [t \in SUBSET (1 .. N) |-> value(h, t)]
  <2>1. ASSUME NEW t \in SUBSET (1 .. N) PROVE h[t] = value(h, t)
    <3>1. t # {} => Max(t) \in 1 .. N /\ h[t \ {Max(t)}] \in Acc
      BY LastIn
    <3>. HIDE DEF step, Acc, put
    <3>. QED
      BY <1>3, <1>5, <3>1 DEF FoldsInOrder
  <2>. HIDE DEF value
  <2>. QED
    BY <2>1
<1>. DEFINE iter == CHOOSE g : g = [t \in SUBSET (1 .. N) |-> value(g, t)]
<1>7. iter = [t \in SUBSET (1 .. N) |-> value(iter, t)]
  <2>. HIDE DEF value
  <2>. QED
    BY <1>6
<1>8. WithoutRepeats(s) = iter[1 .. N]
  BY <1>1 DEF WithoutRepeats, FoldLeft, MapThenFoldSet
<1>. HIDE DEF iter
<1>9. iter[{}] = <<>>
  BY <1>7
<1>10. ASSUME NEW k \in 1 .. N, iter[1 .. k - 1] \in Acc
       PROVE  iter[1 .. k] = step[k][iter[1 .. k - 1]]
  <2>1. Max(1 .. k) = k /\ (1 .. k) \ {k} = 1 .. k - 1 /\ 1 .. k # {}
    <3>1. k \in Nat \ {0}
      OBVIOUS
    <3>. QED
      BY <3>1, LastOfPrefix, Zenon
  <2>2. iter[1 .. k] = value(iter, 1 .. k)
    <3>1. 1 .. k \in SUBSET (1 .. N)
      OBVIOUS
    <3>. HIDE DEF value
    <3>. QED
      BY <1>7, <3>1
  <2>3. value(iter, 1 .. k) = put(iter[1 .. k - 1], s[k])
    <3>. HIDE DEF put
    <3>. QED
      BY <2>1
  <2>. HIDE DEF step, value, Acc, put
  <2>. QED
    BY <1>3, <1>10, <2>2, <2>3
<1>11. \E path : Path(path, N, Acc, <<>>, step) /\ iter[1 .. N] = path[N]
  <2>. HIDE DEF step, Acc
  <2>1. StepsInOrder(iter, N, Acc, <<>>, step)
    BY <1>9, <1>10 DEF StepsInOrder
  <2>. QED
    BY <1>2, <1>4, <2>1, FoldPath, SMTT(30)
<1>12. iter[1 .. N] \in Acc
  <2>. HIDE DEF step, Acc
  <2>. QED
    BY <1>11 DEF Path
<1>. QED
  BY <1>8, <1>12

\* The rows of a batch and their cells.
LEMMA CellFacts ==
    ASSUME NEW c, IsCell(c)
    PROVE  /\ c.items \in Seq(Texts)
           /\ c # Null => c = List(c.items) \/ \E v \in Texts : c = Text(v)
           /\ c = Null => c.items = <<>> /\ ~c.list
<1>1. CASE c = Null
  BY <1>1 DEF Null
<1>2. CASE \E v \in Texts : c = Text(v)
  <2>1. PICK v \in Texts : c = Text(v)
    BY <1>2
  <2>2. c.items = <<v>> /\ <<v>> \in Seq(Texts)
    BY <2>1 DEF Text
  <2>3. c # Null
    BY <2>2 DEF Null
  <2>. QED
    BY <2>1, <2>2, <2>3
<1>3. CASE c = List(c.items) /\ c.items \in Seq(Texts)
  <2>1. c.list
    BY <1>3 DEF List
  <2>. QED
    BY <1>3, <2>1 DEF Null
<1>. QED
  BY <1>1, <1>2, <1>3 DEF IsCell, IsArrowCell

LEMMA RowsFacts ==
    ASSUME CategoricalAssumption, NEW rows \in JsonBatches \cup ArrowBatches
    PROVE  /\ Len(rows) \in Nat /\ DOMAIN rows = 1 .. Len(rows)
           /\ \A i \in DOMAIN rows, f \in Fields :
                 IsCell(rows[i][f]) /\ (rows \in ArrowBatches => IsArrowCell(rows[i][f]))
<1>1. rows \in Seq(ToSet(rows))
  BY DEF CategoricalAssumption
<1>2. PICK S : S = ToSet(rows)
  OBVIOUS
<1>3. rows \in Seq(S)
  BY <1>1, <1>2
<1>4. Len(rows) \in Nat /\ DOMAIN rows = 1 .. Len(rows)
  BY <1>3
<1>. QED
  BY <1>4, Zenon DEF CategoricalAssumption, IsCell

LEMMA TextsTyped ==
    ASSUME CategoricalAssumption, NEW rows \in JsonBatches \cup ArrowBatches, NEW f \in Fields
    PROVE  TextsOf(rows, f) \in Seq(Texts)
<1>1. PICK n \in Nat : DOMAIN rows = 1 .. n
  BY RowsFacts
<1>2. \A i \in 1 .. n : rows[i][f].items \in Seq(Texts)
  BY <1>1, RowsFacts, CellFacts
<1>3. PICK ss : ss = [i \in DOMAIN rows |-> rows[i][f].items]
  OBVIOUS
<1>4. ss \in Seq(Seq(Texts))
  BY <1>1, <1>2, <1>3
<1>. QED
  BY <1>3, <1>4, FlattenTyped DEF TextsOf

LEMMA JsonAddsTyped ==
    ASSUME CategoricalAssumption, NEW rows \in JsonBatches, NEW f \in Fields
    PROVE  JsonAdds(f, rows) \in Seq(Texts \cup {EmptyText})
<1>. DEFINE T == Texts \cup {EmptyText}
            as(c) == IF c = Null \/ c.list
                     THEN IF nullable'[f] THEN <<>> ELSE <<EmptyText>>
                     ELSE c.items
<1>1. PICK n \in Nat : DOMAIN rows = 1 .. n
  BY RowsFacts
<1>2. \A i \in 1 .. n : as(rows[i][f]) \in Seq(T)
  <2>1. ASSUME NEW i \in 1 .. n PROVE as(rows[i][f]) \in Seq(T)
    <3>1. rows[i][f].items \in Seq(Texts)
      BY <1>1, RowsFacts, CellFacts
    <3>2. rows[i][f].items \in Seq(T) /\ <<>> \in Seq(T) /\ <<EmptyText>> \in Seq(T)
      BY <3>1
    <3>. QED
      BY <3>2
  <2>. QED
    BY <2>1
<1>3. PICK ss : ss = [i \in DOMAIN rows |-> as(rows[i][f])]
  OBVIOUS
<1>4. ss \in Seq(Seq(T))
  <2>1. DOMAIN ss = 1 .. n /\ ss = [i \in 1 .. n |-> ss[i]]
    BY <1>1, <1>3
  <2>2. \A i \in 1 .. n : ss[i] \in Seq(T)
    BY <1>1, <1>2, <1>3, Zenon
  <2>. HIDE DEF T
  <2>. QED
    BY <2>1, <2>2
<1>5. FlattenSeq(ss) \in Seq(T)
  <2>. HIDE DEF T
  <2>. QED
    BY <1>4, FlattenTyped
<1>6. JsonAdds(f, rows) = IF JsonLane(f) # "texts" THEN <<>> ELSE FlattenSeq(ss)
  BY <1>3 DEF JsonAdds
<1>7. <<>> \in Seq(T)
  OBVIOUS
<1>. QED
  BY <1>5, <1>6, <1>7

\* A first part of distinct values, and the values in another order.
LEMMA FirstPart ==
    ASSUME NEW T, NEW s \in Distinct(T), NEW m \in Nat
    PROVE  SubSeq(s, 1, Min({Len(s), m})) \in Distinct(T)
<1>1. Len(s) \in Nat /\ DOMAIN s = 1 .. Len(s) /\ s \in Seq(T) /\ IsInjective(s)
  BY DistinctFacts
<1>2. PICK k : k = Min({Len(s), m})
  OBVIOUS
<1>3. k \in Nat /\ k <= Len(s)
  <2>1. PICK e : e = IF Len(s) <= m THEN Len(s) ELSE m
    OBVIOUS
  <2>2. Extreme("MIN", e, {Len(s), m}) /\ {Len(s), m} \subseteq Int
    BY <1>1, <2>1 DEF Extreme
  <2>3. k = e
    BY <1>2, <2>2, ExtremeIs
  <2>. QED
    BY <1>1, <2>1, <2>3
<1>4. PICK t : t = SubSeq(s, 1, k)
  OBVIOUS
<1>5. t \in Seq(T) /\ DOMAIN t = 1 .. k /\ \A i \in 1 .. k : t[i] = s[i]
  BY <1>1, <1>3, <1>4
<1>6. IsInjective(t)
  BY <1>1, <1>3, <1>5 DEF IsInjective
<1>. QED
  BY <1>2, <1>4, <1>5, <1>6 DEF Distinct

LEMMA SortedDistinct ==
    ASSUME NEW T, NEW s \in Distinct(T), NEW key, \A x \in ToSet(s) : key[x] \in Int
    PROVE  SortedBy(s, key) \in Distinct(T)
<1>1. PICK n \in Nat : n = Len(s) /\ DOMAIN s = 1 .. n /\ s \in Seq(T) /\ IsInjective(s)
  BY DistinctFacts
<1>2. \A i \in 1 .. n : s[i] \in T /\ key[s[i]] \in Int
  BY <1>1 DEF ToSet
<1>3. PICK p \in [1 .. n -> 1 .. n] : Permutes(p, s, n, SortedBy(s, key))
  BY <1>1, <1>2, SortedByIs
<1>4. PICK t : t = SortedBy(s, key)
  OBVIOUS
<1>5. IsInjective(p) /\ t = [i \in 1 .. n |-> s[p[i]]]
  BY <1>3, <1>4 DEF Permutes
<1>6. t \in Seq(T)
  BY <1>2, <1>5
<1>7. IsInjective(t)
  <2>1. DOMAIN t = 1 .. n /\ \A i \in 1 .. n : t[i] = s[p[i]] /\ p[i] \in 1 .. n
    BY <1>5
  <2>2. DOMAIN p = 1 .. n
    OBVIOUS
  <2>. QED
    BY <1>1, <1>5, <2>1, <2>2 DEF IsInjective
<1>. QED
  BY <1>4, <1>6, <1>7 DEF Distinct

\* The closed values of a field are distinct.
LEMMA ClosedTyped ==
    ASSUME CategoricalAssumption, NEW rs \in Rulesets \cup {NoRules},
           NEW rows \in JsonBatches \cup ArrowBatches, NEW json
    PROVE  ClosedFor(rs, rows, json) \in [Fields -> Distinct(Texts)]
<1>1. ASSUME NEW f \in Fields
      PROVE  DeclaredValues(f, rs) \in Distinct(Texts)
  <2>1. PICK v : v = ValuesOf(Literal, f, rs)
    OBVIOUS
  <2>2. v \in Seq(Texts) /\ Hint[f].values \in Seq(Texts)
    BY <2>1, ValuesTyped DEF CategoricalAssumption
  <2>3. PICK s : s = Hint[f].values \o v
    OBVIOUS
  <2>4. s \in Seq(Texts)
    BY <2>2, <2>3
  <2>. QED
    BY <2>1, <2>3, <2>4, WithoutRepeatsTyped DEF DeclaredValues
<1>2. ASSUME NEW f \in Fields
      PROVE  Sampled(rows, f) \in Distinct(Texts)
  <2>1. PICK texts : texts = WithoutRepeats(TextsOf(rows, f))
    OBVIOUS
  <2>2. texts \in Distinct(Texts)
    BY <2>1, TextsTyped, WithoutRepeatsTyped
  <2>3. PICK kept : kept = SubSeq(texts, 1, Min({Len(texts), MaxCardinality}))
    OBVIOUS
  <2>4. kept \in Distinct(Texts)
    BY <2>2, <2>3, FirstPart DEF CategoricalAssumption
  <2>5. PICK key : key = [v \in ToSet(kept) |-> v]
    OBVIOUS
  <2>6. \A v \in ToSet(kept) : key[v] \in Int
    <3>1. \A i \in DOMAIN kept : kept[i] \in Texts
      BY <2>4, DistinctFacts
    <3>2. \A v \in ToSet(kept) : v \in Nat
      BY <3>1 DEF CategoricalAssumption, ToSet
    <3>. QED
      BY <2>5, <3>2
  <2>7. Sampled(rows, f) = SortedBy(kept, key)
    BY <2>1, <2>3, <2>5 DEF Sampled
  <2>. QED
    BY <2>4, <2>6, <2>7, SortedDistinct
<1>. QED
  BY <1>1, <1>2 DEF ClosedFor

-----------------------------------------------------------------------------
(* Codes.                                                                  *)

\* resolve: a text has the code of its place.
LEMMA CodeIs ==
    ASSUME NEW T, NEW d \in Distinct(T), NEW v
    PROVE  /\ v \in ToSet(d) => /\ CodeIn(d, v) \in 0 .. Len(d) - 1
                                /\ CodeIn(d, v) + 1 \in DOMAIN d /\ d[CodeIn(d, v) + 1] = v
           /\ v \notin ToSet(d) => CodeIn(d, v) = -1
<1>1. Len(d) \in Nat /\ DOMAIN d = 1 .. Len(d)
  BY DistinctFacts
<1>2. CASE v \in ToSet(d)
  <2>1. \E i \in DOMAIN d : d[i] = v
    BY <1>2 DEF ToSet
  <2>2. PICK i \in DOMAIN d : d[i] = v /\ CodeIn(d, v) = i - 1
    BY <1>2, <2>1 DEF CodeIn
  <2>. QED
    BY <1>1, <1>2, <2>2
<1>3. CASE v \notin ToSet(d)
  BY <1>3 DEF CodeIn
<1>. QED
  BY <1>2, <1>3

\* Two texts, one of them with a code, have the same code only if they are the same.
LEMMA SameCode ==
    ASSUME NEW T, NEW d \in Distinct(T), NEW v, NEW w \in ToSet(d)
    PROVE  CodeIn(d, v) = CodeIn(d, w) <=> v = w
<1>1. /\ CodeIn(d, w) \in 0 .. Len(d) - 1 /\ d[CodeIn(d, w) + 1] = w
      /\ v \in ToSet(d) => d[CodeIn(d, v) + 1] = v
      /\ v \notin ToSet(d) => CodeIn(d, v) = -1
  BY CodeIs
<1>. QED
  BY <1>1

\* A closed value that the dictionary has, has the same code in both.
LEMMA CoherentCodes ==
    ASSUME NEW T, NEW c \in Distinct(T), NEW S, NEW d \in Distinct(S), NEW f, Coherent(f, c, d),
           NEW w, w \in ToSet(c), w \in ToSet(d)
    PROVE  CodeIn(c, w) = CodeIn(d, w)
<1>1. PICK i : i = CodeIn(c, w) + 1
  OBVIOUS
<1>2. PICK j : j = CodeIn(d, w) + 1
  OBVIOUS
<1>3. /\ i \in DOMAIN c /\ c[i] = w /\ CodeIn(c, w) \in Int
      /\ j \in DOMAIN d /\ d[j] = w /\ CodeIn(d, w) \in Int
  BY <1>1, <1>2, CodeIs
<1>4. /\ Len(c) \in Nat /\ DOMAIN c = 1 .. Len(c) /\ IsInjective(c)
      /\ Len(d) \in Nat /\ DOMAIN d = 1 .. Len(d) /\ IsInjective(d)
  BY DistinctFacts
<1>5. i = j
  <2>1. CASE i \in DOMAIN d
    BY <1>3, <1>4, <2>1 DEF Coherent, IsInjective
  <2>2. CASE i \notin DOMAIN d
    <3>1. j \in DOMAIN c
      BY <1>3, <1>4, <2>2
    <3>. QED
      BY <1>3, <1>4, <3>1 DEF Coherent, IsInjective
  <2>. QED
    BY <2>1, <2>2
<1>. QED
  BY <1>1, <1>2, <1>3, <1>5

\* The literals of a predicate, resolved in b.
Resolved(ids, b, values) ==
    /\ ids = [k \in DOMAIN values |-> CodeIn(b, values[k])]
    /\ \A k \in DOMAIN values : values[k] \in ToSet(b)

\* A text is among the values if its code is among theirs.
LEMMA CodeAmong ==
    ASSUME NEW T, NEW b \in Distinct(T), NEW values, NEW ids, Resolved(ids, b, values), NEW v
    PROVE  CodeIn(b, v) \in ToSet(ids) <=> v \in ToSet(values)
<1>1. \A k \in DOMAIN ids : CodeIn(b, v) = ids[k] <=> v = values[k]
  BY SameCode DEF Resolved
<1>. QED
  BY <1>1 DEF Resolved, ToSet

\* No literal has the code -1.
LEMMA ResolvedCodes ==
    ASSUME NEW T, NEW b \in Distinct(T), NEW values, NEW ids, Resolved(ids, b, values)
    PROVE  \A id \in ToSet(ids) : /\ id \in 0 .. Len(b) - 1
                                  /\ \E w \in ToSet(values) : w \in ToSet(b) /\ id = CodeIn(b, w)
<1>1. ASSUME NEW k \in DOMAIN ids
      PROVE  /\ ids[k] \in 0 .. Len(b) - 1
             /\ values[k] \in ToSet(values) /\ values[k] \in ToSet(b) /\ ids[k] = CodeIn(b, values[k])
  <2>1. k \in DOMAIN values /\ values[k] \in ToSet(b) /\ ids[k] = CodeIn(b, values[k])
    BY DEF Resolved
  <2>2. values[k] \in ToSet(values)
    BY <2>1 DEF ToSet
  <2>. QED
    BY <2>1, <2>2, CodeIs
<1>2. \A id \in ToSet(ids) : \E k \in DOMAIN ids : id = ids[k]
  BY DEF ToSet
<1>. QED
  BY <1>1, <1>2

\* The kernels on codes decide a text.
LEMMA CodeDecides ==
    ASSUME NEW T, NEW b \in Distinct(T), NEW values \in Seq(Texts), NEW ids, Resolved(ids, b, values),
           NEW op \in Literal, op = "EQ" => Len(values) = 1,
           op = "CONTAINS_ALL" => values # <<>> /\ IsInjective(values), NEW v
    PROVE  MatchesCode(op, CodeIn(b, v), ids)
              <=> CASE op = "CONTAINS_ALL" -> ToSet(values) \subseteq {v}
                    [] op \in Exclusion -> v \notin ToSet(values)
                    [] OTHER -> v \in ToSet(values)
<1>1. PICK n \in Nat : n = Len(values) /\ DOMAIN values = 1 .. n
  OBVIOUS
<1>2. DOMAIN ids = 1 .. n /\ ids = [k \in 1 .. n |-> CodeIn(b, values[k])]
      /\ Len(ids) = n
  BY <1>1 DEF Resolved
<1>3. CodeIn(b, v) \in ToSet(ids) <=> v \in ToSet(values)
  BY CodeAmong
<1>4. CASE op = "EQ"
  <2>1. n = 1 /\ ids # <<>> /\ ids[1] \in ToSet(ids)
    BY <1>1, <1>2, <1>4 DEF ToSet
  <2>2. ToSet(ids) = {ids[1]}
    BY <1>2, <2>1 DEF ToSet
  <2>3. MatchesCode(op, CodeIn(b, v), ids) <=> CodeIn(b, v) = ids[1]
    BY <1>4, <2>1 DEF MatchesCode, Exclusion
  <2>. QED
    BY <1>3, <1>4, <2>2, <2>3 DEF Exclusion
<1>5. CASE op = "CONTAINS_ALL"
  <2>1. n # 0
    BY <1>1, <1>5
  <2>2. CASE n = 1
    <3>1. ToSet(values) = {values[1]}
      BY <1>1, <2>2 DEF ToSet
    <3>2. MatchesCode(op, CodeIn(b, v), ids) <=> CodeIn(b, v) \in ToSet(ids)
      BY <1>2, <1>5, <2>2 DEF MatchesCode, Exclusion
    <3>. QED
      BY <1>3, <1>5, <3>1, <3>2 DEF Exclusion
  <2>3. CASE n > 1
    <3>1. values[1] # values[2] /\ values[1] \in ToSet(values) /\ values[2] \in ToSet(values)
      BY <1>1, <1>5, <2>3 DEF IsInjective, ToSet
    <3>2. ~MatchesCode(op, CodeIn(b, v), ids)
      BY <1>2, <1>5, <2>3 DEF MatchesCode, Exclusion
    <3>3. ~(ToSet(values) \subseteq {v})
      BY <3>1
    <3>. QED
      BY <1>5, <3>2, <3>3 DEF Exclusion
  <2>. QED
    BY <2>1, <2>2, <2>3
<1>6. CASE op \notin {"EQ", "CONTAINS_ALL"}
  BY <1>3, <1>6 DEF MatchesCode, Exclusion
<1>. QED
  BY <1>4, <1>5, <1>6

\* A mask has the codes of what was found; it tells of the literals what they are.
MaskOf(bits, b, found) == bits = {CodeIn(b, v) : v \in found} \ {-1}

MaskTells(bits, ids, values, found) ==
    /\ {id \in ToSet(ids) : id >= 0 /\ id < BitWidth} = ToSet(ids)
    /\ ToSet(ids) \subseteq bits <=> ToSet(values) \subseteq found
    /\ ToSet(ids) \cap bits = {} <=> found \cap ToSet(values) = {}

\* The kernels on masks decide a list.
LEMMA BitsDecide ==
    ASSUME NEW T, NEW b \in Distinct(T), BitWidth \in Nat, Len(b) < BitWidth,
           NEW values, NEW ids, Resolved(ids, b, values), NEW found, NEW bits, MaskOf(bits, b, found)
    PROVE  MaskTells(bits, ids, values, found)
<1>1. /\ \A id \in ToSet(ids) : id \in 0 .. Len(b) - 1
      /\ \A id \in ToSet(ids) : \E w \in ToSet(values) : w \in ToSet(b) /\ id = CodeIn(b, w)
  BY ResolvedCodes
<1>2. \A id \in ToSet(ids) : id >= 0 /\ id < BitWidth
  <2>1. Len(b) \in Nat
    BY DistinctFacts
  <2>. QED
    BY <1>1, <2>1
<1>3. \A w \in ToSet(values) : w \in ToSet(b) /\ CodeIn(b, w) \in ToSet(ids)
  BY DEF Resolved, ToSet
<1>4. \A w \in ToSet(values) : CodeIn(b, w) \in bits <=> w \in found
  <2>1. ASSUME NEW w \in ToSet(values) PROVE CodeIn(b, w) \in bits <=> w \in found
    <3>1. w \in ToSet(b) /\ CodeIn(b, w) # -1
      BY <1>1, <1>3
    <3>2. \A v : CodeIn(b, v) = CodeIn(b, w) <=> v = w
      BY <3>1, SameCode
    <3>. QED
      BY <3>1, <3>2 DEF MaskOf
  <2>. QED
    BY <2>1
<1>. QED
  BY <1>1, <1>2, <1>3, <1>4 DEF MaskTells

-----------------------------------------------------------------------------
(* Verdicts.                                                               *)

\* What a literal or a lookup says of the texts found in a cell.
SaysOf(op, values, found) ==
    CASE op = "CONTAINS_ALL" -> values \subseteq found
      [] op \in Exclusion \cup {"NOT_IN_LOOKUP"} -> found \cap values = {}
      [] OTHER -> found \cap values # {}

LEMMA SaysIs ==
    ASSUME NEW p, p.op \in Literal \cup Lookup, NEW row
    PROVE  Says(p, row) <=> /\ row[p.field] # Null
                            /\ SaysOf(p.op, ToSet(p.values), ToSet(row[p.field].items))
<1>. DEFINE values == ToSet(p.values)
            found == ToSet(row[p.field].items)
            present == row[p.field] # Null
<1>1. CASE p.op = "CONTAINS_ALL"
  BY <1>1 DEF Says, SaysOf, Membership, Exclusion
<1>2. CASE p.op \in Membership \cup {"IN_LOOKUP"}
  <2>1. Says(p, row) <=> present /\ found \cap values # {}
    BY <1>2 DEF Says, Membership, Exclusion
  <2>2. SaysOf(p.op, values, found) <=> found \cap values # {}
    BY <1>2 DEF SaysOf, Membership, Exclusion
  <2>. QED
    BY <2>1, <2>2
<1>3. CASE p.op \in Exclusion \cup {"NOT_IN_LOOKUP"}
  <2>1. Says(p, row) <=> present /\ ~(found \cap values # {})
    BY <1>3 DEF Says, Membership, Exclusion
  <2>2. SaysOf(p.op, values, found) <=> found \cap values = {}
    BY <1>3 DEF SaysOf, Exclusion
  <2>. QED
    BY <2>1, <2>2
<1>. QED
  BY <1>1, <1>2, <1>3 DEF Literal, Lookup

\* Which kernel decides it.
LEMMA MatchesIs ==
    ASSUME NEW p, p.op \in Literal \cup Lookup, NEW d, NEW lane, NEW cells, NEW i, NEW noise
    PROVE  /\ p.op \in Literal =>
                 (Matches(p, d, lane, cells, i, noise) <=>
                    /\ cells[i][p.field].valid
                    /\ IF lane[p.field] = "bits"
                       THEN MatchesBits(p.op, cells[i][p.field].bits, Codes(d, p))
                       ELSE MatchesCode(p.op, cells[i][p.field].code, Codes(d, p)))
           /\ p.op \in Lookup =>
                 (Matches(p, d, lane, cells, i, noise) <=>
                    /\ cells[i][p.field].valid
                    /\ MatchesLookup(p.op, lane[p.field], cells[i][p.field], Codes(d, p)))
<1>1. CASE p.op \in Literal
  <2>1. p.op # "IS_NULL" /\ p.op \notin CrossField /\ p.op \notin Lookup
    BY <1>1 DEF Literal, Membership, Exclusion, CrossField, Lookup
  <2>. QED
    BY <1>1, <2>1 DEF Matches
<1>2. CASE p.op \in Lookup
  <2>1. p.op # "IS_NULL" /\ p.op \notin CrossField /\ p.op \notin Literal
    BY <1>2 DEF Literal, Membership, Exclusion, CrossField, Lookup
  <2>. QED
    BY <1>2, <2>1 DEF Matches
<1>. QED
  BY <1>1, <1>2

\* The bits and the codes decide what a predicate says.
LEMMA BitsSay ==
    ASSUME NEW T, NEW b \in Distinct(T), BitWidth \in Nat, Len(b) < BitWidth,
           NEW values, NEW ids, Resolved(ids, b, values), NEW found,
           NEW slot, MaskOf(slot.bits, b, found), NEW op
    PROVE  /\ op \in Literal =>
                 (MatchesBits(op, slot.bits, ids) <=> SaysOf(op, ToSet(values), found))
           /\ op \in Lookup =>
                 (MatchesLookup(op, "bits", slot, ids) <=> SaysOf(op, ToSet(values), found))
<1>1. PICK bits : bits = slot.bits
  OBVIOUS
<1>2. /\ {id \in ToSet(ids) : id >= 0 /\ id < BitWidth} = ToSet(ids)
      /\ ToSet(ids) \subseteq bits <=> ToSet(values) \subseteq found
      /\ ToSet(ids) \cap bits = {} <=> found \cap ToSet(values) = {}
  <2>1. MaskTells(bits, ids, values, found)
    BY <1>1, BitsDecide
  <2>. QED
    BY <2>1 DEF MaskTells
<1>3. ASSUME op \in Literal
      PROVE  MatchesBits(op, bits, ids) <=> SaysOf(op, ToSet(values), found)
  <2>1. MatchesBits(op, bits, ids) <=>
          CASE op = "CONTAINS_ALL" -> ToSet(ids) \subseteq bits
            [] op \in Exclusion -> ToSet(ids) \cap bits = {}
            [] OTHER -> ToSet(ids) \cap bits # {}
    BY <1>2 DEF MatchesBits
  <2>2. op # "NOT_IN_LOOKUP"
    BY <1>3 DEF Literal, Membership, Exclusion
  <2>3. CASE op = "CONTAINS_ALL"
    BY <1>2, <2>1, <2>3 DEF SaysOf, Exclusion
  <2>4. CASE op \in Exclusion
    BY <1>2, <2>1, <2>4 DEF SaysOf, Exclusion
  <2>5. CASE op # "CONTAINS_ALL" /\ op \notin Exclusion
    BY <1>2, <2>1, <2>2, <2>5 DEF SaysOf
  <2>. QED
    BY <2>3, <2>4, <2>5
<1>4. ASSUME op \in Lookup
      PROVE  MatchesLookup(op, "bits", slot, ids) <=> SaysOf(op, ToSet(values), found)
  <2>1. {id \in {id \in ToSet(ids) : id >= 0} : id < BitWidth} = ToSet(ids)
    BY <1>2
  <2>2. MatchesLookup(op, "bits", slot, ids) <=> ((op = "IN_LOOKUP") = (ToSet(ids) \cap bits # {}))
    BY <1>1, <2>1 DEF MatchesLookup
  <2>3. CASE op = "IN_LOOKUP"
    BY <1>2, <2>2, <2>3 DEF SaysOf, Exclusion
  <2>4. CASE op = "NOT_IN_LOOKUP"
    BY <1>2, <2>2, <2>4 DEF SaysOf
  <2>. QED
    BY <1>4, <2>3, <2>4 DEF Lookup
<1>. QED
  BY <1>1, <1>3, <1>4

\* EQ has one value, CONTAINS_ALL has some, each once.
ProperValues(op, values) ==
    /\ op = "EQ" => Len(values) = 1
    /\ op = "CONTAINS_ALL" => values # <<>> /\ IsInjective(values)

LEMMA CodeSays ==
    ASSUME NEW T, NEW b \in Distinct(T), NEW values \in Seq(Texts), NEW ids, Resolved(ids, b, values),
           NEW v, NEW slot, slot.code = CodeIn(b, v), NEW lane, lane # "bits", NEW op,
           ProperValues(op, values)
    PROVE  /\ op \in Literal =>
                 (MatchesCode(op, slot.code, ids) <=> SaysOf(op, ToSet(values), {v}))
           /\ op \in Lookup =>
                 (MatchesLookup(op, lane, slot, ids) <=> SaysOf(op, ToSet(values), {v}))
<1>1. {v} \cap ToSet(values) = {} <=> v \notin ToSet(values)
  OBVIOUS
<1>2. ASSUME op \in Literal
      PROVE  MatchesCode(op, slot.code, ids) <=> SaysOf(op, ToSet(values), {v})
  <2>1. MatchesCode(op, slot.code, ids)
          <=> CASE op = "CONTAINS_ALL" -> ToSet(values) \subseteq {v}
                [] op \in Exclusion -> v \notin ToSet(values)
                [] OTHER -> v \in ToSet(values)
    BY <1>2, CodeDecides DEF ProperValues
  <2>2. op # "NOT_IN_LOOKUP"
    BY <1>2 DEF Literal, Membership, Exclusion
  <2>3. CASE op = "CONTAINS_ALL"
    BY <2>1, <2>3 DEF SaysOf, Exclusion
  <2>4. CASE op \in Exclusion
    BY <1>1, <2>1, <2>4 DEF SaysOf, Exclusion
  <2>5. CASE op # "CONTAINS_ALL" /\ op \notin Exclusion
    BY <1>1, <2>1, <2>2, <2>5 DEF SaysOf
  <2>. QED
    BY <2>3, <2>4, <2>5
<1>3. ASSUME op \in Lookup
      PROVE  MatchesLookup(op, lane, slot, ids) <=> SaysOf(op, ToSet(values), {v})
  <2>1. {id \in ToSet(ids) : id >= 0} = ToSet(ids)
    BY ResolvedCodes
  <2>2. CodeIn(b, v) \in ToSet(ids) <=> v \in ToSet(values)
    BY CodeAmong
  <2>3. MatchesLookup(op, lane, slot, ids) <=> ((op = "IN_LOOKUP") = (slot.code \in ToSet(ids)))
    BY <2>1 DEF MatchesLookup
  <2>4. CASE op = "IN_LOOKUP"
    BY <1>1, <2>2, <2>3, <2>4 DEF SaysOf, Exclusion
  <2>5. CASE op = "NOT_IN_LOOKUP"
    BY <1>1, <2>2, <2>3, <2>5 DEF SaysOf
  <2>. QED
    BY <1>3, <2>4, <2>5 DEF Lookup
<1>. QED
  BY <1>2, <1>3

\* On every lane a predicate whose texts have codes decides a cell by its texts.
LEMMA PredicateDecides ==
    ASSUME CategoricalAssumption, ListedOnce, CodesInv,
           NEW k \in DOMAIN Predicates, NEW i \in DOMAIN last.rows,
           NEW p, p = Predicates[k], p.op \in Literal \cup Lookup, Covered(p),
           Fits(p.field, last.rows[i]),
           last.lane[p.field] = "dictionary" => Known(p.field, last.rows[i]),
           NEW noise
    PROVE  Matches(p, dict, last.lane, last.cells, i, noise) <=> Says(p, last.rows[i])
<1>1. /\ p.field \in Fields /\ p.values \in Seq(Texts)
      /\ p.op = "EQ" => Len(p.values) = 1
      /\ p.op = "CONTAINS_ALL" => p.values # <<>> /\ IsInjective(p.values)
  <2>1. active \in Rulesets \cup {NoRules}
    BY DEF CodesInv, TypeOK
  <2>2. active \in Rulesets /\ IsPredicate(p)
    BY <2>1, RulesetFacts DEF Predicates
  <2>. QED
    BY <2>2 DEF IsPredicate, ListedOnce, Predicates
<1>2. PICK f \in Fields : f = p.field
  BY <1>1
<1>3. PICK lane : lane = last.lane[f]
  OBVIOUS
<1>4. PICK cell : cell = last.rows[i][f]
  OBVIOUS
<1>5. PICK slot : slot = last.cells[i][f]
  OBVIOUS
<1>6. PICK c \in Distinct(Texts) : c = closed[f]
  BY DEF CodesInv, ColumnsCoherent
<1>7. PICK d \in Distinct(Texts \cup {EmptyText}) : d = dict[f]
  BY DEF CodesInv, ColumnsCoherent
<1>8. Coherent(f, c, d)
  BY <1>6, <1>7 DEF CodesInv, ColumnsCoherent
<1>9. Encodes(lane, c, d, cell, slot) /\ (lane = "bits" => Len(c) < BitWidth)
  BY <1>2, <1>3, <1>4, <1>5, <1>6, <1>7 DEF CodesInv, LanesAndSlots
<1>10. PICK ids : ids = Codes(dict, p)
  OBVIOUS
<1>11. \A m \in DOMAIN p.values :
          p.values[m] \in ToSet(d) /\ (lane \in {"bits", "codes"} => p.values[m] \in ToSet(c))
  <2>1. ToSet(p.values) \subseteq ToSet(d)
    BY <1>2, <1>7 DEF Covered
  <2>2. lane \in {"bits", "codes"} => ToSet(p.values) \subseteq ToSet(c)
    BY <1>2, <1>3, <1>6 DEF Covered
  <2>3. \A m \in DOMAIN p.values : p.values[m] \in ToSet(p.values)
    BY DEF ToSet
  <2>. QED
    BY <2>1, <2>2, <2>3
<1>12. ids = [m \in DOMAIN p.values |-> CodeIn(d, p.values[m])]
  BY <1>2, <1>7, <1>10 DEF Codes
<1>13. Resolved(ids, d, p.values)
  BY <1>11, <1>12 DEF Resolved
<1>14. lane \in {"bits", "codes"} => Resolved(ids, c, p.values)
  <2>1. SUFFICES ASSUME lane \in {"bits", "codes"} PROVE Resolved(ids, c, p.values)
    OBVIOUS
  <2>2. \A m \in DOMAIN p.values : CodeIn(d, p.values[m]) = CodeIn(c, p.values[m])
    BY <1>8, <1>11, <2>1, CoherentCodes
  <2>. QED
    BY <1>11, <1>12, <2>1, <2>2 DEF Resolved
<1>15. Says(p, last.rows[i]) <=> cell # Null /\ SaysOf(p.op, ToSet(p.values), ToSet(cell.items))
  BY <1>2, <1>4, SaysIs
<1>16. /\ p.op \in Literal =>
             (Matches(p, dict, last.lane, last.cells, i, noise) <=>
                /\ slot.valid
                /\ IF lane = "bits" THEN MatchesBits(p.op, slot.bits, ids)
                   ELSE MatchesCode(p.op, slot.code, ids))
       /\ p.op \in Lookup =>
             (Matches(p, dict, last.lane, last.cells, i, noise) <=>
                slot.valid /\ MatchesLookup(p.op, lane, slot, ids))
  BY <1>2, <1>3, <1>5, <1>10, MatchesIs
<1>17. CASE cell = Null
  BY <1>9, <1>15, <1>16, <1>17 DEF Encodes
<1>18. CASE cell # Null /\ lane = "bits"
  <2>1. slot.valid /\ slot.bits = {CodeIn(c, v) : v \in ToSet(cell.items)} \ {-1}
    BY <1>9, <1>18 DEF Encodes
  <2>2. PICK found : found = ToSet(cell.items)
    OBVIOUS
  <2>3. /\ p.op \in Literal => (MatchesBits(p.op, slot.bits, ids) <=> SaysOf(p.op, ToSet(p.values), found))
        /\ p.op \in Lookup => (MatchesLookup(p.op, "bits", slot, ids) <=> SaysOf(p.op, ToSet(p.values), found))
    <3>1. BitWidth \in Nat /\ Len(c) < BitWidth
      BY <1>9, <1>18 DEF CategoricalAssumption
    <3>2. Resolved(ids, c, p.values)
      BY <1>14, <1>18
    <3>3. MaskOf(slot.bits, c, found)
      BY <2>1, <2>2 DEF MaskOf
    <3>4. PICK op, values : op = p.op /\ values = p.values
      OBVIOUS
    <3>5. /\ op \in Literal => (MatchesBits(op, slot.bits, ids) <=> SaysOf(op, ToSet(values), found))
          /\ op \in Lookup => (MatchesLookup(op, "bits", slot, ids) <=> SaysOf(op, ToSet(values), found))
      BY <3>1, <3>2, <3>3, <3>4, BitsSay
    <3>. QED
      BY <3>4, <3>5
  <2>. QED
    BY <1>15, <1>16, <1>18, <2>1, <2>2, <2>3
<1>19. CASE cell # Null /\ lane # "bits"
  <2>1. PICK v \in Texts : /\ cell = Text(v)
                           /\ slot.valid => slot.code = CodeIn(IF lane = "codes" THEN c ELSE d, v)
                           /\ slot.valid \/ (lane = "dictionary" /\ v \notin ToSet(d))
    BY <1>9, <1>19 DEF Encodes
  <2>2. ToSet(cell.items) = {v}
    <3>1. cell.items = <<v>>
      BY <2>1 DEF Text
    <3>. QED
      BY <3>1 DEF ToSet
  <2>3. slot.valid
    <3>1. lane = "dictionary" => v \in ToSet(d)
      BY <1>2, <1>3, <1>4, <1>7, <2>2 DEF Known
    <3>. QED
      BY <2>1, <3>1
  <2>4. PICK op, values : op = p.op /\ values = p.values
    OBVIOUS
  <2>. values \in Seq(Texts) /\ ProperValues(op, values)
    BY <1>1, <2>4 DEF ProperValues
  <2>5. CASE lane = "codes"
    <3>1. slot.code = CodeIn(c, v) /\ Resolved(ids, c, values)
      BY <1>14, <2>1, <2>3, <2>4, <2>5
    <3>2. /\ op \in Literal => (MatchesCode(op, slot.code, ids) <=> SaysOf(op, ToSet(values), {v}))
          /\ op \in Lookup => (MatchesLookup(op, lane, slot, ids) <=> SaysOf(op, ToSet(values), {v}))
      BY <1>19, <3>1, CodeSays
    <3>. QED
      BY <1>15, <1>16, <1>19, <2>2, <2>3, <2>4, <3>2
  <2>6. CASE lane # "codes"
    <3>1. slot.code = CodeIn(d, v) /\ Resolved(ids, d, values)
      BY <1>13, <2>1, <2>3, <2>4, <2>6
    <3>2. /\ op \in Literal => (MatchesCode(op, slot.code, ids) <=> SaysOf(op, ToSet(values), {v}))
          /\ op \in Lookup => (MatchesLookup(op, lane, slot, ids) <=> SaysOf(op, ToSet(values), {v}))
      BY <1>19, <3>1, CodeSays
    <3>. QED
      BY <1>15, <1>16, <1>19, <2>2, <2>3, <2>4, <3>2
  <2>. QED
    BY <2>5, <2>6
<1>. QED
  BY <1>17, <1>18, <1>19

-----------------------------------------------------------------------------
(* Slots.                                                                  *)

\* What a slot is, on any lane.
SlotKeeps(lane, nulls, c, d, cell, slot) ==
    /\ lane = "bits" => Len(c) < BitWidth
    /\ slot.bits # {} => lane = "bits" /\ cell # Null
    /\ slot.bits \subseteq {CodeIn(c, v) : v \in ToSet(cell.items)} \ {-1}
    /\ ((cell = Null => nulls) /\ (cell.list => lane = "bits")) => Encodes(lane, c, d, cell, slot)

\* append_json_value keeps a cell, if the lane has a place for it.
LEMMA JsonSlotKeeps ==
    ASSUME CategoricalAssumption, NEW f, closed'[f] \in Distinct(Texts), nullable'[f] \in BOOLEAN,
           NEW cell, IsCell(cell), NEW d
    PROVE  SlotKeeps(JsonLane(f), nullable'[f], closed'[f], d, cell, JsonSlot(f, cell, d))
<1>1. PICK c \in Distinct(Texts) : c = closed'[f]
  OBVIOUS
<1>2. PICK nulls \in BOOLEAN : nulls = nullable'[f]
  OBVIOUS
<1>3. PICK lane : lane = JsonLane(f)
  OBVIOUS
<1>4. /\ lane \in {"bits", "codes", "texts"}
      /\ lane = "bits" => Len(c) < BitWidth
  BY <1>1, <1>3 DEF JsonLane
<1>5. PICK slot : slot = JsonSlot(f, cell, d)
  OBVIOUS
<1>6. cell # Null => (~cell.list => \E v \in Texts : cell = Text(v))
  BY CellFacts DEF List
<1>7. CASE cell = Null \/ (lane = "texts" /\ cell.list)
  <2>1. slot = DefaultSlot(f, lane, d)
    BY <1>3, <1>5, <1>7 DEF JsonSlot
  <2>2. slot.bits = {} /\ (nulls => ~slot.valid)
    BY <1>2, <1>4, <2>1 DEF DefaultSlot, NullSlot, Mask, Encoded
  <2>3. (cell = Null /\ nulls) => Encodes(lane, c, d, cell, slot)
    BY <2>2 DEF Encodes
  <2>4. cell # Null => lane # "bits" /\ cell.list
    BY <1>7
  <2>. QED
    BY <1>1, <1>2, <1>3, <1>4, <1>5, <2>2, <2>3, <2>4 DEF SlotKeeps
<1>8. CASE lane = "bits" /\ cell # Null
  <2>1. PICK known : known = {CodeIn(c, v) : v \in ToSet(cell.items)} \ {-1}
    OBVIOUS
  <2>2. slot = Mask({id \in known : id < BitWidth})
    BY <1>1, <1>3, <1>5, <1>8, <2>1 DEF JsonSlot
  <2>3. \A id \in known : id < BitWidth
    <3>1. ASSUME NEW v, CodeIn(c, v) # -1 PROVE CodeIn(c, v) < BitWidth
      <4>1. CodeIn(c, v) \in 0 .. Len(c) - 1 /\ Len(c) \in Nat
        BY <3>1, CodeIs, DistinctFacts
      <4>. QED
        BY <1>4, <1>8, <4>1 DEF CategoricalAssumption
    <3>. QED
      BY <2>1, <3>1
  <2>4. {id \in known : id < BitWidth} = known
    BY <2>3
  <2>5. slot.valid /\ slot.bits = known
    BY <2>2, <2>4 DEF Mask
  <2>6. Encodes(lane, c, d, cell, slot)
    BY <1>8, <2>1, <2>5 DEF Encodes
  <2>. QED
    BY <1>1, <1>3, <1>4, <1>5, <1>8, <2>1, <2>5, <2>6 DEF SlotKeeps
<1>9. CASE lane = "codes" /\ cell # Null
  <2>1. PICK places : places = {k \in DOMAIN cell.items : CodeIn(c, cell.items[k]) # -1}
    OBVIOUS
  <2>2. slot = Encoded(IF places = {} THEN -1 ELSE CodeIn(c, cell.items[Min(places)]))
    BY <1>1, <1>3, <1>5, <1>9, <2>1 DEF JsonSlot
  <2>3. ASSUME NEW v \in Texts, cell = Text(v)
        PROVE  slot.valid /\ slot.code = CodeIn(c, v)
    <3>1. cell.items = <<v>> /\ DOMAIN <<v>> = {1} /\ <<v>>[1] = v
      BY <2>3 DEF Text
    <3>2. CASE CodeIn(c, v) = -1
      <4>1. places = {}
        BY <2>1, <3>1, <3>2
      <4>. QED
        BY <2>2, <3>2, <4>1 DEF Encoded
    <3>3. CASE CodeIn(c, v) # -1
      <4>1. places = {1}
        BY <2>1, <3>1, <3>3
      <4>2. Min(places) = 1
        BY <4>1 DEF Min
      <4>. QED
        BY <2>2, <3>1, <4>1, <4>2 DEF Encoded
    <3>. QED
      BY <3>2, <3>3
  <2>4. slot.bits = {}
    BY <2>2 DEF Encoded
  <2>5. ~cell.list => Encodes(lane, c, d, cell, slot)
    <3>1. SUFFICES ASSUME ~cell.list PROVE Encodes(lane, c, d, cell, slot)
      OBVIOUS
    <3>2. PICK v \in Texts : cell = Text(v)
      BY <1>6, <1>9, <3>1
    <3>3. slot.valid /\ slot.code = CodeIn(c, v)
      BY <2>3, <3>2
    <3>. QED
      BY <1>9, <3>2, <3>3 DEF Encodes
  <2>. QED
    BY <1>1, <1>3, <1>4, <1>5, <1>9, <2>4, <2>5 DEF SlotKeeps
<1>10. CASE lane = "texts" /\ cell # Null /\ ~cell.list
  <2>1. slot = Encoded(CodeIn(d, cell.items[1]))
    BY <1>3, <1>5, <1>10 DEF JsonSlot
  <2>2. PICK v \in Texts : cell = Text(v)
    BY <1>6, <1>10
  <2>3. cell.items[1] = v
    BY <2>2 DEF Text
  <2>4. slot.valid /\ slot.code = CodeIn(d, v) /\ slot.bits = {}
    BY <2>1, <2>3 DEF Encoded
  <2>5. Encodes(lane, c, d, cell, slot)
    BY <1>10, <2>2, <2>4 DEF Encodes
  <2>. QED
    BY <1>1, <1>3, <1>4, <1>5, <1>10, <2>4, <2>5 DEF SlotKeeps
<1>. QED
  BY <1>4, <1>7, <1>8, <1>9, <1>10

\* encode_batch keeps the cells of Arrow columns.
LEMMA ArrowSlotKeeps ==
    ASSUME NEW c, NEW d \in Distinct(Texts \cup {EmptyText}), NEW nulls \in BOOLEAN, NEW cell,
           IsArrowCell(cell), NEW form \in {"texts", "dictionary"}
    PROVE  SlotKeeps(form, nulls, c, d, cell, ArrowSlot(cell, d, form))
<1>1. PICK slot : slot = ArrowSlot(cell, d, form)
  OBVIOUS
<1>2. slot.bits = {}
  BY <1>1 DEF ArrowSlot, NullSlot, Encoded
<1>3. CASE cell = Null
  <2>1. ~slot.valid
    BY <1>1, <1>3 DEF ArrowSlot, NullSlot
  <2>2. Encodes(form, c, d, cell, slot)
    BY <1>3, <2>1 DEF Encodes
  <2>. QED
    BY <1>1, <1>2, <2>2 DEF SlotKeeps
<1>4. CASE cell # Null
  <2>1. PICK v \in Texts : cell = Text(v)
    BY <1>4 DEF IsArrowCell
  <2>2. cell.items[1] = v
    BY <2>1 DEF Text
  <2>3. PICK code : code = CodeIn(d, v)
    OBVIOUS
  <2>4. slot = IF form = "dictionary" /\ code < 0 THEN NullSlot ELSE Encoded(code)
    BY <1>1, <1>4, <2>2, <2>3 DEF ArrowSlot
  <2>5. v \in ToSet(d) => ~(code < 0)
    BY <2>3, CodeIs
  <2>6. /\ slot.valid => slot.code = code
        /\ slot.valid \/ (form = "dictionary" /\ v \notin ToSet(d))
    BY <2>4, <2>5 DEF NullSlot, Encoded
  <2>7. Encodes(form, c, d, cell, slot)
    BY <1>4, <2>1, <2>3, <2>6 DEF Encodes
  <2>. QED
    BY <1>1, <1>2, <2>7 DEF SlotKeeps
<1>. QED
  BY <1>3, <1>4

LEMMA ArrowRowKeeps ==
    ASSUME NEW rows \in ArrowBatches, NEW i \in DOMAIN rows, NEW f \in Fields,
           NEW c, NEW d \in Distinct(Texts \cup {EmptyText}), NEW nulls \in BOOLEAN,
           NEW form \in {"texts", "dictionary"}
    PROVE  SlotKeeps(form, nulls, c, d, rows[i][f], ArrowSlot(rows[i][f], d, form))
<1>1. PICK cell : cell = rows[i][f]
  OBVIOUS
<1>2. IsArrowCell(cell)
  BY <1>1, CategoricalAssumption, RowsFacts
<1>3. SlotKeeps(form, nulls, c, d, cell, ArrowSlot(cell, d, form))
  BY <1>2, ArrowSlotKeeps
<1>. QED
  BY <1>1, <1>3

-----------------------------------------------------------------------------
(* The dictionaries of all columns.                                        *)

\* A dictionary that agrees with the closed values c.
Agreeing(c, d) ==
    /\ d \in [Fields -> Distinct(Texts \cup {EmptyText})]
    /\ \A f \in Fields : /\ Coherent(f, c[f], d[f])
                         /\ Kind[f] = "CATEGORICAL" => Len(d[f]) <= Capacity

LEMMA AddsAgree ==
    ASSUME Capacity \in Nat, NEW c \in [Fields -> Distinct(Texts)], NEW d, Agreeing(c, d),
           NEW adds, \A f \in Fields : adds[f] \in Seq(Texts \cup {EmptyText}),
           NEW e, e = [f \in Fields |-> AddedAll(f, d[f], adds[f])]
    PROVE  Agreeing(c, e) /\ \A f \in Fields : Extends(d[f], e[f])
<1>1. ASSUME NEW f \in Fields
      PROVE  /\ e[f] \in Distinct(Texts \cup {EmptyText}) /\ Extends(d[f], e[f])
             /\ Coherent(f, c[f], e[f])
             /\ Kind[f] = "CATEGORICAL" => Len(e[f]) <= Capacity
  <2>1. /\ d[f] \in Distinct(Texts \cup {EmptyText}) /\ Coherent(f, c[f], d[f])
        /\ Kind[f] = "CATEGORICAL" => Len(d[f]) <= Capacity
    BY DEF Agreeing
  <2>2. PICK T, b, vs, g : T = Texts \cup {EmptyText} /\ b = d[f] /\ vs = adds[f] /\ g = e[f]
    OBVIOUS
  <2>3. g \in Distinct(T) /\ Extends(b, g) /\ (Full(f, b) => g = b)
        /\ (Kind[f] = "CATEGORICAL" => Len(g) <= Capacity)
    <3>1. b \in Distinct(T) /\ vs \in Seq(T) /\ (Kind[f] = "CATEGORICAL" => Len(b) <= Capacity)
      BY <2>1, <2>2
    <3>2. g = AddedAll(f, b, vs)
      BY <2>2
    <3>. QED
      BY <3>1, <3>2, AddedAllIs
  <2>4. c[f] \in Distinct(Texts)
    OBVIOUS
  <2>5. Coherent(f, c[f], g)
    BY <2>1, <2>2, <2>3, <2>4, CoherentKept
  <2>. QED
    BY <2>2, <2>3, <2>5
<1>2. e \in [Fields -> Distinct(Texts \cup {EmptyText})]
  BY <1>1
<1>. QED
  BY <1>1, <1>2 DEF Agreeing

LEMMA FreshAgrees ==
    ASSUME Capacity \in Nat, NEW c \in [Fields -> Distinct(Texts)]
    PROVE  Agreeing(c, FreshDict(c))
<1>1. PICK e : e = FreshDict(c)
  OBVIOUS
<1>2. ASSUME NEW f \in Fields
      PROVE  /\ e[f] \in Distinct(Texts \cup {EmptyText}) /\ Coherent(f, c[f], e[f])
             /\ Kind[f] = "CATEGORICAL" => Len(e[f]) <= Capacity
  <2>1. c[f] \in Distinct(Texts \cup {EmptyText})
    BY DEF Distinct
  <2>2. e[f] = AddedAll(f, <<>>, c[f])
    BY <1>1 DEF FreshDict
  <2>. QED
    BY <2>1, <2>2, FreshIs
<1>3. e \in [Fields -> Distinct(Texts \cup {EmptyText})]
  <2>1. e = [f \in Fields |-> e[f]]
    BY <1>1 DEF FreshDict
  <2>. QED
    BY <1>2, <2>1
<1>. QED
  BY <1>1, <1>2, <1>3 DEF Agreeing

LEMMA PreloadedAgrees ==
    ASSUME CategoricalAssumption, NEW c \in [Fields -> Distinct(Texts)], NEW d, Agreeing(c, d),
           NEW rs \in Rulesets \cup {NoRules}
    PROVE  Agreeing(c, Preloaded(d, rs)) /\ \A f \in Fields : Extends(d[f], Preloaded(d, rs)[f])
<1>1. PICK adds : adds = [f \in Fields |-> ValuesOf(Lookup, f, rs)]
  OBVIOUS
<1>2. \A f \in Fields : adds[f] \in Seq(Texts \cup {EmptyText})
  <2>1. ASSUME NEW f \in Fields PROVE adds[f] \in Seq(Texts \cup {EmptyText})
    <3>1. adds[f] \in Seq(Texts)
      BY <1>1, ValuesTyped
    <3>. QED
      BY <3>1
  <2>. QED
    BY <2>1
<1>3. PICK e : e = Preloaded(d, rs)
  OBVIOUS
<1>4. e = [f \in Fields |-> AddedAll(f, d[f], adds[f])]
  BY <1>1, <1>3 DEF Preloaded
<1>5. Capacity \in Nat
  BY DEF CategoricalAssumption
<1>6. Agreeing(c, e) /\ \A f \in Fields : Extends(d[f], e[f])
  BY <1>2, <1>4, <1>5, AddsAgree
<1>. QED
  BY <1>3, <1>6

-----------------------------------------------------------------------------
(* The steps.                                                              *)

\* The types of TypeOK that are not those of the columns and slots.
Scalars ==
    /\ bound \in BOOLEAN /\ synthetic \in BOOLEAN
    /\ pending \in Rulesets \cup {NoRules} /\ active \in Rulesets \cup {NoRules}
    /\ calls \in 0 .. MaxCalls

Columns ==
    /\ nullable \in [Fields -> BOOLEAN]
    /\ closed \in [Fields -> Distinct(Texts)]
    /\ Agreeing(closed, dict)

\* The parts of the invariant make up the whole of it, before a step
LEMMA TypesOf ==
    ASSUME CategoricalAssumption, NEW cl \in [Fields -> Distinct(Texts)], NEW di, Agreeing(cl, di)
    PROVE  \A f \in Fields :
              /\ ToSet(cl[f]) \subseteq Texts /\ IsInjective(cl[f])
              /\ ToSet(di[f]) \subseteq Texts \cup {EmptyText} /\ IsInjective(di[f])
              /\ Kind[f] = "CATEGORICAL" => Len(di[f]) <= Capacity
<1>1. ASSUME NEW f \in Fields
      PROVE  /\ ToSet(cl[f]) \subseteq Texts /\ IsInjective(cl[f])
             /\ ToSet(di[f]) \subseteq Texts \cup {EmptyText} /\ IsInjective(di[f])
             /\ Kind[f] = "CATEGORICAL" => Len(di[f]) <= Capacity
  <2>1. /\ cl[f] \in Distinct(Texts) /\ di[f] \in Distinct(Texts \cup {EmptyText})
        /\ Kind[f] = "CATEGORICAL" => Len(di[f]) <= Capacity
    BY DEF Agreeing
  <2>2. \A i \in DOMAIN cl[f] : cl[f][i] \in Texts
    BY <2>1, DistinctFacts
  <2>3. \A i \in DOMAIN di[f] : di[f][i] \in Texts \cup {EmptyText}
    BY <2>1, DistinctFacts
  <2>4. IsInjective(cl[f]) /\ IsInjective(di[f])
    BY <2>1 DEF Distinct
  <2>. QED
    BY <2>1, <2>2, <2>3, <2>4 DEF ToSet
<1>. QED
  BY <1>1

\* The bits of a slot are below the width of a mask.
LEMMA BitsTyped ==
    ASSUME CategoricalAssumption, NEW c \in Distinct(Texts), NEW items, NEW bits,
           bits \subseteq {CodeIn(c, v) : v \in ToSet(items)} \ {-1},
           bits # {} => Len(c) < BitWidth
    PROVE  bits \subseteq 0 .. BitWidth - 1
<1>1. ASSUME NEW id \in bits PROVE id \in 0 .. BitWidth - 1
  <2>1. PICK v : id = CodeIn(c, v) /\ id # -1
    OBVIOUS
  <2>2. id \in 0 .. Len(c) - 1 /\ Len(c) \in Nat /\ Len(c) < BitWidth
    BY <2>1, CodeIs, DistinctFacts
  <2>. QED
    BY <2>2 DEF CategoricalAssumption
<1>. QED
  BY <1>1

\* ... and after one.
LEMMA PartsMakeInv ==
    ASSUME CategoricalAssumption, Scalars', Columns', UnboundEmpty', LanesAndSlots', VerdictsOfCodes'
    PROVE  CodesInv'
<1>1. /\ closed' \in [Fields -> Distinct(Texts)] /\ Agreeing(closed', dict')
      /\ nullable' \in [Fields -> BOOLEAN]
  BY DEF Columns, Agreeing, Coherent, Full
<1>2. ColumnsCoherent'
  BY <1>1 DEF ColumnsCoherent, Agreeing, Coherent, Full
<1>3. \A f \in Fields :
          /\ ToSet(closed'[f]) \subseteq Texts /\ IsInjective(closed'[f])
          /\ ToSet(dict'[f]) \subseteq Texts \cup {EmptyText} /\ IsInjective(dict'[f])
          /\ Kind[f] = "CATEGORICAL" => Len(dict'[f]) <= Capacity
  BY <1>1, TypesOf
<1>4. ASSUME NEW i \in DOMAIN last'.cells, NEW f \in Fields
      PROVE  last'.cells[i][f].bits \subseteq 0 .. BitWidth - 1
  <2>1. PICK bits : bits = last'.cells[i][f].bits
    OBVIOUS
  <2>2. PICK items : items = last'.rows[i][f].items
    OBVIOUS
  <2>3. PICK c \in Distinct(Texts) : c = closed'[f]
    BY <1>1
  <2>4. /\ bits \subseteq {CodeIn(c, v) : v \in ToSet(items)} \ {-1}
        /\ bits # {} => Len(c) < BitWidth
    BY <2>1, <2>2, <2>3 DEF LanesAndSlots
  <2>. QED
    BY <2>1, <2>4, BitsTyped
<1>5. TypeOK'
  BY <1>1, <1>3, <1>4 DEF TypeOK, Scalars
<1>. QED
  BY <1>2, <1>5 DEF CodesInv

LEMMA InvHasParts ==
    ASSUME CodesInv
    PROVE  Scalars /\ Columns
<1>1. Scalars
  BY DEF CodesInv, TypeOK, Scalars
<1>2. Agreeing(closed, dict)
  BY DEF CodesInv, TypeOK, ColumnsCoherent, Agreeing
<1>. QED
  BY <1>1, <1>2 DEF Columns, CodesInv, ColumnsCoherent

\* At first there are no texts.
LEMMA InitCodes ==
    ASSUME CategoricalAssumption, Init
    PROVE  CodesInv
<1>1. <<>> \in Distinct(Texts) /\ <<>> \in Distinct(Texts \cup {EmptyText}) /\ Len(<<>>) = 0
  BY DEF Distinct, IsInjective
<1>2. Agreeing(closed, dict)
  BY <1>1 DEF Init, Agreeing, Coherent, CategoricalAssumption
<1>3. closed \in [Fields -> Distinct(Texts)] /\ nullable \in [Fields -> BOOLEAN]
  BY <1>1 DEF Init
<1>4. ColumnsCoherent
  BY <1>2, <1>3 DEF ColumnsCoherent, Agreeing
<1>5. last.rows = <<>> /\ last.cells = <<>> /\ last.lane = [f \in Fields |-> "texts"] /\ DOMAIN <<>> = {}
  BY DEF Init, NoBatch
<1>6. LanesAndSlots /\ VerdictsOfCodes
  BY <1>5 DEF LanesAndSlots, VerdictsOfCodes
<1>7. UnboundEmpty
  BY DEF Init, UnboundEmpty
<1>8. TypeOK
  <2>1. \A i \in DOMAIN last.cells : FALSE
    BY <1>5
  <2>2. \A f \in Fields :
          /\ ToSet(closed[f]) \subseteq Texts /\ IsInjective(closed[f])
          /\ ToSet(dict[f]) \subseteq Texts \cup {EmptyText} /\ IsInjective(dict[f])
          /\ Kind[f] = "CATEGORICAL" => Len(dict[f]) <= Capacity
    BY <1>2, <1>3, TypesOf
  <2>3. \A f \in Fields : nullable[f] \in BOOLEAN
    BY <1>3
  <2>4. /\ bound \in BOOLEAN /\ synthetic \in BOOLEAN /\ calls \in 0 .. MaxCalls
        /\ pending \in Rulesets \cup {NoRules} /\ active \in Rulesets \cup {NoRules}
    <3>1. 0 \in 0 .. MaxCalls
      BY DEF CategoricalAssumption
    <3>. QED
      BY <3>1 DEF Init
  <2>. QED
    BY <2>1, <2>2, <2>3, <2>4 DEF TypeOK
<1>. QED
  BY <1>4, <1>6, <1>7, <1>8 DEF CodesInv

LEMMA CallCounts ==
    ASSUME CategoricalAssumption, Call, calls \in 0 .. MaxCalls
    PROVE  calls' \in 0 .. MaxCalls
BY DEF Call, CategoricalAssumption

\* Loading rules keeps the codes, or starts again with the closed values.
LEMMA LoadKeeps ==
    ASSUME CategoricalAssumption, CodesInv, NEW rs \in Rulesets, Load(rs)
    PROVE  CodesInv'
<1>1. Scalars /\ Columns
  BY InvHasParts
<1>2. Capacity \in Nat /\ rs \in Rulesets \cup {NoRules} /\ rs.synthetic \in BOOLEAN
  BY DEF CategoricalAssumption
<1>3. Scalars'
  <2>1. calls' \in 0 .. MaxCalls
    BY <1>1, CallCounts DEF Load, Scalars
  <2>. QED
    BY <1>1, <1>2, <2>1 DEF Load, Scalars
<1>4. PICK c \in [Fields -> Distinct(Texts)] : c = closed /\ c = closed'
  BY <1>1 DEF Columns, Load
<1>5. Agreeing(c, dict')
  <2>1. Agreeing(c, dict) /\ Agreeing(c, FreshDict(c))
    BY <1>1, <1>2, <1>4, FreshAgrees DEF Columns
  <2>2. CASE ~bound
    BY <2>1, <2>2 DEF Load
  <2>3. CASE bound
    <3>1. PICK d : d = IF rs.synthetic /\ ~synthetic THEN FreshDict(c) ELSE dict
      OBVIOUS
    <3>2. Agreeing(c, d) /\ dict' = Preloaded(d, rs)
      BY <1>4, <2>1, <2>3, <3>1 DEF Load
    <3>. QED
      BY <1>2, <3>2, PreloadedAgrees
  <2>. QED
    BY <2>2, <2>3
<1>6. Columns'
  <2>1. nullable' \in [Fields -> BOOLEAN]
    BY <1>1 DEF Columns, Load
  <2>2. Agreeing(closed', dict')
    BY <1>4, <1>5
  <2>. QED
    BY <1>4, <2>1, <2>2 DEF Columns, Agreeing, Coherent, Full
<1>7. /\ last'.rows = <<>> /\ last'.cells = <<>> /\ last'.lane = [f \in Fields |-> "texts"]
      /\ DOMAIN <<>> = {}
  BY DEF Load, NoBatch
<1>8. LanesAndSlots' /\ VerdictsOfCodes'
  BY <1>7 DEF LanesAndSlots, VerdictsOfCodes
<1>9. UnboundEmpty'
  BY DEF CodesInv, UnboundEmpty, Load
<1>. QED
  BY <1>3, <1>6, <1>8, <1>9, PartsMakeInv

\* The first batch binds the schema, with closed values of its own.
LEMMA BindingKeeps ==
    ASSUME CategoricalAssumption, CodesInv, NEW rows \in JsonBatches \cup ArrowBatches,
           NEW json, NEW arrowNullable \in BOOLEAN, EnsureBound(rows, json, arrowNullable)
    PROVE  /\ bound' /\ bound' \in BOOLEAN /\ synthetic' \in BOOLEAN
           /\ pending' \in Rulesets \cup {NoRules} /\ active' \in Rulesets \cup {NoRules}
           /\ nullable' \in [Fields -> BOOLEAN] /\ closed' \in [Fields -> Distinct(Texts)]
           /\ Agreeing(closed', DictBefore)
           /\ bound => DictBefore = dict
<1>1. Scalars /\ Columns
  BY InvHasParts
<1>2. CASE bound
  BY <1>1, <1>2 DEF EnsureBound, Scalars, Columns, DictBefore
<1>3. CASE ~bound
  <2>1. /\ bound' = TRUE /\ pending' = NoRules /\ active' = pending
        /\ synthetic' = pending.synthetic
        /\ closed' = ClosedFor(pending, rows, json)
        /\ nullable' = NullableFor(rows, json, arrowNullable)
    BY <1>3 DEF EnsureBound
  <2>2. pending \in Rulesets \cup {NoRules}
    BY <1>1 DEF Scalars
  <2>3. closed' \in [Fields -> Distinct(Texts)]
    BY <2>1, <2>2, ClosedTyped
  <2>4. nullable' \in [Fields -> BOOLEAN]
    <3>. DEFINE of(f) == CASE Hint[f].nullable = "yes" -> TRUE
                           [] Hint[f].nullable = "no" -> FALSE
                           [] OTHER -> IF json THEN Null \in ToSet(Column(rows, f)) ELSE arrowNullable
    <3>1. ASSUME NEW f \in Fields PROVE of(f) \in BOOLEAN
      <4>1. CASE Hint[f].nullable = "yes"
        BY <4>1
      <4>2. CASE Hint[f].nullable = "no"
        BY <4>2
      <4>3. CASE Hint[f].nullable \notin {"yes", "no"}
        <5>1. of(f) = IF json THEN Null \in ToSet(Column(rows, f)) ELSE arrowNullable
          BY <4>3
        <5>2. (Null \in ToSet(Column(rows, f))) \in BOOLEAN
          OBVIOUS
        <5>. HIDE DEF of
        <5>3. CASE json
          BY <5>1, <5>2, <5>3, Zenon
        <5>4. CASE ~json
          BY <5>1, <5>4, Zenon
        <5>. QED
          BY <5>3, <5>4
      <4>. QED
        BY <4>1, <4>2, <4>3
    <3>2. NullableFor(rows, json, arrowNullable) = [f \in Fields |-> of(f)]
      BY DEF NullableFor
    <3>. HIDE DEF of
    <3>. QED
      BY <2>1, <3>1, <3>2
  <2>5. synthetic' \in BOOLEAN
    BY <2>1, <2>2, RulesetFacts
  <2>6. PICK c \in [Fields -> Distinct(Texts)] : c = closed'
    BY <2>3
  <2>7. Agreeing(c, FreshDict(c))
    BY FreshAgrees DEF CategoricalAssumption
  <2>8. PICK d : d = FreshDict(c)
    OBVIOUS
  <2>9. DictBefore = Preloaded(d, active')
    BY <1>3, <2>6, <2>8 DEF DictBefore
  <2>10. PICK rs \in Rulesets \cup {NoRules} : rs = active'
    BY <2>1, <2>2
  <2>11. Agreeing(c, Preloaded(d, rs))
    BY <2>7, <2>8, PreloadedAgrees
  <2>. QED
    BY <1>3, <2>1, <2>2, <2>3, <2>4, <2>5, <2>6, <2>9, <2>10, <2>11
<1>. QED
  BY <1>2, <1>3

\* The cells that a batch leaves, if each slot keeps its cell.
LEMMA BatchKeeps ==
    ASSUME NEW rows, last'.rows = rows, NEW cells, last'.cells = cells, DOMAIN cells = DOMAIN rows,
           NEW lane \in [Fields -> {"texts", "codes", "bits", "dictionary"}], last'.lane = lane,
           \A i \in DOMAIN rows, f \in Fields :
               SlotKeeps(lane[f], nullable'[f], closed'[f], dict'[f], rows[i][f], cells[i][f])
    PROVE  LanesAndSlots'
<1>1. ASSUME NEW i \in DOMAIN rows, NEW f \in Fields
      PROVE  /\ lane[f] = "bits" => Len(closed'[f]) < BitWidth
             /\ cells[i][f].bits # {} => lane[f] = "bits" /\ rows[i][f] # Null
             /\ cells[i][f].bits \subseteq {CodeIn(closed'[f], v) : v \in ToSet(rows[i][f].items)} \ {-1}
             /\ Fits(f, last.rows[i])' =>
                    Encodes(lane[f], closed'[f], dict'[f], rows[i][f], cells[i][f])
  <2>1. SlotKeeps(lane[f], nullable'[f], closed'[f], dict'[f], rows[i][f], cells[i][f])
    OBVIOUS
  <2>2. Fits(f, last.rows[i])' <=>
          (rows[i][f] = Null => nullable'[f]) /\ (rows[i][f].list => lane[f] = "bits")
    BY DEF Fits
  <2>. QED
    BY <2>1, <2>2 DEF SlotKeeps
<1>2. ASSUME NEW i \in DOMAIN last'.rows, NEW f \in Fields
      PROVE  (LET slot == last.cells[i][f]
              IN /\ last.lane[f] = "bits" => Len(closed[f]) < BitWidth
                 /\ slot.bits # {} => last.lane[f] = "bits" /\ last.rows[i][f] # Null
                 /\ slot.bits \subseteq {CodeIn(closed[f], v) : v \in ToSet(last.rows[i][f].items)} \ {-1}
                 /\ Fits(f, last.rows[i]) =>
                        Encodes(last.lane[f], closed[f], dict[f], last.rows[i][f], slot))'
  BY <1>1
<1>. QED
  BY <1>2 DEF LanesAndSlots

\* The verdicts are taken with the dictionary that the batch leaves.
LEMMA VerdictsKept ==
    ASSUME NEW rows, last'.rows = rows, NEW cells, last'.cells = cells, DOMAIN cells = DOMAIN rows,
           NEW lane, last'.lane = lane, NEW before, NEW noise \in SUBSET DOMAIN rows,
           last'.matched = Verdicts(active', before, dict', lane, cells, noise)
    PROVE  VerdictsOfCodes'
<1>1. ASSUME NEW k \in DOMAIN Predicates', NEW i \in DOMAIN last'.rows
      PROVE  i \in last'.matched[k] <=> Matches(Predicates'[k], dict', lane, cells, i, noise)
  <2>1. k \in DOMAIN active'.predicates /\ i \in DOMAIN cells
    BY <1>1 DEF Predicates
  <2>2. last'.matched[k] =
          {j \in DOMAIN cells : Matches(active'.predicates[k], dict', lane, cells, j, noise)}
    BY <2>1 DEF Verdicts, ResolvedAgainst
  <2>. QED
    BY <2>1, <2>2 DEF Predicates
<1>2. ASSUME NEW k \in DOMAIN Predicates', NEW i \in DOMAIN last'.rows
      PROVE  (\E chosen \in SUBSET DOMAIN last.rows :
                 Verdict(k, i) <=> Matches(Predicates[k], dict, last.lane, last.cells, i, chosen))'
  <2>1. Verdict(k, i)' <=> i \in last'.matched[k]
    BY DEF Verdict
  <2>2. noise \in SUBSET DOMAIN last'.rows
    OBVIOUS
  <2>. QED
    BY <1>1, <2>1, <2>2
<1>. QED
  BY <1>2 DEF VerdictsOfCodes

\* A batch of JSON records.
LEMMA JsonKeeps ==
    ASSUME CategoricalAssumption, CodesInv, NEW rows \in JsonBatches, EvaluateJson(rows)
    PROVE  CodesInv' /\ (bound => \A f \in Fields : Extends(dict[f], dict'[f]))
<1>1. Scalars /\ Columns
  BY InvHasParts
<1>2. EnsureBound(rows, TRUE, TRUE) /\ Call
  BY DEF EvaluateJson
<1>3. /\ bound' /\ bound' \in BOOLEAN /\ synthetic' \in BOOLEAN
      /\ pending' \in Rulesets \cup {NoRules} /\ active' \in Rulesets \cup {NoRules}
      /\ nullable' \in [Fields -> BOOLEAN] /\ closed' \in [Fields -> Distinct(Texts)]
      /\ Agreeing(closed', DictBefore)
      /\ bound => DictBefore = dict
  BY <1>2, BindingKeeps
<1>4. PICK before : before = DictBefore
  OBVIOUS
<1>5. PICK adds : adds = [f \in Fields |-> JsonAdds(f, rows)]
  OBVIOUS
<1>6. PICK lane : lane = [f \in Fields |-> JsonLane(f)]
  OBVIOUS
<1>7. dict' = [f \in Fields |-> AddedAll(f, before[f], adds[f])]
  BY <1>4, <1>5 DEF EvaluateJson
<1>8. PICK cells : cells = [i \in DOMAIN rows |-> [f \in Fields |-> JsonSlot(f, rows[i][f], dict'[f])]]
  OBVIOUS
<1>9. PICK noise \in Noise(lane, rows) :
          last' = [rows |-> rows, lane |-> lane, cells |-> cells,
                   matched |-> Verdicts(active', before, dict', lane, cells, noise)]
  BY <1>4, <1>6, <1>8 DEF EvaluateJson
<1>10. noise \in SUBSET DOMAIN rows
  BY DEF Noise
<1>11. Agreeing(closed', dict') /\ \A f \in Fields : Extends(before[f], dict'[f])
  <2>1. \A f \in Fields : adds[f] \in Seq(Texts \cup {EmptyText})
    BY <1>5, JsonAddsTyped
  <2>2. PICK c \in [Fields -> Distinct(Texts)] : c = closed'
    BY <1>3
  <2>3. PICK e : e = dict'
    OBVIOUS
  <2>4. Agreeing(c, before)
    BY <1>3, <1>4, <2>2
  <2>5. e = [f \in Fields |-> AddedAll(f, before[f], adds[f])]
    BY <1>7, <2>3
  <2>6. Capacity \in Nat
    BY DEF CategoricalAssumption
  <2>7. Agreeing(c, e) /\ \A f \in Fields : Extends(before[f], e[f])
    BY <2>1, <2>4, <2>5, <2>6, AddsAgree
  <2>. QED
    BY <2>2, <2>3, <2>7
<1>12. Columns'
  BY <1>3, <1>11 DEF Columns, Agreeing, Coherent, Full
<1>13. Scalars'
  BY <1>1, <1>2, <1>3, CallCounts DEF Scalars
<1>14. LanesAndSlots'
  <2>1. lane \in [Fields -> {"texts", "codes", "bits", "dictionary"}]
    BY <1>6 DEF JsonLane
  <2>2. ASSUME NEW i \in DOMAIN rows, NEW f \in Fields
        PROVE  SlotKeeps(lane[f], nullable'[f], closed'[f], dict'[f], rows[i][f], cells[i][f])
    <3>1. closed'[f] \in Distinct(Texts) /\ nullable'[f] \in BOOLEAN
      BY <1>3
    <3>2. IsCell(rows[i][f])
      BY RowsFacts
    <3>3. cells[i][f] = JsonSlot(f, rows[i][f], dict'[f]) /\ lane[f] = JsonLane(f)
      BY <1>6, <1>8
    <3>4. PICK cell, d : cell = rows[i][f] /\ d = dict'[f]
      OBVIOUS
    <3>5. SlotKeeps(JsonLane(f), nullable'[f], closed'[f], d, cell, JsonSlot(f, cell, d))
      BY <3>1, <3>2, <3>4, JsonSlotKeeps
    <3>. QED
      BY <3>3, <3>4, <3>5
  <2>3. DOMAIN cells = DOMAIN rows
    BY <1>8
  <2>4. last'.rows = rows /\ last'.cells = cells /\ last'.lane = lane
    BY <1>9
  <2>. QED
    BY <2>1, <2>2, <2>3, <2>4, BatchKeeps
<1>15. VerdictsOfCodes'
  <2>1. DOMAIN cells = DOMAIN rows
    BY <1>8
  <2>2. /\ last'.rows = rows /\ last'.cells = cells /\ last'.lane = lane
        /\ last'.matched = Verdicts(active', before, dict', lane, cells, noise)
    BY <1>9
  <2>. QED
    BY <1>10, <2>1, <2>2, VerdictsKept
<1>16. UnboundEmpty'
  BY <1>3 DEF UnboundEmpty
<1>17. CodesInv'
  BY <1>12, <1>13, <1>14, <1>15, <1>16, PartsMakeInv
<1>. QED
  BY <1>3, <1>4, <1>11, <1>17

\* A record batch.
LEMMA ArrowKeeps ==
    ASSUME CodesInv, NEW rows \in ArrowBatches,
           NEW form \in {"texts", "dictionary"}, EvaluateArrow(rows, form)
    PROVE  CodesInv' /\ (bound => \A f \in Fields : Extends(dict[f], dict'[f]))
<1>1. Scalars /\ Columns
  BY InvHasParts
<1>2. PICK arrowNullable \in BOOLEAN : EnsureBound(rows, FALSE, arrowNullable)
  BY DEF EvaluateArrow
<1>3. /\ bound' /\ bound' \in BOOLEAN /\ synthetic' \in BOOLEAN
      /\ pending' \in Rulesets \cup {NoRules} /\ active' \in Rulesets \cup {NoRules}
      /\ nullable' \in [Fields -> BOOLEAN] /\ closed' \in [Fields -> Distinct(Texts)]
      /\ Agreeing(closed', DictBefore)
      /\ bound => DictBefore = dict
  BY <1>2, CategoricalAssumption, BindingKeeps
<1>4. PICK before : before = DictBefore
  OBVIOUS
<1>5. PICK sent \in [Fields -> Dictionaries] :
          LET adds == [f \in Fields |-> IF form = "texts" THEN TextsOf(rows, f) ELSE sent[f]]
              after == [f \in Fields |-> AddedAll(f, DictBefore[f], adds[f])]
              lane == [f \in Fields |-> form]
              cells == [i \in DOMAIN rows |->
                          [f \in Fields |-> ArrowSlot(rows[i][f], after[f], form)]]
          IN /\ dict' = after
             /\ last' = [rows |-> rows, lane |-> lane, cells |-> cells,
                         matched |-> Verdicts(active', DictBefore, after, lane, cells, {})]
  BY Zenon DEF EvaluateArrow
<1>6. PICK adds : adds = [f \in Fields |-> IF form = "texts" THEN TextsOf(rows, f) ELSE sent[f]]
  OBVIOUS
<1>7. PICK lane : lane = [f \in Fields |-> form]
  OBVIOUS
<1>8. dict' = [f \in Fields |-> AddedAll(f, before[f], adds[f])]
  BY <1>4, <1>5, <1>6
<1>9. PICK cells : cells = [i \in DOMAIN rows |-> [f \in Fields |-> ArrowSlot(rows[i][f], dict'[f], form)]]
  OBVIOUS
<1>10. last' = [rows |-> rows, lane |-> lane, cells |-> cells,
                matched |-> Verdicts(active', before, dict', lane, cells, {})]
  BY <1>4, <1>5, <1>6, <1>7, <1>8, <1>9
<1>11. Agreeing(closed', dict') /\ \A f \in Fields : Extends(before[f], dict'[f])
  <2>1. \A f \in Fields : adds[f] \in Seq(Texts \cup {EmptyText})
    <3>1. ASSUME NEW f \in Fields PROVE adds[f] \in Seq(Texts \cup {EmptyText})
      <4>1. TextsOf(rows, f) \in Seq(Texts) /\ sent[f] \in Seq(Texts)
        BY CategoricalAssumption, TextsTyped
      <4>2. adds[f] \in Seq(Texts)
        BY <1>6, <4>1
      <4>. QED
        BY <4>2
    <3>. QED
      BY <3>1
  <2>2. PICK c \in [Fields -> Distinct(Texts)] : c = closed'
    BY <1>3
  <2>3. PICK e : e = dict'
    OBVIOUS
  <2>4. Agreeing(c, before)
    BY <1>3, <1>4, <2>2
  <2>5. e = [f \in Fields |-> AddedAll(f, before[f], adds[f])]
    BY <1>8, <2>3
  <2>6. Capacity \in Nat
    BY CategoricalAssumption
  <2>7. Agreeing(c, e) /\ \A f \in Fields : Extends(before[f], e[f])
    BY <2>1, <2>4, <2>5, <2>6, AddsAgree
  <2>. QED
    BY <2>2, <2>3, <2>7
<1>12. Columns'
  BY <1>3, <1>11 DEF Columns, Agreeing, Coherent, Full
<1>13. Scalars'
  <2>1. Call
    BY DEF EvaluateArrow
  <2>. QED
    BY <1>1, <1>3, <2>1, CategoricalAssumption, CallCounts DEF Scalars
<1>14. LanesAndSlots'
  <2>1. lane \in [Fields -> {"texts", "codes", "bits", "dictionary"}]
    BY <1>7
  <2>2. ASSUME NEW i \in DOMAIN rows, NEW f \in Fields
        PROVE  SlotKeeps(lane[f], nullable'[f], closed'[f], dict'[f], rows[i][f], cells[i][f])
    <3>1. PICK nulls \in BOOLEAN : nulls = nullable'[f]
      BY <1>3
    <3>. PICK c : c = closed'[f]
      OBVIOUS
    <3>2. PICK d \in Distinct(Texts \cup {EmptyText}) : d = dict'[f]
      BY <1>11 DEF Agreeing
    <3>3. cells[i][f] = ArrowSlot(rows[i][f], d, form) /\ lane[f] = form
      BY <1>7, <1>9, <3>2
    <3>4. SlotKeeps(form, nulls, c, d, rows[i][f], ArrowSlot(rows[i][f], d, form))
      BY ArrowRowKeeps
    <3>. QED
      BY <3>1, <3>2, <3>3, <3>4
  <2>3. DOMAIN cells = DOMAIN rows
    BY <1>9
  <2>4. last'.rows = rows /\ last'.cells = cells /\ last'.lane = lane
    BY <1>10
  <2>. QED
    BY <2>1, <2>2, <2>3, <2>4, BatchKeeps
<1>15. VerdictsOfCodes'
  <2>1. DOMAIN cells = DOMAIN rows
    BY <1>9
  <2>2. /\ last'.rows = rows /\ last'.cells = cells /\ last'.lane = lane
        /\ last'.matched = Verdicts(active', before, dict', lane, cells, {})
    BY <1>10
  <2>3. {} \in SUBSET DOMAIN rows
    OBVIOUS
  <2>. QED
    BY <2>1, <2>2, <2>3, VerdictsKept
<1>16. UnboundEmpty'
  BY <1>3 DEF UnboundEmpty
<1>17. CodesInv'
  BY <1>12, <1>13, <1>14, <1>15, <1>16, CategoricalAssumption, PartsMakeInv
<1>. QED
  BY <1>3, <1>4, <1>11, <1>17

\* Nothing changes.
LEMMA StutterKeeps ==
    ASSUME CodesInv, UNCHANGED vars
    PROVE  CodesInv'
<1>1. TypeOK'
  BY DEF CodesInv, TypeOK, vars
<1>2. ColumnsCoherent'
  BY DEF CodesInv, ColumnsCoherent, Coherent, Full, vars
<1>3. LanesAndSlots'
  BY DEF CodesInv, LanesAndSlots, Fits, vars
<1>4. VerdictsOfCodes'
  BY DEF CodesInv, VerdictsOfCodes, Verdict, Predicates, vars
<1>5. UnboundEmpty'
  BY DEF CodesInv, UnboundEmpty, vars
<1>. QED
  BY <1>1, <1>2, <1>3, <1>4, <1>5 DEF CodesInv

-----------------------------------------------------------------------------
(* The theorems.                                                           *)

\* The codes of the closed values and of the dictionary never contradict each other,
\* and every slot and verdict of the last batch is what these codes make of it.
THEOREM CodesInvariant == Spec => []CodesInv
<1>1. Init => CodesInv
  BY CategoricalAssumption, InitCodes
<1>2. CodesInv /\ [Next]_vars => CodesInv'
  <2>1. SUFFICES ASSUME CodesInv, [Next]_vars PROVE CodesInv'
    OBVIOUS
  <2>2. ASSUME NEW rs \in Rulesets, Load(rs) PROVE CodesInv'
    BY <2>1, <2>2, CategoricalAssumption, LoadKeeps
  <2>3. ASSUME NEW rows \in JsonBatches, EvaluateJson(rows) PROVE CodesInv'
    BY <2>1, <2>3, CategoricalAssumption, JsonKeeps
  <2>4. ASSUME NEW rows \in ArrowBatches, NEW form \in {"texts", "dictionary"}, EvaluateArrow(rows, form)
        PROVE  CodesInv'
    BY <2>1, <2>4, ArrowKeeps
  <2>5. CASE UNCHANGED vars
    BY <2>1, <2>5, StutterKeeps
  <2>6. CASE Next
    BY <2>2, <2>3, <2>4, <2>5, <2>6 DEF Next, Stopped
  <2>. QED
    BY <2>1, <2>5, <2>6
<1>. QED
  BY <1>1, <1>2, PTL DEF Spec

\* The variables of Categorical have their types: a dictionary has no text twice and
\* keeps to its capacity, and a mask to its width.
THEOREM CategoricalTypeCorrect == Spec => []TypeOK
<1>1. CodesInv => TypeOK
  BY DEF CodesInv
<1>. QED
  BY <1>1, CodesInvariant, PTL

\* Where a list of CONTAINS_ALL is not empty and has no value twice, a literal or a
\* lookup whose texts have codes decides every row by the texts (VerdictsExact): on
\* masks, on codes, on the column's dictionary and on an Arrow dictionary, however the
\* dictionary grew, and whatever was loaded before.
THEOREM VerdictsCorrect ==
    ASSUME ListedOnce
    PROVE  Spec => []VerdictsExact
<1>1. CodesInv => VerdictsExact
  <2>1. SUFFICES ASSUME CodesInv, NEW k \in DOMAIN Predicates, NEW i \in DOMAIN last.rows,
                        NEW p, p = Predicates[k], p.op \in Literal \cup Lookup, Covered(p),
                        Fits(p.field, last.rows[i]),
                        last.lane[p.field] = "dictionary" => Known(p.field, last.rows[i])
                 PROVE  Verdict(k, i) <=> Says(p, last.rows[i])
    BY DEF VerdictsExact
  <2>2. PICK noise \in SUBSET DOMAIN last.rows :
            Verdict(k, i) <=> Matches(Predicates[k], dict, last.lane, last.cells, i, noise)
    BY <2>1 DEF CodesInv, VerdictsOfCodes
  <2>3. Matches(p, dict, last.lane, last.cells, i, noise) <=> Says(p, last.rows[i])
    BY <2>1, CategoricalAssumption, PredicateDecides
  <2>. QED
    BY <2>1, <2>2, <2>3
<1>. QED
  BY <1>1, CodesInvariant, PTL

\* A code that a slot has and the dictionary knows is that of a text of the cell,
\* whether the slot took it from the closed values or from the dictionary.
THEOREM CodesMeanTexts == Spec => []CodesAgree
<1>1. CodesInv => CodesAgree
  <2>1. SUFFICES ASSUME CodesInv, NEW i \in DOMAIN last.rows, NEW f \in Fields,
                        NEW s, s = last.cells[i][f], NEW cell, cell = last.rows[i][f],
                        NEW lane, lane = last.lane[f]
                 PROVE  /\ (s.valid /\ lane # "bits" /\ s.code \in 0 .. Len(dict[f]) - 1 /\ Fits(f, last.rows[i]))
                              => dict[f][s.code + 1] \in ToSet(cell.items)
                        /\ \A id \in s.bits : id < Len(dict[f]) => dict[f][id + 1] \in ToSet(cell.items)
    BY DEF CodesAgree
  <2>2. PICK c \in Distinct(Texts) : c = closed[f]
    BY <2>1 DEF CodesInv, ColumnsCoherent
  <2>3. PICK d \in Distinct(Texts \cup {EmptyText}) : d = dict[f]
    BY <2>1 DEF CodesInv, ColumnsCoherent
  <2>4. \A m \in DOMAIN c \cap DOMAIN d : c[m] = d[m]
    BY <2>1, <2>2, <2>3 DEF CodesInv, ColumnsCoherent, Coherent
  <2>5. /\ Len(c) \in Nat /\ DOMAIN c = 1 .. Len(c)
        /\ Len(d) \in Nat /\ DOMAIN d = 1 .. Len(d)
    BY DistinctFacts
  <2>6. ASSUME NEW v, NEW code, code = CodeIn(c, v), code # -1, code < Len(d)
        PROVE  d[code + 1] = v
    <3>1. code \in 0 .. Len(c) - 1 /\ code + 1 \in DOMAIN c /\ c[code + 1] = v
      BY <2>6, CodeIs
    <3>. QED
      BY <2>4, <2>5, <2>6, <3>1
  <2>7. ASSUME s.valid, lane # "bits", s.code \in 0 .. Len(d) - 1, Fits(f, last.rows[i])
        PROVE  d[s.code + 1] \in ToSet(cell.items)
    <3>1. Encodes(lane, c, d, cell, s)
      BY <2>1, <2>2, <2>3, <2>7 DEF CodesInv, LanesAndSlots
    <3>2. PICK v \in Texts : cell = Text(v) /\ s.code = CodeIn(IF lane = "codes" THEN c ELSE d, v)
      BY <2>7, <3>1 DEF Encodes
    <3>3. ToSet(cell.items) = {v}
      <4>1. cell.items = <<v>>
        BY <3>2 DEF Text
      <4>. QED
        BY <4>1 DEF ToSet
    <3>4. CASE lane = "codes"
      <4>1. s.code = CodeIn(c, v) /\ s.code # -1 /\ s.code < Len(d)
        BY <2>5, <2>7, <3>2, <3>4
      <4>. QED
        BY <2>6, <3>3, <4>1
    <3>5. CASE lane # "codes"
      <4>1. s.code = CodeIn(d, v) /\ s.code # -1
        BY <2>5, <2>7, <3>2, <3>5
      <4>. QED
        BY <3>3, <4>1, CodeIs
    <3>. QED
      BY <3>4, <3>5
  <2>8. ASSUME NEW id \in s.bits, id < Len(d)
        PROVE  d[id + 1] \in ToSet(cell.items)
    <3>1. s.bits \subseteq {CodeIn(c, v) : v \in ToSet(cell.items)} \ {-1}
      BY <2>1, <2>2 DEF CodesInv, LanesAndSlots
    <3>2. PICK v \in ToSet(cell.items) : id = CodeIn(c, v) /\ id # -1
      BY <3>1
    <3>. QED
      BY <2>6, <2>8, <3>2
  <2>. QED
    BY <2>3, <2>7, <2>8
<1>. QED
  BY <1>1, CodesInvariant, PTL

\* A sequence is a prefix of one that continues it.
LEMMA ExtendsIsPrefix ==
    ASSUME NEW T, NEW d \in Distinct(T), NEW e \in Distinct(T), Extends(d, e)
    PROVE  IsPrefix(d, e)
<1>1. /\ d \in Seq(T) /\ Len(d) \in Nat /\ DOMAIN d = 1 .. Len(d)
      /\ e \in Seq(T) /\ Len(e) \in Nat /\ DOMAIN e = 1 .. Len(e)
  BY DistinctFacts
<1>2. PICK s, t : s = SubSeq(d, 1, Len(d)) /\ t = SubSeq(e, 1, Len(d))
  OBVIOUS
<1>3. Len(d) <= Len(e) /\ \A i \in 1 .. Len(d) : e[i] = d[i]
  BY <1>1 DEF Extends
<1>4. s = [i \in 1 .. Len(d) |-> d[i]] /\ t = [i \in 1 .. Len(d) |-> e[i]]
  BY <1>1, <1>2, <1>3
<1>5. s = t
  BY <1>3, <1>4
<1>. QED
  BY <1>2, <1>3, <1>5 DEF IsPrefix

\* Within one encoder a code is never given to another text; only the encoder of a
\* changed schema starts again, from the closed values.
THEOREM CodesStay == Spec => CodesKept
<1>. DEFINE Kept(f) == \/ IsPrefix(dict[f], dict'[f])
                       \/ ~synthetic /\ synthetic' /\ IsPrefix(FreshDict(closed)[f], dict'[f])
<1>1. CodesInv /\ CodesInv' /\ [Next]_vars => [\A f \in Fields : Kept(f)]_vars
  <2>1. SUFFICES ASSUME CodesInv, CodesInv', Next, NEW f \in Fields PROVE Kept(f)
    OBVIOUS
  <2>2. /\ dict[f] \in Distinct(Texts \cup {EmptyText})
        /\ dict'[f] \in Distinct(Texts \cup {EmptyText})
        /\ closed \in [Fields -> Distinct(Texts)]
    BY <2>1 DEF CodesInv, ColumnsCoherent
  <2>3. Extends(dict[f], dict'[f]) => Kept(f)
    BY <2>2, ExtendsIsPrefix
  <2>4. ASSUME NEW rs \in Rulesets, Load(rs) PROVE Kept(f)
    <3>1. Scalars /\ Columns
      BY <2>1, InvHasParts
    <3>2. CASE ~bound
      <4>1. dict'[f] = dict[f]
        BY <2>4, <3>2 DEF Load
      <4>. QED
        BY <2>2, <2>3, <4>1, DistinctFacts
    <3>3. CASE bound
      <4>1. Capacity \in Nat /\ rs \in Rulesets \cup {NoRules} /\ rs.synthetic \in BOOLEAN
        BY CategoricalAssumption
      <4>2. PICK c \in [Fields -> Distinct(Texts)] : c = closed
        BY <2>2
      <4>3. Agreeing(c, dict) /\ Agreeing(c, FreshDict(c))
        BY <3>1, <4>1, <4>2, FreshAgrees DEF Columns
      <4>4. PICK d : d = IF rs.synthetic /\ ~synthetic THEN FreshDict(c) ELSE dict
        OBVIOUS
      <4>5. Agreeing(c, d) /\ dict' = Preloaded(d, rs)
        BY <2>4, <3>3, <4>2, <4>3, <4>4 DEF Load
      <4>6. Extends(d[f], dict'[f])
        <5>1. \A g \in Fields : Extends(d[g], Preloaded(d, rs)[g])
          BY <4>1, <4>5, CategoricalAssumption, PreloadedAgrees
        <5>. QED
          BY <4>5, <5>1
      <4>7. CASE rs.synthetic /\ ~synthetic
        <5>1. IsPrefix(d[f], dict'[f])
          BY <2>2, <4>5, <4>6, ExtendsIsPrefix DEF Agreeing
        <5>2. synthetic' /\ d = FreshDict(closed)
          BY <2>4, <3>3, <4>2, <4>4, <4>7 DEF Load
        <5>. QED
          BY <4>7, <5>1, <5>2
      <4>8. CASE ~(rs.synthetic /\ ~synthetic)
        BY <2>3, <4>4, <4>6, <4>8
      <4>. QED
        BY <4>7, <4>8
    <3>. QED
      BY <3>2, <3>3
  <2>5. (bound => \A g \in Fields : Extends(dict[g], dict'[g])) => Kept(f)
    <3>1. CASE bound
      BY <2>3, <3>1
    <3>2. CASE ~bound
      <4>1. dict[f] = <<>>
        BY <2>1, <3>2 DEF CodesInv, UnboundEmpty
      <4>2. Len(dict'[f]) \in Nat /\ Len(<<>>) = 0 /\ DOMAIN <<>> = {}
        BY <2>2, DistinctFacts
      <4>3. Extends(dict[f], dict'[f])
        BY <4>1, <4>2 DEF Extends
      <4>. QED
        BY <2>3, <4>3
    <3>. QED
      BY <3>1, <3>2
  <2>6. ASSUME NEW rows \in JsonBatches, EvaluateJson(rows) PROVE Kept(f)
    BY <2>1, <2>5, <2>6, CategoricalAssumption, JsonKeeps
  <2>7. ASSUME NEW rows \in ArrowBatches, NEW form \in {"texts", "dictionary"}, EvaluateArrow(rows, form)
        PROVE  Kept(f)
    BY <2>1, <2>5, <2>7, ArrowKeeps
  <2>8. CASE Stopped
    <3>1. dict'[f] = dict[f]
      BY <2>8 DEF Stopped, vars
    <3>. QED
      BY <2>2, <2>3, <3>1, DistinctFacts
  <2>. HIDE DEF Kept
  <2>. QED
    BY <2>1, <2>4, <2>6, <2>7, <2>8 DEF Next
<1>. QED
  BY <1>1, CodesInvariant, PTL DEF Spec, CodesKept
=============================================================================
