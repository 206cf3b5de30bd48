------------------------- MODULE WindowStoreProofs -------------------------
(***************************************************************************)
(* Proofs about WindowStore: for any channels, entities, batches, clock,   *)
(* evictions and resets, a counter never drifts from the history that it   *)
(* does not keep, and a row reads exactly its window.                      *)
(***************************************************************************)
EXTENDS WindowStoreInv, FoldTheorems

-----------------------------------------------------------------------------
(* The sums of the module.                                                 *)

ValuesOf(S) == MapThenSumSet(Value, S)
CountsOf(S) == MapThenSumSet(Count, S)
BatchSum(c, batch, S) == LET D(i) == DeltaOf(c, batch[i]) IN MapThenSumSet(D, S)
BatchCount(c, batch, S) == LET N(i) == CountOf(c, batch[i]) IN MapThenSumSet(N, S)
HistorySum(c, S) == LET D(h) == DeltaOf(c, h.row) IN MapThenSumSet(D, S)
HistoryCount(c, S) == LET N(h) == CountOf(c, h.row) IN MapThenSumSet(N, S)

\* What MapThenSumSet gives for the values of buckets,
LEMMA ValueSum ==
    ASSUME NEW S, IsFiniteSet(S), NEW f, \A x \in S : f[x] = x.value /\ x.value \in Int
    PROVE  ValuesOf(S) = Sum(f, S)
<1>1. PICK g : AddsUp(g, S, f)
  BY AddsUpExists
<1>. DEFINE value(h, s) == IF s = {} THEN 0 ELSE (Chosen(s)).value + h[s \ {Chosen(s)}]
<1>2. \A h, s : s \in SUBSET S =>
        value(h, s) = IF s = {} THEN 0 ELSE f[Chosen(s)] + h[s \ {Chosen(s)}]
  BY ChosenIn
<1>3. \A h : AddsUp(h, S, f) <=> h = [s \in SUBSET S |-> value(h, s)]
  <2>. HIDE DEF value
  <2>. QED
    BY <1>2 DEF AddsUp
<1>. DEFINE iter == CHOOSE h : h = [s \in SUBSET S |-> value(h, s)]
<1>4. AddsUp(iter, S, f)
  <2>. HIDE DEF value
  <2>. QED
    BY <1>1, <1>3
<1>5. ValuesOf(S) = iter[S]
  BY DEF ValuesOf, MapThenSumSet, MapThenFoldSet, Value, Chosen
<1>. HIDE DEF iter
<1>. QED
  BY <1>4, <1>5, SumIs

\* ... for their counts,
LEMMA CountSum ==
    ASSUME NEW S, IsFiniteSet(S), NEW f, \A x \in S : f[x] = x.count /\ x.count \in Int
    PROVE  CountsOf(S) = Sum(f, S)
<1>1. PICK g : AddsUp(g, S, f)
  BY AddsUpExists
<1>. DEFINE value(h, s) == IF s = {} THEN 0 ELSE (Chosen(s)).count + h[s \ {Chosen(s)}]
<1>2. \A h, s : s \in SUBSET S =>
        value(h, s) = IF s = {} THEN 0 ELSE f[Chosen(s)] + h[s \ {Chosen(s)}]
  BY ChosenIn
<1>3. \A h : AddsUp(h, S, f) <=> h = [s \in SUBSET S |-> value(h, s)]
  <2>. HIDE DEF value
  <2>. QED
    BY <1>2 DEF AddsUp
<1>. DEFINE iter == CHOOSE h : h = [s \in SUBSET S |-> value(h, s)]
<1>4. AddsUp(iter, S, f)
  <2>. HIDE DEF value
  <2>. QED
    BY <1>1, <1>3
<1>5. CountsOf(S) = iter[S]
  BY DEF CountsOf, MapThenSumSet, MapThenFoldSet, Count, Chosen
<1>. HIDE DEF iter
<1>. QED
  BY <1>4, <1>5, SumIs

\* ... for what the rows of a batch add,
LEMMA BatchDeltas ==
    ASSUME NEW S, IsFiniteSet(S), NEW f, NEW c, NEW batch,
           \A x \in S : f[x] = DeltaOf(c, batch[x]) /\ DeltaOf(c, batch[x]) \in Int
    PROVE  BatchSum(c, batch, S) = Sum(f, S)
<1>1. PICK g : AddsUp(g, S, f)
  BY AddsUpExists
<1>. DEFINE value(h, s) == IF s = {} THEN 0 ELSE DeltaOf(c, batch[(Chosen(s))]) + h[s \ {Chosen(s)}]
<1>2. \A h, s : s \in SUBSET S =>
        value(h, s) = IF s = {} THEN 0 ELSE f[Chosen(s)] + h[s \ {Chosen(s)}]
  BY ChosenIn
<1>3. \A h : AddsUp(h, S, f) <=> h = [s \in SUBSET S |-> value(h, s)]
  <2>. HIDE DEF value
  <2>. QED
    BY <1>2 DEF AddsUp
<1>. DEFINE iter == CHOOSE h : h = [s \in SUBSET S |-> value(h, s)]
<1>4. AddsUp(iter, S, f)
  <2>. HIDE DEF value
  <2>. QED
    BY <1>1, <1>3
<1>5. BatchSum(c, batch, S) = iter[S]
  BY DEF BatchSum, MapThenSumSet, MapThenFoldSet, Chosen
<1>. HIDE DEF iter
<1>. QED
  BY <1>4, <1>5, SumIs

\* ... to the counts too,
LEMMA BatchCounts ==
    ASSUME NEW S, IsFiniteSet(S), NEW f, NEW c, NEW batch,
           \A x \in S : f[x] = CountOf(c, batch[x]) /\ CountOf(c, batch[x]) \in Int
    PROVE  BatchCount(c, batch, S) = Sum(f, S)
<1>1. PICK g : AddsUp(g, S, f)
  BY AddsUpExists
<1>. DEFINE value(h, s) == IF s = {} THEN 0 ELSE CountOf(c, batch[(Chosen(s))]) + h[s \ {Chosen(s)}]
<1>2. \A h, s : s \in SUBSET S =>
        value(h, s) = IF s = {} THEN 0 ELSE f[Chosen(s)] + h[s \ {Chosen(s)}]
  BY ChosenIn
<1>3. \A h : AddsUp(h, S, f) <=> h = [s \in SUBSET S |-> value(h, s)]
  <2>. HIDE DEF value
  <2>. QED
    BY <1>2 DEF AddsUp
<1>. DEFINE iter == CHOOSE h : h = [s \in SUBSET S |-> value(h, s)]
<1>4. AddsUp(iter, S, f)
  <2>. HIDE DEF value
  <2>. QED
    BY <1>1, <1>3
<1>5. BatchCount(c, batch, S) = iter[S]
  BY DEF BatchCount, MapThenSumSet, MapThenFoldSet, Chosen
<1>. HIDE DEF iter
<1>. QED
  BY <1>4, <1>5, SumIs

\* ... and for the rows of the history.
LEMMA HistoryDeltas ==
    ASSUME NEW S, IsFiniteSet(S), NEW f, NEW c,
           \A x \in S : f[x] = DeltaOf(c, x.row) /\ DeltaOf(c, x.row) \in Int
    PROVE  HistorySum(c, S) = Sum(f, S)
<1>1. PICK g : AddsUp(g, S, f)
  BY AddsUpExists
<1>. DEFINE value(h, s) == IF s = {} THEN 0 ELSE DeltaOf(c, (Chosen(s)).row) + h[s \ {Chosen(s)}]
<1>2. \A h, s : s \in SUBSET S =>
        value(h, s) = IF s = {} THEN 0 ELSE f[Chosen(s)] + h[s \ {Chosen(s)}]
  BY ChosenIn
<1>3. \A h : AddsUp(h, S, f) <=> h = [s \in SUBSET S |-> value(h, s)]
  <2>. HIDE DEF value
  <2>. QED
    BY <1>2 DEF AddsUp
<1>. DEFINE iter == CHOOSE h : h = [s \in SUBSET S |-> value(h, s)]
<1>4. AddsUp(iter, S, f)
  <2>. HIDE DEF value
  <2>. QED
    BY <1>1, <1>3
<1>5. HistorySum(c, S) = iter[S]
  BY DEF HistorySum, MapThenSumSet, MapThenFoldSet, Chosen
<1>. HIDE DEF iter
<1>. QED
  BY <1>4, <1>5, SumIs

\* ... (Counts.)
LEMMA HistoryCounts ==
    ASSUME NEW S, IsFiniteSet(S), NEW f, NEW c,
           \A x \in S : f[x] = CountOf(c, x.row) /\ CountOf(c, x.row) \in Int
    PROVE  HistoryCount(c, S) = Sum(f, S)
<1>1. PICK g : AddsUp(g, S, f)
  BY AddsUpExists
<1>. DEFINE value(h, s) == IF s = {} THEN 0 ELSE CountOf(c, (Chosen(s)).row) + h[s \ {Chosen(s)}]
<1>2. \A h, s : s \in SUBSET S =>
        value(h, s) = IF s = {} THEN 0 ELSE f[Chosen(s)] + h[s \ {Chosen(s)}]
  BY ChosenIn
<1>3. \A h : AddsUp(h, S, f) <=> h = [s \in SUBSET S |-> value(h, s)]
  <2>. HIDE DEF value
  <2>. QED
    BY <1>2 DEF AddsUp
<1>. DEFINE iter == CHOOSE h : h = [s \in SUBSET S |-> value(h, s)]
<1>4. AddsUp(iter, S, f)
  <2>. HIDE DEF value
  <2>. QED
    BY <1>1, <1>3
<1>5. HistoryCount(c, S) = iter[S]
  BY DEF HistoryCount, MapThenSumSet, MapThenFoldSet, Chosen
<1>. HIDE DEF iter
<1>. QED
  BY <1>4, <1>5, SumIs

-----------------------------------------------------------------------------
(* What rows add up to.                                                    *)

\* A row of a batch gives every channel numbers.
RowTyped(row) == \A c \in Channels : DeltaOf(c, row) \in Int /\ CountOf(c, row) \in Int

LEMMA BatchRowTyped ==
    ASSUME NEW batch \in Batches, NEW i \in DOMAIN batch
    PROVE  RowTyped(batch[i])
<1>. SUFFICES ASSUME NEW c \in Channels
              PROVE  DeltaOf(c, batch[i]) \in Int /\ CountOf(c, batch[i]) \in Int
  BY DEF RowTyped
<1>1. c.sum # Null => batch[i][c.sum] \in Int \cup {Null}
  BY WindowAssumption
<1>2. c.fn = "RATIO" => batch[i][c.denom] \in Int \cup {Null}
  BY WindowAssumption
<1>3. DeltaOf(c, batch[i]) \in Int
  BY <1>1 DEF DeltaOf
<1>4. CountOf(c, batch[i]) \in Int
  BY <1>2 DEF CountOf
<1>. QED
  BY <1>3, <1>4

Typed(M) == IsFiniteSet(M) /\ \A h \in M : RowTyped(h.row)

TotalOf(c, M) == Sum([h \in M |-> DeltaOf(c, h.row)], M)
CountedOf(c, M) == Sum([h \in M |-> CountOf(c, h.row)], M)

LEMMA TypedSubset == ASSUME NEW M, Typed(M), NEW N \in SUBSET M PROVE Typed(N)
<1>1. IsFiniteSet(N)
  BY FS_Subset DEF Typed
<1>. QED
  BY <1>1 DEF Typed

\* The sums of rows, with numbers that do not depend on the set.
LEMMA TotalAs ==
    ASSUME NEW c \in Channels, NEW M, Typed(M), NEW N \in SUBSET M,
           NEW f, f = [h \in M |-> DeltaOf(c, h.row)], NEW k, k = [h \in M |-> CountOf(c, h.row)]
    PROVE  /\ \A h \in N : f[h] \in Int /\ k[h] \in Int
           /\ TotalOf(c, N) = Sum(f, N) /\ TotalOf(c, N) \in Int
           /\ CountedOf(c, N) = Sum(k, N) /\ CountedOf(c, N) \in Int
<1>1. IsFiniteSet(N) /\ \A h \in N : RowTyped(h.row)
  BY TypedSubset DEF Typed
<1>. DEFINE d == [h \in N |-> DeltaOf(c, h.row)]
            n == [h \in N |-> CountOf(c, h.row)]
<1>2. \A h \in N : d[h] \in Int /\ n[h] \in Int /\ d[h] = f[h] /\ n[h] = k[h]
  BY <1>1 DEF RowTyped
<1>3. TotalOf(c, N) = Sum(d, N) /\ CountedOf(c, N) = Sum(n, N)
  BY DEF TotalOf, CountedOf
<1>. HIDE DEF d, n
<1>4. /\ Sum(d, N) \in Int /\ Sum(n, N) \in Int
      /\ Sum(d, N) = Sum(f, N) /\ Sum(n, N) = Sum(k, N)
  BY <1>1, <1>2, SumType, SumAgree
<1>. QED
  BY <1>2, <1>3, <1>4

LEMMA TotalType ==
    ASSUME NEW c \in Channels, NEW M, Typed(M)
    PROVE  TotalOf(c, M) \in Int /\ CountedOf(c, M) \in Int
BY TotalAs

LEMMA TotalEmpty ==
    ASSUME NEW c \in Channels
    PROVE  TotalOf(c, {}) = 0 /\ CountedOf(c, {}) = 0
<1>1. IsFiniteSet({})
  BY FS_EmptySet
<1>. DEFINE f == [h \in {} |-> DeltaOf(c, h.row)]
            k == [h \in {} |-> CountOf(c, h.row)]
<1>2. \A x \in {} : f[x] \in Int /\ k[x] \in Int
  OBVIOUS
<1>3. TotalOf(c, {}) = Sum(f, {}) /\ CountedOf(c, {}) = Sum(k, {})
  BY DEF TotalOf, CountedOf
<1>. HIDE DEF f, k
<1>. QED
  BY <1>1, <1>2, <1>3, SumChosen

LEMMA TotalUnion ==
    ASSUME NEW c \in Channels, NEW M, Typed(M), NEW N, Typed(N), M \cap N = {}
    PROVE  /\ Typed(M \cup N)
           /\ TotalOf(c, M \cup N) = TotalOf(c, M) + TotalOf(c, N)
           /\ CountedOf(c, M \cup N) = CountedOf(c, M) + CountedOf(c, N)
<1>1. IsFiniteSet(M) /\ IsFiniteSet(N) /\ IsFiniteSet(M \cup N)
  BY FS_Union DEF Typed
<1>2. Typed(M \cup N)
  BY <1>1 DEF Typed
<1>. DEFINE f == [h \in M \cup N |-> DeltaOf(c, h.row)]
            k == [h \in M \cup N |-> CountOf(c, h.row)]
<1>3. PICK d : d = f
  OBVIOUS
<1>4. PICK n : n = k
  OBVIOUS
<1>. HIDE DEF f, k
<1>5. /\ TotalOf(c, M) = Sum(d, M) /\ CountedOf(c, M) = Sum(n, M)
      /\ TotalOf(c, N) = Sum(d, N) /\ CountedOf(c, N) = Sum(n, N)
      /\ TotalOf(c, M \cup N) = Sum(d, M \cup N) /\ CountedOf(c, M \cup N) = Sum(n, M \cup N)
      /\ \A h \in M \cup N : d[h] \in Int /\ n[h] \in Int
  BY <1>2, <1>3, <1>4, TotalAs DEF f, k
<1>. QED
  BY <1>1, <1>2, <1>5, SumUnion

-----------------------------------------------------------------------------
(* What the rows of a bucket amount to.                                    *)

Amount(c, M) == LET D(h) == DeltaOf(c, h.row) IN CombineAll(c.fn, D, M)
Deltas(c, M) == {DeltaOf(c, h.row) : h \in M}

\* An additive function gives the sum,
LEMMA AmountAdds ==
    ASSUME NEW c \in Channels, NEW M, Typed(M), Additive(c.fn)
    PROVE  Amount(c, M) = TotalOf(c, M)
<1>1. Amount(c, M) = HistorySum(c, M)
  BY DEF Amount, CombineAll, Additive, HistorySum
<1>. DEFINE f == [h \in M |-> DeltaOf(c, h.row)]
<1>2. \A x \in M : f[x] = DeltaOf(c, x.row) /\ DeltaOf(c, x.row) \in Int
  BY DEF Typed, RowTyped
<1>3. TotalOf(c, M) = Sum(f, M) /\ IsFiniteSet(M)
  BY DEF TotalOf, Typed
<1>. HIDE DEF f
<1>. QED
  BY <1>1, <1>2, <1>3, HistoryDeltas

\* ... MIN and MAX the least and the greatest value.
LEMMA AmountExtreme ==
    ASSUME NEW c \in Channels, NEW M, Typed(M), M # {}, ~Additive(c.fn)
    PROVE  Extreme(c.fn, Amount(c, M), Deltas(c, M)) /\ Deltas(c, M) \subseteq Int
<1>. DEFINE V == Deltas(c, M)
<1>1. V \subseteq Int /\ V # {}
  BY DEF Deltas, Typed, RowTyped
<1>2. IsFiniteSet(V)
  <2>. DEFINE f == [h \in M |-> DeltaOf(c, h.row)]
  <2>1. IsFiniteSet(M) /\ V = {f[h] : h \in M}
    BY DEF Deltas, Typed
  <2>. HIDE DEF V, f
  <2>. QED
    BY <2>1, ImageFinite
<1>3. PICK v : Extreme(c.fn, v, V)
  <2>. HIDE DEF V
  <2>. QED
    BY <1>1, <1>2, ExtremeExists
<1>4. /\ c.fn = "MIN" => Min(V) = v
      /\ c.fn # "MIN" => Max(V) = v
  <2>. HIDE DEF V
  <2>. QED
    BY <1>1, <1>3, ExtremeIs
<1>5. CASE c.fn = "MIN"
  <2>1. Amount(c, M) = Min(V)
    BY <1>5 DEF Amount, CombineAll, Deltas
  <2>. QED
    BY <1>1, <1>3, <1>4, <1>5, <2>1
<1>6. CASE c.fn # "MIN"
  <2>1. c.fn = "MAX"
    BY <1>6 DEF Additive
  <2>2. Amount(c, M) = Max(V)
    BY <2>1 DEF Amount, CombineAll, Deltas
  <2>. QED
    BY <1>1, <1>3, <1>4, <1>6, <2>2
<1>. QED
  BY <1>5, <1>6

\* An amount is a number.
LEMMA AmountType ==
    ASSUME NEW c \in Channels, NEW M, Typed(M), M # {}
    PROVE  Amount(c, M) \in Int
<1>1. CASE Additive(c.fn)
  BY <1>1, AmountAdds, TotalType
<1>2. CASE ~Additive(c.fn)
  BY <1>2, AmountExtreme DEF Extreme
<1>. QED
  BY <1>1, <1>2

\* The count of rows, with this sum.
LEMMA CountedIs ==
    ASSUME NEW c \in Channels, NEW M, Typed(M)
    PROVE  HistoryCount(c, M) = CountedOf(c, M)
<1>. DEFINE f == [h \in M |-> CountOf(c, h.row)]
<1>2. \A x \in M : f[x] = CountOf(c, x.row) /\ CountOf(c, x.row) \in Int
  BY DEF Typed, RowTyped
<1>3. CountedOf(c, M) = Sum(f, M) /\ IsFiniteSet(M)
  BY DEF CountedOf, Typed
<1>. HIDE DEF f
<1>. QED
  BY <1>2, <1>3, HistoryCounts

\* Amounts and Totals, with these sums.
LEMMA AmountsIs ==
    ASSUME NEW c \in Channels, NEW M, Typed(M), NEW b
    PROVE  Amounts(b, M, c) <=> b.value = Amount(c, M) /\ b.count = CountedOf(c, M)
<1>1. Amounts(b, M, c) <=> b.value = Amount(c, M) /\ b.count = HistoryCount(c, M)
  BY DEF Amounts, Amount, HistoryCount
<1>. QED
  BY <1>1, CountedIs

LEMMA TotalsIs ==
    ASSUME NEW c \in Channels, NEW M, Typed(M), NEW ec
    PROVE  Totals(ec, M, c)
             <=> (Additive(c.fn) => ec.total = TotalOf(c, M) /\ ec.count = CountedOf(c, M))
<1>1. Totals(ec, M, c)
        <=> (Additive(c.fn) => ec.total = HistorySum(c, M) /\ ec.count = HistoryCount(c, M))
  BY DEF Totals, HistorySum, HistoryCount
<1>2. Additive(c.fn) => Amount(c, M) = HistorySum(c, M)
  BY DEF Amount, CombineAll, Additive, HistorySum
<1>. QED
  BY <1>1, <1>2, AmountAdds, CountedIs

\* Two values combine to the extreme of both.
LEMMA CombineExtreme ==
    ASSUME NEW fn, ~Additive(fn), NEW a \in Int, NEW b \in Int
    PROVE  Extreme(fn, Combine(fn, a, b), {a, b})
<1>. DEFINE V == {a, b}
<1>1. V \subseteq Int /\ V # {}
  OBVIOUS
<1>2. IsFiniteSet(V)
  <2>1. IsFiniteSet({a}) /\ IsFiniteSet({b}) /\ {a, b} = {a} \cup {b}
    BY FS_Singleton
  <2>. QED
    BY <2>1, FS_Union
<1>3. PICK v : Extreme(fn, v, V)
  <2>. HIDE DEF V
  <2>. QED
    BY <1>1, <1>2, ExtremeExists
<1>4. /\ fn = "MIN" => Min(V) = v
      /\ fn # "MIN" => Max(V) = v
  <2>. HIDE DEF V
  <2>. QED
    BY <1>1, <1>3, ExtremeIs
<1>5. CASE fn = "MIN"
  <2>1. Combine(fn, a, b) = Min(V)
    BY <1>5 DEF Combine
  <2>. QED
    BY <1>3, <1>4, <1>5, <2>1
<1>6. CASE fn # "MIN"
  <2>1. fn = "MAX"
    BY <1>6 DEF Additive
  <2>2. Combine(fn, a, b) = Max(V)
    BY <2>1 DEF Combine
  <2>. QED
    BY <1>3, <1>4, <1>6, <2>2
<1>. QED
  BY <1>5, <1>6

\* Two buckets of a second, when one takes the other in.
LEMMA AmountUnion ==
    ASSUME NEW c \in Channels, NEW M, Typed(M), M # {}, NEW N, Typed(N), N # {}, M \cap N = {}
    PROVE  Amount(c, M \cup N) = Combine(c.fn, Amount(c, M), Amount(c, N))
<1>1. Typed(M \cup N) /\ M \cup N # {}
  BY TotalUnion
<1>2. CASE Additive(c.fn)
  <2>1. Combine(c.fn, Amount(c, M), Amount(c, N)) = Amount(c, M) + Amount(c, N)
    BY <1>2 DEF Combine, Additive
  <2>. QED
    BY <1>1, <1>2, <2>1, AmountAdds, TotalUnion
<1>3. CASE ~Additive(c.fn)
  <2>. DEFINE a == Amount(c, M)
              b == Amount(c, N)
              v == Combine(c.fn, a, b)
  <2>1. /\ Extreme(c.fn, a, Deltas(c, M)) /\ Extreme(c.fn, b, Deltas(c, N))
        /\ Extreme(c.fn, Amount(c, M \cup N), Deltas(c, M \cup N))
        /\ Deltas(c, M \cup N) \subseteq Int
    BY <1>1, <1>3, AmountExtreme
  <2>2. Deltas(c, M \cup N) = Deltas(c, M) \cup Deltas(c, N)
    BY DEF Deltas
  <2>3. a \in Int /\ b \in Int
    BY <2>1, <2>2 DEF Extreme
  <2>4. Extreme(c.fn, v, {a, b})
    BY <1>3, <2>3, CombineExtreme
  <2>. HIDE DEF a, b, v
  <2>5. Extreme(c.fn, v, Deltas(c, M \cup N))
    <3>1. v \in Deltas(c, M \cup N)
      BY <2>1, <2>2, <2>4 DEF Extreme
    <3>2. CASE c.fn = "MIN"
      <4>1. v <= a /\ v <= b /\ v \in Int
        BY <2>1, <3>1, <3>2, <2>4 DEF Extreme
      <4>2. /\ \A x \in Deltas(c, M) : a <= x /\ x \in Int
            /\ \A x \in Deltas(c, N) : b <= x /\ x \in Int
        BY <2>1, <2>2, <3>2 DEF Extreme
      <4>. QED
        BY <2>2, <2>3, <3>1, <3>2, <4>1, <4>2 DEF Extreme
    <3>3. CASE c.fn # "MIN"
      <4>1. v >= a /\ v >= b /\ v \in Int
        BY <2>1, <3>1, <3>3, <2>4 DEF Extreme
      <4>2. /\ \A x \in Deltas(c, M) : a >= x /\ x \in Int
            /\ \A x \in Deltas(c, N) : b >= x /\ x \in Int
        BY <2>1, <2>2, <3>3 DEF Extreme
      <4>. QED
        BY <2>2, <2>3, <3>1, <3>3, <4>1, <4>2 DEF Extreme
    <3>. QED
      BY <3>2, <3>3
  <2>6. Amount(c, M \cup N) = v
    BY <2>1, <2>5, ExtremeUnique
  <2>. QED
    BY <2>6 DEF a, b, v
<1>. QED
  BY <1>2, <1>3

-----------------------------------------------------------------------------
(* Buckets that cover rows.                                                *)

\* What a bucket of a cover is.
LEMMA CoverBucket ==
    ASSUME NEW c \in Channels, NEW M, Typed(M), NEW B, Covers(B, M, c), NEW b \in B
    PROVE  /\ OfSecond(M, b.second) # {} /\ Typed(OfSecond(M, b.second))
           /\ b.value = Amount(c, OfSecond(M, b.second)) /\ b.value \in Int
           /\ b.count = CountedOf(c, OfSecond(M, b.second)) /\ b.count \in Int
<1>. DEFINE N == OfSecond(M, b.second)
<1>1. N \in SUBSET M /\ N # {} /\ Amounts(b, N, c)
  BY DEF Covers, OfSecond
<1>. HIDE DEF N
<1>2. Typed(N)
  BY <1>1, TypedSubset
<1>3. b.value = Amount(c, N) /\ b.count = CountedOf(c, N)
  BY <1>1, <1>2, AmountsIs
<1>4. b.value \in Int /\ b.count \in Int
  BY <1>1, <1>2, <1>3, AmountType, TotalType
<1>. QED
  BY <1>1, <1>2, <1>3, <1>4 DEF N

Within(M, T) == {h \in M : h.second \in T}
BucketsIn(B, T) == {b \in B : b.second \in T}

\* The buckets of some seconds cover the rows of these seconds.
LEMMA CoverWithin ==
    ASSUME NEW c \in Channels, NEW M, NEW B, Covers(B, M, c), NEW T
    PROVE  Covers(BucketsIn(B, T), Within(M, T), c)
<1>1. IsFiniteSet(BucketsIn(B, T))
  BY FS_Subset DEF Covers, BucketsIn
<1>2. \A x, y \in BucketsIn(B, T) : x.second = y.second => x = y
  BY DEF Covers, BucketsIn
<1>3. \A h \in Within(M, T) : \E b \in BucketsIn(B, T) : b.second = h.second
  BY DEF Covers, BucketsIn, Within
<1>4. ASSUME NEW b \in BucketsIn(B, T)
      PROVE  /\ OfSecond(Within(M, T), b.second) # {}
             /\ Amounts(b, OfSecond(Within(M, T), b.second), c)
  <2>1. OfSecond(Within(M, T), b.second) = OfSecond(M, b.second)
    BY DEF OfSecond, Within, BucketsIn
  <2>. QED
    BY <2>1 DEF Covers, BucketsIn
<1>. QED
  BY <1>1, <1>2, <1>3, <1>4 DEF Covers

\* The buckets add up to the rows.
LEMMA CoverAdds ==
    ASSUME NEW c \in Channels, NEW M, Typed(M), NEW B, Covers(B, M, c), Additive(c.fn)
    PROVE  ValuesOf(B) = TotalOf(c, M) /\ CountsOf(B) = CountedOf(c, M)
<1>. DEFINE v == [b \in B |-> b.value]
            n == [b \in B |-> b.count]
            Under(U) == {h \in M : \E b \in U : b.second = h.second}
            Good == {U \in SUBSET B : /\ Sum(v, U) = TotalOf(c, Under(U))
                                      /\ Sum(n, U) = CountedOf(c, Under(U))}
<1>1. IsFiniteSet(B)
  BY DEF Covers
<1>2. \A b \in B : /\ v[b] = b.value /\ n[b] = b.count /\ b.value \in Int /\ b.count \in Int
  BY CoverBucket
<1>. HIDE DEF v, n
<1>3. ASSUME NEW U \in SUBSET B, \A x \in U : U \ {x} \in Good
      PROVE  U \in Good
  <2>. SUFFICES Sum(v, U) = TotalOf(c, Under(U)) /\ Sum(n, U) = CountedOf(c, Under(U))
    OBVIOUS
  <2>1. IsFiniteSet(U) /\ \A b \in U : v[b] \in Int /\ n[b] \in Int
    BY <1>1, <1>2, FS_Subset
  <2>2. CASE U = {}
    <3>1. Under(U) = {}
      BY <2>2
    <3>2. Sum(v, U) = 0 /\ Sum(n, U) = 0
      BY <2>1, <2>2, SumChosen
    <3>. QED
      BY <3>1, <3>2, TotalEmpty
  <2>3. CASE U # {}
    <3>1. PICK x \in U : TRUE
      BY <2>3
    <3>. DEFINE N == OfSecond(M, x.second)
                W == Under(U \ {x})
    <3>2. Under(U) = N \cup W /\ N \cap W = {}
      <4>1. \A b \in U \ {x} : b.second # x.second
        BY <3>1 DEF Covers
      <4>. QED
        BY <3>1, <4>1 DEF OfSecond
    <3>3. Typed(N) /\ Typed(W)
      BY TypedSubset DEF OfSecond
    <3>4. v[x] = TotalOf(c, N) /\ n[x] = CountedOf(c, N)
      BY <1>2, <3>1, <3>3, CoverBucket, AmountAdds
    <3>5. /\ Sum(v, U) = v[x] + Sum(v, U \ {x})
          /\ Sum(n, U) = n[x] + Sum(n, U \ {x})
      BY <2>1, <3>1, SumRemove
    <3>6. Sum(v, U \ {x}) = TotalOf(c, W) /\ Sum(n, U \ {x}) = CountedOf(c, W)
      BY <1>3, <3>1
    <3>. HIDE DEF N, W, Under
    <3>7. TotalOf(c, N \cup W) = TotalOf(c, N) + TotalOf(c, W)
      BY <3>2, <3>3, TotalUnion
    <3>8. CountedOf(c, N \cup W) = CountedOf(c, N) + CountedOf(c, W)
      BY <3>2, <3>3, TotalUnion
    <3>. QED
      BY <3>2, <3>4, <3>5, <3>6, <3>7, <3>8
  <2>. QED
    BY <2>2, <2>3
<1>4. Under(B) = M
  BY DEF Covers
<1>5. Sum(v, B) = TotalOf(c, M) /\ Sum(n, B) = CountedOf(c, M)
  <2>. HIDE DEF Good
  <2>1. \A U \in SUBSET B : U \in Good
    BY <1>1, <1>3, SubsetInduction
  <2>2. B \in Good
    BY <2>1
  <2>. QED
    BY <1>4, <2>2 DEF Good
<1>6. ValuesOf(B) = Sum(v, B)
  BY <1>1, <1>2, ValueSum
<1>7. CountsOf(B) = Sum(n, B)
  BY <1>1, <1>2, CountSum
<1>. QED
  BY <1>5, <1>6, <1>7

\* The buckets B with one more, as the extra buckets take it.
MergedAll(B, b, fn) == {Merged(x, b, fn) : x \in B}
Takes(B, b, fn) ==
    LET same == {x \in B : x.second = b.second}
    IN IF same = {} THEN B \cup {b} ELSE (B \ same) \cup MergedAll(same, b, fn)

\* A cover takes the bucket of one more second, or merges it with the one that
\* it has for it.
LEMMA CoverTakes ==
    ASSUME NEW c \in Channels, NEW M, Typed(M), NEW N, Typed(N), N # {}, M \cap N = {},
           NEW B \in SUBSET Bucket, Covers(B, M, c),
           NEW b \in Bucket, Amounts(b, N, c), \A h \in N : h.second = b.second
    PROVE  Covers(Takes(B, b, c.fn), M \cup N, c)
<1>. DEFINE same == {x \in B : x.second = b.second}
<1>1. Typed(M \cup N)
  BY TotalUnion
<1>2. ASSUME NEW x \in B, x.second # b.second
      PROVE  /\ OfSecond(M \cup N, x.second) # {}
             /\ Amounts(x, OfSecond(M \cup N, x.second), c)
  <2>1. OfSecond(M \cup N, x.second) = OfSecond(M, x.second)
    BY <1>2 DEF OfSecond
  <2>. QED
    BY <2>1 DEF Covers
<1>3. OfSecond(M \cup N, b.second) = OfSecond(M, b.second) \cup N
  BY DEF OfSecond
<1>4. IsFiniteSet(B)
  BY DEF Covers
<1>5. CASE same = {}
  <2>. DEFINE C == B \cup {b}
  <2>1. OfSecond(M, b.second) = {}
    BY <1>5 DEF Covers, OfSecond
  <2>2. OfSecond(M \cup N, b.second) # {} /\ Amounts(b, OfSecond(M \cup N, b.second), c)
    BY <1>3, <2>1
  <2>3. IsFiniteSet(C)
    BY <1>4, FS_AddElement
  <2>4. \A x, y \in C : x.second = y.second => x = y
    BY <1>5 DEF Covers
  <2>5. \A h \in M \cup N : \E x \in C : x.second = h.second
    BY DEF Covers
  <2>6. \A x \in C : OfSecond(M \cup N, x.second) # {} /\ Amounts(x, OfSecond(M \cup N, x.second), c)
    BY <1>2, <1>5, <2>2
  <2>. HIDE DEF C
  <2>7. Covers(C, M \cup N, c)
    BY <2>3, <2>4, <2>5, <2>6 DEF Covers
  <2>. QED
    BY <1>5, <2>7 DEF C, Takes
<1>6. CASE same # {}
  <2>1. PICK x \in B : x.second = b.second
    BY <1>6
  <2>2. same = {x}
    BY <2>1 DEF Covers
  <2>. DEFINE m == Merged(x, b, c.fn)
              C == (B \ {x}) \cup {m}
              P == OfSecond(M, b.second)
  <2>3. P # {} /\ Typed(P) /\ x.value = Amount(c, P) /\ x.count = CountedOf(c, P)
    BY <2>1, CoverBucket
  <2>4. b.value = Amount(c, N) /\ b.count = CountedOf(c, N)
    BY AmountsIs
  <2>5. /\ m.second = b.second
        /\ m.value = Combine(c.fn, x.value, b.value)
        /\ m.count = x.count + b.count
    BY <2>1 DEF Merged, Bucket
  <2>6. P \cap N = {}
    BY DEF OfSecond
  <2>. HIDE DEF P, m
  <2>7. /\ Typed(P \cup N)
        /\ m.value = Amount(c, P \cup N)
        /\ m.count = CountedOf(c, P \cup N)
    <3>1. Typed(P \cup N) /\ m.count = CountedOf(c, P \cup N)
      BY <2>3, <2>4, <2>5, <2>6, TotalUnion
    <3>2. m.value = Amount(c, P \cup N)
      BY <2>3, <2>4, <2>5, <2>6, AmountUnion
    <3>. QED
      BY <3>1, <3>2
  <2>8. Amounts(m, P \cup N, c)
    BY <2>7, AmountsIs
  <2>9. OfSecond(M \cup N, b.second) # {} /\ Amounts(m, OfSecond(M \cup N, b.second), c)
    BY <1>3, <2>8 DEF P
  <2>10. IsFiniteSet(C)
    BY <1>4, FS_RemoveElement, FS_AddElement
  <2>11. \A y, z \in C : y.second = z.second => y = z
    BY <2>1, <2>5 DEF Covers
  <2>12. \A h \in M \cup N : \E y \in C : y.second = h.second
    BY <2>1, <2>5 DEF Covers
  <2>13. \A y \in C : OfSecond(M \cup N, y.second) # {} /\ Amounts(y, OfSecond(M \cup N, y.second), c)
    <3>1. \A y \in B \ {x} : y.second # b.second
      BY <2>1 DEF Covers
    <3>. QED
      BY <1>2, <2>5, <2>9, <3>1
  <2>14. Covers(C, M \cup N, c)
    <3>. HIDE DEF C
    <3>. QED
      BY <2>10, <2>11, <2>12, <2>13 DEF Covers
  <2>15. Takes(B, b, c.fn) = C
    BY <1>6, <2>2 DEF m, Takes, MergedAll
  <2>. HIDE DEF C
  <2>. QED
    BY <2>14, <2>15
<1>. QED
  BY <1>5, <1>6

-----------------------------------------------------------------------------
(* Counters that hold rows.                                                *)

\* The reading of rows, with these amounts.
LEMMA ReadingOfIs ==
    ASSUME NEW c \in Channels, NEW H, Typed(H)
    PROVE  ReadingOf(c, H) =
              IF H = {} THEN Zero
              ELSE IF c.fn \in {"AVG", "RATIO"}
                   THEN IF CountedOf(c, H) > 0 THEN <<Amount(c, H), CountedOf(c, H)>> ELSE Zero
                   ELSE <<Amount(c, H), 1>>
<1>1. ReadingOf(c, H) =
              IF H = {} THEN Zero
              ELSE IF c.fn \in {"AVG", "RATIO"}
                   THEN IF HistoryCount(c, H) > 0 THEN <<Amount(c, H), HistoryCount(c, H)>> ELSE Zero
                   ELSE <<Amount(c, H), 1>>
  BY DEF ReadingOf, Amount, HistoryCount
<1>. QED
  BY <1>1, CountedIs

\* A counter that holds rows reads as they do.
LEMMA HoldsReads ==
    ASSUME NEW c \in Channels, NEW L, Typed(L), NEW ec, Holds(ec, c, L)
    PROVE  Reading(ec, c.fn) = ReadingOf(c, L)
<1>1. c.fn \in Functions
  BY WindowAssumption
<1>2. PICK first \in SUBSET L : Covers(ec.inline, first, c) /\ Covers(ec.extra, L \ first, c)
  BY DEF Holds
<1>. DEFINE rest == L \ first
<1>3. Typed(first) /\ Typed(rest) /\ L = first \cup rest
  BY TypedSubset
<1>4. CASE Additive(c.fn)
  <2>1. ec.total = TotalOf(c, L) /\ ec.count = CountedOf(c, L)
    BY <1>4, TotalsIs DEF Holds
  <2>2. Amount(c, L) = TotalOf(c, L)
    BY <1>4, AmountAdds
  <2>3. L = {} => ec.total = 0 /\ ec.count = 0
    BY <2>1, TotalEmpty
  <2>4. Reading(ec, c.fn) = IF c.fn \in {"AVG", "RATIO"}
                            THEN IF ec.count > 0 THEN <<ec.total, ec.count>> ELSE Zero
                            ELSE <<ec.total, 1>>
    BY <1>4 DEF Reading, Additive
  <2>5. CASE L = {}
    BY <2>3, <2>4, <2>5, ReadingOfIs DEF Zero
  <2>6. CASE L # {}
    BY <2>1, <2>2, <2>4, <2>6, ReadingOfIs
  <2>. QED
    BY <2>5, <2>6
<1>5. CASE ~Additive(c.fn)
  <2>. DEFINE buckets == ec.inline \cup ec.extra
              V == {b.value : b \in buckets}
              v == Amount(c, L)
  <2>1. c.fn \in {"MIN", "MAX"} /\ c.fn \notin {"AVG", "RATIO"}
    BY <1>5 DEF Additive
  <2>2. CASE L = {}
    <3>1. buckets = {}
      BY <1>2, <2>2 DEF Covers, OfSecond
    <3>2. Reading(ec, c.fn) = Zero
      BY <2>1, <3>1 DEF Reading
    <3>. QED
      BY <2>2, <3>2, ReadingOfIs
  <2>3. CASE L # {}
    <3>1. buckets # {}
      BY <1>2, <2>3 DEF Covers
    <3>2. /\ Extreme(c.fn, v, Deltas(c, L)) /\ Deltas(c, L) \subseteq Int
      BY <1>5, <2>3, AmountExtreme
    <3>3. ASSUME NEW b \in buckets
          PROVE  b.value \in Deltas(c, L)
      <4>1. PICK N \in {first, rest} : OfSecond(N, b.second) # {}
                 /\ b.value = Amount(c, OfSecond(N, b.second)) /\ Typed(OfSecond(N, b.second))
        BY <1>2, <1>3, CoverBucket
      <4>2. b.value \in Deltas(c, OfSecond(N, b.second))
        BY <1>5, <4>1, AmountExtreme DEF Extreme
      <4>. QED
        BY <4>1, <4>2 DEF Deltas, OfSecond
    <3>4. PICK h \in L : DeltaOf(c, h.row) = v
      BY <3>2 DEF Extreme, Deltas
    <3>5. PICK N \in {first, rest} : h \in N
      OBVIOUS
    <3>6. PICK b \in buckets : /\ b.second = h.second
                               /\ OfSecond(N, b.second) # {} /\ Typed(OfSecond(N, b.second))
                               /\ b.value = Amount(c, OfSecond(N, b.second))
      <4>1. CASE N = first
        <5>1. PICK b \in ec.inline : b.second = h.second
          BY <1>2, <3>5, <4>1 DEF Covers
        <5>. QED
          BY <1>2, <1>3, <4>1, <5>1, CoverBucket
      <4>2. CASE N = rest
        <5>1. PICK b \in ec.extra : b.second = h.second
          BY <1>2, <3>5, <4>2 DEF Covers
        <5>. QED
          BY <1>2, <1>3, <4>2, <5>1, CoverBucket
      <4>. QED
        BY <4>1, <4>2
    <3>7. Extreme(c.fn, b.value, Deltas(c, OfSecond(N, b.second)))
      BY <1>5, <3>6, AmountExtreme
    <3>8. v \in Deltas(c, OfSecond(N, b.second))
      BY <3>4, <3>5, <3>6 DEF OfSecond, Deltas
    <3>9. b.value \in Deltas(c, L)
      BY <3>3
    <3>. DEFINE w == b.value
    <3>. HIDE DEF v
    <3>10. w = v
      <4>1. w \in Int /\ v \in Int
        BY <3>2, <3>9 DEF Extreme
      <4>2. (w <= v /\ v <= w) \/ (w >= v /\ v >= w)
        BY <3>2, <3>7, <3>8, <3>9 DEF Extreme
      <4>. QED
        BY <4>1, <4>2
    <3>11. Extreme(c.fn, v, V) /\ V \subseteq Int
      <4>1. \A x \in V : x \in Deltas(c, L)
        BY <3>3
      <4>2. v \in V
        BY <3>10
      <4>. QED
        BY <3>2, <4>1, <4>2 DEF Extreme
    <3>12. /\ c.fn = "MIN" => Min(V) = v
           /\ c.fn # "MIN" => Max(V) = v
      <4>. HIDE DEF V
      <4>. QED
        BY <3>11, ExtremeIs
    <3>13. Reading(ec, c.fn) = <<IF c.fn = "MIN" THEN Min(V) ELSE Max(V), 1>>
      <4>1. {Value(x) : x \in buckets} = V
        BY DEF Value
      <4>2. CASE c.fn = "MIN"
        BY <3>1, <4>2 DEF Reading, CombineAll, Value
      <4>3. CASE c.fn = "MAX"
        BY <3>1, <4>3 DEF Reading, CombineAll, Value
      <4>. QED
        BY <2>1, <4>2, <4>3
    <3>14. Reading(ec, c.fn) = <<v, 1>>
      <4>. HIDE DEF V
      <4>. QED
        BY <3>12, <3>13
    <3>. QED
      BY <2>1, <2>3, <3>14, ReadingOfIs DEF v
  <2>. QED
    BY <2>2, <2>3
<1>. QED
  BY <1>4, <1>5

-----------------------------------------------------------------------------
(* Advancing a counter, and adding to it.                                  *)

FiniteCounter == {ec \in Counter : IsFiniteSet(ec.inline) /\ IsFiniteSet(ec.extra)}

Past(s, c) == {t \in Int : t <= s - c.duration}

\* What becomes of a record when its parts change and keep their types.
LEMMA CounterExcept ==
    ASSUME NEW B, NEW ec \in [initialized : BOOLEAN, inline : B, extra : B,
                              total : Int, count : Int, head : Int],
           NEW i \in B, NEW x \in B, NEW t \in Int, NEW n \in Int, NEW h \in Int
    PROVE  [ec EXCEPT !.inline = i, !.extra = x, !.total = t, !.count = n, !.head = h]
             \in [initialized : BOOLEAN, inline : B, extra : B, total : Int, count : Int, head : Int]
BY Zenon

\* What advance_and_zero does when the window moves on by less than its length.
LEMMA AdvanceMoves ==
    ASSUME NEW c \in Channels, NEW ec \in FiniteCounter, ec.initialized, NEW s \in Int,
           s > ec.head, s < ec.head + c.duration
    PROVE  /\ Advance(ec, s, c) \in FiniteCounter
           /\ Advance(ec, s, c).initialized /\ Advance(ec, s, c).head = s
           /\ Advance(ec, s, c).inline = BucketsIn(ec.inline, Int \ Past(s, c))
           /\ Advance(ec, s, c).extra = BucketsIn(ec.extra, Int \ Past(s, c))
           /\ Additive(c.fn) =>
                /\ Advance(ec, s, c).total = ec.total - (ValuesOf(BucketsIn(ec.inline, Past(s, c)))
                                                           + ValuesOf(BucketsIn(ec.extra, Past(s, c))))
                /\ Advance(ec, s, c).count = ec.count - (CountsOf(BucketsIn(ec.inline, Past(s, c)))
                                                           + CountsOf(BucketsIn(ec.extra, Past(s, c))))
<1>. DEFINE ig == {b \in ec.inline : Expired(b, s, c.duration)}
            eg == {b \in ec.extra : Expired(b, s, c.duration)}
            v == IF Additive(c.fn) THEN ValuesOf(ig) + ValuesOf(eg) ELSE 0
            n == IF Additive(c.fn) THEN CountsOf(ig) + CountsOf(eg) ELSE 0
            moved == [ec EXCEPT !.inline = @ \ ig, !.extra = @ \ eg, !.total = @ - v,
                                !.count = @ - n, !.head = s]
<1>1. /\ ec \in Counter /\ IsFiniteSet(ec.inline) /\ IsFiniteSet(ec.extra)
      /\ ec.inline \subseteq Bucket /\ ec.extra \subseteq Bucket
      /\ ec.head \in Int /\ c.duration \in Int /\ c.duration > 0
  BY WindowAssumption DEF FiniteCounter, Counter
<1>2. ~(s - ec.head <= 0) /\ ~(s - ec.head >= c.duration)
  BY <1>1
<1>3. Advance(ec, s, c) = moved
  BY <1>2 DEF Advance, ValuesOf, CountsOf
<1>4. ASSUME NEW B \in SUBSET Bucket
      PROVE  /\ {b \in B : Expired(b, s, c.duration)} = BucketsIn(B, Past(s, c))
             /\ B \ {b \in B : Expired(b, s, c.duration)} = BucketsIn(B, Int \ Past(s, c))
  BY <1>4 DEF Expired, BucketsIn, Past, Bucket
<1>5. ASSUME NEW B \in SUBSET Bucket, IsFiniteSet(B), NEW g, g = {b \in B : Expired(b, s, c.duration)}
      PROVE  /\ IsFiniteSet(g) /\ IsFiniteSet(B \ g)
             /\ ValuesOf(g) \in Int /\ CountsOf(g) \in Int
  <2>1. IsFiniteSet(g) /\ IsFiniteSet(B \ g) /\ g \subseteq Bucket
    BY <1>5, FS_Subset
  <2>. DEFINE f == [x \in g |-> x.value]
              k == [x \in g |-> x.count]
  <2>2. \A x \in g : /\ f[x] = x.value /\ x.value \in Int
                     /\ k[x] = x.count /\ x.count \in Int
    BY <2>1 DEF Bucket
  <2>. HIDE DEF f, k
  <2>3. ValuesOf(g) = Sum(f, g) /\ CountsOf(g) = Sum(k, g)
    BY <2>1, <2>2, ValueSum, CountSum
  <2>4. Sum(f, g) \in Int /\ Sum(k, g) \in Int
    BY <2>1, <2>2, SumType
  <2>. QED
    BY <2>1, <2>3, <2>4
<1>6. /\ IsFiniteSet(ig) /\ IsFiniteSet(ec.inline \ ig) /\ ValuesOf(ig) \in Int /\ CountsOf(ig) \in Int
      /\ IsFiniteSet(eg) /\ IsFiniteSet(ec.extra \ eg) /\ ValuesOf(eg) \in Int /\ CountsOf(eg) \in Int
  BY <1>1, <1>5
<1>7. /\ ig = BucketsIn(ec.inline, Past(s, c)) /\ ec.inline \ ig = BucketsIn(ec.inline, Int \ Past(s, c))
      /\ eg = BucketsIn(ec.extra, Past(s, c)) /\ ec.extra \ eg = BucketsIn(ec.extra, Int \ Past(s, c))
  BY <1>1, <1>4
<1>. HIDE DEF ig, eg
<1>8. v \in Int /\ n \in Int
  BY <1>6
<1>. HIDE DEF v, n
<1>9. /\ moved.initialized /\ moved.head = s
      /\ moved.inline = ec.inline \ ig /\ moved.extra = ec.extra \ eg
      /\ moved.total = ec.total - v /\ moved.count = ec.count - n
  BY <1>1 DEF Counter
<1>10. moved \in Counter
  <2>1. /\ ec.inline \ ig \in SUBSET Bucket /\ ec.extra \ eg \in SUBSET Bucket
        /\ ec.total - v \in Int /\ ec.count - n \in Int
    BY <1>1, <1>8 DEF Counter
  <2>. QED
    BY <1>1, <2>1, CounterExcept DEF Counter
<1>. HIDE DEF moved
<1>11. moved \in FiniteCounter
  BY <1>6, <1>9, <1>10 DEF FiniteCounter
<1>. QED
  BY <1>3, <1>7, <1>9, <1>11 DEF v, n

\* The counter then holds the rows that have not expired.
LEMMA AdvanceHolds ==
    ASSUME NEW c \in Channels, NEW ec \in FiniteCounter, ec.initialized, NEW s \in Int,
           s > ec.head, s < ec.head + c.duration,
           NEW L, Typed(L), \A h \in L : h.second \in Int, Holds(ec, c, L)
    PROVE  Holds(Advance(ec, s, c), c, Within(L, Int \ Past(s, c)))
<1>. DEFINE G == Past(s, c)
            K == Int \ G
            new == Advance(ec, s, c)
<1>1. /\ new.inline = BucketsIn(ec.inline, K) /\ new.extra = BucketsIn(ec.extra, K)
      /\ Additive(c.fn) =>
           /\ new.total = ec.total - (ValuesOf(BucketsIn(ec.inline, G)) + ValuesOf(BucketsIn(ec.extra, G)))
           /\ new.count = ec.count - (CountsOf(BucketsIn(ec.inline, G)) + CountsOf(BucketsIn(ec.extra, G)))
  BY AdvanceMoves
<1>2. PICK first \in SUBSET L : Covers(ec.inline, first, c) /\ Covers(ec.extra, L \ first, c)
  BY DEF Holds
<1>. DEFINE rest == L \ first
<1>. HIDE DEF G, new
<1>3. \A x, y \in new.inline : x = y
  BY <1>1 DEF Holds, BucketsIn
<1>4. /\ Covers(new.inline, Within(first, K), c)
      /\ Covers(new.extra, Within(L, K) \ Within(first, K), c)
  <2>1. Within(L, K) \ Within(first, K) = Within(rest, K)
    BY DEF Within
  <2>. HIDE DEF K
  <2>. QED
    BY <1>1, <1>2, <2>1, CoverWithin
<1>5. Typed(Within(L, K)) /\ Typed(Within(first, G)) /\ Typed(Within(rest, G))
  <2>1. Within(L, K) \in SUBSET L /\ Within(first, G) \in SUBSET L /\ Within(rest, G) \in SUBSET L
    BY DEF Within
  <2>. HIDE DEF K
  <2>. QED
    BY <2>1, TypedSubset
<1>6. ASSUME Additive(c.fn)
      PROVE  new.total = TotalOf(c, Within(L, K)) /\ new.count = CountedOf(c, Within(L, K))
  <2>1. Covers(BucketsIn(ec.inline, G), Within(first, G), c) /\ Covers(BucketsIn(ec.extra, G), Within(rest, G), c)
    BY <1>2, CoverWithin
  <2>2. /\ ValuesOf(BucketsIn(ec.inline, G)) = TotalOf(c, Within(first, G))
        /\ ValuesOf(BucketsIn(ec.extra, G)) = TotalOf(c, Within(rest, G))
        /\ CountsOf(BucketsIn(ec.inline, G)) = CountedOf(c, Within(first, G))
        /\ CountsOf(BucketsIn(ec.extra, G)) = CountedOf(c, Within(rest, G))
    BY <1>5, <1>6, <2>1, CoverAdds
  <2>. DEFINE A == Within(first, G)
              B == Within(rest, G)
              R == Within(L, K)
  <2>3. A \cap B = {} /\ R \cap (A \cup B) = {} /\ L = R \cup (A \cup B)
    BY DEF Within
  <2>. HIDE DEF A, B, R
  <2>4. Typed(A) /\ Typed(B) /\ Typed(R)
    BY <1>5 DEF A, B, R
  <2>5. /\ Typed(A \cup B)
        /\ TotalOf(c, A \cup B) = TotalOf(c, A) + TotalOf(c, B)
        /\ CountedOf(c, A \cup B) = CountedOf(c, A) + CountedOf(c, B)
    BY <2>3, <2>4, TotalUnion
  <2>6. /\ TotalOf(c, L) = TotalOf(c, R) + TotalOf(c, A \cup B)
        /\ CountedOf(c, L) = CountedOf(c, R) + CountedOf(c, A \cup B)
    BY <2>3, <2>4, <2>5, TotalUnion
  <2>7. ec.total = TotalOf(c, L) /\ ec.count = CountedOf(c, L)
    BY <1>6, TotalsIs DEF Holds
  <2>8. /\ TotalOf(c, A) \in Int /\ TotalOf(c, B) \in Int /\ TotalOf(c, R) \in Int
        /\ CountedOf(c, A) \in Int /\ CountedOf(c, B) \in Int /\ CountedOf(c, R) \in Int
    BY <2>4, TotalType
  <2>9. \A r, a, b \in Int : (r + (a + b)) - (a + b) = r
    OBVIOUS
  <2>10. /\ new.total = (TotalOf(c, R) + (TotalOf(c, A) + TotalOf(c, B))) - (TotalOf(c, A) + TotalOf(c, B))
         /\ new.count = (CountedOf(c, R) + (CountedOf(c, A) + CountedOf(c, B)))
                          - (CountedOf(c, A) + CountedOf(c, B))
    BY <1>1, <1>6, <2>2, <2>5, <2>6, <2>7 DEF A, B
  <2>11. new.total = TotalOf(c, R) /\ new.count = CountedOf(c, R)
    BY <2>8, <2>9, <2>10
  <2>. QED
    BY <2>11 DEF R
<1>7. Totals(new, Within(L, K), c)
  <2>. HIDE DEF K
  <2>. QED
    BY <1>5, <1>6, TotalsIs
<1>8. Within(first, K) \in SUBSET Within(L, K)
  BY DEF Within
<1>9. Holds(new, c, Within(L, K))
  <2>. HIDE DEF K
  <2>. QED
    BY <1>3, <1>4, <1>7, <1>8 DEF Holds
<1>. QED
  BY <1>9 DEF new, G

\* A cleared counter holds nothing.
LEMMA ClearedIs ==
    ASSUME NEW c \in Channels, NEW s \in Int
    PROVE  /\ Cleared(s) \in FiniteCounter /\ Cleared(s).initialized /\ Cleared(s).head = s
           /\ Holds(Cleared(s), c, {})
<1>1. /\ Cleared(s).initialized /\ Cleared(s).head = s
      /\ Cleared(s).inline = {} /\ Cleared(s).extra = {}
      /\ Cleared(s).total = 0 /\ Cleared(s).count = 0
  BY DEF Cleared, Absent
<1>2. IsFiniteSet({})
  BY FS_EmptySet
<1>3. Cleared(s) \in FiniteCounter
  <2>1. Absent \in Counter
    BY DEF Absent, Counter
  <2>2. Cleared(s) \in Counter
    BY <2>1 DEF Cleared, Counter
  <2>. QED
    BY <1>1, <1>2, <2>2 DEF FiniteCounter
<1>4. Covers({}, {}, c)
  BY <1>2 DEF Covers
<1>5. Typed({})
  BY <1>2 DEF Typed
<1>6. Totals(Cleared(s), {}, c)
  BY <1>1, <1>5, TotalsIs, TotalEmpty
<1>7. Holds(Cleared(s), c, {})
  BY <1>1, <1>4, <1>6 DEF Holds
<1>. QED
  BY <1>1, <1>3, <1>7

\* After it is advanced to a second a counter is initialized, and its head is
\* the later of the two.
LEMMA AdvanceType ==
    ASSUME NEW c \in Channels, NEW ec \in FiniteCounter, NEW s \in Int
    PROVE  /\ Advance(ec, s, c) \in FiniteCounter /\ Advance(ec, s, c).initialized
           /\ Advance(ec, s, c).head = IF ec.initialized /\ ec.head > s THEN ec.head ELSE s
<1>1. /\ ec.head \in Int /\ ec.initialized \in BOOLEAN /\ c.duration \in Int /\ c.duration > 0
  BY WindowAssumption DEF FiniteCounter, Counter
<1>2. CASE ~ec.initialized
  <2>1. Advance(ec, s, c) = Cleared(s)
    BY <1>2 DEF Advance
  <2>. QED
    BY <1>2, <2>1, ClearedIs
<1>3. CASE ec.initialized /\ s - ec.head <= 0
  <2>1. Advance(ec, s, c) = ec
    <3>1. ~(s - ec.head >= c.duration)
      BY <1>1, <1>3
    <3>. QED
      BY <1>3, <3>1 DEF Advance
  <2>. QED
    BY <1>1, <1>3, <2>1
<1>4. CASE ec.initialized /\ ~(s - ec.head <= 0) /\ s - ec.head >= c.duration
  <2>1. Advance(ec, s, c) = Cleared(s)
    BY <1>4 DEF Advance
  <2>. QED
    BY <1>1, <1>4, <2>1, ClearedIs
<1>5. CASE ec.initialized /\ ~(s - ec.head <= 0) /\ ~(s - ec.head >= c.duration)
  <2>1. s > ec.head /\ s < ec.head + c.duration
    BY <1>1, <1>5
  <2>2. /\ Advance(ec, s, c) \in FiniteCounter /\ Advance(ec, s, c).initialized
        /\ Advance(ec, s, c).head = s
    BY <1>5, <2>1, AdvanceMoves
  <2>3. ~(ec.head > s)
    BY <1>1, <2>1
  <2>. QED
    BY <2>2, <2>3
<1>. QED
  BY <1>2, <1>3, <1>4, <1>5

\* add_bucket, and the running totals.
Adds(ec, b, fn) ==
    LET added == AddBucket(ec, b, fn)
    IN IF Additive(fn)
       THEN [added EXCEPT !.total = @ + b.value, !.count = @ + b.count]
       ELSE added

\* Combining numbers gives a number.
LEMMA CombineType ==
    ASSUME NEW fn, NEW a \in Int, NEW b \in Int
    PROVE  Combine(fn, a, b) \in Int
<1>1. CASE Additive(fn)
  BY <1>1 DEF Combine, Additive
<1>2. CASE ~Additive(fn)
  <2>1. Combine(fn, a, b) \in {a, b}
    BY <1>2, CombineExtreme DEF Extreme
  <2>. QED
    BY <2>1
<1>. QED
  BY <1>1, <1>2

\* ... and merging buckets a bucket.
LEMMA MergedType ==
    ASSUME NEW fn, NEW x \in Bucket, NEW b \in Bucket
    PROVE  Merged(x, b, fn) \in Bucket
<1>. DEFINE v == Combine(fn, x.value, b.value)
<1>1. v \in Int /\ x.count + b.count \in Int
  BY CombineType DEF Bucket
<1>2. Merged(x, b, fn) = [x EXCEPT !.value = v, !.count = x.count + b.count]
  BY DEF Merged
<1>. HIDE DEF v
<1>. QED
  BY <1>1, <1>2 DEF Bucket

\* add_bucket fills the inline bucket, merges with it, or goes to the extra ones.
LEMMA AddBucketIs ==
    ASSUME NEW ec \in FiniteCounter, NEW b \in Bucket, NEW fn, NEW new, new = AddBucket(ec, b, fn)
    PROVE  /\ new \in FiniteCounter
           /\ new.initialized = ec.initialized /\ new.head = ec.head
           /\ new.total = ec.total /\ new.count = ec.count
           /\ \/ ec.inline = {} /\ new.inline = {b} /\ new.extra = ec.extra
              \/ /\ \E x \in ec.inline : x.second = b.second
                 /\ new.inline = MergedAll(ec.inline, b, fn) /\ new.extra = ec.extra
              \/ new.inline = ec.inline /\ new.extra = Takes(ec.extra, b, fn)
<1>. DEFINE same == {x \in ec.extra : x.second = b.second}
            All(B) == MergedAll(B, b, fn)
            more == Takes(ec.extra, b, fn)
<1>1. ec \in Counter /\ ec.inline \in SUBSET Bucket /\ ec.extra \in SUBSET Bucket
      /\ IsFiniteSet(ec.inline) /\ IsFiniteSet(ec.extra)
  BY DEF FiniteCounter, Counter
<1>2. ASSUME NEW B \in SUBSET Bucket, IsFiniteSet(B)
      PROVE  IsFiniteSet(All(B)) /\ All(B) \in SUBSET Bucket
  <2>. DEFINE f == [x \in B |-> Merged(x, b, fn)]
  <2>1. All(B) = {f[x] : x \in B}
    BY DEF MergedAll
  <2>2. \A x \in B : f[x] \in Bucket
    BY MergedType
  <2>. HIDE DEF f
  <2>3. IsFiniteSet({f[x] : x \in B})
    BY <1>2, ImageFinite
  <2>. QED
    BY <2>1, <2>2, <2>3
<1>3. IsFiniteSet(All(ec.inline)) /\ All(ec.inline) \in SUBSET Bucket
  BY <1>1, <1>2
<1>4. IsFiniteSet(more) /\ more \in SUBSET Bucket
  <2>1. same \in SUBSET Bucket /\ IsFiniteSet(same) /\ IsFiniteSet(ec.extra \ same)
    BY <1>1, FS_Subset
  <2>2. IsFiniteSet(All(same)) /\ All(same) \in SUBSET Bucket
    BY <1>2, <2>1
  <2>. HIDE DEF All
  <2>3. IsFiniteSet(ec.extra \cup {b}) /\ IsFiniteSet((ec.extra \ same) \cup All(same))
    BY <1>1, <2>1, <2>2, FS_Union, FS_AddElement
  <2>4. more = IF same = {} THEN ec.extra \cup {b} ELSE (ec.extra \ same) \cup All(same)
    BY DEF Takes, All
  <2>. HIDE DEF more
  <2>. QED
    BY <1>1, <2>2, <2>3, <2>4
<1>5. IsFiniteSet({b}) /\ {b} \in SUBSET Bucket
  BY FS_Singleton
<1>6. CASE ec.inline = {}
  <2>1. new = [ec EXCEPT !.inline = {b}]
    BY <1>6 DEF AddBucket
  <2>2. /\ new.inline = {b} /\ new.extra = ec.extra /\ new.total = ec.total /\ new.count = ec.count
        /\ new.initialized = ec.initialized /\ new.head = ec.head /\ new \in Counter
    BY <1>1, <1>5, <2>1 DEF Counter
  <2>. QED
    BY <1>1, <1>5, <1>6, <2>2 DEF FiniteCounter
<1>7. CASE ec.inline # {} /\ \E x \in ec.inline : x.second = b.second
  <2>1. new = [ec EXCEPT !.inline = All(ec.inline)]
    BY <1>7 DEF AddBucket, MergedAll
  <2>. HIDE DEF All
  <2>2. /\ new.inline = All(ec.inline) /\ new.extra = ec.extra
        /\ new.total = ec.total /\ new.count = ec.count
        /\ new.initialized = ec.initialized /\ new.head = ec.head /\ new \in Counter
    BY <1>1, <1>3, <2>1 DEF Counter
  <2>3. new \in FiniteCounter
    BY <1>1, <1>3, <2>2 DEF FiniteCounter
  <2>. QED
    BY <1>7, <2>2, <2>3 DEF All
<1>8. CASE ec.inline # {} /\ ~\E x \in ec.inline : x.second = b.second
  <2>1. new = [ec EXCEPT !.extra = more]
    BY <1>8 DEF AddBucket, Takes, MergedAll
  <2>. HIDE DEF more
  <2>2. /\ new.inline = ec.inline /\ new.extra = more
        /\ new.total = ec.total /\ new.count = ec.count
        /\ new.initialized = ec.initialized /\ new.head = ec.head /\ new \in Counter
    BY <1>1, <1>4, <2>1 DEF Counter
  <2>3. new \in FiniteCounter
    BY <1>1, <1>4, <2>2 DEF FiniteCounter
  <2>. QED
    BY <1>8, <2>2, <2>3 DEF more
<1>. QED
  BY <1>6, <1>7, <1>8

\* The counter that results, and its totals.
LEMMA AddsIs ==
    ASSUME NEW ec \in FiniteCounter, NEW b \in Bucket, NEW fn, NEW new, new = Adds(ec, b, fn)
    PROVE  /\ new \in FiniteCounter
           /\ new.initialized = ec.initialized /\ new.head = ec.head
           /\ new.inline = AddBucket(ec, b, fn).inline /\ new.extra = AddBucket(ec, b, fn).extra
           /\ Additive(fn) => new.total = ec.total + b.value /\ new.count = ec.count + b.count
<1>1. PICK added : added = AddBucket(ec, b, fn)
  OBVIOUS
<1>2. /\ added \in FiniteCounter /\ added.initialized = ec.initialized /\ added.head = ec.head
      /\ added.total = ec.total /\ added.count = ec.count
  BY <1>1, AddBucketIs
<1>3. CASE Additive(fn)
  <2>1. new = [added EXCEPT !.total = added.total + b.value, !.count = added.count + b.count]
    BY <1>1, <1>3 DEF Adds
  <2>2. added.total + b.value \in Int /\ added.count + b.count \in Int
    BY <1>2 DEF FiniteCounter, Counter, Bucket
  <2>3. added \in Counter
    BY <1>2 DEF FiniteCounter
  <2>4. new \in Counter
    BY <2>1, <2>2, <2>3 DEF Counter
  <2>5. /\ new.initialized = added.initialized /\ new.head = added.head
        /\ new.inline = added.inline /\ new.extra = added.extra
        /\ new.total = added.total + b.value /\ new.count = added.count + b.count
    BY <2>1, <2>3 DEF Counter
  <2>6. new \in FiniteCounter
    BY <1>2, <2>4, <2>5 DEF FiniteCounter
  <2>. QED
    BY <1>1, <1>2, <2>5, <2>6
<1>4. CASE ~Additive(fn)
  <2>1. new = added
    BY <1>1, <1>4 DEF Adds
  <2>. QED
    BY <1>1, <1>2, <1>4, <2>1
<1>. QED
  BY <1>3, <1>4

\* A counter that takes the bucket of more rows holds them too.
LEMMA AddsHolds ==
    ASSUME NEW c \in Channels, NEW ec \in FiniteCounter, NEW L, Typed(L), Holds(ec, c, L),
           NEW N, Typed(N), N # {}, L \cap N = {},
           NEW b \in Bucket, Amounts(b, N, c), \A h \in N : h.second = b.second
    PROVE  Holds(Adds(ec, b, c.fn), c, L \cup N)
<1>1. PICK new : new = Adds(ec, b, c.fn)
  OBVIOUS
<1>2. /\ new.inline = AddBucket(ec, b, c.fn).inline /\ new.extra = AddBucket(ec, b, c.fn).extra
      /\ Additive(c.fn) => new.total = ec.total + b.value /\ new.count = ec.count + b.count
  BY <1>1, AddsIs
<1>3. PICK first \in SUBSET L : Covers(ec.inline, first, c) /\ Covers(ec.extra, L \ first, c)
  BY DEF Holds
<1>4. \A x, y \in ec.inline : x = y
  BY DEF Holds
<1>5. ec.inline \in SUBSET Bucket /\ ec.extra \in SUBSET Bucket
  BY DEF FiniteCounter, Counter
<1>. DEFINE rest == L \ first
            M == L \cup N
<1>6. Typed(first) /\ Typed(rest) /\ first \cap N = {} /\ rest \cap N = {}
  BY TypedSubset
<1>7. Covers(Takes(ec.extra, b, c.fn), rest \cup N, c)
  <2>1. Covers(ec.extra, rest, c)
    BY <1>3
  <2>. HIDE DEF rest
  <2>. QED
    BY <1>5, <1>6, <2>1, CoverTakes
<1>8. /\ \A x, y \in new.inline : x = y
      /\ \E f \in SUBSET M : Covers(new.inline, f, c) /\ Covers(new.extra, M \ f, c)
  <2>1. CASE ec.inline = {} /\ new.inline = {b} /\ new.extra = ec.extra
    <3>1. first = {}
      BY <1>3, <2>1 DEF Covers
    <3>2. Covers({} \cup {b}, first \cup N, c)
      <4>1. Takes({}, b, c.fn) = {} \cup {b}
        BY DEF Takes
      <4>2. Covers(Takes({}, b, c.fn), first \cup N, c)
        BY <1>3, <1>5, <1>6, <2>1, CoverTakes
      <4>. QED
        BY <4>1, <4>2
    <3>3. M \ N = L \ first
      BY <3>1
    <3>4. {} \cup {b} = {b} /\ first \cup N = N
      BY <3>1
    <3>5. Covers(new.inline, N, c) /\ Covers(new.extra, M \ N, c)
      BY <1>3, <2>1, <3>2, <3>3, <3>4
    <3>6. N \in SUBSET M
      OBVIOUS
    <3>7. \A x, y \in new.inline : x = y
      BY <2>1
    <3>. HIDE DEF M
    <3>. QED
      BY <3>5, <3>6, <3>7
  <2>2. CASE /\ \E x \in ec.inline : x.second = b.second
             /\ new.inline = MergedAll(ec.inline, b, c.fn) /\ new.extra = ec.extra
    <3>1. PICK s : s = {x \in ec.inline : x.second = b.second}
      OBVIOUS
    <3>2. s = ec.inline /\ s # {} /\ ec.inline \ s = {}
      BY <1>4, <2>2, <3>1
    <3>3. Covers(Takes(ec.inline, b, c.fn), first \cup N, c)
      BY <1>3, <1>5, <1>6, CoverTakes
    <3>4. Takes(ec.inline, b, c.fn) = new.inline
      BY <2>2, <3>1, <3>2 DEF Takes
    <3>5. M \ (first \cup N) = L \ first
      BY <1>6
    <3>6. Covers(new.inline, first \cup N, c) /\ Covers(new.extra, M \ (first \cup N), c)
      BY <1>3, <2>2, <3>3, <3>4, <3>5
    <3>7. first \cup N \in SUBSET M
      OBVIOUS
    <3>8. \A x, y \in new.inline : x = y
      BY <1>4, <2>2 DEF MergedAll
    <3>. HIDE DEF M
    <3>. QED
      BY <3>6, <3>7, <3>8
  <2>3. CASE new.inline = ec.inline /\ new.extra = Takes(ec.extra, b, c.fn)
    <3>1. Covers(new.extra, rest \cup N, c)
      BY <1>7, <2>3
    <3>2. M \ first = rest \cup N
      BY <1>6
    <3>3. first \in SUBSET M
      OBVIOUS
    <3>4. Covers(new.inline, first, c) /\ Covers(new.extra, M \ first, c)
      BY <1>3, <2>3, <3>1, <3>2
    <3>5. \A x, y \in new.inline : x = y
      BY <1>4, <2>3
    <3>. HIDE DEF M
    <3>. QED
      BY <3>3, <3>4, <3>5
  <2>4. PICK added : added = AddBucket(ec, b, c.fn)
    OBVIOUS
  <2>5. \/ ec.inline = {} /\ added.inline = {b} /\ added.extra = ec.extra
        \/ /\ \E x \in ec.inline : x.second = b.second
           /\ added.inline = MergedAll(ec.inline, b, c.fn) /\ added.extra = ec.extra
        \/ added.inline = ec.inline /\ added.extra = Takes(ec.extra, b, c.fn)
    BY <2>4, AddBucketIs
  <2>6. new.inline = added.inline /\ new.extra = added.extra
    BY <1>2, <2>4
  <2>. QED
    BY <2>1, <2>2, <2>3, <2>5, <2>6
<1>9. Totals(new, M, c)
  <2>. SUFFICES ASSUME Additive(c.fn)
                PROVE  new.total = TotalOf(c, M) /\ new.count = CountedOf(c, M)
    BY TotalUnion, TotalsIs
  <2>1. ec.total = TotalOf(c, L) /\ ec.count = CountedOf(c, L)
    BY TotalsIs DEF Holds
  <2>2. b.value = TotalOf(c, N) /\ b.count = CountedOf(c, N)
    BY AmountsIs, AmountAdds
  <2>. QED
    BY <1>2, <2>1, <2>2, TotalUnion
<1>. HIDE DEF M
<1>10. Holds(new, c, M)
  BY <1>8, <1>9 DEF Holds
<1>. QED
  BY <1>1, <1>10 DEF M

-----------------------------------------------------------------------------
(* The rows of a batch, coalesced, and the rows of the history.            *)

\* The same numbers have the same sum, whatever they are the numbers of.
LEMMA SumImage ==
    ASSUME NEW R, IsFiniteSet(R), NEW E, \A i, j \in R : E[i] = E[j] => i = j,
           NEW f, NEW k, \A i \in R : f[i] \in Int /\ k[E[i]] = f[i]
    PROVE  Sum(k, {E[i] : i \in R}) = Sum(f, R)
<1>. DEFINE Im(U) == {E[i] : i \in U}
            Good == {U \in SUBSET R : Sum(k, Im(U)) = Sum(f, U)}
<1>1. ASSUME NEW U \in SUBSET R, \A x \in U : U \ {x} \in Good
      PROVE  U \in Good
  <2>. SUFFICES Sum(k, Im(U)) = Sum(f, U)
    OBVIOUS
  <2>1. IsFiniteSet(U) /\ \A i \in U : f[i] \in Int
    BY FS_Subset
  <2>2. IsFiniteSet(Im(U)) /\ \A x \in Im(U) : k[x] \in Int
    <3>1. IsFiniteSet(Im(U))
      BY <2>1, ImageFinite
    <3>. QED
      BY <3>1
  <2>3. CASE U = {}
    <3>1. Im(U) = {}
      BY <2>3
    <3>. HIDE DEF Im
    <3>2. Sum(f, U) = 0
      BY <2>1, <2>3, SumChosen
    <3>3. Sum(k, Im(U)) = 0
      BY <2>2, <3>1, SumChosen
    <3>. QED
      BY <3>2, <3>3
  <2>4. CASE U # {}
    <3>1. PICK x \in U : TRUE
      BY <2>4
    <3>2. Sum(f, U) = f[x] + Sum(f, U \ {x})
      BY <2>1, SumRemove
    <3>3. E[x] \in Im(U)
      OBVIOUS
    <3>4. Im(U) \ {E[x]} = Im(U \ {x})
      <4>1. \A i \in U \ {x} : E[i] # E[x]
        BY <3>1
      <4>. QED
        BY <4>1
    <3>5. Sum(k, Im(U \ {x})) = Sum(f, U \ {x})
      BY <1>1, <3>1
    <3>6. k[E[x]] = f[x]
      BY <3>1
    <3>. HIDE DEF Im
    <3>7. Sum(k, Im(U)) = k[E[x]] + Sum(k, Im(U) \ {E[x]})
      BY <2>2, <3>3, SumRemove
    <3>. QED
      BY <3>2, <3>4, <3>5, <3>6, <3>7
  <2>. QED
    BY <2>3, <2>4
<1>2. \A U \in SUBSET R : U \in Good
  <2>. HIDE DEF Good
  <2>. QED
    BY <1>1, SubsetInduction
<1>3. R \in Good
  BY <1>2
<1>. QED
  BY <1>3

\* Channels of a group differ in their duration only.
LEMMA GroupMates ==
    ASSUME NEW a \in Channels, NEW c \in Channels, SameGroup(a, c)
    PROVE  /\ a.entity = c.entity /\ a.fn = c.fn
           /\ \A row : DeltaOf(a, row) = DeltaOf(c, row) /\ CountOf(a, row) = CountOf(c, row)
<1>1. /\ a = [entity |-> a.entity, fn |-> a.fn, sum |-> a.sum, denom |-> a.denom, duration |-> a.duration]
      /\ c = [entity |-> c.entity, fn |-> c.fn, sum |-> c.sum, denom |-> c.denom, duration |-> c.duration]
  BY WindowAssumption
<1>2. \A r \in {"entity", "fn", "sum", "denom"} :
        /\ [a EXCEPT !.duration = 0][r] = a[r]
        /\ [c EXCEPT !.duration = 0][r] = c[r]
  BY <1>1
<1>3. \A r \in {"entity", "fn", "sum", "denom"} : a[r] = c[r]
  BY <1>2 DEF SameGroup
<1>4. a.entity = c.entity /\ a.fn = c.fn /\ a.sum = c.sum /\ a.denom = c.denom
  BY <1>3
<1>. QED
  BY <1>4 DEF DeltaOf, CountOf

\* N has an entry E[i] for each row of R.
Entries(N, E, R, batch) ==
    /\ \A i, j \in R : E[i] = E[j] => i = j
    /\ \A i \in R : E[i] \in N /\ E[i].row = batch[i]
    /\ \A h \in N : \E i \in R : h = E[i]

\* The coalesced bucket is that of the rows, once they are in the history.
LEMMA BucketAmounts ==
    ASSUME NEW c \in Channels, NEW a \in Channels, SameGroup(a, c),
           NEW batch \in Batches, NEW id, NEW second \in Int,
           NEW R, R = RowsOf(batch, a.entity, id), R # {},
           NEW E, NEW N, Entries(N, E, R, batch)
    PROVE  /\ Typed(N) /\ N # {}
           /\ BucketOf(a, batch, id, second) \in Bucket
           /\ BucketOf(a, batch, id, second).second = second
           /\ Amounts(BucketOf(a, batch, id, second), N, c)
<1>1. R \in SUBSET DOMAIN batch /\ IsFiniteSet(R)
  <2>1. R \in SUBSET DOMAIN batch
    BY DEF RowsOf
  <2>2. IsFiniteSet(DOMAIN batch)
    BY WindowAssumption
  <2>. QED
    BY <2>1, <2>2, FS_Subset
<1>2. \A i \in R : RowTyped(batch[i])
  BY <1>1, BatchRowTyped
<1>. DEFINE Im == {E[i] : i \in R}
<1>0. /\ N = Im
      /\ \A i, j \in R : E[i] = E[j] => i = j
      /\ \A i \in R : E[i].row = batch[i]
  BY DEF Entries
<1>3. Typed(N) /\ N # {}
  <2>1. IsFiniteSet(Im)
    BY <1>1, ImageFinite
  <2>. QED
    BY <1>0, <1>2, <2>1 DEF Typed
<1>. DEFINE f == [i \in R |-> DeltaOf(a, batch[i])]
            n == [i \in R |-> CountOf(a, batch[i])]
            d == [h \in N |-> DeltaOf(c, h.row)]
            k == [h \in N |-> CountOf(c, h.row)]
<1>4. \A row : DeltaOf(a, row) = DeltaOf(c, row) /\ CountOf(a, row) = CountOf(c, row)
  BY GroupMates
<1>5. \A i \in R : /\ f[i] = DeltaOf(a, batch[i]) /\ DeltaOf(a, batch[i]) \in Int
                   /\ n[i] = CountOf(a, batch[i]) /\ CountOf(a, batch[i]) \in Int
                   /\ d[E[i]] = f[i] /\ k[E[i]] = n[i]
  BY <1>0, <1>2, <1>4 DEF RowTyped
<1>6. TotalOf(c, N) = Sum(d, N) /\ CountedOf(c, N) = Sum(k, N)
  BY DEF TotalOf, CountedOf
<1>. HIDE DEF f, n, d, k
<1>7. BatchSum(a, batch, R) = Sum(f, R) /\ BatchCount(a, batch, R) = Sum(n, R)
  BY <1>1, <1>5, BatchDeltas, BatchCounts
<1>8. Sum(d, N) = Sum(f, R) /\ Sum(k, N) = Sum(n, R)
  <2>1. Sum(d, {E[i] : i \in R}) = Sum(f, R)
    BY <1>0, <1>1, <1>5, SumImage
  <2>2. Sum(k, {E[i] : i \in R}) = Sum(n, R)
    BY <1>0, <1>1, <1>5, SumImage
  <2>. QED
    BY <1>0, <2>1, <2>2
<1>. DEFINE b == BucketOf(a, batch, id, second)
            value == LET D(i) == DeltaOf(a, batch[i]) IN CombineAll(a.fn, D, R)
<1>9. b = [second |-> second, value |-> value, count |-> BatchCount(a, batch, R)]
  BY DEF BucketOf, BatchCount
<1>10. value = Amount(c, N)
  <2>1. a.fn = c.fn
    BY GroupMates
  <2>2. CASE Additive(c.fn)
    <3>1. value = BatchSum(a, batch, R)
      BY <2>1, <2>2 DEF BatchSum, CombineAll, Additive
    <3>2. Amount(c, N) = TotalOf(c, N)
      BY <1>3, <2>2, AmountAdds
    <3>. HIDE DEF value
    <3>. QED
      BY <1>6, <1>7, <1>8, <3>1, <3>2
  <2>3. CASE ~Additive(c.fn)
    <3>1. {DeltaOf(a, batch[i]) : i \in R} = {DeltaOf(c, h.row) : h \in N}
      BY <1>0, <1>4
    <3>2. CASE c.fn = "MIN"
      <4>1. value = Min({DeltaOf(a, batch[i]) : i \in R})
        BY <2>1, <3>2 DEF CombineAll
      <4>2. Amount(c, N) = Min({DeltaOf(c, h.row) : h \in N})
        BY <3>2 DEF Amount, CombineAll
      <4>. HIDE DEF value
      <4>. QED
        BY <3>1, <4>1, <4>2
    <3>3. CASE c.fn = "MAX"
      <4>1. value = Max({DeltaOf(a, batch[i]) : i \in R})
        BY <2>1, <3>3 DEF CombineAll
      <4>2. Amount(c, N) = Max({DeltaOf(c, h.row) : h \in N})
        BY <3>3 DEF Amount, CombineAll
      <4>. HIDE DEF value
      <4>. QED
        BY <3>1, <4>1, <4>2
    <3>. HIDE DEF value
    <3>. QED
      BY <2>3, <3>2, <3>3 DEF Additive
  <2>. HIDE DEF value
  <2>. QED
    BY <2>2, <2>3
<1>. HIDE DEF b, value
<1>11. value \in Int /\ BatchCount(a, batch, R) = CountedOf(c, N) /\ CountedOf(c, N) \in Int
  BY <1>3, <1>6, <1>7, <1>8, <1>10, AmountType, TotalType
<1>12. b \in Bucket /\ b.second = second /\ b.value = Amount(c, N) /\ b.count = CountedOf(c, N)
  BY <1>9, <1>10, <1>11 DEF Bucket
<1>13. Amounts(b, N, c)
  BY <1>3, <1>12, AmountsIs
<1>. QED
  BY <1>3, <1>12, <1>13 DEF b

-----------------------------------------------------------------------------
(* One group of channels after the other.                                  *)

\* The groups divide the channels.
LEMMA GroupsDivide ==
    /\ IsFiniteSet(Groups) /\ UNION Groups = Channels
    /\ \A g \in Groups : /\ g # {} /\ g \subseteq Channels
                         /\ \A c \in g : \A a \in Channels : a \in g <=> SameGroup(a, c)
<1>1. IsFiniteSet(Groups)
  <2>. DEFINE f == [c \in Channels |-> {a \in Channels : SameGroup(a, c)}]
  <2>1. Groups = {f[c] : c \in Channels}
    BY DEF Groups
  <2>. HIDE DEF f
  <2>. QED
    BY <2>1, WindowAssumption, ImageFinite
<1>2. \A c \in Channels : SameGroup(c, c)
  BY DEF SameGroup
<1>3. \A a, b, c : SameGroup(a, c) /\ SameGroup(b, c) => SameGroup(a, b)
  BY DEF SameGroup
<1>4. \A a, b, c : SameGroup(a, b) /\ SameGroup(b, c) => SameGroup(a, c)
  BY DEF SameGroup
<1>5. UNION Groups = Channels
  BY <1>2 DEF Groups
<1>6. ASSUME NEW g \in Groups
      PROVE  /\ g # {} /\ g \subseteq Channels
             /\ \A c \in g : \A a \in Channels : a \in g <=> SameGroup(a, c)
  <2>1. PICK k \in Channels : g = {a \in Channels : SameGroup(a, k)}
    BY DEF Groups
  <2>. QED
    BY <1>2, <1>3, <1>4, <2>1
<1>. QED
  BY <1>1, <1>5, <1>6

\* What a channel's counter of an entity of the batch becomes.
WrittenBy(a, c, id, ec) == Adds(Advance(ec, now, c), BucketOf(a, rows, id, now), c.fn)

\* A coalesced bucket is one.
LEMMA BucketType ==
    ASSUME rows \in Batches, now \in Int, NEW a \in Channels, NEW id \in IdsOf(rows, a.entity)
    PROVE  BucketOf(a, rows, id, now) \in Bucket
<1>1. PICK R : R = RowsOf(rows, a.entity, id)
  OBVIOUS
<1>. DEFINE E == [i \in R |-> [row |-> rows[i], index |-> i]]
            N == {E[i] : i \in R}
<1>2. R # {}
  BY <1>1 DEF IdsOf, RowsOf
<1>3. SameGroup(a, a)
  BY DEF SameGroup
<1>4. \A i, j \in R : E[i] = E[j] => i = j
  <2>1. \A i \in R : E[i].index = i
    OBVIOUS
  <2>. HIDE DEF E
  <2>. QED
    BY <2>1
<1>5. \A i \in R : E[i].row = rows[i]
  OBVIOUS
<1>6. Entries(N, E, R, rows)
  BY <1>4, <1>5 DEF Entries
<1>. HIDE DEF E, N
<1>. QED
  BY <1>1, <1>2, <1>3, <1>6, BucketAmounts

\* A written counter is one, and is initialized.
LEMMA WrittenType ==
    ASSUME rows \in Batches, now \in Int, NEW a \in Channels, NEW c \in Channels, SameGroup(a, c),
           NEW id \in IdsOf(rows, c.entity), NEW ec \in FiniteCounter
    PROVE  WrittenBy(a, c, id, ec) \in FiniteCounter /\ WrittenBy(a, c, id, ec).initialized
<1>1. id \in IdsOf(rows, a.entity)
  BY GroupMates
<1>2. BucketOf(a, rows, id, now) \in Bucket
  BY <1>1, BucketType
<1>3. Advance(ec, now, c) \in FiniteCounter /\ Advance(ec, now, c).initialized
  BY AdvanceType
<1>. QED
  BY <1>2, <1>3, AddsIs DEF WrittenBy

\* No entity is stamped with the next generation: none is taken for one that
\* was already touched.
Scratch ==
    {s \in [gen : 0 .. StampLimit - 1, stamp : [Ids -> 0 .. StampLimit - 1],
            counters : [Channels -> [Ids -> FiniteCounter]], active : [Channels -> Int]] :
        \A id \in Ids : s.stamp[id] <= s.gen}

\* The next generation is above every stamp, at the wrap as well.
LEMMA NextGenerationIs ==
    ASSUME NEW s \in Scratch
    PROVE  LET next == NextGeneration(s)
           IN  /\ next.gen \in 0 .. StampLimit - 1
               /\ next.stamp \in [Ids -> 0 .. StampLimit - 1]
               /\ \A id \in Ids : next.stamp[id] < next.gen
<1>. DEFINE n == (s.gen + 1) % StampLimit
            next == NextGeneration(s)
<1>1. StampLimit \in Nat /\ StampLimit > 1
  BY WindowAssumption
<1>2. /\ s.gen \in 0 .. StampLimit - 1 /\ s.stamp \in [Ids -> 0 .. StampLimit - 1]
      /\ \A id \in Ids : s.stamp[id] <= s.gen
  BY DEF Scratch
<1>3. /\ s.gen + 1 < StampLimit => n = s.gen + 1
      /\ s.gen + 1 = StampLimit => n = 0
  BY <1>1, <1>2
<1>4. (s.gen + 1 < StampLimit) \/ (s.gen + 1 = StampLimit)
  BY <1>1, <1>2
<1>5. s \in [gen : 0 .. StampLimit - 1, stamp : [Ids -> 0 .. StampLimit - 1],
             counters : [Channels -> [Ids -> FiniteCounter]], active : [Channels -> Int]]
  BY DEF Scratch
<1>6. CASE s.gen + 1 = StampLimit
  <2>1. next = [s EXCEPT !.gen = 1, !.stamp = [id \in Ids |-> 0]]
    BY <1>3, <1>6 DEF NextGeneration
  <2>2. next.gen = 1 /\ next.stamp = [id \in Ids |-> 0]
    BY <1>5, <2>1
  <2>. QED
    BY <1>1, <2>2
<1>7. CASE s.gen + 1 < StampLimit
  <2>1. n # 0
    BY <1>2, <1>3, <1>7
  <2>2. next = [s EXCEPT !.gen = n]
    BY <2>1 DEF NextGeneration
  <2>3. next.gen = n /\ next.stamp = s.stamp
    BY <1>5, <2>2
  <2>4. n = s.gen + 1
    BY <1>3, <1>7
  <2>. HIDE DEF n
  <2>. QED
    BY <1>1, <1>2, <1>7, <2>3, <2>4
<1>. QED
  BY <1>4, <1>6, <1>7

\* The ids are finitely many.
LEMMA IdsFinite == IsFiniteSet(Ids) /\ Ids \subseteq Nat /\ Cardinality(Ids) = NIds
<1>1. NIds \in Nat
  BY WindowAssumption
<1>2. 0 \in Int /\ NIds - 1 \in Int
  BY <1>1
<1>. DEFINE top == NIds - 1
<1>3. IsFiniteSet(0 .. top) /\ Cardinality(0 .. top) = IF 0 > top THEN 0 ELSE top - 0 + 1
  <2>. HIDE DEF top
  <2>. QED
    BY <1>2, FS_Interval DEF top
<1>. QED
  BY <1>1, <1>3 DEF Ids

\* The entities that get a counter of the channel c.
Fresh(g, s, c) ==
    {id \in Ids : c \in g /\ id \in IdsOf(rows, c.entity) /\ ~s.counters[c][id].initialized}

\* One group: every entity of the batch is written once.
LEMMA UpdateGroupIs ==
    ASSUME rows \in Batches, now \in Int, NEW g \in Groups, NEW s \in Scratch,
           NEW t, t = UpdateGroup(g, s)
    PROVE  /\ t \in Scratch
           /\ \E a \in g : \A c \in Channels : \A id \in Ids :
                 t.counters[c][id] = IF c \in g /\ id \in IdsOf(rows, c.entity)
                                     THEN WrittenBy(a, c, id, s.counters[c][id])
                                     ELSE s.counters[c][id]
           /\ \A c \in Channels : t.active[c] = s.active[c] + Cardinality(Fresh(g, s, c))
<1>. DEFINE any == CHOOSE c \in g : TRUE
            ids == IdsOf(rows, any.entity)
            next == NextGeneration(s)
            touched == {id \in ids : next.stamp[id] # next.gen}
            Unseen(c) == {id \in touched : ~s.counters[c][id].initialized}
            stamp2 == [id \in Ids |-> IF id \in ids THEN next.gen ELSE next.stamp[id]]
            counters2 == [c \in Channels |-> [id \in Ids |->
                              IF c \in g /\ id \in touched
                              THEN WrittenBy(any, c, id, s.counters[c][id])
                              ELSE s.counters[c][id]]]
            active2 == [c \in Channels |->
                            IF c \in g
                            THEN s.active[c] + Cardinality(Unseen(c))
                            ELSE s.active[c]]
<1>1. g # {} /\ g \subseteq Channels /\ \A c \in g : \A a \in Channels : a \in g <=> SameGroup(a, c)
  BY GroupsDivide
<1>2. any \in g
  BY <1>1
<1>3. t = IF ids = {} THEN s
          ELSE [gen |-> next.gen, stamp |-> stamp2, counters |-> counters2, active |-> active2]
  BY DEF UpdateGroup, WrittenBy, Adds, Unseen
<1>. HIDE DEF any, stamp2, counters2, active2
<1>4. \A c \in g : SameGroup(any, c) /\ any.entity = c.entity
  BY <1>1, <1>2, GroupMates
<1>5. /\ s \in [gen : 0 .. StampLimit - 1, stamp : [Ids -> 0 .. StampLimit - 1],
                counters : [Channels -> [Ids -> FiniteCounter]], active : [Channels -> Int]]
      /\ \A id \in Ids : s.stamp[id] <= s.gen
  BY DEF Scratch
<1>6. ASSUME NEW c \in Channels
      PROVE  Cardinality(Fresh(g, s, c)) \in Nat /\ s.active[c] \in Int
  <2>1. IsFiniteSet(Ids)
    BY IdsFinite
  <2>2. Fresh(g, s, c) \in SUBSET Ids
    BY DEF Fresh
  <2>3. IsFiniteSet(Fresh(g, s, c))
    BY <2>1, <2>2, FS_Subset
  <2>4. s.active[c] \in Int
    BY <1>5
  <2>. QED
    BY <2>3, <2>4, FS_CardinalityType
<1>7. CASE ids = {}
  <2>1. t = s
    BY <1>7, <1>3
  <2>2. \A c \in g : IdsOf(rows, c.entity) = {}
    BY <1>4, <1>7
  <2>3. \A c \in Channels : Fresh(g, s, c) = {}
    BY <2>2 DEF Fresh
  <2>4. Cardinality({}) = 0
    BY FS_EmptySet
  <2>5. ASSUME NEW c \in Channels
        PROVE  t.active[c] = s.active[c] + Cardinality(Fresh(g, s, c))
    <3>1. Cardinality(Fresh(g, s, c)) = 0
      BY <2>3, <2>4
    <3>. QED
      BY <1>6, <2>1, <3>1
  <2>. QED
    BY <1>2, <2>1, <2>2, <2>5
<1>8. CASE ids # {}
  <2>1. /\ next.gen \in 0 .. StampLimit - 1
        /\ next.stamp \in [Ids -> 0 .. StampLimit - 1]
        /\ \A id \in Ids : next.stamp[id] < next.gen
    BY NextGenerationIs
  <2>. HIDE DEF next
  <2>2. ids \subseteq Ids
    BY DEF IdsOf
  <2>3. touched = ids
    <3>1. \A id \in Ids : next.stamp[id] # next.gen
      BY <2>1
    <3>. QED
      BY <2>2, <3>1
  <2>4. t = [gen |-> next.gen, stamp |-> stamp2, counters |-> counters2, active |-> active2]
    BY <1>8, <1>3 DEF next
  <2>5. stamp2 \in [Ids -> 0 .. StampLimit - 1] /\ \A id \in Ids : stamp2[id] <= next.gen
    BY <2>1 DEF stamp2
  <2>6. ASSUME NEW c \in Channels, NEW id \in Ids
        PROVE  /\ counters2[c][id] = IF c \in g /\ id \in IdsOf(rows, c.entity)
                                     THEN WrittenBy(any, c, id, s.counters[c][id])
                                     ELSE s.counters[c][id]
               /\ counters2[c][id] \in FiniteCounter
    <3>1. counters2[c][id] = IF c \in g /\ id \in touched
                             THEN WrittenBy(any, c, id, s.counters[c][id])
                             ELSE s.counters[c][id]
      BY DEF counters2
    <3>. HIDE DEF touched
    <3>2. c \in g => (id \in touched <=> id \in IdsOf(rows, c.entity))
      BY <1>4, <2>3
    <3>3. s.counters[c][id] \in FiniteCounter
      BY <1>5
    <3>4. any \in Channels
      BY <1>1, <1>2
    <3>5. c \in g /\ id \in IdsOf(rows, c.entity) => WrittenBy(any, c, id, s.counters[c][id]) \in FiniteCounter
      BY <1>4, <3>3, <3>4, WrittenType
    <3>. QED
      BY <3>1, <3>2, <3>3, <3>5
  <2>7. counters2 \in [Channels -> [Ids -> FiniteCounter]]
    <3>1. \A c \in Channels : counters2[c] = [id \in Ids |-> counters2[c][id]]
      BY DEF counters2
    <3>2. counters2 = [c \in Channels |-> counters2[c]]
      BY DEF counters2
    <3>3. \A c \in Channels : counters2[c] \in [Ids -> FiniteCounter]
      BY <2>6, <3>1
    <3>. QED
      BY <3>2, <3>3
  <2>8. ASSUME NEW c \in Channels
        PROVE  active2[c] = s.active[c] + Cardinality(Fresh(g, s, c)) /\ active2[c] \in Int
    <3>1. s.active[c] \in Int
      BY <1>5
    <3>2. CASE c \in g
      <4>1. Unseen(c) = Fresh(g, s, c)
        BY <1>4, <2>2, <2>3, <3>2 DEF Fresh
      <4>2. active2[c] = s.active[c] + Cardinality(Unseen(c))
        BY <3>2 DEF active2
      <4>. HIDE DEF Unseen
      <4>. QED
        BY <1>6, <3>1, <4>1, <4>2
    <3>3. CASE c \notin g
      <4>1. Fresh(g, s, c) = {}
        BY <3>3 DEF Fresh
      <4>2. active2[c] = s.active[c]
        BY <3>3 DEF active2
      <4>3. Cardinality({}) = 0
        BY FS_EmptySet
      <4>. QED
        BY <3>1, <4>1, <4>2, <4>3
    <3>. QED
      BY <3>2, <3>3
  <2>9. active2 \in [Channels -> Int]
    <3>1. active2 = [c \in Channels |-> active2[c]]
      BY DEF active2
    <3>. QED
      BY <2>8, <3>1
  <2>10. t.gen = next.gen /\ t.stamp = stamp2 /\ t.counters = counters2 /\ t.active = active2
    BY <2>4
  <2>11. t \in Scratch
    BY <2>1, <2>4, <2>5, <2>7, <2>9 DEF Scratch
  <2>12. \A c \in Channels : t.active[c] = s.active[c] + Cardinality(Fresh(g, s, c))
    BY <2>8, <2>10
  <2>. QED
    BY <1>2, <2>6, <2>10, <2>11, <2>12
<1>. QED
  BY <1>7, <1>8

\* What the channels C have become in t, from s.
Updated(C, s, t) ==
    /\ t \in Scratch
    /\ \A c \in Channels : \A id \in Ids :
          IF c \in C /\ id \in IdsOf(rows, c.entity)
          THEN \E a \in Channels : /\ SameGroup(a, c)
                                   /\ t.counters[c][id] = WrittenBy(a, c, id, s.counters[c][id])
          ELSE t.counters[c][id] = s.counters[c][id]
    /\ \A c \in Channels : t.active[c] = s.active[c] + Cardinality(Fresh(C, s, c))

\* A group that is updated after others, none of them its own.
LEMMA UpdatedOnce ==
    ASSUME rows \in Batches, now \in Int, NEW T \in SUBSET Groups, NEW g \in T,
           NEW s \in Scratch, NEW r, Updated(UNION (T \ {g}), s, r)
    PROVE  Updated(UNION T, s, UpdateGroup(g, r))
<1>. DEFINE C == UNION (T \ {g})
            D == UNION T
<1>1. PICK t : t = UpdateGroup(g, r)
  OBVIOUS
<1>2. g \in Groups /\ r \in Scratch
  BY DEF Updated
<1>3. /\ t \in Scratch
      /\ \A c \in Channels : t.active[c] = r.active[c] + Cardinality(Fresh(g, r, c))
  BY <1>1, <1>2, UpdateGroupIs
<1>4. PICK a \in g : \A c \in Channels : \A id \in Ids :
                 t.counters[c][id] = IF c \in g /\ id \in IdsOf(rows, c.entity)
                                     THEN WrittenBy(a, c, id, r.counters[c][id])
                                     ELSE r.counters[c][id]
  BY <1>1, <1>2, UpdateGroupIs
<1>5. /\ D = C \cup g
      /\ \A c \in g : c \notin C
  <2>1. ASSUME NEW c \in g, NEW h \in T \ {g}, c \in h
        PROVE  FALSE
    <3>1. c \in Channels /\ h \in Groups /\ g \subseteq Channels /\ h \subseteq Channels
      BY <1>2, <2>1, GroupsDivide
    <3>2. \A b \in Channels : (b \in g <=> SameGroup(b, c)) /\ (b \in h <=> SameGroup(b, c))
      BY <1>2, <2>1, <3>1, GroupsDivide
    <3>3. g = h
      BY <3>1, <3>2
    <3>. QED
      BY <3>3
  <2>. QED
    BY <2>1
<1>6. /\ a \in Channels
      /\ \A c \in g : SameGroup(a, c)
  BY <1>2, GroupsDivide
<1>. HIDE DEF C, D
<1>7. ASSUME NEW c \in Channels, NEW id \in Ids
      PROVE  IF c \in D /\ id \in IdsOf(rows, c.entity)
             THEN \E b \in Channels : /\ SameGroup(b, c)
                                      /\ t.counters[c][id] = WrittenBy(b, c, id, s.counters[c][id])
             ELSE t.counters[c][id] = s.counters[c][id]
  <2>1. IF c \in C /\ id \in IdsOf(rows, c.entity)
        THEN \E b \in Channels : /\ SameGroup(b, c)
                                 /\ r.counters[c][id] = WrittenBy(b, c, id, s.counters[c][id])
        ELSE r.counters[c][id] = s.counters[c][id]
    BY DEF Updated, C
  <2>2. CASE c \in g /\ id \in IdsOf(rows, c.entity)
    <3>1. r.counters[c][id] = s.counters[c][id] /\ c \in D
      BY <1>5, <2>1, <2>2
    <3>2. t.counters[c][id] = WrittenBy(a, c, id, s.counters[c][id])
      BY <1>4, <2>2, <3>1
    <3>. QED
      BY <1>6, <2>2, <3>1, <3>2
  <2>3. CASE ~(c \in g /\ id \in IdsOf(rows, c.entity))
    <3>1. t.counters[c][id] = r.counters[c][id]
      BY <1>4, <2>3
    <3>2. c \in D /\ id \in IdsOf(rows, c.entity) <=> c \in C /\ id \in IdsOf(rows, c.entity)
      BY <1>5, <2>3
    <3>. QED
      BY <2>1, <3>1, <3>2
  <2>. QED
    BY <2>2, <2>3
<1>8. ASSUME NEW c \in Channels
      PROVE  t.active[c] = s.active[c] + Cardinality(Fresh(D, s, c))
  <2>1. r.active[c] = s.active[c] + Cardinality(Fresh(C, s, c))
    BY DEF Updated, C
  <2>2. t.active[c] = r.active[c] + Cardinality(Fresh(g, r, c))
    BY <1>3
  <2>3. s.active[c] \in Int /\ r.active[c] \in Int
    BY <1>2 DEF Scratch
  <2>4. /\ Cardinality(Fresh(C, s, c)) \in Nat /\ Cardinality(Fresh(D, s, c)) \in Nat
        /\ Cardinality({}) = 0
    <3>1. IsFiniteSet(Fresh(C, s, c)) /\ IsFiniteSet(Fresh(D, s, c))
      <4>1. Fresh(C, s, c) \in SUBSET Ids /\ Fresh(D, s, c) \in SUBSET Ids
        BY DEF Fresh
      <4>. QED
        BY <4>1, IdsFinite, FS_Subset
    <3>. QED
      BY <3>1, FS_CardinalityType, FS_EmptySet
  <2>5. CASE c \in g
    <3>1. Fresh(C, s, c) = {}
      BY <1>5, <2>5 DEF Fresh
    <3>2. \A id \in Ids : r.counters[c][id] = s.counters[c][id]
      BY <1>5, <2>5 DEF Updated, C
    <3>3. Fresh(g, r, c) = Fresh(D, s, c)
      BY <1>5, <2>5, <3>2 DEF Fresh
    <3>. QED
      BY <2>1, <2>2, <2>3, <2>4, <3>1, <3>3
  <2>6. CASE c \notin g
    <3>1. Fresh(g, r, c) = {}
      BY <2>6 DEF Fresh
    <3>2. Fresh(C, s, c) = Fresh(D, s, c)
      BY <1>5, <2>6 DEF Fresh
    <3>. QED
      BY <2>1, <2>2, <2>3, <2>4, <3>1, <3>2
  <2>. QED
    BY <2>5, <2>6
<1>9. Updated(D, s, t)
  BY <1>3, <1>7, <1>8 DEF Updated
<1>. QED
  BY <1>1, <1>9 DEF D

\* update_all_channels writes every channel, and each of them once.
LEMMA UpdateIs ==
    ASSUME rows \in Batches, now \in Int, NEW before \in Scratch
    PROVE  Updated(Channels, before, FoldSet(UpdateGroup, before, Groups))
<1>. DEFINE step == [g \in Groups |-> [s \in Scratch |-> UpdateGroup(g, s)]]
            value(h, S) == IF S = {} THEN before ELSE UpdateGroup(Chosen(S), h[S \ {Chosen(S)}])
            iter == CHOOSE h : h = [S \in SUBSET Groups |-> value(h, S)]
<1>1. IsFiniteSet(Groups) /\ UNION Groups = Channels
  BY GroupsDivide
<1>2. PICK k \in [SUBSET Groups -> Scratch] : FoldsBy(k, Groups, before, step)
  <2>1. \A g \in Groups : \A s \in Scratch : UpdateGroup(g, s) \in Scratch
    BY UpdateGroupIs
  <2>2. step \in [Groups -> [Scratch -> Scratch]]
    BY <2>1
  <2>. HIDE DEF step
  <2>. QED
    BY Zenon, <1>1, <2>2, FoldExists
<1>3. \E h : h = [S \in SUBSET Groups |-> value(h, S)]
  <2>1. ASSUME NEW S \in SUBSET Groups
        PROVE  k[S] = value(k, S)
    <3>1. k[S] = IF S = {} THEN before ELSE step[Chosen(S)][k[S \ {Chosen(S)}]]
      <4>. HIDE DEF step
      <4>. QED
        BY <1>2, FoldAt
    <3>2. S # {} => Chosen(S) \in Groups /\ k[S \ {Chosen(S)}] \in Scratch
      BY ChosenIn
    <3>. QED
      BY <3>1, <3>2
  <2>2. k = [S \in SUBSET Groups |-> value(k, S)]
    <3>. HIDE DEF value
    <3>. QED
      BY <1>2, <2>1
  <2>. HIDE DEF value
  <2>. QED
    BY <2>2
<1>4. iter = [S \in SUBSET Groups |-> value(iter, S)]
  <2>. HIDE DEF value
  <2>. QED
    BY <1>3
<1>5. FoldSet(UpdateGroup, before, Groups) = iter[Groups]
  BY DEF FoldSet, MapThenFoldSet, Chosen
<1>. HIDE DEF iter, step
<1>6. \A S \in SUBSET Groups : iter[S] = value(iter, S)
  <2>. HIDE DEF value
  <2>. QED
    BY <1>4
<1>. DEFINE Good == {S \in SUBSET Groups : Updated(UNION S, before, iter[S])}
<1>7. ASSUME NEW S \in SUBSET Groups, \A g \in S : S \ {g} \in Good
      PROVE  S \in Good
  <2>1. CASE S = {}
    <3>1. iter[S] = before
      BY <1>6, <2>1
    <3>2. \A c \in Channels : before.active[c] = before.active[c] + Cardinality(Fresh({}, before, c))
      <4>1. \A c \in Channels : Fresh({}, before, c) = {}
        BY DEF Fresh
      <4>2. Cardinality({}) = 0
        BY FS_EmptySet
      <4>3. \A c \in Channels : before.active[c] \in Int
        BY DEF Scratch
      <4>4. \A c \in Channels : Cardinality(Fresh({}, before, c)) = 0
        BY <4>1, <4>2
      <4>. QED
        BY <4>3, <4>4
    <3>3. UNION S = {}
      BY <2>1
    <3>4. Updated({}, before, before)
      BY <3>2 DEF Updated
    <3>. QED
      BY <3>1, <3>3, <3>4
  <2>2. CASE S # {}
    <3>1. PICK g : g = Chosen(S)
      OBVIOUS
    <3>2. g \in S
      BY <2>2, <3>1, ChosenIn
    <3>3. iter[S] = UpdateGroup(g, iter[S \ {g}])
      BY <1>6, <2>2, <3>1
    <3>4. Updated(UNION (S \ {g}), before, iter[S \ {g}])
      BY <1>7, <3>2
    <3>5. Updated(UNION S, before, UpdateGroup(g, iter[S \ {g}]))
      BY <3>2, <3>4, UpdatedOnce
    <3>. QED
      BY <3>3, <3>5
  <2>. QED
    BY <2>1, <2>2
<1>8. Groups \in Good
  <2>. HIDE DEF Good
  <2>1. \A S \in SUBSET Groups : S \in Good
    BY <1>1, <1>7, SubsetInduction
  <2>. QED
    BY <2>1
<1>. QED
  BY <1>1, <1>5, <1>8

-----------------------------------------------------------------------------
(* The invariant.                                                          *)

\* The rows of the history have numbers.
LEMMA LiveTyped ==
    ASSUME HistoryOK, NEW M \in SUBSET history
    PROVE  Typed(M) /\ \A h \in M : h.second \in Nat \ {0}
<1>1. \A h \in history : RowTyped(h.row) /\ h.second \in Nat \ {0}
  BY BatchRowTyped DEF HistoryOK, RowOK
<1>2. IsFiniteSet(M)
  BY FS_Subset DEF HistoryOK
<1>. QED
  BY <1>1, <1>2 DEF Typed

\* An access at second s advances a counter to the rows that are live then.
LEMMA AdvanceLive ==
    ASSUME HistoryOK, NEW c \in Channels, NEW id \in Ids, NEW ec \in FiniteCounter,
           NEW v \in Nat, v = seen[c.entity][id], NEW s \in Nat \ {0},
           ec.initialized => ec.head = v /\ Holds(ec, c, LiveAfter(c, id, v)),
           ~ec.initialized =>
               \/ v = 0
               \/ /\ backs = 0 /\ v <= s
                  /\ \A h \in history : h.row[c.entity] = id => h.second <= s - c.duration,
           NEW w, w = IF v > s THEN v ELSE s
    PROVE  /\ Advance(ec, s, c).head = w
           /\ Holds(Advance(ec, s, c), c, LiveAfter(c, id, w))
<1>1. c.duration \in Nat \ {0} /\ c.entity \in EntityColumns /\ s \in Int
  BY WindowAssumption DEF EntityColumns
<1>2. ASSUME NEW h \in history, h.row[c.entity] = id
      PROVE  /\ h.second \in Nat \ {0} /\ h.seen[c.entity][id] \in Nat
             /\ h.second <= h.seen[c.entity][id] /\ h.seen[c.entity][id] <= v
             /\ backs = 0 => h.seen[c.entity][id] = h.second
  <2>1. RowOK(h)
    BY DEF HistoryOK
  <2>. QED
    BY <1>1, <1>2, <2>1 DEF RowOK
<1>3. Advance(ec, s, c).head = w
  <2>1. Advance(ec, s, c).head = IF ec.initialized /\ ec.head > s THEN ec.head ELSE s
    BY AdvanceType
  <2>2. CASE ec.initialized
    BY <2>1, <2>2
  <2>3. CASE ~ec.initialized
    BY <2>1, <2>3
  <2>. QED
    BY <2>2, <2>3
<1>4. CASE ~ec.initialized
  <2>1. w = s
    BY <1>4
  <2>2. LiveAfter(c, id, w) = {}
    <3>1. ASSUME NEW h \in history, h.row[c.entity] = id,
                 h.second > w - c.duration \/ h.seen[c.entity][id] = w
          PROVE  FALSE
      <4>1. CASE v = 0
        BY <1>2, <3>1, <4>1
      <4>2. CASE v # 0
        BY <1>1, <1>2, <1>4, <2>1, <3>1, <4>2
      <4>. QED
        BY <4>1, <4>2
    <3>. QED
      BY <3>1 DEF LiveAfter
  <2>3. Advance(ec, s, c) = Cleared(s)
    BY <1>4 DEF Advance
  <2>. QED
    BY <1>1, <1>3, <2>2, <2>3, ClearedIs
<1>5. CASE ec.initialized /\ v >= s
  <2>1. Advance(ec, s, c) = ec
    <3>1. s - ec.head <= 0 /\ ~(s - ec.head >= c.duration)
      BY <1>1, <1>5
    <3>. QED
      BY <1>5, <3>1 DEF Advance
  <2>2. w = v
    BY <1>5
  <2>. QED
    BY <1>3, <1>5, <2>1, <2>2
<1>6. CASE ec.initialized /\ s >= v + c.duration
  <2>1. Advance(ec, s, c) = Cleared(s)
    <3>1. ~(s - ec.head <= 0) /\ s - ec.head >= c.duration
      BY <1>1, <1>6
    <3>. QED
      BY <1>6, <3>1 DEF Advance
  <2>2. w = s
    BY <1>1, <1>6
  <2>3. LiveAfter(c, id, w) = {}
    <3>1. ASSUME NEW h \in history, h.row[c.entity] = id,
                 h.second > w - c.duration \/ h.seen[c.entity][id] = w
          PROVE  FALSE
      BY <1>1, <1>2, <1>6, <2>2, <3>1
    <3>. QED
      BY <3>1 DEF LiveAfter
  <2>. QED
    BY <1>1, <1>3, <2>1, <2>3, ClearedIs
<1>7. CASE ec.initialized /\ s > v /\ s < v + c.duration
  <2>. DEFINE L == LiveAfter(c, id, v)
  <2>1. w = s
    BY <1>7
  <2>2. L \in SUBSET history
    BY DEF LiveAfter
  <2>3. Typed(L) /\ \A h \in L : h.second \in Int
    <3>. HIDE DEF L
    <3>1. Typed(L) /\ \A h \in L : h.second \in Nat \ {0}
      BY <2>2, LiveTyped
    <3>. QED
      BY <3>1
  <2>4. Holds(Advance(ec, s, c), c, Within(L, Int \ Past(s, c)))
    <3>. HIDE DEF L
    <3>. QED
      BY <1>7, <2>3, AdvanceHolds DEF L
  <2>5. Within(L, Int \ Past(s, c)) = LiveAfter(c, id, w)
    <3>1. ASSUME NEW h \in history, h.row[c.entity] = id
          PROVE  /\ h.second \in Int \ Past(s, c) <=> h.second > s - c.duration
                 /\ h.second > s - c.duration => h.second > v - c.duration
                 /\ h.seen[c.entity][id] # s
      BY <1>1, <1>2, <1>7, <3>1 DEF Past
    <3>. QED
      BY <2>1, <3>1 DEF LiveAfter, Within
  <2>. QED
    BY <1>3, <2>4, <2>5
<1>. QED
  BY <1>1, <1>4, <1>5, <1>6, <1>7

\* An absent counter.
LEMMA AbsentIs ==
    /\ Absent \in FiniteCounter /\ Absent.initialized = FALSE
    /\ Absent.inline = {} /\ Absent.extra = {}
<1>1. IsFiniteSet({})
  BY FS_EmptySet
<1>. QED
  BY <1>1 DEF Absent, FiniteCounter, Counter

\* The counters of an invariant state.
LEMMA CounterTyped ==
    ASSUME TypeOK, SlotsOK, NEW c \in Channels, NEW id \in Ids
    PROVE  counters[c][id] \in FiniteCounter /\ c.entity \in EntityColumns /\ seen[c.entity][id] \in Nat
<1>1. counters[c][id] \in Counter
  BY DEF TypeOK
<1>2. IsFiniteSet(counters[c][id].inline) /\ IsFiniteSet(counters[c][id].extra)
  BY DEF SlotsOK
<1>3. c.entity \in EntityColumns
  BY DEF EntityColumns
<1>4. seen[c.entity][id] \in 0 .. MaxClock
  BY <1>3 DEF TypeOK
<1>5. seen[c.entity][id] \in Nat
  BY <1>4, WindowAssumption
<1>. QED
  BY <1>1, <1>2, <1>3, <1>5 DEF FiniteCounter

\* The initial states satisfy the invariant.
LEMMA InitInv == Init => StoreInv
<1>. SUFFICES ASSUME Init PROVE StoreInv
  OBVIOUS
<1>. USE DEF Init
<1>1. TypeOK
  <2>1. counters \in [Channels -> [Ids -> Counter]]
    BY AbsentIs DEF FiniteCounter
  <2>2. clock \in 1 .. MaxClock /\ now \in 0 .. MaxClock
    BY WindowAssumption
  <2>3. active \in [Channels -> 0 .. NIds]
    BY WindowAssumption
  <2>4. stamp \in [Ids -> 0 .. StampLimit - 1] /\ gen \in 0 .. StampLimit - 1
    BY WindowAssumption
  <2>5. seen \in [EntityColumns -> [Ids -> 0 .. MaxClock]]
    BY WindowAssumption
  <2>6. batches \in 0 .. MaxBatches /\ backs \in 0 .. MaxBack
    BY WindowAssumption
  <2>7. evictions \in 0 .. MaxEvictions /\ resets \in 0 .. MaxResets
    BY WindowAssumption
  <2>. QED
    BY <2>1, <2>2, <2>3, <2>4, <2>5, <2>6, <2>7 DEF TypeOK
<1>2. SlotsOK
  <2>1. \A c \in Channels : \A id \in Ids : counters[c][id] = Absent
    OBVIOUS
  <2>2. IsFiniteSet({}) /\ Cardinality({}) = 0
    BY FS_EmptySet
  <2>3. \A c \in Channels : {id \in Ids : counters[c][id].initialized} = {}
    BY <2>1, AbsentIs
  <2>. QED
    BY <2>1, <2>2, <2>3, AbsentIs DEF SlotsOK
<1>3. StampsOK
  BY DEF StampsOK
<1>4. SeenOK
  BY DEF SeenOK
<1>5. HistoryOK
  BY FS_EmptySet DEF HistoryOK
<1>6. CountersOK
  <2>1. \A c \in Channels : \A id \in Ids : ~counters[c][id].initialized /\ seen[c.entity][id] = 0
    BY AbsentIs DEF EntityColumns
  <2>. QED
    BY <2>1 DEF CountersOK, CounterOK
<1>. QED
  BY <1>1, <1>2, <1>3, <1>4, <1>5, <1>6 DEF StoreInv

\* A step that leaves the store alone.
LEMMA StoreStays ==
    ASSUME StoreInv, TypeOK', SeenOK', StoreUnchanged, UNCHANGED <<batches, evictions>>,
           phase' = "read" => phase = "read",
           \/ UNCHANGED backs /\ clock' \in Int /\ clock' >= clock
           \/ backs' # 0
    PROVE  StoreInv'
<1>. USE DEF StoreUnchanged
<1>1. SlotsOK'
  BY DEF StoreInv, SlotsOK
<1>2. StampsOK'
  BY DEF StoreInv, StampsOK
<1>3. HistoryOK'
  BY DEF StoreInv, HistoryOK, RowOK
<1>4. ASSUME backs' = 0 \/ evictions' = 0, NEW c \in Channels, NEW id \in Ids
      PROVE  CounterOK(c, id)'
  <2>1. backs = 0 \/ evictions = 0
    BY <1>4
  <2>2. CounterOK(c, id)
    BY <2>1 DEF StoreInv, CountersOK
  <2>3. LiveAt(c, id)' = LiveAt(c, id)
    BY DEF LiveAt
  <2>4. CASE counters[c][id].initialized
    BY <2>2, <2>3, <2>4 DEF CounterOK
  <2>5. CASE ~counters[c][id].initialized
    <3>1. evictions' = 0 => seen'[c.entity][id] = 0
      BY <2>2, <2>5 DEF CounterOK
    <3>2. ASSUME backs' = 0, NEW h \in history', h.row[c.entity] = id
          PROVE  h.second <= clock' - c.duration
      <4>1. backs = 0 /\ clock' \in Int /\ clock' >= clock
        BY <3>2
      <4>2. h \in history /\ h.second <= clock - c.duration
        BY <2>2, <2>5, <3>2, <4>1 DEF CounterOK
      <4>3. h.second \in Int /\ clock \in Int /\ c.duration \in Int
        <5>1. h.second \in Nat \ {0}
          BY <4>2 DEF StoreInv, HistoryOK, RowOK
        <5>2. clock \in Int /\ c.duration \in Int
          BY WindowAssumption DEF StoreInv, TypeOK
        <5>. QED
          BY <5>1, <5>2
      <4>. QED
        BY <4>1, <4>2, <4>3
    <3>. QED
      BY <2>5, <3>1, <3>2 DEF CounterOK
  <2>. QED
    BY <2>4, <2>5
<1>5. CountersOK'
  BY <1>4 DEF CountersOK
<1>. QED
  BY <1>1, <1>2, <1>3, <1>5 DEF StoreInv

\* Every step keeps it: the clock.
LEMMA TickInv == ASSUME StoreInv, Tick PROVE StoreInv'
<1>. USE DEF Tick, StoreUnchanged
<1>1. clock \in Int /\ backs \in Nat /\ MaxClock \in Int /\ MaxBack \in Int
  BY WindowAssumption DEF StoreInv, TypeOK
<1>2. /\ clock' \in 1 .. MaxClock /\ backs' \in 0 .. MaxBack
      /\ \/ UNCHANGED backs /\ clock' \in Int /\ clock' >= clock
         \/ backs' # 0
  <2>1. CASE clock' \in clock + 1 .. MaxClock /\ UNCHANGED backs
    BY <1>1, <2>1 DEF StoreInv, TypeOK
  <2>2. CASE backs < MaxBack /\ clock' \in 1 .. clock - 1 /\ backs' = backs + 1
    BY <1>1, <2>2 DEF StoreInv, TypeOK
  <2>. QED
    BY <2>1, <2>2
<1>3. TypeOK'
  BY <1>2 DEF StoreInv, TypeOK
<1>4. SeenOK'
  <2>1. ASSUME backs' = 0, NEW col \in EntityColumns, NEW id \in Ids
        PROVE  seen'[col][id] <= clock'
    <3>1. seen[col][id] <= clock /\ clock' >= clock
      BY <1>1, <1>2, <2>1 DEF StoreInv, SeenOK
    <3>2. seen[col][id] \in 0 .. MaxClock
      BY DEF StoreInv, TypeOK
    <3>. QED
      BY <1>1, <1>2, <3>1, <3>2
  <2>. QED
    BY <2>1 DEF SeenOK
<1>5. UNCHANGED <<batches, evictions>> /\ phase' = phase
  OBVIOUS
<1>. QED
  BY <1>2, <1>3, <1>4, <1>5, StoreStays

\* ... a failed evaluation, which leaves no trace,
LEMMA ThrowInv == ASSUME StoreInv, Throw PROVE StoreInv'
<1>. USE DEF Throw, StoreUnchanged
<1>1. TypeOK'
  BY DEF StoreInv, TypeOK
<1>2. SeenOK'
  BY DEF StoreInv, SeenOK
<1>3. clock' \in Int /\ clock' >= clock
  BY WindowAssumption DEF StoreInv, TypeOK
<1>4. UNCHANGED <<batches, evictions, backs>> /\ phase' # "read"
  OBVIOUS
<1>. QED
  BY <1>1, <1>2, <1>3, <1>4, StoreStays

\* ... a step that changes nothing,
LEMMA StutterInv == ASSUME StoreInv, UNCHANGED vars PROVE StoreInv'
<1>. USE DEF vars, StoreUnchanged
<1>1. TypeOK'
  BY DEF StoreInv, TypeOK
<1>2. SeenOK'
  BY DEF StoreInv, SeenOK
<1>3. clock' \in Int /\ clock' >= clock
  BY WindowAssumption DEF StoreInv, TypeOK
<1>4. UNCHANGED <<batches, evictions, backs, phase>>
  OBVIOUS
<1>. QED
  BY <1>1, <1>2, <1>3, <1>4, StoreStays

\* ... a reset, after which there is nothing to hold.
LEMMA ResetInv == ASSUME StoreInv, Reset PROVE StoreInv'
<1>. USE DEF Reset
<1>1. TypeOK'
  <2>1. counters' \in [Channels -> [Ids -> Counter]]
    BY AbsentIs DEF FiniteCounter
  <2>2. active' \in [Channels -> 0 .. NIds]
    BY WindowAssumption
  <2>3. seen' \in [EntityColumns -> [Ids -> 0 .. MaxClock]]
    BY WindowAssumption
  <2>4. resets' \in 0 .. MaxResets
    BY WindowAssumption DEF StoreInv, TypeOK
  <2>. QED
    BY <2>1, <2>2, <2>3, <2>4 DEF StoreInv, TypeOK
<1>2. SlotsOK'
  <2>1. \A c \in Channels : \A id \in Ids : counters'[c][id] = Absent
    OBVIOUS
  <2>2. IsFiniteSet({}) /\ Cardinality({}) = 0
    BY FS_EmptySet
  <2>3. \A c \in Channels : {id \in Ids : counters'[c][id].initialized} = {}
    BY <2>1, AbsentIs
  <2>. QED
    BY <2>1, <2>2, <2>3, AbsentIs DEF SlotsOK
<1>3. StampsOK'
  BY DEF StoreInv, StampsOK
<1>4. SeenOK'
  <2>1. 0 <= clock
    BY WindowAssumption DEF StoreInv, TypeOK
  <2>. QED
    BY <2>1 DEF StoreInv, SeenOK
<1>5. HistoryOK'
  BY FS_EmptySet DEF HistoryOK
<1>6. CountersOK'
  <2>1. \A c \in Channels : \A id \in Ids : ~counters'[c][id].initialized /\ seen'[c.entity][id] = 0
    BY AbsentIs DEF EntityColumns
  <2>. QED
    BY <2>1 DEF CountersOK, CounterOK
<1>. QED
  BY <1>1, <1>2, <1>3, <1>4, <1>5, <1>6 DEF StoreInv

\* A freed counter held nothing that is live while the clock goes on.
LEMMA EvictInv == ASSUME StoreInv, Evict PROVE StoreInv'
<1>. USE DEF Evict
<1>. DEFINE Gone(c) == {id \in Ids : Stale(counters[c][id], c)}
            Before(c) == {id \in Ids : counters[c][id].initialized}
            After(c) == {id \in Ids : counters'[c][id].initialized}
<1>1. /\ \A c \in Channels : \A id \in Ids :
           counters'[c][id] = IF Stale(counters[c][id], c) THEN Absent ELSE counters[c][id]
      /\ \A c \in Channels : active'[c] = active[c] - Cardinality(Gone(c))
  BY DEF ActiveAfterEviction
<1>2. ASSUME NEW c \in Channels, NEW id \in Ids
      PROVE  counters'[c][id] \in FiniteCounter
  BY <1>1, CounterTyped, AbsentIs DEF StoreInv
<1>3. ASSUME NEW c \in Channels
      PROVE  active'[c] = Cardinality(After(c)) /\ active'[c] \in 0 .. NIds
  <2>1. Gone(c) \subseteq Before(c)
    BY DEF Stale
  <2>2. After(c) = Before(c) \ Gone(c)
    BY <1>1, AbsentIs
  <2>3. Before(c) \in SUBSET Ids /\ active[c] = Cardinality(Before(c))
    BY DEF StoreInv, SlotsOK
  <2>. HIDE DEF Gone, Before, After
  <2>4. IsFiniteSet(Before(c)) /\ IsFiniteSet(Gone(c))
    BY <2>1, <2>3, IdsFinite, FS_Subset
  <2>5. /\ Cardinality(Before(c)) \in Nat /\ Cardinality(Gone(c)) \in Nat
        /\ Cardinality(Before(c) \ Gone(c)) = Cardinality(Before(c)) - Cardinality(Before(c) \cap Gone(c))
    BY <2>4, FS_CardinalityType, FS_Difference
  <2>6. Before(c) \cap Gone(c) = Gone(c)
    BY <2>1
  <2>7. Cardinality(After(c)) = active[c] - Cardinality(Gone(c))
    BY <2>2, <2>3, <2>5, <2>6
  <2>8. After(c) \in SUBSET Ids
    BY <2>2, <2>3
  <2>9. Cardinality(After(c)) <= NIds /\ Cardinality(After(c)) \in Nat
    BY <2>8, IdsFinite, FS_Subset, FS_CardinalityType
  <2>. QED
    BY <1>1, <2>7, <2>9, WindowAssumption
<1>4. TypeOK'
  <2>1. counters' \in [Channels -> [Ids -> Counter]]
    <3>1. \A c \in Channels : \A id \in Ids :
            (IF Stale(counters[c][id], c) THEN Absent ELSE counters[c][id]) \in Counter
      BY <1>1, <1>2 DEF FiniteCounter
    <3>. QED
      BY <3>1
  <2>2. active' \in [Channels -> 0 .. NIds]
    <3>1. active' = [c \in Channels |-> active'[c]]
      OBVIOUS
    <3>. QED
      BY <1>3, <3>1
  <2>3. evictions' \in 0 .. MaxEvictions
    BY WindowAssumption DEF StoreInv, TypeOK
  <2>. QED
    BY <2>1, <2>2, <2>3 DEF StoreInv, TypeOK
<1>5. SlotsOK'
  <2>1. ASSUME NEW c \in Channels, NEW id \in Ids
        PROVE  /\ IsFiniteSet(counters'[c][id].inline) /\ IsFiniteSet(counters'[c][id].extra)
               /\ IF counters'[c][id].initialized
                  THEN seen'[c.entity][id] > 0
                  ELSE counters'[c][id] = Absent
    BY <1>1, <1>2, AbsentIs DEF StoreInv, SlotsOK, FiniteCounter
  <2>. QED
    BY <1>3, <2>1 DEF SlotsOK
<1>6. StampsOK'
  BY DEF StoreInv, StampsOK
<1>7. SeenOK'
  BY DEF StoreInv, SeenOK
<1>8. HistoryOK'
  BY DEF StoreInv, HistoryOK, RowOK
<1>9. ASSUME backs' = 0 \/ evictions' = 0, NEW c \in Channels, NEW id \in Ids
      PROVE  CounterOK(c, id)'
  <2>1. evictions' # 0 /\ backs' = 0 /\ backs = 0
    <3>1. evictions \in Nat
      BY WindowAssumption DEF StoreInv, TypeOK
    <3>. QED
      BY <1>9, <3>1
  <2>2. CounterOK(c, id)
    BY <2>1 DEF StoreInv, CountersOK
  <2>3. LiveAt(c, id)' = LiveAt(c, id)
    BY DEF LiveAt
  <2>4. CASE ~Stale(counters[c][id], c)
    <3>1. counters'[c][id] = counters[c][id]
      BY <1>1, <2>4
    <3>. QED
      BY <2>1, <2>2, <2>3, <3>1 DEF CounterOK
  <2>5. CASE Stale(counters[c][id], c)
    <3>1. counters'[c][id].initialized = FALSE
      BY <1>1, <2>5, AbsentIs
    <3>2. clock - seen[c.entity][id] > c.duration * 2
      BY <2>2, <2>5 DEF Stale, CounterOK
    <3>3. seen[c.entity][id] \in Nat /\ clock \in Int /\ c.duration \in Nat /\ c.entity \in EntityColumns
      <4>1. seen[c.entity][id] \in Nat /\ c.entity \in EntityColumns
        BY CounterTyped DEF StoreInv
      <4>2. clock \in Int /\ c.duration \in Nat
        BY WindowAssumption DEF StoreInv, TypeOK
      <4>. QED
        BY <4>1, <4>2
    <3>4. ASSUME NEW h \in history, h.row[c.entity] = id
          PROVE  h.second <= clock - c.duration
      <4>1. RowOK(h)
        BY DEF StoreInv, HistoryOK
      <4>2. /\ h.second \in Nat /\ h.seen[c.entity][id] \in Nat
            /\ h.second <= h.seen[c.entity][id] /\ h.seen[c.entity][id] <= seen[c.entity][id]
        BY <3>3, <3>4, <4>1 DEF RowOK
      <4>. QED
        BY <3>2, <3>3, <4>2
    <3>. QED
      BY <2>1, <3>1, <3>4 DEF CounterOK
  <2>. QED
    BY <2>4, <2>5
<1>10. CountersOK'
  BY <1>9 DEF CountersOK
<1>. QED
  BY <1>4, <1>5, <1>6, <1>7, <1>8, <1>10 DEF StoreInv

\* The access of a batch's entities.
LEMMA SeenLater ==
    ASSUME TypeOK, NEW col \in EntityColumns, NEW id \in Ids
    PROVE  /\ seen[col][id] \in Nat /\ clock \in Nat \ {0} /\ clock \in 0 .. MaxClock
           /\ Max({seen[col][id], clock}) = IF seen[col][id] > clock THEN seen[col][id] ELSE clock
           /\ Max({seen[col][id], clock}) \in 0 .. MaxClock
<1>1. seen[col][id] \in 0 .. MaxClock /\ clock \in 1 .. MaxClock /\ MaxClock \in Nat
  BY WindowAssumption DEF TypeOK
<1>2. Max({seen[col][id], clock}) = IF seen[col][id] > clock THEN seen[col][id] ELSE clock
  BY <1>1, MaxOfTwo
<1>. QED
  BY <1>1, <1>2

\* A query advances the counters and the accesses together.
LEMMA QueryInv == ASSUME StoreInv, Query PROVE StoreInv'
<1>1. /\ \A c \in Channels : \A id \in Ids :
           counters'[c][id] = IF id \in IdsOf(rows', c.entity) /\ counters[c][id].initialized
                              THEN Advance(counters[c][id], clock, c)
                              ELSE counters[c][id]
      /\ \A col \in EntityColumns : \A id \in Ids :
           seen'[col][id] = IF id \in IdsOf(rows', col) /\ seen[col][id] # 0
                            THEN Max({seen[col][id], clock})
                            ELSE seen[col][id]
  BY DEF Query
<1>. /\ phase' = "read" /\ rows' \in Batches /\ now' = clock
     /\ batches < MaxBatches /\ batches' = batches + 1
     /\ UNCHANGED <<clock, active, stamp, gen, history, backs, evictions, resets>>
  BY DEF Query
<1>2. ASSUME NEW col \in EntityColumns, NEW id \in Ids
      PROVE  /\ seen[col][id] \in Nat /\ seen'[col][id] \in 0 .. MaxClock
             /\ seen[col][id] <= seen'[col][id]
             /\ seen[col][id] = 0 => seen'[col][id] = 0
             /\ seen'[col][id] <= clock \/ seen'[col][id] = seen[col][id]
  <2>1. seen[col][id] \in 0 .. MaxClock
    BY DEF StoreInv, TypeOK
  <2>2. /\ seen[col][id] \in Nat /\ clock \in Nat \ {0}
        /\ Max({seen[col][id], clock}) = IF seen[col][id] > clock THEN seen[col][id] ELSE clock
        /\ Max({seen[col][id], clock}) \in 0 .. MaxClock
    BY SeenLater DEF StoreInv
  <2>. QED
    BY <1>1, <2>1, <2>2
<1>3. ASSUME NEW c \in Channels, NEW id \in Ids
      PROVE  /\ counters'[c][id] \in FiniteCounter
             /\ counters'[c][id].initialized = counters[c][id].initialized
             /\ ~counters[c][id].initialized => counters'[c][id] = counters[c][id]
  <2>1. counters[c][id] \in FiniteCounter /\ clock \in Int /\ counters[c][id].initialized \in BOOLEAN
    <3>1. counters[c][id] \in FiniteCounter
      BY CounterTyped DEF StoreInv
    <3>2. counters[c][id].initialized \in BOOLEAN
      BY <3>1 DEF FiniteCounter, Counter
    <3>3. clock \in Int
      BY WindowAssumption DEF StoreInv, TypeOK
    <3>. QED
      BY <3>1, <3>2, <3>3
  <2>2. Advance(counters[c][id], clock, c) \in FiniteCounter /\ Advance(counters[c][id], clock, c).initialized
    BY <2>1, AdvanceType
  <2>3. Advance(counters[c][id], clock, c).initialized \in BOOLEAN
    BY <2>2 DEF FiniteCounter, Counter
  <2>. QED
    BY <1>1, <2>1, <2>2, <2>3
<1>4. TypeOK'
  <2>1. counters' \in [Channels -> [Ids -> Counter]]
    <3>1. \A c \in Channels : \A id \in Ids :
            (IF id \in IdsOf(rows', c.entity) /\ counters[c][id].initialized
             THEN Advance(counters[c][id], clock, c)
             ELSE counters[c][id]) \in Counter
      BY <1>1, <1>3 DEF FiniteCounter
    <3>. QED
      BY <3>1 DEF Query
  <2>2. seen' \in [EntityColumns -> [Ids -> 0 .. MaxClock]]
    <3>1. \A col \in EntityColumns : \A id \in Ids :
            (IF id \in IdsOf(rows', col) /\ seen[col][id] # 0
             THEN Max({seen[col][id], clock})
             ELSE seen[col][id]) \in 0 .. MaxClock
      BY <1>1, <1>2
    <3>. QED
      BY <3>1 DEF Query
  <2>3. now' \in 0 .. MaxClock /\ batches' \in 0 .. MaxBatches
    BY WindowAssumption DEF StoreInv, TypeOK
  <2>. QED
    BY <2>1, <2>2, <2>3 DEF StoreInv, TypeOK
<1>5. SlotsOK'
  <2>1. ASSUME NEW c \in Channels
        PROVE  active'[c] = Cardinality({id \in Ids : counters'[c][id].initialized})
    <3>1. {id \in Ids : counters'[c][id].initialized} = {id \in Ids : counters[c][id].initialized}
      BY <1>3
    <3>2. active[c] = Cardinality({id \in Ids : counters[c][id].initialized})
      BY DEF StoreInv, SlotsOK
    <3>. QED
      BY <3>1, <3>2
  <2>2. ASSUME NEW c \in Channels, NEW id \in Ids
        PROVE  /\ IsFiniteSet(counters'[c][id].inline) /\ IsFiniteSet(counters'[c][id].extra)
               /\ IF counters'[c][id].initialized
                  THEN seen'[c.entity][id] > 0
                  ELSE counters'[c][id] = Absent
    <3>1. IF counters[c][id].initialized THEN seen[c.entity][id] > 0 ELSE counters[c][id] = Absent
      BY DEF StoreInv, SlotsOK
    <3>2. c.entity \in EntityColumns
      BY DEF EntityColumns
    <3>3. /\ seen[c.entity][id] \in Nat /\ seen[c.entity][id] <= seen'[c.entity][id]
          /\ seen'[c.entity][id] \in Int
      <4>1. /\ seen[c.entity][id] \in Nat /\ seen[c.entity][id] <= seen'[c.entity][id]
            /\ seen'[c.entity][id] \in 0 .. MaxClock
        BY <1>2, <3>2
      <4>2. MaxClock \in Nat
        BY WindowAssumption
      <4>. QED
        BY <4>1, <4>2
    <3>4. IF counters'[c][id].initialized THEN seen'[c.entity][id] > 0 ELSE counters'[c][id] = Absent
      BY <1>3, <3>1, <3>3
    <3>5. IsFiniteSet(counters'[c][id].inline) /\ IsFiniteSet(counters'[c][id].extra)
      BY <1>3 DEF FiniteCounter
    <3>. QED
      BY <3>4, <3>5
  <2>. QED
    BY <2>1, <2>2 DEF SlotsOK
<1>6. StampsOK'
  BY DEF StoreInv, StampsOK
<1>7. SeenOK'
  <2>1. ASSUME backs = 0, NEW col \in EntityColumns, NEW id \in Ids
        PROVE  seen'[col][id] <= clock
    BY <1>2, <2>1 DEF StoreInv, SeenOK
  <2>. QED
    BY <2>1 DEF StoreInv, SeenOK
<1>8. HistoryOK'
  <2>1. ASSUME NEW h \in history
        PROVE  RowOK(h)'
    <3>1. RowOK(h)
      BY DEF StoreInv, HistoryOK
    <3>2. h.batch \in 0 .. batches' /\ h.batch < batches'
      <4>1. batches \in Nat /\ h.batch \in 0 .. batches
        BY <3>1, WindowAssumption DEF StoreInv, TypeOK, RowOK
      <4>. QED
        BY <4>1
    <3>3. ASSUME NEW col \in EntityColumns, NEW id \in Ids, h.row[col] = id
          PROVE  /\ h.second <= h.seen[col][id] /\ h.seen[col][id] <= seen'[col][id]
                 /\ backs' = 0 => h.seen[col][id] = h.second
      <4>1. /\ h.second <= h.seen[col][id] /\ h.seen[col][id] <= seen[col][id]
            /\ backs = 0 => h.seen[col][id] = h.second
            /\ h.seen[col][id] \in Nat
        BY <3>1, <3>3 DEF RowOK
      <4>2. /\ seen[col][id] \in Nat /\ seen[col][id] <= seen'[col][id]
            /\ seen'[col][id] \in 0 .. MaxClock
        BY <1>2
      <4>3. MaxClock \in Nat
        BY WindowAssumption
      <4>4. h.second \in Nat
        BY <3>1 DEF RowOK
      <4>. QED
        BY <4>1, <4>2, <4>3, <4>4
    <3>. QED
      BY <3>1, <3>2, <3>3 DEF RowOK
  <2>. QED
    BY <2>1 DEF StoreInv, HistoryOK
<1>9. ASSUME backs' = 0 \/ evictions' = 0, NEW c \in Channels, NEW id \in Ids
      PROVE  CounterOK(c, id)'
  <2>1. CounterOK(c, id) /\ c.entity \in EntityColumns
    BY <1>9 DEF StoreInv, CountersOK, EntityColumns
  <2>. DEFINE v == seen[c.entity][id]
              ec == counters[c][id]
  <2>2. v \in Nat /\ clock \in Nat \ {0} /\ ec \in FiniteCounter
    BY <2>1, SeenLater, CounterTyped DEF StoreInv
  <2>3. LiveAt(c, id)' = LiveAfter(c, id, seen'[c.entity][id])
    BY DEF LiveAt, LiveAfter
  <2>4. CASE ~ec.initialized
    <3>1. ~counters'[c][id].initialized
      BY <1>3, <2>4
    <3>2. seen'[c.entity][id] = 0 \/ evictions # 0
      BY <1>2, <2>1, <2>4 DEF CounterOK
    <3>3. backs' = 0 => \A h \in history' : h.row[c.entity] = id => h.second <= clock' - c.duration
      BY <2>1, <2>4 DEF CounterOK
    <3>. QED
      BY <3>1, <3>2, <3>3 DEF CounterOK
  <2>5. CASE ec.initialized
    <3>1. ec.head = v /\ Holds(ec, c, LiveAfter(c, id, v)) /\ v > 0
      BY <2>1, <2>5 DEF CounterOK, LiveAt, LiveAfter, StoreInv, SlotsOK
    <3>2. counters'[c][id].initialized
      BY <1>3, <2>5
    <3>3. CASE id \notin IdsOf(rows', c.entity)
      <4>1. counters'[c][id] = ec /\ seen'[c.entity][id] = v
        BY <1>1, <2>1, <3>3
      <4>. QED
        BY <2>3, <3>1, <3>2, <4>1 DEF CounterOK
    <3>4. CASE id \in IdsOf(rows', c.entity)
      <4>1. PICK w : w = IF v > clock THEN v ELSE clock
        OBVIOUS
      <4>2. counters'[c][id] = Advance(ec, clock, c)
        BY <1>1, <2>5, <3>4
      <4>3. seen'[c.entity][id] = w
        <5>1. Max({v, clock}) = w
          BY <2>1, <4>1, SeenLater DEF StoreInv
        <5>2. seen[c.entity][id] # 0
          BY <2>2, <3>1
        <5>3. seen'[c.entity][id] = Max({v, clock})
          BY <1>1, <2>1, <3>4, <5>2
        <5>. QED
          BY <5>1, <5>3
      <4>4. HistoryOK
        BY DEF StoreInv
      <4>. HIDE DEF ec, v
      <4>5. Advance(ec, clock, c).head = w /\ Holds(Advance(ec, clock, c), c, LiveAfter(c, id, w))
        BY <2>2, <2>5, <3>1, <4>1, <4>4, AdvanceLive DEF v
      <4>. QED
        BY <2>3, <3>2, <4>2, <4>3, <4>5 DEF CounterOK
    <3>. QED
      BY <3>3, <3>4
  <2>. QED
    BY <2>4, <2>5
<1>10. CountersOK'
  BY <1>9 DEF CountersOK
<1>. QED
  BY <1>4, <1>5, <1>6, <1>7, <1>8, <1>10 DEF StoreInv

\* What update_all_channels leaves in the store.
LEMMA UpdateStore ==
    ASSUME StoreInv, Update
    PROVE  /\ gen' \in 0 .. StampLimit - 1 /\ stamp' \in [Ids -> 0 .. StampLimit - 1] /\ StampsOK'
           /\ counters' \in [Channels -> [Ids -> FiniteCounter]] /\ active' \in [Channels -> Int]
           /\ \A c \in Channels : \A id \in Ids :
                IF id \in IdsOf(rows, c.entity)
                THEN \E a \in Channels : /\ SameGroup(a, c)
                                         /\ counters'[c][id] = WrittenBy(a, c, id, counters[c][id])
                ELSE counters'[c][id] = counters[c][id]
           /\ \A c \in Channels : active'[c] = active[c] + Cardinality(
                {id \in Ids : id \in IdsOf(rows, c.entity) /\ ~counters[c][id].initialized})
<1>. DEFINE before == [gen |-> gen, stamp |-> stamp, counters |-> counters, active |-> active]
            after == FoldSet(UpdateGroup, before, Groups)
<1>1. gen' = after.gen /\ stamp' = after.stamp /\ counters' = after.counters /\ active' = after.active
  BY DEF Update
<1>2. before \in Scratch
  <2>1. gen \in 0 .. StampLimit - 1 /\ stamp \in [Ids -> 0 .. StampLimit - 1]
    BY DEF StoreInv, TypeOK
  <2>2. counters \in [Channels -> [Ids -> FiniteCounter]]
    <3>1. \A c \in Channels : \A id \in Ids : counters[c][id] \in FiniteCounter
      BY CounterTyped DEF StoreInv
    <3>2. counters \in [Channels -> [Ids -> Counter]]
      BY DEF StoreInv, TypeOK
    <3>. HIDE DEF FiniteCounter
    <3>. QED
      BY <3>1, <3>2
  <2>3. active \in [Channels -> Int]
    BY WindowAssumption DEF StoreInv, TypeOK
  <2>4. \A id \in Ids : stamp[id] <= gen
    BY DEF StoreInv, StampsOK
  <2>. QED
    BY <2>1, <2>2, <2>3, <2>4 DEF Scratch
<1>3. rows \in Batches /\ now \in Int
  BY WindowAssumption DEF StoreInv, SeenOK, TypeOK, Update
<1>4. before.counters = counters /\ before.active = active
  OBVIOUS
<1>. HIDE DEF before
<1>5. Updated(Channels, before, after)
  BY <1>2, <1>3, UpdateIs
<1>. HIDE DEF after
<1>6. after \in Scratch
  BY <1>5 DEF Updated
<1>7. \A c \in Channels : Fresh(Channels, before, c)
                            = {id \in Ids : id \in IdsOf(rows, c.entity) /\ ~counters[c][id].initialized}
  BY <1>4 DEF Fresh
<1>8. gen' \in 0 .. StampLimit - 1 /\ stamp' \in [Ids -> 0 .. StampLimit - 1] /\ StampsOK'
  BY <1>1, <1>6 DEF Scratch, StampsOK
<1>9. counters' \in [Channels -> [Ids -> FiniteCounter]] /\ active' \in [Channels -> Int]
  BY <1>1, <1>6 DEF Scratch
<1>10. ASSUME NEW c \in Channels, NEW id \in Ids
       PROVE  IF id \in IdsOf(rows, c.entity)
              THEN \E a \in Channels : /\ SameGroup(a, c)
                                       /\ counters'[c][id] = WrittenBy(a, c, id, counters[c][id])
              ELSE counters'[c][id] = counters[c][id]
  BY <1>1, <1>4, <1>5 DEF Updated
<1>11. ASSUME NEW c \in Channels
       PROVE  active'[c] = active[c] + Cardinality(
                {id \in Ids : id \in IdsOf(rows, c.entity) /\ ~counters[c][id].initialized})
  BY <1>1, <1>4, <1>5, <1>7 DEF Updated
<1>. QED
  BY <1>8, <1>9, <1>10, <1>11

\* The slots that are counted are those that are taken.
LEMMA UpdateSlots ==
    ASSUME StoreInv, Update
    PROVE  \A c \in Channels :
              /\ active'[c] = Cardinality({id \in Ids : counters'[c][id].initialized})
              /\ active'[c] \in 0 .. NIds
              /\ \A id \in IdsOf(rows, c.entity) : counters'[c][id].initialized
<1>. SUFFICES ASSUME NEW c \in Channels
              PROVE  /\ active'[c] = Cardinality({id \in Ids : counters'[c][id].initialized})
                     /\ active'[c] \in 0 .. NIds
                     /\ \A id \in IdsOf(rows, c.entity) : counters'[c][id].initialized
  OBVIOUS
<1>. DEFINE Old == {id \in Ids : counters[c][id].initialized}
            New == {id \in Ids : id \in IdsOf(rows, c.entity) /\ ~counters[c][id].initialized}
            All == {id \in Ids : counters'[c][id].initialized}
<1>1. rows \in Batches /\ now \in Int
  BY WindowAssumption DEF StoreInv, SeenOK, TypeOK, Update
<1>2. ASSUME NEW id \in Ids
      PROVE  IF id \in IdsOf(rows, c.entity)
             THEN counters'[c][id].initialized
             ELSE counters'[c][id] = counters[c][id]
  <2>1. CASE id \in IdsOf(rows, c.entity)
    <3>1. PICK a \in Channels : /\ SameGroup(a, c)
                                /\ counters'[c][id] = WrittenBy(a, c, id, counters[c][id])
      BY <2>1, UpdateStore
    <3>2. counters[c][id] \in FiniteCounter
      BY CounterTyped DEF StoreInv
    <3>3. WrittenBy(a, c, id, counters[c][id]).initialized
      BY <1>1, <2>1, <3>1, <3>2, WrittenType
    <3>. QED
      BY <2>1, <3>1, <3>3
  <2>2. CASE id \notin IdsOf(rows, c.entity)
    BY <2>2, UpdateStore
  <2>. QED
    BY <2>1, <2>2
<1>3. IdsOf(rows, c.entity) \in SUBSET Ids
  BY DEF IdsOf
<1>4. All = Old \cup New /\ Old \cap New = {}
  BY <1>2
<1>5. Old \in SUBSET Ids /\ New \in SUBSET Ids /\ All \in SUBSET Ids
  OBVIOUS
<1>6. active'[c] = active[c] + Cardinality(New) /\ active[c] = Cardinality(Old)
  BY UpdateStore DEF StoreInv, SlotsOK
<1>. HIDE DEF Old, New, All
<1>7. IsFiniteSet(Old) /\ IsFiniteSet(New) /\ IsFiniteSet(All)
  BY <1>5, IdsFinite, FS_Subset
<1>8. Cardinality(All) = Cardinality(Old) + Cardinality(New) - Cardinality(Old \cap New)
  BY <1>4, <1>7, FS_Union
<1>9. Cardinality(Old) \in Nat /\ Cardinality(New) \in Nat /\ Cardinality(All) \in Nat
  BY <1>7, FS_CardinalityType
<1>10. Cardinality(Old \cap New) = 0
  BY <1>4, FS_EmptySet
<1>11. Cardinality(All) <= NIds
  BY <1>5, IdsFinite, FS_Subset
<1>12. active'[c] = Cardinality(All)
  BY <1>6, <1>8, <1>9, <1>10
<1>. QED
  BY <1>2, <1>3, <1>9, <1>11, <1>12, WindowAssumption DEF All

\* The entry of a row of the batch.
EntryOf(i) == [batch |-> batches, index |-> i, row |-> rows[i], second |-> now, seen |-> seen']

\* An entity of the batch is accessed at the second of the batch.
LEMMA UpdateSeen ==
    ASSUME StoreInv, Update
    PROVE  /\ now \in Nat \ {0} /\ now = clock /\ rows \in Batches /\ IsFiniteSet(DOMAIN rows)
           /\ \A i \in DOMAIN rows : EntryOf(i) \in history'
           /\ \A h \in history' : h \in history \/ \E i \in DOMAIN rows : h = EntryOf(i)
           /\ history \subseteq history' /\ IsFiniteSet(history')
           /\ seen' \in [EntityColumns -> [Ids -> 0 .. MaxClock]]
           /\ seen' \in [EntityColumns -> [Ids -> Nat]]
           /\ \A col \in EntityColumns : \A id \in Ids :
                seen'[col][id] = IF id \in IdsOf(rows, col) /\ ~(seen[col][id] > now)
                                 THEN now ELSE seen[col][id]
<1>1. now = clock /\ rows \in Batches
  BY DEF StoreInv, SeenOK, Update
<1>2. clock \in 1 .. MaxClock /\ MaxClock \in Nat
  BY WindowAssumption DEF StoreInv, TypeOK
<1>3. IsFiniteSet(DOMAIN rows)
  BY <1>1, WindowAssumption
<1>4. history' = history \cup {EntryOf(i) : i \in DOMAIN rows}
  BY DEF Update, EntryOf
<1>5. IsFiniteSet(history')
  <2>1. IsFiniteSet({EntryOf(i) : i \in DOMAIN rows})
    <3>. DEFINE E == [i \in DOMAIN rows |-> EntryOf(i)]
    <3>1. {EntryOf(i) : i \in DOMAIN rows} = {E[i] : i \in DOMAIN rows}
      OBVIOUS
    <3>. HIDE DEF E
    <3>. QED
      BY <1>3, <3>1, ImageFinite
  <2>2. IsFiniteSet(history)
    BY DEF StoreInv, HistoryOK
  <2>. QED
    BY <1>4, <2>1, <2>2, FS_Union
<1>6. ASSUME NEW col \in EntityColumns, NEW id \in Ids
      PROVE  /\ seen[col][id] \in 0 .. MaxClock
             /\ Max({seen[col][id], now}) = IF seen[col][id] > now THEN seen[col][id] ELSE now
  BY <1>1, SeenLater, <1>2 DEF StoreInv, TypeOK
<1>7. seen' = [col \in EntityColumns |-> [id \in Ids |->
                 IF id \in IdsOf(rows, col) THEN Max({seen[col][id], now}) ELSE seen[col][id]]]
  BY DEF Update
<1>8. ASSUME NEW col \in EntityColumns, NEW id \in Ids
      PROVE  seen'[col][id] = IF id \in IdsOf(rows, col) /\ ~(seen[col][id] > now)
                              THEN now ELSE seen[col][id]
  BY <1>6, <1>7
<1>9. ASSUME NEW col \in EntityColumns, NEW id \in Ids
      PROVE  seen'[col][id] \in 0 .. MaxClock /\ seen'[col][id] \in Nat
  <2>1. seen'[col][id] = now \/ seen'[col][id] = seen[col][id]
    BY <1>8
  <2>2. seen[col][id] \in 0 .. MaxClock
    BY <1>6
  <2>. QED
    BY <1>1, <1>2, <2>1, <2>2
<1>10. /\ seen' \in [EntityColumns -> [Ids -> 0 .. MaxClock]]
       /\ seen' \in [EntityColumns -> [Ids -> Nat]]
  <2>. DEFINE val(col, id) == IF id \in IdsOf(rows, col)
                              THEN Max({seen[col][id], now}) ELSE seen[col][id]
  <2>1. seen' = [col \in EntityColumns |-> [id \in Ids |-> val(col, id)]]
    BY <1>7
  <2>2. \A col \in EntityColumns : \A id \in Ids : seen'[col][id] = val(col, id)
    <3>. HIDE DEF val
    <3>. QED
      BY <2>1
  <2>. HIDE DEF val
  <2>3. \A col \in EntityColumns : \A id \in Ids : val(col, id) \in 0 .. MaxClock /\ val(col, id) \in Nat
    BY <1>9, <2>2
  <2>. QED
    BY <2>1, <2>3
<1>11. /\ \A i \in DOMAIN rows : EntryOf(i) \in history'
       /\ \A h \in history' : h \in history \/ \E i \in DOMAIN rows : h = EntryOf(i)
       /\ history \subseteq history'
  BY <1>4
<1>12. now \in Nat \ {0}
  BY <1>1, <1>2
<1>. QED
  BY Zenon, <1>1, <1>3, <1>5, <1>8, <1>10, <1>11, <1>12

\* The rows of the batch are written with the access of their entity.
LEMMA UpdateHistory == ASSUME StoreInv, Update PROVE HistoryOK'
<1>1. SUFFICES ASSUME NEW h \in history' PROVE RowOK(h)'
  BY UpdateSeen DEF HistoryOK
<1>2. batches \in Nat /\ batches' = batches /\ phase' = "idle" /\ backs' = backs
  BY WindowAssumption DEF StoreInv, TypeOK, Update
<1>3. \A col \in EntityColumns : \A id \in Ids : seen[col][id] \in Nat /\ seen'[col][id] \in Nat
  <2>1. \A col \in EntityColumns : \A id \in Ids : seen[col][id] \in Nat
    BY WindowAssumption DEF StoreInv, TypeOK
  <2>2. seen' \in [EntityColumns -> [Ids -> Nat]]
    BY UpdateSeen
  <2>. QED
    BY <2>1, <2>2
<1>4. \A col \in EntityColumns : \A id \in Ids :
        seen'[col][id] = IF id \in IdsOf(rows, col) /\ ~(seen[col][id] > now)
                         THEN now ELSE seen[col][id]
  BY UpdateSeen
<1>5. now \in Nat \ {0} /\ now = clock
  BY UpdateSeen
<1>6. CASE h \in history
  <2>1. RowOK(h)
    BY <1>6 DEF StoreInv, HistoryOK
  <2>2. /\ \E batch \in Batches : \E i \in DOMAIN batch : h.row = batch[i]
        /\ h.second \in Nat \ {0} /\ h.batch \in 0 .. batches'
        /\ h.seen \in [EntityColumns -> [Ids -> Nat]]
    BY <1>2, <2>1 DEF RowOK
  <2>3. ASSUME NEW col \in EntityColumns, NEW id \in Ids, h.row[col] = id
        PROVE  /\ h.second <= h.seen[col][id] /\ h.seen[col][id] <= seen'[col][id]
               /\ backs' = 0 => h.seen[col][id] = h.second
    <3>1. /\ h.second <= h.seen[col][id] /\ h.seen[col][id] <= seen[col][id]
          /\ backs = 0 => h.seen[col][id] = h.second
      BY <2>1, <2>3 DEF RowOK
    <3>2. h.seen[col][id] \in Nat
      BY <2>2
    <3>3. seen[col][id] \in Nat /\ seen'[col][id] \in Nat
      BY <1>3
    <3>4. (seen'[col][id] = now /\ ~(seen[col][id] > now)) \/ seen'[col][id] = seen[col][id]
      BY <1>4
    <3>5. seen[col][id] <= seen'[col][id]
      BY <1>5, <3>3, <3>4
    <3>6. h.seen[col][id] <= seen'[col][id]
      BY <3>1, <3>2, <3>3, <3>5
    <3>. QED
      BY <1>2, <3>1, <3>6
  <2>. QED
    BY <1>2, <2>2, <2>3 DEF RowOK
<1>7. CASE h \notin history
  <2>1. PICK i \in DOMAIN rows : h = EntryOf(i)
    BY <1>7, UpdateSeen
  <2>2. h.row = rows[i] /\ h.second = now /\ h.batch = batches /\ h.seen = seen'
    BY <2>1 DEF EntryOf
  <2>3. rows \in Batches /\ h.seen \in [EntityColumns -> [Ids -> Nat]]
    BY <2>2, UpdateSeen
  <2>4. ASSUME NEW col \in EntityColumns, NEW id \in Ids, h.row[col] = id
        PROVE  /\ h.second <= h.seen[col][id] /\ h.seen[col][id] <= seen'[col][id]
               /\ backs' = 0 => h.seen[col][id] = h.second
    <3>1. id \in IdsOf(rows, col)
      BY <2>2, <2>4 DEF IdsOf
    <3>2. seen'[col][id] = IF seen[col][id] > now THEN seen[col][id] ELSE now
      BY <1>4, <3>1
    <3>3. backs = 0 => seen[col][id] <= clock
      BY DEF StoreInv, SeenOK
    <3>4. seen[col][id] \in Nat /\ seen'[col][id] \in Nat
      BY <1>3
    <3>5. now <= seen'[col][id] /\ (backs = 0 => seen'[col][id] = now)
      BY <1>5, <3>2, <3>3, <3>4
    <3>. QED
      BY <1>2, <2>2, <3>4, <3>5
  <2>5. h.batch \in 0 .. batches' /\ h.second \in Nat \ {0}
    BY <1>2, <1>5, <2>2
  <2>6. \E batch \in Batches : \E j \in DOMAIN batch : h.row = batch[j]
    BY <2>2, <2>3
  <2>. QED
    BY <1>2, <2>3, <2>4, <2>5, <2>6 DEF RowOK
<1>. QED
  BY <1>6, <1>7

\* An entity of the batch: its counter holds the rows it held, advanced to the
\* second of the batch, and the rows of the batch.
LEMMA UpdateHolds ==
    ASSUME StoreInv, Update, backs = 0 \/ evictions = 0,
           NEW c \in Channels, NEW id \in IdsOf(rows, c.entity)
    PROVE  /\ counters'[c][id].head = seen'[c.entity][id]
           /\ Holds(counters'[c][id], c, LiveAt(c, id)')
<1>1. /\ id \in Ids /\ HistoryOK /\ c.entity \in EntityColumns
      /\ counters[c][id] \in FiniteCounter /\ seen[c.entity][id] \in Nat
  BY CounterTyped DEF StoreInv, IdsOf
<1>2. /\ now \in Nat \ {0} /\ now \in Int /\ now = clock /\ rows \in Batches
  BY UpdateSeen
<1>3. PICK ec : ec = counters[c][id]
  OBVIOUS
<1>4. PICK v : v = seen[c.entity][id]
  OBVIOUS
<1>5. PICK w : w = IF v > now THEN v ELSE now
  OBVIOUS
<1>6. seen'[c.entity][id] = w
  <2>1. seen'[c.entity][id] = IF ~(seen[c.entity][id] > now) THEN now ELSE seen[c.entity][id]
    BY <1>1, UpdateSeen
  <2>. QED
    BY <1>4, <1>5, <2>1
<1>7. PICK a \in Channels : /\ SameGroup(a, c)
                            /\ counters'[c][id] = WrittenBy(a, c, id, ec)
  BY <1>1, <1>3, UpdateStore
<1>8. PICK moved : moved = Advance(ec, now, c)
  OBVIOUS
<1>9. PICK b : b = BucketOf(a, rows, id, now)
  OBVIOUS
<1>10. counters'[c][id] = Adds(moved, b, c.fn)
  BY <1>7, <1>8, <1>9 DEF WrittenBy
<1>11. CounterOK(c, id)
  BY <1>1 DEF StoreInv, CountersOK
<1>12. moved.head = w /\ Holds(moved, c, LiveAfter(c, id, w))
  <2>1. ec.initialized => ec.head = v /\ Holds(ec, c, LiveAfter(c, id, v))
    BY <1>3, <1>4, <1>11 DEF CounterOK, LiveAt, LiveAfter
  <2>2. ~ec.initialized =>
           \/ v = 0
           \/ /\ backs = 0 /\ v <= now
              /\ \A h \in history : h.row[c.entity] = id => h.second <= now - c.duration
    <3>1. backs = 0 => v <= now
      BY <1>1, <1>2, <1>4 DEF StoreInv, SeenOK
    <3>. QED
      BY <1>2, <1>3, <1>4, <1>11, <3>1 DEF CounterOK
  <2>. QED
    BY <1>1, <1>2, <1>3, <1>4, <1>5, <1>8, <2>1, <2>2, AdvanceLive
<1>13. moved \in FiniteCounter
  BY <1>1, <1>2, <1>3, <1>8, AdvanceType
<1>. DEFINE R == RowsOf(rows, a.entity, id)
            E == [i \in DOMAIN rows |-> EntryOf(i)]
            N == {E[i] : i \in R}
            L == LiveAfter(c, id, w)
<1>14. a.entity = c.entity
  BY <1>7, GroupMates
<1>15. R # {} /\ R \subseteq DOMAIN rows
  BY <1>14 DEF IdsOf, RowsOf
<1>16. \A i \in R : E[i] = EntryOf(i) /\ E[i].row[c.entity] = id
  BY <1>14 DEF RowsOf, EntryOf
<1>17. \A i \in R : EntryOf(i).index = i /\ EntryOf(i).row = rows[i] /\ EntryOf(i).second = now
                   /\ EntryOf(i).batch = batches /\ EntryOf(i).seen = seen'
  BY DEF EntryOf
<1>. HIDE DEF E, R
<1>18. \A h \in N : h.second = now /\ h.batch = batches /\ h.seen = seen' /\ h.row[c.entity] = id
  BY <1>16, <1>17
<1>19. Entries(N, E, R, rows)
  <2>1. \A i, j \in R : E[i] = E[j] => i = j
    BY <1>16, <1>17
  <2>2. \A i \in R : E[i].row = rows[i]
    BY <1>16, <1>17
  <2>. QED
    BY <2>1, <2>2 DEF Entries
<1>20. L \in SUBSET history
  BY DEF LiveAfter
<1>21. L \cap N = {}
  <2>1. \A h \in history : h.batch # batches
    <3>1. \A h \in history : h.batch \in 0 .. batches /\ h.batch < batches
      BY DEF StoreInv, HistoryOK, RowOK, Update
    <3>2. batches \in Nat
      BY WindowAssumption DEF StoreInv, TypeOK
    <3>. QED
      BY <3>1, <3>2
  <2>. QED
    BY <1>18, <1>20, <2>1
<1>22. LiveAt(c, id)' = L \cup N
  <2>1. LiveAt(c, id)' = {h \in history' : /\ h.row[c.entity] = id
                                           /\ h.second > w - c.duration \/ h.seen[c.entity][id] = w}
    BY <1>6 DEF LiveAt
  <2>2. ASSUME NEW h \in N
        PROVE  /\ h \in history' /\ h.row[c.entity] = id /\ h.seen[c.entity][id] = w
    <3>1. PICK i \in R : h = EntryOf(i)
      BY <1>16
    <3>2. h \in history'
      BY <1>15, <3>1, UpdateSeen
    <3>. QED
      BY <1>6, <1>18, <3>2
  <2>3. ASSUME NEW h \in history', h \notin history, h.row[c.entity] = id
        PROVE  h \in N
    <3>1. PICK i \in DOMAIN rows : h = EntryOf(i)
      BY <2>3, UpdateSeen
    <3>2. rows[i][c.entity] = id
      BY <2>3, <3>1 DEF EntryOf
    <3>3. i \in R
      BY <1>14, <3>2 DEF R, RowsOf
    <3>. QED
      BY <1>16, <3>1, <3>3
  <2>4. history \subseteq history'
    BY UpdateSeen
  <2>. HIDE DEF N
  <2>. QED
    BY <2>1, <2>2, <2>3, <2>4 DEF LiveAfter
<1>. HIDE DEF R, E, N, L
<1>23. Typed(N) /\ N # {} /\ b \in Bucket /\ b.second = now /\ Amounts(b, N, c)
  BY <1>2, <1>7, <1>9, <1>15, <1>19, BucketAmounts DEF R
<1>24. Typed(L)
  BY <1>1, <1>20, LiveTyped
<1>25. \A h \in N : h.second = b.second
  BY <1>18, <1>23
<1>26. Holds(Adds(moved, b, c.fn), c, L \cup N)
  BY <1>12, <1>13, <1>21, <1>23, <1>24, <1>25, AddsHolds DEF L
<1>27. Adds(moved, b, c.fn).head = moved.head
  BY <1>13, <1>23, AddsIs
<1>. QED
  BY <1>6, <1>10, <1>12, <1>22, <1>26, <1>27

\* A batch is written.
LEMMA UpdateInv == ASSUME StoreInv, Update PROVE StoreInv'
<1>1. /\ phase' = "idle" /\ rows' = <<>>
      /\ UNCHANGED <<clock, now, batches, backs, evictions, resets>>
  BY DEF Update
<1>2. /\ now \in Nat \ {0} /\ now = clock
      /\ \A col \in EntityColumns : \A id \in Ids :
           seen'[col][id] = IF id \in IdsOf(rows, col) /\ ~(seen[col][id] > now)
                            THEN now ELSE seen[col][id]
  BY UpdateSeen
<1>3. ASSUME NEW c \in Channels
      PROVE  IdsOf(rows, c.entity) \subseteq Ids /\ c.entity \in EntityColumns
  BY DEF IdsOf, EntityColumns
<1>4. ASSUME NEW c \in Channels, NEW id \in Ids, id \notin IdsOf(rows, c.entity)
      PROVE  counters'[c][id] = counters[c][id] /\ seen'[c.entity][id] = seen[c.entity][id]
  BY <1>2, <1>3, <1>4, UpdateStore
<1>5. TypeOK'
  <2>1. counters' \in [Channels -> [Ids -> Counter]]
    <3>1. counters' \in [Channels -> [Ids -> FiniteCounter]]
      BY UpdateStore
    <3>2. FiniteCounter \subseteq Counter
      BY DEF FiniteCounter
    <3>. QED
      BY <3>1, <3>2
  <2>2. active' \in [Channels -> 0 .. NIds]
    <3>1. active' \in [Channels -> Int]
      BY UpdateStore
    <3>2. \A c \in Channels : active'[c] \in 0 .. NIds
      BY UpdateSlots
    <3>. QED
      BY <3>1, <3>2
  <2>3. stamp' \in [Ids -> 0 .. StampLimit - 1] /\ gen' \in 0 .. StampLimit - 1
    BY UpdateStore
  <2>4. seen' \in [EntityColumns -> [Ids -> 0 .. MaxClock]]
    BY UpdateSeen
  <2>. QED
    BY <1>1, <2>1, <2>2, <2>3, <2>4 DEF StoreInv, TypeOK
<1>6. SlotsOK'
  <2>1. ASSUME NEW c \in Channels, NEW id \in Ids
        PROVE  /\ IsFiniteSet(counters'[c][id].inline) /\ IsFiniteSet(counters'[c][id].extra)
               /\ IF counters'[c][id].initialized
                  THEN seen'[c.entity][id] > 0
                  ELSE counters'[c][id] = Absent
    <3>1. counters'[c][id] \in FiniteCounter
      BY UpdateStore
    <3>2. IsFiniteSet(counters'[c][id].inline) /\ IsFiniteSet(counters'[c][id].extra)
      BY <3>1 DEF FiniteCounter
    <3>3. CASE id \in IdsOf(rows, c.entity)
      <4>1. counters'[c][id].initialized
        BY <3>3, UpdateSlots
      <4>2. seen[c.entity][id] \in Nat
        BY CounterTyped DEF StoreInv
      <4>3. seen'[c.entity][id] = now \/ seen'[c.entity][id] > now
        BY <1>2, <1>3, <3>3, <4>2
      <4>4. seen'[c.entity][id] \in Nat
        BY <1>3, UpdateSeen
      <4>5. seen'[c.entity][id] > 0
        BY <1>2, <4>3, <4>4
      <4>. QED
        BY <3>2, <4>1, <4>5
    <3>4. CASE id \notin IdsOf(rows, c.entity)
      <4>1. IF counters[c][id].initialized THEN seen[c.entity][id] > 0 ELSE counters[c][id] = Absent
        BY DEF StoreInv, SlotsOK
      <4>. QED
        BY <1>4, <3>2, <3>4, <4>1
    <3>. QED
      BY <3>3, <3>4
  <2>2. \A c \in Channels : active'[c] = Cardinality({id \in Ids : counters'[c][id].initialized})
    BY UpdateSlots
  <2>. QED
    BY <2>1, <2>2 DEF SlotsOK
<1>7. StampsOK'
  BY UpdateStore
<1>8. SeenOK'
  <2>1. ASSUME backs = 0, NEW col \in EntityColumns, NEW id \in Ids
        PROVE  seen'[col][id] <= clock
    <3>1. seen[col][id] <= clock
      BY <2>1 DEF StoreInv, SeenOK
    <3>2. seen'[col][id] = now \/ seen'[col][id] = seen[col][id]
      BY <1>2
    <3>. QED
      BY <1>2, <3>1, <3>2
  <2>. QED
    BY <1>1, <2>1 DEF SeenOK
<1>9. HistoryOK'
  BY UpdateHistory
<1>10. CountersOK'
  <2>1. SUFFICES ASSUME backs = 0 \/ evictions = 0, NEW c \in Channels, NEW id \in Ids
                 PROVE  CounterOK(c, id)'
    BY <1>1 DEF CountersOK
  <2>2. CASE id \in IdsOf(rows, c.entity)
    <3>1. counters'[c][id].initialized
      BY <2>2, UpdateSlots
    <3>2. counters'[c][id].head = seen'[c.entity][id] /\ Holds(counters'[c][id], c, LiveAt(c, id)')
      BY <2>1, <2>2, UpdateHolds
    <3>. QED
      BY <3>1, <3>2 DEF CounterOK
  <2>3. CASE id \notin IdsOf(rows, c.entity)
    <3>1. CounterOK(c, id)
      BY <2>1 DEF StoreInv, CountersOK
    <3>2. \A h \in history' : h.row[c.entity] = id => h \in history
      <4>1. \A i \in DOMAIN rows : EntryOf(i).row[c.entity] # id
        BY <2>3 DEF EntryOf, IdsOf
      <4>. QED
        BY <4>1, UpdateSeen
    <3>3. history \subseteq history'
      BY UpdateSeen
    <3>4. LiveAt(c, id)' = LiveAt(c, id)
      BY <1>4, <2>3, <3>2, <3>3 DEF LiveAt
    <3>5. counters'[c][id] = counters[c][id] /\ seen'[c.entity][id] = seen[c.entity][id]
      BY <1>4, <2>3
    <3>6. CASE counters[c][id].initialized
      BY <3>1, <3>4, <3>5, <3>6 DEF CounterOK
    <3>7. CASE ~counters[c][id].initialized
      BY <1>1, <3>1, <3>2, <3>5, <3>7 DEF CounterOK
    <3>. QED
      BY <3>6, <3>7
  <2>. QED
    BY <2>2, <2>3
<1>. QED
  BY <1>5, <1>6, <1>7, <1>8, <1>9, <1>10 DEF StoreInv

\* All steps together.
LEMMA NextInv == StoreInv /\ [Next]_vars => StoreInv'
<1>. SUFFICES ASSUME StoreInv, [Next]_vars PROVE StoreInv'
  OBVIOUS
<1>1. CASE Tick
  BY <1>1, TickInv
<1>2. CASE Query
  BY <1>2, QueryInv
<1>3. CASE Throw
  BY <1>3, ThrowInv
<1>4. CASE Update
  BY <1>4, UpdateInv
<1>5. CASE Evict
  BY <1>5, EvictInv
<1>6. CASE Reset
  BY <1>6, ResetInv
<1>7. CASE Exhausted \/ UNCHANGED vars
  BY <1>7, StutterInv DEF Exhausted
<1>. QED
  BY <1>1, <1>2, <1>3, <1>4, <1>5, <1>6, <1>7 DEF Next

\* The store holds what its history says, bucket by bucket.
THEOREM StoreInvariant == Spec => []StoreInv
<1>. QED
  BY InitInv, NextInv, PTL DEF Spec

\* The types of the state: no counter of active entities leaves 0 .. NIds, and
\* no bucket or total is anything but a number.
THEOREM WindowTypeCorrect == Spec => []TypeOK
<1>1. StoreInv => TypeOK
  BY DEF StoreInv
<1>. QED
  BY <1>1, StoreInvariant, PTL

\* A counter never drifts from its history: whatever was added, expired bucket
\* by bucket, cleared or coalesced, it reads as the rows it must hold.
THEOREM CountersMatch == Spec => []CountersMatchHistory
<1>1. StoreInv => CountersMatchHistory
  <2>1. ASSUME StoreInv, backs = 0 \/ evictions = 0, NEW c \in Channels, NEW id \in Ids,
               counters[c][id].initialized
        PROVE  Reading(counters[c][id], c.fn) = ReadingOf(c, LiveAt(c, id))
    <3>1. CounterOK(c, id) /\ HistoryOK
      BY <2>1 DEF StoreInv, CountersOK
    <3>2. Holds(counters[c][id], c, LiveAt(c, id))
      BY <2>1, <3>1 DEF CounterOK
    <3>3. LiveAt(c, id) \in SUBSET history
      BY DEF LiveAt
    <3>4. Typed(LiveAt(c, id))
      BY <3>1, <3>3, LiveTyped
    <3>. QED
      BY <3>2, <3>4, HoldsReads
  <2>. QED
    BY <2>1 DEF CountersMatchHistory
<1>. QED
  BY <1>1, StoreInvariant, PTL

\* What a row of a batch reads, when the clock has never been stepped back.
LEMMA QueryReads == ASSUME StoreInv, Query PROVE ReadsTheWindow'
<1>. DEFINE Window(c, id) == {h \in history : h.row[c.entity] = id /\ h.second > clock - c.duration}
<1>1. SUFFICES ASSUME backs = 0, NEW c \in Channels, NEW i \in DOMAIN rows',
                      IsId(rows'[i][c.entity]), NEW id, id = rows'[i][c.entity]
               PROVE  Reading(counters'[c][id], c.fn) = ReadingOf(c, Window(c, id))
  <2>1. /\ history' = history /\ now' = clock /\ backs' = backs
        /\ readings' = [c \in Channels |-> [i \in DOMAIN rows' |->
                          IF IsId(rows'[i][c.entity])
                          THEN Reading(counters'[c][rows'[i][c.entity]], c.fn)
                          ELSE Zero]]
    BY DEF Query
  <2>. QED
    BY <1>1, <2>1 DEF ReadsTheWindow
<1>2. id \in Ids /\ id \in IdsOf(rows', c.entity) /\ c.entity \in EntityColumns
  BY <1>1 DEF IsId, IdsOf, EntityColumns
<1>3. /\ history' = history /\ clock' = clock /\ backs' = backs /\ evictions' = evictions
      /\ counters'[c][id] = IF counters[c][id].initialized
                            THEN Advance(counters[c][id], clock, c)
                            ELSE counters[c][id]
      /\ seen'[c.entity][id] = IF seen[c.entity][id] # 0
                               THEN Max({seen[c.entity][id], clock})
                               ELSE seen[c.entity][id]
  BY <1>2 DEF Query
<1>4. CounterOK(c, id)' /\ HistoryOK
  <2>1. CountersOK'
    BY QueryInv DEF StoreInv
  <2>. QED
    BY <1>1, <1>2, <1>3, <2>1 DEF CountersOK, StoreInv
<1>5. clock \in Nat \ {0} /\ c.duration \in Nat \ {0} /\ seen[c.entity][id] \in Nat
  BY <1>2, SeenLater, WindowAssumption DEF StoreInv
<1>6. CASE counters[c][id].initialized
  <2>1. counters'[c][id].initialized
    <3>1. counters[c][id] \in FiniteCounter
      BY <1>2, CounterTyped DEF StoreInv
    <3>2. Advance(counters[c][id], clock, c).initialized
      BY <1>5, <3>1, AdvanceType
    <3>. QED
      BY <1>3, <1>6, <3>2
  <2>2. seen'[c.entity][id] = clock
    <3>1. seen[c.entity][id] > 0 /\ seen[c.entity][id] <= clock
      <4>1. seen[c.entity][id] > 0
        BY <1>2, <1>6 DEF StoreInv, SlotsOK
      <4>2. seen[c.entity][id] <= clock
        BY <1>1, <1>2 DEF StoreInv, SeenOK
      <4>. QED
        BY <4>1, <4>2
    <3>2. Max({seen[c.entity][id], clock}) = clock
      BY <1>5, <3>1, MaxOfTwo
    <3>. QED
      BY <1>3, <1>5, <3>1, <3>2
  <2>3. LiveAt(c, id)' = Window(c, id)
    <3>1. ASSUME NEW h \in history, h.row[c.entity] = id
          PROVE  h.second > clock - c.duration \/ h.seen[c.entity][id] = clock
                   <=> h.second > clock - c.duration
      <4>1. RowOK(h)
        BY <1>4 DEF HistoryOK
      <4>2. h.seen[c.entity][id] = h.second /\ h.second \in Nat
        <5>1. backs = 0 /\ id \in Ids /\ c.entity \in EntityColumns
          BY <1>1, <1>2
        <5>2. h.row[c.entity] = id => (backs = 0 => h.seen[c.entity][id] = h.second)
          BY <4>1, <5>1 DEF RowOK
        <5>3. h.second \in Nat
          BY <4>1 DEF RowOK
        <5>. QED
          BY <3>1, <5>1, <5>2, <5>3
      <4>. QED
        <5>1. clock > clock - c.duration
          BY <1>5
        <5>. QED
          BY <4>2, <5>1
    <3>2. LiveAt(c, id)' = {h \in history : /\ h.row[c.entity] = id
                                            /\ \/ h.second > clock - c.duration
                                               \/ h.seen[c.entity][id] = clock}
      BY <1>3, <2>2 DEF LiveAt
    <3>. QED
      BY <3>1, <3>2
  <2>4. Holds(counters'[c][id], c, Window(c, id))
    BY <1>4, <2>1, <2>3 DEF CounterOK
  <2>5. Window(c, id) \in SUBSET history
    OBVIOUS
  <2>. HIDE DEF Window
  <2>6. Typed(Window(c, id))
    BY <1>4, <2>5, LiveTyped
  <2>. QED
    BY <2>4, <2>6, HoldsReads
<1>7. CASE ~counters[c][id].initialized
  <2>1. counters'[c][id] = Absent
    BY <1>2, <1>3, <1>7 DEF StoreInv, SlotsOK
  <2>2. Window(c, id) = {}
    <3>1. \A h \in history : h.row[c.entity] = id => h.second <= clock - c.duration
      BY <1>1, <1>3, <1>4, <1>7 DEF CounterOK
    <3>2. \A h \in history : h.second \in Nat
      BY <1>4 DEF HistoryOK, RowOK
    <3>. QED
      BY <1>5, <3>1, <3>2
  <2>3. Absent.count = 0 /\ Absent.total = 0 /\ Absent.inline = {} /\ Absent.extra = {}
    BY DEF Absent
  <2>4. Reading(Absent, c.fn) = Zero
    BY <2>3 DEF Reading, Zero
  <2>5. ReadingOf(c, {}) = Zero
    BY DEF ReadingOf
  <2>. QED
    BY <2>1, <2>2, <2>4, <2>5
<1>. QED
  BY <1>6, <1>7

\* On a clock that never steps back a row reads exactly the rows that earlier
\* batches wrote for its entity in the last duration seconds.
THEOREM RowsReadTheWindow == Spec => []ReadsTheWindow
<1>1. Init => ReadsTheWindow
  BY DEF Init, ReadsTheWindow
<1>2. StoreInv /\ ReadsTheWindow /\ [Next]_vars => ReadsTheWindow'
  <2>. SUFFICES ASSUME StoreInv, ReadsTheWindow, [Next]_vars PROVE ReadsTheWindow'
    OBVIOUS
  <2>1. CASE Query
    BY <2>1, QueryReads
  <2>2. CASE Tick \/ Throw \/ Update \/ Evict \/ Reset
    <3>1. phase' # "read"
      BY <2>2 DEF Tick, Throw, Update, Evict, Reset
    <3>. QED
      BY <3>1 DEF ReadsTheWindow
  <2>3. CASE Exhausted \/ UNCHANGED vars
    BY <2>3 DEF Exhausted, vars, ReadsTheWindow
  <2>. QED
    BY <2>1, <2>2, <2>3 DEF Next
<1>. QED
  BY <1>1, <1>2, StoreInvariant, PTL DEF Spec
=============================================================================
