---------------------------- MODULE FoldTheorems ----------------------------
(***************************************************************************)
(* Facts that the proofs about the modules with sums, folds and recursive  *)
(* functions rest on.  A fold of the community modules is a function that  *)
(* is recursive on the subsets of a set; what it computes is proved by     *)
(* induction over these subsets, for a set of the subsets that are good.   *)
(***************************************************************************)
EXTENDS Integers, Sequences, FiniteSets, FiniteSetsExt, SequencesExt, Sorting,
        FiniteSetTheorems, WellFoundedInduction, TLAPS

-----------------------------------------------------------------------------
(* Induction over the subsets of a finite set, and folds.                  *)

\* A set of numbers has a least one.
LEMMA LeastNumber ==
    ASSUME NEW S \in SUBSET Nat, S # {}
    PROVE  \E n \in S : \A r \in S : n <= r
<1>. DEFINE Less == {e \in Nat \X Nat : e[1] < e[2]}
<1>1. IsWellFoundedOn(Less, Nat)
  BY NatLessThanWellFounded DEF OpToRel
<1>2. PICK n \in S : \A r \in S : <<r, n>> \notin Less
  <2>. HIDE DEF Less
  <2>. QED
    BY <1>1, WFMin
<1>3. ASSUME NEW r \in S, r < n
      PROVE  FALSE
  <2>1. <<r, n>> \in Less
    BY <1>3
  <2>. QED
    BY <1>2, <2>1
<1>. QED
  BY <1>2, <1>3

\* If a subset is good whenever all that have one element less are, all are.
LEMMA SubsetInduction ==
    ASSUME NEW S, IsFiniteSet(S), NEW Good,
           \A T \in SUBSET S : (\A x \in T : T \ {x} \in Good) => T \in Good
    PROVE  \A T \in SUBSET S : T \in Good
<1>. DEFINE Bad == {n \in Nat : \E T \in SUBSET S : T \notin Good /\ Cardinality(T) = n}
<1>1. SUFFICES ASSUME NEW T \in SUBSET S, T \notin Good PROVE FALSE
  OBVIOUS
<1>2. Cardinality(T) \in Bad
  <2>1. IsFiniteSet(T)
    BY FS_Subset
  <2>2. Cardinality(T) \in Nat
    BY <2>1, FS_CardinalityType
  <2>. QED
    BY <1>1, <2>2
<1>3. PICK n \in Bad : \A r \in Bad : n <= r
  <2>1. Bad \in SUBSET Nat /\ Bad # {}
    BY <1>2
  <2>. HIDE DEF Bad
  <2>. QED
    BY <2>1, LeastNumber
<1>4. PICK U \in SUBSET S : U \notin Good /\ Cardinality(U) = n
  BY <1>3
<1>5. IsFiniteSet(U)
  BY <1>4, FS_Subset
<1>6. PICK x \in U : U \ {x} \notin Good
  BY <1>4
<1>7. Cardinality(U \ {x}) = n - 1 /\ Cardinality(U \ {x}) \in Nat
  BY <1>4, <1>5, FS_RemoveElement, FS_CardinalityType
<1>8. n - 1 \in Bad
  BY <1>6, <1>7
<1>. QED
  BY <1>3, <1>8

Chosen(s) == CHOOSE x \in s : TRUE

\* The function by which a fold over S is defined: step[x] adds an element.
FoldsBy(g, S, base, step) ==
    g = [s \in SUBSET S |-> IF s = {} THEN base ELSE step[Chosen(s)][g[s \ {Chosen(s)}]]]

\* Its value at a set.
LEMMA FoldAt ==
    ASSUME NEW S, NEW base, NEW step, NEW g, FoldsBy(g, S, base, step), NEW s \in SUBSET S
    PROVE  g[s] = IF s = {} THEN base ELSE step[Chosen(s)][g[s \ {Chosen(s)}]]
<1>. DEFINE value(t) == IF t = {} THEN base ELSE step[Chosen(t)][g[t \ {Chosen(t)}]]
<1>1. g = [t \in SUBSET S |-> value(t)]
  BY Zenon DEF FoldsBy
<1>2. g[s] = value(s)
  <2>. HIDE DEF value
  <2>. QED
    BY <1>1
<1>. QED
  BY <1>2

\* The chosen element is one.
LEMMA ChosenIn == ASSUME NEW s, s # {} PROVE Chosen(s) \in s
BY DEF Chosen

\* There is a function that takes the elements of a set one by one, whichever
\* pick[s] it takes next,
Picks(pick, S) == \A s \in SUBSET S : s # {} => pick[s] \in s

FoldsWith(g, S, base, step, pick) ==
    \A s \in SUBSET S : g[s] = IF s = {} THEN base ELSE step[pick[s]][g[s \ {pick[s]}]]

LEMMA PickedFoldExists ==
    ASSUME NEW S, IsFiniteSet(S), NEW Acc, NEW base \in Acc, NEW step \in [S -> [Acc -> Acc]],
           NEW pick, Picks(pick, S)
    PROVE  \E g \in [SUBSET S -> Acc] : FoldsWith(g, S, base, step, pick)
<1>. DEFINE Upto(n) == {s \in SUBSET S : Cardinality(s) <= n}
            Taken(h, s) == IF s = {} THEN base ELSE step[pick[s]][h[s \ {pick[s]}]]
            Defined(n) == \E h \in [Upto(n) -> Acc] : \A s \in Upto(n) : h[s] = Taken(h, s)
            Undefined == {n \in Nat : ~Defined(n)}
<1>1. \A s \in SUBSET S : IsFiniteSet(s) /\ Cardinality(s) \in Nat
  BY FS_Subset, FS_CardinalityType
<1>2. ASSUME NEW n \in Nat, NEW s \in Upto(n + 1), s # {}
      PROVE  s \ {pick[s]} \in Upto(n) /\ pick[s] \in S
  <2>1. pick[s] \in s
    BY <1>2 DEF Picks
  <2>2. Cardinality(s \ {pick[s]}) = Cardinality(s) - 1
    BY <1>1, <2>1, FS_RemoveElement
  <2>. QED
    BY <1>1, <2>1, <2>2
<1>3. Defined(0)
  <2>1. \A s \in Upto(0) : s = {}
    BY <1>1, FS_EmptySet
  <2>2. [s \in Upto(0) |-> base] \in [Upto(0) -> Acc]
    OBVIOUS
  <2>. QED
    BY <2>1, <2>2
<1>4. ASSUME NEW n \in Nat, Defined(n)
      PROVE  Defined(n + 1)
  <2>1. PICK h \in [Upto(n) -> Acc] : \A s \in Upto(n) : h[s] = Taken(h, s)
    BY <1>4
  <2>. DEFINE k == [s \in Upto(n + 1) |-> Taken(h, s)]
  <2>2. \A s \in Upto(n) : s \in Upto(n + 1)
    BY <1>1
  <2>3. ASSUME NEW s \in Upto(n + 1)
        PROVE  Taken(h, s) \in Acc
    BY <1>2, <2>3
  <2>4. k \in [Upto(n + 1) -> Acc]
    BY <2>3
  <2>5. \A s \in Upto(n) : k[s] = h[s]
    BY <2>1, <2>2
  <2>6. ASSUME NEW s \in Upto(n + 1)
        PROVE  k[s] = Taken(k, s)
    <3>1. k[s] = Taken(h, s)
      OBVIOUS
    <3>2. s # {} => k[s \ {pick[s]}] = h[s \ {pick[s]}]
      BY <1>2, <2>5
    <3>. HIDE DEF k
    <3>. QED
      BY <3>1, <3>2
  <2>. HIDE DEF k
  <2>. QED
    BY <2>4, <2>6
<1>5. Undefined = {}
  <2>. SUFFICES ASSUME Undefined # {} PROVE FALSE
    OBVIOUS
  <2>1. PICK n \in Undefined : \A r \in Undefined : n <= r
    <3>1. Undefined \in SUBSET Nat
      OBVIOUS
    <3>. HIDE DEF Undefined
    <3>. QED
      BY <3>1, LeastNumber
  <2>2. n \in Nat /\ ~Defined(n)
    OBVIOUS
  <2>. HIDE DEF Defined
  <2>3. n # 0 /\ n - 1 \in Nat
    BY <1>3, <2>2
  <2>4. Defined(n - 1)
    BY <2>1, <2>3
  <2>5. Defined((n - 1) + 1) /\ (n - 1) + 1 = n
    BY <1>4, <2>3, <2>4
  <2>. QED
    BY <2>2, <2>5
<1>6. PICK h \in [Upto(Cardinality(S)) -> Acc] :
        \A s \in Upto(Cardinality(S)) : h[s] = Taken(h, s)
  <2>1. Cardinality(S) \in Nat
    BY <1>1
  <2>2. Defined(Cardinality(S))
    <3>. HIDE DEF Defined
    <3>. QED
      BY <1>5, <2>1
  <2>. QED
    BY <2>2
<1>7. Upto(Cardinality(S)) = SUBSET S
  BY FS_Subset
<1>. HIDE DEF Upto
<1>. QED
  BY <1>6, <1>7 DEF FoldsWith

\* ... the chosen element,
LEMMA FoldExists ==
    ASSUME NEW S, IsFiniteSet(S), NEW Acc, NEW base \in Acc, NEW step \in [S -> [Acc -> Acc]]
    PROVE  \E g \in [SUBSET S -> Acc] : FoldsBy(g, S, base, step)
<1>. DEFINE pick == [s \in SUBSET S |-> Chosen(s)]
            Taken(h, s) == IF s = {} THEN base ELSE step[Chosen(s)][h[s \ {Chosen(s)}]]
<1>1. \A s \in SUBSET S : pick[s] = Chosen(s)
  OBVIOUS
<1>2. Picks(pick, S)
  BY ChosenIn DEF Picks
<1>3. PICK g \in [SUBSET S -> Acc] : FoldsWith(g, S, base, step, pick)
  <2>. HIDE DEF pick
  <2>. QED
    BY <1>2, PickedFoldExists
<1>4. g = [s \in SUBSET S |-> Taken(g, s)]
  <2>1. \A s \in SUBSET S : g[s] = Taken(g, s)
    <3>. HIDE DEF pick
    <3>. QED
      BY <1>1, <1>3 DEF FoldsWith
  <2>. HIDE DEF Taken
  <2>. QED
    BY <2>1
<1>. QED
  BY <1>4 DEF FoldsBy

\* The image of a finite set is finite.
LEMMA ImageFinite ==
    ASSUME NEW S, IsFiniteSet(S), NEW f
    PROVE  IsFiniteSet({f[x] : x \in S})
<1>. DEFINE T == {f[x] : x \in S}
            m == [x \in S |-> f[x]]
<1>1. m \in Surjection(S, T)
  BY DEF Surjection
<1>. HIDE DEF m, T
<1>2. IsFiniteSet(T)
  BY <1>1, FS_Surjection
<1>. QED
  BY <1>2 DEF T

-----------------------------------------------------------------------------
(* Sums.                                                                   *)

\* The function by which a sum is defined.
AddsUp(g, S, f) ==
    g = [s \in SUBSET S |-> IF s = {} THEN 0 ELSE f[Chosen(s)] + g[s \ {Chosen(s)}]]

Sum(f, S) == (CHOOSE g : AddsUp(g, S, f))[S]

LEMMA AddsUpAt ==
    ASSUME NEW S, NEW f, NEW g, AddsUp(g, S, f), NEW s \in SUBSET S
    PROVE  g[s] = IF s = {} THEN 0 ELSE f[Chosen(s)] + g[s \ {Chosen(s)}]
<1>. DEFINE value(t) == IF t = {} THEN 0 ELSE f[Chosen(t)] + g[t \ {Chosen(t)}]
<1>1. g = [t \in SUBSET S |-> value(t)]
  BY Zenon DEF AddsUp
<1>2. g[s] = value(s)
  <2>. HIDE DEF value
  <2>. QED
    BY <1>1
<1>. QED
  BY <1>2

LEMMA AddsUpExists ==
    ASSUME NEW S, IsFiniteSet(S), NEW f, \A x \in S : f[x] \in Int
    PROVE  \E g : AddsUp(g, S, f)
<1>. DEFINE step == [x \in S |-> [n \in Int |-> f[x] + n]]
            value(g, s) == IF s = {} THEN 0 ELSE f[Chosen(s)] + g[s \ {Chosen(s)}]
<1>1. PICK g \in [SUBSET S -> Int] : FoldsBy(g, S, 0, step)
  <2>1. step \in [S -> [Int -> Int]] /\ 0 \in Int
    OBVIOUS
  <2>. HIDE DEF step
  <2>. QED
    BY Zenon, <2>1, FoldExists
<1>2. ASSUME NEW s \in SUBSET S
      PROVE  g[s] = value(g, s)
  <2>1. g[s] = IF s = {} THEN 0 ELSE step[Chosen(s)][g[s \ {Chosen(s)}]]
    <3>. HIDE DEF step
    <3>. QED
      BY <1>1, FoldAt
  <2>2. s # {} => Chosen(s) \in S /\ g[s \ {Chosen(s)}] \in Int
    BY ChosenIn
  <2>. QED
    BY <2>1, <2>2
<1>3. g = [s \in SUBSET S |-> value(g, s)]
  <2>. HIDE DEF value
  <2>. QED
    BY <1>2
<1>. QED
  BY <1>3 DEF AddsUp

\* Sums of the same numbers are the same.
LEMMA AddsUpAgree ==
    ASSUME NEW S, IsFiniteSet(S), NEW T, S \subseteq T, NEW f, NEW k, \A x \in S : f[x] = k[x],
           NEW g, NEW h, AddsUp(g, S, f), AddsUp(h, T, k)
    PROVE  \A s \in SUBSET S : g[s] = h[s]
<1>. DEFINE Good == {s \in SUBSET S : g[s] = h[s]}
<1>1. ASSUME NEW s \in SUBSET S, \A x \in s : s \ {x} \in Good
      PROVE  s \in Good
  <2>1. /\ g[s] = IF s = {} THEN 0 ELSE f[Chosen(s)] + g[s \ {Chosen(s)}]
        /\ h[s] = IF s = {} THEN 0 ELSE k[Chosen(s)] + h[s \ {Chosen(s)}]
    BY AddsUpAt
  <2>2. CASE s = {}
    BY <2>1, <2>2
  <2>3. CASE s # {}
    <3>1. Chosen(s) \in s /\ f[Chosen(s)] = k[Chosen(s)]
      BY <2>3, ChosenIn
    <3>2. g[s \ {Chosen(s)}] = h[s \ {Chosen(s)}]
      BY <1>1, <3>1
    <3>. QED
      BY <2>1, <2>3, <3>1, <3>2
  <2>. QED
    BY <2>2, <2>3
<1>. HIDE DEF Good
<1>2. \A s \in SUBSET S : s \in Good
  BY <1>1, SubsetInduction
<1>. QED
  BY <1>2 DEF Good

LEMMA SumIs ==
    ASSUME NEW S, IsFiniteSet(S), NEW f, \A x \in S : f[x] \in Int, NEW g, AddsUp(g, S, f)
    PROVE  g[S] = Sum(f, S)
<1>1. AddsUp(CHOOSE h : AddsUp(h, S, f), S, f)
  OBVIOUS
<1>. QED
  BY <1>1, AddsUpAgree DEF Sum

LEMMA SumAgree ==
    ASSUME NEW S, IsFiniteSet(S), NEW f, NEW k, \A x \in S : f[x] \in Int /\ f[x] = k[x]
    PROVE  Sum(f, S) = Sum(k, S)
<1>1. \A x \in S : k[x] \in Int
  OBVIOUS
<1>2. PICK g : AddsUp(g, S, f)
  BY AddsUpExists
<1>3. PICK h : AddsUp(h, S, k)
  BY <1>1, AddsUpExists
<1>. QED
  BY <1>1, <1>2, <1>3, AddsUpAgree, SumIs

\* A sum of sums: by the chosen element,
LEMMA SumChosen ==
    ASSUME NEW S, IsFiniteSet(S), NEW f, \A x \in S : f[x] \in Int
    PROVE  Sum(f, S) = IF S = {} THEN 0 ELSE f[Chosen(S)] + Sum(f, S \ {Chosen(S)})
<1>1. PICK g : AddsUp(g, S, f)
  BY AddsUpExists
<1>2. g[S] = IF S = {} THEN 0 ELSE f[Chosen(S)] + g[S \ {Chosen(S)}]
  BY <1>1, AddsUpAt
<1>. DEFINE T == S \ {Chosen(S)}
<1>3. g[T] = Sum(f, T)
  <2>1. T \subseteq S /\ IsFiniteSet(T) /\ \A x \in T : f[x] \in Int
    BY FS_Subset
  <2>. HIDE DEF T
  <2>2. PICK h : AddsUp(h, T, f)
    BY <2>1, AddsUpExists
  <2>3. \A t \in SUBSET T : h[t] = g[t]
    BY <1>1, <2>1, <2>2, AddsUpAgree
  <2>. QED
    BY <2>1, <2>2, <2>3, SumIs
<1>. QED
  BY <1>1, <1>2, <1>3, SumIs

\* ... which is a number,
LEMMA SumType ==
    ASSUME NEW S, IsFiniteSet(S), NEW f, \A x \in S : f[x] \in Int
    PROVE  Sum(f, S) \in Int
<1>. DEFINE Good == {T \in SUBSET S : Sum(f, T) \in Int}
<1>1. ASSUME NEW T \in SUBSET S, \A x \in T : T \ {x} \in Good
      PROVE  T \in Good
  <2>1. IsFiniteSet(T) /\ \A x \in T : f[x] \in Int
    BY FS_Subset
  <2>2. Sum(f, T) = IF T = {} THEN 0 ELSE f[Chosen(T)] + Sum(f, T \ {Chosen(T)})
    BY <2>1, SumChosen
  <2>3. T # {} => Chosen(T) \in T
    BY ChosenIn
  <2>. QED
    BY <1>1, <2>1, <2>2, <2>3
<1>. HIDE DEF Good
<1>2. \A T \in SUBSET S : T \in Good
  BY <1>1, SubsetInduction
<1>. QED
  BY <1>2 DEF Good

\* ... by any element,
LEMMA SumRemove ==
    ASSUME NEW S, IsFiniteSet(S), NEW f, \A x \in S : f[x] \in Int, NEW x \in S
    PROVE  Sum(f, S) = f[x] + Sum(f, S \ {x})
<1>. DEFINE Good == {T \in SUBSET S : \A z \in T : Sum(f, T) = f[z] + Sum(f, T \ {z})}
<1>1. ASSUME NEW T \in SUBSET S, \A z \in T : T \ {z} \in Good
      PROVE  T \in Good
  <2>. SUFFICES ASSUME NEW z \in T PROVE Sum(f, T) = f[z] + Sum(f, T \ {z})
    OBVIOUS
  <2>. DEFINE y == Chosen(T)
  <2>1. y \in T
    BY ChosenIn
  <2>2. Sum(f, T) = f[y] + Sum(f, T \ {y})
    <3>1. IsFiniteSet(T) /\ \A u \in T : f[u] \in Int
      BY FS_Subset
    <3>. QED
      BY <2>1, <3>1, SumChosen
  <2>3. CASE y = z
    BY <2>2, <2>3
  <2>4. CASE y # z
    <3>. HIDE DEF y
    <3>1. z \in T \ {y} /\ y \in T \ {z}
      BY <2>1, <2>4
    <3>2. Sum(f, T \ {y}) = f[z] + Sum(f, (T \ {y}) \ {z})
      BY <1>1, <2>1, <3>1
    <3>3. Sum(f, T \ {z}) = f[y] + Sum(f, (T \ {z}) \ {y})
      BY <1>1, <3>1
    <3>4. (T \ {y}) \ {z} = (T \ {z}) \ {y}
      OBVIOUS
    <3>5. Sum(f, (T \ {z}) \ {y}) \in Int
      <4>. DEFINE U == (T \ {z}) \ {y}
      <4>1. IsFiniteSet(U) /\ \A u \in U : f[u] \in Int
        BY FS_Subset
      <4>. HIDE DEF U
      <4>2. Sum(f, U) \in Int
        BY <4>1, SumType
      <4>. QED
        BY <4>2 DEF U
    <3>6. f[y] \in Int /\ f[z] \in Int
      BY <2>1
    <3>7. \A a, b, n \in Int : a + (b + n) = b + (a + n)
      OBVIOUS
    <3>. DEFINE n == Sum(f, (T \ {z}) \ {y})
    <3>8. Sum(f, T) = f[y] + (f[z] + n)
      BY <2>2, <3>2, <3>4
    <3>9. f[y] + (f[z] + n) = f[z] + (f[y] + n)
      BY <3>5, <3>6, <3>7
    <3>. QED
      BY <3>3, <3>8, <3>9
  <2>. QED
    BY <2>3, <2>4
<1>. HIDE DEF Good
<1>2. \A T \in SUBSET S : T \in Good
  BY <1>1, SubsetInduction
<1>. QED
  BY <1>2 DEF Good

\* ... of two sets without a common element.
LEMMA SumUnion ==
    ASSUME NEW S, IsFiniteSet(S), NEW T, IsFiniteSet(T), S \cap T = {}, NEW f,
           \A x \in S \cup T : f[x] \in Int
    PROVE  Sum(f, S \cup T) = Sum(f, S) + Sum(f, T)
<1>. DEFINE Good == {U \in SUBSET S : Sum(f, U \cup T) = Sum(f, U) + Sum(f, T)}
<1>1. ASSUME NEW U \in SUBSET S, \A z \in U : U \ {z} \in Good
      PROVE  U \in Good
  <2>. SUFFICES Sum(f, U \cup T) = Sum(f, U) + Sum(f, T)
    OBVIOUS
  <2>1. IsFiniteSet(U) /\ IsFiniteSet(U \cup T)
    BY FS_Subset, FS_Union
  <2>2. Sum(f, T) \in Int
    BY SumType
  <2>3. CASE U = {}
    <3>1. U \cup T = T /\ Sum(f, U) = 0
      BY <2>1, <2>3, SumChosen
    <3>2. PICK t \in Int : t = Sum(f, T)
      BY <2>2
    <3>3. Sum(f, U \cup T) = t
      BY <3>1, <3>2
    <3>4. 0 + t = t
      OBVIOUS
    <3>. QED
      BY <3>1, <3>2, <3>3, <3>4
  <2>4. CASE U # {}
    <3>1. PICK z \in U : TRUE
      BY <2>4
    <3>2. Sum(f, U \cup T) = f[z] + Sum(f, (U \cup T) \ {z})
      BY <2>1, SumRemove
    <3>3. (U \cup T) \ {z} = (U \ {z}) \cup T
      OBVIOUS
    <3>4. Sum(f, (U \ {z}) \cup T) = Sum(f, U \ {z}) + Sum(f, T)
      BY <1>1
    <3>5. Sum(f, U) = f[z] + Sum(f, U \ {z})
      BY <2>1, SumRemove
    <3>6. Sum(f, U \ {z}) \in Int
      <4>1. IsFiniteSet(U \ {z}) /\ \A u \in U \ {z} : f[u] \in Int
        BY <2>1, FS_RemoveElement
      <4>. QED
        BY <4>1, SumType
    <3>7. f[z] \in Int
      OBVIOUS
    <3>8. \A a, b, n \in Int : a + (b + n) = (a + b) + n
      OBVIOUS
    <3>9. Sum(f, U \cup T) = f[z] + (Sum(f, U \ {z}) + Sum(f, T))
      BY <3>2, <3>3, <3>4
    <3>10. f[z] + (Sum(f, U \ {z}) + Sum(f, T)) = (f[z] + Sum(f, U \ {z})) + Sum(f, T)
      BY <2>2, <3>6, <3>7, <3>8
    <3>. QED
      BY <3>5, <3>9, <3>10
  <2>. QED
    BY <2>3, <2>4
<1>. HIDE DEF Good
<1>2. \A U \in SUBSET S : U \in Good
  BY <1>1, SubsetInduction
<1>. QED
  BY <1>2 DEF Good

-----------------------------------------------------------------------------
(* The least and the greatest.                                             *)

Extreme(fn, v, V) == v \in V /\ \A x \in V : IF fn = "MIN" THEN v <= x ELSE v >= x

LEMMA ExtremeExists ==
    ASSUME NEW V, IsFiniteSet(V), V \subseteq Int, V # {}, NEW fn
    PROVE  \E v : Extreme(fn, v, V)
<1>. DEFINE Good == {U \in SUBSET V : U # {} => \E v : Extreme(fn, v, U)}
<1>1. ASSUME NEW U \in SUBSET V, \A x \in U : U \ {x} \in Good
      PROVE  U \in Good
  <2>. SUFFICES ASSUME U # {} PROVE \E v : Extreme(fn, v, U)
    OBVIOUS
  <2>1. PICK x \in U : TRUE
    OBVIOUS
  <2>2. CASE U \ {x} = {}
    <3>1. U = {x} /\ x \in Int
      BY <2>1, <2>2
    <3>2. Extreme(fn, x, U)
      <4>1. \A y \in U : y = x
        BY <3>1
      <4>. QED
        BY <3>1, <4>1 DEF Extreme
    <3>. QED
      BY <3>2
  <2>3. CASE U \ {x} # {}
    <3>1. PICK v : Extreme(fn, v, U \ {x})
      <4>1. U \ {x} \in Good
        BY <1>1
      <4>2. \E v : Extreme(fn, v, U \ {x})
        BY Zenon, <2>3, <4>1
      <4>. QED
        BY <4>2
    <3>2. v \in Int /\ x \in Int /\ v \in U /\ \A y \in U : y \in Int
      BY <3>1 DEF Extreme
    <3>3. Extreme(fn, v, U) \/ Extreme(fn, x, U)
      <4>1. CASE fn = "MIN" /\ v <= x
        BY <3>1, <3>2, <4>1 DEF Extreme
      <4>2. CASE fn = "MIN" /\ ~(v <= x)
        BY <3>1, <3>2, <4>2 DEF Extreme
      <4>3. CASE fn # "MIN" /\ v >= x
        BY <3>1, <3>2, <4>3 DEF Extreme
      <4>4. CASE fn # "MIN" /\ ~(v >= x)
        BY <3>1, <3>2, <4>4 DEF Extreme
      <4>. QED
        BY <4>1, <4>2, <4>3, <4>4
    <3>. QED
      BY <3>3
  <2>. QED
    BY <2>2, <2>3
<1>. HIDE DEF Good
<1>2. \A U \in SUBSET V : U \in Good
  BY <1>1, SubsetInduction
<1>. QED
  BY <1>2 DEF Good

\* It is what Min and Max give.
LEMMA ExtremeIs ==
    ASSUME NEW V, V \subseteq Int, NEW fn, NEW v, Extreme(fn, v, V)
    PROVE  /\ fn = "MIN" => Min(V) = v
           /\ fn # "MIN" => Max(V) = v
<1>1. CASE fn = "MIN"
  <2>1. v \in V /\ \A y \in V : v <= y
    BY <1>1 DEF Extreme
  <2>2. Min(V) \in V /\ \A y \in V : Min(V) <= y
    BY <2>1 DEF Min
  <2>. DEFINE m == Min(V)
  <2>3. m \in V /\ m <= v /\ v <= m
    BY <2>1, <2>2
  <2>4. m \in Int /\ v \in Int
    BY <2>1, <2>3
  <2>5. m = v
    <3>. HIDE DEF m
    <3>. QED
      BY <2>3, <2>4
  <2>. QED
    BY <1>1, <2>5
<1>2. CASE fn # "MIN"
  <2>1. v \in V /\ \A y \in V : v >= y
    BY <1>2 DEF Extreme
  <2>2. Max(V) \in V /\ \A y \in V : Max(V) >= y
    BY <2>1 DEF Max
  <2>. DEFINE m == Max(V)
  <2>3. m \in V /\ m >= v /\ v >= m
    BY <2>1, <2>2
  <2>4. m \in Int /\ v \in Int
    BY <2>1, <2>3
  <2>5. m = v
    <3>. HIDE DEF m
    <3>. QED
      BY <2>3, <2>4
  <2>. QED
    BY <1>2, <2>5
<1>. QED
  BY <1>1, <1>2

\* A set has one least and one greatest value.
LEMMA ExtremeUnique ==
    ASSUME NEW V, V \subseteq Int, NEW fn, NEW v, Extreme(fn, v, V), NEW w, Extreme(fn, w, V)
    PROVE  v = w
<1>1. v \in Int /\ w \in Int
  BY DEF Extreme
<1>2. (v <= w /\ w <= v) \/ (v >= w /\ w >= v)
  BY DEF Extreme
<1>. QED
  BY <1>1, <1>2

\* The greatest of two numbers.
LEMMA MaxOfTwo ==
    ASSUME NEW a \in Int, NEW b \in Int
    PROVE  Max({a, b}) = IF a > b THEN a ELSE b
<1>. DEFINE V == {a, b}
            v == IF a > b THEN a ELSE b
<1>1. Extreme("MAX", v, V) /\ V \subseteq Int
  BY DEF Extreme
<1>2. Max(V) = v
  <2>1. "MAX" # "MIN"
    OBVIOUS
  <2>. HIDE DEF V, v
  <2>2. "MAX" # "MIN" => Max(V) = v
    BY <1>1, ExtremeIs
  <2>. QED
    BY <2>1, <2>2
<1>. QED
  BY <1>2

-----------------------------------------------------------------------------
(* Recursion over numbers.                                                 *)

\* If a number is good whenever all the smaller ones are, all are.
LEMMA NumberInduction ==
    ASSUME NEW Good, \A n \in Nat : (\A m \in 0 .. n - 1 : m \in Good) => n \in Good
    PROVE  \A n \in Nat : n \in Good
<1>. SUFFICES ASSUME NEW k \in Nat, k \notin Good PROVE FALSE
  OBVIOUS
<1>. DEFINE Bad == {n \in Nat : n \notin Good}
<1>1. Bad \in SUBSET Nat /\ Bad # {}
  OBVIOUS
<1>2. PICK n \in Bad : \A r \in Bad : n <= r
  <2>. HIDE DEF Bad
  <2>. QED
    BY <1>1, LeastNumber
<1>3. n \in Nat /\ n \notin Good
  BY <1>2
<1>4. ASSUME NEW m \in 0 .. n - 1 PROVE m \in Good
  BY <1>2, <1>3
<1>. QED
  BY <1>3, <1>4

\* A function can be defined by recursion on the numbers up to n: step[k] makes
\* its value at k of its values below k.
Recursion(step, n, Acc) == \A k \in 1 .. n : step[k] \in [[1 .. k - 1 -> Acc] -> Acc]

Below(g, k) == [m \in 1 .. k - 1 |-> g[m]]

ByRecursion(g, n, step) == \A k \in 1 .. n : g[k] = step[k][Below(g, k)]

LEMMA RecursionExists ==
    ASSUME NEW n \in Nat, NEW Acc, NEW step, Recursion(step, n, Acc)
    PROVE  \E g \in [1 .. n -> Acc] : ByRecursion(g, n, step)
<1>. USE DEF Recursion, Below, ByRecursion
<1>. DEFINE Defines(g, j) == \A k \in 1 .. j : g[k] = step[k][[m \in 1 .. k - 1 |-> g[m]]]
            Good == {j \in Nat : j <= n => \E g \in [1 .. j -> Acc] : Defines(g, j)}
<1>1. ASSUME NEW j \in Nat, \A m \in 0 .. j - 1 : m \in Good
      PROVE  j \in Good
  <2>. SUFFICES ASSUME j <= n PROVE \E g \in [1 .. j -> Acc] : Defines(g, j)
    OBVIOUS
  <2>1. CASE j = 0
    <3>1. 1 .. j = {}
      BY <2>1
    <3>2. [m \in 1 .. j |-> m] \in [1 .. j -> Acc]
      BY <3>1
    <3>. QED
      BY <3>1, <3>2
  <2>2. CASE j # 0
    <3>1. j - 1 \in Good
      BY <1>1, <2>2
    <3>2. PICK g \in [1 .. j - 1 -> Acc] : Defines(g, j - 1)
      BY <2>2, <3>1
    <3>. DEFINE new == step[j][g]
                h == [k \in 1 .. j |-> IF k = j THEN new ELSE g[k]]
    <3>3. new \in Acc
      <4>1. j \in 1 .. n
        BY <2>2
      <4>2. step[j] \in [[1 .. j - 1 -> Acc] -> Acc]
        BY <4>1, Zenon
      <4>. QED
        BY <4>2
    <3>4. h \in [1 .. j -> Acc]
      BY <3>2, <3>3
    <3>5. \A k \in 1 .. j : [m \in 1 .. k - 1 |-> h[m]] = [m \in 1 .. k - 1 |-> g[m]]
      OBVIOUS
    <3>6. [m \in 1 .. j - 1 |-> g[m]] = g
      BY <3>2
    <3>7. ASSUME NEW k \in 1 .. j
          PROVE  h[k] = step[k][[m \in 1 .. k - 1 |-> h[m]]]
      <4>1. CASE k = j
        <5>1. h[k] = step[k][g]
          BY <4>1
        <5>2. [m \in 1 .. k - 1 |-> h[m]] = g
          BY <3>5, <3>6, <4>1
        <5>. HIDE DEF h
        <5>. QED
          BY <5>1, <5>2
      <4>2. CASE k # j
        <5>1. h[k] = g[k] /\ k \in 1 .. j - 1
          BY <4>2
        <5>2. g[k] = step[k][[m \in 1 .. k - 1 |-> g[m]]]
          BY <3>2, <5>1
        <5>. HIDE DEF h
        <5>. QED
          BY <3>5, <5>1, <5>2
      <4>. QED
        BY <4>1, <4>2
    <3>. HIDE DEF h
    <3>. QED
      BY <3>4, <3>7
  <2>. QED
    BY <2>1, <2>2
<1>. HIDE DEF Good
<1>2. n \in Good
  BY <1>1, NumberInduction
<1>. QED
  BY <1>2 DEF Good

\* The last of the first k numbers.
LEMMA LastOfPrefix ==
    ASSUME NEW k \in Nat \ {0}
    PROVE  Max(1 .. k) = k /\ (1 .. k) \ {k} = 1 .. k - 1 /\ 1 .. k # {}
<1>1. k \in 1 .. k /\ \A y \in 1 .. k : k >= y
  OBVIOUS
<1>. DEFINE m == Max(1 .. k)
<1>2. m \in 1 .. k /\ \A y \in 1 .. k : m >= y
  BY <1>1 DEF Max
<1>3. m = k
  <2>. HIDE DEF m
  <2>. QED
    BY <1>1, <1>2
<1>4. (1 .. k) \ {k} = 1 .. k - 1
  OBVIOUS
<1>. QED
  BY <1>1, <1>3, <1>4

\* The numbers of a set up to n have a greatest one.
LEMMA LastIn ==
    ASSUME NEW n \in Nat, NEW s \in SUBSET (1 .. n), s # {}
    PROVE  Max(s) \in s
<1>1. IsFiniteSet(s) /\ s \subseteq Int
  <2>1. IsFiniteSet(1 .. n) /\ 1 .. n \subseteq Int
    BY FS_Interval
  <2>2. IsFiniteSet(s)
    BY <2>1, FS_Subset, Zenon
  <2>. QED
    BY <2>1, <2>2
<1>2. PICK v : Extreme("MAX", v, s)
  BY <1>1, ExtremeExists
<1>3. Max(s) = v
  <2>1. "MAX" # "MIN" => Max(s) = v
    BY <1>1, <1>2, ExtremeIs
  <2>. QED
    BY <2>1
<1>. QED
  BY <1>2, <1>3 DEF Extreme

-----------------------------------------------------------------------------
(* Folds over a sequence.  FoldLeft takes the greatest place first, and so *)
(* goes from the first element to the last.                                *)

\* A fold over the numbers up to n that takes the greatest first.
FoldsInOrder(h, n, base, step) ==
    \A s \in SUBSET (1 .. n) : h[s] = IF s = {} THEN base ELSE step[Max(s)][h[s \ {Max(s)}]]

LEMMA SequenceFoldExists ==
    ASSUME NEW n \in Nat, NEW Acc, NEW base \in Acc, NEW step \in [1 .. n -> [Acc -> Acc]]
    PROVE  \E h \in [SUBSET (1 .. n) -> Acc] : FoldsInOrder(h, n, base, step)
<1>. USE DEF FoldsInOrder
<1>. DEFINE pick == [s \in SUBSET (1 .. n) |-> Max(s)]
<1>1. \A s \in SUBSET (1 .. n) : pick[s] = Max(s)
  OBVIOUS
<1>2. IsFiniteSet(1 .. n) /\ Picks(pick, 1 .. n)
  <2>1. ASSUME NEW s \in SUBSET (1 .. n), s # {} PROVE pick[s] \in s
    <3>1. Max(s) \in s
      BY <2>1, LastIn
    <3>. HIDE DEF pick
    <3>. QED
      BY <1>1, <3>1
  <2>2. IsFiniteSet(1 .. n)
    BY FS_Interval
  <2>. HIDE DEF pick
  <2>. QED
    BY <2>1, <2>2 DEF Picks
<1>3. PICK h \in [SUBSET (1 .. n) -> Acc] :
        FoldsWith(h, 1 .. n, base, step, pick)
  <2>. HIDE DEF pick
  <2>. QED
    BY <1>2, PickedFoldExists
<1>4. ASSUME NEW s \in SUBSET (1 .. n)
      PROVE  h[s] = IF s = {} THEN base ELSE step[Max(s)][h[s \ {Max(s)}]]
  <2>. HIDE DEF pick
  <2>. QED
    BY <1>1, <1>3 DEF FoldsWith
<1>. QED
  BY <1>4, Zenon

\* A fold that takes the greatest number first goes from the first number to the
\* last: the accumulators in between are a path.
Path(path, n, Acc, base, step) ==
    /\ path \in [0 .. n -> Acc] /\ path[0] = base
    /\ \A k \in 1 .. n : path[k] = step[k][path[k - 1]]

StepsInOrder(iter, n, Acc, base, step) ==
    /\ iter[{}] = base
    /\ \A k \in 1 .. n : iter[1 .. k - 1] \in Acc => iter[1 .. k] = step[k][iter[1 .. k - 1]]

LEMMA FoldPath ==
    ASSUME NEW n \in Nat, NEW Acc, NEW base \in Acc, NEW step \in [1 .. n -> [Acc -> Acc]],
           NEW iter, StepsInOrder(iter, n, Acc, base, step)
    PROVE  \E path : Path(path, n, Acc, base, step) /\ iter[1 .. n] = path[n]
<1>. USE DEF StepsInOrder
<1>. DEFINE path == [k \in 0 .. n |-> iter[1 .. k]]
            Good == {k \in Nat : k <= n => iter[1 .. k] \in Acc}
<1>1. 1 .. 0 = {}
  OBVIOUS
<1>2. ASSUME NEW k \in Nat, \A m \in 0 .. k - 1 : m \in Good
      PROVE  k \in Good
  <2>1. CASE k = 0
    BY <1>1, <2>1
  <2>2. CASE k # 0
    <3>. SUFFICES ASSUME k <= n PROVE iter[1 .. k] \in Acc
      OBVIOUS
    <3>1. k \in 1 .. n /\ k - 1 \in Good /\ k - 1 <= n
      BY <1>2, <2>2
    <3>2. iter[1 .. k - 1] \in Acc
      BY <3>1
    <3>3. step[k] \in [Acc -> Acc]
      BY <3>1
    <3>. QED
      BY <3>1, <3>2, <3>3
  <2>. QED
    BY <2>1, <2>2
<1>3. \A k \in Nat : k \in Good
  <2>. HIDE DEF Good
  <2>. QED
    BY <1>2, NumberInduction
<1>4. \A k \in 0 .. n : iter[1 .. k] \in Acc
  BY <1>3
<1>5. path \in [0 .. n -> Acc]
  BY <1>4
<1>6. path[0] = base
  BY <1>1
<1>7. ASSUME NEW k \in 1 .. n
      PROVE  path[k] = step[k][path[k - 1]]
  BY <1>4
<1>8. path[n] = iter[1 .. n]
  OBVIOUS
<1>. HIDE DEF path
<1>. QED
  BY <1>5, <1>6, <1>7, <1>8 DEF Path

\* There is one path.
LEMMA OnePath ==
    ASSUME NEW n \in Nat, NEW Acc, NEW base, NEW step,
           NEW p, Path(p, n, Acc, base, step), NEW q, Path(q, n, Acc, base, step)
    PROVE  p = q
<1>. DEFINE Good == {k \in Nat : k <= n => p[k] = q[k]}
<1>1. ASSUME NEW k \in Nat, \A m \in 0 .. k - 1 : m \in Good
      PROVE  k \in Good
  <2>. SUFFICES ASSUME k <= n PROVE p[k] = q[k]
    OBVIOUS
  <2>1. CASE k = 0
    BY <2>1 DEF Path
  <2>2. CASE k # 0
    <3>1. k \in 1 .. n /\ p[k - 1] = q[k - 1]
      BY <1>1, <2>2
    <3>. QED
      BY <3>1 DEF Path
  <2>. QED
    BY <2>1, <2>2
<1>2. \A k \in Nat : k \in Good
  <2>. HIDE DEF Good
  <2>. QED
    BY <1>1, NumberInduction
<1>3. \A k \in 0 .. n : p[k] = q[k]
  BY <1>2
<1>. QED
  BY <1>3 DEF Path

\* What holds of the accumulators at every place, if every step passes it on.
LEMMA PathKeeps ==
    ASSUME NEW n \in Nat, NEW Acc, NEW base, NEW step, NEW path, Path(path, n, Acc, base, step),
           NEW Kept, base \in Kept[0],
           \A k \in 1 .. n : \A a \in Acc \cap Kept[k - 1] : step[k][a] \in Kept[k]
    PROVE  \A k \in 0 .. n : path[k] \in Acc \cap Kept[k]
<1>. DEFINE Good == {k \in Nat : k <= n => path[k] \in Acc \cap Kept[k]}
<1>1. ASSUME NEW k \in Nat, \A m \in 0 .. k - 1 : m \in Good
      PROVE  k \in Good
  <2>. SUFFICES ASSUME k <= n PROVE path[k] \in Acc \cap Kept[k]
    OBVIOUS
  <2>1. path[k] \in Acc
    BY DEF Path
  <2>2. CASE k = 0
    BY <2>1, <2>2 DEF Path
  <2>3. CASE k # 0
    <3>1. k \in 1 .. n /\ path[k - 1] \in Acc \cap Kept[k - 1]
      BY <1>1, <2>3
    <3>2. path[k] = step[k][path[k - 1]]
      BY <3>1 DEF Path
    <3>. QED
      BY <2>1, <3>1, <3>2
  <2>. QED
    BY <2>2, <2>3
<1>2. \A k \in Nat : k \in Good
  <2>. HIDE DEF Good
  <2>. QED
    BY <1>1, NumberInduction
<1>. QED
  BY <1>2

-----------------------------------------------------------------------------
(* Sorting.                                                                *)

\* A sequence can be put in the order of its keys: the permutation is found by
\* selection, the least key of the rest going to place k.
LEMMA SortingExists ==
    ASSUME NEW n \in Nat, NEW key, \A i \in 1 .. n : key[i] \in Int
    PROVE  \E p \in [1 .. n -> 1 .. n] :
              IsInjective(p) /\ \A i, j \in 1 .. n : i < j => key[p[i]] <= key[p[j]]
<1>. DEFINE Ordered(p, k) ==
              IsInjective(p) /\ \A i, j \in 1 .. n : (i <= k /\ i < j) => key[p[i]] <= key[p[j]]
            Good == {k \in Nat : k <= n => \E p \in [1 .. n -> 1 .. n] : Ordered(p, k)}
<1>1. ASSUME NEW k \in Nat, \A m \in 0 .. k - 1 : m \in Good
      PROVE  k \in Good
  <2>. SUFFICES ASSUME k <= n PROVE \E p \in [1 .. n -> 1 .. n] : Ordered(p, k)
    OBVIOUS
  <2>1. CASE k = 0
    <3>. DEFINE id == [i \in 1 .. n |-> i]
    <3>1. id \in [1 .. n -> 1 .. n] /\ IsInjective(id)
      BY DEF IsInjective
    <3>2. Ordered(id, 0)
      BY <3>1
    <3>. QED
      BY <2>1, <3>1, <3>2
  <2>2. CASE k # 0
    <3>1. k \in 1 .. n /\ k - 1 \in 0 .. k - 1 /\ k - 1 <= n
      BY <2>2
    <3>2. PICK p \in [1 .. n -> 1 .. n] : Ordered(p, k - 1)
      <4>1. k - 1 \in Good
        BY <1>1, <3>1, Zenon
      <4>. HIDE DEF Ordered
      <4>. QED
        BY <3>1, <4>1
    <3>. DEFINE keys == {key[p[i]] : i \in k .. n}
    <3>3. PICK v : Extreme("MIN", v, keys)
      <4>1. IsFiniteSet(k .. n)
        BY FS_Interval
      <4>2. IsFiniteSet({[i \in k .. n |-> key[p[i]]][j] : j \in k .. n})
        BY <4>1, ImageFinite
      <4>3. {[i \in k .. n |-> key[p[i]]][j] : j \in k .. n} = keys
        OBVIOUS
      <4>4. keys \subseteq Int /\ keys # {}
        <5>1. k \in k .. n /\ \A i \in k .. n : i \in 1 .. n
          BY <3>1
        <5>2. \A i \in k .. n : key[p[i]] \in Int
          BY <5>1
        <5>. QED
          BY <5>1, <5>2
      <4>. HIDE DEF keys
      <4>. QED
        BY <4>2, <4>3, <4>4, ExtremeExists
    <3>4. PICK m \in k .. n : \A i \in k .. n : key[p[m]] <= key[p[i]]
      BY <3>3 DEF Extreme
    <3>. DEFINE q == [i \in 1 .. n |-> IF i = k THEN p[m] ELSE IF i = m THEN p[k] ELSE p[i]]
    <3>5. q \in [1 .. n -> 1 .. n]
      BY <3>1, <3>4
    <3>6. IsInjective(q)
      <4>1. \A i, j \in 1 .. n : p[i] = p[j] => i = j
        BY <3>2 DEF IsInjective
      <4>2. \A i, j \in 1 .. n : q[i] = q[j] => i = j
        BY <3>1, <3>4, <4>1
      <4>. QED
        BY <4>2 DEF IsInjective
    <3>7. ASSUME NEW i \in 1 .. n, NEW j \in 1 .. n, i <= k, i < j
          PROVE  key[q[i]] <= key[q[j]]
      <4>1. CASE i = k
        <5>1. q[i] = p[m]
          BY <4>1
        <5>2. PICK u \in k .. n : q[j] = p[u]
          BY <3>1, <3>4, <3>7, <4>1
        <5>. HIDE DEF q
        <5>. QED
          BY <3>4, <5>1, <5>2
      <4>2. CASE i < k
        <5>1. q[i] = p[i] /\ i <= k - 1
          BY <3>1, <3>4, <4>2
        <5>2. PICK u \in 1 .. n : q[j] = p[u] /\ i < u
          BY <3>1, <3>4, <3>7, <4>2
        <5>. HIDE DEF q
        <5>. QED
          BY <3>2, <5>1, <5>2
      <4>. QED
        BY <3>7, <4>1, <4>2
    <3>. HIDE DEF q
    <3>. QED
      BY <3>5, <3>6, <3>7
  <2>. QED
    BY <2>1, <2>2
<1>2. \A k \in Nat : k \in Good
  <2>. HIDE DEF Good
  <2>. QED
    BY <1>1, NumberInduction
<1>3. PICK p \in [1 .. n -> 1 .. n] : Ordered(p, n)
  BY <1>2
<1>. QED
  BY <1>3

\* What std::sort gives has the elements of the sequence, and no others, each as
\* often as the sequence has it.
Permutes(p, s, n, t) == IsInjective(p) /\ t = [i \in 1 .. n |-> s[p[i]]]

LEMMA SortedByIs ==
    ASSUME NEW n \in Nat, NEW s, DOMAIN s = 1 .. n, NEW key, \A i \in 1 .. n : key[s[i]] \in Int
    PROVE  \E p \in [1 .. n -> 1 .. n] : Permutes(p, s, n, SortedBy(s, key))
<1>. USE DEF Permutes
<1>. DEFINE keys == [i \in 1 .. n |-> key[s[i]]]
            InOrder(t) == \A i, j \in DOMAIN t : i < j => key[t[i]] <= key[t[j]]
            As(p) == [i \in 1 .. n |-> s[p[i]]]
<1>1. PICK p \in [1 .. n -> 1 .. n] :
        IsInjective(p) /\ \A i, j \in 1 .. n : i < j => keys[p[i]] <= keys[p[j]]
  <2>1. \A i \in 1 .. n : keys[i] \in Int
    OBVIOUS
  <2>. HIDE DEF keys
  <2>. QED
    BY <2>1, SortingExists
<1>2. \A i \in 1 .. n : keys[p[i]] = key[As(p)[i]]
  OBVIOUS
<1>3. InOrder(As(p))
  <2>. HIDE DEF keys
  <2>. QED
    BY <1>1, <1>2
<1>4. As(p) \in Orders(s)
  BY <1>1 DEF Orders
<1>. HIDE DEF As, InOrder
<1>5. SortedBy(s, key) \in Orders(s)
  <2>1. SortedBy(s, key) = CHOOSE t \in Orders(s) : InOrder(t)
    BY DEF SortedBy, InOrder
  <2>. QED
    BY <1>3, <1>4, <2>1
<1>. QED
  BY <1>5 DEF Orders

\* ... so that it has the same elements, and as many.
LEMMA SortedByHas ==
    ASSUME NEW T, NEW s \in Seq(T), NEW key, \A x \in ToSet(s) : key[x] \in Int
    PROVE  /\ SortedBy(s, key) \in Seq(T)
           /\ Len(SortedBy(s, key)) = Len(s)
           /\ ToSet(SortedBy(s, key)) = ToSet(s)
<1>0. PICK n \in Nat : n = Len(s)
  OBVIOUS
<1>1. DOMAIN s = 1 .. n /\ \A i \in 1 .. n : s[i] \in T /\ s[i] \in ToSet(s)
  BY <1>0 DEF ToSet
<1>2. \A i \in 1 .. n : key[s[i]] \in Int
  BY <1>1
<1>3. PICK p \in [1 .. n -> 1 .. n] :
        IsInjective(p) /\ SortedBy(s, key) = [i \in 1 .. n |-> s[p[i]]]
  <2>1. DOMAIN s = 1 .. n
    BY <1>1
  <2>2. \E p \in [1 .. n -> 1 .. n] : Permutes(p, s, n, SortedBy(s, key))
    BY <1>2, <2>1, SortedByIs, Zenon
  <2>. QED
    BY <2>2 DEF Permutes
<1>4. p \in Surjection(1 .. n, 1 .. n)
  <2>1. p \in Injection(1 .. n, 1 .. n)
    BY <1>3 DEF Injection
  <2>2. IsFiniteSet(1 .. n)
    BY FS_Interval
  <2>. QED
    BY <2>1, <2>2, FS_Injection
<1>5. \A j \in 1 .. n : \E i \in 1 .. n : p[i] = j
  BY <1>4 DEF Surjection
<1>6. PICK t : t = SortedBy(s, key)
  OBVIOUS
<1>7. DOMAIN t = 1 .. n /\ \A i \in 1 .. n : t[i] = s[p[i]]
  BY <1>3, <1>6
<1>8. t \in [1 .. n -> T]
  BY <1>1, <1>3, <1>6
<1>9. t \in Seq(T) /\ Len(t) = n
  BY <1>1, <1>8
<1>10. ToSet(t) = ToSet(s)
  <2>1. ToSet(t) = {t[i] : i \in 1 .. n} /\ ToSet(s) = {s[i] : i \in 1 .. n}
    BY <1>1, <1>7 DEF ToSet
  <2>2. \A i \in 1 .. n : t[i] = s[p[i]] /\ p[i] \in 1 .. n
    BY <1>3, <1>7
  <2>3. \A j \in 1 .. n : \E i \in 1 .. n : t[i] = s[j]
    <3>1. ASSUME NEW j \in 1 .. n PROVE \E i \in 1 .. n : t[i] = s[j]
      <4>1. PICK i \in 1 .. n : p[i] = j
        BY <1>5
      <4>2. t[i] = s[j]
        BY <2>2, <4>1
      <4>. QED
        BY <4>2
    <3>. QED
      BY <3>1
  <2>4. ToSet(t) \subseteq ToSet(s)
    BY <2>1, <2>2
  <2>5. ToSet(s) \subseteq ToSet(t)
    BY <2>1, <2>3
  <2>. QED
    BY <2>4, <2>5
<1>. QED
  BY <1>0, <1>6, <1>9, <1>10
=============================================================================
