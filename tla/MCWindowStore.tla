--------------------------- MODULE MCWindowStore ---------------------------
(***************************************************************************)
(* Instances of WindowStore for TLC: a card and an amount, three channels  *)
(* of which two share an update group, and a handful of batches.           *)
(***************************************************************************)
EXTENDS WindowStore

Channel(fn, duration) ==
    [entity |-> "card", fn |-> fn, sum |-> IF fn = "COUNT" THEN Null ELSE "amount",
     denom |-> IF fn = "RATIO" THEN "limit" ELSE Null, duration |-> duration]

SumsAndMax == {Channel("SUM", 2), Channel("SUM", 3), Channel("MAX", 2)}
CountsAndRatios == {Channel("COUNT", 2), Channel("AVG", 3), Channel("RATIO", 2), Channel("MIN", 3)}
AllFunctions == SumsAndMax \cup CountsAndRatios

Row(card, amount, limit) == [card |-> card, amount |-> amount, limit |-> limit]

\* Two rows of one entity; two entities; a null cell of each kind.
SmallBatches == {
    <<Row(0, 1, 0), Row(0, 3, 2)>>,
    <<Row(1, 2, 2), Row(0, 1, 1)>>,
    <<Row(0, Null, Null), Row(-1, 3, 1), Row(Null, 3, 1)>>}
=============================================================================
