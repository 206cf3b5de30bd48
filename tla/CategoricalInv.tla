--------------------------- MODULE CategoricalInv ---------------------------
(***************************************************************************)
(* The inductive invariant of Categorical: the codes of the closed values  *)
(* and those of the dictionary never contradict each other, and the slots  *)
(* and verdicts of the last batch are what these codes make of it.         *)
(***************************************************************************)
EXTENDS Categorical

\* get_or_create gives no further codes.
Full(f, d) == Kind[f] = "CATEGORICAL" /\ Len(d) >= Capacity

\* The dictionary begins with the closed values, as far as there was room for them.
Coherent(f, c, d) ==
    /\ \A i \in DOMAIN c \cap DOMAIN d : c[i] = d[i]
    /\ Len(c) <= Len(d) \/ Full(f, d)

\* Sequences in which a text has one code.
Distinct(T) == {s \in Seq(T) : IsInjective(s)}

ColumnsCoherent ==
    /\ nullable \in [Fields -> BOOLEAN]
    /\ closed \in [Fields -> Distinct(Texts)]
    /\ dict \in [Fields -> Distinct(Texts \cup {EmptyText})]
    /\ \A f \in Fields : Coherent(f, closed[f], dict[f])

\* A slot keeps its cell: a null is not valid, a mask has the codes of the closed
\* values of the cell, and any other slot the code of the text.  Only in a
\* dictionary array a text may be lost.
Encodes(lane, c, d, cell, slot) ==
    /\ cell = Null => ~slot.valid
    /\ (cell # Null /\ lane = "bits") =>
          slot.valid /\ slot.bits = {CodeIn(c, v) : v \in ToSet(cell.items)} \ {-1}
    /\ (cell # Null /\ lane # "bits") =>
          \E v \in Texts :
              /\ cell = Text(v)
              /\ slot.valid => slot.code = CodeIn(IF lane = "codes" THEN c ELSE d, v)
              /\ slot.valid \/ (lane = "dictionary" /\ v \notin ToSet(d))

\* A mask of a field that is not nullable may stand for a null; it is empty.
LanesAndSlots ==
    /\ DOMAIN last.cells = DOMAIN last.rows
    /\ last.lane \in [Fields -> {"texts", "codes", "bits", "dictionary"}]
    /\ \A i \in DOMAIN last.rows, f \in Fields :
          LET slot == last.cells[i][f]
          IN /\ last.lane[f] = "bits" => Len(closed[f]) < BitWidth
             /\ slot.bits # {} => last.lane[f] = "bits" /\ last.rows[i][f] # Null
             /\ slot.bits \subseteq {CodeIn(closed[f], v) : v \in ToSet(last.rows[i][f].items)} \ {-1}
             /\ Fits(f, last.rows[i]) =>
                    Encodes(last.lane[f], closed[f], dict[f], last.rows[i][f], slot)

\* The verdicts are those of the codes that the dictionary has now.
VerdictsOfCodes ==
    \A k \in DOMAIN Predicates, i \in DOMAIN last.rows :
        \E noise \in SUBSET DOMAIN last.rows :
            Verdict(k, i) <=> Matches(Predicates[k], dict, last.lane, last.cells, i, noise)

\* Before the binding no text has a code.
UnboundEmpty == ~bound => \A f \in Fields : dict[f] = <<>>

CodesInv == TypeOK /\ ColumnsCoherent /\ UnboundEmpty /\ LanesAndSlots /\ VerdictsOfCodes

\* A list of CONTAINS_ALL is not empty and has no value twice.
ListedOnce ==
    \A rs \in Rulesets : \A k \in DOMAIN rs.predicates :
        LET p == rs.predicates[k]
        IN p.op = "CONTAINS_ALL" => p.values # <<>> /\ IsInjective(p.values)
=============================================================================
