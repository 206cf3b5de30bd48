--------------------------- MODULE MCKafkaStream ---------------------------
(***************************************************************************)
(* Instances of KafkaStream for TLC.  Partitions are model values; offsets *)
(* are small; the sets of special messages are given here.                 *)
(***************************************************************************)
EXTENDS KafkaStreamInv

CONSTANTS p1, p2

M(p, o) == [tp |-> p, offset |-> o]

NoMessages == {}
OneTombstone == {M(p1, 1)}
OnePoison == {M(p1, 1)}
OneSilent == {M(p1, 0)}
LatePoison == {M(p1, 3)}

\* Both workers have a partition; or one has none and waits for nothing.
SplitWorkers == [p \in Partitions |-> IF p = p1 THEN 1 ELSE 2]
OneWorker == [p \in Partitions |-> 1]

\* Two decisions: the first message of a log, and the others.
FirstOrRest == [m \in Msg |-> IF m.offset = 0 THEN "decline" ELSE "approve"]
=============================================================================
