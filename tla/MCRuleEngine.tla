---------------------------- MODULE MCRuleEngine ----------------------------
(***************************************************************************)
(* Small instances of RuleEngine.  Workers and loaders are interchangeable *)
(* where the safety runs use symmetry.                                     *)
(***************************************************************************)
EXTENDS RuleEngine, TLC

CONSTANTS w1, w2, l1, l2, hot, good, better, wrong, short, absent, none, sample, blank

TwoWorkers == {w1, w2}
OneWorker == {w1}
OneLoader == {l1}
TwoLoaders == {l1, l2}
NoLoader == {}

NoContent == {}
Good == {good}
Better == {better}
BetterOrWrong == {better, wrong}
Wrong == {wrong}
Short == {short}
GoodAndBetter == {good, better}
GoodOrWrong == {good, wrong}
ThreeContents == {good, better, wrong}
AllContents == {good, better, wrong, short}

OneSample == {sample}
SomeSample == {sample, blank}
Blank == {blank}

WorkerSymmetry == Permutations(TwoWorkers)
=============================================================================
