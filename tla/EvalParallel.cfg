SPECIFICATION Spec
CONSTANTS
  p1 = p1
  p2 = p2
  p3 = p3
  Predicates = {p1, p2, p3}
  Cost <- PredicateCost
  Rulesets <- FlatRulesets
  NumRows = 3
  MorselRows = 2
  Workers = {w1, w2}
  SelectionVectors = TRUE
  SelectionPercent = 50
  AdaptiveOrder = TRUE
INVARIANTS MasksAreMeanings WinnerIsHighest CountsAgree
