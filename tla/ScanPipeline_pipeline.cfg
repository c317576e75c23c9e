SPECIFICATION Spec
CONSTANTS
  p = p
  k = k
  r1 = r1
  F = {p, k}
  Kind <- MCKind
  CategoryWeight <- MCCategoryWeight
  Runners = {r1}
  Modes = {"ui", "sched", "cli", "uiDeep", "schedDeep", "uiAll"}
  Cap = 1
  DeepCap = 2
  SchedDeepCap = 1
INVARIANT TypeOK
INVARIANT NothingForgotten
INVARIANT PlansAgree
PROPERTY SureAnswersStand
