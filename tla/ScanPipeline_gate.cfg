SPECIFICATION Spec
CONSTANTS
  p = p
  k = k
  r1 = r1
  F = {p, k}
  Kind <- MCKind
  CategoryWeight <- MCCategoryWeight
  Runners = {r1}
  Modes = {"ui", "sched", "cli", "uiDeep", "schedDeep", "uiAll"}
  Cap = 2
  DeepCap = 2
  SchedDeepCap = 2
PROPERTY PatternsAlways
