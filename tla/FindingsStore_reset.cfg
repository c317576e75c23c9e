SPECIFICATION Spec
CONSTANTS
  f1 = f1
  f2 = f2
  h1 = h1
  F = {f1, f2}
  Handlers = {h1}
  MaxBugs = 2
  NoFinding = NoFinding
SYMMETRY Symmetry
PROPERTY ResetMeansNew
