SPECIFICATION Spec
CONSTANTS
  r1 = r1
  r2 = r2
  r3 = r3
  All = All
  Selectors <- EveryKind
  Nil = Nil
  Requests = {r1, r2, r3}
  Namespaces = {n1}
  Names = {a}
  SolutionNames = {x, y}
  Phases = {p}
  MaxFailures = 0
SYMMETRY RequestSymmetry
PROPERTY VersionsIncrease
