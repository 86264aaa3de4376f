SPECIFICATION Spec
CONSTANTS
  r1 = r1
  r2 = r2
  r3 = r3
  w1 = w1
  Nil = Nil
  All = All
  Requests = {r1, r2, r3}
  Namespaces = {n1}
  Names = {a}
  SolutionNames = {x}
  Phases = {p}
  Watches = {w1}
  ChanSize = 2
  Selectors <- NoSelector
  Filters <- Everything
SYMMETRY RequestSymmetry
INVARIANT EventsInCommitOrder
