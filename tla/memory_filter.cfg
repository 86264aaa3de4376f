SPECIFICATION Spec
CONSTANTS
  r1 = r1
  r2 = r2
  r3 = r3
  w1 = w1
  Nil = Nil
  All = All
  Requests = {r1, r2}
  Namespaces = {n1, n2}
  Names = {a}
  SolutionNames = {x, y}
  Phases = {p, q}
  Watches = {w1}
  ChanSize = 1
  Selectors <- EveryKind
  Filters <- EveryFilter
SYMMETRY Symmetry
INVARIANTS EventsCommitted AnnouncedOnce
