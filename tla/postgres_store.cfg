SPECIFICATION Spec
CONSTANTS
  r1 = r1
  r2 = r2
  r3 = r3
  All = All
  Selectors <- EveryKind
  Nil = Nil
  Requests = {r1, r2, r3}
  Namespaces = {n1, n2}
  Names = {a, b}
  SolutionNames = {x, y}
  Phases = {p}
  MaxFailures = 1
SYMMETRY Symmetry
INVARIANTS TypeOK AnnouncedWhatWasWritten OkIsAnnounced NotifiedInRealTimeOrder
           FailedIsSilent
PROPERTY ImplementsTable
