CONSTANTS
  Images = {i1, i2, i3}
  Contexts = {c1, c2}
  PageContexts = {}
  Workers = {w1}
  Editors = {}
  Lines = {}
  MaxAttempts = 1
  MaxActive = 2
  MaxTerminal = 1
  LeaseTime = 1
  MaxJobs = 4
  MaxRevision = 1
SPECIFICATION Spec
SYMMETRY ImageSymmetry
INVARIANTS OneActiveJobPerImage HistoryBounded
PROPERTIES ImplementsService
CHECK_DEADLOCK FALSE
