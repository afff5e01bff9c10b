CONSTANTS
  Images = {i1}
  Contexts = {c1}
  PageContexts = {}
  Workers = {w1}
  Editors = {}
  Lines = {l1}
  MaxAttempts = 1
  MaxActive = 1
  MaxTerminal = 1
  LeaseTime = 1
  MaxJobs = 1
  MaxRevision = 1
SPECIFICATION Spec
INVARIANTS TerminalDiscardsAnnotationJSON
CHECK_DEADLOCK FALSE
