CONSTANTS
  Images = {i1}
  Contexts = {c1}
  PageContexts = {}
  Workers = {w1, w2}
  Editors = {e1}
  Lines = {l1}
  MaxAttempts = 2
  MaxActive = 1
  MaxTerminal = 1
  LeaseTime = 1
  MaxJobs = 2
  MaxRevision = 3
SPECIFICATION Spec
SYMMETRY WorkerSymmetry
INVARIANTS
  TypeOK AttemptsMatchJob
  TerminalJobsHoldNothing OneOwnerPerJob  NoLostUpdate CommitIsAtomic
  LinesHold
PROPERTIES HistoryIsImmutable
