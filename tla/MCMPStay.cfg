SPECIFICATION Spec
CONSTANTS
  Procs = {p1, p2, p3}
  Master = p1
  NoProc = NoProc
  NoName = NoName
  Destroyed = Destroyed
  Headers = {h1}
  NoHeader = NoHeader
  maxProcesses = 3
  Backlog = 5
  Crashing = {}
  Leaving = {}
  Failures = {}
  ForeignThread = {"own", "hang"}
SYMMETRY Children
INVARIANTS
  TypeOK
  MutexGivenBack
  
  AnswerMeansDone
  OneEntryEach

  
CHECK_DEADLOCK FALSE
