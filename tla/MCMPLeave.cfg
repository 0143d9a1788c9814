SPECIFICATION Spec
CONSTANTS
  Procs = {p1, p2}
  Master = p1
  NoProc = NoProc
  NoName = NoName
  Destroyed = Destroyed
  Headers = {h1}
  NoHeader = NoHeader
  maxProcesses = 2
  Backlog = 5
  Crashing = {p2}
  Leaving = {p1, p2}
  Failures = {"socket", "thread", "mprotect"}
  ForeignThread = {"gone", "own", "hang", "fault"}
INVARIANTS
  MutexGivenBack
  
CHECK_DEADLOCK FALSE
