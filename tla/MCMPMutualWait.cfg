SPECIFICATION FairSpec
CONSTANTS
  Procs = {p1, p2}
  Master = p1
  NoProc = NoProc
  NoName = NoName
  Destroyed = Destroyed
  Headers = {h1}
  NoHeader = NoHeader
  maxProcesses = 2
  Backlog = 5
  Crashing = {}
  Leaving = {}
  Failures = {}
  ForeignThread = {"gone"}
PROPERTIES
  CallReturns
CHECK_DEADLOCK FALSE
