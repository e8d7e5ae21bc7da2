SPECIFICATION Spec
CONSTANTS
  Procs <- Three
  Resources = {r}
  NoProc = NoProc
  Hook = Hook
  NoRes = NoRes
  InitCapacity <- AllOne
  Capacities = {0, 2}
  Requests <- UnitCalls
  InitPrio <- Equal
  Priorities = {}
  IntrSignals = {}
  TimerSignals <- Late
  ResumeSignals = {}
  Controllers = {1}
  MayStop = {}
  FaultyCalls = FALSE
  StopPassesOn = TRUE
  EPISODE_MAX = 2
  MaxRequests = 2
  MaxTime = 1
INVARIANTS TypeOK NoStranded
PROPERTY NeverOversold
CHECK_DEADLOCK FALSE
