SPECIFICATION Spec
CONSTANTS
  Procs <- Three
  Resources = {r}
  NoProc = NoProc
  Hook = Hook
  NoRes = NoRes
  InitCapacity <- AllTwo
  Capacities = {}
  Requests <- AmountCalls
  InitPrio <- Equal
  Priorities = {}
  IntrSignals = {}
  TimerSignals <- Late
  ResumeSignals = {}
  Controllers = {}
  MayStop = {}
  FaultyCalls = FALSE
  StopPassesOn = TRUE
  EPISODE_MAX = 2
  MaxRequests = 3
  MaxTime = 1
INVARIANT NoStranded
CHECK_DEADLOCK FALSE
