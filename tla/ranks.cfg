SPECIFICATION Spec
CONSTANTS
  Procs <- Three
  Resources = {r}
  NoProc = NoProc
  Hook = Hook
  NoRes = NoRes
  InitCapacity <- AllOne
  Capacities = {}
  Requests <- RankedCalls
  InitPrio <- Rising
  Priorities = {0, 3}
  IntrSignals = {}
  TimerSignals = {}
  ResumeSignals = {}
  Controllers = {Hook}
  MayStop = {1, 3}
  FaultyCalls = TRUE
  StopPassesOn = TRUE
  EPISODE_MAX = 2
  MaxRequests = 3
  MaxTime = 1
INVARIANTS QueueFaithful NothingOutlives
PROPERTY OnlyLowerEvicted
CHECK_DEADLOCK FALSE
