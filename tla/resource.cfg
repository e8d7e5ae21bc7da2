SPECIFICATION Spec
CONSTANTS
  Procs <- Three
  Resources = {r}
  NoProc = NoProc
  Hook = Hook
  NoRes = NoRes
  InitCapacity <- AllTwo
  Capacities = {}
  Requests <- Mixed
  InitPrio <- Rising
  Priorities = {}
  IntrSignals <- Intr
  TimerSignals = {}
  ResumeSignals <- Bare
  Controllers = {1}
  MayStop = {}
  FaultyCalls = FALSE
  StopPassesOn = TRUE
  EPISODE_MAX = 1
  MaxRequests = 2
  MaxTime = 1
INVARIANTS Conservation NeverForgotten CallsAddUp TagsFaithful UsageNeverUnderstated
PROPERTY GrantsAreCurrent
CHECK_DEADLOCK FALSE
