SPECIFICATION Spec
CONSTANTS
  s = s
  a = a
  b = b
  Main = Main
  Pair = Pair
  Procs = {s, a, b}
  Models = {Main, Pair}
  Owner <- OwnerOf
  Dynamic = {Pair}
  NoProc = NoProc
  Hook = Hook
  Finite = TRUE
  Warmup = 1
  Duration = 1
  Cooldown = 0
  Code <- Lives
  LateSpawns = FALSE
  LateHandles = FALSE
  Delays = {1}
  MaxTime = 3
INVARIANTS NoDangling FreedOnce WindowRecorded NoneOutlivesWindow
PROPERTIES EndsClean ReleasedStaysQuiet
