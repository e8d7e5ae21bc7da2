SPECIFICATION Spec
CONSTANTS
  Mro <- MCMro
  Annotated <- MCAnnotated
  Methods <- MCMethods
  Enums <- MCEnums
  Int64 = {0, 1}
  Reserved = {"attached", "describe"}
  Trees <- MCTrees
  Spawned = {"Leaf", "Part"}
  ArrayDefault <- MCDefault
  Lengths <- MCLengths
  MaxSpawns = 1
  StoreSize = 1
INVARIANTS ViewsSound HeapSound DispatchSound KindsMatch ArraysSafe
CHECK_DEADLOCK FALSE
