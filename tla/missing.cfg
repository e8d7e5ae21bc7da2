SPECIFICATION Spec
CONSTANTS
  Mro <- MCMro
  Annotated <- MCAnnotated
  Methods <- MCMethods
  Enums <- MCEnums
  Int64 = {0, 1}
  Reserved = {"attached", "describe"}
  Trees <- LooseTrees
  Spawned = {"Leaf", "Part"}
  ArrayDefault <- MCDefault
  Lengths <- MCLengths
  MaxSpawns = 1
  StoreSize = 1
CHECK_DEADLOCK FALSE
INVARIANT MissingAbandons
