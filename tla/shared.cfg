SPECIFICATION Spec
CONSTANTS
  Mro <- MCMro
  Annotated <- MCAnnotated
  Methods <- MCMethods
  Enums <- MCEnums
  Int64 = {0, 1}
  Reserved = {"attached", "describe"}
  Default <- MCDefault
  Attach <- MCAttach
  Worlds <- SharedWorlds
  Templates <- MCTemplates
  Root = 6
  Edited = {"desk", "rows", "watch", "pick", "inner"}
  Axes = {1}
  Header = 64
  MaxObjects = 15
  MaxEdits = 2
  MaxBuilds = 2
INVARIANTS ObservesItsOwn
CHECK_DEADLOCK FALSE
