SPECIFICATION Spec
CONSTANTS
  U = 2
  Dimensions <- TwoDimensions
  Exp <- Exponential
  Log <- Logarithm
  Fields = {"size", "reorder", "rate", "cost"}
  RootOf <- DecisionRoots
  Map <- Below
  DecisionOf <- FieldDecisions
  Fixed <- Plain
  Proposals <- Vectors
  Population = 2
  MaxIter = 1
  Reps = 2
  Evaluation <- Outcomes
  Direction = 1
  Infinite = 9
  Budgets <- SomeBudgets
  NoBudget <- None
  Policies = {"reject", "ignore", "raise"}
  FinalistCounts = {2}
  Decided = 0
  Assigned = {"size", "reorder", "rate"}
  Edits = {7}
  MaxCalls = 2
  MaxRuns = 1
INVARIANTS PaidOnce AnswerHolds ExplicitMeansSame ExperimentFaithful ModelRestored
PROPERTIES CallsEnd KeepsBooks
CHECK_DEADLOCK FALSE

