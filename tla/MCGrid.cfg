\* A corridor, plain or at the margin of a wall, a run and emergencies.
SPECIFICATION Spec
CONSTANTS
  Cells = {margin, wall}
  Agents = {a}
  Global = Global
  Walls = {wall}
  EmptySpace = 2
  Unreachable = 9
  ObjectCosts = {0, 3, 9}
  Masks <- MCMasks
  Unrecorded = Unrecorded
INVARIANTS
  TypeOK
  NoChangeIsLost
  ReplayedCostWasUsed
  GlobalFinalIsSum
  ClosedByObjectsOnly
  ResetLeavesNoDiscount
