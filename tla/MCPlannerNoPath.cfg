\* A run that gives up although there is a path.
SPECIFICATION FairSpec
CONSTANTS
  Cells <- MCCells
  Base <- MCBase
  Portal <- MCPortal
  Goal <- MCGoal
  Starts <- MCStarts
  Movable <- MCMovable
  ObjectCosts = {0, 2, 60}
  Radius = 1
  UpdateEvery = 2
  MaxLooks = 2
  Unreachable = 60
  Unrecorded = Unrecorded
  Unqueued = Unqueued
INVARIANTS
  NoPathIsTrue
