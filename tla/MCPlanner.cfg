\* Two floors, objects that come, move and go, at most three times in a run.
SPECIFICATION FairSpec
CONSTANTS
  Cells <- MCCells
  Base <- MCBase
  Portal <- MCPortal
  Goal <- MCGoal
  Starts <- MCStarts
  Movable <- MCMovable
  ObjectCosts = {0, 2, 60}
  Radius = 1
  UpdateEvery = 2
  MaxLooks = 3
  Unreachable = 60
  Unrecorded = Unrecorded
  Unqueued = Unqueued
INVARIANTS
  EstimatesAreCurrent
  AnswersAreTrue
PROPERTIES
  StepsAreOptimal
  PlanningEnds
