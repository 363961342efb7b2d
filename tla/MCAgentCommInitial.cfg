\* moveNSteps: of the initial cells the loop walks one less than was asked for.
SPECIFICATION Spec
CONSTANTS
  Callers = {c1}
  RouteLen = 3
  MaxDetours = 1
  MaxCalls = 1
  ReportEvery = 2
  InitialSteps = 2
  InitialSpeeds = {0}
  Speeds = {0, 1}
  StepRequests = {1}
  MeterRequests <- MCMeters
  StepCosts = {1, 3}
  EmptyCost = 2
  Tolerance = 1
INVARIANTS
  InitialCellsAreWalked
