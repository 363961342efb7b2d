\* MoveFMeters(0) leaves movementMu locked: the next command blocks the run for good.
SPECIFICATION FairSpec
CONSTANTS
  Callers = {c1, c2, c3}
  RouteLen = 2
  MaxDetours = 0
  MaxCalls = 2
  ReportEvery = 2
  InitialSteps = 0
  InitialSpeeds = {0}
  Speeds = {0, 1}
  StepRequests = {1}
  MeterRequests = {0}
  StepCosts = {1, 3}
  EmptyCost = 2
  Tolerance = 1
PROPERTIES
  CancelledRunEnds
