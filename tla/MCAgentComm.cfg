\* One run: two callers, two commands, an initial request, routes of up to three cells and a detour.
SPECIFICATION FairSpec
CONSTANTS
  Callers = {c1, c2}
  RouteLen = 3
  MaxDetours = 1
  MaxCalls = 2
  ReportEvery = 2
  InitialSteps = 2
  InitialSpeeds = {0}
  Speeds = {0, 1}
  StepRequests = {2}
  MeterRequests <- MCMeters
  StepCosts = {1, 3}
  EmptyCost = 2
  Tolerance = 1
INVARIANTS
  ReadyMeansServed
  MetersRendezvous
  NilMeansArrived
  StopCoastsOneStep
PROPERTIES
  AnswerIsAccurate
  ImplementsRun
  CancelledRunEnds
  CallsReturn
