\* Two floors, two exits, objects that come, move and go three times.
SPECIFICATION FairSpec
CONSTANTS
  Cells <- MCCells
  Base <- MCBase
  Portal <- MCPortal
  FakeGoal <- MCFakeGoal
  Exits <- MCExits
  Lights <- MCLights
  Hysteresis = 3
  Movable <- MCMovable
  Sights <- MCSights
  MaxLooks = 4
  Unreachable = 40
  Unrecorded = Unrecorded
  Unqueued = Unqueued
INVARIANTS
  FlowIsDistance
  LightsNearChangesFollow
PROPERTIES
  RoundsEnd
