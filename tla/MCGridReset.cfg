\* A base that ResetBase does not restore to that of the map.
SPECIFICATION Spec
CONSTANTS
  Cells = {margin, wall}
  Agents = {a}
  Global = Global
  Walls = {wall}
  EmptySpace = 2
  Unreachable = 9
  ObjectCosts = {0, 3, 9}
  Masks <- MCMasks
  Unrecorded = Unrecorded
INVARIANTS
  ResetRestoresBase
