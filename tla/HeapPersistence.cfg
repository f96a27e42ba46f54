SPECIFICATION Spec
CONSTANTS
  o1 = o1
  o2 = o2
  v1 = v1
  NoValue = NoValue
  NoObject = NoObject
  Object = {o1, o2}
  Value = {v1}
  Bursts <- MCBursts
  Cells = 6
  SafeCells = 4
  BlockCells = 6
  InitialPriority <- DistinctPriority
  Priority = {}
  MaxFaults = 1
  LossWhileCopying = FALSE
INVARIANTS TypeOK TargetsAgree
PROPERTIES ImplementsSurviving 
