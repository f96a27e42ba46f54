CONSTANTS
  edge = edge  level = level  NoPort = NoPort
  Port = {edge, level}
  LevelPort = {level}
  QueueSize = 2
  MaxRaised = 4
  MaxFaults = 1
  OverflowWhileCopying = TRUE
  InterruptWhileDisposing = FALSE
  CollectWhileWaiting = FALSE
SPECIFICATION Spec
INVARIANTS InOrder
CHECK_DEADLOCK FALSE
