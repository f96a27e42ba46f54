CONSTANTS
  edge = edge  level = level  NoPort = NoPort
  Port = {edge, level}
  LevelPort = {level}
  QueueSize = 2
  MaxRaised = 4
  MaxFaults = 1
  OverflowWhileCopying = FALSE
  InterruptWhileDisposing = FALSE
  CollectWhileWaiting = FALSE
SPECIFICATION FairSpec
INVARIANTS TypeOK 
PROPERTIES ImplementsQueue Dispatched
CHECK_DEADLOCK FALSE
