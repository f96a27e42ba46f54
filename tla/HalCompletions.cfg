SPECIFICATION Spec
CONSTANTS
  c1 = c1
  c2 = c2
  NoCompletion = NoCompletion
  Completion = {c1, c2}
  RunInISR = {c1}
  Period = {1, 2}
  MaxNow = 2
  Idle = 4
  MaxCount = 1
PROPERTIES   WaitReturns EventWakes
INVARIANTS TypeOK QueueOrdered 
CHECK_DEADLOCK FALSE

