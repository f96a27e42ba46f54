CONSTANTS
  t1 = t1  t2 = t2  t3 = t3  obj1 = obj1  obj2 = obj2
  auto = auto  manual = manual  Nobody = Nobody
  Thread = {t1, t2}
  Joinable = {t1, t2}
  Object = {obj1, obj2}
  Handle = {auto}
  AutoReset = {auto}
  WaitList <- AutoAndJoin
  MaxDepth = 2
  MaxRequests = 2
SPECIFICATION Spec
INVARIANTS TypeOK StillAwaited MutualExclusion WaitSatisfied
PROPERTY StaysTerminated
SYMMETRY ObjectSymmetry
CHECK_DEADLOCK FALSE
