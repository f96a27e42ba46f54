CONSTANTS
  t1 = t1  t2 = t2  t3 = t3  obj1 = obj1  obj2 = obj2
  auto = auto  manual = manual  Nobody = Nobody
  Thread = {t1, t2, t3}
  Joinable = {t1, t2, t3}
  Object = {}
  Handle = {auto, manual}
  AutoReset = {auto}
  WaitList <- BothEvents
  MaxDepth = 1
  MaxRequests = 1
SPECIFICATION Spec
INVARIANTS ListsAgree NoMissedSignal
PROPERTY ReleasedOnce
SYMMETRY ThreadSymmetry
CHECK_DEADLOCK FALSE
