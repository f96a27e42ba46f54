CONSTANTS
  t1 = t1  t2 = t2  t3 = t3  obj1 = obj1  obj2 = obj2
  auto = auto  manual = manual  Nobody = Nobody
  Thread = {t1, t2, t3}
  Joinable = {t1, t2, t3}
  Object = {obj1}
  Handle = {}
  AutoReset = {}
  WaitList <- NoWaits
  MaxDepth = 1
  MaxRequests = 2
SPECIFICATION Spec
INVARIANTS CountsAgree MutualExclusion
SYMMETRY ThreadSymmetry
CHECK_DEADLOCK FALSE
