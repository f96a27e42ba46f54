CONSTANTS
  t1 = t1  t2 = t2  t3 = t3  Nobody = Nobody
  SystemHighest = 1
  Thread = {t1, t2, t3}
  System = {t3}
  Priority = {0, 1}
  Managed = {0, 1}
  Debit <- PowersOfTwo
  MaxDebit = 2
  Credit = 3
  Maximum = 6
  Adjustment = 3
  MaxSwitches = 1
  Limit = 11
SPECIFICATION Spec
INVARIANTS TypeOK NoOverflow NotLeftBehind
PROPERTY ReadyRunsUnlessWoken
CHECK_DEADLOCK FALSE
