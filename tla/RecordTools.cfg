SPECIFICATION Spec
CONSTANTS
  Tasks = {t1, t2}
  NoTask = NoTask
  Ids = {0, 1}
  Data <- SmallData
  NoRow = NoRow
  Names = {n1, n2}
  Free = {f1}
  NoName = NoName
  Fresh = Fresh
  MaxSize = 1
INVARIANTS TypeOK FailureChangesNothing SuccessIsAboutItsTarget
PROPERTY CallsEnd
CHECK_DEADLOCK FALSE
