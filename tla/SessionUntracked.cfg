SPECIFICATION Spec
CONSTANTS
  Tasks = {t1, t2}
  Jtis = {j1, j2}
  NoJti = NoJti
  Lives = {2}
  Life = 2
  MaxTime = 1
INVARIANT IssuedIsTracked
CHECK_DEADLOCK FALSE
