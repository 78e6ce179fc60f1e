SPECIFICATION Spec
CONSTANTS
  Tasks = {t1, t2}
  Jtis = {j1, j2}
  NoJti = NoJti
  Lives = {2}
  Life = 1
  MaxTime = 1
INVARIANTS RevokedStaysInvalid LogoutIsComplete ValidIsListed
SYMMETRY Symmetry
CHECK_DEADLOCK FALSE
