SPECIFICATION Spec
CONSTANTS
  Tasks = {t1, t2}
  Ids = {i1, i2}
  NoId = NoId
INVARIANTS TypeOK RolelessIsUnfinished OrphansComeLate AnswersHold
CHECK_DEADLOCK FALSE
SYMMETRY Symmetry
