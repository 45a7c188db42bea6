SPECIFICATION Spec
CONSTANTS
  Proc = {p, q}
  MaxTag = 2
  MaxRev = 2
  MaxRuns = 2
  None = None
  Torn = Torn
  Absent = Absent
CHECK_DEADLOCK FALSE
SYMMETRY ProcSymmetry
INVARIANTS TypeOK AnswersHonest
PROPERTIES KeepsGoodCache StoreSpec
