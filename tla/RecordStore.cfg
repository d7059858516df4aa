SPECIFICATION Spec
CONSTANTS
  p1 = p1
  p2 = p2
  c1 = c1
  c2 = c2
  b1 = b1
  t1 = t1
  t2 = t2
  t3 = t3
  Profile = {p1}
  Position = {c1, c2}
  Body = {b1}
  Thread = {t1, t2}
  MaxClock = 2
  Faults = TRUE
SYMMETRY MCSymmetry
INVARIANTS
  TypeOK
  ReadersSeeWholeRecords
  ErrorsHaveACause
PROPERTY
  UpdatesStayInPlace
