SPECIFICATION Spec
CONSTANTS
  i1 = i1
  i2 = i2
  i3 = i3
  c1 = c1
  c2 = c2
  NoId = NoId
  Nobody = Nobody
  Id = {i1, i2}
  Client = {c1, c2}
  MaxEntities = 1
  MaxRun = 2
  MaxSeq = 2
  Faults <- MCFaults
SYMMETRY Symmetry
INVARIANTS
  TypeOK
  CommandsAreAnswered
PROPERTY GoneForGood
