SPECIFICATION Spec
CONSTANTS
  s1 = s1
  s2 = s2
  r1 = r1
  Nobody = Nobody
  Station = {s1, s2}
  Reader = {r1}
  Home <- MCHome
  MaxKey = 2
  MaxGen = 3
  MaxAsk = 3
INVARIANTS
  TypeOK
  LockHolderBuilds
  StatusIsHonest
PROPERTIES
  FilesAreKept
  NoRepeatedBuild
