SPECIFICATION Spec
CONSTANTS
  full = full
  parked = parked
  trafficOnly = trafficOnly
  f1 = f1
  f2 = f2
  f3 = f3
  None = None
  Document = {full, parked, trafficOnly}
  Body <- MCBody
  Failure = {f1, f2, f3}
  Supported = {f1, f2}
  Flags <- AllFlags
  Client = {c1}
  MaxStarts = 3
  MaxMeddling = 1
INVARIANTS
  TypeOK
  ReportIsTrue
  StatusFollowsTask
PROPERTIES
  RunIsNotReplaced
  EveryRunFinishes
CHECK_DEADLOCK FALSE
