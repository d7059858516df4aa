SPECIFICATION Spec
CONSTANTS
  engine = engine
  hydraulics = hydraulics
  engineA = engineA
  engineB = engineB
  hydraulicsA = hydraulicsA
  MaxArmed = 2
  MaxDelay = 1
  Client = {c1}
  Ref <- MCRef
  Dataref <- MCDataref
  DatarefsOf <- MCDatarefsOf
  Level <- MCLevel
  Request <- MCRequest
INVARIANTS
  TypeOK
  WatchedByExactlyOne
  TimesAreKept
  SettledStaysSettled
