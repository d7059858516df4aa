SPECIFICATION LiveSpec
CONSTANTS
  engine = engine
  hydraulics = hydraulics
  engineA = engineA
  engineB = engineB
  hydraulicsA = hydraulicsA
  MaxArmed = 2
  MaxDelay = 1
  Client = {c1}
  Ref <- MCRef
  Dataref <- OneDataref
  DatarefsOf <- OneDatarefOf
  Level <- MCLevel
  Request <- MCRequest
PROPERTIES KeepsPromise DelayedFires
