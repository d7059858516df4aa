SPECIFICATION Spec
CONSTANTS
  c1 = c1
  c2 = c2
  Clients <- MCClients
  Index <- MCIndex
  RunwayEnds <- MCRunwayEnds
  Stands <- MCStands
  FixTable <- MCFixTable
  HoldTable <- MCHoldTable
  Airfields <- MCAirfields
  LimitsTable <- MCLimitsTable
  WindLevels = 3
  CloudSlots = 3
  Slots = {1, 2, 3}
  Setups <- MCSetups
  Previews <- MCPreviews
  Starts <- MCStarts
  FirstSim <- MCFirstSim
  MaxAsk = 2
  MaxFaults = 1
SYMMETRY Symmetry
INVARIANTS
  SetupTypeOK
  PlacementsAreSound
  ProceduresAreTheRecords
  AppliedIsWritten
  WeatherIsConsistent
  RefusedWritesNothing
CHECK_DEADLOCK FALSE
