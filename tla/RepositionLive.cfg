SPECIFICATION FairSpec
CONSTANTS
  c1 = c1
  c2 = c2
  home = home
  away = away
  Client <- MCClient
  Place <- MCPlace
  Home = home
  Elsewhere = Elsewhere
  Decayed = Decayed
  Wrong = Wrong
  MaxWrites = 2
  StableSamples = 1
  MaxShift = 0
  MaxFaults = 0
  Faults = {"deadline"}
PROPERTIES EveryRequestReturns
