SPECIFICATION FairSpec
CONSTANTS
  volume = 4
  Preimages <- All4
  Z <- Z4
  Memory = {2, 3}
  MaxStops = 1
  MaxCrashes = 1
PROPERTY PlotEnds
