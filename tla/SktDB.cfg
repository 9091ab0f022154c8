SPECIFICATION FairSpec
CONSTANTS
  volume = 6
  Preimages <- Some6
  Z <- Z6
  Memory = {2, 3}
  MaxStops = 2
  MaxCrashes = 2
INVARIANT TypeOK
 
PROPERTIES SourceKept PlotFinishes
