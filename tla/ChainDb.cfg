SPECIFICATION Spec
CONSTANTS
  g = g
  a1 = a1
  a2 = a2
  b1 = b1
  b2 = b2
  Blocks <- Two
  Genesis = g
  Parent <- ParentTwo
  Size <- SizeTwo
  MaxBlockFileSize = 5
  Scenarios <- Tolerated
  MaxWrites = 6
INVARIANT TypeOK
 
 
INVARIANT Reopenable
