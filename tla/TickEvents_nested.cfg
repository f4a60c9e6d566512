SPECIFICATION FairSpec
CONSTANTS
  Node = {n1, n2, n3}
  Key = {TRUE, FALSE}
  key <- TwoKeys
  MaxDelay = 2
  MaxDepth = 2
  Naughty = TRUE
INVARIANTS
  TypeOK
  NeverEarly
  NothingDueWaits
PROPERTIES
  KeepsTime
  CalledInTheEnd
