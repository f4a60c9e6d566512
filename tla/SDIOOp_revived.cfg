SPECIFICATION Spec
CONSTANTS
  QUEUE_LENGTH = 3
  Kinds = {"read"}
  BgKinds = {"busy"}
  MaxBlocks = 1
  MaxAborts = 1
PROPERTIES
  AbortAlwaysDiscovered
