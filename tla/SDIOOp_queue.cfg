SPECIFICATION FairSpec
CONSTANTS
  QUEUE_LENGTH = 3
  Kinds = {"read"}
  BgKinds = {"busy"}
  MaxBlocks = 2
  MaxAborts = 1
PROPERTIES
  AnsweredOnceUnlessRaced
  CleanHandover
  AbortedNeverGoesOn
  ForegroundGetsAnswer
