SPECIFICATION FairSpec
CONSTANTS CPU = {c1, c2} InterruptedCPU = {c1} ReturnSetsEvent = TRUE FgOps = {"write", "sleep", "try", "read"}
INVARIANTS RestoresCallersIRQState HolderSeesLatestData NoLostWakeup
PROPERTIES  KeepsPromise
