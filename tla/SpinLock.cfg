SPECIFICATION FairSpec
CONSTANTS CPU = {c1, c2} DataVersions = 3
INVARIANTS MutualExclusion NoReentry RestoresCallersIRQState HolderSeesLatestData NoLostWakeup
PROPERTIES SomebodyGetsIn KeepsPromise
