SPECIFICATION Spec
CONSTANTS
  Files = {f1}
  Signatures = {s1}
  NoSignature = none
  MaxIterations = 2
  Extension = 1
  MaxMisses = 2
  MaxFatal = 2
  MaxHandoffs = 1
  CompactFrom = 1
  CompactEvery = 1
  PreserveRecent = 1
  MaxCalls = 2
  MaxResumes = 1
INVARIANTS
  NoOrphanResults
  CheckpointKeepsResults
  
  DelegationChallenged
PROPERTY LoopAdvances
