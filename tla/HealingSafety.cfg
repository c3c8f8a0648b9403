SPECIFICATION Spec
CONSTANTS
  QueuedThreshold = 1
  FailedThreshold = 2
  MinReplicas = 1
  MaxReplicas = 3
  ScaleStep = 1
  NoCount = NoCount
  Cooldown = 2
  BacklogRange <- MCBacklog
  FailedRange <- MCFailed
  MaxCrashes = 1
INVARIANTS TypeOK ReplicasInRange OneDirection RestartsSpaced RestartsNeedNews
