SPECIFICATION FairSpec
CONSTANTS
  QueuedThreshold = 2
  FailedThreshold = 2
  MinReplicas = 1
  MaxReplicas = 3
  ScaleStep = 1
  NoCount = NoCount
  Cooldown = 1
  BacklogRange <- LiveBacklog
  FailedRange <- LiveFailed
  MaxCrashes = 1
PROPERTIES BacklogScalesOut NoBacklogScalesIn FailuresRestart
