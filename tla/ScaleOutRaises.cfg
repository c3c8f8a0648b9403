SPECIFICATION Spec
CONSTANTS
  QueuedThreshold = 2
  FailedThreshold = 2
  MinReplicas = 1
  MaxReplicas = 4
  ScaleStep = 1
  NoCount = NoCount
  Cooldown = 2
  BacklogRange <- SlightBacklog
  FailedRange <- LiveFailed
  MaxCrashes = 1
PROPERTIES ScaleOutRaises
