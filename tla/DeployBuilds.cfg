SPECIFICATION FairSpec
CONSTANTS
  Controllers = {c1, c2}
  Pods = {p1, p2, p3}
  Replicas = 1
  Builds = 2
  Budgets <- FaultsOrRestarts
INVARIANTS TypeOK OffOnlyWhilePaused RolloutIsTheBuilds TopicEnsured
PROPERTIES DeploymentServes
