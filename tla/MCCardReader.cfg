SPECIFICATION Spec
CONSTANTS
  Targets <- MCTargets
  PacmanTargets <- MCPacmanTargets
  MpdTargets <- MCMpdTargets
  Confs <- MCConfs
  DefaultConf <- MCDefaultConf
  MaxRefs = 3
INVARIANTS
  TypeOK
  LinkFollowsRunControl
  KnownQueuesGetALink
CHECK_DEADLOCK FALSE
