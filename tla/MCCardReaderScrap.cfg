SPECIFICATION Spec
CONSTANTS
  Targets <- MCGenerated
  PacmanTargets <- MCGenerated
  MpdTargets <- NoTargets
  Confs <- MCConfs
  DefaultConf <- MCDefaultConf
  MaxRefs = 1
INVARIANTS
  ConfTakesEffect
CHECK_DEADLOCK FALSE
