SPECIFICATION Spec
CONSTANTS
  FrontendTypes = {"pacman", "wib"}
  MaxProducers = 2
  Confs <- MCConfs
  DefaultConf <- MCDefaultConf
INVARIANTS
  TypeOK
  SourceHasHandlers
  AppFollowsRunControl
  OnlyTpRequestsAreShared
CHECK_DEADLOCK FALSE
