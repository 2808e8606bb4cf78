SPECIFICATION FairSpec
CONSTANTS
  None = None
  home = home
  app = app
  v1 = v1
  v2 = v2
  Home = home
  Abroad = {app}
  Labels = {v1, v2}
  Configs <- AllConfigs
  Starts <- OnlyFar
  MaxUid = 1
  Kinds <- Relabelling
PROPERTIES AbroadLabelled
CHECK_DEADLOCK FALSE
