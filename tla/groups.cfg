SPECIFICATION FairSpec
CONSTANTS
  None = None
  home = home
  app = app
  v1 = v1
  v2 = v2
  Home = home
  Abroad = {app}
  Labels = {v1, v2}
  Configs <- AllConfigs
  Starts <- NearOrFar
  MaxUid = 2
  Kinds <- AnyDisturbance
INVARIANTS TypeOK AppliedWhileHeld LegacyAtRest
PROPERTIES OthersKept NeverOrphaned InheritedAtRest HomeLabelled LegacyGoes
           ClassDeletionCompletes
CHECK_DEADLOCK FALSE
