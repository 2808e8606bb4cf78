SPECIFICATION FairSpec
CONSTANTS
  None = None
  c1 = c1
  c2 = c2
  app = app
  lib = lib
  k1 = k1
  k2 = k2
  n1 = n1
  n2 = n2
  w1 = w1
  w2 = w2
  Clusters = {c1}
  Classes = {k1, k2}
  Namespaces <- MCNamespaces
  NsOf <- InApp
  NameOf <- MCNameOf
  FleetName <- MCNameOf
  ClassNs <- MCClassNs
  ClassesOf <- OneClass
  Mortal = {c1}
  Foreign = {TRUE}
  Watches = {w1}
  Configs <- Various
  Starts <- OnlyFull
  MaxUid = 1
  Kinds <- Disturbances
  Budget = 2
INVARIANTS TypeOK ImportedAtRest
PROPERTIES ImportsInTheEnd
CHECK_DEADLOCK FALSE
