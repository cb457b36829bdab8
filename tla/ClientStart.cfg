SPECIFICATION Spec
CONSTANTS
  NFallbacks = 3
  MaxHost = 2
  MaxConn = 2
  None = None
  FlagLists <- MCFlagLists
  FailureCounts <- MCFailureCounts
  ConnCounts = {0, 1, 2, 3}
  Hosts <- MCHosts
  Ports = {80, 65616}
INVARIANTS
  TypeOK
  ConfigFits
  CombosDistinct
  FlagsAsConfigured
  DialsTarget
  ProbeLeavesNothing
  TunnelMatchesCycler
  NoWorkingComboSkipped
CHECK_DEADLOCK FALSE
