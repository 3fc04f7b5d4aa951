SPECIFICATION FairSpec
CONSTANTS
  Priority <- MCPriority
  HostsOf <- MCHostsOf
  IsIP = FALSE
  ReportsErrors = TRUE
  MaxSessions = 2
INVARIANTS PreferredFirst
PROPERTIES DiscardsCurrent CycleEnds
CHECK_DEADLOCK FALSE
