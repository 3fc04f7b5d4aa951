SPECIFICATION Spec
CONSTANTS
  NumCampaigns = 1
  Configs <- AllConfigs
  MaxSlaves = 2
  ResendEvery = 2
  MaxForks = 4
  MaxChanges = 1
INVARIANTS TypeOK OneProcessPerSlave NoStaleEntry
PROPERTIES CampaignsLife
CHECK_DEADLOCK FALSE
