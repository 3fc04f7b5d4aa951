SPECIFICATION Spec
CONSTANTS
  NumCampaigns = 1
  Configs <- ProcessesConfigs
  MaxSlaves = 2
  ResendEvery = 2
  MaxForks = 3
  MaxChanges = 0
PROPERTIES SentOnceAllDone
CHECK_DEADLOCK FALSE
