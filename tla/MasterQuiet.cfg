SPECIFICATION FairSpec
CONSTANTS
  NumCampaigns = 2
  Configs <- SimpleConfigs
  MaxSlaves = 2
  ResendEvery = 2
  MaxForks = 4
  MaxChanges = 2
PROPERTIES ReadyIsSent
