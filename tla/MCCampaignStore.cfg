SPECIFICATION Spec
CONSTANTS
  w1 = w1
  w2 = w2
  NumCampaigns = 2
  NumRecipients = 4
  NumAddresses = 2
  Workers = {w1, w2}
  Requests <- MCRequests
  Outcomes = {"Sent"}
  MaxRequests = 2
  MaxFaults = 1
INVARIANTS TypeOK UniqueAddresses NoOrphans NoStrayFields
PROPERTIES ImportComplete
SYMMETRY WorkerSymmetry
CHECK_DEADLOCK FALSE
