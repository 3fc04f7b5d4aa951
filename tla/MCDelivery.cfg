SPECIFICATION FairSpec
CONSTANTS
  NumRecipients = 4
  BatchSize = 3
  MaxMsgs = 2
  UnknownReplies = TRUE
  UpdatesLand = TRUE
  MaxCrashes = 1
  MaxNoServer = 1
INVARIANTS TypeOK SentMeansAccepted NoDuplicates FailedMeansTried
PROPERTIES RecipientsLife RoundByRound Terminates
