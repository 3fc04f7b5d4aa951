SPECIFICATION FairSpec
CONSTANTS
  Domains = {d1, d2, d3}
  NoDomain = NoDomain
  MaxRecipients = 2
  MaxSlaves = 2
  BatchSize = 1
  MaxApiFailures = 2
INVARIANTS TypeOK InFlightStillWaiting NothingForgotten
PROPERTIES OneSenderPerDomain RoundByRound Terminates
