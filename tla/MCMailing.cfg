SPECIFICATION FairSpec
CONSTANTS
  Rows <- MCRows
  Recipients <- MCRecipients
  DomainOf <- MCDomainOf
  Domains = {"in", "out", "relay"}
  NoDomain = ""
  Configurations <- MCConfigurations
  MaxSlaves = 2
  MaxRows = 3
  MaxSignals = 2
INVARIANTS ServedOnce UnitsOutlived BoundedUnits
PROPERTIES MailingEnds
CHECK_DEADLOCK FALSE
