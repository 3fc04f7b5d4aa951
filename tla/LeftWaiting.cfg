SPECIFICATION Spec
CONSTANTS
  Recipients <- MCRecipients
  DomainOf <- MCDomainOf
  Domains = {"in", "out", "relay"}
  NoDomain = ""
  Configurations <- MCConfigurations
  Count = 2
  BatchSize = 1
  MaxRestarts = 0
INVARIANTS JobTakenCareOf
CHECK_DEADLOCK FALSE
