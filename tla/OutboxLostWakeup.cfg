SPECIFICATION FairSpec
CONSTANTS
  Events = {e1}
  Procs = {p1}
  OrgSeq <- OneOrg
  OrgOf <- AllInOne
  Continuous = FALSE
  BatchSize = 2
  OrgLimit = 2
  RetryBase = 1
  RetryMax = 2
  ExponentCap = 1
  NoisyOrgs = {}
  MaxFaults = 0
PROPERTIES EveryEventDelivered
CHECK_DEADLOCK FALSE
