SPECIFICATION FairSpec
CONSTANTS
  Events = {e1, e2}
  Procs = {p1}
  OrgSeq <- TwoOrgs
  OrgOf <- LastApart
  Continuous = TRUE
  BatchSize = 2
  OrgLimit = 1
  RetryBase = 1
  RetryMax = 2
  ExponentCap = 1
  NoisyOrgs = {1}
  MaxFaults = 0
PROPERTIES EveryEventDelivered
