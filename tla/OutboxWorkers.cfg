SPECIFICATION Spec
CONSTANTS
  Events = {e1, e2}
  Procs = {p1, p2}
  OrgSeq <- OneOrg
  OrgOf <- AllInOne
  Continuous = TRUE
  BatchSize = 2
  OrgLimit = 1
  RetryBase = 1
  RetryMax = 3
  ExponentCap = 2
  NoisyOrgs = {}
  MaxFaults = 1
SYMMETRY WorkerSymmetry
INVARIANTS TypeOK NoSharedClaim
PROPERTIES BackoffRespected ImplementsContract
