SPECIFICATION LiveSpec
CONSTANTS
  Replicas = {r1, r2}
  Versions = {v1, v2, v3, v4, v5, v6}
  NoVersion = NoVersion
  NoOne = NoOne
  LeaseDuration = 4
  RenewDeadline = 2
  RetryPeriod = 1
  ReadDelay = 0
  ReleaseTimeout = 1
  MaxDisturbances = 3
PROPERTIES StableLeadership
