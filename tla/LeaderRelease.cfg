SPECIFICATION Spec
CONSTANTS
  Replicas = {r1, r2}
  Versions = {v1, v2, v3, v4, v5, v6}
  NoVersion = NoVersion
  NoOne = NoOne
  LeaseDuration = 5
  RenewDeadline = 2
  RetryPeriod = 1
  ReadDelay = 1
  ReleaseTimeout = 1
VIEW View
PROPERTIES ReleaseRefusedOnlyIfLost
