SPECIFICATION FairSpec
CONSTANTS
  Keys <- MCKeys
  Mine = Mine
  Owner = Owner
  Others = {other}
  Data = {d1, d2}
  Want = d1
  Intervals = {45}
  Capacity = 1
  MaxWrites = 3
  MaxCalls = 3
  Used = {"finalizers", "gc", "resources", "watchers"}
INVARIANTS
  TypeOK
  HeldKept
  GcThorough
  WatchFaithful
PROPERTIES
  GcSpares
  EnsureReports
  WaitReturns
CHECK_DEADLOCK FALSE
