SPECIFICATION FairSpec
CONSTANTS
  Keys <- MCKeys
  Mine = Mine
  Owner = Owner
  Others = {other}
  Data = {d1, d2}
  Want = d1
  Intervals = {45}
  Capacity = 1
  MaxWrites = 2
  MaxCalls = 3
  Used = {"watchers"}
INVARIANTS
  OutlivesErrors
CHECK_DEADLOCK FALSE
