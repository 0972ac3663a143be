SPECIFICATION Spec
CONSTANTS
  Operators = {"configmapsync"}
  Namespaces = {n1, n2}
  NoNamespace = NoNamespace
  Stamps = {t1}
  NoStamp = NoStamp
  Home = n1
  Targets = {n1, n2}
  MaxEdits = 4
  MaxErrors = 0
  MaxDropped = 0
  MaxFaults = 1
CHECK_DEADLOCK FALSE
INVARIANTS NothingLeftBehind
