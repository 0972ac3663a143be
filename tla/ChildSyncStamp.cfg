SPECIFICATION Spec
CONSTANTS
  Operators = {"configmapsync"}
  Namespaces = {n1, n2}
  NoNamespace = NoNamespace
  Stamps = {t1, t2}
  NoStamp = NoStamp
  Home = n1
  Targets = {n1}
  MaxEdits = 2
  MaxErrors = 0
  MaxDropped = 0
  MaxFaults = 1
CHECK_DEADLOCK FALSE
PROPERTIES ReadySinceKept
