SPECIFICATION FairSpec
CONSTANTS
  Operators = {"configmapsync", "secretsync", "serviceaccountsync", "apiconfigsync"}
  Namespaces = {n1, n2}
  NoNamespace = NoNamespace
  Stamps = {t1}
  NoStamp = NoStamp
  Home = n1
  Targets = {n1, n2}
  MaxEdits = 3
  MaxErrors = 1
  MaxDropped = 1
  MaxFaults = 1
CHECK_DEADLOCK FALSE
INVARIANTS TypeOK ChildGuarded
PROPERTIES Converges
