SPECIFICATION Spec
CONSTANTS
  Path = {p, q}
  None = None
  Loader = {l1}
  Preparer = {t}
  MaxDeploy = 2
  MaxFail = 0
INVARIANT LoadedFromTellsModel
CHECK_DEADLOCK FALSE
