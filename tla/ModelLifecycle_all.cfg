SPECIFICATION FairSpec
CONSTANTS
  Path = {p, q}
  None = None
  Loader = {l1, l2}
  Preparer = {t}
  MaxDeploy = 3
  MaxFail = 1
INVARIANTS TypeOK OneLoader DecodersKeepModel DisabledFrees
PROPERTIES EngineReturns EnabledLoads
CHECK_DEADLOCK FALSE
