SPECIFICATION Spec
CONSTANTS
  a = a
  b = b
  Ctx = {a, b}
  NoCtx = NoCtx
  Input = {i}
  CtxLen <- MCCtxLen
  MaxCand = 1
  NCells = 4
  GenModulus = 3
  MaxFault = 1
  MaxRequest = 1
  MaxReset = 1
INVARIANT FailedRankingNotReplayed
