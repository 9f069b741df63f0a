SPECIFICATION Spec
CONSTANTS
  a = a
  b = b
  Ctx = {a, b}
  NoCtx = NoCtx
  Input = {i}
  CtxLen <- MCCtxLen
  MaxCand = 2
  NCells = 6
  GenModulus = 3
  MaxFault = 2
  MaxRequest = 2
  MaxReset = 1
INVARIANTS TypeOK WorkersReleased NeverExhausted PrepMatchesMemory ScoredInContext CacheOfThisGeneration
