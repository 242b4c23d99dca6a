SPECIFICATION RateFairSpec
CONSTANTS
  Floor = 1
  Ceiling = 5
  MinPace = 2
  MaxPace = 4
  Warmup = 1
  ForgetLoss = 3
  ForgetDelay = 4
PROPERTIES NoClimbAfterCut NoRatchet RateReturns
