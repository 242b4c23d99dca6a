SPECIFICATION Spec
CONSTANTS
  FragmentGroup = 2
  LastFrame = 2
  KeySizes = {1}
  DeltaSizes = {2}
  TwoRowMin = 3
  ResendFrames = 2
  ResendRate = 1
  MaxRounds = 1
  GroupsPerRound = 2
  MaxAssemblies = 1
  SkipSpan = 2
  Horizon = 2
  HoldBudget = 2
  MaxHeld = 2
INVARIANTS ChainUnbroken RoundsBounded
PROPERTIES StreamCopyCounts
CHECK_DEADLOCK FALSE
