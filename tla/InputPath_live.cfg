CONSTANTS
  Keys = {}
  Buttons = {b1}
  Pads = {g1}
  NoPad = NoPad
  NoSeq = NoSeq
  SeqSpace = 8
  MaxLag = 1
  MaxBehind = 3
  Burst = 2
  MaxTaps = 1
  Paced = TRUE
SPECIFICATION FairSpec
INVARIANT EndLetsGo
PROPERTY ControlsComeUp
