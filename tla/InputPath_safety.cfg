CONSTANTS
  Keys = {k1}
  Buttons = {}
  Pads = {}
  NoPad = NoPad
  NoSeq = NoSeq
  SeqSpace = 8
  MaxLag = 2
  MaxBehind = 3
  Burst = 2
  MaxTaps = 1
  Paced = FALSE
SPECIFICATION Spec
INVARIANT NoGhostKey
PROPERTY NoTimeTravel
