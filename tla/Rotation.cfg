CONSTANTS
  Transports = {x1, x2}
  NoTransport = NoTransport
  MaxTries = 3
SPECIFICATION RotationFairSpec
INVARIANT SlotServes
PROPERTIES VideoComesBack IdleHostRenews
