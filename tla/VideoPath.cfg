SPECIFICATION FairSpec
CONSTANTS
  MaxQueue = 2
  MaxEvents = 1
INVARIANT EmptySlotMeansNewest
PROPERTIES PictureReturns AcceptedAskServed
