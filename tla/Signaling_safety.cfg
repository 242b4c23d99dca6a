CONSTANTS
  Links = {l1, p1}
  PreviewLinks = {p1}
  Answering = {}
  Admins = {}
  NoLink = NoLink
  NoPlayer = NoPlayer
  MaxRounds = 1
  MaxDials = 1
  MaxMedia = 1
SPECIFICATION Spec
INVARIANTS OwnerIsHolder PreviewNeverArmed
PROPERTY SlotKeepsItsPromise
