CONSTANTS
  Links = {l1, l2}
  PreviewLinks = {}
  Answering = {}
  Admins = {}
  NoLink = NoLink
  NoPlayer = NoPlayer
  MaxRounds = 1
  MaxDials = 0
  MaxMedia = 0
SPECIFICATION FairSpec
PROPERTIES ClaimAnswered GoneWindsDown
