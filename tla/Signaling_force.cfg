CONSTANTS
  Links = {l1, p1}
  PreviewLinks = {p1}
  Answering = {l1}
  Admins = {adm}
  NoLink = NoLink
  NoPlayer = NoPlayer
  MaxRounds = 0
  MaxDials = 0
  MaxMedia = 1
SPECIFICATION Spec
INVARIANT ReadyOncePerSession
