CONSTANTS
  Nonces = {n1, n2}
  ZeroNonce = n0
  NoNonce = NoNonce
  Lifetimes = {2, 3}
  Reprobe = 2
  StartupGrace = 1
  TelemetrySilence = 1
  Reports = {"dark", "shown"}
  Faults = {"failed"}
  Secrets = {s1, s2}
  NoSecret = NoSecret
  Addresses = {a1, a2}
  Games = {g1, g2, g3}
  Widths = {1000, 5000}
  Heights = {101, 1080}
  Rates = {10, 300}
  Caps = {500, 40000}
  DefaultWidth = 320
  DefaultHeight = 180
  DefaultRate = 30
  Base = 8
  MaxFrame = 60
  LineCap = 40
  Packets <- Samples
  Garbled <- Broken
  MaxWrites = 2
  MaxAgain = 2
  Prefixes = {p1, p2}
  NoPrefix = NoPrefix
  Refresh = 1
SPECIFICATION ServicesSpec
INVARIANTS TrustStays OfferFits AskIsKept HeardIsWritten NamesFollow
PROPERTIES RemoteReaches NoFalseStall StallIsSaid HostFollowsAddress FetchesDoNotStack
