CONSTANTS
  Tokens = {t1, t2}
  Devices = {d1, d2}
  Pins = {p1, p2}
  Requests = {r1, r2}
  Codes = {c1}
  None = None
  MaxSessions = 1
  MaxKeys = 2
  MaxAttempts = 1
  LockoutAfter = 1
  Lifetimes = TRUE
SPECIFICATION Spec
INVARIANTS BindingsFollow CookieIsBound InviteOnce
PROPERTIES LockoutHolds
SYMMETRY Symmetry
