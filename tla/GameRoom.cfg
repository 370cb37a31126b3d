CONSTANTS
  Players = {p1, p2, p3}
  NoPlayer = NoPlayer
  Codes = {k1}
  Tickets = {t1}
  Requests = {r1, r2}
  Yields = {"ticket"}
  MinPlayers = 2
  MaxPlayers = 3
  MaxFailures = 2
  MaxRev = 3
  MaxCred = 3
SPECIFICATION Spec
SYMMETRY MCSymmetry
CHECK_DEADLOCK FALSE
INVARIANT SessionCurrent
INVARIANT GrantsSound
