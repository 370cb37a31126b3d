CONSTANTS
  Players = {p1, p2, p3}
  NoPlayer = NoPlayer
  Codes = {k1, k2}
  Tickets = {t1}
  Requests = {r1}
  Yields = {"create", "join", "ticket", "issue", "grant", "claim", "rotate"}
  MinPlayers = 1
  MaxPlayers = 2
  MaxFailures = 2
  MaxRev = 3
  MaxCred = 2
SPECIFICATION Spec
SYMMETRY MCSymmetry
CHECK_DEADLOCK FALSE
INVARIANT TypeOK
INVARIANT StorageSound
PROPERTY RoomSteps
