CONSTANTS
  RoomIds = {r1, r2}
  Players = {p1, p2, p3}
  Sockets = {s1, s2}
  Actions = {a1, a2}
  Packets = {k1, k2}
  None = None
  MinPlayers = 2
  MaxPlayers = 2
  Limits = {0, 1}
  Default = 1
  Extension = 1
  MaxAge = 3
  Scenes <- MCScenes
SPECIFICATION MCSpec
SYMMETRY MCSymmetry
INVARIANT RoomsSound
 
INVARIANT TimedActionEnds
PROPERTY TimeoutKeepsPromise
