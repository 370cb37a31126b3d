SPECIFICATION FairSpec
CONSTANTS
  a = a
  b = b
  c = c
  d = d
  e = e
  None = None
  Players <- MCPlayers
  Deals <- OneDeal
  Hosts = {"cloudflare"}
  MaxDays = 1
  MaxVotes = 1
  Turned <- MCTurned
CHECK_DEADLOCK FALSE
PROPERTY NightLeadsToDay
