SPECIFICATION FairSpec
CONSTANTS
  a = a
  b = b
  c = c
  d = d
  e = e
  None = None
  Players <- MCPlayers
  Deals <- MCDeals
  Hosts = {"node"}
  MaxDays = 1
  MaxVotes = 3
  Turned <- MCTurned
CHECK_DEADLOCK FALSE
INVARIANT VotesAreLive
PROPERTY NightLeadsToDay
