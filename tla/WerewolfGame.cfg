SPECIFICATION Spec
CONSTANTS
  a = a
  b = b
  c = c
  d = d
  e = e
  None = None
  Players <- MCPlayers
  Deals <- MCDeals
  Hosts = {"node", "cloudflare"}
  MaxDays = 2
  MaxVotes = 1
  Turned <- MCTurned
CHECK_DEADLOCK FALSE
INVARIANT TypeOK
INVARIANT DecidedIsOver
INVARIANT NightIsComplete
INVARIANT ShotIsEarned
INVARIANT LimitsKept
INVARIANT SecretsKept
