SPECIFICATION FairSpec
CONSTANTS
  Deals <- MCDeals
CHECK_DEADLOCK FALSE
INVARIANT TypeOK
INVARIANT DecidedIsOver
INVARIANT NightWakes
INVARIANT InformationTrue
INVARIANT GrimoireForetells
INVARIANT OfferedIsAccepted
INVARIANT GhostVoteOnce
INVARIANT SecretsKept
PROPERTY NightEnds
