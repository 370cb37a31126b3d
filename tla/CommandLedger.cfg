\* Two commands and one lifecycle command, three concurrent executions, a
\* window smaller than the number of commands so that eviction happens.
CONSTANTS
  move = move
  vote = vote
  restart = restart
  NoId = NoId
  Ids <- MCIds
  ResetIds <- MCResetIds
  Callers = {c1, c2, c3}
  MaxEntries = 2
  MaxApplied = 2
SPECIFICATION FairSpec
INVARIANT TypeOK
INVARIANT AtMostOnce
INVARIANT LedgerSound
PROPERTY WindowRefined
PROPERTY EveryCallAnswered
CHECK_DEADLOCK FALSE
