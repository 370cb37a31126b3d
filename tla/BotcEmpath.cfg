SPECIFICATION FairSpec
CONSTANTS
  Deals <- LoneEmpath
CHECK_DEADLOCK FALSE
PROPERTY EveryNightEnds
