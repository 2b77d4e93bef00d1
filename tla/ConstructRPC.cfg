SPECIFICATION FairSpec
CONSTANTS
  Urls <- ThreeNodes  Limit = 3  Tries = 3
INVARIANTS TypeOK GivesUpExhausted InTurn
PROPERTIES WindsDown CallEnds
