SPECIFICATION FairSpec
CONSTANTS
  Threads = {t1}
  Messages <- MCMessages
  MutexSessions = TRUE
  MaxCuts = 1
INVARIANTS SameMessage NothingLost
PROPERTIES StreamEnds
CHECK_DEADLOCK FALSE
