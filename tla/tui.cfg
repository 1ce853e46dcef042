SPECIFICATION FairSpec
CONSTANTS
  Names = {1, 2}
  Sessions <- AllSessions
CHECK_DEADLOCK FALSE
INVARIANTS TypeOK CreateOnScreen ShutdownAnswered StreamsTended PasswordRight
PROPERTIES RemovesWhatWasPicked ListCatchesUp
