CONSTANTS
  Account = {a1, a2}
  Wide = {a2}
  Daemon = {d1, d2}
  Tries = 2
  Life = 1
  MaxRuns = 2
  MaxBoots = 2
  Copies <- MCCopies
  None = None
SPECIFICATION FairSpec
INVARIANTS TypeOK LoginIsRegistered StatusTrueUntilLogin
PROPERTY DaemonsEnd
CHECK_DEADLOCK FALSE
