CONSTANTS
  Account = {a1}
  Wide = {}
  Daemon = {d1}
  Tries = 2
  Life = 2
  MaxRuns = 2
  MaxBoots = 1
  Copies <- MCCopies
  None = None
SPECIFICATION FairSpec
CHECK_DEADLOCK FALSE
PROPERTY LossRecorded
