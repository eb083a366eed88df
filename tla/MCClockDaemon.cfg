CONSTANTS
  Periodic = {"daemon"}
  OneShot = {"wait1", "wait2"}
  FirstClick <- MCFirstClick
  Raw <- MCRaw
  Tids = {"t1", "t2"}
  EraseEvery = 1
  Start <- MCStart
  End = End
SPECIFICATION FairSpec
INVARIANTS ReportedKnown NothingLost
PROPERTY OneShotFires
