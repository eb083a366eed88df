CONSTANTS
  Reqs <- MCReqs
  Timeout <- MCTimeout
  Instances = {"run1", "run2"}
  MaxAnswers <- MCMax
  Nobody = Nobody
  End = End
SPECIFICATION FairSpec
INVARIANTS CallbackOnce RetriesBounded ProceedsOnlyAnswered
PROPERTY WaitEnds
CHECK_DEADLOCK FALSE
