CONSTANTS
  Msgs <- MCMsgs
  Cnt <- MCCnt
  Sent <- MCSent
  ClicksNew = 2
  ClicksAdd = 1
  MaxSends = 2
  MaxDups = 1
SPECIFICATION FairSpec
INVARIANTS TypeOK NbnCountsSlots OnlyWholeDelivered LifeIsEarned
PROPERTIES LeavesDeliveredOrExpired DiesOnlyOfStaleListener ListenersLeave Delivery
CHECK_DEADLOCK FALSE
