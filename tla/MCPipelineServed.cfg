CONSTANTS
  Datagrams = {"reg", "login", "junk"}
  Boxed = {}
  Class <- MCClass
  Rid <- MCRid
  Account <- MCAccount
  Batch = 1
  RawThreads = {"raw1"}
  Null = Null
  Nobody = Nobody
SPECIFICATION FairSpec
PROPERTY Answered
