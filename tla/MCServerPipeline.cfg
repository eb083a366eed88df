CONSTANTS
  Datagrams = {"reg", "retry", "key"}
  Boxed = {"reg", "retry"}
  Class <- MCClass
  Rid <- MCRid
  Account <- MCAccount
  Batch = 1
  RawThreads = {"raw1", "raw2"}
  Null = Null
  Nobody = Nobody
SPECIFICATION Spec
INVARIANTS TypeOK HandledOnce FirstComeFirstServed OneAccountPerRequest
PROPERTIES CursorStable Service
