CONSTANTS
  Sizes <- MCSizes
  Kinds = {"SCNT", "LCNT", "CNTL"}
  Room = 7
  MaxCount = 9
SPECIFICATION TransportSpec
INVARIANTS TypeOK Tiling Covering AcceptedWhole ReadableUnlessCut
PROPERTY MessagesArrive
CHECK_DEADLOCK FALSE
