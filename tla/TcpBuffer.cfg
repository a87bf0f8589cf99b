CONSTANTS
  kDefaultBufferSize = 2
  kMaxBufferSize = 4
  SizeModulus = 16
  Payload = {"x"}
  ReadSizes = {1, 2}
  MaxStream = 5
SPECIFICATION FairSpec
INVARIANTS TypeOK BufferHolds RoomToRead ToReadExact NothingSkipped
PROPERTIES ImplementsStream LineReturned
