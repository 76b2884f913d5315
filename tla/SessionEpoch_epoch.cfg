\* Three MCP processes in turn, three sessions, two recovery requests.
SPECIFICATION FairSpec
CONSTANTS
  Request = {r1, r2}
  NoRequest = NoRequest
  MaxSession = 3
  MaxMcp = 3
INVARIANT
  OneHostPerEpoch
PROPERTIES
  SuccessionIsProved
  OrphanStopsServing
CHECK_DEADLOCK FALSE
