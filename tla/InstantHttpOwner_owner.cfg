\* Three requests in flight, three sessions, two commands, no symmetry because
\* of the liveness property.  The service may stop: after a handshake that
\* cannot be closed it refuses everyone.
CONSTANTS
  Request = {r1,r2,r3}
  Session = {s1,s2,s3}
  NoSession = NoSession
  Command = {c1,c2}
  Close = Close
SPECIFICATION FairSpec
CHECK_DEADLOCK FALSE
INVARIANTS
  CallsBelongToOwner
  OrphanSessionsAreFenced
  CleanHostAnsweredAll
PROPERTIES
  ReleaseLeavesNothingRunning
  TransitionsEnd
