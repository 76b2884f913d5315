\* One service, whose server can cancel or cannot; the runner may die, and servers
\* of others come and go.
SPECIFICATION FairSpec
CONSTANTS
  a1 = a1  a2 = a2  p1 = p1  p2 = p2  none = none
  Config <- Shared
  Port <- OnePort
  PortOf <- PortsOf
  NoConfig <- none
  Cancellable <- One
  MaxService = 1
  MaxExternal = 2
  MaxFault = 1
  ExternalMayStop = TRUE
  CrashMayHappen = TRUE
INVARIANT
  NothingIsVouchedFalsely
PROPERTY
  ReleaseSettles
CHECK_DEADLOCK FALSE
