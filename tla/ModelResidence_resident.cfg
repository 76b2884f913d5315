\* Two configurations on one port, two services, one failure.
SPECIFICATION Spec
CONSTANTS
  a1 = a1  a2 = a2  p1 = p1  p2 = p2  none = none
  Config <- Shared
  Port <- Ports
  PortOf <- PortsOf
  NoConfig <- none
  Cancellable <- Shared
  MaxService = 2
  MaxExternal = 1
  MaxFault = 1
  ExternalMayStop = FALSE
  CrashMayHappen = FALSE
INVARIANTS
  NothingLeaks
  PortsAreKept
SYMMETRY Alike
CHECK_DEADLOCK FALSE
