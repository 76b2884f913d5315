\* Two processes that may each die twice, two store calls that raise.
SPECIFICATION FairSpec
CONSTANTS
  k1 = k1
  k2 = k2
  Controller <- MCTwo
  Creator <- MCCreator
  MaxCrash = 2
  MaxFault = 2
INVARIANTS
  OneTrueInput
  WindowIsKept
PROPERTIES
  ClaimSettles
CHECK_DEADLOCK FALSE
