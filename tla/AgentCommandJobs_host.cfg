\* One command of three steps.  The first host asks the agent client for
\* groundings, the second an HTTP provider; either may run the command.
SPECIFICATION FairSpec
CONSTANTS
  Command = {c1}
  NoCommand = NoCommand
  MaxSteps = 3
  ApiHosts = {2}
  MaxEpoch = 2
INVARIANTS
  OneInputPerStep
  RecordsTellTheTruth
  CancelIsHeard
  CommandsSettle
PROPERTIES
  SettledIsFinal
  CancelBarsDispatch
  WaitsEnd
