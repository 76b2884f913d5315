\* Two steps, a cancel, a continue, a review, an input of another command and a
\* close, with one write that may fail anywhere.
SPECIFICATION FairSpec
CONSTANTS
  MaxStep = 2
  Start = Start
  Cancel = {c1}
  Continue = {k1}
  Review = {r1}
  Other = {o1}
  Close = Close
  NoCommand = NoCommand
  MaxFaults = 1
INVARIANTS
  OneInputPerStep
  StepsAreProved
PROPERTIES
  NoCompetingInput
  QueueIsGuarded
  CancelSettlesOrAsks
  QueueDrains
CHECK_DEADLOCK FALSE
