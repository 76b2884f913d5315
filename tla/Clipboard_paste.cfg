\* One typed text, two copies by other applications, four failing native calls.
SPECIFICATION ClipboardSpec
CONSTANTS
  Copy <- TwoCopies
  MaxFault = 4
INVARIANT
  OutcomeIsTold
PROPERTY
  OthersKeepTheirs
CHECK_DEADLOCK FALSE
