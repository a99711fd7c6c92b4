SPECIFICATION VideoOutSpec
CONSTANTS
  None = None
  Decoders = {1, 2, 3}
  Patience = 3
  MaxDoublings = 0
  TickEvery = 1
  Prompt = 1
  MayNotBuild = TRUE
INVARIANT
  RestartsHelp
PROPERTY
  WorkingIsFound
CHECK_DEADLOCK FALSE
