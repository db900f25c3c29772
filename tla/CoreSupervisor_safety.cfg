SPECIFICATION FairSpec
CONSTANTS
  MaxStarts = 3
  MaxRestarts = 3
  Prompt = TRUE
INVARIANTS
  TypeOK
  CoreContained
PROPERTIES
  WarmLossIsQuiet
  Responsive
