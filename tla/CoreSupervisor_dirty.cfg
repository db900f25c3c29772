SPECIFICATION Spec
CONSTANTS
  MaxStarts = 3
  MaxRestarts = 3
  Prompt = TRUE
INVARIANT DirtyHasRestart
