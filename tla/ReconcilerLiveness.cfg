SPECIFICATION FairSpec
CONSTANTS
  Variants = {v1}
  Asked = {1, 2}
  Lowering = TRUE
  Faults = {"api", "mount", "crash"}
  MaxEdits = 2
  MaxFaults = 1
  None = None
INVARIANTS QuietMatches
PROPERTIES Converges DeletionCompletes
CHECK_DEADLOCK FALSE
