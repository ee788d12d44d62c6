SPECIFICATION Spec
CONSTANTS
  Variants = {v1}
  Asked = {1, 2}
  Lowering = TRUE
  Faults = {}
  MaxEdits = 2
  MaxFaults = 0
  None = None
INVARIANTS QuietReachable
CHECK_DEADLOCK FALSE
