SPECIFICATION Spec
CONSTANTS
  Variants = {v1, v2}
  Asked = {1, 2}
  Lowering = FALSE
  Faults = {"api", "crash"}
  MaxEdits = 2
  MaxFaults = 2
  None = None
SYMMETRY SymmetricVariants
INVARIANTS TypeOK ServedIntercepted
PROPERTIES NoChooserForTheGone
CHECK_DEADLOCK FALSE
