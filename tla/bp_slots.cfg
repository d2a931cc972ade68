SPECIFICATION Spec
CONSTANTS
  MaxTotal = 5
  Requests <- FourCode
  MaskBase = 32
  DebugWire = FALSE
  SoftwareBPs = TRUE
INVARIANTS TypeOK SlotsDistinct RunsWithWanted
CONSTRAINT InOrder
