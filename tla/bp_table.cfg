SPECIFICATION JsSpec
CONSTANTS
  MaxTotal = 3
  Requests <- CodeAndWatches
  MaskBase = 32
  DebugWire = FALSE
  SoftwareBPs = TRUE
  MaxDrivers = 3
INVARIANTS IceMirrored RunsAsTold DriverUsable ListTells
