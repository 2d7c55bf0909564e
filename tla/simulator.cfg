SPECIFICATION MCSpec
CONSTANTS
  Nets <- MCNets
  Wires <- MCWires
  Texts <- MCTexts
  Definitions <- MCDefinitions
  Commands <- MCCommands
  MaxDelay = 27
  Null = Null
  Unset = Unset
  NetCap = 4
  MaxNets = 8
  NetMax = 32
  MaxCommands <- Most
INVARIANTS
  SimulatorTypeOK
  DistinctDelays
  OutputsFollow
  ClearHolds
  PinsAsWritten
  WordAsClocked
PROPERTIES
  ImplementsSchedule
  TimeKeepsHeading
  MuxesSelect
CHECK_DEADLOCK FALSE
