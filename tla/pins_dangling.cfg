SPECIFICATION MCSpec
CONSTANTS
  Nets <- MCNets
  Wires <- MCWires
  Texts <- RearrangedTexts
  Definitions <- MCDefinitions
  Commands <- MCCommands
  MaxDelay = 27
  Null = Null
  Unset = Unset
  NetCap = 4
  MaxNets = 8
  NetMax = 32
  MaxCommands <- Most
INVARIANT PinsLive
CHECK_DEADLOCK FALSE
