SPECIFICATION EmulatorSpec
CONSTANTS
  Images <- EntryImages
  Junk = {1}
  CLOCK_PERIOD = 2
  INTERRUPT_TIME = 30
  MaxWindowEvents = 0
  KEYBOARD_PERIOD = 4
  PRETRANSMIT_TIME = 3
  KeyCodes = {"A"}
  KEY_TABLE <- MCKeyTable
  MaxQueue = 1
  RunOption = {TRUE}
  MaxPresses = 0
  MaxInputs = 0
INVARIANTS
  InterruptSavesState
CHECK_DEADLOCK FALSE
