SPECIFICATION EmulatorSpec
CONSTANTS
  Images <- MCImages
  Junk = {1}
  CLOCK_PERIOD = 2
  INTERRUPT_TIME = 30
  MaxWindowEvents = 0
  KEYBOARD_PERIOD = 4
  PRETRANSMIT_TIME = 3
  KeyCodes = {"A"}
  KEY_TABLE <- MCKeyTable
  MaxQueue = 1
  RunOption = {TRUE}
  MaxPresses = 1
  MaxInputs = 1
INVARIANTS
  TypeOK
  HoldStopsKeyboard
PROPERTIES
  NoStaleInterrupt
  ResetBoots
CHECK_DEADLOCK FALSE
