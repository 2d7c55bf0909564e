SPECIFICATION EmulatorFairSpec
CONSTANTS
  Images <- ShortImages
  Junk = {1}
  CLOCK_PERIOD = 2
  INTERRUPT_TIME = 6
  MaxWindowEvents = 1
  KEYBOARD_PERIOD = 4
  PRETRANSMIT_TIME = 3
  KeyCodes = {"A"}
  KEY_TABLE <- MCKeyTable
  MaxQueue = 1
  RunOption = {TRUE, FALSE}
  MaxPresses = 0
  MaxInputs = 2
PROPERTIES
  ResetEnds
  StepReturns
CHECK_DEADLOCK FALSE
