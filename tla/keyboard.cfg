SPECIFICATION LinkFairSpec
CONSTANTS
  CLOCK_PERIOD = 12
  PRETRANSMIT_TIME = 5
  STEP_TIME = 2
  KeyCodes <- MCKeyCodes
  KEY_TABLE <- MCKeyTable
  MaxQueue = 2
  MaxPresses = 2
  MaxHolds = 1
INVARIANTS
  TypeOK
  TerminatorAhead
PROPERTIES
  DataHeldWhileClockLow
  FallsSpaced
  ImplementsChannel
  EventsSent
