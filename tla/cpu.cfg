SPECIFICATION ProgramFairSpec
CONSTANTS
  Images <- MCImages
  Junk = {0}
INVARIANTS
  TypeOK
  FlagsStayFourBits
  RtiFindsFlags
PROPERTIES
  ImplementsIsa
  KeepsFetching
