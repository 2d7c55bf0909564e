SPECIFICATION ProgramSpec
CONSTANTS
  Images <- MCImages
  Junk = {0}
PROPERTIES
  StoresStayInMemory
