SPECIFICATION Spec
CONSTANTS
  Names <- MCNames
  Programs <- MCPrograms
  Files <- MCFiles
  Source <- MCSource
  OUTPUT_SIZE = 262144
INVARIANTS
  AssemblerTypeOK
  AddressesAgree
  ReferencesInside
  BytesAsWritten
  ImageWhole
PROPERTIES
  PatchesOnlyPending
  ImplementsObjects
  Finishes
CHECK_DEADLOCK FALSE
