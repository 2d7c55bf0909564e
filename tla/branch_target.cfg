SPECIFICATION Spec
CONSTANTS
  Names <- MCNames
  Programs <- MCPrograms
  Files <- MCFiles
  Source <- MCSource
  OUTPUT_SIZE = 262144
INVARIANT BranchesLand
CHECK_DEADLOCK FALSE
