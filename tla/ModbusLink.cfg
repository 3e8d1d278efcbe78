SPECIFICATION Spec
CONSTANTS
  Size = 2
  WordModulus = 4
  MaxBits = 3
  MaxRegisters = 1
  Cell = cell
  Panel = panel
  Masters <- MCMasters
  Requests <- MCRequests
  MaxCalls <- MCMaxCalls
INVARIANTS TypeOK OwnAnswer TwiceAtMost OvertakenOnlyWhenGone ReadsOwnWrites
PROPERTIES CallsEnd
