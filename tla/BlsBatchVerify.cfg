CONSTANTS
  Q = 5
  MaxBatch = 3
INIT Init
NEXT Next
INVARIANTS
  BatchEquationCoversInputs
  BatchSatisfiedIffGenuine
