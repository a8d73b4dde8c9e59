CONSTANTS
  Q = 3
  MaxBatch = 2
INIT Init
NEXT Next
INVARIANT BatchShapeChecked
