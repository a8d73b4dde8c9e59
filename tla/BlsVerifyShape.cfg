\* verify with a bitmap whose length differs from the number of keys
CONSTANTS
  Q = 3
  MaxValidators = 2
INIT Init
NEXT Next
INVARIANT NoConstraintBeforeShapeError
