\* verify on every input with up to 3 keys over groups of order 5
CONSTANTS
  Q = 5
  MaxValidators = 3
INIT Init
NEXT Next
INVARIANTS
  TypeOK
  ThresholdEnforced
  SignatureSound
  SignatureComplete
PROPERTY
  VerifyImplementsCall
