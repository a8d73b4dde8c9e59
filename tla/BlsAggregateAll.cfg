CONSTANTS
  Q = 5
  MaxValidators = 3
INIT Init
NEXT Next
INVARIANTS
  AllPubkeysIsAllTrueBitmap
