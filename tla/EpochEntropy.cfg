\* Entropy continuity across transitions (one validator set, full bitmaps)
CONSTANTS
  Q = 3
  NumValidators = 2
  MaxEpochs = 2
  Indices = {0, 1, 2}
  Entropies = {0, 1, 2}
  KeySeqs <- MCEntropyKeySeqs
  Bitmaps <- MCEntropyBitmaps
  MessageHashes = {1}
  CollaboratorsMayFail = FALSE
INIT Init
NEXT Next
INVARIANT EntropyContinuity
