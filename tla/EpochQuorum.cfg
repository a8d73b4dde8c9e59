\* Quorum and batch soundness of a two-transition chain (indices 1 < 2 < 3), with failures
CONSTANTS
  Q = 3
  NumValidators = 2
  MaxEpochs = 2
  Indices = {1, 2, 3}
  Entropies = {0}
  KeySeqs <- MCKeySeqs
  Bitmaps <- MCBitmaps
  MessageHashes = {1}
  CollaboratorsMayFail = TRUE
INIT Init
NEXT Next
INVARIANTS
  QuorumOfPreviousSet
  BatchSound
