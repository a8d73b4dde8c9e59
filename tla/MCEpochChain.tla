----------------------------- MODULE MCEpochChain -----------------------------
(***************************************************************************)
(* Small instances of EpochChain for TLC.  Groups of order 3, two          *)
(* validators, two transitions.                                            *)
(***************************************************************************)
EXTENDS EpochChain

\* Key sequences: two validator sets of the right size, one containing the
\* identity key, and one set of the wrong size (validator-count drift).
MCKeySeqs == {<<1, 2>>, <<0, 1>>, <<1>>}

\* Every bitmap over two validators, and one of the wrong length.
MCBitmaps == [1..2 -> BOOLEAN] \cup {<<TRUE>>}

\* For the entropy questions: one validator set, everyone signs.
MCEntropyKeySeqs == {<<1, 2>>}
MCEntropyBitmaps == {<<TRUE, TRUE>>}
=============================================================================
