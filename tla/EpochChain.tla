------------------------------ MODULE EpochChain ------------------------------
(***************************************************************************)
(* A chain of epoch transitions on one constraint system.                  *)
(*                                                                         *)
(* SingleUpdate::constrain (crates/epoch-snark/src/gadgets/single_update.rs)*)
(* is one action: it takes the previous epoch's keys, index, entropy and   *)
(* threshold, records the constraints of the new epoch and returns a       *)
(* ConstrainedEpoch, or stops the proof with a SynthesisError (?) or a     *)
(* panic (assert_eq!).  The driver that calls it (epoch-snark, not under   *)
(* src) is modelled from the spec: starting from a genesis epoch it feeds  *)
(* each output back as the previous epoch of the next call, and finally    *)
(* batch-verifies one aggregated signature against every (message hash,   *)
(* aggregate key) pair with BlsVerifyGadget::batch_verify.                 *)
(***************************************************************************)
EXTENDS Primitives

CONSTANTS
  NumValidators,         \* num_validators: the fixed validator-set size
  MaxEpochs,             \* number of transitions the proof chains
  Indices,               \* epoch indices (field elements) of updates
  Entropies,             \* epoch / parent entropy values of updates
  KeySeqs,               \* validator key sequences an update may carry
  Bitmaps,               \* signer bitmaps an update may carry
  MessageHashes,         \* G1 hashes of the epoch data
  CollaboratorsMayFail   \* whether a collaborator call may return Err

ASSUME ChainAssumption ==
  /\ NumValidators \in Nat
  /\ MaxEpochs \in Nat
  /\ Indices \subseteq Nat /\ Entropies \subseteq Nat
  /\ KeySeqs \subseteq Seq(G) /\ Bitmaps \subseteq Seq(BOOLEAN)
  /\ MessageHashes \subseteq G
  /\ CollaboratorsMayFail \in BOOLEAN

VARIABLES
  genesis,        \* the first epoch: keys, threshold, index, entropy
  entropyBit,     \* constrain_entropy_bit passed to every call
  epochs,         \* the ConstrainedEpochs returned so far (with the bitmap)
  cs,             \* the constraints recorded so far
  aggSignature,   \* the aggregated signature given to batch_verify
  status          \* "building", "verified", "error" or "panic"

vars == <<genesis, entropyBit, epochs, cs, aggSignature, status>>

Thresholds == 0..NumValidators

\* The previous-epoch context of the k-th transition.
PrevOf(k) == IF k = 1 THEN genesis ELSE epochs[k - 1]

\* The previous-epoch context of the next transition.
Previous == PrevOf(Len(epochs) + 1)

\* A SingleUpdate: the new epoch's data and the signer bitmap.
Updates ==
  [index : Indices, epochEntropy : Entropies, parentEntropy : Entropies,
   maxNonSigners : Thresholds, pubKeys : KeySeqs, messageHash : MessageHashes,
   bitmap : Bitmaps]

\* The collaborator call of constrain that returns Err, if any.
FailurePoints ==
  IF CollaboratorsMayFail
  THEN {"none", "epoch_data", "index_bit", "entropy_eq", "bitmap", "select"}
  ELSE {"none"}

Init ==
  /\ genesis \in [pubKeys : {ks \in KeySeqs : Len(ks) = NumValidators},
                  maxNonSigners : Thresholds, index : Indices,
                  epochEntropy : Entropies]
  /\ entropyBit \in BOOLEAN
  /\ epochs = <<>>
  /\ cs = <<>>
  /\ aggSignature = Zero
  /\ status = "building"

(***************************************************************************)
(* index_bit = !epoch_data.index.is_eq_zero(); previous_epoch_index        *)
(* .conditional_enforce_equal(&epoch_data.parent_entropy,                  *)
(*                            &index_bit.and(constrain_entropy_bit))       *)
(***************************************************************************)
EntropyCheck(prev, u) ==
  CondEqual(prev.index, u.parentEntropy, u.index # 0 /\ entropyBit)

\* Mutant: the threshold of the new epoch bounds the non-signers.
OccurrenceCheckNewThreshold(prev, u) ==
  MaxOccurrences(u.bitmap, u.maxNonSigners, FALSE)

\* enforce_bitmap(previous_pubkeys, .., &previous_max_non_signers): the
\* occurrence constraint on the bitmap against the previous threshold.
OccurrenceCheck(prev, u) ==
  MaxOccurrences(u.bitmap, prev.maxNonSigners, FALSE)

\* Mutant: the keys of the new epoch are aggregated.
AggregateKeyNewSet(prev, u) == AggregateOf(u.pubKeys, u.bitmap)

\* enforce_bitmap(previous_pubkeys, &signed_bitmap, ..): the aggregate of
\* the previous epoch's keys selected by the bitmap.
AggregateKey(prev, u) == AggregateOf(prev.pubKeys, u.bitmap)

(***************************************************************************)
(* constrain(previous_pubkeys, previous_epoch_index,                       *)
(*           previous_epoch_randomness, previous_max_non_signers,          *)
(*           constrain_entropy_bit, num_validators, ...)                   *)
(* in the order of the code, each ? and assert_eq! an early return:     *)
(*  - assert_eq!(num_validators, public_keys.len()) panics;                *)
(*  - epoch_data.constrain(previous_epoch_index)? records the index check; *)
(*  - index_bit = !index.is_eq_zero()?; index_bit.and(entropy_bit)?;       *)
(*  - previous_epoch_index.conditional_enforce_equal(parent_entropy, ..)   *)
(*    whose Result is dropped: on Err the call goes on without it;         *)
(*  - constrain_bool(signed_bitmap)? and BlsGadget::enforce_bitmap(        *)
(*    previous_pubkeys, bitmap, message_hash, previous_max_non_signers)?   *)
(*    (occurrence constraint, assert_eq! on the lengths, select loop).     *)
(***************************************************************************)
Constrain(u, failAt) ==
  LET prev      == Previous
      indexC    == NextEpochIndex(prev.index, u.index)
      entropyCs == IF failAt = "entropy_eq" THEN <<>>
                   ELSE <<EntropyCheck(prev, u)>>
      occC      == OccurrenceCheck(prev, u)
      before    == cs \o <<indexC>> \o entropyCs
  IN
  IF Len(u.pubKeys) # NumValidators
    THEN status' = "panic" /\ UNCHANGED cs
  ELSE IF failAt = "epoch_data"
    THEN status' = "error" /\ UNCHANGED cs
  ELSE IF failAt = "index_bit"
    THEN status' = "error" /\ cs' = cs \o <<indexC>>
  ELSE IF failAt = "bitmap"
    THEN status' = "error" /\ cs' = before
  ELSE IF Len(u.bitmap) # Len(prev.pubKeys)
    THEN status' = "panic" /\ cs' = before \o <<occC>>
  ELSE IF failAt = "select" /\ Len(u.bitmap) > 0
    THEN status' = "error" /\ cs' = before \o <<occC>>
  ELSE /\ cs' = before \o <<occC>>
       /\ epochs' = Append(epochs,
            [pubKeys |-> u.pubKeys, maxNonSigners |-> u.maxNonSigners,
             messageHash |-> u.messageHash,
             aggregatePk |-> AggregateKey(prev, u),
             index |-> u.index, epochEntropy |-> u.epochEntropy,
             parentEntropy |-> u.parentEntropy,
             bitmap |-> u.bitmap, csFrom |-> Len(cs) + 1,
             csTo |-> Len(cs')])
       /\ UNCHANGED status

\* The driver calls constrain on the next update.
ConstrainUpdate ==
  /\ status = "building"
  /\ Len(epochs) < MaxEpochs
  /\ \E u \in Updates, failAt \in FailurePoints :
       /\ Constrain(u, failAt)
       /\ status' # "building" => UNCHANGED epochs
  /\ UNCHANGED <<genesis, entropyBit, aggSignature>>

(***************************************************************************)
(* batch_verify(aggregate_pks, message_hashes, aggregated_signature) over  *)
(* every transition: prepare_g1 / prepare_g2 on each point, the signature  *)
(* with the negated generator first, one enforce_bls_equation.             *)
(***************************************************************************)
BatchVerify ==
  /\ status = "building"
  /\ Len(epochs) > 0
  /\ \E sig \in G, fails \in IF CollaboratorsMayFail THEN BOOLEAN ELSE {FALSE} :
       /\ aggSignature' = sig
       /\ IF fails
          THEN status' = "error" /\ UNCHANGED cs
          ELSE /\ cs' = Append(cs, PairingEquation(
                     <<sig>> \o [k \in 1..Len(epochs) |-> epochs[k].messageHash],
                     <<GNeg(G2Generator)>>
                       \o [k \in 1..Len(epochs) |-> epochs[k].aggregatePk]))
               /\ status' = "verified"
  /\ UNCHANGED <<genesis, entropyBit, epochs>>

Terminated == status # "building" /\ UNCHANGED vars

Next == ConstrainUpdate \/ BatchVerify \/ Terminated

Spec == Init /\ [][Next]_vars

-----------------------------------------------------------------------------
EpochRecord ==
  [pubKeys : KeySeqs, maxNonSigners : Thresholds, messageHash : MessageHashes,
   aggregatePk : G, index : Indices, epochEntropy : Entropies,
   parentEntropy : Entropies, bitmap : Bitmaps, csFrom : Nat, csTo : Nat]

TypeOK ==
  /\ genesis \in [pubKeys : KeySeqs, maxNonSigners : Thresholds,
                  index : Indices, epochEntropy : Entropies]
  /\ entropyBit \in BOOLEAN
  /\ epochs \in Seq(EpochRecord) /\ Len(epochs) <= MaxEpochs
  /\ cs \in Seq(Constraint)
  /\ aggSignature \in G
  /\ status \in {"building", "verified", "error", "panic"}

Proven == status = "verified" /\ IsSatisfied(cs)

(***************************************************************************)
(* Validator-set handoff: in a proof that verified with a satisfied        *)
(* circuit, every transition was signed with a bitmap over the *previous*  *)
(* epoch's validators (same length, NumValidators) leaving at most the     *)
(* *previous* epoch's maximum_non_signers out.                             *)
(***************************************************************************)
QuorumOfPreviousSet ==
  Proven =>
    \A k \in 1..Len(epochs) :
      /\ Len(PrevOf(k).pubKeys) = NumValidators
      /\ Len(epochs[k].bitmap) = NumValidators
      /\ NonSigners(epochs[k].bitmap) <= PrevOf(k).maxNonSigners

(***************************************************************************)
(* Batch soundness: in a proof that verified with a satisfied circuit, the *)
(* aggregated signature satisfies e(sig, g2) = prod_k e(H(m_k), apk_k)     *)
(* where apk_k sums exactly the keys of the previous epoch whose bit is    *)
(* set in the k-th bitmap.                                                 *)
(***************************************************************************)
BatchSound ==
  Proven =>
    Pair(aggSignature, G2Generator) =
      ProductOfPairings(
        [k \in 1..Len(epochs) |-> epochs[k].messageHash],
        [k \in 1..Len(epochs) |->
           AggregateOf(PrevOf(k).pubKeys, epochs[k].bitmap)])

(***************************************************************************)
(* Spec section 4.2 step 4 (intent): with the entropy check enabled, every *)
(* non-dummy epoch of a satisfied proof names the previous epoch's entropy *)
(* as its parent entropy.  The code compares previous_epoch_index instead. *)
(***************************************************************************)
EntropyContinuity ==
  Proven /\ entropyBit =>
    \A k \in 1..Len(epochs) :
      epochs[k].index # 0 =>
        epochs[k].parentEntropy = PrevOf(k).epochEntropy

(***************************************************************************)
(* Spec section 7: no operation silently swallows a sub-call's failure.    *)
(* Every transition that returned Ok with the entropy check enabled and a  *)
(* non-dummy index has its continuity constraint in the system; the call   *)
(* drops the Result of conditional_enforce_equal.                          *)
(***************************************************************************)
EntropyCheckRecorded ==
  \A k \in 1..Len(epochs) :
    entropyBit /\ epochs[k].index # 0 =>
      \E j \in epochs[k].csFrom..epochs[k].csTo : cs[j].kind = "cond_equal"
=============================================================================
