---------------------------- MODULE BlsBatchVerify ---------------------------
(***************************************************************************)
(* BlsVerifyGadget::batch_verify and batch_verify_prepared                 *)
(* (crates/bls-gadgets/src/bls.rs) over any two input slices:              *)
(*                                                                         *)
(*   batch_verify -> prepare_g1 on each message hash (collect ?)           *)
(*                -> prepare_g2 on each aggregated key (collect ?)         *)
(*                -> batch_verify_prepared                                 *)
(*                     -> prepare_signature_neg_generator                  *)
(*                     -> [sig] ++ hashes, [-g2] ++ keys                   *)
(*                     -> enforce_bls_equation                             *)
(*                                                                         *)
(* Nothing compares the lengths of the two slices; the pairing product     *)
(* zips them.  The chain calls it with equal lengths (EpochChain), but the *)
(* function is public and takes any two slices.                            *)
(***************************************************************************)
EXTENDS Primitives

CONSTANT MaxBatch   \* longest slice of keys / message hashes passed in

ASSUME MaxBatchAssumption == MaxBatch \in Nat

VARIABLES
  aggregatedPubKeys,     \* aggregated_pub_keys: &[P::G2Var]
  messageHashes,         \* message_hashes: &[P::G1Var]
  aggregatedSignature,   \* aggregated_signature: &P::G1Var
  pc,                    \* the statement the call is at
  preparedHashes,        \* prepared_message_hashes, collected so far
  preparedKeys,          \* prepared_aggregated_pub_keys, collected so far
  cs                     \* the constraints recorded so far

inputs == <<aggregatedPubKeys, messageHashes, aggregatedSignature>>
vars == <<inputs, pc, preparedHashes, preparedKeys, cs>>

Init ==
  /\ aggregatedPubKeys \in SeqsUpTo(G, MaxBatch)
  /\ messageHashes \in SeqsUpTo(G, MaxBatch)
  /\ aggregatedSignature \in G
  /\ pc = "prepare_hashes"
  /\ preparedHashes = <<>>
  /\ preparedKeys = <<>>
  /\ cs = <<>>

\* Mutant: the first message hash is skipped when the hashes are prepared.
PrepareHashSkipFirst ==
  /\ pc = "prepare_hashes"
  /\ Len(preparedHashes) < Len(messageHashes)
  /\ preparedHashes' =
       IF Len(messageHashes) > 1 /\ preparedHashes = <<>>
       THEN <<messageHashes[2]>>
       ELSE Append(preparedHashes, messageHashes[Len(preparedHashes) + 1])
  /\ UNCHANGED <<inputs, pc, preparedKeys, cs>>

\* message_hashes.iter().map(|h| P::prepare_g1(h)): the next element.
PrepareHash ==
  /\ pc = "prepare_hashes"
  /\ Len(preparedHashes) < Len(messageHashes)
  /\ preparedHashes' =
       Append(preparedHashes, messageHashes[Len(preparedHashes) + 1])
  /\ UNCHANGED <<inputs, pc, preparedKeys, cs>>

\* .collect::<Result<Vec<_>, _>>() over the hashes returns Ok.
HashesPrepared ==
  /\ pc = "prepare_hashes"
  /\ Len(preparedHashes) = Len(messageHashes)
  /\ pc' = "prepare_keys"
  /\ UNCHANGED <<inputs, preparedHashes, preparedKeys, cs>>

\* Mutant: every prepared key is the first key of the slice.
PrepareKeyRepeatFirst ==
  /\ pc = "prepare_keys"
  /\ Len(preparedKeys) < Len(aggregatedPubKeys)
  /\ preparedKeys' = Append(preparedKeys, aggregatedPubKeys[1])
  /\ UNCHANGED <<inputs, pc, preparedHashes, cs>>

\* aggregated_pub_keys.iter().map(|pk| P::prepare_g2(pk)): the next element.
PrepareKey ==
  /\ pc = "prepare_keys"
  /\ Len(preparedKeys) < Len(aggregatedPubKeys)
  /\ preparedKeys' =
       Append(preparedKeys, aggregatedPubKeys[Len(preparedKeys) + 1])
  /\ UNCHANGED <<inputs, pc, preparedHashes, cs>>

\* .collect::<Result<Vec<_>, _>>() over the keys returns Ok.
KeysPrepared ==
  /\ pc = "prepare_keys"
  /\ Len(preparedKeys) = Len(aggregatedPubKeys)
  /\ pc' = "verify_prepared"
  /\ UNCHANGED <<inputs, preparedHashes, preparedKeys, cs>>

(***************************************************************************)
(* batch_verify_prepared: prepare_signature_neg_generator(sig)?;           *)
(* prepared_g1s = [prepared_signature] ++ prepared_message_hashes;         *)
(* prepared_g2s = [prepared_g2_neg_generator] ++ prepared_pub_keys;        *)
(* enforce_bls_equation(&prepared_g1s, &prepared_g2s)?; Ok(()).            *)
(***************************************************************************)
VerifyPrepared ==
  /\ pc = "verify_prepared"
  /\ LET prepared == PrepareSignatureNegGenerator(aggregatedSignature)
     IN  cs' = Append(cs, PairingEquation(<<prepared[1]>> \o preparedHashes,
                                          <<prepared[2]>> \o preparedKeys))
  /\ pc' = "done"
  /\ UNCHANGED <<inputs, preparedHashes, preparedKeys>>

(***************************************************************************)
(* A collaborator returns Err and ? (or collect) propagates it: prepare_g1 *)
(* of a hash, prepare_g2 of a key, the preparation of the signature or the *)
(* generator, product_of_pairings, enforce_equal.                          *)
(***************************************************************************)
SynthesisFailure ==
  /\ \/ pc = "prepare_hashes" /\ Len(preparedHashes) < Len(messageHashes)
     \/ pc = "prepare_keys" /\ Len(preparedKeys) < Len(aggregatedPubKeys)
     \/ pc = "verify_prepared"
  /\ pc' = "error"
  /\ UNCHANGED <<inputs, preparedHashes, preparedKeys, cs>>

Terminated == pc \in {"done", "error"} /\ UNCHANGED vars

Next ==
  \/ PrepareHash
  \/ HashesPrepared
  \/ PrepareKey
  \/ KeysPrepared
  \/ VerifyPrepared
  \/ SynthesisFailure
  \/ Terminated

Spec == Init /\ [][Next]_vars

-----------------------------------------------------------------------------
TypeOK ==
  /\ aggregatedPubKeys \in SeqsUpTo(G, MaxBatch)
  /\ messageHashes \in SeqsUpTo(G, MaxBatch)
  /\ aggregatedSignature \in G
  /\ pc \in {"prepare_hashes", "prepare_keys", "verify_prepared", "done",
             "error"}
  /\ preparedHashes \in SeqsUpTo(G, MaxBatch)
  /\ preparedKeys \in SeqsUpTo(G, MaxBatch)
  /\ cs \in Seq(Constraint)

(***************************************************************************)
(* What batch_verify records: when it returns Ok, the circuit holds one    *)
(* pairing equation and nothing else, over the signature then every       *)
(* message hash in order, against the negated generator then every key in *)
(* order -- the prepare_g1/prepare_g2 maps and extend_from_slice lose,     *)
(* repeat or reorder nothing.                                              *)
(***************************************************************************)
BatchEquationCoversInputs ==
  pc = "done" =>
    cs = <<PairingEquation(<<aggregatedSignature>> \o messageHashes,
                           <<GNeg(G2Generator)>> \o aggregatedPubKeys)>>

(***************************************************************************)
(* Batch verification (spec section 4.1): for a batch whose slices have    *)
(* the same length, batch_verify returning Ok gives a satisfied circuit    *)
(* exactly when e(sig, g2) = prod_i e(H(m_i), apk_i) -- every pair is in   *)
(* the product, in order, against the signature with the negated          *)
(* generator; the empty batch included.                                    *)
(***************************************************************************)
BatchSatisfiedIffGenuine ==
  pc = "done" /\ Len(messageHashes) = Len(aggregatedPubKeys) =>
    (IsSatisfied(cs) <=>
       Pair(aggregatedSignature, G2Generator)
         = ProductOfPairings(messageHashes, aggregatedPubKeys))

(***************************************************************************)
(* Spec section 8: message hashes and keys of different number yield an   *)
(* input-shape error before any constraint on them is added.  Neither      *)
(* batch_verify nor batch_verify_prepared compares the lengths, so such a  *)
(* call returns Ok with a pairing equation over the zipped prefix.         *)
(***************************************************************************)
BatchShapeChecked ==
  Len(messageHashes) # Len(aggregatedPubKeys) => pc # "done" /\ cs = <<>>
=============================================================================
