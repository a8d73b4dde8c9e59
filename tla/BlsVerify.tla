------------------------------ MODULE BlsVerify ------------------------------
(***************************************************************************)
(* BlsVerifyGadget::verify (crates/bls-gadgets/src/bls.rs) as the sequence *)
(* of steps it takes on the shared constraint system:                      *)
(*                                                                         *)
(*   verify -> enforce_bitmap -> enforce_maximum_occurrences_in_bitmap     *)
(*                            -> enforce_aggregated_pubkeys (assert, loop) *)
(*          -> prepare_g2 / prepare_g1 / prepare_signature_neg_generator   *)
(*          -> enforce_bls_equation                                        *)
(*                                                                         *)
(* The inputs (public keys, signer bitmap, message hash, signature,        *)
(* threshold) are chosen in Init and never change.  The constraint system  *)
(* cs is the sequence of the constraints the call records; every other     *)
(* wire the gadget allocates (select outputs, sums, prepared points) is    *)
(* fixed by the inputs under the honest witness and is left out.  The      *)
(* circuit is satisfied when every recorded constraint holds.  A call ends *)
(* in "done" (Ok), "error" (a SynthesisError of a collaborator, propagated *)
(* by ?) or "panic" (the assert_eq! of enforce_aggregated_pubkeys).        *)
(***************************************************************************)
EXTENDS Primitives

CONSTANT MaxValidators   \* longest key sequence / bitmap passed in

ASSUME MaxValidatorsAssumption == MaxValidators \in Nat

VARIABLES
  pubKeys,            \* pub_keys: &[P::G2Var]
  signedBitmap,       \* signed_bitmap: &[Boolean<F>]
  messageHash,        \* message_hash: &P::G1Var
  signature,          \* signature: &P::G1Var
  maximumNonSigners,  \* maximum_non_signers: &FpVar<F>
  pc,                 \* the statement the call is at
  i,                  \* loop index of enforce_aggregated_pubkeys
  aggregatedPk,       \* let mut aggregated_pk
  cs                  \* the constraints recorded so far

inputs == <<pubKeys, signedBitmap, messageHash, signature, maximumNonSigners>>
vars == <<inputs, pc, i, aggregatedPk, cs>>

Thresholds == 0..MaxValidators

Satisfied == IsSatisfied(cs)

Init ==
  /\ pubKeys \in SeqsUpTo(G, MaxValidators)
  /\ signedBitmap \in SeqsUpTo(BOOLEAN, MaxValidators)
  /\ messageHash \in G
  /\ signature \in G
  /\ maximumNonSigners \in Thresholds
  /\ pc = "enforce_bitmap"
  /\ i = 1
  /\ aggregatedPk = Zero
  /\ cs = <<>>

\* Mutant: the occurrence check counts true bits instead of false ones.
EnforceBitmapCountingSigners ==
  /\ pc = "enforce_bitmap"
  /\ cs' = Append(cs, MaxOccurrences(signedBitmap, maximumNonSigners, TRUE))
  /\ pc' = "assert_len"
  /\ UNCHANGED <<inputs, i, aggregatedPk>>

(***************************************************************************)
(* enforce_bitmap: signed_bitmap.enforce_maximum_occurrences_in_bitmap(    *)
(* maximum_non_signers, false)?  -- recorded before anything is checked    *)
(* about the lengths.                                                      *)
(***************************************************************************)
EnforceBitmap ==
  /\ pc = "enforce_bitmap"
  /\ cs' = Append(cs, MaxOccurrences(signedBitmap, maximumNonSigners, FALSE))
  /\ pc' = "assert_len"
  /\ UNCHANGED <<inputs, i, aggregatedPk>>

\* Mutant: the loop index starts at 0.
AssertSameLengthFromZero ==
  /\ pc = "assert_len"
  /\ pc' = IF Len(signedBitmap) = Len(pubKeys) THEN "aggregate" ELSE "panic"
  /\ aggregatedPk' = Zero
  /\ i' = 0
  /\ UNCHANGED <<inputs, cs>>

(***************************************************************************)
(* enforce_aggregated_pubkeys: assert_eq!(signed_bitmap.len(),             *)
(* pub_keys.len()) aborts the call; otherwise aggregated_pk starts at zero *)
(***************************************************************************)
AssertSameLength ==
  /\ pc = "assert_len"
  /\ pc' = IF Len(signedBitmap) = Len(pubKeys) THEN "aggregate" ELSE "panic"
  /\ aggregatedPk' = Zero
  /\ i' = 1
  /\ UNCHANGED <<inputs, cs>>

\* Mutant: the select picks the key when the bit is false.
AggregateStepSwapped ==
  /\ pc = "aggregate"
  /\ i <= Len(pubKeys)
  /\ aggregatedPk' =
       GAdd(aggregatedPk, IF signedBitmap[i] THEN Zero ELSE pubKeys[i])
  /\ i' = i + 1
  /\ UNCHANGED <<inputs, pc, cs>>

(***************************************************************************)
(* One iteration of the zip loop: adder = bit.select(pk, zero)?;           *)
(* aggregated_pk += &adder.                                                *)
(***************************************************************************)
AggregateStep ==
  /\ pc = "aggregate"
  /\ i <= Len(pubKeys)
  /\ aggregatedPk' =
       GAdd(aggregatedPk, IF signedBitmap[i] THEN pubKeys[i] ELSE Zero)
  /\ i' = i + 1
  /\ UNCHANGED <<inputs, pc, cs>>

\* Mutant: the loop stops before the last key.
AggregateDoneEarly ==
  /\ pc = "aggregate"
  /\ i >= Len(pubKeys)
  /\ pc' = "verify_equation"
  /\ UNCHANGED <<inputs, i, aggregatedPk, cs>>

\* The loop ends; enforce_bitmap returns (message_hash, aggregated_pk).
AggregateDone ==
  /\ pc = "aggregate"
  /\ i > Len(pubKeys)
  /\ pc' = "verify_equation"
  /\ UNCHANGED <<inputs, i, aggregatedPk, cs>>

(***************************************************************************)
(* verify, after enforce_bitmap: prepare aggregated_pk and message_hash,   *)
(* then enforce_bls_equation(                                              *)
(*   [prepared_signature, prepared_message_hash],                          *)
(*   [prepared_g2_neg_generator, prepared_aggregated_pk]),                 *)
(* i.e. e(sig, -g2) * e(H(m), apk) = 1.                                    *)
(***************************************************************************)
VerifyEquation ==
  /\ pc = "verify_equation"
  /\ LET prepared == PrepareSignatureNegGenerator(signature)
     IN  cs' = Append(cs, PairingEquation(<<prepared[1], messageHash>>,
                                          <<prepared[2], aggregatedPk>>))
  /\ pc' = "done"
  /\ UNCHANGED <<inputs, i, aggregatedPk>>

(***************************************************************************)
(* A collaborator call returns Err(SynthesisError) and ? propagates it:    *)
(* enforce_maximum_occurrences_in_bitmap, bit.select, prepare_g1,          *)
(* prepare_g2, new_constant, negate, product_of_pairings, enforce_equal.   *)
(***************************************************************************)
SynthesisFailure ==
  /\ \/ pc \in {"enforce_bitmap", "verify_equation"}
     \/ pc = "aggregate" /\ i <= Len(pubKeys)
  /\ pc' = "error"
  /\ UNCHANGED <<inputs, i, aggregatedPk, cs>>

Terminated == pc \in {"done", "error", "panic"} /\ UNCHANGED vars

Next ==
  \/ EnforceBitmap
  \/ AssertSameLength
  \/ AggregateStep
  \/ AggregateDone
  \/ VerifyEquation
  \/ SynthesisFailure
  \/ Terminated

Spec == Init /\ [][Next]_vars

-----------------------------------------------------------------------------
TypeOK ==
  /\ pubKeys \in SeqsUpTo(G, MaxValidators)
  /\ signedBitmap \in SeqsUpTo(BOOLEAN, MaxValidators)
  /\ messageHash \in G
  /\ signature \in G
  /\ maximumNonSigners \in Thresholds
  /\ pc \in {"enforce_bitmap", "assert_len", "aggregate", "verify_equation",
             "done", "error", "panic"}
  /\ i \in 1..(MaxValidators + 1)
  /\ aggregatedPk \in G
  /\ cs \in Seq(Constraint)

(***************************************************************************)
(* Threshold: when verify returns Ok and the circuit is satisfied, at most *)
(* maximum_non_signers entries of the bitmap are false (enforce_bitmap's   *)
(* occurrence constraint is on the bitmap the keys were aggregated with).  *)
(***************************************************************************)
ThresholdEnforced ==
  pc = "done" /\ Satisfied => NonSigners(signedBitmap) <= maximumNonSigners

(***************************************************************************)
(* Soundness: when verify returns Ok and the circuit is satisfied, then    *)
(* e(sig, g2) = e(H(m), apk) where apk is the sum of exactly the keys      *)
(* whose bit is set -- the select/add loop computes the aggregate key the  *)
(* pairing equation is checked against.                                    *)
(***************************************************************************)
SignatureSound ==
  pc = "done" /\ Satisfied =>
    Pair(signature, G2Generator)
      = Pair(messageHash, AggregateOf(pubKeys, signedBitmap))

(***************************************************************************)
(* Completeness (spec section 8): a genuine aggregate signature by the set *)
(* marked in the bitmap, with at most maximum_non_signers unset bits,      *)
(* gives a satisfied circuit when verify returns Ok.                       *)
(***************************************************************************)
SignatureComplete ==
  /\ pc = "done"
  /\ NonSigners(signedBitmap) <= maximumNonSigners
  /\ signature = Pair(messageHash, AggregateOf(pubKeys, signedBitmap))
  => Satisfied

(***************************************************************************)
(* Spec section 8: a bitmap whose length differs from the number of keys   *)
(* yields the input-shape error before any constraint on that data is      *)
(* added.  verify records the occurrence constraint and only then reaches  *)
(* the assert_eq! of enforce_aggregated_pubkeys.                           *)
(***************************************************************************)
NoConstraintBeforeShapeError == pc = "panic" => cs = <<>>

-----------------------------------------------------------------------------
(***************************************************************************)
(* Refinement: the step-by-step call implements the atomic BlsVerifyCall.  *)
(* Until the call returns, the abstract call is pending with nothing       *)
(* recorded; the step that returns is the abstract Verify step.            *)
(***************************************************************************)
CallResult ==
  CASE pc = "done" -> "ok"
    [] pc \in {"error", "panic"} -> pc
    [] OTHER -> "pending"

CallConstraints == IF CallResult = "pending" THEN <<>> ELSE cs

Call == INSTANCE BlsVerifyCall WITH result <- CallResult, cs <- CallConstraints

\* verify returns one of the outcomes, with the constraints, that the
\* atomic call allows, whatever collaborator fails and wherever.
VerifyImplementsCall == Call!Spec
=============================================================================
