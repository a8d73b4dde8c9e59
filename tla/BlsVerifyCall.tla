---------------------------- MODULE BlsVerifyCall ----------------------------
(***************************************************************************)
(* What a call of BlsVerifyGadget::verify promises, as one atomic step:    *)
(* it returns Ok having recorded the occurrence constraint and the BLS     *)
(* pairing equation over the aggregate of the selected keys, or panics on  *)
(* a length mismatch having recorded the occurrence constraint, or returns *)
(* a SynthesisError having recorded at most the occurrence constraint.    *)
(***************************************************************************)
EXTENDS Primitives

CONSTANT MaxValidators

VARIABLES pubKeys, signedBitmap, messageHash, signature, maximumNonSigners,
          result,   \* "pending", "ok", "error" or "panic"
          cs        \* the constraints recorded by the call

vars == <<pubKeys, signedBitmap, messageHash, signature, maximumNonSigners,
          result, cs>>

Init ==
  /\ pubKeys \in SeqsUpTo(G, MaxValidators)
  /\ signedBitmap \in SeqsUpTo(BOOLEAN, MaxValidators)
  /\ messageHash \in G
  /\ signature \in G
  /\ maximumNonSigners \in 0..MaxValidators
  /\ result = "pending"
  /\ cs = <<>>

Verify ==
  LET occ == MaxOccurrences(signedBitmap, maximumNonSigners, FALSE)
      eq  == PairingEquation(<<signature, messageHash>>,
               <<GNeg(G2Generator), AggregateOf(pubKeys, signedBitmap)>>)
      sameLength == Len(signedBitmap) = Len(pubKeys)
  IN
  /\ result = "pending"
  /\ \/ sameLength /\ result' = "ok" /\ cs' = <<occ, eq>>
     \/ ~sameLength /\ result' = "panic" /\ cs' = <<occ>>
     \/ result' = "error" /\ cs' = <<>>
     \/ sameLength /\ result' = "error" /\ cs' = <<occ>>
  /\ UNCHANGED <<pubKeys, signedBitmap, messageHash, signature,
                 maximumNonSigners>>

Next == Verify \/ (result # "pending" /\ UNCHANGED vars)

Spec == Init /\ [][Next]_vars
=============================================================================
