------------------------- MODULE BlsBatchVerifyProofs -------------------------
(***************************************************************************)
(* Proofs about BlsBatchVerify for every group order Q and every bound     *)
(* MaxBatch: the type invariant, and that batch_verify returning Ok has    *)
(* recorded exactly the one pairing equation over all of its inputs.       *)
(*                                                                         *)
(* That equation holds exactly when the product of the pairs is the       *)
(* signature (BatchProduct), which gives BatchSatisfiedIffGenuine.         *)
(***************************************************************************)
EXTENDS BlsBatchVerify, PrimitivesProofs

\* p holds the first Len(p) elements of s.
Prefix(p, s) == Len(p) <= Len(s) /\ \A j \in 1..Len(p) : p[j] = s[j]

\* The equation batch_verify_prepared records for the whole input.
Equation ==
  PairingEquation(<<aggregatedSignature>> \o messageHashes,
                  <<GNeg(G2Generator)>> \o aggregatedPubKeys)

(***************************************************************************)
(* The maps prepare the slices in order, each collect finishes only once   *)
(* its slice is complete, and nothing is recorded before the equation.     *)
(***************************************************************************)
IInv ==
  /\ TypeOK
  /\ Prefix(preparedHashes, messageHashes)
  /\ Prefix(preparedKeys, aggregatedPubKeys)
  /\ pc \in {"prepare_keys", "verify_prepared", "done"}
       => preparedHashes = messageHashes
  /\ pc \in {"verify_prepared", "done"} => preparedKeys = aggregatedPubKeys
  /\ cs = IF pc = "done" THEN <<Equation>> ELSE <<>>

-----------------------------------------------------------------------------
\* Preparing the next element keeps the prefix.
LEMMA PrefixAppend ==
  ASSUME NEW S, NEW p \in Seq(S), NEW s \in Seq(S), Prefix(p, s),
         Len(p) < Len(s)
  PROVE  /\ Append(p, s[Len(p) + 1]) \in Seq(S)
         /\ Len(Append(p, s[Len(p) + 1])) <= Len(s)
         /\ Prefix(Append(p, s[Len(p) + 1]), s)
<1>1. Len(p) \in Nat /\ Len(s) \in Nat /\ Len(p) + 1 \in 1..Len(s)
  BY LenProperties
<1>2. s[Len(p) + 1] \in S
  BY <1>1, ElementOfSeq
<1>. QED  BY <1>1, <1>2, AppendProperties DEF Prefix

\* A prefix as long as the sequence is the sequence.
LEMMA PrefixFull ==
  ASSUME NEW S, NEW p \in Seq(S), NEW s \in Seq(S), Prefix(p, s),
         Len(p) = Len(s)
  PROVE  p = s
BY SeqEqual DEF Prefix

\* The equation over the whole input is a constraint.
LEMMA EquationType ==
  ASSUME TypeOK
  PROVE  Equation \in Constraint
<1>1. GNeg(G2Generator) \in G
  BY QPositive DEF GNeg, G2Generator, G
<1>2. /\ messageHashes \in Seq(G)
      /\ aggregatedPubKeys \in Seq(G)
  BY SeqsUpToLen, MaxBatchAssumption DEF TypeOK
<1>3. /\ <<aggregatedSignature>> \o messageHashes \in Seq(G)
      /\ <<GNeg(G2Generator)>> \o aggregatedPubKeys \in Seq(G)
  <2>1. <<aggregatedSignature>> \in Seq(G) /\ <<GNeg(G2Generator)>> \in Seq(G)
    BY <1>1 DEF TypeOK
  <2>. QED  BY <1>2, <2>1, ConcatProperties
<1>. QED  BY <1>3 DEF Equation, PairingEquation, Constraint

LEMMA InitIInv == Init => IInv
<1> SUFFICES ASSUME Init PROVE IInv
  OBVIOUS
<1>1. <<>> \in SeqsUpTo(G, MaxBatch)
  <2>1. <<>> \in Seq(G) /\ Len(<<>>) <= MaxBatch
    BY EmptySeq, MaxBatchAssumption
  <2>. QED  BY <2>1, SeqsUpToIntro, MaxBatchAssumption
<1>2. TypeOK
  BY <1>1, EmptySeq DEF Init, TypeOK
<1>. QED  BY <1>2, EmptySeq DEF Init, IInv, Prefix

LEMMA NextIInv == IInv /\ [Next]_vars => IInv'
<1> SUFFICES ASSUME IInv, [Next]_vars PROVE IInv'
  OBVIOUS
<1>0. /\ messageHashes \in Seq(G) /\ Len(messageHashes) <= MaxBatch
      /\ aggregatedPubKeys \in Seq(G) /\ Len(aggregatedPubKeys) <= MaxBatch
      /\ preparedHashes \in Seq(G) /\ preparedKeys \in Seq(G)
  BY SeqsUpToLen, MaxBatchAssumption DEF IInv, TypeOK
<1>1. CASE PrepareHash
  <2> DEFINE next == Append(preparedHashes,
                            messageHashes[Len(preparedHashes) + 1])
  <2>1. /\ next \in Seq(G)
        /\ Len(next) <= Len(messageHashes)
        /\ Prefix(next, messageHashes)
    <3>1. Len(preparedHashes) < Len(messageHashes)
      BY <1>1 DEF PrepareHash
    <3>. QED  BY <1>0, <3>1, PrefixAppend DEF IInv
  <2>2. next \in SeqsUpTo(G, MaxBatch)
    <3>1. Len(next) <= MaxBatch
      <4>1. Len(next) \in Nat /\ Len(messageHashes) \in Nat
        BY <1>0, <2>1, LenProperties
      <4>. QED  BY <4>1, <1>0, <2>1, MaxBatchAssumption
    <3>. QED  BY <2>1, <3>1, SeqsUpToIntro, MaxBatchAssumption
  <2>. QED  BY <1>1, <2>1, <2>2 DEF IInv, TypeOK, PrepareHash, inputs, Equation
<1>2. CASE HashesPrepared
  <2>1. preparedHashes = messageHashes
    BY <1>0, <1>2, PrefixFull DEF IInv, HashesPrepared
  <2>. QED  BY <1>2, <2>1 DEF IInv, TypeOK, HashesPrepared, inputs, Equation
<1>3. CASE PrepareKey
  <2> DEFINE next == Append(preparedKeys,
                            aggregatedPubKeys[Len(preparedKeys) + 1])
  <2>1. /\ next \in Seq(G)
        /\ Len(next) <= Len(aggregatedPubKeys)
        /\ Prefix(next, aggregatedPubKeys)
    <3>1. Len(preparedKeys) < Len(aggregatedPubKeys)
      BY <1>3 DEF PrepareKey
    <3>. QED  BY <1>0, <3>1, PrefixAppend DEF IInv
  <2>2. next \in SeqsUpTo(G, MaxBatch)
    <3>1. Len(next) <= MaxBatch
      <4>1. Len(next) \in Nat /\ Len(aggregatedPubKeys) \in Nat
        BY <1>0, <2>1, LenProperties
      <4>. QED  BY <4>1, <1>0, <2>1, MaxBatchAssumption
    <3>. QED  BY <2>1, <3>1, SeqsUpToIntro, MaxBatchAssumption
  <2>. QED  BY <1>3, <2>1, <2>2 DEF IInv, TypeOK, PrepareKey, inputs, Equation
<1>4. CASE KeysPrepared
  <2>1. preparedKeys = aggregatedPubKeys
    BY <1>0, <1>4, PrefixFull DEF IInv, KeysPrepared
  <2>. QED  BY <1>4, <2>1 DEF IInv, TypeOK, KeysPrepared, inputs, Equation
<1>5. CASE VerifyPrepared
  <2>1. preparedHashes = messageHashes /\ preparedKeys = aggregatedPubKeys
        /\ cs = <<>>
    BY <1>5 DEF VerifyPrepared, IInv
  <2>2. cs' = <<Equation>>
    BY <1>5, <2>1
       DEF VerifyPrepared, PrepareSignatureNegGenerator, Equation
  <2>3. <<Equation>> \in Seq(Constraint)
    <3>1. Equation \in Constraint
      BY EquationType DEF IInv
    <3>. QED  BY <3>1
  <2>4. Equation' = Equation
    BY <1>5 DEF VerifyPrepared, inputs, Equation
  <2>. QED  BY <1>5, <2>2, <2>3, <2>4 DEF IInv, TypeOK, VerifyPrepared, inputs
<1>6. CASE SynthesisFailure
  BY <1>6 DEF IInv, TypeOK, SynthesisFailure, inputs, Equation
<1>7. CASE Terminated
  BY <1>7 DEF IInv, TypeOK, Terminated, vars, inputs, Equation
<1>8. CASE UNCHANGED vars
  BY <1>8 DEF IInv, TypeOK, vars, inputs, Equation
<1>. QED  BY <1>1, <1>2, <1>3, <1>4, <1>5, <1>6, <1>7, <1>8 DEF Next

LEMMA IInvCovers == IInv => BatchEquationCoversInputs
BY DEF IInv, BatchEquationCoversInputs, Equation

-----------------------------------------------------------------------------
\* batch_verify's reachable states are well typed, for every Q and MaxBatch.
THEOREM TypeCorrect == Spec => []TypeOK
<1>1. IInv /\ [][Next]_vars => []IInv
  BY NextIInv, PTL
<1>. QED  BY InitIInv, <1>1, PTL DEF Spec, IInv

(***************************************************************************)
(* For every Q and MaxBatch and every two slices: when batch_verify        *)
(* returns Ok, the prepare_g1/prepare_g2 maps and extend_from_slice have   *)
(* put every message hash and every key, in order, into the one pairing    *)
(* equation recorded, after the signature and the negated generator.       *)
(***************************************************************************)
THEOREM CoversTheorem == Spec => []BatchEquationCoversInputs
<1>1. IInv /\ [][Next]_vars => []IInv
  BY NextIInv, PTL
<1>. QED  BY InitIInv, <1>1, IInvCovers, PTL DEF Spec

(***************************************************************************)
(* Batch verification for every Q and MaxBatch: when batch_verify returns  *)
(* Ok over slices of the same length, the circuit is satisfied exactly     *)
(* when e(sig, g2) = prod_i e(H(m_i), apk_i) -- the one equation it        *)
(* records, with the negated generator paired with the signature in front, *)
(* says that and nothing else, the empty batch included.                   *)
(***************************************************************************)
THEOREM GenuineTheorem == Spec => []BatchSatisfiedIffGenuine
<1>1. IInv => BatchSatisfiedIffGenuine
  <2> SUFFICES ASSUME IInv, pc = "done",
                      Len(messageHashes) = Len(aggregatedPubKeys)
               PROVE  IsSatisfied(cs) <=>
                        Pair(aggregatedSignature, G2Generator)
                          = ProductOfPairings(messageHashes, aggregatedPubKeys)
    BY DEF BatchSatisfiedIffGenuine
  <2>1. /\ messageHashes \in Seq(G) /\ aggregatedPubKeys \in Seq(G)
        /\ aggregatedSignature \in G
    BY SeqsUpToLen, MaxBatchAssumption DEF IInv, TypeOK
  <2>2. cs = <<Equation>>
    BY DEF IInv
  <2>3. IsSatisfied(cs) <=> Holds(Equation)
    BY <2>2 DEF IsSatisfied
  <2>4. Holds(Equation)
          <=> ProductOfPairings(<<aggregatedSignature>> \o messageHashes,
                <<GNeg(G2Generator)>> \o aggregatedPubKeys) = GTOne
    BY Zenon DEF Holds, Equation, PairingEquation
  <2>5. (ProductOfPairings(<<aggregatedSignature>> \o messageHashes,
           <<GNeg(G2Generator)>> \o aggregatedPubKeys) = GTOne)
          <=> (ProductOfPairings(messageHashes, aggregatedPubKeys)
                 = aggregatedSignature)
    BY <2>1, BatchProduct
  <2>6. Pair(aggregatedSignature, G2Generator) = aggregatedSignature
    BY <2>1, PairGenerator
  <2>. QED  BY <2>3, <2>4, <2>5, <2>6
<1>2. IInv /\ [][Next]_vars => []IInv
  BY NextIInv, PTL
<1>. QED  BY InitIInv, <1>1, <1>2, PTL DEF Spec
=============================================================================
