--------------------------- MODULE BlsVerifyProofs ---------------------------
(***************************************************************************)
(* Proofs about BlsVerify for every group order Q and every bound          *)
(* MaxValidators: the type invariant, and that an Ok result of verify on a *)
(* satisfied circuit implies the threshold of non-signers was respected.   *)
(***************************************************************************)
EXTENDS BlsVerify, PrimitivesProofs

\* The pairing equation recorded by verify is a constraint.
LEMMA EquationRecordType ==
  ASSUME TypeOK
  PROVE  PairingEquation(<<signature, messageHash>>,
                         <<GNeg(G2Generator), aggregatedPk>>) \in Constraint
<1>1. GNeg(G2Generator) \in G
  BY QPositive DEF GNeg, G2Generator, G
<1>2. /\ <<signature, messageHash>> \in Seq(G)
      /\ <<GNeg(G2Generator), aggregatedPk>> \in Seq(G)
  BY <1>1 DEF TypeOK
<1>. QED  BY <1>2 DEF PairingEquation, Constraint

-----------------------------------------------------------------------------
THEOREM TypeCorrect == Spec => []TypeOK
<1>1. Init => TypeOK
  BY QPositive, MaxValidatorsAssumption DEF Init, TypeOK, Zero, G
<1>2. TypeOK /\ [Next]_vars => TypeOK'
  <2> SUFFICES ASSUME TypeOK, [Next]_vars PROVE TypeOK'
    OBVIOUS
  <2> USE DEF TypeOK, inputs
  <2>0. /\ pubKeys \in Seq(G) /\ Len(pubKeys) <= MaxValidators
        /\ signedBitmap \in Seq(BOOLEAN)
    BY SeqsUpToLen, MaxValidatorsAssumption
  <2>1. CASE EnforceBitmap
    <3>1. MaxOccurrences(signedBitmap, maximumNonSigners, FALSE) \in Constraint
      BY <2>0 DEF MaxOccurrences, Constraint, Thresholds
    <3>. QED  BY <2>1, <3>1, AppendProperties DEF EnforceBitmap
  <2>2. CASE AssertSameLength
    BY <2>2, QPositive, MaxValidatorsAssumption DEF AssertSameLength, Zero, G
  <2>3. CASE AggregateStep
    <3>1. (IF signedBitmap[i] THEN pubKeys[i] ELSE Zero) \in G
      <4>1. i \in 1..Len(pubKeys)
        BY <2>3 DEF AggregateStep
      <4>. QED  BY <4>1, <2>0, GroupClosed, ElementOfSeq
    <3>2. aggregatedPk' \in G
      BY <2>3, <3>1, GroupClosed DEF AggregateStep
    <3>3. i' \in 1..(MaxValidators + 1)
      BY <2>3, <2>0, MaxValidatorsAssumption DEF AggregateStep
    <3>. QED  BY <2>3, <3>2, <3>3 DEF AggregateStep
  <2>4. CASE AggregateDone
    BY <2>4 DEF AggregateDone
  <2>5. CASE VerifyEquation
    BY <2>5, EquationRecordType, AppendProperties
       DEF VerifyEquation, PrepareSignatureNegGenerator
  <2>6. CASE SynthesisFailure
    BY <2>6 DEF SynthesisFailure
  <2>7. CASE Terminated
    BY <2>7 DEF Terminated, vars, inputs
  <2>8. CASE UNCHANGED vars
    BY <2>8 DEF vars, inputs
  <2>. QED  BY <2>1, <2>2, <2>3, <2>4, <2>5, <2>6, <2>7, <2>8 DEF Next
<1>. QED  BY <1>1, <1>2, PTL DEF Spec
-----------------------------------------------------------------------------
(***************************************************************************)
(* The occurrence constraint over the call's own bitmap and threshold is   *)
(* the first constraint recorded, from enforce_bitmap on, and nothing      *)
(* is recorded before it.                                                  *)
(***************************************************************************)
OccurrenceRecorded ==
  /\ pc = "enforce_bitmap" => cs = <<>>
  /\ pc \in {"assert_len", "aggregate", "verify_equation", "done", "panic"} =>
       /\ Len(cs) >= 1
       /\ cs[1] = MaxOccurrences(signedBitmap, maximumNonSigners, FALSE)

IInv == TypeOK /\ OccurrenceRecorded

LEMMA IInvInductive == Spec => []IInv
<1>1. Init => IInv
  BY QPositive, MaxValidatorsAssumption DEF Init, IInv, TypeOK,
     OccurrenceRecorded, Zero, G
<1>2. IInv /\ [Next]_vars => OccurrenceRecorded'
  <2> SUFFICES ASSUME IInv, [Next]_vars PROVE OccurrenceRecorded'
    OBVIOUS
  <2> USE DEF IInv, OccurrenceRecorded, inputs
  <2>1. CASE EnforceBitmap
    <3> DEFINE m == MaxOccurrences(signedBitmap, maximumNonSigners, FALSE)
    <3>1. cs = <<>>
      BY <2>1 DEF EnforceBitmap
    <3>2. cs \in Seq({m})
      BY <3>1, EmptySeq
    <3>3. Len(Append(cs, m)) = 1 /\ Append(cs, m)[1] = m
      BY <3>1, <3>2, AppendProperties
    <3>4. /\ signedBitmap' = signedBitmap
          /\ maximumNonSigners' = maximumNonSigners
          /\ cs' = Append(cs, m)
          /\ pc' = "assert_len"
      BY <2>1 DEF EnforceBitmap
    <3>. QED  BY <3>3, <3>4 DEF MaxOccurrences
  <2>2. CASE AssertSameLength
    BY <2>2 DEF AssertSameLength
  <2>3. CASE AggregateStep
    BY <2>3 DEF AggregateStep
  <2>4. CASE AggregateDone
    BY <2>4 DEF AggregateDone
  <2>5. CASE VerifyEquation
    <3> DEFINE e == PairingEquation(<<signature, messageHash>>,
                                    <<GNeg(G2Generator), aggregatedPk>>)
    <3>1. cs \in Seq(Constraint) /\ Len(cs) >= 1 /\ e \in Constraint
      BY <2>5, EquationRecordType DEF VerifyEquation, TypeOK
    <3>2. Len(Append(cs, e)) >= 1 /\ Append(cs, e)[1] = cs[1]
      BY <3>1, AppendProperties
    <3>3. /\ signedBitmap' = signedBitmap
          /\ maximumNonSigners' = maximumNonSigners
          /\ cs' = Append(cs, e)
          /\ pc' = "done"
      BY <2>5 DEF VerifyEquation, PrepareSignatureNegGenerator
    <3>4. cs[1] = MaxOccurrences(signedBitmap, maximumNonSigners, FALSE)
      BY <2>5 DEF VerifyEquation
    <3>. QED  BY <3>2, <3>3, <3>4 DEF MaxOccurrences
  <2>6. CASE SynthesisFailure
    BY <2>6 DEF SynthesisFailure
  <2>7. CASE Terminated
    BY <2>7 DEF Terminated, vars
  <2>8. CASE UNCHANGED vars
    BY <2>8 DEF vars
  <2>. QED  BY <2>1, <2>2, <2>3, <2>4, <2>5, <2>6, <2>7, <2>8 DEF Next
<1>. QED  BY <1>1, <1>2, TypeCorrect, PTL DEF Spec, IInv

(***************************************************************************)
(* Threshold enforcement of verify for every Q and MaxValidators: an Ok    *)
(* result on a satisfied circuit implies at most maximum_non_signers       *)
(* entries of the signer bitmap are false.                                 *)
(***************************************************************************)
THEOREM ThresholdTheorem == Spec => []ThresholdEnforced
<1>1. IInv => ThresholdEnforced
  <2> SUFFICES ASSUME IInv, pc = "done", Satisfied
               PROVE  NonSigners(signedBitmap) <= maximumNonSigners
    BY DEF ThresholdEnforced
  <2>1. Len(cs) >= 1
        /\ cs[1] = MaxOccurrences(signedBitmap, maximumNonSigners, FALSE)
    BY DEF IInv, OccurrenceRecorded
  <2>2. cs \in Seq(Constraint)
    BY DEF IInv, TypeOK
  <2>3. Holds(cs[1])
    <3>1. 1 \in DOMAIN cs
      BY <2>1, <2>2, LenProperties
    <3>. QED  BY <3>1 DEF Satisfied, IsSatisfied
  <2>4. {k \in DOMAIN signedBitmap : signedBitmap[k] = FALSE}
          = {k \in DOMAIN signedBitmap : ~signedBitmap[k]}
    <3>1. signedBitmap \in Seq(BOOLEAN)
      BY SeqsUpToLen, MaxValidatorsAssumption DEF IInv, TypeOK
    <3>. QED  BY <3>1
  <2>5. Cardinality({k \in DOMAIN signedBitmap : signedBitmap[k] = FALSE})
          <= maximumNonSigners
    <3>1. Holds(MaxOccurrences(signedBitmap, maximumNonSigners, FALSE))
      BY <2>1, <2>3
    <3>. QED  BY <3>1, Zenon DEF Holds, MaxOccurrences
  <2>. QED  BY <2>4, <2>5 DEF NonSigners
<1>. QED  BY <1>1, IInvInductive, PTL
-----------------------------------------------------------------------------
(***************************************************************************)
(* What the call has recorded at each statement, and what the aggregation  *)
(* loop has summed: after i - 1 iterations aggregated_pk is the aggregate  *)
(* of the first i - 1 keys (AggFn, the function AggregateOf is defined     *)
(* through).                                                               *)
(***************************************************************************)
Occ == MaxOccurrences(signedBitmap, maximumNonSigners, FALSE)

Eq == PairingEquation(<<signature, messageHash>>,
        <<GNeg(G2Generator), AggregateOf(pubKeys, signedBitmap)>>)

SameLength == Len(signedBitmap) = Len(pubKeys)

CallInv ==
  /\ pc = "enforce_bitmap" => cs = <<>>
  /\ pc \in {"assert_len", "aggregate", "verify_equation", "panic"}
       => cs = <<Occ>>
  /\ pc \in {"aggregate", "verify_equation", "done"} => SameLength
  /\ pc = "panic" => ~SameLength
  /\ pc = "aggregate" => /\ i \in 1..(Len(pubKeys) + 1)
                         /\ aggregatedPk = AggFn(pubKeys, signedBitmap)[i - 1]
  /\ pc = "verify_equation" => aggregatedPk = AggregateOf(pubKeys, signedBitmap)
  /\ pc = "done" => cs = <<Occ, Eq>>
  /\ pc = "error" => cs = <<>> \/ (cs = <<Occ>> /\ SameLength)

LEMMA InitCallInv == Init => CallInv
BY DEF Init, CallInv

LEMMA NextCallInv == TypeOK /\ CallInv /\ [Next]_vars => CallInv'
<1> SUFFICES ASSUME TypeOK, CallInv, [Next]_vars PROVE CallInv'
  OBVIOUS
<1>0. /\ pubKeys \in Seq(G) /\ Len(pubKeys) \in Nat
      /\ signedBitmap \in Seq(BOOLEAN)
  BY SeqsUpToLen, MaxValidatorsAssumption, LenProperties DEF TypeOK
<1>1. CASE EnforceBitmap
  <2>1. cs = <<>> /\ cs' = Append(cs, Occ)
    BY <1>1 DEF EnforceBitmap, CallInv, Occ
  <2>2. cs' = <<Occ>>
    BY <2>1
  <2>. QED  BY <1>1, <2>2 DEF EnforceBitmap, CallInv, Occ, inputs
<1>2. CASE AssertSameLength
  <2>1. /\ pubKeys' = pubKeys /\ signedBitmap' = signedBitmap
        /\ maximumNonSigners' = maximumNonSigners /\ cs' = cs
        /\ cs = <<Occ>>
    BY <1>2 DEF AssertSameLength, CallInv, inputs
  <2>2. Occ' = Occ /\ SameLength' = SameLength
    BY <2>1 DEF Occ, SameLength
  <2>3. CASE SameLength
    <3>1. pc' = "aggregate" /\ i' = 1 /\ aggregatedPk' = Zero
      BY <1>2, <2>3 DEF AssertSameLength, SameLength
    <3>2. AggFn(pubKeys, signedBitmap)[0] = Zero /\ Len(pubKeys) \in Nat
      BY <1>0, AggFnDef
    <3>. QED  BY <2>1, <2>2, <2>3, <3>1, <3>2 DEF CallInv
  <2>4. CASE ~SameLength
    <3>1. pc' = "panic"
      BY <1>2, <2>4 DEF AssertSameLength, SameLength
    <3>. QED  BY <2>1, <2>2, <2>4, <3>1 DEF CallInv
  <2>. QED  BY <2>3, <2>4
<1>3. CASE AggregateStep
  <2>1. i \in 1..Len(pubKeys)
    BY <1>3 DEF AggregateStep, CallInv
  <2>2. aggregatedPk' = AggFn(pubKeys, signedBitmap)[i]
    <3>1. aggregatedPk = AggFn(pubKeys, signedBitmap)[i - 1]
      BY <1>3 DEF AggregateStep, CallInv
    <3>2. AggFn(pubKeys, signedBitmap)[i]
            = GAdd(AggFn(pubKeys, signedBitmap)[i - 1],
                   IF signedBitmap[i] THEN pubKeys[i] ELSE Zero)
      BY <1>0, <2>1, AggFnDef
    <3>. QED  BY <1>3, <3>1, <3>2 DEF AggregateStep
  <2>3. /\ pubKeys' = pubKeys /\ signedBitmap' = signedBitmap
        /\ maximumNonSigners' = maximumNonSigners /\ cs' = cs
        /\ signature' = signature /\ messageHash' = messageHash
        /\ pc' = "aggregate" /\ pc = "aggregate" /\ i' = i + 1
    BY <1>3 DEF AggregateStep, inputs
  <2>4. Occ' = Occ /\ SameLength' = SameLength /\ Eq' = Eq
    BY <2>3 DEF Occ, SameLength, Eq
  <2>5. i' \in 1..(Len(pubKeys) + 1) /\ i' - 1 = i
    BY <1>0, <2>1, <2>3
  <2>. QED  BY <2>2, <2>3, <2>4, <2>5 DEF CallInv
<1>4. CASE AggregateDone
  <2>1. i = Len(pubKeys) + 1
    BY <1>4 DEF AggregateDone, CallInv
  <2>2. aggregatedPk = AggregateOf(pubKeys, signedBitmap)
    BY <1>0, <1>4, <2>1, AggFnDef DEF AggregateDone, CallInv
  <2>. QED  BY <1>4, <2>2 DEF AggregateDone, CallInv, Occ, Eq, SameLength,
                              inputs
<1>5. CASE VerifyEquation
  <2>1. cs = <<Occ>> /\ aggregatedPk = AggregateOf(pubKeys, signedBitmap)
    BY <1>5 DEF VerifyEquation, CallInv
  <2>2. cs' = Append(<<Occ>>, Eq)
    BY <1>5, <2>1 DEF VerifyEquation, PrepareSignatureNegGenerator, Eq
  <2>3. cs' = <<Occ, Eq>>
    <3>1. <<Occ>> \in Seq({Occ, Eq}) /\ <<Occ, Eq>> \in Seq({Occ, Eq})
      OBVIOUS
    <3>2. /\ Append(<<Occ>>, Eq) \in Seq({Occ, Eq})
          /\ Len(Append(<<Occ>>, Eq)) = 2
          /\ Append(<<Occ>>, Eq)[1] = Occ /\ Append(<<Occ>>, Eq)[2] = Eq
      BY <3>1, AppendProperties
    <3>3. \A j \in 1..Len(Append(<<Occ>>, Eq)) :
            Append(<<Occ>>, Eq)[j] = <<Occ, Eq>>[j]
      BY <3>2
    <3>4. Append(<<Occ>>, Eq) = <<Occ, Eq>>
      BY <3>1, <3>2, <3>3, SeqEqual, Zenon
    <3>. QED  BY <2>2, <3>4
  <2>4. /\ pubKeys' = pubKeys /\ signedBitmap' = signedBitmap
        /\ maximumNonSigners' = maximumNonSigners
        /\ signature' = signature /\ messageHash' = messageHash
        /\ pc' = "done"
    BY <1>5 DEF VerifyEquation, inputs
  <2>5. Occ' = Occ /\ SameLength' = SameLength /\ Eq' = Eq
    BY <2>4 DEF Occ, SameLength, Eq
  <2>6. SameLength
    BY <1>5 DEF VerifyEquation, CallInv
  <2>. QED  BY <2>3, <2>4, <2>5, <2>6 DEF CallInv
<1>6. CASE SynthesisFailure
  BY <1>6 DEF SynthesisFailure, CallInv, Occ, Eq, SameLength, inputs
<1>7. CASE Terminated
  BY <1>7 DEF Terminated, CallInv, Occ, Eq, SameLength, vars, inputs
<1>8. CASE UNCHANGED vars
  BY <1>8 DEF CallInv, Occ, Eq, SameLength, vars, inputs
<1>. QED  BY <1>1, <1>2, <1>3, <1>4, <1>5, <1>6, <1>7, <1>8 DEF Next

\* TypeOK and CallInv hold in every reachable state.
LEMMA CallInvInductive == Spec => [](TypeOK /\ CallInv)
BY InitCallInv, NextCallInv, TypeCorrect, PTL DEF Spec

\* In a done state both recorded constraints are in the circuit.
LEMMA DoneConstraints ==
  ASSUME TypeOK, CallInv, pc = "done", Satisfied
  PROVE  Holds(Occ) /\ Holds(Eq)
<1>1. cs = <<Occ, Eq>>
  BY DEF CallInv
<1>2. Holds(cs[1]) /\ Holds(cs[2])
  BY <1>1 DEF Satisfied, IsSatisfied
<1>. QED  BY <1>1, <1>2

\* The aggregate of the call's keys is a point of G.
LEMMA CallAggregateType ==
  ASSUME TypeOK
  PROVE  AggregateOf(pubKeys, signedBitmap) \in G
BY SeqsUpToLen, MaxValidatorsAssumption, AggregateType DEF TypeOK

(***************************************************************************)
(* Soundness of verify for every Q and MaxValidators: an Ok result on a    *)
(* satisfied circuit implies e(sig, g2) = e(H(m), apk) for apk the sum of  *)
(* exactly the keys whose bit is set by the select/add loop.               *)
(***************************************************************************)
THEOREM SoundTheorem == Spec => []SignatureSound
<1>1. TypeOK /\ CallInv => SignatureSound
  <2> SUFFICES ASSUME TypeOK, CallInv, pc = "done", Satisfied
               PROVE  Pair(signature, G2Generator)
                        = Pair(messageHash, AggregateOf(pubKeys, signedBitmap))
    BY DEF SignatureSound
  <2>1. ProductOfPairings(<<signature, messageHash>>,
          <<GNeg(G2Generator), AggregateOf(pubKeys, signedBitmap)>>) = GTOne
    <3>1. Holds(Eq)
      BY DoneConstraints
    <3>. QED  BY <3>1, Zenon DEF Holds, Eq, PairingEquation
  <2>2. AggregateOf(pubKeys, signedBitmap) \in G /\ signature \in G
        /\ messageHash \in G
    BY CallAggregateType DEF TypeOK
  <2>. QED  BY <2>1, <2>2, BlsEquation
<1>. QED  BY <1>1, CallInvInductive, PTL

(***************************************************************************)
(* Completeness of verify for every Q and MaxValidators: when verify       *)
(* returns Ok, a genuine aggregate signature over the keys the bitmap      *)
(* marks, with at most maximum_non_signers unset bits, satisfies both      *)
(* constraints the call recorded.                                          *)
(***************************************************************************)
THEOREM CompleteTheorem == Spec => []SignatureComplete
<1>1. TypeOK /\ CallInv => SignatureComplete
  <2> SUFFICES ASSUME TypeOK, CallInv, pc = "done",
                      NonSigners(signedBitmap) <= maximumNonSigners,
                      signature = Pair(messageHash,
                                       AggregateOf(pubKeys, signedBitmap))
               PROVE  Satisfied
    BY DEF SignatureComplete
  <2>0. Q \in Nat /\ Q >= 2
    BY QPositive
  <2>1. Holds(Occ)
    <3>1. signedBitmap \in Seq(BOOLEAN)
      BY SeqsUpToLen, MaxValidatorsAssumption DEF TypeOK
    <3>2. {k \in DOMAIN signedBitmap : signedBitmap[k] = FALSE}
            = {k \in DOMAIN signedBitmap : ~signedBitmap[k]}
      BY <3>1
    <3>3. Cardinality({k \in DOMAIN signedBitmap : signedBitmap[k] = FALSE})
            <= maximumNonSigners
      BY <3>2 DEF NonSigners
    <3>. QED  BY <3>3, Zenon DEF Holds, Occ, MaxOccurrences
  <2>2. Holds(Eq)
    <3>1. AggregateOf(pubKeys, signedBitmap) \in G /\ signature \in G
          /\ messageHash \in G
      BY CallAggregateType DEF TypeOK
    <3>2. Pair(signature, G2Generator) = signature
      BY <2>0, <3>1, ModFacts DEF Pair, G2Generator, G
    <3>3. Pair(signature, G2Generator)
            = Pair(messageHash, AggregateOf(pubKeys, signedBitmap))
      BY <3>2
    <3>4. ProductOfPairings(<<signature, messageHash>>,
            <<GNeg(G2Generator), AggregateOf(pubKeys, signedBitmap)>>) = GTOne
      BY <3>1, <3>3, BlsEquation
    <3>. QED  BY <3>4, Zenon DEF Holds, Eq, PairingEquation
  <2>3. cs = <<Occ, Eq>>
    BY DEF CallInv
  <2>. QED  BY <2>1, <2>2, <2>3 DEF Satisfied, IsSatisfied
<1>. QED  BY <1>1, CallInvInductive, PTL
-----------------------------------------------------------------------------
\* A statement before the return maps to the pending abstract call.
LEMMA PendingMaps ==
  ASSUME pc \notin {"done", "error", "panic"}
  PROVE  CallResult = "pending" /\ CallConstraints = <<>>
BY DEF CallResult, CallConstraints

\* A step that neither returns nor changes the inputs is an abstract stutter.
LEMMA InternalStutter ==
  ASSUME pc \notin {"done", "error", "panic"},
         pc' \notin {"done", "error", "panic"},
         inputs' = inputs
  PROVE  UNCHANGED Call!vars
<1>1. CallResult = "pending" /\ CallConstraints = <<>>
  BY PendingMaps
<1>2. CallResult' = "pending" /\ CallConstraints' = <<>>
  BY DEF CallResult, CallConstraints
<1>. QED  BY <1>1, <1>2 DEF Call!vars, inputs

\* The step that returns is one of the abstract call's outcomes.
LEMMA ReturnStep ==
  ASSUME pc \notin {"done", "error", "panic"}, inputs' = inputs,
         \/ pc' = "done" /\ SameLength /\ cs' = <<Occ, Eq>>
         \/ pc' = "panic" /\ ~SameLength /\ cs' = <<Occ>>
         \/ pc' = "error" /\ cs' = <<>>
         \/ pc' = "error" /\ SameLength /\ cs' = <<Occ>>
  PROVE  Call!Verify
<1>1. CallResult = "pending"
  BY PendingMaps
<1>2. /\ CallResult' = (IF pc' = "done" THEN "ok" ELSE pc')
      /\ CallConstraints' = cs'
  BY DEF CallResult, CallConstraints
<1>3. /\ Call!MaxOccurrences(signedBitmap, maximumNonSigners, FALSE) = Occ
      /\ Call!PairingEquation(<<signature, messageHash>>,
           <<Call!GNeg(Call!G2Generator),
             Call!AggregateOf(pubKeys, signedBitmap)>>) = Eq
  BY DEF Call!MaxOccurrences, MaxOccurrences, Call!PairingEquation,
         PairingEquation, Call!GNeg, GNeg, Call!G2Generator, G2Generator,
         Call!AggregateOf, AggregateOf, Call!GAdd, GAdd, Call!Zero, Zero,
         Occ, Eq
<1>. QED  BY <1>1, <1>2, <1>3 DEF Call!Verify, SameLength, inputs

LEMMA InitMaps == Init => Call!Init
<1> SUFFICES ASSUME Init PROVE Call!Init
  OBVIOUS
<1>1. CallResult = "pending" /\ CallConstraints = <<>>
  BY PendingMaps DEF Init
<1>2. Call!G = G /\ Call!SeqsUpTo(G, MaxValidators) = SeqsUpTo(G, MaxValidators)
      /\ Call!SeqsUpTo(BOOLEAN, MaxValidators)
           = SeqsUpTo(BOOLEAN, MaxValidators)
  BY DEF Call!G, G, Call!SeqsUpTo, SeqsUpTo
<1>. QED  BY <1>1, <1>2 DEF Init, Call!Init, Thresholds

LEMMA NextMaps ==
  TypeOK /\ CallInv /\ [Next]_vars => [Call!Next]_Call!vars
<1> SUFFICES ASSUME TypeOK, CallInv, [Next]_vars
             PROVE  [Call!Next]_Call!vars
  OBVIOUS
<1>1. CASE EnforceBitmap
  BY <1>1, InternalStutter DEF EnforceBitmap
<1>2. CASE AssertSameLength
  <2>1. inputs' = inputs /\ cs' = cs /\ cs = <<Occ>>
    BY <1>2 DEF AssertSameLength, CallInv
  <2>2. CASE SameLength
    BY <1>2, <2>1, <2>2, InternalStutter DEF AssertSameLength, SameLength
  <2>3. CASE ~SameLength
    <3>1. pc' = "panic"
      BY <1>2, <2>3 DEF AssertSameLength, SameLength
    <3>. QED  BY <1>2, <2>1, <2>3, <3>1, ReturnStep DEF AssertSameLength,
                                                     Call!Next
  <2>. QED  BY <2>2, <2>3
<1>3. CASE AggregateStep
  BY <1>3, InternalStutter DEF AggregateStep
<1>4. CASE AggregateDone
  BY <1>4, InternalStutter DEF AggregateDone
<1>5. CASE VerifyEquation
  <2>1. inputs' = inputs /\ pc' = "done" /\ SameLength /\ cs' = <<Occ, Eq>>
    BY <1>5, NextCallInv DEF VerifyEquation, CallInv, inputs, Occ, Eq,
                              SameLength
  <2>. QED  BY <1>5, <2>1, ReturnStep DEF VerifyEquation, Call!Next
<1>6. CASE SynthesisFailure
  <2>1. inputs' = inputs /\ pc' = "error" /\ cs' = cs
    BY <1>6 DEF SynthesisFailure
  <2>2. cs = <<>> \/ (SameLength /\ cs = <<Occ>>)
    BY <1>6 DEF SynthesisFailure, CallInv
  <2>. QED  BY <1>6, <2>1, <2>2, ReturnStep DEF SynthesisFailure, Call!Next
<1>7. CASE Terminated
  BY <1>7 DEF Terminated, vars, Call!vars, CallResult, CallConstraints, inputs
<1>8. CASE UNCHANGED vars
  BY <1>8 DEF vars, Call!vars, CallResult, CallConstraints, inputs
<1>. QED  BY <1>1, <1>2, <1>3, <1>4, <1>5, <1>6, <1>7, <1>8 DEF Next

(***************************************************************************)
(* Refinement for every Q and MaxValidators: verify, statement by          *)
(* statement, implements the atomic BlsVerifyCall.  Every step before the  *)
(* return leaves the call pending with nothing recorded, and the return    *)
(* -- Ok, the assert_eq! panic, or a SynthesisError from any collaborator  *)
(* -- is one of the abstract outcomes with exactly its constraints.        *)
(***************************************************************************)
THEOREM RefinementTheorem == Spec => VerifyImplementsCall
<1>1. [](TypeOK /\ CallInv) /\ [][Next]_vars => [][Call!Next]_Call!vars
  BY NextMaps, PTL
<1>. QED  BY InitMaps, <1>1, CallInvInductive, PTL
                  DEF Spec, VerifyImplementsCall, Call!Spec
=============================================================================
