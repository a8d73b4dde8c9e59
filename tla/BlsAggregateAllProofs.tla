------------------------- MODULE BlsAggregateAllProofs -------------------------
(***************************************************************************)
(* Proofs about enforce_aggregated_all_pubkeys for every group order Q and *)
(* every bound MaxValidators: the type invariant, and that the key it      *)
(* returns is the aggregate over an all-true bitmap.  The loop invariant   *)
(* relates aggregated_pk after i - 1 iterations to AggFn, the function     *)
(* AggregateOf is defined through (PrimitivesProofs).                      *)
(***************************************************************************)
EXTENDS BlsAggregateAll, PrimitivesProofs

\* The bitmap in which every validator signed.
AllTrue == [k \in DOMAIN pubKeys |-> TRUE]

\* aggregated_pk is the sum of the first i - 1 keys; the loop ends past the
\* last key.
AllInv ==
  /\ TypeOK
  /\ aggregatedPk = AggFn(pubKeys, AllTrue)[i - 1]
  /\ pc = "done" => i = Len(pubKeys) + 1

LEMMA InitAllInv == Init => AllInv
<1> SUFFICES ASSUME Init PROVE AllInv
  OBVIOUS
<1>1. pubKeys \in Seq(G) /\ Len(pubKeys) \in Nat
  BY SeqsUpToLen, AllKeysAssumption, LenProperties DEF Init
<1>2. AggFn(pubKeys, AllTrue)[0] = Zero
  BY <1>1, AggFnDef
<1>3. Zero \in G
  BY QPositive DEF Zero, G
<1>. QED  BY <1>1, <1>2, <1>3 DEF Init, AllInv, TypeOK

LEMMA NextAllInv == AllInv /\ [Next]_vars => AllInv'
<1> SUFFICES ASSUME AllInv, [Next]_vars PROVE AllInv'
  OBVIOUS
<1>0. pubKeys \in Seq(G) /\ Len(pubKeys) \in Nat
  BY SeqsUpToLen, AllKeysAssumption, LenProperties DEF AllInv, TypeOK
<1>1. CASE AddPubkey
  <2>1. i \in 1..Len(pubKeys) /\ pubKeys[i] \in G
    BY <1>0, <1>1, ElementOfSeq DEF AddPubkey, AllInv, TypeOK
  <2>2. AggFn(pubKeys, AllTrue)[i]
          = GAdd(AggFn(pubKeys, AllTrue)[i - 1], pubKeys[i])
    <3>1. AllTrue[i] = TRUE
      BY <2>1 DEF AllTrue
    <3>. QED  BY <1>0, <2>1, <3>1, AggFnDef
  <2>3. aggregatedPk' = AggFn(pubKeys, AllTrue)[i]
    BY <1>1, <2>2 DEF AddPubkey, AllInv
  <2>4. AggFn(pubKeys, AllTrue)[i] \in G
    BY <1>0, <2>1, AggFnType
  <2>5. /\ pubKeys' = pubKeys /\ pc' = "aggregate" /\ i' = i + 1
        /\ i' \in 1..(Len(pubKeys) + 1) /\ i' - 1 = i
    BY <1>0, <1>1, <2>1 DEF AddPubkey
  <2>6. AllTrue' = AllTrue
    BY <2>5 DEF AllTrue
  <2>. QED  BY <2>3, <2>4, <2>5, <2>6 DEF AllInv, TypeOK
<1>2. CASE AggregateDone
  <2>1. i = Len(pubKeys) + 1
    BY <1>0, <1>2 DEF AggregateDone, AllInv, TypeOK
  <2>. QED  BY <1>2, <2>1 DEF AggregateDone, AllInv, TypeOK, AllTrue
<1>3. CASE Terminated
  BY <1>3 DEF Terminated, vars, AllInv, TypeOK, AllTrue
<1>4. CASE UNCHANGED vars
  BY <1>4 DEF vars, AllInv, TypeOK, AllTrue
<1>. QED  BY <1>1, <1>2, <1>3, <1>4 DEF Next

LEMMA AllInvInductive == Spec => []AllInv
BY InitAllInv, NextAllInv, PTL DEF Spec

-----------------------------------------------------------------------------
\* enforce_aggregated_all_pubkeys' reachable states are well typed.
THEOREM TypeCorrect == Spec => []TypeOK
BY AllInvInductive, PTL DEF AllInv

(***************************************************************************)
(* For every Q and MaxValidators: when enforce_aggregated_all_pubkeys      *)
(* returns, aggregated_pk is the aggregate enforce_aggregated_pubkeys      *)
(* computes over the same keys and an all-true bitmap.                     *)
(***************************************************************************)
THEOREM AllTrueTheorem == Spec => []AllPubkeysIsAllTrueBitmap
<1>1. AllInv => AllPubkeysIsAllTrueBitmap
  <2> SUFFICES ASSUME AllInv, pc = "done"
               PROVE  aggregatedPk = AggregateOf(pubKeys, AllTrue)
    BY DEF AllPubkeysIsAllTrueBitmap, AllTrue
  <2>1. Len(pubKeys) \in Nat
    BY SeqsUpToLen, AllKeysAssumption, LenProperties DEF AllInv, TypeOK
  <2>2. AggregateOf(pubKeys, AllTrue) = AggFn(pubKeys, AllTrue)[Len(pubKeys)]
    BY <2>1, AggFnDef
  <2>. QED  BY <2>1, <2>2 DEF AllInv
<1>. QED  BY <1>1, AllInvInductive, PTL
=============================================================================
