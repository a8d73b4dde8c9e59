-------------------------- MODULE EpochChainProofs ---------------------------
(***************************************************************************)
(* Proof that the validator-set handoff of SingleUpdate::constrain holds   *)
(* for every chain length, validator count and set of updates: in a proof  *)
(* that verified with a satisfied circuit, every transition was signed by  *)
(* a quorum of the previous epoch's validators.                            *)
(*                                                                         *)
(* The handoff proof uses the shape of the state, with aggregate keys     *)
(* drawn from the image of AggregateOf; that image lies in G               *)
(* (AggregateType), which gives the type invariant.  Batch soundness rests *)
(* on what the batch equation computes (BatchProduct).                     *)
(***************************************************************************)
EXTENDS EpochChain, PrimitivesProofs

\* The aggregate keys an epoch can carry: AggregateOf over the inputs.
Aggregates == {AggregateOf(ks, bm) : ks \in KeySeqs, bm \in Bitmaps}

EpochShape ==
  [pubKeys : KeySeqs, maxNonSigners : Thresholds, messageHash : MessageHashes,
   aggregatePk : Aggregates, index : Indices, epochEntropy : Entropies,
   parentEntropy : Entropies, bitmap : Bitmaps, csFrom : Nat, csTo : Nat]

GenesisShape ==
  [pubKeys : KeySeqs, maxNonSigners : Thresholds, index : Indices,
   epochEntropy : Entropies]

\* What the constraint system can hold: batch_verify's equation pairs
\* message hashes with aggregate keys.
CsElem ==
  Constraint \cup [kind : {"pairing"}, g1 : Seq(G), g2 : Seq(G \cup Aggregates)]

Shape ==
  /\ genesis \in GenesisShape
  /\ entropyBit \in BOOLEAN
  /\ epochs \in Seq(EpochShape)
  /\ cs \in Seq(CsElem)
  /\ status \in {"building", "verified", "error", "panic"}

(***************************************************************************)
(* Each transition recorded, at position csTo, the occurrence constraint   *)
(* of its bitmap against its predecessor's threshold, over a bitmap as     *)
(* long as its predecessor's key set; every key set has NumValidators keys.*)
(***************************************************************************)
Handoff ==
  /\ Len(genesis.pubKeys) = NumValidators
  /\ \A k \in 1..Len(epochs) :
       /\ Len(epochs[k].pubKeys) = NumValidators
       /\ Len(epochs[k].bitmap) = Len(PrevOf(k).pubKeys)
       /\ epochs[k].csTo \in 1..Len(cs)
       /\ cs[epochs[k].csTo] = OccurrenceCheck(PrevOf(k), epochs[k])

IInv == Shape /\ Handoff

\* t extends s: the constraint system only grows.
Grows(s, t) == Len(s) <= Len(t) /\ \A j \in 1..Len(s) : t[j] = s[j]

-----------------------------------------------------------------------------
\* Appending a sequence keeps what was there.
LEMMA ConcatGrows ==
  ASSUME NEW S, NEW s \in Seq(S), NEW x \in Seq(S)
  PROVE  s \o x \in Seq(S) /\ Grows(s, s \o x)
BY ConcatProperties DEF Grows

\* The context of the k-th transition has the shape of the genesis epoch.
LEMMA PrevOfShape ==
  ASSUME Shape, NEW k \in 1..(Len(epochs) + 1)
  PROVE  /\ PrevOf(k).pubKeys \in KeySeqs
         /\ PrevOf(k).maxNonSigners \in Thresholds
         /\ PrevOf(k).index \in Indices
         /\ PrevOf(k).epochEntropy \in Entropies
<1>1. CASE k = 1
  BY <1>1 DEF PrevOf, Shape, GenesisShape
<1>2. CASE k # 1
  <2>1. epochs[k - 1] \in EpochShape
    BY <1>2, ElementOfSeq DEF Shape
  <2>. QED  BY <1>2, <2>1 DEF PrevOf, EpochShape
<1>. QED  BY <1>1, <1>2

\* The constraints constrain records before its epoch are constraints.
LEMMA ConstrainRecordsType ==
  ASSUME Shape, NEW u \in Updates
  PROVE  /\ NextEpochIndex(Previous.index, u.index) \in Constraint
         /\ EntropyCheck(Previous, u) \in Constraint
         /\ OccurrenceCheck(Previous, u) \in Constraint
<1>1. /\ Previous.index \in Indices
      /\ Previous.maxNonSigners \in Thresholds
  BY PrevOfShape, LenProperties DEF Previous, Shape
<1>2. u.index \in Nat /\ u.parentEntropy \in Nat /\ u.bitmap \in Seq(BOOLEAN)
  BY ChainAssumption DEF Updates
<1>3. NextEpochIndex(Previous.index, u.index) \in Constraint
  BY <1>1, <1>2, ChainAssumption DEF NextEpochIndex, Constraint
<1>4. EntropyCheck(Previous, u) \in Constraint
  <2>1. (u.index # 0 /\ entropyBit) \in BOOLEAN
    BY DEF Shape
  <2>. QED  BY <1>1, <1>2, <2>1, ChainAssumption
            DEF EntropyCheck, CondEqual, Constraint
<1>5. OccurrenceCheck(Previous, u) \in Constraint
  BY <1>1, <1>2 DEF OccurrenceCheck, MaxOccurrences, Constraint, Thresholds
<1>. QED  BY <1>3, <1>4, <1>5

LEMMA InitIInv == Init => IInv
<1> SUFFICES ASSUME Init PROVE IInv
  OBVIOUS
<1>1. Shape
  BY EmptySeq DEF Init, Shape, GenesisShape
<1>2. Handoff
  BY EmptySeq DEF Init, Handoff
<1>. QED  BY <1>1, <1>2 DEF IInv

(***************************************************************************)
(* The invariant gives the handoff: a satisfied circuit holds, for each    *)
(* transition, the occurrence constraint against its predecessor.          *)
(***************************************************************************)
LEMMA IInvQuorum == IInv => QuorumOfPreviousSet
<1> SUFFICES ASSUME IInv, Proven, NEW k \in 1..Len(epochs)
             PROVE  /\ Len(PrevOf(k).pubKeys) = NumValidators
                    /\ Len(epochs[k].bitmap) = NumValidators
                    /\ NonSigners(epochs[k].bitmap) <= PrevOf(k).maxNonSigners
  BY DEF QuorumOfPreviousSet
<1>1. Len(PrevOf(k).pubKeys) = NumValidators
  <2>1. CASE k = 1
    BY <2>1 DEF IInv, Handoff, PrevOf
  <2>2. CASE k # 1
    <3>1. k - 1 \in 1..Len(epochs)
      BY <2>2, LenProperties DEF IInv, Shape
    <3>. QED  BY <2>2, <3>1 DEF IInv, Handoff, PrevOf
  <2>. QED  BY <2>1, <2>2
<1>2. Len(epochs[k].bitmap) = NumValidators
  BY <1>1 DEF IInv, Handoff
<1>3. epochs[k] \in EpochShape
  BY ElementOfSeq DEF IInv, Shape
<1>4. Holds(cs[epochs[k].csTo])
  <2>1. epochs[k].csTo \in DOMAIN cs
    BY LenProperties DEF IInv, Handoff, Shape
  <2>. QED  BY <2>1 DEF Proven, IsSatisfied
<1>5. Holds(MaxOccurrences(epochs[k].bitmap, PrevOf(k).maxNonSigners, FALSE))
  BY <1>4 DEF IInv, Handoff, OccurrenceCheck
<1>6. Cardinality({j \in DOMAIN epochs[k].bitmap : epochs[k].bitmap[j] = FALSE})
        <= PrevOf(k).maxNonSigners
  BY <1>5, Zenon DEF Holds, MaxOccurrences
<1>7. {j \in DOMAIN epochs[k].bitmap : epochs[k].bitmap[j] = FALSE}
        = {j \in DOMAIN epochs[k].bitmap : ~epochs[k].bitmap[j]}
  <2>1. epochs[k].bitmap \in Seq(BOOLEAN)
    BY <1>3, ChainAssumption DEF EpochShape
  <2>. QED  BY <2>1
<1>. QED  BY <1>1, <1>2, <1>6, <1>7 DEF NonSigners

\* Growing is transitive.
LEMMA GrowsTrans ==
  ASSUME NEW r, NEW s, NEW t, Grows(r, s), Grows(s, t),
         Len(r) \in Nat, Len(s) \in Nat, Len(t) \in Nat
  PROVE  Grows(r, t)
BY DEF Grows

(***************************************************************************)
(* A step that leaves the epochs alone and only appends constraints keeps  *)
(* the invariant: every occurrence constraint stays where it was.          *)
(***************************************************************************)
LEMMA GrowsKeepsIInv ==
  ASSUME IInv, genesis' = genesis, entropyBit' = entropyBit, epochs' = epochs,
         cs' \in Seq(CsElem), Grows(cs, cs'),
         status' \in {"building", "verified", "error", "panic"}
  PROVE  IInv'
<1>1. Shape'
  BY DEF IInv, Shape
<1>2. ASSUME NEW k \in 1..Len(epochs)
      PROVE  /\ epochs[k].csTo \in 1..Len(cs')
             /\ cs'[epochs[k].csTo] = cs[epochs[k].csTo]
  BY DEF IInv, Handoff, Grows
<1>3. \A k \in 1..Len(epochs) : PrevOf(k)' = PrevOf(k)
  BY DEF PrevOf
<1>. QED  BY <1>1, <1>2, <1>3 DEF IInv, Handoff

\* batch_verify's equation pairs message hashes with aggregate keys.
LEMMA BatchEquationType ==
  ASSUME Shape, NEW sig \in G
  PROVE  PairingEquation(
           <<sig>> \o [k \in 1..Len(epochs) |-> epochs[k].messageHash],
           <<GNeg(G2Generator)>>
             \o [k \in 1..Len(epochs) |-> epochs[k].aggregatePk]) \in CsElem
<1>1. \A k \in 1..Len(epochs) : epochs[k] \in EpochShape
  BY ElementOfSeq DEF Shape
<1>2. [k \in 1..Len(epochs) |-> epochs[k].messageHash] \in Seq(G)
  <2>1. \A k \in 1..Len(epochs) : epochs[k].messageHash \in G
    BY <1>1, ChainAssumption DEF EpochShape
  <2>. QED  BY <2>1, IsASeq, LenProperties DEF Shape
<1>3. [k \in 1..Len(epochs) |-> epochs[k].aggregatePk] \in Seq(G \cup Aggregates)
  <2>1. \A k \in 1..Len(epochs) : epochs[k].aggregatePk \in G \cup Aggregates
    BY <1>1 DEF EpochShape
  <2>. QED  BY <2>1, IsASeq, LenProperties DEF Shape
<1>4. GNeg(G2Generator) \in G
  BY QAssumption DEF IsPrime, GNeg, G2Generator, G
<1>5. /\ <<sig>> \in Seq(G)
      /\ <<GNeg(G2Generator)>> \in Seq(G \cup Aggregates)
  BY <1>4
<1>. QED  BY <1>2, <1>3, <1>5, ConcatProperties DEF PairingEquation, CsElem

(***************************************************************************)
(* The invariant is inductive: every step of the chain, each branch of     *)
(* constrain and the batch check, keeps it.                                *)
(***************************************************************************)
LEMMA NextIInv == IInv /\ [Next]_vars => IInv'
<1> SUFFICES ASSUME IInv, [Next]_vars PROVE IInv'
  OBVIOUS
<1>1. CASE BatchVerify
  <2> DEFINE eq(sig) ==
        PairingEquation(
          <<sig>> \o [k \in 1..Len(epochs) |-> epochs[k].messageHash],
          <<GNeg(G2Generator)>>
            \o [k \in 1..Len(epochs) |-> epochs[k].aggregatePk])
  <2>1. PICK sig \in G : \/ cs' = cs /\ status' = "error"
                         \/ cs' = Append(cs, eq(sig)) /\ status' = "verified"
    BY <1>1 DEF BatchVerify
  <2>2. genesis' = genesis /\ entropyBit' = entropyBit /\ epochs' = epochs
    BY <1>1 DEF BatchVerify
  <2>3. cs \in Seq(CsElem) /\ eq(sig) \in CsElem
    BY BatchEquationType DEF IInv, Shape
  <2>4. cs' \in Seq(CsElem) /\ Grows(cs, cs')
    <3>1. Len(cs) \in Nat
      BY <2>3, LenProperties
    <3>2. CASE cs' = cs
      BY <3>1, <3>2, <2>3 DEF Grows
    <3>3. CASE cs' = Append(cs, eq(sig))
      BY <3>1, <3>3, <2>3, AppendProperties DEF Grows
    <3>. QED  BY <2>1, <3>2, <3>3
  <2>. QED  BY <2>1, <2>2, <2>4, GrowsKeepsIInv
<1>2. CASE Terminated
  BY <1>2, GrowsKeepsIInv DEF Terminated, vars, Grows, IInv, Shape
<1>3. CASE UNCHANGED vars
  BY <1>3, GrowsKeepsIInv DEF vars, Grows, IInv, Shape
<1>4. CASE ConstrainUpdate
  <2>1. PICK u \in Updates, failAt \in FailurePoints :
               /\ Constrain(u, failAt)
               /\ status' # "building" => UNCHANGED epochs
    BY <1>4 DEF ConstrainUpdate
  <2> DEFINE prev      == Previous
             indexC    == NextEpochIndex(prev.index, u.index)
             entropyCs == IF failAt = "entropy_eq" THEN <<>>
                          ELSE <<EntropyCheck(prev, u)>>
             occC      == OccurrenceCheck(prev, u)
             before    == cs \o <<indexC>> \o entropyCs
  <2>2. /\ genesis' = genesis /\ entropyBit' = entropyBit
        /\ status = "building"
    BY <1>4 DEF ConstrainUpdate
  <2>3. /\ cs \o <<indexC>> \in Seq(CsElem) /\ Grows(cs, cs \o <<indexC>>)
        /\ before \in Seq(CsElem) /\ Grows(cs, before)
        /\ before \o <<occC>> \in Seq(CsElem)
        /\ Grows(cs, before \o <<occC>>)
    <3>0. /\ indexC \in Constraint /\ EntropyCheck(prev, u) \in Constraint
          /\ occC \in Constraint
      BY ConstrainRecordsType DEF IInv, prev, indexC, occC
    <3>1. /\ cs \in Seq(CsElem)
          /\ <<indexC>> \in Seq(CsElem) /\ entropyCs \in Seq(CsElem)
          /\ <<occC>> \in Seq(CsElem)
      <4>1. /\ indexC \in CsElem /\ EntropyCheck(prev, u) \in CsElem
            /\ occC \in CsElem
        BY <3>0 DEF CsElem
      <4>2. \A x \in CsElem : <<x>> \in Seq(CsElem)
        OBVIOUS
      <4>3. entropyCs \in Seq(CsElem)
        BY <4>1, <4>2, EmptySeq DEF entropyCs
      <4>. QED  BY <4>1, <4>2, <4>3 DEF IInv, Shape
    <3>2. cs \o <<indexC>> \in Seq(CsElem) /\ Grows(cs, cs \o <<indexC>>)
      BY <3>1, ConcatGrows
    <3>3. before \in Seq(CsElem) /\ Grows(cs \o <<indexC>>, before)
      BY <3>1, <3>2, ConcatGrows DEF before
    <3>4. before \o <<occC>> \in Seq(CsElem)
          /\ Grows(before, before \o <<occC>>)
      BY <3>1, <3>3, ConcatGrows
    <3>5. /\ Len(cs) \in Nat /\ Len(cs \o <<indexC>>) \in Nat
          /\ Len(before) \in Nat /\ Len(before \o <<occC>>) \in Nat
      BY <3>1, <3>2, <3>3, <3>4, LenProperties
    <3>. QED  BY <3>2, <3>3, <3>4, <3>5, GrowsTrans
  <2> DEFINE
        record ==
          [pubKeys |-> u.pubKeys, maxNonSigners |-> u.maxNonSigners,
           messageHash |-> u.messageHash,
           aggregatePk |-> AggregateKey(prev, u),
           index |-> u.index, epochEntropy |-> u.epochEntropy,
           parentEntropy |-> u.parentEntropy,
           bitmap |-> u.bitmap, csFrom |-> Len(cs) + 1,
           csTo |-> Len(cs')]
        Stopped ==
          /\ status' \in {"error", "panic"}
          /\ cs' \in {cs, cs \o <<indexC>>, before, before \o <<occC>>}
        Returned ==
          /\ Len(u.pubKeys) = NumValidators
          /\ Len(u.bitmap) = Len(prev.pubKeys)
          /\ cs' = before \o <<occC>>
          /\ epochs' = Append(epochs, record)
          /\ status' = status
  <2>4. Stopped \/ Returned
    <3> USE DEF Constrain, prev, indexC, entropyCs, occC, before, Stopped
    <3>1. CASE Len(u.pubKeys) # NumValidators
      BY <2>1, <3>1
    <3>2. CASE Len(u.pubKeys) = NumValidators /\ failAt = "epoch_data"
      BY <2>1, <3>2
    <3>3. CASE Len(u.pubKeys) = NumValidators /\ failAt = "index_bit"
      BY <2>1, <3>3
    <3>4. CASE Len(u.pubKeys) = NumValidators /\ failAt = "bitmap"
      BY <2>1, <3>4
    <3>5. CASE /\ Len(u.pubKeys) = NumValidators
               /\ failAt \notin {"epoch_data", "index_bit", "bitmap"}
               /\ Len(u.bitmap) # Len(Previous.pubKeys)
      BY <2>1, <3>5
    <3>6. CASE /\ Len(u.pubKeys) = NumValidators
               /\ failAt \notin {"epoch_data", "index_bit", "bitmap"}
               /\ Len(u.bitmap) = Len(Previous.pubKeys)
               /\ failAt = "select" /\ Len(u.bitmap) > 0
      BY <2>1, <3>6
    <3>7. CASE /\ Len(u.pubKeys) = NumValidators
               /\ failAt \notin {"epoch_data", "index_bit", "bitmap"}
               /\ Len(u.bitmap) = Len(Previous.pubKeys)
               /\ ~(failAt = "select" /\ Len(u.bitmap) > 0)
      BY <2>1, <3>7 DEF Returned, record
    <3>. QED  BY <3>1, <3>2, <3>3, <3>4, <3>5, <3>6, <3>7
  <2>5. CASE Stopped
    <3>1. cs' \in Seq(CsElem) /\ Grows(cs, cs')
      <4>2. Len(cs) \in Nat /\ cs \in Seq(CsElem)
        BY LenProperties DEF IInv, Shape
      <4>3. Grows(cs, cs)
        BY <4>2 DEF Grows
      <4>4. cs' \in {cs, cs \o <<indexC>>, before, before \o <<occC>>}
        BY <2>5 DEF Stopped
      <4>. QED  BY <4>2, <4>3, <4>4, <2>3
    <3>2. epochs' = epochs
      BY <2>1, <2>5 DEF Stopped
    <3>. QED  BY <2>2, <2>5, <3>1, <3>2, GrowsKeepsIInv DEF Stopped
  <2>6. CASE Returned
    <3>0. /\ cs \in Seq(CsElem) /\ epochs \in Seq(EpochShape)
          /\ Len(cs) \in Nat /\ Len(epochs) \in Nat
          /\ before \in Seq(CsElem) /\ Len(before) \in Nat
          /\ occC \in CsElem
      <4>1. occC \in Constraint
        BY ConstrainRecordsType DEF IInv, prev, occC
      <4>. QED  BY <4>1, <2>3, LenProperties DEF IInv, Shape, CsElem
    <3>1. /\ prev.pubKeys \in KeySeqs /\ prev.maxNonSigners \in Thresholds
          /\ prev = PrevOf(Len(epochs) + 1)
      BY <3>0, PrevOfShape DEF IInv, prev, Previous
    <3>2. /\ Len(cs') = Len(before) + 1 /\ cs'[Len(cs')] = occC
          /\ cs' \in Seq(CsElem) /\ Grows(cs, cs')
      <4>1. <<occC>> \in Seq(CsElem)
        BY <3>0
      <4>. QED  BY <2>6, <2>3, <3>0, <4>1, ConcatProperties DEF Returned
    <3>3. record \in EpochShape
      <4>1. AggregateKey(prev, u) \in Aggregates
        BY <3>1 DEF AggregateKey, Aggregates, Updates
      <4>2. Len(cs') \in Nat
        BY <3>0, <3>2
      <4>. QED  BY <4>1, <4>2, <3>0 DEF record, EpochShape, Updates
    <3>4. /\ epochs' \in Seq(EpochShape)
          /\ Len(epochs') = Len(epochs) + 1
          /\ \A k \in 1..Len(epochs) : epochs'[k] = epochs[k]
          /\ epochs'[Len(epochs) + 1] = record
      BY <2>6, <3>0, <3>3, AppendProperties DEF Returned
    <3>5. Shape'
      BY <2>2, <2>6, <3>2, <3>4 DEF IInv, Shape, Returned
    <3>6. \A k \in 1..(Len(epochs) + 1) :
            PrevOf(k)' = PrevOf(k)
      <4> SUFFICES ASSUME NEW k \in 1..(Len(epochs) + 1), k # 1
                   PROVE  epochs'[k - 1] = epochs[k - 1]
        BY <2>2 DEF PrevOf
      <4>1. k - 1 \in 1..Len(epochs)
        BY <3>0
      <4>. QED  BY <4>1, <3>4
    <3>7. ASSUME NEW k \in 1..Len(epochs)
          PROVE  /\ Len(epochs'[k].pubKeys) = NumValidators
                 /\ Len(epochs'[k].bitmap) = Len(PrevOf(k)'.pubKeys)
                 /\ epochs'[k].csTo \in 1..Len(cs')
                 /\ cs'[epochs'[k].csTo]
                      = OccurrenceCheck(PrevOf(k)', epochs'[k])
      <4>1. /\ Len(epochs[k].pubKeys) = NumValidators
            /\ Len(epochs[k].bitmap) = Len(PrevOf(k).pubKeys)
            /\ epochs[k].csTo \in 1..Len(cs)
            /\ cs[epochs[k].csTo] = OccurrenceCheck(PrevOf(k), epochs[k])
        BY DEF IInv, Handoff
      <4>2. epochs'[k] = epochs[k] /\ PrevOf(k)' = PrevOf(k)
        BY <3>0, <3>4, <3>6
      <4>3. /\ epochs[k].csTo \in 1..Len(cs')
            /\ cs'[epochs[k].csTo] = cs[epochs[k].csTo]
        BY <4>1, <3>2, <3>0 DEF Grows
      <4>. QED  BY <4>1, <4>2, <4>3
    <3>8. /\ Len(record.pubKeys) = NumValidators
          /\ Len(record.bitmap) = Len(prev.pubKeys)
          /\ record.csTo \in 1..Len(cs')
          /\ cs'[record.csTo] = OccurrenceCheck(prev, record)
      <4>1. record.csTo = Len(cs') /\ record.bitmap = u.bitmap
        BY DEF record
      <4>2. Len(cs') \in 1..Len(cs')
        BY <3>0, <3>2
      <4>3. OccurrenceCheck(prev, record) = occC
        BY <4>1 DEF OccurrenceCheck, occC
      <4>4. Len(record.pubKeys) = NumValidators
            /\ Len(record.bitmap) = Len(prev.pubKeys)
        BY <2>6 DEF Returned, record
      <4>. QED  BY <4>1, <4>2, <4>3, <4>4, <3>2
    <3>9. Handoff'
      <4>1. Len(genesis'.pubKeys) = NumValidators
        BY <2>2 DEF IInv, Handoff
      <4>2. ASSUME NEW k \in 1..Len(epochs')
            PROVE  /\ Len(epochs'[k].pubKeys) = NumValidators
                   /\ Len(epochs'[k].bitmap) = Len(PrevOf(k)'.pubKeys)
                   /\ epochs'[k].csTo \in 1..Len(cs')
                   /\ cs'[epochs'[k].csTo]
                        = OccurrenceCheck(PrevOf(k)', epochs'[k])
        <5>1. CASE k \in 1..Len(epochs)
          BY <5>1, <3>7
        <5>2. CASE k = Len(epochs) + 1
          <6>1. PrevOf(k)' = prev /\ epochs'[k] = record
            BY <5>2, <3>1, <3>6, <3>4, <3>0
          <6>. QED  BY <6>1, <3>8
        <5>. QED  BY <5>1, <5>2, <3>4, <3>0
      <4>. QED  BY <4>1, <4>2 DEF Handoff
    <3>. QED  BY <3>5, <3>9 DEF IInv
  <2>. QED  BY <2>4, <2>5, <2>6
<1>. QED  BY <1>1, <1>2, <1>3, <1>4 DEF Next
-----------------------------------------------------------------------------
(***************************************************************************)
(* Validator-set handoff, for every number of validators, chain length and *)
(* input: whenever the chain driver (verify_one_epoch over the updates of  *)
(* EpochChain) ends verified with a satisfied circuit, each SingleUpdate   *)
(* was signed over a bitmap of the previous epoch's NumValidators keys     *)
(* leaving at most the previous epoch's maximum_non_signers out.           *)
(***************************************************************************)
THEOREM QuorumTheorem == Spec => []QuorumOfPreviousSet
<1>1. IInv /\ [][Next]_vars => []IInv
  BY NextIInv, PTL
<1>. QED  BY InitIInv, <1>1, IInvQuorum, PTL DEF Spec
-----------------------------------------------------------------------------
(***************************************************************************)
(* Batch soundness.  Each returned epoch carries the aggregate of its      *)
(* predecessor's keys under its bitmap, and a verified chain ends with the *)
(* one equation batch_verify records over all the message hashes and       *)
(* aggregate keys.                                                         *)
(***************************************************************************)
Hashes == [k \in 1..Len(epochs) |-> epochs[k].messageHash]

Apks == [k \in 1..Len(epochs) |-> epochs[k].aggregatePk]

Bounds == aggSignature \in G /\ Len(epochs) <= MaxEpochs

BatchInv ==
  /\ \A k \in 1..Len(epochs) :
       epochs[k].aggregatePk = AggregateKey(PrevOf(k), epochs[k])
  /\ status = "verified" =>
       /\ Len(cs) >= 1
       /\ cs[Len(cs)] = PairingEquation(<<aggSignature>> \o Hashes,
                                        <<GNeg(G2Generator)>> \o Apks)

\* The aggregate keys an epoch can carry are points of G.
LEMMA AggregatesInG == Aggregates \subseteq G
<1> SUFFICES ASSUME NEW ks \in KeySeqs, NEW bm \in Bitmaps
             PROVE  AggregateOf(ks, bm) \in G
  BY DEF Aggregates
<1>1. ks \in Seq(G)
  BY ChainAssumption
<1>. QED  BY <1>1, AggregateType

(***************************************************************************)
(* What a call of constrain does to the epochs: it stops the proof and     *)
(* leaves them alone, or returns and appends one epoch whose aggregate key *)
(* is that of the previous epoch's keys under the update's bitmap.         *)
(***************************************************************************)
LEMMA ConstrainEffect ==
  ASSUME ConstrainUpdate
  PROVE  \/ status' \in {"error", "panic"} /\ epochs' = epochs
         \/ /\ status' = "building"
            /\ \E r : /\ epochs' = Append(epochs, r)
                      /\ r.aggregatePk = AggregateKey(Previous, r)
<1>1. PICK u \in Updates, failAt \in FailurePoints :
             /\ Constrain(u, failAt)
             /\ status' # "building" => UNCHANGED epochs
  BY DEF ConstrainUpdate
<1>2. status = "building"
  BY DEF ConstrainUpdate
<1> DEFINE final == /\ Len(u.pubKeys) = NumValidators
                   /\ failAt \notin {"epoch_data", "index_bit", "bitmap"}
                   /\ Len(u.bitmap) = Len(Previous.pubKeys)
                   /\ ~(failAt = "select" /\ Len(u.bitmap) > 0)
<1>3. CASE ~final
  <2>1. status' \in {"error", "panic"}
    BY <1>1, <1>3 DEF Constrain
  <2>. QED  BY <1>1, <2>1
<1>4. CASE final
  <2> DEFINE r == [pubKeys |-> u.pubKeys, maxNonSigners |-> u.maxNonSigners,
                   messageHash |-> u.messageHash,
                   aggregatePk |-> AggregateKey(Previous, u),
                   index |-> u.index, epochEntropy |-> u.epochEntropy,
                   parentEntropy |-> u.parentEntropy,
                   bitmap |-> u.bitmap, csFrom |-> Len(cs) + 1,
                   csTo |-> Len(cs')]
  <2>1. epochs' = Append(epochs, r) /\ status' = status
    BY <1>1, <1>4 DEF Constrain
  <2>2. r.aggregatePk = AggregateKey(Previous, r)
    BY DEF AggregateKey
  <2>. QED  BY <1>2, <2>1, <2>2
<1>. QED  BY <1>3, <1>4

\* Appending an epoch leaves every previous-epoch context as it was.
LEMMA PrevOfAppend ==
  ASSUME NEW S, epochs \in Seq(S), NEW r \in S, epochs' = Append(epochs, r),
         genesis' = genesis
  PROVE  /\ Len(epochs') = Len(epochs) + 1
         /\ \A k \in 1..Len(epochs) : epochs'[k] = epochs[k]
         /\ epochs'[Len(epochs) + 1] = r
         /\ \A k \in 1..(Len(epochs) + 1) : PrevOf(k)' = PrevOf(k)
<1>1. /\ Len(epochs') = Len(epochs) + 1
      /\ \A k \in 1..Len(epochs) : epochs'[k] = epochs[k]
      /\ epochs'[Len(epochs) + 1] = r
      /\ Len(epochs) \in Nat
  BY AppendProperties, LenProperties
<1>2. ASSUME NEW k \in 1..(Len(epochs) + 1) PROVE PrevOf(k)' = PrevOf(k)
  <2>1. CASE k = 1
    BY <2>1 DEF PrevOf
  <2>2. CASE k # 1
    <3>1. k - 1 \in 1..Len(epochs)
      BY <1>1, <2>2
    <3>. QED  BY <1>1, <2>2, <3>1 DEF PrevOf
  <2>. QED  BY <2>1, <2>2
<1>. QED  BY <1>1, <1>2

LEMMA InitBatch == Init => Bounds /\ BatchInv
BY QPositive, EmptySeq, ChainAssumption DEF Init, Bounds, BatchInv, Zero, G

LEMMA NextBatch ==
  IInv /\ Bounds /\ BatchInv /\ [Next]_vars => Bounds' /\ BatchInv'
<1> SUFFICES ASSUME IInv, Bounds, BatchInv, [Next]_vars
             PROVE  Bounds' /\ BatchInv'
  OBVIOUS
<1>0. epochs \in Seq(EpochShape) /\ cs \in Seq(CsElem) /\ Len(epochs) \in Nat
      /\ Len(cs) \in Nat
  BY LenProperties DEF IInv, Shape
<1>1. CASE ConstrainUpdate
  <2>1. /\ aggSignature' = aggSignature /\ genesis' = genesis
        /\ Len(epochs) < MaxEpochs
    BY <1>1 DEF ConstrainUpdate
  <2>2. CASE status' \in {"error", "panic"} /\ epochs' = epochs
    <3>1. \A k \in 1..Len(epochs) : PrevOf(k)' = PrevOf(k)
      BY <2>1, <2>2 DEF PrevOf
    <3>. QED  BY <2>1, <2>2, <3>1 DEF Bounds, BatchInv
  <2>3. CASE /\ status' = "building"
             /\ \E r : /\ epochs' = Append(epochs, r)
                       /\ r.aggregatePk = AggregateKey(Previous, r)
    <3>1. PICK r : /\ epochs' = Append(epochs, r)
                   /\ r.aggregatePk = AggregateKey(Previous, r)
      BY <2>3
    <3>2. /\ Len(epochs') = Len(epochs) + 1
          /\ \A k \in 1..Len(epochs) : epochs'[k] = epochs[k]
          /\ epochs'[Len(epochs) + 1] = r
          /\ \A k \in 1..(Len(epochs) + 1) : PrevOf(k)' = PrevOf(k)
      <4>1. epochs \in Seq(EpochShape \cup {r}) /\ r \in EpochShape \cup {r}
        BY <1>0
      <4>. QED  BY <2>1, <3>1, <4>1, PrevOfAppend
    <3>3. Bounds'
      BY <1>0, <2>1, <3>2, ChainAssumption DEF Bounds
    <3>4. ASSUME NEW k \in 1..Len(epochs')
          PROVE  epochs'[k].aggregatePk = AggregateKey(PrevOf(k)', epochs'[k])
      <4>1. CASE k \in 1..Len(epochs)
        BY <3>2, <4>1 DEF BatchInv
      <4>2. CASE k = Len(epochs) + 1
        <5>1. PrevOf(k)' = Previous
          BY <3>2, <4>2 DEF Previous
        <5>. QED  BY <3>1, <3>2, <4>2, <5>1
      <4>. QED  BY <1>0, <3>2, <4>1, <4>2
    <3>. QED  BY <2>3, <3>3, <3>4 DEF BatchInv
  <2>. QED  BY <1>1, <2>2, <2>3, ConstrainEffect
<1>2. CASE BatchVerify
  <2> DEFINE eq(sig) ==
        PairingEquation(
          <<sig>> \o [k \in 1..Len(epochs) |-> epochs[k].messageHash],
          <<GNeg(G2Generator)>>
            \o [k \in 1..Len(epochs) |-> epochs[k].aggregatePk])
  <2>1. PICK sig \in G : /\ aggSignature' = sig
                         /\ \/ cs' = cs /\ status' = "error"
                            \/ cs' = Append(cs, eq(sig)) /\ status' = "verified"
    BY <1>2 DEF BatchVerify
  <2>2. genesis' = genesis /\ epochs' = epochs
    BY <1>2 DEF BatchVerify
  <2>3. /\ \A k \in 1..Len(epochs) : PrevOf(k)' = PrevOf(k)
        /\ Hashes' = Hashes /\ Apks' = Apks
    BY <2>2 DEF PrevOf, Hashes, Apks
  <2>4. Bounds'
    BY <2>1, <2>2 DEF Bounds
  <2>5. CASE cs' = cs /\ status' = "error"
    <3>1. \A k \in 1..Len(epochs') :
            epochs'[k].aggregatePk = AggregateKey(PrevOf(k)', epochs'[k])
      BY <2>2, <2>3 DEF BatchInv
    <3>. QED  BY <2>4, <2>5, <3>1 DEF BatchInv
  <2>6. CASE cs' = Append(cs, eq(sig)) /\ status' = "verified"
    <3>1. Len(cs') = Len(cs) + 1 /\ cs'[Len(cs')] = eq(sig)
      <4>1. eq(sig) \in CsElem
        BY BatchEquationType DEF IInv
      <4>. QED  BY <1>0, <2>6, <4>1, AppendProperties
    <3>2. eq(sig) = PairingEquation(<<aggSignature'>> \o Hashes',
                                    <<GNeg(G2Generator)>> \o Apks')
      BY <2>1, <2>3 DEF Hashes, Apks
    <3>. QED  BY <1>0, <2>2, <2>3, <2>4, <2>6, <3>1, <3>2 DEF BatchInv
  <2>. QED  BY <2>1, <2>4, <2>5, <2>6
<1>3. CASE Terminated
  BY <1>3 DEF Terminated, vars, Bounds, BatchInv, PrevOf, Hashes, Apks
<1>4. CASE UNCHANGED vars
  BY <1>4 DEF vars, Bounds, BatchInv, PrevOf, Hashes, Apks
<1>. QED  BY <1>1, <1>2, <1>3, <1>4 DEF Next

\* The shape of the state, the bounds and the batch invariant hold throughout.
LEMMA ChainInvariant == Spec => [](IInv /\ Bounds /\ BatchInv)
<1>1. Init => IInv /\ Bounds /\ BatchInv
  BY InitIInv, InitBatch
<1>2. IInv /\ Bounds /\ BatchInv /\ [Next]_vars
        => (IInv /\ Bounds /\ BatchInv)'
  BY NextIInv, NextBatch
<1>. QED  BY <1>1, <1>2, PTL DEF Spec

\* The shape of the state is its type when aggregate keys are points of G.
LEMMA ShapeType == IInv /\ Bounds => TypeOK
<1> SUFFICES ASSUME IInv, Bounds PROVE TypeOK
  OBVIOUS
<1>1. EpochShape \subseteq EpochRecord
  BY AggregatesInG DEF EpochShape, EpochRecord
<1>2. CsElem \subseteq Constraint
  <2>1. Seq(G \cup Aggregates) = Seq(G)
    BY AggregatesInG
  <2>. QED  BY <2>1 DEF CsElem, Constraint
<1>3. epochs \in Seq(EpochRecord) /\ cs \in Seq(Constraint)
  <2>1. epochs \in Seq(EpochShape) /\ cs \in Seq(CsElem)
    BY DEF IInv, Shape
  <2>. QED  BY <1>1, <1>2, <2>1
<1>. QED  BY <1>3 DEF IInv, Shape, GenesisShape, Bounds, TypeOK

\* The chain's reachable states are well typed, for every instance.
THEOREM TypeCorrect == Spec => []TypeOK
BY ChainInvariant, ShapeType, PTL

(***************************************************************************)
(* Batch soundness, for every number of validators, chain length and       *)
(* input: when the chain ends verified with a satisfied circuit, the       *)
(* aggregated signature satisfies e(sig, g2) = prod_k e(H(m_k), apk_k)     *)
(* with apk_k the sum of the previous epoch's keys whose bit is set in the *)
(* k-th bitmap: batch_verify's single equation, with the negated           *)
(* generator paired with the signature in front, says exactly that.        *)
(***************************************************************************)
THEOREM BatchSoundTheorem == Spec => []BatchSound
<1>1. IInv /\ Bounds /\ BatchInv => BatchSound
  <2> SUFFICES ASSUME IInv, Bounds, BatchInv, Proven
               PROVE  Pair(aggSignature, G2Generator) =
                        ProductOfPairings(
                          [k \in 1..Len(epochs) |-> epochs[k].messageHash],
                          [k \in 1..Len(epochs) |->
                             AggregateOf(PrevOf(k).pubKeys, epochs[k].bitmap)])
    BY DEF BatchSound
  <2>0. /\ epochs \in Seq(EpochShape) /\ cs \in Seq(CsElem)
        /\ Len(epochs) \in Nat /\ aggSignature \in G
    BY LenProperties DEF IInv, Shape, Bounds
  <2>1. Hashes \in Seq(G) /\ Apks \in Seq(G) /\ Len(Hashes) = Len(Apks)
    <3>1. \A k \in 1..Len(epochs) :
            epochs[k].messageHash \in G /\ epochs[k].aggregatePk \in G
      <4>1. \A k \in 1..Len(epochs) : epochs[k] \in EpochShape
        BY <2>0, ElementOfSeq
      <4>. QED  BY <4>1, AggregatesInG, ChainAssumption DEF EpochShape
    <3>. QED  BY <2>0, <3>1 DEF Hashes, Apks
  <2>2. ProductOfPairings(<<aggSignature>> \o Hashes,
                          <<GNeg(G2Generator)>> \o Apks) = GTOne
    <3>1. status = "verified" /\ IsSatisfied(cs)
      BY DEF Proven
    <3>2. Len(cs) >= 1
          /\ cs[Len(cs)] = PairingEquation(<<aggSignature>> \o Hashes,
                                           <<GNeg(G2Generator)>> \o Apks)
      BY <3>1 DEF BatchInv
    <3>3. Len(cs) \in DOMAIN cs
      BY <2>0, <3>2, LenProperties
    <3>4. Holds(cs[Len(cs)])
      BY <3>1, <3>3 DEF IsSatisfied
    <3>5. Holds(PairingEquation(<<aggSignature>> \o Hashes,
                                <<GNeg(G2Generator)>> \o Apks))
      BY <3>2, <3>4
    <3>. QED  BY <3>5, Zenon DEF Holds, PairingEquation
  <2>3. ProductOfPairings(Hashes, Apks) = aggSignature
    BY <2>0, <2>1, <2>2, BatchProduct
  <2>4. Apks = [k \in 1..Len(epochs) |->
                 AggregateOf(PrevOf(k).pubKeys, epochs[k].bitmap)]
    BY DEF Apks, BatchInv, AggregateKey
  <2>5. Pair(aggSignature, G2Generator) = aggSignature
    BY <2>0, PairGenerator
  <2>. QED  BY <2>3, <2>4, <2>5 DEF Hashes
<1>. QED  BY <1>1, ChainInvariant, PTL
=============================================================================
