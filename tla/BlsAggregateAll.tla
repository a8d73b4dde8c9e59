---------------------------- MODULE BlsAggregateAll --------------------------
(***************************************************************************)
(* BlsVerifyGadget::enforce_aggregated_all_pubkeys                         *)
(* (crates/bls-gadgets/src/bls.rs): the unconditional sum of every key,    *)
(* for the case in which every validator signed.  No collaborator it calls *)
(* can fail (zero() and += return no Result), so the call always returns   *)
(* Ok; its loop is modelled one iteration per step.                        *)
(***************************************************************************)
EXTENDS Primitives

CONSTANT MaxValidators   \* longest key sequence passed in

ASSUME AllKeysAssumption == MaxValidators \in Nat

VARIABLES
  pubKeys,        \* pub_keys: &[P::G2Var]
  pc,             \* "aggregate" or "done"
  i,              \* the loop's position in pub_keys
  aggregatedPk    \* let mut aggregated_pk

vars == <<pubKeys, pc, i, aggregatedPk>>

\* let mut aggregated_pk = P::G2Var::zero(); before the loop.
Init ==
  /\ pubKeys \in SeqsUpTo(G, MaxValidators)
  /\ pc = "aggregate"
  /\ i = 1
  /\ aggregatedPk = Zero

\* Mutant: the sum restarts from the current key instead of adding to it.
AddPubkeyOverwrite ==
  /\ pc = "aggregate"
  /\ i <= Len(pubKeys)
  /\ aggregatedPk' = pubKeys[i]
  /\ i' = i + 1
  /\ UNCHANGED <<pubKeys, pc>>

\* One iteration: aggregated_pk += pk.
AddPubkey ==
  /\ pc = "aggregate"
  /\ i <= Len(pubKeys)
  /\ aggregatedPk' = GAdd(aggregatedPk, pubKeys[i])
  /\ i' = i + 1
  /\ UNCHANGED <<pubKeys, pc>>

\* The loop ends: Ok(aggregated_pk).
AggregateDone ==
  /\ pc = "aggregate"
  /\ i > Len(pubKeys)
  /\ pc' = "done"
  /\ UNCHANGED <<pubKeys, i, aggregatedPk>>

Terminated == pc = "done" /\ UNCHANGED vars

Next == AddPubkey \/ AggregateDone \/ Terminated

Spec == Init /\ [][Next]_vars

-----------------------------------------------------------------------------
TypeOK ==
  /\ pubKeys \in SeqsUpTo(G, MaxValidators)
  /\ pc \in {"aggregate", "done"}
  /\ i \in 1..(Len(pubKeys) + 1)
  /\ aggregatedPk \in G

(***************************************************************************)
(* Spec section 8: enforce_aggregated_all_pubkeys returns the same key as  *)
(* enforce_aggregated_pubkeys over an all-true bitmap (the select/add loop *)
(* of BlsVerify, whose result is AggregateOf), for every key sequence, the *)
(* empty one and sequences holding the identity included.                  *)
(***************************************************************************)
AllPubkeysIsAllTrueBitmap ==
  pc = "done" =>
    aggregatedPk = AggregateOf(pubKeys, [k \in DOMAIN pubKeys |-> TRUE])
=============================================================================
