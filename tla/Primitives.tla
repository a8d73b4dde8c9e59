------------------------------- MODULE Primitives -----------------------------
(***************************************************************************)
(* The external collaborators of the gadgets, reduced to what they        *)
(* compute.  G1, G2 and the target group GT of a pairing are cyclic groups *)
(* of prime order Q; a point is represented by its discrete logarithm with *)
(* respect to a fixed generator, so that the group law is addition mod Q,  *)
(* the identity is 0, and the pairing e(a*g1, b*g2) = (a*b)*gT is          *)
(* multiplication mod Q.  A prepared point (P::prepare_g1/prepare_g2) is   *)
(* an encoding of the same point and pairs to the same value.              *)
(*                                                                         *)
(* Apart from prepare_signature_neg_generator at the end, which verify and *)
(* batch_verify_prepared share, nothing here is code of the repository:   *)
(* these are the contracts of the algebra / r1cs_std crates.               *)
(***************************************************************************)
EXTENDS Naturals, Sequences, FiniteSets

CONSTANT Q   \* order of the groups G1, G2 and GT

IsPrime(n) == n >= 2 /\ \A d \in 2..(n - 1) : n % d # 0

ASSUME QAssumption == Q \in Nat /\ IsPrime(Q)

\* Points of G1 and of G2 (discrete logarithms).
G == 0..(Q - 1)

\* P::G2Var::zero(), the group identity.
Zero == 0

\* aggregated_pk += &adder  (group addition).
GAdd(a, b) == (a + b) % Q

\* g2_generator.negate()
GNeg(a) == (Q - a) % Q

\* E::G2Projective::prime_subgroup_generator()
G2Generator == 1

\* P::GTVar::one(), the identity of GT (exponent 0).
GTOne == 0

\* The exponent of e(a*g1, b*g2).
Pair(a, b) == (a * b) % Q

(***************************************************************************)
(* P::product_of_pairings(g1s, g2s): the product of e(g1s[k], g2s[k]), as  *)
(* an exponent of gT.  The Miller loop of the pairing gadget pairs the two *)
(* slices up with zip, so a surplus on either side is left out of the      *)
(* product.  Written as a recursive function so that modules with proofs   *)
(* may use it.                                                             *)
(***************************************************************************)
PairedLen(g1s, g2s) == IF Len(g1s) <= Len(g2s) THEN Len(g1s) ELSE Len(g2s)

ProductOfPairings(g1s, g2s) ==
  LET prod[k \in 0..PairedLen(g1s, g2s)] ==
        IF k = 0 THEN GTOne ELSE (prod[k - 1] + Pair(g1s[k], g2s[k])) % Q
  IN  prod[PairedLen(g1s, g2s)]

(***************************************************************************)
(* Contract of Bitmap::enforce_maximum_occurrences_in_bitmap(max, false):  *)
(* the number of false entries of the bitmap is at most max.               *)
(***************************************************************************)
NonSigners(bitmap) == Cardinality({k \in DOMAIN bitmap : ~bitmap[k]})

MaxOccurrencesHold(bitmap, max) == NonSigners(bitmap) <= max

(***************************************************************************)
(* The constraint system (r1cs_core::ConstraintSystemRef) as the sequence  *)
(* of the constraints a gadget records.  Wires whose value the honest      *)
(* witness fixes (select outputs, sums, prepared points, bit              *)
(* decompositions) are left out; a recorded constraint is kept with the    *)
(* values it relates, and the circuit is satisfied when every one holds.  *)
(***************************************************************************)

\* Bitmap::enforce_maximum_occurrences_in_bitmap(max, value)
MaxOccurrences(bitmap, max, value) ==
  [kind |-> "max_occurrences", bits |-> bitmap, bound |-> max, value |-> value]

\* enforce_bls_equation: product_of_pairings(g1s, g2s).enforce_equal(one)
PairingEquation(g1s, g2s) == [kind |-> "pairing", g1 |-> g1s, g2 |-> g2s]

\* lhs.conditional_enforce_equal(rhs, cond) on field elements
CondEqual(lhs, rhs, cond) ==
  [kind |-> "cond_equal", lhs |-> lhs, rhs |-> rhs, cond |-> cond]

(***************************************************************************)
(* EpochData::constrain(previous_index, ...) (epoch-snark, not under src): *)
(* by spec section 2 the index is monotonic; an index of 0 marks a dummy   *)
(* epoch.                                                                  *)
(***************************************************************************)
NextEpochIndex(previous, index) ==
  [kind |-> "epoch_index", prev |-> previous, index |-> index]

Constraint ==
       [kind : {"max_occurrences"}, bits : Seq(BOOLEAN), bound : Nat,
        value : BOOLEAN]
  \cup [kind : {"pairing"}, g1 : Seq(G), g2 : Seq(G)]
  \cup [kind : {"cond_equal"}, lhs : Nat, rhs : Nat, cond : BOOLEAN]
  \cup [kind : {"epoch_index"}, prev : Nat, index : Nat]

\* Whether a recorded constraint holds under the honest witness.
Holds(c) ==
  CASE c.kind = "max_occurrences" ->
         Cardinality({k \in DOMAIN c.bits : c.bits[k] = c.value}) <= c.bound
    [] c.kind = "pairing" ->
         ProductOfPairings(c.g1, c.g2) = GTOne
    [] c.kind = "cond_equal" ->
         c.cond => c.lhs = c.rhs
    [] c.kind = "epoch_index" ->
         c.index # 0 => c.index > c.prev

\* Every recorded constraint holds: ConstraintSystem::is_satisfied.
IsSatisfied(constraints) == \A k \in DOMAIN constraints : Holds(constraints[k])

(***************************************************************************)
(* Spec section 3: the aggregate public key is the group sum of exactly    *)
(* the keys whose bitmap bit is true.                                      *)
(***************************************************************************)
AggregateOf(pks, bitmap) ==
  LET sum[k \in 0..Len(pks)] ==
        IF k = 0 THEN Zero
        ELSE GAdd(sum[k - 1], IF bitmap[k] THEN pks[k] ELSE Zero)
  IN  sum[Len(pks)]

-----------------------------------------------------------------------------
\* The one gadget helper that verify and batch_verify_prepared share.
\* Mutant: the generator is paired without being negated.
PrepareSignatureGenerator(sig) == <<sig, G2Generator>>

(***************************************************************************)
(* prepare_signature_neg_generator: the prepared signature and the         *)
(* prepared negation of the G2 generator (a circuit constant).             *)
(***************************************************************************)
PrepareSignatureNegGenerator(sig) == <<sig, GNeg(G2Generator)>>

\* Sequences over S of length at most n (inputs of a gadget call).
SeqsUpTo(S, n) == UNION {[1..k -> S] : k \in 0..n}
=============================================================================
