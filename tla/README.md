# Verification of celo-bls-snark-rs: BLS and epoch-transition gadgets

This directory holds TLA+ models of the two gadgets under `src/`, the TLC
configurations that model-check them, and TLAPS proofs about them.

## 1. Inventory

### Components

| Component | Source | State it keeps | Operations |
|---|---|---|---|
| BLS verification gadget | `src/crates/bls-gadgets/src/bls.rs` | none of its own; appends to the shared constraint system | `verify`, `batch_verify`, `batch_verify_prepared`, `enforce_aggregated_pubkeys`, `enforce_aggregated_all_pubkeys`, `enforce_bitmap`, `prepare_signature_neg_generator`, `enforce_bls_equation` |
| Epoch transition gadget | `src/crates/epoch-snark/src/gadgets/single_update.rs` | none of its own; a `SingleUpdate` holds the new epoch's data and the signer bitmap | `SingleUpdate::constrain`, `SingleUpdate::empty` |
| Epoch chain driver | epoch-snark, outside `src/` | the previous epoch's context (keys, index, entropy, threshold) | chain the transitions, then one `batch_verify` |
| Epoch data constrainer | epoch-snark, outside `src/` | none | `EpochData::constrain` (index, threshold, keys, message hash, entropies, bits) |
| Bitmap occurrence constraint | bls-gadgets, outside `src/` | none | `enforce_maximum_occurrences_in_bitmap` |
| Pairing / curve arithmetic, constraint system | algebra, r1cs-std, r1cs-core | the constraint system | group add/negate/select, `prepare_g1/g2`, `product_of_pairings`, `enforce_equal` |

### How they interact

Everything runs on one thread and shares one mutable handle, the constraint
system. Every gadget call appends constraints to it and returns wires.
Otherwise it stops in one of two ways. A collaborator can return
`Err(SynthesisError)`, which `?` propagates. An `assert_eq!` can panic.

`SingleUpdate::constrain` does the following, in this order:
1. It asserts that the new epoch has `num_validators` keys.
2. It calls `EpochData::constrain(previous_index)`.
3. It computes `index != 0` and adds the entropy-continuity constraint
   (`conditional_enforce_equal`). That call's `Result` is dropped.
4. It allocates the bitmap.
5. It calls `BlsVerifyGadget::enforce_bitmap` with the **previous** epoch's
   keys and threshold. That records the occurrence constraint, asserts
   `len(bitmap) = len(keys)`, and sums the selected keys.

The driver feeds each returned `ConstrainedEpoch` back in as the previous
epoch of the next call. At the end it checks every (message hash, aggregate
key) pair against one aggregated signature with `batch_verify`.

A circuit can be wrong without any error being raised: a bad signature only
makes the constraint system unsatisfiable. So each property below has the form
"the call returned Ok **and** the recorded constraints are satisfied ⇒ ...".

### What is hard

There is no concurrency. What is hard:
- The **order** in which constraints are recorded relative to checks and
  failures.
- **Partial failure**: a failing collaborator leaves a half-built circuit,
  and one `Result` is dropped.
- The **multi-step handoff** between epochs, where values produced by one call
  become the checks of the next.
- **Edge values**: identity keys, empty inputs, thresholds of at least the
  number of validators, the sign of the generator.

`PROJECT.json` lists these under `hazards`, each at the line where it applies.

### Correctness, per component

- BLS gadget: an Ok result on a satisfied circuit means two things. First, at
  most `maximum_non_signers` bits are false. Second, the signature satisfies
  e(σ, g2) = e(H(m), apk), where apk is the sum of exactly the keys whose bit
  is set (soundness). A genuine signature with a quorum gives a satisfied
  circuit (completeness). Length mismatches are rejected before anything is
  recorded (spec §8).
- Epoch transition: each transition is authorised by a quorum of the
  **previous** validator set under the **previous** threshold. The validator
  count is fixed. With the check enabled, the parent entropy equals the
  previous epoch's entropy. No sub-call failure is swallowed.

## 2. Modules

| Module | Models |
|---|---|
| `Primitives` | The collaborators, reduced to what they compute. G1, G2 and GT are cyclic groups of prime order `Q`. A point is its discrete logarithm, the group law is `+ mod Q`, and the pairing is `* mod Q`. The constraint system is a sequence of recorded constraints with `Holds`/`IsSatisfied`. It also holds the reference `AggregateOf` (spec §3) and the spec-modelled index constraint of `EpochData::constrain`. |
| `BlsVerify` | `verify` step by step, in the style of a translated sequential algorithm. The statement is held in `pc`. Steps: `EnforceBitmap` (occurrence constraint), `AssertSameLength` (assert, which may panic), `AggregateStep` (one `select` + `+=` iteration), `AggregateDone`, `VerifyEquation` (prepare, then `enforce_bls_equation` with the negated generator), `SynthesisFailure` (any `?` that fails). The inputs are chosen in `Init` over every sequence of up to `MaxValidators` keys/bits. |
| `BlsVerifyCall` | Abstract spec: `verify` as one atomic step with its allowed outcomes and constraints. `BlsVerify` implements it through the mapping `CallResult`/`CallConstraints`: the call stays pending, with nothing recorded, until it returns. |
| `BlsVerifyProofs` | TLAPS proofs about `BlsVerify`. |
| `BlsBatchVerify` | `batch_verify` and `batch_verify_prepared` step by step, over any two slices of up to `MaxBatch` keys and hashes: `PrepareHash`/`HashesPrepared` (the `prepare_g1` map and its `collect`), `PrepareKey`/`KeysPrepared` (`prepare_g2`), `VerifyPrepared` (the signature and negated generator put in front, then `enforce_bls_equation`), and `SynthesisFailure` (any `?`). |
| `BlsAggregateAll` | `enforce_aggregated_all_pubkeys`: the unconditional `+=` loop, one iteration per `AddPubkey` step. No collaborator it calls can fail. |
| `EpochChain` | `SingleUpdate::constrain` as one action, `Constrain(u, failAt)`, with every panic, error and the dropped `Result` in code order. Also the driver, modelled from the spec (`Init` genesis, `ConstrainUpdate`), and `batch_verify` (`BatchVerify`). The helpers `EntropyCheck`, `OccurrenceCheck` and `AggregateKey` are the lines of `constrain` that make each check. |
| `MCEpochChain` | Small key sets and bitmaps for TLC. |
| `EpochChainProofs` | TLAPS proofs about `EpochChain`: type correctness, `QuorumOfPreviousSet` and `BatchSound` for every chain. |
| `BlsBatchVerifyProofs` | TLAPS proofs about `BlsBatchVerify`. |
| `BlsAggregateAllProofs` | TLAPS proofs about `BlsAggregateAll`. |
| `PrimitivesProofs` | Lemmas shared by the proofs: induction over `Nat`, the unfolding of the recursive functions, arithmetic mod `Q`, and the batch-product identity. |

The one piece of repository code in `Primitives` is
`prepare_signature_neg_generator` (`PrepareSignatureNegGenerator`), which
`verify` and `batch_verify_prepared` share.

The pairing product is a collaborator. Its arkworks implementation zips the
two slices in the Miller loop, so a surplus element on either side is
ignored; `ProductOfPairings` does the same. Nothing in `src/` compares the
lengths first.

## 3. Runs

| Run | cfg | Checks | Bounds |
|---|---|---|---|
| `bls_verify` | `BlsVerify.cfg` | `TypeOK`, `ThresholdEnforced`, `SignatureSound`, `SignatureComplete`, `VerifyImplementsCall` | Q = 5, up to 3 keys. Every key sequence and bitmap of length 0..3 (so also mismatched lengths, identity keys and empty inputs), every threshold 0..3, every hash and signature, and a failure at every fallible step. About 1.9M states, 40 s. |
| `bls_shape_error` | `BlsVerifyShape.cfg` | `NoConstraintBeforeShapeError`, expected to be violated | Q = 3, up to 2 keys |
| `bls_batch_verify` | `BlsBatchVerify.cfg` | `BatchEquationCoversInputs`, `BatchSatisfiedIffGenuine` | Q = 5, up to 3 keys and 3 hashes. Every pair of slices (equal and unequal lengths, empty ones included), every signature, and a failure at every fallible step. About 1.95M states, 45 s. |
| `bls_batch_shape` | `BlsBatchShape.cfg` | `BatchShapeChecked`, expected to be violated | Q = 3, up to 2 keys and 2 hashes |
| `bls_aggregate_all` | `BlsAggregateAll.cfg` | `AllPubkeysIsAllTrueBitmap` | Q = 5, every key sequence of length 0..3 |
| `epoch_quorum` | `EpochQuorum.cfg` (`MCEpochChain`) | `QuorumOfPreviousSet`, `BatchSound` | Q = 3, 2 validators, 2 transitions, indices 1..3. Three key sets: two of the right size (one holds the identity key) and one of the wrong size. Every 2-bit bitmap plus one of the wrong length. Thresholds 0..2, every failure point, and every aggregated signature. About 5.4M states, 95 s. |
| `epoch_entropy_continuity` | `EpochEntropy.cfg` | `EntropyContinuity`, expected to be violated | indices 0..2, entropies 0..2, no failures |
| `epoch_entropy_dropped` | `EpochEntropyDropped.cfg` | `EntropyCheckRecorded`, expected to be violated | as above, with failures |

Why these bounds are enough:
- Q = 5 (or 3) keeps the generator and its negation distinct, so a sign error
  shows.
- Three keys give a loop with a first, a middle and a last iteration.
- Two transitions are the smallest chain in which a transition's "previous"
  epoch is itself an output of `constrain`. The index rule of
  `EpochData::constrain` (`NextEpochIndex`) needs strictly increasing
  indices, so the genesis index and two transitions need three index values.
  With `Indices = 1..3`, verified and satisfied chains of two transitions are
  reached, so the handoff from the first transition's output to the second
  transition is checked.
- `TypeOK` is checked only on `bls_verify`, where the loop index can go
  wrong. In the other modules every value comes from a group operation or a
  `collect`, and no bug in that code could leave its type. There, type
  correctness is proved (`TypeCorrect`) as a step towards the other theorems.

Every property has a mutant in `PROJECT.json`: a plausible bug in a mapped
definition that TLC must catch. The mutants are:
- the loop starting at index 0;
- the occurrence check counting `true` bits;
- the loop stopping one key early;
- the generator not negated;
- the select branches swapped;
- the first message hash skipped, or the first key repeated, when the batch
  is prepared;
- the all-keys sum overwritten (`=` for `+=`);
- the new epoch's threshold or keys used in place of the previous epoch's.

No fairness is assumed, and no liveness is checked. Every step of a call is
the only enabled step, so a call always terminates. That is not a property
worth a run.

## 4. Findings

1. `bls.rs:182`: the occurrence constraint is recorded before the length
   `assert_eq!` at line 143, so the shape error comes after a constraint on the
   mismatched data. Spec §8 says the error comes first.
2. `single_update.rs:106` compares `previous_epoch_index`, not
   `previous_epoch_randomness`, with `parent_entropy`. With the entropy check
   on, a chain whose parent entropy is not the previous entropy is still
   satisfiable. The spec itself raises this as an open question.
3. `single_update.rs:106` drops the `Result` of `conditional_enforce_equal`.
   If that call fails, the transition returns Ok without its entropy
   constraint.
4. `bls.rs:123`: `batch_verify` and `batch_verify_prepared` never compare the
   number of message hashes with the number of keys. The pairing product
   zips them, so a mismatched batch returns Ok with an equation over the
   common prefix; the surplus pairs are simply not checked. Spec §8 says
   mismatched lengths are an input-shape error, and the comment on
   `enforce_bls_equation` (`bls.rs:213`) says it fails on slices of
   different lengths.

## 5. Proofs

Every invariant that a passing run checks is also proved by a theorem, for
every value of the constants. The proofs share the lemmas of
`PrimitivesProofs`.

### `PrimitivesProofs`: lemmas about the operators

- Induction over data, without an operator parameter. `LeastNat` comes from
  `WFMin` of `WellFoundedInduction`: a non-empty set of naturals has a least
  element. `UpInduction` follows from it: a set `T` of naturals that holds
  `0` and is closed under `+ 1` contains every natural.
- The recursive functions of `Primitives`, unfolded through their `CHOOSE`:
  - `AggFnDef`/`AggFnType`: the function under `AggregateOf` exists, is
    defined at every index, satisfies its recursive equation, and lies in `G`;
  - `ProdFnDef`: the same for `ProductOfPairings`.

  Each existence proof builds the function with `UpInduction`.
- Arithmetic mod `Q`. SMT proves uniqueness of the remainder (`ModUnique`)
  but does not rewrite `%` with a variable modulus. Every other fact is
  derived from uniqueness over bounded quotients:
  - `ModSmall`;
  - `ModRange`;
  - `ModAdd` (associativity of `+ mod Q` on `G`);
  - `NegCancel`;
  - `PairGenerator`.
- `BatchProduct`: a product that starts with the pair (signature, negated
  generator) is the identity exactly when the rest of the product equals the
  signature. It is proved by `UpInduction` over the length of the prefix. It
  is the arithmetic core of `enforce_bls_equation` as `verify`,
  `batch_verify` and the chain use it.

### `BlsVerifyProofs`

These results hold for every prime `Q` and every `MaxValidators \in Nat`.
The only assumptions are `QAssumption` and `MaxValidatorsAssumption`.

- `TypeCorrect`: `Spec => []TypeOK`.
- `ThresholdTheorem`: `Spec => []ThresholdEnforced`.
  - Inductive invariant: `IInv == TypeOK /\ OccurrenceRecorded`. Nothing is
    recorded before `enforce_bitmap`. From then on, `cs[1]` is the occurrence
    constraint over the call's own bitmap and threshold.
  - Every later step only appends to `cs`, so `cs[1]` is preserved.
- `SoundTheorem` (`[]SignatureSound`) and `CompleteTheorem`
  (`[]SignatureComplete`) rest on the inductive invariant `CallInv`, which
  fixes the contents of `cs` at each `pc`:
  - it is empty before `enforce_bitmap`;
  - then it holds the occurrence constraint `Occ`;
  - in `done` it holds exactly `<<Occ, Eq>>`, where `Eq` is the pairing
    equation over the negated generator and the aggregate that
    `AggregateStep` built.
  - `aggregatedPk` is always `AggFn` of the keys at `i - 1`.

  `DoneConstraints` reduces satisfaction in `done` to `Holds(Occ) /\
  Holds(Eq)`. `BatchProduct` with one pair reduces `Holds(Eq)` to
  `signature = Pair(messageHash, AggregateOf(...))`.
- `RefinementTheorem`: `Spec => VerifyImplementsCall`, the refinement of
  `BlsVerifyCall` under the mapping `CallResult`/`CallConstraints`:
  - `InitMaps`: initial states map to initial states;
  - `NextMaps`: every step maps to the call's `Return` or to a stutter;
  - `InternalStutter`: every internal step leaves the mapped state alone,
    because the call stays pending;
  - `ReturnStep`: a step into `done` or `error` is a `Return` whose
    constraints are the ones `CallInv` pins down;
  - `SynthesisFailure` splits on what had been recorded before the `?`.

### `BlsBatchVerifyProofs`

These results hold for every prime `Q` and every `MaxBatch \in Nat`.

- `TypeCorrect`: `Spec => []TypeOK`.
- `CoversTheorem`: `Spec => []BatchEquationCoversInputs`.
- `GenuineTheorem`: `Spec => []BatchSatisfiedIffGenuine`.

All three rest on one inductive invariant:
- the prepared slices are prefixes of the inputs (`Prefix`, with the lemmas
  `PrefixAppend` and `PrefixFull`);
- each `collect` ends only when its slice is complete;
- nothing is recorded before the equation;
- in `done`, `cs` is exactly `<<Equation>>`.

`GenuineTheorem` then applies `BatchProduct` and `PairGenerator`. For a
batch of one key and one hash, the recorded equation is the one
`BlsVerify`'s `VerifyEquation` records. This is the spec §8 property that a
batch of size 1 reproduces `verify`.

### `BlsAggregateAllProofs`

- `TypeCorrect`: `Spec => []TypeOK`.
- `AllTrueTheorem`: `Spec => []AllPubkeysIsAllTrueBitmap`.

The inductive invariant `AllInv` says that after `i - 1` iterations of the
`+=` loop, `aggregatedPk` equals `AggFn` over an all-true bitmap at
`i - 1`. It also says that `done` is reached only after the last key. So
the unconditional loop and the bitmap aggregation with every bit set
compute the same key, for keys of any length.

### `EpochChainProofs`

These results hold for every `NumValidators`, `MaxEpochs` and set of
updates, from `ChainAssumption`.

- `QuorumTheorem`: `Spec => []QuorumOfPreviousSet`. The inductive invariant
  is `IInv == Shape /\ Handoff`:
  - `Shape` is the state's shape;
  - `Handoff` says every key set has `NumValidators` keys, and every bitmap
    is as long as its predecessor's key set;
  - `Handoff` also says the constraint at each epoch's `csTo` is the
    occurrence constraint of that epoch's bitmap against its predecessor's
    threshold.

  `NextIInv` has one case per outcome of `Constrain` (panic, error with or
  without new constraints, return) and one for `BatchVerify`. `GrowsKeepsIInv`
  says `Handoff` survives any step that only appends to `cs`.
- `TypeCorrect` and `BatchSoundTheorem` (`[]BatchSound`) rest on
  `ChainInvariant`: `Spec => [](IInv /\ Bounds /\ BatchInv)`.
  - `Bounds`: the aggregate signature is a point and the chain stays within
    `MaxEpochs`.
  - `BatchInv`: every epoch's aggregate key is `AggregateKey` over its
    predecessor's key set. Once the chain is verified, the last constraint is
    the batch equation over the aggregate signature, every epoch's hash and
    every aggregate key.

  `ConstrainEffect` and `PrevOfAppend` carry `BatchInv` across an update.
  `BatchProduct` then turns the satisfied batch equation into `BatchSound`.

### What stays with TLC, and why

- The properties of the `violation` runs:
  - `NoConstraintBeforeShapeError`;
  - `BatchShapeChecked`;
  - `EntropyContinuity`;
  - `EntropyCheckRecorded`.

  They are false of the code, and TLC's counterexamples are the findings.
- Liveness. No fairness is stated, because the code's callers decide
  whether synthesis runs to the end. Liveness and `ENABLED` are out of
  TLAPS's reach in any case.

No module that has a proof reaches a `RECURSIVE` operator. The recursion in
`Primitives` is written as recursive functions, which is also why the
community folds are not used.

## 6. Not modelled

- Hashing to the curve, the CRH/XOF auxiliary bits and serialisation: they are
  data conversions outside `src`, so the message hash is an input point.
- The pairing circuit itself.
- Tracing and `println!`.
- The tests.
- `SingleUpdate::empty`, which only builds unknown witnesses for setup.
- Rogue-key attacks. They are cryptographic: in the discrete-log abstraction
  every key has a known logarithm.

## 7. Plan for the next sittings

1. EpochChain refinement: show that the transition's use of `enforce_bitmap`
   matches `BlsVerifyCall`, by composing the step model into the chain.
2. Chain driver: dummy epochs in the middle of the chain, once the index rule
   of `EpochData::constrain` (outside `src`) can be stated faithfully.
3. Proofs:
   - `BlsVerify`: the action property that `cs` only grows;
   - the refinement of the chain's per-epoch check into `BlsVerifyCall`, once
     it is modelled.
