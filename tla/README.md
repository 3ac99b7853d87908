# golden-redpallas in TLA+

golden-redpallas is a one-round distributed key generation (DKG) for RedPallas
keys. Each dealer shares a polynomial, masks every share with a value only it
and the recipient can derive, commits to polynomial and mask, and proves that
the mask is the derived one. A participant unmasks its share of each dealer's
transcript and adds the shares up; the dealers' constant commitments add up to
the public key. This directory models that protocol and its proof backend as the
Rust code runs them, checks them with TLC on small instances and proves most of the
invariants with TLAPS.

Source paths below are relative to `src/crates/`, documents to `src/docs/`.

## Inventory

| Component | State it keeps | Operations | Correct when |
|---|---|---|---|
| `golden-core` (config, field, polynomial, dealer, transcript, aggregation) | none; values only | `ProtocolConfig::new`, `build_transcript`, `verify_transcript`, `aggregate_share`, `aggregate_public_key`, `interpolate_at_zero` | only shares a dealer committed to are ever added up, over enough distinct dealers |
| `golden-pallas` arithmetic (`pallas_types.rs`, `vesta_types.rs`) | none | scalars, points, commitments, the equation `G*z = F(x) + M` | the field and group laws hold and encodings are canonical |
| `golden-pallas` eVRF (`evrf.rs`) | none | key agreement, mask transcript, mask derivation | both sides derive the same mask; a mask is bound to the whole session |
| `golden-pallas` simulation (`simulation.rs`) | a fixture, its transcripts | `DkgFixture::parse`, `run`, `recover_participant_from_transcripts`, `aggregate_public_key`, `aggregate_secret` | quorums reconstruct one secret, the one of the group key, in any order |
| `golden-proofs` DKG (`dkg.rs`) | a simulation and proofed transcripts, both public fields | `from_fixture_with_progress`, `recover_with_proofs`, `aggregate_public_key` | no unproven mask gets into a share; all or nothing |
| `golden-proofs` interface, fixture backend (`types.rs`, `witness.rs`, `fixture.rs`) | none | prove, verify, verify a batch, encode and decode public inputs | an invalid member fails the batch; decoding inverts encoding |
| `golden-proofs` IPA (`pallas/ipa.rs`) | a process-wide cache of generator vectors behind a mutex; two transcripts while a proof is made or verified | `deterministic`, `prove`, `verify`, codec | one allocation per key; prover and verifier agree on challenges; what is accepted is true |
| `golden-proofs` circuit (`pallas/circuit.rs`) | two transcripts | R1CS layout, reduction, prove, verify, codec | the layout keeps the constraints; challenges bind the statement; what is true is proved |
| `golden-proofs` skeleton (`pallas.rs`) | none | traces, the two circuits' claims, prove, verify, verify a batch, framing | an accepted proof states the truth about one point |
| `frost-redpallas` | none | shares to FROST key packages, ZIP-312 parameters | packages of a quorum sign for the group key |
| `golden-cli` | a session file | `create`, `post`, `verify`, `recover` | what was validated is what is recovered from |

Components call each other directly and share no state, with two exceptions:
the IPA cache, used by every thread that proves or verifies, and the session
file, used by every run of the command line. The transcripts are the messages
of the protocol; how they travel is left to the caller, who hands the library
whatever it holds.

The hard behaviours, each listed with its line under `hazards` in
`PROJECT.json`:

* threads racing for the cache, and panics near its mutex;
* transcripts that are lost, duplicated, reordered, changed, of another
  session, or different for different participants;
* verification that covers one participant only and whose result does not say
  whom (`golden-core/src/transcript.rs:195`);
* two public fields of one object that are taken to agree
  (`golden-proofs/src/dkg.rs:110`);
* loops that stop at the first failure (`golden-proofs/src/dkg.rs:225-291`);
* decisions each participant takes alone (even-y normalisation) that must fit
  together;
* two machines that must absorb the same things in the same order before each
  challenge (`pallas/ipa.rs:258`, `pallas/circuit.rs:437`);
* two circuits that prove the halves of one statement and are tied by two
  commitments only (`pallas.rs:538`);
* a column permutation with padding (`pallas/circuit.rs:712`);
* a public mask commitment of which the proof shows an opening, and recovery
  expects the point of the mask (`pallas.rs:538`);
* numeric boundaries: threshold and polynomial length, word-size shifts, codec
  lengths, powers of two, block lengths, limbs that are no bytes;
* an interrupted write of the session file.

## Modules

| Module | Models | Notes |
|---|---|---|
| `PrimeField` | scalars and points | a point is its discrete logarithm, so the group is addition modulo `P` |
| `GoldenCore` | `golden-core`, and the commitment functions of `pallas_types.rs` | operators returning `Ok`/`Err`, errors in the order of the code |
| `Evrf` | `evrf.rs` | Diffie-Hellman modulo `Q`; BLAKE2b is a fixed function of all its inputs |
| `DkgSimulation` | the functions of `simulation.rs` | extends the three above |
| `DkgSession` | a session under any delivery | actions `Run`, `Deliver`, `Change`, `Recover`, `AggregateKey` |
| `FixtureFile` | `DkgFixture::parse` | a line is a key with its value |
| `CliSession` | `golden-cli/src/main.rs` | processes over shared files; a write is a truncation, then any number of partial fills |
| `VerifiedAggregation` | a caller of `verify_transcript` and `aggregate_share` | verifications and aggregations interleaved |
| `FixtureBackend` | `fixture.rs`, `witness.rs`, and the lookups and proof inputs of `dkg.rs` | operators; used by the next two |
| `ProofedRecovery` | `dkg.rs` `recover_with_proofs` | one action per loop iteration; errors end the call |
| `ShareRecovery` | abstract specification: one answer, all or nothing | implemented by `ProofedRecovery` |
| `ProofedSession` | `ProofedDkgSimulation` | built proof by proof with reports, then used by a caller that may change both public fields |
| `FrostAdapter` | key packages and even-y normalisation | participants adapt in any order |
| `IpaSetupCache` | `PallasIpaSetup::deterministic` | one action per atomic step of a thread |
| `SetupMemo` | abstract specification: an atomic memo per key | implemented by `IpaSetupCache` |
| `PallasVectors` | vectors of scalars and points | a point is its coefficient at each of the independent generators |
| `FiatShamir` | the transcripts of both proof layers | BLAKE2b is a random oracle with non-zero answers |
| `IpaClaim` | setup, claim and witness of an inner-product proof | with every refusal of the constructor |
| `InnerProduct` | `prove` and `verify` of `ipa.rs` | two machines, one action per round; one thing may be changed between them |
| `R1cs` | matrices, circuit, witness, layout of `circuit.rs` | an `Option` is a singleton or the empty set; `Overlay` is TLC's `@@` written out, so that proofs can expand it |
| `R1csLayout` | verifier and prover each laying out a system | |
| `CircuitClaim` | the setup and the Pedersen claims of circuit proofs | |
| `CircuitProof` | prover and verifier of `circuit.rs` | with the reduction by `y` and `z`, and one change between them |
| `MaskRelation` | what the proof of a mask says, in points, bytes, limbs and coordinates (`pallas.rs`) | |
| `MaskTraces` | traces in the hands of a parser, limbs changed | |
| `ProofSkeleton` | `prove_mask`, `verify`, `verify_batch` of `pallas.rs` | honest proofs, and halves of proofs put together |
| `Blake2bStream` | the block loop of `blake2b_512_circuit` against the prover's hashing library | ideal compression |
| `Codecs` | the four byte formats | a cell stands for the fixed bytes of one item |
| `ProtocolTheorems` | `PrimeField`, `GoldenCore`, `Evrf` | lemmas: remainders, induction over sets, folds, powers of two, the field, sums, polynomials, masks, transcripts, interpolation |
| `DkgSessionProofs`, `ProofedRecoveryProofs`, `InnerProductProofs`, `CircuitProofs`, `ProofSkeletonProofs` | the theorems | each extends the modules it is about; `ProofSkeletonProofs` also `MaskTraces` and `Codecs` |
| `BackendProofs` | the theorems | about `IpaSetupCache` and `Blake2bStream` |
| `CallersProofs` | the theorems | about `FrostAdapter`, `VerifiedAggregation` and `ProofedSession` |
| `MCInnerProduct`, `MCCircuitProof` | instances for TLC | |
| `MCDkgSession`, `MCCallers`, `MCProofParts`, `MCProofSkeleton` | several independent machines in one run | `caller` and `part` say which one a behaviour is about; the others never move |

How state and actions correspond to the code:

* **DkgSession.** `simulation` is the `DkgSimulation` that `run` returns; `inbox`
  is the slice the caller passes to `recover_participant_from_transcripts`;
  `recovered` and `groupKey` keep results. The code never says how a slice
  comes about, so `Deliver` appends any transcript, also one that is there
  already, and `Change` alters one. What a proof covers (dealer, polynomial and
  mask commitments) does not change here, because this path trusts
  `ProofStatus::Verified`; `ProofedRecovery` drops that trust.
* **ProofedRecovery.** `phase` and `turn` are the program counter through the four
  loops, `seen` and `value` are `seen_dealers` and `value`. `keySum` is an
  auxiliary sum of `F_d(target)` that no guard reads. `Enter` is the end of a
  loop. A second lookup of something the first loop already found
  (`find_dealer`, the masked share) is not a step of its own: both read the same
  immutable slice.
* **ProofedSession.** `transcripts` and `proofed` are the two public fields.
  `ProveNext` is one turn of the inner loop with its report, `Push` the end of one
  transcript, `ProveFails` an error of the proof system, `Change` anything a caller
  does to a field. What one
  recovery answers is `AcceptableInput` and `ShareOfInput`, which
  `ProofedRecovery` is checked to compute.
* **CliSession.** A process reads a whole file at once, as `read_to_string` does,
  and decides from what it read. `ReadFixture` is `create` up to the write,
  `Truncate` and `Fill` are what `fs::write` does to the file in view of the
  others, `Interrupt` kills the process or fills the disk. `made` is auxiliary.
  Two creates on one output at a time are left out: they would write over each
  other in any program.
* **IpaSetupCache.** `Acquire`, `Get`, `Drop`, `Compute`, `Acquire`, `Entry`,
  `Insert`, `Unlock` are the statements of `deterministic` split at every point
  where another thread may run. `Panic` is unwinding: a guard held at that point
  poisons the mutex. A setup is what it was derived from and which allocation it
  is; the generator vectors themselves are modelled by `IpaClaim`. Rayon's
  workers inside `Compute` share nothing and are part of that step. `Compute`
  panics for a length above `MaxLogLen`, be it that the shift overflows or, some
  lengths earlier, that no vector of so many points can be allocated.
* **InnerProduct, CircuitProof.** `prover` and `verifier` are the local variables
  of the two functions, transcripts included. `ProverStart`, `ProverRound`,
  `ProverFinish` and their counterparts are the statements between two
  challenges; what the code computes between them is done at once, as nobody else
  sees it. `Deliver` hands over proof, claim and setup (and circuit), one item
  changed or none. The oracle (`FiatShamir`) answers a transcript the first time
  with any non-zero scalar and then always with the same one. Inside a
  `CircuitProof` the inner-product proof is its claim and witness: it is accepted
  for that claim if the claim is true of the witness, which is what `ipa` checks
  of `InnerProduct`.
* **R1csLayout.** `BuildCircuit` is `r1cs_to_circuit`, `BuildWithWitness` is
  `to_circuit_with_witness`, on the same statement.
* **ProofSkeleton.** `items` is the slice for `verify_batch` with, for each
  member, how it came about: `Prove` is `prove_mask` by somebody with a witness,
  `PutTogether` a proof made of the halves of two others under one opening of the
  shared commitments, with a mask commitment of the maker's choice: `prove` fixes
  its blinding to zero, nothing in `verify` does. `batch` is the position and
  verdict of `verify_batch`. A circuit proof is ideal: whoever has a witness of
  circuit and claim can make one, and it is accepted for these only, which is
  what `circuit` checks and the soundness of Bulletproofs adds.
* **MaskTraces, Codecs.** A trace or buffer is built by the code and then changed
  by a bounded number of `AlterTrace` or `AlterCells` steps. `CapacityMax` is the
  largest request `Vec::with_capacity` grants before it panics.
* **Blake2bStream.** `chain` and `buffer` are the state of `blake2b_simd`, modelled
  from RFC 7693; `index` and `h` are the loop variables of the circuit. The
  chaining value is the list of all compressions so far, with counter and flag.
* **FrostAdapter.** Which points have an odd `y` is a constant that satisfies
  what the curve guarantees: a point and its negation differ in parity.

Some definitions are preceded by one or two variants, described as slips: what a
plausible mistake in that piece of code would look like. No specification uses
them. `PROJECT.json` (`mutants`) names, for every property of a passing run, the
slip that breaks it.

## Runs

| Run | Question | Bounds |
|---|---|---|
| `dkg` | Is every recovered share the dealers' sum, do quorums agree with each other and with the group key, does order matter, does damage stay with the damaged participant? Does proof-aware recovery implement all-or-nothing, and is its share off the committed one only by what the mask commitments miss? | `P = 7`; two dealers and three participants with an inbox of two, three dealers and two participants with an inbox of three; one dealer id twice, also with a threshold of one; polynomials longer than the threshold; one change; fixtures the configuration refuses. All sequences of up to three from thirteen proofed transcripts: two good ones, ten each failing some check for some target, and one that passes them all although its mask commitment is not the point of the mask |
| `callers` | Do the programs around the library use it safely: FROST packages, interleaved verification, a session whose fields are edited, the command line? | `P = 11` and every polynomial of degree one, four participants; three dealers, four spoilt transcripts, three held; three dealers, two edits; two processes, two files, seven texts, all commands |
| `ipa` | Do honest proofs verify, are changed ones refused, and do both sides absorb the same? | `P = 5`, vectors of one to four elements, refused lengths, misstated claims, one change |
| `circuit` | Are true claims proved, is the reduction the weighted sum of the constraints, are changed answers refused? | `P = 5`, circuits of one wire and of four (one of them padding), two tapes of blindings, one change in the small one |
| `skeleton` | Does an accepted proof state the truth, does an honest one verify, is a batch the conjunction, are accepted traces canonical? | `P = Q = 7` and the real curve equation; single proofs over every mask, several keys, sessions and blindings of the mask commitment, batches of up to three; traces of every secret and of a witness that is not the dealer's, two changed limbs |
| `proof_parts` | Do circuit and library hash alike, do the codecs invert, does the layout keep the constraints? Do racing threads share one setup, is a panic local, is the cache an atomic memo, does every call end? | blocks of 128 bytes and messages of up to 290; two changed cells; 24 systems of one row and one of two, over three elements; three threads, three lengths of which one cannot be allocated, four calls; no symmetry, as liveness is checked |

Why the bounds are enough. The field must be large enough for the identifiers to
be distinct and non-zero and for a sum of shares to wrap: 7 and 11 are. A quorum
of two is the least for which interpolation says anything, and a third
participant and dealer give sets that are larger than the quorum. Two copies of
one transcript and one other are the shortest input in which order, duplication
and threshold interact, so an inbox of three suffices for orders. One change
reaches every error of `validate_transcript`. Three threads and four calls allow
two threads to compute a key while a third finds it, or panics, and a later call
to hit. Two processes are a reader beside a writer, or a create after a killed
one. Four elements are two folding rounds, the least in which one round's folds
feed another; a field of five has zero and non-trivial inverses, and every
challenge is tried. One wire of padding next to three others shows the padding.
A curve over seven elements with seven points has the shape of Vesta: prime
order, `x` shared by a point and its inverse, coordinates in the scalar field. A
batch of three has a first, a middle and a last member. 290 bytes are two full
blocks and a rest, and the pieces end before, at and behind a block's end.

Deadlock is not checked anywhere (`CHECK_DEADLOCK FALSE`), because every one of
these systems may stop: the inbox is full and everybody recovered, all calls are
made, the recovery is over, everybody has adapted, the processes have answered,
the proof or the batch is verified, the buffer is read, the digest is made, or
the bound on changes is reached. That a call of the cache does not hang is
`EveryCallEnds`; the other calls are loops over slices.

Six runs expect a violation. Each states what a document or comment says and
shows that the code does otherwise (`findings` in `PROJECT.json`):

* `aggregation_target`: a `VerifiedTranscript` is not safe to aggregate for
  another participant than it was verified for (`golden-core/src/transcript.rs:210`).
* `frost_quorum`: normalising share by share breaks quorums with mixed parities
  (`implementation-testing-plan.md:253-256` and `:267`; `frost-redpallas/src/lib.rs:69`).
* `proofed_session_key`: the key is aggregated from the simulation's transcripts,
  the proofs that are verified are those of the other field
  (`golden-proofs/src/dkg.rs:109`).
* `codecs_panic`: the decoder of the public inputs reserves room for as many
  commitments as the buffer claims, before it reads one, and panics on a length
  no allocation can have (`golden-proofs/src/types.rs:99`, `fuzzing.md:35-37`).
* `mask_commitment`: a proof is accepted for a mask commitment that opens to the
  mask with any blinding, not only for the point of the mask
  (`implementation-testing-plan.md:180-183`, `bulletproofs-backend.md:134`;
  `golden-proofs/src/pallas.rs:538`).
* `valid_contributions`: an invalid transcript is not excluded, it ends the
  recovery of a participant that holds enough valid ones
  (`implementation-testing-plan.md:217` and `:232-233`;
  `golden-proofs/src/dkg.rs:268`).

Other disagreements between documents and code met while modelling. The models
do what the code does; none of these is a run:

* Participants that heard different sets of dealers do not reconstruct the group
  key; `implementation-testing-plan.md:231` promises it of every participant. The
  invariant `QuorumMatchesGroupKey` says when it does hold.
* A fixture may give dealers polynomials longer than the threshold; a threshold
  of shares then does not reconstruct (`golden-core/src/config.rs:39`).
* `post` does not validate what it posts (`session-transcript-format.md:28`
  against `golden-cli/src/main.rs:96`).
* The word `status` is not a command; only the empty argument list is
  (`golden-cli/src/main.rs:257` against `:37`).

## Fairness

* `IpaSetupCache`: weak fairness of each thread's step. The operating system runs
  every thread; `std::sync::Mutex` promises no order, so a waiting thread may be
  overtaken, and `Acquire` is only intermittently enabled. The number of calls is
  bounded, so overtaking ends; with calls arriving for ever the code would need
  a fair mutex, and `EveryCallEnds` is not claimed for that.
* The other specifications state no fairness and have no liveness property:
  nothing obliges a caller to recover, a participant to adapt or a process to run,
  and what is one sequential call ends because its loops are over slices.

## Proofs

`tlapm` checks every proof to its leaves. Two devices carry the proofs beyond
first-order reasoning; both are in `ProtocolTheorems`.

* *Induction from the pigeonhole.* The library's induction theorems have an
  operator for a parameter, which the provers cannot instantiate. `Induct` has a
  set of naturals instead: were a number missing from it, adding one would map the
  members below that number into themselves without zero, which the pigeonhole
  theorem for finite sets rules out. `SetInduct` lifts it to the subsets of a finite set.
  The folds of the community modules are recursive functions on subsets, so what
  they compute follows: that they are defined (`FoldExists`) and that the order in
  which a sum picks its elements does not matter (`FoldAnyOrder`). On these rest
  `SumAppend`, `EvaluateHorner`, `MaskType`, and the powers of two, which the
  library knows as numbers of subsets.
* *Arithmetic modulo `P` from the integers.* The prover knows only linear facts
  about `%`; sums and products modulo `P` are proved from the uniqueness of the
  remainder. Inverses exist because `P` is prime. `Interpolation` is Lagrange's
  formula at zero for every set of points and every polynomial with no more
  coefficients than points, by induction on the coefficients.

The theorems, by module:

* **DkgSessionProofs.** `SInv` says where everything in the session came from:
  the simulation is that of the fixture, each transcript held is some dealer's in
  what its proof covers (`SentAs`: dealer, polynomial, mask commitments), and what
  was recovered or aggregated came from transcripts held. It is inductive for every
  fixture, number of transcripts and number of changes. `RecoveredShares`,
  `QuorumsReconstruct` and `GroupKey` follow it through `UnmaskedIsShare` (an accepted masked share can
  only be the one the dealer sent, as the commitment equation has one solution),
  the sums over distinct dealers, and `Interpolation`. `Order` needs only the
  types of `SInv`: what decides acceptance and what is added up are the same for
  every order (`ReorderedRecovery`). `LocalDamage` shows that each check of one
  participant reads its own masked share only. Where a property is about the value
  of a share it is stated for fixtures with distinct dealer ids, and where it
  interpolates, for polynomials no longer than the threshold as well. `run` checks
  neither, and TLC finds both needed: a mask is looked up by dealer id
  (`golden-pallas/src/simulation.rs:238-247`), and a threshold of shares does not
  determine a longer polynomial. The run has fixtures of both kinds.
* **ProofedRecoveryProofs.** `IInv` says which checks each transcript has passed
  at each point, that dealers are counted once, in the order of the slice
  (`AddedInOrder`), and what the partial sum is. The step that matters is `Sum`:
  the verified commitment equation `G*z = F(x) + M` gives
  `G*(z - m) = F(x) + (M - G*m)` for the mask `m` that the participant derives.
  `Miss` is the bracket, so `ShareIsCommitted` says without any premise that the
  share is that of the committed polynomials and of the sum of the misses. Its
  second half has a premise of its own, `ProofsAreSound`: each proof the call accepts was made with
  a witness for the inputs it came with, so that `M = G*m`, as both ends of the
  key agreement derive the same `m` (`SharedPointAgrees`, `ProvenMask`). It is a
  premise and no assumption because neither backend guarantees it alone: the
  fixture backend compares a digest that anybody can compute, and the Pallas
  backend proves the mask commitment up to a blinding (`mask_commitment`). The
  prover of the repository, which fixes that blinding to zero, satisfies it.
  `RecoveryAllOrNothing` shows that the checks a transcript passed are together
  `GoodFor`. `Refinement` adds to that what the partial sum is (`RInv`) and
  concludes that every step is a step of `ShareRecovery` or a stutter, share
  included. That all-or-nothing is what `bulletproofs-backend.md:156` asks for;
  the plan promises otherwise, which is the run `valid_contributions`.
* **BackendProofs**, of the cache. `IInv` is inductive for any threads, domains, lengths
  and largest length. `SharedAllocation` alone is not inductive: that the result is
  the cached setup needs `InsertingAbsent` (a thread about to insert still finds
  its key absent), which needs `MutualExclusion`; that allocations of different
  keys differ needs `OwnSetups` (a computed setup is its thread's own until
  inserted). `PanicIsLocal` holds because `Compute`, the only step that panics
  on its own, runs outside the critical sections. `Stability` and `Refinement`
  follow: every step of a thread is a step of the memo or a stutter, with the
  answer at the step that finds or inserts the setup.
* **InnerProductProofs.** `IInv` is about an execution rather than a state: some
  sequence of prover states, each the fold of the one before by the challenge
  recorded for it, explains both machines' transcripts and vectors. One round is
  `RoundCommitment`: the commitment of the folded vectors under the folded
  generators, with the product, is that of the round before plus the two points
  the prover sent, each weighted by its challenge. It is proved at each generator
  separately and for vectors of any even length, from splitting a sum in half.
  `FoldedClaim` and `Verdict` (complete, and sound for a proof that arrives as
  it was made) follow by the length of the sequence. `OneAnswer` also needs
  that the last two generators are independent: the first left generator never
  gets into the right one (`Absent`) and keeps a non-zero coefficient in its own
  (`Pivot`). `ChallengesBind` is about transcripts alone: what a transcript
  records determines what was recorded (`RecordsBind`).
* **ProofSkeletonProofs.** `AcceptedStatesTruth`: whatever was put together, with
  whatever blindings, an accepted proof states the truth, which of the mask
  commitment is that it opens to the mask. Both halves were made under
  commitments to `x` and `y` with the blinding generator; because generators are
  independent a commitment opens to one value (`Binding`), so both halves are
  about one point (`HalvesMeanStatement`), and the mask is the hash of the point
  the dealer's secret leads to. `HonestProofs` is the converse: a prover with a
  witness whose shared point has coordinates gets past its own checks, because
  numbers and points survive being written as bytes and as limbs
  (`NumberOfDigits`, `LimbsOfBytes`), each circuit's setup has room for its
  padded wires (`SetupSupports`), and a commitment does not depend on which of
  the two setups it is made under (`SameCommitments`). `BatchVerdict`: the loop
  invariant is that no member before the position was bad and that a verdict is
  that of the first one.
* **ProofSkeletonProofs**, of the traces. A limb, as a field element or as sixteen
  bits, is read as the same byte or as none (`ByteOfLimb`, `LimbsAsBytes`), so both
  views of a trace check the same bytes: `TraceViews`. What is accepted as the
  encoding of a number has the length and the bytes of `Digits` (`DigitsOfNumber`),
  and a point is read from one encoding only; `TracesCanonical` follows, as changed
  traces remain lists of limbs (`TraceInv`).
* **ProofSkeletonProofs**, of the byte formats. `WrittenIsReadBack` and
  `ReadersAreCanonical`. A reader takes a slice, which is what lies between what
  was read before and what is left, so each step of a reader has two halves: it
  reads back what stands at its offset, and what it read is what stood there.
  Lists of items are the one place where a fold is involved: after `k` items the
  reader holds the next `k` cells. The parts are put together format by format,
  the proof of a mask from two circuit proofs, these from an inner-product proof
  each.
* **BackendProofs**, of the hash. `DigestIsProvers`: the library has compressed
  exactly the full blocks behind it and holds the rest, never empty once there was a
  byte (`LibraryInv`), so it has compressed one block fewer than the circuit counts
  (`CountsBlocks`), and the circuit's words are a prefix of the digest
  (`CircuitInv`).
* **CallersProofs**, of the FROST adapter. `EvenPackages`: every package holds an
  even verification share that belongs to its signing share. `UniformQuorums`:
  negating every share of a quorum negates what it interpolates
  (`NegatedWeighted`), so a quorum whose members all negated or all did not signs
  for the group key up to its sign.
* **CallersProofs**, of a caller of `verify_transcript`. `AggregatedShares`: what is
  held was verified for the participant it names, and what was aggregated came
  from what was held; one masked share opens as in `DkgSessionProofs`.
* **CallersProofs**, of a proof-aware simulation. `CompleteSession`: the invariant
  follows the two loops, counting one proof for each masked share (`BuildInv`), and
  a proof just made is one the verifier accepts, as both ends agree on the public
  inputs. `SessionKey`: what the caller can make of the two fields consists of
  transcripts that were dealt (`Edits` and `Spoilt` lose no check that recovery
  makes), so shares and key both come from the dealers' polynomials, and
  `Interpolation` joins them. It needs that nobody deals a polynomial longer than
  the threshold and that identifiers differ in the field (`OrdinaryDealers`).
* **CircuitProofs.** `ChallengesBind`: a transcript of one machine is a record of
  everything it absorbed, the setup, circuit, claim, wires and coefficients in that
  order, so equal transcripts mean equal statements. The invariant `Arrived` says
  that what was sent and received can be written down as a list of numbers and
  points; `DrawnOpens` and `PolynomialOpens` read the lists back.
  `OneCircuitAnswer`: what `prove` is called with has the types the code gives it
  (`GivenTyped`, through the layout, the witness and the reduction), so the prover's
  own answer satisfies the equation of the values (`MadeEquation`, from
  `ValueEquation`); an answer that is off by one after the same challenges
  contradicts that equation, the one of `p` or the comparison of the claims
  (`AnswersChecked`), since independent generators let a commitment open to one
  value only. `CircuitComplete`: the rows of a satisfied circuit, weighted by the
  powers of a challenge, can be summed by column as well as by row (`RowsByColumn`),
  so the wires balance (`BalancedMade`) and the one coefficient the verifier derives
  rather than receives is that of the prover's product polynomial (`ProductMade`).
  The commitment that the inner-product proof is about is put together again
  generator by generator (`LeftAt`, `RightAt`, `Regrouped`, `CommitmentMade`): the
  claim the prover makes is true (`AlwaysFits`), and what it made checks
  (`MadeChecks`).

Assumed, as named `ASSUME`s that TLC evaluates for every instance:

* the constants have their types (`FieldAssumption`, `HelperAssumption`,
  `CacheAssumption`, `StreamAssumption`, `FixturesAssumption`,
  `RecoveryAssumption`, `AgendaAssumption`, `CodecAssumption`, ...). No
  assumption is left about what a fold, a hash or a derived mask returns; these
  are lemmas now;
* `PrimeAssumption`, that `P` is prime;
* `SessionAssumption`, that a proof-aware simulation is built from a fixture that
  runs;
* `AggregationAssumption`, that a transcript marked `Verified` commits to the masks
  its dealer shares with the participants: `golden-core` takes the status at its
  word;
* `IdsAssumption`, that the FROST identifiers are distinct and non-zero in the
  field, which `frost-core` guarantees of an `Identifier`;
* `CasesAssumption` of `InnerProduct`, that generators of a setup have different
  names, as those of `PallasIpaSetup::deterministic`, the only constructor, have,
  and that the two vectors of a witness have one length that fits a word;
* `CasesAssumption` of `CircuitProof`, that the entries of a circuit's matrices lie
  within its dimensions (`IsMatrix`), that what a case lists are scalars and
  generators, and that a tape holds as many random scalars as the prover draws;
* `CurveAssumption`, that the listed points are the curve, and `ParityAssumption`,
  that negation flips the parity of a point;
* `BytesAssumption`, that scalars and digests fit the bytes they are written in.

Only model-checked:

* liveness under fairness, `EveryCallEnds`, which is out of the prover's reach, as is
  `ENABLED`;
* `circuit`: `ReductionFaithful`, whose converse half says that a false constraint
  makes the weighted sum differ for some pair of challenges. A polynomial of low
  degree has few roots, which is induction over data;
* the layout of `proof_parts`: `LayoutFaithful`, `CircuitSound`;
* the command line: `CreatedIsUsable`, `TornReadsAsPrefix`.

What the models idealise, beyond the field sizes:

* Hashes. A mask or challenge is a function of everything that is hashed and of
  nothing else; challenges are a random oracle. A changed statement or commitment
  draws fresh challenges, one of which may happen to pass in a field of five, so
  `AlteredAnswerRejected` is about answers changed after the same challenges, and
  `ChallengesBindEverything` and `ChallengesBindStatement` say when challenges
  are fresh; how unlikely a lucky one is in the real field is not modelled.
* Generators are independent: nobody knows a relation between them.
* Inside `CircuitProof` the inner-product proof, and inside `ProofSkeleton` the
  circuit proofs, are what the layer below is checked to be.
* What the two circuits of the skeleton say is a relation (`MaskRelation`), not
  the constraints that express it.

## Not modelled

* 255-bit field arithmetic of the circuits: the gadgets for limbs, curve addition
  and range checks in constraints, and the inside of `blake2b_compress`. Their
  state spaces are those of the numbers themselves.
* `hash_to_curve`: a derived generator is the name of what it was derived from;
  the `H1` and `H2` hashes have no other caller.
* Byte encodings of scalars and points other than Vesta coordinates: a cell, of
  which some values are not canonical.
* Helpers that no proof uses (`challenge_scalar`, `commit_mask`,
  `PallasMaskOpeningProof`), and the circuit profile, which counts gates.
* ZIP-312 rerandomisation: one call into an external library.
* Printed JSON, beyond the values in it.
* Zeroisation and constant-time behaviour: no functional state.
* Examples, benchmarks and fuzz targets.

## Plan

Done: the protocol under any delivery (`DkgSession`), proof-aware recovery and
session, the IPA cache, verified aggregation, the FROST adapter, the command
line with its file format, the inner-product argument, the R1CS layout and the
circuit proof, the skeleton, the byte formats, the block loop of the hash, and
the theorems above.

Left, most useful first:

1. The layout lemmas of `R1cs`: that `NewColumn` is a permutation is first-order,
   that row values survive it is a reindexed sum.
2. The half of `ReductionFaithful` that `CircuitProofs` comes close to: rows that
   hold keep the weighted sum equal for every pair of challenges.
3. The gadgets of the mask circuit one at a time over small limbs (addition with
   carry, rotation, bit decomposition), each against the operation it stands for.
