--------------------------- MODULE ProofedRecovery ---------------------------
(***************************************************************************)
(* Proof-aware recovery (golden-proofs/src/dkg.rs) over the fixture proof  *)
(* backend: recover_with_proofs as the sequence of loops it is.            *)
(*                                                                         *)
(*   collect    per transcript: find the dealer, the participant, the      *)
(*              masked share and the proof, and compare the proof's public *)
(*              inputs with the ones the transcript implies                *)
(*   batch      per proof: verify it                                       *)
(*   verify     per transcript: mark it verified, check the shares         *)
(*   threshold  enough dealers                                             *)
(*   sum        per transcript: refuse a second one of a dealer, add the   *)
(*              unmasked share                                             *)
(*                                                                         *)
(* The first failure anywhere ends the call with that error.               *)
(***************************************************************************)
EXTENDS FixtureBackend

CONSTANTS Pool,            \* the proofed transcripts there are
          Targets,         \* the participant ids that may be asked for
          MaxTranscripts   \* bound: transcripts handed to one call

----------------------------------------------------------------------------

\* What the types of the code allow.
PublicInputs ==
  [session : Nat, dealer : Nat, participant : Nat, dealerPublic : 0 .. (Q - 1),
   participantPublic : 0 .. (Q - 1), mask : Points, poly : Seq(Points)]

ProofedTranscripts ==
  [transcript : Transcripts,
   proofs : Seq([participant : Nat, inputs : PublicInputs,
                 proof : [backend : STRING, digest : Seq(Nat) \X Points]])]

ASSUME RecoveryAssumption ==
  /\ MaxTranscripts \in Nat
  /\ Targets \subseteq Nat
  /\ Pool \subseteq ProofedTranscripts
  /\ Simulation.config.threshold \in Nat
  /\ Simulation.participants \in Seq([id : Nat, secret : 0 .. (Q - 1)])
  /\ Simulation.dealers \in
       Seq([id : Nat, secret : 0 .. (Q - 1), coefficients : Seq(Scalars)])

VARIABLES input,    \* the proofed transcripts of the call
          target,   \* the participant that recovers
          phase,    \* the loop it is in, or done or failed
          turn,     \* the position in that loop
          seen,     \* seen_dealers
          value,    \* the sum so far
          error,    \* the error of a failed call
          keySum    \* the sum of F_d(target) so far, kept to state the properties

recoveryVars == <<input, target, phase, turn, seen, value, error, keySum>>

Transcript(k) == input[k].transcript
TargetShare(t) == t.shares[FirstShare(t, target)]
Person == Simulation.participants[FindParticipant(target)]
Entry(k) == input[k].proofs[FindProof(input[k], target)]

ExpectedInputs(t) ==
  ProofPublicInputs(t, Simulation.dealers[FindDealer(t.dealer)], Person, TargetShare(t).mask)

----------------------------------------------------------------------------

RecoveryInit ==
  /\ \E n \in 0 .. MaxTranscripts : input \in [1 .. n -> Pool]
  /\ target \in Targets
  /\ phase = "collect"
  /\ turn = 1
  /\ seen = <<>>
  /\ value = 0
  /\ error = NoError
  /\ keySum = Identity

Fail(e) ==
  /\ phase' = "failed"
  /\ error' = e
  /\ UNCHANGED <<input, target, turn, seen, value, keySum>>

Advance ==
  /\ turn' = turn + 1
  /\ UNCHANGED <<input, target, phase, seen, value, error, keySum>>

\* The loop of phase from is over.
Enter(from, to) ==
  /\ phase = from
  /\ turn = Len(input) + 1
  /\ phase' = to
  /\ turn' = 1
  /\ UNCHANGED <<input, target, seen, value, error, keySum>>

\* The first check of the collecting loop that transcript k fails.
CollectError(k) ==
  LET t == Transcript(k) IN
  IF FindDealer(t.dealer) = 0 THEN "UnknownDealer"
  ELSE IF FindParticipant(target) = 0 THEN "UnknownParticipant"
  ELSE IF FirstShare(t, target) = 0 THEN "MissingShare"
  ELSE IF FindProof(input[k], target) = 0 THEN "MissingProof"
  ELSE IF Entry(k).inputs # ExpectedInputs(t) THEN "PublicInputsMismatch"
  ELSE NoError

Collect ==
  /\ phase = "collect"
  /\ turn <= Len(input)
  /\ IF CollectError(turn) # NoError THEN Fail(CollectError(turn)) ELSE Advance

\* A slip of the next definition: a failing proof is passed over.
VerifyBatchLenient ==
  /\ phase = "batch"
  /\ turn <= Len(input)
  /\ Advance

VerifyBatch ==
  /\ phase = "batch"
  /\ turn <= Len(input)
  /\ IF VerifyProof(Entry(turn).inputs, Entry(turn).proof) # NoError
     THEN Fail("BatchProof") ELSE Advance

VerifiedCandidate(k) == [Transcript(k) EXCEPT !.status = "Verified"]

VerifyTranscripts ==
  /\ phase = "verify"
  /\ turn <= Len(input)
  /\ LET verdict == ValidateTranscript(VerifiedCandidate(turn), target)
     IN  IF verdict # NoError THEN Fail(verdict) ELSE Advance

\* A slip of the next definition: the dealers are counted one short.
ThresholdOffByOne ==
  /\ phase = "threshold"
  /\ IF FindParticipant(target) = 0 THEN Fail("UnknownParticipant")
     ELSE IF Len(input) + 1 < Simulation.config.threshold
     THEN Fail("InsufficientDealers")
     ELSE /\ phase' = "sum"
          /\ turn' = 1
          /\ UNCHANGED <<input, target, seen, value, error, keySum>>

Threshold ==
  /\ phase = "threshold"
  /\ IF FindParticipant(target) = 0 THEN Fail("UnknownParticipant")
     ELSE IF Len(input) < Simulation.config.threshold
     THEN Fail("InsufficientDealers")
     ELSE /\ phase' = "sum"
          /\ turn' = 1
          /\ UNCHANGED <<input, target, seen, value, error, keySum>>

\* A slip of the next definition: a second transcript of a dealer is added too.
SumCountingTwice ==
  /\ phase = "sum"
  /\ turn <= Len(input)
  /\ LET t == Transcript(turn) IN
     /\ seen' = Append(seen, t.dealer)
     /\ value' = Add(value, RecoverShare(TargetShare(t).value,
                                         ProofedMask(ExpectedInputs(t), Person)))
     /\ keySum' = PointAdd(keySum, EvaluatePublicPolynomial(t.poly, target))
     /\ turn' = turn + 1
     /\ UNCHANGED <<input, target, phase, error>>

Sum ==
  /\ phase = "sum"
  /\ turn <= Len(input)
  /\ LET t == Transcript(turn) IN
     IF t.dealer \in ToSet(seen) THEN Fail("DuplicateDealer")
     ELSE /\ seen' = Append(seen, t.dealer)
          /\ value' = Add(value, RecoverShare(TargetShare(t).value,
                                              ProofedMask(ExpectedInputs(t), Person)))
          /\ keySum' = PointAdd(keySum, EvaluatePublicPolynomial(t.poly, target))
          /\ turn' = turn + 1
          /\ UNCHANGED <<input, target, phase, error>>

RecoveryNext ==
  \/ Collect
  \/ Enter("collect", "batch")
  \/ VerifyBatch
  \/ Enter("batch", "verify")
  \/ VerifyTranscripts
  \/ Enter("verify", "threshold")
  \/ Threshold
  \/ Sum
  \/ Enter("sum", "done")

RecoverySpec == RecoveryInit /\ [][RecoveryNext]_recoveryVars

----------------------------------------------------------------------------
(* Properties *)

Phases == {"collect", "batch", "verify", "threshold", "sum", "done", "failed"}

\* The loop positions stay within the input and the running sums within the
\* field and the group, and no dealer has been added twice.
TypeOK ==
  /\ input \in Seq(Pool)
  /\ target \in Targets
  /\ phase \in Phases
  /\ turn \in 1 .. (Len(input) + 1)
  /\ seen \in Seq(Nat) /\ IsInjective(seen)
  /\ value \in Scalars
  /\ keySum \in Points

\* How far the mask commitment of transcript k is from the mask that the
\* participant derives.
Miss(k) ==
  LET t == Transcript(k) IN
  PointAdd(TargetShare(t).mask, Negate(GeneratorMul(ProofedMask(ExpectedInputs(t), Person))))

\* The proofs for this participant that verify are those of dealers that knew a
\* witness.  The proof system would have to see to it: the fixture digest does
\* not, and the Pallas backend lets a mask commitment have a blinding.
ProofsAreSound ==
  \A k \in DOMAIN input :
    LET entry == Entry(k) IN
    (FindProof(input[k], target) # 0 /\ VerifyProof(entry.inputs, entry.proof) = NoError) =>
      \E secret \in 0 .. (Q - 1) :
        LET shared == DiffieHellman(secret, entry.inputs.participantPublic) IN
        ValidateWitness(entry.inputs,
          [secret |-> secret, shared |-> shared,
           mask |-> DeriveMask(shared, MaskTranscript(entry.inputs))]) = NoError

\* At every step of the last loop, and in the share returned, the sum of the
\* unmasked shares is the discrete logarithm of the sum of the dealers' committed
\* polynomials at the participant's identifier and of what the mask commitments
\* added so far miss, whatever was proved; and of the polynomials alone if the
\* proofs of the call are sound: a masked share off the polynomial, a proof of
\* another session, dealer or participant never gets into it
\* (recover_with_proofs, dkg.rs:141-164).
RecoveredShareIsCommitted ==
  /\ GeneratorMul(value) = PointAdd(keySum, SumOf([k \in DOMAIN seen |-> Miss(k)]))
  /\ ProofsAreSound => GeneratorMul(value) = keySum

\* A set of transcripts is refused only if those of them that the participant can
\* accept are too few, or two of one dealer (docs/implementation-testing-plan.md:
\* 217, 232-233).  Does not hold: one that cannot be accepted ends the call
\* (verify_proofed_transcripts, dkg.rs:225-291).
ValidContributionsSuffice ==
  LET valid == SelectSeq(input, LAMBDA proofed : GoodFor(proofed, target)) IN
  phase = "failed" =>
    \/ Len(valid) < Simulation.config.threshold
    \/ ~IsInjective([k \in DOMAIN valid |-> valid[k].transcript.dealer])

\* What the proof of it rests on: a transcript has passed the check of a loop when
\* the loop is past it or over.
After(loop) ==
  CASE loop = "collect" -> {"batch", "verify", "threshold", "sum", "done"}
    [] loop = "batch"   -> {"verify", "threshold", "sum", "done"}
    [] loop = "verify"  -> {"threshold", "sum", "done"}

Passed(loop, k) == (phase = loop /\ k < turn) \/ phase \in After(loop)

ChecksPassed ==
  \A k \in DOMAIN input :
    /\ Passed("collect", k) => CollectError(k) = NoError
    /\ Passed("batch", k) => VerifyProof(Entry(k).inputs, Entry(k).proof) = NoError
    /\ Passed("verify", k) => ValidateTranscript(VerifiedCandidate(k), target) = NoError

\* The last loop adds one transcript after the other.
AddedInOrder ==
  /\ phase \in {"collect", "batch", "verify", "threshold"} => seen = <<>>
  /\ phase = "sum" => Len(seen) = turn - 1

\* The inductive invariant.
IInv == TypeOK /\ RecoveredShareIsCommitted /\ ChecksPassed /\ AddedInOrder

Recovery == INSTANCE ShareRecovery WITH
  Acceptable  <- AcceptableInput,
  ShareOf     <- ShareOfInput,
  transcripts <- input,
  participant <- target,
  outcome     <- IF phase = "done" THEN [state |-> "share", value |-> value]
                 ELSE IF phase = "failed" THEN [state |-> "refused"]
                 ELSE [state |-> "pending"]

\* Recovery is all or nothing, as every invalid member is to fail the whole batch
\* (docs/bulletproofs-backend.md:156), and succeeds on every acceptable input: no
\* order of the checks, no partial sum and no early return shows in the answer.
ImplementsShareRecovery == Recovery!Spec

=============================================================================
