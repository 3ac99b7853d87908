--------------------------- MODULE FixtureBackend ---------------------------
(***************************************************************************)
(* What proof-aware recovery (golden-proofs/src/dkg.rs) does with one      *)
(* transcript over the fixture proof backend (fixture.rs): the lookups,    *)
(* the public inputs of a proof, making and verifying it, and all checks   *)
(* that a participant makes of what it is handed.                          *)
(*                                                                         *)
(*   proofed transcript  [transcript, proofs]                              *)
(*   proof entry         [participant, inputs, proof]                      *)
(*   proof               [backend, digest]                                 *)
(***************************************************************************)
EXTENDS Evrf, FiniteSetsExt

CONSTANT Simulation      \* [config, session, participants, dealers]

----------------------------------------------------------------------------
(* Lookups and public inputs *)

FindParticipant(id) ==
  SelectInSeq(Simulation.participants, LAMBDA p : p.id = id)

FindDealer(id) ==
  SelectInSeq(Simulation.dealers, LAMBDA d : d.id = id)

\* The position of the proof for the participant, 0 if there is none.
FindProof(proofed, id) ==
  SelectInSeq(proofed.proofs, LAMBDA entry : entry.participant = id)

ProofPublicInputs(t, dealer, participant, mask) ==
  [session           |-> Simulation.session,
   dealer            |-> t.dealer,
   participant       |-> participant.id,
   dealerPublic      |-> HelperPublic(dealer.secret),
   participantPublic |-> HelperPublic(participant.secret),
   mask              |-> mask,
   poly              |-> t.poly]

MaskTranscript(inputs) ==
  DkgMaskTranscript(inputs.session, inputs.dealer, inputs.participant,
                    inputs.dealerPublic, inputs.participantPublic, inputs.poly)

----------------------------------------------------------------------------
(* The fixture proof backend *)

Backend == "golden-fixture-proof/v0"

\* witness is [secret, shared, mask].
ValidateWitness(inputs, witness) ==
  IF \/ inputs.dealerPublic # HelperPublic(witness.secret)
     \/ witness.shared # DiffieHellman(witness.secret, inputs.participantPublic)
     \/ witness.mask # DeriveMask(witness.shared, MaskTranscript(inputs))
     \/ inputs.mask # GeneratorMul(witness.mask)
  THEN "InvalidWitness" ELSE NoError

\* BLAKE2b over the mask transcript and the mask commitment: equal digests come
\* from equal inputs only.
DigestPublicInputs(inputs) == <<MaskTranscript(inputs), inputs.mask>>

Prove(inputs, witness) ==
  IF ValidateWitness(inputs, witness) # NoError
  THEN Err(ValidateWitness(inputs, witness))
  ELSE Ok([backend |-> Backend, digest |-> DigestPublicInputs(inputs)])

VerifyProof(inputs, proof) ==
  IF proof.backend # Backend THEN "BackendMismatch"
  ELSE IF proof.digest # DigestPublicInputs(inputs) THEN "InvalidProof"
  ELSE NoError

\* Both sides of the Diffie-Hellman exchange derive a mask.
DealerWitness(inputs, dealer, participant) ==
  LET shared == DiffieHellman(dealer.secret, HelperPublic(participant.secret))
  IN  [secret |-> dealer.secret, shared |-> shared,
       mask |-> DeriveMask(shared, MaskTranscript(inputs))]

ProofedMask(inputs, participant) ==
  DeriveMask(DiffieHellman(participant.secret, inputs.dealerPublic),
             MaskTranscript(inputs))

\* The proof for one masked share of a transcript, none when its dealer or its
\* participant is unknown or the proof cannot be made.
ProofEntry(t, masked) ==
  LET dealer  == Simulation.dealers[FindDealer(t.dealer)]
      person  == Simulation.participants[FindParticipant(masked.participant)]
      inputs  == ProofPublicInputs(t, dealer, person, masked.mask)
      proof   == Prove(inputs, DealerWitness(inputs, dealer, person))
  IN  IF \/ FindDealer(t.dealer) = 0 \/ FindParticipant(masked.participant) = 0
         \/ ~proof.ok
      THEN {}
      ELSE {[participant |-> person.id, inputs |-> inputs, proof |-> proof.value]}

----------------------------------------------------------------------------
(* All checks of recover_with_proofs at once, and what it returns.  That   *)
(* its loops come to this is shown in ProofedRecovery.                     *)

\* A transcript the participant with this id can accept: all checks at once.
GoodFor(proofed, id) ==
  LET t == proofed.transcript
      position == FirstShare(t, id)
      proof == FindProof(proofed, id)
      entry == proofed.proofs[proof]
  IN  /\ FindDealer(t.dealer) # 0 /\ FindParticipant(id) # 0
      /\ position # 0 /\ proof # 0
      /\ entry.inputs = ProofPublicInputs(t, Simulation.dealers[FindDealer(t.dealer)],
                          Simulation.participants[FindParticipant(id)],
                          t.shares[position].mask)
      /\ VerifyProof(entry.inputs, entry.proof) = NoError
      /\ IsInjective([k \in DOMAIN t.shares |-> t.shares[k].participant])
      /\ VerifyMaskedShareCommitment(t.shares[position], t.poly)

AcceptableInput(ts, id) ==
  /\ FindParticipant(id) # 0
  /\ \A k \in DOMAIN ts : GoodFor(ts[k], id)
  /\ Len(ts) >= Simulation.config.threshold
  /\ IsInjective([k \in DOMAIN ts |-> ts[k].transcript.dealer])

\* The share that acceptable transcripts give: the sum of the masked shares less
\* the masks the dealers' proofs are about.
ShareOfInput(ts, id) ==
  SumOf([k \in DOMAIN ts |->
    LET t == ts[k].transcript
        dealer == Simulation.dealers[FindDealer(t.dealer)]
        person == Simulation.participants[FindParticipant(id)]
        share == t.shares[FirstShare(t, id)]
    IN  Sub(share.value,
            DealerWitness(ProofPublicInputs(t, dealer, person, share.mask),
                          dealer, person).mask)])

=============================================================================
