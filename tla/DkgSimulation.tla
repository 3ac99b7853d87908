---------------------------- MODULE DkgSimulation ----------------------------
(***************************************************************************)
(* The sequential half of golden-pallas/src/simulation.rs: running a       *)
(* fixture and reading its result.  Every function is an operator over     *)
(* values.                                                                 *)
(*                                                                         *)
(*   fixture     [threshold, session, participants, dealers]               *)
(*   simulation  [config, session, participants, dealers, transcripts]     *)
(***************************************************************************)
EXTENDS Evrf

\* What a fixture holds.  The code checks none of it before it runs the fixture.
FixtureRecords ==
  [threshold    : Nat,
   session      : Nat,
   participants : Seq([id : Nat, secret : 0 .. (Q - 1)]),
   dealers      : Seq([id : Nat, secret : 0 .. (Q - 1), coefficients : Seq(Scalars)])]

ParticipantIds(f) == [k \in DOMAIN f.participants |-> f.participants[k].id]

----------------------------------------------------------------------------
(* DkgFixture *)

FindById(records, id) == SelectInSeq(records, LAMBDA r : r.id = id)

\* A slip of the next definition: the mask is not bound to the session.
DealerMaskWithoutSession(f, dealer, participant) ==
  DeriveMask(DiffieHellman(dealer.secret, HelperPublic(participant.secret)),
             DkgMaskTranscript(0, dealer.id, participant.id,
                               HelperPublic(dealer.secret),
                               HelperPublic(participant.secret),
                               CommitPolynomial(dealer.coefficients)))

DealerMask(f, dealer, participant) ==
  DeriveMask(DiffieHellman(dealer.secret, HelperPublic(participant.secret)),
             DkgMaskTranscript(f.session, dealer.id, participant.id,
                               HelperPublic(dealer.secret),
                               HelperPublic(participant.secret),
                               CommitPolynomial(dealer.coefficients)))

\* The transcript of one dealer, its proof counted as accepted.
BuildDealerTranscript(f, dealer) ==
  LET masks == [id \in ToSet(ParticipantIds(f)) |->
                  DealerMask(f, dealer, f.participants[FindById(f.participants, id)])]
      built == BuildTranscript(dealer.id, dealer.coefficients,
                               ParticipantIds(f), masks)
  IN  [built.value EXCEPT !.status = "Verified"]

RunFixture(f) ==
  LET config == NewConfig(f.threshold, ParticipantIds(f))
  IN  IF ~config.ok THEN config
      ELSE Ok([config       |-> config.value,
               session      |-> f.session,
               participants |-> f.participants,
               dealers      |-> f.dealers,
               transcripts  |-> [k \in DOMAIN f.dealers |->
                                   BuildDealerTranscript(f, f.dealers[k])]])

----------------------------------------------------------------------------
(* DkgSimulation *)

\* The first transcript that fails verification for the participant decides.
VerifyForParticipant(ts, participant) ==
  LET firstBad == SelectInSeq(ts, LAMBDA t :
                                ValidateTranscript(t, participant) # NoError)
  IN  IF firstBad = 0 THEN Ok(ts)
      ELSE Err(<<ts[firstBad].dealer,
                 ValidateTranscript(ts[firstBad], participant)>>)

ParticipantMask(s, dealer, participant, poly) ==
  DeriveMask(DiffieHellman(participant.secret, HelperPublic(dealer.secret)),
             DkgMaskTranscript(s.session, dealer.id, participant.id,
                               HelperPublic(dealer.secret),
                               HelperPublic(participant.secret), poly))

\* The share of one participant from the transcripts in the order given.
RecoverFromTranscripts(s, id, ts) ==
  LET position == FindById(s.participants, id)
      verified == VerifyForParticipant(ts, id)
      Dealer(dealerId) == s.dealers[FindById(s.dealers, dealerId)]
      Mask(k) == ParticipantMask(s, Dealer(ts[k].dealer),
                                 s.participants[position], ts[k].poly)
  IN  IF position = 0 THEN Err("UnknownParticipant")
      ELSE IF ~verified.ok THEN verified
      ELSE IF \E k \in DOMAIN ts : FindById(s.dealers, ts[k].dealer) = 0
      THEN Err("UnknownDealer")
      ELSE IF ValidateDealers(s.config, ts) # NoError
      THEN Err(ValidateDealers(s.config, ts))
      ELSE Ok([participant |-> id,
               value       |-> SumOf([k \in DOMAIN ts |->
                                 RecoverShare(ts[k].shares[FirstShare(ts[k], id)].value,
                                              Mask(k))]),
               dealerCount |-> Len(ts)])

\* The public key of all dealers; the transcripts are verified for the first
\* participant only.
SimulationPublicKey(s) ==
  LET verified == VerifyForParticipant(s.transcripts, s.participants[1].id)
  IN  IF ~verified.ok THEN verified
      ELSE AggregatePublicKey(s.config, s.transcripts)

\* The sum of the dealers' constant terms; the code's None where a polynomial
\* has no coefficient.
AggregateSecret(s) ==
  IF \E k \in DOMAIN s.dealers : s.dealers[k].coefficients = <<>>
  THEN Err("None")
  ELSE Ok(SumOf([k \in DOMAIN s.dealers |-> Head(s.dealers[k].coefficients)]))

=============================================================================
