---------------------------- MODULE MCDkgSession ----------------------------
(***************************************************************************)
(* DkgSession and ProofedRecovery in one run, over the field of seven      *)
(* elements.  A behaviour is about one of them, named by part; the other   *)
(* stays in an initial state.                                              *)
(***************************************************************************)
EXTENDS DkgSession, ProofedRecovery

P3 == <<[id |-> 1, secret |-> 2], [id |-> 2, secret |-> 5], [id |-> 4, secret |-> 3]>>
P2 == SubSeq(P3, 1, 2)

Dealer(id, secret, coefficients) ==
  [id |-> id, secret |-> secret, coefficients |-> coefficients]

Fixture(threshold, participants, dealers) ==
  [threshold |-> threshold, session |-> 9,
   participants |-> participants, dealers |-> dealers]

\* Two dealers of degree one for three participants: the ordinary session.
TwoOfThree == Fixture(2, P3, <<Dealer(10, 4, <<3, 5>>), Dealer(11, 6, <<6, 2>>)>>)

\* More dealers than the threshold asks for, so that some may stay unheard.
ThreeDealers == Fixture(2, P2, <<Dealer(10, 4, <<3, 5>>), Dealer(11, 6, <<6, 2>>),
                                 Dealer(2, 1, <<0, 1>>)>>)

\* One dealer id twice, and a dealer whose leading coefficient is zero.
DuplicateDealer == Fixture(2, P2, <<Dealer(10, 4, <<3, 0>>), Dealer(10, 6, <<6, 2>>)>>)

\* The same with a threshold one of them meets, and polynomials too long for the
\* threshold.
LoneDuplicate == [DuplicateDealer EXCEPT !.threshold = 1]
LongPolynomials == Fixture(2, P2, <<Dealer(10, 4, <<3, 5, 1>>), Dealer(11, 6, <<6, 2>>)>>)

\* Fixtures that ProtocolConfig::new refuses.
Refused == {Fixture(0, P2, <<>>), Fixture(3, P2, <<>>), Fixture(1, <<>>, <<>>),
            Fixture(1, <<P3[1], P3[1]>>, <<>>)}

MCFixtures ==
  {TwoOfThree, ThreeDealers, DuplicateDealer, LoneDuplicate, LongPolynomials} \cup Refused
MCMaxInbox == [f \in MCFixtures |-> IF f = ThreeDealers THEN 3 ELSE 2]

----------------------------------------------------------------------------
(* Proof-aware recovery *)

Dealers == TwoOfThree.dealers

MCSimulation ==
  [config |-> [threshold |-> 2, participants |-> <<1, 2, 4>>], session |-> 9,
   participants |-> P3, dealers |-> Dealers]

\* The transcript of a dealer of some session with its proofs.
Deal(session, dealer) ==
  LET poly == CommitPolynomial(dealer.coefficients)
      Inputs(p, mask) ==
        [session |-> session, dealer |-> dealer.id, participant |-> p.id,
         dealerPublic |-> HelperPublic(dealer.secret),
         participantPublic |-> HelperPublic(p.secret), mask |-> mask, poly |-> poly]
      Witness(p) == DealerWitness(Inputs(p, Identity), dealer, p)
      masks == [id \in {1, 2, 4} |->
                  Witness(CHOOSE p \in ToSet(P3) : p.id = id).mask]
      t == BuildTranscript(dealer.id, dealer.coefficients, <<1, 2, 4>>, masks).value
  IN  [transcript |-> t,
       proofs |-> [k \in 1 .. 3 |->
         LET inputs == Inputs(P3[k], t.shares[k].mask) IN
         [participant |-> P3[k].id, inputs |-> inputs,
          proof |-> Prove(inputs, Witness(P3[k])).value]]]

\* The transcripts of two honest dealers, and what may go wrong with one of them
\* for some of the participants; blinded commits to another mask and is consistent
\* in everything else, the digest of its proof included.
ProofedTranscriptPool ==
  LET honest1      == Deal(9, Dealers[1])
      honest2      == Deal(9, Dealers[2])
      wrongValue   == [honest2 EXCEPT !.transcript.shares[1].value = Add(@, 1)]
      wrongProof   == [honest2 EXCEPT !.proofs[1].proof = honest1.proofs[1].proof]
      wrongMask    == [honest2 EXCEPT !.transcript.shares[1].mask = PointAdd(@, 1),
                                      !.transcript.shares[1].value = Add(@, 5),
                                      !.proofs[1].inputs.mask = PointAdd(@, 1)]
      blinded      == [wrongMask EXCEPT !.proofs[1].proof.digest =
                         DigestPublicInputs(wrongMask.proofs[1].inputs)]
      wrongInputs  == [honest2 EXCEPT !.proofs[2].inputs.session = 8]
      otherProof   == [honest2 EXCEPT !.proofs[1].proof.backend = "other"]
      noProof      == [honest2 EXCEPT !.proofs = Tail(@)]
      noShare      == [honest1 EXCEPT !.transcript.shares = Tail(@)]
      twoShares    == [honest1 EXCEPT !.transcript.shares = Append(@, @[3])]
      otherSession == Deal(8, Dealers[2])
      stranger     == [honest1 EXCEPT !.transcript.dealer = 99]
  IN  {honest1, honest2, wrongValue, wrongProof, wrongMask, blinded, wrongInputs,
       otherProof, noProof, noShare, twoShares, otherSession, stranger}
\* A definition of its own, as TLC evaluates what stands for a constant at each use.
MCPool == ProofedTranscriptPool
MCTargets == {1, 2, 7}

\* Proving the simulation's own transcripts yields the honest ones.
ASSUME LET honest == Deal(9, Dealers[1]) IN
  \A k \in 1 .. 3 :
    ProofEntry(honest.transcript, honest.transcript.shares[k]) = {honest.proofs[k]}

----------------------------------------------------------------------------

VARIABLE part

MCInit ==
  /\ Init /\ RecoveryInit
  /\ \/ part = "session" /\ input = <<>> /\ target = 1
     \/ part = "recovery" /\ fixture = TwoOfThree

MCNext ==
  \/ part = "session" /\ Next /\ UNCHANGED <<recoveryVars, part>>
  \/ part = "recovery" /\ RecoveryNext /\ UNCHANGED <<vars, part>>

MCSpec == MCInit /\ [][MCNext]_<<vars, recoveryVars, part>>

=============================================================================
