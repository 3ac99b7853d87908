--------------------------- MODULE MCProofSkeleton ---------------------------
(***************************************************************************)
(* ProofSkeleton and MaskTraces in one run, over the Vesta of seven points *)
(* and bytes of five values.  A behaviour is about one of them, named by   *)
(* part; the other stays in an initial state.                              *)
(***************************************************************************)
EXTENDS ProofSkeleton, MaskTraces, TLC

VARIABLE part

MCBases == {PallasGenerator, DeriveCircuitGenerator(CircuitDomain, "circuit-blinding")}
MCAffine == << <<3, 2>>, <<5, 2>>, <<6, 5>>, <<6, 2>>, <<5, 5>>, <<3, 5>> >>

Inputs(session, secret, participantPublic, mask) ==
  [session |-> session, dealer |-> 10, participant |-> 1,
   dealerPublic |-> HelperPublic(secret), participantPublic |-> participantPublic,
   poly |-> <<3>>, maskCommitment |-> MaskPoint(mask)]

MCWitness(inputs, secret) ==
  LET shared == DiffieHellman(secret, inputs.participantPublic) IN
  [secret |-> secret, shared |-> shared,
   mask |-> HashToScalar(EncodePoint(shared) \o TranscriptOf(inputs))]

True(session, secret, participantPublic) ==
  LET open == Inputs(session, secret, participantPublic, 0) IN
  Inputs(session, secret, participantPublic, MCWitness(open, secret).mask)

\* The same mask committed to with a blinding, or another mask with the same.
Blinded(inputs, mask) ==
  [inputs EXCEPT !.maskCommitment = CommitValue(SetupFor(MaskCircuit(inputs)), mask, 3)]

\* One proof.  A true statement, the same with every other mask committed to, with
\* and without a blinding, one of another session, one of another participant, and
\* one whose shared point is the identity.
OneProof ==
  [longest   |-> 1,
   cases     |-> {Inputs(9, 2, 3, mask) : mask \in Scalars}
                   \cup {Blinded(True(9, 2, 3), mask) : mask \in Scalars}
                   \cup {True(8, 2, 3), True(9, 2, 5), True(9, 2, 0)},
   sources   |-> {True(9, 2, 3), True(8, 2, 3), True(9, 2, 5)},
   witnesses |-> {MCWitness(True(9, 2, 3), 2), MCWitness(True(9, 2, 0), 2),
                  MCWitness(True(9, 2, 3), 4)},
   blindings |-> {<<1, 4>>, <<0, 2>>},
   maskBlindings |-> {0, 3}]

\* Batches: fewer statements, half proofs about one of them.
Batches ==
  [longest   |-> 3,
   cases     |-> {True(9, 2, 3), True(8, 2, 3)},
   sources   |-> {True(9, 2, 3)},
   witnesses |-> {MCWitness(True(9, 2, 3), 2)},
   blindings |-> {<<1, 4>>},
   maskBlindings |-> {0}]

MCAgendas == {OneProof, Batches}

----------------------------------------------------------------------------
(* Traces *)

TraceCase(session, secret, participantPublic) ==
  LET inputs == [True(session, secret, participantPublic) EXCEPT !.poly = <<3, 5>>]
      witness == MCWitness(inputs, secret)
  IN  [inputs  |-> [inputs EXCEPT !.maskCommitment = MaskPoint(witness.mask)],
       witness |-> witness]

\* Every secret, the zero one and its identity shared point among them, and a
\* witness that is not the dealer's.
MCTraceCases ==
  {TraceCase(9, secret, 3) : secret \in 0 .. 6}
    \cup {[TraceCase(9, 2, 3) EXCEPT !.witness.secret = 3, !.witness.shared = 2]}

----------------------------------------------------------------------------

MCInit ==
  /\ Init /\ TraceInit
  /\ \/ part = "skeleton" /\ traceCase = TraceCase(9, 0, 3)
     \/ part = "trace" /\ agenda = Batches

MCNext ==
  \/ part = "skeleton" /\ Next /\ UNCHANGED <<traceVars, part>>
  \/ part = "trace" /\ TraceNext /\ UNCHANGED <<vars, part>>

MCSpec == MCInit /\ [][MCNext]_<<vars, traceVars, part>>

=============================================================================
