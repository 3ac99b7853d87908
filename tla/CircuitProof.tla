---------------------------- MODULE CircuitProof ----------------------------
(***************************************************************************)
(* The Bulletproofs circuit proof (golden-proofs/src/pallas/circuit.rs):   *)
(* a prover that knows a witness of the circuit and of the Pedersen        *)
(* commitments of a claim, a verifier that knows circuit and claim, and    *)
(* the way between them, on which one thing may be changed.                *)
(*                                                                         *)
(* The inner-product proof inside is what InnerProduct shows of it: it is  *)
(* made for a claim and a witness, and is accepted for that claim, if the  *)
(* claim is true of the witness.                                           *)
(***************************************************************************)
EXTENDS CircuitClaim

CONSTANTS Cases,   \* [setup, r1cs, indices, full, blindings, altered]: the last says
                   \* whether something may be changed on the way
          Tapes    \* what the random number generator may return

\* Columns are numbers, generators have names, and the generator of random numbers
\* does not end.
ASSUME CasesAssumption ==
  /\ \A case \in Cases :
       /\ \A name \in {"a", "b", "c"} : IsMatrix(case.r1cs[name])
       /\ case.indices \in Seq(Nat)
       /\ case.full \in Seq(Scalars) /\ case.blindings \in Seq(Scalars)
       /\ case.setup.ipa.g \in Seq(Bases) /\ case.setup.ipa.h \in Seq(Bases)
       /\ case.setup.value \in Bases /\ case.setup.blinding \in Bases
       /\ \A circuit \in R1csToCircuit(case.r1cs, case.indices), tape \in Tapes :
            Len(tape) >= 2 * circuit.internal + 9
  /\ Tapes \subseteq Seq(Scalars)

VARIABLES given,      \* [setup, circuit, claim, witness]: what prove is called with;
                      \* and whether it may be altered
          prover, sent, received, verifier, oracle

vars == <<given, prover, sent, received, verifier, oracle>>

CircuitDomain == "PallasCircuitTranscript"

Idle == [phase |-> "idle"]
Refused(error) == [phase |-> "refused", error |-> error]

----------------------------------------------------------------------------
(* Transcripts *)

CommitCircuitClaim(transcript, claim) ==
  FoldLeft(LAMBDA t, commitment : Commit(t, "value-commitment", commitment),
           Commit(transcript, "commitments", Len(claim)), claim)

\* A slip of the next definition: the commitment to the blindings is left out.
CircuitOpeningShort(setup, circuit, claim, wires) ==
  Commit(Commit(CommitCircuitClaim(
    Commit(Commit(NewTranscript(CircuitDomain), "setup-digest", CircuitSetupDigest(setup)),
           "circuit-digest", circuit), claim), "M", wires.m), "O", wires.o)

CircuitOpening(setup, circuit, claim, wires) ==
  Commit(Commit(Commit(CommitCircuitClaim(
    Commit(Commit(NewTranscript(CircuitDomain), "setup-digest", CircuitSetupDigest(setup)),
           "circuit-digest", circuit), claim),
    "M", wires.m), "O", wires.o), "M-tilde", wires.mTilde)

CommitCoefficients(transcript, points) ==
  FoldLeft(LAMBDA t, k : Commit(t, <<"T", k>>, points[k]), transcript,
           [k \in DOMAIN points |-> k])

\* The challenges y and z, one after the other; done is the transcript after both.
Challenges(t) ==
  UNION {LET afterY == AfterChallenge(t, "y", y) IN
         {[y |-> y, z |-> z, done |-> AfterChallenge(afterY, "z", z),
           oracle |-> Asked(Asked(oracle, t, "y", y), afterY, "z", z)] :
            z \in Answers(oracle, afterY, "z")} :
         y \in Answers(oracle, t, "y")}

----------------------------------------------------------------------------
(* What both sides compute from the circuit and the challenges *)

Sum2(u, v) == [k \in DOMAIN u \cap DOMAIN v |-> Add(u[k], v[k])]
VecScale(v, s) == [k \in DOMAIN v |-> Mul(v[k], s)]

\* x, x squared, ..., to the sixth
Powers(x) == Tail(PowersFromOne(x, 7))

Reduction(circuit, y, z) ==
  LET reduced == ReducedCircuit(circuit, z)
      n       == PaddedVars(circuit)
      yPowers == PowersFromOne(y, n)
      yInvPowers == PowersFromOne(Invert(y), n)
      \* beyond the wires only the power of y is left
      omegaMinusY == [k \in 1 .. n |->
        Sub(IF k <= circuit.internal THEN reduced.omega[k] ELSE 0, yPowers[k])]
  IN  [reduced |-> reduced,
       yInv    |-> Invert(y),
       yPowers |-> yPowers,
       omegaMinusY |-> omegaMinusY,
       yInvRho |-> Hadamard(yInvPowers, reduced.rho),
       yInvLambda |-> Hadamard(yInvPowers, reduced.lambda),
       yInvOmegaMinusY |-> Hadamard(yInvPowers, omegaMinusY)]

DeltaYZ(r) == InnerProductOf(r.yInvRho, r.reduced.lambda)

P0(setup, r) == Msm(PointsOf(setup.ipa.h), r.yInvOmegaMinusY)

P1(setup, r) ==
  Plus(Msm(PointsOf(setup.ipa.g), r.yInvRho), Msm(PointsOf(setup.ipa.h), r.yInvLambda))

\* The commitment to the vectors of the inner product, put together from the
\* commitments to the wires.
BigP(setup, r, wires, sTilde, x) ==
  LET constant == Plus(Scale(BasePoint(setup.blinding), Negate(sTilde)), P0(setup, r))
      first    == Scale(Plus(P1(setup, r), wires.m), x[1])
  IN  Plus(Plus(Plus(constant, first), Scale(wires.o, x[2])), Scale(wires.mTilde, x[3]))

IpaClaimOf(circuit, r, p, tX) ==
  [commitment |-> p, product |-> tX, y |-> r.yInv, logLen |-> LogLen(PaddedVars(circuit))]

----------------------------------------------------------------------------
(* The prover *)

\* What prove may be called with: the claim of the witness, or one of which one
\* commitment is wrong or that is one short.
Init ==
  /\ \E case \in Cases :
       \E both \in ToCircuitWithWitness(case.r1cs, case.full, case.indices, case.blindings) :
         LET claim == ClaimOf(case.setup, both.witness) IN
         given \in [setup : {case.setup}, circuit : {both.circuit}, witness : {both.witness},
                    altered : {case.altered},
                    claim : {claim}
                              \cup {[claim EXCEPT ![k] = Plus(@, BasePoint(case.setup.value))] :
                                      k \in DOMAIN claim}
                              \cup {Tail(claim) : k \in DOMAIN claim}]
  /\ prover = Idle /\ verifier = Idle
  /\ sent = Idle /\ received = Idle
  /\ oracle = <<>>

Provable ==
  /\ WitnessSatisfied(given.circuit, given.witness)
  /\ given.claim = ClaimOf(given.setup, given.witness)
  /\ Supports(given.setup, PaddedVars(given.circuit))

\* The blindings of the wires and the commitments under them.
WireCommitments(setup, circuit, witness, tape) ==
  LET n == circuit.internal
      g == PointsOf(setup.ipa.g)
      h == PointsOf(setup.ipa.h)
      leftBlinding  == SubSeq(tape, 1, n)
      rightBlinding == SubSeq(tape, n + 1, 2 * n)
      Blinded(point, blinding) == Plus(point, Scale(BasePoint(setup.blinding), blinding))
  IN  [leftBlinding |-> leftBlinding, rightBlinding |-> rightBlinding,
       mBlinding |-> tape[2 * n + 1], outputBlinding |-> tape[2 * n + 2],
       mTildeBlinding |-> tape[2 * n + 3],
       m |-> Blinded(Plus(Msm(g, witness.left), Msm(h, witness.right)), tape[2 * n + 1]),
       o |-> Blinded(Msm(g, witness.output), tape[2 * n + 2]),
       mTilde |-> Blinded(Plus(Msm(g, leftBlinding), Msm(h, rightBlinding)), tape[2 * n + 3])]

ProverStart ==
  /\ prover = Idle
  /\ \/ /\ ~Provable
        /\ prover' = Refused("InvalidWitness")
        /\ UNCHANGED oracle
     \/ /\ Provable
        /\ \E tape \in Tapes :
             LET wires == WireCommitments(given.setup, given.circuit, given.witness, tape)
                 t == CircuitOpening(given.setup, given.circuit, given.claim, wires)
             IN  \E c \in Challenges(t) :
                   /\ oracle' = c.oracle
                   /\ prover' = [phase |-> "reduced", transcript |-> c.done, tape |-> tape,
                                 wires |-> wires,
                                 reduction |-> Reduction(given.circuit, c.y, c.z)]
  /\ UNCHANGED <<given, sent, received, verifier>>

\* The product of the two vectors is a polynomial of degree six in x; the
\* constraints are in its second coefficient.
PolynomialState(witness, r, wires) ==
  LET yR == Hadamard(r.yPowers, witness.right)
      yRTilde == Hadamard(r.yPowers, wires.rightBlinding)
      yRLambda == Sum2(yR, r.reduced.lambda)
      leftRho == Sum2(witness.left, r.yInvRho)
  IN  [yRTilde |-> yRTilde, yRLambda |-> yRLambda, leftRho |-> leftRho,
       t |-> <<InnerProductOf(leftRho, r.omegaMinusY),
               Sub(Sub(DeltaYZ(r), r.reduced.kappa),
                   InnerProductOf(r.reduced.theta, witness.values)),
               Add(InnerProductOf(wires.leftBlinding, r.omegaMinusY),
                   InnerProductOf(witness.output, yRLambda)),
               Add(InnerProductOf(wires.leftBlinding, yRLambda),
                   InnerProductOf(leftRho, yRTilde)),
               InnerProductOf(witness.output, yRTilde),
               InnerProductOf(wires.leftBlinding, yRTilde)>>]

\* A slip of the next definition: the blinding of the second coefficient is drawn
\* like the others.
TTildeUnbound(circuit, witness, r, tape) ==
  SubSeq(tape, 2 * circuit.internal + 4, 2 * circuit.internal + 9)

\* The blindings of the coefficients; that of the second is the one the claim's
\* commitments have.
TTilde(circuit, witness, r, tape) ==
  [SubSeq(tape, 2 * circuit.internal + 4, 2 * circuit.internal + 9) EXCEPT
     ![2] = Negate(InnerProductOf(r.reduced.theta, witness.blinding))]

\* The exponents of x that have a commitment of their own.
TExponents == <<1, 3, 4, 5, 6>>

\* The two vectors at x, filled up to the padded length.
IpaWitnessVectors(circuit, witness, r, wires, polynomial, x) ==
  LET n == PaddedVars(circuit)
  IN  [a |-> Resized(Sum2(Sum2(VecScale(polynomial.leftRho, x[1]),
                               VecScale(witness.output, x[2])),
                          VecScale(wires.leftBlinding, x[3])), n),
       b |-> [k \in 1 .. n |->
                Add(r.omegaMinusY[k],
                    IF k > circuit.internal THEN 0
                    ELSE Add(Mul(polynomial.yRLambda[k], x[1]),
                             Mul(polynomial.yRTilde[k], x[3])))]]

ProverFinish ==
  LET circuit == given.circuit
      wires == prover.wires
      r == prover.reduction
      polynomial == PolynomialState(given.witness, r, wires)
      tTilde == TTilde(circuit, given.witness, r, prover.tape)
      tBig == [k \in DOMAIN TExponents |->
                 CommitValue(given.setup, polynomial.t[TExponents[k]], tTilde[TExponents[k]])]
      t == CommitCoefficients(prover.transcript, tBig)
  IN  /\ prover.phase = "reduced"
      /\ \E answer \in Answers(oracle, t, "x") :
           LET x == Powers(answer)
               sTilde == InnerProductOf(
                           <<wires.mBlinding, wires.outputBlinding, wires.mTildeBlinding>>, x)
               tX == InnerProductOf(polynomial.t, x)
               p == BigP(given.setup, r, wires, sTilde, x)
               vectors == IpaWitnessVectors(circuit, given.witness, r, wires, polynomial, x)
               ipaClaim == IpaClaimOf(circuit, r, p, tX)
           IN  /\ oracle' = Asked(oracle, t, "x", answer)
               /\ \/ /\ {ipaClaim} = NewWithClaim(given.setup.ipa, r.yInv, vectors)
                     /\ prover' = [phase |-> "done",
                                   transcript |-> AfterChallenge(t, "x", answer)]
                     /\ sent' = [phase |-> "sent", setup |-> given.setup,
                                 circuit |-> circuit, claim |-> given.claim,
                                 proof |-> [wires |-> [m |-> wires.m, o |-> wires.o,
                                                       mTilde |-> wires.mTilde],
                                            tBig |-> tBig, sTilde |-> sTilde, tX |-> tX,
                                            tTildeX |-> InnerProductOf(tTilde, x),
                                            p |-> p,
                                            ipa |-> [setup |-> given.setup.ipa,
                                                     claim |-> ipaClaim]]]
                  \/ /\ {ipaClaim} # NewWithClaim(given.setup.ipa, r.yInv, vectors)
                     /\ prover' = Refused("InvalidWitness")
                     /\ UNCHANGED sent
      /\ UNCHANGED <<given, received, verifier>>

----------------------------------------------------------------------------
(* On the way: one thing may be changed. *)

Alterations(s) ==
  {[s EXCEPT !.proof.sTilde = Add(@, 1)], [s EXCEPT !.proof.tX = Add(@, 1)],
   [s EXCEPT !.proof.tTildeX = Add(@, 1)],
   [s EXCEPT !.proof.p = Plus(@, BasePoint(s.setup.value))],
   [s EXCEPT !.proof.ipa.claim.product = Add(@, 1)],
   [s EXCEPT !.proof.wires.m = Plus(@, @)], [s EXCEPT !.proof.wires.o = Plus(@, @)],
   [s EXCEPT !.proof.wires.mTilde = Plus(@, BasePoint(s.setup.blinding))],
   [s EXCEPT !.proof.tBig[5] = Plus(@, BasePoint(s.setup.value))],
   [s EXCEPT !.circuit.weights.weights = <<0, 0>> :> 2 @@ @],
   [s EXCEPT !.setup.value = s.setup.blinding], [s EXCEPT !.setup.blinding = s.setup.value]}
    \cup {[s EXCEPT !.claim[k] = Plus(@, BasePoint(s.setup.value))] : k \in DOMAIN s.claim}
    \cup {[s EXCEPT !.claim = Tail(s.claim)] : k \in DOMAIN s.claim}

Deliver ==
  /\ sent # Idle /\ received = Idle
  /\ received' \in {sent} \cup (IF given.altered THEN Alterations(sent) ELSE {})
  /\ UNCHANGED <<given, prover, sent, verifier, oracle>>

----------------------------------------------------------------------------
(* The verifier *)

Acceptable(setup, circuit, claim) ==
  /\ Len(claim) = circuit.committed
  /\ Supports(setup, PaddedVars(circuit))

VerifierStart ==
  LET t == CircuitOpening(received.setup, received.circuit, received.claim,
                          received.proof.wires)
  IN  /\ received # Idle /\ verifier = Idle
      /\ \/ /\ ~Acceptable(received.setup, received.circuit, received.claim)
            /\ verifier' = Refused("InvalidProof")
            /\ UNCHANGED oracle
         \/ /\ Acceptable(received.setup, received.circuit, received.claim)
            /\ \E c \in Challenges(t) :
                 /\ oracle' = c.oracle
                 /\ verifier' = [phase |-> "reduced", transcript |-> c.done,
                                 reduction |-> Reduction(received.circuit, c.y, c.z)]
      /\ UNCHANGED <<given, prover, sent, received>>

\* The committed second coefficient is not in the proof: the claim and the circuit
\* give it.
TRight(setup, claim, r, tBig, x) ==
  Plus(Plus(Scale(BasePoint(setup.value),
                  Mul(Sub(DeltaYZ(r), r.reduced.kappa), x[2])),
            Msm(claim, VecScale(r.reduced.theta, Negate(x[2])))),
       Msm(tBig, [k \in DOMAIN TExponents |-> x[TExponents[k]]]))

\* A slip of the next definition: p is taken from the proof as it is.
ChecksWithoutP(s, r, x) ==
  /\ CommitValue(s.setup, s.proof.tX, s.proof.tTildeX)
       = TRight(s.setup, s.claim, r, s.proof.tBig, x)
  /\ s.proof.ipa = [setup |-> s.setup.ipa,
                    claim |-> IpaClaimOf(s.circuit, r, s.proof.p, s.proof.tX)]

\* The three equations, of which the inner-product proof's is the last.
Checks(s, r, x) ==
  /\ CommitValue(s.setup, s.proof.tX, s.proof.tTildeX)
       = TRight(s.setup, s.claim, r, s.proof.tBig, x)
  /\ s.proof.p = BigP(s.setup, r, s.proof.wires, s.proof.sTilde, x)
  /\ s.proof.ipa = [setup |-> s.setup.ipa,
                    claim |-> IpaClaimOf(s.circuit, r, s.proof.p, s.proof.tX)]

VerifierFinish ==
  LET t == CommitCoefficients(verifier.transcript, received.proof.tBig) IN
  /\ verifier.phase = "reduced"
  /\ \E answer \in Answers(oracle, t, "x") :
       /\ oracle' = Asked(oracle, t, "x", answer)
       /\ verifier' = [phase |-> IF Checks(received, verifier.reduction, Powers(answer))
                                 THEN "accepted" ELSE "rejected",
                       transcript |-> AfterChallenge(t, "x", answer)]
  /\ UNCHANGED <<given, prover, sent, received>>

Next ==
  \/ ProverStart \/ ProverFinish
  \/ Deliver
  \/ VerifierStart \/ VerifierFinish

Spec == Init /\ [][Next]_vars

----------------------------------------------------------------------------
(* Properties *)

\* Whoever calls prove with a true claim gets a proof, and verify accepts it,
\* whatever the challenges and the random blindings: the second coefficient the
\* verifier derives from the circuit and the claim is the one of the prover's
\* polynomial, and the commitment it puts together opens to the prover's vectors
\* (circuit.rs:354-410, 447-522, 924-1055).  With anything else prove fails.
ProofsComplete ==
  /\ Provable => prover.phase # "refused"
  /\ ~Provable => prover.phase \in {"idle", "refused"}
  /\ (received # Idle /\ received = sent) => verifier.phase \notin {"refused", "rejected"}

\* After the same commitments and challenges verify takes no other scalars, no
\* other p and no other inner-product proof than the prover's
\* (circuit.rs:487-522).
AlteredAnswerRejected ==
  (/\ verifier.phase = "accepted"
   /\ received.setup = sent.setup /\ received.circuit = sent.circuit
   /\ received.claim = sent.claim /\ received.proof.wires = sent.proof.wires
   /\ received.proof.tBig = sent.proof.tBig) => received = sent

\* The challenges depend on all that was decided before them: a verifier whose
\* transcript reads like the prover's has the same setup, circuit, claim and
\* commitments (circuit.rs:341-374, 437-461).  One that was given another
\* statement or other commitments draws challenges of its own.
ChallengesBindStatement ==
  (verifier.phase \in {"reduced", "accepted", "rejected"} /\
     verifier.transcript = SubSeq(prover.transcript, 1, Len(verifier.transcript))) =>
    /\ CircuitSetupDigest(received.setup) = CircuitSetupDigest(sent.setup)
    /\ received.circuit = sent.circuit
    /\ received.claim = sent.claim
    /\ received.proof.wires = sent.proof.wires
    /\ verifier.phase # "reduced" => received.proof.tBig = sent.proof.tBig

\* The weighted sum of the constraints and of the products, as the reduction by y
\* and z has it.
WeightedSum(circuit, witness, y, z) ==
  LET r == ReducedCircuit(circuit, z)
      gates == [k \in 1 .. circuit.internal |->
                  Sub(Mul(witness.left[k], witness.right[k]), witness.output[k])]
  IN  FoldLeft(Add, r.kappa,
        <<InnerProductOf(PowersFromOne(y, circuit.internal), gates),
          InnerProductOf(r.theta, witness.values), InnerProductOf(r.lambda, witness.left),
          InnerProductOf(r.rho, witness.right), InnerProductOf(r.omega, witness.output)>>)

\* The sum vanishes for every y and z exactly when the witness satisfies the
\* circuit, also for a witness no code of the prover builds, with a wire of its
\* own choice: neither a row nor a product can hide behind another
\* (circuit.rs:872-909).
ReductionFaithful ==
  prover = Idle =>
    \A k \in 1 .. given.circuit.internal, left, output \in Scalars :
      LET witness == [given.witness EXCEPT !.left[k] = left, !.output[k] = output] IN
      WitnessSatisfied(given.circuit, witness) <=>
        \A y, z \in Scalars \ {0} : WeightedSum(given.circuit, witness, y, z) = 0

=============================================================================
