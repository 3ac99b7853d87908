---------------------------- MODULE InnerProduct ----------------------------
(***************************************************************************)
(* The inner-product argument (golden-proofs/src/pallas/ipa.rs): a prover  *)
(* and a verifier that each keep a transcript and fold vectors and         *)
(* generators in half once per round, and the way from one to the other,   *)
(* on which one thing may be changed.                                      *)
(***************************************************************************)
EXTENDS IpaClaim

CONSTANTS Cases,    \* what a prover may start from: [setup, witness, y]
          Setups    \* the setups there are

\* A setup's generators are derived from different names.
ProperSetup(setup) ==
  /\ setup \in [g : Seq(Bases), h : Seq(Bases), q : Bases]
  /\ IsInjective(setup.g \o setup.h) /\ setup.q \notin ToSet(setup.g \o setup.h)

\* A witness is a list of pairs, unzipped, whose length fits a word.
ASSUME CasesAssumption ==
  /\ \A setup \in Setups : ProperSetup(setup)
  /\ Cases \subseteq [setup : Setups, witness : [a : Seq(Scalars), b : Seq(Scalars)],
                      y : Scalars]
  /\ \A case \in Cases : /\ Len(case.witness.b) = Len(case.witness.a)
                         /\ Len(case.witness.a) < 2 ^ WordBits

VARIABLES given,     \* [setup, claim, witness]: what prove is called with
          prover,    \* the prover's local variables
          sent,      \* [setup, claim, proof] as the prover made it
          received,  \* the same as the verifier got it
          verifier,  \* the verifier's local variables
          oracle,    \* the challenges given so far
          trail      \* the prover's vectors before each round, to state properties

vars == <<given, prover, sent, received, verifier, oracle, trail>>

IpaDomain == "PallasIpaTranscript"

Idle == [phase |-> "idle"]
Refused(error) == [phase |-> "refused", error |-> error]

CommitSetup(transcript, setup, n) ==
  Commit(Commit(transcript, "len", n), "setup-digest", SetupDigest(setup))

\* A slip of the next definition: the weight y is not committed.
CommitClaimWithoutY(transcript, claim) ==
  Commit(Commit(Commit(transcript, "commitment", claim.commitment),
                "product", claim.product), "log-len", claim.logLen)

CommitClaim(transcript, claim) ==
  Commit(Commit(Commit(Commit(transcript, "commitment", claim.commitment),
                       "product", claim.product), "y", claim.y),
         "log-len", claim.logLen)

CommitRound(transcript, point) ==
  Commit(Commit(transcript, "L", point.l), "R", point.r)

\* What both sides commit before the first challenge.
Opening(setup, claim, n) ==
  CommitClaim(CommitSetup(NewTranscript(IpaDomain), setup, n), claim)

----------------------------------------------------------------------------
(* The prover *)

\* A claim for the witness, or one that is wrong in one field.
Misstated(claim) ==
  {[claim EXCEPT !.commitment = Plus(@, BasePoint(base))] : base \in Bases}
    \cup {[claim EXCEPT !.product = Add(@, 1)], [claim EXCEPT !.y = Add(@, 1)]}
    \cup {[claim EXCEPT !.logLen = n] : n \in 0 .. WordBits}

Init ==
  /\ \E case \in Cases : \E claim \in NewWithClaim(case.setup, case.y, case.witness) :
       given \in [setup : {case.setup}, witness : {case.witness},
                  claim : {claim} \cup Misstated(claim)]
  /\ prover = Idle /\ verifier = Idle
  /\ sent = Idle /\ received = Idle
  /\ oracle = <<>>
  /\ trail = <<>>

\* The error prove returns before it starts, if any.
ProveError(setup, claim, witness) ==
  IF ClaimLen(claim) = {} THEN "InvalidProof"
  ELSE IF \E n \in ClaimLen(claim) :
            ~SupportsLen(setup, n) \/ Len(witness.a) # n \/ Len(witness.b) # n
  THEN "InvalidWitness"
  ELSE IF claim.product # InnerProductOf(witness.a, witness.b) THEN "InvalidWitness"
  ELSE "none"

ProverStart ==
  LET setup == given.setup
      claim == given.claim
      error == ProveError(setup, claim, given.witness)
      n     == Len(given.witness.a)
      t     == Opening(setup, claim, n)
  IN  /\ prover = Idle
      /\ \/ /\ error # "none"
            /\ prover' = Refused(error)
            /\ UNCHANGED oracle
         \/ /\ error = "none"
            /\ \E c \in Answers(oracle, t, "product-binding") :
                 /\ oracle' = Asked(oracle, t, "product-binding", c)
                 /\ prover' = [phase      |-> "rounds",
                               transcript |-> AfterChallenge(t, "product-binding", c),
                               q          |-> Scale(BasePoint(setup.q), c),
                               a          |-> given.witness.a,
                               b          |-> given.witness.b,
                               g          |-> LeftGenerators(setup, n),
                               h          |-> WeightedHGenerators(setup, n, claim.y),
                               points     |-> <<>>]
      /\ UNCHANGED <<given, sent, received, verifier, trail>>

\* A slip of the next definition: each half of the left vector is paired with its
\* own half of the generators.
RoundPointsCrossed ==
  [l |-> Plus(Plus(Msm(Lower(prover.g), Lower(prover.a)), Msm(Lower(prover.h), Upper(prover.b))),
              Scale(prover.q, InnerProductOf(Lower(prover.a), Upper(prover.b)))),
   r |-> Plus(Plus(Msm(Upper(prover.g), Upper(prover.a)), Msm(Upper(prover.h), Lower(prover.b))),
              Scale(prover.q, InnerProductOf(Upper(prover.a), Lower(prover.b))))]

RoundPoints ==
  [l |-> Plus(Plus(Msm(Upper(prover.g), Lower(prover.a)), Msm(Lower(prover.h), Upper(prover.b))),
              Scale(prover.q, InnerProductOf(Lower(prover.a), Upper(prover.b)))),
   r |-> Plus(Plus(Msm(Lower(prover.g), Upper(prover.a)), Msm(Upper(prover.h), Lower(prover.b))),
              Scale(prover.q, InnerProductOf(Upper(prover.a), Lower(prover.b))))]

ProverRound ==
  LET point == RoundPoints
      t     == CommitRound(prover.transcript, point)
  IN  /\ prover.phase = "rounds"
      /\ Len(prover.a) > 1
      /\ \E x \in Answers(oracle, t, "round") :
           LET xInv == Invert(x) IN
           /\ oracle' = Asked(oracle, t, "round", x)
           /\ prover' = [prover EXCEPT
                           !.transcript = AfterChallenge(t, "round", x),
                           !.a = FoldScalars(@, x, xInv),
                           !.b = FoldScalars(@, xInv, x),
                           !.g = FoldPoints(@, xInv, x),
                           !.h = FoldPoints(@, x, xInv),
                           !.points = Append(@, point)]
      /\ trail' = Append(trail, [a |-> prover.a, b |-> prover.b])
      /\ UNCHANGED <<given, sent, received, verifier>>

ProverFinish ==
  /\ prover.phase = "rounds"
  /\ Len(prover.a) = 1
  /\ prover' = [prover EXCEPT !.phase = "done"]
  /\ sent' = [phase |-> "sent", setup |-> given.setup, claim |-> given.claim,
              proof |-> [points |-> prover.points, a |-> prover.a[1], b |-> prover.b[1]]]
  /\ trail' = Append(trail, [a |-> prover.a, b |-> prover.b])
  /\ UNCHANGED <<given, received, verifier, oracle>>

----------------------------------------------------------------------------
(* On the way: one thing may be changed, if nothing was wrong so far. *)

TrueClaim == given.claim \in NewWithClaim(given.setup, given.claim.y, given.witness)

AlteredProofs(proof) ==
  {[proof EXCEPT !.a = Add(@, 1)], [proof EXCEPT !.b = Add(@, 1)],
   [proof EXCEPT !.points = Append(@, [l |-> NoPoint, r |-> NoPoint])]}
    \cup {[proof EXCEPT !.points = SubSeq(@, 1, Len(@) - 1)]}
    \cup UNION {{[proof EXCEPT !.points[k].l = Plus(@, @)],
                 [proof EXCEPT !.points[k].r = Plus(@, @)],
                 [proof EXCEPT !.points[k] = [l |-> @.r, r |-> @.l]]} :
                  k \in DOMAIN proof.points}

Alterations(s) ==
  {[s EXCEPT !.proof = proof] : proof \in AlteredProofs(s.proof)}
    \cup {[s EXCEPT !.claim.product = Add(@, 1)], [s EXCEPT !.claim.y = Add(@, 1)],
          [s EXCEPT !.claim.logLen = @ + 1]}
    \cup {[s EXCEPT !.setup = setup] : setup \in Setups}

Deliver ==
  /\ sent # Idle /\ received = Idle
  /\ received' \in {sent} \cup (IF TrueClaim THEN Alterations(sent) ELSE {})
  /\ UNCHANGED <<given, prover, sent, verifier, oracle, trail>>

----------------------------------------------------------------------------
(* The verifier *)

Acceptable(setup, claim, proof) ==
  \E n \in ClaimLen(claim) :
    SupportsLen(setup, n) /\ Len(proof.points) = claim.logLen

VerifierStart ==
  LET setup == received.setup
      claim == received.claim
      n     == 2 ^ claim.logLen
      t     == Opening(setup, claim, n)
  IN  /\ received # Idle /\ verifier = Idle
      /\ \/ /\ ~Acceptable(setup, claim, received.proof)
            /\ verifier' = Refused("InvalidProof")
            /\ UNCHANGED oracle
         \/ /\ Acceptable(setup, claim, received.proof)
            /\ \E c \in Answers(oracle, t, "product-binding") :
                 LET q == Scale(BasePoint(setup.q), c) IN
                 /\ oracle' = Asked(oracle, t, "product-binding", c)
                 /\ verifier' = [phase      |-> "rounds",
                                 transcript |-> AfterChallenge(t, "product-binding", c),
                                 q          |-> q,
                                 folded     |-> Plus(claim.commitment, Scale(q, claim.product)),
                                 g          |-> LeftGenerators(setup, n),
                                 h          |-> WeightedHGenerators(setup, n, claim.y),
                                 round      |-> 1]
      /\ UNCHANGED <<given, prover, sent, received, trail>>

\* A slip of the next definition: the challenge is not squared.
FoldCommitmentLinear(folded, point, x) ==
  Plus(folded, Plus(Scale(point.l, x), Scale(point.r, Invert(x))))

FoldCommitment(folded, point, x) ==
  Plus(folded, Plus(Scale(point.l, Mul(x, x)),
                    Scale(point.r, Mul(Invert(x), Invert(x)))))

VerifierRound ==
  LET point == received.proof.points[verifier.round]
      t     == CommitRound(verifier.transcript, point)
  IN  /\ verifier.phase = "rounds"
      /\ verifier.round <= Len(received.proof.points)
      /\ \E x \in Answers(oracle, t, "round") :
           /\ oracle' = Asked(oracle, t, "round", x)
           /\ verifier' = [verifier EXCEPT
                             !.transcript = AfterChallenge(t, "round", x),
                             !.folded = FoldCommitment(@, point, x),
                             !.g = FoldPoints(@, Invert(x), x),
                             !.h = FoldPoints(@, x, Invert(x)),
                             !.round = @ + 1]
      /\ UNCHANGED <<given, prover, sent, received, trail>>

Expected(v, proof) ==
  Plus(Plus(Scale(v.g[1], proof.a), Scale(v.h[1], proof.b)),
       Scale(v.q, Mul(proof.a, proof.b)))

VerifierFinish ==
  /\ verifier.phase = "rounds"
  /\ verifier.round = Len(received.proof.points) + 1
  /\ verifier' = IF verifier.folded = Expected(verifier, received.proof)
                 THEN [verifier EXCEPT !.phase = "accepted"]
                 ELSE [verifier EXCEPT !.phase = "rejected"]
  /\ UNCHANGED <<given, prover, sent, received, oracle, trail>>

Next ==
  \/ ProverStart \/ ProverRound \/ ProverFinish
  \/ Deliver
  \/ VerifierStart \/ VerifierRound \/ VerifierFinish

Spec == Init /\ [][Next]_vars

----------------------------------------------------------------------------
(* Properties *)

\* A proof is made unless the claim's length or product is wrong for the
\* witness; one that arrives as it was made, against the claim it was made for,
\* is accepted exactly when the claim is true of the witness, whatever the
\* challenges: prove does not look at the commitment (ipa.rs:205-211), so a
\* proof for a wrong one exists, and verify must refuse it.
VerdictIsTruth ==
  /\ TrueClaim => prover.phase # "refused"
  /\ (received # Idle /\ received = sent) =>
       /\ verifier.phase = "accepted" => TrueClaim
       /\ verifier.phase \in {"rejected", "refused"} => ~TrueClaim

\* The two scalars that end a proof of a true claim are the only ones the
\* verifier takes after the same rounds, also where y, and with it all but the
\* first weight of the right generators, vanishes (ipa.rs:288-295, 466-472).
AlteredAnswerRejected ==
  (/\ verifier.phase = "accepted" /\ TrueClaim
   /\ received.claim = sent.claim /\ received.setup = sent.setup
   /\ received.proof.points = sent.proof.points) => received = sent

\* At each round of an honest verification the folded commitment is the
\* commitment to the prover's vectors of that round and to their product, under
\* the verifier's folded generators: the two sides fold by the same challenges
\* in opposite ways (ipa.rs:243-246, 278-285).
FoldedClaimHolds ==
  (verifier.phase = "rounds" /\ received = sent /\ TrueClaim) =>
    LET now == trail[verifier.round] IN
    verifier.folded = Plus(Plus(Msm(verifier.g, now.a), Msm(verifier.h, now.b)),
                           Scale(verifier.q, InnerProductOf(now.a, now.b)))

\* Every challenge depends on everything that was decided before it: where the
\* two transcripts agree, so do the setup, the claim and all points so far. A
\* verifier that was given anything else draws challenges of its own
\* (ipa.rs:258-276).
ChallengesBindEverything ==
  (verifier.phase \in {"rounds", "accepted", "rejected"} /\
     verifier.transcript = SubSeq(prover.transcript, 1, Len(verifier.transcript))) =>
    /\ received.setup = sent.setup
    /\ received.claim = sent.claim
    /\ \A k \in 1 .. (verifier.round - 1) : received.proof.points[k] = sent.proof.points[k]

=============================================================================
