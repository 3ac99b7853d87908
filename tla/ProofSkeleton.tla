---------------------------- MODULE ProofSkeleton ----------------------------
(***************************************************************************)
(* The Pallas proof backend (golden-proofs/src/pallas.rs).  The statement  *)
(* of one mask is proved in two halves: the mask circuit says that the     *)
(* mask is the hash of a point with coordinates x and y, the               *)
(* Diffie-Hellman circuit that the dealer's secret leads to that point.    *)
(* Nothing but the commitments to x and y, which both claims contain, ties *)
(* the halves together.  The mask is committed to like the coordinates, by *)
(* a Pedersen commitment: prove makes it without a blinding, verify takes  *)
(* it with any.                                                            *)
(*                                                                         *)
(* A circuit proof is what CircuitProof shows of it: whoever knows a       *)
(* witness of circuit and claim can make one, and it is accepted for that  *)
(* setup, circuit and claim and no other, so it is written as these.       *)
(*                                                                         *)
(*   shared    [x, y]           the two commitments                        *)
(*   opening   [x, y, xBlinding, yBlinding]                                *)
(*   proof     [backend, shared, mask, dh]                                 *)
(***************************************************************************)
EXTENDS MaskRelation, CircuitClaim

CONSTANTS Agendas,        \* bounds on what happens, one of which is chosen: the longest
                          \* batch, the inputs somebody may ask about (cases), those
                          \* half a proof may be about (sources), the witnesses of
                          \* honest provers, the pairs of blindings of x and y, and
                          \* the blindings of a mask
          MaskInternal,   \* wires of the mask circuit
          DhInternal      \* wires of the Diffie-Hellman circuit

VARIABLES agenda,     \* the one chosen
          items,      \* the batch: inputs, proof and how the proof was made
          refusal,    \* the last refusal of prove: inputs and witness
          batch       \* verify_batch: the position and the verdict

vars == <<agenda, items, refusal, batch>>

Backend == "golden-pallas-proof-skeleton/v7"
CircuitDomain == "GoldenRedPallas/PallasProofCircuitBundle/v0"

----------------------------------------------------------------------------
(* Circuits and claims *)

\* A slip of the next definition: the wires are not padded.
CircuitLogLenUnpadded(circuit) == LogLen(Larger(circuit.internal, 1))

CircuitLogLen(circuit) == LogLen(PaddedVars(circuit))

SetupFor(circuit) == CircuitSetup(CircuitDomain, CircuitLogLen(circuit), PallasGenerator)

MaskCircuit(inputs) ==
  [relation |-> "mask", transcript |-> TranscriptOf(inputs), internal |-> MaskInternal]

\* A public key without coordinates makes no circuit: the placeholder for the
\* shared point is the participant's.
DhCircuits(inputs) ==
  IF inputs.participantPublic = 0 THEN {}
  ELSE {[relation |-> "dh", dealer |-> inputs.dealerPublic,
         participant |-> inputs.participantPublic, internal |-> DhInternal]}

MaskCircuitClaim(inputs, shared) ==
  LET circuit == MaskCircuit(inputs) IN
  [setup |-> SetupFor(circuit), circuit |-> circuit,
   claim |-> <<inputs.maskCommitment, shared.x, shared.y>>]

VestaDhCircuitClaims(inputs, shared) ==
  {[setup |-> SetupFor(circuit), circuit |-> circuit, claim |-> <<shared.x, shared.y>>] :
     circuit \in DhCircuits(inputs)}

----------------------------------------------------------------------------
(* Proving *)

SharedCommitments(setup, opening) ==
  [x |-> CommitValue(setup, opening.x, opening.xBlinding),
   y |-> CommitValue(setup, opening.y, opening.yBlinding)]

OpeningOf(at, blindings) ==
  [x |-> at[1], y |-> at[2], xBlinding |-> blindings[1], yBlinding |-> blindings[2]]

\* PallasCircuitProof::prove, in a singleton; none where it refuses.
CircuitProofs(statement, values, blindings, holds) ==
  IF /\ holds
     /\ statement.claim = ClaimOf(statement.setup, [values |-> values, blinding |-> blindings])
     /\ Supports(statement.setup, PaddedVars(statement.circuit))
  THEN {statement} ELSE {}

MaskHalf(inputs, mask, maskBlinding, opening) ==
  LET shared == SharedCommitments(SetupFor(MaskCircuit(inputs)), opening) IN
  CircuitProofs(MaskCircuitClaim(inputs, shared), <<mask, opening.x, opening.y>>,
                <<maskBlinding, opening.xBlinding, opening.yBlinding>>,
                MaskCircuitHolds(TranscriptOf(inputs), mask, opening.x, opening.y))

\* The commitments are those made under the setup of the mask circuit.
DhHalf(inputs, secret, opening) ==
  LET shared == SharedCommitments(SetupFor(MaskCircuit(inputs)), opening) IN
  UNION {CircuitProofs(statement, <<opening.x, opening.y>>,
                       <<opening.xBlinding, opening.yBlinding>>,
                       DhCircuitHolds(inputs.dealerPublic, inputs.participantPublic, secret,
                                      opening.x, opening.y)) :
           statement \in VestaDhCircuitClaims(inputs, shared)}

\* The proofs of encode_skeleton_proof: one, or none where a step refuses.  It
\* commits to the mask with blinding zero.
EncodeSkeletonProof(inputs, witness, blindings) ==
  IF witness.shared = 0 THEN {}
  ELSE LET opening == OpeningOf(Affine[witness.shared], blindings) IN
       {[backend |-> Backend,
         shared |-> SharedCommitments(SetupFor(MaskCircuit(inputs)), opening),
         mask |-> mask, dh |-> dh] :
          mask \in MaskHalf(inputs, witness.mask, 0, opening),
          dh \in DhHalf(inputs, witness.secret, opening)}

\* prove; every refusal is InvalidWitness.
ProveMask(inputs, witness, blindings) ==
  IF /\ ValidateMaskWitness(inputs, witness)
     /\ VerifyDhTrace("field", inputs, BytesToFieldLimbs(DhTrace(inputs, witness)))
     /\ VerifyPublicRelation(inputs, MaskTrace(inputs, witness))
  THEN EncodeSkeletonProof(inputs, witness, blindings) ELSE {}

----------------------------------------------------------------------------
(* Verifying *)

Verify(inputs, proof) ==
  IF proof.backend # Backend THEN "BackendMismatch"
  ELSE IF proof.mask # MaskCircuitClaim(inputs, proof.shared) THEN "InvalidProof"
  ELSE IF DhCircuits(inputs) = {} THEN "InvalidWitness"
  ELSE IF proof.dh \notin VestaDhCircuitClaims(inputs, proof.shared) THEN "InvalidProof"
  ELSE "Ok"

\* The generators the claims need exist, and what the proofs are about has the
\* types of the code.
ASSUME AgendaAssumption ==
  /\ {PallasGenerator, DeriveCircuitGenerator(CircuitDomain, "circuit-blinding")} \subseteq Bases
  /\ MaskInternal \in Nat /\ DhInternal \in Nat
  /\ \A a \in Agendas :
       /\ a.cases \subseteq MaskInputs /\ a.sources \subseteq MaskInputs
       /\ a.blindings \subseteq Scalars \X Scalars /\ a.maskBlindings \subseteq Scalars
       /\ a.witnesses \subseteq MaskWitnesses

----------------------------------------------------------------------------

Init ==
  /\ agenda \in Agendas
  /\ items = <<>>
  /\ refusal = {}
  /\ batch = [i |-> 0, verdict |-> "Ok"]

Add1(inputs, proof, made) ==
  items' = Append(items, [inputs |-> inputs, proof |-> proof, made |-> made])

Room == batch.i = 0 /\ refusal = {} /\ Len(items) < agenda.longest

\* A proof may come to be labelled with another backend's name.  A refusal is
\* recorded before there is a batch: prove knows of none.
Prove(inputs, witness, blindings) ==
  LET proofs == ProveMask(inputs, witness, blindings) IN
  /\ Room
  /\ \/ /\ \E proof \in proofs :
             \/ Add1(inputs, proof, "prove")
             \/ Add1(inputs, [proof EXCEPT !.backend = "other"], "renamed")
        /\ UNCHANGED refusal
     \/ /\ items = <<>> /\ proofs = {}
        /\ refusal' = {[inputs |-> inputs, witness |-> witness]}
        /\ UNCHANGED items
  /\ UNCHANGED <<agenda, batch>>

\* Somebody puts a proof together from two halves, each of which he can make for
\* inputs of his choice, and presents it for the inputs of a case.
PutTogether(inputs, ofMask, ofDh) ==
  /\ Room
  /\ \A k \in DOMAIN items : items[k].made # "put together"
  /\ \E point, target \in 1 .. (Q - 1), secret \in 0 .. (Q - 1), b1, b2 \in agenda.blindings,
        blinding \in agenda.maskBlindings :
       LET opening == OpeningOf(Affine[point], b1)
           mask == HashToScalar(EncodePoint(point) \o TranscriptOf(ofMask))
           mine == [ofMask EXCEPT !.maskCommitment =
                      CommitValue(SetupFor(MaskCircuit(ofMask)), mask, blinding)]
       IN  \E half \in MaskHalf(mine, mask, blinding, opening),
              other \in DhHalf(ofDh, secret, OpeningOf(Affine[target], b2)) :
             Add1(inputs, [backend |-> Backend,
                           shared  |-> SharedCommitments(half.setup, opening),
                           mask    |-> half, dh |-> other], "put together")
  /\ UNCHANGED <<agenda, refusal, batch>>

\* A slip of the next definition: a verdict does not end the loop, and the last
\* one counts.
VerifyBatchLastCounts ==
  /\ items # <<>>
  /\ batch.i < Len(items)
  /\ batch' = [i |-> batch.i + 1,
               verdict |-> Verify(items[batch.i + 1].inputs, items[batch.i + 1].proof)]
  /\ UNCHANGED <<agenda, items, refusal>>

VerifyBatch ==
  /\ items # <<>>
  /\ batch.i < Len(items) /\ batch.verdict = "Ok"
  /\ batch' = [i |-> batch.i + 1,
               verdict |-> Verify(items[batch.i + 1].inputs, items[batch.i + 1].proof)]
  /\ UNCHANGED <<agenda, items, refusal>>

Next ==
  \/ \E inputs \in agenda.cases :
       \/ \E witness \in agenda.witnesses, blindings \in agenda.blindings :
            Prove(inputs, witness, blindings)
       \/ \E ofMask, ofDh \in agenda.sources : PutTogether(inputs, ofMask, ofDh)
  \/ VerifyBatch

Spec == Init /\ [][Next]_vars

----------------------------------------------------------------------------
(* Properties *)

\* The statement: the dealer's secret, applied to the participant's key, gives a
\* point whose hash with the transcript is the mask that the commitment opens to
\* (docs/bulletproofs-backend.md:138-140); opens says with which blindings.
StatementOpening(inputs, opens) ==
  \E secret \in 0 .. (Q - 1), blinding \in opens :
    LET shared == DiffieHellman(secret, inputs.participantPublic)
        mask == HashToScalar(EncodePoint(shared) \o TranscriptOf(inputs))
    IN  /\ inputs.dealerPublic = HelperPublic(secret)
        /\ inputs.maskCommitment = CommitValue(SetupFor(MaskCircuit(inputs)), mask, blinding)

\* Two halves, made for different points, by different parties or about
\* different inputs, are never accepted as the proof of a statement that is
\* false: the one point both hide has this hash and is the secret's, and the
\* commitment opens to it, with some blinding (verify, pallas.rs:538).
AcceptedMeansStatement ==
  \A k \in DOMAIN items :
    Verify(items[k].inputs, items[k].proof) = "Ok" => StatementOpening(items[k].inputs, Scalars)

\* What docs/implementation-testing-plan.md:180-183 wants, that a proof rejects a
\* wrong mask commitment, so that the one accepted is the point of the mask, as
\* prove makes it and recovery needs it.  Does not hold: verify (pallas.rs:538)
\* asks for an opening with any blinding.
AcceptedIsMaskPoint ==
  \A k \in DOMAIN items :
    Verify(items[k].inputs, items[k].proof) = "Ok" => StatementOpening(items[k].inputs, {0})

\* An honest proof verifies, although the two circuits have setups of different
\* sizes, and the prover refuses a true statement only if the shared point is the
\* identity, which has no coordinates (prove, pallas.rs:521).
HonestProofVerifies ==
  /\ \A k \in DOMAIN items :
       items[k].made = "prove" => Verify(items[k].inputs, items[k].proof) = "Ok"
  /\ \A r \in refusal : ~ValidateMaskWitness(r.inputs, r.witness) \/ r.witness.shared = 0

\* A finished batch is accepted exactly if each of its members is, and its verdict
\* is that of the first that is not (docs/bulletproofs-backend.md:149-152).
BatchIsConjunction ==
  LET verdicts == [k \in DOMAIN items |-> Verify(items[k].inputs, items[k].proof)] IN
  (items # <<>> /\ (batch.i = Len(items) \/ batch.verdict # "Ok")) =>
    batch.verdict =
      LET bad == SelectInSeq(verdicts, LAMBDA v : v # "Ok")
      IN  IF bad = 0 THEN "Ok" ELSE verdicts[bad]

=============================================================================
