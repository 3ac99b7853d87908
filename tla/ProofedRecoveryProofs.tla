------------------------ MODULE ProofedRecoveryProofs ------------------------
(***************************************************************************)
(* Proofs about ProofedRecovery, for every field, every simulation, every  *)
(* set of proofed transcripts and every number of them.                    *)
(***************************************************************************)
EXTENDS ProofedRecovery, ProtocolTheorems

----------------------------------------------------------------------------
(* Lookups find what they look for. *)

\* The positions up to n are those before it and n itself.
LEMMA OneMore ==
  ASSUME NEW n \in Nat, n >= 1
  PROVE  1 .. n = (1 .. (n - 1)) \cup {n} /\ (n + 1) - 1 = n
  OBVIOUS

LEMMA FindParticipantFound ==
  ASSUME NEW id, FindParticipant(id) # 0
  PROVE  /\ FindParticipant(id) \in DOMAIN Simulation.participants
         /\ Simulation.participants[FindParticipant(id)].id = id
<1> DEFINE S == {k \in 1 .. Len(Simulation.participants) : Simulation.participants[k].id = id}
<1>1. S \in SUBSET Nat /\ FindParticipant(id) = IF S # {} THEN Min(S) ELSE 0
  BY DEF FindParticipant, SelectInSeq
<1>2. Min(S) \in S
  BY <1>1, LeastElement
<1>3. DOMAIN Simulation.participants = 1 .. Len(Simulation.participants)
  BY RecoveryAssumption
<1> QED
  BY <1>1, <1>2, <1>3

LEMMA FindProofFound ==
  ASSUME NEW proofed \in ProofedTranscripts, NEW id, FindProof(proofed, id) # 0
  PROVE  FindProof(proofed, id) \in DOMAIN proofed.proofs
<1> DEFINE S == {k \in 1 .. Len(proofed.proofs) : proofed.proofs[k].participant = id}
<1>1. S \in SUBSET Nat /\ FindProof(proofed, id) = IF S # {} THEN Min(S) ELSE 0
  BY DEF FindProof, SelectInSeq
<1>2. Min(S) \in S
  BY <1>1, LeastElement
<1> QED
  BY <1>1, <1>2 DEF ProofedTranscripts

----------------------------------------------------------------------------
(* One transcript that has passed every check. *)

\* What a proof that is found is about has the types of the code.
LEMMA EntryInputs ==
  ASSUME NEW proofed \in Pool, NEW id \in Targets, FindProof(proofed, id) # 0
  PROVE  proofed.proofs[FindProof(proofed, id)].inputs \in PublicInputs
<1> DEFINE n == FindProof(proofed, id)
           Entries == [participant : Nat, inputs : PublicInputs,
                       proof : [backend : STRING, digest : Seq(Nat) \X Points]]
<1>1. proofed \in ProofedTranscripts /\ n \in DOMAIN proofed.proofs
  BY FindProofFound, RecoveryAssumption
<1>2. proofed.proofs \in Seq(Entries)
  BY <1>1 DEF ProofedTranscripts
<1>3. proofed.proofs[n] \in Entries
  BY <1>1, <1>2, ElementType
<1> QED
  BY <1>3

\* A derived mask is a scalar, whichever side derives it.
LEMMA DerivedMask ==
  ASSUME NEW inputs \in PublicInputs, NEW secret \in 0 .. (Q - 1), NEW public \in 0 .. (Q - 1)
  PROVE  DeriveMask(DiffieHellman(secret, public), MaskTranscript(inputs)) \in Scalars
<1>1. DiffieHellman(secret, public) \in Int
  BY DiffieHellmanType, HelperAssumption
<1>2. /\ inputs.session \in Int /\ inputs.dealer \in Int /\ inputs.participant \in Int
      /\ inputs.dealerPublic \in Int /\ inputs.participantPublic \in Int
  BY HelperAssumption DEF PublicInputs
<1>3. inputs.poly \in Seq(Points)
  BY DEF PublicInputs
<1>4. inputs.poly \in Seq(Int)
  BY <1>3, ResiduesAreIntegers
<1> QED
  BY <1>1, <1>2, <1>4, MaskType DEF MaskTranscript

\* Unmasking with another mask than the one committed to is off by the difference:
\* if G z = F + M then G (z - m) = F + (M - G m).
LEMMA UnmaskedMiss ==
  ASSUME NEW z \in Scalars, NEW m \in Scalars, NEW F \in Points, NEW M \in Points,
         GeneratorMul(z) = PointAdd(F, M)
  PROVE  /\ PointAdd(M, Negate(GeneratorMul(m))) \in Points
         /\ GeneratorMul(Sub(z, m)) = PointAdd(F, PointAdd(M, Negate(GeneratorMul(m))))
<1> DEFINE x == GeneratorMul(m)
           miss == PointAdd(M, Negate(x))
<1>1. z \in Int /\ m \in Int /\ F \in Int /\ M \in Int /\ Sub(z, m) \in Int
  BY Closure, ResiduesAreIntegers
<1>2. x \in Points /\ x \in Int /\ Negate(x) \in Scalars /\ Negate(x) \in Int
  BY <1>1, Closure, ResiduesAreIntegers
<1>3. GeneratorMul(z) = PointAdd(GeneratorMul(Sub(z, m)), x)
  BY <1>1, AddSub, GeneratorMulAdd
<1> HIDE DEF x
<1>4. miss \in Points /\ miss \in Int
  BY <1>1, <1>2, Closure, ResiduesAreIntegers
<1>5. Add(miss, x) = M
  <2>1. miss = Sub(M, x)
    <3>1. M + (-x) = M - x /\ -x \in Int
      BY <1>1, <1>2
    <3>2. (M + ((-x) % P)) % P = (M + (-x)) % P
      BY <1>1, <3>1, SumModP
    <3> QED
      BY <3>1, <3>2 DEF PointAdd, Negate, Sub
  <2>2. M \in Scalars
    BY ResiduesAreIntegers
  <2> QED
    BY <1>2, <2>1, <2>2, AddSub
<1> HIDE DEF miss
<1>6. Add(Add(F, miss), x) = Add(F, M)
  BY <1>1, <1>2, <1>4, <1>5, RingAdd
<1>7. PointAdd(PointAdd(F, miss), x) = PointAdd(GeneratorMul(Sub(z, m)), x)
  BY <1>3, <1>6 DEF Add, PointAdd
<1>8. PointAdd(F, miss) \in Points /\ GeneratorMul(Sub(z, m)) \in Points
  BY <1>1, <1>4, Closure
<1>9. GeneratorMul(Sub(z, m)) = PointAdd(F, miss)
  BY <1>2, <1>7, <1>8, PointCancel
<1> QED
  BY <1>4, <1>9 DEF miss, x

\* The unmasked share of a transcript that has passed the checks is the discrete
\* logarithm of its committed polynomial at the participant and of what its mask
\* commitment misses, and of the polynomial alone if the proofs are sound.
LEMMA UnmaskedTerm ==
  ASSUME input \in Seq(Pool), target \in Targets, NEW k \in DOMAIN input,
         CollectError(k) = NoError,
         VerifyProof(Entry(k).inputs, Entry(k).proof) = NoError,
         ValidateTranscript(VerifiedCandidate(k), target) = NoError
  PROVE  LET t == Transcript(k)
             m == ProofedMask(ExpectedInputs(t), Person)
             F == EvaluatePublicPolynomial(t.poly, target)
         IN  /\ F \in Points /\ Miss(k) \in Points
             /\ RecoverShare(TargetShare(t).value, m) \in Scalars
             /\ GeneratorMul(RecoverShare(TargetShare(t).value, m)) = PointAdd(F, Miss(k))
             /\ ProofsAreSound => GeneratorMul(RecoverShare(TargetShare(t).value, m)) = F
<1> DEFINE t == Transcript(k)
           z == TargetShare(t).value
           M == TargetShare(t).mask
           inputs == ExpectedInputs(t)
           m == ProofedMask(inputs, Person)
           F == EvaluatePublicPolynomial(t.poly, target)
<1>1. input[k] \in Pool /\ input[k] \in ProofedTranscripts
  BY RecoveryAssumption
<1>2. t \in Transcripts
  BY <1>1 DEF Transcript, ProofedTranscripts
<1>3. /\ FindParticipant(target) # 0 /\ FirstShare(t, target) # 0
      /\ FindProof(input[k], target) # 0
      /\ Entry(k).inputs = inputs
  BY DEF CollectError, NoError
<1>4. TargetShare(t) = t.shares[FirstShare(t, target)]
  BY DEF TargetShare
<1>5. /\ TargetShare(t) \in [participant : Nat, value : Scalars, mask : Points]
      /\ TargetShare(t).participant = target
  <2> DEFINE Shares == [participant : Nat, value : Scalars, mask : Points]
  <2>1. t.shares \in Seq(Shares)
    BY <1>2 DEF Transcripts
  <2>2. /\ FirstShare(t, target) \in DOMAIN t.shares
        /\ t.shares[FirstShare(t, target)].participant = target
    BY <1>2, <1>3, FirstShareFound
  <2>3. t.shares[FirstShare(t, target)] \in Shares
    BY <2>1, <2>2, ElementType
  <2> QED
    BY <1>4, <2>2, <2>3
<1>6. Person \in [id : Nat, secret : 0 .. (Q - 1)]
  <2>1. FindParticipant(target) \in DOMAIN Simulation.participants
    BY <1>3, FindParticipantFound
  <2>2. Simulation.participants \in Seq([id : Nat, secret : 0 .. (Q - 1)])
    BY RecoveryAssumption
  <2> QED
    BY <2>1, <2>2, ElementType DEF Person
<1>7. inputs.participantPublic = HelperPublic(Person.secret) /\ inputs.mask = M
  BY DEF ExpectedInputs, ProofPublicInputs
<1>8. inputs \in PublicInputs
  BY <1>1, <1>3, EntryInputs DEF Entry
<1>9. m \in Scalars
  <2>1. inputs.dealerPublic \in 0 .. (Q - 1) /\ Person.secret \in 0 .. (Q - 1)
    BY <1>6, <1>8 DEF PublicInputs
  <2> HIDE DEF inputs
  <2> QED
    BY <1>8, <2>1, DerivedMask DEF ProofedMask
<1>10. VerifyMaskedShareCommitment(TargetShare(t), t.poly)
  <2> DEFINE c == VerifiedCandidate(k)
  <2>1. c \in Transcripts /\ c.shares = t.shares /\ c.poly = t.poly
    BY <1>2 DEF VerifiedCandidate, Transcripts, Statuses
  <2>2. FirstShare(c, target) = FirstShare(t, target)
    BY <2>1 DEF FirstShare
  <2>3. VerifyMaskedShareCommitment(c.shares[FirstShare(c, target)], c.poly)
    BY <2>1, ValidatedShare
  <2> QED
    BY <2>1, <2>2, <2>3, <1>4
<1>11. F \in Points
  BY <1>2, PublicEvaluationType, RecoveryAssumption DEF Transcripts
<1>12. z \in Scalars /\ M \in Points /\ GeneratorMul(z) = PointAdd(F, M)
  BY <1>5, <1>10 DEF VerifyMaskedShareCommitment
<1>13. Miss(k) = PointAdd(M, Negate(GeneratorMul(m)))
  BY DEF Miss
<1>14. ASSUME ProofsAreSound PROVE M = GeneratorMul(m)
  <2>1. \E secret \in 0 .. (Q - 1) :
          LET shared == DiffieHellman(secret, inputs.participantPublic) IN
          ValidateWitness(inputs,
            [secret |-> secret, shared |-> shared,
             mask |-> DeriveMask(shared, MaskTranscript(inputs))]) = NoError
    BY <1>3, <1>14 DEF ProofsAreSound
  <2> HIDE DEF inputs
  <2>2. PICK secret \in 0 .. (Q - 1) :
          /\ inputs.dealerPublic = HelperPublic(secret)
          /\ inputs.mask = GeneratorMul(DeriveMask(
                             DiffieHellman(secret, inputs.participantPublic),
                             MaskTranscript(inputs)))
    BY <2>1 DEF ValidateWitness, NoError
  <2>3. DiffieHellman(secret, inputs.participantPublic) =
          DiffieHellman(Person.secret, inputs.dealerPublic)
    BY <1>6, <1>7, <2>2, SharedPointAgrees
  <2> QED
    BY <1>7, <2>2, <2>3 DEF ProofedMask
<1> HIDE DEF t, z, M, m, F, inputs
<1>15. Sub(z, m) \in Scalars
  BY <1>9, <1>12, Closure, ResiduesAreIntegers
<1>16. Miss(k) \in Points /\ GeneratorMul(Sub(z, m)) = PointAdd(F, Miss(k))
  BY <1>9, <1>11, <1>12, <1>13, UnmaskedMiss
<1>17. ProofsAreSound => GeneratorMul(Sub(z, m)) = F
  BY <1>9, <1>11, <1>12, <1>14, UnmaskedShare
<1> QED
  BY <1>11, <1>15, <1>16, <1>17 DEF RecoverShare, t, z, m, F, inputs

----------------------------------------------------------------------------
(* The inductive invariant. *)

LEMMA InitIInv == RecoveryInit => IInv
<1> SUFFICES ASSUME RecoveryInit PROVE IInv
  OBVIOUS
<1>1. input \in Seq(Pool) /\ Len(input) \in Nat
  BY RecoveryAssumption DEF RecoveryInit
<1>2. TypeOK
  BY <1>1, FieldAssumption DEF RecoveryInit, TypeOK, Phases, Scalars, Points, Identity, IsInjective
<1>3. RecoveredShareIsCommitted
  <2>1. value = 0 /\ keySum = 0 /\ GeneratorMul(0) = 0 /\ PointAdd(0, 0) = 0
    BY FieldAssumption, RemainderOfResidue DEF RecoveryInit, GeneratorMul, PointAdd, Identity
  <2>2. [k \in DOMAIN seen |-> Miss(k)] = <<>>
    BY DEF RecoveryInit
  <2> QED
    BY <2>1, <2>2, SumEmpty DEF RecoveredShareIsCommitted
<1>4. ChecksPassed
  BY <1>1 DEF RecoveryInit, ChecksPassed, Passed, After
<1>5. AddedInOrder
  BY DEF RecoveryInit, AddedInOrder
<1> QED
  BY <1>2, <1>3, <1>4, <1>5 DEF IInv

\* The checks are about the input and the participant, which no step changes.
LEMMA ChecksAreStable ==
  ASSUME UNCHANGED <<input, target>>, NEW k
  PROVE  /\ CollectError(k)' = CollectError(k)
         /\ Entry(k)' = Entry(k)
         /\ VerifiedCandidate(k)' = VerifiedCandidate(k)
  BY DEF CollectError, Entry, VerifiedCandidate, Transcript, ExpectedInputs,
         TargetShare, Person

\* So is what the mask commitments miss, and whether the proofs are sound.
LEMMA MissesAreStable ==
  ASSUME UNCHANGED <<input, target>>
  PROVE  /\ \A k : Miss(k)' = Miss(k)
         /\ ProofsAreSound' = ProofsAreSound
  BY DEF Miss, ProofsAreSound, Entry, Transcript, ExpectedInputs, TargetShare, Person

LEMMA CommittedIsStable ==
  ASSUME RecoveredShareIsCommitted, UNCHANGED <<input, target, seen, value, keySum>>
  PROVE  RecoveredShareIsCommitted'
<1>1. [k \in DOMAIN seen |-> Miss(k)]' = [k \in DOMAIN seen |-> Miss(k)]
  BY MissesAreStable
<1>2. ProofsAreSound' = ProofsAreSound
  BY MissesAreStable
<1> QED
  BY <1>1, <1>2 DEF RecoveredShareIsCommitted

\* A failing step only sets the phase and the error.
LEMMA FailIInv ==
  ASSUME IInv, NEW e, Fail(e)
  PROVE  IInv'
<1> USE DEF IInv, Fail
<1>1. TypeOK'
  BY DEF TypeOK, Phases
<1>2. RecoveredShareIsCommitted'
  BY CommittedIsStable
<1>3. ChecksPassed'
  BY DEF ChecksPassed, Passed, After
<1>4. AddedInOrder'
  BY DEF AddedInOrder
<1> QED
  BY <1>1, <1>2, <1>3, <1>4

\* A loop over checks goes on when transcript turn has passed.
LEMMA AdvanceIInv ==
  ASSUME IInv, Advance, turn <= Len(input),
         \/ phase = "collect" /\ CollectError(turn) = NoError
         \/ phase = "batch" /\ VerifyProof(Entry(turn).inputs, Entry(turn).proof) = NoError
         \/ phase = "verify" /\ ValidateTranscript(VerifiedCandidate(turn), target) = NoError
  PROVE  IInv'
<1> USE DEF IInv, Advance
<1>1. TypeOK'
  BY DEF TypeOK
<1>2. RecoveredShareIsCommitted'
  BY CommittedIsStable
<1>3. ChecksPassed'
  <2> SUFFICES ASSUME NEW k \in DOMAIN input
               PROVE  /\ Passed("collect", k)' => CollectError(k)' = NoError
                      /\ Passed("batch", k)' =>
                           VerifyProof(Entry(k)'.inputs, Entry(k)'.proof) = NoError
                      /\ Passed("verify", k)' =>
                           ValidateTranscript(VerifiedCandidate(k)', target') = NoError
    BY DEF ChecksPassed
  <2>1. k \in Nat /\ turn \in Nat
    BY DEF TypeOK
  <2>2. \A loop \in {"collect", "batch", "verify"} :
          Passed(loop, k)' => Passed(loop, k) \/ (phase = loop /\ k = turn)
    BY <2>1 DEF Passed
  <2> QED
    BY <2>2, ChecksAreStable DEF ChecksPassed
<1>4. AddedInOrder'
  BY DEF AddedInOrder
<1> QED
  BY <1>1, <1>2, <1>3, <1>4

\* The end of a loop: every transcript has passed its check.
LEMMA EnterIInv ==
  ASSUME IInv,
         \/ Enter("collect", "batch") \/ Enter("batch", "verify")
         \/ Enter("verify", "threshold") \/ Enter("sum", "done")
  PROVE  IInv'
<1> USE DEF IInv, Enter
<1>1. TypeOK'
  BY DEF TypeOK, Phases
<1>2. RecoveredShareIsCommitted'
  BY CommittedIsStable
<1>3. ChecksPassed'
  <2> SUFFICES ASSUME NEW k \in DOMAIN input
               PROVE  /\ Passed("collect", k)' => CollectError(k)' = NoError
                      /\ Passed("batch", k)' =>
                           VerifyProof(Entry(k)'.inputs, Entry(k)'.proof) = NoError
                      /\ Passed("verify", k)' =>
                           ValidateTranscript(VerifiedCandidate(k)', target') = NoError
    BY DEF ChecksPassed
  <2>1. k \in 1 .. Len(input) /\ Len(input) \in Nat
    BY DEF TypeOK
  <2>2. \A loop \in {"collect", "batch", "verify"} : Passed(loop, k)' => Passed(loop, k)
    BY <2>1 DEF Passed, After
  <2> QED
    BY <2>2, ChecksAreStable DEF ChecksPassed
<1>4. AddedInOrder'
  BY DEF AddedInOrder
<1> QED
  BY <1>1, <1>2, <1>3, <1>4

LEMMA ThresholdIInv ==
  ASSUME IInv, Threshold
  PROVE  IInv'
<1>1. CASE Fail("UnknownParticipant") \/ Fail("InsufficientDealers")
  BY <1>1, FailIInv
<1>2. CASE /\ phase = "threshold" /\ phase' = "sum" /\ turn' = 1
           /\ UNCHANGED <<input, target, seen, value, error, keySum>>
  <2> USE DEF IInv
  <2>1. TypeOK'
    BY <1>2 DEF TypeOK, Phases
  <2>2. RecoveredShareIsCommitted'
    BY <1>2, CommittedIsStable
  <2>3. ChecksPassed'
    BY <1>2, ChecksAreStable DEF ChecksPassed, Passed, After
  <2>4. AddedInOrder'
    BY <1>2 DEF AddedInOrder
  <2> QED
    BY <2>1, <2>2, <2>3, <2>4
<1> QED
  BY <1>1, <1>2 DEF Threshold

\* Points may be added up in any order.
LEMMA PointsRegroup ==
  ASSUME NEW a \in Int, NEW b \in Int, NEW c \in Int, NEW d \in Int
  PROVE  PointAdd(PointAdd(a, b), PointAdd(c, d)) = PointAdd(PointAdd(a, c), Add(b, d))
<1>1. Add(a, b) \in Int /\ Add(a, c) \in Int
  BY Closure, ResiduesAreIntegers
<1>2. Add(Add(a, b), Add(c, d)) = Add(Add(Add(a, b), c), d)
  BY <1>1, RingAdd
<1>3. Add(Add(a, b), c) = Add(Add(a, c), b)
  BY RingAdd
<1>4. Add(Add(Add(a, c), b), d) = Add(Add(a, c), Add(b, d))
  BY <1>1, RingAdd
<1> QED
  BY <1>2, <1>3, <1>4 DEF Add, PointAdd

\* A dealer that has not been seen is added to those that have.
LEMMA SeenGrows ==
  ASSUME NEW s \in Seq(Nat), IsInjective(s), NEW d \in Nat, d \notin ToSet(s)
  PROVE  Append(s, d) \in Seq(Nat) /\ IsInjective(Append(s, d))
<1>1. /\ Append(s, d) \in Seq(Nat) /\ DOMAIN Append(s, d) = 1 .. (Len(s) + 1)
      /\ DOMAIN s = 1 .. Len(s) /\ Len(s) \in Nat
      /\ Append(s, d)[Len(s) + 1] = d
      /\ \A k \in 1 .. Len(s) : Append(s, d)[k] = s[k]
  OBVIOUS
<1>2. \A k \in 1 .. Len(s) : s[k] # d
  BY <1>1 DEF ToSet
<1>3. \A a, b \in 1 .. Len(s) : s[a] = s[b] => a = b
  BY <1>1 DEF IsInjective
<1> HIDE DEF IsInjective
<1>4. ASSUME NEW a \in 1 .. (Len(s) + 1), NEW b \in 1 .. (Len(s) + 1),
             Append(s, d)[a] = Append(s, d)[b]
      PROVE  a = b
  <2>1. (a \in 1 .. Len(s) \/ a = Len(s) + 1) /\ (b \in 1 .. Len(s) \/ b = Len(s) + 1)
    BY <1>1
  <2> QED
    BY <1>1, <1>2, <1>3, <1>4, <2>1
<1>5. IsInjective(Append(s, d))
  BY <1>1, <1>4 DEF IsInjective
<1> QED
  BY <1>1, <1>5

\* Adding a term keeps the sum the discrete logarithm of the points' sum.
LEMMA SumIInv ==
  ASSUME IInv, Sum
  PROVE  IInv'
<1>1. CASE Fail("DuplicateDealer")
  BY <1>1, FailIInv
<1>2. CASE ~Fail("DuplicateDealer")
  <2> DEFINE t == Transcript(turn)
             term == RecoverShare(TargetShare(t).value,
                                  ProofedMask(ExpectedInputs(t), Person))
             F == EvaluatePublicPolynomial(t.poly, target)
             old == [k \in DOMAIN seen |-> Miss(k)]
             S == SumOf(old)
  <2>1. /\ phase = "sum" /\ turn <= Len(input)
        /\ t.dealer \notin ToSet(seen) /\ seen' = Append(seen, t.dealer)
        /\ value' = Add(value, term) /\ keySum' = PointAdd(keySum, F)
        /\ turn' = turn + 1
        /\ UNCHANGED <<input, target, phase, error>>
    BY <1>2 DEF Sum
  <2>2. /\ turn \in DOMAIN input /\ input \in Seq(Pool) /\ target \in Targets
        /\ turn \in Nat /\ turn >= 1 /\ \A k \in 1 .. turn : k \in DOMAIN input
    BY <2>1 DEF IInv, TypeOK
  <2>3. /\ F \in Points /\ term \in Scalars /\ GeneratorMul(term) = PointAdd(F, Miss(turn))
        /\ ProofsAreSound => GeneratorMul(term) = F
    BY <2>1, <2>2, UnmaskedTerm DEF IInv, ChecksPassed, Passed, After
  <2>4. \A k \in 1 .. turn : Miss(k) \in Int
    <3> SUFFICES ASSUME NEW k \in 1 .. turn PROVE Miss(k) \in Int
      OBVIOUS
    <3>1. Miss(k) \in Points
      BY <2>1, <2>2, UnmaskedTerm DEF IInv, ChecksPassed, Passed, After
    <3> QED
      BY <3>1, ResiduesAreIntegers
  <2>5. t.dealer \in Nat
    BY <2>2, RecoveryAssumption DEF Transcript, ProofedTranscripts, Transcripts
  <2>6. /\ seen \in Seq(Nat) /\ IsInjective(seen) /\ Len(seen) = turn - 1 /\ DOMAIN seen = 1 .. (turn - 1)
    BY <2>1, <2>2 DEF IInv, TypeOK, AddedInOrder
  <2>7. seen' \in Seq(Nat) /\ IsInjective(seen') /\ DOMAIN seen' = 1 .. turn /\ Len(seen') = turn
    <3>1. seen' \in Seq(Nat) /\ IsInjective(seen')
      BY <2>1, <2>5, <2>6, SeenGrows
    <3>2. Len(seen') = turn /\ DOMAIN seen' = 1 .. turn
      BY <2>1, <2>2, <2>5, <2>6
    <3> QED
      BY <3>1, <3>2
  <2>8. old \in Seq(Int) /\ [k \in DOMAIN seen |-> Miss(k)]' = Append(old, Miss(turn))
    <3>1. [k \in DOMAIN seen |-> Miss(k)]' = [k \in 1 .. turn |-> Miss(k)]
      BY <2>1, <2>7, MissesAreStable
    <3>2. old \in Seq(Int) /\ Len(old) = turn - 1
      <4>1. turn - 1 \in Nat /\ \A k \in 1 .. (turn - 1) : Miss(k) \in Int
        BY <2>2, <2>4
      <4>2. old = [k \in 1 .. (turn - 1) |-> Miss(k)]
        BY <2>6
      <4> HIDE DEF old
      <4> QED
        BY <4>1, <4>2
    <3>3. [k \in 1 .. turn |-> Miss(k)] = Append(old, Miss(turn))
      BY <2>2, <2>6, <3>2
    <3> QED
      BY <3>1, <3>2, <3>3
  <2> HIDE DEF t, term, F, old
  <2>9. /\ SumOf([k \in DOMAIN seen |-> Miss(k)]') = Add(S, Miss(turn))
        /\ S \in Int /\ Miss(turn) \in Int
    <3>1. Miss(turn) \in Int
      BY <2>2, <2>4
    <3>2. SumOf(Append(old, Miss(turn))) = Add(S, Miss(turn))
      BY <2>8, <3>1, SumAppend
    <3>3. S \in Int
      BY <2>8, SumType, ResiduesAreIntegers
    <3> QED
      BY <2>8, <3>1, <3>2, <3>3
  <2>10. /\ value \in Scalars /\ keySum \in Points
         /\ value \in Int /\ keySum \in Int /\ term \in Int /\ F \in Int
    BY <2>3, ResiduesAreIntegers DEF IInv, TypeOK
  <2>11. TypeOK'
    BY <2>1, <2>2, <2>7, <2>10, Closure DEF IInv, TypeOK
  <2>12. RecoveredShareIsCommitted'
    <3>1. GeneratorMul(value') = PointAdd(GeneratorMul(value), GeneratorMul(term))
      BY <2>1, <2>10, GeneratorMulAdd
    <3>2. GeneratorMul(value) = PointAdd(keySum, S)
      BY DEF IInv, RecoveredShareIsCommitted, old
    <3> HIDE DEF S
    <3>3. GeneratorMul(value') = PointAdd(keySum', Add(S, Miss(turn)))
      BY <2>1, <2>3, <2>9, <2>10, <3>1, <3>2, PointsRegroup
    <3>4. ProofsAreSound' => GeneratorMul(value') = keySum'
      BY <2>1, <2>3, <3>1, MissesAreStable DEF IInv, RecoveredShareIsCommitted
    <3> QED
      BY <2>9, <3>3, <3>4 DEF RecoveredShareIsCommitted
  <2>13. ChecksPassed'
    BY <2>1, ChecksAreStable DEF IInv, ChecksPassed, Passed, After
  <2>14. AddedInOrder'
    BY <2>1, <2>2, <2>7 DEF AddedInOrder
  <2> QED
    BY <2>11, <2>12, <2>13, <2>14 DEF IInv
<1> QED
  BY <1>1, <1>2

\* Every step preserves the inductive invariant.
LEMMA NextIInv == IInv /\ [RecoveryNext]_recoveryVars => IInv'
<1> SUFFICES ASSUME IInv, [RecoveryNext]_recoveryVars PROVE IInv'
  OBVIOUS
<1>1. CASE Collect
  BY <1>1, FailIInv, AdvanceIInv DEF Collect
<1>2. CASE VerifyBatch
  BY <1>2, FailIInv, AdvanceIInv DEF VerifyBatch
<1>3. CASE VerifyTranscripts
  BY <1>3, FailIInv, AdvanceIInv DEF VerifyTranscripts
<1>4. CASE Threshold
  BY <1>4, ThresholdIInv
<1>5. CASE Sum
  BY <1>5, SumIInv
<1>6. CASE \/ Enter("collect", "batch") \/ Enter("batch", "verify")
           \/ Enter("verify", "threshold") \/ Enter("sum", "done")
  BY <1>6, EnterIInv
<1>7. CASE UNCHANGED recoveryVars
  <2>1. RecoveredShareIsCommitted'
    BY <1>7, CommittedIsStable DEF recoveryVars, IInv
  <2> QED
    BY <1>7, <2>1, ChecksAreStable
    DEF recoveryVars, IInv, TypeOK, ChecksPassed, Passed, AddedInOrder
<1> QED
  BY <1>1, <1>2, <1>3, <1>4, <1>5, <1>6, <1>7 DEF RecoveryNext

\* The inductive invariant holds throughout every call.
THEOREM Inductive == RecoverySpec => []IInv
  BY InitIInv, NextIInv, PTL DEF RecoverySpec

\* The loops stay within the input, the sums within the field and the group, and no
\* dealer is added twice.
THEOREM Typing == RecoverySpec => []TypeOK
<1>1. IInv => TypeOK
  BY DEF IInv
<1> QED
  BY Inductive, <1>1, PTL

\* Whatever the input, a share is only ever summed up to the discrete logarithm of
\* the committed polynomials at the participant's identifier and of what the mask
\* commitments miss, and of the polynomials alone if the proofs handed in are
\* sound (dkg.rs:125-171).
THEOREM ShareIsCommitted == RecoverySpec => []RecoveredShareIsCommitted
<1>1. IInv => RecoveredShareIsCommitted
  BY DEF IInv
<1> QED
  BY Inductive, <1>1, PTL

----------------------------------------------------------------------------
(* All or nothing. *)

\* A share is returned for acceptable transcripts only, and refused for others only.
AllOrNothing ==
  /\ phase = "done" => AcceptableInput(input, target)
  /\ phase = "failed" => ~AcceptableInput(input, target)

\* The collecting loop looks for all that an acceptable transcript has but the
\* proof's verdict and the commitment.
LEMMA CollectedIsComplete ==
  ASSUME NEW k
  PROVE  CollectError(k) = NoError <=>
           LET t == Transcript(k) IN
           /\ FindDealer(t.dealer) # 0 /\ FindParticipant(target) # 0
           /\ FirstShare(t, target) # 0 /\ FindProof(input[k], target) # 0
           /\ Entry(k).inputs = ExpectedInputs(t)
  BY DEF CollectError, NoError

\* The three checks together are what makes a transcript good for the participant.
LEMMA CheckedIsGood ==
  ASSUME input \in Seq(Pool), NEW k \in DOMAIN input
  PROVE  GoodFor(input[k], target) <=>
           /\ CollectError(k) = NoError
           /\ VerifyProof(Entry(k).inputs, Entry(k).proof) = NoError
           /\ ValidateTranscript(VerifiedCandidate(k), target) = NoError
<1> DEFINE t == Transcript(k)
           c == VerifiedCandidate(k)
<1>1. t \in Transcripts
  BY RecoveryAssumption DEF Transcript, ProofedTranscripts
<1>2. /\ c \in Transcripts /\ c.shares = t.shares /\ c.poly = t.poly /\ c.status = "Verified"
      /\ FirstShare(c, target) = FirstShare(t, target)
  <2>1. c \in Transcripts /\ c.shares = t.shares /\ c.poly = t.poly /\ c.status = "Verified"
    BY <1>1 DEF VerifiedCandidate, Transcripts, Statuses
  <2> QED
    BY <2>1 DEF FirstShare
<1> HIDE DEF c
<1>3. FirstShare(t, target) # 0 =>
        (ValidateTranscript(c, target) = NoError <=>
           /\ IsInjective([n \in DOMAIN t.shares |-> t.shares[n].participant])
           /\ VerifyMaskedShareCommitment(t.shares[FirstShare(t, target)], t.poly))
  BY <1>2, ValidatedIsCommitted
<1>4. GoodFor(input[k], target) <=>
        /\ FindDealer(t.dealer) # 0 /\ FindParticipant(target) # 0
        /\ FirstShare(t, target) # 0 /\ FindProof(input[k], target) # 0
        /\ Entry(k).inputs = ExpectedInputs(t)
        /\ VerifyProof(Entry(k).inputs, Entry(k).proof) = NoError
        /\ IsInjective([n \in DOMAIN t.shares |-> t.shares[n].participant])
        /\ VerifyMaskedShareCommitment(t.shares[FirstShare(t, target)], t.poly)
  BY DEF GoodFor, Transcript, Entry, ExpectedInputs, Person, TargetShare
<1> QED
  BY <1>3, <1>4, CollectedIsComplete DEF c

\* What the last loop knows: enough transcripts, and no two of one dealer so far.
Counted ==
  /\ seen \in Seq(Nat)
  /\ phase \in {"collect", "batch", "verify", "threshold"} => seen = <<>>
  /\ phase \in {"sum", "done"} =>
       /\ FindParticipant(target) # 0
       /\ Len(input) >= Simulation.config.threshold
  /\ phase = "sum" =>
       /\ ToSet(seen) = {Transcript(k).dealer : k \in 1 .. (turn - 1)}
       /\ \A a, b \in 1 .. (turn - 1) : Transcript(a).dealer = Transcript(b).dealer => a = b
  /\ phase = "done" =>
       \A a, b \in DOMAIN input : Transcript(a).dealer = Transcript(b).dealer => a = b

\* Inductive together with IInv.
AInv == IInv /\ Counted /\ (phase = "failed" => ~AcceptableInput(input, target))

LEMMA AInvAnswers == AInv => AllOrNothing
<1> SUFFICES ASSUME AInv, phase = "done" PROVE AcceptableInput(input, target)
  BY DEF AInv, AllOrNothing
<1>1. \A k \in DOMAIN input : GoodFor(input[k], target)
  BY CheckedIsGood DEF AInv, IInv, TypeOK, ChecksPassed, Passed, After
<1>2. IsInjective([k \in DOMAIN input |-> input[k].transcript.dealer])
  BY DEF AInv, Counted, IsInjective, Transcript
<1> QED
  BY <1>1, <1>2 DEF AInv, Counted, AcceptableInput

\* A failing step that refuses something unacceptable.
LEMMA FailAInv ==
  ASSUME AInv, NEW e, Fail(e), ~AcceptableInput(input, target)
  PROVE  AInv'
<1>1. IInv'
  BY FailIInv DEF AInv
<1>2. Counted'
  BY DEF AInv, Counted, Fail, Transcript
<1>3. ~AcceptableInput(input, target)'
  BY DEF Fail
<1> QED
  BY <1>1, <1>2, <1>3 DEF AInv

\* A transcript that fails a check is not good, so the input is not acceptable.
LEMMA RefusedCheck ==
  ASSUME AInv, NEW k \in DOMAIN input,
         \/ CollectError(k) # NoError
         \/ VerifyProof(Entry(k).inputs, Entry(k).proof) # NoError
         \/ ValidateTranscript(VerifiedCandidate(k), target) # NoError
  PROVE  ~AcceptableInput(input, target)
  BY CheckedIsGood DEF AInv, IInv, TypeOK, AcceptableInput

LEMMA NextAInv == AInv /\ [RecoveryNext]_recoveryVars => AInv'
<1> SUFFICES ASSUME AInv, [RecoveryNext]_recoveryVars PROVE AInv'
  OBVIOUS
<1>1. IInv'
  BY NextIInv DEF AInv
<1>2. /\ input \in Seq(Pool) /\ turn \in 1 .. (Len(input) + 1)
      /\ DOMAIN input = 1 .. Len(input) /\ Len(input) \in Nat
  BY DEF AInv, IInv, TypeOK
<1>3. CASE Advance /\ phase \in {"collect", "batch", "verify"}
  BY <1>1, <1>3 DEF AInv, Counted, Advance
<1>4. CASE Collect
  <2>1. CASE Fail(CollectError(turn)) /\ CollectError(turn) # NoError
    BY <1>2, <1>4, <2>1, RefusedCheck, FailAInv DEF Collect
  <2> QED
    BY <1>3, <1>4, <2>1 DEF Collect
<1>5. CASE VerifyBatch
  <2>1. CASE Fail("BatchProof") /\ VerifyProof(Entry(turn).inputs, Entry(turn).proof) # NoError
    BY <1>2, <1>5, <2>1, RefusedCheck, FailAInv DEF VerifyBatch
  <2> QED
    BY <1>3, <1>5, <2>1 DEF VerifyBatch
<1>6. CASE VerifyTranscripts
  <2> DEFINE verdict == ValidateTranscript(VerifiedCandidate(turn), target)
  <2>1. CASE Fail(verdict) /\ verdict # NoError
    BY <1>2, <1>6, <2>1, RefusedCheck, FailAInv DEF VerifyTranscripts
  <2> QED
    BY <1>3, <1>6, <2>1 DEF VerifyTranscripts
<1>7. CASE Threshold
  <2>1. CASE Fail("UnknownParticipant") /\ FindParticipant(target) = 0
    BY <2>1, FailAInv DEF AcceptableInput
  <2>2. CASE Fail("InsufficientDealers") /\ Len(input) < Simulation.config.threshold
    <3>1. ~(Len(input) >= Simulation.config.threshold)
      BY <1>2, <2>2, RecoveryAssumption
    <3> QED
      BY <2>2, <3>1, FailAInv DEF AcceptableInput
  <2>3. CASE /\ FindParticipant(target) # 0 /\ ~(Len(input) < Simulation.config.threshold)
             /\ phase = "threshold" /\ phase' = "sum" /\ turn' = 1
             /\ UNCHANGED <<input, target, seen, value, error, keySum>>
    <3>1. Len(input) >= Simulation.config.threshold
      BY <1>2, <2>3, RecoveryAssumption
    <3>2. seen = <<>> /\ ToSet(seen) = {}
      BY <2>3 DEF AInv, Counted, ToSet
    <3>3. 1 .. (turn' - 1) = {}
      BY <2>3
    <3>4. Counted'
      BY <2>3, <3>1, <3>2, <3>3 DEF AInv, Counted
    <3> QED
      BY <1>1, <2>3, <3>4 DEF AInv
  <2> QED
    BY <1>7, <2>1, <2>2, <2>3 DEF Threshold
<1>8. CASE Sum
  <2> DEFINE t == Transcript(turn)
             dealers == {Transcript(k).dealer : k \in 1 .. (turn - 1)}
  <2>1. /\ phase = "sum" /\ turn \in DOMAIN input /\ turn \in Nat /\ turn >= 1
        /\ ToSet(seen) = dealers
        /\ \A a, b \in 1 .. (turn - 1) : Transcript(a).dealer = Transcript(b).dealer => a = b
    BY <1>2, <1>8 DEF Sum, AInv, Counted
  <2>2. t.dealer \in Nat
    BY <1>2, <2>1, RecoveryAssumption DEF Transcript, ProofedTranscripts, Transcripts
  <2>3. CASE t.dealer \in ToSet(seen) /\ Fail("DuplicateDealer")
    <3>1. PICK k \in 1 .. (turn - 1) : Transcript(k).dealer = t.dealer
      BY <2>1, <2>3
    <3>2. k \in DOMAIN input /\ k # turn
      BY <1>2, <2>1, <3>1
    <3>3. ~IsInjective([n \in DOMAIN input |-> input[n].transcript.dealer])
      BY <2>1, <3>1, <3>2 DEF IsInjective, Transcript
    <3> QED
      BY <2>3, <3>3, FailAInv DEF AcceptableInput
  <2>4. CASE /\ t.dealer \notin ToSet(seen) /\ seen' = Append(seen, t.dealer)
             /\ turn' = turn + 1 /\ UNCHANGED <<input, target, phase>>
    <3>1. seen' \in Seq(Nat) /\ ToSet(seen') = ToSet(seen) \cup {t.dealer}
      BY <2>2, <2>4, SMTT(30) DEF AInv, Counted, ToSet
    <3>2. turn' - 1 = turn /\ 1 .. turn = (1 .. (turn - 1)) \cup {turn}
      <4>1. turn \in Nat /\ turn >= 1 /\ turn' = turn + 1
        BY <2>1, <2>4
      <4> QED
        BY <4>1, OneMore
    <3>3. \A k : Transcript(k)' = Transcript(k)
      BY <2>4 DEF Transcript
    <3>4. ToSet(seen') = {Transcript(k)'.dealer : k \in 1 .. (turn' - 1)}
      BY <2>1, <3>1, <3>2, <3>3
    <3>5. \A a, b \in 1 .. (turn' - 1) : Transcript(a).dealer = Transcript(b).dealer => a = b
      BY <2>1, <2>4, <3>2
    <3>6. Counted'
      BY <2>1, <2>4, <3>1, <3>3, <3>4, <3>5 DEF AInv, Counted
    <3> QED
      BY <1>1, <2>1, <2>4, <3>6 DEF AInv
  <2> QED
    BY <1>8, <2>3, <2>4 DEF Sum
<1>9. CASE Enter("collect", "batch") \/ Enter("batch", "verify") \/ Enter("verify", "threshold")
  BY <1>1, <1>9 DEF AInv, Counted, Enter
<1>10. CASE Enter("sum", "done")
  <2>1. turn - 1 = Len(input)
    BY <1>2, <1>10 DEF Enter
  <2>2. Counted'
    BY <1>2, <1>10, <2>1 DEF AInv, Counted, Enter, Transcript
  <2> QED
    BY <1>1, <1>10, <2>2 DEF AInv, Enter
<1>11. CASE UNCHANGED recoveryVars
  BY <1>1, <1>11 DEF AInv, Counted, Transcript, recoveryVars
<1> QED
  BY <1>4, <1>5, <1>6, <1>7, <1>8, <1>9, <1>10, <1>11 DEF RecoveryNext

\* Recovery is all or nothing: no order of the checks and no early return lets an
\* unacceptable set of transcripts through or refuses an acceptable one
\* (dkg.rs:125-171, 225-291).
THEOREM RecoveryAllOrNothing == RecoverySpec => []AllOrNothing
<1>1. RecoveryInit => AInv
  <2> SUFFICES ASSUME RecoveryInit PROVE AInv
    OBVIOUS
  <2>1. Counted
    BY DEF RecoveryInit, Counted
  <2> QED
    BY <2>1, InitIInv DEF RecoveryInit, AInv
<1> QED
  BY <1>1, NextAInv, AInvAnswers, PTL DEF RecoverySpec

----------------------------------------------------------------------------
(* The refinement. *)

LEMMA FindDealerFound ==
  ASSUME NEW id, FindDealer(id) # 0
  PROVE  FindDealer(id) \in DOMAIN Simulation.dealers
<1> DEFINE S == {k \in 1 .. Len(Simulation.dealers) : Simulation.dealers[k].id = id}
<1>1. S \in SUBSET Nat /\ FindDealer(id) = IF S # {} THEN Min(S) ELSE 0
  BY DEF FindDealer, SelectInSeq
<1>2. Min(S) \in S
  BY <1>1, LeastElement
<1>3. DOMAIN Simulation.dealers = 1 .. Len(Simulation.dealers)
  BY RecoveryAssumption
<1> QED
  BY <1>1, <1>2, <1>3

\* What the abstract specification makes of transcript k: the masked share less the
\* mask of the dealer's proof.
Term(k) ==
  LET t == Transcript(k) IN
  Sub(TargetShare(t).value,
      DealerWitness(ExpectedInputs(t), Simulation.dealers[FindDealer(t.dealer)], Person).mask)

\* What the first n transcripts give.
PartialSum(n) == SumOf([k \in 1 .. n |-> Term(k)])

\* How many transcripts have been added up.
Added(n) ==
  \/ phase \in {"collect", "batch", "verify", "threshold"} /\ n = 0
  \/ phase = "sum" /\ n = turn - 1
  \/ phase = "done" /\ n = Len(input)

Summed == \A n \in Nat : Added(n) => value = PartialSum(n)

RInv == AInv /\ Summed

LEMMA SumIsShareOfInput ==
  ASSUME input \in Seq(Pool)
  PROVE  ShareOfInput(input, target) = PartialSum(Len(input))
<1>1. ShareOfInput(input, target) = SumOf([k \in DOMAIN input |-> Term(k)])
  BY DEF ShareOfInput, Term, Transcript, TargetShare, ExpectedInputs, Person
<1> QED
  BY <1>1 DEF PartialSum

\* The participant subtracts the mask that the dealer's proof is about.
LEMMA TermIsUnmasked ==
  ASSUME AInv, phase = "sum", NEW k \in DOMAIN input
  PROVE  LET t == Transcript(k) IN
         /\ Term(k) = RecoverShare(TargetShare(t).value,
                                   ProofedMask(ExpectedInputs(t), Person))
         /\ Term(k) \in Int
<1> DEFINE t == Transcript(k)
           dealer == Simulation.dealers[FindDealer(t.dealer)]
           inputs == ExpectedInputs(t)
<1>1. /\ CollectError(k) = NoError
      /\ VerifyProof(Entry(k).inputs, Entry(k).proof) = NoError
      /\ ValidateTranscript(VerifiedCandidate(k), target) = NoError
      /\ input \in Seq(Pool) /\ target \in Targets
  BY DEF AInv, IInv, TypeOK, ChecksPassed, Passed, After
<1>2. RecoverShare(TargetShare(t).value, ProofedMask(inputs, Person)) \in Scalars
  BY <1>1, UnmaskedTerm
<1>3. FindDealer(t.dealer) # 0 /\ FindParticipant(target) # 0
  BY <1>1, CollectedIsComplete
<1>4. dealer.secret \in 0 .. (Q - 1)
  <2>1. FindDealer(t.dealer) \in DOMAIN Simulation.dealers
    BY <1>3, FindDealerFound
  <2> DEFINE Dealers == [id : Nat, secret : 0 .. (Q - 1), coefficients : Seq(Scalars)]
  <2>2. dealer \in Dealers
    BY <2>1, RecoveryAssumption, ElementType
  <2> QED
    BY <2>2
<1>5. Person.secret \in 0 .. (Q - 1)
  <2>1. FindParticipant(target) \in DOMAIN Simulation.participants
    BY <1>3, FindParticipantFound
  <2> DEFINE People == [id : Nat, secret : 0 .. (Q - 1)]
  <2>2. Person \in People
    BY <2>1, RecoveryAssumption, ElementType DEF Person
  <2> QED
    BY <2>2
<1>6. inputs.dealerPublic = HelperPublic(dealer.secret)
  BY DEF ExpectedInputs, ProofPublicInputs
<1>7. DealerWitness(inputs, dealer, Person).mask = ProofedMask(inputs, Person)
  BY <1>4, <1>5, <1>6, SharedPointAgrees DEF DealerWitness, ProofedMask
<1> QED
  BY <1>2, <1>7, ResiduesAreIntegers DEF Term, RecoverShare

LEMMA SumIsStable ==
  ASSUME UNCHANGED <<input, target>>, NEW n
  PROVE  PartialSum(n)' = PartialSum(n)
  BY DEF PartialSum, Term, Transcript, ExpectedInputs, TargetShare, Person

LEMMA SumSummed ==
  ASSUME RInv, Sum
  PROVE  Summed'
<1> DEFINE t == Transcript(turn)
           old == [k \in 1 .. (turn - 1) |-> Term(k)]
           new == [k \in 1 .. turn |-> Term(k)]
<1>1. CASE Fail("DuplicateDealer")
  BY <1>1 DEF Fail, Summed, Added
<1>2. CASE ~Fail("DuplicateDealer")
  <2>1. /\ phase = "sum" /\ phase' = "sum" /\ turn' = turn + 1 /\ turn <= Len(input)
        /\ UNCHANGED <<input, target>>
        /\ value' = Add(value, RecoverShare(TargetShare(t).value,
                                            ProofedMask(ExpectedInputs(t), Person)))
    BY <1>2 DEF Sum
  <2>2. /\ turn \in DOMAIN input /\ turn \in Nat /\ \A k \in 1 .. turn : k \in DOMAIN input
        /\ turn - 1 \in Nat /\ turn' - 1 = turn
    BY <2>1 DEF RInv, AInv, IInv, TypeOK
  <2>3. /\ Term(turn) = RecoverShare(TargetShare(t).value,
                                  ProofedMask(ExpectedInputs(t), Person))
        /\ \A k \in 1 .. turn : Term(k) \in Int
    BY <2>1, <2>2, TermIsUnmasked DEF RInv
  <2>4. old \in Seq(Int) /\ Len(old) = turn - 1
    BY <2>2, <2>3
  <2>5. new = Append(old, Term(turn))
    BY <2>2, <2>4
  <2>6. value = PartialSum(turn - 1)
    BY <2>1, <2>2 DEF RInv, Summed, Added
  <2>7. PartialSum(turn - 1) = SumOf(old) /\ PartialSum(turn) = SumOf(new) /\ Term(turn) \in Int
    BY <2>2, <2>3 DEF PartialSum
  <2> HIDE DEF old, new
  <2>8. SumOf(new) = Add(SumOf(old), Term(turn))
    BY <2>4, <2>5, <2>7, SumAppend
  <2>9. value' = PartialSum(turn)
    BY <2>1, <2>3, <2>6, <2>7, <2>8
  <2> QED
    BY <2>1, <2>2, <2>9, SumIsStable DEF Summed, Added
<1> QED
  BY <1>1, <1>2

\* The steps that add nothing.
AddsNothing ==
  /\ UNCHANGED <<input, target, value>>
  /\ \A n \in Nat : Added(n)' => Added(n)

LEMMA NothingAdded ==
  ASSUME Summed, AddsNothing
  PROVE  Summed'
<1> SUFFICES ASSUME NEW n \in Nat, Added(n)' PROVE value' = PartialSum(n)'
  BY DEF Summed
<1>1. value = PartialSum(n)
  BY DEF Summed, AddsNothing
<1> QED
  BY <1>1, SumIsStable DEF AddsNothing

LEMMA NextRInv == RInv /\ [RecoveryNext]_recoveryVars => RInv'
<1> SUFFICES ASSUME RInv, [RecoveryNext]_recoveryVars PROVE Summed'
  BY NextAInv DEF RInv
<1>1. DOMAIN input = 1 .. Len(input) /\ Len(input) \in Nat /\ turn \in Nat
  BY DEF RInv, AInv, IInv, TypeOK
<1>2. CASE Sum
  BY <1>2, SumSummed
<1>3. ASSUME NEW e, Fail(e) PROVE AddsNothing
  BY <1>3 DEF AddsNothing, Added, Fail
<1>4. ASSUME Advance, phase # "sum" PROVE AddsNothing
  BY <1>4 DEF AddsNothing, Added, Advance
<1>5. ASSUME NEW from \in {"collect", "batch", "verify"},
             NEW to \in {"batch", "verify", "threshold"}, Enter(from, to)
      PROVE  AddsNothing
  <2>1. /\ phase \in {"collect", "batch", "verify", "threshold"}
        /\ phase' \in {"collect", "batch", "verify", "threshold"}
        /\ UNCHANGED <<input, target, value>>
    BY <1>5 DEF Enter
  <2> QED
    BY <2>1 DEF AddsNothing, Added
<1>9. ASSUME Enter("sum", "done") PROVE AddsNothing
  <2>1. /\ phase = "sum" /\ phase' = "done" /\ turn = Len(input) + 1
        /\ UNCHANGED <<input, target, value>>
    BY <1>9 DEF Enter
  <2>2. Len(input) = turn - 1
    BY <1>1, <2>1
  <2>3. ASSUME NEW n \in Nat, Added(n)' PROVE Added(n)
    <3>1. n = Len(input)
      BY <2>1, <2>3 DEF Added
    <3> QED
      BY <2>1, <2>2, <3>1 DEF Added
  <2> QED
    BY <2>1, <2>3 DEF AddsNothing
<1>6. ASSUME Threshold PROVE AddsNothing
  <2>1. CASE \E e : Fail(e)
    BY <1>3, <2>1
  <2>2. CASE /\ phase = "threshold" /\ phase' = "sum" /\ turn' = 1
             /\ UNCHANGED <<input, target, value>>
    BY <2>2 DEF AddsNothing, Added
  <2> QED
    BY <1>6, <2>1, <2>2 DEF Threshold
<1>7. ASSUME UNCHANGED recoveryVars PROVE AddsNothing
  BY <1>7 DEF AddsNothing, Added, recoveryVars
<1>8. CASE ~Sum
  <2>1. AddsNothing
    BY <1>3, <1>4, <1>5, <1>6, <1>7, <1>8, <1>9 DEF RecoveryNext, Collect, VerifyBatch, VerifyTranscripts
  <2> QED
    BY <2>1, NothingAdded DEF RInv
<1> QED
  BY <1>2, <1>8

\* Every step is an answer of the abstract specification or none at all.
LEMMA StepRefines ==
  ASSUME RInv, RInv', AllOrNothing', [RecoveryNext]_recoveryVars
  PROVE  [Recovery!Answer]_(Recovery!vars)
<1>1. CASE phase' = phase
  BY <1>1
  DEF RecoveryNext, Collect, VerifyBatch, VerifyTranscripts, Threshold, Sum, Enter, Fail,
      Advance, recoveryVars,
      Recovery!vars
<1>2. CASE phase' # phase
  <2>1. phase \notin {"done", "failed"} /\ UNCHANGED <<input, target>>
    BY <1>2
    DEF RecoveryNext, Collect, VerifyBatch, VerifyTranscripts, Threshold, Sum, Enter, Fail,
      Advance, recoveryVars
  <2>2. CASE phase' = "failed"
    <3>1. ~AcceptableInput(input, target)
      BY <2>1, <2>2 DEF RInv, AInv
    <3> QED
      BY <2>1, <2>2, <3>1 DEF Recovery!Answer, Recovery!Pending, Recovery!Refused
  <2>3. CASE phase' = "done"
    <3>1. AcceptableInput(input, target)
      BY <2>1, <2>3 DEF AllOrNothing
    <3>2. input \in Seq(Pool) /\ Len(input) \in Nat
      BY DEF RInv, AInv, IInv, TypeOK
    <3> PICK n \in Nat : n = Len(input)
      BY <3>2
    <3>3. value' = PartialSum(n)
      <4>1. Added(n)'
        BY <2>1, <2>3 DEF Added
      <4> QED
        BY <2>1, <4>1, SumIsStable DEF RInv, Summed
    <3>4. value' = ShareOfInput(input, target)
      BY <3>2, <3>3, SumIsShareOfInput
    <3> QED
      BY <2>1, <2>3, <3>1, <3>4 DEF Recovery!Answer, Recovery!Pending, Recovery!Share
  <2>4. CASE phase' \notin {"done", "failed"}
    BY <2>1, <2>4 DEF Recovery!vars
  <2> QED
    BY <2>2, <2>3, <2>4
<1> QED
  BY <1>1, <1>2

\* Whatever the order of the transcripts and of the checks, recovery answers at
\* once, as the abstract specification does: with the sum over all of them, or not.
THEOREM Refinement == RecoverySpec => ImplementsShareRecovery
<1>1. RecoveryInit => RInv
  <2> SUFFICES ASSUME RecoveryInit PROVE RInv
    OBVIOUS
  <2>1. AInv
    BY InitIInv DEF RecoveryInit, AInv, Counted
  <2>2. PartialSum(0) = 0
    <3>1. [k \in 1 .. 0 |-> Term(k)] = <<>>
      OBVIOUS
    <3> QED
      BY <3>1, SumEmpty DEF PartialSum
  <2> QED
    BY <2>1, <2>2 DEF RecoveryInit, RInv, Summed, Added
<1>2. RecoveryInit => Recovery!Init
  BY DEF RecoveryInit, Recovery!Init, Recovery!Pending
<1>3. RInv => AllOrNothing
  BY AInvAnswers DEF RInv
<1> QED
  BY <1>1, <1>2, <1>3, NextRInv, StepRefines, PTL
  DEF RecoverySpec, ImplementsShareRecovery, Recovery!Spec

=============================================================================
