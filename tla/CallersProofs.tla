---------------------------- MODULE CallersProofs ----------------------------
(***************************************************************************)
(* Proofs about the callers of the library: FrostAdapter, for every parity *)
(* of the points that negation flips and any number of participants;       *)
(* VerifiedAggregation, for every set of transcripts and any number held;  *)
(* ProofedSession, for every fixture and any number of changes.            *)
(***************************************************************************)
EXTENDS FrostAdapter, VerifiedAggregation, ProofedSession, ProtocolTheorems

----------------------------------------------------------------------------
(* FrostAdapter: packages *)

\* Of a point and its negation at most one is odd,
LEMMA NegatedParity ==
  ASSUME NEW p \in Points, p \in OddPoints
  PROVE  Negate(p) \notin OddPoints
<1>1. p \in 1 .. (P - 1) /\ P - p \notin OddPoints
  BY ParityAssumption
<1>2. Negate(p) = P - p
  BY <1>1, NegateResidue, ResiduesAreIntegers
<1> QED
  BY <1>1, <1>2

\* so normalization yields a verification share with an even y, and it is the one
\* of the signing share (lib.rs:69-94).
LEMMA NormalizedIsEven ==
  ASSUME NEW s \in Scalars
  PROVE  LET n == NormalizedSigningShare(s) IN
         /\ n.signing \in Scalars
         /\ n.verifying = GeneratorMul(n.signing)
         /\ n.verifying \notin OddPoints
<1> DEFINE n == NormalizedSigningShare(s)
           v == GeneratorMul(s)
<1>1. s \in Int /\ v \in Points /\ Negate(s) \in Scalars /\ Negate(s) \in Int
  BY Closure, ResiduesAreIntegers
<1>2. n.verifying = GeneratorMul(n.signing)
  BY DEF NormalizedSigningShare, VerifyingShareFromSigningShare
<1>3. CASE v \in OddPoints
  <2>1. n.signing = Negate(s)
    BY <1>3 DEF NormalizedSigningShare, VerifyingShareFromSigningShare, EvenYAction, YParity
  <2>2. GeneratorMul(Negate(s)) = Negate(v)
    BY <1>1, GeneratorMulNegate
  <2> QED
    BY <1>1, <1>2, <1>3, <2>1, <2>2, NegatedParity
<1>4. CASE v \notin OddPoints
  <2>1. n.signing = s
    BY <1>4 DEF NormalizedSigningShare, VerifyingShareFromSigningShare, EvenYAction, YParity
  <2> QED
    BY <1>2, <1>4, <2>1
<1> QED
  BY <1>3, <1>4

\* The identifiers are few, and are their own field elements.
LEMMA Identifiers ==
  /\ IsFiniteSet(Ids) /\ MinSigners \in Nat \ {0}
  /\ \A id \in Ids : id \in Nat /\ id \in Scalars /\ FromU64(id) = id
<1>1. IsFiniteSet(1 .. (P - 1))
  BY FS_Interval, FieldAssumption
<1>2. IsFiniteSet(Ids)
  BY <1>1, IdsAssumption, FS_Subset
<1>3. Cardinality(Ids) \in Nat /\ MinSigners \in 1 .. Cardinality(Ids)
  BY <1>2, IdsAssumption, FS_CardinalityType
<1>4. \A id \in Ids : id \in Nat /\ id \in Scalars
  BY IdsAssumption, ResiduesAreIntegers
<1>5. \A id \in Ids : FromU64(id) = id
  BY <1>4, RemainderOfResidue, ResiduesAreIntegers DEF FromU64
<1> QED
  BY <1>2, <1>3, <1>4, <1>5

LEMMA InitIInv == Init => IInv
<1> SUFFICES ASSUME Init PROVE IInv
  OBVIOUS
<1>1. PICK coefficients \in [1 .. MinSigners -> Scalars] :
        share = [id \in Ids |-> Evaluate(coefficients, FromU64(id))]
  BY DEF Init
<1>2. coefficients \in Seq(Int)
  <2>2. MinSigners \in Nat
    BY Identifiers
  <2>3. /\ coefficients = [k \in 1 .. MinSigners |-> coefficients[k]]
        /\ \A k \in 1 .. MinSigners : coefficients[k] \in Int
    BY ResiduesAreIntegers
  <2> QED
    BY <2>2, <2>3
<1>3. ASSUME NEW id \in Ids PROVE Evaluate(coefficients, FromU64(id)) \in Scalars
  <2>1. FromU64(id) \in Int
    BY Identifiers
  <2> QED
    BY <1>2, <2>1, EvaluateType
<1> QED
  BY <1>1, <1>3 DEF Init, IInv, TypeOK, PackagesAreEven, Adapted, NoPackage

LEMMA NextIInv == IInv /\ [Next]_vars => IInv'
<1> SUFFICES ASSUME IInv, [Next]_vars PROVE IInv'
  OBVIOUS
<1> USE DEF IInv
<1>1. ASSUME NEW id \in Ids, Adapt(id)
      PROVE  IInv'
  <2> DEFINE n == NormalizedSigningShare(share[id])
             new == KeyPackageFromGoldenShare(id, share[id], groupPublic)
  <2>1. share[id] \in Scalars /\ share' = share
    BY <1>1 DEF TypeOK, Adapt
  <2>2. /\ new.signing \in Scalars
        /\ new.verifying = GeneratorMul(new.signing)
        /\ new.verifying \notin OddPoints
    BY <2>1, NormalizedIsEven DEF KeyPackageFromGoldenShare
  <2>3. package' = [package EXCEPT ![id] = new]
    BY <1>1 DEF Adapt
  <2> HIDE DEF new
  <2>4. TypeOK'
    BY <2>1, <2>3 DEF TypeOK
  <2>5. PackagesAreEven'
    BY <2>2, <2>3 DEF PackagesAreEven, Adapted, TypeOK
  <2> QED
    BY <2>4, <2>5
<1>2. CASE UNCHANGED vars
  BY <1>2 DEF vars, TypeOK, PackagesAreEven, Adapted
<1> QED
  BY <1>1, <1>2 DEF Next

\* Every key package ever made has an even verification share that belongs to its
\* signing share.
THEOREM EvenPackages == Spec => []PackagesAreEven
<1>1. IInv => PackagesAreEven
  BY DEF IInv
<1> QED
  BY InitIInv, NextIInv, <1>1, PTL DEF Spec

----------------------------------------------------------------------------
(* FrostAdapter: quorums *)

\* The coefficients of the key.
Polynomials == [1 .. MinSigners -> Scalars]

DealtWith(c) ==
  /\ share = [id \in Ids |-> Evaluate(c, FromU64(id))]
  /\ groupPublic = GeneratorMul(Head(c))

\* The shares are those of one polynomial throughout, and a package is made of its
\* participant's share.
QInv ==
  /\ \E c \in Polynomials : DealtWith(c)
  /\ DOMAIN package = Ids
  /\ \A id \in Ids :
       package[id] \in {NoPackage, KeyPackageFromGoldenShare(id, share[id], groupPublic)}

LEMMA QInvAlways == Spec => []QInv
<1>1. Init => QInv
  BY DEF Init, QInv, Polynomials, DealtWith
<1>2. QInv /\ [Next]_vars => QInv'
  <2> SUFFICES ASSUME QInv, [Next]_vars PROVE QInv'
    OBVIOUS
  <2>1. ASSUME NEW id \in Ids, Adapt(id) PROVE QInv'
    <3>1. share' = share /\ groupPublic' = groupPublic
          /\ package' = [package EXCEPT ![id] =
                           KeyPackageFromGoldenShare(id, share[id], groupPublic)]
      BY <2>1 DEF Adapt
    <3> QED
      BY <3>1 DEF QInv, DealtWith
  <2>2. CASE UNCHANGED vars
    BY <2>2 DEF vars, QInv, DealtWith
  <2> QED
    BY <2>1, <2>2 DEF Next
<1> QED
  BY <1>1, <1>2, PTL DEF Spec

LEMMA PolynomialType ==
  ASSUME NEW c \in Polynomials
  PROVE  /\ c \in Seq(Int) /\ Len(c) = MinSigners /\ c # <<>>
         /\ Head(c) \in Scalars /\ Head(c) = c[1] /\ Evaluate(c, 0) = Head(c)
<1>1. MinSigners \in Nat \ {0}
  BY Identifiers
<1>2. /\ c = [k \in 1 .. MinSigners |-> c[k]]
      /\ \A k \in 1 .. MinSigners : c[k] \in Scalars /\ c[k] \in Int
  BY ResiduesAreIntegers DEF Polynomials
<1>3. c \in Seq(Int) /\ Len(c) = MinSigners /\ c # <<>> /\ 1 \in 1 .. MinSigners
  BY <1>1, <1>2
<1>4. Head(c) = c[1] /\ c[1] \in Scalars
  BY <1>2, <1>3
<1>5. Evaluate(c, 0) = c[1]
  BY <1>3, <1>4, EvaluateAtZero, RemainderOfResidue, ResiduesAreIntegers
<1> QED
  BY <1>3, <1>4, <1>5

\* Values that are all negated interpolate to the negated value.
LEMMA NegatedWeighted ==
  ASSUME NEW x, DistinctPoints(x), NEW y, NEW z,
         \A j \in DOMAIN x : y[j] \in Scalars /\ z[j] = Negate(y[j])
  PROVE  SumOf(Weighted(z, x, DOMAIN x)) = Negate(SumOf(Weighted(y, x, DOMAIN x)))
<1> DEFINE D == DOMAIN x
           A == Weighted(z, x, D)
           B == Weighted(y, x, D)
           m == Negate(1)
<1>1. m \in Scalars /\ 1 \in Scalars /\ 0 \in Scalars
  <2>1. 1 \in Scalars /\ 0 \in Scalars
    BY ResiduesAreIntegers
  <2>2. Negate(1) \in Scalars
    BY <2>1, ScalarRules
  <2> QED
    BY <2>1, <2>2
<1>2. ASSUME NEW v \in Scalars PROVE Negate(v) = Mul(m, v) /\ Negate(v) \in Scalars
  <2>1. Add(v, Negate(v)) = 0 /\ Negate(v) \in Scalars
    BY SubZero, ScalarRules
  <2>2. Add(1, m) = 0
    BY <1>1, SubZero
  <2>3. Mul(Add(1, m), v) = Add(Mul(1, v), Mul(m, v))
    BY <1>1, ScalarTriple
  <2>4. Mul(1, v) = v /\ Mul(0, v) = 0 /\ Mul(m, v) \in Scalars
    BY <1>1, ScalarRules
  <2>5. Add(v, Mul(m, v)) = 0
    BY <2>2, <2>3, <2>4
  <2>6. Add(Mul(m, v), v) = Add(Negate(v), v)
    BY <2>1, <2>4, <2>5, ScalarRules
  <2>7. Mul(m, v) = Negate(v)
    BY <2>1, <2>4, <2>6, AddCancel
  <2> QED
    BY <2>1, <2>7
<1>3. \A j \in D : z[j] \in Scalars /\ z[j] = Mul(m, y[j]) /\ y[j] \in Scalars
  BY <1>2
<1> HIDE DEF m
<1>4. /\ A \in Seq(Scalars) /\ DOMAIN A = D /\ SumOf(A) \in Scalars
      /\ \A j \in D : A[j] = Mul(z[j], Weight(x, D, j))
  BY <1>3, WeightedType
<1>5. /\ B \in Seq(Scalars) /\ DOMAIN B = D /\ SumOf(B) \in Scalars
      /\ \A j \in D : B[j] = Mul(y[j], Weight(x, D, j))
  BY <1>3, WeightedType
<1>6. \A j \in D : Weight(x, D, j) \in Scalars
  BY WeightType
<1> HIDE DEF A, B
<1>7. ASSUME NEW j \in D PROVE Mul(1, A[j]) = Add(Mul(m, B[j]), Mul(0, B[j]))
  <2> DEFINE w == Weight(x, D, j)
  <2>1. w \in Scalars /\ A[j] = Mul(Mul(m, y[j]), w) /\ B[j] = Mul(y[j], w) /\ y[j] \in Scalars
        /\ B[j] \in Scalars /\ A[j] \in Scalars
    BY <1>3, <1>4, <1>5, <1>6, ElementType
  <2> HIDE DEF w
  <2>2. Mul(Mul(m, y[j]), w) = Mul(m, Mul(y[j], w))
    BY <1>1, <2>1, ScalarTriple
  <2>3. Mul(0, B[j]) = 0 /\ Mul(1, A[j]) = A[j] /\ Mul(m, B[j]) \in Scalars
    BY <1>1, <2>1, ScalarRules
  <2>4. Add(Mul(m, B[j]), 0) = Mul(m, B[j])
    BY <2>3, AddZero
  <2> QED
    BY <2>1, <2>2, <2>3, <2>4
<1>8. Linear(1, A, m, B, 0, B)
  BY <1>1, <1>4, <1>5, <1>7 DEF Linear
<1>9. Mul(1, SumOf(A)) = Add(Mul(m, SumOf(B)), Mul(0, SumOf(B)))
  BY <1>4, <1>5, <1>8, LinearSums
<1>10. Mul(1, SumOf(A)) = SumOf(A) /\ Mul(0, SumOf(B)) = 0 /\ Mul(m, SumOf(B)) \in Scalars
  BY <1>1, <1>4, <1>5, ScalarRules
<1>11. SumOf(A) = Mul(m, SumOf(B))
  BY <1>9, <1>10, AddZero
<1> QED
  BY <1>2, <1>5, <1>11 DEF A, B

LEMMA PackageContents ==
  ASSUME QInv, NEW id \in Adapted
  PROVE  /\ id \in Ids
         /\ package[id].identifier = FromU64(id)
         /\ package[id].action = "Keep" => package[id].signing = share[id]
         /\ package[id].action = "Negate" => package[id].signing = Negate(share[id])
<1> DEFINE n == NormalizedSigningShare(share[id])
<1>1. id \in Ids /\ package[id] = KeyPackageFromGoldenShare(id, share[id], groupPublic)
  BY DEF Adapted, QInv
<1>2. /\ n.action = "Keep" => n.signing = share[id]
      /\ n.action = "Negate" => n.signing = Negate(share[id])
  BY DEF NormalizedSigningShare
<1>3. /\ package[id].identifier = FromU64(id) /\ package[id].action = n.action
      /\ package[id].signing = n.signing
  BY <1>1 DEF KeyPackageFromGoldenShare
<1> QED
  BY <1>1, <1>2, <1>3

\* The points of a quorum, and the values the key's polynomial takes at them.
LEMMA QuorumPoints ==
  ASSUME QInv, NEW c \in Polynomials, DealtWith(c), NEW S \in Quorums
  PROVE  LET x == [k \in DOMAIN SetToSeq(S) |-> package[SetToSeq(S)[k]].identifier] IN
         /\ DistinctPoints(x) /\ x # <<>>
         /\ \A k \in DOMAIN x : /\ SetToSeq(S)[k] \in S
                                /\ share[SetToSeq(S)[k]] = Evaluate(c, x[k])
         /\ SumOf(Weighted(ValuesAt(c, x), x, DOMAIN x)) = Head(c)
<1> DEFINE ids == SetToSeq(S)
           x == [k \in DOMAIN ids |-> package[ids[k]].identifier]
<1>1. S \in SUBSET Adapted /\ Cardinality(S) = MinSigners /\ IsFiniteSet(S)
  <2>1. S \in SUBSET Adapted /\ Cardinality(S) = MinSigners
    BY DEF Quorums
  <2>2. S \in SUBSET Ids
    BY <2>1 DEF Adapted
  <2> QED
    BY <2>1, <2>2, Identifiers, FS_Subset
<1>2. /\ DOMAIN ids = 1 .. MinSigners /\ MinSigners \in Nat \ {0}
      /\ \A k \in DOMAIN ids : ids[k] \in S
      /\ \A j, k \in DOMAIN ids : ids[j] = ids[k] => j = k
  BY <1>1, SetAsSequence, Identifiers
<1> HIDE DEF ids
<1>3. \A k \in DOMAIN ids : /\ ids[k] \in Ids /\ ids[k] \in Scalars
                            /\ package[ids[k]].identifier = ids[k]
  BY <1>1, <1>2, PackageContents, Identifiers
<1>4. DOMAIN x = DOMAIN ids /\ \A k \in DOMAIN ids : x[k] = ids[k] /\ x[k] \in Scalars
  BY <1>3
<1>5. x \in Seq(Scalars) /\ x # <<>>
  <2>1. x = [k \in 1 .. MinSigners |-> x[k]]
    BY <1>2
  <2> HIDE DEF x
  <2> QED
    BY <1>2, <1>4, <2>1
<1> HIDE DEF x
<1>6. DistinctPoints(x)
  BY <1>2, <1>4, <1>5 DEF DistinctPoints
<1>7. \A k \in DOMAIN ids : share[ids[k]] = Evaluate(c, x[k])
  <2>1. \A k \in DOMAIN ids : share[ids[k]] = Evaluate(c, FromU64(ids[k]))
    BY <1>3 DEF DealtWith
  <2>2. \A k \in DOMAIN ids : FromU64(ids[k]) = x[k]
    BY <1>3, <1>4, Identifiers
  <2> QED
    BY <2>1, <2>2
<1>8. Cardinality(DOMAIN x) = MinSigners
  <2>1. 1 <= MinSigners /\ 1 \in Int /\ MinSigners \in Int
    BY <1>2
  <2>2. Cardinality(1 .. MinSigners) = MinSigners
    BY <2>1, <1>2, FS_Interval
  <2> QED
    BY <1>2, <1>4, <2>2
<1>9. SumOf(Weighted(ValuesAt(c, x), x, DOMAIN x)) = Head(c)
  <2>1. c \in Seq(Int) /\ Len(c) <= Cardinality(DOMAIN x) /\ Evaluate(c, 0) = Head(c)
    BY <1>2, <1>8, PolynomialType
  <2> QED
    BY <1>6, <2>1, Interpolation
<1> QED
  BY <1>2, <1>4, <1>5, <1>6, <1>7, <1>9 DEF x, ids

\* Signers that all kept their shares, or all negated them, sign for the group key
\* or for its negation, whichever threshold of them it is.
THEOREM UniformQuorums == Spec => []UniformQuorumSigns
<1>1. QInv => UniformQuorumSigns
  <2> SUFFICES ASSUME QInv, NEW S \in Quorums
               PROVE  /\ (\A id \in S : package[id].action = "Keep") =>
                           SigningKey(S) = {groupPublic}
                      /\ (\A id \in S : package[id].action = "Negate") =>
                           SigningKey(S) = {Negate(groupPublic)}
    BY DEF UniformQuorumSigns
  <2>1. PICK c \in Polynomials : DealtWith(c)
    BY DEF QInv
  <2> DEFINE ids == SetToSeq(S)
             x == [k \in DOMAIN ids |-> package[ids[k]].identifier]
             z == [k \in DOMAIN ids |-> package[ids[k]].signing]
             y == ValuesAt(c, x)
             s == [k \in DOMAIN ids |-> <<package[ids[k]].identifier, package[ids[k]].signing>>]
             v == SumOf(Weighted(z, x, DOMAIN x))
  <2>2. /\ DistinctPoints(x) /\ x # <<>> /\ DOMAIN x = DOMAIN ids
        /\ \A k \in DOMAIN ids : ids[k] \in S /\ share[ids[k]] = Evaluate(c, x[k])
        /\ SumOf(Weighted(y, x, DOMAIN x)) = Head(c)
    <3> HIDE DEF y
    <3> QED
      BY <2>1, QuorumPoints DEF y
  <2>3. S \in SUBSET Adapted
    BY DEF Quorums
  <2>4. \A k \in DOMAIN ids : s[k] = <<x[k], z[k]>> /\ z[k] = package[ids[k]].signing
    OBVIOUS
  <2>5. DOMAIN s = DOMAIN x /\ DOMAIN z = DOMAIN x
    OBVIOUS
  <2>6. SigningKey(S) = {GeneratorMul(a) : a \in InterpolateAtZero(s)}
    BY DEF SigningKey
  <2> HIDE DEF ids, x, z, s
  <2>7. \A k \in DOMAIN ids : y[k] \in Scalars /\ y[k] = Evaluate(c, x[k])
    <3>1. c \in Seq(Int)
      BY PolynomialType
    <3> QED
      BY <2>2, <3>1, ValuesType
  <2>8. ASSUME \A k \in DOMAIN ids : z[k] \in Scalars
        PROVE  SigningKey(S) = {GeneratorMul(v)}
    <3>1. Samples(s, x, z)
      BY <2>2, <2>4, <2>5, <2>8 DEF Samples
    <3>2. InterpolateAtZero(s) = {v}
      BY <2>2, <3>1, InterpolatedSamples
    <3> HIDE DEF v
    <3> QED
      BY <2>6, <3>2
  <2>9. Head(c) \in Int /\ groupPublic = GeneratorMul(Head(c))
    BY <2>1, PolynomialType, ResiduesAreIntegers DEF DealtWith
  <2>10. ASSUME \A id \in S : package[id].action = "Keep" PROVE SigningKey(S) = {groupPublic}
    <3>1. \A k \in DOMAIN ids : z[k] = y[k]
      BY <2>2, <2>3, <2>4, <2>7, <2>10, PackageContents
    <3>2. Weighted(z, x, DOMAIN x) = Weighted(y, x, DOMAIN x)
      BY <2>2, <3>1 DEF Weighted
    <3> QED
      BY <2>2, <2>7, <2>8, <2>9, <3>1, <3>2
  <2>11. ASSUME \A id \in S : package[id].action = "Negate"
         PROVE  SigningKey(S) = {Negate(groupPublic)}
    <3>1. \A k \in DOMAIN ids : z[k] = Negate(y[k]) /\ z[k] \in Scalars
      <4>1. \A k \in DOMAIN ids : z[k] = Negate(y[k])
        BY <2>2, <2>3, <2>4, <2>7, <2>11, PackageContents
      <4> HIDE DEF y
      <4> QED
        BY <2>7, <4>1, ScalarRules
    <3>2. v = Negate(Head(c))
      <4> HIDE DEF y
      <4> QED
        BY <2>2, <2>7, <3>1, NegatedWeighted
    <3>3. GeneratorMul(Negate(Head(c))) = Negate(GeneratorMul(Head(c)))
      BY <2>9, GeneratorMulNegate
    <3> HIDE DEF v
    <3> QED
      BY <2>8, <2>9, <3>1, <3>2, <3>3
  <2> QED
    BY <2>10, <2>11
<1> QED
  BY <1>1, QInvAlways, PTL

----------------------------------------------------------------------------
(* VerifiedAggregation *)

\* What is held, now or when the last share was aggregated, was received and verified
\* for a participant.
Holds(these) ==
  /\ these \in Seq([transcript : Received, verifiedFor : Participants])
  /\ \A k \in DOMAIN these :
       ValidateTranscript(these[k].transcript, these[k].verifiedFor) = NoError

PlainOf(these) == [k \in DOMAIN these |-> these[k].transcript]
MasksFor(target) == [dealer \in DOMAIN Masks |-> Masks[dealer][target]]

GInv ==
  /\ Holds(held) /\ Holds(aggregated.from)
  /\ aggregated.result.ok =>
       \E target \in Participants :
         aggregated.result
           = AggregateShare(Config, PlainOf(aggregated.from), target, MasksFor(target))

LEMMA GInvAlways == AggregationSpec => []GInv
<1>1. AggregationInit => GInv
  BY DEF AggregationInit, GInv, Holds, Err
<1>2. GInv /\ [AggregationNext]_aggregationVars => GInv'
  <2> SUFFICES ASSUME GInv, [AggregationNext]_aggregationVars PROVE GInv'
    OBVIOUS
  <2>1. ASSUME NEW t \in Received, NEW target \in Participants, Verify(t, target)
        PROVE  GInv'
    <3> DEFINE e == [transcript |-> t, verifiedFor |-> target]
               E == [transcript : Received, verifiedFor : Participants]
    <3>1. /\ held' = Append(held, e) /\ aggregated' = aggregated
          /\ ValidateTranscript(t, target) = NoError
      BY <2>1 DEF Verify
    <3>2. e \in E /\ e.transcript = t /\ e.verifiedFor = target /\ held \in Seq(E)
      BY DEF GInv, Holds
    <3> HIDE DEF e, E
    <3>3. /\ held' \in Seq(E) /\ DOMAIN held' = 1 .. (Len(held) + 1)
          /\ held'[Len(held) + 1] = e
          /\ \A k \in DOMAIN held' : k = Len(held) + 1 \/ (k \in DOMAIN held /\ held'[k] = held[k])
      BY <3>1, <3>2
    <3>4. Holds(held)'
      BY <3>1, <3>2, <3>3 DEF GInv, Holds, E
    <3> QED
      BY <3>1, <3>4 DEF GInv, Holds, PlainOf
  <2>2. ASSUME NEW target \in Participants, Aggregate(target)
        PROVE  GInv'
    <3>1. /\ held' = held
          /\ aggregated'.from = held
          /\ aggregated'.result = AggregateShare(Config, PlainOf(held), target, MasksFor(target))
      BY <2>2 DEF Aggregate, PlainOf, MasksFor, HeldTranscripts
    <3> QED
      BY <3>1 DEF GInv, Holds
  <2>3. CASE UNCHANGED aggregationVars
    BY <2>3 DEF aggregationVars, GInv, Holds, PlainOf
  <2> QED
    BY <2>1, <2>2, <2>3 DEF AggregationNext
<1> QED
  BY <1>1, <1>2, PTL DEF AggregationSpec

\* The share of a transcript verified for its participant, unmasked, is the one that
\* was committed to.
LEMMA HeldShare ==
  ASSUME NEW t \in Received, NEW target \in Participants, ValidateTranscript(t, target) = NoError
  PROVE  LET z == t.shares[FirstShare(t, target)].value
             m == MasksFor(target)[t.dealer]
         IN  /\ RecoverShare(z, m) \in Scalars
             /\ GeneratorMul(RecoverShare(z, m)) = EvaluatePublicPolynomial(t.poly, target)
<1> DEFINE p == FirstShare(t, target)
           s == t.shares[p]
           m == MasksFor(target)[t.dealer]
<1>1. t \in Transcripts /\ t.status = "Verified"
  BY AggregationAssumption DEF ValidateTranscript, NoError
<1>2. p # 0 /\ VerifyMaskedShareCommitment(s, t.poly)
  BY <1>1, ValidatedShare
<1>3. p \in DOMAIN t.shares /\ s.participant = target
  BY <1>1, <1>2, FirstShareFound
<1>4. s.value \in Scalars /\ target \in Nat
  <2>1. t.shares \in Seq([participant : Nat, value : Scalars, mask : Points])
    BY <1>1 DEF Transcripts
  <2>2. s \in [participant : Nat, value : Scalars, mask : Points]
    BY <1>3, <2>1, ElementType
  <2> QED
    BY <1>3, <2>2
<1>5. m \in Scalars /\ s.mask = GeneratorMul(m)
  BY <1>1, <1>3, AggregationAssumption DEF MasksFor
<1>6. EvaluatePublicPolynomial(t.poly, target) \in Points
  BY <1>1, <1>4, PublicEvaluationType DEF Transcripts
<1>7. GeneratorMul(s.value) = PointAdd(EvaluatePublicPolynomial(t.poly, target), GeneratorMul(m))
  BY <1>2, <1>3, <1>5 DEF VerifyMaskedShareCommitment
<1> HIDE DEF p, s, m
<1>8. RecoverShare(s.value, m) \in Scalars
  BY <1>4, <1>5, Closure, ResiduesAreIntegers DEF RecoverShare
<1>9. GeneratorMul(RecoverShare(s.value, m)) = EvaluatePublicPolynomial(t.poly, target)
  BY <1>4, <1>5, <1>6, <1>7, UnmaskedShare DEF RecoverShare
<1> QED
  BY <1>8, <1>9 DEF p, s, m

\* What is aggregated from transcripts verified for its participant is what their
\* dealers committed to: the masks cancel and the commitments add up.
THEOREM AggregatedShares == AggregationSpec => []AggregatedShareIsCommitted
<1>1. GInv => AggregatedShareIsCommitted
  <2> DEFINE made == aggregated.result.value
             from == aggregated.from
             ts == PlainOf(from)
  <2> SUFFICES ASSUME GInv, aggregated.result.ok,
                      \A k \in DOMAIN from : from[k].verifiedFor = made.participant
               PROVE  Committed(made, from)
    BY DEF AggregatedShareIsCommitted
  <2>1. PICK target \in Participants :
          aggregated.result = AggregateShare(Config, ts, target, MasksFor(target))
    BY DEF GInv
  <2> DEFINE terms == [k \in DOMAIN ts |->
                         RecoverShare(ts[k].shares[FirstShare(ts[k], target)].value,
                                      MasksFor(target)[ts[k].dealer])]
             points == [k \in DOMAIN from |->
                          EvaluatePublicPolynomial(from[k].transcript.poly, target)]
  <2>2. made.participant = target /\ made.value = SumOf(terms)
    <3>1. aggregated.result = Ok([participant |-> target,
                                  value       |-> SumOfShares(ts, target, MasksFor(target)),
                                  dealerCount |-> Len(ts)])
      BY <2>1 DEF AggregateShare, Err
    <3>2. made = [participant |-> target,
                   value       |-> SumOfShares(ts, target, MasksFor(target)),
                   dealerCount |-> Len(ts)]
      BY <3>1 DEF Ok
    <3> QED
      BY <3>2 DEF SumOfShares
  <2>3. /\ from \in Seq([transcript : Received, verifiedFor : Participants])
        /\ DOMAIN from = 1 .. Len(from) /\ Len(from) \in Nat
        /\ DOMAIN ts = DOMAIN from
    BY DEF GInv, Holds, PlainOf
  <2>4. ASSUME NEW k \in DOMAIN from
        PROVE  /\ terms[k] \in Int /\ points[k] \in Int
               /\ points[k] = GeneratorMul(terms[k])
    <3>1. from[k] \in [transcript : Received, verifiedFor : Participants]
      BY <2>3, ElementType
    <3>2. /\ ts[k] \in Received /\ ts[k] = from[k].transcript
          /\ ValidateTranscript(ts[k], target) = NoError
      BY <2>2, <3>1 DEF GInv, Holds, PlainOf
    <3> HIDE DEF ts
    <3>3. /\ terms[k] \in Scalars
          /\ GeneratorMul(terms[k]) = EvaluatePublicPolynomial(ts[k].poly, target)
      BY <2>3, <3>2, HeldShare
    <3>4. GeneratorMul(terms[k]) \in Points
      BY <3>3, Closure, ResiduesAreIntegers
    <3> QED
      BY <3>2, <3>3, <3>4, ResiduesAreIntegers
  <2>5. terms \in Seq(Int) /\ points \in Seq(Int) /\ DOMAIN terms = DOMAIN points
    <3>1. DOMAIN terms = 1 .. Len(from) /\ DOMAIN points = 1 .. Len(from)
      BY <2>3
    <3>2. /\ terms = [k \in 1 .. Len(from) |-> terms[k]]
          /\ points = [k \in 1 .. Len(from) |-> points[k]]
      BY <3>1, <2>3
    <3> HIDE DEF terms, points, made
    <3>3. terms \in [1 .. Len(from) -> Int] /\ points \in [1 .. Len(from) -> Int]
      BY <2>3, <2>4, <3>2
    <3>4. ASSUME NEW n \in Nat, NEW f \in [1 .. n -> Int] PROVE f \in Seq(Int)
      OBVIOUS
    <3>5. terms \in Seq(Int) /\ points \in Seq(Int)
      BY <2>3, <3>3, <3>4
    <3> QED
      BY <3>1, <3>5
  <2>6. GeneratorMul(SumOf(terms)) = SumOf(points)
    BY <2>3, <2>4, <2>5, GeneratorMulSum
  <2>7. FoldLeft(PointAdd, Identity, points) = SumOf(points)
    BY PointSum
  <2> HIDE DEF made, terms
  <2> QED
    BY <2>2, <2>6, <2>7 DEF Committed
<1> QED
  BY <1>1, GInvAlways, PTL

----------------------------------------------------------------------------
(* ProofedSession: the fixture and its proofs *)

LEMMA SimulationIs ==
  /\ Fixture \in FixtureRecords /\ RunFixture(Fixture).ok
  /\ Simulation = RunFixture(Fixture).value
  /\ Simulation.config.threshold = Fixture.threshold /\ Fixture.threshold \in Nat
  /\ Simulation.session = Fixture.session /\ Simulation.dealers = Fixture.dealers
  /\ Simulation.participants = Fixture.participants
  /\ \A id : /\ FindParticipant(id) = FindById(Fixture.participants, id)
             /\ FindDealer(id) = FindById(Fixture.dealers, id)
<1>1. /\ Fixture \in FixtureRecords /\ RunFixture(Fixture).ok
      /\ Simulation = RunFixture(Fixture).value
  BY SessionAssumption DEF Ok
<1>2. /\ Simulation.config.threshold = Fixture.threshold /\ Fixture.threshold \in Nat
      /\ Simulation.session = Fixture.session /\ Simulation.dealers = Fixture.dealers
      /\ Simulation.participants = Fixture.participants
  BY <1>1, RunIsFaithful, FixtureTypes
<1>3. \A id : /\ FindParticipant(id) = FindById(Fixture.participants, id)
              /\ FindDealer(id) = FindById(Fixture.dealers, id)
  BY <1>2 DEF FindParticipant, FindDealer, FindById
<1> QED
  BY <1>1, <1>2, <1>3

\* The transcripts the dealers made, and how many masked shares each holds.
Dealt == Simulation.transcripts
People == Len(Fixture.participants)

LEMMA DealtAre ==
  /\ DOMAIN Dealt = DOMAIN Fixture.dealers /\ Listed(Dealt)
  /\ DOMAIN Dealt = 1 .. Len(Dealt) /\ Len(Dealt) \in Nat
  /\ DOMAIN Fixture.participants = 1 .. People /\ People \in Nat /\ People # 0
  /\ \A j, k \in 1 .. People : Fixture.participants[j].id = Fixture.participants[k].id => j = k
  /\ Everyone = {Fixture.participants[j].id : j \in 1 .. People} /\ Everyone \subseteq Nat
<1>1. Fixture \in FixtureRecords /\ RunFixture(Fixture).ok
      /\ Simulation = RunFixture(Fixture).value
  BY SimulationIs
<1>2. /\ DOMAIN Dealt = DOMAIN Fixture.dealers
      /\ \A k \in DOMAIN Fixture.dealers :
           Dealt[k] = BuildDealerTranscript(Fixture, Fixture.dealers[k])
      /\ Fixture.participants # <<>>
      /\ \A j, k \in DOMAIN Fixture.participants :
           Fixture.participants[j].id = Fixture.participants[k].id => j = k
      /\ Dealt = [k \in DOMAIN Fixture.dealers |->
                    BuildDealerTranscript(Fixture, Fixture.dealers[k])]
  <2>1. RunFixture(Fixture).value.transcripts =
          [k \in DOMAIN Fixture.dealers |-> BuildDealerTranscript(Fixture, Fixture.dealers[k])]
    BY <1>1 DEF RunFixture, Ok, NewConfig, Err
  <2> QED
    BY <1>1, <2>1, RunIsFaithful DEF Dealt
<1>3. /\ DOMAIN Fixture.dealers = 1 .. Len(Fixture.dealers) /\ Len(Fixture.dealers) \in Nat
      /\ DOMAIN Fixture.participants = 1 .. People /\ People \in Nat
      /\ \A j \in DOMAIN Fixture.participants : Fixture.participants[j].id \in Nat
  BY <1>1, FixtureTypes DEF People
<1>4. Dealt \in Seq({Dealt[k] : k \in DOMAIN Fixture.dealers})
      /\ Len(Dealt) = Len(Fixture.dealers)
  <2> HIDE DEF Dealt
  <2>1. ASSUME NEW n \in Nat, NEW g, DOMAIN g = 1 .. n, g = [k \in 1 .. n |-> g[k]]
        PROVE  g \in Seq({g[k] : k \in 1 .. n}) /\ Len(g) = n
    BY <2>1
  <2>2. Dealt = [k \in DOMAIN Fixture.dealers |-> Dealt[k]]
    BY <1>2
  <2> QED
    BY <1>2, <1>3, <2>1, <2>2
<1>5. Listed(Dealt) /\ DOMAIN Dealt = 1 .. Len(Dealt) /\ Len(Dealt) \in Nat
  BY <1>2, <1>3, <1>4 DEF Listed
<1>6. People # 0
  BY <1>2, <1>1 DEF People, FixtureRecords
<1>7. Everyone = {Fixture.participants[j].id : j \in 1 .. People}
  BY <1>3 DEF Everyone, ToSet, ParticipantIds
<1> HIDE DEF Dealt, Everyone, People
<1> QED
  BY <1>2, <1>3, <1>5, <1>6, <1>7, SMTT(30)

LEMMA DealtAsSent ==
  ASSUME NEW k \in DOMAIN Dealt
  PROVE  /\ k \in DOMAIN Fixture.dealers /\ Dealt[k] \in Transcripts
         /\ Dealt[k].dealer = Fixture.dealers[k].id
         /\ Dealt[k].poly = CommitPolynomial(Fixture.dealers[k].coefficients)
         /\ Fixture.dealers[k].coefficients \in Seq(Scalars)
         /\ DOMAIN Dealt[k].shares = 1 .. People /\ Len(Dealt[k].shares) = People
         /\ \A m \in 1 .. People :
              /\ Dealt[k].shares[m].participant = Fixture.participants[m].id
              /\ VerifyMaskedShareCommitment(Dealt[k].shares[m], Dealt[k].poly)
<1>1. Fixture \in FixtureRecords /\ RunFixture(Fixture).ok
      /\ Simulation = RunFixture(Fixture).value /\ k \in DOMAIN Fixture.dealers
      /\ DOMAIN Fixture.participants = 1 .. People /\ People \in Nat
  BY SimulationIs, DealtAre
<1>2. /\ SentAs(Fixture, Dealt[k], k)
      /\ Dealt[k].shares = [j \in DOMAIN Fixture.participants |-> SentShare(Fixture, k, j)]
  BY <1>1, BuiltAsSent DEF Dealt
<1>3. \A m \in 1 .. People :
        /\ Dealt[k].shares[m].participant = Fixture.participants[m].id
        /\ VerifyMaskedShareCommitment(Dealt[k].shares[m], Dealt[k].poly)
  <2> TAKE m \in 1 .. People
  <2>1. Dealt[k].shares[m] = SentShare(Fixture, k, m)
    BY <1>1, <1>2
  <2>2. SentShare(Fixture, k, m).participant = Fixture.participants[m].id
    BY DEF SentShare
  <2>3. VerifyMaskedShareCommitment(SentShare(Fixture, k, m),
                                    CommitPolynomial(Fixture.dealers[k].coefficients))
    BY <1>1, SentShareCommitted
  <2> QED
    BY <1>2, <2>1, <2>2, <2>3 DEF SentAs
<1>4. DOMAIN Dealt[k].shares = 1 .. People /\ Len(Dealt[k].shares) = People
  <2> HIDE DEF Dealt, People
  <2> QED
    BY <1>1, <1>2
<1>5. Fixture.dealers[k].coefficients \in Seq(Scalars)
  BY <1>1, FixtureTypes
<1> HIDE DEF Dealt, People
<1> QED
  BY <1>1, <1>2, <1>3, <1>4, <1>5 DEF SentAs

\* What the proof made for a masked share says: its dealer and its participant are
\* known, its public inputs are those that recovery looks for, it verifies, and the
\* mask it is about is the one that both sides derive.
LEMMA EntryFacts ==
  ASSUME NEW t, NEW masked, NEW e \in ProofEntry(t, masked)
  PROVE  LET dealer == Simulation.dealers[FindDealer(t.dealer)]
             person == Simulation.participants[FindParticipant(masked.participant)]
         IN  /\ FindDealer(t.dealer) # 0 /\ FindParticipant(masked.participant) # 0
             /\ e.participant = masked.participant
             /\ e.inputs = ProofPublicInputs(t, dealer, person, masked.mask)
             /\ VerifyProof(e.inputs, e.proof) = NoError
             /\ masked.mask = GeneratorMul(DealerWitness(e.inputs, dealer, person).mask)
<1> DEFINE dealer == Simulation.dealers[FindDealer(t.dealer)]
           person == Simulation.participants[FindParticipant(masked.participant)]
           inputs == ProofPublicInputs(t, dealer, person, masked.mask)
           witness == DealerWitness(inputs, dealer, person)
           proof  == Prove(inputs, witness)
<1>1. /\ FindDealer(t.dealer) # 0 /\ FindParticipant(masked.participant) # 0 /\ proof.ok
      /\ e = [participant |-> person.id, inputs |-> inputs, proof |-> proof.value]
  BY DEF ProofEntry
<1>2. person.id = masked.participant
  <2>1. DOMAIN Fixture.participants = 1 .. Len(Fixture.participants)
    BY DealtAre DEF People
  <2> QED
    BY <1>1, <2>1, SimulationIs, FindByIdFound
<1>3. inputs.mask = masked.mask
  BY DEF ProofPublicInputs
<1> HIDE DEF dealer, person, inputs, witness
<1>4. /\ ValidateWitness(inputs, witness) = NoError
      /\ proof.value = [backend |-> Backend, digest |-> DigestPublicInputs(inputs)]
  BY <1>1 DEF Prove, Ok, Err
<1>5. VerifyProof(inputs, proof.value) = NoError
  BY <1>4 DEF VerifyProof
<1>6. inputs.mask = GeneratorMul(witness.mask)
  BY <1>4 DEF ValidateWitness, NoError
<1>7. e.participant = person.id /\ e.inputs = inputs /\ e.proof = proof.value
  BY <1>1
<1> HIDE DEF proof
<1> QED
  BY <1>1, <1>2, <1>3, <1>5, <1>6, <1>7 DEF dealer, person, inputs, witness

----------------------------------------------------------------------------
(* ProofedSession: building *)

\* The proofs of the first shares of transcript k, in the order of the shares.
Proofs(s, k) ==
  /\ Listed(s) /\ Len(s) <= People
  /\ \A m \in 1 .. Len(s) : s[m] \in ProofEntry(Dealt[k], Dealt[k].shares[m])

\* The first n proofs of transcript k are among the reported ones.
Told(k, n) ==
  \A m \in 1 .. n : \E j \in 1 .. Len(reports) :
    /\ reports[j].dealer = Dealt[k].dealer
    /\ reports[j].participant = Fixture.participants[m].id

\* What holds while the proofs are made, and until the caller changes something.
Building ==
  /\ transcripts = Dealt
  /\ Listed(proofed) /\ Len(proofed) <= Len(Dealt)
  /\ \A k \in 1 .. Len(proofed) :
       /\ proofed[k] = [transcript |-> Dealt[k], proofs |-> proofed[k].proofs]
       /\ Proofs(proofed[k].proofs, k) /\ Len(proofed[k].proofs) = People
       /\ Told(k, People)
  /\ entries # <<>> => Len(proofed) < Len(Dealt)
  /\ Proofs(entries, Len(proofed) + 1) /\ Told(Len(proofed) + 1, Len(entries))
  /\ Listed(reports) /\ Len(reports) = completed
  /\ completed = Len(proofed) * People + Len(entries)
  /\ \A j \in 1 .. Len(reports) :
       /\ reports[j].completed = j /\ reports[j].total = Len(Dealt) * People
       /\ \E k \in 1 .. Len(Dealt) : reports[j].dealer = Dealt[k].dealer
       /\ reports[j].participant \in Everyone
  /\ stage = "built" => Len(proofed) = Len(Dealt) /\ entries = <<>>

BuildInv ==
  /\ changes \in Nat
  /\ stage \in {"proving", "built", "failed"}
  /\ stage = "proving" => changes = 0
  /\ stage # "failed" /\ changes = 0 => Building

LEMMA EmptyListed == Listed(<<>>) /\ Len(<<>>) = 0
<1>1. <<>> \in Seq({})
  OBVIOUS
<1> QED
  BY <1>1 DEF Listed

LEMMA ListedLength ==
  ASSUME NEW t, Listed(t)
  PROVE  Len(t) \in Nat /\ DOMAIN t = 1 .. Len(t) /\ (t = <<>> <=> Len(t) = 0)
<1> PICK X : t \in Seq(X)
  BY DEF Listed
<1> QED
  OBVIOUS

\* One proof for every share of every transcript.
LEMMA ProofCount == TotalProofs(Dealt) = Len(Dealt) * People
<1>1. DOMAIN Dealt = 1 .. Len(Dealt) /\ Len(Dealt) \in Nat /\ People \in Nat
  BY DealtAre
<1>2. \A k \in DOMAIN Dealt : DOMAIN Dealt[k].shares = 1 .. People
  BY DealtAsSent
<1> HIDE DEF Dealt, People
<1>3. UNION {{k} \X DOMAIN Dealt[k].shares : k \in DOMAIN Dealt} =
        (1 .. Len(Dealt)) \X (1 .. People)
  BY <1>1, <1>2
<1>4. \A n \in Nat : IsFiniteSet(1 .. n) /\ Cardinality(1 .. n) = n
  <2> TAKE n \in Nat
  <2>1. CASE n = 0
    <3>1. 1 .. n = {}
      BY <2>1
    <3> QED
      BY <2>1, <3>1, FS_EmptySet
  <2>2. CASE n # 0
    <3>1. 1 <= n /\ 1 \in Int /\ n \in Int
      BY <2>2
    <3> QED
      BY <3>1, FS_Interval
  <2> QED
    BY <2>1, <2>2
<1>5. Cardinality((1 .. Len(Dealt)) \X (1 .. People)) = Len(Dealt) * People
  <2>1. ASSUME NEW A, NEW B, IsFiniteSet(A), IsFiniteSet(B)
        PROVE  Cardinality(A \X B) = Cardinality(A) * Cardinality(B)
    BY <2>1, FS_Product
  <2>2. ASSUME NEW a \in Nat, NEW b \in Nat
        PROVE  Cardinality((1 .. a) \X (1 .. b)) = a * b
    <3> DEFINE A == 1 .. a
               B == 1 .. b
    <3>1. IsFiniteSet(A) /\ IsFiniteSet(B) /\ Cardinality(A) = a /\ Cardinality(B) = b
      BY <1>4
    <3> HIDE DEF A, B
    <3>2. Cardinality(A \X B) = a * b
      BY <2>1, <3>1
    <3> QED
      BY <3>2 DEF A, B
  <2> QED
    BY <1>1, <2>2
<1> QED
  BY <1>3, <1>5 DEF TotalProofs

LEMMA InitBuilding == SessionInit => BuildInv
<1> SUFFICES ASSUME SessionInit PROVE BuildInv
  OBVIOUS
<1>1. /\ stage = "proving" /\ reports = <<>> /\ completed = 0 /\ entries = <<>>
      /\ transcripts = Dealt /\ proofed = <<>> /\ changes = 0
  BY DEF SessionInit, Dealt
<1>2. Len(Dealt) \in Nat /\ People \in Nat /\ 0 * People + 0 = 0
  BY DealtAre
<1>3. Proofs(<<>>, Len(proofed) + 1) /\ Told(Len(proofed) + 1, 0)
  BY <1>2, EmptyListed DEF Proofs, Told
<1> HIDE DEF Dealt, People
<1>4. Building
  BY <1>1, <1>2, <1>3, EmptyListed DEF Building
<1> QED
  BY <1>1, <1>4 DEF BuildInv

\* A report more leaves those before it.
LEMMA ToldStays ==
  ASSUME NEW r, Listed(reports), reports' = Append(reports, r)
  PROVE  /\ Listed(reports') /\ Len(reports') = Len(reports) + 1 /\ Len(reports) \in Nat
         /\ \A j \in 1 .. Len(reports) : reports'[j] = reports[j]
         /\ reports'[Len(reports) + 1] = r
         /\ \A k, n : Told(k, n) => Told(k, n)'
<1>1. /\ Listed(reports') /\ Len(reports') = Len(reports) + 1 /\ Len(reports) \in Nat
      /\ \A j \in 1 .. Len(reports) : reports'[j] = reports[j]
      /\ reports'[Len(reports) + 1] = r
  BY ListedAppend
<1>2. ASSUME NEW k, NEW n, Told(k, n) PROVE Told(k, n)'
  <2>1. ASSUME NEW m \in 1 .. n
        PROVE  \E j \in 1 .. Len(reports') :
                 /\ reports'[j].dealer = Dealt[k].dealer
                 /\ reports'[j].participant = Fixture.participants[m].id
    <3>1. PICK j \in 1 .. Len(reports) : /\ reports[j].dealer = Dealt[k].dealer
                                         /\ reports[j].participant = Fixture.participants[m].id
      BY <1>2 DEF Told
    <3>2. j \in 1 .. Len(reports')
      BY <1>1
    <3> QED
      BY <1>1, <3>1, <3>2
  <2> QED
    BY <2>1 DEF Told, Dealt
<1> QED
  BY <1>1, <1>2

\* The next proof,
LEMMA ProveBuilding ==
  ASSUME BuildInv, ProveNext
  PROVE  BuildInv'
<1> DEFINE k == Len(proofed) + 1
           m == Len(entries) + 1
<1>1. /\ stage = "proving" /\ Building /\ changes = 0
      /\ Len(proofed) < Len(transcripts) /\ Len(entries) < Len(Current.shares)
  BY DEF BuildInv, ProveNext, Proving
<1>2. PICK e \in ProofEntry(Current, Current.shares[m]) :
        /\ entries' = Append(entries, e) /\ completed' = completed + 1
        /\ reports' = Append(reports,
             [completed |-> completed + 1, total |-> TotalProofs(transcripts),
              dealer |-> Current.dealer, participant |-> e.participant])
        /\ UNCHANGED <<stage, transcripts, proofed, changes, shares, key>>
  BY DEF ProveNext
<1>3. /\ transcripts = Dealt /\ Listed(proofed) /\ Listed(entries) /\ Listed(reports)
      /\ Len(reports) = completed /\ completed = Len(proofed) * People + Len(entries)
      /\ Len(entries) <= People
      /\ \A n \in 1 .. Len(entries) : entries[n] \in ProofEntry(Dealt[k], Dealt[k].shares[n])
      /\ Told(k, Len(entries))
  BY <1>1 DEF Building, Proofs
<1>4. /\ Len(proofed) \in Nat /\ Len(entries) \in Nat /\ Len(reports) \in Nat
      /\ Len(Dealt) \in Nat /\ People \in Nat
  BY <1>3, ListedLength, DealtAre
<1>5. k \in DOMAIN Dealt /\ k \in 1 .. Len(Dealt) /\ Current = Dealt[k]
  BY <1>1, <1>3, <1>4, DealtAre DEF Current
<1>6. Len(Dealt[k].shares) = People /\ m \in 1 .. People
      /\ Dealt[k].shares[m].participant = Fixture.participants[m].id
  BY <1>1, <1>4, <1>5, DealtAsSent
<1>7. e.participant = Fixture.participants[m].id
  BY <1>2, <1>5, <1>6, EntryFacts
<1> DEFINE r == [completed |-> completed + 1, total |-> TotalProofs(Dealt),
                 dealer |-> Dealt[k].dealer, participant |-> e.participant]
<1>8. reports' = Append(reports, r)
  BY <1>2, <1>3, <1>5
<1>9. /\ r.completed = completed + 1 /\ r.total = Len(Dealt) * People
      /\ r.dealer = Dealt[k].dealer /\ r.participant = Fixture.participants[m].id
  BY <1>7, ProofCount
<1> HIDE DEF r
<1>10. /\ Listed(reports') /\ Len(reports') = Len(reports) + 1
       /\ \A j \in 1 .. Len(reports) : reports'[j] = reports[j]
       /\ reports'[Len(reports) + 1] = r
       /\ \A i, n : Told(i, n) => Told(i, n)'
  BY <1>3, <1>8, ToldStays
<1>11. /\ Listed(entries') /\ Len(entries') = m
       /\ \A n \in 1 .. Len(entries) : entries'[n] = entries[n]
       /\ entries'[m] = e
  BY <1>2, <1>3, ListedAppend
<1>12. Proofs(entries', k)
  <2>1. ASSUME NEW n \in 1 .. m PROVE entries'[n] \in ProofEntry(Dealt[k], Dealt[k].shares[n])
    <3>1. CASE n = m
      BY <1>2, <1>5, <1>11, <3>1
    <3>2. CASE n # m
      <4>1. n \in 1 .. Len(entries)
        BY <1>4, <3>2
      <4> QED
        BY <1>3, <1>11, <4>1
    <3> QED
      BY <3>1, <3>2
  <2> QED
    BY <1>6, <1>11, <2>1 DEF Proofs
<1>13. Told(k, Len(entries))'
  <2>1. ASSUME NEW n \in 1 .. m
        PROVE  \E j \in 1 .. Len(reports') :
                 /\ reports'[j].dealer = Dealt[k].dealer
                 /\ reports'[j].participant = Fixture.participants[n].id
    <3>1. CASE n = m
      <4>1. Len(reports) + 1 \in 1 .. Len(reports')
        BY <1>4, <1>10
      <4> QED
        BY <1>9, <1>10, <3>1, <4>1
    <3>2. CASE n # m
      <4>1. n \in 1 .. Len(entries)
        BY <1>4, <3>2
      <4>2. PICK j \in 1 .. Len(reports) :
              /\ reports[j].dealer = Dealt[k].dealer
              /\ reports[j].participant = Fixture.participants[n].id
        BY <1>3, <4>1 DEF Told
      <4>3. j \in 1 .. Len(reports')
        BY <1>4, <1>10
      <4> QED
        BY <1>10, <4>2, <4>3
    <3> QED
      BY <3>1, <3>2
  <2> DEFINE names == Fixture.participants
  <2>2. \A n \in 1 .. Len(entries') : \E j \in 1 .. Len(reports') :
          /\ reports'[j].dealer = Dealt[k].dealer
          /\ reports'[j].participant = names[n].id
    BY <1>11, <2>1
  <2>3. k' = k
    BY <1>2
  <2> HIDE DEF k, names
  <2> QED
    BY <2>2, <2>3 DEF Told, Dealt, names
<1>14. \A j \in 1 .. Len(reports') :
         /\ reports'[j].completed = j /\ reports'[j].total = Len(Dealt) * People
         /\ \E n \in 1 .. Len(Dealt) : reports'[j].dealer = Dealt[n].dealer
         /\ reports'[j].participant \in Everyone
  <2> TAKE j \in 1 .. Len(reports')
  <2>1. CASE j = Len(reports) + 1
    <3>1. reports'[j] = r /\ r.completed = j
      BY <1>3, <1>9, <1>10, <2>1
    <3>2. r.participant \in Everyone
      BY <1>6, <1>9, DealtAre
    <3> QED
      BY <1>5, <1>9, <3>1, <3>2
  <2>2. CASE j # Len(reports) + 1
    <3>1. j \in 1 .. Len(reports)
      BY <1>4, <1>10, <2>2
    <3>2. /\ reports[j].completed = j /\ reports[j].total = Len(Dealt) * People
          /\ \E n \in 1 .. Len(Dealt) : reports[j].dealer = Dealt[n].dealer
          /\ reports[j].participant \in Everyone
      BY <1>1, <3>1 DEF Building
    <3> QED
      BY <1>10, <3>1, <3>2
  <2> QED
    BY <2>1, <2>2
<1>15. \A i \in 1 .. Len(proofed) :
         /\ proofed[i] = [transcript |-> Dealt[i], proofs |-> proofed[i].proofs]
         /\ Proofs(proofed[i].proofs, i) /\ Len(proofed[i].proofs) = People
         /\ Told(i, People)'
  <2>1. \A i \in 1 .. Len(proofed) :
          /\ proofed[i] = [transcript |-> Dealt[i], proofs |-> proofed[i].proofs]
          /\ Proofs(proofed[i].proofs, i) /\ Len(proofed[i].proofs) = People
          /\ Told(i, People)
    BY <1>1 DEF Building
  <2> QED
    BY <1>10, <2>1
<1>16. completed' = Len(proofed) * People + Len(entries') /\ Len(reports') = completed'
  <2> PICK product \in Int : product = Len(proofed) * People
    BY <1>4
  <2> QED
    BY <1>2, <1>3, <1>4, <1>10, <1>11
<1>17. Building'
  <2>1. Proofs(entries, Len(proofed) + 1)'
    BY <1>2, <1>12 DEF Proofs, Dealt, People
  <2>2. Told(Len(proofed) + 1, Len(entries))'
    BY <1>13
  <2>3. transcripts' = Dealt /\ proofed' = proofed /\ stage' = stage
    BY <1>2, <1>3
  <2>4. Len(proofed) < Len(Dealt)
    BY <1>1, <1>3
  <2>5. ASSUME NEW i \in 1 .. Len(proofed')
        PROVE  /\ proofed'[i] = [transcript |-> Dealt[i], proofs |-> proofed'[i].proofs]
               /\ Proofs(proofed[i].proofs, i)' /\ Len(proofed'[i].proofs) = People
               /\ Told(i, People)'
    <3>1. i \in 1 .. Len(proofed)
      BY <2>3
    <3> QED
      BY <1>15, <2>3, <3>1 DEF Proofs
  <2>6. Dealt' = Dealt /\ People' = People /\ Everyone' = Everyone
    BY DEF Dealt, People, Everyone
  <2> HIDE DEF k, m
  <2> QED
    BY <1>1, <1>3, <1>4, <1>10, <1>14, <1>16, <2>1, <2>2, <2>3, <2>4, <2>5, <2>6 DEF Building
<1> QED
  BY <1>1, <1>2, <1>17 DEF BuildInv

\* the end of a transcript,
LEMMA PushBuilding ==
  ASSUME BuildInv, Push
  PROVE  BuildInv'
<1> DEFINE k == Len(proofed) + 1
           pushed == [transcript |-> Current, proofs |-> entries]
<1>1. /\ stage = "proving" /\ Building /\ changes = 0
      /\ Len(proofed) < Len(transcripts) /\ Len(entries) = Len(Current.shares)
      /\ proofed' = Append(proofed, pushed) /\ entries' = <<>>
      /\ UNCHANGED <<stage, reports, completed, transcripts, changes, shares, key>>
  BY DEF BuildInv, Push, Proving
<1>2. /\ transcripts = Dealt /\ Listed(proofed) /\ Listed(entries) /\ Listed(reports)
      /\ Len(reports) = completed /\ completed = Len(proofed) * People + Len(entries)
      /\ Proofs(entries, k) /\ Told(k, Len(entries))
      /\ \A i \in 1 .. Len(proofed) :
           /\ proofed[i] = [transcript |-> Dealt[i], proofs |-> proofed[i].proofs]
           /\ Proofs(proofed[i].proofs, i) /\ Len(proofed[i].proofs) = People
           /\ Told(i, People)
  <2> HIDE DEF k, pushed
  <2>1. /\ transcripts = Dealt /\ Listed(proofed) /\ Listed(entries) /\ Listed(reports)
        /\ Len(reports) = completed /\ completed = Len(proofed) * People + Len(entries)
    BY <1>1 DEF Building, Proofs
  <2>2. Proofs(entries, k) /\ Told(k, Len(entries))
    BY <1>1 DEF Building, k
  <2>3. \A i \in 1 .. Len(proofed) :
          /\ proofed[i] = [transcript |-> Dealt[i], proofs |-> proofed[i].proofs]
          /\ Proofs(proofed[i].proofs, i) /\ Len(proofed[i].proofs) = People
          /\ Told(i, People)
    BY <1>1 DEF Building
  <2> QED
    BY <2>1, <2>2, <2>3
<1>3. /\ Len(proofed) \in Nat /\ Len(entries) \in Nat /\ Len(reports) \in Nat
      /\ Len(Dealt) \in Nat /\ People \in Nat
  BY <1>2, ListedLength, DealtAre
<1>4. k \in DOMAIN Dealt /\ k \in 1 .. Len(Dealt) /\ Current = Dealt[k]
  BY <1>1, <1>2, <1>3, DealtAre DEF Current
<1>5. Len(entries) = People
  BY <1>1, <1>4, DealtAsSent
<1>6. /\ Listed(proofed') /\ Len(proofed') = k
      /\ \A i \in 1 .. Len(proofed) : proofed'[i] = proofed[i]
      /\ proofed'[k] = pushed
  BY <1>1, <1>2, ListedAppend
<1>7. /\ Dealt' = Dealt /\ People' = People /\ Everyone' = Everyone
      /\ \A i, n : Told(i, n)' <=> Told(i, n)
      /\ \A s, i : Proofs(s, i)' <=> Proofs(s, i)
  BY <1>1 DEF Dealt, People, Everyone, Told, Proofs
<1>8. pushed = [transcript |-> Dealt[k], proofs |-> pushed.proofs] /\ pushed.proofs = entries
  BY <1>4
<1> HIDE DEF pushed
<1>9. ASSUME NEW i \in 1 .. Len(proofed')
      PROVE  /\ proofed'[i] = [transcript |-> Dealt[i], proofs |-> proofed'[i].proofs]
             /\ Proofs(proofed'[i].proofs, i) /\ Len(proofed'[i].proofs) = People
             /\ Told(i, People)
  <2>1. CASE i = k
    BY <1>2, <1>5, <1>6, <1>8, <2>1
  <2>2. CASE i # k
    <3>1. i \in 1 .. Len(proofed)
      BY <1>3, <1>6, <2>2
    <3> QED
      BY <1>2, <1>6, <3>1
  <2> QED
    BY <2>1, <2>2
<1>10. completed' = Len(proofed') * People + Len(entries') /\ Len(reports') = completed'
  <2>1. Len(proofed') * People = Len(proofed) * People + 1 * People
    BY <1>3, <1>6, Distributes
  <2> PICK product \in Int : product = Len(proofed) * People
    BY <1>3
  <2> QED
    BY <1>1, <1>2, <1>3, <1>5, <2>1, EmptyListed
<1>11. Proofs(entries, Len(proofed) + 1)' /\ Told(Len(proofed) + 1, Len(entries))'
  BY <1>1, <1>3, EmptyListed DEF Proofs, Told, Dealt, People
<1>12. Building'
  <2>1. /\ \A j \in 1 .. Len(reports) :
             /\ reports[j].completed = j /\ reports[j].total = Len(Dealt) * People
             /\ \E n \in 1 .. Len(Dealt) : reports[j].dealer = Dealt[n].dealer
             /\ reports[j].participant \in Everyone
    BY <1>1 DEF Building
  <2>2. /\ transcripts' = Dealt' /\ Listed(proofed') /\ Len(proofed') <= Len(Dealt')
        /\ entries' = <<>> /\ stage' = "proving" /\ Listed(reports')
        /\ Proofs(entries, Len(proofed) + 1)' /\ Told(Len(proofed) + 1, Len(entries))'
    BY <1>1, <1>2, <1>3, <1>4, <1>6, <1>7, <1>11
  <2>3. \A i \in 1 .. Len(proofed') :
          /\ proofed'[i] = [transcript |-> Dealt'[i], proofs |-> proofed'[i].proofs]
          /\ Proofs(proofed[i].proofs, i)' /\ Len(proofed'[i].proofs) = People'
          /\ Told(i, People)'
    BY <1>7, <1>9
  <2> QED
    BY <1>1, <1>7, <1>10, <2>1, <2>2, <2>3 DEF Building
<1> QED
  BY <1>1, <1>12 DEF BuildInv

\* the end of building, and whatever comes after it.
LEMMA NextBuilding == BuildInv /\ [SessionNext]_sessionVars => BuildInv'
<1> SUFFICES ASSUME BuildInv, [SessionNext]_sessionVars PROVE BuildInv'
  OBVIOUS
<1>0. /\ Dealt' = Dealt /\ People' = People /\ Everyone' = Everyone
      /\ UNCHANGED reports => \A i, n : Told(i, n)' <=> Told(i, n)
      /\ \A s, i : Proofs(s, i)' <=> Proofs(s, i)
  BY DEF Dealt, People, Everyone, Told, Proofs
<1>1. ASSUME Building, UNCHANGED <<reports, completed, entries, transcripts, proofed>>,
             stage' = "built" => Len(proofed) = Len(Dealt) /\ entries = <<>>
      PROVE  Building'
  BY <1>0, <1>1 DEF Building
<1>2. CASE ProveNext
  BY <1>2, ProveBuilding
<1>3. CASE ProveFails
  BY <1>3 DEF ProveFails, BuildInv
<1>4. CASE Push
  BY <1>4, PushBuilding
<1>5. CASE Built
  <2>1. /\ Building /\ Len(proofed) = Len(transcripts) /\ stage' = "built" /\ changes = 0
        /\ UNCHANGED <<reports, completed, entries, transcripts, proofed, changes>>
    BY <1>5 DEF Built, BuildInv
  <2>2. Len(proofed) = Len(Dealt) /\ entries = <<>>
    <3>1. transcripts = Dealt /\ (entries # <<>> => Len(proofed) < Len(Dealt))
      BY <2>1 DEF Building
    <3> QED
      BY <2>1, <3>1, DealtAre
  <2> QED
    BY <1>1, <2>1, <2>2 DEF BuildInv
<1>6. CASE Change
  <2>1. stage = "built" /\ stage' = stage /\ changes' = changes + 1 /\ changes \in Nat
    BY <1>6 DEF Change, BuildInv
  <2> QED
    BY <2>1 DEF BuildInv
<1>7. ASSUME UNCHANGED <<stage, reports, completed, entries, transcripts, proofed, changes>>
      PROVE  BuildInv'
  <2>1. Building => Building'
    <3> SUFFICES ASSUME Building PROVE Building'
      OBVIOUS
    <3>1. stage' = "built" => Len(proofed) = Len(Dealt) /\ entries = <<>>
      BY <1>7 DEF Building
    <3> QED
      BY <1>1, <1>7, <3>1
  <2> QED
    BY <1>7, <2>1 DEF BuildInv
<1>8. CASE \E id \in Everyone : RecoverParticipant(id)
  BY <1>7, <1>8 DEF RecoverParticipant
<1>9. CASE AggregatePublicKeyOfSession
  BY <1>7, <1>9 DEF AggregatePublicKeyOfSession
<1>10. CASE UNCHANGED sessionVars
  BY <1>7, <1>10 DEF sessionVars
<1> QED
  BY <1>2, <1>3, <1>4, <1>5, <1>6, <1>8, <1>9, <1>10 DEF SessionNext

LEMMA AlwaysBuilding == SessionSpec => []BuildInv
  BY InitBuilding, NextBuilding, PTL DEF SessionSpec

\* What the proof maker pushed for transcript k every participant accepts.
LEMMA PushedIsGood ==
  ASSUME NEW k \in DOMAIN Dealt, NEW pt, pt.transcript = Dealt[k],
         Proofs(pt.proofs, k), Len(pt.proofs) = People, NEW id \in Everyone
  PROVE  GoodFor(pt, id)
<1> DEFINE t == Dealt[k]
           position == FirstShare(t, id)
           n == FindProof(pt, id)
<1>1. /\ t \in Transcripts /\ DOMAIN t.shares = 1 .. People /\ Len(t.shares) = People
      /\ People \in Nat
      /\ \A m \in 1 .. People :
           /\ t.shares[m].participant = Fixture.participants[m].id
           /\ VerifyMaskedShareCommitment(t.shares[m], t.poly)
  BY DealtAsSent, DealtAre
<1>2. PICK j \in 1 .. People : id = Fixture.participants[j].id
  BY DealtAre
<1>3. Listed(pt.proofs) /\ DOMAIN pt.proofs = 1 .. People
      /\ \A m \in 1 .. People : pt.proofs[m] \in ProofEntry(t, t.shares[m])
  BY ListedLength DEF Proofs
<1>4. position = j
  <2>1. FirstShare(t, t.shares[j].participant) # 0
    BY <1>1, FirstShareExists
  <2>2. position # 0
    BY <1>1, <1>2, <2>1
  <2>3. position \in 1 .. People /\ t.shares[position].participant = id
    BY <1>1, <2>2, FirstShareFound
  <2> QED
    BY <1>1, <1>2, <2>3, DealtAre
<1>5. n = j
  <2> DEFINE T == {m \in 1 .. People : pt.proofs[m].participant = id}
  <2>1. \A m \in 1 .. People : pt.proofs[m].participant = Fixture.participants[m].id
    BY <1>1, <1>3, EntryFacts
  <2>2. T = {j}
    BY <1>2, <2>1, DealtAre
  <2>3. n = IF T # {} THEN Min(T) ELSE 0
    BY DEF FindProof, SelectInSeq
  <2>4. T \in SUBSET Nat
    BY <1>1
  <2> HIDE DEF T, n
  <2>5. Min(T) \in T
    BY <2>2, <2>4, LeastElement
  <2> QED
    BY <2>2, <2>3, <2>5
<1> DEFINE e == pt.proofs[j]
<1>6. /\ FindDealer(t.dealer) # 0 /\ FindParticipant(id) # 0
      /\ e.inputs = ProofPublicInputs(t, Simulation.dealers[FindDealer(t.dealer)],
                      Simulation.participants[FindParticipant(id)], t.shares[j].mask)
      /\ VerifyProof(e.inputs, e.proof) = NoError
  BY <1>1, <1>2, <1>3, EntryFacts
<1>7. IsInjective([m \in DOMAIN t.shares |-> t.shares[m].participant])
  BY <1>1, DealtAre DEF IsInjective
<1>8. j # 0 /\ VerifyMaskedShareCommitment(t.shares[j], t.poly)
  BY <1>1
<1> HIDE DEF t, position, n
<1> QED
  BY <1>4, <1>5, <1>6, <1>7, <1>8 DEF GoodFor, t, position, n

LEMMA BuildingIsComplete ==
  ASSUME BuildInv
  PROVE  BuiltCompletely
<1> SUFFICES ASSUME stage = "built", changes = 0
             PROVE  /\ {<<r.dealer, r.participant>> : r \in ToSet(reports)}
                         = ToSet(DealersOf(transcripts)) \X Everyone
                    /\ \A k \in DOMAIN reports :
                         reports[k].completed = k /\ reports[k].total = Len(reports)
                    /\ ValidateDealers(Simulation.config, transcripts) = NoError =>
                         \A id \in Everyone : AcceptableInput(proofed, id)
  BY DEF BuiltCompletely
<1>1. /\ Building /\ transcripts = Dealt /\ Len(proofed) = Len(Dealt) /\ entries = <<>>
      /\ Listed(reports) /\ Listed(proofed)
      /\ Len(reports) = completed /\ completed = Len(proofed) * People + Len(entries)
  BY DEF BuildInv, Building
<1>2. /\ DOMAIN Dealt = 1 .. Len(Dealt) /\ Len(Dealt) \in Nat /\ People \in Nat
      /\ Everyone = {Fixture.participants[j].id : j \in 1 .. People}
  BY DealtAre
<1>3. DOMAIN reports = 1 .. Len(reports) /\ DOMAIN proofed = 1 .. Len(Dealt)
  BY <1>1, ListedLength
<1>4. Len(reports) = Len(Dealt) * People
  <2> PICK product \in Int : product = Len(Dealt) * People
    BY <1>2
  <2> QED
    BY <1>1, EmptyListed
<1>5. ASSUME NEW j \in DOMAIN reports
      PROVE  /\ reports[j].completed = j /\ reports[j].total = Len(reports)
             /\ \E k \in 1 .. Len(Dealt) : reports[j].dealer = Dealt[k].dealer
             /\ reports[j].participant \in Everyone
  BY <1>1, <1>3, <1>4 DEF Building
<1>6. ASSUME NEW k \in 1 .. Len(Dealt)
      PROVE  /\ proofed[k].transcript = Dealt[k]
             /\ Proofs(proofed[k].proofs, k) /\ Len(proofed[k].proofs) = People
             /\ Told(k, People)
  <2>1. /\ proofed[k] = [transcript |-> Dealt[k], proofs |-> proofed[k].proofs]
        /\ Proofs(proofed[k].proofs, k) /\ Len(proofed[k].proofs) = People
        /\ Told(k, People)
    BY <1>1 DEF Building
  <2> QED
    BY <2>1
<1>7. ToSet(DealersOf(transcripts)) = {Dealt[k].dealer : k \in 1 .. Len(Dealt)}
  <2> HIDE DEF Dealt
  <2> QED
    BY <1>1, <1>2 DEF ToSet, DealersOf
<1>8. {<<r.dealer, r.participant>> : r \in ToSet(reports)}
        = ToSet(DealersOf(transcripts)) \X Everyone
  <2>1. \A r \in ToSet(reports) : \E j \in DOMAIN reports : r = reports[j]
    BY DEF ToSet
  <2>2. ASSUME NEW r \in ToSet(reports)
        PROVE  <<r.dealer, r.participant>> \in ToSet(DealersOf(transcripts)) \X Everyone
    BY <1>5, <1>7, <2>1
  <2>3. ASSUME NEW k \in 1 .. Len(Dealt), NEW m \in 1 .. People
        PROVE  \E r \in ToSet(reports) : /\ r.dealer = Dealt[k].dealer
                                         /\ r.participant = Fixture.participants[m].id
    <3>1. PICK j \in 1 .. Len(reports) : /\ reports[j].dealer = Dealt[k].dealer
                                         /\ reports[j].participant = Fixture.participants[m].id
      BY <1>6 DEF Told
    <3>2. reports[j] \in ToSet(reports)
      BY <1>3 DEF ToSet
    <3> QED
      BY <3>1, <3>2
  <2>4. ASSUME NEW d \in ToSet(DealersOf(transcripts)), NEW id \in Everyone
        PROVE  \E r \in ToSet(reports) : <<d, id>> = <<r.dealer, r.participant>>
    <3>1. PICK k \in 1 .. Len(Dealt) : d = Dealt[k].dealer
      BY <1>7
    <3>2. PICK m \in 1 .. People : id = Fixture.participants[m].id
      BY <1>2
    <3> QED
      BY <2>3, <3>1, <3>2
  <2> QED
    BY <2>2, <2>4
<1>9. ASSUME ValidateDealers(Simulation.config, transcripts) = NoError, NEW id \in Everyone
      PROVE  AcceptableInput(proofed, id)
  <2>1. /\ Simulation.config.threshold \in Nat
        /\ ~(Len(Dealt) < Simulation.config.threshold) /\ IsInjective(DealersOf(Dealt))
    BY <1>1, <1>9, DealersValidated, SimulationIs
  <2>2. \A k \in DOMAIN proofed : GoodFor(proofed[k], id)
    BY <1>2, <1>3, <1>6, PushedIsGood
  <2>3. FindParticipant(id) # 0
    <3>1. PICK j \in 1 .. People : id = Fixture.participants[j].id
      BY <1>2
    <3> QED
      BY <3>1, SimulationIs, DealtAre, FindByIdFound DEF People
  <2>4. IsInjective([k \in DOMAIN proofed |-> proofed[k].transcript.dealer])
    <3>1. \A j, k \in 1 .. Len(Dealt) : Dealt[j].dealer = Dealt[k].dealer => j = k
      BY <1>2, <2>1 DEF IsInjective, DealersOf
    <3> QED
      BY <1>3, <1>6, <3>1 DEF IsInjective
  <2> QED
    BY <1>1, <1>2, <2>1, <2>2, <2>3, <2>4 DEF AcceptableInput
<1> QED
  BY <1>5, <1>8, <1>9

\* A session that is built has reported every masked share of every dealer once, the
\* n-th report counting n of them, and its proofs let every participant recover
\* (from_fixture_with_progress, dkg.rs:71).
THEOREM CompleteSession == SessionSpec => []BuiltCompletely
<1>1. BuildInv => BuiltCompletely
  BY BuildingIsComplete
<1> QED
  BY <1>1, AlwaysBuilding, PTL


----------------------------------------------------------------------------
(* ProofedSession: shares and key *)

\* A proofed transcript that the caller may have spoilt: its dealer, its polynomial
\* and its proofs are those made for transcript k.
MadeFor(pt, k) ==
  /\ pt = [transcript |-> pt.transcript, proofs |-> pt.proofs]
  /\ pt.transcript \in Transcripts
  /\ pt.transcript.dealer = Dealt[k].dealer /\ pt.transcript.poly = Dealt[k].poly
  /\ Listed(pt.proofs)
  /\ \A m \in DOMAIN pt.proofs : \E j \in DOMAIN Dealt[k].shares :
       pt.proofs[m] \in ProofEntry(Dealt[k], Dealt[k].shares[j])

AllMade(pts) ==
  /\ Listed(pts)
  /\ \A i \in DOMAIN pts : \E k \in DOMAIN Dealt : MadeFor(pts[i], k)

AllDealt(ts) ==
  /\ Listed(ts)
  /\ \A i \in DOMAIN ts : \E k \in DOMAIN Dealt : ts[i] = Dealt[k]

\* What a recovered share and an aggregated key come from.
UseInv ==
  /\ BuildInv
  /\ stage = "built" => AllDealt(transcripts) /\ AllMade(proofed)
  /\ shares = [id \in Everyone |-> shares[id]]
  /\ \A id \in Recovered :
       /\ AllMade(shares[id].from) /\ AcceptableInput(shares[id].from, id)
       /\ shares[id].result.value = ShareOfInput(shares[id].from, id)
  /\ key # Nothing /\ key.result.ok =>
       /\ AllDealt(key.from) /\ IsInjective(DealersOf(key.from))
       /\ \A i \in DOMAIN key.from : key.from[i].poly # <<>>
       /\ key.result.value =
            FoldLeft(PointAdd, Identity, [i \in DOMAIN key.from |-> Head(key.from[i].poly)])

\* An edited sequence has members of the one before only.
LEMMA EditsDraw ==
  ASSUME NEW s, Listed(s), NEW e \in Edits(s)
  PROVE  Listed(e) /\ \A m \in DOMAIN e : \E l \in DOMAIN s : e[m] = s[l]
<1> PICK X : s \in Seq(X)
  BY DEF Listed
<1>1. CASE \E k \in DOMAIN s : e = RemoveAt(s, k)
  BY <1>1, RemovedFrom DEF Listed
<1>2. CASE \E k \in DOMAIN s : e = Append(s, s[k])
  <2> PICK k \in DOMAIN s : e = Append(s, s[k])
    BY <1>2
  <2>1. e \in Seq(X)
    OBVIOUS
  <2>2. \A m \in DOMAIN e : \E l \in DOMAIN s : e[m] = s[l]
    OBVIOUS
  <2> QED
    BY <2>1, <2>2 DEF Listed
<1>3. CASE e = Reverse(s)
  <2> PICK n \in Nat : n = Len(s)
    OBVIOUS
  <2>1. e = [i \in 1 .. n |-> s[(n - i) + 1]] /\ DOMAIN s = 1 .. n
    BY <1>3 DEF Reverse
  <2>2. \A i \in 1 .. n : (n - i) + 1 \in 1 .. n /\ s[(n - i) + 1] \in X
    OBVIOUS
  <2>3. e \in Seq(X)
    BY <2>1, <2>2
  <2>4. \A m \in DOMAIN e : \E l \in DOMAIN s : e[m] = s[l]
    BY <2>1, <2>2
  <2> QED
    BY <2>3, <2>4 DEF Listed
<1> QED
  BY <1>1, <1>2, <1>3 DEF Edits

LEMMA SpoiltStaysMade ==
  ASSUME NEW pts, AllMade(pts), NEW v \in Spoilt(pts)
  PROVE  AllMade(v)
<1> PICK n \in DOMAIN pts : v = [pts EXCEPT ![n].transcript.shares[1].value = Add(@, 1)]
  BY DEF Spoilt
<1> PICK X : pts \in Seq(X)
  BY DEF AllMade, Listed
<1> PICK k \in DOMAIN Dealt : MadeFor(pts[n], k)
  BY DEF AllMade
<1> DEFINE pt == pts[n]
           t == pt.transcript
           s == [t.shares[1] EXCEPT !.value = Add(t.shares[1].value, 1)]
           shares2 == [t.shares EXCEPT ![1] = s]
           t2 == [t EXCEPT !.shares = shares2]
           pt2 == [pt EXCEPT !.transcript = t2]
           S == [participant : Nat, value : Scalars, mask : Points]
<1>1. v = [pts EXCEPT ![n] = pt2]
  OBVIOUS
<1>2. t \in Transcripts /\ t.shares \in Seq(S)
  BY DEF MadeFor, Transcripts
<1>3. shares2 \in Seq(S)
  <2>1. CASE 1 \in DOMAIN t.shares
    <3>1. t.shares[1] \in S /\ Add(t.shares[1].value, 1) \in Scalars
      <4>1. t.shares[1] \in S
        BY <1>2, <2>1, ElementType
      <4>2. t.shares[1].value \in Int
        BY <4>1, ResiduesAreIntegers
      <4> QED
        BY <4>1, <4>2, Closure
    <3>2. s \in S
      BY <3>1
    <3>3. \A list \in Seq(S) : \A x \in S : [list EXCEPT ![1] = x] \in Seq(S)
      <4> TAKE list \in Seq(S)
      <4> TAKE x \in S
      <4> HIDE DEF S
      <4> PICK len \in Nat : len = Len(list)
        OBVIOUS
      <4>1. list \in [1 .. len -> S]
        OBVIOUS
      <4>2. [list EXCEPT ![1] = x] \in [1 .. len -> S]
        BY <4>1
      <4>3. [1 .. len -> S] \subseteq Seq(S)
        OBVIOUS
      <4> QED
        BY <4>2, <4>3
    <3> HIDE DEF s, t, S
    <3> QED
      BY <1>2, <3>2, <3>3
  <2>2. CASE 1 \notin DOMAIN t.shares
    <3>1. shares2 = t.shares
      BY <1>2, <2>2
    <3> QED
      BY <1>2, <3>1
  <2> QED
    BY <2>1, <2>2
<1> HIDE DEF shares2
<1>4. t2 \in Transcripts /\ t2.dealer = t.dealer /\ t2.poly = t.poly
  BY <1>2, <1>3 DEF Transcripts
<1> HIDE DEF t2
<1>5. pt2 = [transcript |-> t2, proofs |-> pt.proofs] /\ pt2.transcript = t2
      /\ pt2.proofs = pt.proofs
  BY DEF MadeFor
<1>6. MadeFor(pt2, k)
  <2> HIDE DEF pt2
  <2> QED
    BY <1>4, <1>5 DEF MadeFor
<1> HIDE DEF pt2
<1>7. /\ v \in Seq(X \cup {pt2}) /\ DOMAIN v = DOMAIN pts
      /\ \A i \in DOMAIN v : i # n => v[i] = pts[i]
      /\ v[n] = pt2
  BY <1>1
<1>8. Listed(v)
  BY <1>7 DEF Listed
<1> QED
  BY <1>6, <1>7, <1>8 DEF AllMade

\* What an aggregated key says of the transcripts it is from.
LEMMA KeyFacts ==
  ASSUME PublicKey.ok
  PROVE  /\ IsInjective(DealersOf(transcripts))
         /\ \A i \in DOMAIN transcripts : transcripts[i].poly # <<>>
         /\ PublicKey.value =
              FoldLeft(PointAdd, Identity, [i \in DOMAIN transcripts |-> Head(transcripts[i].poly)])
<1> DEFINE s == [Simulation EXCEPT !.transcripts = transcripts]
           verified == VerifyForParticipant(transcripts, s.participants[1].id)
           aggregate == AggregatePublicKey(s.config, transcripts)
<1>1. PublicKey = SimulationPublicKey(s)
  BY DEF PublicKey, Err
<1>2. s.transcripts = transcripts
  <2>1. Simulation = [config       |-> NewConfig(Fixture.threshold, ParticipantIds(Fixture)).value,
                      session      |-> Fixture.session,
                      participants |-> Fixture.participants,
                      dealers      |-> Fixture.dealers,
                      transcripts  |-> [k \in DOMAIN Fixture.dealers |->
                                          BuildDealerTranscript(Fixture, Fixture.dealers[k])]]
    <3>1. NewConfig(Fixture.threshold, ParticipantIds(Fixture)).ok
      BY SimulationIs DEF RunFixture
    <3> QED
      BY <3>1, SimulationIs DEF RunFixture, Ok
  <2> QED
    BY <2>1
<1>3. SimulationPublicKey(s) = IF ~verified.ok THEN verified ELSE aggregate
  BY <1>2 DEF SimulationPublicKey
<1> HIDE DEF verified
<1>4. aggregate.ok /\ PublicKey.value = aggregate.value
  BY <1>1, <1>3
<1>5. /\ ValidateDealers(s.config, transcripts) = NoError
      /\ \A i \in DOMAIN transcripts : transcripts[i].poly # <<>>
      /\ aggregate.value =
           FoldLeft(PointAdd, Identity, [i \in DOMAIN transcripts |-> Head(transcripts[i].poly)])
  BY <1>4 DEF AggregatePublicKey, Ok, Err
<1> QED
  BY <1>4, <1>5, DealersValidated

LEMMA InitUsed == SessionInit => UseInv
<1> SUFFICES ASSUME SessionInit PROVE UseInv
  OBVIOUS
<1>1. stage = "proving" /\ shares = [id \in Everyone |-> Nothing] /\ key = Nothing
  BY DEF SessionInit
<1>2. Recovered = {}
  BY <1>1 DEF Recovered
<1> QED
  BY <1>1, <1>2, InitBuilding DEF UseInv

LEMMA NextUsed == UseInv /\ [SessionNext]_sessionVars => UseInv'
<1> SUFFICES ASSUME UseInv, [SessionNext]_sessionVars PROVE UseInv'
  OBVIOUS
<1>1. /\ BuildInv /\ BuildInv' /\ Everyone' = Everyone /\ Dealt' = Dealt
      /\ shares = [id \in Everyone |-> shares[id]]
      /\ stage = "built" => AllDealt(transcripts) /\ AllMade(proofed)
  BY NextBuilding DEF UseInv, Everyone, Dealt
<1> DEFINE FieldsInv == stage = "built" => AllDealt(transcripts) /\ AllMade(proofed)
           ShareOf(id) == /\ AllMade(shares[id].from) /\ AcceptableInput(shares[id].from, id)
                          /\ shares[id].result.value = ShareOfInput(shares[id].from, id)
           SharesInv == /\ shares = [id \in Everyone |-> shares[id]]
                        /\ \A id \in Recovered : ShareOf(id)
           KeyInv ==
             key # Nothing /\ key.result.ok =>
               /\ AllDealt(key.from) /\ IsInjective(DealersOf(key.from))
               /\ \A i \in DOMAIN key.from : key.from[i].poly # <<>>
               /\ key.result.value =
                    FoldLeft(PointAdd, Identity, [i \in DOMAIN key.from |-> Head(key.from[i].poly)])
<1>2. /\ UseInv <=> BuildInv /\ FieldsInv /\ SharesInv /\ KeyInv
      /\ UseInv' <=> BuildInv' /\ FieldsInv' /\ SharesInv' /\ KeyInv'
  BY DEF UseInv
<1>3. UNCHANGED <<stage, transcripts, proofed>> => FieldsInv'
  BY <1>2, SMTT(30) DEF AllDealt, AllMade, MadeFor, Dealt
<1>4. UNCHANGED shares => SharesInv'
  <2> SUFFICES ASSUME UNCHANGED shares PROVE SharesInv'
    OBVIOUS
  <2>1. Recovered' = Recovered
    BY <1>1 DEF Recovered
  <2>2. \A id \in Recovered : ShareOf(id)'
    BY <1>2
  <2> QED
    BY <1>1, <2>1, <2>2
<1>5. UNCHANGED key => KeyInv'
  BY <1>2 DEF AllDealt, Dealt
<1>6. ASSUME ProveNext \/ ProveFails \/ Push PROVE UseInv'
  <2>1. stage' # "built" /\ UNCHANGED <<shares, key>>
    BY <1>6 DEF ProveNext, ProveFails, Push, Proving
  <2> QED
    BY <1>1, <1>2, <1>4, <1>5, <2>1
<1>7. CASE Built
  <2>1. /\ stage = "proving" /\ Len(proofed) = Len(transcripts) /\ stage' = "built"
        /\ UNCHANGED <<transcripts, proofed, shares, key>>
    BY <1>7 DEF Built
  <2>2. Building /\ transcripts = Dealt
    BY <1>1, <2>1 DEF BuildInv, Building
  <2>3. AllDealt(transcripts)
    BY <2>2, DealtAre DEF AllDealt
  <2>4. AllMade(proofed)
    <3>1. Listed(proofed) /\ DOMAIN proofed = 1 .. Len(proofed)
          /\ Len(proofed) = Len(Dealt) /\ DOMAIN Dealt = 1 .. Len(Dealt)
      BY <2>1, <2>2, DealtAre, ListedLength DEF Building
    <3>2. ASSUME NEW k \in DOMAIN proofed PROVE k \in DOMAIN Dealt /\ MadeFor(proofed[k], k)
      <4>1. /\ proofed[k] = [transcript |-> Dealt[k], proofs |-> proofed[k].proofs]
            /\ Proofs(proofed[k].proofs, k) /\ Len(proofed[k].proofs) = People
        BY <2>2, <3>1 DEF Building
      <4>2. k \in DOMAIN Dealt /\ Dealt[k] \in Transcripts /\ DOMAIN Dealt[k].shares = 1 .. People
        BY <3>1, DealtAsSent
      <4>3. proofed[k].transcript = Dealt[k]
        BY <4>1
      <4>4. Listed(proofed[k].proofs) /\ DOMAIN proofed[k].proofs = 1 .. People
            /\ \A m \in 1 .. People :
                 proofed[k].proofs[m] \in ProofEntry(Dealt[k], Dealt[k].shares[m])
        BY <4>1, ListedLength DEF Proofs
      <4> QED
        BY <4>1, <4>2, <4>3, <4>4 DEF MadeFor
    <3> QED
      BY <3>1, <3>2 DEF AllMade
  <2>5. FieldsInv'
    BY <2>1, <2>3, <2>4 DEF AllDealt, AllMade, MadeFor, Dealt
  <2> QED
    BY <1>1, <1>2, <1>4, <1>5, <2>1, <2>5
<1>8. CASE Change
  <2>1. /\ stage = "built" /\ AllDealt(transcripts) /\ AllMade(proofed)
        /\ \/ transcripts' \in Edits(transcripts) /\ UNCHANGED proofed
           \/ proofed' \in Edits(proofed) \cup Spoilt(proofed) /\ UNCHANGED transcripts
        /\ UNCHANGED <<stage, shares, key>>
    BY <1>1, <1>8 DEF Change
  <2>2. \A e \in Edits(transcripts) : AllDealt(e)
    BY <2>1, EditsDraw DEF AllDealt
  <2>3. \A e \in Edits(proofed) : AllMade(e)
    BY <2>1, EditsDraw DEF AllMade
  <2>4. \A v \in Spoilt(proofed) : AllMade(v)
    BY <2>1, SpoiltStaysMade
  <2>5. \A ts : AllDealt(ts)' <=> AllDealt(ts)
    BY DEF AllDealt, Dealt
  <2>6. AllDealt(transcripts)'
    <3>1. \E ts : ts = transcripts' /\ AllDealt(ts)
      BY <2>1, <2>2
    <3> QED
      BY <3>1 DEF AllDealt, Dealt
  <2>7. AllMade(proofed)'
    <3>1. \E pts : pts = proofed' /\ AllMade(pts)
      BY <2>1, <2>3, <2>4
    <3> QED
      BY <3>1 DEF AllMade, MadeFor, Dealt
  <2> QED
    BY <1>1, <1>2, <1>4, <1>5, <2>1, <2>6, <2>7
<1>9. ASSUME NEW id \in Everyone, RecoverParticipant(id) PROVE UseInv'
  <2>1. /\ stage = "built" /\ AllMade(proofed) /\ UNCHANGED <<stage, transcripts, proofed, key>>
        /\ shares' = [shares EXCEPT ![id] =
             [result |-> IF AcceptableInput(proofed, id)
                         THEN Ok(ShareOfInput(proofed, id)) ELSE Err("refused"),
              from |-> proofed]]
    BY <1>1, <1>9 DEF RecoverParticipant
  <2>2. /\ shares' = [a \in Everyone |-> shares'[a]] /\ shares'[id].from = proofed
        /\ \A a \in Everyone \ {id} : shares'[a] = shares[a]
        /\ shares'[id].result = IF AcceptableInput(proofed, id)
                                THEN Ok(ShareOfInput(proofed, id)) ELSE Err("refused")
    BY <1>1, <2>1
  <2>3. ASSUME NEW a \in Recovered' PROVE ShareOf(a)'
    <3>1. a \in Everyone /\ shares'[a] # Nothing /\ shares'[a].result.ok
      BY <1>1 DEF Recovered
    <3>2. CASE a = id
      <4>1. AcceptableInput(proofed, id) /\ shares'[a].result.value = ShareOfInput(proofed, id)
        BY <2>2, <3>1, <3>2 DEF Ok, Err
      <4> QED
        BY <2>1, <2>2, <3>2, <4>1
          
    <3>3. CASE a # id
      <4>1. a \in Recovered /\ shares'[a] = shares[a]
        BY <2>2, <3>1, <3>3 DEF Recovered
      <4>2. ShareOf(a)
        BY <1>2, <4>1
      <4> QED
        BY <4>1, <4>2
    <3> QED
      BY <3>2, <3>3
  <2>4. SharesInv'
    BY <1>1, <2>2, <2>3
  <2> QED
    BY <1>1, <1>2, <1>3, <1>5, <2>1, <2>4
<1>10. CASE AggregatePublicKeyOfSession
  <2>1. /\ stage = "built" /\ AllDealt(transcripts)
        /\ UNCHANGED <<stage, transcripts, proofed, shares>>
        /\ key' = [result |-> PublicKey, from |-> transcripts]
    BY <1>1, <1>10 DEF AggregatePublicKeyOfSession
  <2>2. key'.result = PublicKey /\ key'.from = transcripts
    BY <2>1
  <2>3. KeyInv'
    BY <2>1, <2>2, KeyFacts DEF AllDealt, Dealt
  <2> QED
    BY <1>1, <1>2, <1>3, <1>4, <2>1, <2>3
<1>11. CASE UNCHANGED sessionVars
  BY <1>1, <1>2, <1>3, <1>4, <1>5, <1>11 DEF sessionVars
<1> QED
  BY <1>6, <1>7, <1>8, <1>9, <1>10, <1>11 DEF SessionNext

LEMMA AlwaysUsed == SessionSpec => []UseInv
  BY InitUsed, NextUsed, PTL DEF SessionSpec


\* The term that a transcript contributes to an accepted share.
Term(pt, id) ==
  LET t == pt.transcript
      dealer == Simulation.dealers[FindDealer(t.dealer)]
      person == Simulation.participants[FindParticipant(id)]
      mine == t.shares[FirstShare(t, id)]
  IN  Sub(mine.value,
          DealerWitness(ProofPublicInputs(t, dealer, person, mine.mask), dealer, person).mask)

\* It is the value of the dealer's polynomial: the proof binds the mask that is
\* subtracted, the commitment equation the masked value.
LEMMA TermIsEvaluation ==
  ASSUME NEW k \in DOMAIN Dealt, NEW pt, MadeFor(pt, k), NEW id \in Everyone, GoodFor(pt, id)
  PROVE  Term(pt, id) = Evaluate(Fixture.dealers[k].coefficients, FromU64(id))
<1> DEFINE t == pt.transcript
           c == Fixture.dealers[k].coefficients
           d == FindDealer(t.dealer)
           j == FindParticipant(id)
           dealer == Simulation.dealers[d]
           person == Simulation.participants[j]
           mine == t.shares[FirstShare(t, id)]
           inputs == ProofPublicInputs(t, dealer, person, mine.mask)
           w == DealerWitness(inputs, dealer, person).mask
           x == FromU64(id)
<1>1. /\ t \in Transcripts /\ t.dealer = Dealt[k].dealer /\ t.poly = Dealt[k].poly
      /\ Listed(pt.proofs)
      /\ \A m \in DOMAIN pt.proofs : \E i \in DOMAIN Dealt[k].shares :
           pt.proofs[m] \in ProofEntry(Dealt[k], Dealt[k].shares[i])
  BY DEF MadeFor
<1>2. /\ k \in DOMAIN Fixture.dealers /\ t.poly = CommitPolynomial(c)
      /\ c \in Seq(Scalars) /\ Seq(Scalars) \subseteq Seq(Int)
  BY <1>1, DealtAsSent, ResiduesAreIntegers
<1> DEFINE n == FindProof(pt, id)
           e == pt.proofs[n]
<1>3. /\ d # 0 /\ j # 0 /\ FirstShare(t, id) # 0 /\ n # 0
      /\ e.inputs = inputs /\ VerifyMaskedShareCommitment(mine, t.poly)
  BY DEF GoodFor
<1>4. n \in DOMAIN pt.proofs /\ e.participant = id
  <2> DEFINE T == {m \in 1 .. Len(pt.proofs) : pt.proofs[m].participant = id}
  <2>1. n = IF T # {} THEN Min(T) ELSE 0
    BY DEF FindProof, SelectInSeq
  <2>2. T \in SUBSET Nat /\ DOMAIN pt.proofs = 1 .. Len(pt.proofs)
    BY <1>1, ListedLength
  <2>3. T # {} => Min(T) \in T
    BY <2>2, LeastElement
  <2> HIDE DEF n
  <2> QED
    BY <1>3, <2>1, <2>2, <2>3
<1>5. PICK i \in DOMAIN Dealt[k].shares : e \in ProofEntry(Dealt[k], Dealt[k].shares[i])
  BY <1>1, <1>4
<1>6. mine.mask = GeneratorMul(w)
  <2> DEFINE masked == Dealt[k].shares[i]
  <2>1. /\ e.participant = masked.participant
        /\ e.inputs = ProofPublicInputs(Dealt[k], Simulation.dealers[FindDealer(Dealt[k].dealer)],
             Simulation.participants[FindParticipant(masked.participant)], masked.mask)
        /\ masked.mask = GeneratorMul(DealerWitness(e.inputs,
             Simulation.dealers[FindDealer(Dealt[k].dealer)],
             Simulation.participants[FindParticipant(masked.participant)]).mask)
    BY <1>5, EntryFacts
  <2>2. masked.participant = id /\ e.inputs = inputs
    BY <1>3, <1>4, <2>1
  <2>3. inputs.mask = mine.mask /\ e.inputs.mask = masked.mask
    <3> HIDE DEF t, dealer, person, mine, e, n, masked
    <3>1. inputs.mask = mine.mask
      BY DEF ProofPublicInputs
    <3>2. PICK a, b, p : e.inputs = ProofPublicInputs(a, b, p, masked.mask)
      BY <2>1
    <3>3. e.inputs.mask = masked.mask
      BY <3>2 DEF ProofPublicInputs
    <3> QED
      BY <3>1, <3>3
  <2> HIDE DEF masked, inputs, e, mine
  <2> QED
    BY <1>1, <2>1, <2>2, <2>3
<1>7. /\ d \in DOMAIN Fixture.dealers /\ j \in DOMAIN Fixture.participants
      /\ person.id = id /\ dealer = Fixture.dealers[d] /\ person = Fixture.participants[j]
  <2>1. /\ DOMAIN Fixture.dealers = 1 .. Len(Fixture.dealers)
        /\ DOMAIN Fixture.participants = 1 .. Len(Fixture.participants)
    BY SimulationIs, FixtureTypes
  <2> QED
    BY <1>3, <2>1, SimulationIs, FindByIdFound
<1>8. id \in Nat /\ x \in Int
  <2>1. id \in Nat /\ id \in Int
    <3>1. Everyone \subseteq Nat
      BY DealtAre
    <3> QED
      BY <3>1
  <2>2. \A a \in Int : a % P \in 0 .. (P - 1)
    BY Remainder, FieldAssumption
  <2>3. x = id % P /\ 0 .. (P - 1) \subseteq Int
    BY DEF FromU64
  <2> HIDE DEF x
  <2> QED
    BY <2>1, <2>2, <2>3
<1>9. w \in Scalars
  <2>1. /\ dealer.secret \in 0 .. (Q - 1) /\ person.secret \in 0 .. (Q - 1)
        /\ Simulation.session \in Int /\ t.dealer \in Int /\ person.id \in Int
        /\ t.poly \in Seq(Int)
    <3>1. /\ Fixture.dealers[d].secret \in 0 .. (Q - 1) /\ Fixture.session \in Int
          /\ Fixture.participants[j].secret \in 0 .. (Q - 1)
      BY <1>7, SimulationIs, FixtureTypes
    <3>2. t.dealer \in Int /\ t.poly \in Seq(Points) /\ Seq(Points) \subseteq Seq(Int)
      BY <1>1, ResiduesAreIntegers DEF Transcripts
    <3> HIDE DEF t, d, j
    <3> QED
      BY <1>7, <1>8, <3>1, <3>2, SimulationIs
  <2> HIDE DEF dealer, person, t
  <2>2. HelperPublic(dealer.secret) \in 0 .. (Q - 1) /\ HelperPublic(person.secret) \in 0 .. (Q - 1)
    <3>1. \A y \in 0 .. (Q - 1) : y * HelperGenerator \in Int
      BY HelperAssumption
    <3> QED
      BY <2>1, <3>1, Remainder, HelperAssumption DEF HelperPublic
  <2>3. HelperPublic(dealer.secret) \in Int /\ HelperPublic(person.secret) \in Int
    BY <2>2
  <2>4. DiffieHellman(dealer.secret, HelperPublic(person.secret)) \in Int
    BY <2>1, <2>2, DiffieHellmanType
  <2>5. MaskTranscript(inputs) =
          DkgMaskTranscript(Simulation.session, t.dealer, person.id, HelperPublic(dealer.secret),
                            HelperPublic(person.secret), t.poly)
    BY DEF MaskTranscript, ProofPublicInputs
  <2>6. w = DeriveMask(DiffieHellman(dealer.secret, HelperPublic(person.secret)),
                       MaskTranscript(inputs))
    BY DEF DealerWitness
  <2> HIDE DEF inputs, w
  <2> QED
    BY <2>1, <2>3, <2>4, <2>5, <2>6, MaskType
<1>10. mine.value \in Scalars /\ mine.participant = id
  <2> DEFINE S == [participant : Nat, value : Scalars, mask : Points]
  <2>1. FirstShare(t, id) \in DOMAIN t.shares /\ mine.participant = id
    BY <1>1, <1>3, FirstShareFound
  <2>2. mine \in S
    BY <1>1, <2>1, ElementType DEF Transcripts
  <2> QED
    BY <2>1, <2>2
<1> HIDE DEF t, mine, w, c, x
<1>11. /\ Evaluate(c, x) \in Scalars /\ Evaluate(c, x) \in Int
       /\ GeneratorMul(Evaluate(c, x)) \in Points
  BY <1>2, <1>8, EvaluateType, ResiduesAreIntegers, Closure
<1>12. GeneratorMul(mine.value) = PointAdd(GeneratorMul(Evaluate(c, x)), GeneratorMul(w))
  <2>1. EvaluatePublicPolynomial(t.poly, id) = GeneratorMul(Evaluate(c, x))
    BY <1>2, <1>8, PublicEvaluation, CommittedEvaluation DEF x
  <2> QED
    BY <1>3, <1>6, <1>10, <2>1 DEF VerifyMaskedShareCommitment
<1>13. GeneratorMul(Sub(mine.value, w)) = GeneratorMul(Evaluate(c, x))
  BY <1>9, <1>10, <1>11, <1>12, UnmaskedShare
<1>14. Sub(mine.value, w) \in Scalars
  BY <1>9, <1>10, Closure, ResiduesAreIntegers
<1>15. Sub(mine.value, w) = Evaluate(c, x)
  BY <1>11, <1>13, <1>14, GeneratorMulInjective
<1> QED
  BY <1>15 DEF Term, t, mine, w, c, x


\* The polynomials behind proofed transcripts.
MakerOf(pt) == CHOOSE k \in DOMAIN Dealt : MadeFor(pt, k)
Polys(pts) == [i \in DOMAIN pts |-> Fixture.dealers[MakerOf(pts[i])].coefficients]

LEMMA PolysType ==
  ASSUME NEW pts, AllMade(pts)
  PROVE  /\ Polys(pts) \in Seq(Seq(Int)) /\ DOMAIN Polys(pts) = DOMAIN pts
         /\ DOMAIN pts = 1 .. Len(pts) /\ Len(Polys(pts)) = Len(pts) /\ Len(pts) \in Nat
         /\ \A i \in DOMAIN pts :
              /\ MakerOf(pts[i]) \in DOMAIN Dealt /\ MadeFor(pts[i], MakerOf(pts[i]))
              /\ Polys(pts)[i] = Fixture.dealers[MakerOf(pts[i])].coefficients
              /\ Polys(pts)[i] \in Seq(Scalars) /\ Polys(pts)[i] \in Seq(Int)
              /\ MakerOf(pts[i]) \in DOMAIN Fixture.dealers
              /\ pts[i].transcript.poly = CommitPolynomial(Polys(pts)[i])
<1>1. DOMAIN pts = 1 .. Len(pts) /\ Len(pts) \in Nat
  BY ListedLength DEF AllMade
<1>2. ASSUME NEW i \in DOMAIN pts
      PROVE  /\ MakerOf(pts[i]) \in DOMAIN Dealt /\ MadeFor(pts[i], MakerOf(pts[i]))
             /\ Polys(pts)[i] = Fixture.dealers[MakerOf(pts[i])].coefficients
             /\ Polys(pts)[i] \in Seq(Scalars) /\ Polys(pts)[i] \in Seq(Int)
             /\ MakerOf(pts[i]) \in DOMAIN Fixture.dealers
             /\ pts[i].transcript.poly = CommitPolynomial(Polys(pts)[i])
  <2> DEFINE k == MakerOf(pts[i])
  <2>1. k \in DOMAIN Dealt /\ MadeFor(pts[i], k)
    <3>1. \E n \in DOMAIN Dealt : MadeFor(pts[i], n)
      BY DEF AllMade
    <3> QED
      BY <3>1 DEF MakerOf
  <2>2. Polys(pts)[i] = Fixture.dealers[k].coefficients
    BY DEF Polys
  <2> HIDE DEF k
  <2>3. /\ k \in DOMAIN Fixture.dealers
        /\ Fixture.dealers[k].coefficients \in Seq(Scalars)
        /\ Dealt[k].poly = CommitPolynomial(Fixture.dealers[k].coefficients)
        /\ Seq(Scalars) \subseteq Seq(Int)
    BY <2>1, DealtAsSent, ResiduesAreIntegers
  <2>4. pts[i].transcript.poly = Dealt[k].poly
    BY <2>1 DEF MadeFor
  <2> QED
    BY <2>1, <2>2, <2>3, <2>4 DEF k
<1>3. ASSUME NEW V, NEW n \in Nat, NEW f, f = [i \in 1 .. n |-> f[i]], \A i \in 1 .. n : f[i] \in V
      PROVE  f \in Seq(V) /\ Len(f) = n
  <2>1. f \in [1 .. n -> V]
    BY <1>3
  <2> QED
    BY <2>1
<1>4. Polys(pts) = [i \in 1 .. Len(pts) |-> Polys(pts)[i]]
  BY <1>1 DEF Polys
<1>5. Polys(pts) \in Seq(Seq(Int)) /\ Len(Polys(pts)) = Len(pts)
  BY <1>1, <1>2, <1>3, <1>4
<1> QED
  BY <1>1, <1>2, <1>4, <1>5

\* An accepted share is the sum of those polynomials' values at the participant.
LEMMA ShareIsPolySum ==
  ASSUME NEW pts, AllMade(pts), NEW id \in Everyone, AcceptableInput(pts, id)
  PROVE  ShareOfInput(pts, id) = PolySum(Polys(pts), Len(Polys(pts)), FromU64(id))
<1> DEFINE a == [i \in DOMAIN pts |-> Term(pts[i], id)]
           b == [i \in 1 .. Len(Polys(pts)) |-> Evaluate(Polys(pts)[i], FromU64(id))]
<1>1. ShareOfInput(pts, id) = SumOf(a)
  BY DEF ShareOfInput, Term
<1>2. ASSUME NEW i \in DOMAIN pts
      PROVE  Term(pts[i], id) = Evaluate(Polys(pts)[i], FromU64(id))
  <2>1. /\ MakerOf(pts[i]) \in DOMAIN Dealt /\ MadeFor(pts[i], MakerOf(pts[i]))
        /\ Polys(pts)[i] = Fixture.dealers[MakerOf(pts[i])].coefficients
    BY PolysType
  <2>2. GoodFor(pts[i], id)
    BY DEF AcceptableInput
  <2> QED
    BY <2>1, <2>2, TermIsEvaluation
<1>3. DOMAIN pts = 1 .. Len(Polys(pts))
  BY PolysType
<1>4. a = b
  BY <1>2, <1>3
<1> QED
  BY <1>1, <1>4 DEF PolySum

\* The shares of a quorum, all recovered from the same proofed transcripts,
\* interpolate to the sum of the polynomials at zero.
LEMMA QuorumsSecret ==
  ASSUME UseInv, OrdinaryDealers, NEW S \in SessionQuorums, NEW id \in S
  PROVE  LET p == Polys(shares[id].from) IN
         /\ id \in Recovered /\ AllMade(shares[id].from) /\ AcceptableInput(shares[id].from, id)
         /\ SecretsOf(S) = {PolySum(p, Len(p), 0)}
<1> DEFINE pts == shares[id].from
           ids == SetToSeq(S)
           x == [k \in DOMAIN ids |-> FromU64(ids[k])]
           y == [k \in DOMAIN ids |-> shares[ids[k]].result.value]
           s == [k \in DOMAIN ids |-> <<FromU64(ids[k]), shares[ids[k]].result.value>>]
           p == Polys(pts)
           n == Len(p)
           size == Fixture.threshold
<1>1. /\ S \in SUBSET Recovered /\ Cardinality(S) = size
      /\ \A a \in S : shares[a].from = pts
  BY DEF SessionQuorums
<1>2. size \in Nat /\ size # 0 /\ Everyone \subseteq Nat /\ IsFiniteSet(Everyone)
  <2>1. size \in Nat /\ size # 0
    BY SimulationIs, FixtureTypes, RunIsFaithful
  <2>2. Everyone \subseteq Nat /\ Everyone = {Fixture.participants[j].id : j \in 1 .. People}
        /\ People \in Nat /\ People # 0
    BY DealtAre
  <2>3. IsFiniteSet(1 .. People)
    BY <2>2, FS_Interval
  <2>4. IsFiniteSet(Everyone)
    <3> DEFINE g == [j \in 1 .. People |-> Fixture.participants[j].id]
    <3>1. g \in Surjection(1 .. People, Everyone)
      BY <2>2 DEF Surjection
    <3> HIDE DEF g
    <3> QED
      BY <2>3, <3>1, FS_Surjection
  <2> QED
    BY <2>1, <2>2, <2>4
<1>3. Recovered \subseteq Everyone /\ S \subseteq Everyone /\ IsFiniteSet(S)
  <2>1. Recovered \subseteq Everyone
    BY DEF Recovered
  <2> QED
    BY <1>1, <1>2, <2>1, FS_Subset
<1>4. /\ DOMAIN ids = 1 .. size
      /\ \A k \in DOMAIN ids : ids[k] \in S /\ ids[k] \in Everyone /\ ids[k] \in Nat
      /\ \A j, k \in DOMAIN ids : ids[j] = ids[k] => j = k
  BY <1>1, <1>2, <1>3, SetAsSequence
<1>5. /\ x \in Seq(Scalars) /\ x # <<>> /\ DOMAIN x = DOMAIN ids
      /\ \A k \in DOMAIN ids : x[k] = FromU64(ids[k]) /\ x[k] \in Scalars
  <2>1. \A k \in DOMAIN ids : FromU64(ids[k]) \in Scalars
    <3> HIDE DEF ids
    <3>1. \A k \in DOMAIN ids : ids[k] \in Int /\ FromU64(ids[k]) = ids[k] % P
      BY <1>4 DEF FromU64
    <3> QED
      BY <3>1, Remainder, FieldAssumption, ResiduesAreIntegers
  <2> HIDE DEF ids
  <2> QED
    BY <1>2, <1>4, <2>1
<1> HIDE DEF ids
<1>6. DistinctPoints(x)
  <2> HIDE DEF x
  <2>1. \A j, k \in DOMAIN x : x[j] = x[k] => j = k
    BY <1>4, <1>5 DEF OrdinaryDealers
  <2> QED
    BY <1>5, <2>1 DEF DistinctPoints
<1>7. \A a \in S : /\ AllMade(pts) /\ AcceptableInput(pts, a)
                   /\ shares[a].result.value = ShareOfInput(pts, a)
  <2>1. \A a \in Recovered : /\ AllMade(shares[a].from) /\ AcceptableInput(shares[a].from, a)
                             /\ shares[a].result.value = ShareOfInput(shares[a].from, a)
    BY DEF UseInv
  <2> HIDE DEF pts
  <2> QED
    BY <1>1, <2>1
<1>8. p \in Seq(Seq(Int)) /\ n \in Nat /\ \A d \in DOMAIN p : Len(p[d]) <= size
  <2>1. AllMade(pts)
    BY <1>7
  <2>2. /\ p \in Seq(Seq(Int)) /\ DOMAIN p = DOMAIN pts
        /\ \A i \in DOMAIN pts : /\ p[i] = Fixture.dealers[MakerOf(pts[i])].coefficients
                                 /\ MakerOf(pts[i]) \in DOMAIN Fixture.dealers
    BY <2>1, PolysType
  <2>3. n \in Nat
    BY <2>2
  <2> HIDE DEF p, pts
  <2> QED
    BY <2>2, <2>3 DEF OrdinaryDealers
<1>9. Cardinality(DOMAIN x) = size
  <2>1. Cardinality(1 .. size) = size
    <3>1. 1 <= size /\ 1 \in Int /\ size \in Int
      BY <1>2
    <3> QED
      BY <1>2, <3>1, FS_Interval
  <2> QED
    BY <1>4, <1>5, <2>1
<1>10. \A k \in DOMAIN ids : y[k] = PolySum(p, n, x[k])
  <2>1. \A a \in S : shares[a].result.value = PolySum(p, n, FromU64(a))
    BY <1>3, <1>7, ShareIsPolySum
  <2> HIDE DEF p, pts, x
  <2> QED
    BY <1>4, <1>5, <2>1
<1>11. \A k \in DOMAIN ids : PolySum(p, n, x[k]) \in Scalars
  <2> HIDE DEF p, x, ids
  <2>1. \A k \in DOMAIN ids : x[k] \in Int
    BY <1>5, ResiduesAreIntegers
  <2> QED
    BY <1>8, <2>1, PolySumType
<1>12. Samples(s, x, y)
  <2>1. \A k \in DOMAIN ids : s[k] = <<x[k], y[k]>> /\ y[k] \in Scalars
    BY <1>10, <1>11
  <2>2. DOMAIN s = DOMAIN x
    OBVIOUS
  <2> HIDE DEF s, x, y
  <2> QED
    BY <1>5, <2>1, <2>2 DEF Samples
<1>13. InterpolateAtZero(s) = {SumOf(Weighted(y, x, DOMAIN x))}
  <2> HIDE DEF s, x, y
  <2> QED
    BY <1>5, <1>6, <1>12, InterpolatedSamples
<1>14. y = PolySumsAt(p, n, x)
  <2>1. y = [k \in DOMAIN ids |-> y[k]]
    OBVIOUS
  <2> HIDE DEF y, x, p, n
  <2> QED
    BY <1>5, <1>10, <2>1 DEF PolySumsAt
<1>15. SumOf(Weighted(PolySumsAt(p, n, x), x, DOMAIN x)) = PolySum(p, n, 0)
  <2> HIDE DEF x, p
  <2> QED
    BY <1>6, <1>8, <1>9, InterpolatedSum
<1>16. SecretsOf(S) = InterpolateAtZero(s)
  BY DEF SecretsOf, ids
<1>17. id \in Recovered /\ AllMade(pts) /\ AcceptableInput(pts, id)
  BY <1>1, <1>7
<1> HIDE DEF s, x, y, p, n, pts
<1> QED
  BY <1>13, <1>14, <1>15, <1>16, <1>17 DEF p, n, pts

LEMMA KeyOfShares ==
  ASSUME UseInv, OrdinaryDealers, key # Nothing, key.result.ok,
         NEW S \in SessionQuorums, NEW id \in S,
         ToSet(Plain(shares[id].from)) = ToSet(key.from)
  PROVE  {GeneratorMul(x) : x \in SecretsOf(S)} = {key.result.value}
<1> DEFINE pts == shares[id].from
           K == key.from
           p == Polys(pts)
           n == Len(pts)
           heads == [i \in 1 .. n |-> Evaluate(p[i], 0)]
           images == [i \in 1 .. n |-> GeneratorMul(heads[i])]
           points == [j \in DOMAIN K |-> Head(K[j].poly)]
<1>1. AllMade(pts) /\ AcceptableInput(pts, id) /\ SecretsOf(S) = {PolySum(p, Len(p), 0)}
  BY QuorumsSecret
<1>2. /\ p \in Seq(Seq(Int)) /\ DOMAIN pts = 1 .. n /\ Len(p) = n /\ n \in Nat
      /\ DOMAIN p = DOMAIN pts
      /\ \A i \in 1 .. n : /\ p[i] \in Seq(Scalars) /\ p[i] \in Seq(Int)
                           /\ pts[i].transcript.poly = CommitPolynomial(p[i])
  BY <1>1, PolysType
<1>3. /\ AllDealt(K) /\ IsInjective(DealersOf(K)) /\ \A j \in DOMAIN K : K[j].poly # <<>>
      /\ key.result.value = FoldLeft(PointAdd, Identity, points)
  BY DEF UseInv
<1>4. DOMAIN K = 1 .. Len(K) /\ Len(K) \in Nat
  BY <1>3, ListedLength DEF AllDealt
<1>5. \A i \in 1 .. n : \E j \in DOMAIN K : K[j] = pts[i].transcript
  <2>1. \A i \in 1 .. n : pts[i].transcript \in ToSet(Plain(pts))
    BY <1>2 DEF ToSet, Plain
  <2> HIDE DEF pts, K
  <2> QED
    BY <2>1 DEF ToSet, pts, K
<1>6. \A j \in DOMAIN K : \E i \in 1 .. n : K[j] = pts[i].transcript
  <2>1. \A j \in DOMAIN K : K[j] \in ToSet(Plain(pts))
    BY DEF ToSet
  <2>2. \A t \in ToSet(Plain(pts)) : \E i \in DOMAIN pts : t = pts[i].transcript
    BY DEF ToSet, Plain
  <2> HIDE DEF pts, K
  <2> QED
    BY <1>2, <2>1, <2>2
<1>7. \A i, j \in 1 .. n : pts[i].transcript.dealer = pts[j].transcript.dealer => i = j
  BY <1>1, <1>2 DEF AcceptableInput, IsInjective
<1>8. \A i, j \in DOMAIN K : K[i] = K[j] => i = j
  BY <1>3 DEF IsInjective, DealersOf
<1> HIDE DEF pts, K, p
<1>9. ASSUME NEW i \in 1 .. n
      PROVE  /\ p[i] # <<>> /\ heads[i] \in Scalars /\ heads[i] \in Int
             /\ images[i] \in Int
             /\ Head(pts[i].transcript.poly) = images[i]
  <2> DEFINE c == p[i]
             poly == CommitPolynomial(c)
  <2>1. c \in Seq(Scalars) /\ c \in Seq(Int) /\ pts[i].transcript.poly = poly
    BY <1>2
  <2>2. poly # <<>>
    BY <1>3, <1>5, <2>1
  <2> HIDE DEF c
  <2>3. poly = [m \in DOMAIN c |-> GeneratorMul(c[m])] /\ poly \in Seq(Points)
    BY <2>1, CommitmentType DEF CommitPolynomial
  <2>4. c # <<>>
    <3>1. c = <<>> => DOMAIN poly = {}
      BY <2>3
    <3> HIDE DEF poly
    <3> QED
      BY <2>2, <2>3, <3>1
  <2>5. 1 \in DOMAIN c /\ c[1] \in Scalars
    BY <2>1, <2>4
  <2>6. Head(poly) = GeneratorMul(c[1]) /\ GeneratorMul(c[1]) \in Int
    <3>1. poly[1] = GeneratorMul(c[1])
      BY <2>3, <2>5
    <3>2. GeneratorMul(c[1]) \in Int
      BY <2>5, Closure, ResiduesAreIntegers
    <3> HIDE DEF poly
    <3> QED
      BY <2>2, <2>3, <3>1, <3>2
  <2>7. Evaluate(c, 0) = c[1]
    <3>1. Evaluate(c, 0) = c[1] % P
      BY <2>1, <2>4, EvaluateAtZero
    <3> QED
      BY <2>5, <3>1, RemainderOfResidue, ResiduesAreIntegers
  <2>8. heads[i] = Evaluate(c, 0) /\ images[i] = GeneratorMul(heads[i])
    BY DEF c
  <2> HIDE DEF heads, images
  <2> QED
    BY <2>1, <2>4, <2>5, <2>6, <2>7, <2>8, ResiduesAreIntegers DEF c
<1>10. ASSUME NEW f, NEW m \in Nat, f = [i \in 1 .. m |-> f[i]], \A i \in 1 .. m : f[i] \in Int
       PROVE  f \in Seq(Int) /\ DOMAIN f = 1 .. m
  <2>1. f \in [1 .. m -> Int]
    BY <1>10
  <2> QED
    BY <2>1
<1>11. heads \in Seq(Int) /\ images \in Seq(Int)
  <2>1. heads = [i \in 1 .. n |-> heads[i]] /\ images = [i \in 1 .. n |-> images[i]]
    OBVIOUS
  <2> HIDE DEF heads, images
  <2> QED
    BY <1>2, <1>9, <1>10, <2>1
<1>12. GeneratorMul(SumOf(heads)) = SumOf(images)
  <2>1. DOMAIN heads = DOMAIN images /\ \A i \in DOMAIN heads : images[i] = GeneratorMul(heads[i])
    OBVIOUS
  <2> HIDE DEF heads, images
  <2> QED
    BY <1>11, <2>1, GeneratorMulSum
<1>13. \A i \in 1 .. n : \E j \in DOMAIN K : K[j] = pts[i].transcript /\ images[i] = points[j]
  BY <1>5, <1>9
<1>14. points \in Seq(Int)
  <2>1. \A j \in DOMAIN K : \E i \in 1 .. n : points[j] = images[i]
    BY <1>6, <1>9, SMTT(30)
  <2>2. points = [j \in 1 .. Len(K) |-> points[j]]
    BY <1>4
  <2> HIDE DEF points, images
  <2> QED
    BY <1>4, <1>9, <1>10, <2>1, <2>2
<1> DEFINE e == [i \in 1 .. n |-> CHOOSE j \in DOMAIN K :
                                    K[j] = pts[i].transcript /\ images[i] = points[j]]
<1>15. \A i \in 1 .. n : e[i] \in DOMAIN K /\ K[e[i]] = pts[i].transcript
                         /\ images[i] = points[e[i]]
  <2> HIDE DEF images, points
  <2> QED
    BY <1>13
<1>16. DOMAIN images = 1 .. n /\ DOMAIN points = DOMAIN K /\ e = [i \in 1 .. n |-> e[i]]
  OBVIOUS
<1> HIDE DEF e
<1>17. Reindexes(e, images, points, 0)
  <2> HIDE DEF images, points
  <2>1. e \in [DOMAIN images -> DOMAIN points]
    BY <1>15, <1>16
  <2>2. \A i, j \in 1 .. n : e[i] = e[j] => i = j
    BY <1>7, <1>15
  <2>3. \A j \in DOMAIN K : \E i \in 1 .. n : e[i] = j
    BY <1>6, <1>8, <1>15
  <2> QED
    BY <1>15, <1>16, <2>1, <2>2, <2>3 DEF Reindexes
<1>18. SumOf(images) = SumOf(points)
  <2> HIDE DEF images, points
  <2> QED
    BY <1>11, <1>14, <1>17, SumReindexed
<1>19. PolySum(p, Len(p), 0) = SumOf(heads)
  BY <1>2 DEF PolySum
<1>20. key.result.value = SumOf(points)
  BY <1>3, PointSum
<1> HIDE DEF heads, images, points
<1> QED
  BY <1>1, <1>12, <1>18, <1>19, <1>20

\* Shares recovered and a key aggregated from transcripts of the same dealers belong
\* together, whatever the caller did to the fields between the calls
\* (recover_participant and aggregate_public_key, dkg.rs:102-120).
THEOREM SessionKey == SessionSpec => []SharesMatchKey
<1>1. UseInv => SharesMatchKey
  BY KeyOfShares DEF SharesMatchKey
<1> QED
  BY <1>1, AlwaysUsed, PTL

=============================================================================
