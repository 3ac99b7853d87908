---------------------------- MODULE MaskRelation ----------------------------
(***************************************************************************)
(* What the proof of one mask says, in the forms golden-proofs/src/        *)
(* pallas.rs gives it: over points and scalars, over the bytes of their    *)
(* encodings, over limbs that should be bytes, and over the coordinates    *)
(* that the two circuits see.                                              *)
(*                                                                         *)
(*   inputs    [session, dealer, participant, dealerPublic,                *)
(*              participantPublic, poly, maskCommitment]                   *)
(*   witness   [secret, shared, mask]                                      *)
(*                                                                         *)
(* As in Evrf a Vesta point is its discrete logarithm.  Here its affine    *)
(* coordinates matter too: they lie in the Pallas scalar field.            *)
(***************************************************************************)
EXTENDS Evrf, PallasVectors

CONSTANTS Affine,        \* the coordinates of the points other than the identity
          ByteBase,      \* how many values a byte has
          ScalarBytes,   \* bytes of an encoded scalar
          DigestBytes    \* bytes of a digest

OnCurve(x, y) == Mul(y, y) = Add(Mul(Mul(x, x), x), FromU64(5))

\* How many numbers have len bytes.
Capacity(len) ==
  LET count[k \in 0 .. len] == IF k = 0 THEN 1 ELSE ByteBase * count[k - 1]
  IN  count[len]

\* Vesta is the curve of those points; a point and its inverse share x.
ASSUME CurveAssumption ==
  /\ Affine \in [1 .. (Q - 1) -> Scalars \X Scalars]
  /\ {Affine[k] : k \in 1 .. (Q - 1)} = {at \in Scalars \X Scalars : OnCurve(at[1], at[2])}
  /\ \A k \in 1 .. (Q - 1) : Affine[Q - k] = <<Affine[k][1], Negate(Affine[k][2])>>
  /\ P % 2 = 1

\* A byte is a scalar, the domain of a trace is written in bytes, and scalars and
\* digests fit theirs.
ASSUME BytesAssumption ==
  /\ ByteBase \in Nat /\ 2 < ByteBase /\ ByteBase < P
  /\ ScalarBytes \in Nat /\ DigestBytes \in Nat
  /\ Capacity(ScalarBytes) >= P /\ Capacity(ScalarBytes) >= Q /\ Capacity(DigestBytes) > 1009

PallasGenerator == <<"pallas", "generator", 0>>
MaskPoint(mask) == Scale(BasePoint(PallasGenerator), mask)

\* The types of the code.
MaskInputs ==
  [session : Nat, dealer : Nat, participant : Nat,
   dealerPublic : 0 .. (Q - 1), participantPublic : 0 .. (Q - 1),
   poly : Seq(Points), maskCommitment : [Bases -> Scalars]]
MaskWitnesses == [secret : 0 .. (Q - 1), shared : 0 .. (Q - 1), mask : Scalars]

TranscriptOf(inputs) ==
  DkgMaskTranscript(inputs.session, inputs.dealer, inputs.participant,
                    inputs.dealerPublic, inputs.participantPublic, inputs.poly)

----------------------------------------------------------------------------
(* Encodings *)

Digits(n, len) ==
  LET rest[k \in 1 .. len] == IF k = 1 THEN n ELSE rest[k - 1] \div ByteBase
  IN  [k \in 1 .. len |-> rest[k] % ByteBase]
NumberOf(bytes) ==
  FoldRight(LAMBDA byte, above : above * ByteBase + byte, bytes, 0)

\* A slip of the next definition: a number that is too large is reduced.
ScalarsReduced(bytes, order) == {NumberOf(bytes) % order}

\* What the bytes are the canonical encoding of: one scalar, or none.
ScalarsOf(bytes, order) == IF NumberOf(bytes) < order THEN {NumberOf(bytes)} ELSE {}

\* A point is written as x and the parity of y, the identity as zeros.
CompressedBytes(x, y) == Append(Digits(x, ScalarBytes), y % 2)
EncodePoint(point) ==
  IF point = 0 THEN CompressedBytes(0, 0) ELSE CompressedBytes(Affine[point][1], Affine[point][2])
PointsEncodedBy(bytes) == {point \in 0 .. (Q - 1) : EncodePoint(point) = bytes}

MaskDigest(shared, transcript) == Digits(HashOf(shared \o transcript), DigestBytes)
TraceTranscriptDigest(transcript) == Digits(HashOf(<<1>> \o transcript), DigestBytes)

MaskDomain == <<1, 2>>

----------------------------------------------------------------------------
(* Over points and scalars *)

ValidateMaskWitness(inputs, witness) ==
  /\ inputs.dealerPublic = HelperPublic(witness.secret)
  /\ witness.shared = DiffieHellman(witness.secret, inputs.participantPublic)
  /\ witness.mask = HashToScalar(EncodePoint(witness.shared) \o TranscriptOf(inputs))
  /\ inputs.maskCommitment = MaskPoint(witness.mask)

----------------------------------------------------------------------------
(* Over bytes; an error is InvalidProof throughout *)

MaskTrace(inputs, witness) ==
  LET digest == MaskDigest(EncodePoint(witness.shared), TranscriptOf(inputs)) IN
  [domain           |-> MaskDomain,
   sharedPoint      |-> EncodePoint(witness.shared),
   transcriptDigest |-> TraceTranscriptDigest(TranscriptOf(inputs)),
   maskDigest       |-> digest,
   mask             |-> Digits(NumberOf(digest) % P, ScalarBytes)]

\* The mask of the trace, in a singleton; none if the trace is refused.
VerifyMaskHashBytes(inputs, bytes) ==
  IF /\ bytes.transcriptDigest = TraceTranscriptDigest(TranscriptOf(inputs))
     /\ bytes.maskDigest = MaskDigest(bytes.sharedPoint, TranscriptOf(inputs))
  THEN ScalarsOf(bytes.mask, P) \cap {NumberOf(bytes.maskDigest) % P}
  ELSE {}

DhTrace(inputs, witness) ==
  [secret      |-> Digits(witness.secret, ScalarBytes),
   dealer      |-> EncodePoint(inputs.dealerPublic),
   participant |-> EncodePoint(inputs.participantPublic),
   sharedPoint |-> EncodePoint(witness.shared)]

VerifyVestaDhBytes(inputs, bytes) ==
  \E secret \in ScalarsOf(bytes.secret, Q), dealer \in PointsEncodedBy(bytes.dealer),
     participant \in PointsEncodedBy(bytes.participant),
     shared \in PointsEncodedBy(bytes.sharedPoint) :
       /\ dealer = inputs.dealerPublic /\ participant = inputs.participantPublic
       /\ HelperPublic(secret) = dealer
       /\ DiffieHellman(secret, participant) = shared

----------------------------------------------------------------------------
(* Over limbs: a trace of either kind has one sequence of limbs per part *)

MaskLengths == [domain |-> Len(MaskDomain), sharedPoint |-> ScalarBytes + 1,
                transcriptDigest |-> DigestBytes, maskDigest |-> DigestBytes,
                mask |-> ScalarBytes]
DhLengths == [secret |-> ScalarBytes, dealer |-> ScalarBytes + 1,
              participant |-> ScalarBytes + 1, sharedPoint |-> ScalarBytes + 1]

BytesToFieldLimbs(trace) ==
  [part \in DOMAIN trace |-> [k \in DOMAIN trace[part] |-> FromU64(trace[part][k])]]

\* A slip of the next definition: the loop over the bytes stops short of the last.
BytesOfShort(view, limb) ==
  IF view = "u16" THEN {limb} \cap 0 .. (ByteBase - 1)
  ELSE {byte \in 0 .. (ByteBase - 2) : FromU64(byte) = limb}

\* The bytes that a limb is: one or none.  A field limb is compared with each.
BytesOf(view, limb) ==
  IF view = "u16" THEN {limb} \cap 0 .. (ByteBase - 1)
  ELSE {byte \in 0 .. (ByteBase - 1) : FromU64(byte) = limb}

LimbsToBytes(view, trace, lengths) ==
  IF \A part \in DOMAIN lengths :
       /\ Len(trace[part]) = lengths[part]
       /\ \A k \in DOMAIN trace[part] : BytesOf(view, trace[part][k]) # {}
  THEN {[part \in DOMAIN trace |->
           [k \in DOMAIN trace[part] |-> CHOOSE b \in BytesOf(view, trace[part][k]) : TRUE]]}
  ELSE {}

VerifyMaskTrace(view, inputs, trace) ==
  UNION {IF bytes.domain = MaskDomain THEN VerifyMaskHashBytes(inputs, bytes) ELSE {} :
           bytes \in LimbsToBytes(view, trace, MaskLengths)}

VerifyDhTrace(view, inputs, trace) ==
  \E bytes \in LimbsToBytes(view, trace, DhLengths) : VerifyVestaDhBytes(inputs, bytes)

\* The executable half of the statement, checked before anything is proved.
VerifyPublicRelation(inputs, trace) ==
  \E mask \in VerifyMaskTrace("field", inputs, BytesToFieldLimbs(trace)) :
    inputs.maskCommitment = MaskPoint(mask)

----------------------------------------------------------------------------
(* Over the coordinates the circuits see *)

\* What the mask circuit of a transcript says of the values committed for it.
MaskCircuitHolds(transcript, mask, x, y) ==
  /\ OnCurve(x, y)
  /\ mask = HashToScalar(CompressedBytes(x, y) \o transcript)

\* A slip of the next definition: the second coordinate is not bound.
DhCircuitHoldsForX(dealerPublic, participantPublic, secret, x, y) ==
  LET product == DiffieHellman(secret, participantPublic) IN
  /\ HelperPublic(secret) = dealerPublic
  /\ product # 0
  /\ Affine[product][1] = x

\* What the Diffie-Hellman circuit of two public keys says; the product has
\* coordinates, so it is not the identity.
DhCircuitHolds(dealerPublic, participantPublic, secret, x, y) ==
  LET product == DiffieHellman(secret, participantPublic) IN
  /\ HelperPublic(secret) = dealerPublic
  /\ product # 0
  /\ Affine[product] = <<x, y>>

=============================================================================
