------------------------------ MODULE IpaClaim ------------------------------
(***************************************************************************)
(* What an inner-product proof (golden-proofs/src/pallas/ipa.rs) is about. *)
(*                                                                         *)
(*   setup    [g, h, q]   names of the generators                          *)
(*   claim    [commitment, product, y, logLen]                             *)
(*   witness  [a, b]                                                       *)
(*                                                                         *)
(* A claim is true of a witness when the commitment is G*a + H(y)*b, where *)
(* H(y) are the right generators weighted by the powers of y, the product  *)
(* is <a, b>, and logLen their length.                                     *)
(***************************************************************************)
EXTENDS FiatShamir

CONSTANT WordBits   \* bits of usize

ASSUME WordAssumption == WordBits \in Nat \ {0}

\* A generator is hashed from the domain, its kind and its index, each with its
\* length: this is its name.
DeriveSetupGenerator(domain, kind, index) == <<domain, kind, index>>

Deterministic(domain, logLen) ==
  [g |-> [k \in 1 .. 2 ^ logLen |-> DeriveSetupGenerator(domain, "ipa-g", k)],
   h |-> [k \in 1 .. 2 ^ logLen |-> DeriveSetupGenerator(domain, "ipa-h", k)],
   q |-> DeriveSetupGenerator(domain, "ipa-q", 0)]

SetupDigest(setup) == <<Len(setup.g), setup.g, Len(setup.h), setup.h, setup.q>>

IsPowerOfTwo(n) == \E k \in 0 .. n : n = 2 ^ k

\* The number of trailing zero bits.
LogLen(n) == CHOOSE k \in 0 .. n : n % 2 ^ k = 0 /\ n % 2 ^ (k + 1) # 0

SupportsLen(setup, n) ==
  /\ n # 0 /\ IsPowerOfTwo(n)
  /\ Len(setup.g) >= n /\ Len(setup.h) >= n

\* The length a claim states, in a singleton; none if it does not fit a word.
ClaimLen(claim) == IF claim.logLen < WordBits THEN {2 ^ claim.logLen} ELSE {}

PointsOf(names) == [k \in DOMAIN names |-> BasePoint(names[k])]

LeftGenerators(setup, n) == PointsOf(SubSeq(setup.g, 1, n))

WeightedHGenerators(setup, n, y) ==
  [k \in 1 .. n |-> Scale(BasePoint(setup.h[k]), PowersFromOne(y, n)[k])]

CommitmentOf(setup, y, witness) ==
  Plus(Msm(LeftGenerators(setup, Len(witness.a)), witness.a),
       Msm(WeightedHGenerators(setup, Len(witness.b), y), witness.b))

\* The claim made for a witness, in a singleton; none where the code returns None.
NewWithClaim(setup, y, witness) ==
  IF ~SupportsLen(setup, Len(witness.a)) THEN {}
  ELSE {[commitment |-> CommitmentOf(setup, y, witness),
         product    |-> InnerProductOf(witness.a, witness.b),
         y          |-> y,
         logLen     |-> LogLen(Len(witness.a))]}

=============================================================================
