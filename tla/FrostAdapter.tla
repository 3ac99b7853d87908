---------------------------- MODULE FrostAdapter ----------------------------
(***************************************************************************)
(* The FROST adapter (frost-redpallas/src/lib.rs): participants turn their *)
(* aggregated shares of one key, each on its own, into key packages for    *)
(* RedPallas FROST.  A share whose verification share has an odd y is      *)
(* negated, so that the verification share comes out even.                 *)
(*                                                                         *)
(* The parity of y is modelled by what the curve guarantees: a point and   *)
(* its negation have different parities, except for the identity, which    *)
(* encodes as even.                                                        *)
(***************************************************************************)
EXTENDS PrimeField, FiniteSets

CONSTANTS Ids,        \* the participants' identifiers
          MinSigners, \* the threshold of the key
          OddPoints   \* the points whose y is odd

ASSUME ParityAssumption ==
  /\ OddPoints \subseteq 1 .. (P - 1)
  /\ \A p \in 1 .. (P - 1) : p \in OddPoints <=> (P - p) \notin OddPoints

\* Identifiers are 64-bit numbers, below the order of a field of 254 bits, and the
\* identifiers of FROST exclude zero.
ASSUME IdsAssumption ==
  /\ Ids \subseteq 1 .. (P - 1)
  /\ MinSigners \in 1 .. Cardinality(Ids)

VARIABLES share,        \* per participant, its aggregated share
          groupPublic,  \* the aggregate public key
          package       \* per participant, its key package or NoPackage

vars == <<share, groupPublic, package>>

NoPackage == [action |-> "none"]

----------------------------------------------------------------------------

VerifyingShareFromSigningShare(signing) == GeneratorMul(signing)

YParity(point) == IF point \in OddPoints THEN "Odd" ELSE "Even"

EvenYAction(parity) == IF parity = "Odd" THEN "Negate" ELSE "Keep"

\* Two slips of the next definition: after negating, the verification share is
\* the old one; the signing share is the old one.
NormalizedKeepingVerifying(s) ==
  LET verifying == VerifyingShareFromSigningShare(s)
      action    == EvenYAction(YParity(verifying))
      signing   == IF action = "Negate" THEN Negate(s) ELSE s
  IN  [signing |-> signing, verifying |-> verifying, action |-> action]

NormalizedKeepingSigning(s) ==
  LET verifying == VerifyingShareFromSigningShare(s)
      action    == EvenYAction(YParity(verifying))
  IN  [signing |-> s, action |-> action,
       verifying |-> IF action = "Negate" THEN Negate(verifying) ELSE verifying]

\* normalized_signing_share_from_golden.
NormalizedSigningShare(s) ==
  LET action  == EvenYAction(YParity(VerifyingShareFromSigningShare(s)))
      signing == IF action = "Negate" THEN Negate(s) ELSE s
  IN  [signing   |-> signing,
       verifying |-> VerifyingShareFromSigningShare(signing),
       action    |-> action]

KeyPackageFromGoldenShare(id, s, public) ==
  LET normalized == NormalizedSigningShare(s) IN
  [identifier |-> FromU64(id), signing |-> normalized.signing,
   verifying |-> normalized.verifying, public |-> public, action |-> normalized.action]

\* The key was dealt by some polynomial, the sum of the dealers' polynomials.
Init ==
  /\ \E coefficients \in [1 .. MinSigners -> Scalars] :
       /\ share = [id \in Ids |-> Evaluate(coefficients, FromU64(id))]
       /\ groupPublic = GeneratorMul(Head(coefficients))
  /\ package = [id \in Ids |-> NoPackage]

Adapt(id) ==
  /\ package[id] = NoPackage
  /\ package' = [package EXCEPT ![id] =
                   KeyPackageFromGoldenShare(id, share[id], groupPublic)]
  /\ UNCHANGED <<share, groupPublic>>

Next == \E id \in Ids : Adapt(id)

Spec == Init /\ [][Next]_vars

----------------------------------------------------------------------------
(* Properties *)

Adapted == {id \in Ids : package[id] # NoPackage}

Quorums == {S \in SUBSET Adapted : Cardinality(S) = MinSigners}

\* The key the signers of S sign for: what their signing shares interpolate to.
SigningKey(S) ==
  LET ids == SetToSeq(S) IN
  {GeneratorMul(x) : x \in InterpolateAtZero(
     [k \in DOMAIN ids |-> <<package[ids[k]].identifier, package[ids[k]].signing>>])}

\* Shares are scalars, and packages are made one by one.
TypeOK ==
  /\ share \in [Ids -> Scalars]
  /\ DOMAIN package = Ids

\* Every key package is well formed: the verification share belongs to the signing
\* share and its y is even, which the debug assertion of lib.rs:87 states for the
\* negated ones.
PackagesAreEven ==
  \A id \in Adapted :
    /\ package[id].signing \in Scalars
    /\ package[id].verifying = GeneratorMul(package[id].signing)
    /\ package[id].verifying \notin OddPoints

\* The inductive invariant.
IInv == TypeOK /\ PackagesAreEven

\* Signers that all kept, or all negated, their shares sign for the group key or
\* for its negation.
UniformQuorumSigns ==
  \A S \in Quorums :
    /\ (\A id \in S : package[id].action = "Keep") => SigningKey(S) = {groupPublic}
    /\ (\A id \in S : package[id].action = "Negate") => SigningKey(S) = {Negate(groupPublic)}

\* Any signing subset of threshold size signs for the group key or for its
\* negation (docs/implementation-testing-plan.md:267: threshold signing succeeds
\* with any valid signing subset of size `t`).
EveryQuorumSigns ==
  \A S \in Quorums : SigningKey(S) \in {{groupPublic}, {Negate(groupPublic)}}

=============================================================================
