-------------------------------- MODULE Evrf --------------------------------
(***************************************************************************)
(* Mask derivation (golden-pallas/src/evrf.rs): Diffie-Hellman on the      *)
(* Vesta helper curve, then a hash of the shared point and of everything   *)
(* the session binds, read as a Pallas scalar.  As in PrimeField a point   *)
(* of the helper group, of order Q, is written as its discrete logarithm.  *)
(***************************************************************************)
EXTENDS GoldenCore

CONSTANTS Q,                \* the order of the helper group
          HelperGenerator   \* its standard generator, a non-identity point

ASSUME HelperAssumption ==
  /\ Q \in Nat /\ Q > 1
  /\ HelperGenerator \in 1 .. (Q - 1)

HelperPublic(secret) == (secret * HelperGenerator) % Q
DiffieHellman(secret, peerPublic) == (peerPublic * secret) % Q

\* Everything a mask is bound to, each variable-length part after its length.
DkgMaskTranscript(session, dealer, participant, dealerPublic, participantPublic, poly) ==
  <<session, dealer, participant, dealerPublic, participantPublic, Len(poly)>> \o poly

\* BLAKE2b, outside src/: some fixed function of every input.
HashOf(inputs) ==
  LET absorbed[n \in 0 .. Len(inputs)] ==
        IF n = 0 THEN 1 ELSE (31 * absorbed[n - 1] + inputs[n] + 7) % 1009
  IN  absorbed[Len(inputs)]

\* The digest is read as a number and reduced.
HashToScalar(inputs) == HashOf(inputs) % P

DeriveMask(shared, transcript) == HashToScalar(<<shared>> \o transcript)

=============================================================================
