---------------------------- MODULE CircuitClaim ----------------------------
(***************************************************************************)
(* The setup of a circuit proof, and the Pedersen commitments its claim is *)
(* made of (golden-proofs/src/pallas/circuit.rs).                          *)
(*                                                                         *)
(*   setup   [ipa, value, blinding]   an IPA setup and two generators      *)
(*   claim   the commitments to the committed values, in their order       *)
(***************************************************************************)
EXTENDS R1cs, IpaClaim

DeriveCircuitGenerator(domain, kind) == <<domain, kind, 0>>

CircuitSetup(domain, logLen, valueGenerator) ==
  [ipa      |-> Deterministic(domain, logLen),
   value    |-> valueGenerator,
   blinding |-> DeriveCircuitGenerator(domain, "circuit-blinding")]

CommitValue(setup, value, blinding) ==
  Plus(Scale(BasePoint(setup.value), value), Scale(BasePoint(setup.blinding), blinding))

Supports(setup, n) == Len(setup.ipa.g) >= n /\ Len(setup.ipa.h) >= n

ClaimOf(setup, witness) ==
  [k \in DOMAIN witness.values |-> CommitValue(setup, witness.values[k], witness.blinding[k])]

PaddedVars(circuit) ==
  CHOOSE n \in 1 .. (2 * Larger(circuit.internal, 1)) :
    /\ IsPowerOfTwo(n) /\ n >= Larger(circuit.internal, 1)
    /\ \A m \in 1 .. (n - 1) : IsPowerOfTwo(m) => m < Larger(circuit.internal, 1)

\* A digest reads all of what it is about.
CircuitSetupDigest(setup) == <<SetupDigest(setup.ipa), setup.value, setup.blinding>>

=============================================================================
