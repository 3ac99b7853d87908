----------------------------- MODULE MaskTraces -----------------------------
(***************************************************************************)
(* The traces of the mask relation (golden-proofs/src/pallas.rs) in the    *)
(* hands of a parser: a trace is built from inputs and a witness, its      *)
(* limbs may be changed, and both views of it are verified.                *)
(***************************************************************************)
EXTENDS MaskRelation

CONSTANTS TraceCases,      \* [inputs, witness]
          MaxLimbsChanged  \* bound: changes of a trace

\* What the traces are built from has the types of the code.
ASSUME TraceAssumption ==
  /\ TraceCases \subseteq [inputs : MaskInputs, witness : MaskWitnesses]
  /\ MaxLimbsChanged \in Nat

VARIABLES traceCase,    \* one of the cases
          maskTrace,    \* its traces, as they are by now
          dhTrace,
          limbsChanged  \* how often they were changed

traceVars == <<traceCase, maskTrace, dhTrace, limbsChanged>>

TraceInit ==
  /\ traceCase \in TraceCases
  /\ maskTrace = MaskTrace(traceCase.inputs, traceCase.witness)
  /\ dhTrace = DhTrace(traceCase.inputs, traceCase.witness)
  /\ limbsChanged = 0

\* One limb is another value, a byte or the first that is none, or it is missing,
\* or there is one more.
AlteredTraces(trace) ==
  UNION {{[trace EXCEPT ![part][k] = limb] : k \in DOMAIN trace[part], limb \in 0 .. ByteBase}
           \cup {[trace EXCEPT ![part] = Front(@)], [trace EXCEPT ![part] = Append(@, 0)]} :
         part \in {p \in DOMAIN trace : trace[p] # <<>>}}

AlterTrace ==
  /\ limbsChanged < MaxLimbsChanged
  /\ \/ maskTrace' \in AlteredTraces(maskTrace) /\ UNCHANGED dhTrace
     \/ dhTrace' \in AlteredTraces(dhTrace) /\ UNCHANGED maskTrace
  /\ limbsChanged' = limbsChanged + 1
  /\ UNCHANGED traceCase

TraceNext == AlterTrace

TraceSpec == TraceInit /\ [][TraceNext]_traceVars

----------------------------------------------------------------------------
(* Properties *)

\* An accepted mask trace is the one trace of its shared point.
MaskTraceIsCanonical ==
  LET transcript == TranscriptOf(traceCase.inputs)
      shared     == maskTrace.sharedPoint
  IN  \A m \in VerifyMaskTrace("u16", traceCase.inputs, maskTrace) :
        /\ m = HashToScalar(shared \o transcript)
        /\ maskTrace = [domain           |-> MaskDomain,
                        sharedPoint      |-> shared,
                        transcriptDigest |-> TraceTranscriptDigest(transcript),
                        maskDigest       |-> MaskDigest(shared, transcript),
                        mask             |-> Digits(m, ScalarBytes)]

\* An accepted Diffie-Hellman trace is that of the one witness the public keys
\* have.
DhTraceIsTheWitness ==
  VerifyDhTrace("u16", traceCase.inputs, dhTrace) =>
    \E secret \in 0 .. (Q - 1) :
      /\ HelperPublic(secret) = traceCase.inputs.dealerPublic
      /\ dhTrace = DhTrace(traceCase.inputs,
           [secret |-> secret,
            shared |-> DiffieHellman(secret, traceCase.inputs.participantPublic)])

\* No two traces of one point, or of one pair of keys, are accepted, whatever
\* limbs they have: a mask or a secret that is not reduced and one limb more or
\* less are refused by both checks, a shared point in another encoding by the
\* check of the key pair, the only one that reads it (verify_mask_hash_bytes,
\* pallas.rs:1424; verify_vesta_dh_bytes, pallas.rs:1458).
AcceptedTraceIsCanonical == MaskTraceIsCanonical /\ DhTraceIsTheWitness

\* The view over field elements accepts what the view over u16 accepts, unaltered
\* traces among them.
ViewsAgree ==
  /\ VerifyMaskTrace("u16", traceCase.inputs, maskTrace)
       = VerifyMaskTrace("field", traceCase.inputs, BytesToFieldLimbs(maskTrace))
  /\ VerifyDhTrace("u16", traceCase.inputs, dhTrace)
       = VerifyDhTrace("field", traceCase.inputs, BytesToFieldLimbs(dhTrace))
  /\ (limbsChanged = 0 /\ ValidateMaskWitness(traceCase.inputs, traceCase.witness)) =>
       /\ VerifyMaskTrace("u16", traceCase.inputs, maskTrace) = {traceCase.witness.mask}
       /\ VerifyDhTrace("u16", traceCase.inputs, dhTrace)
       /\ VerifyPublicRelation(traceCase.inputs, maskTrace)

=============================================================================
