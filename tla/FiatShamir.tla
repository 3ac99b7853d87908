----------------------------- MODULE FiatShamir -----------------------------
(***************************************************************************)
(* The transcripts a prover and a verifier keep to agree on challenges.    *)
(* Both proof layers have one (ipa.rs, circuit.rs), alike but for the      *)
(* domain they start with: what was committed, in order, each item with    *)
(* its label and length, so that no two sequences of items read alike.     *)
(*                                                                         *)
(* BLAKE2b is a random oracle: the first time a transcript and label are   *)
(* asked about any answer may come, afterwards it is the same one.  The    *)
(* code hashes again with the next counter when the scalar is zero, so an  *)
(* answer is any other scalar.                                             *)
(***************************************************************************)
EXTENDS PallasVectors

NewTranscript(domain) == << <<"domain", domain>> >>

Commit(transcript, label, item) == Append(transcript, <<label, item>>)

Answers(oracle, transcript, label) ==
  IF <<transcript, label>> \in DOMAIN oracle
  THEN {oracle[<<transcript, label>>]} ELSE Scalars \ {0}

Asked(oracle, transcript, label, answer) ==
  [question \in DOMAIN oracle \cup {<<transcript, label>>} |->
     IF question = <<transcript, label>> THEN answer ELSE oracle[question]]

\* A challenge is committed in its turn, so that later ones depend on it.
AfterChallenge(transcript, label, answer) ==
  Commit(Commit(transcript, "challenge", label), "challenge-value", answer)

=============================================================================
