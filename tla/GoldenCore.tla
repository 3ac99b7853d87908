----------------------------- MODULE GoldenCore -----------------------------
(***************************************************************************)
(* The protocol library golden-core, together with the Pallas commitment   *)
(* checks golden-pallas hands to it: configuration, dealer transcripts,    *)
(* transcript verification, and the aggregation of shares and keys.  All   *)
(* of it is sequential code over values, so each function is an operator.  *)
(*                                                                         *)
(*   transcript  [dealer, poly, shares, status]                            *)
(*   share       [participant, value, mask]    mask is the commitment M    *)
(*                                                                         *)
(* A function that can fail returns a record with ok = FALSE and the error *)
(* the code returns; where several checks fail, the one the code meets     *)
(* first decides, so the order of the tests below is the code's.           *)
(***************************************************************************)
EXTENDS PrimeField

Ok(v)  == [ok |-> TRUE, value |-> v]
Err(e) == [ok |-> FALSE, error |-> e]

NoError == "none"

Statuses == {"Unverified", "Verified", "Rejected"}

\* The transcripts there can be.
Transcripts ==
  [dealer : Nat, poly : Seq(Points), status : Statuses,
   shares : Seq([participant : Nat, value : Scalars, mask : Points])]

----------------------------------------------------------------------------
(* Configuration. *)

NewConfig(threshold, participants) ==
  IF participants = <<>> THEN Err("EmptyParticipants")
  ELSE IF threshold = 0 \/ threshold > Len(participants)
       THEN Err("InvalidThreshold")
  ELSE IF ~IsInjective(participants) THEN Err("DuplicateParticipant")
  ELSE Ok([threshold |-> threshold, participants |-> participants])

----------------------------------------------------------------------------
(* Dealing. *)

\* Commit each coefficient to the generator.
CommitPolynomial(coefficients) ==
  [k \in DOMAIN coefficients |-> GeneratorMul(coefficients[k])]

\* One masked share per participant, in the order of the participants, and a
\* proof status that says nothing has been checked yet.  masks has the mask of
\* each participant, the code's closure mask_for.
BuildTranscript(dealer, coefficients, participants, masks) ==
  IF participants = <<>> THEN Err("EmptyParticipants")
  ELSE Ok([dealer |-> dealer,
           poly   |-> CommitPolynomial(coefficients),
           shares |-> [k \in DOMAIN participants |->
                         LET id == participants[k] IN
                         [participant |-> id,
                          value |-> Add(Evaluate(coefficients, FromU64(id)),
                                        masks[id]),
                          mask  |-> GeneratorMul(masks[id])]],
           status |-> "Unverified"])

RecoverShare(maskedShare, mask) == Sub(maskedShare, mask)

----------------------------------------------------------------------------
(* Transcript verification. *)

\* Horner's method in the group, at the participant's identifier.
EvaluatePublicPolynomial(poly, participant) ==
  FoldRight(LAMBDA coefficient, acc :
              PointAdd(MulScalar(acc, FromU64(participant)), coefficient),
            poly, Identity)

\* The equation G * z_i = F(x_i) + M_i.
VerifyMaskedShareCommitment(share, poly) ==
  GeneratorMul(share.value) =
    PointAdd(EvaluatePublicPolynomial(poly, share.participant), share.mask)

\* The position of the first share for the participant, 0 if there is none.
FirstShare(t, participant) ==
  SelectInSeq(t.shares, LAMBDA share : share.participant = participant)

\* Two slips of ShareError: no commitment is checked; everybody's is checked.
ShareErrorUnchecked(t, target, k) ==
  IF \E j \in (k + 1) .. Len(t.shares) :
       t.shares[j].participant = t.shares[k].participant
  THEN "DuplicateParticipant" ELSE NoError

ShareErrorAllChecked(t, target, k) ==
  IF \E j \in (k + 1) .. Len(t.shares) :
       t.shares[j].participant = t.shares[k].participant
  THEN "DuplicateParticipant"
  ELSE IF ~VerifyMaskedShareCommitment(t.shares[k], t.poly)
  THEN "CommitmentEquationFailed" ELSE NoError

\* The error the loop over the shares returns at position k.  A duplicate is
\* looked for only behind k, and only the target's commitment is checked.
ShareError(t, target, k) ==
  IF \E j \in (k + 1) .. Len(t.shares) :
       t.shares[j].participant = t.shares[k].participant
  THEN "DuplicateParticipant"
  ELSE IF /\ t.shares[k].participant = target
          /\ ~VerifyMaskedShareCommitment(t.shares[k], t.poly)
  THEN "CommitmentEquationFailed"
  ELSE NoError

ValidateTranscript(t, target) ==
  LET bad == {k \in DOMAIN t.shares : ShareError(t, target, k) # NoError}
      first == CHOOSE k \in bad : \A j \in bad : k <= j
  IN  IF t.status # "Verified" THEN "ProofNotVerified"
      ELSE IF bad # {} THEN ShareError(t, target, first)
      ELSE IF FirstShare(t, target) = 0 THEN "MissingParticipant"
      ELSE NoError

----------------------------------------------------------------------------
(* Aggregation. *)

DealersOf(ts) == [k \in DOMAIN ts |-> ts[k].dealer]

\* A slip of the next definition: the order of the transcripts matters, as only
\* neighbours are compared.
ValidateNeighbours(config, ts) ==
  IF Len(ts) < config.threshold THEN "InsufficientDealers"
  ELSE IF \E k \in 2 .. Len(ts) : ts[k].dealer = ts[k - 1].dealer
  THEN "DuplicateDealer"
  ELSE NoError

ValidateDealers(config, ts) ==
  IF Len(ts) < config.threshold THEN "InsufficientDealers"
  ELSE IF ~IsInjective(DealersOf(ts)) THEN "DuplicateDealer"
  ELSE NoError

\* The target's shares, unmasked and summed over the transcripts.
SumOfShares(ts, target, masks) ==
  SumOf([k \in DOMAIN ts |->
           RecoverShare(ts[k].shares[FirstShare(ts[k], target)].value,
                        masks[ts[k].dealer])])

\* ts stands for the transcripts inside the VerifiedTranscript wrappers, masks
\* for the closure that finds the mask of a dealer.
AggregateShare(config, ts, target, masks) ==
  IF \A k \in DOMAIN config.participants : config.participants[k] # target
  THEN Err("UnknownParticipant")
  ELSE IF ValidateDealers(config, ts) # NoError
  THEN Err(ValidateDealers(config, ts))
  ELSE IF \E k \in DOMAIN ts : FirstShare(ts[k], target) = 0
  THEN Err("MissingShare")
  ELSE Ok([participant |-> target,
           value       |-> SumOfShares(ts, target, masks),
           dealerCount |-> Len(ts)])

\* A slip of the next definition: the leading coefficient is taken, not the
\* constant one.
AggregateLeadingCommitments(config, ts) ==
  IF ValidateDealers(config, ts) # NoError
  THEN Err(ValidateDealers(config, ts))
  ELSE IF \E k \in DOMAIN ts : ts[k].poly = <<>>
  THEN Err("MissingConstantCommitment")
  ELSE Ok(FoldLeft(PointAdd, Identity, [k \in DOMAIN ts |-> Last(ts[k].poly)]))

AggregatePublicKey(config, ts) ==
  IF ValidateDealers(config, ts) # NoError
  THEN Err(ValidateDealers(config, ts))
  ELSE IF \E k \in DOMAIN ts : ts[k].poly = <<>>
  THEN Err("MissingConstantCommitment")
  ELSE Ok(FoldLeft(PointAdd, Identity, [k \in DOMAIN ts |-> Head(ts[k].poly)]))

=============================================================================
