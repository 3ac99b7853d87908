------------------------- MODULE VerifiedAggregation -------------------------
(***************************************************************************)
(* The library golden-core as its callers use it: verify transcripts one   *)
(* at a time, for some participant each, keep the VerifiedTranscript that  *)
(* comes back, and aggregate what is held for some participant at some     *)
(* later moment.  Nothing ties the participant a transcript was verified   *)
(* for to the one it is aggregated for.                                    *)
(***************************************************************************)
EXTENDS GoldenCore

CONSTANTS Config,     \* the ProtocolConfig
          Received,   \* the transcripts that may be presented
          Masks,      \* per dealer and participant, the mask they share
          MaxHeld     \* bound: verified transcripts held

Participants == ToSet(Config.participants)

\* A transcript marked Verified is to commit to the masks its dealer shares with the
\* participants: golden-core takes that status at its word.
ASSUME AggregationAssumption ==
  /\ Config \in [threshold : Nat, participants : Seq(Nat)]
  /\ Received \subseteq Transcripts
  /\ MaxHeld \in Nat
  /\ \A t \in Received :
       t.status = "Verified" =>
         /\ t.dealer \in DOMAIN Masks
         /\ Masks[t.dealer] \in [Participants -> Scalars]
         /\ \A k \in DOMAIN t.shares :
              t.shares[k].participant \in Participants =>
                t.shares[k].mask = GeneratorMul(Masks[t.dealer][t.shares[k].participant])

VARIABLES held,       \* the verified transcripts, each with its participant
          aggregated  \* the last aggregation: its result and what it was made from

aggregationVars == <<held, aggregated>>

HeldTranscripts == [k \in DOMAIN held |-> held[k].transcript]

AggregationInit ==
  /\ held = <<>>
  /\ aggregated = [result |-> Err("none"), from |-> <<>>]

\* verify_transcript; a transcript that fails is dropped.
Verify(t, target) ==
  /\ Len(held) < MaxHeld
  /\ ValidateTranscript(t, target) = NoError
  /\ held' = Append(held, [transcript |-> t, verifiedFor |-> target])
  /\ UNCHANGED aggregated

\* aggregate_share over everything held.
Aggregate(target) ==
  LET masks == [dealer \in DOMAIN Masks |-> Masks[dealer][target]] IN
  /\ aggregated' = [result |-> AggregateShare(Config, HeldTranscripts, target, masks),
                    from   |-> held]
  /\ UNCHANGED held

AggregationNext ==
  \/ \E t \in Received, target \in Participants : Verify(t, target)
  \/ \E target \in Participants : Aggregate(target)

AggregationSpec == AggregationInit /\ [][AggregationNext]_aggregationVars

----------------------------------------------------------------------------
(* Properties *)

\* G times the share is the sum of the committed polynomials at the participant.
Committed(share, from) ==
  GeneratorMul(share.value) =
    FoldLeft(PointAdd, Identity,
             [k \in DOMAIN from |->
                EvaluatePublicPolynomial(from[k].transcript.poly, share.participant)])

\* A share aggregated from transcripts that were all verified for its participant
\* is the one the dealers committed to, whatever was verified before, in between
\* and for whom (verify_transcript and aggregate_share, transcript.rs:211 and
\* aggregation.rs:38).
AggregatedShareIsCommitted ==
  aggregated.result.ok =>
    LET share == aggregated.result.value IN
    (\A k \in DOMAIN aggregated.from :
       aggregated.from[k].verifiedFor = share.participant) =>
      Committed(share, aggregated.from)

\* A share aggregated from verified transcripts is the one the dealers committed
\* to, whoever they were verified for (transcript.rs:210: "return a type that can
\* be safely aggregated").
VerifiedIsSafeToAggregate ==
  aggregated.result.ok => Committed(aggregated.result.value, aggregated.from)

=============================================================================
