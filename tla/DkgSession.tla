----------------------------- MODULE DkgSession -----------------------------
(***************************************************************************)
(* The end-to-end DKG of golden-pallas/src/simulation.rs.                  *)
(*                                                                         *)
(* A fixture is run once: every dealer builds its transcript.  The         *)
(* transcripts then travel to the caller that recovers, which hands the    *)
(* library the ones it holds, in the order it holds them (inbox): they     *)
(* arrive in any order, some never, some twice, some with masked shares    *)
(* changed on the way.  Participants recover one by one, at any moment.    *)
(*                                                                         *)
(* The code takes the proof of a transcript as accepted by someone else,   *)
(* so what a proof covers (the dealer, the polynomial commitments, the     *)
(* mask commitments) arrives as it was sent; all the rest may change.      *)
(* ProofedRecovery drops that assumption.                                  *)
(***************************************************************************)
EXTENDS DkgSimulation

CONSTANTS Fixtures,     \* the fixtures that may be run
          MaxInbox,     \* bound: per fixture, transcripts the caller holds
          MaxChanges    \* bound: changes made to transcripts on the way

ASSUME FixturesAssumption == Fixtures \subseteq FixtureRecords

VARIABLES fixture,      \* the fixture of this session
          simulation,   \* the result of running it, or NotRun
          inbox,        \* the transcripts the caller holds
          changes,      \* how many changes were made on the way
          recovered,    \* per participant id, the result of recovery, or NotRun
          groupKey      \* the result of aggregating the public key, or NotRun

vars == <<fixture, simulation, inbox, changes, recovered, groupKey>>

NotRun == [ok |-> FALSE, error |-> "not run"]

Ids == ToSet(ParticipantIds(fixture))

----------------------------------------------------------------------------
(* The session *)

Init ==
  /\ fixture \in Fixtures
  /\ simulation = NotRun
  /\ inbox = <<>>
  /\ changes = 0
  /\ recovered = [id \in Ids |-> NotRun]
  /\ groupKey = NotRun

Run ==
  /\ simulation = NotRun
  /\ simulation' = RunFixture(fixture)
  /\ UNCHANGED <<fixture, inbox, changes, recovered, groupKey>>

\* Some transcript of the session reaches the caller, perhaps once more.
Deliver(k) ==
  /\ simulation.ok
  /\ Len(inbox) < MaxInbox[fixture]
  /\ inbox' = Append(inbox, simulation.value.transcripts[k])
  /\ UNCHANGED <<fixture, simulation, changes, recovered, groupKey>>

\* The ways a transcript may differ from the one sent: a masked value, a share
\* missing, a share there twice, or the verdict of whoever checked the proof.
Variants(t) ==
  {[t EXCEPT !.shares[k].value = Add(@, 1)] : k \in DOMAIN t.shares}
    \cup {[t EXCEPT !.shares = RemoveAt(@, k)] : k \in DOMAIN t.shares}
    \cup {[t EXCEPT !.shares = Append(@, @[k])] : k \in DOMAIN t.shares}
    \cup {[t EXCEPT !.status = s] : s \in Statuses}

Change(i) ==
  /\ changes < MaxChanges
  /\ \E t \in Variants(inbox[i]) : inbox' = [inbox EXCEPT ![i] = t]
  /\ changes' = changes + 1
  /\ UNCHANGED <<fixture, simulation, recovered, groupKey>>

\* One participant recovers from the inbox as it is; the set of dealers it heard
\* from is kept to state the properties.
Recover(id) ==
  /\ simulation.ok
  /\ recovered[id] = NotRun
  /\ recovered' = [recovered EXCEPT ![id] =
                     [result |-> RecoverFromTranscripts(simulation.value, id, inbox),
                      from   |-> ToSet(DealersOf(inbox))]]
  /\ UNCHANGED <<fixture, simulation, inbox, changes, groupKey>>

AggregateKey ==
  /\ simulation.ok
  /\ groupKey = NotRun
  /\ groupKey' = SimulationPublicKey(simulation.value)
  /\ UNCHANGED <<fixture, simulation, inbox, changes, recovered>>

Next ==
  \/ Run
  \/ \E k \in DOMAIN fixture.dealers : Deliver(k)
  \/ \E i \in DOMAIN inbox : Change(i)
  \/ \E id \in Ids : Recover(id)
  \/ AggregateKey

Spec == Init /\ [][Next]_vars

----------------------------------------------------------------------------
(* Properties *)

Honest == simulation.value

RecoveredIds == {id \in Ids : recovered[id] # NotRun /\ recovered[id].result.ok}

\* What the dealers in D share with a participant, at the identifier x.
ShareFrom(D, x) ==
  SumOf([k \in DOMAIN fixture.dealers |->
           IF fixture.dealers[k].id \in D
           THEN Evaluate(fixture.dealers[k].coefficients, FromU64(x)) ELSE 0])

\* The secret that threshold-many of the recovered shares determine.
Reconstructed(S) ==
  LET ids == SetToSeq(S) IN
  InterpolateAtZero([k \in DOMAIN ids |->
                       <<FromU64(ids[k]), recovered[ids[k]].result.value.value>>])

\* Any threshold of the participants that recovered from the same dealers.
Quorums ==
  {S \in SUBSET RecoveredIds :
     /\ Cardinality(S) = fixture.threshold
     /\ \A a, b \in S : recovered[a].from = recovered[b].from}

AllDealers == {fixture.dealers[k].id : k \in DOMAIN fixture.dealers}

\* No two dealers of the fixture have one id: run does not check it.  The mask of a
\* transcript is looked up by its dealer's id (simulation.rs:238-247), so where two
\* have one, a single transcript of the second gives a share nobody committed to.
DistinctDealers ==
  \A j, k \in DOMAIN fixture.dealers : fixture.dealers[j].id = fixture.dealers[k].id => j = k

\* Moreover nobody deals a polynomial of more coefficients than the threshold, which
\* run does not check either, and the identifiers, which are 64-bit numbers, differ
\* in the field of 254 bits.
OrdinaryFixture ==
  /\ DistinctDealers
  /\ \A k \in DOMAIN fixture.dealers : Len(fixture.dealers[k].coefficients) <= fixture.threshold
  /\ \A a, b \in Ids : FromU64(a) = FromU64(b) => a = b

\* A share that recovery returns is the sum of the dealers' polynomials at the
\* participant's identifier, over distinct dealers, as many as the threshold
\* asks for, and dealer_count says how many: whatever happened to the masked
\* shares on the way, a changed one is never added up
\* (recover_participant_from_transcripts, simulation.rs:218).
RecoveredShareIsDealerSum ==
  \A id \in RecoveredIds :
    LET share == recovered[id].result.value
        from  == recovered[id].from
    IN  /\ DistinctDealers => share.value = ShareFrom(from, id)
        /\ share.dealerCount = Cardinality(from)
        /\ share.dealerCount >= fixture.threshold

\* Participants that recovered from the same dealers, at whatever moments, in
\* whatever orders and with whatever other shares spoilt, hold shares of one
\* secret: any threshold of them interpolates to the sum of those dealers'
\* constant terms.
QuorumReconstructsSecret ==
  OrdinaryFixture =>
    \A S \in Quorums : \A id \in S :
      Reconstructed(S) = {ShareFrom(recovered[id].from, 0)}

\* If moreover they heard every dealer, that secret is the discrete logarithm of
\* the aggregate public key, although the key is aggregated from transcripts
\* verified for the first participant only (aggregate_public_key,
\* simulation.rs:280), and AggregateSecret agrees with both.
QuorumMatchesGroupKey ==
  groupKey.ok =>
    /\ AggregateSecret(Honest).ok
    /\ groupKey.value = GeneratorMul(AggregateSecret(Honest).value)
    /\ OrdinaryFixture =>
         \A S \in Quorums :
           (\A id \in S : recovered[id].from = AllDealers) =>
             {GeneratorMul(x) : x \in Reconstructed(S)} = {groupKey.value}

\* The order in which a participant holds the transcripts changes neither whether
\* recovery succeeds nor the share it returns
\* (docs/implementation-testing-plan.md:234).
OrderIndependence ==
  simulation.ok =>
    \A id \in Ids :
      LET straight == RecoverFromTranscripts(Honest, id, inbox) IN
      \A pi \in Bijection(DOMAIN inbox, DOMAIN inbox) :
        LET permuted == RecoverFromTranscripts(Honest, id, [k \in DOMAIN inbox |-> inbox[pi[k]]])
        IN  /\ straight.ok = permuted.ok
            /\ straight.ok => straight.value = permuted.value

\* The participant's own share in the transcript is the one its dealer sent, the
\* proof verdict is good and nobody's share is there twice.
Undamaged(t, id) ==
  LET sent == Honest.transcripts[FindById(fixture.dealers, t.dealer)]
  IN  /\ t.status = "Verified"
      /\ IsInjective([k \in DOMAIN t.shares |-> t.shares[k].participant])
      /\ FirstShare(t, id) # 0
      /\ t.shares[FirstShare(t, id)] = sent.shares[FirstShare(sent, id)]

\* Damage stays local: a participant whose own shares arrived as they were sent
\* recovers exactly when it holds transcripts of enough distinct dealers, however
\* the masked values of the others were changed or lost (validate_transcript
\* checks the target's commitment only, transcript.rs:195).
DamageIsLocal ==
  (simulation.ok /\ DistinctDealers) =>
    \A id \in Ids :
      (\A i \in DOMAIN inbox : Undamaged(inbox[i], id)) =>
        (RecoverFromTranscripts(Honest, id, inbox).ok <=>
           /\ Len(inbox) >= fixture.threshold
           /\ IsInjective(DealersOf(inbox)))

=============================================================================
