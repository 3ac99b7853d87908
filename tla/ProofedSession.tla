--------------------------- MODULE ProofedSession ---------------------------
(***************************************************************************)
(* The life of a ProofedDkgSimulation (golden-proofs/src/dkg.rs): it is    *)
(* built proof by proof, with a report after each, and then used by a      *)
(* caller who may change its two public fields, the transcripts of the     *)
(* simulation and the proofed transcripts, between the calls.              *)
(*                                                                         *)
(* What one call of recover_with_proofs answers is ProofedRecovery's       *)
(* AcceptableInput and ShareOfInput, which that module shows the loops of  *)
(* the code to compute.                                                    *)
(***************************************************************************)
EXTENDS DkgSimulation, FixtureBackend

CONSTANTS Fixture,      \* a fixture that ProtocolConfig::new accepts
          MaxChanges    \* bound: changes of the public fields

ASSUME SessionAssumption ==
  /\ Fixture \in FixtureRecords
  /\ RunFixture(Fixture) = Ok(Simulation)

VARIABLES stage,        \* proving, built or failed
          reports,      \* the progress reports so far
          completed,    \* completed_proofs
          entries,      \* the proofs so far of the transcript in hand
          transcripts,  \* simulation.transcripts
          proofed,      \* proofed_transcripts
          changes,      \* counts the changes
          shares,       \* per participant the last share recovered, and from what
          key           \* the last aggregate_public_key, and from what

sessionVars ==
  <<stage, reports, completed, entries, transcripts, proofed, changes, shares, key>>

Everyone == ToSet(ParticipantIds(Fixture))

\* How many proofs the transcripts need, one for every masked share of each.
TotalProofs(ts) == Cardinality(UNION {{k} \X DOMAIN ts[k].shares : k \in DOMAIN ts})

----------------------------------------------------------------------------

Nothing == [nothing |-> TRUE]

SessionInit ==
  /\ stage = "proving"
  /\ reports = <<>> /\ completed = 0
  /\ entries = <<>>
  /\ transcripts = Simulation.transcripts
  /\ proofed = <<>>
  /\ changes = 0
  /\ shares = [id \in Everyone |-> Nothing]
  /\ key = Nothing

\* The transcript whose proofs are being made.
Current == transcripts[Len(proofed) + 1]

Proving == stage = "proving" /\ Len(proofed) < Len(transcripts)

\* The next masked share is proven and reported.
ProveNext ==
  /\ Proving /\ Len(entries) < Len(Current.shares)
  /\ \E entry \in ProofEntry(Current, Current.shares[Len(entries) + 1]) :
       /\ entries' = Append(entries, entry)
       /\ completed' = completed + 1
       /\ reports' = Append(reports,
            [completed |-> completed + 1, total |-> TotalProofs(transcripts),
             dealer |-> Current.dealer, participant |-> entry.participant])
  /\ UNCHANGED <<stage, transcripts, proofed, changes, shares, key>>

\* The proof system may refuse a proof; nothing of what was made is kept.
ProveFails ==
  /\ Proving /\ Len(entries) < Len(Current.shares)
  /\ stage' = "failed"
  /\ proofed' = <<>> /\ entries' = <<>>
  /\ UNCHANGED <<reports, completed, transcripts, changes, shares, key>>

\* A slip of the next definition: every transcript begins its count anew.
PushRestarting ==
  /\ Proving /\ Len(entries) = Len(Current.shares)
  /\ proofed' = Append(proofed, [transcript |-> Current, proofs |-> entries])
  /\ entries' = <<>>
  /\ completed' = 0
  /\ UNCHANGED <<stage, reports, transcripts, changes, shares, key>>

\* The transcript in hand has all its proofs.
Push ==
  /\ Proving /\ Len(entries) = Len(Current.shares)
  /\ proofed' = Append(proofed, [transcript |-> Current, proofs |-> entries])
  /\ entries' = <<>>
  /\ UNCHANGED <<stage, reports, completed, transcripts, changes, shares, key>>

Built ==
  /\ stage = "proving"
  /\ Len(proofed) = Len(transcripts)
  /\ stage' = "built"
  /\ UNCHANGED <<reports, completed, entries, transcripts, proofed, changes, shares, key>>

\* The caller drops, repeats or exchanges members of a public field, or spoils a
\* masked share.
Edits(seq) ==
  {RemoveAt(seq, k) : k \in DOMAIN seq}
    \cup {Append(seq, seq[k]) : k \in DOMAIN seq} \cup {Reverse(seq)}

Spoilt(ts) == {[ts EXCEPT ![k].transcript.shares[1].value = Add(@, 1)] : k \in DOMAIN ts}

Change ==
  /\ stage = "built"
  /\ changes < MaxChanges
  /\ \/ transcripts' \in Edits(transcripts) /\ UNCHANGED proofed
     \/ proofed' \in Edits(proofed) \cup Spoilt(proofed) /\ UNCHANGED transcripts
  /\ changes' = changes + 1
  /\ UNCHANGED <<stage, reports, completed, entries, shares, key>>

RecoverParticipant(id) ==
  /\ stage = "built"
  /\ shares' = [shares EXCEPT ![id] =
       [result |-> IF AcceptableInput(proofed, id)
                   THEN Ok(ShareOfInput(proofed, id)) ELSE Err("refused"),
        from |-> proofed]]
  /\ UNCHANGED <<stage, reports, completed, entries, transcripts, proofed, changes, key>>

\* The proofs are those of proofed_transcripts, the key is that of the
\* transcripts of the simulation.
PublicKey ==
  IF Simulation.participants = <<>> THEN Err("UnknownParticipant")
  ELSE IF \E k \in DOMAIN proofed : ~GoodFor(proofed[k], Simulation.participants[1].id)
  THEN Err("refused")
  ELSE SimulationPublicKey([Simulation EXCEPT !.transcripts = transcripts])

AggregatePublicKeyOfSession ==
  /\ stage = "built"
  /\ key' = [result |-> PublicKey, from |-> transcripts]
  /\ UNCHANGED <<stage, reports, completed, entries, transcripts, proofed, changes, shares>>

SessionNext ==
  \/ ProveNext
  \/ ProveFails
  \/ Push
  \/ Built
  \/ Change
  \/ \E id \in Everyone : RecoverParticipant(id)
  \/ AggregatePublicKeyOfSession

SessionSpec == SessionInit /\ [][SessionNext]_sessionVars

----------------------------------------------------------------------------
(* Properties *)

Recovered == {id \in Everyone : shares[id] # Nothing /\ shares[id].result.ok}
Plain(ts) == [k \in DOMAIN ts |-> ts[k].transcript]

\* The secret that a quorum of shares, all recovered from one field value,
\* determines.
SecretsOf(S) ==
  LET ids == SetToSeq(S) IN
  InterpolateAtZero([k \in DOMAIN ids |-> <<FromU64(ids[k]), shares[ids[k]].result.value>>])

\* What the code takes for granted of a fixture: nobody deals a polynomial of more
\* coefficients than the threshold, and the identifiers, which are 64-bit numbers,
\* differ in the field of 254 bits.
OrdinaryDealers ==
  /\ \A k \in DOMAIN Fixture.dealers : Len(Fixture.dealers[k].coefficients) <= Fixture.threshold
  /\ \A a, b \in Everyone : FromU64(a) = FromU64(b) => a = b

SessionQuorums ==
  {S \in SUBSET Recovered : /\ Cardinality(S) = Fixture.threshold
                            /\ \A a, b \in S : shares[a].from = shares[b].from}

\* A key aggregated and shares recovered, at whatever moments, belong together
\* when the two fields named the same dealers at those moments: a quorum of the
\* shares interpolates to the discrete logarithm of the key, in whatever orders
\* the transcripts were (recover_participant and aggregate_public_key,
\* dkg.rs:102-120).
SharesMatchKey ==
  (OrdinaryDealers /\ key # Nothing /\ key.result.ok) =>
    \A S \in SessionQuorums : \A id \in S :
      ToSet(Plain(shares[id].from)) = ToSet(key.from) =>
        {GeneratorMul(x) : x \in SecretsOf(S)} = {key.result.value}

\* Once it is built, every masked share of every dealer has been reported, the n-th
\* report counts n proofs and the last says that all are made; and from what was
\* made every participant recovers, if there are enough dealers and no two of them
\* have one id (from_fixture_with_progress, dkg.rs:71).
BuiltCompletely ==
  (stage = "built" /\ changes = 0) =>
    /\ {<<r.dealer, r.participant>> : r \in ToSet(reports)}
         = ToSet(DealersOf(transcripts)) \X Everyone
    /\ \A k \in DOMAIN reports : reports[k].completed = k /\ reports[k].total = Len(reports)
    /\ ValidateDealers(Simulation.config, transcripts) = NoError =>
         \A id \in Everyone : AcceptableInput(proofed, id)

\* The key is aggregated after verifying proofs (dkg.rs:109): the proofs of the
\* transcripts it is aggregated from.
KeyIsOfProofedTranscripts ==
  [][(key' # key /\ key'.result.ok) => ToSet(key'.from) \subseteq ToSet(Plain(proofed))]_sessionVars

=============================================================================
