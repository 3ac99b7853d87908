-------------------------- MODULE DkgSessionProofs --------------------------
(***************************************************************************)
(* Proofs about DkgSession, for every field, every set of fixtures and     *)
(* every number of transcripts and of changes to them.                     *)
(***************************************************************************)
EXTENDS DkgSession, ProtocolTheorems

----------------------------------------------------------------------------
(* Transcripts on their way *)

Arrived(f, ts) ==
  /\ ts \in Seq(Transcripts)
  /\ \A i \in DOMAIN ts : \E k \in DOMAIN f.dealers : SentAs(f, ts[i], k)

\* A change on the way stays within the proof.
LEMMA ChangedAsSent ==
  ASSUME NEW f, NEW k, NEW t, SentAs(f, t, k), NEW v \in Variants(t)
  PROVE  SentAs(f, v, k)
<1> DEFINE S == [participant : Nat, value : Scalars, mask : Points]
           Sent(s) == s \in S /\ s.mask = GeneratorMul(MaskOf(f, k, s.participant))
<1>1. /\ t \in Transcripts /\ t.shares \in Seq(S)
      /\ \A n \in DOMAIN t.shares : Sent(t.shares[n])
  <2>1. t.shares \in Seq(S)
    BY DEF SentAs, Transcripts
  <2> QED
    BY <2>1, ElementType DEF SentAs
<1>2. ASSUME v \in Transcripts, v.dealer = t.dealer, v.poly = t.poly,
             \A n \in DOMAIN v.shares : Sent(v.shares[n])
      PROVE  SentAs(f, v, k)
  BY <1>2 DEF SentAs
<1>3. ASSUME NEW shares \in Seq(S), \A n \in DOMAIN shares : Sent(shares[n]),
             v = [t EXCEPT !.shares = shares]
      PROVE  SentAs(f, v, k)
  <2> HIDE DEF S, Sent
  <2>1. /\ v.dealer = t.dealer /\ v.poly = t.poly /\ v.shares = shares
        /\ v \in Transcripts
    BY <1>1, <1>3 DEF Transcripts, S
  <2> QED
    BY <1>2, <1>3, <2>1
<1>4. CASE \E n \in DOMAIN t.shares : v = [t EXCEPT !.shares[n].value = Add(@, 1)]
  <2> PICK n \in DOMAIN t.shares : v = [t EXCEPT !.shares[n].value = Add(@, 1)]
    BY <1>4
  <2> DEFINE s == [t.shares[n] EXCEPT !.value = Add(t.shares[n].value, 1)]
             shares == [t.shares EXCEPT ![n] = s]
  <2>1. v = [t EXCEPT !.shares = shares]
    BY <1>1 DEF Transcripts
  <2>2. Sent(s)
    <3>1. Sent(t.shares[n])
      BY <1>1
    <3>2. t.shares[n].value \in Int
      BY <3>1, ResiduesAreIntegers
    <3>3. Add(t.shares[n].value, 1) \in Scalars
      BY <3>2, Closure
    <3> QED
      BY <3>1, <3>3
  <2> HIDE DEF s
  <2>3. shares \in Seq(S) /\ \A m \in DOMAIN shares : Sent(shares[m])
    BY <1>1, <2>2
  <2> HIDE DEF shares
  <2> QED
    BY <1>3, <2>1, <2>3
<1>5. CASE \E n \in DOMAIN t.shares : v = [t EXCEPT !.shares = RemoveAt(@, n)]
  <2> PICK n \in DOMAIN t.shares : v = [t EXCEPT !.shares = RemoveAt(@, n)]
    BY <1>5
  <2> DEFINE shares == RemoveAt(t.shares, n)
  <2>1. v = [t EXCEPT !.shares = shares]
    BY <1>1 DEF Transcripts
  <2>2. /\ shares \in Seq(S)
        /\ \A m \in DOMAIN shares : \E l \in DOMAIN t.shares : shares[m] = t.shares[l]
    BY <1>1, RemovedFrom
  <2>3. \A m \in DOMAIN shares : Sent(shares[m])
    <3> HIDE DEF shares, Sent
    <3> QED
      BY <1>1, <2>2
  <2> HIDE DEF shares
  <2> QED
    BY <1>3, <2>1, <2>2, <2>3
<1>6. CASE \E n \in DOMAIN t.shares : v = [t EXCEPT !.shares = Append(@, @[n])]
  <2> PICK n \in DOMAIN t.shares : v = [t EXCEPT !.shares = Append(@, @[n])]
    BY <1>6
  <2> DEFINE shares == Append(t.shares, t.shares[n])
  <2>1. v = [t EXCEPT !.shares = shares]
    BY <1>1 DEF Transcripts
  <2>2. shares \in Seq(S) /\ \A m \in DOMAIN shares : Sent(shares[m])
    <3> HIDE DEF S
    <3>1. Sent(t.shares[n]) /\ t.shares[n] \in S
      BY <1>1
    <3> HIDE DEF Sent
    <3> QED
      BY <1>1, <3>1
  <2> HIDE DEF shares
  <2> QED
    BY <1>3, <2>1, <2>2
<1>7. CASE \E s \in Statuses : v = [t EXCEPT !.status = s]
  <2>1. v.dealer = t.dealer /\ v.poly = t.poly /\ v.shares = t.shares /\ v \in Transcripts
    BY <1>1, <1>7 DEF Transcripts
  <2> QED
    BY <1>1, <1>2, <2>1
<1> QED
  BY <1>4, <1>5, <1>6, <1>7 DEF Variants

----------------------------------------------------------------------------
(* The session *)

\* What a participant has recovered, it has recovered from transcripts that arrived.
RecoveredFrom(id, ts) ==
  /\ Arrived(fixture, ts)
  /\ recovered[id] = [result |-> RecoverFromTranscripts(simulation.value, id, ts),
                      from   |-> ToSet(DealersOf(ts))]

SInv ==
  /\ fixture \in Fixtures
  /\ simulation \in {NotRun, RunFixture(fixture)}
  /\ Arrived(fixture, inbox)
  /\ recovered = [id \in Ids |-> recovered[id]]
  /\ \A id \in Ids : recovered[id] # NotRun => simulation.ok /\ \E ts : RecoveredFrom(id, ts)
  /\ groupKey # NotRun => simulation.ok /\ groupKey = SimulationPublicKey(simulation.value)

LEMMA InitSInv == Init => SInv
<1> SUFFICES ASSUME Init PROVE SInv
  OBVIOUS
<1>1. \A id \in Ids : recovered[id] = NotRun
  BY DEF Init
<1>2. Arrived(fixture, inbox)
  BY DEF Init, Arrived
<1>3. recovered = [id \in Ids |-> recovered[id]]
  BY DEF Init
<1> QED
  BY <1>1, <1>2, <1>3 DEF Init, SInv

\* What has been recovered stays what it is while the result of the run does.
LEMMA StaysRecovered ==
  ASSUME SInv, UNCHANGED <<fixture, recovered>>, simulation.ok => UNCHANGED simulation
  PROVE  /\ recovered' = [id \in Ids' |-> recovered'[id]]
         /\ \A id \in Ids' : recovered'[id] # NotRun =>
              simulation'.ok /\ \E ts : RecoveredFrom(id, ts)'
<1>1. Ids' = Ids
  BY DEF Ids
<1>2. ASSUME NEW id \in Ids, recovered[id] # NotRun
      PROVE  simulation'.ok /\ \E ts : RecoveredFrom(id, ts)'
  <2>1. simulation.ok /\ UNCHANGED simulation
    BY <1>2 DEF SInv
  <2>2. PICK ts : RecoveredFrom(id, ts)
    BY <1>2 DEF SInv
  <2>3. RecoveredFrom(id, ts)'
    BY <2>1, <2>2 DEF RecoveredFrom
  <2> QED
    BY <2>1, <2>3
<1> QED
  BY <1>1, <1>2 DEF SInv

LEMMA StaysAggregated ==
  ASSUME SInv, UNCHANGED groupKey, simulation.ok => UNCHANGED simulation
  PROVE  groupKey' # NotRun =>
           simulation'.ok /\ groupKey' = SimulationPublicKey(simulation'.value)
  BY DEF SInv

LEMMA NextSInv == SInv /\ [Next]_vars => SInv'
<1> SUFFICES ASSUME SInv, [Next]_vars PROVE SInv'
  OBVIOUS
<1>0. /\ fixture \in FixtureRecords
      /\ simulation.ok => simulation = RunFixture(fixture)
      /\ ~NotRun.ok
      /\ inbox \in Seq(Transcripts)
      /\ \A i \in DOMAIN inbox : \E k \in DOMAIN fixture.dealers : SentAs(fixture, inbox[i], k)
  <2>1. NotRun.ok = FALSE
    BY DEF NotRun
  <2>2. fixture \in FixtureRecords
    BY FixturesAssumption DEF SInv
  <2>3. simulation.ok => simulation = RunFixture(fixture)
    BY <2>1 DEF SInv
  <2> QED
    BY <2>1, <2>2, <2>3 DEF SInv, Arrived
<1>1. CASE Run
  <2>1. /\ UNCHANGED <<fixture, inbox, recovered, groupKey>> /\ ~simulation.ok
        /\ simulation' = RunFixture(fixture)
    BY <1>0, <1>1 DEF Run
  <2>2. Arrived(fixture, inbox)'
    BY <2>1 DEF SInv
  <2> QED
    BY <2>1, <2>2, StaysRecovered, StaysAggregated DEF SInv
<1>2. ASSUME NEW k \in DOMAIN fixture.dealers, Deliver(k) PROVE SInv'
  <2>1. /\ UNCHANGED <<fixture, simulation, recovered, groupKey>> /\ simulation.ok
        /\ inbox' = Append(inbox, RunFixture(fixture).value.transcripts[k])
        /\ RunFixture(fixture).ok
    BY <1>0, <1>2 DEF Deliver
  <2> DEFINE t == RunFixture(fixture).value.transcripts[k]
  <2>2. SentAs(fixture, t, k)
    BY <1>0, <2>1, BuiltAsSent
  <2> HIDE DEF t
  <2>3. t \in Transcripts
    BY <2>2 DEF SentAs
  <2>4. Append(inbox, t) \in Seq(Transcripts)
    BY <1>0, <2>3
  <2>5. \A i \in DOMAIN Append(inbox, t) :
          \E j \in DOMAIN fixture.dealers : SentAs(fixture, Append(inbox, t)[i], j)
    BY <1>0, <2>2
  <2>6. Arrived(fixture, Append(inbox, t))
    BY <2>4, <2>5 DEF Arrived
  <2>7. Arrived(fixture, inbox)'
    BY <2>1, <2>6 DEF t
  <2> QED
    BY <2>1, <2>7, StaysRecovered, StaysAggregated DEF SInv
<1>3. ASSUME NEW i \in DOMAIN inbox, Change(i) PROVE SInv'
  <2>1. UNCHANGED <<fixture, simulation, recovered, groupKey>>
    BY <1>3 DEF Change
  <2>2. PICK v \in Variants(inbox[i]) : inbox' = [inbox EXCEPT ![i] = v]
    BY <1>3 DEF Change
  <2>3. PICK k \in DOMAIN fixture.dealers : SentAs(fixture, inbox[i], k)
    BY <1>0
  <2>4. SentAs(fixture, v, k)
    BY <2>2, <2>3, ChangedAsSent
  <2>5. v \in Transcripts
    BY <2>4 DEF SentAs
  <2>6. Arrived(fixture, [inbox EXCEPT ![i] = v])
    <3>1. [inbox EXCEPT ![i] = v] \in Seq(Transcripts)
      BY <1>0, <2>5
    <3>2. \A n \in DOMAIN [inbox EXCEPT ![i] = v] : \E j \in DOMAIN fixture.dealers :
            SentAs(fixture, [inbox EXCEPT ![i] = v][n], j)
      BY <1>0, <2>4
    <3> QED
      BY <3>1, <3>2 DEF Arrived
  <2>7. Arrived(fixture, inbox)'
    BY <2>1, <2>2, <2>6
  <2> QED
    BY <2>1, <2>7, StaysRecovered, StaysAggregated DEF SInv
<1>4. ASSUME NEW id \in Ids, Recover(id) PROVE SInv'
  <2>1. /\ UNCHANGED <<fixture, simulation, inbox, groupKey>> /\ simulation.ok
        /\ recovered' = [recovered EXCEPT ![id] =
             [result |-> RecoverFromTranscripts(simulation.value, id, inbox),
              from   |-> ToSet(DealersOf(inbox))]]
    BY <1>4 DEF Recover
  <2>2. Ids' = Ids /\ Arrived(fixture, inbox) /\ Arrived(fixture, inbox)'
    BY <2>1 DEF Ids, SInv
  <2>3. recovered' = [n \in Ids |-> recovered'[n]]
        /\ \A n \in Ids : n # id => recovered'[n] = recovered[n]
        /\ recovered'[id] = [result |-> RecoverFromTranscripts(simulation.value, id, inbox),
                             from   |-> ToSet(DealersOf(inbox))]
    BY <2>1 DEF SInv
  <2>4. ASSUME NEW n \in Ids, recovered'[n] # NotRun PROVE \E ts : RecoveredFrom(n, ts)'
    <3>1. CASE n = id
      <4> PICK ts : ts = inbox
        OBVIOUS
      <4>1. RecoveredFrom(id, ts)'
        BY <2>1, <2>2, <2>3 DEF RecoveredFrom
      <4> QED
        BY <3>1, <4>1
    <3>2. CASE n # id
      <4>1. PICK ts : RecoveredFrom(n, ts)
        BY <2>3, <2>4, <3>2 DEF SInv
      <4>2. RecoveredFrom(n, ts)'
        BY <2>1, <2>3, <3>2, <4>1 DEF RecoveredFrom
      <4> QED
        BY <4>2
    <3> QED
      BY <3>1, <3>2
  <2> QED
    BY <2>1, <2>2, <2>3, <2>4 DEF SInv
<1>5. CASE AggregateKey
  <2>1. /\ UNCHANGED <<fixture, simulation, inbox, recovered>> /\ simulation.ok
        /\ groupKey' = SimulationPublicKey(simulation.value)
    BY <1>5 DEF AggregateKey
  <2>2. Arrived(fixture, inbox)'
    BY <2>1 DEF SInv
  <2> QED
    BY <2>1, <2>2, StaysRecovered DEF SInv
<1>6. CASE UNCHANGED vars
  <2>1. Arrived(fixture, inbox)'
    BY <1>6 DEF SInv, vars
  <2> QED
    BY <1>6, <2>1, StaysRecovered, StaysAggregated DEF SInv, vars
<1> QED
  BY <1>1, <1>2, <1>3, <1>4, <1>5, <1>6 DEF Next

\* All that follows rests on this invariant: whatever happened on the way, what the
\* proofs cover is as it was sent, and a result came from transcripts that arrived.
LEMMA SInvAlways == Spec => []SInv
  BY InitSInv, NextSInv, PTL DEF Spec

----------------------------------------------------------------------------
(* Recovery *)

\* A transcript's share for a participant, less the mask the participant derives.
Unmasked(f, id, t) ==
  RecoverShare(t.shares[FirstShare(t, id)].value,
               ParticipantMask(RunFixture(f).value,
                               f.dealers[FindById(f.dealers, t.dealer)],
                               f.participants[FindById(f.participants, id)], t.poly))

\* The checks of recovery, in no order, and what comes of them.
Recoverable(f, id, ts) ==
  /\ FindById(f.participants, id) # 0
  /\ \A k \in DOMAIN ts : /\ ValidateTranscript(ts[k], id) = NoError
                          /\ FindById(f.dealers, ts[k].dealer) # 0
  /\ f.threshold <= Len(ts)
  /\ IsInjective(DealersOf(ts))

LEMMA RecoveryOutcome ==
  ASSUME NEW f \in FixtureRecords, RunFixture(f).ok, NEW ts \in Seq(Transcripts), NEW id
  PROVE  LET r == RecoverFromTranscripts(RunFixture(f).value, id, ts) IN
         /\ r.ok \in BOOLEAN
         /\ r.ok <=> Recoverable(f, id, ts)
         /\ r.ok => r.value = [participant |-> id,
                               value |-> SumOf([k \in DOMAIN ts |-> Unmasked(f, id, ts[k])]),
                               dealerCount |-> Len(ts)]
<1> DEFINE s == RunFixture(f).value
           r == RecoverFromTranscripts(s, id, ts)
           verified == VerifyForParticipant(ts, id)
           value == [participant |-> id,
                     value |-> SumOf([k \in DOMAIN ts |-> Unmasked(f, id, ts[k])]),
                     dealerCount |-> Len(ts)]
<1>1. /\ s.config.threshold = f.threshold /\ s.participants = f.participants
      /\ s.dealers = f.dealers /\ f.threshold \in Nat /\ Len(ts) \in Nat
  BY RunIsFaithful, FixtureTypes
<1>2. r = IF FindById(f.participants, id) = 0 THEN Err("UnknownParticipant")
          ELSE IF ~verified.ok THEN verified
          ELSE IF \E k \in DOMAIN ts : FindById(f.dealers, ts[k].dealer) = 0
          THEN Err("UnknownDealer")
          ELSE IF ValidateDealers(s.config, ts) # NoError
          THEN Err(ValidateDealers(s.config, ts))
          ELSE Ok(value)
  <2> HIDE DEF s
  <2> QED
    BY <1>1 DEF RecoverFromTranscripts, Unmasked, s
<1>3. /\ verified.ok \in BOOLEAN
      /\ verified.ok <=> \A k \in DOMAIN ts : ValidateTranscript(ts[k], id) = NoError
  BY VerifiedForParticipant
<1>4. ValidateDealers(s.config, ts) = NoError <=>
        f.threshold <= Len(ts) /\ IsInjective(DealersOf(ts))
  BY <1>1, DealersValidated
<1>5. /\ Ok(value).ok \in BOOLEAN /\ Ok(value).ok /\ Ok(value).value = value
      /\ \A e : Err(e).ok \in BOOLEAN /\ ~Err(e).ok
  BY DEF Ok, Err
<1> HIDE DEF s, r, verified, value
<1>6. CASE Recoverable(f, id, ts)
  <2>1. r = Ok(value)
    BY <1>2, <1>3, <1>4, <1>6 DEF Recoverable
  <2> QED
    BY <1>5, <1>6, <2>1 DEF r, s, value
<1>7. CASE ~Recoverable(f, id, ts)
  <2>1. r.ok \in BOOLEAN /\ ~r.ok
    BY <1>2, <1>3, <1>4, <1>5, <1>7 DEF Recoverable
  <2> QED
    BY <1>7, <2>1 DEF r, s
<1> QED
  BY <1>6, <1>7

\* The share that a validated transcript gives a participant is the polynomial of
\* the dealer at the participant's identifier.
LEMMA UnmaskedIsShare ==
  ASSUME NEW f \in FixtureRecords, RunFixture(f).ok, NEW k \in DOMAIN f.dealers,
         NEW t, SentAs(f, t, k), FindById(f.dealers, t.dealer) = k,
         NEW id, FindById(f.participants, id) # 0, ValidateTranscript(t, id) = NoError
  PROVE  Unmasked(f, id, t) = Evaluate(f.dealers[k].coefficients, FromU64(id))
<1> DEFINE c == f.dealers[k].coefficients
           j == FindById(f.participants, id)
           n == FirstShare(t, id)
           z == t.shares[n].value
           m == MaskOf(f, k, id)
           x == FromU64(id)
<1>1. /\ j \in DOMAIN f.participants /\ f.participants[j].id = id /\ id \in Nat
      /\ c \in Seq(Scalars) /\ c \in Seq(Int)
      /\ f.dealers[k].secret \in 0 .. (Q - 1) /\ f.participants[j].secret \in 0 .. (Q - 1)
  BY FixtureTypes, FindByIdFound, ResiduesAreIntegers
<1>2. m \in Scalars
  BY <1>1, MaskOfType
<1>3. /\ t \in Transcripts /\ t.poly = CommitPolynomial(c)
      /\ n \in DOMAIN t.shares /\ t.shares[n].participant = id
      /\ VerifyMaskedShareCommitment(t.shares[n], t.poly)
      /\ t.shares[n].mask = GeneratorMul(m)
  BY ValidatedShare, FirstShareFound DEF SentAs
<1>4. z \in Scalars
  <2> DEFINE S == [participant : Nat, value : Scalars, mask : Points]
  <2>1. t.shares[n] \in S
    BY <1>3, ElementType DEF Transcripts
  <2> QED
    BY <2>1
<1>5. ParticipantMask(RunFixture(f).value, f.dealers[FindById(f.dealers, t.dealer)],
                      f.participants[j], t.poly) = m
  <2> DEFINE d == f.dealers[k]
             p == f.participants[j]
  <2>1. DiffieHellman(p.secret, HelperPublic(d.secret)) =
          DiffieHellman(d.secret, HelperPublic(p.secret))
    BY <1>1, SharedPointAgrees
  <2>2. RunFixture(f).value.session = f.session
    BY RunIsFaithful
  <2> QED
    BY <1>3, <2>1, <2>2 DEF ParticipantMask, DealerMask, MaskOf
<1> HIDE DEF m, c, n, z
<1>6. x \in Int
  BY <1>1, Remainder, FieldAssumption DEF FromU64
<1> HIDE DEF x
<1>7. Evaluate(c, x) \in Scalars /\ Evaluate(c, x) \in Int /\ m \in Int
  BY <1>1, <1>2, <1>6, EvaluateType, ResiduesAreIntegers
<1>8. GeneratorMul(z) = PointAdd(GeneratorMul(Evaluate(c, x)), GeneratorMul(m))
  <2>1. EvaluatePublicPolynomial(t.poly, id) = GeneratorMul(Evaluate(c, x))
    BY <1>1, <1>3, <1>6, PublicEvaluation, CommittedEvaluation DEF x
  <2> QED
    BY <1>3, <2>1 DEF VerifyMaskedShareCommitment, z
<1>9. GeneratorMul(Evaluate(c, x)) \in Points
  BY <1>7, Closure
<1>10. GeneratorMul(Sub(z, m)) = GeneratorMul(Evaluate(c, x))
  BY <1>2, <1>4, <1>8, <1>9, UnmaskedShare
<1>11. Sub(z, m) \in Scalars
  BY <1>4, <1>7, Closure, ResiduesAreIntegers
<1>12. Sub(z, m) = Evaluate(c, x)
  BY <1>7, <1>10, <1>11, GeneratorMulInjective
<1>13. Unmasked(f, id, t) = Sub(z, m)
  BY <1>5 DEF Unmasked, RecoverShare, z, n
<1> QED
  BY <1>12, <1>13 DEF c, x

\* What a participant recovers is what the dealers it heard from share with it.
LEMMA RecoveredIsDealerSum ==
  ASSUME fixture \in FixtureRecords, RunFixture(fixture).ok, DistinctDealers,
         NEW ts, Arrived(fixture, ts), NEW id, Recoverable(fixture, id, ts)
  PROVE  SumOf([k \in DOMAIN ts |-> Unmasked(fixture, id, ts[k])]) =
           ShareFrom(ToSet(DealersOf(ts)), id)
<1> DEFINE D == ToSet(DealersOf(ts))
           x == FromU64(id)
           Value(n) == Evaluate(fixture.dealers[n].coefficients, x)
           e == [k \in DOMAIN ts |-> FindById(fixture.dealers, ts[k].dealer)]
           a == [k \in DOMAIN ts |-> Unmasked(fixture, id, ts[k])]
           b == [n \in DOMAIN fixture.dealers |->
                   IF fixture.dealers[n].id \in D THEN Value(n) ELSE 0]
<1>1. /\ DOMAIN fixture.dealers = 1 .. Len(fixture.dealers) /\ Len(fixture.dealers) \in Nat
      /\ DOMAIN ts = 1 .. Len(ts) /\ Len(ts) \in Nat
      /\ \A n \in DOMAIN fixture.dealers : fixture.dealers[n].coefficients \in Seq(Int)
  <2>1. Seq(Scalars) \subseteq Seq(Int)
    BY ResiduesAreIntegers
  <2> QED
    BY <2>1, FixtureTypes DEF Arrived
<1>2. \A k \in DOMAIN ts :
        /\ e[k] \in DOMAIN fixture.dealers /\ fixture.dealers[e[k]].id = ts[k].dealer
        /\ SentAs(fixture, ts[k], e[k])
  <2> TAKE k \in DOMAIN ts
  <2>1. e[k] \in DOMAIN fixture.dealers /\ fixture.dealers[e[k]].id = ts[k].dealer
    BY <1>1, FindByIdFound DEF Recoverable
  <2>2. PICK n \in DOMAIN fixture.dealers : SentAs(fixture, ts[k], n)
    BY DEF Arrived
  <2>3. n = e[k]
    BY <2>1, <2>2 DEF SentAs, DistinctDealers
  <2> QED
    BY <2>1, <2>2, <2>3
<1>3. \A n \in DOMAIN fixture.dealers : Value(n) \in Int
  <2>1. x \in Int
    <3>1. FindById(fixture.participants, id) # 0
      BY DEF Recoverable
    <3>2. id \in Nat
      BY <3>1, FixtureTypes, FindByIdFound
    <3> QED
      BY <3>2, Remainder, FieldAssumption DEF FromU64
  <2> HIDE DEF x
  <2> QED
    BY <1>1, <2>1, EvaluateType, ResiduesAreIntegers
<1>4. \A k \in DOMAIN ts : a[k] = Value(e[k])
  <2> TAKE k \in DOMAIN ts
  <2>1. Unmasked(fixture, id, ts[k]) = Evaluate(fixture.dealers[e[k]].coefficients, FromU64(id))
    BY <1>2, UnmaskedIsShare DEF Recoverable
  <2> QED
    BY <2>1
<1>5. \A k \in DOMAIN ts : ts[k].dealer \in D
  BY DEF ToSet, DealersOf
<1>6. \A y \in D : \E k \in DOMAIN ts : y = ts[k].dealer
  BY DEF ToSet, DealersOf
<1>7. \A j, k \in DOMAIN ts : ts[j].dealer = ts[k].dealer => j = k
  BY DEF Recoverable, IsInjective, DealersOf
<1>8. e \in [DOMAIN ts -> DOMAIN fixture.dealers] /\ DOMAIN a = DOMAIN ts
      /\ DOMAIN b = DOMAIN fixture.dealers
  BY <1>2
<1>9. \A n \in DOMAIN b : b[n] = IF fixture.dealers[n].id \in D THEN Value(n) ELSE 0
  OBVIOUS
<1> HIDE DEF e, D, Value
<1>10. a \in Seq(Int) /\ b \in Seq(Int)
  BY <1>1, <1>2, <1>3, <1>4
<1>11. SumOf([n \in DOMAIN fixture.dealers |->
                IF fixture.dealers[n].id \in D THEN Value(n) ELSE 0]) = ShareFrom(D, id)
  BY DEF ShareFrom, Value
<1> HIDE DEF a, b
<1>12. \A j, k \in DOMAIN a : e[j] = e[k] => j = k
  BY <1>2, <1>7, <1>8
<1>13. \A k \in DOMAIN a : a[k] = b[e[k]]
  BY <1>2, <1>4, <1>5, <1>8, <1>9
<1>14. \A n \in DOMAIN b : (\A k \in DOMAIN a : e[k] # n) => b[n] = 0
  <2> SUFFICES ASSUME NEW n \in DOMAIN b, fixture.dealers[n].id \in D
               PROVE  \E k \in DOMAIN a : e[k] = n
    BY <1>9
  <2>1. PICK k \in DOMAIN ts : fixture.dealers[n].id = ts[k].dealer
    BY <1>6
  <2> QED
    BY <1>2, <1>8, <2>1 DEF DistinctDealers
<1>15. Reindexes(e, a, b, 0)
  BY <1>8, <1>12, <1>13, <1>14 DEF Reindexes
<1>16. SumOf(a) = SumOf(b)
  BY <1>10, <1>15, SumReindexed
<1> QED
  BY <1>11, <1>16 DEF a, b, D

LEMMA SharesAreSums ==
  ASSUME SInv
  PROVE  RecoveredShareIsDealerSum
<1> SUFFICES ASSUME NEW id \in RecoveredIds
             PROVE  LET share == recovered[id].result.value
                        from  == recovered[id].from
                    IN  /\ DistinctDealers => share.value = ShareFrom(from, id)
                        /\ share.dealerCount = Cardinality(from)
                        /\ share.dealerCount >= fixture.threshold
  BY DEF RecoveredShareIsDealerSum
<1>1. id \in Ids /\ recovered[id] # NotRun /\ recovered[id].result.ok
  BY DEF RecoveredIds
<1>2. PICK ts : RecoveredFrom(id, ts)
  BY <1>1 DEF SInv
<1>3. fixture \in FixtureRecords /\ simulation = RunFixture(fixture) /\ RunFixture(fixture).ok
  <2>1. simulation.ok
    BY <1>1 DEF SInv
  <2>2. NotRun.ok = FALSE
    BY DEF NotRun
  <2> QED
    BY <2>1, <2>2, FixturesAssumption DEF SInv
<1> DEFINE r == RecoverFromTranscripts(RunFixture(fixture).value, id, ts)
<1>4. /\ ts \in Seq(Transcripts) /\ Arrived(fixture, ts)
      /\ recovered[id].result = r /\ recovered[id].from = ToSet(DealersOf(ts))
  BY <1>2, <1>3 DEF RecoveredFrom, Arrived
<1>5. /\ Recoverable(fixture, id, ts)
      /\ r.value = [participant |-> id,
                    value |-> SumOf([k \in DOMAIN ts |-> Unmasked(fixture, id, ts[k])]),
                    dealerCount |-> Len(ts)]
  BY <1>1, <1>3, <1>4, RecoveryOutcome
<1>6. DistinctDealers => r.value.value = ShareFrom(ToSet(DealersOf(ts)), id)
  BY <1>3, <1>4, <1>5, RecoveredIsDealerSum
<1>7. Cardinality(ToSet(DealersOf(ts))) = Len(ts)
  <2>1. DOMAIN DealersOf(ts) = 1 .. Len(ts) /\ Len(ts) \in Nat
    BY <1>4 DEF DealersOf
  <2> QED
    BY <1>5, <2>1, AsManyAsDistinct DEF Recoverable
<1>8. fixture.threshold \in Nat /\ Len(ts) \in Nat /\ fixture.threshold <= Len(ts)
  BY <1>3, <1>4, <1>5, FixtureTypes DEF Recoverable
<1> QED
  BY <1>4, <1>5, <1>6, <1>7, <1>8

\* Whatever the order, the losses, the repetitions and the changes on the way: a
\* share that a participant recovers is the sum of what distinct dealers, as many as
\* the threshold asks for, share with it (recover_participant_from_transcripts,
\* simulation.rs:218).
THEOREM RecoveredShares == Spec => []RecoveredShareIsDealerSum
<1>1. SInv => RecoveredShareIsDealerSum
  BY SharesAreSums
<1> QED
  BY <1>1, SInvAlways, PTL

----------------------------------------------------------------------------
(* Order *)

LEMMA UnmaskedType ==
  ASSUME NEW f \in FixtureRecords, RunFixture(f).ok, NEW t \in Transcripts,
         FindById(f.dealers, t.dealer) # 0,
         NEW id, FindById(f.participants, id) # 0, ValidateTranscript(t, id) = NoError
  PROVE  Unmasked(f, id, t) \in Int
<1> DEFINE d == f.dealers[FindById(f.dealers, t.dealer)]
           p == f.participants[FindById(f.participants, id)]
           s == RunFixture(f).value
           n == FirstShare(t, id)
           z == t.shares[n].value
           m == ParticipantMask(s, d, p, t.poly)
<1>1. /\ d.id \in Int /\ p.id \in Int
      /\ d.secret \in 0 .. (Q - 1) /\ p.secret \in 0 .. (Q - 1)
      /\ s.session \in Int
  BY FixtureTypes, FindByIdFound, RunIsFaithful
<1>2. n \in DOMAIN t.shares
  BY ValidatedShare, FirstShareFound
<1>3. z \in Int
  <2> DEFINE S == [participant : Nat, value : Scalars, mask : Points]
  <2>1. t.shares[n] \in S
    BY <1>2, ElementType DEF Transcripts
  <2> QED
    BY <2>1, ResiduesAreIntegers
<1>4. t.poly \in Seq(Int)
  <2>1. Seq(Points) \subseteq Seq(Int)
    BY ResiduesAreIntegers
  <2> QED
    BY <2>1 DEF Transcripts
<1> HIDE DEF d, p, s, z, m
<1>5. HelperPublic(d.secret) \in 0 .. (Q - 1) /\ HelperPublic(p.secret) \in 0 .. (Q - 1)
  <2>1. \A x \in 0 .. (Q - 1) : x * HelperGenerator \in Int
    BY HelperAssumption
  <2> QED
    BY <1>1, <2>1, Remainder, HelperAssumption DEF HelperPublic
<1>6. HelperPublic(d.secret) \in Int /\ HelperPublic(p.secret) \in Int
  BY <1>5
<1>7. DiffieHellman(p.secret, HelperPublic(d.secret)) \in Int
  BY <1>1, <1>5, DiffieHellmanType
<1>8. m \in Scalars
  BY <1>1, <1>4, <1>6, <1>7, MaskType DEF m, ParticipantMask
<1>9. Unmasked(f, id, t) = Sub(z, m)
  BY DEF Unmasked, RecoverShare, z, m, n, d, p, s
<1>10. m \in Int
  BY <1>8, ResiduesAreIntegers
<1> QED
  BY <1>3, <1>9, <1>10, Closure, ResiduesAreIntegers

\* Transcripts us are as recoverable as ts, and give the same share.
SameRecovery(f, id, us, ts) ==
  /\ us \in Seq(Transcripts) /\ Len(us) = Len(ts)
  /\ Recoverable(f, id, us) <=> Recoverable(f, id, ts)
  /\ Recoverable(f, id, ts) =>
       SumOf([k \in DOMAIN us |-> Unmasked(f, id, us[k])]) =
         SumOf([k \in DOMAIN ts |-> Unmasked(f, id, ts[k])])

LEMMA ReorderedRecovery ==
  ASSUME NEW f \in FixtureRecords, RunFixture(f).ok, NEW ts \in Seq(Transcripts),
         NEW pi \in Bijection(DOMAIN ts, DOMAIN ts), NEW id,
         NEW us, us = [k \in DOMAIN ts |-> ts[pi[k]]]
  PROVE  SameRecovery(f, id, us, ts)
<1>1. /\ pi \in [DOMAIN ts -> DOMAIN ts]
      /\ \A j, k \in DOMAIN ts : pi[j] = pi[k] => j = k
      /\ \A n \in DOMAIN ts : \E k \in DOMAIN ts : pi[k] = n
  BY DEF Bijection, Injection, Surjection, IsInjective
<1>2. /\ DOMAIN ts = 1 .. Len(ts) /\ Len(ts) \in Nat
      /\ \A k \in DOMAIN ts : ts[k] \in Transcripts
  BY ElementType
<1>3. us \in Seq(Transcripts) /\ DOMAIN us = DOMAIN ts /\ Len(us) = Len(ts)
  BY <1>1, <1>2
<1>4. \A k \in DOMAIN ts : us[k] = ts[pi[k]]
  OBVIOUS
<1>5. IsInjective(DealersOf(us)) <=> IsInjective(DealersOf(ts))
  <2>1. IsInjective(DealersOf(us)) <=>
          \A j, k \in DOMAIN ts : us[j].dealer = us[k].dealer => j = k
    BY <1>3 DEF IsInjective, DealersOf
  <2>2. IsInjective(DealersOf(ts)) <=>
          \A j, k \in DOMAIN ts : ts[j].dealer = ts[k].dealer => j = k
    BY DEF IsInjective, DealersOf
  <2>3. ASSUME \A j, k \in DOMAIN ts : us[j].dealer = us[k].dealer => j = k,
               NEW j \in DOMAIN ts, NEW k \in DOMAIN ts, ts[j].dealer = ts[k].dealer
        PROVE  j = k
    <3>1. PICK m \in DOMAIN ts, n \in DOMAIN ts : pi[m] = j /\ pi[n] = k
      BY <1>1
    <3>2. us[m] = ts[j] /\ us[n] = ts[k]
      BY <1>4, <3>1
    <3>3. m = n
      BY <2>3, <3>2
    <3> QED
      BY <3>1, <3>3
  <2>4. ASSUME \A j, k \in DOMAIN ts : ts[j].dealer = ts[k].dealer => j = k,
               NEW j \in DOMAIN ts, NEW k \in DOMAIN ts, us[j].dealer = us[k].dealer
        PROVE  j = k
    <3>1. pi[j] = pi[k]
      BY <1>1, <1>4, <2>4
    <3> QED
      BY <1>1, <3>1
  <2> QED
    BY <2>1, <2>2, <2>3, <2>4
<1>6. Recoverable(f, id, us) <=> Recoverable(f, id, ts)
  <2> DEFINE Good(t) == /\ ValidateTranscript(t, id) = NoError
                        /\ FindById(f.dealers, t.dealer) # 0
  <2>1. (\A k \in DOMAIN us : Good(us[k])) <=> \A k \in DOMAIN ts : Good(ts[k])
    <3> HIDE DEF Good
    <3> QED
      BY <1>1, <1>3, <1>4
  <2> QED
    BY <1>3, <1>5, <2>1 DEF Recoverable
<1>7. ASSUME Recoverable(f, id, ts)
      PROVE  SumOf([k \in DOMAIN us |-> Unmasked(f, id, us[k])]) =
               SumOf([k \in DOMAIN ts |-> Unmasked(f, id, ts[k])])
  <2> DEFINE a == [k \in DOMAIN us |-> Unmasked(f, id, us[k])]
             b == [k \in DOMAIN ts |-> Unmasked(f, id, ts[k])]
  <2>1. \A k \in DOMAIN ts : Unmasked(f, id, ts[k]) \in Int
    BY <1>2, <1>7, UnmaskedType DEF Recoverable
  <2>2. /\ DOMAIN a = DOMAIN ts /\ DOMAIN b = DOMAIN ts
        /\ \A k \in DOMAIN ts : a[k] = b[pi[k]]
    BY <1>1, <1>3, <1>4
  <2>3. b \in Seq(Int)
    BY <1>2, <2>1
  <2>4. a \in Seq(Int)
    <3>1. \A k \in DOMAIN us : Unmasked(f, id, us[k]) \in Int
      BY <1>1, <1>3, <1>4, <2>1
    <3> QED
      BY <1>2, <1>3, <3>1
  <2> HIDE DEF a, b
  <2>5. Reindexes(pi, a, b, 0)
    BY <1>1, <2>2 DEF Reindexes
  <2>6. SumOf(a) = SumOf(b)
    BY <2>3, <2>4, <2>5, SumReindexed
  <2> QED
    BY <2>6 DEF a, b
<1> QED
  BY <1>3, <1>6, <1>7 DEF SameRecovery

\* The order in which a participant holds the transcripts changes neither whether it
\* recovers nor what it recovers (docs/implementation-testing-plan.md:234).
THEOREM Order == Spec => []OrderIndependence
<1>1. SInv => OrderIndependence
  <2> SUFFICES ASSUME SInv, simulation.ok, NEW id \in Ids,
                      NEW pi \in Bijection(DOMAIN inbox, DOMAIN inbox)
               PROVE  LET straight == RecoverFromTranscripts(Honest, id, inbox)
                          permuted == RecoverFromTranscripts(Honest, id,
                                        [k \in DOMAIN inbox |-> inbox[pi[k]]])
                      IN  /\ straight.ok = permuted.ok
                          /\ straight.ok => straight.value = permuted.value
    BY DEF OrderIndependence
  <2> DEFINE us == [k \in DOMAIN inbox |-> inbox[pi[k]]]
             straight == RecoverFromTranscripts(Honest, id, inbox)
             permuted == RecoverFromTranscripts(Honest, id, us)
  <2>1. /\ fixture \in FixtureRecords /\ simulation = RunFixture(fixture)
        /\ RunFixture(fixture).ok /\ inbox \in Seq(Transcripts)
        /\ Honest = RunFixture(fixture).value
    <3>1. NotRun.ok = FALSE
      BY DEF NotRun
    <3> QED
      BY <3>1, FixturesAssumption DEF SInv, Arrived, Honest
  <2>2. SameRecovery(fixture, id, us, inbox)
    <3> PICK others : others = us
      OBVIOUS
    <3>1. others = [k \in DOMAIN inbox |-> inbox[pi[k]]]
      OBVIOUS
    <3> HIDE DEF us
    <3>2. SameRecovery(fixture, id, others, inbox)
      BY <2>1, <3>1, ReorderedRecovery
    <3> QED
      BY <3>2
  <2> HIDE DEF us
  <2>3. /\ straight.ok \in BOOLEAN
        /\ straight.ok <=> Recoverable(fixture, id, inbox)
        /\ straight.ok => straight.value =
             [participant |-> id,
              value |-> SumOf([k \in DOMAIN inbox |-> Unmasked(fixture, id, inbox[k])]),
              dealerCount |-> Len(inbox)]
    BY <2>1, RecoveryOutcome
  <2>4. /\ permuted.ok \in BOOLEAN
        /\ permuted.ok <=> Recoverable(fixture, id, us)
        /\ permuted.ok => permuted.value =
             [participant |-> id,
              value |-> SumOf([k \in DOMAIN us |-> Unmasked(fixture, id, us[k])]),
              dealerCount |-> Len(us)]
    BY <2>1, <2>2, RecoveryOutcome DEF SameRecovery
  <2> HIDE DEF straight, permuted
  <2> QED
    BY <2>2, <2>3, <2>4 DEF us, straight, permuted, SameRecovery
<1> QED
  BY <1>1, SInvAlways, PTL

----------------------------------------------------------------------------
(* Damage *)

\* A transcript undamaged for a participant validates for it.
LEMMA UndamagedValidates ==
  ASSUME fixture \in FixtureRecords, RunFixture(fixture).ok, simulation = RunFixture(fixture),
         DistinctDealers, NEW id \in Ids,
         NEW t, NEW k \in DOMAIN fixture.dealers, SentAs(fixture, t, k), Undamaged(t, id)
  PROVE  ValidateTranscript(t, id) = NoError /\ FindById(fixture.dealers, t.dealer) # 0
<1> DEFINE sent == RunFixture(fixture).value.transcripts[k]
           s == FirstShare(sent, id)
<1>1. FindById(fixture.dealers, t.dealer) = k
  <2>1. /\ DOMAIN fixture.dealers = 1 .. Len(fixture.dealers)
        /\ fixture.dealers[k].id = t.dealer
    BY FixtureTypes DEF SentAs
  <2>2. FindById(fixture.dealers, t.dealer) # 0
    BY <2>1, FindByIdFound
  <2> QED
    BY <2>1, <2>2, FindByIdFound, SMTT(30) DEF DistinctDealers
<1>2. k # 0 /\ DOMAIN fixture.participants = 1 .. Len(fixture.participants)
  BY FixtureTypes
<1>3. /\ sent \in Transcripts
      /\ sent.shares = [j \in DOMAIN fixture.participants |-> SentShare(fixture, k, j)]
  BY BuiltAsSent DEF SentAs
<1>4. /\ t.status = "Verified"
      /\ IsInjective([n \in DOMAIN t.shares |-> t.shares[n].participant])
      /\ FirstShare(t, id) # 0
      /\ t.shares[FirstShare(t, id)] = sent.shares[s]
  BY <1>1 DEF Undamaged, Honest
<1> HIDE DEF sent
<1>5. s \in DOMAIN fixture.participants
  <2>1. PICK j \in DOMAIN fixture.participants : fixture.participants[j].id = id
    BY DEF Ids, ParticipantIds, ToSet
  <2>2. j \in DOMAIN sent.shares /\ sent.shares[j].participant = id
    BY <1>3, <2>1 DEF SentShare
  <2>3. s # 0
    BY <1>3, <2>2, FirstShareExists
  <2> QED
    BY <1>3, <2>3, FirstShareFound
<1>6. t.shares[FirstShare(t, id)] = SentShare(fixture, k, s)
  BY <1>3, <1>4, <1>5
<1> HIDE DEF s
<1>7. VerifyMaskedShareCommitment(t.shares[FirstShare(t, id)], t.poly)
  BY <1>5, <1>6, SentShareCommitted DEF SentAs
<1>8. ValidateTranscript(t, id) = NoError
  BY <1>4, <1>7, ValidatedIsCommitted DEF SentAs
<1> QED
  BY <1>1, <1>2, <1>8

\* A participant whose own shares arrived as they were sent recovers exactly when it
\* holds transcripts of enough distinct dealers, whatever happened to the shares of
\* the others (validate_transcript, transcript.rs:195, checks the target's only).
THEOREM LocalDamage == Spec => []DamageIsLocal
<1>1. SInv => DamageIsLocal
  <2> SUFFICES ASSUME SInv, DistinctDealers, simulation.ok, NEW id \in Ids,
                      \A i \in DOMAIN inbox : Undamaged(inbox[i], id)
               PROVE  RecoverFromTranscripts(Honest, id, inbox).ok <=>
                        /\ Len(inbox) >= fixture.threshold
                        /\ IsInjective(DealersOf(inbox))
    BY DEF DamageIsLocal
  <2>1. /\ fixture \in FixtureRecords /\ simulation = RunFixture(fixture)
        /\ RunFixture(fixture).ok /\ inbox \in Seq(Transcripts)
        /\ Honest = RunFixture(fixture).value
        /\ \A i \in DOMAIN inbox : \E k \in DOMAIN fixture.dealers : SentAs(fixture, inbox[i], k)
    <3>1. NotRun.ok = FALSE
      BY DEF NotRun
    <3> QED
      BY <3>1, FixturesAssumption DEF SInv, Arrived, Honest
  <2>2. FindById(fixture.participants, id) # 0
    <3>1. DOMAIN fixture.participants = 1 .. Len(fixture.participants)
      BY <2>1, FixtureTypes
    <3>2. PICK j \in DOMAIN fixture.participants : fixture.participants[j].id = id
      BY DEF Ids, ParticipantIds, ToSet
    <3> QED
      BY <3>1, <3>2, FindByIdFound
  <2>3. \A i \in DOMAIN inbox : /\ ValidateTranscript(inbox[i], id) = NoError
                                /\ FindById(fixture.dealers, inbox[i].dealer) # 0
    BY <2>1, UndamagedValidates
  <2>4. Recoverable(fixture, id, inbox) <=>
          fixture.threshold <= Len(inbox) /\ IsInjective(DealersOf(inbox))
    BY <2>2, <2>3 DEF Recoverable
  <2>5. RecoverFromTranscripts(Honest, id, inbox).ok <=> Recoverable(fixture, id, inbox)
    BY <2>1, RecoveryOutcome
  <2>6. fixture.threshold \in Nat /\ Len(inbox) \in Nat
    BY <2>1, FixtureTypes
  <2> QED
    BY <2>4, <2>5, <2>6
<1> QED
  BY <1>1, SInvAlways, PTL

----------------------------------------------------------------------------
(* Quorums *)

\* The polynomials of the dealers in D, with zero for those of the others.
DealtBy(D) ==
  [k \in DOMAIN fixture.dealers |->
     IF fixture.dealers[k].id \in D THEN fixture.dealers[k].coefficients ELSE <<>>]

LEMMA DealtByType ==
  ASSUME fixture \in FixtureRecords, NEW D
  PROVE  /\ DealtBy(D) \in Seq(Seq(Int)) /\ DOMAIN DealtBy(D) = DOMAIN fixture.dealers
         /\ DOMAIN DealtBy(D) = 1 .. Len(DealtBy(D))
         /\ \A k \in DOMAIN fixture.dealers :
              DealtBy(D)[k] = IF fixture.dealers[k].id \in D
                              THEN fixture.dealers[k].coefficients ELSE <<>>
<1>1. /\ DOMAIN fixture.dealers = 1 .. Len(fixture.dealers) /\ Len(fixture.dealers) \in Nat
      /\ \A k \in DOMAIN fixture.dealers : fixture.dealers[k].coefficients \in Seq(Scalars)
  BY FixtureTypes
<1>2. Seq(Scalars) \subseteq Seq(Int) /\ <<>> \in Seq(Int)
  BY ResiduesAreIntegers
<1> QED
  BY <1>1, <1>2 DEF DealtBy

LEMMA SharedSum ==
  ASSUME fixture \in FixtureRecords, NEW D, NEW id \in Nat
  PROVE  ShareFrom(D, id) = PolySum(DealtBy(D), Len(DealtBy(D)), FromU64(id))
<1> DEFINE x == FromU64(id)
           p == DealtBy(D)
           a == [k \in DOMAIN fixture.dealers |->
                   IF fixture.dealers[k].id \in D
                   THEN Evaluate(fixture.dealers[k].coefficients, x) ELSE 0]
           b == [k \in 1 .. Len(p) |-> Evaluate(p[k], x)]
<1>1. /\ 1 .. Len(p) = DOMAIN fixture.dealers
      /\ \A k \in DOMAIN fixture.dealers :
           p[k] = IF fixture.dealers[k].id \in D THEN fixture.dealers[k].coefficients ELSE <<>>
  BY DealtByType
<1>2. x \in Int
  BY Remainder, FieldAssumption DEF FromU64
<1> HIDE DEF p, x
<1>3. Evaluate(<<>>, x) = 0
  BY <1>2, EvaluateEmpty
<1>4. a = b
  BY <1>1, <1>3
<1>5. ShareFrom(D, id) = SumOf(a) /\ PolySum(p, Len(p), x) = SumOf(b)
  BY DEF ShareFrom, PolySum, x
<1> HIDE DEF a, b
<1> QED
  BY <1>4, <1>5 DEF p, x

LEMMA QuorumReconstructs ==
  ASSUME SInv, OrdinaryFixture, NEW S \in Quorums, NEW id \in S
  PROVE  Reconstructed(S) = {ShareFrom(recovered[id].from, 0)}
<1> DEFINE D == recovered[id].from
           ids == SetToSeq(S)
           x == [k \in DOMAIN ids |-> FromU64(ids[k])]
           y == [k \in DOMAIN ids |-> recovered[ids[k]].result.value.value]
           s == [k \in DOMAIN ids |-> <<FromU64(ids[k]), recovered[ids[k]].result.value.value>>]
           p == DealtBy(D)
           n == Len(p)
<1>1. /\ S \in SUBSET RecoveredIds /\ Cardinality(S) = fixture.threshold
      /\ \A a \in S : recovered[a].from = D
  BY DEF Quorums
<1>2. /\ fixture \in FixtureRecords /\ fixture.threshold \in Nat /\ fixture.threshold # 0
      /\ Ids \subseteq Nat /\ IsFiniteSet(Ids)
  <2>1. simulation.ok
    BY <1>1 DEF SInv, RecoveredIds
  <2>2. fixture \in FixtureRecords /\ RunFixture(fixture).ok
    <3>1. NotRun.ok = FALSE
      BY DEF NotRun
    <3> QED
      BY <2>1, <3>1, FixturesAssumption DEF SInv
  <2>3. fixture.threshold \in Nat /\ fixture.threshold # 0
    BY <2>2, FixtureTypes, RunIsFaithful
  <2>4. /\ DOMAIN fixture.participants = 1 .. Len(fixture.participants)
        /\ Len(fixture.participants) \in Nat
        /\ \A j \in DOMAIN fixture.participants : fixture.participants[j].id \in Nat
    BY <2>2, FixtureTypes
  <2>5. Ids = {fixture.participants[j].id : j \in DOMAIN fixture.participants}
    BY DEF Ids, ToSet, ParticipantIds
  <2>6. IsFiniteSet(DOMAIN fixture.participants)
    BY <2>4, FS_Interval
  <2>7. IsFiniteSet(Ids)
    <3> DEFINE g == [j \in DOMAIN fixture.participants |-> fixture.participants[j].id]
    <3>1. g \in Surjection(DOMAIN fixture.participants, Ids)
      BY <2>5 DEF Surjection
    <3> HIDE DEF g
    <3> QED
      BY <2>6, <3>1, FS_Surjection
  <2> QED
    BY <2>2, <2>3, <2>4, <2>5, <2>7
<1>3. /\ S \subseteq Ids /\ IsFiniteSet(S)
  <2>1. S \subseteq Ids
    BY <1>1 DEF RecoveredIds
  <2> QED
    BY <1>2, <2>1, FS_Subset
<1>4. /\ DOMAIN ids = 1 .. fixture.threshold
      /\ \A k \in DOMAIN ids : ids[k] \in S /\ ids[k] \in Ids /\ ids[k] \in Nat
      /\ \A j, k \in DOMAIN ids : ids[j] = ids[k] => j = k
  BY <1>1, <1>2, <1>3, SetAsSequence
<1>5. /\ x \in Seq(Scalars) /\ x # <<>> /\ DOMAIN x = DOMAIN ids
      /\ \A k \in DOMAIN ids : x[k] = FromU64(ids[k]) /\ x[k] \in Scalars
  <2>1. \A k \in DOMAIN ids : FromU64(ids[k]) \in Scalars
    <3> HIDE DEF ids
    <3>1. \A k \in DOMAIN ids : ids[k] \in Int /\ FromU64(ids[k]) = ids[k] % P
      BY <1>4 DEF FromU64
    <3> QED
      BY <3>1, Remainder, FieldAssumption, ResiduesAreIntegers
  <2> HIDE DEF ids
  <2> QED
    BY <1>2, <1>4, <2>1
<1> HIDE DEF ids
<1>6. DistinctPoints(x)
  <2> HIDE DEF x
  <2>1. \A j, k \in DOMAIN x : x[j] = x[k] => j = k
    BY <1>4, <1>5 DEF OrdinaryFixture
  <2> QED
    BY <1>5, <2>1 DEF DistinctPoints
<1>7. p \in Seq(Seq(Int)) /\ n \in Nat
      /\ \A d \in DOMAIN p : Len(p[d]) <= fixture.threshold
  <2>1. /\ p \in Seq(Seq(Int)) /\ DOMAIN p = DOMAIN fixture.dealers
        /\ \A k \in DOMAIN fixture.dealers :
             p[k] = IF fixture.dealers[k].id \in D
                    THEN fixture.dealers[k].coefficients ELSE <<>>
    BY <1>2, DealtByType
  <2>2. n \in Nat
    BY <2>1
  <2>3. Len(<<>>) <= fixture.threshold
    BY <1>2
  <2> HIDE DEF p
  <2> QED
    BY <2>1, <2>2, <2>3 DEF OrdinaryFixture
<1>8. Cardinality(DOMAIN x) = fixture.threshold
  <2>1. Cardinality(1 .. fixture.threshold) = fixture.threshold
    <3>1. 1 <= fixture.threshold /\ 1 \in Int /\ fixture.threshold \in Int
      BY <1>2
    <3> QED
      BY <1>2, <3>1, FS_Interval
  <2> QED
    BY <1>4, <1>5, <2>1
<1>9. \A k \in DOMAIN ids : y[k] = PolySum(p, n, x[k])
  <2>1. \A a \in S : recovered[a].result.value.value = ShareFrom(D, a)
    BY <1>1, SharesAreSums DEF OrdinaryFixture, RecoveredShareIsDealerSum
  <2>2. \A k \in DOMAIN ids : y[k] = ShareFrom(D, ids[k])
    BY <1>4, <2>1
  <2> HIDE DEF D, x, y
  <2> QED
    BY <1>2, <1>4, <1>5, <2>2, SharedSum
<1>10. \A k \in DOMAIN ids : PolySum(p, n, x[k]) \in Scalars
  <2> HIDE DEF p, x, ids
  <2>1. \A k \in DOMAIN ids : x[k] \in Int
    BY <1>5, ResiduesAreIntegers
  <2> QED
    BY <1>7, <2>1, PolySumType
<1>11. Samples(s, x, y)
  <2>1. \A k \in DOMAIN ids : s[k] = <<x[k], y[k]>> /\ y[k] \in Scalars
    BY <1>9, <1>10
  <2>2. DOMAIN s = DOMAIN x
    OBVIOUS
  <2> HIDE DEF s, x, y
  <2> QED
    BY <1>5, <2>1, <2>2 DEF Samples
<1>12. InterpolateAtZero(s) = {SumOf(Weighted(y, x, DOMAIN x))}
  <2> HIDE DEF s, x, y
  <2> QED
    BY <1>5, <1>6, <1>11, InterpolatedSamples
<1>13. y = PolySumsAt(p, n, x)
  <2>1. y = [k \in DOMAIN ids |-> y[k]]
    OBVIOUS
  <2> HIDE DEF y, x, p, n
  <2> QED
    BY <1>5, <1>9, <2>1 DEF PolySumsAt
<1>14. SumOf(Weighted(PolySumsAt(p, n, x), x, DOMAIN x)) = PolySum(p, n, 0)
  <2> HIDE DEF x, p
  <2> QED
    BY <1>6, <1>7, <1>8, InterpolatedSum
<1>15. ShareFrom(D, 0) = PolySum(p, n, 0)
  <2>1. FromU64(0) = 0 /\ 0 \in Nat
    BY RemainderOfResidue, ResiduesAreIntegers, FieldAssumption DEF FromU64
  <2> HIDE DEF D
  <2> QED
    BY <1>2, <2>1, SharedSum
<1>16. Reconstructed(S) = InterpolateAtZero(s)
  BY DEF Reconstructed, ids
<1> HIDE DEF s, x, y, p, n, D
<1> QED
  BY <1>12, <1>13, <1>14, <1>15, <1>16 DEF D

\* Any threshold of the participants that recovered from the same dealers, at
\* whatever moments and in whatever orders, hold shares of one secret, the sum of
\* those dealers' constant terms: interpolated at zero, their shares give it.
THEOREM QuorumsReconstruct == Spec => []QuorumReconstructsSecret
<1>1. SInv => QuorumReconstructsSecret
  BY QuorumReconstructs DEF QuorumReconstructsSecret
<1> QED
  BY <1>1, SInvAlways, PTL

\* The key and the sum of the constant terms, for every fixture that gives a key.
LEMMA AggregatedKey ==
  ASSUME NEW f \in FixtureRecords, RunFixture(f).ok,
         SimulationPublicKey(RunFixture(f).value).ok
  PROVE  /\ \A k \in DOMAIN f.dealers : f.dealers[k].coefficients # <<>>
         /\ AggregateSecret(RunFixture(f).value).ok
         /\ AggregateSecret(RunFixture(f).value).value =
              SumOf([k \in DOMAIN f.dealers |-> Head(f.dealers[k].coefficients)])
         /\ SimulationPublicKey(RunFixture(f).value).value =
              GeneratorMul(SumOf([k \in DOMAIN f.dealers |-> Head(f.dealers[k].coefficients)]))
<1> DEFINE s == RunFixture(f).value
           ts == s.transcripts
           verified == VerifyForParticipant(ts, s.participants[1].id)
           key == AggregatePublicKey(s.config, ts)
           heads == [k \in DOMAIN f.dealers |-> Head(f.dealers[k].coefficients)]
           points == [k \in DOMAIN ts |-> Head(ts[k].poly)]
<1>1. /\ s.dealers = f.dealers /\ DOMAIN ts = DOMAIN f.dealers
      /\ DOMAIN f.dealers = 1 .. Len(f.dealers) /\ Len(f.dealers) \in Nat
      /\ \A k \in DOMAIN f.dealers : f.dealers[k].coefficients \in Seq(Scalars)
  BY RunIsFaithful, FixtureTypes
<1>2. \A k \in DOMAIN f.dealers : ts[k].poly = CommitPolynomial(f.dealers[k].coefficients)
  BY BuiltAsSent DEF SentAs
<1>3. SimulationPublicKey(s) = IF ~verified.ok THEN verified ELSE key
  BY DEF SimulationPublicKey
<1> HIDE DEF s, ts, verified, key
<1>4. key.ok /\ SimulationPublicKey(s) = key
  BY <1>3 DEF s
<1>5. /\ \A k \in DOMAIN ts : ts[k].poly # <<>>
      /\ key.value = FoldLeft(PointAdd, Identity, points)
  BY <1>4 DEF key, AggregatePublicKey, Ok, Err
<1>6. ASSUME NEW k \in DOMAIN f.dealers
      PROVE  /\ f.dealers[k].coefficients # <<>>
             /\ heads[k] \in Int
             /\ points[k] = GeneratorMul(heads[k])
             /\ points[k] \in Int
  <2> DEFINE c == f.dealers[k].coefficients
  <2>1. c \in Seq(Scalars) /\ ts[k].poly = CommitPolynomial(c) /\ CommitPolynomial(c) # <<>>
        /\ heads[k] = Head(c) /\ points[k] = Head(CommitPolynomial(c))
    BY <1>1, <1>2, <1>5
  <2> HIDE DEF c, heads, points
  <2>2. /\ CommitPolynomial(c) = [j \in DOMAIN c |-> GeneratorMul(c[j])]
        /\ CommitPolynomial(c) \in Seq(Points)
    BY <2>1, CommitmentType DEF CommitPolynomial
  <2>3. c # <<>>
    <3>1. CASE c = <<>>
      <4>1. DOMAIN CommitPolynomial(c) = {}
        BY <2>2, <3>1
      <4> QED
        BY <2>1, <2>2, <4>1
    <3> QED
      BY <3>1
  <2>4. 1 \in DOMAIN c /\ Head(c) = c[1] /\ Head(CommitPolynomial(c)) = CommitPolynomial(c)[1]
        /\ Head(CommitPolynomial(c)) \in Points /\ c[1] \in Scalars
    BY <2>1, <2>2, <2>3
  <2>5. CommitPolynomial(c)[1] = GeneratorMul(c[1])
    BY <2>2, <2>4
  <2> QED
    BY <2>1, <2>3, <2>4, <2>5, ResiduesAreIntegers DEF c
<1>7. heads \in Seq(Int) /\ points \in Seq(Int) /\ DOMAIN heads = DOMAIN points
      /\ DOMAIN heads = DOMAIN f.dealers
  <2>1. /\ heads = [k \in DOMAIN f.dealers |-> heads[k]]
        /\ points = [k \in DOMAIN ts |-> points[k]]
    OBVIOUS
  <2> HIDE DEF heads, points
  <2>2. ASSUME NEW g, g = [k \in DOMAIN f.dealers |-> g[k]],
               \A k \in DOMAIN f.dealers : g[k] \in Int
        PROVE  g \in Seq(Int) /\ DOMAIN g = DOMAIN f.dealers
    <3> PICK n \in Nat : n = Len(f.dealers)
      BY <1>1
    <3>1. DOMAIN f.dealers = 1 .. n
      BY <1>1
    <3> QED
      BY <2>2, <3>1
  <2>3. points = [k \in DOMAIN f.dealers |-> points[k]]
    BY <1>1, <2>1
  <2>4. heads \in Seq(Int) /\ DOMAIN heads = DOMAIN f.dealers
    BY <1>6, <2>1, <2>2
  <2>5. points \in Seq(Int) /\ DOMAIN points = DOMAIN f.dealers
    BY <1>6, <2>2, <2>3
  <2> QED
    BY <2>4, <2>5
<1> HIDE DEF heads, points
<1>8. key.value = GeneratorMul(SumOf(heads))
  <2>1. GeneratorMul(SumOf(heads)) = SumOf(points)
    BY <1>6, <1>7, GeneratorMulSum
  <2> QED
    BY <1>5, <2>1, PointSum
<1>9. AggregateSecret(s) = Ok(SumOf(heads))
  BY <1>1, <1>6 DEF AggregateSecret, heads
<1>10. AggregateSecret(s).ok /\ AggregateSecret(s).value = SumOf(heads)
  BY <1>9 DEF Ok
<1> QED
  BY <1>4, <1>6, <1>8, <1>10 DEF s, heads

\* The constant terms are what all dealers together share at zero.
LEMMA SharedByAll ==
  ASSUME fixture \in FixtureRecords,
         \A k \in DOMAIN fixture.dealers : fixture.dealers[k].coefficients # <<>>
  PROVE  ShareFrom(AllDealers, 0) =
           SumOf([k \in DOMAIN fixture.dealers |-> Head(fixture.dealers[k].coefficients)])
<1>1. FromU64(0) = 0
  BY RemainderOfResidue, ResiduesAreIntegers, FieldAssumption DEF FromU64
<1>2. ASSUME NEW k \in DOMAIN fixture.dealers
      PROVE  Evaluate(fixture.dealers[k].coefficients, 0) = Head(fixture.dealers[k].coefficients)
  <2> DEFINE c == fixture.dealers[k].coefficients
  <2>1. c \in Seq(Scalars) /\ c # <<>>
    BY FixtureTypes
  <2> HIDE DEF c
  <2>2. c \in Seq(Int) /\ c[1] \in Scalars /\ Head(c) = c[1]
    <3>1. Seq(Scalars) \subseteq Seq(Int)
      BY ResiduesAreIntegers
    <3> QED
      BY <2>1, <3>1
  <2>3. Evaluate(c, 0) = c[1] % P
    BY <2>1, <2>2, EvaluateAtZero
  <2>4. c[1] % P = c[1]
    BY <2>2, RemainderOfResidue, ResiduesAreIntegers
  <2> QED
    BY <2>2, <2>3, <2>4 DEF c
<1>3. \A k \in DOMAIN fixture.dealers : fixture.dealers[k].id \in AllDealers
  BY DEF AllDealers
<1>4. [k \in DOMAIN fixture.dealers |->
         IF fixture.dealers[k].id \in AllDealers
         THEN Evaluate(fixture.dealers[k].coefficients, FromU64(0)) ELSE 0]
      = [k \in DOMAIN fixture.dealers |-> Head(fixture.dealers[k].coefficients)]
  BY <1>1, <1>2, <1>3
<1> QED
  BY <1>4 DEF ShareFrom

LEMMA KeyMatches ==
  ASSUME SInv
  PROVE  QuorumMatchesGroupKey
<1> SUFFICES ASSUME groupKey.ok
             PROVE  /\ AggregateSecret(Honest).ok
                    /\ groupKey.value = GeneratorMul(AggregateSecret(Honest).value)
                    /\ OrdinaryFixture =>
                         \A S \in Quorums :
                           (\A id \in S : recovered[id].from = AllDealers) =>
                             {GeneratorMul(x) : x \in Reconstructed(S)} = {groupKey.value}
  BY DEF QuorumMatchesGroupKey
<1>1. /\ fixture \in FixtureRecords /\ RunFixture(fixture).ok
      /\ Honest = RunFixture(fixture).value
      /\ groupKey = SimulationPublicKey(Honest)
  <2>1. NotRun.ok = FALSE
    BY DEF NotRun
  <2> QED
    BY <2>1, FixturesAssumption DEF SInv, Honest
<1> DEFINE secret == SumOf([k \in DOMAIN fixture.dealers |-> Head(fixture.dealers[k].coefficients)])
<1>2. /\ \A k \in DOMAIN fixture.dealers : fixture.dealers[k].coefficients # <<>>
      /\ AggregateSecret(Honest).ok /\ AggregateSecret(Honest).value = secret
      /\ groupKey.value = GeneratorMul(secret)
  BY <1>1, AggregatedKey
<1>3. ShareFrom(AllDealers, 0) = secret
  BY <1>1, <1>2, SharedByAll
<1> HIDE DEF secret
<1>4. ASSUME OrdinaryFixture, NEW S \in Quorums, \A id \in S : recovered[id].from = AllDealers
      PROVE  {GeneratorMul(x) : x \in Reconstructed(S)} = {groupKey.value}
  <2>1. PICK id \in S : TRUE
    <3>1. Cardinality(S) = fixture.threshold /\ fixture.threshold # 0
      BY <1>1, FixtureTypes, RunIsFaithful DEF Quorums
    <3> QED
      BY <3>1, FS_EmptySet
  <2>2. Reconstructed(S) = {ShareFrom(recovered[id].from, 0)}
    BY <1>4, QuorumReconstructs
  <2>3. Reconstructed(S) = {secret}
    BY <1>3, <1>4, <2>2
  <2> QED
    BY <1>2, <2>3
<1> QED
  BY <1>2, <1>4

\* The aggregate public key, though its transcripts are verified for the first
\* participant only (aggregate_public_key, simulation.rs:280), is the commitment to
\* the sum of the constant terms, and any quorum that heard every dealer holds that
\* sum.
THEOREM GroupKey == Spec => []QuorumMatchesGroupKey
<1>1. SInv => QuorumMatchesGroupKey
  BY KeyMatches
<1> QED
  BY <1>1, SInvAlways, PTL

=============================================================================
