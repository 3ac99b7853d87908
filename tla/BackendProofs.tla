--------------------------- MODULE BackendProofs ---------------------------
(***************************************************************************)
(* Proofs about the parts of the proof backend that need no arithmetic:    *)
(*   IpaSetupCache, for any set of threads, domains and lengths and any    *)
(*     number of calls                                                     *)
(*   Blake2bStream, for every block length, every message and every way to *)
(*     cut it into pieces: the circuit compresses the blocks the prover's  *)
(*     library does                                                        *)
(***************************************************************************)
EXTENDS IpaSetupCache, Blake2bStream, SequenceTheorems, TLAPS

----------------------------------------------------------------------------
(* The setup cache *)


\* The initial state satisfies the inductive invariant.
LEMMA InitIInv == CacheInit => IInv
<1> SUFFICES ASSUME CacheInit PROVE IInv
  OBVIOUS
<1> USE DEF CacheInit
<1>1. TypeOK
  BY DEF TypeOK, Labels, Critical
<1>2. MutualExclusion /\ PanicIsLocal
  BY CacheAssumption DEF MutualExclusion, PanicIsLocal, Critical
<1>3. SharedAllocation /\ DistinctAllocations /\ CachedSetupsAreTheirKeys
  BY DEF SharedAllocation, DistinctAllocations, CachedSetupsAreTheirKeys
<1>4. OwnSetups /\ InsertingAbsent
  BY DEF OwnSetups, InsertingAbsent, InFlight
<1> QED
  BY <1>1, <1>2, <1>3, <1>4 DEF IInv

\* Starting a call preserves the inductive invariant.
LEMMA CallIInv ==
  ASSUME IInv, NEW t \in Threads, NEW k \in Keys, Call(t, k)
  PROVE  IInv'
<1> USE DEF IInv, TypeOK, Call, Goto
<1>1. TypeOK'
  BY CacheAssumption DEF Labels, Critical
<1>2. MutualExclusion' /\ PanicIsLocal'
  BY DEF MutualExclusion, PanicIsLocal, Critical
<1>3. SharedAllocation'
  BY DEF SharedAllocation
<1>4. DistinctAllocations' /\ CachedSetupsAreTheirKeys'
  BY DEF DistinctAllocations, CachedSetupsAreTheirKeys
<1>5. OwnSetups' /\ InsertingAbsent'
  BY DEF OwnSetups, InsertingAbsent, InFlight
<1> QED
  BY <1>1, <1>2, <1>3, <1>4, <1>5

\* Taking the mutex preserves it; no thread ever finds it poisoned.
LEMMA AcquireIInv ==
  ASSUME IInv, NEW t \in Threads,
         NEW from \in {"lookup", "store"}, NEW to \in {"get", "entry"},
         from = "lookup" <=> to = "get",
         Acquire(t, from, to)
  PROVE  IInv'
<1> USE DEF IInv, TypeOK, Goto
<1>0. /\ pc[t] = from /\ lock = NoThread
      /\ lock' = t /\ pc' = [pc EXCEPT ![t] = to]
      /\ UNCHANGED <<cache, poisoned, key, setup, result, calls, allocated>>
  BY DEF Acquire, PanicIsLocal
<1>1. TypeOK'
  BY <1>0 DEF Labels, Critical
<1>2. MutualExclusion' /\ PanicIsLocal'
  BY <1>0, CacheAssumption DEF MutualExclusion, PanicIsLocal, Critical
<1>3. SharedAllocation'
  BY <1>0 DEF SharedAllocation
<1>4. DistinctAllocations' /\ CachedSetupsAreTheirKeys'
  BY <1>0 DEF DistinctAllocations, CachedSetupsAreTheirKeys
<1>5. OwnSetups' /\ InsertingAbsent'
  BY <1>0 DEF OwnSetups, InsertingAbsent, InFlight
<1> QED
  BY <1>1, <1>2, <1>3, <1>4, <1>5

\* So does the body of the lookup,
LEMMA GetIInv ==
  ASSUME IInv, NEW t \in Threads, Get(t)
  PROVE  IInv'
<1> USE DEF IInv, TypeOK, Get, Goto
<1>1. TypeOK'
  BY DEF Labels, Critical
<1>2. MutualExclusion' /\ PanicIsLocal'
  BY DEF MutualExclusion, PanicIsLocal, Critical
<1>3. SharedAllocation'
  BY DEF SharedAllocation, CachedSetupsAreTheirKeys
<1>4. DistinctAllocations' /\ CachedSetupsAreTheirKeys'
  BY DEF DistinctAllocations, CachedSetupsAreTheirKeys
<1>5. OwnSetups' /\ InsertingAbsent'
  BY DEF OwnSetups, InsertingAbsent, InFlight
<1> QED
  BY <1>1, <1>2, <1>3, <1>4, <1>5

\* the release of the mutex after a miss and at the end of a call,
LEMMA ReleaseIInv ==
  ASSUME IInv, NEW t \in Threads, Drop(t) \/ Unlock(t)
  PROVE  IInv'
<1> USE DEF IInv, TypeOK, Drop, Unlock, Goto
<1>1. TypeOK'
  BY DEF Labels, Critical
<1>2. MutualExclusion' /\ PanicIsLocal'
  BY CacheAssumption DEF MutualExclusion, PanicIsLocal, Critical
<1>3. SharedAllocation'
  BY DEF SharedAllocation
<1>4. DistinctAllocations' /\ CachedSetupsAreTheirKeys'
  BY DEF DistinctAllocations, CachedSetupsAreTheirKeys
<1>5. OwnSetups' /\ InsertingAbsent'
  BY DEF OwnSetups, InsertingAbsent, InFlight
<1> QED
  BY <1>1, <1>2, <1>3, <1>4, <1>5

\* the computation, in which a thread may panic but holds no mutex,
LEMMA ComputeIInv ==
  ASSUME IInv, NEW t \in Threads, Compute(t)
  PROVE  IInv'
<1> USE DEF IInv, TypeOK, Goto
<1>1. CASE ~Allocatable(key[t])
  <2>0. /\ pc[t] = "compute" /\ pc' = [pc EXCEPT ![t] = "panicked"]
        /\ UNCHANGED <<cache, lock, poisoned, key, setup, result, calls, allocated>>
    BY <1>1 DEF Compute, Panic, MutualExclusion, Critical, PanicIsLocal
  <2>1. TypeOK'
    BY <2>0 DEF Labels, Critical
  <2>2. MutualExclusion' /\ PanicIsLocal'
    BY <2>0, <1>1 DEF MutualExclusion, PanicIsLocal, Critical
  <2>3. SharedAllocation' /\ DistinctAllocations' /\ CachedSetupsAreTheirKeys'
    BY <2>0 DEF SharedAllocation, DistinctAllocations, CachedSetupsAreTheirKeys
  <2>4. OwnSetups' /\ InsertingAbsent'
    BY <2>0 DEF OwnSetups, InsertingAbsent, InFlight
  <2> QED
    BY <2>1, <2>2, <2>3, <2>4
<1>2. CASE Allocatable(key[t])
  <2> DEFINE new == [derived |-> key[t], arc |-> allocated]
  <2>0. /\ pc[t] = "compute" /\ pc' = [pc EXCEPT ![t] = "store"]
        /\ setup' = [setup EXCEPT ![t] = new]
        /\ allocated' = allocated + 1
        /\ UNCHANGED <<cache, lock, poisoned, key, result, calls>>
    BY <1>2 DEF Compute
  <2>1. new \in Setups /\ new.derived = key[t] /\ new.arc = allocated
    BY <2>0 DEF Setups
  <2>  HIDE DEF new
  <2>2. TypeOK'
    BY <2>0, <2>1 DEF Labels, Critical
  <2>3. MutualExclusion' /\ PanicIsLocal'
    BY <2>0 DEF MutualExclusion, PanicIsLocal, Critical
  <2>4. SharedAllocation' /\ DistinctAllocations' /\ InsertingAbsent'
    BY <2>0 DEF SharedAllocation, DistinctAllocations, InsertingAbsent
  <2>5. CachedSetupsAreTheirKeys'
    BY <2>0 DEF CachedSetupsAreTheirKeys, Setups
  <2>6. OwnSetups'
    BY <2>0, <2>1 DEF OwnSetups, CachedSetupsAreTheirKeys, InFlight, Setups
  <2> QED
    BY <2>2, <2>3, <2>4, <2>5, <2>6
<1> QED
  BY <1>1, <1>2

\* the decision of the store,
LEMMA EntryIInv ==
  ASSUME IInv, NEW t \in Threads, Entry(t)
  PROVE  IInv'
<1> USE DEF IInv, TypeOK, Entry, Goto
<1>1. TypeOK'
  BY DEF Labels, Critical
<1>2. MutualExclusion' /\ PanicIsLocal'
  BY DEF MutualExclusion, PanicIsLocal, Critical
<1>3. SharedAllocation'
  BY DEF SharedAllocation, CachedSetupsAreTheirKeys
<1>4. DistinctAllocations' /\ CachedSetupsAreTheirKeys'
  BY DEF DistinctAllocations, CachedSetupsAreTheirKeys
<1>5. OwnSetups' /\ InsertingAbsent'
  BY DEF OwnSetups, InsertingAbsent, InFlight
<1> QED
  BY <1>1, <1>2, <1>3, <1>4, <1>5

\* and the insertion, which fills an absent entry with a setup of its key that
\* nobody else holds.
LEMMA InsertIInv ==
  ASSUME IInv, NEW t \in Threads, Insert(t)
  PROVE  IInv'
<1> USE DEF IInv, TypeOK, Insert, Goto
<1>0. /\ t \in InFlight /\ key[t] \in Keys /\ setup[t] \in Setups
      /\ cache[key[t]] = NoSetup /\ setup[t].derived = key[t]
  BY DEF InFlight, InsertingAbsent, OwnSetups
<1>1. TypeOK'
  BY <1>0 DEF Labels, Critical
<1>2. MutualExclusion' /\ PanicIsLocal'
  BY DEF MutualExclusion, PanicIsLocal, Critical
<1>3. SharedAllocation'
  <2> SUFFICES ASSUME NEW u \in Threads, result'[u] # NoSetup
               PROVE  result'[u] = cache'[key'[u]] /\ result'[u].derived = key'[u]
    BY DEF SharedAllocation
  <2>1. CASE u = t
    BY <1>0, <2>1
  <2>2. CASE u # t
    <3>1. result[u] = cache[key[u]] /\ result[u].derived = key[u] /\ result[u] # NoSetup
      BY <2>2 DEF SharedAllocation
    <3>2. key[u] # key[t]
      BY <3>1, <1>0
    <3> QED
      BY <3>1, <3>2, <2>2
  <2> QED
    BY <2>1, <2>2
<1>4. DistinctAllocations' /\ CachedSetupsAreTheirKeys'
  BY <1>0 DEF DistinctAllocations, CachedSetupsAreTheirKeys, OwnSetups
<1>5. OwnSetups'
  BY <1>0 DEF OwnSetups, InFlight
<1>6. InsertingAbsent'
  BY DEF InsertingAbsent, MutualExclusion, Critical
<1> QED
  BY <1>1, <1>2, <1>3, <1>4, <1>5, <1>6

\* Every step preserves the inductive invariant.
LEMMA NextIInv == IInv /\ [CacheNext]_cacheVars => IInv'
<1> SUFFICES ASSUME IInv, [CacheNext]_cacheVars PROVE IInv'
  OBVIOUS
<1>1. CASE CacheNext
  <2> PICK t \in Threads : (\E k \in Keys : Call(t, k)) \/ Step(t)
    BY <1>1 DEF CacheNext
  <2>1. CASE \E k \in Keys : Call(t, k)
    BY <2>1, CallIInv
  <2>2. CASE Step(t)
    BY <2>2, AcquireIInv, GetIInv, ReleaseIInv, ComputeIInv, EntryIInv, InsertIInv
    DEF Step
  <2> QED
    BY <2>1, <2>2
<1>2. CASE UNCHANGED cacheVars
  BY <1>2
  DEF cacheVars, IInv, TypeOK, MutualExclusion, SharedAllocation, DistinctAllocations,
      PanicIsLocal, CachedSetupsAreTheirKeys, OwnSetups, InsertingAbsent, InFlight
<1> QED
  BY <1>1, <1>2

\* The inductive invariant holds throughout every execution of the cache.
THEOREM Inductive == CacheSpec => []IInv
  BY InitIInv, NextIInv, PTL DEF CacheSpec

\* The variables of deterministic keep their types.
THEOREM Typing == CacheSpec => []TypeOK
<1>1. IInv => TypeOK
  BY DEF IInv
<1> QED
  BY Inductive, <1>1, PTL

\* Every call for a key returns the one cached allocation of that key
\* (ipa.rs:57-97), however the threads interleave.
THEOREM Sharing == CacheSpec => []SharedAllocation
<1>1. IInv => SharedAllocation
  BY DEF IInv
<1> QED
  BY Inductive, <1>1, PTL

\* The mutex is never poisoned and only a call for too large a length panics.
THEOREM LocalPanics == CacheSpec => []PanicIsLocal
<1>1. IInv => PanicIsLocal
  BY DEF IInv
<1> QED
  BY Inductive, <1>1, PTL

\* No cached setup is ever replaced.
THEOREM Stability == CacheSpec => EntriesAreStable
<1>1. ASSUME IInv, [CacheNext]_cacheVars
      PROVE  [\A k \in Keys : cache[k] # NoSetup => cache'[k] = cache[k]]_cache
  <2> SUFFICES ASSUME NEW k \in Keys, cache[k] # NoSetup, cache' # cache
               PROVE  cache'[k] = cache[k]
    OBVIOUS
  <2>1. PICK t \in Threads : Insert(t)
    BY <1>1
    DEF cacheVars, CacheNext, Step, Call, Acquire, Get, Drop, Compute, Entry, Unlock
  <2> QED
    BY <1>1, <2>1 DEF IInv, TypeOK, InsertingAbsent, Insert
<1> QED
  BY Inductive, <1>1, PTL DEF CacheSpec, EntriesAreStable

\* Making a setup, as SetupMemo sees it: the step that inserts.
LEMMA InsertIsAnswer ==
  ASSUME IInv, NEW t \in Threads, Insert(t)
  PROVE  Memo!Answer(t)
<1> USE DEF IInv, TypeOK, Insert, Goto
<1>0. /\ t \in InFlight /\ key[t] \in Keys /\ setup[t] \in Setups
      /\ cache[key[t]] = NoSetup /\ setup[t].derived = key[t]
      /\ cache' = [cache EXCEPT ![key[t]] = setup[t]] /\ cache'[key[t]] = setup[t]
  BY DEF InFlight, InsertingAbsent, OwnSetups
<1>1. Memo!Make(key[t])
  BY <1>0, CacheAssumption DEF Memo!Make, OwnSetups
<1>2. Memo!Answer(t)
  BY <1>0, <1>1 DEF Memo!Answer, Asking
<1> QED
  BY <1>2

\* Every step of a call under way is an answer, a failure or a stutter of the
\* memo.
LEMMA StepSimulation ==
  ASSUME IInv, NEW t \in Threads, Step(t)
  PROVE  [Memo!Next]_(Memo!vars)
<1> USE DEF IInv, TypeOK, Goto
<1>1. CASE Acquire(t, "lookup", "get") \/ Acquire(t, "store", "entry")
  BY <1>1 DEF Acquire, PanicIsLocal, Memo!vars, Asking
<1>2. CASE Get(t) /\ cache[key[t]] = NoSetup
  BY <1>2 DEF Get, Memo!vars, Asking
<1>3. CASE Get(t) /\ cache[key[t]] # NoSetup
  BY <1>3 DEF Get, Memo!Next, Memo!Answer, Memo!Reuse, Asking
<1>4. CASE Drop(t) \/ Unlock(t)
  BY <1>4 DEF Drop, Unlock, Memo!vars, Asking
<1>5. CASE Compute(t) /\ Allocatable(key[t])
  BY <1>5 DEF Compute, Memo!vars, Asking
<1>6. CASE Compute(t) /\ ~Allocatable(key[t])
  BY <1>6 DEF Compute, Panic, Memo!Next, Memo!Fail, Asking
<1>7. CASE Entry(t) /\ cache[key[t]] = NoSetup
  BY <1>7 DEF Entry, Memo!vars, Asking
<1>8. CASE Entry(t) /\ cache[key[t]] # NoSetup
  BY <1>8 DEF Entry, Memo!Next, Memo!Answer, Memo!Reuse, Asking
<1>9. CASE Insert(t)
  BY <1>9, InsertIsAnswer DEF Memo!Next
<1> QED
  BY <1>1, <1>2, <1>3, <1>4, <1>5, <1>6, <1>7, <1>8, <1>9 DEF Step

\* The cache implements one memo per key: initial states map to initial states,
\* and every step maps to a step of the memo or to a stutter.
THEOREM Refinement == CacheSpec => ImplementsMemo
<1>1. CacheInit => Memo!Init
  BY DEF CacheInit, Memo!Init, Asking
<1>2. ASSUME IInv, [CacheNext]_cacheVars
      PROVE  [Memo!Next]_(Memo!vars)
  <2>1. CASE CacheNext
    <3> PICK t \in Threads : (\E k \in Keys : Call(t, k)) \/ Step(t)
      BY <2>1 DEF CacheNext
    <3>1. CASE \E k \in Keys : Call(t, k)
      <4> PICK k \in Keys : Call(t, k)
        BY <3>1
      <4>1. Memo!Ask(t, k)
        BY <1>2 DEF Call, Goto, IInv, TypeOK, Memo!Ask, Asking
      <4> QED
        BY <4>1 DEF Memo!Next
    <3>2. CASE Step(t)
      BY <3>2, <1>2, StepSimulation
    <3> QED
      BY <3>1, <3>2
  <2>2. CASE UNCHANGED cacheVars
    BY <2>2 DEF cacheVars, Memo!vars
  <2> QED
    BY <1>2, <2>1, <2>2
<1> QED
  BY <1>1, <1>2, Inductive, PTL DEF CacheSpec, ImplementsMemo, Memo!Spec


----------------------------------------------------------------------------
(* Pieces of a sequence. *)

\* The elements behind the first a, up to the b-th.
Piece(s, a, b) == SubSeq(s, a + 1, b)

LEMMA PieceElements ==
  ASSUME NEW s \in Seq(Nat), NEW a \in Nat, NEW b \in Nat, a <= b, b <= Len(s)
  PROVE  /\ Piece(s, a, b) \in Seq(Nat)
         /\ Len(Piece(s, a, b)) = b - a
         /\ \A k \in 1 .. (b - a) : Piece(s, a, b)[k] = s[a + k]
<1>1. \A k \in (a + 1) .. b : s[k] \in Nat
  BY ElementOfSeq
<1>2. a + 1 \in Int /\ b \in Int
  OBVIOUS
<1>3. /\ SubSeq(s, a + 1, b) \in Seq(Nat)
      /\ Len(SubSeq(s, a + 1, b)) = IF a + 1 <= b THEN b - (a + 1) + 1 ELSE 0
      /\ \A k \in 1 .. (b - (a + 1) + 1) : SubSeq(s, a + 1, b)[k] = s[a + 1 + k - 1]
  BY <1>1, <1>2, SubSeqProperties
<1>4. b - (a + 1) + 1 = b - a /\ \A k \in 1 .. (b - a) : a + 1 + k - 1 = a + k
  OBVIOUS
<1> QED
  BY <1>3, <1>4, SMTT(30) DEF Piece

LEMMA PiecesJoin ==
  ASSUME NEW s \in Seq(Nat), NEW a \in Nat, NEW b \in Nat, NEW c \in Nat,
         a <= b, b <= c, c <= Len(s)
  PROVE  Piece(s, a, b) \o Piece(s, b, c) = Piece(s, a, c)
<1>1. a + 1 \in 1 .. (Len(s) + 1) /\ b \in (a + 1 - 1) .. Len(s) /\ c \in b .. Len(s)
  OBVIOUS
<1> QED
  BY <1>1, ConcatAdjacentSubSeq DEF Piece

LEMMA PieceOfPiece ==
  ASSUME NEW s \in Seq(Nat), NEW a \in Nat, NEW b \in Nat, a <= b, b <= Len(s),
         NEW c \in Nat, NEW d \in Nat, c <= d, d <= b - a
  PROVE  Piece(Piece(s, a, b), c, d) = Piece(s, a + c, a + d)
<1> DEFINE p == Piece(s, a, b)
           l == Piece(p, c, d)
           r == Piece(s, a + c, a + d)
<1>1. p \in Seq(Nat) /\ Len(p) = b - a /\ \A k \in 1 .. (b - a) : p[k] = s[a + k]
  BY PieceElements
<1> HIDE DEF p
<1>2. l \in Seq(Nat) /\ Len(l) = d - c /\ \A k \in 1 .. (d - c) : l[k] = p[c + k]
  BY <1>1, PieceElements
<1> DEFINE e == a + c
           f == a + d
<1>3. e \in Nat /\ f \in Nat /\ e <= f /\ f <= Len(s) /\ f - e = d - c
  OBVIOUS
<1>4. r \in Seq(Nat) /\ Len(r) = d - c /\ \A k \in 1 .. (d - c) : r[k] = s[(a + c) + k]
  <2>1. r = Piece(s, e, f)
    OBVIOUS
  <2> HIDE DEF e, f, r
  <2>2. Piece(s, e, f) \in Seq(Nat) /\ Len(Piece(s, e, f)) = f - e
        /\ \A k \in 1 .. (f - e) : Piece(s, e, f)[k] = s[e + k]
    BY <1>3, PieceElements
  <2> QED
    BY <2>1, <2>2, <1>3 DEF e
<1> HIDE DEF l, r
<1>5. \A k \in 1 .. (d - c) : c + k \in 1 .. (b - a) /\ a + (c + k) = (a + c) + k
  OBVIOUS
<1>6. \A k \in 1 .. Len(l) : l[k] = r[k]
  BY <1>1, <1>2, <1>4, <1>5
<1>7. l = r
  BY <1>2, <1>4, <1>6, SeqEqual
<1> QED
  BY <1>7 DEF l, r, p

\* A full block is not padded.
LEMMA FullIsPadded ==
  ASSUME NEW bytes \in Seq(Nat), Len(bytes) = BlockBytes
  PROVE  Padded(bytes) = bytes
<1>1. 1 .. (BlockBytes - Len(bytes)) = {}
  BY StreamAssumption
<1>2. [k \in 1 .. (BlockBytes - Len(bytes)) |-> 0] = <<>>
  BY <1>1
<1> QED
  BY <1>2, ConcatEmptySeq DEF Padded

----------------------------------------------------------------------------
(* Counting blocks. *)

\* n full blocks are behind the library, and the rest is not more than one.
Behind(n) ==
  /\ n \in Nat /\ n * BlockBytes \in Nat
  /\ n * BlockBytes <= length /\ length <= n * BlockBytes + BlockBytes
  /\ n > 0 => n * BlockBytes < length

LEMMA NextMultiple ==
  ASSUME NEW n \in Nat
  PROVE  n * BlockBytes \in Nat /\ (n + 1) * BlockBytes = n * BlockBytes + BlockBytes
  BY StreamAssumption

LEMMA Multiples ==
  ASSUME NEW m \in Nat, NEW n \in Nat, m <= n
  PROVE  m * BlockBytes <= n * BlockBytes
  BY StreamAssumption

LEMMA Quotient ==
  ASSUME NEW x \in Nat, NEW q \in Nat, NEW r \in 0 .. (BlockBytes - 1),
         x = q * BlockBytes + r
  PROVE  x \div BlockBytes = q
<1> DEFINE p == x \div BlockBytes
           N == BlockBytes
<1>1. N \in Nat /\ N > 0
  BY StreamAssumption
<1>2. p \in Int /\ x = N * p + (x % N) /\ x % N \in 0 .. (N - 1)
  BY <1>1
<1>3. x = N * q + r /\ r \in 0 .. (N - 1)
  BY <1>1
<1> HIDE DEF p, N
<1>4. N * (q - p) = N * q - N * p /\ N * p \in Int /\ N * q \in Int
  BY <1>1, <1>2
<1>5. N * (q - p) = (x % N) - r
  BY <1>2, <1>3, <1>4
<1>6. ~(q - p >= 1)
  <2> SUFFICES ASSUME q - p >= 1 PROVE FALSE
    OBVIOUS
  <2>1. N * (q - p) >= N
    BY <1>1, <1>2
  <2> QED
    BY <2>1, <1>1, <1>2, <1>3, <1>5
<1>7. ~(q - p <= -1)
  <2> SUFFICES ASSUME q - p <= -1 PROVE FALSE
    OBVIOUS
  <2>1. N * (q - p) <= -N
    BY <1>1, <1>2
  <2> QED
    BY <2>1, <1>1, <1>2, <1>3, <1>5
<1>8. q = p
  BY <1>2, <1>6, <1>7
<1> QED
  BY <1>8 DEF p

\* The circuit counts one block more than are behind the library.
LEMMA CountsBlocks ==
  ASSUME NEW n, Behind(n), length \in Nat
  PROVE  BlockCount = n + 1
<1>1. CASE length = 0
  BY <1>1 DEF Behind, BlockCount
<1>2. CASE length # 0
  <2> DEFINE r == length - n * BlockBytes - 1
  <2>1. n * BlockBytes < length
    <3>1. CASE n = 0
      BY <3>1, <1>2, StreamAssumption
    <3>2. CASE n > 0
      BY <3>2 DEF Behind
    <3> QED
      BY <3>1, <3>2 DEF Behind
  <2>2. r \in 0 .. (BlockBytes - 1)
    BY <2>1, StreamAssumption DEF Behind
  <2>3. length + BlockBytes - 1 = (n + 1) * BlockBytes + r
    BY <2>1, NextMultiple, StreamAssumption DEF Behind
  <2>4. (length + BlockBytes - 1) \div BlockBytes = n + 1
    BY <1>2, <2>2, <2>3, Quotient, StreamAssumption DEF Behind
  <2> QED
    BY <1>2, <2>4 DEF BlockCount
<1> QED
  BY <1>1, <1>2

----------------------------------------------------------------------------
(* The library. *)

Compressions == [block : Seq(Nat), counter : Nat, isLast : BOOLEAN]

\* The k-th full block of the message, and its last after n full ones.
FullBlock(k) ==
  [block |-> Piece(stream, (k - 1) * BlockBytes, k * BlockBytes),
   counter |-> k * BlockBytes, isLast |-> FALSE]

LastBlock(n) ==
  [block |-> Padded(Piece(stream, n * BlockBytes, length)), counter |-> length, isLast |-> TRUE]

StreamOK == stream \in Seq(Nat) /\ length \in Nat /\ length <= Len(stream)
            /\ Len(stream) >= MaxLength

\* The library has compressed full blocks and holds what is behind them.
LibraryInv ==
  /\ \E S : chain \in Seq(S)
  /\ Behind(Len(chain))
  /\ buffer = Piece(stream, Len(chain) * BlockBytes, length)
  /\ \A k \in 1 .. Len(chain) : chain[k] = FullBlock(k)

\* The circuit follows the library's digest.
CircuitInv ==
  /\ digest = <<>> => index = 0 /\ h = <<>>
  /\ digest # <<>> =>
       /\ digest = Append(chain, LastBlock(Len(chain)))
       /\ index \in 0 .. Len(digest)
       /\ h = SubSeq(digest, 1, index)

StreamIInv == StreamOK /\ LibraryInv /\ CircuitInv

LEMMA Appended ==
  ASSUME NEW S, NEW s \in Seq(S), NEW e
  PROVE  /\ Append(s, e) \in Seq(S \cup {e})
         /\ Append(s, e) # <<>>
         /\ Len(Append(s, e)) = Len(s) + 1 /\ Len(s) \in Nat
         /\ \A k \in 1 .. Len(s) : Append(s, e)[k] = s[k]
         /\ Append(s, e)[Len(s) + 1] = e
<1>1. s \in Seq(S \cup {e}) /\ e \in S \cup {e}
  OBVIOUS
<1> QED
  BY <1>1, AppendProperties, LenProperties

\* A piece that fits the buffer is kept there; one that does not pushes out a
\* full block.
LEMMA UpdateKeeps ==
  ASSUME StreamIInv, NEW n \in Pieces, Update(n)
  PROVE  StreamIInv'
<1> DEFINE c == Len(chain)
           start == c * BlockBytes
           bytes == buffer \o Piece(stream, length, length + n)
<1>1. PICK S : chain \in Seq(S)
  BY DEF StreamIInv, LibraryInv
<1>2. /\ c \in Nat /\ start \in Nat /\ start <= length /\ length <= start + BlockBytes
      /\ c > 0 => start < length
      /\ (c + 1) * BlockBytes = start + BlockBytes
  BY NextMultiple DEF StreamIInv, LibraryInv, Behind
<1>3. /\ BlockBytes \in Nat /\ BlockBytes > 0 /\ n \in Nat /\ n <= BlockBytes
      /\ stream \in Seq(Nat) /\ length \in Nat /\ length + n <= Len(stream)
  BY StreamAssumption DEF StreamIInv, StreamOK, Update
<1>4. /\ stream' = stream /\ length' = length + n
      /\ digest = <<>> /\ digest' = <<>> /\ index' = index /\ h' = h
  BY DEF Update
<1> HIDE DEF start
<1>5. /\ bytes = Piece(stream, start, length + n)
      /\ bytes \in Seq(Nat) /\ Len(bytes) = length + n - start
      /\ Len(buffer) = length - start
  <2>1. buffer = Piece(stream, start, length)
    BY DEF StreamIInv, LibraryInv, start
  <2>2. length + n \in Nat /\ start <= length + n /\ length <= Len(stream)
    BY <1>2, <1>3
  <2> DEFINE end == length + n
  <2>3. end \in Nat /\ start <= end /\ length <= end /\ end <= Len(stream)
    BY <1>3, <2>2
  <2> HIDE DEF end
  <2>4. Piece(stream, start, length) \o Piece(stream, length, end) = Piece(stream, start, end)
    BY <1>2, <1>3, <2>3, PiecesJoin, SMTT(30)
  <2>5. Piece(stream, start, end) \in Seq(Nat) /\ Len(Piece(stream, start, end)) = end - start
    BY <1>2, <1>3, <2>3, PieceElements
  <2>6. Len(Piece(stream, start, length)) = length - start
    BY <1>2, <1>3, <2>2, PieceElements
  <2>7. bytes = Piece(stream, start, end)
    BY <2>1, <2>4 DEF end
  <2> HIDE DEF bytes
  <2>8. bytes \in Seq(Nat) /\ Len(bytes) = end - start /\ Len(buffer) = length - start
    BY <2>1, <2>5, <2>6, <2>7
  <2>9. end = length + n
    BY DEF end
  <2> QED
    BY <1>2, <1>3, <2>3, <2>7, <2>8, <2>9
<1> HIDE DEF bytes
<1>6. StreamOK' /\ CircuitInv'
  BY <1>3, <1>4 DEF StreamIInv, StreamOK, CircuitInv
<1>7. \A k : FullBlock(k)' = FullBlock(k)
  BY <1>4 DEF FullBlock
<1>8. CASE Len(bytes) <= BlockBytes
  <2>1. buffer' = bytes /\ chain' = chain
    BY <1>8 DEF Update, Piece, bytes
  <2>2. Behind(c)'
    BY <1>2, <1>3, <1>4, <1>5, <1>8, <2>1 DEF Behind, start
  <2>3. LibraryInv'
    BY <1>1, <1>4, <1>5, <1>7, <2>1, <2>2 DEF StreamIInv, LibraryInv, start
  <2> QED
    BY <1>6, <2>3 DEF StreamIInv
<1>9. CASE ~(Len(bytes) <= BlockBytes)
  <2> DEFINE new == [block |-> SubSeq(bytes, 1, BlockBytes),
                     counter |-> length - Len(buffer) + BlockBytes, isLast |-> FALSE]
  <2>1. buffer' = SubSeq(bytes, BlockBytes + 1, Len(bytes)) /\ chain' = Append(chain, new)
    BY <1>9 DEF Update, Compress, Piece, bytes
  <2>2. new = FullBlock(c + 1)
    <3>1. Piece(bytes, 0, BlockBytes) = Piece(stream, start, start + BlockBytes)
      <4>1. /\ length + n \in Nat /\ start <= length + n /\ length + n <= Len(stream)
            /\ 0 <= BlockBytes /\ BlockBytes <= length + n - start /\ start + 0 = start
        BY <1>2, <1>3, <1>5, <1>9
      <4> QED
        BY <1>2, <1>3, <1>5, <4>1, PieceOfPiece
    <3>2. Piece(bytes, 0, BlockBytes) = SubSeq(bytes, 1, BlockBytes)
      BY DEF Piece
    <3>3. length - Len(buffer) + BlockBytes = start + BlockBytes
      BY <1>2, <1>3, <1>5
    <3>4. (c + 1) - 1 = c
      BY <1>2
    <3> QED
      BY <1>2, <3>1, <3>2, <3>3, <3>4 DEF FullBlock, start
  <2>3. buffer' = Piece(stream, start + BlockBytes, length + n)
    <3>1. Piece(bytes, BlockBytes, Len(bytes))
            = Piece(stream, start + BlockBytes, start + Len(bytes))
      <4>1. Len(bytes) \in Nat /\ BlockBytes <= Len(bytes)
        BY <1>3, <1>5, <1>9, LenProperties
      <4>2. /\ length + n \in Nat /\ start <= length + n /\ length + n <= Len(stream)
            /\ Len(bytes) <= length + n - start
        BY <1>2, <1>3, <1>5
      <4> QED
        BY <1>2, <1>3, <1>5, <4>1, <4>2, PieceOfPiece
    <3>2. start + Len(bytes) = length + n
      BY <1>2, <1>3, <1>5
    <3> QED
      BY <2>1, <3>1, <3>2 DEF Piece
  <2> HIDE DEF new
  <2>4. /\ chain' \in Seq(S \cup {new}) /\ Len(chain') = c + 1
        /\ \A k \in 1 .. c : chain'[k] = chain[k]
        /\ chain'[c + 1] = new
    BY <1>1, <2>1, Appended
  <2>5. Behind(Len(chain))'
    <3> DEFINE d == c + 1
               rest == length + n
    <3>1. /\ d \in Nat /\ d * BlockBytes = start + BlockBytes /\ start + BlockBytes \in Nat
          /\ start + BlockBytes < rest /\ rest <= start + BlockBytes + BlockBytes
      <4>1. Len(bytes) > BlockBytes
        BY <1>3, <1>5, <1>9, LenProperties
      <4> QED
        BY <1>2, <1>3, <1>5, <4>1, SMTT(30)
    <3>2. Len(chain') = d /\ length' = rest
      BY <1>4, <2>4
    <3> HIDE DEF d, rest
    <3>3. rest \in Nat
      BY <1>3 DEF rest
    <3> QED
      BY <1>3, <3>1, <3>2, <3>3 DEF Behind
  <2>6. \A k \in 1 .. (c + 1) : chain'[k] = FullBlock(k)
    <3>1. \A k \in 1 .. (c + 1) : k \in 1 .. c \/ k = c + 1
      BY <1>2
    <3> QED
      BY <2>2, <2>4, <3>1 DEF StreamIInv, LibraryInv
  <2>7. LibraryInv'
    BY <1>2, <1>4, <1>7, <2>3, <2>4, <2>5, <2>6 DEF LibraryInv
  <2> QED
    BY <1>6, <2>7 DEF StreamIInv
<1> QED
  BY <1>8, <1>9

LEMMA FinalizeKeeps ==
  ASSUME StreamIInv, Finalize
  PROVE  StreamIInv'
<1>1. PICK S : chain \in Seq(S)
  BY DEF StreamIInv, LibraryInv
<1>2. digest' = Append(chain, LastBlock(Len(chain))) /\ digest = <<>> /\ index' = index /\ h' = h
  BY DEF Finalize, Compress, LastBlock, StreamIInv, LibraryInv
<1>3. UNCHANGED <<stream, length, chain, buffer>>
  BY DEF Finalize
<1>4. StreamOK' /\ LibraryInv'
  BY <1>3 DEF StreamIInv, StreamOK, LibraryInv, Behind, FullBlock
<1>5. LastBlock(Len(chain))' = LastBlock(Len(chain))
  BY <1>3 DEF LastBlock
<1>6. digest' # <<>> /\ Len(digest') \in Nat
  BY <1>1, <1>2, Appended
<1>7. index' = 0 /\ h' = <<>> /\ SubSeq(digest', 1, 0) = <<>>
  BY <1>2, SubSeqEmpty DEF StreamIInv, CircuitInv
<1>8. CircuitInv'
  BY <1>2, <1>3, <1>5, <1>6, <1>7 DEF CircuitInv
<1> QED
  BY <1>4, <1>8 DEF StreamIInv

\* The circuit's next block is the library's.
LEMMA CircuitKeeps ==
  ASSUME StreamIInv, CircuitBlock
  PROVE  StreamIInv'
<1> DEFINE c == Len(chain)
           start == index * BlockBytes
           end == IF start + BlockBytes < length THEN start + BlockBytes ELSE length
           new == [block |-> Padded(SubSeq(message, start + 1, end)), counter |-> end,
                   isLast |-> index + 1 = BlockCount]
<1>1. PICK S : chain \in Seq(S)
  BY DEF StreamIInv, LibraryInv
<1>2. /\ UNCHANGED <<stream, length, chain, buffer, digest>>
      /\ index' = index + 1 /\ index < BlockCount /\ digest # <<>>
      /\ h' = Append(h, new)
  BY DEF CircuitBlock, Compress
<1>3. StreamOK' /\ LibraryInv'
  BY <1>2 DEF StreamIInv, StreamOK, LibraryInv, Behind, FullBlock
<1>4. /\ BlockCount = c + 1 /\ c \in Nat
      /\ digest = Append(chain, LastBlock(c))
      /\ h = SubSeq(digest, 1, index) /\ index \in Nat
  BY <1>2, CountsBlocks DEF StreamIInv, StreamOK, LibraryInv, CircuitInv, Behind
<1>5. /\ digest \in Seq(S \cup {LastBlock(c)}) /\ Len(digest) = c + 1
      /\ \A k \in 1 .. c : digest[k] = chain[k]
      /\ digest[c + 1] = LastBlock(c)
  BY <1>1, <1>4, Appended
<1>6. /\ stream \in Seq(Nat) /\ length \in Nat /\ length <= Len(stream)
      /\ BlockBytes \in Nat /\ BlockBytes > 0
      /\ start \in Nat /\ (index + 1) * BlockBytes = start + BlockBytes
      /\ Behind(c)
  BY <1>4, NextMultiple, StreamAssumption DEF StreamIInv, StreamOK, LibraryInv
<1>7. index <= c
  BY <1>2, <1>4
<1>8. message = Piece(stream, 0, length)
  BY DEF message, Piece
<1>9. ASSUME start <= end, end <= length, end \in Nat
      PROVE  SubSeq(message, start + 1, end) = Piece(stream, start, end)
  <2> HIDE DEF start, end
  <2>1. 0 <= length /\ end <= length - 0 /\ 0 + start = start /\ 0 + end = end
    BY <1>6, <1>9
  <2>2. Piece(Piece(stream, 0, length), start, end) = Piece(stream, 0 + start, 0 + end)
    BY <1>6, <1>9, <2>1, PieceOfPiece
  <2> QED
    BY <1>8, <2>1, <2>2 DEF Piece
<1>10. new = digest[index + 1]
  <2>1. CASE index = c
    <3>1. end = length /\ start = c * BlockBytes /\ start <= length
      BY <1>6, <2>1 DEF Behind
    <3>2. index + 1 = BlockCount
      BY <1>4, <2>1
    <3>3. SubSeq(message, start + 1, end) = Piece(stream, start, length)
      <4> HIDE DEF start, end
      <4>1. start <= end /\ end <= length /\ end \in Nat
        BY <1>6, <3>1
      <4>2. SubSeq(message, start + 1, end) = Piece(stream, start, end)
        BY <1>9, <4>1
      <4> QED
        BY <3>1, <4>2
    <3>4. new = LastBlock(c)
      BY <3>1, <3>2, <3>3 DEF LastBlock
    <3> HIDE DEF new
    <3> QED
      BY <1>5, <2>1, <3>4
  <2>2. CASE index # c
    <3>1. index + 1 \in 1 .. c
      BY <1>4, <1>7, <2>2
    <3>2. (index + 1) * BlockBytes <= c * BlockBytes /\ c * BlockBytes < length
      <4>1. index + 1 \in Nat /\ index + 1 <= c /\ c > 0
        BY <1>4, <3>1
      <4> HIDE DEF c
      <4>2. (index + 1) * BlockBytes <= c * BlockBytes
        BY <1>4, <4>1, Multiples
      <4> QED
        BY <1>6, <4>1, <4>2 DEF Behind
    <3>3. end = start + BlockBytes /\ end <= length /\ start <= end
      BY <1>6, <3>2 DEF Behind
    <3>4. index + 1 # BlockCount
      BY <1>4, <2>2
    <3>5. SubSeq(message, start + 1, end) = Piece(stream, start, start + BlockBytes)
      <4> HIDE DEF start, end
      <4>1. end \in Nat
        BY <1>6, <3>3
      <4>2. SubSeq(message, start + 1, end) = Piece(stream, start, end)
        BY <1>9, <3>3, <4>1
      <4> QED
        BY <3>3, <4>2
    <3>6. Padded(Piece(stream, start, start + BlockBytes))
            = Piece(stream, start, start + BlockBytes)
      <4> HIDE DEF start, end
      <4>1. /\ start + BlockBytes \in Nat /\ start <= start + BlockBytes
            /\ start + BlockBytes <= Len(stream) /\ (start + BlockBytes) - start = BlockBytes
        BY <1>6, <3>3
      <4>2. /\ Piece(stream, start, start + BlockBytes) \in Seq(Nat)
            /\ Len(Piece(stream, start, start + BlockBytes)) = BlockBytes
        BY <1>6, <4>1, PieceElements
      <4> QED
        BY <4>2, FullIsPadded
    <3>7. chain[index + 1] = FullBlock(index + 1)
      BY <3>1 DEF StreamIInv, LibraryInv
    <3>8. (index + 1) - 1 = index
      BY <1>4
    <3>9. new = FullBlock(index + 1)
      BY <1>6, <3>3, <3>4, <3>5, <3>6, <3>8 DEF FullBlock
    <3> HIDE DEF new
    <3> QED
      BY <1>5, <3>1, <3>7, <3>9
  <2> QED
    BY <2>1, <2>2
<1> HIDE DEF new
<1>11. h' = SubSeq(digest, 1, index + 1)
  <2>1. index + 1 \in 1 .. Len(digest) /\ 1 \in 1 .. Len(digest) /\ index + 1 - 1 = index
    BY <1>4, <1>5, <1>7
  <2> DEFINE T == S \cup {LastBlock(c)}
  <2>2. \A k \in 1 .. index : digest[k] \in T
    BY <1>4, <1>5, <1>7, ElementOfSeq
  <2>3. digest[index + 1] \in T
    BY <1>5, <2>1, ElementOfSeq
  <2> HIDE DEF T
  <2>4. h \in Seq(T)
    <3>1. index \in Int /\ 1 \in Int
      BY <1>4
    <3>2. SubSeq(digest, 1, index) \in Seq(T)
      BY <2>2, <3>1, SubSeqProperties
    <3> QED
      BY <1>4, <3>2
  <2>5. SubSeq(digest, 1, index + 1) = h \o <<digest[index + 1]>>
    <3>1. digest \in Seq(T)
      BY <1>5 DEF T
    <3>2. 1 \in 1 .. Len(digest) /\ index + 1 \in 1 .. Len(digest)
      BY <2>1
    <3>3. SubSeq(digest, 1, index + 1) = SubSeq(digest, 1, (index + 1) - 1) \o <<digest[index + 1]>>
      BY <3>1, <3>2, SubSeqRecursiveSecond
    <3> QED
      BY <1>4, <2>1, <3>3
  <2>6. Append(h, new) = h \o <<new>>
    BY <1>10, <2>3, <2>4, AppendIsConcat
  <2> QED
    BY <1>2, <1>10, <2>5, <2>6
<1>12. CircuitInv'
  <2>1. LastBlock(Len(chain))' = LastBlock(Len(chain))
    BY <1>2 DEF LastBlock
  <2>2. index' \in 0 .. Len(digest)
    BY <1>2, <1>4, <1>5, <1>7
  <2> QED
    BY <1>2, <1>4, <1>11, <2>1, <2>2 DEF CircuitInv
<1> QED
  BY <1>3, <1>12 DEF StreamIInv

\* The digest that the circuit constrains is the one the prover computed, for
\* every message and however it was cut into pieces (pallas.rs:965).
THEOREM DigestIsProvers == Spec => []CircuitDigestIsProvers
<1>1. Init => StreamIInv
  <2> SUFFICES ASSUME Init PROVE StreamIInv
    OBVIOUS
  <2>1. StreamOK
    BY StreamAssumption DEF Init, StreamOK
  <2>2. chain = <<>> /\ chain \in Seq({}) /\ Len(chain) = 0
    BY DEF Init, InitialChain
  <2>3. Behind(Len(chain))
    BY <2>2, StreamAssumption DEF Init, Behind
  <2>4. buffer = Piece(stream, Len(chain) * BlockBytes, length)
    <3>1. Len(chain) * BlockBytes = 0 /\ length = 0 /\ SubSeq(stream, 1, 0) = <<>>
      BY <2>2, StreamAssumption, SubSeqEmpty DEF Init
    <3> QED
      BY <3>1 DEF Init, Piece
  <2>5. CircuitInv
    BY DEF Init, CircuitInv, InitialChain
  <2> QED
    BY <2>1, <2>2, <2>3, <2>4, <2>5 DEF StreamIInv, LibraryInv
<1>2. StreamIInv /\ [Next]_vars => StreamIInv'
  <2> SUFFICES ASSUME StreamIInv, [Next]_vars PROVE StreamIInv'
    OBVIOUS
  <2>1. CASE UNCHANGED vars
    BY <2>1 DEF vars, StreamIInv, StreamOK, LibraryInv, CircuitInv, Behind, FullBlock, LastBlock
  <2> QED
    BY <2>1, UpdateKeeps, FinalizeKeeps, CircuitKeeps DEF Next
<1>3. StreamIInv => CircuitDigestIsProvers
  <2> SUFFICES ASSUME StreamIInv, digest # <<>>, index = BlockCount PROVE h = digest
    BY DEF CircuitDigestIsProvers
  <2>1. PICK S : chain \in Seq(S)
    BY DEF StreamIInv, LibraryInv
  <2>2. BlockCount = Len(chain) + 1
    BY CountsBlocks DEF StreamIInv, StreamOK, LibraryInv
  <2>3. /\ digest = Append(chain, LastBlock(Len(chain)))
        /\ h = SubSeq(digest, 1, index)
    BY DEF StreamIInv, CircuitInv
  <2>4. /\ digest \in Seq(S \cup {LastBlock(Len(chain))})
        /\ Len(digest) = Len(chain) + 1
    BY <2>1, <2>3, Appended
  <2> QED
    BY <2>2, <2>3, <2>4, SubSeqFull
<1> QED
  BY <1>1, <1>2, <1>3, PTL DEF Spec

=============================================================================
