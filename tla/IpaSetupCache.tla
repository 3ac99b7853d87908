---------------------------- MODULE IpaSetupCache ----------------------------
(***************************************************************************)
(* PallasIpaSetup::deterministic (golden-proofs/src/pallas/ipa.rs): the    *)
(* one piece of shared mutable state of the program, a process-wide cache  *)
(* of generator vectors behind a mutex.                                    *)
(*                                                                         *)
(* A thread looks its key up under the lock, releases the lock, computes   *)
(* the setup without it, takes the lock again and keeps whichever setup    *)
(* was inserted first.  Two threads may compute the same key at once; a    *)
(* thread may panic while computing; a panic while holding the lock would  *)
(* poison the mutex and make every later call panic too.                   *)
(*                                                                         *)
(* A setup is [derived, arc]: the key its generators are a function of,    *)
(* and which allocation it shares.  Cloning a setup keeps both.            *)
(***************************************************************************)
EXTENDS Naturals

CONSTANTS Threads,    \* the threads that call deterministic
          Domains,    \* the domain strings asked for
          LogLens,    \* the log_len arguments, eight-bit numbers
          MaxLogLen,  \* the largest log_len that vectors of points can have
          MaxCalls,   \* bound: calls made in all
          NoThread, NoKey, NoSetup

Keys == [domain : Domains, logLen : LogLens]

\* The length fits in usize (checked_shl), and so does the size of a vector of that
\* many points, the capacity of which overflows earlier.
Allocatable(k) == k.logLen <= MaxLogLen

Setups == [derived : Keys, arc : Nat]

ASSUME CacheAssumption ==
  /\ LogLens \subseteq 0 .. 255
  /\ MaxLogLen \in Nat
  /\ MaxCalls \in Nat
  /\ NoThread \notin Threads
  /\ NoKey \notin Keys
  /\ NoSetup \notin Setups

VARIABLES cache,      \* per key, the cached setup or NoSetup
          lock,       \* the thread holding the mutex, or NoThread
          poisoned,   \* a thread panicked while holding the mutex
          pc,         \* per thread, where in deterministic it is
          key,        \* per thread, the argument of its last call
          setup,      \* per thread, the setup it computed itself
          result,     \* per thread, what its last call found or returned
          calls,      \* how many calls were made
          allocated   \* how many setups were allocated

cacheVars == <<cache, lock, poisoned, pc, key, setup, result, calls, allocated>>

\* The critical section of the lookup is get and drop, that of the store is
\* entry and insert; unlock ends either of them and returns.
Critical == {"get", "drop", "entry", "insert", "unlock"}
Labels == {"idle", "lookup", "compute", "store", "panicked"} \cup Critical

Goto(t, label) == pc' = [pc EXCEPT ![t] = label]

----------------------------------------------------------------------------

CacheInit ==
  /\ cache = [k \in Keys |-> NoSetup]
  /\ lock = NoThread
  /\ poisoned = FALSE
  /\ pc = [t \in Threads |-> "idle"]
  /\ key = [t \in Threads |-> NoKey]
  /\ setup = [t \in Threads |-> NoSetup]
  /\ result = [t \in Threads |-> NoSetup]
  /\ calls = 0
  /\ allocated = 0

Call(t, k) ==
  /\ pc[t] = "idle"
  /\ calls < MaxCalls
  /\ calls' = calls + 1
  /\ key' = [key EXCEPT ![t] = k]
  /\ setup' = [setup EXCEPT ![t] = NoSetup]
  /\ result' = [result EXCEPT ![t] = NoSetup]
  /\ Goto(t, "lookup")
  /\ UNCHANGED <<cache, lock, poisoned, allocated>>

\* A panic unwinds the thread; a guard it holds is dropped and poisons the mutex.
Panic(t) ==
  /\ Goto(t, "panicked")
  /\ poisoned' = (poisoned \/ lock = t)
  /\ lock' = IF lock = t THEN NoThread ELSE lock

\* cache.lock().expect(..): waits for the mutex, and panics on a poisoned one.
Acquire(t, from, to) ==
  /\ pc[t] = from
  /\ lock = NoThread
  /\ IF poisoned THEN Panic(t)
     ELSE lock' = t /\ Goto(t, to) /\ UNCHANGED poisoned
  /\ UNCHANGED <<cache, key, setup, result, calls, allocated>>

\* A slip of the next definition: on a miss the lock is kept.
GetKeepingLock(t) ==
  /\ pc[t] = "get"
  /\ IF cache[key[t]] = NoSetup
     THEN Goto(t, "compute") /\ UNCHANGED result
     ELSE result' = [result EXCEPT ![t] = cache[key[t]]] /\ Goto(t, "unlock")
  /\ UNCHANGED <<cache, lock, poisoned, key, setup, calls, allocated>>

Get(t) ==
  /\ pc[t] = "get"
  /\ IF cache[key[t]] = NoSetup
     THEN Goto(t, "drop") /\ UNCHANGED result
     ELSE result' = [result EXCEPT ![t] = cache[key[t]]] /\ Goto(t, "unlock")
  /\ UNCHANGED <<cache, lock, poisoned, key, setup, calls, allocated>>

\* The guard of the lookup goes out of scope before anything is computed.
Drop(t) ==
  /\ pc[t] = "drop"
  /\ lock' = NoThread
  /\ Goto(t, "compute")
  /\ UNCHANGED <<cache, poisoned, key, setup, result, calls, allocated>>

\* Everything between the two critical sections; it reads nothing shared.
Compute(t) ==
  /\ pc[t] = "compute"
  /\ IF ~Allocatable(key[t])
     THEN Panic(t) /\ UNCHANGED <<setup, allocated>>
     ELSE /\ setup' = [setup EXCEPT ![t] = [derived |-> key[t], arc |-> allocated]]
          /\ allocated' = allocated + 1
          /\ Goto(t, "store")
          /\ UNCHANGED <<lock, poisoned>>
  /\ UNCHANGED <<cache, key, result, calls>>

\* Two slips of the next definition: the thread's own setup is returned although
\* another is cached; the cached setup is replaced.
EntryReturningOwn(t) ==
  /\ pc[t] = "entry"
  /\ IF cache[key[t]] = NoSetup
     THEN Goto(t, "insert") /\ UNCHANGED result
     ELSE result' = [result EXCEPT ![t] = setup[t]] /\ Goto(t, "unlock")
  /\ UNCHANGED <<cache, lock, poisoned, key, setup, calls, allocated>>

EntryReplacing(t) ==
  /\ pc[t] = "entry"
  /\ Goto(t, "insert")
  /\ UNCHANGED <<cache, lock, poisoned, key, setup, result, calls, allocated>>

\* cache.entry(key).or_insert_with(..).clone(), up to the decision.
Entry(t) ==
  /\ pc[t] = "entry"
  /\ IF cache[key[t]] = NoSetup
     THEN Goto(t, "insert") /\ UNCHANGED result
     ELSE result' = [result EXCEPT ![t] = cache[key[t]]] /\ Goto(t, "unlock")
  /\ UNCHANGED <<cache, lock, poisoned, key, setup, calls, allocated>>

\* A slip of the next definition: what insertion into a map returns, the value
\* that was there before, is taken for the one inserted.
InsertReturningOld(t) ==
  /\ pc[t] = "insert"
  /\ cache' = [cache EXCEPT ![key[t]] = setup[t]]
  /\ result' = [result EXCEPT ![t] = cache[key[t]]]
  /\ Goto(t, "unlock")
  /\ UNCHANGED <<lock, poisoned, key, setup, calls, allocated>>

Insert(t) ==
  /\ pc[t] = "insert"
  /\ cache' = [cache EXCEPT ![key[t]] = setup[t]]
  /\ result' = [result EXCEPT ![t] = setup[t]]
  /\ Goto(t, "unlock")
  /\ UNCHANGED <<lock, poisoned, key, setup, calls, allocated>>

\* The guard goes out of scope and the call returns.
Unlock(t) ==
  /\ pc[t] = "unlock"
  /\ lock' = NoThread
  /\ Goto(t, "idle")
  /\ UNCHANGED <<cache, poisoned, key, setup, result, calls, allocated>>

\* One step of a call under way.
Step(t) ==
  \/ Acquire(t, "lookup", "get")
  \/ Get(t)
  \/ Drop(t)
  \/ Compute(t)
  \/ Acquire(t, "store", "entry")
  \/ Entry(t)
  \/ Insert(t)
  \/ Unlock(t)

CacheNext ==
  \E t \in Threads :
    \/ \E k \in Keys : Call(t, k)
    \/ Step(t)

\* The scheduler runs every thread, and a mutex that stays free is handed over.
\* With a bounded number of calls a waiting thread is not overtaken for ever.
Fairness == \A t \in Threads : WF_cacheVars(Step(t))

CacheSpec == CacheInit /\ [][CacheNext]_cacheVars /\ Fairness

----------------------------------------------------------------------------
(* Properties *)

\* The variables hold what the types allow, and a call that has returned
\* returned a setup.
TypeOK ==
  /\ cache \in [Keys -> Setups \cup {NoSetup}]
  /\ lock \in Threads \cup {NoThread}
  /\ poisoned \in BOOLEAN
  /\ pc \in [Threads -> Labels]
  /\ key \in [Threads -> Keys \cup {NoKey}]
  /\ setup \in [Threads -> Setups \cup {NoSetup}]
  /\ result \in [Threads -> Setups \cup {NoSetup}]
  /\ calls \in Nat
  /\ allocated \in Nat
  /\ \A t \in Threads :
       /\ pc[t] # "idle" => key[t] \in Keys
       /\ pc[t] \in {"store", "entry", "insert"} => setup[t] \in Setups
       /\ pc[t] = "unlock" => result[t] \in Setups

\* At most one thread is between taking the mutex and releasing it, and that
\* thread is the one the mutex names.
MutualExclusion ==
  \A t \in Threads : pc[t] \in Critical <=> lock = t

\* Whoever computed it and whenever it was asked for, the setup a call returned
\* is the cached one, for the generators of its own key: all callers of a key
\* hold one allocation, although several may have computed it at the same time
\* (the lookup and the insertion are two critical sections, ipa.rs:58 and 92).
SharedAllocation ==
  \A t \in Threads :
    result[t] # NoSetup =>
      /\ result[t] = cache[key[t]]
      /\ result[t].derived = key[t]

\* Setups of different keys never share an allocation.
DistinctAllocations ==
  \A k, l \in Keys :
    k # l /\ cache[k] # NoSetup /\ cache[l] # NoSetup => cache[k].arc # cache[l].arc

\* A call with a length that vectors cannot have panics alone: the mutex is never
\* poisoned, so no other call ever panics on it (the expect of ipa.rs:60 and 94).
PanicIsLocal ==
  /\ ~poisoned
  /\ \A t \in Threads : pc[t] = "panicked" => ~Allocatable(key[t])

\* What the proof of the invariants rests on: a setup on its way into the cache
\* is its thread's own and of the thread's key, and a thread about to insert
\* still finds its key absent.
InFlight == {t \in Threads : pc[t] \in {"store", "entry", "insert"}}

CachedSetupsAreTheirKeys ==
  \A k \in Keys : cache[k] # NoSetup => cache[k].derived = k /\ cache[k].arc < allocated

OwnSetups ==
  \A t \in InFlight :
    /\ setup[t].derived = key[t]
    /\ setup[t].arc < allocated
    /\ \A k \in Keys : cache[k] # NoSetup => cache[k].arc # setup[t].arc
    /\ \A u \in InFlight \ {t} : setup[u].arc # setup[t].arc

InsertingAbsent == \A t \in Threads : pc[t] = "insert" => cache[key[t]] = NoSetup

\* The inductive invariant: the mutex protects its critical sections, nothing is
\* shared by accident, and the facts above.
IInv ==
  /\ TypeOK
  /\ MutualExclusion
  /\ SharedAllocation
  /\ DistinctAllocations
  /\ PanicIsLocal
  /\ CachedSetupsAreTheirKeys
  /\ OwnSetups
  /\ InsertingAbsent

\* A cached setup is never replaced or evicted, and only computed setups enter.
EntriesAreStable ==
  [][\A k \in Keys : cache[k] # NoSetup => cache'[k] = cache[k]]_cache

\* Every call comes to an end.
EveryCallEnds ==
  \A t \in Threads : pc[t] # "idle" ~> pc[t] \in {"idle", "panicked"}

\* The calls linearize at the step that finds or inserts the setup: until then
\* the caller is still asking.
Asking == {"lookup", "get", "drop", "compute", "store", "entry", "insert"}

Memo == INSTANCE SetupMemo WITH
  Usable <- {k \in Keys : Allocatable(k)},
  asked  <- [t \in Threads |-> IF pc[t] \in Asking THEN key[t] ELSE NoKey],
  memo   <- cache,
  answer <- result

\* The cache implements one memo per key, shared by all threads.
ImplementsMemo == Memo!Spec

=============================================================================
