-------------------------- MODULE ProtocolTheorems --------------------------
(***************************************************************************)
(* Lemmas about the operators of GoldenCore, DkgSimulation and IpaClaim    *)
(* and the modules they extend, for every modulus: remainders, induction,  *)
(* powers of two and folds, the arithmetic of the field and the group,     *)
(* sums, polynomials, masks, what the verification of a transcript         *)
(* establishes, interpolation, vectors, and challenge transcripts.         *)
(*                                                                         *)
(* The folds of the community modules are recursive functions on subsets.  *)
(* What they compute is proved by an induction that has a set where the    *)
(* library's induction theorems have an operator: the pigeonhole theorem   *)
(* for finite sets gives induction over the naturals, Induct, and that one *)
(* gives induction over the subsets of a finite set, SetInduct.            *)
(***************************************************************************)
EXTENDS DkgSimulation, IpaClaim, FiniteSetTheorems, FunctionTheorems, TLAPS

----------------------------------------------------------------------------
(* Remainders by any modulus N. *)

\* Division with remainder.
LEMMA Remainder ==
  ASSUME NEW N \in Nat, N > 1, NEW a \in Int
  PROVE  /\ a % N \in 0 .. (N - 1)
         /\ a \div N \in Int
         /\ a = N * (a \div N) + (a % N)
  OBVIOUS

LEMMA Distributes ==
  ASSUME NEW a \in Int, NEW b \in Int, NEW c \in Int
  PROVE  a * (b + c) = a * b + a * c /\ (b + c) * a = b * a + c * a
  OBVIOUS

\* The remainder is unique.
LEMMA RemainderUnique ==
  ASSUME NEW N \in Nat, N > 1,
         NEW a \in Int, NEW q \in Int, NEW r \in 0 .. (N - 1), a = N * q + r
  PROVE  a % N = r
<1> DEFINE p == a \div N
<1>1. a % N \in 0 .. (N - 1) /\ p \in Int /\ a = N * p + (a % N)
  BY Remainder
<1> HIDE DEF p
<1>2. N * (q - p) = (a % N) - r
  BY <1>1
<1>3. q - p = 0
  <2>1. CASE q - p >= 1
    <3>1. N * (q - p) >= N
      BY <2>1, <1>1
    <3> QED
      BY <3>1, <1>2, <1>1
  <2>2. CASE q - p <= -1
    <3>1. N * (q - p) <= -N
      BY <2>2, <1>1
    <3> QED
      BY <3>1, <1>2, <1>1
  <2> QED
    BY <2>1, <2>2, <1>1
<1> QED
  BY <1>1, <1>2, <1>3

\* A residue is its own remainder.
LEMMA RemainderOfResidue ==
  ASSUME NEW N \in Nat, N > 1, NEW r \in 0 .. (N - 1)
  PROVE  r % N = r
<1>1. r \in Int /\ r = N * 0 + r
  OBVIOUS
<1> QED
  BY <1>1, RemainderUnique

\* Adding a multiple of N does not change the remainder.
LEMMA RemainderShift ==
  ASSUME NEW N \in Nat, N > 1, NEW a \in Int, NEW k \in Int
  PROVE  (a + N * k) % N = a % N
<1> DEFINE q == a \div N
           r == a % N
           x == N * q
           y == N * k
<1>1. r \in 0 .. (N - 1) /\ q \in Int /\ a = x + r
  BY Remainder
<1>2. N * (q + k) = x + y /\ x \in Int /\ y \in Int /\ q + k \in Int
  BY <1>1, Distributes
<1>3. a + y \in Int /\ a + y = (x + y) + r
  <2> HIDE DEF q, r, x, y
  <2> QED
    BY <1>1, <1>2
<1>4. a + y = N * (q + k) + r
  BY <1>2, <1>3
<1> HIDE DEF q, r
<1>5. (a + y) % N = r
  BY <1>1, <1>2, <1>3, <1>4, RemainderUnique
<1> QED
  BY <1>5 DEF r

\* A summand may be replaced by its remainder,
LEMMA RemainderOfSum ==
  ASSUME NEW N \in Nat, N > 1, NEW a \in Int, NEW b \in Int
  PROVE  /\ ((a % N) + b) % N = (a + b) % N
         /\ (b + (a % N)) % N = (b + a) % N
<1> DEFINE q == a \div N
           r == a % N
           x == N * q
<1>1. r \in 0 .. (N - 1) /\ q \in Int /\ a = x + r /\ x \in Int
  BY Remainder
<1>2. r \in Int /\ r + b \in Int /\ b + r = r + b /\ b + a = a + b /\ a + b = (r + b) + x
  <2> HIDE DEF q, r, x
  <2> QED
    BY <1>1
<1> DEFINE c == r + b
<1>3. c \in Int /\ a + b = c + N * q
  BY <1>2
<1> HIDE DEF q, r, c
<1>4. (c + N * q) % N = c % N
  BY <1>1, <1>3, RemainderShift
<1> QED
  BY <1>2, <1>3, <1>4 DEF r, c

\* and so may a factor.
LEMMA RemainderOfProduct ==
  ASSUME NEW N \in Nat, N > 1, NEW a \in Int, NEW g \in Int
  PROVE  ((a % N) * g) % N = (a * g) % N
<1> DEFINE q == a \div N
           r == a % N
<1>1. r \in 0 .. (N - 1) /\ q \in Int /\ a = N * q + r
  BY Remainder
<1> HIDE DEF q, r
<1>2. r \in Int
  BY <1>1
<1>3. a * g = r * g + N * (q * g) /\ r * g \in Int /\ q * g \in Int
  BY <1>1, <1>2
<1>4. (a * g) % N = (r * g) % N
  BY <1>3, RemainderShift
<1> QED
  BY <1>4 DEF r

----------------------------------------------------------------------------
(* Induction. *)

\* Induction over the naturals.
LEMMA Induct ==
  ASSUME NEW S \in SUBSET Nat, 0 \in S, \A n \in S : n + 1 \in S
  PROVE  Nat \subseteq S
<1> SUFFICES ASSUME NEW n \in Nat, n \notin S PROVE FALSE
  OBVIOUS
<1> DEFINE A == S \cap (0 .. n)
           B == A \ {0}
           f == [k \in A |-> k + 1]
<1>1. IsFiniteSet(A) /\ Cardinality(A) \in Nat
  <2>1. IsFiniteSet(0 .. n)
    BY FS_Interval
  <2>2. A \in SUBSET (0 .. n)
    OBVIOUS
  <2> HIDE DEF A
  <2> QED
    BY <2>1, <2>2, FS_Subset, FS_CardinalityType
<1>2. IsFiniteSet(B) /\ Cardinality(B) = Cardinality(A) - 1
  <2>1. 0 \in A
    OBVIOUS
  <2> HIDE DEF A
  <2> QED
    BY <1>1, <2>1, FS_RemoveElement
<1>3. f \in Injection(A, B)
  <2>1. \A k \in A : k + 1 \in B
    OBVIOUS
  <2>2. f \in [A -> B] /\ \A a, b \in A : f[a] = f[b] => a = b
    BY <2>1
  <2> QED
    BY <2>2 DEF Injection, IsInjective
<1>4. Cardinality(A) <= Cardinality(B)
  <2> HIDE DEF A, B, f
  <2> QED
    BY <1>2, <1>3, FS_Injection
<1> HIDE DEF A, B, f
<1> QED
  BY <1>1, <1>2, <1>4

\* Cardinalities of subsets of a finite set, with one element less.
LEMMA OneLess ==
  ASSUME NEW S, IsFiniteSet(S), NEW s \in SUBSET S, NEW x \in s
  PROVE  /\ s \ {x} \in SUBSET S
         /\ Cardinality(s) \in Nat /\ Cardinality(s) # 0
         /\ Cardinality(s \ {x}) = Cardinality(s) - 1
         /\ Cardinality(s \ {x}) \in Nat
<1>1. IsFiniteSet(s) /\ Cardinality(s) \in Nat
  BY FS_Subset, FS_CardinalityType
<1>2. Cardinality(s \ {x}) = Cardinality(s) - 1 /\ IsFiniteSet(s \ {x})
  BY <1>1, FS_RemoveElement
<1> QED
  BY <1>1, <1>2, FS_CardinalityType

LEMMA EmptyCardinality ==
  ASSUME NEW S, IsFiniteSet(S), NEW s \in SUBSET S
  PROVE  Cardinality(s) \in Nat /\ (Cardinality(s) = 0 <=> s = {})
  BY FS_Subset, FS_CardinalityType, FS_EmptySet

\* Induction over the subsets of a finite set, by taking out an element.
LEMMA SetInduct ==
  ASSUME NEW S, IsFiniteSet(S), NEW G \in SUBSET SUBSET S, {} \in G,
         \A s \in SUBSET S : s # {} /\ (\A x \in s : s \ {x} \in G) => s \in G
  PROVE  \A s \in SUBSET S : s \in G
<1> DEFINE N == {k \in Nat : \A s \in SUBSET S : Cardinality(s) = k => s \in G}
<1>1. 0 \in N
  BY EmptyCardinality
<1>2. ASSUME NEW k \in Nat, k \in N PROVE k + 1 \in N
  <2>1. ASSUME NEW s \in SUBSET S, Cardinality(s) = k + 1 PROVE s \in G
    <3>1. s # {}
      BY <2>1, EmptyCardinality
    <3>2. \A x \in s : s \ {x} \in SUBSET S /\ Cardinality(s \ {x}) = k
      BY <2>1, OneLess
    <3> QED
      BY <1>2, <3>1, <3>2
  <2> QED
    BY <2>1
<1>3. Nat \subseteq N
  <2>1. N \in SUBSET Nat
    OBVIOUS
  <2> HIDE DEF N
  <2> QED
    BY <1>1, <1>2, <2>1, Induct
<1> QED
  BY <1>3, EmptyCardinality

\* A nonempty set of naturals has a least element.
LEMMA LeastElement ==
  ASSUME NEW S \in SUBSET Nat, S # {}
  PROVE  /\ Min(S) \in S
         /\ \E x \in S : \A y \in S : x <= y
<1> SUFFICES ASSUME \A x \in S : \E y \in S : ~(x <= y) PROVE FALSE
  BY DEF Min
<1> DEFINE N == {n \in Nat : \A k \in 0 .. n : k \notin S}
<1>1. 0 \in N
  <2>1. 0 \notin S
    OBVIOUS
  <2> QED
    BY <2>1
<1>2. Nat \subseteq N
  <2>1. ASSUME NEW n \in N PROVE n + 1 \in N
    <3>1. n \in Nat /\ \A k \in S : k > n
      OBVIOUS
    <3>2. n + 1 \notin S
      BY <3>1
    <3>3. \A k \in 0 .. (n + 1) : k \in 0 .. n \/ k = n + 1
      BY <3>1
    <3> QED
      BY <3>2, <3>3
  <2>2. N \in SUBSET Nat
    OBVIOUS
  <2> HIDE DEF N
  <2> QED
    BY <1>1, <2>1, <2>2, Induct
<1>3. \A k \in S : k \in N
  BY <1>2
<1>4. \A k \in N : k \in 0 .. k
  OBVIOUS
<1> QED
  BY <1>3, <1>4

\* A nonempty set of numbers up to n has a greatest element.
LEMMA GreatestElement ==
  ASSUME NEW n \in Nat, NEW S \in SUBSET (1 .. n), S # {}
  PROVE  Max(S) \in S /\ \A k \in S : k <= Max(S)
<1> DEFINE M == {n - k : k \in S}
<1>1. \A k \in S : k \in Nat /\ k <= n /\ n - k \in Nat
  OBVIOUS
<1>2. M \in SUBSET Nat /\ M # {}
  BY <1>1
<1>3. PICK m \in M : \A y \in M : m <= y
  BY <1>2, LeastElement
<1>4. PICK x \in S : m = n - x
  OBVIOUS
<1>5. \A k \in S : n - x <= n - k
  BY <1>3, <1>4
<1>6. \A k \in S : k <= x
  BY <1>1, <1>5
<1> QED
  BY <1>6 DEF Max

----------------------------------------------------------------------------
(* Powers of two.  The library knows them as numbers of subsets. *)

LEMMA PowerAsSubsets ==
  ASSUME NEW k \in Nat
  PROVE  /\ IsFiniteSet(SUBSET (1 .. k)) /\ Cardinality(SUBSET (1 .. k)) = 2 ^ k
         /\ 2 ^ k \in Nat
<1>1. IsFiniteSet(1 .. k) /\ Cardinality(1 .. k) = k
  BY FS_Interval
<1>2. IsFiniteSet(SUBSET (1 .. k)) /\ Cardinality(SUBSET (1 .. k)) = 2 ^ Cardinality(1 .. k)
  BY <1>1, FS_SUBSET
<1>3. Cardinality(SUBSET (1 .. k)) \in Nat
  BY <1>2, FS_CardinalityType
<1> QED
  BY <1>1, <1>2, <1>3

LEMMA PowerZero == 2 ^ 0 = 1
<1>1. SUBSET (1 .. 0) = {{}}
  OBVIOUS
<1>2. Cardinality({{}}) = 1
  BY FS_Singleton
<1> QED
  BY <1>1, <1>2, PowerAsSubsets

\* The subsets of 1 .. k + 1 are those of 1 .. k, without k + 1 and with it.
LEMMA PowerStep ==
  ASSUME NEW k \in Nat
  PROVE  2 ^ (k + 1) = 2 * 2 ^ k
<1> DEFINE A == SUBSET (1 .. k)
           B == {s \cup {k + 1} : s \in A}
           f == [s \in A |-> s \cup {k + 1}]
<1>1. IsFiniteSet(A) /\ Cardinality(A) = 2 ^ k /\ 2 ^ k \in Nat
  BY PowerAsSubsets
<1>2. ExistsBijection(A, B)
  <2>1. \A s \in A : k + 1 \notin s
    OBVIOUS
  <2>2. \A s, r \in A : s \cup {k + 1} = r \cup {k + 1} => s = r
    BY <2>1
  <2>3. f \in [A -> B] /\ (\A b \in B : \E a \in A : f[a] = b)
    OBVIOUS
  <2>4. \A s, r \in A : f[s] = f[r] => s = r
    BY <2>2
  <2> HIDE DEF A, B, f
  <2>5. f \in Bijection(A, B)
    BY <2>3, <2>4 DEF Bijection, Injection, Surjection, IsInjective
  <2> QED
    BY <2>5 DEF ExistsBijection
<1>3. IsFiniteSet(B) /\ Cardinality(B) = 2 ^ k
  BY <1>1, <1>2, FS_Bijection
<1>4. A \cap B = {}
  OBVIOUS
<1>5. SUBSET (1 .. (k + 1)) = A \cup B
  <2>1. ASSUME NEW s \in SUBSET (1 .. (k + 1)) PROVE s \in A \cup B
    <3>1. CASE k + 1 \in s
      <4>1. s \ {k + 1} \in A /\ s = (s \ {k + 1}) \cup {k + 1}
        BY <3>1
      <4> QED
        BY <4>1
    <3>2. CASE k + 1 \notin s
      BY <3>2
    <3> QED
      BY <3>1, <3>2
  <2>2. \A s \in A : s \subseteq 1 .. (k + 1) /\ s \cup {k + 1} \subseteq 1 .. (k + 1)
    OBVIOUS
  <2>3. A \cup B \subseteq SUBSET (1 .. (k + 1))
    BY <2>2
  <2> QED
    BY <2>1, <2>3
<1>6. Cardinality(A \cap B) = 0
  BY <1>4, FS_EmptySet
<1>7. Cardinality(A \cup B) = Cardinality(A) + Cardinality(B) - Cardinality(A \cap B)
  <2> HIDE DEF A, B
  <2> QED
    BY <1>1, <1>3, FS_Union
<1>8. k + 1 \in Nat
  OBVIOUS
<1>9. Cardinality(SUBSET (1 .. (k + 1))) = 2 ^ (k + 1)
  BY <1>8, PowerAsSubsets
<1> DEFINE p == 2 ^ k
           q == 2 ^ (k + 1)
<1>10. p \in Nat /\ q = Cardinality(A \cup B)
  BY <1>1, <1>5, <1>9
<1>11. q = p + p - 0
  BY <1>1, <1>3, <1>6, <1>7, <1>10
<1> HIDE DEF A, B, f, p, q
<1>12. q = 2 * p
  BY <1>10, <1>11
<1> QED
  BY <1>12 DEF p, q

TwoTo == [k \in Nat |-> 2 ^ k]

LEMMA TwoToFacts ==
  /\ TwoTo[0] = 1
  /\ \A k \in Nat : TwoTo[k] \in Nat /\ TwoTo[k + 1] = 2 * TwoTo[k] /\ TwoTo[k] > 0
<1>1. TwoTo[0] = 1
  BY PowerZero DEF TwoTo
<1>2. \A k \in Nat : TwoTo[k] = 2 ^ k
  BY DEF TwoTo
<1>3. \A k \in Nat : TwoTo[k] \in Nat
  BY <1>2, PowerAsSubsets
<1>4. ASSUME NEW k \in Nat PROVE TwoTo[k + 1] = 2 * TwoTo[k]
  <2>1. k + 1 \in Nat
    OBVIOUS
  <2>2. TwoTo[k + 1] = 2 ^ (k + 1) /\ TwoTo[k] = 2 ^ k
    BY <1>2, <2>1
  <2> QED
    BY <2>2, PowerStep
<1> DEFINE N == {k \in Nat : TwoTo[k] > 0}
<1>5. Nat \subseteq N
  <2>1. 0 \in N
    BY <1>1
  <2>2. \A k \in N : k + 1 \in N
    BY <1>3, <1>4
  <2>3. N \in SUBSET Nat
    OBVIOUS
  <2> HIDE DEF N
  <2> QED
    BY <2>1, <2>2, <2>3, Induct
<1> QED
  BY <1>1, <1>2, <1>3, <1>4, <1>5

LEMMA TwoToGrows ==
  /\ \A k \in Nat : k < TwoTo[k]
  /\ \A j, k \in Nat : j < k => TwoTo[j] < TwoTo[k]
<1> DEFINE M == {k \in Nat : k < TwoTo[k]}
           N == {d \in Nat : \A j \in Nat : TwoTo[j] < TwoTo[j + d + 1]}
<1>1. Nat \subseteq M
  <2>1. 0 \in M /\ \A k \in M : k + 1 \in M
    BY TwoToFacts
  <2>2. M \in SUBSET Nat
    OBVIOUS
  <2> HIDE DEF M
  <2> QED
    BY <2>1, <2>2, Induct
<1>2. Nat \subseteq N
  <2>1. 0 \in N
    <3>1. \A j \in Nat : j + 0 + 1 = j + 1
      OBVIOUS
    <3> QED
      BY <3>1, TwoToFacts
  <2>2. ASSUME NEW d \in N PROVE d + 1 \in N
    <3>1. ASSUME NEW j \in Nat PROVE TwoTo[j] < TwoTo[j + (d + 1) + 1]
      <4>1. j + d + 1 \in Nat /\ j + (d + 1) + 1 = (j + d + 1) + 1
        OBVIOUS
      <4>2. TwoTo[j] < TwoTo[j + d + 1]
        OBVIOUS
      <4> QED
        BY <4>1, <4>2, TwoToFacts
    <3> QED
      BY <3>1
  <2>3. N \in SUBSET Nat
    OBVIOUS
  <2> HIDE DEF N
  <2> QED
    BY <2>1, <2>2, <2>3, Induct
<1>3. ASSUME NEW j \in Nat, NEW k \in Nat, j < k PROVE TwoTo[j] < TwoTo[k]
  <2>1. k - j - 1 \in Nat /\ j + (k - j - 1) + 1 = k
    BY <1>3
  <2>2. k - j - 1 \in N
    BY <1>2, <2>1
  <2> QED
    BY <2>1, <2>2
<1> QED
  BY <1>1, <1>3

\* A power of two divides the higher ones.
LEMMA TwoToDivides ==
  ASSUME NEW j \in Nat, NEW k \in Nat, j <= k
  PROVE  TwoTo[k] % TwoTo[j] = 0
<1> DEFINE N == {d \in Nat : \E m \in Nat : TwoTo[j + d] = m * TwoTo[j]}
<1>1. 0 \in N
  <2>1. TwoTo[j + 0] = 1 * TwoTo[j]
    BY TwoToFacts
  <2> QED
    BY <2>1
<1>2. ASSUME NEW d \in N PROVE d + 1 \in N
  <2>1. PICK m \in Nat : TwoTo[j + d] = m * TwoTo[j]
    OBVIOUS
  <2>2. j + d \in Nat /\ j + (d + 1) = (j + d) + 1
    OBVIOUS
  <2>3. TwoTo[j + (d + 1)] = 2 * (m * TwoTo[j]) /\ TwoTo[j] \in Nat
    BY <2>1, <2>2, TwoToFacts
  <2>4. TwoTo[j + (d + 1)] = (2 * m) * TwoTo[j] /\ 2 * m \in Nat
    BY <2>3
  <2> QED
    BY <2>4
<1>3. k - j \in N
  <2>1. N \in SUBSET Nat /\ k - j \in Nat
    OBVIOUS
  <2> HIDE DEF N
  <2> QED
    BY <1>1, <1>2, <2>1, Induct
<1>4. PICK m \in Nat : TwoTo[k] = m * TwoTo[j]
  <2>1. j + (k - j) = k
    OBVIOUS
  <2> QED
    BY <1>3, <2>1
<1> DEFINE N2 == TwoTo[j]
           b == TwoTo[k]
<1>5. N2 \in Nat \ {0} /\ b = N2 * m + 0 /\ b \in Int
  BY <1>4, TwoToFacts
<1> HIDE DEF N2, b
<1>6. b % N2 = 0
  <2>1. CASE N2 = 1
    <3>1. b % 1 = 0
      BY <1>5
    <3> QED
      BY <2>1, <3>1
  <2>2. CASE N2 > 1
    <3>1. 0 \in 0 .. (N2 - 1) /\ m \in Int
      BY <1>5, <2>2
    <3> QED
      BY <1>5, <2>2, <3>1, RemainderUnique
  <2> QED
    BY <1>5, <2>1, <2>2
<1> QED
  BY <1>6 DEF N2, b

LEMMA SmallRemainder ==
  ASSUME NEW n \in Nat, NEW m \in Nat, 0 < n, n < m
  PROVE  n % m = n
<1>1. m > 1 /\ n \in 0 .. (m - 1)
  OBVIOUS
<1> QED
  BY <1>1, RemainderOfResidue

\* The number of trailing zero bits of a power of two is its exponent.
LEMMA TrailingZeros ==
  ASSUME NEW k \in Nat
  PROVE  /\ k \in 0 .. TwoTo[k]
         /\ (CHOOSE j \in 0 .. TwoTo[k] :
               TwoTo[k] % 2 ^ j = 0 /\ TwoTo[k] % 2 ^ (j + 1) # 0) = k
<1> DEFINE n == TwoTo[k]
           Fits(j) == n % TwoTo[j] = 0 /\ n % TwoTo[j + 1] # 0
<1>1. n \in Nat /\ n > 0 /\ k \in 0 .. n
  <2>1. n \in Nat /\ n > 0
    BY TwoToFacts
  <2>2. k < n
    BY TwoToGrows
  <2> QED
    BY <2>1, <2>2
<1>2. \A j \in 0 .. n : n % 2 ^ j = n % TwoTo[j] /\ n % 2 ^ (j + 1) = n % TwoTo[j + 1]
  <2>1. \A j \in 0 .. n : j \in Nat /\ j + 1 \in Nat
    BY <1>1
  <2> QED
    BY <2>1 DEF TwoTo
<1>3. Fits(k)
  <2>1. n % TwoTo[k] = 0
    BY TwoToDivides
  <2>2. TwoTo[k + 1] \in Nat \ {0} /\ n < TwoTo[k + 1]
    BY <1>1, TwoToFacts
  <2> DEFINE m == TwoTo[k + 1]
  <2> HIDE DEF m, n
  <2>3. n % m = n
    BY <1>1, <2>2, SmallRemainder DEF m
  <2> QED
    BY <1>1, <2>1, <2>3 DEF m, n
<1>4. ASSUME NEW j \in 0 .. n, Fits(j) PROVE j = k
  <2>1. CASE j < k
    <3>1. j + 1 \in Nat /\ j + 1 <= k
      BY <1>1, <2>1
    <3> QED
      BY <1>4, <3>1, TwoToDivides
  <2>2. CASE j > k
    <3>1. j \in Nat
      BY <1>1
    <3> DEFINE m == TwoTo[j]
    <3>2. m \in Nat
      BY <3>1, TwoToFacts
    <3>3. m \in Nat /\ n < m
      BY <2>2, <3>1, <3>2, TwoToGrows
    <3> HIDE DEF m
    <3>4. n % m = n
      <4> HIDE DEF n
      <4> QED
        BY <1>1, <3>3, SmallRemainder
    <3> QED
      BY <1>1, <1>4, <3>4 DEF m
  <2> QED
    BY <1>1, <2>1, <2>2
<1> HIDE DEF n
<1> DEFINE l == CHOOSE j \in 0 .. n : n % 2 ^ j = 0 /\ n % 2 ^ (j + 1) # 0
<1>5. l = k
  <2>1. l = CHOOSE j \in 0 .. n : Fits(j)
    BY <1>2
  <2> HIDE DEF Fits, l
  <2> QED
    BY <1>1, <1>3, <1>4, <2>1
<1> QED
  BY <1>1, <1>5 DEF n

----------------------------------------------------------------------------
(* Folds over the subsets of a finite set. *)

\* g folds the steps over the subsets of S, taking out the elements that pick names,
\* as far as its values stay within V.
FoldsBy(g, S, V, base, step, pick) ==
  /\ g = [s \in SUBSET S |-> g[s]]
  /\ g[{}] = base
  /\ \A s \in SUBSET S :
       s # {} => /\ pick[s] \in s
                 /\ g[s \ {pick[s]}] \in V => g[s] = step[pick[s]][g[s \ {pick[s]}]]

\* A fold over the subsets of a finite set exists,
LEMMA FoldExists ==
  ASSUME NEW S, IsFiniteSet(S), NEW V, NEW base \in V, NEW step \in [S -> [V -> V]],
         NEW pick, \A s \in SUBSET S : s # {} => pick[s] \in s
  PROVE  \E h : FoldsBy(h, S, V, base, step, pick)
<1> DEFINE Small(k) == {s \in SUBSET S : Cardinality(s) <= k}
           Good(k) == \E h \in [Small(k) -> V] :
             \A s \in Small(k) :
               h[s] = IF s = {} THEN base ELSE step[pick[s]][h[s \ {pick[s]}]]
           N == {k \in Nat : Good(k)}
<1>0. \A s \in SUBSET S : Cardinality(s) \in Nat
  BY EmptyCardinality
<1>1. Good(0)
  <2> DEFINE h == [s \in Small(0) |-> base]
  <2>1. \A s \in Small(0) : s = {}
    BY <1>0, EmptyCardinality
  <2>2. h \in [Small(0) -> V] /\ \A s \in Small(0) : h[s] = base
    OBVIOUS
  <2> HIDE DEF h
  <2> QED
    BY <2>1, <2>2
<1>2. ASSUME NEW k \in Nat, Good(k) PROVE Good(k + 1)
  <2>1. PICK h \in [Small(k) -> V] : \A s \in Small(k) :
               h[s] = IF s = {} THEN base ELSE step[pick[s]][h[s \ {pick[s]}]]
    BY <1>2
  <2> DEFINE g == [s \in Small(k + 1) |->
                     IF s = {} THEN base ELSE step[pick[s]][h[s \ {pick[s]}]]]
  <2>2. \A s \in Small(k + 1) : s # {} => pick[s] \in S /\ s \ {pick[s]} \in Small(k)
    BY <1>0, OneLess
  <2>3. \A s \in Small(k) : s \in Small(k + 1)
    BY <1>0
  <2> HIDE DEF Small
  <2>4. g \in [Small(k + 1) -> V]
    BY <2>2
  <2>5. \A s \in Small(k) : g[s] = h[s]
    BY <2>1, <2>3
  <2>6. \A s \in Small(k + 1) :
          g[s] = IF s = {} THEN base ELSE step[pick[s]][g[s \ {pick[s]}]]
    BY <2>2, <2>5
  <2> HIDE DEF g
  <2> QED
    BY <2>4, <2>6
<1>3. Cardinality(S) \in N
  <2> HIDE DEF Good
  <2>1. N \in SUBSET Nat /\ 0 \in N /\ \A k \in N : k + 1 \in N
    BY <1>1, <1>2
  <2>2. Cardinality(S) \in Nat
    BY <1>0
  <2> HIDE DEF N
  <2> QED
    BY <2>1, <2>2, Induct
<1>4. Small(Cardinality(S)) = SUBSET S
  <2>1. \A s \in SUBSET S : Cardinality(s) <= Cardinality(S)
    BY FS_Subset
  <2> QED
    BY <2>1
<1> HIDE DEF Small
<1>5. PICK h \in [SUBSET S -> V] :
        \A s \in SUBSET S :
          h[s] = IF s = {} THEN base ELSE step[pick[s]][h[s \ {pick[s]}]]
  BY <1>3, <1>4
<1>6. h[{}] = base /\ \A s \in SUBSET S : s # {} => h[s] = step[pick[s]][h[s \ {pick[s]}]]
  BY <1>5
<1>7. h = [s \in SUBSET S |-> h[s]]
  OBVIOUS
<1>8. FoldsBy(h, S, V, base, step, pick)
  BY <1>6, <1>7 DEF FoldsBy
<1> QED
  BY <1>8

\* and stays within the values;
LEMMA FoldType ==
  ASSUME NEW S, IsFiniteSet(S), NEW V, NEW base \in V, NEW step \in [S -> [V -> V]],
         NEW pick, NEW g, FoldsBy(g, S, V, base, step, pick)
  PROVE  g \in [SUBSET S -> V]
<1> DEFINE G == {s \in SUBSET S : g[s] \in V}
<1>1. \A s \in SUBSET S :
        s # {} => /\ pick[s] \in s
                  /\ g[s \ {pick[s]}] \in V => g[s] = step[pick[s]][g[s \ {pick[s]}]]
  BY DEF FoldsBy
<1>2. {} \in G
  BY DEF FoldsBy
<1>3. ASSUME NEW s \in SUBSET S, s # {}, \A x \in s : s \ {x} \in G PROVE s \in G
  <2> DEFINE x == pick[s]
             r == s \ {x}
  <2>1. x \in s /\ x \in S /\ r \in G
    BY <1>1, <1>3
  <2>2. g[r] \in V /\ g[s] = step[x][g[r]]
    BY <1>1, <1>3, <2>1
  <2> HIDE DEF x, r
  <2> QED
    BY <2>1, <2>2
<1>4. \A s \in SUBSET S : s \in G
  <2>1. G \in SUBSET SUBSET S
    OBVIOUS
  <2> HIDE DEF G
  <2> QED
    BY <1>2, <1>3, <2>1, SetInduct
<1> QED
  BY <1>4 DEF FoldsBy

\* T is the fold of the steps over every subset of S, whichever element is last.
Folds(T, S, V, base, step) ==
  /\ T \in [SUBSET S -> V]
  /\ T[{}] = base
  /\ \A s \in SUBSET S : \A x \in s : T[s] = step[x][T[s \ {x}]]

\* Steps that commute may be taken in any order.
LEMMA FoldAnyOrder ==
  ASSUME NEW S, IsFiniteSet(S), NEW V, NEW base \in V, NEW step \in [S -> [V -> V]],
         \A x, y \in S : \A v \in V : step[x][step[y][v]] = step[y][step[x][v]],
         NEW pick, NEW g, FoldsBy(g, S, V, base, step, pick)
  PROVE  Folds(g, S, V, base, step)
<1> DEFINE G == {s \in SUBSET S : \A x \in s : g[s] = step[x][g[s \ {x}]]}
<1>1. \A s \in SUBSET S :
        s # {} => /\ pick[s] \in s
                  /\ g[s \ {pick[s]}] \in V => g[s] = step[pick[s]][g[s \ {pick[s]}]]
  BY DEF FoldsBy
<1>2. g \in [SUBSET S -> V] /\ g[{}] = base
  <2>1. g \in [SUBSET S -> V]
    BY FoldType
  <2> QED
    BY <2>1 DEF FoldsBy
<1>3. {} \in G
  OBVIOUS
<1>4. ASSUME NEW s \in SUBSET S, s # {}, \A x \in s : s \ {x} \in G PROVE s \in G
  <2> DEFINE p == pick[s]
  <2>1. p \in s /\ p \in S /\ g[s] = step[p][g[s \ {p}]]
    BY <1>1, <1>2, <1>4
  <2>2. ASSUME NEW x \in s, x # p PROVE g[s] = step[x][g[s \ {x}]]
    <3> DEFINE r == (s \ {p}) \ {x}
    <3>1. g[s \ {p}] = step[x][g[r]]
      BY <1>4, <2>1, <2>2
    <3>2. g[s \ {x}] = step[p][g[r]]
      <4>1. (s \ {x}) \ {p} = r
        OBVIOUS
      <4>2. g[s \ {x}] = step[p][g[(s \ {x}) \ {p}]]
        BY <1>4, <2>1, <2>2
      <4> QED
        BY <4>1, <4>2
    <3>3. g[r] \in V
      BY <1>2
    <3> HIDE DEF r, p
    <3> x \in S
      OBVIOUS
    <3>4. step[p][step[x][g[r]]] = step[x][step[p][g[r]]]
      BY <2>1, <3>3
    <3> QED
      BY <2>1, <3>1, <3>2, <3>4
  <2> HIDE DEF p
  <2> QED
    BY <2>1, <2>2
<1>5. \A s \in SUBSET S : s \in G
  <2>1. G \in SUBSET SUBSET S
    OBVIOUS
  <2> HIDE DEF G
  <2> QED
    BY <1>3, <1>4, <2>1, SetInduct
<1> QED
  BY <1>2, <1>5 DEF Folds

\* Two functions of subsets that take the same steps
SameSteps(T, U, S) ==
  /\ T[{}] = U[{}]
  /\ \A s \in SUBSET S : \A x \in s : T[s \ {x}] = U[s \ {x}] => T[s] = U[s]

\* agree.
LEMMA StepsAgree ==
  ASSUME NEW S, IsFiniteSet(S), NEW T, NEW U, SameSteps(T, U, S)
  PROVE  \A s \in SUBSET S : T[s] = U[s]
<1> DEFINE G == {s \in SUBSET S : T[s] = U[s]}
<1>1. {} \in G
  BY DEF SameSteps
<1>2. ASSUME NEW s \in SUBSET S, s # {}, \A x \in s : s \ {x} \in G PROVE s \in G
  BY <1>2 DEF SameSteps
<1>3. G \in SUBSET SUBSET S
  OBVIOUS
<1>4. \A s \in SUBSET S : s \in G
  <2> HIDE DEF G
  <2> QED
    BY <1>1, <1>2, <1>3, SetInduct
<1> QED
  BY <1>4

----------------------------------------------------------------------------
(* The field and the group. *)

LEMMA ResiduesAreIntegers == /\ Scalars \subseteq Int /\ Points = Scalars
                             /\ Scalars = 0 .. (P - 1) /\ P \in Nat /\ P > 1
  BY FieldAssumption DEF Scalars, Points

\* The same for the modulus P.
LEMMA SumModP ==
  ASSUME NEW a \in Int, NEW b \in Int
  PROVE  /\ ((a % P) + b) % P = (a + b) % P
         /\ (b + (a % P)) % P = (b + a) % P
  BY RemainderOfSum, FieldAssumption

LEMMA ProductModP ==
  ASSUME NEW a \in Int, NEW g \in Int
  PROVE  ((a % P) * g) % P = (a * g) % P
  BY RemainderOfProduct, FieldAssumption

LEMMA ShiftModP ==
  ASSUME NEW a \in Int, NEW k \in Int
  PROVE  (a + P * k) % P = a % P
  BY RemainderShift, FieldAssumption

\* The field and group operations stay within the residues.
LEMMA Closure ==
  ASSUME NEW a \in Int, NEW b \in Int
  PROVE  /\ Add(a, b) \in Scalars /\ Sub(a, b) \in Scalars
         /\ Mul(a, b) \in Scalars /\ Negate(a) \in Scalars
         /\ PointAdd(a, b) \in Points /\ MulScalar(a, b) \in Points
         /\ GeneratorMul(a) \in Points
<1>1. a + b \in Int /\ a - b \in Int /\ a * b \in Int /\ -a \in Int /\ a * Generator \in Int
  BY FieldAssumption
<1> QED
  BY <1>1, Remainder, FieldAssumption DEF Add, Sub, Mul, Negate, PointAdd, MulScalar, GeneratorMul,
                         Scalars, Points

\* The generator multiple of a sum is the sum of the multiples.
LEMMA GeneratorMulAdd ==
  ASSUME NEW a \in Int, NEW b \in Int
  PROVE  GeneratorMul(Add(a, b)) = PointAdd(GeneratorMul(a), GeneratorMul(b))
<1> DEFINE u == a * Generator
           v == b * Generator
<1>1. u \in Int /\ v \in Int /\ a + b \in Int /\ Generator \in Int /\ u + v = (a + b) * Generator
  BY FieldAssumption, Distributes
<1>2. GeneratorMul(Add(a, b)) = (u + v) % P
  BY <1>1, ProductModP DEF GeneratorMul, Add
<1> HIDE DEF u, v
<1>3. v % P \in Int
  BY <1>1, Remainder, ResiduesAreIntegers
<1>4. ((u % P) + (v % P)) % P = (u + v) % P
  BY <1>1, <1>3, SumModP
<1>5. PointAdd(GeneratorMul(a), GeneratorMul(b)) = ((u % P) + (v % P)) % P
  BY DEF PointAdd, GeneratorMul, u, v
<1> QED
  BY <1>2, <1>4, <1>5

\* Subtraction undoes addition.
LEMMA AddSub ==
  ASSUME NEW a \in Scalars, NEW b \in Int
  PROVE  Add(Sub(a, b), b) = a
<1>1. a \in Int /\ a - b \in Int /\ (a - b) + b = a
  BY ResiduesAreIntegers
<1>2. (((a - b) % P) + b) % P = ((a - b) + b) % P
  BY <1>1, SumModP
<1>3. a % P = a
  BY RemainderOfResidue, ResiduesAreIntegers
<1> QED
  BY <1>1, <1>2, <1>3 DEF Add, Sub

\* Addition of points can be cancelled.
LEMMA PointCancel ==
  ASSUME NEW x \in Points, NEW y \in Points, NEW m \in Points,
         PointAdd(x, m) = PointAdd(y, m)
  PROVE  x = y
<1>1. x \in Int /\ y \in Int /\ m \in Int
  BY ResiduesAreIntegers
<1>2. ASSUME NEW z \in Points
      PROVE  (((z + m) % P) + (-m)) % P = z
  <2>1. z \in Int /\ z + m \in Int /\ -m \in Int /\ (z + m) + (-m) = z
    BY <1>1, ResiduesAreIntegers
  <2> QED
    BY <2>1, SumModP, RemainderOfResidue, ResiduesAreIntegers
<1> QED
  BY <1>2 DEF PointAdd

\* The equation of a masked share, unmasked: if G z = F + M and M = G m, then
\* G (z - m) = F.
LEMMA UnmaskedShare ==
  ASSUME NEW z \in Scalars, NEW m \in Scalars, NEW F \in Points,
         GeneratorMul(z) = PointAdd(F, GeneratorMul(m))
  PROVE  GeneratorMul(Sub(z, m)) = F
<1>1. z \in Int /\ m \in Int /\ Sub(z, m) \in Int
  BY Closure, ResiduesAreIntegers
<1>2. GeneratorMul(z) = PointAdd(GeneratorMul(Sub(z, m)), GeneratorMul(m))
  BY <1>1, AddSub, GeneratorMulAdd
<1>3. GeneratorMul(Sub(z, m)) \in Points /\ GeneratorMul(m) \in Points
  BY <1>1, Closure
<1> QED
  BY <1>2, <1>3, PointCancel

\* The generator multiple of a negated scalar is the negated point.
LEMMA GeneratorMulNegate ==
  ASSUME NEW s \in Int
  PROVE  GeneratorMul(Negate(s)) = Negate(GeneratorMul(s))
<1> DEFINE u == s * Generator
<1>1. u \in Int /\ -u \in Int /\ -s \in Int /\ Generator \in Int /\ (-s) * Generator = -u
  BY FieldAssumption
<1>2. GeneratorMul(Negate(s)) = (-u) % P
  BY <1>1, ProductModP DEF GeneratorMul, Negate
<1> HIDE DEF u
<1>3. u % P \in Int /\ u % P = u + P * (-(u \div P)) /\ -(u \div P) \in Int /\ (u \div P) \in Int
  BY <1>1, Remainder, ResiduesAreIntegers, FieldAssumption
<1>4. -(u % P) = (-u) + P * (u \div P)
  BY <1>1, <1>3, FieldAssumption
<1>5. (-(u % P)) % P = (-u) % P
  BY <1>1, <1>3, <1>4, ShiftModP
<1> QED
  BY <1>2, <1>5 DEF Negate, GeneratorMul, u

\* The negation of a residue other than zero is its complement to P.
LEMMA NegateResidue ==
  ASSUME NEW r \in Scalars
  PROVE  Negate(r) = IF r = 0 THEN 0 ELSE P - r
<1>1. CASE r = 0
  BY <1>1, RemainderOfResidue, FieldAssumption DEF Negate, Scalars
<1>2. CASE r # 0
  <2>1. -r \in Int /\ P - r \in Scalars /\ -r = P * (-1) + (P - r)
    BY <1>2, FieldAssumption DEF Scalars
  <2> QED
    BY <2>1, <1>2, RemainderUnique, ResiduesAreIntegers DEF Negate
<1> QED
  BY <1>1, <1>2

\* Addition is commutative and associative.
LEMMA RingAdd ==
  ASSUME NEW a \in Int, NEW b \in Int, NEW c \in Int
  PROVE  /\ Add(a, b) = Add(b, a)
         /\ Add(Add(a, b), c) = Add(Add(a, c), b)
         /\ Add(Add(a, b), c) = Add(a, Add(b, c))
<1> DEFINE ab == a + b
           ac == a + c
           bc == b + c
<1>1. ab \in Int /\ ac \in Int /\ bc \in Int /\ ab = b + a
  OBVIOUS
<1>2. ab + c = ac + b /\ ab + c = a + bc
  OBVIOUS
<1> HIDE DEF ab, ac, bc
<1>3. ((ab % P) + c) % P = (ab + c) % P
  BY <1>1, SumModP
<1>4. ((ac % P) + b) % P = (ac + b) % P
  BY <1>1, SumModP
<1>5. (a + (bc % P)) % P = (a + bc) % P
  BY <1>1, SumModP
<1>6. Add(a, b) = ab % P /\ Add(b, a) = ab % P /\ Add(a, c) = ac % P /\ Add(b, c) = bc % P
  BY <1>1 DEF Add, ab, ac, bc
<1> QED
  BY <1>2, <1>3, <1>4, <1>5, <1>6 DEF Add

LEMMA AddZero ==
  ASSUME NEW a \in Scalars
  PROVE  Add(a, 0) = a /\ Add(0, a) = a
<1>1. a \in Int /\ a + 0 = a /\ 0 + a = a /\ a % P = a
  BY RemainderOfResidue, ResiduesAreIntegers
<1> QED
  BY <1>1 DEF Add

\* Multiplication is commutative and associative and distributes over addition,
LEMMA RingMul ==
  ASSUME NEW a \in Int, NEW b \in Int, NEW c \in Int
  PROVE  /\ Mul(a, b) = Mul(b, a)
         /\ Mul(Mul(a, b), c) = Mul(Mul(a, c), b)
         /\ Mul(Mul(a, b), c) = Mul(a, Mul(b, c))
         /\ Mul(Add(a, b), c) = Add(Mul(a, c), Mul(b, c))
<1> DEFINE ab == a * b
           ac == a * c
           bc == b * c
           s == a + b
<1>1. ab \in Int /\ ac \in Int /\ bc \in Int /\ s \in Int /\ ab = b * a /\ bc % P \in Int
  BY Remainder, FieldAssumption
<1>2. ab * c = ac * b /\ ab * c = bc * a /\ s * c = ac + bc
  BY Distributes
<1>3. (bc % P) * a = a * (bc % P)
  BY <1>1
<1>4. Mul(a, b) = ab % P /\ Mul(b, a) = ab % P /\ Mul(a, c) = ac % P /\ Mul(b, c) = bc % P
      /\ Add(a, b) = s % P
  BY <1>1 DEF Mul, Add, ab, ac, bc, s
<1> HIDE DEF ab, ac, bc, s
<1>5. ((ab % P) * c) % P = (ab * c) % P /\ ((ac % P) * b) % P = (ac * b) % P
      /\ ((bc % P) * a) % P = (bc * a) % P /\ ((s % P) * c) % P = (s * c) % P
  BY <1>1, ProductModP
<1>8. ((ac % P) + (bc % P)) % P = (ac + bc) % P
  BY <1>1, SumModP
<1>9. Mul(Mul(a, b), c) = Mul(Mul(a, c), b) /\ Mul(Mul(a, b), c) = Mul(a, Mul(b, c))
  BY <1>2, <1>3, <1>4, <1>5 DEF Mul
<1>10. Mul(Add(a, b), c) = Add(Mul(a, c), Mul(b, c))
  BY <1>2, <1>4, <1>5, <1>8 DEF Mul, Add
<1> QED
  BY <1>4, <1>9, <1>10

\* and a factor other than zero can be cancelled, because P is prime.
LEMMA MulCancel ==
  ASSUME NEW a \in Scalars, NEW b \in Scalars, NEW g \in 1 .. (P - 1),
         Mul(a, g) = Mul(b, g)
  PROVE  a = b
<1>1. ASSUME NEW x \in Scalars, NEW y \in Scalars, x > y, Mul(x, g) = Mul(y, g)
      PROVE  FALSE
  <2> DEFINE u == x * g
             v == y * g
             d == x - y
  <2>1. x \in Int /\ y \in Int /\ g \in Int /\ u \in Int /\ v \in Int /\ d \in 1 .. (P - 1)
        /\ d * g = u - v
    BY <1>1, ResiduesAreIntegers, Distributes
  <2> HIDE DEF u, v, d
  <2>2. u % P = v % P
    BY <1>1 DEF Mul, u, v
  <2>3. /\ u = P * (u \div P) + (u % P) /\ v = P * (v \div P) + (v % P)
        /\ u \div P \in Int /\ v \div P \in Int /\ u % P \in Int
    BY <2>1, Remainder, FieldAssumption, ResiduesAreIntegers
  <2> DEFINE m == u \div P
             n == v \div P
             r == u % P
  <2>4. u = P * m + r /\ v = P * n + r /\ m \in Int /\ n \in Int /\ r \in Int
    BY <2>2, <2>3
  <2> HIDE DEF m, n, r
  <2>5. u - v = P * (m - n) + 0 /\ m - n \in Int
    BY <2>4, FieldAssumption
  <2>6. (u - v) % P = 0
    <3>1. 0 \in 0 .. (P - 1) /\ u - v \in Int /\ P \in Nat /\ P > 1
      BY <2>1, FieldAssumption
    <3> QED
      BY <2>5, <3>1, RemainderUnique
  <2> QED
    BY <2>1, <2>6, PrimeAssumption
<1>2. a \in Int /\ b \in Int
  BY ResiduesAreIntegers
<1> QED
  BY <1>1, <1>2

LEMMA GeneratorMulInjective ==
  ASSUME NEW a \in Scalars, NEW b \in Scalars, GeneratorMul(a) = GeneratorMul(b)
  PROVE  a = b
  BY MulCancel, FieldAssumption DEF GeneratorMul, Mul

----------------------------------------------------------------------------
(* Sums. *)

\* The step of a sum.
AddStep(f) == [k \in DOMAIN f |-> [v \in Scalars |-> Add(v, f[k])]]

LEMMA SumFolds ==
  ASSUME NEW seq \in Seq(Int)
  PROVE  \E T : /\ Folds(T, DOMAIN seq, Scalars, 0, AddStep(seq))
                /\ SumOf(seq) = T[DOMAIN seq]
<1> DEFINE D == DOMAIN seq
           step == AddStep(seq)
           pick == [s \in SUBSET D |-> Max(s)]
           Eq(h) == h = [s \in SUBSET D |-> IF s = {} THEN 0
                         ELSE LET x == Max(s) IN Add(h[s \ {x}], seq[x])]
           T == CHOOSE h : Eq(h)
<1>1. /\ IsFiniteSet(D) /\ 0 \in Scalars /\ step \in [D -> [Scalars -> Scalars]]
      /\ \A x, y \in D : \A v \in Scalars : step[x][step[y][v]] = step[y][step[x][v]]
  <2>1. IsFiniteSet(D)
    BY FS_Interval
  <2>2. \A v \in Scalars : v \in Int
    BY ResiduesAreIntegers
  <2>3. \A x \in D : seq[x] \in Int
    OBVIOUS
  <2>4. \A x \in D : \A v \in Scalars : Add(v, seq[x]) \in Scalars
    BY <2>2, <2>3, Closure
  <2>5. \A x, y \in D : \A v \in Scalars : Add(Add(v, seq[y]), seq[x]) = Add(Add(v, seq[x]), seq[y])
    BY <2>2, <2>3, RingAdd
  <2> QED
    <3>1. step \in [D -> [Scalars -> Scalars]]
      BY <2>4 DEF AddStep
    <3>2. \A x \in D : \A v \in Scalars : step[x][v] = Add(v, seq[x])
      BY DEF AddStep
    <3> HIDE DEF step, D
    <3>3. \A x, y \in D : \A v \in Scalars : step[x][step[y][v]] = step[y][step[x][v]]
      BY <2>4, <2>5, <3>2
    <3> QED
      BY <2>1, <3>1, <3>3, ResiduesAreIntegers
<1>2. \A s \in SUBSET D : s # {} => pick[s] \in s /\ pick[s] = Max(s)
  <2>1. D = 1 .. Len(seq) /\ Len(seq) \in Nat
    OBVIOUS
  <2> HIDE DEF D
  <2> QED
    BY <2>1, GreatestElement
<1>3. \E h : Eq(h)
  <2>1. PICK h : FoldsBy(h, D, Scalars, 0, step, pick)
    <3> HIDE DEF step, D, pick
    <3> QED
      BY <1>1, <1>2, FoldExists
  <2>2. h \in [SUBSET D -> Scalars]
    BY <1>1, <2>1, FoldType
  <2>3. \A s \in SUBSET D : s # {} =>
          Max(s) \in D /\ h[s \ {Max(s)}] \in Scalars
    BY <1>2, <2>2
  <2>4. \A s \in SUBSET D : s # {} =>
          step[Max(s)][h[s \ {Max(s)}]] = Add(h[s \ {Max(s)}], seq[Max(s)])
    BY <2>3 DEF AddStep
  <2>5. h[{}] = 0 /\ \A s \in SUBSET D : s # {} => h[s] = Add(h[s \ {Max(s)}], seq[Max(s)])
    BY <1>2, <2>1, <2>3, <2>4 DEF FoldsBy
  <2>6. Eq(h)
    BY <2>2, <2>5
  <2> QED
    BY <2>6
<1>4. Eq(T)
  BY <1>3
<1>5. FoldsBy(T, D, Scalars, 0, step, pick)
  <2>1. \A s \in SUBSET D : s # {} => T[s] = Add(T[s \ {Max(s)}], seq[Max(s)])
    BY <1>4
  <2>2. T[{}] = 0 /\ T = [s \in SUBSET D |-> T[s]]
    BY <1>4
  <2> HIDE DEF T
  <2>3. \A s \in SUBSET D : s # {} =>
          (T[s \ {Max(s)}] \in Scalars => T[s] = step[Max(s)][T[s \ {Max(s)}]])
    BY <1>2, <2>1 DEF AddStep
  <2> QED
    BY <1>2, <2>2, <2>3 DEF FoldsBy
<1>6. SumOf(seq) = T[D]
  BY DEF SumOf, FoldLeft, MapThenFoldSet
<1>7. Folds(T, D, Scalars, 0, step)
  <2> HIDE DEF T, D, step, pick
  <2> QED
    BY <1>1, <1>5, FoldAnyOrder
<1> QED
  BY <1>6, <1>7

\* The partial sums of a sequence, over the subsets of its positions.
SumsOf(T, seq) ==
  /\ T \in [SUBSET DOMAIN seq -> Scalars]
  /\ T[{}] = 0
  /\ \A s \in SUBSET DOMAIN seq : \A k \in s : T[s] = Add(T[s \ {k}], seq[k])
  /\ SumOf(seq) = T[DOMAIN seq]

LEMMA PartialSums ==
  ASSUME NEW seq \in Seq(Int)
  PROVE  \E T : SumsOf(T, seq)
<1>1. PICK T : /\ Folds(T, DOMAIN seq, Scalars, 0, AddStep(seq))
               /\ SumOf(seq) = T[DOMAIN seq]
  BY SumFolds
<1>2. \A s \in SUBSET DOMAIN seq : \A k \in s :
        /\ s \ {k} \in SUBSET DOMAIN seq /\ k \in DOMAIN seq
        /\ AddStep(seq)[k][T[s \ {k}]] = Add(T[s \ {k}], seq[k])
  BY <1>1 DEF Folds, AddStep
<1>3. SumsOf(T, seq)
  BY <1>1, <1>2, ZenonT(30) DEF Folds, SumsOf
<1> QED
  BY <1>3

LEMMA SumType ==
  ASSUME NEW seq \in Seq(Int)
  PROVE  SumOf(seq) \in Scalars
<1>1. PICK T : SumsOf(T, seq)
  BY PartialSums
<1>2. DOMAIN seq \in SUBSET DOMAIN seq
  OBVIOUS
<1> QED
  BY <1>1, <1>2 DEF SumsOf

LEMMA SumEmpty == SumOf(<<>>) = 0
<1>1. <<>> \in Seq(Int) /\ DOMAIN <<>> = {}
  OBVIOUS
<1> QED
  BY <1>1, PartialSums DEF SumsOf

LEMMA SumAppend ==
  ASSUME NEW seq \in Seq(Int), NEW e \in Int
  PROVE  SumOf(Append(seq, e)) = Add(SumOf(seq), e)
<1> DEFINE new == Append(seq, e)
           n == Len(seq)
           D == DOMAIN seq
<1>1. /\ new \in Seq(Int) /\ n \in Nat /\ D = 1 .. n /\ DOMAIN new = 1 .. (n + 1)
      /\ new[n + 1] = e /\ \A k \in D : new[k] = seq[k]
  OBVIOUS
<1>2. PICK T : SumsOf(T, new)
  BY <1>1, PartialSums
<1>3. PICK U : SumsOf(U, seq)
  BY PartialSums
<1> HIDE DEF new, D
<1>4. ASSUME NEW s \in SUBSET D, NEW k \in s, T[s \ {k}] = U[s \ {k}]
      PROVE  T[s] = U[s]
  <2>1. s \in SUBSET DOMAIN new /\ k \in D
    BY <1>1
  <2>2. T[s] = Add(T[s \ {k}], new[k])
    BY <1>2, <2>1 DEF SumsOf
  <2>3. U[s] = Add(U[s \ {k}], seq[k])
    BY <1>3 DEF SumsOf, D
  <2> QED
    BY <1>1, <1>4, <2>1, <2>2, <2>3
<1>5. T[D] = U[D]
  <2>1. IsFiniteSet(D) /\ T[{}] = U[{}]
    BY <1>1, <1>2, <1>3, FS_Interval DEF SumsOf
  <2>2. SameSteps(T, U, D)
    BY <1>4, <2>1 DEF SameSteps
  <2>3. \A s \in SUBSET D : T[s] = U[s]
    BY <2>1, <2>2, StepsAgree
  <2> QED
    BY <2>3
<1>6. n + 1 \in DOMAIN new /\ DOMAIN new \ {n + 1} = D /\ DOMAIN new \in SUBSET DOMAIN new
  BY <1>1
<1>7. T[DOMAIN new] = Add(T[DOMAIN new \ {n + 1}], new[n + 1])
  BY <1>2, <1>6 DEF SumsOf
<1>8. SumOf(new) = T[DOMAIN new] /\ SumOf(seq) = U[D]
  BY <1>2, <1>3 DEF SumsOf, D
<1> QED
  BY <1>1, <1>5, <1>6, <1>7, <1>8 DEF new

\* e says where the terms of a are among those of b; the other terms of b are unit.
Reindexes(e, a, b, unit) ==
  /\ e \in [DOMAIN a -> DOMAIN b]
  /\ \A j, k \in DOMAIN a : e[j] = e[k] => j = k
  /\ \A k \in DOMAIN a : a[k] = b[e[k]]
  /\ \A n \in DOMAIN b : (\A k \in DOMAIN a : e[k] # n) => b[n] = unit

\* The order of the summands does not matter, and neither do zeros among them.
LEMMA SumReindexed ==
  ASSUME NEW a \in Seq(Int), NEW b \in Seq(Int), NEW e, Reindexes(e, a, b, 0)
  PROVE  SumOf(a) = SumOf(b)
<1>0. /\ e \in [DOMAIN a -> DOMAIN b]
      /\ \A j, k \in DOMAIN a : e[j] = e[k] => j = k
      /\ \A k \in DOMAIN a : a[k] = b[e[k]]
      /\ \A n \in DOMAIN b : (\A k \in DOMAIN a : e[k] # n) => b[n] = 0
  BY DEF Reindexes
<1> DEFINE D == DOMAIN a
           E == DOMAIN b
           Img(s) == {e[k] : k \in s}
<1>1. /\ IsFiniteSet(D) /\ IsFiniteSet(E)
      /\ \A k \in D : e[k] \in E
  BY <1>0, FS_Interval
<1>2. PICK T : SumsOf(T, b)
  BY PartialSums
<1>3. PICK U : SumsOf(U, a)
  BY PartialSums
<1> DEFINE W == [s \in SUBSET D |-> T[Img(s)]]
<1>4. ASSUME NEW s \in SUBSET D, NEW k \in s, W[s \ {k}] = U[s \ {k}]
      PROVE  W[s] = U[s]
  <2>1. /\ k \in D /\ Img(s) \in SUBSET E /\ e[k] \in Img(s)
        /\ Img(s \ {k}) = Img(s) \ {e[k]}
    BY <1>0, <1>1
  <2>2. W[s] = T[Img(s)] /\ W[s \ {k}] = T[Img(s \ {k})]
    OBVIOUS
  <2> HIDE DEF Img, W
  <2>3. T[Img(s)] = Add(T[Img(s) \ {e[k]}], b[e[k]])
    BY <1>2, <2>1 DEF SumsOf
  <2>4. U[s] = Add(U[s \ {k}], a[k])
    BY <1>3 DEF SumsOf
  <2>5. a[k] = b[e[k]]
    BY <1>0, <2>1
  <2> QED
    BY <1>4, <2>1, <2>2, <2>3, <2>4, <2>5
<1>5. Img({}) = {} /\ Img(D) \in SUBSET E
  BY <1>1
<1>6. W[{}] = U[{}] /\ W[D] = T[Img(D)]
  BY <1>2, <1>3, <1>5 DEF SumsOf
<1>7. W[D] = U[D]
  <2> HIDE DEF Img, W, D
  <2>1. SameSteps(W, U, D)
    BY <1>4, <1>6 DEF SameSteps
  <2>2. \A s \in SUBSET D : W[s] = U[s]
    BY <1>1, <2>1, StepsAgree
  <2> QED
    BY <2>2
<1> DEFINE I == Img(D)
           Z == E \ I
           V == [s \in SUBSET Z |-> T[I \cup s]]
           K == [s \in SUBSET Z |-> T[I]]
<1>8. ASSUME NEW s \in SUBSET Z, NEW n \in s, V[s \ {n}] = K[s \ {n}]
      PROVE  V[s] = K[s]
  <2>1. b[n] = 0 /\ n \in E
    BY <1>0
  <2> HIDE DEF I
  <2>2. /\ I \cup s \in SUBSET E /\ (I \cup s) \ {n} = I \cup (s \ {n})
        /\ n \in I \cup s
    BY <1>5 DEF I
  <2>3. T[I \cup s] = Add(T[I \cup (s \ {n})], 0)
    <3> DEFINE r == I \cup s
    <3>1. r \in SUBSET DOMAIN b /\ n \in r
      BY <2>2
    <3>2. r \ {n} = I \cup (s \ {n})
      BY <2>2
    <3> HIDE DEF r
    <3>3. T[r] = Add(T[r \ {n}], b[n])
      BY <1>2, <3>1 DEF SumsOf
    <3> QED
      BY <2>1, <3>2, <3>3 DEF r
  <2>4. T[I \cup (s \ {n})] = T[I]
    BY <1>8
  <2>5. T[I] \in Scalars
    BY <1>2, <1>5 DEF SumsOf, I
  <2>6. Add(T[I], 0) = T[I]
    BY <2>5, AddZero
  <2> QED
    BY <2>3, <2>4, <2>6
<1> HIDE DEF I
<1>9. V[{}] = K[{}] /\ V[Z] = T[E] /\ K[Z] = T[I]
  <2>1. I \cup Z = E /\ I \cup {} = I
    BY <1>5 DEF I
  <2> QED
    BY <2>1
<1>10. T[E] = T[I]
  <2>1. IsFiniteSet(Z)
    BY <1>1, FS_Subset
  <2> HIDE DEF V, K, Z
  <2>2. SameSteps(V, K, Z)
    BY <1>8, <1>9 DEF SameSteps
  <2>3. \A s \in SUBSET Z : V[s] = K[s]
    BY <2>1, <2>2, StepsAgree
  <2> QED
    BY <1>9, <2>3
<1>11. SumOf(a) = U[D] /\ SumOf(b) = T[E]
  BY <1>2, <1>3 DEF SumsOf
<1> QED
  BY <1>6, <1>7, <1>10, <1>11 DEF I

\* The generator multiple of a sum is the sum of the multiples.
LEMMA GeneratorMulSum ==
  ASSUME NEW a \in Seq(Int), NEW b \in Seq(Int), DOMAIN a = DOMAIN b,
         \A k \in DOMAIN a : b[k] = GeneratorMul(a[k])
  PROVE  GeneratorMul(SumOf(a)) = SumOf(b)
<1> DEFINE D == DOMAIN a
<1>1. IsFiniteSet(D) /\ \A k \in D : a[k] \in Int
  <2>1. D = 1 .. Len(a) /\ Len(a) \in Nat /\ \A k \in D : a[k] \in Int
    OBVIOUS
  <2> QED
    BY <2>1, FS_Interval
<1>2. PICK T : SumsOf(T, a)
  BY PartialSums
<1>3. PICK U : SumsOf(U, b)
  BY PartialSums
<1> DEFINE W == [s \in SUBSET D |-> GeneratorMul(T[s])]
<1>4. ASSUME NEW s \in SUBSET D, NEW k \in s, W[s \ {k}] = U[s \ {k}]
      PROVE  W[s] = U[s]
  <2>1. k \in D /\ s \ {k} \in SUBSET D
    OBVIOUS
  <2>2. T[s \ {k}] \in Int /\ T[s] = Add(T[s \ {k}], a[k])
    BY <1>2, <2>1, ResiduesAreIntegers DEF SumsOf
  <2>3. U[s] = Add(U[s \ {k}], b[k])
    BY <1>3 DEF SumsOf
  <2>4. W[s] = GeneratorMul(T[s]) /\ U[s \ {k}] = GeneratorMul(T[s \ {k}])
    BY <1>4
  <2> HIDE DEF W
  <2>5. GeneratorMul(T[s]) = PointAdd(GeneratorMul(T[s \ {k}]), GeneratorMul(a[k]))
    BY <1>1, <2>1, <2>2, GeneratorMulAdd
  <2> QED
    BY <2>1, <2>3, <2>4, <2>5 DEF PointAdd, Add
<1>5. W[{}] = U[{}]
  BY <1>2, <1>3, FieldAssumption, RemainderOfResidue DEF SumsOf, GeneratorMul
<1>6. W[D] = GeneratorMul(T[D])
  OBVIOUS
<1> HIDE DEF W, D
<1>7. SameSteps(W, U, D)
  BY <1>4, <1>5 DEF SameSteps
<1>8. \A s \in SUBSET D : W[s] = U[s]
  BY <1>1, <1>7, StepsAgree
<1>9. W[D] = U[D]
  BY <1>8
<1>10. SumOf(a) = T[D] /\ SumOf(b) = U[D]
  BY <1>2, <1>3 DEF SumsOf, D
<1> QED
  BY <1>6, <1>9, <1>10

LEMMA PointSum ==
  ASSUME NEW seq
  PROVE  FoldLeft(PointAdd, Identity, seq) = SumOf(seq)
  BY DEF SumOf, FoldLeft, MapThenFoldSet, PointAdd, Add, Identity

----------------------------------------------------------------------------
(* Polynomials. *)

\* The partial results of Horner's method, from the last coefficient down.
HornerSteps(a, c, x) ==
  /\ a \in [1 .. (Len(c) + 1) -> Scalars]
  /\ a[Len(c) + 1] = 0
  /\ \A k \in 1 .. Len(c) : a[k] = Add(Mul(a[k + 1], x), c[k])
  /\ Evaluate(c, x) = a[1]

LEMMA EvaluateHorner ==
  ASSUME NEW c \in Seq(Int), NEW x \in Int
  PROVE  \E a : HornerSteps(a, c, x)
<1> DEFINE n == Len(c)
           D == DOMAIN c
           step == [k \in D |-> [v \in Scalars |-> Add(Mul(v, x), c[k])]]
           pick == [s \in SUBSET D |-> Min(s)]
           Eq(h) == h = [s \in SUBSET D |-> IF s = {} THEN 0
                         ELSE LET k == Min(s) IN Add(Mul(h[s \ {k}], x), c[k])]
           T == CHOOSE h : Eq(h)
           a == [k \in 1 .. (n + 1) |-> T[k .. n]]
<1>1. IsFiniteSet(D) /\ 0 \in Scalars /\ D = 1 .. n /\ n \in Nat
  BY FS_Interval, ResiduesAreIntegers
<1>2. \A k \in D : \A v \in Scalars : Add(Mul(v, x), c[k]) \in Scalars
  <2>1. \A v \in Scalars : Mul(v, x) \in Int
    BY Closure, ResiduesAreIntegers
  <2>2. \A k \in D : c[k] \in Int
    OBVIOUS
  <2> QED
    BY <2>1, <2>2, Closure
<1>3. step \in [D -> [Scalars -> Scalars]]
  BY <1>2
<1>4. \A s \in SUBSET D : s # {} => pick[s] \in s /\ pick[s] = Min(s)
  <2>1. \A s \in SUBSET D : s \in SUBSET Nat
    BY <1>1
  <2> HIDE DEF D
  <2> QED
    BY <2>1, LeastElement
<1>5. \E h : Eq(h)
  <2>1. PICK h : FoldsBy(h, D, Scalars, 0, step, pick)
    <3> HIDE DEF step, D, pick
    <3> QED
      BY <1>1, <1>3, <1>4, FoldExists
  <2>2. h \in [SUBSET D -> Scalars]
    <3> HIDE DEF step, D, pick
    <3> QED
      BY <1>1, <1>3, <2>1, FoldType
  <2>3. \A s \in SUBSET D : s # {} =>
          Min(s) \in D /\ h[s \ {Min(s)}] \in Scalars
    BY <1>4, <2>2
  <2>4. \A s \in SUBSET D : s # {} =>
          step[Min(s)][h[s \ {Min(s)}]] = Add(Mul(h[s \ {Min(s)}], x), c[Min(s)])
    BY <2>3
  <2> HIDE DEF step
  <2>5. h[{}] = 0 /\ \A s \in SUBSET D : s # {} =>
          h[s] = Add(Mul(h[s \ {Min(s)}], x), c[Min(s)])
    BY <1>4, <2>1, <2>3, <2>4 DEF FoldsBy
  <2>6. Eq(h)
    BY <2>2, <2>5
  <2> QED
    BY <2>6
<1>6. Eq(T)
  BY <1>5
<1>7. T[{}] = 0 /\ \A s \in SUBSET D : s # {} =>
        T[s] = Add(Mul(T[s \ {Min(s)}], x), c[Min(s)])
  BY <1>6
<1>8. T \in [SUBSET D -> Scalars]
  <2>1. T = [s \in SUBSET D |-> T[s]]
    BY <1>6
  <2> HIDE DEF T
  <2>2. \A s \in SUBSET D : s # {} =>
          (T[s \ {Min(s)}] \in Scalars => T[s] = step[Min(s)][T[s \ {Min(s)}]])
    BY <1>4, <1>7
  <2>3. FoldsBy(T, D, Scalars, 0, step, pick)
    BY <1>4, <1>7, <2>1, <2>2 DEF FoldsBy
  <2> HIDE DEF D, step, pick
  <2> QED
    BY <1>1, <1>3, <2>3, FoldType
<1>9. Evaluate(c, x) = T[D]
  BY DEF Evaluate, FoldRight, MapThenFoldSet
<1> HIDE DEF T
<1>10. ASSUME NEW k \in 1 .. n PROVE T[k .. n] = Add(Mul(T[(k + 1) .. n], x), c[k])
  <2>1. k .. n \in SUBSET D /\ k \in k .. n /\ (k .. n) \ {k} = (k + 1) .. n
    BY <1>1
  <2>2. Min(k .. n) = k
    BY <1>1, <2>1 DEF Min
  <2> QED
    BY <1>7, <2>1, <2>2
<1>11. T[(n + 1) .. n] = 0
  BY <1>1, <1>7
<1>12. \A k \in 1 .. (n + 1) : k .. n \in SUBSET D
  BY <1>1
<1>13. a \in [1 .. (n + 1) -> Scalars] /\ a[n + 1] = 0 /\ a[1] = T[D]
  <2>1. \A k \in 1 .. (n + 1) : T[k .. n] \in Scalars
    BY <1>8, <1>12
  <2>2. n + 1 \in 1 .. (n + 1) /\ 1 \in 1 .. (n + 1) /\ D = 1 .. n
    BY <1>1
  <2> HIDE DEF n, D
  <2> QED
    BY <1>11, <2>1, <2>2
<1>14. \A k \in 1 .. n : a[k] = Add(Mul(a[k + 1], x), c[k])
  BY <1>1, <1>10
<1> HIDE DEF a
<1>15. HornerSteps(a, c, x)
  BY <1>9, <1>13, <1>14 DEF HornerSteps
<1> QED
  BY <1>15

LEMMA EvaluateType ==
  ASSUME NEW c \in Seq(Int), NEW x \in Int
  PROVE  Evaluate(c, x) \in Scalars
<1>1. PICK a : HornerSteps(a, c, x)
  BY EvaluateHorner
<1>2. 1 \in 1 .. (Len(c) + 1)
  OBVIOUS
<1> QED
  BY <1>1, <1>2 DEF HornerSteps

\* Horner's method in the group is the one in the field,
LEMMA PublicEvaluation ==
  ASSUME NEW poly, NEW id
  PROVE  EvaluatePublicPolynomial(poly, id) = Evaluate(poly, FromU64(id))
  BY DEF EvaluatePublicPolynomial, Evaluate, FoldRight, MapThenFoldSet, PointAdd, Add,
         Identity, MulScalar, Mul

LEMMA PublicEvaluationType ==
  ASSUME NEW poly \in Seq(Points), NEW id \in Int
  PROVE  EvaluatePublicPolynomial(poly, id) \in Points
<1>1. poly \in Seq(Int) /\ Points = Scalars
  BY ResiduesAreIntegers
<1>2. FromU64(id) \in Int
  BY Remainder, FieldAssumption DEF FromU64
<1> QED
  BY <1>1, <1>2, EvaluateType, PublicEvaluation

\* and the value of a committed polynomial is the commitment to the value.
LEMMA CommittedEvaluation ==
  ASSUME NEW c \in Seq(Int), NEW x \in Int
  PROVE  Evaluate(CommitPolynomial(c), x) = GeneratorMul(Evaluate(c, x))
<1> DEFINE n == Len(c)
           f == CommitPolynomial(c)
<1>1. n \in Nat /\ \A k \in 1 .. n : c[k] \in Int
  OBVIOUS
<1>2. f \in Seq(Int) /\ Len(f) = n /\ \A k \in 1 .. n : f[k] = GeneratorMul(c[k])
  <2>1. \A k \in 1 .. n : GeneratorMul(c[k]) \in Int
    <3> HIDE DEF n, f
    <3> TAKE k \in 1 .. n
    <3>1. c[k] \in Int
      BY <1>1
    <3> QED
      BY <3>1, Closure, ResiduesAreIntegers
  <2>2. f = [k \in 1 .. n |-> GeneratorMul(c[k])]
    BY DEF CommitPolynomial
  <2> HIDE DEF f, n
  <2> QED
    BY <1>1, <2>1, <2>2
<1> HIDE DEF f
<1>3. PICK a : HornerSteps(a, c, x)
  BY EvaluateHorner
<1>4. PICK b : HornerSteps(b, f, x)
  BY <1>2, EvaluateHorner
<1>6. /\ a \in [1 .. (n + 1) -> Scalars] /\ a[n + 1] = 0 /\ Evaluate(c, x) = a[1]
      /\ \A k \in 1 .. n : a[k] = Add(Mul(a[k + 1], x), c[k])
  BY <1>3 DEF HornerSteps
<1>7. /\ b \in [1 .. (n + 1) -> Scalars] /\ b[n + 1] = 0 /\ Evaluate(f, x) = b[1]
      /\ \A k \in 1 .. n : b[k] = Add(Mul(b[k + 1], x), f[k])
  BY <1>2, <1>4 DEF HornerSteps
<1> HIDE DEF n
<1> DEFINE N == {j \in Nat : j <= n => b[n + 1 - j] = GeneratorMul(a[n + 1 - j])}
<1>5. 0 \in N
  <2>1. GeneratorMul(0) = 0
    BY RemainderOfResidue, FieldAssumption DEF GeneratorMul
  <2> QED
    BY <1>1, <1>6, <1>7, <2>1
<1>8. ASSUME NEW j \in Nat, j \in N PROVE j + 1 \in N
  <2> SUFFICES ASSUME j + 1 <= n PROVE b[n - j] = GeneratorMul(a[n - j])
    BY <1>1
  <2> DEFINE k == n - j
  <2>1. k \in 1 .. n /\ k + 1 \in 1 .. (n + 1) /\ k + 1 = n + 1 - j
    BY <1>1
  <2>2. b[k + 1] = GeneratorMul(a[k + 1])
    BY <1>1, <1>8, <2>1
  <2> HIDE DEF k
  <2>3. /\ a[k + 1] \in Int /\ c[k] \in Int /\ Mul(a[k + 1], x) \in Int
    BY <1>1, <1>6, <2>1, Closure, ResiduesAreIntegers
  <2>4. GeneratorMul(a[k]) = Add(GeneratorMul(Mul(a[k + 1], x)), GeneratorMul(c[k]))
    BY <1>6, <2>1, <2>3, GeneratorMulAdd DEF Add, PointAdd
  <2>5. GeneratorMul(Mul(a[k + 1], x)) = Mul(GeneratorMul(a[k + 1]), x)
    <3>1. Mul(Mul(a[k + 1], x), Generator) = Mul(Mul(a[k + 1], Generator), x)
      BY <2>3, RingMul, FieldAssumption
    <3> QED
      BY <3>1 DEF GeneratorMul, Mul
  <2>6. b[k] = Add(Mul(b[k + 1], x), GeneratorMul(c[k]))
    BY <1>2, <1>7, <2>1
  <2>7. b[k] = GeneratorMul(a[k])
    BY <2>2, <2>4, <2>5, <2>6
  <2> QED
    BY <2>7 DEF k
<1>9. n \in N
  <2>1. N \in SUBSET Nat
    OBVIOUS
  <2> HIDE DEF N
  <2> QED
    BY <1>1, <1>5, <1>8, <2>1, Induct
<1>10. n + 1 - n = 1
  BY <1>1
<1> QED
  BY <1>1, <1>6, <1>7, <1>9, <1>10 DEF f

----------------------------------------------------------------------------
(* Masks. *)

\* f[k] is where the first k of n steps lead from a base.
Iterates(f, n, V, base, step) ==
  /\ f \in [0 .. n -> V]
  /\ f[0] = base
  /\ \A k \in 1 .. n : f[k] = step[k][f[k - 1]]

LEMMA Iteration ==
  ASSUME NEW n \in Nat, NEW V, NEW base \in V, NEW step \in [1 .. n -> [V -> V]]
  PROVE  \E f : Iterates(f, n, V, base, step)
<1> DEFINE Good(m) == \E f \in [0 .. m -> V] :
             f[0] = base /\ \A k \in 1 .. m : f[k] = step[k][f[k - 1]]
           N == {m \in Nat : m <= n => Good(m)}
<1>1. 0 \in N
  <2> DEFINE f == [k \in 0 .. 0 |-> base]
  <2>1. f \in [0 .. 0 -> V] /\ f[0] = base /\ \A k \in 1 .. 0 : FALSE
    OBVIOUS
  <2> HIDE DEF f
  <2> QED
    BY <2>1
<1>2. ASSUME NEW m \in Nat, m \in N PROVE m + 1 \in N
  <2> SUFFICES ASSUME m + 1 <= n PROVE Good(m + 1)
    OBVIOUS
  <2>1. PICK f \in [0 .. m -> V] :
          f[0] = base /\ \A k \in 1 .. m : f[k] = step[k][f[k - 1]]
    BY <1>2
  <2> DEFINE g == [k \in 0 .. (m + 1) |-> IF k <= m THEN f[k] ELSE step[m + 1][f[m]]]
  <2>2. m + 1 \in 1 .. n /\ f[m] \in V /\ step[m + 1][f[m]] \in V
    OBVIOUS
  <2>3. g \in [0 .. (m + 1) -> V]
    BY <2>2
  <2>4. g[0] = base /\ \A k \in 1 .. (m + 1) : g[k] = step[k][g[k - 1]]
    BY <2>1
  <2> HIDE DEF g
  <2> QED
    BY <2>3, <2>4
<1>3. n \in N
  <2> HIDE DEF Good
  <2>1. N \in SUBSET Nat
    OBVIOUS
  <2> HIDE DEF N
  <2> QED
    BY <1>1, <1>2, <2>1, Induct
<1> QED
  BY <1>3 DEF Iterates

LEMMA HashType ==
  ASSUME NEW inputs \in Seq(Int)
  PROVE  HashOf(inputs) \in Nat /\ HashOf(inputs) < 1009 /\ HashToScalar(inputs) \in Scalars
<1> DEFINE n == Len(inputs)
           Next(k, v) == (31 * v + inputs[k] + 7) % 1009
           Small == {x \in Nat : x < 1009}
           step == [k \in 1 .. n |-> [v \in Int |-> Next(k, v)]]
           Eq(h) == h = [k \in 0 .. n |-> IF k = 0 THEN 1 ELSE Next(k, h[k - 1])]
           absorbed == CHOOSE h : Eq(h)
<1>1. n \in Nat /\ \A k \in 1 .. n : inputs[k] \in Int
  OBVIOUS
<1>2. \A k \in 1 .. n : \A v \in Int : Next(k, v) \in Small
  <2> TAKE k \in 1 .. n
  <2> TAKE v \in Int
  <2> DEFINE u == 31 * v + inputs[k] + 7
  <2>1. u \in Int
    BY <1>1
  <2> DEFINE m == 1009
  <2>2. m \in Nat /\ m > 1
    OBVIOUS
  <2> HIDE DEF u, m
  <2>3. u % m \in 0 .. (m - 1)
    BY <2>1, <2>2, Remainder
  <2>4. u % m \in Nat /\ u % m < m
    BY <2>2, <2>3
  <2> QED
    BY <2>4 DEF u, m, Small
<1>3. HashOf(inputs) = absorbed[n]
  BY DEF HashOf
<1>0. 1 \in Small /\ \A x \in Small : x \in Int /\ x \in Nat /\ x < 1009
  OBVIOUS
<1> HIDE DEF n, Next, Small
<1>4. \E h : Eq(h)
  <2>1. step \in [1 .. n -> [Int -> Int]] /\ 1 \in Int
    BY <1>0, <1>2
  <2> HIDE DEF step
  <2>2. PICK f : Iterates(f, n, Int, 1, step)
    BY <1>1, <2>1, Iteration
  <2>3. \A k \in 0 .. n : k # 0 => k \in 1 .. n /\ k - 1 \in 0 .. n
    BY <1>1
  <2>4. \A k \in 0 .. n : k # 0 => f[k] = Next(k, f[k - 1])
    BY <2>2, <2>3 DEF step, Iterates
  <2>5. f = [k \in 0 .. n |-> f[k]]
    BY <2>2 DEF Iterates
  <2>6. \A k \in 0 .. n : f[k] = IF k = 0 THEN 1 ELSE Next(k, f[k - 1])
    BY <2>2, <2>4 DEF Iterates
  <2>7. Eq(f)
    BY <2>5, <2>6
  <2> QED
    BY <2>7
<1>5. Eq(absorbed)
  BY <1>4
<1>6. absorbed[0] = 1 /\ \A k \in 1 .. n : absorbed[k] = Next(k, absorbed[k - 1])
  <2> HIDE DEF absorbed
  <2> QED
    BY <1>1, <1>5
<1> HIDE DEF absorbed
<1> DEFINE N == {k \in Nat : k <= n => absorbed[k] \in Small}
<1>7. n \in N
  <2>1. N \in SUBSET Nat /\ 0 \in N
    BY <1>0, <1>6
  <2>2. ASSUME NEW k \in N PROVE k + 1 \in N
    <3>1. ASSUME k + 1 <= n PROVE absorbed[k + 1] \in Small
      <4>1. k + 1 \in 1 .. n /\ k <= n /\ (k + 1) - 1 = k
        BY <1>1, <3>1
      <4>2. absorbed[k] \in Int
        BY <1>0, <4>1
      <4>3. absorbed[k + 1] = Next(k + 1, absorbed[k])
        BY <1>6, <4>1, <4>2
      <4>4. Next(k + 1, absorbed[k]) \in Small
        BY <1>2, <4>1, <4>2
      <4> QED
        BY <4>3, <4>4
    <3> QED
      BY <3>1
  <2> HIDE DEF N
  <2> QED
    BY <1>1, <2>1, <2>2, Induct
<1>8. HashOf(inputs) \in Nat /\ HashOf(inputs) < 1009
  BY <1>0, <1>1, <1>3, <1>7
<1>9. HashOf(inputs) \in Int
  BY <1>8
<1>10. HashOf(inputs) % P \in 0 .. (P - 1)
  BY <1>9, Remainder, FieldAssumption
<1> QED
  BY <1>8, <1>10 DEF HashToScalar, Scalars

\* A mask is a scalar.
LEMMA MaskType ==
  ASSUME NEW shared \in Int, NEW session \in Int, NEW dealer \in Int, NEW participant \in Int,
         NEW dealerPublic \in Int, NEW participantPublic \in Int, NEW poly \in Seq(Int)
  PROVE  DeriveMask(shared, DkgMaskTranscript(session, dealer, participant, dealerPublic,
                                              participantPublic, poly)) \in Scalars
<1> DEFINE head == <<session, dealer, participant, dealerPublic, participantPublic, Len(poly)>>
           transcript == DkgMaskTranscript(session, dealer, participant, dealerPublic,
                                           participantPublic, poly)
<1>1. head \in Seq(Int)
  OBVIOUS
<1>2. transcript \in Seq(Int)
  <2> HIDE DEF head
  <2>1. head \o poly \in Seq(Int)
    BY <1>1
  <2> QED
    BY <2>1 DEF DkgMaskTranscript, head
<1> HIDE DEF transcript
<1>3. <<shared>> \o transcript \in Seq(Int)
  BY <1>2
<1>4. DeriveMask(shared, transcript) \in Scalars
  BY <1>3, HashType, ZenonT(30) DEF DeriveMask
<1> QED
  BY <1>4 DEF transcript

\* Both sides of the exchange arrive at the same point (evrf.rs:38).
LEMMA SharedPointAgrees ==
  ASSUME NEW a \in 0 .. (Q - 1), NEW b \in 0 .. (Q - 1)
  PROVE  DiffieHellman(a, HelperPublic(b)) = DiffieHellman(b, HelperPublic(a))
<1> DEFINE u == b * HelperGenerator
           v == a * HelperGenerator
<1>1. /\ Q \in Nat /\ Q > 1 /\ a \in Int /\ b \in Int
      /\ u \in Int /\ v \in Int /\ u * a = v * b
  BY HelperAssumption
<1> HIDE DEF u, v
<1>2. ((u % Q) * a) % Q = (u * a) % Q
  BY <1>1, RemainderOfProduct
<1>3. ((v % Q) * b) % Q = (v * b) % Q
  BY <1>1, RemainderOfProduct
<1>4. /\ DiffieHellman(a, HelperPublic(b)) = ((u % Q) * a) % Q
      /\ DiffieHellman(b, HelperPublic(a)) = ((v % Q) * b) % Q
  BY DEF DiffieHellman, HelperPublic, u, v
<1> QED
  BY <1>1, <1>2, <1>3, <1>4

\* The public keys are points of the helper group.
LEMMA DiffieHellmanType ==
  ASSUME NEW a \in 0 .. (Q - 1), NEW b \in 0 .. (Q - 1)
  PROVE  DiffieHellman(a, b) \in 0 .. (Q - 1) /\ DiffieHellman(a, b) \in Int
<1>1. b * a \in Int /\ Q \in Nat /\ Q > 1
  BY HelperAssumption
<1> QED
  BY <1>1, Remainder DEF DiffieHellman

----------------------------------------------------------------------------
(* Transcripts. *)

LEMMA ElementType ==
  ASSUME NEW S, NEW s \in Seq(S), NEW k \in DOMAIN s
  PROVE  s[k] \in S
  OBVIOUS

LEMMA FirstShareFound ==
  ASSUME NEW t \in Transcripts, NEW id, FirstShare(t, id) # 0
  PROVE  /\ FirstShare(t, id) \in DOMAIN t.shares
         /\ t.shares[FirstShare(t, id)].participant = id
<1> DEFINE S == {k \in 1 .. Len(t.shares) : t.shares[k].participant = id}
<1>1. S \in SUBSET Nat /\ FirstShare(t, id) = IF S # {} THEN Min(S) ELSE 0
  BY DEF FirstShare, SelectInSeq
<1>2. Min(S) \in S
  BY <1>1, LeastElement
<1> QED
  BY <1>1, <1>2, SMTT(30) DEF Transcripts

\* A transcript that validates for a participant satisfies the commitment equation
\* at the participant's first share (transcript.rs:174-208).
LEMMA ValidatedShare ==
  ASSUME NEW t \in Transcripts, NEW id, ValidateTranscript(t, id) = NoError
  PROVE  /\ FirstShare(t, id) # 0
         /\ VerifyMaskedShareCommitment(t.shares[FirstShare(t, id)], t.poly)
<1> DEFINE bad == {k \in DOMAIN t.shares : ShareError(t, id, k) # NoError}
           first == CHOOSE k \in bad : \A j \in bad : k <= j
           p == FirstShare(t, id)
<1>1. bad \in SUBSET Nat
  BY DEF Transcripts
<1>2. bad = {}
  <2>1. ASSUME bad # {} PROVE FALSE
    <3>1. first \in bad
      BY <1>1, <2>1, LeastElement
    <3>2. ShareError(t, id, first) # NoError
      BY <3>1
    <3>3. ValidateTranscript(t, id) \in {"ProofNotVerified", ShareError(t, id, first)}
      BY <2>1 DEF ValidateTranscript
    <3> QED
      BY <3>2, <3>3 DEF NoError
  <2> QED
    BY <2>1
<1>3. p # 0
  BY <1>2 DEF ValidateTranscript, NoError
<1>4. p \in DOMAIN t.shares /\ t.shares[p].participant = id
  BY <1>3, FirstShareFound
<1>5. ShareError(t, id, p) = NoError
  BY <1>2, <1>4
<1> QED
  BY <1>3, <1>4, <1>5 DEF ShareError, NoError

\* The positions of the shares of two participants differ exactly if no share is
\* followed by another one of its participant.
LEMMA NoShareFollowed ==
  ASSUME NEW t \in Transcripts
  PROVE  IsInjective([k \in DOMAIN t.shares |-> t.shares[k].participant]) <=>
           \A k \in DOMAIN t.shares :
             ~ \E j \in (k + 1) .. Len(t.shares) : t.shares[j].participant = t.shares[k].participant
<1> DEFINE f == [k \in DOMAIN t.shares |-> t.shares[k].participant]
<1>1. DOMAIN t.shares = 1 .. Len(t.shares) /\ Len(t.shares) \in Nat
  BY DEF Transcripts
<1>2. ASSUME IsInjective(f), NEW k \in DOMAIN t.shares,
             NEW j \in (k + 1) .. Len(t.shares), t.shares[j].participant = t.shares[k].participant
      PROVE  FALSE
  <2>1. j \in DOMAIN t.shares /\ j # k
    BY <1>1
  <2>2. f[j] = f[k] /\ DOMAIN f = DOMAIN t.shares
    BY <1>2, <2>1
  <2> QED
    BY <1>2, <2>1, <2>2 DEF IsInjective
<1>3. ASSUME \A k \in DOMAIN t.shares : ~ \E j \in (k + 1) .. Len(t.shares) :
               t.shares[j].participant = t.shares[k].participant,
             NEW a \in DOMAIN t.shares, NEW b \in DOMAIN t.shares, f[a] = f[b], a # b
      PROVE  FALSE
  <2>1. a \in (b + 1) .. Len(t.shares) \/ b \in (a + 1) .. Len(t.shares)
    BY <1>1, <1>3
  <2> QED
    BY <1>3, <2>1
<1>4. IsInjective(f) <=> \A a, b \in DOMAIN t.shares : f[a] = f[b] => a = b
  BY DEF IsInjective
<1> HIDE DEF f
<1> QED
  BY <1>2, <1>3, <1>4 DEF f

\* A verified transcript validates for a participant exactly if no two shares are
\* of one participant and the participant's satisfies the commitment equation.
LEMMA ValidatedIsCommitted ==
  ASSUME NEW t \in Transcripts, NEW id, t.status = "Verified", FirstShare(t, id) # 0
  PROVE  ValidateTranscript(t, id) = NoError <=>
           /\ IsInjective([k \in DOMAIN t.shares |-> t.shares[k].participant])
           /\ VerifyMaskedShareCommitment(t.shares[FirstShare(t, id)], t.poly)
<1> DEFINE injective == IsInjective([k \in DOMAIN t.shares |-> t.shares[k].participant])
           bad == {k \in DOMAIN t.shares : ShareError(t, id, k) # NoError}
           first == CHOOSE k \in bad : \A j \in bad : k <= j
           p == FirstShare(t, id)
<1>1. p \in DOMAIN t.shares /\ t.shares[p].participant = id
  BY FirstShareFound
<1>2. ValidateTranscript(t, id) = NoError <=> bad = {}
  <2>1. bad \in SUBSET Nat
    BY DEF Transcripts
  <2>2. CASE bad # {}
    <3>1. first \in bad
      BY <2>1, <2>2, LeastElement
    <3>2. ValidateTranscript(t, id) = ShareError(t, id, first)
      BY <2>2 DEF ValidateTranscript
    <3> QED
      BY <2>2, <3>1, <3>2
  <2>3. CASE bad = {}
    BY <2>3 DEF ValidateTranscript, NoError
  <2> QED
    BY <2>2, <2>3
<1>3. ASSUME bad = {}
      PROVE  injective /\ VerifyMaskedShareCommitment(t.shares[p], t.poly)
  <2>1. \A k \in DOMAIN t.shares : ShareError(t, id, k) = NoError
    BY <1>3
  <2>2. \A k \in DOMAIN t.shares :
          ~ \E j \in (k + 1) .. Len(t.shares) : t.shares[j].participant = t.shares[k].participant
    BY <2>1 DEF ShareError, NoError
  <2>3. VerifyMaskedShareCommitment(t.shares[p], t.poly)
    BY <1>1, <2>1 DEF ShareError, NoError
  <2> QED
    BY <2>2, <2>3, NoShareFollowed
<1>4. ASSUME injective, VerifyMaskedShareCommitment(t.shares[p], t.poly)
      PROVE  bad = {}
  <2> SUFFICES ASSUME NEW k \in DOMAIN t.shares PROVE ShareError(t, id, k) = NoError
    OBVIOUS
  <2>1. ~ \E j \in (k + 1) .. Len(t.shares) : t.shares[j].participant = t.shares[k].participant
    BY <1>4, NoShareFollowed
  <2>2. t.shares[k].participant = id => k = p
    BY <1>1, <1>4 DEF IsInjective
  <2> QED
    BY <1>4, <2>1, <2>2 DEF ShareError
<1> HIDE DEF bad, injective, p
<1> QED
  BY <1>2, <1>3, <1>4 DEF injective, p

----------------------------------------------------------------------------
(* Products. *)

\* The product of the values of f over the positions in S.
ProductOn(f, S) == FoldFunctionOnSet(Mul, 1, f, S)

\* The partial products of a function over the subsets of S.
ProductsOf(T, f, S) ==
  /\ T \in [SUBSET S -> Scalars]
  /\ T[{}] = 1
  /\ \A s \in SUBSET S : \A k \in s : T[s] = Mul(T[s \ {k}], f[k])
  /\ ProductOn(f, S) = T[S]

LEMMA PartialProducts ==
  ASSUME NEW f, NEW S, IsFiniteSet(S), \A k \in S : f[k] \in Int
  PROVE  \E T : ProductsOf(T, f, S)
<1> DEFINE step == [k \in S |-> [v \in Scalars |-> Mul(f[k], v)]]
           pick == [s \in SUBSET S |-> CHOOSE x \in s : TRUE]
           Eq(h) == h = [s \in SUBSET S |-> IF s = {} THEN 1
                         ELSE LET x == CHOOSE x \in s : TRUE IN Mul(f[x], h[s \ {x}])]
           T == CHOOSE h : Eq(h)
<1>1. /\ 1 \in Scalars /\ step \in [S -> [Scalars -> Scalars]]
      /\ \A x, y \in S : \A v \in Scalars : step[x][step[y][v]] = step[y][step[x][v]]
  <2>1. \A v \in Scalars : v \in Int
    BY ResiduesAreIntegers
  <2>2. \A x \in S : \A v \in Scalars : Mul(f[x], v) \in Scalars
    BY <2>1, Closure
  <2>3. \A x, y \in S : \A v \in Scalars : Mul(f[x], Mul(f[y], v)) = Mul(f[y], Mul(f[x], v))
    <3> SUFFICES ASSUME NEW x \in S, NEW y \in S, NEW v \in Scalars
                 PROVE  Mul(f[x], Mul(f[y], v)) = Mul(f[y], Mul(f[x], v))
      OBVIOUS
    <3>1. /\ Mul(Mul(f[x], f[y]), v) = Mul(f[x], Mul(f[y], v))
          /\ Mul(Mul(f[y], f[x]), v) = Mul(f[y], Mul(f[x], v))
          /\ Mul(f[x], f[y]) = Mul(f[y], f[x])
      BY <2>1, RingMul
    <3> QED
      BY <3>1
  <2>4. step \in [S -> [Scalars -> Scalars]]
    BY <2>2
  <2>5. \A x \in S : \A v \in Scalars : step[x][v] = Mul(f[x], v)
    OBVIOUS
  <2> HIDE DEF step
  <2>6. \A x, y \in S : \A v \in Scalars : step[x][step[y][v]] = step[y][step[x][v]]
    BY <2>2, <2>3, <2>5
  <2> QED
    BY <2>4, <2>6, ResiduesAreIntegers
<1>2. \A s \in SUBSET S : s # {} => pick[s] \in s /\ pick[s] = CHOOSE x \in s : TRUE
  OBVIOUS
<1>3. \E h : Eq(h)
  <2>1. PICK h : FoldsBy(h, S, Scalars, 1, step, pick)
    <3> HIDE DEF step, pick
    <3> QED
      BY <1>1, <1>2, FoldExists
  <2>2. h \in [SUBSET S -> Scalars]
    BY <1>1, <2>1, FoldType
  <2>3. \A s \in SUBSET S : s # {} => pick[s] \in S /\ h[s \ {pick[s]}] \in Scalars
    BY <1>2, <2>2
  <2> HIDE DEF pick
  <2>4. \A s \in SUBSET S : s # {} =>
          step[pick[s]][h[s \ {pick[s]}]] = Mul(f[pick[s]], h[s \ {pick[s]}])
    BY <2>3
  <2>5. h[{}] = 1 /\ \A s \in SUBSET S : s # {} => h[s] = Mul(f[pick[s]], h[s \ {pick[s]}])
    BY <2>1, <2>3, <2>4 DEF FoldsBy
  <2>6. Eq(h)
    BY <1>2, <2>2, <2>5
  <2> QED
    BY <2>6
<1>4. Eq(T)
  BY <1>3
<1>5. T[{}] = 1 /\ T = [s \in SUBSET S |-> T[s]]
      /\ \A s \in SUBSET S : s # {} => T[s] = Mul(f[pick[s]], T[s \ {pick[s]}])
  BY <1>4
<1>6. ProductOn(f, S) = T[S]
  BY DEF ProductOn, FoldFunctionOnSet, MapThenFoldSet
<1> HIDE DEF T, pick
<1>7. FoldsBy(T, S, Scalars, 1, step, pick)
  <2>1. \A s \in SUBSET S : s # {} =>
          (T[s \ {pick[s]}] \in Scalars => T[s] = step[pick[s]][T[s \ {pick[s]}]])
    BY <1>2, <1>5
  <2> QED
    BY <1>2, <1>5, <2>1 DEF FoldsBy
<1>8. Folds(T, S, Scalars, 1, step)
  <2> HIDE DEF step
  <2> QED
    BY <1>1, <1>7, FoldAnyOrder
<1>9. \A s \in SUBSET S : \A k \in s : T[s] = Mul(T[s \ {k}], f[k])
  <2> SUFFICES ASSUME NEW s \in SUBSET S, NEW k \in s PROVE T[s] = Mul(T[s \ {k}], f[k])
    OBVIOUS
  <2>1. T[s] = step[k][T[s \ {k}]] /\ T[s \ {k}] \in Scalars /\ k \in S
    BY <1>8 DEF Folds
  <2>2. T[s] = Mul(f[k], T[s \ {k}]) /\ T[s \ {k}] \in Int /\ f[k] \in Int
    BY <2>1, ResiduesAreIntegers
  <2> QED
    BY <2>2, RingMul
<1>10. ProductsOf(T, f, S)
  BY <1>6, <1>8, <1>9 DEF Folds, ProductsOf
<1> QED
  BY <1>10

LEMMA ProductType ==
  ASSUME NEW f, NEW S, IsFiniteSet(S), \A k \in S : f[k] \in Int
  PROVE  ProductOn(f, S) \in Scalars
<1>1. PICK T : ProductsOf(T, f, S)
  BY PartialProducts
<1> QED
  BY <1>1 DEF ProductsOf

LEMMA ProductEmpty ==
  ASSUME NEW f
  PROVE  ProductOn(f, {}) = 1
<1>1. PICK T : ProductsOf(T, f, {})
  BY PartialProducts, FS_EmptySet
<1> QED
  BY <1>1 DEF ProductsOf

\* The factors may be taken in any order.
LEMMA ProductStep ==
  ASSUME NEW f, NEW S, IsFiniteSet(S), \A k \in S : f[k] \in Int, NEW n \in S
  PROVE  ProductOn(f, S) = Mul(ProductOn(f, S \ {n}), f[n])
<1> DEFINE R == S \ {n}
<1>1. IsFiniteSet(R) /\ R \in SUBSET S
  BY FS_Subset
<1>2. PICK T : ProductsOf(T, f, S)
  BY PartialProducts
<1>3. PICK U : ProductsOf(U, f, R)
  BY <1>1, PartialProducts
<1>4. SameSteps(T, U, R)
  BY <1>1, <1>2, <1>3 DEF SameSteps, ProductsOf
<1>5. T[R] = U[R]
  BY <1>1, <1>4, StepsAgree
<1> QED
  BY <1>2, <1>3, <1>5 DEF ProductsOf

----------------------------------------------------------------------------
(* The field. *)

\* The rules of the arithmetic on scalars.
LEMMA ScalarRules ==
  ASSUME NEW a \in Scalars, NEW b \in Scalars
  PROVE  /\ Add(a, b) \in Scalars /\ Mul(a, b) \in Scalars
         /\ Sub(a, b) \in Scalars /\ Negate(a) \in Scalars
         /\ Add(a, b) = Add(b, a) /\ Mul(a, b) = Mul(b, a)
         /\ Mul(a, 1) = a /\ Mul(1, a) = a /\ Mul(a, 0) = 0 /\ Mul(0, a) = 0
<1>1. a \in Int /\ b \in Int /\ 0 \in Int /\ 1 \in Int
  BY ResiduesAreIntegers
<1>2. /\ Add(a, b) \in Scalars /\ Mul(a, b) \in Scalars
      /\ Sub(a, b) \in Scalars /\ Negate(a) \in Scalars
      /\ Add(a, b) = Add(b, a) /\ Mul(a, b) = Mul(b, a)
  BY <1>1, Closure, RingAdd, RingMul
<1>3. Mul(a, 1) = a /\ Mul(a, 0) = 0
  <2>1. a * 1 = a /\ a * 0 = 0 /\ a % P = a /\ 0 % P = 0
    BY <1>1, RemainderOfResidue, FieldAssumption, ResiduesAreIntegers
  <2> QED
    BY <2>1 DEF Mul
<1>4. Mul(1, a) = Mul(a, 1) /\ Mul(0, a) = Mul(a, 0)
  BY <1>1, RingMul
<1> QED
  BY <1>2, <1>3, <1>4

LEMMA ScalarTriple ==
  ASSUME NEW a \in Scalars, NEW b \in Scalars, NEW c \in Scalars
  PROVE  /\ Add(Add(a, b), c) = Add(a, Add(b, c))
         /\ Mul(Mul(a, b), c) = Mul(a, Mul(b, c))
         /\ Mul(Add(a, b), c) = Add(Mul(a, c), Mul(b, c))
         /\ Mul(a, Add(b, c)) = Add(Mul(a, b), Mul(a, c))
<1>1. a \in Int /\ b \in Int /\ c \in Int
  BY ResiduesAreIntegers
<1>2. /\ Add(Add(a, b), c) = Add(a, Add(b, c))
      /\ Mul(Mul(a, b), c) = Mul(a, Mul(b, c))
      /\ Mul(Add(a, b), c) = Add(Mul(a, c), Mul(b, c))
      /\ Mul(Add(b, c), a) = Add(Mul(b, a), Mul(c, a))
  BY <1>1, RingAdd, RingMul
<1>3. Add(b, c) \in Scalars
  BY ScalarRules
<1>4. Mul(a, Add(b, c)) = Mul(Add(b, c), a) /\ Mul(b, a) = Mul(a, b) /\ Mul(c, a) = Mul(a, c)
  BY <1>3, ScalarRules
<1> QED
  BY <1>2, <1>4

\* Every scalar other than zero has one inverse.
InverseOf(a) == CHOOSE inv \in Inverses(a) : TRUE

LEMMA InverseExists ==
  ASSUME NEW a \in Scalars, a # 0
  PROVE  InverseOf(a) \in Scalars /\ Mul(a, InverseOf(a)) = 1 /\ Inverses(a) # {}
<1> DEFINE f == [y \in Scalars |-> Mul(y, a)]
<1>1. a \in 1 .. (P - 1) /\ 1 \in Scalars
  BY ResiduesAreIntegers
<1>2. \A y \in Scalars : f[y] \in Scalars /\ f[y] = Mul(y, a)
  BY ScalarRules
<1>3. f \in [Scalars -> Scalars]
  BY <1>2
<1> HIDE DEF f
<1>4. \A x, y \in Scalars : f[x] = f[y] => x = y
  BY <1>1, <1>2, MulCancel
<1>5. f \in Injection(Scalars, Scalars)
  BY <1>3, <1>4 DEF Injection, IsInjective
<1>6. IsFiniteSet(Scalars)
  BY FieldAssumption, FS_Interval DEF Scalars
<1>7. f \in Surjection(Scalars, Scalars)
  BY <1>5, <1>6, FS_Injection
<1>8. PICK y \in Scalars : f[y] = 1
  BY <1>1, <1>7 DEF Surjection
<1>9. Mul(a, y) = 1
  BY <1>2, <1>8, ScalarRules
<1>10. y \in Inverses(a)
  BY <1>9 DEF Inverses
<1>11. InverseOf(a) \in Inverses(a)
  BY <1>10 DEF InverseOf
<1> QED
  BY <1>10, <1>11 DEF Inverses

LEMMA ZeroHasNoInverse == Inverses(0) = {}
  BY ScalarRules, ResiduesAreIntegers DEF Inverses

LEMMA InverseUnique ==
  ASSUME NEW a \in Scalars, NEW b \in Scalars, Mul(a, b) = 1
  PROVE  a # 0 /\ b # 0 /\ b = InverseOf(a)
<1>1. a # 0 /\ b # 0
  BY ScalarRules
<1>2. InverseOf(a) \in Scalars /\ Mul(a, InverseOf(a)) = 1 /\ a \in 1 .. (P - 1)
  BY <1>1, InverseExists, ResiduesAreIntegers
<1>3. Mul(b, a) = 1 /\ Mul(InverseOf(a), a) = 1
  BY <1>2, ScalarRules
<1>4. b = InverseOf(a)
  <2> HIDE DEF InverseOf
  <2> QED
    BY <1>2, <1>3, MulCancel, ZenonT(30)
<1> QED
  BY <1>1, <1>4

\* A difference is zero for equal scalars only.
LEMMA SubZero ==
  ASSUME NEW a \in Scalars, NEW b \in Scalars
  PROVE  /\ Sub(a, b) = 0 <=> a = b
         /\ Sub(a, b) = Add(a, Negate(b))
         /\ Add(b, Sub(a, b)) = a
<1>1. a \in Int /\ b \in Int /\ Sub(a, b) \in Scalars /\ Sub(a, b) \in Int /\ -b \in Int
  <2>1. a \in Int /\ b \in Int /\ Sub(a, b) \in Scalars /\ Sub(a, b) \in Int
    BY ScalarRules, ResiduesAreIntegers
  <2> QED
    BY <2>1
<1>2. Add(Sub(a, b), b) = a
  BY <1>1, AddSub
<1>3. Add(b, Sub(a, b)) = a
  BY <1>1, <1>2, ScalarRules
<1>4. a - b = a + (-b) /\ (a + ((-b) % P)) % P = (a + (-b)) % P
  BY <1>1, SumModP
<1>5. Sub(a, b) = Add(a, Negate(b))
  BY <1>4 DEF Sub, Add, Negate
<1>6. Sub(a, b) = 0 => a = b
  BY <1>3, AddZero
<1>7. a = b => Sub(a, b) = 0
  <2>1. a - a = 0 /\ 0 % P = 0
    BY <1>1, RemainderOfResidue, FieldAssumption, ResiduesAreIntegers
  <2> QED
    BY <2>1 DEF Sub
<1> QED
  BY <1>3, <1>5, <1>6, <1>7

\* The difference of two differences.
LEMMA SubSub ==
  ASSUME NEW a \in Scalars, NEW b \in Scalars, NEW j \in Scalars
  PROVE  Sub(b, a) = Sub(Sub(j, a), Sub(j, b))
<1> DEFINE u == j - a
           v == j - b
<1>1. u \in Int /\ v \in Int /\ a \in Int /\ b \in Int /\ u - v = b - a
  BY ResiduesAreIntegers
<1> HIDE DEF u, v
<1>2. v % P \in Int /\ -(v % P) \in Int /\ ((u % P) + (-(v % P))) % P = (u + (-(v % P))) % P
  <2>1. v % P \in Int
    BY <1>1, Remainder, ResiduesAreIntegers
  <2>2. -(v % P) \in Int
    BY <2>1
  <2> QED
    BY <1>1, <2>1, <2>2, SumModP
<1>3. v % P = v + P * (-(v \div P)) /\ (v \div P) \in Int /\ P \in Int
  BY <1>1, Remainder, ResiduesAreIntegers, FieldAssumption
<1>4. u + (-(v % P)) = (u - v) + P * (v \div P) /\ u - v \in Int
  BY <1>1, <1>3
<1>5. (u + (-(v % P))) % P = (u - v) % P
  BY <1>3, <1>4, ShiftModP
<1>6. (u % P) - (v % P) = (u % P) + (-(v % P))
  BY <1>1, <1>2, Remainder, ResiduesAreIntegers
<1> QED
  BY <1>1, <1>2, <1>5, <1>6 DEF Sub, u, v

\* The product of scalars other than zero is not zero.
LEMMA ProductNonzero ==
  ASSUME NEW S, IsFiniteSet(S), NEW f, \A k \in S : f[k] \in Scalars /\ f[k] # 0
  PROVE  ProductOn(f, S) \in Scalars /\ ProductOn(f, S) # 0
<1> DEFINE G == {s \in SUBSET S : ProductOn(f, s) \in Scalars /\ ProductOn(f, s) # 0}
<1>1. {} \in G
  BY ProductEmpty, ResiduesAreIntegers
<1>2. ASSUME NEW s \in SUBSET S, s # {}, \A x \in s : s \ {x} \in G PROVE s \in G
  <2>1. PICK n : n \in s
    BY <1>2
  <2>2. IsFiniteSet(s) /\ \A k \in s : f[k] \in Int
    BY FS_Subset, ResiduesAreIntegers
  <2>3. ProductOn(f, s) = Mul(ProductOn(f, s \ {n}), f[n])
    BY <2>1, <2>2, ProductStep
  <2>4. /\ ProductOn(f, s \ {n}) \in 1 .. (P - 1) /\ f[n] \in 1 .. (P - 1)
        /\ ProductOn(f, s \ {n}) \in Scalars /\ f[n] \in Scalars
    BY <1>2, <2>1, ResiduesAreIntegers
  <2>5. ProductOn(f, s) \in Scalars
    BY <2>3, <2>4, ScalarRules
  <2>6. ProductOn(f, s) # 0
    BY <2>3, <2>4, PrimeAssumption DEF Mul
  <2> QED
    BY <2>5, <2>6
<1>3. \A s \in SUBSET S : s \in G
  <2>1. G \in SUBSET SUBSET S
    OBVIOUS
  <2> HIDE DEF G
  <2> QED
    BY <1>1, <1>2, <2>1, SetInduct
<1> QED
  BY <1>3

----------------------------------------------------------------------------
(* Interpolation. *)

DistinctPoints(x) ==
  /\ x \in Seq(Scalars)
  /\ \A j, m \in DOMAIN x : x[j] = x[m] => j = m

Negated(x) == [m \in DOMAIN x |-> Negate(x[m])]
Differences(x, j) == [m \in DOMAIN x |-> Sub(x[j], x[m])]

\* The weight of position j when the positions S are interpolated at zero.
Weight(x, S, j) ==
  IF j \in S
  THEN Mul(ProductOn(Negated(x), S \ {j}), InverseOf(ProductOn(Differences(x, j), S \ {j})))
  ELSE 0

\* The factors of a weight.
LEMMA WeightFactors ==
  ASSUME NEW x, DistinctPoints(x), NEW S \in SUBSET DOMAIN x, NEW j \in DOMAIN x, j \notin S
  PROVE  /\ IsFiniteSet(S)
         /\ \A m \in S : /\ x[m] \in Scalars
                         /\ Negated(x)[m] = Negate(x[m]) /\ Negated(x)[m] \in Int
                         /\ Differences(x, j)[m] = Sub(x[j], x[m])
                         /\ Differences(x, j)[m] \in Scalars /\ Differences(x, j)[m] \in Int
                         /\ Differences(x, j)[m] # 0
         /\ ProductOn(Negated(x), S) \in Scalars
         /\ ProductOn(Differences(x, j), S) \in Scalars
         /\ ProductOn(Differences(x, j), S) # 0
<1>1. IsFiniteSet(S)
  <2>1. IsFiniteSet(DOMAIN x)
    BY FS_Interval DEF DistinctPoints
  <2> QED
    BY <2>1, FS_Subset
<1>2. \A m \in DOMAIN x : x[m] \in Scalars
  BY ElementType DEF DistinctPoints
<1>3. \A m \in S : /\ Negated(x)[m] = Negate(x[m])
                   /\ Differences(x, j)[m] = Sub(x[j], x[m])
  BY DEF Negated, Differences
<1>4. \A m \in S : Negate(x[m]) \in Scalars /\ Sub(x[j], x[m]) \in Scalars
  BY <1>2, ScalarRules
<1>5. \A m \in S : Sub(x[j], x[m]) # 0
  <2>1. \A m \in S : x[j] # x[m]
    BY DEF DistinctPoints
  <2> QED
    BY <1>2, <2>1, SubZero
<1>6. \A m \in S : Negated(x)[m] \in Int /\ Differences(x, j)[m] \in Int
  BY <1>3, <1>4, ResiduesAreIntegers
<1>7. \A m \in S : Differences(x, j)[m] \in Scalars /\ Differences(x, j)[m] # 0
  BY <1>3, <1>4, <1>5
<1>8. ProductOn(Negated(x), S) \in Scalars
  BY <1>1, <1>6, ProductType
<1>9. ProductOn(Differences(x, j), S) \in Scalars /\ ProductOn(Differences(x, j), S) # 0
  BY <1>1, <1>7, ProductNonzero
<1> QED
  BY <1>1, <1>2, <1>3, <1>6, <1>7, <1>8, <1>9

LEMMA WeightType ==
  ASSUME NEW x, DistinctPoints(x), NEW S \in SUBSET DOMAIN x, NEW j \in DOMAIN x
  PROVE  Weight(x, S, j) \in Scalars
<1>1. CASE j \notin S
  BY <1>1, ResiduesAreIntegers DEF Weight
<1>2. CASE j \in S
  <2> DEFINE R == S \ {j}
             A == ProductOn(Negated(x), R)
             B == ProductOn(Differences(x, j), R)
  <2>1. R \in SUBSET DOMAIN x /\ j \notin R
    OBVIOUS
  <2>2. A \in Scalars /\ B \in Scalars /\ B # 0
    <3> HIDE DEF R
    <3> QED
      BY <2>1, WeightFactors
  <2>3. Weight(x, S, j) = Mul(A, InverseOf(B))
    BY <1>2 DEF Weight
  <2> HIDE DEF A, B
  <2> QED
    BY <2>2, <2>3, InverseExists, ScalarRules
<1> QED
  BY <1>1, <1>2

\* What one position more makes of a weight.
LEMMA WeightStep ==
  ASSUME NEW x, DistinctPoints(x), NEW S \in SUBSET DOMAIN x, NEW n \in S, NEW j \in S
  PROVE  Mul(Weight(x, S, j), Sub(x[j], x[n])) = Mul(Weight(x, S \ {n}, j), Negate(x[n]))
<1>1. x[j] \in Scalars /\ x[n] \in Scalars /\ j \in DOMAIN x /\ n \in DOMAIN x
  BY ElementType DEF DistinctPoints
<1>2. CASE j = n
  <2>1. Sub(x[j], x[n]) = 0 /\ Weight(x, S \ {n}, j) = 0
    BY <1>1, <1>2, SubZero DEF Weight
  <2>2. Weight(x, S, j) \in Scalars /\ Negate(x[n]) \in Scalars
    BY <1>1, WeightType, ScalarRules
  <2> QED
    BY <2>1, <2>2, ScalarRules
<1>3. CASE j # n
  <2> DEFINE U == S \ {j}
             R == U \ {n}
             A == ProductOn(Negated(x), R)
             B == ProductOn(Differences(x, j), R)
             a == Negate(x[n])
             d == Sub(x[j], x[n])
  <2>1. /\ U \in SUBSET DOMAIN x /\ R \in SUBSET DOMAIN x /\ j \notin U /\ j \notin R
        /\ n \in U /\ (S \ {n}) \ {j} = R /\ j \in S \ {n}
    BY <1>3
  <2> HIDE DEF U
  <2>2. /\ ProductOn(Negated(x), U) = Mul(A, a)
        /\ ProductOn(Differences(x, j), U) = Mul(B, d)
        /\ ProductOn(Differences(x, j), U) # 0
        /\ a \in Scalars /\ d \in Scalars
    <3>1. /\ IsFiniteSet(U) /\ \A m \in U : Negated(x)[m] \in Int /\ Differences(x, j)[m] \in Int
          /\ Negated(x)[n] = a /\ Differences(x, j)[n] = d
          /\ ProductOn(Differences(x, j), U) # 0
      BY <1>1, <2>1, WeightFactors
    <3>2. a \in Scalars /\ d \in Scalars
      BY <1>1, ScalarRules
    <3> QED
      BY <2>1, <3>1, <3>2, ProductStep
  <2>3. A \in Scalars /\ B \in Scalars /\ B # 0
    <3> HIDE DEF R
    <3> QED
      BY <1>1, <2>1, WeightFactors
  <2>4. /\ Weight(x, S, j) = Mul(Mul(A, a), InverseOf(Mul(B, d)))
        /\ Weight(x, S \ {n}, j) = Mul(A, InverseOf(B))
    BY <2>1, <2>2 DEF Weight, U
  <2> HIDE DEF R, A, B, a, d
  <2> DEFINE i == InverseOf(Mul(B, d))
  <2>5. Mul(B, d) \in Scalars /\ Mul(B, d) # 0
    BY <2>2, <2>3, ScalarRules
  <2>6. i \in Scalars /\ Mul(Mul(B, d), i) = 1
    BY <2>5, InverseExists
  <2> HIDE DEF i
  <2>7. Mul(d, i) = InverseOf(B)
    <3>1. Mul(d, i) \in Scalars
      BY <2>2, <2>6, ScalarRules
    <3>2. Mul(B, Mul(d, i)) = 1
      BY <2>2, <2>3, <2>6, ScalarTriple
    <3> QED
      BY <2>3, <3>1, <3>2, InverseUnique
  <2>8. Mul(Mul(Mul(A, a), i), d) = Mul(Mul(A, a), Mul(d, i))
    <3>1. Mul(A, a) \in Scalars
      BY <2>2, <2>3, ScalarRules
    <3>2. Mul(Mul(Mul(A, a), i), d) = Mul(Mul(A, a), Mul(i, d))
      BY <2>2, <2>6, <3>1, ScalarTriple
    <3> QED
      BY <2>2, <2>6, <3>2, ScalarRules
  <2>9. Mul(Mul(A, a), InverseOf(B)) = Mul(Mul(A, InverseOf(B)), a)
    <3>1. A \in Int /\ a \in Int /\ InverseOf(B) \in Int
      BY <2>2, <2>3, InverseExists, ResiduesAreIntegers
    <3> QED
      BY <3>1, RingMul
  <2> QED
    BY <2>4, <2>7, <2>8, <2>9 DEF i, a, d
<1> QED
  BY <1>2, <1>3

LEMMA MulSum ==
  ASSUME NEW a \in Scalars, NEW b \in Scalars, NEW c \in Scalars
  PROVE  Mul(a, Add(b, c)) = Add(Mul(a, b), Mul(a, c))
  BY ScalarTriple

\* Linear combinations of terms make the same combinations of sums.
Linear(p, a, q, b, r, c) ==
  /\ p \in Scalars /\ q \in Scalars /\ r \in Scalars
  /\ DOMAIN b = DOMAIN a /\ DOMAIN c = DOMAIN a
  /\ \A k \in DOMAIN a : Mul(p, a[k]) = Add(Mul(q, b[k]), Mul(r, c[k]))

LEMMA LinearSums ==
  ASSUME NEW a \in Seq(Scalars), NEW b \in Seq(Scalars), NEW c \in Seq(Scalars),
         NEW p, NEW q, NEW r, Linear(p, a, q, b, r, c)
  PROVE  Mul(p, SumOf(a)) = Add(Mul(q, SumOf(b)), Mul(r, SumOf(c)))
<1> DEFINE D == DOMAIN a
<1>1. /\ a \in Seq(Int) /\ b \in Seq(Int) /\ c \in Seq(Int)
      /\ \A k \in D : a[k] \in Scalars /\ b[k] \in Scalars /\ c[k] \in Scalars
  <2>1. Seq(Scalars) \subseteq Seq(Int)
    BY ResiduesAreIntegers
  <2>2. DOMAIN b = D /\ DOMAIN c = D
    BY DEF Linear
  <2> QED
    BY <2>1, <2>2, ElementType
<1>2. IsFiniteSet(D)
  BY FS_Interval
<1>3. PICK A : SumsOf(A, a)
  BY <1>1, PartialSums
<1>4. PICK B : SumsOf(B, b)
  BY <1>1, PartialSums
<1>5. PICK C : SumsOf(C, c)
  BY <1>1, PartialSums
<1> DEFINE T == [s \in SUBSET D |-> Mul(p, A[s])]
           U == [s \in SUBSET D |-> Add(Mul(q, B[s]), Mul(r, C[s]))]
<1>6. /\ \A s \in SUBSET D : A[s] \in Scalars /\ B[s] \in Scalars /\ C[s] \in Scalars
      /\ A[{}] = 0 /\ B[{}] = 0 /\ C[{}] = 0
      /\ \A s \in SUBSET D : \A k \in s : /\ A[s] = Add(A[s \ {k}], a[k])
                                          /\ B[s] = Add(B[s \ {k}], b[k])
                                          /\ C[s] = Add(C[s \ {k}], c[k])
      /\ SumOf(a) = A[D] /\ SumOf(b) = B[D] /\ SumOf(c) = C[D]
  BY <1>3, <1>4, <1>5 DEF SumsOf, Linear
<1>7. p \in Scalars /\ q \in Scalars /\ r \in Scalars
  BY DEF Linear
<1>8. ASSUME NEW s \in SUBSET D, NEW k \in s, T[s \ {k}] = U[s \ {k}] PROVE T[s] = U[s]
  <2> DEFINE o == s \ {k}
  <2>1. o \in SUBSET D /\ k \in D
    OBVIOUS
  <2>2. T[s] = Mul(p, A[s]) /\ T[o] = Mul(p, A[o])
        /\ U[s] = Add(Mul(q, B[s]), Mul(r, C[s])) /\ U[o] = Add(Mul(q, B[o]), Mul(r, C[o]))
    BY <2>1
  <2>3. A[s] = Add(A[o], a[k]) /\ B[s] = Add(B[o], b[k]) /\ C[s] = Add(C[o], c[k])
    BY <1>6
  <2>4. A[o] \in Scalars /\ B[o] \in Scalars /\ C[o] \in Scalars
        /\ a[k] \in Scalars /\ b[k] \in Scalars /\ c[k] \in Scalars
    BY <1>1, <1>6, <2>1
  <2>5. Mul(p, a[k]) = Add(Mul(q, b[k]), Mul(r, c[k]))
    BY <2>1 DEF Linear
  <2>6. Mul(p, A[o]) = Add(Mul(q, B[o]), Mul(r, C[o]))
    BY <1>8, <2>2
  <2> HIDE DEF T, U, o
  <2> DEFINE b0 == Mul(q, B[o])
             b1 == Mul(q, b[k])
             c0 == Mul(r, C[o])
             c1 == Mul(r, c[k])
  <2>7. b0 \in Scalars /\ b1 \in Scalars /\ c0 \in Scalars /\ c1 \in Scalars
    BY <1>7, <2>4, ScalarRules
  <2>8. /\ Mul(p, A[s]) = Add(Mul(p, A[o]), Mul(p, a[k]))
        /\ Mul(q, B[s]) = Add(b0, b1) /\ Mul(r, C[s]) = Add(c0, c1)
    <3>1. Mul(p, Add(A[o], a[k])) = Add(Mul(p, A[o]), Mul(p, a[k]))
      BY <1>7, <2>4, MulSum
    <3>2. Mul(q, Add(B[o], b[k])) = Add(b0, b1)
      BY <1>7, <2>4, MulSum
    <3>3. Mul(r, Add(C[o], c[k])) = Add(c0, c1)
      BY <1>7, <2>4, MulSum
    <3> QED
      BY <2>3, <3>1, <3>2, <3>3
  <2>9. Mul(p, A[s]) = Add(Add(b0, c0), Add(b1, c1))
    BY <2>5, <2>6, <2>8
  <2> HIDE DEF b0, b1, c0, c1
  <2>10. Add(Add(b0, c0), Add(b1, c1)) = Add(Add(b0, b1), Add(c0, c1))
    <3>1. Add(b1, c1) \in Scalars /\ Add(c0, c1) \in Scalars /\ Add(b0, c0) \in Scalars
      BY <2>7, ScalarRules
    <3>2. Add(Add(b0, c0), Add(b1, c1)) = Add(b0, Add(c0, Add(b1, c1)))
      BY <2>7, <3>1, ScalarTriple
    <3>3. Add(c0, Add(b1, c1)) = Add(b1, Add(c0, c1))
      <4>1. Add(c0, Add(b1, c1)) = Add(Add(c0, b1), c1)
        BY <2>7, ScalarTriple
      <4>2. Add(b1, Add(c0, c1)) = Add(Add(b1, c0), c1)
        BY <2>7, ScalarTriple
      <4>3. Add(c0, b1) = Add(b1, c0)
        BY <2>7, ScalarRules
      <4> QED
        BY <4>1, <4>2, <4>3
    <3>4. Add(b0, Add(b1, Add(c0, c1))) = Add(Add(b0, b1), Add(c0, c1))
      BY <2>7, <3>1, ScalarTriple
    <3> QED
      BY <3>2, <3>3, <3>4
  <2> QED
    BY <2>2, <2>8, <2>9, <2>10
<1>9. T[{}] = U[{}] /\ T[D] = Mul(p, SumOf(a)) /\ U[D] = Add(Mul(q, SumOf(b)), Mul(r, SumOf(c)))
  <2>1. Mul(p, 0) = 0 /\ Mul(q, 0) = 0 /\ Mul(r, 0) = 0 /\ Add(0, 0) = 0
    BY <1>7, ScalarRules, AddZero, ResiduesAreIntegers
  <2> QED
    BY <1>6, <2>1
<1> HIDE DEF T, U, D
<1>10. SameSteps(T, U, D)
  BY <1>8, <1>9 DEF SameSteps
<1>11. \A s \in SUBSET D : T[s] = U[s]
  BY <1>2, <1>10, StepsAgree
<1>12. T[D] = U[D]
  BY <1>11
<1> QED
  BY <1>9, <1>12

\* A sum with one summand other than zero is that summand.
LEMMA SumSingle ==
  ASSUME NEW a \in Seq(Scalars), NEW n \in DOMAIN a, \A k \in DOMAIN a \ {n} : a[k] = 0
  PROVE  SumOf(a) = a[n]
<1>1. a \in Seq(Int) /\ a[n] \in Scalars /\ a[n] \in Int
  <2>1. Seq(Scalars) \subseteq Seq(Int)
    BY ResiduesAreIntegers
  <2> QED
    BY <2>1, ElementType
<1>2. PICK T : SumsOf(T, a)
  BY <1>1, PartialSums
<1> DEFINE D == DOMAIN a \ {n}
           U == [s \in SUBSET D |-> 0]
<1>3. IsFiniteSet(D)
  <2>1. IsFiniteSet(DOMAIN a)
    BY FS_Interval
  <2> QED
    BY <2>1, FS_Subset
<1>4. ASSUME NEW s \in SUBSET D, NEW k \in s, T[s \ {k}] = U[s \ {k}] PROVE T[s] = U[s]
  <2>1. U[s \ {k}] = 0 /\ U[s] = 0 /\ a[k] = 0
    OBVIOUS
  <2>2. T[s] = Add(T[s \ {k}], a[k])
    BY <1>2 DEF SumsOf
  <2> QED
    BY <1>4, <2>1, <2>2, AddZero, ResiduesAreIntegers
<1>5. T[{}] = U[{}] /\ U[D] = 0
  BY <1>2 DEF SumsOf
<1> HIDE DEF U
<1>6. T[D] = 0
  <2> HIDE DEF D
  <2>1. SameSteps(T, U, D)
    BY <1>4, <1>5 DEF SameSteps
  <2>2. \A s \in SUBSET D : T[s] = U[s]
    BY <1>3, <2>1, StepsAgree
  <2> QED
    BY <1>5, <2>2
<1>7. SumOf(a) = Add(T[D], a[n])
  <2>1. DOMAIN a \in SUBSET DOMAIN a /\ n \in DOMAIN a
    OBVIOUS
  <2> QED
    BY <1>2, <2>1 DEF SumsOf
<1> QED
  BY <1>1, <1>6, <1>7, AddZero

\* The first coefficient is added last.
LEMMA EvaluateCons ==
  ASSUME NEW c \in Seq(Int), c # <<>>, NEW x \in Int
  PROVE  /\ Evaluate(c, x) = Add(Mul(Evaluate(Tail(c), x), x), c[1])
         /\ Tail(c) \in Seq(Int) /\ Len(c) = Len(Tail(c)) + 1 /\ c[1] \in Int
<1> DEFINE t == Tail(c)
           n == Len(t)
<1>1. /\ t \in Seq(Int) /\ n \in Nat /\ Len(c) = n + 1 /\ c[1] \in Int
      /\ \A k \in 1 .. n : t[k] = c[k + 1]
  OBVIOUS
<1> HIDE DEF t, n
<1>2. PICK u : HornerSteps(u, c, x)
  BY EvaluateHorner
<1>3. PICK v : HornerSteps(v, t, x)
  BY <1>1, EvaluateHorner
<1>4. /\ u[n + 2] = 0 /\ v[n + 1] = 0
      /\ \A k \in 1 .. (n + 1) : u[k] = Add(Mul(u[k + 1], x), c[k])
      /\ \A k \in 1 .. n : v[k] = Add(Mul(v[k + 1], x), t[k])
      /\ Evaluate(c, x) = u[1] /\ Evaluate(t, x) = v[1]
  <2>1. Len(c) + 1 = n + 2 /\ Len(t) = n
    BY <1>1 DEF n
  <2> QED
    BY <1>1, <1>2, <1>3, <2>1 DEF HornerSteps
<1> DEFINE N == {i \in Nat : i <= n => u[n + 2 - i] = v[n + 1 - i]}
<1>5. 0 \in N
  BY <1>1, <1>4
<1>6. ASSUME NEW i \in N PROVE i + 1 \in N
  <2> SUFFICES ASSUME i + 1 <= n PROVE u[n + 2 - (i + 1)] = v[n + 1 - (i + 1)]
    OBVIOUS
  <2> DEFINE k == n - i
  <2>1. /\ k \in 1 .. n /\ k + 1 \in 1 .. (n + 1) /\ n + 2 - (i + 1) = k + 1
        /\ n + 1 - (i + 1) = k /\ n + 2 - i = (k + 1) + 1 /\ n + 1 - i = k + 1 /\ i <= n
    BY <1>1
  <2>2. u[(k + 1) + 1] = v[k + 1]
    BY <2>1
  <2> HIDE DEF k
  <2>3. u[k + 1] = Add(Mul(u[(k + 1) + 1], x), c[k + 1]) /\ v[k] = Add(Mul(v[k + 1], x), t[k])
    BY <1>4, <2>1
  <2> QED
    BY <1>1, <2>1, <2>2, <2>3
<1>7. n \in N
  <2>1. N \in SUBSET Nat
    OBVIOUS
  <2> HIDE DEF N
  <2>2. Nat \subseteq N
    BY <1>5, <1>6, <2>1, Induct
  <2> QED
    BY <1>1, <2>2
<1>8. u[2] = v[1]
  <2>1. n + 2 - n = 2 /\ n + 1 - n = 1 /\ n <= n
    BY <1>1
  <2> QED
    BY <1>7, <2>1
<1>9. u[1] = Add(Mul(u[1 + 1], x), c[1])
  BY <1>1, <1>4
<1> QED
  BY <1>1, <1>4, <1>8, <1>9 DEF t, n

LEMMA EvaluateEmpty ==
  ASSUME NEW x \in Int
  PROVE  Evaluate(<<>>, x) = 0
<1>1. <<>> \in Seq(Int) /\ Len(<<>>) + 1 = 1
  OBVIOUS
<1>2. PICK u : HornerSteps(u, <<>>, x)
  BY <1>1, EvaluateHorner
<1> QED
  BY <1>1, <1>2 DEF HornerSteps

Weights(x, S) == [j \in DOMAIN x |-> Weight(x, S, j)]

LEMMA WeightsType ==
  ASSUME NEW x, DistinctPoints(x), NEW S \in SUBSET DOMAIN x
  PROVE  /\ Weights(x, S) \in Seq(Scalars) /\ DOMAIN Weights(x, S) = DOMAIN x
         /\ \A j \in DOMAIN x : /\ Weights(x, S)[j] = Weight(x, S, j)
                                /\ Weight(x, S, j) \in Scalars /\ x[j] \in Scalars
                                /\ j \notin S => Weight(x, S, j) = 0
<1>1. \A j \in DOMAIN x : Weight(x, S, j) \in Scalars
  BY WeightType
<1>2. \A j \in DOMAIN x : x[j] \in Scalars /\ (j \notin S => Weight(x, S, j) = 0)
  BY ElementType DEF DistinctPoints, Weight
<1>3. Len(x) \in Nat /\ DOMAIN x = 1 .. Len(x)
  BY DEF DistinctPoints
<1>4. Weights(x, S) \in Seq(Scalars) /\ DOMAIN Weights(x, S) = DOMAIN x
      /\ \A j \in DOMAIN x : Weights(x, S)[j] = Weight(x, S, j)
  BY <1>1, <1>3 DEF Weights
<1> QED
  BY <1>1, <1>2, <1>4

\* What one position more makes of the weights, of every position.
LEMMA WeightsStep ==
  ASSUME NEW x, DistinctPoints(x), NEW S \in SUBSET DOMAIN x, NEW n \in S, NEW j \in DOMAIN x
  PROVE  Mul(Weight(x, S, j), Sub(x[j], x[n])) = Mul(Weight(x, S \ {n}, j), Negate(x[n]))
<1>1. CASE j \in S
  BY <1>1, WeightStep
<1>2. CASE j \notin S
  <2>1. Weight(x, S, j) = 0 /\ Weight(x, S \ {n}, j) = 0
    BY <1>2 DEF Weight
  <2>2. x[j] \in Scalars /\ x[n] \in Scalars
    BY WeightsType
  <2>3. Sub(x[j], x[n]) \in Scalars /\ Negate(x[n]) \in Scalars
    BY <2>2, ScalarRules
  <2> QED
    BY <2>1, <2>3, ScalarRules
<1> QED
  BY <1>1, <1>2

\* Two ways round a triangle of points.
LEMMA Triangle ==
  ASSUME NEW a \in Scalars, NEW b \in Scalars, NEW j \in Scalars
  PROVE  Sub(j, a) = Add(Sub(b, a), Sub(j, b))
<1>1. Sub(j, a) \in Scalars /\ Sub(j, b) \in Scalars /\ Sub(b, a) \in Scalars
  BY ScalarRules
<1>2. Sub(b, a) = Sub(Sub(j, a), Sub(j, b))
  BY SubSub
<1>3. Add(Sub(j, b), Sub(b, a)) = Sub(j, a)
  BY <1>1, <1>2, SubZero
<1> QED
  BY <1>1, <1>3, ScalarRules

LEMMA TriangleAtZero ==
  ASSUME NEW a \in Scalars, NEW b \in Scalars
  PROVE  Negate(a) = Add(Sub(b, a), Negate(b))
<1>1. 0 \in Scalars /\ Sub(0, a) = Negate(a) /\ Sub(0, b) = Negate(b)
  <2>1. 0 - a = -a /\ 0 - b = -b
    BY ResiduesAreIntegers
  <2> QED
    BY <2>1, ResiduesAreIntegers DEF Sub, Negate
<1>2. Sub(0, a) = Add(Sub(b, a), Sub(0, b))
  BY <1>1, Triangle
<1> QED
  BY <1>1, <1>2

LEMMA AddCancel ==
  ASSUME NEW a \in Scalars, NEW b \in Scalars, NEW c \in Scalars, Add(a, c) = Add(b, c)
  PROVE  a = b
  BY PointCancel, ResiduesAreIntegers DEF PointAdd, Add

\* The weights of one position or more add up to one.
LEMMA WeightsSumToOne ==
  ASSUME NEW x, DistinctPoints(x), NEW S \in SUBSET DOMAIN x, S # {}
  PROVE  SumOf(Weights(x, S)) = 1
<1> DEFINE D == DOMAIN x
           G == {s \in SUBSET D : s # {} => SumOf(Weights(x, s)) = 1}
<1>1. {} \in G /\ IsFiniteSet(D)
  <2>1. IsFiniteSet(D)
    BY FS_Interval DEF DistinctPoints
  <2> QED
    BY <2>1
<1>2. ASSUME NEW s \in SUBSET D, s # {}, \A k \in s : s \ {k} \in G
      PROVE  SumOf(Weights(x, s)) = 1
  <2>1. PICK a : a \in s
    BY <1>2
  <2>2. CASE s = {a}
    <3>1. Weight(x, s, a) = 1
      <4>1. s \ {a} = {} /\ Mul(1, 1) = 1 /\ 1 \in Scalars
        BY <2>2, ScalarRules, ResiduesAreIntegers
      <4>2. InverseOf(1) = 1
        BY <4>1, InverseUnique
      <4> QED
        BY <2>1, <4>1, <4>2, ProductEmpty DEF Weight
    <3>2. /\ Weights(x, s) \in Seq(Scalars) /\ a \in DOMAIN Weights(x, s)
          /\ Weights(x, s)[a] = 1
          /\ \A k \in DOMAIN Weights(x, s) \ {a} : Weights(x, s)[k] = 0
      BY <2>1, <2>2, <3>1, WeightsType
    <3> QED
      BY <3>2, SumSingle
  <2>3. CASE s # {a}
    <3>1. PICK e : e \in s /\ e # a
      BY <2>1, <2>3
    <3> DEFINE A == Weights(x, s \ {a})
               B == Weights(x, s \ {e})
               W == Weights(x, s)
               d == Sub(x[e], x[a])
               na == Negate(x[a])
               ne == Negate(x[e])
    <3>2. SumOf(A) = 1 /\ SumOf(B) = 1
      BY <1>2, <2>1, <3>1
    <3>3. x[a] \in Scalars /\ x[e] \in Scalars /\ x[a] # x[e]
      BY <2>1, <3>1, WeightsType DEF DistinctPoints
    <3>4. d \in Scalars /\ na \in Scalars /\ ne \in Scalars /\ d # 0 /\ na = Add(d, ne)
      <4>1. d \in Scalars /\ na \in Scalars /\ ne \in Scalars
        BY <3>3, ScalarRules
      <4>2. d # 0
        BY <3>3, SubZero
      <4>3. na = Add(d, ne)
        BY <3>3, TriangleAtZero
      <4> QED
        BY <4>1, <4>2, <4>3
    <3>5. /\ A \in Seq(Scalars) /\ B \in Seq(Scalars) /\ W \in Seq(Scalars)
          /\ DOMAIN A = D /\ DOMAIN B = D /\ DOMAIN W = D
      BY WeightsType
    <3>6. ASSUME NEW j \in D PROVE Mul(na, A[j]) = Add(Mul(d, W[j]), Mul(ne, B[j]))
      <4> DEFINE w == Weight(x, s, j)
                 wa == Weight(x, s \ {a}, j)
                 we == Weight(x, s \ {e}, j)
                 ja == Sub(x[j], x[a])
                 je == Sub(x[j], x[e])
      <4>1. /\ A[j] = wa /\ B[j] = we /\ W[j] = w /\ x[j] \in Scalars
            /\ wa \in Scalars /\ we \in Scalars /\ w \in Scalars
        BY WeightsType
      <4>2. Mul(w, ja) = Mul(wa, na) /\ Mul(w, je) = Mul(we, ne)
        BY <2>1, <3>1, WeightsStep
      <4>3. ja \in Scalars /\ je \in Scalars /\ ja = Add(d, je)
        <5>1. ja \in Scalars /\ je \in Scalars
          BY <3>3, <4>1, ScalarRules
        <5>2. ja = Add(d, je)
          BY <3>3, <4>1, Triangle
        <5> QED
          BY <5>1, <5>2
      <4> HIDE DEF w, wa, we, ja, je, d, na, ne, A, B, W
      <4>4. Mul(w, ja) = Add(Mul(w, d), Mul(w, je))
        BY <3>4, <4>1, <4>3, MulSum
      <4>5. Mul(na, wa) = Mul(wa, na) /\ Mul(ne, we) = Mul(we, ne) /\ Mul(d, w) = Mul(w, d)
        BY <3>4, <4>1, ScalarRules
      <4> QED
        BY <4>1, <4>2, <4>4, <4>5
    <3> HIDE DEF A, B, W, d, na, ne
    <3>7. Linear(na, A, d, W, ne, B)
      BY <3>4, <3>5, <3>6 DEF Linear
    <3>8. Mul(na, SumOf(A)) = Add(Mul(d, SumOf(W)), Mul(ne, SumOf(B)))
      BY <3>5, <3>7, LinearSums
    <3>9. SumOf(W) \in Scalars /\ Mul(na, 1) = na /\ Mul(ne, 1) = ne /\ 1 \in Scalars
          /\ Mul(d, 1) = d /\ Mul(1, d) = d
      <4>1. W \in Seq(Int)
        BY <3>5, ResiduesAreIntegers
      <4> QED
        BY <3>4, <4>1, SumType, ScalarRules, ResiduesAreIntegers
    <3>10. Add(Mul(d, SumOf(W)), ne) = Add(d, ne)
      BY <3>2, <3>4, <3>8, <3>9
    <3>11. Mul(d, SumOf(W)) \in Scalars /\ Mul(d, SumOf(W)) = Mul(SumOf(W), d)
      BY <3>4, <3>9, ScalarRules
    <3>12. Mul(SumOf(W), d) = Mul(1, d)
      BY <3>4, <3>9, <3>10, <3>11, AddCancel
    <3>13. SumOf(W) = 1
      BY <3>4, <3>9, <3>12, MulCancel, ResiduesAreIntegers
    <3> QED
      BY <3>13 DEF W
  <2> QED
    BY <2>2, <2>3
<1>3. \A s \in SUBSET D : s \in G
  <2>1. G \in SUBSET SUBSET D
    OBVIOUS
  <2>2. \A s \in SUBSET D : s # {} /\ (\A k \in s : s \ {k} \in G) => s \in G
    BY <1>2
  <2> HIDE DEF G, D
  <2> QED
    BY <1>1, <2>1, <2>2, SetInduct
<1> QED
  BY <1>3

\* The terms of the interpolation at zero of the values that f takes at the points.
Weighted(f, x, S) == [j \in DOMAIN x |-> Mul(f[j], Weight(x, S, j))]

\* The values of a polynomial at the points.
ValuesAt(c, x) == [j \in DOMAIN x |-> Evaluate(c, x[j])]

LEMMA WeightedType ==
  ASSUME NEW x, DistinctPoints(x), NEW S \in SUBSET DOMAIN x, NEW f,
         \A j \in DOMAIN x : f[j] \in Scalars
  PROVE  /\ Weighted(f, x, S) \in Seq(Scalars) /\ DOMAIN Weighted(f, x, S) = DOMAIN x
         /\ \A j \in DOMAIN x : Weighted(f, x, S)[j] = Mul(f[j], Weight(x, S, j))
         /\ SumOf(Weighted(f, x, S)) \in Scalars
<1>1. \A j \in DOMAIN x : Mul(f[j], Weight(x, S, j)) \in Scalars
  BY WeightType, ScalarRules
<1>2. Len(x) \in Nat /\ DOMAIN x = 1 .. Len(x)
  BY DEF DistinctPoints
<1>3. /\ Weighted(f, x, S) \in Seq(Scalars) /\ DOMAIN Weighted(f, x, S) = DOMAIN x
      /\ \A j \in DOMAIN x : Weighted(f, x, S)[j] = Mul(f[j], Weight(x, S, j))
  BY <1>1, <1>2 DEF Weighted
<1>4. Seq(Scalars) \subseteq Seq(Int)
  BY ResiduesAreIntegers
<1> QED
  BY <1>3, <1>4, SumType

LEMMA ValuesType ==
  ASSUME NEW c \in Seq(Int), NEW x, DistinctPoints(x)
  PROVE  \A j \in DOMAIN x : /\ x[j] \in Scalars /\ x[j] \in Int
                             /\ ValuesAt(c, x)[j] = Evaluate(c, x[j])
                             /\ ValuesAt(c, x)[j] \in Scalars
<1>1. \A j \in DOMAIN x : x[j] \in Scalars
  BY ElementType DEF DistinctPoints
<1>2. \A j \in DOMAIN x : x[j] \in Int
  BY <1>1, ResiduesAreIntegers
<1> QED
  BY <1>1, <1>2, EvaluateType DEF ValuesAt

\* One coefficient more.
LEMMA InterpolationStep ==
  ASSUME NEW x, DistinctPoints(x), NEW S \in SUBSET DOMAIN x, NEW n \in S,
         NEW c \in Seq(Int), c # <<>>, NEW v \in Scalars,
         SumOf(Weighted(ValuesAt(Tail(c), x), x, S)) = v,
         SumOf(Weighted(ValuesAt(Tail(c), x), x, S \ {n})) = v
  PROVE  SumOf(Weighted(ValuesAt(c, x), x, S)) = c[1] % P
<1> DEFINE D == DOMAIN x
           t == Tail(c)
           f == ValuesAt(c, x)
           g == ValuesAt(t, x)
           A == Weighted(f, x, S)
           B == Weighted(g, x, S)
           C == Weighted(g, x, S \ {n})
           W == Weights(x, S)
           xn == x[n]
           nn == Negate(xn)
           k1 == c[1] % P
<1>1. t \in Seq(Int) /\ c[1] \in Int /\ S \ {n} \in SUBSET D
  BY EvaluateCons, ResiduesAreIntegers
<1>2. \A j \in D : /\ x[j] \in Scalars /\ x[j] \in Int
                  /\ f[j] = Evaluate(c, x[j]) /\ f[j] \in Scalars
                   /\ g[j] = Evaluate(t, x[j]) /\ g[j] \in Scalars
  BY <1>1, ValuesType
<1>3. xn \in Scalars /\ nn \in Scalars /\ k1 \in Scalars
  BY <1>1, <1>2, ScalarRules, Remainder, ResiduesAreIntegers
<1>4. \A j \in D : f[j] = Add(Mul(g[j], x[j]), k1)
  <2> SUFFICES ASSUME NEW j \in D PROVE f[j] = Add(Mul(g[j], x[j]), k1)
    OBVIOUS
  <2> DEFINE m == Mul(g[j], x[j])
  <2>1. m \in Int
    BY <1>2, ScalarRules, ResiduesAreIntegers
  <2>2. f[j] = Add(m, c[1])
    BY <1>2, EvaluateCons
  <2> HIDE DEF m
  <2>3. Add(m, c[1]) = Add(m, k1)
    BY <1>1, <2>1, SumModP DEF Add
  <2> QED
    BY <2>2, <2>3 DEF m
<1> HIDE DEF f, g, t, k1, nn, xn
\* E = xn * B + k1 * W, and A = E + nn * C.
<1> DEFINE E == [j \in D |-> Add(Mul(xn, B[j]), Mul(k1, W[j]))]
<1>5. /\ A \in Seq(Scalars) /\ B \in Seq(Scalars) /\ C \in Seq(Scalars) /\ W \in Seq(Scalars)
      /\ DOMAIN A = D /\ DOMAIN B = D /\ DOMAIN C = D /\ DOMAIN W = D
      /\ \A j \in D : /\ A[j] = Mul(f[j], Weight(x, S, j)) /\ B[j] = Mul(g[j], Weight(x, S, j))
                      /\ C[j] = Mul(g[j], Weight(x, S \ {n}, j)) /\ W[j] = Weight(x, S, j)
                      /\ Weight(x, S, j) \in Scalars /\ Weight(x, S \ {n}, j) \in Scalars
                      /\ Mul(Weight(x, S, j), Sub(x[j], xn)) = Mul(Weight(x, S \ {n}, j), nn)
  <2>1. /\ A \in Seq(Scalars) /\ DOMAIN A = D
        /\ \A j \in D : A[j] = Mul(f[j], Weight(x, S, j))
    BY <1>2, WeightedType
  <2>2. /\ B \in Seq(Scalars) /\ DOMAIN B = D
        /\ \A j \in D : B[j] = Mul(g[j], Weight(x, S, j))
    BY <1>2, WeightedType
  <2>3. /\ C \in Seq(Scalars) /\ DOMAIN C = D
        /\ \A j \in D : C[j] = Mul(g[j], Weight(x, S \ {n}, j))
    BY <1>1, <1>2, WeightedType
  <2>4. /\ W \in Seq(Scalars) /\ DOMAIN W = D
        /\ \A j \in D : W[j] = Weight(x, S, j) /\ Weight(x, S, j) \in Scalars
    BY WeightsType
  <2>5. \A j \in D : Weight(x, S \ {n}, j) \in Scalars
    BY <1>1, WeightsType
  <2>6. \A j \in D : Mul(Weight(x, S, j), Sub(x[j], xn)) = Mul(Weight(x, S \ {n}, j), nn)
    BY WeightsStep DEF xn, nn
  <2> HIDE DEF A, B, C, W
  <2> QED
    BY <2>1, <2>2, <2>3, <2>4, <2>5, <2>6
<1> HIDE DEF A, B, C, W
<1>6. E \in Seq(Scalars) /\ DOMAIN E = D
  <2>1. \A j \in D : B[j] \in Scalars /\ W[j] \in Scalars
    BY <1>5, ElementType
  <2>2. \A j \in D : Mul(xn, B[j]) \in Scalars /\ Mul(k1, W[j]) \in Scalars
    BY <1>3, <2>1, ScalarRules
  <2>3. \A j \in D : Add(Mul(xn, B[j]), Mul(k1, W[j])) \in Scalars
    BY <2>2, ScalarRules
  <2>4. Len(x) \in Nat /\ D = 1 .. Len(x)
    BY DEF DistinctPoints
  <2> HIDE DEF D
  <2> QED
    BY <2>3, <2>4
<1>7. \A j \in D : E[j] = Add(Mul(xn, B[j]), Mul(k1, W[j])) /\ E[j] \in Scalars
  BY <1>6, ElementType
<1> HIDE DEF E
<1>8. ASSUME NEW j \in D PROVE A[j] = Add(E[j], Mul(nn, C[j]))
  <2> DEFINE w == Weight(x, S, j)
             wn == Weight(x, S \ {n}, j)
             d == Sub(x[j], xn)
             gj == g[j]
             wx == Mul(w, xn)
  <2>1. /\ w \in Scalars /\ wn \in Scalars /\ gj \in Scalars /\ x[j] \in Scalars
        /\ A[j] = Mul(f[j], w) /\ B[j] = Mul(gj, w) /\ C[j] = Mul(gj, wn) /\ W[j] = w
        /\ Mul(w, d) = Mul(wn, nn) /\ f[j] = Add(Mul(gj, x[j]), k1)
        /\ E[j] = Add(Mul(xn, B[j]), Mul(k1, w))
    BY <1>2, <1>4, <1>5, <1>7
  <2>2. d \in Scalars /\ Add(xn, d) = x[j]
    BY <1>3, <2>1, ScalarRules, SubZero
  <2> HIDE DEF w, wn, d, gj
  <2>3. /\ w \in Int /\ wn \in Int /\ gj \in Int /\ x[j] \in Int
        /\ k1 \in Int /\ nn \in Int /\ xn \in Int
        /\ wx \in Scalars /\ Mul(wn, nn) \in Scalars
    BY <1>3, <2>1, ScalarRules, ResiduesAreIntegers
  <2>4. Mul(gj, x[j]) \in Scalars /\ Mul(gj, xn) \in Scalars /\ Mul(gj, d) \in Scalars
    BY <1>3, <2>1, <2>2, ScalarRules
  <2>5. A[j] = Add(Mul(Mul(gj, x[j]), w), Mul(k1, w))
    BY <1>3, <2>1, <2>4, ScalarTriple
  <2>6. Mul(gj, x[j]) = Add(Mul(gj, xn), Mul(gj, d))
    BY <1>3, <2>1, <2>2, MulSum
  <2>7. Mul(Mul(gj, x[j]), w) = Add(Mul(Mul(gj, xn), w), Mul(Mul(gj, d), w))
    BY <2>1, <2>4, <2>6, ScalarTriple
  <2> DEFINE bj == Mul(gj, w)
             cj == Mul(gj, wn)
             p == Mul(xn, bj)
             q == Mul(nn, cj)
             r == Mul(k1, w)
  <2>8. bj \in Scalars /\ cj \in Scalars /\ bj \in Int /\ d \in Int
    BY <2>1, <2>2, ScalarRules, ResiduesAreIntegers
  <2>9. Mul(Mul(gj, xn), w) = p
    <3>1. Mul(Mul(gj, xn), w) = Mul(bj, xn)
      BY <2>3, RingMul
    <3> HIDE DEF bj
    <3> QED
      BY <1>3, <2>8, <3>1, ScalarRules
  <2>10. Mul(Mul(gj, d), w) = q
    <3>1. Mul(Mul(gj, d), w) = Mul(bj, d) /\ Mul(bj, d) = Mul(gj, Mul(w, d))
      BY <2>3, <2>8, RingMul
    <3>2. Mul(gj, Mul(wn, nn)) = Mul(cj, nn)
      BY <1>3, <2>1, ScalarTriple
    <3> HIDE DEF cj
    <3>3. Mul(cj, nn) = Mul(nn, cj)
      BY <1>3, <2>8, ScalarRules
    <3> QED
      BY <2>1, <3>1, <3>2, <3>3
  <2>11. A[j] = Add(Add(p, q), r) /\ E[j] = Add(p, r) /\ Mul(nn, C[j]) = q
    BY <2>1, <2>5, <2>7, <2>9, <2>10
  <2>12. p \in Int /\ q \in Int /\ r \in Int
    <3> HIDE DEF bj, cj
    <3> QED
      BY <1>3, <2>1, <2>8, ScalarRules, ResiduesAreIntegers
  <2> HIDE DEF p, q, r
  <2>13. Add(Add(p, q), r) = Add(Add(p, r), q)
    BY <2>12, RingAdd
  <2> QED
    BY <2>11, <2>13
<1>9. SumOf(E) = Add(Mul(xn, v), Mul(k1, 1))
  <2>1. Linear(1, E, xn, B, k1, W)
    <3>1. \A j \in D : Mul(1, E[j]) = E[j]
      BY <1>7, ScalarRules
    <3> QED
      BY <1>3, <1>5, <1>6, <1>7, <3>1, ResiduesAreIntegers DEF Linear
  <2>2. Mul(1, SumOf(E)) = Add(Mul(xn, SumOf(B)), Mul(k1, SumOf(W)))
    BY <1>5, <1>6, <2>1, LinearSums
  <2>3. SumOf(E) \in Scalars
    BY <1>6, SumType, ResiduesAreIntegers
  <2>4. SumOf(B) = v /\ SumOf(W) = 1
    BY WeightsSumToOne DEF B, W, g, t
  <2> QED
    BY <2>2, <2>3, <2>4, ScalarRules
<1>10. SumOf(A) = Add(SumOf(E), Mul(nn, v))
  <2>1. Linear(1, A, 1, E, nn, C)
    <3>1. \A j \in D : Mul(1, E[j]) = E[j] /\ Mul(1, A[j]) = A[j]
      BY <1>5, <1>7, ElementType, ScalarRules
    <3> QED
      BY <1>3, <1>5, <1>6, <1>8, <3>1, ResiduesAreIntegers DEF Linear
  <2>2. Mul(1, SumOf(A)) = Add(Mul(1, SumOf(E)), Mul(nn, SumOf(C)))
    BY <1>5, <1>6, <2>1, LinearSums
  <2>3. SumOf(E) \in Scalars /\ SumOf(A) \in Scalars
    <3>1. A \in Seq(Int) /\ E \in Seq(Int)
      <4>1. Seq(Scalars) \subseteq Seq(Int)
        BY ResiduesAreIntegers
      <4> QED
        BY <1>5, <1>6, <4>1
    <3> QED
      BY <3>1, SumType
  <2>4. SumOf(C) = v
    BY DEF C, g, t
  <2> QED
    BY <2>2, <2>3, <2>4, ScalarRules
<1>11. SumOf(A) = k1
  <2> DEFINE p == Mul(xn, v)
             q == Mul(nn, v)
  <2>1. p \in Scalars /\ q \in Scalars /\ Mul(k1, 1) = k1 /\ p \in Int /\ q \in Int /\ k1 \in Int
    BY <1>3, ScalarRules, ResiduesAreIntegers
  <2>2. SumOf(A) = Add(Add(p, k1), q)
    BY <1>9, <1>10, <2>1
  <2>3. Add(p, q) = 0
    <3>1. Add(xn, nn) = 0
      BY <1>3, SubZero DEF nn
    <3>2. Mul(Add(xn, nn), v) = Add(p, q)
      BY <1>3, ScalarTriple
    <3> QED
      BY <3>1, <3>2, ScalarRules
  <2> HIDE DEF p, q
  <2>4. Add(Add(p, k1), q) = Add(Add(p, q), k1)
    BY <2>1, RingAdd
  <2> QED
    BY <1>3, <2>2, <2>3, <2>4, AddZero
<1> QED
  BY <1>11 DEF A, f, k1

LEMMA EvaluateAtZero ==
  ASSUME NEW c \in Seq(Int), c # <<>>
  PROVE  Evaluate(c, 0) = c[1] % P
<1> DEFINE e == Evaluate(Tail(c), 0)
<1>1. 0 \in Int /\ Tail(c) \in Seq(Int) /\ c[1] \in Int
  BY EvaluateCons
<1>2. Evaluate(c, 0) = Add(Mul(e, 0), c[1]) /\ e \in Scalars
  BY <1>1, EvaluateCons, EvaluateType
<1> HIDE DEF e
<1>3. Mul(e, 0) = 0
  BY <1>2, ScalarRules, ResiduesAreIntegers
<1>4. 0 + c[1] = c[1]
  BY <1>1
<1> QED
  BY <1>2, <1>3, <1>4 DEF Add

\* As many points as coefficients determine the value of the polynomial at zero.
LEMMA Interpolation ==
  ASSUME NEW x, DistinctPoints(x), NEW S \in SUBSET DOMAIN x,
         NEW c \in Seq(Int), Len(c) <= Cardinality(S)
  PROVE  SumOf(Weighted(ValuesAt(c, x), x, S)) = Evaluate(c, 0)
<1> DEFINE D == DOMAIN x
           Fits(p, s) == SumOf(Weighted(ValuesAt(p, x), x, s)) = Evaluate(p, 0)
           N == {m \in Nat : \A p \in Seq(Int) : \A s \in SUBSET D :
                               Len(p) = m /\ m <= Cardinality(s) => Fits(p, s)}
<1>1. IsFiniteSet(D)
  BY FS_Interval DEF DistinctPoints
<1>2. 0 \in N
  <2> SUFFICES ASSUME NEW p \in Seq(Int), NEW s \in SUBSET D, Len(p) = 0 PROVE Fits(p, s)
    BY DEF N
  <2>1. p = <<>>
    OBVIOUS
  <2> DEFINE w == Weighted(ValuesAt(p, x), x, s)
  <2>2. \A j \in D : ValuesAt(p, x)[j] = 0 /\ ValuesAt(p, x)[j] \in Scalars
    <3>1. \A j \in D : /\ x[j] \in Int /\ ValuesAt(p, x)[j] = Evaluate(p, x[j])
                       /\ ValuesAt(p, x)[j] \in Scalars
      BY ValuesType
    <3>2. \A j \in D : Evaluate(p, x[j]) = 0
      BY <2>1, <3>1, EvaluateEmpty
    <3> QED
      BY <3>1, <3>2
  <2>3. w \in Seq(Scalars) /\ DOMAIN w = D
        /\ \A j \in D : w[j] = Mul(ValuesAt(p, x)[j], Weight(x, s, j))
    BY <2>2, WeightedType
  <2>4. \A j \in D : Weight(x, s, j) \in Scalars
    BY WeightType
  <2> HIDE DEF w
  <2>5. \A j \in DOMAIN w : w[j] = 0
    BY <2>2, <2>3, <2>4, ScalarRules
  <2>6. SumOf(w) = 0
    <3>1. CASE D = {}
      <4>1. w = <<>>
        BY <2>3, <3>1
      <4> QED
        BY <4>1, SumEmpty
    <3>2. CASE D # {}
      <4>1. PICK n : n \in DOMAIN w
        BY <2>3, <3>2
      <4> QED
        BY <2>3, <2>5, <4>1, SumSingle
    <3> QED
      BY <3>1, <3>2
  <2>7. Evaluate(p, 0) = 0
    BY <2>1, EvaluateEmpty
  <2> QED
    BY <2>6, <2>7 DEF w
<1>3. ASSUME NEW m \in N PROVE m + 1 \in N
  <2> SUFFICES ASSUME NEW p \in Seq(Int), NEW s \in SUBSET D,
                      Len(p) = m + 1, m + 1 <= Cardinality(s)
               PROVE  Fits(p, s)
    BY DEF N
  <2>1. p # <<>> /\ m \in Nat
    OBVIOUS
  <2>2. Tail(p) \in Seq(Int) /\ Len(Tail(p)) = m
    BY <2>1, EvaluateCons, ResiduesAreIntegers
  <2>3. PICK n : n \in s
    BY <1>1, <2>1, EmptyCardinality
  <2>4. s \ {n} \in SUBSET D /\ m <= Cardinality(s \ {n}) /\ m <= Cardinality(s)
    <3>1. /\ s \ {n} \in SUBSET D /\ Cardinality(s) \in Nat
          /\ Cardinality(s \ {n}) = Cardinality(s) - 1
      BY <1>1, <2>3, OneLess
    <3> QED
      BY <2>1, <3>1
  <2>5. Fits(Tail(p), s) /\ Fits(Tail(p), s \ {n})
    BY <2>2, <2>4 DEF N
  <2>6. Evaluate(Tail(p), 0) \in Scalars
    <3>1. 0 \in Int
      OBVIOUS
    <3> QED
      BY <2>2, <3>1, EvaluateType
  <2>7. SumOf(Weighted(ValuesAt(p, x), x, s)) = p[1] % P
    BY <2>1, <2>3, <2>5, <2>6, InterpolationStep
  <2> QED
    BY <2>1, <2>7, EvaluateAtZero
<1>4. Nat \subseteq N
  <2>1. N \in SUBSET Nat
    OBVIOUS
  <2> HIDE DEF N
  <2> QED
    BY <1>2, <1>3, <2>1, Induct
<1>5. Len(c) \in N
  BY <1>4
<1> QED
  BY <1>5

\* The samples of the values y at the points x.
Samples(s, x, y) ==
  /\ DOMAIN s = DOMAIN x
  /\ \A j \in DOMAIN x : s[j] = <<x[j], y[j]>> /\ y[j] \in Scalars

\* Interpolation at zero is the weighted sum of the values.
LEMMA InterpolatedSamples ==
  ASSUME NEW x, DistinctPoints(x), x # <<>>, NEW y, NEW s, Samples(s, x, y)
  PROVE  InterpolateAtZero(s) = {SumOf(Weighted(y, x, DOMAIN x))}
<1> DEFINE D == DOMAIN x
           num(j) == ProductExcept([m \in DOMAIN s |-> Negate(s[m][1])], j)
           den(j) == ProductExcept([m \in DOMAIN s |-> Sub(s[j][1], s[m][1])], j)
           term(j) == Mul(Mul(s[j][2], num(j)), CHOOSE inv \in Inverses(den(j)) : TRUE)
<1>1. /\ DOMAIN s = D /\ s # <<>>
      /\ \A j \in D : s[j][1] = x[j] /\ s[j][2] = y[j] /\ y[j] \in Scalars
  <2>1. D # {}
    BY DEF DistinctPoints
  <2> QED
    BY <2>1 DEF Samples
<1>2. ASSUME NEW j \in D
      PROVE  /\ Inverses(den(j)) # {}
             /\ term(j) = Mul(y[j], Weight(x, D, j))
  <2> DEFINE R == D \ {j}
             A == ProductOn(Negated(x), R)
             B == ProductOn(Differences(x, j), R)
  <2>1. [m \in DOMAIN s |-> Negate(s[m][1])] = Negated(x)
    BY <1>1 DEF Negated
  <2>2. [m \in DOMAIN s |-> Sub(s[j][1], s[m][1])] = Differences(x, j)
    BY <1>1 DEF Differences
  <2>3. DOMAIN Negated(x) = D /\ DOMAIN Differences(x, j) = D
    BY DEF Negated, Differences
  <2>4. num(j) = A /\ den(j) = B
    BY <2>1, <2>2, <2>3 DEF ProductExcept, ProductOn
  <2>5. R \in SUBSET D /\ j \notin R
    OBVIOUS
  <2>6. A \in Scalars /\ B \in Scalars /\ B # 0
    <3> HIDE DEF R
    <3> QED
      BY <2>5, WeightFactors
  <2>7. Weight(x, D, j) = Mul(A, InverseOf(B))
    BY DEF Weight
  <2>8. term(j) = Mul(Mul(y[j], A), InverseOf(B))
    BY <1>1, <2>4 DEF InverseOf
  <2> HIDE DEF A, B, term, den
  <2>9. InverseOf(B) \in Scalars /\ Inverses(B) # {}
    BY <2>6, InverseExists
  <2>10. Mul(Mul(y[j], A), InverseOf(B)) = Mul(y[j], Mul(A, InverseOf(B)))
    BY <1>1, <2>6, <2>9, ScalarTriple
  <2> QED
    BY <2>4, <2>7, <2>8, <2>9, <2>10
<1>3. InterpolateAtZero(s) = {SumOf([j \in D |-> term(j)])}
  <2>1. InterpolateAtZero(s) =
          IF s = <<>> \/ \E j \in DOMAIN s : Inverses(den(j)) = {}
          THEN {} ELSE {SumOf([j \in DOMAIN s |-> term(j)])}
    BY DEF InterpolateAtZero
  <2> HIDE DEF den, term
  <2> QED
    BY <1>1, <1>2, <2>1
<1>4. [j \in D |-> term(j)] = Weighted(y, x, D)
  <2> HIDE DEF term
  <2> QED
    BY <1>2 DEF Weighted
<1> QED
  BY <1>3, <1>4

\* What the first n polynomials of p add up to at z.
PolySum(p, n, z) == SumOf([d \in 1 .. n |-> Evaluate(p[d], z)])

LEMMA PolySumStep ==
  ASSUME NEW p \in Seq(Seq(Int)), NEW n \in Nat, n + 1 <= Len(p), NEW z \in Int
  PROVE  /\ PolySum(p, n, z) \in Scalars /\ PolySum(p, n + 1, z) \in Scalars
         /\ Evaluate(p[n + 1], z) \in Scalars /\ p[n + 1] \in Seq(Int)
         /\ PolySum(p, n + 1, z) = Add(PolySum(p, n, z), Evaluate(p[n + 1], z))
<1> DEFINE old == [d \in 1 .. n |-> Evaluate(p[d], z)]
           new == [d \in 1 .. (n + 1) |-> Evaluate(p[d], z)]
           e == Evaluate(p[n + 1], z)
<1>1. \A d \in 1 .. (n + 1) : d \in DOMAIN p
  OBVIOUS
<1>2. \A d \in 1 .. (n + 1) : p[d] \in Seq(Int)
  BY <1>1, ElementType
<1>3. \A d \in 1 .. (n + 1) : Evaluate(p[d], z) \in Scalars /\ Evaluate(p[d], z) \in Int
  BY <1>2, EvaluateType, ResiduesAreIntegers
<1>4. old \in Seq(Int) /\ new \in Seq(Int) /\ e \in Int
  BY <1>3
<1>5. new = Append(old, e)
  BY <1>3
<1> HIDE DEF old, new, e
<1>6. SumOf(new) = Add(SumOf(old), e) /\ SumOf(old) \in Scalars /\ SumOf(new) \in Scalars
  BY <1>4, <1>5, SumAppend, SumType
<1>7. n + 1 \in 1 .. (n + 1)
  OBVIOUS
<1> QED
  BY <1>2, <1>3, <1>6, <1>7 DEF PolySum, old, new, e

LEMMA PolySumNone ==
  ASSUME NEW p, NEW z
  PROVE  PolySum(p, 0, z) = 0
<1>1. [d \in 1 .. 0 |-> Evaluate(p[d], z)] = <<>>
  OBVIOUS
<1> QED
  BY <1>1, SumEmpty DEF PolySum

LEMMA PolySumType ==
  ASSUME NEW p \in Seq(Seq(Int)), NEW z \in Int
  PROVE  PolySum(p, Len(p), z) \in Scalars
<1> DEFINE a == [d \in 1 .. Len(p) |-> Evaluate(p[d], z)]
<1>1. \A d \in 1 .. Len(p) : p[d] \in Seq(Int)
  BY ElementType
<1>2. \A d \in 1 .. Len(p) : Evaluate(p[d], z) \in Int
  BY <1>1, EvaluateType, ResiduesAreIntegers
<1>3. a \in Seq(Int)
  BY <1>2
<1> HIDE DEF a
<1> QED
  BY <1>3, SumType DEF PolySum, a

PolySumsAt(p, n, x) == [j \in DOMAIN x |-> PolySum(p, n, x[j])]

\* As many points as the longest polynomial has coefficients determine the value of
\* the sum at zero.
LEMMA InterpolatedSum ==
  ASSUME NEW x, DistinctPoints(x), NEW p \in Seq(Seq(Int)),
         \A d \in DOMAIN p : Len(p[d]) <= Cardinality(DOMAIN x)
  PROVE  SumOf(Weighted(PolySumsAt(p, Len(p), x), x, DOMAIN x)) = PolySum(p, Len(p), 0)
<1> DEFINE D == DOMAIN x
           Y(n) == PolySumsAt(p, n, x)
           N == {n \in Nat : n <= Len(p) =>
                   SumOf(Weighted(Y(n), x, D)) = PolySum(p, n, 0)}
<1>1. Len(p) \in Nat /\ 0 \in Int /\ \A j \in D : x[j] \in Scalars /\ x[j] \in Int
  BY ElementType, ResiduesAreIntegers DEF DistinctPoints
<1>2. \A n \in Nat : \A j \in D : Y(n)[j] = PolySum(p, n, x[j])
  BY DEF PolySumsAt
<1>3. 0 \in N
  <2>1. Weighted(Y(0), x, D) = Weighted(ValuesAt(<<>>, x), x, D)
    <3>1. \A j \in D : Y(0)[j] = 0 /\ ValuesAt(<<>>, x)[j] = 0
      BY <1>1, <1>2, PolySumNone, EvaluateEmpty DEF ValuesAt
    <3> HIDE DEF Y
    <3> QED
      BY <3>1 DEF Weighted
  <2>2. /\ <<>> \in Seq(Int) /\ Len(<<>>) = 0 /\ Cardinality(D) \in Nat
        /\ D \in SUBSET DOMAIN x /\ 0 <= Cardinality(D)
    <3>1. IsFiniteSet(D)
      BY FS_Interval DEF DistinctPoints
    <3>2. Cardinality(D) \in Nat
      BY <3>1, FS_CardinalityType
    <3> QED
      BY <3>2
  <2>3. SumOf(Weighted(ValuesAt(<<>>, x), x, D)) = Evaluate(<<>>, 0)
    <3>1. Len(<<>>) <= Cardinality(D)
      BY <2>2
    <3> QED
      BY <2>2, <3>1, Interpolation
  <2> HIDE DEF Y
  <2> QED
    BY <1>1, <2>1, <2>3, EvaluateEmpty, PolySumNone
<1>4. ASSUME NEW n \in N PROVE n + 1 \in N
  <2> SUFFICES ASSUME n + 1 <= Len(p)
               PROVE  SumOf(Weighted(Y(n + 1), x, D)) = PolySum(p, n + 1, 0)
    OBVIOUS
  <2> DEFINE c == p[n + 1]
             v == ValuesAt(c, x)
             A == Weighted(Y(n + 1), x, D)
             B == Weighted(Y(n), x, D)
             C == Weighted(v, x, D)
  <2>1. n \in Nat /\ n + 1 \in Nat /\ n <= Len(p) /\ n + 1 \in DOMAIN p
    BY <1>1
  <2>2. SumOf(B) = PolySum(p, n, 0)
    BY <2>1
  <2>3. c \in Seq(Int) /\ Len(c) <= Cardinality(D)
    BY <2>1, ElementType
  <2>4. SumOf(C) = Evaluate(c, 0)
    <3>1. D \in SUBSET DOMAIN x
      OBVIOUS
    <3> HIDE DEF c
    <3> QED
      BY <2>3, <3>1, Interpolation
  <2>5. \A j \in D : /\ Y(n + 1)[j] \in Scalars /\ Y(n)[j] \in Scalars /\ v[j] \in Scalars
                     /\ Y(n + 1)[j] = Add(Y(n)[j], v[j])
    <3> HIDE DEF Y, c
    <3>1. \A j \in D : v[j] = Evaluate(c, x[j])
      BY <2>3, ValuesType
    <3>2. \A j \in D : PolySum(p, n + 1, x[j]) = Add(PolySum(p, n, x[j]), Evaluate(c, x[j]))
                       /\ PolySum(p, n, x[j]) \in Scalars /\ PolySum(p, n + 1, x[j]) \in Scalars
                       /\ Evaluate(c, x[j]) \in Scalars
      BY <1>1, <2>1, PolySumStep DEF c
    <3> HIDE DEF v
    <3> QED
      BY <1>2, <2>1, <3>1, <3>2
  <2> HIDE DEF Y, v, c
  <2>6. /\ A \in Seq(Scalars) /\ B \in Seq(Scalars) /\ C \in Seq(Scalars)
        /\ DOMAIN A = D /\ DOMAIN B = D /\ DOMAIN C = D
        /\ \A j \in D : /\ A[j] = Mul(Y(n + 1)[j], Weight(x, D, j))
                        /\ B[j] = Mul(Y(n)[j], Weight(x, D, j))
                        /\ C[j] = Mul(v[j], Weight(x, D, j))
        /\ SumOf(A) \in Scalars /\ SumOf(B) \in Scalars /\ SumOf(C) \in Scalars
    BY <2>5, WeightedType
  <2> HIDE DEF A, B, C
  <2>7. \A j \in D : Mul(1, A[j]) = Add(Mul(1, B[j]), Mul(1, C[j]))
    <3>1. \A j \in D : Weight(x, D, j) \in Scalars
      BY WeightType
    <3>2. ASSUME NEW j \in D PROVE A[j] = Add(B[j], C[j])
      <4> DEFINE w == Weight(x, D, j)
                 y == Y(n)[j]
                 z == v[j]
      <4>1. w \in Scalars /\ y \in Scalars /\ z \in Scalars
        BY <2>5, <3>1
      <4>2. A[j] = Mul(Add(y, z), w) /\ B[j] = Mul(y, w) /\ C[j] = Mul(z, w)
        BY <2>5, <2>6
      <4> HIDE DEF w, y, z
      <4>3. Mul(Add(y, z), w) = Add(Mul(y, w), Mul(z, w))
        BY <4>1, ScalarTriple
      <4> QED
        BY <4>2, <4>3
    <3>3. \A j \in D : Mul(1, A[j]) = A[j] /\ Mul(1, B[j]) = B[j] /\ Mul(1, C[j]) = C[j]
      BY <2>6, ElementType, ScalarRules
    <3> QED
      BY <3>2, <3>3
  <2>8. Linear(1, A, 1, B, 1, C)
    BY <2>6, <2>7, ResiduesAreIntegers DEF Linear
  <2>9. Mul(1, SumOf(A)) = Add(Mul(1, SumOf(B)), Mul(1, SumOf(C)))
    BY <2>6, <2>8, LinearSums
  <2>10. SumOf(A) = Add(SumOf(B), SumOf(C))
    BY <2>6, <2>9, ScalarRules
  <2>11. PolySum(p, n + 1, 0) = Add(PolySum(p, n, 0), Evaluate(c, 0))
    BY <1>1, <2>1, PolySumStep DEF c
  <2> QED
    BY <2>2, <2>4, <2>10, <2>11 DEF A
<1>5. Nat \subseteq N
  <2>1. N \in SUBSET Nat
    OBVIOUS
  <2> HIDE DEF N
  <2> QED
    BY <1>3, <1>4, <2>1, Induct
<1> QED
  BY <1>1, <1>5

\* The members of a finite set, in some order.
LEMMA SetAsSequence ==
  ASSUME NEW S, IsFiniteSet(S)
  PROVE  /\ DOMAIN SetToSeq(S) = 1 .. Cardinality(S) /\ Cardinality(S) \in Nat
         /\ SetToSeq(S) \in Seq(S)
         /\ \A k \in DOMAIN SetToSeq(S) : SetToSeq(S)[k] \in S
         /\ \A j, k \in DOMAIN SetToSeq(S) : SetToSeq(S)[j] = SetToSeq(S)[k] => j = k
<1> DEFINE n == Cardinality(S)
           f == SetToSeq(S)
<1>1. n \in Nat /\ ExistsBijection(1 .. n, S)
  <2>1. PICK m \in Nat : ExistsBijection(1 .. m, S)
    BY FS_NatBijection
  <2>2. n = m
    BY <2>1, FS_CountingElements
  <2> QED
    BY <2>1, <2>2
<1>2. PICK g : g \in Bijection(1 .. n, S)
  BY <1>1 DEF ExistsBijection
<1>3. g \in [1 .. n -> S] /\ IsInjective(g)
  BY <1>2 DEF Bijection, Injection
<1>4. f \in [1 .. n -> S] /\ IsInjective(f)
  BY <1>3 DEF SetToSeq
<1> HIDE DEF f, n
<1>5. /\ DOMAIN f = 1 .. n /\ f \in Seq(S) /\ \A k \in DOMAIN f : f[k] \in S
      /\ \A j, k \in DOMAIN f : f[j] = f[k] => j = k
  BY <1>1, <1>4 DEF IsInjective
<1> QED
  BY <1>1, <1>5 DEF f, n

----------------------------------------------------------------------------
(* Powers of two as lengths. *)

\* The number of trailing zero bits of a power of two is its exponent.
LEMMA LogLenOfPower ==
  ASSUME NEW k \in Nat
  PROVE  LogLen(TwoTo[k]) = k
  BY TrailingZeros DEF LogLen

LEMMA PowerFound ==
  ASSUME NEW n \in Nat, IsPowerOfTwo(n)
  PROVE  \E k \in Nat : n = TwoTo[k] /\ LogLen(n) = k
<1>1. PICK k \in 0 .. n : n = 2 ^ k
  BY DEF IsPowerOfTwo
<1>2. k \in Nat
  OBVIOUS
<1>3. n = TwoTo[k]
  BY <1>1, <1>2 DEF TwoTo
<1>4. LogLen(TwoTo[k]) = k
  BY <1>2, LogLenOfPower
<1> QED
  BY <1>2, <1>3, <1>4

----------------------------------------------------------------------------
(* Vectors *)

\* The powers of a scalar begin with one.
LEMMA PowersType ==
  ASSUME NEW y \in Scalars, NEW n \in Nat
  PROVE  /\ PowersFromOne(y, n) \in [1 .. n -> Scalars]
         /\ n > 0 => PowersFromOne(y, n)[1] = 1
<1> DEFINE Rec(p) == p = [k \in 1 .. n |-> IF k = 1 THEN 1 ELSE Mul(p[k - 1], y)]
           step == [k \in 1 .. n |-> [x \in Scalars |-> Mul(x, y)]]
           power == CHOOSE p : Rec(p)
<1>1. 1 \in Scalars /\ 0 \in Scalars /\ Scalars \subseteq Int
  BY ResiduesAreIntegers
<1>2. step \in [1 .. n -> [Scalars -> Scalars]]
  BY ScalarRules
<1>3. PICK f : Iterates(f, n, Scalars, 1, step)
  <2> HIDE DEF step
  <2> QED
    BY <1>1, <1>2, Iteration
<1> DEFINE g == [k \in 1 .. n |-> f[k - 1]]
<1>4. f \in [0 .. n -> Scalars] /\ f[0] = 1
      /\ \A k \in 1 .. n : f[k] = Mul(f[k - 1], y)
  <2>1. f \in [0 .. n -> Scalars] /\ f[0] = 1 /\ \A k \in 1 .. n : f[k] = step[k][f[k - 1]]
    BY <1>3 DEF Iterates
  <2>2. \A k \in 1 .. n : k - 1 \in 0 .. n
    OBVIOUS
  <2> QED
    BY <2>1, <2>2
<1>5. Rec(g)
  <2>1. ASSUME NEW k \in 1 .. n
        PROVE  g[k] = IF k = 1 THEN 1 ELSE Mul(g[k - 1], y)
    <3>1. CASE k = 1
      BY <1>4, <3>1
    <3>2. CASE k # 1
      <4>1. k - 1 \in 1 .. n /\ g[k] = f[k - 1] /\ g[k - 1] = f[(k - 1) - 1]
        BY <3>2
      <4> QED
        BY <1>4, <3>2, <4>1
    <3> QED
      BY <3>1, <3>2
  <2> QED
    BY <2>1
<1>6. Rec(power)
  <2> HIDE DEF Rec
  <2> QED
    BY <1>5
<1>7. PowersFromOne(y, n) = [k \in 1 .. n |-> power[k]]
  BY DEF PowersFromOne
<1> HIDE DEF power
<1> DEFINE N == {k \in Nat : k + 1 \in 1 .. n => power[k + 1] \in Scalars}
<1>8. Nat \subseteq N
  <2>1. 0 \in N
    BY <1>1, <1>6
  <2>2. ASSUME NEW k \in N PROVE k + 1 \in N
    <3>1. ASSUME k + 1 + 1 \in 1 .. n PROVE power[k + 1 + 1] \in Scalars
      <4>1. k + 1 \in 1 .. n /\ k + 1 + 1 # 1 /\ (k + 1 + 1) - 1 = k + 1
        BY <3>1
      <4>2. power[k + 1 + 1] = Mul(power[k + 1], y) /\ power[k + 1] \in Scalars
        BY <1>6, <3>1, <4>1
      <4> QED
        BY <4>2, ScalarRules
    <3> QED
      BY <3>1
  <2>3. N \in SUBSET Nat
    OBVIOUS
  <2> HIDE DEF N
  <2> QED
    BY <2>1, <2>2, <2>3, Induct
<1>9. ASSUME NEW k \in 1 .. n PROVE power[k] \in Scalars
  <2>1. k - 1 \in Nat /\ (k - 1) + 1 = k
    OBVIOUS
  <2>2. k - 1 \in N
    BY <1>8, <2>1
  <2> QED
    BY <2>1, <2>2
<1>10. n > 0 => power[1] = 1
  BY <1>6
<1> QED
  BY <1>7, <1>9, <1>10

Pts == [Bases -> Scalars]

\* Points are closed under the operations.
LEMMA PointsClosed ==
  ASSUME NEW p \in Pts, NEW q \in Pts, NEW s \in Scalars
  PROVE  /\ Plus(p, q) \in Pts /\ Scale(p, s) \in Pts /\ NoPoint \in Pts
         /\ \A base \in Bases : BasePoint(base) \in Pts
<1>1. 0 \in Scalars /\ 1 \in Scalars
  BY ResiduesAreIntegers
<1>2. \A b \in Bases : p[b] \in Scalars /\ q[b] \in Scalars
  BY DEF Pts
<1>3. \A b \in Bases : Add(p[b], q[b]) \in Scalars /\ Mul(p[b], s) \in Scalars
  BY <1>2, ScalarRules
<1> QED
  BY <1>1, <1>3 DEF Pts, Plus, Scale, BasePoint, NoPoint

\* Points are equal when their coefficients are.
LEMMA PointsEqual ==
  ASSUME NEW p \in Pts, NEW q \in Pts, \A base \in Bases : p[base] = q[base]
  PROVE  p = q
  BY DEF Pts

\* Both halves of a vector.
LEMMA Halves ==
  ASSUME NEW V, NEW v \in Seq(V), NEW m \in Nat, Len(v) = 2 * m
  PROVE  /\ Lower(v) \in Seq(V) /\ Upper(v) \in Seq(V)
         /\ Len(Lower(v)) = m /\ Len(Upper(v)) = m
         /\ \A k \in 1 .. m : /\ Lower(v)[k] = v[k] /\ Upper(v)[k] = v[m + k]
                              /\ k \in 1 .. (2 * m) /\ m + k \in 1 .. (2 * m)
                              /\ v[k] \in V /\ v[m + k] \in V
<1>1. Len(v) \div 2 = m
  OBVIOUS
<1>2. Lower(v) = SubSeq(v, 1, m) /\ Upper(v) = SubSeq(v, m + 1, 2 * m)
  BY <1>1 DEF Lower, Upper
<1>3. \A k \in 1 .. m : k \in 1 .. (2 * m) /\ m + k \in 1 .. (2 * m)
  OBVIOUS
<1>4. \A k \in 1 .. (2 * m) : v[k] \in V
  OBVIOUS
<1>5. SubSeq(v, 1, m) \in Seq(V) /\ Len(SubSeq(v, 1, m)) = m
      /\ \A k \in 1 .. m : SubSeq(v, 1, m)[k] = v[k]
  OBVIOUS
<1>6. SubSeq(v, m + 1, 2 * m) \in Seq(V) /\ Len(SubSeq(v, m + 1, 2 * m)) = m
      /\ \A k \in 1 .. m : SubSeq(v, m + 1, 2 * m)[k] = v[m + k]
  OBVIOUS
<1> QED
  BY <1>2, <1>3, <1>4, <1>5, <1>6

\* Products of products, and sums of sums.
LEMMA Exchange ==
  ASSUME NEW a \in Scalars, NEW b \in Scalars, NEW c \in Scalars, NEW d \in Scalars
  PROVE  /\ Mul(Mul(a, b), Mul(c, d)) = Mul(Mul(a, c), Mul(b, d))
         /\ Add(Add(a, b), Add(c, d)) = Add(Add(a, c), Add(b, d))
         /\ Add(Add(a, b), Add(c, d)) = Add(Add(a, d), Add(b, c))
<1>1. /\ Mul(a, b) \in Scalars /\ Mul(c, d) \in Scalars /\ Mul(b, d) \in Scalars
      /\ Mul(a, c) \in Scalars /\ Mul(b, Mul(c, d)) \in Scalars /\ Mul(b, c) = Mul(c, b)
  BY ScalarRules
<1>2. Mul(Mul(a, b), Mul(c, d)) = Mul(a, Mul(b, Mul(c, d)))
  BY <1>1, ScalarTriple
<1>3. Mul(b, Mul(c, d)) = Mul(c, Mul(b, d))
  BY <1>1, ScalarTriple
<1>4. Mul(a, Mul(c, Mul(b, d))) = Mul(Mul(a, c), Mul(b, d))
  BY <1>1, ScalarTriple
<1>5. /\ Add(a, b) \in Scalars /\ Add(c, d) \in Scalars /\ Add(b, d) \in Scalars
      /\ Add(b, c) = Add(c, b) /\ Add(d, c) = Add(c, d) /\ Add(b, d) = Add(d, b)
      /\ Add(b, c) \in Scalars
  BY ScalarRules
<1>6. Add(Add(a, b), Add(c, d)) = Add(a, Add(b, Add(c, d)))
  BY <1>5, ScalarTriple
<1>7. Add(b, Add(c, d)) = Add(c, Add(b, d))
  BY <1>5, ScalarTriple
<1>8. Add(a, Add(c, Add(b, d))) = Add(Add(a, c), Add(b, d))
  BY <1>5, ScalarTriple
<1>9. Add(b, Add(c, d)) = Add(d, Add(b, c))
  <2>1. Add(b, Add(c, d)) = Add(Add(b, c), d)
    BY ScalarTriple
  <2> QED
    BY <1>5, <2>1, ScalarRules
<1>10. Add(a, Add(d, Add(b, c))) = Add(Add(a, d), Add(b, c))
  BY <1>5, ScalarTriple
<1> QED
  BY <1>2, <1>3, <1>4, <1>6, <1>7, <1>8, <1>9, <1>10

\* What one round does to a product of two elements of the folded vectors.
LEMMA FoldProduct ==
  ASSUME NEW ul \in Scalars, NEW uh \in Scalars, NEW vl \in Scalars, NEW vh \in Scalars,
         NEW x \in Scalars, NEW xi \in Scalars, Mul(x, xi) = 1
  PROVE  Mul(Add(Mul(ul, x), Mul(uh, xi)), Add(Mul(vl, xi), Mul(vh, x)))
           = Add(Add(Mul(ul, vl), Mul(uh, vh)),
                 Add(Mul(Mul(x, x), Mul(ul, vh)), Mul(Mul(xi, xi), Mul(uh, vl))))
<1> DEFINE A == Mul(ul, x)
           B == Mul(uh, xi)
           C == Mul(vl, xi)
           D == Mul(vh, x)
           LL == Mul(ul, vl)
           HH == Mul(uh, vh)
           LH == Mul(Mul(x, x), Mul(ul, vh))
           HL == Mul(Mul(xi, xi), Mul(uh, vl))
<1>1. A \in Scalars /\ B \in Scalars /\ C \in Scalars /\ D \in Scalars
  BY ScalarRules
<1>2. /\ Mul(ul, vl) \in Scalars /\ Mul(uh, vh) \in Scalars /\ Mul(ul, vh) \in Scalars
      /\ Mul(uh, vl) \in Scalars /\ Mul(x, x) \in Scalars /\ Mul(xi, xi) \in Scalars
      /\ Mul(xi, x) = 1
  BY ScalarRules
<1>3. Mul(A, C) = LL
  <2>1. Mul(A, C) = Mul(Mul(ul, vl), Mul(x, xi))
    BY Exchange
  <2> QED
    BY <1>2, <2>1, ScalarRules
<1>4. Mul(A, D) = LH
  <2>1. Mul(A, D) = Mul(Mul(ul, vh), Mul(x, x))
    BY Exchange
  <2> QED
    BY <1>2, <2>1, ScalarRules
<1>5. Mul(B, C) = HL
  <2>1. Mul(B, C) = Mul(Mul(uh, vl), Mul(xi, xi))
    BY Exchange
  <2> QED
    BY <1>2, <2>1, ScalarRules
<1>6. Mul(B, D) = HH
  <2>1. Mul(B, D) = Mul(Mul(uh, vh), Mul(xi, x))
    BY Exchange
  <2> QED
    BY <1>2, <2>1, ScalarRules
<1>7. LL \in Scalars /\ HH \in Scalars /\ LH \in Scalars /\ HL \in Scalars
  BY <1>2, ScalarRules
<1> HIDE DEF A, B, C, D, LL, HH, LH, HL
<1>8. Mul(Add(A, B), Add(C, D)) = Add(Add(Mul(A, C), Mul(A, D)), Add(Mul(B, C), Mul(B, D)))
  <2>1. Add(C, D) \in Scalars
    BY <1>1, ScalarRules
  <2>2. Mul(Add(A, B), Add(C, D)) = Add(Mul(A, Add(C, D)), Mul(B, Add(C, D)))
    BY <1>1, <2>1, ScalarTriple
  <2>3. Mul(A, Add(C, D)) = Add(Mul(A, C), Mul(A, D))
    BY <1>1, ScalarTriple
  <2>4. Mul(B, Add(C, D)) = Add(Mul(B, C), Mul(B, D))
    BY <1>1, ScalarTriple
  <2> QED
    BY <2>2, <2>3, <2>4
<1>9. Add(Add(LL, LH), Add(HL, HH)) = Add(Add(LL, HH), Add(LH, HL))
  BY <1>7, Exchange
<1> QED
  BY <1>3, <1>4, <1>5, <1>6, <1>8, <1>9 DEF A, B, C, D, LL, HH, LH, HL

\* A sum is the sum of the sums of its halves.
LEMMA SumOfHalves ==
  ASSUME NEW s \in Seq(Scalars), NEW m \in Nat, Len(s) = 2 * m
  PROVE  SumOf(s) = Add(SumOf(Lower(s)), SumOf(Upper(s)))
<1> DEFINE b == [k \in 1 .. (2 * m) |-> IF k <= m THEN s[k] ELSE 0]
           c == [k \in 1 .. (2 * m) |-> IF k <= m THEN 0 ELSE s[k]]
           lo == Lower(s)
           hi == Upper(s)
           eLo == [k \in 1 .. m |-> k]
           eHi == [k \in 1 .. m |-> m + k]
<1>1. 0 \in Scalars /\ 1 \in Scalars /\ Scalars \subseteq Int
  BY ResiduesAreIntegers
<1>2. DOMAIN s = 1 .. (2 * m) /\ \A k \in 1 .. (2 * m) : s[k] \in Scalars
  OBVIOUS
<1>3. b \in Seq(Scalars) /\ c \in Seq(Scalars) /\ 2 * m \in Nat
  BY <1>1, <1>2
<1>4. /\ lo \in Seq(Scalars) /\ hi \in Seq(Scalars)
      /\ DOMAIN lo = 1 .. m /\ DOMAIN hi = 1 .. m
      /\ \A k \in 1 .. m : lo[k] = s[k] /\ hi[k] = s[m + k]
                           /\ k \in 1 .. (2 * m) /\ m + k \in 1 .. (2 * m)
  <2>1. /\ lo \in Seq(Scalars) /\ hi \in Seq(Scalars)
        /\ Len(lo) = m /\ Len(hi) = m
        /\ \A k \in 1 .. m : /\ lo[k] = s[k] /\ hi[k] = s[m + k]
                             /\ k \in 1 .. (2 * m) /\ m + k \in 1 .. (2 * m)
                             /\ s[k] \in Scalars /\ s[m + k] \in Scalars
    BY Halves
  <2> HIDE DEF lo, hi
  <2> QED
    BY <2>1
<1>5. Linear(1, s, 1, b, 1, c)
  <2>1. \A k \in 1 .. (2 * m) : Mul(1, s[k]) = Add(Mul(1, b[k]), Mul(1, c[k]))
    <3> SUFFICES ASSUME NEW k \in 1 .. (2 * m)
                 PROVE  Mul(1, s[k]) = Add(Mul(1, b[k]), Mul(1, c[k]))
      OBVIOUS
    <3>1. Mul(1, s[k]) = s[k] /\ Mul(1, 0) = 0 /\ Add(s[k], 0) = s[k] /\ Add(0, s[k]) = s[k]
      BY <1>1, <1>2, ScalarRules, AddZero
    <3> QED
      BY <3>1
  <2> QED
    BY <1>1, <1>2, <2>1 DEF Linear
<1>6. Reindexes(eLo, lo, b, 0)
  <2>1. eLo \in [1 .. m -> 1 .. (2 * m)] /\ \A j, k \in 1 .. m : eLo[j] = eLo[k] => j = k
    BY <1>4
  <2>2. \A k \in 1 .. m : lo[k] = b[eLo[k]]
    BY <1>4
  <2>3. ASSUME NEW n \in 1 .. (2 * m), \A k \in 1 .. m : eLo[k] # n PROVE b[n] = 0
    <3>1. ~(n <= m)
      BY <2>3
    <3> QED
      BY <3>1
  <2>4. DOMAIN b = 1 .. (2 * m)
    OBVIOUS
  <2> HIDE DEF lo, b, eLo
  <2> QED
    BY <1>4, <2>1, <2>2, <2>3, <2>4 DEF Reindexes
<1>7. Reindexes(eHi, hi, c, 0)
  <2>1. eHi \in [1 .. m -> 1 .. (2 * m)] /\ \A j, k \in 1 .. m : eHi[j] = eHi[k] => j = k
    BY <1>4
  <2>2. \A k \in 1 .. m : hi[k] = c[eHi[k]]
    BY <1>4
  <2>3. ASSUME NEW n \in 1 .. (2 * m), \A k \in 1 .. m : eHi[k] # n PROVE c[n] = 0
    <3>1. n <= m
      <4> SUFFICES ASSUME n > m PROVE FALSE
        OBVIOUS
      <4>1. n - m \in 1 .. m /\ m + (n - m) = n
        OBVIOUS
      <4> QED
        BY <2>3, <4>1
    <3> QED
      BY <3>1
  <2>4. DOMAIN c = 1 .. (2 * m)
    OBVIOUS
  <2> HIDE DEF hi, c, eHi
  <2> QED
    BY <1>4, <2>1, <2>2, <2>3, <2>4 DEF Reindexes
<1> HIDE DEF b, c, lo, hi, eLo, eHi
<1>8. Mul(1, SumOf(s)) = Add(Mul(1, SumOf(b)), Mul(1, SumOf(c)))
  BY <1>3, <1>5, LinearSums
<1>9. Seq(Scalars) \subseteq Seq(Int)
  BY ResiduesAreIntegers
<1>10. SumOf(lo) = SumOf(b) /\ SumOf(hi) = SumOf(c)
  BY <1>3, <1>4, <1>6, <1>7, <1>9, SumReindexed
<1>11. SumOf(s) \in Scalars /\ SumOf(b) \in Scalars /\ SumOf(c) \in Scalars
  BY <1>3, <1>9, SumType
<1> QED
  BY <1>8, <1>10, <1>11, ScalarRules DEF lo, hi

Products(a, b) == [k \in DOMAIN a \cap DOMAIN b |-> Mul(a[k], b[k])]

Vectors(n) == {v \in Seq(Scalars) : Len(v) = n}

LEMMA VectorsEqual ==
  ASSUME NEW n \in Nat, NEW a \in Vectors(n), NEW b \in Vectors(n),
         \A k \in 1 .. n : a[k] = b[k]
  PROVE  a = b
<1>1. a = [k \in 1 .. n |-> a[k]] /\ b = [k \in 1 .. n |-> b[k]]
  BY DEF Vectors
<1> QED
  BY <1>1

LEMMA VectorsAre ==
  ASSUME NEW n \in Nat, NEW f, f = [k \in 1 .. n |-> f[k]], \A k \in 1 .. n : f[k] \in Scalars
  PROVE  f \in Vectors(n)
  BY DEF Vectors

LEMMA ProductsType ==
  ASSUME NEW n \in Nat, NEW a \in Vectors(n), NEW b \in Vectors(n)
  PROVE  /\ Products(a, b) \in Vectors(n)
         /\ \A k \in 1 .. n : /\ Products(a, b)[k] = Mul(a[k], b[k])
                              /\ a[k] \in Scalars /\ b[k] \in Scalars
         /\ InnerProductOf(a, b) = SumOf(Products(a, b))
         /\ InnerProductOf(a, b) \in Scalars
<1>1. DOMAIN a = 1 .. n /\ DOMAIN b = 1 .. n
      /\ \A k \in 1 .. n : a[k] \in Scalars /\ b[k] \in Scalars
  BY DEF Vectors
<1> DEFINE p == Products(a, b)
<1>2. p = [k \in 1 .. n |-> Mul(a[k], b[k])]
  BY <1>1 DEF Products
<1>3. \A k \in 1 .. n : Mul(a[k], b[k]) \in Scalars
  BY <1>1, ScalarRules
<1>4. p \in Seq(Scalars) /\ Len(p) = n
  BY <1>2, <1>3
<1>5. p \in Seq(Int)
  <2>1. Seq(Scalars) \subseteq Seq(Int)
    BY ResiduesAreIntegers
  <2> HIDE DEF p
  <2> QED
    BY <1>4, <2>1
<1>6. SumOf(p) \in Scalars
  BY <1>5, SumType
<1>7. InnerProductOf(a, b) = SumOf(p)
  BY DEF InnerProductOf, Products
<1>8. \A k \in 1 .. n : p[k] = Mul(a[k], b[k])
  BY <1>2
<1> HIDE DEF p
<1> QED
  BY <1>1, <1>4, <1>6, <1>7, <1>8 DEF p, Vectors

LEMMA InnerCommutes ==
  ASSUME NEW n \in Nat, NEW a \in Vectors(n), NEW b \in Vectors(n)
  PROVE  InnerProductOf(a, b) = InnerProductOf(b, a)
<1>1. DOMAIN a = 1 .. n /\ DOMAIN b = 1 .. n
      /\ \A k \in 1 .. n : a[k] \in Scalars /\ b[k] \in Scalars
  BY DEF Vectors
<1>2. \A k \in 1 .. n : Mul(a[k], b[k]) = Mul(b[k], a[k])
  BY <1>1, ScalarRules
<1> QED
  BY <1>1, <1>2 DEF InnerProductOf

LEMMA HalvesOfVectors ==
  ASSUME NEW m \in Nat, NEW v \in Vectors(2 * m)
  PROVE  /\ Lower(v) \in Vectors(m) /\ Upper(v) \in Vectors(m)
         /\ \A k \in 1 .. m : /\ Lower(v)[k] = v[k] /\ Upper(v)[k] = v[m + k]
                              /\ k \in 1 .. (2 * m) /\ m + k \in 1 .. (2 * m)
                              /\ v[k] \in Scalars /\ v[m + k] \in Scalars
<1>1. v \in Seq(Scalars) /\ Len(v) = 2 * m
  BY DEF Vectors
<1>2. /\ Lower(v) \in Seq(Scalars) /\ Upper(v) \in Seq(Scalars)
      /\ Len(Lower(v)) = m /\ Len(Upper(v)) = m
      /\ \A k \in 1 .. m : /\ Lower(v)[k] = v[k] /\ Upper(v)[k] = v[m + k]
                           /\ k \in 1 .. (2 * m) /\ m + k \in 1 .. (2 * m)
                           /\ v[k] \in Scalars /\ v[m + k] \in Scalars
  BY <1>1, Halves
<1> QED
  BY <1>2 DEF Vectors

LEMMA FoldedType ==
  ASSUME NEW m \in Nat, NEW v \in Vectors(2 * m), NEW lw \in Scalars, NEW hw \in Scalars
  PROVE  /\ FoldScalars(v, lw, hw) \in Vectors(m)
         /\ \A k \in 1 .. m : FoldScalars(v, lw, hw)[k] = Add(Mul(v[k], lw), Mul(v[m + k], hw))
<1> DEFINE f == FoldScalars(v, lw, hw)
           lo == Lower(v)
           hi == Upper(v)
<1>1. Len(v) \div 2 = m
  BY DEF Vectors
<1>2. \A k \in 1 .. m : lo[k] = v[k] /\ hi[k] = v[m + k]
                        /\ v[k] \in Scalars /\ v[m + k] \in Scalars
  BY HalvesOfVectors
<1>3. f = [k \in 1 .. m |-> Add(Mul(lo[k], lw), Mul(hi[k], hw))]
  BY <1>1 DEF FoldScalars
<1> HIDE DEF f, lo, hi
<1>4. \A k \in 1 .. m : f[k] = Add(Mul(v[k], lw), Mul(v[m + k], hw))
  BY <1>2, <1>3
<1>5. \A k \in 1 .. m : Mul(v[k], lw) \in Scalars /\ Mul(v[m + k], hw) \in Scalars
  BY <1>2, ScalarRules
<1>6. \A k \in 1 .. m : f[k] \in Scalars
  BY <1>4, <1>5, ScalarRules
<1>7. f = [k \in 1 .. m |-> f[k]]
  BY <1>3
<1>8. f \in Seq(Scalars) /\ Len(f) = m
  BY <1>6, <1>7
<1> QED
  BY <1>4, <1>8 DEF f, Vectors

\* One round of folding: what it does to the inner product of the two vectors.
LEMMA FoldInner ==
  ASSUME NEW m \in Nat, NEW u \in Vectors(2 * m), NEW v \in Vectors(2 * m),
         NEW x \in Scalars, NEW xi \in Scalars, Mul(x, xi) = 1
  PROVE  InnerProductOf(FoldScalars(u, x, xi), FoldScalars(v, xi, x))
           = Add(InnerProductOf(u, v),
                 Add(Mul(Mul(x, x), InnerProductOf(Lower(u), Upper(v))),
                     Mul(Mul(xi, xi), InnerProductOf(Upper(u), Lower(v)))))
<1> DEFINE fu == FoldScalars(u, x, xi)
           fv == FoldScalars(v, xi, x)
           ul == Lower(u)
           uh == Upper(u)
           vl == Lower(v)
           vh == Upper(v)
           F == Products(fu, fv)
           W == Products(u, v)
           LL == Products(ul, vl)
           HH == Products(uh, vh)
           LH == Products(ul, vh)
           HL == Products(uh, vl)
           x2 == Mul(x, x)
           y2 == Mul(xi, xi)
<1>1. 2 * m \in Nat /\ 1 \in Scalars /\ x2 \in Scalars /\ y2 \in Scalars
  BY ResiduesAreIntegers, ScalarRules
<1>2. /\ ul \in Vectors(m) /\ uh \in Vectors(m)
      /\ \A k \in 1 .. m : /\ ul[k] = u[k] /\ uh[k] = u[m + k]
                           /\ k \in 1 .. (2 * m) /\ m + k \in 1 .. (2 * m)
                           /\ u[k] \in Scalars /\ u[m + k] \in Scalars
  BY HalvesOfVectors
<1>3. /\ vl \in Vectors(m) /\ vh \in Vectors(m)
      /\ \A k \in 1 .. m : /\ vl[k] = v[k] /\ vh[k] = v[m + k]
                           /\ k \in 1 .. (2 * m) /\ m + k \in 1 .. (2 * m)
                           /\ v[k] \in Scalars /\ v[m + k] \in Scalars
  BY HalvesOfVectors
<1>4. /\ fu \in Vectors(m)
      /\ \A k \in 1 .. m : fu[k] = Add(Mul(u[k], x), Mul(u[m + k], xi))
  BY FoldedType
<1>5. /\ fv \in Vectors(m)
      /\ \A k \in 1 .. m : fv[k] = Add(Mul(v[k], xi), Mul(v[m + k], x))
  BY FoldedType
<1> HIDE DEF fu, fv, ul, uh, vl, vh
<1>6. /\ F \in Vectors(m) /\ InnerProductOf(fu, fv) = SumOf(F)
      /\ \A k \in 1 .. m : F[k] = Mul(fu[k], fv[k])
  BY <1>4, <1>5, ProductsType
<1>7. W \in Vectors(2 * m) /\ InnerProductOf(u, v) = SumOf(W)
      /\ \A k \in 1 .. (2 * m) : W[k] = Mul(u[k], v[k])
  BY <1>1, ProductsType
<1>8. /\ LL \in Vectors(m) /\ \A k \in 1 .. m : LL[k] = Mul(ul[k], vl[k])
  BY <1>2, <1>3, ProductsType
<1>9. /\ HH \in Vectors(m) /\ \A k \in 1 .. m : HH[k] = Mul(uh[k], vh[k])
  BY <1>2, <1>3, ProductsType
<1>10. /\ LH \in Vectors(m) /\ InnerProductOf(ul, vh) = SumOf(LH)
       /\ SumOf(LH) \in Scalars
       /\ \A k \in 1 .. m : LH[k] = Mul(ul[k], vh[k])
  BY <1>2, <1>3, ProductsType
<1>11. /\ HL \in Vectors(m) /\ InnerProductOf(uh, vl) = SumOf(HL)
       /\ SumOf(HL) \in Scalars
       /\ \A k \in 1 .. m : HL[k] = Mul(uh[k], vl[k])
  BY <1>2, <1>3, ProductsType
<1> DEFINE wl == Lower(W)
           wh == Upper(W)
<1>12. /\ wl \in Vectors(m) /\ wh \in Vectors(m)
       /\ \A k \in 1 .. m : wl[k] = W[k] /\ wh[k] = W[m + k]
  BY <1>7, HalvesOfVectors
<1>13. SumOf(W) = Add(SumOf(wl), SumOf(wh))
  BY <1>7, SumOfHalves DEF Vectors
<1> HIDE DEF W, F, LL, HH, LH, HL, wl, wh, x2, y2
<1>14. wl = LL /\ wh = HH
  <2>1. \A k \in 1 .. m : wl[k] = LL[k] /\ wh[k] = HH[k]
    BY <1>2, <1>3, <1>7, <1>8, <1>9, <1>12
  <2> QED
    BY <1>8, <1>9, <1>12, <2>1, VectorsEqual
<1> DEFINE S1 == [k \in 1 .. m |-> Add(LL[k], HH[k])]
           S2 == [k \in 1 .. m |-> Add(Mul(x2, LH[k]), Mul(y2, HL[k]))]
<1>15. \A k \in 1 .. m : /\ LL[k] \in Scalars /\ HH[k] \in Scalars
                         /\ LH[k] \in Scalars /\ HL[k] \in Scalars
                         /\ Mul(x2, LH[k]) \in Scalars /\ Mul(y2, HL[k]) \in Scalars
  <2>1. \A k \in 1 .. m : /\ LL[k] \in Scalars /\ HH[k] \in Scalars
                          /\ LH[k] \in Scalars /\ HL[k] \in Scalars
    BY <1>8, <1>9, <1>10, <1>11 DEF Vectors
  <2> QED
    BY <1>1, <2>1, ScalarRules
<1>16. S1 \in Vectors(m) /\ S2 \in Vectors(m)
  <2>1. \A k \in 1 .. m : S1[k] \in Scalars /\ S2[k] \in Scalars
    BY <1>15, ScalarRules
  <2>2. S1 = [k \in 1 .. m |-> S1[k]] /\ S2 = [k \in 1 .. m |-> S2[k]]
    OBVIOUS
  <2> HIDE DEF S1, S2
  <2> QED
    BY <2>1, <2>2, VectorsAre
<1>17. \A k \in 1 .. m : F[k] = Add(S1[k], S2[k])
  <2> SUFFICES ASSUME NEW k \in 1 .. m PROVE F[k] = Add(S1[k], S2[k])
    OBVIOUS
  <2>1. F[k] = Mul(Add(Mul(u[k], x), Mul(u[m + k], xi)), Add(Mul(v[k], xi), Mul(v[m + k], x)))
    BY <1>4, <1>5, <1>6
  <2>2. /\ u[k] \in Scalars /\ u[m + k] \in Scalars
        /\ v[k] \in Scalars /\ v[m + k] \in Scalars
    BY <1>2, <1>3
  <2> DEFINE a == u[k]
             b == u[m + k]
             c == v[k]
             d == v[m + k]
  <2>3. F[k] = Mul(Add(Mul(a, x), Mul(b, xi)), Add(Mul(c, xi), Mul(d, x)))
    BY <2>1
  <2>4. a \in Scalars /\ b \in Scalars /\ c \in Scalars /\ d \in Scalars
    BY <2>2
  <2>5. S1[k] = Add(LL[k], HH[k]) /\ S2[k] = Add(Mul(x2, LH[k]), Mul(y2, HL[k]))
    OBVIOUS
  <2>6. LL[k] = Mul(a, c) /\ HH[k] = Mul(b, d) /\ LH[k] = Mul(a, d) /\ HL[k] = Mul(b, c)
    BY <1>2, <1>3, <1>8, <1>9, <1>10, <1>11
  <2> HIDE DEF a, b, c, d, S1, S2
  <2>7. Mul(Add(Mul(a, x), Mul(b, xi)), Add(Mul(c, xi), Mul(d, x)))
          = Add(Add(Mul(a, c), Mul(b, d)),
                Add(Mul(Mul(x, x), Mul(a, d)), Mul(Mul(xi, xi), Mul(b, c))))
    BY <2>4, FoldProduct
  <2> QED
    BY <2>6, <2>7, <2>3, <2>5 DEF x2, y2
<1>18. \A s \in Vectors(m) : /\ DOMAIN s = 1 .. m /\ s \in Seq(Scalars)
                             /\ \A k \in 1 .. m : Mul(1, s[k]) = s[k]
                             /\ SumOf(s) \in Scalars /\ Mul(1, SumOf(s)) = SumOf(s)
  <2> SUFFICES ASSUME NEW s \in Vectors(m)
               PROVE  /\ DOMAIN s = 1 .. m /\ s \in Seq(Scalars)
                      /\ \A k \in 1 .. m : Mul(1, s[k]) = s[k]
                      /\ SumOf(s) \in Scalars /\ Mul(1, SumOf(s)) = SumOf(s)
    OBVIOUS
  <2>1. s \in Seq(Scalars) /\ DOMAIN s = 1 .. m /\ \A k \in 1 .. m : s[k] \in Scalars
    BY DEF Vectors
  <2>2. s \in Seq(Int)
    <3>1. Seq(Scalars) \subseteq Seq(Int)
      BY ResiduesAreIntegers
    <3> QED
      BY <2>1, <3>1
  <2>3. SumOf(s) \in Scalars
    BY <2>2, SumType
  <2> QED
    BY <2>1, <2>3, ScalarRules
<1>19. SumOf(F) = Add(SumOf(S1), SumOf(S2))
  <2> HIDE DEF S1, S2
  <2>1. Linear(1, F, 1, S1, 1, S2)
    BY <1>1, <1>6, <1>16, <1>17, <1>18 DEF Linear
  <2>2. Mul(1, SumOf(F)) = Add(Mul(1, SumOf(S1)), Mul(1, SumOf(S2)))
    BY <1>6, <1>16, <1>18, <2>1, LinearSums
  <2> QED
    BY <1>6, <1>16, <1>18, <2>2
<1>20. SumOf(S1) = Add(SumOf(LL), SumOf(HH))
  <2>1. \A k \in 1 .. m : S1[k] = Add(LL[k], HH[k])
    OBVIOUS
  <2> HIDE DEF S1, S2
  <2>2. Linear(1, S1, 1, LL, 1, HH)
    BY <1>1, <1>8, <1>9, <1>16, <1>18, <2>1 DEF Linear
  <2>3. Mul(1, SumOf(S1)) = Add(Mul(1, SumOf(LL)), Mul(1, SumOf(HH)))
    BY <1>8, <1>9, <1>16, <1>18, <2>2, LinearSums
  <2> QED
    BY <1>8, <1>9, <1>16, <1>18, <2>3
<1>21. SumOf(S2) = Add(Mul(x2, SumOf(LH)), Mul(y2, SumOf(HL)))
  <2>1. \A k \in 1 .. m : S2[k] = Add(Mul(x2, LH[k]), Mul(y2, HL[k]))
    OBVIOUS
  <2> HIDE DEF S1, S2
  <2>2. Linear(1, S2, x2, LH, y2, HL)
    BY <1>1, <1>10, <1>11, <1>16, <1>18, <2>1 DEF Linear
  <2>3. Mul(1, SumOf(S2)) = Add(Mul(x2, SumOf(LH)), Mul(y2, SumOf(HL)))
    BY <1>10, <1>11, <1>16, <1>18, <2>2, LinearSums
  <2> QED
    BY <1>16, <1>18, <2>3
<1> HIDE DEF S1, S2
<1>22. InnerProductOf(fu, fv)
         = Add(InnerProductOf(u, v), Add(Mul(x2, InnerProductOf(ul, vh)),
                                         Mul(y2, InnerProductOf(uh, vl))))
  BY <1>6, <1>7, <1>10, <1>11, <1>13, <1>14, <1>19, <1>20, <1>21
<1> QED
  BY <1>22 DEF fu, fv, ul, uh, vl, vh, x2, y2

----------------------------------------------------------------------------
(* Vectors of points, coefficient by coefficient. *)

PointVectors(n) == {v \in Seq(Pts) : Len(v) = n}

Coefficients(v, base) == [k \in DOMAIN v |-> v[k][base]]

LEMMA PointVectorsAre ==
  ASSUME NEW n \in Nat, NEW f, f = [k \in 1 .. n |-> f[k]], \A k \in 1 .. n : f[k] \in Pts
  PROVE  f \in PointVectors(n)
  BY DEF PointVectors

LEMMA CoefficientsType ==
  ASSUME NEW n \in Nat, NEW v \in PointVectors(n), NEW base \in Bases
  PROVE  /\ Coefficients(v, base) \in Vectors(n)
         /\ \A k \in 1 .. n : Coefficients(v, base)[k] = v[k][base] /\ v[k] \in Pts
<1> DEFINE c == Coefficients(v, base)
<1>1. DOMAIN v = 1 .. n /\ \A k \in 1 .. n : v[k] \in Pts
  BY DEF PointVectors
<1>2. c = [k \in 1 .. n |-> v[k][base]]
  BY <1>1 DEF Coefficients
<1>3. \A k \in 1 .. n : c[k] = v[k][base] /\ v[k][base] \in Scalars
  BY <1>1, <1>2 DEF Pts
<1> HIDE DEF c
<1>4. c \in Vectors(n)
  BY <1>2, <1>3, VectorsAre
<1> QED
  BY <1>1, <1>3, <1>4 DEF c

LEMMA MsmCoefficient ==
  ASSUME NEW n \in Nat, NEW v \in PointVectors(n), NEW s \in Vectors(n)
  PROVE  /\ Msm(v, s) \in Pts
         /\ \A base \in Bases : Msm(v, s)[base] = InnerProductOf(Coefficients(v, base), s)
<1>1. DOMAIN v = 1 .. n /\ DOMAIN s = 1 .. n
  BY DEF PointVectors, Vectors
<1>2. Msm(v, s) = [base \in Bases |-> Msm(v, s)[base]]
  BY DEF Msm
<1>3. ASSUME NEW base \in Bases
      PROVE  /\ Msm(v, s)[base] = InnerProductOf(Coefficients(v, base), s)
             /\ Msm(v, s)[base] \in Scalars
  <2> DEFINE c == Coefficients(v, base)
             summands == [k \in 1 .. n |-> Mul(v[k][base], s[k])]
  <2>1. Msm(v, s)[base] = SumOf(summands)
    BY <1>1 DEF Msm
  <2>2. c \in Vectors(n) /\ \A k \in 1 .. n : c[k] = v[k][base]
    BY CoefficientsType
  <2>3. DOMAIN c = 1 .. n
    BY <2>2 DEF Vectors
  <2> HIDE DEF c
  <2>4. [k \in DOMAIN c \cap DOMAIN s |-> Mul(c[k], s[k])] = summands
    BY <1>1, <2>2, <2>3
  <2>5. InnerProductOf(c, s) = SumOf(summands)
    BY <2>4 DEF InnerProductOf
  <2>6. InnerProductOf(c, s) \in Scalars
    BY <2>2, ProductsType
  <2> QED
    BY <2>1, <2>5, <2>6 DEF c
<1> QED
  BY <1>2, <1>3 DEF Pts

LEMMA HalvesOfPoints ==
  ASSUME NEW m \in Nat, NEW v \in PointVectors(2 * m)
  PROVE  /\ Lower(v) \in PointVectors(m) /\ Upper(v) \in PointVectors(m)
         /\ \A k \in 1 .. m : /\ Lower(v)[k] = v[k] /\ Upper(v)[k] = v[m + k]
                              /\ k \in 1 .. (2 * m) /\ m + k \in 1 .. (2 * m)
                              /\ v[k] \in Pts /\ v[m + k] \in Pts
<1>1. v \in Seq(Pts) /\ Len(v) = 2 * m
  BY DEF PointVectors
<1>2. /\ Lower(v) \in Seq(Pts) /\ Upper(v) \in Seq(Pts)
      /\ Len(Lower(v)) = m /\ Len(Upper(v)) = m
      /\ \A k \in 1 .. m : /\ Lower(v)[k] = v[k] /\ Upper(v)[k] = v[m + k]
                           /\ k \in 1 .. (2 * m) /\ m + k \in 1 .. (2 * m)
                           /\ v[k] \in Pts /\ v[m + k] \in Pts
  BY <1>1, Halves
<1> QED
  BY <1>2 DEF PointVectors

LEMMA FoldedPointsType ==
  ASSUME NEW m \in Nat, NEW v \in PointVectors(2 * m), NEW lw \in Scalars, NEW hw \in Scalars
  PROVE  /\ FoldPoints(v, lw, hw) \in PointVectors(m)
         /\ \A k \in 1 .. m :
              FoldPoints(v, lw, hw)[k] = Plus(Scale(v[k], lw), Scale(v[m + k], hw))
<1> DEFINE f == FoldPoints(v, lw, hw)
           lo == Lower(v)
           hi == Upper(v)
<1>1. Len(v) \div 2 = m
  BY DEF PointVectors
<1>2. \A k \in 1 .. m : lo[k] = v[k] /\ hi[k] = v[m + k]
                        /\ v[k] \in Pts /\ v[m + k] \in Pts
  BY HalvesOfPoints
<1>3. f = [k \in 1 .. m |-> Plus(Scale(lo[k], lw), Scale(hi[k], hw))]
  BY <1>1 DEF FoldPoints
<1> HIDE DEF f, lo, hi
<1>4. \A k \in 1 .. m : f[k] = Plus(Scale(v[k], lw), Scale(v[m + k], hw))
  BY <1>2, <1>3
<1>5. \A p, q \in Pts : Plus(Scale(p, lw), Scale(q, hw)) \in Pts
  <2> SUFFICES ASSUME NEW p \in Pts, NEW q \in Pts, NEW base \in Bases
               PROVE  /\ Add(Mul(p[base], lw), Mul(q[base], hw)) \in Scalars
                      /\ Scale(p, lw)[base] = Mul(p[base], lw)
                      /\ Scale(q, hw)[base] = Mul(q[base], hw)
    BY DEF Plus, Pts
  <2>1. p[base] \in Scalars /\ q[base] \in Scalars
    BY DEF Pts
  <2>2. Mul(p[base], lw) \in Scalars /\ Mul(q[base], hw) \in Scalars
    BY <2>1, ScalarRules
  <2> QED
    BY <2>2, ScalarRules DEF Scale
<1>6. \A k \in 1 .. m : f[k] \in Pts
  BY <1>2, <1>4, <1>5
<1>7. f = [k \in 1 .. m |-> f[k]]
  BY <1>3
<1>8. f \in PointVectors(m)
  BY <1>6, <1>7, PointVectorsAre
<1> QED
  BY <1>4, <1>8 DEF f

\* Halving and folding points halves and folds their coefficients.
LEMMA CoefficientsFold ==
  ASSUME NEW m \in Nat, NEW v \in PointVectors(2 * m), NEW base \in Bases,
         NEW lw \in Scalars, NEW hw \in Scalars
  PROVE  /\ Coefficients(Lower(v), base) = Lower(Coefficients(v, base))
         /\ Coefficients(Upper(v), base) = Upper(Coefficients(v, base))
         /\ Coefficients(FoldPoints(v, lw, hw), base) = FoldScalars(Coefficients(v, base), lw, hw)
<1> DEFINE c == Coefficients(v, base)
           lo == Lower(v)
           hi == Upper(v)
           f == FoldPoints(v, lw, hw)
           cLo == Coefficients(lo, base)
           cHi == Coefficients(hi, base)
           cF == Coefficients(f, base)
           loC == Lower(c)
           hiC == Upper(c)
           fC == FoldScalars(c, lw, hw)
<1>1. 2 * m \in Nat
  OBVIOUS
<1>2. c \in Vectors(2 * m) /\ \A k \in 1 .. (2 * m) : c[k] = v[k][base]
  BY <1>1, CoefficientsType
<1>3. /\ lo \in PointVectors(m) /\ hi \in PointVectors(m)
      /\ \A k \in 1 .. m : /\ lo[k] = v[k] /\ hi[k] = v[m + k]
                           /\ k \in 1 .. (2 * m) /\ m + k \in 1 .. (2 * m)
                           /\ v[k] \in Pts /\ v[m + k] \in Pts
  BY HalvesOfPoints
<1>4. /\ f \in PointVectors(m)
      /\ \A k \in 1 .. m : f[k] = Plus(Scale(v[k], lw), Scale(v[m + k], hw))
  BY FoldedPointsType
<1> HIDE DEF lo, hi, f, c
<1>5. /\ loC \in Vectors(m) /\ hiC \in Vectors(m)
      /\ \A k \in 1 .. m : loC[k] = c[k] /\ hiC[k] = c[m + k]
  BY <1>2, HalvesOfVectors
<1>6. fC \in Vectors(m) /\ \A k \in 1 .. m : fC[k] = Add(Mul(c[k], lw), Mul(c[m + k], hw))
  BY <1>2, FoldedType
<1>7. /\ cLo \in Vectors(m) /\ \A k \in 1 .. m : cLo[k] = lo[k][base]
  BY <1>3, CoefficientsType
<1>8. /\ cHi \in Vectors(m) /\ \A k \in 1 .. m : cHi[k] = hi[k][base]
  BY <1>3, CoefficientsType
<1>9. /\ cF \in Vectors(m) /\ \A k \in 1 .. m : cF[k] = f[k][base]
  BY <1>4, CoefficientsType
<1> HIDE DEF cLo, cHi, cF, loC, hiC, fC
<1>10. cLo = loC
  BY <1>2, <1>3, <1>5, <1>7, VectorsEqual
<1>11. cHi = hiC
  BY <1>2, <1>3, <1>5, <1>8, VectorsEqual
<1>12. cF = fC
  <2>1. \A k \in 1 .. m : Plus(Scale(v[k], lw), Scale(v[m + k], hw))[base]
                            = Add(Mul(v[k][base], lw), Mul(v[m + k][base], hw))
    BY DEF Plus, Scale
  <2>2. \A k \in 1 .. m : cF[k] = fC[k]
    BY <1>2, <1>3, <1>4, <1>6, <1>9, <2>1
  <2> QED
    BY <1>6, <1>9, <2>2, VectorsEqual
<1> QED
  BY <1>10, <1>11, <1>12 DEF cLo, cHi, cF, loC, hiC, fC, lo, hi, f, c

----------------------------------------------------------------------------
(* Transcripts: sequences of items of no particular set. *)

Listed(t) == \E X : t \in Seq(X)

LEMMA ListedAppend ==
  ASSUME NEW t, Listed(t), NEW e
  PROVE  /\ Listed(Append(t, e)) /\ Len(Append(t, e)) = Len(t) + 1 /\ Len(t) \in Nat
         /\ \A k \in 1 .. Len(t) : Append(t, e)[k] = t[k]
         /\ Append(t, e)[Len(t) + 1] = e
<1>1. PICK X : t \in Seq(X)
  BY DEF Listed
<1> DEFINE Y == X \cup {e}
<1>2. t \in Seq(Y) /\ e \in Y
  BY <1>1
<1> HIDE DEF Y
<1>3. /\ Append(t, e) \in Seq(Y) /\ Len(Append(t, e)) = Len(t) + 1 /\ Len(t) \in Nat
      /\ \A k \in 1 .. Len(t) : Append(t, e)[k] = t[k]
      /\ Append(t, e)[Len(t) + 1] = e
  BY <1>2
<1> QED
  BY <1>3 DEF Listed

LEMMA ListedPrefix ==
  ASSUME NEW t, Listed(t), NEW n \in 0 .. Len(t)
  PROVE  /\ Listed(SubSeq(t, 1, n)) /\ Len(SubSeq(t, 1, n)) = n
         /\ \A k \in 1 .. n : SubSeq(t, 1, n)[k] = t[k]
<1>1. PICK X : t \in Seq(X)
  BY DEF Listed
<1>2. Len(t) \in Nat /\ n \in Nat /\ n <= Len(t)
  BY <1>1
<1>3. SubSeq(t, 1, n) \in Seq(X) /\ Len(SubSeq(t, 1, n)) = n
      /\ \A k \in 1 .. n : SubSeq(t, 1, n)[k] = t[k]
  BY <1>1, <1>2
<1> QED
  BY <1>3 DEF Listed

LEMMA ListedEqual ==
  ASSUME NEW t, Listed(t), NEW u, Listed(u), Len(t) = Len(u),
         \A k \in 1 .. Len(t) : t[k] = u[k]
  PROVE  t = u
<1>1. PICK X : t \in Seq(X)
  BY DEF Listed
<1>2. PICK Y : u \in Seq(Y)
  BY DEF Listed
<1>3. t = [k \in 1 .. Len(t) |-> t[k]] /\ u = [k \in 1 .. Len(u) |-> u[k]]
  BY <1>1, <1>2
<1> QED
  BY <1>3

\* A prefix and the next item.
LEMMA PrefixAppend ==
  ASSUME NEW t, Listed(t), NEW n \in Nat, n + 1 <= Len(t), Len(t) \in Nat
  PROVE  Append(SubSeq(t, 1, n), t[n + 1]) = SubSeq(t, 1, n + 1)
<1> DEFINE p == SubSeq(t, 1, n)
           q == SubSeq(t, 1, n + 1)
           a == Append(p, t[n + 1])
<1>1. n \in 0 .. Len(t) /\ n + 1 \in 0 .. Len(t)
  OBVIOUS
<1>2. Listed(p) /\ Len(p) = n /\ \A k \in 1 .. n : p[k] = t[k]
  BY <1>1, ListedPrefix
<1>3. Listed(q) /\ Len(q) = n + 1 /\ \A k \in 1 .. (n + 1) : q[k] = t[k]
  BY <1>1, ListedPrefix
<1> HIDE DEF p, q
<1>4. /\ Listed(a) /\ Len(a) = n + 1 /\ a[n + 1] = t[n + 1]
      /\ \A k \in 1 .. n : a[k] = p[k]
  BY <1>2, ListedAppend
<1> HIDE DEF a
<1>5. \A k \in 1 .. (n + 1) : a[k] = q[k]
  <2> SUFFICES ASSUME NEW k \in 1 .. (n + 1) PROVE a[k] = q[k]
    OBVIOUS
  <2>1. CASE k = n + 1
    BY <1>3, <1>4, <2>1
  <2>2. CASE k \in 1 .. n
    BY <1>2, <1>3, <1>4, <2>2
  <2> QED
    BY <2>1, <2>2
<1>6. a = q
  BY <1>3, <1>4, <1>5, ListedEqual
<1> QED
  BY <1>6 DEF a, p, q

\* A prefix of what was appended to.
LEMMA AppendPrefix ==
  ASSUME NEW t, Listed(t), NEW e, NEW n \in 0 .. Len(t)
  PROVE  SubSeq(Append(t, e), 1, n) = SubSeq(t, 1, n)
<1> DEFINE a == Append(t, e)
           p == SubSeq(a, 1, n)
           q == SubSeq(t, 1, n)
<1>1. /\ Listed(a) /\ Len(a) = Len(t) + 1 /\ Len(t) \in Nat
      /\ \A k \in 1 .. Len(t) : a[k] = t[k]
  BY ListedAppend
<1>2. n \in 0 .. Len(a)
  BY <1>1
<1> HIDE DEF a
<1>3. Listed(p) /\ Len(p) = n /\ \A k \in 1 .. n : p[k] = a[k]
  BY <1>1, <1>2, ListedPrefix
<1>4. Listed(q) /\ Len(q) = n /\ \A k \in 1 .. n : q[k] = t[k]
  BY ListedPrefix
<1> HIDE DEF p, q
<1>5. \A k \in 1 .. n : p[k] = q[k]
  BY <1>1, <1>3, <1>4
<1>6. p = q
  BY <1>3, <1>4, <1>5, ListedEqual
<1> QED
  BY <1>6 DEF a, p, q

LEMMA WholePrefix ==
  ASSUME NEW t, Listed(t)
  PROVE  SubSeq(t, 1, Len(t)) = t /\ Len(t) \in Nat
<1>1. Len(t) \in Nat
  BY DEF Listed
<1>2. Len(t) \in 0 .. Len(t)
  BY <1>1
<1> DEFINE p == SubSeq(t, 1, Len(t))
<1>3. Listed(p) /\ Len(p) = Len(t) /\ \A k \in 1 .. Len(t) : p[k] = t[k]
  BY <1>2, ListedPrefix
<1> HIDE DEF p
<1>4. p = t
  BY <1>3, ListedEqual
<1> QED
  BY <1>1, <1>4 DEF p

LEMMA FourItems ==
  ASSUME NEW t, Listed(t), NEW a, NEW b, NEW c, NEW d
  PROVE  LET u == Append(Append(Append(Append(t, a), b), c), d)
             n == Len(t)
         IN  /\ Listed(u) /\ n \in Nat /\ Len(u) = n + 4
             /\ \A k \in 1 .. n : u[k] = t[k]
             /\ u[n + 1] = a /\ u[n + 2] = b /\ u[n + 3] = c /\ u[n + 4] = d
             /\ \A k \in 0 .. n : SubSeq(u, 1, k) = SubSeq(t, 1, k)
             /\ SubSeq(u, 1, n + 2) = Append(Append(t, a), b)
<1> DEFINE ta == Append(t, a)
           tb == Append(ta, b)
           tc == Append(tb, c)
           u == Append(tc, d)
           n == Len(t)
<1>1. Listed(ta) /\ Len(ta) = n + 1 /\ n \in Nat /\ ta[n + 1] = a
      /\ \A k \in 1 .. n : ta[k] = t[k]
  BY ListedAppend
<1>2. \A k \in 0 .. n : SubSeq(ta, 1, k) = SubSeq(t, 1, k)
  BY AppendPrefix
<1> HIDE DEF ta
<1>3. Listed(tb) /\ Len(tb) = n + 2 /\ tb[n + 2] = b
      /\ \A k \in 1 .. (n + 1) : tb[k] = ta[k]
  BY <1>1, ListedAppend
<1>4. \A k \in 0 .. (n + 1) : SubSeq(tb, 1, k) = SubSeq(ta, 1, k)
  BY <1>1, AppendPrefix
<1>5. SubSeq(tb, 1, n + 2) = tb
  <2> HIDE DEF tb
  <2> QED
    BY <1>3, WholePrefix
<1> HIDE DEF tb
<1>6. Listed(tc) /\ Len(tc) = n + 3 /\ tc[n + 3] = c
      /\ \A k \in 1 .. (n + 2) : tc[k] = tb[k]
  BY <1>1, <1>3, ListedAppend
<1>7. \A k \in 0 .. (n + 2) : SubSeq(tc, 1, k) = SubSeq(tb, 1, k)
  BY <1>3, AppendPrefix
<1> HIDE DEF tc
<1>8. Listed(u) /\ Len(u) = n + 4 /\ u[n + 4] = d
      /\ \A k \in 1 .. (n + 3) : u[k] = tc[k]
  BY <1>1, <1>6, ListedAppend
<1>9. \A k \in 0 .. (n + 3) : SubSeq(u, 1, k) = SubSeq(tc, 1, k)
  BY <1>6, AppendPrefix
<1> HIDE DEF u, n
<1>10. /\ \A k \in 1 .. n : u[k] = t[k]
       /\ u[n + 1] = a /\ u[n + 2] = b /\ u[n + 3] = c /\ u[n + 4] = d
  BY <1>1, <1>3, <1>6, <1>8
<1>11. \A k \in 0 .. n : SubSeq(u, 1, k) = SubSeq(t, 1, k)
  BY <1>1, <1>2, <1>4, <1>7, <1>9
<1>12. SubSeq(u, 1, n + 2) = tb
  BY <1>1, <1>5, <1>7, <1>9
<1> QED
  BY <1>1, <1>8, <1>10, <1>11, <1>12 DEF u, n, ta, tb, tc

----------------------------------------------------------------------------
(* The oracle *)

LEMMA AskedKeeps ==
  ASSUME NEW o, NEW t, NEW label, NEW x \in Answers(o, t, label),
         \A question \in DOMAIN o : o[question] \in Scalars \ {0}
  PROVE  LET n == Asked(o, t, label, x)
         IN  /\ \A question \in DOMAIN o : question \in DOMAIN n /\ n[question] = o[question]
             /\ <<t, label>> \in DOMAIN n /\ n[<<t, label>>] = x
             /\ \A question \in DOMAIN n : n[question] \in Scalars \ {0}
             /\ x \in Scalars \ {0}
             /\ <<t, label>> \in DOMAIN o => x = o[<<t, label>>]
  BY DEF Answers, Asked

----------------------------------------------------------------------------
(* Points *)

LEMMA PlusSwap ==
  ASSUME NEW a \in Pts, NEW b \in Pts, NEW c \in Pts
  PROVE  /\ Plus(a, b) \in Pts /\ Plus(a, b) = Plus(b, a)
         /\ Plus(Plus(a, b), c) = Plus(Plus(a, c), b)
<1>1. \A base \in Bases : a[base] \in Scalars /\ b[base] \in Scalars /\ c[base] \in Scalars
  BY DEF Pts
<1>2. \A base \in Bases : Add(a[base], b[base]) \in Scalars
                          /\ Add(a[base], b[base]) = Add(b[base], a[base])
                          /\ Add(b[base], c[base]) = Add(c[base], b[base])
  BY <1>1, ScalarRules
<1>3. \A base \in Bases :
        /\ Add(Add(a[base], b[base]), c[base]) = Add(a[base], Add(b[base], c[base]))
        /\ Add(Add(a[base], c[base]), b[base]) = Add(a[base], Add(c[base], b[base]))
  BY <1>1, ScalarTriple
<1>4. \A base \in Bases : Add(Add(a[base], b[base]), c[base])
                            = Add(Add(a[base], c[base]), b[base])
  BY <1>2, <1>3
<1> QED
  BY <1>2, <1>4 DEF Plus, Pts

LEMMA PlusCancel ==
  ASSUME NEW a \in Pts, NEW b \in Pts, NEW c \in Pts
  PROVE  /\ Plus(a, c) = Plus(b, c) => a = b
         /\ Plus(c, a) = Plus(c, b) => a = b
<1>1. ASSUME Plus(a, c) = Plus(b, c) PROVE a = b
  <2>1. ASSUME NEW base \in Bases PROVE a[base] = b[base]
    <3>1. a[base] \in Scalars /\ b[base] \in Scalars /\ c[base] \in Scalars
      BY DEF Pts
    <3>2. Plus(a, c)[base] = Add(a[base], c[base]) /\ Plus(b, c)[base] = Add(b[base], c[base])
      BY DEF Plus
    <3> QED
      BY <1>1, <3>1, <3>2, AddCancel
  <2> QED
    BY <2>1, PointsEqual
<1>2. Plus(c, a) = Plus(a, c) /\ Plus(c, b) = Plus(b, c)
  BY PlusSwap
<1> QED
  BY <1>1, <1>2

LEMMA NonzeroProduct ==
  ASSUME NEW a \in Scalars, NEW b \in Scalars, a # 0, b # 0
  PROVE  Mul(a, b) # 0
<1>1. a \in 1 .. (P - 1) /\ b \in 1 .. (P - 1)
  BY ResiduesAreIntegers
<1> QED
  BY <1>1, PrimeAssumption DEF Mul

LEMMA InvertFacts ==
  ASSUME NEW x \in Scalars \ {0}
  PROVE  /\ x \in Scalars /\ x # 0
         /\ Invert(x) \in Scalars /\ Mul(x, Invert(x)) = 1 /\ Invert(x) # 0
<1>1. Invert(x) = InverseOf(x)
  BY DEF Invert, InverseOf
<1>2. InverseOf(x) \in Scalars /\ Mul(x, InverseOf(x)) = 1
  BY InverseExists
<1>3. InverseOf(x) # 0
  <2> HIDE DEF InverseOf
  <2> QED
    BY <1>2, InverseUnique
<1> QED
  BY <1>1, <1>2, <1>3

LEMMA BasePointAt ==
  ASSUME NEW base \in Bases, NEW other \in Bases
  PROVE  BasePoint(base)[other] = IF other = base THEN 1 ELSE 0
  BY DEF BasePoint, NoPoint

----------------------------------------------------------------------------
(* Fixtures and what their dealers send *)

LEMMA FixtureTypes ==
  ASSUME NEW f \in FixtureRecords
  PROVE  /\ f.threshold \in Nat /\ f.session \in Nat
         /\ DOMAIN f.participants = 1 .. Len(f.participants) /\ Len(f.participants) \in Nat
         /\ DOMAIN f.dealers = 1 .. Len(f.dealers) /\ Len(f.dealers) \in Nat
         /\ \A j \in DOMAIN f.participants :
              f.participants[j].id \in Nat /\ f.participants[j].secret \in 0 .. (Q - 1)
         /\ \A k \in DOMAIN f.dealers :
              /\ f.dealers[k].id \in Nat /\ f.dealers[k].secret \in 0 .. (Q - 1)
              /\ f.dealers[k].coefficients \in Seq(Scalars)
<1> DEFINE People == [id : Nat, secret : 0 .. (Q - 1)]
           Dealers == [id : Nat, secret : 0 .. (Q - 1), coefficients : Seq(Scalars)]
<1>1. f.participants \in Seq(People) /\ f.dealers \in Seq(Dealers)
  BY DEF FixtureRecords
<1>2. \A j \in DOMAIN f.participants : f.participants[j] \in People
  BY <1>1, ElementType
<1>3. \A k \in DOMAIN f.dealers : f.dealers[k] \in Dealers
  BY <1>1, ElementType
<1> QED
  BY <1>1, <1>2, <1>3 DEF FixtureRecords

\* A lookup by id finds the only record with the id.
LEMMA FindByIdFound ==
  ASSUME NEW records, DOMAIN records = 1 .. Len(records), NEW id
  PROVE  /\ FindById(records, id) # 0 => /\ FindById(records, id) \in DOMAIN records
                                         /\ records[FindById(records, id)].id = id
         /\ FindById(records, id) = 0 => \A k \in DOMAIN records : records[k].id # id
<1> DEFINE S == {k \in 1 .. Len(records) : records[k].id = id}
<1>1. S \in SUBSET Nat /\ FindById(records, id) = IF S # {} THEN Min(S) ELSE 0
  BY DEF FindById, SelectInSeq
<1>2. S # {} => Min(S) \in S
  BY <1>1, LeastElement
<1>3. \A k \in S : k # 0
  OBVIOUS
<1> QED
  BY <1>1, <1>2, <1>3

\* A fixture that runs has a threshold of its distinct participants, and the result
\* repeats it.
LEMMA RunIsFaithful ==
  ASSUME NEW f \in FixtureRecords, RunFixture(f).ok
  PROVE  LET s == RunFixture(f).value IN
         /\ s.config.threshold = f.threshold
         /\ s.config.participants = ParticipantIds(f)
         /\ s.session = f.session /\ s.participants = f.participants /\ s.dealers = f.dealers
         /\ DOMAIN s.transcripts = DOMAIN f.dealers
         /\ \A k \in DOMAIN f.dealers : s.transcripts[k] = BuildDealerTranscript(f, f.dealers[k])
         /\ f.participants # <<>>
         /\ f.threshold \in 1 .. Len(f.participants)
         /\ \A j, k \in DOMAIN f.participants :
              f.participants[j].id = f.participants[k].id => j = k
<1> DEFINE config == NewConfig(f.threshold, ParticipantIds(f))
           names == ParticipantIds(f)
<1>1. config.ok
  BY DEF RunFixture, Ok
<1>2. /\ names # <<>> /\ IsInjective(names) /\ f.threshold # 0 /\ ~(f.threshold > Len(names))
      /\ config.value = [threshold |-> f.threshold, participants |-> names]
  BY <1>1 DEF NewConfig, Ok, Err
<1>3. /\ DOMAIN f.participants = 1 .. Len(f.participants) /\ Len(f.participants) \in Nat
      /\ f.threshold \in Nat
  BY FixtureTypes
<1>4. Len(names) = Len(f.participants) /\ DOMAIN names = DOMAIN f.participants
      /\ \A j \in DOMAIN f.participants : names[j] = f.participants[j].id
  BY <1>3 DEF ParticipantIds
<1>5. f.participants # <<>>
  BY <1>2, <1>4
<1>6. RunFixture(f) = Ok([config |-> config.value, session |-> f.session,
                          participants |-> f.participants, dealers |-> f.dealers,
                          transcripts |-> [k \in DOMAIN f.dealers |->
                                             BuildDealerTranscript(f, f.dealers[k])]])
  BY <1>1 DEF RunFixture
<1> HIDE DEF names
<1> QED
  BY <1>2, <1>3, <1>4, <1>5, <1>6 DEF Ok, IsInjective, names

\* The mask that dealer k of the fixture uses for a participant.
MaskOf(f, k, id) ==
  DealerMask(f, f.dealers[k], f.participants[FindById(f.participants, id)])

\* Of transcript t nothing has changed that the proof of dealer k covers.
SentAs(f, t, k) ==
  /\ t \in Transcripts
  /\ t.dealer = f.dealers[k].id
  /\ t.poly = CommitPolynomial(f.dealers[k].coefficients)
  /\ \A n \in DOMAIN t.shares :
       t.shares[n].mask = GeneratorMul(MaskOf(f, k, t.shares[n].participant))

\* A committed polynomial is a sequence of points.
LEMMA CommitmentType ==
  ASSUME NEW c \in Seq(Scalars)
  PROVE  CommitPolynomial(c) \in Seq(Points) /\ Seq(Points) \subseteq Seq(Int)
<1>1. DOMAIN c = 1 .. Len(c) /\ Len(c) \in Nat
  OBVIOUS
<1>2. \A k \in DOMAIN c : c[k] \in Int
  BY ElementType, ResiduesAreIntegers
<1>3. \A k \in DOMAIN c : GeneratorMul(c[k]) \in Points
  BY <1>2, Closure
<1>4. [k \in DOMAIN c |-> GeneratorMul(c[k])] \in Seq(Points)
  BY <1>1, <1>3
<1>5. Seq(Points) \subseteq Seq(Int)
  BY ResiduesAreIntegers
<1> QED
  BY <1>4, <1>5 DEF CommitPolynomial

LEMMA DealerMaskType ==
  ASSUME NEW f \in FixtureRecords, NEW k \in DOMAIN f.dealers, NEW j \in DOMAIN f.participants
  PROVE  DealerMask(f, f.dealers[k], f.participants[j]) \in Scalars
<1> DEFINE d == f.dealers[k]
           p == f.participants[j]
<1>1. /\ f.session \in Int /\ d.id \in Int /\ p.id \in Int
      /\ d.secret \in 0 .. (Q - 1) /\ p.secret \in 0 .. (Q - 1)
      /\ d.coefficients \in Seq(Scalars)
  BY FixtureTypes
<1> HIDE DEF d, p
<1>2. HelperPublic(d.secret) \in 0 .. (Q - 1) /\ HelperPublic(p.secret) \in 0 .. (Q - 1)
  <2>1. \A x \in 0 .. (Q - 1) : x * HelperGenerator \in Int
    BY HelperAssumption
  <2> QED
    BY <1>1, <2>1, Remainder, HelperAssumption DEF HelperPublic
<1>3. HelperPublic(d.secret) \in Int /\ HelperPublic(p.secret) \in Int
  BY <1>2
<1>4. DiffieHellman(d.secret, HelperPublic(p.secret)) \in Int
  BY <1>1, <1>2, DiffieHellmanType
<1>5. CommitPolynomial(d.coefficients) \in Seq(Int)
  BY <1>1, CommitmentType
<1>6. DealerMask(f, d, p) \in Scalars
  BY <1>1, <1>3, <1>4, <1>5, MaskType DEF DealerMask
<1> QED
  BY <1>6 DEF d, p

LEMMA MaskOfType ==
  ASSUME NEW f \in FixtureRecords, NEW k \in DOMAIN f.dealers, NEW j \in DOMAIN f.participants
  PROVE  MaskOf(f, k, f.participants[j].id) \in Scalars
<1> DEFINE n == FindById(f.participants, f.participants[j].id)
<1>1. DOMAIN f.participants = 1 .. Len(f.participants)
  BY FixtureTypes
<1>2. n \in DOMAIN f.participants
  BY <1>1, FindByIdFound
<1> HIDE DEF n
<1>3. DealerMask(f, f.dealers[k], f.participants[n]) \in Scalars
  BY <1>2, DealerMaskType
<1> QED
  BY <1>3 DEF MaskOf, n

\* The share that dealer k sends to participant j.
SentShare(f, k, j) ==
  LET id == f.participants[j].id IN
  [participant |-> id,
   value |-> Add(Evaluate(f.dealers[k].coefficients, FromU64(id)), MaskOf(f, k, id)),
   mask  |-> GeneratorMul(MaskOf(f, k, id))]

LEMMA SentShareType ==
  ASSUME NEW f \in FixtureRecords, NEW k \in DOMAIN f.dealers, NEW j \in DOMAIN f.participants
  PROVE  SentShare(f, k, j) \in [participant : Nat, value : Scalars, mask : Points]
<1> DEFINE id == f.participants[j].id
           c == f.dealers[k].coefficients
           m == MaskOf(f, k, id)
<1>1. id \in Nat /\ c \in Seq(Int) /\ m \in Int
  BY FixtureTypes, MaskOfType, ResiduesAreIntegers
<1> HIDE DEF id, c, m
<1>2. FromU64(id) \in Int
  BY <1>1, Remainder, FieldAssumption DEF FromU64
<1>3. Evaluate(c, FromU64(id)) \in Int
  BY <1>1, <1>2, EvaluateType, ResiduesAreIntegers
<1>4. Add(Evaluate(c, FromU64(id)), m) \in Scalars /\ GeneratorMul(m) \in Points
  BY <1>1, <1>3, Closure
<1> QED
  BY <1>1, <1>4 DEF SentShare, id, c, m

\* What a dealer sends when the fixture runs.
LEMMA BuiltAsSent ==
  ASSUME NEW f \in FixtureRecords, RunFixture(f).ok, NEW k \in DOMAIN f.dealers
  PROVE  LET t == RunFixture(f).value.transcripts[k] IN
         /\ SentAs(f, t, k)
         /\ t.status = "Verified"
         /\ t.shares = [j \in DOMAIN f.participants |-> SentShare(f, k, j)]
<1> DEFINE t == RunFixture(f).value.transcripts[k]
           d == f.dealers[k]
           names == ParticipantIds(f)
           masks == [id \in ToSet(names) |-> MaskOf(f, k, id)]
           built == BuildTranscript(d.id, d.coefficients, names, masks)
<1>1. /\ DOMAIN f.participants = 1 .. Len(f.participants) /\ Len(f.participants) \in Nat
      /\ d.id \in Nat /\ d.coefficients \in Seq(Scalars)
      /\ f.participants # <<>>
  BY FixtureTypes, RunIsFaithful
<1>2. DOMAIN names = DOMAIN f.participants /\ names # <<>>
      /\ \A j \in DOMAIN f.participants :
           names[j] = f.participants[j].id /\ names[j] \in ToSet(names)
  BY <1>1 DEF ParticipantIds, ToSet
<1>3. t = [built.value EXCEPT !.status = "Verified"]
  <2>1. t = BuildDealerTranscript(f, d)
    BY RunIsFaithful
  <2> HIDE DEF t
  <2>2. masks = [id \in ToSet(names) |->
                   DealerMask(f, d, f.participants[FindById(f.participants, id)])]
    BY DEF MaskOf
  <2> HIDE DEF masks
  <2> QED
    BY <2>1, <2>2, Zenon DEF BuildDealerTranscript
<1> DEFINE shares ==
             [j \in DOMAIN names |->
                [participant |-> names[j],
                 value |-> Add(Evaluate(d.coefficients, FromU64(names[j])), masks[names[j]]),
                 mask  |-> GeneratorMul(masks[names[j]])]]
<1>4. built.value = [dealer |-> d.id, poly |-> CommitPolynomial(d.coefficients),
                     shares |-> shares, status |-> "Unverified"]
  BY <1>2 DEF BuildTranscript, Ok
<1>5. t = [dealer |-> d.id, poly |-> CommitPolynomial(d.coefficients),
           shares |-> shares, status |-> "Verified"]
  <2> HIDE DEF built, t, shares
  <2> QED
    BY <1>3, <1>4
<1> HIDE DEF built, names
<1>6. t.shares = [j \in DOMAIN f.participants |-> SentShare(f, k, j)]
  BY <1>2, <1>5 DEF SentShare
<1> HIDE DEF t, shares
<1>7. t.shares \in Seq([participant : Nat, value : Scalars, mask : Points])
  <2>1. \A j \in DOMAIN f.participants :
          SentShare(f, k, j) \in [participant : Nat, value : Scalars, mask : Points]
    BY SentShareType
  <2> QED
    BY <1>1, <1>6, <2>1
<1>8. t \in Transcripts
  BY <1>1, <1>5, <1>7, CommitmentType DEF Transcripts, Statuses
<1>9. \A n \in DOMAIN t.shares :
        t.shares[n].mask = GeneratorMul(MaskOf(f, k, t.shares[n].participant))
  BY <1>1, <1>6 DEF SentShare
<1> QED
  BY <1>5, <1>6, <1>8, <1>9 DEF SentAs, t

LEMMA RemovedFrom ==
  ASSUME NEW S, NEW s \in Seq(S), NEW n \in DOMAIN s
  PROVE  /\ RemoveAt(s, n) \in Seq(S)
         /\ \A m \in DOMAIN RemoveAt(s, n) : \E l \in DOMAIN s : RemoveAt(s, n)[m] = s[l]
<1> PICK len \in Nat : len = Len(s)
  OBVIOUS
<1> DEFINE a == SubSeq(s, 1, n - 1)
           b == SubSeq(s, n + 1, len)
           r == RemoveAt(s, n)
<1>1. n \in 1 .. len /\ DOMAIN s = 1 .. len
  OBVIOUS
<1>2. a \in Seq(S) /\ b \in Seq(S) /\ r = a \o b
  BY <1>1 DEF RemoveAt
<1>3. \A m \in DOMAIN a : m \in DOMAIN s /\ a[m] = s[m]
  BY <1>1
<1>4. DOMAIN b = 1 .. (len - n) /\ \A m \in 1 .. (len - n) : b[m] = s[(n + 1) + m - 1]
  BY <1>1
<1>5. \A m \in DOMAIN b : n + m \in DOMAIN s /\ b[m] = s[n + m]
  BY <1>1, <1>4
<1> HIDE DEF a, b, r
<1>6. ASSUME NEW m \in DOMAIN r PROVE \E l \in DOMAIN s : r[m] = s[l]
  <2>1. CASE m \in DOMAIN a
    BY <1>2, <1>3, <2>1
  <2>2. CASE m \notin DOMAIN a
    <3>1. m - Len(a) \in DOMAIN b /\ r[m] = b[m - Len(a)]
      BY <1>2, <2>2
    <3> QED
      BY <1>5, <3>1
  <2> QED
    BY <2>1, <2>2
<1>7. r \in Seq(S)
  BY <1>2
<1> QED
  BY <1>6, <1>7 DEF r

\* The share a dealer sent satisfies the commitment equation (transcript.rs:82).
LEMMA SentShareCommitted ==
  ASSUME NEW f \in FixtureRecords, NEW k \in DOMAIN f.dealers, NEW j \in DOMAIN f.participants
  PROVE  VerifyMaskedShareCommitment(SentShare(f, k, j),
                                     CommitPolynomial(f.dealers[k].coefficients))
<1> DEFINE id == f.participants[j].id
           c == f.dealers[k].coefficients
           m == MaskOf(f, k, id)
           x == FromU64(id)
<1>1. id \in Nat /\ c \in Seq(Int) /\ m \in Int
  BY FixtureTypes, MaskOfType, ResiduesAreIntegers
<1>2. SentShare(f, k, j) = [participant |-> id, value |-> Add(Evaluate(c, x), m),
                            mask |-> GeneratorMul(m)]
  BY DEF SentShare
<1> HIDE DEF id, c, m, x
<1>3. x \in Int
  BY <1>1, Remainder, FieldAssumption DEF FromU64, x
<1>4. Evaluate(c, x) \in Int
  BY <1>1, <1>3, EvaluateType, ResiduesAreIntegers
<1>5. GeneratorMul(Add(Evaluate(c, x), m)) = PointAdd(GeneratorMul(Evaluate(c, x)), GeneratorMul(m))
  BY <1>1, <1>4, GeneratorMulAdd
<1>6. EvaluatePublicPolynomial(CommitPolynomial(c), id) = GeneratorMul(Evaluate(c, x))
  BY <1>1, <1>3, PublicEvaluation, CommittedEvaluation DEF x
<1>7. VerifyMaskedShareCommitment(SentShare(f, k, j), CommitPolynomial(c))
  BY <1>2, <1>5, <1>6 DEF VerifyMaskedShareCommitment
<1> QED
  BY <1>7 DEF c

\* There is a first share for everyone who has one.
LEMMA FirstShareExists ==
  ASSUME NEW t \in Transcripts, NEW j \in DOMAIN t.shares
  PROVE  FirstShare(t, t.shares[j].participant) # 0
<1> DEFINE id == t.shares[j].participant
           S == {n \in 1 .. Len(t.shares) : t.shares[n].participant = id}
<1>1. j \in S /\ S \in SUBSET Nat /\ FirstShare(t, id) = IF S # {} THEN Min(S) ELSE 0
  BY DEF FirstShare, SelectInSeq, Transcripts
<1>2. Min(S) \in S
  BY <1>1, LeastElement
<1> QED
  BY <1>1, <1>2

LEMMA VerifiedForParticipant ==
  ASSUME NEW ts \in Seq(Transcripts), NEW id
  PROVE  /\ VerifyForParticipant(ts, id).ok \in BOOLEAN
         /\ VerifyForParticipant(ts, id).ok <=>
              \A k \in DOMAIN ts : ValidateTranscript(ts[k], id) = NoError
<1> DEFINE S == {k \in 1 .. Len(ts) : ValidateTranscript(ts[k], id) # NoError}
           bad == SelectInSeq(ts, LAMBDA t : ValidateTranscript(t, id) # NoError)
<1>1. S \in SUBSET Nat /\ bad = IF S # {} THEN Min(S) ELSE 0
  BY DEF SelectInSeq
<1>2. S # {} => Min(S) \in S
  BY <1>1, LeastElement
<1>3. bad = 0 <=> S = {}
  BY <1>1, <1>2
<1>4. /\ VerifyForParticipant(ts, id).ok \in BOOLEAN
      /\ VerifyForParticipant(ts, id).ok <=> bad = 0
  <2> HIDE DEF bad
  <2>1. CASE bad = 0
    BY <2>1 DEF VerifyForParticipant, Ok, bad
  <2>2. CASE bad # 0
    BY <2>2 DEF VerifyForParticipant, Err, bad
  <2> QED
    BY <2>1, <2>2
<1>5. S = {} <=> \A k \in DOMAIN ts : ValidateTranscript(ts[k], id) = NoError
  OBVIOUS
<1> QED
  BY <1>3, <1>4, <1>5

LEMMA DealersValidated ==
  ASSUME NEW config, NEW ts
  PROVE  ValidateDealers(config, ts) = NoError <=>
           ~(Len(ts) < config.threshold) /\ IsInjective(DealersOf(ts))
  BY DEF ValidateDealers, NoError

\* A sequence without repetition is as long as it has elements.
LEMMA AsManyAsDistinct ==
  ASSUME NEW s, NEW n \in Nat, DOMAIN s = 1 .. n, IsInjective(s)
  PROVE  Cardinality(ToSet(s)) = n
<1> DEFINE T == ToSet(s)
           g == [k \in 1 .. n |-> s[k]]
<1>1. g \in [1 .. n -> T] /\ \A y \in T : \E k \in 1 .. n : g[k] = y
  BY DEF ToSet
<1>2. IsInjective(g)
  BY DEF IsInjective
<1> HIDE DEF g, T
<1>3. g \in Bijection(1 .. n, T)
  BY <1>1, <1>2 DEF Bijection, Injection, Surjection
<1>4. ExistsBijection(1 .. n, T)
  BY <1>3 DEF ExistsBijection
<1>5. Cardinality(T) = n
  BY <1>4, FS_CountingElements
<1> QED
  BY <1>5 DEF T

=============================================================================
