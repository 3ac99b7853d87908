---------------------------- MODULE CircuitProofs ----------------------------
(***************************************************************************)
(* Proofs about CircuitProof, for every field, constraint system, challenge *)
(* and blinding.                                                           *)
(***************************************************************************)
EXTENDS CircuitProof, ProtocolTheorems, SequenceTheorems

----------------------------------------------------------------------------
(* Reckoning modulo P *)

Res(i) == i % P

\* An equation between scalars is one between integers.
LEMMA Residues ==
  /\ \A a \in Scalars : a \in Int /\ a = Res(a)
  /\ \A i, j \in Int : /\ Res(i) \in Scalars
                       /\ Add(Res(i), Res(j)) = Res(i + j)
                       /\ Mul(Res(i), Res(j)) = Res(i * j)
                       /\ Sub(Res(i), Res(j)) = Res(i - j)
<1>1. P \in Nat /\ P > 1 /\ Scalars = 0 .. (P - 1)
  BY ResiduesAreIntegers
<1>2. \A a \in Scalars : a \in Int /\ a = Res(a)
  BY <1>1, RemainderOfResidue DEF Res
<1>3. ASSUME NEW i \in Int, NEW j \in Int
      PROVE  /\ Res(i) \in Scalars /\ Add(Res(i), Res(j)) = Res(i + j)
             /\ Mul(Res(i), Res(j)) = Res(i * j) /\ Sub(Res(i), Res(j)) = Res(i - j)
  <2> DEFINE r == i % P
             s == j % P
             q == i \div P
             t == j \div P
  <2>1. r \in Scalars /\ s \in Scalars /\ r \in Int /\ s \in Int /\ q \in Int /\ t \in Int
        /\ i = P * q + r /\ j = P * t + s
    BY <1>1, Remainder
  <2> HIDE DEF r, s, q, t
  <2>2. (r + s) % P = (i + j) % P
    <3>1. i + j = (r + s) + P * (q + t) /\ r + s \in Int /\ q + t \in Int
      BY <1>1, <2>1
    <3>2. ((r + s) + P * (q + t)) % P = (r + s) % P
      BY <3>1, ShiftModP
    <3> QED
      BY <3>1, <3>2
  <2>3. (r * s) % P = (i * j) % P
    <3>1. i * j = (P * q + r) * (P * t + s)
      BY <2>1
    <3>2. (P * q + r) * (P * t + s) = (r * s) + P * (q * (P * t) + q * s + r * t)
      BY <1>1, <2>1
    <3>3. r * s \in Int /\ q * (P * t) + q * s + r * t \in Int
      BY <1>1, <2>1
    <3>4. ((r * s) + P * (q * (P * t) + q * s + r * t)) % P = (r * s) % P
      BY <3>3, ShiftModP
    <3> QED
      BY <3>1, <3>2, <3>4
  <2>4. (r - s) % P = (i - j) % P
    <3>1. i - j = (r - s) + P * (q - t) /\ r - s \in Int /\ q - t \in Int
      BY <1>1, <2>1
    <3>2. ((r - s) + P * (q - t)) % P = (r - s) % P
      BY <3>1, ShiftModP
    <3> QED
      BY <3>1, <3>2
  <2> QED
    BY <2>1, <2>2, <2>3, <2>4 DEF Res, Add, Mul, Sub, r, s
<1> QED
  BY <1>2, <1>3

\* Every power is the one before it times the base.
LEMMA PowersStep ==
  ASSUME NEW y \in Scalars, NEW n \in Nat
  PROVE  \A k \in 1 .. (n - 1) :
           PowersFromOne(y, n)[k + 1] = Mul(PowersFromOne(y, n)[k], y)
<1> DEFINE Rec(p) == p = [k \in 1 .. n |-> IF k = 1 THEN 1 ELSE Mul(p[k - 1], y)]
           step == [k \in 1 .. n |-> [x \in Scalars |-> Mul(x, y)]]
           power == CHOOSE p : Rec(p)
<1>1. 1 \in Scalars /\ step \in [1 .. n -> [Scalars -> Scalars]]
  <2>1. \A x \in Scalars : Mul(x, y) \in Scalars
    BY ScalarRules
  <2> QED
    BY <2>1, ResiduesAreIntegers
<1>2. PICK f : Iterates(f, n, Scalars, 1, step)
  <2> HIDE DEF step
  <2> QED
    BY <1>1, Iteration
<1> DEFINE g == [k \in 1 .. n |-> f[k - 1]]
<1>3. \A k \in 1 .. n : f[k] = Mul(f[k - 1], y)
  <2>1. f \in [0 .. n -> Scalars] /\ \A k \in 1 .. n : f[k] = step[k][f[k - 1]]
    BY <1>2 DEF Iterates
  <2>2. \A k \in 1 .. n : f[k - 1] \in Scalars
    BY <2>1
  <2> QED
    BY <2>1, <2>2
<1>4. Rec(g)
  <2>1. f[0] = 1
    BY <1>2 DEF Iterates
  <2>2. \A k \in 1 .. n : g[k] = IF k = 1 THEN 1 ELSE Mul(g[k - 1], y)
    <3> SUFFICES ASSUME NEW k \in 1 .. n PROVE g[k] = IF k = 1 THEN 1 ELSE Mul(g[k - 1], y)
      OBVIOUS
    <3>1. CASE k = 1
      BY <2>1, <3>1
    <3>2. CASE k # 1
      <4>1. k - 1 \in 1 .. n
        BY <3>2
      <4>2. f[k - 1] = Mul(f[(k - 1) - 1], y) /\ g[k - 1] = f[(k - 1) - 1] /\ g[k] = f[k - 1]
        BY <1>3, <4>1
      <4> QED
        BY <3>2, <4>2
    <3> QED
      BY <3>1, <3>2
  <2>3. g = [k \in 1 .. n |-> g[k]]
    OBVIOUS
  <2> HIDE DEF g
  <2> QED
    BY <2>2, <2>3
<1>5. Rec(power)
  BY <1>4
<1> HIDE DEF power
<1>6. \A k \in 1 .. (n - 1) : power[k + 1] = Mul(power[k], y)
  BY <1>5
<1>7. PowersFromOne(y, n) = [k \in 1 .. n |-> power[k]]
  BY DEF PowersFromOne, power
<1> QED
  BY <1>6, <1>7

----------------------------------------------------------------------------
(* Sums over finite sets *)

\* The partial sums of a function over the subsets of S.
SumsOver(T, f, S) ==
  /\ T \in [SUBSET S -> Scalars]
  /\ T[{}] = 0
  /\ \A s \in SUBSET S : \A k \in s : T[s] = Add(T[s \ {k}], f[k])
  /\ SumOver(S, f) = T[S]

LEMMA PartialSumsOver ==
  ASSUME NEW f, NEW S, IsFiniteSet(S), \A k \in S : f[k] \in Int
  PROVE  \E T : SumsOver(T, f, S)
<1> DEFINE step == [k \in S |-> [v \in Scalars |-> Add(f[k], v)]]
           pick == [s \in SUBSET S |-> CHOOSE x \in s : TRUE]
           Eq(h) == h = [s \in SUBSET S |-> IF s = {} THEN 0
                         ELSE LET x == CHOOSE x \in s : TRUE IN Add(f[x], h[s \ {x}])]
           T == CHOOSE h : Eq(h)
<1>1. /\ 0 \in Scalars /\ step \in [S -> [Scalars -> Scalars]]
      /\ \A x, y \in S : \A v \in Scalars : step[x][step[y][v]] = step[y][step[x][v]]
  <2>1. \A v \in Scalars : v \in Int
    BY ResiduesAreIntegers
  <2>2. \A x \in S : \A v \in Scalars : Add(f[x], v) \in Scalars
    BY <2>1, Closure
  <2>3. \A x, y \in S : \A v \in Scalars : Add(f[x], Add(f[y], v)) = Add(f[y], Add(f[x], v))
    <3> SUFFICES ASSUME NEW x \in S, NEW y \in S, NEW v \in Scalars
                 PROVE  Add(f[x], Add(f[y], v)) = Add(f[y], Add(f[x], v))
      OBVIOUS
    <3>1. /\ Add(Add(f[x], f[y]), v) = Add(f[x], Add(f[y], v))
          /\ Add(Add(f[y], f[x]), v) = Add(f[y], Add(f[x], v))
          /\ Add(f[x], f[y]) = Add(f[y], f[x])
      BY <2>1, RingAdd
    <3> QED
      BY <3>1
  <2>4. step \in [S -> [Scalars -> Scalars]]
    BY <2>2
  <2>5. \A x \in S : \A v \in Scalars : step[x][v] = Add(f[x], v)
    OBVIOUS
  <2> HIDE DEF step
  <2>6. \A x, y \in S : \A v \in Scalars : step[x][step[y][v]] = step[y][step[x][v]]
    BY <2>2, <2>3, <2>5
  <2> QED
    BY <2>4, <2>6, ResiduesAreIntegers
<1>2. \A s \in SUBSET S : s # {} => pick[s] \in s /\ pick[s] = CHOOSE x \in s : TRUE
  OBVIOUS
<1>3. \E h : Eq(h)
  <2>1. PICK h : FoldsBy(h, S, Scalars, 0, step, pick)
    <3> HIDE DEF step, pick
    <3> QED
      BY <1>1, <1>2, FoldExists
  <2>2. h \in [SUBSET S -> Scalars]
    BY <1>1, <2>1, FoldType
  <2>3. \A s \in SUBSET S : s # {} => pick[s] \in S /\ h[s \ {pick[s]}] \in Scalars
    BY <1>2, <2>2
  <2> HIDE DEF pick
  <2>4. \A s \in SUBSET S : s # {} =>
          step[pick[s]][h[s \ {pick[s]}]] = Add(f[pick[s]], h[s \ {pick[s]}])
    BY <2>3
  <2>5. h[{}] = 0 /\ \A s \in SUBSET S : s # {} => h[s] = Add(f[pick[s]], h[s \ {pick[s]}])
    BY <2>1, <2>3, <2>4 DEF FoldsBy
  <2>6. Eq(h)
    BY <1>2, <2>2, <2>5
  <2> QED
    BY <2>6
<1>4. Eq(T)
  BY <1>3
<1>5. T[{}] = 0 /\ T = [s \in SUBSET S |-> T[s]]
      /\ \A s \in SUBSET S : s # {} => T[s] = Add(f[pick[s]], T[s \ {pick[s]}])
  BY <1>4
<1>6. SumOver(S, f) = T[S]
  BY DEF SumOver, FoldFunctionOnSet, MapThenFoldSet
<1> HIDE DEF T, pick
<1>7. FoldsBy(T, S, Scalars, 0, step, pick)
  <2>1. \A s \in SUBSET S : s # {} =>
          (T[s \ {pick[s]}] \in Scalars => T[s] = step[pick[s]][T[s \ {pick[s]}]])
    BY <1>2, <1>5
  <2> QED
    BY <1>2, <1>5, <2>1 DEF FoldsBy
<1>8. Folds(T, S, Scalars, 0, step)
  <2> HIDE DEF step
  <2> QED
    BY <1>1, <1>7, FoldAnyOrder
<1>9. \A s \in SUBSET S : \A k \in s : T[s] = Add(T[s \ {k}], f[k])
  <2> SUFFICES ASSUME NEW s \in SUBSET S, NEW k \in s PROVE T[s] = Add(T[s \ {k}], f[k])
    OBVIOUS
  <2>1. T[s] = step[k][T[s \ {k}]] /\ T[s \ {k}] \in Scalars /\ k \in S
    BY <1>8 DEF Folds
  <2>2. T[s] = Add(f[k], T[s \ {k}]) /\ T[s \ {k}] \in Int /\ f[k] \in Int
    BY <2>1, ResiduesAreIntegers
  <2> QED
    BY <2>2, RingAdd
<1>10. SumsOver(T, f, S)
  BY <1>6, <1>8, <1>9 DEF Folds, SumsOver
<1> QED
  BY <1>10
LEMMA SumOverType ==
  ASSUME NEW S, IsFiniteSet(S), NEW f, \A k \in S : f[k] \in Scalars
  PROVE  SumOver(S, f) \in Scalars
<1>1. PICK T : SumsOver(T, f, S)
  BY PartialSumsOver, ResiduesAreIntegers
<1> QED
  BY <1>1 DEF SumsOver

LEMMA SumOverEmpty ==
  ASSUME NEW f
  PROVE  SumOver({}, f) = 0
<1>1. PICK T : SumsOver(T, f, {})
  BY PartialSumsOver, FS_EmptySet
<1> QED
  BY <1>1 DEF SumsOver

\* The terms may be taken in any order.
LEMMA SumOverStep ==
  ASSUME NEW S, IsFiniteSet(S), NEW f, \A k \in S : f[k] \in Scalars, NEW n \in S
  PROVE  SumOver(S, f) = Add(SumOver(S \ {n}, f), f[n])
<1> DEFINE R == S \ {n}
<1>0. \A k \in S : f[k] \in Int
  BY ResiduesAreIntegers
<1>1. IsFiniteSet(R) /\ R \in SUBSET S
  BY FS_Subset
<1>2. PICK T : SumsOver(T, f, S)
  BY <1>0, PartialSumsOver
<1>3. PICK U : SumsOver(U, f, R)
  BY <1>0, <1>1, PartialSumsOver
<1>4. SameSteps(T, U, R)
  BY <1>1, <1>2, <1>3 DEF SameSteps, SumsOver
<1>5. T[R] = U[R]
  BY <1>1, <1>4, StepsAgree
<1> QED
  BY <1>2, <1>3, <1>5 DEF SumsOver

\* A common factor.
LEMMA SumOverScaled ==
  ASSUME NEW S, IsFiniteSet(S), NEW f, NEW g, NEW c \in Scalars,
         \A k \in S : f[k] \in Scalars /\ g[k] = Mul(f[k], c)
  PROVE  SumOver(S, g) = Mul(SumOver(S, f), c)
<1> DEFINE G == {s \in SUBSET S : SumOver(s, g) = Mul(SumOver(s, f), c)}
<1>1. {} \in G
  BY SumOverEmpty, ScalarRules, ResiduesAreIntegers
<1>2. ASSUME NEW s \in SUBSET S, s # {}, \A x \in s : s \ {x} \in G
      PROVE  s \in G
  <2>1. PICK x \in s : SumOver(s \ {x}, g) = Mul(SumOver(s \ {x}, f), c)
    BY <1>2
  <2> DEFINE r == s \ {x}
             u == SumOver(r, f)
  <2>2. IsFiniteSet(s) /\ IsFiniteSet(r)
    BY FS_Subset
  <2>3. \A k \in s : f[k] \in Scalars /\ g[k] = Mul(f[k], c) /\ g[k] \in Scalars
    BY ScalarRules
  <2>4. u \in Scalars /\ f[x] \in Scalars
    BY <2>2, <2>3, SumOverType
  <2>5. SumOver(s, f) = Add(u, f[x])
    BY <2>2, <2>3, SumOverStep
  <2>6. SumOver(s, g) = Add(SumOver(r, g), g[x])
    BY <2>2, <2>3, SumOverStep
  <2>7. g[x] = Mul(f[x], c) /\ SumOver(r, g) = Mul(u, c)
    BY <2>1, <2>3
  <2> HIDE DEF u, r
  <2>8. Mul(Add(u, f[x]), c) = Add(Mul(u, c), Mul(f[x], c))
    BY <2>4, ScalarTriple
  <2> QED
    BY <2>5, <2>6, <2>7, <2>8
<1>3. \A s \in SUBSET S : s \in G
  <2>1. G \in SUBSET SUBSET S
    OBVIOUS
  <2> HIDE DEF G
  <2> QED
    BY <1>1, <1>2, <2>1, SetInduct
<1> QED
  BY <1>3

----------------------------------------------------------------------------
(* Sums and products of vectors *)

LEMMA VectorType ==
  ASSUME NEW n \in Nat, NEW a \in Vectors(n)
  PROVE  /\ a \in Seq(Scalars) /\ a \in Seq(Int) /\ Len(a) = n /\ DOMAIN a = 1 .. n
         /\ \A k \in 1 .. n : a[k] \in Scalars
         /\ SumOf(a) \in Scalars
<1>1. a \in Seq(Scalars) /\ Len(a) = n
  BY DEF Vectors
<1>2. Seq(Scalars) \subseteq Seq(Int)
  BY ResiduesAreIntegers
<1>3. SumOf(a) \in Scalars
  BY <1>1, <1>2, SumType
<1> QED
  BY <1>1, <1>2, <1>3

LEMMA SumOfLinear ==
  ASSUME NEW n \in Nat, NEW a \in Vectors(n), NEW b \in Vectors(n), NEW c \in Vectors(n),
         NEW q \in Scalars, NEW r \in Scalars,
         \A k \in 1 .. n : a[k] = Add(Mul(q, b[k]), Mul(r, c[k]))
  PROVE  SumOf(a) = Add(Mul(q, SumOf(b)), Mul(r, SumOf(c)))
<1>1. 1 \in Scalars
  BY ResiduesAreIntegers
<1>2. \A k \in 1 .. n : a[k] \in Scalars /\ Mul(1, a[k]) = Add(Mul(q, b[k]), Mul(r, c[k]))
  BY <1>1, VectorType, ScalarRules
<1>3. a \in Seq(Scalars) /\ b \in Seq(Scalars) /\ c \in Seq(Scalars)
      /\ DOMAIN a = 1 .. n /\ DOMAIN b = 1 .. n /\ DOMAIN c = 1 .. n
  BY VectorType
<1>4. Linear(1, a, q, b, r, c)
  BY <1>1, <1>2, <1>3 DEF Linear
<1>5. Mul(1, SumOf(a)) = Add(Mul(q, SumOf(b)), Mul(r, SumOf(c)))
  BY <1>3, <1>4, LinearSums
<1>6. SumOf(a) \in Scalars
  BY VectorType
<1> QED
  BY <1>1, <1>5, <1>6, ScalarRules

LEMMA SumOfAdded ==
  ASSUME NEW n \in Nat, NEW a \in Vectors(n), NEW b \in Vectors(n), NEW c \in Vectors(n),
         \A k \in 1 .. n : a[k] = Add(b[k], c[k])
  PROVE  SumOf(a) = Add(SumOf(b), SumOf(c))
<1>1. 1 \in Scalars
  BY ResiduesAreIntegers
<1>2. \A k \in 1 .. n : a[k] = Add(Mul(1, b[k]), Mul(1, c[k]))
  BY <1>1, VectorType, ScalarRules
<1>3. SumOf(a) = Add(Mul(1, SumOf(b)), Mul(1, SumOf(c)))
  BY <1>1, <1>2, SumOfLinear
<1>4. SumOf(b) \in Scalars /\ SumOf(c) \in Scalars
  BY VectorType
<1> QED
  BY <1>1, <1>3, <1>4, ScalarRules

LEMMA SumOfZeros ==
  ASSUME NEW n \in Nat, NEW a \in Vectors(n), \A k \in 1 .. n : a[k] = 0
  PROVE  SumOf(a) = 0
<1>1. 0 \in Scalars /\ Mul(0, 0) = 0 /\ Add(0, 0) = 0
  BY ScalarRules, AddZero, ResiduesAreIntegers
<1>2. SumOf(a) = Add(Mul(0, SumOf(a)), Mul(0, SumOf(a)))
  BY <1>1, SumOfLinear
<1>3. SumOf(a) \in Scalars
  BY VectorType
<1> QED
  BY <1>1, <1>2, <1>3, ScalarRules

\* A finite set falls into parts by a key of its elements.
PartsBy(S, f, key, m) == [k \in 1 .. m |-> SumOver({at \in S : key[at] = k}, f)]

LEMMA PartsByType ==
  ASSUME NEW S, IsFiniteSet(S), NEW f, \A at \in S : f[at] \in Scalars, NEW m \in Nat, NEW key
  PROVE  /\ PartsBy(S, f, key, m) \in Vectors(m)
         /\ \A k \in 1 .. m : PartsBy(S, f, key, m)[k] = SumOver({at \in S : key[at] = k}, f)
<1>1. ASSUME NEW k \in 1 .. m
      PROVE  PartsBy(S, f, key, m)[k] = SumOver({at \in S : key[at] = k}, f)
             /\ PartsBy(S, f, key, m)[k] \in Scalars
  <2> DEFINE R == {at \in S : key[at] = k}
  <2>1. IsFiniteSet(R) /\ R \in SUBSET S
    BY FS_Subset
  <2>2. SumOver(R, f) \in Scalars
    BY <2>1, SumOverType
  <2> QED
    BY <2>2 DEF PartsBy
<1>2. PartsBy(S, f, key, m) = [k \in 1 .. m |-> PartsBy(S, f, key, m)[k]]
  BY DEF PartsBy
<1> QED
  BY <1>1, <1>2, VectorsAre

LEMMA SumOverParts ==
  ASSUME NEW S, IsFiniteSet(S), NEW f, \A at \in S : f[at] \in Scalars, NEW m \in Nat, NEW key,
         \A at \in S : key[at] \in 1 .. m
  PROVE  SumOf(PartsBy(S, f, key, m)) = SumOver(S, f)
<1> DEFINE Parts(s) == PartsBy(s, f, key, m)
           G == {s \in SUBSET S : SumOf(Parts(s)) = SumOver(s, f)}
<1>1. {} \in G
  <2>1. \A k \in 1 .. m : {at \in {} : key[at] = k} = {}
    OBVIOUS
  <2>2. Parts({}) \in Vectors(m) /\ \A k \in 1 .. m : Parts({})[k] = SumOver({}, f)
    <3>1. Parts({}) \in Vectors(m)
          /\ \A k \in 1 .. m : Parts({})[k] = SumOver({at \in {} : key[at] = k}, f)
      BY FS_EmptySet, PartsByType
    <3> HIDE DEF Parts
    <3> QED
      BY <2>1, <3>1
  <2> QED
    BY <2>2, SumOverEmpty, SumOfZeros
<1>2. ASSUME NEW s \in SUBSET S, s # {}, \A x \in s : s \ {x} \in G
      PROVE  s \in G
  <2>1. PICK x \in s : SumOf(Parts(s \ {x})) = SumOver(s \ {x}, f)
    BY <1>2
  <2> DEFINE r == s \ {x}
             n == key[x]
             delta == [k \in 1 .. m |-> IF k = n THEN f[x] ELSE 0]
             Of(t, k) == {at \in t : key[at] = k}
  <2>2. /\ IsFiniteSet(s) /\ IsFiniteSet(r) /\ n \in 1 .. m /\ f[x] \in Scalars
        /\ r \in SUBSET S
    BY FS_Subset
  <2>3. /\ Parts(s) \in Vectors(m) /\ Parts(r) \in Vectors(m)
        /\ \A k \in 1 .. m : /\ Parts(s)[k] = SumOver(Of(s, k), f)
                             /\ Parts(r)[k] = SumOver(Of(r, k), f)
    <3>1. \A at \in s : f[at] \in Scalars
      OBVIOUS
    <3>2. \A at \in r : f[at] \in Scalars
      OBVIOUS
    <3>3. Parts(s) \in Vectors(m) /\ \A k \in 1 .. m : Parts(s)[k] = SumOver(Of(s, k), f)
      BY <2>2, <3>1, PartsByType
    <3> HIDE DEF r
    <3>4. Parts(r) \in Vectors(m) /\ \A k \in 1 .. m : Parts(r)[k] = SumOver(Of(r, k), f)
      BY <2>2, <3>2, PartsByType
    <3> QED
      BY <3>3, <3>4
  <2>4. delta \in Vectors(m) /\ SumOf(delta) = f[x]
    <3>1. 0 \in Scalars
      BY ResiduesAreIntegers
    <3>2. delta \in Seq(Scalars) /\ Len(delta) = m /\ n \in DOMAIN delta /\ delta[n] = f[x]
          /\ \A k \in DOMAIN delta \ {n} : delta[k] = 0
      BY <2>2, <3>1
    <3> HIDE DEF delta, n
    <3> QED
      BY <3>2, SumSingle DEF Vectors
  <2>5. ASSUME NEW k \in 1 .. m PROVE Parts(s)[k] = Add(Parts(r)[k], delta[k])
    <3>1. CASE k = n
      <4>1. x \in Of(s, k) /\ Of(s, k) \ {x} = Of(r, k) /\ Of(s, k) \in SUBSET s
        BY <3>1
      <4>2. IsFiniteSet(Of(s, k)) /\ \A at \in Of(s, k) : f[at] \in Scalars
        BY <2>2, <4>1, FS_Subset
      <4> DEFINE t == Of(s, k)
      <4>3. SumOver(t, f) = Add(SumOver(t \ {x}, f), f[x])
        <5> HIDE DEF t
        <5> QED
          BY <4>1, <4>2, SumOverStep DEF t
      <4> QED
        BY <2>3, <3>1, <4>1, <4>3
    <3>2. CASE k # n
      <4>1. Of(s, k) = Of(r, k)
        BY <3>2
      <4>2. Parts(r)[k] \in Scalars /\ delta[k] = 0
        BY <2>3, <3>2, VectorType
      <4> QED
        BY <2>3, <4>1, <4>2, AddZero
    <3> QED
      BY <3>1, <3>2
  <2> HIDE DEF delta, Parts
  <2>6. SumOf(Parts(s)) = Add(SumOf(Parts(r)), SumOf(delta))
    BY <2>3, <2>4, <2>5, SumOfAdded
  <2>7. SumOver(s, f) = Add(SumOver(r, f), f[x])
    BY <2>2, SumOverStep
  <2> QED
    BY <2>1, <2>4, <2>6, <2>7
<1>3. \A s \in SUBSET S : s \in G
  <2>1. G \in SUBSET SUBSET S
    OBVIOUS
  <2> HIDE DEF G
  <2> QED
    BY <1>1, <1>2, <2>1, SetInduct
<1> QED
  BY <1>3

\* The inner product is linear.
LEMMA InnerLinear ==
  ASSUME NEW n \in Nat, NEW a \in Vectors(n), NEW b \in Vectors(n), NEW c \in Vectors(n),
         NEW d \in Vectors(n), NEW q \in Scalars, NEW r \in Scalars,
         \A k \in 1 .. n : a[k] = Add(Mul(q, b[k]), Mul(r, c[k]))
  PROVE  /\ InnerProductOf(a, d)
              = Add(Mul(q, InnerProductOf(b, d)), Mul(r, InnerProductOf(c, d)))
         /\ InnerProductOf(d, a)
              = Add(Mul(q, InnerProductOf(d, b)), Mul(r, InnerProductOf(d, c)))
<1> DEFINE A == Products(a, d)
           B == Products(b, d)
           C == Products(c, d)
<1>1. /\ A \in Vectors(n) /\ B \in Vectors(n) /\ C \in Vectors(n)
      /\ \A k \in 1 .. n : /\ A[k] = Mul(a[k], d[k]) /\ B[k] = Mul(b[k], d[k])
                           /\ C[k] = Mul(c[k], d[k])
                           /\ b[k] \in Scalars /\ c[k] \in Scalars /\ d[k] \in Scalars
      /\ InnerProductOf(a, d) = SumOf(A) /\ InnerProductOf(b, d) = SumOf(B)
      /\ InnerProductOf(c, d) = SumOf(C)
  BY ProductsType
<1> HIDE DEF A, B, C
<1>2. ASSUME NEW k \in 1 .. n PROVE A[k] = Add(Mul(q, B[k]), Mul(r, C[k]))
  <2> DEFINE u == Mul(q, b[k])
             v == Mul(r, c[k])
  <2>1. u \in Scalars /\ v \in Scalars /\ b[k] \in Scalars /\ c[k] \in Scalars /\ d[k] \in Scalars
    BY <1>1, ScalarRules
  <2>2. Mul(u, d[k]) = Mul(q, B[k]) /\ Mul(v, d[k]) = Mul(r, C[k])
    BY <1>1, <2>1, ScalarTriple
  <2> HIDE DEF u, v
  <2>3. Mul(Add(u, v), d[k]) = Add(Mul(u, d[k]), Mul(v, d[k]))
    BY <2>1, ScalarTriple
  <2> QED
    BY <1>1, <2>2, <2>3 DEF u, v
<1>3. SumOf(A) = Add(Mul(q, SumOf(B)), Mul(r, SumOf(C)))
  BY <1>1, <1>2, SumOfLinear
<1> QED
  BY <1>1, <1>3, InnerCommutes

LEMMA InnerAdded ==
  ASSUME NEW n \in Nat, NEW a \in Vectors(n), NEW b \in Vectors(n), NEW c \in Vectors(n),
         NEW d \in Vectors(n), \A k \in 1 .. n : a[k] = Add(b[k], c[k])
  PROVE  /\ InnerProductOf(a, d) = Add(InnerProductOf(b, d), InnerProductOf(c, d))
         /\ InnerProductOf(d, a) = Add(InnerProductOf(d, b), InnerProductOf(d, c))
<1>1. 1 \in Scalars
  BY ResiduesAreIntegers
<1>2. \A k \in 1 .. n : a[k] = Add(Mul(1, b[k]), Mul(1, c[k]))
  BY <1>1, VectorType, ScalarRules
<1>3. InnerProductOf(a, d) = Add(Mul(1, InnerProductOf(b, d)), Mul(1, InnerProductOf(c, d)))
  BY <1>1, <1>2, InnerLinear
<1>4. InnerProductOf(b, d) \in Scalars /\ InnerProductOf(c, d) \in Scalars
  BY ProductsType
<1>5. InnerProductOf(a, d) = Add(InnerProductOf(b, d), InnerProductOf(c, d))
  BY <1>1, <1>3, <1>4, ScalarRules
<1> QED
  BY <1>5, InnerCommutes

LEMMA InnerScaled ==
  ASSUME NEW n \in Nat, NEW a \in Vectors(n), NEW b \in Vectors(n), NEW d \in Vectors(n),
         NEW q \in Scalars, \A k \in 1 .. n : a[k] = Mul(b[k], q)
  PROVE  /\ InnerProductOf(a, d) = Mul(InnerProductOf(b, d), q)
         /\ InnerProductOf(d, a) = Mul(InnerProductOf(d, b), q)
<1>1. 0 \in Scalars
  BY ResiduesAreIntegers
<1>2. ASSUME NEW k \in 1 .. n PROVE a[k] = Add(Mul(q, b[k]), Mul(0, b[k]))
  <2>1. b[k] \in Scalars /\ Mul(b[k], q) \in Scalars /\ Mul(b[k], q) = Mul(q, b[k])
        /\ Mul(0, b[k]) = 0
    BY VectorType, ScalarRules
  <2> QED
    BY <2>1, AddZero
<1>3. InnerProductOf(a, d) = Add(Mul(q, InnerProductOf(b, d)), Mul(0, InnerProductOf(b, d)))
  BY <1>1, <1>2, InnerLinear
<1> DEFINE i == InnerProductOf(b, d)
<1>4. i \in Scalars
  BY ProductsType
<1> HIDE DEF i
<1>5. Mul(q, i) = Mul(i, q) /\ Mul(i, q) \in Scalars /\ Mul(0, i) = 0
  BY <1>4, ScalarRules
<1>6. InnerProductOf(a, d) = Mul(i, q)
  BY <1>3, <1>5, AddZero DEF i
<1> QED
  BY <1>6, InnerCommutes DEF i

\* As far as the shorter vector goes.
Cut(v, n) == [k \in 1 .. n |-> v[k]]

LEMMA CutType ==
  ASSUME NEW n \in Nat, NEW m \in Nat, n <= m, NEW a \in Vectors(n), NEW b \in Vectors(m)
  PROVE  /\ Cut(b, n) \in Vectors(n) /\ \A k \in 1 .. n : Cut(b, n)[k] = b[k]
         /\ InnerProductOf(a, b) = InnerProductOf(a, Cut(b, n))
         /\ InnerProductOf(b, a) = InnerProductOf(Cut(b, n), a)
         /\ Hadamard(b, a) = Products(Cut(b, n), a)
         /\ Hadamard(a, b) = Products(a, Cut(b, n))
<1>1. DOMAIN a = 1 .. n /\ DOMAIN b = 1 .. m /\ \A k \in 1 .. m : b[k] \in Scalars
  BY VectorType
<1>2. 1 .. n \cap 1 .. m = 1 .. n /\ 1 .. m \cap 1 .. n = 1 .. n
  OBVIOUS
<1>3. Cut(b, n) = [k \in 1 .. n |-> Cut(b, n)[k]] /\ \A k \in 1 .. n : Cut(b, n)[k] = b[k]
  BY DEF Cut
<1>4. Cut(b, n) \in Vectors(n)
  BY <1>1, <1>3, VectorsAre
<1>5. DOMAIN Cut(b, n) = 1 .. n
  BY DEF Cut
<1> QED
  BY <1>1, <1>2, <1>3, <1>4, <1>5 DEF InnerProductOf, Hadamard, Products

\* Zeros add nothing.
LEMMA InnerPadded ==
  ASSUME NEW n \in Nat, NEW m \in Nat, n <= m, NEW a \in Vectors(m), NEW b \in Vectors(m),
         \A k \in (n + 1) .. m : a[k] = 0
  PROVE  InnerProductOf(a, b) = InnerProductOf(Cut(a, n), Cut(b, n))
<1> DEFINE A == Products(a, b)
           B == Products(Cut(a, n), Cut(b, n))
           e == [k \in 1 .. n |-> k]
<1>1. /\ A \in Vectors(m) /\ InnerProductOf(a, b) = SumOf(A)
      /\ \A k \in 1 .. m : A[k] = Mul(a[k], b[k]) /\ b[k] \in Scalars
  BY ProductsType
<1>2. /\ Cut(a, n) = [k \in 1 .. n |-> Cut(a, n)[k]] /\ Cut(b, n) = [k \in 1 .. n |-> Cut(b, n)[k]]
      /\ \A k \in 1 .. n : Cut(a, n)[k] = a[k] /\ Cut(b, n)[k] = b[k]
  BY DEF Cut
<1>3. Cut(a, n) \in Vectors(n) /\ Cut(b, n) \in Vectors(n)
  <2>1. \A k \in 1 .. m : a[k] \in Scalars /\ b[k] \in Scalars
    BY VectorType
  <2>2. \A k \in 1 .. n : Cut(a, n)[k] \in Scalars /\ Cut(b, n)[k] \in Scalars
    BY <1>2, <2>1
  <2> QED
    BY <1>2, <2>2, VectorsAre
<1>4. /\ B \in Vectors(n) /\ InnerProductOf(Cut(a, n), Cut(b, n)) = SumOf(B)
      /\ \A k \in 1 .. n : B[k] = Mul(a[k], b[k])
  <2> DEFINE u == Cut(a, n)
             v == Cut(b, n)
  <2>1. \A k \in 1 .. n : u[k] = a[k] /\ v[k] = b[k]
    BY <1>2
  <2>2. u \in Vectors(n) /\ v \in Vectors(n)
    BY <1>3
  <2> HIDE DEF u, v
  <2>3. /\ Products(u, v) \in Vectors(n) /\ InnerProductOf(u, v) = SumOf(Products(u, v))
        /\ \A k \in 1 .. n : Products(u, v)[k] = Mul(u[k], v[k])
    BY ONLY <2>2, n \in Nat, ProductsType
  <2>4. /\ Products(u, v) \in Vectors(n) /\ InnerProductOf(u, v) = SumOf(Products(u, v))
        /\ \A k \in 1 .. n : Products(u, v)[k] = Mul(a[k], b[k])
    BY ONLY <2>1, <2>3
  <2> QED
    BY ONLY <2>4 DEF u, v
<1> HIDE DEF A, B
<1>5. \A k \in (n + 1) .. m : A[k] = 0
  <2> SUFFICES ASSUME NEW k \in (n + 1) .. m PROVE A[k] = 0
    OBVIOUS
  <2>1. A[k] = Mul(0, b[k]) /\ b[k] \in Scalars
    BY <1>1
  <2> QED
    BY <2>1, ScalarRules
<1>6. DOMAIN A = 1 .. m /\ DOMAIN B = 1 .. n /\ A \in Seq(Int) /\ B \in Seq(Int)
  BY <1>1, <1>4, VectorType
<1>7. Reindexes(e, B, A, 0)
  <2>1. e \in [1 .. n -> 1 .. m] /\ \A k \in 1 .. n : e[k] = k
    OBVIOUS
  <2> HIDE DEF e
  <2>2. \A k \in 1 .. n : B[k] = A[e[k]]
    BY <1>1, <1>4, <2>1
  <2>3. \A j, k \in 1 .. n : e[j] = e[k] => j = k
    BY <2>1
  <2>4. ASSUME NEW k \in 1 .. m, \A j \in 1 .. n : e[j] # k PROVE A[k] = 0
    <3>1. k \in (n + 1) .. m
      BY <2>1, <2>4
    <3> QED
      BY <1>5, <3>1
  <2> QED
    BY <1>6, <2>1, <2>2, <2>3, <2>4 DEF Reindexes
<1>8. SumOf(B) = SumOf(A)
  BY <1>6, <1>7, SumReindexed
<1> QED
  BY <1>1, <1>4, <1>8

----------------------------------------------------------------------------
(* Sums of a few, powers *)

LEMMA SumOfLast ==
  ASSUME NEW n \in Nat, NEW m \in Nat, n < m, NEW f \in Vectors(m)
  PROVE  /\ Cut(f, n) \in Vectors(n) /\ Cut(f, n + 1) \in Vectors(n + 1)
         /\ SumOf(Cut(f, n + 1)) = Res(SumOf(Cut(f, n)) + f[n + 1])
<1>1. \A k \in 1 .. m : f[k] \in Scalars
  BY VectorType
<1>2. ASSUME NEW j \in 0 .. m PROVE Cut(f, j) \in Vectors(j)
  <2>1. Cut(f, j) = [k \in 1 .. j |-> Cut(f, j)[k]] /\ \A k \in 1 .. j : Cut(f, j)[k] = f[k]
    BY DEF Cut
  <2>2. \A k \in 1 .. j : Cut(f, j)[k] \in Scalars
    BY <1>1, <2>1
  <2> QED
    BY <2>1, <2>2, VectorsAre
<1>3. Cut(f, n) \in Vectors(n) /\ Cut(f, n + 1) \in Vectors(n + 1) /\ f[n + 1] \in Scalars
  BY <1>1, <1>2
<1>4. Cut(f, n) \in Seq(Int) /\ f[n + 1] \in Int /\ Cut(f, n) \in Seq(Scalars)
      /\ Len(Cut(f, n)) = n /\ SumOf(Cut(f, n)) \in Scalars
  BY <1>3, VectorType, ResiduesAreIntegers
<1>5. Cut(f, n + 1) = Append(Cut(f, n), f[n + 1])
  <2> DEFINE g == Cut(f, n)
             h == Append(g, f[n + 1])
  <2>1. h \in Seq(Scalars) /\ Len(h) = n + 1 /\ h[n + 1] = f[n + 1]
        /\ \A k \in 1 .. n : h[k] = g[k]
    BY <1>3, <1>4
  <2>2. \A k \in 1 .. n : g[k] = f[k]
    BY DEF Cut
  <2>3. h = [k \in 1 .. (n + 1) |-> h[k]]
    BY <2>1
  <2> HIDE DEF g, h
  <2>4. \A k \in 1 .. (n + 1) : h[k] = f[k]
    BY <2>1, <2>2
  <2>5. h = Cut(f, n + 1)
    BY <2>3, <2>4 DEF Cut
  <2> QED
    BY <2>5 DEF h, g
<1>6. SumOf(Cut(f, n + 1)) = Add(SumOf(Cut(f, n)), f[n + 1])
  BY <1>4, <1>5, SumAppend
<1>7. Add(SumOf(Cut(f, n)), f[n + 1]) = Res(SumOf(Cut(f, n)) + f[n + 1])
  <2> DEFINE s == SumOf(Cut(f, n))
             e == f[n + 1]
  <2>1. s \in Scalars /\ e \in Scalars
    BY <1>3, <1>4
  <2> HIDE DEF s, e
  <2>2. s \in Int /\ s = Res(s) /\ e \in Int /\ e = Res(e)
    BY <2>1, Residues
  <2>3. Add(s, e) = Res(s + e)
    BY <2>2, Residues
  <2> QED
    BY <2>3 DEF s, e
<1> QED
  BY <1>3, <1>6, <1>7

LEMMA SumOfNext ==
  ASSUME NEW n \in Nat, NEW m \in Nat, n < m, NEW f \in Vectors(m), NEW s \in Int,
         SumOf(Cut(f, n)) = Res(s)
  PROVE  SumOf(Cut(f, n + 1)) = Res(s + f[n + 1])
<1>1. SumOf(Cut(f, n + 1)) = Res(SumOf(Cut(f, n)) + f[n + 1])
  BY SumOfLast
<1>2. f[n + 1] \in Scalars
  BY VectorType
<1>3. f[n + 1] \in Int /\ f[n + 1] = Res(f[n + 1])
  BY <1>2, Residues
<1>4. Res(s) \in Int /\ Res(s) = Res(Res(s))
  BY Residues
<1>5. Res(Res(s) + f[n + 1]) = Add(Res(Res(s)), Res(f[n + 1]))
  BY <1>3, <1>4, Residues
<1>6. Add(Res(s), Res(f[n + 1])) = Res(s + f[n + 1])
  BY <1>3, Residues
<1> QED
  BY <1>1, <1>4, <1>5, <1>6

LEMMA SmallSums ==
  /\ \A f \in Vectors(3) : SumOf(f) = Res(f[1] + f[2] + f[3])
  /\ \A f \in Vectors(5) : SumOf(f) = Res(f[1] + f[2] + f[3] + f[4] + f[5])
  /\ \A f \in Vectors(6) : SumOf(f) = Res(f[1] + f[2] + f[3] + f[4] + f[5] + f[6])
<1>1. ASSUME NEW n \in Nat, NEW f \in Vectors(n) PROVE f = Cut(f, n)
  <2>1. f = [k \in 1 .. n |-> f[k]]
    BY VectorType
  <2> QED
    BY <2>1 DEF Cut
<1>2. ASSUME NEW n \in Nat, NEW f \in Vectors(n), 3 <= n
      PROVE  SumOf(Cut(f, 3)) = Res(f[1] + f[2] + f[3])
  <2>1. \A k \in 1 .. n : f[k] \in Int
    BY VectorType, Residues
  <2>2. f[1] \in Int /\ f[2] \in Int /\ f[3] \in Int
    BY <1>2, <2>1
  <2>3. SumOf(Cut(f, 0)) = 0
    <3>1. Cut(f, 0) = << >>
      BY DEF Cut
    <3> QED
      BY <3>1, SumEmpty
  <2>4. 0 = Res(0)
    BY Residues, ResiduesAreIntegers
  <2>5. SumOf(Cut(f, 1)) = Res(0 + f[1])
    BY <1>2, <2>3, <2>4, SumOfNext
  <2>6. SumOf(Cut(f, 2)) = Res(0 + f[1] + f[2])
    BY <1>2, <2>2, <2>5, SumOfNext
  <2>7. SumOf(Cut(f, 3)) = Res(0 + f[1] + f[2] + f[3])
    BY <1>2, <2>2, <2>6, SumOfNext
  <2>8. 0 + f[1] + f[2] + f[3] = f[1] + f[2] + f[3]
    BY <2>2
  <2> QED
    BY <2>7, <2>8
<1>3. ASSUME NEW n \in Nat, NEW f \in Vectors(n), 5 <= n
      PROVE  SumOf(Cut(f, 5)) = Res(f[1] + f[2] + f[3] + f[4] + f[5])
  <2>1. \A k \in 1 .. n : f[k] \in Int
    BY VectorType, Residues
  <2>2. f[1] \in Int /\ f[2] \in Int /\ f[3] \in Int /\ f[4] \in Int
    BY <1>3, <2>1
  <2>3. SumOf(Cut(f, 3)) = Res(f[1] + f[2] + f[3])
    BY <1>2, <1>3
  <2>4. SumOf(Cut(f, 4)) = Res(f[1] + f[2] + f[3] + f[4])
    BY <1>3, <2>2, <2>3, SumOfNext
  <2> QED
    BY <1>3, <2>2, <2>4, SumOfNext
<1>4. ASSUME NEW f \in Vectors(6)
      PROVE  SumOf(Cut(f, 6)) = Res(f[1] + f[2] + f[3] + f[4] + f[5] + f[6])
  <2>1. \A k \in 1 .. 6 : f[k] \in Int
    BY VectorType, Residues
  <2>2. f[1] \in Int /\ f[2] \in Int /\ f[3] \in Int /\ f[4] \in Int /\ f[5] \in Int
    BY <2>1
  <2>3. SumOf(Cut(f, 5)) = Res(f[1] + f[2] + f[3] + f[4] + f[5])
    BY <1>3
  <2> QED
    BY <2>2, <2>3, SumOfNext
<1> QED
  BY <1>1, <1>2, <1>3, <1>4

LEMMA PowersVector ==
  ASSUME NEW y \in Scalars, NEW n \in Nat
  PROVE  /\ PowersFromOne(y, n) \in Vectors(n)
         /\ n > 0 => PowersFromOne(y, n)[1] = 1
<1> DEFINE p == PowersFromOne(y, n)
<1>1. p \in [1 .. n -> Scalars] /\ (n > 0 => p[1] = 1)
  BY PowersType
<1> HIDE DEF p
<1>2. p = [k \in 1 .. n |-> p[k]] /\ \A k \in 1 .. n : p[k] \in Scalars
  BY <1>1
<1>3. p \in Vectors(n)
  BY <1>2, VectorsAre
<1> QED
  BY <1>1, <1>3 DEF p

LEMMA PowersBehindOne ==
  ASSUME NEW a \in Scalars, NEW n \in Nat
  PROVE  LET x == Tail(PowersFromOne(a, n + 1)) IN
         /\ x \in Vectors(n)
         /\ n > 0 => x[1] = a
         /\ \A k \in 1 .. (n - 1) : x[k + 1] = Mul(x[k], a)
<1> DEFINE p == PowersFromOne(a, n + 1)
           x == Tail(p)
<1>1. p \in Seq(Scalars) /\ Len(p) = n + 1 /\ p[1] = 1
  <2>1. p \in Vectors(n + 1) /\ p[1] = 1
    BY PowersVector
  <2> QED
    BY <2>1 DEF Vectors
<1>2. \A k \in 1 .. n : p[k + 1] = Mul(p[k], a)
  <2>1. \A k \in 1 .. ((n + 1) - 1) : p[k + 1] = Mul(p[k], a)
    BY PowersStep
  <2> HIDE DEF p
  <2> QED
    BY <2>1
<1> HIDE DEF p
<1>3. p # << >>
  BY <1>1
<1>4. x \in Seq(Scalars) /\ Len(x) = Len(p) - 1 /\ \A k \in 1 .. Len(x) : x[k] = p[k + 1]
  BY <1>1, <1>3, HeadTailProperties
<1> HIDE DEF x
<1>5. x \in Seq(Scalars) /\ Len(x) = n /\ \A k \in 1 .. n : x[k] = p[k + 1]
  BY <1>1, <1>4
<1>6. n > 0 => x[1] = a
  <2> SUFFICES ASSUME n > 0 PROVE x[1] = a
    OBVIOUS
  <2>1. x[1] = Mul(p[1], a)
    BY <1>2, <1>5
  <2> QED
    BY <1>1, <2>1, ScalarRules
<1>7. \A k \in 1 .. (n - 1) : x[k + 1] = Mul(x[k], a)
  <2> SUFFICES ASSUME NEW k \in 1 .. (n - 1) PROVE x[k + 1] = Mul(x[k], a)
    OBVIOUS
  <2>1. k \in 1 .. n /\ k + 1 \in 1 .. n
    OBVIOUS
  <2>2. x[k + 1] = p[(k + 1) + 1] /\ x[k] = p[k + 1] /\ p[(k + 1) + 1] = Mul(p[k + 1], a)
    BY <1>2, <1>5, <2>1
  <2> QED
    BY <2>2
<1> QED
  BY <1>5, <1>6, <1>7 DEF x, p, Vectors

\* The powers of a challenge.
LEMMA PowersOfChallenge ==
  ASSUME NEW a \in Scalars
  PROVE  LET x == Powers(a) IN
         /\ x \in Vectors(6) /\ \A k \in 1 .. 6 : x[k] \in Scalars
         /\ x[1] = a /\ x[2] = Mul(x[1], x[1]) /\ x[3] = Mul(x[1], x[2])
         /\ x[4] = Mul(x[2], x[2]) /\ x[5] = Mul(x[2], x[3]) /\ x[6] = Mul(x[3], x[3])
<1> DEFINE x == Powers(a)
<1>1. ASSUME NEW n \in Nat, n = 6
      PROVE  /\ x \in Vectors(n) /\ x[1] = a
             /\ \A k \in 1 .. (n - 1) : x[k + 1] = Mul(x[k], a)
             /\ \A k \in 1 .. n : x[k] \in Scalars
  <2>1. x = Tail(PowersFromOne(a, n + 1))
    BY <1>1 DEF Powers
  <2> HIDE DEF x
  <2>2. /\ x \in Vectors(n)
        /\ n > 0 => x[1] = a
        /\ \A k \in 1 .. (n - 1) : x[k + 1] = Mul(x[k], a)
    BY <2>1, PowersBehindOne
  <2>3. \A k \in 1 .. n : x[k] \in Scalars
    BY <2>2, VectorType
  <2> QED
    BY <1>1, <2>2, <2>3
<1> HIDE DEF x
<1>2. /\ x \in Vectors(6) /\ x[1] = a
      /\ \A k \in 1 .. 5 : x[k + 1] = Mul(x[k], a)
      /\ \A k \in 1 .. 6 : x[k] \in Scalars
  BY <1>1
<1>4. \A k \in 1 .. 6 : x[k] \in Scalars
  BY <1>2
<1>6. x[1] = a
  BY <1>2
<1>3. /\ x[1 + 1] = Mul(x[1], a) /\ x[2 + 1] = Mul(x[2], a) /\ x[3 + 1] = Mul(x[3], a)
      /\ x[4 + 1] = Mul(x[4], a) /\ x[5 + 1] = Mul(x[5], a)
  BY <1>2
<1>7. x[2] = Mul(a, a) /\ x[3] = Mul(x[2], a) /\ x[4] = Mul(x[3], a) /\ x[5] = Mul(x[4], a)
      /\ x[6] = Mul(x[5], a)
  BY <1>3, <1>6
<1>8. a \in Int /\ a = Res(a)
  BY Residues
<1>9. x[2] = Res(a * a)
  BY <1>7, <1>8, Residues
<1>10. x[3] = Res((a * a) * a)
  BY <1>7, <1>8, <1>9, Residues
<1>11. x[4] = Res(((a * a) * a) * a)
  BY <1>7, <1>8, <1>10, Residues
<1>12. x[5] = Res((((a * a) * a) * a) * a)
  BY <1>7, <1>8, <1>11, Residues
<1>13. x[6] = Res(((((a * a) * a) * a) * a) * a)
  BY <1>7, <1>8, <1>12, Residues
<1>14. /\ (a * a) * a = a * (a * a)
       /\ ((a * a) * a) * a = (a * a) * (a * a)
       /\ (((a * a) * a) * a) * a = (a * a) * ((a * a) * a)
       /\ ((((a * a) * a) * a) * a) * a = ((a * a) * a) * ((a * a) * a)
  BY <1>8
<1>15. x[3] = Mul(a, x[2])
  BY <1>8, <1>9, <1>10, <1>14, Residues
<1>16. x[4] = Mul(x[2], x[2])
  BY <1>8, <1>9, <1>11, <1>14, Residues
<1>17. x[5] = Mul(x[2], x[3])
  BY <1>8, <1>9, <1>10, <1>12, <1>14, Residues
<1>18. x[6] = Mul(x[3], x[3])
  BY <1>8, <1>10, <1>13, <1>14, Residues
<1> QED
  BY ONLY <1>2, <1>4, <1>6, <1>7, <1>15, <1>16, <1>17, <1>18, Zenon DEF x

\* Powers of the inverse are inverses of the powers.
LEMMA InversePowers ==
  ASSUME NEW y \in Scalars \ {0}, NEW n \in Nat
  PROVE  /\ Invert(y) \in Scalars
         /\ PowersFromOne(y, n) \in Vectors(n) /\ PowersFromOne(Invert(y), n) \in Vectors(n)
         /\ \A k \in 1 .. n : Mul(PowersFromOne(Invert(y), n)[k], PowersFromOne(y, n)[k]) = 1
<1> DEFINE u == Invert(y)
           p == PowersFromOne(y, n)
           q == PowersFromOne(u, n)
           G == {k \in Nat : k + 1 \in 1 .. n => Mul(q[k + 1], p[k + 1]) = 1}
<1>1. u \in Scalars /\ Mul(u, y) = 1
  BY InvertFacts, ScalarRules
<1>2. /\ p \in Seq(Scalars) /\ Len(p) = n /\ q \in Seq(Scalars) /\ Len(q) = n
      /\ n > 0 => p[1] = 1 /\ q[1] = 1
  BY <1>1, PowersVector, VectorType
<1>3. /\ \A k \in 1 .. (n - 1) : p[k + 1] = Mul(p[k], y)
      /\ \A k \in 1 .. (n - 1) : q[k + 1] = Mul(q[k], u)
  BY <1>1, PowersStep
<1> HIDE DEF u, p, q
<1>4. 1 \in Scalars /\ Mul(1, 1) = 1
  BY ScalarRules, ResiduesAreIntegers
<1>5. 0 \in G
  BY <1>2, <1>4
<1>6. ASSUME NEW k \in G PROVE k + 1 \in G
  <2> SUFFICES ASSUME k + 2 \in 1 .. n PROVE Mul(q[k + 2], p[k + 2]) = 1
    BY <1>6
  <2>1. k + 1 \in 1 .. (n - 1) /\ k + 1 \in 1 .. n /\ (k + 1) + 1 = k + 2
    BY <1>6
  <2>2. Mul(q[k + 1], p[k + 1]) = 1 /\ q[k + 1] \in Scalars /\ p[k + 1] \in Scalars
    BY <1>2, <1>6, <2>1
  <2>3. q[k + 2] = Mul(q[k + 1], u) /\ p[k + 2] = Mul(p[k + 1], y)
    BY <1>3, <2>1
  <2> DEFINE a == q[k + 1]
             b == p[k + 1]
  <2>4. a \in Scalars /\ b \in Scalars
    BY <2>2
  <2> HIDE DEF a, b
  <2>5. a \in Int /\ a = Res(a) /\ b \in Int /\ b = Res(b) /\ u \in Int /\ u = Res(u)
        /\ y \in Int /\ y = Res(y)
    BY <1>1, <2>4, Residues
  <2>6. Mul(Mul(a, u), Mul(b, y)) = Res((a * u) * (b * y))
    <3>1. Mul(a, u) = Res(a * u) /\ Mul(b, y) = Res(b * y)
      BY <2>5, Residues
    <3> QED
      BY <2>5, <3>1, Residues
  <2>7. Mul(Mul(a, b), Mul(u, y)) = Res((a * b) * (u * y))
    <3>1. Mul(a, b) = Res(a * b) /\ Mul(u, y) = Res(u * y)
      BY <2>5, Residues
    <3> QED
      BY <2>5, <3>1, Residues
  <2>8. (a * u) * (b * y) = (a * b) * (u * y)
    BY <2>5
  <2> QED
    BY <1>1, <1>4, <2>2, <2>3, <2>6, <2>7, <2>8 DEF a, b
<1>7. Nat \subseteq G
  <2> HIDE DEF G
  <2>1. G \in SUBSET Nat
    BY DEF G
  <2> QED
    BY <1>5, <1>6, <2>1, Induct
<1>8. ASSUME NEW k \in 1 .. n PROVE Mul(q[k], p[k]) = 1
  <2>1. k - 1 \in Nat /\ (k - 1) + 1 = k
    OBVIOUS
  <2>2. k - 1 \in G
    BY <1>7, <2>1
  <2> QED
    BY <2>1, <2>2
<1> QED
  BY <1>1, <1>2, <1>8 DEF u, p, q, Vectors

----------------------------------------------------------------------------
(* Products of sums of vectors *)

\* A sum of three vectors, each with its weight.
Blend(a, n, q1, b1, q2, b2, q3, b3) ==
  \A k \in 1 .. n : a[k] = Add(Add(Mul(q1, b1[k]), Mul(q2, b2[k])), Mul(q3, b3[k]))

Mixed(a, n, q1, b1, q2, b2, q3, b3) ==
  /\ n \in Nat /\ a \in Vectors(n)
  /\ b1 \in Vectors(n) /\ b2 \in Vectors(n) /\ b3 \in Vectors(n)
  /\ q1 \in Scalars /\ q2 \in Scalars /\ q3 \in Scalars
  /\ Blend(a, n, q1, b1, q2, b2, q3, b3)

LEMMA BlendInner ==
  ASSUME NEW a, NEW n, NEW q1, NEW b1, NEW q2, NEW b2, NEW q3, NEW b3,
         Mixed(a, n, q1, b1, q2, b2, q3, b3), NEW d \in Vectors(n)
  PROVE  /\ InnerProductOf(a, d)
              = Add(Add(Mul(q1, InnerProductOf(b1, d)), Mul(q2, InnerProductOf(b2, d))),
                    Mul(q3, InnerProductOf(b3, d)))
         /\ InnerProductOf(d, a)
              = Add(Add(Mul(q1, InnerProductOf(d, b1)), Mul(q2, InnerProductOf(d, b2))),
                    Mul(q3, InnerProductOf(d, b3)))
<1> DEFINE e == [k \in 1 .. n |-> Add(Mul(q1, b1[k]), Mul(q2, b2[k]))]
<1>0. /\ n \in Nat /\ a \in Vectors(n)
      /\ b1 \in Vectors(n) /\ b2 \in Vectors(n) /\ b3 \in Vectors(n)
      /\ q1 \in Scalars /\ q2 \in Scalars /\ q3 \in Scalars
      /\ Blend(a, n, q1, b1, q2, b2, q3, b3)
  BY DEF Mixed
<1>1. 1 \in Scalars
  BY ResiduesAreIntegers
<1>2. \A k \in 1 .. n : b1[k] \in Scalars /\ b2[k] \in Scalars /\ b3[k] \in Scalars
  BY <1>0, VectorType
<1>3. e = [k \in 1 .. n |-> e[k]] /\ \A k \in 1 .. n : e[k] = Add(Mul(q1, b1[k]), Mul(q2, b2[k]))
  OBVIOUS
<1> HIDE DEF e
<1>4. ASSUME NEW k \in 1 .. n PROVE e[k] \in Scalars
  <2>1. Mul(q1, b1[k]) \in Scalars /\ Mul(q2, b2[k]) \in Scalars
    BY <1>0, <1>2, ScalarRules
  <2> QED
    BY <1>3, <2>1, ScalarRules
<1>5. e \in Vectors(n)
  BY <1>0, <1>3, <1>4, VectorsAre
<1>6. /\ InnerProductOf(e, d)
           = Add(Mul(q1, InnerProductOf(b1, d)), Mul(q2, InnerProductOf(b2, d)))
      /\ InnerProductOf(d, e)
           = Add(Mul(q1, InnerProductOf(d, b1)), Mul(q2, InnerProductOf(d, b2)))
  BY <1>0, <1>3, <1>5, InnerLinear
<1>7. \A k \in 1 .. n : a[k] = Add(Mul(1, e[k]), Mul(q3, b3[k]))
  <2> SUFFICES ASSUME NEW k \in 1 .. n PROVE a[k] = Add(Mul(1, e[k]), Mul(q3, b3[k]))
    OBVIOUS
  <2>1. a[k] = Add(e[k], Mul(q3, b3[k]))
    BY <1>0, <1>3 DEF Blend
  <2>2. Mul(1, e[k]) = e[k]
    BY <1>1, <1>4, ScalarRules
  <2> QED
    BY <2>1, <2>2
<1>8. /\ InnerProductOf(a, d)
           = Add(Mul(1, InnerProductOf(e, d)), Mul(q3, InnerProductOf(b3, d)))
      /\ InnerProductOf(d, a)
           = Add(Mul(1, InnerProductOf(d, e)), Mul(q3, InnerProductOf(d, b3)))
  BY <1>0, <1>1, <1>5, <1>7, InnerLinear
<1>9. InnerProductOf(e, d) \in Scalars /\ InnerProductOf(d, e) \in Scalars
  BY <1>0, <1>5, ProductsType
<1>10. /\ Mul(1, InnerProductOf(e, d)) = InnerProductOf(e, d)
       /\ Mul(1, InnerProductOf(d, e)) = InnerProductOf(d, e)
  BY <1>1, <1>9, ScalarRules
<1> QED
  BY <1>6, <1>8, <1>10

LEMMA ResiduesOf ==
  /\ \A i, j, k \in Int : Add(Add(Res(i), Res(j)), Res(k)) = Res(i + j + k)
  /\ \A i, j, k \in Int : Mul(Mul(Res(i), Res(j)), Res(k)) = Res((i * j) * k)
<1>1. ASSUME NEW i \in Int, NEW j \in Int, NEW k \in Int
      PROVE  /\ Add(Add(Res(i), Res(j)), Res(k)) = Res(i + j + k)
             /\ Mul(Mul(Res(i), Res(j)), Res(k)) = Res((i * j) * k)
  <2>1. Add(Res(i), Res(j)) = Res(i + j) /\ Mul(Res(i), Res(j)) = Res(i * j)
    BY Residues
  <2>2. i + j \in Int /\ i * j \in Int
    OBVIOUS
  <2>3. Add(Res(i + j), Res(k)) = Res((i + j) + k) /\ Mul(Res(i * j), Res(k)) = Res((i * j) * k)
    BY <2>2, Residues
  <2> QED
    BY <2>1, <2>3
<1> QED
  BY <1>1

----------------------------------------------------------------------------
(* The polynomial whose coefficients a circuit proof commits to *)

\* What the challenges y and z make of a circuit of m committed values and n wires,
\* filled up to size wires.
Weighed(r, m, n, size) ==
  /\ n <= size
  /\ r.reduced.kappa \in Scalars /\ r.reduced.theta \in Vectors(m)
  /\ r.reduced.lambda \in Vectors(n) /\ r.reduced.rho \in Vectors(n)
  /\ r.reduced.omega \in Vectors(n)
  /\ r.yInv \in Scalars
  /\ r.yPowers \in Vectors(size) /\ PowersFromOne(r.yInv, size) \in Vectors(size)
  /\ \A k \in 1 .. size : Mul(PowersFromOne(r.yInv, size)[k], r.yPowers[k]) = 1
  /\ r.omegaMinusY \in Vectors(size)
  /\ \A k \in 1 .. n : r.omegaMinusY[k] = Sub(r.reduced.omega[k], r.yPowers[k])
  /\ r.yInvRho = Hadamard(PowersFromOne(r.yInv, size), r.reduced.rho)
  /\ r.yInvLambda = Hadamard(PowersFromOne(r.yInv, size), r.reduced.lambda)
  /\ r.yInvOmegaMinusY = Hadamard(PowersFromOne(r.yInv, size), r.omegaMinusY)

\* The vectors of a witness and of the blindings of its wires.
Wired(witness, wires, m, n) ==
  /\ witness.values \in Vectors(m) /\ witness.blinding \in Vectors(m)
  /\ witness.left \in Vectors(n) /\ witness.right \in Vectors(n)
  /\ witness.output \in Vectors(n)
  /\ \A k \in 1 .. n : witness.output[k] = Mul(witness.left[k], witness.right[k])
  /\ wires.leftBlinding \in Vectors(n) /\ wires.rightBlinding \in Vectors(n)

LEMMA HadamardCut ==
  ASSUME NEW n \in Nat, NEW size \in Nat, n <= size, NEW q \in Vectors(size), NEW v \in Vectors(n)
  PROVE  Hadamard(q, v) \in Vectors(n) /\ \A k \in 1 .. n : Hadamard(q, v)[k] = Mul(q[k], v[k])
<1> DEFINE c == Cut(q, n)
<1>1. c \in Vectors(n) /\ Hadamard(q, v) = Products(c, v) /\ \A k \in 1 .. n : c[k] = q[k]
  BY CutType
<1> HIDE DEF c
<1>2. Products(c, v) \in Vectors(n) /\ \A k \in 1 .. n : Products(c, v)[k] = Mul(c[k], v[k])
  BY <1>1, ProductsType
<1> QED
  BY <1>1, <1>2

LEMMA Sum2Type ==
  ASSUME NEW n \in Nat, NEW u \in Vectors(n), NEW v \in Vectors(n)
  PROVE  Sum2(u, v) \in Vectors(n) /\ \A k \in 1 .. n : Sum2(u, v)[k] = Add(u[k], v[k])
<1> DEFINE s == Sum2(u, v)
<1>1. DOMAIN u = 1 .. n /\ DOMAIN v = 1 .. n
      /\ \A k \in 1 .. n : u[k] \in Scalars /\ v[k] \in Scalars
  BY VectorType
<1>2. s = [k \in 1 .. n |-> s[k]] /\ \A k \in 1 .. n : s[k] = Add(u[k], v[k])
  BY <1>1 DEF Sum2
<1> HIDE DEF s
<1>3. ASSUME NEW k \in 1 .. n PROVE s[k] \in Scalars
  BY <1>1, <1>2, ScalarRules
<1>4. s \in Vectors(n)
  BY <1>2, <1>3, VectorsAre
<1> QED
  BY <1>2, <1>4 DEF s

LEMMA WeightsCut ==
  ASSUME NEW m \in Nat, NEW n \in Nat, NEW size \in Nat, NEW r, Weighed(r, m, n, size)
  PROVE  LET q == PowersFromOne(r.yInv, size) IN
         /\ r.yInvRho \in Vectors(n) /\ r.yInvLambda \in Vectors(n)
         /\ r.yInvOmegaMinusY \in Vectors(size)
         /\ \A k \in 1 .. n : /\ r.yInvRho[k] = Mul(q[k], r.reduced.rho[k])
                              /\ r.yInvLambda[k] = Mul(q[k], r.reduced.lambda[k])
                              /\ q[k] \in Scalars /\ r.yPowers[k] \in Scalars
                              /\ Mul(q[k], r.yPowers[k]) = 1
         /\ \A k \in 1 .. size : /\ r.yInvOmegaMinusY[k] = Mul(q[k], r.omegaMinusY[k])
                                 /\ q[k] \in Scalars /\ r.yPowers[k] \in Scalars
<1> DEFINE q == PowersFromOne(r.yInv, size)
<1>1. n <= size /\ q \in Vectors(size) /\ r.yPowers \in Vectors(size)
      /\ r.omegaMinusY \in Vectors(size)
      /\ \A k \in 1 .. size : Mul(q[k], r.yPowers[k]) = 1
  BY DEF Weighed
<1>2. /\ r.yInvRho = Hadamard(q, r.reduced.rho) /\ r.yInvLambda = Hadamard(q, r.reduced.lambda)
      /\ r.yInvOmegaMinusY = Hadamard(q, r.omegaMinusY)
      /\ r.reduced.rho \in Vectors(n) /\ r.reduced.lambda \in Vectors(n)
  BY DEF Weighed
<1> HIDE DEF q
<1>3. \A k \in 1 .. size : q[k] \in Scalars /\ r.yPowers[k] \in Scalars
  BY <1>1, VectorType
<1>5. /\ r.yInvOmegaMinusY \in Vectors(size)
      /\ \A k \in 1 .. size : r.yInvOmegaMinusY[k] = Mul(q[k], r.omegaMinusY[k])
  <2>1. Products(q, r.omegaMinusY) \in Vectors(size)
        /\ \A k \in 1 .. size : Products(q, r.omegaMinusY)[k] = Mul(q[k], r.omegaMinusY[k])
    BY <1>1, ProductsType
  <2>2. Hadamard(q, r.omegaMinusY) = Products(q, r.omegaMinusY)
    BY DEF Hadamard, Products
  <2> QED
    BY <1>2, <2>1, <2>2
<1>6. \A k \in 1 .. n : k \in 1 .. size
  BY <1>1
<1>7. /\ r.yInvRho \in Vectors(n) /\ \A k \in 1 .. n : r.yInvRho[k] = Mul(q[k], r.reduced.rho[k])
      /\ r.yInvLambda \in Vectors(n)
      /\ \A k \in 1 .. n : r.yInvLambda[k] = Mul(q[k], r.reduced.lambda[k])
  BY <1>1, <1>2, HadamardCut
<1> QED
  BY <1>1, <1>3, <1>5, <1>6, <1>7 DEF q

\* The vectors the polynomial is made of.
PolynomialVectors(p, witness, wires, r, n) ==
  /\ p.yRTilde \in Vectors(n) /\ p.yRLambda \in Vectors(n) /\ p.leftRho \in Vectors(n)
  /\ \A k \in 1 .. n :
       /\ p.yRTilde[k] = Mul(r.yPowers[k], wires.rightBlinding[k])
       /\ p.yRLambda[k] = Add(Mul(r.yPowers[k], witness.right[k]), r.reduced.lambda[k])
       /\ p.leftRho[k] = Add(witness.left[k], r.yInvRho[k])

LEMMA PolynomialMade ==
  ASSUME NEW m \in Nat, NEW n \in Nat, NEW size \in Nat, NEW r, Weighed(r, m, n, size),
         NEW witness, NEW wires, Wired(witness, wires, m, n)
  PROVE  PolynomialVectors(PolynomialState(witness, r, wires), witness, wires, r, n)
<1> DEFINE yR == Hadamard(r.yPowers, witness.right)
           yRT == Hadamard(r.yPowers, wires.rightBlinding)
           p == PolynomialState(witness, r, wires)
<1>1. n <= size /\ r.yPowers \in Vectors(size) /\ r.reduced.lambda \in Vectors(n)
  BY DEF Weighed
<1>2. /\ witness.left \in Vectors(n) /\ witness.right \in Vectors(n)
      /\ wires.rightBlinding \in Vectors(n)
  BY DEF Wired
<1>4. yR \in Vectors(n) /\ yRT \in Vectors(n)
      /\ \A k \in 1 .. n : /\ yR[k] = Mul(r.yPowers[k], witness.right[k])
                           /\ yRT[k] = Mul(r.yPowers[k], wires.rightBlinding[k])
  BY <1>1, <1>2, HadamardCut
<1>6. p.yRTilde = yRT /\ p.yRLambda = Sum2(yR, r.reduced.lambda)
      /\ p.leftRho = Sum2(witness.left, r.yInvRho)
  BY DEF PolynomialState
<1>7. r.yInvRho \in Vectors(n)
  BY WeightsCut
<1> HIDE DEF yR, yRT, p
<1>8. /\ p.yRTilde \in Vectors(n) /\ p.yRLambda \in Vectors(n) /\ p.leftRho \in Vectors(n)
      /\ \A k \in 1 .. n : /\ p.yRTilde[k] = yRT[k]
                           /\ p.yRLambda[k] = Add(yR[k], r.reduced.lambda[k])
                           /\ p.leftRho[k] = Add(witness.left[k], r.yInvRho[k])
  BY <1>1, <1>2, <1>4, <1>6, <1>7, Sum2Type
<1>9. PolynomialVectors(p, witness, wires, r, n)
  BY <1>4, <1>8 DEF PolynomialVectors
<1> QED
  BY <1>9 DEF p

LEMMA InnerSame ==
  ASSUME NEW n \in Nat, NEW a \in Vectors(n), NEW b \in Vectors(n), NEW c \in Vectors(n),
         NEW d \in Vectors(n), \A k \in 1 .. n : Mul(a[k], b[k]) = Mul(c[k], d[k])
  PROVE  InnerProductOf(a, b) = InnerProductOf(c, d)
<1>1. /\ Products(a, b) \in Vectors(n) /\ InnerProductOf(a, b) = SumOf(Products(a, b))
      /\ \A k \in 1 .. n : Products(a, b)[k] = Mul(a[k], b[k])
  BY ProductsType
<1>2. /\ Products(c, d) \in Vectors(n) /\ InnerProductOf(c, d) = SumOf(Products(c, d))
      /\ \A k \in 1 .. n : Products(c, d)[k] = Mul(c[k], d[k])
  BY ProductsType
<1> DEFINE u == Products(a, b)
           v == Products(c, d)
<1> HIDE DEF u, v
<1>3. u \in Vectors(n) /\ v \in Vectors(n) /\ \A k \in 1 .. n : u[k] = v[k]
  BY <1>1, <1>2 DEF u, v
<1>4. u = v
  BY <1>3, VectorsEqual
<1> QED
  BY <1>1, <1>2, <1>4 DEF u, v

\* The constraints, weighted and summed, vanish.
Balanced(witness, r) ==
  Add(Add(Add(Add(r.reduced.kappa, InnerProductOf(r.reduced.theta, witness.values)),
              InnerProductOf(r.reduced.lambda, witness.left)),
          InnerProductOf(r.reduced.rho, witness.right)),
      InnerProductOf(r.reduced.omega, witness.output)) = 0

\* The constraints are in the second coefficient: it is what is left when they hold.
LEMMA SecondCoefficient ==
  ASSUME NEW m \in Nat, NEW n \in Nat, NEW size \in Nat, NEW r, Weighed(r, m, n, size),
         NEW witness, NEW wires, Wired(witness, wires, m, n), Balanced(witness, r),
         NEW p, PolynomialVectors(p, witness, wires, r, n)
  PROVE  Add(InnerProductOf(p.leftRho, p.yRLambda),
             InnerProductOf(witness.output, r.omegaMinusY))
           = Sub(Sub(DeltaYZ(r), r.reduced.kappa),
                 InnerProductOf(r.reduced.theta, witness.values))
<1> DEFINE L == witness.left
           R == witness.right
           O == witness.output
           lam == r.reduced.lambda
           rho == r.reduced.rho
           om == r.reduced.omega
           yp == Cut(r.yPowers, n)
           oy == Cut(r.omegaMinusY, n)
           yR == Products(yp, R)
           q == PowersFromOne(r.yInv, size)
           ir == r.yInvRho
           lr == p.leftRho
           yl == p.yRLambda
<1>1. n <= size /\ r.yPowers \in Vectors(size) /\ r.omegaMinusY \in Vectors(size)
      /\ lam \in Vectors(n) /\ rho \in Vectors(n) /\ om \in Vectors(n)
      /\ r.reduced.kappa \in Scalars /\ r.reduced.theta \in Vectors(m)
      /\ \A k \in 1 .. n : r.omegaMinusY[k] = Sub(om[k], r.yPowers[k])
  BY DEF Weighed
<1>2. L \in Vectors(n) /\ R \in Vectors(n) /\ O \in Vectors(n) /\ witness.values \in Vectors(m)
      /\ \A k \in 1 .. n : O[k] = Mul(L[k], R[k])
  BY DEF Wired
<1>3. lr \in Vectors(n) /\ yl \in Vectors(n)
      /\ \A k \in 1 .. n : /\ yl[k] = Add(Mul(r.yPowers[k], R[k]), lam[k])
                           /\ lr[k] = Add(L[k], ir[k])
  BY DEF PolynomialVectors
<1>4. ir \in Vectors(n)
      /\ \A k \in 1 .. n : /\ ir[k] = Mul(q[k], rho[k])
                           /\ q[k] \in Scalars /\ r.yPowers[k] \in Scalars
                           /\ Mul(q[k], r.yPowers[k]) = 1
  BY WeightsCut
<1>5. /\ yp \in Vectors(n) /\ \A k \in 1 .. n : yp[k] = r.yPowers[k]
      /\ oy \in Vectors(n) /\ \A k \in 1 .. n : oy[k] = r.omegaMinusY[k]
      /\ InnerProductOf(O, r.omegaMinusY) = InnerProductOf(O, oy)
  <2> HIDE DEF L, R, lam, rho, om, q, ir, lr, yl
  <2>1. yp \in Vectors(n) /\ \A k \in 1 .. n : yp[k] = r.yPowers[k]
    <3> HIDE DEF oy
    <3> QED
      BY <1>1, <1>2, CutType
  <2>2. /\ oy \in Vectors(n) /\ \A k \in 1 .. n : oy[k] = r.omegaMinusY[k]
        /\ InnerProductOf(O, r.omegaMinusY) = InnerProductOf(O, oy)
    <3> HIDE DEF yp, O
    <3> QED
      BY <1>1, <1>2, CutType
  <2> QED
    BY <2>1, <2>2
<1>6. Balanced(witness, r)
  OBVIOUS
<1> DEFINE th == InnerProductOf(r.reduced.theta, witness.values)
           ka == r.reduced.kappa
<1>7. Add(Add(Add(Add(ka, th), InnerProductOf(lam, L)), InnerProductOf(rho, R)),
          InnerProductOf(om, O)) = 0
  BY <1>6 DEF Balanced
<1>8. th \in Scalars /\ ka \in Scalars
  BY <1>1, <1>2, ProductsType
<1>9. DeltaYZ(r) = InnerProductOf(ir, lam)
  BY DEF DeltaYZ
<1>10. \A k \in 1 .. n : /\ L[k] \in Scalars /\ R[k] \in Scalars /\ O[k] \in Scalars
                         /\ lam[k] \in Scalars /\ rho[k] \in Scalars /\ om[k] \in Scalars
  BY <1>1, <1>2, VectorType
<1> HIDE DEF L, R, O, lam, rho, om, yp, oy, q, ir, lr, yl, th, ka
<1>11. yR \in Vectors(n) /\ \A k \in 1 .. n : yR[k] = Mul(yp[k], R[k])
  BY <1>2, <1>5, ProductsType
<1> HIDE DEF yR
<1>12. ASSUME NEW k \in 1 .. n
       PROVE  /\ yl[k] = Add(yR[k], lam[k])
              /\ Mul(ir[k], yR[k]) = Mul(rho[k], R[k])
              /\ Mul(O[k], yp[k]) = Mul(L[k], yR[k])
              /\ oy[k] = Add(Mul(1, om[k]), Mul(Negate(1), yp[k]))
  <2> DEFINE a == q[k]
             b == r.yPowers[k]
             c == rho[k]
             d == R[k]
             e == L[k]
             f == om[k]
  <2>1. /\ a \in Scalars /\ b \in Scalars /\ c \in Scalars /\ d \in Scalars /\ e \in Scalars
        /\ f \in Scalars /\ Mul(a, b) = 1
    BY <1>4, <1>10
  <2>2. /\ yl[k] = Add(yR[k], lam[k]) /\ yR[k] = Mul(b, d) /\ ir[k] = Mul(a, c)
        /\ O[k] = Mul(e, d) /\ yp[k] = b /\ oy[k] = Sub(f, b)
    BY <1>1, <1>2, <1>3, <1>4, <1>5, <1>11
  <2> HIDE DEF a, b, c, d, e, f
  <2>3. /\ a \in Int /\ a = Res(a) /\ b \in Int /\ b = Res(b) /\ c \in Int /\ c = Res(c)
        /\ d \in Int /\ d = Res(d) /\ e \in Int /\ e = Res(e) /\ f \in Int /\ f = Res(f)
    BY <2>1, Residues
  <2>4. /\ Mul(b, d) = Res(b * d) /\ Mul(a, c) = Res(a * c) /\ Mul(e, d) = Res(e * d)
        /\ Mul(a, b) = Res(a * b) /\ Mul(c, d) = Res(c * d)
    BY <2>3, Residues
  <2>5. Mul(Mul(a, c), Mul(b, d)) = Res((a * c) * (b * d))
        /\ Mul(Mul(a, b), Mul(c, d)) = Res((a * b) * (c * d))
        /\ Mul(Mul(e, d), b) = Res((e * d) * b) /\ Mul(e, Mul(b, d)) = Res(e * (b * d))
    <3>1. /\ a * c \in Int /\ b * d \in Int /\ a * b \in Int /\ c * d \in Int /\ e * d \in Int
      BY <2>3
    <3>2. Mul(Res(a * c), Res(b * d)) = Res((a * c) * (b * d))
          /\ Mul(Res(a * b), Res(c * d)) = Res((a * b) * (c * d))
      BY <3>1, Residues
    <3>3. Mul(Res(e * d), Res(b)) = Res((e * d) * b) /\ Mul(Res(e), Res(b * d)) = Res(e * (b * d))
      BY <2>3, <3>1, Residues
    <3> QED
      BY <2>3, <2>4, <3>2, <3>3
  <2>6. (a * c) * (b * d) = (a * b) * (c * d) /\ (e * d) * b = e * (b * d)
    BY <2>3
  <2>7. Mul(1, Mul(c, d)) = Mul(c, d) /\ Mul(1, f) = f
    <3>1. Mul(c, d) \in Scalars
      BY <2>1, ScalarRules
    <3> QED
      BY <2>1, <3>1, ScalarRules
  <2>8. Sub(f, b) = Add(f, Mul(Negate(1), b))
    <3>1. Sub(f, b) = Res(f - b)
      BY <2>3, Residues
    <3>2. Negate(1) = Res(-1)
      BY DEF Negate, Res
    <3>3. Mul(Res(-1), Res(b)) = Res((-1) * b)
      BY <2>3, Residues
    <3>4. (-1) * b \in Int /\ f + ((-1) * b) = f - b
      BY <2>3
    <3>5. Add(Res(f), Res((-1) * b)) = Res(f + ((-1) * b))
      BY <2>3, <3>4, Residues
    <3> QED
      BY <2>3, <3>1, <3>2, <3>3, <3>4, <3>5
  <2>9. Mul(ir[k], yR[k]) = Mul(rho[k], R[k])
    <3>1. Mul(Mul(a, c), Mul(b, d)) = Mul(c, d)
      BY <2>1, <2>5, <2>6, <2>7
    <3> QED
      BY <2>2, <3>1 DEF c, d
  <2>10. Mul(O[k], yp[k]) = Mul(L[k], yR[k])
    <3>1. Mul(Mul(e, d), b) = Mul(e, Mul(b, d))
      BY <2>5, <2>6
    <3> QED
      BY <2>2, <3>1 DEF e
  <2>11. oy[k] = Add(Mul(1, om[k]), Mul(Negate(1), yp[k]))
    BY <2>2, <2>7, <2>8 DEF f
  <2> QED
    BY <2>2, <2>9, <2>10, <2>11
<1> DEFINE a1 == InnerProductOf(L, yR)
           a2 == InnerProductOf(L, lam)
           a3 == InnerProductOf(rho, R)
           d  == InnerProductOf(ir, lam)
           w  == InnerProductOf(om, O)
<1>13. InnerProductOf(lr, yl) = Add(Add(a1, a2), Add(a3, d))
  <2>1. InnerProductOf(lr, yl) = Add(InnerProductOf(L, yl), InnerProductOf(ir, yl))
    BY <1>2, <1>3, <1>4, InnerAdded
  <2>2. InnerProductOf(L, yl) = Add(a1, a2)
    BY <1>1, <1>2, <1>3, <1>11, <1>12, InnerAdded
  <2>3. InnerProductOf(ir, yl) = Add(InnerProductOf(ir, yR), d)
    BY <1>1, <1>3, <1>4, <1>11, <1>12, InnerAdded
  <2>4. InnerProductOf(ir, yR) = a3
    BY <1>1, <1>2, <1>4, <1>11, <1>12, InnerSame
  <2> QED
    BY <2>1, <2>2, <2>3, <2>4
<1>14. InnerProductOf(O, oy) = Add(Mul(1, w), Mul(Negate(1), a1))
  <2>1. 1 \in Scalars /\ Negate(1) \in Scalars
    BY ScalarRules, ResiduesAreIntegers
  <2>2. InnerProductOf(O, oy)
          = Add(Mul(1, InnerProductOf(O, om)), Mul(Negate(1), InnerProductOf(O, yp)))
    BY <1>1, <1>2, <1>5, <1>12, <2>1, InnerLinear
  <2>3. InnerProductOf(O, om) = w
    BY <1>1, <1>2, InnerCommutes
  <2>4. InnerProductOf(O, yp) = a1
    BY <1>2, <1>5, <1>11, <1>12, InnerSame
  <2> QED
    BY <2>2, <2>3, <2>4
<1>15. InnerProductOf(lam, L) = a2
  BY <1>1, <1>2, InnerCommutes
<1>16. a1 \in Scalars /\ a2 \in Scalars /\ a3 \in Scalars /\ d \in Scalars /\ w \in Scalars
  BY <1>1, <1>2, <1>4, <1>11, ProductsType
<1> DEFINE s == InnerProductOf(lr, yl)
           t == InnerProductOf(O, oy)
           dl == DeltaYZ(r)
<1>17. /\ s = Add(Add(a1, a2), Add(a3, d)) /\ t = Add(Mul(1, w), Mul(Negate(1), a1))
       /\ Add(Add(Add(Add(ka, th), a2), a3), w) = 0 /\ dl = d
  BY <1>7, <1>9, <1>13, <1>14, <1>15
<1> HIDE DEF a1, a2, a3, d, w, s, t, dl
<1>18. Add(s, t) = Sub(Sub(d, ka), th)
  <2>1. /\ a1 \in Int /\ a1 = Res(a1) /\ a2 \in Int /\ a2 = Res(a2) /\ a3 \in Int /\ a3 = Res(a3)
        /\ d \in Int /\ d = Res(d) /\ w \in Int /\ w = Res(w) /\ th \in Int /\ th = Res(th)
        /\ ka \in Int /\ ka = Res(ka)
    BY <1>8, <1>16, Residues
  <2>2. s = Res((a1 + a2) + (a3 + d))
    <3>1. Add(Res(a1), Res(a2)) = Res(a1 + a2) /\ Add(Res(a3), Res(d)) = Res(a3 + d)
      BY <2>1, Residues
    <3>2. a1 + a2 \in Int /\ a3 + d \in Int
      BY <2>1
    <3>3. Add(Res(a1 + a2), Res(a3 + d)) = Res((a1 + a2) + (a3 + d))
      BY <3>2, Residues
    <3> QED
      BY <1>17, <2>1, <3>1, <3>3
  <2>3. t = Res(w + ((-1) * a1))
    <3>1. Mul(1, w) = w /\ Negate(1) = Res(-1)
      BY <1>16, ScalarRules DEF Negate, Res
    <3>2. Mul(Res(-1), Res(a1)) = Res((-1) * a1)
      BY <2>1, Residues
    <3>3. (-1) * a1 \in Int
      BY <2>1
    <3>4. Add(Res(w), Res((-1) * a1)) = Res(w + ((-1) * a1))
      BY <2>1, <3>3, Residues
    <3> QED
      BY <1>17, <2>1, <3>1, <3>2, <3>4
  <2>4. Res((((ka + th) + a2) + a3) + w) = 0
    <3>1. Add(Res(ka), Res(th)) = Res(ka + th) /\ ka + th \in Int
      BY <2>1, Residues
    <3>2. Add(Res(ka + th), Res(a2)) = Res((ka + th) + a2) /\ (ka + th) + a2 \in Int
      BY <2>1, <3>1, Residues
    <3>3. Add(Res((ka + th) + a2), Res(a3)) = Res(((ka + th) + a2) + a3)
          /\ ((ka + th) + a2) + a3 \in Int
      BY <2>1, <3>2, Residues
    <3>4. Add(Res(((ka + th) + a2) + a3), Res(w)) = Res((((ka + th) + a2) + a3) + w)
      BY <2>1, <3>3, Residues
    <3> QED
      BY <1>17, <2>1, <3>1, <3>2, <3>3, <3>4
  <2>5. Sub(Sub(d, ka), th) = Res((d - ka) - th)
    <3>1. Sub(Res(d), Res(ka)) = Res(d - ka) /\ d - ka \in Int
      BY <2>1, Residues
    <3>2. Sub(Res(d - ka), Res(th)) = Res((d - ka) - th)
      BY <2>1, <3>1, Residues
    <3> QED
      BY <2>1, <3>1, <3>2
  <2> DEFINE i == (a1 + a2) + (a3 + d)
             j == w + ((-1) * a1)
             u == (d - ka) - th
             v == (((ka + th) + a2) + a3) + w
  <2>6. i \in Int /\ j \in Int /\ u \in Int /\ v \in Int /\ i + j = u + v
    BY <2>1
  <2> HIDE DEF i, j, u, v
  <2>7. s = Res(i) /\ t = Res(j) /\ Res(v) = 0 /\ Sub(Sub(d, ka), th) = Res(u)
    BY <2>2, <2>3, <2>4, <2>5 DEF i, j, u, v
  <2>8. Add(Res(i), Res(j)) = Res(u + v) /\ Add(Res(u), Res(v)) = Res(u + v)
        /\ Res(u) \in Scalars
    <3>1. Add(Res(i), Res(j)) = Res(i + j) /\ Add(Res(u), Res(v)) = Res(u + v)
          /\ Res(u) \in Scalars
      BY <2>6, Residues
    <3>2. i + j = u + v
      BY <2>6
    <3> QED
      BY <3>1, <3>2
  <2>9. Add(Res(u), 0) = Res(u)
    BY <2>8, AddZero
  <2> QED
    BY <2>7, <2>8, <2>9
<1> QED
  BY <1>5, <1>17, <1>18 DEF s, t, dl, lr, yl, O, th, ka

LEMMA VecScaleType ==
  ASSUME NEW n \in Nat, NEW v \in Vectors(n), NEW s \in Scalars
  PROVE  VecScale(v, s) \in Vectors(n) /\ \A k \in 1 .. n : VecScale(v, s)[k] = Mul(v[k], s)
<1> DEFINE c == VecScale(v, s)
<1>1. DOMAIN v = 1 .. n /\ \A k \in 1 .. n : v[k] \in Scalars
  BY VectorType
<1>2. c = [k \in 1 .. n |-> c[k]] /\ \A k \in 1 .. n : c[k] = Mul(v[k], s)
  BY <1>1 DEF VecScale
<1> HIDE DEF c
<1>3. ASSUME NEW k \in 1 .. n PROVE c[k] \in Scalars
  <2>1. c[k] = Mul(v[k], s) /\ v[k] \in Scalars
    BY <1>1, <1>2
  <2> QED
    BY <2>1, ScalarRules
<1>4. c \in Vectors(n)
  BY <1>2, <1>3, VectorsAre
<1> QED
  BY <1>2, <1>4 DEF c

LEMMA ResizedType ==
  ASSUME NEW n \in Nat, NEW m \in Nat, n <= m, NEW v \in Vectors(n)
  PROVE  /\ Resized(v, m) \in Vectors(m)
         /\ \A k \in 1 .. n : Resized(v, m)[k] = v[k]
         /\ \A k \in (n + 1) .. m : Resized(v, m)[k] = 0
<1> DEFINE c == Resized(v, m)
<1>1. Len(v) = n /\ \A k \in 1 .. n : v[k] \in Scalars
  BY VectorType
<1>2. c = [k \in 1 .. m |-> c[k]] /\ \A k \in 1 .. m : c[k] = IF k <= n THEN v[k] ELSE 0
  BY <1>1 DEF Resized
<1> HIDE DEF c
<1>3. 0 \in Scalars
  BY ResiduesAreIntegers
<1>4. /\ \A k \in 1 .. n : c[k] = v[k]
      /\ \A k \in (n + 1) .. m : c[k] = 0
  BY <1>2
<1>5. ASSUME NEW k \in 1 .. m PROVE c[k] \in Scalars
  BY <1>1, <1>2, <1>3
<1>6. c \in Vectors(m)
  BY <1>2, <1>5, VectorsAre
<1> QED
  BY <1>4, <1>6 DEF c

\* A list of six scalars is a vector.
LEMMA SixScalars ==
  ASSUME NEW a \in Scalars, NEW b \in Scalars, NEW c \in Scalars, NEW d \in Scalars,
         NEW e \in Scalars, NEW f \in Scalars
  PROVE  <<a, b, c, d, e, f>> \in Vectors(6)
<1> DEFINE v == <<a, b, c, d, e, f>>
<1>1. v \in Seq(Scalars) /\ Len(v) = 6
  OBVIOUS
<1> QED
  BY <1>1 DEF Vectors

\* The coefficients of the polynomial.
LEMMA CoefficientsMade ==
  ASSUME NEW m \in Nat, NEW n \in Nat, NEW size \in Nat, NEW r, Weighed(r, m, n, size),
         NEW witness, NEW wires, Wired(witness, wires, m, n)
  PROVE  LET p  == PolynomialState(witness, r, wires)
             oy == Cut(r.omegaMinusY, n)
             al == wires.leftBlinding
             O  == witness.output
         IN  /\ p.t \in Vectors(6)
             /\ oy \in Vectors(n) /\ \A k \in 1 .. n : oy[k] = r.omegaMinusY[k]
             /\ p.t[1] = InnerProductOf(p.leftRho, oy)
             /\ p.t[2] = Sub(Sub(DeltaYZ(r), r.reduced.kappa),
                             InnerProductOf(r.reduced.theta, witness.values))
             /\ p.t[3] = Add(InnerProductOf(al, oy), InnerProductOf(O, p.yRLambda))
             /\ p.t[4] = Add(InnerProductOf(al, p.yRLambda), InnerProductOf(p.leftRho, p.yRTilde))
             /\ p.t[5] = InnerProductOf(O, p.yRTilde)
             /\ p.t[6] = InnerProductOf(al, p.yRTilde)
<1> DEFINE p  == PolynomialState(witness, r, wires)
           oy == Cut(r.omegaMinusY, n)
           al == wires.leftBlinding
           O  == witness.output
           lr == p.leftRho
           yl == p.yRLambda
           yt == p.yRTilde
           th == InnerProductOf(r.reduced.theta, witness.values)
           t1 == InnerProductOf(lr, r.omegaMinusY)
           t2 == Sub(Sub(DeltaYZ(r), r.reduced.kappa), th)
           t3 == Add(InnerProductOf(al, r.omegaMinusY), InnerProductOf(O, yl))
           t4 == Add(InnerProductOf(al, yl), InnerProductOf(lr, yt))
           t5 == InnerProductOf(O, yt)
           t6 == InnerProductOf(al, yt)
<1>1. lr \in Vectors(n) /\ yl \in Vectors(n) /\ yt \in Vectors(n)
  BY PolynomialMade DEF PolynomialVectors
<1>2. p.t = <<t1, t2, t3, t4, t5, t6>>
  BY DEF PolynomialState
<1> HIDE DEF p
<1>3. al \in Vectors(n) /\ O \in Vectors(n) /\ witness.values \in Vectors(m)
  BY DEF Wired
<1>4. n <= size /\ r.omegaMinusY \in Vectors(size) /\ r.reduced.theta \in Vectors(m)
      /\ r.reduced.kappa \in Scalars /\ r.reduced.lambda \in Vectors(n)
  BY DEF Weighed
<1> HIDE DEF lr, yl, yt, al, O
<1>5. /\ oy \in Vectors(n) /\ \A k \in 1 .. n : oy[k] = r.omegaMinusY[k]
      /\ t1 = InnerProductOf(lr, oy)
      /\ InnerProductOf(al, r.omegaMinusY) = InnerProductOf(al, oy)
  BY <1>1, <1>3, <1>4, CutType
<1> HIDE DEF oy
<1>6. t1 \in Scalars /\ t5 \in Scalars /\ t6 \in Scalars
  BY <1>1, <1>3, <1>5, ProductsType
<1>7. t2 \in Scalars
  <2>1. th \in Scalars
    BY <1>3, <1>4, ProductsType
  <2>2. r.yInvRho \in Vectors(n)
    BY WeightsCut
  <2>3. DeltaYZ(r) \in Scalars
    BY <1>4, <2>2, ProductsType DEF DeltaYZ
  <2>4. Sub(DeltaYZ(r), r.reduced.kappa) \in Scalars
    BY <1>4, <2>3, ScalarRules
  <2> HIDE DEF th
  <2> QED
    BY <2>1, <2>4, ScalarRules
<1>8. t3 \in Scalars /\ t4 \in Scalars
  <2>1. /\ InnerProductOf(al, oy) \in Scalars /\ InnerProductOf(O, yl) \in Scalars
        /\ InnerProductOf(al, yl) \in Scalars /\ InnerProductOf(lr, yt) \in Scalars
    BY <1>1, <1>3, <1>5, ProductsType
  <2> QED
    BY <1>5, <2>1, ScalarRules
<1>9. t3 = Add(InnerProductOf(al, oy), InnerProductOf(O, yl))
  BY <1>5
<1> HIDE DEF t1, t2, t3, t4, t5, t6
<1>10. <<t1, t2, t3, t4, t5, t6>> \in Vectors(6)
  BY <1>6, <1>7, <1>8, SixScalars
<1>11. /\ p.t[1] = t1 /\ p.t[2] = t2 /\ p.t[3] = t3 /\ p.t[4] = t4 /\ p.t[5] = t5
       /\ p.t[6] = t6
  BY <1>2
<1>12. /\ p.t[1] = InnerProductOf(lr, oy) /\ p.t[2] = t2
       /\ p.t[3] = Add(InnerProductOf(al, oy), InnerProductOf(O, yl)) /\ p.t[4] = t4
       /\ p.t[5] = t5 /\ p.t[6] = t6 /\ p.t \in Vectors(6)
  BY <1>2, <1>5, <1>9, <1>10, <1>11
<1> QED
  BY <1>5, <1>12 DEF t2, t4, t5, t6, lr, yl, yt, al, O, oy, th, p

\* A residue may stand for the next term of a sum.
LEMMA NextResidue ==
  ASSUME NEW s \in Int, NEW t \in Int, NEW i \in Int, Res(s) = Res(t)
  PROVE  Res(s + Res(i)) = Res(t + i) /\ s + Res(i) \in Int /\ t + i \in Int
<1>1. Res(i) \in Int /\ Res(i) = Res(Res(i))
  BY Residues
<1>2. Res(s + Res(i)) = Add(Res(s), Res(Res(i)))
  BY <1>1, Residues
<1>3. Res(t + i) = Add(Res(t), Res(i))
  BY Residues
<1> QED
  BY <1>1, <1>2, <1>3

\* The powers of a challenge as residues of integers.
LEMMA PowerResidues ==
  ASSUME NEW x, x[1] \in Scalars, x[2] = Mul(x[1], x[1]), x[3] = Mul(x[1], x[2]),
         x[4] = Mul(x[2], x[2]), x[5] = Mul(x[2], x[3]), x[6] = Mul(x[3], x[3])
  PROVE  LET i == x[1] IN
         /\ i \in Int /\ x[1] = Res(i) /\ x[2] = Res(i * i) /\ x[3] = Res(i * (i * i))
         /\ x[4] = Res((i * i) * (i * i)) /\ x[5] = Res((i * i) * (i * (i * i)))
         /\ x[6] = Res((i * (i * i)) * (i * (i * i)))
<1> DEFINE i == x[1]
<1>1. i \in Int /\ i = Res(i)
  BY Residues
<1> HIDE DEF i
<1>2. i * i \in Int /\ i * (i * i) \in Int
  BY <1>1
<1>3. x[2] = Res(i * i)
  <2>1. Mul(Res(i), Res(i)) = Res(i * i)
    BY <1>1, Residues
  <2> QED
    BY <1>1, <2>1 DEF i
<1>4. x[3] = Res(i * (i * i))
  <2>1. Mul(Res(i), Res(i * i)) = Res(i * (i * i))
    BY <1>1, <1>2, Residues
  <2> QED
    BY <1>1, <1>3, <2>1 DEF i
<1>5. /\ Mul(Res(i * i), Res(i * i)) = Res((i * i) * (i * i))
      /\ Mul(Res(i * i), Res(i * (i * i))) = Res((i * i) * (i * (i * i)))
      /\ Mul(Res(i * (i * i)), Res(i * (i * i))) = Res((i * (i * i)) * (i * (i * i)))
  BY <1>2, Residues
<1>6. /\ x[4] = Res((i * i) * (i * i)) /\ x[5] = Res((i * i) * (i * (i * i)))
      /\ x[6] = Res((i * (i * i)) * (i * (i * i)))
  BY <1>3, <1>4, <1>5
<1> QED
  BY <1>1, <1>3, <1>4, <1>6 DEF i

\* The product of two vectors, each a polynomial in x, is a polynomial in x.
LEMMA ProductExpanded ==
  ASSUME NEW x \in Vectors(6), x[1] \in Scalars, x[2] = Mul(x[1], x[1]), x[3] = Mul(x[1], x[2]),
         x[4] = Mul(x[2], x[2]), x[5] = Mul(x[2], x[3]), x[6] = Mul(x[3], x[3]),
         NEW t \in Vectors(6), NEW A \in Vectors(3), NEW B \in Vectors(3), NEW C \in Vectors(3),
         t[1] = A[1], t[2] = Add(A[2], B[1]), t[3] = Add(C[1], B[2]), t[4] = Add(C[2], A[3]),
         t[5] = B[3], t[6] = C[3]
  PROVE  LET At(v) == Add(Add(Mul(1, v[1]), Mul(x[1], v[2])), Mul(x[3], v[3])) IN
         Add(Add(Mul(x[1], At(A)), Mul(x[2], At(B))), Mul(x[3], At(C))) = InnerProductOf(t, x)
<1> DEFINE At(v) == Add(Add(Mul(1, v[1]), Mul(x[1], v[2])), Mul(x[3], v[3]))
           i == x[1]
           i2 == i * i
           i3 == i * (i * i)
           IntAt(v) == v[1] + (i * v[2]) + (i3 * v[3])
<1>1. /\ i \in Int /\ x[1] = Res(i) /\ x[2] = Res(i2) /\ x[3] = Res(i3)
      /\ x[4] = Res(i2 * i2) /\ x[5] = Res(i2 * i3) /\ x[6] = Res(i3 * i3)
  BY PowerResidues
<1> HIDE DEF i
<1>2. i2 \in Int /\ i3 \in Int
  BY <1>1
<1>3. i3 = i * i2
  OBVIOUS
<1> HIDE DEF i2, i3
<1>4. ASSUME NEW v \in Vectors(3)
      PROVE  /\ v[1] \in Int /\ v[2] \in Int /\ v[3] \in Int
             /\ v[1] = Res(v[1]) /\ v[2] = Res(v[2]) /\ v[3] = Res(v[3])
             /\ At(v) = Res(IntAt(v)) /\ IntAt(v) \in Int
  <2>1. ASSUME NEW n \in Nat, n = 3 PROVE \A k \in 1 .. n : v[k] \in Scalars
    BY <2>1, VectorType
  <2>2. v[1] \in Scalars /\ v[2] \in Scalars /\ v[3] \in Scalars
    BY <2>1
  <2>3. /\ v[1] \in Int /\ v[2] \in Int /\ v[3] \in Int
        /\ v[1] = Res(v[1]) /\ v[2] = Res(v[2]) /\ v[3] = Res(v[3])
    BY <2>2, Residues
  <2> DEFINE a == v[1]
             b == v[2]
             c == v[3]
  <2>4. /\ a \in Int /\ b \in Int /\ c \in Int /\ a = Res(a) /\ b = Res(b) /\ c = Res(c)
        /\ a \in Scalars
    BY <2>2, <2>3
  <2>5. At(v) = Add(Add(Mul(1, a), Mul(x[1], b)), Mul(x[3], c))
    OBVIOUS
  <2>6. IntAt(v) = a + (i * b) + (i3 * c)
    OBVIOUS
  <2> HIDE DEF a, b, c, At, IntAt
  <2>7. Mul(1, a) = a
    BY <2>4, ScalarRules
  <2>8. Mul(Res(i), Res(b)) = Res(i * b) /\ Mul(Res(i3), Res(c)) = Res(i3 * c)
    BY <1>1, <1>2, <2>4, Residues
  <2>9. i * b \in Int /\ i3 * c \in Int
    BY <1>1, <1>2, <2>4
  <2>10. Add(Add(Res(a), Res(i * b)), Res(i3 * c)) = Res(a + (i * b) + (i3 * c))
    BY <2>4, <2>9, ResiduesOf
  <2>11. At(v) = Res(IntAt(v))
    BY <1>1, <2>4, <2>5, <2>6, <2>7, <2>8, <2>10
  <2>12. IntAt(v) \in Int
    BY <2>4, <2>6, <2>9
  <2> QED
    BY <2>3, <2>11, <2>12
<1> DEFINE a1 == A[1]
           a2 == A[2]
           a3 == A[3]
           b1 == B[1]
           b2 == B[2]
           b3 == B[3]
           c1 == C[1]
           c2 == C[2]
           c3 == C[3]
           a == a1 + (i * a2) + (i3 * a3)
           b == b1 + (i * b2) + (i3 * b3)
           c == c1 + (i * c2) + (i3 * c3)
<1>5. /\ a1 \in Int /\ a2 \in Int /\ a3 \in Int /\ b1 \in Int /\ b2 \in Int /\ b3 \in Int
      /\ c1 \in Int /\ c2 \in Int /\ c3 \in Int
      /\ a1 = Res(a1) /\ a2 = Res(a2) /\ a3 = Res(a3) /\ b1 = Res(b1) /\ b2 = Res(b2)
      /\ b3 = Res(b3) /\ c1 = Res(c1) /\ c2 = Res(c2) /\ c3 = Res(c3)
  BY <1>4
<1>6. At(A) = Res(a) /\ At(B) = Res(b) /\ At(C) = Res(c) /\ a \in Int /\ b \in Int /\ c \in Int
  BY <1>4
<1>7. Add(Add(Mul(x[1], At(A)), Mul(x[2], At(B))), Mul(x[3], At(C)))
        = Res((i * a) + (i2 * b) + (i3 * c))
  <2> HIDE DEF At, a, b, c
  <2>1. /\ Mul(Res(i), Res(a)) = Res(i * a) /\ Mul(Res(i2), Res(b)) = Res(i2 * b)
        /\ Mul(Res(i3), Res(c)) = Res(i3 * c)
    BY <1>1, <1>2, <1>6, Residues
  <2>2. i * a \in Int /\ i2 * b \in Int /\ i3 * c \in Int
    BY <1>1, <1>2, <1>6
  <2>3. Add(Add(Res(i * a), Res(i2 * b)), Res(i3 * c)) = Res((i * a) + (i2 * b) + (i3 * c))
    BY <2>2, ResiduesOf
  <2> QED
    BY <1>1, <1>6, <2>1, <2>3
<1>8. /\ t[1] = Res(a1) /\ t[2] = Res(a2 + b1) /\ t[3] = Res(c1 + b2) /\ t[4] = Res(c2 + a3)
      /\ t[5] = Res(b3) /\ t[6] = Res(c3)
  <2> HIDE DEF a, b, c, At, IntAt
  <2>1. t[1] = a1 /\ t[2] = Add(a2, b1) /\ t[3] = Add(c1, b2) /\ t[4] = Add(c2, a3)
        /\ t[5] = b3 /\ t[6] = c3
    <3>1. t[1] = a1 /\ t[5] = b3 /\ t[6] = c3
      OBVIOUS
    <3>2. t[2] = Add(a2, b1)
      OBVIOUS
    <3>3. t[3] = Add(c1, b2)
      OBVIOUS
    <3>4. t[4] = Add(c2, a3)
      OBVIOUS
    <3> QED
      BY <3>1, <3>2, <3>3, <3>4
  <2> HIDE DEF a1, a2, a3, b1, b2, b3, c1, c2, c3, At
  <2>2. /\ Add(Res(a2), Res(b1)) = Res(a2 + b1) /\ Add(Res(c1), Res(b2)) = Res(c1 + b2)
        /\ Add(Res(c2), Res(a3)) = Res(c2 + a3)
    BY <1>5, Residues
  <2> QED
    BY <1>5, <2>1, <2>2
<1> HIDE DEF a1, a2, a3, b1, b2, b3, c1, c2, c3, At
<1> DEFINE p == Products(t, x)
<1>9. /\ p \in Vectors(6) /\ InnerProductOf(t, x) = SumOf(p)
      /\ p[1] = Mul(t[1], x[1]) /\ p[2] = Mul(t[2], x[2]) /\ p[3] = Mul(t[3], x[3])
      /\ p[4] = Mul(t[4], x[4]) /\ p[5] = Mul(t[5], x[5]) /\ p[6] = Mul(t[6], x[6])
  <2>1. ASSUME NEW n \in Nat, n = 6
        PROVE  /\ p \in Vectors(n) /\ InnerProductOf(t, x) = SumOf(p)
               /\ \A k \in 1 .. n : p[k] = Mul(t[k], x[k])
    BY <2>1, ProductsType
  <2> HIDE DEF p
  <2>2. p \in Vectors(6) /\ InnerProductOf(t, x) = SumOf(p)
        /\ \A k \in 1 .. 6 : p[k] = Mul(t[k], x[k])
    BY <2>1
  <2> QED
    BY <2>2
<1> HIDE DEF p
<1>10. SumOf(p) = Res(p[1] + p[2] + p[3] + p[4] + p[5] + p[6])
  BY <1>9, SmallSums
<1> DEFINE j1 == a1 * i
           j2 == (a2 + b1) * i2
           j3 == (c1 + b2) * i3
           j4 == (c2 + a3) * (i2 * i2)
           j5 == b3 * (i2 * i3)
           j6 == c3 * (i3 * i3)
<1>11. /\ a2 + b1 \in Int /\ c1 + b2 \in Int /\ c2 + a3 \in Int
       /\ i2 * i2 \in Int /\ i2 * i3 \in Int /\ i3 * i3 \in Int
  BY <1>2, <1>5
<1>12. /\ j1 \in Int /\ j2 \in Int /\ j3 \in Int /\ j4 \in Int /\ j5 \in Int /\ j6 \in Int
  BY <1>1, <1>2, <1>5, <1>11
<1>13. /\ p[1] = Res(j1) /\ p[2] = Res(j2) /\ p[3] = Res(j3)
       /\ p[4] = Res(j4) /\ p[5] = Res(j5) /\ p[6] = Res(j6)
  <2>1. Mul(Res(a1), Res(i)) = Res(j1) /\ Mul(Res(a2 + b1), Res(i2)) = Res(j2)
    BY <1>1, <1>2, <1>5, <1>11, Residues
  <2>2. Mul(Res(c1 + b2), Res(i3)) = Res(j3)
    BY <1>2, <1>11, Residues
  <2>3. Mul(Res(c2 + a3), Res(i2 * i2)) = Res(j4)
    BY <1>11, Residues
  <2>4. Mul(Res(b3), Res(i2 * i3)) = Res(j5)
    BY <1>5, <1>11, Residues
  <2>5. Mul(Res(c3), Res(i3 * i3)) = Res(j6)
    BY <1>5, <1>11, Residues
  <2> HIDE DEF j1, j2, j3, j4, j5, j6
  <2> QED
    BY <1>1, <1>8, <1>9, <2>1, <2>2, <2>3, <2>4, <2>5
<1>14. (i * a) + (i2 * b) + (i3 * c) = j1 + j2 + j3 + j4 + j5 + j6
  BY <1>1, <1>2, <1>3, <1>5 DEF i2
<1>15. InnerProductOf(t, x) = Res(j1 + j2 + j3 + j4 + j5 + j6)
  <2> HIDE DEF j1, j2, j3, j4, j5, j6
  <2>1. Res(p[1] + p[2] + p[3] + p[4] + p[5] + p[6]) = Res(j1 + j2 + j3 + j4 + j5 + j6)
    <3> DEFINE s2 == p[1] + p[2]
               s3 == s2 + p[3]
               s4 == s3 + p[4]
               s5 == s4 + p[5]
               t2 == j1 + j2
               t3 == t2 + j3
               t4 == t3 + j4
               t5 == t4 + j5
    <3>1. p[1] \in Int /\ Res(p[1]) = Res(j1)
      BY <1>12, <1>13, Residues
    <3>2. Res(s2) = Res(t2) /\ s2 \in Int /\ t2 \in Int
      BY <3>1, <1>12, <1>13, NextResidue
    <3> HIDE DEF s2, t2
    <3>3. Res(s3) = Res(t3) /\ s3 \in Int /\ t3 \in Int
      BY <3>2, <1>12, <1>13, NextResidue
    <3> HIDE DEF s3, t3
    <3>4. Res(s4) = Res(t4) /\ s4 \in Int /\ t4 \in Int
      BY <3>3, <1>12, <1>13, NextResidue
    <3> HIDE DEF s4, t4
    <3>5. Res(s5) = Res(t5) /\ s5 \in Int /\ t5 \in Int
      BY <3>4, <1>12, <1>13, NextResidue
    <3> HIDE DEF s5, t5
    <3>6. Res(s5 + p[6]) = Res(t5 + j6)
      BY <3>5, <1>12, <1>13, NextResidue
    <3>7. s5 = p[1] + p[2] + p[3] + p[4] + p[5] /\ t5 = j1 + j2 + j3 + j4 + j5
      BY DEF s5, s4, s3, s2, t5, t4, t3, t2
    <3> QED
      BY ONLY <3>6, <3>7, Zenon
  <2> QED
    BY <1>9, <1>10, <2>1
<1> QED
  BY <1>7, <1>14, <1>15 DEF At

----------------------------------------------------------------------------
(* Commitments to values *)

Pedersen(setup) == setup.value \in Bases /\ setup.blinding \in Bases

LEMMA CommitType ==
  ASSUME NEW setup, Pedersen(setup), NEW a \in Scalars, NEW b \in Scalars
  PROVE  /\ CommitValue(setup, a, b) \in Pts
         /\ \A base \in Bases :
              /\ BasePoint(setup.value)[base] \in Scalars
              /\ BasePoint(setup.blinding)[base] \in Scalars
              /\ CommitValue(setup, a, b)[base]
                   = Add(Mul(BasePoint(setup.value)[base], a),
                         Mul(BasePoint(setup.blinding)[base], b))
<1> DEFINE u == BasePoint(setup.value)
           w == BasePoint(setup.blinding)
<1>1. u \in Pts /\ w \in Pts
  <2>1. 0 \in Scalars
    BY ResiduesAreIntegers
  <2>2. NoPoint \in Pts
    BY <2>1 DEF NoPoint, Pts
  <2> QED
    BY <2>1, <2>2, PointsClosed DEF Pedersen
<1>2. CommitValue(setup, a, b) = Plus(Scale(u, a), Scale(w, b))
  BY DEF CommitValue
<1> HIDE DEF u, w
<1>3. Scale(u, a) \in Pts /\ Scale(w, b) \in Pts
  BY <1>1, PointsClosed
<1>4. CommitValue(setup, a, b) \in Pts
  BY <1>2, <1>3, PointsClosed
<1>5. ASSUME NEW base \in Bases
      PROVE  /\ u[base] \in Scalars /\ w[base] \in Scalars
             /\ CommitValue(setup, a, b)[base] = Add(Mul(u[base], a), Mul(w[base], b))
  <2>1. u[base] \in Scalars /\ w[base] \in Scalars
    BY <1>1 DEF Pts
  <2>2. Scale(u, a)[base] = Mul(u[base], a) /\ Scale(w, b)[base] = Mul(w[base], b)
    BY DEF Scale
  <2>3. Plus(Scale(u, a), Scale(w, b))[base] = Add(Scale(u, a)[base], Scale(w, b)[base])
    BY DEF Plus
  <2> QED
    BY <1>2, <2>1, <2>2, <2>3
<1> QED
  BY <1>4, <1>5 DEF u, w

\* Commitments add up, and a multiple of the value generator is one.
LEMMA CommitPlus ==
  ASSUME NEW setup, Pedersen(setup), NEW a \in Scalars, NEW b \in Scalars,
         NEW c \in Scalars, NEW d \in Scalars
  PROVE  /\ Plus(CommitValue(setup, a, b), CommitValue(setup, c, d))
              = CommitValue(setup, Add(a, c), Add(b, d))
         /\ Scale(BasePoint(setup.value), a) = CommitValue(setup, a, 0)
<1>1. Add(a, c) \in Scalars /\ Add(b, d) \in Scalars /\ 0 \in Scalars
  <2>1. Add(a, c) \in Scalars
    BY ScalarRules
  <2>2. Add(b, d) \in Scalars
    BY ScalarRules
  <2>3. 0 \in Scalars
    BY ResiduesAreIntegers
  <2> QED
    BY <2>1, <2>2, <2>3
<1> DEFINE C(v, g) == CommitValue(setup, v, g)
           s == Plus(C(a, b), C(c, d))
           m == Scale(BasePoint(setup.value), a)
<1>2. C(a, b) \in Pts /\ C(c, d) \in Pts /\ C(Add(a, c), Add(b, d)) \in Pts /\ C(a, 0) \in Pts
  BY <1>1, CommitType
<1>3. s \in Pts
  BY <1>2, PlusSwap
<1>4. m \in Pts
  <2>1. NoPoint \in Pts
    BY <1>1 DEF NoPoint, Pts
  <2>2. BasePoint(setup.value) \in Pts
    BY <1>1, <2>1, PointsClosed DEF Pedersen
  <2> QED
    BY <2>2, PointsClosed
<1>5. ASSUME NEW base \in Bases
      PROVE  s[base] = C(Add(a, c), Add(b, d))[base] /\ m[base] = C(a, 0)[base]
  <2> DEFINE u == BasePoint(setup.value)[base]
             w == BasePoint(setup.blinding)[base]
  <2>1. /\ u \in Scalars /\ w \in Scalars
        /\ C(a, b)[base] = Add(Mul(u, a), Mul(w, b)) /\ C(c, d)[base] = Add(Mul(u, c), Mul(w, d))
        /\ C(Add(a, c), Add(b, d))[base] = Add(Mul(u, Add(a, c)), Mul(w, Add(b, d)))
        /\ C(a, 0)[base] = Add(Mul(u, a), Mul(w, 0))
    BY <1>1, CommitType
  <2>2. s[base] = Add(C(a, b)[base], C(c, d)[base])
    BY DEF Plus
  <2>3. m[base] = Mul(u, a)
    BY DEF Scale
  <2> HIDE DEF u, w, s, m, C
  <2>4. Mul(u, Add(a, c)) = Add(Mul(u, a), Mul(u, c))
        /\ Mul(w, Add(b, d)) = Add(Mul(w, b), Mul(w, d))
    BY <2>1, ScalarTriple
  <2>5. /\ Mul(u, a) \in Scalars /\ Mul(u, c) \in Scalars /\ Mul(w, b) \in Scalars
        /\ Mul(w, d) \in Scalars /\ Mul(w, 0) = 0
    BY <1>1, <2>1, ScalarRules
  <2>6. Add(Mul(u, a), 0) = Mul(u, a)
    BY <2>5, AddZero
  <2>7. Add(Add(Mul(u, a), Mul(w, b)), Add(Mul(u, c), Mul(w, d)))
          = Add(Add(Mul(u, a), Mul(u, c)), Add(Mul(w, b), Mul(w, d)))
    BY <2>5, Exchange
  <2> QED
    BY <2>1, <2>2, <2>3, <2>4, <2>5, <2>6, <2>7
<1> HIDE DEF s, m, C
<1>6. s = C(Add(a, c), Add(b, d)) /\ m = C(a, 0)
  BY <1>2, <1>3, <1>4, <1>5, PointsEqual
<1> QED
  BY <1>6 DEF s, m, C

\* A weighted sum of commitments is the commitment to the weighted sums.
LEMMA CommitMsm ==
  ASSUME NEW setup, Pedersen(setup), NEW n \in Nat, NEW v \in Vectors(n), NEW g \in Vectors(n),
         NEW points, points = [k \in 1 .. n |-> points[k]],
         \A k \in 1 .. n : points[k] = CommitValue(setup, v[k], g[k]),
         NEW s \in Vectors(n)
  PROVE  Msm(points, s) = CommitValue(setup, InnerProductOf(v, s), InnerProductOf(g, s))
<1>1. \A k \in 1 .. n : v[k] \in Scalars /\ g[k] \in Scalars
  BY VectorType
<1>2. \A k \in 1 .. n : points[k] = CommitValue(setup, v[k], g[k])
  OBVIOUS
<1>3. points = [k \in 1 .. n |-> points[k]] /\ \A k \in 1 .. n : points[k] \in Pts
  BY <1>1, <1>2, CommitType
<1>4. points \in PointVectors(n)
  BY <1>3, PointVectorsAre
<1>5. InnerProductOf(v, s) \in Scalars /\ InnerProductOf(g, s) \in Scalars
  BY ProductsType
<1> DEFINE c == CommitValue(setup, InnerProductOf(v, s), InnerProductOf(g, s))
<1>6. c \in Pts
  BY <1>5, CommitType
<1>7. Msm(points, s) \in Pts
  BY <1>4, MsmCoefficient
<1>8. ASSUME NEW base \in Bases PROVE Msm(points, s)[base] = c[base]
  <2> DEFINE u == BasePoint(setup.value)[base]
             w == BasePoint(setup.blinding)[base]
             e == Coefficients(points, base)
  <2>1. u \in Scalars /\ w \in Scalars
        /\ c[base] = Add(Mul(u, InnerProductOf(v, s)), Mul(w, InnerProductOf(g, s)))
    BY <1>5, CommitType
  <2>2. Msm(points, s)[base] = InnerProductOf(e, s)
    BY <1>4, MsmCoefficient
  <2>3. e \in Vectors(n) /\ \A k \in 1 .. n : e[k] = points[k][base]
    BY <1>4, CoefficientsType
  <2>4. ASSUME NEW k \in 1 .. n PROVE e[k] = Add(Mul(u, v[k]), Mul(w, g[k]))
    <3>1. v[k] \in Scalars /\ g[k] \in Scalars /\ points[k] = CommitValue(setup, v[k], g[k])
      BY <1>1, <1>2
    <3>2. CommitValue(setup, v[k], g[k])[base] = Add(Mul(u, v[k]), Mul(w, g[k]))
      BY <3>1, CommitType
    <3> QED
      BY <2>3, <3>1, <3>2
  <2> HIDE DEF u, w, e, c
  <2>5. InnerProductOf(e, s) = Add(Mul(u, InnerProductOf(v, s)), Mul(w, InnerProductOf(g, s)))
    BY <2>1, <2>3, <2>4, InnerLinear
  <2> QED
    BY <2>1, <2>2, <2>5
<1> HIDE DEF c
<1>9. Msm(points, s) = c
  BY <1>6, <1>7, <1>8, PointsEqual
<1> QED
  BY <1>9 DEF c

LEMMA SignMoves ==
  ASSUME NEW a \in Scalars, NEW b \in Scalars, NEW c \in Scalars
  PROVE  /\ Negate(c) \in Scalars /\ Sub(a, b) \in Scalars
         /\ Mul(Sub(a, b), c) = Add(Mul(a, c), Mul(b, Negate(c)))
         /\ Mul(Negate(b), c) = Mul(b, Negate(c))
<1>1. a \in Int /\ b \in Int /\ c \in Int /\ a = Res(a) /\ b = Res(b) /\ c = Res(c)
  BY Residues
<1>2. Negate(c) = Res(-c) /\ Negate(b) = Res(-b) /\ Sub(a, b) = Res(a - b)
  BY DEF Negate, Sub, Res
<1>3. -c \in Int /\ -b \in Int /\ a - b \in Int /\ a * c \in Int /\ b * (-c) \in Int
  BY <1>1
<1>4. Mul(Res(a - b), Res(c)) = Res((a - b) * c)
  BY <1>1, <1>3, Residues
<1>5. Mul(Res(a), Res(c)) = Res(a * c)
  BY <1>1, Residues
<1>6. Mul(Res(b), Res(-c)) = Res(b * (-c))
  BY <1>1, <1>3, Residues
<1>7. Mul(Res(-b), Res(c)) = Res((-b) * c)
  BY <1>1, <1>3, Residues
<1>8. Add(Res(a * c), Res(b * (-c))) = Res((a * c) + (b * (-c)))
  BY <1>3, Residues
<1>9. (a - b) * c = (a * c) + (b * (-c)) /\ (-b) * c = b * (-c)
  BY <1>1
<1>10. Mul(Sub(a, b), c) = Res((a - b) * c) /\ Mul(Negate(b), c) = Res((-b) * c)
  BY <1>1, <1>2, <1>4, <1>7
<1>11. Mul(a, c) = Res(a * c) /\ Mul(b, Negate(c)) = Res(b * (-c))
  BY <1>1, <1>2, <1>5, <1>6
<1>12. Res(-c) \in Scalars /\ Res(a - b) \in Scalars
  BY <1>3, Residues
<1> QED
  BY <1>2, <1>8, <1>9, <1>10, <1>11, <1>12

\* The places that have a commitment of their own.
Committed5(t) == [k \in DOMAIN TExponents |-> t[TExponents[k]]]

LEMMA Committed5Type ==
  ASSUME NEW t \in Vectors(6)
  PROVE  /\ Committed5(t) \in Vectors(5) /\ DOMAIN TExponents = 1 .. 5
         /\ Committed5(t)[1] = t[1] /\ Committed5(t)[2] = t[3] /\ Committed5(t)[3] = t[4]
         /\ Committed5(t)[4] = t[5] /\ Committed5(t)[5] = t[6]
<1> DEFINE c == Committed5(t)
<1>1. /\ DOMAIN TExponents = 1 .. 5 /\ TExponents[1] = 1 /\ TExponents[2] = 3
      /\ TExponents[3] = 4 /\ TExponents[4] = 5 /\ TExponents[5] = 6
  BY DEF TExponents
<1>2. c = [k \in 1 .. 5 |-> t[TExponents[k]]]
  BY <1>1 DEF Committed5
<1>3. c[1] = t[1] /\ c[2] = t[3] /\ c[3] = t[4] /\ c[4] = t[5] /\ c[5] = t[6]
  BY <1>1, <1>2
<1>4. ASSUME NEW n \in Nat, n = 6 PROVE \A k \in 1 .. n : t[k] \in Scalars
  BY <1>4, VectorType
<1>5. t[1] \in Scalars /\ t[3] \in Scalars /\ t[4] \in Scalars /\ t[5] \in Scalars
      /\ t[6] \in Scalars
  BY <1>4
<1> HIDE DEF c
<1>6. ASSUME NEW k \in 1 .. 5 PROVE c[k] \in Scalars
  <2>1. k = 1 \/ k = 2 \/ k = 3 \/ k = 4 \/ k = 5
    OBVIOUS
  <2> QED
    BY <1>3, <1>5, <2>1
<1>7. ASSUME NEW n \in Nat, n = 5 PROVE c \in Vectors(n)
  <2>1. c = [k \in 1 .. n |-> c[k]]
    BY <1>2, <1>7
  <2>2. \A k \in 1 .. n : c[k] \in Scalars
    BY <1>6, <1>7
  <2> QED
    BY <2>1, <2>2, VectorsAre
<1>8. c \in Vectors(5)
  BY <1>7
<1> QED
  BY <1>1, <1>3, <1>8 DEF c

LEMMA SecondApart ==
  ASSUME NEW t \in Vectors(6), NEW x \in Vectors(6)
  PROVE  /\ InnerProductOf(t, x)
              = Add(Mul(t[2], x[2]), InnerProductOf(Committed5(t), Committed5(x)))
         /\ t[2] \in Scalars /\ x[2] \in Scalars
         /\ InnerProductOf(Committed5(t), Committed5(x)) \in Scalars
<1> DEFINE p == Products(t, x)
           c == Committed5(t)
           d == Committed5(x)
           q == Products(c, d)
<1>1. ASSUME NEW n \in Nat, n = 6
      PROVE  /\ p \in Vectors(n) /\ InnerProductOf(t, x) = SumOf(p)
             /\ \A k \in 1 .. n : p[k] = Mul(t[k], x[k]) /\ t[k] \in Scalars /\ x[k] \in Scalars
                                  /\ p[k] \in Scalars
  <2>1. t \in Vectors(n) /\ x \in Vectors(n)
    BY <1>1
  <2>2. p \in Vectors(n) /\ InnerProductOf(t, x) = SumOf(p)
        /\ \A k \in 1 .. n : p[k] = Mul(t[k], x[k]) /\ t[k] \in Scalars /\ x[k] \in Scalars
    BY <2>1, ProductsType
  <2> HIDE DEF p
  <2>3. \A k \in 1 .. n : p[k] \in Scalars
    BY <2>2, VectorType
  <2> QED
    BY <2>2, <2>3
<1>2. /\ c \in Vectors(5) /\ d \in Vectors(5)
      /\ c[1] = t[1] /\ c[2] = t[3] /\ c[3] = t[4] /\ c[4] = t[5] /\ c[5] = t[6]
      /\ d[1] = x[1] /\ d[2] = x[3] /\ d[3] = x[4] /\ d[4] = x[5] /\ d[5] = x[6]
  BY Committed5Type
<1> HIDE DEF p, c, d
<1>3. ASSUME NEW n \in Nat, n = 5
      PROVE  /\ q \in Vectors(n) /\ InnerProductOf(c, d) = SumOf(q)
             /\ InnerProductOf(c, d) \in Scalars
             /\ \A k \in 1 .. n : q[k] = Mul(c[k], d[k])
  <2>1. c \in Vectors(n) /\ d \in Vectors(n)
    BY <1>2, <1>3
  <2> QED
    BY <2>1, ProductsType
<1> HIDE DEF q
<1>4. p \in Vectors(6) /\ InnerProductOf(t, x) = SumOf(p)
      /\ \A k \in 1 .. 6 : p[k] = Mul(t[k], x[k]) /\ t[k] \in Scalars /\ x[k] \in Scalars
                           /\ p[k] \in Scalars
  BY <1>1
<1>5. q \in Vectors(5) /\ InnerProductOf(c, d) = SumOf(q) /\ InnerProductOf(c, d) \in Scalars
      /\ \A k \in 1 .. 5 : q[k] = Mul(c[k], d[k])
  BY <1>3
<1>6. q[1] = p[1] /\ q[2] = p[3] /\ q[3] = p[4] /\ q[4] = p[5] /\ q[5] = p[6]
  BY <1>2, <1>4, <1>5
<1>7. SumOf(p) = Res(p[1] + p[2] + p[3] + p[4] + p[5] + p[6])
  BY <1>4, SmallSums
<1>8. SumOf(q) = Res(q[1] + q[2] + q[3] + q[4] + q[5])
  BY <1>5, SmallSums
<1> DEFINE s == p[1] + p[3] + p[4] + p[5] + p[6]
<1>9. SumOf(q) = Res(s)
  BY <1>6, <1>8
<1>20. ASSUME NEW k \in 1 .. 6 PROVE p[k] \in Int /\ p[k] = Res(p[k])
  <2>1. p[k] \in Scalars
    BY <1>4
  <2> QED
    BY <2>1, Residues
<1>10. /\ p[1] \in Int /\ p[2] \in Int /\ p[3] \in Int /\ p[4] \in Int /\ p[5] \in Int
       /\ p[6] \in Int /\ p[2] = Res(p[2])
  BY <1>20
<1>11. s \in Int /\ p[1] + p[2] + p[3] + p[4] + p[5] + p[6] = p[2] + s
  BY <1>10
<1> HIDE DEF s
<1>12. Add(Res(p[2]), Res(s)) = Res(p[2] + s)
  BY <1>10, <1>11, Residues
<1>13. SumOf(p) = Add(p[2], SumOf(q))
  BY <1>7, <1>9, <1>10, <1>11, <1>12
<1>14. p[2] = Mul(t[2], x[2]) /\ t[2] \in Scalars /\ x[2] \in Scalars
  BY <1>4
<1> QED
  BY <1>4, <1>5, <1>13, <1>14 DEF c, d

\* The first equation of the verifier: the second coefficient, which is not in the proof,
\* is what circuit and claim say it is.
SecondImplied(setup, m, v, g, r, claim, x, t, b, tBig) ==
  /\ Pedersen(setup) /\ m \in Nat /\ v \in Vectors(m) /\ g \in Vectors(m)
  /\ r.reduced.theta \in Vectors(m) /\ r.reduced.kappa \in Scalars /\ DeltaYZ(r) \in Scalars
  /\ claim = [k \in 1 .. m |-> CommitValue(setup, v[k], g[k])]
  /\ x \in Vectors(6) /\ t \in Vectors(6) /\ b \in Vectors(6)
  /\ t[2] = Sub(Sub(DeltaYZ(r), r.reduced.kappa), InnerProductOf(r.reduced.theta, v))
  /\ b[2] = Negate(InnerProductOf(r.reduced.theta, g))
  /\ tBig = [k \in DOMAIN TExponents |-> CommitValue(setup, t[TExponents[k]], b[TExponents[k]])]

LEMMA ValueEquation ==
  ASSUME NEW setup, NEW m, NEW v, NEW g, NEW r, NEW claim, NEW x, NEW t, NEW b, NEW tBig,
         SecondImplied(setup, m, v, g, r, claim, x, t, b, tBig)
  PROVE  CommitValue(setup, InnerProductOf(t, x), InnerProductOf(b, x))
           = TRight(setup, claim, r, tBig, x)
<1> DEFINE theta == r.reduced.theta
           x2 == x[2]
           weights == VecScale(theta, Negate(x2))
           e == Sub(DeltaYZ(r), r.reduced.kappa)
           tv == InnerProductOf(theta, v)
           tg == InnerProductOf(theta, g)
           c == Committed5(t)
           d == Committed5(b)
           y == Committed5(x)
           cy == InnerProductOf(c, y)
           dy == InnerProductOf(d, y)
           C(i, j) == CommitValue(setup, i, j)
<1>0. /\ Pedersen(setup) /\ m \in Nat /\ v \in Vectors(m) /\ g \in Vectors(m)
      /\ theta \in Vectors(m) /\ r.reduced.kappa \in Scalars /\ DeltaYZ(r) \in Scalars
      /\ claim = [k \in 1 .. m |-> CommitValue(setup, v[k], g[k])]
      /\ x \in Vectors(6) /\ t \in Vectors(6) /\ b \in Vectors(6)
      /\ t[2] = Sub(e, tv) /\ b[2] = Negate(tg)
      /\ tBig = [k \in DOMAIN TExponents |-> CommitValue(setup, t[TExponents[k]], b[TExponents[k]])]
  BY DEF SecondImplied
<1>1. /\ InnerProductOf(t, x) = Add(Mul(t[2], x2), cy)
      /\ InnerProductOf(b, x) = Add(Mul(b[2], x2), dy)
      /\ x2 \in Scalars /\ cy \in Scalars /\ dy \in Scalars
  BY <1>0, SecondApart
<1>2. e \in Scalars /\ tv \in Scalars /\ tg \in Scalars
      /\ tv = InnerProductOf(v, theta) /\ tg = InnerProductOf(g, theta)
  BY <1>0, SignMoves, ProductsType, InnerCommutes
<1>3. Negate(x2) \in Scalars
  BY <1>1, SignMoves
<1>4. weights \in Vectors(m) /\ \A k \in 1 .. m : weights[k] = Mul(theta[k], Negate(x2))
  BY <1>0, <1>3, VecScaleType
<1>5. c \in Vectors(5) /\ d \in Vectors(5) /\ y \in Vectors(5) /\ DOMAIN TExponents = 1 .. 5
  BY <1>0, Committed5Type
<1>6. tBig = [k \in 1 .. 5 |-> C(c[k], d[k])]
  BY <1>0, <1>5 DEF Committed5
<1>7. TRight(setup, claim, r, tBig, x)
        = Plus(Plus(Scale(BasePoint(setup.value), Mul(e, x2)), Msm(claim, weights)), Msm(tBig, y))
  BY DEF TRight, Committed5
<1> HIDE DEF theta, weights, c, d, y, e, tv, tg, x2, cy, dy
<1>8. ASSUME NEW n \in Nat, n = 5
      PROVE  Msm(tBig, y) = CommitValue(setup, InnerProductOf(c, y), InnerProductOf(d, y))
  <2>1. c \in Vectors(n) /\ d \in Vectors(n) /\ y \in Vectors(n)
    BY <1>5, <1>8
  <2>2. tBig = [k \in 1 .. n |-> tBig[k]]
    BY <1>6, <1>8
  <2>3. \A k \in 1 .. n : tBig[k] = CommitValue(setup, c[k], d[k])
    BY <1>6, <1>8
  <2> QED
    BY <1>0, <2>1, <2>2, <2>3, CommitMsm
<1>9. Msm(tBig, y) = C(cy, dy)
  BY <1>8 DEF cy, dy
<1>10. Msm(claim, weights) = C(InnerProductOf(v, weights), InnerProductOf(g, weights))
  <2>1. claim = [k \in 1 .. m |-> claim[k]]
        /\ \A k \in 1 .. m : claim[k] = CommitValue(setup, v[k], g[k])
    BY <1>0
  <2> QED
    <3>1. weights \in Vectors(m) /\ m \in Nat /\ v \in Vectors(m) /\ g \in Vectors(m)
          /\ Pedersen(setup)
      BY <1>0, <1>4
    <3>2. Msm(claim, weights)
            = CommitValue(setup, InnerProductOf(v, weights), InnerProductOf(g, weights))
      BY <2>1, <3>1, CommitMsm
    <3> QED
      BY <3>2
<1>11. theta \in Vectors(m) /\ m \in Nat /\ v \in Vectors(m) /\ g \in Vectors(m)
  BY <1>0
<1>12. /\ InnerProductOf(v, weights) = Mul(tv, Negate(x2))
       /\ InnerProductOf(g, weights) = Mul(tg, Negate(x2))
  BY <1>2, <1>3, <1>4, <1>11, InnerScaled
<1> DEFINE i == Mul(e, x2)
           j == Mul(tv, Negate(x2))
           k == Mul(tg, Negate(x2))
<1>13. i \in Scalars /\ j \in Scalars /\ k \in Scalars /\ 0 \in Scalars
  <2>1. i \in Scalars
    BY <1>1, <1>2, ScalarRules
  <2>2. j \in Scalars
    BY <1>2, <1>3, ScalarRules
  <2>3. k \in Scalars
    BY <1>2, <1>3, ScalarRules
  <2> QED
    BY <2>1, <2>2, <2>3, ResiduesAreIntegers
<1>14. Mul(t[2], x2) = Add(i, j) /\ Mul(b[2], x2) = k
  <2>1. t[2] = Sub(e, tv) /\ b[2] = Negate(tg)
    BY <1>0
  <2>2. Mul(Sub(e, tv), x2) = Add(Mul(e, x2), Mul(tv, Negate(x2)))
    BY <1>1, <1>2, SignMoves
  <2>3. Mul(Negate(tg), x2) = Mul(tg, Negate(x2))
    BY <1>1, <1>2, SignMoves
  <2> QED
    BY <2>1, <2>2, <2>3
<1> HIDE DEF i, j, k, C
<1>15. Scale(BasePoint(setup.value), i) = C(i, 0)
  BY <1>13, CommitPlus, <1>0 DEF C
<1>16. Add(i, j) \in Scalars /\ Add(0, k) = k
  BY <1>13, ScalarRules, AddZero
<1>17. Plus(C(i, 0), C(j, k)) = C(Add(i, j), k)
  BY <1>13, <1>16, CommitPlus, <1>0 DEF C
<1>18. Plus(C(Add(i, j), k), C(cy, dy)) = C(Add(Add(i, j), cy), Add(k, dy))
  BY <1>1, <1>13, <1>16, CommitPlus, <1>0 DEF C
<1>19. TRight(setup, claim, r, tBig, x) = Plus(Plus(C(i, 0), C(j, k)), C(cy, dy))
  BY <1>7, <1>9, <1>10, <1>12, <1>15 DEF i, j, k
<1> QED
  BY <1>1, <1>14, <1>17, <1>18, <1>19 DEF C

----------------------------------------------------------------------------
(* Circuits and witnesses as the code builds them *)

\* The largest of finitely many numbers.
LEMMA MaxOfFinite ==
  ASSUME NEW S, IsFiniteSet(S), S \subseteq Nat, S # {}
  PROVE  Max(S) \in S /\ \A k \in S : k <= Max(S)
<1> DEFINE G == {s \in SUBSET S : s # {} => \E x \in s : \A y \in s : y <= x}
<1>1. \A s \in SUBSET S : s \in G
  <2>1. ASSUME NEW s \in SUBSET S, s # {}, \A x \in s : s \ {x} \in G PROVE s \in G
    <3>1. PICK x : x \in s
      BY <2>1
    <3>2. CASE s \ {x} = {}
      <4>1. \A y \in s : y = x
        BY <3>2
      <4> QED
        BY <3>1, <4>1
    <3>3. CASE s \ {x} # {}
      <4>1. PICK m \in s \ {x} : \A y \in s \ {x} : y <= m
        BY <2>1, <3>1, <3>3
      <4>2. m \in Nat /\ x \in Nat /\ \A y \in s : y \in Nat
        BY <3>1
      <4>3. CASE x <= m
        <5>1. \A y \in s : y <= m
          BY <4>1, <4>3
        <5> QED
          BY <4>1, <5>1
      <4>4. CASE ~(x <= m)
        <5>1. \A y \in s \ {x} : y <= x
          BY <4>1, <4>2, <4>4
        <5>2. \A y \in s : y <= x
          BY <4>2, <5>1
        <5> QED
          BY <3>1, <5>2
      <4> QED
        BY <4>3, <4>4
    <3> QED
      BY <3>2, <3>3
  <2>2. {} \in G /\ G \in SUBSET SUBSET S
    OBVIOUS
  <2> HIDE DEF G
  <2> QED
    BY <2>1, <2>2, SetInduct
<1>2. PICK x \in S : \A y \in S : y <= x
  BY <1>1
<1>3. x \in S /\ \A y \in S : x >= y
  BY <1>2
<1>4. Max(S) \in S /\ \A y \in S : Max(S) >= y
  BY <1>3 DEF Max
<1> QED
  BY <1>4

\* How many members of S there are up to k.
Rank(S, k) == Cardinality({c \in 1 .. k : c \in S})

LEMMA RankStep ==
  ASSUME NEW S, NEW k \in Nat
  PROVE  /\ Rank(S, k) \in Nat
         /\ Rank(S, k + 1) = Rank(S, k) + (IF k + 1 \in S THEN 1 ELSE 0)
<1> DEFINE A == {c \in 1 .. k : c \in S}
           B == {c \in 1 .. (k + 1) : c \in S}
<1>1. IsFiniteSet(A) /\ Cardinality(A) \in Nat
  <2>1. IsFiniteSet(1 .. k) /\ A \in SUBSET (1 .. k)
    BY FS_Interval
  <2> HIDE DEF A
  <2> QED
    BY <2>1, FS_Subset, FS_CardinalityType
<1>2. CASE k + 1 \in S
  <2>1. B = A \cup {k + 1} /\ k + 1 \notin A
    BY <1>2
  <2> HIDE DEF A, B
  <2>2. Cardinality(B) = Cardinality(A) + 1
    BY <1>1, <2>1, FS_AddElement
  <2> QED
    BY <1>1, <1>2, <2>2 DEF Rank, A, B
<1>3. CASE k + 1 \notin S
  <2>1. B = A
    BY <1>3
  <2> QED
    BY <1>1, <1>3, <2>1 DEF Rank
<1> QED
  BY <1>2, <1>3

\* Each place among the members of S below a bound is taken by one of them.
LEMMA RankTaken ==
  ASSUME NEW S, NEW n \in Nat, NEW k \in 1 .. Rank(S, n)
  PROVE  \E c \in 1 .. n : c \in S /\ 1 + Rank(S, c - 1) = k
<1> DEFINE J == {j \in Nat : k <= Rank(S, j)}
<1>1. \A j \in Nat : Rank(S, j) \in Nat
  BY RankStep
<1>2. n \in J /\ J \in SUBSET Nat
  OBVIOUS
<1>3. PICK j \in J : \A i \in J : j <= i
  <2> HIDE DEF J
  <2> QED
    BY <1>2, LeastElement
<1>4. Rank(S, 0) = 0
  <2>1. {c \in 1 .. 0 : c \in S} = {}
    OBVIOUS
  <2> QED
    BY <2>1, FS_EmptySet DEF Rank
<1>5. j \in Nat /\ j # 0 /\ j <= n
  BY <1>2, <1>3, <1>4
<1>6. j - 1 \in Nat /\ (j - 1) + 1 = j /\ j - 1 \notin J
  BY <1>3, <1>5
<1>7. Rank(S, j - 1) < k /\ k <= Rank(S, j)
  BY <1>1, <1>3, <1>6
<1>8. Rank(S, j) = Rank(S, j - 1) + (IF j \in S THEN 1 ELSE 0)
  BY <1>6, RankStep
<1>9. j \in S /\ 1 + Rank(S, j - 1) = k
  BY <1>1, <1>5, <1>6, <1>7, <1>8
<1> QED
  BY <1>5, <1>9

\* A matrix with finitely many entries.
Matrix(m) ==
  /\ m.width \in Nat /\ m.height \in Nat
  /\ IsFiniteSet(DOMAIN m.weights)
  /\ \A at \in DOMAIN m.weights :
       /\ at = <<at[1], at[2]>>
       /\ at[1] \in 0 .. (m.height - 1) /\ at[2] \in 0 .. (m.width - 1)
       /\ m.weights[at] \in Scalars

LEMMA MatrixMade ==
  ASSUME NEW m, IsMatrix(m)
  PROVE  Matrix(m)
<1> DEFINE R == 0 .. (m.height - 1)
           C == 0 .. (m.width - 1)
<1>1. m.width \in Nat /\ m.height \in Nat /\ DOMAIN m.weights \subseteq R \X C
      /\ \A at \in DOMAIN m.weights : m.weights[at] \in Scalars
  BY DEF IsMatrix
<1>2. IsFiniteSet(R \X C)
  <2>1. m.height - 1 \in Int /\ m.width - 1 \in Int
    BY <1>1
  <2>2. IsFiniteSet(R)
    BY <2>1, FS_Interval
  <2>3. IsFiniteSet(C)
    BY <2>1, FS_Interval
  <2> HIDE DEF R, C
  <2> QED
    BY <2>2, <2>3, FS_Product
<1>3. IsFiniteSet(DOMAIN m.weights)
  BY <1>1, <1>2, FS_Subset
<1>4. \A at \in R \X C : at = <<at[1], at[2]>> /\ at[1] \in R /\ at[2] \in C
  OBVIOUS
<1> QED
  BY <1>1, <1>3, <1>4 DEF Matrix

\* A layout of that many variables.
Laid(layout, width, height) ==
  /\ layout.committed \subseteq 1 .. (width - 1)
  /\ layout.rows = height /\ height \in Nat /\ width \in Nat
  /\ layout.variables = (IF width = 0 THEN 0 ELSE width - 1) /\ layout.variables \in Nat
  /\ CommittedLen(layout) \in Nat
  /\ layout.internal \in Nat
  /\ layout.internal = height + (layout.variables - CommittedLen(layout))
  /\ layout.internal >= height

LEMMA LayoutMade ==
  ASSUME NEW width \in Nat, NEW height \in Nat, NEW indices \in Seq(Nat),
         NEW layout \in NewLayout(width, height, indices)
  PROVE  Laid(layout, width, height)
<1> DEFINE committed == ToSet(indices)
           variables == IF width = 0 THEN 0 ELSE width - 1
           n == Cardinality(committed)
           inner == IF variables < n THEN 0 ELSE variables - n
<1>1. /\ layout = [committed |-> committed, variables |-> variables, rows |-> height,
                   internal |-> height + inner]
      /\ \A index \in committed : index # 0 /\ ~(index >= width)
  BY DEF NewLayout
<1>2. committed \subseteq Nat
  BY DEF ToSet
<1>3. committed \subseteq 1 .. (width - 1)
  <2> HIDE DEF committed
  <2> QED
    BY <1>1, <1>2
<1>4. variables \in Nat /\ committed \subseteq 1 .. variables
  <2> HIDE DEF committed
  <2> QED
    BY <1>3
<1>5. n \in Nat /\ n <= variables
  <2>0. variables \in Int /\ 1 \in Int /\ variables - 1 + 1 = variables
    BY <1>4
  <2>1. IsFiniteSet(1 .. variables) /\ Cardinality(1 .. variables) = variables
    <3> HIDE DEF variables
    <3>1. IsFiniteSet(1 .. variables)
      BY <2>0, FS_Interval
    <3>2. Cardinality(1 .. variables) = (IF 1 > variables THEN 0 ELSE variables - 1 + 1)
      BY <2>0, FS_Interval
    <3> QED
      BY <1>4, <2>0, <3>1, <3>2
  <2> HIDE DEF committed, variables
  <2> QED
    BY <1>4, <2>1, FS_Subset, FS_CardinalityType
<1>6. /\ layout.committed = committed /\ layout.variables = variables /\ layout.rows = height
      /\ layout.internal = height + inner
  BY <1>1
<1> HIDE DEF committed, n
<1>7. inner = variables - n /\ height + inner \in Nat /\ height + inner >= height
  BY <1>4, <1>5
<1> HIDE DEF inner
<1> QED
  BY <1>3, <1>4, <1>5, <1>6, <1>7 DEF Laid, CommittedLen, n

\* Where the columns go.
LEMMA ColumnType ==
  ASSUME NEW layout, NEW width, NEW height, Laid(layout, width, height), NEW column \in Nat
  PROVE  NewColumn(layout, column) \in Nat
<1> DEFINE S == {other \in 1 .. (column - 1) :
                   (other \in layout.committed) = (column \in layout.committed)}
<1>1. Cardinality(S) \in Nat
  <2>1. IsFiniteSet(1 .. (column - 1)) /\ S \in SUBSET (1 .. (column - 1))
    BY FS_Interval
  <2> HIDE DEF S
  <2> QED
    BY <2>1, FS_Subset, FS_CardinalityType
<1>2. Position(layout, column) \in Nat
  BY <1>1 DEF Position
<1>3. CommittedLen(layout) \in Nat /\ layout.rows \in Nat
  BY DEF Laid
<1> QED
  BY <1>2, <1>3 DEF NewColumn

\* A function from finitely many places in a matrix to scalars.
Sparse(entries) ==
  /\ IsFiniteSet(DOMAIN entries)
  /\ \A at \in DOMAIN entries :
       at = <<at[1], at[2]>> /\ at[1] \in Nat /\ at[2] \in Nat /\ entries[at] \in Scalars

LEMMA BlockMade ==
  ASSUME NEW layout, NEW width, NEW height, Laid(layout, width, height),
         NEW m, Matrix(m), NEW rowStart \in Nat, NEW columnStart \in Nat
  PROVE  Sparse(Block(layout, m, rowStart, columnStart))
<1> DEFINE D == DOMAIN m.weights
           place == [at \in D |-> <<rowStart + at[1], NewColumn(layout, at[2])>>]
           moved == {<<rowStart + at[1], NewColumn(layout, at[2])>> : at \in D}
           wire == [row \in 0 .. (layout.rows - 1) |-> <<rowStart + row, columnStart + row>>]
           wires == {<<rowStart + row, columnStart + row>> : row \in 0 .. (layout.rows - 1)}
           Source(at) == CHOOSE old \in D : at = <<rowStart + old[1], NewColumn(layout, old[2])>>
           block == [at \in moved \cup wires |->
                       IF at \in wires THEN Negate(1) ELSE m.weights[Source(at)]]
<1>1. Block(layout, m, rowStart, columnStart) = block
  BY DEF Block
<1>2. /\ IsFiniteSet(D) /\ m.width \in Nat /\ m.height \in Nat
      /\ \A at \in D : at[1] \in Nat /\ at[2] \in Nat /\ m.weights[at] \in Scalars
  BY DEF Matrix
<1>3. IsFiniteSet(0 .. (layout.rows - 1)) /\ layout.rows \in Nat
  BY FS_Interval DEF Laid
<1>4. IsFiniteSet(moved)
  <2>1. place \in Surjection(D, moved)
    BY DEF Surjection
  <2> HIDE DEF place, moved, D
  <2> QED
    BY <1>2, <2>1, FS_Surjection
<1>5. IsFiniteSet(wires)
  <2>1. wire \in Surjection(0 .. (layout.rows - 1), wires)
    BY DEF Surjection
  <2> HIDE DEF wire, wires
  <2> QED
    BY <1>3, <2>1, FS_Surjection
<1>6. IsFiniteSet(moved \cup wires)
  <2> HIDE DEF moved, wires
  <2> QED
    BY <1>4, <1>5, FS_Union
<1>7. ASSUME NEW at \in moved \cup wires
      PROVE  at = <<at[1], at[2]>> /\ at[1] \in Nat /\ at[2] \in Nat /\ block[at] \in Scalars
  <2>1. CASE at \in wires
    <3>1. PICK row \in 0 .. (layout.rows - 1) : at = <<rowStart + row, columnStart + row>>
      BY <2>1
    <3>2. row \in Nat
      BY <1>3
    <3>3. at = <<at[1], at[2]>> /\ at[1] \in Nat /\ at[2] \in Nat
      BY <3>1, <3>2
    <3>4. Negate(1) \in Scalars
      <4>1. 1 \in Scalars
        BY ResiduesAreIntegers
      <4> QED
        BY <4>1, ScalarRules
    <3> QED
      BY <2>1, <3>3, <3>4
  <2>2. CASE at \notin wires
    <3>1. at \in moved /\ block[at] = m.weights[Source(at)]
      BY <2>2
    <3>2. Source(at) \in D /\ at = <<rowStart + Source(at)[1], NewColumn(layout, Source(at)[2])>>
      BY <3>1
    <3> HIDE DEF Source, block, D
    <3>3. Source(at)[1] \in Nat /\ Source(at)[2] \in Nat /\ m.weights[Source(at)] \in Scalars
      BY <1>2, <3>2
    <3>4. NewColumn(layout, Source(at)[2]) \in Nat /\ rowStart + Source(at)[1] \in Nat
      BY <3>3, ColumnType
    <3> QED
      BY <3>1, <3>2, <3>3, <3>4
  <2> QED
    BY <2>1, <2>2
<1>8. DOMAIN block = moved \cup wires
  OBVIOUS
<1> HIDE DEF block, moved, wires
<1> QED
  BY <1>1, <1>6, <1>7, <1>8 DEF Sparse

System(r1cs) == IsMatrix(r1cs.a) /\ IsMatrix(r1cs.b) /\ IsMatrix(r1cs.c)

LEMMA LargerType ==
  ASSUME NEW m \in Nat, NEW n \in Nat
  PROVE  Larger(m, n) \in Nat /\ Larger(m, n) >= m /\ Larger(m, n) >= n
         /\ (Larger(m, n) = m \/ Larger(m, n) = n) /\ (m <= n => Larger(m, n) = n)
  BY DEF Larger

\* The three matrices, filled up to the same dimensions.
LEMMA NormalizedMade ==
  ASSUME NEW r1cs, System(r1cs)
  PROVE  /\ Width(r1cs) \in Nat /\ Height(r1cs) \in Nat
         /\ LET n == Normalize(r1cs) IN
            /\ Matrix(n.a) /\ n.a.height = Height(r1cs)
            /\ Matrix(n.b) /\ n.b.height = Height(r1cs)
            /\ Matrix(n.c) /\ n.c.height = Height(r1cs)
<1> DEFINE W == Width(r1cs)
           H == Height(r1cs)
           N == Normalize(r1cs)
<1>1. ASSUME NEW m, IsMatrix(m)
      PROVE  /\ m.width \in Nat /\ m.height \in Nat
             /\ m = [width |-> m.width, height |-> m.height, weights |-> m.weights]
  BY <1>1 DEF IsMatrix
<1>2. /\ r1cs.a.width \in Nat /\ r1cs.b.width \in Nat /\ r1cs.c.width \in Nat
      /\ r1cs.a.height \in Nat /\ r1cs.b.height \in Nat /\ r1cs.c.height \in Nat
  BY <1>1 DEF System
<1>3. W \in Nat
  <2>1. Larger(r1cs.b.width, r1cs.c.width) \in Nat
    BY <1>2, LargerType
  <2> QED
    BY <1>2, <2>1, LargerType DEF Width
<1>4. H \in Nat /\ r1cs.a.height <= H /\ r1cs.b.height <= H /\ r1cs.c.height <= H
  <2> DEFINE bc == Larger(r1cs.b.height, r1cs.c.height)
  <2>1. bc \in Nat /\ bc >= r1cs.b.height /\ bc >= r1cs.c.height
    BY <1>2, LargerType
  <2>2. H = Larger(r1cs.a.height, bc)
    BY DEF Height
  <2> HIDE DEF bc, H
  <2>3. H \in Nat /\ H >= r1cs.a.height /\ H >= bc
    BY <1>2, <2>1, <2>2, LargerType
  <2> QED
    BY <1>2, <2>1, <2>3
<1>5. N.a = Pad(r1cs.a, W, H) /\ N.b = Pad(r1cs.b, W, H) /\ N.c = Pad(r1cs.c, W, H)
  BY DEF Normalize
<1> HIDE DEF W, H, N
<1>6. ASSUME NEW m, IsMatrix(m), m.height <= H
      PROVE  Matrix(Pad(m, W, H)) /\ Pad(m, W, H).height = H
  <2> DEFINE p == Pad(m, W, H)
  <2>1. Matrix(m)
    BY <1>6, MatrixMade
  <2>2. /\ m.width \in Nat /\ m.height \in Nat
        /\ m = [width |-> m.width, height |-> m.height, weights |-> m.weights]
    BY <1>1, <1>6
  <2>3. p = [m EXCEPT !.width = Larger(@, W), !.height = Larger(@, H)]
    BY DEF Pad
  <2>4. p.width = Larger(m.width, W) /\ p.height = Larger(m.height, H) /\ p.weights = m.weights
    BY <2>2, <2>3
  <2>5. Larger(m.width, W) \in Nat /\ Larger(m.width, W) >= m.width /\ Larger(m.height, H) = H
    BY <1>3, <1>4, <1>6, <2>2, LargerType
  <2> HIDE DEF p
  <2>6. /\ IsFiniteSet(DOMAIN m.weights)
        /\ \A at \in DOMAIN m.weights :
             /\ at = <<at[1], at[2]>>
             /\ at[1] \in 0 .. (m.height - 1) /\ at[2] \in 0 .. (m.width - 1)
             /\ m.weights[at] \in Scalars
    BY <2>1 DEF Matrix
  <2>7. \A k \in 0 .. (m.height - 1) : k \in 0 .. (p.height - 1)
    BY <1>4, <1>6, <2>2, <2>4, <2>5
  <2>8. \A k \in 0 .. (m.width - 1) : k \in 0 .. (p.width - 1)
    BY <2>2, <2>4, <2>5
  <2>9. Matrix(p)
    BY <1>4, <2>4, <2>5, <2>6, <2>7, <2>8 DEF Matrix
  <2> QED
    BY <2>4, <2>5, <2>9 DEF p
<1>7. /\ Matrix(N.a) /\ N.a.height = H /\ Matrix(N.b) /\ N.b.height = H
      /\ Matrix(N.c) /\ N.c.height = H
  BY <1>4, <1>5, <1>6 DEF System
<1> QED
  BY <1>3, <1>4, <1>7 DEF W, H, N

\* A circuit of the columns of its matrix.
CircuitTyped(circuit) ==
  /\ circuit.committed \in Nat /\ circuit.internal \in Nat
  /\ Matrix(circuit.weights)
  /\ circuit.weights.width = 1 + circuit.committed + 3 * circuit.internal

LEMMA SparseOver ==
  ASSUME NEW e, NEW f, Sparse(e), Sparse(f)
  PROVE  Sparse(Overlay(e, f))
<1> DEFINE g == Overlay(e, f)
<1>1. DOMAIN g = DOMAIN e \cup DOMAIN f
      /\ \A at \in DOMAIN g : g[at] = IF at \in DOMAIN e THEN e[at] ELSE f[at]
  BY DEF Overlay
<1> HIDE DEF g
<1>2. IsFiniteSet(DOMAIN g)
  <2>1. IsFiniteSet(DOMAIN e) /\ IsFiniteSet(DOMAIN f)
    BY DEF Sparse
  <2>2. IsFiniteSet(DOMAIN e \cup DOMAIN f)
    BY <2>1, FS_Union
  <2> QED
    BY <1>1, <2>2
<1>3. ASSUME NEW at \in DOMAIN g
      PROVE  at = <<at[1], at[2]>> /\ at[1] \in Nat /\ at[2] \in Nat /\ g[at] \in Scalars
  BY <1>1 DEF Sparse
<1> QED
  BY <1>2, <1>3 DEF Sparse, g

LEMMA EntriesMade ==
  ASSUME NEW e, Sparse(e), NEW width \in Nat, NEW height \in Nat
  PROVE  Matrix(WithEntries(WithDimensions(width, height), e))
<1> DEFINE blank == WithDimensions(width, height)
           m == WithEntries(blank, e)
           D == DOMAIN e
           X == {width} \cup {at[2] + 1 : at \in D}
           Y == {height} \cup {at[1] + 1 : at \in D}
<1>1. IsFiniteSet(D) /\ \A at \in D : at = <<at[1], at[2]>> /\ at[1] \in Nat /\ at[2] \in Nat
                                     /\ e[at] \in Scalars
  BY DEF Sparse
<1>2. blank.width = width /\ blank.height = height /\ blank.weights = <<>>
  BY DEF WithDimensions
<1>3. m.width = Max(X) /\ m.height = Max(Y) /\ m.weights = Overlay(e, blank.weights)
  BY <1>2 DEF WithEntries
<1>4. DOMAIN m.weights = D /\ \A at \in D : m.weights[at] = e[at]
  <2>1. DOMAIN blank.weights = {}
    BY <1>2
  <2> HIDE DEF blank, m
  <2> QED
    BY <1>3, <2>1 DEF Overlay
<1>5. ASSUME NEW start \in Nat, NEW j \in {1, 2}
      PROVE  LET Z == {start} \cup {at[j] + 1 : at \in D} IN
             Max(Z) \in Nat /\ \A at \in D : at[j] + 1 <= Max(Z)
  <2> DEFINE I == {at[j] + 1 : at \in D}
             Z == {start} \cup I
             f == [at \in D |-> at[j] + 1]
  <2>1. IsFiniteSet(I)
    <3>1. f \in Surjection(D, I)
      BY DEF Surjection
    <3> HIDE DEF f, I, D
    <3> QED
      BY <1>1, <3>1, FS_Surjection
  <2>2. IsFiniteSet(Z)
    <3> HIDE DEF I
    <3> QED
      BY <2>1, FS_Singleton, FS_Union
  <2>3. \A at \in D : at[j] \in Nat
    <3>1. j = 1 \/ j = 2
      BY <1>5
    <3> QED
      BY <1>1, <3>1
  <2>4. Z \subseteq Nat /\ Z # {} /\ \A at \in D : at[j] + 1 \in Z
    <3> HIDE DEF D
    <3> QED
      BY <2>3
  <2> HIDE DEF Z
  <2>5. Max(Z) \in Z /\ \A k \in Z : k <= Max(Z)
    BY <2>2, <2>4, MaxOfFinite
  <2>6. Max(Z) \in Nat /\ \A at \in D : at[j] + 1 <= Max(Z)
    BY <2>4, <2>5
  <2> QED
    BY <2>6 DEF Z
<1>6. /\ Max(X) \in Nat /\ \A at \in D : at[2] + 1 <= Max(X)
      /\ Max(Y) \in Nat /\ \A at \in D : at[1] + 1 <= Max(Y)
  <2>1. 1 \in {1, 2} /\ 2 \in {1, 2}
    OBVIOUS
  <2> HIDE DEF D
  <2> QED
    BY <1>5, <2>1
<1> HIDE DEF X, Y, D, m, blank
<1>7. ASSUME NEW at \in D
      PROVE  at[1] \in 0 .. (m.height - 1) /\ at[2] \in 0 .. (m.width - 1)
             /\ m.weights[at] \in Scalars
  BY <1>1, <1>3, <1>4, <1>6
<1>8. Matrix(m)
  BY <1>1, <1>3, <1>4, <1>6, <1>7 DEF Matrix
<1> QED
  BY <1>8 DEF m, blank

LEMMA CircuitMade ==
  ASSUME NEW r1cs, System(r1cs), NEW layout, Laid(layout, Width(r1cs), Height(r1cs)),
         NEW circuit \in ToCircuit(layout, Normalize(r1cs))
  PROVE  CircuitTyped(circuit) /\ circuit.committed = CommittedLen(layout)
<1> DEFINE N == Normalize(r1cs)
           n == CommittedLen(layout)
           i == layout.internal
           rows == layout.rows
           A == Block(layout, N.a, 0, 1 + n)
           B == Block(layout, N.b, rows, 1 + n + i)
           C == Block(layout, N.c, 2 * rows, 1 + n + 2 * i)
           m == WithEntries(WithDimensions(1 + n + 3 * i, 3 * rows), Overlay(A, Overlay(B, C)))
<1>1. n \in Nat /\ i \in Nat /\ rows \in Nat
  BY DEF Laid
<1>2. Matrix(N.a) /\ Matrix(N.b) /\ Matrix(N.c)
  BY NormalizedMade
<1>3. circuit \in NewCircuit(n, m)
  BY DEF ToCircuit
<1> HIDE DEF n, i, rows, N
<1>4. /\ 1 + n \in Nat /\ 1 + n + i \in Nat /\ 2 * rows \in Nat /\ 1 + n + 2 * i \in Nat
      /\ 1 + n + 3 * i \in Nat /\ 3 * rows \in Nat /\ 0 \in Nat
  BY <1>1
<1>5. Sparse(A) /\ Sparse(B) /\ Sparse(C)
  BY <1>1, <1>2, <1>4, BlockMade
<1> HIDE DEF A, B, C
<1>6. Sparse(Overlay(A, Overlay(B, C)))
  <2>1. Sparse(Overlay(B, C))
    BY <1>5, SparseOver
  <2> QED
    BY <1>5, <2>1, SparseOver
<1>7. Matrix(m)
  BY <1>4, <1>6, EntriesMade
<1> HIDE DEF m
<1> DEFINE remaining == m.width - (n + 1)
<1>8. /\ remaining >= 0 /\ remaining % 3 = 0
      /\ circuit = [committed |-> n, internal |-> remaining \div 3, weights |-> m]
  BY <1>1, <1>3, <1>7 DEF NewCircuit, Matrix
<1>9. remaining \in Nat
  BY <1>1, <1>7, <1>8 DEF Matrix
<1> HIDE DEF remaining
<1>10. remaining \div 3 \in Nat /\ remaining = 3 * (remaining \div 3)
  BY <1>8, <1>9
<1>11. m.width = 1 + n + 3 * (remaining \div 3)
  BY <1>1, <1>7, <1>10 DEF Matrix, remaining
<1>12. circuit.committed = n /\ circuit.internal = remaining \div 3 /\ circuit.weights = m
  BY <1>8
<1>13. CircuitTyped(circuit)
  BY <1>1, <1>7, <1>10, <1>11, <1>12 DEF CircuitTyped
<1> QED
  BY <1>12, <1>13 DEF n

\* The values of the rows.
LEMMA RowValuesType ==
  ASSUME NEW m, Matrix(m), NEW v \in Seq(Scalars)
  PROVE  /\ RowValues(m, v) \in Vectors(m.height)
         /\ LET inside == {at \in DOMAIN m.weights : at[2] < Len(v)}
                term == [at \in inside |-> Mul(m.weights[at], v[at[2] + 1])]
            IN  /\ IsFiniteSet(inside) /\ \A at \in inside : term[at] \in Scalars
                /\ \A row \in 1 .. m.height :
                     RowValues(m, v)[row] = SumOver({at \in inside : at[1] = row - 1}, term)
<1> DEFINE D == DOMAIN m.weights
           inside == {at \in D : at[2] < Len(v)}
           term == [at \in inside |-> Mul(m.weights[at], v[at[2] + 1])]
           Row(row) == {at \in inside : at[1] = row - 1}
           r == [row \in 1 .. m.height |-> SumOver(Row(row), term)]
<1>1. /\ m.height \in Nat /\ IsFiniteSet(D)
      /\ \A at \in D : at[2] \in Nat /\ m.weights[at] \in Scalars
  BY DEF Matrix
<1>2. RowValues(m, v) = r
  BY DEF RowValues
<1>3. IsFiniteSet(inside)
  <2>1. inside \in SUBSET D
    OBVIOUS
  <2> HIDE DEF inside, D
  <2> QED
    BY <1>1, <2>1, FS_Subset
<1>4. ASSUME NEW at \in inside PROVE term[at] \in Scalars
  <2>1. at \in D /\ at[2] < Len(v) /\ Len(v) \in Nat
    OBVIOUS
  <2>2. at[2] \in Nat /\ m.weights[at] \in Scalars
    BY <1>1, <2>1
  <2>3. at[2] + 1 \in 1 .. Len(v)
    BY <2>1, <2>2
  <2>4. v[at[2] + 1] \in Scalars
    BY <2>3
  <2>5. Mul(m.weights[at], v[at[2] + 1]) \in Scalars
    BY <2>2, <2>4, ScalarRules
  <2> QED
    BY <2>5
<1>5. ASSUME NEW row \in 1 .. m.height PROVE SumOver(Row(row), term) \in Scalars
  <2>1. Row(row) \in SUBSET inside
    OBVIOUS
  <2>2. \A at \in Row(row) : term[at] \in Scalars
    BY <1>4, <2>1
  <2> HIDE DEF Row, inside, term
  <2>3. IsFiniteSet(Row(row))
    BY <1>3, <2>1, FS_Subset
  <2> QED
    BY <2>2, <2>3, SumOverType
<1>6. r = [row \in 1 .. m.height |-> r[row]]
      /\ \A row \in 1 .. m.height : r[row] = SumOver(Row(row), term)
  OBVIOUS
<1> HIDE DEF r, term, inside, Row, D
<1>7. r \in Vectors(m.height)
  BY <1>1, <1>5, <1>6, VectorsAre
<1> QED
  BY <1>2, <1>3, <1>4, <1>6, <1>7 DEF r, term, inside, Row, D

\* The columns behind the wires are columns of the system.
LEMMA ColumnsTaken ==
  ASSUME NEW layout, NEW width, NEW height, Laid(layout, width, height)
  PROVE  /\ \A k \in 1 .. CommittedLen(layout) : CommittedAt(layout, k) \in 1 .. layout.variables
         /\ \A wire \in (layout.rows + 1) .. layout.internal :
              InnerAt(layout, wire) \in 1 .. layout.variables
<1> DEFINE C == layout.committed
           n == CommittedLen(layout)
           V == layout.variables
           D == 1 .. V
           S == D \ C
<1>1. /\ n \in Nat /\ V \in Nat /\ layout.rows \in Nat /\ layout.internal = layout.rows + (V - n)
      /\ layout.internal \in Nat /\ layout.internal >= layout.rows
  BY DEF Laid
<1>2. C \subseteq D
  BY DEF Laid
<1>3. IsFiniteSet(D) /\ Cardinality(D) = V
  <2>1. 1 \in Int /\ V \in Int /\ V - 1 + 1 = V
    BY <1>1
  <2> HIDE DEF V
  <2>2. IsFiniteSet(D)
    BY <2>1, FS_Interval
  <2>3. Cardinality(D) = (IF 1 > V THEN 0 ELSE V - 1 + 1)
    BY <2>1, FS_Interval
  <2> QED
    BY <1>1, <2>2, <2>3
<1> HIDE DEF V
<1>4. Rank(C, V) = n
  <2>1. {c \in 1 .. V : c \in C} = C
    BY <1>2
  <2> QED
    BY <2>1 DEF Rank, CommittedLen
<1>5. Rank(S, V) = V - n
  <2>1. {c \in 1 .. V : c \in S} = D \ C /\ D \cap C = C
    BY <1>2
  <2> HIDE DEF D, C
  <2>2. Cardinality(D \ C) = Cardinality(D) - Cardinality(D \cap C)
    BY <1>3, FS_Difference
  <2>3. Rank(S, V) = Cardinality(D \ C)
    BY <2>1 DEF Rank
  <2> QED
    BY <1>3, <2>1, <2>2, <2>3 DEF CommittedLen, C
<1> HIDE DEF n
<1>6. ASSUME NEW k \in 1 .. n PROVE CommittedAt(layout, k) \in 1 .. V
  <2>1. PICK c \in 1 .. V : c \in C /\ 1 + Rank(C, c - 1) = k
    BY <1>1, <1>4, RankTaken
  <2>2. {other \in 1 .. (c - 1) : (other \in C) = (c \in C)}
        = {other \in 1 .. (c - 1) : other \in C}
    BY <2>1
  <2>3. Position(layout, c) = Rank(C, c - 1)
    BY <2>2 DEF Position, Rank
  <2>4. \E column \in C : 1 + Position(layout, column) = k
    BY <2>1, <2>3
  <2>5. CommittedAt(layout, k) \in C
    BY <2>4 DEF CommittedAt
  <2> QED
    BY <1>2, <2>5
<1>7. ASSUME NEW wire \in (layout.rows + 1) .. layout.internal
      PROVE InnerAt(layout, wire) \in 1 .. V
  <2>1. wire - layout.rows \in 1 .. Rank(S, V) /\ wire \in Int
    BY <1>1, <1>5
  <2>2. PICK c \in 1 .. V : c \in S /\ 1 + Rank(S, c - 1) = wire - layout.rows
    <3> HIDE DEF S
    <3> QED
      BY <1>1, <2>1, RankTaken
  <2>3. {other \in 1 .. (c - 1) : (other \in C) = (c \in C)}
        = {other \in 1 .. (c - 1) : other \in S}
    <3>1. c \notin C /\ \A other \in 1 .. (c - 1) : other \in D
      BY <1>1, <2>2
    <3> QED
      BY <3>1
  <2>4. Position(layout, c) = Rank(S, c - 1)
    BY <2>3 DEF Position, Rank
  <2>5. Rank(S, c - 1) \in Nat
    <3>1. c - 1 \in Nat
      BY <1>1, <2>2
    <3> HIDE DEF S
    <3> QED
      BY <3>1, RankStep
  <2>6. layout.rows + 1 + Position(layout, c) = wire
    BY <1>1, <2>1, <2>2, <2>4, <2>5
  <2>7. \E column \in (1 .. layout.variables) \ layout.committed :
          layout.rows + 1 + Position(layout, column) = wire
    BY <2>2, <2>6 DEF V
  <2>8. InnerAt(layout, wire) \in (1 .. layout.variables) \ layout.committed
    BY <2>7 DEF InnerAt
  <2> QED
    BY <2>8 DEF V
<1> QED
  BY <1>6, <1>7 DEF n, V

LEMMA HadamardType ==
  ASSUME NEW n \in Nat, NEW u \in Vectors(n), NEW v \in Vectors(n)
  PROVE  Hadamard(u, v) \in Vectors(n) /\ \A k \in 1 .. n : Hadamard(u, v)[k] = Mul(u[k], v[k])
<1> DEFINE h == Hadamard(u, v)
<1>1. DOMAIN u = 1 .. n /\ DOMAIN v = 1 .. n /\ \A k \in 1 .. n : u[k] \in Scalars
      /\ v[k] \in Scalars
  BY VectorType
<1>2. h = [k \in 1 .. n |-> Mul(u[k], v[k])]
  BY <1>1 DEF Hadamard
<1>3. h = [k \in 1 .. n |-> h[k]] /\ \A k \in 1 .. n : h[k] = Mul(u[k], v[k])
  BY <1>2
<1> HIDE DEF h
<1>4. ASSUME NEW k \in 1 .. n PROVE h[k] \in Scalars
  <2>1. u[k] \in Scalars /\ v[k] \in Scalars
    BY <1>1
  <2>2. Mul(u[k], v[k]) \in Scalars
    BY <2>1, ScalarRules
  <2> QED
    BY <1>3, <2>2
<1>5. h \in Vectors(n)
  BY <1>3, <1>4, VectorsAre
<1> QED
  BY <1>3, <1>5 DEF h

\* A witness that satisfies some circuit.
LEMMA WitnessMade ==
  ASSUME NEW r1cs, System(r1cs), NEW layout, Laid(layout, Width(r1cs), Height(r1cs)),
         NEW full \in Seq(Scalars), NEW blindings \in Seq(Scalars),
         NEW witness \in ToWitness(layout, Normalize(r1cs), full, blindings)
  PROVE  LET m == CommittedLen(layout)
             n == layout.internal
         IN  /\ m \in Nat /\ n \in Nat
             /\ witness.values \in Vectors(m) /\ witness.blinding \in Vectors(m)
             /\ witness.left \in Vectors(n) /\ witness.right \in Vectors(n)
             /\ witness.output \in Vectors(n)
<1> DEFINE N == Normalize(r1cs)
           H == Height(r1cs)
           m == CommittedLen(layout)
           n == layout.internal
           V == layout.variables
           values == [k \in 1 .. m |-> full[CommittedAt(layout, k) + 1]]
<1>1. /\ m \in Nat /\ V \in Nat /\ n \in Nat /\ H \in Nat /\ layout.rows = H /\ n >= H
  BY DEF Laid
<1>2. /\ Len(full) = V + 1 /\ Len(blindings) = m
      /\ \E az \in MatrixVectorProduct(N.a, full), bz \in MatrixVectorProduct(N.b, full),
            cz \in MatrixVectorProduct(N.c, full) :
           witness \in WitnessOf(layout, full, blindings, az, bz, cz)
  BY DEF ToWitness
<1>3. PICK az \in MatrixVectorProduct(N.a, full), bz \in MatrixVectorProduct(N.b, full),
           cz \in MatrixVectorProduct(N.c, full) :
        witness \in WitnessOf(layout, full, blindings, az, bz, cz)
  BY <1>2
<1>4. az = RowValues(N.a, full) /\ bz = RowValues(N.b, full) /\ cz = RowValues(N.c, full)
  BY DEF MatrixVectorProduct
<1>5. /\ Matrix(N.a) /\ N.a.height = H /\ Matrix(N.b) /\ N.b.height = H
      /\ Matrix(N.c) /\ N.c.height = H
  BY NormalizedMade
<1> DEFINE left == [k \in 1 .. n |->
                      IF k <= layout.rows THEN az[k] ELSE full[InnerAt(layout, k) + 1]]
           right == Resized(bz, n)
           output == Resized(cz, n)
<1>6. witness = [values |-> values, blinding |-> blindings, left |-> left, right |-> right,
                 output |-> output]
  BY <1>3 DEF WitnessOf, NewWithBlinding
<1>7. /\ witness.values = values /\ witness.blinding = blindings /\ witness.left = left
      /\ witness.right = right /\ witness.output = output
  BY <1>6
<1> HIDE DEF N, H
<1>8. az \in Vectors(H)
  BY <1>4, <1>5, RowValuesType
<1>9. bz \in Vectors(H)
  BY <1>4, <1>5, RowValuesType
<1>10. cz \in Vectors(H)
  BY <1>4, <1>5, RowValuesType
<1>11. right \in Vectors(n)
  BY <1>1, <1>9, ResizedType
<1>12. output \in Vectors(n)
  BY <1>1, <1>10, ResizedType
<1>13. blindings \in Vectors(m)
  BY <1>2 DEF Vectors
<1>14. ASSUME NEW c \in 1 .. V PROVE full[c + 1] \in Scalars
  <2>1. c + 1 \in 1 .. Len(full)
    BY <1>1, <1>2
  <2> QED
    BY <2>1
<1>15. values \in Vectors(m)
  <2>1. values = [k \in 1 .. m |-> values[k]]
        /\ \A k \in 1 .. m : values[k] = full[CommittedAt(layout, k) + 1]
    OBVIOUS
  <2>2. \A k \in 1 .. m : CommittedAt(layout, k) \in 1 .. V
    BY ColumnsTaken
  <2> HIDE DEF values, m, V
  <2>3. \A k \in 1 .. m : values[k] \in Scalars
    BY <1>14, <2>1, <2>2
  <2> QED
    BY <1>1, <2>1, <2>3, VectorsAre
<1>16. left \in Vectors(n)
  <2>1. left = [k \in 1 .. n |-> left[k]]
        /\ \A k \in 1 .. n :
             left[k] = IF k <= layout.rows THEN az[k] ELSE full[InnerAt(layout, k) + 1]
    OBVIOUS
  <2>2. \A k \in (layout.rows + 1) .. n : InnerAt(layout, k) \in 1 .. V
    BY ColumnsTaken
  <2>3. \A k \in 1 .. H : az[k] \in Scalars
    BY <1>1, <1>8, VectorType
  <2> HIDE DEF left, n, V
  <2>4. ASSUME NEW k \in 1 .. n PROVE left[k] \in Scalars
    <3>1. CASE k <= layout.rows
      BY <1>1, <2>1, <2>3, <3>1
    <3>2. CASE ~(k <= layout.rows)
      <4>1. k \in (layout.rows + 1) .. n
        BY <1>1, <3>2
      <4> QED
        BY <1>14, <2>1, <2>2, <3>2, <4>1
    <3> QED
      BY <3>1, <3>2
  <2> QED
    BY <1>1, <2>1, <2>4, VectorsAre
<1> HIDE DEF values, left, right, output
<1> QED
  BY <1>1, <1>7, <1>11, <1>12, <1>13, <1>15, <1>16

\* The padded length is a power of two that holds all wires.
LEMMA PaddedMade ==
  ASSUME NEW circuit, circuit.internal \in Nat
  PROVE  /\ PaddedVars(circuit) \in Nat /\ PaddedVars(circuit) > 0
         /\ circuit.internal <= PaddedVars(circuit)
         /\ IsPowerOfTwo(PaddedVars(circuit))
<1> DEFINE L == Larger(circuit.internal, 1)
           J == {k \in Nat : L <= TwoTo[k]}
<1>1. L \in Nat /\ L >= circuit.internal /\ L >= 1
  BY LargerType
<1> HIDE DEF L
<1>2. \A k \in Nat : TwoTo[k] \in Nat /\ TwoTo[k + 1] = 2 * TwoTo[k] /\ TwoTo[k] > 0
  BY TwoToFacts
<1>3. L \in J
  <2>1. L < TwoTo[L]
    BY <1>1, TwoToGrows
  <2> QED
    BY <1>1, <1>2, <2>1
<1>4. PICK j \in J : \A i \in J : j <= i
  <2>1. J \in SUBSET Nat
    OBVIOUS
  <2> HIDE DEF J
  <2> QED
    BY <1>3, <2>1, LeastElement
<1> DEFINE n == TwoTo[j]
<1>5. n \in Nat /\ n >= L /\ n > 0 /\ j \in Nat
  BY <1>1, <1>2, <1>4
<1>6. IsPowerOfTwo(n)
  <2>1. n = 2 ^ j
    BY <1>5 DEF TwoTo
  <2>2. j < n
    BY <1>5, TwoToGrows
  <2>3. j \in 0 .. n
    BY <1>5, <2>2
  <2> QED
    BY <2>1, <2>3 DEF IsPowerOfTwo
<1>7. n <= 2 * L
  <2>1. CASE j = 0
    BY <1>1, <2>1, TwoToFacts
  <2>2. CASE j # 0
    <3>1. j - 1 \in Nat /\ (j - 1) + 1 = j /\ j - 1 \notin J
      BY <1>4, <1>5, <2>2
    <3>2. TwoTo[j - 1] \in Nat /\ TwoTo[j - 1] < L /\ n = 2 * TwoTo[j - 1]
      BY <1>1, <1>2, <3>1
    <3> HIDE DEF n
    <3> QED
      BY <1>1, <3>2
  <2> QED
    BY <2>1, <2>2
<1>8. ASSUME NEW i \in 1 .. (n - 1), IsPowerOfTwo(i) PROVE i < L
  <2>1. i \in Nat
    OBVIOUS
  <2>2. PICK k \in Nat : i = TwoTo[k]
    BY <1>8, <2>1, PowerFound
  <2>3. CASE k < j
    <3>1. k \notin J
      BY <1>4, <1>5, <2>3
    <3> QED
      BY <1>1, <2>1, <2>2, <3>1
  <2>4. CASE k = j
    BY <1>5, <2>1, <2>2, <2>4
  <2>5. CASE j < k
    <3>1. TwoTo[j] < TwoTo[k]
      BY <1>5, <2>5, TwoToGrows
    <3> QED
      BY <1>5, <2>1, <2>2, <3>1
  <2> QED
    BY <1>5, <2>3, <2>4, <2>5
<1> HIDE DEF n, J
<1>9. n \in 1 .. (2 * L)
  BY <1>1, <1>5, <1>7
<1>10. /\ IsPowerOfTwo(n) /\ n >= L /\ \A i \in 1 .. (n - 1) : IsPowerOfTwo(i) => i < L
  BY <1>5, <1>6, <1>8
<1>11. PaddedVars(circuit)
         = CHOOSE p \in 1 .. (2 * L) :
             IsPowerOfTwo(p) /\ p >= L /\ \A i \in 1 .. (p - 1) : IsPowerOfTwo(i) => i < L
  BY DEF PaddedVars, L
<1>12. PaddedVars(circuit) \in 1 .. (2 * L) /\ IsPowerOfTwo(PaddedVars(circuit))
       /\ PaddedVars(circuit) >= L
  BY <1>9, <1>10, <1>11
<1> QED
  BY <1>1, <1>12

\* The sum of one column of the weighted rows.
LEMMA ColumnSumType ==
  ASSUME NEW circuit, CircuitTyped(circuit), NEW z \in Scalars
  PROVE  LET entries == circuit.weights.weights
             height == circuit.weights.height
             power == PowersFromOne(z, height + 1)
             term == [at \in DOMAIN entries |-> Mul(entries[at], power[at[1] + 2])]
         IN  /\ height \in Nat /\ power \in Vectors(height + 1)
             /\ IsFiniteSet(DOMAIN entries)
             /\ \A at \in DOMAIN entries :
                  /\ term[at] \in Scalars /\ entries[at] \in Scalars
                  /\ at[1] \in 0 .. (height - 1)
                  /\ at[2] \in 0 .. (circuit.committed + 3 * circuit.internal)
             /\ \A column : /\ ColumnSum(circuit, column, z)
                                = SumOver({at \in DOMAIN entries : at[2] = column}, term)
                            /\ ColumnSum(circuit, column, z) \in Scalars
<1> DEFINE entries == circuit.weights.weights
           height == circuit.weights.height
           power == PowersFromOne(z, height + 1)
           D == DOMAIN entries
           term == [at \in D |-> Mul(entries[at], power[at[1] + 2])]
           Column(column) == {at \in D : at[2] = column}
<1>1. /\ height \in Nat /\ IsFiniteSet(D)
      /\ \A at \in D : /\ entries[at] \in Scalars /\ at[1] \in 0 .. (height - 1)
                       /\ at[2] \in 0 .. (circuit.weights.width - 1)
  BY DEF CircuitTyped, Matrix
<1>2. power \in Vectors(height + 1) /\ \A k \in 1 .. (height + 1) : power[k] \in Scalars
  <2>1. height + 1 \in Nat
    BY <1>1
  <2>2. power \in Vectors(height + 1)
    BY <2>1, PowersVector
  <2> HIDE DEF power
  <2> QED
    BY <2>1, <2>2, VectorType
<1>3. \A at \in D : at[2] \in 0 .. (circuit.committed + 3 * circuit.internal)
  <2>1. circuit.weights.width - 1 = circuit.committed + 3 * circuit.internal
    BY DEF CircuitTyped
  <2> QED
    BY <1>1, <2>1
<1> HIDE DEF power
<1>4. ASSUME NEW at \in D PROVE term[at] \in Scalars
  <2>1. entries[at] \in Scalars /\ at[1] + 2 \in 1 .. (height + 1)
    BY <1>1
  <2>2. power[at[1] + 2] \in Scalars
    BY <1>2, <2>1
  <2>3. Mul(entries[at], power[at[1] + 2]) \in Scalars
    BY <2>1, <2>2, ScalarRules
  <2> QED
    BY <2>3
<1>5. ASSUME NEW column
      PROVE  /\ ColumnSum(circuit, column, z) = SumOver(Column(column), term)
             /\ ColumnSum(circuit, column, z) \in Scalars
  <2>1. ColumnSum(circuit, column, z) = SumOver(Column(column), term)
    BY DEF ColumnSum, power
  <2>2. Column(column) \in SUBSET D
    OBVIOUS
  <2>3. \A at \in Column(column) : term[at] \in Scalars
    BY <1>4, <2>2
  <2> HIDE DEF Column, D, term
  <2>4. IsFiniteSet(Column(column))
    BY <1>1, <2>2, FS_Subset
  <2> QED
    BY <2>1, <2>3, <2>4, SumOverType
<1> QED
  BY <1>1, <1>2, <1>3, <1>4, <1>5 DEF power

\* The weights of the reduction.
LEMMA ReductionMade ==
  ASSUME NEW circuit, CircuitTyped(circuit), NEW y \in Scalars \ {0}, NEW z \in Scalars
  PROVE  /\ Weighed(Reduction(circuit, y, z), circuit.committed, circuit.internal,
                    PaddedVars(circuit))
         /\ LET r == Reduction(circuit, y, z)
                m == circuit.committed
                n == circuit.internal
            IN  /\ r.reduced.kappa = ColumnSum(circuit, 0, z)
                /\ \A k \in 1 .. m : r.reduced.theta[k] = ColumnSum(circuit, k, z)
                /\ \A k \in 1 .. n : r.reduced.lambda[k] = ColumnSum(circuit, m + k, z)
                /\ \A k \in 1 .. n : r.reduced.rho[k] = ColumnSum(circuit, m + n + k, z)
                /\ \A k \in 1 .. n : r.reduced.omega[k] = ColumnSum(circuit, m + n + n + k, z)
                /\ r.yPowers = PowersFromOne(y, PaddedVars(circuit))
                /\ \A k \in (n + 1) .. PaddedVars(circuit) :
                     r.omegaMinusY[k] = Negate(r.yPowers[k])
<1> DEFINE r == Reduction(circuit, y, z)
           m == circuit.committed
           n == circuit.internal
           size == PaddedVars(circuit)
           yPowers == PowersFromOne(y, size)
           q == PowersFromOne(Invert(y), size)
           c == ReducedCircuit(circuit, z)
           Sum(column) == ColumnSum(circuit, column, z)
           Sums(start, count) == [k \in 1 .. count |-> Sum(start + k - 1)]
<1>1. m \in Nat /\ n \in Nat
  BY DEF CircuitTyped
<1>2. y \in Scalars \ {0} /\ z \in Scalars
  OBVIOUS
<1>3. size \in Nat /\ n <= size
  BY <1>1, PaddedMade
<1>4. /\ c.kappa = Sum(0) /\ c.theta = Sums(1, m) /\ c.lambda = Sums(1 + m, n)
      /\ c.rho = Sums(1 + m + n, n) /\ c.omega = Sums(1 + m + n + n, n)
  BY DEF ReducedCircuit
<1>5. \A column : Sum(column) \in Scalars
  BY <1>2, ColumnSumType
<1> HIDE DEF Sum, size, m, n, c
<1>6. ASSUME NEW start \in Nat, NEW count \in Nat
      PROVE  /\ Sums(start + 1, count) \in Vectors(count)
             /\ \A k \in 1 .. count : Sums(start + 1, count)[k] = Sum(start + k)
  <2> DEFINE f == Sums(start + 1, count)
  <2>1. f = [k \in 1 .. count |-> f[k]]
    OBVIOUS
  <2>2. ASSUME NEW k \in 1 .. count PROVE f[k] = Sum(start + k)
    <3>1. (start + 1) + k - 1 = start + k
      OBVIOUS
    <3>2. f[k] = Sum((start + 1) + k - 1)
      OBVIOUS
    <3> QED
      BY <3>1, <3>2
  <2> HIDE DEF f
  <2>3. \A k \in 1 .. count : f[k] \in Scalars
    BY <1>5, <2>2
  <2>4. f \in Vectors(count)
    BY <2>1, <2>3, VectorsAre
  <2> QED
    BY <2>2, <2>4 DEF f
<1> HIDE DEF Sums
<1>7. c.kappa \in Scalars
  BY <1>4, <1>5
<1>8. c.theta \in Vectors(m) /\ \A k \in 1 .. m : c.theta[k] = Sum(k)
  <2>1. 0 + 1 = 1 /\ \A k \in 1 .. m : 0 + k = k
    BY <1>1
  <2>2. Sums(0 + 1, m) \in Vectors(m) /\ \A k \in 1 .. m : Sums(0 + 1, m)[k] = Sum(0 + k)
    BY <1>1, <1>6
  <2> QED
    BY <1>4, <2>1, <2>2
<1>9. c.lambda \in Vectors(n) /\ \A k \in 1 .. n : c.lambda[k] = Sum(m + k)
  <2>1. m + 1 = 1 + m
    BY <1>1
  <2> QED
    BY <1>1, <1>4, <1>6, <2>1
<1>10. c.rho \in Vectors(n) /\ \A k \in 1 .. n : c.rho[k] = Sum(m + n + k)
  <2>1. (m + n) + 1 = 1 + m + n /\ m + n \in Nat
    BY <1>1
  <2>2. /\ Sums((m + n) + 1, n) \in Vectors(n)
        /\ \A k \in 1 .. n : Sums((m + n) + 1, n)[k] = Sum((m + n) + k)
    BY <1>1, <1>6, <2>1
  <2> QED
    BY <1>4, <2>1, <2>2
<1>11. c.omega \in Vectors(n) /\ \A k \in 1 .. n : c.omega[k] = Sum(m + n + n + k)
  <2>1. (m + n + n) + 1 = 1 + m + n + n /\ m + n + n \in Nat
    BY <1>1
  <2>2. /\ Sums((m + n + n) + 1, n) \in Vectors(n)
        /\ \A k \in 1 .. n : Sums((m + n + n) + 1, n)[k] = Sum((m + n + n) + k)
    BY <1>1, <1>6, <2>1
  <2> QED
    BY <1>4, <2>1, <2>2
<1>12. /\ Invert(y) \in Scalars /\ yPowers \in Vectors(size) /\ q \in Vectors(size)
       /\ \A k \in 1 .. size : Mul(q[k], yPowers[k]) = 1
  BY <1>2, <1>3, InversePowers
<1> DEFINE w == [k \in 1 .. size |-> Sub(IF k <= n THEN c.omega[k] ELSE 0, yPowers[k])]
<1>13. /\ r.reduced = c /\ r.yInv = Invert(y) /\ r.yPowers = yPowers /\ r.omegaMinusY = w
       /\ r.yInvRho = Hadamard(q, c.rho) /\ r.yInvLambda = Hadamard(q, c.lambda)
       /\ r.yInvOmegaMinusY = Hadamard(q, w)
  BY DEF Reduction, c, n, size
<1> HIDE DEF r, q, yPowers
<1>14. \A k \in 1 .. size : yPowers[k] \in Scalars
  BY <1>3, <1>12, VectorType
<1>15. \A k \in 1 .. n : c.omega[k] \in Scalars
  BY <1>1, <1>11, VectorType
<1>16. /\ w = [k \in 1 .. size |-> w[k]]
       /\ \A k \in 1 .. size : w[k] = Sub(IF k <= n THEN c.omega[k] ELSE 0, yPowers[k])
  OBVIOUS
<1> HIDE DEF w
<1>17. ASSUME NEW k \in 1 .. size PROVE w[k] \in Scalars
  <2>1. (IF k <= n THEN c.omega[k] ELSE 0) \in Scalars
    <3>1. k <= n => k \in 1 .. n
      BY <1>1
    <3>2. 0 \in Scalars
      BY ResiduesAreIntegers
    <3> QED
      BY <1>15, <3>1, <3>2
  <2>2. yPowers[k] \in Scalars
    BY <1>14
  <2>3. Sub(IF k <= n THEN c.omega[k] ELSE 0, yPowers[k]) \in Scalars
    BY <2>1, <2>2, SignMoves
  <2> QED
    BY <1>16, <2>3
<1>18. w \in Vectors(size)
  BY <1>3, <1>16, <1>17, VectorsAre
<1>19. \A k \in 1 .. n : w[k] = Sub(c.omega[k], yPowers[k])
  BY <1>1, <1>3, <1>16
<1>20. ASSUME NEW k \in (n + 1) .. size PROVE w[k] = Negate(yPowers[k])
  <2>1. k \in 1 .. size /\ ~(k <= n)
    BY <1>1, <1>3
  <2>2. w[k] = Sub(0, yPowers[k])
    BY <1>16, <2>1
  <2>3. yPowers[k] \in Int
    <3>1. yPowers[k] \in Scalars
      BY <1>14, <2>1
    <3> QED
      BY <3>1, Residues
  <2>4. 0 - yPowers[k] = -yPowers[k]
    BY <2>3
  <2> QED
    BY <2>2, <2>4 DEF Sub, Negate
<1>21. Weighed(r, m, n, size)
  BY <1>3, <1>7, <1>8, <1>9, <1>10, <1>11, <1>12, <1>13, <1>18, <1>19 DEF Weighed, q, yPowers
<1> QED
  BY <1>4, <1>8, <1>9, <1>10, <1>11, <1>13, <1>20, <1>21 DEF r, m, n, size, Sum, yPowers, c

----------------------------------------------------------------------------
(* Answers that are off by one *)

LEMMA NextDiffers ==
  ASSUME NEW s \in Scalars
  PROVE  Add(s, 1) \in Scalars /\ Add(s, 1) # s
<1>1. 0 \in Scalars /\ 1 \in Scalars
  BY ResiduesAreIntegers
<1>2. Add(s, 1) \in Scalars
  BY <1>1, ScalarRules
<1>3. 1 # 0
  OBVIOUS
<1>4. ASSUME Add(s, 1) = s PROVE FALSE
  <2>1. Add(1, s) = Add(0, s)
    <3>1. Add(1, s) = Add(s, 1)
      BY <1>1, ScalarRules
    <3>2. Add(0, s) = s
      BY AddZero
    <3> QED
      BY <1>4, <3>1, <3>2
  <2> QED
    BY <1>1, <1>3, <2>1, AddCancel
<1> QED
  BY <1>2, <1>4

LEMMA BasePointType ==
  ASSUME NEW base \in Bases
  PROVE  BasePoint(base) \in Pts /\ BasePoint(base)[base] = 1
<1>1. 0 \in Scalars
  BY ResiduesAreIntegers
<1>2. NoPoint \in Pts
  BY <1>1 DEF NoPoint, Pts
<1>3. BasePoint(base) \in Pts
  BY <1>1, <1>2, PointsClosed
<1>4. BasePoint(base)[base] = 1
  BY DEF BasePoint, NoPoint
<1> QED
  BY <1>3, <1>4

LEMMA PlusBaseDiffers ==
  ASSUME NEW p \in Pts, NEW base \in Bases
  PROVE  Plus(p, BasePoint(base)) # p
<1>1. p[base] \in Scalars
  BY DEF Pts
<1>2. Plus(p, BasePoint(base))[base] = Add(p[base], 1)
  BY BasePointType DEF Plus
<1> QED
  BY <1>1, <1>2, NextDiffers

\* A commitment is to one blinding.
LEMMA CommitBinds ==
  ASSUME NEW setup, Pedersen(setup), NEW a \in Scalars, NEW b \in Scalars
  PROVE  CommitValue(setup, a, Add(b, 1)) # CommitValue(setup, a, b)
<1> DEFINE base == setup.blinding
           u == BasePoint(setup.value)[base]
           n == Add(b, 1)
<1>1. base \in Bases /\ BasePoint(base)[base] = 1
  BY BasePointType DEF Pedersen
<1>2. n \in Scalars /\ n # b
  BY NextDiffers
<1>3. u \in Scalars /\ CommitValue(setup, a, b)[base] = Add(Mul(u, a), Mul(1, b))
  BY <1>1, CommitType
<1> HIDE DEF n
<1>4. CommitValue(setup, a, n)[base] = Add(Mul(u, a), Mul(1, n))
  BY <1>1, <1>2, CommitType
<1> HIDE DEF u
<1>5. Mul(u, a) \in Scalars
  BY <1>3, ScalarRules
<1>6. Mul(1, b) = b
  BY ScalarRules
<1>7. Mul(1, n) = n
  BY <1>2, ScalarRules
<1>8. ASSUME CommitValue(setup, a, n) = CommitValue(setup, a, b) PROVE FALSE
  <2>1. Add(Mul(u, a), n) = Add(Mul(u, a), b)
    BY <1>3, <1>4, <1>6, <1>7, <1>8
  <2>2. Add(n, Mul(u, a)) = Add(Mul(u, a), n)
    BY <1>2, <1>5, ScalarRules
  <2>3. Add(b, Mul(u, a)) = Add(Mul(u, a), b)
    BY <1>5, ScalarRules
  <2> QED
    BY <1>2, <1>5, <2>1, <2>2, <2>3, AddCancel
<1> QED
  BY <1>8 DEF n

\* A product of as many generators as there are weights.
LEMMA MsmOfNames ==
  ASSUME NEW names \in Seq(Bases), NEW n \in Nat, n <= Len(names), NEW s \in Vectors(n)
  PROVE  /\ Msm(PointsOf(names), s) \in Pts
         /\ PointsOf(SubSeq(names, 1, n)) \in PointVectors(n)
         /\ \A k \in 1 .. n : PointsOf(SubSeq(names, 1, n))[k] = BasePoint(names[k])
         /\ Msm(PointsOf(names), s) = Msm(PointsOf(SubSeq(names, 1, n)), s)
<1> DEFINE v == PointsOf(names)
           part == SubSeq(names, 1, n)
           w == PointsOf(part)
<1>1. DOMAIN names = 1 .. Len(names) /\ Len(names) \in Nat
      /\ \A k \in 1 .. Len(names) : names[k] \in Bases
  OBVIOUS
<1>2. DOMAIN part = 1 .. n /\ \A k \in 1 .. n : part[k] = names[k] /\ names[k] \in Bases
  <2>1. part = [k \in 1 .. n |-> names[k]]
    BY <1>1
  <2> QED
    BY <1>1, <2>1
<1>3. DOMAIN v = 1 .. Len(names) /\ \A k \in 1 .. n : v[k] = BasePoint(names[k])
  BY <1>1 DEF PointsOf
<1>4. w = [k \in 1 .. n |-> w[k]] /\ \A k \in 1 .. n : w[k] = BasePoint(names[k])
  BY <1>2 DEF PointsOf
<1> HIDE DEF v, w, part
<1>5. \A k \in 1 .. n : w[k] \in Pts
  BY <1>2, <1>4, BasePointType
<1>6. w \in PointVectors(n)
  BY <1>4, <1>5, PointVectorsAre
<1>7. Msm(w, s) \in Pts
  BY <1>6, MsmCoefficient
<1>8. DOMAIN v \cap DOMAIN s = 1 .. n /\ DOMAIN w \cap DOMAIN s = 1 .. n
  <2>1. DOMAIN s = 1 .. n
    BY VectorType
  <2> QED
    BY <1>1, <1>3, <1>4, <2>1
<1>9. ASSUME NEW base \in Bases
      PROVE  [k \in DOMAIN v \cap DOMAIN s |-> Mul(v[k][base], s[k])]
               = [k \in DOMAIN w \cap DOMAIN s |-> Mul(w[k][base], s[k])]
  BY <1>3, <1>4, <1>8
<1>10. Msm(v, s) = Msm(w, s)
  BY <1>9 DEF Msm
<1> QED
  BY <1>4, <1>6, <1>7, <1>10 DEF v, w, part

\* What the commitment to the vectors is put together from.
LEMMA BigPType ==
  ASSUME NEW setup, Pedersen(setup), setup.ipa.g \in Seq(Bases), setup.ipa.h \in Seq(Bases),
         NEW m \in Nat, NEW n \in Nat, NEW size \in Nat, NEW r, Weighed(r, m, n, size),
         size <= Len(setup.ipa.g), size <= Len(setup.ipa.h),
         NEW wires, wires.m \in Pts, wires.o \in Pts, wires.mTilde \in Pts,
         NEW x \in Vectors(6), NEW s \in Scalars
  PROVE  /\ P0(setup, r) \in Pts /\ P1(setup, r) \in Pts
         /\ Scale(Plus(P1(setup, r), wires.m), x[1]) \in Pts
         /\ Scale(wires.o, x[2]) \in Pts /\ Scale(wires.mTilde, x[3]) \in Pts
         /\ Scale(BasePoint(setup.blinding), Negate(s)) \in Pts
         /\ BigP(setup, r, wires, s, x) \in Pts
<1>1. x[1] \in Scalars /\ x[2] \in Scalars /\ x[3] \in Scalars
  <2>1. ASSUME NEW k \in Nat, k = 6 PROVE \A j \in 1 .. k : x[j] \in Scalars
    <3>1. x \in Vectors(k)
      BY <2>1
    <3> QED
      BY <2>1, <3>1, VectorType
  <2> QED
    BY <2>1
<1>2. n <= Len(setup.ipa.g) /\ n <= Len(setup.ipa.h)
  <2>1. n <= size
    BY DEF Weighed
  <2>2. Len(setup.ipa.g) \in Nat /\ Len(setup.ipa.h) \in Nat
    OBVIOUS
  <2> QED
    BY <2>1, <2>2
<1>3. /\ r.yInvRho \in Vectors(n) /\ r.yInvLambda \in Vectors(n)
      /\ r.yInvOmegaMinusY \in Vectors(size)
  BY WeightsCut
<1>4. P0(setup, r) \in Pts
  BY <1>3, MsmOfNames DEF P0
<1>5. Msm(PointsOf(setup.ipa.g), r.yInvRho) \in Pts
  BY <1>2, <1>3, MsmOfNames
<1>6. Msm(PointsOf(setup.ipa.h), r.yInvLambda) \in Pts
  BY <1>2, <1>3, MsmOfNames
<1>7. P1(setup, r) \in Pts
  BY <1>5, <1>6, PlusSwap DEF P1
<1>8. Plus(P1(setup, r), wires.m) \in Pts
  BY <1>7, PlusSwap
<1>9. Scale(Plus(P1(setup, r), wires.m), x[1]) \in Pts
  BY <1>1, <1>8, PointsClosed
<1>10. Scale(wires.o, x[2]) \in Pts
  BY <1>1, PointsClosed
<1>11. Scale(wires.mTilde, x[3]) \in Pts
  BY <1>1, PointsClosed
<1>12. Scale(BasePoint(setup.blinding), Negate(s)) \in Pts
  <2>1. BasePoint(setup.blinding) \in Pts /\ Negate(s) \in Scalars
    BY BasePointType, ScalarRules DEF Pedersen
  <2> QED
    BY <2>1, PointsClosed
<1> DEFINE c0 == Scale(BasePoint(setup.blinding), Negate(s))
           c1 == Plus(c0, P0(setup, r))
           c2 == Plus(c1, Scale(Plus(P1(setup, r), wires.m), x[1]))
           c3 == Plus(c2, Scale(wires.o, x[2]))
<1>13. BigP(setup, r, wires, s, x) = Plus(c3, Scale(wires.mTilde, x[3]))
  BY DEF BigP
<1>14. c1 \in Pts
  BY <1>4, <1>12, PlusSwap
<1> HIDE DEF c1
<1>15. c2 \in Pts
  BY <1>9, <1>14, PlusSwap
<1> HIDE DEF c2
<1>16. c3 \in Pts
  BY <1>10, <1>15, PlusSwap
<1> HIDE DEF c3
<1>17. Plus(c3, Scale(wires.mTilde, x[3])) \in Pts
  BY <1>11, <1>16, PlusSwap
<1> QED
  BY <1>4, <1>7, <1>9, <1>10, <1>11, <1>12, <1>13, <1>17

LEMMA BigPBinds ==
  ASSUME NEW setup, Pedersen(setup), setup.ipa.g \in Seq(Bases), setup.ipa.h \in Seq(Bases),
         NEW m \in Nat, NEW n \in Nat, NEW size \in Nat, NEW r, Weighed(r, m, n, size),
         size <= Len(setup.ipa.g), size <= Len(setup.ipa.h),
         NEW wires, wires.m \in Pts, wires.o \in Pts, wires.mTilde \in Pts,
         NEW x \in Vectors(6), NEW s \in Scalars
  PROVE  BigP(setup, r, wires, Add(s, 1), x) # BigP(setup, r, wires, s, x)
<1> DEFINE base == setup.blinding
           t == Add(s, 1)
           e == P0(setup, r)[base]
           f == Scale(Plus(P1(setup, r), wires.m), x[1])[base]
           g == Scale(wires.o, x[2])[base]
           h == Scale(wires.mTilde, x[3])[base]
           Sum(a) == Add(Add(Add(Add(a, e), f), g), h)
<1>1. base \in Bases /\ BasePoint(base)[base] = 1
  BY BasePointType DEF Pedersen
<1>2. e \in Scalars /\ f \in Scalars /\ g \in Scalars /\ h \in Scalars
  <2>1. /\ P0(setup, r) \in Pts /\ Scale(Plus(P1(setup, r), wires.m), x[1]) \in Pts
        /\ Scale(wires.o, x[2]) \in Pts /\ Scale(wires.mTilde, x[3]) \in Pts
    BY BigPType
  <2> QED
    BY <1>1, <2>1 DEF Pts
<1>3. t \in Scalars /\ t # s
  BY NextDiffers
<1>4. ASSUME NEW a \in Scalars
      PROVE  BigP(setup, r, wires, a, x)[base] = Sum(Negate(a)) /\ Negate(a) \in Scalars
  <2>1. Negate(a) \in Scalars /\ Mul(1, Negate(a)) = Negate(a)
    <3>1. Negate(a) \in Scalars
      BY ScalarRules
    <3> HIDE DEF base
    <3> QED
      BY <3>1, ScalarRules
  <2>2. Scale(BasePoint(base), Negate(a))[base] = Mul(1, Negate(a))
    BY <1>1 DEF Scale
  <2> DEFINE c0 == Scale(BasePoint(base), Negate(a))
             c1 == Plus(c0, P0(setup, r))
             c2 == Plus(c1, Scale(Plus(P1(setup, r), wires.m), x[1]))
             c3 == Plus(c2, Scale(wires.o, x[2]))
  <2>3. BigP(setup, r, wires, a, x) = Plus(c3, Scale(wires.mTilde, x[3]))
    BY DEF BigP
  <2>4. Plus(c3, Scale(wires.mTilde, x[3]))[base] = Add(c3[base], h)
    BY <1>1 DEF Plus
  <2>5. c3[base] = Add(c2[base], g)
    BY <1>1 DEF Plus
  <2>6. c2[base] = Add(c1[base], f)
    BY <1>1 DEF Plus
  <2>7. c1[base] = Add(c0[base], e)
    BY <1>1 DEF Plus
  <2> HIDE DEF c0, c1, c2, c3, e, f, g, h
  <2> QED
    BY <2>1, <2>2, <2>3, <2>4, <2>5, <2>6, <2>7 DEF c0
<1> HIDE DEF base, t, e, f, g, h
<1>5. ASSUME NEW a \in Scalars, NEW b \in Scalars, Sum(a) = Sum(b) PROVE a = b
  <2>1. ASSUME NEW c \in Scalars, NEW d \in Scalars PROVE Add(c, d) \in Scalars
    BY ScalarRules
  <2> DEFINE a1 == Add(a, e)
             b1 == Add(b, e)
             a2 == Add(a1, f)
             b2 == Add(b1, f)
             a3 == Add(a2, g)
             b3 == Add(b2, g)
  <2>2. a1 \in Scalars /\ b1 \in Scalars
    BY <1>2, <2>1
  <2>3. a2 \in Scalars /\ b2 \in Scalars
    BY <1>2, <2>1, <2>2
  <2>4. a3 \in Scalars /\ b3 \in Scalars
    BY <1>2, <2>1, <2>3
  <2>5. Add(a3, h) = Add(b3, h)
    BY <1>5
  <2> HIDE DEF a3, b3
  <2>6. a3 = b3
    BY <1>2, <2>4, <2>5, AddCancel
  <2> USE DEF a3, b3
  <2> HIDE DEF a2, b2
  <2>7. a2 = b2
    BY <1>2, <2>3, <2>6, AddCancel
  <2> USE DEF a2, b2
  <2> HIDE DEF a1, b1, a3, b3
  <2>8. a1 = b1
    BY <1>2, <2>2, <2>7, AddCancel
  <2> USE DEF a1, b1
  <2> QED
    BY <1>2, <2>8, AddCancel
<1> HIDE DEF Sum
<1>6. ASSUME NEW a \in Scalars, NEW b \in Scalars, Negate(a) = Negate(b) PROVE a = b
  <2>1. a \in Int /\ b \in Int /\ a = Res(a) /\ b = Res(b)
    BY Residues
  <2>2. Negate(a) = Res(-a) /\ Negate(b) = Res(-b)
    BY DEF Negate, Res
  <2>3. -a \in Int /\ -b \in Int /\ a + (-a) = 0 /\ a + (-b) = a - b /\ a - b \in Int
    BY <2>1
  <2>4. Add(Res(a), Res(-a)) = Res(a + (-a))
    BY <2>1, <2>3, Residues
  <2>5. Add(Res(b), Res(-b)) = Res(b + (-b))
    BY <2>1, <2>3, Residues
  <2>6. b + (-b) = 0
    BY <2>1
  <2>7. Add(a, Negate(a)) = Add(b, Negate(a))
    BY <1>6, <2>1, <2>2, <2>3, <2>4, <2>5, <2>6
  <2>8. Negate(a) \in Scalars
    BY ScalarRules
  <2> QED
    BY <2>7, <2>8, AddCancel
<1>7. ASSUME BigP(setup, r, wires, t, x) = BigP(setup, r, wires, s, x) PROVE FALSE
  <2>1. Sum(Negate(t)) = Sum(Negate(s)) /\ Negate(t) \in Scalars /\ Negate(s) \in Scalars
    BY <1>3, <1>4, <1>7
  <2>2. Negate(t) = Negate(s)
    BY <1>5, <2>1
  <2> QED
    BY <1>3, <1>6, <2>2
<1> QED
  BY <1>7 DEF t

----------------------------------------------------------------------------
(* Items committed one after the other *)

\* T[s] is t with the items at s appended, in their order.
Appends(T, t, n, item) ==
  T = [s \in SUBSET (1 .. n) |->
         IF s = {} THEN t ELSE Append(T[s \ {Max(s)}], item[Max(s)])]

LEMMA AppendsExist ==
  ASSUME NEW t, Listed(t), NEW n \in Nat, NEW item
  PROVE  \E T : Appends(T, t, n, item)
<1> DEFINE D == 1 .. n
<1>1. PICK X : t \in Seq(X)
  BY DEF Listed
<1> DEFINE V == Seq(X \cup {item[k] : k \in D})
           step == [k \in D |-> [v \in V |-> Append(v, item[k])]]
           pick == [s \in SUBSET D |-> Max(s)]
<1>2. t \in V /\ step \in [D -> [V -> V]]
  BY <1>1
<1>3. \A s \in SUBSET D : s # {} => pick[s] \in s /\ pick[s] = Max(s)
  BY GreatestElement
<1>4. IsFiniteSet(D)
  BY FS_Interval
<1>5. PICK h : FoldsBy(h, D, V, t, step, pick)
  <2> HIDE DEF D, V, step, pick
  <2> QED
    BY <1>2, <1>3, <1>4, FoldExists
<1>6. h \in [SUBSET D -> V]
  <2> HIDE DEF D, V, step, pick
  <2> QED
    BY <1>2, <1>4, <1>5, FoldType
<1>7. \A s \in SUBSET D : s # {} => /\ Max(s) \in D /\ h[s \ {Max(s)}] \in V
                                    /\ h[s] = step[Max(s)][h[s \ {Max(s)}]]
  <2> HIDE DEF V, step
  <2> QED
    BY <1>3, <1>5, <1>6 DEF FoldsBy
<1>8. h[{}] = t /\ \A s \in SUBSET D : s # {} => h[s] = Append(h[s \ {Max(s)}], item[Max(s)])
  <2>1. \A k \in D : \A v \in V : step[k][v] = Append(v, item[k])
    OBVIOUS
  <2> HIDE DEF V, step, D
  <2> QED
    BY <1>5, <1>7, <2>1 DEF FoldsBy
<1>9. Appends(h, t, n, item)
  <2> HIDE DEF V
  <2> QED
    BY <1>6, <1>8 DEF Appends
<1> QED
  BY <1>9

LEMMA AppendsItems ==
  ASSUME NEW t, Listed(t), NEW n \in Nat, NEW item, NEW T, Appends(T, t, n, item)
  PROVE  LET u == T[1 .. n] IN
         /\ Listed(u) /\ Len(t) \in Nat /\ Len(u) = Len(t) + n
         /\ \A k \in 1 .. Len(t) : u[k] = t[k]
         /\ \A k \in 1 .. n : u[Len(t) + k] = item[k]
<1> DEFINE A(k) == T[1 .. k]
           m == Len(t)
           Good(k) == /\ Listed(A(k)) /\ Len(A(k)) = m + k
                      /\ \A j \in 1 .. m : A(k)[j] = t[j]
                      /\ \A j \in 1 .. k : A(k)[m + j] = item[j]
           N == {k \in Nat : k <= n => Good(k)}
<1>1. m \in Nat
  BY DEF Listed
<1>2. A(0) = t
  <2>1. 1 .. 0 = {} /\ {} \in SUBSET (1 .. n)
    OBVIOUS
  <2> QED
    BY <2>1 DEF Appends
<1>3. ASSUME NEW k \in Nat, k + 1 <= n PROVE A(k + 1) = Append(A(k), item[k + 1])
  <2> DEFINE s == 1 .. (k + 1)
  <2>1. s \in SUBSET (1 .. n) /\ k + 1 \in s /\ s # {} /\ s \in SUBSET Nat
    BY <1>3
  <2>2. Max(s) = k + 1
    BY DEF Max
  <2>3. s \ {k + 1} = 1 .. k
    OBVIOUS
  <2> HIDE DEF s
  <2>4. T[s] = Append(T[s \ {Max(s)}], item[Max(s)])
    BY <2>1 DEF Appends
  <2> QED
    BY <2>2, <2>3, <2>4 DEF s
<1> HIDE DEF A, m
<1>4. 0 \in N
  BY <1>1, <1>2 DEF m
<1>5. ASSUME NEW k \in N PROVE k + 1 \in N
  <2> SUFFICES ASSUME k + 1 <= n PROVE Good(k + 1)
    OBVIOUS
  <2>1. Good(k) /\ k \in Nat
    OBVIOUS
  <2> DEFINE a == A(k)
             b == A(k + 1)
  <2>2. b = Append(a, item[k + 1])
    BY <1>3
  <2>3. /\ Listed(b) /\ Len(b) = Len(a) + 1
        /\ \A j \in 1 .. Len(a) : b[j] = a[j]
        /\ b[Len(a) + 1] = item[k + 1]
    <3> HIDE DEF a, b
    <3> QED
      BY <2>1, <2>2, ListedAppend DEF a
  <2> HIDE DEF a, b
  <2>4. Len(a) = m + k
    BY <2>1 DEF a
  <2>5. \A j \in 1 .. m : b[j] = t[j]
    BY <1>1, <2>1, <2>3, <2>4 DEF a
  <2>6. \A j \in 1 .. (k + 1) : b[m + j] = item[j]
    <3> SUFFICES ASSUME NEW j \in 1 .. (k + 1) PROVE b[m + j] = item[j]
      OBVIOUS
    <3>1. CASE j = k + 1
      BY <1>1, <2>3, <2>4, <3>1
    <3>2. CASE j \in 1 .. k
      <4>1. m + j \in 1 .. Len(a) /\ a[m + j] = item[j]
        BY <1>1, <2>1, <2>4, <3>2 DEF a
      <4> QED
        BY <2>3, <4>1
    <3> QED
      BY <3>1, <3>2
  <2> QED
    BY <1>1, <2>3, <2>4, <2>5, <2>6 DEF b
<1>6. n \in N
  <2> HIDE DEF Good
  <2>1. N \in SUBSET Nat
    OBVIOUS
  <2> HIDE DEF N
  <2> QED
    BY <1>4, <1>5, <2>1, Induct
<1> QED
  BY <1>1, <1>6 DEF A, m

LEMMA ClaimCommitted ==
  ASSUME NEW t, Listed(t), NEW claim, Listed(claim)
  PROVE  LET u == CommitCircuitClaim(t, claim)
             m == Len(t) + 1
         IN  /\ Listed(u) /\ Len(t) \in Nat /\ Len(claim) \in Nat /\ Len(u) = m + Len(claim)
             /\ \A k \in 1 .. Len(t) : u[k] = t[k]
             /\ u[m] = <<"commitments", Len(claim)>>
             /\ \A k \in 1 .. Len(claim) : u[m + k] = <<"value-commitment", claim[k]>>
<1> DEFINE b == Commit(t, "commitments", Len(claim))
           n == Len(claim)
           item == [k \in 1 .. n |-> <<"value-commitment", claim[k]>>]
           Eq(h) == h = [s \in SUBSET (1 .. n) |->
                           IF s = {} THEN b
                           ELSE LET x == Max(s)
                                IN  Commit(h[s \ {x}], "value-commitment", claim[x])]
           T == CHOOSE h : Eq(h)
           u == T[1 .. n]
<1>1. n \in Nat /\ DOMAIN claim = 1 .. n
  BY DEF Listed
<1>2. /\ Listed(b) /\ Len(b) = Len(t) + 1 /\ Len(t) \in Nat
      /\ \A k \in 1 .. Len(t) : b[k] = t[k]
      /\ b[Len(t) + 1] = <<"commitments", n>>
  BY ListedAppend DEF Commit
<1>3. CommitCircuitClaim(t, claim) = u
  BY <1>1 DEF CommitCircuitClaim, FoldLeft, MapThenFoldSet
<1>4. \A s \in SUBSET (1 .. n) : s # {} => Max(s) \in 1 .. n
  BY <1>1, GreatestElement
<1> HIDE DEF n, b
<1>5. \A h : Appends(h, b, n, item) <=> Eq(h)
  BY <1>4 DEF Appends, Commit
<1>6. Eq(T)
  <2>1. \E h : Appends(h, b, n, item)
    BY <1>1, <1>2, AppendsExist
  <2> QED
    BY <1>5, <2>1
<1>7. Appends(T, b, n, item)
  BY <1>5, <1>6
<1> HIDE DEF T, item, Eq, u
<1>8. /\ Listed(u) /\ Len(b) \in Nat /\ Len(u) = Len(b) + n
      /\ \A k \in 1 .. Len(b) : u[k] = b[k]
      /\ \A k \in 1 .. n : u[Len(b) + k] = item[k]
  <2>1. LET v == T[1 .. n] IN
        /\ Listed(v) /\ Len(b) \in Nat /\ Len(v) = Len(b) + n
        /\ \A k \in 1 .. Len(b) : v[k] = b[k]
        /\ \A k \in 1 .. n : v[Len(b) + k] = item[k]
    <3>1. Listed(b) /\ n \in Nat /\ Appends(T, b, n, item)
      BY <1>1, <1>2, <1>7
    <3> QED
      BY ONLY <3>1, AppendsItems
  <2> QED
    BY <2>1 DEF u
<1>9. \A k \in 1 .. n : item[k] = <<"value-commitment", claim[k]>>
  BY DEF item
<1> QED
  BY <1>1, <1>2, <1>3, <1>8, <1>9, SMTT(30) DEF n, u

\* The same of the commitments to the coefficients.
FollowedBy(u, m, points) ==
  \A k \in 1 .. Len(points) : u[m + k] = << <<"T", k>>, points[k]>>

LEMMA CoefficientsCommitted ==
  ASSUME NEW t, Listed(t), NEW points, Listed(points)
  PROVE  LET u == CommitCoefficients(t, points)
             m == Len(t)
         IN  /\ Listed(u) /\ m \in Nat /\ Len(points) \in Nat /\ Len(u) = m + Len(points)
             /\ \A k \in 1 .. m : u[k] = t[k]
             /\ FollowedBy(u, m, points)
<1> DEFINE n == Len(points)
           f == [k \in DOMAIN points |-> k]
           item == [k \in 1 .. n |-> << <<"T", k>>, points[k]>>]
           Eq(h) == h = [s \in SUBSET (1 .. n) |->
                           IF s = {} THEN t
                           ELSE LET x == Max(s)
                                IN  Commit(h[s \ {x}], <<"T", f[x]>>, points[f[x]])]
           T == CHOOSE h : Eq(h)
           u == T[1 .. n]
<1>1. n \in Nat /\ DOMAIN points = 1 .. n /\ DOMAIN f = 1 .. n
  BY DEF Listed
<1>3. CommitCoefficients(t, points) = u
  BY <1>1 DEF CommitCoefficients, FoldLeft, MapThenFoldSet
<1>4. \A s \in SUBSET (1 .. n) : s # {} => Max(s) \in 1 .. n /\ f[Max(s)] = Max(s)
  <2>1. \A s \in SUBSET (1 .. n) : s # {} => Max(s) \in 1 .. n
    BY <1>1, GreatestElement
  <2> QED
    BY <1>1, <2>1
<1> HIDE DEF n, f
<1>5. \A h : Appends(h, t, n, item) <=> Eq(h)
  BY <1>4 DEF Appends, Commit
<1>6. Eq(T)
  <2>1. \E h : Appends(h, t, n, item)
    BY <1>1, AppendsExist
  <2> QED
    BY <1>5, <2>1
<1>7. Appends(T, t, n, item)
  BY <1>5, <1>6
<1> HIDE DEF T, item, Eq, u
<1>8. /\ Listed(u) /\ Len(t) \in Nat /\ Len(u) = Len(t) + n
      /\ \A k \in 1 .. Len(t) : u[k] = t[k]
      /\ \A k \in 1 .. n : u[Len(t) + k] = item[k]
  <2>1. LET v == T[1 .. n] IN
        /\ Listed(v) /\ Len(t) \in Nat /\ Len(v) = Len(t) + n
        /\ \A k \in 1 .. Len(t) : v[k] = t[k]
        /\ \A k \in 1 .. n : v[Len(t) + k] = item[k]
    <3>1. Listed(t) /\ n \in Nat /\ Appends(T, t, n, item)
      BY <1>1, <1>7
    <3> QED
      BY ONLY <3>1, AppendsItems
  <2> QED
    BY <2>1 DEF u
<1>9. \A k \in 1 .. n : item[k] = << <<"T", k>>, points[k]>>
  BY DEF item
<1> QED
  BY <1>1, <1>3, <1>8, <1>9 DEF n, u, FollowedBy

LEMMA ChallengeAppended ==
  ASSUME NEW t, Listed(t), NEW label, NEW x
  PROVE  LET u == AfterChallenge(t, label, x) IN
         /\ Listed(u) /\ Len(t) \in Nat /\ Len(u) = Len(t) + 2
         /\ \A k \in 1 .. Len(t) : u[k] = t[k]
<1> DEFINE c == Append(t, <<"challenge", label>>)
           u == Append(c, <<"challenge-value", x>>)
<1>1. /\ Listed(c) /\ Len(c) = Len(t) + 1 /\ Len(t) \in Nat
      /\ \A k \in 1 .. Len(t) : c[k] = t[k]
  BY ListedAppend
<1> HIDE DEF c
<1>2. /\ Listed(u) /\ Len(u) = Len(c) + 1
      /\ \A k \in 1 .. Len(c) : u[k] = c[k]
  BY <1>1, ListedAppend
<1> HIDE DEF u
<1>3. /\ Listed(u) /\ Len(t) \in Nat /\ Len(u) = Len(t) + 2
      /\ \A k \in 1 .. Len(t) : u[k] = t[k]
  BY <1>1, <1>2
<1> QED
  BY <1>3 DEF AfterChallenge, Commit, u, c

----------------------------------------------------------------------------
(* What the transcripts say *)

\* A transcript that begins with the opening of a proof.
Opens(t, setup, circuit, claim, wires) ==
  LET m == Len(claim) IN
  /\ Listed(t) /\ m \in Nat /\ Len(t) \in Nat /\ Len(t) >= m + 7
  /\ t[2] = <<"setup-digest", CircuitSetupDigest(setup)>>
  /\ t[3] = <<"circuit-digest", circuit>>
  /\ t[4] = <<"commitments", m>>
  /\ \A k \in 1 .. m : t[4 + k] = <<"value-commitment", claim[k]>>
  /\ t[m + 5] = <<"M", wires.m>>
  /\ t[m + 6] = <<"O", wires.o>>
  /\ t[m + 7] = <<"M-tilde", wires.mTilde>>

LEMMA OpeningOpens ==
  ASSUME NEW setup, NEW circuit, NEW claim, Listed(claim), NEW wires
  PROVE  LET t == CircuitOpening(setup, circuit, claim, wires) IN
         Opens(t, setup, circuit, claim, wires) /\ Len(t) = Len(claim) + 7
<1> DEFINE A == NewTranscript(CircuitDomain)
           ib == <<"setup-digest", CircuitSetupDigest(setup)>>
           B == Append(A, ib)
           ic == <<"circuit-digest", circuit>>
           C == Append(B, ic)
           D == CommitCircuitClaim(C, claim)
           ie == <<"M", wires.m>>
           E == Append(D, ie)
           jf == <<"O", wires.o>>
           F == Append(E, jf)
           ig == <<"M-tilde", wires.mTilde>>
           G == Append(F, ig)
           m == Len(claim)
<1>1. CircuitOpening(setup, circuit, claim, wires) = G
  BY DEF CircuitOpening, Commit
<1>2. Listed(A) /\ Len(A) = 1
  <2> DEFINE item == <<"domain", CircuitDomain>>
  <2>1. A = <<item>>
    BY DEF NewTranscript
  <2> HIDE DEF item, A
  <2>2. A \in Seq({item}) /\ Len(A) = 1
    BY <2>1
  <2> QED
    BY <2>2 DEF Listed
<1> HIDE DEF ib, ic, ie, jf, ig
<1>3. Listed(B) /\ Len(B) = 2 /\ B[2] = ib
  <2> HIDE DEF A
  <2>1. Listed(A)
    BY <1>2
  <2>2. /\ Listed(Append(A, ib)) /\ Len(Append(A, ib)) = Len(A) + 1
        /\ \A k \in 1 .. Len(A) : Append(A, ib)[k] = A[k]
        /\ Append(A, ib)[Len(A) + 1] = ib
    BY ONLY <2>1, ListedAppend
  <2> QED
    BY <1>2, <2>2
<1>4. Listed(C) /\ Len(C) = 3 /\ C[3] = ic /\ C[2] = B[2]
  <2> HIDE DEF B
  <2>1. Listed(B)
    BY <1>3
  <2>2. /\ Listed(Append(B, ic)) /\ Len(Append(B, ic)) = Len(B) + 1
        /\ \A k \in 1 .. Len(B) : Append(B, ic)[k] = B[k]
        /\ Append(B, ic)[Len(B) + 1] = ic
    BY ONLY <2>1, ListedAppend
  <2> QED
    BY <1>3, <2>2
<1>5. /\ Listed(D) /\ m \in Nat /\ Len(D) = m + 4
      /\ D[2] = C[2] /\ D[3] = C[3] /\ D[4] = <<"commitments", m>>
      /\ \A k \in 1 .. m : D[4 + k] = <<"value-commitment", claim[k]>>
  <2> HIDE DEF C
  <2>1. LET u == CommitCircuitClaim(C, claim)
            n == Len(C) + 1
        IN  /\ Listed(u) /\ Len(C) \in Nat /\ Len(claim) \in Nat /\ Len(u) = n + Len(claim)
            /\ \A k \in 1 .. Len(C) : u[k] = C[k]
            /\ u[n] = <<"commitments", Len(claim)>>
            /\ \A k \in 1 .. Len(claim) : u[n + k] = <<"value-commitment", claim[k]>>
    <3>1. Listed(C)
      BY <1>4
    <3> QED
      BY ONLY <3>1, Listed(claim), ClaimCommitted, ZenonT(30)
  <2> DEFINE n == Len(C) + 1
  <2>2. /\ Listed(D) /\ m \in Nat /\ Len(D) = n + m
        /\ \A k \in 1 .. Len(C) : D[k] = C[k]
        /\ D[n] = <<"commitments", m>>
        /\ \A k \in 1 .. m : D[n + k] = <<"value-commitment", claim[k]>>
    BY <2>1
  <2>3. Len(C) = 3 /\ n = 4
    BY <1>4
  <2> HIDE DEF D, m, n
  <2>4. Listed(D) /\ m \in Nat /\ Len(D) = m + 4
    BY <2>2, <2>3
  <2>5. D[2] = C[2] /\ D[3] = C[3]
    BY <2>2, <2>3
  <2>6. D[4] = <<"commitments", m>>
    BY <2>2, <2>3, Zenon
  <2>7. \A k \in 1 .. m : D[4 + k] = <<"value-commitment", claim[k]>>
    BY <2>2, <2>3, Zenon
  <2> QED
    BY <2>4, <2>5, <2>6, <2>7
<1>6. /\ Listed(E) /\ Len(E) = m + 5 /\ E[m + 5] = ie
      /\ \A k \in 1 .. (m + 4) : E[k] = D[k]
  <2> HIDE DEF D, m
  <2>1. Listed(D)
    BY <1>5
  <2>2. /\ Listed(Append(D, ie)) /\ Len(Append(D, ie)) = Len(D) + 1
        /\ \A k \in 1 .. Len(D) : Append(D, ie)[k] = D[k]
        /\ Append(D, ie)[Len(D) + 1] = ie
    BY ONLY <2>1, ListedAppend
  <2> QED
    BY <1>5, <2>2
<1>7. /\ Listed(F) /\ Len(F) = m + 6 /\ F[m + 6] = jf
      /\ \A k \in 1 .. (m + 5) : F[k] = E[k]
  <2> HIDE DEF E, m
  <2>1. Listed(E)
    BY <1>6
  <2>2. /\ Listed(Append(E, jf)) /\ Len(Append(E, jf)) = Len(E) + 1
        /\ \A k \in 1 .. Len(E) : Append(E, jf)[k] = E[k]
        /\ Append(E, jf)[Len(E) + 1] = jf
    BY ONLY <2>1, ListedAppend
  <2> QED
    BY <1>5, <1>6, <2>2
<1>8. /\ Listed(G) /\ Len(G) = m + 7 /\ G[m + 7] = ig
      /\ \A k \in 1 .. (m + 6) : G[k] = F[k]
  <2> HIDE DEF F, m
  <2>1. Listed(F)
    BY <1>7
  <2>2. /\ Listed(Append(F, ig)) /\ Len(Append(F, ig)) = Len(F) + 1
        /\ \A k \in 1 .. Len(F) : Append(F, ig)[k] = F[k]
        /\ Append(F, ig)[Len(F) + 1] = ig
    BY ONLY <2>1, ListedAppend
  <2> QED
    BY <1>5, <1>7, <2>2
<1> HIDE DEF A, B, C, D, E, F, G, m
<1>9. \A k \in 1 .. (m + 4) : G[k] = D[k]
  BY <1>5, <1>6, <1>7, <1>8, SMTT(30)
<1>10. G[2] = ib /\ G[3] = ic /\ G[4] = <<"commitments", m>>
       /\ \A k \in 1 .. m : G[4 + k] = <<"value-commitment", claim[k]>>
  <2>1. ASSUME NEW k \in 1 .. m PROVE G[4 + k] = <<"value-commitment", claim[k]>>
    <3>1. 4 + k \in 1 .. (m + 4)
      BY <1>5
    <3> QED
      BY <1>5, <1>9, <3>1
  <2>2. 2 \in 1 .. (m + 4) /\ 3 \in 1 .. (m + 4) /\ 4 \in 1 .. (m + 4)
    BY <1>5
  <2>3. G[2] = D[2] /\ G[3] = D[3] /\ G[4] = D[4]
    BY <1>9, <2>2
  <2> QED
    BY <1>3, <1>4, <1>5, <2>1, <2>3
<1>11. G[m + 5] = ie /\ G[m + 6] = jf
  BY <1>5, <1>6, <1>7, <1>8
<1>12. Opens(G, setup, circuit, claim, wires)
  BY <1>5, <1>8, <1>10, <1>11 DEF Opens, m, ib, ic, ie, jf, ig
<1> QED
  BY <1>1, <1>8, <1>12 DEF m

\* What is appended does not change how a transcript begins.
LEMMA StillOpens ==
  ASSUME NEW t, NEW setup, NEW circuit, NEW claim, NEW wires,
         Opens(t, setup, circuit, claim, wires),
         NEW u, Listed(u), Len(u) \in Nat, Len(u) >= Len(t),
         \A k \in 1 .. Len(t) : u[k] = t[k]
  PROVE  Opens(u, setup, circuit, claim, wires)
<1> DEFINE m == Len(claim)
<1>1. m \in Nat /\ Len(t) \in Nat /\ Len(t) >= m + 7 /\ \A k \in 1 .. (m + 7) : u[k] = t[k]
  BY DEF Opens
<1>2. u[2] = t[2] /\ u[3] = t[3] /\ u[4] = t[4]
      /\ u[m + 5] = t[m + 5] /\ u[m + 6] = t[m + 6] /\ u[m + 7] = t[m + 7]
      /\ \A k \in 1 .. m : u[4 + k] = t[4 + k]
  BY <1>1
<1>3. Len(u) >= m + 7
  BY <1>1
<1> QED
  BY <1>1, <1>2, <1>3 DEF Opens

\* Two openings of which one transcript has both are of the same statement and
\* commitments: the number of commitments says where the claim ends.
LEMMA OpeningBinds ==
  ASSUME NEW t, NEW setup, NEW circuit, NEW claim, NEW wires, NEW u,
         NEW setup2, NEW circuit2, NEW claim2, NEW wires2,
         Listed(claim), Listed(claim2),
         Opens(t, setup, circuit, claim, wires),
         Opens(u, setup2, circuit2, claim2, wires2),
         u = SubSeq(t, 1, Len(u))
  PROVE  /\ CircuitSetupDigest(setup2) = CircuitSetupDigest(setup)
         /\ circuit2 = circuit
         /\ claim2 = claim
         /\ wires2.m = wires.m /\ wires2.o = wires.o /\ wires2.mTilde = wires.mTilde
         /\ \A k \in 1 .. Len(u) : u[k] = t[k]
<1> DEFINE m == Len(claim)
           m2 == Len(claim2)
<1>1. /\ Len(u) \in Nat /\ Len(t) \in Nat /\ m \in Nat /\ m2 \in Nat
      /\ Len(u) >= m2 + 7 /\ Len(t) >= m + 7 /\ Listed(t) /\ Listed(u)
  BY DEF Opens
<1>2. \A k \in 1 .. Len(u) : u[k] = t[k]
  <2>1. PICK X : t \in Seq(X)
    BY <1>1 DEF Listed
  <2> DEFINE w == Len(u)
             s == SubSeq(t, 1, w)
  <2>2. \A k \in 1 .. w : s[k] = t[k]
    BY <1>1, <2>1
  <2>3. u = s
    OBVIOUS
  <2> HIDE DEF s
  <2> QED
    BY <2>2, <2>3
<1>3. m2 = m
  <2>1. u[4] = t[4]
    BY <1>1, <1>2
  <2> QED
    BY <2>1 DEF Opens
<1>4. \A k \in 1 .. (m + 7) : u[k] = t[k]
  BY <1>1, <1>2, <1>3
<1>5. CircuitSetupDigest(setup2) = CircuitSetupDigest(setup)
  BY <1>1, <1>4 DEF Opens
<1>6. circuit2 = circuit
  BY <1>1, <1>4 DEF Opens
<1>7. wires2.m = wires.m /\ wires2.o = wires.o /\ wires2.mTilde = wires.mTilde
  BY <1>1, <1>3, <1>4 DEF Opens
<1>8. \A k \in 1 .. m : claim2[k] = claim[k]
  <2> SUFFICES ASSUME NEW k \in 1 .. m PROVE claim2[k] = claim[k]
    OBVIOUS
  <2>1. u[4 + k] = t[4 + k]
    BY <1>1, <1>4
  <2> QED
    BY <1>3, <2>1 DEF Opens
<1>9. claim2 = claim
  BY <1>3, <1>8, ListedEqual
<1> QED
  BY <1>2, <1>5, <1>6, <1>7, <1>9

----------------------------------------------------------------------------
(* What a proof is made of *)

\* The oracle gave y and z after the transcript t; Drawn is the one that follows.
Drew(o, t, y, z) ==
  LET u == AfterChallenge(t, "y", y) IN
  /\ <<t, "y">> \in DOMAIN o /\ o[<<t, "y">>] = y
  /\ <<u, "z">> \in DOMAIN o /\ o[<<u, "z">>] = z

Drawn(t, y, z) == AfterChallenge(AfterChallenge(t, "y", y), "z", z)

\* The transcript before the last challenge.
Polynomial(t, y, z, tBig) == CommitCoefficients(Drawn(t, y, z), tBig)

MadeWires(g, tape) == WireCommitments(g.setup, g.circuit, g.witness, tape)
MadePolynomial(g, tape, y, z) ==
  PolynomialState(g.witness, Reduction(g.circuit, y, z), MadeWires(g, tape))
MadeBlindings(g, tape, y, z) ==
  TTilde(g.circuit, g.witness, Reduction(g.circuit, y, z), tape)
MadeT(g, tape, y, z) ==
  [k \in DOMAIN TExponents |->
     CommitValue(g.setup, MadePolynomial(g, tape, y, z).t[TExponents[k]],
                 MadeBlindings(g, tape, y, z)[TExponents[k]])]
MadeSTilde(g, tape, x) ==
  LET wires == MadeWires(g, tape) IN
  InnerProductOf(<<wires.mBlinding, wires.outputBlinding, wires.mTildeBlinding>>, x)
MadeTX(g, tape, y, z, x) == InnerProductOf(MadePolynomial(g, tape, y, z).t, x)
MadeP(g, tape, y, z, x) ==
  BigP(g.setup, Reduction(g.circuit, y, z), MadeWires(g, tape), MadeSTilde(g, tape, x), x)
MadeClaim(g, tape, y, z, x) ==
  IpaClaimOf(g.circuit, Reduction(g.circuit, y, z), MadeP(g, tape, y, z, x),
             MadeTX(g, tape, y, z, x))
MadeVectors(g, tape, y, z, x) ==
  IpaWitnessVectors(g.circuit, g.witness, Reduction(g.circuit, y, z), MadeWires(g, tape),
                    MadePolynomial(g, tape, y, z), x)

\* The inner-product proof can be made.
Fits(g, tape, y, z, x) ==
  {MadeClaim(g, tape, y, z, x)}
    = NewWithClaim(g.setup.ipa, Reduction(g.circuit, y, z).yInv, MadeVectors(g, tape, y, z, x))

\* What is sent, in the fields that an alteration may touch.
Package(setup, circuit, claim, m, o, mTilde, tBig, sTilde, tX, tTildeX, p, ipaSetup, ipaClaim) ==
  [phase |-> "sent", setup |-> setup, circuit |-> circuit, claim |-> claim,
   proof |-> [wires |-> [m |-> m, o |-> o, mTilde |-> mTilde],
              tBig |-> tBig, sTilde |-> sTilde, tX |-> tX, tTildeX |-> tTildeX, p |-> p,
              ipa |-> [setup |-> ipaSetup, claim |-> ipaClaim]]]

Made(g, tape, y, z, x) ==
  LET wires == MadeWires(g, tape) IN
  Package(g.setup, g.circuit, g.claim, wires.m, wires.o, wires.mTilde,
          MadeT(g, tape, y, z), MadeSTilde(g, tape, x), MadeTX(g, tape, y, z, x),
          InnerProductOf(MadeBlindings(g, tape, y, z), x), MadeP(g, tape, y, z, x),
          g.setup.ipa, MadeClaim(g, tape, y, z, x))

Answered == Scalars \ {0}

----------------------------------------------------------------------------
(* The invariant *)

\* Who calls prove has a case and a list of commitments.
GivenInv ==
  /\ Listed(given.claim)
  /\ \E case \in Cases :
       \E both \in ToCircuitWithWitness(case.r1cs, case.full, case.indices, case.blindings) :
         /\ given.setup = case.setup
         /\ given.circuit = both.circuit /\ given.witness = both.witness

OracleInv == \A question \in DOMAIN oracle : oracle[question] \in Answered

OpeningOf(s, wires) == CircuitOpening(s.setup, s.circuit, s.claim, wires)

\* The prover has committed to its wires and has y and z,
Reduced(p, tape, y, z) ==
  LET t == OpeningOf(given, MadeWires(given, tape)) IN
  /\ Drew(oracle, t, y, z)
  /\ p.transcript = Drawn(t, y, z)
  /\ p.tape = tape
  /\ p.wires = MadeWires(given, tape)
  /\ p.reduction = Reduction(given.circuit, y, z)

\* and has x and its proof.
Finished(p, s, tape, y, z, a) ==
  LET t == OpeningOf(given, MadeWires(given, tape))
      u == Polynomial(t, y, z, MadeT(given, tape, y, z))
  IN  /\ Drew(oracle, t, y, z)
      /\ <<u, "x">> \in DOMAIN oracle /\ oracle[<<u, "x">>] = a
      /\ p.transcript = AfterChallenge(u, "x", a)
      /\ s = Made(given, tape, y, z, Powers(a))

ProverInv ==
  /\ prover.phase \in {"idle", "refused", "reduced", "done"}
  /\ prover.phase = "idle" => prover = Idle
  /\ prover.phase \in {"reduced", "done"} => Provable
  /\ prover.phase = "reduced" =>
       \E tape \in Tapes, y, z \in Answered : Reduced(prover, tape, y, z)
  /\ prover.phase = "done" => sent # Idle
  /\ sent # Idle =>
       /\ prover.phase = "done"
       /\ \E tape \in Tapes, y, z, a \in Answered : Finished(prover, sent, tape, y, z, a)

\* A claim prove is called with is refused for a reason.
RefusalInv ==
  prover.phase = "refused" =>
    \/ ~Provable
    \/ \E tape \in Tapes, y, z, a \in Answered : ~Fits(given, tape, y, z, Powers(a))

ReceivedInv == received # Idle => sent # Idle /\ received \in {sent} \cup Alterations(sent)

\* The verifier's side.
Read(v, r, y, z) ==
  LET t == OpeningOf(r, r.proof.wires) IN
  /\ Drew(oracle, t, y, z)
  /\ v.phase = "reduced" => /\ v.transcript = Drawn(t, y, z)
                            /\ v.reduction = Reduction(r.circuit, y, z)

Judged(v, r, y, z, a) ==
  LET u == Polynomial(OpeningOf(r, r.proof.wires), y, z, r.proof.tBig) IN
  /\ <<u, "x">> \in DOMAIN oracle /\ oracle[<<u, "x">>] = a
  /\ v.transcript = AfterChallenge(u, "x", a)
  /\ v.phase = "accepted" <=> Checks(r, Reduction(r.circuit, y, z), Powers(a))

VerifierInv ==
  /\ verifier.phase \in {"idle", "refused", "reduced", "accepted", "rejected"}
  /\ verifier.phase = "idle" => verifier = Idle
  /\ verifier.phase # "idle" => received # Idle
  /\ verifier.phase = "refused" =>
       ~Acceptable(received.setup, received.circuit, received.claim)
  /\ verifier.phase \in {"reduced", "accepted", "rejected"} =>
       \E y, z \in Answered :
         /\ Read(verifier, received, y, z)
         /\ verifier.phase # "reduced" => \E a \in Answered : Judged(verifier, received, y, z, a)

IInv == GivenInv /\ OracleInv /\ ProverInv /\ RefusalInv /\ ReceivedInv /\ VerifierInv

\* What the code builds has as many committed values as there are columns to
\* commit.
LEMMA ValuesListed ==
  ASSUME NEW case \in Cases,
         NEW both \in ToCircuitWithWitness(case.r1cs, case.full, case.indices, case.blindings)
  PROVE  \E n \in Nat : DOMAIN both.witness.values = 1 .. n
<1>1. PICK layout \in LayoutOf(case.r1cs, case.indices) :
        both.witness \in ToWitness(layout, Normalize(case.r1cs), case.full, case.blindings)
  BY DEF ToCircuitWithWitness
<1>2. layout.committed = ToSet(case.indices)
  BY DEF LayoutOf, NewLayout
<1>3. IsFiniteSet(ToSet(case.indices))
  <2> DEFINE indices == case.indices
             n == Len(indices)
  <2>1. indices \in Seq(Nat)
    BY CasesAssumption
  <2> HIDE DEF indices
  <2>2. ToSet(indices) = {indices[k] : k \in 1 .. n} /\ n \in Nat
    BY <2>1 DEF ToSet
  <2>3. IsFiniteSet(1 .. n)
    BY <2>2, FS_Interval
  <2> DEFINE T == {indices[k] : k \in 1 .. n}
             f == [k \in 1 .. n |-> indices[k]]
  <2>4. f \in [1 .. n -> T] /\ \A t \in T : \E k \in 1 .. n : f[k] = t
    OBVIOUS
  <2> HIDE DEF n, f, T
  <2>5. f \in Surjection(1 .. n, T)
    BY <2>4 DEF Surjection
  <2>6. IsFiniteSet(T)
    BY <2>3, <2>5, FS_Surjection
  <2> QED
    BY <2>2, <2>6 DEF indices, T
<1>4. CommittedLen(layout) \in Nat
  BY <1>2, <1>3, FS_CardinalityType DEF CommittedLen
<1>5. DOMAIN both.witness.values = 1 .. CommittedLen(layout)
  <2> DEFINE r1cs == Normalize(case.r1cs)
  <2> HIDE DEF r1cs
  <2>1. both.witness \in ToWitness(layout, r1cs, case.full, case.blindings)
    BY <1>1 DEF r1cs
  <2>2. PICK az, bz, cz :
          both.witness \in WitnessOf(layout, case.full, case.blindings, az, bz, cz)
    BY <2>1 DEF ToWitness
  <2> QED
    BY <2>2 DEF WitnessOf, NewWithBlinding
<1> QED
  BY <1>4, <1>5

LEMMA InitInv == Init => IInv
<1> SUFFICES ASSUME Init PROVE IInv
  OBVIOUS
<1>1. PICK case \in Cases :
        \E both \in ToCircuitWithWitness(case.r1cs, case.full, case.indices, case.blindings) :
          LET claim == ClaimOf(case.setup, both.witness) IN
          given \in [setup : {case.setup}, circuit : {both.circuit}, witness : {both.witness},
                     altered : {case.altered},
                     claim : {claim}
                               \cup {[claim EXCEPT ![k] = Plus(@, BasePoint(case.setup.value))] :
                                       k \in DOMAIN claim}
                               \cup {Tail(claim) : k \in DOMAIN claim}]
  BY DEF Init
<1>2. PICK both \in ToCircuitWithWitness(case.r1cs, case.full, case.indices, case.blindings) :
          LET claim == ClaimOf(case.setup, both.witness) IN
          given \in [setup : {case.setup}, circuit : {both.circuit}, witness : {both.witness},
                     altered : {case.altered},
                     claim : {claim}
                               \cup {[claim EXCEPT ![k] = Plus(@, BasePoint(case.setup.value))] :
                                       k \in DOMAIN claim}
                               \cup {Tail(claim) : k \in DOMAIN claim}]
  BY <1>1
<1> DEFINE claim == ClaimOf(case.setup, both.witness)
<1>3. PICK n \in Nat : DOMAIN claim = 1 .. n
  <2>1. DOMAIN claim = DOMAIN both.witness.values
    BY DEF ClaimOf
  <2> QED
    BY <2>1, ValuesListed
<1>4. claim = [k \in DOMAIN claim |-> claim[k]]
  BY DEF ClaimOf
<1> HIDE DEF claim
<1>5. Listed(given.claim)
  <2> DEFINE s == BasePoint(case.setup.value)
             X == {claim[k] : k \in 1 .. n} \cup {Plus(claim[k], s) : k \in 1 .. n}
  <2>1. claim \in Seq(X) /\ Len(claim) = n
    BY <1>3, <1>4
  <2>2. given.claim \in {claim} \cup {[claim EXCEPT ![k] = Plus(@, s)] : k \in DOMAIN claim}
                          \cup {Tail(claim) : k \in DOMAIN claim}
    BY <1>2 DEF claim
  <2>3. ASSUME NEW k \in DOMAIN claim PROVE [claim EXCEPT ![k] = Plus(@, s)] \in Seq(X)
    <3>1. Plus(claim[k], s) \in X
      BY <1>3, <2>3
    <3> HIDE DEF X, s
    <3> QED
      BY <2>1, <2>3, <3>1
  <2>4. ASSUME NEW k \in DOMAIN claim PROVE Tail(claim) \in Seq(X)
    <3> HIDE DEF X
    <3>1. claim # <<>>
      BY <1>3, <2>1, <2>4
    <3> QED
      BY <2>1, <3>1
  <2> HIDE DEF X, s
  <2>5. given.claim \in Seq(X)
    BY <2>1, <2>2, <2>3, <2>4
  <2> QED
    BY <2>5 DEF Listed
<1>6. given.setup = case.setup /\ given.circuit = both.circuit /\ given.witness = both.witness
  BY <1>2
<1>7. GivenInv
  BY <1>5, <1>6 DEF GivenInv
<1>8. prover = Idle /\ verifier = Idle /\ sent = Idle /\ received = Idle /\ oracle = <<>>
  BY DEF Init
<1>9. OracleInv
  BY <1>8 DEF OracleInv
<1>10. ProverInv /\ RefusalInv /\ ReceivedInv /\ VerifierInv
  BY <1>8 DEF ProverInv, RefusalInv, ReceivedInv, VerifierInv, Idle
<1> QED
  BY <1>7, <1>9, <1>10 DEF IInv

----------------------------------------------------------------------------
(* The invariant is kept *)

\* An oracle keeps its answers.
Extends(o, n) == \A question \in DOMAIN o : question \in DOMAIN n /\ n[question] = o[question]

LEMMA StillDrew ==
  ASSUME NEW o, NEW n, Extends(o, n), NEW t, NEW y, NEW z, Drew(o, t, y, z)
  PROVE  Drew(n, t, y, z)
  BY DEF Drew, Extends

\* Two answers after one transcript are the same.
LEMMA DrewOnce ==
  ASSUME NEW o, NEW t, NEW y, NEW z, NEW y2, NEW z2, Drew(o, t, y, z), Drew(o, t, y2, z2)
  PROVE  y = y2 /\ z = z2
<1>1. y = y2
  BY DEF Drew
<1> QED
  BY <1>1 DEF Drew

LEMMA ChallengesDraw ==
  ASSUME OracleInv, NEW t, NEW c \in Challenges(t)
  PROVE  /\ c.y \in Answered /\ c.z \in Answered
         /\ Drew(c.oracle, t, c.y, c.z)
         /\ c.done = Drawn(t, c.y, c.z)
         /\ Extends(oracle, c.oracle)
         /\ \A question \in DOMAIN c.oracle : c.oracle[question] \in Answered
<1>1. PICK y \in Answers(oracle, t, "y") :
        c \in {[y |-> y, z |-> z, done |-> AfterChallenge(AfterChallenge(t, "y", y), "z", z),
                oracle |-> Asked(Asked(oracle, t, "y", y), AfterChallenge(t, "y", y), "z", z)] :
                 z \in Answers(oracle, AfterChallenge(t, "y", y), "z")}
  BY DEF Challenges
<1> DEFINE u == AfterChallenge(t, "y", y)
           o == Asked(oracle, t, "y", y)
<1>2. PICK z \in Answers(oracle, u, "z") :
        c = [y |-> y, z |-> z, done |-> AfterChallenge(u, "z", z),
             oracle |-> Asked(o, u, "z", z)]
  BY <1>1
<1> DEFINE n == Asked(o, u, "z", z)
<1> HIDE DEF u
<1>3. \A question \in DOMAIN oracle : oracle[question] \in Scalars \ {0}
  BY DEF OracleInv, Answered
<1>4. /\ \A question \in DOMAIN oracle : question \in DOMAIN o /\ o[question] = oracle[question]
      /\ <<t, "y">> \in DOMAIN o /\ o[<<t, "y">>] = y
      /\ \A question \in DOMAIN o : o[question] \in Scalars \ {0}
      /\ y \in Scalars \ {0}
  BY <1>3, AskedKeeps
<1>5. z \in Scalars \ {0} /\ (<<u, "z">> \in DOMAIN oracle => z = oracle[<<u, "z">>])
  BY <1>3 DEF Answers
<1>6. DOMAIN o = DOMAIN oracle \cup {<<t, "y">>} /\ <<u, "z">> # <<t, "y">>
  BY DEF Asked
<1> HIDE DEF o
<1>7. z \in Answers(o, u, "z")
  BY <1>4, <1>5, <1>6 DEF Answers
<1>8. /\ \A question \in DOMAIN o : question \in DOMAIN n /\ n[question] = o[question]
      /\ <<u, "z">> \in DOMAIN n /\ n[<<u, "z">>] = z
      /\ \A question \in DOMAIN n : n[question] \in Scalars \ {0}
  BY <1>4, <1>7, AskedKeeps
<1> HIDE DEF n
<1>9. c.y = y /\ c.z = z /\ c.oracle = n /\ c.done = AfterChallenge(u, "z", z)
  BY <1>2 DEF n
<1>10. Drew(n, t, y, z)
  BY <1>4, <1>8 DEF Drew, u
<1>11. Extends(oracle, n)
  BY <1>4, <1>8 DEF Extends
<1> QED
  BY <1>4, <1>5, <1>8, <1>9, <1>10, <1>11 DEF Answered, Drawn, u

LEMMA AnswerGiven ==
  ASSUME OracleInv, NEW t, NEW label, NEW a \in Answers(oracle, t, label)
  PROVE  LET n == Asked(oracle, t, label, a) IN
         /\ a \in Answered
         /\ Extends(oracle, n)
         /\ <<t, label>> \in DOMAIN n /\ n[<<t, label>>] = a
         /\ \A question \in DOMAIN n : n[question] \in Answered
<1> DEFINE n == Asked(oracle, t, label, a)
<1>1. \A question \in DOMAIN oracle : oracle[question] \in Scalars \ {0}
  BY DEF OracleInv, Answered
<1>2. /\ \A question \in DOMAIN oracle : question \in DOMAIN n /\ n[question] = oracle[question]
      /\ <<t, label>> \in DOMAIN n /\ n[<<t, label>>] = a
      /\ \A question \in DOMAIN n : n[question] \in Scalars \ {0}
      /\ a \in Scalars \ {0}
  BY <1>1, AskedKeeps
<1> QED
  BY <1>2 DEF Extends, Answered

\* Each side's part holds on when only the oracle is asked.
LEMMA ProverKeeps ==
  ASSUME ProverInv, RefusalInv, UNCHANGED <<given, prover, sent>>, Extends(oracle, oracle')
  PROVE  ProverInv' /\ RefusalInv'
<1>1. \A tape, y, z : Reduced(prover, tape, y, z) => Reduced(prover, tape, y, z)'
  BY StillDrew DEF Reduced
<1>2. \A tape, y, z, a : Finished(prover, sent, tape, y, z, a)
                           => Finished(prover, sent, tape, y, z, a)'
  BY StillDrew DEF Finished, Extends
<1>3. Provable' = Provable
  BY DEF Provable
<1> QED
  BY <1>1, <1>2, <1>3 DEF ProverInv, RefusalInv

LEMMA VerifierKeeps ==
  ASSUME VerifierInv, UNCHANGED <<received, verifier>>, Extends(oracle, oracle')
  PROVE  VerifierInv'
<1>1. \A y, z : Read(verifier, received, y, z) => Read(verifier, received, y, z)'
  BY StillDrew DEF Read
<1>2. \A y, z, a : Judged(verifier, received, y, z, a) => Judged(verifier, received, y, z, a)'
  BY DEF Judged, Extends
<1> QED
  BY <1>1, <1>2 DEF VerifierInv

LEMMA NothingAsked == oracle' = oracle => Extends(oracle, oracle')
  BY DEF Extends

LEMMA ProverStartKeeps == IInv /\ ProverStart => IInv'
<1> SUFFICES ASSUME IInv, ProverStart PROVE IInv'
  OBVIOUS
<1>1. /\ given' = given /\ sent' = sent /\ received' = received /\ verifier' = verifier
      /\ prover = Idle
  BY DEF ProverStart
<1>2. sent = Idle
  BY <1>1 DEF IInv, ProverInv, Idle
<1>3. GivenInv' /\ ReceivedInv'
  BY <1>1 DEF IInv, GivenInv, ReceivedInv
<1>4. CASE /\ ~Provable
           /\ prover' = Refused("InvalidWitness")
           /\ UNCHANGED oracle
  <2>1. ~Provable'
    BY <1>1, <1>4 DEF Provable
  <2>2. prover'.phase = "refused"
    BY <1>4 DEF Refused
  <2>3. ProverInv' /\ RefusalInv'
    BY <1>1, <1>2, <2>1, <2>2 DEF ProverInv, RefusalInv
  <2>4. VerifierInv'
    BY <1>1, <1>4, NothingAsked, VerifierKeeps DEF IInv
  <2>5. OracleInv'
    BY <1>4 DEF IInv, OracleInv
  <2> QED
    BY <1>3, <2>3, <2>4, <2>5 DEF IInv
<1>5. CASE /\ Provable
           /\ \E tape \in Tapes :
                LET wires == WireCommitments(given.setup, given.circuit, given.witness, tape)
                    t == CircuitOpening(given.setup, given.circuit, given.claim, wires)
                IN  \E c \in Challenges(t) :
                      /\ oracle' = c.oracle
                      /\ prover' = [phase |-> "reduced", transcript |-> c.done, tape |-> tape,
                                    wires |-> wires,
                                    reduction |-> Reduction(given.circuit, c.y, c.z)]
  <2>1. PICK tape \in Tapes :
          \E c \in Challenges(OpeningOf(given, MadeWires(given, tape))) :
            /\ oracle' = c.oracle
            /\ prover' = [phase |-> "reduced", transcript |-> c.done, tape |-> tape,
                          wires |-> MadeWires(given, tape),
                          reduction |-> Reduction(given.circuit, c.y, c.z)]
    BY <1>5 DEF OpeningOf, MadeWires
  <2> DEFINE t == OpeningOf(given, MadeWires(given, tape))
  <2>2. PICK c \in Challenges(t) :
            /\ oracle' = c.oracle
            /\ prover' = [phase |-> "reduced", transcript |-> c.done, tape |-> tape,
                          wires |-> MadeWires(given, tape),
                          reduction |-> Reduction(given.circuit, c.y, c.z)]
    BY <2>1
  <2> HIDE DEF t
  <2>3. /\ c.y \in Answered /\ c.z \in Answered
        /\ Drew(oracle', t, c.y, c.z)
        /\ c.done = Drawn(t, c.y, c.z)
        /\ Extends(oracle, oracle')
        /\ OracleInv'
    BY <2>2, ChallengesDraw DEF IInv, OracleInv
  <2>4. VerifierInv'
    BY <1>1, <2>3, VerifierKeeps DEF IInv
  <2>5. Provable'
    BY <1>1, <1>5 DEF Provable
  <2>6. Reduced(prover, tape, c.y, c.z)'
    BY <1>1, <2>2, <2>3 DEF Reduced, t
  <2>7. prover'.phase = "reduced"
    BY <2>2
  <2>8. ProverInv'
    BY <1>1, <1>2, <2>3, <2>5, <2>6, <2>7 DEF ProverInv
  <2>9. RefusalInv'
    BY <2>7 DEF RefusalInv
  <2> QED
    BY <1>3, <2>3, <2>4, <2>8, <2>9 DEF IInv
<1> QED
  BY <1>4, <1>5 DEF ProverStart

LEMMA ProverFinishKeeps == IInv /\ ProverFinish => IInv'
<1> SUFFICES ASSUME IInv, ProverFinish PROVE IInv'
  OBVIOUS
<1>1. /\ given' = given /\ received' = received /\ verifier' = verifier
      /\ prover.phase = "reduced"
  BY DEF ProverFinish
<1>2. sent = Idle /\ received = Idle /\ Provable
  BY <1>1 DEF IInv, ProverInv, ReceivedInv
<1>3. PICK tape \in Tapes, y \in Answered, z \in Answered : Reduced(prover, tape, y, z)
  BY <1>1 DEF IInv, ProverInv
<1> DEFINE t == OpeningOf(given, MadeWires(given, tape))
           r == Reduction(given.circuit, y, z)
           u == Polynomial(t, y, z, MadeT(given, tape, y, z))
<1>4. /\ prover.wires = MadeWires(given, tape) /\ prover.reduction = r
      /\ prover.tape = tape /\ prover.transcript = Drawn(t, y, z)
      /\ Drew(oracle, t, y, z)
  BY <1>3 DEF Reduced
<1> DEFINE polynomial == PolynomialState(given.witness, prover.reduction, prover.wires)
           tTilde == TTilde(given.circuit, given.witness, prover.reduction, prover.tape)
           tBig == [k \in DOMAIN TExponents |->
                      CommitValue(given.setup, polynomial.t[TExponents[k]],
                                  tTilde[TExponents[k]])]
           w == CommitCoefficients(prover.transcript, tBig)
<1>5. /\ polynomial = MadePolynomial(given, tape, y, z)
      /\ tTilde = MadeBlindings(given, tape, y, z)
  BY <1>4 DEF MadePolynomial, MadeBlindings
<1>6. tBig = MadeT(given, tape, y, z)
  BY <1>5 DEF MadeT
<1>7. w = u
  BY <1>4, <1>6 DEF Polynomial
<1>8. PICK a \in Answers(oracle, w, "x") :
        LET x == Powers(a)
            sTilde == InnerProductOf(
                        <<prover.wires.mBlinding, prover.wires.outputBlinding,
                          prover.wires.mTildeBlinding>>, x)
            tX == InnerProductOf(polynomial.t, x)
            p == BigP(given.setup, prover.reduction, prover.wires, sTilde, x)
            vectors == IpaWitnessVectors(given.circuit, given.witness, prover.reduction,
                                         prover.wires, polynomial, x)
            ipaClaim == IpaClaimOf(given.circuit, prover.reduction, p, tX)
        IN  /\ oracle' = Asked(oracle, w, "x", a)
            /\ \/ /\ {ipaClaim} = NewWithClaim(given.setup.ipa, prover.reduction.yInv, vectors)
                  /\ prover' = [phase |-> "done",
                                transcript |-> AfterChallenge(w, "x", a)]
                  /\ sent' = [phase |-> "sent", setup |-> given.setup,
                              circuit |-> given.circuit, claim |-> given.claim,
                              proof |-> [wires |-> [m |-> prover.wires.m, o |-> prover.wires.o,
                                                    mTilde |-> prover.wires.mTilde],
                                         tBig |-> tBig, sTilde |-> sTilde, tX |-> tX,
                                         tTildeX |-> InnerProductOf(tTilde, x),
                                         p |-> p,
                                         ipa |-> [setup |-> given.setup.ipa,
                                                  claim |-> ipaClaim]]]
               \/ /\ {ipaClaim} # NewWithClaim(given.setup.ipa, prover.reduction.yInv, vectors)
                  /\ prover' = Refused("InvalidWitness")
                  /\ UNCHANGED sent
  BY Zenon DEF ProverFinish
<1> HIDE DEF polynomial, tTilde, tBig, w
<1> DEFINE x == Powers(a)
           fits == Fits(given, tape, y, z, x)
           done == [phase |-> "done", transcript |-> AfterChallenge(u, "x", a)]
<1>9. /\ oracle' = Asked(oracle, u, "x", a)
      /\ \/ /\ fits
            /\ prover' = done
            /\ sent' = Made(given, tape, y, z, x)
         \/ /\ ~fits
            /\ prover' = Refused("InvalidWitness")
            /\ UNCHANGED sent
  <2> DEFINE sTilde == InnerProductOf(
                         <<prover.wires.mBlinding, prover.wires.outputBlinding,
                           prover.wires.mTildeBlinding>>, x)
             tX == InnerProductOf(polynomial.t, x)
             p == BigP(given.setup, prover.reduction, prover.wires, sTilde, x)
             vectors == IpaWitnessVectors(given.circuit, given.witness, prover.reduction,
                                          prover.wires, polynomial, x)
             ipaClaim == IpaClaimOf(given.circuit, prover.reduction, p, tX)
  <2>1. sTilde = MadeSTilde(given, tape, x)
    BY <1>4 DEF MadeSTilde
  <2>2. tX = MadeTX(given, tape, y, z, x)
    BY <1>5 DEF MadeTX
  <2>3. p = MadeP(given, tape, y, z, x)
    <3> HIDE DEF sTilde
    <3> QED
      BY <1>4, <2>1 DEF MadeP
  <2>4. vectors = MadeVectors(given, tape, y, z, x)
    BY <1>4, <1>5 DEF MadeVectors
  <2>5. ipaClaim = MadeClaim(given, tape, y, z, x)
    <3> HIDE DEF p, tX
    <3> QED
      BY <1>4, <2>2, <2>3 DEF MadeClaim
  <2>6. /\ oracle' = Asked(oracle, w, "x", a)
        /\ \/ /\ {ipaClaim} = NewWithClaim(given.setup.ipa, prover.reduction.yInv, vectors)
              /\ prover' = [phase |-> "done",
                            transcript |-> AfterChallenge(w, "x", a)]
              /\ sent' = [phase |-> "sent", setup |-> given.setup,
                          circuit |-> given.circuit, claim |-> given.claim,
                          proof |-> [wires |-> [m |-> prover.wires.m, o |-> prover.wires.o,
                                                mTilde |-> prover.wires.mTilde],
                                     tBig |-> tBig, sTilde |-> sTilde, tX |-> tX,
                                     tTildeX |-> InnerProductOf(tTilde, x),
                                     p |-> p,
                                     ipa |-> [setup |-> given.setup.ipa,
                                              claim |-> ipaClaim]]]
           \/ /\ {ipaClaim} # NewWithClaim(given.setup.ipa, prover.reduction.yInv, vectors)
              /\ prover' = Refused("InvalidWitness")
              /\ UNCHANGED sent
    BY <1>8
  <2> HIDE DEF sTilde, tX, p, vectors, ipaClaim, x, r, u
  <2>7. fits <=> {ipaClaim} = NewWithClaim(given.setup.ipa, prover.reduction.yInv, vectors)
    BY <1>4, <2>4, <2>5 DEF Fits, r
  <2>8. Made(given, tape, y, z, x)
          = [phase |-> "sent", setup |-> given.setup,
             circuit |-> given.circuit, claim |-> given.claim,
             proof |-> [wires |-> [m |-> prover.wires.m, o |-> prover.wires.o,
                                   mTilde |-> prover.wires.mTilde],
                        tBig |-> tBig, sTilde |-> sTilde, tX |-> tX,
                        tTildeX |-> InnerProductOf(tTilde, x),
                        p |-> p,
                        ipa |-> [setup |-> given.setup.ipa, claim |-> ipaClaim]]]
    BY <1>4, <1>5, <1>6, <2>1, <2>2, <2>3, <2>5 DEF Made, Package
  <2> HIDE DEF fits
  <2> QED
    BY <1>7, <2>6, <2>7, <2>8
<1> HIDE DEF t, r, u, x, fits
<1>10. /\ a \in Answered /\ Extends(oracle, oracle') /\ OracleInv'
       /\ <<u, "x">> \in DOMAIN oracle' /\ oracle'[<<u, "x">>] = a
  <2>1. a \in Answers(oracle, u, "x")
    BY <1>7, <1>8
  <2> QED
    BY <1>9, <2>1, AnswerGiven DEF IInv, OracleInv
<1>11. GivenInv' /\ VerifierInv'
  BY <1>1, <1>10, VerifierKeeps DEF IInv, GivenInv
<1>12. CASE fits /\ prover' = done /\ sent' = Made(given, tape, y, z, x)
  <2>1. Finished(prover, sent, tape, y, z, a)'
    <3>1. Drew(oracle', t, y, z)
      BY <1>4, <1>10, StillDrew
    <3> QED
      BY <1>1, <1>10, <1>12, <3>1 DEF Finished, t, u, x
  <2>2. sent'.phase = "sent" /\ prover'.phase = "done" /\ sent' # Idle
    BY <1>12 DEF Made, Package, Idle
  <2>3. Provable'
    BY <1>1, <1>2 DEF Provable
  <2>4. ProverInv' /\ RefusalInv'
    BY <1>10, <2>1, <2>2, <2>3 DEF ProverInv, RefusalInv
  <2>5. ReceivedInv'
    BY <1>1, <1>2 DEF ReceivedInv, Idle
  <2> QED
    BY <1>10, <1>11, <2>4, <2>5 DEF IInv
<1>13. CASE ~fits /\ prover' = Refused("InvalidWitness") /\ UNCHANGED sent
  <2>1. prover'.phase = "refused" /\ sent' = Idle
    BY <1>2, <1>13 DEF Refused
  <2>2. ProverInv'
    BY <2>1 DEF ProverInv
  <2>3. ~Fits(given', tape, y, z, Powers(a))
    BY <1>1, <1>13 DEF fits, x
  <2>4. RefusalInv'
    BY <1>10, <2>3 DEF RefusalInv
  <2>5. ReceivedInv'
    BY <1>1, <1>2 DEF ReceivedInv, Idle
  <2> QED
    BY <1>10, <1>11, <2>2, <2>4, <2>5 DEF IInv
<1> QED
  BY <1>9, <1>12, <1>13

LEMMA DeliverKeeps == IInv /\ Deliver => IInv'
<1> SUFFICES ASSUME IInv, Deliver PROVE IInv'
  OBVIOUS
<1>1. /\ given' = given /\ prover' = prover /\ sent' = sent /\ verifier' = verifier
      /\ oracle' = oracle /\ sent # Idle /\ received = Idle
      /\ received' \in {sent} \cup Alterations(sent)
  BY DEF Deliver
<1>2. ProverInv' /\ RefusalInv'
  BY <1>1, NothingAsked, ProverKeeps DEF IInv
<1>3. GivenInv' /\ OracleInv' /\ ReceivedInv'
  BY <1>1 DEF IInv, GivenInv, OracleInv, ReceivedInv
<1>4. verifier = Idle /\ verifier.phase = "idle"
  BY <1>1 DEF IInv, VerifierInv, Idle
<1>5. VerifierInv'
  BY <1>1, <1>4 DEF VerifierInv
<1> QED
  BY <1>2, <1>3, <1>5 DEF IInv

LEMMA VerifierStartKeeps == IInv /\ VerifierStart => IInv'
<1> SUFFICES ASSUME IInv, VerifierStart PROVE IInv'
  OBVIOUS
<1> DEFINE t == OpeningOf(received, received.proof.wires)
<1>1. /\ given' = given /\ prover' = prover /\ sent' = sent /\ received' = received
      /\ received # Idle /\ verifier = Idle
  BY DEF VerifierStart
<1>2. GivenInv' /\ ReceivedInv'
  BY <1>1 DEF IInv, GivenInv, ReceivedInv
<1>3. CASE /\ ~Acceptable(received.setup, received.circuit, received.claim)
           /\ verifier' = Refused("InvalidProof")
           /\ UNCHANGED oracle
  <2>1. ProverInv' /\ RefusalInv'
    BY <1>1, <1>3, NothingAsked, ProverKeeps DEF IInv
  <2>2. verifier'.phase = "refused"
    BY <1>3 DEF Refused
  <2>3. VerifierInv' /\ OracleInv'
    BY <1>1, <1>3, <2>2 DEF IInv, VerifierInv, OracleInv
  <2> QED
    BY <1>2, <2>1, <2>3 DEF IInv
<1>4. CASE /\ Acceptable(received.setup, received.circuit, received.claim)
           /\ \E c \in Challenges(t) :
                /\ oracle' = c.oracle
                /\ verifier' = [phase |-> "reduced", transcript |-> c.done,
                                reduction |-> Reduction(received.circuit, c.y, c.z)]
  <2>1. PICK c \in Challenges(t) :
                /\ oracle' = c.oracle
                /\ verifier' = [phase |-> "reduced", transcript |-> c.done,
                                reduction |-> Reduction(received.circuit, c.y, c.z)]
    BY <1>4
  <2> HIDE DEF t
  <2>2. /\ c.y \in Answered /\ c.z \in Answered
        /\ Drew(oracle', t, c.y, c.z)
        /\ c.done = Drawn(t, c.y, c.z)
        /\ Extends(oracle, oracle')
        /\ OracleInv'
    BY <2>1, ChallengesDraw DEF IInv, OracleInv
  <2>3. ProverInv' /\ RefusalInv'
    BY <1>1, <2>2, ProverKeeps DEF IInv
  <2>4. verifier'.phase = "reduced"
    BY <2>1
  <2>5. Read(verifier, received, c.y, c.z)'
    BY <1>1, <2>1, <2>2 DEF Read, t
  <2>6. VerifierInv'
    BY <1>1, <2>2, <2>4, <2>5 DEF VerifierInv
  <2> QED
    BY <1>2, <2>2, <2>3, <2>6 DEF IInv
<1> QED
  BY <1>3, <1>4 DEF VerifierStart, OpeningOf

LEMMA VerifierFinishKeeps == IInv /\ VerifierFinish => IInv'
<1> SUFFICES ASSUME IInv, VerifierFinish PROVE IInv'
  OBVIOUS
<1>1. /\ given' = given /\ prover' = prover /\ sent' = sent /\ received' = received
      /\ verifier.phase = "reduced" /\ received # Idle
  BY DEF VerifierFinish, IInv, VerifierInv
<1>2. GivenInv' /\ ReceivedInv'
  BY <1>1 DEF IInv, GivenInv, ReceivedInv
<1>3. PICK y \in Answered, z \in Answered : Read(verifier, received, y, z)
  BY <1>1 DEF IInv, VerifierInv
<1> DEFINE t == OpeningOf(received, received.proof.wires)
           u == Polynomial(t, y, z, received.proof.tBig)
           r == Reduction(received.circuit, y, z)
<1>4. Drew(oracle, t, y, z) /\ verifier.transcript = Drawn(t, y, z) /\ verifier.reduction = r
  BY <1>1, <1>3 DEF Read
<1>5. PICK a \in Answers(oracle, u, "x") :
        /\ oracle' = Asked(oracle, u, "x", a)
        /\ verifier' = [phase |-> IF Checks(received, r, Powers(a))
                                  THEN "accepted" ELSE "rejected",
                        transcript |-> AfterChallenge(u, "x", a)]
  BY <1>4 DEF VerifierFinish, Polynomial
<1> HIDE DEF t, u, r
<1>6. /\ a \in Answered /\ Extends(oracle, oracle') /\ OracleInv'
      /\ <<u, "x">> \in DOMAIN oracle' /\ oracle'[<<u, "x">>] = a
  BY <1>5, AnswerGiven DEF IInv, OracleInv
<1>7. ProverInv' /\ RefusalInv'
  BY <1>1, <1>6, ProverKeeps DEF IInv
<1>8. verifier'.phase \in {"accepted", "rejected"}
      /\ (verifier'.phase = "accepted" <=> Checks(received, r, Powers(a)))
      /\ verifier'.transcript = AfterChallenge(u, "x", a)
  BY <1>5
<1>9. Read(verifier, received, y, z)'
  <2>1. Drew(oracle', t, y, z)
    BY <1>4, <1>6, StillDrew
  <2> QED
    BY <1>1, <1>8, <2>1 DEF Read, t
<1>10. Judged(verifier, received, y, z, a)'
  BY <1>1, <1>6, <1>8 DEF Judged, t, u, r
<1>11. VerifierInv'
  BY <1>1, <1>6, <1>8, <1>9, <1>10 DEF VerifierInv
<1> QED
  BY <1>2, <1>6, <1>7, <1>11 DEF IInv

LEMMA Invariance == Spec => []IInv
<1>1. ASSUME IInv, [Next]_vars PROVE IInv'
  <2>1. CASE ProverStart
    BY <1>1, <2>1, ProverStartKeeps
  <2>2. CASE ProverFinish
    BY <1>1, <2>2, ProverFinishKeeps
  <2>3. CASE Deliver
    BY <1>1, <2>3, DeliverKeeps
  <2>4. CASE VerifierStart
    BY <1>1, <2>4, VerifierStartKeeps
  <2>5. CASE VerifierFinish
    BY <1>1, <2>5, VerifierFinishKeeps
  <2>6. CASE UNCHANGED vars
    <3>1. /\ UNCHANGED <<given, prover, sent>> /\ UNCHANGED <<received, verifier>>
          /\ oracle' = oracle
      BY <2>6 DEF vars
    <3>2. ProverInv' /\ RefusalInv' /\ VerifierInv'
      BY <1>1, <3>1, NothingAsked, ProverKeeps, VerifierKeeps DEF IInv
    <3> QED
      BY <1>1, <3>1, <3>2 DEF IInv, GivenInv, OracleInv, ReceivedInv
  <2> QED
    BY <1>1, <2>1, <2>2, <2>3, <2>4, <2>5, <2>6 DEF Next
<1> QED
  BY <1>1, InitInv, PTL DEF Spec

----------------------------------------------------------------------------
(* What may arrive *)

\* The changes that leave statement and commitments as they were.
Answers5(s) ==
  {[s EXCEPT !.proof.sTilde = Add(@, 1)], [s EXCEPT !.proof.tX = Add(@, 1)],
   [s EXCEPT !.proof.tTildeX = Add(@, 1)],
   [s EXCEPT !.proof.p = Plus(@, BasePoint(s.setup.value))],
   [s EXCEPT !.proof.ipa.claim.product = Add(@, 1)]}

LEMMA ListedExcept ==
  ASSUME NEW t, Listed(t), NEW k, NEW e
  PROVE  Listed([t EXCEPT ![k] = e]) /\ Len([t EXCEPT ![k] = e]) = Len(t)
<1>1. PICK X : t \in Seq(X)
  BY DEF Listed
<1> DEFINE Y == X \cup {e}
           u == [t EXCEPT ![k] = e]
<1>2. t \in Seq(Y) /\ e \in Y
  BY <1>1
<1> HIDE DEF Y
<1>3. DOMAIN t = 1 .. Len(t) /\ Len(t) \in Nat /\ \A i \in 1 .. Len(t) : t[i] \in Y
  BY <1>2
<1>4. u = [i \in 1 .. Len(t) |-> u[i]] /\ \A i \in 1 .. Len(t) : u[i] \in Y
  BY <1>2, <1>3
<1>5. ASSUME NEW f, NEW n \in Nat, f = [i \in 1 .. n |-> f[i]], NEW V,
             \A i \in 1 .. n : f[i] \in V
      PROVE  f \in Seq(V) /\ Len(f) = n
  BY <1>5
<1> HIDE DEF u
<1>6. u \in Seq(Y) /\ Len(u) = Len(t)
  BY <1>3, <1>4, <1>5
<1> QED
  BY <1>6 DEF Listed, u

\* Whatever is changed, what arrives is made of a claim and commitments.
LEMMA AlteredPackage ==
  ASSUME NEW setup, NEW circuit, NEW claim, NEW m, NEW o, NEW mTilde, NEW tBig,
         NEW sTilde, NEW tX, NEW tTildeX, NEW p, NEW ipaSetup, NEW ipaClaim,
         Listed(claim), Listed(tBig),
         NEW s, s = Package(setup, circuit, claim, m, o, mTilde, tBig, sTilde, tX, tTildeX, p,
                            ipaSetup, ipaClaim),
         NEW r \in {s} \cup Alterations(s)
  PROVE  \/ r \in Answers5(s)
         \/ \E setup2, circuit2, claim2, m2, o2, mTilde2, tBig2 :
              /\ Listed(claim2) /\ Listed(tBig2) /\ Len(tBig2) = Len(tBig)
              /\ r = Package(setup2, circuit2, claim2, m2, o2, mTilde2, tBig2,
                             sTilde, tX, tTildeX, p, ipaSetup, ipaClaim)
<1> DEFINE Out(setup2, circuit2, claim2, m2, o2, mTilde2, tBig2) ==
             Package(setup2, circuit2, claim2, m2, o2, mTilde2, tBig2,
                     sTilde, tX, tTildeX, p, ipaSetup, ipaClaim)
           Goal == \E setup2, circuit2, claim2, m2, o2, mTilde2, tBig2 :
              /\ Listed(claim2) /\ Listed(tBig2) /\ Len(tBig2) = Len(tBig)
              /\ r = Out(setup2, circuit2, claim2, m2, o2, mTilde2, tBig2)
<1>1. /\ s.setup = setup /\ s.circuit = circuit /\ s.claim = claim
      /\ s.proof.wires = [m |-> m, o |-> o, mTilde |-> mTilde] /\ s.proof.tBig = tBig
  BY DEF Package
<1>2. CASE r = s
  BY <1>2
<1>3. CASE r \in Answers5(s)
  BY <1>3
<1>4. CASE r = [s EXCEPT !.proof.wires.m = Plus(@, @)]
  <2>1. r = Out(setup, circuit, claim, Plus(m, m), o, mTilde, tBig)
    BY <1>4 DEF Package
  <2> HIDE DEF Out
  <2> QED
    BY <2>1 DEF Out
<1>5. CASE r = [s EXCEPT !.proof.wires.o = Plus(@, @)]
  <2>1. r = Out(setup, circuit, claim, m, Plus(o, o), mTilde, tBig)
    BY <1>5 DEF Package
  <2> QED
    BY <2>1
<1>6. CASE r = [s EXCEPT !.proof.wires.mTilde = Plus(@, BasePoint(s.setup.blinding))]
  <2>1. r = Out(setup, circuit, claim, m, o, Plus(mTilde, BasePoint(setup.blinding)), tBig)
    BY <1>6 DEF Package
  <2> QED
    BY <2>1
<1>7. CASE r = [s EXCEPT !.proof.tBig[5] = Plus(@, BasePoint(s.setup.value))]
  <2> DEFINE e == Plus(tBig[5], BasePoint(setup.value))
             tBig2 == [tBig EXCEPT ![5] = e]
  <2>1. r = Out(setup, circuit, claim, m, o, mTilde, tBig2)
    BY <1>7 DEF Package
  <2> HIDE DEF e
  <2>2. Listed(tBig2) /\ Len(tBig2) = Len(tBig)
    BY ListedExcept
  <2> HIDE DEF tBig2
  <2> QED
    BY <2>1, <2>2
<1>8. CASE r = [s EXCEPT !.circuit.weights.weights = <<0, 0>> :> 2 @@ @]
  <2>1. \E circuit2 : r = Out(setup, circuit2, claim, m, o, mTilde, tBig)
    BY <1>8 DEF Package
  <2> QED
    BY <2>1
<1>9. CASE r = [s EXCEPT !.setup.value = s.setup.blinding]
  <2>1. \E setup2 : r = Out(setup2, circuit, claim, m, o, mTilde, tBig)
    BY <1>9 DEF Package
  <2> QED
    BY <2>1
<1>10. CASE r = [s EXCEPT !.setup.blinding = s.setup.value]
  <2>1. \E setup2 : r = Out(setup2, circuit, claim, m, o, mTilde, tBig)
    BY <1>10 DEF Package
  <2> QED
    BY <2>1
<1>11. CASE \E k \in DOMAIN s.claim :
              r = [s EXCEPT !.claim[k] = Plus(@, BasePoint(s.setup.value))]
  <2>1. PICK k \in DOMAIN claim : r = [s EXCEPT !.claim[k] = Plus(@, BasePoint(s.setup.value))]
    BY <1>1, <1>11
  <2> DEFINE e == Plus(claim[k], BasePoint(setup.value))
             claim2 == [claim EXCEPT ![k] = e]
  <2>2. r = Out(setup, circuit, claim2, m, o, mTilde, tBig)
    BY <2>1 DEF Package
  <2> HIDE DEF e
  <2>3. Listed(claim2)
    BY ListedExcept
  <2> HIDE DEF claim2
  <2> QED
    BY <2>2, <2>3
<1>12. CASE \E k \in DOMAIN s.claim : r = [s EXCEPT !.claim = Tail(s.claim)]
  <2>1. r = Out(setup, circuit, Tail(claim), m, o, mTilde, tBig) /\ DOMAIN claim # {}
    BY <1>12 DEF Package
  <2>2. Listed(Tail(claim))
    <3>1. PICK X : claim \in Seq(X)
      BY DEF Listed
    <3>2. claim # <<>>
      BY <2>1
    <3> QED
      BY <3>1, <3>2 DEF Listed
  <2> QED
    BY <2>1, <2>2
<1>13. r \in Alterations(s) =>
         \/ r \in Answers5(s)
         \/ r = [s EXCEPT !.proof.wires.m = Plus(@, @)]
         \/ r = [s EXCEPT !.proof.wires.o = Plus(@, @)]
         \/ r = [s EXCEPT !.proof.wires.mTilde = Plus(@, BasePoint(s.setup.blinding))]
         \/ r = [s EXCEPT !.proof.tBig[5] = Plus(@, BasePoint(s.setup.value))]
         \/ r = [s EXCEPT !.circuit.weights.weights = <<0, 0>> :> 2 @@ @]
         \/ r = [s EXCEPT !.setup.value = s.setup.blinding]
         \/ r = [s EXCEPT !.setup.blinding = s.setup.value]
         \/ \E k \in DOMAIN s.claim :
              r = [s EXCEPT !.claim[k] = Plus(@, BasePoint(s.setup.value))]
         \/ \E k \in DOMAIN s.claim : r = [s EXCEPT !.claim = Tail(s.claim)]
  <2> DEFINE M1 == [s EXCEPT !.proof.wires.m = Plus(@, @)]
             M2 == [s EXCEPT !.proof.wires.o = Plus(@, @)]
             M3 == [s EXCEPT !.proof.wires.mTilde = Plus(@, BasePoint(s.setup.blinding))]
             M4 == [s EXCEPT !.proof.tBig[5] = Plus(@, BasePoint(s.setup.value))]
             M5 == [s EXCEPT !.circuit.weights.weights = <<0, 0>> :> 2 @@ @]
             M6 == [s EXCEPT !.setup.value = s.setup.blinding]
             M7 == [s EXCEPT !.setup.blinding = s.setup.value]
             A1 == [s EXCEPT !.proof.sTilde = Add(@, 1)]
             A2 == [s EXCEPT !.proof.tX = Add(@, 1)]
             A3 == [s EXCEPT !.proof.tTildeX = Add(@, 1)]
             A4 == [s EXCEPT !.proof.p = Plus(@, BasePoint(s.setup.value))]
             A5 == [s EXCEPT !.proof.ipa.claim.product = Add(@, 1)]
             C(k) == [s EXCEPT !.claim[k] = Plus(@, BasePoint(s.setup.value))]
             T == [s EXCEPT !.claim = Tail(s.claim)]
  <2>1. Alterations(s) = {A1, A2, A3, A4, A5, M1, M2, M3, M4, M5, M6, M7}
                           \cup {C(k) : k \in DOMAIN s.claim} \cup {T : k \in DOMAIN s.claim}
    BY DEF Alterations
  <2>2. Answers5(s) = {A1, A2, A3, A4, A5}
    BY DEF Answers5
  <2> HIDE DEF M1, M2, M3, M4, M5, M6, M7, A1, A2, A3, A4, A5, C, T
  <2>3. r \in Alterations(s) =>
          \/ r \in Answers5(s) \/ r = M1 \/ r = M2 \/ r = M3 \/ r = M4 \/ r = M5
          \/ r = M6 \/ r = M7
          \/ \E k \in DOMAIN s.claim : r = C(k)
          \/ \E k \in DOMAIN s.claim : r = T
    BY <2>1, <2>2
  <2> QED
    BY <2>3 DEF M1, M2, M3, M4, M5, M6, M7, C, T
<1> HIDE DEF Goal
<1>14. Goal \/ r \in Answers5(s)
  BY <1>2, <1>3, <1>4, <1>5, <1>6, <1>7, <1>8, <1>9, <1>10, <1>11, <1>12, <1>13 DEF Goal
<1> QED
  BY <1>14 DEF Goal

\* The prover's commitments to the five coefficients.
LEMMA MadeTListed ==
  ASSUME NEW g, NEW tape, NEW y, NEW z
  PROVE  LET tBig == MadeT(g, tape, y, z) IN Listed(tBig) /\ Len(tBig) = 5
<1> DEFINE e(k) == CommitValue(g.setup, MadePolynomial(g, tape, y, z).t[TExponents[k]],
                               MadeBlindings(g, tape, y, z)[TExponents[k]])
           u == [k \in DOMAIN TExponents |-> e(k)]
           V == {e(k) : k \in 1 .. 5}
<1>1. DOMAIN TExponents = 1 .. 5
  BY DEF TExponents
<1> HIDE DEF e
<1>2. u \in Seq(V) /\ Len(u) = 5
  BY <1>1
<1> QED
  BY <1>2 DEF MadeT, Listed, e

\* Proofs arrive with a claim and five commitments, whatever was changed.
LEMMA Arrived ==
  ASSUME IInv, received # Idle
  PROVE  /\ sent # Idle
         /\ \A s \in {sent, received} :
              /\ Listed(s.claim) /\ Listed(s.proof.tBig) /\ Len(s.proof.tBig) = 5
              /\ s.proof.wires = [m |-> s.proof.wires.m, o |-> s.proof.wires.o,
                                  mTilde |-> s.proof.wires.mTilde]
<1>1. sent # Idle /\ received \in {sent} \cup Alterations(sent)
  BY DEF IInv, ReceivedInv
<1>2. PICK tape \in Tapes, y, z, a \in Answered : Finished(prover, sent, tape, y, z, a)
  BY <1>1 DEF IInv, ProverInv
<1> DEFINE g == given
           x == Powers(a)
           w == MadeWires(g, tape)
           tBig == MadeT(g, tape, y, z)
           sTilde == MadeSTilde(g, tape, x)
           tX == MadeTX(g, tape, y, z, x)
           tTildeX == InnerProductOf(MadeBlindings(g, tape, y, z), x)
           p == MadeP(g, tape, y, z, x)
           claim == MadeClaim(g, tape, y, z, x)
<1>3. sent = Package(g.setup, g.circuit, g.claim, w.m, w.o, w.mTilde, tBig, sTilde, tX,
                     tTildeX, p, g.setup.ipa, claim)
  BY <1>2 DEF Finished, Made
<1>4. Listed(g.claim) /\ Listed(tBig) /\ Len(tBig) = 5
  BY MadeTListed DEF IInv, GivenInv
<1> HIDE DEF x, w, tBig, sTilde, tX, tTildeX, p, claim
<1>5. \/ received \in Answers5(sent)
      \/ \E setup2, circuit2, claim2, m2, o2, mTilde2, tBig2 :
           /\ Listed(claim2) /\ Listed(tBig2) /\ Len(tBig2) = Len(tBig)
           /\ received = Package(setup2, circuit2, claim2, m2, o2, mTilde2, tBig2,
                                 sTilde, tX, tTildeX, p, g.setup.ipa, claim)
  <2>1. Listed(g.claim) /\ Listed(tBig)
    BY <1>4
  <2> QED
    BY ONLY <1>1, <1>3, <2>1, AlteredPackage
<1>6. /\ Listed(sent.claim) /\ Listed(sent.proof.tBig) /\ Len(sent.proof.tBig) = 5
      /\ sent.proof.wires = [m |-> sent.proof.wires.m, o |-> sent.proof.wires.o,
                             mTilde |-> sent.proof.wires.mTilde]
  BY <1>3, <1>4 DEF Package
<1>7. CASE received \in Answers5(sent)
  <2>1. received.claim = sent.claim /\ received.proof.tBig = sent.proof.tBig
        /\ received.proof.wires = sent.proof.wires
    BY <1>3, <1>7 DEF Answers5, Package
  <2> QED
    BY <1>1, <1>6, <2>1
<1>8. ASSUME NEW setup2, NEW circuit2, NEW claim2, NEW m2, NEW o2, NEW mTilde2, NEW tBig2,
             Listed(claim2), Listed(tBig2), Len(tBig2) = Len(tBig),
             received = Package(setup2, circuit2, claim2, m2, o2, mTilde2, tBig2,
                                sTilde, tX, tTildeX, p, g.setup.ipa, claim)
      PROVE  /\ Listed(received.claim) /\ Listed(received.proof.tBig)
             /\ Len(received.proof.tBig) = 5
             /\ received.proof.wires = [m |-> received.proof.wires.m,
                                        o |-> received.proof.wires.o,
                                        mTilde |-> received.proof.wires.mTilde]
  BY <1>4, <1>8 DEF Package
<1> QED
  BY <1>1, <1>5, <1>6, <1>7, <1>8

\* The transcripts after the challenges y and z, and after x.
LEMMA DrawnOpens ==
  ASSUME NEW s, Listed(s.claim), NEW wires, NEW y, NEW z
  PROVE  LET v == Drawn(OpeningOf(s, wires), y, z) IN
         Opens(v, s.setup, s.circuit, s.claim, wires) /\ Len(v) = Len(s.claim) + 11
<1> DEFINE t == OpeningOf(s, wires)
           u == AfterChallenge(t, "y", y)
           v == AfterChallenge(u, "z", z)
<1>1. Opens(t, s.setup, s.circuit, s.claim, wires) /\ Len(t) = Len(s.claim) + 7
  BY OpeningOpens DEF OpeningOf
<1>2. Len(s.claim) \in Nat /\ Listed(t)
  BY <1>1 DEF Opens
<1> HIDE DEF t
<1>3. Listed(u) /\ Len(u) = Len(t) + 2 /\ \A k \in 1 .. Len(t) : u[k] = t[k]
  BY <1>2, ChallengeAppended
<1> HIDE DEF u
<1>4. Listed(v) /\ Len(v) = Len(u) + 2 /\ \A k \in 1 .. Len(u) : v[k] = u[k]
  BY <1>3, ChallengeAppended
<1> HIDE DEF v
<1>5. Len(v) \in Nat /\ Len(v) >= Len(t) /\ \A k \in 1 .. Len(t) : v[k] = t[k]
  BY <1>1, <1>2, <1>3, <1>4
<1>6. Opens(v, s.setup, s.circuit, s.claim, wires)
  BY ONLY <1>1, <1>4, <1>5, StillOpens
<1> QED
  BY <1>1, <1>2, <1>3, <1>4, <1>6 DEF Drawn, t, u, v

LEMMA PolynomialOpens ==
  ASSUME NEW s, Listed(s.claim), NEW wires, NEW y, NEW z, NEW tBig, Listed(tBig),
         Len(tBig) = 5, NEW a
  PROVE  LET v == AfterChallenge(Polynomial(OpeningOf(s, wires), y, z, tBig), "x", a) IN
         /\ Opens(v, s.setup, s.circuit, s.claim, wires) /\ Len(v) = Len(s.claim) + 18
         /\ \A k \in 1 .. 5 : v[Len(s.claim) + 11 + k] = << <<"T", k>>, tBig[k]>>
<1> DEFINE t == Drawn(OpeningOf(s, wires), y, z)
           u == CommitCoefficients(t, tBig)
           v == AfterChallenge(u, "x", a)
           m == Len(s.claim)
<1>1. Opens(t, s.setup, s.circuit, s.claim, wires) /\ Len(t) = m + 11
  BY DrawnOpens
<1>2. m \in Nat /\ Listed(t)
  BY <1>1 DEF Opens
<1> HIDE DEF t
<1>3. /\ Listed(u) /\ Len(u) = Len(t) + Len(tBig) /\ \A k \in 1 .. Len(t) : u[k] = t[k]
      /\ \A k \in 1 .. Len(tBig) : u[Len(t) + k] = << <<"T", k>>, tBig[k]>>
  <2>1. Listed(t) /\ Listed(tBig)
    BY <1>2
  <2>2. LET w == CommitCoefficients(t, tBig)
            n == Len(t)
        IN  /\ Listed(w) /\ n \in Nat /\ Len(tBig) \in Nat /\ Len(w) = n + Len(tBig)
            /\ \A k \in 1 .. n : w[k] = t[k]
            /\ FollowedBy(w, n, tBig)
    BY ONLY <2>1, CoefficientsCommitted
  <2> QED
    BY <2>2 DEF FollowedBy
<1> HIDE DEF u
<1>4. Listed(v) /\ Len(v) = Len(u) + 2 /\ \A k \in 1 .. Len(u) : v[k] = u[k]
  BY <1>3, ChallengeAppended
<1> HIDE DEF v, m
<1>5. Len(v) \in Nat /\ Len(v) >= Len(t) /\ Len(v) = m + 18
      /\ \A k \in 1 .. Len(t) : v[k] = t[k]
  BY <1>1, <1>2, <1>3, <1>4
<1>6. Opens(v, s.setup, s.circuit, s.claim, wires)
  BY ONLY <1>1, <1>4, <1>5, StillOpens DEF m
<1>7. ASSUME NEW k \in 1 .. 5 PROVE v[m + 11 + k] = << <<"T", k>>, tBig[k]>>
  <2>1. u[m + 11 + k] = << <<"T", k>>, tBig[k]>>
    BY <1>1, <1>3
  <2>2. m + 11 + k \in 1 .. Len(u)
    BY <1>1, <1>2, <1>3
  <2> QED
    BY <1>4, <2>1, <2>2
<1> QED
  BY <1>5, <1>6, <1>7 DEF Polynomial, t, u, v, m

----------------------------------------------------------------------------
(* The challenges *)

\* A verifier whose transcript reads like the prover's, as far as it goes, has the
\* prover's setup, circuit, claim and commitments to the wires, and once it has drawn
\* x the same commitments to the coefficients (circuit.rs:341-374, 437-461).
THEOREM ChallengesBind == Spec => []ChallengesBindStatement
<1>1. IInv => ChallengesBindStatement
  <2> SUFFICES ASSUME IInv, verifier.phase \in {"reduced", "accepted", "rejected"},
                      verifier.transcript
                        = SubSeq(prover.transcript, 1, Len(verifier.transcript))
               PROVE  /\ CircuitSetupDigest(received.setup) = CircuitSetupDigest(sent.setup)
                      /\ received.circuit = sent.circuit
                      /\ received.claim = sent.claim
                      /\ received.proof.wires = sent.proof.wires
                      /\ verifier.phase # "reduced" => received.proof.tBig = sent.proof.tBig
    BY DEF ChallengesBindStatement
  <2> DEFINE q == prover.transcript
             v == verifier.transcript
             m == Len(sent.claim)
             m2 == Len(received.claim)
  <2>1. received # Idle
    BY DEF IInv, VerifierInv
  <2>2. /\ sent # Idle
        /\ \A s \in {sent, received} :
             /\ Listed(s.claim) /\ Listed(s.proof.tBig) /\ Len(s.proof.tBig) = 5
             /\ s.proof.wires = [m |-> s.proof.wires.m, o |-> s.proof.wires.o,
                                 mTilde |-> s.proof.wires.mTilde]
    BY <2>1, Arrived
  <2>3. PICK tape \in Tapes, y, z, a \in Answered : Finished(prover, sent, tape, y, z, a)
    BY <2>2 DEF IInv, ProverInv
  <2>4. /\ sent.setup = given.setup /\ sent.circuit = given.circuit
        /\ sent.claim = given.claim
        /\ sent.proof.wires.m = MadeWires(given, tape).m
        /\ sent.proof.wires.o = MadeWires(given, tape).o
        /\ sent.proof.wires.mTilde = MadeWires(given, tape).mTilde
        /\ sent.proof.tBig = MadeT(given, tape, y, z)
    BY <2>3 DEF Finished, Made, Package
  <2>5. q = AfterChallenge(Polynomial(OpeningOf(sent, sent.proof.wires), y, z,
                                      sent.proof.tBig), "x", a)
    <3>1. OpeningOf(sent, sent.proof.wires) = OpeningOf(given, MadeWires(given, tape))
      BY <2>4 DEF OpeningOf, CircuitOpening
    <3> QED
      BY <2>3, <2>4, <3>1 DEF Finished
  <2>6. /\ Opens(q, sent.setup, sent.circuit, sent.claim, sent.proof.wires)
        /\ Len(q) = m + 18
        /\ \A k \in 1 .. 5 : q[m + 11 + k] = << <<"T", k>>, sent.proof.tBig[k]>>
    BY <2>2, <2>5, PolynomialOpens, SMTT(30)
  <2>7. PICK y2, z2 \in Answered :
          /\ Read(verifier, received, y2, z2)
          /\ verifier.phase # "reduced" => \E a2 \in Answered :
                                             Judged(verifier, received, y2, z2, a2)
    BY DEF IInv, VerifierInv
  <2>8. CASE verifier.phase = "reduced"
    <3>1. v = Drawn(OpeningOf(received, received.proof.wires), y2, z2)
      BY <2>7, <2>8 DEF Read
    <3>2. Opens(v, received.setup, received.circuit, received.claim, received.proof.wires)
      BY <2>2, <3>1, DrawnOpens
    <3>3. Listed(sent.claim) /\ Listed(received.claim) /\ v = SubSeq(q, 1, Len(v))
      BY <2>2
    <3> HIDE DEF q, v
    <3>4. /\ CircuitSetupDigest(received.setup) = CircuitSetupDigest(sent.setup)
          /\ received.circuit = sent.circuit /\ received.claim = sent.claim
          /\ received.proof.wires.m = sent.proof.wires.m
          /\ received.proof.wires.o = sent.proof.wires.o
          /\ received.proof.wires.mTilde = sent.proof.wires.mTilde
      BY ONLY <2>6, <3>2, <3>3, OpeningBinds, SMTT(30)
    <3> QED
      BY <2>2, <2>8, <3>4
  <2>9. CASE verifier.phase # "reduced"
    <3>1. PICK a2 \in Answered : Judged(verifier, received, y2, z2, a2)
      BY <2>7, <2>9
    <3>2. v = AfterChallenge(Polynomial(OpeningOf(received, received.proof.wires), y2, z2,
                                        received.proof.tBig), "x", a2)
      BY <3>1 DEF Judged
    <3>3. /\ Opens(v, received.setup, received.circuit, received.claim, received.proof.wires)
          /\ Len(v) = m2 + 18
          /\ \A k \in 1 .. 5 : v[m2 + 11 + k] = << <<"T", k>>, received.proof.tBig[k]>>
      <4> DEFINE w == AfterChallenge(Polynomial(OpeningOf(received, received.proof.wires),
                                                y2, z2, received.proof.tBig), "x", a2)
      <4>1. /\ Listed(received.claim) /\ Listed(received.proof.tBig)
            /\ Len(received.proof.tBig) = 5
        BY <2>2
      <4>2. /\ Opens(w, received.setup, received.circuit, received.claim, received.proof.wires)
            /\ Len(w) = Len(received.claim) + 18
            /\ \A k \in 1 .. 5 :
                 w[Len(received.claim) + 11 + k] = << <<"T", k>>, received.proof.tBig[k]>>
        BY ONLY <4>1, PolynomialOpens, SMTT(30)
      <4>3. v = w
        BY <3>2
      <4> HIDE DEF w, v
      <4> QED
        BY <4>2, <4>3
    <3>4. Listed(sent.claim) /\ Listed(received.claim) /\ v = SubSeq(q, 1, Len(v))
      BY <2>2
    <3> HIDE DEF q, v
    <3>5. /\ CircuitSetupDigest(received.setup) = CircuitSetupDigest(sent.setup)
          /\ received.circuit = sent.circuit /\ received.claim = sent.claim
          /\ received.proof.wires.m = sent.proof.wires.m
          /\ received.proof.wires.o = sent.proof.wires.o
          /\ received.proof.wires.mTilde = sent.proof.wires.mTilde
          /\ \A k \in 1 .. Len(v) : v[k] = q[k]
      <4>1. /\ Opens(q, sent.setup, sent.circuit, sent.claim, sent.proof.wires)
            /\ Opens(v, received.setup, received.circuit, received.claim,
                     received.proof.wires)
        BY <2>6, <3>3
      <4> QED
        BY ONLY <3>4, <4>1, OpeningBinds
    <3>6. m2 = m /\ m \in Nat
      BY <2>6, <3>5 DEF Opens
    <3>7. \A k \in 1 .. 5 : received.proof.tBig[k] = sent.proof.tBig[k]
      <4> SUFFICES ASSUME NEW k \in 1 .. 5
                   PROVE  received.proof.tBig[k] = sent.proof.tBig[k]
        OBVIOUS
      <4>1. v[m + 11 + k] = q[m + 11 + k]
        <5>1. m + 11 + k \in 1 .. Len(v)
          BY <3>3, <3>6
        <5> QED
          BY <3>5, <5>1
      <4>2. v[m2 + 11 + k] = << <<"T", k>>, received.proof.tBig[k]>>
        BY <3>3
      <4>3. q[m + 11 + k] = << <<"T", k>>, sent.proof.tBig[k]>>
        BY <2>6
      <4> HIDE DEF m, m2
      <4> QED
        BY <3>6, <4>1, <4>2, <4>3
    <3>8. received.proof.tBig = sent.proof.tBig
      <4>1. /\ Listed(received.proof.tBig) /\ Listed(sent.proof.tBig)
            /\ Len(received.proof.tBig) = 5 /\ Len(sent.proof.tBig) = 5
        BY <2>2
      <4> QED
        BY ONLY <3>7, <4>1, ListedEqual
    <3> QED
      BY <2>2, <3>5, <3>8
  <2> QED
    BY <2>8, <2>9
<1> QED
  BY <1>1, Invariance, PTL

----------------------------------------------------------------------------
(* What prove is called with *)

Typed(gv) ==
  LET m == gv.circuit.committed
      n == gv.circuit.internal
  IN  /\ Pedersen(gv.setup) /\ gv.setup.ipa.g \in Seq(Bases) /\ gv.setup.ipa.h \in Seq(Bases)
      /\ CircuitTyped(gv.circuit) /\ m \in Nat /\ n \in Nat
      /\ PaddedVars(gv.circuit) \in Nat /\ n <= PaddedVars(gv.circuit)
      /\ PaddedVars(gv.circuit) <= Len(gv.setup.ipa.g)
      /\ PaddedVars(gv.circuit) <= Len(gv.setup.ipa.h)
      /\ gv.witness.values \in Vectors(m) /\ gv.witness.blinding \in Vectors(m)
      /\ gv.witness.left \in Vectors(n) /\ gv.witness.right \in Vectors(n)
      /\ gv.witness.output \in Vectors(n)
      /\ \A k \in 1 .. n : gv.witness.output[k] = Mul(gv.witness.left[k], gv.witness.right[k])
      /\ gv.claim = [k \in 1 .. m |->
                       CommitValue(gv.setup, gv.witness.values[k], gv.witness.blinding[k])]
      /\ \A tape \in Tapes : tape \in Seq(Scalars) /\ Len(tape) >= 2 * n + 9

LEMMA GivenTyped ==
  ASSUME GivenInv, Provable
  PROVE  Typed(given)
<1> DEFINE circuit == given.circuit
           witness == given.witness
           m == circuit.committed
           n == circuit.internal
<1>1. PICK case \in Cases :
        \E both \in ToCircuitWithWitness(case.r1cs, case.full, case.indices, case.blindings) :
          /\ given.setup = case.setup
          /\ given.circuit = both.circuit /\ given.witness = both.witness
  BY DEF GivenInv
<1> DEFINE r1cs == case.r1cs
           N == Normalize(r1cs)
<1>2. PICK both \in ToCircuitWithWitness(r1cs, case.full, case.indices, case.blindings) :
        given.setup = case.setup /\ circuit = both.circuit /\ witness = both.witness
  BY <1>1
<1>3. PICK layout \in LayoutOf(r1cs, case.indices) :
        \E w \in ToWitness(layout, N, case.full, case.blindings), c \in ToCircuit(layout, N) :
          both = [circuit |-> c, witness |-> w]
  BY <1>2 DEF ToCircuitWithWitness
<1>4. witness \in ToWitness(layout, N, case.full, case.blindings)
      /\ circuit \in ToCircuit(layout, N)
  BY <1>2, <1>3
<1>5. /\ System(r1cs) /\ case.indices \in Seq(Nat)
      /\ case.full \in Seq(Scalars) /\ case.blindings \in Seq(Scalars)
      /\ case.setup.ipa.g \in Seq(Bases) /\ case.setup.ipa.h \in Seq(Bases)
      /\ Pedersen(case.setup)
      /\ \A c \in R1csToCircuit(r1cs, case.indices), tape \in Tapes :
           Len(tape) >= 2 * c.internal + 9
      /\ Tapes \subseteq Seq(Scalars)
  BY CasesAssumption DEF System, Pedersen
<1>6. Laid(layout, Width(r1cs), Height(r1cs))
  <2>1. layout \in NewLayout(Width(r1cs), Height(r1cs), case.indices)
    BY <1>3 DEF LayoutOf
  <2>2. Width(r1cs) \in Nat /\ Height(r1cs) \in Nat
    BY <1>5, NormalizedMade
  <2> QED
    BY <1>5, <2>1, <2>2, LayoutMade
<1>7. CircuitTyped(circuit) /\ m = CommittedLen(layout)
  BY <1>4, <1>5, <1>6, CircuitMade
<1>8. /\ witness.values \in Vectors(m) /\ witness.blinding \in Vectors(m)
      /\ witness.left \in Vectors(layout.internal) /\ witness.right \in Vectors(layout.internal)
      /\ layout.internal \in Nat /\ m \in Nat
  BY <1>4, <1>5, <1>6, <1>7, WitnessMade
<1>9. n \in Nat
  BY <1>7 DEF CircuitTyped
<1>10. /\ witness.output = Hadamard(witness.left, witness.right)
       /\ Len(witness.left) = n
       /\ given.claim = ClaimOf(given.setup, witness)
       /\ Len(given.setup.ipa.g) >= PaddedVars(circuit)
       /\ Len(given.setup.ipa.h) >= PaddedVars(circuit)
  BY DEF Provable, WitnessSatisfied, CircuitSatisfied, Supports
<1>11. n = layout.internal
  BY <1>8, <1>10 DEF Vectors
<1>12. PaddedVars(circuit) \in Nat /\ n <= PaddedVars(circuit)
  BY <1>9, PaddedMade
<1>13. circuit \in R1csToCircuit(r1cs, case.indices)
  BY <1>3, <1>4 DEF R1csToCircuit
<1>14. \A tape \in Tapes : tape \in Seq(Scalars) /\ Len(tape) >= 2 * n + 9
  BY <1>5, <1>13
<1>15. DOMAIN witness.values = 1 .. m
  BY <1>8, VectorType
<1>16. given.claim = [k \in 1 .. m |->
                        CommitValue(given.setup, witness.values[k], witness.blinding[k])]
  BY <1>10, <1>15 DEF ClaimOf
<1> HIDE DEF m, n, circuit, witness
<1>17. witness.output \in Vectors(n)
       /\ \A k \in 1 .. n : witness.output[k] = Mul(witness.left[k], witness.right[k])
  BY <1>8, <1>9, <1>10, <1>11, HadamardType
<1>18. Len(given.setup.ipa.g) \in Nat /\ Len(given.setup.ipa.h) \in Nat
  BY <1>2, <1>5
<1>19. PaddedVars(circuit) <= Len(given.setup.ipa.g)
       /\ PaddedVars(circuit) <= Len(given.setup.ipa.h)
  BY <1>10, <1>12, <1>18
<1> QED
  BY <1>2, <1>5, <1>7, <1>8, <1>9, <1>11, <1>12, <1>14, <1>16, <1>17, <1>19
     DEF Typed, m, n, circuit, witness

\* The blindings of the prover.
LEMMA TapeCut ==
  ASSUME NEW tape \in Seq(Scalars), NEW start \in Nat, NEW n \in Nat, start + n <= Len(tape)
  PROVE  SubSeq(tape, start + 1, start + n) \in Vectors(n)
         /\ \A k \in 1 .. n : tape[start + k] \in Scalars
<1> DEFINE s == SubSeq(tape, start + 1, start + n)
<1>1. ASSUME NEW k \in 1 .. n PROVE tape[start + k] \in Scalars
  <2>1. start + k \in 1 .. Len(tape)
    OBVIOUS
  <2> QED
    BY <2>1
<1>2. s = [k \in 1 .. n |-> tape[start + k]]
  <2>1. s = [k \in 1 .. ((start + n) - (start + 1) + 1) |-> tape[k + (start + 1) - 1]]
    OBVIOUS
  <2>2. (start + n) - (start + 1) + 1 = n /\ \A k \in 1 .. n : k + (start + 1) - 1 = start + k
    OBVIOUS
  <2> QED
    BY <2>1, <2>2
<1>3. s = [k \in 1 .. n |-> s[k]] /\ \A k \in 1 .. n : s[k] \in Scalars
  BY <1>1, <1>2
<1> HIDE DEF s
<1>4. s \in Vectors(n)
  BY <1>3, VectorsAre
<1> QED
  BY <1>1, <1>4 DEF s

LEMMA BlindedPoint ==
  ASSUME NEW setup, Pedersen(setup), NEW p \in Pts, NEW s \in Scalars
  PROVE  Plus(p, Scale(BasePoint(setup.blinding), s)) \in Pts
<1>1. BasePoint(setup.blinding) \in Pts
  BY BasePointType DEF Pedersen
<1>2. Scale(BasePoint(setup.blinding), s) \in Pts
  BY <1>1, PointsClosed
<1> QED
  BY <1>2, PlusSwap

LEMMA MadeTyped ==
  ASSUME NEW gv, Typed(gv), NEW tape \in Tapes, NEW y \in Answered, NEW z \in Answered
  PROVE  LET m == gv.circuit.committed
             n == gv.circuit.internal
             w == MadeWires(gv, tape)
         IN  /\ Weighed(Reduction(gv.circuit, y, z), m, n, PaddedVars(gv.circuit))
             /\ Wired(gv.witness, w, m, n)
             /\ w.m \in Pts /\ w.o \in Pts /\ w.mTilde \in Pts
             /\ w.mBlinding \in Scalars /\ w.outputBlinding \in Scalars
             /\ w.mTildeBlinding \in Scalars
             /\ MadePolynomial(gv, tape, y, z).t \in Vectors(6)
             /\ MadeBlindings(gv, tape, y, z) \in Vectors(6)
             /\ MadeBlindings(gv, tape, y, z)[2]
                  = Negate(InnerProductOf(Reduction(gv.circuit, y, z).reduced.theta,
                                          gv.witness.blinding))
<1> DEFINE circuit == gv.circuit
           setup == gv.setup
           witness == gv.witness
           m == circuit.committed
           n == circuit.internal
           size == PaddedVars(circuit)
           r == Reduction(circuit, y, z)
           w == MadeWires(gv, tape)
           g == PointsOf(setup.ipa.g)
           h == PointsOf(setup.ipa.h)
           Blinded(p, s) == Plus(p, Scale(BasePoint(setup.blinding), s))
<1>1. /\ Pedersen(setup) /\ setup.ipa.g \in Seq(Bases) /\ setup.ipa.h \in Seq(Bases)
      /\ CircuitTyped(circuit) /\ m \in Nat /\ n \in Nat /\ size \in Nat /\ n <= size
      /\ size <= Len(setup.ipa.g) /\ size <= Len(setup.ipa.h)
      /\ witness.values \in Vectors(m) /\ witness.blinding \in Vectors(m)
      /\ witness.left \in Vectors(n) /\ witness.right \in Vectors(n)
      /\ witness.output \in Vectors(n)
      /\ \A k \in 1 .. n : witness.output[k] = Mul(witness.left[k], witness.right[k])
      /\ tape \in Seq(Scalars) /\ Len(tape) >= 2 * n + 9
  BY DEF Typed
<1>2. y \in Scalars \ {0} /\ z \in Scalars
  BY DEF Answered
<1>3. Weighed(r, m, n, size)
  BY <1>1, <1>2, ReductionMade
<1>4. w = [leftBlinding |-> SubSeq(tape, 1, n), rightBlinding |-> SubSeq(tape, n + 1, 2 * n),
           mBlinding |-> tape[2 * n + 1], outputBlinding |-> tape[2 * n + 2],
           mTildeBlinding |-> tape[2 * n + 3],
           m |-> Blinded(Plus(Msm(g, witness.left), Msm(h, witness.right)), tape[2 * n + 1]),
           o |-> Blinded(Msm(g, witness.output), tape[2 * n + 2]),
           mTilde |-> Blinded(Plus(Msm(g, SubSeq(tape, 1, n)), Msm(h, SubSeq(tape, n + 1, 2 * n))),
                              tape[2 * n + 3])]
  BY DEF MadeWires, WireCommitments
<1>5. /\ w.leftBlinding = SubSeq(tape, 1, n) /\ w.rightBlinding = SubSeq(tape, n + 1, 2 * n)
      /\ w.mBlinding = tape[2 * n + 1] /\ w.outputBlinding = tape[2 * n + 2]
      /\ w.mTildeBlinding = tape[2 * n + 3]
      /\ w.m = Blinded(Plus(Msm(g, witness.left), Msm(h, witness.right)), tape[2 * n + 1])
      /\ w.o = Blinded(Msm(g, witness.output), tape[2 * n + 2])
      /\ w.mTilde = Blinded(Plus(Msm(g, SubSeq(tape, 1, n)), Msm(h, SubSeq(tape, n + 1, 2 * n))),
                            tape[2 * n + 3])
  <2> HIDE DEF w, g, h, Blinded, n, setup, witness
  <2> QED
    BY <1>4
<1> DEFINE b == MadeBlindings(gv, tape, y, z)
           tg == InnerProductOf(r.reduced.theta, witness.blinding)
           drawn == SubSeq(tape, 2 * n + 4, 2 * n + 9)
<1>6. b = [drawn EXCEPT ![2] = Negate(tg)]
  BY DEF MadeBlindings, TTilde
<1>7. MadePolynomial(gv, tape, y, z) = PolynomialState(witness, r, w)
  BY DEF MadePolynomial
<1> HIDE DEF w, r, b, circuit, setup, witness, m, n, size, g, h
<1>8. SubSeq(tape, 1, n) \in Vectors(n)
  <2>1. 0 \in Nat /\ 0 + n <= Len(tape) /\ 0 + 1 = 1 /\ 0 + n = n
    BY <1>1
  <2>2. SubSeq(tape, 0 + 1, 0 + n) \in Vectors(n)
    BY <1>1, <2>1, TapeCut
  <2> QED
    BY <2>1, <2>2
<1>9. SubSeq(tape, n + 1, 2 * n) \in Vectors(n)
  <2>1. n + n <= Len(tape) /\ n + n = 2 * n
    BY <1>1
  <2>2. SubSeq(tape, n + 1, n + n) \in Vectors(n)
    BY <1>1, <2>1, TapeCut
  <2> QED
    BY <2>1, <2>2
<1>10. tape[2 * n + 1] \in Scalars /\ tape[2 * n + 2] \in Scalars /\ tape[2 * n + 3] \in Scalars
  <2>1. 2 * n \in Nat /\ 3 \in Nat /\ 2 * n + 3 <= Len(tape)
    BY <1>1
  <2>2. \A k \in 1 .. 3 : tape[2 * n + k] \in Scalars
    <3> DEFINE j == 2 * n
               three == 3
    <3>1. j \in Nat /\ three \in Nat /\ j + three <= Len(tape)
      BY <2>1
    <3> HIDE DEF j, three
    <3>2. \A k \in 1 .. three : tape[j + k] \in Scalars
      BY <1>1, <3>1, TapeCut
    <3> QED
      BY <3>2 DEF j, three
  <2> QED
    BY <2>2
<1>11. Wired(witness, w, m, n)
  BY <1>1, <1>5, <1>8, <1>9 DEF Wired
<1>12. n <= Len(setup.ipa.g) /\ n <= Len(setup.ipa.h)
  <2>1. Len(setup.ipa.g) \in Nat /\ Len(setup.ipa.h) \in Nat
    BY <1>1
  <2> QED
    BY <1>1, <2>1
<1>13. ASSUME NEW v \in Vectors(n) PROVE Msm(g, v) \in Pts /\ Msm(h, v) \in Pts
  <2>1. Msm(g, v) \in Pts
    BY <1>1, <1>12, MsmOfNames DEF g
  <2>2. Msm(h, v) \in Pts
    BY <1>1, <1>12, MsmOfNames DEF h
  <2> QED
    BY <2>1, <2>2
<1>14. w.m \in Pts
  <2>1. Msm(g, witness.left) \in Pts /\ Msm(h, witness.right) \in Pts
    BY <1>1, <1>13
  <2>2. Plus(Msm(g, witness.left), Msm(h, witness.right)) \in Pts
    BY <2>1, PlusSwap
  <2> QED
    BY <1>1, <1>5, <1>10, <2>2, BlindedPoint
<1>15. w.o \in Pts
  <2>1. Msm(g, witness.output) \in Pts
    BY <1>1, <1>13
  <2> QED
    BY <1>1, <1>5, <1>10, <2>1, BlindedPoint
<1>16. w.mTilde \in Pts
  <2>1. Msm(g, SubSeq(tape, 1, n)) \in Pts /\ Msm(h, SubSeq(tape, n + 1, 2 * n)) \in Pts
    BY <1>8, <1>9, <1>13
  <2>2. Plus(Msm(g, SubSeq(tape, 1, n)), Msm(h, SubSeq(tape, n + 1, 2 * n))) \in Pts
    BY <2>1, PlusSwap
  <2> QED
    BY <1>1, <1>5, <1>10, <2>2, BlindedPoint
<1>17. PolynomialState(witness, r, w).t \in Vectors(6)
  BY <1>1, <1>3, <1>11, CoefficientsMade
<1>18. Negate(tg) \in Scalars
  <2>1. r.reduced.theta \in Vectors(m)
    BY <1>3 DEF Weighed
  <2>2. tg \in Scalars
    BY <1>1, <2>1, ProductsType
  <2> QED
    BY <2>2, ScalarRules
<1> HIDE DEF tg, drawn
<1>19. b \in Vectors(6) /\ b[2] = Negate(tg)
  <2>1. ASSUME NEW k \in Nat, k = 6 PROVE b \in Vectors(k) /\ b[2] = Negate(tg)
    <3> DEFINE j == 2 * n + 3
    <3>1. j \in Nat /\ j + k <= Len(tape) /\ j + 1 = 2 * n + 4 /\ j + k = 2 * n + 9
      BY <1>1, <2>1
    <3>2. drawn = SubSeq(tape, j + 1, j + k)
      BY <3>1 DEF drawn
    <3> HIDE DEF j
    <3>3. drawn \in Vectors(k)
      BY <1>1, <3>1, <3>2, TapeCut
    <3>4. drawn = [i \in 1 .. k |-> drawn[i]] /\ \A i \in 1 .. k : drawn[i] \in Scalars
      <4>1. drawn \in Seq(Scalars) /\ Len(drawn) = k
        BY <3>3 DEF Vectors
      <4> QED
        BY <4>1
    <3>5. b = [i \in 1 .. k |-> b[i]]
          /\ \A i \in 1 .. k : b[i] = IF i = 2 THEN Negate(tg) ELSE drawn[i]
      BY <1>6, <3>4
    <3>6. \A i \in 1 .. k : b[i] \in Scalars
      BY <1>18, <3>4, <3>5
    <3>7. b \in Vectors(k)
      BY <3>5, <3>6, VectorsAre
    <3> QED
      BY <2>1, <3>5, <3>7
  <2> QED
    BY <2>1
<1> QED
  BY <1>3, <1>7, <1>10, <1>5, <1>11, <1>14, <1>15, <1>16, <1>17, <1>19
     DEF w, r, b, circuit, setup, witness, m, n, size, tg

\* The proof is right in the first equation, and its scalars are scalars.
LEMMA MadeEquation ==
  ASSUME NEW gv, Typed(gv), NEW tape \in Tapes, NEW y \in Answered, NEW z \in Answered,
         NEW a \in Answered
  PROVE  LET r == Reduction(gv.circuit, y, z)
             x == Powers(a)
             tTildeX == InnerProductOf(MadeBlindings(gv, tape, y, z), x)
         IN  /\ x \in Vectors(6)
             /\ MadeTX(gv, tape, y, z, x) \in Scalars /\ tTildeX \in Scalars
             /\ MadeSTilde(gv, tape, x) \in Scalars
             /\ MadeP(gv, tape, y, z, x) \in Pts
             /\ CommitValue(gv.setup, MadeTX(gv, tape, y, z, x), tTildeX)
                  = TRight(gv.setup, gv.claim, r, MadeT(gv, tape, y, z), x)
             /\ BigP(gv.setup, r, MadeWires(gv, tape), Add(MadeSTilde(gv, tape, x), 1), x)
                  # MadeP(gv, tape, y, z, x)
<1> DEFINE r == Reduction(gv.circuit, y, z)
           x == Powers(a)
           p == MadePolynomial(gv, tape, y, z)
           t == p.t
           b == MadeBlindings(gv, tape, y, z)
           w == MadeWires(gv, tape)
           m == gv.circuit.committed
           n == gv.circuit.internal
           size == PaddedVars(gv.circuit)
           three == <<w.mBlinding, w.outputBlinding, w.mTildeBlinding>>
           s == MadeSTilde(gv, tape, x)
<1>1. /\ Pedersen(gv.setup) /\ gv.setup.ipa.g \in Seq(Bases) /\ gv.setup.ipa.h \in Seq(Bases)
      /\ m \in Nat /\ n \in Nat /\ size \in Nat
      /\ size <= Len(gv.setup.ipa.g) /\ size <= Len(gv.setup.ipa.h)
      /\ gv.witness.values \in Vectors(m) /\ gv.witness.blinding \in Vectors(m)
      /\ gv.claim = [k \in 1 .. m |->
                       CommitValue(gv.setup, gv.witness.values[k], gv.witness.blinding[k])]
  BY DEF Typed
<1>2. /\ Weighed(r, m, n, size) /\ Wired(gv.witness, w, m, n)
      /\ w.m \in Pts /\ w.o \in Pts /\ w.mTilde \in Pts
      /\ w.mBlinding \in Scalars /\ w.outputBlinding \in Scalars /\ w.mTildeBlinding \in Scalars
      /\ t \in Vectors(6) /\ b \in Vectors(6)
      /\ b[2] = Negate(InnerProductOf(r.reduced.theta, gv.witness.blinding))
  BY MadeTyped
<1>3. a \in Scalars
  BY DEF Answered
<1>4. x \in Vectors(6)
  BY <1>3, PowersOfChallenge
<1>5. p = PolynomialState(gv.witness, r, w)
  BY DEF MadePolynomial
<1>6. MadeTX(gv, tape, y, z, x) = InnerProductOf(t, x)
  BY DEF MadeTX
<1>7. s = InnerProductOf(three, x)
  BY DEF MadeSTilde
<1>8. MadeP(gv, tape, y, z, x) = BigP(gv.setup, r, w, s, x)
  BY DEF MadeP
<1>9. MadeT(gv, tape, y, z)
        = [k \in DOMAIN TExponents |-> CommitValue(gv.setup, t[TExponents[k]], b[TExponents[k]])]
  BY DEF MadeT
<1> HIDE DEF r, x, p, b, w, m, n, size, s
<1>10. t[2] = Sub(Sub(DeltaYZ(r), r.reduced.kappa),
                  InnerProductOf(r.reduced.theta, gv.witness.values))
  BY <1>1, <1>2, <1>5, CoefficientsMade
<1>11. /\ r.reduced.theta \in Vectors(m) /\ r.reduced.kappa \in Scalars
       /\ r.yInvRho \in Vectors(n) /\ r.reduced.lambda \in Vectors(n)
  BY <1>1, <1>2, WeightsCut DEF Weighed
<1>12. DeltaYZ(r) \in Scalars
  BY <1>1, <1>11, ProductsType DEF DeltaYZ
<1>13. ASSUME NEW j \in Nat, j = 6
       PROVE InnerProductOf(t, x) \in Scalars /\ InnerProductOf(b, x) \in Scalars
  <2>1. t \in Vectors(j) /\ b \in Vectors(j) /\ x \in Vectors(j)
    BY <1>2, <1>4, <1>13
  <2> QED
    BY <2>1, ProductsType
<1>14. InnerProductOf(t, x) \in Scalars /\ InnerProductOf(b, x) \in Scalars
  BY <1>13
<1>15. s \in Scalars
  <2>1. ASSUME NEW j \in Nat, j = 3, NEW i \in Nat, i = 6 PROVE InnerProductOf(three, x) \in Scalars
    <3>1. three = [k \in 1 .. j |-> three[k]] /\ \A k \in 1 .. j : three[k] \in Scalars
      BY <1>2, <2>1
    <3> HIDE DEF three
    <3>2. three \in Vectors(j)
      BY <3>1, VectorsAre
    <3>3. x \in Vectors(i) /\ j <= i
      BY <1>4, <2>1
    <3>4. InnerProductOf(three, x) = InnerProductOf(three, Cut(x, j)) /\ Cut(x, j) \in Vectors(j)
      BY <3>2, <3>3, CutType
    <3> QED
      BY <3>2, <3>4, ProductsType
  <2> QED
    BY <1>7, <2>1
<1>16. BigP(gv.setup, r, w, s, x) \in Pts
  BY <1>1, <1>2, <1>4, <1>15, BigPType
<1>17. BigP(gv.setup, r, w, Add(s, 1), x) # BigP(gv.setup, r, w, s, x)
  BY <1>1, <1>2, <1>4, <1>15, BigPBinds
<1> DEFINE tBig == MadeT(gv, tape, y, z)
           theta == r.reduced.theta
<1>18. CommitValue(gv.setup, InnerProductOf(t, x), InnerProductOf(b, x))
         = TRight(gv.setup, gv.claim, r, tBig, x)
  <2> DEFINE setup == gv.setup
             v == gv.witness.values
             g == gv.witness.blinding
             claim == gv.claim
  <2>1. /\ Pedersen(setup) /\ m \in Nat /\ v \in Vectors(m) /\ g \in Vectors(m)
        /\ r.reduced.theta \in Vectors(m) /\ r.reduced.kappa \in Scalars /\ DeltaYZ(r) \in Scalars
        /\ claim = [k \in 1 .. m |-> CommitValue(setup, v[k], g[k])]
        /\ x \in Vectors(6) /\ t \in Vectors(6) /\ b \in Vectors(6)
        /\ t[2] = Sub(Sub(DeltaYZ(r), r.reduced.kappa), InnerProductOf(r.reduced.theta, v))
        /\ b[2] = Negate(InnerProductOf(r.reduced.theta, g))
        /\ tBig = [k \in DOMAIN TExponents |->
                     CommitValue(setup, t[TExponents[k]], b[TExponents[k]])]
    BY <1>1, <1>2, <1>4, <1>9, <1>10, <1>11, <1>12
  <2> HIDE DEF setup, v, g, claim, t, tBig
  <2>3. SecondImplied(setup, m, v, g, r, claim, x, t, b, tBig)
    BY <2>1 DEF SecondImplied
  <2>2. CommitValue(setup, InnerProductOf(t, x), InnerProductOf(b, x))
          = TRight(setup, claim, r, tBig, x)
    BY <2>3, ValueEquation
  <2> QED
    BY <2>2 DEF setup, claim, tBig
<1> HIDE DEF t
<1> QED
  BY <1>4, <1>6, <1>8, <1>14, <1>15, <1>16, <1>17, <1>18 DEF r, x, b, w, s

\* What an altered answer has, and what it still has.
OffByOne(r, setup, sTilde, tX, tTildeX, p, ipaClaim) ==
  \/ r.proof.sTilde = Add(sTilde, 1) /\ r.proof.p = p
  \/ r.proof.tX = Add(tX, 1) /\ r.proof.ipa.claim = ipaClaim
  \/ r.proof.tTildeX = Add(tTildeX, 1) /\ r.proof.tX = tX
  \/ r.proof.p = Plus(p, BasePoint(setup.value)) /\ r.proof.sTilde = sTilde
  \/ r.proof.ipa.claim.product = Add(ipaClaim.product, 1) /\ r.proof.tX = tX

LEMMA AnswerFields ==
  ASSUME NEW setup, NEW circuit, NEW claim, NEW m, NEW o, NEW mTilde, NEW tBig,
         NEW sTilde, NEW tX, NEW tTildeX, NEW p, NEW ipaSetup, NEW ipaClaim,
         "product" \in DOMAIN ipaClaim,
         NEW s, s = Package(setup, circuit, claim, m, o, mTilde, tBig, sTilde, tX, tTildeX, p,
                            ipaSetup, ipaClaim),
         NEW r \in Answers5(s)
  PROVE  OffByOne(r, setup, sTilde, tX, tTildeX, p, ipaClaim)
<1>1. CASE r = [s EXCEPT !.proof.sTilde = Add(@, 1)]
  BY <1>1 DEF Package, OffByOne
<1>2. CASE r = [s EXCEPT !.proof.tX = Add(@, 1)]
  BY <1>2 DEF Package, OffByOne
<1>3. CASE r = [s EXCEPT !.proof.tTildeX = Add(@, 1)]
  BY <1>3 DEF Package, OffByOne
<1>4. CASE r = [s EXCEPT !.proof.p = Plus(@, BasePoint(s.setup.value))]
  BY <1>4 DEF Package, OffByOne
<1>5. CASE r = [s EXCEPT !.proof.ipa.claim.product = Add(@, 1)]
  <2>1. r.proof.ipa.claim = [ipaClaim EXCEPT !.product = Add(ipaClaim.product, 1)]
        /\ r.proof.tX = tX
    BY <1>5 DEF Package
  <2> QED
    BY <2>1 DEF OffByOne
<1> QED
  BY <1>1, <1>2, <1>3, <1>4, <1>5 DEF Answers5

\* Whatever else was taken instead is not what the equations say.
LEMMA AnswersChecked ==
  ASSUME NEW gv, Typed(gv), NEW tape \in Tapes, NEW y \in Answered, NEW z \in Answered,
         NEW a \in Answered, NEW rc,
         rc.setup = gv.setup, rc.circuit = gv.circuit, rc.claim = gv.claim,
         rc.proof.wires.m = MadeWires(gv, tape).m, rc.proof.wires.o = MadeWires(gv, tape).o,
         rc.proof.wires.mTilde = MadeWires(gv, tape).mTilde,
         rc.proof.tBig = MadeT(gv, tape, y, z),
         Checks(rc, Reduction(gv.circuit, y, z), Powers(a))
  PROVE  LET x == Powers(a) IN
         ~OffByOne(rc, gv.setup, MadeSTilde(gv, tape, x), MadeTX(gv, tape, y, z, x),
                   InnerProductOf(MadeBlindings(gv, tape, y, z), x), MadeP(gv, tape, y, z, x),
                   MadeClaim(gv, tape, y, z, x))
<1> DEFINE x == Powers(a)
           r == Reduction(gv.circuit, y, z)
           s == MadeSTilde(gv, tape, x)
           t == MadeTX(gv, tape, y, z, x)
           b == InnerProductOf(MadeBlindings(gv, tape, y, z), x)
           p == MadeP(gv, tape, y, z, x)
           w == MadeWires(gv, tape)
           claim == MadeClaim(gv, tape, y, z, x)
           setup == gv.setup
           right == TRight(setup, gv.claim, r, MadeT(gv, tape, y, z), x)
<1>1. /\ s \in Scalars /\ t \in Scalars /\ b \in Scalars /\ p \in Pts
      /\ CommitValue(setup, t, b) = right
      /\ BigP(setup, r, w, Add(s, 1), x) # p
  BY MadeEquation
<1>2. /\ CommitValue(setup, rc.proof.tX, rc.proof.tTildeX) = right
      /\ rc.proof.p = BigP(setup, r, rc.proof.wires, rc.proof.sTilde, x)
      /\ rc.proof.ipa = [setup |-> setup.ipa,
                         claim |-> IpaClaimOf(gv.circuit, r, rc.proof.p, rc.proof.tX)]
  BY DEF Checks
<1>3. \A q : BigP(setup, r, rc.proof.wires, q, x) = BigP(setup, r, w, q, x)
  BY DEF BigP
<1>4. p = BigP(setup, r, w, s, x) /\ claim = IpaClaimOf(gv.circuit, r, p, t)
  BY DEF MadeP, MadeClaim
<1>5. Pedersen(setup)
  BY DEF Typed
<1>6. rc.proof.ipa.claim.product = rc.proof.tX /\ claim.product = t
  BY <1>2, <1>4 DEF IpaClaimOf
<1>7. CommitValue(setup, t, Add(b, 1)) # CommitValue(setup, t, b)
  BY <1>1, <1>5, CommitBinds
<1>8. Plus(p, BasePoint(setup.value)) # p
  BY <1>1, <1>5, PlusBaseDiffers DEF Pedersen
<1>9. Add(t, 1) # t
  BY <1>1, NextDiffers
<1> HIDE DEF x, r, s, t, b, p, w, claim, setup, right
<1>10. ~OffByOne(rc, setup, s, t, b, p, claim)
  <2>1. ASSUME rc.proof.sTilde = Add(s, 1), rc.proof.p = p PROVE FALSE
    BY <1>1, <1>2, <1>3, <2>1
  <2>2. ASSUME rc.proof.tX = Add(t, 1), rc.proof.ipa.claim = claim PROVE FALSE
    BY <1>6, <1>9, <2>2
  <2>3. ASSUME rc.proof.tTildeX = Add(b, 1), rc.proof.tX = t PROVE FALSE
    BY <1>1, <1>2, <1>7, <2>3
  <2>4. ASSUME rc.proof.p = Plus(p, BasePoint(setup.value)), rc.proof.sTilde = s PROVE FALSE
    BY <1>2, <1>3, <1>4, <1>8, <2>4
  <2>5. ASSUME rc.proof.ipa.claim.product = Add(claim.product, 1), rc.proof.tX = t PROVE FALSE
    BY <1>6, <1>9, <2>5
  <2> QED
    BY <2>1, <2>2, <2>3, <2>4, <2>5 DEF OffByOne
<1> QED
  BY <1>10 DEF x, s, t, b, p, claim, setup

LEMMA AlteredRejected == IInv => AlteredAnswerRejected
<1> SUFFICES ASSUME IInv, verifier.phase = "accepted",
                    received.setup = sent.setup, received.circuit = sent.circuit,
                    received.claim = sent.claim,
                    received.proof.wires = sent.proof.wires,
                    received.proof.tBig = sent.proof.tBig
             PROVE  received = sent
  BY DEF AlteredAnswerRejected
<1>1. received # Idle /\ sent # Idle /\ received \in {sent} \cup Alterations(sent)
  BY DEF IInv, VerifierInv, ReceivedInv
<1>2. prover.phase = "done" /\ Provable
      /\ \E tape \in Tapes, y, z, a \in Answered : Finished(prover, sent, tape, y, z, a)
  BY <1>1 DEF IInv, ProverInv
<1>3. PICK tape \in Tapes, y \in Answered, z \in Answered, a \in Answered :
        Finished(prover, sent, tape, y, z, a)
  BY <1>2
<1>4. Typed(given)
  BY <1>2, GivenTyped DEF IInv
<1>5. PICK y2 \in Answered, z2 \in Answered :
        /\ Read(verifier, received, y2, z2)
        /\ \E a2 \in Answered : Judged(verifier, received, y2, z2, a2)
  BY DEF IInv, VerifierInv
<1>6. PICK a2 \in Answered : Judged(verifier, received, y2, z2, a2)
  BY <1>5
<1> DEFINE w == MadeWires(given, tape)
           tBig == MadeT(given, tape, y, z)
           x == Powers(a)
           r == Reduction(given.circuit, y, z)
           s == MadeSTilde(given, tape, x)
           tX == MadeTX(given, tape, y, z, x)
           b == InnerProductOf(MadeBlindings(given, tape, y, z), x)
           p == MadeP(given, tape, y, z, x)
           claim == MadeClaim(given, tape, y, z, x)
           ipa == given.setup.ipa
<1>7. sent = Package(given.setup, given.circuit, given.claim, w.m, w.o, w.mTilde, tBig, s, tX, b,
                     p, ipa, claim)
  BY <1>3 DEF Finished, Made
<1>8. /\ sent.setup = given.setup /\ sent.circuit = given.circuit /\ sent.claim = given.claim
      /\ sent.proof.wires = [m |-> w.m, o |-> w.o, mTilde |-> w.mTilde]
      /\ sent.proof.tBig = tBig
  <2> HIDE DEF w, tBig, s, tX, b, p, claim, ipa
  <2> QED
    BY <1>7 DEF Package
<1> DEFINE opening == OpeningOf(given, w)
<1>9. OpeningOf(received, received.proof.wires) = opening
  <2>1. /\ received.proof.wires.m = w.m /\ received.proof.wires.o = w.o
        /\ received.proof.wires.mTilde = w.mTilde
    BY <1>8
  <2> HIDE DEF w
  <2> QED
    BY <1>8, <2>1 DEF OpeningOf, CircuitOpening
<1>10. Drew(oracle, opening, y, z) /\ Drew(oracle, opening, y2, z2)
  BY <1>3, <1>5, <1>9 DEF Finished, Read
<1>11. y2 = y /\ z2 = z
  <2> HIDE DEF opening
  <2> QED
    BY <1>10, DrewOnce
<1>12. a2 = a
  <2> DEFINE u == Polynomial(opening, y, z, tBig)
  <2>1. oracle[<<u, "x">>] = a
    BY <1>3 DEF Finished
  <2>2. oracle[<<u, "x">>] = a2
    BY <1>6, <1>8, <1>9, <1>11 DEF Judged
  <2> QED
    BY <2>1, <2>2
<1>13. Checks(received, r, x)
  BY <1>6, <1>8, <1>11, <1>12 DEF Judged
<1>14. /\ received.setup = given.setup /\ received.circuit = given.circuit
       /\ received.claim = given.claim
       /\ received.proof.wires.m = w.m /\ received.proof.wires.o = w.o
       /\ received.proof.wires.mTilde = w.mTilde /\ received.proof.tBig = tBig
  BY <1>8
<1>15. ~OffByOne(received, given.setup, s, tX, b, p, claim)
  BY <1>4, <1>13, <1>14, AnswersChecked
<1>16. Listed(given.claim) /\ Listed(tBig)
  BY MadeTListed DEF IInv, GivenInv
<1>17. "product" \in DOMAIN claim
  BY DEF MadeClaim, IpaClaimOf
<1> DEFINE setup == given.setup
           circuit == given.circuit
           claims == given.claim
           wm == w.m
           wo == w.o
           wt == w.mTilde
<1>18. \/ received \in Answers5(sent)
       \/ \E setup2, circuit2, claim2, m2, o2, mTilde2, tBig2 :
            /\ Listed(claim2) /\ Listed(tBig2) /\ Len(tBig2) = Len(tBig)
            /\ received = Package(setup2, circuit2, claim2, m2, o2, mTilde2, tBig2,
                                  s, tX, b, p, ipa, claim)
  <2>1. sent = Package(setup, circuit, claims, wm, wo, wt, tBig, s, tX, b, p, ipa, claim)
        /\ Listed(claims) /\ Listed(tBig) /\ received \in {sent} \cup Alterations(sent)
    BY <1>1, <1>7, <1>16
  <2> HIDE DEF setup, circuit, claims, wm, wo, wt, tBig, s, tX, b, p, ipa, claim
  <2> QED
    BY <2>1, AlteredPackage
<1>19. CASE received \in Answers5(sent)
  <2>1. sent = Package(setup, circuit, claims, wm, wo, wt, tBig, s, tX, b, p, ipa, claim)
        /\ "product" \in DOMAIN claim
    BY <1>7, <1>17
  <2> HIDE DEF setup, circuit, claims, wm, wo, wt, tBig, s, tX, b, p, ipa, claim
  <2>2. OffByOne(received, setup, s, tX, b, p, claim)
    BY <1>19, <2>1, AnswerFields
  <2> QED
    BY <1>15, <2>2 DEF setup
<1>20. ASSUME NEW setup2, NEW circuit2, NEW claim2, NEW m2, NEW o2, NEW mTilde2, NEW tBig2,
              received = Package(setup2, circuit2, claim2, m2, o2, mTilde2, tBig2,
                                 s, tX, b, p, ipa, claim)
       PROVE  received = sent
  <2> HIDE DEF w, tBig, s, tX, b, p, claim, ipa
  <2>1. /\ received.setup = setup2 /\ received.circuit = circuit2 /\ received.claim = claim2
        /\ received.proof.wires.m = m2 /\ received.proof.wires.o = o2
        /\ received.proof.wires.mTilde = mTilde2 /\ received.proof.tBig = tBig2
    BY <1>20 DEF Package
  <2>2. /\ setup2 = given.setup /\ circuit2 = given.circuit /\ claim2 = given.claim
        /\ m2 = w.m /\ o2 = w.o /\ mTilde2 = w.mTilde /\ tBig2 = tBig
    BY <1>14, <2>1
  <2> QED
    BY <1>7, <1>20, <2>2
<1> QED
  BY <1>18, <1>19, <1>20

\* After the same commitments and challenges verify takes no other scalars, no other p and
\* no other inner-product proof than the prover's.
THEOREM OneCircuitAnswer == Spec => []AlteredAnswerRejected
<1>1. Spec => []IInv
  BY Invariance
<1> QED
  BY <1>1, AlteredRejected, PTL

----------------------------------------------------------------------------
(* The constraints, weighted and summed *)

\* A sum up to i + j is the sum up to i and that of the rest.
LEMMA SumOfSplit ==
  ASSUME NEW i \in Nat, NEW j \in Nat, NEW size \in Nat, i + j <= size,
         NEW f \in Vectors(size), NEW g \in Vectors(j), \A k \in 1 .. j : g[k] = f[i + k]
  PROVE  SumOf(Cut(f, i + j)) = Add(SumOf(Cut(f, i)), SumOf(g))
<1> DEFINE F(k) == SumOf(Cut(f, i + k))
           H(k) == SumOf(Cut(g, k))
           G == {k \in Nat : k <= j => F(k) = Add(F(0), H(k))}
<1>1. ASSUME NEW k \in 0 .. j PROVE F(k) \in Scalars /\ H(k) \in Scalars
  <2>1. i + k \in Nat /\ i + k <= size /\ k \in Nat /\ k <= j
    OBVIOUS
  <2>2. ASSUME NEW n \in Nat, NEW l \in Nat, n <= l, NEW v \in Vectors(l)
        PROVE  SumOf(Cut(v, n)) \in Scalars
    <3>1. \A d \in 1 .. l : v[d] \in Scalars
      BY VectorType
    <3>2. Cut(v, n) = [d \in 1 .. n |-> Cut(v, n)[d]] /\ \A d \in 1 .. n : Cut(v, n)[d] = v[d]
      BY DEF Cut
    <3>3. \A d \in 1 .. n : Cut(v, n)[d] \in Scalars
      BY <2>2, <3>1, <3>2
    <3>4. Cut(v, n) \in Vectors(n)
      BY <3>2, <3>3, VectorsAre
    <3> QED
      BY <3>4, VectorType
  <2>3. SumOf(Cut(f, i + k)) \in Scalars
    BY <2>1, <2>2
  <2>4. SumOf(Cut(g, k)) \in Scalars
    BY <2>1, <2>2
  <2> QED
    BY <2>3, <2>4
<1>2. 0 \in G
  <2>1. H(0) = 0
    <3>1. Cut(g, 0) = <<>>
      BY DEF Cut
    <3> QED
      BY <3>1, SumEmpty
  <2>2. F(0) \in Scalars
    BY <1>1
  <2> HIDE DEF F, H
  <2>3. Add(F(0), 0) = F(0)
    BY <2>2, AddZero
  <2> QED
    BY <2>1, <2>3
<1>3. ASSUME NEW k \in G PROVE k + 1 \in G
  <2> SUFFICES ASSUME k + 1 <= j PROVE F(k + 1) = Add(F(0), H(k + 1))
    BY <1>3
  <2>1. k \in Nat /\ k < j /\ k \in 0 .. j /\ 0 \in 0 .. j /\ k + 1 \in 1 .. j
        /\ F(k) = Add(F(0), H(k))
    BY <1>3
  <2>2. i + k \in Nat /\ i + k < size /\ (i + k) + 1 = i + (k + 1)
    BY <2>1
  <2>3. SumOf(Cut(f, (i + k) + 1)) = Res(SumOf(Cut(f, i + k)) + f[(i + k) + 1])
    BY <2>2, SumOfLast
  <2>4. SumOf(Cut(g, k + 1)) = Res(SumOf(Cut(g, k)) + g[k + 1])
    BY <2>1, SumOfLast
  <2>5. g[k + 1] = f[i + (k + 1)] /\ g[k + 1] \in Scalars
    BY <2>1, VectorType
  <2> DEFINE e == g[k + 1]
             a == F(0)
             h == H(k)
  <2>6. F(k + 1) = Res(F(k) + e) /\ H(k + 1) = Res(h + e)
    BY <2>2, <2>3, <2>4, <2>5
  <2>7. a \in Scalars /\ h \in Scalars /\ e \in Scalars
    BY <1>1, <2>1, <2>5
  <2>8. F(k) = Add(a, h)
    BY <2>1
  <2> HIDE DEF a, h, e, F, H
  <2>9. a \in Int /\ a = Res(a) /\ h \in Int /\ h = Res(h) /\ e \in Int /\ e = Res(e)
    BY <2>7, Residues
  <2>10. Add(a, h) = Res(a + h) /\ a + h \in Int /\ h + e \in Int
    BY <2>9, Residues
  <2>11. Add(Res(a + h), Res(e)) = Res((a + h) + e)
    BY <2>9, <2>10, Residues
  <2>12. Add(Res(a), Res(h + e)) = Res(a + (h + e))
    BY <2>9, <2>10, Residues
  <2>13. (a + h) + e = a + (h + e)
    BY <2>9
  <2>14. Res(Res(a + h) + e) = Add(Res(a + h), Res(e))
    BY <2>9 DEF Add, Res
  <2> QED
    BY <2>6, <2>8, <2>9, <2>10, <2>11, <2>12, <2>13, <2>14 DEF a
<1>4. Nat \subseteq G
  <2> HIDE DEF G
  <2>1. G \in SUBSET Nat
    BY DEF G
  <2> QED
    BY <1>2, <1>3, <2>1, Induct
<1>5. F(j) = Add(F(0), H(j))
  <2>1. j \in G
    BY <1>4
  <2> QED
    BY <2>1
<1>6. Cut(g, j) = g
  <2>1. g = [k \in 1 .. j |-> g[k]]
    BY DEF Vectors
  <2> QED
    BY <2>1 DEF Cut
<1>7. i + 0 = i
  OBVIOUS
<1> QED
  BY <1>5, <1>6, <1>7

\* Vectors one after the other.
LEMMA JoinedType ==
  ASSUME NEW i \in Nat, NEW j \in Nat, NEW a \in Vectors(i), NEW b \in Vectors(j)
  PROVE  /\ a \o b \in Vectors(i + j)
         /\ \A k \in 1 .. i : (a \o b)[k] = a[k]
         /\ \A k \in 1 .. j : (a \o b)[i + k] = b[k]
<1>1. a \in Seq(Scalars) /\ b \in Seq(Scalars) /\ Len(a) = i /\ Len(b) = j
  BY DEF Vectors
<1>2. a \o b \in Seq(Scalars) /\ Len(a \o b) = i + j
  BY <1>1
<1>3. \A k \in 1 .. i : (a \o b)[k] = a[k]
  BY <1>1
<1>4. ASSUME NEW k \in 1 .. j PROVE (a \o b)[i + k] = b[k]
  BY <1>1
<1> QED
  BY <1>2, <1>3, <1>4 DEF Vectors

\* The vector that the rows of a circuit are about.
Assigned(w, m, n, v, l, r) ==
  /\ w \in Vectors(1 + m + n + n + n) /\ w[1] = 1
  /\ \A k \in 1 .. m : w[1 + k] = v[k]
  /\ \A k \in 1 .. n : /\ w[1 + m + k] = l[k]
                       /\ w[1 + m + n + k] = r[k]
                       /\ w[1 + m + n + n + k] = Mul(l[k], r[k])

LEMMA AssignmentMade ==
  ASSUME NEW m \in Nat, NEW n \in Nat, NEW v \in Vectors(m), NEW l \in Vectors(n),
         NEW r \in Vectors(n)
  PROVE  Assigned(Assignment(v, l, r), m, n, v, l, r)
<1> DEFINE one == <<1>>
           o == Hadamard(l, r)
           w1 == one \o v
           w2 == w1 \o l
           w3 == w2 \o r
           w4 == w3 \o o
<1>1. one \in Vectors(1) /\ one[1] = 1
  <2>1. 1 \in Scalars
    BY ResiduesAreIntegers
  <2> QED
    BY <2>1 DEF Vectors
<1>2. o \in Vectors(n) /\ \A k \in 1 .. n : o[k] = Mul(l[k], r[k])
  BY HadamardType
<1>3. Assignment(v, l, r) = w4
  BY DEF Assignment
<1> HIDE DEF one, o
<1>4. /\ w1 \in Vectors(1 + m) /\ \A k \in 1 .. 1 : w1[k] = one[k]
      /\ \A k \in 1 .. m : w1[1 + k] = v[k]
  <2>1. ASSUME NEW i \in Nat, i = 1
        PROVE  /\ w1 \in Vectors(i + m) /\ \A k \in 1 .. i : w1[k] = one[k]
               /\ \A k \in 1 .. m : w1[i + k] = v[k]
    <3>1. one \in Vectors(i)
      BY <1>1, <2>1
    <3> QED
      BY <3>1, JoinedType
  <2> HIDE DEF w1
  <2> QED
    BY <2>1
<1> HIDE DEF w1
<1>5. /\ w2 \in Vectors(1 + m + n) /\ \A k \in 1 .. (1 + m) : w2[k] = w1[k]
      /\ \A k \in 1 .. n : w2[1 + m + k] = l[k]
  <2>1. 1 + m \in Nat
    OBVIOUS
  <2> QED
    BY <1>4, <2>1, JoinedType
<1> HIDE DEF w2
<1>6. /\ w3 \in Vectors(1 + m + n + n) /\ \A k \in 1 .. (1 + m + n) : w3[k] = w2[k]
      /\ \A k \in 1 .. n : w3[1 + m + n + k] = r[k]
  <2>1. 1 + m + n \in Nat
    OBVIOUS
  <2> QED
    BY <1>5, <2>1, JoinedType
<1> HIDE DEF w3
<1>7. /\ w4 \in Vectors(1 + m + n + n + n)
      /\ \A k \in 1 .. (1 + m + n + n) : w4[k] = w3[k]
      /\ \A k \in 1 .. n : w4[1 + m + n + n + k] = o[k]
  <2>1. 1 + m + n + n \in Nat
    OBVIOUS
  <2> QED
    BY <1>2, <1>6, <2>1, JoinedType
<1> HIDE DEF w4
<1>8. ASSUME NEW k \in 1 .. (1 + m) PROVE w4[k] = w1[k]
  <2>1. k \in 1 .. (1 + m + n + n) /\ k \in 1 .. (1 + m + n)
    OBVIOUS
  <2> QED
    BY <1>5, <1>6, <1>7, <2>1
<1>9. w4[1] = 1
  <2>1. 1 \in 1 .. (1 + m) /\ 1 \in 1 .. 1
    OBVIOUS
  <2> QED
    BY <1>1, <1>4, <1>8, <2>1
<1>10. ASSUME NEW k \in 1 .. m PROVE w4[1 + k] = v[k]
  <2>1. 1 + k \in 1 .. (1 + m)
    OBVIOUS
  <2> QED
    BY <1>4, <1>8, <2>1
<1>11. ASSUME NEW k \in 1 .. n
       PROVE  /\ w4[1 + m + k] = l[k] /\ w4[1 + m + n + k] = r[k]
              /\ w4[1 + m + n + n + k] = Mul(l[k], r[k])
  <2>1. /\ 1 + m + k \in 1 .. (1 + m + n) /\ 1 + m + k \in 1 .. (1 + m + n + n)
        /\ 1 + m + n + k \in 1 .. (1 + m + n + n)
    OBVIOUS
  <2> QED
    BY <1>2, <1>5, <1>6, <1>7, <2>1
<1> QED
  BY <1>3, <1>7, <1>9, <1>10, <1>11 DEF w4, Assigned

\* Rows that all vanish, weighted and summed, vanish: the columns' sums are orthogonal to
\* the vector.
LEMMA RowsByColumn ==
  ASSUME NEW circuit, CircuitTyped(circuit), NEW z \in Scalars,
         NEW w \in Vectors(circuit.weights.width),
         ToSet(RowValues(circuit.weights, w)) \subseteq {0}
  PROVE  LET width == circuit.weights.width
             sums == [k \in 1 .. width |-> ColumnSum(circuit, k - 1, z)]
         IN  /\ sums \in Vectors(width) /\ InnerProductOf(sums, w) = 0
             /\ \A k \in 1 .. width : sums[k] = ColumnSum(circuit, k - 1, z)
<1> DEFINE matrix == circuit.weights
           entries == matrix.weights
           height == matrix.height
           width == matrix.width
           D == DOMAIN entries
           power == PowersFromOne(z, height + 1)
           inColumn == [at \in D |-> Mul(entries[at], power[at[1] + 2])]
           inRow == [at \in D |-> Mul(entries[at], w[at[2] + 1])]
           f == [at \in D |-> Mul(inColumn[at], w[at[2] + 1])]
           column == [at \in D |-> at[2] + 1]
           row == [at \in D |-> at[1] + 1]
           sums == [k \in 1 .. width |-> ColumnSum(circuit, k - 1, z)]
           values == RowValues(matrix, w)
<1>1. /\ height \in Nat /\ width \in Nat /\ IsFiniteSet(D) /\ Matrix(matrix)
      /\ \A at \in D : /\ entries[at] \in Scalars /\ at[1] \in 0 .. (height - 1)
                       /\ at[2] \in 0 .. (width - 1)
  BY DEF CircuitTyped, Matrix
<1>2. /\ power \in Vectors(height + 1)
      /\ \A at \in D : inColumn[at] \in Scalars
      /\ \A k : /\ ColumnSum(circuit, k, z) = SumOver({at \in D : at[2] = k}, inColumn)
                /\ ColumnSum(circuit, k, z) \in Scalars
  BY ColumnSumType
<1>3. w \in Seq(Scalars) /\ Len(w) = width /\ \A k \in 1 .. width : w[k] \in Scalars
  BY <1>1, VectorType
<1>4. {at \in D : at[2] < Len(w)} = D
  BY <1>1, <1>3
<1>5. /\ values \in Vectors(height)
      /\ \A at \in D : inRow[at] \in Scalars
      /\ \A k \in 1 .. height : values[k] = SumOver({at \in D : at[1] = k - 1}, inRow)
  <2> DEFINE inside == {at \in D : at[2] < Len(w)}
             term == [at \in inside |-> Mul(entries[at], w[at[2] + 1])]
  <2>1. /\ values \in Vectors(height)
        /\ \A at \in inside : term[at] \in Scalars
        /\ \A k \in 1 .. height : values[k] = SumOver({at \in inside : at[1] = k - 1}, term)
    BY <1>1, <1>3, RowValuesType
  <2>2. inside = D /\ term = inRow
    BY <1>4
  <2> HIDE DEF inside, term, inRow, D, values
  <2> QED
    BY <2>1, <2>2
<1>6. \A k \in 1 .. height : values[k] = 0
  <2>1. DOMAIN values = 1 .. height
    BY <1>1, <1>5, VectorType
  <2>2. \A k \in DOMAIN values : values[k] \in ToSet(values)
    BY DEF ToSet
  <2> QED
    BY <2>1, <2>2
<1> HIDE DEF values
<1>7. /\ column \in [D -> 1 .. width] /\ row \in [D -> 1 .. height]
      /\ \A at \in D : /\ column[at] = at[2] + 1 /\ row[at] = at[1] + 1
                       /\ w[at[2] + 1] \in Scalars
                       /\ power[at[1] + 2] \in Scalars
  <2>1. \A k \in 1 .. (height + 1) : power[k] \in Scalars
    <3>1. height + 1 \in Nat
      BY <1>1
    <3> HIDE DEF power
    <3> QED
      BY <1>2, <3>1, VectorType
  <2> HIDE DEF power, D
  <2>2. \A at \in D : /\ at[2] + 1 \in 1 .. width /\ at[1] + 1 \in 1 .. height
                      /\ at[1] + 2 \in 1 .. (height + 1)
    BY <1>1
  <2>3. \A at \in D : w[at[2] + 1] \in Scalars /\ power[at[1] + 2] \in Scalars
    BY <1>3, <2>1, <2>2
  <2> QED
    BY <2>2, <2>3
<1>8. \A at \in D : /\ f[at] = Mul(inColumn[at], w[at[2] + 1])
                    /\ inColumn[at] = Mul(entries[at], power[at[1] + 2])
                    /\ inRow[at] = Mul(entries[at], w[at[2] + 1])
  OBVIOUS
<1> HIDE DEF D, power, inColumn, inRow, f, column, row, entries, height, width
<1>9. ASSUME NEW at \in D
      PROVE  f[at] \in Scalars /\ f[at] = Mul(inRow[at], power[at[1] + 2])
  <2>1. f[at] = Mul(inColumn[at], w[at[2] + 1])
        /\ inColumn[at] \in Scalars /\ w[at[2] + 1] \in Scalars
    BY <1>2, <1>7, <1>8
  <2>2. f[at] \in Scalars
    BY <2>1, ScalarRules
  <2> DEFINE e == entries[at]
             p == power[at[1] + 2]
             v == w[at[2] + 1]
  <2>3. e \in Int /\ p \in Int /\ v \in Int
    BY <1>1, <1>7, Residues
  <2> HIDE DEF e, p, v
  <2>4. Mul(Mul(e, p), v) = Mul(Mul(e, v), p)
    BY <2>3, RingMul
  <2> QED
    BY <1>8, <2>2, <2>4 DEF e, p, v
<1> DEFINE columns == PartsBy(D, f, column, width)
           rows == PartsBy(D, f, row, height)
<1>10. SumOf(columns) = SumOver(D, f) /\ SumOf(rows) = SumOver(D, f)
  <2>1. \A at \in D : column[at] \in 1 .. width /\ row[at] \in 1 .. height
    BY <1>7
  <2>2. SumOf(columns) = SumOver(D, f)
    BY <1>1, <1>9, <2>1, SumOverParts
  <2>3. SumOf(rows) = SumOver(D, f)
    BY <1>1, <1>9, <2>1, SumOverParts
  <2> QED
    BY <2>2, <2>3
<1>11. /\ columns \in Vectors(width) /\ rows \in Vectors(height)
       /\ \A k \in 1 .. width : columns[k] = SumOver({at \in D : column[at] = k}, f)
       /\ \A k \in 1 .. height : rows[k] = SumOver({at \in D : row[at] = k}, f)
  <2>1. columns \in Vectors(width)
        /\ \A k \in 1 .. width : columns[k] = SumOver({at \in D : column[at] = k}, f)
    BY <1>1, <1>9, PartsByType
  <2>2. rows \in Vectors(height)
        /\ \A k \in 1 .. height : rows[k] = SumOver({at \in D : row[at] = k}, f)
    BY <1>1, <1>9, PartsByType
  <2> QED
    BY <2>1, <2>2
<1>12. sums \in Vectors(width) /\ \A k \in 1 .. width : sums[k] = ColumnSum(circuit, k - 1, z)
  <2>1. sums = [k \in 1 .. width |-> sums[k]]
        /\ \A k \in 1 .. width : sums[k] = ColumnSum(circuit, k - 1, z)
    OBVIOUS
  <2> HIDE DEF sums
  <2>2. \A k \in 1 .. width : sums[k] \in Scalars
    BY <1>2, <2>1
  <2>3. sums \in Vectors(width)
    BY <1>1, <2>1, <2>2, VectorsAre
  <2> QED
    BY <2>1, <2>3
<1> HIDE DEF columns, rows, sums
<1>13. ASSUME NEW k \in 1 .. width PROVE columns[k] = Mul(sums[k], w[k])
  <2> DEFINE S == {at \in D : at[2] = k - 1}
             c == w[k]
  <2>1. {at \in D : column[at] = k} = S
    BY <1>1, <1>7
  <2>2. S \in SUBSET D /\ \A at \in S : at \in D /\ at[2] + 1 = k
    BY <1>1
  <2>3. c \in Scalars
    BY <1>3
  <2>4. \A at \in S : inColumn[at] \in Scalars /\ f[at] = Mul(inColumn[at], c)
    BY <1>2, <1>8, <2>2
  <2>5. SumOver(S, inColumn) = sums[k]
    BY <1>2, <1>12
  <2> HIDE DEF S, c
  <2>6. IsFiniteSet(S)
    BY <1>1, <2>2, FS_Subset
  <2>7. SumOver(S, f) = Mul(SumOver(S, inColumn), c)
    BY <2>3, <2>4, <2>6, SumOverScaled
  <2> QED
    BY <1>11, <2>1, <2>5, <2>7 DEF c
<1>14. ASSUME NEW k \in 1 .. height PROVE rows[k] = 0
  <2> DEFINE S == {at \in D : at[1] = k - 1}
             c == power[k + 1]
  <2>1. {at \in D : row[at] = k} = S
    BY <1>1, <1>7
  <2>2. S \in SUBSET D /\ \A at \in S : at \in D /\ at[1] + 2 = k + 1
    BY <1>1
  <2>3. c \in Scalars
    <3>1. height + 1 \in Nat /\ k + 1 \in 1 .. (height + 1)
      BY <1>1
    <3>2. \A j \in 1 .. (height + 1) : power[j] \in Scalars
      BY <1>2, <3>1, VectorType
    <3> QED
      BY <3>1, <3>2
  <2>4. \A at \in S : inRow[at] \in Scalars /\ f[at] = Mul(inRow[at], c)
    BY <1>5, <1>9, <2>2
  <2>5. SumOver(S, inRow) = 0
    BY <1>5, <1>6
  <2> HIDE DEF S, c
  <2>6. IsFiniteSet(S)
    BY <1>1, <2>2, FS_Subset
  <2>7. SumOver(S, f) = Mul(SumOver(S, inRow), c)
    BY <2>3, <2>4, <2>6, SumOverScaled
  <2>8. Mul(0, c) = 0
    BY <2>3, ScalarRules
  <2> QED
    BY <1>11, <2>1, <2>5, <2>7, <2>8
<1>15. SumOf(rows) = 0
  BY <1>1, <1>11, <1>14, SumOfZeros
<1>16. InnerProductOf(sums, w) = SumOf(columns)
  <2>1. w \in Vectors(width)
    BY DEF width
  <2>2. /\ Products(sums, w) \in Vectors(width)
        /\ \A k \in 1 .. width : Products(sums, w)[k] = Mul(sums[k], w[k])
        /\ InnerProductOf(sums, w) = SumOf(Products(sums, w))
    BY <1>1, <1>12, <2>1, ProductsType
  <2> DEFINE u == Products(sums, w)
  <2>3. u \in Vectors(width) /\ \A k \in 1 .. width : u[k] = columns[k]
    BY <1>13, <2>2
  <2> HIDE DEF u
  <2>4. u = columns
    BY <1>1, <1>11, <2>3, VectorsEqual
  <2> QED
    BY <2>2, <2>4 DEF u
<1>17. InnerProductOf(sums, w) = 0
  BY <1>10, <1>15, <1>16
<1> QED
  BY <1>12, <1>17 DEF sums, width

\* A witness that satisfies the circuit balances its reduction by any two challenges.
LEMMA BalancedMade ==
  ASSUME NEW circuit, CircuitTyped(circuit), NEW y \in Scalars \ {0}, NEW z \in Scalars,
         NEW witness, WitnessSatisfied(circuit, witness),
         witness.values \in Vectors(circuit.committed),
         witness.left \in Vectors(circuit.internal),
         witness.right \in Vectors(circuit.internal),
         witness.output \in Vectors(circuit.internal),
         \A k \in 1 .. circuit.internal :
           witness.output[k] = Mul(witness.left[k], witness.right[k])
  PROVE  Balanced(witness, Reduction(circuit, y, z))
<1> DEFINE m == circuit.committed
           n == circuit.internal
           width == circuit.weights.width
           c == Reduction(circuit, y, z).reduced
           values == witness.values
           left == witness.left
           right == witness.right
           output == witness.output
           w == Assignment(values, left, right)
           sums == [k \in 1 .. width |-> ColumnSum(circuit, k - 1, z)]
           f == Products(sums, w)
<1>1. m \in Nat /\ n \in Nat /\ width = 1 + m + n + n + n
  BY DEF CircuitTyped
<1>2. /\ values \in Vectors(m) /\ left \in Vectors(n) /\ right \in Vectors(n)
      /\ output \in Vectors(n) /\ \A k \in 1 .. n : output[k] = Mul(left[k], right[k])
  OBVIOUS
<1>3. ToSet(RowValues(circuit.weights, w)) \subseteq {0}
  BY DEF WitnessSatisfied, CircuitSatisfied
<1>4. /\ c.kappa \in Scalars /\ c.theta \in Vectors(m) /\ c.lambda \in Vectors(n)
      /\ c.rho \in Vectors(n) /\ c.omega \in Vectors(n)
  BY <1>1, ReductionMade DEF Weighed
<1>5. /\ c.kappa = ColumnSum(circuit, 0, z)
      /\ \A k \in 1 .. m : c.theta[k] = ColumnSum(circuit, k, z)
      /\ \A k \in 1 .. n : /\ c.lambda[k] = ColumnSum(circuit, m + k, z)
                           /\ c.rho[k] = ColumnSum(circuit, m + n + k, z)
                           /\ c.omega[k] = ColumnSum(circuit, m + n + n + k, z)
  BY ReductionMade
<1> HIDE DEF m, n, width, c, values, left, right, output
<1>6. /\ w \in Vectors(width) /\ w[1] = 1
      /\ \A k \in 1 .. m : w[1 + k] = values[k]
      /\ \A k \in 1 .. n : /\ w[1 + m + k] = left[k]
                           /\ w[1 + m + n + k] = right[k]
                           /\ w[1 + m + n + n + k] = Mul(left[k], right[k])
  <2>1. Assigned(w, m, n, values, left, right)
    BY <1>1, <1>2, AssignmentMade
  <2> HIDE DEF w
  <2> QED
    BY <1>1, <2>1 DEF Assigned
<1> HIDE DEF w
<1>7. /\ sums \in Vectors(width) /\ InnerProductOf(sums, w) = 0
      /\ \A k \in 1 .. width : sums[k] = ColumnSum(circuit, k - 1, z)
  <2>1. w \in Vectors(circuit.weights.width)
    BY <1>6 DEF width
  <2>2. z \in Scalars /\ CircuitTyped(circuit)
    OBVIOUS
  <2> QED
    BY <1>3, <2>1, <2>2, RowsByColumn DEF width
<1> HIDE DEF sums
<1>8. width \in Nat
  BY <1>1
<1>9. /\ f \in Vectors(width) /\ SumOf(f) = 0
      /\ \A k \in 1 .. width : f[k] = Mul(sums[k], w[k]) /\ w[k] \in Scalars
  BY <1>6, <1>7, <1>8, ProductsType
<1> HIDE DEF f
<1> DEFINE Upto(i) == SumOf(Cut(f, i))
<1>10. ASSUME NEW i \in Nat, NEW j \in Nat, i + j <= width, NEW u \in Vectors(j),
              NEW v \in Vectors(j), \A k \in 1 .. j : sums[i + k] = u[k] /\ w[i + k] = v[k]
       PROVE  Upto(i + j) = Add(Upto(i), InnerProductOf(u, v))
  <2> DEFINE g == Products(u, v)
  <2>1. /\ g \in Vectors(j) /\ InnerProductOf(u, v) = SumOf(g)
        /\ \A k \in 1 .. j : g[k] = Mul(u[k], v[k])
    BY ProductsType
  <2> HIDE DEF g
  <2>2. \A k \in 1 .. j : i + k \in 1 .. width
    BY <1>8, <1>10
  <2>3. \A k \in 1 .. j : g[k] = f[i + k]
    BY <1>9, <1>10, <2>1, <2>2
  <2>4. SumOf(Cut(f, i + j)) = Add(SumOf(Cut(f, i)), SumOf(g))
    BY <1>8, <1>9, <1>10, <2>1, <2>3, SumOfSplit
  <2> QED
    BY <2>1, <2>4
<1>11. Upto(1) = c.kappa
  <2>1. SumOf(Cut(f, 0 + 1)) = Res(SumOf(Cut(f, 0)) + f[0 + 1])
    <3>1. 0 \in Nat /\ 0 < width
      BY <1>1
    <3> QED
      BY <1>8, <1>9, <3>1, SumOfLast
  <2>2. SumOf(Cut(f, 0)) = 0
    <3>1. Cut(f, 0) = <<>>
      BY DEF Cut
    <3> QED
      BY <3>1, SumEmpty
  <2>3. f[1] = Mul(c.kappa, 1)
    <3>1. 1 \in 1 .. width /\ 1 - 1 = 0
      BY <1>1
    <3> QED
      BY <1>5, <1>6, <1>7, <1>9, <3>1
  <2>4. Mul(c.kappa, 1) = c.kappa
    BY <1>4, ScalarRules
  <2> DEFINE e == c.kappa
  <2>5. e \in Int /\ e = Res(e)
    BY <1>4, Residues
  <2> HIDE DEF e
  <2>6. Res(0 + e) = e
    BY <2>5
  <2> QED
    BY <2>1, <2>2, <2>3, <2>4, <2>6 DEF e
<1>12. Upto(1 + m) = Add(Upto(1), InnerProductOf(c.theta, values))
  <2>1. ASSUME NEW k \in 1 .. m PROVE sums[1 + k] = c.theta[k] /\ w[1 + k] = values[k]
    <3>1. 1 + k \in 1 .. width /\ (1 + k) - 1 = k
      BY <1>1
    <3> QED
      BY <1>5, <1>6, <1>7, <3>1
  <2>2. 1 \in Nat /\ 1 + m <= width
    BY <1>1
  <2> HIDE DEF Upto
  <2> QED
    BY <1>1, <1>2, <1>4, <1>10, <2>1, <2>2
<1>13. Upto(1 + m + n) = Add(Upto(1 + m), InnerProductOf(c.lambda, left))
  <2>1. ASSUME NEW k \in 1 .. n PROVE sums[1 + m + k] = c.lambda[k] /\ w[1 + m + k] = left[k]
    <3>1. 1 + m + k \in 1 .. width /\ (1 + m + k) - 1 = m + k
      BY <1>1
    <3> QED
      BY <1>5, <1>6, <1>7, <3>1
  <2>2. 1 + m \in Nat /\ 1 + m + n <= width
    BY <1>1
  <2> HIDE DEF Upto
  <2> QED
    BY <1>1, <1>2, <1>4, <1>10, <2>1, <2>2
<1>14. Upto(1 + m + n + n) = Add(Upto(1 + m + n), InnerProductOf(c.rho, right))
  <2>1. ASSUME NEW k \in 1 .. n
        PROVE  sums[1 + m + n + k] = c.rho[k] /\ w[1 + m + n + k] = right[k]
    <3>1. 1 + m + n + k \in 1 .. width /\ (1 + m + n + k) - 1 = m + n + k
      BY <1>1
    <3> QED
      BY <1>5, <1>6, <1>7, <3>1
  <2>2. 1 + m + n \in Nat /\ 1 + m + n + n <= width
    BY <1>1
  <2> HIDE DEF Upto
  <2> QED
    BY <1>1, <1>2, <1>4, <1>10, <2>1, <2>2
<1>15. Upto(1 + m + n + n + n) = Add(Upto(1 + m + n + n), InnerProductOf(c.omega, output))
  <2>1. ASSUME NEW k \in 1 .. n
        PROVE  sums[1 + m + n + n + k] = c.omega[k] /\ w[1 + m + n + n + k] = output[k]
    <3>1. 1 + m + n + n + k \in 1 .. width /\ (1 + m + n + n + k) - 1 = m + n + n + k
      BY <1>1
    <3> QED
      BY <1>2, <1>5, <1>6, <1>7, <3>1
  <2>2. 1 + m + n + n \in Nat /\ 1 + m + n + n + n <= width
    BY <1>1
  <2> HIDE DEF Upto
  <2> QED
    BY <1>1, <1>2, <1>4, <1>10, <2>1, <2>2
<1>16. Upto(1 + m + n + n + n) = 0
  <2>1. f = [k \in 1 .. width |-> f[k]]
    BY <1>9 DEF Vectors
  <2>2. Cut(f, width) = f
    BY <2>1 DEF Cut
  <2> QED
    BY <1>1, <1>9, <2>2
<1> HIDE DEF Upto
<1>17. Add(Add(Add(Add(c.kappa, InnerProductOf(c.theta, values)),
                   InnerProductOf(c.lambda, left)),
               InnerProductOf(c.rho, right)),
           InnerProductOf(c.omega, output)) = 0
  BY <1>11, <1>12, <1>13, <1>14, <1>15, <1>16
<1> QED
  BY <1>17 DEF Balanced, c, values, left, right, output

----------------------------------------------------------------------------
(* The vectors of the inner product *)

\* The two vectors, filled up: polynomials in x entry by entry.
Blended(v, p, witness, wires, r, x, n, size) ==
  /\ v.a \in Vectors(size) /\ v.b \in Vectors(size)
  /\ Blend(v.a, n, x[1], p.leftRho, x[2], witness.output, x[3], wires.leftBlinding)
  /\ Blend(v.b, n, 1, r.omegaMinusY, x[1], p.yRLambda, x[3], p.yRTilde)
  /\ \A k \in (n + 1) .. size : v.a[k] = 0 /\ v.b[k] = r.omegaMinusY[k]

LEMMA VectorsBlended ==
  ASSUME NEW m \in Nat, NEW size \in Nat, NEW circuit, circuit.internal \in Nat,
         PaddedVars(circuit) = size, NEW r, Weighed(r, m, circuit.internal, size),
         NEW witness, NEW wires, Wired(witness, wires, m, circuit.internal),
         NEW p, PolynomialVectors(p, witness, wires, r, circuit.internal),
         NEW x, x[1] \in Scalars, x[2] \in Scalars, x[3] \in Scalars
  PROVE  Blended(IpaWitnessVectors(circuit, witness, r, wires, p, x), p, witness, wires, r, x,
                 circuit.internal, size)
<1> DEFINE n == circuit.internal
           al == wires.leftBlinding
           O == witness.output
           lr == p.leftRho
           yl == p.yRLambda
           yt == p.yRTilde
           om == r.omegaMinusY
           s1 == VecScale(lr, x[1])
           s2 == VecScale(O, x[2])
           s3 == VecScale(al, x[3])
           s4 == Sum2(s1, s2)
           s5 == Sum2(s4, s3)
           a == Resized(s5, size)
           b == [k \in 1 .. size |->
                   Add(om[k], IF k > n THEN 0 ELSE Add(Mul(yl[k], x[1]), Mul(yt[k], x[3])))]
           v == IpaWitnessVectors(circuit, witness, r, wires, p, x)
<1>1. /\ n \in Nat /\ n <= size /\ om \in Vectors(size)
      /\ al \in Vectors(n) /\ O \in Vectors(n)
      /\ lr \in Vectors(n) /\ yl \in Vectors(n) /\ yt \in Vectors(n)
  BY DEF Weighed, Wired, PolynomialVectors
<1>2. v.a = a /\ v.b = b
  BY DEF IpaWitnessVectors
<1> HIDE DEF v, n, al, O, lr, yl, yt, om
<1>3. s1 \in Vectors(n) /\ \A k \in 1 .. n : s1[k] = Mul(lr[k], x[1])
  BY <1>1, VecScaleType
<1>4. s2 \in Vectors(n) /\ \A k \in 1 .. n : s2[k] = Mul(O[k], x[2])
  BY <1>1, VecScaleType
<1>5. s3 \in Vectors(n) /\ \A k \in 1 .. n : s3[k] = Mul(al[k], x[3])
  BY <1>1, VecScaleType
<1> HIDE DEF s1, s2, s3
<1>6. s4 \in Vectors(n) /\ \A k \in 1 .. n : s4[k] = Add(s1[k], s2[k])
  BY <1>1, <1>3, <1>4, Sum2Type
<1> HIDE DEF s4
<1>7. s5 \in Vectors(n) /\ \A k \in 1 .. n : s5[k] = Add(s4[k], s3[k])
  BY <1>1, <1>5, <1>6, Sum2Type
<1> HIDE DEF s5
<1>8. /\ a \in Vectors(size) /\ \A k \in 1 .. n : a[k] = s5[k]
      /\ \A k \in (n + 1) .. size : a[k] = 0
  BY <1>1, <1>7, ResizedType
<1>9. /\ \A k \in 1 .. n : /\ lr[k] \in Scalars /\ O[k] \in Scalars /\ al[k] \in Scalars
                           /\ yl[k] \in Scalars /\ yt[k] \in Scalars
      /\ \A k \in 1 .. size : om[k] \in Scalars
  BY <1>1, VectorType
<1> HIDE DEF a
<1>10. ASSUME NEW k \in 1 .. n
       PROVE  a[k] = Add(Add(Mul(x[1], lr[k]), Mul(x[2], O[k])), Mul(x[3], al[k]))
  <2>1. Mul(lr[k], x[1]) = Mul(x[1], lr[k])
    BY <1>9, ScalarRules
  <2>2. Mul(O[k], x[2]) = Mul(x[2], O[k])
    BY <1>9, ScalarRules
  <2>3. Mul(al[k], x[3]) = Mul(x[3], al[k])
    BY <1>9, ScalarRules
  <2> QED
    BY <1>3, <1>4, <1>5, <1>6, <1>7, <1>8, <2>1, <2>2, <2>3
<1>11. /\ b = [k \in 1 .. size |-> b[k]]
       /\ \A k \in 1 .. size :
            b[k] = Add(om[k], IF k > n THEN 0 ELSE Add(Mul(yl[k], x[1]), Mul(yt[k], x[3])))
  OBVIOUS
<1> HIDE DEF b
<1>12. ASSUME NEW k \in 1 .. n
       PROVE  /\ b[k] = Add(Add(Mul(1, om[k]), Mul(x[1], yl[k])), Mul(x[3], yt[k]))
              /\ b[k] \in Scalars
  <2>1. k \in 1 .. size /\ ~(k > n)
    BY <1>1
  <2> DEFINE c == om[k]
             d == Mul(yl[k], x[1])
             e == Mul(yt[k], x[3])
  <2>2. b[k] = Add(c, Add(d, e))
    BY <1>11, <2>1
  <2>3. d \in Scalars /\ d = Mul(x[1], yl[k])
    BY <1>9, ScalarRules
  <2>4. e \in Scalars /\ e = Mul(x[3], yt[k])
    BY <1>9, ScalarRules
  <2>5. c \in Scalars /\ Mul(1, c) = c
    BY <1>9, <2>1, ScalarRules
  <2>6. c = Mul(1, om[k])
    BY <2>5
  <2> HIDE DEF c, d, e
  <2>7. c \in Int /\ d \in Int /\ e \in Int
    BY <2>3, <2>4, <2>5, Residues
  <2>8. Add(Add(c, d), e) = Add(c, Add(d, e))
    BY <2>7, RingAdd
  <2>9. Add(d, e) \in Scalars
    BY <2>3, <2>4, ScalarRules
  <2>10. Add(c, Add(d, e)) \in Scalars
    BY <2>5, <2>9, ScalarRules
  <2> QED
    BY <2>2, <2>3, <2>4, <2>6, <2>8, <2>10
<1>13. ASSUME NEW k \in (n + 1) .. size PROVE b[k] = om[k] /\ b[k] \in Scalars
  <2>1. k \in 1 .. size /\ k > n
    BY <1>1
  <2>2. b[k] = Add(om[k], 0)
    BY <1>11, <2>1
  <2>3. om[k] \in Scalars
    BY <1>9, <2>1
  <2> QED
    BY <2>2, <2>3, AddZero
<1>14. b \in Vectors(size)
  <2>1. ASSUME NEW k \in 1 .. size PROVE b[k] \in Scalars
    <3>1. k \in 1 .. n \/ k \in (n + 1) .. size
      BY <1>1
    <3> QED
      BY <1>12, <1>13, <3>1
  <2> QED
    BY <1>11, <2>1, VectorsAre
<1>15. Blend(a, n, x[1], lr, x[2], O, x[3], al) /\ Blend(b, n, 1, om, x[1], yl, x[3], yt)
  BY <1>10, <1>12 DEF Blend
<1> QED
  BY <1>2, <1>8, <1>13, <1>14, <1>15 DEF Blended, v, n, al, O, lr, yl, yt, om

\* The product of the two vectors is the polynomial at x.
LEMMA ProductMade ==
  ASSUME NEW m \in Nat, NEW n \in Nat, NEW size \in Nat, NEW r, Weighed(r, m, n, size),
         NEW witness, NEW wires, Wired(witness, wires, m, n), Balanced(witness, r),
         NEW a \in Scalars, NEW v,
         Blended(v, PolynomialState(witness, r, wires), witness, wires, r, Powers(a), n, size)
  PROVE  InnerProductOf(v.a, v.b) = InnerProductOf(PolynomialState(witness, r, wires).t, Powers(a))
<1> DEFINE p == PolynomialState(witness, r, wires)
           x == Powers(a)
           al == wires.leftBlinding
           O == witness.output
           lr == p.leftRho
           yl == p.yRLambda
           yt == p.yRTilde
           om == r.omegaMinusY
           oy == Cut(om, n)
           va == Cut(v.a, n)
           vb == Cut(v.b, n)
           t == p.t
<1>1. /\ x \in Vectors(6) /\ \A k \in 1 .. 6 : x[k] \in Scalars
      /\ x[2] = Mul(x[1], x[1]) /\ x[3] = Mul(x[1], x[2])
      /\ x[4] = Mul(x[2], x[2]) /\ x[5] = Mul(x[2], x[3]) /\ x[6] = Mul(x[3], x[3])
  BY PowersOfChallenge
<1>2. /\ n <= size /\ om \in Vectors(size)
      /\ al \in Vectors(n) /\ O \in Vectors(n)
  BY DEF Weighed, Wired
<1>3. PolynomialVectors(p, witness, wires, r, n)
  BY PolynomialMade
<1>4. lr \in Vectors(n) /\ yl \in Vectors(n) /\ yt \in Vectors(n)
  BY <1>3 DEF PolynomialVectors
<1>5. /\ t \in Vectors(6)
      /\ oy \in Vectors(n) /\ \A k \in 1 .. n : oy[k] = om[k]
      /\ t[1] = InnerProductOf(lr, oy)
      /\ t[2] = Sub(Sub(DeltaYZ(r), r.reduced.kappa),
                    InnerProductOf(r.reduced.theta, witness.values))
      /\ t[3] = Add(InnerProductOf(al, oy), InnerProductOf(O, yl))
      /\ t[4] = Add(InnerProductOf(al, yl), InnerProductOf(lr, yt))
      /\ t[5] = InnerProductOf(O, yt)
      /\ t[6] = InnerProductOf(al, yt)
  BY CoefficientsMade
<1>6. Add(InnerProductOf(lr, yl), InnerProductOf(O, om)) = t[2]
  BY <1>3, <1>5, SecondCoefficient
<1>7. InnerProductOf(O, om) = InnerProductOf(O, oy)
  BY <1>2, CutType
<1>8. /\ v.a \in Vectors(size) /\ v.b \in Vectors(size)
      /\ Blend(v.a, n, x[1], lr, x[2], O, x[3], al)
      /\ Blend(v.b, n, 1, om, x[1], yl, x[3], yt)
      /\ \A k \in (n + 1) .. size : v.a[k] = 0
  BY DEF Blended
<1> HIDE DEF p, x, al, O, lr, yl, yt, om, t
<1>9. InnerProductOf(v.a, v.b) = InnerProductOf(va, vb)
  BY <1>2, <1>8, InnerPadded
<1>10. va \in Vectors(n) /\ vb \in Vectors(n)
       /\ \A k \in 1 .. n : va[k] = v.a[k] /\ vb[k] = v.b[k]
  <2>1. ASSUME NEW w \in Vectors(size)
        PROVE  Cut(w, n) \in Vectors(n) /\ \A k \in 1 .. n : Cut(w, n)[k] = w[k]
    BY <1>2, CutType
  <2> QED
    BY <1>8, <2>1
<1> HIDE DEF va, vb, oy
<1>11. /\ Blend(va, n, x[1], lr, x[2], O, x[3], al)
       /\ Blend(vb, n, 1, oy, x[1], yl, x[3], yt)
  BY <1>5, <1>8, <1>10 DEF Blend
<1>12. 1 \in Scalars /\ x[1] \in Scalars /\ x[2] \in Scalars /\ x[3] \in Scalars
  BY <1>1, ResiduesAreIntegers
<1> DEFINE one == 1
<1>13. Mixed(va, n, x[1], lr, x[2], O, x[3], al) /\ Mixed(vb, n, one, oy, x[1], yl, x[3], yt)
  BY <1>2, <1>4, <1>5, <1>10, <1>11, <1>12 DEF Mixed
<1> HIDE DEF one
<1>14. ASSUME NEW d \in Vectors(n)
       PROVE  InnerProductOf(d, vb) =
                Add(Add(Mul(one, InnerProductOf(d, oy)), Mul(x[1], InnerProductOf(d, yl))),
                    Mul(x[3], InnerProductOf(d, yt)))
  BY <1>13, BlendInner
<1>15. InnerProductOf(va, vb) =
         Add(Add(Mul(x[1], InnerProductOf(lr, vb)), Mul(x[2], InnerProductOf(O, vb))),
             Mul(x[3], InnerProductOf(al, vb)))
  BY <1>10, <1>13, BlendInner
<1> DEFINE A == <<InnerProductOf(lr, oy), InnerProductOf(lr, yl), InnerProductOf(lr, yt)>>
           B == <<InnerProductOf(O, oy), InnerProductOf(O, yl), InnerProductOf(O, yt)>>
           C == <<InnerProductOf(al, oy), InnerProductOf(al, yl), InnerProductOf(al, yt)>>
           At(w) == Add(Add(Mul(1, w[1]), Mul(x[1], w[2])), Mul(x[3], w[3]))
<1>16. A \in Vectors(3) /\ B \in Vectors(3) /\ C \in Vectors(3)
  <2>1. ASSUME NEW d \in Vectors(n)
        PROVE  <<InnerProductOf(d, oy), InnerProductOf(d, yl), InnerProductOf(d, yt)>>
                 \in Vectors(3)
    <3>1. InnerProductOf(d, oy) \in Scalars
      BY <1>5, ProductsType
    <3>2. InnerProductOf(d, yl) \in Scalars /\ InnerProductOf(d, yt) \in Scalars
      BY <1>4, ProductsType
    <3> QED
      BY <3>1, <3>2 DEF Vectors
  <2> QED
    BY <1>2, <1>4, <2>1
<1>17. /\ A[1] = InnerProductOf(lr, oy) /\ A[2] = InnerProductOf(lr, yl)
       /\ A[3] = InnerProductOf(lr, yt)
       /\ B[1] = InnerProductOf(O, oy) /\ B[2] = InnerProductOf(O, yl)
       /\ B[3] = InnerProductOf(O, yt)
       /\ C[1] = InnerProductOf(al, oy) /\ C[2] = InnerProductOf(al, yl)
       /\ C[3] = InnerProductOf(al, yt)
  OBVIOUS
<1> HIDE DEF A, B, C
<1>18. /\ t[1] = A[1] /\ t[2] = Add(A[2], B[1]) /\ t[3] = Add(C[1], B[2])
       /\ t[4] = Add(C[2], A[3]) /\ t[5] = B[3] /\ t[6] = C[3]
  BY <1>5, <1>6, <1>7, <1>17
<1>19. Add(Add(Mul(x[1], At(A)), Mul(x[2], At(B))), Mul(x[3], At(C))) = InnerProductOf(t, x)
  BY <1>1, <1>5, <1>12, <1>16, <1>18, ProductExpanded
<1>20. /\ InnerProductOf(lr, vb) = At(A) /\ InnerProductOf(O, vb) = At(B)
       /\ InnerProductOf(al, vb) = At(C)
  BY <1>2, <1>4, <1>14, <1>17 DEF one
<1> QED
  BY <1>9, <1>15, <1>19, <1>20 DEF p, x, t

----------------------------------------------------------------------------
(* The commitment to the vectors *)

\* What the generators of some names have at a base.
Column(names, base, n) == [k \in 1 .. n |-> BasePoint(names[k])[base]]

LEMMA ColumnMade ==
  ASSUME NEW names \in Seq(Bases), NEW n \in Nat, n <= Len(names), NEW base \in Bases
  PROVE  /\ Column(names, base, n) \in Vectors(n)
         /\ \A k \in 1 .. n : Column(names, base, n)[k] = BasePoint(names[k])[base]
                              /\ BasePoint(names[k]) \in Pts
         /\ \A s \in Vectors(n) :
              /\ Msm(PointsOf(names), s)[base] = InnerProductOf(s, Column(names, base, n))
              /\ Msm(LeftGenerators([g |-> names], n), s)[base]
                   = InnerProductOf(s, Column(names, base, n))
<1> DEFINE c == Column(names, base, n)
           w == PointsOf(SubSeq(names, 1, n))
<1>1. ASSUME NEW k \in 1 .. n PROVE BasePoint(names[k]) \in Pts
  <2>1. Len(names) \in Nat
    OBVIOUS
  <2>2. names[k] \in Bases
    BY <2>1
  <2> QED
    BY <2>2, BasePointType
<1>2. c = [k \in 1 .. n |-> c[k]] /\ \A k \in 1 .. n : c[k] = BasePoint(names[k])[base]
  BY DEF Column
<1> HIDE DEF c
<1>3. \A k \in 1 .. n : c[k] \in Scalars
  BY <1>1, <1>2 DEF Pts
<1>4. c \in Vectors(n)
  BY <1>2, <1>3, VectorsAre
<1>5. ASSUME NEW s \in Vectors(n)
      PROVE  /\ Msm(PointsOf(names), s) = Msm(w, s)
             /\ Msm(w, s)[base] = InnerProductOf(s, c)
  <2>1. /\ w \in PointVectors(n) /\ \A k \in 1 .. n : w[k] = BasePoint(names[k])
        /\ Msm(PointsOf(names), s) = Msm(w, s)
    BY MsmOfNames
  <2> HIDE DEF w
  <2>2. Msm(w, s)[base] = InnerProductOf(Coefficients(w, base), s)
    BY <2>1, MsmCoefficient
  <2>3. Coefficients(w, base) \in Vectors(n)
        /\ \A k \in 1 .. n : Coefficients(w, base)[k] = w[k][base]
    BY <2>1, CoefficientsType
  <2>4. Coefficients(w, base) = c
    <3>1. \A k \in 1 .. n : Coefficients(w, base)[k] = c[k]
      BY <1>2, <2>1, <2>3
    <3> QED
      BY <1>4, <2>3, <3>1, VectorsEqual
  <2>5. InnerProductOf(c, s) = InnerProductOf(s, c)
    BY <1>4, InnerCommutes
  <2> QED
    BY <2>1, <2>2, <2>4, <2>5
<1>6. LeftGenerators([g |-> names], n) = w
  BY DEF LeftGenerators
<1> QED
  BY <1>1, <1>2, <1>4, <1>5, <1>6 DEF c

\* What the commitment to the two vectors depends on.
Setting(m, n, size, r, witness, wires, p, v, x) ==
  /\ m \in Nat /\ n \in Nat /\ size \in Nat
  /\ Weighed(r, m, n, size) /\ Wired(witness, wires, m, n)
  /\ PolynomialVectors(p, witness, wires, r, n)
  /\ Blended(v, p, witness, wires, r, x, n, size)
  /\ x[1] \in Scalars /\ x[2] \in Scalars /\ x[3] \in Scalars

\* The left vector under the left generators, at each base.
LEMMA LeftAt ==
  ASSUME NEW m, NEW n, NEW size, NEW r, NEW witness, NEW wires, NEW p, NEW v, NEW x,
         Setting(m, n, size, r, witness, wires, p, v, x),
         NEW g \in Seq(Bases), size <= Len(g), NEW base \in Bases
  PROVE  Msm(PointsOf(g), v.a)[base]
           = Add(Add(Mul(x[1], Add(Msm(PointsOf(g), witness.left)[base],
                                   Msm(PointsOf(g), r.yInvRho)[base])),
                     Mul(x[2], Msm(PointsOf(g), witness.output)[base])),
                 Mul(x[3], Msm(PointsOf(g), wires.leftBlinding)[base]))
<1> DEFINE al == wires.leftBlinding
           l == witness.left
           O == witness.output
           rho == r.yInvRho
           lr == p.leftRho
           a == v.a
           cut == Cut(a, n)
           big == Column(g, base, size)
           c == Column(g, base, n)
           At(s) == Msm(PointsOf(g), s)[base]
<1>1. /\ m \in Nat /\ n \in Nat /\ size \in Nat /\ n <= size
      /\ al \in Vectors(n) /\ l \in Vectors(n) /\ O \in Vectors(n) /\ lr \in Vectors(n)
      /\ \A k \in 1 .. n : lr[k] = Add(l[k], rho[k])
      /\ a \in Vectors(size) /\ Blend(a, n, x[1], lr, x[2], O, x[3], al)
      /\ \A k \in (n + 1) .. size : a[k] = 0
      /\ x[1] \in Scalars /\ x[2] \in Scalars /\ x[3] \in Scalars
      /\ Weighed(r, m, n, size)
  BY DEF Setting, Weighed, Wired, PolynomialVectors, Blended
<1>2. rho \in Vectors(n)
  BY <1>1, WeightsCut
<1> HIDE DEF al, l, O, rho, lr, a
<1>3. n <= Len(g)
  <2>1. Len(g) \in Nat
    OBVIOUS
  <2> QED
    BY <1>1, <2>1
<1>4. /\ big \in Vectors(size) /\ \A k \in 1 .. size : big[k] = BasePoint(g[k])[base]
      /\ \A s \in Vectors(size) : At(s) = InnerProductOf(s, big)
  BY <1>1, ColumnMade
<1>5. /\ c \in Vectors(n) /\ \A k \in 1 .. n : c[k] = BasePoint(g[k])[base]
      /\ \A s \in Vectors(n) : At(s) = InnerProductOf(s, c)
  BY <1>1, <1>3, ColumnMade
<1> HIDE DEF big, c, At
<1>6. Cut(big, n) = c
  <2>1. Cut(big, n) \in Vectors(n) /\ \A k \in 1 .. n : Cut(big, n)[k] = big[k]
    BY <1>1, <1>4, CutType
  <2>2. \A k \in 1 .. n : Cut(big, n)[k] = c[k]
    BY <1>1, <1>4, <1>5, <2>1
  <2> QED
    BY <1>1, <1>5, <2>1, <2>2, VectorsEqual
<1>7. InnerProductOf(a, big) = InnerProductOf(cut, c)
  BY <1>1, <1>4, <1>6, InnerPadded
<1>8. cut \in Vectors(n) /\ \A k \in 1 .. n : cut[k] = a[k]
  BY <1>1, CutType
<1> HIDE DEF cut
<1>9. Mixed(cut, n, x[1], lr, x[2], O, x[3], al)
  BY <1>1, <1>8 DEF Mixed, Blend
<1>10. InnerProductOf(cut, c)
         = Add(Add(Mul(x[1], InnerProductOf(lr, c)), Mul(x[2], InnerProductOf(O, c))),
               Mul(x[3], InnerProductOf(al, c)))
  BY <1>5, <1>9, BlendInner
<1>11. InnerProductOf(lr, c) = Add(InnerProductOf(l, c), InnerProductOf(rho, c))
  BY <1>1, <1>2, <1>5, InnerAdded
<1>12. /\ At(a) = InnerProductOf(a, big) /\ At(l) = InnerProductOf(l, c)
       /\ At(rho) = InnerProductOf(rho, c) /\ At(O) = InnerProductOf(O, c)
       /\ At(al) = InnerProductOf(al, c)
  BY <1>1, <1>2, <1>4, <1>5
<1> QED
  BY <1>7, <1>10, <1>11, <1>12 DEF At, al, l, O, rho, a

\* The right vector times the weights of the right generators.
LEMMA RightWeighed ==
  ASSUME NEW m, NEW n, NEW size, NEW r, NEW witness, NEW wires, NEW p, NEW v, NEW x,
         Setting(m, n, size, r, witness, wires, p, v, x)
  PROVE  LET q == PowersFromOne(r.yInv, size)
             rl == Resized(Sum2(witness.right, r.yInvLambda), size)
             ar == Resized(wires.rightBlinding, size)
         IN  Mixed(Products(q, v.b), size, 1, r.yInvOmegaMinusY, x[1], rl, x[3], ar)
<1> DEFINE q == PowersFromOne(r.yInv, size)
           R == witness.right
           rb == wires.rightBlinding
           la == r.yInvLambda
           om == r.omegaMinusY
           iom == r.yInvOmegaMinusY
           sum == Sum2(R, la)
           rl == Resized(sum, size)
           ar == Resized(rb, size)
           b == v.b
           f == Products(q, b)
           y == r.yPowers
           lam == r.reduced.lambda
           yl == p.yRLambda
           yt == p.yRTilde
<1>1. /\ m \in Nat /\ n \in Nat /\ size \in Nat /\ n <= size
      /\ R \in Vectors(n) /\ rb \in Vectors(n) /\ lam \in Vectors(n)
      /\ om \in Vectors(size) /\ q \in Vectors(size)
      /\ \A k \in 1 .. n : yt[k] = Mul(y[k], rb[k]) /\ yl[k] = Add(Mul(y[k], R[k]), lam[k])
      /\ b \in Vectors(size) /\ Blend(b, n, 1, om, x[1], yl, x[3], yt)
      /\ \A k \in (n + 1) .. size : b[k] = om[k]
      /\ x[1] \in Scalars /\ x[3] \in Scalars
      /\ Weighed(r, m, n, size)
  BY DEF Setting, Weighed, Wired, PolynomialVectors, Blended
<1>2. /\ la \in Vectors(n) /\ iom \in Vectors(size)
      /\ \A k \in 1 .. n : /\ la[k] = Mul(q[k], lam[k])
                           /\ q[k] \in Scalars /\ y[k] \in Scalars /\ Mul(q[k], y[k]) = 1
      /\ \A k \in 1 .. size : iom[k] = Mul(q[k], om[k]) /\ q[k] \in Scalars
  BY <1>1, WeightsCut
<1> HIDE DEF q, R, rb, la, om, iom, b, y, lam, yl, yt
<1>3. sum \in Vectors(n) /\ \A k \in 1 .. n : sum[k] = Add(R[k], la[k])
  BY <1>1, <1>2, Sum2Type
<1> HIDE DEF sum
<1>4. /\ rl \in Vectors(size) /\ \A k \in 1 .. n : rl[k] = sum[k]
      /\ \A k \in (n + 1) .. size : rl[k] = 0
  BY <1>1, <1>3, ResizedType
<1>5. /\ ar \in Vectors(size) /\ \A k \in 1 .. n : ar[k] = rb[k]
      /\ \A k \in (n + 1) .. size : ar[k] = 0
  BY <1>1, ResizedType
<1>6. f \in Vectors(size) /\ \A k \in 1 .. size : f[k] = Mul(q[k], b[k])
  BY <1>1, ProductsType
<1> HIDE DEF rl, ar, f
<1>7. 1 \in Scalars
  BY ResiduesAreIntegers
<1>8. /\ \A k \in 1 .. n : R[k] \in Scalars /\ rb[k] \in Scalars /\ lam[k] \in Scalars
      /\ \A k \in 1 .. size : om[k] \in Scalars /\ iom[k] \in Scalars
  BY <1>1, <1>2, VectorType
<1> DEFINE At(k) == Add(Add(Mul(1, iom[k]), Mul(x[1], rl[k])), Mul(x[3], ar[k]))
<1>9. ASSUME NEW k \in 1 .. n PROVE f[k] = At(k)
  <2> DEFINE c == q[k]
             d == y[k]
             e == om[k]
             g == R[k]
             h == lam[k]
             j == rb[k]
             x1 == x[1]
             x3 == x[3]
  <2>1. /\ c \in Scalars /\ d \in Scalars /\ e \in Scalars /\ g \in Scalars /\ h \in Scalars
        /\ j \in Scalars /\ x1 \in Scalars /\ x3 \in Scalars /\ Mul(c, d) = 1 /\ k \in 1 .. size
    BY <1>1, <1>2, <1>8
  <2>2. b[k] = Add(Add(Mul(1, e), Mul(x1, Add(Mul(d, g), h))), Mul(x3, Mul(d, j)))
    BY <1>1 DEF Blend
  <2>3. f[k] = Mul(c, b[k])
    BY <1>6, <2>1
  <2>4. At(k) = Add(Add(Mul(1, Mul(c, e)), Mul(x1, Add(g, Mul(c, h)))), Mul(x3, j))
    BY <1>2, <1>3, <1>4, <1>5, <2>1
  <2> HIDE DEF c, d, e, g, h, j, x1, x3, At
  <2>5. /\ c \in Int /\ d \in Int /\ e \in Int /\ g \in Int /\ h \in Int /\ j \in Int
        /\ x1 \in Int /\ x3 \in Int /\ e = Res(e) /\ g = Res(g) /\ j = Res(j)
    BY <2>1, Residues
  <2>6. Mul(1, e) = e /\ Mul(c, e) \in Scalars
    BY <1>7, <2>1, ScalarRules
  <2>7. Mul(1, Mul(c, e)) = Mul(c, e)
    BY <1>7, <2>6, ScalarRules
  <2>8. ASSUME NEW s \in Scalars PROVE Mul(c, Mul(d, s)) = s
    <3>1. s \in Int
      BY Residues
    <3>2. Mul(Mul(c, d), s) = Mul(c, Mul(d, s))
      BY <2>5, <3>1, RingMul
    <3>3. Mul(1, s) = s
      BY <1>7, ScalarRules
    <3> QED
      BY <2>1, <3>2, <3>3
  <2>9. ASSUME NEW s \in Scalars, NEW t \in Scalars PROVE Mul(c, Mul(s, t)) = Mul(s, Mul(c, t))
    <3>1. s \in Int /\ t \in Int
      BY Residues
    <3>2. Mul(c, Mul(s, t)) = Mul(Mul(c, s), t) /\ Mul(c, s) = Mul(s, c)
          /\ Mul(s, Mul(c, t)) = Mul(Mul(s, c), t)
      <4>1. Mul(Mul(c, s), t) = Mul(c, Mul(s, t)) /\ Mul(c, s) = Mul(s, c)
        BY <2>5, <3>1, RingMul
      <4>2. Mul(Mul(s, c), t) = Mul(s, Mul(c, t))
        BY <2>5, <3>1, RingMul
      <4> QED
        BY <4>1, <4>2
    <3> QED
      BY <3>2
  <2>10. ASSUME NEW s \in Scalars, NEW t \in Scalars
         PROVE  Mul(c, Add(s, t)) = Add(Mul(c, s), Mul(c, t))
    <3>1. s \in Int /\ t \in Int
      BY Residues
    <3>2. Mul(Add(s, t), c) = Add(Mul(s, c), Mul(t, c))
      BY <2>5, <3>1, RingMul
    <3>3. Mul(s, c) = Mul(c, s)
      BY <2>1, ScalarRules
    <3>4. Mul(t, c) = Mul(c, t)
      BY <2>1, ScalarRules
    <3>5. Add(s, t) \in Scalars
      BY ScalarRules
    <3>6. Mul(Add(s, t), c) = Mul(c, Add(s, t))
      BY <2>1, <3>5, ScalarRules
    <3> QED
      BY <3>2, <3>3, <3>4, <3>6
  <2> DEFINE dg == Mul(d, g)
             dj == Mul(d, j)
             mid == Add(dg, h)
             xm == Mul(x1, mid)
             xj == Mul(x3, dj)
             front == Add(e, xm)
  <2>11. dg \in Scalars
    BY <2>1, ScalarRules
  <2>12. dj \in Scalars
    BY <2>1, ScalarRules
  <2>13. b[k] = Add(front, xj) /\ Mul(c, dg) = g /\ Mul(c, dj) = j
    BY <2>1, <2>2, <2>6, <2>8
  <2> HIDE DEF dg, dj
  <2>14. mid \in Scalars
    BY <2>1, <2>11, ScalarRules
  <2>15. Mul(c, mid) = Add(Mul(c, dg), Mul(c, h))
    BY <2>1, <2>10, <2>11
  <2> HIDE DEF mid
  <2>16. xm \in Scalars
    BY <2>1, <2>14, ScalarRules
  <2>17. Mul(c, xm) = Mul(x1, Mul(c, mid))
    BY <2>1, <2>9, <2>14
  <2>18. xj \in Scalars
    BY <2>1, <2>12, ScalarRules
  <2>19. Mul(c, xj) = Mul(x3, Mul(c, dj))
    BY <2>1, <2>9, <2>12
  <2> HIDE DEF xm, xj
  <2>20. front \in Scalars
    BY <2>1, <2>16, ScalarRules
  <2>21. Mul(c, front) = Add(Mul(c, e), Mul(c, xm))
    BY <2>1, <2>10, <2>16
  <2> HIDE DEF front
  <2>22. Mul(c, Add(front, xj)) = Add(Mul(c, front), Mul(c, xj))
    BY <2>10, <2>18, <2>20
  <2> QED
    BY <2>3, <2>4, <2>7, <2>13, <2>15, <2>17, <2>19, <2>21, <2>22
<1>10. ASSUME NEW k \in (n + 1) .. size PROVE f[k] = At(k)
  <2>1. k \in 1 .. size
    BY <1>1
  <2>2. f[k] = iom[k] /\ iom[k] \in Scalars
    BY <1>1, <1>2, <1>6, <1>8, <2>1
  <2>3. Mul(1, iom[k]) = iom[k]
    BY <1>7, <2>2, ScalarRules
  <2>4. Mul(x[1], rl[k]) = 0
    BY <1>1, <1>4, ScalarRules
  <2>5. Mul(x[3], ar[k]) = 0
    BY <1>1, <1>5, ScalarRules
  <2>6. Add(iom[k], 0) = iom[k]
    BY <2>2, AddZero
  <2> QED
    BY <2>2, <2>3, <2>4, <2>5, <2>6
<1>11. \A k \in 1 .. size : f[k] = At(k)
  <2>1. \A k \in 1 .. size : k \in 1 .. n \/ k \in (n + 1) .. size
    BY <1>1
  <2> HIDE DEF At
  <2> QED
    BY <1>9, <1>10, <2>1
<1>12. Blend(f, size, 1, iom, x[1], rl, x[3], ar)
  BY <1>11 DEF Blend
<1> DEFINE one == 1
<1>13. one \in Scalars /\ Blend(f, size, one, iom, x[1], rl, x[3], ar)
  BY <1>7, <1>12
<1> HIDE DEF one, At
<1>14. Mixed(f, size, one, iom, x[1], rl, x[3], ar)
  BY <1>1, <1>2, <1>4, <1>5, <1>6, <1>13 DEF Mixed
<1> QED
  BY <1>14 DEF one, f, iom, rl, ar, q, b, sum, R, la, rb

\* The right vector under the weighted right generators, at each base.
LEMMA RightAt ==
  ASSUME NEW m, NEW n, NEW size, NEW r, NEW witness, NEW wires, NEW p, NEW v, NEW x,
         Setting(m, n, size, r, witness, wires, p, v, x),
         NEW setup, setup.h \in Seq(Bases), size <= Len(setup.h), NEW base \in Bases
  PROVE  Msm(WeightedHGenerators(setup, size, r.yInv), v.b)[base]
           = Add(Add(Msm(PointsOf(setup.h), r.yInvOmegaMinusY)[base],
                     Mul(x[1], Add(Msm(PointsOf(setup.h), witness.right)[base],
                                   Msm(PointsOf(setup.h), r.yInvLambda)[base]))),
                 Mul(x[3], Msm(PointsOf(setup.h), wires.rightBlinding)[base]))
<1> DEFINE h == setup.h
           q == PowersFromOne(r.yInv, size)
           R == witness.right
           rb == wires.rightBlinding
           la == r.yInvLambda
           iom == r.yInvOmegaMinusY
           sum == Sum2(R, la)
           rl == Resized(sum, size)
           ar == Resized(rb, size)
           b == v.b
           f == Products(q, b)
           W == WeightedHGenerators(setup, size, r.yInv)
           big == Column(h, base, size)
           c == Column(h, base, n)
           At(s) == Msm(PointsOf(h), s)[base]
<1>1. /\ m \in Nat /\ n \in Nat /\ size \in Nat /\ n <= size
      /\ R \in Vectors(n) /\ rb \in Vectors(n) /\ q \in Vectors(size)
      /\ b \in Vectors(size) /\ x[1] \in Scalars /\ x[3] \in Scalars
      /\ Weighed(r, m, n, size) /\ h \in Seq(Bases) /\ size <= Len(h)
  BY DEF Setting, Weighed, Wired, Blended
<1>2. la \in Vectors(n) /\ iom \in Vectors(size)
  BY <1>1, WeightsCut
<1> DEFINE one == 1
<1>3. Mixed(f, size, one, iom, x[1], rl, x[3], ar)
  BY RightWeighed
<1>4. W = [k \in 1 .. size |-> Scale(BasePoint(h[k]), q[k])]
  BY DEF WeightedHGenerators
<1> HIDE DEF h, q, R, rb, la, iom, b, W, one
<1>5. n <= Len(h)
  <2>1. Len(h) \in Nat
    BY <1>1
  <2> QED
    BY <1>1, <2>1
<1>6. /\ big \in Vectors(size)
      /\ \A k \in 1 .. size : big[k] = BasePoint(h[k])[base] /\ BasePoint(h[k]) \in Pts
      /\ \A s \in Vectors(size) : At(s) = InnerProductOf(s, big)
  BY <1>1, ColumnMade
<1>7. /\ c \in Vectors(n) /\ \A k \in 1 .. n : c[k] = BasePoint(h[k])[base]
      /\ \A s \in Vectors(n) : At(s) = InnerProductOf(s, c)
  BY <1>1, <1>5, ColumnMade
<1> HIDE DEF big, c, At
<1>8. \A k \in 1 .. size : q[k] \in Scalars /\ b[k] \in Scalars /\ big[k] \in Scalars
  BY <1>1, <1>6, VectorType
<1>9. W \in PointVectors(size)
      /\ \A k \in 1 .. size : W[k][base] = Mul(big[k], q[k])
  <2>1. ASSUME NEW k \in 1 .. size PROVE W[k] \in Pts /\ W[k][base] = Mul(big[k], q[k])
    <3>1. W[k] = Scale(BasePoint(h[k]), q[k])
      BY <1>4
    <3>2. Scale(BasePoint(h[k]), q[k]) \in Pts
      BY <1>6, <1>8, PointsClosed
    <3>3. Scale(BasePoint(h[k]), q[k])[base] = Mul(BasePoint(h[k])[base], q[k])
      BY DEF Scale
    <3> QED
      BY <1>6, <3>1, <3>2, <3>3
  <2>2. W = [k \in 1 .. size |-> W[k]]
    BY <1>4
  <2> QED
    BY <1>1, <2>1, <2>2, PointVectorsAre
<1>10. Msm(W, b)[base] = InnerProductOf(Coefficients(W, base), b)
  BY <1>1, <1>9, MsmCoefficient
<1> DEFINE cw == Coefficients(W, base)
<1>11. cw \in Vectors(size) /\ \A k \in 1 .. size : cw[k] = W[k][base]
  BY <1>1, <1>9, CoefficientsType
<1>12. f \in Vectors(size) /\ \A k \in 1 .. size : f[k] = Mul(q[k], b[k])
  BY <1>1, ProductsType
<1> HIDE DEF cw, f
<1>13. InnerProductOf(cw, b) = InnerProductOf(f, big)
  <2>1. ASSUME NEW k \in 1 .. size PROVE Mul(cw[k], b[k]) = Mul(f[k], big[k])
    <3> DEFINE i == big[k]
               j == q[k]
               l == b[k]
    <3>1. Mul(cw[k], b[k]) = Mul(Mul(i, j), l) /\ Mul(f[k], big[k]) = Mul(Mul(j, l), i)
      BY <1>9, <1>11, <1>12
    <3>2. i \in Int /\ j \in Int /\ l \in Int
      BY <1>8, Residues
    <3> HIDE DEF i, j, l
    <3>3. Mul(Mul(i, j), l) = Mul(Mul(j, i), l)
      BY <3>2, RingMul
    <3>4. Mul(Mul(j, i), l) = Mul(Mul(j, l), i)
      BY <3>2, RingMul
    <3> QED
      BY <3>1, <3>3, <3>4
  <2> QED
    BY <1>1, <1>6, <1>11, <1>12, <2>1, InnerSame
<1>14. InnerProductOf(f, big)
         = Add(Add(Mul(one, InnerProductOf(iom, big)), Mul(x[1], InnerProductOf(rl, big))),
               Mul(x[3], InnerProductOf(ar, big)))
  BY <1>3, <1>6, BlendInner
<1>15. Cut(big, n) = c
  <2>1. Cut(big, n) \in Vectors(n) /\ \A k \in 1 .. n : Cut(big, n)[k] = big[k]
    BY <1>1, <1>6, CutType
  <2>2. \A k \in 1 .. n : Cut(big, n)[k] = c[k]
    BY <1>1, <1>6, <1>7, <2>1
  <2> QED
    BY <1>1, <1>7, <2>1, <2>2, VectorsEqual
<1>16. ASSUME NEW s \in Vectors(n)
       PROVE  InnerProductOf(Resized(s, size), big) = InnerProductOf(s, c)
  <2> DEFINE t == Resized(s, size)
  <2>1. /\ t \in Vectors(size) /\ \A k \in 1 .. n : t[k] = s[k]
        /\ \A k \in (n + 1) .. size : t[k] = 0
    BY <1>1, ResizedType
  <2> HIDE DEF t
  <2>2. InnerProductOf(t, big) = InnerProductOf(Cut(t, n), Cut(big, n))
    BY <1>1, <1>6, <2>1, InnerPadded
  <2>3. Cut(t, n) \in Vectors(n) /\ \A k \in 1 .. n : Cut(t, n)[k] = t[k]
    BY <1>1, <2>1, CutType
  <2>4. Cut(t, n) = s
    <3>1. \A k \in 1 .. n : Cut(t, n)[k] = s[k]
      BY <2>1, <2>3
    <3> QED
      BY <1>1, <2>3, <3>1, VectorsEqual
  <2> QED
    BY <1>15, <2>2, <2>4 DEF t
<1>17. sum \in Vectors(n) /\ \A k \in 1 .. n : sum[k] = Add(R[k], la[k])
  BY <1>1, <1>2, Sum2Type
<1> HIDE DEF sum
<1>18. InnerProductOf(sum, c) = Add(InnerProductOf(R, c), InnerProductOf(la, c))
  BY <1>1, <1>2, <1>7, <1>17, InnerAdded
<1>19. InnerProductOf(rl, big) = InnerProductOf(sum, c)
       /\ InnerProductOf(ar, big) = InnerProductOf(rb, c)
  BY <1>1, <1>16, <1>17
<1> HIDE DEF rl, ar
<1>20. InnerProductOf(iom, big) \in Scalars
  BY <1>1, <1>2, <1>6, ProductsType
<1>21. Mul(one, InnerProductOf(iom, big)) = InnerProductOf(iom, big)
  BY <1>20, ResiduesAreIntegers, ScalarRules DEF one
<1>22. /\ At(iom) = InnerProductOf(iom, big) /\ At(R) = InnerProductOf(R, c)
       /\ At(la) = InnerProductOf(la, c) /\ At(rb) = InnerProductOf(rb, c)
  BY <1>1, <1>2, <1>6, <1>7
<1>23. Msm(W, b)[base]
         = Add(Add(At(iom), Mul(x[1], Add(At(R), At(la)))), Mul(x[3], At(rb)))
  BY <1>10, <1>13, <1>14, <1>18, <1>19, <1>21, <1>22 DEF cw
<1> QED
  BY <1>23 DEF At, W, b, iom, R, la, rb, h

\* What the commitment is made of at one base.
Shares(e) ==
  \A name \in {"x1", "x2", "x3", "blinding", "mBlinding", "oBlinding", "tBlinding", "p0",
               "gRho", "hLambda", "gLeft", "hRight", "gOutput", "gBlinding", "hBlinding"} :
    e[name] \in Scalars

\* The blindings cancel, and the rest sorts itself into the two vectors.
LEMMA Regrouped ==
  ASSUME NEW e, Shares(e), NEW s,
         s = Res((e.mBlinding * e.x1) + (e.oBlinding * e.x2) + (e.tBlinding * e.x3))
  PROVE  LET m == Add(Add(e.gLeft, e.hRight), Mul(e.blinding, e.mBlinding))
             o == Add(e.gOutput, Mul(e.blinding, e.oBlinding))
             t == Add(Add(e.gBlinding, e.hBlinding), Mul(e.blinding, e.tBlinding))
         IN  Add(Add(Add(Add(Mul(e.blinding, Negate(s)), e.p0),
                         Mul(Add(Add(e.gRho, e.hLambda), m), e.x1)),
                     Mul(o, e.x2)),
                 Mul(t, e.x3))
               = Add(Add(Add(Mul(e.x1, Add(e.gLeft, e.gRho)), Mul(e.x2, e.gOutput)),
                         Mul(e.x3, e.gBlinding)),
                     Add(Add(e.p0, Mul(e.x1, Add(e.hRight, e.hLambda))),
                         Mul(e.x3, e.hBlinding)))
<1> DEFINE x1 == e.x1
           x2 == e.x2
           x3 == e.x3
           B == e.blinding
           mb == e.mBlinding
           ob == e.oBlinding
           tb == e.tBlinding
           I == e.p0
           rho == e.gRho
           lam == e.hLambda
           gl == e.gLeft
           hr == e.hRight
           go == e.gOutput
           ga == e.gBlinding
           hb == e.hBlinding
           m == Add(Add(gl, hr), Mul(B, mb))
           o == Add(go, Mul(B, ob))
           t == Add(Add(ga, hb), Mul(B, tb))
           left == Add(Add(Add(Add(Mul(B, Negate(s)), I), Mul(Add(Add(rho, lam), m), x1)),
                           Mul(o, x2)),
                       Mul(t, x3))
           right == Add(Add(Add(Mul(x1, Add(gl, rho)), Mul(x2, go)), Mul(x3, ga)),
                        Add(Add(I, Mul(x1, Add(hr, lam))), Mul(x3, hb)))
<1>1. /\ x1 \in Scalars /\ x2 \in Scalars /\ x3 \in Scalars /\ B \in Scalars
      /\ mb \in Scalars /\ ob \in Scalars /\ tb \in Scalars /\ I \in Scalars
      /\ rho \in Scalars /\ lam \in Scalars /\ gl \in Scalars /\ hr \in Scalars
      /\ go \in Scalars /\ ga \in Scalars /\ hb \in Scalars
      /\ s = Res((mb * x1) + (ob * x2) + (tb * x3))
  BY DEF Shares
<1> HIDE DEF x1, x2, x3, B, mb, ob, tb, I, rho, lam, gl, hr, go, ga, hb
<1>2. /\ x1 \in Int /\ x2 \in Int /\ x3 \in Int /\ B \in Int
      /\ mb \in Int /\ ob \in Int /\ tb \in Int /\ I \in Int
      /\ rho \in Int /\ lam \in Int /\ gl \in Int /\ hr \in Int
      /\ go \in Int /\ ga \in Int /\ hb \in Int
      /\ x1 = Res(x1) /\ x2 = Res(x2) /\ x3 = Res(x3) /\ B = Res(B)
      /\ mb = Res(mb) /\ ob = Res(ob) /\ tb = Res(tb) /\ I = Res(I)
      /\ rho = Res(rho) /\ lam = Res(lam) /\ gl = Res(gl) /\ hr = Res(hr)
      /\ go = Res(go) /\ ga = Res(ga) /\ hb = Res(hb)
  BY <1>1, Residues
<1>3. \A i, j \in Int : /\ Add(Res(i), Res(j)) = Res(i + j) /\ i + j \in Int
                        /\ Mul(Res(i), Res(j)) = Res(i * j) /\ i * j \in Int
  BY Residues
<1> DEFINE mm == (gl + hr) + (B * mb)
           oo == go + (B * ob)
           tt == (ga + hb) + (B * tb)
           sigma == (mb * x1) + (ob * x2) + (tb * x3)
<1>4. m = Res(mm) /\ mm \in Int
  <2>1. Add(gl, hr) = Res(gl + hr) /\ gl + hr \in Int
    BY <1>2, <1>3
  <2>2. Mul(B, mb) = Res(B * mb) /\ B * mb \in Int
    BY <1>2, <1>3
  <2> QED
    BY <1>3, <2>1, <2>2
<1>5. o = Res(oo) /\ oo \in Int
  <2>1. Mul(B, ob) = Res(B * ob) /\ B * ob \in Int
    BY <1>2, <1>3
  <2> QED
    BY <1>2, <1>3, <2>1
<1>6. t = Res(tt) /\ tt \in Int
  <2>1. Add(ga, hb) = Res(ga + hb) /\ ga + hb \in Int
    BY <1>2, <1>3
  <2>2. Mul(B, tb) = Res(B * tb) /\ B * tb \in Int
    BY <1>2, <1>3
  <2> QED
    BY <1>3, <2>1, <2>2
<1>7. sigma \in Int /\ s = Res(sigma)
  <2>1. mb * x1 \in Int /\ ob * x2 \in Int /\ tb * x3 \in Int
    BY <1>2
  <2> QED
    BY <1>1, <2>1
<1> HIDE DEF m, o, t
<1> DEFINE minus == 0 - sigma
<1>8. Negate(s) = Res(minus) /\ minus \in Int
  <2>1. minus \in Int
    BY <1>7
  <2>2. Res(0) = 0 /\ s \in Int
    BY <1>7, ResiduesAreIntegers, Residues
  <2>3. Sub(Res(0), Res(sigma)) = Res(0 - sigma)
    BY <1>7, Residues
  <2> HIDE DEF sigma
  <2>4. Sub(0, s) = Negate(s)
    BY <2>2 DEF Sub, Negate
  <2> QED
    BY <1>7, <2>1, <2>2, <2>3, <2>4
<1> DEFINE c1 == (B * minus) + I
           c2 == ((rho + lam) + mm) * x1
           c3 == oo * x2
           c4 == tt * x3
           l1 == x1 * (gl + rho)
           l2 == x2 * go
           l3 == x3 * ga
           r1 == x1 * (hr + lam)
           r2 == x3 * hb
<1> HIDE DEF mm, oo, tt, sigma, minus
<1>9. left = Res(((c1 + c2) + c3) + c4) /\ c1 \in Int /\ c2 \in Int /\ c3 \in Int /\ c4 \in Int
  <2>1. Mul(B, Negate(s)) = Res(B * minus) /\ B * minus \in Int
    BY <1>2, <1>3, <1>8
  <2>2. Add(Mul(B, Negate(s)), I) = Res(c1) /\ c1 \in Int
    <3> DEFINE j == B * minus
    <3>1. Mul(B, Negate(s)) = Res(j) /\ j \in Int /\ c1 = j + I
      BY <2>1
    <3> HIDE DEF j, c1
    <3>2. Add(Res(j), Res(I)) = Res(j + I) /\ j + I \in Int
      BY <1>2, <1>3, <3>1
    <3> QED
      BY <1>2, <3>1, <3>2
  <2>3. Add(rho, lam) = Res(rho + lam) /\ rho + lam \in Int
    BY <1>2, <1>3
  <2>4. Add(Add(rho, lam), m) = Res((rho + lam) + mm) /\ (rho + lam) + mm \in Int
    BY <1>3, <1>4, <2>3
  <2>5. Mul(Add(Add(rho, lam), m), x1) = Res(c2) /\ c2 \in Int
    <3> DEFINE j == (rho + lam) + mm
    <3>1. Add(Add(rho, lam), m) = Res(j) /\ j \in Int /\ c2 = j * x1
      BY <2>4
    <3> HIDE DEF j, c2
    <3>2. Mul(Res(j), Res(x1)) = Res(j * x1) /\ j * x1 \in Int
      BY <1>2, <1>3, <3>1
    <3> QED
      BY <1>2, <3>1, <3>2
  <2>6. Mul(o, x2) = Res(c3) /\ c3 \in Int
    BY <1>2, <1>3, <1>5
  <2>7. Mul(t, x3) = Res(c4) /\ c4 \in Int
    BY <1>2, <1>3, <1>6
  <2> HIDE DEF c1, c2, c3, c4
  <2>8. Add(Res(c1), Res(c2)) = Res(c1 + c2) /\ c1 + c2 \in Int
    BY <1>3, <2>2, <2>5
  <2>9. Add(Res(c1 + c2), Res(c3)) = Res((c1 + c2) + c3) /\ (c1 + c2) + c3 \in Int
    BY <1>3, <2>6, <2>8
  <2>10. Add(Res((c1 + c2) + c3), Res(c4)) = Res(((c1 + c2) + c3) + c4)
    BY <1>3, <2>7, <2>9
  <2> QED
    BY <2>2, <2>5, <2>6, <2>7, <2>8, <2>9, <2>10
<1>10. right = Res(((l1 + l2) + l3) + ((I + r1) + r2))
       /\ l1 \in Int /\ l2 \in Int /\ l3 \in Int /\ r1 \in Int /\ r2 \in Int
  <2>1. Add(gl, rho) = Res(gl + rho) /\ gl + rho \in Int
    BY <1>2, <1>3
  <2>2. Mul(x1, Add(gl, rho)) = Res(l1) /\ l1 \in Int
    BY <1>2, <1>3, <2>1
  <2>3. Mul(x2, go) = Res(l2) /\ l2 \in Int
    BY <1>2, <1>3
  <2>4. Mul(x3, ga) = Res(l3) /\ l3 \in Int
    BY <1>2, <1>3
  <2>5. Add(hr, lam) = Res(hr + lam) /\ hr + lam \in Int
    BY <1>2, <1>3
  <2>6. Mul(x1, Add(hr, lam)) = Res(r1) /\ r1 \in Int
    BY <1>2, <1>3, <2>5
  <2>7. Mul(x3, hb) = Res(r2) /\ r2 \in Int
    BY <1>2, <1>3
  <2> HIDE DEF l1, l2, l3, r1, r2
  <2>8. Add(Res(l1), Res(l2)) = Res(l1 + l2) /\ l1 + l2 \in Int
    BY <1>3, <2>2, <2>3
  <2>9. Add(Res(l1 + l2), Res(l3)) = Res((l1 + l2) + l3) /\ (l1 + l2) + l3 \in Int
    BY <1>3, <2>4, <2>8
  <2>10. Add(I, Res(r1)) = Res(I + r1) /\ I + r1 \in Int
    BY <1>2, <1>3, <2>6
  <2>11. Add(Res(I + r1), Res(r2)) = Res((I + r1) + r2) /\ (I + r1) + r2 \in Int
    BY <1>3, <2>7, <2>10
  <2>12. Add(Res((l1 + l2) + l3), Res((I + r1) + r2))
           = Res(((l1 + l2) + l3) + ((I + r1) + r2))
    BY <1>3, <2>9, <2>11
  <2> QED
    BY <2>2, <2>3, <2>4, <2>6, <2>7, <2>8, <2>9, <2>10, <2>11, <2>12
<1>11. ((c1 + c2) + c3) + c4 = ((l1 + l2) + l3) + ((I + r1) + r2)
  <2> DEFINE bm == B * mb
             bo == B * ob
             bt == B * tb
             d1 == bm * x1
             d2 == bo * x2
             d3 == bt * x3
  <2>1. bm \in Int /\ bo \in Int /\ bt \in Int
    BY <1>2
  <2>2. c1 = I - d1 - d2 - d3
    <3> DEFINE p1 == mb * x1
               p2 == ob * x2
               p3 == tb * x3
    <3>1. p1 \in Int /\ p2 \in Int /\ p3 \in Int
      BY <1>2
    <3>2. sigma = p1 + p2 + p3
      BY DEF sigma
    <3>3. B * p1 = d1
      BY <1>2
    <3>4. B * p2 = d2
      BY <1>2
    <3>5. B * p3 = d3
      BY <1>2
    <3>6. d1 \in Int /\ d2 \in Int /\ d3 \in Int
      BY <1>2, <2>1
    <3> HIDE DEF p1, p2, p3, d1, d2, d3
    <3>7. minus = 0 - (p1 + p2 + p3)
      BY <3>2 DEF minus
    <3>8. B * minus = 0 - (B * p1) - (B * p2) - (B * p3)
      BY <1>2, <3>1, <3>7
    <3> QED
      BY <1>2, <3>3, <3>4, <3>5, <3>6, <3>8
  <2>3. mm = gl + hr + bm /\ oo = go + bo /\ tt = ga + hb + bt
    BY <1>2 DEF mm, oo, tt
  <2> HIDE DEF bm, bo, bt
  <2>4. c2 = (rho * x1) + (lam * x1) + (gl * x1) + (hr * x1) + d1
    BY <1>2, <2>1, <2>3
  <2>5. c3 = (go * x2) + d2
    BY <1>2, <2>1, <2>3
  <2>6. c4 = (ga * x3) + (hb * x3) + d3
    BY <1>2, <2>1, <2>3
  <2>7. l1 = (gl * x1) + (rho * x1) /\ r1 = (hr * x1) + (lam * x1)
    BY <1>2
  <2>8. l2 = go * x2 /\ l3 = ga * x3 /\ r2 = hb * x3
    BY <1>2
  <2> DEFINE v1 == rho * x1
             v2 == lam * x1
             v3 == gl * x1
             v4 == hr * x1
             v5 == go * x2
             v6 == ga * x3
             v7 == hb * x3
  <2>9. /\ v1 \in Int /\ v2 \in Int /\ v3 \in Int /\ v4 \in Int /\ v5 \in Int /\ v6 \in Int
        /\ v7 \in Int /\ d1 \in Int /\ d2 \in Int /\ d3 \in Int
    BY <1>2, <2>1
  <2>10. /\ c2 = v1 + v2 + v3 + v4 + d1 /\ c3 = v5 + d2 /\ c4 = v6 + v7 + d3
         /\ l1 = v3 + v1 /\ r1 = v4 + v2 /\ l2 = v5 /\ l3 = v6 /\ r2 = v7
    BY <2>4, <2>5, <2>6, <2>7, <2>8
  <2> HIDE DEF c1, c2, c3, c4, l1, l2, l3, r1, r2, d1, d2, d3, v1, v2, v3, v4, v5, v6, v7
  <2> QED
    BY <1>2, <2>2, <2>9, <2>10
<1> HIDE DEF c1, c2, c3, c4, l1, l2, l3, r1, r2, left, right
<1>12. left = right
  BY <1>9, <1>10, <1>11
<1> QED
  BY <1>12 DEF left, right, m, o, t, x1, x2, x3, B, mb, ob, tb, I, rho, lam, gl, hr, go, ga, hb

\* What the prover starts from fits together.
LEMMA MadeSetting ==
  ASSUME NEW gv, Typed(gv), NEW tape \in Tapes, NEW y \in Answered, NEW z \in Answered,
         NEW a \in Answered
  PROVE  LET r == Reduction(gv.circuit, y, z)
             p == MadePolynomial(gv, tape, y, z)
             x == Powers(a)
         IN  Setting(gv.circuit.committed, gv.circuit.internal, PaddedVars(gv.circuit), r,
                     gv.witness, MadeWires(gv, tape), p, MadeVectors(gv, tape, y, z, x), x)
<1> DEFINE circuit == gv.circuit
           witness == gv.witness
           m == circuit.committed
           n == circuit.internal
           size == PaddedVars(circuit)
           r == Reduction(circuit, y, z)
           w == MadeWires(gv, tape)
           p == MadePolynomial(gv, tape, y, z)
           x == Powers(a)
           v == MadeVectors(gv, tape, y, z, x)
<1>1. m \in Nat /\ n \in Nat /\ size \in Nat
  BY DEF Typed
<1>2. Weighed(r, m, n, size) /\ Wired(witness, w, m, n)
  BY MadeTyped
<1>3. p = PolynomialState(witness, r, w)
  BY DEF MadePolynomial
<1>4. v = IpaWitnessVectors(circuit, witness, r, w, p, x)
  BY DEF MadeVectors
<1>5. a \in Scalars
  BY DEF Answered
<1>6. x[1] \in Scalars /\ x[2] \in Scalars /\ x[3] \in Scalars
  BY <1>5, PowersOfChallenge
<1> HIDE DEF circuit, witness, r, w, p, x, v
<1>7. PolynomialVectors(p, witness, w, r, n)
  BY <1>1, <1>2, <1>3, PolynomialMade
<1>8. Blended(v, p, witness, w, r, x, n, size)
  BY <1>1, <1>2, <1>4, <1>6, <1>7, VectorsBlended
<1> QED
  BY <1>1, <1>2, <1>6, <1>7, <1>8 DEF Setting, circuit, witness, r, w, p, x, v

LEMMA WiresAt ==
  ASSUME NEW gv, Typed(gv), NEW tape \in Tapes, NEW base \in Bases
  PROVE  LET w == MadeWires(gv, tape)
             g == PointsOf(gv.setup.ipa.g)
             h == PointsOf(gv.setup.ipa.h)
             At(v, s) == Msm(v, s)[base]
             B == BasePoint(gv.setup.blinding)[base]
         IN  /\ w.m[base] = Add(Add(At(g, gv.witness.left), At(h, gv.witness.right)),
                                Mul(B, w.mBlinding))
             /\ w.o[base] = Add(At(g, gv.witness.output), Mul(B, w.outputBlinding))
             /\ w.mTilde[base] = Add(Add(At(g, w.leftBlinding), At(h, w.rightBlinding)),
                                     Mul(B, w.mTildeBlinding))
<1> DEFINE setup == gv.setup
           witness == gv.witness
           n == gv.circuit.internal
           w == MadeWires(gv, tape)
           g == PointsOf(setup.ipa.g)
           h == PointsOf(setup.ipa.h)
           Blinded(p, s) == Plus(p, Scale(BasePoint(setup.blinding), s))
<1>1. w = [leftBlinding |-> SubSeq(tape, 1, n), rightBlinding |-> SubSeq(tape, n + 1, 2 * n),
           mBlinding |-> tape[2 * n + 1], outputBlinding |-> tape[2 * n + 2],
           mTildeBlinding |-> tape[2 * n + 3],
           m |-> Blinded(Plus(Msm(g, witness.left), Msm(h, witness.right)), tape[2 * n + 1]),
           o |-> Blinded(Msm(g, witness.output), tape[2 * n + 2]),
           mTilde |-> Blinded(Plus(Msm(g, SubSeq(tape, 1, n)), Msm(h, SubSeq(tape, n + 1, 2 * n))),
                              tape[2 * n + 3])]
  BY DEF MadeWires, WireCommitments
<1> HIDE DEF w, g, h, n, setup, witness
<1>2. /\ w.m = Blinded(Plus(Msm(g, witness.left), Msm(h, witness.right)), w.mBlinding)
      /\ w.o = Blinded(Msm(g, witness.output), w.outputBlinding)
      /\ w.mTilde = Blinded(Plus(Msm(g, w.leftBlinding), Msm(h, w.rightBlinding)),
                            w.mTildeBlinding)
  <2> HIDE DEF Blinded
  <2> QED
    BY <1>1
<1>3. \A p, q : Plus(p, q)[base] = Add(p[base], q[base])
  BY DEF Plus
<1>4. \A p, s : Scale(p, s)[base] = Mul(p[base], s)
  BY DEF Scale
<1> QED
  BY <1>2, <1>3, <1>4 DEF w, g, h, setup, witness

\* The blinding of the commitment is the sum of the wires' blindings at x.
LEMMA STildeIs ==
  ASSUME NEW gv, Typed(gv), NEW tape \in Tapes, NEW a \in Answered
  PROVE  LET w == MadeWires(gv, tape)
             x == Powers(a)
         IN  MadeSTilde(gv, tape, x) =
               Res((w.mBlinding * x[1]) + (w.outputBlinding * x[2]) + (w.mTildeBlinding * x[3]))
<1> DEFINE w == MadeWires(gv, tape)
           x == Powers(a)
           i1 == w.mBlinding
           i2 == w.outputBlinding
           i3 == w.mTildeBlinding
           three == <<i1, i2, i3>>
           cut == Cut(x, 3)
           f == Products(three, cut)
<1>1. i1 \in Scalars /\ i2 \in Scalars /\ i3 \in Scalars
  <2>1. 1 \in Answered
    BY ResiduesAreIntegers DEF Answered
  <2> QED
    BY <2>1, MadeTyped
<1>2. a \in Scalars
  BY DEF Answered
<1>3. x \in Vectors(6) /\ x[1] \in Scalars /\ x[2] \in Scalars /\ x[3] \in Scalars
  BY <1>2, PowersOfChallenge
<1>4. MadeSTilde(gv, tape, x) = InnerProductOf(three, x)
  BY DEF MadeSTilde
<1> HIDE DEF w, x, i1, i2, i3
<1>5. ASSUME NEW j \in Nat, j = 3, NEW i \in Nat, i = 6
      PROVE  /\ InnerProductOf(three, x) = SumOf(f)
             /\ f \in Vectors(3)
             /\ f[1] = Mul(i1, x[1]) /\ f[2] = Mul(i2, x[2]) /\ f[3] = Mul(i3, x[3])
  <2>1. three = [k \in 1 .. j |-> three[k]] /\ \A k \in 1 .. j : three[k] \in Scalars
    BY <1>1, <1>5
  <2>2. three[1] = i1 /\ three[2] = i2 /\ three[3] = i3
    OBVIOUS
  <2> HIDE DEF three
  <2>3. three \in Vectors(j)
    BY <2>1, VectorsAre
  <2>4. x \in Vectors(i) /\ j <= i
    BY <1>3, <1>5
  <2>5. /\ InnerProductOf(three, x) = InnerProductOf(three, Cut(x, j)) /\ Cut(x, j) \in Vectors(j)
        /\ \A k \in 1 .. j : Cut(x, j)[k] = x[k]
    BY <2>3, <2>4, CutType
  <2>6. cut = Cut(x, j)
    BY <1>5
  <2> HIDE DEF cut
  <2>7. /\ f \in Vectors(j) /\ \A k \in 1 .. j : f[k] = Mul(three[k], cut[k])
        /\ InnerProductOf(three, cut) = SumOf(f)
    BY <2>3, <2>5, <2>6, ProductsType
  <2> HIDE DEF f
  <2>8. 1 \in 1 .. j /\ 2 \in 1 .. j /\ 3 \in 1 .. j
    BY <1>5
  <2> QED
    BY <1>5, <2>2, <2>5, <2>6, <2>7, <2>8
<1>6. /\ InnerProductOf(three, x) = SumOf(f) /\ f \in Vectors(3)
      /\ f[1] = Mul(i1, x[1]) /\ f[2] = Mul(i2, x[2]) /\ f[3] = Mul(i3, x[3])
  BY <1>5
<1> DEFINE x1 == x[1]
           x2 == x[2]
           x3 == x[3]
<1> HIDE DEF f, three
<1>7. SumOf(f) = Res(f[1] + f[2] + f[3])
  BY <1>6, SmallSums
<1>8. /\ i1 \in Int /\ i2 \in Int /\ i3 \in Int /\ x1 \in Int /\ x2 \in Int /\ x3 \in Int
      /\ i1 = Res(i1) /\ i2 = Res(i2) /\ i3 = Res(i3)
      /\ x1 = Res(x1) /\ x2 = Res(x2) /\ x3 = Res(x3)
  BY <1>1, <1>3, Residues
<1> HIDE DEF x1, x2, x3
<1> DEFINE d1 == i1 * x1
           d2 == i2 * x2
           d3 == i3 * x3
<1>9. f[1] = Res(d1) /\ f[2] = Res(d2) /\ f[3] = Res(d3)
      /\ d1 \in Int /\ d2 \in Int /\ d3 \in Int
  <2>1. Mul(Res(i1), Res(x1)) = Res(d1) /\ d1 \in Int
    BY <1>8, Residues
  <2>2. Mul(Res(i2), Res(x2)) = Res(d2) /\ d2 \in Int
    BY <1>8, Residues
  <2>3. Mul(Res(i3), Res(x3)) = Res(d3) /\ d3 \in Int
    BY <1>8, Residues
  <2> QED
    BY <1>6, <1>8, <2>1, <2>2, <2>3 DEF x1, x2, x3
<1> HIDE DEF d1, d2, d3
<1>10. Add(Add(Res(d1), Res(d2)), Res(d3)) = Res(d1 + d2 + d3)
  BY <1>9, ResiduesOf
<1>11. Add(Add(Res(d1), Res(d2)), Res(d3)) = Res(f[1] + f[2] + f[3])
  <2> DEFINE e1 == f[1]
             e2 == f[2]
             e3 == f[3]
  <2>1. e1 \in Int /\ e2 \in Int /\ e3 \in Int
        /\ e1 = Res(e1) /\ e2 = Res(e2) /\ e3 = Res(e3)
    <3>1. e1 \in Scalars /\ e2 \in Scalars /\ e3 \in Scalars
      BY <1>9, Residues
    <3> QED
      BY <3>1, Residues
  <2>2. e1 = Res(d1) /\ e2 = Res(d2) /\ e3 = Res(d3)
    BY <1>9
  <2> HIDE DEF e1, e2, e3
  <2>3. Add(Add(Res(e1), Res(e2)), Res(e3)) = Res(e1 + e2 + e3)
    BY <2>1, ResiduesOf
  <2> QED
    BY <2>1, <2>2, <2>3 DEF e1, e2, e3
<1> QED
  BY <1>4, <1>6, <1>7, <1>10, <1>11 DEF d1, d2, d3, x1, x2, x3, i1, i2, i3, w, x

\* The commitment the verifier puts together is the one of the prover's vectors.
LEMMA CommitmentMade ==
  ASSUME NEW gv, Typed(gv), NEW tape \in Tapes, NEW y \in Answered, NEW z \in Answered,
         NEW a \in Answered
  PROVE  LET x == Powers(a) IN
         CommitmentOf(gv.setup.ipa, Reduction(gv.circuit, y, z).yInv,
                      MadeVectors(gv, tape, y, z, x)) = MadeP(gv, tape, y, z, x)
<1> DEFINE setup == gv.setup
           witness == gv.witness
           m == gv.circuit.committed
           n == gv.circuit.internal
           size == PaddedVars(gv.circuit)
           r == Reduction(gv.circuit, y, z)
           w == MadeWires(gv, tape)
           p == MadePolynomial(gv, tape, y, z)
           x == Powers(a)
           v == MadeVectors(gv, tape, y, z, x)
           s == MadeSTilde(gv, tape, x)
           g == PointsOf(setup.ipa.g)
           h == PointsOf(setup.ipa.h)
           gw == LeftGenerators(setup.ipa, size)
           hw == WeightedHGenerators(setup.ipa, size, r.yInv)
           A == Msm(gw, v.a)
           B == Msm(hw, v.b)
           big == BigP(setup, r, w, s, x)
<1>1. /\ Pedersen(setup) /\ setup.ipa.g \in Seq(Bases) /\ setup.ipa.h \in Seq(Bases)
      /\ n \in Nat /\ m \in Nat
      /\ size \in Nat /\ size <= Len(setup.ipa.g) /\ size <= Len(setup.ipa.h)
      /\ witness.left \in Vectors(n) /\ witness.right \in Vectors(n)
      /\ witness.output \in Vectors(n)
  BY DEF Typed
<1>2. Setting(m, n, size, r, witness, w, p, v, x)
  BY MadeSetting
<1>3. /\ Weighed(r, m, n, size) /\ Wired(witness, w, m, n)
      /\ w.m \in Pts /\ w.o \in Pts /\ w.mTilde \in Pts
      /\ w.mBlinding \in Scalars /\ w.outputBlinding \in Scalars /\ w.mTildeBlinding \in Scalars
  BY MadeTyped
<1>4. v.a \in Vectors(size) /\ v.b \in Vectors(size)
  BY <1>2 DEF Setting, Blended
<1>5. Len(v.a) = size /\ Len(v.b) = size
  BY <1>1, <1>4, VectorType
<1>6. CommitmentOf(setup.ipa, r.yInv, v) = Plus(A, B)
  BY <1>5 DEF CommitmentOf
<1>7. s = Res((w.mBlinding * x[1]) + (w.outputBlinding * x[2]) + (w.mTildeBlinding * x[3]))
  BY STildeIs
<1>8. MadeP(gv, tape, y, z, x) = big
  BY DEF MadeP
<1>9. /\ r.yInvRho \in Vectors(n) /\ r.yInvLambda \in Vectors(n)
      /\ r.yInvOmegaMinusY \in Vectors(size)
  BY <1>1, <1>3, WeightsCut
<1>10. /\ w.leftBlinding \in Vectors(n) /\ w.rightBlinding \in Vectors(n) /\ n <= size
       /\ x[1] \in Scalars /\ x[2] \in Scalars /\ x[3] \in Scalars
  BY <1>2 DEF Setting, Weighed, Wired
<1>11. n <= Len(setup.ipa.g) /\ n <= Len(setup.ipa.h)
  <2>1. Len(setup.ipa.g) \in Nat /\ Len(setup.ipa.h) \in Nat
    BY <1>1
  <2> QED
    BY <1>1, <1>10, <2>1
<1> HIDE DEF setup, witness, m, n, size, r, w, p, x, v, s
<1>12. ASSUME NEW base \in Bases PROVE Plus(A, B)[base] = big[base]
  <2> DEFINE At(u, t) == Msm(u, t)[base]
             b == BasePoint(setup.blinding)[base]
             e == [x1 |-> x[1], x2 |-> x[2], x3 |-> x[3], blinding |-> b,
                   mBlinding |-> w.mBlinding, oBlinding |-> w.outputBlinding,
                   tBlinding |-> w.mTildeBlinding, p0 |-> At(h, r.yInvOmegaMinusY),
                   gRho |-> At(g, r.yInvRho), hLambda |-> At(h, r.yInvLambda),
                   gLeft |-> At(g, witness.left), hRight |-> At(h, witness.right),
                   gOutput |-> At(g, witness.output), gBlinding |-> At(g, w.leftBlinding),
                   hBlinding |-> At(h, w.rightBlinding)]
  <2>1. ASSUME NEW t \in Vectors(n) PROVE At(g, t) \in Scalars /\ At(h, t) \in Scalars
    <3>1. Msm(g, t) \in Pts
      BY <1>1, <1>11, MsmOfNames
    <3>2. Msm(h, t) \in Pts
      BY <1>1, <1>11, MsmOfNames
    <3> QED
      BY <3>1, <3>2 DEF Pts
  <2>2. At(h, r.yInvOmegaMinusY) \in Scalars
    <3>1. Msm(h, r.yInvOmegaMinusY) \in Pts
      BY <1>1, <1>9, MsmOfNames
    <3> QED
      BY <3>1 DEF Pts
  <2>3. b \in Scalars
    <3>1. BasePoint(setup.blinding) \in Pts
      BY <1>1, BasePointType DEF Pedersen
    <3> QED
      BY <3>1 DEF Pts
  <2>4. /\ w.m[base] = Add(Add(At(g, witness.left), At(h, witness.right)), Mul(b, w.mBlinding))
        /\ w.o[base] = Add(At(g, witness.output), Mul(b, w.outputBlinding))
        /\ w.mTilde[base] = Add(Add(At(g, w.leftBlinding), At(h, w.rightBlinding)),
                                Mul(b, w.mTildeBlinding))
    BY WiresAt DEF setup, witness, w
  <2>5. A[base] = Add(Add(Mul(x[1], Add(At(g, witness.left), At(g, r.yInvRho))),
                          Mul(x[2], At(g, witness.output))),
                      Mul(x[3], At(g, w.leftBlinding)))
    <3> DEFINE names == setup.ipa.g
               u == PointsOf(names)
    <3>1. names \in Seq(Bases) /\ size <= Len(names)
      BY <1>1
    <3> HIDE DEF names
    <3>2. Msm(u, v.a)[base]
            = Add(Add(Mul(x[1], Add(Msm(u, witness.left)[base], Msm(u, r.yInvRho)[base])),
                      Mul(x[2], Msm(u, witness.output)[base])),
                  Mul(x[3], Msm(u, w.leftBlinding)[base]))
      BY <1>2, <3>1, LeftAt
    <3>3. Msm(u, v.a) = Msm(PointsOf(SubSeq(names, 1, size)), v.a)
      BY <1>1, <1>4, <3>1, MsmOfNames
    <3>4. gw = PointsOf(SubSeq(names, 1, size))
      BY DEF LeftGenerators, names
    <3> QED
      BY <3>2, <3>3, <3>4 DEF names
  <2>6. B[base] = Add(Add(At(h, r.yInvOmegaMinusY),
                          Mul(x[1], Add(At(h, witness.right), At(h, r.yInvLambda)))),
                      Mul(x[3], At(h, w.rightBlinding)))
    <3> DEFINE ipa == setup.ipa
    <3>1. ipa.h \in Seq(Bases) /\ size <= Len(ipa.h)
      BY <1>1
    <3> HIDE DEF ipa
    <3>2. Msm(WeightedHGenerators(ipa, size, r.yInv), v.b)[base]
            = Add(Add(Msm(PointsOf(ipa.h), r.yInvOmegaMinusY)[base],
                      Mul(x[1], Add(Msm(PointsOf(ipa.h), witness.right)[base],
                                    Msm(PointsOf(ipa.h), r.yInvLambda)[base]))),
                  Mul(x[3], Msm(PointsOf(ipa.h), w.rightBlinding)[base]))
      BY <1>2, <3>1, RightAt
    <3> QED
      BY <3>2 DEF ipa
  <2>7. big[base]
          = Add(Add(Add(Add(Mul(b, Negate(s)), At(h, r.yInvOmegaMinusY)),
                        Mul(Add(Add(At(g, r.yInvRho), At(h, r.yInvLambda)), w.m[base]), x[1])),
                    Mul(w.o[base], x[2])),
                Mul(w.mTilde[base], x[3]))
    <3>1. \A u, t : Plus(u, t)[base] = Add(u[base], t[base])
      BY DEF Plus
    <3>2. \A u, t : Scale(u, t)[base] = Mul(u[base], t)
      BY DEF Scale
    <3> HIDE DEF g, h
    <3>3. P0(setup, r) = Msm(h, r.yInvOmegaMinusY)
          /\ P1(setup, r) = Plus(Msm(g, r.yInvRho), Msm(h, r.yInvLambda))
      BY DEF P0, P1, g, h
    <3> QED
      BY <3>1, <3>2, <3>3 DEF BigP
  <2>8. Plus(A, B)[base] = Add(A[base], B[base])
    BY DEF Plus
  <2> HIDE DEF At, b, A, B, g, h
  <2>9. /\ e.x1 = x[1] /\ e.x2 = x[2] /\ e.x3 = x[3] /\ e.blinding = b
        /\ e.mBlinding = w.mBlinding /\ e.oBlinding = w.outputBlinding
        /\ e.tBlinding = w.mTildeBlinding /\ e.p0 = At(h, r.yInvOmegaMinusY)
        /\ e.gRho = At(g, r.yInvRho) /\ e.hLambda = At(h, r.yInvLambda)
        /\ e.gLeft = At(g, witness.left) /\ e.hRight = At(h, witness.right)
        /\ e.gOutput = At(g, witness.output) /\ e.gBlinding = At(g, w.leftBlinding)
        /\ e.hBlinding = At(h, w.rightBlinding)
    OBVIOUS
  <2> HIDE DEF e
  <2>10. Shares(e)
    <3>1. /\ At(g, r.yInvRho) \in Scalars /\ At(h, r.yInvLambda) \in Scalars
          /\ At(g, witness.left) \in Scalars /\ At(h, witness.right) \in Scalars
          /\ At(g, witness.output) \in Scalars /\ At(g, w.leftBlinding) \in Scalars
          /\ At(h, w.rightBlinding) \in Scalars
      BY <1>1, <1>9, <1>10, <2>1
    <3> QED
      BY <1>3, <1>10, <2>2, <2>3, <2>9, <3>1 DEF Shares
  <2>11. s = Res((e.mBlinding * e.x1) + (e.oBlinding * e.x2) + (e.tBlinding * e.x3))
    BY <1>7, <2>9
  <2>12. Add(Add(Add(Add(Mul(e.blinding, Negate(s)), e.p0),
                     Mul(Add(Add(e.gRho, e.hLambda),
                             Add(Add(e.gLeft, e.hRight), Mul(e.blinding, e.mBlinding))), e.x1)),
                 Mul(Add(e.gOutput, Mul(e.blinding, e.oBlinding)), e.x2)),
             Mul(Add(Add(e.gBlinding, e.hBlinding), Mul(e.blinding, e.tBlinding)), e.x3))
           = Add(Add(Add(Mul(e.x1, Add(e.gLeft, e.gRho)), Mul(e.x2, e.gOutput)),
                     Mul(e.x3, e.gBlinding)),
                 Add(Add(e.p0, Mul(e.x1, Add(e.hRight, e.hLambda))),
                     Mul(e.x3, e.hBlinding)))
    BY <2>10, <2>11, Regrouped
  <2> QED
    BY <2>4, <2>5, <2>6, <2>7, <2>8, <2>9, <2>12
<1>13. Plus(A, B) = [base \in Bases |-> Plus(A, B)[base]]
       /\ big = [base \in Bases |-> big[base]]
  <2>1. \A u, t : Plus(u, t) = [base \in Bases |-> Plus(u, t)[base]]
    BY DEF Plus
  <2>2. \E u, t : big = Plus(u, t)
    BY DEF BigP
  <2> QED
    BY <2>1, <2>2
<1>14. Plus(A, B) = big
  <2> HIDE DEF A, B, big
  <2> QED
    BY <1>12, <1>13
<1> QED
  BY <1>6, <1>8, <1>14 DEF setup, r, v, x

\* The inner-product proof of a prover with a witness can always be made.
LEMMA AlwaysFits ==
  ASSUME NEW gv, Typed(gv), WitnessSatisfied(gv.circuit, gv.witness), NEW tape \in Tapes,
         NEW y \in Answered, NEW z \in Answered, NEW a \in Answered
  PROVE  Fits(gv, tape, y, z, Powers(a))
<1> DEFINE circuit == gv.circuit
           ipa == gv.setup.ipa
           witness == gv.witness
           m == circuit.committed
           n == circuit.internal
           size == PaddedVars(circuit)
           r == Reduction(circuit, y, z)
           w == MadeWires(gv, tape)
           p == PolynomialState(witness, r, w)
           x == Powers(a)
           v == MadeVectors(gv, tape, y, z, x)
           claim == MadeClaim(gv, tape, y, z, x)
<1>1. /\ ipa.g \in Seq(Bases) /\ ipa.h \in Seq(Bases) /\ CircuitTyped(circuit)
      /\ m \in Nat /\ n \in Nat /\ size \in Nat /\ size <= Len(ipa.g) /\ size <= Len(ipa.h)
      /\ witness.values \in Vectors(m)
      /\ witness.left \in Vectors(n) /\ witness.right \in Vectors(n)
      /\ witness.output \in Vectors(n)
      /\ \A k \in 1 .. n : witness.output[k] = Mul(witness.left[k], witness.right[k])
  BY DEF Typed
<1>2. y \in Scalars \ {0} /\ z \in Scalars /\ a \in Scalars
  BY DEF Answered
<1>3. MadePolynomial(gv, tape, y, z) = p
  BY DEF MadePolynomial
<1>4. Setting(m, n, size, r, witness, w, p, v, x)
  BY <1>3, MadeSetting
<1>5. Balanced(witness, r)
  BY <1>1, <1>2, BalancedMade
<1>6. CommitmentOf(ipa, r.yInv, v) = MadeP(gv, tape, y, z, x)
  BY CommitmentMade
<1>7. MadeTX(gv, tape, y, z, x) = InnerProductOf(p.t, x)
  BY <1>3 DEF MadeTX
<1>8. claim = IpaClaimOf(circuit, r, MadeP(gv, tape, y, z, x), MadeTX(gv, tape, y, z, x))
  BY DEF MadeClaim
<1>9. size > 0 /\ IsPowerOfTwo(size)
  BY <1>1, PaddedMade
<1>10. Fits(gv, tape, y, z, x) <=> {claim} = NewWithClaim(ipa, r.yInv, v)
  BY DEF Fits
<1> HIDE DEF ipa, r, w, v, x, claim
<1>11. /\ Weighed(r, m, n, size) /\ Wired(witness, w, m, n)
       /\ Blended(v, p, witness, w, r, x, n, size)
  BY <1>4 DEF Setting
<1>12. InnerProductOf(v.a, v.b) = InnerProductOf(p.t, x)
  BY <1>1, <1>2, <1>5, <1>11, ProductMade DEF x
<1>13. v.a \in Vectors(size)
  BY <1>11 DEF Blended
<1>14. Len(v.a) = size
  BY <1>1, <1>13, VectorType
<1>15. SupportsLen(ipa, size)
  <2>1. Len(ipa.g) \in Nat /\ Len(ipa.h) \in Nat
    BY <1>1
  <2> QED
    BY <1>1, <1>9, <2>1 DEF SupportsLen
<1>16. {claim} = NewWithClaim(ipa, r.yInv, v)
  BY <1>6, <1>7, <1>8, <1>12, <1>14, <1>15 DEF NewWithClaim, IpaClaimOf
<1> QED
  BY <1>10, <1>16 DEF x

\* What the prover made, unchanged, passes the equations.
LEMMA MadeChecks ==
  ASSUME NEW gv, Typed(gv), NEW tape \in Tapes, NEW y \in Answered, NEW z \in Answered,
         NEW a \in Answered
  PROVE  Checks(Made(gv, tape, y, z, Powers(a)), Reduction(gv.circuit, y, z), Powers(a))
<1> DEFINE setup == gv.setup
           circuit == gv.circuit
           claims == gv.claim
           r == Reduction(circuit, y, z)
           w == MadeWires(gv, tape)
           wm == w.m
           wo == w.o
           wt == w.mTilde
           x == Powers(a)
           tBig == MadeT(gv, tape, y, z)
           s == MadeSTilde(gv, tape, x)
           tX == MadeTX(gv, tape, y, z, x)
           b == InnerProductOf(MadeBlindings(gv, tape, y, z), x)
           p == MadeP(gv, tape, y, z, x)
           ipa == setup.ipa
           claim == MadeClaim(gv, tape, y, z, x)
           made == Made(gv, tape, y, z, x)
<1>1. CommitValue(setup, tX, b) = TRight(setup, claims, r, tBig, x)
  BY MadeEquation
<1>2. p = BigP(setup, r, w, s, x) /\ claim = IpaClaimOf(circuit, r, p, tX)
  BY DEF MadeP, MadeClaim
<1>3. made = Package(setup, circuit, claims, wm, wo, wt, tBig, s, tX, b, p, ipa, claim)
  BY DEF Made
<1>4. BigP(setup, r, w, s, x) = BigP(setup, r, [m |-> wm, o |-> wo, mTilde |-> wt], s, x)
  BY DEF BigP
<1>5. ipa = setup.ipa
  OBVIOUS
<1> HIDE DEF setup, circuit, claims, wm, wo, wt, tBig, s, tX, b, p, ipa, claim, made, x, r, w
<1>6. /\ made.setup = setup /\ made.circuit = circuit /\ made.claim = claims
      /\ made.proof.wires = [m |-> wm, o |-> wo, mTilde |-> wt]
      /\ made.proof.tBig = tBig /\ made.proof.sTilde = s /\ made.proof.tX = tX
      /\ made.proof.tTildeX = b /\ made.proof.p = p
  BY <1>3 DEF Package
<1>7. made.proof.ipa = [setup |-> ipa, claim |-> claim]
  BY <1>3 DEF Package
<1>8. Checks(made, r, x)
  BY <1>1, <1>2, <1>4, <1>5, <1>6, <1>7 DEF Checks
<1> QED
  BY <1>8 DEF made, r, x, circuit

LEMMA Completes == IInv => ProofsComplete
<1> SUFFICES ASSUME IInv PROVE ProofsComplete
  OBVIOUS
<1>1. Provable => Typed(given) /\ WitnessSatisfied(given.circuit, given.witness)
  BY GivenTyped DEF IInv, Provable
<1>2. ASSUME Provable PROVE prover.phase # "refused"
  <2> SUFFICES ASSUME prover.phase = "refused" PROVE FALSE
    OBVIOUS
  <2>1. PICK tape \in Tapes, y \in Answered, z \in Answered, a \in Answered :
          ~Fits(given, tape, y, z, Powers(a))
    BY <1>2 DEF IInv, RefusalInv
  <2> QED
    BY <1>1, <1>2, <2>1, AlwaysFits
<1>3. ASSUME ~Provable PROVE prover.phase \in {"idle", "refused"}
  BY <1>3 DEF IInv, ProverInv
<1>4. ASSUME received # Idle, received = sent
      PROVE  verifier.phase \notin {"refused", "rejected"}
  <2>1. Provable /\ \E tape \in Tapes, y, z, a \in Answered : Finished(prover, sent, tape, y, z, a)
    BY <1>4 DEF IInv, ProverInv
  <2>2. PICK tape \in Tapes, y \in Answered, z \in Answered, a \in Answered :
          Finished(prover, sent, tape, y, z, a)
    BY <2>1
  <2> DEFINE w == MadeWires(given, tape)
             tBig == MadeT(given, tape, y, z)
             x == Powers(a)
             opening == OpeningOf(given, w)
  <2>3. received = Made(given, tape, y, z, x)
    BY <1>4, <2>2 DEF Finished
  <2>4. /\ received.setup = given.setup /\ received.circuit = given.circuit
        /\ received.claim = given.claim
        /\ received.proof.wires.m = w.m /\ received.proof.wires.o = w.o
        /\ received.proof.wires.mTilde = w.mTilde /\ received.proof.tBig = tBig
    <3> DEFINE wm == w.m
               wo == w.o
               wt == w.mTilde
               s == MadeSTilde(given, tape, x)
               tX == MadeTX(given, tape, y, z, x)
               b == InnerProductOf(MadeBlindings(given, tape, y, z), x)
               p == MadeP(given, tape, y, z, x)
               ipa == given.setup.ipa
               claim == MadeClaim(given, tape, y, z, x)
    <3>1. received = Package(given.setup, given.circuit, given.claim, wm, wo, wt, tBig, s, tX, b,
                             p, ipa, claim)
      BY <2>3 DEF Made
    <3> HIDE DEF wm, wo, wt, tBig, s, tX, b, p, ipa, claim
    <3>2. /\ received.setup = given.setup /\ received.circuit = given.circuit
          /\ received.claim = given.claim
          /\ received.proof.wires = [m |-> wm, o |-> wo, mTilde |-> wt]
          /\ received.proof.tBig = tBig
      BY <3>1 DEF Package
    <3> QED
      BY <3>2 DEF wm, wo, wt
  <2>5. verifier.phase # "refused"
    <3>1. /\ given.claim = [k \in 1 .. given.circuit.committed |->
                              CommitValue(given.setup, given.witness.values[k],
                                          given.witness.blinding[k])]
          /\ given.circuit.committed \in Nat
      BY <1>1, <2>1 DEF Typed
    <3>2. Len(given.claim) = given.circuit.committed
      BY <3>1
    <3>3. Acceptable(received.setup, received.circuit, received.claim)
      BY <2>1, <2>4, <3>2 DEF Acceptable, Provable
    <3> QED
      BY <3>3 DEF IInv, VerifierInv
  <2>6. ASSUME verifier.phase = "rejected" PROVE FALSE
    <3>1. PICK y2 \in Answered, z2 \in Answered :
            /\ Read(verifier, received, y2, z2)
            /\ \E a2 \in Answered : Judged(verifier, received, y2, z2, a2)
      BY <2>6 DEF IInv, VerifierInv
    <3>2. PICK a2 \in Answered : Judged(verifier, received, y2, z2, a2)
      BY <3>1
    <3>3. OpeningOf(received, received.proof.wires) = opening
      <4> HIDE DEF w, tBig
      <4> QED
        BY <2>4 DEF OpeningOf, CircuitOpening
    <3>4. Drew(oracle, opening, y, z) /\ Drew(oracle, opening, y2, z2)
      BY <2>2, <3>1, <3>3 DEF Finished, Read
    <3>5. y2 = y /\ z2 = z
      <4> HIDE DEF opening
      <4> QED
        BY <3>4, DrewOnce
    <3>6. a2 = a
      <4> DEFINE u == Polynomial(opening, y, z, tBig)
      <4>1. oracle[<<u, "x">>] = a
        BY <2>2 DEF Finished
      <4>2. oracle[<<u, "x">>] = a2
        BY <2>4, <3>2, <3>3, <3>5 DEF Judged
      <4> QED
        BY <4>1, <4>2
    <3>7. ~Checks(received, Reduction(given.circuit, y, z), x)
      BY <2>4, <2>6, <3>2, <3>5, <3>6 DEF Judged
    <3>8. Checks(received, Reduction(given.circuit, y, z), x)
      BY <1>1, <2>1, <2>3, MadeChecks
    <3> QED
      BY <3>7, <3>8
  <2> QED
    BY <2>5, <2>6
<1> QED
  BY <1>2, <1>3, <1>4 DEF ProofsComplete

\* Whoever calls prove with a true claim gets a proof, and verify accepts it, whatever the
\* challenges and the random blindings; with anything else prove fails
\* (circuit.rs:354-410, 447-522, 924-1055).
THEOREM CircuitComplete == Spec => []ProofsComplete
<1>1. Spec => []IInv
  BY Invariance
<1> QED
  BY <1>1, Completes, PTL

=============================================================================
