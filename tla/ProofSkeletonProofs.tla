------------------------- MODULE ProofSkeletonProofs -------------------------
(***************************************************************************)
(* Proofs about ProofSkeleton, for every field, curve and agenda: two      *)
(* halves that share their commitments are about one point, an honest      *)
(* prover gets a proof that verifies, and a batch gets the verdict of its  *)
(* first bad member.  And about MaskTraces, for every case: a point has    *)
(* one trace that is accepted, in either view.  And about Codecs, for all  *)
(* values and cells: what is written is read back, and what is read is     *)
(* what is written.                                                        *)
(***************************************************************************)
EXTENDS ProofSkeleton, MaskTraces, Codecs, ProtocolTheorems, SequenceTheorems

----------------------------------------------------------------------------
(* Commitments *)

BlindingGenerator == DeriveCircuitGenerator(CircuitDomain, "circuit-blinding")

\* Of all generators the circuits' setups commit values and blindings to these.
LEMMA SetupGenerators ==
  ASSUME NEW circuit
  PROVE  /\ SetupFor(circuit).value = PallasGenerator
         /\ SetupFor(circuit).blinding = BlindingGenerator
         /\ PallasGenerator \in Bases /\ BlindingGenerator \in Bases
         /\ PallasGenerator # BlindingGenerator
<1>1. PallasGenerator[2] # BlindingGenerator[2]
  BY DEF PallasGenerator, BlindingGenerator, DeriveCircuitGenerator
<1> QED
  BY <1>1, AgendaAssumption DEF SetupFor, CircuitSetup, BlindingGenerator

LEMMA TimesZeroAndOne ==
  ASSUME NEW s \in Scalars
  PROVE  /\ Mul(1, s) = s /\ Mul(0, s) = 0 /\ Mul(1, 0) = 0 /\ Mul(0, 0) = 0
         /\ Add(s, 0) = s
<1>1. s \in Int /\ 1 * s = s /\ 0 * s = 0 /\ s + 0 = s /\ 1 * 0 = 0 /\ 0 * 0 = 0
  BY ResiduesAreIntegers
<1>2. s % P = s /\ 0 % P = 0
  BY RemainderOfResidue, FieldAssumption DEF Scalars
<1> QED
  BY <1>1, <1>2 DEF Mul, Add

\* A commitment can be opened to one value only.
LEMMA Binding ==
  ASSUME NEW circuit, NEW v \in Scalars, NEW b \in Scalars
  PROVE  CommitValue(SetupFor(circuit), v, b)[PallasGenerator] = v
<1> DEFINE p == Scale(BasePoint(PallasGenerator), v)
           q == Scale(BasePoint(BlindingGenerator), b)
<1>1. p[PallasGenerator] = Mul(1, v)
  BY SetupGenerators DEF Scale, BasePoint, NoPoint
<1>2. q[PallasGenerator] = Mul(0, b)
  BY SetupGenerators DEF Scale, BasePoint, NoPoint
<1>3. CommitValue(SetupFor(circuit), v, b) = Plus(p, q)
  BY SetupGenerators DEF CommitValue
<1>4. Plus(p, q)[PallasGenerator] = Add(p[PallasGenerator], q[PallasGenerator])
  BY SetupGenerators DEF Plus
<1> QED
  BY <1>1, <1>2, <1>3, <1>4, TimesZeroAndOne

\* The commitments do not depend on which circuit's setup they are made under.
LEMMA SameCommitments ==
  ASSUME NEW circuit, NEW other, NEW v, NEW b
  PROVE  CommitValue(SetupFor(circuit), v, b) = CommitValue(SetupFor(other), v, b)
  BY SetupGenerators DEF CommitValue

\* Without a blinding the commitment is the mask point.
LEMMA Unblinded ==
  ASSUME NEW circuit, NEW m \in Scalars
  PROVE  CommitValue(SetupFor(circuit), m, 0) = MaskPoint(m)
<1> DEFINE p == Scale(BasePoint(PallasGenerator), m)
           q == Scale(BasePoint(BlindingGenerator), 0)
<1>1. CommitValue(SetupFor(circuit), m, 0) = Plus(p, q)
  BY SetupGenerators DEF CommitValue
<1>2. ASSUME NEW base \in Bases
      PROVE  Add(p[base], q[base]) = p[base]
  <2>1. p[base] = Mul(IF base = PallasGenerator THEN 1 ELSE 0, m)
    BY SetupGenerators DEF Scale, BasePoint, NoPoint
  <2>2. q[base] = Mul(IF base = BlindingGenerator THEN 1 ELSE 0, 0)
    BY SetupGenerators DEF Scale, BasePoint, NoPoint
  <2>3. p[base] \in Scalars /\ q[base] = 0
    BY <2>1, <2>2, TimesZeroAndOne, FieldAssumption DEF Scalars
  <2> QED
    BY <2>3, TimesZeroAndOne
<1>3. p = [base \in Bases |-> p[base]]
  BY DEF Scale
<1>4. Plus(p, q) = p
  BY <1>2, <1>3 DEF Plus
<1> QED
  BY <1>1, <1>4 DEF MaskPoint

----------------------------------------------------------------------------
(* Bytes *)

Bytes == 0 .. (ByteBase - 1)

LEMMA ByteFacts ==
  /\ ByteBase \in Nat /\ ByteBase > 1 /\ ByteBase \in Int
  /\ Bytes \subseteq Nat /\ Bytes \subseteq Scalars
  /\ 0 \in Bytes /\ 1 \in Bytes /\ 2 \in Bytes
  BY BytesAssumption, FieldAssumption DEF Bytes, Scalars

LEMMA BytesAreNumbers ==
  ASSUME NEW s \in Seq(Bytes)
  PROVE  s \in Seq(Nat) /\ s \in Seq(Int)
<1>1. \A k \in 1 .. Len(s) : s[k] \in Bytes
  OBVIOUS
<1>2. \A k \in 1 .. Len(s) : s[k] \in Nat
  BY <1>1, ByteFacts
<1>3. Len(s) \in Nat /\ s = [k \in 1 .. Len(s) |-> s[k]]
  OBVIOUS
<1> QED
  BY <1>2, <1>3

LEMMA Quotient ==
  ASSUME NEW v \in Nat
  PROVE  /\ v % ByteBase \in Bytes /\ v \div ByteBase \in Nat
         /\ v = (v \div ByteBase) * ByteBase + (v % ByteBase)
<1> DEFINE q == v \div ByteBase
           r == v % ByteBase
<1>1. v \in Int /\ ByteBase \in Nat /\ ByteBase > 1
  BY ByteFacts
<1>2. r \in 0 .. (ByteBase - 1) /\ q \in Int /\ v = ByteBase * q + r
  BY <1>1, Remainder
<1> HIDE DEF q, r
<1>3. ~(q <= -1)
  <2>1. ASSUME q <= -1 PROVE ByteBase * q <= -ByteBase
    BY <1>1, <1>2, <2>1
  <2> QED
    BY <1>1, <1>2, <2>1
<1>4. q \in Nat /\ v = q * ByteBase + r
  BY <1>1, <1>2, <1>3
<1> QED
  BY <1>2, <1>4 DEF q, r, Bytes

\* r[k] is what is left of a number before its k-th digit is written.
LeftOver(r, n, len) ==
  /\ r \in [1 .. (len + 1) -> Nat]
  /\ r[1] = n
  /\ \A k \in 1 .. len :
       r[k + 1] = r[k] \div ByteBase /\ Digits(n, len)[k] = r[k] % ByteBase

LEMMA DigitsFacts ==
  ASSUME NEW n \in Nat, NEW len \in Nat
  PROVE  /\ Digits(n, len) \in Seq(Bytes) /\ Len(Digits(n, len)) = len
         /\ \E r : LeftOver(r, n, len)
<1> DEFINE Eq(h) == h = [k \in 1 .. len |-> IF k = 1 THEN n ELSE h[k - 1] \div ByteBase]
           rest == CHOOSE h : Eq(h)
           step == [k \in 1 .. len |-> [v \in Nat |-> v \div ByteBase]]
           r == [k \in 1 .. (len + 1) |-> IF k = 1 THEN n ELSE rest[k - 1] \div ByteBase]
<1>1. Digits(n, len) = [k \in 1 .. len |-> rest[k] % ByteBase]
  BY DEF Digits
<1>2. \E h : Eq(h)
  <2>1. step \in [1 .. len -> [Nat -> Nat]]
    BY Quotient
  <2> HIDE DEF step
  <2>2. PICK f : Iterates(f, len, Nat, n, step)
    BY <2>1, Iteration
  <2> DEFINE h == [k \in 1 .. len |-> f[k - 1]]
  <2>3. ASSUME NEW k \in 1 .. len PROVE h[k] = IF k = 1 THEN n ELSE h[k - 1] \div ByteBase
    <3>1. CASE k = 1
      BY <3>1, <2>2 DEF Iterates
    <3>2. CASE k # 1
      <4>1. k - 1 \in 1 .. len /\ (k - 1) - 1 \in 0 .. len
        BY <3>2
      <4>2. f[(k - 1) - 1] \in Nat
        BY <2>2, <4>1 DEF Iterates
      <4>3. f[k - 1] = step[k - 1][f[(k - 1) - 1]]
        BY <2>2, <4>1 DEF Iterates
      <4> QED
        BY <3>2, <4>1, <4>2, <4>3 DEF step
    <3> QED
      BY <3>1, <3>2
  <2> HIDE DEF Eq
  <2>4. h = [k \in 1 .. len |-> h[k]]
    OBVIOUS
  <2> HIDE DEF h
  <2>5. h = [k \in 1 .. len |-> IF k = 1 THEN n ELSE h[k - 1] \div ByteBase]
    BY <2>3, <2>4
  <2> QED
    BY <2>5 DEF Eq
<1>3. Eq(rest)
  BY <1>2
<1>4. \A k \in 1 .. len : rest[k] = IF k = 1 THEN n ELSE rest[k - 1] \div ByteBase
  <2> HIDE DEF rest
  <2> QED
    BY <1>3
<1> HIDE DEF rest
<1> DEFINE N == {k \in Nat : k <= len => r[k + 1] \in Nat}
<1>5. Nat \subseteq N
  <2>1. 0 \in N
    OBVIOUS
  <2>2. ASSUME NEW k \in N PROVE k + 1 \in N
    <3> SUFFICES ASSUME k + 1 <= len PROVE r[(k + 1) + 1] \in Nat
      OBVIOUS
    <3>1. /\ k + 1 \in 1 .. len /\ (k + 1) + 1 \in 1 .. (len + 1)
          /\ (k + 1) + 1 # 1 /\ ((k + 1) + 1) - 1 = k + 1
      OBVIOUS
    <3>2. r[(k + 1) + 1] = rest[k + 1] \div ByteBase /\ r[k + 1] = rest[k + 1]
      BY <1>4, <3>1
    <3>3. r[k + 1] \in Nat
      OBVIOUS
    <3> QED
      BY <3>2, <3>3, Quotient
  <2>3. N \in SUBSET Nat
    OBVIOUS
  <2> HIDE DEF N
  <2> QED
    BY <2>1, <2>2, <2>3, Induct
<1>6. \A k \in 1 .. (len + 1) : r[k] \in Nat
  <2> TAKE k \in 1 .. (len + 1)
  <2>1. k - 1 \in Nat /\ k - 1 <= len /\ (k - 1) + 1 = k
    OBVIOUS
  <2>2. k - 1 \in N
    BY <1>5, <2>1
  <2> HIDE DEF r
  <2> QED
    BY <2>1, <2>2
<1>7. \A k \in 1 .. len : r[k] = rest[k] /\ r[k + 1] = rest[k] \div ByteBase
  BY <1>4
<1>8. \A k \in 1 .. len : Digits(n, len)[k] = r[k] % ByteBase /\ r[k] % ByteBase \in Bytes
  <2> HIDE DEF r
  <2> TAKE k \in 1 .. len
  <2>1. Digits(n, len)[k] = r[k] % ByteBase
    BY <1>1, <1>7
  <2>2. r[k] \in Nat
    BY <1>6
  <2> QED
    BY <2>1, <2>2, Quotient
<1>9. r \in [1 .. (len + 1) -> Nat] /\ r[1] = n
  BY <1>6
<1> HIDE DEF r
<1>10. LeftOver(r, n, len)
  BY <1>7, <1>8, <1>9 DEF LeftOver
<1>11. Digits(n, len) = [k \in 1 .. len |-> Digits(n, len)[k]]
  BY <1>1
<1> DEFINE d == Digits(n, len)
<1>12. \A k \in 1 .. len : d[k] \in Bytes
  BY <1>8
<1>13. d = [k \in 1 .. len |-> d[k]]
  BY <1>11
<1> HIDE DEF d
<1>14. d \in Seq(Bytes) /\ Len(d) = len
  BY <1>12, <1>13
<1> QED
  BY <1>10, <1>14 DEF d

\* w[k] is the number of numbers of k bytes.
PlaceValues(w, len) ==
  /\ w \in [0 .. len -> Nat]
  /\ w[0] = 1 /\ w[len] = Capacity(len)
  /\ \A k \in 1 .. len : w[k] = ByteBase * w[k - 1]

LEMMA CapacityFacts ==
  ASSUME NEW len \in Nat
  PROVE  \E w : PlaceValues(w, len)
<1> DEFINE Eq(h) == h = [k \in 0 .. len |-> IF k = 0 THEN 1 ELSE ByteBase * h[k - 1]]
           count == CHOOSE h : Eq(h)
           step == [k \in 1 .. len |-> [v \in Nat |-> ByteBase * v]]
<1>1. Capacity(len) = count[len]
  BY DEF Capacity
<1>2. step \in [1 .. len -> [Nat -> Nat]]
  BY ByteFacts
<1>3. PICK f : Iterates(f, len, Nat, 1, step)
  <2> HIDE DEF step
  <2> QED
    BY <1>2, Iteration
<1>4. /\ f \in [0 .. len -> Nat] /\ f[0] = 1
      /\ \A k \in 1 .. len : f[k] = ByteBase * f[k - 1]
  <2>1. \A k \in 1 .. len : k - 1 \in 0 .. len
    OBVIOUS
  <2>2. f \in [0 .. len -> Nat] /\ f[0] = 1 /\ \A k \in 1 .. len : f[k] = step[k][f[k - 1]]
    BY <1>3 DEF Iterates
  <2> QED
    BY <2>1, <2>2
<1>5. Eq(f)
  <2>1. \A k \in 0 .. len : k # 0 => k \in 1 .. len
    OBVIOUS
  <2>2. \A k \in 0 .. len : f[k] = IF k = 0 THEN 1 ELSE ByteBase * f[k - 1]
    BY <1>4, <2>1
  <2>3. f = [k \in 0 .. len |-> f[k]]
    BY <1>4
  <2> QED
    BY <2>2, <2>3
<1>6. Eq(count)
  BY <1>5
<1>7. \A k \in 0 .. len : count[k] = IF k = 0 THEN 1 ELSE ByteBase * count[k - 1]
  <2> HIDE DEF count
  <2> QED
    BY <1>6
<1> HIDE DEF count, step
<1> DEFINE N == {k \in Nat : k <= len => count[k] = f[k]}
<1>8. Nat \subseteq N
  <2>1. 0 \in N
    BY <1>4, <1>7
  <2>2. ASSUME NEW k \in N PROVE k + 1 \in N
    <3> SUFFICES ASSUME k + 1 <= len PROVE count[k + 1] = f[k + 1]
      OBVIOUS
    <3>1. /\ k + 1 \in 1 .. len /\ k + 1 \in 0 .. len /\ (k + 1) - 1 = k
          /\ count[k] = f[k] /\ k + 1 # 0
      OBVIOUS
    <3> QED
      BY <1>4, <1>7, <3>1
  <2>3. N \in SUBSET Nat
    OBVIOUS
  <2> HIDE DEF N
  <2> QED
    BY <2>1, <2>2, <2>3, Induct
<1>9. f[len] = Capacity(len)
  BY <1>1, <1>8
<1> QED
  BY <1>4, <1>9 DEF PlaceValues

\* Nothing is left of a number that fits its bytes.
LEMMA NothingLeft ==
  ASSUME NEW n \in Nat, NEW len \in Nat, n < Capacity(len), NEW r, LeftOver(r, n, len)
  PROVE  r[len + 1] = 0
<1>1. PICK w : PlaceValues(w, len)
  BY CapacityFacts
<1> DEFINE N == {k \in Nat : k <= len => r[k + 1] * w[k] <= n}
<1>2. Nat \subseteq N
  <2>1. 0 \in N
    BY <1>1 DEF PlaceValues, LeftOver
  <2>2. ASSUME NEW k \in N PROVE k + 1 \in N
    <3> SUFFICES ASSUME k + 1 <= len PROVE r[(k + 1) + 1] * w[k + 1] <= n
      OBVIOUS
    <3>1. /\ k + 1 \in 1 .. len /\ k + 1 \in 1 .. (len + 1) /\ (k + 1) - 1 = k
          /\ k \in 0 .. len
      OBVIOUS
    <3> DEFINE v == r[k + 1]
               q == v \div ByteBase
               m == v % ByteBase
               u == w[k]
    <3>2. /\ v \in Nat /\ u \in Nat /\ v * u <= n
          /\ r[(k + 1) + 1] = q /\ w[k + 1] = ByteBase * u
      BY <1>1, <3>1 DEF PlaceValues, LeftOver
    <3>3. m \in Nat /\ q \in Nat /\ v = q * ByteBase + m
      <4>1. r[k + 1] \in Nat
        BY <3>2
      <4> QED
        BY <4>1, Quotient, ByteFacts
    <3> HIDE DEF v, q, m, u
    <3>4. v * u = q * (ByteBase * u) + m * u /\ m * u >= 0
      BY <3>2, <3>3, ByteFacts
    <3>5. q * (ByteBase * u) <= n
      <4>1. q * (ByteBase * u) \in Int /\ m * u \in Int
        BY <3>2, <3>3, ByteFacts
      <4> QED
        BY <3>2, <3>4, <4>1
    <3> QED
      BY <3>2, <3>5
  <2>3. N \in SUBSET Nat
    OBVIOUS
  <2> HIDE DEF N
  <2> QED
    BY <2>1, <2>2, <2>3, Induct
<1> DEFINE x == r[len + 1]
           c == w[len]
<1>3. x \in Nat /\ c \in Nat /\ x * c <= n /\ n < c
  BY <1>1, <1>2 DEF PlaceValues, LeftOver
<1> HIDE DEF x, c
<1>4. x = 0
  <2>1. ASSUME x >= 1 PROVE x * c >= c
    BY <1>3, <2>1
  <2> QED
    BY <1>3, <2>1
<1> QED
  BY <1>4 DEF x

\* The numbers that the bytes from the last down to the k-th make.
Above(a, bytes) ==
  /\ a \in [1 .. (Len(bytes) + 1) -> Nat]
  /\ a[Len(bytes) + 1] = 0 /\ a[1] = NumberOf(bytes)
  /\ \A k \in 1 .. Len(bytes) : a[k] = a[k + 1] * ByteBase + bytes[k]

LEMMA NumberSteps ==
  ASSUME NEW bytes \in Seq(Nat)
  PROVE  \E a : Above(a, bytes)
<1> DEFINE n == Len(bytes)
           D == DOMAIN bytes
           step == [k \in D |-> [v \in Nat |-> v * ByteBase + bytes[k]]]
           pick == [s \in SUBSET D |-> Min(s)]
           Eq(h) == h = [s \in SUBSET D |-> IF s = {} THEN 0
                         ELSE LET k == Min(s) IN h[s \ {k}] * ByteBase + bytes[k]]
           T == CHOOSE h : Eq(h)
           a == [k \in 1 .. (n + 1) |-> T[k .. n]]
<1>1. IsFiniteSet(D) /\ D = 1 .. n /\ n \in Nat /\ \A k \in D : bytes[k] \in Nat
  BY FS_Interval
<1>2. step \in [D -> [Nat -> Nat]]
  BY <1>1, ByteFacts
<1>3. \A s \in SUBSET D : s # {} => pick[s] \in s /\ pick[s] = Min(s)
  <2>1. \A s \in SUBSET D : s \in SUBSET Nat
    BY <1>1
  <2> HIDE DEF D
  <2> QED
    BY <2>1, LeastElement
<1>4. \E h : Eq(h)
  <2>1. PICK h : FoldsBy(h, D, Nat, 0, step, pick)
    <3> HIDE DEF step, D, pick
    <3> QED
      BY <1>1, <1>2, <1>3, FoldExists
  <2>2. h \in [SUBSET D -> Nat]
    <3> HIDE DEF step, D, pick
    <3> QED
      BY <1>1, <1>2, <2>1, FoldType
  <2>3. \A s \in SUBSET D : s # {} => Min(s) \in D /\ h[s \ {Min(s)}] \in Nat
    BY <1>3, <2>2
  <2>4. \A s \in SUBSET D : s # {} =>
          step[Min(s)][h[s \ {Min(s)}]] = h[s \ {Min(s)}] * ByteBase + bytes[Min(s)]
    BY <2>3
  <2> HIDE DEF step
  <2>5. h[{}] = 0 /\ \A s \in SUBSET D : s # {} =>
          h[s] = h[s \ {Min(s)}] * ByteBase + bytes[Min(s)]
    BY <1>3, <2>1, <2>3, <2>4 DEF FoldsBy
  <2>6. Eq(h)
    BY <2>2, <2>5
  <2> QED
    BY <2>6
<1>5. Eq(T)
  BY <1>4
<1>6. T[{}] = 0 /\ \A s \in SUBSET D : s # {} =>
        T[s] = T[s \ {Min(s)}] * ByteBase + bytes[Min(s)]
  BY <1>5
<1>7. T \in [SUBSET D -> Nat]
  <2>1. T = [s \in SUBSET D |-> T[s]]
    BY <1>5
  <2> HIDE DEF T
  <2>2. \A s \in SUBSET D : s # {} =>
          (T[s \ {Min(s)}] \in Nat => T[s] = step[Min(s)][T[s \ {Min(s)}]])
    BY <1>3, <1>6
  <2>3. FoldsBy(T, D, Nat, 0, step, pick)
    BY <1>3, <1>6, <2>1, <2>2 DEF FoldsBy
  <2> HIDE DEF D, step, pick
  <2> QED
    BY <1>1, <1>2, <2>3, FoldType
<1>8. NumberOf(bytes) = T[D]
  BY DEF NumberOf, FoldRight, MapThenFoldSet
<1> HIDE DEF T
<1>9. ASSUME NEW k \in 1 .. n PROVE T[k .. n] = T[(k + 1) .. n] * ByteBase + bytes[k]
  <2>1. k .. n \in SUBSET D /\ k \in k .. n /\ (k .. n) \ {k} = (k + 1) .. n
    BY <1>1
  <2>2. Min(k .. n) = k
    BY <1>1, <2>1 DEF Min
  <2> QED
    BY <1>6, <2>1, <2>2
<1>10. \A k \in 1 .. (n + 1) : T[k .. n] \in Nat
  <2>1. \A k \in 1 .. (n + 1) : k .. n \in SUBSET D
    BY <1>1
  <2> QED
    BY <1>7, <2>1
<1>11. a \in [1 .. (n + 1) -> Nat] /\ a[n + 1] = 0 /\ a[1] = T[D]
  <2>1. n + 1 \in 1 .. (n + 1) /\ 1 \in 1 .. (n + 1) /\ D = 1 .. n /\ (n + 1) .. n = {}
    BY <1>1
  <2> HIDE DEF n, D
  <2> QED
    BY <1>6, <1>10, <2>1
<1>12. \A k \in 1 .. n : a[k] = a[k + 1] * ByteBase + bytes[k]
  BY <1>1, <1>9
<1> HIDE DEF a
<1>13. Above(a, bytes)
  BY <1>8, <1>11, <1>12 DEF Above
<1> QED
  BY <1>13

\* What is written in enough bytes is read again.
LEMMA NumberOfDigits ==
  ASSUME NEW n \in Nat, NEW len \in Nat, n < Capacity(len)
  PROVE  NumberOf(Digits(n, len)) = n
<1>1. PICK r : LeftOver(r, n, len)
  BY DigitsFacts
<1>2. Digits(n, len) \in Seq(Nat) /\ Len(Digits(n, len)) = len
  <2>1. Digits(n, len) \in Seq(Bytes) /\ Len(Digits(n, len)) = len
    BY DigitsFacts
  <2> QED
    BY <2>1, BytesAreNumbers
<1>3. PICK a : Above(a, Digits(n, len))
  BY <1>2, NumberSteps
<1>4. a[len + 1] = 0 /\ r[len + 1] = 0
  BY <1>1, <1>2, <1>3, NothingLeft DEF Above
<1> DEFINE N == {j \in Nat : j <= len => a[len + 1 - j] = r[len + 1 - j]}
<1>5. Nat \subseteq N
  <2>1. 0 \in N
    BY <1>4
  <2>2. ASSUME NEW j \in N PROVE j + 1 \in N
    <3> SUFFICES ASSUME j + 1 <= len PROVE a[len + 1 - (j + 1)] = r[len + 1 - (j + 1)]
      OBVIOUS
    <3> DEFINE k == len - j
    <3>1. /\ k \in 1 .. len /\ k \in 1 .. (len + 1)
          /\ len + 1 - (j + 1) = k /\ len + 1 - j = k + 1
      OBVIOUS
    <3>2. a[k + 1] = r[k + 1]
      BY <3>1
    <3> HIDE DEF k
    <3>3. /\ a[k] = a[k + 1] * ByteBase + (r[k] % ByteBase)
          /\ r[k + 1] = r[k] \div ByteBase /\ r[k] \in Nat
      BY <1>1, <1>2, <1>3, <3>1 DEF Above, LeftOver
    <3>4. a[k] = r[k]
      BY <3>2, <3>3, Quotient
    <3> QED
      BY <3>1, <3>4
  <2>3. N \in SUBSET Nat
    OBVIOUS
  <2> HIDE DEF N
  <2> QED
    BY <2>1, <2>2, <2>3, Induct
<1>6. a[1] = r[1]
  <2>1. len \in N /\ len + 1 - len = 1
    BY <1>5
  <2> QED
    BY <2>1
<1> QED
  BY <1>1, <1>3, <1>6 DEF Above, LeftOver

\* and what is read can only have been written as it was.
LEMMA DigitsOfNumber ==
  ASSUME NEW len \in Nat, NEW bytes \in Seq(Bytes), Len(bytes) = len
  PROVE  NumberOf(bytes) \in Nat /\ Digits(NumberOf(bytes), len) = bytes
<1>1. bytes \in Seq(Nat)
  BY BytesAreNumbers
<1>2. PICK a : Above(a, bytes)
  BY <1>1, NumberSteps
<1>3. NumberOf(bytes) \in Nat
  <2>1. a \in [1 .. (len + 1) -> Nat] /\ a[1] = NumberOf(bytes) /\ 1 \in 1 .. (len + 1)
    BY <1>2 DEF Above
  <2> QED
    BY <2>1
<1> DEFINE n == NumberOf(bytes)
           d == Digits(n, len)
<1>4. PICK r : LeftOver(r, n, len)
  <2> HIDE DEF n
  <2> QED
    BY <1>3, DigitsFacts DEF n
<1>5. d \in Seq(Bytes) /\ Len(d) = len
  <2> HIDE DEF n
  <2> QED
    BY <1>3, DigitsFacts DEF n
<1>6. a[1] = n /\ r[1] = n
  BY <1>2, <1>4 DEF Above, LeftOver
<1> HIDE DEF n, d
<1>7. ASSUME NEW k \in 1 .. len, r[k] = a[k]
      PROVE  r[k + 1] = a[k + 1] /\ d[k] = bytes[k]
  <2> DEFINE q == a[k + 1]
             b == bytes[k]
             v == r[k]
             w == v \div ByteBase
             m == v % ByteBase
  <2>1. k + 1 \in 1 .. (len + 1) /\ k \in 1 .. (len + 1)
    OBVIOUS
  <2>2. q \in Nat /\ b \in Bytes /\ v \in Nat
    BY <1>2, <1>4, <2>1 DEF Above, LeftOver
  <2>3. v = q * ByteBase + b
    BY <1>2, <1>7 DEF Above
  <2>4. r[k + 1] = w /\ d[k] = m
    BY <1>4 DEF LeftOver, d
  <2> HIDE DEF q, b, v
  <2>5. m \in Bytes /\ w \in Nat /\ v = w * ByteBase + m
    BY <2>2, Quotient
  <2>6. m = b
    <3>1. v \in Int /\ q \in Int /\ b \in 0 .. (ByteBase - 1) /\ v = ByteBase * q + b
      BY <2>2, <2>3, ByteFacts DEF Bytes
    <3> QED
      BY <3>1, ByteFacts, RemainderUnique
  <2> HIDE DEF w, m
  <2>7. w = q
    <3>1. ByteBase * w = ByteBase * q
      BY <2>2, <2>3, <2>5, <2>6, ByteFacts DEF Bytes
    <3>2. ASSUME NEW B \in Nat, NEW x \in Nat, NEW y \in Nat, B > 1, B * x = B * y PROVE x = y
      <4>1. B * (x - y) = 0
        BY <3>2
      <4> QED
        BY <3>2, <4>1
    <3> QED
      BY <2>2, <2>5, <3>1, <3>2, ByteFacts
  <2> QED
    BY <2>4, <2>6, <2>7 DEF q, b
<1> DEFINE N == {k \in Nat : k <= len => r[k + 1] = a[k + 1]}
<1>8. Nat \subseteq N
  <2>1. 0 \in N
    BY <1>6
  <2>2. ASSUME NEW k \in N PROVE k + 1 \in N
    <3> SUFFICES ASSUME k + 1 <= len PROVE r[(k + 1) + 1] = a[(k + 1) + 1]
      OBVIOUS
    <3>1. k + 1 \in 1 .. len /\ r[k + 1] = a[k + 1]
      OBVIOUS
    <3> QED
      BY <1>7, <3>1
  <2>3. N \in SUBSET Nat
    OBVIOUS
  <2> HIDE DEF N
  <2> QED
    BY <2>1, <2>2, <2>3, Induct
<1>9. \A k \in 1 .. len : d[k] = bytes[k]
  <2> TAKE k \in 1 .. len
  <2>1. k - 1 \in N /\ k - 1 <= len /\ (k - 1) + 1 = k
    BY <1>8
  <2> QED
    BY <1>7, <2>1
<1>10. d = bytes
  BY <1>5, <1>9
<1> QED
  BY <1>3, <1>10 DEF d, n

\* Points are written in bytes,
LEMMA EncodingType ==
  ASSUME NEW point \in 0 .. (Q - 1)
  PROVE  EncodePoint(point) \in Seq(Bytes) /\ Len(EncodePoint(point)) = ScalarBytes + 1
<1>1. ASSUME NEW x \in Scalars, NEW y \in Scalars
      PROVE  /\ CompressedBytes(x, y) \in Seq(Bytes)
             /\ Len(CompressedBytes(x, y)) = ScalarBytes + 1
  <2> DEFINE d == Digits(x, ScalarBytes)
             p == y % 2
  <2>1. d \in Seq(Bytes) /\ Len(d) = ScalarBytes
    <3>1. x \in Nat /\ ScalarBytes \in Nat
      BY BytesAssumption, FieldAssumption DEF Scalars
    <3> QED
      BY <3>1, DigitsFacts
  <2>2. p \in Bytes
    <3>1. y \in Int
      BY ResiduesAreIntegers
    <3>2. y % 2 \in 0 .. (2 - 1)
      BY <3>1, Remainder
    <3>3. p = 0 \/ p = 1
      BY <3>2
    <3> QED
      BY <3>3, ByteFacts
  <2>3. CompressedBytes(x, y) = Append(d, p)
    BY DEF CompressedBytes
  <2> HIDE DEF d, p
  <2> QED
    BY <2>1, <2>2, <2>3
<1>2. CASE point = 0
  <2>1. 0 \in Scalars
    BY FieldAssumption DEF Scalars
  <2> QED
    BY <1>1, <1>2, <2>1 DEF EncodePoint
<1>3. CASE point # 0
  <2>1. point \in 1 .. (Q - 1)
    BY <1>3, HelperAssumption
  <2>2. Affine[point][1] \in Scalars /\ Affine[point][2] \in Scalars
    BY <2>1, CurveAssumption
  <2> QED
    BY <1>1, <1>3, <2>2 DEF EncodePoint
<1> QED
  BY <1>2, <1>3

\* and a mask is a hash of numbers.
LEMMA TranscriptType ==
  ASSUME NEW inputs \in MaskInputs
  PROVE  TranscriptOf(inputs) \in Seq(Int)
<1>1. /\ inputs.session \in Int /\ inputs.dealer \in Int /\ inputs.participant \in Int
      /\ inputs.dealerPublic \in Int /\ inputs.participantPublic \in Int
      /\ inputs.poly \in Seq(Int)
  <2>1. inputs.poly \in Seq(Points)
    BY DEF MaskInputs
  <2> QED
    BY <2>1, HelperAssumption, ResiduesAreIntegers DEF MaskInputs
<1> DEFINE head == <<inputs.session, inputs.dealer, inputs.participant,
                     inputs.dealerPublic, inputs.participantPublic, Len(inputs.poly)>>
<1>2. head \in Seq(Int) /\ TranscriptOf(inputs) = head \o inputs.poly
  <2>1. Len(inputs.poly) \in Int
    BY <1>1
  <2> QED
    BY <1>1, <2>1 DEF TranscriptOf, DkgMaskTranscript
<1> HIDE DEF head
<1> QED
  BY <1>1, <1>2

LEMMA HashedType ==
  ASSUME NEW point \in 0 .. (Q - 1), NEW inputs \in MaskInputs
  PROVE  /\ EncodePoint(point) \o TranscriptOf(inputs) \in Seq(Int)
         /\ HashToScalar(EncodePoint(point) \o TranscriptOf(inputs)) \in Scalars
<1>1. EncodePoint(point) \in Seq(Int)
  <2>1. EncodePoint(point) \in Seq(Bytes)
    BY EncodingType
  <2> QED
    BY <2>1, BytesAreNumbers
<1>2. EncodePoint(point) \o TranscriptOf(inputs) \in Seq(Int)
  BY <1>1, TranscriptType
<1> QED
  BY <1>2, HashType, ZenonT(30)

----------------------------------------------------------------------------
(* Two halves *)

\* An opening of the shared point as the prover makes it.
IsOpening(opening) ==
  /\ opening.x \in Scalars /\ opening.y \in Scalars
  /\ opening.xBlinding \in Scalars /\ opening.yBlinding \in Scalars

\* What half a proof about the mask says.
LEMMA MaskHalfSays ==
  ASSUME NEW inputs, NEW mask \in Scalars, NEW blinding, NEW opening, IsOpening(opening),
         NEW half \in MaskHalf(inputs, mask, blinding, opening)
  PROVE  /\ half.circuit = MaskCircuit(inputs)
         /\ half.claim[1] = CommitValue(SetupFor(MaskCircuit(inputs)), mask, blinding)
         /\ half.claim[2][PallasGenerator] = opening.x
         /\ half.claim[3][PallasGenerator] = opening.y
         /\ mask = HashToScalar(CompressedBytes(opening.x, opening.y) \o TranscriptOf(inputs))
<1> DEFINE setup == SetupFor(MaskCircuit(inputs))
           shared == SharedCommitments(setup, opening)
           statement == MaskCircuitClaim(inputs, shared)
           values == <<mask, opening.x, opening.y>>
           blindings == <<blinding, opening.xBlinding, opening.yBlinding>>
<1>1. /\ half = statement
      /\ statement.claim = ClaimOf(statement.setup, [values |-> values, blinding |-> blindings])
      /\ MaskCircuitHolds(TranscriptOf(inputs), mask, opening.x, opening.y)
  BY DEF MaskHalf, CircuitProofs
<1>2. /\ statement.circuit = MaskCircuit(inputs)
      /\ statement.setup = setup
      /\ statement.claim = <<inputs.maskCommitment, shared.x, shared.y>>
  BY DEF MaskCircuitClaim
<1>3. ClaimOf(setup, [values |-> values, blinding |-> blindings])[1] =
        CommitValue(setup, mask, blinding)
  BY DEF ClaimOf
<1>4. /\ shared.x = CommitValue(setup, opening.x, opening.xBlinding)
      /\ shared.y = CommitValue(setup, opening.y, opening.yBlinding)
  BY DEF SharedCommitments
<1>5. /\ half.claim[1] = CommitValue(setup, mask, blinding)
      /\ half.claim[2] = shared.x /\ half.claim[3] = shared.y
  BY <1>1, <1>2, <1>3
<1>6. shared.x[PallasGenerator] = opening.x /\ shared.y[PallasGenerator] = opening.y
  BY <1>4, Binding DEF IsOpening
<1> QED
  BY <1>1, <1>2, <1>5, <1>6 DEF MaskCircuitHolds

\* What half a proof about the Diffie-Hellman relation says.
LEMMA DhHalfSays ==
  ASSUME NEW inputs, NEW secret, NEW opening, IsOpening(opening),
         NEW half \in DhHalf(inputs, secret, opening)
  PROVE  /\ half.circuit \in DhCircuits(inputs)
         /\ half.claim[1][PallasGenerator] = opening.x
         /\ half.claim[2][PallasGenerator] = opening.y
         /\ DhCircuitHolds(inputs.dealerPublic, inputs.participantPublic, secret,
                           opening.x, opening.y)
<1> DEFINE setup == SetupFor(MaskCircuit(inputs))
           shared == SharedCommitments(setup, opening)
<1>1. /\ half \in VestaDhCircuitClaims(inputs, shared)
      /\ DhCircuitHolds(inputs.dealerPublic, inputs.participantPublic, secret,
                        opening.x, opening.y)
  BY DEF DhHalf, CircuitProofs
<1>2. half.circuit \in DhCircuits(inputs) /\ half.claim = <<shared.x, shared.y>>
  BY <1>1 DEF VestaDhCircuitClaims
<1>3. shared.x[PallasGenerator] = opening.x /\ shared.y[PallasGenerator] = opening.y
  BY Binding DEF SharedCommitments, IsOpening
<1> QED
  BY <1>1, <1>2, <1>3

\* Halves that verify for the same inputs and commitments prove the statement,
\* whoever made them, and about whatever.
LEMMA HalvesMeanStatement ==
  ASSUME NEW inputs, NEW proof, Verify(inputs, proof) = "Ok",
         NEW ofMask, NEW mask \in Scalars, NEW blinding \in Scalars,
         NEW hidden, IsOpening(hidden),
         proof.mask \in MaskHalf(ofMask, mask, blinding, hidden),
         NEW ofDh, NEW secret \in 0 .. (Q - 1), NEW other, IsOpening(other),
         proof.dh \in DhHalf(ofDh, secret, other)
  PROVE  StatementOpening(inputs, Scalars)
<1> DEFINE product == DiffieHellman(secret, inputs.participantPublic)
<1>1. /\ proof.mask = MaskCircuitClaim(inputs, proof.shared)
      /\ proof.dh \in VestaDhCircuitClaims(inputs, proof.shared)
  BY DEF Verify
<1>2. /\ proof.mask.circuit = MaskCircuit(inputs)
      /\ proof.mask.claim = <<inputs.maskCommitment, proof.shared.x, proof.shared.y>>
      /\ proof.dh.circuit \in DhCircuits(inputs)
      /\ proof.dh.claim = <<proof.shared.x, proof.shared.y>>
  BY <1>1 DEF MaskCircuitClaim, VestaDhCircuitClaims
<1>3. /\ MaskCircuit(inputs) = MaskCircuit(ofMask)
      /\ inputs.maskCommitment = CommitValue(SetupFor(MaskCircuit(inputs)), mask, blinding)
      /\ proof.shared.x[PallasGenerator] = hidden.x
      /\ proof.shared.y[PallasGenerator] = hidden.y
      /\ mask = HashToScalar(CompressedBytes(hidden.x, hidden.y) \o TranscriptOf(ofMask))
  <2>1. /\ proof.mask.circuit = MaskCircuit(ofMask)
        /\ proof.mask.claim[1] = CommitValue(SetupFor(MaskCircuit(ofMask)), mask, blinding)
        /\ proof.mask.claim[2][PallasGenerator] = hidden.x
        /\ proof.mask.claim[3][PallasGenerator] = hidden.y
        /\ mask = HashToScalar(CompressedBytes(hidden.x, hidden.y) \o TranscriptOf(ofMask))
    BY MaskHalfSays
  <2> QED
    BY <1>2, <2>1
<1>4. /\ proof.dh.circuit \in DhCircuits(ofDh)
      /\ proof.shared.x[PallasGenerator] = other.x
      /\ proof.shared.y[PallasGenerator] = other.y
      /\ DhCircuitHolds(ofDh.dealerPublic, ofDh.participantPublic, secret, other.x, other.y)
  BY <1>2, DhHalfSays
<1>5. hidden.x = other.x /\ hidden.y = other.y
  BY <1>3, <1>4
<1>6. TranscriptOf(inputs) = TranscriptOf(ofMask)
  <2>1. MaskCircuit(inputs).transcript = MaskCircuit(ofMask).transcript
    BY <1>3
  <2> QED
    BY <2>1 DEF MaskCircuit
<1>7. /\ inputs.dealerPublic = ofDh.dealerPublic
      /\ inputs.participantPublic = ofDh.participantPublic
  <2>1. /\ proof.dh.circuit.dealer = inputs.dealerPublic
        /\ proof.dh.circuit.participant = inputs.participantPublic
    BY <1>2 DEF DhCircuits
  <2>2. /\ proof.dh.circuit.dealer = ofDh.dealerPublic
        /\ proof.dh.circuit.participant = ofDh.participantPublic
    BY <1>4 DEF DhCircuits
  <2> QED
    BY <2>1, <2>2
<1>8. /\ HelperPublic(secret) = inputs.dealerPublic
      /\ product # 0
      /\ Affine[product] = <<hidden.x, hidden.y>>
  BY <1>4, <1>5, <1>7 DEF DhCircuitHolds
<1>9. EncodePoint(product) = CompressedBytes(hidden.x, hidden.y)
  BY <1>8 DEF EncodePoint
<1>10. inputs.maskCommitment =
         CommitValue(SetupFor(MaskCircuit(inputs)),
                     HashToScalar(EncodePoint(product) \o TranscriptOf(inputs)), blinding)
  BY <1>3, <1>6, <1>9
<1> QED
  BY <1>8, <1>10 DEF StatementOpening

----------------------------------------------------------------------------
(* What is accepted *)

\* The batch is a sequence of items.
ItemsOK == \E S : items \in Seq(S)

LEMMA Appended ==
  ASSUME NEW S, NEW s \in Seq(S), NEW e
  PROVE  /\ Append(s, e) \in Seq(S \cup {e})
         /\ DOMAIN Append(s, e) = DOMAIN s \cup {Len(s) + 1}
         /\ \A k \in DOMAIN s : Append(s, e)[k] = s[k]
         /\ Append(s, e)[Len(s) + 1] = e
<1>1. s \in Seq(S \cup {e}) /\ e \in S \cup {e}
  OBVIOUS
<1> QED
  BY <1>1

\* Inductive as it stands: items are only added, and what is added was made of
\* halves somebody could make.
IInv ==
  /\ agenda \in Agendas
  /\ ItemsOK
  /\ AcceptedMeansStatement

\* Adding a proof that is accepted only of a true statement keeps the invariant.
LEMMA AddingKeeps ==
  ASSUME IInv, NEW inputs, NEW proof, NEW made, Add1(inputs, proof, made),
         agenda' = agenda,
         Verify(inputs, proof) = "Ok" => StatementOpening(inputs, Scalars)
  PROVE  IInv'
<1> DEFINE item == [inputs |-> inputs, proof |-> proof, made |-> made]
<1>1. PICK S : items \in Seq(S)
  BY DEF IInv, ItemsOK
<1>2. /\ items' \in Seq(S \cup {item})
      /\ DOMAIN items' = DOMAIN items \cup {Len(items) + 1}
      /\ \A k \in DOMAIN items : items'[k] = items[k]
      /\ items'[Len(items) + 1] = item
  BY <1>1, Appended DEF Add1
<1>3. ASSUME NEW k \in DOMAIN items', Verify(items'[k].inputs, items'[k].proof) = "Ok"
      PROVE  StatementOpening(items'[k].inputs, Scalars)
  <2>1. CASE k \in DOMAIN items
    BY <2>1, <1>2, <1>3 DEF IInv, AcceptedMeansStatement
  <2>2. CASE k = Len(items) + 1
    <3>1. items'[k].inputs = inputs /\ items'[k].proof = proof
      BY <2>2, <1>2
    <3> QED
      BY <3>1, <1>3
  <2> QED
    BY <2>1, <2>2, <1>2
<1> QED
  BY <1>2, <1>3 DEF IInv, ItemsOK, AcceptedMeansStatement

\* The openings of honest provers are openings.
LEMMA HonestOpening ==
  ASSUME agenda \in Agendas, NEW point \in 1 .. (Q - 1), NEW blindings \in agenda.blindings
  PROVE  IsOpening(OpeningOf(Affine[point], blindings))
<1>1. Affine[point] \in Scalars \X Scalars
  BY CurveAssumption
<1>2. blindings \in Scalars \X Scalars
  BY AgendaAssumption
<1> QED
  BY <1>1, <1>2 DEF IsOpening, OpeningOf

\* A proof made by prove is accepted of true statements only.
LEMMA ProveKeeps ==
  ASSUME IInv, NEW inputs \in agenda.cases, NEW witness \in agenda.witnesses,
         NEW blindings \in agenda.blindings, Prove(inputs, witness, blindings)
  PROVE  IInv'
<1> USE DEF IInv
<1>1. agenda' = agenda
  BY DEF Prove
<1>2. CASE UNCHANGED items
  BY <1>1, <1>2 DEF ItemsOK, AcceptedMeansStatement
<1>3. ASSUME NEW proof \in ProveMask(inputs, witness, blindings)
      PROVE  Verify(inputs, proof) = "Ok" => StatementOpening(inputs, Scalars)
  <2> DEFINE opening == OpeningOf(Affine[witness.shared], blindings)
  <2>1. /\ witness.shared # 0
        /\ proof.mask \in MaskHalf(inputs, witness.mask, 0, opening)
        /\ proof.dh \in DhHalf(inputs, witness.secret, opening)
    BY <1>3 DEF ProveMask, EncodeSkeletonProof
  <2>2. /\ witness.secret \in 0 .. (Q - 1) /\ witness.mask \in Scalars
        /\ witness.shared \in 1 .. (Q - 1)
    BY <2>1, AgendaAssumption, HelperAssumption DEF MaskWitnesses
  <2>3. IsOpening(opening)
    BY <2>2, HonestOpening
  <2>4. 0 \in Scalars
    BY FieldAssumption DEF Scalars
  <2> HIDE DEF opening
  <2> QED
    BY <2>1, <2>2, <2>3, <2>4, HalvesMeanStatement
<1>4. ASSUME NEW proof \in ProveMask(inputs, witness, blindings),
             Add1(inputs, proof, "prove")
      PROVE  IInv'
  BY <1>1, <1>3, <1>4, AddingKeeps
<1>5. ASSUME NEW proof \in ProveMask(inputs, witness, blindings),
             Add1(inputs, [proof EXCEPT !.backend = "other"], "renamed")
      PROVE  IInv'
  <2>1. proof.backend = Backend /\ proof = [backend |-> proof.backend, shared |-> proof.shared,
                                            mask |-> proof.mask, dh |-> proof.dh]
    BY <1>5 DEF ProveMask, EncodeSkeletonProof
  <2>2. [proof EXCEPT !.backend = "other"].backend # Backend
    BY <2>1 DEF Backend
  <2>3. Verify(inputs, [proof EXCEPT !.backend = "other"]) # "Ok"
    BY <2>2 DEF Verify
  <2> QED
    BY <1>1, <1>5, <2>3, AddingKeeps
<1> QED
  BY <1>2, <1>4, <1>5 DEF Prove

\* So is a proof put together from two halves, whatever they are about.
LEMMA PutTogetherKeeps ==
  ASSUME IInv, NEW inputs \in agenda.cases,
         NEW ofMask \in agenda.sources, NEW ofDh \in agenda.sources,
         PutTogether(inputs, ofMask, ofDh)
  PROVE  IInv'
<1> DEFINE HashOfPoint(point) == HashToScalar(EncodePoint(point) \o TranscriptOf(ofMask))
           Mine(point, blinding) ==
             [ofMask EXCEPT !.maskCommitment =
                CommitValue(SetupFor(MaskCircuit(ofMask)), HashOfPoint(point), blinding)]
<1>1. PICK point \in 1 .. (Q - 1), target \in 1 .. (Q - 1), secret \in 0 .. (Q - 1),
           b1 \in agenda.blindings, b2 \in agenda.blindings, blinding \in agenda.maskBlindings :
        \E half \in MaskHalf(Mine(point, blinding), HashOfPoint(point), blinding,
                             OpeningOf(Affine[point], b1)),
           other \in DhHalf(ofDh, secret, OpeningOf(Affine[target], b2)) :
          Add1(inputs, [backend |-> Backend,
                        shared  |-> SharedCommitments(half.setup, OpeningOf(Affine[point], b1)),
                        mask    |-> half, dh |-> other], "put together")
  BY DEF PutTogether
<1> DEFINE opening == OpeningOf(Affine[point], b1)
           otherOpening == OpeningOf(Affine[target], b2)
           mask == HashOfPoint(point)
<1>2. PICK half \in MaskHalf(Mine(point, blinding), mask, blinding, opening),
           other \in DhHalf(ofDh, secret, otherOpening) :
        Add1(inputs, [backend |-> Backend, shared |-> SharedCommitments(half.setup, opening),
                      mask    |-> half, dh |-> other], "put together")
  BY <1>1
<1>3. agenda' = agenda /\ agenda \in Agendas
  BY DEF PutTogether, IInv
<1>4. mask \in Scalars
  <2>1. point \in 0 .. (Q - 1) /\ ofMask \in MaskInputs
    BY <1>3, AgendaAssumption, HelperAssumption
  <2> QED
    BY <2>1, HashedType
<1>5. IsOpening(opening) /\ IsOpening(otherOpening) /\ blinding \in Scalars
  BY <1>3, HonestOpening, AgendaAssumption
<1> DEFINE proof == [backend |-> Backend, shared |-> SharedCommitments(half.setup, opening),
                     mask    |-> half, dh |-> other]
<1>6. Verify(inputs, proof) = "Ok" => StatementOpening(inputs, Scalars)
  <2>1. proof.mask = half /\ proof.dh = other
    OBVIOUS
  <2> HIDE DEF proof, mask, opening, otherOpening, Mine
  <2> QED
    BY <2>1, <1>2, <1>4, <1>5, HalvesMeanStatement
<1> QED
  BY <1>2, <1>3, <1>6, AddingKeeps

\* Whoever makes its halves, about whatever and with whatever blindings, an
\* accepted proof states the truth: the mask commitment opens to the hash of the
\* dealer's and the participant's shared point (verify, pallas.rs:538).
THEOREM AcceptedStatesTruth == Spec => []AcceptedMeansStatement
<1>1. Init => IInv
  <2>1. ASSUME items = <<>> PROVE ItemsOK /\ AcceptedMeansStatement
    <3>1. items \in Seq({}) /\ DOMAIN items = {}
      BY <2>1
    <3> QED
      BY <3>1 DEF ItemsOK, AcceptedMeansStatement
  <2> QED
    BY <2>1 DEF Init, IInv
<1>2. IInv /\ [Next]_vars => IInv'
  <2> SUFFICES ASSUME IInv, [Next]_vars PROVE IInv'
    OBVIOUS
  <2>1. CASE UNCHANGED <<agenda, items>>
    BY <2>1 DEF IInv, ItemsOK, AcceptedMeansStatement
  <2>2. CASE VerifyBatch
    BY <2>1, <2>2 DEF VerifyBatch
  <2>3. CASE UNCHANGED vars
    BY <2>1, <2>3 DEF vars
  <2>4. ASSUME NEW inputs \in agenda.cases, NEW witness \in agenda.witnesses,
               NEW blindings \in agenda.blindings, Prove(inputs, witness, blindings)
        PROVE  IInv'
    BY <2>4, ProveKeeps
  <2>5. ASSUME NEW inputs \in agenda.cases, NEW ofMask \in agenda.sources,
               NEW ofDh \in agenda.sources, PutTogether(inputs, ofMask, ofDh)
        PROVE  IInv'
    BY <2>5, PutTogetherKeeps
  <2> QED
    BY <2>2, <2>3, <2>4, <2>5 DEF Next
<1>3. IInv => AcceptedMeansStatement
  BY DEF IInv
<1> QED
  BY <1>1, <1>2, <1>3, PTL DEF Spec

----------------------------------------------------------------------------
(* Limbs *)

Limbs == 0 .. ByteBase

\* Both views read the same byte from a limb, or none.
LEMMA ByteOfLimb ==
  ASSUME NEW limb \in Limbs
  PROVE  /\ BytesOf("u16", limb) = {limb} \cap Bytes
         /\ BytesOf("field", FromU64(limb)) = {limb} \cap Bytes
<1>1. ASSUME NEW l \in Limbs PROVE FromU64(l) = l
  <2>1. l \in 0 .. (P - 1)
    BY BytesAssumption, FieldAssumption DEF Limbs
  <2> QED
    BY <2>1, RemainderOfResidue, FieldAssumption DEF FromU64
<1>2. \A b \in Bytes : FromU64(b) = b
  <2>1. Bytes \subseteq Limbs
    BY ByteFacts DEF Bytes, Limbs
  <2> QED
    BY <1>1, <2>1
<1>3. BytesOf("field", FromU64(limb)) = {b \in Bytes : FromU64(b) = FromU64(limb)}
  BY DEF BytesOf, Bytes
<1>4. BytesOf("u16", limb) = {limb} \cap Bytes
  BY DEF BytesOf, Bytes
<1> QED
  BY <1>1, <1>2, <1>3, <1>4

\* A trace has a sequence of limbs for each of its parts; it is one of bytes if each
\* has its length and no limb is too large.
IsTrace(trace, parts) ==
  trace = [part \in parts |-> trace[part]] /\ \A part \in parts : trace[part] \in Seq(Limbs)
Fits(trace, lengths) ==
  \A part \in DOMAIN lengths : trace[part] \in Seq(Bytes) /\ Len(trace[part]) = lengths[part]

\* limbs is how a view shows the trace.
Shows(view, limbs, trace) ==
  /\ DOMAIN limbs = DOMAIN trace
  /\ \A part \in DOMAIN trace :
       /\ Len(limbs[part]) = Len(trace[part]) /\ DOMAIN limbs[part] = DOMAIN trace[part]
       /\ \A k \in DOMAIN trace[part] : BytesOf(view, limbs[part][k]) = {trace[part][k]} \cap Bytes

LEMMA ReadAsBytes ==
  ASSUME NEW trace, NEW lengths, IsTrace(trace, DOMAIN lengths),
         NEW view, NEW limbs, Shows(view, limbs, trace)
  PROVE  LimbsToBytes(view, limbs, lengths) = IF Fits(trace, lengths) THEN {trace} ELSE {}
<1> DEFINE S == DOMAIN lengths
           All == \A part \in S :
                    /\ Len(limbs[part]) = lengths[part]
                    /\ \A k \in DOMAIN limbs[part] : BytesOf(view, limbs[part][k]) # {}
           ReadBack == [part \in DOMAIN limbs |->
                          [k \in DOMAIN limbs[part] |->
                             CHOOSE b \in BytesOf(view, limbs[part][k]) : TRUE]]
<1>1. LimbsToBytes(view, limbs, lengths) = IF All THEN {ReadBack} ELSE {}
  BY DEF LimbsToBytes
<1>2. /\ DOMAIN trace = S /\ DOMAIN limbs = S /\ trace = [part \in S |-> trace[part]]
      /\ \A part \in S : trace[part] \in Seq(Limbs)
  <2>1. trace = [part \in S |-> trace[part]] /\ \A part \in S : trace[part] \in Seq(Limbs)
    BY DEF IsTrace
  <2>2. DOMAIN trace = S
    BY <2>1
  <2> QED
    BY <2>1, <2>2 DEF Shows
<1>3. ASSUME NEW part \in S
      PROVE  /\ Len(limbs[part]) = Len(trace[part]) /\ DOMAIN limbs[part] = DOMAIN trace[part]
             /\ \A k \in DOMAIN trace[part] :
                  BytesOf(view, limbs[part][k]) = {trace[part][k]} \cap Bytes
  BY <1>2 DEF Shows
<1> HIDE DEF S
<1>4. All <=> Fits(trace, lengths)
  <2>1. ASSUME NEW part \in S
        PROVE  (\A k \in DOMAIN limbs[part] : BytesOf(view, limbs[part][k]) # {}) <=>
                 trace[part] \in Seq(Bytes)
    <3> DEFINE t == trace[part]
               B(k) == BytesOf(view, limbs[part][k])
    <3>1. t \in Seq(Limbs) /\ DOMAIN limbs[part] = DOMAIN t
      BY <1>2, <1>3
    <3>2. \A k \in DOMAIN t : B(k) = {t[k]} \cap Bytes
      BY <1>3
    <3> HIDE DEF t, B
    <3>3. (\A k \in DOMAIN t : B(k) # {}) <=> \A k \in DOMAIN t : t[k] \in Bytes
      BY <3>2
    <3>4. (\A k \in DOMAIN t : t[k] \in Bytes) <=> t \in Seq(Bytes)
      <4>1. DOMAIN t = 1 .. Len(t) /\ Len(t) \in Nat /\ t = [k \in 1 .. Len(t) |-> t[k]]
        BY <3>1
      <4> QED
        BY <4>1
    <3> QED
      BY <3>1, <3>3, <3>4 DEF t, B
  <2>2. Fits(trace, lengths) <=>
          \A part \in S : trace[part] \in Seq(Bytes) /\ Len(trace[part]) = lengths[part]
    BY DEF Fits, S
  <2> QED
    BY <1>3, <2>1, <2>2
<1> HIDE DEF All
<1>5. ASSUME Fits(trace, lengths) PROVE ReadBack = trace
  <2>1. ASSUME NEW part \in S PROVE ReadBack[part] = trace[part]
    <3> DEFINE t == trace[part]
               l == limbs[part]
               r == [k \in DOMAIN l |-> CHOOSE b \in BytesOf(view, l[k]) : TRUE]
    <3>1. ReadBack[part] = r
      BY <1>2
    <3>2. t \in Seq(Bytes) /\ DOMAIN l = DOMAIN t
      BY <1>3, <1>5 DEF Fits, S
    <3>3. \A k \in DOMAIN t : BytesOf(view, l[k]) = {t[k]} \cap Bytes
      BY <1>3
    <3> HIDE DEF t, l
    <3>4. \A k \in DOMAIN t : (CHOOSE b \in BytesOf(view, l[k]) : TRUE) = t[k]
      <4> TAKE k \in DOMAIN t
      <4> DEFINE B == BytesOf(view, l[k])
      <4>1. B = {t[k]}
        BY <3>2, <3>3
      <4> HIDE DEF B
      <4>2. (CHOOSE b \in B : TRUE) \in B
        BY <4>1
      <4> QED
        BY <4>1, <4>2 DEF B
    <3>5. r = [k \in DOMAIN t |-> t[k]] /\ t = [k \in DOMAIN t |-> t[k]]
      BY <3>2, <3>4
    <3> QED
      BY <3>1, <3>5 DEF t
  <2>2. ReadBack = [part \in S |-> ReadBack[part]]
    BY <1>2
  <2> HIDE DEF ReadBack
  <2> QED
    BY <1>2, <2>1, <2>2
<1> HIDE DEF ReadBack
<1> QED
  BY <1>1, <1>4, <1>5

\* Both views do.
LEMMA BothShow ==
  ASSUME NEW trace, NEW parts, IsTrace(trace, parts)
  PROVE  Shows("u16", trace, trace) /\ Shows("field", BytesToFieldLimbs(trace), trace)
<1> DEFINE limbs == BytesToFieldLimbs(trace)
<1>1. DOMAIN trace = parts /\ \A part \in parts : trace[part] \in Seq(Limbs)
  <2>1. trace = [part \in parts |-> trace[part]] /\ \A part \in parts : trace[part] \in Seq(Limbs)
    BY DEF IsTrace
  <2> QED
    BY <2>1
<1>2. limbs = [part \in parts |-> [k \in DOMAIN trace[part] |-> FromU64(trace[part][k])]]
  BY <1>1 DEF BytesToFieldLimbs
<1> HIDE DEF limbs
<1>3. ASSUME NEW part \in parts
      PROVE  /\ Len(limbs[part]) = Len(trace[part]) /\ DOMAIN limbs[part] = DOMAIN trace[part]
             /\ \A k \in DOMAIN trace[part] :
                  /\ BytesOf("u16", trace[part][k]) = {trace[part][k]} \cap Bytes
                  /\ BytesOf("field", limbs[part][k]) = {trace[part][k]} \cap Bytes
  <2> DEFINE t == trace[part]
             l == limbs[part]
  <2>1. t \in Seq(Limbs) /\ l = [k \in DOMAIN t |-> FromU64(t[k])]
    BY <1>1, <1>2
  <2> HIDE DEF t, l
  <2>2. DOMAIN t = 1 .. Len(t) /\ Len(t) \in Nat /\ \A k \in DOMAIN t : t[k] \in Limbs
    BY <2>1
  <2>3. DOMAIN l = DOMAIN t /\ Len(l) = Len(t) /\ \A k \in DOMAIN t : l[k] = FromU64(t[k])
    BY <2>1, <2>2
  <2>4. \A k \in DOMAIN t : /\ BytesOf("u16", t[k]) = {t[k]} \cap Bytes
                            /\ BytesOf("field", l[k]) = {t[k]} \cap Bytes
    BY <2>2, <2>3, ByteOfLimb
  <2> QED
    BY <2>3, <2>4 DEF t, l
<1>4. DOMAIN limbs = parts
  BY <1>2
<1> QED
  BY <1>1, <1>3, <1>4 DEF Shows, limbs

MaskParts == {"domain", "sharedPoint", "transcriptDigest", "maskDigest", "mask"}
DhParts == {"secret", "dealer", "participant", "sharedPoint"}

LEMMA Lengths ==
  /\ DOMAIN MaskLengths = MaskParts /\ DOMAIN DhLengths = DhParts
  /\ MaskLengths.domain = 2 /\ MaskLengths.sharedPoint = ScalarBytes + 1
  /\ MaskLengths.transcriptDigest = DigestBytes /\ MaskLengths.maskDigest = DigestBytes
  /\ MaskLengths.mask = ScalarBytes
  /\ DhLengths.secret = ScalarBytes /\ DhLengths.dealer = ScalarBytes + 1
  /\ DhLengths.participant = ScalarBytes + 1 /\ DhLengths.sharedPoint = ScalarBytes + 1
  /\ ScalarBytes \in Nat /\ DigestBytes \in Nat
  BY BytesAssumption DEF MaskLengths, DhLengths, MaskDomain, MaskParts, DhParts

\* Scalars of both groups and digests fit their bytes.
LEMMA EnoughBytes ==
  /\ \A n \in Nat : (n < P \/ n < Q) => n < Capacity(ScalarBytes)
  /\ \A n \in Nat : n < 1009 => n < Capacity(DigestBytes)
<1>1. ASSUME NEW len \in Nat PROVE Capacity(len) \in Nat
  <2>1. PICK w : PlaceValues(w, len)
    BY CapacityFacts
  <2> QED
    BY <2>1 DEF PlaceValues
<1>2. Capacity(ScalarBytes) \in Nat /\ Capacity(DigestBytes) \in Nat
  BY <1>1, Lengths
<1> DEFINE c == Capacity(ScalarBytes)
           d == Capacity(DigestBytes)
<1>3. P \in Nat /\ Q \in Nat /\ c >= P /\ c >= Q /\ d > 1009
  BY FieldAssumption, HelperAssumption, BytesAssumption
<1> HIDE DEF c, d
<1>4. \A n \in Nat : (n < P \/ n < Q) => n < c
  BY <1>2, <1>3 DEF c
<1>5. \A n \in Nat : n < 1009 => n < d
  BY <1>2, <1>3 DEF d
<1> QED
  BY <1>4, <1>5 DEF c, d

\* A digest is read as the hash it was written from.
LEMMA DigestsAreRead ==
  ASSUME NEW shared \in Seq(Int), NEW inputs \in MaskInputs
  PROVE  /\ MaskDigest(shared, TranscriptOf(inputs)) \in Seq(Bytes)
         /\ Len(MaskDigest(shared, TranscriptOf(inputs))) = DigestBytes
         /\ TraceTranscriptDigest(TranscriptOf(inputs)) \in Seq(Bytes)
         /\ Len(TraceTranscriptDigest(TranscriptOf(inputs))) = DigestBytes
         /\ NumberOf(MaskDigest(shared, TranscriptOf(inputs))) % P
              = HashToScalar(shared \o TranscriptOf(inputs))
         /\ HashToScalar(shared \o TranscriptOf(inputs)) \in Scalars
<1> DEFINE hashed == shared \o TranscriptOf(inputs)
           other == <<1>> \o TranscriptOf(inputs)
           hash == HashOf(hashed)
           otherHash == HashOf(other)
<1>1. hashed \in Seq(Int) /\ other \in Seq(Int)
  BY TranscriptType
<1>2. /\ MaskDigest(shared, TranscriptOf(inputs)) = Digits(hash, DigestBytes)
      /\ TraceTranscriptDigest(TranscriptOf(inputs)) = Digits(otherHash, DigestBytes)
      /\ HashToScalar(shared \o TranscriptOf(inputs)) = hash % P
  BY DEF MaskDigest, TraceTranscriptDigest, HashToScalar
<1> HIDE DEF hashed, other
<1>3. hash \in Nat /\ hash < 1009 /\ otherHash \in Nat /\ HashToScalar(hashed) \in Scalars
  BY <1>1, HashType
<1> HIDE DEF hash, otherHash
<1>4. /\ Digits(hash, DigestBytes) \in Seq(Bytes) /\ Len(Digits(hash, DigestBytes)) = DigestBytes
      /\ Digits(otherHash, DigestBytes) \in Seq(Bytes)
      /\ Len(Digits(otherHash, DigestBytes)) = DigestBytes
  BY <1>3, DigitsFacts, Lengths
<1>5. NumberOf(Digits(hash, DigestBytes)) = hash
  BY <1>3, NumberOfDigits, Lengths, EnoughBytes
<1> QED
  BY <1>2, <1>3, <1>4, <1>5 DEF hashed

LEMMA EncodedNumbers ==
  ASSUME NEW point \in 0 .. (Q - 1)
  PROVE  EncodePoint(point) \in Seq(Int)
<1>1. EncodePoint(point) \in Seq(Bytes)
  BY EncodingType
<1> QED
  BY <1>1, BytesAreNumbers

\* What a trace is built from is written in bytes.
LEMMA MaskTraceFits ==
  ASSUME NEW inputs \in MaskInputs, NEW witness \in MaskWitnesses
  PROVE  LET trace == MaskTrace(inputs, witness) IN
         /\ trace = [part \in MaskParts |-> trace[part]]
         /\ Fits(trace, MaskLengths)
         /\ trace.domain = MaskDomain
         /\ trace.sharedPoint = EncodePoint(witness.shared)
         /\ trace.transcriptDigest = TraceTranscriptDigest(TranscriptOf(inputs))
         /\ trace.maskDigest = MaskDigest(trace.sharedPoint, TranscriptOf(inputs))
         /\ NumberOf(trace.mask) = HashToScalar(trace.sharedPoint \o TranscriptOf(inputs))
<1> DEFINE trace == MaskTrace(inputs, witness)
           shared == EncodePoint(witness.shared)
           transcript == TranscriptOf(inputs)
           m == HashToScalar(shared \o transcript)
<1>1. /\ trace.domain = MaskDomain /\ trace.sharedPoint = shared
      /\ trace.transcriptDigest = TraceTranscriptDigest(transcript)
      /\ trace.maskDigest = MaskDigest(shared, transcript)
      /\ trace.mask = Digits(NumberOf(MaskDigest(shared, transcript)) % P, ScalarBytes)
      /\ trace = [part \in MaskParts |-> trace[part]]
  BY DEF MaskTrace, MaskParts
<1>2. witness.shared \in 0 .. (Q - 1)
  BY DEF MaskWitnesses
<1>3. shared \in Seq(Bytes) /\ Len(shared) = ScalarBytes + 1 /\ shared \in Seq(Int)
  BY <1>2, EncodingType, EncodedNumbers
<1> HIDE DEF trace, shared
<1>4. /\ MaskDigest(shared, transcript) \in Seq(Bytes)
      /\ Len(MaskDigest(shared, transcript)) = DigestBytes
      /\ TraceTranscriptDigest(transcript) \in Seq(Bytes)
      /\ Len(TraceTranscriptDigest(transcript)) = DigestBytes
      /\ NumberOf(MaskDigest(shared, transcript)) % P = m
      /\ m \in Scalars
  BY <1>3, DigestsAreRead
<1> HIDE DEF m, transcript
<1>5. m \in Nat /\ m < P
  BY <1>4, FieldAssumption DEF Scalars
<1>6. /\ Digits(m, ScalarBytes) \in Seq(Bytes) /\ Len(Digits(m, ScalarBytes)) = ScalarBytes
      /\ NumberOf(Digits(m, ScalarBytes)) = m
  BY <1>5, Lengths, EnoughBytes, DigitsFacts, NumberOfDigits
<1>7. MaskDomain \in Seq(Bytes) /\ Len(MaskDomain) = 2
  BY ByteFacts DEF MaskDomain
<1>8. Fits(trace, MaskLengths)
  BY <1>1, <1>3, <1>4, <1>6, <1>7, Lengths DEF Fits, MaskParts
<1> QED
  BY <1>1, <1>4, <1>6, <1>8 DEF trace, shared, m, transcript

LEMMA DhTraceFits ==
  ASSUME NEW inputs \in MaskInputs, NEW witness \in MaskWitnesses
  PROVE  LET trace == DhTrace(inputs, witness) IN
         /\ trace = [part \in DhParts |-> trace[part]]
         /\ Fits(trace, DhLengths)
         /\ NumberOf(trace.secret) = witness.secret
<1> DEFINE trace == DhTrace(inputs, witness)
<1>1. /\ trace.secret = Digits(witness.secret, ScalarBytes)
      /\ trace.dealer = EncodePoint(inputs.dealerPublic)
      /\ trace.participant = EncodePoint(inputs.participantPublic)
      /\ trace.sharedPoint = EncodePoint(witness.shared)
      /\ trace = [part \in DhParts |-> trace[part]]
  BY DEF DhTrace, DhParts
<1>2. /\ witness.secret \in 0 .. (Q - 1) /\ witness.shared \in 0 .. (Q - 1)
      /\ inputs.dealerPublic \in 0 .. (Q - 1) /\ inputs.participantPublic \in 0 .. (Q - 1)
  BY DEF MaskInputs, MaskWitnesses
<1>3. /\ Digits(witness.secret, ScalarBytes) \in Seq(Bytes)
      /\ Len(Digits(witness.secret, ScalarBytes)) = ScalarBytes
      /\ NumberOf(Digits(witness.secret, ScalarBytes)) = witness.secret
  <2>1. witness.secret \in Nat /\ witness.secret < Q
    BY <1>2, HelperAssumption
  <2> QED
    BY <2>1, Lengths, EnoughBytes, DigitsFacts, NumberOfDigits
<1>4. /\ trace.dealer \in Seq(Bytes) /\ Len(trace.dealer) = ScalarBytes + 1
      /\ trace.participant \in Seq(Bytes) /\ Len(trace.participant) = ScalarBytes + 1
      /\ trace.sharedPoint \in Seq(Bytes) /\ Len(trace.sharedPoint) = ScalarBytes + 1
  BY <1>1, <1>2, EncodingType
<1> HIDE DEF trace
<1>5. Fits(trace, DhLengths)
  BY <1>1, <1>3, <1>4, Lengths DEF Fits, DhParts
<1> QED
  BY <1>1, <1>3, <1>5 DEF trace

\* Bytes are limbs.
LEMMA FittingTrace ==
  ASSUME NEW trace, NEW lengths, trace = [part \in DOMAIN lengths |-> trace[part]],
         Fits(trace, lengths)
  PROVE  IsTrace(trace, DOMAIN lengths)
<1>1. Bytes \subseteq Limbs
  BY ByteFacts DEF Bytes, Limbs
<1>2. \A part \in DOMAIN lengths : trace[part] \in Seq(Limbs)
  <2> TAKE part \in DOMAIN lengths
  <2> DEFINE t == trace[part]
  <2>1. t \in Seq(Bytes)
    BY DEF Fits
  <2> HIDE DEF t
  <2>2. Len(t) \in Nat /\ t = [k \in 1 .. Len(t) |-> t[k]] /\ \A k \in 1 .. Len(t) : t[k] \in Limbs
    BY <1>1, <2>1
  <2> QED
    BY <2>2 DEF t
<1> QED
  BY <1>2 DEF IsTrace

\* The limbs of a trace in one of the views.
View(view, trace) == IF view = "u16" THEN trace ELSE BytesToFieldLimbs(trace)

\* Each verifier of limbs verifies the bytes, if they are bytes; both views alike.
LEMMA LimbsAsBytes ==
  ASSUME NEW view \in {"u16", "field"}, NEW trace, NEW lengths, IsTrace(trace, DOMAIN lengths)
  PROVE  LimbsToBytes(view, View(view, trace), lengths)
           = IF Fits(trace, lengths) THEN {trace} ELSE {}
<1>1. Shows("u16", trace, trace) /\ Shows("field", BytesToFieldLimbs(trace), trace)
  BY BothShow
<1>2. Shows(view, View(view, trace), trace)
  BY <1>1 DEF View
<1> QED
  BY <1>2, ReadAsBytes

LEMMA MaskLimbsAsBytes ==
  ASSUME NEW view \in {"u16", "field"}, NEW inputs, NEW trace, IsTrace(trace, MaskParts)
  PROVE  VerifyMaskTrace(view, inputs, View(view, trace))
           = IF Fits(trace, MaskLengths) /\ trace.domain = MaskDomain
             THEN VerifyMaskHashBytes(inputs, trace) ELSE {}
<1>1. LimbsToBytes(view, View(view, trace), MaskLengths)
        = IF Fits(trace, MaskLengths) THEN {trace} ELSE {}
  BY LimbsAsBytes, Lengths
<1> QED
  BY <1>1 DEF VerifyMaskTrace

LEMMA DhLimbsAsBytes ==
  ASSUME NEW view \in {"u16", "field"}, NEW inputs, NEW trace, IsTrace(trace, DhParts)
  PROVE  VerifyDhTrace(view, inputs, View(view, trace))
           <=> Fits(trace, DhLengths) /\ VerifyVestaDhBytes(inputs, trace)
<1>1. LimbsToBytes(view, View(view, trace), DhLengths)
        = IF Fits(trace, DhLengths) THEN {trace} ELSE {}
  BY LimbsAsBytes, Lengths
<1> QED
  BY <1>1 DEF VerifyDhTrace

----------------------------------------------------------------------------
(* Honest proofs *)

\* What an honest prover goes by.
HonestCase(inputs, witness) ==
  /\ inputs \in MaskInputs
  /\ witness \in MaskWitnesses
  /\ ValidateMaskWitness(inputs, witness)

\* Its own traces are accepted in either view: that of the Diffie-Hellman half
LEMMA DhTraceAccepted ==
  ASSUME NEW inputs, NEW witness, HonestCase(inputs, witness), NEW view \in {"u16", "field"}
  PROVE  VerifyDhTrace(view, inputs, View(view, DhTrace(inputs, witness)))
<1> DEFINE trace == DhTrace(inputs, witness)
<1>1. /\ inputs \in MaskInputs /\ witness \in MaskWitnesses
      /\ inputs.dealerPublic = HelperPublic(witness.secret)
      /\ witness.shared = DiffieHellman(witness.secret, inputs.participantPublic)
  BY DEF HonestCase, ValidateMaskWitness
<1>2. /\ witness.secret \in 0 .. (Q - 1) /\ witness.shared \in 0 .. (Q - 1)
      /\ inputs.dealerPublic \in 0 .. (Q - 1) /\ inputs.participantPublic \in 0 .. (Q - 1)
  BY <1>1 DEF MaskInputs, MaskWitnesses
<1>3. /\ trace.dealer = EncodePoint(inputs.dealerPublic)
      /\ trace.participant = EncodePoint(inputs.participantPublic)
      /\ trace.sharedPoint = EncodePoint(witness.shared)
  BY DEF DhTrace
<1>4. /\ trace = [part \in DhParts |-> trace[part]] /\ Fits(trace, DhLengths)
      /\ NumberOf(trace.secret) = witness.secret
  BY <1>1, DhTraceFits
<1> HIDE DEF trace
<1>5. VerifyVestaDhBytes(inputs, trace)
  <2>1. witness.secret \in ScalarsOf(trace.secret, Q)
    BY <1>2, <1>4, HelperAssumption DEF ScalarsOf
  <2>2. /\ inputs.dealerPublic \in PointsEncodedBy(trace.dealer)
        /\ inputs.participantPublic \in PointsEncodedBy(trace.participant)
        /\ witness.shared \in PointsEncodedBy(trace.sharedPoint)
    BY <1>2, <1>3 DEF PointsEncodedBy
  <2> QED
    BY <1>1, <2>1, <2>2 DEF VerifyVestaDhBytes
<1>6. IsTrace(trace, DhParts)
  BY <1>4, FittingTrace, Lengths
<1> QED
  BY <1>4, <1>5, <1>6, DhLimbsAsBytes DEF trace

\* and that of the hash, as that of the mask.
LEMMA MaskTraceAccepted ==
  ASSUME NEW inputs, NEW witness, HonestCase(inputs, witness), NEW view \in {"u16", "field"}
  PROVE  VerifyMaskTrace(view, inputs, View(view, MaskTrace(inputs, witness))) = {witness.mask}
<1> DEFINE trace == MaskTrace(inputs, witness)
           transcript == TranscriptOf(inputs)
           m == HashToScalar(trace.sharedPoint \o transcript)
<1>1. /\ inputs \in MaskInputs /\ witness \in MaskWitnesses
      /\ witness.mask = HashToScalar(EncodePoint(witness.shared) \o transcript)
  BY DEF HonestCase, ValidateMaskWitness
<1>2. witness.shared \in 0 .. (Q - 1)
  BY <1>1 DEF MaskWitnesses
<1>3. /\ trace = [part \in MaskParts |-> trace[part]] /\ Fits(trace, MaskLengths)
      /\ trace.domain = MaskDomain /\ trace.sharedPoint = EncodePoint(witness.shared)
      /\ trace.transcriptDigest = TraceTranscriptDigest(transcript)
      /\ trace.maskDigest = MaskDigest(trace.sharedPoint, transcript)
      /\ NumberOf(trace.mask) = m
  BY <1>1, MaskTraceFits
<1> HIDE DEF trace, transcript
<1>4. trace.sharedPoint \in Seq(Int)
  BY <1>2, <1>3, EncodedNumbers
<1>5. NumberOf(trace.maskDigest) % P = m /\ m \in Scalars
  BY <1>1, <1>3, <1>4, DigestsAreRead DEF transcript
<1> HIDE DEF m
<1>6. ScalarsOf(trace.mask, P) = {m}
  BY <1>3, <1>5, FieldAssumption DEF ScalarsOf, Scalars
<1>7. VerifyMaskHashBytes(inputs, trace) = {m}
  BY <1>3, <1>5, <1>6 DEF VerifyMaskHashBytes, transcript
<1>8. m = witness.mask
  BY <1>1, <1>3 DEF m
<1>9. IsTrace(trace, MaskParts)
  BY <1>3, FittingTrace, Lengths
<1> QED
  BY <1>3, <1>7, <1>8, <1>9, MaskLimbsAsBytes DEF trace

LEMMA PublicRelationAccepted ==
  ASSUME NEW inputs, NEW witness, HonestCase(inputs, witness)
  PROVE  VerifyPublicRelation(inputs, MaskTrace(inputs, witness))
<1>1. VerifyMaskTrace("field", inputs, View("field", MaskTrace(inputs, witness))) = {witness.mask}
  BY MaskTraceAccepted
<1>2. VerifyMaskTrace("field", inputs, BytesToFieldLimbs(MaskTrace(inputs, witness)))
        = {witness.mask}
  BY <1>1 DEF View
<1> QED
  BY <1>2 DEF VerifyPublicRelation, HonestCase, ValidateMaskWitness

\* The least of a set of integers is the one below all others.
LEMMA LeastIsMin ==
  ASSUME NEW I \in SUBSET Int, NEW i \in I, \A j \in I : i <= j
  PROVE  Min(I) = i
<1>1. \E x \in I : \A y \in I : x =< y
  OBVIOUS
<1> DEFINE m == CHOOSE x \in I : \A y \in I : x =< y
<1>2. m \in I /\ \A y \in I : m =< y
  BY <1>1
<1>3. Min(I) = m
  BY DEF Min
<1> HIDE DEF m
<1>4. m \in Int /\ i \in Int /\ m =< i /\ i =< m
  BY <1>2
<1> QED
  BY <1>3, <1>4

\* The setup of a circuit has room for its padded wires.
LEMMA SetupSupports ==
  ASSUME NEW circuit, circuit.internal \in Nat
  PROVE  Supports(SetupFor(circuit), PaddedVars(circuit))
<1> DEFINE m == Larger(circuit.internal, 1)
           Padded(n) == /\ IsPowerOfTwo(n) /\ n >= m
                        /\ \A l \in 1 .. (n - 1) : IsPowerOfTwo(l) => l < m
           S == {k \in Nat : TwoTo[k] >= m}
           k0 == Min(S)
           n0 == TwoTo[k0]
           n1 == PaddedVars(circuit)
<1>1. m \in Nat /\ m >= 1
  BY DEF Larger
<1> HIDE DEF m
<1>2. m \in S
  <2>1. m < TwoTo[m] /\ TwoTo[m] \in Nat
    BY <1>1, TwoToGrows, TwoToFacts
  <2> QED
    BY <1>1, <2>1
<1>3. k0 \in S /\ \A k \in S : k0 <= k
  <2>1. S \in SUBSET Nat /\ S # {}
    BY <1>2
  <2> HIDE DEF S
  <2>2. Min(S) \in S /\ \E x \in S : \A y \in S : x <= y
    BY <2>1, LeastElement
  <2>3. PICK x \in S : \A y \in S : x <= y
    BY <2>2
  <2>4. Min(S) = x
    <3>1. S \in SUBSET Int
      BY <2>1
    <3> QED
      BY <2>3, <3>1, LeastIsMin
  <2> QED
    BY <2>3, <2>4
<1>4. k0 \in Nat /\ n0 \in Nat /\ n0 >= m /\ n0 >= 1
  <2>1. k0 \in Nat /\ TwoTo[k0] >= m
    BY <1>3
  <2> HIDE DEF k0
  <2>2. TwoTo[k0] \in Nat
    BY <2>1, TwoToFacts
  <2> QED
    BY <1>1, <2>1, <2>2
<1> HIDE DEF k0
<1>5. n0 <= 2 * m
  <2>1. CASE k0 = 0
    BY <1>1, <2>1, TwoToFacts
  <2>2. CASE k0 # 0
    <3>1. k0 - 1 \in Nat /\ (k0 - 1) + 1 = k0 /\ k0 - 1 < k0
      BY <1>4, <2>2
    <3>2. k0 - 1 \notin S
      BY <1>3, <1>4, <3>1
    <3>3. ~(TwoTo[k0 - 1] >= m)
      BY <3>1, <3>2
    <3>4. TwoTo[k0 - 1] \in Nat /\ n0 = 2 * TwoTo[k0 - 1]
      BY <3>1, TwoToFacts
    <3> QED
      BY <1>1, <3>3, <3>4
  <2> QED
    BY <2>1, <2>2
<1>6. ASSUME NEW l \in Nat, IsPowerOfTwo(l) PROVE \E k \in Nat : l = TwoTo[k]
  <2>1. PICK k \in 0 .. l : l = 2 ^ k
    BY <1>6 DEF IsPowerOfTwo
  <2>2. k \in Nat
    OBVIOUS
  <2> QED
    BY <2>1, <2>2 DEF TwoTo
<1>7. IsPowerOfTwo(n0)
  <2>1. k0 < n0 /\ n0 = 2 ^ k0
    BY <1>4, TwoToGrows DEF TwoTo
  <2>2. k0 \in 0 .. n0
    BY <1>4, <2>1
  <2> HIDE DEF n0
  <2> QED
    BY <2>1, <2>2 DEF IsPowerOfTwo
<1>8. ASSUME NEW l \in 1 .. (n0 - 1), IsPowerOfTwo(l) PROVE l < m
  <2>1. l \in Nat /\ l < n0
    BY <1>4
  <2>2. PICK k \in Nat : l = TwoTo[k]
    BY <1>6, <1>8, <2>1
  <2>3. ~(k0 <= k)
    <3>1. ASSUME k0 < k PROVE TwoTo[k0] < TwoTo[k]
      BY <1>4, <3>1, TwoToGrows
    <3>2. k # k0
      BY <1>4, <2>1, <2>2
    <3> QED
      BY <1>4, <2>1, <2>2, <3>1, <3>2
  <2>4. k \notin S
    BY <1>3, <2>3
  <2> QED
    BY <1>1, <2>1, <2>2, <2>4
<1>9. n0 \in 1 .. (2 * m) /\ Padded(n0)
  <2> HIDE DEF n0
  <2> QED
    BY <1>1, <1>4, <1>5, <1>7, <1>8
<1>10. n1 \in 1 .. (2 * m) /\ Padded(n1)
  <2>1. n1 = CHOOSE n \in 1 .. (2 * m) : Padded(n)
    BY DEF PaddedVars, m
  <2> HIDE DEF n0, n1, Padded
  <2> QED
    BY <1>9, <2>1
<1> HIDE DEF n1
<1>11. n1 \in Nat
  BY <1>1, <1>10
<1>12. PICK k \in Nat : n1 = TwoTo[k]
  BY <1>6, <1>10, <1>11
<1>13. LogLen(n1) = k
  BY <1>12, TrailingZeros DEF LogLen
<1>14. TwoTo[k] = 2 ^ k
  BY DEF TwoTo
<1> DEFINE ipa == SetupFor(circuit).ipa
<1>15. ipa = Deterministic(CircuitDomain, k)
  BY <1>13 DEF SetupFor, CircuitSetup, CircuitLogLen, n1
<1>16. /\ ipa.g = [i \in 1 .. n1 |-> DeriveSetupGenerator(CircuitDomain, "ipa-g", i)]
       /\ ipa.h = [i \in 1 .. n1 |-> DeriveSetupGenerator(CircuitDomain, "ipa-h", i)]
  BY <1>12, <1>14, <1>15 DEF Deterministic
<1>17. Len(ipa.g) = n1 /\ Len(ipa.h) = n1
  BY <1>11, <1>16
<1> HIDE DEF ipa
<1>18. Len(ipa.g) >= n1 /\ Len(ipa.h) >= n1
  BY <1>11, <1>17
<1> QED
  BY <1>18 DEF Supports, ipa, n1

\* The values of a claim are the commitments of its witness, one by one.
LEMMA ClaimOfTwo ==
  ASSUME NEW setup, NEW v1, NEW v2, NEW b1, NEW b2
  PROVE  ClaimOf(setup, [values |-> <<v1, v2>>, blinding |-> <<b1, b2>>]) =
           <<CommitValue(setup, v1, b1), CommitValue(setup, v2, b2)>>
<1> DEFINE w == [values |-> <<v1, v2>>, blinding |-> <<b1, b2>>]
           C(k) == CommitValue(setup, w.values[k], w.blinding[k])
<1>1. C(1) = CommitValue(setup, v1, b1) /\ C(2) = CommitValue(setup, v2, b2)
  OBVIOUS
<1>2. DOMAIN w.values = 1 .. 2
  OBVIOUS
<1>3. ClaimOf(setup, w) = [k \in 1 .. 2 |-> C(k)]
  BY <1>2 DEF ClaimOf
<1> HIDE DEF C
<1>4. [k \in 1 .. 2 |-> C(k)] = <<C(1), C(2)>>
  OBVIOUS
<1> QED
  BY <1>1, <1>3, <1>4

LEMMA ClaimOfThree ==
  ASSUME NEW setup, NEW v1, NEW v2, NEW v3, NEW b1, NEW b2, NEW b3
  PROVE  ClaimOf(setup, [values |-> <<v1, v2, v3>>, blinding |-> <<b1, b2, b3>>]) =
           <<CommitValue(setup, v1, b1), CommitValue(setup, v2, b2),
             CommitValue(setup, v3, b3)>>
<1> DEFINE w == [values |-> <<v1, v2, v3>>, blinding |-> <<b1, b2, b3>>]
           C(k) == CommitValue(setup, w.values[k], w.blinding[k])
<1>1. /\ C(1) = CommitValue(setup, v1, b1) /\ C(2) = CommitValue(setup, v2, b2)
      /\ C(3) = CommitValue(setup, v3, b3)
  OBVIOUS
<1>2. DOMAIN w.values = 1 .. 3
  OBVIOUS
<1>3. ClaimOf(setup, w) = [k \in 1 .. 3 |-> C(k)]
  BY <1>2 DEF ClaimOf
<1> HIDE DEF C
<1>4. [k \in 1 .. 3 |-> C(k)] = <<C(1), C(2), C(3)>>
  OBVIOUS
<1> QED
  BY <1>1, <1>3, <1>4

\* A shared point with coordinates satisfies both circuits.
LEMMA HonestCoordinates ==
  ASSUME NEW inputs, NEW witness, HonestCase(inputs, witness), witness.shared # 0
  PROVE  LET at == Affine[witness.shared] IN
         /\ at \in Scalars \X Scalars
         /\ MaskCircuitHolds(TranscriptOf(inputs), witness.mask, at[1], at[2])
         /\ DhCircuitHolds(inputs.dealerPublic, inputs.participantPublic, witness.secret,
                           at[1], at[2])
         /\ inputs.participantPublic # 0
<1> DEFINE at == Affine[witness.shared]
<1>1. /\ witness.secret \in 0 .. (Q - 1) /\ witness.shared \in 1 .. (Q - 1)
      /\ inputs.dealerPublic = HelperPublic(witness.secret)
      /\ witness.shared = DiffieHellman(witness.secret, inputs.participantPublic)
      /\ witness.mask = HashToScalar(EncodePoint(witness.shared) \o TranscriptOf(inputs))
  <2>1. witness.shared \in 0 .. (Q - 1)
    BY DEF HonestCase, MaskWitnesses
  <2>2. witness.shared \in 1 .. (Q - 1)
    BY <2>1, HelperAssumption
  <2> QED
    BY <2>2 DEF HonestCase, MaskWitnesses, ValidateMaskWitness
<1>2. at \in Scalars \X Scalars /\ OnCurve(at[1], at[2])
  <2>1. at \in {Affine[k] : k \in 1 .. (Q - 1)}
    BY <1>1
  <2> QED
    BY <2>1, CurveAssumption
<1>3. EncodePoint(witness.shared) = CompressedBytes(at[1], at[2])
  BY <1>1 DEF EncodePoint
<1>4. MaskCircuitHolds(TranscriptOf(inputs), witness.mask, at[1], at[2])
  BY <1>1, <1>2, <1>3 DEF MaskCircuitHolds
<1>5. at = <<at[1], at[2]>>
  BY <1>2
<1>6. DhCircuitHolds(inputs.dealerPublic, inputs.participantPublic, witness.secret, at[1], at[2])
  BY <1>1, <1>5 DEF DhCircuitHolds
<1>7. inputs.participantPublic # 0
  <2>1. witness.secret \in Int
    BY <1>1, HelperAssumption
  <2>2. 0 * witness.secret = 0
    BY <2>1
  <2>3. 0 % Q = 0
    BY HelperAssumption
  <2>4. DiffieHellman(witness.secret, 0) = 0
    BY <2>2, <2>3 DEF DiffieHellman
  <2> QED
    BY <1>1, <2>4
<1> QED
  BY <1>2, <1>4, <1>6, <1>7

\* So each half can be made: the mask is committed to without a blinding, and the
\* commitments to the coordinates are the same under either setup.
LEMMA HonestHalves ==
  ASSUME NEW inputs, NEW witness, HonestCase(inputs, witness), witness.shared # 0,
         NEW blindings \in Scalars \X Scalars
  PROVE  LET opening == OpeningOf(Affine[witness.shared], blindings) IN
         /\ MaskHalf(inputs, witness.mask, 0, opening) # {}
         /\ DhHalf(inputs, witness.secret, opening) # {}
<1> DEFINE at == Affine[witness.shared]
           opening == OpeningOf(at, blindings)
           circuit == MaskCircuit(inputs)
           setup == SetupFor(circuit)
           shared == SharedCommitments(setup, opening)
<1>1. /\ at \in Scalars \X Scalars
      /\ MaskCircuitHolds(TranscriptOf(inputs), witness.mask, at[1], at[2])
      /\ DhCircuitHolds(inputs.dealerPublic, inputs.participantPublic, witness.secret,
                        at[1], at[2])
      /\ inputs.participantPublic # 0
  BY HonestCoordinates
<1>2. /\ witness.mask \in Scalars
      /\ inputs.maskCommitment = MaskPoint(witness.mask)
  BY DEF HonestCase, MaskWitnesses, ValidateMaskWitness
<1> HIDE DEF at
<1>3. /\ opening.x = at[1] /\ opening.y = at[2]
      /\ opening.xBlinding = blindings[1] /\ opening.yBlinding = blindings[2]
  BY DEF OpeningOf
<1> HIDE DEF opening
<1>4. MaskHalf(inputs, witness.mask, 0, opening) # {}
  <2> DEFINE statement == MaskCircuitClaim(inputs, shared)
             values == <<witness.mask, opening.x, opening.y>>
             hiding == <<0, opening.xBlinding, opening.yBlinding>>
  <2>1. /\ statement.setup = setup /\ statement.circuit = circuit
        /\ statement.claim = <<inputs.maskCommitment, shared.x, shared.y>>
    BY DEF MaskCircuitClaim
  <2>2. /\ shared.x = CommitValue(setup, opening.x, opening.xBlinding)
        /\ shared.y = CommitValue(setup, opening.y, opening.yBlinding)
    BY DEF SharedCommitments
  <2>3. inputs.maskCommitment = CommitValue(setup, witness.mask, 0)
    BY <1>2, Unblinded
  <2>4. ClaimOf(setup, [values |-> values, blinding |-> hiding]) =
          <<CommitValue(setup, witness.mask, 0), CommitValue(setup, opening.x, opening.xBlinding),
            CommitValue(setup, opening.y, opening.yBlinding)>>
    BY ClaimOfThree
  <2>5. statement.claim =
          ClaimOf(statement.setup, [values |-> values, blinding |-> hiding])
    <3> HIDE DEF statement, setup, shared
    <3> QED
      BY <2>1, <2>2, <2>3, <2>4
  <2>6. Supports(statement.setup, PaddedVars(statement.circuit))
    <3>1. circuit.internal \in Nat
      BY AgendaAssumption DEF MaskCircuit
    <3>2. Supports(SetupFor(circuit), PaddedVars(circuit))
      BY <3>1, SetupSupports
    <3> QED
      BY <2>1, <3>2
  <2>7. MaskCircuitHolds(TranscriptOf(inputs), witness.mask, opening.x, opening.y)
    BY <1>1, <1>3
  <2>8. MaskHalf(inputs, witness.mask, 0, opening) =
          CircuitProofs(statement, values, hiding,
                        MaskCircuitHolds(TranscriptOf(inputs), witness.mask,
                                         opening.x, opening.y))
    BY DEF MaskHalf
  <2> HIDE DEF statement, values, hiding
  <2> QED
    BY <2>5, <2>6, <2>7, <2>8 DEF CircuitProofs
<1>5. DhHalf(inputs, witness.secret, opening) # {}
  <2> DEFINE dh == [relation |-> "dh", dealer |-> inputs.dealerPublic,
                    participant |-> inputs.participantPublic, internal |-> DhInternal]
             statement == [setup |-> SetupFor(dh), circuit |-> dh,
                           claim |-> <<shared.x, shared.y>>]
             values == <<opening.x, opening.y>>
             hiding == <<opening.xBlinding, opening.yBlinding>>
             holds == DhCircuitHolds(inputs.dealerPublic, inputs.participantPublic,
                                     witness.secret, opening.x, opening.y)
  <2>1. statement \in VestaDhCircuitClaims(inputs, shared)
    <3>1. DhCircuits(inputs) = {dh}
      BY <1>1 DEF DhCircuits
    <3> QED
      BY <3>1 DEF VestaDhCircuitClaims
  <2>2. /\ shared.x = CommitValue(SetupFor(dh), opening.x, opening.xBlinding)
        /\ shared.y = CommitValue(SetupFor(dh), opening.y, opening.yBlinding)
    BY SameCommitments DEF SharedCommitments
  <2>3. ClaimOf(SetupFor(dh), [values |-> values, blinding |-> hiding]) =
          <<CommitValue(SetupFor(dh), opening.x, opening.xBlinding),
            CommitValue(SetupFor(dh), opening.y, opening.yBlinding)>>
    BY ClaimOfTwo
  <2>4. Supports(SetupFor(dh), PaddedVars(dh))
    <3>1. dh.internal \in Nat
      BY AgendaAssumption
    <3> HIDE DEF dh
    <3> QED
      BY <3>1, SetupSupports
  <2>5. statement.setup = SetupFor(dh) /\ statement.circuit = dh
        /\ statement.claim = <<shared.x, shared.y>>
    OBVIOUS
  <2>6. holds
    BY <1>1, <1>3
  <2> HIDE DEF statement, dh, values, hiding, holds, shared
  <2>7. statement.claim = ClaimOf(statement.setup, [values |-> values, blinding |-> hiding])
    BY <2>2, <2>3, <2>5
  <2>8. CircuitProofs(statement, values, hiding, holds) = {statement}
    BY <2>4, <2>5, <2>6, <2>7 DEF CircuitProofs
  <2>9. DhHalf(inputs, witness.secret, opening) =
          UNION {CircuitProofs(s, values, hiding, holds) :
                   s \in VestaDhCircuitClaims(inputs, shared)}
    BY DEF DhHalf, values, hiding, holds, shared
  <2>10. statement \in DhHalf(inputs, witness.secret, opening)
    BY <2>1, <2>8, <2>9
  <2> QED
    BY <2>10
<1> QED
  BY <1>4, <1>5 DEF opening, at

\* An honest prover is refused only for a shared point without coordinates,
LEMMA HonestProverSucceeds ==
  ASSUME NEW inputs, NEW witness, HonestCase(inputs, witness), witness.shared # 0,
         NEW blindings \in Scalars \X Scalars
  PROVE  ProveMask(inputs, witness, blindings) # {}
<1> DEFINE opening == OpeningOf(Affine[witness.shared], blindings)
           proofOf(mask, dh) ==
             [backend |-> Backend,
              shared |-> SharedCommitments(SetupFor(MaskCircuit(inputs)), opening),
              mask |-> mask, dh |-> dh]
<1>1. PICK mask \in MaskHalf(inputs, witness.mask, 0, opening),
           dh \in DhHalf(inputs, witness.secret, opening) : TRUE
  BY HonestHalves
<1>2. EncodeSkeletonProof(inputs, witness, blindings) =
        {proofOf(m, d) : m \in MaskHalf(inputs, witness.mask, 0, opening),
                         d \in DhHalf(inputs, witness.secret, opening)}
  BY DEF EncodeSkeletonProof
<1>3. proofOf(mask, dh) \in EncodeSkeletonProof(inputs, witness, blindings)
  <2> HIDE DEF proofOf, opening
  <2> QED
    BY <1>1, <1>2
<1>4. /\ ValidateMaskWitness(inputs, witness)
      /\ VerifyDhTrace("field", inputs, BytesToFieldLimbs(DhTrace(inputs, witness)))
      /\ VerifyPublicRelation(inputs, MaskTrace(inputs, witness))
  <2>1. View("field", DhTrace(inputs, witness)) = BytesToFieldLimbs(DhTrace(inputs, witness))
    BY DEF View
  <2> QED
    BY <2>1, DhTraceAccepted, PublicRelationAccepted DEF HonestCase
<1>5. ProveMask(inputs, witness, blindings) = EncodeSkeletonProof(inputs, witness, blindings)
  BY <1>4 DEF ProveMask
<1> QED
  BY <1>3, <1>5

\* and whatever it makes verifies.
LEMMA MadeProofVerifies ==
  ASSUME NEW inputs, NEW witness, NEW blindings,
         NEW proof \in ProveMask(inputs, witness, blindings)
  PROVE  Verify(inputs, proof) = "Ok"
<1> DEFINE opening == OpeningOf(Affine[witness.shared], blindings)
           shared == SharedCommitments(SetupFor(MaskCircuit(inputs)), opening)
<1>1. /\ proof.backend = Backend /\ proof.shared = shared
      /\ proof.mask \in MaskHalf(inputs, witness.mask, 0, opening)
      /\ proof.dh \in DhHalf(inputs, witness.secret, opening)
  BY DEF ProveMask, EncodeSkeletonProof
<1>2. proof.mask = MaskCircuitClaim(inputs, shared)
  BY <1>1 DEF MaskHalf, CircuitProofs
<1>3. proof.dh \in VestaDhCircuitClaims(inputs, shared)
  BY <1>1 DEF DhHalf, CircuitProofs
<1>4. DhCircuits(inputs) # {}
  BY <1>3 DEF VestaDhCircuitClaims
<1> HIDE DEF shared
<1> QED
  BY <1>1, <1>2, <1>3, <1>4 DEF Verify

\* Inductive as it stands: items are only added and refusals only recorded.
HonestInv ==
  /\ agenda \in Agendas
  /\ ItemsOK
  /\ HonestProofVerifies

LEMMA AddingHonest ==
  ASSUME HonestInv, NEW inputs, NEW proof, NEW made, Add1(inputs, proof, made),
         UNCHANGED <<agenda, refusal>>,
         made = "prove" => Verify(inputs, proof) = "Ok"
  PROVE  HonestInv'
<1> DEFINE item == [inputs |-> inputs, proof |-> proof, made |-> made]
<1>1. PICK S : items \in Seq(S)
  BY DEF HonestInv, ItemsOK
<1>2. /\ items' \in Seq(S \cup {item})
      /\ DOMAIN items' = DOMAIN items \cup {Len(items) + 1}
      /\ \A k \in DOMAIN items : items'[k] = items[k]
      /\ items'[Len(items) + 1] = item
  BY <1>1, Appended DEF Add1
<1>3. ASSUME NEW k \in DOMAIN items', items'[k].made = "prove"
      PROVE  Verify(items'[k].inputs, items'[k].proof) = "Ok"
  <2>1. CASE k \in DOMAIN items
    BY <2>1, <1>2, <1>3 DEF HonestInv, HonestProofVerifies
  <2>2. CASE k = Len(items) + 1
    <3>1. items'[k].inputs = inputs /\ items'[k].proof = proof /\ items'[k].made = made
      BY <2>2, <1>2
    <3> QED
      BY <3>1, <1>3
  <2> QED
    BY <2>1, <2>2, <1>2
<1> QED
  BY <1>2, <1>3 DEF HonestInv, ItemsOK, HonestProofVerifies

LEMMA ProveKeepsHonest ==
  ASSUME HonestInv, NEW inputs \in agenda.cases, NEW witness \in agenda.witnesses,
         NEW blindings \in agenda.blindings, Prove(inputs, witness, blindings)
  PROVE  HonestInv'
<1>1. agenda' = agenda /\ agenda \in Agendas
  BY DEF Prove, HonestInv
<1>2. /\ inputs \in MaskInputs /\ blindings \in Scalars \X Scalars
      /\ witness \in MaskWitnesses
  BY <1>1, AgendaAssumption
<1>3. ASSUME NEW proof \in ProveMask(inputs, witness, blindings), refusal' = refusal,
             Add1(inputs, proof, "prove")
      PROVE  HonestInv'
  BY <1>1, <1>3, MadeProofVerifies, AddingHonest
<1>4. ASSUME NEW proof \in ProveMask(inputs, witness, blindings), refusal' = refusal,
             Add1(inputs, [proof EXCEPT !.backend = "other"], "renamed")
      PROVE  HonestInv'
  BY <1>1, <1>4, AddingHonest
<1>5. ASSUME ProveMask(inputs, witness, blindings) = {}, UNCHANGED items,
             refusal' = {[inputs |-> inputs, witness |-> witness]}
      PROVE  HonestInv'
  <2>1. ~ValidateMaskWitness(inputs, witness) \/ witness.shared = 0
    BY <1>2, <1>5, HonestProverSucceeds DEF HonestCase
  <2> QED
    BY <1>1, <1>5, <2>1 DEF HonestInv, ItemsOK, HonestProofVerifies
<1> QED
  BY <1>3, <1>4, <1>5 DEF Prove

LEMMA PutTogetherKeepsHonest ==
  ASSUME HonestInv, NEW inputs, NEW ofMask, NEW ofDh, PutTogether(inputs, ofMask, ofDh)
  PROVE  HonestInv'
<1>1. UNCHANGED <<agenda, refusal>> /\ \E proof : Add1(inputs, proof, "put together")
  BY DEF PutTogether
<1>2. PICK proof : Add1(inputs, proof, "put together")
  BY <1>1
<1> QED
  BY <1>1, <1>2, AddingHonest

\* An honest proof verifies, whatever the sizes of the two circuits, and an honest
\* prover is refused only for a shared point that has no coordinates: its own
\* checks, which write and read the bytes of both traces, never stop it (prove,
\* pallas.rs:521).
THEOREM HonestProofs == Spec => []HonestProofVerifies
<1>1. Init => HonestInv
  <2>1. ASSUME items = <<>>, refusal = {} PROVE ItemsOK /\ HonestProofVerifies
    <3>1. items \in Seq({}) /\ DOMAIN items = {}
      BY <2>1
    <3> QED
      BY <2>1, <3>1 DEF ItemsOK, HonestProofVerifies
  <2> QED
    BY <2>1 DEF Init, HonestInv
<1>2. HonestInv /\ [Next]_vars => HonestInv'
  <2> SUFFICES ASSUME HonestInv, [Next]_vars PROVE HonestInv'
    OBVIOUS
  <2>1. CASE UNCHANGED <<agenda, items, refusal>>
    BY <2>1 DEF HonestInv, ItemsOK, HonestProofVerifies
  <2>2. CASE VerifyBatch
    BY <2>1, <2>2 DEF VerifyBatch
  <2>3. CASE UNCHANGED vars
    BY <2>1, <2>3 DEF vars
  <2>4. ASSUME NEW inputs \in agenda.cases, NEW witness \in agenda.witnesses,
               NEW blindings \in agenda.blindings, Prove(inputs, witness, blindings)
        PROVE  HonestInv'
    BY <2>4, ProveKeepsHonest
  <2>5. ASSUME NEW inputs \in agenda.cases, NEW ofMask \in agenda.sources,
               NEW ofDh \in agenda.sources, PutTogether(inputs, ofMask, ofDh)
        PROVE  HonestInv'
    BY <2>5, PutTogetherKeepsHonest
  <2> QED
    BY <2>2, <2>3, <2>4, <2>5 DEF Next
<1>3. HonestInv => HonestProofVerifies
  BY DEF HonestInv
<1> QED
  BY <1>1, <1>2, <1>3, PTL DEF Spec

----------------------------------------------------------------------------
(* Batches *)

VerdictOn(k) == Verify(items[k].inputs, items[k].proof)

\* Every member before the one the loop is at is good, and the verdict is that
\* one's.
BatchInv ==
  /\ ItemsOK
  /\ batch.i \in 0 .. Len(items)
  /\ \A k \in 1 .. (batch.i - 1) : VerdictOn(k) = "Ok"
  /\ batch.verdict = IF batch.i = 0 THEN "Ok" ELSE VerdictOn(batch.i)

LEMMA BatchStep ==
  ASSUME BatchInv, [Next]_vars
  PROVE  BatchInv'
<1>1. PICK S : items \in Seq(S)
  BY DEF BatchInv, ItemsOK
<1>2. CASE VerifyBatch
  <2>1. /\ items' = items
        /\ batch.i < Len(items) /\ batch.verdict = "Ok"
        /\ batch'.i = batch.i + 1 /\ batch'.verdict = VerdictOn(batch.i + 1)
    BY <1>2 DEF VerifyBatch, VerdictOn
  <2>2. \A k : VerdictOn(k)' = VerdictOn(k)
    BY <2>1 DEF VerdictOn
  <2>3. Len(items) \in Nat /\ batch.i \in Nat
    BY <1>1 DEF BatchInv
  <2>4. ASSUME NEW k \in 1 .. batch.i PROVE VerdictOn(k) = "Ok"
    <3>1. CASE k = batch.i
      BY <3>1, <2>1, <2>3 DEF BatchInv
    <3>2. CASE k # batch.i
      BY <3>2, <2>3 DEF BatchInv
    <3> QED
      BY <3>1, <3>2
  <2>5. ItemsOK'
    BY <1>1, <2>1 DEF ItemsOK
  <2> QED
    BY <2>1, <2>2, <2>3, <2>4, <2>5 DEF BatchInv
<1>3. CASE UNCHANGED <<items, batch>>
  BY <1>3 DEF BatchInv, ItemsOK, VerdictOn
<1>4. ASSUME Room, NEW inputs, NEW proof, NEW made, Add1(inputs, proof, made), batch' = batch
      PROVE  BatchInv'
  <2> DEFINE item == [inputs |-> inputs, proof |-> proof, made |-> made]
  <2>1. items' \in Seq(S \cup {item})
    BY <1>1, <1>4, Appended DEF Add1
  <2>2. batch'.i = 0 /\ batch'.verdict = "Ok"
    BY <1>4 DEF Room, BatchInv
  <2> QED
    BY <2>1, <2>2 DEF BatchInv, ItemsOK
<1>5. ASSUME NEW inputs, NEW witness, NEW blindings, Prove(inputs, witness, blindings)
      PROVE  BatchInv'
  BY <1>3, <1>4, <1>5 DEF Prove
<1>6. ASSUME NEW inputs, NEW ofMask, NEW ofDh, PutTogether(inputs, ofMask, ofDh)
      PROVE  BatchInv'
  <2>1. Room /\ batch' = batch /\ \E proof, made : Add1(inputs, proof, made)
    BY <1>6 DEF PutTogether
  <2> QED
    BY <2>1, <1>4
<1> QED
  BY <1>2, <1>3, <1>5, <1>6 DEF Next, vars

LEMMA FirstBad ==
  ASSUME BatchInv
  PROVE  BatchIsConjunction
<1> DEFINE verdicts == [k \in DOMAIN items |-> Verify(items[k].inputs, items[k].proof)]
           I == {k \in 1 .. Len(verdicts) : verdicts[k] # "Ok"}
<1>1. DOMAIN items = 1 .. Len(items) /\ Len(items) \in Nat /\ batch.i \in Nat
  BY DEF BatchInv, ItemsOK
<1>2. Len(verdicts) = Len(items) /\ \A k \in 1 .. Len(items) : verdicts[k] = VerdictOn(k)
  BY <1>1 DEF VerdictOn
<1>3. SelectInSeq(verdicts, LAMBDA v : v # "Ok") = IF I # {} THEN Min(I) ELSE 0
  BY DEF SelectInSeq
<1> HIDE DEF verdicts
<1>4. CASE batch.verdict # "Ok"
  <2>1. batch.i \in 1 .. Len(items) /\ batch.verdict = VerdictOn(batch.i)
    BY <1>4, <1>1 DEF BatchInv
  <2>2. batch.i \in I /\ I \subseteq Int
    BY <2>1, <1>2, <1>4
  <2>3. \A j \in I : batch.i <= j
    BY <1>1, <1>2 DEF BatchInv
  <2>4. Min(I) = batch.i
    BY <2>2, <2>3, LeastIsMin
  <2>5. batch.verdict = verdicts[batch.i] /\ batch.i # 0
    BY <2>1, <1>2
  <2> QED
    BY <1>3, <2>2, <2>4, <2>5 DEF BatchIsConjunction, verdicts
<1>5. CASE batch.verdict = "Ok" /\ batch.i = Len(items)
  <2>1. \A k \in 1 .. Len(items) : VerdictOn(k) = "Ok"
    BY <1>1, <1>5 DEF BatchInv
  <2>2. I = {}
    BY <2>1, <1>2
  <2> QED
    BY <1>3, <1>5, <2>2 DEF BatchIsConjunction, verdicts
<1>6. CASE batch.verdict = "Ok" /\ batch.i # Len(items)
  BY <1>6 DEF BatchIsConjunction
<1> QED
  BY <1>4, <1>5, <1>6

\* The verdict on a batch is that of the first member that is not accepted, and
\* "Ok" if there is none (verify_batch, docs/bulletproofs-backend.md:149-152).
THEOREM BatchVerdict == Spec => []BatchIsConjunction
<1>1. Init => BatchInv
  <2>1. ASSUME items = <<>>, batch = [i |-> 0, verdict |-> "Ok"] PROVE BatchInv
    <3>1. items \in Seq({}) /\ Len(items) = 0
      BY <2>1
    <3>2. batch.i = 0 /\ batch.verdict = "Ok"
      BY <2>1
    <3> QED
      BY <3>1, <3>2 DEF BatchInv, ItemsOK
  <2> QED
    BY <2>1 DEF Init
<1>2. BatchInv /\ [Next]_vars => BatchInv'
  BY BatchStep
<1>3. BatchInv => BatchIsConjunction
  BY FirstBad
<1> QED
  BY <1>1, <1>2, <1>3, PTL DEF Spec

----------------------------------------------------------------------------
(* Traces *)

\* Changes leave traces traces.
TraceInv ==
  /\ traceCase \in TraceCases
  /\ IsTrace(maskTrace, MaskParts) /\ IsTrace(dhTrace, DhParts)
  /\ limbsChanged \in Nat
  /\ limbsChanged = 0 =>
       /\ maskTrace = MaskTrace(traceCase.inputs, traceCase.witness)
       /\ dhTrace = DhTrace(traceCase.inputs, traceCase.witness)

LEMMA CaseType ==
  ASSUME traceCase \in TraceCases
  PROVE  traceCase.inputs \in MaskInputs /\ traceCase.witness \in MaskWitnesses
<1>1. traceCase \in [inputs : MaskInputs, witness : MaskWitnesses]
  BY TraceAssumption
<1> QED
  BY <1>1

LEMMA AlteredIsTrace ==
  ASSUME NEW trace, NEW parts, IsTrace(trace, parts), NEW new \in AlteredTraces(trace)
  PROVE  IsTrace(new, parts)
<1>1. DOMAIN trace = parts /\ \A part \in parts : trace[part] \in Seq(Limbs)
  <2>1. trace = [part \in parts |-> trace[part]] /\ \A part \in parts : trace[part] \in Seq(Limbs)
    BY DEF IsTrace
  <2> QED
    BY <2>1
<1>2. PICK part \in parts :
        /\ trace[part] # <<>>
        /\ \/ \E k \in DOMAIN trace[part], limb \in 0 .. ByteBase :
                new = [trace EXCEPT ![part][k] = limb]
           \/ new = [trace EXCEPT ![part] = Front(@)]
           \/ new = [trace EXCEPT ![part] = Append(@, 0)]
  BY <1>1 DEF AlteredTraces
<1> DEFINE t == trace[part]
<1>3. t \in Seq(Limbs) /\ t # <<>> /\ 0 \in Limbs
  BY <1>1, <1>2, BytesAssumption DEF Limbs
<1>4. \E s \in Seq(Limbs) : new = [trace EXCEPT ![part] = s]
  <2>1. CASE \E k \in DOMAIN t, limb \in 0 .. ByteBase : new = [trace EXCEPT ![part][k] = limb]
    <3>1. PICK k \in DOMAIN t, limb \in 0 .. ByteBase : new = [trace EXCEPT ![part][k] = limb]
      BY <2>1
    <3>2. new = [trace EXCEPT ![part] = [t EXCEPT ![k] = limb]]
      BY <3>1
    <3>3. [t EXCEPT ![k] = limb] \in Seq(Limbs)
      <4> HIDE DEF t
      <4>1. limb \in Limbs
        BY DEF Limbs
      <4> QED
        BY <1>3, <4>1
    <3> QED
      BY <3>2, <3>3
  <2>2. CASE new = [trace EXCEPT ![part] = Front(@)]
    <3>1. Front(t) \in Seq(Limbs)
      <4> HIDE DEF t
      <4> QED
        BY <1>3 DEF Front
    <3> QED
      BY <2>2, <3>1
  <2>3. CASE new = [trace EXCEPT ![part] = Append(@, 0)]
    <3>1. Append(t, 0) \in Seq(Limbs)
      <4> HIDE DEF t
      <4> QED
        BY <1>3
    <3> QED
      BY <2>3, <3>1
  <2> QED
    BY <1>2, <2>1, <2>2, <2>3
<1>5. PICK s \in Seq(Limbs) : new = [trace EXCEPT ![part] = s]
  BY <1>4
<1>6. trace = [p \in parts |-> trace[p]]
  BY DEF IsTrace
<1>7. new = [p \in parts |-> IF p = part THEN s ELSE trace[p]]
  BY <1>5, <1>6
<1>8. new = [p \in parts |-> new[p]] /\ \A p \in parts : new[p] \in Seq(Limbs)
  BY <1>1, <1>7
<1> QED
  BY <1>8 DEF IsTrace

LEMMA TracesStayTraces == TraceSpec => []TraceInv
<1>1. TraceInit => TraceInv
  <2> SUFFICES ASSUME TraceInit PROVE TraceInv
    OBVIOUS
  <2>1. /\ traceCase \in TraceCases /\ limbsChanged = 0
        /\ maskTrace = MaskTrace(traceCase.inputs, traceCase.witness)
        /\ dhTrace = DhTrace(traceCase.inputs, traceCase.witness)
    BY DEF TraceInit
  <2>2. traceCase.inputs \in MaskInputs /\ traceCase.witness \in MaskWitnesses
    BY <2>1, CaseType
  <2>3. maskTrace = [part \in MaskParts |-> maskTrace[part]] /\ Fits(maskTrace, MaskLengths)
    BY <2>1, <2>2, MaskTraceFits
  <2>4. dhTrace = [part \in DhParts |-> dhTrace[part]] /\ Fits(dhTrace, DhLengths)
    BY <2>1, <2>2, DhTraceFits
  <2>5. IsTrace(maskTrace, MaskParts)
    BY <2>3, FittingTrace, Lengths
  <2>6. IsTrace(dhTrace, DhParts)
    BY <2>4, FittingTrace, Lengths
  <2> QED
    BY <2>1, <2>5, <2>6 DEF TraceInv
<1>2. TraceInv /\ [TraceNext]_traceVars => TraceInv'
  <2> SUFFICES ASSUME TraceInv, [TraceNext]_traceVars PROVE TraceInv'
    OBVIOUS
  <2>1. CASE UNCHANGED traceVars
    BY <2>1 DEF TraceInv, traceVars
  <2>2. CASE AlterTrace
    <3>1. traceCase' = traceCase /\ limbsChanged' \in Nat /\ limbsChanged' # 0
      BY <2>2 DEF AlterTrace, TraceInv
    <3>2. IsTrace(maskTrace, MaskParts) /\ IsTrace(dhTrace, DhParts) /\ traceCase \in TraceCases
      BY DEF TraceInv
    <3>3. (maskTrace' \in AlteredTraces(maskTrace) /\ dhTrace' = dhTrace)
            \/ (dhTrace' \in AlteredTraces(dhTrace) /\ maskTrace' = maskTrace)
      BY <2>2 DEF AlterTrace
    <3>4. IsTrace(maskTrace', MaskParts) /\ IsTrace(dhTrace', DhParts)
      BY <3>2, <3>3, AlteredIsTrace
    <3>5. IsTrace(maskTrace, MaskParts)' /\ IsTrace(dhTrace, DhParts)'
      BY <3>4 DEF IsTrace
    <3> QED
      BY <3>1, <3>2, <3>5 DEF TraceInv
  <2> QED
    BY <2>1, <2>2 DEF TraceNext
<1> QED
  BY <1>1, <1>2, PTL DEF TraceSpec

\* Both views of a trace accept it as the same mask or refuse it, whatever was done to its
\* limbs, and an honest prover's traces are accepted.
THEOREM TraceViews == TraceSpec => []ViewsAgree
<1>1. TraceInv => ViewsAgree
  <2> SUFFICES ASSUME TraceInv PROVE ViewsAgree
    OBVIOUS
  <2> DEFINE inputs == traceCase.inputs
             witness == traceCase.witness
  <2>1. /\ traceCase \in TraceCases
        /\ IsTrace(maskTrace, MaskParts) /\ IsTrace(dhTrace, DhParts)
    BY DEF TraceInv
  <2>2. VerifyMaskTrace("u16", inputs, View("u16", maskTrace))
          = VerifyMaskTrace("field", inputs, View("field", maskTrace))
    BY <2>1, MaskLimbsAsBytes
  <2>3. VerifyDhTrace("u16", inputs, View("u16", dhTrace))
          <=> VerifyDhTrace("field", inputs, View("field", dhTrace))
    BY <2>1, DhLimbsAsBytes
  <2>4. VerifyDhTrace("u16", inputs, View("u16", dhTrace)) \in BOOLEAN
        /\ VerifyDhTrace("field", inputs, View("field", dhTrace)) \in BOOLEAN
    BY DEF VerifyDhTrace
  <2>5. ASSUME limbsChanged = 0, ValidateMaskWitness(inputs, witness)
        PROVE  /\ VerifyMaskTrace("u16", inputs, View("u16", maskTrace)) = {witness.mask}
               /\ VerifyDhTrace("u16", inputs, View("u16", dhTrace))
               /\ VerifyPublicRelation(inputs, maskTrace)
    <3>1. HonestCase(inputs, witness)
      BY <2>1, <2>5, CaseType DEF HonestCase
    <3>2. maskTrace = MaskTrace(inputs, witness) /\ dhTrace = DhTrace(inputs, witness)
      BY <2>5 DEF TraceInv
    <3> QED
      BY <3>1, <3>2, MaskTraceAccepted, DhTraceAccepted, PublicRelationAccepted
  <2>6. /\ View("u16", maskTrace) = maskTrace /\ View("u16", dhTrace) = dhTrace
        /\ View("field", maskTrace) = BytesToFieldLimbs(maskTrace)
        /\ View("field", dhTrace) = BytesToFieldLimbs(dhTrace)
    BY DEF View
  <2> QED
    BY <2>2, <2>3, <2>4, <2>5, <2>6 DEF ViewsAgree
<1> QED
  BY <1>1, TracesStayTraces, PTL

\* The one trace of a point: what was accepted has the bytes that would be written.
LEMMA MaskCanonical ==
  ASSUME TraceInv PROVE MaskTraceIsCanonical
<1> DEFINE inputs == traceCase.inputs
           transcript == TranscriptOf(inputs)
           shared == maskTrace.sharedPoint
<1> SUFFICES ASSUME NEW m \in VerifyMaskTrace("u16", inputs, maskTrace)
             PROVE  /\ m = HashToScalar(shared \o transcript)
                    /\ maskTrace = [domain           |-> MaskDomain,
                                    sharedPoint      |-> shared,
                                    transcriptDigest |-> TraceTranscriptDigest(transcript),
                                    maskDigest       |-> MaskDigest(shared, transcript),
                                    mask             |-> Digits(m, ScalarBytes)]
  BY DEF MaskTraceIsCanonical
<1>1. IsTrace(maskTrace, MaskParts) /\ inputs \in MaskInputs
  BY CaseType DEF TraceInv
<1>2. VerifyMaskTrace("u16", inputs, maskTrace)
        = IF Fits(maskTrace, MaskLengths) /\ maskTrace.domain = MaskDomain
          THEN VerifyMaskHashBytes(inputs, maskTrace) ELSE {}
  <2>1. View("u16", maskTrace) = maskTrace
    BY DEF View
  <2> QED
    BY <1>1, <2>1, MaskLimbsAsBytes
<1>3. /\ Fits(maskTrace, MaskLengths) /\ maskTrace.domain = MaskDomain
      /\ m \in VerifyMaskHashBytes(inputs, maskTrace)
  BY <1>2
<1>4. /\ maskTrace.transcriptDigest = TraceTranscriptDigest(transcript)
      /\ maskTrace.maskDigest = MaskDigest(shared, transcript)
      /\ m \in ScalarsOf(maskTrace.mask, P) /\ m = NumberOf(maskTrace.maskDigest) % P
  BY <1>3 DEF VerifyMaskHashBytes
<1>5. /\ shared \in Seq(Bytes)
      /\ maskTrace.mask \in Seq(Bytes) /\ Len(maskTrace.mask) = ScalarBytes
  BY <1>3, Lengths DEF Fits, MaskParts
<1>6. shared \in Seq(Int)
  BY <1>5, BytesAreNumbers
<1>7. m = HashToScalar(shared \o transcript)
  BY <1>1, <1>4, <1>6, DigestsAreRead
<1>8. m = NumberOf(maskTrace.mask)
  BY <1>4 DEF ScalarsOf
<1>9. maskTrace.mask = Digits(m, ScalarBytes)
  BY <1>5, <1>8, DigitsOfNumber, Lengths
<1>10. maskTrace = [part \in MaskParts |-> maskTrace[part]]
  BY <1>1 DEF IsTrace
<1> DEFINE written == [domain           |-> MaskDomain,
                       sharedPoint      |-> shared,
                       transcriptDigest |-> TraceTranscriptDigest(transcript),
                       maskDigest       |-> MaskDigest(shared, transcript),
                       mask             |-> Digits(m, ScalarBytes)]
<1>11. /\ written = [part \in MaskParts |-> written[part]]
       /\ written.domain = MaskDomain /\ written.sharedPoint = shared
       /\ written.transcriptDigest = TraceTranscriptDigest(transcript)
       /\ written.maskDigest = MaskDigest(shared, transcript)
       /\ written.mask = Digits(m, ScalarBytes)
  BY DEF MaskParts
<1> HIDE DEF written, transcript
<1>12. \A part \in MaskParts : written[part] = maskTrace[part]
  BY <1>3, <1>4, <1>9, <1>11 DEF MaskParts
<1>13. written = maskTrace
  BY <1>10, <1>11, <1>12
<1> QED
  BY <1>7, <1>13 DEF written, transcript

\* The one trace of the keys.
LEMMA DhCanonical ==
  ASSUME TraceInv PROVE DhTraceIsTheWitness
<1> DEFINE inputs == traceCase.inputs
<1> SUFFICES ASSUME VerifyDhTrace("u16", inputs, dhTrace)
             PROVE  \E secret \in 0 .. (Q - 1) :
                      /\ HelperPublic(secret) = inputs.dealerPublic
                      /\ dhTrace = DhTrace(inputs,
                           [secret |-> secret,
                            shared |-> DiffieHellman(secret, inputs.participantPublic)])
  BY DEF DhTraceIsTheWitness
<1>1. IsTrace(dhTrace, DhParts)
  BY DEF TraceInv
<1>2. Fits(dhTrace, DhLengths) /\ VerifyVestaDhBytes(inputs, dhTrace)
  <2>1. View("u16", dhTrace) = dhTrace
    BY DEF View
  <2> QED
    BY <1>1, <2>1, DhLimbsAsBytes
<1>3. PICK secret \in ScalarsOf(dhTrace.secret, Q), dealer \in PointsEncodedBy(dhTrace.dealer),
           participant \in PointsEncodedBy(dhTrace.participant),
           shared \in PointsEncodedBy(dhTrace.sharedPoint) :
             /\ dealer = inputs.dealerPublic /\ participant = inputs.participantPublic
             /\ HelperPublic(secret) = dealer
             /\ DiffieHellman(secret, participant) = shared
  BY <1>2 DEF VerifyVestaDhBytes
<1>4. /\ dhTrace.dealer = EncodePoint(inputs.dealerPublic)
      /\ dhTrace.participant = EncodePoint(inputs.participantPublic)
      /\ dhTrace.sharedPoint = EncodePoint(shared)
      /\ shared = DiffieHellman(secret, inputs.participantPublic)
      /\ HelperPublic(secret) = inputs.dealerPublic
  BY <1>3 DEF PointsEncodedBy
<1>5. dhTrace.secret \in Seq(Bytes) /\ Len(dhTrace.secret) = ScalarBytes
  BY <1>2, Lengths DEF Fits, DhParts
<1>6. secret = NumberOf(dhTrace.secret) /\ secret < Q
  BY <1>3 DEF ScalarsOf
<1>7. secret \in 0 .. (Q - 1) /\ dhTrace.secret = Digits(secret, ScalarBytes)
  <2>1. /\ NumberOf(dhTrace.secret) \in Nat
        /\ Digits(NumberOf(dhTrace.secret), ScalarBytes) = dhTrace.secret
    BY <1>5, DigitsOfNumber, Lengths
  <2> QED
    BY <1>6, <2>1, HelperAssumption
<1>8. dhTrace = [part \in DhParts |-> dhTrace[part]]
  BY <1>1 DEF IsTrace
<1> DEFINE witness == [secret |-> secret,
                       shared |-> DiffieHellman(secret, inputs.participantPublic)]
           written == DhTrace(inputs, witness)
<1>9. /\ written = [part \in DhParts |-> written[part]]
      /\ written.secret = Digits(secret, ScalarBytes)
      /\ written.dealer = EncodePoint(inputs.dealerPublic)
      /\ written.participant = EncodePoint(inputs.participantPublic)
      /\ written.sharedPoint = EncodePoint(DiffieHellman(secret, inputs.participantPublic))
  BY DEF DhTrace, DhParts
<1> HIDE DEF written
<1>10. \A part \in DhParts : written[part] = dhTrace[part]
  BY <1>4, <1>7, <1>9 DEF DhParts
<1>11. written = dhTrace
  BY <1>8, <1>9, <1>10
<1> QED
  BY <1>4, <1>7, <1>11 DEF written

\* No two traces of one point, or of one pair of keys, are accepted, whatever limbs they
\* have (pallas.rs:1424-1490).
THEOREM TracesCanonical == TraceSpec => []AcceptedTraceIsCanonical
<1>1. TraceInv => AcceptedTraceIsCanonical
  BY MaskCanonical, DhCanonical DEF AcceptedTraceIsCanonical
<1> QED
  BY <1>1, TracesStayTraces, PTL

----------------------------------------------------------------------------
(* The byte formats *)

\* A buffer has a cell at this offset, which a usize can count.
HasCell(buffer, offset) == offset + 1 <= CellMax /\ offset + 1 <= Len(buffer)

LEMMA CellsCounted == CellMax \in Nat /\ CapacityMax \in Nat
  BY CodecAssumption

LEMMA LenRead ==
  ASSUME NEW buffer \in Seq(Nat), NEW offset \in Nat
  PROVE  ReadLen(buffer, offset)
           = IF HasCell(buffer, offset) THEN {[at |-> offset + 1, value |-> buffer[offset + 1]]} ELSE {}
<1>1. CASE HasCell(buffer, offset)
  <2>1. ReadSlice(buffer, offset, 1)
        = {[at |-> offset + 1, value |-> SubSeq(buffer, offset + 1, offset + 1)]}
    BY <1>1, CellsCounted DEF HasCell, ReadSlice
  <2>2. SubSeq(buffer, offset + 1, offset + 1)[1] = buffer[offset + 1]
    BY <1>1 DEF HasCell
  <2> DEFINE slice == [at |-> offset + 1, value |-> SubSeq(buffer, offset + 1, offset + 1)]
  <2>3. slice.at = offset + 1 /\ slice.value[1] = buffer[offset + 1]
    BY <2>2
  <2>4. ReadSlice(buffer, offset, 1) = {slice}
    BY <2>1
  <2> HIDE DEF slice
  <2> QED
    BY <1>1, <2>3, <2>4 DEF ReadLen
<1>2. CASE ~HasCell(buffer, offset)
  <2>1. ReadSlice(buffer, offset, 1) = {}
    BY <1>2, CellsCounted DEF HasCell, ReadSlice
  <2> QED
    BY <1>2, <2>1 DEF ReadLen
<1> QED
  BY <1>1, <1>2

LEMMA ItemRead ==
  ASSUME NEW buffer \in Seq(Nat), NEW offset \in Nat, NEW type
  PROVE  ReadItem(buffer, offset, type)
           = IF HasCell(buffer, offset) /\ buffer[offset + 1] \in Canonical[type]
             THEN {[at |-> offset + 1, value |-> buffer[offset + 1]]} ELSE {}
<1>1. CASE HasCell(buffer, offset)
  <2>1. ReadSlice(buffer, offset, 1)
        = {[at |-> offset + 1, value |-> SubSeq(buffer, offset + 1, offset + 1)]}
    BY <1>1, CellsCounted DEF HasCell, ReadSlice
  <2>2. SubSeq(buffer, offset + 1, offset + 1)[1] = buffer[offset + 1]
    BY <1>1 DEF HasCell
  <2> DEFINE slice == [at |-> offset + 1, value |-> SubSeq(buffer, offset + 1, offset + 1)]
  <2>3. slice.at = offset + 1 /\ slice.value[1] = buffer[offset + 1]
    BY <2>2
  <2>4. ReadSlice(buffer, offset, 1) = {slice}
    BY <2>1
  <2> HIDE DEF slice
  <2> QED
    BY <1>1, <2>3, <2>4 DEF ReadItem
<1>2. CASE ~HasCell(buffer, offset)
  <2>1. ReadSlice(buffer, offset, 1) = {}
    BY <1>2, CellsCounted DEF HasCell, ReadSlice
  <2> QED
    BY <1>2, <2>1 DEF ReadItem
<1> QED
  BY <1>1, <1>2

\* The next cells of a buffer are items of these types.
Holds(buffer, offset, types) ==
  \A k \in 1 .. Len(types) :
    HasCell(buffer, offset + k - 1) /\ buffer[offset + k] \in Canonical[types[k]]

Taken(buffer, offset, n) ==
  [at |-> offset + n, value |-> [k \in 1 .. n |-> buffer[offset + k]]]

\* Items are read one after the other, all of them or none.
LEMMA ItemsRead ==
  ASSUME NEW buffer \in Seq(Nat), NEW offset \in Nat, NEW types, NEW n \in Nat,
         Len(types) = n, DOMAIN types = 1 .. n
  PROVE  ReadItems(buffer, offset, types)
           = IF Holds(buffer, offset, types) THEN {Taken(buffer, offset, n)} ELSE {}
<1> DEFINE D == DOMAIN types
           R == [at : Nat, value : Seq(Nat)]
           base == {[at |-> offset, value |-> <<>>]}
           Next1(v, type) == UNION {{[at |-> r.at, value |-> Append(s.value, r.value)] :
                                       r \in ReadItem(buffer, s.at, type)} : s \in v}
           step == [k \in D |-> [v \in SUBSET R |-> Next1(v, types[k])]]
           pick == [s \in SUBSET D |-> Max(s)]
           Eq(h) == h = [s \in SUBSET D |-> IF s = {} THEN base
                         ELSE LET x == Max(s) IN Next1(h[s \ {x}], types[x])]
           T == CHOOSE h : Eq(h)
<1>1. /\ IsFiniteSet(D) /\ base \in SUBSET R /\ step \in [D -> [SUBSET R -> SUBSET R]]
  <2>1. IsFiniteSet(D)
    BY FS_Interval
  <2>2. ASSUME NEW v \in SUBSET R, NEW type PROVE Next1(v, type) \in SUBSET R
    <3>1. ASSUME NEW s \in v, NEW r \in ReadItem(buffer, s.at, type)
          PROVE  [at |-> r.at, value |-> Append(s.value, r.value)] \in R
      <4>1. s.at \in Nat /\ s.value \in Seq(Nat)
        OBVIOUS
      <4>2. r = [at |-> s.at + 1, value |-> buffer[s.at + 1]] /\ HasCell(buffer, s.at)
        BY <3>1, <4>1, ItemRead
      <4>3. buffer[s.at + 1] \in Nat
        BY <4>1, <4>2 DEF HasCell
      <4>4. Append(s.value, r.value) \in Seq(Nat)
        BY <4>1, <4>2, <4>3
      <4> QED
        BY <4>1, <4>2, <4>4
    <3> HIDE DEF R
    <3> QED
      BY <3>1
  <2>3. base \in SUBSET R
    OBVIOUS
  <2> HIDE DEF Next1, R
  <2> QED
    BY <2>1, <2>2, <2>3
<1>2. \A s \in SUBSET D : s # {} => pick[s] \in s /\ pick[s] = Max(s)
  <2>1. D = 1 .. n
    OBVIOUS
  <2> HIDE DEF D
  <2> QED
    BY <2>1, GreatestElement
<1>3. Eq(T)
  <2>1. PICK h : FoldsBy(h, D, SUBSET R, base, step, pick)
    <3> HIDE DEF step, D, pick, base, R
    <3> QED
      BY <1>1, <1>2, FoldExists
  <2>2. h \in [SUBSET D -> SUBSET R]
    <3> HIDE DEF step, D, pick, base, R
    <3> QED
      BY <1>1, <2>1, FoldType
  <2>3. \A s \in SUBSET D : s # {} => Max(s) \in D /\ h[s \ {Max(s)}] \in SUBSET R
    <3> HIDE DEF R
    <3> QED
      BY <1>2, <2>2
  <2>4. \A s \in SUBSET D : s # {} =>
          step[Max(s)][h[s \ {Max(s)}]] = Next1(h[s \ {Max(s)}], types[Max(s)])
    <3> HIDE DEF Next1, R
    <3> QED
      BY <2>3
  <2> HIDE DEF Next1, R, step, base
  <2>5. h[{}] = base /\ \A s \in SUBSET D : s # {} => h[s] = Next1(h[s \ {Max(s)}], types[Max(s)])
    BY <1>2, <2>1, <2>3, <2>4 DEF FoldsBy
  <2>6. Eq(h)
    BY <2>2, <2>5
  <2> QED
    BY <2>6
<1>4. T[{}] = base /\ \A s \in SUBSET D : s # {} => T[s] = Next1(T[s \ {Max(s)}], types[Max(s)])
  <2> HIDE DEF Next1, base, T
  <2> QED
    BY <1>3
<1>5. ReadItems(buffer, offset, types) = T[D]
  BY DEF ReadItems, FoldLeft, MapThenFoldSet
<1> DEFINE Upto(m) == IF \A k \in 1 .. m : /\ HasCell(buffer, offset + k - 1)
                                           /\ buffer[offset + k] \in Canonical[types[k]]
                      THEN {Taken(buffer, offset, m)} ELSE {}
           N == {m \in Nat : m <= n => T[1 .. m] = Upto(m)}
<1>6. 0 \in N
  <2>1. 1 .. 0 = {} /\ Upto(0) = {Taken(buffer, offset, 0)}
    OBVIOUS
  <2>2. Taken(buffer, offset, 0) = [at |-> offset, value |-> <<>>]
    <3>1. [k \in 1 .. 0 |-> buffer[offset + k]] = <<>>
      OBVIOUS
    <3> QED
      BY <3>1 DEF Taken
  <2> HIDE DEF Upto, T
  <2> QED
    BY <1>4, <2>1, <2>2
<1>7. ASSUME NEW m \in N PROVE m + 1 \in N
  <2> SUFFICES ASSUME m + 1 <= n PROVE T[1 .. (m + 1)] = Upto(m + 1)
    OBVIOUS
  <2>1. m \in Nat /\ T[1 .. m] = Upto(m)
    BY <1>7
  <2>2. (1 .. (m + 1)) \in SUBSET D /\ 1 .. (m + 1) # {} /\ Max(1 .. (m + 1)) = m + 1
        /\ (1 .. (m + 1)) \ {m + 1} = 1 .. m
    <3>1. (1 .. (m + 1)) \in SUBSET D /\ m + 1 \in 1 .. (m + 1)
          /\ (1 .. (m + 1)) \ {m + 1} = 1 .. m
      BY <2>1
    <3>2. Max(1 .. (m + 1)) \in 1 .. (m + 1)
          /\ \A k \in 1 .. (m + 1) : k <= Max(1 .. (m + 1))
      BY <2>1, <3>1, GreatestElement
    <3>3. Max(1 .. (m + 1)) = m + 1
      BY <2>1, <3>1, <3>2
    <3> QED
      BY <3>1, <3>3
  <2>3. T[1 .. (m + 1)] = Next1(Upto(m), types[m + 1])
    <3> HIDE DEF T, D, Next1, Upto, base
    <3> QED
      BY <1>4, <2>1, <2>2
  <2> DEFINE Good(k) == HasCell(buffer, offset + k - 1)
                        /\ buffer[offset + k] \in Canonical[types[k]]
  <2>4. (\A k \in 1 .. (m + 1) : Good(k)) <=> (\A k \in 1 .. m : Good(k)) /\ Good(m + 1)
    <3>1. \A k \in 1 .. (m + 1) : k \in 1 .. m \/ k = m + 1
      BY <2>1
    <3>2. \A k \in 1 .. m : k \in 1 .. (m + 1)
      BY <2>1
    <3>3. m + 1 \in 1 .. (m + 1)
      BY <2>1
    <3> HIDE DEF Good
    <3> QED
      BY <3>1, <3>2, <3>3
  <2>5. CASE ~ \A k \in 1 .. m : Good(k)
    <3>1. Upto(m) = {} /\ Upto(m + 1) = {}
      BY <2>4, <2>5
    <3> HIDE DEF Upto, T
    <3> QED
      BY <2>3, <3>1
  <2>6. CASE \A k \in 1 .. m : Good(k)
    <3> DEFINE s == Taken(buffer, offset, m)
    <3>1. Upto(m) = {s}
      BY <2>6
    <3>2. s.at = offset + m /\ s.at \in Nat /\ s.value = [k \in 1 .. m |-> buffer[offset + k]]
      BY <2>1 DEF Taken
    <3> HIDE DEF s, Upto
    <3>3. ReadItem(buffer, s.at, types[m + 1])
          = IF Good(m + 1) THEN {[at |-> offset + m + 1, value |-> buffer[offset + m + 1]]} ELSE {}
      <4>1. offset + m \in Nat /\ offset + (m + 1) - 1 = offset + m
            /\ offset + (m + 1) = offset + m + 1
        BY <2>1
      <4>2. s.at = offset + m
        BY <3>2
      <4>3. ReadItem(buffer, offset + m, types[m + 1])
            = IF HasCell(buffer, offset + m) /\ buffer[offset + m + 1] \in Canonical[types[m + 1]]
              THEN {[at |-> offset + m + 1, value |-> buffer[offset + m + 1]]} ELSE {}
        BY <4>1, ItemRead
      <4> QED
        BY <4>1, <4>2, <4>3
    <3>4. Append(s.value, buffer[offset + m + 1]) = [k \in 1 .. (m + 1) |-> buffer[offset + k]]
      BY <2>1, <3>2
    <3>5. CASE Good(m + 1)
      <4>1. Next1({s}, types[m + 1])
            = {[at |-> offset + m + 1, value |-> Append(s.value, buffer[offset + m + 1])]}
        <5> DEFINE e == [at |-> offset + m + 1, value |-> buffer[offset + m + 1]]
        <5>1. ReadItem(buffer, s.at, types[m + 1]) = {e}
          BY <3>3, <3>5
        <5>2. e.at = offset + m + 1 /\ e.value = buffer[offset + m + 1]
          OBVIOUS
        <5>3. Next1({s}, types[m + 1])
              = {[at |-> r.at, value |-> Append(s.value, r.value)] :
                   r \in ReadItem(buffer, s.at, types[m + 1])}
          OBVIOUS
        <5> HIDE DEF e, Next1
        <5> QED
          BY <5>1, <5>2, <5>3
      <4>2. Next1({s}, types[m + 1]) = {Taken(buffer, offset, m + 1)}
        <5>1. offset + m + 1 = offset + (m + 1)
          BY <2>1
        <5> QED
          BY <3>4, <4>1, <5>1 DEF Taken
      <4>3. Upto(m + 1) = {Taken(buffer, offset, m + 1)}
        BY <2>4, <2>6, <3>5 DEF Upto
      <4> QED
        BY <2>3, <3>1, <4>2, <4>3
    <3>6. CASE ~Good(m + 1)
      <4>1. Next1({s}, types[m + 1]) = {}
        BY <3>3, <3>6
      <4>2. Upto(m + 1) = {}
        BY <2>4, <2>6, <3>6 DEF Upto
      <4> QED
        BY <2>3, <3>1, <4>1, <4>2
    <3> QED
      BY <3>5, <3>6
  <2> QED
    BY <2>5, <2>6
<1>8. n \in N
  <2>1. N \in SUBSET Nat
    OBVIOUS
  <2> HIDE DEF N
  <2> QED
    BY <1>6, <1>7, <2>1, Induct
<1>9. T[D] = Upto(n)
  <2>1. D = 1 .. n /\ n <= n
    OBVIOUS
  <2> HIDE DEF T, Upto, D
  <2> QED
    BY <1>8, <2>1
<1> HIDE DEF T
<1> QED
  BY <1>5, <1>9 DEF Holds

\* Sequences of cells: elements of a part, a concatenation, and the cells of it.
LEMMA CellsOf ==
  ASSUME NEW S, NEW s \in Seq(S)
  PROVE  /\ Len(s) \in Nat /\ DOMAIN s = 1 .. Len(s) /\ s = [k \in 1 .. Len(s) |-> s[k]]
         /\ \A k \in 1 .. Len(s) : s[k] \in S
  BY LenProperties, ElementOfSeq

LEMMA MoreCells ==
  ASSUME NEW S, NEW T, NEW s \in Seq(S), S \subseteq T
  PROVE  s \in Seq(T)
  BY SeqMonotonic

LEMMA SameCells ==
  ASSUME NEW S, NEW s \in Seq(S), NEW t \in Seq(S),
         Len(s) = Len(t), \A k \in 1 .. Len(s) : s[k] = t[k]
  PROVE  s = t
  BY SeqEqual

Join(s, t) == s \o t

LEMMA JoinedItems ==
  ASSUME NEW S, NEW s \in Seq(S), NEW t \in Seq(S)
  PROVE  /\ Join(s, t) \in Seq(S) /\ Len(Join(s, t)) = Len(s) + Len(t)
         /\ \A k \in 1 .. Len(s) : Join(s, t)[k] = s[k]
         /\ \A k \in 1 .. Len(t) : Join(s, t)[Len(s) + k] = t[k]
<1> DEFINE j == s \o t
           m == Len(s)
           n == Len(t)
<1>1. /\ j \in Seq(S) /\ Len(j) = m + n
      /\ \A k \in 1 .. m + n : j[k] = IF k <= m THEN s[k] ELSE t[k - m]
  BY ConcatProperties
<1>2. m \in Nat /\ n \in Nat
  BY CellsOf
<1> HIDE DEF j, m, n
<1>3. ASSUME NEW k \in 1 .. m PROVE j[k] = s[k]
  BY <1>1, <1>2
<1>4. ASSUME NEW k \in 1 .. n PROVE j[m + k] = t[k]
  <2> DEFINE i == m + k
  <2>1. i \in 1 .. m + n /\ ~(i <= m) /\ i - m = k
    BY <1>2
  <2> HIDE DEF i
  <2>2. j[i] = t[k]
    BY <1>1, <2>1
  <2> QED
    BY <2>2 DEF i
<1>5. Join(s, t) = j
  BY DEF Join, j
<1> QED
  BY <1>1, <1>3, <1>4, <1>5 DEF m, n

LEMMA Joined ==
  ASSUME NEW s \in Seq(Nat), NEW t \in Seq(Nat)
  PROVE  /\ Join(s, t) \in Seq(Nat) /\ Len(Join(s, t)) = Len(s) + Len(t)
         /\ \A k \in 1 .. Len(s) : Join(s, t)[k] = s[k]
         /\ \A k \in 1 .. Len(t) : Join(s, t)[Len(s) + k] = t[k]
<1>1. Join(s, t) \in Seq(Nat)
  BY JoinedItems
<1>2. Len(Join(s, t)) = Len(s) + Len(t)
  BY JoinedItems
<1>3. \A k \in 1 .. Len(s) : Join(s, t)[k] = s[k]
  BY JoinedItems
<1>4. \A k \in 1 .. Len(t) : Join(s, t)[Len(s) + k] = t[k]
  BY JoinedItems
<1> QED
  BY <1>1, <1>2, <1>3, <1>4

Slice(s, offset, n) == SubSeq(s, offset + 1, offset + n)

LEMMA Sliced ==
  ASSUME NEW s \in Seq(Nat), NEW offset \in Nat, NEW n \in Nat, offset + n <= Len(s)
  PROVE  /\ Slice(s, offset, n) \in Seq(Nat) /\ Len(Slice(s, offset, n)) = n
         /\ \A k \in 1 .. n : Slice(s, offset, n)[k] = s[offset + k]
<1>1. \A k \in (offset + 1) .. (offset + n) : s[k] \in Nat
  BY CellsOf
<1> DEFINE from == offset + 1
           to == offset + n
<1>5. from \in Int /\ to \in Int /\ \A k \in from .. to : s[k] \in Nat
  BY <1>1
<1> HIDE DEF from, to
<1>6. /\ SubSeq(s, from, to) \in Seq(Nat)
      /\ Len(SubSeq(s, from, to)) = IF from <= to THEN to - from + 1 ELSE 0
      /\ \A k \in 1 .. to - from + 1 : SubSeq(s, from, to)[k] = s[from + k - 1]
  BY <1>5, SubSeqProperties
<1>2. /\ SubSeq(s, offset + 1, offset + n) \in Seq(Nat)
      /\ Len(SubSeq(s, offset + 1, offset + n))
         = IF offset + 1 <= offset + n THEN offset + n - (offset + 1) + 1 ELSE 0
      /\ \A k \in 1 .. offset + n - (offset + 1) + 1 :
           SubSeq(s, offset + 1, offset + n)[k] = s[offset + 1 + k - 1]
  BY <1>6 DEF from, to
<1> DEFINE t == SubSeq(s, offset + 1, offset + n)
<1> HIDE DEF t
<1>3. (IF offset + 1 <= offset + n THEN offset + n - (offset + 1) + 1 ELSE 0) = n
      /\ offset + n - (offset + 1) + 1 = n
  OBVIOUS
<1>4. \A k \in 1 .. n : offset + 1 + k - 1 = offset + k
  OBVIOUS
<1> QED
  BY <1>2, <1>3, <1>4 DEF t, Slice

\* Parts that follow each other make up a part,
LEMMA SlicesJoin ==
  ASSUME NEW s \in Seq(Nat), NEW offset \in Nat, NEW m \in Nat, NEW n \in Nat,
         offset + m + n <= Len(s)
  PROVE  Slice(s, offset, m) \o Slice(s, offset + m, n) = Slice(s, offset, m + n)
<1> DEFINE a == Slice(s, offset, m)
           b == Slice(s, offset + m, n)
           c == Slice(s, offset, m + n)
<1>0. Len(s) \in Nat /\ offset + m <= Len(s) /\ offset + m \in Nat
  BY CellsOf
<1>1. a \in Seq(Nat) /\ Len(a) = m /\ \A k \in 1 .. m : a[k] = s[offset + k]
  BY <1>0, Sliced
<1>2. b \in Seq(Nat) /\ Len(b) = n /\ \A k \in 1 .. n : b[k] = s[offset + m + k]
  BY <1>0, Sliced
<1> HIDE DEF a, b
<1>3. c \in Seq(Nat) /\ Len(c) = m + n /\ \A k \in 1 .. (m + n) : c[k] = s[offset + k]
  <2>1. offset + (m + n) <= Len(s) /\ m + n \in Nat
    BY CellsOf
  <2> QED
    BY <2>1, Sliced
<1> HIDE DEF a, b, c
<1> DEFINE j == Join(a, b)
<1>8. a \in Seq(Nat) /\ b \in Seq(Nat) /\ Len(a) = m /\ Len(b) = n
  BY <1>1, <1>2
<1>4. /\ j \in Seq(Nat) /\ Len(j) = m + n
      /\ \A k \in 1 .. m : j[k] = a[k]
      /\ \A k \in 1 .. n : j[m + k] = b[k]
  BY <1>8, Joined
<1> HIDE DEF j
<1>5. ASSUME NEW k \in 1 .. (m + n) PROVE j[k] = c[k]
  <2>1. CASE k <= m
    <3>1. k \in 1 .. m
      BY <2>1
    <3> QED
      BY <1>1, <1>3, <1>4, <3>1
  <2>2. CASE k > m
    <3>1. k - m \in 1 .. n /\ m + (k - m) = k /\ offset + m + (k - m) = offset + k
      BY <2>2
    <3>2. j[m + (k - m)] = b[k - m] /\ b[k - m] = s[offset + m + (k - m)]
      BY <1>2, <1>4, <3>1
    <3> QED
      BY <1>3, <3>1, <3>2
  <2> QED
    BY <2>1, <2>2
<1>6. j = c
  BY <1>3, <1>4, <1>5, SameCells
<1> QED
  BY <1>6 DEF j, a, b, c, Join

\* one that is everything is the sequence,
LEMMA SliceWhole ==
  ASSUME NEW s \in Seq(Nat)
  PROVE  Slice(s, 0, Len(s)) = s
<1>1. SubSeq(s, 1, Len(s)) = s
  BY SubSeqFull
<1>2. Len(s) \in Nat
  BY CellsOf
<1> QED
  BY <1>1, <1>2 DEF Slice

\* one of a single cell is that cell,
LEMMA SliceCell ==
  ASSUME NEW s \in Seq(Nat), NEW offset \in Nat, offset + 1 <= Len(s)
  PROVE  Slice(s, offset, 1) = <<s[offset + 1]>>
<1> DEFINE a == Slice(s, offset, 1)
           b == <<s[offset + 1]>>
<1>0. Len(s) \in Nat /\ 1 \in Nat
  BY CellsOf
<1> DEFINE n == 1
<1>5. n \in Nat /\ offset + n <= Len(s) /\ n = 1
  OBVIOUS
<1> HIDE DEF n
<1>6. LET x == Slice(s, offset, n)
      IN  x \in Seq(Nat) /\ Len(x) = n /\ \A k \in 1 .. n : x[k] = s[offset + k]
  BY <1>5, Sliced
<1>1. a \in Seq(Nat) /\ Len(a) = 1 /\ \A k \in 1 .. 1 : a[k] = s[offset + k]
  BY <1>5, <1>6
<1>2. s[offset + 1] \in Nat
  BY CellsOf
<1>3. b \in Seq(Nat) /\ Len(b) = 1 /\ b[1] = s[offset + 1]
  BY <1>2
<1> HIDE DEF a, b
<1>4. a = b
  BY <1>1, <1>3, SameCells
<1> QED
  BY <1>4 DEF a, b


\* So many cells are left in a buffer.
CellsLeft(buffer, offset, n) == offset + n <= CellMax /\ offset + n <= Len(buffer)

LEMMA ItemsSliced ==
  ASSUME NEW buffer \in Seq(Nat), NEW offset \in Nat, NEW types, NEW n \in Nat, n > 0,
         Len(types) = n, DOMAIN types = 1 .. n
  PROVE  ReadItems(buffer, offset, types)
           = IF CellsLeft(buffer, offset, n) /\ AreItems(Slice(buffer, offset, n), types)
             THEN {[at |-> offset + n, value |-> Slice(buffer, offset, n)]} ELSE {}
<1> DEFINE s == Slice(buffer, offset, n)
           t == [k \in 1 .. n |-> buffer[offset + k]]
<1>0. CellMax \in Nat /\ Len(buffer) \in Nat
  BY CellsCounted, CellsOf
<1>1. ReadItems(buffer, offset, types)
        = IF Holds(buffer, offset, types) THEN {Taken(buffer, offset, n)} ELSE {}
  BY ItemsRead
<1>2. CellsLeft(buffer, offset, n) =>
        /\ s \in Seq(Nat) /\ Len(s) = n
        /\ \A k \in 1 .. n : s[k] = buffer[offset + k] /\ HasCell(buffer, offset + k - 1)
  <2>1. SUFFICES ASSUME CellsLeft(buffer, offset, n)
        PROVE  /\ s \in Seq(Nat) /\ Len(s) = n
               /\ \A k \in 1 .. n : s[k] = buffer[offset + k] /\ HasCell(buffer, offset + k - 1)
    OBVIOUS
  <2>2. offset + n <= Len(buffer) /\ offset + n <= CellMax
    BY <2>1 DEF CellsLeft
  <2>3. s \in Seq(Nat) /\ Len(s) = n /\ \A k \in 1 .. n : s[k] = buffer[offset + k]
    BY <2>2, Sliced
  <2>4. \A k \in 1 .. n : HasCell(buffer, offset + k - 1)
    BY <1>0, <2>2 DEF HasCell
  <2> QED
    BY <2>3, <2>4
<1> HIDE DEF s
<1>3. CellsLeft(buffer, offset, n) => s = t
  <2>1. SUFFICES ASSUME CellsLeft(buffer, offset, n) PROVE s = t
    OBVIOUS
  <2>2. s \in Seq(Nat) /\ Len(s) = n /\ \A k \in 1 .. n : s[k] = buffer[offset + k]
    BY <1>2, <2>1
  <2>3. s = [k \in 1 .. Len(s) |-> s[k]]
    BY <2>2, CellsOf
  <2> QED
    BY <2>2, <2>3
<1>4. Holds(buffer, offset, types) => CellsLeft(buffer, offset, n)
  <2>1. SUFFICES ASSUME Holds(buffer, offset, types) PROVE CellsLeft(buffer, offset, n)
    OBVIOUS
  <2>2. HasCell(buffer, offset + n - 1)
    BY <2>1 DEF Holds
  <2> QED
    BY <1>0, <2>2 DEF CellsLeft, HasCell
<1>5. CellsLeft(buffer, offset, n) => (Holds(buffer, offset, types) <=> AreItems(s, types))
  <2>1. SUFFICES ASSUME CellsLeft(buffer, offset, n)
        PROVE  Holds(buffer, offset, types) <=> AreItems(s, types)
    OBVIOUS
  <2>2. Holds(buffer, offset, types)
        <=> \A k \in 1 .. n : buffer[offset + k] \in Canonical[types[k]]
    BY <1>2, <2>1 DEF Holds
  <2>3. AreItems(s, types) <=> \A k \in 1 .. n : s[k] \in Canonical[types[k]]
    BY <1>2, <2>1 DEF AreItems
  <2> QED
    BY <1>2, <2>1, <2>2, <2>3
<1>6. Taken(buffer, offset, n) = [at |-> offset + n, value |-> t]
  BY DEF Taken
<1> HIDE DEF t
<1> QED
  BY <1>1, <1>3, <1>4, <1>5, <1>6 DEF s

LEMMA CellsAreNumbers == PointCells \subseteq Nat /\ ScalarCells \subseteq Nat
  BY CodecAssumption

----------------------------------------------------------------------------
(* An inner-product proof *)

IpaTypes(n) == Repeat("point", n) \o <<"scalar", "scalar">>

LEMMA IpaTyped ==
  ASSUME NEW n \in Nat
  PROVE  /\ Len(IpaTypes(n)) = n + 2 /\ DOMAIN IpaTypes(n) = 1 .. (n + 2)
         /\ \A k \in 1 .. n : IpaTypes(n)[k] = "point"
         /\ IpaTypes(n)[n + 1] = "scalar" /\ IpaTypes(n)[n + 2] = "scalar"
<1> DEFINE T == {"point", "scalar"}
           r == Repeat("point", n)
           t == <<"scalar", "scalar">>
           j == Join(r, t)
<1>1. r \in Seq(T) /\ Len(r) = n /\ \A k \in 1 .. n : r[k] = "point"
  BY DEF Repeat
<1>2. t \in Seq(T) /\ Len(t) = 2 /\ t[1] = "scalar" /\ t[2] = "scalar"
  OBVIOUS
<1> HIDE DEF r, t, T
<1>3. /\ j \in Seq(T) /\ Len(j) = Len(r) + Len(t)
      /\ \A k \in 1 .. Len(r) : j[k] = r[k]
      /\ \A k \in 1 .. Len(t) : j[Len(r) + k] = t[k]
  <2>0. r \in Seq(T) /\ t \in Seq(T)
    BY <1>1, <1>2
  <2>1. j \in Seq(T)
    BY <2>0, JoinedItems
  <2>2. Len(j) = Len(r) + Len(t)
    BY <2>0, JoinedItems
  <2>3. \A k \in 1 .. Len(r) : j[k] = r[k]
    BY <2>0, JoinedItems
  <2>4. \A k \in 1 .. Len(t) : j[Len(r) + k] = t[k]
    BY <2>0, JoinedItems
  <2> HIDE DEF j
  <2> QED
    BY <2>1, <2>2, <2>3, <2>4
<1> HIDE DEF j
<1>4. 1 \in 1 .. Len(t) /\ 2 \in 1 .. Len(t)
  BY <1>2
<1>5. j[n + 1] = t[1] /\ j[n + 2] = t[2] /\ Len(j) = n + 2
  BY <1>1, <1>2, <1>3, <1>4
<1>6. DOMAIN j = 1 .. (n + 2)
  BY <1>3, <1>5, CellsOf
<1>7. IpaTypes(n) = j
  BY DEF IpaTypes, r, t, j, Join
<1> QED
  BY <1>1, <1>2, <1>3, <1>5, <1>6, <1>7

\* A buffer has the length and the items of an inner-product proof,
IpaFits(buffer) ==
  /\ buffer[1] = Header("ipa")
  /\ Len(buffer) = 2 * buffer[2] + 4 /\ Len(buffer) <= CellMax
  /\ \A k \in 1 .. (2 * buffer[2]) : buffer[k + 2] \in PointCells
  /\ buffer[2 * buffer[2] + 3] \in ScalarCells
  /\ buffer[2 * buffer[2] + 4] \in ScalarCells

\* and is that of this one.
IpaIn(buffer) ==
  [points |-> [k \in 1 .. (2 * buffer[2]) |-> buffer[k + 2]],
   a |-> buffer[2 * buffer[2] + 3], b |-> buffer[2 * buffer[2] + 4]]

\* Its reader, by the parts of the buffer.
LEMMA IpaRead ==
  ASSUME NEW buffer \in Seq(Nat), Len(buffer) >= 4
  PROVE  IpaFromBytes(buffer) = IF IpaFits(buffer) THEN {IpaIn(buffer)} ELSE {}
<1> DEFINE n == 2 * buffer[2]
           types == IpaTypes(n)
<1>1. buffer[2] \in Nat /\ n \in Nat
  OBVIOUS
<1>2. CellMax \in Nat
  BY CellsCounted
<1>3. CASE buffer[1] # Header("ipa") \/ Len(buffer) # n + 4
  <2>1. n + 4 = 2 + n + 2
    BY <1>1
  <2>2. buffer[1] # Header("ipa") \/ Len(buffer) # 2 + n + 2
    BY <1>3, <2>1
  <2> DEFINE h == Header("ipa")
  <2> HIDE DEF h
  <2>3. IpaFromBytes(buffer) = {}
    BY <2>2 DEF IpaFromBytes, h
  <2> QED
    BY <1>3, <2>3 DEF IpaFits
<1>4. CASE buffer[1] = Header("ipa") /\ Len(buffer) = n + 4
  <2> DEFINE Part(r) == [points |-> SubSeq(r.value, 1, n), a |-> r.value[n + 1],
                         b |-> r.value[n + 2]]
  <2>1. IpaFromBytes(buffer) = {Part(r) : r \in ReadItems(buffer, 2, types)}
    <3>0. n + 4 = 2 + n + 2
      BY <1>1
    <3>1. ~(Len(buffer) < 4) /\ ~(Len(buffer) # 2 + n + 2)
      BY <1>4, <3>0
    <3>2. buffer[1] = Header("ipa")
      BY <1>4
    <3> QED
      BY <3>1, <3>2, Zenon DEF IpaFromBytes, IpaTypes
  <2>2. /\ Len(types) = n + 2 /\ DOMAIN types = 1 .. (n + 2)
        /\ \A k \in 1 .. n : types[k] = "point"
        /\ types[n + 1] = "scalar" /\ types[n + 2] = "scalar"
    <3> HIDE DEF n
    <3> QED
      BY <1>1, IpaTyped
  <2> DEFINE r == Taken(buffer, 2, n + 2)
  <2>3. ReadItems(buffer, 2, types) = IF Holds(buffer, 2, types) THEN {r} ELSE {}
    <3> HIDE DEF n, types, r
    <3> DEFINE m == n + 2
    <3>1. m \in Nat /\ 2 \in Nat /\ Len(types) = m /\ DOMAIN types = 1 .. m
      BY <1>1, <2>2
    <3> HIDE DEF m
    <3>2. ReadItems(buffer, 2, types)
          = IF Holds(buffer, 2, types) THEN {Taken(buffer, 2, m)} ELSE {}
      BY <3>1, ItemsRead
    <3> QED
      BY <3>2 DEF r, m
  <2>4. Holds(buffer, 2, types) <=> IpaFits(buffer)
    <3> DEFINE Good(k) == HasCell(buffer, 2 + k - 1) /\ buffer[2 + k] \in Canonical[types[k]]
    <3>1. Canonical["point"] = PointCells /\ Canonical["scalar"] = ScalarCells
      BY DEF Canonical
    <3>6. IpaFits(buffer) <=> /\ n + 4 <= CellMax
                              /\ \A k \in 1 .. n : buffer[k + 2] \in PointCells
                              /\ buffer[n + 3] \in ScalarCells /\ buffer[n + 4] \in ScalarCells
      BY <1>4 DEF IpaFits
    <3>0. Holds(buffer, 2, types) <=> \A k \in 1 .. (n + 2) : Good(k)
      <4>1. Len(types) = n + 2
        BY <2>2
      <4> HIDE DEF n, types
      <4> QED
        BY <4>1 DEF Holds
    <3> HIDE DEF n, types
    <3>2. \A k \in 1 .. n : Good(k) <=> k + 2 <= CellMax /\ buffer[k + 2] \in PointCells
      <4> TAKE k \in 1 .. n
      <4>1. 2 + k - 1 + 1 = k + 2 /\ 2 + k = k + 2 /\ k + 2 <= Len(buffer)
        BY <1>1, <1>4
      <4>2. HasCell(buffer, 2 + k - 1) <=> k + 2 <= CellMax
        BY <4>1 DEF HasCell
      <4> QED
        BY <2>2, <3>1, <4>1, <4>2
    <3>3. ASSUME NEW k \in {n + 1, n + 2}
          PROVE  Good(k) <=> k + 2 <= CellMax /\ buffer[k + 2] \in ScalarCells
      <4>1. 2 + k - 1 + 1 = k + 2 /\ 2 + k = k + 2 /\ k + 2 <= Len(buffer)
        BY <1>1, <1>4
      <4>2. HasCell(buffer, 2 + k - 1) <=> k + 2 <= CellMax
        BY <4>1 DEF HasCell
      <4> QED
        BY <2>2, <3>1, <4>1, <4>2
    <3>4. n + 1 + 2 = n + 3 /\ n + 2 + 2 = n + 4
      BY <1>1
    <3>5. Holds(buffer, 2, types) <=> (\A k \in 1 .. n : Good(k)) /\ Good(n + 1) /\ Good(n + 2)
      <4>1. /\ \A k \in 1 .. (n + 2) : k \in 1 .. n \/ k = n + 1 \/ k = n + 2
            /\ n + 1 \in 1 .. (n + 2) /\ n + 2 \in 1 .. (n + 2)
            /\ \A k \in 1 .. n : k \in 1 .. (n + 2)
        BY <1>1
      <4> HIDE DEF Good
      <4> QED
        BY <3>0, <4>1
    <3>7. Good(n + 1) <=> n + 3 <= CellMax /\ buffer[n + 3] \in ScalarCells
      <4> HIDE DEF Good
      <4> QED
        BY <3>3, <3>4
    <3>8. Good(n + 2) <=> n + 4 <= CellMax /\ buffer[n + 4] \in ScalarCells
      <4> HIDE DEF Good
      <4> QED
        BY <3>3, <3>4
    <3>9. n + 4 <= CellMax => n + 3 <= CellMax /\ \A k \in 1 .. n : k + 2 <= CellMax
      BY <1>1, <1>2
    <3> HIDE DEF Good
    <3> QED
      BY <3>2, <3>5, <3>6, <3>7, <3>8, <3>9
  <2>5. Part(r) = IpaIn(buffer)
    <3> DEFINE v == [k \in 1 .. (n + 2) |-> buffer[2 + k]]
    <3>1. r.value = v
      BY DEF Taken
    <3>0. IpaIn(buffer) = [points |-> [k \in 1 .. n |-> buffer[k + 2]],
                           a |-> buffer[n + 3], b |-> buffer[n + 4]]
      BY DEF IpaIn
    <3> HIDE DEF n
    <3>2. \A k \in 1 .. (n + 2) : v[k] = buffer[k + 2] /\ buffer[k + 2] \in Nat
      BY <1>1, <1>4
    <3>3. v \in Seq(Nat) /\ Len(v) = n + 2
      BY <1>1, <1>4
    <3> HIDE DEF v
    <3>4. SubSeq(v, 1, n) = [k \in 1 .. n |-> buffer[k + 2]]
      <4> DEFINE x == SubSeq(v, 1, n)
      <4>1. x = Slice(v, 0, n)
        BY <1>1 DEF Slice
      <4> HIDE DEF x
      <4> DEFINE o == 0
      <4>0. o \in Nat /\ o + n <= Len(v) /\ n \in Nat /\ x = Slice(v, o, n)
        BY <1>1, <3>3, <4>1
      <4> HIDE DEF o
      <4>6. x \in Seq(Nat) /\ Len(x) = n /\ \A k \in 1 .. n : x[k] = v[o + k]
        BY <3>3, <4>0, Sliced
      <4>2. x \in Seq(Nat) /\ Len(x) = n /\ \A k \in 1 .. n : x[k] = v[0 + k]
        BY <4>6 DEF o
      <4>3. x = [k \in 1 .. Len(x) |-> x[k]]
        BY <4>2, CellsOf
      <4>4. \A k \in 1 .. n : 0 + k = k /\ k \in 1 .. (n + 2)
        BY <1>1
      <4>5. x = [k \in 1 .. n |-> buffer[k + 2]]
        BY <3>2, <4>2, <4>3, <4>4
      <4> QED
        BY <4>5 DEF x
    <3>5. v[n + 1] = buffer[n + 3] /\ v[n + 2] = buffer[n + 4]
      <4>1. n + 1 \in 1 .. (n + 2) /\ n + 2 \in 1 .. (n + 2) /\ n + 1 + 2 = n + 3 /\ n + 2 + 2 = n + 4
        BY <1>1
      <4> QED
        BY <3>2, <4>1
    <3> HIDE DEF r
    <3> QED
      BY <3>0, <3>1, <3>4, <3>5
  <2> HIDE DEF Part, r, types, n
  <2> QED
    BY <2>1, <2>3, <2>4, <2>5
<1> QED
  BY <1>3, <1>4

\* The cells of an inner-product proof.
LEMMA IpaWritten ==
  ASSUME NEW p \in IpaProofs
  PROVE  /\ IpaToBytes(p) \in Seq(Nat)
         /\ Len(IpaToBytes(p)) = Len(p.points) + 4
         /\ IpaToBytes(p)[1] = Header("ipa") /\ 2 * IpaToBytes(p)[2] = Len(p.points)
         /\ \A k \in 1 .. Len(p.points) : IpaToBytes(p)[k + 2] = p.points[k]
         /\ IpaToBytes(p)[Len(p.points) + 3] = p.a /\ IpaToBytes(p)[Len(p.points) + 4] = p.b
<1> DEFINE points == p.points
           n == Len(points)
           head == <<Header("ipa"), n \div 2>>
           tail == <<p.a, p.b>>
<1>1. /\ points \in Seq(PointCells) /\ p.a \in ScalarCells /\ p.b \in ScalarCells
      /\ n \in Nat /\ n % 2 = 0
  BY DEF IpaProofs
<1>0. PointCells \subseteq Nat /\ ScalarCells \subseteq Nat
  BY CellsAreNumbers
<1>6. IpaToBytes(p) = head \o points \o tail
  BY DEF IpaToBytes
<1> HIDE DEF points
<1>2. points \in Seq(Nat) /\ p.a \in Nat /\ p.b \in Nat /\ Len(points) = n
  <2>1. points \in Seq(Nat)
    <3> DEFINE T == Nat
    <3>1. PointCells \subseteq T
      BY <1>0
    <3> HIDE DEF T
    <3>2. points \in Seq(T)
      BY <1>1, <3>1, MoreCells
    <3> QED
      BY <3>2 DEF T
  <2> QED
    BY <1>0, <1>1, <2>1
<1>3. Header("ipa") = 12
  BY DEF Header
<1> HIDE DEF n
<1>4. n \div 2 \in Nat /\ 2 * (n \div 2) = n
  BY <1>1
<1>5. /\ head \in Seq(Nat) /\ Len(head) = 2 /\ head[1] = Header("ipa") /\ head[2] = n \div 2
      /\ tail \in Seq(Nat) /\ Len(tail) = 2 /\ tail[1] = p.a /\ tail[2] = p.b
  <2>1. head = <<12, n \div 2>>
    BY <1>3
  <2> HIDE DEF head
  <2> QED
    BY <1>2, <1>3, <1>4, <2>1
<1> HIDE DEF head, tail
<1> DEFINE first == Join(head, points)
           all == Join(first, tail)
<1>8. /\ first \in Seq(Nat) /\ Len(first) = n + 2
      /\ first[1] = head[1] /\ first[2] = head[2]
      /\ \A k \in 1 .. n : first[k + 2] = points[k]
  <2>1. /\ first \in Seq(Nat) /\ Len(first) = Len(head) + Len(points)
        /\ \A k \in 1 .. Len(head) : first[k] = head[k]
        /\ \A k \in 1 .. Len(points) : first[Len(head) + k] = points[k]
    BY <1>2, <1>5, Joined
  <2>2. 1 \in 1 .. 2 /\ 2 \in 1 .. 2 /\ 2 + n = n + 2 /\ \A k \in 1 .. n : 2 + k = k + 2
    BY <1>1
  <2> HIDE DEF first
  <2> QED
    BY <1>2, <1>5, <2>1, <2>2
<1> HIDE DEF first
<1>9. /\ all \in Seq(Nat) /\ Len(all) = n + 4
      /\ all[1] = first[1] /\ all[2] = first[2]
      /\ \A k \in 1 .. n : all[k + 2] = first[k + 2]
      /\ all[n + 3] = tail[1] /\ all[n + 4] = tail[2]
  <2>1. /\ all \in Seq(Nat) /\ Len(all) = Len(first) + Len(tail)
        /\ \A k \in 1 .. Len(first) : all[k] = first[k]
        /\ \A k \in 1 .. Len(tail) : all[Len(first) + k] = tail[k]
    BY <1>5, <1>8, Joined
  <2>2. /\ 1 \in 1 .. 2 /\ 2 \in 1 .. 2 /\ 1 \in 1 .. (n + 2) /\ 2 \in 1 .. (n + 2)
        /\ \A k \in 1 .. n : k + 2 \in 1 .. (n + 2)
        /\ n + 2 + 1 = n + 3 /\ n + 2 + 2 = n + 4
    BY <1>1
  <2> HIDE DEF all
  <2> QED
    BY <1>5, <1>8, <2>1, <2>2
<1> HIDE DEF all
<1>10. IpaToBytes(p) = all
  BY <1>6 DEF first, all, Join
<1>11. Len(p.points) = n /\ p.points = points
  BY DEF n, points
<1> QED
  BY <1>4, <1>5, <1>8, <1>9, <1>10, <1>11

\* It reads what was written,
LEMMA IpaRoundTrip ==
  ASSUME NEW p \in IpaProofs, Len(IpaToBytes(p)) <= CellMax
  PROVE  IpaFromBytes(IpaToBytes(p)) = {p}
<1> DEFINE b == IpaToBytes(p)
           n == Len(p.points)
           points == p.points
<1>1. /\ b \in Seq(Nat) /\ Len(b) = n + 4
      /\ b[1] = Header("ipa") /\ 2 * b[2] = n
      /\ \A k \in 1 .. n : b[k + 2] = points[k]
      /\ b[n + 3] = p.a /\ b[n + 4] = p.b
  BY IpaWritten
<1>2. /\ points \in Seq(PointCells) /\ p.a \in ScalarCells /\ p.b \in ScalarCells /\ n \in Nat
      /\ p = [points |-> points, a |-> p.a, b |-> p.b]
  BY DEF IpaProofs
<1>3. n = Len(points)
  OBVIOUS
<1> HIDE DEF b, n, points
<1>4. points = [k \in 1 .. n |-> points[k]] /\ \A k \in 1 .. n : points[k] \in PointCells
  BY <1>2, <1>3
<1>5. Len(b) >= 4 /\ Len(b) <= CellMax
  BY <1>1, <1>2 DEF b
<1>6. IpaFits(b)
  BY <1>1, <1>2, <1>4, <1>5 DEF IpaFits
<1>7. IpaIn(b) = p
  <2>1. [k \in 1 .. n |-> b[k + 2]] = points
    BY <1>1, <1>4
  <2> QED
    BY <1>1, <1>2, <2>1 DEF IpaIn
<1>8. IpaFromBytes(b) = IF IpaFits(b) THEN {IpaIn(b)} ELSE {}
  BY <1>1, <1>5, IpaRead
<1> QED
  BY <1>6, <1>7, <1>8 DEF b

\* and nothing but what is written.
LEMMA IpaCanonical ==
  ASSUME NEW buffer \in Seq(Nat), NEW v \in IpaFromBytes(buffer)
  PROVE  v \in IpaProofs /\ IpaToBytes(v) = buffer
<1>1. Len(buffer) >= 4
  <2>1. ~(Len(buffer) < 4)
    BY DEF IpaFromBytes
  <2> QED
    BY <2>1
<1>2. IpaFits(buffer) /\ v = IpaIn(buffer)
  BY <1>1, IpaRead
<1> DEFINE n == 2 * buffer[2]
<1>3. n \in Nat /\ buffer[2] \in Nat /\ n % 2 = 0 /\ Len(buffer) = n + 4 /\ 2 * buffer[2] = n
  <2>1. buffer[2] \in Nat
    BY <1>1
  <2> DEFINE m == buffer[2]
  <2> HIDE DEF m
  <2>2. 2 * m \in Nat /\ (2 * m) % 2 = 0
    BY <2>1 DEF m
  <2> QED
    BY <1>2, <2>1, <2>2 DEF IpaFits, m
<1>4. v = [points |-> [k \in 1 .. n |-> buffer[k + 2]], a |-> buffer[n + 3], b |-> buffer[n + 4]]
  BY <1>2 DEF IpaIn
<1>5. /\ \A k \in 1 .. n : buffer[k + 2] \in PointCells
      /\ buffer[n + 3] \in ScalarCells /\ buffer[n + 4] \in ScalarCells
      /\ buffer[1] = Header("ipa")
  BY <1>2 DEF IpaFits
<1> DEFINE points == v.points
<1> HIDE DEF n
<1>6. /\ points = [k \in 1 .. n |-> buffer[k + 2]] /\ v.a = buffer[n + 3] /\ v.b = buffer[n + 4]
      /\ v = [points |-> points, a |-> v.a, b |-> v.b]
  BY <1>4
<1> HIDE DEF points
<1>7. points \in Seq(PointCells) /\ Len(points) = n /\ \A k \in 1 .. n : points[k] = buffer[k + 2]
  <2> DEFINE f == [k \in 1 .. n |-> buffer[k + 2]]
  <2>1. f \in Seq(PointCells) /\ Len(f) = n
    BY <1>3, <1>5
  <2>2. \A k \in 1 .. n : f[k] = buffer[k + 2]
    OBVIOUS
  <2> HIDE DEF f
  <2>3. points = f
    BY <1>6 DEF f
  <2> QED
    BY <2>1, <2>2, <2>3
<1>8. v \in IpaProofs /\ Len(v.points) = n
  <2> DEFINE a == v.a
             b == v.b
  <2>1. v = [points |-> points, a |-> a, b |-> b] /\ a \in ScalarCells /\ b \in ScalarCells
    BY <1>5, <1>6
  <2> HIDE DEF a, b
  <2>2. v.points = points
    BY <2>1
  <2> QED
    BY <1>3, <1>7, <2>1, <2>2 DEF IpaProofs
<1> DEFINE c == IpaToBytes(v)
<1>9. /\ c \in Seq(Nat) /\ Len(c) = n + 4
      /\ c[1] = Header("ipa") /\ 2 * c[2] = n
      /\ \A k \in 1 .. n : c[k + 2] = points[k]
      /\ c[n + 3] = v.a /\ c[n + 4] = v.b
  BY <1>8, IpaWritten DEF points
<1> HIDE DEF c
<1>10. c[2] = buffer[2]
  <2>1. c[2] \in Nat
    BY <1>3, <1>9
  <2> DEFINE x == c[2]
             y == buffer[2]
  <2>2. x \in Nat /\ y \in Nat /\ 2 * x = 2 * y
    BY <1>3, <1>9, <2>1
  <2> HIDE DEF x, y
  <2>3. x = y
    BY <2>2
  <2> QED
    BY <2>3 DEF x, y
<1>11. ASSUME NEW k \in 1 .. (n + 4) PROVE c[k] = buffer[k]
  <2>1. k = 1 \/ k = 2 \/ k = n + 3 \/ k = n + 4 \/ (k - 2 \in 1 .. n /\ k - 2 + 2 = k)
    BY <1>3
  <2>2. \A j \in 1 .. n : c[j + 2] = buffer[j + 2]
    BY <1>7, <1>9
  <2>3. (k - 2 \in 1 .. n /\ k - 2 + 2 = k) => c[k] = buffer[k]
    BY <2>2
  <2> QED
    BY <1>5, <1>6, <1>9, <1>10, <2>1, <2>3
<1>12. c = buffer
  BY <1>3, <1>9, <1>11
<1> QED
  BY <1>8, <1>12 DEF c

\* A sequence of cells lies in another behind so many cells.
LiesAt(x, s, offset) == offset + Len(x) <= Len(s) /\ Slice(s, offset, Len(x)) = x

LEMMA LiesBehind ==
  ASSUME NEW s \in Seq(Nat), NEW t \in Seq(Nat)
  PROVE  LiesAt(t, Join(s, t), Len(s))
<1> DEFINE j == Join(s, t)
           m == Len(s)
           n == Len(t)
           x == Slice(j, m, n)
<1>1. j \in Seq(Nat) /\ Len(j) = m + n /\ \A k \in 1 .. n : j[m + k] = t[k]
  BY Joined
<1>2. m \in Nat /\ n \in Nat /\ Len(t) = n
  BY CellsOf
<1> HIDE DEF j, m, n
<1>3. x \in Seq(Nat) /\ Len(x) = n /\ \A k \in 1 .. n : x[k] = j[m + k]
  BY <1>1, <1>2, Sliced
<1> HIDE DEF x
<1>4. x = t
  BY <1>1, <1>2, <1>3, SameCells
<1>5. m + n <= Len(j) /\ Slice(j, m, n) = t
  BY <1>1, <1>2, <1>4 DEF x
<1> QED
  BY <1>5 DEF LiesAt, j, m, n

LEMMA LiesStill ==
  ASSUME NEW x \in Seq(Nat), NEW s \in Seq(Nat), NEW t \in Seq(Nat), NEW offset \in Nat,
         LiesAt(x, s, offset)
  PROVE  LiesAt(x, Join(s, t), offset)
<1> DEFINE j == Join(s, t)
           m == Len(s)
           n == Len(x)
           y == Slice(j, offset, n)
           z == Slice(s, offset, n)
<1>1. j \in Seq(Nat) /\ Len(j) = m + Len(t) /\ \A k \in 1 .. m : j[k] = s[k]
  BY Joined
<1>2. m \in Nat /\ n \in Nat /\ Len(t) \in Nat /\ Len(s) = m
  BY CellsOf
<1>3. offset + n <= m /\ z = x
  BY DEF LiesAt
<1> HIDE DEF j, m, n
<1>4. offset + n <= Len(j)
  BY <1>1, <1>2, <1>3
<1>5. y \in Seq(Nat) /\ Len(y) = n /\ \A k \in 1 .. n : y[k] = j[offset + k]
  BY <1>1, <1>2, <1>4, Sliced
<1>6. z \in Seq(Nat) /\ Len(z) = n /\ \A k \in 1 .. n : z[k] = s[offset + k]
  BY <1>2, <1>3, Sliced
<1> HIDE DEF y, z
<1>7. \A k \in 1 .. n : offset + k \in 1 .. m
  BY <1>2, <1>3
<1>8. \A k \in 1 .. n : y[k] = z[k]
  BY <1>1, <1>5, <1>6, <1>7
<1>9. y = z
  BY <1>5, <1>6, <1>8, SameCells
<1>10. offset + n <= Len(j) /\ y = x
  BY <1>3, <1>4, <1>9
<1> QED
  BY <1>10 DEF LiesAt, j, y, n

LEMMA LiesCell ==
  ASSUME NEW c \in Nat, NEW s \in Seq(Nat), NEW offset \in Nat, LiesAt(<<c>>, s, offset)
  PROVE  offset + 1 <= Len(s) /\ s[offset + 1] = c
<1> DEFINE x == <<c>>
           n == 1
<1>1. x \in Seq(Nat) /\ Len(x) = n /\ n \in Nat /\ n = 1 /\ x[n] = c
  OBVIOUS
<1>2. LiesAt(x, s, offset)
  OBVIOUS
<1> HIDE DEF x, n
<1>3. offset + n <= Len(s) /\ Slice(s, offset, n) = x
  BY <1>1, <1>2 DEF LiesAt
<1>4. \A k \in 1 .. n : Slice(s, offset, n)[k] = s[offset + k]
  BY <1>1, <1>3, Sliced
<1>5. n \in 1 .. n
  BY <1>1
<1>6. s[offset + n] = c
  BY <1>1, <1>3, <1>4, <1>5
<1> QED
  BY <1>1, <1>3, <1>6

\* The first cells of a sequence; those that follow make them more.
FirstCells(s, n) == Slice(s, 0, n)

LEMMA FirstOne ==
  ASSUME NEW s \in Seq(Nat), Len(s) >= 1
  PROVE  FirstCells(s, 1) = <<s[1]>>
<1> DEFINE o == 0
<1>1. o \in Nat /\ o + 1 = 1 /\ o + 1 <= Len(s)
  OBVIOUS
<1> HIDE DEF o
<1>2. Slice(s, o, 1) = <<s[o + 1]>>
  BY <1>1, SliceCell
<1> QED
  BY <1>1, <1>2 DEF FirstCells, o

LEMMA FirstMore ==
  ASSUME NEW s \in Seq(Nat), NEW m \in Nat, NEW n \in Nat, m + n <= Len(s)
  PROVE  Join(FirstCells(s, m), Slice(s, m, n)) = FirstCells(s, m + n)
<1> DEFINE o == 0
<1>1. o \in Nat /\ o + m = m /\ o + m + n <= Len(s)
  OBVIOUS
<1> HIDE DEF o
<1>2. Slice(s, o, m) \o Slice(s, o + m, n) = Slice(s, o, m + n)
  BY <1>1, SlicesJoin
<1>3. Slice(s, o, m) \o Slice(s, m, n) = Slice(s, o, m + n)
  BY <1>1, <1>2
<1> QED
  BY <1>3 DEF Join, FirstCells, o

LEMMA FirstAll ==
  ASSUME NEW s \in Seq(Nat), NEW n, n = Len(s)
  PROVE  FirstCells(s, n) = s
  BY SliceWhole DEF FirstCells

----------------------------------------------------------------------------
(* A circuit proof *)

LEMMA CircuitItemsTyped ==
  ASSUME NEW n \in Nat, n = 12
  PROVE  Len(CircuitItems) = n /\ DOMAIN CircuitItems = 1 .. n
<1> DEFINE T == {"point", "scalar"}
           a == Repeat("point", 8)
           b == Repeat("scalar", 3)
           c == <<"point">>
           d == Join(a, b)
           e == Join(d, c)
<1>1. a \in Seq(T) /\ Len(a) = 8
  BY DEF Repeat
<1>2. b \in Seq(T) /\ Len(b) = 3
  BY DEF Repeat
<1>3. c \in Seq(T) /\ Len(c) = 1
  OBVIOUS
<1>4. e = CircuitItems
  BY DEF CircuitItems, Join
<1> HIDE DEF T, a, b, c
<1>5. d \in Seq(T) /\ Len(d) = Len(a) + Len(b)
  BY <1>1, <1>2, JoinedItems
<1> HIDE DEF d
<1>6. e \in Seq(T) /\ Len(e) = Len(d) + Len(c)
  BY <1>3, <1>5, JoinedItems
<1> HIDE DEF e
<1>7. Len(e) = n
  BY <1>1, <1>2, <1>3, <1>5, <1>6
<1>8. DOMAIN e = 1 .. n
  BY <1>6, <1>7, CellsOf
<1> QED
  BY <1>4, <1>7, <1>8

\* The items of a circuit proof, its length, and the inner-product proof make up the buffer.
CircuitFits(buffer) ==
  /\ Len(buffer) >= 14 /\ Len(buffer) <= CellMax
  /\ buffer[1] = Header("circuit") /\ Len(buffer) = 14 + buffer[14]
  /\ AreItems(Slice(buffer, 1, 12), CircuitItems)

\* Its reader, by the parts of the buffer.
LEMMA CircuitRead ==
  ASSUME NEW buffer \in Seq(Nat), NEW v
  PROVE  v \in CircuitFromBytes(buffer) <=>
           /\ CircuitFits(buffer)
           /\ \E ipa \in IpaFromBytes(Slice(buffer, 14, buffer[14])) :
                v = [items |-> Slice(buffer, 1, 12), ipa |-> ipa]
<1> DEFINE Items == ReadItems(buffer, 1, CircuitItems)
           From(r, len, s) == {[items |-> r.value, ipa |-> ipa] : ipa \in IpaFromBytes(s.value)}
           one == 1
           twelve == 12
           last == 13
           x == Slice(buffer, one, twelve)
           n == buffer[14]
           item == [at |-> one + twelve, value |-> x]
           len == [at |-> last + 1, value |-> n]
           part == [at |-> 14 + n, value |-> Slice(buffer, 14, n)]
<1>0. CellMax \in Nat /\ Len(buffer) \in Nat
  BY CellsCounted, CellsOf
<1>1. v \in CircuitFromBytes(buffer) <=>
        /\ Len(buffer) >= 1 /\ buffer[1] = Header("circuit")
        /\ \E r \in Items : \E l \in ReadLen(buffer, r.at) :
           \E s \in ReadSlice(buffer, l.at, l.value) :
             /\ s.at = Len(buffer)
             /\ \E ipa \in IpaFromBytes(s.value) : v = [items |-> r.value, ipa |-> ipa]
  <2> DEFINE h == Header("circuit")
             Body == UNION {UNION {{[items |-> r.value, ipa |-> ipa] :
                        ipa \in UNION {IpaFromBytes(s.value) :
                                         s \in {s \in ReadSlice(buffer, l.at, l.value) :
                                                  s.at = Len(buffer)}}} :
                l \in ReadLen(buffer, r.at)} :
         r \in Items}
  <2>1. v \in Body <=> \E r \in Items : \E l \in ReadLen(buffer, r.at) :
           \E s \in ReadSlice(buffer, l.at, l.value) :
             /\ s.at = Len(buffer)
             /\ \E ipa \in IpaFromBytes(s.value) : v = [items |-> r.value, ipa |-> ipa]
    <3> DEFINE Ipas(l) == UNION {IpaFromBytes(s.value) :
                                   s \in {s \in ReadSlice(buffer, l.at, l.value) : s.at = Len(buffer)}}
               Proofs(r, l) == {[items |-> r.value, ipa |-> ipa] : ipa \in Ipas(l)}
               Rest(r) == UNION {Proofs(r, l) : l \in ReadLen(buffer, r.at)}
    <3>1. \A l, ipa : ipa \in Ipas(l) <=> \E s \in ReadSlice(buffer, l.at, l.value) :
                         s.at = Len(buffer) /\ ipa \in IpaFromBytes(s.value)
      OBVIOUS
    <3> HIDE DEF Ipas
    <3>2. \A r, l : v \in Proofs(r, l) <=> \E ipa \in Ipas(l) : v = [items |-> r.value, ipa |-> ipa]
      BY Zenon
    <3> HIDE DEF Proofs
    <3>3. \A r : v \in Rest(r) <=> \E l \in ReadLen(buffer, r.at) : v \in Proofs(r, l)
      BY Zenon
    <3>4. Body = UNION {Rest(r) : r \in Items}
      BY DEF Proofs, Ipas
    <3> HIDE DEF Rest, Body, Items
    <3>5. v \in Body <=> \E r \in Items : v \in Rest(r)
      BY <3>4, Zenon
    <3> DEFINE Good(r, l) == \E s \in ReadSlice(buffer, l.at, l.value) :
                               /\ s.at = Len(buffer)
                               /\ \E ipa \in IpaFromBytes(s.value) :
                                    v = [items |-> r.value, ipa |-> ipa]
    <3>6. ASSUME NEW r, NEW l
          PROVE  (\E ipa \in Ipas(l) : v = [items |-> r.value, ipa |-> ipa]) <=> Good(r, l)
      <4>1. ASSUME NEW ipa \in Ipas(l), v = [items |-> r.value, ipa |-> ipa] PROVE Good(r, l)
        BY <3>1, <4>1, Zenon
      <4>2. ASSUME Good(r, l) PROVE \E ipa \in Ipas(l) : v = [items |-> r.value, ipa |-> ipa]
        BY <3>1, <4>2, Zenon
      <4> QED
        BY <4>1, <4>2, Zenon
    <3>7. \A r, l : v \in Proofs(r, l) <=> Good(r, l)
      BY <3>2, <3>6, Zenon
    <3>8. v \in Body <=> \E r \in Items : \E l \in ReadLen(buffer, r.at) : Good(r, l)
      <4> HIDE DEF Good
      <4> QED
        BY <3>3, <3>5, <3>7, Zenon
    <3> QED
      BY <3>8, Zenon
  <2>2. CircuitFromBytes(buffer) = IF Len(buffer) < 1 \/ buffer[1] # h THEN {} ELSE Body
    BY DEF CircuitFromBytes
  <2>3. ~(Len(buffer) < 1) <=> Len(buffer) >= 1
    BY <1>0
  <2> HIDE DEF Body, h
  <2> QED
    BY <2>1, <2>2, <2>3 DEF h
<1>2. Items = IF CellsLeft(buffer, one, twelve) /\ AreItems(x, CircuitItems) THEN {item} ELSE {}
  <2>1. /\ one \in Nat /\ twelve \in Nat /\ twelve > 0 /\ Len(CircuitItems) = twelve
        /\ DOMAIN CircuitItems = 1 .. twelve /\ Items = ReadItems(buffer, one, CircuitItems)
    <3>1. twelve \in Nat /\ twelve = 12
      OBVIOUS
    <3> HIDE DEF twelve
    <3>2. Len(CircuitItems) = twelve /\ DOMAIN CircuitItems = 1 .. twelve
      BY <3>1, CircuitItemsTyped
    <3> QED
      BY <3>1, <3>2
  <2> HIDE DEF one, twelve, Items, x
  <2>2. ReadItems(buffer, one, CircuitItems)
        = IF CellsLeft(buffer, one, twelve) /\ AreItems(Slice(buffer, one, twelve), CircuitItems)
          THEN {[at |-> one + twelve, value |-> Slice(buffer, one, twelve)]} ELSE {}
    BY <2>1, ItemsSliced
  <2> QED
    BY <2>1, <2>2 DEF x
<1>3. item.at = last /\ item.value = x
  OBVIOUS
<1>4. ReadLen(buffer, last) = IF HasCell(buffer, last) THEN {len} ELSE {}
  <2>1. last \in Nat /\ last + 1 = 14
    OBVIOUS
  <2> HIDE DEF last
  <2>2. ReadLen(buffer, last) = IF HasCell(buffer, last)
                                THEN {[at |-> last + 1, value |-> buffer[last + 1]]} ELSE {}
    BY <2>1, LenRead
  <2> QED
    BY <2>1, <2>2
<1>5. len.at = 14 /\ len.value = n
  OBVIOUS
<1>6. HasCell(buffer, last) =>
        ReadSlice(buffer, 14, n) = IF CellsLeft(buffer, 14, n) THEN {part} ELSE {}
  <2>1. SUFFICES ASSUME HasCell(buffer, last)
        PROVE  ReadSlice(buffer, 14, n) = IF CellsLeft(buffer, 14, n) THEN {part} ELSE {}
    OBVIOUS
  <2>2. n \in Nat
    BY <1>0, <2>1 DEF HasCell
  <2> HIDE DEF n
  <2>3. (14 + n > CellMax \/ 14 + n > Len(buffer)) <=> ~CellsLeft(buffer, 14, n)
    BY <1>0, <2>2 DEF CellsLeft
  <2> QED
    BY <2>3, Zenon DEF ReadSlice, Slice
<1>7. part.at = 14 + n /\ part.value = Slice(buffer, 14, n)
  OBVIOUS
<1>8. CircuitFits(buffer) <=>
        /\ Len(buffer) >= 1 /\ buffer[1] = Header("circuit")
        /\ CellsLeft(buffer, one, twelve) /\ AreItems(x, CircuitItems)
        /\ HasCell(buffer, last) /\ CellsLeft(buffer, 14, n) /\ 14 + n = Len(buffer)
  <2>1. Len(buffer) >= 14 => n \in Nat
    OBVIOUS
  <2> DEFINE h == Header("circuit")
             Is == AreItems(x, CircuitItems)
  <2>2. CircuitFits(buffer) <=> /\ Len(buffer) >= 14 /\ Len(buffer) <= CellMax
                                /\ buffer[1] = h /\ Len(buffer) = 14 + n /\ Is
    BY DEF CircuitFits
  <2>3. CellsLeft(buffer, one, twelve) <=> 13 <= CellMax /\ 13 <= Len(buffer)
    BY DEF CellsLeft
  <2>4. CellsLeft(buffer, 14, n) <=> 14 + n <= CellMax /\ 14 + n <= Len(buffer)
    BY DEF CellsLeft
  <2>5. HasCell(buffer, last) <=> 14 <= CellMax /\ 14 <= Len(buffer)
    BY DEF HasCell
  <2> HIDE DEF h, Is, n, one, twelve, last
  <2> QED
    BY <1>0, <2>1, <2>2, <2>3, <2>4, <2>5 DEF h, Is
<1> HIDE DEF Items, item, len, part, x, n, last
<1>9. ASSUME v \in CircuitFromBytes(buffer)
      PROVE  CircuitFits(buffer) /\ \E ipa \in IpaFromBytes(Slice(buffer, 14, n)) :
                                      v = [items |-> x, ipa |-> ipa]
  <2>7. PICK r \in Items : \E l \in ReadLen(buffer, r.at) :
          \E s \in ReadSlice(buffer, l.at, l.value) :
            /\ s.at = Len(buffer)
            /\ \E ipa \in IpaFromBytes(s.value) : v = [items |-> r.value, ipa |-> ipa]
    BY <1>1, <1>9, Zenon
  <2>8. PICK l \in ReadLen(buffer, r.at) :
          \E s \in ReadSlice(buffer, l.at, l.value) :
            /\ s.at = Len(buffer)
            /\ \E ipa \in IpaFromBytes(s.value) : v = [items |-> r.value, ipa |-> ipa]
    BY <2>7, Zenon
  <2>1. PICK s \in ReadSlice(buffer, l.at, l.value) :
          /\ s.at = Len(buffer)
          /\ \E ipa \in IpaFromBytes(s.value) : v = [items |-> r.value, ipa |-> ipa]
    BY <2>8, Zenon
  <2>2. r = item /\ CellsLeft(buffer, one, twelve) /\ AreItems(x, CircuitItems)
    BY <1>2, Zenon
  <2>3. l = len /\ HasCell(buffer, last)
    BY <1>3, <1>4, <2>2, Zenon
  <2>4. s = part /\ CellsLeft(buffer, 14, n)
    BY <1>5, <1>6, <2>1, <2>3, Zenon
  <2>5. 14 + n = Len(buffer)
    BY <1>7, <2>1, <2>4, Zenon
  <2>6. CircuitFits(buffer)
    BY <1>1, <1>8, <1>9, <2>2, <2>3, <2>4, <2>5, Zenon
  <2> QED
    BY <1>3, <1>7, <2>1, <2>2, <2>4, <2>6, Zenon
<1>10. ASSUME CircuitFits(buffer), NEW ipa \in IpaFromBytes(Slice(buffer, 14, n)),
              v = [items |-> x, ipa |-> ipa]
       PROVE  v \in CircuitFromBytes(buffer)
  <2>1. item \in Items
    BY <1>2, <1>8, <1>10, Zenon
  <2>2. len \in ReadLen(buffer, item.at)
    BY <1>3, <1>4, <1>8, <1>10, Zenon
  <2>3. part \in ReadSlice(buffer, len.at, len.value)
    BY <1>5, <1>6, <1>8, <1>10, Zenon
  <2>4. part.at = Len(buffer)
    BY <1>7, <1>8, <1>10, Zenon
  <2>5. ipa \in IpaFromBytes(part.value) /\ v = [items |-> item.value, ipa |-> ipa]
    BY <1>3, <1>7, <1>10, Zenon
  <2>6. Len(buffer) >= 1 /\ buffer[1] = Header("circuit")
    BY <1>8, <1>10, Zenon
  <2> QED
    BY <1>1, <2>1, <2>2, <2>3, <2>4, <2>5, <2>6, Zenon
<1>11. Slice(buffer, 1, 12) = x /\ buffer[14] = n
  BY DEF x, n
<1> QED
  BY <1>9, <1>10, <1>11, Zenon

Four(a, b, c, d) == Join(Join(Join(a, b), c), d)

LEMMA LiesFirst ==
  ASSUME NEW s \in Seq(Nat)
  PROVE  LiesAt(s, s, 0)
<1>1. Slice(s, 0, Len(s)) = s
  BY SliceWhole
<1>2. Len(s) \in Nat
  BY CellsOf
<1> QED
  BY <1>1, <1>2 DEF LiesAt

LEMMA FourParts ==
  ASSUME NEW a \in Seq(Nat), NEW b \in Seq(Nat), NEW c \in Seq(Nat), NEW d \in Seq(Nat)
  PROVE  /\ Four(a, b, c, d) \in Seq(Nat)
         /\ Len(Four(a, b, c, d)) = Len(a) + Len(b) + Len(c) + Len(d)
         /\ LiesAt(a, Four(a, b, c, d), 0)
         /\ LiesAt(b, Four(a, b, c, d), Len(a))
         /\ LiesAt(c, Four(a, b, c, d), Len(a) + Len(b))
         /\ LiesAt(d, Four(a, b, c, d), Len(a) + Len(b) + Len(c))
<1> DEFINE s == Join(a, b)
           t == Join(s, c)
           u == Join(t, d)
           o == 0
           l == Len(a)
           m == Len(a) + Len(b)
           n == Len(a) + Len(b) + Len(c)
<1>0. /\ o \in Nat /\ l \in Nat /\ m \in Nat /\ n \in Nat
      /\ Len(a) \in Nat /\ Len(b) \in Nat /\ Len(c) \in Nat /\ Len(d) \in Nat
  BY CellsOf
<1>1. s \in Seq(Nat) /\ Len(s) = m
  BY Joined
<1>2. LiesAt(b, s, l)
  BY LiesBehind
<1>3. LiesAt(a, a, o)
  BY LiesFirst
<1> HIDE DEF o, l, m
<1>4. LiesAt(a, s, o)
  BY <1>0, <1>3, LiesStill
<1> HIDE DEF s
<1>5. t \in Seq(Nat) /\ Len(t) = n
  BY <1>1, Joined DEF m
<1>6. LiesAt(c, t, m)
  BY <1>1, LiesBehind
<1>7. LiesAt(a, t, o)
  BY <1>0, <1>1, <1>4, LiesStill
<1>8. LiesAt(b, t, l)
  BY <1>0, <1>1, <1>2, LiesStill
<1> HIDE DEF t, n
<1>9. u \in Seq(Nat) /\ Len(u) = n + Len(d)
  BY <1>5, Joined
<1>10. LiesAt(d, u, n)
  BY <1>5, LiesBehind
<1>11. LiesAt(a, u, o)
  BY <1>0, <1>5, <1>7, LiesStill
<1>12. LiesAt(b, u, l)
  BY <1>0, <1>5, <1>8, LiesStill
<1>13. LiesAt(c, u, m)
  BY <1>0, <1>5, <1>6, LiesStill
<1>14. Four(a, b, c, d) = u
  BY DEF Four, s, t, u
<1> HIDE DEF u
<1>15. Len(u) = Len(a) + Len(b) + Len(c) + Len(d)
  BY <1>9 DEF n
<1> QED
  BY <1>9, <1>10, <1>11, <1>12, <1>13, <1>14, <1>15 DEF o, l, m, n

\* A sequence is made up of its first cell, the next ones, one more and the rest.
LEMMA FourSlices ==
  ASSUME NEW s \in Seq(Nat), NEW m \in Nat, NEW n \in Nat, Len(s) = m + 2 + n
  PROVE  Four(<<s[1]>>, Slice(s, 1, m), <<s[m + 2]>>, Slice(s, m + 2, n)) = s
<1> DEFINE one == 1
           k == one + m
           l == m + 2
<1>0. /\ one \in Nat /\ k \in Nat /\ l \in Nat /\ k + one = l /\ k + 1 = l
      /\ one + m <= Len(s) /\ k + one <= Len(s) /\ k + 1 <= Len(s)
      /\ l + n <= Len(s) /\ Len(s) >= 1 /\ l + n = Len(s) /\ one = 1
  OBVIOUS
<1>1. FirstCells(s, one) = <<s[1]>>
  BY <1>0, FirstOne
<1> HIDE DEF one, l
<1>2. Join(FirstCells(s, one), Slice(s, one, m)) = FirstCells(s, k)
  BY <1>0, FirstMore
<1> HIDE DEF k
<1>3. Slice(s, k, one) = <<s[l]>>
  BY <1>0, SliceCell
<1>4. Join(FirstCells(s, k), Slice(s, k, one)) = FirstCells(s, l)
  BY <1>0, FirstMore
<1>5. Join(FirstCells(s, l), Slice(s, l, n)) = FirstCells(s, Len(s))
  <2>1. Join(FirstCells(s, l), Slice(s, l, n)) = FirstCells(s, l + n)
    BY <1>0, FirstMore
  <2> QED
    BY <1>0, <2>1
<1>6. FirstCells(s, Len(s)) = s
  BY FirstAll
<1>7. Four(<<s[1]>>, Slice(s, one, m), <<s[l]>>, Slice(s, l, n)) = s
  BY <1>1, <1>2, <1>3, <1>4, <1>5, <1>6 DEF Four
<1> QED
  BY <1>7 DEF one, l

LEMMA HeadersAre ==
  /\ Header("inputs") = 11 /\ Header("ipa") = 12 /\ Header("circuit") = 13 /\ Header("mask") = 14
  BY DEF Header

LEMMA HeaderCells ==
  ASSUME NEW k \in {"inputs", "ipa", "circuit", "mask"}
  PROVE  Header(k) \in Nat /\ <<Header(k)>> \in Seq(Nat) /\ Len(<<Header(k)>>) = 1
<1> DEFINE h == Header(k)
<1>1. h \in Nat
  BY HeadersAre
<1> HIDE DEF h
<1>2. <<h>> \in Seq(Nat) /\ Len(<<h>>) = 1
  BY <1>1
<1> QED
  BY <1>1, <1>2 DEF h

LEMMA CircuitParts ==
  ASSUME NEW p \in EncodedCircuitProofs
  PROVE  /\ p.items \in Seq(Nat) /\ p.ipa \in IpaProofs
         /\ p = [items |-> p.items, ipa |-> p.ipa]
         /\ AreItems(p.items, CircuitItems) /\ Len(p.items) = 12
<1>1. /\ p.items \in Seq(Nat) /\ p.ipa \in IpaProofs
      /\ p = [items |-> p.items, ipa |-> p.ipa] /\ AreItems(p.items, CircuitItems)
  BY DEF EncodedCircuitProofs
<1> DEFINE n == 12
<1>2. n \in Nat /\ n = 12
  OBVIOUS
<1> HIDE DEF n
<1>3. Len(CircuitItems) = n
  BY <1>2, CircuitItemsTyped
<1>4. Len(p.items) = 12
  BY <1>1, <1>2, <1>3 DEF AreItems
<1> QED
  BY <1>1, <1>4

LEMMA CircuitWritten ==
  ASSUME NEW p \in EncodedCircuitProofs
  PROVE  /\ CircuitToBytes(p) \in Seq(Nat)
         /\ Len(CircuitToBytes(p)) = 14 + Len(IpaToBytes(p.ipa))
         /\ CircuitToBytes(p)[1] = Header("circuit")
         /\ Slice(CircuitToBytes(p), 1, 12) = p.items
         /\ CircuitToBytes(p)[14] = Len(IpaToBytes(p.ipa))
         /\ Slice(CircuitToBytes(p), 14, Len(IpaToBytes(p.ipa))) = IpaToBytes(p.ipa)
<1> DEFINE h == Header("circuit")
           x == IpaToBytes(p.ipa)
           y == p.items
           n == Len(x)
           b == Four(<<h>>, y, <<n>>, x)
<1>1. y \in Seq(Nat) /\ Len(y) = 12 /\ p.ipa \in IpaProofs
  BY CircuitParts
<1>2. x \in Seq(Nat)
  BY <1>1, IpaWritten
<1>3. CircuitToBytes(p) = b
  BY DEF CircuitToBytes, Four, Join
<1> HIDE DEF x, y
<1>4. h \in Nat /\ <<h>> \in Seq(Nat) /\ Len(<<h>>) = 1
  BY HeaderCells
<1>5. n \in Nat /\ Len(x) = n
  BY <1>2, CellsOf
<1> HIDE DEF h, n
<1>6. <<n>> \in Seq(Nat) /\ Len(<<n>>) = 1
  BY <1>5
<1> DEFINE a == <<h>>
           c == <<n>>
<1>7. a \in Seq(Nat) /\ c \in Seq(Nat) /\ Len(a) = 1 /\ Len(c) = 1 /\ b = Four(a, y, c, x)
  BY <1>4, <1>6
<1> HIDE DEF a, c, b
<1>8. /\ b \in Seq(Nat) /\ Len(b) = Len(a) + Len(y) + Len(c) + Len(x)
      /\ LiesAt(a, b, 0) /\ LiesAt(y, b, Len(a))
      /\ LiesAt(c, b, Len(a) + Len(y)) /\ LiesAt(x, b, Len(a) + Len(y) + Len(c))
  <2> DEFINE f == Four(a, y, c, x)
  <2>0. a \in Seq(Nat) /\ y \in Seq(Nat) /\ c \in Seq(Nat) /\ x \in Seq(Nat)
    BY <1>1, <1>2, <1>7
  <2>1. f \in Seq(Nat)
    BY <2>0, FourParts
  <2>2. Len(f) = Len(a) + Len(y) + Len(c) + Len(x)
    BY <2>0, FourParts
  <2>3. LiesAt(a, f, 0) /\ LiesAt(y, f, Len(a))
    BY <2>0, FourParts
  <2>4. LiesAt(c, f, Len(a) + Len(y)) /\ LiesAt(x, f, Len(a) + Len(y) + Len(c))
    BY <2>0, FourParts
  <2>5. b = f
    BY <1>7
  <2> HIDE DEF f
  <2> QED
    BY <2>1, <2>2, <2>3, <2>4, <2>5
<1>9. /\ Len(b) = 14 + n /\ LiesAt(y, b, 1) /\ LiesAt(c, b, 13) /\ LiesAt(x, b, 14)
  <2>1. Len(a) + Len(y) = 13 /\ Len(a) + Len(y) + Len(c) = 14
    BY <1>1, <1>7
  <2> QED
    BY <1>5, <1>7, <1>8, <2>1
<1>10. b[1] = h
  <2> DEFINE o == 0
  <2>1. o \in Nat /\ LiesAt(<<h>>, b, o) /\ o + 1 = 1
    BY <1>8 DEF a
  <2> HIDE DEF o
  <2>2. b[o + 1] = h
    BY <1>4, <1>8, <2>1, LiesCell
  <2> QED
    BY <2>1, <2>2
<1>11. b[14] = n
  <2> DEFINE o == 13
  <2>1. o \in Nat /\ LiesAt(<<n>>, b, o) /\ o + 1 = 14
    BY <1>9 DEF c
  <2> HIDE DEF o
  <2>2. b[o + 1] = n
    BY <1>5, <1>8, <2>1, LiesCell
  <2> QED
    BY <2>1, <2>2
<1>12. Slice(b, 1, 12) = y
  BY <1>1, <1>9 DEF LiesAt
<1>13. Slice(b, 14, n) = x
  BY <1>5, <1>9 DEF LiesAt
<1> QED
  BY <1>3, <1>8, <1>9, <1>10, <1>11, <1>12, <1>13 DEF h, x, y, n

\* It reads what was written,
LEMMA CircuitRoundTrip ==
  ASSUME NEW p \in EncodedCircuitProofs, Len(CircuitToBytes(p)) <= CellMax
  PROVE  CircuitFromBytes(CircuitToBytes(p)) = {p}
<1> DEFINE b == CircuitToBytes(p)
           x == IpaToBytes(p.ipa)
           n == Len(x)
<1>1. /\ b \in Seq(Nat) /\ Len(b) = 14 + n /\ b[1] = Header("circuit")
      /\ Slice(b, 1, 12) = p.items /\ b[14] = n /\ Slice(b, 14, n) = x
  BY CircuitWritten
<1>2. /\ p.ipa \in IpaProofs /\ p = [items |-> p.items, ipa |-> p.ipa]
      /\ AreItems(p.items, CircuitItems)
  BY CircuitParts
<1>3. Len(b) <= CellMax /\ CellMax \in Nat
  BY CellsCounted
<1>4. n \in Nat
  BY <1>2, IpaWritten, CellsOf
<1> HIDE DEF b, n
<1>5. n <= CellMax
  BY <1>1, <1>3, <1>4
<1>6. IpaFromBytes(x) = {p.ipa}
  BY <1>2, <1>5, IpaRoundTrip DEF n
<1> HIDE DEF x
<1>7. CircuitFits(b)
  BY <1>1, <1>2, <1>3, <1>4 DEF CircuitFits
<1>8. ASSUME NEW v
      PROVE  v \in CircuitFromBytes(b) <=> v = p
  <2>1. v \in CircuitFromBytes(b) <=>
           /\ CircuitFits(b)
           /\ \E ipa \in IpaFromBytes(Slice(b, 14, b[14])) :
                v = [items |-> Slice(b, 1, 12), ipa |-> ipa]
    BY <1>1, CircuitRead
  <2>2. v \in CircuitFromBytes(b) <=> \E ipa \in {p.ipa} : v = [items |-> p.items, ipa |-> ipa]
    BY <1>1, <1>6, <1>7, <2>1
  <2>3. v \in CircuitFromBytes(b) <=> v = [items |-> p.items, ipa |-> p.ipa]
    BY <2>2, Zenon
  <2> QED
    BY <1>2, <2>3
<1>9. CircuitFromBytes(b) = {p}
  BY <1>8
<1> QED
  BY <1>9 DEF b

\* and nothing but what is written.
LEMMA CircuitCanonical ==
  ASSUME NEW buffer \in Seq(Nat), NEW v \in CircuitFromBytes(buffer)
  PROVE  v \in EncodedCircuitProofs /\ CircuitToBytes(v) = buffer
<1> DEFINE n == buffer[14]
           x == Slice(buffer, 14, n)
           y == Slice(buffer, 1, 12)
<1>1. CircuitFits(buffer) /\ \E ipa \in IpaFromBytes(x) : v = [items |-> y, ipa |-> ipa]
  BY CircuitRead
<1>2. PICK ipa \in IpaFromBytes(x) : v = [items |-> y, ipa |-> ipa]
  BY <1>1
<1>3. /\ Len(buffer) >= 14 /\ buffer[1] = Header("circuit") /\ Len(buffer) = 14 + n
      /\ AreItems(y, CircuitItems)
  BY <1>1 DEF CircuitFits
<1>4. n \in Nat
  BY <1>3
<1>5. y \in Seq(Nat)
  <2> DEFINE one == 1
             twelve == 12
  <2>1. one \in Nat /\ twelve \in Nat /\ one + twelve <= Len(buffer)
    BY <1>3
  <2>2. y = Slice(buffer, one, twelve)
    OBVIOUS
  <2> HIDE DEF one, twelve, y
  <2> QED
    BY <2>1, <2>2, Sliced
<1>6. x \in Seq(Nat) /\ Len(x) = n
  <2> DEFINE o == 14
  <2>1. o \in Nat /\ o + n <= Len(buffer) /\ x = Slice(buffer, o, n)
    BY <1>3, <1>4
  <2> HIDE DEF o, n, x
  <2> QED
    BY <1>4, <2>1, Sliced
<1>7. ipa \in IpaProofs /\ IpaToBytes(ipa) = x
  <2> HIDE DEF x
  <2> QED
    BY <1>2, <1>6, IpaCanonical
<1>8. v.items = y /\ v.ipa = ipa
  <2> HIDE DEF x, y
  <2> QED
    BY <1>2
<1>9. CircuitToBytes(v) = Four(<<Header("circuit")>>, y, <<n>>, x)
  BY <1>6, <1>7, <1>8 DEF CircuitToBytes, Four, Join
<1>10. Four(<<buffer[1]>>, y, <<n>>, x) = buffer
  <2> DEFINE m == 12
             k == m + 2
  <2>1. m \in Nat /\ Len(buffer) = m + 2 + n /\ k = 14
    BY <1>3, <1>4
  <2> HIDE DEF m, n
  <2>2. Four(<<buffer[1]>>, Slice(buffer, 1, m), <<buffer[k]>>, Slice(buffer, k, n)) = buffer
    BY <1>4, <2>1, FourSlices
  <2> HIDE DEF k
  <2> QED
    BY <2>1, <2>2 DEF m, n
<1>11. v \in EncodedCircuitProofs
  <2> HIDE DEF x, y
  <2>1. v \in [items : Seq(Nat), ipa : IpaProofs]
    BY <1>2, <1>5, <1>7
  <2> QED
    BY <1>3, <1>8, <2>1 DEF EncodedCircuitProofs
<1> QED
  BY <1>3, <1>9, <1>10, <1>11

----------------------------------------------------------------------------
(* The proof of a mask *)

\* A part behind its length.
LEMMA FramedWritten ==
  ASSUME NEW x \in Seq(Nat)
  PROVE  /\ WriteLenPrefixed(x) \in Seq(Nat) /\ Len(WriteLenPrefixed(x)) = 1 + Len(x)
         /\ WriteLenPrefixed(x)[1] = Len(x)
         /\ \A k \in 1 .. Len(x) : WriteLenPrefixed(x)[1 + k] = x[k]
<1> DEFINE n == Len(x)
           a == <<n>>
           w == Join(a, x)
<1>1. n \in Nat /\ Len(x) = n
  BY CellsOf
<1> HIDE DEF n
<1>2. a \in Seq(Nat) /\ Len(a) = 1 /\ a[1] = n
  BY <1>1
<1>3. WriteLenPrefixed(x) = w
  BY DEF WriteLenPrefixed, Join, n
<1> HIDE DEF a
<1>4. /\ w \in Seq(Nat) /\ Len(w) = Len(a) + Len(x)
      /\ \A k \in 1 .. Len(a) : w[k] = a[k]
      /\ \A k \in 1 .. Len(x) : w[Len(a) + k] = x[k]
  BY <1>2, Joined
<1> HIDE DEF w
<1> QED
  BY <1>1, <1>2, <1>3, <1>4

LEMMA FramedLies ==
  ASSUME NEW x \in Seq(Nat), NEW s \in Seq(Nat), NEW offset \in Nat, Len(s) <= CellMax,
         LiesAt(WriteLenPrefixed(x), s, offset)
  PROVE  /\ HasCell(s, offset) /\ s[offset + 1] = Len(x)
         /\ CellsLeft(s, offset + 1, Len(x)) /\ Slice(s, offset + 1, Len(x)) = x
<1> DEFINE w == WriteLenPrefixed(x)
           n == Len(x)
           l == 1 + n
           one == offset + 1
           y == Slice(s, one, n)
<1>0. n \in Nat /\ Len(s) \in Nat /\ CellMax \in Nat /\ l \in Nat /\ one \in Nat /\ Len(x) = n
  BY CellsOf, CellsCounted
<1>1. /\ w \in Seq(Nat) /\ Len(w) = l /\ w[1] = n
      /\ \A k \in 1 .. n : w[1 + k] = x[k]
  BY FramedWritten
<1>2. offset + Len(w) <= Len(s) /\ Slice(s, offset, Len(w)) = w
  BY DEF LiesAt
<1> HIDE DEF w, n
<1>3. offset + l <= Len(s) /\ Slice(s, offset, l) = w
  BY <1>1, <1>2
<1>4. \A k \in 1 .. l : w[k] = s[offset + k]
  <2> HIDE DEF l
  <2>1. \A k \in 1 .. l : Slice(s, offset, l)[k] = s[offset + k]
    BY <1>0, <1>3, Sliced
  <2> QED
    BY <1>3, <2>1
<1>5. s[one] = n
  <2>1. 1 \in 1 .. l
    BY <1>0
  <2> QED
    BY <1>1, <1>4, <2>1
<1>6. one + n <= Len(s) /\ one <= Len(s)
  BY <1>0, <1>3
<1>7. HasCell(s, offset) /\ CellsLeft(s, one, n)
  BY <1>0, <1>6 DEF HasCell, CellsLeft
<1>8. \A k \in 1 .. n : x[k] = s[one + k]
  <2> TAKE k \in 1 .. n
  <2>1. 1 + k \in 1 .. l /\ offset + (1 + k) = one + k
    BY <1>0
  <2>2. w[1 + k] = x[k]
    BY <1>1
  <2>3. w[1 + k] = s[offset + (1 + k)]
    BY <1>4, <2>1
  <2> QED
    BY <2>1, <2>2, <2>3
<1> HIDE DEF one
<1>9. y \in Seq(Nat) /\ Len(y) = n /\ \A k \in 1 .. n : y[k] = s[one + k]
  BY <1>0, <1>6, Sliced
<1> HIDE DEF y
<1>10. y = x
  BY <1>0, <1>8, <1>9, SameCells
<1> QED
  BY <1>5, <1>7, <1>10 DEF n, one, y

LEMMA FramedSlice ==
  ASSUME NEW s \in Seq(Nat), NEW offset \in Nat, NEW n \in Nat,
         offset + 1 + n <= Len(s), s[offset + 1] = n
  PROVE  WriteLenPrefixed(Slice(s, offset + 1, n)) = Slice(s, offset, 1 + n)
<1> DEFINE one == 1
<1>0. one \in Nat /\ one = 1 /\ Len(s) \in Nat /\ offset + 1 <= Len(s) /\ offset + 1 \in Nat
      /\ offset + one + n <= Len(s)
  BY CellsOf
<1>1. Slice(s, offset, 1) = <<n>>
  BY <1>0, SliceCell
<1>2. Len(Slice(s, offset + 1, n)) = n
  BY <1>0, Sliced
<1> HIDE DEF one
<1>3. Slice(s, offset, one) \o Slice(s, offset + one, n) = Slice(s, offset, one + n)
  <2>1. one \in Nat /\ offset + one + n <= Len(s)
    BY <1>0
  <2> QED
    BY <2>1, SlicesJoin
<1>4. Slice(s, offset, 1) \o Slice(s, offset + 1, n) = Slice(s, offset, 1 + n)
  BY <1>0, <1>3
<1>5. <<n>> \o Slice(s, offset + 1, n) = Slice(s, offset, 1 + n)
  BY <1>1, <1>4
<1> QED
  BY <1>2, <1>5 DEF WriteLenPrefixed

\* A circuit proof behind its length, and what it was read from.
FramedCircuit(buffer, offset, e) ==
  /\ HasCell(buffer, offset) /\ CellsLeft(buffer, offset + 1, buffer[offset + 1])
  /\ \E proof \in CircuitFromBytes(Slice(buffer, offset + 1, buffer[offset + 1])) :
       e = [at |-> offset + 1 + buffer[offset + 1], value |-> proof]

LEMMA FramedRead ==
  ASSUME NEW buffer \in Seq(Nat), NEW offset \in Nat, NEW e
  PROVE  e \in ReadCircuitProof(buffer, offset) <=> FramedCircuit(buffer, offset, e)
<1> DEFINE o == offset + 1
           n == buffer[o]
           len == [at |-> o, value |-> n]
           part == [at |-> o + n, value |-> Slice(buffer, o, n)]
           Proofs(s) == {[at |-> s.at, value |-> proof] : proof \in CircuitFromBytes(s.value)}
           Rest(l) == UNION {Proofs(s) : s \in ReadSlice(buffer, l.at, l.value)}
<1>0. CellMax \in Nat /\ Len(buffer) \in Nat /\ o \in Nat
  BY CellsCounted, CellsOf
<1>1. ReadCircuitProof(buffer, offset) = UNION {Rest(l) : l \in ReadLen(buffer, offset)}
  BY DEF ReadCircuitProof
<1>2. ReadLen(buffer, offset) = IF HasCell(buffer, offset) THEN {len} ELSE {}
  BY LenRead
<1>3. len.at = o /\ len.value = n
  OBVIOUS
<1>4. HasCell(buffer, offset) =>
        ReadSlice(buffer, o, n) = IF CellsLeft(buffer, o, n) THEN {part} ELSE {}
  <2>1. SUFFICES ASSUME HasCell(buffer, offset)
        PROVE  ReadSlice(buffer, o, n) = IF CellsLeft(buffer, o, n) THEN {part} ELSE {}
    OBVIOUS
  <2>2. n \in Nat
    BY <1>0, <2>1 DEF HasCell
  <2> HIDE DEF n
  <2>3. (o + n > CellMax \/ o + n > Len(buffer)) <=> ~CellsLeft(buffer, o, n)
    BY <1>0, <2>2 DEF CellsLeft
  <2> HIDE DEF o
  <2> QED
    BY <2>3, Zenon DEF ReadSlice, Slice
<1>5. part.at = o + n /\ part.value = Slice(buffer, o, n)
  OBVIOUS
<1>6. FramedCircuit(buffer, offset, e) <=>
        /\ HasCell(buffer, offset) /\ CellsLeft(buffer, o, n)
        /\ \E proof \in CircuitFromBytes(Slice(buffer, o, n)) : e = [at |-> o + n, value |-> proof]
  BY DEF FramedCircuit
<1>7. \A s : e \in Proofs(s) <=>
        \E proof \in CircuitFromBytes(s.value) : e = [at |-> s.at, value |-> proof]
  BY Zenon
<1> HIDE DEF o, n, len, part
<1>8. \A l : e \in Rest(l) <=> \E s \in ReadSlice(buffer, l.at, l.value) : e \in Proofs(s)
  <2> HIDE DEF Proofs
  <2> QED
    BY Zenon
<1> HIDE DEF Proofs, Rest
<1>9. e \in ReadCircuitProof(buffer, offset) <=> \E l \in ReadLen(buffer, offset) : e \in Rest(l)
  BY <1>1, Zenon
<1>10. CASE ~HasCell(buffer, offset)
  BY <1>2, <1>6, <1>9, <1>10, Zenon
<1>11. CASE HasCell(buffer, offset)
  <2>1. e \in ReadCircuitProof(buffer, offset) <=> e \in Rest(len)
    BY <1>2, <1>9, <1>11, Zenon
  <2>2. e \in Rest(len) <=> \E s \in ReadSlice(buffer, o, n) : e \in Proofs(s)
    BY <1>3, <1>8, Zenon
  <2>3. CASE ~CellsLeft(buffer, o, n)
    BY <1>4, <1>6, <1>11, <2>1, <2>2, <2>3, Zenon
  <2>4. CASE CellsLeft(buffer, o, n)
    <3>1. e \in Rest(len) <=> e \in Proofs(part)
      BY <1>4, <1>11, <2>2, <2>4, Zenon
    <3>2. e \in Proofs(part) <=>
            \E proof \in CircuitFromBytes(Slice(buffer, o, n)) : e = [at |-> o + n, value |-> proof]
      BY <1>5, <1>7, Zenon
    <3> QED
      BY <1>6, <1>11, <2>1, <2>4, <3>1, <3>2, Zenon
  <2> QED
    BY <2>3, <2>4
<1> QED
  BY <1>10, <1>11

\* What was written there is read there.
LEMMA FramedBack ==
  ASSUME NEW p \in EncodedCircuitProofs, NEW buffer \in Seq(Nat), NEW offset \in Nat, NEW e,
         Len(buffer) <= CellMax, LiesAt(WriteLenPrefixed(CircuitToBytes(p)), buffer, offset)
  PROVE  e \in ReadCircuitProof(buffer, offset)
           <=> e = [at |-> offset + 1 + Len(CircuitToBytes(p)), value |-> p]
<1> DEFINE x == CircuitToBytes(p)
           n == Len(x)
<1>1. x \in Seq(Nat)
  BY CircuitWritten
<1>2. /\ HasCell(buffer, offset) /\ buffer[offset + 1] = n
      /\ CellsLeft(buffer, offset + 1, n) /\ Slice(buffer, offset + 1, n) = x
  BY <1>1, FramedLies
<1>3. n <= CellMax
  <2>1. n \in Nat /\ CellMax \in Nat
    BY <1>1, CellsOf, CellsCounted
  <2> HIDE DEF n
  <2> QED
    BY <1>2, <2>1 DEF CellsLeft
<1>4. CircuitFromBytes(x) = {p}
  BY <1>3, CircuitRoundTrip
<1>5. e \in ReadCircuitProof(buffer, offset) <=> FramedCircuit(buffer, offset, e)
  BY FramedRead
<1> HIDE DEF x, n
<1>6. FramedCircuit(buffer, offset, e) <=> \E proof \in {p} : e = [at |-> offset + 1 + n, value |-> proof]
  BY <1>2, <1>4 DEF FramedCircuit
<1>7. FramedCircuit(buffer, offset, e) <=> e = [at |-> offset + 1 + n, value |-> p]
  BY <1>6, Zenon
<1> QED
  BY <1>5, <1>7 DEF n, x

LEMMA CellsIn ==
  ASSUME NEW T, NEW s \in Seq(Nat), \A k \in 1 .. Len(s) : s[k] \in T
  PROVE  s \in Seq(T)
<1> DEFINE n == Len(s)
           f == [k \in 1 .. n |-> s[k]]
<1>1. s = f /\ n \in Nat
  BY CellsOf
<1>2. \A k \in 1 .. n : s[k] \in T
  OBVIOUS
<1> HIDE DEF n
<1>3. f \in Seq(T)
  BY <1>1, <1>2
<1> QED
  BY <1>1, <1>3

PointTypes == <<"point", "point">>

LEMMA SharedPoints ==
  ASSUME NEW n \in Nat, n = 2, NEW s \in Seq(Nat)
  PROVE  /\ Len(PointTypes) = n /\ DOMAIN PointTypes = 1 .. n
         /\ AreItems(s, PointTypes) <=> s \in Seq(PointCells) /\ Len(s) = 2
<1> DEFINE p == "point"
           t == <<p, p>>
<1>1. Canonical[p] = PointCells
  BY DEF Canonical
<1>2. PointTypes = t
  BY DEF PointTypes
<1> HIDE DEF p
<1>3. Len(t) = n /\ DOMAIN t = 1 .. n /\ \A k \in 1 .. n : t[k] = p
  OBVIOUS
<1> HIDE DEF t
<1>4. AreItems(s, t) <=> Len(s) = 2 /\ \A k \in 1 .. n : s[k] \in PointCells
  BY <1>1, <1>3 DEF AreItems
<1>5. ASSUME Len(s) = 2, \A k \in 1 .. n : s[k] \in PointCells
      PROVE  s \in Seq(PointCells)
  <2>1. \A k \in 1 .. Len(s) : s[k] \in PointCells
    BY <1>5
  <2> QED
    BY <2>1, CellsIn
<1>6. ASSUME Len(s) = 2, s \in Seq(PointCells)
      PROVE  \A k \in 1 .. n : s[k] \in PointCells
  BY <1>6, CellsOf
<1> QED
  BY <1>2, <1>3, <1>4, <1>5, <1>6

\* The proof of a mask: its points, and the two circuit proofs behind their lengths.
SkeletonIn(buffer, v) ==
  /\ Len(buffer) > 4 /\ Len(buffer) <= CellMax /\ buffer[1] = Header("mask")
  /\ AreItems(Slice(buffer, 1, 2), PointTypes)
  /\ \E mask : /\ FramedCircuit(buffer, 3, mask)
               /\ \E dh : /\ FramedCircuit(buffer, mask.at, dh) /\ dh.at = Len(buffer)
                          /\ v = [shared |-> Slice(buffer, 1, 2),
                                  mask |-> mask.value, dh |-> dh.value]

\* Its reader, by the parts of the buffer.
LEMMA SkeletonRead ==
  ASSUME NEW buffer \in Seq(Nat), NEW v
  PROVE  v \in DecodeSkeletonProof(buffer) <=> SkeletonIn(buffer, v)
<1> DEFINE one == 1
           two == 2
           x == Slice(buffer, one, two)
           item == [at |-> one + two, value |-> x]
           h == Header("mask")
           Items == ReadItems(buffer, one, PointTypes)
           Whole(r, m) == {[shared |-> r.value, mask |-> m.value, dh |-> dh.value] :
                             dh \in {dh \in ReadCircuitProof(buffer, m.at) : dh.at = Len(buffer)}}
           Rest(r) == UNION {Whole(r, m) : m \in ReadCircuitProof(buffer, r.at)}
           Body == UNION {Rest(r) : r \in Items}
<1>0. CellMax \in Nat /\ Len(buffer) \in Nat
  BY CellsCounted, CellsOf
<1>1. v \in DecodeSkeletonProof(buffer) <=> Len(buffer) > 4 /\ buffer[1] = h /\ v \in Body
  <2>1. DecodeSkeletonProof(buffer) = IF Len(buffer) <= 4 \/ buffer[1] # h THEN {} ELSE Body
    BY DEF DecodeSkeletonProof, PointTypes
  <2>2. ~(Len(buffer) <= 4) <=> Len(buffer) > 4
    BY <1>0
  <2> HIDE DEF Body, h
  <2> QED
    BY <2>1, <2>2
<1>2. Items = IF CellsLeft(buffer, one, two) /\ AreItems(x, PointTypes) THEN {item} ELSE {}
  <2>1. one \in Nat /\ two \in Nat /\ two > 0 /\ two = 2
    OBVIOUS
  <2>2. Items = ReadItems(buffer, one, PointTypes)
    OBVIOUS
  <2> HIDE DEF one, two, Items
  <2>3. Len(PointTypes) = two /\ DOMAIN PointTypes = 1 .. two
    BY <2>1, SharedPoints
  <2>4. ReadItems(buffer, one, PointTypes)
        = IF CellsLeft(buffer, one, two) /\ AreItems(Slice(buffer, one, two), PointTypes)
          THEN {[at |-> one + two, value |-> Slice(buffer, one, two)]} ELSE {}
    BY <2>1, <2>3, ItemsSliced
  <2> QED
    BY <2>2, <2>4
<1>3. item.at = 3 /\ item.value = x
  OBVIOUS
<1> HIDE DEF item, Items
<1>4. \A r, m : v \in Whole(r, m) <=>
        \E dh \in ReadCircuitProof(buffer, m.at) :
          dh.at = Len(buffer) /\ v = [shared |-> r.value, mask |-> m.value, dh |-> dh.value]
  BY Zenon
<1> HIDE DEF Whole
<1>5. \A r : v \in Rest(r) <=> \E m \in ReadCircuitProof(buffer, r.at) : v \in Whole(r, m)
  BY Zenon
<1> HIDE DEF Rest
<1>6. v \in Body <=> \E r \in Items : v \in Rest(r)
  BY Zenon
<1> HIDE DEF Body, x
<1>7. v \in Body <=>
        /\ CellsLeft(buffer, one, two) /\ AreItems(x, PointTypes)
        /\ \E m \in ReadCircuitProof(buffer, 3) : v \in Whole(item, m)
  <2>1. v \in Rest(item) <=> \E m \in ReadCircuitProof(buffer, 3) : v \in Whole(item, m)
    BY <1>3, <1>5, Zenon
  <2> HIDE DEF one, two
  <2> QED
    BY <1>2, <1>6, <2>1, Zenon
<1>8. \A m : v \in Whole(item, m) <=>
        \E dh \in ReadCircuitProof(buffer, m.at) :
          dh.at = Len(buffer) /\ v = [shared |-> x, mask |-> m.value, dh |-> dh.value]
  BY <1>3, <1>4, Zenon
<1>9. \A m : m \in ReadCircuitProof(buffer, 3) <=> FramedCircuit(buffer, 3, m)
  BY FramedRead
<1>10. ASSUME NEW m, FramedCircuit(buffer, 3, m)
       PROVE  \A dh : dh \in ReadCircuitProof(buffer, m.at) <=> FramedCircuit(buffer, m.at, dh)
  <2>1. m.at = 3 + 1 + buffer[3 + 1] /\ buffer[3 + 1] \in Nat
    BY <1>0, <1>10 DEF FramedCircuit, HasCell
  <2>2. m.at \in Nat
    BY <2>1
  <2> QED
    BY <2>2, FramedRead
<1>11. ASSUME NEW m, NEW dh, FramedCircuit(buffer, 3, m), FramedCircuit(buffer, m.at, dh),
              dh.at = Len(buffer)
       PROVE  Len(buffer) <= CellMax
  <2> DEFINE o == m.at + 1
             n == buffer[o]
  <2>1. CellsLeft(buffer, o, n) /\ dh.at = o + n
    BY <1>11 DEF FramedCircuit
  <2> HIDE DEF o, n
  <2> QED
    BY <1>11, <2>1 DEF CellsLeft
<1>12. CellsLeft(buffer, one, two) <=> 3 <= CellMax /\ 3 <= Len(buffer)
  BY DEF CellsLeft
<1>13. Slice(buffer, 1, 2) = x
  BY DEF x
<1> HIDE DEF h, one, two
<1> DEFINE Found(m, dh) == /\ FramedCircuit(buffer, m.at, dh) /\ dh.at = Len(buffer)
                           /\ v = [shared |-> x, mask |-> m.value, dh |-> dh.value]
<1>14. \A m : FramedCircuit(buffer, 3, m) => (v \in Whole(item, m) <=> \E dh : Found(m, dh))
  BY <1>8, <1>10, Zenon
<1>15. (\E m \in ReadCircuitProof(buffer, 3) : v \in Whole(item, m))
         <=> \E m : FramedCircuit(buffer, 3, m) /\ \E dh : Found(m, dh)
  <2> HIDE DEF Found
  <2> QED
    BY <1>9, <1>14, Zenon
<1>16. (\E m : FramedCircuit(buffer, 3, m) /\ \E dh : Found(m, dh)) => Len(buffer) <= CellMax
  BY <1>11, Zenon
<1> DEFINE All == \E m : FramedCircuit(buffer, 3, m) /\ \E dh : Found(m, dh)
<1>17. v \in DecodeSkeletonProof(buffer) <=>
         /\ Len(buffer) > 4 /\ Len(buffer) <= CellMax /\ buffer[1] = h
         /\ AreItems(x, PointTypes) /\ All
  <2>1. v \in DecodeSkeletonProof(buffer) <=>
          /\ Len(buffer) > 4 /\ buffer[1] = h
          /\ CellsLeft(buffer, one, two) /\ AreItems(x, PointTypes) /\ All
    <3> HIDE DEF All
    <3> QED
      BY <1>1, <1>7, <1>15, Zenon DEF All
  <2>2. All => Len(buffer) <= CellMax
    BY <1>16
  <2> HIDE DEF All
  <2>3. Len(buffer) > 4 /\ Len(buffer) <= CellMax => CellsLeft(buffer, one, two)
    BY <1>0, <1>12
  <2> QED
    BY <2>1, <2>2, <2>3, Zenon
<1>18. SkeletonIn(buffer, v) <=>
         /\ Len(buffer) > 4 /\ Len(buffer) <= CellMax /\ buffer[1] = h
         /\ AreItems(x, PointTypes) /\ All
  BY <1>13, Zenon DEF SkeletonIn, h
<1> QED
  BY <1>17, <1>18, Zenon

LEMMA SkeletonParts ==
  ASSUME NEW p \in SkeletonProofs
  PROVE  /\ p.shared \in Seq(Nat) /\ Len(p.shared) = 2 /\ AreItems(p.shared, PointTypes)
         /\ p.mask \in EncodedCircuitProofs /\ p.dh \in EncodedCircuitProofs
         /\ p = [shared |-> p.shared, mask |-> p.mask, dh |-> p.dh]
<1> DEFINE s == p.shared
<1>1. /\ s \in Seq(PointCells) /\ Len(s) = 2
      /\ p.mask \in EncodedCircuitProofs /\ p.dh \in EncodedCircuitProofs
      /\ p = [shared |-> s, mask |-> p.mask, dh |-> p.dh]
  BY DEF SkeletonProofs
<1> HIDE DEF s
<1>2. s \in Seq(Nat)
  <2> DEFINE T == Nat
  <2>1. PointCells \subseteq T
    BY CellsAreNumbers
  <2> HIDE DEF T
  <2>2. s \in Seq(T)
    BY <1>1, <2>1, MoreCells
  <2> QED
    BY <2>2 DEF T
<1>3. AreItems(s, PointTypes)
  <2> DEFINE n == 2
  <2>1. n \in Nat /\ n = 2
    OBVIOUS
  <2> HIDE DEF n
  <2>2. AreItems(s, PointTypes) <=> s \in Seq(PointCells) /\ Len(s) = 2
    BY <1>2, <2>1, SharedPoints
  <2> QED
    BY <1>1, <2>2
<1> QED
  BY <1>1, <1>2, <1>3 DEF s

\* It reads what was written,
LEMMA SkeletonRoundTrip ==
  ASSUME NEW p \in SkeletonProofs, Len(SkeletonToBytes(p)) <= CellMax
  PROVE  DecodeSkeletonProof(SkeletonToBytes(p)) = {p}
<1> DEFINE h == Header("mask")
           a == <<h>>
           s == p.shared
           x == CircuitToBytes(p.mask)
           y == CircuitToBytes(p.dh)
           w == WriteLenPrefixed(x)
           z == WriteLenPrefixed(y)
           b == Four(a, s, w, z)
           m == Len(x)
           n == Len(y)
           l == 3 + 1 + m
           first == [at |-> l, value |-> p.mask]
           second == [at |-> l + 1 + n, value |-> p.dh]
<1>1. /\ s \in Seq(Nat) /\ Len(s) = 2 /\ AreItems(s, PointTypes)
      /\ p.mask \in EncodedCircuitProofs /\ p.dh \in EncodedCircuitProofs
      /\ p = [shared |-> s, mask |-> p.mask, dh |-> p.dh]
  BY SkeletonParts
<1>2. x \in Seq(Nat) /\ y \in Seq(Nat) /\ m >= 14 /\ n >= 14 /\ m \in Nat /\ n \in Nat
  <2>1. /\ x \in Seq(Nat) /\ Len(x) = 14 + Len(IpaToBytes(p.mask.ipa))
        /\ y \in Seq(Nat) /\ Len(y) = 14 + Len(IpaToBytes(p.dh.ipa))
    BY <1>1, CircuitWritten
  <2>2. Len(IpaToBytes(p.mask.ipa)) \in Nat /\ Len(IpaToBytes(p.dh.ipa)) \in Nat
    <3>1. p.mask.ipa \in IpaProofs /\ p.dh.ipa \in IpaProofs
      BY <1>1, CircuitParts
    <3>2. IpaToBytes(p.mask.ipa) \in Seq(Nat) /\ IpaToBytes(p.dh.ipa) \in Seq(Nat)
      BY <3>1, IpaWritten
    <3> QED
      BY <3>2, CellsOf
  <2> HIDE DEF x, y
  <2> QED
    BY <2>1, <2>2
<1>3. w \in Seq(Nat) /\ Len(w) = 1 + m /\ z \in Seq(Nat) /\ Len(z) = 1 + n
  BY <1>2, FramedWritten
<1>4. SkeletonToBytes(p) = b
  BY DEF SkeletonToBytes, Four, Join
<1>5. h \in Nat /\ a \in Seq(Nat) /\ Len(a) = 1
  BY HeaderCells
<1>6. first.at = l /\ first.value = p.mask /\ second.at = l + 1 + n /\ second.value = p.dh
  OBVIOUS
<1> HIDE DEF x, y, s, a, h
<1>7. first = [at |-> 3 + 1 + Len(x), value |-> p.mask]
      /\ second = [at |-> l + 1 + Len(y), value |-> p.dh]
  OBVIOUS
<1> HIDE DEF first, second
<1>8. /\ b \in Seq(Nat) /\ Len(b) = Len(a) + Len(s) + Len(w) + Len(z)
      /\ LiesAt(a, b, 0) /\ LiesAt(s, b, Len(a))
      /\ LiesAt(w, b, Len(a) + Len(s)) /\ LiesAt(z, b, Len(a) + Len(s) + Len(w))
  <2> HIDE DEF w, z
  <2>0. a \in Seq(Nat) /\ s \in Seq(Nat) /\ w \in Seq(Nat) /\ z \in Seq(Nat)
    BY <1>1, <1>3, <1>5
  <2>1. b \in Seq(Nat)
    BY <2>0, FourParts
  <2>2. Len(b) = Len(a) + Len(s) + Len(w) + Len(z)
    BY <2>0, FourParts
  <2>3. LiesAt(a, b, 0) /\ LiesAt(s, b, Len(a))
    BY <2>0, FourParts
  <2>4. LiesAt(w, b, Len(a) + Len(s)) /\ LiesAt(z, b, Len(a) + Len(s) + Len(w))
    BY <2>0, FourParts
  <2> HIDE DEF b
  <2> QED
    BY <2>1, <2>2, <2>3, <2>4
<1>20. Len(b) <= CellMax
  BY <1>4
<1> HIDE DEF b, m, n, w, z
<1>9. Len(b) = l + 1 + n /\ LiesAt(s, b, 1) /\ LiesAt(w, b, 3) /\ LiesAt(z, b, l) /\ l \in Nat
      /\ Len(b) > 4
  <2>2. Len(a) = 1 /\ Len(s) = 2 /\ Len(w) = 1 + m /\ Len(z) = 1 + n
        /\ m \in Nat /\ n \in Nat
    BY <1>1, <1>2, <1>3, <1>5
  <2>1. Len(a) + Len(s) = 3 /\ Len(a) + Len(s) + Len(w) = l
        /\ Len(a) + Len(s) + Len(w) + Len(z) = l + 1 + n /\ l + 1 + n > 4 /\ l \in Nat
    BY <2>2
  <2> HIDE DEF l
  <2> QED
    BY <1>5, <1>8, <2>1
<1>10. b[1] = h
  <2> DEFINE o == 0
  <2>1. o \in Nat /\ LiesAt(<<h>>, b, o) /\ o + 1 = 1
    BY <1>8 DEF a
  <2> HIDE DEF o
  <2>2. b[o + 1] = h
    BY <1>5, <1>8, <2>1, LiesCell
  <2> QED
    BY <2>1, <2>2
<1>11. Slice(b, 1, 2) = s
  BY <1>1, <1>9 DEF LiesAt
<1>12. \A e : FramedCircuit(b, 3, e) <=> e = first
  <2> DEFINE o == 3
  <2>1. o \in Nat /\ LiesAt(WriteLenPrefixed(CircuitToBytes(p.mask)), b, o)
    BY <1>9 DEF w, x
  <2>2. first = [at |-> o + 1 + Len(CircuitToBytes(p.mask)), value |-> p.mask]
    BY <1>7 DEF x
  <2> HIDE DEF o
  <2>3. \A e : e \in ReadCircuitProof(b, o) <=> e = first
    BY <1>1, <1>8, <1>20, <2>1, <2>2, FramedBack
  <2>4. \A e : FramedCircuit(b, o, e) <=> e = first
    BY <1>8, <2>1, <2>3, FramedRead
  <2> QED
    BY <2>4 DEF o
<1>13. \A e : FramedCircuit(b, l, e) <=> e = second
  <2>1. l \in Nat /\ LiesAt(WriteLenPrefixed(CircuitToBytes(p.dh)), b, l)
    BY <1>9 DEF z, y
  <2>2. second = [at |-> l + 1 + Len(CircuitToBytes(p.dh)), value |-> p.dh]
    BY <1>7 DEF y
  <2> HIDE DEF l
  <2>3. \A e : e \in ReadCircuitProof(b, l) <=> e = second
    BY <1>1, <1>8, <1>20, <2>1, <2>2, FramedBack
  <2> QED
    BY <1>8, <2>1, <2>3, FramedRead
<1> HIDE DEF l
<1>14. ASSUME NEW v
       PROVE  v \in DecodeSkeletonProof(b) <=> v = p
  <2>1. v \in DecodeSkeletonProof(b) <=> SkeletonIn(b, v)
    BY <1>8, SkeletonRead
  <2> DEFINE Whole(mask, dh) == v = [shared |-> s, mask |-> mask.value, dh |-> dh.value]
             Found(mask, dh) == /\ FramedCircuit(b, mask.at, dh) /\ dh.at = Len(b)
                                /\ Whole(mask, dh)
  <2>2. SkeletonIn(b, v) <=> \E mask : FramedCircuit(b, 3, mask) /\ \E dh : Found(mask, dh)
    BY <1>1, <1>9, <1>10, <1>11, <1>20, Zenon DEF SkeletonIn, h
  <2> HIDE DEF Whole
  <2>5. (\E mask : FramedCircuit(b, 3, mask) /\ \E dh : Found(mask, dh))
          <=> \E dh : Found(first, dh)
    <3> HIDE DEF Found
    <3> QED
      BY <1>12, Zenon
  <2>6. \A dh : Found(first, dh) <=> dh = second /\ second.at = Len(b) /\ Whole(first, second)
    BY <1>6, <1>13, Zenon
  <2>3. (\E dh : Found(first, dh)) <=> second.at = Len(b) /\ Whole(first, second)
    <3> HIDE DEF Found
    <3> QED
      BY <2>6, Zenon
  <2>4. v \in DecodeSkeletonProof(b) <=>
          second.at = Len(b) /\ v = [shared |-> s, mask |-> p.mask, dh |-> second.value]
    BY <1>6, <2>1, <2>2, <2>3, <2>5, Zenon DEF Whole
  <2> QED
    BY <1>1, <1>6, <1>9, <2>4, Zenon
<1>15. DecodeSkeletonProof(b) = {p}
  BY <1>14, Zenon
<1> QED
  BY <1>4, <1>15

\* What was read behind a length is written as it was.
LEMMA FramedCanonical ==
  ASSUME NEW buffer \in Seq(Nat), NEW offset \in Nat, NEW e, FramedCircuit(buffer, offset, e)
  PROVE  \E n \in Nat :
           /\ e.at = offset + (1 + n) /\ e.at <= Len(buffer) /\ e.value \in EncodedCircuitProofs
           /\ WriteLenPrefixed(CircuitToBytes(e.value)) = Slice(buffer, offset, 1 + n)
<1> DEFINE o == offset + 1
           n == buffer[o]
           x == Slice(buffer, o, n)
<1>0. CellMax \in Nat /\ Len(buffer) \in Nat /\ o \in Nat
  BY CellsCounted, CellsOf
<1>1. HasCell(buffer, offset) /\ CellsLeft(buffer, o, n)
  BY DEF FramedCircuit
<1>2. PICK proof \in CircuitFromBytes(x) : e = [at |-> o + n, value |-> proof]
  BY DEF FramedCircuit
<1>3. n \in Nat
  BY <1>0, <1>1 DEF HasCell
<1> HIDE DEF n, x
<1>4. o + n <= Len(buffer)
  <2> HIDE DEF o
  <2> QED
    BY <1>1 DEF CellsLeft
<1>5. x \in Seq(Nat)
  <2> HIDE DEF o
  <2> QED
    BY <1>0, <1>3, <1>4, Sliced DEF x
<1>6. proof \in EncodedCircuitProofs /\ CircuitToBytes(proof) = x
  BY <1>2, <1>5, CircuitCanonical
<1>7. WriteLenPrefixed(x) = Slice(buffer, offset, 1 + n)
  <2>1. offset + 1 + n <= Len(buffer) /\ buffer[offset + 1] = n
    BY <1>4 DEF n
  <2>2. WriteLenPrefixed(Slice(buffer, offset + 1, n)) = Slice(buffer, offset, 1 + n)
    BY <1>3, <2>1, FramedSlice
  <2> QED
    BY <2>2 DEF x
<1>8. e.at = o + n /\ e.value = proof /\ o + n = offset + (1 + n)
  BY <1>2, <1>3
<1> HIDE DEF o
<1>9. /\ e.at = offset + (1 + n) /\ e.at <= Len(buffer) /\ e.value \in EncodedCircuitProofs
      /\ WriteLenPrefixed(CircuitToBytes(e.value)) = Slice(buffer, offset, 1 + n)
  BY <1>4, <1>6, <1>7, <1>8
<1> QED
  BY <1>3, <1>9

\* and nothing but what is written.
LEMMA SkeletonCanonical ==
  ASSUME NEW buffer \in Seq(Nat), NEW v \in DecodeSkeletonProof(buffer)
  PROVE  v \in SkeletonProofs /\ SkeletonToBytes(v) = buffer
<1> DEFINE s == Slice(buffer, 1, 2)
           h == Header("mask")
           a == <<h>>
<1>1. SkeletonIn(buffer, v)
  BY SkeletonRead
<1>2. Len(buffer) > 4 /\ buffer[1] = h /\ AreItems(s, PointTypes)
  BY <1>1 DEF SkeletonIn
<1>3. PICK mask : /\ FramedCircuit(buffer, 3, mask)
                  /\ \E dh : /\ FramedCircuit(buffer, mask.at, dh) /\ dh.at = Len(buffer)
                             /\ v = [shared |-> s, mask |-> mask.value, dh |-> dh.value]
  BY <1>1, Zenon DEF SkeletonIn
<1>4. PICK dh : /\ FramedCircuit(buffer, mask.at, dh) /\ dh.at = Len(buffer)
                /\ v = [shared |-> s, mask |-> mask.value, dh |-> dh.value]
  BY <1>3, Zenon
<1>5. PICK m \in Nat :
        /\ mask.at = 3 + (1 + m) /\ mask.at <= Len(buffer) /\ mask.value \in EncodedCircuitProofs
        /\ WriteLenPrefixed(CircuitToBytes(mask.value)) = Slice(buffer, 3, 1 + m)
  <2> DEFINE o == 3
  <2>1. o \in Nat /\ FramedCircuit(buffer, o, mask)
    BY <1>3
  <2> HIDE DEF o
  <2>2. \E m \in Nat :
          /\ mask.at = o + (1 + m) /\ mask.at <= Len(buffer) /\ mask.value \in EncodedCircuitProofs
          /\ WriteLenPrefixed(CircuitToBytes(mask.value)) = Slice(buffer, o, 1 + m)
    BY <2>1, FramedCanonical
  <2> QED
    BY <2>2 DEF o
<1> DEFINE l == 3 + (1 + m)
<1>6. l \in Nat /\ mask.at = l
  BY <1>5
<1>7. PICK n \in Nat :
        /\ dh.at = l + (1 + n) /\ dh.value \in EncodedCircuitProofs
        /\ WriteLenPrefixed(CircuitToBytes(dh.value)) = Slice(buffer, l, 1 + n)
  <2> HIDE DEF l
  <2>1. FramedCircuit(buffer, l, dh)
    BY <1>4, <1>6
  <2> QED
    BY <1>6, <2>1, FramedCanonical
<1>8. v.shared = s /\ v.mask = mask.value /\ v.dh = dh.value
  <2> HIDE DEF s
  <2> QED
    BY <1>4
<1>9. s \in Seq(Nat) /\ s \in Seq(PointCells) /\ Len(s) = 2
  <2> DEFINE one == 1
             n2 == 2
  <2>1. one \in Nat /\ n2 \in Nat /\ one + n2 <= Len(buffer) /\ n2 = 2
    BY <1>2
  <2>2. s = Slice(buffer, one, n2)
    OBVIOUS
  <2> HIDE DEF one, n2, s
  <2>3. s \in Seq(Nat)
    BY <2>1, <2>2, Sliced
  <2>4. AreItems(s, PointTypes) <=> s \in Seq(PointCells) /\ Len(s) = 2
    BY <2>1, <2>3, SharedPoints
  <2> QED
    BY <1>2, <2>3, <2>4
<1>10. v \in SkeletonProofs
  <2> HIDE DEF s
  <2>1. v \in [shared : Seq(PointCells), mask : EncodedCircuitProofs, dh : EncodedCircuitProofs]
    BY <1>4, <1>5, <1>7, <1>9
  <2> QED
    BY <1>8, <1>9, <2>1 DEF SkeletonProofs
<1> DEFINE w == Slice(buffer, 3, 1 + m)
           z == Slice(buffer, l, 1 + n)
<1>11. SkeletonToBytes(v) = Four(a, s, w, z)
  <2>1. SkeletonToBytes(v) = Join(Join(Join(a, v.shared), WriteLenPrefixed(CircuitToBytes(v.mask))),
                                  WriteLenPrefixed(CircuitToBytes(v.dh)))
    BY DEF SkeletonToBytes, Join
  <2> HIDE DEF a, s, l
  <2> QED
    BY <1>5, <1>7, <1>8, <2>1 DEF Four
<1>12. Four(a, s, w, z) = buffer
  <2> DEFINE one == 1
             two == 2
             three == 3
             p == 1 + m
             q == 1 + n
  <2>0. /\ one \in Nat /\ two \in Nat /\ three \in Nat /\ p \in Nat /\ q \in Nat /\ l \in Nat
        /\ one + two = three /\ three + p = l /\ l + q = Len(buffer)
        /\ one + two <= Len(buffer) /\ three + p <= Len(buffer) /\ l + q <= Len(buffer)
        /\ Len(buffer) >= 1
    BY <1>2, <1>4, <1>5, <1>7
  <2>1. FirstCells(buffer, one) = a
    BY <1>2, <2>0, FirstOne
  <2>2. s = Slice(buffer, one, two) /\ w = Slice(buffer, three, p) /\ z = Slice(buffer, l, q)
    OBVIOUS
  <2> HIDE DEF a, s, w, z, l, one, two, three, p, q
  <2>3. Join(FirstCells(buffer, one), Slice(buffer, one, two)) = FirstCells(buffer, one + two)
    BY <2>0, FirstMore
  <2>4. Join(FirstCells(buffer, three), Slice(buffer, three, p)) = FirstCells(buffer, three + p)
    BY <2>0, FirstMore
  <2>5. Join(FirstCells(buffer, l), Slice(buffer, l, q)) = FirstCells(buffer, l + q)
    BY <2>0, FirstMore
  <2>6. FirstCells(buffer, Len(buffer)) = buffer
    BY FirstAll
  <2>7. Join(Join(Join(a, s), w), z) = buffer
    BY <2>0, <2>1, <2>2, <2>3, <2>4, <2>5, <2>6
  <2> QED
    BY <2>7 DEF Four
<1> QED
  BY <1>10, <1>11, <1>12

----------------------------------------------------------------------------
(* Public inputs *)

LEMMA InputTypes ==
  ASSUME NEW n \in Nat, n = 5
  PROVE  Len(InputItems) = n /\ DOMAIN InputItems = 1 .. n
<1> DEFINE i == "id"
           p == "point"
           t == <<i, i, p, p, p>>
<1>1. InputItems = t
  BY DEF InputItems
<1> HIDE DEF i, p
<1>2. Len(t) = n /\ DOMAIN t = 1 .. n
  OBVIOUS
<1> QED
  BY <1>1, <1>2

LEMMA PointsTyped ==
  ASSUME NEW n \in Nat, NEW s \in Seq(Nat), Len(s) = n
  PROVE  /\ Len(Repeat("point", n)) = n /\ DOMAIN Repeat("point", n) = 1 .. n
         /\ AreItems(s, Repeat("point", n)) <=> s \in Seq(PointCells)
<1> DEFINE p == "point"
           t == Repeat(p, n)
<1>1. Canonical[p] = PointCells
  BY DEF Canonical
<1> HIDE DEF p
<1>2. Len(t) = n /\ DOMAIN t = 1 .. n /\ \A k \in 1 .. n : t[k] = p
  BY DEF Repeat
<1> HIDE DEF t
<1>3. AreItems(s, t) <=> \A k \in 1 .. n : s[k] \in PointCells
  BY <1>1, <1>2 DEF AreItems
<1>4. ASSUME \A k \in 1 .. n : s[k] \in PointCells PROVE s \in Seq(PointCells)
  <2>1. \A k \in 1 .. Len(s) : s[k] \in PointCells
    BY <1>4
  <2> QED
    BY <2>1, CellsIn
<1>5. ASSUME s \in Seq(PointCells) PROVE \A k \in 1 .. n : s[k] \in PointCells
  BY <1>5, CellsOf
<1> QED
  BY <1>2, <1>3, <1>4, <1>5 DEF t, p

\* The inputs in a buffer with this length of the session id and these many commitments,
InputsBehind(buffer, l, c, v) ==
  /\ c <= CapacityMax /\ CellsLeft(buffer, 8 + l, c) /\ 8 + l + c = Len(buffer)
  /\ AreItems(Slice(buffer, 8 + l, c), Repeat("point", c))
  /\ v = [session |-> Slice(buffer, 2, l), items |-> Slice(buffer, 2 + l, 5),
          polynomial |-> Slice(buffer, 8 + l, c)]

\* which are read first.
InputsAhead(buffer, l, c) ==
  /\ buffer # <<>> /\ buffer[1] = Header("inputs")
  /\ HasCell(buffer, 1) /\ CellsLeft(buffer, 2, l)
  /\ CellsLeft(buffer, 2 + l, 5) /\ AreItems(Slice(buffer, 2 + l, 5), InputItems)
  /\ HasCell(buffer, 7 + l) /\ c # 0

InputsIn(buffer, v) ==
  LET l == buffer[2]
      c == buffer[8 + l]
  IN  /\ InputsAhead(buffer, l, c)
      /\ InputsBehind(buffer, l, c, v) \/ (c > CapacityMax /\ v = Panicked)

\* Their reader, by the parts of the buffer.
LEMMA InputsRead ==
  ASSUME NEW buffer \in Seq(Nat), NEW v
  PROVE  v \in PublicInputsFromBytes(buffer) <=> InputsIn(buffer, v)
<1> DEFINE one == 1
           five == 5
           l == buffer[2]
           o == 2 + l
           q == 7 + l
           at == 8 + l
           c == buffer[at]
           first == [at |-> one + 1, value |-> l]
           session == [at |-> o, value |-> Slice(buffer, 2, l)]
           item == [at |-> o + five, value |-> Slice(buffer, o, five)]
           count == [at |-> q + 1, value |-> c]
           points == [at |-> at + c, value |-> Slice(buffer, at, c)]
           Polynomial(n) ==
             {r \in ReadItems(buffer, n.at, Repeat("point", n.value)) : r.at = Len(buffer)}
           Inputs(s, i, n) ==
             IF n.value > CapacityMax THEN {Panicked}
             ELSE {[session |-> s, items |-> i, polynomial |-> p.value] : p \in Polynomial(n)}
           Counts(s, r) == UNION {Inputs(s.value, r.value, n) :
                                    n \in {n \in ReadLen(buffer, r.at) : n.value # 0}}
           Rest(s) == UNION {Counts(s, r) : r \in ReadItems(buffer, s.at, InputItems)}
           Sessions(n) == UNION {Rest(s) : s \in ReadSlice(buffer, n.at, n.value)}
           Body == UNION {Sessions(n) : n \in ReadLen(buffer, one)}
           h == Header("inputs")
<1>0. CellMax \in Nat /\ Len(buffer) \in Nat /\ CapacityMax \in Nat
  BY CellsCounted, CellsOf
<1>1. v \in PublicInputsFromBytes(buffer) <=> buffer # <<>> /\ buffer[1] = h /\ v \in Body
  <2>1. PublicInputsFromBytes(buffer) = IF buffer = <<>> \/ buffer[1] # h THEN {} ELSE Body
    BY DEF PublicInputsFromBytes
  <2> HIDE DEF Body, h
  <2> QED
    BY <2>1
<1>2. ReadLen(buffer, one) = IF HasCell(buffer, one) THEN {first} ELSE {}
  <2>1. one \in Nat /\ one + 1 = 2
    OBVIOUS
  <2> HIDE DEF one
  <2>2. ReadLen(buffer, one) = IF HasCell(buffer, one)
                               THEN {[at |-> one + 1, value |-> buffer[one + 1]]} ELSE {}
    BY <2>1, LenRead
  <2> QED
    BY <2>1, <2>2
<1>3. first.at = 2 /\ first.value = l
  OBVIOUS
<1>4. HasCell(buffer, one) => l \in Nat
  BY <1>0 DEF HasCell
<1>5. l \in Nat => o \in Nat /\ q \in Nat /\ at \in Nat /\ o + five = q /\ q + 1 = at
  <2> HIDE DEF l
  <2> QED
    OBVIOUS
<1> HIDE DEF l
<1>6. l \in Nat => ReadSlice(buffer, 2, l) = IF CellsLeft(buffer, 2, l) THEN {session} ELSE {}
  <2>1. SUFFICES ASSUME l \in Nat
        PROVE  ReadSlice(buffer, 2, l) = IF CellsLeft(buffer, 2, l) THEN {session} ELSE {}
    OBVIOUS
  <2>2. (2 + l > CellMax \/ 2 + l > Len(buffer)) <=> ~CellsLeft(buffer, 2, l)
    BY <1>0, <2>1 DEF CellsLeft
  <2> QED
    BY <2>2, Zenon DEF ReadSlice, Slice
<1>7. session.at = o /\ session.value = Slice(buffer, 2, l)
  OBVIOUS
<1>8. five \in Nat /\ five > 0 /\ five = 5
  OBVIOUS
<1> HIDE DEF first, session, five
<1>9. l \in Nat => ReadItems(buffer, o, InputItems)
                   = IF CellsLeft(buffer, o, five) /\ AreItems(Slice(buffer, o, five), InputItems)
                     THEN {item} ELSE {}
  <2>1. SUFFICES ASSUME l \in Nat
        PROVE  ReadItems(buffer, o, InputItems)
               = IF CellsLeft(buffer, o, five) /\ AreItems(Slice(buffer, o, five), InputItems)
                 THEN {item} ELSE {}
    OBVIOUS
  <2>2. o \in Nat
    BY <1>5, <2>1
  <2>3. Len(InputItems) = five /\ DOMAIN InputItems = 1 .. five
    BY <1>8, InputTypes
  <2> HIDE DEF o
  <2> QED
    BY <1>8, <2>2, <2>3, ItemsSliced
<1>10. l \in Nat => item.at = q /\ item.value = Slice(buffer, o, five)
  BY <1>5
<1>11. l \in Nat => ReadLen(buffer, q) = IF HasCell(buffer, q) THEN {count} ELSE {}
  <2>1. SUFFICES ASSUME l \in Nat
        PROVE  ReadLen(buffer, q) = IF HasCell(buffer, q) THEN {count} ELSE {}
    OBVIOUS
  <2>2. q \in Nat /\ q + 1 = at
    BY <1>5, <2>1
  <2> HIDE DEF q, at
  <2>3. ReadLen(buffer, q) = IF HasCell(buffer, q)
                             THEN {[at |-> q + 1, value |-> buffer[q + 1]]} ELSE {}
    BY <2>2, LenRead
  <2> QED
    BY <2>2, <2>3
<1>12. l \in Nat => count.at = at /\ count.value = c
  BY <1>5
<1>13. l \in Nat /\ HasCell(buffer, q) => c \in Nat
  <2>1. SUFFICES ASSUME l \in Nat, HasCell(buffer, q) PROVE c \in Nat
    OBVIOUS
  <2>2. q + 1 = at /\ q \in Nat
    BY <1>5, <2>1
  <2> HIDE DEF q, at
  <2> QED
    BY <1>0, <2>1, <2>2 DEF HasCell
<1> HIDE DEF item, count, c
<1>14. l \in Nat /\ c \in Nat /\ c # 0 =>
         ReadItems(buffer, at, Repeat("point", c))
           = IF CellsLeft(buffer, at, c) /\ AreItems(Slice(buffer, at, c), Repeat("point", c))
             THEN {points} ELSE {}
  <2>1. SUFFICES ASSUME l \in Nat, c \in Nat, c # 0
        PROVE  ReadItems(buffer, at, Repeat("point", c))
                 = IF CellsLeft(buffer, at, c) /\ AreItems(Slice(buffer, at, c), Repeat("point", c))
                   THEN {points} ELSE {}
    OBVIOUS
  <2>2. at \in Nat /\ c > 0
    BY <1>5, <2>1
  <2> DEFINE t == Repeat("point", c)
  <2>3. Len(t) = c /\ DOMAIN t = 1 .. c
    BY <2>1 DEF Repeat
  <2> HIDE DEF at, t
  <2>4. ReadItems(buffer, at, t)
          = IF CellsLeft(buffer, at, c) /\ AreItems(Slice(buffer, at, c), t)
            THEN {[at |-> at + c, value |-> Slice(buffer, at, c)]} ELSE {}
    BY <2>1, <2>2, <2>3, ItemsSliced
  <2> QED
    BY <2>4 DEF t
<1>15. points.at = at + c /\ points.value = Slice(buffer, at, c)
  OBVIOUS
<1> HIDE DEF points, o, q, at
<1>16. \A n : v \in Sessions(n) <=> \E s \in ReadSlice(buffer, n.at, n.value) : v \in Rest(s)
  <2> HIDE DEF Rest
  <2> QED
    BY Zenon
<1>17. \A s : v \in Rest(s) <=> \E r \in ReadItems(buffer, s.at, InputItems) : v \in Counts(s, r)
  <2> HIDE DEF Counts
  <2> QED
    BY Zenon
<1>18. \A s, r : v \in Counts(s, r) <=>
         \E n \in ReadLen(buffer, r.at) : n.value # 0 /\ v \in Inputs(s.value, r.value, n)
  <2> HIDE DEF Inputs
  <2> QED
    BY Zenon
<1>19. \A s, i, n : v \in Inputs(s, i, n) <=>
         \/ n.value > CapacityMax /\ v = Panicked
         \/ /\ ~(n.value > CapacityMax)
            /\ \E p \in ReadItems(buffer, n.at, Repeat("point", n.value)) :
                 p.at = Len(buffer) /\ v = [session |-> s, items |-> i, polynomial |-> p.value]
  <2> DEFINE Made(s, i, n) == {[session |-> s, items |-> i, polynomial |-> p.value] : p \in Polynomial(n)}
  <2>1. \A s, i, n : v \in Made(s, i, n) <=>
          \E p \in ReadItems(buffer, n.at, Repeat("point", n.value)) :
            p.at = Len(buffer) /\ v = [session |-> s, items |-> i, polynomial |-> p.value]
    BY Zenon
  <2>2. \A s, i, n : Inputs(s, i, n) = IF n.value > CapacityMax THEN {Panicked} ELSE Made(s, i, n)
    OBVIOUS
  <2> HIDE DEF Made, Inputs
  <2>3. \A s, i, n : v \in Inputs(s, i, n) <=>
          \/ n.value > CapacityMax /\ v = Panicked
          \/ ~(n.value > CapacityMax) /\ v \in Made(s, i, n)
    BY <2>2
  <2> QED
    BY <2>1, <2>3, Zenon
<1>20. v \in Body <=> \E n \in ReadLen(buffer, one) : v \in Sessions(n)
  <2> HIDE DEF Sessions
  <2> QED
    BY Zenon
<1> HIDE DEF Body, Sessions, Rest, Counts, Inputs, Polynomial
<1>21. v \in Body <=> HasCell(buffer, one) /\ v \in Sessions(first)
  BY <1>2, <1>20, Zenon
<1>22. l \in Nat => (v \in Sessions(first) <=> CellsLeft(buffer, 2, l) /\ v \in Rest(session))
  <2>1. v \in Sessions(first) <=> \E s \in ReadSlice(buffer, 2, l) : v \in Rest(s)
    <3>1. v \in Sessions(first) <=> \E s \in ReadSlice(buffer, first.at, first.value) : v \in Rest(s)
      BY <1>16, Zenon
    <3> QED
      BY <1>3, <3>1
  <2> QED
    BY <1>6, <2>1, Zenon
<1>23. l \in Nat => (v \in Rest(session) <=>
         /\ CellsLeft(buffer, o, five) /\ AreItems(Slice(buffer, o, five), InputItems)
         /\ v \in Counts(session, item))
  BY <1>7, <1>9, <1>17, Zenon
<1>24. l \in Nat => (v \in Counts(session, item) <=>
         HasCell(buffer, q) /\ c # 0 /\ v \in Inputs(session.value, item.value, count))
  <2>1. SUFFICES ASSUME l \in Nat
        PROVE  v \in Counts(session, item) <=>
                 HasCell(buffer, q) /\ c # 0 /\ v \in Inputs(session.value, item.value, count)
    OBVIOUS
  <2>2. v \in Counts(session, item) <=>
          \E n \in ReadLen(buffer, item.at) : n.value # 0 /\ v \in Inputs(session.value, item.value, n)
    BY <1>18, Zenon
  <2>3. item.at = q /\ count.value = c
    BY <1>10, <1>12, <2>1
  <2>4. v \in Counts(session, item) <=>
          \E n \in ReadLen(buffer, q) : n.value # 0 /\ v \in Inputs(session.value, item.value, n)
    BY <2>2, <2>3
  <2>5. ReadLen(buffer, q) = IF HasCell(buffer, q) THEN {count} ELSE {}
    BY <1>11, <2>1
  <2> DEFINE AllowsInputs(n) == n.value # 0 /\ v \in Inputs(session.value, item.value, n)
  <2>6. v \in Counts(session, item) <=> HasCell(buffer, q) /\ AllowsInputs(count)
    <3>1. v \in Counts(session, item) <=> \E n \in ReadLen(buffer, q) : AllowsInputs(n)
      BY <2>4
    <3> HIDE DEF AllowsInputs
    <3> QED
      BY <2>5, <3>1
  <2> QED
    BY <2>3, <2>6
<1>25. l \in Nat /\ c \in Nat /\ c # 0 =>
         (v \in Inputs(session.value, item.value, count) <=>
            \/ c > CapacityMax /\ v = Panicked
            \/ /\ ~(c > CapacityMax)
               /\ CellsLeft(buffer, at, c) /\ AreItems(Slice(buffer, at, c), Repeat("point", c))
               /\ at + c = Len(buffer)
               /\ v = [session |-> Slice(buffer, 2, l), items |-> Slice(buffer, o, five),
                       polynomial |-> Slice(buffer, at, c)])
  <2>1. SUFFICES ASSUME l \in Nat, c \in Nat, c # 0
        PROVE  v \in Inputs(session.value, item.value, count) <=>
            \/ c > CapacityMax /\ v = Panicked
            \/ /\ ~(c > CapacityMax)
               /\ CellsLeft(buffer, at, c) /\ AreItems(Slice(buffer, at, c), Repeat("point", c))
               /\ at + c = Len(buffer)
               /\ v = [session |-> Slice(buffer, 2, l), items |-> Slice(buffer, o, five),
                       polynomial |-> Slice(buffer, at, c)]
    BY Zenon
  <2> DEFINE Read(s, i) == \E p \in ReadItems(buffer, at, Repeat("point", c)) :
                             p.at = Len(buffer) /\ v = [session |-> s, items |-> i, polynomial |-> p.value]
  <2>2. v \in Inputs(session.value, item.value, count) <=>
            \/ c > CapacityMax /\ v = Panicked
            \/ ~(c > CapacityMax) /\ Read(session.value, item.value)
    <3>1. count.at = at /\ count.value = c
      BY <1>12, <2>1
    <3>2. v \in Inputs(session.value, item.value, count) <=>
            \/ count.value > CapacityMax /\ v = Panicked
            \/ /\ ~(count.value > CapacityMax)
               /\ \E p \in ReadItems(buffer, count.at, Repeat("point", count.value)) :
                    /\ p.at = Len(buffer)
                    /\ v = [session |-> session.value, items |-> item.value, polynomial |-> p.value]
      BY <1>19, Zenon
    <3> QED
      BY <3>1, <3>2
  <2>3. session.value = Slice(buffer, 2, l) /\ item.value = Slice(buffer, o, five)
    BY <1>7, <1>10, <2>1
  <2>4. Read(Slice(buffer, 2, l), Slice(buffer, o, five)) <=>
               /\ CellsLeft(buffer, at, c) /\ AreItems(Slice(buffer, at, c), Repeat("point", c))
               /\ at + c = Len(buffer)
               /\ v = [session |-> Slice(buffer, 2, l), items |-> Slice(buffer, o, five),
                       polynomial |-> Slice(buffer, at, c)]
    BY <1>14, <1>15, <2>1, Zenon
  <2> HIDE DEF Read
  <2> QED
    BY <2>2, <2>3, <2>4, Zenon
<1>26. c \in Nat => (~(c > CapacityMax) <=> c <= CapacityMax)
  BY <1>0
<1> DEFINE Ahead == InputsAhead(buffer, l, c)
           Behind == InputsBehind(buffer, l, c, v)
<1>27. Ahead <=> /\ buffer # <<>> /\ buffer[1] = h
                 /\ HasCell(buffer, one) /\ CellsLeft(buffer, 2, l)
                 /\ CellsLeft(buffer, o, five) /\ AreItems(Slice(buffer, o, five), InputItems)
                 /\ HasCell(buffer, q) /\ c # 0
  BY Zenon DEF InputsAhead, h, one, o, five, q
<1>28. Behind <=> /\ c <= CapacityMax /\ CellsLeft(buffer, at, c) /\ at + c = Len(buffer)
                  /\ AreItems(Slice(buffer, at, c), Repeat("point", c))
                  /\ v = [session |-> Slice(buffer, 2, l), items |-> Slice(buffer, o, five),
                          polynomial |-> Slice(buffer, at, c)]
  BY Zenon DEF InputsBehind, at, o, five
<1>29. InputsIn(buffer, v) <=> Ahead /\ (Behind \/ (c > CapacityMax /\ v = Panicked))
  BY Zenon DEF InputsIn, l, c, at
<1> HIDE DEF Ahead, Behind, h, one
<1>30. CASE HasCell(buffer, one) /\ HasCell(buffer, q) /\ c # 0
  BY <1>1, <1>4, <1>13, <1>21, <1>22, <1>23, <1>24, <1>25, <1>26, <1>27, <1>28, <1>29, <1>30, Zenon
<1>31. CASE ~(HasCell(buffer, one) /\ HasCell(buffer, q) /\ c # 0)
  BY <1>1, <1>4, <1>21, <1>22, <1>23, <1>24, <1>27, <1>29, <1>31, Zenon
<1> QED
  BY <1>30, <1>31

LEMMA FirstTwo ==
  ASSUME NEW s \in Seq(Nat), NEW n \in Nat, n = 2, Len(s) >= n
  PROVE  FirstCells(s, n) = <<s[1], s[2]>>
<1> DEFINE o == 0
           x == Slice(s, o, n)
           y == <<s[1], s[2]>>
<1>1. o \in Nat /\ o + n <= Len(s) /\ \A k \in 1 .. n : o + k = k
  OBVIOUS
<1>2. s[1] \in Nat /\ s[2] \in Nat
  OBVIOUS
<1>3. y \in Seq(Nat) /\ Len(y) = n /\ y[1] = s[1] /\ y[2] = s[2]
  BY <1>2
<1> HIDE DEF o, y
<1>4. x \in Seq(Nat) /\ Len(x) = n /\ \A k \in 1 .. n : x[k] = s[o + k]
  BY <1>1, Sliced
<1> HIDE DEF x
<1>5. \A k \in 1 .. n : x[k] = y[k]
  BY <1>1, <1>3, <1>4
<1>6. x = y
  BY <1>3, <1>4, <1>5, SameCells
<1> QED
  BY <1>6 DEF FirstCells, x, y, o

LEMMA InputParts ==
  ASSUME NEW p \in EncodedInputs
  PROVE  /\ p.session \in Seq(Nat) /\ p.items \in Seq(Nat) /\ p.polynomial \in Seq(Nat)
         /\ AreItems(p.items, InputItems) /\ Len(p.items) = 5
         /\ p.polynomial \in Seq(PointCells) /\ Len(p.polynomial) \in 1 .. CapacityMax
         /\ p = [session |-> p.session, items |-> p.items, polynomial |-> p.polynomial]
<1> DEFINE s == p.session
           i == p.items
           c == p.polynomial
<1>1. /\ s \in Seq(Nat) /\ i \in Seq(Nat) /\ c \in Seq(PointCells)
      /\ AreItems(i, InputItems) /\ Len(c) \in 1 .. CapacityMax
      /\ p = [session |-> s, items |-> i, polynomial |-> c]
  BY DEF EncodedInputs
<1> HIDE DEF s, i, c
<1>2. c \in Seq(Nat)
  <2> DEFINE T == Nat
  <2>1. PointCells \subseteq T
    BY CellsAreNumbers
  <2> HIDE DEF T
  <2>2. c \in Seq(T)
    BY <1>1, <2>1, MoreCells
  <2> QED
    BY <2>2 DEF T
<1>3. Len(i) = 5
  <2> DEFINE n == 5
  <2>1. n \in Nat /\ n = 5
    OBVIOUS
  <2> HIDE DEF n
  <2>2. Len(InputItems) = n
    BY <2>1, InputTypes
  <2> QED
    BY <1>1, <2>1, <2>2 DEF AreItems
<1> QED
  BY <1>1, <1>2, <1>3 DEF s, i, c

\* Where the parts of the public inputs lie.
LEMMA InputsWritten ==
  ASSUME NEW p \in EncodedInputs
  PROVE  LET b == PublicInputsToBytes(p)
             l == Len(p.session)
             c == Len(p.polynomial)
         IN  /\ b \in Seq(Nat) /\ l \in Nat /\ c \in Nat /\ Len(b) = 8 + l + c
             /\ b[1] = Header("inputs") /\ b[2] = l /\ b[8 + l] = c
             /\ Slice(b, 2, l) = p.session /\ Slice(b, 2 + l, 5) = p.items
             /\ Slice(b, 8 + l, c) = p.polynomial
<1> DEFINE s == p.session
           i == p.items
           t == p.polynomial
           l == Len(s)
           c == Len(t)
           h == Header("inputs")
           a == <<h, l>>
           n == <<c>>
           d == Four(a, s, i, n)
           b == Join(d, t)
<1>1. /\ s \in Seq(Nat) /\ i \in Seq(Nat) /\ t \in Seq(Nat) /\ Len(i) = 5
  BY InputParts
<1>2. PublicInputsToBytes(p) = b
  BY DEF PublicInputsToBytes, Four, Join
<1>3. h \in Nat
  BY HeaderCells
<1>4. l \in Nat /\ c \in Nat /\ Len(s) = l /\ Len(t) = c
  BY <1>1, CellsOf
<1> HIDE DEF s, i, t, l, c, h
<1>5. a \in Seq(Nat) /\ Len(a) = 2 /\ a[1] = h /\ a[2] = l
  BY <1>3, <1>4
<1>6. n \in Seq(Nat) /\ Len(n) = 1
  BY <1>4
<1>7. n = <<c>>
  OBVIOUS
<1> HIDE DEF a, n
<1>8. /\ d \in Seq(Nat) /\ Len(d) = Len(a) + Len(s) + Len(i) + Len(n)
      /\ LiesAt(a, d, 0) /\ LiesAt(s, d, Len(a))
      /\ LiesAt(i, d, Len(a) + Len(s)) /\ LiesAt(n, d, Len(a) + Len(s) + Len(i))
  <2>0. a \in Seq(Nat) /\ s \in Seq(Nat) /\ i \in Seq(Nat) /\ n \in Seq(Nat)
    BY <1>1, <1>5, <1>6
  <2>1. d \in Seq(Nat)
    BY <2>0, FourParts
  <2>2. Len(d) = Len(a) + Len(s) + Len(i) + Len(n)
    BY <2>0, FourParts
  <2>3. LiesAt(a, d, 0) /\ LiesAt(s, d, Len(a))
    BY <2>0, FourParts
  <2>4. LiesAt(i, d, Len(a) + Len(s)) /\ LiesAt(n, d, Len(a) + Len(s) + Len(i))
    BY <2>0, FourParts
  <2> HIDE DEF d
  <2> QED
    BY <2>1, <2>2, <2>3, <2>4
<1> HIDE DEF d
<1> DEFINE zero == 0
           two == 2
           o == 2 + l
           q == 7 + l
           at == 8 + l
<1>9. /\ Len(a) = two /\ Len(a) + Len(s) = o /\ Len(a) + Len(s) + Len(i) = q
      /\ Len(a) + Len(s) + Len(i) + Len(n) = at
      /\ zero \in Nat /\ two \in Nat /\ o \in Nat /\ q \in Nat /\ at \in Nat /\ q + 1 = at
  BY <1>1, <1>4, <1>5, <1>6
<1>10. LiesAt(a, d, zero) /\ LiesAt(s, d, two) /\ LiesAt(i, d, o) /\ LiesAt(n, d, q) /\ Len(d) = at
  BY <1>8, <1>9
<1> HIDE DEF zero, two, o, q, at
<1>11. b \in Seq(Nat) /\ Len(b) = at + c /\ LiesAt(t, b, at)
  <2>1. b \in Seq(Nat) /\ Len(b) = Len(d) + Len(t)
    BY <1>1, <1>8, Joined
  <2>2. LiesAt(t, b, Len(d))
    BY <1>1, <1>8, LiesBehind
  <2> HIDE DEF b
  <2> QED
    BY <1>4, <1>10, <2>1, <2>2
<1>12. LiesAt(a, b, zero)
  BY <1>1, <1>5, <1>8, <1>9, <1>10, LiesStill
<1>13. LiesAt(s, b, two)
  BY <1>1, <1>8, <1>9, <1>10, LiesStill
<1>14. LiesAt(i, b, o)
  BY <1>1, <1>8, <1>9, <1>10, LiesStill
<1>15. LiesAt(n, b, q)
  BY <1>1, <1>6, <1>8, <1>9, <1>10, LiesStill
<1> HIDE DEF b
<1>16. b[1] = h /\ b[2] = l
  <2>1. zero + two <= Len(b) /\ Slice(b, zero, two) = a /\ zero \in Nat /\ two \in Nat
    BY <1>9, <1>12 DEF LiesAt
  <2>2. \A k \in 1 .. two : a[k] = b[zero + k]
    <3>1. \A k \in 1 .. two : Slice(b, zero, two)[k] = b[zero + k]
      BY <1>9, <1>11, <2>1, Sliced
    <3> QED
      BY <2>1, <3>1
  <2>3. 1 \in 1 .. two /\ 2 \in 1 .. two /\ zero + 1 = 1 /\ zero + 2 = 2
    BY DEF zero, two
  <2>4. a[1] = b[zero + 1] /\ a[2] = b[zero + 2]
    BY <2>2, <2>3
  <2> QED
    BY <1>5, <2>3, <2>4
<1>17. b[at] = c
  <2>1. LiesAt(<<c>>, b, q)
    BY <1>7, <1>15
  <2>2. b[q + 1] = c
    BY <1>4, <1>9, <1>11, <2>1, LiesCell
  <2> QED
    BY <1>9, <2>2
<1>18. Slice(b, 2, l) = s
  BY <1>4, <1>13 DEF LiesAt, two
<1>19. Slice(b, o, 5) = i
  BY <1>1, <1>14 DEF LiesAt
<1>20. Slice(b, at, c) = t
  BY <1>4, <1>11 DEF LiesAt
<1> QED
  BY <1>2, <1>4, <1>11, <1>16, <1>17, <1>18, <1>19, <1>20 DEF s, i, t, l, c, h, o, at

\* It reads what was written,
LEMMA InputsRoundTrip ==
  ASSUME NEW p \in EncodedInputs, Len(PublicInputsToBytes(p)) <= CellMax
  PROVE  PublicInputsFromBytes(PublicInputsToBytes(p)) = {p}
<1> DEFINE b == PublicInputsToBytes(p)
           s == p.session
           i == p.items
           t == p.polynomial
           l == Len(s)
           c == Len(t)
<1>1. /\ b \in Seq(Nat) /\ l \in Nat /\ c \in Nat /\ Len(b) = 8 + l + c
      /\ b[1] = Header("inputs") /\ b[2] = l /\ b[8 + l] = c
      /\ Slice(b, 2, l) = s /\ Slice(b, 2 + l, 5) = i /\ Slice(b, 8 + l, c) = t
  BY InputsWritten
<1>2. /\ t \in Seq(Nat) /\ AreItems(i, InputItems) /\ t \in Seq(PointCells)
      /\ c \in 1 .. CapacityMax /\ p = [session |-> s, items |-> i, polynomial |-> t]
      /\ Len(t) = c
  BY InputParts
<1>3. Len(b) <= CellMax /\ CellMax \in Nat /\ CapacityMax \in Nat
  BY CellsCounted
<1> HIDE DEF b, s, i, t, l, c
<1>4. AreItems(t, Repeat("point", c))
  BY <1>1, <1>2, PointsTyped
<1>5. /\ HasCell(b, 1) /\ CellsLeft(b, 2, l) /\ CellsLeft(b, 2 + l, 5) /\ HasCell(b, 7 + l)
      /\ CellsLeft(b, 8 + l, c) /\ c # 0 /\ c <= CapacityMax /\ ~(c > CapacityMax)
  BY <1>1, <1>2, <1>3 DEF HasCell, CellsLeft
<1>6. b # <<>>
  <2>1. Len(b) # 0
    BY <1>1
  <2> QED
    BY <2>1
<1>7. InputsAhead(b, l, c)
  BY <1>1, <1>2, <1>5, <1>6, Zenon DEF InputsAhead
<1>8. ASSUME NEW v PROVE v \in PublicInputsFromBytes(b) <=> v = p
  <2>1. v \in PublicInputsFromBytes(b) <=> InputsIn(b, v)
    BY <1>1, InputsRead
  <2>2. InputsBehind(b, l, c, v) <=> v = p
    BY <1>1, <1>2, <1>4, <1>5, Zenon DEF InputsBehind
  <2>3. InputsIn(b, v) <=> InputsAhead(b, l, c)
                             /\ (InputsBehind(b, l, c, v) \/ (c > CapacityMax /\ v = Panicked))
    BY <1>1 DEF InputsIn
  <2> QED
    BY <1>5, <1>7, <2>1, <2>2, <2>3, Zenon
<1>9. PublicInputsFromBytes(b) = {p}
  BY <1>8, Zenon
<1> QED
  BY <1>9 DEF b

\* and nothing but what is written.
LEMMA InputsCanonical ==
  ASSUME NEW buffer \in Seq(Nat), NEW v \in PublicInputsFromBytes(buffer), v # Panicked
  PROVE  v \in EncodedInputs /\ PublicInputsToBytes(v) = buffer
<1> DEFINE h == Header("inputs")
           l == buffer[2]
           at == 8 + l
           c == buffer[at]
           o == 2 + l
           q == 7 + l
           s == Slice(buffer, 2, l)
           i == Slice(buffer, o, 5)
           t == Slice(buffer, at, c)
<1>0. CellMax \in Nat /\ Len(buffer) \in Nat /\ CapacityMax \in Nat
  BY CellsCounted, CellsOf
<1>1. InputsIn(buffer, v)
  BY InputsRead
<1>2. InputsAhead(buffer, l, c) /\ InputsBehind(buffer, l, c, v)
  BY <1>1 DEF InputsIn
<1>3. /\ buffer[1] = h /\ HasCell(buffer, 1) /\ HasCell(buffer, q) /\ c # 0
      /\ AreItems(i, InputItems)
  BY <1>2, Zenon DEF InputsAhead
<1>4. /\ c <= CapacityMax /\ at + c = Len(buffer) /\ AreItems(t, Repeat("point", c))
      /\ v = [session |-> s, items |-> i, polynomial |-> t]
  BY <1>2, Zenon DEF InputsBehind
<1>5. l \in Nat
  <2>1. 2 <= Len(buffer)
    BY <1>0, <1>3 DEF HasCell
  <2> QED
    BY <1>0, <2>1
<1> HIDE DEF l
<1>6. o \in Nat /\ q \in Nat /\ at \in Nat /\ q + 1 = at /\ o + 5 = q /\ 2 + l = o
  BY <1>5
<1>7. c \in Nat
  <2> HIDE DEF q, at
  <2> QED
    BY <1>0, <1>3, <1>6 DEF HasCell
<1> HIDE DEF c
<1> DEFINE two == 2
           five == 5
           one == 1
<1>8. /\ two \in Nat /\ two + l = o /\ five \in Nat /\ o + five = q /\ q + one = at /\ one \in Nat
      /\ two = 2 /\ five = 5 /\ one = 1
      /\ two + l <= Len(buffer) /\ o + five <= Len(buffer) /\ q + one <= Len(buffer)
      /\ q + 1 <= Len(buffer) /\ q + 1 = at /\ at + c <= Len(buffer) /\ Len(buffer) >= two
  BY <1>0, <1>4, <1>5, <1>6, <1>7
<1>9. s = Slice(buffer, two, l) /\ i = Slice(buffer, o, five) /\ t = Slice(buffer, at, c)
  OBVIOUS
<1> HIDE DEF two, five, one, s, i, t, o, q, at
<1>10. s \in Seq(Nat) /\ Len(s) = l
  BY <1>5, <1>8, <1>9, Sliced
<1>11. i \in Seq(Nat)
  BY <1>6, <1>8, <1>9, Sliced
<1>12. t \in Seq(Nat) /\ Len(t) = c
  BY <1>6, <1>7, <1>8, <1>9, Sliced
<1>13. t \in Seq(PointCells)
  BY <1>4, <1>7, <1>12, PointsTyped
<1>14. v.session = s /\ v.items = i /\ v.polynomial = t
  BY <1>4
<1>15. v \in EncodedInputs
  <2>1. v \in [session : Seq(Nat), items : Seq(Nat), polynomial : Seq(PointCells)]
    BY <1>4, <1>10, <1>11, <1>13
  <2>2. c \in 1 .. CapacityMax
    BY <1>0, <1>3, <1>4, <1>7
  <2> QED
    BY <1>3, <1>12, <1>14, <2>1, <2>2 DEF EncodedInputs
<1> DEFINE a == <<h, l>>
           n == <<c>>
<1>16. PublicInputsToBytes(v) = Join(Join(Join(Join(a, s), i), n), t)
  BY <1>10, <1>12, <1>14 DEF PublicInputsToBytes, Join
<1>17. FirstCells(buffer, two) = a
  <2>1. FirstCells(buffer, two) = <<buffer[1], buffer[2]>>
    BY <1>8, FirstTwo
  <2> QED
    BY <1>3, <2>1 DEF l
<1>18. Slice(buffer, q, one) = n
  <2>1. Slice(buffer, q, 1) = <<buffer[q + 1]>>
    BY <1>6, <1>8, SliceCell
  <2> QED
    BY <1>8, <2>1 DEF c
<1> HIDE DEF a, n
<1>19. Join(FirstCells(buffer, two), Slice(buffer, two, l)) = FirstCells(buffer, o)
  <2>1. Join(FirstCells(buffer, two), Slice(buffer, two, l)) = FirstCells(buffer, two + l)
    BY <1>5, <1>8, FirstMore
  <2> QED
    BY <1>8, <2>1
<1>20. Join(FirstCells(buffer, o), Slice(buffer, o, five)) = FirstCells(buffer, q)
  <2>1. Join(FirstCells(buffer, o), Slice(buffer, o, five)) = FirstCells(buffer, o + five)
    BY <1>6, <1>8, FirstMore
  <2> QED
    BY <1>8, <2>1
<1>21. Join(FirstCells(buffer, q), Slice(buffer, q, one)) = FirstCells(buffer, at)
  <2>1. Join(FirstCells(buffer, q), Slice(buffer, q, one)) = FirstCells(buffer, q + one)
    BY <1>6, <1>8, FirstMore
  <2> QED
    BY <1>8, <2>1
<1>22. Join(FirstCells(buffer, at), Slice(buffer, at, c)) = FirstCells(buffer, Len(buffer))
  <2>1. Join(FirstCells(buffer, at), Slice(buffer, at, c)) = FirstCells(buffer, at + c)
    BY <1>6, <1>7, <1>8, FirstMore
  <2> QED
    BY <1>4, <2>1
<1>23. FirstCells(buffer, Len(buffer)) = buffer
  BY FirstAll
<1>24. Join(Join(Join(Join(a, s), i), n), t) = buffer
  BY <1>9, <1>17, <1>18, <1>19, <1>20, <1>21, <1>22, <1>23
<1> QED
  BY <1>15, <1>16, <1>24

----------------------------------------------------------------------------
(* Written, altered and read *)

Formats == {"inputs", "ipa", "circuit", "mask"}

\* The values that are encoded have the types of the code, and fit a usize.
LEMMA EncodedValues ==
  ASSUME NEW k \in DOMAIN Encoded, NEW v \in Encoded[k]
  PROVE  /\ k \in Formats /\ Len(Encode(k, v)) <= CellMax
         /\ k = "inputs" => v \in EncodedInputs
         /\ k = "ipa" => v \in IpaProofs
         /\ k = "circuit" => v \in EncodedCircuitProofs
         /\ k = "mask" => v \in SkeletonProofs
<1>1. k \in Formats
  BY CodecAssumption DEF Formats
<1>2. /\ v \in CASE k = "inputs" -> EncodedInputs
                 [] k = "ipa" -> IpaProofs
                 [] k = "circuit" -> EncodedCircuitProofs
                 [] k = "mask" -> SkeletonProofs
      /\ Len(Encode(k, v)) <= CellMax
  BY CodecAssumption, Zenon
<1> QED
  BY <1>1, <1>2

LEMMA EncodeEach ==
  ASSUME NEW k \in Formats, NEW v
  PROVE  /\ k = "inputs" => Encode(k, v) = PublicInputsToBytes(v)
         /\ k = "ipa" => Encode(k, v) = IpaToBytes(v)
         /\ k = "circuit" => Encode(k, v) = CircuitToBytes(v)
         /\ k = "mask" => Encode(k, v) = SkeletonToBytes(v)
  BY DEF Encode, Formats

LEMMA DecodeEach ==
  ASSUME NEW k \in Formats, NEW buffer
  PROVE  /\ k = "inputs" => Decode(k, buffer) = PublicInputsFromBytes(buffer)
         /\ k = "ipa" => Decode(k, buffer) = IpaFromBytes(buffer)
         /\ k = "circuit" => Decode(k, buffer) = CircuitFromBytes(buffer)
         /\ k = "mask" => Decode(k, buffer) = DecodeSkeletonProof(buffer)
  BY DEF Decode, Formats

LEMMA SkeletonWritten ==
  ASSUME NEW p \in SkeletonProofs
  PROVE  SkeletonToBytes(p) \in Seq(Nat)
<1> DEFINE h == Header("mask")
           a == <<h>>
           s == p.shared
           x == CircuitToBytes(p.mask)
           y == CircuitToBytes(p.dh)
           w == WriteLenPrefixed(x)
           z == WriteLenPrefixed(y)
<1>1. s \in Seq(Nat) /\ p.mask \in EncodedCircuitProofs /\ p.dh \in EncodedCircuitProofs
  BY SkeletonParts
<1>2. x \in Seq(Nat) /\ y \in Seq(Nat)
  BY <1>1, CircuitWritten
<1> HIDE DEF x, y
<1>3. w \in Seq(Nat) /\ z \in Seq(Nat)
  BY <1>2, FramedWritten
<1>4. a \in Seq(Nat)
  BY HeaderCells
<1>5. SkeletonToBytes(p) = Four(a, s, w, z)
  BY DEF SkeletonToBytes, Four, Join, x, y
<1> HIDE DEF a, s, w, z
<1>6. Four(a, s, w, z) \in Seq(Nat)
  BY <1>1, <1>3, <1>4, FourParts
<1> QED
  BY <1>5, <1>6

\* What is written is a buffer of cells, and read as what it was.
LEMMA WrittenIsRead ==
  ASSUME NEW k \in DOMAIN Encoded, NEW v \in Encoded[k]
  PROVE  Encode(k, v) \in Seq(Nat) /\ Decode(k, Encode(k, v)) = {v}
<1>1. k \in Formats /\ Len(Encode(k, v)) <= CellMax
  BY EncodedValues
<1>2. CASE k = "inputs"
  <2>1. v \in EncodedInputs /\ Encode(k, v) = PublicInputsToBytes(v)
        /\ Decode(k, Encode(k, v)) = PublicInputsFromBytes(Encode(k, v))
    BY <1>1, <1>2, EncodedValues, EncodeEach, DecodeEach
  <2>2. PublicInputsToBytes(v) \in Seq(Nat)
    BY <2>1, InputsWritten
  <2>3. PublicInputsFromBytes(PublicInputsToBytes(v)) = {v}
    BY <1>1, <2>1, InputsRoundTrip
  <2> QED
    BY <2>1, <2>2, <2>3
<1>3. CASE k = "ipa"
  <2>1. v \in IpaProofs /\ Encode(k, v) = IpaToBytes(v)
        /\ Decode(k, Encode(k, v)) = IpaFromBytes(Encode(k, v))
    BY <1>1, <1>3, EncodedValues, EncodeEach, DecodeEach
  <2>2. IpaToBytes(v) \in Seq(Nat)
    BY <2>1, IpaWritten
  <2>3. IpaFromBytes(IpaToBytes(v)) = {v}
    BY <1>1, <2>1, IpaRoundTrip
  <2> QED
    BY <2>1, <2>2, <2>3
<1>4. CASE k = "circuit"
  <2>1. v \in EncodedCircuitProofs /\ Encode(k, v) = CircuitToBytes(v)
        /\ Decode(k, Encode(k, v)) = CircuitFromBytes(Encode(k, v))
    BY <1>1, <1>4, EncodedValues, EncodeEach, DecodeEach
  <2>2. CircuitToBytes(v) \in Seq(Nat)
    BY <2>1, CircuitWritten
  <2>3. CircuitFromBytes(CircuitToBytes(v)) = {v}
    BY <1>1, <2>1, CircuitRoundTrip
  <2> QED
    BY <2>1, <2>2, <2>3
<1>5. CASE k = "mask"
  <2>1. v \in SkeletonProofs /\ Encode(k, v) = SkeletonToBytes(v)
        /\ Decode(k, Encode(k, v)) = DecodeSkeletonProof(Encode(k, v))
    BY <1>1, <1>5, EncodedValues, EncodeEach, DecodeEach
  <2>2. SkeletonToBytes(v) \in Seq(Nat)
    BY <2>1, SkeletonWritten
  <2>3. DecodeSkeletonProof(SkeletonToBytes(v)) = {v}
    BY <1>1, <2>1, SkeletonRoundTrip
  <2> QED
    BY <2>1, <2>2, <2>3
<1> QED
  BY <1>1, <1>2, <1>3, <1>4, <1>5 DEF Formats

\* What is read is written as it was.
LEMMA ReadIsCanonical ==
  ASSUME NEW k \in Formats, NEW buffer \in Seq(Nat), NEW v \in Decode(k, buffer), v # Panicked
  PROVE  Encode(k, v) = buffer
<1>1. CASE k = "inputs"
  <2>1. v \in PublicInputsFromBytes(buffer) /\ Encode(k, v) = PublicInputsToBytes(v)
    BY <1>1, EncodeEach, DecodeEach
  <2> QED
    BY <2>1, InputsCanonical
<1>2. CASE k = "ipa"
  <2>1. v \in IpaFromBytes(buffer) /\ Encode(k, v) = IpaToBytes(v)
    BY <1>2, EncodeEach, DecodeEach
  <2> QED
    BY <2>1, IpaCanonical
<1>3. CASE k = "circuit"
  <2>1. v \in CircuitFromBytes(buffer) /\ Encode(k, v) = CircuitToBytes(v)
    BY <1>3, EncodeEach, DecodeEach
  <2> QED
    BY <2>1, CircuitCanonical
<1>4. CASE k = "mask"
  <2>1. v \in DecodeSkeletonProof(buffer) /\ Encode(k, v) = SkeletonToBytes(v)
    BY <1>4, EncodeEach, DecodeEach
  <2> QED
    BY <2>1, SkeletonCanonical
<1> QED
  BY <1>1, <1>2, <1>3, <1>4 DEF Formats

CodecInv ==
  /\ kind \in DOMAIN Encoded /\ encoded \in Encoded[kind] /\ cells \in Seq(Nat)
  /\ decoded # NotRead => decoded = Decode(kind, cells)

LEMMA CodecInitially == CodecInit => CodecInv
  BY WrittenIsRead DEF CodecInit, CodecInv

LEMMA AlteredIsCells ==
  ASSUME CodecInv, AlterCells
  PROVE  cells' \in Seq(Nat)
<1>1. cells \in Seq(Nat)
  BY DEF CodecInv
<1>2. AlteredCells \subseteq Nat
  BY CodecAssumption
<1>3. CASE \E k \in DOMAIN cells, cell \in AlteredCells : cells' = [cells EXCEPT ![k] = cell]
  BY <1>1, <1>2, <1>3
<1>4. CASE \E n \in 0 .. (Len(cells) - 1) : cells' = SubSeq(cells, 1, n)
  <2>1. PICK n \in 0 .. (Len(cells) - 1) : cells' = SubSeq(cells, 1, n)
    BY <1>4
  <2> DEFINE o == 0
  <2>2. Len(cells) \in Nat
    BY <1>1, CellsOf
  <2>3. o \in Nat /\ n \in Nat /\ o + n <= Len(cells) /\ cells' = Slice(cells, o, n)
    BY <2>1, <2>2 DEF Slice
  <2> HIDE DEF o
  <2>4. Slice(cells, o, n) \in Seq(Nat)
    BY <1>1, <2>3, Sliced
  <2> QED
    BY <2>3, <2>4
<1>5. CASE \E cell \in AlteredCells : cells' = Append(cells, cell)
  BY <1>1, <1>2, <1>5
<1> QED
  BY <1>3, <1>4, <1>5 DEF AlterCells

LEMMA CodecStep ==
  ASSUME CodecInv, [CodecNext]_codecVars
  PROVE  CodecInv'
<1>1. CASE AlterCells
  BY <1>1, AlteredIsCells DEF CodecInv, AlterCells
<1>2. CASE ReadCells
  BY <1>2 DEF CodecInv, ReadCells
<1>3. CASE UNCHANGED codecVars
  BY <1>3 DEF CodecInv, codecVars
<1> QED
  BY <1>1, <1>2, <1>3 DEF CodecNext

LEMMA CodecInvariant == CodecSpec => []CodecInv
<1>1. CodecInv /\ [CodecNext]_codecVars => CodecInv'
  BY CodecStep
<1> QED
  BY CodecInitially, <1>1, PTL DEF CodecSpec

\* What was written is what is read, whatever lengths the parts have, for all values
\* of the four formats.
THEOREM WrittenIsReadBack == CodecSpec => []RoundTrip
<1>1. CodecInv => RoundTrip
  BY WrittenIsRead DEF CodecInv, RoundTrip
<1> QED
  BY CodecInvariant, <1>1, PTL

\* No buffer, however it was changed, is read as a value that is encoded as another.
THEOREM ReadersAreCanonical == CodecSpec => []OnlyCanonical
<1>1. CodecInv => OnlyCanonical
  <2>1. ASSUME CodecInv, decoded # NotRead, NEW v \in decoded \ {Panicked}
        PROVE  Encode(kind, v) = cells
    <3>1. /\ kind \in DOMAIN Encoded /\ encoded \in Encoded[kind] /\ cells \in Seq(Nat)
          /\ decoded = Decode(kind, cells)
      BY <2>1 DEF CodecInv
    <3>2. kind \in Formats
      BY <3>1, EncodedValues
    <3> QED
      BY <2>1, <3>1, <3>2, ReadIsCanonical
  <2> QED
    BY <2>1 DEF OnlyCanonical
<1> QED
  BY CodecInvariant, <1>1, PTL

=============================================================================
