----------------------------- MODULE PrimeField -----------------------------
(***************************************************************************)
(* The arithmetic the DKG runs on: the Pallas scalar field and the prime-  *)
(* order Pallas group.  A scalar is a residue modulo the prime P.  A point *)
(* is written as its discrete logarithm to a fixed base of the group, so   *)
(* the group is the additive group modulo P; the RedPallas generator the   *)
(* code multiplies by is some non-identity point, the constant Generator.  *)
(* Two points are equal in the code exactly when they are equal here.      *)
(***************************************************************************)
EXTENDS Integers, Sequences, SequencesExt

CONSTANTS P,          \* the order of the scalar field and of the group
          Generator   \* the Orchard SpendAuth basepoint, a non-identity point

ASSUME FieldAssumption ==
  /\ P \in Nat /\ P > 1
  /\ Generator \in 1 .. (P - 1)

ASSUME PrimeAssumption ==
  \A a, b \in 1 .. (P - 1) : (a * b) % P # 0

Scalars == 0 .. (P - 1)
Points  == 0 .. (P - 1)

----------------------------------------------------------------------------
(* Scalars. *)

Add(x, y) == (x + y) % P
Sub(x, y) == (x - y) % P
Mul(x, y) == (x * y) % P
Negate(x) == (-x) % P

\* Construct a field element from a small integer.
FromU64(n) == n % P

\* The inverses of x: none for zero, exactly one for every other element.
Inverses(x) == {y \in Scalars : Mul(x, y) = 1}

\* Horner's method over coefficients in ascending order.
Evaluate(coefficients, x) ==
  FoldRight(LAMBDA coefficient, acc : Add(Mul(acc, x), coefficient),
            coefficients, 0)

SumOf(seq) == FoldLeft(Add, 0, seq)

\* The product of f[m] over the positions m of f other than j.
ProductExcept(f, j) ==
  FoldFunctionOnSet(Mul, 1, f, DOMAIN f \ {j})

\* The polynomial value at zero from the samples <<x, y>>, in a singleton; the
\* empty set where the code returns Empty (no samples) or DuplicateXCoordinate
\* (a zero denominator).
InterpolateAtZero(samples) ==
  LET X(j) == samples[j][1]
      numerator(j)   == ProductExcept([m \in DOMAIN samples |-> Negate(X(m))], j)
      denominator(j) == ProductExcept([m \in DOMAIN samples |-> Sub(X(j), X(m))], j)
      Term(j) == Mul(Mul(samples[j][2], numerator(j)),
                     CHOOSE inv \in Inverses(denominator(j)) : TRUE)
  IN  IF \/ samples = <<>>
         \/ \E j \in DOMAIN samples : Inverses(denominator(j)) = {}
      THEN {}
      ELSE {SumOf([j \in DOMAIN samples |-> Term(j)])}

----------------------------------------------------------------------------
(* Points. *)

Identity == 0
PointAdd(p, q) == (p + q) % P
MulScalar(p, s) == (p * s) % P
GeneratorMul(s) == (s * Generator) % P

=============================================================================
