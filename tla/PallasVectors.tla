---------------------------- MODULE PallasVectors ----------------------------
(***************************************************************************)
(* What the Pallas proof backend computes with: vectors of scalars, and    *)
(* points that are sums of generators nobody knows a relation between.     *)
(* The generators are derived by hashing to the curve, so a point is       *)
(* written as its coefficient at each of them: two such sums are the same  *)
(* point exactly when all coefficients agree.  (PrimeField's one-generator *)
(* points would let every commitment open to everything.)                  *)
(***************************************************************************)
EXTENDS PrimeField

CONSTANT Bases   \* names of the generators

NoPoint == [base \in Bases |-> 0]
BasePoint(base) == [NoPoint EXCEPT ![base] = 1]
Plus(p, q) == [base \in Bases |-> Add(p[base], q[base])]
Scale(p, s) == [base \in Bases |-> Mul(p[base], s)]

InnerProductOf(a, b) ==
  SumOf([k \in DOMAIN a \cap DOMAIN b |-> Mul(a[k], b[k])])

Msm(points, scalars) ==
  [base \in Bases |->
     SumOf([k \in DOMAIN points \cap DOMAIN scalars |-> Mul(points[k][base], scalars[k])])]

\* A slip of the next definition: the first power is already the base.
PowersFromBase(base, n) ==
  LET power[k \in 1 .. n] == IF k = 1 THEN base ELSE Mul(power[k - 1], base)
  IN  [k \in 1 .. n |-> power[k]]

\* 1, base, base squared, ...
PowersFromOne(base, n) ==
  LET power[k \in 1 .. n] == IF k = 1 THEN 1 ELSE Mul(power[k - 1], base)
  IN  [k \in 1 .. n |-> power[k]]

Invert(x) == CHOOSE y \in Inverses(x) : TRUE

Lower(v) == SubSeq(v, 1, Len(v) \div 2)
Upper(v) == SubSeq(v, Len(v) \div 2 + 1, Len(v))

FoldScalars(v, lowWeight, highWeight) ==
  [k \in 1 .. Len(v) \div 2 |->
     Add(Mul(Lower(v)[k], lowWeight), Mul(Upper(v)[k], highWeight))]

FoldPoints(v, lowWeight, highWeight) ==
  [k \in 1 .. Len(v) \div 2 |->
     Plus(Scale(Lower(v)[k], lowWeight), Scale(Upper(v)[k], highWeight))]

=============================================================================
