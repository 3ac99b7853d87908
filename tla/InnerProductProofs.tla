-------------------------- MODULE InnerProductProofs --------------------------
(***************************************************************************)
(* Proofs about InnerProduct, for every field, set of generators, length   *)
(* and challenge.                                                          *)
(***************************************************************************)
EXTENDS InnerProduct, ProtocolTheorems

----------------------------------------------------------------------------
(* One round *)

\* What one round makes of a sum, given what its two points hold of it,
Parts == [v : Scalars, l : Scalars, r : Scalars]
Gained(s, u, w) == Add(s.v, Add(Mul(u, s.l), Mul(w, s.r)))
Joined(s, t) == [v |-> Add(s.v, t.v), l |-> Add(s.l, t.l), r |-> Add(s.r, t.r)]

\* and of the sum of two.
LEMMA GainsAdd ==
  ASSUME NEW s \in Parts, NEW t \in Parts, NEW u \in Scalars, NEW w \in Scalars
  PROVE  /\ Joined(s, t) \in Parts
         /\ Add(Gained(s, u, w), Gained(t, u, w)) = Gained(Joined(s, t), u, w)
<1> DEFINE a == s.v
           b == t.v
           al == s.l
           bl == t.l
           ar == s.r
           br == t.r
<1>1. /\ a \in Scalars /\ al \in Scalars /\ ar \in Scalars
      /\ b \in Scalars /\ bl \in Scalars /\ br \in Scalars
  BY DEF Parts
<1>2. /\ Gained(s, u, w) = Add(a, Add(Mul(u, al), Mul(w, ar)))
      /\ Gained(t, u, w) = Add(b, Add(Mul(u, bl), Mul(w, br)))
      /\ Gained(Joined(s, t), u, w) = Add(Add(a, b), Add(Mul(u, Add(al, bl)),
                                                         Mul(w, Add(ar, br))))
      /\ Joined(s, t) = [v |-> Add(a, b), l |-> Add(al, bl), r |-> Add(ar, br)]
  BY DEF Gained, Joined
<1> HIDE DEF a, al, ar, b, bl, br
<1> DEFINE ua == Mul(u, al)
           ub == Mul(u, bl)
           wa == Mul(w, ar)
           wb == Mul(w, br)
<1>3. ua \in Scalars /\ ub \in Scalars /\ wa \in Scalars /\ wb \in Scalars
  BY <1>1, ScalarRules
<1>4. Mul(u, Add(al, bl)) = Add(ua, ub) /\ Mul(w, Add(ar, br)) = Add(wa, wb)
  BY <1>1, ScalarTriple
<1>5. Add(a, b) \in Scalars /\ Add(al, bl) \in Scalars /\ Add(ar, br) \in Scalars
  BY <1>1, ScalarRules
<1> HIDE DEF ua, ub, wa, wb
<1> DEFINE ga == Add(ua, wa)
           gb == Add(ub, wb)
<1>6. ga \in Scalars /\ gb \in Scalars
  BY <1>3, ScalarRules
<1>7. Add(ga, gb) = Add(Add(ua, ub), Add(wa, wb))
  BY <1>3, Exchange
<1> HIDE DEF ga, gb
<1>8. Add(Add(a, ga), Add(b, gb)) = Add(Add(a, b), Add(ga, gb))
  BY <1>1, <1>6, Exchange
<1>9. Joined(s, t) \in Parts
  BY <1>2, <1>5 DEF Parts
<1>10. Add(Gained(s, u, w), Gained(t, u, w)) = Gained(Joined(s, t), u, w)
  BY <1>2, <1>4, <1>7, <1>8 DEF ga, gb, ua, ub, wa, wb
<1> QED
  BY <1>9, <1>10

\* What an inner-product proof is about: two vectors, and the generators they are
\* committed to with.
States(n) == [a : Vectors(n), b : Vectors(n), g : PointVectors(n), h : PointVectors(n)]

\* The commitment to the vectors and to their product.
Committed(s, q) ==
  Plus(Plus(Msm(s.g, s.a), Msm(s.h, s.b)), Scale(q, InnerProductOf(s.a, s.b)))

LeftPoint(s, q) ==
  Plus(Plus(Msm(Upper(s.g), Lower(s.a)), Msm(Lower(s.h), Upper(s.b))),
       Scale(q, InnerProductOf(Lower(s.a), Upper(s.b))))

RightPoint(s, q) ==
  Plus(Plus(Msm(Lower(s.g), Upper(s.a)), Msm(Upper(s.h), Lower(s.b))),
       Scale(q, InnerProductOf(Upper(s.a), Lower(s.b))))

FoldedState(s, x, xi) ==
  [a |-> FoldScalars(s.a, x, xi), b |-> FoldScalars(s.b, xi, x),
   g |-> FoldPoints(s.g, xi, x), h |-> FoldPoints(s.h, x, xi)]

LEMMA FoldedStateType ==
  ASSUME NEW m \in Nat, NEW s \in States(2 * m), NEW x \in Scalars, NEW xi \in Scalars
  PROVE  FoldedState(s, x, xi) \in States(m)
<1>1. /\ s.a \in Vectors(2 * m) /\ s.b \in Vectors(2 * m)
      /\ s.g \in PointVectors(2 * m) /\ s.h \in PointVectors(2 * m)
  BY DEF States
<1>2. FoldScalars(s.a, x, xi) \in Vectors(m) /\ FoldScalars(s.b, xi, x) \in Vectors(m)
  BY <1>1, FoldedType
<1>3. FoldPoints(s.g, xi, x) \in PointVectors(m) /\ FoldPoints(s.h, x, xi) \in PointVectors(m)
  BY <1>1, FoldedPointsType
<1> QED
  BY <1>2, <1>3 DEF FoldedState, States

\* A coefficient of a commitment.
LEMMA CommittedCoefficient ==
  ASSUME NEW n \in Nat, NEW g \in PointVectors(n), NEW h \in PointVectors(n),
         NEW a \in Vectors(n), NEW b \in Vectors(n), NEW c \in Vectors(n), NEW d \in Vectors(n),
         NEW q \in Pts
  PROVE  LET point == Plus(Plus(Msm(g, a), Msm(h, b)), Scale(q, InnerProductOf(c, d)))
         IN  /\ point \in Pts
             /\ \A base \in Bases :
                  point[base] = Add(Add(InnerProductOf(Coefficients(g, base), a),
                                        InnerProductOf(Coefficients(h, base), b)),
                                    Mul(q[base], InnerProductOf(c, d)))
<1> DEFINE G == Msm(g, a)
           H == Msm(h, b)
           i == InnerProductOf(c, d)
           I == Scale(q, i)
           S == Plus(G, H)
           point == Plus(S, I)
<1>1. G \in Pts /\ \A base \in Bases : G[base] = InnerProductOf(Coefficients(g, base), a)
  BY MsmCoefficient
<1>2. H \in Pts /\ \A base \in Bases : H[base] = InnerProductOf(Coefficients(h, base), b)
  BY MsmCoefficient
<1>3. i \in Scalars
  BY ProductsType
<1> HIDE DEF G, H, i
<1>4. \A base \in Bases : point[base] = Add(Add(G[base], H[base]), Mul(q[base], i))
  BY DEF Plus, Scale
<1>5. S \in Pts /\ I \in Pts
  BY <1>1, <1>2, <1>3, PointsClosed
<1> HIDE DEF S, I
<1>6. point \in Pts
  BY <1>3, <1>5, PointsClosed
<1> HIDE DEF point
<1>7. \A base \in Bases :
        point[base] = Add(Add(InnerProductOf(Coefficients(g, base), a),
                              InnerProductOf(Coefficients(h, base), b)),
                          Mul(q[base], i))
  BY <1>1, <1>2, <1>4
<1> QED
  BY <1>6, <1>7 DEF point, S, I, G, H, i

\* The heart of the argument: folding the vectors and the generators in opposite ways
\* changes the commitment by what the verifier adds for the two points of the round.
LEMMA RoundCommitment ==
  ASSUME NEW m \in Nat, NEW s \in States(2 * m), NEW q \in Pts,
         NEW x \in Scalars, NEW xi \in Scalars, Mul(x, xi) = 1
  PROVE  /\ LeftPoint(s, q) \in Pts /\ RightPoint(s, q) \in Pts
         /\ Committed(s, q) \in Pts
         /\ Committed(FoldedState(s, x, xi), q)
              = Plus(Committed(s, q), Plus(Scale(LeftPoint(s, q), Mul(x, x)),
                                           Scale(RightPoint(s, q), Mul(xi, xi))))
<1> DEFINE a == s.a
           b == s.b
           g == s.g
           h == s.h
           fa == FoldScalars(a, x, xi)
           fb == FoldScalars(b, xi, x)
           fg == FoldPoints(g, xi, x)
           fh == FoldPoints(h, x, xi)
           L == LeftPoint(s, q)
           R == RightPoint(s, q)
           now == Committed(s, q)
           next == Committed(FoldedState(s, x, xi), q)
           u == Mul(x, x)
           w == Mul(xi, xi)
<1>1. /\ a \in Vectors(2 * m) /\ b \in Vectors(2 * m)
      /\ g \in PointVectors(2 * m) /\ h \in PointVectors(2 * m)
      /\ 2 * m \in Nat
  BY DEF States
<1>2. /\ L = Plus(Plus(Msm(Upper(g), Lower(a)), Msm(Lower(h), Upper(b))),
                  Scale(q, InnerProductOf(Lower(a), Upper(b))))
      /\ R = Plus(Plus(Msm(Lower(g), Upper(a)), Msm(Upper(h), Lower(b))),
                  Scale(q, InnerProductOf(Upper(a), Lower(b))))
      /\ now = Plus(Plus(Msm(g, a), Msm(h, b)), Scale(q, InnerProductOf(a, b)))
  BY DEF LeftPoint, RightPoint, Committed
<1>3. next = Plus(Plus(Msm(fg, fa), Msm(fh, fb)), Scale(q, InnerProductOf(fa, fb)))
  BY DEF Committed, FoldedState
<1>4. u \in Scalars /\ w \in Scalars
  BY ScalarRules
<1> HIDE DEF a, b, g, h, L, R, now, next, u, w
<1> DEFINE al == Lower(a)
           ah == Upper(a)
           bl == Lower(b)
           bh == Upper(b)
           gl == Lower(g)
           gh == Upper(g)
           hl == Lower(h)
           hh == Upper(h)
<1>5. al \in Vectors(m) /\ ah \in Vectors(m) /\ bl \in Vectors(m) /\ bh \in Vectors(m)
  BY <1>1, HalvesOfVectors
<1>6. /\ gl \in PointVectors(m) /\ gh \in PointVectors(m)
      /\ hl \in PointVectors(m) /\ hh \in PointVectors(m)
  BY <1>1, HalvesOfPoints
<1>7. fa \in Vectors(m) /\ fb \in Vectors(m)
  BY <1>1, FoldedType
<1>8. fg \in PointVectors(m) /\ fh \in PointVectors(m)
  BY <1>1, FoldedPointsType
<1>9. /\ L = Plus(Plus(Msm(gh, al), Msm(hl, bh)), Scale(q, InnerProductOf(al, bh)))
       /\ R = Plus(Plus(Msm(gl, ah), Msm(hh, bl)), Scale(q, InnerProductOf(ah, bl)))
  BY <1>2
<1> HIDE DEF fa, fb, fg, fh, al, ah, bl, bh, gl, gh, hl, hh
<1>10. /\ L \in Pts
      /\ \A base \in Bases :
           L[base] = Add(Add(InnerProductOf(Coefficients(gh, base), al),
                             InnerProductOf(Coefficients(hl, base), bh)),
                         Mul(q[base], InnerProductOf(al, bh)))
  <2> DEFINE point == Plus(Plus(Msm(gh, al), Msm(hl, bh)), Scale(q, InnerProductOf(al, bh)))
  <2>1. /\ point \in Pts
        /\ \A base \in Bases :
             point[base] = Add(Add(InnerProductOf(Coefficients(gh, base), al),
                                   InnerProductOf(Coefficients(hl, base), bh)),
                               Mul(q[base], InnerProductOf(al, bh)))
    BY <1>5, <1>6, CommittedCoefficient
  <2> HIDE DEF point
  <2>2. L = point
    BY <1>9 DEF point
  <2> QED
    BY <2>1, <2>2
<1>11. /\ R \in Pts
       /\ \A base \in Bases :
            R[base] = Add(Add(InnerProductOf(Coefficients(gl, base), ah),
                              InnerProductOf(Coefficients(hh, base), bl)),
                          Mul(q[base], InnerProductOf(ah, bl)))
  <2> DEFINE point == Plus(Plus(Msm(gl, ah), Msm(hh, bl)), Scale(q, InnerProductOf(ah, bl)))
  <2>1. /\ point \in Pts
        /\ \A base \in Bases :
             point[base] = Add(Add(InnerProductOf(Coefficients(gl, base), ah),
                                   InnerProductOf(Coefficients(hh, base), bl)),
                               Mul(q[base], InnerProductOf(ah, bl)))
    BY <1>5, <1>6, CommittedCoefficient
  <2> HIDE DEF point
  <2>2. R = point
    BY <1>9 DEF point
  <2> QED
    BY <2>1, <2>2
<1>12. /\ now \in Pts
       /\ \A base \in Bases :
            now[base] = Add(Add(InnerProductOf(Coefficients(g, base), a),
                                InnerProductOf(Coefficients(h, base), b)),
                            Mul(q[base], InnerProductOf(a, b)))
  BY <1>1, <1>2, CommittedCoefficient
<1>13. /\ next \in Pts
       /\ \A base \in Bases :
            next[base] = Add(Add(InnerProductOf(Coefficients(fg, base), fa),
                                 InnerProductOf(Coefficients(fh, base), fb)),
                             Mul(q[base], InnerProductOf(fa, fb)))
  BY <1>3, <1>7, <1>8, CommittedCoefficient
<1>14. ASSUME NEW base \in Bases
       PROVE  next[base] = Add(now[base], Add(Mul(L[base], u), Mul(R[base], w)))
  <2> DEFINE cg == Coefficients(g, base)
             ch == Coefficients(h, base)
             A == InnerProductOf(cg, a)
             B == InnerProductOf(ch, b)
             C == InnerProductOf(a, b)
             Al == InnerProductOf(Coefficients(gh, base), al)
             Bl == InnerProductOf(Coefficients(hl, base), bh)
             Cl == InnerProductOf(al, bh)
             Ar == InnerProductOf(Coefficients(gl, base), ah)
             Br == InnerProductOf(Coefficients(hh, base), bl)
             Cr == InnerProductOf(ah, bl)
             Af == InnerProductOf(Coefficients(fg, base), fa)
             Bf == InnerProductOf(Coefficients(fh, base), fb)
             Cf == InnerProductOf(fa, fb)
             e == q[base]
  <2>1. cg \in Vectors(2 * m) /\ ch \in Vectors(2 * m) /\ e \in Scalars
    BY <1>1, CoefficientsType DEF Pts
  <2>2. /\ Coefficients(gl, base) = Lower(cg) /\ Coefficients(gh, base) = Upper(cg)
        /\ Coefficients(fg, base) = FoldScalars(cg, xi, x)
    BY <1>1, CoefficientsFold DEF gl, gh, fg
  <2>3. /\ Coefficients(hl, base) = Lower(ch) /\ Coefficients(hh, base) = Upper(ch)
        /\ Coefficients(fh, base) = FoldScalars(ch, x, xi)
    BY <1>1, CoefficientsFold DEF hl, hh, fh
  <2>4. /\ L[base] = Add(Add(Al, Bl), Mul(e, Cl)) /\ R[base] = Add(Add(Ar, Br), Mul(e, Cr))
        /\ now[base] = Add(Add(A, B), Mul(e, C)) /\ next[base] = Add(Add(Af, Bf), Mul(e, Cf))
    BY <1>10, <1>11, <1>12, <1>13
  <2> HIDE DEF cg, ch, e
  <2> USE DEF al, ah, bl, bh
  <2>5. /\ Lower(cg) \in Vectors(m) /\ Upper(cg) \in Vectors(m)
        /\ Lower(ch) \in Vectors(m) /\ Upper(ch) \in Vectors(m)
    BY <2>1, HalvesOfVectors
  <2>6. FoldScalars(cg, xi, x) \in Vectors(m)
    BY <2>1, FoldedType
  <2>7. Af = Add(A, Add(Mul(u, Al), Mul(w, Ar)))
    <3>1. InnerProductOf(fa, FoldScalars(cg, xi, x))
            = Add(InnerProductOf(a, cg), Add(Mul(u, InnerProductOf(al, Upper(cg))),
                                             Mul(w, InnerProductOf(ah, Lower(cg)))))
      BY <1>1, <2>1, FoldInner DEF fa, u, w
    <3>2. Af = InnerProductOf(fa, FoldScalars(cg, xi, x))
      BY <1>7, <2>2, <2>6, InnerCommutes
    <3>3. A = InnerProductOf(a, cg)
      BY <1>1, <2>1, InnerCommutes
    <3>4. Al = InnerProductOf(al, Upper(cg)) /\ Ar = InnerProductOf(ah, Lower(cg))
      BY <1>5, <2>2, <2>5, InnerCommutes
    <3> QED
      BY <3>1, <3>2, <3>3, <3>4
  <2>8. Bf = Add(B, Add(Mul(u, Bl), Mul(w, Br)))
    <3>1. InnerProductOf(FoldScalars(ch, x, xi), fb)
            = Add(InnerProductOf(ch, b), Add(Mul(u, InnerProductOf(Lower(ch), bh)),
                                             Mul(w, InnerProductOf(Upper(ch), bl))))
      BY <1>1, <2>1, FoldInner DEF fb, u, w
    <3> QED
      BY <2>3, <3>1
  <2>9. Cf = Add(C, Add(Mul(u, Cl), Mul(w, Cr)))
    BY <1>1, FoldInner DEF fa, fb, u, w
  <2> HIDE DEF al, ah, bl, bh
  <2>10. A \in Scalars /\ B \in Scalars /\ C \in Scalars
    BY <1>1, <2>1, ProductsType
  <2>11. Al \in Scalars /\ Ar \in Scalars
    BY <1>5, <2>2, <2>5, ProductsType
  <2>12. Bl \in Scalars /\ Br \in Scalars
    BY <1>5, <2>3, <2>5, ProductsType
  <2>13. Cl \in Scalars /\ Cr \in Scalars
    BY <1>5, ProductsType
  <2> HIDE DEF A, B, C, Al, Bl, Cl, Ar, Br, Cr, Af, Bf, Cf
  <2>14. Mul(e, Cf) = Add(Mul(e, C), Add(Mul(u, Mul(e, Cl)), Mul(w, Mul(e, Cr))))
    <3>1. Mul(u, Cl) \in Scalars /\ Mul(w, Cr) \in Scalars
      BY <1>4, <2>13, ScalarRules
    <3>2. Add(Mul(u, Cl), Mul(w, Cr)) \in Scalars
      BY <3>1, ScalarRules
    <3>3. Mul(e, Cf) = Add(Mul(e, C), Mul(e, Add(Mul(u, Cl), Mul(w, Cr))))
      BY <2>1, <2>9, <2>10, <3>2, ScalarTriple
    <3>4. Mul(e, Add(Mul(u, Cl), Mul(w, Cr))) = Add(Mul(e, Mul(u, Cl)), Mul(e, Mul(w, Cr)))
      BY <2>1, <3>1, ScalarTriple
    <3>5. \A f, c \in Scalars : Mul(e, Mul(f, c)) = Mul(f, Mul(e, c))
      <4> SUFFICES ASSUME NEW f \in Scalars, NEW c \in Scalars
                   PROVE  Mul(e, Mul(f, c)) = Mul(f, Mul(e, c))
        OBVIOUS
      <4>1. Mul(Mul(e, f), c) = Mul(e, Mul(f, c)) /\ Mul(Mul(f, e), c) = Mul(f, Mul(e, c))
        BY <2>1, ScalarTriple
      <4>2. Mul(e, f) = Mul(f, e)
        BY <2>1, ScalarRules
      <4> QED
        BY <4>1, <4>2
    <3>6. Mul(e, Mul(u, Cl)) = Mul(u, Mul(e, Cl)) /\ Mul(e, Mul(w, Cr)) = Mul(w, Mul(e, Cr))
      BY <1>4, <2>13, <3>5
    <3> QED
      BY <3>3, <3>4, <3>6
  <2> DEFINE D == Mul(e, C)
             Dl == Mul(e, Cl)
             Dr == Mul(e, Cr)
  <2>15. D \in Scalars /\ Dl \in Scalars /\ Dr \in Scalars
    BY <2>1, <2>10, <2>13, ScalarRules
  <2>16. /\ L[base] = Add(Add(Al, Bl), Dl) /\ R[base] = Add(Add(Ar, Br), Dr)
         /\ now[base] = Add(Add(A, B), D)
         /\ next[base] = Add(Add(Af, Bf), Add(D, Add(Mul(u, Dl), Mul(w, Dr))))
    BY <2>4, <2>14
  <2> HIDE DEF D, Dl, Dr
  <2> DEFINE first == [v |-> A, l |-> Al, r |-> Ar]
             second == [v |-> B, l |-> Bl, r |-> Br]
             third == [v |-> D, l |-> Dl, r |-> Dr]
             both == Joined(first, second)
             all == Joined(both, third)
  <2>17. first \in Parts /\ second \in Parts /\ third \in Parts
    BY <2>10, <2>11, <2>12, <2>15 DEF Parts
  <2>18. /\ Af = Gained(first, u, w) /\ Bf = Gained(second, u, w)
         /\ Add(D, Add(Mul(u, Dl), Mul(w, Dr))) = Gained(third, u, w)
    BY <2>7, <2>8 DEF Gained
  <2>19. /\ all.v = Add(Add(A, B), D) /\ all.l = Add(Add(Al, Bl), Dl)
         /\ all.r = Add(Add(Ar, Br), Dr)
    BY DEF Joined
  <2> HIDE DEF first, second, third
  <2>20. both \in Parts /\ Add(Gained(first, u, w), Gained(second, u, w)) = Gained(both, u, w)
    BY <1>4, <2>17, GainsAdd
  <2> HIDE DEF both
  <2>21. all \in Parts /\ Add(Gained(both, u, w), Gained(third, u, w)) = Gained(all, u, w)
    BY <1>4, <2>17, <2>20, GainsAdd
  <2> HIDE DEF all
  <2>22. next[base] = Add(all.v, Add(Mul(u, all.l), Mul(w, all.r)))
    BY <2>16, <2>18, <2>20, <2>21 DEF Gained
  <2>23. Mul(u, all.l) = Mul(all.l, u) /\ Mul(w, all.r) = Mul(all.r, w)
    <3>1. all.l \in Scalars /\ all.r \in Scalars
      BY <2>21 DEF Parts
    <3> QED
      BY <1>4, <3>1, ScalarRules
  <2> QED
    BY <2>16, <2>19, <2>22, <2>23
<1>15. next = Plus(now, Plus(Scale(L, u), Scale(R, w)))
  <2>1. Scale(L, u) \in Pts /\ Scale(R, w) \in Pts
    BY <1>4, <1>10, <1>11, PointsClosed
  <2> DEFINE gain == Plus(Scale(L, u), Scale(R, w))
  <2>2. gain \in Pts /\ Plus(now, gain) \in Pts
    <3>1. gain \in Pts
      BY <1>4, <2>1, PointsClosed
    <3> HIDE DEF gain
    <3> QED
      BY <1>4, <1>12, <3>1, PointsClosed
  <2>3. \A base \in Bases :
          Plus(now, gain)[base] = Add(now[base], Add(Mul(L[base], u), Mul(R[base], w)))
    BY DEF Plus, Scale
  <2> HIDE DEF gain
  <2>4. next = Plus(now, gain)
    BY <1>13, <1>14, <2>2, <2>3, PointsEqual
  <2> QED
    BY <2>4 DEF gain
<1> QED
  BY <1>10, <1>11, <1>12, <1>15 DEF L, R, now, next, u, w

----------------------------------------------------------------------------
(* Transcripts. *)

\* The challenge of the product, and after each round the challenge of the round.
ChallengeAt(t, k) == t[9 + 4 * k][2]

\* A transcript over the opening and the first r of the points.
Records(t, setup, claim, points, r) ==
  /\ Listed(t) /\ Len(t) = 9 + 4 * r
  /\ SubSeq(t, 1, 7) = Opening(setup, claim, TwoTo[claim.logLen])
  /\ t[8] = <<"challenge", "product-binding">>
  /\ t[9] = <<"challenge-value", ChallengeAt(t, 0)>>
  /\ \A k \in 1 .. r : /\ t[6 + 4 * k] = <<"L", points[k].l>>
                       /\ t[7 + 4 * k] = <<"R", points[k].r>>
                       /\ t[8 + 4 * k] = <<"challenge", "round">>
                       /\ t[9 + 4 * k] = <<"challenge-value", ChallengeAt(t, k)>>

LEMMA OpeningItems ==
  ASSUME NEW setup, NEW claim, NEW n
  PROVE  LET t == Opening(setup, claim, n)
         IN  /\ Listed(t) /\ Len(t) = 7
             /\ t[3] = <<"setup-digest", SetupDigest(setup)>>
             /\ t[4] = <<"commitment", claim.commitment>>
             /\ t[5] = <<"product", claim.product>>
             /\ t[6] = <<"y", claim.y>>
             /\ t[7] = <<"log-len", claim.logLen>>
<1> DEFINE a == <<"len", n>>
           b == <<"setup-digest", SetupDigest(setup)>>
           c == <<"commitment", claim.commitment>>
           d == <<"product", claim.product>>
           e == <<"y", claim.y>>
           f == <<"log-len", claim.logLen>>
           new == NewTranscript(IpaDomain)
           t1 == Append(new, a)
           t2 == Append(t1, b)
           t == Append(Append(Append(Append(t2, c), d), e), f)
<1>1. t = Opening(setup, claim, n)
  BY DEF Opening, CommitClaim, CommitSetup, Commit
<1>2. Listed(new) /\ Len(new) = 1
  <2>1. new = << <<"domain", IpaDomain>> >>
    BY DEF NewTranscript
  <2> DEFINE first == <<"domain", IpaDomain>>
  <2> HIDE DEF first
  <2>2. <<first>> \in Seq({first}) /\ Len(<<first>>) = 1
    OBVIOUS
  <2> QED
    BY <2>1, <2>2 DEF Listed, first
<1> HIDE DEF a, b, c, d, e, f, new
<1>3. Listed(t1) /\ Len(t1) = Len(new) + 1
  BY <1>2, ListedAppend
<1> HIDE DEF t1
<1>4. Listed(t2) /\ Len(t2) = Len(t1) + 1 /\ t2[Len(t1) + 1] = b
  BY <1>3, ListedAppend
<1> HIDE DEF t2
<1> DEFINE l == Len(t2)
<1>5. /\ Listed(t) /\ Len(t) = l + 4
      /\ \A k \in 1 .. l : t[k] = t2[k]
      /\ t[l + 1] = c /\ t[l + 2] = d /\ t[l + 3] = e /\ t[l + 4] = f
  BY <1>4, FourItems
<1>6. Len(t1) = 2 /\ l = 3
  BY <1>2, <1>3, <1>4
<1> HIDE DEF t, l
<1>7. /\ Listed(t) /\ Len(t) = 7 /\ t[3] = b /\ t[4] = c /\ t[5] = d /\ t[6] = e /\ t[7] = f
  BY <1>4, <1>5, <1>6
<1> QED
  BY <1>1, <1>7 DEF b, c, d, e, f

LEMMA RecordsStart ==
  ASSUME NEW setup, NEW claim, NEW points, NEW c
  PROVE  LET o == Opening(setup, claim, TwoTo[claim.logLen])
             t == AfterChallenge(o, "product-binding", c)
         IN  /\ Records(t, setup, claim, points, 0)
             /\ ChallengeAt(t, 0) = c
             /\ SubSeq(t, 1, 7) = o
<1> DEFINE o == Opening(setup, claim, TwoTo[claim.logLen])
           e == <<"challenge", "product-binding">>
           f == <<"challenge-value", c>>
           oe == Append(o, e)
           t == Append(oe, f)
<1>1. Listed(o) /\ Len(o) = 7
  BY OpeningItems
<1>2. t = AfterChallenge(o, "product-binding", c)
  BY DEF AfterChallenge, Commit
<1>3. f[2] = c
  OBVIOUS
<1>4. SubSeq(o, 1, 7) = o
  <2> HIDE DEF o
  <2> QED
    BY <1>1, WholePrefix
<1> HIDE DEF o, e, f
<1>5. Listed(oe) /\ Len(oe) = 8 /\ oe[8] = e /\ SubSeq(oe, 1, 7) = SubSeq(o, 1, 7)
  <2>1. Listed(oe) /\ Len(oe) = Len(o) + 1 /\ oe[Len(o) + 1] = e
    BY <1>1, ListedAppend
  <2>2. 7 \in 0 .. Len(o)
    BY <1>1
  <2>3. SubSeq(oe, 1, 7) = SubSeq(o, 1, 7)
    BY <1>1, <2>2, AppendPrefix
  <2> QED
    BY <1>1, <2>1, <2>3
<1> HIDE DEF oe
<1>6. /\ Listed(t) /\ Len(t) = 9 /\ t[9] = f /\ t[8] = oe[8]
      /\ SubSeq(t, 1, 7) = SubSeq(oe, 1, 7)
  <2>1. /\ Listed(t) /\ Len(t) = Len(oe) + 1 /\ t[Len(oe) + 1] = f
        /\ \A k \in 1 .. Len(oe) : t[k] = oe[k]
    <3>1. Listed(oe)
      BY <1>5
    <3> QED
      BY <3>1, ListedAppend
  <2>2. 7 \in 0 .. Len(oe)
    BY <1>5
  <2>3. SubSeq(t, 1, 7) = SubSeq(oe, 1, 7)
    BY <1>5, <2>2, AppendPrefix
  <2> QED
    BY <1>5, <2>1, <2>3
<1> HIDE DEF t
<1>7. ChallengeAt(t, 0) = c
  BY <1>3, <1>6 DEF ChallengeAt
<1>8. SubSeq(t, 1, 7) = o
  BY <1>4, <1>5, <1>6
<1>9. Records(t, setup, claim, points, 0)
  BY <1>5, <1>6, <1>7, <1>8 DEF Records, e, f, o
<1> QED
  BY <1>2, <1>7, <1>8, <1>9 DEF o

\* The records of r rounds do not depend on further points.
LEMMA RecordsOfFirst ==
  ASSUME NEW t, NEW setup, NEW claim, NEW points, NEW more, NEW r \in Nat,
         Records(t, setup, claim, points, r), \A k \in 1 .. r : more[k] = points[k]
  PROVE  Records(t, setup, claim, more, r)
  BY DEF Records

\* One transcript goes on from another of r rounds.
Continues(u, t, r) ==
  /\ \A k \in 0 .. r : ChallengeAt(u, k) = ChallengeAt(t, k)
  /\ \A k \in 0 .. (9 + 4 * r) : SubSeq(u, 1, k) = SubSeq(t, 1, k)

\* One transcript is another and one round with the challenge x.
OneMore(u, t, setup, claim, points, r, x) ==
  /\ Records(u, setup, claim, points, r + 1)
  /\ Continues(u, t, r)
  /\ ChallengeAt(u, r + 1) = x
  /\ SubSeq(u, 1, 7 + 4 * (r + 1)) = CommitRound(t, points[r + 1])

LEMMA RecordsStep ==
  ASSUME NEW t, NEW setup, NEW claim, NEW points, NEW r \in Nat,
         Records(t, setup, claim, points, r), NEW x
  PROVE  OneMore(AfterChallenge(CommitRound(t, points[r + 1]), "round", x), t,
                 setup, claim, points, r, x)
<1> DEFINE point == points[r + 1]
           a == <<"L", point.l>>
           b == <<"R", point.r>>
           c == <<"challenge", "round">>
           d == <<"challenge-value", x>>
           asked == Append(Append(t, a), b)
           u == Append(Append(asked, c), d)
           n == 9 + 4 * r
<1>1. asked = CommitRound(t, point) /\ u = AfterChallenge(asked, "round", x)
  BY DEF AfterChallenge, CommitRound, Commit
<1>2. Listed(t) /\ Len(t) = n /\ n \in Nat
  BY DEF Records
<1>3. d[2] = x
  OBVIOUS
<1> HIDE DEF a, b, c, d
<1>4. /\ Listed(u) /\ Len(u) = n + 4
      /\ \A k \in 1 .. n : u[k] = t[k]
      /\ u[n + 1] = a /\ u[n + 2] = b /\ u[n + 3] = c /\ u[n + 4] = d
      /\ \A k \in 0 .. n : SubSeq(u, 1, k) = SubSeq(t, 1, k)
      /\ SubSeq(u, 1, n + 2) = asked
  <2> HIDE DEF n
  <2> QED
    BY <1>2, FourItems
<1> HIDE DEF u, asked
<1>5. \A k \in 0 .. r : ChallengeAt(u, k) = ChallengeAt(t, k)
  <2>1. \A k \in 0 .. r : 9 + 4 * k \in 1 .. n
    OBVIOUS
  <2> QED
    BY <1>4, <2>1 DEF ChallengeAt
<1>6. 9 + 4 * (r + 1) = n + 4 /\ 6 + 4 * (r + 1) = n + 1 /\ 7 + 4 * (r + 1) = n + 2
      /\ 8 + 4 * (r + 1) = n + 3
  OBVIOUS
<1>7. ChallengeAt(u, r + 1) = x
  BY <1>3, <1>4, <1>6 DEF ChallengeAt
<1>8. SubSeq(u, 1, 7) = SubSeq(t, 1, 7) /\ u[8] = t[8] /\ u[9] = t[9]
  BY <1>4
<1>9. ASSUME NEW k \in 1 .. (r + 1)
       PROVE  /\ u[6 + 4 * k] = <<"L", points[k].l>>
              /\ u[7 + 4 * k] = <<"R", points[k].r>>
              /\ u[8 + 4 * k] = <<"challenge", "round">>
              /\ u[9 + 4 * k] = <<"challenge-value", ChallengeAt(u, k)>>
  <2>1. CASE k = r + 1
    BY <1>4, <1>6, <1>7, <2>1 DEF a, b, c, d
  <2>2. CASE k \in 1 .. r
    <3>1. /\ 6 + 4 * k \in 1 .. n /\ 7 + 4 * k \in 1 .. n
          /\ 8 + 4 * k \in 1 .. n /\ 9 + 4 * k \in 1 .. n /\ k \in 0 .. r
      BY <2>2
    <3>2. /\ u[6 + 4 * k] = t[6 + 4 * k] /\ u[7 + 4 * k] = t[7 + 4 * k]
          /\ u[8 + 4 * k] = t[8 + 4 * k] /\ u[9 + 4 * k] = t[9 + 4 * k]
          /\ ChallengeAt(u, k) = ChallengeAt(t, k)
      BY <1>4, <1>5, <2>2, <3>1
    <3> QED
      BY <2>2, <3>2 DEF Records
  <2> QED
    BY <2>1, <2>2
<1>10. Records(u, setup, claim, points, r + 1)
  <2>1. /\ SubSeq(t, 1, 7) = Opening(setup, claim, TwoTo[claim.logLen])
        /\ t[8] = <<"challenge", "product-binding">>
        /\ t[9] = <<"challenge-value", ChallengeAt(t, 0)>>
        /\ ChallengeAt(u, 0) = ChallengeAt(t, 0)
    BY <1>5 DEF Records
  <2> QED
    BY <1>4, <1>6, <1>8, <1>9, <2>1 DEF Records
<1>11. /\ SubSeq(u, 1, 7 + 4 * (r + 1)) = asked
       /\ \A k \in 0 .. n : SubSeq(u, 1, k) = SubSeq(t, 1, k)
  BY <1>4, <1>6
<1>12. asked = CommitRound(t, points[r + 1])
       /\ u = AfterChallenge(CommitRound(t, points[r + 1]), "round", x)
  BY <1>1
<1>13. Continues(u, t, r)
  BY <1>5, <1>11 DEF Continues
<1>14. OneMore(u, t, setup, claim, points, r, x)
  BY <1>7, <1>10, <1>11, <1>12, <1>13 DEF OneMore
<1> QED
  BY <1>12, <1>14

\* Who commits the same and gets the same challenges goes through the prefixes.
LEMMA FollowStart ==
  ASSUME NEW t, NEW setup, NEW claim, NEW points, NEW r \in Nat,
         Records(t, setup, claim, points, r)
  PROVE  AfterChallenge(SubSeq(t, 1, 7), "product-binding", ChallengeAt(t, 0)) = SubSeq(t, 1, 9)
<1>1. /\ Listed(t) /\ Len(t) = 9 + 4 * r /\ t[8] = <<"challenge", "product-binding">>
      /\ t[9] = <<"challenge-value", ChallengeAt(t, 0)>>
  BY DEF Records
<1>2. Len(t) \in Nat /\ 7 + 1 <= Len(t) /\ 8 + 1 <= Len(t)
  BY <1>1
<1>3. Append(SubSeq(t, 1, 7), t[7 + 1]) = SubSeq(t, 1, 7 + 1)
  BY <1>1, <1>2, PrefixAppend
<1>4. Append(SubSeq(t, 1, 8), t[8 + 1]) = SubSeq(t, 1, 8 + 1)
  BY <1>1, <1>2, PrefixAppend
<1> QED
  BY <1>1, <1>3, <1>4 DEF AfterChallenge, Commit

LEMMA FollowRound ==
  ASSUME NEW t, NEW setup, NEW claim, NEW points, NEW r \in Nat,
         Records(t, setup, claim, points, r), NEW k \in 1 .. r
  PROVE  /\ CommitRound(SubSeq(t, 1, 5 + 4 * k), points[k]) = SubSeq(t, 1, 7 + 4 * k)
         /\ AfterChallenge(SubSeq(t, 1, 7 + 4 * k), "round", ChallengeAt(t, k))
              = SubSeq(t, 1, 9 + 4 * k)
<1> DEFINE n == 5 + 4 * k
           a == <<"L", points[k].l>>
           b == <<"R", points[k].r>>
           c == <<"challenge", "round">>
           d == <<"challenge-value", ChallengeAt(t, k)>>
<1>1. /\ Listed(t) /\ Len(t) = 9 + 4 * r
      /\ t[6 + 4 * k] = a /\ t[7 + 4 * k] = b /\ t[8 + 4 * k] = c /\ t[9 + 4 * k] = d
  BY DEF Records
<1>2. /\ n \in Nat /\ Len(t) \in Nat /\ n + 4 <= Len(t)
      /\ n + 1 = 6 + 4 * k /\ n + 2 = 7 + 4 * k /\ n + 3 = 8 + 4 * k /\ n + 4 = 9 + 4 * k
  BY <1>1
<1>3. /\ CommitRound(SubSeq(t, 1, n), points[k]) = Append(Append(SubSeq(t, 1, n), a), b)
      /\ AfterChallenge(SubSeq(t, 1, n + 2), "round", ChallengeAt(t, k))
           = Append(Append(SubSeq(t, 1, n + 2), c), d)
  BY DEF CommitRound, AfterChallenge, Commit
<1>4. t[n + 1] = a /\ t[n + 2] = b /\ t[n + 3] = c /\ t[n + 4] = d
  BY <1>1, <1>2
<1> HIDE DEF n, a, b, c, d
<1>5. \A j \in n .. (n + 3) : Append(SubSeq(t, 1, j), t[j + 1]) = SubSeq(t, 1, j + 1)
  BY <1>1, <1>2, PrefixAppend
<1>6. /\ n \in n .. (n + 3) /\ n + 1 \in n .. (n + 3) /\ n + 2 \in n .. (n + 3)
      /\ n + 3 \in n .. (n + 3)
      /\ (n + 1) + 1 = n + 2 /\ (n + 2) + 1 = n + 3 /\ (n + 3) + 1 = n + 4
  BY <1>2
<1>7. /\ Append(SubSeq(t, 1, n), t[n + 1]) = SubSeq(t, 1, n + 1)
      /\ Append(SubSeq(t, 1, n + 1), t[n + 2]) = SubSeq(t, 1, n + 2)
      /\ Append(SubSeq(t, 1, n + 2), t[n + 3]) = SubSeq(t, 1, n + 3)
      /\ Append(SubSeq(t, 1, n + 3), t[n + 4]) = SubSeq(t, 1, n + 4)
  BY <1>5, <1>6
<1>8. Append(Append(SubSeq(t, 1, n), a), b) = SubSeq(t, 1, n + 2)
      /\ Append(Append(SubSeq(t, 1, n + 2), c), d) = SubSeq(t, 1, n + 4)
  BY <1>4, <1>7
<1>9. n = 5 + 4 * k /\ n + 2 = 7 + 4 * k /\ n + 4 = 9 + 4 * k
  BY <1>2 DEF n
<1> QED
  BY <1>3, <1>8, <1>9

\* Transcripts that agree are about the same.
LEMMA RecordsBind ==
  ASSUME NEW t, NEW setup, NEW claim, NEW points, NEW r \in Nat,
         Records(t, setup, claim, points, r),
         NEW u, NEW setup2, NEW claim2, NEW points2, NEW r2 \in Nat,
         Records(u, setup2, claim2, points2, r2),
         r2 <= r, u = SubSeq(t, 1, Len(u))
  PROVE  /\ SetupDigest(setup2) = SetupDigest(setup)
         /\ claim2.commitment = claim.commitment /\ claim2.product = claim.product
         /\ claim2.y = claim.y /\ claim2.logLen = claim.logLen
         /\ \A k \in 1 .. r2 : points2[k].l = points[k].l /\ points2[k].r = points[k].r
<1> DEFINE m == 9 + 4 * r2
<1>1. Listed(t) /\ Len(t) = 9 + 4 * r /\ Listed(u) /\ Len(u) = m /\ m \in Nat
  BY DEF Records
<1>2. ASSUME NEW k \in 1 .. m PROVE u[k] = t[k]
  <2>1. m \in 0 .. Len(t)
    BY <1>1
  <2>2. SubSeq(t, 1, m)[k] = t[k]
    <3> HIDE DEF m
    <3> QED
      BY <1>1, <2>1, ListedPrefix
  <2> QED
    BY <1>1, <2>2
<1>3. SubSeq(t, 1, 7) = Opening(setup, claim, TwoTo[claim.logLen])
      /\ SubSeq(u, 1, 7) = Opening(setup2, claim2, TwoTo[claim2.logLen])
  BY DEF Records
<1>4. 7 \in 0 .. Len(t) /\ 7 \in 0 .. Len(u) /\ \A k \in 1 .. 7 : k \in 1 .. m
  BY <1>1
<1>5. \A k \in 1 .. 7 : SubSeq(t, 1, 7)[k] = t[k] /\ SubSeq(u, 1, 7)[k] = u[k]
  BY <1>1, <1>4, ListedPrefix
<1>6. \A k \in 1 .. 7 : SubSeq(t, 1, 7)[k] = SubSeq(u, 1, 7)[k]
  BY <1>2, <1>4, <1>5
<1> DEFINE o == Opening(setup, claim, TwoTo[claim.logLen])
           o2 == Opening(setup2, claim2, TwoTo[claim2.logLen])
<1>7. /\ o[3] = <<"setup-digest", SetupDigest(setup)>>
      /\ o[4] = <<"commitment", claim.commitment>> /\ o[5] = <<"product", claim.product>>
      /\ o[6] = <<"y", claim.y>> /\ o[7] = <<"log-len", claim.logLen>>
  BY OpeningItems
<1>8. /\ o2[3] = <<"setup-digest", SetupDigest(setup2)>>
      /\ o2[4] = <<"commitment", claim2.commitment>> /\ o2[5] = <<"product", claim2.product>>
      /\ o2[6] = <<"y", claim2.y>> /\ o2[7] = <<"log-len", claim2.logLen>>
  BY OpeningItems
<1> HIDE DEF o, o2, m
<1>9. \A k \in 1 .. 7 : o2[k] = o[k]
  BY <1>3, <1>6 DEF o, o2
<1>10. /\ SetupDigest(setup2) = SetupDigest(setup)
       /\ claim2.commitment = claim.commitment /\ claim2.product = claim.product
       /\ claim2.y = claim.y /\ claim2.logLen = claim.logLen
  BY <1>7, <1>8, <1>9
<1>11. ASSUME NEW k \in 1 .. r2
       PROVE  points2[k].l = points[k].l /\ points2[k].r = points[k].r
  <2>1. 6 + 4 * k \in 1 .. m /\ 7 + 4 * k \in 1 .. m /\ k \in 1 .. r
    BY DEF m
  <2>2. u[6 + 4 * k] = t[6 + 4 * k] /\ u[7 + 4 * k] = t[7 + 4 * k]
    BY <1>2, <2>1
  <2>3. u[6 + 4 * k] = <<"L", points2[k].l>> /\ u[7 + 4 * k] = <<"R", points2[k].r>>
    BY DEF Records
  <2>4. t[6 + 4 * k] = <<"L", points[k].l>> /\ t[7 + 4 * k] = <<"R", points[k].r>>
    BY <2>1 DEF Records
  <2>5. /\ <<"L", points2[k].l>> = <<"L", points[k].l>>
        /\ <<"R", points2[k].r>> = <<"R", points[k].r>>
    BY <2>2, <2>3, <2>4
  <2> QED
    BY <2>5
<1> QED
  BY <1>10, <1>11

----------------------------------------------------------------------------
(* The last commitment *)

\* Of a vector's points the first one alone has a generator in it, or none has.
Pivot(v, base) == v[1][base] # 0 /\ \A j \in DOMAIN v : j # 1 => v[j][base] = 0
Absent(v, base) == \A j \in DOMAIN v : v[j][base] = 0

LEMMA AbsentFolds ==
  ASSUME NEW m \in Nat, NEW v \in PointVectors(2 * m), NEW base \in Bases,
         NEW lw \in Scalars, NEW hw \in Scalars, Absent(v, base)
  PROVE  Absent(FoldPoints(v, lw, hw), base)
<1> DEFINE f == FoldPoints(v, lw, hw)
<1>1. /\ f \in PointVectors(m)
      /\ \A k \in 1 .. m : f[k] = Plus(Scale(v[k], lw), Scale(v[m + k], hw))
  BY FoldedPointsType
<1>2. DOMAIN v = 1 .. (2 * m) /\ DOMAIN f = 1 .. m
  BY <1>1 DEF PointVectors
<1> HIDE DEF f
<1>3. ASSUME NEW k \in 1 .. m PROVE f[k][base] = 0
  <2>1. k \in 1 .. (2 * m) /\ m + k \in 1 .. (2 * m)
    OBVIOUS
  <2>2. v[k][base] = 0 /\ v[m + k][base] = 0
    BY <1>2, <2>1 DEF Absent
  <2>3. f[k][base] = Add(Mul(0, lw), Mul(0, hw))
    <3>1. Plus(Scale(v[k], lw), Scale(v[m + k], hw))[base]
            = Add(Mul(v[k][base], lw), Mul(v[m + k][base], hw))
      BY DEF Plus, Scale
    <3> QED
      BY <1>1, <2>2, <3>1
  <2>4. Mul(0, lw) = 0 /\ Mul(0, hw) = 0
    BY ScalarRules
  <2> QED
    BY <2>3, <2>4, AddZero, ResiduesAreIntegers
<1> QED
  BY <1>2, <1>3 DEF Absent, f

LEMMA PivotFolds ==
  ASSUME NEW m \in Nat, m > 0, NEW v \in PointVectors(2 * m), NEW base \in Bases,
         NEW lw \in Scalars, lw # 0, NEW hw \in Scalars, Pivot(v, base)
  PROVE  Pivot(FoldPoints(v, lw, hw), base)
<1> DEFINE f == FoldPoints(v, lw, hw)
<1>1. /\ f \in PointVectors(m)
      /\ \A k \in 1 .. m : f[k] = Plus(Scale(v[k], lw), Scale(v[m + k], hw))
  BY FoldedPointsType
<1>2. DOMAIN v = 1 .. (2 * m) /\ DOMAIN f = 1 .. m /\ \A k \in 1 .. (2 * m) : v[k] \in Pts
  BY <1>1 DEF PointVectors
<1> HIDE DEF f
<1>3. \A k \in 1 .. m : f[k][base] = Add(Mul(v[k][base], lw), Mul(v[m + k][base], hw))
  <2>1. \A k \in 1 .. m : Plus(Scale(v[k], lw), Scale(v[m + k], hw))[base]
                            = Add(Mul(v[k][base], lw), Mul(v[m + k][base], hw))
    BY DEF Plus, Scale
  <2> QED
    BY <1>1, <2>1
<1>4. Mul(0, lw) = 0 /\ Mul(0, hw) = 0 /\ 0 \in Scalars
  <2>1. 0 \in Scalars
    BY ResiduesAreIntegers
  <2>2. Mul(0, lw) = 0 /\ Mul(0, hw) = 0
    BY ScalarRules
  <2> QED
    BY <2>1, <2>2
<1>5. \A k \in 1 .. m : /\ k \in DOMAIN v /\ m + k \in DOMAIN v /\ m + k # 1
                        /\ v[m + k][base] = 0
  <2>1. \A k \in 1 .. m : k \in DOMAIN v /\ m + k \in DOMAIN v /\ m + k # 1
    BY <1>2
  <2> QED
    BY <2>1 DEF Pivot
<1>6. f[1][base] # 0
  <2>1. 1 \in 1 .. m /\ v[1][base] # 0 /\ v[1] \in Pts
    BY <1>2 DEF Pivot
  <2>2. v[1][base] \in Scalars
    BY <2>1 DEF Pts
  <2>3. Mul(v[1][base], lw) \in Scalars /\ Mul(v[1][base], lw) # 0
    <3> DEFINE e == v[1][base]
    <3>1. e \in Scalars /\ e # 0
      BY <2>1, <2>2
    <3> HIDE DEF e
    <3>2. Mul(e, lw) \in Scalars /\ Mul(e, lw) # 0
      BY <3>1, NonzeroProduct, ScalarRules
    <3> QED
      BY <3>2 DEF e
  <2>4. f[1][base] = Add(Mul(v[1][base], lw), 0)
    BY <1>3, <1>4, <1>5, <2>1
  <2> QED
    BY <2>3, <2>4, AddZero
<1>7. ASSUME NEW k \in 1 .. m, k # 1 PROVE f[k][base] = 0
  <2>1. v[k][base] = 0
    BY <1>5, <1>7 DEF Pivot
  <2>2. f[k][base] = Add(0, 0)
    BY <1>3, <1>4, <1>5, <2>1
  <2> QED
    BY <1>4, <2>2, AddZero
<1> QED
  BY <1>2, <1>6, <1>7 DEF Pivot, f

\* The commitment to vectors of one element.
LEMMA LastCommitment ==
  ASSUME NEW s \in States(1), NEW q \in Pts
  PROVE  /\ s.a[1] \in Scalars /\ s.b[1] \in Scalars /\ s.g[1] \in Pts /\ s.h[1] \in Pts
         /\ Committed(s, q) = Plus(Plus(Scale(s.g[1], s.a[1]), Scale(s.h[1], s.b[1])),
                                   Scale(q, Mul(s.a[1], s.b[1])))
<1> DEFINE a == s.a
           b == s.b
           g == s.g
           h == s.h
<1>1. a \in Vectors(1) /\ b \in Vectors(1) /\ g \in PointVectors(1) /\ h \in PointVectors(1)
  BY DEF States
<1>2. Committed(s, q) = Plus(Plus(Msm(g, a), Msm(h, b)), Scale(q, InnerProductOf(a, b)))
  BY DEF Committed
<1> HIDE DEF a, b, g, h
<1>3. ASSUME NEW u \in Vectors(1), NEW v \in Vectors(1)
      PROVE  u[1] \in Scalars /\ InnerProductOf(u, v) = Mul(u[1], v[1])
  <2> DEFINE p == Products(u, v)
  <2>1. /\ p \in Vectors(1) /\ p[1] = Mul(u[1], v[1]) /\ InnerProductOf(u, v) = SumOf(p)
        /\ u[1] \in Scalars
    <3>1. 1 \in 1 .. 1
      OBVIOUS
    <3> QED
      BY <3>1, ProductsType
  <2> HIDE DEF p
  <2>2. p \in Seq(Scalars) /\ DOMAIN p = {1}
    BY <2>1 DEF Vectors
  <2>3. SumOf(p) = p[1]
    BY <2>2, SumSingle
  <2> QED
    BY <2>1, <2>3
<1>4. ASSUME NEW v \in PointVectors(1), NEW u \in Vectors(1)
      PROVE  v[1] \in Pts /\ Msm(v, u) = Scale(v[1], u[1])
  <2>1. v[1] \in Pts /\ u[1] \in Scalars
    BY <1>3 DEF PointVectors
  <2>2. Msm(v, u) \in Pts
        /\ \A base \in Bases : Msm(v, u)[base] = InnerProductOf(Coefficients(v, base), u)
    BY MsmCoefficient
  <2>3. \A base \in Bases : /\ Coefficients(v, base) \in Vectors(1)
                            /\ Coefficients(v, base)[1] = v[1][base]
    <3>1. 1 \in 1 .. 1
      OBVIOUS
    <3> QED
      BY <3>1, CoefficientsType
  <2>4. \A base \in Bases : Msm(v, u)[base] = Mul(v[1][base], u[1])
    BY <1>3, <2>2, <2>3
  <2>5. Scale(v[1], u[1]) \in Pts
    BY <2>1, PointsClosed
  <2>6. \A base \in Bases : Scale(v[1], u[1])[base] = Mul(v[1][base], u[1])
    BY DEF Scale
  <2>7. Msm(v, u) = Scale(v[1], u[1])
    <3> DEFINE x == Msm(v, u)
               y == Scale(v[1], u[1])
    <3>1. x \in Pts /\ y \in Pts /\ \A base \in Bases : x[base] = y[base]
      BY <2>2, <2>4, <2>5, <2>6
    <3> HIDE DEF x, y
    <3>2. x = y
      BY <3>1, PointsEqual
    <3> QED
      BY <3>2 DEF x, y
  <2> QED
    BY <2>1, <2>7
<1>5. /\ a[1] \in Scalars /\ b[1] \in Scalars /\ g[1] \in Pts /\ h[1] \in Pts
      /\ Msm(g, a) = Scale(g[1], a[1]) /\ Msm(h, b) = Scale(h[1], b[1])
      /\ InnerProductOf(a, b) = Mul(a[1], b[1])
  BY <1>1, <1>3, <1>4
<1> QED
  BY <1>2, <1>5 DEF a, b, g, h

----------------------------------------------------------------------------
(* Claims *)

Claims == [commitment : Pts, product : Scalars, y : Scalars, logLen : Nat]
Givens == {gv \in [setup : Setups, claim : Claims,
                   witness : [a : Seq(Scalars), b : Seq(Scalars)]] :
             /\ Len(gv.witness.b) = Len(gv.witness.a)
             /\ Len(gv.witness.a) < 2 ^ WordBits}

LEMMA SetupFacts ==
  ASSUME NEW setup \in Setups
  PROVE  /\ setup = [g |-> setup.g, h |-> setup.h, q |-> setup.q]
         /\ setup.g \in Seq(Bases) /\ setup.h \in Seq(Bases) /\ setup.q \in Bases
         /\ \A k \in 1 .. Len(setup.g) : \A j \in 1 .. Len(setup.g) :
              setup.g[k] = setup.g[j] => k = j
         /\ \A k \in 1 .. Len(setup.h) : \A j \in 1 .. Len(setup.h) :
              setup.h[k] = setup.h[j] => k = j
         /\ \A k \in 1 .. Len(setup.g) : setup.g[k] \in Bases /\ setup.g[k] # setup.q
         /\ \A j \in 1 .. Len(setup.h) : setup.h[j] \in Bases /\ setup.h[j] # setup.q
         /\ \A k \in 1 .. Len(setup.g) : \A j \in 1 .. Len(setup.h) :
              setup.g[k] # setup.h[j]
<1> DEFINE g == setup.g
           h == setup.h
           q == setup.q
           both == g \o h
<1>1. ProperSetup(setup)
  BY CasesAssumption
<1>2. /\ setup = [g |-> g, h |-> h, q |-> q]
      /\ g \in Seq(Bases) /\ h \in Seq(Bases) /\ q \in Bases
  BY <1>1 DEF ProperSetup
<1>3. IsInjective(both) /\ q \notin ToSet(both)
  BY <1>1 DEF ProperSetup
<1> HIDE DEF g, h, q
<1>4. /\ both \in Seq(Bases) /\ Len(both) = Len(g) + Len(h)
      /\ Len(g) \in Nat /\ Len(h) \in Nat
  BY <1>2
<1>5. \A k \in 1 .. Len(g) : both[k] = g[k]
  BY <1>2
<1>6. \A j \in 1 .. Len(h) : both[Len(g) + j] = h[j]
  BY <1>2
<1> HIDE DEF both
<1>7. DOMAIN both = 1 .. (Len(g) + Len(h))
  BY <1>4
<1>8. /\ \A k \in 1 .. Len(g) : k \in DOMAIN both
      /\ \A j \in 1 .. Len(h) : Len(g) + j \in DOMAIN both
  BY <1>4, <1>7
<1>9. \A k \in DOMAIN both : \A j \in DOMAIN both : both[k] = both[j] => k = j
  BY <1>3 DEF IsInjective
<1>10. \A k \in DOMAIN both : both[k] # q /\ both[k] \in Bases
  BY <1>3, <1>4 DEF ToSet
<1>11. \A k \in 1 .. Len(g) : \A j \in 1 .. Len(g) : g[k] = g[j] => k = j
  BY <1>5, <1>8, <1>9
<1>12. \A k \in 1 .. Len(h) : \A j \in 1 .. Len(h) : h[k] = h[j] => k = j
  <2> SUFFICES ASSUME NEW k \in 1 .. Len(h), NEW j \in 1 .. Len(h), h[k] = h[j]
               PROVE  k = j
    OBVIOUS
  <2>1. Len(g) + k = Len(g) + j
    BY <1>6, <1>8, <1>9
  <2> QED
    BY <1>4, <2>1
<1>13. \A k \in 1 .. Len(g) : \A j \in 1 .. Len(h) : g[k] # h[j]
  <2> SUFFICES ASSUME NEW k \in 1 .. Len(g), NEW j \in 1 .. Len(h), g[k] = h[j]
               PROVE  FALSE
    OBVIOUS
  <2>1. k = Len(g) + j
    BY <1>5, <1>6, <1>8, <1>9
  <2> QED
    BY <1>4, <2>1
<1>14. \A k \in 1 .. Len(g) : g[k] \in Bases /\ g[k] # q
  BY <1>5, <1>8, <1>10
<1>15. \A j \in 1 .. Len(h) : h[j] \in Bases /\ h[j] # q
  BY <1>6, <1>8, <1>10
<1> QED
  BY <1>2, <1>11, <1>12, <1>13, <1>14, <1>15 DEF g, h, q

LEMMA GeneratorsType ==
  ASSUME NEW setup \in Setups, NEW n \in Nat, n <= Len(setup.g), n <= Len(setup.h),
         NEW y \in Scalars
  PROVE  /\ LeftGenerators(setup, n) \in PointVectors(n)
         /\ \A k \in 1 .. n : /\ LeftGenerators(setup, n)[k] = BasePoint(setup.g[k])
                              /\ k \in 1 .. Len(setup.g) /\ k \in 1 .. Len(setup.h)
         /\ WeightedHGenerators(setup, n, y) \in PointVectors(n)
         /\ \A k \in 1 .. n :
              /\ WeightedHGenerators(setup, n, y)[k]
                   = Scale(BasePoint(setup.h[k]), PowersFromOne(y, n)[k])
              /\ PowersFromOne(y, n)[k] \in Scalars
         /\ n > 0 => PowersFromOne(y, n)[1] = 1
<1> DEFINE g == setup.g
           h == setup.h
           p == PowersFromOne(y, n)
           left == LeftGenerators(setup, n)
           right == WeightedHGenerators(setup, n, y)
<1>1. /\ g \in Seq(Bases) /\ h \in Seq(Bases)
      /\ \A k \in 1 .. Len(g) : g[k] \in Bases
      /\ \A k \in 1 .. Len(h) : h[k] \in Bases
  BY SetupFacts
<1>2. p \in [1 .. n -> Scalars] /\ (n > 0 => p[1] = 1)
  BY PowersType
<1>3. left = PointsOf(SubSeq(g, 1, n))
  BY DEF LeftGenerators
<1>4. right = [k \in 1 .. n |-> Scale(BasePoint(h[k]), p[k])]
  BY DEF WeightedHGenerators
<1>5. n <= Len(g) /\ n <= Len(h)
  OBVIOUS
<1> HIDE DEF g, h, p, left, right
<1>6. \A k \in 1 .. n : k \in 1 .. Len(g) /\ k \in 1 .. Len(h)
  BY <1>1, <1>5
<1>7. /\ DOMAIN SubSeq(g, 1, n) = 1 .. n
      /\ \A k \in 1 .. n : SubSeq(g, 1, n)[k] = g[k]
  BY <1>1, <1>5
<1>8. left = [k \in 1 .. n |-> BasePoint(g[k])]
  BY <1>3, <1>7 DEF PointsOf
<1>9. \A k \in 1 .. n : /\ BasePoint(g[k]) \in Pts /\ BasePoint(h[k]) \in Pts
                        /\ p[k] \in Scalars
  <2>1. \A k \in 1 .. n : g[k] \in Bases /\ h[k] \in Bases
    BY <1>1, <1>6
  <2>2. \A base \in Bases : BasePoint(base) \in Pts
    BY ResiduesAreIntegers DEF BasePoint, NoPoint, Pts
  <2> QED
    BY <1>2, <2>1, <2>2
<1>10. \A k \in 1 .. n : Scale(BasePoint(h[k]), p[k]) \in Pts
  BY <1>9, PointsClosed
<1>11. left \in PointVectors(n)
  <2>1. left = [k \in 1 .. n |-> left[k]] /\ \A k \in 1 .. n : left[k] \in Pts
    BY <1>8, <1>9
  <2> QED
    BY <2>1, PointVectorsAre
<1>12. right \in PointVectors(n)
  <2>1. right = [k \in 1 .. n |-> right[k]] /\ \A k \in 1 .. n : right[k] \in Pts
    BY <1>4, <1>10
  <2> QED
    BY <2>1, PointVectorsAre
<1> QED
  BY <1>2, <1>4, <1>6, <1>8, <1>11, <1>12 DEF g, h, p, left, right

\* The first generators have a coefficient of their own.
LEMMA GeneratorsIndependent ==
  ASSUME NEW setup \in Setups, NEW n \in Nat, n <= Len(setup.g), n <= Len(setup.h), n > 0,
         NEW y \in Scalars
  PROVE  /\ setup.g[1] \in Bases /\ setup.h[1] \in Bases
         /\ Pivot(LeftGenerators(setup, n), setup.g[1])
         /\ Absent(LeftGenerators(setup, n), setup.h[1])
         /\ Pivot(WeightedHGenerators(setup, n, y), setup.h[1])
         /\ Absent(WeightedHGenerators(setup, n, y), setup.g[1])
         /\ BasePoint(setup.q)[setup.g[1]] = 0 /\ BasePoint(setup.q)[setup.h[1]] = 0
<1> DEFINE g == setup.g
           h == setup.h
           q == setup.q
           p == PowersFromOne(y, n)
           left == LeftGenerators(setup, n)
           right == WeightedHGenerators(setup, n, y)
<1>1. /\ left \in PointVectors(n) /\ right \in PointVectors(n)
      /\ \A k \in 1 .. n : /\ left[k] = BasePoint(g[k])
                           /\ right[k] = Scale(BasePoint(h[k]), p[k]) /\ p[k] \in Scalars
                           /\ k \in 1 .. Len(g) /\ k \in 1 .. Len(h)
      /\ p[1] = 1
  BY GeneratorsType
<1>2. DOMAIN left = 1 .. n /\ DOMAIN right = 1 .. n
  BY <1>1 DEF PointVectors
<1>3. /\ \A k \in 1 .. Len(g) : \A j \in 1 .. Len(g) : g[k] = g[j] => k = j
      /\ \A k \in 1 .. Len(h) : \A j \in 1 .. Len(h) : h[k] = h[j] => k = j
      /\ \A k \in 1 .. Len(g) : g[k] \in Bases /\ g[k] # q
      /\ \A j \in 1 .. Len(h) : h[j] \in Bases /\ h[j] # q
      /\ \A k \in 1 .. Len(g) : \A j \in 1 .. Len(h) : g[k] # h[j]
      /\ q \in Bases
  BY SetupFacts
<1> HIDE DEF g, h, q, p, left, right
<1>4. 1 \in 1 .. n
  OBVIOUS
<1>5. g[1] \in Bases /\ h[1] \in Bases /\ g[1] # q /\ h[1] # q
  BY <1>1, <1>3, <1>4
<1>6. \A k \in 1 .. n : /\ g[k] \in Bases /\ h[k] \in Bases
                        /\ g[k] = g[1] => k = 1
                        /\ h[k] = h[1] => k = 1
                        /\ g[k] # h[1] /\ h[k] # g[1]
  BY <1>1, <1>3, <1>4
<1>7. \A k \in 1 .. n : /\ BasePoint(g[k])[g[1]] = IF k = 1 THEN 1 ELSE 0
                        /\ BasePoint(g[k])[h[1]] = 0
                        /\ BasePoint(h[k])[h[1]] = IF k = 1 THEN 1 ELSE 0
                        /\ BasePoint(h[k])[g[1]] = 0
  BY <1>5, <1>6, BasePointAt
<1>8. \A base \in Bases : \A k \in 1 .. n : right[k][base] = Mul(BasePoint(h[k])[base], p[k])
  <2>1. \A base \in Bases : \A k \in 1 .. n : Scale(BasePoint(h[k]), p[k])[base]
                                                = Mul(BasePoint(h[k])[base], p[k])
    BY DEF Scale
  <2> QED
    BY <1>1, <2>1
<1>9. \A k \in 1 .. n : /\ right[k][h[1]] = IF k = 1 THEN p[k] ELSE 0
                        /\ right[k][g[1]] = 0
  <2>1. \A k \in 1 .. n : Mul(1, p[k]) = p[k] /\ Mul(0, p[k]) = 0
    BY <1>1, ScalarRules
  <2> QED
    BY <1>5, <1>7, <1>8, <2>1
<1>10. /\ Pivot(left, g[1]) /\ Absent(left, h[1])
  BY <1>1, <1>2, <1>4, <1>7 DEF Pivot, Absent
<1>11. /\ Pivot(right, h[1]) /\ Absent(right, g[1])
  BY <1>1, <1>2, <1>4, <1>9 DEF Pivot, Absent
<1>12. BasePoint(q)[g[1]] = 0 /\ BasePoint(q)[h[1]] = 0
  BY <1>3, <1>5, BasePointAt
<1> QED
  BY <1>5, <1>10, <1>11, <1>12 DEF g, h, q, left, right

\* What a prover that does not refuse has been given.
Ready(gv) == ProveError(gv.setup, gv.claim, gv.witness) = "none"

LEMMA ReadyFacts ==
  ASSUME NEW gv \in Givens, Ready(gv)
  PROVE  LET n == gv.claim.logLen
         IN  /\ n \in Nat /\ n < WordBits /\ TwoTo[n] \in Nat /\ TwoTo[n] > 0
             /\ ClaimLen(gv.claim) = {TwoTo[n]}
             /\ SupportsLen(gv.setup, TwoTo[n])
             /\ TwoTo[n] <= Len(gv.setup.g) /\ TwoTo[n] <= Len(gv.setup.h)
             /\ gv.witness.a \in Vectors(TwoTo[n]) /\ gv.witness.b \in Vectors(TwoTo[n])
             /\ gv.claim.product = InnerProductOf(gv.witness.a, gv.witness.b)
             /\ LogLen(TwoTo[n]) = n
<1> DEFINE n == gv.claim.logLen
<1>1. n \in Nat
  BY DEF Givens, Claims
<1>2. 2 ^ n = TwoTo[n] /\ TwoTo[n] \in Nat /\ TwoTo[n] > 0 /\ LogLen(TwoTo[n]) = n
  <2>1. 2 ^ n = TwoTo[n]
    BY <1>1 DEF TwoTo
  <2> HIDE DEF n
  <2> QED
    BY <1>1, <2>1, TwoToFacts, LogLenOfPower
<1>3. ClaimLen(gv.claim) # {}
  BY DEF Ready, ProveError
<1>4. n < WordBits /\ ClaimLen(gv.claim) = {TwoTo[n]}
  BY <1>2, <1>3 DEF ClaimLen
<1>5. /\ SupportsLen(gv.setup, TwoTo[n])
      /\ Len(gv.witness.a) = TwoTo[n] /\ Len(gv.witness.b) = TwoTo[n]
  BY <1>4 DEF Ready, ProveError
<1>6. gv.claim.product = InnerProductOf(gv.witness.a, gv.witness.b)
  BY DEF Ready, ProveError
<1>7. gv.witness.a \in Vectors(TwoTo[n]) /\ gv.witness.b \in Vectors(TwoTo[n])
  BY <1>5 DEF Givens, Vectors
<1>8. TwoTo[n] <= Len(gv.setup.g) /\ TwoTo[n] <= Len(gv.setup.h)
  <2>1. gv.setup \in Setups
    BY DEF Givens
  <2>2. Len(gv.setup.g) \in Nat /\ Len(gv.setup.h) \in Nat
    BY <2>1, SetupFacts
  <2> QED
    BY <1>2, <1>5, <2>2 DEF SupportsLen
<1> QED
  BY <1>1, <1>2, <1>4, <1>5, <1>6, <1>7, <1>8

TrueOf(gv) == gv.claim \in NewWithClaim(gv.setup, gv.claim.y, gv.witness)

LEMMA TrueIsReady ==
  ASSUME NEW gv \in Givens, TrueOf(gv)
  PROVE  /\ Ready(gv)
         /\ gv.claim.commitment = CommitmentOf(gv.setup, gv.claim.y, gv.witness)
<1> DEFINE l == Len(gv.witness.a)
           n == gv.claim.logLen
<1>1. /\ l \in Nat /\ l < 2 ^ WordBits /\ Len(gv.witness.b) = l /\ n \in Nat
  BY DEF Givens, Claims
<1>2. SupportsLen(gv.setup, l)
  BY DEF TrueOf, NewWithClaim
<1>3. /\ gv.claim.commitment = CommitmentOf(gv.setup, gv.claim.y, gv.witness)
      /\ gv.claim.product = InnerProductOf(gv.witness.a, gv.witness.b)
      /\ n = LogLen(l)
  BY <1>2 DEF TrueOf, NewWithClaim
<1>4. IsPowerOfTwo(l)
  BY <1>2 DEF SupportsLen
<1>5. PICK k \in Nat : l = TwoTo[k] /\ LogLen(l) = k
  <2> HIDE DEF l
  <2> QED
    BY <1>1, <1>4, PowerFound
<1>6. n = k /\ 2 ^ n = l
  <2>1. 2 ^ k = TwoTo[k]
    BY <1>5 DEF TwoTo
  <2> QED
    BY <1>3, <1>5, <2>1
<1>7. n < WordBits
  <2>1. WordBits \in Nat /\ TwoTo[WordBits] = 2 ^ WordBits
    BY WordAssumption DEF TwoTo
  <2>2. TwoTo[k] < TwoTo[WordBits] /\ TwoTo[k] \in Nat /\ TwoTo[WordBits] \in Nat
    BY <1>1, <1>5, <2>1, TwoToFacts
  <2>3. WordBits < k => TwoTo[WordBits] < TwoTo[k]
    BY <1>5, <2>1, TwoToGrows
  <2>4. WordBits # k
    BY <2>2
  <2> QED
    BY <1>5, <1>6, <2>1, <2>2, <2>3, <2>4
<1>8. ClaimLen(gv.claim) = {l}
  BY <1>6, <1>7 DEF ClaimLen
<1> QED
  BY <1>1, <1>2, <1>3, <1>8 DEF Ready, ProveError

\* With the product and the length right, the commitment decides.
LEMMA ReadyIsTrue ==
  ASSUME NEW gv \in Givens, Ready(gv),
         gv.claim.commitment = CommitmentOf(gv.setup, gv.claim.y, gv.witness)
  PROVE  TrueOf(gv)
<1> DEFINE n == gv.claim.logLen
<1>1. /\ SupportsLen(gv.setup, TwoTo[n]) /\ gv.witness.a \in Vectors(TwoTo[n])
      /\ gv.claim.product = InnerProductOf(gv.witness.a, gv.witness.b)
      /\ LogLen(TwoTo[n]) = n
  BY ReadyFacts
<1>2. Len(gv.witness.a) = TwoTo[n]
  BY <1>1 DEF Vectors
<1>3. gv.claim = [commitment |-> gv.claim.commitment, product |-> gv.claim.product,
                  y |-> gv.claim.y, logLen |-> gv.claim.logLen]
  BY DEF Givens, Claims
<1>4. NewWithClaim(gv.setup, gv.claim.y, gv.witness)
        = {[commitment |-> gv.claim.commitment, product |-> gv.claim.product,
            y |-> gv.claim.y, logLen |-> gv.claim.logLen]}
  BY <1>1, <1>2 DEF NewWithClaim
<1> QED
  BY <1>3, <1>4 DEF TrueOf

\* The prover's vectors and generators before the first round,
Beginning(gv) ==
  [a |-> gv.witness.a, b |-> gv.witness.b,
   g |-> LeftGenerators(gv.setup, TwoTo[gv.claim.logLen]),
   h |-> WeightedHGenerators(gv.setup, TwoTo[gv.claim.logLen], gv.claim.y)]

\* and what the claim says about them.
Claimed(gv, q) == Plus(gv.claim.commitment, Scale(q, gv.claim.product))

\* The first generators stay apart.
Apart(s, setup) ==
  /\ Pivot(s.g, setup.g[1]) /\ Absent(s.g, setup.h[1])
  /\ Pivot(s.h, setup.h[1]) /\ Absent(s.h, setup.g[1])

LEMMA BeginningFacts ==
  ASSUME NEW gv \in Givens, Ready(gv), NEW q \in Pts
  PROVE  /\ Beginning(gv) \in States(TwoTo[gv.claim.logLen])
         /\ Apart(Beginning(gv), gv.setup)
         /\ gv.setup.g[1] \in Bases /\ gv.setup.h[1] \in Bases
         /\ BasePoint(gv.setup.q)[gv.setup.g[1]] = 0
         /\ BasePoint(gv.setup.q)[gv.setup.h[1]] = 0
         /\ BasePoint(gv.setup.q) \in Pts
         /\ Claimed(gv, q) \in Pts
         /\ Claimed(gv, q) = Committed(Beginning(gv), q) <=> TrueOf(gv)
<1> DEFINE n == TwoTo[gv.claim.logLen]
           left == LeftGenerators(gv.setup, n)
           right == WeightedHGenerators(gv.setup, n, gv.claim.y)
           a == gv.witness.a
           b == gv.witness.b
           c == CommitmentOf(gv.setup, gv.claim.y, gv.witness)
           p == gv.claim.product
           m == gv.claim.commitment
           s == Beginning(gv)
<1>1. /\ n \in Nat /\ n > 0 /\ n <= Len(gv.setup.g) /\ n <= Len(gv.setup.h)
      /\ a \in Vectors(n) /\ b \in Vectors(n) /\ p = InnerProductOf(a, b)
  BY ReadyFacts
<1>2. gv.setup \in Setups /\ gv.claim.y \in Scalars /\ m \in Pts
  BY DEF Givens, Claims
<1>3. left \in PointVectors(n) /\ right \in PointVectors(n)
  <2> HIDE DEF n
  <2> QED
    BY <1>1, <1>2, GeneratorsType
<1>4. /\ gv.setup.g[1] \in Bases /\ gv.setup.h[1] \in Bases
      /\ Pivot(left, gv.setup.g[1]) /\ Absent(left, gv.setup.h[1])
      /\ Pivot(right, gv.setup.h[1]) /\ Absent(right, gv.setup.g[1])
      /\ BasePoint(gv.setup.q)[gv.setup.g[1]] = 0
      /\ BasePoint(gv.setup.q)[gv.setup.h[1]] = 0
  <2> HIDE DEF n
  <2> QED
    BY <1>1, <1>2, GeneratorsIndependent
<1>5. s = [a |-> a, b |-> b, g |-> left, h |-> right]
  BY DEF Beginning
<1>6. Len(a) = n /\ Len(b) = n
  BY <1>1 DEF Vectors
<1>7. c = Plus(Msm(left, a), Msm(right, b))
  BY <1>6 DEF CommitmentOf
<1>8. Claimed(gv, q) = Plus(m, Scale(q, p))
  BY DEF Claimed
<1>9. BasePoint(gv.setup.q) \in Pts
  <2>1. gv.setup.q \in Bases
    BY <1>2, SetupFacts
  <2> QED
    BY <1>1, <1>2, <2>1, PointsClosed, ResiduesAreIntegers
<1>10. (c = m) <=> TrueOf(gv)
  BY ReadyIsTrue, TrueIsReady
<1> HIDE DEF n, left, right, a, b, c, p, m, s
<1>11. s \in States(n) /\ Apart(s, gv.setup)
  BY <1>1, <1>3, <1>4, <1>5 DEF States, Apart
<1>12. Committed(s, q) = Plus(c, Scale(q, p))
  BY <1>1, <1>5, <1>7 DEF Committed
<1>13. Msm(left, a) \in Pts /\ Msm(right, b) \in Pts /\ p \in Scalars
  BY <1>1, <1>3, MsmCoefficient, ProductsType
<1>14. c \in Pts /\ Scale(q, p) \in Pts
  <2>1. c \in Pts
    BY <1>7, <1>13, PlusSwap
  <2> QED
    BY <1>13, <2>1, PointsClosed
<1>15. Claimed(gv, q) \in Pts
  BY <1>2, <1>8, <1>14, PlusSwap
<1>16. Claimed(gv, q) = Committed(s, q) <=> TrueOf(gv)
  BY <1>2, <1>8, <1>10, <1>12, <1>14, PlusCancel
<1> QED
  BY <1>4, <1>9, <1>11, <1>15, <1>16 DEF n, s

----------------------------------------------------------------------------
(* The invariant *)

Pairs == [l : Pts, r : Pts]
Proofs == [points : Seq(Pairs), a : Scalars, b : Scalars]
Sends == [phase : {"sent"}, setup : Setups, claim : Claims, proof : Proofs]

\* What the prover's vectors and generators were before each of its rounds: they
\* were folded by the challenges of its transcript, and gave the points.
Chain(s, gv, p) ==
  /\ s[1] = Beginning(gv)
  /\ \A k \in 1 .. (Len(p.points) + 1) :
       s[k] \in States(TwoTo[gv.claim.logLen + 1 - k]) /\ Apart(s[k], gv.setup)
  /\ \A k \in 1 .. Len(p.points) :
       LET x == ChallengeAt(p.transcript, k)
       IN  /\ s[k + 1] = FoldedState(s[k], x, Invert(x))
           /\ p.points[k] = [l |-> LeftPoint(s[k], p.q), r |-> RightPoint(s[k], p.q)]
  /\ s[Len(p.points) + 1] = [a |-> p.a, b |-> p.b, g |-> p.g, h |-> p.h]

Proving(gv, p) ==
  /\ Ready(gv)
  /\ p = [phase |-> p.phase, transcript |-> p.transcript, q |-> p.q,
          a |-> p.a, b |-> p.b, g |-> p.g, h |-> p.h, points |-> p.points]
  /\ p.points \in Seq(Pairs) /\ Len(p.points) <= gv.claim.logLen
  /\ Records(p.transcript, gv.setup, gv.claim, p.points, Len(p.points))
  /\ p.q = Scale(BasePoint(gv.setup.q), ChallengeAt(p.transcript, 0))

\* The oracle gave the prover its challenges.
Knows(o, t, r) ==
  /\ <<SubSeq(t, 1, 7), "product-binding">> \in DOMAIN o
  /\ o[<<SubSeq(t, 1, 7), "product-binding">>] = ChallengeAt(t, 0)
  /\ \A k \in 1 .. r : /\ <<SubSeq(t, 1, 7 + 4 * k), "round">> \in DOMAIN o
                       /\ o[<<SubSeq(t, 1, 7 + 4 * k), "round">>] = ChallengeAt(t, k)

Tracks(s, p, tr) ==
  tr = [k \in 1 .. (IF p.phase = "done" THEN Len(p.points) + 1 ELSE Len(p.points)) |->
          [a |-> s[k].a, b |-> s[k].b]]

Active(v) == v.phase \in {"rounds", "accepted", "rejected"}

Matches(gv, p, rc) ==
  rc.setup = gv.setup /\ rc.claim = gv.claim /\ rc.proof.points = p.points

\* A verifier that was given what the prover gave goes through the same rounds,
\* and is as far from the commitment as the claim is.
Follows(s, gv, p, v) ==
  /\ v.transcript = SubSeq(p.transcript, 1, 5 + 4 * v.round)
  /\ v.q = p.q /\ v.g = s[v.round].g /\ v.h = s[v.round].h
  /\ v.folded \in Pts
  /\ Plus(v.folded, Committed(s[1], p.q)) = Plus(Committed(s[v.round], p.q), Claimed(gv, p.q))

Verifying(rc, v) ==
  /\ v = [phase |-> v.phase, transcript |-> v.transcript, q |-> v.q, folded |-> v.folded,
          g |-> v.g, h |-> v.h, round |-> v.round]
  /\ Acceptable(rc.setup, rc.claim, rc.proof)
  /\ v.round \in 1 .. (Len(rc.proof.points) + 1)
  /\ v.phase # "rounds" => v.round = Len(rc.proof.points) + 1
  /\ v.phase = "accepted" => v.folded = Expected(v, rc.proof)
  /\ v.phase = "rejected" => v.folded # Expected(v, rc.proof)
  /\ Records(v.transcript, rc.setup, rc.claim, rc.proof.points, v.round - 1)

SentBy(gv, p) ==
  [phase |-> "sent", setup |-> gv.setup, claim |-> gv.claim,
   proof |-> [points |-> p.points, a |-> p.a[1], b |-> p.b[1]]]

GivenInv == given \in Givens

OracleInv == \A question \in DOMAIN oracle : oracle[question] \in Scalars \ {0}

PhaseInv ==
  /\ \/ prover = Idle /\ trail = <<>>
     \/ prover.phase = "refused" /\ ~Ready(given)
     \/ prover.phase \in {"rounds", "done"}
  /\ prover.phase # "done" => sent = Idle
  /\ sent = Idle => received = Idle
  /\ received = Idle => verifier = Idle
  /\ \/ verifier = Idle
     \/ /\ verifier.phase = "refused"
        /\ ~Acceptable(received.setup, received.claim, received.proof)
     \/ Active(verifier)

History(s) ==
  /\ Chain(s, given, prover) /\ Tracks(s, prover, trail)
  /\ Active(verifier) /\ Matches(given, prover, received) =>
       Follows(s, given, prover, verifier)

ProverInv ==
  prover.phase \in {"rounds", "done"} =>
    /\ Proving(given, prover)
    /\ Knows(oracle, prover.transcript, Len(prover.points))
    /\ \E s : History(s)

SentInv ==
  prover.phase = "done" =>
    Len(prover.points) = given.claim.logLen /\ sent = SentBy(given, prover)

ReceivedInv ==
  received # Idle =>
    /\ received \in Sends
    /\ \/ Len(received.proof.points) = Len(sent.proof.points)
       \/ received.claim.logLen = sent.claim.logLen

VerifierInv == Active(verifier) => Verifying(received, verifier)

IInv ==
  /\ GivenInv /\ OracleInv /\ PhaseInv /\ ProverInv
  /\ SentInv /\ ReceivedInv /\ VerifierInv

LEMMA ClaimType ==
  ASSUME NEW setup \in Setups, NEW y \in Scalars,
         NEW w \in [a : Seq(Scalars), b : Seq(Scalars)], Len(w.b) = Len(w.a),
         NEW claim \in NewWithClaim(setup, y, w)
  PROVE  claim \in Claims /\ Misstated(claim) \subseteq Claims
<1> DEFINE n == Len(w.a)
           left == LeftGenerators(setup, n)
           right == WeightedHGenerators(setup, n, y)
<1>1. n \in Nat /\ w.a \in Vectors(n) /\ w.b \in Vectors(n)
  BY DEF Vectors
<1>2. SupportsLen(setup, n)
  BY DEF NewWithClaim
<1>3. n <= Len(setup.g) /\ n <= Len(setup.h) /\ IsPowerOfTwo(n)
  <2>1. setup.g \in Seq(Bases) /\ setup.h \in Seq(Bases)
    BY SetupFacts
  <2> QED
    BY <1>1, <1>2, <2>1 DEF SupportsLen
<1>4. claim = [commitment |-> CommitmentOf(setup, y, w),
               product |-> InnerProductOf(w.a, w.b), y |-> y, logLen |-> LogLen(n)]
  BY <1>2 DEF NewWithClaim
<1>5. CommitmentOf(setup, y, w) = Plus(Msm(left, w.a), Msm(right, w.b))
  BY DEF CommitmentOf
<1> HIDE DEF n
<1>6. left \in PointVectors(n) /\ right \in PointVectors(n)
  BY <1>1, <1>3, GeneratorsType
<1> HIDE DEF left, right
<1>7. Msm(left, w.a) \in Pts /\ Msm(right, w.b) \in Pts
  BY <1>1, <1>6, MsmCoefficient
<1>8. CommitmentOf(setup, y, w) \in Pts
  BY <1>5, <1>7, PlusSwap
<1>9. InnerProductOf(w.a, w.b) \in Scalars
  BY <1>1, ProductsType
<1>10. LogLen(n) \in Nat
  BY <1>1, <1>3, PowerFound
<1>11. claim \in Claims
  BY <1>4, <1>8, <1>9, <1>10 DEF Claims
<1>12. ASSUME NEW c \in Misstated(claim) PROVE c \in Claims
  <2>1. /\ claim.commitment \in Pts /\ claim.product \in Scalars /\ claim.y \in Scalars
        /\ 1 \in Scalars
    BY <1>11, ResiduesAreIntegers DEF Claims
  <2>2. \A base \in Bases : BasePoint(base) \in Pts
    BY ResiduesAreIntegers DEF BasePoint, NoPoint, Pts
  <2>3. /\ \A base \in Bases : Plus(claim.commitment, BasePoint(base)) \in Pts
        /\ Add(claim.product, 1) \in Scalars /\ Add(claim.y, 1) \in Scalars
    BY <2>1, <2>2, PlusSwap, ScalarRules
  <2>4. \A n2 \in 0 .. WordBits : n2 \in Nat
    BY WordAssumption
  <2>5. CASE c \in {[claim EXCEPT !.commitment = Plus(@, BasePoint(base))] : base \in Bases}
    BY <1>11, <2>3, <2>5 DEF Claims
  <2>6. CASE c \in {[claim EXCEPT !.product = Add(@, 1)], [claim EXCEPT !.y = Add(@, 1)]}
    BY <1>11, <2>3, <2>6 DEF Claims
  <2>7. CASE c \in {[claim EXCEPT !.logLen = n2] : n2 \in 0 .. WordBits}
    BY <1>11, <2>4, <2>7 DEF Claims
  <2> QED
    BY <2>5, <2>6, <2>7 DEF Misstated
<1> QED
  BY <1>11, <1>12

LEMMA InitIInv == Init => IInv
<1> SUFFICES ASSUME Init PROVE IInv
  OBVIOUS
<1>1. given \in Givens
  <2>1. PICK case \in Cases :
          \E claim \in NewWithClaim(case.setup, case.y, case.witness) :
            given \in [setup : {case.setup}, witness : {case.witness},
                       claim : {claim} \cup Misstated(claim)]
    BY DEF Init
  <2>2. PICK claim \in NewWithClaim(case.setup, case.y, case.witness) :
            given \in [setup : {case.setup}, witness : {case.witness},
                       claim : {claim} \cup Misstated(claim)]
    BY <2>1
  <2>3. /\ case.setup \in Setups /\ case.y \in Scalars
        /\ case.witness \in [a : Seq(Scalars), b : Seq(Scalars)]
        /\ Len(case.witness.b) = Len(case.witness.a)
        /\ Len(case.witness.a) < 2 ^ WordBits
    BY CasesAssumption
  <2>4. claim \in Claims /\ Misstated(claim) \subseteq Claims
    BY <2>3, ClaimType
  <2> QED
    BY <2>2, <2>3, <2>4 DEF Givens
<1>2. prover = Idle /\ verifier = Idle /\ sent = Idle /\ received = Idle
      /\ oracle = <<>> /\ trail = <<>>
  BY DEF Init
<1>3. Idle.phase = "idle"
  BY DEF Idle
<1>4. OracleInv
  BY <1>2 DEF OracleInv
<1> QED
  BY <1>1, <1>2, <1>3, <1>4 DEF IInv, GivenInv, PhaseInv, ProverInv, SentInv, ReceivedInv,
     VerifierInv, Active

\* The prover's local variables when it has drawn the product's challenge.
Started(gv, c) ==
  [phase      |-> "rounds",
   transcript |-> AfterChallenge(Opening(gv.setup, gv.claim, Len(gv.witness.a)),
                                 "product-binding", c),
   q          |-> Scale(BasePoint(gv.setup.q), c),
   a          |-> gv.witness.a,
   b          |-> gv.witness.b,
   g          |-> LeftGenerators(gv.setup, Len(gv.witness.a)),
   h          |-> WeightedHGenerators(gv.setup, Len(gv.witness.a), gv.claim.y),
   points     |-> <<>>]

LEMMA StartedFacts ==
  ASSUME NEW gv \in Givens, Ready(gv), NEW c \in Scalars
  PROVE  LET p == Started(gv, c)
         IN  /\ p.phase = "rounds" /\ p.points = <<>> /\ Len(p.points) = 0
             /\ Proving(gv, p)
             /\ SubSeq(p.transcript, 1, 7) = Opening(gv.setup, gv.claim, Len(gv.witness.a))
             /\ ChallengeAt(p.transcript, 0) = c
             /\ \E s : Chain(s, gv, p) /\ Tracks(s, p, <<>>)
<1> DEFINE p == Started(gv, c)
           n == gv.claim.logLen
           o == Opening(gv.setup, gv.claim, Len(gv.witness.a))
           t == AfterChallenge(o, "product-binding", c)
           s == [k \in 1 .. 1 |-> Beginning(gv)]
<1>1. n \in Nat /\ Len(gv.witness.a) = TwoTo[n]
  BY ReadyFacts DEF Vectors
<1>2. p = [phase |-> p.phase, transcript |-> p.transcript, q |-> p.q,
           a |-> p.a, b |-> p.b, g |-> p.g, h |-> p.h, points |-> p.points]
  BY DEF Started
<1>3. /\ p.phase = "rounds" /\ p.points = <<>> /\ p.q = Scale(BasePoint(gv.setup.q), c)
      /\ p.transcript = t
  BY DEF Started
<1>4. [a |-> p.a, b |-> p.b, g |-> p.g, h |-> p.h] = Beginning(gv)
  BY <1>1 DEF Started, Beginning
<1> HIDE DEF p
<1>5. o = Opening(gv.setup, gv.claim, TwoTo[gv.claim.logLen])
  BY <1>1
<1>6. /\ Records(t, gv.setup, gv.claim, p.points, 0)
      /\ ChallengeAt(t, 0) = c
      /\ SubSeq(t, 1, 7) = o
  <2> HIDE DEF o, n
  <2> QED
    BY <1>5, RecordsStart
<1>7. p.points \in Seq(Pairs) /\ Len(p.points) = 0
  BY <1>3
<1> HIDE DEF t
<1>8. Proving(gv, p)
  BY <1>1, <1>2, <1>3, <1>6, <1>7 DEF Proving
<1>9. Scale(BasePoint(gv.setup.q), c) \in Pts
  <2>1. gv.setup.q \in Bases
    BY SetupFacts DEF Givens
  <2>2. BasePoint(gv.setup.q) \in Pts
    BY <2>1, ResiduesAreIntegers DEF BasePoint, NoPoint, Pts
  <2> QED
    BY <2>2, PointsClosed
<1>10. Beginning(gv) \in States(TwoTo[n]) /\ Apart(Beginning(gv), gv.setup)
  BY <1>9, BeginningFacts
<1>11. Chain(s, gv, p)
  <2>1. s[1] = Beginning(gv) /\ n + 1 - 1 = n /\ Len(p.points) + 1 = 1
    BY <1>1, <1>7
  <2>2. \A k \in 1 .. 1 : k = 1
    OBVIOUS
  <2> HIDE DEF s
  <2>3. \A k \in 1 .. (Len(p.points) + 1) :
          s[k] \in States(TwoTo[gv.claim.logLen + 1 - k]) /\ Apart(s[k], gv.setup)
    BY <1>10, <2>1, <2>2
  <2>4. 1 .. Len(p.points) = {}
    BY <1>7
  <2> QED
    BY <1>4, <2>1, <2>3, <2>4 DEF Chain
<1>12. Tracks(s, p, <<>>)
  <2>1. <<>> = [k \in 1 .. 0 |-> [a |-> s[k].a, b |-> s[k].b]]
    OBVIOUS
  <2> HIDE DEF s
  <2> QED
    BY <1>3, <1>7, <2>1 DEF Tracks
<1> HIDE DEF s
<1> QED
  BY <1>3, <1>6, <1>7, <1>8, <1>11, <1>12 DEF p, o

LEMMA ProverStartStep ==
  ASSUME IInv, ProverStart
  PROVE  IInv'
<1> DEFINE t == Opening(given.setup, given.claim, Len(given.witness.a))
           error == ProveError(given.setup, given.claim, given.witness)
<1>1. /\ prover = Idle /\ prover.phase = "idle"
      /\ UNCHANGED <<given, sent, received, verifier, trail>>
  BY DEF ProverStart, Idle
<1>2. /\ given \in Givens /\ OracleInv
      /\ sent = Idle /\ received = Idle /\ verifier = Idle /\ trail = <<>>
  BY <1>1 DEF IInv, GivenInv, PhaseInv
<1>3. verifier.phase = "idle" /\ sent.phase = "idle"
  BY <1>2 DEF Idle
<1>4. CASE error # "none" /\ prover' = Refused(error) /\ UNCHANGED oracle
  <2>1. prover'.phase = "refused" /\ ~Ready(given)
    BY <1>4 DEF Refused, Ready
  <2> QED
    BY <1>1, <1>2, <1>3, <1>4, <2>1 DEF IInv, GivenInv, OracleInv, PhaseInv, ProverInv,
       SentInv, ReceivedInv, VerifierInv, Active
<1>5. CASE /\ error = "none"
           /\ \E c \in Answers(oracle, t, "product-binding") :
                /\ oracle' = Asked(oracle, t, "product-binding", c)
                /\ prover' = Started(given, c)
  <2>1. PICK c \in Answers(oracle, t, "product-binding") :
             /\ oracle' = Asked(oracle, t, "product-binding", c)
             /\ prover' = Started(given, c)
    BY <1>5
  <2>2. Ready(given)
    BY <1>5 DEF Ready
  <2>3. /\ <<t, "product-binding">> \in DOMAIN oracle'
        /\ oracle'[<<t, "product-binding">>] = c
        /\ \A question \in DOMAIN oracle' : oracle'[question] \in Scalars \ {0}
        /\ c \in Scalars
    BY <1>2, <2>1, AskedKeeps DEF OracleInv
  <2> DEFINE p == Started(given, c)
  <2>4. /\ p.phase = "rounds" /\ Len(p.points) = 0
        /\ Proving(given, p)
        /\ SubSeq(p.transcript, 1, 7) = t
        /\ ChallengeAt(p.transcript, 0) = c
        /\ \E s : Chain(s, given, p) /\ Tracks(s, p, <<>>)
    BY <1>2, <2>2, <2>3, StartedFacts
  <2> HIDE DEF p, t
  <2>5. prover' = p
    BY <2>1 DEF p
  <2>6. Knows(oracle', p.transcript, Len(p.points))
    BY <2>3, <2>4 DEF Knows
  <2>7. ProverInv'
    <3>1. PICK s : Chain(s, given, p) /\ Tracks(s, p, <<>>)
      BY <2>4
    <3>2. History(s)'
      BY <1>1, <1>2, <1>3, <2>5, <3>1 DEF History, Active
    <3> QED
      BY <1>1, <2>4, <2>5, <2>6, <3>2 DEF ProverInv
  <2>8. OracleInv'
    BY <2>3 DEF OracleInv
  <2> QED
    BY <1>1, <1>2, <1>3, <2>4, <2>5, <2>7, <2>8 DEF IInv, GivenInv, PhaseInv,
       SentInv, ReceivedInv, VerifierInv, Active
<1>6. \/ error # "none" /\ prover' = Refused(error) /\ UNCHANGED oracle
      \/ /\ error = "none"
         /\ \E c \in Answers(oracle, t, "product-binding") :
              /\ oracle' = Asked(oracle, t, "product-binding", c)
              /\ prover' = Started(given, c)
  BY DEF ProverStart, Started
<1> QED
  BY <1>4, <1>5, <1>6

\* The prover's vectors and generators, and the points of a round.
Now(p) == [a |-> p.a, b |-> p.b, g |-> p.g, h |-> p.h]
PointOf(p) == [l |-> LeftPoint(Now(p), p.q), r |-> RightPoint(Now(p), p.q)]

Stepped(p, x) ==
  [p EXCEPT !.transcript = AfterChallenge(CommitRound(p.transcript, PointOf(p)), "round", x),
            !.a = FoldScalars(@, x, Invert(x)),
            !.b = FoldScalars(@, Invert(x), x),
            !.g = FoldPoints(@, Invert(x), x),
            !.h = FoldPoints(@, x, Invert(x)),
            !.points = Append(@, PointOf(p))]

\* The rounds so far halved the vectors so many times.
LEMMA ChainSize ==
  ASSUME NEW gv \in Givens, NEW p, NEW s, Proving(gv, p), Chain(s, gv, p)
  PROVE  LET n == gv.claim.logLen
             r == Len(p.points)
         IN  /\ n \in Nat /\ r \in Nat /\ n - r \in Nat /\ n - r = n + 1 - (r + 1)
             /\ Now(p) \in States(TwoTo[n - r]) /\ Apart(Now(p), gv.setup)
             /\ Len(p.a) = TwoTo[n - r]
<1> DEFINE n == gv.claim.logLen
           r == Len(p.points)
<1>1. n \in Nat /\ r \in Nat /\ r <= n
  BY DEF Givens, Claims, Proving
<1>2. n - r \in Nat /\ n - r = n + 1 - (r + 1) /\ r + 1 \in 1 .. (r + 1)
  BY <1>1
<1>3. s[r + 1] = Now(p) /\ s[r + 1] \in States(TwoTo[n + 1 - (r + 1)])
      /\ Apart(s[r + 1], gv.setup)
  BY <1>2 DEF Chain, Now
<1>4. Now(p) \in States(TwoTo[n - r]) /\ Apart(Now(p), gv.setup)
  BY <1>2, <1>3
<1>5. Len(Now(p).a) = TwoTo[n - r]
  BY <1>4 DEF States, Vectors
<1>6. Now(p).a = p.a
  BY DEF Now
<1> QED
  BY <1>1, <1>2, <1>4, <1>5, <1>6

LEMMA ProductBase ==
  ASSUME NEW gv \in Givens, NEW p, Proving(gv, p), ChallengeAt(p.transcript, 0) \in Scalars
  PROVE  p.q \in Pts
<1>1. gv.setup.q \in Bases
  BY SetupFacts DEF Givens
<1>2. BasePoint(gv.setup.q) \in Pts
  BY <1>1, ResiduesAreIntegers DEF BasePoint, NoPoint, Pts
<1>3. p.q = Scale(BasePoint(gv.setup.q), ChallengeAt(p.transcript, 0))
  BY DEF Proving
<1> QED
  BY <1>2, <1>3, PointsClosed

\* A round changes every local variable but the base of the product.
ProverLocals(phase, t, q, a, b, g, h, points) ==
  [phase |-> phase, transcript |-> t, q |-> q, a |-> a, b |-> b, g |-> g, h |-> h,
   points |-> points]

ProverAfter(p, t, a, b, g, h, points) ==
  [p EXCEPT !.transcript = t, !.a = a, !.b = b, !.g = g, !.h = h, !.points = points]

LEMMA ProverUpdate ==
  ASSUME NEW phase, NEW t, NEW q, NEW a, NEW b, NEW g, NEW h, NEW points, NEW newT, NEW
         newA, NEW newB, NEW newG, NEW newH, NEW newPoints
  PROVE  ProverAfter(ProverLocals(phase, t, q, a, b, g, h, points),
                     newT, newA, newB, newG, newH, newPoints)
           = ProverLocals(phase, newT, q, newA, newB, newG, newH, newPoints)
<1> DEFINE p == ProverLocals(phase, t, q, a, b, g, h, points)
           p1 == [p EXCEPT !.transcript = newT]
           p2 == [p1 EXCEPT !.a = newA]
           p3 == [p2 EXCEPT !.b = newB]
           p4 == [p3 EXCEPT !.g = newG]
           p5 == [p4 EXCEPT !.h = newH]
           p6 == [p5 EXCEPT !.points = newPoints]
<1>1. p1 = ProverLocals(phase, newT, q, a, b, g, h, points)
  BY DEF ProverLocals
<1> HIDE DEF p1
<1>2. p2 = ProverLocals(phase, newT, q, newA, b, g, h, points)
  BY <1>1 DEF ProverLocals
<1> HIDE DEF p2
<1>3. p3 = ProverLocals(phase, newT, q, newA, newB, g, h, points)
  BY <1>2 DEF ProverLocals
<1> HIDE DEF p3
<1>4. p4 = ProverLocals(phase, newT, q, newA, newB, newG, h, points)
  BY <1>3 DEF ProverLocals
<1> HIDE DEF p4
<1>5. p5 = ProverLocals(phase, newT, q, newA, newB, newG, newH, points)
  BY <1>4 DEF ProverLocals
<1> HIDE DEF p5
<1>6. p6 = ProverLocals(phase, newT, q, newA, newB, newG, newH, newPoints)
  BY <1>5 DEF ProverLocals
<1> HIDE DEF p6
<1>7. ProverAfter(p, newT, newA, newB, newG, newH, newPoints) = p6
  BY DEF ProverAfter, p1, p2, p3, p4, p5, p6
<1> QED
  BY <1>6, <1>7

\* The vectors of the first r states.
VectorsOf(s, r) == [k \in 1 .. r |-> [a |-> s[k].a, b |-> s[k].b]]

LEMMA VectorsMore ==
  ASSUME NEW s, NEW r \in Nat
  PROVE  Append(VectorsOf(s, r), [a |-> s[r + 1].a, b |-> s[r + 1].b]) = VectorsOf(s, r + 1)
<1> DEFINE e(k) == [a |-> s[k].a, b |-> s[k].b]
           now == VectorsOf(s, r)
           next == VectorsOf(s, r + 1)
<1>1. ASSUME NEW n \in Nat PROVE Listed(VectorsOf(s, n)) /\ Len(VectorsOf(s, n)) = n
  <2> DEFINE V == {e(k) : k \in 1 .. n}
             f == [k \in 1 .. n |-> e(k)]
  <2>1. \A k \in 1 .. n : e(k) \in V
    OBVIOUS
  <2>2. f = VectorsOf(s, n)
    BY DEF VectorsOf
  <2> HIDE DEF V, e
  <2>3. f \in Seq(V) /\ Len(f) = n
    BY <2>1
  <2> HIDE DEF f
  <2> QED
    BY <2>2, <2>3 DEF Listed
<1>2. /\ \A k \in 1 .. r : now[k] = e(k)
      /\ \A k \in 1 .. (r + 1) : next[k] = e(k)
  BY DEF VectorsOf
<1>3. /\ Listed(now) /\ Len(now) = r /\ Listed(next) /\ Len(next) = r + 1
  BY <1>1
<1> HIDE DEF e, now, next
<1> DEFINE f == e(r + 1)
           more == Append(now, f)
<1>4. f = e(r + 1)
  OBVIOUS
<1> HIDE DEF f
<1>5. /\ Listed(more) /\ Len(more) = r + 1 /\ more[r + 1] = f
      /\ \A k \in 1 .. r : more[k] = now[k]
  BY <1>3, ListedAppend
<1> HIDE DEF more
<1>6. ASSUME NEW k \in 1 .. (r + 1) PROVE more[k] = next[k]
  <2>1. k = r + 1 \/ k \in 1 .. r
    OBVIOUS
  <2> QED
    BY <1>2, <1>4, <1>5, <2>1
<1>7. more = next
  BY <1>3, <1>5, <1>6, ListedEqual
<1> QED
  BY <1>4, <1>7 DEF more, next, now, e

LEMMA SteppedFacts ==
  ASSUME NEW gv \in Givens, NEW p, NEW s, NEW x \in Scalars \ {0}, NEW tr,
         Proving(gv, p), p.phase = "rounds", Chain(s, gv, p), Tracks(s, p, tr), Len(p.a) > 1,
         ChallengeAt(p.transcript, 0) \in Scalars
  PROVE  LET next == Stepped(p, x)
             t == p.transcript
             u == next.transcript
             r == Len(p.points)
         IN  /\ next.phase = "rounds" /\ r \in Nat /\ Len(next.points) = r + 1
             /\ Proving(gv, next)
             /\ \E s2 : Chain(s2, gv, next) /\ Tracks(s2, next, Append(tr, [a |-> p.a, b |-> p.b]))
             /\ \A k \in 0 .. r : ChallengeAt(u, k) = ChallengeAt(t, k)
             /\ ChallengeAt(u, r + 1) = x
             /\ SubSeq(u, 1, 7 + 4 * (r + 1)) = CommitRound(t, PointOf(p))
             /\ SubSeq(u, 1, 7) = SubSeq(t, 1, 7)
             /\ \A k \in 1 .. r : SubSeq(u, 1, 7 + 4 * k) = SubSeq(t, 1, 7 + 4 * k)
<1> DEFINE next == Stepped(p, x)
           t == p.transcript
           u == next.transcript
           r == Len(p.points)
           n == gv.claim.logLen
           xi == Invert(x)
           point == PointOf(p)
           now == Now(p)
           folded == FoldedState(now, x, xi)
           s2 == [k \in 1 .. (r + 2) |-> IF k = r + 2 THEN folded ELSE s[k]]
<1>1. /\ n \in Nat /\ r \in Nat /\ n - r \in Nat
      /\ now \in States(TwoTo[n - r]) /\ Apart(now, gv.setup)
      /\ Len(p.a) = TwoTo[n - r]
  BY ChainSize
<1>2. p = [phase |-> "rounds", transcript |-> p.transcript, q |-> p.q,
           a |-> p.a, b |-> p.b, g |-> p.g, h |-> p.h, points |-> p.points]
  BY DEF Proving
<1>3. next = [phase |-> "rounds",
              transcript |-> AfterChallenge(CommitRound(t, point), "round", x),
              q |-> p.q,
              a |-> FoldScalars(p.a, x, xi), b |-> FoldScalars(p.b, xi, x),
              g |-> FoldPoints(p.g, xi, x), h |-> FoldPoints(p.h, x, xi),
              points |-> Append(p.points, point)]
  <2> DEFINE nt == AfterChallenge(CommitRound(t, point), "round", x)
             na == FoldScalars(p.a, x, xi)
             nb == FoldScalars(p.b, xi, x)
             ng == FoldPoints(p.g, xi, x)
             nh == FoldPoints(p.h, x, xi)
             np == Append(p.points, point)
  <2>1. next = ProverAfter(p, nt, na, nb, ng, nh, np)
    BY DEF Stepped, ProverAfter
  <2> HIDE DEF nt, na, nb, ng, nh, np
  <2>2. p = ProverLocals("rounds", p.transcript, p.q, p.a, p.b, p.g, p.h, p.points)
    BY <1>2 DEF ProverLocals
  <2>3. ProverAfter(p, nt, na, nb, ng, nh, np)
          = ProverLocals("rounds", nt, p.q, na, nb, ng, nh, np)
    BY <2>2, ProverUpdate
  <2> QED
    BY <2>1, <2>3 DEF ProverLocals, nt, na, nb, ng, nh, np
<1>4. folded = [a |-> FoldScalars(p.a, x, xi), b |-> FoldScalars(p.b, xi, x),
                g |-> FoldPoints(p.g, xi, x), h |-> FoldPoints(p.h, x, xi)]
  BY DEF FoldedState, Now
<1>5. point = [l |-> LeftPoint(now, p.q), r |-> RightPoint(now, p.q)]
  BY DEF PointOf
<1> HIDE DEF next, point, now, folded
<1>6. /\ next.phase = "rounds" /\ next.q = p.q /\ next.points = Append(p.points, point)
      /\ u = AfterChallenge(CommitRound(t, point), "round", x)
      /\ [a |-> next.a, b |-> next.b, g |-> next.g, h |-> next.h] = folded
  BY <1>3, <1>4
<1>7. /\ next = [phase |-> next.phase, transcript |-> next.transcript, q |-> next.q,
                 a |-> next.a, b |-> next.b, g |-> next.g, h |-> next.h,
                 points |-> next.points]
  BY <1>3
<1>8. PICK m \in Nat : m > 0 /\ TwoTo[n - r] = 2 * m /\ m = TwoTo[n - r - 1] /\ n - r - 1 \in Nat
  <2>1. n - r # 0
    <3>1. TwoTo[0] = 1
      BY TwoToFacts
    <3> QED
      BY <1>1, <3>1
  <2>2. n - r - 1 \in Nat /\ (n - r - 1) + 1 = n - r
    BY <1>1, <2>1
  <2>3. /\ TwoTo[n - r - 1] \in Nat /\ TwoTo[n - r - 1] > 0
        /\ TwoTo[(n - r - 1) + 1] = 2 * TwoTo[n - r - 1]
    BY <2>2, TwoToFacts
  <2> QED
    BY <2>2, <2>3
<1>9. x \in Scalars /\ x # 0 /\ xi \in Scalars /\ Mul(x, xi) = 1 /\ xi # 0
  BY InvertFacts
<1>10. p.q \in Pts
  BY ProductBase
<1> HIDE DEF xi
<1>11. now \in States(2 * m)
  BY <1>1, <1>8
<1>12. folded \in States(m)
  BY <1>9, <1>11, FoldedStateType DEF folded
<1>13. point \in Pairs
  <2>1. LeftPoint(now, p.q) \in Pts /\ RightPoint(now, p.q) \in Pts
    BY <1>9, <1>10, <1>11, RoundCommitment
  <2> QED
    BY <1>5, <2>1 DEF Pairs
<1>14. Apart(folded, gv.setup)
  <2>1. gv.setup.g[1] \in Bases /\ gv.setup.h[1] \in Bases
    BY <1>10, BeginningFacts DEF Proving
  <2>2. now.g \in PointVectors(2 * m) /\ now.h \in PointVectors(2 * m)
    BY <1>11 DEF States
  <2>3. /\ Pivot(now.g, gv.setup.g[1]) /\ Absent(now.g, gv.setup.h[1])
        /\ Pivot(now.h, gv.setup.h[1]) /\ Absent(now.h, gv.setup.g[1])
    BY <1>1 DEF Apart
  <2>4. folded.g = FoldPoints(now.g, xi, x) /\ folded.h = FoldPoints(now.h, x, xi)
    BY DEF folded, FoldedState
  <2>5. Pivot(folded.g, gv.setup.g[1])
    BY <1>8, <1>9, <2>1, <2>2, <2>3, <2>4, PivotFolds
  <2>6. Absent(folded.g, gv.setup.h[1])
    BY <1>8, <1>9, <2>1, <2>2, <2>3, <2>4, AbsentFolds
  <2>7. Pivot(folded.h, gv.setup.h[1])
    BY <1>8, <1>9, <2>1, <2>2, <2>3, <2>4, PivotFolds
  <2>8. Absent(folded.h, gv.setup.g[1])
    BY <1>8, <1>9, <2>1, <2>2, <2>3, <2>4, AbsentFolds
  <2> QED
    BY <2>5, <2>6, <2>7, <2>8 DEF Apart
<1>15. /\ next.points \in Seq(Pairs) /\ Len(next.points) = r + 1
       /\ next.points[r + 1] = point
       /\ \A k \in 1 .. r : next.points[k] = p.points[k]
  <2>1. p.points \in Seq(Pairs)
    BY DEF Proving
  <2> QED
    BY <1>6, <1>13, <2>1
<1>16. /\ Records(u, gv.setup, gv.claim, next.points, r + 1)
       /\ \A k \in 0 .. r : ChallengeAt(u, k) = ChallengeAt(t, k)
       /\ ChallengeAt(u, r + 1) = x
       /\ SubSeq(u, 1, 7 + 4 * (r + 1)) = CommitRound(t, point)
       /\ \A k \in 0 .. (9 + 4 * r) : SubSeq(u, 1, k) = SubSeq(t, 1, k)
  <2>1. Records(t, gv.setup, gv.claim, p.points, r)
    BY DEF Proving
  <2> DEFINE more == next.points
             asked == CommitRound(t, more[r + 1])
             new == AfterChallenge(asked, "round", x)
  <2>2. more[r + 1] = point /\ \A k \in 1 .. r : more[k] = p.points[k]
    BY <1>15
  <2>3. r \in Nat
    BY <1>1
  <2> HIDE DEF r, t, u, more
  <2>4. Records(t, gv.setup, gv.claim, more, r)
    BY <2>1, <2>2, <2>3, RecordsOfFirst
  <2>5. OneMore(new, t, gv.setup, gv.claim, more, r, x)
    BY <2>3, <2>4, RecordsStep
  <2> HIDE DEF new
  <2>6. u = new /\ asked = CommitRound(t, point)
    BY <1>6, <2>2 DEF new
  <2> QED
    BY <2>5, <2>6 DEF more, Continues, OneMore
<1>17. /\ SubSeq(u, 1, 7) = SubSeq(t, 1, 7)
       /\ \A k \in 1 .. r : SubSeq(u, 1, 7 + 4 * k) = SubSeq(t, 1, 7 + 4 * k)
  <2>1. 7 \in 0 .. (9 + 4 * r) /\ \A k \in 1 .. r : 7 + 4 * k \in 0 .. (9 + 4 * r)
    BY <1>1
  <2> HIDE DEF r, t, u
  <2> QED
    BY <1>16, <2>1
<1>18. Proving(gv, next)
  <2>1. r + 1 <= n
    BY <1>1, <1>8
  <2>2. ChallengeAt(u, 0) = ChallengeAt(t, 0)
    BY <1>1, <1>16
  <2> QED
    BY <1>6, <1>7, <1>15, <1>16, <2>1, <2>2 DEF Proving
<1>19. /\ \A k \in 1 .. (r + 1) : s2[k] = s[k]
       /\ s2[r + 2] = folded
  BY <1>1
<1>20. Chain(s2, gv, next)
  <2> HIDE DEF s2
  <2>1. s2[1] = Beginning(gv)
    BY <1>1, <1>19 DEF Chain
  <2>2. ASSUME NEW k \in 1 .. (r + 2)
        PROVE  s2[k] \in States(TwoTo[n + 1 - k]) /\ Apart(s2[k], gv.setup)
    <3>1. CASE k = r + 2
      <4>1. n + 1 - k = n - r - 1
        BY <1>1, <3>1
      <4> QED
        BY <1>8, <1>12, <1>14, <1>19, <3>1, <4>1
    <3>2. CASE k \in 1 .. (r + 1)
      BY <1>19, <3>2 DEF Chain
    <3> QED
      BY <1>1, <3>1, <3>2
  <2>3. s[r + 1] = now
    BY DEF Chain, now, Now
  <2>4. ASSUME NEW k \in 1 .. (r + 1)
        PROVE  /\ s2[k + 1] = FoldedState(s2[k], ChallengeAt(u, k), Invert(ChallengeAt(u, k)))
               /\ next.points[k] = [l |-> LeftPoint(s2[k], next.q),
                                    r |-> RightPoint(s2[k], next.q)]
    <3>1. CASE k = r + 1
      <4>1. k + 1 = r + 2 /\ s2[k] = now
        BY <1>1, <1>19, <2>3, <3>1
      <4> QED
        BY <1>5, <1>6, <1>15, <1>16, <1>19, <3>1, <4>1 DEF folded, xi
    <3>2. CASE k \in 1 .. r
      <4>1. s2[k] = s[k] /\ s2[k + 1] = s[k + 1] /\ k \in 0 .. r
        BY <1>1, <1>19, <3>2
      <4>2. ChallengeAt(u, k) = ChallengeAt(t, k) /\ next.points[k] = p.points[k]
        BY <1>15, <1>16, <3>2, <4>1
      <4>3. /\ s[k + 1] = FoldedState(s[k], ChallengeAt(t, k), Invert(ChallengeAt(t, k)))
            /\ p.points[k] = [l |-> LeftPoint(s[k], p.q), r |-> RightPoint(s[k], p.q)]
        BY <3>2 DEF Chain
      <4> QED
        BY <1>6, <4>1, <4>2, <4>3
    <3> QED
      BY <1>1, <3>1, <3>2
  <2>5. s2[(r + 1) + 1] = [a |-> next.a, b |-> next.b, g |-> next.g, h |-> next.h]
    <3>1. (r + 1) + 1 = r + 2
      BY <1>1
    <3> QED
      BY <1>6, <1>19, <3>1
  <2>6. Len(next.points) = r + 1 /\ (r + 1) + 1 = r + 2
    BY <1>1, <1>15
  <2> QED
    BY <2>1, <2>2, <2>4, <2>5, <2>6 DEF Chain
<1>21. Tracks(s2, next, Append(tr, [a |-> p.a, b |-> p.b]))
  <2> HIDE DEF s2
  <2>1. tr = VectorsOf(s, r)
    BY DEF Tracks, VectorsOf
  <2>2. VectorsOf(s2, r) = VectorsOf(s, r)
    BY <1>1, <1>19 DEF VectorsOf
  <2>3. s[r + 1].a = p.a /\ s[r + 1].b = p.b /\ s2[r + 1] = s[r + 1]
    BY <1>1, <1>19 DEF Chain
  <2>4. Append(VectorsOf(s2, r), [a |-> s2[r + 1].a, b |-> s2[r + 1].b]) = VectorsOf(s2, r + 1)
    BY <1>1, VectorsMore
  <2> QED
    BY <1>6, <1>15, <2>1, <2>2, <2>3, <2>4 DEF Tracks, VectorsOf
<1> HIDE DEF s2
<1> QED
  BY <1>1, <1>6, <1>15, <1>16, <1>17, <1>18, <1>20, <1>21 DEF next, point

\* The same for the verifier.
VerifierLocals(phase, t, q, folded, g, h, round) ==
  [phase |-> phase, transcript |-> t, q |-> q, folded |-> folded, g |-> g, h |-> h, round |-> round]

VerifierAfter(v, t, folded, g, h, round) ==
  [v EXCEPT !.transcript = t, !.folded = folded, !.g = g, !.h = h, !.round = round]

LEMMA VerifierUpdate ==
  ASSUME NEW phase, NEW t, NEW q, NEW folded, NEW g, NEW h, NEW round, NEW newT, NEW
         newFolded, NEW newG, NEW newH, NEW newRound
  PROVE  VerifierAfter(VerifierLocals(phase, t, q, folded, g, h, round),
                       newT, newFolded, newG, newH, newRound)
           = VerifierLocals(phase, newT, q, newFolded, newG, newH, newRound)
<1> DEFINE v == VerifierLocals(phase, t, q, folded, g, h, round)
           v1 == [v EXCEPT !.transcript = newT]
           v2 == [v1 EXCEPT !.folded = newFolded]
           v3 == [v2 EXCEPT !.g = newG]
           v4 == [v3 EXCEPT !.h = newH]
           v5 == [v4 EXCEPT !.round = newRound]
<1>1. v1 = VerifierLocals(phase, newT, q, folded, g, h, round)
  BY DEF VerifierLocals
<1> HIDE DEF v1
<1>2. v2 = VerifierLocals(phase, newT, q, newFolded, g, h, round)
  BY <1>1 DEF VerifierLocals
<1> HIDE DEF v2
<1>3. v3 = VerifierLocals(phase, newT, q, newFolded, newG, h, round)
  BY <1>2 DEF VerifierLocals
<1> HIDE DEF v3
<1>4. v4 = VerifierLocals(phase, newT, q, newFolded, newG, newH, round)
  BY <1>3 DEF VerifierLocals
<1> HIDE DEF v4
<1>5. v5 = VerifierLocals(phase, newT, q, newFolded, newG, newH, newRound)
  BY <1>4 DEF VerifierLocals
<1> HIDE DEF v5
<1>6. VerifierAfter(v, newT, newFolded, newG, newH, newRound) = v5
  BY DEF VerifierAfter, v1, v2, v3, v4, v5
<1> QED
  BY <1>5, <1>6

LEMMA ProverRoundStep ==
  ASSUME IInv, ProverRound
  PROVE  IInv'
<1> DEFINE p == prover
           t == CommitRound(p.transcript, PointOf(p))
           r == Len(p.points)
<1>1. /\ p.phase = "rounds" /\ Len(p.a) > 1
      /\ UNCHANGED <<given, sent, received, verifier>>
      /\ trail' = Append(trail, [a |-> p.a, b |-> p.b])
  BY DEF ProverRound
<1>2. RoundPoints = PointOf(p)
  BY DEF RoundPoints, PointOf, Now, LeftPoint, RightPoint
<1>3. PICK x \in Answers(oracle, t, "round") :
           oracle' = Asked(oracle, t, "round", x) /\ prover' = Stepped(p, x)
  BY <1>2 DEF ProverRound, Stepped
<1>4. /\ given \in Givens /\ OracleInv /\ Proving(given, p)
      /\ Knows(oracle, p.transcript, r)
      /\ sent = Idle /\ received = Idle /\ verifier = Idle
  BY <1>1 DEF IInv, GivenInv, PhaseInv, ProverInv
<1>5. PICK s : History(s)
  BY <1>1 DEF IInv, ProverInv
<1>6. Chain(s, given, p) /\ Tracks(s, p, trail)
  BY <1>5 DEF History
<1>7. ChallengeAt(p.transcript, 0) \in Scalars
  BY <1>4 DEF Knows, OracleInv
<1>8. LET n == oracle'
      IN  /\ \A question \in DOMAIN oracle :
               question \in DOMAIN n /\ n[question] = oracle[question]
          /\ <<t, "round">> \in DOMAIN n /\ n[<<t, "round">>] = x
          /\ \A question \in DOMAIN n : n[question] \in Scalars \ {0}
          /\ x \in Scalars \ {0}
  BY <1>3, <1>4, AskedKeeps DEF OracleInv
<1> DEFINE next == Stepped(p, x)
           u == next.transcript
<1>9. /\ next.phase = "rounds" /\ r \in Nat /\ Len(next.points) = r + 1
      /\ Proving(given, next)
      /\ \E s2 : Chain(s2, given, next) /\ Tracks(s2, next, trail')
      /\ \A k \in 0 .. r : ChallengeAt(u, k) = ChallengeAt(p.transcript, k)
      /\ ChallengeAt(u, r + 1) = x
      /\ SubSeq(u, 1, 7 + 4 * (r + 1)) = t
      /\ SubSeq(u, 1, 7) = SubSeq(p.transcript, 1, 7)
      /\ \A k \in 1 .. r : SubSeq(u, 1, 7 + 4 * k) = SubSeq(p.transcript, 1, 7 + 4 * k)
  BY <1>1, <1>4, <1>6, <1>7, <1>8, SteppedFacts
<1> HIDE DEF next, t
<1>10. prover' = next /\ prover'.phase = "rounds"
  BY <1>3, <1>9 DEF next
<1>11. verifier.phase = "idle" /\ ~Active(verifier)
  BY <1>4 DEF Idle, Active
<1>12. Knows(oracle', u, r + 1)
  <2>1. ASSUME NEW k \in 1 .. (r + 1)
        PROVE  /\ <<SubSeq(u, 1, 7 + 4 * k), "round">> \in DOMAIN oracle'
               /\ oracle'[<<SubSeq(u, 1, 7 + 4 * k), "round">>] = ChallengeAt(u, k)
    <3>1. CASE k = r + 1
      BY <1>8, <1>9, <3>1
    <3>2. CASE k \in 1 .. r
      <4>1. k \in 0 .. r
        BY <1>9, <3>2
      <4>2. /\ <<SubSeq(p.transcript, 1, 7 + 4 * k), "round">> \in DOMAIN oracle
            /\ oracle[<<SubSeq(p.transcript, 1, 7 + 4 * k), "round">>]
                 = ChallengeAt(p.transcript, k)
        BY <1>4, <3>2 DEF Knows
      <4> QED
        BY <1>8, <1>9, <3>2, <4>1, <4>2
    <3> QED
      BY <1>9, <3>1, <3>2, SMTT(30)
  <2>2. /\ <<SubSeq(u, 1, 7), "product-binding">> \in DOMAIN oracle'
        /\ oracle'[<<SubSeq(u, 1, 7), "product-binding">>] = ChallengeAt(u, 0)
    <3>1. 0 \in 0 .. r
      BY <1>9
    <3>2. /\ <<SubSeq(p.transcript, 1, 7), "product-binding">> \in DOMAIN oracle
          /\ oracle[<<SubSeq(p.transcript, 1, 7), "product-binding">>]
               = ChallengeAt(p.transcript, 0)
      BY <1>4 DEF Knows
    <3> QED
      BY <1>8, <1>9, <3>1, <3>2
  <2> QED
    BY <2>1, <2>2 DEF Knows
<1>13. ProverInv'
  <2>1. PICK s2 : Chain(s2, given, next) /\ Tracks(s2, next, trail')
    BY <1>9
  <2>2. History(s2)'
    BY <1>1, <1>10, <1>11, <2>1 DEF History, Active
  <2>3. Proving(given', prover') /\ Knows(oracle', prover'.transcript, Len(prover'.points))
    BY <1>1, <1>9, <1>10, <1>12
  <2> QED
    BY <2>2, <2>3 DEF ProverInv
<1>14. OracleInv'
  BY <1>8 DEF OracleInv
<1> QED
  BY <1>1, <1>4, <1>10, <1>11, <1>13, <1>14 DEF IInv, GivenInv, PhaseInv, SentInv, ReceivedInv,
     VerifierInv, Active

LEMMA ProverFinishStep ==
  ASSUME IInv, ProverFinish
  PROVE  IInv'
<1> DEFINE p == prover
           r == Len(p.points)
           n == given.claim.logLen
           next == [p EXCEPT !.phase = "done"]
<1>1. /\ p.phase = "rounds" /\ Len(p.a) = 1
      /\ UNCHANGED <<given, received, verifier, oracle>>
      /\ trail' = Append(trail, [a |-> p.a, b |-> p.b])
      /\ prover' = next /\ sent' = SentBy(given, p)
  BY DEF ProverFinish, SentBy
<1>2. /\ given \in Givens /\ OracleInv /\ Proving(given, p)
      /\ Knows(oracle, p.transcript, r)
      /\ sent = Idle /\ received = Idle /\ verifier = Idle
  BY <1>1 DEF IInv, GivenInv, PhaseInv, ProverInv
<1>3. PICK s : History(s)
  BY <1>1 DEF IInv, ProverInv
<1>4. Chain(s, given, p) /\ Tracks(s, p, trail)
  BY <1>3 DEF History
<1>5. r = n
  <2>1. n \in Nat /\ r \in Nat /\ n - r \in Nat /\ TwoTo[n - r] = 1
    BY <1>1, <1>2, <1>4, ChainSize
  <2>2. TwoTo[0] = 1
    BY TwoToFacts
  <2>3. n - r = 0
    <3> DEFINE d == n - r
    <3> HIDE DEF d
    <3>1. d \in Nat /\ TwoTo[d] = 1
      BY <2>1 DEF d
    <3>2. d > 0 => TwoTo[0] < TwoTo[d]
      BY <3>1, TwoToGrows
    <3>3. d = 0
      BY <2>2, <3>1, <3>2
    <3> QED
      BY <3>3 DEF d
  <2> QED
    BY <2>1, <2>3
<1>6. /\ next.phase = "done" /\ next.transcript = p.transcript /\ next.q = p.q
      /\ next.a = p.a /\ next.b = p.b /\ next.g = p.g /\ next.h = p.h
      /\ next.points = p.points
      /\ next = [phase |-> next.phase, transcript |-> next.transcript, q |-> next.q,
                 a |-> next.a, b |-> next.b, g |-> next.g, h |-> next.h,
                 points |-> next.points]
  <2>1. p = [phase |-> p.phase, transcript |-> p.transcript, q |-> p.q,
             a |-> p.a, b |-> p.b, g |-> p.g, h |-> p.h, points |-> p.points]
    BY <1>2 DEF Proving
  <2>2. next = [phase |-> "done", transcript |-> p.transcript, q |-> p.q,
                a |-> p.a, b |-> p.b, g |-> p.g, h |-> p.h, points |-> p.points]
    BY <2>1
  <2> HIDE DEF next
  <2> QED
    BY <2>2
<1> HIDE DEF next
<1>7. Proving(given, next)
  BY <1>2, <1>6 DEF Proving
<1>8. Chain(s, given, next)
  BY <1>4, <1>6 DEF Chain
<1>9. Tracks(s, next, trail')
  <2>1. trail = VectorsOf(s, r)
    BY <1>1, <1>4 DEF Tracks, VectorsOf
  <2>2. s[r + 1].a = p.a /\ s[r + 1].b = p.b /\ r \in Nat
    BY <1>2, <1>4, <1>5 DEF Chain, Givens, Claims
  <2>3. Append(VectorsOf(s, r), [a |-> s[r + 1].a, b |-> s[r + 1].b]) = VectorsOf(s, r + 1)
    BY <2>2, VectorsMore
  <2> QED
    BY <1>1, <1>6, <2>1, <2>2, <2>3 DEF Tracks, VectorsOf
<1>10. verifier.phase = "idle" /\ ~Active(verifier) /\ sent' # Idle
  BY <1>1, <1>2 DEF Idle, Active, SentBy
<1>11. ProverInv'
  <2>1. History(s)'
    BY <1>1, <1>8, <1>9, <1>10 DEF History, Active
  <2>2. Proving(given', prover') /\ Knows(oracle', prover'.transcript, Len(prover'.points))
    BY <1>1, <1>2, <1>6, <1>7
  <2> QED
    BY <2>1, <2>2 DEF ProverInv
<1>12. SentInv'
  BY <1>1, <1>5, <1>6 DEF SentInv, SentBy
<1> QED
  BY <1>1, <1>2, <1>6, <1>10, <1>11, <1>12 DEF IInv, GivenInv, OracleInv, PhaseInv, ReceivedInv,
     VerifierInv, Active

\* What is on the way is well formed, whatever was changed in it.
LEMMA AlteredType ==
  ASSUME NEW s \in Sends, NEW rc \in Alterations(s)
  PROVE  /\ rc \in Sends
         /\ Len(rc.proof.points) = Len(s.proof.points) \/ rc.claim.logLen = s.claim.logLen
<1>1. /\ s.proof \in Proofs /\ s.claim \in Claims /\ s.setup \in Setups
      /\ s.claim.product \in Scalars /\ s.claim.y \in Scalars /\ s.claim.logLen \in Nat
  BY DEF Sends, Claims
<1>2. 1 \in Scalars
  BY ResiduesAreIntegers
<1>3. ASSUME NEW proof \in AlteredProofs(s.proof) PROVE proof \in Proofs
  <2> DEFINE old == s.proof
  <2>1. /\ old.points \in Seq(Pairs) /\ old.a \in Scalars /\ old.b \in Scalars
        /\ old \in Proofs
    BY <1>1 DEF Proofs
  <2>2. \A k \in DOMAIN old.points : old.points[k] \in Pairs
    BY <2>1
  <2>3. \A k \in DOMAIN old.points : old.points[k].l \in Pts /\ old.points[k].r \in Pts
    BY <2>2 DEF Pairs
  <2> DEFINE none == [l |-> NoPoint, r |-> NoPoint]
  <2>4. none \in Pairs
    BY ResiduesAreIntegers DEF NoPoint, Pts, Pairs
  <2> HIDE DEF none, old
  <2>5. CASE proof = [old EXCEPT !.a = Add(@, 1)] \/ proof = [old EXCEPT !.b = Add(@, 1)]
    <3>1. Add(old.a, 1) \in Scalars /\ Add(old.b, 1) \in Scalars
      BY <1>2, <2>1, ScalarRules
    <3> QED
      BY <2>1, <2>5, <3>1 DEF Proofs
  <2>6. CASE proof = [old EXCEPT !.points = Append(@, none)]
    <3>1. Append(old.points, none) \in Seq(Pairs)
      BY <2>1, <2>4
    <3> QED
      BY <2>1, <2>6, <3>1 DEF Proofs
  <2>7. CASE proof = [old EXCEPT !.points = SubSeq(@, 1, Len(@) - 1)]
    <3>1. SubSeq(old.points, 1, Len(old.points) - 1) \in Seq(Pairs)
      BY <2>1
    <3> QED
      BY <2>1, <2>7, <3>1 DEF Proofs
  <2>8. ASSUME NEW k \in DOMAIN old.points,
               \/ proof = [old EXCEPT !.points[k].l = Plus(@, @)]
               \/ proof = [old EXCEPT !.points[k].r = Plus(@, @)]
               \/ proof = [old EXCEPT !.points[k] = [l |-> @.r, r |-> @.l]]
        PROVE  proof \in Proofs
    <3> DEFINE pair == old.points[k]
    <3>1. pair \in Pairs /\ pair.l \in Pts /\ pair.r \in Pts
      BY <2>2, <2>3
    <3>2. Plus(pair.l, pair.l) \in Pts /\ Plus(pair.r, pair.r) \in Pts
      BY <3>1, PlusSwap
    <3>3. /\ [pair EXCEPT !.l = Plus(@, @)] \in Pairs /\ [pair EXCEPT !.r = Plus(@, @)] \in Pairs
          /\ [l |-> pair.r, r |-> pair.l] \in Pairs
      BY <3>1, <3>2 DEF Pairs
    <3>4. PICK new \in Pairs : proof = [old EXCEPT !.points = [@ EXCEPT ![k] = new]]
      <4>1. CASE proof = [old EXCEPT !.points[k].l = Plus(@, @)]
        BY <3>3, <4>1
      <4>2. CASE proof = [old EXCEPT !.points[k].r = Plus(@, @)]
        BY <3>3, <4>2
      <4>3. CASE proof = [old EXCEPT !.points[k] = [l |-> @.r, r |-> @.l]]
        BY <3>3, <4>3
      <4> QED
        BY <2>8, <4>1, <4>2, <4>3
    <3>5. [old.points EXCEPT ![k] = new] \in Seq(Pairs)
      BY <2>1
    <3> QED
      BY <2>1, <3>4, <3>5 DEF Proofs
  <2>9. \/ proof = [old EXCEPT !.a = Add(@, 1)] \/ proof = [old EXCEPT !.b = Add(@, 1)]
        \/ proof = [old EXCEPT !.points = Append(@, none)]
        \/ proof = [old EXCEPT !.points = SubSeq(@, 1, Len(@) - 1)]
        \/ \E k \in DOMAIN old.points :
             \/ proof = [old EXCEPT !.points[k].l = Plus(@, @)]
             \/ proof = [old EXCEPT !.points[k].r = Plus(@, @)]
             \/ proof = [old EXCEPT !.points[k] = [l |-> @.r, r |-> @.l]]
    BY <1>3 DEF AlteredProofs, old, none
  <2> QED
    BY <2>5, <2>6, <2>7, <2>8, <2>9
<1>4. CASE \E proof \in AlteredProofs(s.proof) : rc = [s EXCEPT !.proof = proof]
  <2>1. PICK proof \in AlteredProofs(s.proof) : rc = [s EXCEPT !.proof = proof]
    BY <1>4
  <2>2. proof \in Proofs
    BY <1>3
  <2> QED
    BY <2>1, <2>2 DEF Sends
<1>5. ASSUME NEW c \in Claims, rc = [s EXCEPT !.claim = c]
      PROVE  rc \in Sends /\ rc.proof = s.proof
  BY <1>5 DEF Sends
<1>6. CASE rc \in {[s EXCEPT !.claim.product = Add(@, 1)], [s EXCEPT !.claim.y = Add(@, 1)],
                   [s EXCEPT !.claim.logLen = @ + 1]}
  <2>1. Add(s.claim.product, 1) \in Scalars /\ Add(s.claim.y, 1) \in Scalars
        /\ s.claim.logLen + 1 \in Nat
    BY <1>1, <1>2, ScalarRules
  <2>2. /\ [s.claim EXCEPT !.product = Add(@, 1)] \in Claims
        /\ [s.claim EXCEPT !.y = Add(@, 1)] \in Claims
        /\ [s.claim EXCEPT !.logLen = @ + 1] \in Claims
    BY <1>1, <2>1 DEF Claims
  <2>3. \E c \in Claims : rc = [s EXCEPT !.claim = c]
    BY <1>6, <2>2
  <2> QED
    BY <1>5, <2>3
<1>7. CASE \E setup \in Setups : rc = [s EXCEPT !.setup = setup]
  BY <1>7 DEF Sends
<1> QED
  BY <1>4, <1>6, <1>7 DEF Alterations

LEMMA SentType ==
  ASSUME IInv, prover.phase = "done"
  PROVE  /\ sent \in Sends /\ Now(prover) \in States(1)
         /\ sent.setup = given.setup /\ sent.claim = given.claim
         /\ sent.proof = [points |-> prover.points, a |-> prover.a[1], b |-> prover.b[1]]
<1>1. /\ given \in Givens /\ Proving(given, prover) /\ sent = SentBy(given, prover)
      /\ Len(prover.points) = given.claim.logLen
  BY DEF IInv, GivenInv, ProverInv, SentInv
<1>2. PICK s : Chain(s, given, prover)
  BY DEF IInv, ProverInv, History
<1> DEFINE n == given.claim.logLen
<1>3. n \in Nat /\ Now(prover) \in States(TwoTo[n - n])
  BY <1>1, <1>2, ChainSize
<1>4. n - n = 0 /\ TwoTo[0] = 1
  BY <1>3, TwoToFacts
<1>5. Now(prover) \in States(1)
  BY <1>3, <1>4
<1>6. prover.a = Now(prover).a /\ prover.b = Now(prover).b
  BY DEF Now
<1>7. /\ prover.a \in Vectors(1) /\ prover.b \in Vectors(1)
  BY <1>5, <1>6 DEF States
<1>8. prover.a[1] \in Scalars /\ prover.b[1] \in Scalars
  BY <1>7 DEF Vectors
<1>9. given.setup \in Setups /\ given.claim \in Claims /\ prover.points \in Seq(Pairs)
  BY <1>1 DEF Givens, Proving
<1> QED
  BY <1>1, <1>5, <1>8, <1>9 DEF SentBy, Sends, Proofs

LEMMA DeliverStep ==
  ASSUME IInv, Deliver
  PROVE  IInv'
<1>1. /\ sent # Idle /\ received = Idle
      /\ received' = sent \/ received' \in Alterations(sent)
      /\ UNCHANGED <<given, prover, sent, verifier, oracle, trail>>
  BY DEF Deliver
<1>2. prover.phase = "done" /\ verifier = Idle
  BY <1>1 DEF IInv, PhaseInv
<1>3. sent \in Sends
  BY <1>2, SentType
<1>4. /\ received' \in Sends
      /\ \/ Len(received'.proof.points) = Len(sent.proof.points)
         \/ received'.claim.logLen = sent.claim.logLen
  BY <1>1, <1>3, AlteredType
<1>5. received' # Idle /\ ~Active(verifier)
  <2>1. received'.phase = "sent"
    BY <1>4 DEF Sends
  <2> QED
    BY <1>2, <2>1 DEF Idle, Active
<1>6. ProverInv'
  <2>1. PICK s : History(s)
    BY <1>2 DEF IInv, ProverInv
  <2>2. History(s)'
    BY <1>1, <1>5, <2>1 DEF History, Active
  <2>3. Proving(given', prover') /\ Knows(oracle', prover'.transcript, Len(prover'.points))
    BY <1>1, <1>2 DEF IInv, ProverInv
  <2> QED
    BY <2>2, <2>3 DEF ProverInv
<1> QED
  BY <1>1, <1>2, <1>4, <1>5, <1>6 DEF IInv, GivenInv, OracleInv, PhaseInv, SentInv, ReceivedInv,
     VerifierInv, Active

LEMMA CommittedType ==
  ASSUME NEW n \in Nat, NEW s \in States(n), NEW q \in Pts
  PROVE  Committed(s, q) \in Pts
<1>1. /\ s.a \in Vectors(n) /\ s.b \in Vectors(n)
      /\ s.g \in PointVectors(n) /\ s.h \in PointVectors(n)
  BY DEF States
<1> QED
  BY <1>1, CommittedCoefficient DEF Committed

\* What the oracle answered stays.
LEMMA KnowsStill ==
  ASSUME NEW o, NEW n, NEW t, NEW r, Knows(o, t, r),
         \A question \in DOMAIN o : question \in DOMAIN n /\ n[question] = o[question]
  PROVE  Knows(n, t, r)
  BY DEF Knows

\* The verifier's local variables when it has drawn the product's challenge.
VerifierStarted(rc, c) ==
  [phase      |-> "rounds",
   transcript |-> AfterChallenge(Opening(rc.setup, rc.claim, TwoTo[rc.claim.logLen]),
                                 "product-binding", c),
   q          |-> Scale(BasePoint(rc.setup.q), c),
   folded     |-> Plus(rc.claim.commitment,
                       Scale(Scale(BasePoint(rc.setup.q), c), rc.claim.product)),
   g          |-> LeftGenerators(rc.setup, TwoTo[rc.claim.logLen]),
   h          |-> WeightedHGenerators(rc.setup, TwoTo[rc.claim.logLen], rc.claim.y),
   round      |-> 1]

LEMMA VerifierStartedFacts ==
  ASSUME NEW rc \in Sends, NEW c, Acceptable(rc.setup, rc.claim, rc.proof)
  PROVE  /\ Verifying(rc, VerifierStarted(rc, c))
         /\ VerifierStarted(rc, c).phase = "rounds"
<1> DEFINE v == VerifierStarted(rc, c)
<1>1. /\ v.phase = "rounds" /\ v.round = 1
      /\ v.transcript = AfterChallenge(Opening(rc.setup, rc.claim, TwoTo[rc.claim.logLen]),
                                       "product-binding", c)
      /\ v = [phase |-> v.phase, transcript |-> v.transcript, q |-> v.q, folded |-> v.folded,
              g |-> v.g, h |-> v.h, round |-> v.round]
  BY DEF VerifierStarted
<1> HIDE DEF v
<1>2. Len(rc.proof.points) \in Nat
  BY DEF Sends, Proofs
<1>3. v.round \in 1 .. (Len(rc.proof.points) + 1) /\ v.round - 1 = 0
  BY <1>1, <1>2
<1>4. Records(v.transcript, rc.setup, rc.claim, rc.proof.points, 0)
  BY <1>1, RecordsStart
<1>5. Verifying(rc, v)
  BY <1>1, <1>3, <1>4 DEF Verifying
<1> QED
  BY <1>1, <1>5 DEF v

LEMMA FollowsFromStart ==
  ASSUME NEW gv \in Givens, NEW p, NEW s, NEW rc, Proving(gv, p), Chain(s, gv, p),
         ChallengeAt(p.transcript, 0) \in Scalars, Matches(gv, p, rc)
  PROVE  Follows(s, gv, p, VerifierStarted(rc, ChallengeAt(p.transcript, 0)))
<1> DEFINE t == p.transcript
           c == ChallengeAt(t, 0)
           v == VerifierStarted(rc, c)
           n == gv.claim.logLen
           o == Opening(gv.setup, gv.claim, TwoTo[n])
<1>1. rc.setup = gv.setup /\ rc.claim = gv.claim
  BY DEF Matches
<1>2. /\ v.round = 1 /\ v.transcript = AfterChallenge(o, "product-binding", c)
      /\ v.q = Scale(BasePoint(gv.setup.q), c)
      /\ v.folded = Plus(gv.claim.commitment,
                         Scale(Scale(BasePoint(gv.setup.q), c), gv.claim.product))
      /\ v.g = LeftGenerators(gv.setup, TwoTo[n])
      /\ v.h = WeightedHGenerators(gv.setup, TwoTo[n], gv.claim.y)
  BY <1>1 DEF VerifierStarted
<1> HIDE DEF v
<1>3. /\ Ready(gv) /\ p.q = Scale(BasePoint(gv.setup.q), c)
      /\ Records(t, gv.setup, gv.claim, p.points, Len(p.points))
      /\ Len(p.points) \in Nat
  BY DEF Proving
<1>4. SubSeq(t, 1, 7) = o
  BY <1>3 DEF Records
<1>5. v.transcript = SubSeq(t, 1, 9)
  <2>1. AfterChallenge(SubSeq(t, 1, 7), "product-binding", ChallengeAt(t, 0)) = SubSeq(t, 1, 9)
    <3> HIDE DEF t
    <3> QED
      BY <1>3, FollowStart
  <2> QED
    BY <1>2, <1>4, <2>1
<1>6. s[1] = Beginning(gv)
  BY DEF Chain
<1>7. v.g = s[1].g /\ v.h = s[1].h
  BY <1>2, <1>6 DEF Beginning
<1>8. p.q \in Pts
  BY ProductBase
<1>9. v.folded = Claimed(gv, p.q) /\ v.q = p.q
  BY <1>2, <1>3 DEF Claimed
<1>10. Claimed(gv, p.q) \in Pts /\ Beginning(gv) \in States(TwoTo[n])
  BY <1>3, <1>8, BeginningFacts
<1>11. Committed(s[1], p.q) \in Pts
  <2>1. n \in Nat
    BY DEF Givens, Claims
  <2>2. TwoTo[n] \in Nat
    <3> HIDE DEF n
    <3> QED
      BY <2>1, TwoToFacts
  <2> QED
    BY <1>6, <1>8, <1>10, <2>2, CommittedType
<1>12. Plus(v.folded, Committed(s[1], p.q)) = Plus(Committed(s[1], p.q), Claimed(gv, p.q))
  BY <1>9, <1>10, <1>11, PlusSwap
<1>13. SubSeq(p.transcript, 1, 5 + 4 * v.round) = SubSeq(t, 1, 9) /\ s[v.round] = s[1]
  BY <1>2
<1>14. Follows(s, gv, p, v)
  BY <1>2, <1>5, <1>7, <1>9, <1>10, <1>12, <1>13 DEF Follows
<1> QED
  BY <1>14 DEF v

\* What was received is well formed, and the prover is done.
LEMMA ReceivedFacts ==
  ASSUME IInv, received # Idle
  PROVE  /\ received \in Sends /\ sent # Idle /\ prover.phase = "done"
         /\ given \in Givens /\ Proving(given, prover)
         /\ Knows(oracle, prover.transcript, Len(prover.points))
         /\ ChallengeAt(prover.transcript, 0) \in Scalars
         /\ \E s : History(s)
<1>1. sent # Idle /\ prover.phase = "done"
  BY DEF IInv, PhaseInv
<1>2. /\ received \in Sends /\ given \in Givens /\ Proving(given, prover)
      /\ Knows(oracle, prover.transcript, Len(prover.points))
      /\ \E s : History(s)
  BY <1>1 DEF IInv, ReceivedInv, GivenInv, ProverInv
<1>3. ChallengeAt(prover.transcript, 0) \in Scalars
  BY <1>2 DEF Knows, IInv, OracleInv
<1> QED
  BY <1>1, <1>2, <1>3

LEMMA VerifierStartStep ==
  ASSUME IInv, VerifierStart
  PROVE  IInv'
<1> DEFINE rc == received
           t == Opening(rc.setup, rc.claim, TwoTo[rc.claim.logLen])
<1>1. /\ rc # Idle /\ verifier = Idle
      /\ UNCHANGED <<given, prover, sent, received, trail>>
  BY DEF VerifierStart
<1>2. /\ rc \in Sends /\ sent # Idle /\ prover.phase = "done"
      /\ given \in Givens /\ Proving(given, prover)
      /\ Knows(oracle, prover.transcript, Len(prover.points))
      /\ ChallengeAt(prover.transcript, 0) \in Scalars
      /\ \E s : History(s)
  BY <1>1, ReceivedFacts
<1>3. 2 ^ rc.claim.logLen = TwoTo[rc.claim.logLen]
  BY <1>2 DEF Sends, Claims, TwoTo
<1>4. \/ /\ ~Acceptable(rc.setup, rc.claim, rc.proof)
         /\ verifier' = Refused("InvalidProof") /\ UNCHANGED oracle
      \/ /\ Acceptable(rc.setup, rc.claim, rc.proof)
         /\ \E c \in Answers(oracle, t, "product-binding") :
              /\ oracle' = Asked(oracle, t, "product-binding", c)
              /\ verifier' = VerifierStarted(rc, c)
  BY <1>3 DEF VerifierStart, VerifierStarted
<1>5. PICK s : History(s)
  BY <1>2
<1>6. Chain(s, given, prover) /\ Tracks(s, prover, trail)
  BY <1>5 DEF History
<1>7. CASE /\ ~Acceptable(rc.setup, rc.claim, rc.proof)
           /\ verifier' = Refused("InvalidProof") /\ UNCHANGED oracle
  <2>1. verifier'.phase = "refused" /\ ~Active(verifier')
    BY <1>7 DEF Refused, Active
  <2>2. History(s)'
    BY <1>1, <1>6, <2>1 DEF History
  <2>3. ProverInv'
    BY <1>1, <1>2, <1>7, <2>2 DEF ProverInv
  <2> QED
    BY <1>1, <1>2, <1>7, <2>1, <2>3 DEF IInv, GivenInv, OracleInv, PhaseInv, SentInv,
       ReceivedInv, VerifierInv
<1>8. CASE /\ Acceptable(rc.setup, rc.claim, rc.proof)
           /\ \E c \in Answers(oracle, t, "product-binding") :
                /\ oracle' = Asked(oracle, t, "product-binding", c)
                /\ verifier' = VerifierStarted(rc, c)
  <2>1. PICK c \in Answers(oracle, t, "product-binding") :
             /\ oracle' = Asked(oracle, t, "product-binding", c)
             /\ verifier' = VerifierStarted(rc, c)
    BY <1>8
  <2>2. OracleInv
    BY DEF IInv
  <2>3. /\ \A question \in DOMAIN oracle :
             question \in DOMAIN oracle' /\ oracle'[question] = oracle[question]
        /\ \A question \in DOMAIN oracle' : oracle'[question] \in Scalars \ {0}
        /\ <<t, "product-binding">> \in DOMAIN oracle => c = oracle[<<t, "product-binding">>]
    BY <2>1, <2>2, AskedKeeps DEF OracleInv
  <2>4. Verifying(rc, verifier') /\ verifier'.phase = "rounds"
    BY <1>2, <1>8, <2>1, VerifierStartedFacts
  <2>5. Knows(oracle', prover.transcript, Len(prover.points))
    BY <1>2, <2>3, KnowsStill
  <2>6. ASSUME Matches(given, prover, rc) PROVE Follows(s, given, prover, verifier')
    <3>1. SubSeq(prover.transcript, 1, 7) = t
      BY <1>2, <2>6 DEF Proving, Records, Matches
    <3>2. c = ChallengeAt(prover.transcript, 0)
      BY <1>2, <2>3, <3>1 DEF Knows
    <3> QED
      BY <1>2, <1>6, <2>1, <2>6, <3>2, FollowsFromStart
  <2>7. History(s)'
    BY <1>1, <1>6, <2>6 DEF History
  <2>8. ProverInv'
    BY <1>1, <1>2, <2>5, <2>7 DEF ProverInv
  <2>9. Active(verifier') /\ OracleInv'
    BY <2>3, <2>4 DEF Active, OracleInv
  <2> QED
    BY <1>1, <1>2, <2>4, <2>8, <2>9 DEF IInv, GivenInv, PhaseInv, SentInv, ReceivedInv,
       VerifierInv
<1> QED
  BY <1>4, <1>7, <1>8

VerifierStepped(v, point, x) ==
  [v EXCEPT !.transcript = AfterChallenge(CommitRound(v.transcript, point), "round", x),
            !.folded = FoldCommitment(@, point, x),
            !.g = FoldPoints(@, Invert(x), x),
            !.h = FoldPoints(@, x, Invert(x)),
            !.round = @ + 1]

LEMMA VerifierSteppedFacts ==
  ASSUME NEW rc \in Sends, NEW v, NEW x, Verifying(rc, v), v.phase = "rounds",
         v.round <= Len(rc.proof.points)
  PROVE  LET point == rc.proof.points[v.round]
             next == VerifierStepped(v, point, x)
         IN  /\ Verifying(rc, next) /\ next.phase = "rounds"
             /\ next.transcript = AfterChallenge(CommitRound(v.transcript, point), "round", x)
             /\ next.q = v.q /\ next.folded = FoldCommitment(v.folded, point, x)
             /\ next.g = FoldPoints(v.g, Invert(x), x)
             /\ next.h = FoldPoints(v.h, x, Invert(x))
             /\ next.round = v.round + 1 /\ v.round \in 1 .. Len(rc.proof.points)
<1> DEFINE points == rc.proof.points
           point == points[v.round]
           next == VerifierStepped(v, point, x)
           nt == AfterChallenge(CommitRound(v.transcript, point), "round", x)
           nf == FoldCommitment(v.folded, point, x)
           ng == FoldPoints(v.g, Invert(x), x)
           nh == FoldPoints(v.h, x, Invert(x))
           nr == v.round + 1
           r == v.round - 1
<1>1. /\ v.round \in 1 .. (Len(points) + 1) /\ Len(points) \in Nat
      /\ Acceptable(rc.setup, rc.claim, rc.proof)
      /\ Records(v.transcript, rc.setup, rc.claim, points, r)
      /\ v = VerifierLocals("rounds", v.transcript, v.q, v.folded, v.g, v.h, v.round)
  BY DEF Verifying, VerifierLocals, Sends, Proofs
<1>2. v.round \in 1 .. Len(points) /\ r \in Nat /\ r + 1 = v.round /\ nr - 1 = r + 1
      /\ nr \in 1 .. (Len(points) + 1)
  BY <1>1
<1>3. next = VerifierAfter(v, nt, nf, ng, nh, nr)
  BY DEF VerifierStepped, VerifierAfter
<1> HIDE DEF next, nt, nf, ng, nh, nr
<1>4. next = VerifierLocals("rounds", nt, v.q, nf, ng, nh, nr)
  BY <1>1, <1>3, VerifierUpdate
<1>5. /\ next.phase = "rounds" /\ next.transcript = nt /\ next.q = v.q /\ next.folded = nf
      /\ next.g = ng /\ next.h = nh /\ next.round = nr
      /\ next = [phase |-> next.phase, transcript |-> next.transcript, q |-> next.q,
                 folded |-> next.folded, g |-> next.g, h |-> next.h, round |-> next.round]
  BY <1>4 DEF VerifierLocals
<1>6. Records(nt, rc.setup, rc.claim, points, r + 1)
  <2> DEFINE t == v.transcript
             u == AfterChallenge(CommitRound(t, points[r + 1]), "round", x)
  <2>1. Records(t, rc.setup, rc.claim, points, r)
    BY <1>1
  <2>2. nt = u
    BY <1>2 DEF nt
  <2>3. OneMore(u, t, rc.setup, rc.claim, points, r, x)
    <3> HIDE DEF t, r, points
    <3> QED
      BY <1>2, <2>1, RecordsStep
  <2> HIDE DEF u
  <2> QED
    BY <2>2, <2>3 DEF OneMore
<1>7. Verifying(rc, next)
  BY <1>1, <1>2, <1>5, <1>6 DEF Verifying
<1> QED
  BY <1>2, <1>5, <1>7 DEF next, nt, nf, ng, nh, nr

LEMMA FollowsFurther ==
  ASSUME NEW gv \in Givens, NEW p, NEW s, NEW v, NEW next, Proving(gv, p), Chain(s, gv, p),
         Follows(s, gv, p, v), v.round \in 1 .. Len(p.points),
         ChallengeAt(p.transcript, 0) \in Scalars,
         NEW x \in Scalars \ {0}, x = ChallengeAt(p.transcript, v.round),
         next.transcript
           = AfterChallenge(CommitRound(v.transcript, p.points[v.round]), "round", x),
         next.q = v.q, next.folded = FoldCommitment(v.folded, p.points[v.round], x),
         next.g = FoldPoints(v.g, Invert(x), x), next.h = FoldPoints(v.h, x, Invert(x)),
         next.round = v.round + 1
  PROVE  Follows(s, gv, p, next)
<1> DEFINE k == v.round
           r == Len(p.points)
           n == gv.claim.logLen
           t == p.transcript
           point == p.points[k]
           xi == Invert(x)
           now == s[k]
           C == Committed(now, p.q)
           first == Committed(s[1], p.q)
           claimed == Claimed(gv, p.q)
           L == LeftPoint(now, p.q)
           R == RightPoint(now, p.q)
           gain == Plus(Scale(L, Mul(x, x)), Scale(R, Mul(xi, xi)))
<1>1. /\ n \in Nat /\ r \in Nat /\ r <= n /\ k \in Nat /\ k <= r /\ k > 0
      /\ Ready(gv) /\ Records(t, gv.setup, gv.claim, p.points, r)
  BY DEF Proving, Givens, Claims
<1>2. /\ k \in 1 .. (r + 1) /\ n - k \in Nat /\ n + 1 - k = (n - k) + 1
      /\ 1 \in 1 .. (r + 1) /\ n + 1 - 1 = n
  BY <1>1
<1> DEFINE m == TwoTo[n - k]
<1>3. m \in Nat /\ TwoTo[n + 1 - k] = 2 * m /\ TwoTo[n] \in Nat
  <2> DEFINE d == n - k
  <2>1. d \in Nat /\ n + 1 - k = d + 1
    BY <1>2
  <2> HIDE DEF d, n
  <2>2. TwoTo[d] \in Nat /\ TwoTo[d + 1] = 2 * TwoTo[d] /\ TwoTo[n] \in Nat
    BY <1>1, <2>1, TwoToFacts
  <2>3. TwoTo[n + 1 - k] = TwoTo[d + 1] /\ m = TwoTo[d]
    BY <2>1 DEF d
  <2> QED
    BY <2>2, <2>3
<1>4. /\ now \in States(2 * m) /\ s[1] \in States(TwoTo[n])
      /\ s[k + 1] = FoldedState(now, x, xi)
      /\ point = [l |-> L, r |-> R]
  <2>1. now \in States(TwoTo[n + 1 - k]) /\ s[1] \in States(TwoTo[n + 1 - 1])
    BY <1>2 DEF Chain
  <2>2. /\ s[k + 1] = FoldedState(s[k], x, Invert(x))
        /\ point = [l |-> LeftPoint(s[k], p.q), r |-> RightPoint(s[k], p.q)]
    BY DEF Chain
  <2> QED
    BY <1>2, <1>3, <2>1, <2>2
<1>5. xi \in Scalars /\ Mul(x, xi) = 1
  BY InvertFacts
<1>6. p.q \in Pts
  BY ProductBase
<1>7. next.transcript = SubSeq(t, 1, 5 + 4 * next.round)
  <2>1. 5 + 4 * next.round = 9 + 4 * k
    BY <1>1
  <2>2. v.transcript = SubSeq(t, 1, 5 + 4 * k)
    BY DEF Follows
  <2>3. /\ CommitRound(SubSeq(t, 1, 5 + 4 * k), p.points[k]) = SubSeq(t, 1, 7 + 4 * k)
        /\ AfterChallenge(SubSeq(t, 1, 7 + 4 * k), "round", ChallengeAt(t, k))
             = SubSeq(t, 1, 9 + 4 * k)
    <3>1. k \in 1 .. r
      OBVIOUS
    <3> HIDE DEF t, r, k
    <3> QED
      BY <1>1, <3>1, FollowRound
  <2> QED
    BY <2>1, <2>2, <2>3
<1>8. next.g = s[next.round].g /\ next.h = s[next.round].h /\ next.q = p.q
  <2>1. v.g = now.g /\ v.h = now.h /\ v.q = p.q
    BY DEF Follows
  <2> QED
    BY <1>4, <2>1 DEF FoldedState
<1>9. /\ v.folded \in Pts /\ Plus(v.folded, first) = Plus(C, claimed)
  BY DEF Follows
<1>10. next.folded = Plus(v.folded, gain)
  BY <1>4 DEF FoldCommitment
<1>11. s[next.round] = s[k + 1]
  OBVIOUS
<1> HIDE DEF m, now, xi
<1>12. /\ L \in Pts /\ R \in Pts /\ C \in Pts
       /\ Committed(FoldedState(now, x, xi), p.q) = Plus(C, gain)
  BY <1>3, <1>4, <1>5, <1>6, RoundCommitment
<1>13. first \in Pts
  <2> HIDE DEF n
  <2> QED
    BY <1>3, <1>4, <1>6, CommittedType
<1>14. claimed \in Pts
  BY <1>1, <1>6, BeginningFacts
<1>15. gain \in Pts
  <2>1. Mul(x, x) \in Scalars /\ Mul(xi, xi) \in Scalars
    BY <1>5, ScalarRules
  <2> HIDE DEF L, R
  <2>2. Scale(L, Mul(x, x)) \in Pts /\ Scale(R, Mul(xi, xi)) \in Pts
    BY <1>12, <2>1, PointsClosed
  <2> QED
    BY <2>2, PlusSwap
<1> HIDE DEF C, first, claimed, gain
<1>16. Plus(Plus(v.folded, gain), first) = Plus(Plus(C, gain), claimed)
  <2>1. Plus(Plus(v.folded, gain), first) = Plus(Plus(v.folded, first), gain)
    BY <1>9, <1>13, <1>15, PlusSwap
  <2>2. Plus(Plus(C, claimed), gain) = Plus(Plus(C, gain), claimed)
    BY <1>12, <1>14, <1>15, PlusSwap
  <2> QED
    BY <1>9, <2>1, <2>2
<1>17. next.folded \in Pts
  BY <1>9, <1>10, <1>15, PlusSwap
<1>18. Committed(s[next.round], p.q) = Plus(C, gain)
  BY <1>4, <1>11, <1>12
<1>19. Plus(next.folded, Committed(s[1], p.q))
         = Plus(Committed(s[next.round], p.q), Claimed(gv, p.q))
  BY <1>10, <1>16, <1>18 DEF first, claimed
<1> QED
  BY <1>7, <1>8, <1>17, <1>19 DEF Follows

LEMMA VerifierRoundStep ==
  ASSUME IInv, VerifierRound
  PROVE  IInv'
<1> DEFINE rc == received
           v == verifier
           point == rc.proof.points[v.round]
           t == CommitRound(v.transcript, point)
<1>1. /\ v.phase = "rounds" /\ v.round <= Len(rc.proof.points)
      /\ UNCHANGED <<given, prover, sent, received, trail>>
  BY DEF VerifierRound
<1>2. PICK x \in Answers(oracle, t, "round") :
           oracle' = Asked(oracle, t, "round", x) /\ verifier' = VerifierStepped(v, point, x)
  BY DEF VerifierRound, VerifierStepped
<1>3. Active(v) /\ rc # Idle
  <2>1. v # Idle
    BY <1>1 DEF Idle
  <2> QED
    BY <1>1, <2>1 DEF Active, IInv, PhaseInv
<1>4. Verifying(rc, v) /\ OracleInv
  BY <1>3 DEF IInv, VerifierInv
<1>5. /\ rc \in Sends /\ sent # Idle /\ prover.phase = "done"
      /\ given \in Givens /\ Proving(given, prover)
      /\ Knows(oracle, prover.transcript, Len(prover.points))
      /\ ChallengeAt(prover.transcript, 0) \in Scalars
      /\ \E s : History(s)
  BY <1>3, ReceivedFacts
<1>6. PICK s : History(s)
  BY <1>5
<1>7. Chain(s, given, prover) /\ Tracks(s, prover, trail)
  BY <1>6 DEF History
<1>8. /\ \A question \in DOMAIN oracle :
           question \in DOMAIN oracle' /\ oracle'[question] = oracle[question]
      /\ \A question \in DOMAIN oracle' : oracle'[question] \in Scalars \ {0}
      /\ x \in Scalars \ {0}
      /\ <<t, "round">> \in DOMAIN oracle => x = oracle[<<t, "round">>]
  BY <1>2, <1>4, AskedKeeps DEF OracleInv
<1> DEFINE next == VerifierStepped(v, point, x)
<1>9. /\ Verifying(rc, next) /\ next.phase = "rounds"
      /\ next.transcript = AfterChallenge(CommitRound(v.transcript, point), "round", x)
      /\ next.q = v.q /\ next.folded = FoldCommitment(v.folded, point, x)
      /\ next.g = FoldPoints(v.g, Invert(x), x)
      /\ next.h = FoldPoints(v.h, x, Invert(x))
      /\ next.round = v.round + 1 /\ v.round \in 1 .. Len(rc.proof.points)
  BY <1>1, <1>4, <1>5, VerifierSteppedFacts
<1> HIDE DEF next
<1>10. verifier' = next
  BY <1>2 DEF next
<1>11. Knows(oracle', prover.transcript, Len(prover.points))
  BY <1>5, <1>8, KnowsStill
<1>12. ASSUME Matches(given, prover, rc) PROVE Follows(s, given, prover, verifier')
  <2> DEFINE k == v.round
  <2>1. rc.proof.points = prover.points /\ k \in 1 .. Len(prover.points)
    BY <1>9, <1>12 DEF Matches
  <2>2. Follows(s, given, prover, v)
    BY <1>3, <1>6, <1>12 DEF History
  <2>3. v.transcript = SubSeq(prover.transcript, 1, 5 + 4 * k)
    BY <2>2 DEF Follows
  <2>4. /\ Records(prover.transcript, given.setup, given.claim, prover.points,
                   Len(prover.points))
        /\ Len(prover.points) \in Nat
    BY <1>5 DEF Proving
  <2> HIDE DEF k
  <2>5. CommitRound(SubSeq(prover.transcript, 1, 5 + 4 * k), prover.points[k])
          = SubSeq(prover.transcript, 1, 7 + 4 * k)
    <3> DEFINE u == prover.transcript
               points == prover.points
               r == Len(points)
               setup == given.setup
               claim == given.claim
    <3>1. Records(u, setup, claim, points, r) /\ r \in Nat /\ k \in 1 .. r
      BY <2>1, <2>4
    <3> HIDE DEF u, points, r, setup, claim
    <3>2. CommitRound(SubSeq(u, 1, 5 + 4 * k), points[k]) = SubSeq(u, 1, 7 + 4 * k)
      BY <3>1, FollowRound
    <3> QED
      BY <3>2 DEF u, points
  <2>6. t = SubSeq(prover.transcript, 1, 7 + 4 * k)
    BY <2>1, <2>3, <2>5 DEF k
  <2>7. x = ChallengeAt(prover.transcript, k)
    BY <1>5, <1>8, <2>1, <2>6 DEF Knows
  <2>8. Follows(s, given, prover, next)
    BY <1>5, <1>7, <1>8, <1>9, <2>1, <2>2, <2>7, FollowsFurther DEF k
  <2> QED
    BY <1>10, <2>8
<1>13. History(s)'
  BY <1>1, <1>7, <1>12 DEF History
<1>14. ProverInv'
  BY <1>1, <1>5, <1>11, <1>13 DEF ProverInv
<1>15. OracleInv' /\ Active(verifier')
  BY <1>8, <1>9, <1>10 DEF OracleInv, Active
<1> QED
  BY <1>1, <1>3, <1>5, <1>9, <1>10, <1>14, <1>15 DEF IInv, GivenInv, PhaseInv, SentInv,
     ReceivedInv, VerifierInv

LEMMA VerifierFinishStep ==
  ASSUME IInv, VerifierFinish
  PROVE  IInv'
<1> DEFINE rc == received
           v == verifier
<1>1. /\ v.phase = "rounds" /\ v.round = Len(rc.proof.points) + 1
      /\ UNCHANGED <<given, prover, sent, received, oracle, trail>>
  BY DEF VerifierFinish
<1>2. PICK phase \in {"accepted", "rejected"} :
           /\ verifier' = [v EXCEPT !.phase = phase]
           /\ phase = "accepted" => v.folded = Expected(v, rc.proof)
           /\ phase = "rejected" => v.folded # Expected(v, rc.proof)
  BY DEF VerifierFinish
<1>3. Active(v) /\ rc # Idle
  <2>1. v # Idle
    BY <1>1 DEF Idle
  <2> QED
    BY <1>1, <2>1 DEF Active, IInv, PhaseInv
<1>4. Verifying(rc, v) /\ OracleInv
  BY <1>3 DEF IInv, VerifierInv
<1>5. /\ rc \in Sends /\ sent # Idle /\ prover.phase = "done"
      /\ given \in Givens /\ Proving(given, prover)
      /\ Knows(oracle, prover.transcript, Len(prover.points))
      /\ \E s : History(s)
  BY <1>3, ReceivedFacts
<1>6. PICK s : History(s)
  BY <1>5
<1> DEFINE next == [v EXCEPT !.phase = phase]
<1>7. /\ next.phase = phase /\ next.transcript = v.transcript /\ next.q = v.q
      /\ next.folded = v.folded /\ next.g = v.g /\ next.h = v.h /\ next.round = v.round
      /\ next = [phase |-> next.phase, transcript |-> next.transcript, q |-> next.q,
                 folded |-> next.folded, g |-> next.g, h |-> next.h, round |-> next.round]
  <2>1. v = [phase |-> v.phase, transcript |-> v.transcript, q |-> v.q, folded |-> v.folded,
             g |-> v.g, h |-> v.h, round |-> v.round]
    BY <1>4 DEF Verifying
  <2>2. next = [phase |-> phase, transcript |-> v.transcript, q |-> v.q, folded |-> v.folded,
                g |-> v.g, h |-> v.h, round |-> v.round]
    BY <2>1
  <2> HIDE DEF next
  <2> QED
    BY <2>2
<1> HIDE DEF next
<1>8. verifier' = next
  BY <1>2 DEF next
<1>9. Expected(next, rc.proof) = Expected(v, rc.proof)
  BY <1>7 DEF Expected
<1>10. Verifying(rc, next)
  BY <1>1, <1>2, <1>4, <1>7, <1>9 DEF Verifying
<1>11. History(s)'
  <2>1. Chain(s, given, prover) /\ Tracks(s, prover, trail)
    BY <1>6 DEF History
  <2>2. ASSUME Matches(given, prover, rc) PROVE Follows(s, given, prover, next)
    <3>1. Follows(s, given, prover, v)
      BY <1>3, <1>6, <2>2 DEF History
    <3> QED
      BY <1>7, <3>1 DEF Follows
  <2> QED
    BY <1>1, <1>8, <2>1, <2>2 DEF History
<1>12. ProverInv'
  BY <1>1, <1>5, <1>11 DEF ProverInv
<1>13. Active(verifier') /\ verifier'.phase # "rounds"
  BY <1>7, <1>8 DEF Active
<1> QED
  BY <1>1, <1>3, <1>4, <1>5, <1>8, <1>10, <1>12, <1>13 DEF IInv, GivenInv, OracleInv, PhaseInv,
     SentInv, ReceivedInv, VerifierInv

LEMMA Invariance == Spec => []IInv
<1>1. ASSUME IInv, UNCHANGED vars PROVE IInv'
  BY <1>1 DEF IInv, GivenInv, OracleInv, PhaseInv, ProverInv, SentInv, ReceivedInv,
     VerifierInv, History, vars
<1>2. ASSUME IInv, Next PROVE IInv'
  BY <1>2, ProverStartStep, ProverRoundStep, ProverFinishStep, DeliverStep,
     VerifierStartStep, VerifierRoundStep, VerifierFinishStep DEF Next
<1>3. IInv /\ [Next]_vars => IInv'
  BY <1>1, <1>2
<1> QED
  BY InitIInv, <1>3, PTL DEF Spec

----------------------------------------------------------------------------
(* What follows from it *)

\* A verifier that was given what the prover gave is exactly as far from the
\* commitment to the prover's vectors as the claim was.
LEMMA SameRounds ==
  ASSUME IInv, Active(verifier), Matches(given, prover, received)
  PROVE  LET k == verifier.round
         IN  /\ received \in Sends /\ sent \in Sends /\ prover.phase = "done"
             /\ given \in Givens /\ verifier.q \in Pts
             /\ verifier.q = Scale(BasePoint(given.setup.q),
                                   ChallengeAt(prover.transcript, 0))
             /\ ChallengeAt(prover.transcript, 0) \in Scalars
             /\ k \in 1 .. (Len(prover.points) + 1)
             /\ \E s : /\ Chain(s, given, prover) /\ Tracks(s, prover, trail)
                       /\ verifier.g = s[k].g /\ verifier.h = s[k].h
                       /\ verifier.folded = Committed(s[k], verifier.q) <=> TrueOf(given)
<1> DEFINE v == verifier
           p == prover
           k == v.round
           n == given.claim.logLen
<1>1. received # Idle
  BY DEF IInv, PhaseInv, Active, Idle
<1>2. /\ received \in Sends /\ prover.phase = "done"
      /\ given \in Givens /\ Proving(given, p)
      /\ ChallengeAt(p.transcript, 0) \in Scalars
      /\ \E s : History(s)
  BY <1>1, ReceivedFacts
<1>3. sent \in Sends
  BY <1>2, SentType
<1>4. PICK s : History(s)
  BY <1>2
<1>5. Chain(s, given, p) /\ Tracks(s, p, trail) /\ Follows(s, given, p, v)
  BY <1>4 DEF History
<1>6. Verifying(received, v) /\ received.proof.points = p.points
  BY DEF IInv, VerifierInv, Matches
<1>7. k \in 1 .. (Len(p.points) + 1)
  BY <1>6 DEF Verifying
<1>8. p.q \in Pts
  BY <1>2, ProductBase
<1>9. /\ v.q = p.q /\ v.g = s[k].g /\ v.h = s[k].h /\ v.folded \in Pts
      /\ Plus(v.folded, Committed(s[1], p.q)) = Plus(Committed(s[k], p.q), Claimed(given, p.q))
  BY <1>5 DEF Follows
<1>10. Ready(given) /\ s[1] = Beginning(given)
       /\ p.q = Scale(BasePoint(given.setup.q), ChallengeAt(p.transcript, 0))
  BY <1>2, <1>5 DEF Proving, Chain
<1>11. /\ Claimed(given, p.q) \in Pts
       /\ Claimed(given, p.q) = Committed(Beginning(given), p.q) <=> TrueOf(given)
  BY <1>2, <1>8, <1>10, BeginningFacts
<1>12. ASSUME NEW j \in 1 .. (Len(p.points) + 1) PROVE Committed(s[j], p.q) \in Pts
  <2>1. s[j] \in States(TwoTo[n + 1 - j])
    BY <1>5 DEF Chain
  <2>2. n \in Nat /\ Len(p.points) \in Nat /\ Len(p.points) <= n
    BY <1>2 DEF Givens, Claims, Proving
  <2>3. n + 1 - j \in Nat
    BY <2>2
  <2>4. TwoTo[n + 1 - j] \in Nat
    <3> DEFINE d == n + 1 - j
    <3> HIDE DEF d
    <3>1. d \in Nat
      BY <2>3 DEF d
    <3>2. TwoTo[d] \in Nat
      BY <3>1, TwoToFacts
    <3> QED
      BY <3>2 DEF d
  <2> QED
    BY <1>8, <2>1, <2>4, CommittedType
<1>13. Committed(s[1], p.q) \in Pts /\ Committed(s[k], p.q) \in Pts
  BY <1>7, <1>12
<1>14. v.folded = Committed(s[k], p.q) <=> TrueOf(given)
  <2> DEFINE f == v.folded
             C == Committed(s[k], p.q)
             first == Committed(s[1], p.q)
             claimed == Claimed(given, p.q)
  <2>1. /\ f \in Pts /\ C \in Pts /\ first \in Pts /\ claimed \in Pts
        /\ Plus(f, first) = Plus(C, claimed) /\ (claimed = first <=> TrueOf(given))
    BY <1>9, <1>10, <1>11, <1>13
  <2> HIDE DEF f, C, first, claimed
  <2>2. claimed = first => f = C
    BY <2>1, PlusCancel
  <2>3. f = C => first = claimed
    BY <2>1, PlusCancel
  <2> QED
    BY <2>1, <2>2, <2>3 DEF f, C
<1> QED
  BY <1>2, <1>3, <1>5, <1>7, <1>8, <1>9, <1>10, <1>14

\* The prover's last vectors, under the folded generators, are what the verifier
\* expects of their one element each.
LEMMA LastExpected ==
  ASSUME IInv, Active(verifier), Matches(given, prover, received),
         NEW s, Chain(s, given, prover),
         verifier.round = Len(prover.points) + 1, verifier.q \in Pts,
         verifier.g = s[verifier.round].g, verifier.h = s[verifier.round].h,
         prover.phase = "done"
  PROVE  /\ Committed(s[verifier.round], verifier.q) = Expected(verifier, sent.proof)
         /\ verifier.g[1] \in Pts /\ verifier.h[1] \in Pts
         /\ verifier.g[1][given.setup.g[1]] # 0 /\ verifier.g[1][given.setup.h[1]] = 0
         /\ verifier.h[1][given.setup.h[1]] # 0 /\ verifier.h[1][given.setup.g[1]] = 0
<1> DEFINE now == s[verifier.round]
<1>1. /\ sent \in Sends /\ Now(prover) \in States(1)
      /\ sent.proof = [points |-> prover.points, a |-> prover.a[1], b |-> prover.b[1]]
  BY SentType
<1>2. now = Now(prover) /\ Apart(now, given.setup)
  <2>1. Proving(given, prover)
    BY DEF IInv, ProverInv
  <2>2. Len(prover.points) + 1 \in 1 .. (Len(prover.points) + 1)
    BY <2>1 DEF Proving
  <2> QED
    BY <2>2 DEF Chain, Now
<1>3. now \in States(1) /\ now.a = prover.a /\ now.b = prover.b
  BY <1>1, <1>2 DEF Now
<1>4. verifier.g = now.g /\ verifier.h = now.h
  OBVIOUS
<1> HIDE DEF now
<1>5. /\ now.g[1] \in Pts /\ now.h[1] \in Pts
      /\ Committed(now, verifier.q)
           = Plus(Plus(Scale(now.g[1], now.a[1]), Scale(now.h[1], now.b[1])),
                  Scale(verifier.q, Mul(now.a[1], now.b[1])))
  BY <1>3, LastCommitment
<1>6. sent.proof.a = now.a[1] /\ sent.proof.b = now.b[1]
  BY <1>1, <1>3
<1>7. Committed(now, verifier.q) = Expected(verifier, sent.proof)
  BY <1>4, <1>5, <1>6 DEF Expected
<1>8. now.g \in PointVectors(1) /\ now.h \in PointVectors(1)
  BY <1>3 DEF States
<1>9. 1 \in DOMAIN now.g /\ 1 \in DOMAIN now.h
  BY <1>8 DEF PointVectors
<1>10. /\ now.g[1][given.setup.g[1]] # 0 /\ now.g[1][given.setup.h[1]] = 0
       /\ now.h[1][given.setup.h[1]] # 0 /\ now.h[1][given.setup.g[1]] = 0
  BY <1>2, <1>9 DEF Apart, Pivot, Absent
<1> QED
  BY <1>4, <1>5, <1>7, <1>10 DEF now

\* At each round of an honest verification the folded commitment is the
\* commitment to the prover's vectors of that round, under the verifier's
\* generators (ipa.rs:243-246, 278-285).
THEOREM FoldedClaim == Spec => []FoldedClaimHolds
<1>1. IInv => FoldedClaimHolds
  <2> SUFFICES ASSUME IInv, verifier.phase = "rounds", received = sent, TrueClaim
               PROVE  LET now == trail[verifier.round] IN
                      verifier.folded
                        = Plus(Plus(Msm(verifier.g, now.a), Msm(verifier.h, now.b)),
                               Scale(verifier.q, InnerProductOf(now.a, now.b)))
    BY DEF FoldedClaimHolds
  <2> DEFINE k == verifier.round
  <2>1. Active(verifier) /\ received # Idle
    BY DEF Active, IInv, PhaseInv, Idle
  <2>2. Matches(given, prover, received)
    BY <2>1, ReceivedFacts, SentType DEF Matches
  <2>3. k \in 1 .. (Len(prover.points) + 1) /\ prover.phase = "done"
    BY <2>1, <2>2, SameRounds
  <2>4. PICK s : /\ Tracks(s, prover, trail)
                 /\ verifier.g = s[k].g /\ verifier.h = s[k].h
                 /\ verifier.folded = Committed(s[k], verifier.q) <=> TrueOf(given)
    BY <2>1, <2>2, SameRounds
  <2>5. TrueOf(given)
    BY DEF TrueClaim, TrueOf
  <2>6. trail[k].a = s[k].a /\ trail[k].b = s[k].b
    BY <2>3, <2>4 DEF Tracks
  <2> QED
    BY <2>4, <2>5, <2>6 DEF Committed
<1> QED
  BY Invariance, <1>1, PTL

\* A proof is made whenever the claim is true, and where it arrives as it was
\* made it is accepted exactly when the claim is true, whatever the challenges
\* (ipa.rs:205-211).
THEOREM Verdict == Spec => []VerdictIsTruth
<1>1. IInv => VerdictIsTruth
  <2> SUFFICES ASSUME IInv PROVE VerdictIsTruth
    OBVIOUS
  <2>1. TrueClaim <=> TrueOf(given)
    BY DEF TrueClaim, TrueOf
  <2>2. ASSUME TrueClaim PROVE prover.phase # "refused"
    <3>1. Ready(given)
      BY <2>1, <2>2, TrueIsReady DEF IInv, GivenInv
    <3> QED
      BY <3>1 DEF IInv, PhaseInv, Idle
  <2>3. ASSUME received # Idle, received = sent
        PROVE  /\ verifier.phase = "accepted" => TrueClaim
               /\ verifier.phase \in {"rejected", "refused"} => ~TrueClaim
    <3>1. /\ prover.phase = "done" /\ given \in Givens /\ Proving(given, prover)
      BY <2>3, ReceivedFacts
    <3>2. /\ received.setup = given.setup /\ received.claim = given.claim
          /\ received.proof.points = prover.points
      BY <2>3, <3>1, SentType
    <3>3. Matches(given, prover, received)
      BY <3>2 DEF Matches
    <3>4. Acceptable(received.setup, received.claim, received.proof)
      <4>1. Len(prover.points) = given.claim.logLen
        BY <3>1 DEF IInv, SentInv
      <4>2. /\ ClaimLen(given.claim) = {TwoTo[given.claim.logLen]}
            /\ SupportsLen(given.setup, TwoTo[given.claim.logLen])
        BY <3>1, ReadyFacts DEF Proving
      <4> QED
        BY <3>2, <4>1, <4>2 DEF Acceptable
    <3>5. verifier.phase # "refused"
      BY <3>4 DEF IInv, PhaseInv, Idle, Active
    <3>6. ASSUME verifier.phase \in {"accepted", "rejected"}
          PROVE  verifier.phase = "accepted" <=> TrueClaim
      <4>1. Active(verifier)
        BY <3>6 DEF Active
      <4>2. Verifying(received, verifier)
        BY <4>1 DEF IInv, VerifierInv
      <4>3. verifier.round = Len(prover.points) + 1
        BY <3>2, <3>6, <4>2 DEF Verifying
      <4>4. PICK s : /\ Chain(s, given, prover) /\ verifier.q \in Pts
                     /\ verifier.g = s[verifier.round].g /\ verifier.h = s[verifier.round].h
                     /\ verifier.folded = Committed(s[verifier.round], verifier.q)
                          <=> TrueOf(given)
        BY <3>3, <4>1, SameRounds
      <4>5. Committed(s[verifier.round], verifier.q) = Expected(verifier, received.proof)
        BY <2>3, <3>1, <3>3, <4>1, <4>3, <4>4, LastExpected
      <4>6. verifier.phase = "accepted" <=> verifier.folded = Expected(verifier, received.proof)
        BY <3>6, <4>2 DEF Verifying
      <4> QED
        BY <2>1, <4>4, <4>5, <4>6
    <3> QED
      BY <3>5, <3>6
  <2> QED
    BY <2>2, <2>3 DEF VerdictIsTruth
<1> QED
  BY Invariance, <1>1, PTL

\* The two scalars of an answer stand alone at the first left and the first right
\* generator.
LEMMA ExpectedAt ==
  ASSUME NEW g \in Pts, NEW h \in Pts, NEW q \in Pts, NEW G \in Bases, NEW H \in Bases,
         g[H] = 0, h[G] = 0, q[G] = 0, q[H] = 0, NEW a \in Scalars, NEW b \in Scalars
  PROVE  LET e == Plus(Plus(Scale(g, a), Scale(h, b)), Scale(q, Mul(a, b)))
         IN  e[G] = Mul(g[G], a) /\ e[H] = Mul(h[H], b)
<1> DEFINE c == Mul(a, b)
           e == Plus(Plus(Scale(g, a), Scale(h, b)), Scale(q, c))
<1>1. \A base \in Bases : e[base] = Add(Add(Mul(g[base], a), Mul(h[base], b)), Mul(q[base], c))
  BY DEF Plus, Scale
<1>2. g[G] \in Scalars /\ h[H] \in Scalars /\ c \in Scalars
  BY ScalarRules DEF Pts
<1> HIDE DEF e, c
<1>3. Mul(0, a) = 0 /\ Mul(0, b) = 0 /\ Mul(0, c) = 0
  BY <1>2, ScalarRules
<1> DEFINE u == Mul(g[G], a)
           w == Mul(h[H], b)
<1>4. e[G] = Add(Add(u, 0), 0) /\ e[H] = Add(Add(0, w), 0)
  BY <1>1, <1>3
<1>5. u \in Scalars /\ w \in Scalars
  BY <1>2, ScalarRules
<1> HIDE DEF u, w
<1>6. Add(Add(u, 0), 0) = u /\ Add(Add(0, w), 0) = w
  BY <1>5, ResiduesAreIntegers, FieldAssumption DEF Add, Scalars
<1> QED
  BY <1>4, <1>6 DEF u, w, e, c

\* After the rounds of a proof of a true claim, no other pair of scalars than the
\* prover's is accepted.
THEOREM OneAnswer == Spec => []AlteredAnswerRejected
<1>1. IInv => AlteredAnswerRejected
  <2> SUFFICES ASSUME IInv, verifier.phase = "accepted", TrueClaim,
                      received.claim = sent.claim, received.setup = sent.setup,
                      received.proof.points = sent.proof.points
               PROVE  received = sent
    BY DEF AlteredAnswerRejected
  <2> DEFINE v == verifier
             k == v.round
             G == given.setup.g[1]
             H == given.setup.h[1]
             a == sent.proof.a
             b == sent.proof.b
             a2 == received.proof.a
             b2 == received.proof.b
  <2>1. Active(v) /\ received # Idle
    BY DEF Active, IInv, PhaseInv, Idle
  <2>2. Matches(given, prover, received)
    BY <2>1, ReceivedFacts, SentType DEF Matches
  <2>3. /\ received \in Sends /\ sent \in Sends /\ prover.phase = "done"
        /\ given \in Givens /\ v.q \in Pts
        /\ v.q = Scale(BasePoint(given.setup.q), ChallengeAt(prover.transcript, 0))
        /\ ChallengeAt(prover.transcript, 0) \in Scalars
    BY <2>1, <2>2, SameRounds
  <2>4. PICK s : /\ Chain(s, given, prover)
                 /\ v.g = s[k].g /\ v.h = s[k].h
                 /\ v.folded = Committed(s[k], v.q) <=> TrueOf(given)
    BY <2>1, <2>2, SameRounds
  <2>5. Verifying(received, v) /\ received.proof.points = prover.points
    BY <2>1, <2>2 DEF IInv, VerifierInv, Matches
  <2>6. k = Len(prover.points) + 1
    BY <2>5 DEF Verifying
  <2>7. /\ Committed(s[k], v.q) = Expected(v, sent.proof)
        /\ v.g[1] \in Pts /\ v.h[1] \in Pts
        /\ v.g[1][G] # 0 /\ v.g[1][H] = 0 /\ v.h[1][H] # 0 /\ v.h[1][G] = 0
    BY <2>1, <2>2, <2>3, <2>4, <2>6, LastExpected
  <2>8. TrueOf(given) /\ v.folded = Expected(v, received.proof)
    BY <2>5 DEF TrueClaim, TrueOf, Verifying
  <2>9. Expected(v, sent.proof) = Expected(v, received.proof)
    BY <2>4, <2>7, <2>8
  <2>10. /\ G \in Bases /\ H \in Bases
         /\ BasePoint(given.setup.q)[G] = 0 /\ BasePoint(given.setup.q)[H] = 0
    BY <2>3, <2>8, TrueIsReady, BeginningFacts
  <2>11. v.q[G] = 0 /\ v.q[H] = 0
    <3> DEFINE c == ChallengeAt(prover.transcript, 0)
    <3>1. v.q[G] = Mul(0, c) /\ v.q[H] = Mul(0, c)
      BY <2>3, <2>10 DEF Scale
    <3> HIDE DEF c
    <3>2. c \in Scalars
      BY <2>3 DEF c
    <3>3. Mul(0, c) = 0
      BY <3>2, ScalarRules
    <3> QED
      BY <3>1, <3>3
  <2>12. a \in Scalars /\ b \in Scalars /\ a2 \in Scalars /\ b2 \in Scalars
    BY <2>3 DEF Sends, Proofs
  <2> DEFINE g == v.g[1]
             h == v.h[1]
             q == v.q
  <2>13. /\ Expected(v, sent.proof) = Plus(Plus(Scale(g, a), Scale(h, b)), Scale(q, Mul(a, b)))
         /\ Expected(v, received.proof)
              = Plus(Plus(Scale(g, a2), Scale(h, b2)), Scale(q, Mul(a2, b2)))
    BY DEF Expected
  <2> DEFINE E(x, y) == Plus(Plus(Scale(g, x), Scale(h, y)), Scale(q, Mul(x, y)))
  <2>14. E(a, b) = E(a2, b2)
    BY <2>9, <2>13
  <2> HIDE DEF g, h, q, a, b, a2, b2, G, H
  <2>15. ASSUME NEW x \in Scalars, NEW y \in Scalars
         PROVE  E(x, y)[G] = Mul(g[G], x) /\ E(x, y)[H] = Mul(h[H], y)
    <3>1. /\ g \in Pts /\ h \in Pts /\ q \in Pts /\ G \in Bases /\ H \in Bases
          /\ g[H] = 0 /\ h[G] = 0 /\ q[G] = 0 /\ q[H] = 0
      BY <2>3, <2>7, <2>10, <2>11 DEF g, h, q, G, H
    <3> QED
      BY <3>1, ExpectedAt
  <2> HIDE DEF E
  <2>16. Mul(g[G], a) = Mul(g[G], a2) /\ Mul(h[H], b) = Mul(h[H], b2)
    BY <2>12, <2>14, <2>15
  <2>17. a = a2 /\ b = b2
    <3>1. /\ g \in Pts /\ h \in Pts /\ g[G] # 0 /\ h[H] # 0 /\ G \in Bases /\ H \in Bases
      BY <2>7, <2>10 DEF g, h, G, H
    <3>2. /\ g[G] \in Scalars /\ h[H] \in Scalars
      BY <3>1 DEF Pts
    <3>3. g[G] \in 1 .. (P - 1) /\ h[H] \in 1 .. (P - 1)
      BY <3>1, <3>2, ResiduesAreIntegers
    <3>4. Mul(a, g[G]) = Mul(a2, g[G]) /\ Mul(b, h[H]) = Mul(b2, h[H])
      BY <2>12, <2>16, <3>2, ScalarRules
    <3> QED
      BY <2>12, <3>3, <3>4, MulCancel
  <2>18. received.proof = sent.proof
    <3>1. /\ received.proof \in Proofs /\ sent.proof \in Proofs
          /\ received.proof.a = sent.proof.a /\ received.proof.b = sent.proof.b
      BY <2>3, <2>17 DEF Sends, a, a2, b, b2
    <3> QED
      BY <3>1 DEF Proofs
  <2> QED
    BY <2>3, <2>18 DEF Sends
<1> QED
  BY Invariance, <1>1, PTL

\* Where the two transcripts agree, so do the setup, the claim and all points so
\* far (ipa.rs:258-276).
THEOREM ChallengesBind == Spec => []ChallengesBindEverything
<1>1. IInv => ChallengesBindEverything
  <2> SUFFICES ASSUME IInv, Active(verifier),
                      verifier.transcript
                        = SubSeq(prover.transcript, 1, Len(verifier.transcript))
               PROVE  /\ received.setup = sent.setup
                      /\ received.claim = sent.claim
                      /\ \A k \in 1 .. (verifier.round - 1) :
                           received.proof.points[k] = sent.proof.points[k]
    BY DEF ChallengesBindEverything, Active
  <2> DEFINE t == prover.transcript
             u == verifier.transcript
             r == Len(prover.points)
             r2 == verifier.round - 1
             rc == received
             points == rc.proof.points
  <2>1. rc # Idle
    BY DEF Active, IInv, PhaseInv, Idle
  <2>2. rc \in Sends /\ given \in Givens /\ Proving(given, prover) /\ prover.phase = "done"
    BY <2>1, ReceivedFacts
  <2>3. /\ sent \in Sends /\ sent.setup = given.setup /\ sent.claim = given.claim
        /\ sent.proof.points = prover.points
    BY <2>2, SentType
  <2>4. Verifying(rc, verifier)
    BY DEF IInv, VerifierInv
  <2>5. r = given.claim.logLen /\ r \in Nat /\ Len(points) \in Nat
    BY <2>2 DEF IInv, SentInv, Proving, Sends, Proofs
  <2>6. Len(points) = r
    <3>1. Len(points) = Len(sent.proof.points) \/ rc.claim.logLen = sent.claim.logLen
      BY <2>1 DEF IInv, ReceivedInv
    <3>2. Len(points) = rc.claim.logLen
      BY <2>4 DEF Verifying, Acceptable
    <3> QED
      BY <2>3, <2>5, <3>1, <3>2
  <2>7. r2 \in Nat /\ r2 <= r
    BY <2>4, <2>5, <2>6 DEF Verifying
  <2>8. /\ Records(t, given.setup, given.claim, prover.points, r)
        /\ Records(u, rc.setup, rc.claim, points, r2)
    BY <2>2, <2>4 DEF Proving, Verifying
  <2>9. /\ SetupDigest(rc.setup) = SetupDigest(given.setup)
        /\ rc.claim.commitment = given.claim.commitment
        /\ rc.claim.product = given.claim.product
        /\ rc.claim.y = given.claim.y /\ rc.claim.logLen = given.claim.logLen
        /\ \A k \in 1 .. r2 : /\ points[k].l = prover.points[k].l
                              /\ points[k].r = prover.points[k].r
    <3> DEFINE setup == given.setup
               claim == given.claim
               own == prover.points
               setup2 == rc.setup
               claim2 == rc.claim
    <3>1. Records(t, setup, claim, own, r) /\ Records(u, setup2, claim2, points, r2)
          /\ u = SubSeq(t, 1, Len(u))
      BY <2>8
    <3> HIDE DEF t, u, r, r2, setup, claim, own, setup2, claim2, points
    <3>2. /\ SetupDigest(setup2) = SetupDigest(setup)
          /\ claim2.commitment = claim.commitment /\ claim2.product = claim.product
          /\ claim2.y = claim.y /\ claim2.logLen = claim.logLen
          /\ \A k \in 1 .. r2 : points[k].l = own[k].l /\ points[k].r = own[k].r
      BY <2>5, <2>7, <3>1, RecordsBind
    <3> QED
      BY <3>2 DEF setup, claim, own, setup2, claim2
  <2>10. rc.setup = given.setup
    <3>1. /\ rc.setup = [g |-> rc.setup.g, h |-> rc.setup.h, q |-> rc.setup.q]
          /\ given.setup = [g |-> given.setup.g, h |-> given.setup.h, q |-> given.setup.q]
      BY <2>2, SetupFacts DEF Sends, Givens
    <3>2. rc.setup.g = given.setup.g /\ rc.setup.h = given.setup.h
          /\ rc.setup.q = given.setup.q
      BY <2>9 DEF SetupDigest
    <3> QED
      BY <3>1, <3>2
  <2>11. rc.claim = given.claim
    <3>1. rc.claim \in Claims /\ given.claim \in Claims
      BY <2>2 DEF Sends, Givens
    <3> QED
      BY <2>9, <3>1 DEF Claims
  <2>12. ASSUME NEW k \in 1 .. r2 PROVE points[k] = prover.points[k]
    <3>1. points \in Seq(Pairs) /\ prover.points \in Seq(Pairs)
      BY <2>2 DEF Sends, Proofs, Proving
    <3>2. k \in 1 .. Len(points) /\ k \in 1 .. Len(prover.points)
      BY <2>6, <2>7
    <3>3. points[k] \in Pairs /\ prover.points[k] \in Pairs
      BY <3>1, <3>2
    <3> QED
      BY <2>9, <3>3 DEF Pairs
  <2> QED
    BY <2>3, <2>10, <2>11, <2>12
<1> QED
  BY Invariance, <1>1, PTL

=============================================================================
